---------------------------- MODULE MCArmKernel ----------------------------
(* Core 0 alone, as under QEMU, and several cores, as on the board.        *)
EXTENDS ArmKernel

MCKernels ==
    [cores : {{0}, {0, 2}}, kernelMain : BOOLEAN]
    \cup [cores : {{0, 1, 2}}, kernelMain : {FALSE}]
=============================================================================
