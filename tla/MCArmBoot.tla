----------------------------- MODULE MCArmBoot -----------------------------
(* Either machine, with and without a WFE that returns for no reason, and  *)
(* a bss of two words.                                                     *)
EXTENDS ArmBoot
=============================================================================
