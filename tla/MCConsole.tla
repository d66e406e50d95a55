----------------------------- MODULE MCConsole -----------------------------
(* Three cores that make one call each, and lines of two characters.   *)
EXTENDS Console
=============================================================================
