----------------------------- MODULE MCKdbgProbe -----------------------------
(***************************************************************************)
(* Model-checking instance of KdbgProbe: the CPUs are model values.       *)
(***************************************************************************)
EXTENDS KdbgProbe

=============================================================================
