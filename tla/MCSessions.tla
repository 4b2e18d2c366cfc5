----------------------------- MODULE MCSessions -----------------------------
(***************************************************************************)
(* Small instances of Sessions for TLC; the configurations give the        *)
(* constants their values.                                                 *)
(***************************************************************************)
EXTENDS Sessions, TLC

\* Users, devices and processes are interchangeable.
Symmetry == Permutations(User) \cup Permutations(Device) \cup Permutations(Proc)
=============================================================================
