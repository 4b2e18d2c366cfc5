----------------------------- MODULE MCAccounts -----------------------------
(***************************************************************************)
(* Small instances of Accounts for TLC.                                    *)
(***************************************************************************)
EXTENDS Accounts, TLC

CONSTANTS a, m

\* An administrator and a member; nobody, before the first seed.
MCInitAccounts ==
  {<<[email |-> a, roles |-> {"ADMIN"}, active |-> TRUE, deleted |-> FALSE],
     [email |-> m, roles |-> {"MEMBER"}, active |-> TRUE, deleted |-> FALSE]>>,
   << >>}

MCSeedGroups ==
  <<{[email |-> a, role |-> "ADMIN"]}, {[email |-> m, role |-> "MEMBER"]}>>

Symmetry == Permutations(Proc)
=============================================================================
