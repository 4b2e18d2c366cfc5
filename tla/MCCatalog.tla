----------------------------- MODULE MCCatalog -----------------------------
(***************************************************************************)
(* Small instances of Catalog for TLC.                                     *)
(***************************************************************************)
EXTENDS Catalog, TLC

CONSTANTS a, home

\* One restaurant, named like its country, with two categories of one name, that
\* were created at the same time.
MCInitRows ==
  {<<NewRow("restaurant", home, 0, home, 0), NewRow("category", home, 1, None, 0),
     NewRow("category", home, 1, None, 0)>>}

MCSeedRows == <<[name |-> a, country |-> home]>>
MCSeedMenu == <<[kind |-> "category", name |-> a, parent |-> 0],
                [kind |-> "item", name |-> home, parent |-> 1]>>

\* One row after the first.
MCPages == {[skip |-> 1, limit |-> 1]}

Symmetry == Permutations(Proc)
=============================================================================
