--------------------------- MODULE MCPermissions ---------------------------
(***************************************************************************)
(* Small instances of Permissions for TLC.                                 *)
(***************************************************************************)
EXTENDS Permissions, TLC

CONSTANTS admin, member, create, read, audit

\* Two builds: the second gives a permission to the members as well, and the
\* other one to them alone.  Only the seed knows the third.
MCVersions ==
  {(create :> {admin}) @@ (read :> {admin}),
   (create :> {admin, member}) @@ (read :> {member})}

MCAllRoles == <<admin, member>>
MCRoleLists == {MCAllRoles, <<member>>}
Symmetry == Permutations(Proc)
=============================================================================
