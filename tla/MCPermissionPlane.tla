--------------------------- MODULE MCPermissionPlane ---------------------------
(***************************************************************************)
(* A small instance of PermissionPlane: two calls of a subagent that ask   *)
(* for the same thing, in a tree whose mode is that of its root.           *)
(***************************************************************************)
EXTENDS PermissionPlane

CONSTANTS a1, a2, root, child, key, c1, c2

MCSession(a) == child
MCKey(a) == key
MCKind(k) == "exact"
MCRootOf(s) == root
================================================================================
