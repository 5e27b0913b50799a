-------------------------- MODULE MCPictureEditing --------------------------
(***************************************************************************)
(* Two files, which may be exchanged: every property treats them alike.    *)
(***************************************************************************)
EXTENDS PictureEditing, TLC

PathSymmetry == Permutations(Paths)
=============================================================================
