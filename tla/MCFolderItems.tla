---------------------------- MODULE MCFolderItems ----------------------------
(***************************************************************************)
(* Three files, ranked one way by name and another by size, where two are  *)
(* equal; r is a result in a subfolder.                                    *)
(***************************************************************************)
EXTENDS FolderItems

CONSTANTS a, b, c, r

MCRank(order, f) ==
  CASE order = "name" -> (CASE f = a -> 1 [] f = b -> 2 [] f = c -> 3 [] OTHER -> 4)
    [] OTHER          -> (CASE f = c -> 1 [] f = r -> 3 [] OTHER -> 2)
=============================================================================
