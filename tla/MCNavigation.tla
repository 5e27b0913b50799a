---------------------------- MODULE MCNavigation ----------------------------
(***************************************************************************)
(* A desktop with folders a and c, and b inside a.                         *)
(***************************************************************************)
EXTENDS Navigation

CONSTANTS root, a, b, c

MCParent(f) == IF f = b THEN a ELSE root
=============================================================================
