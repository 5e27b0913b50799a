--------------------------- MODULE MCImageViewer ---------------------------
(* Instances of ImageViewer for TLC. *)
EXTENDS ImageViewer

CONSTANTS a, b, c, d

\* d has the name of c, in another folder.
Names == [p \in Paths |-> IF p = d THEN c ELSE p]

\* With Good = {c, d}: nothing to show, a single file that is no picture, a picture
\* after one, two pictures of the same name found by a search, and nothing at all.
FiveFolders == {<<a, b>>, <<a>>, <<a, c>>, <<c, d>>, <<>>}
=============================================================================
