-------------------------- MODULE MCThumbnailCache --------------------------
(* Instances of ThumbnailCache for TLC. *)
EXTENDS ThumbnailCache, TLC

\* The files are interchangeable.
FilesSymmetry == Permutations(Files)
=============================================================================
