-------------------------- MODULE MCLoaderRequests --------------------------
(* Instance of LoaderRequests for TLC. *)
EXTENDS LoaderRequests

\* Every request in both kinds: a picture, and a slide to be held.
MCLoads == [seq : 1..MaxAsks, _bDelay : BOOLEAN]
=============================================================================
