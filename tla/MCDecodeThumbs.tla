--------------------------- MODULE MCDecodeThumbs ---------------------------
(* Instances of DecodeThumbs for TLC. *)
EXTENDS DecodeThumbs, TLC

CONSTANTS a, b, p, q, every, some

\* Directory p holds a, and directory q, which holds b.
MCListing == (p :> {a}) @@ (q :> {b})
MCTree == (p :> {a, b}) @@ (q :> {b})

\* Two searches: one finds every file, the other only a.  The default finds nothing.
MCMatching == (every :> {a, b}) @@ (some :> {a}) @@ (NoSpec :> {})
=============================================================================
