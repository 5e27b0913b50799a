--------------------------- MODULE BrowserHistory ---------------------------
(***************************************************************************)
(* What the Back and Forward buttons promise: a visited place, the places  *)
(* behind it and the places ahead of it.  Visiting a place puts the old    *)
(* one behind and forgets what was ahead; only so many are remembered.     *)
(***************************************************************************)
EXTENDS Naturals, Sequences

CONSTANTS
  Places,
  Remembered   \* places kept, the visited one included: two at least

VARIABLES back, here, forward

placeVars == <<back, here, forward>>

\* The last n elements of s, or all of them.
Newest(s, n) == IF Len(s) > n THEN SubSeq(s, Len(s) - n + 1, Len(s)) ELSE s

Start == back = <<>> /\ here \in Places /\ forward = <<>>

Visit(place) ==
  /\ place # here
  /\ back' = Newest(Append(back, here), Remembered - 1)
  /\ here' = place
  /\ forward' = <<>>

\* n places back, or forward.
GoBack(n) ==
  /\ here' = back[Len(back) - n + 1]
  /\ back' = SubSeq(back, 1, Len(back) - n)
  /\ forward' = SubSeq(back, Len(back) - n + 2, Len(back)) \o <<here>> \o forward

GoForward(n) ==
  /\ here' = forward[n]
  /\ back' = back \o <<here>> \o SubSeq(forward, 1, n - 1)
  /\ forward' = SubSeq(forward, n + 1, Len(forward))

\* The application is started again.
Restart == back' = <<>> /\ here' \in Places /\ forward' = <<>>

Step ==
  \/ \E place \in Places : Visit(place)
  \/ \E n \in 1 .. Len(back) : GoBack(n)
  \/ \E n \in 1 .. Len(forward) : GoForward(n)
  \/ Restart

Browsing == Start /\ [][Step]_placeVars
=============================================================================
