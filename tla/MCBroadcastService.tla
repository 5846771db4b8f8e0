------------------------- MODULE MCBroadcastService -------------------------
(* Small instances of BroadcastService for TLC.                             *)
EXTENDS BroadcastService, TLC

CONSTANTS c1, c2, s1, s2, g1, g2, r

(* A client of each of two streams.                                         *)
EachItsStream == (c1 :> s1) @@ (c2 :> s2)

(* Two generators of the first stream, the second for after a stop.         *)
OneFeed == (g1 :> s1) @@ (g2 :> s1)
=============================================================================
