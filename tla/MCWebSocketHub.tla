--------------------------- MODULE MCWebSocketHub ---------------------------
(* Small instances of WebSocketHub for TLC.                                 *)
EXTENDS WebSocketHub, TLC

CONSTANTS c1, c2, i1

(* Two connections that ask for the same id.                                *)
SameId == (c1 :> i1) @@ (c2 :> i1)
=============================================================================
