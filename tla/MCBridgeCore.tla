---------------------------- MODULE MCBridgeCore ----------------------------
(* BridgeCore on small instances.  Methods: click may be forwarded, eval is *)
(* gated (script.execute without BRP_ALLOW_SCRIPT_EXECUTE), bogus unknown.  *)
EXTENDS BridgeCore, TLC

CONSTANTS c1, c2, click, eval, bogus

\* The first client sends one request more than the second, so that a late
\* reply to an abandoned request meets a new one.
TwoAndOne == (c1 :> 2) @@ (c2 :> 1)
OneEach == (c1 :> 1) @@ (c2 :> 1)
\* Initialize, then one request.
TwoAlone == (c1 :> 2)

\* Sockets are interchangeable (safety runs only).
Symmetric == Permutations(Conn)
=============================================================================
