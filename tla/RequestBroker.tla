---------------------------- MODULE RequestBroker ----------------------------
(***************************************************************************)
(* What the bridge promises to its clients, with no sockets, ids, locks or *)
(* timers: each client has one request open at a time; a request may be    *)
(* handed to a browser once; a browser runs it at most once, perhaps after *)
(* the client has been answered; the verdict a client gets is              *)
(*   "result"    only if the request has run,                              *)
(*   "rejected"  only if it has not been handed out and never will be,     *)
(*   "uncertain" otherwise (disconnect, timeout, failed send, local).      *)
(***************************************************************************)
EXTENDS Integers

CONSTANT Client

VARIABLES
  phase,      \* [Client -> {"idle", "busy"}]
  num,        \* [Client -> Nat]: requests sent so far
  verdict,    \* [Client -> {"none", "result", "rejected", "uncertain"}]
  dispatched, \* <<client, n>> handed to a browser
  executed    \* <<client, n>> run by a browser

vars == <<phase, num, verdict, dispatched, executed>>

Verdicts == {"result", "rejected", "uncertain"}

Current(c) == <<c, num[c]>>

Init == /\ phase = [c \in Client |-> "idle"]
        /\ num = [c \in Client |-> 0]
        /\ verdict = [c \in Client |-> "none"]
        /\ dispatched = {} /\ executed = {}

\* A new request; it may be rejected on the spot.
Submit(c) ==
  /\ phase[c] = "idle"
  /\ phase' = [phase EXCEPT ![c] = "busy"]
  /\ num' = [num EXCEPT ![c] = @ + 1]
  /\ \E v \in {"none", "rejected", "uncertain"} : verdict' = [verdict EXCEPT ![c] = v]
  /\ UNCHANGED <<dispatched, executed>>

Dispatch(c) ==
  /\ phase[c] = "busy" /\ verdict[c] = "none" /\ Current(c) \notin dispatched
  /\ dispatched' = dispatched \cup {Current(c)}
  /\ UNCHANGED <<phase, num, verdict, executed>>

Run(r) ==
  /\ r \in dispatched \ executed
  /\ executed' = executed \cup {r}
  /\ UNCHANGED <<phase, num, verdict, dispatched>>

Decide(c, v) ==
  /\ phase[c] = "busy" /\ verdict[c] = "none"
  /\ v = "result" => Current(c) \in executed
  /\ v = "rejected" => Current(c) \notin dispatched
  /\ verdict' = [verdict EXCEPT ![c] = v]
  /\ UNCHANGED <<phase, num, dispatched, executed>>

Close(c) ==
  /\ phase[c] = "busy" /\ verdict[c] # "none"
  /\ phase' = [phase EXCEPT ![c] = "idle"]
  /\ verdict' = [verdict EXCEPT ![c] = "none"]
  /\ UNCHANGED <<num, dispatched, executed>>

Next == \/ \E c \in Client : \/ Submit(c) \/ Dispatch(c) \/ Close(c)
                             \/ \E v \in Verdicts : Decide(c, v)
        \/ \E r \in dispatched : Run(r)

Spec == Init /\ [][Next]_vars
=============================================================================
