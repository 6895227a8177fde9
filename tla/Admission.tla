------------------------------ MODULE Admission ------------------------------
(***************************************************************************)
(* How a TCP connection becomes a client or an extension (ws_server.rs):   *)
(* the accept loop asks the RateLimiter (ratelimit.rs), a task per         *)
(* connection runs the WebSocket handshake, reads the first message with a *)
(* ten-second timeout, checks its token, and gives its slot of the         *)
(* unauthenticated connections back on exactly one of its many exits.      *)
(***************************************************************************)
EXTENDS Integers, FiniteSets

CONSTANTS
  Peer,          \* TCP connections
  MaxUnauth,     \* MAX_UNAUTHENTICATED_CONNECTIONS (5)
  MaxPerSecond,  \* MAX_CONNECTIONS_PER_SECOND (10)
  Second,        \* clock ticks in the sliding window
  MaxClock       \* bound: how long the clock runs

ASSUME AdmissionAssumption ==
  /\ IsFiniteSet(Peer)
  /\ MaxUnauth \in Nat /\ MaxPerSecond \in Nat /\ Second \in Nat \ {0} /\ MaxClock \in Nat

VARIABLES
  stage,   \* where each connection's task is
  unauth,  \* RateLimiter.unauthenticated_count
  recent,  \* RateLimiter.recent_connections: the accepted connections still in the window
  at,      \* [Peer -> Int]: when the rate limiter let the connection in; -1 if it has not
  clock

vars == <<stage, unauth, recent, at, clock>>

\* Stages of a task that holds a slot of the unauthenticated connections.
Slotted == {"handshake", "first", "client_auth", "register", "admit_client", "admit_extension"}
Stages == {"new", "refused", "failed", "client", "extension"} \cup Slotted

TypeOK ==
  /\ stage \in [Peer -> Stages]
  /\ unauth \in 0..MaxUnauth
  /\ recent \in SUBSET Peer
  /\ at \in [Peer -> Int]
  /\ clock \in Nat

Init == /\ stage = [p \in Peer |-> "new"] /\ unauth = 0 /\ recent = {}
        /\ at = [p \in Peer |-> -1] /\ clock = 0

Goto(p, s) == stage' = [stage EXCEPT ![p] = s]
-----------------------------------------------------------------------------
\* Mutant of Prune: the window is one tick short.
PruneEarly == {p \in recent : clock - at[p] < Second - 1}

Prune == {p \in recent : clock - at[p] < Second}

\* check_connection: prune the window, then the two limits; only a
\* connection that passes both is recorded.
Refused(p) ==
  /\ stage[p] = "new"
  /\ Cardinality(Prune) >= MaxPerSecond \/ unauth >= MaxUnauth
  /\ recent' = Prune
  /\ Goto(p, "refused")
  /\ UNCHANGED <<unauth, at, clock>>

\* Mutant of Accepted: the limit is compared with > instead of >=.
AcceptedOneMore(p) ==
  /\ stage[p] = "new"
  /\ Cardinality(Prune) < MaxPerSecond /\ unauth <= MaxUnauth
  /\ recent' = Prune \cup {p}
  /\ at' = [at EXCEPT ![p] = clock]
  /\ unauth' = unauth + 1
  /\ Goto(p, "handshake")
  /\ UNCHANGED clock

Accepted(p) ==
  /\ stage[p] = "new"
  /\ Cardinality(Prune) < MaxPerSecond /\ unauth < MaxUnauth
  /\ recent' = Prune \cup {p}
  /\ at' = [at EXCEPT ![p] = clock]
  /\ unauth' = unauth + 1
  /\ Goto(p, "handshake")
  /\ UNCHANGED clock

\* on_authenticated and on_auth_failed: saturating_sub.
ReleaseSlot == unauth' = IF unauth = 0 THEN 0 ELSE unauth - 1

\* Mutant of Fail: an early return that forgets on_auth_failed.
FailKeepsSlot(p, s) ==
  stage[p] = s /\ Goto(p, "failed") /\ UNCHANGED <<unauth, recent, at, clock>>

\* An exit of stage s through on_auth_failed: handshake rejected; no text
\* message in time, too large, not JSON, too deep; not a register message;
\* token not valid.
Fail(p, s) ==
  stage[p] = s /\ Goto(p, "failed") /\ ReleaseSlot /\ UNCHANGED <<recent, at, clock>>

\* accept_hdr_async ends with an accepted origin, whenever the peer sends
\* its upgrade request: no timeout.
Upgrade(p) ==
  stage[p] = "handshake" /\ Goto(p, "first") /\ UNCHANGED <<unauth, recent, at, clock>>

\* The first message is register_client, or anything else.
FirstMessage(p) ==
  /\ stage[p] = "first"
  /\ Goto(p, "client_auth") \/ Goto(p, "register")
  /\ UNCHANGED <<unauth, recent, at, clock>>

\* is_valid_token says yes; the slot is given back in a later step, under
\* the limiter's lock.
TokenValid(p) ==
  /\ \/ stage[p] = "client_auth" /\ Goto(p, "admit_client")
     \/ stage[p] = "register" /\ Goto(p, "admit_extension")
  /\ UNCHANGED <<unauth, recent, at, clock>>

Admit(p) ==
  /\ \/ stage[p] = "admit_client" /\ Goto(p, "client")
     \/ stage[p] = "admit_extension" /\ Goto(p, "extension")
  /\ ReleaseSlot
  /\ UNCHANGED <<recent, at, clock>>

Tick == /\ clock < MaxClock /\ clock' = clock + 1
        /\ UNCHANGED <<stage, unauth, recent, at>>

\* Mutant of PeekFails: receiver.next() is awaited without a timeout.
PeekNeverFails(p) == FALSE

\* peek_first_message: at the latest when its ten seconds are over.
PeekFails(p) == Fail(p, "first")

TaskStep(p) ==
  \/ Fail(p, "handshake") \/ Upgrade(p)
  \/ PeekFails(p) \/ FirstMessage(p)
  \/ Fail(p, "client_auth") \/ Fail(p, "register") \/ TokenValid(p) \/ Admit(p)

Next == (\E p \in Peer : Refused(p) \/ Accepted(p) \/ TaskStep(p)) \/ Tick

Spec == Init /\ [][Next]_vars

\* The accept loop and the tasks run; nothing makes a peer send its upgrade
\* request or a message.
FairSpec ==
  /\ Spec
  /\ \A p \in Peer : /\ WF_vars(Refused(p) \/ Accepted(p))
                     /\ WF_vars(PeekFails(p))
                     /\ WF_vars(Fail(p, "client_auth") \/ Fail(p, "register")
                                \/ TokenValid(p) \/ Admit(p))
-----------------------------------------------------------------------------
\* The counter is the number of connections between the limiter and their
\* authentication: no exit of handle_ws_connection leaks a slot (which would
\* lock everybody out in the end) or returns one twice (which saturating_sub
\* would hide, and which would let more than the limit in).
SlotsAccounted == unauth = Cardinality({p \in Peer : stage[p] \in Slotted})

\* No window of one second, wherever it starts, admits more than the limit.
WindowRespected ==
  \A from \in 0..clock :
    Cardinality({p \in Peer : at[p] \in from..(from + Second - 1)}) <= MaxPerSecond

\* A connection that has completed its handshake gives its slot back, whatever
\* its peer does.
FirstMessageDecided == \A p \in Peer : (stage[p] = "first") ~> (stage[p] \notin Slotted)
=============================================================================
