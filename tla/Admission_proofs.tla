--------------------------- MODULE Admission_proofs ---------------------------
(***************************************************************************)
(* The slot accounting and the rate window of Admission, for any number of *)
(* connections and any limits.  Two facts are added to make the rate       *)
(* window inductive: admissions lie in the past, and the limiter's list    *)
(* still holds every admission younger than a second.                      *)
(***************************************************************************)
EXTENDS Admission, FiniteSetTheorems, TLAPS

Unauthenticated == {p \in Peer : stage[p] \in Slotted}

\* A connection has an admission time once the limiter has let it in.
AdmittedInThePast ==
  \A p \in Peer : /\ at[p] \in -1..clock
                  /\ stage[p] = "new" => at[p] = -1

RecentComplete ==
  \A p \in Peer : at[p] # -1 /\ clock - at[p] < Second => p \in recent

\* The connections admitted in the window that starts at `from`.
Window(from) == {p \in Peer : at[p] \in from..(from + Second - 1)}

IInv == TypeOK /\ SlotsAccounted /\ AdmittedInThePast /\ RecentComplete /\ WindowRespected

-----------------------------------------------------------------------------
\* Every set of connections is finite.
LEMMA FinitePeers ==
  ASSUME NEW S \in SUBSET Peer
  PROVE  IsFiniteSet(S) /\ Cardinality(S) \in Nat
  BY AdmissionAssumption, FS_Subset, FS_CardinalityType

\* A task moves its own connection to a stage and leaves the others alone.
LEMMA StageOf ==
  ASSUME TypeOK, NEW p \in Peer, NEW s \in Stages, Goto(p, s)
  PROVE  /\ stage' \in [Peer -> Stages] /\ stage'[p] = s
         /\ \A q \in Peer : q # p => stage'[q] = stage[q]
  BY DEF TypeOK, Goto

\* The bridge starts with no connection: nothing is counted and nothing admitted.
LEMMA InitInv == Init => IInv
<1> SUFFICES ASSUME Init PROVE IInv
  OBVIOUS
<1>1. TypeOK /\ AdmittedInThePast /\ RecentComplete
  BY AdmissionAssumption
  DEF Init, TypeOK, Stages, Slotted, AdmittedInThePast, RecentComplete
<1>2. SlotsAccounted
  <2>1. Unauthenticated = {}
    BY DEF Init, Unauthenticated, Slotted
  <2>2. QED
    BY <2>1, FS_EmptySet DEF Init, SlotsAccounted, Unauthenticated
<1>3. WindowRespected
  <2>1. ASSUME NEW from \in 0..clock PROVE Cardinality(Window(from)) <= MaxPerSecond
    <3>1. Window(from) = {}
      BY <2>1, AdmissionAssumption DEF Init, Window
    <3>2. QED
      BY <3>1, FS_EmptySet, AdmissionAssumption
  <2>2. QED
    BY <2>1 DEF WindowRespected, Window
<1>4. QED
  BY <1>1, <1>2, <1>3 DEF IInv

\* Nothing but an admission or a tick touches the rate window.
LEMMA WindowKept ==
  ASSUME IInv, UNCHANGED <<recent, at, clock>>,
         \A p \in Peer : stage'[p] = "new" => stage[p] = "new"
  PROVE  AdmittedInThePast' /\ RecentComplete' /\ WindowRespected'
  BY DEF IInv, AdmittedInThePast, RecentComplete, WindowRespected

\* A connection that leaves the unauthenticated ones gives its slot back.
LEMMA ReleaseKeeps ==
  ASSUME IInv, NEW p \in Peer, stage[p] \in Slotted, NEW s \in Stages \ Slotted,
         Goto(p, s), ReleaseSlot
  PROVE  SlotsAccounted' /\ unauth' \in 0..MaxUnauth
<1>1. TypeOK /\ unauth = Cardinality(Unauthenticated) /\ Unauthenticated \in SUBSET Peer
  BY DEF IInv, SlotsAccounted, Unauthenticated
<1>2. Unauthenticated' = Unauthenticated \ {p} /\ p \in Unauthenticated
  BY <1>1, StageOf DEF Unauthenticated
<1>3. Cardinality(Unauthenticated') = Cardinality(Unauthenticated) - 1
  BY <1>1, <1>2, FinitePeers, FS_RemoveElement
<1>4. Cardinality(Unauthenticated) \in Nat /\ Cardinality(Unauthenticated') \in Nat
  BY <1>1, <1>2, FinitePeers
<1>5. QED
  BY <1>1, <1>3, <1>4, AdmissionAssumption DEF ReleaseSlot, SlotsAccounted, Unauthenticated, TypeOK

\* A step inside the unauthenticated stages, or outside, keeps the count.
LEMMA MoveKeeps ==
  ASSUME IInv, NEW p \in Peer, NEW s \in Stages, Goto(p, s), UNCHANGED unauth,
         stage[p] \in Slotted <=> s \in Slotted
  PROVE  SlotsAccounted'
<1>1. Unauthenticated' = Unauthenticated
  BY StageOf DEF IInv, Unauthenticated
<1>2. QED
  BY <1>1 DEF IInv, SlotsAccounted, Unauthenticated

\* A connection the limiter lets in.
LEMMA AcceptedInv ==
  ASSUME IInv, NEW p \in Peer, Accepted(p)
  PROVE  IInv'
<1>1. /\ TypeOK /\ stage[p] = "new" /\ Goto(p, "handshake") /\ clock' = clock
      /\ unauth' = unauth + 1 /\ recent' = Prune \cup {p}
      /\ at' = [at EXCEPT ![p] = clock] /\ Cardinality(Prune) < MaxPerSecond
      /\ unauth < MaxUnauth
  BY DEF Accepted, IInv
<1>2. /\ stage' \in [Peer -> Stages] /\ stage'[p] = "handshake"
      /\ \A q \in Peer : q # p => stage'[q] = stage[q]
  BY <1>1, StageOf DEF Stages, Slotted
<1>3. /\ at' \in [Peer -> Int] /\ at'[p] = clock /\ at[p] = -1
      /\ \A q \in Peer : q # p => at'[q] = at[q]
  BY <1>1 DEF TypeOK, IInv, AdmittedInThePast
<1>4. TypeOK'
  <2>1. unauth' \in 0..MaxUnauth
    BY <1>1, AdmissionAssumption DEF TypeOK
  <2>2. QED
    BY <1>1, <1>2, <1>3, <2>1 DEF TypeOK, Prune
<1>5. SlotsAccounted'
  <2>1. Unauthenticated' = Unauthenticated \cup {p} /\ p \notin Unauthenticated
    BY <1>1, <1>2 DEF Unauthenticated, Slotted
  <2>2. Cardinality(Unauthenticated') = Cardinality(Unauthenticated) + 1
    <3>1. IsFiniteSet(Unauthenticated)
      BY FinitePeers DEF Unauthenticated
    <3>2. QED
      BY <2>1, <3>1, FS_AddElement
  <2>3. QED
    BY <1>1, <2>2 DEF IInv, SlotsAccounted, Unauthenticated
<1>6. AdmittedInThePast' /\ RecentComplete'
  BY <1>1, <1>2, <1>3 DEF IInv, TypeOK, AdmittedInThePast, RecentComplete, Prune
<1>7. WindowRespected'
  <2>1. ASSUME NEW from \in 0..clock PROVE Cardinality(Window(from)') <= MaxPerSecond
    <3>1. CASE p \in Window(from)'
      <4>1. Window(from)' = Window(from) \cup {p} /\ p \notin Window(from)
        BY <1>1, <1>3, <3>1, AdmissionAssumption DEF Window, TypeOK
      <4>2. Window(from) \subseteq Prune
        <5>1. ASSUME NEW q \in Window(from) PROVE q \in Prune
          <6>1. clock \in from..(from + Second - 1)
            BY <1>1, <1>3, <3>1 DEF Window
          <6>2. at[q] \in Int /\ at[q] >= from /\ at[q] # -1 /\ q \in Peer
            BY <1>1 DEF Window, TypeOK
          <6>3. clock - at[q] < Second
            BY <1>1, <6>1, <6>2, AdmissionAssumption DEF TypeOK
          <6>4. QED
            BY <6>2, <6>3 DEF IInv, RecentComplete, Prune
        <5>2. QED
          BY <5>1
      <4>3. /\ IsFiniteSet(Prune) /\ Cardinality(Prune) \in Nat
            /\ IsFiniteSet(Window(from)) /\ Cardinality(Window(from)) \in Nat
        BY <1>1, FinitePeers DEF Prune, Window, TypeOK
      <4>4. Cardinality(Window(from)) <= Cardinality(Prune)
        BY <4>2, <4>3, FS_Subset
      <4>5. Cardinality(Window(from)') = Cardinality(Window(from)) + 1
        BY <4>1, <4>3, FS_AddElement
      <4>6. QED
        BY <1>1, <4>3, <4>4, <4>5, AdmissionAssumption
    <3>2. CASE p \notin Window(from)'
      <4>1. Window(from)' = Window(from)
        BY <1>1, <1>3, <3>2, AdmissionAssumption DEF Window, TypeOK
      <4>2. QED
        BY <4>1 DEF IInv, WindowRespected, Window
    <3>3. QED
      BY <3>1, <3>2
  <2>2. QED
    BY <1>1, <2>1 DEF WindowRespected, Window
<1>8. QED
  BY <1>4, <1>5, <1>6, <1>7 DEF IInv

\* A connection the limiter turns away: the pruned list keeps what is young.
LEMMA RefusedInv ==
  ASSUME IInv, NEW p \in Peer, Refused(p)
  PROVE  IInv'
<1>1. /\ TypeOK /\ stage[p] = "new" /\ Goto(p, "refused")
      /\ recent' = Prune /\ UNCHANGED <<unauth, at, clock>>
  BY DEF Refused, IInv
<1>2. /\ stage' \in [Peer -> Stages] /\ stage'[p] = "refused"
      /\ \A q \in Peer : q # p => stage'[q] = stage[q]
  BY <1>1, StageOf DEF Stages
<1>3. TypeOK'
  BY <1>1, <1>2 DEF TypeOK, Prune
<1>4. SlotsAccounted'
  BY <1>1, MoveKeeps DEF Slotted, Stages
<1>5. AdmittedInThePast' /\ RecentComplete'
  BY <1>1, <1>2 DEF IInv, AdmittedInThePast, RecentComplete, Prune
<1>6. WindowRespected'
  BY <1>1 DEF IInv, WindowRespected
<1>7. QED
  BY <1>3, <1>4, <1>5, <1>6 DEF IInv

\* The steps of a connection's own task.
LEMMA TaskStepInv ==
  ASSUME IInv, NEW p \in Peer, TaskStep(p)
  PROVE  IInv'
<1>1. /\ TypeOK /\ UNCHANGED <<recent, at, clock>>
      /\ \/ \E s \in Stages \ Slotted : stage[p] \in Slotted /\ Goto(p, s) /\ s # "new" /\ ReleaseSlot
         \/ \E s \in Slotted : stage[p] \in Slotted /\ Goto(p, s) /\ UNCHANGED unauth
  BY DEF TaskStep, Fail, PeekFails, Upgrade, FirstMessage, TokenValid, Admit, Stages, Slotted, IInv
<1>2. PICK s \in Stages : Goto(p, s) /\ s # "new"
  BY <1>1 DEF Stages, Slotted
<1>3. stage' \in [Peer -> Stages] /\ \A q \in Peer : stage'[q] = "new" => stage[q] = "new"
  BY <1>1, <1>2, StageOf
<1>4. SlotsAccounted' /\ unauth' \in 0..MaxUnauth
  <2>1. CASE \E x \in Stages \ Slotted : stage[p] \in Slotted /\ Goto(p, x) /\ ReleaseSlot
    BY <2>1, ReleaseKeeps
  <2>2. CASE \E x \in Slotted : stage[p] \in Slotted /\ Goto(p, x) /\ UNCHANGED unauth
    <3>1. PICK x \in Slotted : stage[p] \in Slotted /\ Goto(p, x) /\ UNCHANGED unauth
      BY <2>2
    <3>2. x \in Stages
      BY DEF Stages
    <3>3. QED
      BY <1>1, <3>1, <3>2, MoveKeeps DEF TypeOK
  <2>3. QED
    BY <1>1, <2>1, <2>2
<1>5. TypeOK'
  BY <1>1, <1>3, <1>4 DEF TypeOK
<1>6. QED
  BY <1>1, <1>3, <1>4, <1>5, WindowKept DEF IInv

\* Time passes: no admission lies in the newest window yet.
LEMMA TickInv ==
  ASSUME IInv, Tick
  PROVE  IInv'
<1>1. TypeOK /\ clock' = clock + 1 /\ UNCHANGED <<stage, unauth, recent, at>>
  BY DEF Tick, IInv
<1>2. TypeOK' /\ SlotsAccounted'
  BY <1>1 DEF IInv, TypeOK, SlotsAccounted
<1>3. AdmittedInThePast' /\ RecentComplete'
  BY <1>1, AdmissionAssumption DEF IInv, TypeOK, AdmittedInThePast, RecentComplete
<1>4. WindowRespected'
  <2>1. ASSUME NEW from \in 0..(clock + 1) PROVE Cardinality(Window(from)') <= MaxPerSecond
    <3>1. Window(from)' = Window(from)
      BY <1>1 DEF Window
    <3>2. CASE from = clock + 1
      <4>1. Window(from) = {}
        BY <1>1, <3>2 DEF IInv, AdmittedInThePast, TypeOK, Window
      <4>2. QED
        BY <3>1, <4>1, FS_EmptySet, AdmissionAssumption
    <3>3. CASE from \in 0..clock
      BY <3>1, <3>3 DEF IInv, WindowRespected, Window
    <3>4. QED
      BY <1>1, <3>2, <3>3 DEF TypeOK
  <2>2. QED
    BY <1>1, <2>1 DEF WindowRespected, Window
<1>5. QED
  BY <1>2, <1>3, <1>4 DEF IInv

\* Every step of the accept loop, a connection task or the clock keeps IInv.
LEMMA NextInv == IInv /\ [Next]_vars => IInv'
<1> SUFFICES ASSUME IInv, [Next]_vars PROVE IInv'
  OBVIOUS
<1>1. CASE Next
  BY <1>1, AcceptedInv, RefusedInv, TaskStepInv, TickInv DEF Next
<1>2. CASE UNCHANGED vars
  BY <1>2
  DEF vars, IInv, TypeOK, SlotsAccounted, AdmittedInThePast, RecentComplete, WindowRespected
<1>3. QED
  BY <1>1, <1>2

\* The limiter never lets more than MAX_UNAUTHENTICATED_CONNECTIONS wait for
\* their authentication at one time.
THEOREM LimitIsRespected == Spec => []TypeOK
<1>1. IInv => TypeOK
  BY DEF IInv
<1>2. QED
  BY <1>1, InitInv, NextInv, PTL DEF Spec

\* No exit of handle_ws_connection leaks or doubles a slot: the limiter's
\* counter is the number of unauthenticated connections, in every behaviour.
THEOREM SlotsAreAccounted == Spec => []SlotsAccounted
<1>1. IInv => SlotsAccounted
  BY DEF IInv
<1>2. QED
  BY <1>1, InitInv, NextInv, PTL DEF Spec

\* No second, wherever it starts, admits more connections than the limit.
THEOREM WindowIsRespected == Spec => []WindowRespected
<1>1. IInv => WindowRespected
  BY DEF IInv
<1>2. QED
  BY <1>1, InitInv, NextInv, PTL DEF Spec
=============================================================================
