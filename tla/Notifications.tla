---------------------------- MODULE Notifications ----------------------------
(***************************************************************************)
(* The path of a notification: an extension writes it to its socket, the   *)
(* reader task of that connection (handle_ext_messages) takes a sequence   *)
(* number under the state lock, releases the lock, and then sends the      *)
(* numbered notification into the bounded channel notify_tx; the stdout    *)
(* writer (native_msg.rs) drains the channel.  The same reader task reads  *)
(* the replies to forwarded requests and notices the end of the            *)
(* connection, so whatever blocks its send holds those up too.             *)
(***************************************************************************)
EXTENDS Integers, FiniteSets, SequencesExt

CONSTANTS
  Conn,      \* extension connections, each registered
  MaxNotes,  \* bound: notifications each extension emits
  MaxReplies,\* bound: replies each extension writes
  Cap,       \* capacity of notify_tx (64)
  Drained    \* whether the stdout writer runs (native messaging mode)

ASSUME NotificationsAssumption ==
  /\ MaxNotes \in Nat /\ MaxReplies \in Nat /\ Cap \in Nat \ {0}
  /\ Drained \in BOOLEAN

VARIABLES
  emitted,  \* [Conn -> Nat]: notifications the extension has written so far
  replied,  \* [Conn -> Nat]: replies the extension has written so far
  sock,     \* [Conn -> Seq(Nat)]: unread messages: n for its n-th notification, 0 a reply
  far,      \* [Conn -> {"open", "closed"}]: the extension's end of the socket
  reader,   \* [Conn -> {"running", "ended"}]: the bridge's reader task
  held,     \* [Conn -> SUBSET Note]: numbered by the reader, not yet in the channel
  sequence, \* session.sequence
  channel,  \* notify_tx .. notify_rx
  written,  \* notifications written to stdout, in order
  failed    \* notifications whose write to stdout failed

vars == <<emitted, replied, sock, far, reader, held, sequence, channel, written, failed>>

Note == [conn: Conn, n: Nat, seq: Nat]
Reply == 0

TypeOK ==
  /\ emitted \in [Conn -> Nat] /\ replied \in [Conn -> Nat]
  /\ sock \in [Conn -> Seq(Nat)]
  /\ far \in [Conn -> {"open", "closed"}]
  /\ reader \in [Conn -> {"running", "ended"}]
  /\ held \in [Conn -> SUBSET Note]
  /\ sequence \in Nat
  /\ channel \in Seq(Note) /\ Len(channel) <= Cap
  /\ written \in Seq(Note)
  /\ failed \in SUBSET Note

Init ==
  /\ emitted = [e \in Conn |-> 0] /\ replied = [e \in Conn |-> 0]
  /\ sock = [e \in Conn |-> <<>>]
  /\ far = [e \in Conn |-> "open"]
  /\ reader = [e \in Conn |-> "running"]
  /\ held = [e \in Conn |-> {}]
  /\ sequence = 0
  /\ channel = <<>> /\ written = <<>> /\ failed = {}
-----------------------------------------------------------------------------
(* The extension.                                                          *)

\* sendToBridge with a notification, while the socket is open.
Emit(e) ==
  /\ far[e] = "open" /\ emitted[e] < MaxNotes
  /\ emitted' = [emitted EXCEPT ![e] = @ + 1]
  /\ sock' = [sock EXCEPT ![e] = Append(@, emitted'[e])]
  /\ UNCHANGED <<replied, far, reader, held, sequence, channel, written, failed>>

\* sendToBridge with the reply to a forwarded request.
SendReply(e) ==
  /\ far[e] = "open" /\ replied[e] < MaxReplies
  /\ replied' = [replied EXCEPT ![e] = @ + 1]
  /\ sock' = [sock EXCEPT ![e] = Append(@, Reply)]
  /\ UNCHANGED <<emitted, far, reader, held, sequence, channel, written, failed>>

Close(e) ==
  /\ far[e] = "open"
  /\ far' = [far EXCEPT ![e] = "closed"]
  /\ UNCHANGED <<emitted, replied, sock, reader, held, sequence, channel, written, failed>>
-----------------------------------------------------------------------------
(* The reader task of connection e.                                        *)

\* The task reads its socket only when no send is in progress.
Reading(e) == reader[e] = "running" /\ held[e] = {}

\* The next message is a reply: it is resolved (see BridgeCore!ReadReply).
ReadReply(e) ==
  /\ Reading(e) /\ sock[e] # <<>> /\ Head(sock[e]) = Reply
  /\ sock' = [sock EXCEPT ![e] = Tail(@)]
  /\ UNCHANGED <<emitted, replied, far, reader, held, sequence, channel, written, failed>>

\* Mutant of NextSequence: the counter is read but not advanced.
NextSequenceReused == sequence

NextSequence == sequence + 1

\* The next message is a notification: it gets the next number, under the
\* state lock, which is released before the send.
Number(e) ==
  /\ sock[e] # <<>> /\ Head(sock[e]) # Reply
  /\ sock' = [sock EXCEPT ![e] = Tail(@)]
  /\ sequence' = NextSequence
  /\ held' = [held EXCEPT ![e] = @ \cup {[conn |-> e, n |-> Head(sock[e]), seq |-> NextSequence]}]
  /\ UNCHANGED <<emitted, replied, far, reader, channel, written, failed>>

\* Mutant of ReadNote: the send is spawned and the loop goes on reading.
ReadNoteSpawnsSend(e) == reader[e] = "running" /\ Number(e)

ReadNote(e) == Reading(e) /\ Number(e)

\* Mutants of SendNote: try_send, which drops the notification when the
\* channel is full.
TrySendNote(e, n) ==
  /\ n \in held[e]
  /\ held' = [held EXCEPT ![e] = @ \ {n}]
  /\ channel' = IF Len(channel) < Cap THEN Append(channel, n) ELSE channel
  /\ UNCHANGED <<emitted, replied, sock, far, reader, sequence, written, failed>>

\* An unbounded channel in place of the bounded one.
SendNoteUnbounded(e, n) ==
  /\ n \in held[e]
  /\ held' = [held EXCEPT ![e] = @ \ {n}]
  /\ channel' = Append(channel, n)
  /\ UNCHANGED <<emitted, replied, sock, far, reader, sequence, written, failed>>

\* notify_tx.send(..).await completes when the channel has room.
SendNote(e, n) ==
  /\ n \in held[e] /\ Len(channel) < Cap
  /\ held' = [held EXCEPT ![e] = @ \ {n}]
  /\ channel' = Append(channel, n)
  /\ UNCHANGED <<emitted, replied, sock, far, reader, sequence, written, failed>>

\* Mutant of Disconnect: a read error is skipped like any odd frame.
DisconnectIgnored(e) == FALSE

\* The read loop ends: on a close frame after what was sent before it, or on
\* an error that loses what is unread.
Disconnect(e) ==
  /\ Reading(e) /\ far[e] = "closed"
  /\ reader' = [reader EXCEPT ![e] = "ended"]
  /\ sock' = [sock EXCEPT ![e] = <<>>]
  /\ UNCHANGED <<emitted, replied, far, held, sequence, channel, written, failed>>
-----------------------------------------------------------------------------
\* The stdout writer takes the next notification; a write that fails is
\* logged and the loop goes on.
WriteNote ==
  /\ Drained /\ channel # <<>>
  /\ channel' = Tail(channel)
  /\ \/ written' = Append(written, Head(channel)) /\ UNCHANGED failed
     \/ failed' = failed \cup {Head(channel)} /\ UNCHANGED written
  /\ UNCHANGED <<emitted, replied, sock, far, reader, held, sequence>>

ReaderStep(e) ==
  \/ ReadReply(e) \/ ReadNote(e) \/ Disconnect(e)
  \/ \E n \in held[e] : SendNote(e, n)

ExtensionStep(e) == Emit(e) \/ SendReply(e) \/ Close(e)

Next == \/ \E e \in Conn : ReaderStep(e) \/ ExtensionStep(e)
        \/ WriteNote

Spec == Init /\ [][Next]_vars

\* The bridge's tasks run, and whoever reads its stdout keeps reading.
FairSpec == /\ Spec
            /\ \A e \in Conn : WF_vars(ReaderStep(e))
            /\ WF_vars(WriteNote)
-----------------------------------------------------------------------------
\* Where a numbered notification can be.
InFlight == ToSet(channel) \cup UNION {held[e] : e \in Conn}
Numbered == InFlight \cup ToSet(written) \cup failed

\* Sequence numbers detect loss: each number from 1 to the counter belongs to
\* exactly one notification, which sits in one place only; so a number the
\* client misses is on its way or failed to be written, never skipped or
\* given twice, whichever way the readers interleave.
SequenceAccounted ==
  /\ \A s \in 1..sequence : \E n \in Numbered : n.seq = s
  /\ \A m, n \in Numbered : m.seq = n.seq => m = n
  /\ \A n \in Numbered : n.seq \in 1..sequence
  /\ IsInjective(written \o channel)
  /\ ToSet(written \o channel) \cap (failed \cup UNION {held[e] : e \in Conn}) = {}

\* One connection's notifications reach the client in the order in which they
\* were emitted on it, although those of other readers overtake each other.
PerConnectionOrder ==
  LET line == written \o channel IN
  \A i, j \in DOMAIN line :
    i < j /\ line[i].conn = line[j].conn => line[i].n < line[j].n /\ line[i].seq < line[j].seq

\* Whatever an extension writes is read (or lost with its connection), and the
\* end of its connection is noticed, which runs the cleanup (ws_server.rs,
\* "Extension disconnected -- fail all pending requests"), as long as somebody
\* drains the channel: a reader is never stuck in its send.
EverythingRead == \A e \in Conn :
  (sock[e] # <<>> \/ far[e] = "closed") ~>
    (sock[e] = <<>> /\ (far[e] = "closed" => reader[e] = "ended"))

\* Every numbered notification is eventually written to stdout, or its write
\* has failed.
EveryNoteSettled ==
  \A s \in 1..Cardinality(Conn) * MaxNotes :
    (sequence >= s) ~> (\E n \in ToSet(written) \cup failed : n.seq = s)
=============================================================================
