--------------------------- MODULE SingleInstance ---------------------------
(***************************************************************************)
(* How bridge processes keep to one instance on Unix: each run of          *)
(* main.rs (bootstrap or bridge mode) first binds a Unix socket            *)
(* (ipc_unix.rs), then acquires a lockfile holding its pid (lockfile.rs),  *)
(* serves, and takes both away again.  The system calls are the steps (a   *)
(* test for existence before a removal, and the sync before the rename,    *)
(* count as part of the call they precede): the processes share nothing    *)
(* but the file system, and may die anywhere.                              *)
(*                                                                         *)
(* Every system call may fail, not only because a file has gone.  The      *)
(* history variable failed holds what has gone wrong, as pairs of a        *)
(* process and the stage it was at.                                        *)
(*                                                                         *)
(* Files are inodes with names, as in TokenStore: the processes write the  *)
(* lockfile through one temporary file.                                    *)
(***************************************************************************)
EXTENDS Integers, FiniteSets

CONSTANTS
  Proc,       \* processes
  Inode,      \* files on disk
  MaxFaults,  \* bound: how many operations fail or processes are killed
  NoProc, NoInode

ASSUME SingleInstanceAssumption ==
  MaxFaults \in Nat /\ NoProc \notin Proc /\ NoInode \notin Inode

VARIABLES
  mode,        \* [Proc -> {"bootstrap", "bridge"}]: how each process is started
  pc,          \* where each process is
  sock,        \* the process whose socket has the well-known path, or NoProc
  listening,   \* processes with an open listener
  lock,        \* the inode named brp-bridge.lock, or NoInode
  tmp,         \* the inode named brp-bridge.tmp, or NoInode
  data,        \* [Inode -> Proc or NoProc]: the pid in a file; NoProc if it does not parse
  fd,          \* [Proc -> Inode or NoInode]: the file a process has open
  seen,        \* [Proc -> Proc or NoProc]: the pid it has read from the lockfile
  failed,      \* history: the operations that failed, and who was killed
  raced,       \* history: two processes have been starting at the same time
  accompanied  \* history: processes that were not alone while they started

files == <<lock, tmp, data, fd, seen>>
socket == <<sock, listening>>
history == <<failed, raced, accompanied>>
vars == <<mode, pc, socket, files, history>>

Starting == {"bind", "probe", "unlink_stale", "rebind", "listen", "port",
             "check", "read", "kill", "clean", "open", "write", "rename"}
Serving == {"serving", "release"}
Stages == {"new", "refused", "drop", "unlink", "gone"} \cup Starting \cup Serving
Faults == Stages \cup {"killed"}

Alive(p) == pc[p] \notin {"new", "gone"}

TypeOK ==
  /\ mode \in [Proc -> {"bootstrap", "bridge"}]
  /\ pc \in [Proc -> Stages]
  /\ sock \in Proc \cup {NoProc}
  /\ listening \in SUBSET {p \in Proc : Alive(p)}
  /\ lock \in Inode \cup {NoInode} /\ tmp \in Inode \cup {NoInode}
  /\ data \in [Inode -> Proc \cup {NoProc}]
  /\ fd \in [Proc -> Inode \cup {NoInode}]
  /\ seen \in [Proc -> Proc \cup {NoProc}]
  /\ failed \in SUBSET (Proc \X Faults)
  /\ raced \in BOOLEAN /\ accompanied \in SUBSET Proc

Init ==
  /\ mode \in [Proc -> {"bootstrap", "bridge"}]
  /\ pc = [p \in Proc |-> "new"]
  /\ sock = NoProc /\ listening = {}
  /\ lock = NoInode /\ tmp = NoInode
  /\ data = [i \in Inode |-> NoProc]
  /\ fd = [p \in Proc |-> NoInode] /\ seen = [p \in Proc |-> NoProc]
  /\ failed = {} /\ raced = FALSE /\ accompanied = {}

Goto(p, s) == pc' = [pc EXCEPT ![p] = s]
At(p, s) == pc[p] = s /\ UNCHANGED mode

Start(p) ==
  /\ At(p, "new") /\ Goto(p, "bind")
  /\ LET others == {q \in Proc : Alive(q)}
         starters == {q \in Proc : pc[q] \in Starting}
     IN /\ raced' = (raced \/ starters # {})
        /\ accompanied' = IF others = {} THEN accompanied
                                         ELSE accompanied \cup {p} \cup starters
  /\ UNCHANGED <<socket, files, failed>>

Fault(p, what) ==
  /\ Cardinality(failed) < MaxFaults
  /\ failed' = failed \cup {<<p, what>>}
  /\ UNCHANGED <<raced, accompanied>>

\* The call a process is at goes wrong.
Fails(p) == Fault(p, pc[p])
-----------------------------------------------------------------------------
(* The socket: SocketLock::acquire_with_path.                              *)

\* Without the socket a bootstrap process returns; a bridge only warns.
SocketFails(p) ==
  /\ Goto(p, IF mode[p] = "bootstrap" THEN "refused" ELSE "port")
  /\ UNCHANGED socket

Bound(p) == sock' = p /\ Goto(p, "listen") /\ UNCHANGED listening

BindSocket(p) ==
  /\ At(p, "bind") /\ UNCHANGED files
  /\ \/ sock = NoProc /\ Bound(p) /\ UNCHANGED history
     \/ sock # NoProc /\ Goto(p, "probe") /\ UNCHANGED <<socket, history>>
     \/ Fails(p) /\ SocketFails(p)

\* Mutant of ProbeSocket: an existing path means a running bridge.
ProbeSocketTrustsPath(p) ==
  /\ At(p, "probe") /\ SocketFails(p)
  /\ UNCHANGED <<files, history>>

\* Connecting tells a listening socket from a stale one, or from none; every
\* error counts as stale.
ProbeSocket(p) ==
  /\ At(p, "probe") /\ UNCHANGED files
  /\ \/ sock \in listening /\ SocketFails(p) /\ UNCHANGED history
     \/ sock \notin listening /\ Goto(p, "unlink_stale") /\ UNCHANGED <<socket, history>>
     \/ sock \in listening /\ Fails(p) /\ Goto(p, "unlink_stale") /\ UNCHANGED socket

\* remove_file(path)?: the path may have gone, or be somebody else's by now.
UnlinkStale(p) ==
  /\ At(p, "unlink_stale") /\ UNCHANGED files
  /\ \/ sock = NoProc /\ SocketFails(p) /\ UNCHANGED history
     \/ sock # NoProc /\ sock' = NoProc /\ Goto(p, "rebind") /\ UNCHANGED <<listening, history>>
     \/ sock # NoProc /\ Fails(p) /\ SocketFails(p)

RebindSocket(p) ==
  /\ At(p, "rebind") /\ UNCHANGED files
  /\ \/ sock = NoProc /\ Bound(p) /\ UNCHANGED history
     \/ sock # NoProc /\ SocketFails(p) /\ UNCHANGED history
     \/ sock = NoProc /\ Fails(p) /\ SocketFails(p)

\* UnixListener::bind is two calls: until the second, a probe is refused, and
\* when it fails the path stays.
ListenSocket(p) ==
  /\ At(p, "listen") /\ UNCHANGED <<sock, files>>
  /\ \/ Goto(p, "port") /\ listening' = listening \cup {p} /\ UNCHANGED history
     \/ Fails(p) /\ SocketFails(p)

\* The TCP port is bound before the lockfile is acquired.
BindPort(p) ==
  /\ At(p, "port") /\ UNCHANGED <<socket, files>>
  /\ \/ Goto(p, "check") /\ UNCHANGED history
     \/ Fails(p) /\ Goto(p, "refused")
-----------------------------------------------------------------------------
(* The lockfile: lockfile::acquire.                                        *)

\* path.exists(), which says no when it cannot tell.
CheckLock(p) ==
  /\ At(p, "check") /\ UNCHANGED <<socket, files>>
  /\ \/ Goto(p, IF lock = NoInode THEN "open" ELSE "read") /\ UNCHANGED history
     \/ lock # NoInode /\ Fails(p) /\ Goto(p, "open")

\* read_lockfile: a file that is gone, does not parse or cannot be read counts
\* as corrupt.
ReadLock(p) ==
  /\ At(p, "read") /\ UNCHANGED <<socket, lock, tmp, data, fd>>
  /\ LET corrupt == lock \notin {i \in Inode : data[i] # NoProc}
     IN \/ corrupt /\ Goto(p, "clean") /\ UNCHANGED <<seen, history>>
        \/ ~corrupt /\ Goto(p, "kill") /\ seen' = [seen EXCEPT ![p] = data[lock]]
           /\ UNCHANGED history
        \/ ~corrupt /\ Fails(p) /\ Goto(p, "clean") /\ UNCHANGED seen

\* Mutant of CheckPid: the liveness check says dead.
CheckPidSaysDead(p) ==
  /\ At(p, "kill") /\ Goto(p, "clean")
  /\ UNCHANGED <<socket, files, history>>

\* is_pid_alive asks for the pid, not for the process that wrote it: the
\* pid of a dead one may by now be that of any program, p itself included.
CheckPid(p) ==
  /\ At(p, "kill") /\ UNCHANGED <<socket, files>>
  /\ \/ Goto(p, IF Alive(seen[p]) THEN "refused" ELSE "clean") /\ UNCHANGED history
     \/ ~Alive(seen[p]) /\ Fails(p) /\ Goto(p, "refused")

\* A removal that fails is ignored: the rename below replaces the file.
CleanLock(p) ==
  /\ At(p, "clean") /\ Goto(p, "open") /\ UNCHANGED <<socket, tmp, data, fd, seen>>
  /\ \/ lock' = NoInode /\ UNCHANGED history
     \/ lock # NoInode /\ Fails(p) /\ UNCHANGED lock

Unused == Inode \ ({lock, tmp} \cup {fd[p] : p \in Proc})

\* write_lockfile: fs::write creates or truncates the temporary file ...
OpenTmp(p) ==
  /\ At(p, "open") /\ UNCHANGED <<socket, lock, seen>>
  /\ \/ /\ Goto(p, "write") /\ UNCHANGED history
        /\ \E i \in IF tmp = NoInode THEN Unused ELSE {tmp} :
             /\ tmp' = i
             /\ data' = [data EXCEPT ![i] = NoProc]
             /\ fd' = [fd EXCEPT ![p] = i]
     \/ Fails(p) /\ Goto(p, "refused") /\ UNCHANGED <<tmp, data, fd>>

\* ... and writes whatever that has become, in whole, in part or not at all;
WriteTmp(p) ==
  /\ At(p, "write") /\ UNCHANGED <<socket, lock, tmp, seen>>
  /\ fd' = [fd EXCEPT ![p] = NoInode]
  /\ \/ Goto(p, "rename") /\ data' = [data EXCEPT ![fd[p]] = p] /\ UNCHANGED history
     \/ /\ Fails(p) /\ Goto(p, "refused")
        /\ \E text \in {p, NoProc, data[fd[p]]} : data' = [data EXCEPT ![fd[p]] = text]

\* reopening, syncing and renaming fail if another process has renamed the
\* file away, or with the file still there.
RenameTmp(p) ==
  /\ At(p, "rename") /\ UNCHANGED <<socket, data, fd, seen>>
  /\ \/ tmp = NoInode /\ Goto(p, "refused") /\ UNCHANGED <<lock, tmp, history>>
     \/ tmp # NoInode /\ Goto(p, "serving") /\ lock' = tmp /\ tmp' = NoInode /\ UNCHANGED history
     \/ tmp # NoInode /\ Fails(p) /\ Goto(p, "refused") /\ UNCHANGED <<lock, tmp>>
-----------------------------------------------------------------------------
\* Bootstrap: the token cannot be sent, no extension connects in 30 s, stdin
\* ends, Ctrl+C.  Bridge: stdin ends, `exit`, Ctrl+C in standalone mode.
Stop(p) ==
  /\ At(p, "serving") /\ Goto(p, "release")
  /\ UNCHANGED <<socket, files, history>>

\* Mutant of ReleaseLock: a return path that does not call release.
ReleaseLockForgotten(p) ==
  /\ At(p, "release") /\ Goto(p, "drop")
  /\ UNCHANGED <<socket, files, history>>

\* lockfile::release removes the file, whoever wrote it; a failure is logged.
ReleaseLock(p) ==
  /\ At(p, "release") /\ Goto(p, "drop") /\ UNCHANGED <<socket, tmp, data, fd, seen>>
  /\ \/ lock' = NoInode /\ UNCHANGED history
     \/ lock # NoInode /\ Fails(p) /\ UNCHANGED lock

\* Mutants of DropListener: the listener outlives the lock; or the lockfile
\* is released on the error path too.
DropListenerLate(p) ==
  /\ pc[p] \in {"refused", "drop"} /\ UNCHANGED mode
  /\ Goto(p, "gone")
  /\ UNCHANGED <<socket, files, history>>
DropListenerAndLock(p) ==
  /\ pc[p] \in {"refused", "drop"} /\ UNCHANGED mode
  /\ listening' = listening \ {p} /\ lock' = NoInode
  /\ Goto(p, IF p \in listening THEN "unlink" ELSE "gone")
  /\ UNCHANGED <<sock, tmp, data, fd, seen, history>>

\* run_bootstrap or run_bridge returns: the SocketLock, if it has one, is
\* dropped: first the listener ...
DropListener(p) ==
  /\ pc[p] \in {"refused", "drop"} /\ UNCHANGED mode
  /\ listening' = listening \ {p}
  /\ Goto(p, IF p \in listening THEN "unlink" ELSE "gone")
  /\ UNCHANGED <<sock, files, history>>

\* ... then the path, whoever is bound to it; a failure is logged.
UnlinkSocket(p) ==
  /\ At(p, "unlink") /\ Goto(p, "gone") /\ UNCHANGED <<listening, files>>
  /\ \/ sock' = NoProc /\ UNCHANGED history
     \/ sock # NoProc /\ Fails(p) /\ UNCHANGED sock

\* The process is killed: its listener closes, its files stay.
Crash(p) ==
  /\ Alive(p) /\ UNCHANGED mode
  /\ Fault(p, "killed")
  /\ Goto(p, "gone")
  /\ listening' = listening \ {p}
  /\ fd' = [fd EXCEPT ![p] = NoInode]
  /\ UNCHANGED <<sock, lock, tmp, data, seen>>

ProcStep(p) ==
  \/ Start(p)
  \/ BindSocket(p) \/ ProbeSocket(p) \/ UnlinkStale(p) \/ RebindSocket(p) \/ ListenSocket(p)
  \/ BindPort(p)
  \/ CheckLock(p) \/ ReadLock(p) \/ CheckPid(p) \/ CleanLock(p)
  \/ OpenTmp(p) \/ WriteTmp(p) \/ RenameTmp(p)
  \/ Stop(p) \/ ReleaseLock(p) \/ DropListener(p) \/ UnlinkSocket(p)
  \/ Crash(p)

Next == \E p \in Proc : ProcStep(p)

Spec == Init /\ [][Next]_vars
-----------------------------------------------------------------------------
\* "PID Lockfile -- single-instance enforcement" (lockfile.rs): two processes
\* never both serve.
AtMostOneBridge == \A p, q \in Proc : pc[p] \in Serving /\ pc[q] \in Serving => p = q

\* Somebody has taken the lockfile for missing or corrupt because of an error.
Misread == \E p \in Proc : {<<p, "check">>, <<p, "read">>} \cap failed # {}

\* What is left of it: as long as no two processes start at the same time and
\* none misreads the lockfile, at most one serves, although others stop, are
\* refused, fail or die meanwhile.
AtMostOneUnlessRaced == ~raced /\ ~Misread => AtMostOneBridge

\* Discovery (the MCP adapter, or a second bridge) reads the pid and port of
\* the bridge that serves: nobody else's release, cleanup or failed start has
\* removed or replaced its lockfile, on the same two conditions.
DiscoveryFindsBridge ==
  ~raced /\ ~Misread => \A p \in Proc : pc[p] \in Serving => lock # NoInode /\ data[lock] = p

\* Failures that end a start: any at the port or in writing the lockfile, a
\* pid that is in use again, and for a bootstrap process any at the socket.
Ending(p) == {"port", "kill", "open", "write", "rename"} \cup
  IF mode[p] = "bootstrap" THEN {"bind", "unlink_stale", "rebind", "listen"} ELSE {}

\* A process that starts alone serves, unless a call of its own fails that it
\* cannot do without, or the pid in a lockfile left behind is in use again:
\* sockets, lockfiles and temporary files left behind, whole or in part, do
\* not stop it, nor does failing to remove the lockfile, nor a bridge without
\* a socket.
LoneStartServes ==
  \A p \in Proc : pc[p] = "refused" =>
    \/ p \in accompanied
    \/ \E s \in Ending(p) : <<p, s>> \in failed

Culprit(stages) == \E p \in Proc, s \in stages : <<p, s>> \in failed

\* What is left when every process has ended can be laid to a process that was
\* killed or failed in writing or removing that very file: the processes clean
\* up otherwise, although they remove and rename each other's files, and no
\* failure elsewhere (of the port, the probe or the other files) leaves any.
LeftoversExplained ==
  (\A p \in Proc : ~Alive(p)) =>
    /\ lock # NoInode => Culprit({"killed", "release"})
    /\ tmp # NoInode => Culprit({"killed", "write", "rename"})
    /\ sock # NoProc => Culprit({"killed", "listen", "unlink"})
=============================================================================
