----------------------------- MODULE TokenStore -----------------------------
(***************************************************************************)
(* TokenManager (bridge/src/token_manager.rs): the client tokens a bridge  *)
(* accepts, in memory behind an RwLock and in tokens.json.  token.issue    *)
(* and token.revoke, run by any client task, change the set under the      *)
(* write lock, release it, and then save the file holding a READ guard: so *)
(* saves run concurrently with each other, through one and the same        *)
(* temporary file, but never overlap a change of the set.                  *)
(*                                                                         *)
(* A file is an inode with a name: opening the temporary file again        *)
(* truncates the inode that another task may still be writing, or that has *)
(* just become tokens.json.                                                *)
(***************************************************************************)
EXTENDS Integers

CONSTANTS
  Task,      \* client tasks holding the master token
  Token,     \* client tokens; uuids, so each is issued at most once
  Inode,     \* files on disk
  MaxCrash,  \* bound: how often the process dies
  NoInode

ASSUME TokenStoreAssumption == MaxCrash \in Nat /\ NoInode \notin Inode

VARIABLES
  mem,      \* client_tokens
  data,     \* [Inode -> SUBSET Token]: contents; {} for an empty (unparseable) file
  main,     \* the inode named tokens.json, or NoInode
  tmp,      \* the inode named tokens.tmp, or NoInode
  pc,       \* where each task is in issue_token / revoke_token
  op,       \* [Task -> [kind, token]]: the call in progress
  content,  \* [Task -> SUBSET Token]: the text a save is going to write
  fd,       \* [Task -> Inode or NoInode]: the file a save has open
  crashes,
  fresh,    \* tokens no call has issued yet
  issued,   \* history: tokens whose issue returned Ok, not revoked since
  revoked,  \* history: tokens whose revocation returned Ok and was saved
  faulty    \* history: a file operation failed since the process started

disk == <<data, main, tmp>>
call == <<pc, op, content, fd>>
history == <<fresh, issued, revoked, faulty>>
vars == <<mem, disk, call, crashes, history>>

Saving == {"create", "write", "rename", "remove"}
NoOp == [kind |-> "none", token |-> "none"]
Op == [kind: {"issue", "revoke"}, token: Token] \cup {NoOp}

TypeOK ==
  /\ mem \in SUBSET Token
  /\ data \in [Inode -> SUBSET Token]
  /\ main \in Inode \cup {NoInode} /\ tmp \in Inode \cup {NoInode}
  /\ pc \in [Task -> {"idle", "changed"} \cup Saving]
  /\ op \in [Task -> Op]
  /\ content \in [Task -> SUBSET Token]
  /\ fd \in [Task -> Inode \cup {NoInode}]
  /\ crashes \in 0..MaxCrash
  /\ fresh \in SUBSET Token /\ issued \in SUBSET Token /\ revoked \in SUBSET Token
  /\ faulty \in BOOLEAN

Init ==
  /\ mem = {} /\ data = [i \in Inode |-> {}]
  /\ main = NoInode /\ tmp = NoInode
  /\ pc = [t \in Task |-> "idle"] /\ op = [t \in Task |-> NoOp]
  /\ content = [t \in Task |-> {}] /\ fd = [t \in Task |-> NoInode]
  /\ crashes = 0
  /\ fresh = Token /\ issued = {} /\ revoked = {} /\ faulty = FALSE
-----------------------------------------------------------------------------
Goto(t, l) == pc' = [pc EXCEPT ![t] = l]

\* Mutant of WriteLockFree: a save drops its guard once it has the text.
WriteLockFreeDuringSave == TRUE

\* The write lock is free: no save holds its read guard.
WriteLockFree == \A t \in Task : pc[t] \notin Saving

\* A change of the set, in one critical section.
Change(t, kind, k) ==
  /\ pc[t] = "idle" /\ WriteLockFree
  /\ Goto(t, "changed")
  /\ op' = [op EXCEPT ![t] = [kind |-> kind, token |-> k]]
  /\ UNCHANGED <<disk, content, fd, crashes, revoked, faulty>>

Issue(t, k) ==
  /\ k \in fresh /\ Change(t, "issue", k)
  /\ mem' = mem \cup {k} /\ fresh' = fresh \ {k}
  /\ UNCHANGED issued

\* Mutant of Revoke: the set is changed and the file is not saved.
RevokeUnsaved(t, k) ==
  /\ k \in mem /\ pc[t] = "idle" /\ WriteLockFree
  /\ mem' = mem \ {k} /\ issued' = issued \ {k} /\ revoked' = revoked \cup {k}
  /\ UNCHANGED <<disk, call, crashes, fresh, faulty>>

\* A token not in the set is answered "Token not found", with no effect.
Revoke(t, k) ==
  /\ k \in mem /\ Change(t, "revoke", k)
  /\ mem' = mem \ {k} /\ issued' = issued \ {k}
  /\ UNCHANGED fresh
-----------------------------------------------------------------------------
(* save_to_file.  Errors are ignored by the code: the call still answers   *)
(* Ok; `faulty` remembers that one happened.                               *)

\* Take the read guard, kept to the end of the save, and serialise the set.
ReadTokens(t) ==
  /\ pc[t] = "changed"
  /\ Goto(t, "create")
  /\ content' = [content EXCEPT ![t] = mem]
  /\ UNCHANGED <<mem, disk, op, fd, crashes, history>>

\* The end of a save releases the guard and the call returns Ok.
Return(t) ==
  /\ Goto(t, "idle")
  /\ op' = [op EXCEPT ![t] = NoOp]
  /\ content' = [content EXCEPT ![t] = {}]
  /\ fd' = [fd EXCEPT ![t] = NoInode]
  /\ issued' = IF op[t].kind = "issue" /\ op[t].token \in mem
               THEN issued \cup {op[t].token} ELSE issued
  /\ revoked' = IF op[t].kind = "revoke" /\ ~faulty'
                THEN revoked \cup {op[t].token} ELSE revoked
  /\ UNCHANGED fresh

\* Inodes nobody can reach: what an unlinked file's number may be reused for.
Unused == Inode \ ({main, tmp} \cup {fd[t] : t \in Task})

\* File::create: a new file, or the existing one truncated.
Create(t) ==
  /\ pc[t] = "create"
  /\ \E i \in IF tmp = NoInode THEN Unused ELSE {tmp} :
       /\ tmp' = i
       /\ data' = [data EXCEPT ![i] = {}]
       /\ fd' = [fd EXCEPT ![t] = i]
  /\ Goto(t, "write")
  /\ UNCHANGED <<mem, main, op, content, crashes, history>>

CreateFails(t) ==
  /\ pc[t] = "create"
  /\ faulty' = TRUE /\ Return(t)
  /\ UNCHANGED <<mem, disk, crashes>>

\* write_all and sync_all, into whatever the open file has become.
Write(t) ==
  /\ pc[t] = "write"
  /\ data' = [data EXCEPT ![fd[t]] = content[t]]
  /\ Goto(t, "rename")
  /\ UNCHANGED <<mem, main, tmp, op, content, fd, crashes, history>>

\* Mutant of WriteFails: the error path leaves the state machine.
WriteFailsAborts(t) ==
  /\ pc[t] = "write"
  /\ faulty' = TRUE
  /\ Goto(t, "error")
  /\ UNCHANGED <<mem, disk, op, content, fd, crashes, fresh, issued, revoked>>

\* The rename is skipped when the write fails.
WriteFails(t) ==
  /\ pc[t] = "write"
  /\ faulty' = TRUE
  /\ Goto(t, "remove")
  /\ UNCHANGED <<mem, disk, op, content, fd, crashes, fresh, issued, revoked>>

\* Of two saves at once the second finds no temporary file: an ignored error.
Rename(t) ==
  /\ pc[t] = "rename"
  /\ IF tmp # NoInode THEN main' = tmp /\ tmp' = NoInode ELSE UNCHANGED <<main, tmp>>
  /\ Goto(t, "remove")
  /\ UNCHANGED <<mem, data, op, content, fd, crashes, history>>

RenameFails(t) ==
  /\ pc[t] = "rename"
  /\ faulty' = TRUE
  /\ Goto(t, "remove")
  /\ UNCHANGED <<mem, disk, op, content, fd, crashes, fresh, issued, revoked>>

\* remove_file(tmp), whoever created it.
Remove(t) ==
  /\ pc[t] = "remove"
  /\ tmp' = NoInode
  /\ UNCHANGED <<mem, data, main, crashes, faulty>>
  /\ Return(t)

\* What TokenManager::new loads; an empty file does not parse and is skipped.
Load == IF main = NoInode THEN {} ELSE data[main]

\* The process dies and a new one starts: TokenManager::new.
Restart ==
  /\ crashes < MaxCrash
  /\ crashes' = crashes + 1
  /\ mem' = Load
  /\ pc' = [t \in Task |-> "idle"] /\ op' = [t \in Task |-> NoOp]
  /\ content' = [t \in Task |-> {}] /\ fd' = [t \in Task |-> NoInode]
  /\ issued' = issued \cap Load /\ faulty' = FALSE
  /\ UNCHANGED <<disk, fresh, revoked>>

TaskStep(t) ==
  \/ \E k \in Token : Issue(t, k) \/ Revoke(t, k)
  \/ ReadTokens(t)
  \/ Create(t) \/ CreateFails(t)
  \/ Write(t) \/ WriteFails(t)
  \/ Rename(t) \/ RenameFails(t)
  \/ Remove(t)

Next == (\E t \in Task : TaskStep(t)) \/ Restart

Spec == Init /\ [][Next]_vars
-----------------------------------------------------------------------------
\* Between calls tokens.json holds exactly the tokens in memory, although the
\* saves that wrote it ran at the same time through one temporary file.
QuiescentFileCurrent ==
  ~faulty /\ (\A t \in Task : pc[t] = "idle") => Load = mem

\* A token whose revocation was answered Ok and saved is not accepted again,
\* not even by a bridge started after a crash in the middle of later saves.
RevokedStaysRevoked == mem \cap revoked = {}

\* tokens.json lacks an issued token only while some save has that very file
\* open, truncated and not yet rewritten: no stale text is ever renamed over
\* newer text.
TornOnlyWhileOpen ==
  ~faulty /\ ~(issued \subseteq Load)
    => \E t \in Task : pc[t] = "write" /\ fd[t] = main

\* test_persist_across_restart: an issued token is valid after a restart.
IssuedSurvives ==
  [][crashes' = crashes + 1 /\ ~faulty => issued \subseteq mem']_vars
=============================================================================
