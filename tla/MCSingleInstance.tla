-------------------------- MODULE MCSingleInstance --------------------------
(* SingleInstance on small instances; every process in either mode. *)
EXTENDS SingleInstance, TLC

Symmetric == Permutations(Proc)

Undecided == {p \in Proc : pc[p] \in Starting \cup {"new", "refused"}}

\* All that is asked of the pid of a process that has ended.
Pid(p) == IF p \in Proc /\ pc[p] = "gone" THEN "dead" ELSE p

\* A file is what is in it, its names and who has it open.
File(i) == IF i = NoInode THEN NoInode
                          ELSE <<Pid(data[i]), i = lock, i = tmp, {p \in Proc : fd[p] = i}>>

\* Failures count against a process that may be refused, as culprits, as
\* misreadings unless processes have raced, and by their number.
Blame ==
  <<{f \in failed : f[1] \in Undecided},
    {f[2] : f \in failed} \cap {"killed", "listen", "write", "rename", "release", "unlink"},
    ~raced /\ Misread, Cardinality(failed)>>

\* States behave alike, and satisfy the same invariants, that differ only in
\* the numbers of the files, in which of the processes that have ended left a
\* file or failed at what, in a pid that has been dealt with, or in how a
\* process that has got past its start was started.
Matters ==
  <<pc, Pid(sock), listening, File(lock), File(tmp), [p \in Proc |-> File(fd[p])],
    Blame, raced, accompanied \cap Undecided, {p \in Undecided : mode[p] = "bridge"},
    [p \in Proc |-> IF pc[p] = "kill" THEN Pid(seen[p]) ELSE NoProc]>>
=============================================================================
