-------------------------- MODULE TokenStore_proofs --------------------------
(***************************************************************************)
(* Theorems of TokenStore, for any tasks, tokens, files and crashes.  What *)
(* they rest on is that saves do not overlap a change of the set: all that *)
(* run at the same time write the same text, so that it does not matter    *)
(* whose text ends up under which name.                                    *)
(***************************************************************************)
EXTENDS TokenStore, TLAPS

Created == {"write", "rename", "remove"}

\* A call in progress is about a token that is not new any more, nor, if it
\* revokes the token, in the set.
Called == \A t \in Task : pc[t] # "idle" =>
  op[t].token \notin fresh /\ (op[t].kind = "revoke" => op[t].token \notin mem)

\* All saves that run write the set as it is.
SameText == \A t \in Task : pc[t] \in Saving => content[t] = mem

\* What can become tokens.json while saves run: the file a save has open, and
\* the temporary file once some save has created it, hold no token that is
\* not in the set.
NothingStale ==
  /\ \A t \in Task : pc[t] = "write" => fd[t] \in Inode /\ data[fd[t]] \subseteq mem
  /\ (\E t \in Task : pc[t] \in Created) /\ tmp # NoInode => data[tmp] \subseteq mem

TwoNames == tmp # NoInode => tmp # main

\* New tokens have never been anywhere, issued ones are in the set.
Tokens == /\ fresh \cap (mem \cup revoked) = {} /\ \A i \in Inode : data[i] \cap fresh = {}
          /\ issued \subseteq mem

NotBack == mem \cap revoked = {} /\ Load \cap revoked = {}

\* The file i holds the set, or will when a save that has it open writes.
Good(i) == i # NoInode /\ (data[i] = mem \/ \E t \in Task : pc[t] = "write" /\ fd[t] = i)

\* Without faults: the temporary file of running saves is good, and so is
\* tokens.json as soon as one of them has come past its rename.
Current ==
  /\ (\E t \in Task : pc[t] \in Created) /\ tmp # NoInode => Good(tmp)
  /\ \A t \in Task : pc[t] \in {"write", "rename"} => Good(main) \/ tmp # NoInode
  /\ \A t \in Task : pc[t] = "remove" => Good(main)
  /\ (\A t \in Task : pc[t] = "idle") => Load = mem
  /\ issued \subseteq Load \/ \E t \in Task : pc[t] = "write" /\ fd[t] = main

IInv == /\ TypeOK /\ Called /\ SameText /\ NothingStale /\ TwoNames /\ Tokens /\ NotBack
        /\ ~faulty => Current
-----------------------------------------------------------------------------
LEMMA InitInv == Init => IInv
<1> SUFFICES ASSUME Init PROVE IInv
  OBVIOUS
<1>1. TypeOK
  <2>1. data \in [Inode -> SUBSET Token] /\ content \in [Task -> SUBSET Token]
    BY DEF Init
  <2>2. pc \in [Task -> {"idle", "changed"} \cup Saving]
    BY DEF Init
  <2>3. op \in [Task -> Op] /\ fd \in [Task -> Inode \cup {NoInode}]
    BY DEF Init, Op
  <2>4. crashes \in 0..MaxCrash
    BY TokenStoreAssumption DEF Init
  <2>5. QED
    BY <2>1, <2>2, <2>3, <2>4 DEF Init, TypeOK
<1>2. Called /\ SameText /\ NothingStale /\ TwoNames
  BY DEF Init, Called, SameText, NothingStale, TwoNames, Saving, Created
<1>3. Tokens /\ NotBack /\ Current
  BY DEF Init, Tokens, NotBack, Current, Load, Created
<1>4. QED
  BY <1>1, <1>2, <1>3 DEF IInv

\* The types.
LEMMA TypeStep ==
  ASSUME IInv, [Next]_vars
  PROVE  TypeOK'
<1> USE TokenStoreAssumption DEF IInv, TypeOK, Saving, Created, Op, NoOp, Goto, disk, call, history, Load
<1>1. CASE UNCHANGED vars
  BY <1>1 DEF vars
<1>2. CASE Restart
  <2>1. crashes' \in 0..MaxCrash
    BY <1>2 DEF Restart
  <2>2. Load \in SUBSET Token /\ issued \cap Load \in SUBSET Token
    OBVIOUS
  <2>3. QED
    BY <1>2, <2>1, <2>2 DEF Restart
<1>3. ASSUME NEW t \in Task, NEW k \in Token, Issue(t, k)
      PROVE  TypeOK'
  BY <1>3 DEF Issue, Change, WriteLockFree
<1>4. ASSUME NEW t \in Task, NEW k \in Token, Revoke(t, k)
      PROVE  TypeOK'
  BY <1>4 DEF Revoke, Change, WriteLockFree
<1>5. ASSUME NEW t \in Task, ReadTokens(t)
      PROVE  TypeOK'
  BY <1>5 DEF ReadTokens
<1>6. ASSUME NEW t \in Task, Create(t)
      PROVE  TypeOK'
  BY <1>6 DEF Create, Unused
<1>7. ASSUME NEW t \in Task, CreateFails(t)
      PROVE  TypeOK'
  BY <1>7 DEF CreateFails, Return
<1>8. ASSUME NEW t \in Task, Write(t)
      PROVE  TypeOK'
  BY <1>8 DEF Write
<1>9. ASSUME NEW t \in Task, WriteFails(t)
      PROVE  TypeOK'
  BY <1>9 DEF WriteFails
<1>10. ASSUME NEW t \in Task, Rename(t)
      PROVE  TypeOK'
  BY <1>10 DEF Rename
<1>11. ASSUME NEW t \in Task, RenameFails(t)
      PROVE  TypeOK'
  BY <1>11 DEF RenameFails
<1>12. ASSUME NEW t \in Task, Remove(t)
      PROVE  TypeOK'
  BY <1>12 DEF Remove, Return
<1>13. QED
  BY <1>1, <1>2, <1>3, <1>4, <1>5, <1>6, <1>7, <1>8, <1>9, <1>10, <1>11, <1>12 DEF Next, TaskStep

\* Calls and the texts of saves.
LEMMA CallStep ==
  ASSUME IInv, [Next]_vars
  PROVE  Called' /\ SameText'
<1> USE TokenStoreAssumption DEF IInv, TypeOK, Saving, Created, Op, NoOp, Goto, disk, call, history, Called, SameText, Tokens, Load
<1>1. CASE UNCHANGED vars
  BY <1>1 DEF vars
<1>2. CASE Restart
  BY <1>2 DEF Restart
<1>3. ASSUME NEW t \in Task, NEW k \in Token, Issue(t, k)
      PROVE  Called' /\ SameText'
  BY <1>3 DEF Issue, Change, WriteLockFree
<1>4. ASSUME NEW t \in Task, NEW k \in Token, Revoke(t, k)
      PROVE  Called' /\ SameText'
  BY <1>4 DEF Revoke, Change, WriteLockFree
<1>5. ASSUME NEW t \in Task, ReadTokens(t)
      PROVE  Called' /\ SameText'
  BY <1>5 DEF ReadTokens
<1>6. ASSUME NEW t \in Task, Create(t)
      PROVE  Called' /\ SameText'
  BY <1>6 DEF Create, Unused
<1>7. ASSUME NEW t \in Task, CreateFails(t)
      PROVE  Called' /\ SameText'
  BY <1>7 DEF CreateFails, Return
<1>8. ASSUME NEW t \in Task, Write(t)
      PROVE  Called' /\ SameText'
  BY <1>8 DEF Write
<1>9. ASSUME NEW t \in Task, WriteFails(t)
      PROVE  Called' /\ SameText'
  BY <1>9 DEF WriteFails
<1>10. ASSUME NEW t \in Task, Rename(t)
      PROVE  Called' /\ SameText'
  BY <1>10 DEF Rename
<1>11. ASSUME NEW t \in Task, RenameFails(t)
      PROVE  Called' /\ SameText'
  BY <1>11 DEF RenameFails
<1>12. ASSUME NEW t \in Task, Remove(t)
      PROVE  Called' /\ SameText'
  BY <1>12 DEF Remove, Return
<1>13. QED
  BY <1>1, <1>2, <1>3, <1>4, <1>5, <1>6, <1>7, <1>8, <1>9, <1>10, <1>11, <1>12 DEF Next, TaskStep

\* What the open file and the temporary file hold.
LEMMA FilesStep ==
  ASSUME IInv, [Next]_vars
  PROVE  NothingStale' /\ TwoNames'
<1> USE TokenStoreAssumption DEF IInv, TypeOK, Saving, Created, Op, NoOp, Goto, disk, call, history, NothingStale, SameText, TwoNames, Load
<1>1. CASE UNCHANGED vars
  BY <1>1 DEF vars
<1>2. CASE Restart
  BY <1>2 DEF Restart
<1>3. ASSUME NEW t \in Task, NEW k \in Token, Issue(t, k)
      PROVE  NothingStale' /\ TwoNames'
  BY <1>3 DEF Issue, Change, WriteLockFree
<1>4. ASSUME NEW t \in Task, NEW k \in Token, Revoke(t, k)
      PROVE  NothingStale' /\ TwoNames'
  BY <1>4 DEF Revoke, Change, WriteLockFree
<1>5. ASSUME NEW t \in Task, ReadTokens(t)
      PROVE  NothingStale' /\ TwoNames'
  BY <1>5 DEF ReadTokens
<1>6. ASSUME NEW t \in Task, Create(t)
      PROVE  NothingStale' /\ TwoNames'
  BY <1>6 DEF Create, Unused
<1>7. ASSUME NEW t \in Task, CreateFails(t)
      PROVE  NothingStale' /\ TwoNames'
  BY <1>7 DEF CreateFails, Return
<1>8. ASSUME NEW t \in Task, Write(t)
      PROVE  NothingStale' /\ TwoNames'
  BY <1>8 DEF Write
<1>9. ASSUME NEW t \in Task, WriteFails(t)
      PROVE  NothingStale' /\ TwoNames'
  BY <1>9 DEF WriteFails
<1>10. ASSUME NEW t \in Task, Rename(t)
      PROVE  NothingStale' /\ TwoNames'
  BY <1>10 DEF Rename
<1>11. ASSUME NEW t \in Task, RenameFails(t)
      PROVE  NothingStale' /\ TwoNames'
  BY <1>11 DEF RenameFails
<1>12. ASSUME NEW t \in Task, Remove(t)
      PROVE  NothingStale' /\ TwoNames'
  BY <1>12 DEF Remove, Return
<1>13. QED
  BY <1>1, <1>2, <1>3, <1>4, <1>5, <1>6, <1>7, <1>8, <1>9, <1>10, <1>11, <1>12 DEF Next, TaskStep

\* Where tokens can be.
LEMMA TokensStep ==
  ASSUME IInv, [Next]_vars
  PROVE  Tokens' /\ NotBack'
<1> USE TokenStoreAssumption DEF IInv, TypeOK, Saving, Created, Op, NoOp, Goto, disk, call, history, Called, NothingStale, SameText, TwoNames, Tokens, NotBack, Load, Current, Good
<1>1. CASE UNCHANGED vars
  BY <1>1 DEF vars
<1>2. CASE Restart
  BY <1>2 DEF Restart
<1>3. ASSUME NEW t \in Task, NEW k \in Token, Issue(t, k)
      PROVE  Tokens' /\ NotBack'
  BY <1>3 DEF Issue, Change, WriteLockFree
<1>4. ASSUME NEW t \in Task, NEW k \in Token, Revoke(t, k)
      PROVE  Tokens' /\ NotBack'
  BY <1>4 DEF Revoke, Change, WriteLockFree
<1>5. ASSUME NEW t \in Task, ReadTokens(t)
      PROVE  Tokens' /\ NotBack'
  BY <1>5 DEF ReadTokens
<1>6. ASSUME NEW t \in Task, Create(t)
      PROVE  Tokens' /\ NotBack'
  BY <1>6 DEF Create, Unused
<1>7. ASSUME NEW t \in Task, CreateFails(t)
      PROVE  Tokens' /\ NotBack'
  BY <1>7 DEF CreateFails, Return
<1>8. ASSUME NEW t \in Task, Write(t)
      PROVE  Tokens' /\ NotBack'
  BY <1>8 DEF Write
<1>9. ASSUME NEW t \in Task, WriteFails(t)
      PROVE  Tokens' /\ NotBack'
  BY <1>9 DEF WriteFails
<1>10. ASSUME NEW t \in Task, Rename(t)
      PROVE  Tokens' /\ NotBack'
  BY <1>10 DEF Rename
<1>11. ASSUME NEW t \in Task, RenameFails(t)
      PROVE  Tokens' /\ NotBack'
  BY <1>11 DEF RenameFails
<1>12. ASSUME NEW t \in Task, Remove(t)
      PROVE  Tokens' /\ NotBack'
  BY <1>12 DEF Remove, Return
<1>13. QED
  BY <1>1, <1>2, <1>3, <1>4, <1>5, <1>6, <1>7, <1>8, <1>9, <1>10, <1>11, <1>12 DEF Next, TaskStep

\* The file is current.
LEMMA CurrentStep ==
  ASSUME IInv, [Next]_vars, ~faulty'
  PROVE  Current'
<1> USE TokenStoreAssumption DEF IInv, TypeOK, Saving, Created, Op, NoOp, Goto, disk, call, history, Called, NothingStale, SameText, TwoNames, Tokens, Load, Current, Good
<1>1. CASE UNCHANGED vars
  BY <1>1 DEF vars
<1>2. CASE Restart
  BY <1>2 DEF Restart
<1>3. ASSUME NEW t \in Task, NEW k \in Token, Issue(t, k)
      PROVE  Current'
  BY <1>3 DEF Issue, Change, WriteLockFree
<1>4. ASSUME NEW t \in Task, NEW k \in Token, Revoke(t, k)
      PROVE  Current'
  BY <1>4 DEF Revoke, Change, WriteLockFree
<1>5. ASSUME NEW t \in Task, ReadTokens(t)
      PROVE  Current'
  BY <1>5 DEF ReadTokens
<1>6. ASSUME NEW t \in Task, Create(t)
      PROVE  Current'
  BY <1>6 DEF Create, Unused
<1>7. ASSUME NEW t \in Task, CreateFails(t)
      PROVE  Current'
  BY <1>7 DEF CreateFails, Return
<1>8. ASSUME NEW t \in Task, Write(t)
      PROVE  Current'
  BY <1>8 DEF Write
<1>9. ASSUME NEW t \in Task, WriteFails(t)
      PROVE  Current'
  BY <1>9 DEF WriteFails
<1>10. ASSUME NEW t \in Task, Rename(t)
      PROVE  Current'
  BY <1>10 DEF Rename
<1>11. ASSUME NEW t \in Task, RenameFails(t)
      PROVE  Current'
  BY <1>11 DEF RenameFails
<1>12. ASSUME NEW t \in Task, Remove(t)
      PROVE  Current'
  BY <1>12 DEF Remove, Return
<1>13. QED
  BY <1>1, <1>2, <1>3, <1>4, <1>5, <1>6, <1>7, <1>8, <1>9, <1>10, <1>11, <1>12 DEF Next, TaskStep

LEMMA Invariance == Spec => []IInv
<1>1. IInv /\ [Next]_vars => IInv'
  <2> SUFFICES ASSUME IInv, [Next]_vars PROVE IInv'
    OBVIOUS
  <2>1. TypeOK'
    BY TypeStep
  <2>2. Called' /\ SameText'
    BY CallStep
  <2>3. NothingStale' /\ TwoNames'
    BY FilesStep
  <2>4. Tokens' /\ NotBack'
    BY TokensStep
  <2>5. ~faulty' => Current'
    BY CurrentStep
  <2>6. QED
    BY <2>1, <2>2, <2>3, <2>4, <2>5 DEF IInv
<1>2. QED
  BY InitInv, <1>1, PTL DEF Spec
-----------------------------------------------------------------------------
\* Every variable of the token store has its type.
THEOREM TypeCorrect == Spec => []TypeOK
<1>1. IInv => TypeOK
  BY DEF IInv
<1>2. QED
  BY Invariance, <1>1, PTL

\* However many saves have run at the same time through the one temporary
\* file, and whatever they truncated, renamed and removed under each other,
\* tokens.json holds the tokens in memory once all of them are done.
THEOREM FileIsCurrent == Spec => []QuiescentFileCurrent
<1>1. IInv => QuiescentFileCurrent
  BY DEF IInv, QuiescentFileCurrent, Current
<1>2. QED
  BY Invariance, <1>1, PTL

\* A token whose revocation was saved stays revoked, whenever the process
\* dies afterwards.
THEOREM RevokedIsGone == Spec => []RevokedStaysRevoked
<1>1. IInv => RevokedStaysRevoked
  BY DEF IInv, RevokedStaysRevoked, NotBack
<1>2. QED
  BY Invariance, <1>1, PTL

\* tokens.json is short of an issued token only while a save is about to
\* write it again: no save renames an old text over a newer one.
THEOREM NoStaleRename == Spec => []TornOnlyWhileOpen
<1>1. IInv => TornOnlyWhileOpen
  BY DEF IInv, TornOnlyWhileOpen, Current
<1>2. QED
  BY Invariance, <1>1, PTL
=============================================================================
