------------------------ MODULE Notifications_proofs ------------------------
(***************************************************************************)
(* Theorems of Notifications, for any connections, bounds and capacity and *)
(* whether or not the channel is drained.  The notifications that have     *)
(* been sent form one line: what is written to stdout followed by what is  *)
(* in the channel.  Readers append to it, and the writer takes at most one *)
(* notification out of its middle.                                         *)
(***************************************************************************)
EXTENDS Notifications, SequenceTheorems, TLAPS

\* What the three kinds of steps do to a sequence w \o c.
LEMMA Joined ==
  ASSUME NEW S, NEW w \in Seq(S), NEW c \in Seq(S)
  PROVE  /\ w \o c \in Seq(S) /\ Len(w \o c) = Len(w) + Len(c)
         /\ DOMAIN (w \o c) = 1..(Len(w) + Len(c))
         /\ \A i \in 1..(Len(w) + Len(c)) :
              (w \o c)[i] = IF i <= Len(w) THEN w[i] ELSE c[i - Len(w)]
BY ConcatProperties, LenProperties

LEMMA JoinedSend ==
  ASSUME NEW S, NEW w \in Seq(S), NEW c \in Seq(S), NEW x \in S
  PROVE  w \o Append(c, x) = Append(w \o c, x)
<1>1. <<x>> \in Seq(S) /\ w \o c \in Seq(S)
  BY ConcatProperties
<1>2. (w \o c) \o <<x>> = w \o (c \o <<x>>)
  BY <1>1, ConcatAssociative
<1>3. QED
  BY <1>1, <1>2, AppendIsConcat

LEMMA JoinedMove ==
  ASSUME NEW S, NEW w \in Seq(S), NEW c \in Seq(S), c # <<>>
  PROVE  Append(w, Head(c)) \o Tail(c) = w \o c
<1>1. Head(c) \in S /\ Tail(c) \in Seq(S) /\ Len(c) > 0
      /\ Len(Tail(c)) = Len(c) - 1 /\ \A i \in 1..(Len(c) - 1) : Tail(c)[i] = c[i + 1]
  BY HeadTailProperties, EmptySeq, LenProperties
<1>2. /\ Append(w, Head(c)) \in Seq(S) /\ Len(Append(w, Head(c))) = Len(w) + 1
      /\ \A i \in 1..Len(w) : Append(w, Head(c))[i] = w[i]
      /\ Append(w, Head(c))[Len(w) + 1] = Head(c)
  BY <1>1, AppendProperties
<1> DEFINE l == Append(w, Head(c)) \o Tail(c)
           m == w \o c
<1>3. l \in Seq(S) /\ m \in Seq(S) /\ Len(l) = Len(m) /\ Len(m) = Len(w) + Len(c)
  BY <1>1, <1>2, Joined, LenProperties
<1>4. ASSUME NEW i \in 1..Len(m) PROVE l[i] = m[i]
  <2>1. m[i] = IF i <= Len(w) THEN w[i] ELSE c[i - Len(w)]
    BY <1>3, Joined
  <2>2. l[i] = IF i <= Len(w) + 1 THEN Append(w, Head(c))[i] ELSE Tail(c)[i - (Len(w) + 1)]
    BY <1>1, <1>2, <1>3, Joined
  <2>3. Head(c) = c[1]
    OBVIOUS
  <2> HIDE DEF l, m
  <2>4. QED
    BY <1>1, <1>2, <1>3, <2>1, <2>2, <2>3, LenProperties
<1> HIDE DEF l, m
<1>5. l = m
  BY <1>3, <1>4, SeqEqual
<1>6. QED
  BY <1>5 DEF l, m

LEMMA Elements ==
  ASSUME NEW S, NEW w \in Seq(S), NEW c \in Seq(S)
  PROVE  /\ \A x \in S : ToSet(Append(w, x)) = ToSet(w) \cup {x}
         /\ ToSet(w \o c) = ToSet(w) \cup ToSet(c)
         /\ c # <<>> => Head(c) \in S /\ Tail(c) \in Seq(S) /\ ToSet(c) = {Head(c)} \cup ToSet(Tail(c))
         /\ ToSet(w) \subseteq S
<1>1. ToSet(w) \subseteq S
  BY DEF ToSet
<1>2. ASSUME NEW x \in S PROVE ToSet(Append(w, x)) = ToSet(w) \cup {x}
  BY AppendProperties, LenProperties DEF ToSet
<1>3. ToSet(w \o c) = ToSet(w) \cup ToSet(c)
  <2>1. ToSet(w \o c) \subseteq ToSet(w) \cup ToSet(c)
    BY Joined, LenProperties DEF ToSet
  <2>2. ToSet(w) \subseteq ToSet(w \o c)
    BY Joined, LenProperties DEF ToSet
  <2>3. ASSUME NEW j \in DOMAIN c PROVE c[j] \in ToSet(w \o c)
    <3>1. Len(w) + j \in DOMAIN (w \o c) /\ (w \o c)[Len(w) + j] = c[j]
      BY Joined, LenProperties
    <3>2. QED
      BY <3>1 DEF ToSet
  <2>4. QED
    BY <2>1, <2>2, <2>3 DEF ToSet
<1>4. ASSUME c # <<>>
      PROVE  Head(c) \in S /\ Tail(c) \in Seq(S) /\ ToSet(c) = {Head(c)} \cup ToSet(Tail(c))
  <2>1. Head(c) = c[1] /\ Tail(c) \in Seq(S) /\ Len(c) > 0 /\ Len(c) \in Nat
        /\ Len(Tail(c)) = Len(c) - 1 /\ \A i \in 1..(Len(c) - 1) : Tail(c)[i] = c[i + 1]
    BY <1>4, HeadTailProperties, EmptySeq, LenProperties
  <2>2. ASSUME NEW i \in DOMAIN c PROVE c[i] \in {Head(c)} \cup ToSet(Tail(c))
    <3>1. i = 1 \/ (i - 1 \in 1..(Len(c) - 1) /\ (i - 1) + 1 = i)
      BY <2>1, LenProperties
    <3>2. i = 1 \/ (i - 1 \in DOMAIN Tail(c) /\ Tail(c)[i - 1] = c[i])
      BY <2>1, <3>1, LenProperties
    <3>3. QED
      BY <2>1, <3>2 DEF ToSet
  <2>3. \A i \in DOMAIN Tail(c) : Tail(c)[i] \in ToSet(c)
    BY <2>1, LenProperties DEF ToSet
  <2>4. Head(c) \in S /\ Head(c) \in ToSet(c)
    BY <2>1, LenProperties, ElementOfSeq DEF ToSet
  <2>5. QED
    BY <2>1, <2>2, <2>3, <2>4 DEF ToSet
<1>5. QED
  BY <1>1, <1>2, <1>3, <1>4

\* m is l without its element at k.
Drops(l, m, k) ==
  /\ k \in DOMAIN l /\ ToSet(l) = ToSet(m) \cup {l[k]}
  /\ \E place \in [DOMAIN m -> DOMAIN l \ {k}] :
       /\ \A i \in DOMAIN m : m[i] = l[place[i]]
       /\ \A i, j \in DOMAIN m : i < j => place[i] < place[j]
       /\ \A i, j \in DOMAIN m : place[i] = place[j] => i = j

LEMMA JoinedDrop ==
  ASSUME NEW S, NEW w \in Seq(S), NEW c \in Seq(S), c # <<>>
  PROVE  /\ Drops(w \o c, w \o Tail(c), Len(w) + 1)
         /\ (w \o c)[Len(w) + 1] = Head(c)
<1> DEFINE r == Tail(c)
           l == w \o c
           m == w \o r
           n == Len(w)
           p == Len(c)
           place == [i \in DOMAIN m |-> IF i <= n THEN i ELSE i + 1]
<1>1. Head(c) = c[1] /\ r \in Seq(S) /\ p > 0 /\ p \in Nat /\ n \in Nat
      /\ Len(r) = p - 1 /\ \A i \in 1..(p - 1) : r[i] = c[i + 1]
  BY HeadTailProperties, EmptySeq, LenProperties
<1>2. ToSet(c) = {Head(c)} \cup ToSet(r) /\ ToSet(l) = ToSet(w) \cup ToSet(c)
  BY Elements
<1> HIDE DEF r
<1>3. ToSet(l) = ToSet(m) \cup {Head(c)}
  <2>1. ToSet(m) = ToSet(w) \cup ToSet(r)
    BY <1>1, Elements
  <2>2. QED
    BY <1>2, <2>1
<1>4. /\ DOMAIN l = 1..(n + p)
      /\ \A i \in 1..(n + p) : l[i] = IF i <= n THEN w[i] ELSE c[i - n]
  BY Joined
<1>5. /\ DOMAIN m = 1..(n + Len(r))
      /\ \A i \in 1..(n + Len(r)) : m[i] = IF i <= n THEN w[i] ELSE r[i - n]
  BY <1>1, Joined
<1> HIDE DEF l, m, n, p
<1>6. n + 1 \in DOMAIN l /\ l[n + 1] = Head(c)
  BY <1>1, <1>4
<1>7. ASSUME NEW i \in DOMAIN m
      PROVE  place[i] \in DOMAIN l \ {n + 1} /\ m[i] = l[place[i]]
  <2>1. i \in Nat /\ 1 <= i /\ i <= n + (p - 1) /\ i \in 1..(n + Len(r))
    BY <1>1, <1>5
  <2>2. CASE i <= n
    <3>1. i \in 1..(n + p) /\ i # n + 1 /\ place[i] = i
      BY <1>1, <2>1, <2>2
    <3>2. m[i] = w[i] /\ l[i] = w[i]
      BY <1>4, <1>5, <2>1, <2>2, <3>1
    <3>3. QED
      BY <1>4, <3>1, <3>2
  <2>3. CASE ~(i <= n)
    <3>0. n < i
      BY <1>1, <2>1, <2>3
    <3>1. i - n \in 1..(p - 1) /\ (i + 1) - n = (i - n) + 1 /\ i + 1 \in 1..(n + p)
          /\ ~(i + 1 <= n) /\ i + 1 # n + 1
      BY <1>1, <2>1, <3>0
    <3>2. m[i] = r[i - n] /\ place[i] = i + 1
      BY <1>5, <2>1, <2>3
    <3>3. l[i + 1] = c[(i - n) + 1]
      BY <1>4, <3>1
    <3>4. QED
      BY <1>1, <1>4, <3>1, <3>2, <3>3
  <2>4. QED
    BY <2>2, <2>3
<1>8. ASSUME NEW i \in DOMAIN m, NEW j \in DOMAIN m
      PROVE  (i < j => place[i] < place[j]) /\ (place[i] = place[j] => i = j)
  <2>1. i \in Nat /\ j \in Nat
    BY <1>1, <1>5
  <2>2. place[i] = (IF i <= n THEN i ELSE i + 1) /\ place[j] = (IF j <= n THEN j ELSE j + 1)
    OBVIOUS
  <2>3. QED
    BY <1>1, <2>1, <2>2
<1>9. place \in [DOMAIN m -> DOMAIN l \ {n + 1}]
  BY <1>7
<1> HIDE DEF place
<1>10. Drops(l, m, n + 1)
  BY <1>3, <1>6, <1>7, <1>8, <1>9 DEF Drops
<1>11. QED
  BY <1>6, <1>10 DEF l, m, n, r
-----------------------------------------------------------------------------
Line == written \o channel
Held == UNION {held[e] : e \in Conn}

\* A reader has at most one notification in hand, and it is its connection's.
HeldOne == \A e \in Conn : \A m, n \in held[e] : n.conn = e /\ m = n

\* A notification is in one place only.
Places == /\ IsInjective(Line)
          /\ ToSet(Line) \cap (failed \cup Held) = {} /\ failed \cap Held = {}

\* The numbers given are those up to the counter, each to one notification.
Numbers == /\ \A s \in 1..sequence : \E n \in Numbered : n.seq = s
           /\ \A m, n \in Numbered : m.seq = n.seq => m = n
           /\ \A n \in Numbered : n.seq \in 1..sequence

\* What is unread in a socket was emitted in the order in which it is there,
\* after everything of that connection that has been numbered.
Unread == \A e \in Conn : \A i \in DOMAIN sock[e] : sock[e][i] # Reply =>
  /\ sock[e][i] <= emitted[e]
  /\ \A j \in DOMAIN sock[e] : j < i => sock[e][j] < sock[e][i]
  /\ \A n \in Numbered : n.conn = e => n.n < sock[e][i]
NotAhead == \A n \in Numbered : n.n <= emitted[n.conn]

\* What a reader has in hand comes after everything of its connection.
Order == /\ \A i, j \in DOMAIN Line : i < j /\ Line[i].conn = Line[j].conn =>
              Line[i].n < Line[j].n /\ Line[i].seq < Line[j].seq
         /\ \A e \in Conn : \A n \in held[e] : \A m \in ToSet(Line) :
              m.conn = e => m.n < n.n /\ m.seq < n.seq

IInv == TypeOK /\ HeldOne /\ Places /\ Numbers /\ Unread /\ NotAhead /\ Order

LEMMA InitInv == Init => IInv
<1> SUFFICES ASSUME Init PROVE IInv
  OBVIOUS
<1>1. TypeOK
  BY NotificationsAssumption, EmptySeq DEF Init, TypeOK
<1>2. Line = <<>> /\ ToSet(Line) = {} /\ DOMAIN Line = {} /\ Held = {} /\ Numbered = {}
  BY <1>1, ConcatEmptySeq, EmptySeq, Elements, LenProperties
  DEF Init, Line, Held, Numbered, InFlight, ToSet
<1>3. HeldOne /\ Places /\ Numbers /\ NotAhead
  BY <1>2 DEF Init, HeldOne, Places, Numbers, NotAhead, IsInjective
<1>4. Unread
  BY EmptySeq DEF Init, Unread
<1>5. Order
  BY <1>2 DEF Init, Order
<1>6. QED
  BY <1>1, <1>3, <1>4, <1>5 DEF IInv

\* The types.
LEMMA TypeStep ==
  ASSUME TypeOK, [Next]_vars
  PROVE  TypeOK'
<1> USE NotificationsAssumption DEF TypeOK
<1>1. CASE UNCHANGED vars
  BY <1>1 DEF vars
<1>2. ASSUME NEW e \in Conn, Emit(e) PROVE TypeOK'
  <2>1. Append(sock[e], emitted[e] + 1) \in Seq(Nat)
    BY AppendProperties
  <2>2. QED
    BY <1>2, <2>1 DEF Emit
<1>3. ASSUME NEW e \in Conn, SendReply(e) PROVE TypeOK'
  <2>1. Append(sock[e], Reply) \in Seq(Nat)
    BY AppendProperties DEF Reply
  <2>2. QED
    BY <1>3, <2>1 DEF SendReply
<1>4. ASSUME NEW e \in Conn, Close(e) PROVE TypeOK'
  BY <1>4 DEF Close
<1>5. ASSUME NEW e \in Conn, ReadReply(e) PROVE TypeOK'
  <2>1. Tail(sock[e]) \in Seq(Nat)
    BY <1>5, HeadTailProperties DEF ReadReply
  <2>2. QED
    BY <1>5, <2>1 DEF ReadReply
<1>6. ASSUME NEW e \in Conn, ReadNote(e) PROVE TypeOK'
  <2>1. Head(sock[e]) \in Nat /\ Tail(sock[e]) \in Seq(Nat)
    BY <1>6, HeadTailProperties DEF ReadNote, Number
  <2>2. [conn |-> e, n |-> Head(sock[e]), seq |-> NextSequence] \in Note
    BY <2>1 DEF Note, NextSequence
  <2>3. QED
    BY <1>6, <2>1, <2>2 DEF ReadNote, Number, NextSequence
<1>7. ASSUME NEW e \in Conn, NEW n \in held[e], SendNote(e, n) PROVE TypeOK'
  <2>1. n \in Note
    OBVIOUS
  <2>2. Append(channel, n) \in Seq(Note) /\ Len(Append(channel, n)) = Len(channel) + 1
    BY <2>1, AppendProperties
  <2>3. Len(channel) \in Nat
    BY LenProperties
  <2>4. QED
    BY <1>7, <2>2, <2>3 DEF SendNote
<1>8. ASSUME NEW e \in Conn, Disconnect(e) PROVE TypeOK'
  BY <1>8, EmptySeq DEF Disconnect
<1>9. CASE WriteNote
  <2>1. Head(channel) \in Note /\ Tail(channel) \in Seq(Note) /\ Len(Tail(channel)) = Len(channel) - 1
    BY <1>9, HeadTailProperties DEF WriteNote
  <2>2. Append(written, Head(channel)) \in Seq(Note) /\ Len(channel) \in Nat
    BY <2>1, AppendProperties, LenProperties
  <2>3. channel' \in Seq(Note) /\ Len(channel') <= Cap
    BY <1>9, <2>1, <2>2 DEF WriteNote
  <2>4. written' \in Seq(Note) /\ failed' \in SUBSET Note
    BY <1>9, <2>1, <2>2 DEF WriteNote
  <2>5. QED
    BY <1>9, <2>3, <2>4 DEF WriteNote
<1>10. QED
  BY <1>1, <1>2, <1>3, <1>4, <1>5, <1>6, <1>7, <1>8, <1>9 DEF Next, ReaderStep, ExtensionStep

\* Where a numbered notification is, before and after a step.
LEMMA WhereIs ==
  ASSUME TypeOK, TypeOK'
  PROVE  /\ Line \in Seq(Note) /\ DOMAIN Line = 1..Len(Line) /\ Len(Line) \in Nat
         /\ Numbered = ToSet(Line) \cup Held \cup failed /\ Numbered \subseteq Note
         /\ Line' \in Seq(Note) /\ DOMAIN Line' = 1..Len(Line') /\ Len(Line') \in Nat
         /\ Numbered' = ToSet(Line') \cup Held' \cup failed' /\ Numbered' \subseteq Note
<1>1. Line \in Seq(Note) /\ ToSet(Line) = ToSet(written) \cup ToSet(channel)
      /\ ToSet(written) \subseteq Note /\ ToSet(channel) \subseteq Note
  BY Joined, Elements DEF TypeOK, Line
<1>2. Line' \in Seq(Note) /\ ToSet(Line') = ToSet(written') \cup ToSet(channel')
      /\ ToSet(written') \subseteq Note /\ ToSet(channel') \subseteq Note
  BY Joined, Elements DEF TypeOK, Line
<1>3. Held \subseteq Note /\ failed \subseteq Note /\ Held' \subseteq Note /\ failed' \subseteq Note
  BY DEF TypeOK, Held
<1>4. Numbered = ToSet(Line) \cup Held \cup failed
  BY <1>1 DEF Numbered, InFlight, Held
<1>5. Numbered' = ToSet(Line') \cup Held' \cup failed'
  BY <1>2 DEF Numbered, InFlight, Held
<1>6. QED
  BY <1>1, <1>2, <1>3, <1>4, <1>5, LenProperties

\* The extensions, and a reader that reads a reply or ends: nothing that has
\* been numbered moves.
LEMMA StillStep ==
  ASSUME IInv, TypeOK', UNCHANGED <<held, sequence, channel, written, failed>>
  PROVE  /\ HeldOne' /\ Places' /\ Numbers' /\ Order'
         /\ Numbered' = Numbered /\ Numbered \subseteq Note
<1>1. Line' = Line /\ Held' = Held /\ Numbered' = Numbered
  BY DEF Line, Held, Numbered, InFlight
<1>2. HeldOne' /\ Places' /\ Numbers' /\ Order'
  BY <1>1 DEF IInv, HeldOne, Places, Numbers, Order
<1>3. QED
  BY <1>1, <1>2, WhereIs DEF IInv

LEMMA EmitStep ==
  ASSUME IInv, TypeOK', NEW e \in Conn, Emit(e)
  PROVE  IInv'
<1>1. HeldOne' /\ Places' /\ Numbers' /\ Order' /\ Numbered' = Numbered /\ Numbered \subseteq Note
  BY StillStep DEF Emit
<1>2. /\ \A d \in Conn : emitted'[d] = IF d = e THEN emitted[e] + 1 ELSE emitted[d]
      /\ \A d \in Conn : sock'[d] = IF d = e THEN Append(sock[e], emitted[e] + 1) ELSE sock[d]
      /\ \A d \in Conn : emitted[d] \in Nat
  BY DEF IInv, TypeOK, Emit
<1>3. NotAhead'
  <2> SUFFICES ASSUME NEW n \in Numbered PROVE n.n <= emitted'[n.conn]
    BY <1>1 DEF NotAhead
  <2>1. n.conn \in Conn /\ n.n \in Nat /\ n.n <= emitted[n.conn]
    BY <1>1 DEF IInv, NotAhead, Note
  <2>2. QED
    BY <1>2, <2>1
<1> DEFINE k == Len(sock[e])
<1>4. /\ k \in Nat /\ DOMAIN sock[e] = 1..k /\ DOMAIN sock'[e] = 1..(k + 1)
      /\ \A i \in 1..k : sock'[e][i] = sock[e][i] /\ sock[e][i] \in Nat
      /\ sock'[e][k + 1] = emitted[e] + 1
  <2>1. sock[e] \in Seq(Nat) /\ emitted[e] + 1 \in Nat
    BY DEF IInv, TypeOK
  <2> DEFINE t == Append(sock[e], emitted[e] + 1)
  <2>2. /\ t \in Seq(Nat) /\ Len(t) = k + 1 /\ t[k + 1] = emitted[e] + 1
        /\ \A i \in 1..k : t[i] = sock[e][i]
    BY <2>1, AppendProperties
  <2>3. sock'[e] = t
    BY <1>2
  <2>4. k \in Nat /\ DOMAIN sock[e] = 1..k /\ \A i \in 1..k : sock[e][i] \in Nat
    BY <2>1, LenProperties, ElementOfSeq
  <2>5. DOMAIN t = 1..Len(t)
    BY <2>2, LenProperties
  <2> HIDE DEF t, k
  <2>6. QED
    BY <2>2, <2>3, <2>4, <2>5
<1> HIDE DEF k
<1>5. ASSUME NEW d \in Conn, NEW i \in DOMAIN sock'[d], sock'[d][i] # Reply
      PROVE  /\ sock'[d][i] <= emitted'[d]
             /\ \A j \in DOMAIN sock'[d] : j < i => sock'[d][j] < sock'[d][i]
             /\ \A n \in Numbered : n.conn = d => n.n < sock'[d][i]
  <2>1. CASE d # e
    BY <1>2, <1>5, <2>1 DEF IInv, Unread
  <2>2. CASE d = e /\ i # k + 1
    <3>1. i \in DOMAIN sock[e] /\ sock'[e][i] = sock[e][i] /\ sock[e][i] # Reply /\ sock[e][i] \in Nat
      BY <1>4, <1>5, <2>2
    <3>2. /\ sock[e][i] <= emitted[e]
          /\ \A j \in DOMAIN sock[e] : j < i => sock[e][j] < sock[e][i]
          /\ \A n \in Numbered : n.conn = e => n.n < sock[e][i]
      BY <3>1 DEF IInv, Unread
    <3>3. \A j \in DOMAIN sock'[e] : j < i => j \in DOMAIN sock[e] /\ sock'[e][j] = sock[e][j]
      BY <1>4, <3>1
    <3>4. QED
      BY <1>2, <2>2, <3>1, <3>2, <3>3
  <2>3. CASE d = e /\ i = k + 1
    <3>1. sock'[e][i] = emitted[e] + 1 /\ emitted'[e] = emitted[e] + 1 /\ emitted[e] \in Nat
      BY <1>2, <1>4, <2>3
    <3>2. ASSUME NEW j \in DOMAIN sock'[e], j < i PROVE sock'[e][j] < emitted[e] + 1
      <4>1. j \in DOMAIN sock[e] /\ sock'[e][j] = sock[e][j] /\ sock[e][j] \in Nat
        BY <1>4, <2>3, <3>2
      <4>2. sock[e][j] # Reply => sock[e][j] <= emitted[e]
        BY <4>1 DEF IInv, Unread
      <4>3. QED
        BY <3>1, <4>1, <4>2 DEF Reply
    <3>3. ASSUME NEW n \in Numbered, n.conn = e PROVE n.n < emitted[e] + 1
      <4>1. n.n \in Nat /\ n.n <= emitted[e]
        BY <1>1, <3>3 DEF IInv, NotAhead, Note
      <4>2. QED
        BY <3>1, <4>1
    <3>4. QED
      BY <2>3, <3>1, <3>2, <3>3
  <2>4. QED
    BY <2>1, <2>2, <2>3
<1>6. Unread'
  BY <1>1, <1>5 DEF Unread
<1>7. QED
  BY <1>1, <1>3, <1>6 DEF IInv

\* A reply is written behind what is unread.
LEMMA SendReplyStep ==
  ASSUME IInv, TypeOK', NEW e \in Conn, SendReply(e)
  PROVE  IInv'
<1>1. HeldOne' /\ Places' /\ Numbers' /\ Order' /\ Numbered' = Numbered /\ Numbered \subseteq Note
  BY StillStep DEF SendReply
<1>2. NotAhead'
  BY <1>1 DEF IInv, NotAhead, SendReply
<1>3. Unread'
  <2>1. ASSUME NEW d \in Conn, NEW i \in DOMAIN sock'[d], sock'[d][i] # Reply
        PROVE  /\ i \in DOMAIN sock[d] /\ sock[d][i] = sock'[d][i]
               /\ \A j \in DOMAIN sock'[d] : j < i => j \in DOMAIN sock[d] /\ sock[d][j] = sock'[d][j]
    <3>1. CASE d # e
      BY <2>1, <3>1 DEF IInv, TypeOK, SendReply
    <3>2. CASE d = e
      <4> DEFINE t == Append(sock[e], Reply)
                 k == Len(sock[e])
      <4>1. sock[e] \in Seq(Nat) /\ Reply \in Nat /\ sock'[d] = t
        BY <3>2 DEF IInv, TypeOK, SendReply, Reply
      <4>2. /\ t \in Seq(Nat) /\ Len(t) = k + 1 /\ t[k + 1] = Reply
            /\ \A j \in 1..k : t[j] = sock[e][j]
        BY <4>1, AppendProperties
      <4>3. k \in Nat /\ DOMAIN sock[e] = 1..k /\ DOMAIN t = 1..Len(t)
        BY <4>1, <4>2, LenProperties
      <4> HIDE DEF t, k
      <4>4. i \in 1..k
        BY <2>1, <3>2, <4>1, <4>2, <4>3
      <4>5. i \in DOMAIN sock[d] /\ sock[d][i] = sock'[d][i]
        BY <3>2, <4>1, <4>2, <4>3, <4>4
      <4>6. ASSUME NEW j \in DOMAIN sock'[d], j < i
            PROVE  j \in DOMAIN sock[d] /\ sock[d][j] = sock'[d][j]
        <5>1. j \in 1..k
          BY <3>2, <4>1, <4>2, <4>3, <4>4, <4>6
        <5>2. QED
          BY <3>2, <4>1, <4>2, <4>3, <5>1
      <4>7. QED
        BY <4>5, <4>6
    <3>3. QED
      BY <3>1, <3>2
  <2>2. emitted' = emitted
    BY DEF SendReply
  <2>3. QED
    BY <1>1, <2>1, <2>2 DEF IInv, Unread
<1>4. QED
  BY <1>1, <1>2, <1>3 DEF IInv

LEMMA CloseStep ==
  ASSUME IInv, TypeOK', NEW e \in Conn, Close(e)
  PROVE  IInv'
<1>1. HeldOne' /\ Places' /\ Numbers' /\ Order' /\ Numbered' = Numbered
  BY StillStep DEF Close
<1>2. NotAhead' /\ Unread'
  BY <1>1 DEF IInv, NotAhead, Unread, Close
<1>3. QED
  BY <1>1, <1>2 DEF IInv

\* What is unread in a socket is lost with its connection.
LEMMA DisconnectStep ==
  ASSUME IInv, TypeOK', NEW e \in Conn, Disconnect(e)
  PROVE  IInv'
<1>1. HeldOne' /\ Places' /\ Numbers' /\ Order' /\ Numbered' = Numbered
  BY StillStep DEF Disconnect
<1>2. NotAhead'
  BY <1>1 DEF IInv, NotAhead, Disconnect
<1>3. \A d \in Conn : sock'[d] = IF d = e THEN <<>> ELSE sock[d]
  BY DEF IInv, TypeOK, Disconnect
<1>4. Unread'
  BY <1>1, <1>3 DEF IInv, Unread, Disconnect
<1>5. QED
  BY <1>1, <1>2, <1>4 DEF IInv

\* A message is read: what stays unread has come after it.
LEMMA TakeHead ==
  ASSUME IInv, NEW e \in Conn, sock[e] # <<>>, sock' = [sock EXCEPT ![e] = Tail(@)]
  PROVE  /\ Head(sock[e]) \in Nat
         /\ Head(sock[e]) # Reply =>
              /\ Head(sock[e]) <= emitted[e]
              /\ \A n \in Numbered : n.conn = e => n.n < Head(sock[e])
         /\ \A d \in Conn : \A i \in DOMAIN sock'[d] : sock'[d][i] # Reply =>
              /\ sock'[d][i] <= emitted[d]
              /\ \A j \in DOMAIN sock'[d] : j < i => sock'[d][j] < sock'[d][i]
              /\ \A n \in Numbered : n.conn = d => n.n < sock'[d][i]
              /\ d = e => Head(sock[e]) < sock'[d][i]
<1> DEFINE s == sock[e]
           t == Tail(sock[e])
           k == Len(sock[e])
<1>1. s \in Seq(Nat) /\ s # <<>>
  BY DEF IInv, TypeOK
<1>2. /\ k \in Nat /\ k > 0 /\ DOMAIN s = 1..k /\ s[1] = Head(s) /\ Head(s) \in Nat
      /\ t \in Seq(Nat) /\ Len(t) = k - 1 /\ DOMAIN t = 1..(k - 1)
      /\ \A i \in 1..(k - 1) : t[i] = s[i + 1]
  BY <1>1, HeadTailProperties, LenProperties, EmptySeq
<1>3. \A d \in Conn : sock'[d] = IF d = e THEN t ELSE sock[d]
  BY DEF IInv, TypeOK
<1>4. \A i \in DOMAIN s : s[i] # Reply =>
        /\ s[i] <= emitted[e]
        /\ \A j \in DOMAIN s : j < i => s[j] < s[i]
        /\ \A n \in Numbered : n.conn = e => n.n < s[i]
  BY DEF IInv, Unread
<1>5. s = sock[e]
  OBVIOUS
<1> HIDE DEF s, t, k
<1>6. \A i \in 1..(k - 1) : i + 1 \in DOMAIN s /\ 1 < i + 1 /\ 1 \in DOMAIN s
  BY <1>2
<1>7. ASSUME NEW i \in DOMAIN t, t[i] # Reply
      PROVE  /\ t[i] <= emitted[e]
             /\ \A j \in DOMAIN t : j < i => t[j] < t[i]
             /\ \A n \in Numbered : n.conn = e => n.n < t[i]
             /\ Head(s) < t[i]
  <2>1. t[i] = s[i + 1] /\ i + 1 \in DOMAIN s /\ 1 < i + 1 /\ 1 \in DOMAIN s
    BY <1>2, <1>6, <1>7
  <2>2. ASSUME NEW j \in DOMAIN t, j < i
        PROVE  t[j] = s[j + 1] /\ j + 1 \in DOMAIN s /\ j + 1 < i + 1
    <3>1. i \in 1..(k - 1) /\ j \in 1..(k - 1)
      BY <1>2
    <3>2. i \in Nat /\ j \in Nat
      BY <1>2, <3>1
    <3>3. t[j] = s[j + 1] /\ j + 1 \in DOMAIN s
      BY <1>2, <1>6, <3>1
    <3>4. QED
      BY <2>2, <3>2, <3>3
  <2>3. /\ s[i + 1] <= emitted[e]
        /\ \A j \in DOMAIN s : j < i + 1 => s[j] < s[i + 1]
        /\ \A n \in Numbered : n.conn = e => n.n < s[i + 1]
    BY <1>4, <1>7, <2>1
  <2>4. Head(s) < t[i]
    BY <1>2, <2>1, <2>3
  <2>5. \A j \in DOMAIN t : j < i => t[j] < t[i]
    BY <2>1, <2>2, <2>3
  <2>6. QED
    BY <2>1, <2>3, <2>4, <2>5
<1>8. Head(s) # Reply => /\ Head(s) <= emitted[e]
                         /\ \A n \in Numbered : n.conn = e => n.n < Head(s)
  <2>1. 1 \in DOMAIN s
    BY <1>2
  <2>2. QED
    BY <1>2, <1>4, <2>1
<1>9. ASSUME NEW d \in Conn, d # e, NEW i \in DOMAIN sock[d], sock[d][i] # Reply
      PROVE  /\ sock[d][i] <= emitted[d]
             /\ \A j \in DOMAIN sock[d] : j < i => sock[d][j] < sock[d][i]
             /\ \A n \in Numbered : n.conn = d => n.n < sock[d][i]
  BY <1>9 DEF IInv, Unread
<1>10. ASSUME NEW d \in Conn, NEW i \in DOMAIN sock'[d], sock'[d][i] # Reply
       PROVE  /\ sock'[d][i] <= emitted[d]
              /\ \A j \in DOMAIN sock'[d] : j < i => sock'[d][j] < sock'[d][i]
              /\ \A n \in Numbered : n.conn = d => n.n < sock'[d][i]
              /\ d = e => Head(sock[e]) < sock'[d][i]
  <2>1. CASE d = e
    BY <1>3, <1>5, <1>7, <1>10, <2>1
  <2>2. CASE d # e
    BY <1>3, <1>9, <1>10, <2>2
  <2>3. QED
    BY <2>1, <2>2
<1>11. QED
  BY <1>2, <1>5, <1>8, <1>10

LEMMA ReadReplyStep ==
  ASSUME IInv, TypeOK', NEW e \in Conn, ReadReply(e)
  PROVE  IInv'
<1>1. HeldOne' /\ Places' /\ Numbers' /\ Order' /\ Numbered' = Numbered
  BY StillStep DEF ReadReply
<1>2. NotAhead'
  BY <1>1 DEF IInv, NotAhead, ReadReply
<1>3. sock[e] # <<>> /\ sock' = [sock EXCEPT ![e] = Tail(@)] /\ emitted' = emitted
  BY DEF ReadReply
<1>4. Unread'
  BY <1>1, <1>3, TakeHead DEF Unread
<1>5. QED
  BY <1>1, <1>2, <1>4 DEF IInv

\* A notification gets the next number: it is larger than all numbers given.
LEMMA ReadNoteStep ==
  ASSUME IInv, TypeOK', NEW e \in Conn, ReadNote(e)
  PROVE  IInv'
<1> DEFINE h == Head(sock[e])
           x == [conn |-> e, n |-> h, seq |-> sequence + 1]
<1>1. /\ sock[e] # <<>> /\ h # Reply /\ sock' = [sock EXCEPT ![e] = Tail(@)]
      /\ held[e] = {} /\ held' = [held EXCEPT ![e] = {x}] /\ sequence' = sequence + 1
      /\ UNCHANGED <<emitted, channel, written, failed>>
  BY DEF IInv, TypeOK, ReadNote, Reading, Number, NextSequence
<1>2. \A d \in Conn : held'[d] = IF d = e THEN {x} ELSE held[d]
  BY <1>1 DEF IInv, TypeOK
<1>3. Line' = Line /\ Held' = Held \cup {x}
  BY <1>1, <1>2 DEF Line, Held
<1>4. Numbered' = Numbered \cup {x}
  BY <1>1, <1>3, WhereIs DEF IInv
<1>5. /\ h \in Nat /\ h <= emitted[e] /\ \A n \in Numbered : n.conn = e => n.n < h
      /\ \A d \in Conn : \A i \in DOMAIN sock'[d] : sock'[d][i] # Reply =>
              /\ sock'[d][i] <= emitted[d]
              /\ \A j \in DOMAIN sock'[d] : j < i => sock'[d][j] < sock'[d][i]
              /\ \A n \in Numbered : n.conn = d => n.n < sock'[d][i]
              /\ d = e => h < sock'[d][i]
  BY <1>1, TakeHead
<1>6. x.conn = e /\ x.n = h /\ x.seq = sequence + 1 /\ sequence \in Nat
  BY DEF IInv, TypeOK
<1>7. \A n \in Numbered : n.seq \in 1..sequence /\ n # x
  BY <1>6 DEF IInv, Numbers
<1> HIDE DEF x, h
<1>8. HeldOne'
  BY <1>2, <1>6 DEF IInv, HeldOne
<1>9. Places'
  <2>1. x \notin ToSet(Line) /\ x \notin failed
    BY <1>7, WhereIs DEF IInv
  <2>2. QED
    BY <1>1, <1>3, <2>1 DEF IInv, Places, IsInjective
<1>10. Numbers'
  <2>1. ASSUME NEW s \in 1..sequence' PROVE \E n \in Numbered' : n.seq = s
    <3>1. CASE s = sequence + 1
      BY <1>4, <1>6, <3>1
    <3>2. CASE s \in 1..sequence
      BY <1>4, <3>2 DEF IInv, Numbers
    <3>3. QED
      BY <1>1, <1>6, <2>1, <3>1, <3>2
  <2>2. ASSUME NEW m \in Numbered', NEW n \in Numbered', m.seq = n.seq PROVE m = n
    BY <1>4, <1>6, <1>7, <2>2 DEF IInv, Numbers
  <2>3. \A n \in Numbered' : n.seq \in 1..sequence'
    BY <1>1, <1>4, <1>6, <1>7
  <2>4. QED
    BY <2>1, <2>2, <2>3 DEF Numbers
<1>11. Unread'
  BY <1>1, <1>4, <1>5, <1>6 DEF Unread
<1>12. NotAhead'
  BY <1>1, <1>4, <1>5, <1>6 DEF IInv, NotAhead
<1>13. Order'
  <2>1. \A i, j \in DOMAIN Line' : i < j /\ Line'[i].conn = Line'[j].conn =>
          Line'[i].n < Line'[j].n /\ Line'[i].seq < Line'[j].seq
    BY <1>3 DEF IInv, Order
  <2>2. ASSUME NEW d \in Conn, NEW n \in held'[d], NEW m \in ToSet(Line'), m.conn = d
        PROVE  m.n < n.n /\ m.seq < n.seq
    <3>1. m \in Numbered
      BY <1>3, WhereIs DEF IInv
    <3>2. CASE d = e
      <4>1. n = x /\ m.n < h /\ m.seq \in 1..sequence
        BY <1>2, <1>5, <1>7, <2>2, <3>1, <3>2
      <4>2. QED
        BY <1>6, <4>1
    <3>3. CASE d # e
      BY <1>2, <1>3, <2>2, <3>3 DEF IInv, Order
    <3>4. QED
      BY <3>2, <3>3
  <2>3. QED
    BY <2>1, <2>2 DEF Order
<1>14. QED
  BY <1>8, <1>9, <1>10, <1>11, <1>12, <1>13 DEF IInv

\* What a reader has in hand goes to the end of the line.
LEMMA SendNoteStep ==
  ASSUME IInv, TypeOK', NEW e \in Conn, NEW x \in held[e], SendNote(e, x)
  PROVE  IInv'
<1>1. x \in Note /\ x.conn = e /\ x \in Held
  BY DEF IInv, TypeOK, HeldOne, Held
<1>2. Line' = Append(Line, x) /\ ToSet(Line') = ToSet(Line) \cup {x}
  <2>1. Line \in Seq(Note) /\ channel' = Append(channel, x) /\ written' = written
    BY WhereIs DEF IInv, SendNote
  <2>2. Line' = Append(Line, x)
    <3>1. written \in Seq(Note) /\ channel \in Seq(Note)
      BY DEF IInv, TypeOK
    <3>2. written \o Append(channel, x) = Append(written \o channel, x)
      BY <1>1, <3>1, JoinedSend
    <3>3. QED
      BY <2>1, <3>2 DEF Line
  <2>3. QED
    BY <1>1, <2>1, <2>2, Elements
<1>3. \A d \in Conn : held'[d] = IF d = e THEN {} ELSE held[d]
  <2>1. held[e] \ {x} = {}
    BY DEF IInv, HeldOne
  <2>2. QED
    BY <2>1 DEF IInv, TypeOK, SendNote
<1>4. Held' = Held \ {x}
  <2>1. \A d \in Conn : held'[d] = held[d] \ {x}
    BY <1>1, <1>3 DEF IInv, HeldOne
  <2>2. QED
    BY <2>1 DEF Held
<1>5. Numbered' = Numbered
  BY <1>1, <1>2, <1>4, WhereIs DEF IInv, SendNote
<1>6. UNCHANGED <<emitted, sock, sequence, failed>>
  BY DEF SendNote
<1>7. HeldOne'
  BY <1>3 DEF IInv, HeldOne
<1>8. x \notin ToSet(Line) /\ x \notin failed
  BY <1>1 DEF IInv, Places
<1> DEFINE k == Len(Line)
<1>9. /\ k \in Nat /\ DOMAIN Line = 1..k /\ DOMAIN Line' = 1..(k + 1)
      /\ Line'[k + 1] = x /\ \A i \in 1..k : Line'[i] = Line[i] /\ Line[i] \in ToSet(Line)
  <2>1. Line \in Seq(Note) /\ k \in Nat /\ DOMAIN Line = 1..k
    BY WhereIs DEF IInv
  <2>2. /\ Len(Append(Line, x)) = k + 1 /\ Append(Line, x)[k + 1] = x
        /\ \A i \in 1..k : Append(Line, x)[i] = Line[i]
    BY <1>1, <2>1, AppendProperties
  <2>3. DOMAIN Line' = 1..Len(Line')
    BY WhereIs DEF IInv
  <2>4. \A i \in 1..k : Line[i] \in ToSet(Line)
    BY <2>1 DEF ToSet
  <2> HIDE DEF k
  <2>5. QED
    BY <1>2, <2>1, <2>2, <2>3, <2>4
<1> HIDE DEF k
<1>10. Places'
  <2>1. ASSUME NEW i \in DOMAIN Line', NEW j \in DOMAIN Line', Line'[i] = Line'[j]
        PROVE  i = j
    BY <1>8, <1>9, <2>1 DEF IInv, Places, IsInjective
  <2>2. QED
    BY <1>2, <1>4, <1>6, <1>8, <2>1 DEF IInv, Places, IsInjective
<1>11. Numbers' /\ Unread' /\ NotAhead'
  BY <1>5, <1>6 DEF IInv, Numbers, Unread, NotAhead
<1>12. Order'
  <2>1. ASSUME NEW i \in DOMAIN Line', NEW j \in DOMAIN Line', i < j, Line'[i].conn = Line'[j].conn
        PROVE  Line'[i].n < Line'[j].n /\ Line'[i].seq < Line'[j].seq
    <3>1. CASE j = k + 1
      <4>1. Line'[j] = x /\ Line'[i] \in ToSet(Line) /\ Line'[i].conn = e
        BY <1>1, <1>9, <2>1, <3>1
      <4>2. QED
        BY <4>1 DEF IInv, Order
    <3>2. CASE j \in 1..k
      <4>1. i \in DOMAIN Line /\ j \in DOMAIN Line /\ Line'[i] = Line[i] /\ Line'[j] = Line[j]
        BY <1>9, <2>1, <3>2
      <4>2. QED
        BY <2>1, <4>1 DEF IInv, Order
    <3>3. QED
      BY <1>9, <3>1, <3>2
  <2>2. ASSUME NEW d \in Conn, NEW n \in held'[d], NEW m \in ToSet(Line'), m.conn = d
        PROVE  m.n < n.n /\ m.seq < n.seq
    <3>1. d # e /\ n \in held[d] /\ m \in ToSet(Line)
      BY <1>1, <1>2, <1>3, <2>2
    <3>2. QED
      BY <2>2, <3>1 DEF IInv, Order
  <2>3. QED
    BY <2>1, <2>2 DEF Order
<1>13. QED
  BY <1>7, <1>10, <1>11, <1>12 DEF IInv

\* The writer writes the next notification, or takes it out of the line.
LEMMA WriteNoteStep ==
  ASSUME IInv, TypeOK', WriteNote
  PROVE  IInv'
<1> DEFINE h == Head(channel)
<1>1. /\ channel # <<>> /\ channel' = Tail(channel)
      /\ UNCHANGED <<emitted, sock, held, sequence>> /\ Held' = Held
  BY DEF WriteNote, Held
<1>2. channel \in Seq(Note) /\ written \in Seq(Note)
  BY DEF IInv, TypeOK
<1>3. HeldOne'
  BY <1>1 DEF IInv, HeldOne
<1>4. CASE written' = Append(written, h) /\ UNCHANGED failed
  <2>1. Line' = Line
    BY <1>1, <1>2, <1>4, JoinedMove DEF Line
  <2>2. Numbered' = Numbered
    BY <1>1, <1>4, <2>1, WhereIs DEF IInv
  <2>3. Places' /\ Order'
    BY <1>1, <1>4, <2>1 DEF IInv, Places, Order
  <2>4. Numbers' /\ Unread' /\ NotAhead'
    BY <1>1, <2>2 DEF IInv, Numbers, Unread, NotAhead
  <2>5. QED
    BY <1>3, <2>3, <2>4 DEF IInv
<1>5. CASE failed' = failed \cup {h} /\ UNCHANGED written
  <2> DEFINE k == Len(written) + 1
  <2>1. Line' = written \o Tail(channel)
    BY <1>1, <1>5 DEF Line
  <2>2. Drops(Line, Line', k) /\ Line[k] = h
    BY <1>1, <1>2, <2>1, JoinedDrop DEF Line
  <2> HIDE DEF k
  <2>3. k \in DOMAIN Line /\ ToSet(Line) = ToSet(Line') \cup {h} /\ Line[k] = h
    BY <2>2 DEF Drops
  <2>4. PICK place \in [DOMAIN Line' -> DOMAIN Line \ {k}] :
             /\ \A i \in DOMAIN Line' : Line'[i] = Line[place[i]]
             /\ \A i, j \in DOMAIN Line' : i < j => place[i] < place[j]
             /\ \A i, j \in DOMAIN Line' : place[i] = place[j] => i = j
    BY <2>2 DEF Drops
  <2>5. failed' = failed \cup {h}
    BY <1>5
  <2> HIDE DEF h
  <2>6. \A i \in DOMAIN Line' : place[i] \in DOMAIN Line /\ place[i] # k
    BY <2>4
  <2>7. IsInjective(Line') /\ h \notin ToSet(Line')
    BY <2>3, <2>4, <2>6 DEF IInv, Places, IsInjective, ToSet
  <2>8. Numbered' = Numbered
    BY <1>1, <2>3, <2>5, WhereIs DEF IInv
  <2>9. Places'
    BY <1>1, <2>3, <2>5, <2>7 DEF IInv, Places
  <2>10. Numbers' /\ Unread' /\ NotAhead'
    BY <1>1, <2>8 DEF IInv, Numbers, Unread, NotAhead
  <2>11. ASSUME NEW i \in DOMAIN Line', NEW j \in DOMAIN Line', i < j,
                Line'[i].conn = Line'[j].conn
         PROVE  Line'[i].n < Line'[j].n /\ Line'[i].seq < Line'[j].seq
    <3>1. /\ place[i] \in DOMAIN Line /\ place[j] \in DOMAIN Line /\ place[i] < place[j]
          /\ Line'[i] = Line[place[i]] /\ Line'[j] = Line[place[j]]
      BY <2>4, <2>6, <2>11
    <3>2. QED
      BY <2>11, <3>1 DEF IInv, Order
  <2>12. Order'
    BY <1>1, <2>3, <2>11 DEF IInv, Order
  <2>13. QED
    BY <1>3, <2>9, <2>10, <2>12 DEF IInv
<1>6. QED
  BY <1>4, <1>5 DEF WriteNote

LEMMA Invariance == Spec => []IInv
<1>1. IInv /\ [Next]_vars => IInv'
  <2> SUFFICES ASSUME IInv, [Next]_vars PROVE IInv'
    OBVIOUS
  <2>1. TypeOK'
    BY TypeStep DEF IInv
  <2>2. CASE UNCHANGED vars
    <3>1. Line' = Line /\ Held' = Held /\ Numbered' = Numbered
      BY <2>2 DEF vars, Line, Held, Numbered, InFlight
    <3>2. QED
      BY <2>1, <2>2, <3>1
      DEF vars, IInv, HeldOne, Places, Numbers, Unread, NotAhead, Order
  <2>3. CASE Next
    BY <2>1, <2>3, EmitStep, SendReplyStep, CloseStep, ReadReplyStep, ReadNoteStep, SendNoteStep,
       DisconnectStep, WriteNoteStep DEF Next, ReaderStep, ExtensionStep
  <2>4. QED
    BY <2>2, <2>3
<1>2. QED
  BY InitInv, <1>1, PTL DEF Spec
-----------------------------------------------------------------------------
\* Every variable of the notification path has its type.
THEOREM TypeCorrect == Spec => []TypeOK
<1>1. IInv => TypeOK
  BY DEF IInv
<1>2. QED
  BY Invariance, <1>1, PTL

\* However many readers number and send at the same time: a number missing in
\* what the client sees belongs to one notification that is on its way or
\* whose write failed.
THEOREM NoNumberLost == Spec => []SequenceAccounted
<1>1. IInv => SequenceAccounted
  <2> SUFFICES ASSUME IInv PROVE SequenceAccounted
    OBVIOUS
  <2>1. ToSet(Line) \cap (failed \cup Held) = {} /\ IsInjective(Line)
    BY DEF IInv, Places
  <2>2. QED
    BY <2>1 DEF IInv, Numbers, SequenceAccounted, Line, Held
<1>2. QED
  BY Invariance, <1>1, PTL

\* The notifications of one connection reach the client in the order in which
\* they were emitted on it, whatever the other readers do in between.
THEOREM InOrder == Spec => []PerConnectionOrder
<1>1. IInv => PerConnectionOrder
  BY DEF IInv, Order, PerConnectionOrder, Line
<1>2. QED
  BY Invariance, <1>1, PTL
=============================================================================
