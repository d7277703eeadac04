---------------------------- MODULE Server_proofs ----------------------------
(***************************************************************************)
(* The API server of a node.  The chat, for every number of streams and    *)
(* messages of any kind in any rooms; the threads that share the mutexes,  *)
(* for every combination of requests, nodes and restarts.                  *)
(***************************************************************************)
EXTENDS Chat, Api, TotalTheorems, SequenceTheorems

-----------------------------------------------------------------------------
(* The chat: sequences of events.                                            *)

Event == [kind : {"Join", "Leave"}, id : Readers, room : Rooms]

\* The events in the order in which the chat thread will handle them.
Queue == batch \o events

\* An event of that kind of reader r is in q.
HasEvent(q, kind, r) == \E i \in 1..Len(q) : q[i].kind = kind /\ q[i].id = r

\* At most a Join and then a Leave of each reader are in q.
Ordered(q) ==
    \A i, j \in 1..Len(q) :
        i < j /\ q[i].id = q[j].id => q[i].kind = "Join" /\ q[j].kind = "Leave"

\* The types that the steps below need.
ChatTypes ==
    /\ chat_readers_idx \in 0..MaxReaders
    /\ room \in [Readers -> Rooms \cup {""}]
    /\ reader \in [Readers -> {"none", "open", "dropped"}]
    /\ put \subseteq Messages
    /\ stored \subseteq put
    /\ chat \in [Readers -> Seq(put)]
    /\ output \in [Readers -> Seq(put)]
    /\ arrived \in [Readers -> Seq(put)]
    /\ chat_poisoned \subseteq Readers
    /\ batch \in Seq(Event)
    /\ events \in Seq(Event)
    /\ tokens \subseteq Readers \X Rooms
    /\ down \in BOOLEAN

\* Ids are given in order, and a reader keeps the room it was given.
IdsGiven ==
    \A r \in Readers :
        /\ reader[r] = "none" <=> r > chat_readers_idx
        /\ r <= chat_readers_idx => room[r] \in Rooms

\* Events and tokens are those of readers with an id, and name their rooms.
EventsOwn ==
    /\ \A i \in 1..Len(Queue) :
          Queue[i].id \in 1..chat_readers_idx /\ Queue[i].room = room[Queue[i].id]
    /\ \A t \in tokens : t[1] \in 1..chat_readers_idx /\ t[2] = room[t[1]]

\* What is on its way for reader r, by what has become of it.
Stages ==
    \A r \in Readers :
        /\ reader[r] = "open" =>
              /\ ~HasEvent(Queue, "Leave", r)
              /\ Listening(r) <=> ~HasEvent(Queue, "Join", r)
        /\ reader[r] = "dropped" =>
              /\ Listening(r) <=> HasEvent(Queue, "Leave", r) /\ ~HasEvent(Queue, "Join", r)
              /\ HasEvent(Queue, "Join", r) => HasEvent(Queue, "Leave", r)

\* Bodies(s, i) is a position of `sent`, which InOrder leaves open.
Placed(sent, s) ==
    \A i \in 1..Len(s) : KindOf[s[i]] # "empty" => Bodies(s, i) \in 1..Len(sent)

\* As long as the node is up: what a stream has sent and what it still has to
\* send are together what arrived for it, in order.
Streams ==
    ~down => \A r \in Readers :
        /\ InOrder(output[r] \o chat[r], arrived[r])
        /\ Placed(output[r] \o chat[r], arrived[r])
        /\ \A i \in 1..Len(chat[r]) : chat[r][i] \in Arrived(r)

\* A poisoned buffer is that of a reader that met an oversize message, and only
\* a callback for such a reader brings the node down.
Poisoning ==
    /\ \A r \in chat_poisoned :
          reader[r] = "dropped" /\ \E m \in Arrived(r) : KindOf[m] = "oversize"
    /\ down => \E r \in chat_poisoned : Listening(r)

\* The inductive invariant of the chat.
ChatInv ==
    /\ ChatTypes
    /\ IdsGiven
    /\ EventsOwn
    /\ Ordered(Queue)
    /\ Stages
    /\ Streams
    /\ Poisoning

-----------------------------------------------------------------------------
(* Lemmas on sequences.                                                      *)

\* The elements of a sequence that grows or loses its head.
LEMMA ElementsOf ==
    ASSUME NEW S, NEW s \in Seq(S)
    PROVE  /\ \A x \in S : ToSet(Append(s, x)) = ToSet(s) \cup {x}
           /\ ToSet(s) = {s[i] : i \in 1..Len(s)}
           /\ ToSet(s) \subseteq S
<1>1. ToSet(s) = {s[i] : i \in 1..Len(s)}
  BY LenProperties DEF ToSet
<1>2. ToSet(s) \subseteq S
  BY <1>1, ElementOfSeq
<1>3. ASSUME NEW x \in S
      PROVE  ToSet(Append(s, x)) = ToSet(s) \cup {x}
  <2> DEFINE a == Append(s, x)
  <2>1. /\ a \in Seq(S) /\ Len(a) = Len(s) + 1 /\ Len(s) \in Nat
        /\ \A i \in 1..Len(s) : a[i] = s[i]
        /\ a[Len(s) + 1] = x
    BY AppendProperties, LenProperties
  <2> HIDE DEF a
  <2>2. ToSet(a) = {a[i] : i \in 1..Len(a)}
    BY <2>1, LenProperties DEF ToSet
  <2>3. 1..Len(a) = 1..Len(s) \cup {Len(s) + 1}
    BY <2>1
  <2>4. ToSet(a) = {a[i] : i \in 1..Len(s)} \cup {a[Len(s) + 1]}
    BY <2>2, <2>3
  <2>5. {a[i] : i \in 1..Len(s)} = {s[i] : i \in 1..Len(s)}
    BY <2>1
  <2>6. QED
    BY <1>1, <2>1, <2>4, <2>5 DEF a
<1>4. QED
  BY <1>1, <1>2, <1>3

\* An element moves from the head of t to the end of s, or arrives at the end
\* of t: what the two hold together stays in order.
LEMMA ConcatMoves ==
    ASSUME NEW S, NEW s \in Seq(S), NEW t \in Seq(S)
    PROVE  /\ s \o t \in Seq(S)
           /\ \A x \in S : s \o Append(t, x) = Append(s \o t, x)
           /\ t # <<>> => Append(s, Head(t)) \o Tail(t) = s \o t
           /\ <<>> \o t = t /\ t \o <<>> = t
<1>1. s \o t \in Seq(S)
  BY ConcatProperties
<1>2. ASSUME NEW x \in S
      PROVE  s \o Append(t, x) = Append(s \o t, x)
  <2>1. <<x>> \in Seq(S)
    OBVIOUS
  <2>2. Append(t, x) = t \o <<x>> /\ Append(s \o t, x) = (s \o t) \o <<x>>
    BY <1>1, AppendIsConcat
  <2>3. (s \o t) \o <<x>> = s \o (t \o <<x>>)
    BY <2>1, ConcatAssociative
  <2>4. QED
    BY <2>2, <2>3
<1>3. ASSUME t # <<>>
      PROVE  Append(s, Head(t)) \o Tail(t) = s \o t
  <2>1. Head(t) \in S /\ Tail(t) \in Seq(S)
    BY <1>3, HeadTailProperties
  <2>2. <<Head(t)>> \in Seq(S)
    BY <2>1
  <2>3. Append(s, Head(t)) = s \o <<Head(t)>>
    BY <2>1, AppendIsConcat
  <2>4. (s \o <<Head(t)>>) \o Tail(t) = s \o (<<Head(t)>> \o Tail(t))
    BY <2>1, <2>2, ConcatAssociative
  <2>5. <<Head(t)>> \o Tail(t) = t
    <3>1. Len(t) \in Nat \ {0}
      BY <1>3, EmptySeq
    <3>2. t = SubSeq(t, 1, Len(t)) /\ Tail(t) = SubSeq(t, 2, Len(t)) /\ Head(t) = t[1]
      BY <1>3, SubSeqFull, TailIsSubSeq
    <3>3. SubSeq(t, 1, Len(t)) = <<t[1]>> \o SubSeq(t, 1 + 1, Len(t))
      BY <3>1, SubSeqRecursiveFirst
    <3>4. QED
      BY <3>2, <3>3
  <2>6. QED
    BY <2>3, <2>4, <2>5
<1>4. <<>> \o t = t /\ t \o <<>> = t
  BY ConcatEmptySeq
<1>5. QED
  BY <1>1, <1>2, <1>3, <1>4

\* The first sequence of a concatenation loses its head.
LEMMA ConcatTail ==
    ASSUME NEW S, NEW s \in Seq(S), NEW t \in Seq(S), s # <<>>
    PROVE  /\ Tail(s) \o t = Tail(s \o t)
           /\ Head(s \o t) = Head(s)
           /\ s \o t # <<>>
<1> DEFINE q == s \o t
<1>1. /\ q \in Seq(S) /\ Len(q) = Len(s) + Len(t) /\ Len(s) \in Nat \ {0} /\ Len(t) \in Nat
      /\ \A i \in 1..Len(s) + Len(t) : q[i] = IF i <= Len(s) THEN s[i] ELSE t[i - Len(s)]
  BY ConcatProperties, EmptySeq, LenProperties
<1> HIDE DEF q
<1>2. q # <<>>
  BY <1>1, EmptySeq
<1>3. Head(q) = q[1] /\ Head(s) = s[1] /\ q[1] = s[1]
  BY <1>1, <1>2
<1> DEFINE u == Tail(s)  w == u \o t  v == Tail(q)
<1>4. /\ u \in Seq(S) /\ Len(u) = Len(s) - 1
      /\ \A i \in 1..Len(u) : u[i] = s[i + 1]
  BY HeadTailProperties
<1>5. /\ v \in Seq(S) /\ Len(v) = Len(q) - 1
      /\ \A i \in 1..Len(v) : v[i] = q[i + 1]
  BY <1>1, <1>2, HeadTailProperties
<1> HIDE DEF u, v
<1>6. /\ w \in Seq(S) /\ Len(w) = Len(u) + Len(t)
      /\ \A i \in 1..Len(u) + Len(t) : w[i] = IF i <= Len(u) THEN u[i] ELSE t[i - Len(u)]
  BY <1>4, ConcatProperties
<1> HIDE DEF w
<1>7. Len(w) = Len(v)
  BY <1>1, <1>4, <1>5, <1>6
<1>8. ASSUME NEW i \in 1..Len(w)
      PROVE  w[i] = v[i]
  <2>0. i \in Int /\ i + 1 \in 1..Len(s) + Len(t) /\ i \in 1..Len(u) + Len(t) /\ i \in 1..Len(v)
    BY <1>1, <1>4, <1>5, <1>6
  <2>1. v[i] = q[i + 1]
    BY <1>5, <2>0
  <2>2. CASE i <= Len(u)
    <3>1. i \in 1..Len(u) /\ i + 1 <= Len(s)
      BY <1>1, <1>4, <2>0, <2>2
    <3>2. w[i] = u[i] /\ u[i] = s[i + 1] /\ q[i + 1] = s[i + 1]
      BY <1>1, <1>4, <1>6, <2>0, <3>1
    <3>3. QED
      BY <2>1, <3>2
  <2>3. CASE ~(i <= Len(u))
    <3>1. ~(i + 1 <= Len(s)) /\ (i + 1) - Len(s) = i - Len(u)
      BY <1>1, <1>4, <2>0, <2>3
    <3>2. w[i] = t[i - Len(u)] /\ q[i + 1] = t[(i + 1) - Len(s)]
      BY <1>1, <1>6, <2>0, <2>3, <3>1
    <3>3. QED
      BY <2>1, <3>1, <3>2
  <2>4. QED
    BY <2>2, <2>3
<1>9. w = v
  BY <1>5, <1>6, <1>7, <1>8, SeqEqual
<1>10. QED
  BY <1>2, <1>3, <1>9 DEF w, v, u, q

\* A reader's event is appended: its Join first, then one Leave.
LEMMA EventAppended ==
    ASSUME NEW q \in Seq(Event), NEW x \in Event
    PROVE  /\ \A kind, r : HasEvent(Append(q, x), kind, r)
                             <=> HasEvent(q, kind, r) \/ (x.kind = kind /\ x.id = r)
           /\ /\ Ordered(q)
              /\ ~HasEvent(q, "Leave", x.id)
              /\ HasEvent(q, "Join", x.id) => x.kind = "Leave"
              => Ordered(Append(q, x))
<1> DEFINE a == Append(q, x)
<1>1. /\ a \in Seq(Event) /\ Len(a) = Len(q) + 1 /\ Len(q) \in Nat
      /\ \A i \in 1..Len(q) : a[i] = q[i]
      /\ a[Len(q) + 1] = x
  BY AppendProperties, LenProperties
<1>2. \A i \in 1..Len(q) : q[i] \in Event
  BY ElementOfSeq
<1> HIDE DEF a
<1>3. ASSUME NEW kind, NEW r
      PROVE  HasEvent(a, kind, r) <=> HasEvent(q, kind, r) \/ (x.kind = kind /\ x.id = r)
  <2>1. \A i : i \in 1..Len(a) <=> i \in 1..Len(q) \/ i = Len(q) + 1
    BY <1>1
  <2>2. QED
    BY <1>1, <2>1 DEF HasEvent
<1>4. ASSUME Ordered(q), ~HasEvent(q, "Leave", x.id),
             HasEvent(q, "Join", x.id) => x.kind = "Leave"
      PROVE  Ordered(a)
  <2>1. SUFFICES ASSUME NEW i \in 1..Len(a), NEW j \in 1..Len(a), i < j, a[i].id = a[j].id
                 PROVE  a[i].kind = "Join" /\ a[j].kind = "Leave"
    BY DEF Ordered
  <2>2. i \in 1..Len(q) /\ a[i] = q[i]
    BY <1>1, <2>1
  <2>3. CASE j \in 1..Len(q)
    BY <1>1, <1>4, <2>1, <2>2, <2>3 DEF Ordered
  <2>4. CASE j = Len(q) + 1
    <3>1. q[i].id = x.id
      BY <1>1, <2>1, <2>2, <2>4
    <3>2. q[i].kind # "Leave"
      BY <1>4, <2>2, <3>1 DEF HasEvent
    <3>3. q[i].kind = "Join"
      BY <1>2, <2>2, <3>2 DEF Event
    <3>4. x.kind = "Leave"
      BY <1>4, <2>2, <3>1, <3>3 DEF HasEvent
    <3>5. QED
      BY <1>1, <2>2, <2>4, <3>3, <3>4
  <2>5. QED
    BY <1>1, <2>3, <2>4
<1>5. QED
  BY <1>3, <1>4 DEF a

\* The first event is handled: of two events of a reader it is the Join.
LEMMA EventHandled ==
    ASSUME NEW q \in Seq(Event), q # <<>>, Ordered(q)
    PROVE  /\ Ordered(Tail(q))
           /\ \A kind, r : HasEvent(Tail(q), kind, r)
                  <=> HasEvent(q, kind, r) /\ ~(Head(q).kind = kind /\ Head(q).id = r)
           /\ HasEvent(q, Head(q).kind, Head(q).id)
           /\ Head(q).kind = "Leave" => ~HasEvent(q, "Join", Head(q).id)
<1> DEFINE t == Tail(q)
<1>1. /\ t \in Seq(Event) /\ Len(t) = Len(q) - 1 /\ Len(q) \in Nat \ {0}
      /\ \A i \in 1..Len(t) : t[i] = q[i + 1]
      /\ Head(q) = q[1]
  BY HeadTailProperties, EmptySeq
<1> HIDE DEF t
<1>2. Ordered(t)
  <2>1. SUFFICES ASSUME NEW i \in 1..Len(t), NEW j \in 1..Len(t), i < j, t[i].id = t[j].id
                 PROVE  t[i].kind = "Join" /\ t[j].kind = "Leave"
    BY DEF Ordered
  <2>2. i + 1 \in 1..Len(q) /\ j + 1 \in 1..Len(q) /\ i + 1 < j + 1
    BY <1>1, <2>1
  <2>3. q[i + 1].id = q[j + 1].id
    BY <1>1, <2>1
  <2>4. q[i + 1].kind = "Join" /\ q[j + 1].kind = "Leave"
    BY <2>2, <2>3 DEF Ordered
  <2>5. QED
    BY <1>1, <2>4
<1>3. \A j \in 1..Len(q) : j # 1 => ~(q[j].kind = q[1].kind /\ q[j].id = q[1].id)
  <2>1. SUFFICES ASSUME NEW j \in 1..Len(q), j # 1, q[j].id = q[1].id
                 PROVE  q[j].kind # q[1].kind
    OBVIOUS
  <2>2. 1 \in 1..Len(q) /\ 1 < j
    BY <1>1, <2>1
  <2>3. q[1].kind = "Join" /\ q[j].kind = "Leave"
    BY <2>1, <2>2 DEF Ordered
  <2>4. QED
    BY <2>3
<1>4. ASSUME NEW kind, NEW r
      PROVE  HasEvent(t, kind, r)
               <=> HasEvent(q, kind, r) /\ ~(q[1].kind = kind /\ q[1].id = r)
  <2>1. ASSUME HasEvent(t, kind, r)
        PROVE  HasEvent(q, kind, r) /\ ~(q[1].kind = kind /\ q[1].id = r)
    <3>1. PICK i \in 1..Len(t) : t[i].kind = kind /\ t[i].id = r
      BY <2>1 DEF HasEvent
    <3>2. i + 1 \in 1..Len(q) /\ i + 1 # 1 /\ t[i] = q[i + 1]
      BY <1>1, <3>1
    <3>3. QED
      BY <1>3, <3>1, <3>2 DEF HasEvent
  <2>2. ASSUME HasEvent(q, kind, r), ~(q[1].kind = kind /\ q[1].id = r)
        PROVE  HasEvent(t, kind, r)
    <3>1. PICK j \in 1..Len(q) : q[j].kind = kind /\ q[j].id = r
      BY <2>2 DEF HasEvent
    <3>2. j # 1
      BY <2>2, <3>1
    <3>3. j - 1 \in 1..Len(t) /\ (j - 1) + 1 = j
      BY <1>1, <3>1, <3>2
    <3>4. t[j - 1] = q[j]
      BY <1>1, <3>3
    <3>5. QED
      BY <3>1, <3>3, <3>4 DEF HasEvent
  <2>3. QED
    BY <2>1, <2>2
<1>5. HasEvent(q, q[1].kind, q[1].id)
  BY <1>1 DEF HasEvent
<1>6. q[1].kind = "Leave" => ~HasEvent(q, "Join", q[1].id)
  <2>1. SUFFICES ASSUME q[1].kind = "Leave", NEW j \in 1..Len(q),
                        q[j].kind = "Join", q[j].id = q[1].id
                 PROVE  FALSE
    BY DEF HasEvent
  <2>2. 1 \in 1..Len(q) /\ 1 < j
    BY <1>1, <2>1
  <2>3. q[1].kind = "Join"
    BY <2>1, <2>2 DEF Ordered
  <2>4. QED
    BY <2>1, <2>3
<1>7. QED
  BY <1>1, <1>2, <1>4, <1>5, <1>6 DEF t

\* A message arrives: with a body it is one more to be sent, in the last place;
\* without, nothing changes.
LEMMA ArrivalInOrder ==
    ASSUME NEW sent \in Seq(Messages), NEW s \in Seq(Messages), NEW m \in Messages,
           InOrder(sent, s), Placed(sent, s)
    PROVE  /\ KindOf[m] = "empty" => InOrder(sent, Append(s, m)) /\ Placed(sent, Append(s, m))
           /\ KindOf[m] # "empty" => /\ InOrder(Append(sent, m), Append(s, m))
                                     /\ Placed(Append(sent, m), Append(s, m))
<1> DEFINE a == Append(s, m)
           b == Append(sent, m)
           Count(t, k) == [i \in 1..k |-> IF KindOf[t[i]] = "empty" THEN 0 ELSE 1]
<1>1. /\ a \in Seq(Messages) /\ Len(a) = Len(s) + 1 /\ Len(s) \in Nat
      /\ \A i \in 1..Len(s) : a[i] = s[i]
      /\ a[Len(s) + 1] = m
  BY AppendProperties, LenProperties
<1>2. /\ b \in Seq(Messages) /\ Len(b) = Len(sent) + 1 /\ Len(sent) \in Nat
      /\ \A i \in 1..Len(sent) : b[i] = sent[i]
      /\ b[Len(sent) + 1] = m
  BY AppendProperties, LenProperties
<1> HIDE DEF a, b
<1>3. ASSUME NEW k \in 1..Len(s)
      PROVE  Bodies(a, k) = Bodies(s, k)
  <2>1. Count(a, k) = Count(s, k)
    <3>1. \A i \in 1..k : a[i] = s[i]
      BY <1>1
    <3>2. QED
      BY <3>1
  <2>2. QED
    BY <2>1 DEF Bodies
<1>4. Bodies(a, Len(s) + 1) = Bodies(s, Len(s)) + (IF KindOf[m] = "empty" THEN 0 ELSE 1)
  <2> DEFINE f == Count(s, Len(s))
             h == Count(a, Len(s) + 1)
  <2>1. f \in [1..Len(s) -> Int] /\ h \in [1..(Len(s) + 1) -> Int]
    BY <1>1
  <2>2. \A k \in 1..Len(s) : h[k] = f[k]
    BY <1>1
  <2>3. h[Len(s) + 1] = IF KindOf[m] = "empty" THEN 0 ELSE 1
    BY <1>1
  <2>4. Total(f, Len(s)) = Bodies(s, Len(s)) /\ Total(h, Len(s) + 1) = Bodies(a, Len(s) + 1)
    BY DEF Bodies
  <2> HIDE DEF f, h
  <2>5. Total(h, Len(s) + 1) = Total(f, Len(s)) + h[Len(s) + 1]
    BY <1>1, <2>1, <2>2, TotalExtend
  <2>6. QED
    BY <2>3, <2>4, <2>5
<1>5. /\ Len(sent) = Bodies(s, Len(s))
      /\ \A i \in 1..Len(s) : KindOf[s[i]] # "empty" =>
            sent[Bodies(s, i)] = s[i] /\ Bodies(s, i) \in 1..Len(sent)
  BY DEF InOrder, Placed
<1>6. ASSUME KindOf[m] = "empty"
      PROVE  InOrder(sent, a) /\ Placed(sent, a)
  <2>1. Len(sent) = Bodies(a, Len(a))
    BY <1>1, <1>2, <1>4, <1>5, <1>6
  <2>2. ASSUME NEW i \in 1..Len(a), KindOf[a[i]] # "empty"
        PROVE  sent[Bodies(a, i)] = a[i] /\ Bodies(a, i) \in 1..Len(sent)
    <3>1. i \in 1..Len(s)
      BY <1>1, <1>6, <2>2
    <3>2. QED
      BY <1>1, <1>3, <1>5, <2>2, <3>1
  <2>3. QED
    BY <2>1, <2>2 DEF InOrder, Placed
<1>7. ASSUME KindOf[m] # "empty"
      PROVE  InOrder(b, a) /\ Placed(b, a)
  <2>1. Len(b) = Bodies(a, Len(a))
    BY <1>1, <1>2, <1>4, <1>5, <1>7
  <2>2. ASSUME NEW i \in 1..Len(a), KindOf[a[i]] # "empty"
        PROVE  b[Bodies(a, i)] = a[i] /\ Bodies(a, i) \in 1..Len(b)
    <3>1. CASE i \in 1..Len(s)
      <4>1. Bodies(a, i) = Bodies(s, i) /\ a[i] = s[i]
        BY <1>1, <1>3, <3>1
      <4>2. Bodies(s, i) \in 1..Len(sent) /\ sent[Bodies(s, i)] = s[i]
        BY <1>5, <2>2, <3>1, <4>1
      <4>3. b[Bodies(s, i)] = sent[Bodies(s, i)] /\ Bodies(s, i) \in 1..Len(b)
        BY <1>2, <4>2
      <4>4. QED
        BY <4>1, <4>2, <4>3
    <3>2. CASE i = Len(s) + 1
      <4>1. Bodies(a, i) = Len(sent) + 1
        BY <1>4, <1>5, <1>7, <3>2
      <4>2. QED
        BY <1>1, <1>2, <3>2, <4>1
    <3>3. QED
      BY <1>1, <3>1, <3>2
  <2>3. QED
    BY <2>1, <2>2 DEF InOrder, Placed
<1>8. QED
  BY <1>6, <1>7 DEF a, b

-----------------------------------------------------------------------------
(* The chat: the invariant is inductive.                                     *)

\* Initially nothing is open, on its way, or listened to.
LEMMA ChatInvInit == ChatInit => ChatInv
<1> SUFFICES ASSUME ChatInit
             PROVE  ChatInv
  OBVIOUS
<1>1. /\ chat_readers_idx = 0 /\ events = <<>> /\ batch = <<>> /\ tokens = {}
      /\ chat_poisoned = {} /\ put = {} /\ stored = {} /\ down = FALSE
  BY DEF ChatInit
<1>2. \A r \in Readers : r \in Int /\ r > 0
  BY ChatAssumption DEF Readers
<1>3. \A r \in Readers : reader[r] = "none"
  BY DEF ChatInit
<1>4. \A r \in Readers : chat[r] = <<>> /\ output[r] = <<>> /\ arrived[r] = <<>>
  BY DEF ChatInit
<1>5. <<>> \in Seq(put) /\ <<>> \in Seq(Event)
  OBVIOUS
<1>6. ChatTypes
  <2>1. room \in [Readers -> Rooms \cup {""}]
    BY DEF ChatInit
  <2>2. reader \in [Readers -> {"none", "open", "dropped"}]
    BY DEF ChatInit
  <2>3. chat \in [Readers -> Seq(put)] /\ output \in [Readers -> Seq(put)]
        /\ arrived \in [Readers -> Seq(put)]
    BY <1>5 DEF ChatInit
  <2>4. chat_readers_idx \in 0..MaxReaders
    BY <1>1, ChatAssumption
  <2>5. QED
    BY <1>1, <1>5, <2>1, <2>2, <2>3, <2>4 DEF ChatTypes
<1>7. Queue = <<>> /\ Len(<<>>) = 0
  BY <1>1, <1>5, ConcatEmptySeq DEF Queue
<1>8. IdsGiven
  <2>1. \A r \in Readers : r > chat_readers_idx /\ ~(r <= chat_readers_idx)
    BY <1>1, <1>2
  <2>2. QED
    BY <1>3, <2>1 DEF IdsGiven
<1>9. EventsOwn /\ Ordered(Queue)
  BY <1>1, <1>7 DEF EventsOwn, Ordered
<1>10. Stages
  BY <1>3 DEF Stages
<1>11. Streams
  <2>1. \A r \in Readers : output[r] \o chat[r] = <<>>
    BY <1>4, <1>5, ConcatEmptySeq
  <2>2. Bodies(<<>>, 0) = 0
    <3>1. [i \in 1..0 |-> IF KindOf[<<>>[i]] = "empty" THEN 0 ELSE 1] \in [1..0 -> Int]
      OBVIOUS
    <3>2. QED
      BY <3>1, TotalEmpty DEF Bodies
  <2>3. InOrder(<<>>, <<>>)
    BY <1>7, <2>2 DEF InOrder
  <2>4. Placed(<<>>, <<>>)
    BY <1>7 DEF Placed
  <2>5. ASSUME NEW r \in Readers
        PROVE  /\ InOrder(output[r] \o chat[r], arrived[r])
               /\ Placed(output[r] \o chat[r], arrived[r])
               /\ \A i \in 1..Len(chat[r]) : chat[r][i] \in Arrived(r)
    <3>1. output[r] \o chat[r] = <<>> /\ arrived[r] = <<>> /\ chat[r] = <<>>
      BY <1>4, <2>1
    <3>2. InOrder(output[r] \o chat[r], arrived[r]) /\ Placed(output[r] \o chat[r], arrived[r])
      BY <2>3, <2>4, <3>1
    <3>3. Len(chat[r]) = 0
      BY <1>7, <3>1
    <3>4. QED
      BY <3>2, <3>3
  <2>6. QED
    BY <2>5 DEF Streams
<1>12. Poisoning
  BY <1>1 DEF Poisoning
<1>13. QED
  BY <1>6, <1>8, <1>9, <1>10, <1>11, <1>12 DEF ChatInv

\* What every step below uses of the invariant.
LEMMA ChatFacts ==
    ASSUME ChatInv
    PROVE  /\ Queue \in Seq(Event)
           /\ \A r \in Readers : r \in Nat /\ r >= 1
           /\ chat_readers_idx \in Nat /\ chat_readers_idx <= MaxReaders
           /\ \A r \in Readers : output[r] \o chat[r] \in Seq(put) /\ arrived[r] \in Seq(put)
           /\ \A r \in Readers : reader[r] # "none" => r \in 1..chat_readers_idx
           /\ \A r \in 1..chat_readers_idx : r \in Readers /\ reader[r] # "none"
           /\ \A kind, r : HasEvent(Queue, kind, r) => r \in 1..chat_readers_idx
<1>0. MaxReaders \in Nat
  BY ChatAssumption
<1>1. Queue \in Seq(Event)
  BY ConcatProperties DEF ChatInv, ChatTypes, Queue
<1>2. \A r \in Readers : output[r] \in Seq(put) /\ chat[r] \in Seq(put) /\ arrived[r] \in Seq(put)
  BY DEF ChatInv, ChatTypes
<1>3. ASSUME NEW r \in Readers
      PROVE  output[r] \o chat[r] \in Seq(put)
  <2>1. output[r] \in Seq(put) /\ chat[r] \in Seq(put)
    BY <1>2
  <2>2. QED
    BY <2>1, ConcatProperties
<1>4. chat_readers_idx \in Nat /\ chat_readers_idx <= MaxReaders
  <2>1. chat_readers_idx \in 0..MaxReaders
    BY DEF ChatInv, ChatTypes
  <2>2. QED
    BY <1>0, <2>1
<1>5. \A r \in Readers : r \in Nat /\ r >= 1
  BY <1>0 DEF Readers
<1>6. \A r \in 1..chat_readers_idx : r \in Readers
  BY <1>0, <1>4 DEF Readers
<1>7. \A r \in Readers : reader[r] = "none" <=> r > chat_readers_idx
  BY DEF ChatInv, IdsGiven
<1>8. \A r \in Readers : reader[r] # "none" => r \in 1..chat_readers_idx
  BY <1>4, <1>5, <1>7
<1>9. \A r \in 1..chat_readers_idx : reader[r] # "none"
  BY <1>4, <1>5, <1>6, <1>7
<1>10. \A kind, r : HasEvent(Queue, kind, r) => r \in 1..chat_readers_idx
  BY DEF ChatInv, EventsOwn, HasEvent
<1>11. QED
  BY <1>1, <1>2, <1>3, <1>4, <1>5, <1>6, <1>8, <1>9, <1>10

\* The streams do not change if the buffers do not.
LEMMA StreamsSame ==
    Streams /\ (down => down') /\ UNCHANGED <<chat, output, arrived>> => Streams'
<1> SUFFICES ASSUME Streams, down => down', UNCHANGED <<chat, output, arrived>>
             PROVE  Streams'
  OBVIOUS
<1>1. SUFFICES ASSUME ~down', NEW r \in Readers
               PROVE  /\ InOrder(output'[r] \o chat'[r], arrived'[r])
                      /\ Placed(output'[r] \o chat'[r], arrived'[r])
                      /\ \A i \in 1..Len(chat'[r]) : chat'[r][i] \in Arrived(r)'
  BY DEF Streams
<1>2. /\ InOrder(output[r] \o chat[r], arrived[r])
      /\ Placed(output[r] \o chat[r], arrived[r])
      /\ \A i \in 1..Len(chat[r]) : chat[r][i] \in Arrived(r)
  BY <1>1 DEF Streams
<1>3. Arrived(r)' = Arrived(r)
  BY DEF Arrived
<1>4. QED
  BY <1>2, <1>3

\* A stream is opened: its Join is the only thing on its way for the new reader.
LEMMA streamInv ==
    ASSUME ChatInv, NEW rm \in Rooms, stream(rm)
    PROVE  ChatInv'
<1> DEFINE id == chat_readers_idx + 1
           x == Join(id, rm)
<1>0. /\ ~down /\ rm # "" /\ chat_readers_idx < MaxReaders
      /\ chat_readers_idx' = id
      /\ room' = [room EXCEPT ![id] = rm]
      /\ reader' = [reader EXCEPT ![id] = "open"]
      /\ events' = Append(events, x)
      /\ UNCHANGED <<streamVars, threadVars, dhtVars, down>>
  BY DEF stream
<1>a. /\ id \in Readers /\ x \in Event /\ x.id = id /\ x.kind = "Join" /\ x.room = rm
      /\ id \notin 1..chat_readers_idx /\ id \in Nat /\ id >= 1
  <2>1. chat_readers_idx \in Nat
    BY ChatFacts
  <2>2. MaxReaders \in Nat /\ chat_readers_idx < MaxReaders
    BY <1>0, ChatAssumption
  <2>3. id \in Readers /\ id \notin 1..chat_readers_idx /\ id \in Nat /\ id >= 1
    BY <2>1, <2>2 DEF Readers
  <2>4. x \in Event /\ x.id = id /\ x.kind = "Join" /\ x.room = rm
    BY <2>3 DEF Event, Join
  <2>5. QED
    BY <2>3, <2>4
<1> HIDE DEF x
<1>1. batch \in Seq(Event) /\ events \in Seq(Event) /\ Queue \in Seq(Event)
  BY ChatFacts DEF ChatInv, ChatTypes
<1>2. Queue' = Append(Queue, x)
  <2>1. batch \o Append(events, x) = Append(batch \o events, x)
    BY <1>1, <1>a, ConcatMoves
  <2>2. batch' = batch
    BY <1>0 DEF threadVars
  <2>3. QED
    BY <1>0, <2>1, <2>2 DEF Queue
<1>3. \A kind : ~HasEvent(Queue, kind, id)
  BY <1>a, ChatFacts
<1>4. Ordered(Queue')
  BY <1>1, <1>2, <1>3, <1>a, EventAppended DEF ChatInv
<1>5. \A kind, r : HasEvent(Queue', kind, r)
                     <=> HasEvent(Queue, kind, r) \/ (kind = "Join" /\ r = id)
  BY <1>1, <1>2, <1>a, EventAppended
<1>6. ChatTypes'
  <2>1. events' \in Seq(Event)
    BY <1>0, <1>1, <1>a, AppendProperties
  <2>2. room' \in [Readers -> Rooms \cup {""}] /\ reader' \in [Readers -> {"none", "open", "dropped"}]
    BY <1>0, <1>a DEF ChatInv, ChatTypes
  <2>3. chat_readers_idx' \in 0..MaxReaders
    <3>1. chat_readers_idx \in Nat /\ MaxReaders \in Nat
      BY ChatFacts, ChatAssumption
    <3>2. chat_readers_idx' = chat_readers_idx + 1 /\ chat_readers_idx < MaxReaders
      BY <1>0
    <3>3. QED
      BY <3>1, <3>2
  <2>4. QED
    BY <1>0, <2>1, <2>2, <2>3 DEF ChatInv, ChatTypes, streamVars, threadVars, dhtVars
<1>7. /\ room \in [Readers -> Rooms \cup {""}] /\ reader \in [Readers -> {"none", "open", "dropped"}]
      /\ room'[id] = rm /\ reader'[id] = "open"
      /\ \A r \in Readers : r # id => room'[r] = room[r] /\ reader'[r] = reader[r]
  BY <1>0, <1>a DEF ChatInv, ChatTypes
<1>8. IdsGiven'
  <2>1. ASSUME NEW r \in Readers, r # id
        PROVE  (reader'[r] = "none" <=> r > id) /\ (r <= id => room'[r] \in Rooms)
    <3>1. (reader[r] = "none" <=> r > chat_readers_idx) /\ (r <= chat_readers_idx => room[r] \in Rooms)
      BY DEF ChatInv, IdsGiven
    <3>2. (r > id <=> r > chat_readers_idx) /\ (r <= id <=> r <= chat_readers_idx)
      <4>1. r \in Nat /\ chat_readers_idx \in Nat
        BY ChatFacts
      <4>2. QED
        BY <2>1, <4>1
    <3>3. room'[r] = room[r] /\ reader'[r] = reader[r]
      BY <1>7, <2>1
    <3>4. QED
      BY <3>1, <3>2, <3>3
  <2>2. (reader'[id] = "none" <=> id > id) /\ (id <= id => room'[id] \in Rooms)
    <3>1. ~(id > id)
      BY <1>a
    <3>2. QED
      BY <1>7, <3>1
  <2>3. QED
    BY <1>0, <2>1, <2>2 DEF IdsGiven
<1>9. EventsOwn'
  <2>1. \A r \in 1..chat_readers_idx : r \in 1..id /\ r \in Readers /\ r # id
    BY <1>a, ChatFacts
  <2>2. \A t \in tokens' : t[1] \in 1..id /\ t[2] = room'[t[1]]
    BY <1>0, <1>7, <2>1 DEF ChatInv, EventsOwn, threadVars
  <2>3. ASSUME NEW i \in 1..Len(Queue')
        PROVE  Queue'[i].id \in 1..id /\ Queue'[i].room = room'[Queue'[i].id]
    <3>1. /\ Len(Queue') = Len(Queue) + 1 /\ Len(Queue) \in Nat
          /\ \A k \in 1..Len(Queue) : Queue'[k] = Queue[k]
          /\ Queue'[Len(Queue) + 1] = x
      BY <1>1, <1>2, <1>a, AppendProperties, LenProperties
    <3>2. CASE i \in 1..Len(Queue)
      <4>1. Queue'[i] = Queue[i]
        BY <3>1, <3>2
      <4>2. Queue[i].id \in 1..chat_readers_idx /\ Queue[i].room = room[Queue[i].id]
        BY <3>2 DEF ChatInv, EventsOwn
      <4>3. QED
        BY <1>7, <2>1, <4>1, <4>2
    <3>3. CASE i = Len(Queue) + 1
      <4>1. id \in 1..id
        BY <1>a, ChatFacts
      <4>2. QED
        BY <1>7, <1>a, <3>1, <3>3, <4>1
    <3>4. QED
      BY <3>1, <3>2, <3>3
  <2>4. QED
    BY <1>0, <2>2, <2>3 DEF EventsOwn
<1>10. Stages'
  <2>1. tokens' = tokens /\ <<id, rm>> \notin tokens
    BY <1>0, <1>a DEF ChatInv, EventsOwn, threadVars
  <2>2. ASSUME NEW r \in Readers, r # id
        PROVE  /\ \A kind : HasEvent(Queue', kind, r) <=> HasEvent(Queue, kind, r)
               /\ <<r, room'[r]>> \in tokens' <=> <<r, room[r]>> \in tokens
               /\ reader'[r] = reader[r]
    <3>1. \A kind : HasEvent(Queue', kind, r) <=> HasEvent(Queue, kind, r)
      BY <1>5, <2>2
    <3>2. room'[r] = room[r] /\ reader'[r] = reader[r]
      BY <1>7, <2>2
    <3>3. QED
      BY <2>1, <3>1, <3>2
  <2>3. ~HasEvent(Queue', "Leave", id) /\ HasEvent(Queue', "Join", id)
    BY <1>3, <1>5
  <2>4. <<id, room'[id]>> \notin tokens'
    BY <1>7, <2>1
  <2>5. QED
    BY <1>7, <2>2, <2>3, <2>4 DEF ChatInv, Stages, Listening
<1>11. Streams'
  BY <1>0, StreamsSame DEF ChatInv, streamVars, dhtVars
<1>12. Poisoning'
  <2>1. ~down' /\ chat_poisoned' = chat_poisoned /\ arrived' = arrived
    BY <1>0 DEF streamVars, dhtVars
  <2>2. \A r \in chat_poisoned : r \in Readers /\ reader[r] = "dropped"
    BY DEF ChatInv, Poisoning, ChatTypes
  <2>3. \A r \in chat_poisoned : r # id
    BY <1>a, <2>2, ChatFacts
  <2>4. QED
    BY <1>7, <2>1, <2>2, <2>3 DEF ChatInv, Poisoning, Arrived
<1>13. QED
  BY <1>4, <1>6, <1>8, <1>9, <1>10, <1>11, <1>12 DEF ChatInv

\* What does not touch readers, events or tokens leaves their part alone.
LEMMA ReadersSame ==
    ASSUME ChatInv, UNCHANGED <<chat_readers_idx, room, reader, events, batch, tokens>>
    PROVE  IdsGiven' /\ EventsOwn' /\ Ordered(Queue') /\ Stages'
<1>1. Queue' = Queue
  BY DEF Queue
<1>2. IdsGiven'
  BY DEF ChatInv, IdsGiven
<1>3. EventsOwn'
  BY <1>1 DEF ChatInv, EventsOwn
<1>4. Ordered(Queue')
  BY <1>1 DEF ChatInv
<1>5. ASSUME NEW kind, NEW r
      PROVE  HasEvent(Queue', kind, r) <=> HasEvent(Queue, kind, r)
  BY <1>1
<1>6. Stages'
  BY <1>5 DEF ChatInv, Stages, Listening
<1>7. QED
  BY <1>2, <1>3, <1>4, <1>6

\* Poisoned buffers and the callbacks that met them, if nothing is added.
LEMMA PoisoningSame ==
    ASSUME Poisoning, UNCHANGED <<chat_poisoned, down, room, reader, tokens, arrived>>
    PROVE  Poisoning'
<1>1. \A r : Arrived(r)' = Arrived(r) /\ Listening(r)' = Listening(r)
  BY DEF Arrived, Listening
<1>2. QED
  BY <1>1 DEF Poisoning

\* A message is put.
LEMMA sendInv ==
    ASSUME ChatInv, NEW m \in Messages, send(m)
    PROVE  ChatInv'
<1>1. /\ put' = put \cup {m} /\ stored' = stored \cup {m}
      /\ UNCHANGED <<chat_readers_idx, room, reader, chat, chat_poisoned, output, events,
                     batch, tokens, arrived, down>>
  BY DEF send, readerVars, streamVars, threadVars
<1>2. ChatTypes'
  <2>1. put \subseteq put' /\ put' \subseteq Messages /\ stored' \subseteq put'
    BY <1>1 DEF ChatInv, ChatTypes
  <2>2. \A s \in Seq(put) : s \in Seq(put')
    BY <2>1, SeqMonotonic
  <2>3. chat' \in [Readers -> Seq(put')] /\ output' \in [Readers -> Seq(put')]
        /\ arrived' \in [Readers -> Seq(put')]
    <3>1. chat \in [Readers -> Seq(put)] /\ output \in [Readers -> Seq(put)]
          /\ arrived \in [Readers -> Seq(put)]
      BY DEF ChatInv, ChatTypes
    <3>2. QED
      BY <1>1, <2>2, <3>1
  <2>4. QED
    BY <1>1, <2>1, <2>3 DEF ChatInv, ChatTypes
<1>3. IdsGiven' /\ EventsOwn' /\ Ordered(Queue') /\ Stages'
  BY <1>1, ReadersSame
<1>4. Streams'
  BY <1>1, StreamsSame DEF ChatInv
<1>5. Poisoning'
  BY <1>1, PoisoningSame DEF ChatInv
<1>6. QED
  BY <1>2, <1>3, <1>4, <1>5 DEF ChatInv

\* A message expires.
LEMMA expireMessageInv ==
    ASSUME ChatInv, NEW m \in Messages, expire_message(m)
    PROVE  ChatInv'
<1>1. /\ stored' = stored \ {m}
      /\ UNCHANGED <<chat_readers_idx, room, reader, chat, chat_poisoned, output, events,
                     batch, tokens, put, arrived, down>>
  BY DEF expire_message, readerVars, streamVars, threadVars
<1>2. ChatTypes'
  BY <1>1 DEF ChatInv, ChatTypes
<1>3. IdsGiven' /\ EventsOwn' /\ Ordered(Queue') /\ Stages'
  BY <1>1, ReadersSame
<1>4. Streams'
  BY <1>1, StreamsSame DEF ChatInv
<1>5. Poisoning'
  BY <1>1, PoisoningSame DEF ChatInv
<1>6. QED
  BY <1>2, <1>3, <1>4, <1>5 DEF ChatInv

\* A reader is dropped: its Leave goes last.
LEMMA droppedParts ==
    ASSUME ChatInv, NEW r \in Readers, reader[r] = "open", dropped(r),
           UNCHANGED <<batch, tokens>>
    PROVE  /\ reader' \in [Readers -> {"none", "open", "dropped"}] /\ reader'[r] = "dropped"
           /\ \A k \in Readers : reader[k] = "dropped" => reader'[k] = "dropped"
           /\ events' \in Seq(Event)
           /\ IdsGiven' /\ EventsOwn' /\ Ordered(Queue') /\ Stages'
<1> DEFINE x == Leave(r, room[r])
<1>0. /\ reader' = [reader EXCEPT ![r] = "dropped"]
      /\ events' = Append(events, x)
      /\ UNCHANGED <<chat_readers_idx, room, batch, tokens>>
  BY DEF dropped
<1>1. batch \in Seq(Event) /\ events \in Seq(Event) /\ Queue \in Seq(Event)
  BY ChatFacts DEF ChatInv, ChatTypes
<1>2. r \in 1..chat_readers_idx /\ room[r] \in Rooms
  <2>1. r \in 1..chat_readers_idx
    BY ChatFacts
  <2>2. r <= chat_readers_idx
    BY <2>1
  <2>3. QED
    BY <2>1, <2>2 DEF ChatInv, IdsGiven
<1>3. x \in Event /\ x.id = r /\ x.kind = "Leave" /\ x.room = room[r]
  BY <1>2 DEF Event, Leave
<1> HIDE DEF x
<1>4. /\ reader \in [Readers -> {"none", "open", "dropped"}]
      /\ reader' \in [Readers -> {"none", "open", "dropped"}]
      /\ reader'[r] = "dropped"
      /\ \A k \in Readers : k # r => reader'[k] = reader[k]
  BY <1>0 DEF ChatInv, ChatTypes
<1>5. events' \in Seq(Event)
  BY <1>0, <1>1, <1>3, AppendProperties
<1>6. Queue' = Append(Queue, x)
  <2>1. batch \o Append(events, x) = Append(batch \o events, x)
    BY <1>1, <1>3, ConcatMoves
  <2>2. QED
    BY <1>0, <2>1 DEF Queue
<1>7. ~HasEvent(Queue, "Leave", r)
  BY DEF ChatInv, Stages
<1>8. Ordered(Queue')
  BY <1>1, <1>3, <1>6, <1>7, EventAppended DEF ChatInv
<1>9. \A kind, k : HasEvent(Queue', kind, k)
                     <=> HasEvent(Queue, kind, k) \/ (kind = "Leave" /\ k = r)
  BY <1>1, <1>3, <1>6, EventAppended
<1>10. IdsGiven'
  <2>1. ASSUME NEW k \in Readers
        PROVE  (reader'[k] = "none" <=> k > chat_readers_idx)
               /\ (k <= chat_readers_idx => room[k] \in Rooms)
    <3>1. (reader[k] = "none" <=> k > chat_readers_idx)
          /\ (k <= chat_readers_idx => room[k] \in Rooms)
      BY DEF ChatInv, IdsGiven
    <3>2. reader'[k] = "none" <=> reader[k] = "none"
      BY <1>4
    <3>3. QED
      BY <3>1, <3>2
  <2>2. QED
    BY <1>0, <2>1 DEF IdsGiven
<1>11. EventsOwn'
  <2>1. ASSUME NEW i \in 1..Len(Queue')
        PROVE  Queue'[i].id \in 1..chat_readers_idx /\ Queue'[i].room = room[Queue'[i].id]
    <3>1. /\ Len(Queue') = Len(Queue) + 1 /\ Len(Queue) \in Nat
          /\ \A k \in 1..Len(Queue) : Queue'[k] = Queue[k]
          /\ Queue'[Len(Queue) + 1] = x
      BY <1>1, <1>3, <1>6, AppendProperties, LenProperties
    <3>2. CASE i \in 1..Len(Queue)
      <4>1. Queue'[i] = Queue[i]
        BY <3>1, <3>2
      <4>2. Queue[i].id \in 1..chat_readers_idx /\ Queue[i].room = room[Queue[i].id]
        BY <3>2 DEF ChatInv, EventsOwn
      <4>3. QED
        BY <4>1, <4>2
    <3>3. CASE i = Len(Queue) + 1
      BY <1>2, <1>3, <3>1, <3>3
    <3>4. QED
      BY <3>1, <3>2, <3>3
  <2>2. \A t \in tokens : t[1] \in 1..chat_readers_idx /\ t[2] = room[t[1]]
    BY DEF ChatInv, EventsOwn
  <2>3. QED
    BY <1>0, <2>1, <2>2 DEF EventsOwn
<1>12. Stages'
  <2>1. \A k \in Readers : <<k, room'[k]>> \in tokens' <=> <<k, room[k]>> \in tokens
    BY <1>0
  <2>2. ASSUME NEW k \in Readers, k # r
        PROVE  /\ \A kind : HasEvent(Queue', kind, k) <=> HasEvent(Queue, kind, k)
               /\ reader'[k] = reader[k]
    BY <1>4, <1>9, <2>2
  <2>3. /\ HasEvent(Queue', "Leave", r)
        /\ HasEvent(Queue', "Join", r) <=> HasEvent(Queue, "Join", r)
    BY <1>9
  <2>4. <<r, room[r]>> \in tokens <=> ~HasEvent(Queue, "Join", r)
    BY DEF ChatInv, Stages, Listening
  <2>5. QED
    BY <1>4, <2>1, <2>2, <2>3, <2>4 DEF ChatInv, Stages, Listening
<1>13. \A k \in Readers : reader[k] = "dropped" => reader'[k] = "dropped"
  BY <1>4
<1>14. QED
  BY <1>4, <1>5, <1>8, <1>10, <1>11, <1>12, <1>13

\* The client closes the connection.
LEMMA disconnectInv ==
    ASSUME ChatInv, NEW r \in Readers, disconnect(r)
    PROVE  ChatInv'
<1>1. /\ reader[r] = "open" /\ dropped(r) /\ ~down
      /\ UNCHANGED <<chat_readers_idx, room, chat, chat_poisoned, output, batch, tokens,
                     put, stored, arrived, down>>
  BY DEF disconnect, dropped, streamVars, threadVars, dhtVars
<1>2. /\ reader' \in [Readers -> {"none", "open", "dropped"}]
      /\ \A k \in Readers : reader[k] = "dropped" => reader'[k] = "dropped"
      /\ events' \in Seq(Event)
      /\ IdsGiven' /\ EventsOwn' /\ Ordered(Queue') /\ Stages'
  BY <1>1, droppedParts
<1>3. ChatTypes'
  BY <1>1, <1>2 DEF ChatInv, ChatTypes
<1>4. Streams'
  BY <1>1, StreamsSame DEF ChatInv
<1>5. Poisoning'
  <2>1. chat_poisoned \subseteq Readers
    BY DEF ChatInv, ChatTypes
  <2>2. QED
    BY <1>1, <1>2, <2>1 DEF ChatInv, Poisoning, Arrived
<1>6. QED
  BY <1>2, <1>3, <1>4, <1>5 DEF ChatInv

\* A message is sent: it leaves the buffer for the output.
LEMMA readSendsInv ==
    ASSUME ChatInv, NEW r \in Readers, ~down, chat[r] # <<>>,
           output' = [output EXCEPT ![r] = Append(@, Head(chat[r]))],
           chat' = [chat EXCEPT ![r] = AfterRead(r)],
           UNCHANGED <<chat_readers_idx, room, reader, chat_poisoned, events, batch, tokens,
                       put, stored, arrived, down>>
    PROVE  ChatInv'
<1>1. /\ chat \in [Readers -> Seq(put)] /\ output \in [Readers -> Seq(put)]
      /\ arrived \in [Readers -> Seq(put)]
      /\ chat[r] \in Seq(put) /\ output[r] \in Seq(put)
  BY DEF ChatInv, ChatTypes
<1>2. /\ Head(chat[r]) \in put /\ Tail(chat[r]) \in Seq(put)
      /\ Len(Tail(chat[r])) = Len(chat[r]) - 1 /\ Len(chat[r]) \in Nat
      /\ \A i \in 1..Len(Tail(chat[r])) : Tail(chat[r])[i] = chat[r][i + 1]
  BY <1>1, HeadTailProperties, LenProperties
<1>3. Append(output[r], Head(chat[r])) \in Seq(put)
  BY <1>1, <1>2, AppendProperties
<1>4. /\ chat'[r] = Tail(chat[r]) /\ output'[r] = Append(output[r], Head(chat[r]))
      /\ \A k \in Readers : k # r => chat'[k] = chat[k] /\ output'[k] = output[k]
  BY <1>1 DEF AfterRead
<1>5. ChatTypes'
  <2>1. chat' \in [Readers -> Seq(put')] /\ output' \in [Readers -> Seq(put')]
    BY <1>1, <1>2, <1>3 DEF AfterRead
  <2>2. QED
    BY <2>1 DEF ChatInv, ChatTypes
<1>6. IdsGiven' /\ EventsOwn' /\ Ordered(Queue') /\ Stages'
  BY ReadersSame
<1>7. Streams'
  <2>1. output'[r] \o chat'[r] = output[r] \o chat[r]
    <3>1. Append(output[r], Head(chat[r])) \o Tail(chat[r]) = output[r] \o chat[r]
      BY <1>1, ConcatMoves
    <3>2. QED
      BY <1>4, <3>1
  <2>2. \A k \in Readers : output'[k] \o chat'[k] = output[k] \o chat[k]
    BY <1>4, <2>1
  <2>3. \A k : Arrived(k)' = Arrived(k)
    BY DEF Arrived
  <2>4. \A i \in 1..Len(chat'[r]) : chat'[r][i] \in Arrived(r)
    <3>1. \A i \in 1..Len(chat'[r]) : i + 1 \in 1..Len(chat[r]) /\ chat'[r][i] = chat[r][i + 1]
      <4>1. \A i \in 1..Len(Tail(chat[r])) :
               i + 1 \in 1..Len(chat[r]) /\ Tail(chat[r])[i] = chat[r][i + 1]
        BY <1>2
      <4>2. QED
        BY <1>4, <4>1
    <3>2. \A i \in 1..Len(chat[r]) : chat[r][i] \in Arrived(r)
      BY DEF ChatInv, Streams
    <3>3. QED
      BY <3>1, <3>2
  <2>5. ASSUME NEW k \in Readers
        PROVE  /\ InOrder(output'[k] \o chat'[k], arrived'[k])
               /\ Placed(output'[k] \o chat'[k], arrived'[k])
               /\ \A i \in 1..Len(chat'[k]) : chat'[k][i] \in Arrived(k)'
    <3>1. /\ InOrder(output[k] \o chat[k], arrived[k])
          /\ Placed(output[k] \o chat[k], arrived[k])
          /\ \A i \in 1..Len(chat[k]) : chat[k][i] \in Arrived(k)
      BY DEF ChatInv, Streams
    <3>2. InOrder(output'[k] \o chat'[k], arrived'[k]) /\ Placed(output'[k] \o chat'[k], arrived'[k])
      BY <2>2, <3>1
    <3>3. \A i \in 1..Len(chat'[k]) : chat'[k][i] \in Arrived(k)
      BY <1>4, <2>4, <3>1
    <3>4. QED
      BY <2>3, <3>2, <3>3
  <2>6. QED
    BY <2>5 DEF Streams
<1>8. Poisoning'
  BY PoisoningSame DEF ChatInv
<1>9. QED
  BY <1>5, <1>6, <1>7, <1>8 DEF ChatInv

\* An oversize message: the read panics, which poisons the buffer and drops the
\* reader.
LEMMA readPanicsInv ==
    ASSUME ChatInv, NEW r \in Readers, ~down, reader[r] = "open", chat[r] # <<>>,
           KindOf[Head(chat[r])] = "oversize",
           chat_poisoned' = chat_poisoned \cup {r},
           dropped(r),
           UNCHANGED <<chat, output, batch, tokens, put, stored, arrived, down>>
    PROVE  ChatInv'
<1>1. /\ reader' \in [Readers -> {"none", "open", "dropped"}] /\ reader'[r] = "dropped"
      /\ \A k \in Readers : reader[k] = "dropped" => reader'[k] = "dropped"
      /\ events' \in Seq(Event)
      /\ IdsGiven' /\ EventsOwn' /\ Ordered(Queue') /\ Stages'
  BY droppedParts
<1>2. UNCHANGED <<chat_readers_idx, room>>
  BY DEF dropped
<1>3. ChatTypes'
  BY <1>1, <1>2 DEF ChatInv, ChatTypes
<1>4. Streams'
  BY StreamsSame DEF ChatInv
<1>5. Head(chat[r]) \in Arrived(r)
  <2>1. chat[r] \in Seq(put)
    BY DEF ChatInv, ChatTypes
  <2>2. Head(chat[r]) = chat[r][1] /\ 1 \in 1..Len(chat[r])
    BY <2>1, EmptySeq
  <2>3. QED
    BY <2>2 DEF ChatInv, Streams
<1>6. Poisoning'
  <2>1. \A k : Arrived(k)' = Arrived(k)
    BY DEF Arrived
  <2>2. \A k \in chat_poisoned : k \in Readers /\ reader[k] = "dropped"
                                 /\ \E m \in Arrived(k) : KindOf[m] = "oversize"
    BY DEF ChatInv, ChatTypes, Poisoning
  <2>3. QED
    BY <1>1, <1>5, <2>1, <2>2 DEF Poisoning
<1>7. QED
  BY <1>1, <1>3, <1>4, <1>6 DEF ChatInv

\* A stream is read.
LEMMA readInv ==
    ASSUME ChatInv, NEW r \in Readers, read(r)
    PROVE  ChatInv'
<1>1. /\ ~down /\ reader[r] = "open" /\ chat[r] # <<>>
      /\ UNCHANGED <<batch, tokens, put, stored, arrived, down>>
  BY DEF read, threadVars, dhtVars
<1>2. CASE KindOf[Head(chat[r])] # "oversize"
  <2>1. /\ output' = [output EXCEPT ![r] = Append(@, Head(chat[r]))]
        /\ chat' = [chat EXCEPT ![r] = AfterRead(r)]
        /\ UNCHANGED <<chat_readers_idx, room, reader, chat_poisoned, events>>
    BY <1>2 DEF read, readerVars
  <2>2. QED
    BY <1>1, <2>1, readSendsInv
<1>3. CASE KindOf[Head(chat[r])] = "oversize"
  <2>1. chat_poisoned' = chat_poisoned \cup {r} /\ dropped(r) /\ UNCHANGED <<chat, output>>
    BY <1>3 DEF read
  <2>2. QED
    BY <1>1, <1>3, <2>1, readPanicsInv
<1>4. QED
  BY <1>2, <1>3

\* The chat thread takes the events: they are handled in the same order.
LEMMA takeInv ==
    ASSUME ChatInv, take_events
    PROVE  ChatInv'
<1>1. /\ batch = <<>> /\ batch' = events /\ events' = <<>> /\ ~down
      /\ UNCHANGED <<chat_readers_idx, room, reader, chat, chat_poisoned, output, tokens,
                     put, stored, arrived, down>>
  BY DEF take_events, Cloned, readerVars, streamVars, dhtVars
<1>2. events \in Seq(Event) /\ <<>> \in Seq(Event)
  <2>1. <<>> \in Seq(Event)
    OBVIOUS
  <2>2. QED
    BY <2>1 DEF ChatInv, ChatTypes
<1>3. Queue' = Queue
  BY <1>1, <1>2, ConcatMoves DEF Queue
<1>4. ChatTypes'
  BY <1>1, <1>2 DEF ChatInv, ChatTypes
<1>5. IdsGiven'
  BY <1>1 DEF ChatInv, IdsGiven
<1>6. EventsOwn' /\ Ordered(Queue')
  BY <1>1, <1>3 DEF ChatInv, EventsOwn
<1>7. Stages'
  <2>1. \A kind, r : HasEvent(Queue', kind, r) <=> HasEvent(Queue, kind, r)
    BY <1>3
  <2>2. QED
    BY <1>1, <2>1 DEF ChatInv, Stages, Listening
<1>8. Streams'
  BY <1>1, StreamsSame DEF ChatInv
<1>9. Poisoning'
  BY <1>1, PoisoningSame DEF ChatInv
<1>10. QED
  BY <1>4, <1>5, <1>6, <1>7, <1>8, <1>9 DEF ChatInv

\* What the head of the events says, and what is left after it.
LEMMA HeadFacts ==
    ASSUME ChatInv, batch # <<>>, batch' = Tail(batch), events' = events
    PROVE  LET e == Head(batch)
           IN  /\ e \in Event /\ e.id \in 1..chat_readers_idx /\ e.id \in Readers
               /\ e.room = room[e.id] /\ reader[e.id] \in {"open", "dropped"}
               /\ batch' \in Seq(Event)
               /\ Ordered(Queue')
               /\ \A kind, r : HasEvent(Queue', kind, r)
                     <=> HasEvent(Queue, kind, r) /\ ~(e.kind = kind /\ e.id = r)
               /\ HasEvent(Queue, e.kind, e.id)
               /\ e.kind = "Leave" => ~HasEvent(Queue, "Join", e.id)
               /\ \A i \in 1..Len(Queue') : i + 1 \in 1..Len(Queue) /\ Queue'[i] = Queue[i + 1]
<1> DEFINE e == Head(batch)
<1>1. batch \in Seq(Event) /\ events \in Seq(Event) /\ Queue \in Seq(Event) /\ Ordered(Queue)
  BY ChatFacts DEF ChatInv, ChatTypes
<1>2. Queue' = Tail(Queue) /\ Head(Queue) = e /\ Queue # <<>>
  BY <1>1, ConcatTail DEF Queue
<1>3. batch' \in Seq(Event) /\ e \in Event
  BY <1>1, HeadTailProperties
<1>4. /\ Len(Queue') = Len(Queue) - 1 /\ Len(Queue) \in Nat \ {0}
      /\ \A i \in 1..Len(Queue') : Queue'[i] = Queue[i + 1]
      /\ Head(Queue) = Queue[1]
  BY <1>1, <1>2, HeadTailProperties, EmptySeq
<1>5. 1 \in 1..Len(Queue) /\ Queue[1] = e
  BY <1>2, <1>4
<1>6. e.id \in 1..chat_readers_idx /\ e.room = room[e.id]
  BY <1>5 DEF ChatInv, EventsOwn
<1>7. e.id \in Readers /\ reader[e.id] \in {"open", "dropped"}
  <2>1. e.id \in Readers /\ reader[e.id] # "none"
    BY <1>6, ChatFacts
  <2>2. QED
    BY <2>1 DEF ChatInv, ChatTypes
<1>8. \A i \in 1..Len(Queue') : i + 1 \in 1..Len(Queue) /\ Queue'[i] = Queue[i + 1]
  BY <1>4
<1>9. /\ Ordered(Queue')
      /\ \A kind, r : HasEvent(Queue', kind, r)
            <=> HasEvent(Queue, kind, r) /\ ~(e.kind = kind /\ e.id = r)
      /\ HasEvent(Queue, e.kind, e.id)
      /\ e.kind = "Leave" => ~HasEvent(Queue, "Join", e.id)
  BY <1>1, <1>2, EventHandled
<1>10. QED
  BY <1>3, <1>6, <1>7, <1>8, <1>9

\* Events and tokens stay those of readers, if a token is added for the head.
LEMMA handledParts ==
    ASSUME ChatInv, batch # <<>>, batch' = Tail(batch), events' = events,
           tokens' \subseteq tokens \cup {<<Head(batch).id, Head(batch).room>>},
           UNCHANGED <<chat_readers_idx, room, reader, chat, chat_poisoned, output,
                       put, stored, arrived, down>>
    PROVE  ChatTypes' /\ IdsGiven' /\ EventsOwn' /\ Ordered(Queue') /\ Streams'
<1> DEFINE e == Head(batch)
<1>1. /\ e \in Event /\ e.id \in 1..chat_readers_idx /\ e.id \in Readers
      /\ e.room = room[e.id] /\ batch' \in Seq(Event) /\ Ordered(Queue')
      /\ \A i \in 1..Len(Queue') : i + 1 \in 1..Len(Queue) /\ Queue'[i] = Queue[i + 1]
  BY HeadFacts
<1>2. e.room \in Rooms
  BY <1>1 DEF Event
<1> HIDE DEF e
<1>3. tokens' \subseteq tokens \cup {<<e.id, e.room>>}
  BY DEF e
<1>4. tokens' \subseteq Readers \X Rooms
  <2>1. <<e.id, e.room>> \in Readers \X Rooms
    BY <1>1, <1>2
  <2>2. tokens \subseteq Readers \X Rooms
    BY DEF ChatInv, ChatTypes
  <2>3. QED
    BY <1>3, <2>1, <2>2
<1>5. ChatTypes'
  BY <1>1, <1>4 DEF ChatInv, ChatTypes
<1>6. IdsGiven'
  BY DEF ChatInv, IdsGiven
<1>7. EventsOwn'
  <2>1. \A t \in tokens' : t[1] \in 1..chat_readers_idx /\ t[2] = room[t[1]]
    BY <1>1, <1>3 DEF ChatInv, EventsOwn
  <2>2. \A i \in 1..Len(Queue) :
           Queue[i].id \in 1..chat_readers_idx /\ Queue[i].room = room[Queue[i].id]
    BY DEF ChatInv, EventsOwn
  <2>3. \A i \in 1..Len(Queue') :
           Queue'[i].id \in 1..chat_readers_idx /\ Queue'[i].room = room[Queue'[i].id]
    BY <1>1, <2>2
  <2>4. QED
    BY <2>1, <2>3 DEF EventsOwn
<1>8. Streams'
  BY StreamsSame DEF ChatInv
<1>9. QED
  BY <1>1, <1>5, <1>6, <1>7, <1>8

\* The chat thread listens for a reader.
LEMMA joinInv ==
    ASSUME ChatInv, join_event
    PROVE  ChatInv'
<1> DEFINE e == Head(batch)
<1>1. /\ ~down /\ batch # <<>> /\ e.kind = "Join"
      /\ tokens' = tokens \cup {<<e.id, e.room>>}
      /\ batch' = Tail(batch) /\ events' = events
      /\ UNCHANGED <<chat_readers_idx, room, reader, chat, chat_poisoned, output,
                     put, stored, arrived, down>>
  BY DEF join_event, readerVars, streamVars, dhtVars
<1>2. ChatTypes' /\ IdsGiven' /\ EventsOwn' /\ Ordered(Queue') /\ Streams'
  BY <1>1, handledParts
<1>3. /\ e.id \in Readers /\ e.room = room[e.id] /\ reader[e.id] \in {"open", "dropped"}
      /\ \A kind, r : HasEvent(Queue', kind, r)
            <=> HasEvent(Queue, kind, r) /\ ~(e.kind = kind /\ e.id = r)
      /\ HasEvent(Queue, e.kind, e.id)
  BY <1>1, HeadFacts
<1> HIDE DEF e
<1>4. Stages'
  <2>1. ASSUME NEW r \in Readers, r # e.id
        PROVE  /\ \A kind : HasEvent(Queue', kind, r) <=> HasEvent(Queue, kind, r)
               /\ <<r, room[r]>> \in tokens' <=> <<r, room[r]>> \in tokens
    BY <1>1, <1>3, <2>1
  <2>2. <<e.id, room[e.id]>> \in tokens'
    BY <1>1, <1>3
  <2>3. ~HasEvent(Queue', "Join", e.id)
    BY <1>1, <1>3
  <2>4. HasEvent(Queue', "Leave", e.id) <=> HasEvent(Queue, "Leave", e.id)
    BY <1>1, <1>3
  <2>5. HasEvent(Queue, "Join", e.id)
    BY <1>1, <1>3
  <2>6. QED
    BY <1>1, <1>3, <2>1, <2>2, <2>3, <2>4, <2>5 DEF ChatInv, Stages, Listening
<1>5. Poisoning'
  BY <1>1 DEF ChatInv, Poisoning, Arrived
<1>6. QED
  BY <1>2, <1>4, <1>5 DEF ChatInv

\* The chat thread stops listening for a reader.
LEMMA leaveInv ==
    ASSUME ChatInv, leave_event
    PROVE  ChatInv'
<1> DEFINE e == Head(batch)
<1>1. /\ ~down /\ batch # <<>> /\ e.kind = "Leave"
      /\ tokens' = tokens \ {<<e.id, e.room>>}
      /\ batch' = Tail(batch) /\ events' = events
      /\ UNCHANGED <<chat_readers_idx, room, reader, chat, chat_poisoned, output,
                     put, stored, arrived, down>>
  BY DEF leave_event, Cancelled, readerVars, streamVars, dhtVars
<1>2. ChatTypes' /\ IdsGiven' /\ EventsOwn' /\ Ordered(Queue') /\ Streams'
  BY <1>1, handledParts
<1>3. /\ e.id \in Readers /\ e.room = room[e.id] /\ reader[e.id] \in {"open", "dropped"}
      /\ \A kind, r : HasEvent(Queue', kind, r)
            <=> HasEvent(Queue, kind, r) /\ ~(e.kind = kind /\ e.id = r)
      /\ HasEvent(Queue, e.kind, e.id)
      /\ e.kind = "Leave" => ~HasEvent(Queue, "Join", e.id)
  BY <1>1, HeadFacts
<1> HIDE DEF e
<1>4. Stages'
  <2>1. ASSUME NEW r \in Readers, r # e.id
        PROVE  /\ \A kind : HasEvent(Queue', kind, r) <=> HasEvent(Queue, kind, r)
               /\ <<r, room[r]>> \in tokens' <=> <<r, room[r]>> \in tokens
    BY <1>1, <1>3, <2>1
  <2>2. <<e.id, room[e.id]>> \notin tokens'
    BY <1>1, <1>3
  <2>3. ~HasEvent(Queue', "Leave", e.id) /\ ~HasEvent(Queue', "Join", e.id)
    BY <1>1, <1>3
  <2>4. reader[e.id] = "dropped"
    BY <1>1, <1>3 DEF ChatInv, Stages
  <2>5. QED
    BY <1>1, <1>3, <2>1, <2>2, <2>3, <2>4 DEF ChatInv, Stages, Listening
<1>5. Poisoning'
  BY <1>1 DEF ChatInv, Poisoning, Arrived
<1>6. QED
  BY <1>2, <1>4, <1>5 DEF ChatInv

\* The DHT calls back with a message.
LEMMA valueInv ==
    ASSUME ChatInv, NEW r \in Readers, NEW m \in Messages, value_cb(r, m)
    PROVE  ChatInv'
<1>1. /\ ~down /\ <<r, room[r]>> \in tokens /\ m \in stored
      /\ arrived' = [arrived EXCEPT ![r] = Append(@, m)]
      /\ UNCHANGED <<chat_readers_idx, room, reader, chat_poisoned, output, events, batch,
                     tokens, put, stored>>
  BY DEF value_cb, readerVars, threadVars
<1>2. \/ r \notin chat_poisoned \/ KindOf[m] = "empty"
      \/ r \in chat_poisoned /\ KindOf[m] # "empty"
  OBVIOUS
<1>3. /\ chat \in [Readers -> Seq(put)] /\ arrived \in [Readers -> Seq(put)]
      /\ m \in put /\ put \subseteq Messages /\ output \in [Readers -> Seq(put)]
      /\ down \in BOOLEAN
  BY <1>1 DEF ChatInv, ChatTypes
<1>4. arrived' \in [Readers -> Seq(put)] /\ arrived'[r] = Append(arrived[r], m)
      /\ \A k \in Readers : k # r => arrived'[k] = arrived[k]
  <2>1. Append(arrived[r], m) \in Seq(put)
    BY <1>3, AppendProperties
  <2>2. QED
    BY <1>1, <1>3, <2>1
<1>5. Arrived(r)' = Arrived(r) \cup {m} /\ \A k \in Readers : k # r => Arrived(k)' = Arrived(k)
  <2>1. arrived[r] \in Seq(put)
    BY <1>3
  <2>2. ToSet(Append(arrived[r], m)) = ToSet(arrived[r]) \cup {m}
    BY <1>3, <2>1, ElementsOf
  <2>3. QED
    BY <1>4, <2>2 DEF Arrived
<1>6. IdsGiven' /\ EventsOwn' /\ Ordered(Queue') /\ Stages'
  BY <1>1, ReadersSame
<1>7. CASE KindOf[m] # "empty" /\ r \in chat_poisoned
  <2>1. down' = TRUE /\ chat' = chat
    BY <1>7 DEF value_cb
  <2>2. ChatTypes'
    BY <1>1, <1>4, <2>1 DEF ChatInv, ChatTypes
  <2>3. Streams'
    BY <2>1 DEF Streams
  <2>4. Poisoning'
    <3>1. \A k \in chat_poisoned :
             k \in Readers /\ reader[k] = "dropped" /\ \E x \in Arrived(k) : KindOf[x] = "oversize"
      BY DEF ChatInv, ChatTypes, Poisoning
    <3>2. Listening(r)'
      BY <1>1 DEF Listening
    <3>3. QED
      BY <1>1, <1>5, <1>7, <3>1, <3>2 DEF Poisoning
  <2>5. QED
    BY <1>6, <2>2, <2>3, <2>4 DEF ChatInv
<1>8. CASE ~(KindOf[m] # "empty" /\ r \in chat_poisoned)
  <2>1. down' = down /\ chat' = [chat EXCEPT ![r] = Pushed(r, m)]
    BY <1>8 DEF value_cb
  <2>2. Append(chat[r], m) \in Seq(put) /\ Pushed(r, m) \in Seq(put)
    <3>1. chat[r] \in Seq(put)
      BY <1>3
    <3>2. Append(chat[r], m) \in Seq(put)
      BY <1>3, <3>1, AppendProperties
    <3>3. QED
      BY <3>1, <3>2 DEF Pushed
  <2>3. chat' \in [Readers -> Seq(put)] /\ chat'[r] = Pushed(r, m)
        /\ \A k \in Readers : k # r => chat'[k] = chat[k]
    BY <1>3, <2>1, <2>2
  <2>4. ChatTypes'
    BY <1>1, <1>4, <2>1, <2>3 DEF ChatInv, ChatTypes
  <2>5. Poisoning'
    <3>1. \A k \in chat_poisoned :
             k \in Readers /\ reader[k] = "dropped" /\ \E x \in Arrived(k) : KindOf[x] = "oversize"
      BY DEF ChatInv, ChatTypes, Poisoning
    <3>2. QED
      BY <1>1, <1>5, <2>1, <3>1 DEF Poisoning
  <2>6. ASSUME NEW k \in Readers, k # r
        PROVE  /\ InOrder(output[k] \o chat'[k], arrived'[k])
               /\ Placed(output[k] \o chat'[k], arrived'[k])
               /\ \A i \in 1..Len(chat'[k]) : chat'[k][i] \in Arrived(k)'
    <3>1. chat'[k] = chat[k] /\ arrived'[k] = arrived[k] /\ Arrived(k)' = Arrived(k)
      BY <1>4, <1>5, <2>3, <2>6
    <3>2. /\ InOrder(output[k] \o chat[k], arrived[k])
          /\ Placed(output[k] \o chat[k], arrived[k])
          /\ \A i \in 1..Len(chat[k]) : chat[k][i] \in Arrived(k)
      BY <1>1 DEF ChatInv, Streams
    <3>3. QED
      BY <3>1, <3>2
  <2>7. /\ InOrder(output[r] \o chat'[r], arrived'[r])
        /\ Placed(output[r] \o chat'[r], arrived'[r])
        /\ \A i \in 1..Len(chat'[r]) : chat'[r][i] \in Arrived(r)'
    <3>1. /\ chat[r] \in Seq(Messages) /\ output[r] \in Seq(Messages)
          /\ arrived[r] \in Seq(Messages) /\ m \in Messages
      BY <1>3, SeqMonotonic
    <3>2. /\ InOrder(output[r] \o chat[r], arrived[r])
          /\ Placed(output[r] \o chat[r], arrived[r])
          /\ \A i \in 1..Len(chat[r]) : chat[r][i] \in Arrived(r)
      BY <1>1 DEF ChatInv, Streams
    <3>3. PICK sent : sent = output[r] \o chat[r]
      OBVIOUS
    <3>4. sent \in Seq(Messages) /\ output[r] \o Append(chat[r], m) = Append(sent, m)
      <4>1. output[r] \in Seq(Messages) /\ chat[r] \in Seq(Messages)
        BY <3>1
      <4>2. output[r] \o chat[r] \in Seq(Messages)
        BY <4>1, ConcatMoves
      <4>3. \A s, t \in Seq(Messages), x \in Messages : s \o Append(t, x) = Append(s \o t, x)
        BY ConcatMoves
      <4>4. output[r] \o Append(chat[r], m) = Append(output[r] \o chat[r], m)
        BY <4>1, <4>3
      <4>5. QED
        BY <3>3, <4>2, <4>4
    <3>5. InOrder(sent, arrived[r]) /\ Placed(sent, arrived[r])
      BY <3>2, <3>3
    <3>6. CASE KindOf[m] = "empty"
      <4>1. chat'[r] = chat[r]
        BY <2>3, <3>6 DEF Pushed
      <4>2. InOrder(sent, Append(arrived[r], m)) /\ Placed(sent, Append(arrived[r], m))
        BY <3>1, <3>4, <3>5, <3>6, ArrivalInOrder
      <4>3. InOrder(output[r] \o chat'[r], arrived'[r]) /\ Placed(output[r] \o chat'[r], arrived'[r])
        BY <1>4, <3>3, <4>1, <4>2
      <4>4. QED
        BY <1>5, <3>2, <4>1, <4>3
    <3>7. CASE KindOf[m] # "empty"
      <4>1. chat'[r] = Append(chat[r], m)
        BY <2>3, <3>7 DEF Pushed
      <4>2. /\ InOrder(Append(sent, m), Append(arrived[r], m))
            /\ Placed(Append(sent, m), Append(arrived[r], m))
        BY <3>1, <3>4, <3>5, <3>7, ArrivalInOrder
      <4>3. InOrder(output[r] \o chat'[r], arrived'[r]) /\ Placed(output[r] \o chat'[r], arrived'[r])
        BY <1>4, <3>4, <4>1, <4>2
      <4>4. \A i \in 1..Len(chat'[r]) : chat'[r][i] \in Arrived(r)'
        <5>1. /\ Len(chat'[r]) = Len(chat[r]) + 1 /\ Len(chat[r]) \in Nat
              /\ \A i \in 1..Len(chat[r]) : chat'[r][i] = chat[r][i]
              /\ chat'[r][Len(chat[r]) + 1] = m
          BY <3>1, <4>1, AppendProperties, LenProperties
        <5>2. ASSUME NEW i \in 1..Len(chat'[r])
              PROVE  chat'[r][i] \in Arrived(r) \cup {m}
          <6>1. CASE i \in 1..Len(chat[r])
            BY <3>2, <5>1, <6>1
          <6>2. CASE i = Len(chat[r]) + 1
            BY <5>1, <6>2
          <6>3. QED
            BY <5>1, <6>1, <6>2
        <5>3. QED
          BY <1>5, <5>2
      <4>5. QED
        BY <4>3, <4>4
    <3>8. QED
      BY <3>6, <3>7
  <2>8. Streams'
    BY <1>1, <2>6, <2>7 DEF Streams
  <2>9. QED
    BY <1>6, <2>4, <2>5, <2>8 DEF ChatInv
<1>9. QED
  BY <1>7, <1>8

\* Every step preserves the invariant.
LEMMA ChatInvNext == ChatInv /\ [ChatNext]_chatVars => ChatInv'
<1> SUFFICES ASSUME ChatInv, [ChatNext]_chatVars
             PROVE  ChatInv'
  OBVIOUS
<1>1. CASE UNCHANGED chatVars
  <2>1. UNCHANGED <<chat_readers_idx, room, reader, chat, chat_poisoned, output, events, batch,
                    tokens, put, stored, arrived, down>>
    BY <1>1 DEF chatVars, readerVars, streamVars, threadVars, dhtVars
  <2>2. ChatTypes'
    BY <2>1 DEF ChatInv, ChatTypes
  <2>3. IdsGiven' /\ EventsOwn' /\ Ordered(Queue') /\ Stages'
    BY <2>1, ReadersSame
  <2>4. Streams'
    BY <2>1, StreamsSame DEF ChatInv
  <2>5. Poisoning'
    BY <2>1, PoisoningSame DEF ChatInv
  <2>6. QED
    BY <2>2, <2>3, <2>4, <2>5 DEF ChatInv
<1>2. CASE \E rm \in Rooms : stream(rm)
  BY <1>2, streamInv
<1>3. CASE \E m \in Messages : send(m) \/ expire_message(m)
  BY <1>3, sendInv, expireMessageInv
<1>4. CASE \E r \in Readers : disconnect(r) \/ read(r)
  BY <1>4, disconnectInv, readInv
<1>5. CASE ThreadStep
  BY <1>5, takeInv, joinInv, leaveInv DEF ThreadStep
<1>6. CASE \E r \in Readers, m \in Messages : value_cb(r, m)
  BY <1>6, valueInv
<1>7. QED
  BY <1>1, <1>2, <1>3, <1>4, <1>5, <1>6 DEF ChatNext

\* The events that are pending are those of the queue.
LEMMA PendingHas ==
    ASSUME batch \in Seq(Event), events \in Seq(Event),
           NEW event \in ToSet(events) \cup ToSet(batch)
    PROVE  HasEvent(Queue, event.kind, event.id)
<1>1. /\ Len(batch) \in Nat /\ Len(events) \in Nat
      /\ Len(Queue) = Len(batch) + Len(events)
      /\ \A i \in 1..Len(batch) + Len(events) :
            Queue[i] = IF i <= Len(batch) THEN batch[i] ELSE events[i - Len(batch)]
  BY ConcatProperties, LenProperties DEF Queue
<1>2. CASE event \in ToSet(batch)
  <2>1. PICK i \in 1..Len(batch) : batch[i] = event
    BY <1>2, ElementsOf
  <2>2. i \in 1..Len(batch) + Len(events) /\ i <= Len(batch)
    BY <1>1
  <2>3. Queue[i] = event /\ i \in 1..Len(Queue)
    BY <1>1, <2>1, <2>2
  <2>4. QED
    BY <2>3 DEF HasEvent
<1>3. CASE event \in ToSet(events)
  <2>1. PICK i \in 1..Len(events) : events[i] = event
    BY <1>3, ElementsOf
  <2>2. /\ i + Len(batch) \in 1..Len(batch) + Len(events) /\ ~(i + Len(batch) <= Len(batch))
        /\ (i + Len(batch)) - Len(batch) = i
    BY <1>1
  <2>3. Queue[i + Len(batch)] = event /\ i + Len(batch) \in 1..Len(Queue)
    BY <1>1, <2>1, <2>2
  <2>4. QED
    BY <2>3 DEF HasEvent
<1>4. QED
  BY <1>2, <1>3

\* An event of the queue names the room of its reader, and is pending.
LEMMA HasPending ==
    ASSUME ChatInv, NEW kind, NEW r, HasEvent(Queue, kind, r)
    PROVE  Pending([kind |-> kind, id |-> r, room |-> room[r]])
<1>1. batch \in Seq(Event) /\ events \in Seq(Event) /\ Queue \in Seq(Event)
  BY ChatFacts DEF ChatInv, ChatTypes
<1>2. /\ Len(batch) \in Nat /\ Len(events) \in Nat
      /\ Len(Queue) = Len(batch) + Len(events)
      /\ \A i \in 1..Len(batch) + Len(events) :
            Queue[i] = IF i <= Len(batch) THEN batch[i] ELSE events[i - Len(batch)]
  BY <1>1, ConcatProperties, LenProperties DEF Queue
<1>3. PICK i \in 1..Len(Queue) : Queue[i].kind = kind /\ Queue[i].id = r
  BY DEF HasEvent
<1>4. Queue[i].room = room[r]
  BY <1>3 DEF ChatInv, EventsOwn
<1>5. Queue[i] \in Event
  BY <1>1, ElementOfSeq
<1>6. Queue[i] = [kind |-> kind, id |-> r, room |-> room[r]]
  BY <1>3, <1>4, <1>5 DEF Event
<1>7. Queue[i] \in ToSet(batch) \cup ToSet(events)
  <2>1. CASE i <= Len(batch)
    <3>1. i \in 1..Len(batch) /\ Queue[i] = batch[i]
      BY <1>2, <2>1
    <3>2. QED
      BY <1>1, <3>1, ElementsOf
  <2>2. CASE ~(i <= Len(batch))
    <3>1. i - Len(batch) \in 1..Len(events) /\ Queue[i] = events[i - Len(batch)]
      BY <1>2, <2>2
    <3>2. QED
      BY <1>1, <3>1, ElementsOf
  <2>3. QED
    BY <2>1, <2>2
<1>8. QED
  BY <1>6, <1>7 DEF Pending

\* The variables of the chat keep their types; no event is for a reader that was
\* never opened.
THEOREM ChatTypeCorrect == ChatSpec => []ChatTypeOK
<1>1. ChatInv => ChatTypeOK
  <2> SUFFICES ASSUME ChatInv
               PROVE  ChatTypeOK
    OBVIOUS
  <2>1. batch \in Seq(Event) /\ events \in Seq(Event) /\ Queue \in Seq(Event)
    BY ChatFacts DEF ChatInv, ChatTypes
  <2>2. ASSUME NEW event \in ToSet(events) \cup ToSet(batch)
        PROVE  event.kind \in {"Join", "Leave"} /\ event.id \in 1..chat_readers_idx
    <3>1. event \in Event
      BY <2>1, ElementsOf
    <3>2. HasEvent(Queue, event.kind, event.id)
      BY <2>1, PendingHas
    <3>3. QED
      BY <3>1, <3>2, ChatFacts DEF Event
  <2>3. QED
    BY <2>2 DEF ChatInv, ChatTypes, ChatTypeOK
<1>2. QED
  BY <1>1, ChatInvInit, ChatInvNext, PTL DEF ChatSpec

\* The chat thread never meets a Leave without its token, for any number of
\* streams and in every interleaving.
THEOREM LeaveCorrect == ChatSpec => []LeaveFindsToken
<1>1. ChatInv => LeaveFindsToken
  <2> SUFFICES ASSUME ChatInv, batch # <<>>, Head(batch).kind = "Leave"
               PROVE  <<Head(batch).id, Head(batch).room>> \in tokens
    BY DEF LeaveFindsToken
  <2>1. PICK e : e = Head(batch)
    OBVIOUS
  <2>2. batch \in Seq(Event) /\ events \in Seq(Event) /\ Queue \in Seq(Event) /\ Ordered(Queue)
    BY ChatFacts DEF ChatInv, ChatTypes
  <2>3. Head(Queue) = e /\ Queue # <<>>
    BY <2>1, <2>2, ConcatTail DEF Queue
  <2>4. HasEvent(Queue, "Leave", e.id) /\ ~HasEvent(Queue, "Join", e.id)
    BY <2>1, <2>2, <2>3, EventHandled
  <2>5. e.room = room[e.id]
    <3>1. Head(Queue) = Queue[1] /\ 1 \in 1..Len(Queue)
      BY <2>2, <2>3, EmptySeq
    <3>2. QED
      BY <2>3, <3>1 DEF ChatInv, EventsOwn
  <2>6. e.id \in Readers /\ reader[e.id] \in {"open", "dropped"}
    <3>1. e.id \in Readers /\ reader[e.id] # "none"
      BY <2>4, ChatFacts
    <3>2. QED
      BY <3>1 DEF ChatInv, ChatTypes
  <2>7. <<e.id, room[e.id]>> \in tokens
    BY <2>4, <2>6 DEF ChatInv, Stages, Listening
  <2>8. QED
    BY <2>1, <2>5, <2>7
<1>2. QED
  BY <1>1, ChatInvInit, ChatInvNext, PTL DEF ChatSpec

\* An open reader is listened for or about to be, and a dropped one no longer
\* than until its Leave is handled.
THEOREM ListenersCorrect == ChatSpec => []NoneForgotten
<1>1. ChatInv => NoneForgotten
  <2> SUFFICES ASSUME ChatInv, NEW r \in Readers
               PROVE  /\ reader[r] = "open" => Listening(r) \/ Pending(Join(r, room[r]))
                      /\ reader[r] = "dropped" /\ Listening(r) => Pending(Leave(r, room[r]))
    BY DEF NoneForgotten
  <2>1. ASSUME reader[r] = "open", ~Listening(r)
        PROVE  Pending(Join(r, room[r]))
    <3>1. HasEvent(Queue, "Join", r)
      BY <2>1 DEF ChatInv, Stages
    <3>2. QED
      BY <3>1, HasPending DEF Join
  <2>2. ASSUME reader[r] = "dropped", Listening(r)
        PROVE  Pending(Leave(r, room[r]))
    <3>1. HasEvent(Queue, "Leave", r)
      BY <2>2 DEF ChatInv, Stages
    <3>2. QED
      BY <3>1, HasPending DEF Leave
  <2>3. QED
    BY <2>1, <2>2
<1>2. QED
  BY <1>1, ChatInvInit, ChatInvNext, PTL DEF ChatSpec

\* Every stream sends what arrived for it in order, nothing twice and nothing
\* skipped, for every mix of messages.
THEOREM StreamsCorrect == ChatSpec => []StreamInOrder
<1>1. ChatInv => StreamInOrder
  BY DEF ChatInv, Streams, StreamInOrder
<1>2. QED
  BY <1>1, ChatInvInit, ChatInvNext, PTL DEF ChatSpec

\* The node goes down only after an oversize message, before the Leave of the
\* reader that met it is handled.
THEOREM DownCorrect == ChatSpec => []DownOnlyByOversize
<1>1. ChatInv => DownOnlyByOversize
  <2> SUFFICES ASSUME ChatInv, down
               PROVE  \E r \in Readers : /\ reader[r] = "dropped" /\ Pending(Leave(r, room[r]))
                                         /\ \E m \in Arrived(r) : KindOf[m] = "oversize"
    BY DEF DownOnlyByOversize
  <2>1. PICK r \in chat_poisoned : Listening(r)
    BY DEF ChatInv, Poisoning
  <2>2. r \in Readers /\ reader[r] = "dropped" /\ \E m \in Arrived(r) : KindOf[m] = "oversize"
    BY DEF ChatInv, ChatTypes, Poisoning
  <2>3. HasEvent(Queue, "Leave", r)
    BY <2>1, <2>2 DEF ChatInv, Stages
  <2>4. Pending(Leave(r, room[r]))
    BY <2>3, HasPending DEF Leave
  <2>5. QED
    BY <2>2, <2>4
<1>2. QED
  BY <1>1, ChatInvInit, ChatInvNext, PTL DEF ChatSpec


-----------------------------------------------------------------------------
(* The routes.                                                               *)

\* What the proofs below use of stage i of a route: the DHT is asked only in
\* the fourth and waited for in the fifth, only a sign-up unwraps the answer,
\* the map of nodes is the last mutex that is locked, and a request of bitcoin
\* holds nothing but the handler, at first.
GoodStage(kind, i, s) ==
    /\ s.holds \subseteq Locks
    /\ s.does = "ask" => i = 4
    /\ s.does = "wait" => i = 5 /\ s.holds = {"handler"}
    /\ s.does = "unwrap" => kind = "signup" /\ s.holds = {"handler"}
    /\ "nodes" \in s.holds => s.holds = Locks
    /\ kind = "bitcoin" /\ s.holds # {} => i = 1 /\ s.holds = {"handler"}

\* All stages but the last lock the handler, and who waits has asked.
GoodRoute(kind, p) ==
    /\ Len(p) \in Nat
    /\ \A i \in 1..Len(p) :
          /\ GoodStage(kind, i, p[i])
          /\ i < Len(p) => "handler" \in p[i].holds
          /\ p[i].does = "wait" => p[4].does = "ask"
    /\ kind = "bitcoin" => 1 < Len(p)

\* A route is good if each of its n stages is.
LEMMA RouteGood ==
    ASSUME NEW kind, NEW p, NEW n \in Nat,
           Len(p) = n,
           \A i \in 1..n : GoodStage(kind, i, p[i]),
           \A i \in 1..n : i < n => "handler" \in p[i].holds,
           \A i \in 1..n : p[i].does = "wait" => p[4].does = "ask",
           kind = "bitcoin" => 1 < n
    PROVE  GoodRoute(kind, p)
<1>1. Len(p) \in Nat
  OBVIOUS
<1>2. \A i \in 1..Len(p) : GoodStage(kind, i, p[i])
  OBVIOUS
<1>3. \A i \in 1..Len(p) : i < Len(p) => "handler" \in p[i].holds
  OBVIOUS
<1>4. \A i \in 1..Len(p) : p[i].does = "wait" => p[4].does = "ask"
  OBVIOUS
<1>5. kind = "bitcoin" => 1 < Len(p)
  OBVIOUS
<1> QED
  BY <1>1, <1>2, <1>3, <1>4, <1>5 DEF GoodRoute

\* The stages of the routes are good where they are.
LEMMA StagesGood ==
    /\ \A kind, i : kind # "bitcoin" =>
          /\ GoodStage(kind, i, Stage(H, "")) /\ GoodStage(kind, i, Stage(HE, ""))
          /\ GoodStage(kind, i, Stage(HEN, "")) /\ GoodStage(kind, i, Stage(HEN, "first_ip"))
          /\ GoodStage(kind, i, Stage(HEN, "locate")) /\ GoodStage(kind, i, Stage(H, "ipinfo"))
          /\ GoodStage(kind, i, Stage({"eosnode"}, ""))
    /\ \A kind : kind # "bitcoin" =>
          GoodStage(kind, 4, Stage(HE, "ask")) /\ GoodStage(kind, 5, Stage(H, "wait"))
    /\ GoodStage("bitcoin", 1, Stage(H, "")) /\ GoodStage("bitcoin", 2, Stage({}, "exec"))
    /\ \A i : GoodStage("signup", i, Stage(H, "unwrap"))
  BY DEF GoodStage, Stage, Locks, H, HE, HEN

\* The stages that lock the handler.
LEMMA StagesLock ==
    /\ "handler" \in Stage(H, "").holds /\ "handler" \in Stage(HE, "").holds
    /\ "handler" \in Stage(HEN, "").holds /\ "handler" \in Stage(HE, "ask").holds
    /\ "handler" \in Stage(H, "wait").holds /\ "handler" \in Stage(H, "unwrap").holds
  BY DEF Stage, H, HE, HEN

\* What is done in the stages, as far as waiting goes.
LEMMA StagesDo ==
    /\ \A locks : /\ Stage(locks, "").does # "wait" /\ Stage(locks, "first_ip").does # "wait"
                  /\ Stage(locks, "locate").does # "wait" /\ Stage(locks, "ipinfo").does # "wait"
                  /\ Stage(locks, "exec").does # "wait"
                  /\ Stage(locks, "ask").does = "ask"
  BY DEF Stage

\* The places of a short sequence.
LEMMA Places ==
    /\ \A i \in 1..1 : i = 1
    /\ \A i \in 1..2 : i = 1 \/ i = 2
    /\ \A i \in 1..3 : i = 1 \/ i = 2 \/ i = 3
    /\ \A i \in 1..4 : i = 1 \/ i = 2 \/ i = 3 \/ i = 4
    /\ \A i \in 1..5 : i = 1 \/ i = 2 \/ i = 3 \/ i = 4 \/ i = 5
    /\ \A i \in 1..7 : i = 1 \/ i = 2 \/ i = 3 \/ i = 4 \/ i = 5 \/ i = 6 \/ i = 7
  OBVIOUS

\* Every route but a sign-up is good.
LEMMA ShortRoutesGood ==
    /\ GoodRoute("node_infos", node_infos)
    /\ GoodRoute("connected_nodes", connected_nodes)
    /\ GoodRoute("connected_ips", connected_ips)
    /\ GoodRoute("nodes_location", nodes_location)
    /\ GoodRoute("country", country)
    /\ GoodRoute("set", set)
    /\ GoodRoute("get", get)
    /\ GoodRoute("put_msg", put_msg)
    /\ GoodRoute("bitcoin", bitcoin)
    /\ GoodRoute("chat_event", chat_event)
<1>1. GoodRoute("node_infos", node_infos)
  <2>1. Len(node_infos) = 2
    BY DEF node_infos
  <2>2. /\ node_infos[1] = Stage(H, "") /\ node_infos[2] = Stage(HE, "")
    BY DEF node_infos
  <2>3. /\ GoodStage("node_infos", 1, node_infos[1])
        /\ GoodStage("node_infos", 2, node_infos[2])
    BY <2>2, StagesGood
  <2>4. "handler" \in node_infos[1].holds
    BY <2>2, StagesLock
  <2>5. \A i \in 1..2 : GoodStage("node_infos", i, node_infos[i])
    BY <2>3, Places
  <2>6. \A i \in 1..2 : i < 2 => "handler" \in node_infos[i].holds
    BY <2>4, Places
  <2>7. /\ node_infos[1].does # "wait" /\ node_infos[2].does # "wait"
    BY <2>2, StagesDo
  <2>8. \A i \in 1..2 : node_infos[i].does = "wait" => node_infos[4].does = "ask"
    BY <2>7, Places
  <2> QED
    BY <2>1, <2>5, <2>6, <2>8, RouteGood
<1>2. GoodRoute("connected_nodes", connected_nodes)
  <2>1. Len(connected_nodes) = 3
    BY DEF connected_nodes
  <2>2. /\ connected_nodes[1] = Stage(H, "") /\ connected_nodes[2] = Stage(HE, "")
        /\ connected_nodes[3] = Stage(HEN, "")
    BY DEF connected_nodes
  <2>3. /\ GoodStage("connected_nodes", 1, connected_nodes[1])
        /\ GoodStage("connected_nodes", 2, connected_nodes[2])
        /\ GoodStage("connected_nodes", 3, connected_nodes[3])
    BY <2>2, StagesGood
  <2>4. /\ "handler" \in connected_nodes[1].holds /\ "handler" \in connected_nodes[2].holds
    BY <2>2, StagesLock
  <2>5. \A i \in 1..3 : GoodStage("connected_nodes", i, connected_nodes[i])
    BY <2>3, Places
  <2>6. \A i \in 1..3 : i < 3 => "handler" \in connected_nodes[i].holds
    BY <2>4, Places
  <2>7. /\ connected_nodes[1].does # "wait" /\ connected_nodes[2].does # "wait"
        /\ connected_nodes[3].does # "wait"
    BY <2>2, StagesDo
  <2>8. \A i \in 1..3 : connected_nodes[i].does = "wait" => connected_nodes[4].does = "ask"
    BY <2>7, Places
  <2> QED
    BY <2>1, <2>5, <2>6, <2>8, RouteGood
<1>3. GoodRoute("connected_ips", connected_ips)
  <2>1. Len(connected_ips) = 3
    BY DEF connected_ips
  <2>2. /\ connected_ips[1] = Stage(H, "") /\ connected_ips[2] = Stage(HE, "")
        /\ connected_ips[3] = Stage(HEN, "first_ip")
    BY DEF connected_ips
  <2>3. /\ GoodStage("connected_ips", 1, connected_ips[1])
        /\ GoodStage("connected_ips", 2, connected_ips[2])
        /\ GoodStage("connected_ips", 3, connected_ips[3])
    BY <2>2, StagesGood
  <2>4. /\ "handler" \in connected_ips[1].holds /\ "handler" \in connected_ips[2].holds
    BY <2>2, StagesLock
  <2>5. \A i \in 1..3 : GoodStage("connected_ips", i, connected_ips[i])
    BY <2>3, Places
  <2>6. \A i \in 1..3 : i < 3 => "handler" \in connected_ips[i].holds
    BY <2>4, Places
  <2>7. /\ connected_ips[1].does # "wait" /\ connected_ips[2].does # "wait"
        /\ connected_ips[3].does # "wait"
    BY <2>2, StagesDo
  <2>8. \A i \in 1..3 : connected_ips[i].does = "wait" => connected_ips[4].does = "ask"
    BY <2>7, Places
  <2> QED
    BY <2>1, <2>5, <2>6, <2>8, RouteGood
<1>4. GoodRoute("nodes_location", nodes_location)
  <2>1. Len(nodes_location) = 4
    BY DEF nodes_location
  <2>2. /\ nodes_location[1] = Stage(H, "") /\ nodes_location[2] = Stage(HE, "")
        /\ nodes_location[3] = Stage(HEN, "") /\ nodes_location[4] = Stage(HEN, "locate")
    BY DEF nodes_location
  <2>3. /\ GoodStage("nodes_location", 1, nodes_location[1])
        /\ GoodStage("nodes_location", 2, nodes_location[2])
        /\ GoodStage("nodes_location", 3, nodes_location[3])
        /\ GoodStage("nodes_location", 4, nodes_location[4])
    BY <2>2, StagesGood
  <2>4. /\ "handler" \in nodes_location[1].holds /\ "handler" \in nodes_location[2].holds
        /\ "handler" \in nodes_location[3].holds
    BY <2>2, StagesLock
  <2>5. \A i \in 1..4 : GoodStage("nodes_location", i, nodes_location[i])
    BY <2>3, Places
  <2>6. \A i \in 1..4 : i < 4 => "handler" \in nodes_location[i].holds
    BY <2>4, Places
  <2>7. /\ nodes_location[1].does # "wait" /\ nodes_location[2].does # "wait"
        /\ nodes_location[3].does # "wait" /\ nodes_location[4].does # "wait"
    BY <2>2, StagesDo
  <2>8. \A i \in 1..4 : nodes_location[i].does = "wait" => nodes_location[4].does = "ask"
    BY <2>7, Places
  <2> QED
    BY <2>1, <2>5, <2>6, <2>8, RouteGood
<1>5. GoodRoute("country", country)
  <2>1. Len(country) = 2
    BY DEF country
  <2>2. /\ country[1] = Stage(H, "") /\ country[2] = Stage(H, "ipinfo")
    BY DEF country
  <2>3. /\ GoodStage("country", 1, country[1]) /\ GoodStage("country", 2, country[2])
    BY <2>2, StagesGood
  <2>4. "handler" \in country[1].holds
    BY <2>2, StagesLock
  <2>5. \A i \in 1..2 : GoodStage("country", i, country[i])
    BY <2>3, Places
  <2>6. \A i \in 1..2 : i < 2 => "handler" \in country[i].holds
    BY <2>4, Places
  <2>7. /\ country[1].does # "wait" /\ country[2].does # "wait"
    BY <2>2, StagesDo
  <2>8. \A i \in 1..2 : country[i].does = "wait" => country[4].does = "ask"
    BY <2>7, Places
  <2> QED
    BY <2>1, <2>5, <2>6, <2>8, RouteGood
<1>6. GoodRoute("set", set)
  <2>1. Len(set) = 4
    BY DEF set
  <2>2. /\ set[1] = Stage(H, "") /\ set[2] = Stage(HE, "")
        /\ set[3] = Stage(H, "") /\ set[4] = Stage(HE, "")
    BY DEF set
  <2>3. /\ GoodStage("set", 1, set[1]) /\ GoodStage("set", 2, set[2])
        /\ GoodStage("set", 3, set[3]) /\ GoodStage("set", 4, set[4])
    BY <2>2, StagesGood
  <2>4. /\ "handler" \in set[1].holds /\ "handler" \in set[2].holds
        /\ "handler" \in set[3].holds
    BY <2>2, StagesLock
  <2>5. \A i \in 1..4 : GoodStage("set", i, set[i])
    BY <2>3, Places
  <2>6. \A i \in 1..4 : i < 4 => "handler" \in set[i].holds
    BY <2>4, Places
  <2>7. /\ set[1].does # "wait" /\ set[2].does # "wait"
        /\ set[3].does # "wait" /\ set[4].does # "wait"
    BY <2>2, StagesDo
  <2>8. \A i \in 1..4 : set[i].does = "wait" => set[4].does = "ask"
    BY <2>7, Places
  <2> QED
    BY <2>1, <2>5, <2>6, <2>8, RouteGood
<1>7. GoodRoute("get", get)
  <2>1. Len(get) = 5
    BY DEF get
  <2>2. /\ get[1] = Stage(H, "") /\ get[2] = Stage(HE, "")
        /\ get[3] = Stage(H, "") /\ get[4] = Stage(HE, "ask")
        /\ get[5] = Stage(H, "wait")
    BY DEF get
  <2>3. /\ GoodStage("get", 1, get[1]) /\ GoodStage("get", 2, get[2])
        /\ GoodStage("get", 3, get[3]) /\ GoodStage("get", 4, get[4])
        /\ GoodStage("get", 5, get[5])
    BY <2>2, StagesGood
  <2>4. /\ "handler" \in get[1].holds /\ "handler" \in get[2].holds
        /\ "handler" \in get[3].holds /\ "handler" \in get[4].holds
    BY <2>2, StagesLock
  <2>5. \A i \in 1..5 : GoodStage("get", i, get[i])
    BY <2>3, Places
  <2>6. \A i \in 1..5 : i < 5 => "handler" \in get[i].holds
    BY <2>4, Places
  <2>8. \A i \in 1..5 : get[i].does = "wait" => get[4].does = "ask"
    BY <2>2, StagesDo
  <2> QED
    BY <2>1, <2>5, <2>6, <2>8, RouteGood
<1>8. GoodRoute("put_msg", put_msg)
  <2>1. Len(put_msg) = 2
    BY DEF put_msg
  <2>2. /\ put_msg[1] = Stage(H, "") /\ put_msg[2] = Stage(HE, "")
    BY DEF put_msg
  <2>3. /\ GoodStage("put_msg", 1, put_msg[1]) /\ GoodStage("put_msg", 2, put_msg[2])
    BY <2>2, StagesGood
  <2>4. "handler" \in put_msg[1].holds
    BY <2>2, StagesLock
  <2>5. \A i \in 1..2 : GoodStage("put_msg", i, put_msg[i])
    BY <2>3, Places
  <2>6. \A i \in 1..2 : i < 2 => "handler" \in put_msg[i].holds
    BY <2>4, Places
  <2>7. /\ put_msg[1].does # "wait" /\ put_msg[2].does # "wait"
    BY <2>2, StagesDo
  <2>8. \A i \in 1..2 : put_msg[i].does = "wait" => put_msg[4].does = "ask"
    BY <2>7, Places
  <2> QED
    BY <2>1, <2>5, <2>6, <2>8, RouteGood
<1>9. GoodRoute("bitcoin", bitcoin)
  <2>1. Len(bitcoin) = 2
    BY DEF bitcoin
  <2>2. /\ bitcoin[1] = Stage(H, "") /\ bitcoin[2] = Stage({}, "exec")
    BY DEF bitcoin
  <2>3. /\ GoodStage("bitcoin", 1, bitcoin[1]) /\ GoodStage("bitcoin", 2, bitcoin[2])
    BY <2>2, StagesGood
  <2>4. "handler" \in bitcoin[1].holds
    BY <2>2, StagesLock
  <2>5. \A i \in 1..2 : GoodStage("bitcoin", i, bitcoin[i])
    BY <2>3, Places
  <2>6. \A i \in 1..2 : i < 2 => "handler" \in bitcoin[i].holds
    BY <2>4, Places
  <2>7. /\ bitcoin[1].does # "wait" /\ bitcoin[2].does # "wait"
    BY <2>2, StagesDo
  <2>8. \A i \in 1..2 : bitcoin[i].does = "wait" => bitcoin[4].does = "ask"
    BY <2>7, Places
  <2>9. 1 < 2
    OBVIOUS
  <2> QED
    BY <2>1, <2>5, <2>6, <2>8, <2>9, RouteGood
<1>10. GoodRoute("chat_event", chat_event)
  <2>1. Len(chat_event) = 1
    BY DEF chat_event
  <2>2. chat_event[1] = Stage({"eosnode"}, "")
    BY DEF chat_event
  <2>3. GoodStage("chat_event", 1, chat_event[1])
    BY <2>2, StagesGood
  <2>5. \A i \in 1..1 : GoodStage("chat_event", i, chat_event[i])
    BY <2>3, Places
  <2>6. \A i \in 1..1 : i < 1 => "handler" \in chat_event[i].holds
    BY Places
  <2>7. chat_event[1].does # "wait"
    BY <2>2, StagesDo
  <2>8. \A i \in 1..1 : chat_event[i].does = "wait" => chat_event[4].does = "ask"
    BY <2>7, Places
  <2> QED
    BY <2>1, <2>5, <2>6, <2>8, RouteGood
<1> QED
  BY <1>1, <1>2, <1>3, <1>4, <1>5, <1>6, <1>7, <1>8, <1>9, <1>10

\* The stages of a sign-up, which goes on after its get.
LEMMA SignupStages ==
    /\ Len(signup) = 7
    /\ signup[1] = Stage(H, "") /\ signup[2] = Stage(HE, "") /\ signup[3] = Stage(H, "")
    /\ signup[4] = Stage(HE, "ask") /\ signup[5] = Stage(H, "wait")
    /\ signup[6] = Stage(H, "unwrap") /\ signup[7] = Stage(HE, "")
<1> DEFINE last == <<Stage(H, "unwrap"), Stage(HE, "")>>
<1>1. PICK S : S = {Stage(H, ""), Stage(HE, ""), Stage(HE, "ask"), Stage(H, "wait"),
                    Stage(H, "unwrap")}
  OBVIOUS
<1>2. /\ Stage(H, "") \in S /\ Stage(HE, "") \in S /\ Stage(HE, "ask") \in S
      /\ Stage(H, "wait") \in S /\ Stage(H, "unwrap") \in S
  BY <1>1
<1>3. \A a, b, c, d, e \in S : <<a, b>> \in Seq(S) /\ <<a, b, c, d, e>> \in Seq(S)
  OBVIOUS
<1>4. get \in Seq(S)
  BY <1>2, <1>3 DEF get
<1>5. last \in Seq(S)
  BY <1>2, <1>3
<1>6. Len(get) = 5
  BY DEF get
<1>7. /\ get[1] = Stage(H, "") /\ get[2] = Stage(HE, "") /\ get[3] = Stage(H, "")
      /\ get[4] = Stage(HE, "ask") /\ get[5] = Stage(H, "wait")
  BY DEF get
<1>8. Len(last) = 2
  OBVIOUS
<1>9. last[1] = Stage(H, "unwrap") /\ last[2] = Stage(HE, "")
  OBVIOUS
<1>10. signup = get \o last
  BY DEF signup
<1> HIDE DEF last
<1>11. Len(signup) = Len(get) + Len(last)
  BY <1>4, <1>5, <1>10, ConcatProperties
<1>12. \A i \in 1..Len(get) + Len(last) :
          signup[i] = IF i <= Len(get) THEN get[i] ELSE last[i - Len(get)]
  BY <1>4, <1>5, <1>10, ConcatProperties
<1>13. Len(signup) = 7
  BY <1>6, <1>8, <1>11
<1>14. \A i \in 1..7 : signup[i] = IF i <= 5 THEN get[i] ELSE last[i - 5]
  BY <1>6, <1>8, <1>12
<1>15. /\ signup[1] = get[1] /\ signup[2] = get[2] /\ signup[3] = get[3] /\ signup[4] = get[4]
       /\ signup[5] = get[5] /\ signup[6] = last[1] /\ signup[7] = last[2]
  BY <1>14
<1> QED
  BY <1>7, <1>9, <1>13, <1>15

\* A sign-up is good as well.
LEMMA SignupGood == GoodRoute("signup", signup)
<1>1. /\ GoodStage("signup", 1, signup[1]) /\ GoodStage("signup", 2, signup[2])
      /\ GoodStage("signup", 3, signup[3]) /\ GoodStage("signup", 4, signup[4])
      /\ GoodStage("signup", 5, signup[5]) /\ GoodStage("signup", 6, signup[6])
      /\ GoodStage("signup", 7, signup[7])
  BY StagesGood, SignupStages
<1>2. /\ "handler" \in signup[1].holds /\ "handler" \in signup[2].holds
      /\ "handler" \in signup[3].holds /\ "handler" \in signup[4].holds
      /\ "handler" \in signup[5].holds /\ "handler" \in signup[6].holds
  BY StagesLock, SignupStages
<1>3. \A i \in 1..7 : GoodStage("signup", i, signup[i])
  BY <1>1, Places
<1>4. \A i \in 1..7 : i < 7 => "handler" \in signup[i].holds
  BY <1>2, Places
<1>5. Len(signup) = 7
  BY SignupStages
<1>6. signup[4].does = "ask"
  BY StagesDo, SignupStages
<1> QED
  BY <1>3, <1>4, <1>5, <1>6, RouteGood

\* Every route is good.
LEMMA RoutesGood ==
    ASSUME NEW kind \in Kinds
    PROVE  GoodRoute(kind, Program(kind))
  BY ShortRoutesGood, SignupGood DEF Kinds, Program

-----------------------------------------------------------------------------
(* The threads: the inductive invariant.                                     *)

\* What the DHT calls back with: an announcement, or the answer to a request.
Callback == [kind : {"value", "expired"}, info : Info]
            \cup [kind : {"done"}, request : Requests]

\* The types that the steps below need.
ApiTypes ==
    /\ mix \in Mixes
    /\ stage \in [Requests -> Nat]
    /\ \A r \in Requests : stage[r] <= Len(ProgramOf(r))
    /\ answer \in [Requests -> {"none", "ok", "err", "panic"}]
    /\ found \in [Requests -> {"waiting", "value", "nothing"}]
    /\ poisoned \subseteq Locks
    /\ nodes \in [Nodes -> Info \cup {NoInfo}]
    /\ running \subseteq Nodes
    /\ starts \in [Nodes -> 0..MaxStarts]
    /\ values \subseteq Info
    /\ called \in [values : SUBSET Info, expired : SUBSET Info]
    /\ callbacks \in Seq(Callback)

\* The DHT answers a get at most once, and only after it was asked.
AnsweredOnce ==
    /\ \A r \in Requests : found[r] # "waiting" => stage[r] >= 5
    /\ \A i \in 1..Len(callbacks) : callbacks[i].kind = "done" =>
          /\ stage[callbacks[i].request] >= 5
          /\ found[callbacks[i].request] = "waiting"
    /\ \A i, j \in 1..Len(callbacks) :
          callbacks[i].kind = "done" /\ callbacks[j].kind = "done" /\ i # j
             => callbacks[i].request # callbacks[j].request

\* Every announcement has an address and is that of a start of its node.
Announced == \A v \in values \cup called.values : v.ips /\ v.start <= starts[v.id]

\* What is listed has been called back with, by its own node.
Listed ==
    /\ called.expired \subseteq called.values
    /\ \A n \in Nodes : nodes[n] # NoInfo => nodes[n] \in called.values /\ nodes[n].id = n

\* An announcement is called back with when found and then when expired.
FoundFirst ==
    \A i \in 1..Len(callbacks) :
        /\ callbacks[i].kind = "value" => callbacks[i].info \in called.values
        /\ callbacks[i].kind = "expired" => callbacks[i].info \in called.expired
        /\ callbacks[i].kind = "value" /\ callbacks[i].info \in called.expired =>
              \E j \in 1..Len(callbacks) :
                 i < j /\ callbacks[j] = [kind |-> "expired", info |-> callbacks[i].info]

\* Queued, of any queue.
InQueue(q, kind, v) == \E i \in 1..Len(q) : q[i] = [kind |-> kind, info |-> v]

\* The inductive invariant of the routes and the list of nodes.
ApiInv ==
    /\ ApiTypes
    /\ AnsweredOnce
    /\ Announced
    /\ Listed
    /\ FoundFirst
    /\ OnlySignupPoisons
    /\ ListFollowsDht

-----------------------------------------------------------------------------
(* The threads: lemmas.                                                      *)

\* No announcement is that of no node, and an announcement is its fields.
LEMMA InfoFacts ==
    /\ NoInfo \notin Info
    /\ \A v \in Info : v.id \in Nodes /\ v.start \in 1..MaxStarts /\ v.ips \in BOOLEAN
    /\ \A v, w \in Info : v.id = w.id /\ v.start = w.start /\ v.ips = w.ips => v = w
<1>1. NoInfo \notin Info
  <2>1. \A v \in Info : v.start # 0
    BY ApiAssumption DEF Info
  <2>2. NoInfo.start = 0
    BY DEF NoInfo
  <2> QED
    BY <2>1, <2>2
<1>2. \A v \in Info : v.id \in Nodes /\ v.start \in 1..MaxStarts /\ v.ips \in BOOLEAN
  BY DEF Info
<1>3. \A v, w \in Info : v.id = w.id /\ v.start = w.start /\ v.ips = w.ips => v = w
  BY DEF Info
<1> QED
  BY <1>1, <1>2, <1>3

\* The fields of a callback.
LEMMA CallbackFacts ==
    /\ \A c \in Callback : c.kind \in {"value", "expired", "done"}
    /\ \A c \in Callback : c.kind = "done" => c.request \in Requests
    /\ \A c \in Callback : c.kind # "done" => c.info \in Info
    /\ \A r \in Requests : [kind |-> "done", request |-> r] \in Callback
    /\ \A v \in Info : [kind |-> "value", info |-> v] \in Callback
    /\ \A v \in Info : [kind |-> "expired", info |-> v] \in Callback
  BY DEF Callback

\* A callback is queued.
LEMMA CallbackAdded ==
    ASSUME callbacks \in Seq(Callback), NEW c \in Callback,
           callbacks' = Append(callbacks, c)
    PROVE  /\ callbacks' \in Seq(Callback)
           /\ Len(callbacks) \in Nat /\ Len(callbacks') = Len(callbacks) + 1
           /\ \A i \in 1..Len(callbacks) : i \in 1..Len(callbacks') /\ callbacks'[i] = callbacks[i]
           /\ callbacks'[Len(callbacks) + 1] = c
           /\ \A i \in 1..Len(callbacks') : i \in 1..Len(callbacks) \/ i = Len(callbacks) + 1
           /\ \A kind, v : Queued(kind, v) => InQueue(callbacks', kind, v)
           /\ \A kind, v : c = [kind |-> kind, info |-> v] => InQueue(callbacks', kind, v)
<1>1. Len(callbacks) \in Nat
  BY LenProperties
<1>2. callbacks' \in Seq(Callback)
  BY AppendProperties
<1>3. Len(callbacks') = Len(callbacks) + 1
  BY AppendProperties
<1>4. \A i \in 1..Len(callbacks) : callbacks'[i] = callbacks[i]
  BY AppendProperties
<1>5. callbacks'[Len(callbacks) + 1] = c
  BY AppendProperties
<1>6. \A i \in 1..Len(callbacks) : i \in 1..Len(callbacks')
  BY <1>1, <1>3
<1>7. \A i \in 1..Len(callbacks') : i \in 1..Len(callbacks) \/ i = Len(callbacks) + 1
  BY <1>1, <1>3
<1>8. ASSUME NEW kind, NEW v, Queued(kind, v)
      PROVE  InQueue(callbacks', kind, v)
  <2>1. PICK i \in 1..Len(callbacks) : callbacks[i] = [kind |-> kind, info |-> v]
    BY <1>8 DEF Queued
  <2>2. i \in 1..Len(callbacks') /\ callbacks'[i] = [kind |-> kind, info |-> v]
    BY <1>4, <1>6, <2>1
  <2> QED
    BY <2>2 DEF InQueue
<1>9. ASSUME NEW kind, NEW v, c = [kind |-> kind, info |-> v]
      PROVE  InQueue(callbacks', kind, v)
  <2>1. Len(callbacks) + 1 \in 1..Len(callbacks')
    BY <1>1, <1>3
  <2> QED
    BY <1>5, <1>9, <2>1 DEF InQueue
<1> QED
  BY <1>1, <1>2, <1>3, <1>4, <1>5, <1>6, <1>7, <1>8, <1>9

\* The first callback leaves the queue.
LEMMA CallbackTaken ==
    ASSUME callbacks \in Seq(Callback), callbacks # <<>>, callbacks' = Tail(callbacks)
    PROVE  /\ callbacks' \in Seq(Callback)
           /\ Head(callbacks) \in Callback /\ Head(callbacks) = callbacks[1]
           /\ 1 \in 1..Len(callbacks)
           /\ \A i \in 1..Len(callbacks') :
                 i + 1 \in 1..Len(callbacks) /\ callbacks'[i] = callbacks[i + 1]
           /\ \A i \in 1..Len(callbacks) : i # 1 =>
                 i - 1 \in 1..Len(callbacks') /\ callbacks'[i - 1] = callbacks[i]
           /\ \A kind, v : Queued(kind, v) /\ Head(callbacks) # [kind |-> kind, info |-> v]
                              => InQueue(callbacks', kind, v)
<1>1. Len(callbacks) \in Nat
  BY LenProperties
<1>2. callbacks' \in Seq(Callback)
  BY HeadTailProperties
<1>3. Head(callbacks) \in Callback
  BY HeadTailProperties
<1>4. Head(callbacks) = callbacks[1]
  OBVIOUS
<1>5. Len(callbacks') = Len(callbacks) - 1
  BY HeadTailProperties
<1>6. Len(callbacks') \in Nat
  BY <1>2, LenProperties
<1>7. 1 \in 1..Len(callbacks)
  BY <1>1, <1>5, <1>6
<1>8. \A i \in 1..Len(callbacks') : callbacks'[i] = callbacks[i + 1]
  BY HeadTailProperties
<1>9. \A i \in 1..Len(callbacks') : i + 1 \in 1..Len(callbacks)
  BY <1>1, <1>5
<1>10. \A i \in 1..Len(callbacks) : i # 1 => i - 1 \in 1..Len(callbacks') /\ (i - 1) + 1 = i
  BY <1>1, <1>5
<1>11. \A i \in 1..Len(callbacks) : i # 1 => callbacks'[i - 1] = callbacks[i]
  BY <1>8, <1>10
<1>12. ASSUME NEW kind, NEW v, Queued(kind, v), Head(callbacks) # [kind |-> kind, info |-> v]
       PROVE  InQueue(callbacks', kind, v)
  <2>1. PICK i \in 1..Len(callbacks) : callbacks[i] = [kind |-> kind, info |-> v]
    BY <1>12 DEF Queued
  <2>2. i # 1
    BY <1>4, <1>12, <2>1
  <2>3. i - 1 \in 1..Len(callbacks') /\ callbacks'[i - 1] = [kind |-> kind, info |-> v]
    BY <1>10, <1>11, <2>1, <2>2
  <2> QED
    BY <2>3 DEF InQueue
<1> QED
  BY <1>2, <1>3, <1>4, <1>7, <1>8, <1>9, <1>10, <1>11, <1>12

\* What the steps use of the stage that a request is at.
LEMMA RequestFacts ==
    ASSUME ApiTypes, NEW r \in Requests
    PROVE  /\ Len(ProgramOf(r)) \in Nat
           /\ Now(r).holds \subseteq Locks
           /\ stage[r] = 0 => Now(r).holds = {}
           /\ More(r) /\ stage[r] # 0 => "handler" \in Now(r).holds
           /\ Now(r).does = "ask" => stage[r] = 4
           /\ Now(r).does = "unwrap" => mix[r] = "signup" /\ Now(r).holds = {"handler"}
<1>1. mix[r] \in Kinds
  BY ApiAssumption DEF ApiTypes
<1>2. GoodRoute(mix[r], ProgramOf(r))
  BY <1>1, RoutesGood DEF ProgramOf
<1>3. Len(ProgramOf(r)) \in Nat
  BY <1>2 DEF GoodRoute
<1>4. stage[r] \in Nat /\ stage[r] <= Len(ProgramOf(r))
  BY DEF ApiTypes
<1>5. CASE stage[r] = 0
  <2>1. Now(r) = Stage({}, "")
    BY <1>5 DEF Now
  <2>2. Stage({}, "").holds = {} /\ Stage({}, "").does = ""
    BY DEF Stage
  <2> QED
    BY <1>3, <1>5, <2>1, <2>2
<1>6. CASE stage[r] # 0
  <2>1. stage[r] \in 1..Len(ProgramOf(r))
    BY <1>3, <1>4, <1>6
  <2>2. Now(r) = ProgramOf(r)[stage[r]]
    BY <1>6 DEF Now
  <2>3. GoodStage(mix[r], stage[r], Now(r))
    BY <1>2, <2>1, <2>2 DEF GoodRoute
  <2>4. stage[r] < Len(ProgramOf(r)) => "handler" \in Now(r).holds
    BY <1>2, <2>1, <2>2 DEF GoodRoute
  <2> QED
    BY <1>3, <1>6, <2>3, <2>4 DEF GoodStage, More
<1> QED
  BY <1>5, <1>6

\* What is to prove of the list after a step.
LEMMA ListAfter ==
    ASSUME \A n \in Nodes : nodes'[n] \in called'.expired
                               => InQueue(callbacks', "expired", nodes'[n]),
           \A n \in Nodes : \A v \in called'.values \ called'.expired :
              v.id = n /\ starts'[n] = 1 => nodes'[n] = v \/ InQueue(callbacks', "value", v)
    PROVE  ListFollowsDht'
  BY DEF ListFollowsDht, Queued, InQueue

\* A step that leaves the announcements and what is made of them alone.
LEMMA ListSame ==
    ASSUME Announced, Listed, FoundFirst, ListFollowsDht,
           UNCHANGED <<nodes, starts, values, callbacks, called>>
    PROVE  Announced' /\ Listed' /\ FoundFirst' /\ ListFollowsDht'
<1>1. /\ nodes' = nodes /\ starts' = starts /\ values' = values
      /\ callbacks' = callbacks /\ called' = called
  OBVIOUS
<1>2. Announced'
  BY <1>1 DEF Announced
<1>3. Listed'
  BY <1>1 DEF Listed
<1>4. FoundFirst'
  BY <1>1 DEF FoundFirst
<1>5. ListFollowsDht'
  BY <1>1 DEF ListFollowsDht, Queued
<1> QED
  BY <1>2, <1>3, <1>4, <1>5

\* A step that leaves the requests and the answers of the DHT alone.
LEMMA AnsweredSame ==
    ASSUME AnsweredOnce, UNCHANGED <<stage, found, callbacks>>
    PROVE  AnsweredOnce'
<1>1. stage' = stage /\ found' = found /\ callbacks' = callbacks
  OBVIOUS
<1> QED
  BY <1>1 DEF AnsweredOnce

\* A step that leaves the routes and the mutexes alone, and no panic undone.
LEMMA PoisonedSame ==
    ASSUME OnlySignupPoisons, UNCHANGED <<mix, poisoned>>,
           \A r \in Requests : found[r] = "nothing" /\ answer[r] = "panic"
                                  => found'[r] = "nothing" /\ answer'[r] = "panic"
    PROVE  OnlySignupPoisons'
<1>1. mix' = mix /\ poisoned' = poisoned
  OBVIOUS
<1> QED
  BY <1>1 DEF OnlySignupPoisons

\* A callback other than a value or an expiry is queued.
LEMMA DoneQueued ==
    ASSUME ApiTypes, FoundFirst, ListFollowsDht, NEW r \in Requests,
           callbacks' = Append(callbacks, [kind |-> "done", request |-> r]),
           UNCHANGED <<nodes, starts, called>>
    PROVE  FoundFirst' /\ ListFollowsDht'
<1> DEFINE c == [kind |-> "done", request |-> r]
<1>0. nodes' = nodes /\ starts' = starts /\ called' = called
  OBVIOUS
<1>1. c \in Callback /\ c.kind = "done"
  BY CallbackFacts
<1>2. callbacks \in Seq(Callback)
  BY DEF ApiTypes
<1>3. callbacks' = Append(callbacks, c)
  OBVIOUS
<1> HIDE DEF c
<1>4. /\ \A i \in 1..Len(callbacks) : i \in 1..Len(callbacks') /\ callbacks'[i] = callbacks[i]
      /\ callbacks'[Len(callbacks) + 1] = c
      /\ \A i \in 1..Len(callbacks') : i \in 1..Len(callbacks) \/ i = Len(callbacks) + 1
      /\ \A kind, v : Queued(kind, v) => InQueue(callbacks', kind, v)
  BY <1>1, <1>2, <1>3, CallbackAdded
<1>5. FoundFirst'
  <2> SUFFICES ASSUME NEW i \in 1..Len(callbacks')
      PROVE /\ callbacks'[i].kind = "value" => callbacks'[i].info \in called.values
            /\ callbacks'[i].kind = "expired" => callbacks'[i].info \in called.expired
            /\ callbacks'[i].kind = "value" /\ callbacks'[i].info \in called.expired =>
                  \E j \in 1..Len(callbacks') :
                     i < j /\ callbacks'[j] = [kind |-> "expired", info |-> callbacks'[i].info]
    BY <1>0 DEF FoundFirst
  <2>1. CASE i \in 1..Len(callbacks)
    BY <1>4, <2>1 DEF FoundFirst
  <2>2. CASE i = Len(callbacks) + 1
    BY <1>1, <1>4, <2>2
  <2> QED
    BY <1>4, <2>1, <2>2
<1>6. ListFollowsDht'
  <2>1. \A n \in Nodes : nodes[n] \in called.expired
                            => InQueue(callbacks', "expired", nodes[n])
    BY <1>4 DEF ListFollowsDht
  <2>2. \A n \in Nodes : \A v \in called.values \ called.expired :
           v.id = n /\ starts[n] = 1 => nodes[n] = v \/ InQueue(callbacks', "value", v)
    BY <1>4 DEF ListFollowsDht
  <2> QED
    BY <1>0, <2>1, <2>2, ListAfter
<1> QED
  BY <1>5, <1>6

\* A request asks the DHT, which was not asked before.
LEMMA AskedOnce ==
    ASSUME ApiTypes, AnsweredOnce, NEW r \in Requests, stage[r] = 4,
           callbacks' = Append(callbacks, [kind |-> "done", request |-> r]),
           stage' = [stage EXCEPT ![r] = @ + 1], UNCHANGED found
    PROVE  AnsweredOnce'
<1> DEFINE c == [kind |-> "done", request |-> r]
<1>1. c \in Callback /\ c.kind = "done" /\ c.request = r
  BY CallbackFacts
<1>2. callbacks \in Seq(Callback) /\ stage \in [Requests -> Nat]
  BY DEF ApiTypes
<1>3. callbacks' = Append(callbacks, c)
  OBVIOUS
<1> HIDE DEF c
<1>4. /\ \A i \in 1..Len(callbacks) : callbacks'[i] = callbacks[i]
      /\ callbacks'[Len(callbacks) + 1] = c
      /\ \A i \in 1..Len(callbacks') : i \in 1..Len(callbacks) \/ i = Len(callbacks) + 1
  BY <1>1, <1>2, <1>3, CallbackAdded
<1>5. stage'[r] = 5 /\ \A s \in Requests : s # r => stage'[s] = stage[s]
  BY <1>2
<1>6. \A i \in 1..Len(callbacks) : callbacks[i].kind = "done" =>
          callbacks[i].request \in Requests /\ callbacks[i].request # r
  <2>1. \A i \in 1..Len(callbacks) : callbacks[i] \in Callback
    BY <1>2, ElementOfSeq
  <2>2. ~(stage[r] >= 5)
    OBVIOUS
  <2> QED
    BY <2>1, <2>2, CallbackFacts DEF AnsweredOnce
<1>7. found[r] = "waiting"
  BY DEF AnsweredOnce
<1>8. \A s \in Requests : found'[s] # "waiting" => stage'[s] >= 5
  BY <1>5 DEF AnsweredOnce
<1>9. \A i \in 1..Len(callbacks') : callbacks'[i].kind = "done" =>
         /\ stage'[callbacks'[i].request] >= 5
         /\ found'[callbacks'[i].request] = "waiting"
  <2>1. \A i \in 1..Len(callbacks) : callbacks'[i].kind = "done" =>
           /\ stage'[callbacks'[i].request] >= 5
           /\ found'[callbacks'[i].request] = "waiting"
    BY <1>4, <1>5, <1>6 DEF AnsweredOnce
  <2>2. /\ stage'[c.request] >= 5
        /\ found'[c.request] = "waiting"
    BY <1>1, <1>5, <1>7
  <2> QED
    BY <1>4, <2>1, <2>2
<1>10. \A i, j \in 1..Len(callbacks') :
          callbacks'[i].kind = "done" /\ callbacks'[j].kind = "done" /\ i # j
             => callbacks'[i].request # callbacks'[j].request
  BY <1>1, <1>4, <1>6 DEF AnsweredOnce
<1> QED
  BY <1>8, <1>9, <1>10 DEF AnsweredOnce

\* The stages of the other requests and the queue are as before.
LEMMA advanceInv ==
    ASSUME ApiInv, NEW r \in Requests, advance(r), UNCHANGED mix
    PROVE  ApiInv'
<1>1. ApiTypes /\ AnsweredOnce /\ Announced /\ Listed /\ FoundFirst /\ OnlySignupPoisons
      /\ ListFollowsDht
  BY DEF ApiInv
<1>2. /\ stage' = [stage EXCEPT ![r] = @ + 1]
      /\ answer' = answer /\ found' = found /\ poisoned' = poisoned /\ nodes' = nodes
      /\ running' = running /\ starts' = starts /\ values' = values /\ called' = called
      /\ mix' = mix
  BY DEF advance, networkVars
<1>3. stage[r] < Len(ProgramOf(r))
  BY DEF advance, More
<1>4. /\ Now(r).does = "ask" => callbacks' = Append(callbacks, [kind |-> "done", request |-> r])
      /\ Now(r).does # "ask" => callbacks' = callbacks
  BY DEF advance
<1>5. stage \in [Requests -> Nat] /\ callbacks \in Seq(Callback)
  BY <1>1 DEF ApiTypes
<1>6. callbacks' \in Seq(Callback)
  BY <1>4, <1>5, CallbackFacts, CallbackAdded
<1>7. ApiTypes'
  <2>1. stage' \in [Requests -> Nat]
    BY <1>2, <1>5
  <2>2. \A s \in Requests : Len(ProgramOf(s)) \in Nat /\ ProgramOf(s)' = ProgramOf(s)
    BY <1>1, <1>2, RequestFacts DEF ProgramOf
  <2>3. \A s \in Requests : stage'[s] = IF s = r THEN stage[s] + 1 ELSE stage[s]
    BY <1>2, <1>5
  <2>4. \A s \in Requests : stage[s] \in Nat /\ stage[s] <= Len(ProgramOf(s))
    BY <1>1 DEF ApiTypes
  <2>5. \A s \in Requests : stage'[s] <= Len(ProgramOf(s))
    BY <1>3, <2>2, <2>3, <2>4
  <2>6. \A s \in Requests : stage'[s] <= Len(ProgramOf(s)')
    BY <2>2, <2>5
  <2> QED
    BY <1>1, <1>2, <1>6, <2>1, <2>6 DEF ApiTypes
<1>8. OnlySignupPoisons'
  BY <1>1, <1>2, PoisonedSame
<1>9. CASE Now(r).does = "ask"
  <2>1. callbacks' = Append(callbacks, [kind |-> "done", request |-> r])
    BY <1>4, <1>9
  <2>2. stage[r] = 4
    BY <1>1, <1>9, RequestFacts
  <2>3. AnsweredOnce'
    BY <1>1, <1>2, <2>1, <2>2, AskedOnce
  <2>4. FoundFirst' /\ ListFollowsDht'
    BY <1>1, <1>2, <2>1, DoneQueued
  <2>5. Announced' /\ Listed'
    BY <1>1, <1>2 DEF Announced, Listed
  <2> QED
    BY <1>7, <1>8, <2>3, <2>4, <2>5 DEF ApiInv
<1>10. CASE Now(r).does # "ask"
  <2>1. callbacks' = callbacks
    BY <1>4, <1>10
  <2>2. Announced' /\ Listed' /\ FoundFirst' /\ ListFollowsDht'
    BY <1>1, <1>2, <2>1, ListSame
  <2>3. AnsweredOnce'
    <3>1. \A s \in Requests : stage[s] >= 5 => stage'[s] >= 5
      BY <1>2, <1>5
    <3>2. \A i \in 1..Len(callbacks) : callbacks[i].kind = "done" => callbacks[i].request \in Requests
      BY <1>5, ElementOfSeq, CallbackFacts
    <3> QED
      BY <1>1, <1>2, <2>1, <3>1, <3>2 DEF AnsweredOnce
  <2> QED
    BY <1>7, <1>8, <2>2, <2>3 DEF ApiInv
<1> QED
  BY <1>9, <1>10

\* Only an unwrap of nothing poisons: the map of nodes lists none without an
\* address, and a request that meets a poisoned handler holds nothing yet.
LEMMA panicInv ==
    ASSUME ApiInv, NEW r \in Requests, panic(r), UNCHANGED mix
    PROVE  ApiInv'
<1>1. ApiTypes /\ AnsweredOnce /\ Announced /\ Listed /\ FoundFirst /\ OnlySignupPoisons
      /\ ListFollowsDht
  BY DEF ApiInv
<1>2. /\ answer' = [answer EXCEPT ![r] = "panic"] /\ poisoned' = poisoned \cup Holds(r)
      /\ stage' = stage /\ found' = found /\ nodes' = nodes
      /\ running' = running /\ starts' = starts /\ values' = values /\ called' = called
      /\ callbacks' = callbacks /\ mix' = mix
  BY DEF panic, Panic, networkVars
<1>3. answer[r] = "none"
  BY DEF panic, Active
<1>4. Holds(r) = Now(r).holds
  BY <1>3 DEF Holds, Active
<1>5. answer \in [Requests -> {"none", "ok", "err", "panic"}] /\ poisoned \subseteq Locks
  BY <1>1 DEF ApiTypes
<1>6. answer' \in [Requests -> {"none", "ok", "err", "panic"}]
  BY <1>2, <1>5
<1>7. poisoned' \subseteq Locks
  BY <1>1, <1>2, <1>4, <1>5, RequestFacts
<1>8. ApiTypes'
  BY <1>1, <1>2, <1>6, <1>7 DEF ApiTypes, ProgramOf
<1>9. AnsweredOnce'
  BY <1>1, <1>2, AnsweredSame
<1>10. Announced' /\ Listed' /\ FoundFirst' /\ ListFollowsDht'
  BY <1>1, <1>2, ListSame
<1>11. answer'[r] = "panic" /\ \A s \in Requests : answer[s] = "panic" => answer'[s] = "panic"
  BY <1>2, <1>5
<1>12. OnlySignupPoisons'
  <2>1. CASE Now(r).does = "unwrap" /\ found[r] = "nothing"
    <3>1. mix[r] = "signup" /\ Now(r).holds = {"handler"}
      BY <1>1, <2>1, RequestFacts
    <3>2. poisoned' \subseteq {"handler"}
      BY <1>1, <1>2, <1>4, <3>1 DEF OnlySignupPoisons
    <3>3. mix'[r] = "signup" /\ found'[r] = "nothing" /\ answer'[r] = "panic"
      BY <1>2, <1>11, <2>1, <3>1
    <3> QED
      BY <3>2, <3>3 DEF OnlySignupPoisons
  <2>2. CASE \E n \in Nodes : nodes[n] # NoInfo /\ ~nodes[n].ips
    <3>1. PICK n \in Nodes : nodes[n] # NoInfo /\ ~nodes[n].ips
      BY <2>2
    <3>2. nodes[n] \in called.values
      BY <1>1, <3>1 DEF Listed
    <3>3. nodes[n].ips
      BY <1>1, <3>2 DEF Announced
    <3> QED
      BY <3>1, <3>3
  <2>3. CASE More(r) /\ Wanted(r) \cap poisoned # {}
    <3>1. "handler" \notin Holds(r)
      BY <1>1, <2>3 DEF OnlySignupPoisons, Wanted
    <3>2. Holds(r) = {}
      BY <1>1, <1>4, <2>3, <3>1, RequestFacts
    <3>3. poisoned' = poisoned
      BY <1>2, <3>2
    <3> QED
      BY <1>1, <1>2, <1>11, <3>3, PoisonedSame
  <2> QED
    BY <2>1, <2>2, <2>3 DEF panic, Unwraps
<1> QED
  BY <1>8, <1>9, <1>10, <1>12 DEF ApiInv

\* A response is not a panic, and unlocks.
LEMMA respondInv ==
    ASSUME ApiInv, NEW r \in Requests, respond(r), UNCHANGED mix
    PROVE  ApiInv'
<1>1. ApiTypes /\ AnsweredOnce /\ Announced /\ Listed /\ FoundFirst /\ OnlySignupPoisons
      /\ ListFollowsDht
  BY DEF ApiInv
<1>2. PICK result \in
         CASE Now(r).does = "exec" ->
                UNION {{command_answer(o)} \cup multisig_answers(o) : o \in exec_command}
           [] Now(r).does = "wait" -> {IF found[r] = "value" THEN "ok" ELSE "err"}
           [] Now(r).does = "ipinfo" -> {"ok", "err"}
           [] OTHER -> {"ok"} :
         answer' = [answer EXCEPT ![r] = result]
  BY DEF respond
<1>3. result \in {"ok", "err"}
  <2>1. \A o \in exec_command : {command_answer(o)} \cup multisig_answers(o) \subseteq {"ok", "err"}
    BY DEF command_answer, multisig_answers
  <2>2. UNION {{command_answer(o)} \cup multisig_answers(o) : o \in exec_command} \subseteq {"ok", "err"}
    BY <2>1
  <2> QED
    BY <1>2, <2>2
<1>4. /\ stage' = stage /\ found' = found /\ nodes' = nodes /\ poisoned' = poisoned
      /\ running' = running /\ starts' = starts /\ values' = values /\ called' = called
      /\ callbacks' = callbacks /\ mix' = mix
  BY DEF respond, networkVars
<1>5. answer[r] = "none"
  BY DEF respond, Ready, Active
<1>6. answer \in [Requests -> {"none", "ok", "err", "panic"}]
  BY <1>1 DEF ApiTypes
<1>7. answer' \in [Requests -> {"none", "ok", "err", "panic"}]
  BY <1>2, <1>3, <1>6
<1>8. ApiTypes'
  BY <1>1, <1>4, <1>7 DEF ApiTypes, ProgramOf
<1>9. AnsweredOnce'
  BY <1>1, <1>4, AnsweredSame
<1>10. Announced' /\ Listed' /\ FoundFirst' /\ ListFollowsDht'
  BY <1>1, <1>4, ListSame
<1>11. \A s \in Requests : answer[s] = "panic" => answer'[s] = "panic"
  BY <1>2, <1>5, <1>6
<1>12. OnlySignupPoisons'
  BY <1>1, <1>4, <1>11, PoisonedSame
<1> QED
  BY <1>8, <1>9, <1>10, <1>12 DEF ApiInv

\* A start announces with an address, later than what was announced before; the
\* first start of a node finds nothing of it.
LEMMA startInv ==
    ASSUME ApiInv, NEW n \in Nodes, start_node(n), UNCHANGED mix
    PROVE  ApiInv'
<1>1. ApiTypes /\ AnsweredOnce /\ Announced /\ Listed /\ FoundFirst /\ OnlySignupPoisons
      /\ ListFollowsDht
  BY DEF ApiInv
<1>2. PICK addresses \in BOOLEAN :
         /\ AddressesFound(addresses)
         /\ values' = values \cup {[id |-> n, start |-> starts[n] + 1, ips |-> addresses]}
  BY DEF start_node
<1>3. addresses = TRUE
  BY <1>2 DEF AddressesFound
<1>4. starts[n] < MaxStarts /\ running' = running \cup {n} /\ starts' = [starts EXCEPT ![n] = @ + 1]
  BY DEF start_node
<1>5. /\ stage' = stage /\ answer' = answer /\ found' = found /\ nodes' = nodes
      /\ poisoned' = poisoned /\ called' = called /\ callbacks' = callbacks /\ mix' = mix
  BY DEF start_node, requestVars
<1>6. PICK v : v = [id |-> n, start |-> starts[n] + 1, ips |-> TRUE]
  OBVIOUS
<1>7. values' = values \cup {v}
  BY <1>2, <1>3, <1>6
<1>8. starts \in [Nodes -> 0..MaxStarts] /\ MaxStarts \in Nat
  BY <1>1, ApiAssumption DEF ApiTypes
<1>9. starts[n] + 1 \in 1..MaxStarts
  BY <1>4, <1>8
<1>10. v \in Info
  BY <1>6, <1>9 DEF Info
<1>11. starts' \in [Nodes -> 0..MaxStarts]
  BY <1>4, <1>8, <1>9
<1>12. v.id = n /\ v.start = starts[n] + 1 /\ v.ips
  BY <1>6
<1>13. starts'[n] = starts[n] + 1 /\ \A m \in Nodes : m # n => starts'[m] = starts[m]
  BY <1>4, <1>8
<1>14. \A w \in values \cup called.values : w \in Info
  BY <1>1 DEF ApiTypes
<1>15. running' \subseteq Nodes /\ values' \subseteq Info
  BY <1>1, <1>4, <1>7, <1>10 DEF ApiTypes
<1>16. ApiTypes'
  BY <1>1, <1>5, <1>11, <1>15 DEF ApiTypes, ProgramOf
<1>17. AnsweredOnce'
  BY <1>1, <1>5, AnsweredSame
<1>18. \A w \in values \cup called.values : w.start <= starts[w.id]
  BY <1>1 DEF Announced
<1>19. \A w \in values \cup called.values : w.start <= starts'[w.id]
  <2> SUFFICES ASSUME NEW w \in values \cup called.values PROVE w.start <= starts'[w.id]
    OBVIOUS
  <2>1. w.id \in Nodes /\ w.start \in 1..MaxStarts
    BY <1>14, InfoFacts
  <2>2. starts[w.id] <= starts'[w.id]
    BY <1>8, <1>13, <2>1
  <2>3. starts[w.id] \in Int /\ starts'[w.id] \in Int
    BY <1>8, <1>11, <2>1
  <2> QED
    BY <1>18, <2>1, <2>2, <2>3
<1>20. v.start <= starts'[v.id]
  BY <1>8, <1>12, <1>13
<1>21. Announced'
  BY <1>1, <1>5, <1>7, <1>12, <1>19, <1>20 DEF Announced
<1>22. Listed' /\ FoundFirst'
  BY <1>1, <1>5 DEF Listed, FoundFirst
<1>23. OnlySignupPoisons'
  BY <1>1, <1>5, PoisonedSame
<1>24. ListFollowsDht'
  <2>1. \A m \in Nodes : nodes[m] \in called.expired => Queued("expired", nodes[m])
    BY <1>1 DEF ListFollowsDht
  <2>2. ASSUME NEW w \in called.values \ called.expired, starts'[w.id] = 1
        PROVE  nodes[w.id] = w \/ Queued("value", w)
    <3>1. w.id \in Nodes /\ w.start \in 1..MaxStarts
      BY <1>14, InfoFacts
    <3>2. w.id # n
      <4> SUFFICES ASSUME w.id = n PROVE FALSE
        OBVIOUS
      <4>1. w.start <= starts[n]
        BY <1>18
      <4>2. starts[n] = 0
        BY <1>8, <1>13, <2>2
      <4> QED
        BY <3>1, <4>1, <4>2
    <3>3. starts[w.id] = 1
      BY <1>13, <2>2, <3>1, <3>2
    <3> QED
      BY <1>1, <3>1, <3>3 DEF ListFollowsDht
  <2> QED
    BY <1>5, <2>1, <2>2 DEF ListFollowsDht, Queued
<1> QED
  BY <1>16, <1>17, <1>21, <1>22, <1>23, <1>24 DEF ApiInv

\* What a node that stops announced stays announced until it expires.
LEMMA stopInv ==
    ASSUME ApiInv, NEW n \in Nodes, stop_node(n), UNCHANGED mix
    PROVE  ApiInv'
<1>1. ApiTypes /\ AnsweredOnce /\ Announced /\ Listed /\ FoundFirst /\ OnlySignupPoisons
      /\ ListFollowsDht
  BY DEF ApiInv
<1>2. /\ running' = running \ {n}
      /\ stage' = stage /\ answer' = answer /\ found' = found /\ nodes' = nodes
      /\ poisoned' = poisoned /\ starts' = starts /\ values' = values /\ called' = called
      /\ callbacks' = callbacks /\ mix' = mix
  BY DEF stop_node, requestVars
<1>3. running' \subseteq Nodes
  BY <1>1, <1>2 DEF ApiTypes
<1>4. ApiTypes'
  BY <1>1, <1>2, <1>3 DEF ApiTypes, ProgramOf
<1>5. AnsweredOnce'
  BY <1>1, <1>2, AnsweredSame
<1>6. Announced' /\ Listed' /\ FoundFirst' /\ ListFollowsDht'
  BY <1>1, <1>2, ListSame
<1>7. OnlySignupPoisons'
  BY <1>1, <1>2, PoisonedSame
<1> QED
  BY <1>4, <1>5, <1>6, <1>7 DEF ApiInv

\* A callback for an announcement adds no answer of the DHT.
LEMMA AnsweredAppend ==
    ASSUME ApiTypes, AnsweredOnce, NEW c \in Callback, c.kind # "done",
           callbacks' = Append(callbacks, c), UNCHANGED <<stage, found>>
    PROVE  AnsweredOnce'
<1>1. stage' = stage /\ found' = found
  OBVIOUS
<1>2. callbacks \in Seq(Callback)
  BY DEF ApiTypes
<1>3. /\ \A i \in 1..Len(callbacks) : callbacks'[i] = callbacks[i]
      /\ callbacks'[Len(callbacks) + 1] = c
      /\ \A i \in 1..Len(callbacks') : i \in 1..Len(callbacks) \/ i = Len(callbacks) + 1
  BY <1>2, CallbackAdded
<1>4. \A i \in 1..Len(callbacks') : callbacks'[i].kind = "done" =>
         i \in 1..Len(callbacks) /\ callbacks'[i] = callbacks[i]
  BY <1>3
<1> QED
  BY <1>1, <1>4 DEF AnsweredOnce

\* An announcement is called back with for the first time.
LEMMA detectInv ==
    ASSUME ApiInv, NEW v \in values, detect(v), UNCHANGED mix
    PROVE  ApiInv'
<1>1. ApiTypes /\ AnsweredOnce /\ Announced /\ Listed /\ FoundFirst /\ OnlySignupPoisons
      /\ ListFollowsDht
  BY DEF ApiInv
<1>2. PICK c : c = [kind |-> "value", info |-> v]
  OBVIOUS
<1>3. v \notin called.values /\ callbacks' = Append(callbacks, c)
      /\ called' = [called EXCEPT !.values = @ \cup {v}]
  BY <1>2 DEF detect
<1>4. /\ stage' = stage /\ answer' = answer /\ found' = found /\ poisoned' = poisoned
      /\ nodes' = nodes /\ running' = running /\ starts' = starts /\ values' = values
      /\ mix' = mix
  BY DEF detect, requestVars, networkVars
<1>5. v \in Info /\ callbacks \in Seq(Callback)
      /\ called \in [values : SUBSET Info, expired : SUBSET Info]
  BY <1>1 DEF ApiTypes
<1>6. c \in Callback /\ c.kind = "value" /\ c.info = v
  BY <1>2, <1>5, CallbackFacts
<1>7. /\ callbacks' \in Seq(Callback)
      /\ Len(callbacks) \in Nat
      /\ \A i \in 1..Len(callbacks) : i \in 1..Len(callbacks') /\ callbacks'[i] = callbacks[i]
      /\ callbacks'[Len(callbacks) + 1] = c
      /\ \A i \in 1..Len(callbacks') : i \in 1..Len(callbacks) \/ i = Len(callbacks) + 1
  BY <1>3, <1>5, <1>6, CallbackAdded
<1>8. \A kind, w : Queued(kind, w) => InQueue(callbacks', kind, w)
  BY <1>3, <1>5, <1>6, CallbackAdded
<1>9. InQueue(callbacks', "value", v)
  BY <1>2, <1>3, <1>5, <1>6, CallbackAdded
<1>10. called'.values = called.values \cup {v} /\ called'.expired = called.expired
  BY <1>3, <1>5
<1>11. called' \in [values : SUBSET Info, expired : SUBSET Info]
  BY <1>3, <1>5
<1>12. ApiTypes'
  BY <1>1, <1>4, <1>7, <1>11 DEF ApiTypes, ProgramOf
<1>13. AnsweredOnce'
  BY <1>1, <1>3, <1>4, <1>6, AnsweredAppend
<1>14. Announced'
  BY <1>1, <1>4, <1>10 DEF Announced
<1>15. Listed'
  BY <1>1, <1>4, <1>10 DEF Listed
<1>16. v \notin called.expired
  BY <1>1, <1>3 DEF Listed
<1>17. FoundFirst'
  <2> SUFFICES ASSUME NEW i \in 1..Len(callbacks')
      PROVE /\ callbacks'[i].kind = "value" => callbacks'[i].info \in called'.values
            /\ callbacks'[i].kind = "expired" => callbacks'[i].info \in called'.expired
            /\ callbacks'[i].kind = "value" /\ callbacks'[i].info \in called'.expired =>
                  \E j \in 1..Len(callbacks') :
                     i < j /\ callbacks'[j] = [kind |-> "expired", info |-> callbacks'[i].info]
    BY DEF FoundFirst
  <2>1. CASE i \in 1..Len(callbacks)
    BY <1>1, <1>7, <1>10, <2>1 DEF FoundFirst
  <2>2. CASE i = Len(callbacks) + 1
    <3>1. callbacks'[i].kind = "value" /\ callbacks'[i].info = v
      BY <1>6, <1>7, <2>2
    <3> QED
      BY <1>10, <1>16, <3>1
  <2> QED
    BY <1>7, <2>1, <2>2
<1>18. OnlySignupPoisons'
  BY <1>1, <1>4, PoisonedSame
<1>19. ListFollowsDht'
  <2>1. \A n \in Nodes : nodes[n] \in called.expired => InQueue(callbacks', "expired", nodes[n])
    BY <1>1, <1>8 DEF ListFollowsDht
  <2>2. \A n \in Nodes : \A w \in called'.values \ called'.expired :
           w.id = n /\ starts[n] = 1 => nodes[n] = w \/ InQueue(callbacks', "value", w)
    BY <1>1, <1>8, <1>9, <1>10 DEF ListFollowsDht
  <2> QED
    BY <1>4, <1>10, <2>1, <2>2, ListAfter
<1> QED
  BY <1>12, <1>13, <1>14, <1>15, <1>17, <1>18, <1>19 DEF ApiInv

\* An announcement that was called back with is called back with again.
LEMMA expireInv ==
    ASSUME ApiInv, NEW v \in values, expire(v), UNCHANGED mix
    PROVE  ApiInv'
<1>1. ApiTypes /\ AnsweredOnce /\ Announced /\ Listed /\ FoundFirst /\ OnlySignupPoisons
      /\ ListFollowsDht
  BY DEF ApiInv
<1>2. /\ stage' = stage /\ answer' = answer /\ found' = found /\ poisoned' = poisoned
      /\ nodes' = nodes /\ running' = running /\ starts' = starts /\ values' = values \ {v}
      /\ mix' = mix
  BY DEF expire, requestVars
<1>3. OnlySignupPoisons'
  BY <1>1, <1>2, PoisonedSame
<1>4. values' \subseteq Info
  BY <1>1, <1>2 DEF ApiTypes
<1>5. CASE v \notin called.values
  <2>1. callbacks' = callbacks /\ called' = called
    BY <1>5 DEF expire
  <2>2. ApiTypes'
    BY <1>1, <1>2, <1>4, <2>1 DEF ApiTypes, ProgramOf
  <2>3. AnsweredOnce'
    BY <1>1, <1>2, <2>1, AnsweredSame
  <2>4. Announced'
    BY <1>1, <1>2, <2>1 DEF Announced
  <2>5. Listed' /\ FoundFirst'
    BY <1>1, <1>2, <2>1 DEF Listed, FoundFirst
  <2>6. ListFollowsDht'
    BY <1>1, <1>2, <2>1 DEF ListFollowsDht, Queued
  <2> QED
    BY <1>3, <2>2, <2>3, <2>4, <2>5, <2>6 DEF ApiInv
<1>6. CASE v \in called.values
  <2>1. PICK c : c = [kind |-> "expired", info |-> v]
    OBVIOUS
  <2>2. callbacks' = Append(callbacks, c) /\ called' = [called EXCEPT !.expired = @ \cup {v}]
    BY <1>6, <2>1 DEF expire
  <2>3. v \in Info /\ callbacks \in Seq(Callback)
        /\ called \in [values : SUBSET Info, expired : SUBSET Info]
    BY <1>1 DEF ApiTypes
  <2>4. c \in Callback /\ c.kind = "expired" /\ c.info = v
    BY <2>1, <2>3, CallbackFacts
  <2>5. /\ callbacks' \in Seq(Callback)
        /\ Len(callbacks) \in Nat
        /\ \A i \in 1..Len(callbacks) : i \in 1..Len(callbacks') /\ callbacks'[i] = callbacks[i]
        /\ Len(callbacks') = Len(callbacks) + 1
        /\ callbacks'[Len(callbacks) + 1] = c
        /\ \A i \in 1..Len(callbacks') : i \in 1..Len(callbacks) \/ i = Len(callbacks) + 1
    BY <2>2, <2>3, <2>4, CallbackAdded
  <2>6. \A kind, w : Queued(kind, w) => InQueue(callbacks', kind, w)
    BY <2>2, <2>3, <2>4, CallbackAdded
  <2>7. InQueue(callbacks', "expired", v)
    BY <2>1, <2>2, <2>3, <2>4, CallbackAdded
  <2>8. called'.values = called.values /\ called'.expired = called.expired \cup {v}
    BY <2>2, <2>3
  <2>9. called' \in [values : SUBSET Info, expired : SUBSET Info]
    BY <2>2, <2>3
  <2>10. ApiTypes'
    BY <1>1, <1>2, <1>4, <2>5, <2>9 DEF ApiTypes, ProgramOf
  <2>11. AnsweredOnce'
    BY <1>1, <1>2, <2>2, <2>4, AnsweredAppend
  <2>12. Announced'
    BY <1>1, <1>2, <2>8 DEF Announced
  <2>13. Listed'
    BY <1>1, <1>2, <1>6, <2>8 DEF Listed
  <2>14. FoundFirst'
    <3> SUFFICES ASSUME NEW i \in 1..Len(callbacks')
        PROVE /\ callbacks'[i].kind = "value" => callbacks'[i].info \in called'.values
              /\ callbacks'[i].kind = "expired" => callbacks'[i].info \in called'.expired
              /\ callbacks'[i].kind = "value" /\ callbacks'[i].info \in called'.expired =>
                    \E j \in 1..Len(callbacks') :
                       i < j /\ callbacks'[j] = [kind |-> "expired", info |-> callbacks'[i].info]
      BY DEF FoundFirst
    <3>1. CASE i \in 1..Len(callbacks)
      <4>1. callbacks'[i] = callbacks[i]
        BY <2>5, <3>1
      <4>2. /\ callbacks[i].kind = "value" => callbacks[i].info \in called'.values
            /\ callbacks[i].kind = "expired" => callbacks[i].info \in called'.expired
        BY <1>1, <2>8, <3>1 DEF FoundFirst
      <4>3. ASSUME callbacks[i].kind = "value", callbacks[i].info \in called.expired
            PROVE  \E j \in 1..Len(callbacks') :
                       i < j /\ callbacks'[j] = [kind |-> "expired", info |-> callbacks[i].info]
        <5>1. PICK j \in 1..Len(callbacks) :
                 i < j /\ callbacks[j] = [kind |-> "expired", info |-> callbacks[i].info]
          BY <1>1, <3>1, <4>3 DEF FoundFirst
        <5>2. j \in 1..Len(callbacks') /\ callbacks'[j] = callbacks[j]
          BY <2>5
        <5> QED
          BY <5>1, <5>2
      <4>4. ASSUME callbacks[i].info = v
            PROVE  \E j \in 1..Len(callbacks') :
                       i < j /\ callbacks'[j] = [kind |-> "expired", info |-> callbacks[i].info]
        <5>1. Len(callbacks) + 1 \in 1..Len(callbacks') /\ i < Len(callbacks) + 1
          BY <2>5, <3>1
        <5>2. callbacks'[Len(callbacks) + 1] = [kind |-> "expired", info |-> callbacks[i].info]
          BY <2>1, <2>5, <4>4
        <5> QED
          BY <5>1, <5>2
      <4> QED
        BY <2>8, <4>1, <4>2, <4>3, <4>4
    <3>2. CASE i = Len(callbacks) + 1
      <4>1. callbacks'[i].kind = "expired" /\ callbacks'[i].info = v
        BY <2>4, <2>5, <3>2
      <4> QED
        BY <2>8, <4>1
    <3> QED
      BY <2>5, <3>1, <3>2
  <2>15. ListFollowsDht'
    <3>1. \A n \in Nodes : nodes[n] \in called'.expired => InQueue(callbacks', "expired", nodes[n])
      BY <1>1, <2>6, <2>7, <2>8 DEF ListFollowsDht
    <3>2. \A n \in Nodes : \A w \in called'.values \ called'.expired :
             w.id = n /\ starts[n] = 1 => nodes[n] = w \/ InQueue(callbacks', "value", w)
      BY <1>1, <2>6, <2>8 DEF ListFollowsDht
    <3> QED
      BY <1>2, <2>8, <3>1, <3>2, ListAfter
  <2> QED
    BY <1>3, <2>10, <2>11, <2>12, <2>13, <2>14, <2>15 DEF ApiInv
<1> QED
  BY <1>5, <1>6

\* Once the first callback is taken, the others are in the order they were.
LEMMA FoundFirstTail ==
    ASSUME ApiTypes, FoundFirst, callbacks # <<>>, callbacks' = Tail(callbacks),
           UNCHANGED called
    PROVE  FoundFirst'
<1>1. callbacks \in Seq(Callback)
  BY DEF ApiTypes
<1>2. /\ \A i \in 1..Len(callbacks') :
            i + 1 \in 1..Len(callbacks) /\ callbacks'[i] = callbacks[i + 1]
      /\ \A i \in 1..Len(callbacks) : i # 1 =>
            i - 1 \in 1..Len(callbacks') /\ callbacks'[i - 1] = callbacks[i]
  BY <1>1, CallbackTaken
<1> SUFFICES ASSUME NEW i \in 1..Len(callbacks')
    PROVE /\ callbacks'[i].kind = "value" => callbacks'[i].info \in called.values
          /\ callbacks'[i].kind = "expired" => callbacks'[i].info \in called.expired
          /\ callbacks'[i].kind = "value" /\ callbacks'[i].info \in called.expired =>
                \E j \in 1..Len(callbacks') :
                   i < j /\ callbacks'[j] = [kind |-> "expired", info |-> callbacks'[i].info]
  BY DEF FoundFirst
<1>3. i + 1 \in 1..Len(callbacks) /\ callbacks'[i] = callbacks[i + 1]
  BY <1>2
<1>4. /\ callbacks'[i].kind = "value" => callbacks'[i].info \in called.values
      /\ callbacks'[i].kind = "expired" => callbacks'[i].info \in called.expired
  BY <1>3 DEF FoundFirst
<1>5. ASSUME callbacks'[i].kind = "value", callbacks'[i].info \in called.expired
      PROVE  \E j \in 1..Len(callbacks') :
                i < j /\ callbacks'[j] = [kind |-> "expired", info |-> callbacks'[i].info]
  <2>1. PICK j \in 1..Len(callbacks) :
           i + 1 < j /\ callbacks[j] = [kind |-> "expired", info |-> callbacks'[i].info]
    BY <1>3, <1>5 DEF FoundFirst
  <2>2. j # 1 /\ i < j - 1
    BY <2>1
  <2>3. j - 1 \in 1..Len(callbacks') /\ callbacks'[j - 1] = callbacks[j]
    BY <1>2, <2>2
  <2> QED
    BY <2>1, <2>2, <2>3
<1> QED
  BY <1>4, <1>5

\* A value or an expiry leaves the queue, and no answer of the DHT with it.
LEMMA AnsweredTail ==
    ASSUME ApiTypes, AnsweredOnce, callbacks # <<>>, callbacks' = Tail(callbacks),
           UNCHANGED <<stage, found>>
    PROVE  AnsweredOnce'
<1>1. stage' = stage /\ found' = found
  OBVIOUS
<1>2. callbacks \in Seq(Callback)
  BY DEF ApiTypes
<1>3. \A i \in 1..Len(callbacks') :
         i + 1 \in 1..Len(callbacks) /\ callbacks'[i] = callbacks[i + 1]
  BY <1>2, CallbackTaken
<1>4. \A i \in 1..Len(callbacks') : callbacks'[i].kind = "done" =>
         /\ stage[callbacks'[i].request] >= 5
         /\ found[callbacks'[i].request] = "waiting"
  BY <1>3 DEF AnsweredOnce
<1>5. \A i, j \in 1..Len(callbacks') :
         callbacks'[i].kind = "done" /\ callbacks'[j].kind = "done" /\ i # j
            => callbacks'[i].request # callbacks'[j].request
  <2> SUFFICES ASSUME NEW i \in 1..Len(callbacks'), NEW j \in 1..Len(callbacks'),
                      callbacks'[i].kind = "done", callbacks'[j].kind = "done", i # j
      PROVE callbacks'[i].request # callbacks'[j].request
    OBVIOUS
  <2>1. i + 1 # j + 1
    OBVIOUS
  <2> QED
    BY <1>3, <2>1 DEF AnsweredOnce
<1> QED
  BY <1>1, <1>4, <1>5 DEF AnsweredOnce

\* value_cb inserts: what is listed now is not expired, or its expiry is still
\* to come; another announcement of the node was made by another start.
LEMMA valueCallbackInv ==
    ASSUME ApiInv, callbacks # <<>>, Head(callbacks).kind = "value",
           nodes' = Inserted(Head(callbacks).info), callbacks' = Tail(callbacks),
           UNCHANGED <<mix, stage, answer, found, poisoned, running, starts, values, called>>
    PROVE  ApiInv'
<1>1. ApiTypes /\ AnsweredOnce /\ Announced /\ Listed /\ FoundFirst /\ OnlySignupPoisons
      /\ ListFollowsDht
  BY DEF ApiInv
<1>2. /\ stage' = stage /\ answer' = answer /\ found' = found /\ poisoned' = poisoned
      /\ running' = running /\ starts' = starts /\ values' = values /\ called' = called
      /\ mix' = mix
  OBVIOUS
<1>3. PICK v : v = Head(callbacks).info
  OBVIOUS
<1>4. callbacks \in Seq(Callback) /\ nodes \in [Nodes -> Info \cup {NoInfo}]
      /\ called \in [values : SUBSET Info, expired : SUBSET Info]
      /\ starts \in [Nodes -> 0..MaxStarts]
  BY <1>1 DEF ApiTypes
<1>5. /\ callbacks' \in Seq(Callback) /\ Head(callbacks) = callbacks[1]
      /\ 1 \in 1..Len(callbacks) /\ Head(callbacks) \in Callback
  BY <1>4, CallbackTaken
<1>6. v \in Info /\ v \in called.values
  BY <1>1, <1>3, <1>5, CallbackFacts DEF FoundFirst
<1>7. v.id \in Nodes
  BY <1>6, InfoFacts
<1>8. nodes' = [nodes EXCEPT ![v.id] = v]
  BY <1>3 DEF Inserted
<1>9. nodes' \in [Nodes -> Info \cup {NoInfo}]
  BY <1>4, <1>6, <1>8
<1>10. nodes'[v.id] = v /\ \A n \in Nodes : n # v.id => nodes'[n] = nodes[n]
  BY <1>4, <1>7, <1>8
<1>11. ApiTypes'
  BY <1>1, <1>2, <1>5, <1>9 DEF ApiTypes, ProgramOf
<1>12. AnsweredOnce'
  BY <1>1, <1>2, AnsweredTail
<1>13. Announced'
  BY <1>1, <1>2 DEF Announced
<1>14. Listed'
  BY <1>1, <1>2, <1>6, <1>10 DEF Listed
<1>15. FoundFirst'
  BY <1>1, <1>2, FoundFirstTail
<1>16. OnlySignupPoisons'
  BY <1>1, <1>2, PoisonedSame
<1>17. \A kind, w : Queued(kind, w) /\ Head(callbacks) # [kind |-> kind, info |-> w]
                       => InQueue(callbacks', kind, w)
  BY <1>4, CallbackTaken
<1>18. \A w : Queued("expired", w) => InQueue(callbacks', "expired", w)
  <2>1. \A w : Head(callbacks) # [kind |-> "expired", info |-> w]
    OBVIOUS
  <2> QED
    BY <1>17, <2>1
<1>19. \A w : Queued("value", w) /\ w # v => InQueue(callbacks', "value", w)
  <2>1. \A w : w # v => Head(callbacks) # [kind |-> "value", info |-> w]
    BY <1>3
  <2> QED
    BY <1>17, <2>1
<1>20. v \in called.expired => InQueue(callbacks', "expired", v)
  <2> SUFFICES ASSUME v \in called.expired PROVE InQueue(callbacks', "expired", v)
    OBVIOUS
  <2>1. \E j \in 1..Len(callbacks) : callbacks[j] = [kind |-> "expired", info |-> v]
    BY <1>1, <1>3, <1>5 DEF FoundFirst
  <2>2. Queued("expired", v)
    BY <2>1 DEF Queued
  <2> QED
    BY <1>18, <2>2
<1>21. ASSUME NEW n \in Nodes, nodes'[n] \in called.expired
       PROVE  InQueue(callbacks', "expired", nodes'[n])
  <2>1. CASE n = v.id
    BY <1>10, <1>20, <1>21, <2>1
  <2>2. CASE n # v.id
    <3>1. nodes'[n] = nodes[n]
      BY <1>10, <2>2
    <3>2. Queued("expired", nodes[n])
      BY <1>1, <1>21, <3>1 DEF ListFollowsDht
    <3> QED
      BY <1>18, <3>1, <3>2
  <2> QED
    BY <2>1, <2>2
<1>22. ASSUME NEW w \in called.values \ called.expired, starts[w.id] = 1
       PROVE  nodes'[w.id] = w \/ InQueue(callbacks', "value", w)
  <2>1. w \in Info
    BY <1>4
  <2>2. CASE w.id = v.id
    <3>1. w.ips /\ v.ips /\ w.start <= 1 /\ v.start <= 1
      BY <1>1, <1>6, <1>22, <2>2 DEF Announced
    <3>2. w.start = 1 /\ v.start = 1
      BY <1>6, <2>1, <3>1, InfoFacts
    <3>3. w.ips = TRUE /\ v.ips = TRUE
      BY <1>6, <2>1, <3>1, InfoFacts
    <3>4. w = v
      BY <1>6, <2>1, <2>2, <3>2, <3>3, InfoFacts
    <3> QED
      BY <1>10, <3>4
  <2>3. CASE w.id # v.id
    <3>1. w.id \in Nodes
      BY <2>1, InfoFacts
    <3>2. nodes[w.id] = w \/ Queued("value", w)
      BY <1>1, <1>22, <3>1 DEF ListFollowsDht
    <3> QED
      BY <1>10, <1>19, <2>3, <3>1, <3>2
  <2> QED
    BY <2>2, <2>3
<1>23. ListFollowsDht'
  BY <1>2, <1>21, <1>22, ListAfter
<1> QED
  BY <1>11, <1>12, <1>13, <1>14, <1>15, <1>16, <1>23 DEF ApiInv

\* value_cb removes: a node with a single start is removed for the announcement
\* that has expired.
LEMMA expiredCallbackInv ==
    ASSUME ApiInv, callbacks # <<>>, Head(callbacks).kind = "expired",
           nodes' = Removed(Head(callbacks).info), callbacks' = Tail(callbacks),
           UNCHANGED <<mix, stage, answer, found, poisoned, running, starts, values, called>>
    PROVE  ApiInv'
<1>1. ApiTypes /\ AnsweredOnce /\ Announced /\ Listed /\ FoundFirst /\ OnlySignupPoisons
      /\ ListFollowsDht
  BY DEF ApiInv
<1>2. /\ stage' = stage /\ answer' = answer /\ found' = found /\ poisoned' = poisoned
      /\ running' = running /\ starts' = starts /\ values' = values /\ called' = called
      /\ mix' = mix
  OBVIOUS
<1>3. PICK v : v = Head(callbacks).info
  OBVIOUS
<1>4. callbacks \in Seq(Callback) /\ nodes \in [Nodes -> Info \cup {NoInfo}]
      /\ called \in [values : SUBSET Info, expired : SUBSET Info]
      /\ starts \in [Nodes -> 0..MaxStarts]
  BY <1>1 DEF ApiTypes
<1>5. /\ callbacks' \in Seq(Callback) /\ Head(callbacks) = callbacks[1]
      /\ 1 \in 1..Len(callbacks) /\ Head(callbacks) \in Callback
  BY <1>4, CallbackTaken
<1>6. v \in called.expired /\ v \in called.values /\ v \in Info
  BY <1>1, <1>3, <1>5, CallbackFacts DEF FoundFirst, Listed
<1>7. v.id \in Nodes
  BY <1>6, InfoFacts
<1>8. nodes' = [nodes EXCEPT ![v.id] = NoInfo]
  BY <1>3 DEF Removed
<1>9. nodes' \in [Nodes -> Info \cup {NoInfo}]
  BY <1>4, <1>8
<1>10. nodes'[v.id] = NoInfo /\ \A n \in Nodes : n # v.id => nodes'[n] = nodes[n]
  BY <1>4, <1>7, <1>8
<1>11. ApiTypes'
  BY <1>1, <1>2, <1>5, <1>9 DEF ApiTypes, ProgramOf
<1>12. AnsweredOnce'
  BY <1>1, <1>2, AnsweredTail
<1>13. Announced'
  BY <1>1, <1>2 DEF Announced
<1>14. Listed'
  BY <1>1, <1>2, <1>10 DEF Listed
<1>15. FoundFirst'
  BY <1>1, <1>2, FoundFirstTail
<1>16. OnlySignupPoisons'
  BY <1>1, <1>2, PoisonedSame
<1>17. \A kind, w : Queued(kind, w) /\ Head(callbacks) # [kind |-> kind, info |-> w]
                       => InQueue(callbacks', kind, w)
  BY <1>4, CallbackTaken
<1>18. \A w : Queued("value", w) => InQueue(callbacks', "value", w)
  <2>1. \A w : Head(callbacks) # [kind |-> "value", info |-> w]
    OBVIOUS
  <2> QED
    BY <1>17, <2>1
<1>19. \A w : Queued("expired", w) /\ w # v => InQueue(callbacks', "expired", w)
  <2>1. \A w : w # v => Head(callbacks) # [kind |-> "expired", info |-> w]
    BY <1>3
  <2> QED
    BY <1>17, <2>1
<1>20. ASSUME NEW n \in Nodes, nodes'[n] \in called.expired
       PROVE  InQueue(callbacks', "expired", nodes'[n])
  <2>1. NoInfo \notin called.expired
    BY <1>4, InfoFacts
  <2>2. n # v.id
    BY <1>10, <1>20, <2>1
  <2>3. nodes'[n] = nodes[n] /\ nodes[n] # NoInfo
    BY <1>10, <1>20, <2>1, <2>2
  <2>4. nodes[n] # v
    BY <1>1, <2>2, <2>3 DEF Listed
  <2>5. Queued("expired", nodes[n])
    BY <1>1, <1>20, <2>3 DEF ListFollowsDht
  <2>6. InQueue(callbacks', "expired", nodes[n])
    BY <1>19, <2>4, <2>5
  <2> QED
    BY <2>3, <2>6
<1>21. ASSUME NEW w \in called.values \ called.expired, starts[w.id] = 1
       PROVE  nodes'[w.id] = w \/ InQueue(callbacks', "value", w)
  <2>1. w \in Info
    BY <1>4
  <2>2. CASE w.id = v.id
    <3>1. w.ips /\ v.ips /\ w.start <= 1 /\ v.start <= 1
      BY <1>1, <1>6, <1>21, <2>2 DEF Announced
    <3>2. w.start = 1 /\ v.start = 1
      BY <1>6, <2>1, <3>1, InfoFacts
    <3>3. w.ips = TRUE /\ v.ips = TRUE
      BY <1>6, <2>1, <3>1, InfoFacts
    <3>4. w = v
      BY <1>6, <2>1, <2>2, <3>2, <3>3, InfoFacts
    <3> QED
      BY <1>6, <3>4
  <2>3. CASE w.id # v.id
    <3>1. w.id \in Nodes
      BY <2>1, InfoFacts
    <3>2. nodes[w.id] = w \/ Queued("value", w)
      BY <1>1, <1>21, <3>1 DEF ListFollowsDht
    <3> QED
      BY <1>10, <1>18, <2>3, <3>1, <3>2
  <2> QED
    BY <2>2, <2>3
<1>22. ListFollowsDht'
  BY <1>2, <1>20, <1>21, ListAfter
<1> QED
  BY <1>11, <1>12, <1>13, <1>14, <1>15, <1>16, <1>22 DEF ApiInv

\* done_cb answers a request that waits, and no other.
LEMMA doneCallbackInv ==
    ASSUME ApiInv, callbacks # <<>>, Head(callbacks).kind = "done",
           NEW outcome \in {"value", "nothing"},
           found' = [found EXCEPT ![Head(callbacks).request] = outcome],
           callbacks' = Tail(callbacks),
           UNCHANGED <<mix, stage, answer, nodes, poisoned, running, starts, values, called>>
    PROVE  ApiInv'
<1>1. ApiTypes /\ AnsweredOnce /\ Announced /\ Listed /\ FoundFirst /\ OnlySignupPoisons
      /\ ListFollowsDht
  BY DEF ApiInv
<1>2. /\ stage' = stage /\ answer' = answer /\ nodes' = nodes /\ poisoned' = poisoned
      /\ running' = running /\ starts' = starts /\ values' = values /\ called' = called
      /\ mix' = mix
  OBVIOUS
<1>3. PICK s : s = Head(callbacks).request
  OBVIOUS
<1>4. callbacks \in Seq(Callback) /\ found \in [Requests -> {"waiting", "value", "nothing"}]
  BY <1>1 DEF ApiTypes
<1>5. /\ callbacks' \in Seq(Callback) /\ Head(callbacks) = callbacks[1]
      /\ 1 \in 1..Len(callbacks) /\ Head(callbacks) \in Callback
  BY <1>4, CallbackTaken
<1>6. s \in Requests
  BY <1>3, <1>5, CallbackFacts
<1>7. found' = [found EXCEPT ![s] = outcome]
  BY <1>3
<1>8. found' \in [Requests -> {"waiting", "value", "nothing"}]
  BY <1>4, <1>7
<1>9. \A r \in Requests : r # s => found'[r] = found[r]
  BY <1>4, <1>7
<1>10. found[s] = "waiting" /\ stage[s] >= 5
  BY <1>1, <1>3, <1>5 DEF AnsweredOnce
<1>11. ApiTypes'
  BY <1>1, <1>2, <1>5, <1>8 DEF ApiTypes, ProgramOf
<1>12. AnsweredOnce'
  <2>1. \A i \in 1..Len(callbacks') :
           i + 1 \in 1..Len(callbacks) /\ callbacks'[i] = callbacks[i + 1]
    BY <1>4, CallbackTaken
  <2>2. \A r \in Requests : found'[r] # "waiting" => stage[r] >= 5
    BY <1>1, <1>9, <1>10 DEF AnsweredOnce
  <2>3. ASSUME NEW i \in 1..Len(callbacks'), callbacks'[i].kind = "done"
        PROVE  /\ stage[callbacks'[i].request] >= 5
               /\ found'[callbacks'[i].request] = "waiting"
    <3>1. callbacks'[i] \in Callback
      BY <1>5, ElementOfSeq
    <3>2. callbacks'[i].request \in Requests
      BY <2>3, <3>1, CallbackFacts
    <3>3. i + 1 # 1
      OBVIOUS
    <3>4. callbacks'[i].request # s
      BY <1>1, <1>3, <1>5, <2>1, <2>3, <3>3 DEF AnsweredOnce
    <3>5. /\ stage[callbacks'[i].request] >= 5
          /\ found[callbacks'[i].request] = "waiting"
      BY <1>1, <2>1, <2>3 DEF AnsweredOnce
    <3> QED
      BY <1>9, <3>2, <3>4, <3>5
  <2>4. \A i, j \in 1..Len(callbacks') :
           callbacks'[i].kind = "done" /\ callbacks'[j].kind = "done" /\ i # j
              => callbacks'[i].request # callbacks'[j].request
    <3> SUFFICES ASSUME NEW i \in 1..Len(callbacks'), NEW j \in 1..Len(callbacks'),
                        callbacks'[i].kind = "done", callbacks'[j].kind = "done", i # j
        PROVE callbacks'[i].request # callbacks'[j].request
      OBVIOUS
    <3>1. i + 1 # j + 1
      OBVIOUS
    <3> QED
      BY <1>1, <2>1, <3>1 DEF AnsweredOnce
  <2> QED
    BY <1>2, <2>2, <2>3, <2>4 DEF AnsweredOnce
<1>13. Announced' /\ Listed'
  BY <1>1, <1>2 DEF Announced, Listed
<1>14. FoundFirst'
  BY <1>1, <1>2, FoundFirstTail
<1>15. \A r \in Requests : found[r] = "nothing" /\ answer[r] = "panic"
                              => found'[r] = "nothing" /\ answer'[r] = "panic"
  BY <1>2, <1>9, <1>10
<1>16. OnlySignupPoisons'
  BY <1>1, <1>2, <1>15, PoisonedSame
<1>17. \A kind, w : Queued(kind, w) /\ Head(callbacks) # [kind |-> kind, info |-> w]
                       => InQueue(callbacks', kind, w)
  BY <1>4, CallbackTaken
<1>18. \A w : /\ Queued("value", w) => InQueue(callbacks', "value", w)
              /\ Queued("expired", w) => InQueue(callbacks', "expired", w)
  <2>1. \A w : /\ Head(callbacks) # [kind |-> "value", info |-> w]
               /\ Head(callbacks) # [kind |-> "expired", info |-> w]
    OBVIOUS
  <2> QED
    BY <1>17, <2>1
<1>19. \A n \in Nodes : nodes[n] \in called.expired
                           => InQueue(callbacks', "expired", nodes[n])
  BY <1>1, <1>18 DEF ListFollowsDht
<1>20. \A n \in Nodes : \A w \in called.values \ called.expired :
          w.id = n /\ starts[n] = 1 => nodes[n] = w \/ InQueue(callbacks', "value", w)
  BY <1>1, <1>18 DEF ListFollowsDht
<1>21. ListFollowsDht'
  BY <1>2, <1>19, <1>20, ListAfter
<1> QED
  BY <1>11, <1>12, <1>13, <1>14, <1>16, <1>21 DEF ApiInv

\* The DHT thread runs a callback.
LEMMA runCallbackInv ==
    ASSUME ApiInv, run_callback, UNCHANGED mix
    PROVE  ApiInv'
<1>1. /\ callbacks # <<>> /\ callbacks' = Tail(callbacks)
      /\ UNCHANGED <<poisoned, running, starts, values, called>>
  BY DEF run_callback, networkVars
<1>2. CASE /\ Head(callbacks).kind = "value"
           /\ nodes' = Inserted(Head(callbacks).info)
           /\ UNCHANGED requestVars
  BY <1>1, <1>2, valueCallbackInv DEF requestVars
<1>3. CASE /\ Head(callbacks).kind = "expired"
           /\ nodes' = Removed(Head(callbacks).info)
           /\ UNCHANGED requestVars
  BY <1>1, <1>3, expiredCallbackInv DEF requestVars
<1>4. CASE /\ Head(callbacks).kind = "done"
           /\ \E outcome \in {"value", "nothing"} :
                 found' = [found EXCEPT ![Head(callbacks).request] = outcome]
           /\ UNCHANGED <<stage, answer, nodes>>
  BY <1>1, <1>4, doneCallbackInv
<1> QED
  BY <1>2, <1>3, <1>4 DEF run_callback

\* The threads start with no request begun, no node listed and no callback.
LEMMA ApiInvInit == Init => ApiInv
<1> SUFFICES ASSUME Init PROVE ApiInv
  OBVIOUS
<1>1. /\ mix \in Mixes /\ poisoned = {} /\ running = {} /\ values = {} /\ callbacks = <<>>
      /\ stage = [r \in Requests |-> 0] /\ answer = [r \in Requests |-> "none"]
      /\ found = [r \in Requests |-> "waiting"] /\ nodes = [n \in Nodes |-> NoInfo]
      /\ starts = [n \in Nodes |-> 0] /\ called = [values |-> {}, expired |-> {}]
  BY DEF Init
<1>2. called.values = {} /\ called.expired = {}
      /\ called \in [values : SUBSET Info, expired : SUBSET Info]
  BY <1>1
<1>3. <<>> \in Seq(Callback)
  OBVIOUS
<1>4. Len(callbacks) = 0
  BY <1>1
<1>5. \A r \in Requests : stage[r] <= Len(ProgramOf(r))
  <2>1. \A r \in Requests : mix[r] \in Kinds
    BY <1>1, ApiAssumption
  <2>2. \A r \in Requests : Len(ProgramOf(r)) \in Nat
    BY <2>1, RoutesGood DEF ProgramOf, GoodRoute
  <2>3. \A r \in Requests : stage[r] = 0
    BY <1>1
  <2> QED
    BY <2>2, <2>3
<1>6. /\ stage \in [Requests -> Nat] /\ answer \in [Requests -> {"none", "ok", "err", "panic"}]
      /\ found \in [Requests -> {"waiting", "value", "nothing"}]
  BY <1>1
<1>7. nodes \in [Nodes -> Info \cup {NoInfo}]
  BY <1>1
<1>8. starts \in [Nodes -> 0..MaxStarts]
  <2>1. 0 \in 0..MaxStarts
    BY ApiAssumption
  <2> QED
    BY <1>1, <2>1
<1>9. ApiTypes
  BY <1>1, <1>2, <1>3, <1>5, <1>6, <1>7, <1>8 DEF ApiTypes
<1>10. \A i \in 1..Len(callbacks) : FALSE
  BY <1>4
<1>11. AnsweredOnce
  BY <1>1, <1>10 DEF AnsweredOnce
<1>12. Announced
  BY <1>1, <1>2 DEF Announced
<1>13. Listed
  BY <1>1, <1>2 DEF Listed
<1>14. FoundFirst
  BY <1>10 DEF FoundFirst
<1>15. OnlySignupPoisons
  BY <1>1 DEF OnlySignupPoisons
<1>16. ListFollowsDht
  BY <1>2 DEF ListFollowsDht
<1> QED
  BY <1>9, <1>11, <1>12, <1>13, <1>14, <1>15, <1>16 DEF ApiInv

\* A stuttering step.
LEMMA ApiStutter ==
    ASSUME ApiInv, UNCHANGED vars
    PROVE  ApiInv'
<1>1. /\ mix' = mix /\ stage' = stage /\ answer' = answer /\ found' = found
      /\ poisoned' = poisoned /\ nodes' = nodes /\ running' = running /\ starts' = starts
      /\ values' = values /\ callbacks' = callbacks /\ called' = called
  BY DEF vars, requestVars, networkVars
<1>2. ApiTypes /\ AnsweredOnce /\ Announced /\ Listed /\ FoundFirst /\ OnlySignupPoisons
      /\ ListFollowsDht
  BY DEF ApiInv
<1>3. ApiTypes'
  BY <1>1, <1>2 DEF ApiTypes, ProgramOf
<1>4. AnsweredOnce'
  BY <1>1, <1>2, AnsweredSame
<1>5. Announced' /\ Listed' /\ FoundFirst' /\ ListFollowsDht'
  BY <1>1, <1>2, ListSame
<1>6. OnlySignupPoisons'
  BY <1>1, <1>2, PoisonedSame
<1> QED
  BY <1>3, <1>4, <1>5, <1>6 DEF ApiInv

\* Every step keeps the invariant.
LEMMA ApiInvNext == ApiInv /\ [Next]_vars => ApiInv'
<1> SUFFICES ASSUME ApiInv, [Next]_vars PROVE ApiInv'
  OBVIOUS
<1>1. CASE UNCHANGED vars
  BY <1>1, ApiStutter
<1>2. ASSUME NEW r \in Requests, advance(r), UNCHANGED mix PROVE ApiInv'
  BY <1>2, advanceInv
<1>3. ASSUME NEW r \in Requests, panic(r), UNCHANGED mix PROVE ApiInv'
  BY <1>3, panicInv
<1>4. ASSUME NEW r \in Requests, respond(r), UNCHANGED mix PROVE ApiInv'
  BY <1>4, respondInv
<1>5. ASSUME NEW n \in Nodes, start_node(n), UNCHANGED mix PROVE ApiInv'
  BY <1>5, startInv
<1>6. ASSUME NEW n \in Nodes, stop_node(n), UNCHANGED mix PROVE ApiInv'
  BY <1>6, stopInv
<1>7. ASSUME NEW v \in values, detect(v), UNCHANGED mix PROVE ApiInv'
  BY <1>7, detectInv
<1>8. ASSUME NEW v \in values, expire(v), UNCHANGED mix PROVE ApiInv'
  BY <1>8, expireInv
<1>9. ASSUME run_callback, UNCHANGED mix PROVE ApiInv'
  BY <1>9, runCallbackInv
<1> QED
  BY <1>1, <1>2, <1>3, <1>4, <1>5, <1>6, <1>7, <1>8, <1>9 DEF Next

-----------------------------------------------------------------------------
(* The threads: theorems.                                                    *)

\* The invariant holds in every state of every behaviour.
LEMMA ApiInvariant == Spec => []ApiInv
  BY ApiInvInit, ApiInvNext, PTL DEF Spec

\* Every variable stays in its range: a request never goes past its route, and
\* what is listed for a node is an announcement of that node.
THEOREM ApiTypeCorrect == Spec => []TypeOK
<1>1. ApiInv => TypeOK
  <2> SUFFICES ASSUME ApiInv PROVE TypeOK
    OBVIOUS
  <2>1. ApiTypes /\ Listed
    BY DEF ApiInv
  <2>2. \A r \in Requests : stage[r] \in 0..Len(ProgramOf(r))
    <3>1. \A r \in Requests : stage[r] \in Nat /\ stage[r] <= Len(ProgramOf(r))
      BY <2>1 DEF ApiTypes
    <3>2. \A r \in Requests : Len(ProgramOf(r)) \in Nat
      BY <2>1, RequestFacts
    <3> QED
      BY <3>1, <3>2
  <2>3. \A n \in Nodes : nodes[n] = NoInfo \/ (nodes[n] \in Info /\ nodes[n].id = n)
    BY <2>1 DEF ApiTypes, Listed
  <2>4. called.values \subseteq Info /\ called.expired \subseteq called.values
    BY <2>1 DEF ApiTypes, Listed
  <2> QED
    BY <2>1, <2>2, <2>3, <2>4 DEF TypeOK, ApiTypes
<1> QED
  BY <1>1, ApiInvariant, PTL

\* The mutexes of the EosNode and of the map of nodes are never poisoned, that
\* of the handler only by the unwrap of signup_keygen or signup_sign.
THEOREM PoisoningCorrect == Spec => []OnlySignupPoisons
<1>1. ApiInv => OnlySignupPoisons
  BY DEF ApiInv
<1> QED
  BY <1>1, ApiInvariant, PTL

\* value_cb keeps the map of nodes to what the DHT has called back with, for
\* every number of nodes, of announcements and of callbacks waiting.
THEOREM ListCorrect == Spec => []ListFollowsDht
<1>1. ApiInv => ListFollowsDht
  BY DEF ApiInv
<1> QED
  BY <1>1, ApiInvariant, PTL

-----------------------------------------------------------------------------
(* The threads: waiting for one another.                                     *)

\* Whoever waits for the DHT has its answer queued.
Asked ==
    \A r \in Requests : Now(r).does = "wait" /\ found[r] = "waiting" =>
        \E i \in 1..Len(callbacks) : callbacks[i] = [kind |-> "done", request |-> r]

\* The guards of the steps of Progress(r).
CanProgress(r) ==
    \/ Ready(r) /\ More(r) /\ Wanted(r) \cap (Held \cup poisoned) = {}
    \/ Active(r) /\ (Unwraps(r) \/ (Ready(r) /\ More(r) /\ Wanted(r) \cap poisoned # {}))
    \/ mix[r] # "bitcoin" /\ Ready(r) /\ ~More(r)

\* The guard of run_callback: an announcement needs the map of nodes.
CanCallBack ==
    /\ callbacks # <<>>
    /\ Head(callbacks).kind \in {"value", "expired"} => "nodes" \notin Held

\* As long as a request other than one of bitcoin-cli is not answered, a thread
\* can go on.
NoDeadlock ==
    (\E r \in Requests : Active(r) /\ mix[r] # "bitcoin")
        => CanCallBack \/ \E r \in Requests : CanProgress(r)

\* What a request holds while it waits or wants more.
LEMMA LockFacts ==
    ASSUME ApiTypes, NEW r \in Requests
    PROVE  /\ Now(r).does = "wait" => Now(r).holds = {"handler"}
           /\ "nodes" \in Now(r).holds => Now(r).holds = Locks
           /\ mix[r] = "bitcoin" /\ Now(r).holds # {} => More(r) /\ Now(r).holds = {"handler"}
           /\ More(r) => Wanted(r) \subseteq Locks \ Holds(r)
           /\ More(r) /\ ProgramOf(r)[stage[r] + 1].does = "wait" => Now(r).does = "ask"
<1>1. GoodRoute(mix[r], ProgramOf(r))
  <2>1. mix[r] \in Kinds
    BY ApiAssumption DEF ApiTypes
  <2> QED
    BY <2>1, RoutesGood DEF ProgramOf
<1>2. stage[r] \in Nat /\ stage[r] <= Len(ProgramOf(r)) /\ Len(ProgramOf(r)) \in Nat
  BY <1>1 DEF ApiTypes, GoodRoute
<1>3. ASSUME More(r)
      PROVE  /\ Wanted(r) \subseteq Locks \ Holds(r)
             /\ ProgramOf(r)[stage[r] + 1].does = "wait" => Now(r).does = "ask"
  <2>1. stage[r] + 1 \in 1..Len(ProgramOf(r))
    BY <1>2, <1>3 DEF More
  <2>2. GoodStage(mix[r], stage[r] + 1, ProgramOf(r)[stage[r] + 1])
    BY <1>1, <2>1 DEF GoodRoute
  <2>3. ASSUME ProgramOf(r)[stage[r] + 1].does = "wait"
        PROVE  Now(r).does = "ask"
    <3>1. stage[r] + 1 = 5 /\ ProgramOf(r)[4].does = "ask"
      BY <1>1, <2>1, <2>2, <2>3 DEF GoodRoute, GoodStage
    <3>2. stage[r] = 4
      BY <1>2, <3>1
    <3> QED
      BY <3>1, <3>2 DEF Now
  <2> QED
    BY <2>2, <2>3 DEF GoodStage, Wanted
<1>4. CASE stage[r] = 0
  <2>1. Now(r) = Stage({}, "")
    BY <1>4 DEF Now
  <2>2. Stage({}, "").holds = {} /\ Stage({}, "").does = ""
    BY DEF Stage
  <2> QED
    BY <1>3, <2>1, <2>2
<1>5. CASE stage[r] # 0
  <2>1. stage[r] \in 1..Len(ProgramOf(r)) /\ Now(r) = ProgramOf(r)[stage[r]]
    BY <1>2, <1>5 DEF Now
  <2>2. GoodStage(mix[r], stage[r], Now(r))
    BY <1>1, <2>1 DEF GoodRoute
  <2>3. ASSUME mix[r] = "bitcoin", Now(r).holds # {}
        PROVE  More(r) /\ Now(r).holds = {"handler"}
    <3>1. stage[r] = 1 /\ Now(r).holds = {"handler"}
      BY <2>2, <2>3 DEF GoodStage
    <3>2. 1 < Len(ProgramOf(r))
      BY <1>1, <2>3 DEF GoodRoute
    <3> QED
      BY <3>1, <3>2 DEF More
  <2> QED
    BY <1>3, <2>2, <2>3 DEF GoodStage
<1> QED
  BY <1>4, <1>5

\* A request that a step does not move is at the stage that it was at.
LEMMA NowSame ==
    ASSUME NEW r \in Requests, UNCHANGED mix, stage'[r] = stage[r]
    PROVE  Now(r)' = Now(r)
<1>1. mix' = mix
  OBVIOUS
<1> QED
  BY <1>1 DEF Now, ProgramOf

\* What is queued stays queued when a callback is added.
LEMMA AskedAppend ==
    ASSUME ApiTypes, Asked, NEW c \in Callback, callbacks' = Append(callbacks, c),
           NEW r \in Requests, Now(r).does = "wait", found[r] = "waiting"
    PROVE  \E i \in 1..Len(callbacks') : callbacks'[i] = [kind |-> "done", request |-> r]
<1>1. callbacks \in Seq(Callback)
  BY DEF ApiTypes
<1>2. \A i \in 1..Len(callbacks) : i \in 1..Len(callbacks') /\ callbacks'[i] = callbacks[i]
  BY <1>1, CallbackAdded
<1>3. PICK i \in 1..Len(callbacks) : callbacks[i] = [kind |-> "done", request |-> r]
  BY DEF Asked
<1> QED
  BY <1>2, <1>3

\* And when one is taken, unless it is that one.
LEMMA AskedTail ==
    ASSUME ApiTypes, Asked, callbacks # <<>>, callbacks' = Tail(callbacks),
           NEW r \in Requests, Now(r).does = "wait", found[r] = "waiting",
           Head(callbacks) # [kind |-> "done", request |-> r]
    PROVE  \E i \in 1..Len(callbacks') : callbacks'[i] = [kind |-> "done", request |-> r]
<1>1. callbacks \in Seq(Callback)
  BY DEF ApiTypes
<1>2. /\ Head(callbacks) = callbacks[1]
      /\ \A i \in 1..Len(callbacks) : i # 1 =>
            i - 1 \in 1..Len(callbacks') /\ callbacks'[i - 1] = callbacks[i]
  BY <1>1, CallbackTaken
<1>3. PICK i \in 1..Len(callbacks) : callbacks[i] = [kind |-> "done", request |-> r]
  BY DEF Asked
<1>4. i # 1
  BY <1>2, <1>3
<1> QED
  BY <1>2, <1>3, <1>4

\* A request goes on to wait only from the stage in which it asks.
LEMMA advanceAsked ==
    ASSUME ApiInv, Asked, NEW r \in Requests, advance(r), UNCHANGED mix
    PROVE  Asked'
<1>1. ApiTypes
  BY DEF ApiInv
<1>2. /\ stage' = [stage EXCEPT ![r] = @ + 1] /\ found' = found /\ mix' = mix
      /\ Now(r).does = "ask" => callbacks' = Append(callbacks, [kind |-> "done", request |-> r])
      /\ Now(r).does # "ask" => callbacks' = callbacks
      /\ More(r)
  BY DEF advance
<1>3. stage \in [Requests -> Nat] /\ callbacks \in Seq(Callback)
  BY <1>1 DEF ApiTypes
<1>4. [kind |-> "done", request |-> r] \in Callback
  BY CallbackFacts
<1> SUFFICES ASSUME NEW s \in Requests, Now(s)'.does = "wait", found[s] = "waiting"
    PROVE \E i \in 1..Len(callbacks') : callbacks'[i] = [kind |-> "done", request |-> s]
  BY <1>2 DEF Asked
<1>5. CASE s = r
  <2>1. stage'[r] = stage[r] + 1 /\ stage'[r] # 0
    BY <1>2, <1>3
  <2>2. Now(r)' = ProgramOf(r)[stage[r] + 1]
    BY <1>2, <2>1 DEF Now, ProgramOf
  <2>3. Now(r).does = "ask"
    BY <1>1, <1>2, <1>5, <2>2, LockFacts
  <2>4. callbacks' = Append(callbacks, [kind |-> "done", request |-> r])
    BY <1>2, <2>3
  <2>5. /\ Len(callbacks) \in Nat /\ Len(callbacks') = Len(callbacks) + 1
        /\ callbacks'[Len(callbacks) + 1] = [kind |-> "done", request |-> r]
    BY <1>3, <1>4, <2>4, CallbackAdded
  <2>6. Len(callbacks) + 1 \in 1..Len(callbacks')
    BY <2>5
  <2> QED
    BY <1>5, <2>5, <2>6
<1>6. CASE s # r
  <2>1. stage'[s] = stage[s]
    BY <1>2, <1>3, <1>6
  <2>2. Now(s)' = Now(s)
    BY <2>1, NowSame
  <2>3. Now(s).does = "wait"
    BY <2>2
  <2>4. CASE Now(r).does = "ask"
    BY <1>1, <1>2, <1>4, <2>3, <2>4, AskedAppend
  <2>5. CASE Now(r).does # "ask"
    BY <1>2, <2>3, <2>5 DEF Asked
  <2> QED
    BY <2>4, <2>5
<1> QED
  BY <1>5, <1>6

\* The answer of the DHT leaves the queue when it is given.
LEMMA runCallbackAsked ==
    ASSUME ApiInv, Asked, run_callback, UNCHANGED mix
    PROVE  Asked'
<1>1. ApiTypes
  BY DEF ApiInv
<1>2. callbacks # <<>> /\ callbacks' = Tail(callbacks)
  BY DEF run_callback
<1>3. stage' = stage
  BY DEF run_callback, requestVars
<1>4. callbacks \in Seq(Callback) /\ found \in [Requests -> {"waiting", "value", "nothing"}]
  BY <1>1 DEF ApiTypes
<1> SUFFICES ASSUME NEW s \in Requests, Now(s)'.does = "wait", found'[s] = "waiting"
    PROVE \E i \in 1..Len(callbacks') : callbacks'[i] = [kind |-> "done", request |-> s]
  BY DEF Asked
<1>5. Now(s)' = Now(s)
  BY <1>3, NowSame
<1>6. Now(s).does = "wait"
  BY <1>5
<1>7. CASE Head(callbacks).kind \in {"value", "expired"} /\ found' = found
  <2>1. Head(callbacks) # [kind |-> "done", request |-> s]
    BY <1>7
  <2> QED
    BY <1>1, <1>2, <1>6, <1>7, <2>1, AskedTail
<1>8. CASE \E outcome \in {"value", "nothing"} :
              found' = [found EXCEPT ![Head(callbacks).request] = outcome]
  <2>1. PICK outcome \in {"value", "nothing"} :
           found' = [found EXCEPT ![Head(callbacks).request] = outcome]
    BY <1>8
  <2>2. Head(callbacks).request # s
    BY <1>4, <2>1
  <2>3. found[s] = "waiting"
    BY <1>4, <2>1, <2>2
  <2>4. Head(callbacks) # [kind |-> "done", request |-> s]
    BY <2>2
  <2> QED
    BY <1>1, <1>2, <1>6, <2>3, <2>4, AskedTail
<1> QED
  BY <1>7, <1>8 DEF run_callback, requestVars

\* Every step keeps the answers queued.
LEMMA AskedNext == ApiInv /\ Asked /\ [Next]_vars => Asked'
<1> SUFFICES ASSUME ApiInv, Asked, [Next]_vars PROVE Asked'
  OBVIOUS
<1>1. ASSUME UNCHANGED <<mix, stage, found, callbacks>> PROVE Asked'
  <2>1. mix' = mix /\ stage' = stage /\ found' = found /\ callbacks' = callbacks
    BY <1>1
  <2> QED
    BY <2>1 DEF Asked, Now, ProgramOf
<1>2. ASSUME UNCHANGED <<mix, stage, found>>, NEW c \in Callback, callbacks' = Append(callbacks, c)
      PROVE  Asked'
  <2>1. \A r \in Requests : Now(r)' = Now(r)
    BY <1>2, NowSame
  <2>2. \A r \in Requests : Now(r).does = "wait" /\ found[r] = "waiting" =>
           \E i \in 1..Len(callbacks') : callbacks'[i] = [kind |-> "done", request |-> r]
    BY <1>2, AskedAppend DEF ApiInv
  <2>3. found' = found
    BY <1>2
  <2> QED
    BY <2>1, <2>2, <2>3 DEF Asked
<1>3. CASE UNCHANGED vars
  BY <1>1, <1>3 DEF vars, requestVars
<1>4. ASSUME NEW r \in Requests, advance(r), UNCHANGED mix PROVE Asked'
  BY <1>4, advanceAsked
<1>5. ASSUME NEW r \in Requests, panic(r), UNCHANGED mix PROVE Asked'
  BY <1>1, <1>5 DEF panic, Panic
<1>6. ASSUME NEW r \in Requests, respond(r), UNCHANGED mix PROVE Asked'
  BY <1>1, <1>6 DEF respond
<1>7. ASSUME NEW n \in Nodes, start_node(n), UNCHANGED mix PROVE Asked'
  BY <1>1, <1>7 DEF start_node, requestVars
<1>8. ASSUME NEW n \in Nodes, stop_node(n), UNCHANGED mix PROVE Asked'
  BY <1>1, <1>8 DEF stop_node, requestVars
<1>9. ASSUME NEW v \in values, detect(v), UNCHANGED mix PROVE Asked'
  <2>1. [kind |-> "value", info |-> v] \in Callback
    BY CallbackFacts DEF ApiInv, ApiTypes
  <2> QED
    BY <1>2, <1>9, <2>1 DEF detect, requestVars
<1>10. ASSUME NEW v \in values, expire(v), UNCHANGED mix PROVE Asked'
  <2>1. [kind |-> "expired", info |-> v] \in Callback
    BY CallbackFacts DEF ApiInv, ApiTypes
  <2> QED
    BY <1>1, <1>2, <1>10, <2>1 DEF expire, requestVars
<1>11. ASSUME run_callback, UNCHANGED mix PROVE Asked'
  BY <1>11, runCallbackAsked
<1> QED
  BY <1>3, <1>4, <1>5, <1>6, <1>7, <1>8, <1>9, <1>10, <1>11 DEF Next

\* A request can go on if the mutexes it wants are free and, unless it waits
\* for the DHT, no callback is needed.
LEMMA CanGo ==
    ASSUME ApiInv, Asked, NEW r \in Requests, Active(r),
           callbacks = <<>> \/ Now(r).does # "wait",
           More(r) => Wanted(r) \cap Held = {},
           ~More(r) => mix[r] # "bitcoin"
    PROVE  CanProgress(r)
<1>1. CASE Unwraps(r)
  BY <1>1 DEF CanProgress
<1>2. CASE ~Unwraps(r)
  <2>1. Now(r).does = "wait" => found[r] # "waiting"
    <3> SUFFICES ASSUME Now(r).does = "wait", found[r] = "waiting" PROVE FALSE
      OBVIOUS
    <3>1. Len(callbacks) = 0
      OBVIOUS
    <3>2. \E i \in 1..Len(callbacks) : TRUE
      BY DEF Asked
    <3> QED
      BY <3>1, <3>2
  <2>2. Ready(r)
    BY <1>2, <2>1 DEF Ready
  <2>3. CASE More(r) /\ Wanted(r) \cap poisoned = {}
    BY <2>2, <2>3 DEF CanProgress
  <2>4. CASE More(r) /\ Wanted(r) \cap poisoned # {}
    BY <2>2, <2>4 DEF CanProgress
  <2>5. CASE ~More(r)
    BY <2>2, <2>5 DEF CanProgress
  <2> QED
    BY <2>3, <2>4, <2>5
<1> QED
  BY <1>1, <1>2

\* The mutexes are locked in one order: who holds the last that anybody holds
\* finds what it wants free.
LEMMA SomebodyGoes == ApiInv /\ Asked => NoDeadlock
<1> SUFFICES ASSUME ApiInv, Asked, NEW r \in Requests, Active(r), mix[r] # "bitcoin",
                    ~CanCallBack
             PROVE  \E s \in Requests : CanProgress(s)
  BY DEF NoDeadlock
<1>1. ApiTypes
  BY DEF ApiInv
<1>2. Locks = {"handler", "eosnode", "nodes"}
  BY DEF Locks
<1>3. \A s \in Requests : Holds(s) # {} => Active(s) /\ Holds(s) = Now(s).holds
  BY DEF Holds
<1>4. \A l : l \in Held <=> \E s \in Requests : l \in Holds(s)
  BY DEF Held
<1>5. \A s \in Requests : More(s) => Wanted(s) \subseteq Locks \ Holds(s)
  BY <1>1, LockFacts
<1>6. CASE "nodes" \in Held
  <2>1. PICK s \in Requests : "nodes" \in Holds(s)
    BY <1>4, <1>6
  <2>2. Active(s) /\ Holds(s) = Now(s).holds
    BY <1>3, <2>1
  <2>3. Holds(s) = Locks
    BY <1>1, <2>1, <2>2, LockFacts
  <2>4. Now(s).does # "wait" /\ mix[s] # "bitcoin"
    <3>1. "nodes" \in Now(s).holds
      BY <2>1, <2>2
    <3>2. Now(s).holds # {"handler"} /\ Now(s).holds # {}
      BY <3>1
    <3>3. Now(s).does # "wait"
      BY <1>1, <3>2, LockFacts
    <3>4. mix[s] # "bitcoin"
      BY <1>1, <3>2, LockFacts
    <3> QED
      BY <3>3, <3>4
  <2>5. More(s) => Wanted(s) \cap Held = {}
    BY <1>5, <2>3
  <2> QED
    BY <2>2, <2>4, <2>5, CanGo
<1>7. CASE "nodes" \notin Held
  <2>1. callbacks = <<>>
    BY <1>7 DEF CanCallBack
  <2>2. CASE "eosnode" \in Held
    <3>1. PICK s \in Requests : "eosnode" \in Holds(s)
      BY <1>4, <2>2
    <3>2. Active(s) /\ Holds(s) = Now(s).holds
      BY <1>3, <3>1
    <3>3. More(s) => "handler" \in Holds(s)
      BY <1>1, <3>1, <3>2, RequestFacts
    <3>4. mix[s] # "bitcoin"
      BY <1>1, <3>1, <3>2, LockFacts
    <3>5. More(s) => Wanted(s) \subseteq {"nodes"}
      BY <1>2, <1>5, <3>1, <3>3
    <3>6. More(s) => Wanted(s) \cap Held = {}
      BY <1>7, <3>5
    <3> QED
      BY <2>1, <3>2, <3>4, <3>6, CanGo
  <2>3. CASE "eosnode" \notin Held /\ "handler" \in Held
    <3>1. PICK s \in Requests : "handler" \in Holds(s)
      BY <1>4, <2>3
    <3>2. Active(s) /\ Holds(s) = Now(s).holds
      BY <1>3, <3>1
    <3>3. ~More(s) => mix[s] # "bitcoin"
      BY <1>1, <3>1, <3>2, LockFacts
    <3>4. More(s) => Wanted(s) \subseteq {"eosnode", "nodes"}
      BY <1>2, <1>5, <3>1
    <3>5. More(s) => Wanted(s) \cap Held = {}
      BY <1>7, <2>3, <3>4
    <3> QED
      BY <2>1, <3>2, <3>3, <3>5, CanGo
  <2>4. CASE "eosnode" \notin Held /\ "handler" \notin Held
    <3>1. More(r) => Wanted(r) \cap Held = {}
      BY <1>2, <1>5, <1>7, <2>4
    <3> QED
      BY <2>1, <3>1, CanGo
  <2> QED
    BY <2>2, <2>3, <2>4
<1> QED
  BY <1>6, <1>7

\* Workers, chat thread and callbacks never all wait for one another: as long as
\* a request that needs no bitcoin-cli is open, one of the threads can go on.
\* This is the part of RequestsAnswered that does not depend on fairness.
THEOREM DeadlockFree == Spec => []NoDeadlock
<1>1. Init => Asked
  <2> SUFFICES ASSUME Init, NEW r \in Requests PROVE Now(r).does # "wait"
    BY DEF Asked
  <2>1. stage[r] = 0
    BY DEF Init
  <2>2. Now(r) = Stage({}, "")
    BY <2>1 DEF Now
  <2> QED
    BY <2>2, StagesDo
<1>2. Spec => []Asked
  BY <1>1, ApiInvInit, ApiInvNext, AskedNext, PTL DEF Spec
<1> QED
  BY <1>2, ApiInvariant, SomebodyGoes, PTL
=============================================================================
