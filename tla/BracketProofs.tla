----------------------------- MODULE BracketProofs -----------------------------
(***************************************************************************)
(* Proofs about the dispatch bracket, for every value of Bracket's          *)
(* constants.                                                               *)
(***************************************************************************)
EXTENDS Bracket, SequenceTheorems, WellFoundedInduction, TLAPS

-------------------------------------------------------------------------------
(* Induction and recursion on the naturals, with sets for predicates and     *)
(* functions for operators.                                                  *)

Less == {p \in Nat \X Nat : p[1] < p[2]}

\* Every set of naturals that is not empty has a least element.
LEMMA LeastNumber ==
    ASSUME NEW T \in SUBSET Nat, T # {}
    PROVE  \E m \in T : \A k \in T : m <= k
<1>1. IsWellFoundedOn(Less, Nat)
  <2>1. IsWellFoundedOn(OpToRel(<, Nat), Nat)
    BY NatLessThanWellFounded
  <2>2. OpToRel(<, Nat) = Less
    BY DEF OpToRel, Less
  <2>. QED  BY <2>1, <2>2
<1>2. \E x \in T : \A y \in T : <<y, x>> \notin Less
  BY <1>1, WFMin
<1>3. PICK m \in T : \A k \in T : <<k, m>> \notin Less
  BY <1>2
<1>4. ASSUME NEW k \in T PROVE m <= k
  <2>1. m \in Nat /\ k \in Nat
    OBVIOUS
  <2>2. ~(k < m)
    BY <1>3, <2>1 DEF Less
  <2>. QED  BY <2>1, <2>2
<1>. QED  BY <1>4

\* A set that has 0, and with a number its successor, has every number.
LEMMA SetInduction ==
    ASSUME NEW T, 0 \in T, \A n \in Nat : n \in T => n + 1 \in T
    PROVE  Nat \subseteq T
<1>. SUFFICES ASSUME Nat \ T # {} PROVE FALSE
  OBVIOUS
<1>1. PICK m \in Nat \ T : \A k \in Nat \ T : m <= k
  BY LeastNumber
<1>2. m - 1 \in Nat /\ m - 1 < m /\ m - 1 + 1 = m
  OBVIOUS
<1>3. m - 1 \in T
  BY <1>1, <1>2
<1>. QED  BY <1>2, <1>3

\* f takes the step again and again.
Repeats(f, L, base, step) ==
    f[0] = base /\ \A n \in 1..L : f[n] = step[<<f[n - 1], n>>]

\* A step that stays in a set can be taken any number of times from a member.
LEMMA Recursion ==
    ASSUME NEW L \in Nat, NEW S, NEW base \in S, NEW step \in [S \X (1..L) -> S]
    PROVE  \E f \in [0..L -> S] : Repeats(f, L, base, step)
<1>. DEFINE Upto(k, f) == f[0] = base /\ \A n \in 1..k : f[n] = step[<<f[n - 1], n>>]
            T == {k \in Nat : k <= L => \E f \in [0..k -> S] : Upto(k, f)}
<1>1. 0 \in T
  <2>1. [n \in 0..0 |-> base] \in [0..0 -> S] /\ Upto(0, [n \in 0..0 |-> base])
    OBVIOUS
  <2>. QED  BY <2>1
<1>2. ASSUME NEW k \in Nat, k \in T PROVE k + 1 \in T
  <2>. SUFFICES ASSUME k + 1 <= L PROVE \E f \in [0..k + 1 -> S] : Upto(k + 1, f)
    OBVIOUS
  <2>1. PICK f \in [0..k -> S] : Upto(k, f)
    BY <1>2
  <2>2. f[k] \in S /\ k + 1 \in 1..L
    OBVIOUS
  <2>. DEFINE g == [n \in 0..k + 1 |-> IF n = k + 1 THEN step[<<f[k], k + 1>>] ELSE f[n]]
  <2>3. g \in [0..k + 1 -> S]
    BY <2>2
  <2>4. g[0] = base
    BY <2>1
  <2>5. ASSUME NEW n \in 1..k + 1 PROVE g[n] = step[<<g[n - 1], n>>]
    <3>1. CASE n = k + 1
      <4>1. n - 1 = k /\ k # k + 1 /\ k \in 0..k + 1
        BY <3>1
      <4>2. g[n - 1] = f[k] /\ g[n] = step[<<f[k], k + 1>>]
        BY <3>1, <4>1
      <4>. QED  BY <3>1, <4>2
    <3>2. CASE n # k + 1
      BY <2>1, <3>2
    <3>. QED  BY <3>1, <3>2
  <2>. QED  BY <2>3, <2>4, <2>5
<1>. HIDE DEF T
<1>3. L \in T
  BY <1>1, <1>2, SetInduction
<1>. QED  BY <1>3 DEF T, Repeats

-------------------------------------------------------------------------------
(* The sequences the queues are changed by.                                  *)

\* What a longer sequence has at each place.
LEMMA AppendAt ==
    ASSUME NEW S, NEW s \in Seq(S), NEW x \in S
    PROVE  /\ DOMAIN s = 1..Len(s) /\ Len(s) \in Nat
           /\ DOMAIN Append(s, x) = 1..(Len(s) + 1) /\ Len(Append(s, x)) = Len(s) + 1
           /\ Append(s, x)[Len(s) + 1] = x
           /\ \A i \in 1..Len(s) : Append(s, x)[i] = s[i]
           /\ Append(s, x) \in Seq(S)
  OBVIOUS

\* A sequence without its first entry.
LEMMA TailAt ==
    ASSUME NEW S, NEW s \in Seq(S), s # <<>>
    PROVE  /\ DOMAIN s = 1..Len(s) /\ Len(s) \in Nat \ {0} /\ Head(s) = s[1]
           /\ s[1] \in S
           /\ Tail(s) \in Seq(S) /\ DOMAIN Tail(s) = 1..(Len(s) - 1)
           /\ Len(Tail(s)) = Len(s) - 1
           /\ \A i \in 1..(Len(s) - 1) : Tail(s)[i] = s[i + 1]
  OBVIOUS

\* A sequence with an entry before it.
LEMMA ConsAt ==
    ASSUME NEW S, NEW s \in Seq(S), NEW x \in S
    PROVE  /\ DOMAIN s = 1..Len(s) /\ Len(s) \in Nat
           /\ <<x>> \o s \in Seq(S) /\ DOMAIN (<<x>> \o s) = 1..(Len(s) + 1)
           /\ (<<x>> \o s)[1] = x
           /\ \A i \in 2..(Len(s) + 1) : (<<x>> \o s)[i] = s[i - 1]
  OBVIOUS

\* Two sequences, one behind the other.
LEMMA ConcatAt ==
    ASSUME NEW S, NEW s \in Seq(S), NEW r \in Seq(S)
    PROVE  /\ DOMAIN s = 1..Len(s) /\ DOMAIN r = 1..Len(r) /\ Len(s) \in Nat /\ Len(r) \in Nat
           /\ s \o r \in Seq(S) /\ DOMAIN (s \o r) = 1..(Len(s) + Len(r))
           /\ \A i \in 1..Len(s) : (s \o r)[i] = s[i]
           /\ \A i \in 1..Len(r) : (s \o r)[Len(s) + i] = r[i]
           /\ \A i \in (Len(s) + 1)..(Len(s) + Len(r)) :
                i - Len(s) \in 1..Len(r) /\ (s \o r)[i] = r[i - Len(s)]
  OBVIOUS

-------------------------------------------------------------------------------
(* The copies of a message.                                                  *)

\* s has a copy for each branch up to n that to names, the last branch first.
CopiesUpTo(s, kind, to, m, n) ==
    /\ s \in Seq(Message)
    /\ \A i \in DOMAIN s : \E b \in to : b <= n /\ s[i] = Directed(kind, b, m, None)
    /\ \A i, j \in DOMAIN s : i < j => s[j].dest < s[i].dest
    /\ \A b \in to : b <= n => \E i \in DOMAIN s : s[i] = Directed(kind, b, m, None)

\* The copy for the next branch, if it gets one.
NextCopy(s, kind, to, m, n) ==
    IF n \in to THEN <<Directed(kind, n, m, None)>> \o s ELSE s

LEMMA Directs ==
    ASSUME NEW kind \in {"data", "signal", "answer", "start", "end"}, NEW dest \in Inside,
           NEW m, m.id \in Ids, m.ts \in Stamps, NEW from \in {None} \cup Branch
    PROVE  Directed(kind, dest, m, from) \in Message
  BY DEF Directed, Message

LEMMA NextCopyFits ==
    ASSUME NEW kind \in {"data", "signal"}, NEW to \in SUBSET Branch,
           NEW m, m.id \in Ids, m.ts \in Stamps, NEW n \in 1..Branches,
           NEW s, CopiesUpTo(s, kind, to, m, n - 1)
    PROVE  CopiesUpTo(NextCopy(s, kind, to, m, n), kind, to, m, n)
<1>. DEFINE D(b) == Directed(kind, b, m, None)
<1>1. \A b \in Branch : b \in Inside /\ b \in Int /\ D(b) \in Message /\ D(b).dest = b
  <2>1. \A b \in Branch : b \in Inside /\ b \in Int
    BY BracketAssumption DEF Branch, Inside, Receiver
  <2>2. \A b \in Branch : D(b) \in Message
    BY <2>1, Directs
  <2>. QED  BY <2>1, <2>2 DEF Directed
<1>2. s \in Seq(Message) /\ DOMAIN s = 1..Len(s) /\ Len(s) \in Nat
  BY DEF CopiesUpTo
<1>3. CASE n \in to
  <2>. DEFINE r == <<D(n)>> \o s
  <2>1. /\ r \in Seq(Message) /\ DOMAIN r = 1..(Len(s) + 1) /\ r[1] = D(n)
        /\ \A i \in 2..(Len(s) + 1) : r[i] = s[i - 1] /\ i - 1 \in DOMAIN s
    <3>1. D(n) \in Message
      BY <1>1, <1>3
    <3>2. \A i \in 2..(Len(s) + 1) : i - 1 \in DOMAIN s
      BY <1>2
    <3>. HIDE DEF D
    <3>. QED  BY <3>1, <3>2, <1>2, ConsAt
  <2>. HIDE DEF r, D
  <2>2. \A i \in DOMAIN r : i = 1 \/ i \in 2..(Len(s) + 1)
    BY <2>1, <1>2
  <2>3. \A i \in DOMAIN r : \E b \in to : b <= n /\ r[i] = D(b)
    <3>1. \A i \in 2..(Len(s) + 1) : \E b \in to : b <= n - 1 /\ r[i] = D(b)
      BY <2>1 DEF CopiesUpTo, D
    <3>2. \A b \in to : b <= n - 1 => b <= n
      BY <1>1
    <3>3. \E b \in to : b <= n /\ r[1] = D(b)
      BY <2>1, <1>3
    <3>. QED  BY <3>1, <3>2, <3>3, <2>2
  <2>4. \A i, j \in DOMAIN r : i < j => r[j].dest < r[i].dest
    <3>. SUFFICES ASSUME NEW i \in DOMAIN r, NEW j \in DOMAIN r, i < j
                  PROVE  r[j].dest < r[i].dest
      OBVIOUS
    <3>1. j \in 2..(Len(s) + 1)
      BY <2>1, <1>2
    <3>2. CASE i = 1
      <4>1. PICK b \in to : b <= n - 1 /\ r[j] = D(b)
        BY <2>1, <3>1 DEF CopiesUpTo, D
      <4>2. r[j].dest = b /\ r[i].dest = n
        <5>1. n \in Branch /\ b \in Branch
          BY <1>3
        <5>. QED  BY <5>1, <4>1, <3>2, <2>1, <1>1
      <4>. QED  BY <4>1, <4>2, <1>1
    <3>3. CASE i \in 2..(Len(s) + 1)
      <4>1. i - 1 < j - 1
        BY <3>1, <3>3
      <4>. QED  BY <4>1, <3>1, <3>3, <2>1 DEF CopiesUpTo
    <3>. QED  BY <2>2, <3>2, <3>3
  <2>5. \A b \in to : b <= n => \E i \in DOMAIN r : r[i] = D(b)
    <3>. SUFFICES ASSUME NEW b \in to, b <= n PROVE \E i \in DOMAIN r : r[i] = D(b)
      OBVIOUS
    <3>1. CASE b = n
      <4>1. 1 \in DOMAIN r
        BY <2>1, <1>2
      <4>. QED  BY <4>1, <3>1, <2>1
    <3>2. CASE b # n
      <4>1. b <= n - 1
        BY <3>2, <1>1
      <4>2. PICK i \in DOMAIN s : s[i] = D(b)
        BY <4>1 DEF CopiesUpTo, D
      <4>3. i + 1 \in 2..(Len(s) + 1) /\ i + 1 - 1 = i /\ i + 1 \in DOMAIN r
        BY <1>2, <2>1
      <4>. QED  BY <4>2, <4>3, <2>1
    <3>. QED  BY <3>1, <3>2
  <2>6. NextCopy(s, kind, to, m, n) = r
    BY <1>3 DEF NextCopy, r, D
  <2>. QED  BY <2>1, <2>3, <2>4, <2>5, <2>6 DEF CopiesUpTo, D
<1>4. CASE n \notin to
  <2>1. \A b \in to : (b <= n <=> b <= n - 1)
    BY <1>1, <1>4
  <2>. QED  BY <1>4, <2>1 DEF NextCopy, CopiesUpTo
<1>. QED  BY <1>3, <1>4

\* Every branch that to names gets its copy, the last branch first.
LEMMA CopiesFit ==
    ASSUME NEW kind \in {"data", "signal"}, NEW to \in SUBSET Branch,
           NEW m, m.id \in Ids, m.ts \in Stamps
    PROVE  CopiesUpTo(Copies(kind, to, m), kind, to, m, Branches)
<1>. DEFINE L == Branches
            S == Seq(Message)
            D(b) == Directed(kind, b, m, None)
            step == [p \in S \X (1..L) |-> NextCopy(p[1], kind, to, m, p[2])]
            downFrom[b \in 0..L] == IF b = 0 THEN <<>> ELSE
                IF b \in to THEN <<D(b)>> \o downFrom[b - 1] ELSE downFrom[b - 1]
<1>1. L \in Nat /\ <<>> \in S
  BY BracketAssumption
<1>2. step \in [S \X (1..L) -> S]
  <2>1. \A s \in S, b \in 1..L : NextCopy(s, kind, to, m, b) \in S
    <3>. SUFFICES ASSUME NEW s \in S, NEW b \in 1..L PROVE NextCopy(s, kind, to, m, b) \in S
      OBVIOUS
    <3>1. b \in Inside
      BY <1>1 DEF Inside, Receiver
    <3>2. D(b) \in Message
      BY <3>1, Directs
    <3>3. <<D(b)>> \o s \in S
      <4>. HIDE DEF D
      <4>. QED  BY <3>2, ConsAt
    <3>. QED  BY <3>3 DEF NextCopy
  <2>. QED  BY <2>1
<1>3. \E f \in [0..L -> S] : Repeats(f, L, <<>>, step)
  <2>. HIDE DEF step, S, L, downFrom
  <2>. QED  BY <1>1, <1>2, Recursion
<1>4. PICK f \in [0..L -> S] :
        f[0] = <<>> /\ \A n \in 1..L : f[n] = step[<<f[n - 1], n>>]
  BY <1>3 DEF Repeats
<1>5. ASSUME NEW n \in 1..L PROVE n - 1 \in 0..L /\ f[n] = NextCopy(f[n - 1], kind, to, m, n)
  <2>1. n - 1 \in 0..L
    BY <1>1
  <2>2. PICK s \in S : s = f[n - 1]
    BY <1>4, <2>1
  <2>3. step[<<s, n>>] = NextCopy(s, kind, to, m, n)
    OBVIOUS
  <2>4. f[n] = step[<<s, n>>]
    BY <1>4, <2>2
  <2>. QED  BY <2>1, <2>2, <2>3, <2>4
<1>6. f = [n \in 0..L |-> IF n = 0 THEN <<>> ELSE
             IF n \in to THEN <<D(n)>> \o f[n - 1] ELSE f[n - 1]]
  <2>1. \A n \in 0..L : f[n] = IF n = 0 THEN <<>> ELSE
             IF n \in to THEN <<D(n)>> \o f[n - 1] ELSE f[n - 1]
    <3>1. \A n \in 0..L : n = 0 \/ (n \in 1..L /\ n # 0)
      BY <1>1
    <3>2. \A n \in 1..L : f[n] = IF n \in to THEN <<D(n)>> \o f[n - 1] ELSE f[n - 1]
      BY <1>5 DEF NextCopy
    <3>3. f[0] = <<>>
      BY <1>4
    <3>. HIDE DEF L, D
    <3>. QED  BY <3>1, <3>2, <3>3
  <2>. QED  BY <1>4, <2>1
<1>7. downFrom = [n \in 0..L |-> IF n = 0 THEN <<>> ELSE
                IF n \in to THEN <<D(n)>> \o downFrom[n - 1] ELSE downFrom[n - 1]]
  <2>. HIDE DEF D
  <2>. QED  BY <1>6
<1>8. Copies(kind, to, m) = downFrom[L]
  BY DEF Copies
<1>. HIDE DEF downFrom, step
<1>9. downFrom[0] = <<>> /\ \A n \in 1..L : downFrom[n] = NextCopy(downFrom[n - 1], kind, to, m, n)
  <2>1. 0 \in 0..L /\ \A n \in 1..L : n \in 0..L /\ n # 0
    BY <1>1
  <2>. QED  BY <1>7, <2>1 DEF NextCopy
<1>. DEFINE T == {n \in Nat : n <= L => CopiesUpTo(downFrom[n], kind, to, m, n)}
<1>10. 0 \in T
  <2>1. \A b \in to : ~(b <= 0)
    BY DEF Branch
  <2>2. \A i : i \notin DOMAIN <<>>
    OBVIOUS
  <2>3. CopiesUpTo(<<>>, kind, to, m, 0)
    BY <2>1, <2>2, <1>1 DEF CopiesUpTo
  <2>. QED  BY <2>3, <1>9
<1>11. ASSUME NEW n \in Nat, n \in T PROVE n + 1 \in T
  <2>. SUFFICES ASSUME n + 1 <= L PROVE CopiesUpTo(downFrom[n + 1], kind, to, m, n + 1)
    OBVIOUS
  <2>1. n + 1 \in 1..L /\ n + 1 - 1 = n /\ n <= L
    BY <1>1
  <2>2. CopiesUpTo(downFrom[n], kind, to, m, n + 1 - 1)
    BY <2>1, <1>11
  <2>3. downFrom[n + 1] = NextCopy(downFrom[n], kind, to, m, n + 1)
    BY <1>9, <2>1
  <2>. HIDE DEF T
  <2>. QED  BY <2>1, <2>2, <2>3, NextCopyFits
<1>. HIDE DEF T
<1>12. L \in T
  BY <1>1, <1>10, <1>11, SetInduction
<1>. QED  BY <1>1, <1>8, <1>12 DEF T

-------------------------------------------------------------------------------
(* The lane: the messages between the dispatcher and the receiver.           *)

Queues == [Inside -> Seq(Message)]
Hands  == [Branch -> {None} \cup Message]

\* The places of the messages in queues q and in the hands w of the branches.
LaneOf(q, w) ==
    (UNION {{n} \X DOMAIN q[n] : n \in Inside})
        \cup ({b \in Branch : w[b] # None} \X {0})

AtOf(q, w, p) == IF p[2] = 0 THEN w[p[1]] ELSE q[p[1]][p[2]]

Lane  == LaneOf(inbox, working)
At(p) == AtOf(inbox, working, p)

\* p comes to the receiver before r does.
Ahead(p, r) == p[1] > r[1] \/ (p[1] = r[1] /\ p[2] < r[2])

\* A message has not gone past the node it is for.
Placed(p, m) ==
    /\ p[1] <= m.dest
    /\ p[2] = 0 => m.kind = "data" /\ m.dest = p[1]

\* m stands for l: l itself, or the answer to it.
Like(m, l) ==
    /\ m.id = l.id /\ m.ts = l.ts
    /\ \/ m = l
       \/ /\ l.kind = "data" /\ l.dest \in Branch
          /\ m.kind = "answer" /\ m.dest = Receiver /\ m.from = l.dest

\* Queues q2 and hands w2 have the messages of q and w, moved on in their order
\* (back leads each to where it was), but for the lost ones.
Moves(back, lost, q, w, q2, w2) ==
    /\ \A p \in LaneOf(q2, w2) :
         /\ back[p] \in LaneOf(q, w) \ lost
         /\ Like(AtOf(q2, w2, p), AtOf(q, w, back[p]))
         /\ Placed(back[p], AtOf(q, w, back[p])) => Placed(p, AtOf(q2, w2, p))
    /\ \A p, r \in LaneOf(q2, w2) : Ahead(p, r) <=> Ahead(back[p], back[r])
    /\ \A r \in LaneOf(q, w) : r \in lost \/ \E p \in LaneOf(q2, w2) : back[p] = r

LEMMA Numbers ==
    /\ Branches \in Nat \ {0} /\ Receiver \in Nat /\ Receiver = Branches + 1
    /\ Branch \subseteq Inside /\ Inside \subseteq Nodes /\ Nodes \subseteq Nat
    /\ \A n \in Inside : n >= 1 /\ n <= Receiver /\ (n \in Branch \/ n = Receiver)
    /\ \A b \in Branch : b + 1 \in Inside /\ b # Receiver /\ b >= 1 /\ b < Receiver
    /\ Receiver \in Inside /\ Receiver \notin Branch /\ 1 \in Inside /\ 1 \in Branch
    /\ \A n \in Nodes : n = 0 \/ n \in Inside
    /\ 0 \notin Inside /\ 0 \in Nodes /\ None \notin Message /\ None \notin Group /\ None \notin Nat
  BY BracketAssumption DEF Branch, Inside, Nodes, Receiver

\* The places of the lane.
LEMMA LaneIs ==
    ASSUME NEW q \in Queues, NEW w \in Hands
    PROVE  /\ \A n \in Inside : \A i \in 1..Len(q[n]) : <<n, i>> \in LaneOf(q, w)
           /\ \A b \in Branch : w[b] # None => <<b, 0>> \in LaneOf(q, w)
           /\ \A p \in LaneOf(q, w) :
                /\ p = <<p[1], p[2]>> /\ p[1] \in Inside /\ p[1] \in Nat /\ p[2] \in Nat
                /\ p[2] = 0 => p[1] \in Branch /\ w[p[1]] # None
                /\ p[2] # 0 => p[2] \in 1..Len(q[p[1]])
                /\ AtOf(q, w, p) \in Message
<1>1. /\ \A n \in Inside : q[n] \in Seq(Message) /\ DOMAIN q[n] = 1..Len(q[n]) /\ Len(q[n]) \in Nat
      /\ \A b \in Branch : w[b] \in {None} \cup Message
  BY DEF Queues, Hands
<1>2. \A n \in Inside : n \in Nat
  BY Numbers
<1>3. \A n \in Inside : \A i \in 1..Len(q[n]) : <<n, i>> \in LaneOf(q, w)
  <2>. SUFFICES ASSUME NEW n \in Inside, NEW i \in 1..Len(q[n]) PROVE <<n, i>> \in LaneOf(q, w)
    OBVIOUS
  <2>1. <<n, i>> \in {n} \X DOMAIN q[n]
    BY <1>1
  <2>2. <<n, i>> \in UNION {{k} \X DOMAIN q[k] : k \in Inside}
    BY <2>1
  <2>. QED  BY <2>2 DEF LaneOf
<1>4. \A b \in Branch : w[b] # None => <<b, 0>> \in LaneOf(q, w)
  <2>. SUFFICES ASSUME NEW b \in Branch, w[b] # None PROVE <<b, 0>> \in LaneOf(q, w)
    OBVIOUS
  <2>1. <<b, 0>> \in {c \in Branch : w[c] # None} \X {0}
    OBVIOUS
  <2>. QED  BY <2>1 DEF LaneOf
<1>5. ASSUME NEW p \in LaneOf(q, w)
      PROVE  /\ p = <<p[1], p[2]>> /\ p[1] \in Inside /\ p[1] \in Nat /\ p[2] \in Nat
             /\ p[2] = 0 => p[1] \in Branch /\ w[p[1]] # None
             /\ p[2] # 0 => p[2] \in 1..Len(q[p[1]])
             /\ AtOf(q, w, p) \in Message
  <2>1. CASE \E n \in Inside : p \in {n} \X DOMAIN q[n]
    <3>1. PICK n \in Inside : p \in {n} \X DOMAIN q[n]
      BY <2>1
    <3>2. PICK i \in 1..Len(q[n]) : p = <<n, i>>
      BY <3>1, <1>1
    <3>3. q[n][i] \in Message /\ i # 0 /\ i \in Nat
      BY <1>1
    <3>. QED  BY <3>2, <3>3, <1>2 DEF AtOf
  <2>2. CASE p \in {b \in Branch : w[b] # None} \X {0}
    <3>1. PICK b \in Branch : w[b] # None /\ p = <<b, 0>>
      BY <2>2
    <3>. QED  BY <3>1, <1>1, <1>2, Numbers DEF AtOf
  <2>3. \/ p \in UNION {{n} \X DOMAIN q[n] : n \in Inside}
        \/ p \in {b \in Branch : w[b] # None} \X {0}
    BY DEF LaneOf
  <2>. QED  BY <2>1, <2>2, <2>3
<1>. QED  BY <1>3, <1>4, <1>5

\* A queue loses its first message.
LEMMA Popped ==
    ASSUME NEW q \in Queues, NEW w \in Hands, NEW n \in Inside, q[n] # <<>>
    PROVE  /\ [q EXCEPT ![n] = Tail(@)] \in Queues
           /\ \E back : Moves(back, {<<n, 1>>}, q, w, [q EXCEPT ![n] = Tail(@)], w)
<1>. DEFINE q2 == [q EXCEPT ![n] = Tail(@)]
            L  == LaneOf(q, w)
            L2 == LaneOf(q2, w)
            back == [p \in L2 |-> IF p[1] = n /\ p[2] # 0 THEN <<n, p[2] + 1>> ELSE p]
<1>1. /\ \A k \in Inside : q[k] \in Seq(Message)
      /\ q[n] \in Seq(Message) /\ Tail(q[n]) \in Seq(Message) /\ Len(q[n]) \in Nat
      /\ Len(Tail(q[n])) = Len(q[n]) - 1
      /\ \A i \in 1..(Len(q[n]) - 1) : Tail(q[n])[i] = q[n][i + 1]
  BY TailAt DEF Queues
<1>2. q2 \in Queues /\ q2[n] = Tail(q[n]) /\ \A k \in Inside : k # n => q2[k] = q[k]
  BY <1>1 DEF Queues
<1>. HIDE DEF q2
<1>3. ASSUME NEW p \in L2
      PROVE  /\ back[p] \in L /\ back[p] # <<n, 1>>
             /\ AtOf(q2, w, p) = AtOf(q, w, back[p])
             /\ back[p][1] = p[1]
             /\ back[p][2] = IF p[1] = n /\ p[2] # 0 THEN p[2] + 1 ELSE p[2]
  <2>1. /\ p = <<p[1], p[2]>> /\ p[1] \in Inside /\ p[2] \in Nat
        /\ p[2] = 0 => p[1] \in Branch /\ w[p[1]] # None
        /\ p[2] # 0 => p[2] \in 1..Len(q2[p[1]])
    BY <1>2, LaneIs
  <2>2. CASE p[1] = n /\ p[2] # 0
    <3>1. back[p] = <<n, p[2] + 1>> /\ p[2] \in 1..(Len(q[n]) - 1)
      BY <2>1, <2>2, <1>1, <1>2
    <3>2. p[2] + 1 \in 1..Len(q[n]) /\ p[2] + 1 # 0 /\ p[2] + 1 # 1
      BY <3>1, <2>2, <1>1
    <3>3. <<n, p[2] + 1>> \in L
      BY <3>2, LaneIs
    <3>. QED  BY <3>1, <3>2, <3>3, <2>2, <1>1, <1>2 DEF AtOf
  <2>3. CASE ~(p[1] = n /\ p[2] # 0)
    <3>1. back[p] = p /\ p # <<n, 1>>
      BY <2>1, <2>3
    <3>2. p \in L
      <4>1. CASE p[2] = 0
        BY <4>1, <2>1, LaneIs
      <4>2. CASE p[2] # 0
        BY <4>2, <2>1, <2>3, <1>2, LaneIs
      <4>. QED  BY <4>1, <4>2
    <3>3. AtOf(q2, w, p) = AtOf(q, w, p)
      BY <2>1, <2>3, <1>2 DEF AtOf
    <3>. QED  BY <3>1, <3>2, <3>3, <2>3
  <2>. QED  BY <2>2, <2>3
<1>4. \A p \in L2 : p[1] \in Nat /\ p[2] \in Nat
  BY <1>2, LaneIs
<1>5. ASSUME NEW r \in L PROVE r \in {<<n, 1>>} \/ \E p \in L2 : back[p] = r
  <2>1. /\ r = <<r[1], r[2]>> /\ r[1] \in Inside /\ r[2] \in Nat
        /\ r[2] = 0 => r[1] \in Branch /\ w[r[1]] # None
        /\ r[2] # 0 => r[2] \in 1..Len(q[r[1]])
    BY LaneIs
  <2>2. CASE r[1] = n /\ r[2] # 0 /\ r[2] # 1
    <3>1. r[2] - 1 \in 1..Len(q2[n]) /\ r[2] - 1 + 1 = r[2] /\ r[2] - 1 # 0
      BY <2>1, <2>2, <1>1, <1>2
    <3>2. <<n, r[2] - 1>> \in L2
      BY <3>1, <1>2, LaneIs
    <3>. QED  BY <3>1, <3>2, <2>1, <2>2
  <2>3. CASE r[1] # n \/ r[2] = 0
    <3>1. r \in L2
      <4>1. CASE r[2] = 0
        BY <4>1, <2>1, <1>2, LaneIs
      <4>2. CASE r[2] # 0
        BY <4>2, <2>1, <2>3, <1>2, LaneIs
      <4>. QED  BY <4>1, <4>2
    <3>2. back[r] = r
      BY <3>1, <2>3
    <3>. QED  BY <3>1, <3>2
  <2>4. CASE r[1] = n /\ r[2] = 1
    BY <2>1, <2>4
  <2>. QED  BY <2>2, <2>3, <2>4
<1>6. Moves(back, {<<n, 1>>}, q, w, q2, w)
  <2>. HIDE DEF back
  <2>1. \A p, r \in L2 : Ahead(p, r) <=> Ahead(back[p], back[r])
    BY <1>3, <1>4 DEF Ahead
  <2>2. \A p \in L2 : /\ Like(AtOf(q2, w, p), AtOf(q, w, back[p]))
                      /\ Placed(back[p], AtOf(q, w, back[p])) => Placed(p, AtOf(q2, w, p))
    BY <1>3, <1>4 DEF Like, Placed
  <2>. QED  BY <1>3, <1>5, <2>1, <2>2 DEF Moves
<1>. QED  BY <1>2, <1>6 DEF q2

\* Nothing moves.
LEMMA Still ==
    ASSUME NEW q \in Queues, NEW w \in Hands
    PROVE  \E back : Moves(back, {}, q, w, q, w)
<1>. DEFINE back == [p \in LaneOf(q, w) |-> p]
<1>1. \A p \in LaneOf(q, w) : back[p] = p
  OBVIOUS
<1>. HIDE DEF back
<1>2. Moves(back, {}, q, w, q, w)
  BY <1>1 DEF Moves, Like
<1>. QED  BY <1>2

\* A branch drops its message.
LEMMA Dropped ==
    ASSUME NEW q \in Queues, NEW w \in Hands, NEW b \in Branch
    PROVE  /\ [w EXCEPT ![b] = None] \in Hands
           /\ \E back : Moves(back, {<<b, 0>>}, q, w, q, [w EXCEPT ![b] = None])
<1>. DEFINE w2 == [w EXCEPT ![b] = None]
            L  == LaneOf(q, w)
            L2 == LaneOf(q, w2)
            back == [p \in L2 |-> p]
<1>1. w2 \in Hands /\ w2[b] = None /\ \A c \in Branch : c # b => w2[c] = w[c]
  BY DEF Hands
<1>. HIDE DEF w2
<1>2. ASSUME NEW p \in L2 PROVE p \in L /\ p # <<b, 0>> /\ AtOf(q, w2, p) = AtOf(q, w, p)
  <2>1. /\ p = <<p[1], p[2]>> /\ p[1] \in Inside
        /\ p[2] = 0 => p[1] \in Branch /\ w2[p[1]] # None
        /\ p[2] # 0 => p[2] \in 1..Len(q[p[1]])
    BY <1>1, LaneIs
  <2>2. CASE p[2] = 0
    <3>1. p[1] # b /\ p[1] \in Branch /\ w[p[1]] # None /\ w2[p[1]] = w[p[1]]
      BY <2>1, <2>2, <1>1
    <3>. QED  BY <3>1, <2>1, <2>2, LaneIs DEF AtOf
  <2>3. CASE p[2] # 0
    BY <2>1, <2>3, LaneIs DEF AtOf
  <2>. QED  BY <2>2, <2>3
<1>3. ASSUME NEW r \in L PROVE r \in {<<b, 0>>} \/ r \in L2
  <2>1. /\ r = <<r[1], r[2]>> /\ r[1] \in Inside
        /\ r[2] = 0 => r[1] \in Branch /\ w[r[1]] # None
        /\ r[2] # 0 => r[2] \in 1..Len(q[r[1]])
    BY LaneIs
  <2>2. CASE r[2] = 0
    <3>1. CASE r[1] = b
      BY <2>1, <2>2, <3>1
    <3>2. CASE r[1] # b
      <4>1. r[1] \in Branch /\ w2[r[1]] # None
        BY <2>1, <2>2, <3>2, <1>1
      <4>. QED  BY <4>1, <2>1, <2>2, <1>1, LaneIs
    <3>. QED  BY <3>1, <3>2
  <2>3. CASE r[2] # 0
    BY <2>1, <2>3, <1>1, LaneIs
  <2>. QED  BY <2>2, <2>3
<1>4. \A p \in L2 : back[p] = p
  OBVIOUS
<1>. HIDE DEF back
<1>5. Moves(back, {<<b, 0>>}, q, w, q, w2)
  <2>1. \A p \in L2 : /\ back[p] \in L \ {<<b, 0>>} /\ Like(AtOf(q, w2, p), AtOf(q, w, back[p]))
                      /\ Placed(back[p], AtOf(q, w, back[p])) => Placed(p, AtOf(q, w2, p))
    BY <1>2, <1>4 DEF Like
  <2>2. \A p, r \in L2 : Ahead(p, r) <=> Ahead(back[p], back[r])
    BY <1>4
  <2>3. \A r \in L : r \in {<<b, 0>>} \/ \E p \in L2 : back[p] = r
    BY <1>3, <1>4
  <2>. QED  BY <2>1, <2>2, <2>3 DEF Moves
<1>. QED  BY <1>1, <1>5 DEF w2

\* A branch takes the first message of its queue into its hand.
LEMMA Grasped ==
    ASSUME NEW q \in Queues, NEW w \in Hands, NEW b \in Branch, q[b] # <<>>, w[b] = None,
           Head(q[b]).kind = "data", Head(q[b]).dest = b
    PROVE  /\ [q EXCEPT ![b] = Tail(@)] \in Queues /\ [w EXCEPT ![b] = Head(q[b])] \in Hands
           /\ \E back : Moves(back, {}, q, w, [q EXCEPT ![b] = Tail(@)], [w EXCEPT ![b] = Head(q[b])])
<1>. DEFINE q2 == [q EXCEPT ![b] = Tail(@)]
            w2 == [w EXCEPT ![b] = Head(q[b])]
            L  == LaneOf(q, w)
            L2 == LaneOf(q2, w2)
            back == [p \in L2 |-> IF p[1] = b THEN <<b, p[2] + 1>> ELSE p]
<1>1. /\ \A k \in Inside : q[k] \in Seq(Message)
      /\ q[b] \in Seq(Message) /\ Tail(q[b]) \in Seq(Message) /\ Len(q[b]) \in Nat \ {0}
      /\ Len(Tail(q[b])) = Len(q[b]) - 1 /\ Head(q[b]) = q[b][1] /\ q[b][1] \in Message
      /\ \A i \in 1..(Len(q[b]) - 1) : Tail(q[b])[i] = q[b][i + 1]
      /\ b \in Inside /\ b \in Nat
  <2>1. b \in Inside /\ b \in Nat /\ q[b] \in Seq(Message) /\ \A k \in Inside : q[k] \in Seq(Message)
    BY Numbers DEF Queues
  <2>. QED  BY <2>1, TailAt
<1>2. /\ q2 \in Queues /\ q2[b] = Tail(q[b]) /\ \A k \in Inside : k # b => q2[k] = q[k]
      /\ w2 \in Hands /\ w2[b] = q[b][1] /\ w2[b] # None
      /\ \A c \in Branch : c # b => w2[c] = w[c]
  <2>1. q2 \in Queues /\ q2[b] = Tail(q[b]) /\ \A k \in Inside : k # b => q2[k] = q[k]
    BY <1>1 DEF Queues
  <2>2. /\ w2 \in Hands /\ w2[b] = q[b][1] /\ \A c \in Branch : c # b => w2[c] = w[c]
    BY <1>1 DEF Hands
  <2>. QED  BY <2>1, <2>2, <1>1, Numbers
<1>. HIDE DEF q2, w2
<1>3. ASSUME NEW p \in L2
      PROVE  /\ back[p] \in L
             /\ AtOf(q2, w2, p) = AtOf(q, w, back[p])
             /\ back[p][1] = p[1]
             /\ back[p][2] = IF p[1] = b THEN p[2] + 1 ELSE p[2]
             /\ p[1] = b /\ p[2] = 0 => back[p] = <<b, 1>>
  <2>1. /\ p = <<p[1], p[2]>> /\ p[1] \in Inside /\ p[2] \in Nat
        /\ p[2] = 0 => p[1] \in Branch /\ w2[p[1]] # None
        /\ p[2] # 0 => p[2] \in 1..Len(q2[p[1]])
    BY <1>2, LaneIs
  <2>2. CASE p[1] = b
    <3>1. back[p] = <<b, p[2] + 1>> /\ (p[2] = 0 \/ p[2] \in 1..(Len(q[b]) - 1))
      BY <2>1, <2>2, <1>1, <1>2
    <3>2. p[2] + 1 \in 1..Len(q[b]) /\ p[2] + 1 # 0
      BY <3>1, <2>1, <1>1
    <3>3. <<b, p[2] + 1>> \in L
      BY <3>2, <1>1, LaneIs
    <3>4. AtOf(q2, w2, p) = q[b][p[2] + 1]
      <4>1. CASE p[2] = 0
        BY <4>1, <2>2, <1>2 DEF AtOf
      <4>2. CASE p[2] # 0
        BY <4>2, <3>1, <2>2, <1>1, <1>2 DEF AtOf
      <4>. QED  BY <4>1, <4>2
    <3>. QED  BY <3>1, <3>2, <3>3, <3>4, <2>1, <2>2 DEF AtOf
  <2>3. CASE p[1] # b
    <3>1. back[p] = p
      BY <2>3
    <3>2. p \in L
      <4>1. CASE p[2] = 0
        BY <4>1, <2>1, <2>3, <1>2, LaneIs
      <4>2. CASE p[2] # 0
        BY <4>2, <2>1, <2>3, <1>2, LaneIs
      <4>. QED  BY <4>1, <4>2
    <3>3. AtOf(q2, w2, p) = AtOf(q, w, p)
      BY <2>1, <2>3, <1>2 DEF AtOf
    <3>. QED  BY <3>1, <3>2, <3>3, <2>3
  <2>. QED  BY <2>2, <2>3
<1>4. \A p \in L2 : p[1] \in Nat /\ p[2] \in Nat
  BY <1>2, LaneIs
<1>5. ASSUME NEW r \in L PROVE \E p \in L2 : back[p] = r
  <2>1. /\ r = <<r[1], r[2]>> /\ r[1] \in Inside /\ r[2] \in Nat
        /\ r[2] = 0 => r[1] \in Branch /\ w[r[1]] # None
        /\ r[2] # 0 => r[2] \in 1..Len(q[r[1]])
    BY LaneIs
  <2>2. CASE r[1] = b
    <3>1. r[2] # 0 /\ r[2] \in 1..Len(q[b])
      BY <2>1, <2>2
    <3>2. r[2] - 1 + 1 = r[2] /\ (r[2] - 1 = 0 \/ r[2] - 1 \in 1..Len(q2[b]))
      BY <3>1, <1>1, <1>2
    <3>3. <<b, r[2] - 1>> \in L2
      BY <3>2, <1>1, <1>2, LaneIs
    <3>. QED  BY <3>2, <3>3, <2>1, <2>2
  <2>3. CASE r[1] # b
    <3>1. r \in L2
      <4>1. CASE r[2] = 0
        BY <4>1, <2>1, <2>3, <1>2, LaneIs
      <4>2. CASE r[2] # 0
        BY <4>2, <2>1, <2>3, <1>2, LaneIs
      <4>. QED  BY <4>1, <4>2
    <3>2. back[r] = r
      BY <3>1, <2>3
    <3>. QED  BY <3>1, <3>2
  <2>. QED  BY <2>2, <2>3
<1>6. Moves(back, {}, q, w, q2, w2)
  <2>1. \A p \in L2 : p[2] = 0 => AtOf(q2, w2, p) = w2[p[1]]
    BY DEF AtOf
  <2>. HIDE DEF back
  <2>2. \A p, r \in L2 : Ahead(p, r) <=> Ahead(back[p], back[r])
    BY <1>3, <1>4 DEF Ahead
  <2>3. ASSUME NEW p \in L2
        PROVE  /\ Like(AtOf(q2, w2, p), AtOf(q, w, back[p]))
               /\ Placed(back[p], AtOf(q, w, back[p])) => Placed(p, AtOf(q2, w2, p))
    <3>1. Like(AtOf(q2, w2, p), AtOf(q, w, back[p]))
      BY <1>3 DEF Like
    <3>2. CASE p[1] = b /\ p[2] = 0
      <4>1. AtOf(q2, w2, p) = Head(q[b])
        BY <3>2, <2>1, <1>1, <1>2
      <4>2. Placed(p, AtOf(q2, w2, p))
        BY <4>1, <3>2, <1>1 DEF Placed
      <4>. QED  BY <3>1, <4>2
    <3>3. CASE ~(p[1] = b /\ p[2] = 0)
      BY <3>1, <3>3, <1>3, <1>4 DEF Placed
    <3>. QED  BY <3>2, <3>3
  <2>. QED  BY <1>3, <1>5, <2>2, <2>3 DEF Moves
<1>. QED  BY <1>2, <1>6 DEF q2, w2

\* A message is put behind those of the next node.
Behind(q, n, m) == [q EXCEPT ![n] = Append(@, m)]

LEMMA BehindIs ==
    ASSUME NEW q \in Queues, NEW n \in Inside, NEW m \in Message
    PROVE  /\ Behind(q, n, m) \in Queues /\ Len(q[n]) \in Nat
           /\ Len(Behind(q, n, m)[n]) = Len(q[n]) + 1
           /\ Behind(q, n, m)[n][Len(q[n]) + 1] = m
           /\ \A i \in 1..Len(q[n]) : Behind(q, n, m)[n][i] = q[n][i]
           /\ \A k \in Inside : k # n => Behind(q, n, m)[k] = q[k]
<1>1. q[n] \in Seq(Message) /\ \A k \in Inside : q[k] \in Seq(Message)
  BY DEF Queues
<1>2. Behind(q, n, m)[n] = Append(q[n], m) /\ \A k \in Inside : k # n => Behind(q, n, m)[k] = q[k]
  BY DEF Behind, Queues
<1>3. Append(q[n], m) \in Seq(Message)
  BY <1>1, AppendAt
<1>4. Behind(q, n, m) \in Queues
  BY <1>1, <1>3 DEF Behind, Queues
<1>. QED  BY <1>1, <1>2, <1>4, AppendAt

\* A branch puts the answer to its message behind those of the next node.
LEMMA AnswerPut ==
    ASSUME NEW q \in Queues, NEW w \in Hands, NEW b \in Branch, w[b] # None,
           w[b].kind = "data", w[b].dest = b,
           NEW m \in Message, m = Directed("answer", Receiver, w[b], b)
    PROVE  /\ Behind(q, b + 1, m) \in Queues /\ [w EXCEPT ![b] = None] \in Hands
           /\ \E back : Moves(back, {}, q, w, Behind(q, b + 1, m), [w EXCEPT ![b] = None])
<1>. DEFINE q2 == Behind(q, b + 1, m)
            w2 == [w EXCEPT ![b] = None]
            L  == LaneOf(q, w)
            L2 == LaneOf(q2, w2)
            new == <<b + 1, Len(q[b + 1]) + 1>>
            back == [p \in L2 |-> IF p = new THEN <<b, 0>> ELSE p]
<1>1. b + 1 \in Inside /\ b \in Nat /\ b + 1 \in Nat /\ b + 1 <= Receiver /\ Len(q[b + 1]) \in Nat
  <2>1. b + 1 \in Inside /\ b \in Nat
    BY Numbers
  <2>. QED  BY <2>1, BehindIs, Numbers
<1>2. /\ q2 \in Queues /\ Len(q2[b + 1]) = Len(q[b + 1]) + 1 /\ q2[b + 1][Len(q[b + 1]) + 1] = m
      /\ \A i \in 1..Len(q[b + 1]) : q2[b + 1][i] = q[b + 1][i]
      /\ \A k \in Inside : k # b + 1 => q2[k] = q[k]
  <2>1. PICK c \in Inside : c = b + 1
    BY <1>1
  <2>2. /\ Behind(q, c, m) \in Queues /\ Len(Behind(q, c, m)[c]) = Len(q[c]) + 1
        /\ Behind(q, c, m)[c][Len(q[c]) + 1] = m
        /\ \A i \in 1..Len(q[c]) : Behind(q, c, m)[c][i] = q[c][i]
        /\ \A k \in Inside : k # c => Behind(q, c, m)[k] = q[k]
    BY BehindIs
  <2>. QED  BY <2>1, <2>2
<1>3. w2 \in Hands /\ w2[b] = None /\ \A c \in Branch : c # b => w2[c] = w[c]
  BY DEF Hands
<1>. HIDE DEF q2, w2
<1>4. ASSUME NEW p \in L2
      PROVE  /\ p[1] \in Nat /\ p[2] \in Nat
             /\ p = new => p[1] = b + 1 /\ p[2] = Len(q[b + 1]) + 1
             /\ p # new /\ p[1] = b + 1 => p[2] <= Len(q[b + 1])
             /\ p # new /\ p[1] = b => p[2] # 0
             /\ p # new => p \in L /\ AtOf(q2, w2, p) = AtOf(q, w, p) /\ back[p] = p
             /\ p = new => back[p] = <<b, 0>> /\ AtOf(q2, w2, p) = m /\ AtOf(q, w, back[p]) = w[b]
             /\ back[p] \in L
  <2>1. /\ p = <<p[1], p[2]>> /\ p[1] \in Inside /\ p[1] \in Nat /\ p[2] \in Nat
        /\ p[2] = 0 => p[1] \in Branch /\ w2[p[1]] # None
        /\ p[2] # 0 => p[2] \in 1..Len(q2[p[1]])
    BY <1>2, <1>3, LaneIs
  <2>2. CASE p = new
    <3>1. p[1] = b + 1 /\ p[2] = Len(q[b + 1]) + 1 /\ p[2] # 0
      BY <2>2, <1>1
    <3>2. back[p] = <<b, 0>> /\ <<b, 0>> \in L
      BY <2>2, LaneIs
    <3>. QED  BY <2>1, <2>2, <3>1, <3>2, <1>2 DEF AtOf
  <2>3. CASE p # new
    <3>1. p[1] = b + 1 => p[2] # Len(q[b + 1]) + 1
      BY <2>1, <2>3
    <3>2. p[1] = b + 1 => p[2] <= Len(q[b + 1])
      BY <3>1, <2>1, <1>1, <1>2
    <3>3. p[2] = 0 => p[1] # b
      BY <2>1, <1>3
    <3>4. p \in L
      <4>1. CASE p[2] = 0
        BY <4>1, <3>3, <2>1, <1>3, LaneIs
      <4>2. CASE p[2] # 0
        <5>1. p[2] \in 1..Len(q[p[1]])
          BY <4>2, <3>2, <2>1, <1>1, <1>2
        <5>. QED  BY <5>1, <2>1, LaneIs
      <4>. QED  BY <4>1, <4>2
    <3>5. AtOf(q2, w2, p) = AtOf(q, w, p)
      <4>1. CASE p[2] = 0
        BY <4>1, <3>3, <2>1, <1>3 DEF AtOf
      <4>2. CASE p[2] # 0
        <5>1. p[1] = b + 1 => p[2] \in 1..Len(q[b + 1])
          BY <4>2, <3>2, <2>1, <1>1
        <5>. QED  BY <5>1, <4>2, <2>1, <1>2 DEF AtOf
      <4>. QED  BY <4>1, <4>2
    <3>6. back[p] = p
      BY <2>3
    <3>. QED  BY <2>1, <2>3, <3>2, <3>3, <3>4, <3>5, <3>6
  <2>. QED  BY <2>2, <2>3
<1>5. ASSUME NEW r \in L PROVE \E p \in L2 : back[p] = r
  <2>1. /\ r = <<r[1], r[2]>> /\ r[1] \in Inside /\ r[2] \in Nat
        /\ r[2] = 0 => r[1] \in Branch /\ w[r[1]] # None
        /\ r[2] # 0 => r[2] \in 1..Len(q[r[1]])
    BY LaneIs
  <2>2. CASE r = <<b, 0>>
    <3>1. Len(q[b + 1]) + 1 \in 1..Len(q2[b + 1])
      BY <1>1, <1>2
    <3>2. new \in L2
      BY <3>1, <1>1, <1>2, <1>3, LaneIs
    <3>. QED  BY <3>2, <2>2
  <2>3. CASE r # <<b, 0>>
    <3>1. r \in L2
      <4>1. CASE r[2] = 0
        <5>1. r[1] \in Branch /\ r[1] # b
          BY <4>1, <2>1, <2>3
        <5>2. w2[r[1]] # None
          BY <5>1, <4>1, <2>1, <1>3
        <5>. QED  BY <5>1, <5>2, <4>1, <2>1, <1>2, <1>3, LaneIs
      <4>2. CASE r[2] # 0
        <5>1. r[2] \in 1..Len(q2[r[1]])
          BY <4>2, <2>1, <1>1, <1>2
        <5>. QED  BY <5>1, <2>1, <1>2, <1>3, LaneIs
      <4>. QED  BY <4>1, <4>2
    <3>2. r # new
      <4>1. ~(Len(q[b + 1]) + 1 \in 1..Len(q[b + 1])) /\ Len(q[b + 1]) + 1 # 0
        BY <1>1
      <4>2. CASE r = new
        <5>1. r[1] = b + 1 /\ r[2] = Len(q[b + 1]) + 1
          BY <4>2
        <5>. QED  BY <5>1, <4>1, <2>1
      <4>. QED  BY <4>2
    <3>. QED  BY <3>1, <3>2
  <2>. QED  BY <2>2, <2>3
<1>6. Moves(back, {}, q, w, q2, w2)
  <2>. HIDE DEF back, new
  <2>1. ASSUME NEW p \in L2, NEW r \in L2 PROVE Ahead(p, r) <=> Ahead(back[p], back[r])
    <3>1. <<b, 0>>[1] = b /\ <<b, 0>>[2] = 0
      OBVIOUS
    <3>2. CASE p = new /\ r = new
      BY <3>1, <3>2, <1>1, <1>4 DEF Ahead
    <3>3. CASE p = new /\ r # new
      BY <3>1, <3>3, <1>1, <1>4 DEF Ahead
    <3>4. CASE p # new /\ r = new
      BY <3>1, <3>4, <1>1, <1>4 DEF Ahead
    <3>5. CASE p # new /\ r # new
      BY <3>5, <1>4
    <3>. QED  BY <3>2, <3>3, <3>4, <3>5
  <2>2. ASSUME NEW p \in L2
        PROVE  /\ Like(AtOf(q2, w2, p), AtOf(q, w, back[p]))
               /\ Placed(back[p], AtOf(q, w, back[p])) => Placed(p, AtOf(q2, w2, p))
    <3>1. CASE p = new
      <4>1. m.id = w[b].id /\ m.ts = w[b].ts /\ m.kind = "answer" /\ m.dest = Receiver /\ m.from = b
        BY DEF Directed
      <4>2. AtOf(q2, w2, p) = m /\ AtOf(q, w, back[p]) = w[b] /\ p[1] = b + 1 /\ p[2] # 0
        BY <3>1, <1>1, <1>4
      <4>. QED  BY <4>1, <4>2, <1>1 DEF Like, Placed
    <3>2. CASE p # new
      BY <3>2, <1>4 DEF Like
    <3>. QED  BY <3>1, <3>2
  <2>. QED  BY <1>4, <1>5, <2>1, <2>2 DEF Moves
<1>. QED  BY <1>2, <1>3, <1>6 DEF q2, w2

\* A branch forwards the first message of its queue to the next node.
LEMMA Passed ==
    ASSUME NEW q \in Queues, NEW w \in Hands, NEW b \in Branch, q[b] # <<>>, w[b] = None,
           Head(q[b]).dest # b, NEW m, m = Head(q[b])
    PROVE  /\ Behind([q EXCEPT ![b] = Tail(@)], b + 1, m) \in Queues
           /\ \E back : Moves(back, {}, q, w, Behind([q EXCEPT ![b] = Tail(@)], b + 1, m), w)
<1>. DEFINE q1 == [q EXCEPT ![b] = Tail(@)]
            q2 == Behind(q1, b + 1, m)
            L  == LaneOf(q, w)
            L2 == LaneOf(q2, w)
            new == <<b + 1, Len(q[b + 1]) + 1>>
            back == [p \in L2 |-> IF p = new THEN <<b, 1>>
                                  ELSE IF p[1] = b THEN <<b, p[2] + 1>> ELSE p]
<1>1. /\ b + 1 \in Inside /\ b \in Nat /\ b + 1 \in Nat /\ b + 1 <= Receiver
      /\ b \in Inside /\ b + 1 # b /\ q[b] \in Seq(Message) /\ q[b + 1] \in Seq(Message)
      /\ Len(q[b + 1]) \in Nat /\ \A k \in Inside : k \in Nat /\ q[k] \in Seq(Message)
  <2>1. b + 1 \in Inside /\ b \in Nat /\ b \in Inside /\ \A k \in Inside : k \in Nat /\ k <= Receiver
    BY Numbers
  <2>2. \A k \in Inside : q[k] \in Seq(Message)
    BY DEF Queues
  <2>3. PICK c \in Inside : c = b + 1
    BY <2>1
  <2>4. q[c] \in Seq(Message) /\ Len(q[c]) \in Nat /\ c <= Receiver
    BY <2>1, <2>2
  <2>5. q[b] \in Seq(Message)
    BY <2>1, <2>2
  <2>. QED  BY <2>1, <2>2, <2>3, <2>4, <2>5
<1>2. /\ Tail(q[b]) \in Seq(Message) /\ Len(q[b]) \in Nat \ {0}
      /\ Len(Tail(q[b])) = Len(q[b]) - 1 /\ m = q[b][1] /\ m \in Message
      /\ \A i \in 1..(Len(q[b]) - 1) : Tail(q[b])[i] = q[b][i + 1]
  BY <1>1, TailAt
<1>3. q1 \in Queues /\ q1[b] = Tail(q[b]) /\ \A k \in Inside : k # b => q1[k] = q[k]
  BY <1>1, <1>2 DEF Queues
<1>. HIDE DEF q1
<1>4. /\ q2 \in Queues /\ Len(q2[b + 1]) = Len(q[b + 1]) + 1 /\ q2[b + 1][Len(q[b + 1]) + 1] = m
      /\ \A i \in 1..Len(q[b + 1]) : q2[b + 1][i] = q[b + 1][i]
      /\ q2[b] = Tail(q[b])
      /\ \A k \in Inside : k # b + 1 /\ k # b => q2[k] = q[k]
  <2>1. PICK c \in Inside : c = b + 1
    BY <1>1
  <2>2. /\ Behind(q1, c, m) \in Queues /\ Len(Behind(q1, c, m)[c]) = Len(q1[c]) + 1
        /\ Behind(q1, c, m)[c][Len(q1[c]) + 1] = m
        /\ \A i \in 1..Len(q1[c]) : Behind(q1, c, m)[c][i] = q1[c][i]
        /\ \A k \in Inside : k # c => Behind(q1, c, m)[k] = q1[k]
    BY <1>2, <1>3, BehindIs
  <2>3. q1[c] = q[c]
    BY <2>1, <1>1, <1>3
  <2>. QED  BY <2>1, <2>2, <2>3, <1>1, <1>3
<1>. HIDE DEF q2
<1>5. \A p \in L2 : p[2] = 0 => p[1] # b
  BY <1>4, LaneIs
<1>6. ASSUME NEW p \in L2
      PROVE  /\ p[1] \in Nat /\ p[2] \in Nat
             /\ p = new => p[1] = b + 1 /\ p[2] = Len(q[b + 1]) + 1
             /\ p # new /\ p[1] = b + 1 => p[2] <= Len(q[b + 1])
             /\ p = new => back[p] = <<b, 1>>
             /\ p # new /\ p[1] = b => back[p] = <<b, p[2] + 1>> /\ p[2] # 0
             /\ p # new /\ p[1] # b => back[p] = p
             /\ back[p] \in L /\ AtOf(q2, w, p) = AtOf(q, w, back[p])
             /\ p = new => AtOf(q2, w, p) = m
  <2>1. /\ p = <<p[1], p[2]>> /\ p[1] \in Inside /\ p[1] \in Nat /\ p[2] \in Nat
        /\ p[2] = 0 => p[1] \in Branch /\ w[p[1]] # None
        /\ p[2] # 0 => p[2] \in 1..Len(q2[p[1]])
    BY <1>4, LaneIs
  <2>2. CASE p = new
    <3>1. p[1] = b + 1 /\ p[2] = Len(q[b + 1]) + 1 /\ p[2] # 0
      BY <2>2, <1>1
    <3>2. back[p] = <<b, 1>>
      BY <2>2
    <3>3. <<b, 1>> \in L
      BY <1>1, <1>2, LaneIs
    <3>. QED  BY <2>1, <2>2, <3>1, <3>2, <3>3, <1>1, <1>2, <1>4 DEF AtOf
  <2>3. CASE p # new /\ p[1] = b
    <3>1. p[2] # 0 /\ p[2] \in 1..(Len(q[b]) - 1)
      BY <2>1, <2>3, <1>2, <1>4, <1>5
    <3>2. p[2] + 1 \in 1..Len(q[b]) /\ p[2] + 1 # 0
      BY <3>1, <1>2
    <3>3. <<b, p[2] + 1>> \in L
      BY <3>2, <1>1, LaneIs
    <3>4. back[p] = <<b, p[2] + 1>>
      BY <2>3
    <3>5. AtOf(q2, w, p) = q[b][p[2] + 1]
      BY <3>1, <2>3, <1>2, <1>4 DEF AtOf
    <3>. QED  BY <2>1, <2>3, <3>1, <3>2, <3>3, <3>4, <3>5, <1>1 DEF AtOf
  <2>4. CASE p # new /\ p[1] # b
    <3>1. p[1] = b + 1 => p[2] # Len(q[b + 1]) + 1
      BY <2>1, <2>4
    <3>2. p[1] = b + 1 => p[2] <= Len(q[b + 1])
      BY <3>1, <2>1, <1>1, <1>4
    <3>3. p[2] # 0 => p[2] \in 1..Len(q[p[1]])
      BY <3>2, <2>1, <2>4, <1>1, <1>4
    <3>4. p \in L
      BY <3>3, <2>1, LaneIs
    <3>5. AtOf(q2, w, p) = AtOf(q, w, p)
      BY <3>3, <2>1, <2>4, <1>4 DEF AtOf
    <3>6. back[p] = p
      BY <2>4
    <3>. QED  BY <2>1, <2>4, <3>2, <3>4, <3>5, <3>6
  <2>. QED  BY <2>2, <2>3, <2>4
<1>7. ASSUME NEW r \in L PROVE \E p \in L2 : back[p] = r
  <2>1. /\ r = <<r[1], r[2]>> /\ r[1] \in Inside /\ r[1] \in Nat /\ r[2] \in Nat
        /\ r[2] = 0 => r[1] \in Branch /\ w[r[1]] # None
        /\ r[2] # 0 => r[2] \in 1..Len(q[r[1]])
    BY LaneIs
  <2>2. CASE r = <<b, 1>>
    <3>1. Len(q[b + 1]) + 1 \in 1..Len(q2[b + 1])
      BY <1>1, <1>4
    <3>2. new \in L2
      BY <3>1, <1>1, <1>4, LaneIs
    <3>. QED  BY <3>2, <2>2
  <2>3. CASE r # <<b, 1>> /\ r[1] = b
    <3>1. r[2] # 0 /\ r[2] # 1
      BY <2>1, <2>3
    <3>2. r[2] - 1 \in 1..Len(q2[b]) /\ r[2] - 1 + 1 = r[2]
      BY <3>1, <2>1, <2>3, <1>2, <1>4
    <3>3. <<b, r[2] - 1>> \in L2
      BY <3>2, <1>1, <1>4, LaneIs
    <3>4. <<b, r[2] - 1>> # new
      BY <1>1
    <3>. QED  BY <3>2, <3>3, <3>4, <2>1, <2>3
  <2>4. CASE r[1] # b
    <3>1. r[2] # 0 => r[2] \in 1..Len(q2[r[1]])
      BY <2>1, <2>4, <1>1, <1>4
    <3>2. r \in L2
      BY <3>1, <2>1, <1>4, LaneIs
    <3>3. r # new
      <4>1. ~(Len(q[b + 1]) + 1 \in 1..Len(q[b + 1])) /\ Len(q[b + 1]) + 1 # 0
        BY <1>1
      <4>2. CASE r = new
        <5>1. r[1] = b + 1 /\ r[2] = Len(q[b + 1]) + 1
          BY <4>2
        <5>. QED  BY <5>1, <4>1, <2>1
      <4>. QED  BY <4>2
    <3>. QED  BY <3>2, <3>3, <2>4
  <2>. QED  BY <2>2, <2>3, <2>4
<1>8. Moves(back, {}, q, w, q2, w)
  <2>. HIDE DEF back, new
  <2>1. <<b, 1>>[1] = b /\ <<b, 1>>[2] = 1 /\ \A i : <<b, i>>[1] = b /\ <<b, i>>[2] = i
    OBVIOUS
  <2>2. ASSUME NEW p \in L2, NEW r \in L2 PROVE Ahead(p, r) <=> Ahead(back[p], back[r])
    <3>1. CASE p = new /\ r = new
      BY <2>1, <3>1, <1>1, <1>6 DEF Ahead
    <3>2. CASE p = new /\ r # new
      <4>1. CASE r[1] = b
        BY <2>1, <3>2, <4>1, <1>1, <1>6 DEF Ahead
      <4>2. CASE r[1] # b
        BY <2>1, <3>2, <4>2, <1>1, <1>6 DEF Ahead
      <4>. QED  BY <4>1, <4>2
    <3>3. CASE p # new /\ r = new
      <4>1. CASE p[1] = b
        BY <2>1, <3>3, <4>1, <1>1, <1>6 DEF Ahead
      <4>2. CASE p[1] # b
        BY <2>1, <3>3, <4>2, <1>1, <1>6 DEF Ahead
      <4>. QED  BY <4>1, <4>2
    <3>4. CASE p # new /\ r # new
      <4>1. back[p][1] = p[1] /\ back[p][2] = IF p[1] = b THEN p[2] + 1 ELSE p[2]
        BY <2>1, <3>4, <1>6
      <4>2. back[r][1] = r[1] /\ back[r][2] = IF r[1] = b THEN r[2] + 1 ELSE r[2]
        BY <2>1, <3>4, <1>6
      <4>. QED  BY <4>1, <4>2, <1>6 DEF Ahead
    <3>. QED  BY <3>1, <3>2, <3>3, <3>4
  <2>3. ASSUME NEW p \in L2
        PROVE  /\ Like(AtOf(q2, w, p), AtOf(q, w, back[p]))
               /\ Placed(back[p], AtOf(q, w, back[p])) => Placed(p, AtOf(q2, w, p))
    <3>1. Like(AtOf(q2, w, p), AtOf(q, w, back[p]))
      BY <1>6 DEF Like
    <3>2. CASE p = new
      <4>1. /\ AtOf(q2, w, p) = m /\ AtOf(q, w, back[p]) = m /\ back[p][1] = b
            /\ p[1] = b + 1 /\ p[2] # 0
        BY <3>2, <2>1, <1>1, <1>6
      <4>2. m.dest \in Nat /\ m.dest # b
        <5>1. m.dest \in Inside
          BY <1>2 DEF Message
        <5>. QED  BY <5>1, <1>1
      <4>. QED  BY <3>1, <4>1, <4>2, <1>1 DEF Placed
    <3>3. CASE p # new
      <4>1. /\ back[p][1] = p[1] /\ (p[2] = 0 => back[p][2] = 0)
            /\ AtOf(q2, w, p) = AtOf(q, w, back[p])
        BY <3>3, <2>1, <1>6
      <4>. QED  BY <3>1, <4>1 DEF Placed
    <3>. QED  BY <3>2, <3>3
  <2>. QED  BY <1>6, <1>7, <2>2, <2>3 DEF Moves
<1>. QED  BY <1>4, <1>8 DEF q1, q2

-------------------------------------------------------------------------------
(* The invariant.                                                            *)

\* The last message of its id.
Closes(m) == m.kind = "end" \/ (m.kind = "signal" /\ m.dest = Receiver)

\* What branch b has of message i: its copy, or its answer.
Of(m, i, b) ==
    /\ m.id = i
    /\ (m.kind = "data" /\ m.dest = b) \/ (m.kind = "answer" /\ m.from = b)

\* m may come to the receiver before l does.
Precedes(m, l) ==
    /\ m.id <= l.id
    /\ m.id = l.id => /\ l.kind # "start" /\ ~Closes(m)
                      /\ m.kind = "data" /\ l.kind = "data" => l.dest < m.dest

\* A message is one of those its id was split into.
Sound(m) ==
    /\ m.id \in DOMAIN entered /\ m.ts = stamp[m.id]
    /\ entered[m.id] = "signal" <=> m.kind = "signal"
    /\ m.kind \in {"start", "end", "answer"} => m.dest = Receiver
    /\ m.kind = "data" => m.dest \in Branch
    /\ m.kind = "answer" => m.from \in Branch

LanePart == \A p \in Lane : Sound(At(p)) /\ Placed(p, At(p))

OrderPart == \A p, r \in Lane : Ahead(p, r) => Precedes(At(p), At(r))

\* The open group is of the oldest message in the lane, whose start is gone and
\* whose end is to come, and the receiver knows no cancel of it.
Opened(i) == group # None /\ group.id = i

GroupPart ==
    /\ group = None <=> current = None
    /\ \A i \in Ids : Opened(i) =>
        /\ i \in DOMAIN entered /\ entered[i] = "data"
        /\ current = stamp[i] /\ watermark[Receiver] <= current
        /\ group.answers \subseteq {i} \X Branch
        /\ \A p \in Lane : i <= At(p).id /\ (At(p).id = i => At(p).kind # "start")
        /\ \E p \in Lane : At(p).id = i /\ At(p).kind = "end"

\* The receiver has an open group for every message whose start is gone, unless
\* it knows of a cancel.
Covered(i) == Opened(i) \/ stamp[i] < watermark[Receiver]

OpenPart ==
    \A p \in Lane : At(p).kind \in {"start", "signal"} \/ Covered(At(p).id)
                    \/ \E r \in Lane : At(r).id = At(p).id /\ At(r).kind = "start"

\* The end of a message whose start is in the lane is there, too.
EndPart ==
    \A p \in Lane : At(p).kind = "start" =>
        \/ stamp[At(p).id] < watermark[Receiver]
        \/ \E r \in Lane : At(r).id = At(p).id /\ At(r).kind = "end"

\* What has left is older than what is left.
LeftPart ==
    \A k \in DOMAIN left :
        /\ left[k].id \in DOMAIN entered
        /\ \A p \in Lane : left[k].id < At(p).id
        /\ \A i \in Ids : Opened(i) => left[k].id < i

\* A message that is not gone still has its last message in the lane.
ClosePart ==
    \A i \in DOMAIN entered : Gone(i) \/ \E p \in Lane : At(p).id = i /\ Closes(At(p))

\* Each branch still has its copy of it, has answered, or was silent.
Answered(i, b) == Opened(i) /\ <<i, b>> \in group.answers

WholePart ==
    \A i \in DOMAIN entered : entered[i] = "data" => \A b \in Branch :
        \/ Gone(i) \/ i \in silent \/ Answered(i, b)
        \/ \E p \in Lane : Of(At(p), i, b)

\* A branch at work does not wait in get, and only cancels are spread.
RestPart ==
    /\ \A b \in Branch : working[b] # None => b \notin waiting
    /\ spread.next \in Nodes => spread.ts \in Cancels

BracketInv ==
    /\ TypeOK /\ LanePart /\ OrderPart /\ GroupPart /\ OpenPart /\ EndPart
    /\ LeftPart /\ ClosePart /\ WholePart /\ RestPart

\* The lane of this state and of the next.
Moved(back, lost) == Moves(back, lost, inbox, working, inbox', working')

LEMMA Backed ==
    ASSUME NEW back, NEW lost, Moved(back, lost)
    PROVE  /\ \A p \in Lane' :
                /\ back[p] \in Lane /\ back[p] \notin lost /\ Like(At(p)', At(back[p]))
                /\ Placed(back[p], At(back[p])) => Placed(p, At(p)')
           /\ \A p, r \in Lane' : Ahead(p, r) <=> Ahead(back[p], back[r])
           /\ \A r \in Lane : r \in lost \/ \E p \in Lane' : back[p] = r
  BY DEF Moved, Moves, Lane, At

LEMMA Places ==
    ASSUME TypeOK
    PROVE  /\ inbox \in Queues /\ working \in Hands
           /\ \A n \in Inside : \A i \in 1..Len(inbox[n]) : <<n, i>> \in Lane /\ At(<<n, i>>) = inbox[n][i]
           /\ \A b \in Branch : working[b] # None => <<b, 0>> \in Lane /\ At(<<b, 0>>) = working[b]
           /\ \A p \in Lane :
                /\ p = <<p[1], p[2]>> /\ p[1] \in Inside /\ p[1] \in Nat /\ p[2] \in Nat
                /\ p[2] = 0 => p[1] \in Branch /\ working[p[1]] # None
                /\ p[2] # 0 => p[2] \in 1..Len(inbox[p[1]])
                /\ At(p) \in Message
<1>1. inbox \in Queues /\ working \in Hands
  BY DEF TypeOK, Queues, Hands
<1>2. \A n \in Inside : \A i \in 1..Len(inbox[n]) : <<n, i>> \in Lane /\ At(<<n, i>>) = inbox[n][i]
  <2>. SUFFICES ASSUME NEW n \in Inside, NEW i \in 1..Len(inbox[n])
                PROVE  <<n, i>> \in Lane /\ At(<<n, i>>) = inbox[n][i]
    OBVIOUS
  <2>1. <<n, i>> \in Lane
    BY <1>1, LaneIs DEF Lane
  <2>2. i # 0 /\ <<n, i>>[1] = n /\ <<n, i>>[2] = i
    OBVIOUS
  <2>. QED  BY <2>1, <2>2 DEF At, AtOf
<1>. QED  BY <1>1, <1>2, LaneIs DEF Lane, At, AtOf

LEMMA LaneKept ==
    ASSUME LanePart, NEW back, NEW lost, Moved(back, lost), UNCHANGED entryVars
    PROVE  LanePart'
<1>. SUFFICES ASSUME NEW p \in Lane' PROVE (Sound(At(p)) /\ Placed(p, At(p)))'
  BY DEF LanePart
<1>1. /\ back[p] \in Lane /\ Like(At(p)', At(back[p]))
      /\ Placed(back[p], At(back[p])) => Placed(p, At(p)')
  BY Backed
<1>2. Sound(At(back[p])) /\ Placed(back[p], At(back[p])) /\ entered' = entered /\ stamp' = stamp
  BY <1>1 DEF LanePart, entryVars
<1>3. PICK m, l : m = At(p)' /\ l = At(back[p])
  OBVIOUS
<1>4. Like(m, l) /\ Sound(l) /\ (Sound(m) => Sound(At(p))')
  BY <1>1, <1>2, <1>3 DEF Sound
<1>5. Sound(m)
  BY <1>4 DEF Like, Sound
<1>. QED  BY <1>1, <1>2, <1>3, <1>4, <1>5 DEF Placed

LEMMA OrderKept ==
    ASSUME OrderPart, NEW back, NEW lost, Moved(back, lost)
    PROVE  OrderPart'
<1>. SUFFICES ASSUME NEW p \in Lane', NEW r \in Lane', Ahead(p, r) PROVE Precedes(At(p)', At(r)')
  BY DEF OrderPart, Ahead, Precedes, Closes
<1>1. /\ back[p] \in Lane /\ Like(At(p)', At(back[p])) /\ back[r] \in Lane
      /\ Like(At(r)', At(back[r])) /\ Ahead(back[p], back[r])
  BY Backed
<1>2. Precedes(At(back[p]), At(back[r]))
  BY <1>1 DEF OrderPart
<1>. QED  BY <1>1, <1>2 DEF Precedes, Like, Closes

LEMMA GroupKept ==
    ASSUME TypeOK, GroupPart, NEW back, NEW lost, Moved(back, lost),
           UNCHANGED <<entryVars, group, current>>,
           current # None => watermark'[Receiver] <= current,
           \A r \in Lane : r \in lost /\ At(r).kind = "end" => ~Opened(At(r).id)
    PROVE  GroupPart'
<1>1. group' = group /\ current' = current /\ entered' = entered /\ stamp' = stamp
  BY DEF entryVars
<1>2. \A i : Opened(i)' <=> Opened(i)
  BY <1>1 DEF Opened
<1>3. ASSUME NEW i \in Ids, Opened(i)
      PROVE  /\ \A p \in Lane' : i <= At(p)'.id /\ (At(p)'.id = i => At(p)'.kind # "start")
             /\ \E p \in Lane' : At(p)'.id = i /\ At(p)'.kind = "end"
  <2>1. ASSUME NEW p \in Lane' PROVE i <= At(p)'.id /\ (At(p)'.id = i => At(p)'.kind # "start")
    <3>1. back[p] \in Lane /\ Like(At(p)', At(back[p]))
      BY Backed
    <3>2. i <= At(back[p]).id /\ (At(back[p]).id = i => At(back[p]).kind # "start")
      BY <3>1, <1>3 DEF GroupPart
    <3>. QED  BY <3>1, <3>2 DEF Like
  <2>2. PICK r \in Lane : At(r).id = i /\ At(r).kind = "end"
    BY <1>3 DEF GroupPart
  <2>3. PICK p \in Lane' : back[p] = r
    BY <2>2, <1>3, Backed
  <2>4. Like(At(p)', At(r))
    BY <2>3, Backed
  <2>. QED  BY <2>1, <2>2, <2>4 DEF Like
<1>4. ASSUME NEW i \in Ids, Opened(i)
      PROVE  /\ i \in DOMAIN entered' /\ entered'[i] = "data"
             /\ current' = stamp'[i] /\ watermark'[Receiver] <= current'
             /\ group'.answers \subseteq {i} \X Branch
  <2>1. current # None
    BY <1>4 DEF GroupPart, Opened
  <2>. QED  BY <2>1, <1>1, <1>4 DEF GroupPart
<1>5. group' = None <=> current' = None
  BY <1>1 DEF GroupPart
<1>. QED  BY <1>2, <1>3, <1>4, <1>5 DEF GroupPart

LEMMA OpenKept ==
    ASSUME OpenPart, NEW back, NEW lost, Moved(back, lost),
           \A p \in Lane' : Covered(At(p)'.id) => Covered(At(p).id)',
           \A r \in Lane : r \in lost /\ At(r).kind = "start" =>
               \A p \in Lane' : At(p)'.id = At(r).id => Covered(At(p).id)'
    PROVE  OpenPart'
<1>. SUFFICES ASSUME NEW p \in Lane'
              PROVE  \/ At(p)'.kind \in {"start", "signal"} \/ Covered(At(p).id)'
                     \/ \E r \in Lane' : At(r)'.id = At(p)'.id /\ At(r)'.kind = "start"
  BY DEF OpenPart
<1>1. back[p] \in Lane /\ Like(At(p)', At(back[p]))
  BY Backed
<1>2. \/ At(back[p]).kind \in {"start", "signal"} \/ Covered(At(back[p]).id)
      \/ \E r \in Lane : At(r).id = At(back[p]).id /\ At(r).kind = "start"
  BY <1>1 DEF OpenPart
<1>3. At(p)'.id = At(back[p]).id
  BY <1>1 DEF Like
<1>4. CASE At(back[p]).kind \in {"start", "signal"}
  BY <1>1, <1>4 DEF Like
<1>5. CASE Covered(At(back[p]).id)
  <2>1. Covered(At(p)'.id)
    BY <1>3, <1>5
  <2>. QED  BY <2>1
<1>6. ASSUME NEW r \in Lane, At(r).id = At(back[p]).id, At(r).kind = "start"
      PROVE  Covered(At(p).id)' \/ \E t \in Lane' : At(t)'.id = At(p)'.id /\ At(t)'.kind = "start"
  <2>1. CASE r \in lost
    BY <2>1, <1>3, <1>6
  <2>2. CASE r \notin lost
    <3>1. PICK t \in Lane' : back[t] = r
      BY <2>2, Backed
    <3>2. Like(At(t)', At(r))
      BY <3>1, Backed
    <3>. QED  BY <3>2, <1>3, <1>6 DEF Like
  <2>. QED  BY <2>1, <2>2
<1>. QED  BY <1>2, <1>4, <1>5, <1>6

LEMMA EndKept ==
    ASSUME EndPart, NEW back, NEW lost, Moved(back, lost), UNCHANGED entryVars,
           \A p \in Lane : stamp[At(p).id] < watermark[Receiver] => stamp[At(p).id] < watermark'[Receiver],
           \A r \in Lane : r \in lost /\ At(r).kind = "end" =>
               \/ stamp[At(r).id] < watermark'[Receiver]
               \/ \A p \in Lane : p \notin lost => At(p).id # At(r).id
    PROVE  EndPart'
<1>. SUFFICES ASSUME NEW p \in Lane', At(p)'.kind = "start"
              PROVE  \/ stamp[At(p)'.id] < watermark'[Receiver]
                     \/ \E r \in Lane' : At(r)'.id = At(p)'.id /\ At(r)'.kind = "end"
  BY DEF EndPart, entryVars
<1>1. /\ back[p] \in Lane /\ back[p] \notin lost /\ At(p)'.id = At(back[p]).id
      /\ At(back[p]).kind = "start"
  BY Backed DEF Like
<1>2. CASE stamp[At(back[p]).id] < watermark[Receiver]
  BY <1>1, <1>2
<1>3. ASSUME NEW r \in Lane, At(r).id = At(back[p]).id, At(r).kind = "end"
      PROVE  \/ stamp[At(p)'.id] < watermark'[Receiver]
             \/ \E t \in Lane' : At(t)'.id = At(p)'.id /\ At(t)'.kind = "end"
  <2>1. CASE r \in lost
    BY <2>1, <1>1, <1>3
  <2>2. CASE r \notin lost
    <3>1. PICK t \in Lane' : back[t] = r
      BY <2>2, Backed
    <3>2. Like(At(t)', At(r))
      BY <3>1, Backed
    <3>. QED  BY <3>2, <1>1, <1>3 DEF Like
  <2>. QED  BY <2>1, <2>2
<1>. QED  BY <1>1, <1>2, <1>3 DEF EndPart

LEMMA LeftKept ==
    ASSUME LeftPart, NEW back, NEW lost, Moved(back, lost), UNCHANGED entryVars,
           left' = left, group' \in {group, None}
    PROVE  LeftPart'
<1>. SUFFICES ASSUME NEW k \in DOMAIN left
              PROVE  /\ left[k].id \in DOMAIN entered
                     /\ \A p \in Lane' : left[k].id < At(p)'.id
                     /\ \A i \in Ids : Opened(i)' => left[k].id < i
  BY DEF LeftPart, entryVars
<1>1. \A p \in Lane' : left[k].id < At(p)'.id
  BY Backed DEF LeftPart, Like
<1>2. \A i \in Ids : Opened(i)' => Opened(i)
  BY DEF Opened
<1>. QED  BY <1>1, <1>2 DEF LeftPart

LEMMA CloseKept ==
    ASSUME ClosePart, NEW back, NEW lost, Moved(back, lost), UNCHANGED entryVars,
           \A i \in DOMAIN entered : Gone(i) => Gone(i)',
           \A r \in Lane : \A i \in DOMAIN entered :
               r \in lost /\ At(r).id = i /\ Closes(At(r)) => Gone(i)'
    PROVE  ClosePart'
<1>. SUFFICES ASSUME NEW i \in DOMAIN entered
              PROVE  Gone(i)' \/ \E p \in Lane' : At(p)'.id = i /\ Closes(At(p))'
  BY DEF ClosePart, entryVars
<1>1. CASE Gone(i)
  BY <1>1
<1>2. ASSUME NEW r \in Lane, At(r).id = i, Closes(At(r))
      PROVE  Gone(i)' \/ \E p \in Lane' : At(p)'.id = i /\ Closes(At(p))'
  <2>1. CASE r \in lost
    BY <2>1, <1>2
  <2>2. CASE r \notin lost
    <3>1. PICK p \in Lane' : back[p] = r
      BY <2>2, Backed
    <3>2. Like(At(p)', At(r))
      BY <3>1, Backed
    <3>3. At(p)' = At(r)
      BY <3>2, <1>2 DEF Like, Closes
    <3>. QED  BY <3>3, <1>2 DEF Closes
  <2>. QED  BY <2>1, <2>2
<1>. QED  BY <1>1, <1>2 DEF ClosePart

LEMMA WholeKept ==
    ASSUME WholePart, NEW back, NEW lost, Moved(back, lost), UNCHANGED entryVars,
           silent \subseteq silent',
           \A i \in DOMAIN entered : Gone(i) => Gone(i)',
           \A i \in DOMAIN entered : \A b \in Branch :
               Answered(i, b) => Gone(i)' \/ Answered(i, b)',
           \A r \in Lane : \A i \in DOMAIN entered : \A b \in Branch :
               r \in lost /\ Of(At(r), i, b) => Gone(i)' \/ i \in silent' \/ Answered(i, b)'
    PROVE  WholePart'
<1>. SUFFICES ASSUME NEW i \in DOMAIN entered, entered[i] = "data", NEW b \in Branch
              PROVE  \/ Gone(i)' \/ i \in silent' \/ Answered(i, b)'
                     \/ \E p \in Lane' : Of(At(p)', i, b)
  BY DEF WholePart, entryVars, Of
<1>1. ASSUME NEW r \in Lane, Of(At(r), i, b)
      PROVE  \/ Gone(i)' \/ i \in silent' \/ Answered(i, b)'
             \/ \E p \in Lane' : Of(At(p)', i, b)
  <2>1. CASE r \in lost
    BY <2>1, <1>1
  <2>2. CASE r \notin lost
    <3>1. PICK p \in Lane' : back[p] = r
      BY <2>2, Backed
    <3>2. Like(At(p)', At(r))
      BY <3>1, Backed
    <3>3. Of(At(p)', i, b)
      BY <3>2, <1>1 DEF Like, Of
    <3>. QED  BY <3>3
  <2>. QED  BY <2>1, <2>2
<1>. QED  BY <1>1 DEF WholePart

-------------------------------------------------------------------------------
(* Steps that leave the receiver's group alone.                              *)

\* What is gone stays gone.
LEMMA GoneStays ==
    ASSUME TypeOK, TypeOK', UNCHANGED entryVars, \A n \in Nodes : watermark[n] <= watermark'[n],
           left' = left \/ \E e : left' = Append(left, e) /\ e \in [id : {0} \cup Ids, answers : SUBSET (Ids \X Branch)]
    PROVE  \A i \in DOMAIN entered : (Voided(i) => Voided(i)') /\ (Gone(i) => Gone(i)')
<1>. SUFFICES ASSUME NEW i \in DOMAIN entered
              PROVE  (Voided(i) => Voided(i)') /\ (Gone(i) => Gone(i)')
  OBVIOUS
<1>1. stamp[i] \in Nat /\ \A n \in Nodes : watermark[n] \in Nat /\ watermark'[n] \in Nat
  <2>1. DOMAIN entered = 1..Len(entered) /\ DOMAIN stamp = 1..Len(stamp) /\ Len(stamp) = Len(entered)
    BY DEF TypeOK
  <2>2. stamp[i] \in Stamps
    BY <2>1 DEF TypeOK
  <2>. QED  BY <2>2, BracketAssumption DEF TypeOK
<1>2. Voided(i) => Voided(i)'
  BY <1>1 DEF Voided, entryVars
<1>3. \A k \in DOMAIN left : k \in DOMAIN left' /\ left'[k] = left[k]
  <2>1. left \in Seq([id : {0} \cup Ids, answers : SUBSET (Ids \X Branch)])
    BY DEF TypeOK
  <2>2. CASE left' = left
    BY <2>2
  <2>3. ASSUME NEW e \in [id : {0} \cup Ids, answers : SUBSET (Ids \X Branch)], left' = Append(left, e)
        PROVE  \A k \in DOMAIN left : k \in DOMAIN left' /\ left'[k] = left[k]
    <3>1. /\ DOMAIN left = 1..Len(left) /\ Len(left) \in Nat
          /\ DOMAIN Append(left, e) = 1..(Len(left) + 1)
          /\ \A k \in 1..Len(left) : Append(left, e)[k] = left[k]
      <4>. DEFINE E == [id : {0} \cup Ids, answers : SUBSET (Ids \X Branch)]
      <4>1. e \in E /\ left \in Seq(E)
        BY <2>1
      <4>. HIDE DEF E
      <4>. QED  BY <4>1, AppendAt
    <3>2. \A k \in 1..Len(left) : k \in 1..(Len(left) + 1)
      BY <3>1
    <3>. QED  BY <3>1, <3>2, <2>3
  <2>. QED  BY <2>2, <2>3
<1>. QED  BY <1>2, <1>3 DEF Gone

\* A message may go: the receiver knows a cancel of it, or it is a copy that is
\* void or whose branch was silent, or a branch has caught the signal.
MayGo(m) ==
    \/ stamp[m.id] < watermark[Receiver]
    \/ m.kind = "data" /\ (Voided(m.id) \/ m.id \in silent)
    \/ m.kind = "signal" /\ m.dest # Receiver

LEMMA QuietKeeps ==
    ASSUME BracketInv, TypeOK', RestPart', UNCHANGED <<entryVars, receiverVars>>,
           NEW back, NEW lost, Moved(back, lost), silent \subseteq silent',
           \A n \in Nodes : watermark[n] <= watermark'[n],
           current # None => watermark'[Receiver] <= current,
           \A r \in Lane : \A m : r \in lost /\ m = At(r) => MayGo(m)'
    PROVE  BracketInv'
<1>1. /\ TypeOK /\ LanePart /\ OrderPart /\ GroupPart /\ OpenPart /\ EndPart
      /\ LeftPart /\ ClosePart /\ WholePart /\ RestPart
  BY DEF BracketInv
<1>2. /\ group' = group /\ current' = current /\ left' = left
      /\ entered' = entered /\ stamp' = stamp
  BY DEF receiverVars, entryVars
<1>3. /\ \A i \in DOMAIN entered : (Voided(i) => Voided(i)') /\ (Gone(i) => Gone(i)')
      /\ \A i : Opened(i)' <=> Opened(i)
      /\ \A i, b : Answered(i, b)' <=> Answered(i, b)
  BY <1>1, <1>2, GoneStays DEF Opened, Answered
<1>4. /\ \A r \in Lane : Sound(At(r)) /\ At(r).id \in DOMAIN entered /\ At(r).id \in Ids
      /\ \A i \in DOMAIN entered : stamp[i] \in Nat
      /\ watermark[Receiver] \in Nat /\ watermark'[Receiver] \in Nat
      /\ watermark[Receiver] <= watermark'[Receiver]
  <2>1. \A r \in Lane : Sound(At(r)) /\ At(r).id \in DOMAIN entered /\ At(r).id \in Ids
    BY <1>1, Places DEF LanePart, Sound, Message
  <2>2. DOMAIN entered = 1..Len(entered) /\ DOMAIN stamp = 1..Len(stamp) /\ Len(stamp) = Len(entered)
    BY <1>1 DEF TypeOK
  <2>3. \A i \in DOMAIN entered : stamp[i] \in Nat
    <3>. SUFFICES ASSUME NEW i \in DOMAIN entered PROVE stamp[i] \in Nat
      OBVIOUS
    <3>1. stamp[i] \in Stamps
      BY <1>1, <2>2 DEF TypeOK
    <3>. QED  BY <3>1, BracketAssumption
  <2>4. Receiver \in Nodes
    BY Numbers
  <2>. QED  BY <1>1, <2>1, <2>3, <2>4 DEF TypeOK
<1>5. \A i \in DOMAIN entered : Covered(i) => Covered(i)'
  BY <1>2, <1>3, <1>4 DEF Covered
<1>6. ASSUME NEW r \in Lane, r \in lost
      PROVE  /\ At(r).kind = "end" => ~Opened(At(r).id)
             /\ \A i \in DOMAIN entered : At(r).id = i /\ At(r).kind = "start" => Covered(i)'
             /\ At(r).kind = "end" => stamp[At(r).id] < watermark'[Receiver]
             /\ \A i \in DOMAIN entered : At(r).id = i /\ Closes(At(r)) => Gone(i)'
             /\ \A i \in DOMAIN entered : \A b \in Branch :
                  Of(At(r), i, b) => Gone(i)' \/ i \in silent'
  <2>1. PICK m : m = At(r)
    OBVIOUS
  <2>2. MayGo(m)' /\ m.id \in DOMAIN entered /\ m.id \in Ids /\ Sound(m)
    BY <2>1, <1>4, <1>6
  <2>3. CASE stamp[m.id] < watermark'[Receiver]
    <3>1. ~Opened(m.id)
      <4>. SUFFICES ASSUME Opened(m.id) PROVE FALSE
        OBVIOUS
      <4>1. current = stamp[m.id] /\ current # None
        BY <1>1, <2>2 DEF GroupPart, Opened
      <4>. QED  BY <4>1, <2>2, <2>3, <1>4
    <3>2. Covered(m.id)' /\ Gone(m.id)'
      <4>1. Voided(m.id)'
        BY <2>3, <1>2, Numbers DEF Voided
      <4>. QED  BY <4>1, <2>3, <1>2 DEF Covered, Gone
    <3>3. /\ At(r).kind = "end" => ~Opened(At(r).id)
          /\ \A i \in DOMAIN entered : At(r).id = i => Covered(i)' /\ Gone(i)'
          /\ stamp[At(r).id] < watermark'[Receiver]
      BY <2>1, <2>3, <3>1, <3>2
    <3>. QED  BY <3>3 DEF Of
  <2>4. CASE m.kind = "data" /\ (Voided(m.id)' \/ m.id \in silent')
    BY <2>1, <2>4 DEF Closes, Gone, Of
  <2>5. CASE m.kind = "signal" /\ m.dest # Receiver
    BY <2>1, <2>5 DEF Closes, Of
  <2>. QED  BY <2>2, <2>3, <2>4, <2>5, <1>2 DEF MayGo
<1>7. LanePart' /\ OrderPart'
  BY <1>1, LaneKept, OrderKept
<1>8. GroupPart'
  BY <1>1, <1>2, <1>6, GroupKept
<1>9. OpenPart'
  <2>1. ASSUME NEW p \in Lane' PROVE At(p)'.id \in DOMAIN entered
    BY <1>2, <1>7 DEF LanePart, Sound
  <2>2. ASSUME NEW p \in Lane', Covered(At(p)'.id) PROVE Covered(At(p).id)'
    BY <2>1, <2>2, <1>5
  <2>3. ASSUME NEW r \in Lane, r \in lost, At(r).kind = "start", NEW p \in Lane', At(p)'.id = At(r).id
        PROVE  Covered(At(p).id)'
    <3>1. PICK i \in DOMAIN entered : i = At(r).id
      BY <2>3, <1>4
    <3>2. Covered(i)' /\ i = At(p)'.id
      BY <3>1, <2>3, <1>6
    <3>. QED  BY <3>2
  <2>. QED  BY <1>1, <2>2, <2>3, OpenKept
<1>10. LeftPart'
  BY <1>1, <1>2, LeftKept
<1>11. ClosePart'
  BY <1>1, <1>3, <1>6, CloseKept
<1>12. WholePart'
  BY <1>1, <1>3, <1>6, WholeKept
<1>13. EndPart'
  BY <1>1, <1>4, <1>6, EndKept
<1>. QED  BY <1>7, <1>8, <1>9, <1>10, <1>11, <1>12, <1>13 DEF BracketInv

\* A step that leaves the lane alone, too.
LEMMA LaneStands ==
    ASSUME BracketInv, TypeOK', RestPart', UNCHANGED <<entryVars, receiverVars, inbox, working>>,
           silent \subseteq silent', \A n \in Nodes : watermark[n] <= watermark'[n],
           current # None => watermark'[Receiver] <= current
    PROVE  BracketInv'
<1>1. PICK back : Moved(back, {})
  BY Still, Places DEF Moved, BracketInv
<1>. QED  BY <1>1, QuietKeeps

LEMMA SameWatermark ==
    ASSUME BracketInv, UNCHANGED <<entryVars, watermark>>
    PROVE  /\ \A n \in Nodes : watermark[n] <= watermark'[n]
           /\ current # None => watermark'[Receiver] <= current
<1>1. \A n \in Nodes : watermark[n] \in Nat
  BY DEF BracketInv, TypeOK
<1>2. current # None => group # None /\ group.id \in Ids /\ Opened(group.id)
  BY DEF BracketInv, GroupPart, TypeOK, Group, Opened
<1>3. current # None => watermark[Receiver] <= current
  BY <1>2 DEF BracketInv, GroupPart
<1>. QED  BY <1>1, <1>3

\* The first message of a node's queue.
LEMMA HeadIs ==
    ASSUME BracketInv, NEW n \in Nodes, Has(n)
    PROVE  /\ n \in Inside /\ inbox[n] # <<>> /\ Got(n) = inbox[n][1] /\ Got(n) = Head(inbox[n])
           /\ Got(n) \in Message /\ <<n, 1>> \in Lane /\ At(<<n, 1>>) = Got(n)
           /\ Sound(Got(n)) /\ n <= Got(n).dest
           /\ n \in Branch => working[n] = None
           /\ n = Receiver => \A p \in Lane : p = <<n, 1>> \/ Ahead(<<n, 1>>, p)
<1>1. n \in Inside /\ inbox[n] # <<>> /\ n \in waiting
  BY Numbers DEF Has
<1>2. inbox[n] \in Seq(Message) /\ TypeOK /\ LanePart
  BY <1>1 DEF BracketInv, TypeOK
<1>3. 1 \in 1..Len(inbox[n]) /\ Got(n) = inbox[n][1] /\ Got(n) \in Message
  BY <1>1, <1>2, TailAt DEF Got
<1>4. <<n, 1>> \in Lane /\ At(<<n, 1>>) = Got(n)
  BY <1>1, <1>2, <1>3, Places
<1>5. Sound(Got(n)) /\ n <= Got(n).dest
  <2>1. Sound(At(<<n, 1>>)) /\ Placed(<<n, 1>>, At(<<n, 1>>))
    BY <1>2, <1>4 DEF LanePart
  <2>. QED  BY <2>1, <1>4 DEF Placed
<1>6. n \in Branch => working[n] = None
  BY <1>1 DEF BracketInv, RestPart
<1>7. ASSUME n = Receiver, NEW p \in Lane PROVE p = <<n, 1>> \/ Ahead(<<n, 1>>, p)
  <2>1. /\ p = <<p[1], p[2]>> /\ p[1] \in Inside /\ p[1] \in Nat /\ p[2] \in Nat
        /\ p[2] = 0 => p[1] \in Branch
    BY <1>2, Places
  <2>2. p[1] <= Receiver /\ Receiver \in Nat /\ (p[1] = Receiver => p[2] # 0)
    BY <2>1, Numbers
  <2>3. <<n, 1>>[1] = n /\ <<n, 1>>[2] = 1
    OBVIOUS
  <2>4. CASE p[1] = Receiver /\ p[2] = 1
    BY <2>1, <2>4, <1>7
  <2>5. CASE p[1] # Receiver \/ p[2] # 1
    BY <2>1, <2>2, <2>3, <2>5, <1>7 DEF Ahead
  <2>. QED  BY <2>4, <2>5
<1>. QED  BY <1>1, <1>3, <1>4, <1>5, <1>6, <1>7 DEF Got

\* What the loop does to the waiting nodes.
LEMMA LoopTypes ==
    ASSUME TypeOK, NEW n \in Nodes, Loop(n)
    PROVE  waiting' \in SUBSET Nodes /\ waiting' \subseteq waiting \cup {n}
  BY DEF TypeOK, Loop

-------------------------------------------------------------------------------
(* The event handler, the node loop and the branches.                        *)

LEMMA CancelKeeps == ASSUME BracketInv, NEW c \in Cancels, Cancel(c) PROVE BracketInv'
<1>1. TypeOK /\ RestPart /\ c \in Nat
  BY BracketAssumption DEF BracketInv
<1>2. /\ spread' = [ts |-> c, next |-> 0] /\ cancels' = cancels + 1
      /\ UNCHANGED <<entryVars, receiverVars, inbox, control, watermark, waiting, working, silent>>
  BY DEF Cancel, branchVars
<1>3. TypeOK'
  <2>1. spread' \in [ts : Nat, next : Nodes \cup {Receiver + 1}] /\ cancels' \in Nat
    BY <1>1, <1>2, Numbers DEF TypeOK
  <2>. QED  BY <2>1, <1>1, <1>2 DEF TypeOK, entryVars, receiverVars
<1>4. RestPart'
  BY <1>1, <1>2 DEF RestPart
<1>. QED  BY <1>2, <1>3, <1>4, SameWatermark, LaneStands

LEMMA HandlerPutKeeps == ASSUME BracketInv, HandlerPut PROVE BracketInv'
<1>1. PICK n \in Nodes : n = spread.next
  BY DEF HandlerPut
<1>2. TypeOK /\ RestPart /\ spread.ts \in Cancels /\ control[n] \in Seq(Cancels)
  BY <1>1 DEF BracketInv, RestPart, TypeOK
<1>3. /\ control' = [control EXCEPT ![n] = Append(@, spread.ts)]
      /\ spread' = [spread EXCEPT !.next = @ + 1]
      /\ UNCHANGED <<entryVars, receiverVars, cancels, inbox, watermark, waiting, working, silent>>
  BY <1>1 DEF HandlerPut, branchVars
<1>4. control' \in [Nodes -> Seq(Cancels)]
  <2>1. Append(control[n], spread.ts) \in Seq(Cancels)
    BY <1>2, AppendAt
  <2>. QED  BY <2>1, <1>2, <1>3 DEF TypeOK
<1>5. /\ spread' \in [ts : Nat, next : Nodes \cup {Receiver + 1}]
      /\ spread'.ts = spread.ts
  <2>1. n + 1 \in Nodes \cup {Receiver + 1}
    BY Numbers DEF Nodes
  <2>. QED  BY <2>1, <1>1, <1>2, <1>3 DEF TypeOK
<1>6. TypeOK'
  BY <1>2, <1>3, <1>4, <1>5 DEF TypeOK, entryVars, receiverVars
<1>7. RestPart'
  BY <1>2, <1>3, <1>5 DEF RestPart
<1>. QED  BY <1>3, <1>6, <1>7, SameWatermark, LaneStands

\* What taking a message, without emitting one, does to the queues.
LEMMA Takes ==
    ASSUME BracketInv, NEW n \in Nodes, Has(n), Take(n, <<>>)
    PROVE  /\ inbox' = [inbox EXCEPT ![n] = Tail(@)] /\ inbox' \in Queues
           /\ UNCHANGED <<entryVars, handlerVars, control, watermark>>
           /\ working' = working => \E back : Moved(back, {<<n, 1>>})
<1>1. n \in Inside /\ inbox[n] # <<>> /\ inbox \in Queues /\ working \in Hands
  BY HeadIs, Places DEF BracketInv
<1>2. UNCHANGED <<entryVars, handlerVars, control, watermark>>
  BY DEF Take
<1>3. inbox' = [inbox EXCEPT ![n] = Tail(@)]
  <2>1. CASE n = Receiver
    BY <2>1 DEF Take
  <2>2. CASE n # Receiver
    <3>1. inbox' = [inbox EXCEPT ![n] = Tail(@), ![n + 1] = @ \o <<>>]
      BY <2>2 DEF Take
    <3>2. PICK k \in Inside : k = n + 1 /\ k # n
      BY <1>1, <2>2, Numbers
    <3>3. inbox[k] \in Seq(Message)
      BY <1>1 DEF Queues
    <3>4. inbox[k] \o <<>> = inbox[k]
      BY <3>3
    <3>5. inbox' = [inbox EXCEPT ![n] = Tail(@), ![k] = inbox[k]]
      BY <3>1, <3>2, <3>4, <1>1 DEF Queues
    <3>. QED  BY <3>2, <3>5, <1>1 DEF Queues
  <2>. QED  BY <2>1, <2>2
<1>4. inbox' \in Queues
  BY <1>1, <1>3, Popped
<1>5. ASSUME working' = working PROVE \E back : Moved(back, {<<n, 1>>})
  BY <1>1, <1>3, <1>5, Popped DEF Moved
<1>. QED  BY <1>2, <1>3, <1>4, <1>5

\* Types and rest after a step of node n that only takes a message.
LEMMA TakenTypes ==
    ASSUME BracketInv, NEW n \in Nodes, inbox' \in Queues, working' \in Hands,
           waiting' \in SUBSET Nodes, waiting' \subseteq waiting \cup {n},
           \A b \in Branch : working'[b] # None => working[b] # None \/ b \notin waiting',
           n \in Branch /\ working'[n] # None => n \notin waiting',
           UNCHANGED <<entryVars, handlerVars, control, watermark, receiverVars>>,
           silent' \in SUBSET Ids
    PROVE  TypeOK' /\ RestPart'
<1>1. TypeOK /\ RestPart
  BY DEF BracketInv
<1>2. TypeOK'
  BY <1>1 DEF TypeOK, Queues, Hands, entryVars, handlerVars, receiverVars
<1>3. RestPart'
  BY <1>1 DEF RestPart, handlerVars
<1>. QED  BY <1>2, <1>3

LEMMA DiscardKeeps == ASSUME BracketInv, NEW n \in Nodes, Discard(n) PROVE BracketInv'
<1>1. /\ Has(n) /\ Take(n, <<>>) /\ Loop(n) /\ UNCHANGED <<branchVars, receiverVars>>
      /\ Got(n).dest = n /\ Got(n).ts < watermark[n]
  BY DEF Discard, Consume
<1>2. working' = working /\ silent' = silent
  BY <1>1 DEF branchVars
<1>3. TypeOK /\ RestPart
  BY DEF BracketInv
<1>4. waiting' \in SUBSET Nodes /\ waiting' \subseteq waiting \cup {n}
  BY <1>1, <1>3, LoopTypes
<1>5. n \in Branch => working[n] = None
  BY <1>1, HeadIs
<1>6. TypeOK' /\ RestPart'
  BY <1>1, <1>2, <1>3, <1>4, <1>5, Takes, TakenTypes DEF TypeOK, Hands
<1>7. PICK back : Moved(back, {<<n, 1>>})
  BY <1>1, <1>2, Takes
<1>8. \A r \in Lane : \A m : r \in {<<n, 1>>} /\ m = At(r) => MayGo(m)'
  <2>. SUFFICES ASSUME NEW m, m = Got(n) PROVE MayGo(m)'
    BY <1>1, HeadIs
  <2>1. /\ Sound(m) /\ m.dest = n /\ m.ts < watermark[n] /\ n \in Inside
        /\ m.ts = stamp[m.id] /\ watermark' = watermark /\ stamp' = stamp
    BY <1>1, HeadIs, Takes DEF Sound, entryVars
  <2>2. m \in Message /\ n \in Nodes
    BY <1>1, HeadIs
  <2>3. CASE n = Receiver
    BY <2>1, <2>3 DEF MayGo
  <2>4. CASE n \in Branch
    <3>1. n # Receiver /\ m.kind \in {"data", "signal"}
      <4>1. n # Receiver
        BY <2>4, Numbers
      <4>. QED  BY <4>1, <2>1, <2>2 DEF Sound, Message
    <3>2. Voided(m.id)'
      BY <2>1 DEF Voided
    <3>. QED  BY <3>1, <3>2, <2>1 DEF MayGo
  <2>. QED  BY <2>1, <2>3, <2>4, Numbers
<1>. QED  BY <1>1, <1>2, <1>6, <1>7, <1>8, SameWatermark, Takes, QuietKeeps

LEMMA CatchSignalKeeps ==
    ASSUME BracketInv, NEW b \in Branch, CatchSignal(b)
    PROVE  BracketInv'
<1>1. /\ Has(b) /\ Take(b, <<>>) /\ Loop(b) /\ UNCHANGED <<branchVars, receiverVars>>
      /\ Got(b).dest = b /\ Got(b).kind = "signal" /\ b \in Nodes /\ b # Receiver
  BY Numbers DEF CatchSignal, Consume, Mine
<1>2. working' = working /\ silent' = silent
  BY <1>1 DEF branchVars
<1>3. TypeOK /\ RestPart
  BY DEF BracketInv
<1>4. waiting' \in SUBSET Nodes /\ waiting' \subseteq waiting \cup {b}
  BY <1>1, <1>3, LoopTypes
<1>5. working[b] = None
  BY <1>1, HeadIs
<1>6. TypeOK' /\ RestPart'
  BY <1>1, <1>2, <1>3, <1>4, <1>5, Takes, TakenTypes DEF TypeOK, Hands
<1>7. PICK back : Moved(back, {<<b, 1>>})
  BY <1>1, <1>2, Takes
<1>8. \A r \in Lane : \A m : r \in {<<b, 1>>} /\ m = At(r) => MayGo(m)'
  BY <1>1, HeadIs DEF MayGo
<1>. QED  BY <1>1, <1>2, <1>6, <1>7, <1>8, SameWatermark, Takes, QuietKeeps

LEMMA BeginKeeps == ASSUME BracketInv, NEW b \in Branch, Begin(b) PROVE BracketInv'
<1>1. /\ Has(b) /\ Take(b, <<>>) /\ waiting' = waiting \ {b} /\ UNCHANGED receiverVars
      /\ working' = [working EXCEPT ![b] = Head(inbox[b])] /\ silent' = silent
      /\ Head(inbox[b]).dest = b /\ Head(inbox[b]).kind = "data" /\ b \in Nodes
  BY Numbers DEF Begin, Mine, Got
<1>2. TypeOK /\ RestPart /\ inbox[b] # <<>> /\ working[b] = None /\ inbox \in Queues /\ working \in Hands
  BY <1>1, HeadIs, Places DEF BracketInv
<1>3. inbox' = [inbox EXCEPT ![b] = Tail(@)]
  BY <1>1, Takes
<1>4. /\ inbox' \in Queues /\ working' \in Hands
      /\ \E back : Moved(back, {})
  BY <1>1, <1>2, <1>3, Grasped DEF Moved
<1>5. waiting' \in SUBSET Nodes /\ waiting' \subseteq waiting \cup {b} /\ b \notin waiting'
  BY <1>1, <1>2 DEF TypeOK
<1>6. \A c \in Branch : working'[c] # None => working[c] # None \/ c \notin waiting'
  <2>1. \A c \in Branch : c # b => working'[c] = working[c]
    BY <1>1, <1>2 DEF Hands
  <2>. QED  BY <2>1, <1>5
<1>7. TypeOK' /\ RestPart'
  BY <1>1, <1>2, <1>4, <1>5, <1>6, Takes, TakenTypes DEF TypeOK
<1>8. PICK back : Moved(back, {})
  BY <1>4
<1>9. UNCHANGED <<entryVars, watermark>> /\ silent \subseteq silent'
  BY <1>1, Takes
<1>. QED  BY <1>1, <1>7, <1>8, <1>9, SameWatermark, QuietKeeps

LEMMA ForwardKeeps == ASSUME BracketInv, NEW n \in Nodes, Forward(n) PROVE BracketInv'
<1>1. /\ Has(n) /\ Take(n, <<Got(n)>>) /\ Loop(n) /\ UNCHANGED <<branchVars, receiverVars>>
      /\ Got(n).dest # n
  BY DEF Forward, Consume, Forwarded
<1>2. PICK m : m = Got(n)
  OBVIOUS
<1>3. /\ m \in Message /\ m = Head(inbox[n]) /\ inbox[n] # <<>> /\ n \in Branch /\ working[n] = None
  <2>1. m \in Message /\ m = Head(inbox[n]) /\ n \in Inside /\ n <= m.dest /\ m.dest # n /\ inbox[n] # <<>>
    BY <1>1, <1>2, HeadIs
  <2>2. m.dest \in Inside
    BY <2>1 DEF Message
  <2>3. n \in Branch
    <3>1. m.dest \in Nat /\ m.dest <= Receiver /\ n \in Nat /\ Receiver \in Nat
      BY <2>1, <2>2, Numbers
    <3>2. n # Receiver
      BY <3>1, <2>1
    <3>. QED  BY <3>2, <2>1, Numbers
  <2>. QED  BY <2>1, <2>3, <1>1, HeadIs
<1>4. TypeOK /\ RestPart /\ inbox \in Queues /\ working \in Hands
  BY Places DEF BracketInv
<1>5. inbox' = Behind([inbox EXCEPT ![n] = Tail(@)], n + 1, m)
  <2>1. PICK k \in Inside : k = n + 1 /\ k # n
    BY <1>3, Numbers
  <2>2. inbox' = [inbox EXCEPT ![n] = Tail(@), ![k] = @ \o <<m>>]
    BY <2>1, <1>1, <1>2, <1>3, Numbers DEF Take
  <2>3. inbox[k] \in Seq(Message) /\ inbox[k] \o <<m>> = Append(inbox[k], m)
    <3>1. inbox[k] \in Seq(Message)
      BY <1>4 DEF Queues
    <3>. QED  BY <3>1, <1>3
  <2>4. [inbox EXCEPT ![n] = Tail(@)][k] = inbox[k]
    BY <2>1, <1>4 DEF Queues
  <2>5. inbox' = [inbox EXCEPT ![n] = Tail(@), ![k] = Append(inbox[k], m)]
    BY <2>1, <2>2, <2>3, <1>4 DEF Queues
  <2>6. [[inbox EXCEPT ![n] = Tail(@)] EXCEPT ![k] = Append(@, m)] =
          [inbox EXCEPT ![n] = Tail(@), ![k] = Append(inbox[k], m)]
    BY <2>1, <1>4 DEF Queues
  <2>. QED  BY <2>1, <2>5, <2>6 DEF Behind
<1>6. inbox' \in Queues /\ working' = working /\ silent' = silent
  BY <1>1, <1>2, <1>3, <1>4, <1>5, Passed DEF branchVars
<1>7. PICK back : Moved(back, {})
  BY <1>1, <1>2, <1>3, <1>4, <1>5, <1>6, Passed DEF Moved
<1>8. UNCHANGED <<entryVars, handlerVars, control, watermark>>
  BY <1>1 DEF Take
<1>9. waiting' \in SUBSET Nodes /\ waiting' \subseteq waiting \cup {n}
  BY <1>1, <1>4, LoopTypes
<1>10. TypeOK' /\ RestPart'
  BY <1>1, <1>3, <1>4, <1>6, <1>8, <1>9, TakenTypes DEF TypeOK
<1>. QED  BY <1>1, <1>6, <1>7, <1>8, <1>10, SameWatermark, QuietKeeps

\* A branch at work.
LEMMA AtWork ==
    ASSUME BracketInv, NEW b \in Branch, working[b] # None
    PROVE  /\ working[b] \in Message /\ <<b, 0>> \in Lane /\ At(<<b, 0>>) = working[b]
           /\ Sound(working[b]) /\ working[b].kind = "data" /\ working[b].dest = b
           /\ working[b].id \in Ids /\ working[b].ts \in Stamps
<1>1. <<b, 0>> \in Lane /\ At(<<b, 0>>) = working[b] /\ working[b] \in Message
  BY Places DEF BracketInv
<1>2. Sound(working[b]) /\ Placed(<<b, 0>>, working[b])
  BY <1>1 DEF BracketInv, LanePart
<1>. QED  BY <1>1, <1>2 DEF Placed, Message

LEMMA AnswerKeeps == ASSUME BracketInv, NEW b \in Branch, Answer(b) PROVE BracketInv'
<1>1. PICK m : m = Directed("answer", Receiver, working[b], b)
  OBVIOUS
<1>2. /\ inbox' = Behind(inbox, b + 1, m) /\ working' = [working EXCEPT ![b] = None]
      /\ working[b] # None /\ Loop(b) /\ silent' = silent
      /\ UNCHANGED <<entryVars, handlerVars, control, watermark, receiverVars>>
  BY <1>1 DEF Answer, Behind
<1>3. m \in Message
  BY <1>1, <1>2, AtWork, Numbers, Directs
<1>4. TypeOK /\ inbox \in Queues /\ working \in Hands /\ b \in Nodes
  BY Places, Numbers DEF BracketInv
<1>5. /\ inbox' \in Queues /\ working' \in Hands /\ \E back : Moved(back, {})
  BY <1>1, <1>2, <1>3, <1>4, AtWork, AnswerPut DEF Moved
<1>6. working'[b] = None /\ \A c \in Branch : c # b => working'[c] = working[c]
  BY <1>2, <1>4 DEF Hands
<1>7. waiting' \in SUBSET Nodes /\ waiting' \subseteq waiting \cup {b}
  BY <1>2, <1>4, LoopTypes
<1>8. TypeOK' /\ RestPart'
  BY <1>2, <1>4, <1>5, <1>6, <1>7, TakenTypes DEF TypeOK
<1>9. PICK back : Moved(back, {})
  BY <1>5
<1>. QED  BY <1>2, <1>8, <1>9, SameWatermark, QuietKeeps

LEMMA SayNothingKeeps == ASSUME BracketInv, NEW b \in Branch, SayNothing(b) PROVE BracketInv'
<1>1. PICK m : m = working[b]
  OBVIOUS
<1>2. /\ working' = [working EXCEPT ![b] = None] /\ m # None /\ silent' = silent \cup {m.id}
      /\ inbox' = inbox /\ Loop(b)
      /\ UNCHANGED <<entryVars, handlerVars, control, watermark, receiverVars>>
  BY <1>1 DEF SayNothing
<1>3. TypeOK /\ inbox \in Queues /\ working \in Hands /\ b \in Nodes
  BY Places, Numbers DEF BracketInv
<1>4. working' \in Hands /\ \E back : Moved(back, {<<b, 0>>})
  BY <1>2, <1>3, Dropped DEF Moved
<1>5. working'[b] = None /\ \A c \in Branch : c # b => working'[c] = working[c]
  BY <1>2, <1>3 DEF Hands
<1>6. waiting' \in SUBSET Nodes /\ waiting' \subseteq waiting \cup {b}
  BY <1>2, <1>3, LoopTypes
<1>7. m.id \in Ids /\ m.kind = "data" /\ At(<<b, 0>>) = m
  BY <1>1, <1>2, AtWork
<1>8. TypeOK' /\ RestPart'
  BY <1>2, <1>3, <1>4, <1>5, <1>6, <1>7, TakenTypes DEF TypeOK
<1>9. PICK back : Moved(back, {<<b, 0>>})
  BY <1>4
<1>10. \A r \in Lane : \A l : r \in {<<b, 0>>} /\ l = At(r) => MayGo(l)'
  BY <1>2, <1>7 DEF MayGo
<1>. QED  BY <1>2, <1>8, <1>9, <1>10, SameWatermark, QuietKeeps

\* What reading a cancel does, whatever it voids.
LEMMA CancelRead ==
    ASSUME BracketInv, NEW n \in Nodes, ReadCancel(n)
    PROVE  \E w \in Nat :
             /\ w = Larger(watermark[n], Head(control[n])) /\ watermark[n] <= w
             /\ watermark' = [watermark EXCEPT ![n] = w] /\ watermark' \in [Nodes -> Nat]
             /\ control' \in [Nodes -> Seq(Cancels)]
             /\ \A k \in Nodes : watermark[k] <= watermark'[k]
             /\ UNCHANGED <<entryVars, handlerVars, inbox, silent, left>>
<1>1. /\ control[n] # <<>> /\ control' = [control EXCEPT ![n] = Tail(@)]
      /\ watermark' = [watermark EXCEPT ![n] = Larger(watermark[n], Head(control[n]))]
      /\ UNCHANGED <<entryVars, handlerVars, inbox, silent, left>>
  BY DEF ReadCancel
<1>2. control[n] \in Seq(Cancels) /\ watermark \in [Nodes -> Nat] /\ control \in [Nodes -> Seq(Cancels)]
  BY DEF BracketInv, TypeOK
<1>3. Head(control[n]) \in Nat /\ Tail(control[n]) \in Seq(Cancels)
  BY <1>1, <1>2, TailAt, BracketAssumption
<1>4. PICK w \in Nat : w = Larger(watermark[n], Head(control[n])) /\ watermark[n] <= w
  BY <1>2, <1>3 DEF Larger
<1>5. watermark' \in [Nodes -> Nat] /\ \A k \in Nodes : watermark[k] <= watermark'[k]
  BY <1>1, <1>2, <1>4
<1>. QED  BY <1>1, <1>2, <1>3, <1>4, <1>5

LEMMA ReadCancelKeeps == ASSUME BracketInv, NEW n \in Nodes, ReadCancel(n) PROVE BracketInv'
<1>1. PICK w \in Nat :
             /\ w = Larger(watermark[n], Head(control[n])) /\ watermark[n] <= w
             /\ watermark' = [watermark EXCEPT ![n] = w] /\ watermark' \in [Nodes -> Nat]
             /\ control' \in [Nodes -> Seq(Cancels)]
             /\ \A k \in Nodes : watermark[k] <= watermark'[k]
             /\ UNCHANGED <<entryVars, handlerVars, inbox, silent, left>>
  BY CancelRead
<1>2. /\ IF n \in Branch /\ working[n] # None /\ working[n].ts < w
           THEN working' = [working EXCEPT ![n] = None]
           ELSE working' = working
      /\ IF n = Receiver /\ current # None /\ current < w
           THEN group' = None /\ current' = None
           ELSE group' = group /\ current' = current
      /\ IF n \in Branch /\ working'[n] # None THEN waiting' = waiting ELSE Loop(n)
  BY <1>1 DEF ReadCancel
<1>3. /\ TypeOK /\ LanePart /\ OrderPart /\ GroupPart /\ OpenPart /\ EndPart /\ LeftPart
      /\ ClosePart /\ WholePart /\ RestPart /\ inbox \in Queues /\ working \in Hands
  BY Places DEF BracketInv
<1>4. /\ working' \in Hands /\ \A c \in Branch : working'[c] # None => working'[c] = working[c]
  BY <1>2, <1>3 DEF Hands
<1>5. waiting' \in SUBSET Nodes /\ waiting' \subseteq waiting \cup {n}
  BY <1>2, <1>3, LoopTypes DEF TypeOK
<1>6. TypeOK'
  BY <1>1, <1>2, <1>3, <1>4, <1>5 DEF TypeOK, Hands, entryVars, handlerVars
<1>7. RestPart'
  <2>1. ASSUME NEW c \in Branch, working'[c] # None PROVE c \notin waiting'
    <3>1. working[c] # None /\ c \notin waiting
      BY <2>1, <1>3, <1>4 DEF RestPart
    <3>2. CASE c = n
      BY <2>1, <3>1, <3>2, <1>2
    <3>3. CASE c # n
      BY <3>1, <3>3, <1>5
    <3>. QED  BY <3>2, <3>3
  <2>. QED  BY <2>1, <1>1, <1>3 DEF RestPart, handlerVars
<1>8. /\ watermark'[n] = w /\ \A k \in Nodes : k # n => watermark'[k] = watermark[k]
      /\ entered' = entered /\ stamp' = stamp
  BY <1>1, <1>3 DEF TypeOK, entryVars
<1>9. /\ current # None => watermark[Receiver] <= current /\ current \in Nat
      /\ Receiver \in Nodes /\ watermark[Receiver] \in Nat
  <2>1. current # None => watermark[Receiver] <= current
    BY SameWatermark, <1>3 DEF GroupPart, Opened, TypeOK, Group
  <2>2. current # None => current \in Nat
    BY <1>3, BracketAssumption DEF TypeOK
  <2>. QED  BY <2>1, <2>2, <1>3, Numbers DEF TypeOK
<1>10. CASE n \in Branch /\ working[n] # None /\ working[n].ts < w
  <2>1. working' = [working EXCEPT ![n] = None] /\ n # Receiver /\ group' = group /\ current' = current
    BY <1>2, <1>10, Numbers
  <2>2. PICK back : Moved(back, {<<n, 0>>})
    BY <2>1, <1>1, <1>3, <1>10, Dropped DEF Moved
  <2>3. ASSUME NEW m, m = At(<<n, 0>>) PROVE MayGo(m)'
    <3>1. m.kind = "data" /\ m.ts = stamp[m.id] /\ m.ts < w
      BY <2>3, <1>10, AtWork DEF Sound
    <3>2. Voided(m.id)'
      BY <3>1, <1>8 DEF Voided
    <3>. QED  BY <3>1, <3>2 DEF MayGo
  <2>4. current # None => watermark'[Receiver] <= current
    BY <2>1, <1>8, <1>9
  <2>5. \A r \in Lane : \A m : r \in {<<n, 0>>} /\ m = At(r) => MayGo(m)'
    BY <2>3
  <2>6. UNCHANGED <<entryVars, receiverVars>> /\ silent \subseteq silent'
    BY <2>1, <1>1 DEF receiverVars
  <2>. QED  BY <2>2, <2>4, <2>5, <2>6, <1>1, <1>6, <1>7, QuietKeeps
<1>11. CASE n = Receiver /\ current # None /\ current < w
  <2>1. working' = working /\ group' = None /\ current' = None /\ inbox' = inbox /\ left' = left
    BY <1>1, <1>2, <1>11, Numbers
  <2>2. PICK back : Moved(back, {})
    BY <2>1, <1>3, Still DEF Moved
  <2>3. \A i : ~Opened(i)' /\ \A b : ~Answered(i, b)'
    BY <2>1 DEF Opened, Answered
  <2>4. ASSUME NEW i, Opened(i) PROVE stamp[i] < watermark'[Receiver]
    <3>1. i \in Ids
      BY <2>4, <1>3 DEF Opened, TypeOK, Group
    <3>2. current = stamp[i]
      BY <3>1, <2>4, <1>3 DEF GroupPart
    <3>. QED  BY <3>2, <1>8, <1>11
  <2>5. /\ \A r \in Lane : Sound(At(r)) /\ At(r).id \in DOMAIN entered
        /\ \A i \in DOMAIN entered : stamp[i] \in Nat
    <3>1. DOMAIN entered = 1..Len(entered) /\ DOMAIN stamp = 1..Len(stamp) /\ Len(stamp) = Len(entered)
      BY <1>3 DEF TypeOK
    <3>2. ASSUME NEW i \in DOMAIN entered PROVE stamp[i] \in Nat
      <4>1. stamp[i] \in Stamps
        BY <1>3, <3>1 DEF TypeOK
      <4>. QED  BY <4>1, BracketAssumption
    <3>. QED  BY <3>2, <1>3 DEF LanePart, Sound
  <2>6. \A i \in DOMAIN entered : stamp[i] < watermark[Receiver] => stamp[i] < watermark'[Receiver]
    BY <2>5, <1>1, <1>8, <1>9, <1>11
  <2>7. LanePart' /\ OrderPart'
    BY <2>2, <1>1, <1>3, LaneKept, OrderKept
  <2>8. GroupPart'
    BY <2>1, <2>3 DEF GroupPart
  <2>9. OpenPart'
    <3>1. ASSUME NEW p \in Lane', Covered(At(p)'.id) PROVE Covered(At(p).id)'
      <4>1. PICK i \in DOMAIN entered : i = At(p)'.id
        BY <2>7, <1>8 DEF LanePart, Sound
      <4>2. stamp[i] < watermark'[Receiver]
        BY <4>1, <3>1, <2>4, <2>6 DEF Covered
      <4>. QED  BY <4>1, <4>2, <1>8 DEF Covered
    <3>. QED  BY <3>1, <2>2, <1>3, OpenKept
  <2>10. EndPart'
    <3>1. \A p \in Lane : stamp[At(p).id] < watermark[Receiver] => stamp[At(p).id] < watermark'[Receiver]
      BY <2>5, <2>6
    <3>. QED  BY <3>1, <2>2, <1>1, <1>3, EndKept
  <2>11. LeftPart'
    BY <2>1, <2>2, <1>1, <1>3, LeftKept
  <2>12. \A i \in DOMAIN entered : (Voided(i) => Voided(i)') /\ (Gone(i) => Gone(i)')
    BY <2>1, <1>1, <1>3, <1>6, GoneStays
  <2>13. ClosePart'
    BY <2>2, <2>12, <1>1, <1>3, CloseKept
  <2>14. WholePart'
    <3>1. ASSUME NEW i \in DOMAIN entered, Opened(i) PROVE Gone(i)'
      BY <3>1, <2>4, <1>8, <1>9 DEF Gone, Voided
    <3>2. silent \subseteq silent'
      BY <1>1
    <3>3. \A i \in DOMAIN entered : \A b \in Branch : Answered(i, b) => Gone(i)' \/ Answered(i, b)'
      BY <3>1 DEF Answered
    <3>. QED  BY <3>2, <3>3, <2>2, <2>12, <1>1, <1>3, WholeKept
  <2>. QED  BY <2>7, <2>8, <2>9, <2>10, <2>11, <2>13, <2>14, <1>6, <1>7 DEF BracketInv
<1>12. CASE ~(n \in Branch /\ working[n] # None /\ working[n].ts < w)
            /\ ~(n = Receiver /\ current # None /\ current < w)
  <2>1. working' = working /\ group' = group /\ current' = current
    BY <1>2, <1>12
  <2>2. current # None => watermark'[Receiver] <= current
    BY <1>8, <1>9, <1>12
  <2>3. UNCHANGED <<entryVars, receiverVars, inbox, working>> /\ silent \subseteq silent'
    BY <2>1, <1>1 DEF receiverVars
  <2>. QED  BY <2>2, <2>3, <1>1, <1>6, <1>7, LaneStands
<1>. QED  BY <1>10, <1>11, <1>12

-------------------------------------------------------------------------------
(* The receiver.                                                             *)

\* The group is open for an answer or an end, and none is at a start or a signal.
LEMMA AtReceiver ==
    ASSUME BracketInv, Mine(Receiver), NEW m, m = Got(Receiver)
    PROVE  /\ m \in Message /\ Sound(m) /\ m.id \in Ids /\ m.id \in DOMAIN entered
           /\ watermark[Receiver] <= stamp[m.id] /\ ~(stamp[m.id] < watermark[Receiver])
           /\ m.ts = stamp[m.id]
           /\ \A i : Opened(i) => i = m.id
           /\ m.kind \in {"start", "signal"} => group = None
           /\ m.kind \in {"answer", "end"} => Opened(m.id)
           /\ \A p \in Lane : p # <<Receiver, 1>> =>
                m.id <= At(p).id /\ (m.id = At(p).id => At(p).kind # "start" /\ ~Closes(m))
<1>. DEFINE h == <<Receiver, 1>>
<1>1. /\ TypeOK /\ LanePart /\ OrderPart /\ GroupPart /\ OpenPart /\ Receiver \in Nodes
  BY Numbers DEF BracketInv
<1>2. /\ m \in Message /\ Sound(m) /\ h \in Lane /\ At(h) = m /\ m.dest = Receiver
      /\ m.ts >= watermark[Receiver]
      /\ \A p \in Lane : p = h \/ Ahead(h, p)
  BY <1>1, HeadIs DEF Mine
<1>3. /\ m.id \in Ids /\ m.id \in DOMAIN entered /\ m.ts = stamp[m.id] /\ m.ts \in Nat
      /\ watermark[Receiver] \in Nat
  BY <1>1, <1>2, BracketAssumption DEF Sound, Message, TypeOK
<1>4. \A p \in Lane : p # h => m.id <= At(p).id /\ (m.id = At(p).id => At(p).kind # "start" /\ ~Closes(m))
  BY <1>1, <1>2 DEF OrderPart, Precedes
<1>5. \A p \in Lane : At(p).id \in Nat /\ At(p) \in Message
  BY <1>1, Places DEF Message, Ids
<1>6. ASSUME NEW i, Opened(i)
      PROVE  i = m.id /\ m.kind # "start" /\ entered[m.id] = "data"
  <2>1. i \in Ids
    BY <1>1, <1>6 DEF TypeOK, Opened, Group
  <2>2. /\ entered[i] = "data" /\ i <= m.id /\ (m.id = i => m.kind # "start")
        /\ \E p \in Lane : At(p).id = i /\ At(p).kind = "end"
    BY <2>1, <1>1, <1>2, <1>6 DEF GroupPart
  <2>3. PICK p \in Lane : At(p).id = i /\ At(p).kind = "end"
    BY <2>2
  <2>4. m.id <= i
    BY <2>3, <1>2, <1>3, <1>4 DEF Ids
  <2>5. i = m.id
    BY <2>1, <2>2, <2>4, <1>3 DEF Ids
  <2>. QED  BY <2>2, <2>5
<1>7. group # None => Opened(group.id)
  BY DEF Opened
<1>8. m.kind \in {"start", "signal"} => group = None
  BY <1>2, <1>6, <1>7 DEF Sound
<1>9. m.kind \in {"answer", "end"} => Opened(m.id)
  <2>. SUFFICES ASSUME m.kind \in {"answer", "end"} PROVE Opened(m.id)
    OBVIOUS
  <2>1. \/ Covered(m.id)
        \/ \E r \in Lane : At(r).id = m.id /\ At(r).kind = "start"
    BY <1>1, <1>2 DEF OpenPart
  <2>2. ~\E r \in Lane : At(r).id = m.id /\ At(r).kind = "start"
    BY <1>2, <1>4
  <2>3. ~(stamp[m.id] < watermark[Receiver])
    BY <1>2, <1>3
  <2>. QED  BY <2>1, <2>2, <2>3 DEF Covered
<1>. QED  BY <1>2, <1>3, <1>4, <1>6, <1>8, <1>9

\* What the receiver's taking a message leaves as it was.
LEMMA Received ==
    ASSUME BracketInv, NEW kind, Arrived(kind), UNCHANGED branchVars
    PROVE  /\ Mine(Receiver) /\ Got(Receiver).kind = kind
           /\ UNCHANGED <<entryVars, handlerVars, control, watermark, working, silent>>
           /\ entered' = entered /\ stamp' = stamp
           /\ inbox' \in Queues /\ working' \in Hands
           /\ waiting' \in SUBSET Nodes /\ waiting' \subseteq waiting \cup {Receiver}
           /\ \E back : Moved(back, {<<Receiver, 1>>})
           /\ <<Receiver, 1>> \in Lane /\ At(<<Receiver, 1>>) = Got(Receiver)
           /\ LanePart' /\ OrderPart' /\ RestPart'
<1>1. /\ Mine(Receiver) /\ Has(Receiver) /\ Got(Receiver).kind = kind
      /\ Take(Receiver, <<>>) /\ Loop(Receiver) /\ Receiver \in Nodes
  BY Numbers DEF Arrived, Consume, Mine
<1>2. TypeOK /\ LanePart /\ OrderPart /\ RestPart /\ working \in Hands
  BY Places DEF BracketInv
<1>3. working' = working /\ silent' = silent
  BY DEF branchVars
<1>4. /\ inbox' \in Queues /\ UNCHANGED <<entryVars, handlerVars, control, watermark>>
      /\ \E back : Moved(back, {<<Receiver, 1>>})
  BY <1>1, <1>3, Takes
<1>5. waiting' \in SUBSET Nodes /\ waiting' \subseteq waiting \cup {Receiver}
  BY <1>1, <1>2, LoopTypes
<1>6. LanePart' /\ OrderPart'
  BY <1>2, <1>4, LaneKept, OrderKept
<1>7. RestPart'
  BY <1>2, <1>3, <1>4, <1>5, Numbers DEF RestPart, handlerVars
<1>8. <<Receiver, 1>> \in Lane /\ At(<<Receiver, 1>>) = Got(Receiver)
  BY <1>1, HeadIs
<1>9. entered' = entered /\ stamp' = stamp
  BY <1>4 DEF entryVars
<1>. QED  BY <1>1, <1>2, <1>3, <1>4, <1>5, <1>6, <1>7, <1>8, <1>9

\* Types after it.
LEMMA ReceivedTypes ==
    ASSUME BracketInv, inbox' \in Queues, working' \in Hands, waiting' \in SUBSET Nodes,
           UNCHANGED <<entryVars, handlerVars, control, watermark, silent>>,
           group' \in {None} \cup Group, current' \in {None} \cup Stamps,
           left' \in Seq([id : {0} \cup Ids, answers : SUBSET (Ids \X Branch)])
    PROVE  TypeOK'
<1>1. TypeOK
  BY DEF BracketInv
<1>. QED  BY <1>1 DEF TypeOK, Queues, Hands, entryVars, handlerVars

\* What the steps before the group's end keep.
LEMMA ReceivedParts ==
    ASSUME BracketInv, NEW kind, Arrived(kind), UNCHANGED branchVars, TypeOK', left' = left,
           kind \in {"start", "answer"}
    PROVE  EndPart' /\ ClosePart'
<1>1. PICK back : Moved(back, {<<Receiver, 1>>})
  BY Received
<1>2. /\ TypeOK /\ EndPart /\ ClosePart /\ UNCHANGED <<entryVars, watermark>>
      /\ At(<<Receiver, 1>>).kind = kind
  BY Received DEF BracketInv
<1>3. \A n \in Nodes : watermark[n] <= watermark'[n]
  BY <1>2, SameWatermark
<1>4. \A i \in DOMAIN entered : Gone(i) => Gone(i)'
  BY <1>2, <1>3, GoneStays
<1>5. EndPart'
  BY <1>1, <1>2, EndKept
<1>6. ClosePart'
  <2>1. \A r \in Lane : r \in {<<Receiver, 1>>} => ~Closes(At(r))
    BY <1>2 DEF Closes
  <2>. QED  BY <2>1, <1>1, <1>2, <1>4, CloseKept
<1>. QED  BY <1>5, <1>6

LEMMA OpenKeeps == ASSUME BracketInv, Open PROVE BracketInv'
<1>. DEFINE h == <<Receiver, 1>>
<1>1. PICK m : m = Got(Receiver)
  OBVIOUS
<1>2. /\ Arrived("start") /\ group' = [id |-> m.id, answers |-> {}] /\ current' = m.ts
      /\ UNCHANGED branchVars /\ left' = left
  BY <1>1 DEF Open
<1>3. /\ Mine(Receiver) /\ m.kind = "start" /\ entered' = entered /\ stamp' = stamp
      /\ UNCHANGED <<entryVars, handlerVars, control, watermark, working, silent>>
      /\ inbox' \in Queues /\ working' \in Hands /\ waiting' \in SUBSET Nodes
      /\ h \in Lane /\ At(h) = m /\ LanePart' /\ OrderPart' /\ RestPart'
  BY <1>1, <1>2, Received
<1>4. PICK back : Moved(back, {h})
  BY <1>2, Received
<1>5. /\ TypeOK /\ LanePart /\ GroupPart /\ OpenPart /\ EndPart /\ LeftPart /\ WholePart
      /\ Receiver \in Nodes
  BY Numbers DEF BracketInv
<1>6. /\ m \in Message /\ Sound(m) /\ m.id \in Ids /\ m.id \in DOMAIN entered
      /\ watermark[Receiver] <= stamp[m.id] /\ ~(stamp[m.id] < watermark[Receiver])
      /\ m.ts = stamp[m.id] /\ group = None
      /\ \A p \in Lane : p # h => m.id <= At(p).id /\ (m.id = At(p).id => At(p).kind # "start")
  BY <1>1, <1>3, AtReceiver
<1>7. /\ group' \in Group /\ group' # None /\ current' \in Stamps /\ current' # None
      /\ \A i : ~Opened(i) /\ (Opened(i)' <=> i = m.id)
  <2>1. group' \in Group
    BY <1>2, <1>6 DEF Group
  <2>2. current' \in Stamps /\ current' # None
    BY <1>2, <1>6, BracketAssumption DEF Message
  <2>. QED  BY <2>1, <2>2, <1>2, <1>6, Numbers DEF Opened
<1>8. TypeOK'
  BY <1>2, <1>3, <1>5, <1>7, ReceivedTypes DEF TypeOK
<1>9. EndPart' /\ ClosePart'
  BY <1>2, <1>8, ReceivedParts
<1>10. GroupPart'
  <2>1. entered[m.id] = "data"
    <3>1. entered[m.id] \in {"data", "signal"}
      BY <1>5, <1>6 DEF TypeOK
    <3>. QED  BY <3>1, <1>3, <1>6 DEF Sound
  <2>2. ASSUME NEW p \in Lane' PROVE m.id <= At(p)'.id /\ (At(p)'.id = m.id => At(p)'.kind # "start")
    <3>1. back[p] \in Lane /\ back[p] # h /\ Like(At(p)', At(back[p]))
      BY <1>4, Backed
    <3>2. m.id <= At(back[p]).id /\ (m.id = At(back[p]).id => At(back[p]).kind # "start")
      BY <3>1, <1>6
    <3>. QED  BY <3>1, <3>2 DEF Like
  <2>3. \E p \in Lane' : At(p)'.id = m.id /\ At(p)'.kind = "end"
    <3>1. PICK r \in Lane : At(r).id = m.id /\ At(r).kind = "end"
      BY <1>3, <1>5, <1>6 DEF EndPart
    <3>2. PICK p \in Lane' : back[p] = r
      BY <3>1, <1>3, <1>4, Backed
    <3>3. Like(At(p)', At(r))
      BY <3>2, <1>4, Backed
    <3>. QED  BY <3>1, <3>3 DEF Like
  <2>4. \A i \in Ids : Opened(i)' =>
          /\ i \in DOMAIN entered' /\ entered'[i] = "data"
          /\ current' = stamp'[i] /\ watermark'[Receiver] <= current'
          /\ group'.answers \subseteq {i} \X Branch
    BY <2>1, <1>2, <1>3, <1>6, <1>7
  <2>5. \A i \in Ids : Opened(i)' =>
          /\ \A p \in Lane' : i <= At(p)'.id /\ (At(p)'.id = i => At(p)'.kind # "start")
          /\ \E p \in Lane' : At(p)'.id = i /\ At(p)'.kind = "end"
    BY <2>2, <2>3, <1>7
  <2>. QED  BY <2>4, <2>5, <1>7 DEF GroupPart
<1>11. OpenPart'
  <2>1. ASSUME NEW p \in Lane', Covered(At(p)'.id) PROVE Covered(At(p).id)'
    BY <2>1, <1>3, <1>7 DEF Covered
  <2>2. ASSUME NEW r \in Lane, r \in {h}, NEW p \in Lane', At(p)'.id = At(r).id PROVE Covered(At(p).id)'
    <3>1. At(p)'.id = m.id
      BY <2>2, <1>3
    <3>. QED  BY <3>1, <1>7 DEF Covered
  <2>. QED  BY <2>1, <2>2, <1>4, <1>5, OpenKept
<1>12. LeftPart'
  <2>. SUFFICES ASSUME NEW k \in DOMAIN left
                PROVE  /\ left[k].id \in DOMAIN entered
                       /\ \A p \in Lane' : left[k].id < At(p)'.id
                       /\ \A i \in Ids : Opened(i)' => left[k].id < i
    BY <1>2, <1>3 DEF LeftPart
  <2>1. \A p \in Lane' : left[k].id < At(p)'.id
    BY <1>4, <1>5, Backed DEF LeftPart, Like
  <2>2. left[k].id < m.id
    BY <1>3, <1>5 DEF LeftPart
  <2>. QED  BY <2>1, <2>2, <1>5, <1>7 DEF LeftPart
<1>13. WholePart'
  <2>1. \A i, b : ~Answered(i, b)
    BY <1>7 DEF Answered
  <2>2. \A i, b : ~Of(At(h), i, b)
    BY <1>3 DEF Of
  <2>3. \A n \in Nodes : watermark[n] <= watermark'[n]
    BY <1>3, SameWatermark
  <2>4. \A i \in DOMAIN entered : Gone(i) => Gone(i)'
    BY <2>3, <1>2, <1>3, <1>5, <1>8, GoneStays
  <2>5. silent \subseteq silent'
    BY <1>3
  <2>. QED  BY <2>1, <2>2, <2>4, <2>5, <1>3, <1>4, <1>5, WholeKept
<1>. QED  BY <1>3, <1>8, <1>9, <1>10, <1>11, <1>12, <1>13 DEF BracketInv

\* An answer is always one to the open group's message.
LEMMA Collects ==
    ASSUME BracketInv, Collect, NEW m, m = Got(Receiver)
    PROVE  /\ Opened(m.id) /\ group' = [group EXCEPT !.answers = @ \cup {<<m.id, m.from>>}]
           /\ left' = left /\ m.from \in Branch /\ m.id \in Ids
<1>1. Arrived("answer") /\ Mine(Receiver) /\ m.kind = "answer"
  BY DEF Collect, Arrived
<1>2. Opened(m.id) /\ Sound(m) /\ m.id \in Ids
  BY <1>1, AtReceiver
<1>. QED  BY <1>1, <1>2 DEF Collect, Opened, Sound

LEMMA CollectKeeps == ASSUME BracketInv, Collect PROVE BracketInv'
<1>. DEFINE h == <<Receiver, 1>>
<1>1. PICK m : m = Got(Receiver)
  OBVIOUS
<1>2. /\ Arrived("answer") /\ UNCHANGED branchVars /\ left' = left /\ current' = current
      /\ Opened(m.id) /\ group' = [group EXCEPT !.answers = @ \cup {<<m.id, m.from>>}]
      /\ m.from \in Branch /\ m.id \in Ids
  BY <1>1, Collects DEF Collect
<1>3. /\ Mine(Receiver) /\ m.kind = "answer" /\ entered' = entered /\ stamp' = stamp
      /\ UNCHANGED <<entryVars, handlerVars, control, watermark, working, silent>>
      /\ inbox' \in Queues /\ working' \in Hands /\ waiting' \in SUBSET Nodes
      /\ h \in Lane /\ At(h) = m /\ LanePart' /\ OrderPart' /\ RestPart'
  BY <1>1, <1>2, Received
<1>4. PICK back : Moved(back, {h})
  BY <1>2, Received
<1>5. /\ TypeOK /\ LanePart /\ GroupPart /\ OpenPart /\ EndPart /\ LeftPart /\ WholePart
      /\ Receiver \in Nodes
  BY Numbers DEF BracketInv
<1>6. group \in Group /\ group.id = m.id /\ group # None
  BY <1>2, <1>5 DEF TypeOK, Opened
<1>7. /\ group' \in Group /\ group' # None /\ group'.id = group.id
      /\ group'.answers = group.answers \cup {<<m.id, m.from>>}
  <2>1. group' \in Group
    BY <1>2, <1>6 DEF Group
  <2>. QED  BY <2>1, <1>2, <1>6, Numbers DEF Group
<1>8. \A i : Opened(i)' <=> Opened(i)
  BY <1>6, <1>7 DEF Opened
<1>9. TypeOK'
  BY <1>2, <1>3, <1>5, <1>7, ReceivedTypes DEF TypeOK
<1>10. EndPart' /\ ClosePart'
  BY <1>2, <1>9, ReceivedParts
<1>11. GroupPart'
  <2>1. \A i : Opened(i) => i = m.id
    BY <1>6 DEF Opened
  <2>2. \A p \in Lane' : m.id <= At(p)'.id /\ (At(p)'.id = m.id => At(p)'.kind # "start")
    <3>. SUFFICES ASSUME NEW p \in Lane'
                  PROVE  m.id <= At(p)'.id /\ (At(p)'.id = m.id => At(p)'.kind # "start")
      OBVIOUS
    <3>1. back[p] \in Lane /\ Like(At(p)', At(back[p]))
      BY <1>4, Backed
    <3>2. m.id <= At(back[p]).id /\ (At(back[p]).id = m.id => At(back[p]).kind # "start")
      BY <3>1, <1>2, <1>5 DEF GroupPart
    <3>. QED  BY <3>1, <3>2 DEF Like
  <2>3. \E p \in Lane' : At(p)'.id = m.id /\ At(p)'.kind = "end"
    <3>1. PICK r \in Lane : At(r).id = m.id /\ At(r).kind = "end"
      BY <1>2, <1>5 DEF GroupPart
    <3>2. PICK p \in Lane' : back[p] = r
      BY <3>1, <1>3, <1>4, Backed
    <3>3. Like(At(p)', At(r))
      BY <3>2, <1>4, Backed
    <3>. QED  BY <3>1, <3>3 DEF Like
  <2>4. /\ m.id \in DOMAIN entered' /\ entered'[m.id] = "data"
        /\ current' = stamp'[m.id] /\ watermark'[Receiver] <= current'
        /\ group'.answers \subseteq {m.id} \X Branch
    <3>1. /\ m.id \in DOMAIN entered /\ entered[m.id] = "data"
          /\ current = stamp[m.id] /\ watermark[Receiver] <= current
          /\ group.answers \subseteq {m.id} \X Branch
      BY <1>2, <1>5 DEF GroupPart
    <3>2. watermark' = watermark
      BY <1>3
    <3>. QED  BY <3>1, <3>2, <1>2, <1>3, <1>7
  <2>5. group' = None <=> current' = None
    BY <1>2, <1>5, <1>6, <1>7 DEF GroupPart
  <2>. QED  BY <2>1, <2>2, <2>3, <2>4, <2>5, <1>8 DEF GroupPart
<1>12. OpenPart'
  <2>1. \A i : Covered(i)' <=> Covered(i)
    BY <1>3, <1>8 DEF Covered
  <2>2. ASSUME NEW p \in Lane', Covered(At(p)'.id) PROVE Covered(At(p).id)'
    BY <2>2, <1>3, <1>8 DEF Covered
  <2>3. \A r \in Lane : r \in {h} => At(r).kind # "start"
    BY <1>3
  <2>. QED  BY <2>2, <2>3, <1>4, <1>5, OpenKept
<1>13. LeftPart'
  <2>. SUFFICES ASSUME NEW k \in DOMAIN left
                PROVE  /\ left[k].id \in DOMAIN entered
                       /\ \A p \in Lane' : left[k].id < At(p)'.id
                       /\ \A i \in Ids : Opened(i)' => left[k].id < i
    BY <1>2, <1>3 DEF LeftPart
  <2>1. \A p \in Lane' : left[k].id < At(p)'.id
    BY <1>4, <1>5, Backed DEF LeftPart, Like
  <2>. QED  BY <2>1, <1>5, <1>8 DEF LeftPart
<1>14. WholePart'
  <2>1. \A i, b : Answered(i, b) => Answered(i, b)'
    BY <1>7, <1>8 DEF Answered
  <2>2. ASSUME NEW i, NEW b \in Branch, Of(At(h), i, b) PROVE Answered(i, b)'
    <3>1. i = m.id /\ b = m.from
      BY <2>2, <1>3 DEF Of
    <3>. QED  BY <3>1, <1>2, <1>7, <1>8 DEF Answered
  <2>3. \A n \in Nodes : watermark[n] <= watermark'[n]
    BY <1>3, SameWatermark
  <2>4. \A i \in DOMAIN entered : Gone(i) => Gone(i)'
    BY <2>3, <1>2, <1>3, <1>5, <1>9, GoneStays
  <2>5. silent \subseteq silent'
    BY <1>3
  <2>. QED  BY <2>1, <2>2, <2>4, <2>5, <1>3, <1>4, <1>5, WholeKept
<1>. QED  BY <1>3, <1>9, <1>10, <1>11, <1>12, <1>13, <1>14 DEF BracketInv

\* The last message of its id leaves with what the receiver has of it.
LEMMA DepartKeeps ==
    ASSUME BracketInv, NEW kind, Arrived(kind), UNCHANGED branchVars, NEW m, m = Got(Receiver),
           Closes(m), group' = None, current' = None,
           NEW a \in SUBSET (Ids \X Branch), left' = Append(left, [id |-> m.id, answers |-> a])
    PROVE  BracketInv'
<1>. DEFINE h == <<Receiver, 1>>
            e == [id |-> m.id, answers |-> a]
            E == [id : {0} \cup Ids, answers : SUBSET (Ids \X Branch)]
<1>3. /\ Mine(Receiver) /\ entered' = entered /\ stamp' = stamp
      /\ UNCHANGED <<entryVars, handlerVars, control, watermark, working, silent>>
      /\ inbox' \in Queues /\ working' \in Hands /\ waiting' \in SUBSET Nodes
      /\ h \in Lane /\ At(h) = m /\ LanePart' /\ OrderPart' /\ RestPart'
  BY Received
<1>4. PICK back : Moved(back, {h})
  BY Received
<1>5. /\ TypeOK /\ LanePart /\ GroupPart /\ OpenPart /\ EndPart /\ LeftPart /\ WholePart /\ ClosePart
      /\ Receiver \in Nodes
  BY Numbers DEF BracketInv
<1>6. /\ m.id \in Ids /\ m.id \in DOMAIN entered
      /\ \A i : Opened(i) => i = m.id
      /\ \A p \in Lane : p # h => m.id <= At(p).id /\ m.id # At(p).id
  BY <1>3, AtReceiver
<1>7. \A p \in Lane : At(p).id \in Nat
  BY <1>5, Places DEF Message, Ids
<1>8. \A p \in Lane : p # h => m.id < At(p).id
  BY <1>6, <1>7 DEF Ids
<1>9. ASSUME NEW p \in Lane' PROVE m.id < At(p)'.id /\ At(p)'.id # m.id
  <2>1. back[p] \in Lane /\ back[p] \notin {h} /\ Like(At(p)', At(back[p]))
    <3>. HIDE DEF h
    <3>. QED  BY <1>4, Backed
  <2>. QED  BY <2>1, <1>6, <1>7, <1>8 DEF Like
<1>10. /\ left' \in Seq(E) /\ DOMAIN left' = 1..(Len(left) + 1) /\ Len(left) \in Nat
       /\ left'[Len(left) + 1] = e /\ DOMAIN left = 1..Len(left)
       /\ \A k \in 1..Len(left) : left'[k] = left[k]
  <2>1. left \in Seq(E) /\ e \in E
    BY <1>5, <1>6 DEF TypeOK
  <2>. HIDE DEF E, e
  <2>2. left' = Append(left, e)
    BY DEF e
  <2>. QED  BY <2>1, <2>2, AppendAt
<1>11. \A i : ~Opened(i)' /\ \A b : ~Answered(i, b)'
  BY DEF Opened, Answered
<1>12. TypeOK'
  BY <1>3, <1>10, ReceivedTypes
<1>13. \A i \in DOMAIN entered : Gone(i) => Gone(i)'
  <2>1. \A n \in Nodes : watermark[n] <= watermark'[n]
    BY <1>3, SameWatermark
  <2>2. e \in [id : {0} \cup Ids, answers : SUBSET (Ids \X Branch)]
    BY <1>6
  <2>3. \E x : left' = Append(left, x) /\ x \in [id : {0} \cup Ids, answers : SUBSET (Ids \X Branch)]
    BY <2>2
  <2>. QED  BY <2>1, <2>3, <1>3, <1>5, <1>12, GoneStays
<1>14. Gone(m.id)'
  <2>1. Len(left) + 1 \in DOMAIN left' /\ left'[Len(left) + 1].id = m.id
    BY <1>10
  <2>. QED  BY <2>1 DEF Gone
<1>15. GroupPart'
  BY <1>11 DEF GroupPart
<1>16. OpenPart'
  <2>1. ASSUME NEW p \in Lane', Covered(At(p)'.id) PROVE Covered(At(p).id)'
    <3>1. ~Opened(At(p)'.id)
      BY <1>6, <1>9
    <3>. QED  BY <3>1, <2>1, <1>3 DEF Covered
  <2>2. ASSUME NEW r \in Lane, r \in {h}, NEW p \in Lane', At(p)'.id = At(r).id PROVE Covered(At(p).id)'
    BY <2>2, <1>3, <1>9
  <2>. QED  BY <2>1, <2>2, <1>4, <1>5, OpenKept
<1>17. EndPart'
  BY <1>3, <1>4, <1>5, <1>6, EndKept
<1>18. LeftPart'
  <2>. SUFFICES ASSUME NEW k \in DOMAIN left'
                PROVE  /\ left'[k].id \in DOMAIN entered
                       /\ \A p \in Lane' : left'[k].id < At(p)'.id
    BY <1>3, <1>11 DEF LeftPart
  <2>1. CASE k \in 1..Len(left)
    <3>1. left'[k] = left[k] /\ k \in DOMAIN left
      BY <2>1, <1>10
    <3>2. \A p \in Lane' : left[k].id < At(p)'.id
      BY <3>1, <1>4, <1>5, Backed DEF LeftPart, Like
    <3>. QED  BY <3>1, <3>2, <1>5 DEF LeftPart
  <2>2. CASE k = Len(left) + 1
    BY <2>2, <1>6, <1>9, <1>10
  <2>. QED  BY <2>1, <2>2, <1>10
<1>19. ClosePart'
  <2>1. \A i : At(h).id = i => Gone(i)'
    BY <1>3, <1>14
  <2>. QED  BY <2>1, <1>3, <1>4, <1>5, <1>13, CloseKept
<1>20. WholePart'
  <2>1. \A i, b : Answered(i, b) => Gone(i)'
    BY <1>6, <1>14 DEF Answered
  <2>2. \A i, b : Of(At(h), i, b) => Gone(i)'
    BY <1>3, <1>14 DEF Of
  <2>3. silent \subseteq silent'
    BY <1>3
  <2>. QED  BY <2>1, <2>2, <2>3, <1>3, <1>4, <1>5, <1>13, WholeKept
<1>. QED  BY <1>3, <1>12, <1>15, <1>16, <1>17, <1>18, <1>19, <1>20 DEF BracketInv

\* The open group is the one that ends, and no signal passes an open group.
LEMMA Departs ==
    ASSUME BracketInv, Merge \/ PassSignal, NEW m, m = Got(Receiver)
    PROVE  /\ \/ Merge /\ Arrived("end") /\ m.kind = "end" /\ Opened(m.id)
                 /\ left' = Append(left, [id |-> m.id, answers |-> group.answers])
                 /\ group.answers \in SUBSET (Ids \X Branch)
              \/ PassSignal /\ Arrived("signal") /\ m.kind = "signal"
                 /\ left' = Append(left, [id |-> m.id, answers |-> {}])
           /\ UNCHANGED branchVars /\ group' = None /\ current' = None
           /\ Closes(m) /\ m.id \in Ids /\ m.id \in DOMAIN entered /\ Mine(Receiver) /\ Sound(m)
<1>1. TypeOK /\ GroupPart
  BY DEF BracketInv
<1>2. Mine(Receiver) /\ m.dest = Receiver
  BY DEF Merge, PassSignal, Arrived, Mine
<1>3. m.id \in Ids /\ m.id \in DOMAIN entered /\ Sound(m)
  BY <1>2, AtReceiver
<1>4. CASE Merge
  <2>1. Arrived("end") /\ m.kind = "end"
    BY <1>4 DEF Merge, Arrived
  <2>2. Opened(m.id)
    BY <1>2, <2>1, AtReceiver
  <2>3. group # None /\ group.id = m.id /\ group \in Group
    BY <2>2, <1>1 DEF Opened, TypeOK
  <2>4. group.answers \in SUBSET (Ids \X Branch)
    BY <2>3 DEF Group
  <2>5. /\ left' = Append(left, [id |-> m.id, answers |-> group.answers])
        /\ group' = None /\ current' = None /\ UNCHANGED branchVars
    BY <1>4, <2>3 DEF Merge, Leaves
  <2>. QED  BY <2>1, <2>2, <2>4, <2>5, <1>2, <1>3, <1>4 DEF Closes
<1>5. CASE PassSignal
  <2>1. /\ Arrived("signal") /\ m.kind = "signal" /\ UNCHANGED <<branchVars, group, current>>
        /\ left' = Append(left, [id |-> m.id, answers |-> {}])
    BY <1>5 DEF PassSignal, Arrived, Leaves
  <2>2. group = None
    BY <1>2, <2>1, AtReceiver
  <2>3. group' = None /\ current' = None
    BY <2>1, <2>2, <1>1 DEF GroupPart
  <2>. QED  BY <2>1, <2>3, <1>2, <1>3, <1>5 DEF Closes
<1>. QED  BY <1>4, <1>5

LEMMA MergeKeeps == ASSUME BracketInv, Merge \/ PassSignal PROVE BracketInv'
<1>1. PICK m : m = Got(Receiver)
  OBVIOUS
<1>2. {} \in SUBSET (Ids \X Branch)
  OBVIOUS
<1>. QED  BY <1>1, <1>2, Departs, DepartKeeps

-------------------------------------------------------------------------------
(* The dispatcher.                                                           *)

\* s is what the dispatcher makes of a message.
Block(s, kind, m) ==
    /\ s \in Seq(Message)
    /\ \A i \in DOMAIN s :
         /\ s[i].id = m.id /\ s[i].ts = m.ts /\ s[i].kind # "answer"
         /\ kind = "signal" <=> s[i].kind = "signal"
         /\ s[i].kind \in {"start", "end"} => s[i].dest = Receiver
         /\ s[i].kind = "data" => s[i].dest \in Branch
    /\ \A i, j \in DOMAIN s : i < j => Precedes(s[i], s[j])
    /\ \E i \in DOMAIN s : Closes(s[i])
    /\ kind = "data" =>
         /\ \E i \in DOMAIN s : s[i].kind = "start"
         /\ \E i \in DOMAIN s : s[i].kind = "end"
         /\ \A b \in Branch : \E i \in DOMAIN s : s[i].kind = "data" /\ s[i].dest = b

LEMMA DataBlock ==
    ASSUME NEW m, m.id \in Ids, m.ts \in Stamps
    PROVE  Block(Dispatched(m), "data", m)
<1>. DEFINE C == Copies("data", Branch, m)
            a == Directed("start", Receiver, m, None)
            z == Directed("end", Receiver, m, None)
            s == Dispatched(m)
<1>1. CopiesUpTo(C, "data", Branch, m, Branches)
  BY CopiesFit
<1>2. a \in Message /\ z \in Message
  BY Numbers, Directs
<1>3. /\ a.kind = "start" /\ a.dest = Receiver /\ a.id = m.id /\ a.ts = m.ts
      /\ z.kind = "end" /\ z.dest = Receiver /\ z.id = m.id /\ z.ts = m.ts
      /\ m.id \in Nat
  BY DEF Directed, Ids
<1>4. s = (<<a>> \o C) \o <<z>>
  BY DEF Dispatched
<1>. HIDE DEF C, a, z, s
<1>5. /\ C \in Seq(Message) /\ DOMAIN C = 1..Len(C) /\ Len(C) \in Nat
      /\ \A i \in 1..Len(C) : \E b \in Branch : C[i] = Directed("data", b, m, None)
      /\ \A i, j \in 1..Len(C) : i < j => C[j].dest < C[i].dest
      /\ \A b \in Branch : \E i \in 1..Len(C) : C[i] = Directed("data", b, m, None)
  <2>1. C \in Seq(Message) /\ DOMAIN C = 1..Len(C) /\ Len(C) \in Nat
    BY <1>1 DEF CopiesUpTo
  <2>2. \A b \in Branch : b <= Branches
    BY BracketAssumption DEF Branch
  <2>. QED  BY <2>1, <2>2, <1>1 DEF CopiesUpTo
<1>6. \A i \in 1..Len(C) : /\ C[i].kind = "data" /\ C[i].dest \in Branch
                           /\ C[i].id = m.id /\ C[i].ts = m.ts
  BY <1>5 DEF Directed
<1>7. /\ s \in Seq(Message) /\ DOMAIN s = 1..(Len(C) + 2)
      /\ s[1] = a /\ s[Len(C) + 2] = z
      /\ \A i \in 2..(Len(C) + 1) : s[i] = C[i - 1] /\ i - 1 \in 1..Len(C)
  <2>. DEFINE r == <<a>> \o C
  <2>1. /\ r \in Seq(Message) /\ DOMAIN r = 1..(Len(C) + 1) /\ r[1] = a
        /\ \A i \in 2..(Len(C) + 1) : r[i] = C[i - 1]
    BY <1>2, <1>5, ConsAt
  <2>2. Len(r) = Len(C) + 1
    BY <2>1, <1>5
  <2>. HIDE DEF r
  <2>3. s = Append(r, z)
    <3>1. s = r \o <<z>>
      BY <1>4 DEF r
    <3>. QED  BY <3>1, <2>1, <1>2
  <2>4. /\ s \in Seq(Message) /\ DOMAIN s = 1..(Len(r) + 1) /\ s[Len(r) + 1] = z
        /\ \A i \in 1..Len(r) : s[i] = r[i]
    BY <2>1, <2>3, <1>2, AppendAt
  <2>5. /\ 1 \in 1..Len(r) /\ Len(C) + 2 = Len(r) + 1
        /\ \A i \in 2..(Len(C) + 1) : i \in 1..Len(r) /\ i - 1 \in 1..Len(C)
    BY <2>2, <1>5
  <2>. QED  BY <2>1, <2>4, <2>5
<1>8. \A i \in DOMAIN s : i = 1 \/ i \in 2..(Len(C) + 1) \/ i = Len(C) + 2
  BY <1>5, <1>7
<1>9. \A i \in DOMAIN s : /\ s[i].id = m.id /\ s[i].ts = m.ts /\ s[i].kind \in {"start", "end", "data"}
                          /\ s[i].kind \in {"start", "end"} => s[i].dest = Receiver
                          /\ s[i].kind = "data" => s[i].dest \in Branch
  BY <1>3, <1>6, <1>7, <1>8
<1>10. \A i, j \in DOMAIN s : i < j => Precedes(s[i], s[j])
  <2>. SUFFICES ASSUME NEW i \in DOMAIN s, NEW j \in DOMAIN s, i < j PROVE Precedes(s[i], s[j])
    OBVIOUS
  <2>1. j # 1 /\ i # Len(C) + 2
    BY <1>5, <1>7
  <2>2. s[j].kind # "start" /\ s[i].kind # "end"
    BY <2>1, <1>3, <1>6, <1>7, <1>8
  <2>3. s[i].kind = "data" /\ s[j].kind = "data" => s[j].dest < s[i].dest
    <3>. SUFFICES ASSUME s[i].kind = "data", s[j].kind = "data" PROVE s[j].dest < s[i].dest
      OBVIOUS
    <3>1. i \in 2..(Len(C) + 1) /\ j \in 2..(Len(C) + 1)
      BY <2>1, <1>3, <1>7, <1>8
    <3>2. i - 1 < j - 1
      BY <3>1
    <3>. QED  BY <3>1, <3>2, <1>5, <1>7
  <2>. QED  BY <2>2, <2>3, <1>3, <1>9 DEF Precedes, Closes
<1>11. 1 \in DOMAIN s /\ Len(C) + 2 \in DOMAIN s
  BY <1>5, <1>7
<1>12. ASSUME NEW b \in Branch PROVE \E i \in DOMAIN s : s[i].kind = "data" /\ s[i].dest = b
  <2>1. PICK i \in 1..Len(C) : C[i] = Directed("data", b, m, None)
    BY <1>5
  <2>2. i + 1 \in 2..(Len(C) + 1) /\ i + 1 - 1 = i /\ i + 1 \in DOMAIN s
    BY <1>5, <1>7
  <2>3. s[i + 1] = Directed("data", b, m, None)
    BY <2>1, <2>2, <1>7
  <2>. QED  BY <2>2, <2>3 DEF Directed
<1>13. Block(s, "data", m)
  <2>1. \E i \in DOMAIN s : Closes(s[i])
    BY <1>3, <1>7, <1>11 DEF Closes
  <2>2. (\E i \in DOMAIN s : s[i].kind = "start") /\ (\E i \in DOMAIN s : s[i].kind = "end")
    BY <1>3, <1>7, <1>11
  <2>. QED  BY <2>1, <2>2, <1>7, <1>9, <1>10, <1>12 DEF Block
<1>. QED  BY <1>13 DEF s

LEMMA SignalBlock ==
    ASSUME NEW m, m.id \in Ids, m.ts \in Stamps
    PROVE  Block(DispatchedSignal(m), "signal", m)
<1>. DEFINE C == Copies("signal", Subscribed, m)
            z == Directed("signal", Receiver, m, None)
            s == DispatchedSignal(m)
<1>1. CopiesUpTo(C, "signal", Subscribed, m, Branches)
  BY CopiesFit, BracketAssumption
<1>2. /\ z \in Message
      /\ z.kind = "signal" /\ z.dest = Receiver /\ z.id = m.id /\ z.ts = m.ts /\ m.id \in Nat
  BY Numbers, Directs DEF Directed, Ids
<1>3. s = Append(C, z)
  BY DEF DispatchedSignal
<1>. HIDE DEF C, z, s
<1>4. /\ C \in Seq(Message) /\ DOMAIN C = 1..Len(C) /\ Len(C) \in Nat
      /\ \A i \in 1..Len(C) : \E b \in Subscribed : C[i] = Directed("signal", b, m, None)
  BY <1>1 DEF CopiesUpTo
<1>5. \A i \in 1..Len(C) : /\ C[i].kind = "signal" /\ C[i].dest # Receiver
                           /\ C[i].id = m.id /\ C[i].ts = m.ts
  BY <1>4, BracketAssumption, Numbers DEF Directed
<1>6. /\ s \in Seq(Message) /\ DOMAIN s = 1..(Len(C) + 1) /\ s[Len(C) + 1] = z
      /\ \A i \in 1..Len(C) : s[i] = C[i]
  BY <1>2, <1>3, <1>4, AppendAt
<1>7. \A i \in DOMAIN s : i \in 1..Len(C) \/ i = Len(C) + 1
  BY <1>4, <1>6
<1>8. \A i \in DOMAIN s : s[i].id = m.id /\ s[i].ts = m.ts /\ s[i].kind = "signal"
  BY <1>2, <1>5, <1>6, <1>7
<1>9. \A i, j \in DOMAIN s : i < j => Precedes(s[i], s[j])
  <2>. SUFFICES ASSUME NEW i \in DOMAIN s, NEW j \in DOMAIN s, i < j PROVE Precedes(s[i], s[j])
    OBVIOUS
  <2>1. i \in 1..Len(C)
    BY <1>4, <1>6
  <2>. QED  BY <2>1, <1>2, <1>5, <1>6, <1>8 DEF Precedes, Closes
<1>10. \E i \in DOMAIN s : Closes(s[i])
  <2>1. Len(C) + 1 \in DOMAIN s
    BY <1>4, <1>6
  <2>. QED  BY <2>1, <1>2, <1>6 DEF Closes
<1>11. Block(s, "signal", m)
  BY <1>6, <1>8, <1>9, <1>10 DEF Block
<1>. QED  BY <1>11 DEF s

\* The lane when messages are put behind it.
LEMMA LaneGrows ==
    ASSUME TypeOK, NEW s \in Seq(Message), inbox' = [inbox EXCEPT ![1] = @ \o s], working' = working
    PROVE  /\ inbox' \in Queues
           /\ \A p \in Lane : p \in Lane' /\ At(p)' = At(p)
           /\ \A i \in DOMAIN s : /\ <<1, Len(inbox[1]) + i>> \in Lane'
                                  /\ AtOf(inbox', working', <<1, Len(inbox[1]) + i>>) = s[i]
           /\ \A p \in Lane' : p \in Lane
                \/ \E i \in DOMAIN s : /\ p = <<1, Len(inbox[1]) + i>>
                                       /\ AtOf(inbox', working', p) = s[i]
<1>. DEFINE l == Len(inbox[1])
            L  == LaneOf(inbox, working)
            L2 == LaneOf(inbox', working)
<1>1. inbox \in Queues /\ working \in Hands
  BY Places
<1>2. /\ 1 \in Inside /\ inbox[1] \in Seq(Message) /\ l \in Nat /\ Len(s) \in Nat /\ DOMAIN s = 1..Len(s)
      /\ \A k \in Inside : inbox[k] \in Seq(Message)
  BY <1>1, Numbers DEF Queues
<1>3. /\ inbox[1] \o s \in Seq(Message) /\ DOMAIN (inbox[1] \o s) = 1..(l + Len(s))
      /\ \A i \in 1..l : (inbox[1] \o s)[i] = inbox[1][i]
      /\ \A i \in 1..Len(s) : (inbox[1] \o s)[l + i] = s[i]
      /\ \A i \in (l + 1)..(l + Len(s)) : i - l \in 1..Len(s) /\ (inbox[1] \o s)[i] = s[i - l]
  BY <1>2, ConcatAt
<1>4. /\ inbox' \in Queues /\ inbox'[1] = inbox[1] \o s
      /\ \A k \in Inside : k # 1 => inbox'[k] = inbox[k]
  BY <1>1, <1>2, <1>3 DEF Queues
<1>5. Len(inbox'[1]) = l + Len(s)
  BY <1>2, <1>3, <1>4
<1>6. ASSUME NEW r \in Queues
      PROVE  /\ \A n \in Inside : \A i \in 1..Len(r[n]) : <<n, i>> \in LaneOf(r, working)
             /\ \A b \in Branch : working[b] # None => <<b, 0>> \in LaneOf(r, working)
             /\ \A p \in LaneOf(r, working) :
                  /\ p = <<p[1], p[2]>> /\ p[1] \in Inside /\ p[2] \in Nat
                  /\ p[2] = 0 => p[1] \in Branch /\ working[p[1]] # None
                  /\ p[2] # 0 => p[2] \in 1..Len(r[p[1]])
  BY <1>1, LaneIs
<1>7. /\ \A n \in Inside : \A i \in 1..Len(inbox'[n]) : <<n, i>> \in L2
      /\ \A b \in Branch : working[b] # None => <<b, 0>> \in L2
      /\ \A p \in L2 : /\ p = <<p[1], p[2]>> /\ p[1] \in Inside /\ p[2] \in Nat
                       /\ p[2] = 0 => p[1] \in Branch /\ working[p[1]] # None
                       /\ p[2] # 0 => p[2] \in 1..Len(inbox'[p[1]])
  BY <1>4, <1>6
<1>. HIDE DEF l, L, L2
<1>8. ASSUME NEW p \in L PROVE p \in L2 /\ AtOf(inbox', working, p) = AtOf(inbox, working, p)
  <2>1. /\ p = <<p[1], p[2]>> /\ p[1] \in Inside /\ p[2] \in Nat
        /\ p[2] = 0 => p[1] \in Branch /\ working[p[1]] # None
        /\ p[2] # 0 => p[2] \in 1..Len(inbox[p[1]])
    BY <1>1, <1>6 DEF L
  <2>2. CASE p[2] = 0
    <3>1. <<p[1], 0>> \in L2
      BY <2>1, <2>2, <1>7
    <3>. QED  BY <3>1, <2>1, <2>2 DEF AtOf
  <2>3. CASE p[2] # 0 /\ p[1] # 1
    <3>1. inbox'[p[1]] = inbox[p[1]]
      BY <2>1, <2>3, <1>4
    <3>2. <<p[1], p[2]>> \in L2
      BY <3>1, <2>1, <2>3, <1>7
    <3>. QED  BY <3>1, <3>2, <2>1, <2>3 DEF AtOf
  <2>4. CASE p[2] # 0 /\ p[1] = 1
    <3>1. p[2] \in 1..l /\ p[2] \in 1..Len(inbox'[1])
      BY <2>1, <2>4, <1>2, <1>5 DEF l
    <3>2. <<1, p[2]>> \in L2 /\ inbox'[1][p[2]] = inbox[1][p[2]]
      BY <3>1, <1>2, <1>3, <1>4, <1>7
    <3>. QED  BY <3>2, <2>1, <2>4 DEF AtOf
  <2>. QED  BY <2>2, <2>3, <2>4
<1>9. ASSUME NEW i \in DOMAIN s PROVE <<1, l + i>> \in L2 /\ AtOf(inbox', working, <<1, l + i>>) = s[i]
  <2>1. l + i \in 1..Len(inbox'[1]) /\ l + i # 0 /\ i \in 1..Len(s)
    BY <1>2, <1>5
  <2>2. <<1, l + i>> \in L2
    BY <2>1, <1>2, <1>7
  <2>3. inbox'[1][l + i] = s[i]
    BY <2>1, <1>3, <1>4
  <2>4. PICK k : k = l + i
    OBVIOUS
  <2>5. AtOf(inbox', working, <<1, k>>) = inbox'[1][k]
    BY <2>1, <2>4 DEF AtOf
  <2>. QED  BY <2>2, <2>3, <2>4, <2>5
<1>10. ASSUME NEW p \in L2, p \notin L PROVE \E i \in DOMAIN s : p = <<1, l + i>>
  <2>1. /\ p = <<p[1], p[2]>> /\ p[1] \in Inside /\ p[2] \in Nat
        /\ p[2] = 0 => p[1] \in Branch /\ working[p[1]] # None
        /\ p[2] # 0 => p[2] \in 1..Len(inbox'[p[1]])
    BY <1>7
  <2>2. p[2] # 0
    BY <2>1, <1>10, <1>1, <1>6 DEF L
  <2>3. p[1] = 1
    <3>1. SUFFICES ASSUME p[1] # 1 PROVE FALSE
      OBVIOUS
    <3>2. p[2] \in 1..Len(inbox[p[1]])
      BY <3>1, <2>1, <2>2, <1>4
    <3>3. <<p[1], p[2]>> \in L
      BY <3>2, <2>1, <1>1, <1>6 DEF L
    <3>. QED  BY <3>3, <2>1, <1>10
  <2>4. p[2] \notin 1..l
    <3>1. SUFFICES ASSUME p[2] \in 1..l PROVE FALSE
      OBVIOUS
    <3>2. <<1, p[2]>> \in L
      BY <3>1, <1>1, <1>2, <1>6 DEF l, L
    <3>. QED  BY <3>2, <2>1, <2>3, <1>10
  <2>5. p[2] - l \in 1..Len(s) /\ l + (p[2] - l) = p[2]
    BY <2>1, <2>2, <2>3, <2>4, <1>2, <1>5
  <2>6. p = <<1, l + (p[2] - l)>>
    BY <2>1, <2>3, <2>5
  <2>. QED  BY <2>5, <2>6, <1>2
<1>11. \A p \in L2 : p \in L \/ \E i \in DOMAIN s : p = <<1, l + i>> /\ AtOf(inbox', working, p) = s[i]
  BY <1>9, <1>10
<1>. QED  BY <1>4, <1>8, <1>9, <1>11 DEF l, L, L2, Lane, At

\* What the entry of the n-th message does to the kinds and the stamps.
LEMMA Enters ==
    ASSUME BracketInv, NEW kind \in {"data", "signal"}, NEW t \in Stamps, Enter(kind, t),
           NEW n, n = Len(entered) + 1
    PROVE  /\ n \in Ids /\ n \in Nat /\ n \notin DOMAIN entered
           /\ entered' \in Seq({"data", "signal"}) /\ stamp' \in Seq(Stamps)
           /\ entered' = Append(entered, kind)
           /\ Len(stamp') = Len(entered') /\ Len(entered') <= MaxInputs
           /\ DOMAIN entered' = DOMAIN entered \cup {n}
           /\ entered'[n] = kind /\ stamp'[n] = t
           /\ \A i \in DOMAIN entered :
                i \in Nat /\ i < n /\ entered'[i] = entered[i] /\ stamp'[i] = stamp[i]
           /\ UNCHANGED <<handlerVars, control, watermark, branchVars, receiverVars>>
           /\ waiting' \in SUBSET Nodes /\ waiting' \subseteq waiting \cup {0}
<1>1. /\ TypeOK /\ Len(entered) < MaxInputs /\ Loop(0)
      /\ entered' = Append(entered, kind) /\ stamp' = Append(stamp, t)
      /\ UNCHANGED <<handlerVars, control, watermark, branchVars, receiverVars>>
  BY DEF BracketInv, Enter
<1>2. /\ entered \in Seq({"data", "signal"}) /\ stamp \in Seq(Stamps) /\ Len(stamp) = Len(entered)
  BY <1>1 DEF TypeOK
<1>3. /\ DOMAIN entered = 1..Len(entered) /\ Len(entered) \in Nat
      /\ DOMAIN entered' = 1..(Len(entered) + 1) /\ Len(entered') = Len(entered) + 1
      /\ entered'[Len(entered) + 1] = kind /\ entered' \in Seq({"data", "signal"})
      /\ \A i \in 1..Len(entered) : entered'[i] = entered[i]
  BY <1>1, <1>2, AppendAt
<1>4. /\ Len(stamp') = Len(stamp) + 1 /\ stamp'[Len(stamp) + 1] = t /\ stamp' \in Seq(Stamps)
      /\ \A i \in 1..Len(stamp) : stamp'[i] = stamp[i]
  BY <1>1, <1>2, AppendAt
<1>5. n \in Ids /\ n \in Nat /\ MaxInputs \in Nat
  BY <1>1, <1>3, BracketAssumption DEF Ids
<1>6. /\ DOMAIN entered' = DOMAIN entered \cup {n} /\ n \notin DOMAIN entered
      /\ \A i \in DOMAIN entered : i \in Nat /\ i < n
  BY <1>3
<1>7. waiting' \in SUBSET Nodes /\ waiting' \subseteq waiting \cup {0}
  BY <1>1, Numbers, LoopTypes
<1>. QED  BY <1>1, <1>2, <1>3, <1>4, <1>5, <1>6, <1>7

\* A message that enters: s is put behind the lane, nothing if it is void.
LEMMA EnteredKeeps ==
    ASSUME BracketInv, NEW kind \in {"data", "signal"}, NEW t \in Stamps, Enter(kind, t),
           NEW n, n = Len(entered) + 1, NEW s \in Seq(Message),
           inbox' = [inbox EXCEPT ![1] = @ \o s],
           \/ Block(s, kind, [id |-> n, ts |-> t])
           \/ s = <<>> /\ t < watermark[0]
    PROVE  BracketInv'
<1>. DEFINE l == Len(inbox[1])
<1>1. /\ TypeOK /\ LanePart /\ OrderPart /\ GroupPart /\ OpenPart /\ EndPart
      /\ LeftPart /\ ClosePart /\ WholePart /\ RestPart
  BY DEF BracketInv
<1>2. /\ n \in Ids /\ n \in Nat /\ n \notin DOMAIN entered
      /\ entered' \in Seq({"data", "signal"}) /\ stamp' \in Seq(Stamps)
      /\ Len(stamp') = Len(entered') /\ Len(entered') <= MaxInputs
      /\ DOMAIN entered' = DOMAIN entered \cup {n} /\ entered'[n] = kind /\ stamp'[n] = t
      /\ \A i \in DOMAIN entered :
           i \in Nat /\ i < n /\ entered'[i] = entered[i] /\ stamp'[i] = stamp[i]
      /\ UNCHANGED <<handlerVars, control, watermark, branchVars, receiverVars>>
      /\ waiting' \in SUBSET Nodes /\ waiting' \subseteq waiting \cup {0}
  BY Enters
<1>3. /\ working' = working /\ silent' = silent /\ group' = group /\ current' = current
      /\ left' = left /\ watermark' = watermark
  BY <1>2 DEF branchVars, receiverVars
<1>4. inbox \in Queues /\ working \in Hands /\ l \in Nat
  <2>1. inbox \in Queues /\ working \in Hands
    BY <1>1, Places
  <2>. QED  BY <2>1, Numbers DEF Queues
<1>5. /\ inbox' \in Queues
      /\ \A p \in Lane : p \in Lane' /\ At(p)' = At(p)
      /\ \A i \in DOMAIN s : <<1, l + i>> \in Lane' /\ AtOf(inbox', working', <<1, l + i>>) = s[i]
      /\ \A p \in Lane' : p \in Lane
           \/ \E i \in DOMAIN s : p = <<1, l + i>> /\ AtOf(inbox', working', p) = s[i]
  BY <1>1, <1>3, LaneGrows
<1>6. /\ \A p \in Lane : /\ p = <<p[1], p[2]>> /\ p[1] \in Nat /\ p[1] >= 1 /\ p[2] \in Nat
                         /\ p[1] = 1 => p[2] <= l
                         /\ At(p).id \in DOMAIN entered /\ At(p).id \in Nat /\ At(p).id < n
  <2>. SUFFICES ASSUME NEW p \in Lane
                PROVE  /\ p = <<p[1], p[2]>> /\ p[1] \in Nat /\ p[1] >= 1 /\ p[2] \in Nat
                       /\ p[1] = 1 => p[2] <= l
                       /\ At(p).id \in DOMAIN entered /\ At(p).id \in Nat /\ At(p).id < n
    OBVIOUS
  <2>1. /\ p = <<p[1], p[2]>> /\ p[1] \in Inside /\ p[1] \in Nat /\ p[2] \in Nat
        /\ p[2] # 0 => p[2] \in 1..Len(inbox[p[1]])
    BY <1>1, Places
  <2>2. p[1] = 1 => p[2] <= l
    BY <2>1, <1>4
  <2>3. At(p).id \in DOMAIN entered
    BY <1>1 DEF LanePart, Sound
  <2>. QED  BY <2>1, <2>2, <2>3, <1>2, Numbers
<1>7. /\ DOMAIN s \subseteq Nat \ {0}
      /\ \A i \in DOMAIN s :
           /\ s[i] \in Message /\ s[i].id = n /\ s[i].ts = t /\ s[i].kind # "answer"
           /\ kind = "signal" <=> s[i].kind = "signal"
           /\ s[i].kind \in {"start", "end"} => s[i].dest = Receiver
           /\ s[i].kind = "data" => s[i].dest \in Branch
      /\ \A i, j \in DOMAIN s : i < j => Precedes(s[i], s[j])
      /\ s # <<>> /\ kind = "data" =>
           /\ \E i \in DOMAIN s : s[i].kind = "start"
           /\ \E i \in DOMAIN s : s[i].kind = "end"
           /\ \A b \in Branch : \E i \in DOMAIN s : s[i].kind = "data" /\ s[i].dest = b
      /\ s # <<>> => \E i \in DOMAIN s : Closes(s[i])
      /\ s = <<>> => t < watermark[0]
  <2>1. DOMAIN s \subseteq Nat \ {0} /\ \A i \in DOMAIN s : s[i] \in Message
    OBVIOUS
  <2>2. CASE s = <<>>
    <3>1. DOMAIN s = {}
      BY <2>2
    <3>2. t < watermark[0]
      <4>1. CASE Block(s, kind, [id |-> n, ts |-> t])
        BY <4>1, <3>1 DEF Block
      <4>. QED  BY <4>1
    <3>. QED  BY <3>1, <3>2, <2>2
  <2>3. CASE s # <<>>
    <3>1. PICK m : m = [id |-> n, ts |-> t]
      OBVIOUS
    <3>2. m.id = n /\ m.ts = t /\ Block(s, kind, m)
      BY <2>3, <3>1
    <3>. QED  BY <2>1, <2>3, <3>2 DEF Block
  <2>. QED  BY <2>2, <2>3
<1>. HIDE DEF l
<1>8. \A p \in Lane' : p \in Lane \/ \E i \in DOMAIN s : p = <<1, l + i>> /\ At(p)' = s[i]
  BY <1>5 DEF At
<1>9. \A i \in DOMAIN s : \E p \in Lane' : At(p)' = s[i]
  BY <1>5 DEF At
<1>10. /\ \A i : Opened(i)' <=> Opened(i)
       /\ \A i, b : Answered(i, b)' <=> Answered(i, b)
       /\ \A i \in DOMAIN entered : (Covered(i) => Covered(i)') /\ (Gone(i) => Gone(i)')
  BY <1>2, <1>3 DEF Opened, Answered, Covered, Gone, Voided
<1>11. TypeOK'
  BY <1>1, <1>2, <1>3, <1>4, <1>5 DEF TypeOK, Queues, Hands, handlerVars
<1>12. RestPart'
  BY <1>1, <1>2, <1>3, Numbers DEF RestPart, handlerVars
<1>13. LanePart'
  <2>. SUFFICES ASSUME NEW p \in Lane' PROVE (Sound(At(p)) /\ Placed(p, At(p)))'
    BY DEF LanePart
  <2>1. PICK m : m = At(p)'
    OBVIOUS
  <2>2. ASSUME p \in Lane PROVE Sound(m)' /\ Placed(p, m)
    <3>1. m = At(p) /\ Sound(m) /\ Placed(p, m)
      BY <2>1, <2>2, <1>1, <1>5 DEF LanePart
    <3>. QED  BY <3>1, <1>2 DEF Sound
  <2>3. ASSUME NEW i \in DOMAIN s, p = <<1, l + i>>, m = s[i] PROVE Sound(m)' /\ Placed(p, m)
    <3>1. Sound(m)'
      BY <2>3, <1>2, <1>7 DEF Sound
    <3>2. m.dest >= 1
      BY <2>3, <1>7, Numbers DEF Message
    <3>3. l + i # 0 /\ p[1] = 1 /\ p[2] = l + i
      BY <2>3, <1>4, <1>7
    <3>. QED  BY <3>1, <3>2, <3>3 DEF Placed
  <2>. QED  BY <2>1, <2>2, <2>3, <1>8 DEF Sound, Placed
<1>14. OrderPart'
  <2>. SUFFICES ASSUME NEW p \in Lane', NEW r \in Lane', Ahead(p, r) PROVE Precedes(At(p)', At(r)')
    BY DEF OrderPart, Ahead, Precedes, Closes
  <2>1. CASE p \in Lane /\ r \in Lane
    BY <2>1, <1>1, <1>5 DEF OrderPart
  <2>2. ASSUME p \in Lane, NEW j \in DOMAIN s, At(r)' = s[j] PROVE Precedes(At(p)', At(r)')
    <3>1. At(p)'.id < n /\ At(p)'.id \in Nat /\ At(r)'.id = n
      BY <2>2, <1>5, <1>6, <1>7
    <3>. QED  BY <3>1, <1>2 DEF Precedes
  <2>3. ASSUME r \in Lane, NEW i \in DOMAIN s, p = <<1, l + i>> PROVE FALSE
    <3>1. p[1] = 1 /\ p[2] = l + i
      BY <2>3
    <3>2. r[1] \in Nat /\ r[1] >= 1 /\ r[2] \in Nat /\ (r[1] = 1 => r[2] <= l)
      BY <2>3, <1>6
    <3>. QED  BY <3>1, <3>2, <1>4, <1>7 DEF Ahead
  <2>4. ASSUME NEW i \in DOMAIN s, p = <<1, l + i>>, At(p)' = s[i],
               NEW j \in DOMAIN s, r = <<1, l + j>>, At(r)' = s[j]
        PROVE  Precedes(At(p)', At(r)')
    <3>1. p[1] = 1 /\ p[2] = l + i /\ r[1] = 1 /\ r[2] = l + j
      BY <2>4
    <3>2. i < j
      BY <3>1, <1>4, <1>7 DEF Ahead
    <3>. QED  BY <3>2, <2>4, <1>7
  <2>. QED  BY <2>1, <2>2, <2>3, <2>4, <1>8
<1>15. GroupPart'
  <2>1. group' = None <=> current' = None
    BY <1>1, <1>3 DEF GroupPart
  <2>. SUFFICES ASSUME NEW i \in Ids, Opened(i)
                PROVE  /\ i \in DOMAIN entered' /\ entered'[i] = "data"
                       /\ current' = stamp'[i] /\ watermark'[Receiver] <= current'
                       /\ group'.answers \subseteq {i} \X Branch
                       /\ \A p \in Lane' : i <= At(p)'.id /\ (At(p)'.id = i => At(p)'.kind # "start")
                       /\ \E p \in Lane' : At(p)'.id = i /\ At(p)'.kind = "end"
    BY <2>1, <1>10 DEF GroupPart
  <2>2. /\ i \in DOMAIN entered /\ entered[i] = "data"
        /\ current = stamp[i] /\ watermark[Receiver] <= current
        /\ group.answers \subseteq {i} \X Branch
        /\ \A p \in Lane : i <= At(p).id /\ (At(p).id = i => At(p).kind # "start")
        /\ \E p \in Lane : At(p).id = i /\ At(p).kind = "end"
    BY <1>1 DEF GroupPart
  <2>3. /\ i \in DOMAIN entered' /\ entered'[i] = "data"
        /\ current' = stamp'[i] /\ watermark'[Receiver] <= current'
        /\ group'.answers \subseteq {i} \X Branch
    BY <2>2, <1>2, <1>3
  <2>4. ASSUME NEW p \in Lane' PROVE i <= At(p)'.id /\ (At(p)'.id = i => At(p)'.kind # "start")
    <3>1. CASE p \in Lane
      BY <3>1, <2>2, <1>5
    <3>2. CASE At(p)'.id = n
      BY <3>2, <2>2, <1>2
    <3>. QED  BY <3>1, <3>2, <1>7, <1>8
  <2>5. \E p \in Lane' : At(p)'.id = i /\ At(p)'.kind = "end"
    BY <2>2, <1>5
  <2>. QED  BY <2>3, <2>4, <2>5
<1>16. OpenPart'
  <2>. SUFFICES ASSUME NEW p \in Lane'
                PROVE  \/ At(p)'.kind \in {"start", "signal"} \/ Covered(At(p).id)'
                       \/ \E r \in Lane' : At(r)'.id = At(p)'.id /\ At(r)'.kind = "start"
    BY DEF OpenPart
  <2>1. ASSUME p \in Lane
        PROVE  \/ At(p)'.kind \in {"start", "signal"} \/ Covered(At(p).id)'
               \/ \E r \in Lane' : At(r)'.id = At(p)'.id /\ At(r)'.kind = "start"
    <3>1. At(p)' = At(p) /\ At(p).id \in DOMAIN entered
      BY <2>1, <1>5, <1>6
    <3>2. \/ At(p).kind \in {"start", "signal"} \/ Covered(At(p).id)
          \/ \E r \in Lane : At(r).id = At(p).id /\ At(r).kind = "start"
      BY <2>1, <1>1 DEF OpenPart
    <3>3. ASSUME Covered(At(p).id) PROVE Covered(At(p).id)'
      <4>1. PICK i \in DOMAIN entered : i = At(p).id
        BY <3>1
      <4>2. Covered(i)' /\ i = At(p)'.id
        BY <4>1, <3>1, <3>3, <1>10
      <4>. QED  BY <4>2
    <3>. QED  BY <3>1, <3>2, <3>3, <1>5
  <2>2. ASSUME NEW i \in DOMAIN s, At(p)' = s[i]
        PROVE  \/ At(p)'.kind = "signal"
               \/ \E r \in Lane' : At(r)'.id = At(p)'.id /\ At(r)'.kind = "start"
    <3>1. CASE kind = "signal"
      BY <3>1, <2>2, <1>7
    <3>2. CASE kind = "data"
      <4>1. s # <<>>
        BY <2>2
      <4>2. PICK j \in DOMAIN s : s[j].kind = "start"
        BY <3>2, <4>1, <1>7
      <4>. QED  BY <2>2, <4>2, <1>7, <1>9
    <3>. QED  BY <3>1, <3>2
  <2>. QED  BY <2>1, <2>2, <1>8
<1>17. EndPart'
  <2>. SUFFICES ASSUME NEW p \in Lane', At(p)'.kind = "start"
                PROVE  \/ stamp'[At(p)'.id] < watermark'[Receiver]
                       \/ \E r \in Lane' : At(r)'.id = At(p)'.id /\ At(r)'.kind = "end"
    BY DEF EndPart
  <2>1. CASE p \in Lane
    <3>1. At(p)' = At(p) /\ stamp'[At(p).id] = stamp[At(p).id]
      BY <2>1, <1>2, <1>5, <1>6
    <3>. QED  BY <3>1, <2>1, <1>1, <1>3, <1>5 DEF EndPart
  <2>2. ASSUME NEW i \in DOMAIN s, At(p)' = s[i]
        PROVE  \E r \in Lane' : At(r)'.id = At(p)'.id /\ At(r)'.kind = "end"
    <3>1. s # <<>> /\ kind = "data"
      BY <2>2, <1>7
    <3>2. PICK j \in DOMAIN s : s[j].kind = "end"
      BY <3>1, <1>7
    <3>. QED  BY <2>2, <3>2, <1>7, <1>9
  <2>. QED  BY <2>1, <2>2, <1>8
<1>18. LeftPart'
  <2>. SUFFICES ASSUME NEW k \in DOMAIN left
                PROVE  /\ left[k].id \in DOMAIN entered'
                       /\ \A p \in Lane' : left[k].id < At(p)'.id
                       /\ \A i \in Ids : Opened(i) => left[k].id < i
    BY <1>3, <1>10 DEF LeftPart
  <2>1. /\ left[k].id \in DOMAIN entered
        /\ \A p \in Lane : left[k].id < At(p).id
        /\ \A i \in Ids : Opened(i) => left[k].id < i
    BY <1>1 DEF LeftPart
  <2>2. ASSUME NEW p \in Lane' PROVE left[k].id < At(p)'.id
    <3>1. CASE p \in Lane
      BY <3>1, <2>1, <1>5
    <3>2. CASE At(p)'.id = n
      BY <3>2, <2>1, <1>2
    <3>. QED  BY <3>1, <3>2, <1>7, <1>8
  <2>. QED  BY <2>1, <2>2, <1>2
<1>19. s = <<>> => Gone(n)'
  BY <1>2, <1>3, <1>7, Numbers DEF Gone, Voided
<1>20. ClosePart'
  <2>. SUFFICES ASSUME NEW i \in DOMAIN entered'
                PROVE  Gone(i)' \/ \E p \in Lane' : At(p)'.id = i /\ Closes(At(p)')
    BY DEF ClosePart, Closes
  <2>1. CASE i \in DOMAIN entered
    <3>1. Gone(i) \/ \E p \in Lane : At(p).id = i /\ Closes(At(p))
      BY <2>1, <1>1 DEF ClosePart
    <3>. QED  BY <3>1, <2>1, <1>5, <1>10
  <2>2. CASE i = n /\ s # <<>>
    <3>1. PICK j \in DOMAIN s : Closes(s[j])
      BY <2>2, <1>7
    <3>. QED  BY <3>1, <2>2, <1>7, <1>9
  <2>3. CASE i = n /\ s = <<>>
    BY <2>3, <1>19
  <2>. QED  BY <2>1, <2>2, <2>3, <1>2
<1>21. WholePart'
  <2>. SUFFICES ASSUME NEW i \in DOMAIN entered', entered'[i] = "data", NEW b \in Branch
                PROVE  \/ Gone(i)' \/ i \in silent \/ Answered(i, b)
                       \/ \E p \in Lane' : Of(At(p)', i, b)
    BY <1>3, <1>10 DEF WholePart, Of
  <2>1. CASE i \in DOMAIN entered
    <3>1. entered[i] = "data"
      BY <2>1, <1>2
    <3>2. Gone(i) \/ i \in silent \/ Answered(i, b) \/ \E p \in Lane : Of(At(p), i, b)
      BY <2>1, <3>1, <1>1 DEF WholePart
    <3>. QED  BY <3>2, <2>1, <1>5, <1>10
  <2>2. CASE i = n /\ s # <<>>
    <3>1. kind = "data"
      BY <2>2, <1>2
    <3>2. PICK j \in DOMAIN s : s[j].kind = "data" /\ s[j].dest = b
      BY <2>2, <3>1, <1>7
    <3>3. Of(s[j], i, b)
      BY <3>2, <2>2, <1>7 DEF Of
    <3>. QED  BY <3>3, <1>9
  <2>3. CASE i = n /\ s = <<>>
    BY <2>3, <1>19
  <2>. QED  BY <2>1, <2>2, <2>3, <1>2
<1>. QED  BY <1>11, <1>12, <1>13, <1>14, <1>15, <1>16, <1>17, <1>18, <1>20, <1>21 DEF BracketInv

LEMMA EnterKeeps ==
    ASSUME BracketInv, NEW kind \in {"data", "signal"}, NEW t \in Stamps, Enter(kind, t)
    PROVE  BracketInv'
<1>1. PICK n : n = Len(entered) + 1
  OBVIOUS
<1>2. PICK m : m = [id |-> n, ts |-> t]
  OBVIOUS
<1>3. n \in Ids /\ m.id \in Ids /\ m.ts \in Stamps
  BY <1>1, <1>2, Enters
<1>4. inbox \in Queues /\ inbox[1] \in Seq(Message)
  <2>1. inbox \in Queues
    BY Places DEF BracketInv
  <2>. QED  BY <2>1, Numbers DEF Queues
<1>5. CASE t < watermark[0]
  <2>1. inbox' = inbox
    BY <1>5 DEF Enter
  <2>2. inbox[1] \o <<>> = inbox[1] /\ <<>> \in Seq(Message)
    BY <1>4
  <2>3. PICK s \in Seq(Message) : s = <<>> /\ inbox[1] \o s = inbox[1]
    BY <2>2
  <2>4. inbox' = [inbox EXCEPT ![1] = @ \o s]
    BY <2>1, <2>3, <1>4 DEF Queues
  <2>. QED  BY <2>3, <2>4, <1>1, <1>5, EnteredKeeps
<1>6. CASE ~(t < watermark[0])
  <2>1. inbox' = [inbox EXCEPT ![1] =
                    @ \o (IF kind = "data" THEN Dispatched(m) ELSE DispatchedSignal(m))]
    BY <1>1, <1>2, <1>6 DEF Enter
  <2>2. PICK s : s = IF kind = "data" THEN Dispatched(m) ELSE DispatchedSignal(m)
    OBVIOUS
  <2>3. Block(s, kind, m)
    BY <2>2, <1>3, DataBlock, SignalBlock
  <2>4. s \in Seq(Message)
    BY <2>3 DEF Block
  <2>5. inbox' = [inbox EXCEPT ![1] = @ \o s]
    BY <2>1, <2>2
  <2>. QED  BY <2>3, <2>4, <2>5, <1>1, <1>2, EnteredKeeps
<1>. QED  BY <1>5, <1>6

-------------------------------------------------------------------------------
(* The invariant holds.                                                      *)

LEMMA BracketInit == ASSUME Init PROVE BracketInv
<1>1. /\ entered = <<>> /\ stamp = <<>> /\ spread = Idle /\ cancels = 0
      /\ inbox = [n \in Inside |-> <<>>] /\ control = [n \in Nodes |-> <<>>]
      /\ watermark = [n \in Nodes |-> 0] /\ waiting = Nodes /\ working = [n \in Branch |-> None]
      /\ group = None /\ current = None /\ silent = {} /\ left = <<>>
  BY DEF Init
<1>2. TypeOK
  <2>1. /\ entered \in Seq({"data", "signal"}) /\ stamp \in Seq(Stamps)
        /\ Len(stamp) = Len(entered) /\ Len(entered) <= MaxInputs
        /\ left \in Seq([id : {0} \cup Ids, answers : SUBSET (Ids \X Branch)])
    BY <1>1, BracketAssumption
  <2>2. spread \in [ts : Nat, next : Nodes \cup {Receiver + 1}] /\ cancels \in Nat
    BY <1>1 DEF Idle
  <2>3. /\ inbox \in [Inside -> Seq(Message)] /\ control \in [Nodes -> Seq(Cancels)]
        /\ watermark \in [Nodes -> Nat] /\ working \in [Branch -> {None} \cup Message]
    BY <1>1
  <2>. QED  BY <2>1, <2>2, <2>3, <1>1 DEF TypeOK
<1>3. DOMAIN entered = {} /\ DOMAIN left = {}
  BY <1>1
<1>4. \A p : p \notin Lane
  <2>. SUFFICES ASSUME NEW p \in Lane PROVE FALSE
    OBVIOUS
  <2>1. /\ p[1] \in Inside
        /\ p[2] = 0 => p[1] \in Branch /\ working[p[1]] # None
        /\ p[2] # 0 => p[2] \in 1..Len(inbox[p[1]])
    BY <1>2, Places
  <2>2. Len(inbox[p[1]]) = 0 /\ (p[1] \in Branch => working[p[1]] = None)
    BY <2>1, <1>1
  <2>3. p[2] \in 1..0
    BY <2>1, <2>2
  <2>. QED  BY <2>3
<1>5. LanePart /\ OrderPart /\ OpenPart /\ EndPart
  BY <1>4 DEF LanePart, OrderPart, OpenPart, EndPart
<1>6. \A i : ~Opened(i)
  BY <1>1 DEF Opened
<1>7. GroupPart
  BY <1>1, <1>6 DEF GroupPart
<1>8. LeftPart /\ ClosePart /\ WholePart
  BY <1>3 DEF LeftPart, ClosePart, WholePart
<1>9. RestPart
  <2>1. spread.next \notin Nodes
    BY <1>1, Numbers DEF Idle, Nodes
  <2>. QED  BY <2>1, <1>1 DEF RestPart
<1>. QED  BY <1>2, <1>5, <1>7, <1>8, <1>9 DEF BracketInv

LEMMA BracketStutter == ASSUME BracketInv, UNCHANGED vars PROVE BracketInv'
<1>1. /\ TypeOK /\ RestPart
      /\ UNCHANGED <<entryVars, handlerVars, inbox, control, watermark, waiting, branchVars, receiverVars>>
  BY DEF BracketInv, vars
<1>2. TypeOK' /\ RestPart'
  BY <1>1 DEF TypeOK, RestPart, entryVars, handlerVars, branchVars, receiverVars
<1>3. working' = working /\ silent \subseteq silent'
  BY <1>1 DEF branchVars
<1>. QED  BY <1>1, <1>2, <1>3, SameWatermark, LaneStands

LEMMA BracketStep == ASSUME BracketInv, [Next]_vars PROVE BracketInv'
<1>1. ASSUME NEW kind \in {"data", "signal"}, NEW t \in Stamps, Enter(kind, t) PROVE BracketInv'
  BY <1>1, EnterKeeps
<1>2. ASSUME NEW c \in Cancels, Cancel(c) PROVE BracketInv'
  BY <1>2, CancelKeeps
<1>3. CASE HandlerPut
  BY <1>3, HandlerPutKeeps
<1>4. ASSUME NEW n \in Nodes, ReadCancel(n) \/ Forward(n) \/ Discard(n) PROVE BracketInv'
  BY <1>4, ReadCancelKeeps, ForwardKeeps, DiscardKeeps
<1>5. ASSUME NEW b \in Branch, Begin(b) \/ CatchSignal(b) \/ Answer(b) \/ SayNothing(b)
      PROVE  BracketInv'
  BY <1>5, BeginKeeps, CatchSignalKeeps, AnswerKeeps, SayNothingKeeps
<1>6. CASE Open \/ Collect \/ Merge \/ PassSignal
  BY <1>6, OpenKeeps, CollectKeeps, MergeKeeps
<1>7. CASE UNCHANGED vars
  BY <1>7, BracketStutter
<1>. QED  BY <1>1, <1>2, <1>3, <1>4, <1>5, <1>6, <1>7 DEF Next, Step

\* Types, and the lane between dispatcher and receiver: the messages of an id
\* stay in the order in which DispatcherStep put them (start, copies, end) and
\* behind those of every older id, whatever the branches do, and the receiver's
\* current_group is always the one whose end comes next.
THEOREM BracketInvariant == Spec => []BracketInv
<1>1. Init => BracketInv
  BY BracketInit
<1>2. BracketInv /\ [Next]_vars => BracketInv'
  BY BracketStep
<1>. QED  BY <1>1, <1>2, PTL DEF Spec

-------------------------------------------------------------------------------
(* What the invariant implies.                                               *)

LEMMA BranchesWorkInParallel == ASSUME BracketInv PROVE RegionInv
<1>1. TypeOK /\ OrderPart
  BY DEF BracketInv
<1>2. ASSUME NEW b \in Branch, NEW i \in DOMAIN inbox[b], NEW m, m = inbox[b][i],
             m.kind = "data", m.dest > b
      PROVE  /\ \A j \in 1..(i - 1) : inbox[b][j].kind = "data" /\ inbox[b][j].dest = b
                                      => inbox[b][j].id # m.id
             /\ working[b] # None => working[b].id # m.id
  <2>1. /\ b \in Inside /\ b \in Nat /\ i \in 1..Len(inbox[b]) /\ Len(inbox[b]) \in Nat
    <3>1. inbox[b] \in Seq(Message) /\ b \in Inside /\ b \in Nat
      BY <1>1, Numbers DEF TypeOK
    <3>. QED  BY <3>1
  <2>2. <<b, i>> \in Lane /\ At(<<b, i>>) = m
    BY <2>1, <1>1, <1>2, Places
  <2>3. m.dest \in Nat
    <3>1. m \in Message
      BY <2>2, <1>1, Places
    <3>. QED  BY <3>1, Numbers DEF Message
  <2>4. ASSUME NEW l, NEW k \in 0..(i - 1), <<b, k>> \in Lane, At(<<b, k>>) = l,
               l.kind = "data", l.dest = b
        PROVE  l.id # m.id
    <3>1. Ahead(<<b, k>>, <<b, i>>)
      <4>1. <<b, k>>[1] = b /\ <<b, k>>[2] = k /\ <<b, i>>[1] = b /\ <<b, i>>[2] = i
        OBVIOUS
      <4>2. k < i
        BY <2>1
      <4>. QED  BY <4>1, <4>2 DEF Ahead
    <3>2. Precedes(l, m)
      BY <3>1, <2>2, <2>4, <1>1 DEF OrderPart
    <3>3. m.dest < b => FALSE
      BY <2>1, <2>3, <1>2
    <3>. QED  BY <3>2, <3>3, <2>4, <1>2 DEF Precedes
  <2>5. ASSUME NEW j \in 1..(i - 1), inbox[b][j].kind = "data", inbox[b][j].dest = b
        PROVE  inbox[b][j].id # m.id
    <3>1. j \in 1..Len(inbox[b]) /\ j \in 0..(i - 1)
      BY <2>1
    <3>2. <<b, j>> \in Lane /\ At(<<b, j>>) = inbox[b][j]
      BY <3>1, <2>1, <1>1, Places
    <3>. QED  BY <3>1, <3>2, <2>4, <2>5
  <2>6. ASSUME working[b] # None PROVE working[b].id # m.id
    <3>1. 0 \in 0..(i - 1)
      BY <2>1
    <3>2. /\ <<b, 0>> \in Lane /\ At(<<b, 0>>) = working[b]
          /\ working[b].kind = "data" /\ working[b].dest = b
      BY <2>6, AtWork
    <3>. QED  BY <3>1, <3>2, <2>4
  <2>. QED  BY <2>5, <2>6
<1>. QED  BY <1>1, <1>2 DEF RegionInv, NoBranchWaits

\* The branches of a region work in parallel: DispatcherStep emits the copy for
\* the last branch first, so no branch that is busy, or about to be, holds back a
\* later branch's copy of the same message.
THEOREM Parallel == Spec => []RegionInv
<1>1. BracketInv => RegionInv
  BY BranchesWorkInParallel
<1>. QED  BY <1>1, BracketInvariant, PTL

LEMMA RestLosesNothing == ASSUME BracketInv PROVE NothingIsLost
<1>. SUFFICES ASSUME AtRest, NEW i \in DOMAIN entered PROVE Gone(i)
  BY DEF NothingIsLost
<1>1. TypeOK /\ ClosePart
  BY DEF BracketInv
<1>2. ASSUME NEW p \in Lane PROVE FALSE
  <2>1. /\ p[1] \in Inside
        /\ p[2] = 0 => p[1] \in Branch /\ working[p[1]] # None
        /\ p[2] # 0 => p[2] \in 1..Len(inbox[p[1]])
    BY <1>1, Places
  <2>2. inbox[p[1]] = <<>> /\ p[2] # 0
    BY <2>1 DEF AtRest
  <2>3. p[2] \in 1..0
    BY <2>1, <2>2
  <2>. QED  BY <2>3
<1>. QED  BY <1>1, <1>2 DEF ClosePart

\* No message is lost in the region: when its queues and its branches are empty,
\* every message that entered has left, unless a node has learnt of a cancel of it.
THEOREM NoneLost == Spec => []NothingIsLost
<1>1. BracketInv => NothingIsLost
  BY RestLosesNothing
<1>. QED  BY <1>1, BracketInvariant, PTL

-------------------------------------------------------------------------------
(* The region implements Gather.                                             *)

Asked(kinds) == [i \in DOMAIN kinds |-> IF kinds[i] = "data" THEN Branch ELSE {}]
Excused      == {i \in DOMAIN entered : Voided(i)} \cup silent

LEMMA AskedGrows ==
    ASSUME NEW kinds \in Seq({"data", "signal"}), NEW kind \in {"data", "signal"}
    PROVE  \E branches \in SUBSET Branch :
               Asked(Append(kinds, kind)) = Append(Asked(kinds), branches)
<1>1. PICK branches \in SUBSET Branch : branches = IF kind = "data" THEN Branch ELSE {}
  OBVIOUS
<1>2. PICK n \in Nat : n = Len(kinds)
  OBVIOUS
<1>3. PICK longer : longer = Append(kinds, kind)
  OBVIOUS
<1>4. /\ DOMAIN kinds = 1..n /\ DOMAIN longer = 1..(n + 1)
      /\ longer[n + 1] = kind /\ \A i \in 1..n : longer[i] = kinds[i]
  BY <1>2, <1>3, AppendAt
<1>5. PICK f : f = Asked(kinds)
  OBVIOUS
<1>6. f \in [1..n -> SUBSET Branch] /\ f = [i \in 1..n |-> f[i]]
  BY <1>4, <1>5 DEF Asked
<1>7. f \in Seq(SUBSET Branch) /\ Len(f) = n
  BY <1>6
<1>8. PICK g : g = Append(f, branches)
  OBVIOUS
<1>9. /\ DOMAIN g = 1..(n + 1) /\ g[n + 1] = branches /\ g \in Seq(SUBSET Branch)
      /\ \A i \in 1..n : g[i] = f[i]
  BY <1>7, <1>8, AppendAt
<1>10. g = [i \in 1..(n + 1) |-> g[i]]
  BY <1>9
<1>11. \A i \in 1..(n + 1) : g[i] = IF longer[i] = "data" THEN Branch ELSE {}
  <2>1. \A i \in 1..(n + 1) : i \in 1..n \/ i = n + 1
    OBVIOUS
  <2>2. \A i \in 1..n : f[i] = IF kinds[i] = "data" THEN Branch ELSE {}
    BY <1>4, <1>5 DEF Asked
  <2>. QED  BY <2>1, <2>2, <1>1, <1>4, <1>9
<1>12. g = Asked(longer)
  BY <1>4, <1>10, <1>11 DEF Asked
<1>. QED  BY <1>3, <1>5, <1>8, <1>12

\* A step that puts nothing on the receiver's output queue.
LEMMA NothingLeaves ==
    ASSUME BracketInv, BracketInv', UNCHANGED entryVars, left' = left, silent \subseteq silent',
           \A n \in Nodes : watermark[n] <= watermark'[n]
    PROVE  Region!Excuse
<1>1. entered' = entered /\ TypeOK /\ TypeOK'
  BY DEF entryVars, BracketInv
<1>2. \A i \in DOMAIN entered : Voided(i) => Voided(i)'
  BY <1>1, GoneStays
<1>3. Excused \subseteq Excused'
  BY <1>1, <1>2 DEF Excused
<1>. QED  BY <1>1, <1>3 DEF Region!Excuse, Excused

LEMMA EnterAsks ==
    ASSUME BracketInv, NEW kind \in {"data", "signal"}, NEW t \in Stamps, Enter(kind, t)
    PROVE  \E branches \in SUBSET Branch : Region!Ask(branches)
<1>1. PICK n : n = Len(entered) + 1
  OBVIOUS
<1>2. /\ entered' = Append(entered, kind) /\ DOMAIN entered' = DOMAIN entered \cup {n}
      /\ \A i \in DOMAIN entered : stamp'[i] = stamp[i]
      /\ UNCHANGED <<watermark, branchVars, receiverVars>>
  BY <1>1, Enters
<1>3. left' = left /\ silent' = silent /\ watermark' = watermark
  BY <1>2 DEF branchVars, receiverVars
<1>4. PICK branches \in SUBSET Branch : Asked(Append(entered, kind)) = Append(Asked(entered), branches)
  BY AskedGrows DEF BracketInv, TypeOK
<1>5. Excused \subseteq Excused'
  <2>1. \A i \in DOMAIN entered : Voided(i) => Voided(i)'
    BY <1>2, <1>3 DEF Voided
  <2>. QED  BY <2>1, <1>2, <1>3 DEF Excused
<1>6. Asked(entered)' = Append(Asked(entered), branches)
  BY <1>2, <1>4
<1>. QED  BY <1>3, <1>5, <1>6 DEF Region!Ask, Asked, Excused

\* What leaves is whole, or excused.
LEMMA GroupLeaves ==
    ASSUME BracketInv, Merge \/ PassSignal
    PROVE  \E i \in DOMAIN Asked(entered) : \E answers \in SUBSET ({i} \X Asked(entered)[i]) :
               Region!Leave(i, answers)
<1>. DEFINE h == <<Receiver, 1>>
<1>1. PICK m : m = Got(Receiver)
  OBVIOUS
<1>2. PICK kind \in {"end", "signal"} : Arrived(kind) /\ m.kind = kind /\ (kind = "end" <=> Merge /\ m.kind = "end")
  BY <1>1, Departs
<1>3. /\ UNCHANGED branchVars /\ Closes(m) /\ m.id \in Ids /\ m.id \in DOMAIN entered
      /\ Mine(Receiver) /\ Sound(m)
  BY <1>1, Departs
<1>4. /\ entered' = entered /\ stamp' = stamp /\ watermark' = watermark /\ silent' = silent
      /\ h \in Lane /\ At(h) = m
  BY <1>1, <1>2, <1>3, Received
<1>5. TypeOK /\ GroupPart /\ LeftPart /\ WholePart
  BY DEF BracketInv
<1>6. \A p \in Lane : p # h => m.id # At(p).id
  BY <1>1, <1>3, AtReceiver
<1>7. PICK i \in DOMAIN entered : i = m.id /\ i \in Ids
  BY <1>3
<1>8. \A k \in DOMAIN left : left[k].id < i /\ left[k].id # i
  BY <1>4, <1>5, <1>7 DEF LeftPart, Ids
<1>9. left = <<>> \/ left[Len(left)].id < i
  <2>1. DOMAIN left = 1..Len(left) /\ Len(left) \in Nat
    BY <1>5 DEF TypeOK
  <2>2. CASE Len(left) = 0
    BY <2>2, <1>5 DEF TypeOK
  <2>3. CASE Len(left) # 0
    BY <2>1, <2>3, <1>8
  <2>. QED  BY <2>2, <2>3
<1>10. i \in DOMAIN Asked(entered) /\ Asked(entered)[i] = IF entered[i] = "data" THEN Branch ELSE {}
  BY DEF Asked
<1>11. Asked(entered)' = Asked(entered) /\ Excused' = Excused
  BY <1>4 DEF Asked, Excused, Voided
<1>12. PICK a : /\ a \subseteq {i} \X Asked(entered)[i]
                /\ a = {i} \X Asked(entered)[i] \/ i \in Excused
                /\ left' = Append(left, [id |-> i, answers |-> a])
  <2>1. CASE Merge /\ m.kind = "end"
    <3>1. /\ Opened(i) /\ left' = Append(left, [id |-> i, answers |-> group.answers])
      BY <2>1, <1>1, <1>7, Departs
    <3>2. entered[i] = "data" /\ group.answers \subseteq {i} \X Branch
      BY <3>1, <1>5, <1>7 DEF GroupPart
    <3>3. ASSUME NEW b \in Branch, i \notin Excused PROVE <<i, b>> \in group.answers
      <4>1. Gone(i) \/ i \in silent \/ Answered(i, b) \/ \E p \in Lane : Of(At(p), i, b)
        BY <3>2, <1>5 DEF WholePart
      <4>2. ~Gone(i) /\ i \notin silent
        BY <3>3, <1>8 DEF Gone, Excused
      <4>3. ASSUME NEW p \in Lane, Of(At(p), i, b) PROVE FALSE
        <5>1. p # h
          BY <4>3, <2>1, <1>4 DEF Of
        <5>. QED  BY <5>1, <4>3, <1>6, <1>7 DEF Of
      <4>. QED  BY <4>1, <4>2, <4>3 DEF Answered
    <3>4. i \notin Excused => group.answers = {i} \X Branch
      BY <3>2, <3>3
    <3>. QED  BY <3>1, <3>2, <3>4, <1>10
  <2>2. CASE m.kind = "signal"
    <3>1. left' = Append(left, [id |-> i, answers |-> {}])
      BY <2>2, <1>1, <1>7, Departs
    <3>2. entered[i] = "signal"
      BY <2>2, <1>3, <1>7 DEF Sound
    <3>3. {} = {i} \X Asked(entered)[i]
      BY <3>2, <1>10
    <3>. QED  BY <3>1, <3>3
  <2>. QED  BY <2>1, <2>2, <1>2
<1>13. Region!Leave(i, a)
  BY <1>4, <1>9, <1>10, <1>11, <1>12 DEF Region!Leave, Region!InTurn, Asked, Excused
<1>. QED  BY <1>10, <1>12, <1>13

LEMMA RegionInit == ASSUME Init PROVE Region!Init
<1>1. entered = <<>> /\ silent = {} /\ left = <<>>
  BY DEF Init
<1>2. DOMAIN entered = {}
  BY <1>1
<1>3. Asked(entered) = <<>>
  BY <1>2 DEF Asked
<1>4. Excused = {}
  BY <1>1, <1>2 DEF Excused
<1>. QED  BY <1>1, <1>3, <1>4 DEF Region!Init, Asked, Excused

LEMMA RegionStep ==
    ASSUME BracketInv, [Next]_vars
    PROVE  Region!Next \/ UNCHANGED <<Asked(entered), Excused, left>>
<1>1. BracketInv'
  BY BracketStep
<1>2. ASSUME NEW kind \in {"data", "signal"}, NEW t \in Stamps, Enter(kind, t) PROVE Region!Next
  BY <1>2, EnterAsks DEF Region!Next
<1>3. ASSUME UNCHANGED <<entryVars, watermark>>, left' = left, silent \subseteq silent'
      PROVE  Region!Next
  BY <1>1, <1>3, SameWatermark, NothingLeaves DEF Region!Next
<1>4. ASSUME NEW c \in Cancels, Cancel(c) PROVE Region!Next
  <2>. SUFFICES UNCHANGED <<entryVars, watermark>> /\ left' = left /\ silent \subseteq silent'
    BY <1>3
  <2>. QED  BY <1>4 DEF Cancel, branchVars, receiverVars
<1>5. CASE HandlerPut
  <2>. SUFFICES UNCHANGED <<entryVars, watermark>> /\ left' = left /\ silent \subseteq silent'
    BY <1>3
  <2>. QED  BY <1>5 DEF HandlerPut, branchVars, receiverVars
<1>6. ASSUME NEW n \in Nodes, ReadCancel(n) PROVE Region!Next
  <2>1. /\ \A k \in Nodes : watermark[k] <= watermark'[k]
        /\ UNCHANGED <<entryVars, silent, left>>
    BY <1>6, CancelRead
  <2>. QED  BY <2>1, <1>1, NothingLeaves DEF Region!Next
<1>7. ASSUME NEW n \in Nodes, Forward(n) \/ Discard(n) PROVE Region!Next
  <2>. SUFFICES UNCHANGED <<entryVars, watermark>> /\ left' = left /\ silent \subseteq silent'
    BY <1>3
  <2>. QED  BY <1>7 DEF Forward, Discard, Consume, Take, branchVars, receiverVars
<1>8. ASSUME NEW b \in Branch, Begin(b) \/ CatchSignal(b) \/ Answer(b) \/ SayNothing(b)
      PROVE  Region!Next
  <2>. SUFFICES UNCHANGED <<entryVars, watermark>> /\ left' = left /\ silent \subseteq silent'
    BY <1>3
  <2>. QED  BY <1>8 DEF Begin, CatchSignal, Answer, SayNothing, Consume, Take, branchVars, receiverVars
<1>9. CASE Open
  <2>. SUFFICES UNCHANGED <<entryVars, watermark>> /\ left' = left /\ silent \subseteq silent'
    BY <1>3
  <2>. QED  BY <1>9 DEF Open, Arrived, Consume, Take, branchVars
<1>10. CASE Collect
  <2>. SUFFICES UNCHANGED <<entryVars, watermark>> /\ left' = left /\ silent \subseteq silent'
    BY <1>3
  <2>1. left' = left
    BY <1>10, Collects
  <2>. QED  BY <2>1, <1>10 DEF Collect, Arrived, Consume, Take, branchVars
<1>11. CASE Merge \/ PassSignal
  BY <1>11, GroupLeaves DEF Region!Next, Asked
<1>12. CASE UNCHANGED vars
  BY <1>12 DEF vars, entryVars, branchVars, receiverVars, Asked, Excused, Voided
<1>. QED  BY <1>2, <1>4, <1>5, <1>6, <1>7, <1>8, <1>9, <1>10, <1>11, <1>12 DEF Next, Step

\* The bracket of DispatcherStep and ReceiverStep keeps its promise to the nodes
\* behind it: whatever the branches do and whenever cancels come, the merged
\* messages leave in the order of entry, each at most once, with the answers of
\* all its branches and of no other message, unless a cancel voided it or one of
\* its branches had nothing to say; and no answer leaves outside a group.
THEOREM Gathers == Spec => KeepsGroups
<1>1. Init => Region!Init
  BY RegionInit
<1>2. BracketInv /\ [Next]_vars
        => [Region!Next]_<<[i \in DOMAIN entered |-> IF entered[i] = "data" THEN Branch ELSE {}],
                           {i \in DOMAIN entered : Voided(i)} \cup silent, left>>
  BY RegionStep DEF Asked, Excused
<1>. QED  BY <1>1, <1>2, BracketInvariant, PTL DEF Spec, KeepsGroups, Region!Spec

================================================================================
