----------------------------- MODULE DanmakuProofs -----------------------------
(***************************************************************************)
(* Proofs about the danmaku buffer, for every value of DanmakuBuffer's      *)
(* constants: its types and limits, that the span covers the buffer, and    *)
(* that a release carries nothing that a cancel the node has read voids,    *)
(* and is stamped with nothing of the kind while the ring holds a context   *)
(* that is no late acknowledgement.                                         *)
(***************************************************************************)
EXTENDS DanmakuBuffer, SequenceTheorems, FiniteSetTheorems, WellFoundedInduction, TLAPS

-------------------------------------------------------------------------------
(* Induction and recursion on the naturals, with sets for predicates and     *)
(* functions for operators.                                                  *)

Less == {p \in Nat \X Nat : p[1] < p[2]}

\* Every set of naturals that is not empty has a least element.
LEMMA LeastNumber ==
    ASSUME NEW T \in SUBSET Nat, T # {}
    PROVE  \E m \in T : \A k \in T : m <= k
<1>1. IsWellFoundedOn(Less, Nat)
  <2>1. IsWellFoundedOn(OpToRel(<, Nat), Nat)
    BY NatLessThanWellFounded
  <2>2. OpToRel(<, Nat) = Less
    BY DEF OpToRel, Less
  <2>. QED  BY <2>1, <2>2
<1>2. \E x \in T : \A y \in T : <<y, x>> \notin Less
  BY <1>1, WFMin
<1>3. PICK m \in T : \A k \in T : <<k, m>> \notin Less
  BY <1>2
<1>4. ASSUME NEW k \in T PROVE m <= k
  <2>1. m \in Nat /\ k \in Nat
    OBVIOUS
  <2>2. ~(k < m)
    BY <1>3, <2>1 DEF Less
  <2>. QED  BY <2>1, <2>2
<1>. QED  BY <1>4

\* A set that has 0, and with a number its successor, has every number.
LEMMA SetInduction ==
    ASSUME NEW T, 0 \in T, \A n \in Nat : n \in T => n + 1 \in T
    PROVE  Nat \subseteq T
<1>. SUFFICES ASSUME Nat \ T # {} PROVE FALSE
  OBVIOUS
<1>1. PICK m \in Nat \ T : \A k \in Nat \ T : m <= k
  BY LeastNumber
<1>2. m - 1 \in Nat /\ m - 1 < m /\ m - 1 + 1 = m
  OBVIOUS
<1>3. m - 1 \in T
  BY <1>1, <1>2
<1>. QED  BY <1>2, <1>3

\* f takes the step again and again.
Repeats(f, L, base, step) ==
    f[0] = base /\ \A n \in 1..L : f[n] = step[<<f[n - 1], n>>]

\* A step that stays in a set can be taken any number of times from a member.
LEMMA Recursion ==
    ASSUME NEW L \in Nat, NEW S, NEW base \in S, NEW step \in [S \X (1..L) -> S]
    PROVE  \E f \in [0..L -> S] : Repeats(f, L, base, step)
<1>. DEFINE Upto(k, f) == f[0] = base /\ \A n \in 1..k : f[n] = step[<<f[n - 1], n>>]
            T == {k \in Nat : k <= L => \E f \in [0..k -> S] : Upto(k, f)}
<1>1. 0 \in T
  <2>1. [n \in 0..0 |-> base] \in [0..0 -> S] /\ Upto(0, [n \in 0..0 |-> base])
    OBVIOUS
  <2>. QED  BY <2>1
<1>2. ASSUME NEW k \in Nat, k \in T PROVE k + 1 \in T
  <2>. SUFFICES ASSUME k + 1 <= L PROVE \E f \in [0..k + 1 -> S] : Upto(k + 1, f)
    OBVIOUS
  <2>1. PICK f \in [0..k -> S] : Upto(k, f)
    BY <1>2
  <2>2. f[k] \in S /\ k + 1 \in 1..L
    OBVIOUS
  <2>. DEFINE g == [n \in 0..k + 1 |-> IF n = k + 1 THEN step[<<f[k], k + 1>>] ELSE f[n]]
  <2>3. g \in [0..k + 1 -> S]
    BY <2>2
  <2>4. g[0] = base
    BY <2>1
  <2>5. ASSUME NEW n \in 1..k + 1 PROVE g[n] = step[<<g[n - 1], n>>]
    <3>1. CASE n = k + 1
      <4>1. n - 1 = k /\ k # k + 1 /\ k \in 0..k + 1
        BY <3>1
      <4>2. g[n - 1] = f[k] /\ g[n] = step[<<f[k], k + 1>>]
        BY <3>1, <4>1
      <4>. QED  BY <3>1, <4>2
    <3>2. CASE n # k + 1
      BY <2>1, <3>2
    <3>. QED  BY <3>1, <3>2
  <2>. QED  BY <2>3, <2>4, <2>5
<1>. HIDE DEF T
<1>3. L \in T
  BY <1>1, <1>2, SetInduction
<1>. QED  BY <1>3 DEF T, Repeats

\* A set of numbers up to n that is not empty has a greatest element.
LEMMA MaxExists ==
    ASSUME NEW n \in Nat, NEW S \in SUBSET (0..n), S # {}
    PROVE  Max(S) \in S /\ \A y \in S : Max(S) >= y
<1>. DEFINE T == {n - x : x \in S}
<1>1. T \in SUBSET Nat /\ T # {}
  <2>1. \A x \in S : n - x \in Nat
    OBVIOUS
  <2>2. PICK x \in S : TRUE
    OBVIOUS
  <2>3. n - x \in T
    OBVIOUS
  <2>. QED  BY <2>1, <2>3
<1>2. PICK k \in T : \A l \in T : k <= l
  <2>. HIDE DEF T
  <2>. QED  BY <1>1, LeastNumber
<1>3. PICK x \in S : k = n - x
  OBVIOUS
<1>4. \A y \in S : x >= y
  <2>. SUFFICES ASSUME NEW y \in S PROVE x >= y
    OBVIOUS
  <2>1. n - y \in T
    OBVIOUS
  <2>2. n - x <= n - y
    BY <1>2, <1>3, <2>1
  <2>. QED  BY <2>2
<1>. QED  BY <1>4 DEF Max

\* So has a least one, of any set of numbers.
LEMMA MinExists ==
    ASSUME NEW S \in SUBSET Nat, S # {}
    PROVE  Min(S) \in S /\ \A y \in S : Min(S) <= y
<1>1. \E x \in S : \A y \in S : x <= y
  BY LeastNumber
<1>. QED  BY <1>1 DEF Min

-------------------------------------------------------------------------------
(* What survives a cancel, and the first of some messages.                   *)

\* What a longer sequence has at each place.
LEMMA AppendAt ==
    ASSUME NEW S, NEW s \in Seq(S), NEW x \in S
    PROVE  /\ DOMAIN s = 1..Len(s) /\ Len(s) \in Nat
           /\ DOMAIN Append(s, x) = 1..(Len(s) + 1) /\ Len(Append(s, x)) = Len(s) + 1
           /\ Append(s, x)[Len(s) + 1] = x
           /\ \A i \in 1..Len(s) : Append(s, x)[i] = s[i]
           /\ Append(s, x) \in Seq(S)
  OBVIOUS

\* A sequence without its first entry.
LEMMA TailAt ==
    ASSUME NEW S, NEW s \in Seq(S), s # <<>>
    PROVE  /\ DOMAIN s = 1..Len(s) /\ Len(s) \in Nat \ {0} /\ Head(s) = s[1]
           /\ s[1] \in S
           /\ Tail(s) \in Seq(S) /\ DOMAIN Tail(s) = 1..(Len(s) - 1)
           /\ Len(Tail(s)) = Len(s) - 1
           /\ \A i \in 1..(Len(s) - 1) : Tail(s)[i] = s[i + 1]
  OBVIOUS

\* A context that is not older than the cancel is kept, another is not.
Kept(s, x, w) == IF x >= w THEN Append(s, x) ELSE s

\* What survives are contexts of the ring, none older than the cancel.
LEMMA Survivors ==
    ASSUME NEW C, NEW r \in Seq(C), NEW w
    PROVE  /\ Surviving(r, w) \in Seq(C) /\ Len(Surviving(r, w)) <= Len(r)
           /\ \A i \in DOMAIN Surviving(r, w) : Surviving(r, w)[i] >= w
<1>. DEFINE L == Len(r)
            S == Seq(C)
            step == [p \in S \X (1..L) |-> Kept(p[1], r[p[2]], w)]
            upTo[n \in 0..L] == IF n = 0 THEN <<>> ELSE
                IF r[n] >= w THEN Append(upTo[n - 1], r[n]) ELSE upTo[n - 1]
<1>1. L \in Nat /\ DOMAIN r = 1..L /\ \A i \in 1..L : r[i] \in C
  OBVIOUS
<1>2. step \in [S \X (1..L) -> S]
  <2>1. \A s \in S, i \in 1..L : Kept(s, r[i], w) \in S
    BY <1>1, AppendAt DEF Kept
  <2>. QED  BY <2>1
<1>3. <<>> \in S
  OBVIOUS
<1>4. \E f \in [0..L -> S] : Repeats(f, L, <<>>, step)
  <2>. HIDE DEF step, S, L, upTo
  <2>. QED  BY <1>1, <1>2, <1>3, Recursion
<1>5. PICK f \in [0..L -> S] :
        f[0] = <<>> /\ \A n \in 1..L : f[n] = step[<<f[n - 1], n>>]
  BY <1>4 DEF Repeats
<1>6. ASSUME NEW n \in 1..L PROVE n - 1 \in 0..L /\ f[n] = Kept(f[n - 1], r[n], w)
  <2>1. n - 1 \in 0..L
    BY <1>1
  <2>2. PICK s \in S : s = f[n - 1]
    BY <1>5, <2>1
  <2>3. step[<<s, n>>] = Kept(s, r[n], w)
    OBVIOUS
  <2>4. f[n] = step[<<s, n>>]
    BY <1>5, <2>2
  <2>. QED  BY <2>1, <2>2, <2>3, <2>4
<1>7. f = [n \in 0..L |-> IF n = 0 THEN <<>> ELSE
             IF r[n] >= w THEN Append(f[n - 1], r[n]) ELSE f[n - 1]]
  <2>1. \A n \in 0..L : f[n] = IF n = 0 THEN <<>> ELSE
             IF r[n] >= w THEN Append(f[n - 1], r[n]) ELSE f[n - 1]
    <3>3. f[0] = <<>>
      BY <1>5
    <3>1. \A n \in 0..L : n = 0 \/ (n \in 1..L /\ n # 0)
      BY <1>1
    <3>2. \A n \in 1..L : f[n] = IF r[n] >= w THEN Append(f[n - 1], r[n]) ELSE f[n - 1]
      BY <1>6 DEF Kept
    <3>. HIDE DEF L
    <3>. QED  BY <3>1, <3>2, <3>3
  <2>. QED  BY <1>5, <2>1
<1>8. upTo = [n \in 0..L |-> IF n = 0 THEN <<>> ELSE
                IF r[n] >= w THEN Append(upTo[n - 1], r[n]) ELSE upTo[n - 1]]
  BY <1>7
<1>9. Surviving(r, w) = upTo[L]
  BY DEF Surviving
<1>. HIDE DEF upTo, step
<1>10. upTo[0] = <<>> /\ \A n \in 1..L : upTo[n] = Kept(upTo[n - 1], r[n], w)
  <2>1. 0 \in 0..L /\ \A n \in 1..L : n \in 0..L /\ n # 0
    BY <1>1
  <2>. QED  BY <1>8, <2>1 DEF Kept
<1>. DEFINE Fits(s, n) == s \in S /\ Len(s) <= n /\ \A i \in DOMAIN s : s[i] >= w
            T == {n \in Nat : n <= L => Fits(upTo[n], n)}
<1>11. 0 \in T
  <2>1. Fits(<<>>, 0)
    <3>1. Len(<<>>) = 0 /\ \A i : i \notin DOMAIN <<>>
      OBVIOUS
    <3>. QED  BY <3>1, <1>3
  <2>. HIDE DEF Fits
  <2>. QED  BY <2>1, <1>10
<1>12. ASSUME NEW n \in Nat, n \in T PROVE n + 1 \in T
  <2>. SUFFICES ASSUME n + 1 <= L PROVE Fits(upTo[n + 1], n + 1)
    OBVIOUS
  <2>1. n + 1 \in 1..L /\ n + 1 - 1 = n
    BY <1>1
  <2>2. PICK s \in S : s = upTo[n] /\ Fits(s, n)
    BY <1>1, <1>12
  <2>3. PICK x \in C : x = r[n + 1]
    BY <1>1, <2>1
  <2>4. upTo[n + 1] = Kept(s, x, w)
    BY <1>10, <2>1, <2>2, <2>3
  <2>5. CASE x >= w
    <3>1. /\ DOMAIN s = 1..Len(s) /\ Len(s) \in Nat /\ Append(s, x) \in S
          /\ DOMAIN Append(s, x) = 1..(Len(s) + 1) /\ Len(Append(s, x)) = Len(s) + 1
          /\ Append(s, x)[Len(s) + 1] = x
          /\ \A i \in 1..Len(s) : Append(s, x)[i] = s[i]
      BY AppendAt
    <3>2. \A i \in 1..(Len(s) + 1) : i \in 1..Len(s) \/ i = Len(s) + 1
      BY <3>1
    <3>3. \A i \in DOMAIN Append(s, x) : Append(s, x)[i] >= w
      BY <3>1, <3>2, <2>2, <2>5
    <3>. QED  BY <3>1, <3>3, <2>2, <2>4, <2>5 DEF Kept
  <2>6. CASE ~(x >= w)
    <3>1. Len(s) \in Nat
      OBVIOUS
    <3>. QED  BY <3>1, <2>2, <2>4, <2>6 DEF Kept
  <2>. QED  BY <2>5, <2>6
<1>. HIDE DEF T
<1>13. L \in T
  BY <1>1, <1>11, <1>12, SetInduction
<1>. QED  BY <1>1, <1>9, <1>13 DEF T

\* Messages with distinct numbers are ordered, one before the other.
Distinct(M) == \A m, k \in M : m.id = k.id => m = k

LEMMA BeforeOrders ==
    ASSUME NEW M, \A m \in M : m.id \in Nat /\ m.ts \in Nat, Distinct(M)
    PROVE  /\ \A m, k \in M : m = k \/ Before(m, k) \/ Before(k, m)
           /\ \A m \in M : ~Before(m, m)
           /\ \A m, k, l \in M : Before(m, k) /\ Before(k, l) => Before(m, l)
<1>1. \A m, k \in M : m = k \/ Before(m, k) \/ Before(k, m)
  BY DEF Before, Distinct, Urgent
<1>2. \A m \in M : ~Before(m, m)
  BY DEF Before
<1>3. ASSUME NEW m \in M, NEW k \in M, NEW l \in M, Before(m, k), Before(k, l)
      PROVE  Before(m, l)
  BY <1>3 DEF Before, Urgent
<1>. QED  BY <1>1, <1>2, <1>3

\* No more than n messages are the first n.
LEMMA FirstFew ==
    ASSUME NEW M, \A m \in M : m.id \in Nat /\ m.ts \in Nat, Distinct(M),
           IsFiniteSet(M), NEW n \in Nat
    PROVE  /\ First(M, n) \subseteq M /\ IsFiniteSet(First(M, n))
           /\ Cardinality(First(M, n)) <= n
<1>. DEFINE F == First(M, n)
            Ahead(m) == {k \in M : Before(k, m)}
            rank == [m \in F |-> Cardinality(Ahead(m))]
<1>1. F \subseteq M /\ IsFiniteSet(F)
  <2>1. F \subseteq M
    BY DEF First
  <2>. QED  BY <2>1, FS_Subset
<1>2. ASSUME NEW m \in M
      PROVE  IsFiniteSet(Ahead(m)) /\ Cardinality(Ahead(m)) \in Nat
  <2>1. Ahead(m) \in SUBSET M
    OBVIOUS
  <2>. HIDE DEF Ahead
  <2>. QED  BY <2>1, FS_Subset, FS_CardinalityType
<1>3. ASSUME NEW m \in M, NEW k \in M, Before(m, k)
      PROVE  Cardinality(Ahead(m)) < Cardinality(Ahead(k))
  <2>1. Ahead(m) \in SUBSET Ahead(k)
    BY <1>3, BeforeOrders
  <2>2. m \in Ahead(k) /\ m \notin Ahead(m)
    BY <1>3, BeforeOrders
  <2>. HIDE DEF Ahead
  <2>3. /\ Cardinality(Ahead(m)) <= Cardinality(Ahead(k))
        /\ Cardinality(Ahead(k)) = Cardinality(Ahead(m)) => Ahead(k) = Ahead(m)
    BY <1>2, <2>1, FS_Subset
  <2>. QED  BY <1>2, <2>2, <2>3
<1>4. ASSUME NEW m \in F
      PROVE  /\ m \in M /\ rank[m] = Cardinality(Ahead(m)) /\ rank[m] \in Nat
             /\ rank[m] \in 0..(n - 1)
  <2>1. Cardinality(Ahead(m)) < n
    BY Zenon DEF First
  <2>2. m \in M /\ Cardinality(Ahead(m)) \in Nat
    BY <1>1, <1>2
  <2>3. rank[m] = Cardinality(Ahead(m))
    <3>. HIDE DEF F, Ahead
    <3>. QED  OBVIOUS
  <2>. HIDE DEF rank, Ahead, F
  <2>. QED  BY <2>1, <2>2, <2>3
<1>5. ASSUME NEW m \in F, NEW k \in F, rank[m] = rank[k] PROVE m = k
  <2>. HIDE DEF rank, Ahead, F
  <2>1. m \in M /\ k \in M
    BY <1>1
  <2>3. /\ Cardinality(Ahead(m)) = Cardinality(Ahead(k))
        /\ Cardinality(Ahead(m)) \in Nat /\ Cardinality(Ahead(k)) \in Nat
    BY <1>4, <1>5
  <2>2. ~Before(m, k) /\ ~Before(k, m)
    BY <1>3, <2>1, <2>3
  <2>. QED  BY <2>1, <2>2, BeforeOrders
<1>. HIDE DEF F
<1>6. rank \in Injection(F, 0..(n - 1))
  <2>1. rank \in [F -> 0..(n - 1)] /\ DOMAIN rank = F
    BY <1>4
  <2>. HIDE DEF rank, Ahead
  <2>. QED  BY <1>5, <2>1 DEF Injection, IsInjective
<1>7. IsFiniteSet(0..(n - 1)) /\ Cardinality(0..(n - 1)) = n
  <2>1. 0 \in Int /\ n - 1 \in Int
    OBVIOUS
  <2>2. Cardinality(0..(n - 1)) = IF 0 > n - 1 THEN 0 ELSE (n - 1) - 0 + 1
    BY <2>1, FS_Interval
  <2>. QED  BY <2>1, <2>2, FS_Interval
<1>8. Cardinality(F) <= Cardinality(0..(n - 1))
  <2>. HIDE DEF rank
  <2>. QED  BY <1>6, <1>7, FS_Injection
<1>. QED  BY <1>1, <1>7, <1>8 DEF F

-------------------------------------------------------------------------------
(* The inductive invariant.                                                  *)

\* The buffer is a finite function.
ShapePart == buffer = [m \in DOMAIN buffer |-> buffer[m]] /\ IsFiniteSet(DOMAIN buffer)

\* Messages are numbered as they come: in the buffer, in the inbox, and sent.
IdPart ==
    /\ \A m \in DOMAIN buffer :
         /\ m.id <= sent
         /\ \A i \in DOMAIN inbox : m.id < inbox[i].id
    /\ \A i \in DOMAIN inbox :
         /\ inbox[i].id <= sent
         /\ \A j \in DOMAIN inbox : i < j => inbox[i].id < inbox[j].id
    /\ Distinct(DOMAIN buffer)

\* The buffer is swept up to clean, which lags behind the watermark only while the
\* control queue is drained.
CleanPart ==
    /\ clean <= watermark
    /\ pc # "drain" => clean = watermark
    /\ \A m \in DOMAIN buffer : m.ts >= clean

DanmakuInv == TypeOK /\ ShapePart /\ IdPart /\ SpanCoversBuffer /\ CleanPart

ClientTypes ==
    /\ sent \in 0..MaxMessages /\ inbox \in Seq(Message) /\ control \in Seq(Control)
    /\ controls \in 0..(MaxControls + 1)

LoopTypes ==
    /\ pc \in {"drain", "get", "update", "event", "exited"}
    /\ watermark \in Nat /\ clean \in Nat /\ killed \in BOOLEAN

BufferTypes ==
    /\ DOMAIN buffer \subseteq Message /\ Cardinality(DOMAIN buffer) <= MaxBuffer
    /\ \A m \in DOMAIN buffer : buffer[m] \in 0..MaxWait
    /\ span \in Stamps \cup {None} /\ waited \in 0..MaxWait

ContextTypes ==
    /\ idle \in (0..IdleTalk) \cup {None}
    /\ ring \in Seq(Stamps \cup Acks) /\ Len(ring) <= RingSize

ReleaseTypes ==
    /\ locked \in BOOLEAN /\ released \in 0..Never
    /\ last.stamp \in Nat /\ last.batch \subseteq Message /\ told \in SUBSET Nat
    /\ late \subseteq Acks

Types == ClientTypes /\ LoopTypes /\ BufferTypes /\ ContextTypes /\ ReleaseTypes

LEMMA TypesNow == TypeOK <=> Types
  BY DEF TypeOK, Types, ClientTypes, LoopTypes, BufferTypes, ContextTypes, ReleaseTypes

LEMMA TypesNext == TypeOK' <=> Types'
  BY TypesNow, PTL

\* What is known of the constants.
LEMMA Numbers ==
    /\ Infinity \in Nat \ {0} /\ Never \in Nat /\ None \notin Nat
    /\ MaxMessages \in Nat /\ MaxControls \in Nat /\ RingSize \in Nat \ {0}
    /\ MaxBatch \in Nat \ {0} /\ MaxBuffer \in Nat \ {0}
    /\ MaxWait \in Nat /\ IdleTalk \in Nat /\ PlaybackTimeout \in Nat
    /\ \A t \in Stamps \cup Cancels \cup Acks : t \in Nat /\ t < Infinity
    /\ \A m \in Message : m.id \in Nat /\ m.ts \in Nat /\ m.ts \in Stamps
<1>1. /\ Infinity \in Nat \ {0} /\ None \notin Nat /\ Interval \in Nat
      /\ MaxMessages \in Nat /\ MaxControls \in Nat /\ RingSize \in Nat \ {0}
      /\ MaxBatch \in Nat \ {0} /\ MaxBuffer \in Nat \ {0}
      /\ MaxWait \in Nat /\ IdleTalk \in Nat /\ PlaybackTimeout \in Nat
      /\ \A t \in Stamps \cup Cancels \cup Acks : t \in Nat /\ t < Infinity
  BY DanmakuAssumption
<1>2. Never \in Nat
  <2>1. /\ {Interval, PlaybackTimeout} # {}
        /\ {Interval, PlaybackTimeout} \in SUBSET (0..(Interval + PlaybackTimeout))
        /\ Interval + PlaybackTimeout \in Nat
    BY <1>1
  <2>2. Max({Interval, PlaybackTimeout}) \in {Interval, PlaybackTimeout}
    BY <2>1, MaxExists
  <2>. QED  BY <1>1, <2>2 DEF Never
<1>3. \A m \in Message : m.id \in Nat /\ m.ts \in Nat /\ m.ts \in Stamps
  BY <1>1 DEF Message
<1>. QED  BY <1>1, <1>2, <1>3

\* What is known of a state in which the invariant holds.
LEMMA Facts ==
    ASSUME DanmakuInv
    PROVE  /\ ClientTypes /\ LoopTypes /\ BufferTypes /\ ContextTypes /\ ReleaseTypes
           /\ DOMAIN inbox = 1..Len(inbox) /\ Len(inbox) \in Nat
           /\ \A i \in DOMAIN inbox : inbox[i] \in Message
           /\ \A m \in DOMAIN buffer : m \in Message /\ m.id \in Nat /\ m.ts \in Nat
           /\ sent \in Nat
<1>1. ClientTypes /\ LoopTypes /\ BufferTypes /\ ContextTypes /\ ReleaseTypes
  BY TypesNow DEF DanmakuInv, Types
<1>2. /\ DOMAIN inbox = 1..Len(inbox) /\ Len(inbox) \in Nat
      /\ \A i \in DOMAIN inbox : inbox[i] \in Message
  BY <1>1 DEF ClientTypes
<1>3. sent \in Nat
  BY <1>1, Numbers DEF ClientTypes
<1>4. \A m \in DOMAIN buffer : m \in Message /\ m.id \in Nat /\ m.ts \in Nat
  BY <1>1, Numbers DEF BufferTypes
<1>. QED  BY <1>1, <1>2, <1>3, <1>4

-------------------------------------------------------------------------------
(* What the steps have in common.                                            *)

\* A function of nothing is the empty sequence.
LEMMA EmptyFunction ==
    ASSUME NEW f, f = [x \in DOMAIN f |-> f[x]], DOMAIN f = {}
    PROVE  f = <<>>
<1>1. f \in [{} -> {}] /\ <<>> \in [{} -> {}]
  <2>1. <<>> \in Seq({}) /\ Len(<<>>) = 0
    OBVIOUS
  <2>2. <<>> = [i \in 1..0 |-> <<>>[i]] /\ 1..0 = {}
    BY <2>1
  <2>. QED  BY <2>2
<1>2. \A x \in {} : f[x] = <<>>[x]
  OBVIOUS
<1>. QED  BY <1>1, <1>2

\* The span follows the buffer.
LEMMA Synced ==
    ASSUME DOMAIN buffer' \subseteq Message, Cardinality(DOMAIN buffer') <= MaxBuffer,
           \A m \in DOMAIN buffer' : buffer'[m] \in 0..MaxWait,
           buffer' = [m \in DOMAIN buffer' |-> buffer'[m]], Sync
    PROVE  BufferTypes' /\ SpanCoversBuffer'
<1>1. CASE buffer' = <<>>
  <2>1. DOMAIN buffer' = {} /\ span' = None /\ waited' = 0
    BY <1>1 DEF Sync, Ended
  <2>2. 0 \in 0..MaxWait
    BY Numbers
  <2>. QED  BY <2>1, <2>2 DEF BufferTypes, SpanCoversBuffer
<1>2. CASE buffer' # <<>>
  <2>1. /\ span' = Min({m.ts : m \in DOMAIN buffer'})
        /\ waited' = Max({buffer'[m] : m \in DOMAIN buffer'})
    BY <1>2 DEF Sync
  <2>2. PICK d \in DOMAIN buffer' : TRUE
    <3>1. DOMAIN buffer' # {}
      BY <1>2, EmptyFunction
    <3>. QED  BY <3>1
  <2>. DEFINE P == {m.ts : m \in DOMAIN buffer'}
              W == {buffer'[m] : m \in DOMAIN buffer'}
  <2>3. /\ P # {} /\ P \in SUBSET Nat /\ W # {} /\ W \in SUBSET (0..MaxWait)
        /\ \A m \in DOMAIN buffer' : m.ts \in P
        /\ P \subseteq Stamps
    BY <2>2, Numbers
  <2>4. span' \in P /\ (\A y \in P : span' <= y) /\ waited' \in W
    <3>. HIDE DEF P, W
    <3>1. Min(P) \in P /\ \A y \in P : Min(P) <= y
      BY <2>3, MinExists
    <3>2. Max(W) \in W
      BY <2>3, Numbers, MaxExists
    <3>. QED  BY <2>1, <3>1, <3>2 DEF P, W
  <2>5. span' # None
    BY <2>3, <2>4, Numbers
  <2>. HIDE DEF P, W
  <2>. QED  BY <2>3, <2>4, <2>5 DEF BufferTypes, SpanCoversBuffer
<1>. QED  BY <1>1, <1>2

\* A part of the buffer is kept.
LEMMA Retained ==
    ASSUME DanmakuInv, NEW B \in SUBSET (DOMAIN buffer), Retain(B)
    PROVE  /\ DOMAIN buffer' = B /\ \A m \in B : buffer'[m] = buffer[m]
           /\ DOMAIN buffer' \subseteq Message /\ Cardinality(DOMAIN buffer') <= MaxBuffer
           /\ \A m \in DOMAIN buffer' : buffer'[m] \in 0..MaxWait
           /\ ShapePart' /\ DOMAIN buffer' \subseteq DOMAIN buffer
<1>1. buffer' = [m \in B |-> buffer[m]]
  BY DEF Retain, Restrict
<1>2. DOMAIN buffer' = B /\ \A m \in B : buffer'[m] = buffer[m]
  BY <1>1
<1>3. IsFiniteSet(B) /\ Cardinality(B) <= MaxBuffer
  <2>1. IsFiniteSet(DOMAIN buffer) /\ Cardinality(DOMAIN buffer) <= MaxBuffer
    BY Facts DEF DanmakuInv, ShapePart, BufferTypes
  <2>2. IsFiniteSet(B) /\ Cardinality(B) <= Cardinality(DOMAIN buffer)
    BY <2>1, FS_Subset
  <2>3. /\ Cardinality(B) \in Nat /\ Cardinality(DOMAIN buffer) \in Nat
    BY <2>1, <2>2, FS_CardinalityType
  <2>. QED  BY <2>1, <2>2, <2>3, Numbers
<1>4. ShapePart'
  BY <1>1, <1>2, <1>3 DEF ShapePart
<1>. QED  BY <1>2, <1>3, <1>4, Facts DEF BufferTypes

\* Nothing new is buffered.
LEMMA Numbered ==
    ASSUME DanmakuInv, DOMAIN buffer' \subseteq DOMAIN buffer, sent' = sent,
           inbox' = inbox \/ (inbox # <<>> /\ inbox' = Tail(inbox))
    PROVE  IdPart'
<1>1. IdPart /\ inbox \in Seq(Message)
  BY Facts DEF DanmakuInv, ClientTypes
<1>2. CASE inbox' = inbox
  BY <1>1, <1>2 DEF IdPart, Distinct
<1>3. CASE inbox # <<>> /\ inbox' = Tail(inbox)
  <2>1. /\ DOMAIN inbox = 1..Len(inbox) /\ Len(inbox) \in Nat
        /\ DOMAIN inbox' = 1..(Len(inbox) - 1)
        /\ \A i \in 1..(Len(inbox) - 1) : inbox'[i] = inbox[i + 1]
    BY <1>1, <1>3, TailAt
  <2>2. \A i \in DOMAIN inbox' : i + 1 \in DOMAIN inbox /\ inbox'[i] = inbox[i + 1]
    BY <2>1
  <2>3. \A i, j \in DOMAIN inbox' : i < j => i + 1 < j + 1
    BY <2>1
  <2>. QED  BY <2>2, <2>3, <1>1 DEF IdPart, Distinct
<1>. QED  BY <1>2, <1>3

\* The types of what a step leaves alone.
LEMMA ClientKept == ASSUME DanmakuInv, UNCHANGED clientVars PROVE ClientTypes'
<1>1. ClientTypes
  BY Facts
<1>. QED  BY <1>1 DEF ClientTypes, clientVars

LEMMA BufferKept ==
    ASSUME DanmakuInv, UNCHANGED spanVars, sent' = sent,
           inbox' = inbox \/ (inbox # <<>> /\ inbox' = Tail(inbox))
    PROVE  BufferTypes' /\ ShapePart' /\ SpanCoversBuffer' /\ IdPart'
<1>1. UNCHANGED <<buffer, span, waited>>
  BY DEF spanVars
<1>2. BufferTypes /\ ShapePart /\ SpanCoversBuffer
  BY Facts DEF DanmakuInv
<1>3. IdPart'
  BY <1>1, Numbered
<1>. QED  BY <1>1, <1>2, <1>3 DEF BufferTypes, ShapePart, SpanCoversBuffer

LEMMA ReleaseKept == ASSUME DanmakuInv, UNCHANGED releaseVars PROVE ReleaseTypes'
<1>1. ReleaseTypes
  BY Facts
<1>. QED  BY <1>1 DEF ReleaseTypes, releaseVars

\* A context is recorded.
LEMMA Recorded ==
    ASSUME ring \in Seq(Stamps \cup Acks), Len(ring) <= RingSize,
           NEW t \in Stamps \cup Acks, Record(t)
    PROVE  /\ ring' \in Seq(Stamps \cup Acks) /\ Len(ring') <= RingSize
           /\ \A i \in DOMAIN ring' : ring'[i] = t \/ \E j \in DOMAIN ring : ring'[i] = ring[j]
<1>. DEFINE C == Stamps \cup Acks
<1>1. RingSize \in Nat \ {0} /\ Len(ring) \in Nat
  BY Numbers
<1>2. PICK r : r = IF Len(ring) = RingSize THEN Tail(ring) ELSE ring
  OBVIOUS
<1>3. ring' = Append(r, t)
  BY <1>2 DEF Record
<1>4. /\ r \in Seq(C) /\ Len(r) < RingSize
      /\ \A i \in DOMAIN r : \E j \in DOMAIN ring : r[i] = ring[j]
  <2>1. CASE Len(ring) = RingSize
    <3>1. /\ DOMAIN ring = 1..Len(ring) /\ Tail(ring) \in Seq(C)
          /\ DOMAIN Tail(ring) = 1..(Len(ring) - 1) /\ Len(Tail(ring)) = Len(ring) - 1
          /\ \A i \in 1..(Len(ring) - 1) : Tail(ring)[i] = ring[i + 1]
      <4>1. ring # <<>>
        BY <2>1, <1>1
      <4>. QED  BY <4>1, TailAt
    <3>2. \A i \in 1..(Len(ring) - 1) : i + 1 \in DOMAIN ring
      BY <3>1, <1>1
    <3>. QED  BY <3>1, <3>2, <2>1, <1>1, <1>2
  <2>2. CASE Len(ring) # RingSize
    BY <2>2, <1>1, <1>2
  <2>. QED  BY <2>1, <2>2
<1>5. /\ DOMAIN r = 1..Len(r) /\ Len(r) \in Nat /\ ring' \in Seq(C)
      /\ DOMAIN ring' = 1..(Len(r) + 1) /\ Len(ring') = Len(r) + 1
      /\ ring'[Len(r) + 1] = t /\ \A i \in 1..Len(r) : ring'[i] = r[i]
  BY <1>3, <1>4, AppendAt
<1>6. \A i \in DOMAIN ring' : i \in DOMAIN r \/ i = Len(r) + 1
  BY <1>5
<1>. QED  BY <1>1, <1>4, <1>5, <1>6

\* A cancel is applied: buffer, ring and lock are swept up to it.
LEMMA Swept ==
    ASSUME DanmakuInv, NEW w \in Nat, Applied(w), UNCHANGED <<sent, inbox>>
    PROVE  /\ BufferTypes' /\ ShapePart' /\ SpanCoversBuffer' /\ IdPart'
           /\ ContextTypes' /\ ReleaseTypes' /\ clean' = w
           /\ \A m \in DOMAIN buffer' : m.ts >= w
           /\ \A i \in DOMAIN ring' : ring'[i] >= w
<1>. DEFINE B == {m \in DOMAIN buffer : m.ts >= w}
<1>1. /\ Retain(B) /\ Sync /\ clean' = w /\ idle' = 0 /\ ring' = Surviving(ring, w)
      /\ locked' = (locked /\ last.stamp >= w) /\ UNCHANGED <<released, last, told, late>>
  BY DEF Applied
<1>2. B \in SUBSET (DOMAIN buffer) /\ \A m \in B : m.ts >= w
  OBVIOUS
<1>. HIDE DEF B
<1>3. /\ DOMAIN buffer' = B
      /\ DOMAIN buffer' \subseteq Message /\ Cardinality(DOMAIN buffer') <= MaxBuffer
      /\ \A m \in DOMAIN buffer' : buffer'[m] \in 0..MaxWait
      /\ ShapePart' /\ DOMAIN buffer' \subseteq DOMAIN buffer
  BY <1>1, <1>2, Retained
<1>4. BufferTypes' /\ SpanCoversBuffer'
  BY <1>1, <1>3, Synced DEF ShapePart
<1>5. IdPart'
  BY <1>3, Numbered
<1>6. ContextTypes' /\ \A i \in DOMAIN ring' : ring'[i] >= w
  <2>1. ring \in Seq(Stamps \cup Acks) /\ Len(ring) <= RingSize
    BY Facts DEF ContextTypes
  <2>2. /\ ring' \in Seq(Stamps \cup Acks) /\ Len(ring') <= Len(ring)
        /\ \A i \in DOMAIN ring' : ring'[i] >= w
    BY <1>1, <2>1, Survivors
  <2>3. Len(ring') <= RingSize
    BY <2>1, <2>2, Numbers
  <2>4. 0 \in 0..IdleTalk
    BY Numbers
  <2>. QED  BY <1>1, <2>2, <2>3, <2>4 DEF ContextTypes
<1>7. ReleaseTypes'
  BY <1>1, Facts DEF ReleaseTypes
<1>. QED  BY <1>1, <1>2, <1>3, <1>4, <1>5, <1>6, <1>7

\* The parts make the whole.
LEMMA Whole ==
    ASSUME ClientTypes', LoopTypes', BufferTypes', ContextTypes', ReleaseTypes',
           ShapePart', IdPart', SpanCoversBuffer', CleanPart'
    PROVE  DanmakuInv'
<1>1. TypeOK'
  BY TypesNext DEF Types
<1>. QED  BY <1>1 DEF DanmakuInv

-------------------------------------------------------------------------------
(* The client's steps, and time.                                             *)

\* What the node has does not change when the client sends.
LEMMA NodeKept ==
    ASSUME DanmakuInv, UNCHANGED nodeVars
    PROVE  /\ LoopTypes' /\ BufferTypes' /\ ContextTypes' /\ ReleaseTypes'
           /\ ShapePart' /\ SpanCoversBuffer' /\ CleanPart'
           /\ buffer' = buffer
<1>1. /\ UNCHANGED <<pc, watermark, killed, clean, buffer, span, waited, idle, ring>>
      /\ UNCHANGED <<locked, released, last, told, late>>
  BY DEF nodeVars, loopVars, spanVars, releaseVars
<1>2. LoopTypes /\ BufferTypes /\ ContextTypes /\ ReleaseTypes
  BY Facts
<1>3. ShapePart /\ SpanCoversBuffer /\ CleanPart
  BY DEF DanmakuInv
<1>4. LoopTypes' /\ BufferTypes'
  BY <1>1, <1>2 DEF LoopTypes, BufferTypes
<1>5. ContextTypes' /\ ReleaseTypes'
  BY <1>1, <1>2 DEF ContextTypes, ReleaseTypes
<1>6. ShapePart' /\ SpanCoversBuffer' /\ CleanPart'
  BY <1>1, <1>3 DEF ShapePart, SpanCoversBuffer, CleanPart
<1>. QED  BY <1>1, <1>4, <1>5, <1>6

\* A message is sent with the next number.
LEMMA SendMessageKeeps ==
    ASSUME DanmakuInv, NEW t \in Stamps, NEW kind \in Kinds, SendMessage(t, kind)
    PROVE  DanmakuInv'
<1>1. /\ sent < MaxMessages /\ sent' = sent + 1
      /\ inbox' = Append(inbox, [id |-> sent + 1, ts |-> t, kind |-> kind])
      /\ UNCHANGED <<control, controls>> /\ UNCHANGED nodeVars
  BY DEF SendMessage
<1>2. /\ LoopTypes' /\ BufferTypes' /\ ContextTypes' /\ ReleaseTypes'
      /\ ShapePart' /\ SpanCoversBuffer' /\ CleanPart' /\ buffer' = buffer
  BY <1>1, NodeKept
<1>3. PICK m : m = [id |-> sent + 1, ts |-> t, kind |-> kind]
  OBVIOUS
<1>4. sent \in 0..MaxMessages /\ inbox \in Seq(Message) /\ ClientTypes
  BY Facts DEF ClientTypes
<1>5. m \in Message /\ m.id = sent + 1 /\ sent' \in 0..MaxMessages
  BY <1>1, <1>3, <1>4, Numbers DEF Message
<1>6. /\ DOMAIN inbox = 1..Len(inbox) /\ Len(inbox) \in Nat
      /\ DOMAIN inbox' = 1..(Len(inbox) + 1)
      /\ inbox'[Len(inbox) + 1] = m
      /\ \A i \in 1..Len(inbox) : inbox'[i] = inbox[i]
      /\ inbox' \in Seq(Message)
  BY <1>1, <1>3, <1>4, <1>5, AppendAt
<1>7. ClientTypes'
  BY <1>1, <1>4, <1>5, <1>6 DEF ClientTypes
<1>8. IdPart'
  <2>1. IdPart /\ sent \in Nat /\ \A i \in DOMAIN inbox : inbox[i] \in Message
    BY Facts DEF DanmakuInv
  <2>2. \A i \in DOMAIN inbox : inbox[i].id \in Nat /\ inbox[i].id <= sent
    BY <2>1, Numbers DEF IdPart
  <2>3. \A i \in DOMAIN inbox' : i \in DOMAIN inbox \/ i = Len(inbox) + 1
    BY <1>6
  <2>4. \A d \in DOMAIN buffer : d.id \in Nat /\ d.id <= sent
    BY <2>1, Facts DEF IdPart
  <2>5. \A d \in DOMAIN buffer' :
          d.id <= sent' /\ \A i \in DOMAIN inbox' : d.id < inbox'[i].id
    BY <1>1, <1>2, <1>5, <1>6, <2>1, <2>3, <2>4 DEF IdPart
  <2>6. \A i \in DOMAIN inbox' : inbox'[i].id <= sent'
    BY <1>1, <1>5, <1>6, <2>1, <2>2, <2>3
  <2>7. ASSUME NEW i \in DOMAIN inbox', NEW j \in DOMAIN inbox', i < j
        PROVE  inbox'[i].id < inbox'[j].id
    <3>1. i \in DOMAIN inbox /\ inbox'[i] = inbox[i]
      BY <1>6, <2>7
    <3>2. CASE j = Len(inbox) + 1
      BY <1>5, <1>6, <2>1, <2>2, <3>1, <3>2
    <3>3. CASE j \in DOMAIN inbox
      BY <1>6, <2>1, <2>7, <3>1, <3>3 DEF IdPart
    <3>. QED  BY <2>3, <3>2, <3>3
  <2>8. Distinct(DOMAIN buffer')
    BY <1>2, <2>1 DEF IdPart
  <2>. QED  BY <2>5, <2>6, <2>7, <2>8 DEF IdPart
<1>. QED  BY <1>2, <1>7, <1>8, Whole

\* The numbers of messages do not depend on the control queue.
LEMMA ControlKeeps ==
    ASSUME DanmakuInv, UNCHANGED <<sent, inbox>>, UNCHANGED nodeVars,
           control' \in Seq(Control), controls' \in 0..(MaxControls + 1)
    PROVE  DanmakuInv'
<1>1. /\ LoopTypes' /\ BufferTypes' /\ ContextTypes' /\ ReleaseTypes'
      /\ ShapePart' /\ SpanCoversBuffer' /\ CleanPart' /\ buffer' = buffer
  BY NodeKept
<1>2. ClientTypes'
  BY Facts DEF ClientTypes
<1>3. IdPart'
  BY <1>1, Numbered
<1>. QED  BY <1>1, <1>2, <1>3, Whole

LEMMA PutKeeps ==
    ASSUME DanmakuInv, NEW c \in Control, Put(c)
    PROVE  DanmakuInv'
<1>1. /\ controls < MaxControls /\ controls' = controls + 1
      /\ control' = Append(control, c) /\ UNCHANGED <<sent, inbox, nodeVars>>
  BY DEF Put
<1>2. control \in Seq(Control) /\ controls \in 0..(MaxControls + 1)
  BY Facts DEF ClientTypes
<1>3. control' \in Seq(Control)
  BY <1>1, <1>2
<1>4. controls' \in 0..(MaxControls + 1)
  BY <1>1, <1>2, Numbers
<1>. QED  BY <1>1, <1>3, <1>4, ControlKeeps

\* The entries of the control queue.
LEMMA Entries ==
    /\ \A t \in Cancels \cup {Infinity} : [verb |-> "cancel", ts |-> t] \in Control
    /\ \A t \in Acks, b \in Nat : [verb |-> "played", ts |-> t, batch |-> b] \in Control
    /\ [verb |-> "kill"] \in Control
    /\ \A c \in Control :
         /\ c.verb \in {"cancel", "played", "kill"}
         /\ c.verb = "cancel" => c.ts \in Cancels \cup {Infinity}
         /\ c.verb = "played" => c.ts \in Acks /\ c.batch \in Nat
  BY DEF Control

LEMMA ClientKeeps ==
    ASSUME DanmakuInv, Client
    PROVE  DanmakuInv'
<1>1. ASSUME NEW t \in Cancels, Cancel(t) PROVE DanmakuInv'
  BY <1>1, Entries, PutKeeps DEF Cancel
<1>2. ASSUME NEW t \in Acks, NEW b \in told, PlaybackComplete(t, b) PROVE DanmakuInv'
  <2>1. b \in Nat
    BY Facts DEF ReleaseTypes
  <2>. QED  BY <1>2, <2>1, Entries, PutKeeps DEF PlaybackComplete
<1>3. CASE Teardown
  <2>1. /\ controls' = MaxControls + 1 /\ UNCHANGED <<sent, inbox, nodeVars>>
        /\ control' = control \o <<[verb |-> "cancel", ts |-> Infinity], [verb |-> "kill"]>>
    BY <1>3 DEF Teardown
  <2>2. control \in Seq(Control)
    BY Facts DEF ClientTypes
  <2>3. <<[verb |-> "cancel", ts |-> Infinity], [verb |-> "kill"]>> \in Seq(Control)
    BY Entries
  <2>4. control' \in Seq(Control)
    BY <2>1, <2>2, <2>3
  <2>5. controls' \in 0..(MaxControls + 1)
    BY <2>1, Numbers
  <2>. QED  BY <2>1, <2>4, <2>5, ControlKeeps
<1>. QED  BY <1>1, <1>2, <1>3, SendMessageKeeps DEF Client

\* A clock stays within its bound.
LEMMA LaterStays ==
    ASSUME NEW bound \in Nat, NEW n \in 0..bound
    PROVE  Later(n, bound) \in 0..bound
  BY DEF Later

LEMMA TickKeeps ==
    ASSUME DanmakuInv, Tick
    PROVE  DanmakuInv'
<1>1. /\ buffer' = [m \in DOMAIN buffer |-> Later(buffer[m], MaxWait)]
      /\ waited' = IF buffer = <<>> THEN 0 ELSE Later(waited, MaxWait)
      /\ released' = Later(released, Never)
      /\ idle' = IF idle = None THEN None ELSE Later(idle, IdleTalk)
      /\ UNCHANGED <<sent, inbox, control, controls, pc, watermark, killed, clean, span, ring>>
      /\ UNCHANGED <<locked, last, told, late>>
  BY DEF Tick, clientVars, loopVars
<1>2. /\ ClientTypes /\ LoopTypes /\ BufferTypes /\ ContextTypes /\ ReleaseTypes
      /\ ShapePart /\ SpanCoversBuffer /\ CleanPart
  BY Facts DEF DanmakuInv
<1>3. DOMAIN buffer' = DOMAIN buffer /\ \A m \in DOMAIN buffer' : buffer'[m] \in 0..MaxWait
  BY <1>1, <1>2, LaterStays, Numbers DEF BufferTypes
<1>4. BufferTypes'
  <2>1. 0 \in 0..MaxWait /\ waited \in 0..MaxWait
    BY <1>2, Numbers DEF BufferTypes
  <2>2. waited' \in 0..MaxWait
    BY <1>1, <2>1, LaterStays, Numbers
  <2>. QED  BY <1>1, <1>2, <1>3, <2>2 DEF BufferTypes
<1>5. ShapePart' /\ SpanCoversBuffer'
  BY <1>1, <1>2, <1>3 DEF ShapePart, SpanCoversBuffer
<1>6. ContextTypes'
  BY <1>1, <1>2, LaterStays, Numbers DEF ContextTypes
<1>7. ReleaseTypes'
  BY <1>1, <1>2, LaterStays, Numbers DEF ReleaseTypes
<1>8. IdPart'
  BY <1>1, <1>3, Numbered
<1>9. ClientTypes' /\ LoopTypes'
  BY <1>1, <1>2 DEF ClientTypes, LoopTypes
<1>10. CleanPart'
  BY <1>1, <1>2, <1>3 DEF CleanPart
<1>. QED  BY <1>4, <1>5, <1>6, <1>7, <1>8, <1>9, <1>10, Whole

-------------------------------------------------------------------------------
(* The control queue.                                                        *)

\* The head of the control queue is taken.
LEMMA DrainTypes ==
    ASSUME DanmakuInv, NEW verb, Drain(verb)
    PROVE  /\ ClientTypes' /\ UNCHANGED <<sent, inbox>>
           /\ Head(control) \in Control /\ Head(control).verb = verb
<1>1. control \in Seq(Control) /\ control # <<>>
  BY Facts DEF ClientTypes, Drain
<1>2. Head(control) \in Control /\ Tail(control) \in Seq(Control)
  BY <1>1
<1>. QED  BY <1>1, <1>2, Facts DEF ClientTypes, Drain

\* A step of the node that leaves its buffer, its contexts and its lock alone.
LEMMA StandsStill ==
    ASSUME DanmakuInv, UNCHANGED <<sent, inbox, buffer, span, waited, idle, ring>>,
           UNCHANGED <<locked, released, last, told, late>>, ClientTypes', LoopTypes', CleanPart'
    PROVE  DanmakuInv'
<1>1. BufferTypes' /\ ShapePart' /\ SpanCoversBuffer' /\ IdPart'
  BY BufferKept DEF spanVars
<1>2. ContextTypes' /\ ReleaseTypes'
  BY Facts DEF ContextTypes, ReleaseTypes
<1>. QED  BY <1>1, <1>2, Whole

LEMMA ReadCancelKeeps ==
    ASSUME DanmakuInv, ReadCancel
    PROVE  DanmakuInv'
<1>1. Drain("cancel") /\ UNCHANGED <<pc, killed>> /\ pc = "drain"
  BY DEF ReadCancel, Drain
<1>2. PICK t : t = Head(control).ts
  OBVIOUS
<1>3. PICK w : w = Larger(watermark, t)
  OBVIOUS
<1>4. /\ watermark' = w
      /\ IF span # None /\ span < w THEN Applied(w)
         ELSE UNCHANGED <<clean, spanVars, idle, ring, releaseVars>>
  BY <1>2, <1>3 DEF ReadCancel
<1>5. /\ ClientTypes' /\ UNCHANGED <<sent, inbox>>
      /\ Head(control) \in Control /\ Head(control).verb = "cancel"
  BY <1>1, DrainTypes
<1>6. t \in Nat
  <2>1. t \in Cancels \cup {Infinity}
    BY <1>2, <1>5, Entries
  <2>. QED  BY <2>1, Numbers
<1>7. watermark \in Nat /\ clean \in Nat /\ LoopTypes /\ CleanPart
  BY Facts DEF LoopTypes, DanmakuInv
<1>8. w \in Nat /\ watermark <= w
  BY <1>3, <1>6, <1>7 DEF Larger
<1>9. CASE span # None /\ span < w
  <2>1. Applied(w)
    BY <1>4, <1>9
  <2>2. /\ BufferTypes' /\ ShapePart' /\ SpanCoversBuffer' /\ IdPart'
        /\ ContextTypes' /\ ReleaseTypes' /\ clean' = w
        /\ \A m \in DOMAIN buffer' : m.ts >= w
    BY <1>5, <1>8, <2>1, Swept
  <2>3. LoopTypes'
    BY <1>1, <1>4, <1>7, <1>8, <2>2 DEF LoopTypes
  <2>4. CleanPart'
    BY <1>1, <1>4, <1>8, <2>2 DEF CleanPart
  <2>. QED  BY <1>5, <2>2, <2>3, <2>4, Whole
<1>10. CASE ~(span # None /\ span < w)
  <2>1. /\ UNCHANGED <<clean, buffer, span, waited, idle, ring>>
        /\ UNCHANGED <<locked, released, last, told, late>>
    BY <1>4, <1>10 DEF spanVars, releaseVars
  <2>2. LoopTypes'
    BY <1>1, <1>4, <1>7, <1>8, <2>1 DEF LoopTypes
  <2>3. CleanPart'
    BY <1>1, <1>4, <1>7, <1>8, <2>1 DEF CleanPart
  <2>. QED  BY <1>5, <2>1, <2>2, <2>3, StandsStill
<1>. QED  BY <1>9, <1>10

LEMMA ApplyKeeps ==
    ASSUME DanmakuInv, Apply
    PROVE  DanmakuInv'
<1>1. Applied(watermark) /\ UNCHANGED <<clientVars, pc, loopVars>>
  BY DEF Apply
<1>2. watermark \in Nat /\ LoopTypes
  BY Facts DEF LoopTypes
<1>3. UNCHANGED <<sent, inbox, watermark, killed, pc>>
  BY <1>1 DEF clientVars, loopVars
<1>4. /\ BufferTypes' /\ ShapePart' /\ SpanCoversBuffer' /\ IdPart'
      /\ ContextTypes' /\ ReleaseTypes' /\ clean' = watermark
      /\ \A m \in DOMAIN buffer' : m.ts >= watermark
  BY <1>1, <1>2, <1>3, Swept
<1>5. LoopTypes' /\ CleanPart'
  BY <1>2, <1>3, <1>4 DEF LoopTypes, CleanPart
<1>. QED  BY <1>1, <1>4, <1>5, ClientKept, Whole

\* A drained queue without a cancel to apply: the sweep has caught up.
LEMMA CaughtUp ==
    ASSUME DanmakuInv, ~Behind
    PROVE  clean = watermark
  BY Facts DEF DanmakuInv, CleanPart, Behind, LoopTypes

LEMMA ReadPlayedKeeps ==
    ASSUME DanmakuInv, ReadPlayed
    PROVE  DanmakuInv'
<1>1. /\ Drain("played") /\ ~Behind /\ idle' = 0 /\ Record(Head(control).ts)
      /\ locked' = (locked /\ Head(control).batch < last.stamp) /\ pc' = "event"
      /\ UNCHANGED <<watermark, killed, clean, buffer, span, waited>>
      /\ late' = late \cup ({Head(control).ts} \cap 0..(watermark - 1))
      /\ UNCHANGED <<released, last, told>>
  BY DEF ReadPlayed, loopVars, spanVars
<1>2. /\ ClientTypes' /\ UNCHANGED <<sent, inbox>>
      /\ Head(control) \in Control /\ Head(control).verb = "played"
  BY <1>1, DrainTypes
<1>3. PICK t : t = Head(control).ts
  OBVIOUS
<1>4. t \in Stamps \cup Acks /\ Record(t)
  BY <1>1, <1>2, <1>3, Entries
<1>5. ContextTypes'
  <2>1. ring \in Seq(Stamps \cup Acks) /\ Len(ring) <= RingSize
    BY Facts DEF ContextTypes
  <2>2. ring' \in Seq(Stamps \cup Acks) /\ Len(ring') <= RingSize
    BY <1>4, <2>1, Recorded
  <2>. QED  BY <1>1, <2>2, Numbers DEF ContextTypes
<1>6. ReleaseTypes'
  <2>1. t \in Acks
    BY <1>2, <1>3, Entries
  <2>2. late' \subseteq Acks
    BY <1>1, <1>3, <2>1, Facts DEF ReleaseTypes
  <2>. QED  BY <1>1, <2>2, Facts DEF ReleaseTypes
<1>7. BufferTypes' /\ ShapePart' /\ SpanCoversBuffer' /\ IdPart'
  BY <1>1, <1>2, BufferKept DEF spanVars
<1>8. LoopTypes'
  BY <1>1, Facts DEF LoopTypes
<1>9. CleanPart'
  BY <1>1, CaughtUp DEF DanmakuInv, CleanPart
<1>. QED  BY <1>2, <1>5, <1>6, <1>7, <1>8, <1>9, Whole

LEMMA ReadKillKeeps ==
    ASSUME DanmakuInv, ReadKill
    PROVE  DanmakuInv'
<1>1. /\ Drain("kill") /\ killed' = TRUE
      /\ UNCHANGED <<pc, watermark, clean, buffer, span, waited, idle, ring>>
      /\ UNCHANGED <<locked, released, last, told, late>>
  BY DEF ReadKill, spanVars, releaseVars
<1>2. ClientTypes' /\ UNCHANGED <<sent, inbox>>
  BY <1>1, DrainTypes
<1>3. LoopTypes' /\ CleanPart'
  BY <1>1, Facts DEF LoopTypes, CleanPart, DanmakuInv
<1>. QED  BY <1>1, <1>2, <1>3, StandsStill

LEMMA DrainedKeeps ==
    ASSUME DanmakuInv, Drained
    PROVE  DanmakuInv'
<1>1. /\ ~Behind /\ pc' = IF killed THEN "exited" ELSE "get"
      /\ UNCHANGED <<watermark, killed, clean, buffer, span, waited, idle, ring>>
      /\ UNCHANGED <<locked, released, last, told, late>> /\ UNCHANGED clientVars
  BY DEF Drained, spanVars, releaseVars, loopVars
<1>2. ClientTypes' /\ UNCHANGED <<sent, inbox>>
  BY <1>1, ClientKept DEF clientVars
<1>3. LoopTypes'
  BY <1>1, Facts DEF LoopTypes
<1>4. CleanPart'
  BY <1>1, CaughtUp DEF CleanPart, DanmakuInv
<1>. QED  BY <1>1, <1>2, <1>3, <1>4, StandsStill

-------------------------------------------------------------------------------
(* custom_update.                                                            *)

LEMMA UnlockKeeps ==
    ASSUME DanmakuInv, Unlock
    PROVE  DanmakuInv'
<1>1. /\ locked' = FALSE
      /\ UNCHANGED <<sent, inbox, pc, watermark, killed, clean, buffer, span, waited>>
      /\ UNCHANGED <<idle, ring, released, last, told, late>> /\ UNCHANGED clientVars
  BY DEF Unlock, spanVars, loopVars, clientVars
<1>2. BufferTypes' /\ ShapePart' /\ SpanCoversBuffer' /\ IdPart' /\ ClientTypes'
  BY <1>1, BufferKept, ClientKept DEF spanVars
<1>3. LoopTypes' /\ CleanPart'
  BY <1>1, Facts DEF LoopTypes, CleanPart, DanmakuInv
<1>4. ContextTypes' /\ ReleaseTypes'
  BY <1>1, Facts DEF ContextTypes, ReleaseTypes
<1>. QED  BY <1>2, <1>3, <1>4, Whole

\* A step of the loop to the drain, which keeps the sweep where it is.
LEMMA BackToDrain ==
    ASSUME DanmakuInv, UNCHANGED <<watermark, killed, clean>>,
           pc' \in {"drain", "update"}, pc # "drain",
           \A m \in DOMAIN buffer' : m \in DOMAIN buffer \/ m.ts >= watermark
    PROVE  LoopTypes' /\ CleanPart'
<1>1. LoopTypes /\ CleanPart
  BY Facts DEF DanmakuInv
<1>. QED  BY <1>1 DEF LoopTypes, CleanPart

LEMMA WaitKeeps ==
    ASSUME DanmakuInv, Wait
    PROVE  DanmakuInv'
<1>1. /\ pc' = "drain" /\ pc # "drain"
      /\ UNCHANGED <<sent, inbox, watermark, killed, clean, buffer, span, waited, idle, ring>>
      /\ UNCHANGED <<locked, released, last, told, late>> /\ UNCHANGED clientVars
  BY DEF Wait, Updates, spanVars, loopVars, releaseVars, clientVars
<1>2. LoopTypes' /\ CleanPart'
  BY <1>1, BackToDrain
<1>. QED  BY <1>1, <1>2, ClientKept, StandsStill

\* The newest context is a number, in the ring and at least as large as all that
\* are there; without a context it is the watermark.
LEMMA LatestContext ==
    ASSUME DanmakuInv
    PROVE  /\ Latest \in Nat
           /\ ring = <<>> => Latest = watermark
           /\ ring # <<>> => \E i \in DOMAIN ring : Latest = ring[i]
           /\ \A i \in DOMAIN ring : ring[i] \in Nat /\ ring[i] <= Latest
<1>1. ring \in Seq(Stamps \cup Acks) /\ watermark \in Nat
  BY Facts DEF ContextTypes, LoopTypes
<1>2. CASE ring = <<>>
  BY <1>1, <1>2 DEF Latest
<1>3. CASE ring # <<>>
  <2>1. Latest = Max(ToSet(ring))
    BY <1>3 DEF Latest
  <2>2. /\ ToSet(ring) \in SUBSET (0..Infinity) /\ ToSet(ring) # {} /\ Infinity \in Nat
        /\ \A t \in ToSet(ring) : \E i \in DOMAIN ring : t = ring[i]
        /\ \A i \in DOMAIN ring : ring[i] \in ToSet(ring) /\ ring[i] \in Nat
    <3>1. \A i \in DOMAIN ring : ring[i] \in 0..Infinity
      BY <1>1, Numbers
    <3>2. 1 \in DOMAIN ring
      BY <1>1, <1>3
    <3>. QED  BY <3>1, <3>2, Numbers DEF ToSet
  <2>3. Latest \in ToSet(ring) /\ \A t \in ToSet(ring) : Latest >= t
    BY <2>1, <2>2, MaxExists
  <2>4. Latest \in Nat
    BY <2>2, <2>3
  <2>. QED  BY <1>3, <2>2, <2>3, <2>4
<1>. QED  BY <1>2, <1>3

\* A release is made.
LEMMA ReleaseTypesKept ==
    ASSUME DanmakuInv, NEW batch \in SUBSET Message, Release(batch)
    PROVE  /\ ReleaseTypes' /\ ContextTypes' /\ ClientTypes'
           /\ UNCHANGED <<sent, inbox, watermark, killed, clean>> /\ pc' = "drain"
<1>1. /\ last' = [stamp |-> Latest, batch |-> batch] /\ told' = told \cup {Latest}
      /\ released' = 0 /\ locked' = TRUE /\ pc' = "drain"
      /\ UNCHANGED <<sent, inbox, watermark, killed, clean, idle, ring, late>>
      /\ UNCHANGED clientVars
  BY DEF Release, clientVars, loopVars
<1>2. PICK l \in Nat : l = Latest
  BY LatestContext
<1>3. ReleaseTypes'
  <2>1. told \in SUBSET Nat /\ late \subseteq Acks
    BY Facts DEF ReleaseTypes
  <2>2. 0 \in 0..Never
    BY Numbers
  <2>3. last'.stamp = l /\ last'.batch = batch
    BY <1>1, <1>2
  <2>4. told' \in SUBSET Nat /\ late' \subseteq Acks
    BY <1>1, <1>2, <2>1
  <2>5. locked' \in BOOLEAN /\ released' \in 0..Never
    BY <1>1, <2>2
  <2>. QED  BY <2>3, <2>4, <2>5 DEF ReleaseTypes
<1>4. ContextTypes'
  BY <1>1, Facts DEF ContextTypes
<1>. QED  BY <1>1, <1>3, <1>4, ClientKept

\* The batch is some of the buffer.
LEMMA BatchIsBuffered ==
    ASSUME DanmakuInv
    PROVE  /\ Batch \subseteq DOMAIN buffer
           /\ Batch \in SUBSET Message /\ DOMAIN buffer \ Batch \in SUBSET (DOMAIN buffer)
  BY Facts DEF Batch, First, BufferTypes

LEMMA ReleaseBatchKeeps ==
    ASSUME DanmakuInv, ReleaseBatch
    PROVE  DanmakuInv'
<1>1. pc # "drain" /\ Retain(DOMAIN buffer \ Batch) /\ Sync /\ Release(Batch)
  BY DEF ReleaseBatch, Updates
<1>2. /\ ReleaseTypes' /\ ContextTypes' /\ ClientTypes'
      /\ UNCHANGED <<sent, inbox, watermark, killed, clean>> /\ pc' = "drain"
  BY <1>1, BatchIsBuffered, ReleaseTypesKept
<1>3. /\ DOMAIN buffer' \subseteq Message /\ Cardinality(DOMAIN buffer') <= MaxBuffer
      /\ \A m \in DOMAIN buffer' : buffer'[m] \in 0..MaxWait
      /\ ShapePart' /\ DOMAIN buffer' \subseteq DOMAIN buffer
  BY <1>1, BatchIsBuffered, Retained
<1>4. BufferTypes' /\ SpanCoversBuffer'
  BY <1>1, <1>3, Synced DEF ShapePart
<1>5. IdPart'
  BY <1>2, <1>3, Numbered
<1>6. LoopTypes' /\ CleanPart'
  BY <1>1, <1>2, <1>3, BackToDrain
<1>. QED  BY <1>2, <1>3, <1>4, <1>5, <1>6, Whole

\* An empty buffer, with its span ended.
LEMMA Emptied ==
    ASSUME DanmakuInv, buffer' = <<>>, Ended, sent' = sent,
           inbox' = inbox \/ (inbox # <<>> /\ inbox' = Tail(inbox))
    PROVE  /\ BufferTypes' /\ ShapePart' /\ SpanCoversBuffer' /\ IdPart'
           /\ DOMAIN buffer' = {}
<1>1. DOMAIN buffer' = {} /\ span' = None /\ waited' = 0
  BY DEF Ended
<1>2. 0 \in 0..MaxWait /\ IsFiniteSet({}) /\ Cardinality({}) = 0 /\ 0 <= MaxBuffer
  BY Numbers, FS_EmptySet
<1>3. BufferTypes' /\ SpanCoversBuffer'
  BY <1>1, <1>2 DEF BufferTypes, SpanCoversBuffer
<1>4. ShapePart'
  <2>1. <<>> \in Seq({}) /\ Len(<<>>) = 0
    OBVIOUS
  <2>2. <<>> = [i \in DOMAIN <<>> |-> <<>>[i]]
    BY <2>1
  <2>. QED  BY <1>1, <1>2, <2>2 DEF ShapePart
<1>5. IdPart'
  BY <1>1, Numbered
<1>. QED  BY <1>1, <1>3, <1>4, <1>5

LEMMA FormatFailsKeeps ==
    ASSUME DanmakuInv, FormatFails
    PROVE  DanmakuInv'
<1>1. /\ pc # "drain" /\ pc' = "drain"
      /\ UNCHANGED <<sent, inbox, watermark, killed, clean, ring>>
      /\ UNCHANGED <<locked, released, last, told, late>> /\ UNCHANGED clientVars
      /\ IF pc = "update" THEN buffer' = <<>> /\ Ended /\ idle' = 0
         ELSE Retain(DOMAIN buffer \ Batch) /\ UNCHANGED <<span, waited, idle>>
  BY DEF FormatFails, Updates, clientVars, loopVars, releaseVars
<1>2. CASE pc = "update"
  <2>1. /\ BufferTypes' /\ ShapePart' /\ SpanCoversBuffer' /\ IdPart'
        /\ DOMAIN buffer' = {}
    BY <1>1, <1>2, Emptied
  <2>2. ContextTypes' /\ ReleaseTypes'
    BY <1>1, <1>2, Facts, Numbers DEF ContextTypes, ReleaseTypes
  <2>3. LoopTypes' /\ CleanPart'
    BY <1>1, <2>1, BackToDrain
  <2>. QED  BY <1>1, <2>1, <2>2, <2>3, ClientKept, Whole
<1>3. CASE pc # "update"
  <2>1. Retain(DOMAIN buffer \ Batch) /\ UNCHANGED <<span, waited, idle>>
    BY <1>1, <1>3
  <2>2. /\ DOMAIN buffer' \subseteq Message /\ Cardinality(DOMAIN buffer') <= MaxBuffer
        /\ \A m \in DOMAIN buffer' : buffer'[m] \in 0..MaxWait
        /\ ShapePart' /\ DOMAIN buffer' \subseteq DOMAIN buffer
    BY <2>1, BatchIsBuffered, Retained
  <2>3. BufferTypes' /\ SpanCoversBuffer'
    BY <2>1, <2>2, Facts DEF BufferTypes, SpanCoversBuffer, DanmakuInv
  <2>4. ContextTypes' /\ ReleaseTypes'
    BY <1>1, <2>1, Facts DEF ContextTypes, ReleaseTypes
  <2>5. LoopTypes' /\ CleanPart'
    BY <1>1, <2>2, BackToDrain
  <2>6. IdPart'
    BY <1>1, <2>2, Numbered
  <2>. QED  BY <1>1, <2>2, <2>3, <2>4, <2>5, <2>6, ClientKept, Whole
<1>. QED  BY <1>2, <1>3

LEMMA ReleaseIdleKeeps ==
    ASSUME DanmakuInv, ReleaseIdle
    PROVE  DanmakuInv'
<1>1. pc # "drain" /\ UNCHANGED spanVars /\ Release({}) /\ {} \in SUBSET Message
  BY DEF ReleaseIdle, Updates
<1>2. /\ ReleaseTypes' /\ ContextTypes' /\ ClientTypes'
      /\ UNCHANGED <<sent, inbox, watermark, killed, clean>> /\ pc' = "drain"
  BY <1>1, ReleaseTypesKept
<1>3. BufferTypes' /\ ShapePart' /\ SpanCoversBuffer' /\ IdPart'
  BY <1>1, <1>2, BufferKept
<1>4. LoopTypes' /\ CleanPart'
  BY <1>1, <1>2, BackToDrain DEF spanVars
<1>. QED  BY <1>2, <1>3, <1>4, Whole

-------------------------------------------------------------------------------
(* The input queue.                                                          *)

LEMMA TimeoutKeeps ==
    ASSUME DanmakuInv, Timeout
    PROVE  DanmakuInv'
<1>1. /\ pc' = "update" /\ pc # "drain"
      /\ UNCHANGED <<sent, inbox, watermark, killed, clean, buffer, span, waited, idle, ring>>
      /\ UNCHANGED <<locked, released, last, told, late>> /\ UNCHANGED clientVars
  BY DEF Timeout, spanVars, loopVars, releaseVars, clientVars
<1>2. LoopTypes' /\ CleanPart'
  BY <1>1, BackToDrain
<1>. QED  BY <1>1, <1>2, ClientKept, StandsStill

\* A message is taken from the inbox: it is numbered after all that are
\* buffered and before all that are left.
LEMMA Taken ==
    ASSUME DanmakuInv, Take
    PROVE  /\ pc = "get" /\ inbox # <<>> /\ inbox' = Tail(inbox) /\ sent' = sent
           /\ UNCHANGED <<watermark, killed, clean, locked, released, last, told, late>>
           /\ ClientTypes' /\ ReleaseTypes' /\ clean = watermark
           /\ Got \in Message /\ Got.id <= sent
           /\ \A m \in DOMAIN buffer : m.id < Got.id
           /\ \A i \in DOMAIN inbox' : Got.id < inbox'[i].id
<1>1. /\ pc = "get" /\ inbox # <<>> /\ inbox' = Tail(inbox)
      /\ UNCHANGED <<sent, control, controls>>
      /\ UNCHANGED <<watermark, killed, clean, locked, released, last, told, late>>
  BY DEF Take, loopVars, releaseVars
<1>2. ClientTypes /\ ReleaseTypes /\ IdPart /\ CleanPart /\ inbox \in Seq(Message)
  BY Facts DEF DanmakuInv, ClientTypes
<1>3. /\ DOMAIN inbox = 1..Len(inbox) /\ Len(inbox) \in Nat \ {0} /\ Got = inbox[1]
      /\ inbox[1] \in Message
      /\ inbox' \in Seq(Message) /\ DOMAIN inbox' = 1..(Len(inbox) - 1)
      /\ \A i \in 1..(Len(inbox) - 1) : inbox'[i] = inbox[i + 1]
  BY <1>1, <1>2, TailAt DEF Got
<1>4. ClientTypes' /\ ReleaseTypes'
  BY <1>1, <1>2, <1>3 DEF ClientTypes, ReleaseTypes
<1>5. 1 \in DOMAIN inbox /\ \A i \in DOMAIN inbox' : i + 1 \in DOMAIN inbox /\ 1 < i + 1
  BY <1>3
<1>6. \A i \in DOMAIN inbox' : Got.id < inbox'[i].id
  BY <1>2, <1>3, <1>5 DEF IdPart
<1>7. Got.id <= sent /\ \A m \in DOMAIN buffer : m.id < Got.id
  BY <1>2, <1>3, <1>5 DEF IdPart
<1>8. clean = watermark
  BY <1>1, <1>2 DEF CleanPart
<1>. QED  BY <1>1, <1>3, <1>4, <1>6, <1>7, <1>8

LEMMA DiscardKeeps ==
    ASSUME DanmakuInv, Discard
    PROVE  DanmakuInv'
<1>1. Take /\ pc' = "drain" /\ UNCHANGED <<buffer, span, waited, idle, ring>>
  BY DEF Discard, spanVars
<1>2. /\ pc = "get" /\ inbox # <<>> /\ inbox' = Tail(inbox) /\ sent' = sent
      /\ UNCHANGED <<watermark, killed, clean, locked, released, last, told, late>>
      /\ ClientTypes' /\ ReleaseTypes'
  BY <1>1, Taken
<1>3. BufferTypes' /\ ShapePart' /\ SpanCoversBuffer' /\ IdPart'
  BY <1>1, <1>2, BufferKept DEF spanVars
<1>4. ContextTypes'
  BY <1>1, Facts DEF ContextTypes
<1>5. LoopTypes' /\ CleanPart'
  BY <1>1, <1>2, BackToDrain
<1>. QED  BY <1>2, <1>3, <1>4, <1>5, Whole

\* A message is handled: its context is recorded.
LEMMA Handled ==
    ASSUME DanmakuInv, NEW kinds, Handle(kinds)
    PROVE  Take /\ Got.ts >= watermark /\ ContextTypes' /\ Record(Got.ts)
           /\ Got.ts \in Stamps \cup Acks
<1>1. Take /\ Got.ts >= watermark /\ idle' = 0 /\ Record(Got.ts)
  BY DEF Handle
<1>2. Got.ts \in Stamps \cup Acks
  BY <1>1, Taken, Numbers
<1>3. ring \in Seq(Stamps \cup Acks) /\ Len(ring) <= RingSize
  BY Facts DEF ContextTypes
<1>4. PICK t \in Stamps \cup Acks : t = Got.ts
  BY <1>2
<1>5. ring' \in Seq(Stamps \cup Acks) /\ Len(ring') <= RingSize
  <2>1. Record(t)
    BY <1>1, <1>4
  <2>. QED  BY <1>3, <2>1, Recorded
<1>6. 0 \in 0..IdleTalk
  BY Numbers
<1>. QED  BY <1>1, <1>2, <1>5, <1>6 DEF ContextTypes

LEMMA IgnoreKeeps ==
    ASSUME DanmakuInv, Ignore
    PROVE  DanmakuInv'
<1>1. Take /\ ContextTypes' /\ pc' = "drain" /\ UNCHANGED <<buffer, span, waited>>
  BY Handled DEF Ignore, spanVars
<1>2. /\ pc = "get" /\ inbox # <<>> /\ inbox' = Tail(inbox) /\ sent' = sent
      /\ UNCHANGED <<watermark, killed, clean, locked, released, last, told, late>>
      /\ ClientTypes' /\ ReleaseTypes'
  BY <1>1, Taken
<1>3. BufferTypes' /\ ShapePart' /\ SpanCoversBuffer' /\ IdPart'
  BY <1>1, <1>2, BufferKept DEF spanVars
<1>5. LoopTypes' /\ CleanPart'
  BY <1>1, <1>2, BackToDrain
<1>. QED  BY <1>1, <1>2, <1>3, <1>5, Whole

LEMMA RefuseKeeps ==
    ASSUME DanmakuInv, Refuse
    PROVE  DanmakuInv'
<1>1. Take /\ ContextTypes' /\ pc' = "drain" /\ buffer' = <<>> /\ Ended
  BY Handled DEF Refuse
<1>2. /\ pc = "get" /\ inbox # <<>> /\ inbox' = Tail(inbox) /\ sent' = sent
      /\ UNCHANGED <<watermark, killed, clean, locked, released, last, told, late>>
      /\ ClientTypes' /\ ReleaseTypes'
  BY <1>1, Taken
<1>3. BufferTypes' /\ ShapePart' /\ SpanCoversBuffer' /\ IdPart' /\ DOMAIN buffer' = {}
  BY <1>1, <1>2, Emptied
<1>5. LoopTypes' /\ CleanPart'
  BY <1>1, <1>2, <1>3, BackToDrain
<1>. QED  BY <1>1, <1>2, <1>3, <1>5, Whole

LEMMA CollectKeeps ==
    ASSUME DanmakuInv, Collect
    PROVE  DanmakuInv'
<1>1. PICK g : g = Got
  OBVIOUS
<1>. DEFINE M == DOMAIN buffer \cup {g}
            F == First(M, MaxBuffer)
<1>2. /\ Take /\ ContextTypes' /\ pc' = "update" /\ g.ts >= watermark /\ Sync
      /\ buffer' = [m \in F |-> IF m = g THEN 0 ELSE buffer[m]]
  BY <1>1, Handled DEF Collect
<1>3. /\ pc = "get" /\ inbox # <<>> /\ inbox' = Tail(inbox) /\ sent' = sent
      /\ UNCHANGED <<watermark, killed, clean, locked, released, last, told, late>>
      /\ ClientTypes' /\ ReleaseTypes'
      /\ g \in Message /\ g.id <= sent
      /\ \A m \in DOMAIN buffer : m.id < g.id
      /\ \A i \in DOMAIN inbox' : g.id < inbox'[i].id
  BY <1>1, <1>2, Taken
<1>4. /\ IdPart /\ ShapePart /\ IsFiniteSet(DOMAIN buffer)
      /\ \A m \in DOMAIN buffer : m \in Message /\ m.id \in Nat /\ m.ts \in Nat
                                 /\ buffer[m] \in 0..MaxWait
      /\ g.id \in Nat /\ g.ts \in Nat
  BY <1>3, Facts, Numbers DEF DanmakuInv, ShapePart, BufferTypes
<1>5. Distinct(M)
  <2>1. Distinct(DOMAIN buffer)
    BY <1>4 DEF IdPart
  <2>. QED  BY <1>3, <1>4, <2>1 DEF Distinct
<1>6. IsFiniteSet(M) /\ MaxBuffer \in Nat /\ \A m \in M : m.id \in Nat /\ m.ts \in Nat
  BY <1>4, FS_AddElement, Numbers
<1>7. F \subseteq M /\ IsFiniteSet(F) /\ Cardinality(F) <= MaxBuffer
  <2>. HIDE DEF M
  <2>. QED  BY <1>5, <1>6, FirstFew
<1>. HIDE DEF F
<1>8. /\ DOMAIN buffer' = F
      /\ \A m \in F : buffer'[m] = IF m = g THEN 0 ELSE buffer[m]
      /\ ShapePart'
  BY <1>2, <1>7 DEF ShapePart
<1>9. DOMAIN buffer' \subseteq Message /\ \A m \in DOMAIN buffer' : buffer'[m] \in 0..MaxWait
  BY <1>3, <1>4, <1>7, <1>8, Numbers
<1>10. BufferTypes' /\ SpanCoversBuffer'
  BY <1>2, <1>7, <1>8, <1>9, Synced DEF ShapePart
<1>11. IdPart'
  <2>1. inbox' = Tail(inbox) /\ DOMAIN buffer \subseteq DOMAIN buffer
    BY <1>3
  <2>2. /\ \A m \in DOMAIN buffer : m.id <= sent
        /\ \A m \in DOMAIN buffer : \A i \in DOMAIN inbox' : m.id < inbox'[i].id
        /\ \A i \in DOMAIN inbox' :
             /\ inbox'[i].id <= sent
             /\ \A j \in DOMAIN inbox' : i < j => inbox'[i].id < inbox'[j].id
    <3>1. inbox \in Seq(Message)
      BY Facts DEF ClientTypes
    <3>2. /\ DOMAIN inbox = 1..Len(inbox) /\ Len(inbox) \in Nat
          /\ DOMAIN inbox' = 1..(Len(inbox) - 1)
          /\ \A i \in 1..(Len(inbox) - 1) : inbox'[i] = inbox[i + 1]
      BY <1>3, <3>1, TailAt
    <3>3. \A i \in DOMAIN inbox' : i + 1 \in DOMAIN inbox /\ inbox'[i] = inbox[i + 1]
      BY <3>2
    <3>4. \A i, j \in DOMAIN inbox' : i < j => i + 1 < j + 1
      BY <3>2
    <3>. QED  BY <3>3, <3>4, <1>4 DEF IdPart
  <2>3. Distinct(DOMAIN buffer')
    BY <1>5, <1>7, <1>8 DEF Distinct
  <2>4. \A m \in DOMAIN buffer' :
          m.id <= sent' /\ \A i \in DOMAIN inbox' : m.id < inbox'[i].id
    BY <1>3, <1>7, <1>8, <2>2
  <2>. QED  BY <1>3, <2>2, <2>3, <2>4 DEF IdPart
<1>12. LoopTypes' /\ CleanPart'
  <2>1. \A m \in DOMAIN buffer' : m \in DOMAIN buffer \/ m.ts >= watermark
    BY <1>2, <1>7, <1>8
  <2>. QED  BY <1>2, <1>3, <2>1, BackToDrain
<1>. QED  BY <1>2, <1>3, <1>8, <1>10, <1>11, <1>12, Whole

-------------------------------------------------------------------------------
(* The theorems.                                                             *)

LEMMA DanmakuInit == Init => DanmakuInv
<1>. SUFFICES ASSUME Init PROVE DanmakuInv
  OBVIOUS
<1>1. /\ sent = 0 /\ inbox = <<>> /\ control = <<>> /\ controls = 0
      /\ pc = "drain" /\ watermark = 0 /\ killed = FALSE /\ clean = 0
      /\ buffer = <<>> /\ span = None /\ waited = 0
      /\ idle = None /\ ring = <<>>
      /\ locked = FALSE /\ released = Never /\ last = [stamp |-> 0, batch |-> {}] /\ told = {}
      /\ late = {}
  BY DEF Init
<1>2. DOMAIN buffer = {} /\ DOMAIN inbox = {}
  BY <1>1
<1>3. ClientTypes /\ LoopTypes
  <2>1. /\ <<>> \in Seq(Message) /\ <<>> \in Seq(Control)
        /\ 0 \in 0..MaxMessages /\ 0 \in 0..(MaxControls + 1)
    BY Numbers
  <2>2. ClientTypes
    BY <1>1, <2>1 DEF ClientTypes
  <2>3. LoopTypes
    BY <1>1 DEF LoopTypes
  <2>. QED  BY <2>2, <2>3
<1>4. BufferTypes
  <2>1. Cardinality({}) = 0 /\ 0 <= MaxBuffer /\ 0 \in 0..MaxWait
    BY FS_EmptySet, Numbers
  <2>. QED  BY <1>1, <1>2, <2>1 DEF BufferTypes
<1>5. ContextTypes
  <2>1. <<>> \in Seq(Stamps \cup Acks) /\ Len(<<>>) = 0 /\ 0 <= RingSize
    BY Numbers
  <2>. QED  BY <1>1, <2>1 DEF ContextTypes
<1>6. ReleaseTypes
  <2>1. Never \in 0..Never
    BY Numbers
  <2>2. last.stamp = 0 /\ last.batch = {}
    BY <1>1
  <2>3. locked \in BOOLEAN /\ released \in 0..Never /\ told \in SUBSET Nat /\ late \subseteq Acks
    BY <1>1, <2>1
  <2>4. last.stamp \in Nat /\ last.batch \subseteq Message
    BY <2>2
  <2>. QED  BY <2>3, <2>4 DEF ReleaseTypes
<1>7. ShapePart
  <2>1. <<>> \in Seq({}) /\ Len(<<>>) = 0
    OBVIOUS
  <2>2. <<>> = [i \in DOMAIN <<>> |-> <<>>[i]]
    BY <2>1
  <2>. QED  BY <1>1, <1>2, <2>2, FS_EmptySet DEF ShapePart
<1>8. IdPart /\ SpanCoversBuffer /\ CleanPart
  BY <1>1, <1>2 DEF IdPart, SpanCoversBuffer, CleanPart, Distinct
<1>. QED  BY <1>3, <1>4, <1>5, <1>6, <1>7, <1>8, TypesNow DEF DanmakuInv, Types

LEMMA StutterKeeps ==
    ASSUME DanmakuInv, UNCHANGED vars
    PROVE  DanmakuInv'
<1>1. UNCHANGED clientVars /\ UNCHANGED nodeVars /\ UNCHANGED <<sent, inbox, control, controls>>
  BY DEF vars, nodeVars, clientVars
<1>2. control \in Seq(Control) /\ controls \in 0..(MaxControls + 1)
  BY Facts DEF ClientTypes
<1>. QED  BY <1>1, <1>2, ControlKeeps

\* Types, numbers and the sweep are kept by every step.
THEOREM DanmakuInvariant == Spec => []DanmakuInv
<1>1. ASSUME DanmakuInv, [Next]_vars PROVE DanmakuInv'
  <2>1. CASE Client
    BY <1>1, <2>1, ClientKeeps
  <2>2. CASE Tick
    BY <1>1, <2>2, TickKeeps
  <2>3. CASE Node
    <3>1. CASE ReadCancel \/ Apply \/ ReadPlayed \/ ReadKill \/ Drained
      BY <1>1, <3>1, ReadCancelKeeps, ApplyKeeps, ReadPlayedKeeps, ReadKillKeeps, DrainedKeeps
    <3>2. CASE Unlock \/ Wait \/ ReleaseBatch \/ FormatFails \/ ReleaseIdle
      BY <1>1, <3>2, UnlockKeeps, WaitKeeps, ReleaseBatchKeeps, FormatFailsKeeps,
         ReleaseIdleKeeps
    <3>3. CASE Timeout \/ Discard \/ Ignore \/ Refuse \/ Collect
      BY <1>1, <3>3, TimeoutKeeps, DiscardKeeps, IgnoreKeeps, RefuseKeeps, CollectKeeps
    <3>. QED  BY <2>3, <3>1, <3>2, <3>3 DEF Node
  <2>4. CASE UNCHANGED vars
    BY <1>1, <2>4, StutterKeeps
  <2>. QED  BY <1>1, <2>1, <2>2, <2>3, <2>4 DEF Next
<1>. QED  BY <1>1, DanmakuInit, PTL DEF Spec

\* The buffer and the ring keep their limits, and the open span is never newer
\* than the oldest message (_sync_span_to_buffer), so that a cancel which voids
\* a message voids the span.
THEOREM SpanFollowsBuffer == Spec => []BufferInv
<1>1. DanmakuInv => BufferInv
  BY DEF DanmakuInv, BufferInv
<1>. QED  BY <1>1, DanmakuInvariant, PTL

-------------------------------------------------------------------------------
(* What is released is fresh.                                                *)

\* Only a release takes the lock, after the sweep has caught up.
LEMMA OnlyReleasesLock ==
    ASSUME DanmakuInv, [Next]_vars, ~locked, locked'
    PROVE  /\ clean = watermark
           /\ \E batch \in SUBSET (DOMAIN buffer) : Release(batch)
<1>1. CASE Client
  <2>1. UNCHANGED nodeVars
    BY <1>1 DEF Client, SendMessage, Cancel, PlaybackComplete, Put, Teardown
  <2>. QED  BY <2>1 DEF nodeVars, releaseVars
<1>2. CASE Tick
  BY <1>2 DEF Tick
<1>3. CASE Node
  <2>1. ASSUME NEW w, Applied(w) PROVE FALSE
    BY <2>1 DEF Applied
  <2>2. CASE ReadCancel
    BY <2>1, <2>2 DEF ReadCancel, releaseVars
  <2>3. CASE Apply
    BY <2>1, <2>3 DEF Apply
  <2>4. CASE ReadPlayed
    BY <2>4 DEF ReadPlayed
  <2>5. CASE ReadKill \/ Drained \/ Wait \/ FormatFails \/ Timeout
    BY <2>5 DEF ReadKill, Drained, Wait, FormatFails, Timeout, releaseVars
  <2>6. CASE Unlock
    BY <2>6 DEF Unlock
  <2>7. CASE Discard \/ Ignore \/ Refuse \/ Collect
    BY <2>7 DEF Discard, Ignore, Refuse, Collect, Handle, Take, releaseVars
  <2>8. CASE ReleaseBatch
    <3>1. pc # "drain" /\ Release(Batch)
      BY <2>8 DEF ReleaseBatch, Updates
    <3>2. clean = watermark
      BY <3>1 DEF DanmakuInv, CleanPart
    <3>. QED  BY <3>1, <3>2, BatchIsBuffered
  <2>9. CASE ReleaseIdle
    <3>1. pc # "drain" /\ Release({})
      BY <2>9 DEF ReleaseIdle, Updates
    <3>2. clean = watermark
      BY <3>1 DEF DanmakuInv, CleanPart
    <3>. QED  BY <3>1, <3>2
  <2>. QED  BY <1>3, <2>2, <2>3, <2>4, <2>5, <2>6, <2>7, <2>8, <2>9 DEF Node
<1>4. CASE UNCHANGED vars
  BY <1>4 DEF vars, releaseVars
<1>. QED  BY <1>1, <1>2, <1>3, <1>4 DEF Next

LEMMA BatchIsFresh ==
    ASSUME DanmakuInv, [Next]_vars, ~locked, locked'
    PROVE  \A m \in last'.batch : m.ts >= watermark
<1>1. PICK batch \in SUBSET (DOMAIN buffer) : Release(batch)
  BY OnlyReleasesLock
<1>2. last'.batch = batch
  BY <1>1 DEF Release
<1>3. clean = watermark /\ \A m \in DOMAIN buffer : m.ts >= clean
  BY OnlyReleasesLock DEF DanmakuInv, CleanPart
<1>. QED  BY <1>2, <1>3

\* A context in the ring that is older than the sweep is an acknowledgement
\* that was read behind the cancel.
RingPart == \A i \in DOMAIN ring : ring[i] >= clean \/ ring[i] \in late

LEMMA RecordedFresh ==
    ASSUME ContextTypes, RingPart, NEW t \in Stamps \cup Acks, Record(t),
           t >= clean \/ t \in late', clean' = clean, late \subseteq late'
    PROVE  RingPart'
<1>1. \A i \in DOMAIN ring' : ring'[i] = t \/ \E j \in DOMAIN ring : ring'[i] = ring[j]
  BY Recorded DEF ContextTypes
<1>. QED  BY <1>1 DEF RingPart

LEMMA RingKept ==
    ASSUME DanmakuInv, RingPart, [Next]_vars
    PROVE  RingPart'
<1>1. ASSUME UNCHANGED <<clean, ring, late>> PROVE RingPart'
  BY <1>1 DEF RingPart
<1>2. ASSUME NEW w \in Nat, Applied(w), UNCHANGED <<sent, inbox>> PROVE RingPart'
  BY <1>2, Swept DEF RingPart
<1>3. ASSUME NEW kinds, Handle(kinds) PROVE RingPart'
  <2>1. Take /\ Got.ts >= watermark /\ Record(Got.ts) /\ Got.ts \in Stamps \cup Acks
    BY <1>3, Handled
  <2>2. clean' = clean /\ clean = watermark /\ late' = late
    BY <2>1, Taken
  <2>3. PICK t \in Stamps \cup Acks : t = Got.ts
    BY <2>1
  <2>4. Record(t) /\ t >= clean
    BY <2>1, <2>2, <2>3
  <2>. QED  BY <2>2, <2>4, Facts, RecordedFresh
<1>4. CASE Client
  <2>1. UNCHANGED nodeVars
    BY <1>4 DEF Client, SendMessage, Cancel, PlaybackComplete, Put, Teardown
  <2>. QED  BY <1>1, <2>1 DEF nodeVars, releaseVars
<1>5. CASE Tick
  BY <1>1, <1>5 DEF Tick
<1>6. CASE Node
  <2>1. CASE ReadCancel
    <3>1. PICK w : w = Larger(watermark, Head(control).ts)
      OBVIOUS
    <3>2. CASE span # None /\ span < w
      <4>1. Applied(w) /\ UNCHANGED <<sent, inbox>> /\ watermark' = w
        BY <2>1, <3>1, <3>2 DEF ReadCancel, Drain
      <4>2. w \in Nat
        <5>1. DanmakuInv'
          BY <2>1, ReadCancelKeeps
        <5>2. LoopTypes'
          BY <5>1, Facts, TypesNext DEF DanmakuInv, Types
        <5>. QED  BY <4>1, <5>2 DEF LoopTypes
      <4>. QED  BY <4>1, <4>2, <1>2
    <3>3. CASE ~(span # None /\ span < w)
      BY <2>1, <3>1, <3>3, <1>1 DEF ReadCancel, releaseVars
    <3>. QED  BY <3>2, <3>3
  <2>2. CASE Apply
    <3>1. Applied(watermark) /\ UNCHANGED <<sent, inbox>> /\ watermark \in Nat
      BY <2>2, Facts DEF Apply, clientVars, LoopTypes
    <3>. QED  BY <3>1, <1>2
  <2>3. CASE ReadPlayed
    <3>1. /\ Drain("played") /\ ~Behind /\ Record(Head(control).ts) /\ clean' = clean
          /\ late' = late \cup ({Head(control).ts} \cap 0..(watermark - 1))
      BY <2>3 DEF ReadPlayed
    <3>2. Head(control) \in Control /\ Head(control).verb = "played" /\ control # <<>>
      BY <3>1, DrainTypes DEF Drain
    <3>3. PICK t \in Stamps \cup Acks : t = Head(control).ts
      BY <3>2, Entries
    <3>4. clean = watermark /\ Record(t) /\ watermark \in Nat /\ t \in Nat
      BY <3>1, <3>3, CaughtUp, Facts, Numbers DEF LoopTypes
    <3>5. t >= clean \/ t \in late'
      BY <3>1, <3>3, <3>4
    <3>6. late \subseteq late'
      BY <3>1
    <3>. QED  BY <3>1, <3>4, <3>5, <3>6, Facts, RecordedFresh
  <2>4. CASE ReadKill \/ Drained \/ Wait \/ FormatFails \/ Timeout
    BY <1>1, <2>4 DEF ReadKill, Drained, Wait, FormatFails, Timeout, releaseVars
  <2>5. CASE Unlock \/ ReleaseBatch \/ ReleaseIdle
    BY <1>1, <2>5 DEF Unlock, ReleaseBatch, ReleaseIdle, Release
  <2>6. CASE Discard
    BY <1>1, <2>6 DEF Discard, Take, releaseVars
  <2>7. CASE Ignore \/ Refuse \/ Collect
    BY <1>3, <2>7 DEF Ignore, Refuse, Collect
  <2>. QED  BY <1>6, <2>1, <2>2, <2>3, <2>4, <2>5, <2>6, <2>7 DEF Node
<1>7. CASE UNCHANGED vars
  BY <1>1, <1>7 DEF vars, releaseVars
<1>. QED  BY <1>4, <1>5, <1>6, <1>7 DEF Next

LEMMA ReleaseIsFresh ==
    ASSUME DanmakuInv, RingPart, [Next]_vars, ~locked, locked'
    PROVE  /\ \A m \in last'.batch : m.ts >= watermark
           /\ last'.stamp < watermark => last'.stamp \in late /\ ToSet(ring) \subseteq late
<1>1. clean = watermark /\ \E batch \in SUBSET (DOMAIN buffer) : Release(batch)
  BY OnlyReleasesLock
<1>2. last'.stamp = Latest /\ watermark \in Nat
  BY <1>1, Facts DEF Release, LoopTypes
<1>3. ASSUME Latest < watermark PROVE Latest \in late /\ ToSet(ring) \subseteq late
  <2>1. ring # <<>>
    BY <1>2, <1>3, LatestContext
  <2>2. \A i \in DOMAIN ring : ring[i] \in late
    BY <1>1, <1>2, <1>3, LatestContext DEF RingPart
  <2>. QED  BY <2>1, <2>2, LatestContext DEF ToSet
<1>. QED  BY <1>2, <1>3, BatchIsFresh

\* A release carries nothing that a cancel read before it voids, and its stamp is
\* void only if the ring has no current context but late acknowledgements: cancels
\* are applied before every release, which takes the newest context of the swept
\* ring, or the cancel itself (_apply_cancel_watermark, _latest_ctx).
THEOREM FreshReleases == Spec => ReleasesAreFresh
<1>1. Init => RingPart
  BY DEF Init, RingPart
<1>2. DanmakuInv /\ RingPart /\ [Next]_vars => RingPart'
  BY RingKept
<1>3. DanmakuInv /\ RingPart /\ [Next]_vars =>
        [~locked /\ locked' =>
           /\ \A m \in last'.batch : m.ts >= watermark
           /\ last'.stamp < watermark => last'.stamp \in late /\ ToSet(ring) \subseteq late]_vars
  BY ReleaseIsFresh
<1>. QED  BY <1>1, <1>2, <1>3, DanmakuInvariant, PTL DEF Spec, ReleasesAreFresh

================================================================================
