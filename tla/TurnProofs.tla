------------------------------ MODULE TurnProofs ------------------------------
(***************************************************************************)
(* Proofs about the language-model node, for every value of LLMTurn's      *)
(* constants: its types, that nothing sent is forgotten, that the marker   *)
(* ends its turn, and that the history keeps the promise of Transcript.    *)
(*                                                                         *)
(* What a turn's messages tell is a fact about a recursive function on the *)
(* sequence of its segments.  It is proved by induction with sets in the   *)
(* place of predicates (SetInduction) and functions in the place of        *)
(* operators (Recursion), so that no theorem takes an operator.            *)
(***************************************************************************)
EXTENDS LLMTurn, SequenceTheorems, WellFoundedInduction, TLAPS

-------------------------------------------------------------------------------
(* Induction and recursion on the naturals, with sets for predicates and     *)
(* functions for operators.                                                  *)

Less == {p \in Nat \X Nat : p[1] < p[2]}

\* Every set of naturals that is not empty has a least element.
LEMMA LeastNumber ==
    ASSUME NEW T \in SUBSET Nat, T # {}
    PROVE  \E m \in T : \A k \in T : m <= k
<1>1. IsWellFoundedOn(Less, Nat)
  <2>1. IsWellFoundedOn(OpToRel(<, Nat), Nat)
    BY NatLessThanWellFounded
  <2>2. OpToRel(<, Nat) = Less
    BY DEF OpToRel, Less
  <2>. QED  BY <2>1, <2>2
<1>2. \E x \in T : \A y \in T : <<y, x>> \notin Less
  BY <1>1, WFMin
<1>3. PICK m \in T : \A k \in T : <<k, m>> \notin Less
  BY <1>2
<1>4. ASSUME NEW k \in T PROVE m <= k
  <2>1. m \in Nat /\ k \in Nat
    OBVIOUS
  <2>2. ~(k < m)
    BY <1>3, <2>1 DEF Less
  <2>. QED  BY <2>1, <2>2
<1>. QED  BY <1>4

\* A set that has 0, and with a number its successor, has every number.
LEMMA SetInduction ==
    ASSUME NEW T, 0 \in T, \A n \in Nat : n \in T => n + 1 \in T
    PROVE  Nat \subseteq T
<1>. SUFFICES ASSUME Nat \ T # {} PROVE FALSE
  OBVIOUS
<1>1. PICK m \in Nat \ T : \A k \in Nat \ T : m <= k
  BY LeastNumber
<1>2. m - 1 \in Nat /\ m - 1 < m /\ m - 1 + 1 = m
  OBVIOUS
<1>3. m - 1 \in T
  BY <1>1, <1>2
<1>. QED  BY <1>2, <1>3

\* f takes the step again and again.
Repeats(f, L, base, step) ==
    f[0] = base /\ \A n \in 1..L : f[n] = step[<<f[n - 1], n>>]

\* A step that stays in a set can be taken any number of times from a member.
LEMMA Recursion ==
    ASSUME NEW L \in Nat, NEW S, NEW base \in S, NEW step \in [S \X (1..L) -> S]
    PROVE  \E f \in [0..L -> S] : Repeats(f, L, base, step)
<1>. DEFINE Upto(k, f) == f[0] = base /\ \A n \in 1..k : f[n] = step[<<f[n - 1], n>>]
            T == {k \in Nat : k <= L => \E f \in [0..k -> S] : Upto(k, f)}
<1>1. 0 \in T
  <2>1. [n \in 0..0 |-> base] \in [0..0 -> S] /\ Upto(0, [n \in 0..0 |-> base])
    OBVIOUS
  <2>. QED  BY <2>1
<1>2. ASSUME NEW k \in Nat, k \in T PROVE k + 1 \in T
  <2>. SUFFICES ASSUME k + 1 <= L PROVE \E f \in [0..k + 1 -> S] : Upto(k + 1, f)
    OBVIOUS
  <2>1. PICK f \in [0..k -> S] : Upto(k, f)
    BY <1>2
  <2>2. f[k] \in S /\ k + 1 \in 1..L
    OBVIOUS
  <2>. DEFINE g == [n \in 0..k + 1 |-> IF n = k + 1 THEN step[<<f[k], k + 1>>] ELSE f[n]]
  <2>3. g \in [0..k + 1 -> S]
    BY <2>2
  <2>4. g[0] = base
    BY <2>1
  <2>5. ASSUME NEW n \in 1..k + 1 PROVE g[n] = step[<<g[n - 1], n>>]
    <3>1. CASE n = k + 1
      <4>1. n - 1 = k /\ k # k + 1 /\ k \in 0..k + 1
        BY <3>1
      <4>2. g[n - 1] = f[k] /\ g[n] = step[<<f[k], k + 1>>]
        BY <3>1, <4>1
      <4>. QED  BY <3>1, <4>2
    <3>2. CASE n # k + 1
      BY <2>1, <3>2
    <3>. QED  BY <3>1, <3>2
  <2>. QED  BY <2>3, <2>4, <2>5
<1>. HIDE DEF T
<1>3. L \in T
  BY <1>1, <1>2, SetInduction
<1>. QED  BY <1>3 DEF T, Repeats

-------------------------------------------------------------------------------
(* What messages tell, and segments say.                                     *)

Has(items, v) == \E k \in DOMAIN items : items[k] = v

Tells(ms, v) == \E i \in DOMAIN ms : Has(ms[i].items, v)

Said(segs, v) == \E i \in DOMAIN segs : segs[i].kind = "item" /\ segs[i].item = v

\* The messages of a turn that is going on.
Plain(t) == {m \in Message : m.turn = t /\ ~m.marked}

\* What a longer sequence has at each place.
LEMMA AppendAt ==
    ASSUME NEW S, NEW s \in Seq(S), NEW x
    PROVE  /\ DOMAIN s = 1..Len(s) /\ Len(s) \in Nat
           /\ DOMAIN Append(s, x) = 1..(Len(s) + 1)
           /\ Append(s, x)[Len(s) + 1] = x
           /\ \A i \in 1..Len(s) : Append(s, x)[i] = s[i]
           /\ x \in S => Append(s, x) \in Seq(S)
  OBVIOUS

\* An item more in a message.
LEMMA HasAppend ==
    ASSUME NEW S, NEW s \in Seq(S), NEW x, NEW v
    PROVE  Has(Append(s, x), v) <=> Has(s, v) \/ x = v
<1>. DEFINE a == Append(s, x)
<1>1. /\ DOMAIN s = 1..Len(s) /\ Len(s) \in Nat
      /\ DOMAIN a = 1..(Len(s) + 1) /\ a[Len(s) + 1] = x
      /\ \A i \in 1..Len(s) : a[i] = s[i]
  BY AppendAt
<1>2. \A i \in DOMAIN a : i \in DOMAIN s \/ i = Len(s) + 1
  BY <1>1
<1>3. Len(s) + 1 \in DOMAIN a /\ \A i \in DOMAIN s : i \in DOMAIN a
  BY <1>1
<1>. HIDE DEF a
<1>. QED  BY <1>1, <1>2, <1>3 DEF Has

\* A message more in a history.
LEMMA TellsAppend ==
    ASSUME NEW S, NEW ms \in Seq(S), NEW m, NEW v
    PROVE  Tells(Append(ms, m), v) <=> Tells(ms, v) \/ Has(m.items, v)
<1>. DEFINE a == Append(ms, m)
<1>1. /\ DOMAIN ms = 1..Len(ms) /\ Len(ms) \in Nat
      /\ DOMAIN a = 1..(Len(ms) + 1) /\ a[Len(ms) + 1] = m
      /\ \A i \in 1..Len(ms) : a[i] = ms[i]
  BY AppendAt
<1>2. \A i \in DOMAIN a : i \in DOMAIN ms \/ i = Len(ms) + 1
  BY <1>1
<1>3. Len(ms) + 1 \in DOMAIN a /\ \A i \in DOMAIN ms : i \in DOMAIN a
  BY <1>1
<1>. HIDE DEF a
<1>. QED  BY <1>1, <1>2, <1>3 DEF Tells

\* The last message of a sequence, and those before it.
LEMMA LastOf ==
    ASSUME NEW S, NEW ms \in Seq(S), ms # <<>>
    PROVE  /\ Front(ms) \in Seq(S) /\ Last(ms) \in S
           /\ Len(Front(ms)) = Len(ms) - 1 /\ DOMAIN Front(ms) = 1..(Len(ms) - 1)
           /\ \A i \in 1..(Len(ms) - 1) : Front(ms)[i] = ms[i]
           /\ ms = Append(Front(ms), Last(ms))
<1>1. Len(ms) \in Nat \ {0} /\ DOMAIN ms = 1..Len(ms) /\ \A i \in 1..Len(ms) : ms[i] \in S
  OBVIOUS
<1>2. Last(ms) \in S /\ Last(ms) = ms[Len(ms)]
  BY <1>1 DEF Last
<1>3. /\ Front(ms) \in Seq(S) /\ Len(Front(ms)) = Len(ms) - 1
      /\ \A i \in 1..(Len(ms) - 1) : Front(ms)[i] = ms[i]
  BY <1>1 DEF Front
<1>. DEFINE f == Front(ms)
            a == Append(f, Last(ms))
<1>. HIDE DEF f
<1>4. /\ DOMAIN f = 1..Len(f) /\ a \in Seq(S) /\ Len(a) = Len(f) + 1
      /\ a[Len(f) + 1] = Last(ms) /\ \A i \in 1..Len(f) : a[i] = f[i]
  BY <1>2, <1>3, AppendProperties DEF f
<1>. HIDE DEF a
<1>5. Len(a) = Len(ms) /\ \A i \in 1..Len(ms) : a[i] = ms[i]
  BY <1>1, <1>2, <1>3, <1>4 DEF f
<1>6. a = ms
  BY <1>4, <1>5, SeqEqual
<1>. QED  BY <1>2, <1>3, <1>4, <1>6 DEF f, a

\* Two messages behind the others.
LEMMA PairAppended ==
    ASSUME NEW S, NEW ms \in Seq(S), NEW x \in S, NEW y \in S
    PROVE  ms \o <<x, y>> = Append(Append(ms, x), y)
<1>. DEFINE p == <<x, y>>
            a == Append(ms, x)
            c == ms \o p
            d == Append(a, y)
<1>1. p \in Seq(S) /\ Len(p) = 2 /\ p[1] = x /\ p[2] = y
  OBVIOUS
<1>2. ms \in Seq(S) /\ Len(ms) \in Nat
  OBVIOUS
<1>3. /\ a \in Seq(S) /\ Len(a) = Len(ms) + 1 /\ a[Len(ms) + 1] = x
      /\ \A i \in 1..Len(ms) : a[i] = ms[i]
  BY <1>2, AppendProperties
<1>. HIDE DEF a, p
<1>4. /\ d \in Seq(S) /\ Len(d) = Len(a) + 1 /\ d[Len(a) + 1] = y
      /\ \A i \in 1..Len(a) : d[i] = a[i]
  BY <1>3, AppendProperties
<1>5. /\ c \in Seq(S) /\ Len(c) = Len(ms) + Len(p)
      /\ \A i \in 1..(Len(ms) + Len(p)) : c[i] = IF i <= Len(ms) THEN ms[i] ELSE p[i - Len(ms)]
  BY <1>1, <1>2, ConcatProperties
<1>. HIDE DEF c, d
<1>6. Len(c) = Len(d)
  BY <1>1, <1>2, <1>3, <1>4, <1>5
<1>7. ASSUME NEW i \in 1..Len(c) PROVE c[i] = d[i]
  <2>1. CASE i <= Len(ms)
    <3>1. i \in 1..Len(ms) /\ i \in 1..Len(a) /\ i \in 1..(Len(ms) + Len(p))
      BY <1>1, <1>2, <1>3, <1>5, <2>1
    <3>2. c[i] = ms[i]
      BY <1>5, <2>1, <3>1
    <3>. QED  BY <1>3, <1>4, <3>1, <3>2
  <2>2. CASE i = Len(ms) + 1
    <3>1. c[i] = p[1]
      BY <1>1, <1>2, <1>5, <2>2
    <3>2. d[i] = a[i]
      BY <1>2, <1>3, <1>4, <2>2
    <3>. QED  BY <1>1, <1>3, <2>2, <3>1, <3>2
  <2>3. CASE i = Len(ms) + 2
    <3>1. c[i] = p[2]
      BY <1>1, <1>2, <1>5, <2>3
    <3>2. d[i] = y
      BY <1>2, <1>3, <1>4, <2>3
    <3>. QED  BY <1>1, <3>1, <3>2
  <2>4. i <= Len(ms) \/ i = Len(ms) + 1 \/ i = Len(ms) + 2
    BY <1>1, <1>2, <1>5
  <2>. QED  BY <2>1, <2>2, <2>3, <2>4
<1>8. c = d
  BY <1>4, <1>5, <1>6, <1>7, SeqEqual
<1>. QED  BY <1>8 DEF a, c, d, p

-------------------------------------------------------------------------------
(* The messages of a turn.                                                   *)

Texts == Seq(1..MaxItems)

\* The messages of a turn that is going on: said, or the result of a call.
LEMMA PlainMessages ==
    ASSUME NEW t \in Turns, NEW items \in Texts
    PROVE  /\ Says(t, items, TRUE) \in Plain(t) /\ Says(t, items, TRUE).items = items
           /\ Says(t, items, FALSE) \in Plain(t) /\ Says(t, items, FALSE).items = items
           /\ User(t) \in Plain(t) /\ User(t).items = <<>>
           /\ Result(t) \in Plain(t) /\ Result(t).items = <<>>
  BY DEF Says, User, Result, Plain, Message, Texts

\* A segment adds its sentence and nothing else.
LEMMA AddedSegment ==
    ASSUME NEW t \in Turns, NEW ms \in Seq(Plain(t)), NEW seg \in Segment
    PROVE  /\ AddSegment(t, ms, seg) \in Seq(Plain(t))
           /\ \A v : Tells(AddSegment(t, ms, seg), v)
                       <=> Tells(ms, v) \/ (seg.kind = "item" /\ seg.item = v)
<1>. DEFINE done == IF OpenText(ms) THEN Front(ms) ELSE ms
            text == IF OpenText(ms) THEN Last(ms).items ELSE <<>>
<1>1. /\ done \in Seq(Plain(t)) /\ text \in Texts
      /\ \A v : Tells(ms, v) <=> Tells(done, v) \/ Has(text, v)
  <2>1. CASE OpenText(ms)
    <3>1. ms # <<>>
      BY <2>1 DEF OpenText
    <3>2. Front(ms) \in Seq(Plain(t)) /\ Last(ms) \in Plain(t) /\ ms = Append(Front(ms), Last(ms))
      BY <3>1, LastOf
    <3>3. Last(ms).items \in Texts
      BY <3>2 DEF Plain, Message, Texts
    <3>4. \A v : Tells(ms, v) <=> Tells(Front(ms), v) \/ Has(Last(ms).items, v)
      BY <3>2, TellsAppend
    <3>. QED  BY <2>1, <3>2, <3>3, <3>4
  <2>2. CASE ~OpenText(ms)
    BY <2>2 DEF Has, Texts
  <2>. QED  BY <2>1, <2>2
<1>2. AddSegment(t, ms, seg) =
        IF seg.kind = "item" THEN Append(done, Says(t, Append(text, seg.item), FALSE))
        ELSE done \o <<Says(t, text, TRUE), Result(t)>>
  BY DEF AddSegment
<1>. HIDE DEF done, text
<1>3. CASE seg.kind = "item"
  <2>. DEFINE more == Append(text, seg.item)
              m == Says(t, more, FALSE)
  <2>1. seg.item \in 1..MaxItems
    BY <1>3 DEF Segment
  <2>2. more \in Texts /\ \A v : Has(more, v) <=> Has(text, v) \/ seg.item = v
    BY <1>1, <2>1, AppendAt, HasAppend DEF Texts
  <2>. HIDE DEF more
  <2>3. m \in Plain(t) /\ m.items = more
    BY <2>2, PlainMessages
  <2>. HIDE DEF m
  <2>4. /\ Append(done, m) \in Seq(Plain(t))
        /\ \A v : Tells(Append(done, m), v) <=> Tells(done, v) \/ Has(m.items, v)
    BY <1>1, <2>3, AppendAt, TellsAppend
  <2>5. AddSegment(t, ms, seg) = Append(done, m)
    BY <1>2, <1>3 DEF m, more
  <2>. QED  BY <1>1, <1>3, <2>2, <2>3, <2>4, <2>5, Zenon
<1>4. CASE seg.kind # "item"
  <2>. DEFINE m == Says(t, text, TRUE)
              r == Result(t)
  <2>1. m \in Plain(t) /\ m.items = text /\ r \in Plain(t) /\ ~\E v : Has(r.items, v)
    <3>1. m \in Plain(t) /\ m.items = text /\ r \in Plain(t) /\ r.items = <<>>
      BY <1>1, PlainMessages
    <3>. HIDE DEF m, r
    <3>. QED  BY <3>1 DEF Has
  <2>. HIDE DEF m, r
  <2>2. /\ Append(done, m) \in Seq(Plain(t))
        /\ \A v : Tells(Append(done, m), v) <=> Tells(done, v) \/ Has(m.items, v)
    BY <1>1, <2>1, AppendAt, TellsAppend
  <2>. DEFINE a == Append(done, m)
  <2>. HIDE DEF a
  <2>3. /\ Append(a, r) \in Seq(Plain(t))
        /\ \A v : Tells(Append(a, r), v) <=> Tells(a, v) \/ Has(r.items, v)
    BY <2>1, <2>2, AppendAt, TellsAppend DEF a
  <2>4. AddSegment(t, ms, seg) = Append(a, r)
    <3>1. done \o <<m, r>> = Append(Append(done, m), r)
      BY <1>1, <2>1, PairAppended
    <3>2. AddSegment(t, ms, seg) = done \o <<m, r>>
      BY <1>2, <1>4 DEF m, r
    <3>. QED  BY <3>1, <3>2 DEF a
  <2>. QED  BY <1>1, <1>4, <2>1, <2>2, <2>3, <2>4, Zenon DEF a
<1>. QED  BY <1>3, <1>4

\* The messages that a sequence of segments makes are those of the turn, and tell
\* what the segments say.
LEMMA SegmentsTold ==
    ASSUME NEW t \in Turns, NEW segs \in Seq(Segment)
    PROVE  /\ SegmentMessages(t, segs) \in Seq(Plain(t))
           /\ \A v : Tells(SegmentMessages(t, segs), v) <=> Said(segs, v)
<1>. DEFINE L == Len(segs)
            S == Seq(Plain(t))
            step == [p \in S \X (1..L) |-> AddSegment(t, p[1], segs[p[2]])]
            upTo[n \in 0..L] == IF n = 0 THEN <<>> ELSE AddSegment(t, upTo[n - 1], segs[n])
<1>1. L \in Nat /\ DOMAIN segs = 1..L /\ \A i \in 1..L : segs[i] \in Segment
  OBVIOUS
<1>2. step \in [S \X (1..L) -> S]
  BY <1>1, AddedSegment
<1>3. <<>> \in S
  OBVIOUS
<1>4. \E f \in [0..L -> S] : Repeats(f, L, <<>>, step)
  <2>. HIDE DEF step, S, L, upTo
  <2>. QED  BY <1>1, <1>2, <1>3, Recursion
<1>5. PICK f \in [0..L -> S] :
        f[0] = <<>> /\ \A n \in 1..L : f[n] = step[<<f[n - 1], n>>]
  BY <1>4 DEF Repeats
<1>6. ASSUME NEW n \in 1..L PROVE n - 1 \in 0..L /\ f[n] = AddSegment(t, f[n - 1], segs[n])
  <2>1. n - 1 \in 0..L
    BY <1>1
  <2>2. PICK ms \in S : ms = f[n - 1]
    BY <1>5, <2>1
  <2>3. step[<<ms, n>>] = AddSegment(t, ms, segs[n])
    OBVIOUS
  <2>4. f[n] = step[<<ms, n>>]
    BY <1>5, <2>2
  <2>. QED  BY <2>1, <2>2, <2>3, <2>4
<1>7. f = [n \in 0..L |-> IF n = 0 THEN <<>> ELSE AddSegment(t, f[n - 1], segs[n])]
  <2>1. \A n \in 0..L : f[n] = IF n = 0 THEN <<>> ELSE AddSegment(t, f[n - 1], segs[n])
    BY <1>1, <1>5, <1>6
  <2>. QED  BY <1>5, <2>1
<1>8. upTo = [n \in 0..L |-> IF n = 0 THEN <<>> ELSE AddSegment(t, upTo[n - 1], segs[n])]
  BY <1>7
<1>9. SegmentMessages(t, segs) = upTo[L]
  BY DEF SegmentMessages
<1>. HIDE DEF upTo, step
<1>10. upTo[0] = <<>> /\ \A n \in 1..L : upTo[n] = AddSegment(t, upTo[n - 1], segs[n])
  <2>1. 0 \in 0..L /\ \A n \in 1..L : n \in 0..L /\ n # 0
    BY <1>1
  <2>. QED  BY <1>8, <2>1
<1>. DEFINE SaidBy(n, v) == \E i \in 1..n : segs[i].kind = "item" /\ segs[i].item = v
            T == {n \in Nat : n <= L => /\ upTo[n] \in S
                                       /\ \A v : Tells(upTo[n], v) <=> SaidBy(n, v)}
<1>11. 0 \in T
  <2>1. \A v : ~Tells(<<>>, v) /\ ~SaidBy(0, v)
    BY DEF Tells
  <2>. QED  BY <1>3, <1>10, <2>1
<1>12. ASSUME NEW n \in Nat, n \in T PROVE n + 1 \in T
  <2>. SUFFICES ASSUME n + 1 <= L
                PROVE  /\ upTo[n + 1] \in S
                       /\ \A v : Tells(upTo[n + 1], v) <=> SaidBy(n + 1, v)
    OBVIOUS
  <2>1. upTo[n] \in S /\ \A v : Tells(upTo[n], v) <=> SaidBy(n, v)
    BY <1>1, <1>12
  <2>2. n + 1 \in 1..L /\ n + 1 - 1 = n
    BY <1>1
  <2>3. upTo[n + 1] = AddSegment(t, upTo[n], segs[n + 1]) /\ segs[n + 1] \in Segment
    BY <1>1, <1>10, <2>2
  <2>4. /\ upTo[n + 1] \in S
        /\ \A v : Tells(upTo[n + 1], v)
                    <=> Tells(upTo[n], v) \/ (segs[n + 1].kind = "item" /\ segs[n + 1].item = v)
    <3>1. PICK ms \in S, seg \in Segment : ms = upTo[n] /\ seg = segs[n + 1]
      BY <2>1, <2>3
    <3>2. /\ AddSegment(t, ms, seg) \in S
          /\ \A v : Tells(AddSegment(t, ms, seg), v)
                      <=> Tells(ms, v) \/ (seg.kind = "item" /\ seg.item = v)
      BY AddedSegment
    <3>. QED  BY <2>3, <3>1, <3>2, Zenon
  <2>5. \A v : SaidBy(n + 1, v)
                 <=> SaidBy(n, v) \/ (segs[n + 1].kind = "item" /\ segs[n + 1].item = v)
    <3>1. \A i : i \in 1..(n + 1) <=> i \in 1..n \/ i = n + 1
      OBVIOUS
    <3>. QED  BY <3>1, Zenon
  <2>. QED  BY <2>1, <2>4, <2>5
<1>. HIDE DEF T
<1>13. L \in T
  BY <1>1, <1>11, <1>12, SetInduction
<1>. QED  BY <1>1, <1>9, <1>13 DEF T, Said

-------------------------------------------------------------------------------
(* A turn in the history.                                                    *)

OfTurn(t) == {m \in Message : m.turn = t}

OnlyLastMarked(ms) == \A i \in DOMAIN ms : ms[i].marked => i = Len(ms)

\* Two sequences, one behind the other.
LEMMA ConcatAt ==
    ASSUME NEW S, NEW a \in Seq(S), NEW b \in Seq(S)
    PROVE  /\ a \o b \in Seq(S) /\ Len(a) \in Nat /\ Len(b) \in Nat
           /\ Len(a \o b) = Len(a) + Len(b) /\ DOMAIN (a \o b) = 1..(Len(a) + Len(b))
           /\ DOMAIN a = 1..Len(a) /\ DOMAIN b = 1..Len(b)
           /\ \A i \in 1..Len(a) : (a \o b)[i] = a[i]
           /\ \A i \in 1..Len(b) : (a \o b)[Len(a) + i] = b[i]
           /\ \A i \in DOMAIN (a \o b) : i \in 1..Len(a) \/ (i - Len(a) \in 1..Len(b)
                                                             /\ i = Len(a) + (i - Len(a)))
  OBVIOUS

\* What comes at the end may be marked.
LEMMA EndMarked ==
    ASSUME NEW t \in Turns, NEW ms \in Seq(Plain(t)), NEW m \in OfTurn(t)
    PROVE  /\ Append(ms, m) \in Seq(OfTurn(t)) /\ OnlyLastMarked(Append(ms, m))
           /\ \A v : Tells(Append(ms, m), v) <=> Tells(ms, v) \/ Has(m.items, v)
<1>1. Plain(t) \subseteq OfTurn(t) /\ \A x \in Plain(t) : ~x.marked
  BY DEF Plain, OfTurn
<1>2. ms \in Seq(OfTurn(t))
  BY <1>1, SeqMonotonic
<1>. DEFINE a == Append(ms, m)
<1>3. /\ a \in Seq(OfTurn(t)) /\ DOMAIN a = 1..(Len(ms) + 1) /\ Len(ms) \in Nat
      /\ \A i \in 1..Len(ms) : a[i] = ms[i]
      /\ \A v : Tells(a, v) <=> Tells(ms, v) \/ Has(m.items, v)
  BY <1>2, AppendAt, TellsAppend
<1>4. \A i \in 1..Len(ms) : ms[i] \in Plain(t)
  OBVIOUS
<1>. HIDE DEF a
<1>5. Len(a) = Len(ms) + 1
  BY <1>3
<1>6. OnlyLastMarked(a)
  BY <1>1, <1>3, <1>4, <1>5 DEF OnlyLastMarked
<1>. QED  BY <1>3, <1>6 DEF a

\* The marker tells nothing.
LEMMA MarkedTold ==
    ASSUME NEW t \in Turns, NEW ms \in Seq(Plain(t))
    PROVE  /\ Marked(t, ms) \in Seq(OfTurn(t)) /\ OnlyLastMarked(Marked(t, ms))
           /\ \A v : Tells(Marked(t, ms), v) <=> Tells(ms, v)
<1>1. CASE OpenText(ms)
  <2>1. ms # <<>>
    BY <1>1 DEF OpenText
  <2>2. Front(ms) \in Seq(Plain(t)) /\ Last(ms) \in Plain(t) /\ ms = Append(Front(ms), Last(ms))
    BY <2>1, LastOf
  <2>. DEFINE m == [Last(ms) EXCEPT !.marked = TRUE]
  <2>3. m \in OfTurn(t) /\ m.items = Last(ms).items
    BY <2>2 DEF Plain, OfTurn, Message
  <2>. HIDE DEF m
  <2>4. /\ Append(Front(ms), m) \in Seq(OfTurn(t)) /\ OnlyLastMarked(Append(Front(ms), m))
        /\ \A v : Tells(Append(Front(ms), m), v) <=> Tells(Front(ms), v) \/ Has(m.items, v)
    BY <2>2, <2>3, EndMarked
  <2>5. \A v : Tells(ms, v) <=> Tells(Front(ms), v) \/ Has(Last(ms).items, v)
    BY <2>2, TellsAppend
  <2>6. Marked(t, ms) = Append(Front(ms), m)
    BY <1>1 DEF Marked, m
  <2>. QED  BY <2>3, <2>4, <2>5, <2>6, Zenon
<1>2. CASE ~OpenText(ms)
  <2>. DEFINE m == [Says(t, <<>>, FALSE) EXCEPT !.marked = TRUE]
  <2>1. m \in OfTurn(t) /\ m.items = <<>>
    <3>. PICK none \in Texts : none = <<>>
      <4>1. <<>> \in Texts
        BY EmptySeq DEF Texts
      <4>. QED  BY <4>1
    <3>1. Says(t, none, FALSE) \in Plain(t) /\ Says(t, none, FALSE).items = none
      BY PlainMessages
    <3>2. \A x \in Plain(t) : [x EXCEPT !.marked = TRUE] \in OfTurn(t)
                             /\ [x EXCEPT !.marked = TRUE].items = x.items
      BY DEF Plain, OfTurn, Message
    <3>. QED  BY <3>1, <3>2
  <2>. HIDE DEF m
  <2>2. \A v : ~Has(m.items, v)
    BY <2>1 DEF Has
  <2>3. /\ Append(ms, m) \in Seq(OfTurn(t)) /\ OnlyLastMarked(Append(ms, m))
        /\ \A v : Tells(Append(ms, m), v) <=> Tells(ms, v) \/ Has(m.items, v)
    BY <2>1, EndMarked
  <2>4. Marked(t, ms) = Append(ms, m)
    BY <1>2 DEF Marked, m
  <2>. QED  BY <2>2, <2>3, <2>4, Zenon
<1>. QED  BY <1>1, <1>2

\* A turn is written with what its segments say, the marker last.
LEMMA BlockTold ==
    ASSUME NEW t \in Turns, NEW segs \in Seq(Segment), NEW interrupted \in BOOLEAN
    PROVE  /\ Block(t, segs, interrupted) \in Seq(OfTurn(t))
           /\ OnlyLastMarked(Block(t, segs, interrupted))
           /\ \A v : Tells(Block(t, segs, interrupted), v) <=> Said(segs, v)
<1>. DEFINE ms == SegmentMessages(t, segs)
            x == IF interrupted THEN Marked(t, ms) ELSE ms
            u == <<User(t)>>
            b == u \o x
<1>1. ms \in Seq(Plain(t)) /\ \A v : Tells(ms, v) <=> Said(segs, v)
  BY SegmentsTold
<1>. HIDE DEF ms
<1>2. /\ x \in Seq(OfTurn(t)) /\ OnlyLastMarked(x)
      /\ \A v : Tells(x, v) <=> Said(segs, v)
  <2>1. CASE interrupted
    BY <1>1, <2>1, MarkedTold
  <2>2. CASE ~interrupted
    <3>1. Plain(t) \subseteq OfTurn(t) /\ \A m \in Plain(t) : ~m.marked
      BY DEF Plain, OfTurn
    <3>2. \A i \in DOMAIN ms : ms[i] \in Plain(t)
      BY <1>1
    <3>3. ms \in Seq(OfTurn(t))
      BY <1>1, <3>1, SeqMonotonic
    <3>. QED  BY <1>1, <2>2, <3>1, <3>2, <3>3 DEF OnlyLastMarked
  <2>. QED  BY <2>1, <2>2
<1>3. /\ User(t) \in OfTurn(t) /\ ~User(t).marked /\ User(t).items = <<>>
  BY DEF User, OfTurn, Message
<1>4. u \in Seq(OfTurn(t)) /\ Len(u) = 1 /\ u[1] = User(t)
  BY <1>3
<1>5. Block(t, segs, interrupted) = b
  BY DEF Block, ms
<1>. HIDE DEF x, u
<1>6. /\ b \in Seq(OfTurn(t)) /\ Len(x) \in Nat
      /\ Len(b) = Len(u) + Len(x) /\ DOMAIN b = 1..(Len(u) + Len(x)) /\ DOMAIN x = 1..Len(x)
      /\ \A i \in 1..Len(u) : b[i] = u[i]
      /\ \A i \in 1..Len(x) : b[Len(u) + i] = x[i]
  <2>1. x \in Seq(OfTurn(t)) /\ u \in Seq(OfTurn(t))
    BY <1>2, <1>4
  <2>2. /\ b \in Seq(OfTurn(t)) /\ Len(b) = Len(u) + Len(x)
        /\ DOMAIN b = 1..(Len(u) + Len(x))
    BY <2>1, ConcatAt
  <2>3. \A i \in 1..Len(u) : b[i] = u[i]
    BY <2>1
  <2>4. \A i \in 1..Len(x) : b[Len(u) + i] = x[i]
    BY <2>1
  <2>. QED  BY <2>1, <2>2, <2>3, <2>4
<1>. HIDE DEF b
<1>7. \A i \in DOMAIN b : \/ i = 1 /\ b[i] = User(t)
                          \/ i - 1 \in DOMAIN x /\ b[i] = x[i - 1]
  <2>1. ASSUME NEW i \in DOMAIN b, i # 1 PROVE i - 1 \in DOMAIN x /\ b[i] = x[i - 1]
    <3>1. i - 1 \in 1..Len(x) /\ Len(u) + (i - 1) = i
      BY <1>4, <1>6, <2>1
    <3>. QED  BY <1>6, <3>1
  <2>2. b[1] = User(t)
    BY <1>4, <1>6
  <2>. QED  BY <2>1, <2>2
<1>8. OnlyLastMarked(b)
  BY <1>2, <1>3, <1>4, <1>6, <1>7 DEF OnlyLastMarked
<1>9. \A v : Tells(b, v) <=> Tells(x, v)
  <2>1. ASSUME NEW v, Tells(b, v) PROVE Tells(x, v)
    BY <1>3, <1>7, <2>1 DEF Tells, Has
  <2>2. ASSUME NEW v, Tells(x, v) PROVE Tells(b, v)
    <3>1. PICK i \in 1..Len(x) : Has(x[i].items, v)
      BY <1>6, <2>2 DEF Tells
    <3>2. 1 + i \in DOMAIN b /\ b[1 + i] = x[i]
      BY <1>4, <1>6
    <3>. QED  BY <3>1, <3>2 DEF Tells
  <2>. QED  BY <2>1, <2>2
<1>. QED  BY <1>2, <1>5, <1>6, <1>8, <1>9, Zenon

-------------------------------------------------------------------------------
(* What is left of a turn, and of the history.                               *)

Ordered(segs) ==
    \A i, j \in DOMAIN segs :
        i < j /\ segs[i].kind = "item" /\ segs[j].kind = "item" => segs[i].item < segs[j].item

\* The segments before the first sentence that was not played say the sentences
\* up to the last that was.
LEMMA PlayedSaid ==
    ASSUME segments \in Seq(Segment), Ordered(segments), NEW kept \in Nat
    PROVE  /\ Played(kept) \in Seq(Segment)
           /\ \A v : Said(Played(kept), v) <=> Said(segments, v) /\ v <= kept
<1>. DEFINE cut == {i \in DOMAIN segments :
                      segments[i].kind = "item" /\ segments[i].item > kept}
<1>1. /\ Len(segments) \in Nat /\ DOMAIN segments = 1..Len(segments)
      /\ \A i \in DOMAIN segments : segments[i].item \in Int
  <2>1. \A i \in DOMAIN segments : segments[i] \in Segment
    OBVIOUS
  <2>2. \A x \in Segment : x.item \in Int
    BY LLMAssumption DEF Segment
  <2>. QED  BY <2>1, <2>2
<1>2. CASE cut = {}
  <2>1. Played(kept) = segments
    BY <1>2 DEF Played
  <2>2. \A v : Said(segments, v) => v <= kept
    BY <1>1, <1>2 DEF Said
  <2>. QED  BY <2>1, <2>2
<1>3. CASE cut # {}
  <2>. DEFINE k == CHOOSE i \in cut : \A j \in cut : i <= j
              p == SubSeq(segments, 1, k - 1)
  <2>1. k \in cut /\ \A j \in cut : k <= j
    <3>1. cut \in SUBSET Nat
      BY <1>1
    <3>2. \E i \in cut : \A j \in cut : i <= j
      BY <1>3, <3>1, LeastNumber
    <3>. QED  BY <3>2
  <2>2. Played(kept) = p
    BY <1>3 DEF Played
  <2>3. k \in 1..Len(segments) /\ segments[k].kind = "item" /\ segments[k].item > kept
    BY <1>1, <2>1
  <2>. HIDE DEF k
  <2>4. /\ p \in Seq(Segment) /\ DOMAIN p = 1..(k - 1) /\ \A i \in 1..(k - 1) : p[i] = segments[i]
    BY <1>1, <2>3
  <2>. HIDE DEF p
  <2>5. ASSUME NEW v, Said(p, v) PROVE Said(segments, v) /\ v <= kept
    <3>1. PICK i \in 1..(k - 1) : segments[i].kind = "item" /\ segments[i].item = v
      BY <2>4, <2>5 DEF Said
    <3>2. i \in DOMAIN segments /\ ~(k <= i)
      BY <1>1, <2>3
    <3>3. i \notin cut
      BY <2>1, <3>2
    <3>. QED  BY <1>1, <3>1, <3>2, <3>3 DEF Said
  <2>6. ASSUME NEW v, Said(segments, v), v <= kept PROVE Said(p, v)
    <3>1. PICK i \in DOMAIN segments : segments[i].kind = "item" /\ segments[i].item = v
      BY <2>6 DEF Said
    <3>2. i < k
      <4>1. i # k
        BY <1>1, <2>3, <2>6, <3>1
      <4>2. ~(k < i)
        <5>1. SUFFICES ASSUME k < i PROVE FALSE
          OBVIOUS
        <5>2. segments[k].item < segments[i].item
          BY <1>1, <2>3, <3>1, <5>1 DEF Ordered
        <5>. QED  BY <1>1, <2>3, <2>6, <3>1, <5>2
      <4>. QED  BY <1>1, <2>3, <4>1, <4>2
    <3>3. i \in 1..(k - 1)
      BY <1>1, <2>3, <3>2
    <3>. QED  BY <2>4, <3>1, <3>3 DEF Said
  <2>. QED  BY <2>2, <2>4, <2>5, <2>6
<1>. QED  BY <1>2, <1>3

\* Old messages fade from the front.
LEMMA LatestOf ==
    ASSUME NEW h \in Seq(Message)
    PROVE  /\ Latest(h) \in Seq(Message) /\ Len(h) \in Nat
           /\ \E d \in Nat : /\ Len(Latest(h)) = Len(h) - d
                             /\ \A i \in 1..Len(Latest(h)) : Latest(h)[i] = h[i + d]
<1>1. Len(h) \in Nat /\ HistoryLength \in Nat /\ \A i \in 1..Len(h) : h[i] \in Message
  BY LLMAssumption
<1>2. CASE Len(h) > HistoryLength /\ HistoryLength > 0
  <2>. DEFINE d == Len(h) - HistoryLength
              l == SubSeq(h, d + 1, Len(h))
  <2>1. d \in Nat /\ Len(h) \in Int /\ d + 1 <= Len(h) /\ \A i \in d + 1..Len(h) : h[i] \in Message
    BY <1>1, <1>2
  <2>2. /\ l \in Seq(Message) /\ Len(l) = Len(h) - (d + 1) + 1
        /\ \A i \in 1..(Len(h) - (d + 1) + 1) : l[i] = h[d + 1 + i - 1]
    BY <2>1, SubSeqProperties
  <2>3. Len(l) = Len(h) - d /\ \A i \in 1..Len(l) : l[i] = h[i + d]
    BY <1>1, <2>1, <2>2
  <2>4. Latest(h) = l
    BY <1>2 DEF Latest
  <2>. QED  BY <1>1, <2>1, <2>2, <2>3, <2>4
<1>3. CASE ~(Len(h) > HistoryLength /\ HistoryLength > 0)
  <2>1. Latest(h) = h
    BY <1>3 DEF Latest
  <2>2. \A i \in 1..Len(h) : i + 0 = i
    BY <1>1
  <2>. QED  BY <1>1, <2>1, <2>2
<1>. QED  BY <1>2, <1>3

-------------------------------------------------------------------------------
(* The invariant.                                                            *)

CancelAll == [verb |-> "cancel", ts |-> Infinity]

\* Every turn begun was asked for.
CountPart == turn + Len(prompts) <= asked /\ asked <= MaxTurns

\* A kill is read after a cancel of everything.
KillFollows(q, w) ==
    \A i \in DOMAIN q :
        q[i].verb = "kill" => w >= Infinity \/ \E j \in 1..(i - 1) : q[j] = CancelAll

KillPart == (killed => watermark >= Infinity) /\ KillFollows(control, watermark)

\* A turn that goes on was not cancelled, is not written, and has nothing to repair.
CurrentPart ==
    /\ pc \notin {"gen", "poll"} => current = None
    /\ pc = "gen" => current # None
    /\ pc = "poll" => (voided <=> current = None)
    /\ pc \in {"gen", "poll"} => turn > 0
    /\ current # None => /\ current >= watermark
                         /\ turn \notin written /\ repairable = None
                         /\ loaded = Latest(file)

\* The segments of the newest turn say what the client was sent, in order; a turn
\* that is over and was heard is written.
SentPart ==
    /\ \A t \in Turns : t > turn => sent[t] = 0 /\ t \notin written
    /\ turn = 0 => segments = <<>>
    /\ turn > 0 => /\ sent[turn] <= MaxItems
                   /\ \A v \in 1..MaxItems : Said(segments, v) <=> v <= sent[turn]
                   /\ current = None /\ sent[turn] > 0 => turn \in written
    /\ Ordered(segments)
    /\ pc = "poll" /\ pending = "item" => sent[turn] < MaxItems

\* A marker ends its turn, no turn is from the future, and what may be repaired is
\* the last of the history.
MarkersEnd(ms) ==
    \A i \in DOMAIN ms : ms[i].marked => (i = Len(ms) \/ ms[i + 1].turn # ms[i].turn)

FilePart ==
    /\ MarkersEnd(file)
    /\ \A i \in DOMAIN file : file[i].turn <= turn /\ (current # None => file[i].turn < turn)
    /\ repairable # None => /\ repairable = turn /\ turn \in written
                            /\ loaded = file /\ span \in 0..Len(file)
                            /\ \A i \in DOMAIN file : file[i].turn = turn <=> i > span

TurnInv == TypeOK /\ CountPart /\ KillPart /\ CurrentPart /\ SentPart /\ FilePart

-------------------------------------------------------------------------------
(* A turn joins the history.                                                 *)

\* What messages tell of one turn.
TellsOf(ms, t, v) == \E i \in DOMAIN ms : ms[i].turn = t /\ Has(ms[i].items, v)

\* A turn's messages behind those of older turns.
LEMMA TurnJoins ==
    ASSUME NEW a \in Seq(Message), NEW t \in Turns, NEW b \in Seq(OfTurn(t)),
           MarkersEnd(a), OnlyLastMarked(b), \A i \in DOMAIN a : a[i].turn < t
    PROVE  /\ a \o b \in Seq(Message) /\ Len(a) \in 0..Len(a \o b) /\ MarkersEnd(a \o b)
           /\ \A i \in DOMAIN (a \o b) :
                (a \o b)[i].turn <= t /\ ((a \o b)[i].turn = t <=> i > Len(a))
           /\ \A v : TellsOf(a \o b, t, v) <=> Tells(b, v)
           /\ \A u, v : u # t => (TellsOf(a \o b, u, v) <=> TellsOf(a, u, v))
<1>. DEFINE c == a \o b
<1>1. b \in Seq(Message)
  BY SeqMonotonic DEF OfTurn
<1>2. /\ c \in Seq(Message) /\ Len(a) \in Nat /\ Len(b) \in Nat
      /\ Len(c) = Len(a) + Len(b) /\ DOMAIN c = 1..(Len(a) + Len(b))
      /\ DOMAIN a = 1..Len(a) /\ DOMAIN b = 1..Len(b)
  BY <1>1, ConcatAt
<1>3. \A i \in 1..Len(a) : c[i] = a[i]
  BY <1>1
<1>4. \A i \in 1..Len(b) : c[Len(a) + i] = b[i]
  BY <1>1
<1>. HIDE DEF c
<1>5. \A i \in DOMAIN a : a[i] \in Message /\ a[i].turn \in Int
  <2>1. \A i \in DOMAIN a : a[i] \in Message
    OBVIOUS
  <2>. QED  BY <2>1, LLMAssumption DEF Message, Turns
<1>6. \A i \in DOMAIN b : b[i].turn = t
  <2>1. \A i \in DOMAIN b : b[i] \in OfTurn(t)
    OBVIOUS
  <2>. QED  BY <2>1 DEF OfTurn
<1>7. t \in Int
  BY LLMAssumption DEF Turns
<1>8. ASSUME NEW i \in DOMAIN c
      PROVE  \/ i \in DOMAIN a /\ c[i] = a[i] /\ c[i].turn < t /\ ~(i > Len(a))
             \/ i - Len(a) \in DOMAIN b /\ c[i] = b[i - Len(a)] /\ c[i].turn = t /\ i > Len(a)
  <2>1. CASE i <= Len(a)
    BY <1>2, <1>3, <2>1
  <2>2. CASE i > Len(a)
    <3>1. i - Len(a) \in 1..Len(b) /\ Len(a) + (i - Len(a)) = i
      BY <1>2, <2>2
    <3>2. c[i] = b[i - Len(a)]
      BY <1>4, <3>1
    <3>. QED  BY <1>2, <1>6, <2>2, <3>1, <3>2
  <2>. QED  BY <1>2, <2>1, <2>2
<1>9. \A i \in DOMAIN c : c[i].turn <= t /\ (c[i].turn = t <=> i > Len(a))
  BY <1>5, <1>7, <1>8
<1>10. MarkersEnd(c)
  <2>. SUFFICES ASSUME NEW i \in DOMAIN c, c[i].marked, i # Len(c)
                PROVE  c[i + 1].turn # c[i].turn
    BY DEF MarkersEnd
  <2>1. i \in DOMAIN a /\ c[i] = a[i] /\ c[i].turn < t
    <3>1. ASSUME i - Len(a) \in DOMAIN b, c[i] = b[i - Len(a)] PROVE FALSE
      <4>1. i - Len(a) = Len(b)
        BY <3>1 DEF OnlyLastMarked
      <4>. QED  BY <1>2, <4>1
    <3>. QED  BY <1>8, <3>1
  <2>2. i + 1 \in DOMAIN c
    BY <1>2
  <2>3. CASE i = Len(a)
    <3>1. i + 1 > Len(a)
      <4>1. Len(a) \in Nat
        BY <1>2
      <4>. QED  BY <2>3, <4>1
    <3>2. c[i + 1].turn = t
      BY <1>9, <2>2, <3>1
    <3>. QED  BY <1>5, <1>7, <2>1, <3>2
  <2>4. CASE i # Len(a)
    <3>1. i + 1 \in 1..Len(a)
      BY <1>2, <2>1, <2>4
    <3>2. a[i + 1].turn # a[i].turn
      BY <2>1, <2>4 DEF MarkersEnd
    <3>. QED  BY <1>3, <2>1, <3>1, <3>2
  <2>. QED  BY <2>3, <2>4
<1>11. \A v : TellsOf(c, t, v) <=> Tells(b, v)
  <2>1. ASSUME NEW v, TellsOf(c, t, v) PROVE Tells(b, v)
    <3>1. PICK i \in DOMAIN c : c[i].turn = t /\ Has(c[i].items, v)
      BY <2>1 DEF TellsOf
    <3>2. i - Len(a) \in DOMAIN b /\ c[i] = b[i - Len(a)]
      BY <1>8, <1>9, <3>1
    <3>. QED  BY <3>1, <3>2 DEF Tells
  <2>2. ASSUME NEW v, Tells(b, v) PROVE TellsOf(c, t, v)
    <3>1. PICK i \in 1..Len(b) : Has(b[i].items, v)
      BY <1>2, <2>2 DEF Tells
    <3>2. Len(a) + i \in DOMAIN c /\ c[Len(a) + i] = b[i] /\ b[i].turn = t
      BY <1>2, <1>4, <1>6
    <3>. QED  BY <3>1, <3>2 DEF TellsOf
  <2>. QED  BY <2>1, <2>2
<1>12. ASSUME NEW u, NEW v, u # t PROVE TellsOf(c, u, v) <=> TellsOf(a, u, v)
  <2>1. ASSUME TellsOf(c, u, v) PROVE TellsOf(a, u, v)
    <3>1. PICK i \in DOMAIN c : c[i].turn = u /\ Has(c[i].items, v)
      BY <2>1 DEF TellsOf
    <3>2. i \in DOMAIN a /\ c[i] = a[i]
      BY <1>8, <1>12, <3>1
    <3>. QED  BY <3>1, <3>2 DEF TellsOf
  <2>2. ASSUME TellsOf(a, u, v) PROVE TellsOf(c, u, v)
    <3>1. PICK i \in 1..Len(a) : a[i].turn = u /\ Has(a[i].items, v)
      BY <1>2, <2>2 DEF TellsOf
    <3>2. i \in DOMAIN c /\ c[i] = a[i]
      BY <1>2, <1>3
    <3>. QED  BY <3>1, <3>2 DEF TellsOf
  <2>. QED  BY <2>1, <2>2
<1>13. Len(a) \in 0..Len(c)
  BY <1>2
<1>. QED  BY <1>2, <1>9, <1>10, <1>11, <1>12, <1>13 DEF c

\* A part of the history that keeps its order is in the history's order.
LEMMA PartOfHistory ==
    ASSUME NEW h \in Seq(Message), MarkersEnd(h), NEW p \in Seq(Message), NEW d \in Nat,
           Len(p) + d <= Len(h), \A i \in 1..Len(p) : p[i] = h[i + d]
    PROVE  /\ MarkersEnd(p)
           /\ \A i \in DOMAIN p : i + d \in DOMAIN h /\ p[i] = h[i + d]
           /\ \A u, v : TellsOf(p, u, v) => TellsOf(h, u, v)
<1>1. Len(p) \in Nat /\ DOMAIN p = 1..Len(p) /\ Len(h) \in Nat /\ DOMAIN h = 1..Len(h)
  OBVIOUS
<1>2. \A i \in DOMAIN p : i + d \in DOMAIN h /\ p[i] = h[i + d]
  BY <1>1
<1>3. MarkersEnd(p)
  <2>. SUFFICES ASSUME NEW i \in DOMAIN p, p[i].marked, i # Len(p)
                PROVE  p[i + 1].turn # p[i].turn
    BY DEF MarkersEnd
  <2>1. i + 1 \in DOMAIN p /\ i + d # Len(h) /\ (i + 1) + d = (i + d) + 1
    BY <1>1
  <2>2. h[(i + d) + 1].turn # h[i + d].turn
    BY <1>2, <2>1 DEF MarkersEnd
  <2>3. p[i + 1] = h[(i + 1) + d]
    BY <1>2, <2>1
  <2>. QED  BY <1>2, <2>1, <2>2, <2>3
<1>4. ASSUME NEW u, NEW v, TellsOf(p, u, v) PROVE TellsOf(h, u, v)
  BY <1>2, <1>4 DEF TellsOf
<1>. QED  BY <1>2, <1>3, <1>4

\* A turn is written: with what was sent, behind what is left of the older ones.
LEMMA CommitWrites ==
    ASSUME TurnInv, current # None, NEW interrupted \in BOOLEAN, Commit(interrupted)
    PROVE  /\ turn \in Turns /\ span' \in 0..Len(file') /\ loaded' = file'
           /\ file' \in Seq(Message) /\ MarkersEnd(file') /\ written' = written \cup {turn}
           /\ \A i \in DOMAIN file' : file'[i].turn <= turn
                                      /\ (file'[i].turn = turn <=> i > span')
           /\ \A v : TellsOf(file', turn, v) <=> Said(segments, v)
           /\ \A u, v : u # turn => (TellsOf(file', u, v) => TellsOf(file, u, v))
<1>. DEFINE a == loaded
            b == Block(turn, segments, interrupted)
<1>1. turn \in Turns /\ segments \in Seq(Segment) /\ file \in Seq(Message)
      /\ loaded = Latest(file)
  <2>1. pc \in {"gen", "poll"} /\ turn \in 0..MaxTurns /\ turn > 0
    BY DEF TurnInv, TypeOK, CurrentPart
  <2>. QED  BY <2>1, LLMAssumption DEF TurnInv, TypeOK, CurrentPart, Turns
<1>2. /\ b \in Seq(OfTurn(turn)) /\ OnlyLastMarked(b)
      /\ \A v : Tells(b, v) <=> Said(segments, v)
  BY <1>1, BlockTold
<1>. HIDE DEF b
<1>3. MarkersEnd(file) /\ \A i \in DOMAIN file : file[i].turn < turn
  BY DEF TurnInv, FilePart
<1>4. /\ a \in Seq(Message) /\ MarkersEnd(a) /\ \A i \in DOMAIN a : a[i].turn < turn
      /\ \A u, v : TellsOf(a, u, v) => TellsOf(file, u, v)
  <2>1. /\ a \in Seq(Message) /\ Len(file) \in Nat
        /\ \E d \in Nat : Len(a) = Len(file) - d /\ \A i \in 1..Len(a) : a[i] = file[i + d]
    BY <1>1, LatestOf
  <2>2. PICK d \in Nat : Len(a) = Len(file) - d /\ \A i \in 1..Len(a) : a[i] = file[i + d]
    BY <2>1
  <2>3. Len(a) + d <= Len(file)
    BY <2>1, <2>2
  <2>. HIDE DEF a
  <2>4. /\ MarkersEnd(a) /\ \A i \in DOMAIN a : i + d \in DOMAIN file /\ a[i] = file[i + d]
        /\ \A u, v : TellsOf(a, u, v) => TellsOf(file, u, v)
    BY <1>1, <1>3, <2>1, <2>2, <2>3, PartOfHistory
  <2>. QED  BY <1>3, <2>1, <2>4
<1>5. file' = a \o b /\ loaded' = file' /\ span' = Len(a) /\ written' = written \cup {turn}
  BY DEF Commit, Save, b
<1>. HIDE DEF a
<1>6. /\ a \o b \in Seq(Message) /\ Len(a) \in 0..Len(a \o b) /\ MarkersEnd(a \o b)
      /\ \A i \in DOMAIN (a \o b) :
           (a \o b)[i].turn <= turn /\ ((a \o b)[i].turn = turn <=> i > Len(a))
      /\ \A v : TellsOf(a \o b, turn, v) <=> Tells(b, v)
      /\ \A u, v : u # turn => (TellsOf(a \o b, u, v) <=> TellsOf(a, u, v))
  BY <1>1, <1>2, <1>4, TurnJoins
<1>. QED  BY <1>1, <1>2, <1>4, <1>5, <1>6

\* A turn is repaired: the sentences up to the last that was played stay.
LEMMA RefineWrites ==
    ASSUME TurnInv, repairable # None, NEW kept \in Nat, Refine(kept)
    PROVE  /\ loaded' = file' /\ file' \in Seq(Message) /\ MarkersEnd(file')
           /\ \A i \in DOMAIN file' : file'[i].turn <= turn
           /\ \A v : TellsOf(file', turn, v) <=> Said(segments, v) /\ v <= kept
           /\ \A u, v : u # turn => (TellsOf(file', u, v) <=> TellsOf(file, u, v))
<1>. DEFINE a == SubSeq(loaded, 1, span)
            b == Block(turn, Played(kept), TRUE)
<1>1. /\ turn \in Turns /\ file \in Seq(Message) /\ loaded = file /\ span \in 0..Len(file)
      /\ MarkersEnd(file)
      /\ \A i \in DOMAIN file : file[i].turn <= turn /\ (file[i].turn = turn <=> i > span)
  BY DEF TurnInv, TypeOK, FilePart
<1>2. /\ Played(kept) \in Seq(Segment)
      /\ \A v : Said(Played(kept), v) <=> Said(segments, v) /\ v <= kept
  BY PlayedSaid DEF TurnInv, TypeOK, SentPart
<1>3. /\ b \in Seq(OfTurn(turn)) /\ OnlyLastMarked(b)
      /\ \A v : Tells(b, v) <=> Said(Played(kept), v)
  BY <1>1, <1>2, BlockTold
<1>. HIDE DEF b
<1>4. /\ a \in Seq(Message) /\ Len(a) = span /\ \A i \in 1..span : a[i] = file[i + 0]
  BY <1>1
<1>5. file' = a \o b /\ loaded' = file'
  BY DEF Refine, Save, b
<1>. HIDE DEF a
<1>6. /\ MarkersEnd(a) /\ \A i \in DOMAIN a : i + 0 \in DOMAIN file /\ a[i] = file[i + 0]
      /\ \A u, v : TellsOf(a, u, v) => TellsOf(file, u, v)
  <2>1. Len(a) + 0 <= Len(file) /\ 0 \in Nat
    BY <1>1, <1>4
  <2>. QED  BY <1>1, <1>4, <2>1, PartOfHistory
<1>7. \A i \in DOMAIN a : a[i].turn < turn
  <2>. SUFFICES ASSUME NEW i \in DOMAIN a PROVE a[i].turn < turn
    OBVIOUS
  <2>1. i \in 1..span /\ i \in DOMAIN file /\ a[i] = file[i]
    BY <1>1, <1>4
  <2>2. file[i].turn <= turn /\ file[i].turn # turn
    BY <1>1, <2>1
  <2>3. file[i] \in Message
    BY <1>1, <2>1
  <2>4. file[i].turn \in Int /\ turn \in Int
    BY <1>1, <2>3, LLMAssumption DEF Message, Turns
  <2>. QED  BY <2>1, <2>2, <2>4
<1>8. /\ a \o b \in Seq(Message) /\ MarkersEnd(a \o b)
      /\ \A i \in DOMAIN (a \o b) : (a \o b)[i].turn <= turn
      /\ \A v : TellsOf(a \o b, turn, v) <=> Tells(b, v)
      /\ \A u, v : u # turn => (TellsOf(a \o b, u, v) <=> TellsOf(a, u, v))
  BY <1>1, <1>3, <1>4, <1>6, <1>7, TurnJoins
<1>9. ASSUME NEW u, NEW v, u # turn, TellsOf(file, u, v) PROVE TellsOf(a, u, v)
  <2>1. PICK i \in DOMAIN file : file[i].turn = u /\ Has(file[i].items, v)
    BY <1>9 DEF TellsOf
  <2>2. i \in 1..span
    BY <1>1, <1>9, <2>1
  <2>3. i \in DOMAIN a /\ a[i] = file[i]
    BY <1>1, <1>4, <2>2
  <2>. QED  BY <2>1, <2>3 DEF TellsOf
<1>. QED  BY <1>2, <1>3, <1>5, <1>6, <1>8, <1>9

-------------------------------------------------------------------------------
(* The steps of the invariant.                                               *)

\* The client asks and controls; the node is left alone.
LEMMA ClientTypes ==
    ASSUME TurnInv, Client
    PROVE  /\ lastTs' \in Nat /\ prompts' \in Seq(Stamps) /\ asked' \in Nat
           /\ control' \in Seq(Control) /\ controls' \in Nat
           /\ CountPart' /\ KillPart'
           /\ UNCHANGED <<nodeVars, genVars, turn, harnessVars, repairable, sent>>
<1>1. /\ lastTs \in Nat /\ prompts \in Seq(Stamps) /\ asked \in Nat /\ asked <= MaxTurns
      /\ control \in Seq(Control) /\ controls \in Nat /\ turn \in 0..MaxTurns
      /\ KillPart /\ CountPart
  BY DEF TurnInv, TypeOK, CountPart
<1>2. ASSUME NEW t \in Stamps, Prompt(t)
      PROVE  /\ lastTs' \in Nat /\ prompts' \in Seq(Stamps) /\ asked' \in Nat
             /\ control' \in Seq(Control) /\ controls' \in Nat
             /\ CountPart' /\ KillPart'
             /\ UNCHANGED <<nodeVars, genVars, turn, harnessVars, repairable, sent>>
  <2>1. /\ asked < MaxTurns /\ asked' = asked + 1 /\ lastTs' = t
        /\ prompts' = Append(prompts, t)
        /\ UNCHANGED <<control, controls, nodeVars, genVars, turn, harnessVars, repairable,
                       sent>>
    BY <1>2 DEF Prompt
  <2>2. prompts' \in Seq(Stamps) /\ Len(prompts') = Len(prompts) + 1 /\ Len(prompts) \in Nat
    BY <1>1, <2>1
  <2>3. CountPart'
    BY <1>1, <2>1, <2>2, LLMAssumption DEF CountPart
  <2>4. KillPart'
    BY <1>1, <2>1 DEF KillPart, nodeVars
  <2>. QED  BY <1>1, <2>1, <2>2, <2>3, <2>4, LLMAssumption
<1>3. ASSUME NEW c \in Control, c.verb # "kill", Submit(c)
      PROVE  /\ lastTs' \in Nat /\ prompts' \in Seq(Stamps) /\ asked' \in Nat
             /\ control' \in Seq(Control) /\ controls' \in Nat
             /\ CountPart' /\ KillPart'
             /\ UNCHANGED <<nodeVars, genVars, turn, harnessVars, repairable, sent>>
  <2>1. /\ controls' = controls + 1 /\ control' = Append(control, c)
        /\ UNCHANGED <<lastTs, prompts, asked, nodeVars, genVars, turn, harnessVars,
                       repairable, sent>>
    BY <1>3 DEF Submit
  <2>2. /\ control' \in Seq(Control) /\ DOMAIN control = 1..Len(control)
        /\ Len(control) \in Nat /\ DOMAIN control' = 1..(Len(control) + 1)
        /\ control'[Len(control) + 1] = c
        /\ \A i \in 1..Len(control) : control'[i] = control[i]
    BY <1>1, <2>1, AppendAt
  <2>3. KillFollows(control', watermark)
    <3>. SUFFICES ASSUME NEW i \in DOMAIN control', control'[i].verb = "kill"
                  PROVE  watermark >= Infinity \/ \E j \in 1..(i - 1) : control'[j] = CancelAll
      BY DEF KillFollows
    <3>1. i \in 1..Len(control) /\ control[i].verb = "kill"
      BY <1>3, <2>2
    <3>2. watermark >= Infinity \/ \E j \in 1..(i - 1) : control[j] = CancelAll
      BY <1>1, <2>2, <3>1 DEF KillPart, KillFollows
    <3>3. \A j \in 1..(i - 1) : control'[j] = control[j]
      BY <2>2, <3>1
    <3>. QED  BY <3>2, <3>3
  <2>4. KillPart' /\ CountPart'
    BY <1>1, <2>1, <2>3 DEF KillPart, CountPart, nodeVars
  <2>. QED  BY <1>1, <2>1, <2>2, <2>4
<1>4. CASE Teardown
  <2>. DEFINE kill == [verb |-> "kill"]
              a == Append(control, CancelAll)
  <2>1. /\ controls' = MaxControls + 1 /\ asked' = MaxTurns
        /\ control' = control \o <<CancelAll, kill>>
        /\ UNCHANGED <<lastTs, prompts, nodeVars, genVars, turn, harnessVars, repairable, sent>>
    BY <1>4 DEF Teardown, CancelAll
  <2>2. CancelAll \in Control /\ kill \in Control /\ CancelAll.verb # "kill"
    BY DEF Control, CancelAll
  <2>. HIDE DEF kill
  <2>3. control' = Append(a, kill)
    BY <1>1, <2>1, <2>2, PairAppended
  <2>4. /\ a \in Seq(Control) /\ DOMAIN control = 1..Len(control) /\ Len(control) \in Nat
        /\ DOMAIN a = 1..(Len(control) + 1) /\ a[Len(control) + 1] = CancelAll
        /\ \A i \in 1..Len(control) : a[i] = control[i]
    BY <1>1, <2>2, AppendAt
  <2>. HIDE DEF a
  <2>5. /\ control' \in Seq(Control) /\ Len(a) = Len(control) + 1
        /\ DOMAIN control' = 1..(Len(a) + 1) /\ \A i \in 1..Len(a) : control'[i] = a[i]
    BY <2>2, <2>3, <2>4, AppendAt
  <2>6. KillFollows(control', watermark)
    <3>. SUFFICES ASSUME NEW i \in DOMAIN control', control'[i].verb = "kill"
                  PROVE  watermark >= Infinity \/ \E j \in 1..(i - 1) : control'[j] = CancelAll
      BY DEF KillFollows
    <3>1. CASE i \in 1..Len(control)
      <4>1. control[i].verb = "kill"
        BY <2>4, <2>5, <3>1
      <4>2. watermark >= Infinity \/ \E j \in 1..(i - 1) : control[j] = CancelAll
        BY <1>1, <2>4, <3>1, <4>1 DEF KillPart, KillFollows
      <4>3. \A j \in 1..(i - 1) : control'[j] = control[j]
        BY <2>4, <2>5, <3>1
      <4>. QED  BY <4>2, <4>3
    <3>2. CASE i \notin 1..Len(control)
      <4>1. control'[Len(control) + 1] = CancelAll
        BY <2>4, <2>5
      <4>2. i # Len(control) + 1
        BY <2>2, <4>1
      <4>3. Len(control) + 1 \in 1..(i - 1)
        BY <2>4, <2>5, <3>2, <4>2
      <4>. QED  BY <4>1, <4>3
    <3>. QED  BY <3>1, <3>2
  <2>7. KillPart'
    BY <1>1, <2>1, <2>6 DEF KillPart, nodeVars
  <2>8. CountPart'
    BY <1>1, <2>1, LLMAssumption DEF CountPart
  <2>. QED  BY <1>1, <2>1, <2>5, <2>7, <2>8, LLMAssumption
<1>5. ASSUME NEW c \in Cancels
      PROVE  [verb |-> "cancel", ts |-> c] \in Control
  BY DEF Control
<1>6. ASSUME NEW t \in Turns, NEW i \in {None} \cup 0..MaxItems
      PROVE  [verb |-> "report", turn |-> t, item |-> i] \in Control
  BY DEF Control
<1>. QED
  BY <1>2, <1>3, <1>4, <1>5, <1>6 DEF Client, ClientCancel, ClientReport

\* The node reads the head of its control queue.
LEMMA ReadTypes ==
    ASSUME TypeOK, NEW verb, Read(verb)
    PROVE  /\ Head(control) \in Control /\ Head(control).verb = verb
           /\ control' \in Seq(Control) /\ Len(control) \in Nat \ {0}
           /\ Head(control) = control[1] /\ DOMAIN control = 1..Len(control)
           /\ DOMAIN control' = 1..(Len(control) - 1)
           /\ \A i \in DOMAIN control' : control'[i] = control[i + 1]
  BY DEF TypeOK, Read

\* What follows a cancel of everything keeps behind it.
LEMMA ReadFollows ==
    ASSUME TypeOK, KillPart, NEW verb, Read(verb), NEW w \in Nat, w >= watermark,
           Head(control) = CancelAll => w >= Infinity
    PROVE  KillFollows(control', w) /\ (verb = "kill" => watermark >= Infinity)
<1>1. /\ Len(control) \in Nat \ {0} /\ Head(control) = control[1]
      /\ DOMAIN control = 1..Len(control) /\ DOMAIN control' = 1..(Len(control) - 1)
      /\ \A i \in DOMAIN control' : control'[i] = control[i + 1]
      /\ control[1].verb = verb
  BY ReadTypes
<1>2. watermark \in Nat /\ Infinity \in Nat
  BY LLMAssumption DEF TypeOK
<1>3. ASSUME NEW i \in DOMAIN control', control'[i].verb = "kill"
      PROVE  w >= Infinity \/ \E j \in 1..(i - 1) : control'[j] = CancelAll
  <2>1. i + 1 \in DOMAIN control /\ control[i + 1].verb = "kill"
    BY <1>1, <1>3
  <2>2. watermark >= Infinity \/ \E j \in 1..((i + 1) - 1) : control[j] = CancelAll
    BY <2>1 DEF KillPart, KillFollows
  <2>3. ASSUME NEW j \in 1..((i + 1) - 1), control[j] = CancelAll, j # 1
        PROVE  j - 1 \in 1..(i - 1) /\ control'[j - 1] = CancelAll
    <3>1. j - 1 \in 1..(i - 1) /\ j - 1 \in DOMAIN control' /\ j - 1 + 1 = j
      BY <1>1, <2>3
    <3>. QED  BY <1>1, <2>3, <3>1
  <2>. QED  BY <1>1, <1>2, <2>2, <2>3
<1>4. verb = "kill" => watermark >= Infinity
  <2>1. 1 \in DOMAIN control /\ ~\E j \in 1..(1 - 1) : TRUE
    BY <1>1
  <2>. QED  BY <1>1, <2>1 DEF KillPart, KillFollows
<1>. QED  BY <1>3, <1>4 DEF KillFollows

\* What a control message may leave of the watermark.
LEMMA LargerOf ==
    ASSUME NEW a \in Nat, NEW b \in Nat
    PROVE  Larger(a, b) \in Nat /\ Larger(a, b) >= a /\ Larger(a, b) >= b
  BY DEF Larger

\* A cancel that hits concludes the turn; one that does not raises the watermark.
LEMMA CancelKeeps == TurnInv /\ ReadCancel => TurnInv'
<1>. SUFFICES ASSUME TurnInv, ReadCancel PROVE TurnInv'
  OBVIOUS
<1>. DEFINE ts == Head(control).ts
<1>1. /\ Read("cancel") /\ watermark' = Larger(watermark, ts)
      /\ UNCHANGED <<lastTs, prompts, asked, controls, pc, killed, genVars, turn, sent>>
  BY DEF ReadCancel
<1>2. TypeOK /\ watermark \in Nat /\ ts \in Nat
  <2>1. Head(control) \in Control /\ Head(control).verb = "cancel"
    BY <1>1, ReadTypes DEF TurnInv
  <2>. QED  BY <2>1, LLMAssumption DEF TurnInv, TypeOK, Control
<1>3. /\ watermark' \in Nat /\ watermark' >= watermark /\ watermark' >= ts
      /\ control' \in Seq(Control)
  BY <1>1, <1>2, LargerOf, ReadTypes
<1>4. CountPart'
  BY <1>1 DEF TurnInv, CountPart
<1>5. KillPart'
  <2>1. Head(control) = CancelAll => watermark' >= Infinity
    BY <1>3 DEF CancelAll
  <2>2. KillFollows(control', watermark')
    BY <1>1, <1>2, <1>3, <2>1, ReadFollows DEF TurnInv
  <2>. QED  BY <1>1, <1>2, <1>3, <2>2, LLMAssumption DEF TurnInv, KillPart
<1>6. CASE ~Hits(ts)
  <2>1. UNCHANGED <<voided, current, harnessVars, repairable>>
    BY <1>6 DEF ReadCancel
  <2>2. current # None => current >= watermark'
    <3>1. SUFFICES ASSUME current # None PROVE current >= watermark'
      OBVIOUS
    <3>2. current \in Nat
      BY <1>2, <3>1, LLMAssumption DEF TypeOK
    <3>3. ~(current < Larger(watermark, ts))
      BY <1>6, <3>1 DEF Hits
    <3>. QED  BY <1>1, <1>3, <3>2, <3>3
  <2>3. TypeOK'
    BY <1>1, <1>2, <1>3, <2>1 DEF TypeOK, genVars, harnessVars
  <2>4. CurrentPart'
    BY <1>1, <2>1, <2>2 DEF TurnInv, CurrentPart, harnessVars
  <2>5. SentPart'
    BY <1>1, <2>1 DEF TurnInv, SentPart, harnessVars, genVars, Said, Ordered
  <2>6. FilePart'
    BY <1>1, <2>1 DEF TurnInv, FilePart, harnessVars, MarkersEnd
  <2>. QED  BY <1>4, <1>5, <2>3, <2>4, <2>5, <2>6 DEF TurnInv
<1>7. CASE Hits(ts)
  <2>1. voided' = TRUE /\ CustomCancel /\ current' = None /\ segments' = segments
    BY <1>7 DEF ReadCancel, CustomCancel
  <2>2. current # None /\ pc = "poll" /\ turn \in Turns
    <3>1. current # None /\ pc \in {"top", "poll"}
      BY <1>1, <1>7 DEF Hits, Read
    <3>. QED  BY <1>2, <3>1, LLMAssumption DEF TurnInv, CurrentPart, TypeOK, Turns
  <2>3. CASE segments = <<>>
    <3>1. UNCHANGED <<harnessVars, repairable>>
      BY <2>1, <2>3 DEF CustomCancel
    <3>2. sent[turn] = 0
      <4>1. \A v \in 1..MaxItems : ~(v <= sent[turn])
        BY <2>2, <2>3, LLMAssumption DEF TurnInv, SentPart, Said, Turns
      <4>2. sent[turn] \in Nat /\ sent[turn] <= MaxItems
        BY <1>2, <2>2, LLMAssumption DEF TurnInv, TypeOK, SentPart, Turns
      <4>. QED  BY <4>1, <4>2, LLMAssumption
    <3>3. TypeOK'
      BY <1>1, <1>2, <1>3, <2>1, <3>1 DEF TypeOK, genVars, harnessVars
    <3>4. CurrentPart'
      BY <1>1, <2>1, <2>2, <3>1 DEF TurnInv, CurrentPart, harnessVars
    <3>5. SentPart'
      BY <1>1, <2>1, <3>1, <3>2 DEF TurnInv, SentPart, harnessVars, genVars, Said, Ordered
    <3>6. FilePart'
      BY <1>1, <2>1, <3>1 DEF TurnInv, FilePart, harnessVars, MarkersEnd
    <3>. QED  BY <1>4, <1>5, <3>3, <3>4, <3>5, <3>6 DEF TurnInv
  <2>4. CASE segments # <<>>
    <3>1. Commit(TRUE) /\ repairable' = turn
      BY <2>1, <2>4 DEF CustomCancel
    <3>2. /\ span' \in 0..Len(file') /\ loaded' = file'
          /\ file' \in Seq(Message) /\ MarkersEnd(file') /\ written' = written \cup {turn}
          /\ \A i \in DOMAIN file' : file'[i].turn <= turn
                                     /\ (file'[i].turn = turn <=> i > span')
      BY <2>2, <3>1, CommitWrites
    <3>3. TypeOK'
      BY <1>1, <1>2, <1>3, <2>1, <2>2, <3>1, <3>2 DEF TypeOK, genVars
    <3>4. CurrentPart'
      BY <1>1, <2>1, <2>2 DEF TurnInv, CurrentPart
    <3>5. SentPart'
      BY <1>1, <2>1, <2>2, <3>2, LLMAssumption
         DEF TurnInv, SentPart, genVars, Said, Ordered, Turns
    <3>6. FilePart'
      BY <1>1, <2>1, <3>1, <3>2 DEF FilePart
    <3>. QED  BY <1>4, <1>5, <3>3, <3>4, <3>5, <3>6 DEF TurnInv
  <2>. QED  BY <2>3, <2>4
<1>. QED  BY <1>6, <1>7

\* A kill is read when everything has been cancelled.
LEMMA KillKeeps == TurnInv /\ ReadKill => TurnInv'
<1>. SUFFICES ASSUME TurnInv, ReadKill PROVE TurnInv'
  OBVIOUS
<1>1. /\ Read("kill") /\ killed' = TRUE
      /\ UNCHANGED <<lastTs, prompts, asked, controls, pc, current, watermark, voided,
                     genVars, turn, harnessVars, repairable, sent>>
  BY DEF ReadKill
<1>2. KillPart'
  <2>1. watermark \in Nat /\ watermark >= watermark /\ Head(control) # CancelAll
    BY <1>1 DEF TurnInv, TypeOK, Read, CancelAll
  <2>2. KillFollows(control', watermark) /\ watermark >= Infinity
    BY <1>1, <2>1, ReadFollows DEF TurnInv
  <2>. QED  BY <1>1, <2>2 DEF KillPart
<1>3. TypeOK'
  BY <1>1, ReadTypes DEF TurnInv, TypeOK, genVars, harnessVars
<1>4. CountPart' /\ CurrentPart'
  BY <1>1 DEF TurnInv, CountPart, CurrentPart, harnessVars
<1>5. SentPart'
  BY <1>1 DEF TurnInv, SentPart, harnessVars, genVars, Said, Ordered
<1>6. FilePart'
  BY <1>1 DEF TurnInv, FilePart, harnessVars, MarkersEnd
<1>. QED  BY <1>2, <1>3, <1>4, <1>5, <1>6 DEF TurnInv

\* A report that is taken repairs the newest turn and closes the window.
LEMMA ReportKeeps == TurnInv /\ ReadReport => TurnInv'
<1>. SUFFICES ASSUME TurnInv, ReadReport PROVE TurnInv'
  OBVIOUS
<1>1. /\ Read("report")
      /\ UNCHANGED <<lastTs, prompts, asked, controls, nodeVars, genVars, turn, sent>>
  BY DEF ReadReport
<1>2. KillPart'
  <2>1. watermark \in Nat /\ watermark >= watermark /\ Head(control) # CancelAll
    BY <1>1 DEF TurnInv, TypeOK, Read, CancelAll
  <2>2. KillFollows(control', watermark)
    BY <1>1, <2>1, ReadFollows DEF TurnInv
  <2>. QED  BY <1>1, <2>2 DEF TurnInv, KillPart, nodeVars
<1>3. CountPart' /\ control' \in Seq(Control)
  BY <1>1, ReadTypes DEF TurnInv, CountPart
<1>4. CASE ~Repairs(Head(control))
  <2>1. UNCHANGED <<harnessVars, repairable>>
    BY <1>4 DEF ReadReport
  <2>2. TypeOK'
    BY <1>1, <1>3, <2>1 DEF TurnInv, TypeOK, genVars, harnessVars, nodeVars
  <2>3. CurrentPart'
    BY <1>1, <2>1 DEF TurnInv, CurrentPart, harnessVars, nodeVars
  <2>4. SentPart'
    BY <1>1, <2>1 DEF TurnInv, SentPart, harnessVars, genVars, nodeVars, Said, Ordered
  <2>5. FilePart'
    BY <1>1, <2>1 DEF TurnInv, FilePart, harnessVars, nodeVars, MarkersEnd
  <2>. QED  BY <1>2, <1>3, <2>2, <2>3, <2>4, <2>5 DEF TurnInv
<1>5. CASE Repairs(Head(control))
  <2>. DEFINE kept == Larger(Head(control).item - 1, 0)
  <2>1. Refine(kept) /\ repairable' = None /\ UNCHANGED <<segments, span, written>>
    BY <1>5 DEF ReadReport
  <2>2. kept \in Nat /\ repairable # None
    <3>1. Head(control) \in Control /\ Head(control).verb = "report"
      BY <1>1, ReadTypes DEF TurnInv
    <3>2. Head(control).turn \in Turns
      BY <3>1 DEF Control
    <3>3. Head(control).item \in Sentences \cup {0} /\ repairable = Head(control).turn
      BY <1>5 DEF Repairs
    <3>4. \A x \in Sentences : x \in Nat
      <4>1. \A i \in DOMAIN segments : segments[i] \in Segment
        BY DEF TurnInv, TypeOK
      <4>. QED  BY <4>1, LLMAssumption DEF Sentences, Segment
    <3>. QED  BY <3>2, <3>3, <3>4, LLMAssumption DEF Larger, Turns
  <2>. HIDE DEF kept
  <2>3. /\ loaded' = file' /\ file' \in Seq(Message) /\ MarkersEnd(file')
        /\ \A i \in DOMAIN file' : file'[i].turn <= turn
    BY <2>1, <2>2, RefineWrites
  <2>4. current = None
    BY <2>2 DEF TurnInv, CurrentPart
  <2>5. TypeOK'
    BY <1>1, <1>3, <2>1, <2>3 DEF TurnInv, TypeOK, genVars, nodeVars
  <2>6. CurrentPart'
    BY <1>1, <2>1, <2>4 DEF TurnInv, CurrentPart, nodeVars
  <2>7. SentPart'
    BY <1>1, <2>1 DEF TurnInv, SentPart, genVars, nodeVars, Said, Ordered
  <2>8. FilePart'
    BY <1>1, <2>1, <2>3, <2>4 DEF FilePart, nodeVars
  <2>. QED  BY <1>2, <1>3, <2>5, <2>6, <2>7, <2>8 DEF TurnInv
<1>. QED  BY <1>4, <1>5
\* The client's step leaves the node as it is.
LEMMA ClientKeeps == TurnInv /\ Client => TurnInv'
<1>. SUFFICES ASSUME TurnInv, Client PROVE TurnInv'
  OBVIOUS
<1>1. /\ lastTs' \in Nat /\ prompts' \in Seq(Stamps) /\ asked' \in Nat
      /\ control' \in Seq(Control) /\ controls' \in Nat
      /\ CountPart' /\ KillPart'
      /\ UNCHANGED <<nodeVars, genVars, turn, harnessVars, repairable, sent>>
  BY ClientTypes
<1>2. TypeOK'
  BY <1>1 DEF TurnInv, TypeOK, nodeVars, genVars, harnessVars
<1>3. CurrentPart'
  BY <1>1 DEF TurnInv, CurrentPart, nodeVars, harnessVars
<1>4. SentPart'
  BY <1>1 DEF TurnInv, SentPart, nodeVars, genVars, harnessVars, Said, Ordered
<1>5. FilePart'
  BY <1>1 DEF TurnInv, FilePart, nodeVars, harnessVars, MarkersEnd
<1>. QED  BY <1>1, <1>2, <1>3, <1>4, <1>5 DEF TurnInv

\* The node's loop waits, times out or drops a stale prompt: no turn is touched.
LEMMA LoopKeeps == TurnInv /\ (Wait \/ Timeout \/ Discard) => TurnInv'
<1>. SUFFICES ASSUME TurnInv, Wait \/ Timeout \/ Discard PROVE TurnInv'
  OBVIOUS
<1>1. /\ UNCHANGED <<lastTs, asked, control, controls, current, watermark, killed, voided,
                     genVars, turn, harnessVars, repairable, sent>>
      /\ pc \in {"top", "get"} /\ pc' \in {"top", "get", "exited"}
  BY DEF Wait, Timeout, Discard, Drained
<1>2. prompts' \in Seq(Stamps) /\ Len(prompts') <= Len(prompts)
      /\ Len(prompts) \in Nat /\ Len(prompts') \in Nat
  <2>1. prompts \in Seq(Stamps)
    BY DEF TurnInv, TypeOK
  <2>2. CASE prompts' = prompts
    BY <2>1, <2>2
  <2>3. CASE prompts # <<>> /\ prompts' = Tail(prompts)
    BY <2>1, <2>3
  <2>. QED  BY <2>2, <2>3 DEF Wait, Timeout, Discard
<1>3. CountPart'
  BY <1>1, <1>2 DEF TurnInv, CountPart, TypeOK
<1>4. KillPart'
  BY <1>1 DEF TurnInv, KillPart
<1>5. TypeOK'
  BY <1>1, <1>2 DEF TurnInv, TypeOK, genVars, harnessVars
<1>6. CurrentPart'
  BY <1>1 DEF TurnInv, CurrentPart, harnessVars
<1>7. SentPart'
  BY <1>1 DEF TurnInv, SentPart, genVars, harnessVars, Said, Ordered
<1>8. FilePart'
  BY <1>1 DEF TurnInv, FilePart, harnessVars, MarkersEnd
<1>. QED  BY <1>3, <1>4, <1>5, <1>6, <1>7, <1>8 DEF TurnInv

\* A turn begins: nothing of it was sent, and the older turns are in the file.
LEMMA BeginKeeps == TurnInv /\ Begin => TurnInv'
<1>. SUFFICES ASSUME TurnInv, Begin PROVE TurnInv'
  OBVIOUS
<1>1. /\ prompts # <<>> /\ Head(prompts) >= watermark
      /\ prompts' = Tail(prompts) /\ current' = Head(prompts)
      /\ turn' = turn + 1 /\ repairable' = None
      /\ loaded' = Latest(file) /\ segments' = <<>> /\ span' = None
      /\ round' = 1 /\ again' = FALSE /\ pending' = None /\ pc' = "gen"
      /\ UNCHANGED <<lastTs, asked, control, controls, watermark, killed, voided,
                     file, written, sent>>
  BY DEF Begin
<1>2. /\ TypeOK /\ CountPart /\ SentPart /\ FilePart /\ pc \notin {"gen", "poll"}
  BY DEF TurnInv, Begin
<1>3. /\ prompts \in Seq(Stamps) /\ prompts' \in Seq(Stamps) /\ Head(prompts) \in Stamps
      /\ Len(prompts) \in Nat \ {0} /\ Len(prompts') = Len(prompts) - 1
  <2>1. prompts \in Seq(Stamps)
    BY <1>2 DEF TypeOK
  <2>. QED  BY <1>1, <2>1
<1>4. turn \in 0..MaxTurns /\ turn + 1 \in Turns /\ MaxTurns \in Nat
  BY <1>2, <1>3, LLMAssumption DEF TypeOK, CountPart, Turns
<1>5. current' \in Stamps /\ current' # None
  BY <1>1, <1>3, LLMAssumption
<1>6. CountPart'
  BY <1>1, <1>2, <1>3, <1>4 DEF CountPart, TypeOK
<1>7. KillPart'
  BY <1>1 DEF TurnInv, KillPart
<1>8. TypeOK'
  <2>1. loaded' \in Seq(Message)
    BY <1>1, <1>2, LatestOf DEF TypeOK
  <2>2. segments' \in Seq(Segment)
    BY <1>1
  <2>3. 1 \in 0..LoopNum /\ turn + 1 \in 0..MaxTurns
    BY <1>4, LLMAssumption DEF Turns
  <2>. QED  BY <1>1, <1>2, <1>3, <1>5, <2>1, <2>2, <2>3 DEF TypeOK
<1>9. CurrentPart'
  <2>1. turn + 1 \notin written
    BY <1>2, <1>4 DEF SentPart
  <2>. QED  BY <1>1, <1>4, <1>5, <2>1 DEF CurrentPart
<1>10. SentPart'
  <2>1. \A t \in Turns : t > turn + 1 => sent[t] = 0 /\ t \notin written
    BY <1>2, <1>4 DEF SentPart, Turns
  <2>2. sent[turn + 1] = 0
    BY <1>2, <1>4 DEF SentPart
  <2>3. /\ \A v : ~Said(segments', v)
        /\ Ordered(segments')
    BY <1>1 DEF Said, Ordered
  <2>4. turn + 1 # 0
    BY <1>4
  <2>5. \A v \in 1..MaxItems : ~(v <= 0)
    BY LLMAssumption
  <2>. QED  BY <1>1, <1>5, <2>1, <2>2, <2>3, <2>4, <2>5, LLMAssumption DEF SentPart
<1>11. FilePart'
  <2>1. \A i \in DOMAIN file : file[i].turn <= turn + 1 /\ file[i].turn < turn + 1
    <3>1. \A i \in DOMAIN file : file[i].turn <= turn /\ file[i] \in Message
      BY <1>2 DEF FilePart, TypeOK
    <3>2. \A i \in DOMAIN file : file[i].turn \in Int
      BY <3>1, LLMAssumption DEF Message, Turns
    <3>. QED  BY <1>4, <3>1, <3>2
  <2>. QED  BY <1>1, <1>2, <2>1 DEF FilePart, MarkersEnd
<1>. QED  BY <1>6, <1>7, <1>8, <1>9, <1>10, <1>11 DEF TurnInv

\* The generator yields a chunk that fits.
LEMMA YieldKeeps == TurnInv /\ (\E kind \in {"empty", "item", "tools"} : Yield(kind)) => TurnInv'
<1>. SUFFICES ASSUME TurnInv, NEW kind \in {"empty", "item", "tools"}, Yield(kind)
              PROVE  TurnInv'
  OBVIOUS
<1>1. /\ pc = "gen" /\ (kind = "item" => sent[turn] < MaxItems)
      /\ pending' = kind /\ voided' = FALSE /\ pc' = "poll"
      /\ UNCHANGED <<lastTs, prompts, asked, control, controls, current, watermark, killed,
                     round, again, turn, harnessVars, repairable, sent>>
  BY DEF Yield
<1>2. TypeOK'
  BY <1>1 DEF TurnInv, TypeOK, harnessVars
<1>3. CountPart' /\ KillPart'
  BY <1>1 DEF TurnInv, CountPart, KillPart
<1>4. CurrentPart'
  BY <1>1 DEF TurnInv, CurrentPart, harnessVars
<1>5. SentPart'
  BY <1>1 DEF TurnInv, SentPart, harnessVars, Said, Ordered
<1>6. FilePart'
  BY <1>1 DEF TurnInv, FilePart, harnessVars, MarkersEnd
<1>. QED  BY <1>2, <1>3, <1>4, <1>5, <1>6 DEF TurnInv

\* A turn is aborted only after the hook has concluded it: a kill never comes alone.
LEMMA AbortedTurn == TurnInv /\ Abort => current = None
<1>. SUFFICES ASSUME TurnInv, Abort, current # None PROVE FALSE
  OBVIOUS
<1>1. pc = "poll" /\ ~voided /\ killed
  BY DEF TurnInv, CurrentPart, Abort, Drained
<1>2. current >= watermark /\ watermark >= Infinity
  BY <1>1 DEF TurnInv, CurrentPart, KillPart
<1>3. current \in Nat /\ current < Infinity /\ Infinity \in Nat /\ watermark \in Nat
  BY LLMAssumption DEF TurnInv, TypeOK
<1>. QED  BY <1>2, <1>3

\* The process leaves what the hook has concluded.
LEMMA AbortKeeps == TurnInv /\ Abort => TurnInv'
<1>. SUFFICES ASSUME TurnInv, Abort PROVE TurnInv'
  OBVIOUS
<1>1. /\ current = None /\ current' = None /\ pending' = None /\ voided' = FALSE
      /\ pc' = "top"
      /\ UNCHANGED <<lastTs, prompts, asked, control, controls, watermark, killed,
                     round, again, turn, harnessVars, repairable, sent>>
  BY AbortedTurn DEF Abort
<1>2. TypeOK'
  BY <1>1 DEF TurnInv, TypeOK, harnessVars
<1>3. CountPart' /\ KillPart'
  BY <1>1 DEF TurnInv, CountPart, KillPart
<1>4. CurrentPart'
  BY <1>1 DEF CurrentPart
<1>5. SentPart'
  BY <1>1 DEF TurnInv, SentPart, harnessVars, Said, Ordered
<1>6. FilePart'
  BY <1>1 DEF TurnInv, FilePart, harnessVars, MarkersEnd
<1>. QED  BY <1>2, <1>3, <1>4, <1>5, <1>6 DEF TurnInv
\* A segment more says what it says, and keeps the order when it is the largest.
LEMMA SegmentRecorded ==
    ASSUME NEW segs \in Seq(Segment), Ordered(segs), NEW s \in Segment,
           s.kind = "item" => \A i \in DOMAIN segs :
                                 segs[i].kind = "item" => segs[i].item < s.item
    PROVE  /\ Append(segs, s) \in Seq(Segment) /\ Ordered(Append(segs, s))
           /\ \A v : Said(Append(segs, s), v)
                       <=> Said(segs, v) \/ (s.kind = "item" /\ s.item = v)
<1>. DEFINE a == Append(segs, s)
<1>1. /\ a \in Seq(Segment) /\ DOMAIN segs = 1..Len(segs) /\ Len(segs) \in Nat
      /\ DOMAIN a = 1..(Len(segs) + 1) /\ a[Len(segs) + 1] = s
      /\ \A i \in 1..Len(segs) : a[i] = segs[i]
  BY AppendAt
<1>. HIDE DEF a
<1>2. Ordered(a)
  <2>. SUFFICES ASSUME NEW i \in DOMAIN a, NEW j \in DOMAIN a, i < j,
                       a[i].kind = "item", a[j].kind = "item"
                PROVE  a[i].item < a[j].item
    BY DEF Ordered
  <2>1. i \in 1..Len(segs) /\ a[i] = segs[i]
    BY <1>1
  <2>2. CASE j = Len(segs) + 1
    BY <1>1, <2>1, <2>2
  <2>3. CASE j \in 1..Len(segs)
    BY <1>1, <2>1, <2>3 DEF Ordered
  <2>. QED  BY <1>1, <2>2, <2>3
<1>3. ASSUME NEW v, Said(a, v) PROVE Said(segs, v) \/ (s.kind = "item" /\ s.item = v)
  <2>1. PICK i \in 1..(Len(segs) + 1) : a[i].kind = "item" /\ a[i].item = v
    BY <1>1, <1>3 DEF Said
  <2>2. CASE i = Len(segs) + 1
    BY <1>1, <2>1, <2>2
  <2>3. CASE i \in 1..Len(segs)
    BY <1>1, <2>1, <2>3 DEF Said
  <2>. QED  BY <1>1, <2>2, <2>3
<1>4. ASSUME NEW v, Said(segs, v) PROVE Said(a, v)
  <2>1. PICK i \in 1..Len(segs) : segs[i].kind = "item" /\ segs[i].item = v
    BY <1>1, <1>4 DEF Said
  <2>2. i \in DOMAIN a /\ a[i] = segs[i]
    BY <1>1
  <2>. QED  BY <2>1, <2>2 DEF Said
<1>5. ASSUME s.kind = "item" PROVE Said(a, s.item)
  <2>1. Len(segs) + 1 \in DOMAIN a
    BY <1>1
  <2>. QED  BY <1>1, <1>5, <2>1 DEF Said
<1>. QED  BY <1>1, <1>2, <1>3, <1>4, <1>5, Zenon DEF a

\* A poll that finds nothing lets the turn go on.
LEMMA Proceeds ==
    ASSUME TurnInv, Proceed
    PROVE  /\ pc = "poll" /\ pc' = "gen" /\ pending' = None /\ current # None
           /\ turn \in Turns
<1>1. pc = "poll" /\ ~voided /\ pc' = "gen" /\ pending' = None
  BY DEF Proceed, Drained
<1>2. current # None /\ turn > 0 /\ turn \in 0..MaxTurns
  BY <1>1 DEF TurnInv, CurrentPart, TypeOK
<1>. QED  BY <1>1, <1>2, LLMAssumption DEF Turns

\* A chunk without text changes nothing.
LEMMA ConsumeEmptyKeeps == TurnInv /\ ConsumeEmpty => TurnInv'
<1>. SUFFICES ASSUME TurnInv, ConsumeEmpty PROVE TurnInv'
  OBVIOUS
<1>1. /\ pc = "poll" /\ pc' = "gen" /\ pending' = None /\ current # None /\ turn \in Turns
      /\ UNCHANGED <<lastTs, prompts, asked, control, controls, current, watermark, killed,
                     voided, round, again, turn, harnessVars, repairable, sent>>
  BY Proceeds DEF ConsumeEmpty
<1>2. TypeOK'
  BY <1>1 DEF TurnInv, TypeOK, harnessVars
<1>3. CountPart' /\ KillPart'
  BY <1>1 DEF TurnInv, CountPart, KillPart
<1>4. CurrentPart'
  BY <1>1 DEF TurnInv, CurrentPart, harnessVars
<1>5. SentPart'
  BY <1>1 DEF TurnInv, SentPart, harnessVars, Said, Ordered
<1>6. FilePart'
  BY <1>1 DEF TurnInv, FilePart, harnessVars, MarkersEnd
<1>. QED  BY <1>2, <1>3, <1>4, <1>5, <1>6 DEF TurnInv

\* A sentence is sent and recorded behind the earlier ones.
LEMMA ConsumeItemKeeps == TurnInv /\ ConsumeItem => TurnInv'
<1>. SUFFICES ASSUME TurnInv, ConsumeItem PROVE TurnInv'
  OBVIOUS
<1>. DEFINE s == [kind |-> "item", item |-> sent[turn] + 1]
<1>1. /\ pc = "poll" /\ pc' = "gen" /\ pending = "item" /\ pending' = None /\ current # None
      /\ turn \in Turns
      /\ segments' = Append(segments, s) /\ sent' = [sent EXCEPT ![turn] = @ + 1]
      /\ UNCHANGED <<lastTs, prompts, asked, control, controls, current, watermark, killed,
                     voided, round, again, turn, span, loaded, file, written, repairable>>
  BY Proceeds DEF ConsumeItem
<1>2. sent \in [Turns -> Nat] /\ sent[turn] \in Nat /\ sent[turn] < MaxItems
      /\ sent' \in [Turns -> Nat] /\ sent'[turn] = sent[turn] + 1
      /\ \A t \in Turns : t # turn => sent'[t] = sent[t]
  BY <1>1 DEF TurnInv, TypeOK, SentPart
<1>3. s \in Segment
  BY <1>2, LLMAssumption DEF Segment
<1>4. \A i \in DOMAIN segments : segments[i].kind = "item" => segments[i].item < s.item
  <2>. SUFFICES ASSUME NEW i \in DOMAIN segments, segments[i].kind = "item"
                PROVE  segments[i].item < sent[turn] + 1
    OBVIOUS
  <2>1. segments[i] \in Segment
    BY DEF TurnInv, TypeOK
  <2>2. segments[i].item \in 1..MaxItems
    BY <2>1 DEF Segment
  <2>3. Said(segments, segments[i].item)
    BY DEF Said
  <2>4. turn > 0
    BY <1>1, LLMAssumption DEF Turns
  <2>5. segments[i].item <= sent[turn]
    BY <2>2, <2>3, <2>4 DEF TurnInv, SentPart
  <2>. QED  BY <1>2, <2>2, <2>5, LLMAssumption
<1>5. /\ segments' \in Seq(Segment) /\ Ordered(segments')
      /\ \A v : Said(segments', v) <=> Said(segments, v) \/ v = sent[turn] + 1
  <2>1. segments \in Seq(Segment) /\ Ordered(segments) /\ s.kind = "item"
        /\ s.item = sent[turn] + 1
    BY DEF TurnInv, TypeOK, SentPart
  <2>. HIDE DEF s
  <2>2. /\ segments' \in Seq(Segment) /\ Ordered(segments')
        /\ \A v : Said(segments', v) <=> Said(segments, v) \/ (s.kind = "item" /\ s.item = v)
    BY <1>1, <1>3, <1>4, <2>1, SegmentRecorded
  <2>. QED  BY <2>1, <2>2
<1>. HIDE DEF s
<1>6. TypeOK'
  BY <1>1, <1>2, <1>5 DEF TurnInv, TypeOK
<1>7. CountPart' /\ KillPart'
  BY <1>1 DEF TurnInv, CountPart, KillPart
<1>8. CurrentPart'
  BY <1>1 DEF TurnInv, CurrentPart
<1>9. SentPart'
  <2>1. \A t \in Turns : t > turn => sent'[t] = 0 /\ t \notin written
    BY <1>1, <1>2, LLMAssumption DEF TurnInv, SentPart, Turns
  <2>2. turn > 0 /\ turn # 0
    BY <1>1, LLMAssumption DEF Turns
  <2>3. \A v \in 1..MaxItems : Said(segments', v) <=> v <= sent'[turn]
    <3>1. \A v \in 1..MaxItems : Said(segments, v) <=> v <= sent[turn]
      BY <2>2 DEF TurnInv, SentPart
    <3>. QED  BY <1>2, <1>5, <3>1, LLMAssumption
  <2>4. sent'[turn] <= MaxItems
    BY <1>2, LLMAssumption
  <2>. QED  BY <1>1, <1>5, <2>1, <2>2, <2>3, <2>4 DEF SentPart
<1>10. FilePart'
  BY <1>1 DEF TurnInv, FilePart, MarkersEnd
<1>. QED  BY <1>6, <1>7, <1>8, <1>9, <1>10 DEF TurnInv

\* A round of tool calls says nothing.
LEMMA ConsumeToolsKeeps == TurnInv /\ ConsumeTools => TurnInv'
<1>. SUFFICES ASSUME TurnInv, ConsumeTools PROVE TurnInv'
  OBVIOUS
<1>. DEFINE s == [kind |-> "tools", item |-> 0]
<1>1. /\ pc = "poll" /\ pc' = "gen" /\ pending' = None /\ current # None /\ turn \in Turns
      /\ segments' = Append(segments, s) /\ again' = TRUE
      /\ UNCHANGED <<lastTs, prompts, asked, control, controls, current, watermark, killed,
                     voided, round, turn, span, loaded, file, written, repairable, sent>>
  BY Proceeds DEF ConsumeTools
<1>2. s \in Segment /\ s.kind # "item"
  BY DEF Segment
<1>. HIDE DEF s
<1>3. /\ segments' \in Seq(Segment) /\ Ordered(segments')
      /\ \A v : Said(segments', v) <=> Said(segments, v)
  <2>1. segments \in Seq(Segment) /\ Ordered(segments)
    BY DEF TurnInv, TypeOK, SentPart
  <2>2. /\ segments' \in Seq(Segment) /\ Ordered(segments')
        /\ \A v : Said(segments', v) <=> Said(segments, v) \/ (s.kind = "item" /\ s.item = v)
    BY <1>1, <1>2, <2>1, SegmentRecorded
  <2>. QED  BY <1>2, <2>2
<1>4. TypeOK'
  BY <1>1, <1>3 DEF TurnInv, TypeOK
<1>5. CountPart' /\ KillPart'
  BY <1>1 DEF TurnInv, CountPart, KillPart
<1>6. CurrentPart'
  BY <1>1 DEF TurnInv, CurrentPart
<1>7. SentPart'
  <2>1. turn # 0
    BY <1>1, LLMAssumption DEF Turns
  <2>. QED  BY <1>1, <1>3, <2>1 DEF TurnInv, SentPart
<1>8. FilePart'
  BY <1>1 DEF TurnInv, FilePart, MarkersEnd
<1>. QED  BY <1>4, <1>5, <1>6, <1>7, <1>8 DEF TurnInv

\* Another round of the same turn.
LEMMA NextRoundKeeps == TurnInv /\ NextRound => TurnInv'
<1>. SUFFICES ASSUME TurnInv, NextRound PROVE TurnInv'
  OBVIOUS
<1>1. /\ round < LoopNum /\ round' = round + 1 /\ again' = FALSE
      /\ UNCHANGED <<lastTs, prompts, asked, control, controls, nodeVars, pending, turn,
                     harnessVars, repairable, sent>>
  BY DEF NextRound
<1>2. TypeOK'
  <2>1. round' \in 0..LoopNum
    <3>1. round \in 0..LoopNum
      BY DEF TurnInv, TypeOK
    <3>. QED  BY <1>1, <3>1, LLMAssumption
  <2>. QED  BY <1>1, <2>1 DEF TurnInv, TypeOK, nodeVars, harnessVars
<1>3. CountPart' /\ KillPart'
  BY <1>1 DEF TurnInv, CountPart, KillPart, nodeVars
<1>4. CurrentPart'
  BY <1>1 DEF TurnInv, CurrentPart, nodeVars, harnessVars
<1>5. SentPart'
  BY <1>1 DEF TurnInv, SentPart, nodeVars, harnessVars, Said, Ordered
<1>6. FilePart'
  BY <1>1 DEF TurnInv, FilePart, nodeVars, harnessVars, MarkersEnd
<1>. QED  BY <1>2, <1>3, <1>4, <1>5, <1>6 DEF TurnInv

\* A turn that runs to its end is written as it was sent, and may be repaired.
LEMMA FinishKeeps == TurnInv /\ Finish => TurnInv'
<1>. SUFFICES ASSUME TurnInv, Finish PROVE TurnInv'
  OBVIOUS
<1>1. /\ pc = "gen" /\ Commit(FALSE) /\ repairable' = turn /\ current' = None /\ pc' = "top"
      /\ UNCHANGED <<lastTs, prompts, asked, control, controls, watermark, killed, voided,
                     genVars, turn, segments, sent>>
  BY DEF Finish
<1>2. current # None
  BY <1>1 DEF TurnInv, CurrentPart
<1>3. /\ turn \in Turns /\ span' \in 0..Len(file') /\ loaded' = file'
      /\ file' \in Seq(Message) /\ MarkersEnd(file') /\ written' = written \cup {turn}
      /\ \A i \in DOMAIN file' : file'[i].turn <= turn
                                 /\ (file'[i].turn = turn <=> i > span')
  <2>1. FALSE \in BOOLEAN
    OBVIOUS
  <2>. QED  BY <1>1, <1>2, <2>1, CommitWrites
<1>4. TypeOK'
  BY <1>1, <1>3 DEF TurnInv, TypeOK, genVars
<1>5. CountPart' /\ KillPart'
  BY <1>1 DEF TurnInv, CountPart, KillPart
<1>6. CurrentPart'
  BY <1>1 DEF CurrentPart
<1>7. SentPart'
  <2>1. \A t \in Turns : t > turn => t \notin written'
    BY <1>3, LLMAssumption DEF TurnInv, SentPart, Turns
  <2>. QED  BY <1>1, <1>3, <2>1 DEF TurnInv, SentPart, genVars, Said, Ordered
<1>8. FilePart'
  BY <1>1, <1>3 DEF FilePart
<1>. QED  BY <1>4, <1>5, <1>6, <1>7, <1>8 DEF TurnInv

-------------------------------------------------------------------------------
(* The invariant holds.                                                      *)

\* At the start no turn has begun.
LEMMA TurnStart == Init => TurnInv
<1>. SUFFICES ASSUME Init PROVE TurnInv
  OBVIOUS
<1>1. TypeOK
  <2>1. /\ prompts \in Seq(Stamps) /\ control \in Seq(Control) /\ segments \in Seq(Segment)
        /\ loaded \in Seq(Message) /\ file \in Seq(Message)
    BY DEF Init
  <2>2. /\ 0 \in 0..LoopNum /\ 0 \in 0..MaxTurns /\ 0 \in Nat
    BY LLMAssumption
  <2>3. sent \in [Turns -> Nat] /\ written \in SUBSET Turns
    BY <2>2 DEF Init
  <2>. QED  BY <2>1, <2>2, <2>3 DEF Init, TypeOK
<1>2. CountPart /\ KillPart /\ CurrentPart
  BY LLMAssumption DEF Init, CountPart, KillPart, KillFollows, CurrentPart
<1>3. SentPart
  BY LLMAssumption DEF Init, SentPart, Ordered
<1>4. FilePart
  BY DEF Init, FilePart, MarkersEnd
<1>. QED  BY <1>1, <1>2, <1>3, <1>4 DEF TurnInv

\* Every step keeps the invariant.
LEMMA TurnStep == TurnInv /\ [Next]_vars => TurnInv'
<1>. SUFFICES ASSUME TurnInv, [Next]_vars PROVE TurnInv'
  OBVIOUS
<1>1. CASE Client
  BY <1>1, ClientKeeps
<1>2. CASE ReadCancel
  BY <1>2, CancelKeeps
<1>3. CASE ReadKill
  BY <1>3, KillKeeps
<1>4. CASE ReadReport
  BY <1>4, ReportKeeps
<1>5. CASE Wait \/ Timeout \/ Discard
  BY <1>5, LoopKeeps
<1>6. CASE Begin
  BY <1>6, BeginKeeps
<1>7. CASE \E kind \in {"empty", "item", "tools"} : Yield(kind)
  BY <1>7, YieldKeeps
<1>8. CASE Abort
  BY <1>8, AbortKeeps
<1>9. CASE ConsumeEmpty
  BY <1>9, ConsumeEmptyKeeps
<1>10. CASE ConsumeItem
  BY <1>10, ConsumeItemKeeps
<1>11. CASE ConsumeTools
  BY <1>11, ConsumeToolsKeeps
<1>12. CASE NextRound
  BY <1>12, NextRoundKeeps
<1>13. CASE Finish
  BY <1>13, FinishKeeps
<1>14. CASE UNCHANGED vars
  <2>1. TypeOK'
    BY <1>14 DEF TurnInv, TypeOK, vars, nodeVars, genVars, harnessVars
  <2>2. CountPart' /\ KillPart'
    BY <1>14 DEF TurnInv, CountPart, KillPart, vars, nodeVars
  <2>3. CurrentPart'
    BY <1>14 DEF TurnInv, CurrentPart, vars, nodeVars, harnessVars
  <2>4. SentPart'
    BY <1>14 DEF TurnInv, SentPart, vars, nodeVars, genVars, harnessVars, Said, Ordered
  <2>5. FilePart'
    BY <1>14 DEF TurnInv, FilePart, vars, nodeVars, harnessVars, MarkersEnd
  <2>. QED  BY <2>1, <2>2, <2>3, <2>4, <2>5 DEF TurnInv
<1>. QED
  BY <1>1, <1>2, <1>3, <1>4, <1>5, <1>6, <1>7, <1>8, <1>9, <1>10, <1>11, <1>12, <1>13, <1>14
     DEF Next, Node

\* The inductive invariant of the language-model node.
LEMMA TurnInvariant == Spec => []TurnInv
<1>. QED  BY TurnStart, TurnStep, PTL DEF Spec

\* LLMTurn's variables always have their types: no interleaving of prompts, cancels,
\* reports and the generator takes a value out of its range.
THEOREM TurnTypes == Spec => []TypeOK
<1>1. TurnInv => TypeOK
  BY DEF TurnInv
<1>. QED  BY <1>1, TurnInvariant, PTL

\* Between turns, the newest turn is in the history when any sentence of it was sent.
THEOREM NothingIsForgotten == Spec => []NothingSentIsForgotten
<1>1. TurnInv => NothingSentIsForgotten
  BY DEF TurnInv, CurrentPart, SentPart, NothingSentIsForgotten
<1>. QED  BY <1>1, TurnInvariant, PTL

\* The interruption marker is the last a turn has in the history, also after repairs.
THEOREM MarkersEndTurns == Spec => []MarkerEndsItsTurn
<1>1. TurnInv => MarkerEndsItsTurn
  BY DEF TurnInv, FilePart, MarkersEnd, MarkerEndsItsTurn
<1>. QED  BY <1>1, TurnInvariant, PTL
-------------------------------------------------------------------------------
(* The history keeps the transcript's promise.                               *)

\* What a history tells of a turn, as a set.
ToldBy(h, t) == UNION {ToSet(h[i].items) : i \in {j \in DOMAIN h : h[j].turn = t}}

\* The transcript's told and repairable, as the node's state gives them.
Spoken == [t \in Turns |-> Told(t)]
Open   == IF repairable = None THEN {} ELSE {repairable}

\* The set of what is told has the sentences the messages have.
LEMMA ToldTells ==
    ASSUME NEW h, NEW t, NEW v
    PROVE  v \in ToldBy(h, t) <=> TellsOf(h, t, v)
<1>1. ASSUME v \in ToldBy(h, t) PROVE TellsOf(h, t, v)
  <2>1. PICK i \in DOMAIN h : h[i].turn = t /\ v \in ToSet(h[i].items)
    BY <1>1 DEF ToldBy
  <2>2. Has(h[i].items, v)
    BY <2>1 DEF ToSet, Has
  <2>. QED  BY <2>1, <2>2 DEF TellsOf
<1>2. ASSUME TellsOf(h, t, v) PROVE v \in ToldBy(h, t)
  <2>1. PICK i \in DOMAIN h : h[i].turn = t /\ Has(h[i].items, v)
    BY <1>2 DEF TellsOf
  <2>2. v \in ToSet(h[i].items)
    BY <2>1 DEF ToSet, Has
  <2>. QED  BY <2>1, <2>2 DEF ToldBy
<1>. QED  BY <1>1, <1>2

\* What the newest turn said is what was sent.
LEMMA SaidIsSent ==
    ASSUME TurnInv, turn > 0
    PROVE  /\ sent[turn] \in Nat
           /\ \A v : Said(segments, v) <=> v \in 1..sent[turn]
<1>1. turn \in Turns /\ sent[turn] \in Nat /\ sent[turn] <= MaxItems
  BY LLMAssumption DEF TurnInv, TypeOK, SentPart, Turns
<1>2. ASSUME NEW v, Said(segments, v) PROVE v \in 1..MaxItems
  <2>1. PICK i \in DOMAIN segments : segments[i].kind = "item" /\ segments[i].item = v
    BY <1>2 DEF Said
  <2>2. segments[i] \in Segment
    BY DEF TurnInv, TypeOK
  <2>. QED  BY <2>1, <2>2 DEF Segment
<1>3. \A v \in 1..MaxItems : Said(segments, v) <=> v <= sent[turn]
  BY DEF TurnInv, SentPart
<1>. QED  BY <1>1, <1>2, <1>3, LLMAssumption

\* No turn is newer than the newest.
LEMMA NewestTurn == TurnInv => \A t \in Turns : t > turn => t \notin written /\ sent[t] = 0
  BY DEF TurnInv, SentPart

\* What is unchanged in the node is unchanged for the transcript.
LEMMA TranscriptStays ==
    /\ UNCHANGED file => UNCHANGED Spoken
    /\ UNCHANGED repairable => UNCHANGED Open
BY DEF Spoken, Told, Open

\* A turn's conclusion writes the turn, whole.
LEMMA WriteMaps ==
    ASSUME TurnInv, current # None, NEW interrupted \in BOOLEAN, Commit(interrupted),
           repairable' = turn, UNCHANGED sent
    PROVE  turn \in Turns /\ History!Write(turn)
<1>1. /\ turn \in Turns /\ written' = written \cup {turn}
      /\ \A v : TellsOf(file', turn, v) <=> Said(segments, v)
      /\ \A u, v : u # turn => (TellsOf(file', u, v) => TellsOf(file, u, v))
  BY CommitWrites
<1>2. turn > 0 /\ turn # None
  BY <1>1, LLMAssumption DEF Turns
<1>3. \A t \in Turns : Spoken[t] = ToldBy(file, t) /\ Spoken'[t] = ToldBy(file', t)
  BY DEF Spoken, Told, ToldBy
<1>4. Spoken'[turn] = 1..sent[turn]
  <2>1. \A v : v \in ToldBy(file', turn) <=> v \in 1..sent[turn]
    BY <1>1, <1>2, ToldTells, SaidIsSent
  <2>. QED  BY <1>1, <1>3, <2>1
<1>5. \A u \in Turns \ {turn} : Spoken'[u] \subseteq Spoken[u]
  <2>. SUFFICES ASSUME NEW u \in Turns, u # turn PROVE ToldBy(file', u) \subseteq ToldBy(file, u)
    BY <1>3
  <2>. QED  BY <1>1, ToldTells
<1>6. turn \notin written /\ Open' = {turn}
  BY <1>2 DEF TurnInv, CurrentPart, Open
<1>7. History!Newest(turn)
  BY NewestTurn DEF History!Newest
<1>. QED  BY <1>1, <1>4, <1>5, <1>6, <1>7 DEF History!Write, Spoken, Open

\* A report that is taken shortens the newest turn.
LEMMA RepairMaps ==
    ASSUME TurnInv, ReadReport, Repairs(Head(control))
    PROVE  turn \in Turns /\ \E kept \in 0..sent[turn] : History!Repair(turn, kept)
<1>. DEFINE kept == Larger(Head(control).item - 1, 0)
<1>1. /\ Refine(kept) /\ repairable' = None /\ UNCHANGED <<segments, span, written, sent>>
      /\ Read("report")
  BY DEF ReadReport
<1>2. /\ Head(control).turn \in Turns /\ Head(control).item \in Sentences \cup {0}
      /\ repairable = Head(control).turn
  <2>1. Head(control) \in Control /\ Head(control).verb = "report"
    BY <1>1, ReadTypes DEF TurnInv
  <2>. QED  BY <2>1 DEF Control, Repairs
<1>3. repairable # None /\ turn \in Turns /\ turn > 0 /\ Open = {turn}
  <2>1. repairable # None
    BY <1>2, LLMAssumption DEF Turns
  <2>2. repairable = turn
    BY <2>1 DEF TurnInv, FilePart
  <2>. QED  BY <1>2, <2>1, <2>2, LLMAssumption DEF Turns, Open
<1>4. sent[turn] \in Nat /\ \A v : Said(segments, v) <=> v \in 1..sent[turn]
  BY <1>3, SaidIsSent
<1>5. kept \in 0..sent[turn]
  <2>1. \A x \in Sentences : Said(segments, x)
    BY DEF Sentences, Said
  <2>2. Head(control).item \in 0..sent[turn]
    BY <1>2, <1>4, <2>1
  <2>. QED  BY <1>4, <2>2 DEF Larger
<1>. HIDE DEF kept
<1>6. /\ \A v : TellsOf(file', turn, v) <=> Said(segments, v) /\ v <= kept
      /\ \A u, v : u # turn => (TellsOf(file', u, v) <=> TellsOf(file, u, v))
  <2>1. kept \in Nat
    BY <1>4, <1>5
  <2>. QED  BY <1>1, <1>3, <2>1, RefineWrites
<1>7. \A t \in Turns : Spoken[t] = ToldBy(file, t) /\ Spoken'[t] = ToldBy(file', t)
  BY DEF Spoken, Told, ToldBy
<1>8. Spoken'[turn] = 1..kept
  <2>1. \A v : v \in ToldBy(file', turn) <=> v \in 1..sent[turn] /\ v <= kept
    BY <1>4, <1>6, ToldTells
  <2>2. \A v : v \in 1..sent[turn] /\ v <= kept <=> v \in 1..kept
    BY <1>4, <1>5
  <2>3. ToldBy(file', turn) = 1..kept
    BY <2>1, <2>2
  <2>. QED  BY <1>3, <1>7, <2>3
<1>9. \A u \in Turns : u # turn => Spoken'[u] = Spoken[u]
  <2>. SUFFICES ASSUME NEW u \in Turns, u # turn PROVE ToldBy(file', u) = ToldBy(file, u)
    BY <1>7
  <2>1. \A v : v \in ToldBy(file', u) <=> v \in ToldBy(file, u)
    <3>. TAKE v
    <3>1. v \in ToldBy(file', u) <=> TellsOf(file', u, v)
      BY ToldTells
    <3>2. v \in ToldBy(file, u) <=> TellsOf(file, u, v)
      BY ToldTells
    <3>. QED  BY <1>6, <3>1, <3>2
  <2>. DEFINE x == ToldBy(file', u)
              y == ToldBy(file, u)
  <2>2. \A v : v \in x <=> v \in y
    BY <2>1
  <2>. HIDE DEF x, y
  <2>3. x = y
    BY <2>2
  <2>. QED  BY <2>3 DEF x, y
<1>10. Spoken' = [Spoken EXCEPT ![turn] = 1..kept]
  BY <1>3, <1>8, <1>9 DEF Spoken
<1>11. Open' = {} /\ kept <= sent[turn]
  BY <1>1, <1>4, <1>5 DEF Open
<1>12. History!Newest(turn)
  BY NewestTurn DEF History!Newest
<1>13. History!Repair(turn, kept)
  BY <1>1, <1>3, <1>10, <1>11, <1>12 DEF History!Repair, Spoken, Open
<1>. QED  BY <1>3, <1>5, <1>13

\* A sentence that is sent is said, in a turn that is not written yet.
LEMMA SayMaps ==
    ASSUME TurnInv, ConsumeItem
    PROVE  turn \in Turns /\ History!Say(turn)
<1>1. current # None /\ turn \in Turns
  BY Proceeds DEF ConsumeItem
<1>2. turn \notin written /\ repairable = None
  BY <1>1 DEF TurnInv, CurrentPart
<1>3. sent' = [sent EXCEPT ![turn] = @ + 1] /\ UNCHANGED <<file, written, repairable>>
  BY DEF ConsumeItem
<1>4. History!Newest(turn)
  BY NewestTurn DEF History!Newest
<1>. QED  BY <1>1, <1>2, <1>3, <1>4, TranscriptStays DEF History!Say, Spoken, Open

\* Every step of the node is a step of the transcript, or none.
LEMMA TranscriptStep ==
    TurnInv /\ [Next]_vars => [History!Next]_<<sent, written, Spoken, Open>>
<1>. SUFFICES ASSUME TurnInv, [Next]_vars,
                     ~UNCHANGED <<sent, written, Spoken, Open>>
              PROVE  History!Next
  OBVIOUS
<1>1. ~UNCHANGED <<sent, written, file, repairable>>
  BY TranscriptStays
<1>2. CASE ReadCancel
  <2>1. Hits(Head(control).ts) /\ CustomCancel /\ UNCHANGED sent
    BY <1>1, <1>2 DEF ReadCancel, harnessVars
  <2>2. current # None /\ segments # <<>> /\ Commit(TRUE) /\ repairable' = turn
    BY <1>1, <2>1 DEF Hits, CustomCancel, harnessVars
  <2>3. TRUE \in BOOLEAN
    OBVIOUS
  <2>. QED  BY <2>1, <2>2, <2>3, WriteMaps DEF History!Next
<1>3. CASE ReadReport
  <2>1. Repairs(Head(control))
    BY <1>1, <1>3 DEF ReadReport, harnessVars
  <2>. QED  BY <1>3, <2>1, RepairMaps DEF History!Next
<1>4. CASE Begin
  <2>1. repairable' = None /\ UNCHANGED <<file, written, sent>>
    BY <1>4 DEF Begin
  <2>2. Open' = {} /\ UNCHANGED <<sent, written, Spoken>>
    BY <2>1, TranscriptStays DEF Open
  <2>. QED  BY <2>2 DEF History!Next, History!Expire, Spoken, Open
<1>5. CASE ConsumeItem
  BY <1>5, SayMaps DEF History!Next
<1>6. CASE Finish
  <2>1. pc = "gen" /\ Commit(FALSE) /\ repairable' = turn /\ UNCHANGED sent
    BY <1>6 DEF Finish
  <2>2. current # None /\ FALSE \in BOOLEAN
    BY <2>1 DEF TurnInv, CurrentPart
  <2>. QED  BY <2>1, <2>2, WriteMaps DEF History!Next
<1>7. CASE Client
  BY <1>1, <1>7, ClientTypes DEF harnessVars
<1>8. CASE ReadKill \/ Wait \/ Timeout \/ Discard
  BY <1>1, <1>8 DEF ReadKill, Wait, Timeout, Discard, harnessVars
<1>9. CASE \/ \E kind \in {"empty", "item", "tools"} : Yield(kind)
           \/ Abort \/ ConsumeEmpty \/ ConsumeTools \/ NextRound
  BY <1>1, <1>9 DEF Yield, Abort, ConsumeEmpty, ConsumeTools, NextRound, harnessVars
<1>10. CASE UNCHANGED vars
  BY <1>1, <1>10 DEF vars, harnessVars
<1>. QED
  BY <1>2, <1>3, <1>4, <1>5, <1>6, <1>7, <1>8, <1>9, <1>10 DEF Next, Node

\* The history's file keeps the transcript's promise: each turn is written once, with
\* exactly the sentences the client was sent, whichever way it ends, and only the
\* newest is shortened, once, by a playback report.
THEOREM TranscriptIsKept == Spec => KeepsTranscript
<1>1. Init => History!Init
  <2>. SUFFICES ASSUME Init PROVE History!Init
    OBVIOUS
  <2>1. \A t \in Turns : Told(t) = {}
    BY DEF Init, Told
  <2>. QED  BY <2>1 DEF Init, History!Init
<1>2. TurnInv /\ [Next]_vars => [History!Next]_<<sent, written, Spoken, Open>>
  BY TranscriptStep
<1>. QED  BY <1>1, <1>2, TurnInvariant, PTL DEF Spec, KeepsTranscript, History!Spec, Spoken, Open

===============================================================================
