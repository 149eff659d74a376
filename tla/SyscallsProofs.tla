---------------------------- MODULE SyscallsProofs ----------------------------
(***************************************************************************)
(* What newlib's calls lead to: _write() and the console it shares with the *)
(* interrupt handlers (Console), and the heap of _sbrk() (Sbrk), for every  *)
(* text, key, buffer size, number of lines and interrupts, and every heap.  *)
(*                                                                         *)
(* What the line carries is built by FlattenSeq from what was printed, a    *)
(* recursive function.  So the proof begins with induction on the natural   *)
(* numbers and on sequences, as statements about a set that holds 0 and the *)
(* successor of each of its members, and with what FlattenSeq gives for one *)
(* part more; then come the operators of Uart, and the invariant of Console *)
(* part by part: types, polls, streams, echoes.                             *)
(***************************************************************************)
EXTENDS Console, Sbrk, SequenceTheorems, WellFoundedInduction, TLAPS

-----------------------------------------------------------------------------
\* Induction, and sequences of sequences.

\* A set of natural numbers that is not empty has a least element.
LEMMA LeastElement ==
  ASSUME NEW S, S \subseteq Nat, S # {}
  PROVE  \E m \in S : \A k \in S : m <= k
<1> DEFINE R == {p \in Nat \X Nat : p[1] < p[2]}
<1>1. IsWellFoundedOn(R, Nat)
  BY NatLessThanWellFounded DEF OpToRel
<1>2. PICK m \in S : \A k \in S : <<k, m>> \notin R
  <2> HIDE DEF R
  <2> QED  BY <1>1, WFMin
<1>3. ASSUME NEW k \in S PROVE m <= k
  <2>1. <<k, m>> \in Nat \X Nat  OBVIOUS
  <2>2. ~(<<k, m>>[1] < <<k, m>>[2])  BY <1>2, <2>1
  <2> QED  BY <2>2
<1> QED  BY <1>3

\* Induction: the numbers for which something holds, among them 0 and the next of each, are all.
LEMMA Induction ==
  ASSUME NEW H, 0 \in H, \A n \in Nat : n \in H => n + 1 \in H
  PROVE  \A n \in Nat : n \in H
<1> SUFFICES ASSUME NEW z \in Nat, z \notin H PROVE FALSE
  OBVIOUS
<1>1. PICK m \in Nat \ H : \A k \in Nat \ H : m <= k
  <2>1. Nat \ H # {} /\ Nat \ H \subseteq Nat  OBVIOUS
  <2> QED  BY <2>1, LeastElement
<1>2. m # 0 /\ m - 1 \in Nat  OBVIOUS
<1>3. m - 1 \in H  BY <1>1, <1>2
<1> QED  BY <1>2, <1>3

\* What FlattenSeq has put together when it has come to the i-th sequence
Flat(s, g) == g = [i \in 1 .. Len(s) |-> IF i = 1 THEN s[i] ELSE g[i - 1] \o s[i]]

\* Its first value and each next one
LEMMA FlatStep ==
  ASSUME NEW S, NEW s \in Seq(Seq(S)), NEW g, Flat(s, g)
  PROVE  /\ Len(s) > 0 => g[1] = s[1]
         /\ \A i \in 1 .. Len(s) : i + 1 <= Len(s) => g[i + 1] = g[i] \o s[i + 1]
<1>1. \A i \in 1 .. Len(s) : g[i] = IF i = 1 THEN s[i] ELSE g[i - 1] \o s[i]
  BY Zenon DEF Flat
<1>2. ASSUME Len(s) > 0 PROVE g[1] = s[1]
  <2>1. 1 \in 1 .. Len(s)  BY <1>2
  <2> QED  BY <1>1, <2>1, Zenon
<1>3. ASSUME NEW i \in 1 .. Len(s), i + 1 <= Len(s) PROVE g[i + 1] = g[i] \o s[i + 1]
  <2>1. i + 1 \in 1 .. Len(s) /\ i + 1 # 1 /\ (i + 1) - 1 = i
    BY <1>3
  <2>2. g[i + 1] = IF i + 1 = 1 THEN s[i + 1] ELSE g[(i + 1) - 1] \o s[i + 1]
    BY <1>1, <2>1, Zenon
  <2>3. g[(i + 1) - 1] = g[i]
    BY <2>1
  <2> QED  BY <2>1, <2>2, <2>3, Zenon
<1> QED  BY <1>2, <1>3

\* FlattenSeq takes its result from one such function, whichever CHOOSE picks.
LEMMA FlattenChoice ==
  ASSUME NEW s, Len(s) # 0, NEW f, Flat(s, f)
  PROVE  \E g : Flat(s, g) /\ FlattenSeq(s) = g[Len(s)]
<1>1. FlattenSeq(s) = (CHOOSE g : Flat(s, g))[Len(s)]
  BY Zenon DEF FlattenSeq, Flat
<1>2. Flat(s, CHOOSE g : Flat(s, g))
  BY Zenon
<1> QED  BY <1>1, <1>2

\* The function s is the beginning of t.
Begins(s, t) == Len(s) <= Len(t) /\ \A i \in 1 .. Len(s) : s[i] = t[i]

\* One of a sequence agrees with one of a longer sequence that begins with it.
LEMMA FlatAgree ==
  ASSUME NEW S, NEW s \in Seq(Seq(S)), NEW t \in Seq(Seq(S)), NEW g, NEW h,
         Flat(s, g), Flat(t, h), Begins(s, t)
  PROVE  \A i \in 1 .. Len(s) : g[i] = h[i]
<1> DEFINE H == {i \in Nat : i \in 1 .. Len(s) => g[i] = h[i]}
<1>1. 0 \in H  OBVIOUS
<1>2. ASSUME NEW i \in Nat, i \in H PROVE i + 1 \in H
  <2> SUFFICES ASSUME i + 1 \in 1 .. Len(s) PROVE g[i + 1] = h[i + 1]
    OBVIOUS
  <2>1. CASE i = 0
    <3>1. Len(s) > 0 /\ Len(t) > 0 /\ i + 1 = 1 /\ s[1] = t[1]  BY <2>1 DEF Begins
    <3>2. g[1] = s[1] /\ h[1] = t[1]  BY <3>1, FlatStep
    <3> QED  BY <3>1, <3>2
  <2>2. CASE i # 0
    <3>1. i \in 1 .. Len(s) /\ i \in 1 .. Len(t) /\ i + 1 <= Len(s) /\ i + 1 <= Len(t)
      BY <2>2 DEF Begins
    <3>2. g[i + 1] = g[i] \o s[i + 1]  BY <3>1, FlatStep
    <3>3. h[i + 1] = h[i] \o t[i + 1]  BY <3>1, FlatStep
    <3>4. g[i] = h[i] /\ s[i + 1] = t[i + 1]  BY <1>2, <3>1 DEF Begins
    <3> QED  BY <3>2, <3>3, <3>4
  <2> QED  BY <2>1, <2>2
<1>3. \A i \in Nat : i \in H
  <2> HIDE DEF H
  <2> QED  BY <1>1, <1>2, Induction
<1> QED  BY <1>3

\* For every sequence of sequences there is one.
LEMMA FlatExists ==
  ASSUME NEW S, NEW s \in Seq(Seq(S))
  PROVE  \E g \in [1 .. Len(s) -> Seq(S)] : Flat(s, g)
<1> DEFINE Upto(n, g) == g = [i \in 1 .. n |-> IF i = 1 THEN s[i] ELSE g[i - 1] \o s[i]]
           H == {n \in Nat : n <= Len(s) => \E g \in [1 .. n -> Seq(S)] : Upto(n, g)}
<1>1. 0 \in H
  <2>1. [i \in 1 .. 0 |-> <<>>] \in [1 .. 0 -> Seq(S)]  OBVIOUS
  <2>2. PICK g \in [1 .. 0 -> Seq(S)] : TRUE  BY <2>1
  <2>3. Upto(0, g) OBVIOUS
  <2> QED  BY <2>3
<1>2. ASSUME NEW n \in Nat, n \in H PROVE n + 1 \in H
  <2>0. ASSUME n + 1 <= Len(s) PROVE  \E g \in [1 .. n + 1 -> Seq(S)] : Upto(n + 1, g)
    <3>1. PICK f \in [1 .. n -> Seq(S)] : Upto(n, f)
      <4>1. n <= Len(s)  BY <2>0
      <4> HIDE DEF Upto
      <4> QED  BY <1>2, <4>1
    <3>a. \A i \in 1 .. n : f[i] = IF i = 1 THEN s[i] ELSE f[i - 1] \o s[i]
      BY <3>1, Zenon
    <3> HIDE DEF Upto
    <3> DEFINE g == [i \in 1 .. n + 1 |-> IF i = 1 THEN s[i] ELSE f[i - 1] \o s[i]]
    <3>2. \A i \in 1 .. n + 1 : s[i] \in Seq(S)  BY <2>0
    <3>3. \A i \in 1 .. n + 1 : i # 1 => i - 1 \in 1 .. n  OBVIOUS
    <3>4. g \in [1 .. n + 1 -> Seq(S)]
      <4> SUFFICES ASSUME NEW i \in 1 .. n + 1
                   PROVE  (IF i = 1 THEN s[i] ELSE f[i - 1] \o s[i]) \in Seq(S)
        OBVIOUS
      <4>1. CASE i = 1  BY <4>1, <3>2
      <4>2. CASE i # 1  
        <5>1. f[i - 1] \in Seq(S)  BY <4>2, <3>3
        <5> QED  BY <4>2, <5>1, <3>2
      <4> QED  BY <4>1, <4>2
    <3>5. \A i \in 1 .. n : g[i] = f[i]  
      <4>1. \A i \in 1 .. n : i \in 1 .. n + 1  OBVIOUS
      <4> QED  BY <3>a, <4>1, Zenon
    <3>6. \A i \in 1 .. n + 1 : (IF i = 1 THEN s[i] ELSE f[i - 1] \o s[i])
                                  = (IF i = 1 THEN s[i] ELSE g[i - 1] \o s[i])
      <4> HIDE DEF g
      <4> QED  BY <3>5, <3>3, Zenon
    <3>7. Upto(n + 1, g)
      <4>1. g = [i \in 1 .. n + 1 |-> IF i = 1 THEN s[i] ELSE f[i - 1] \o s[i]]  OBVIOUS
      <4> HIDE DEF g
      <4> QED  BY <4>1, <3>6, Zenon DEF Upto
    <3> HIDE DEF g
    <3> QED  BY <3>4, <3>7
  <2> HIDE DEF Upto
  <2> QED  BY <2>0
<1>3. Len(s) \in H
  <2>1. \A n \in Nat : n \in H
    <3> HIDE DEF H
    <3> QED  BY <1>1, <1>2, Induction
  <2> HIDE DEF H
  <2> QED  BY <2>1
<1>4. PICK g \in [1 .. Len(s) -> Seq(S)] : Upto(Len(s), g)
  <2> HIDE DEF Upto
  <2> QED  BY <1>3
<1>5. Flat(s, g)
  BY <1>4, Zenon DEF Flat
<1> HIDE DEF Upto
<1> QED  BY <1>5

\* Of no sequences it makes the empty one,
LEMMA FlattenEmpty == FlattenSeq(<< >>) = << >>
BY Len(<< >>) = 0 DEF FlattenSeq

\* Sequences may be put together from either end.
InTurn(x, y, z) == (x \o y) \o z = x \o (y \o z)

LEMMA OneBehindTheOther ==
  ASSUME NEW S, NEW x \in Seq(S), NEW y \in Seq(S), NEW z \in Seq(S)
  PROVE  InTurn(x, y, z)
BY ConcatAssociative DEF InTurn

\* What FlattenSeq returns is the last value of such a function.
LEMMA FlattenIsFlat ==
  ASSUME NEW S, NEW s \in Seq(Seq(S)), s # << >>
  PROVE  /\ Len(s) \in Nat /\ Len(s) > 0
         /\ \E g \in [1 .. Len(s) -> Seq(S)] : Flat(s, g) /\ FlattenSeq(s) = g[Len(s)]
<1>1. Len(s) \in Nat /\ Len(s) > 0  OBVIOUS
<1>2. PICK f \in [1 .. Len(s) -> Seq(S)] : Flat(s, f)  BY FlatExists
<1>3. PICK g : Flat(s, g) /\ FlattenSeq(s) = g[Len(s)]  BY <1>1, <1>2, FlattenChoice
<1>4. ASSUME NEW j \in 1 .. Len(s) PROVE f[j] = g[j]
  <2>1. Begins(s, s)  BY <1>1 DEF Begins
  <2> QED  BY <1>2, <1>3, <2>1, FlatAgree
<1>5. FlattenSeq(s) = f[Len(s)]  BY <1>1, <1>3, <1>4
<1> QED  BY <1>1, <1>2, <1>5

\* and so of sequences over a set a sequence over it.
LEMMA FlattenType ==
  ASSUME NEW S, NEW s \in Seq(Seq(S))
  PROVE  FlattenSeq(s) \in Seq(S)
<1>1. CASE s = << >>
  <2>1. << >> \in Seq(S)  OBVIOUS
  <2> QED  BY <1>1, <2>1, FlattenEmpty
<1>2. CASE s # << >>
  <2>1. PICK g \in [1 .. Len(s) -> Seq(S)] : FlattenSeq(s) = g[Len(s)]
    BY <1>2, FlattenIsFlat
  <2>2. Len(s) \in 1 .. Len(s)  BY <1>2, FlattenIsFlat
  <2> QED  BY <2>1, <2>2
<1> QED  BY <1>1, <1>2

\* One sequence more is put behind the others.
LEMMA FlattenAppend ==
  ASSUME NEW S, NEW s \in Seq(Seq(S)), NEW t \in Seq(S)
  PROVE  FlattenSeq(Append(s, t)) = FlattenSeq(s) \o t
<1> DEFINE st == Append(s, t)
<1>1. /\ st \in Seq(Seq(S)) /\ Len(s) \in Nat /\ Len(st) = Len(s) + 1 /\ st[Len(s) + 1] = t
      /\ \A i \in 1 .. Len(s) : st[i] = s[i]
      /\ st # << >>
  OBVIOUS
<1> HIDE DEF st
<1>2. PICK g : Flat(st, g) /\ FlattenSeq(st) = g[Len(st)]
  BY <1>1, FlattenIsFlat
<1>3. CASE s = << >>
  <2>1. Len(s) = 0  BY <1>3
  <2>2. g[1] = st[1]
    <3>1. st \in Seq(Seq(S)) /\ Len(st) > 0  BY <1>1
    <3> QED  BY <1>2, <3>1, FlatStep
  <2>3. FlattenSeq(st) = t  BY <1>1, <1>2, <2>1, <2>2
  <2>4. << >> \o t = t  OBVIOUS
  <2> QED  BY <1>3, <2>3, <2>4, FlattenEmpty DEF st
<1>4. CASE s # << >>
  <2>1. PICK h : Flat(s, h) /\ FlattenSeq(s) = h[Len(s)]
    BY <1>4, FlattenIsFlat
  <2>2. Len(s) \in 1 .. Len(s) /\ Len(s) \in 1 .. Len(st) /\ Len(s) + 1 <= Len(st)
    BY <1>1, <1>4, FlattenIsFlat
  <2>3. \A i \in 1 .. Len(s) : g[i] = h[i]
    <3>1. st \in Seq(Seq(S)) /\ Begins(s, st)  BY <1>1 DEF Begins
    <3>2. Flat(s, h) /\ Flat(st, g)  BY <1>2, <2>1
    <3>3. \A i \in 1 .. Len(s) : h[i] = g[i]  BY <3>1, <3>2, FlatAgree
    <3> QED  BY <3>3
  <2>4. g[Len(s) + 1] = g[Len(s)] \o st[Len(s) + 1]
    <3>1. st \in Seq(Seq(S))  BY <1>1
    <3> QED  BY <1>2, <2>2, <3>1, FlatStep
  <2>5. FlattenSeq(st) = FlattenSeq(s) \o t
    BY <1>1, <1>2, <2>1, <2>2, <2>3, <2>4, Zenon
  <2> QED  BY <2>5 DEF st
<1> QED  BY <1>3, <1>4

-----------------------------------------------------------------------------
\* The operators of Uart.

\* Induction on sequences: what holds for the empty one, and for one character more, holds.
LEMMA SeqInduction ==
  ASSUME NEW C, NEW H, << >> \in H, \A s \in Seq(C), c \in C : s \in H => Append(s, c) \in H
  PROVE  \A s \in Seq(C) : s \in H
<1> DEFINE N == {n \in Nat : \A s \in Seq(C) : Len(s) = n => s \in H}
<1>1. 0 \in N
  <2>1. \A s \in Seq(C) : Len(s) = 0 => s = << >>  OBVIOUS
  <2> QED  BY <2>1
<1>2. ASSUME NEW n \in Nat, n \in N PROVE n + 1 \in N
  <2> SUFFICES ASSUME NEW s \in Seq(C), Len(s) = n + 1 PROVE s \in H
    OBVIOUS
  <2>1. PICK r \in Seq(C), c \in C : s = Append(r, c)
    <3>1. s # << >>  OBVIOUS
    <3> QED  BY <3>1, SequenceEmptyOrAppend
  <2>2. Len(r) = n
    <3>1. Len(Append(r, c)) = Len(r) + 1 /\ Len(r) \in Nat  BY <2>1
    <3> QED  BY <2>1, <3>1
  <2> QED  BY <1>2, <2>1, <2>2
<1>3. \A n \in Nat : n \in N
  <2> HIDE DEF N
  <2> QED  BY <1>1, <1>2, Induction
<1> QED  BY <1>3

-----------------------------------------------------------------------------
\* Both ends of a line are characters.
LEMMA LettersHave == NL \in Letters /\ CR \in Letters
BY DEF Letters

\* The sequences of up to two members.
LEMMA ShortSeqs ==
  ASSUME NEW S, NEW a \in S, NEW b \in S
  PROVE  << >> \in Seq(S) /\ <<a>> \in Seq(S) /\ <<a, b>> \in Seq(S)
OBVIOUS


\* What uart_putc() gives to _uart_putc() for one character is a sequence of characters.
LEMMA BytesType == \A c \in Letters : Bytes(c) \in Seq(Letters)
BY LettersHave, ShortSeqs DEF Bytes

\* Expand and Of are built from the front.
LEMMA ExpandEmpty == Expand(<< >>) = << >>
<1>1. [j \in DOMAIN << >> |-> Bytes(<< >>[j])] = << >>
  OBVIOUS
<1> QED  BY <1>1, FlattenEmpty DEF Expand

\* One more character given to uart_puts() is one more uart_putc().
LEMMA ExpandAppend ==
  ASSUME NEW s \in Seq(Letters), NEW c \in Letters
  PROVE  Expand(s) \in Seq(Letters) /\ Expand(Append(s, c)) = Expand(s) \o Bytes(c)
<1> DEFINE P(t) == [j \in DOMAIN t |-> Bytes(t[j])]
<1>1. \A t \in Seq(Letters) : P(t) \in Seq(Seq(Letters))
  <2> SUFFICES ASSUME NEW t \in Seq(Letters) PROVE P(t) \in Seq(Seq(Letters))
    OBVIOUS
  <2>1. \A j \in 1 .. Len(t) : Bytes(t[j]) \in Seq(Letters)  BY BytesType
  <2>2. P(t) = [j \in 1 .. Len(t) |-> Bytes(t[j])]  OBVIOUS
  <2>3. [j \in 1 .. Len(t) |-> Bytes(t[j])] \in Seq(Seq(Letters))
    <3> HIDE DEF P
    <3> QED  BY <2>1
  <2> QED  BY <2>2, <2>3
<1>2. P(Append(s, c)) = Append(P(s), Bytes(c))
  OBVIOUS
<1>3. FlattenSeq(P(s)) \in Seq(Letters)
  <2> HIDE DEF P
  <2> QED  BY <1>1, FlattenType
<1>4. FlattenSeq(Append(P(s), Bytes(c))) = FlattenSeq(P(s)) \o Bytes(c)
  <2> HIDE DEF P
  <2>1. P(s) \in Seq(Seq(Letters)) /\ Bytes(c) \in Seq(Letters)  BY <1>1, BytesType
  <2> QED  BY <2>1, FlattenAppend
<1> QED  BY <1>2, <1>3, <1>4 DEF Expand

\* Nothing of the empty sequence is the writer's.
LEMMA OfEmpty == \A w : Of(w, << >>) = << >>
<1> SUFFICES ASSUME NEW w PROVE Of(w, << >>) = << >>
  OBVIOUS
<1>1. [j \in DOMAIN << >> |-> IF << >>[j].by = w THEN << << >>[j].ch >> ELSE << >>] = << >>
  OBVIOUS
<1> QED  BY <1>1, FlattenEmpty DEF Of

\* One more character is the writer's own, or adds nothing to what is.
LEMMA OfAppend ==
  ASSUME NEW w, NEW s \in Seq(Characters), NEW c \in Characters
  PROVE  /\ Of(w, s) \in Seq(Letters)
         /\ Of(w, Append(s, c)) = IF c.by = w THEN Append(Of(w, s), c.ch) ELSE Of(w, s)
<1> DEFINE L(d) == IF d.by = w THEN <<d.ch>> ELSE << >>
           P(t) == [j \in DOMAIN t |-> IF t[j].by = w THEN <<t[j].ch>> ELSE << >>]
<1>0. \A d \in Characters : L(d) \in Seq(Letters) /\ d.ch \in Letters
  <2>1. \A d \in Characters : d.ch \in Letters  BY DEF Characters
  <2> QED  BY <2>1, ShortSeqs
<1>1. \A t \in Seq(Characters) : P(t) \in Seq(Seq(Letters))
  <2> SUFFICES ASSUME NEW t \in Seq(Characters) PROVE P(t) \in Seq(Seq(Letters))
    OBVIOUS
  <2>1. \A j \in 1 .. Len(t) : L(t[j]) \in Seq(Letters)
    <3> HIDE DEF L
    <3>1. \A j \in 1 .. Len(t) : t[j] \in Characters  OBVIOUS
    <3> QED  BY <1>0, <3>1
  <2>2. P(t) = [j \in 1 .. Len(t) |-> L(t[j])]  OBVIOUS
  <2>3. [j \in 1 .. Len(t) |-> L(t[j])] \in Seq(Seq(Letters))
    <3> HIDE DEF P, L
    <3> QED  BY <2>1
  <2> QED  BY <2>2, <2>3
<1>2. P(Append(s, c)) = Append(P(s), L(c))
  OBVIOUS
<1>3. FlattenSeq(P(s)) \in Seq(Letters)
  <2> HIDE DEF P
  <2> QED  BY <1>1, FlattenType
<1>4. FlattenSeq(Append(P(s), L(c))) = FlattenSeq(P(s)) \o L(c)
  <2> HIDE DEF P, L
  <2>0. L(c) \in Seq(Letters)  BY <1>0, SMT
  <2>1. P(s) \in Seq(Seq(Letters))  BY <1>1, Zenon
  <2> QED  BY <2>0, <2>1, FlattenAppend
<1>5. Of(w, s) \in Seq(Letters) /\ Of(w, Append(s, c)) = Of(w, s) \o L(c)
  BY <1>2, <1>3, <1>4 DEF Of
<1>6. c.ch \in Letters
  BY <1>0
<1> QED  BY <1>5, <1>6

\* Texts one behind the other are expanded one behind the other.
LEMMA ExpandConcat ==
  ASSUME NEW s \in Seq(Letters), NEW t \in Seq(Letters)
  PROVE  Expand(s \o t) = Expand(s) \o Expand(t)
<1> DEFINE H == {u \in Seq(Letters) : Expand(s \o u) = Expand(s) \o Expand(u)}
<1>0. \A u \in Seq(Letters) : Expand(u) \in Seq(Letters)
  BY ExpandAppend, LettersHave
<1>1. << >> \in H
  <2>1. s \o << >> = s /\ Expand(s) \o << >> = Expand(s)
    BY <1>0, ConcatEmptySeq
  <2>2. Expand(s \o << >>) = Expand(s) \o Expand(<< >>)  BY <2>1, ExpandEmpty
  <2> QED  BY <2>2
<1>2. ASSUME NEW u \in Seq(Letters), NEW c \in Letters, u \in H PROVE Append(u, c) \in H
  <2>1. s \o Append(u, c) = Append(s \o u, c) /\ s \o u \in Seq(Letters) /\ Append(u, c) \in Seq(Letters)
    OBVIOUS
  <2>2. Expand(s \o Append(u, c)) = Expand(s \o u) \o Bytes(c)
    BY <2>1, ExpandAppend
  <2>3. Expand(s \o u) \o Bytes(c) = (Expand(s) \o Expand(u)) \o Bytes(c)
    BY <1>2
  <2>4. (Expand(s) \o Expand(u)) \o Bytes(c) = Expand(s) \o (Expand(u) \o Bytes(c))
    <3>1. Expand(s) \in Seq(Letters) /\ Expand(u) \in Seq(Letters) /\ Bytes(c) \in Seq(Letters)
      BY <1>0, BytesType, Zenon
    <3>2. InTurn(Expand(s), Expand(u), Bytes(c))
      BY <3>1, OneBehindTheOther, Zenon
    <3> QED  BY <3>2, Zenon DEF InTurn
  <2>5. Expand(u) \o Bytes(c) = Expand(Append(u, c))
    BY ExpandAppend
  <2>6. Expand(s \o Append(u, c)) = Expand(s) \o Expand(Append(u, c))
    BY <2>2, <2>3, <2>4, <2>5
  <2> QED  BY <2>1, <2>6
<1>3. \A u \in Seq(Letters) : u \in H
  <2> HIDE DEF H
  <2> QED  BY <1>1, <1>2, SeqInduction
<1> QED  BY <1>3

\* A text without a line feed stays as it is.
LEMMA ExpandPlain ==
  ASSUME NEW s \in Seq(Letters), \A j \in 1 .. Len(s) : s[j] # NL
  PROVE  Expand(s) = s
<1> DEFINE H == {u \in Seq(Letters) : (\A j \in 1 .. Len(u) : u[j] # NL) => Expand(u) = u}
<1>1. << >> \in H
  BY ExpandEmpty
<1>2. ASSUME NEW u \in Seq(Letters), NEW c \in Letters, u \in H PROVE Append(u, c) \in H
  <2>0. Append(u, c) \in Seq(Letters)
    OBVIOUS
  <2> SUFFICES ASSUME \A j \in 1 .. Len(Append(u, c)) : Append(u, c)[j] # NL
               PROVE  Expand(Append(u, c)) = Append(u, c)
    BY <2>0, Zenon
  <2>1. Append(u, c)[Len(u) + 1] = c /\ Len(Append(u, c)) = Len(u) + 1 /\ Len(u) \in Nat
        /\ \A j \in 1 .. Len(u) : Append(u, c)[j] = u[j]
    OBVIOUS
  <2>2. c # NL /\ \A j \in 1 .. Len(u) : u[j] # NL
    BY <2>1
  <2>3. Expand(u) = u
    BY <1>2, <2>2
  <2>4. Expand(Append(u, c)) = u \o <<c>>
    BY <2>2, <2>3, ExpandAppend DEF Bytes
  <2> QED  BY <2>4, AppendIsConcat
<1>3. \A u \in Seq(Letters) : u \in H
  <2> HIDE DEF H
  <2> QED  BY <1>1, <1>2, SeqInduction
<1> QED  BY <1>3

\* What Paired says of one position.
LEMMA PairedAt ==
  ASSUME NEW s \in Seq(Letters), Paired(s), NEW j \in 1 .. Len(s), s[j] = NL
  PROVE  j > 1 /\ s[j - 1] = CR
<1>1. j \in DOMAIN s  OBVIOUS
<1> QED  BY <1>1, Zenon DEF Paired

\* Line feeds stay behind their carriage returns when sequences are put together.
LEMMA PairedConcat ==
  ASSUME NEW s \in Seq(Letters), NEW t \in Seq(Letters), Paired(s), Paired(t)
  PROVE  Paired(s \o t)
<1> SUFFICES ASSUME NEW j \in 1 .. Len(s \o t), (s \o t)[j] = NL
             PROVE  j > 1 /\ (s \o t)[j - 1] = CR
  <2>1. DOMAIN (s \o t) = 1 .. Len(s \o t)
    BY ConcatProperties, LenProperties, Zenon
  <2> QED  BY <2>1, Zenon DEF Paired
<1>1. /\ Len(s \o t) = Len(s) + Len(t) /\ Len(s) \in Nat /\ Len(t) \in Nat
      /\ \A i \in 1 .. Len(s) + Len(t) : (s \o t)[i] = IF i <= Len(s) THEN s[i] ELSE t[i - Len(s)]
  BY ConcatProperties
<1>2. CASE j <= Len(s)
  <2>1. s[j] = NL /\ j \in 1 .. Len(s)  BY <1>1, <1>2
  <2>2. j > 1 /\ s[j - 1] = CR  BY <2>1, PairedAt
  <2> QED  BY <1>1, <2>1, <2>2
<1>3. CASE j > Len(s)
  <2>1. t[j - Len(s)] = NL /\ j - Len(s) \in 1 .. Len(t)
    BY <1>1, <1>3
  <2>2. j - Len(s) > 1 /\ t[j - Len(s) - 1] = CR
    BY <2>1, PairedAt
  <2> QED  BY <1>1, <1>3, <2>2
<1> QED  BY <1>1, <1>2, <1>3

\* ... and when the last character is taken away.
LEMMA PairedFront ==
  ASSUME NEW s \in Seq(Letters), NEW c \in Letters, Paired(Append(s, c))
  PROVE  Paired(s)
<1>1. /\ \A j \in 1 .. Len(s) : Append(s, c)[j] = s[j]
      /\ Len(Append(s, c)) = Len(s) + 1 /\ Len(s) \in Nat
  OBVIOUS
<1> QED  BY <1>1 DEF Paired

\* uart_putc() writes one character, or a carriage return and a line feed.
LEMMA PairedBytes == \A c \in Letters : Paired(Bytes(c))
BY LettersHave, TextsAssumption DEF Paired, Bytes

-----------------------------------------------------------------------------
\* Types.

\* Sequences over a set are sequences over a larger one.
LEMMA SeqMono == ASSUME NEW A, NEW B, A \subseteq B, NEW s \in Seq(A) PROVE s \in Seq(B)
OBVIOUS

\* A buffer of one character is that character.
LEMMA OneElement ==
  ASSUME NEW S, NEW s \in Seq(S), s # << >>, Len(s) <= 1
  PROVE  Len(s) = 1 /\ Head(s) \in S /\ s = <<Head(s)>>
<1>1. Len(s) = 1 /\ s[1] \in S  OBVIOUS
<1>2. s = <<s[1]>>  BY <1>1
<1>3. Head(s) = s[1]  BY <1>1
<1> QED  BY <1>1, <1>2, <1>3

\* A sequence's head may as well end the sequence before it.
LEMMA HeadJoinsTail ==
  ASSUME NEW S, NEW s \in Seq(S), NEW t \in Seq(S), t # << >>
  PROVE  Append(s, Head(t)) \o Tail(t) = s \o t
<1>1. Head(t) \in S /\ Tail(t) \in Seq(S) /\ <<Head(t)>> \in Seq(S)
  <2>1. Head(t) \in S /\ Tail(t) \in Seq(S)
    BY HeadTailProperties, Zenon
  <2> QED  BY <2>1
<1>2. Append(s, Head(t)) = s \o <<Head(t)>>
  BY <1>1, AppendIsConcat, Zenon
<1>3. <<Head(t)>> \o Tail(t) = t
  OBVIOUS
<1>4. (s \o <<Head(t)>>) \o Tail(t) = s \o (<<Head(t)>> \o Tail(t))
  <2>1. InTurn(s, <<Head(t)>>, Tail(t))
    BY <1>1, OneBehindTheOther, Zenon
  <2> QED  BY <2>1, Zenon DEF InTurn
<1> QED  BY <1>2, <1>3, <1>4, Zenon

\* What comes behind a sequence changes neither its head nor, but for that, its tail.
LEMMA HeadOfTwo ==
  ASSUME NEW S, NEW s \in Seq(S), NEW t \in Seq(S), s # << >>
  PROVE  s \o t # << >> /\ Head(s \o t) = Head(s) /\ Tail(s \o t) = Tail(s) \o t
<1> DEFINE h == Head(s)
           r == Tail(s)
<1>1. h \in S /\ r \in Seq(S) /\ <<h>> \in Seq(S) /\ s = <<h>> \o r
  OBVIOUS
<1> HIDE DEF h, r
<1>2. (<<h>> \o r) \o t = <<h>> \o (r \o t) /\ r \o t \in Seq(S)
  BY <1>1, ConcatAssociative, ConcatProperties
<1>3. \A u \in Seq(S) : <<h>> \o u # << >> /\ Head(<<h>> \o u) = h /\ Tail(<<h>> \o u) = u
  BY <1>1
<1> QED  BY <1>1, <1>2, <1>3 DEF h, r

\* The texts are made of the letters.
LEMMA TextTypes == MainLine \in Seq(Letters) /\ IsrLine \in Seq(Letters) /\ Prompt \in Seq(Letters)
<1>1. /\ Range(MainLine) \subseteq Letters /\ Range(IsrLine) \subseteq Letters
      /\ Range(Prompt) \subseteq Letters
  BY DEF Letters
<1>2. /\ MainLine \in Seq(Range(MainLine)) /\ IsrLine \in Seq(Range(IsrLine))
      /\ Prompt \in Seq(Range(Prompt))
  BY TextsAssumption
<1> QED  BY <1>1, <1>2, SeqMono

\* Keys are characters.
LEMMA KeyTypes == \A key \in Keys : key \in Letters
BY DEF Letters

\* The text of a handler that has read a key
LEMMA ReplyType == \A key \in Letters : <<key, NL>> \o Prompt \in Seq(Letters)
BY TextTypes, LettersHave, ShortSeqs, ConcatProperties

\* uart_puts() gives one writer a text to read.
LEMMA PutsTypes ==
  ASSUME TypeOK, NEW w \in Writers, NEW s \in Seq(Letters), Puts(w, s)
  PROVE  /\ text' \in [Writers -> Seq(Letters)] /\ text'[w] = s /\ Written(w)
         /\ \A v \in Writers : v # w => text'[v] = text[v]
         /\ TxTypeOK' /\ ~ready[w]
BY DEF Puts, TypeOK, TxTypeOK, Written

\* The writer reads its next character, and uart_putc() begins with it.
LEMMA FetchTypes ==
  ASSUME TypeOK, NEW w \in Writers, Fetch(w), NEW c, c = Head(text[w])
  PROVE  /\ c \in Letters /\ Bytes(c) \in Seq(Letters) /\ text[w] # << >>
         /\ text' \in [Writers -> Seq(Letters)] /\ text'[w] = Tail(text[w])
         /\ todo' \in [Writers -> Seq(Letters)] /\ todo[w] = << >> /\ todo'[w] = Bytes(c)
         /\ printed' \in [Writers -> Seq(Letters)] /\ printed'[w] = Append(printed[w], c)
         /\ \A v \in Writers : v # w => /\ text'[v] = text[v] /\ todo'[v] = todo[v]
                                        /\ printed'[v] = printed[v]
         /\ TxTypeOK' /\ ~ready[w]
<1>1. text[w] \in Seq(Letters) /\ text[w] # << >> /\ printed[w] \in Seq(Letters)
  BY DEF TypeOK, Fetch
<1>2. c \in Letters /\ Tail(text[w]) \in Seq(Letters)
  BY <1>1, HeadTailProperties
<1>3. Bytes(c) \in Seq(Letters) /\ Append(printed[w], c) \in Seq(Letters)
  BY <1>1, <1>2, BytesType, AppendProperties
<1>4. /\ text' = [text EXCEPT ![w] = Tail(text[w])] /\ todo' = [todo EXCEPT ![w] = Bytes(c)]
      /\ printed' = [printed EXCEPT ![w] = Append(printed[w], c)]
      /\ UNCHANGED <<depth, ready, thr, shift, sent>> /\ todo[w] = << >>
  BY DEF Fetch
<1>5. /\ text' \in [Writers -> Seq(Letters)] /\ text'[w] = Tail(text[w])
      /\ todo' \in [Writers -> Seq(Letters)] /\ todo'[w] = Bytes(c)
      /\ printed' \in [Writers -> Seq(Letters)] /\ printed'[w] = Append(printed[w], c)
      /\ \A v \in Writers : v # w => /\ text'[v] = text[v] /\ todo'[v] = todo[v]
                                     /\ printed'[v] = printed[v]
  BY <1>2, <1>3, <1>4 DEF TypeOK
<1>6. TxTypeOK' /\ ~ready[w]
  <2>1. ~ready[w]  BY <1>4 DEF TypeOK, TxTypeOK
  <2>2. \A v \in Writers : ready[v] => todo'[v] # << >>
    BY <1>5, <2>1 DEF TypeOK, TxTypeOK
  <2> QED  BY <1>4, <2>1, <2>2 DEF TypeOK, TxTypeOK
<1> QED  BY <1>1, <1>2, <1>3, <1>4, <1>5, <1>6

\* The write of THR takes the writer's next character and keeps the buffer within its
\* size.
LEMMA StoreTypes ==
  ASSUME TypeOK, NEW w \in Writers, Store(w)
  PROVE  /\ todo[w] # << >> /\ Head(todo[w]) \in Letters
         /\ [by |-> w, ch |-> Head(todo[w])] \in Characters
         /\ todo' \in [Writers -> Seq(Letters)] /\ thr' \in Seq(Characters)
         /\ TxTypeOK'
<1>1. todo[w] \in Seq(Letters) /\ todo[w] # << >>
  BY DEF TypeOK, TxTypeOK, Store
<1>2. Head(todo[w]) \in Letters /\ Tail(todo[w]) \in Seq(Letters)
  BY <1>1, HeadTailProperties
<1>3. [by |-> w, ch |-> Head(todo[w])] \in Characters
  BY <1>2 DEF Characters
<1>4. thr' \in Seq(Characters) /\ Len(thr') <= depth
  <2> DEFINE c == [by |-> w, ch |-> Head(todo[w])]
  <2> HIDE DEF c
  <2>1. thr \in Seq(Characters) /\ c \in Characters /\ depth \in Nat \ {0} /\ Len(thr) <= depth
    BY <1>3, UartAssumption DEF TypeOK, TxTypeOK, c
  <2>2. thr' = IF Len(thr) < depth THEN Append(thr, c) ELSE IF depth = 1 THEN <<c>> ELSE thr
    BY DEF Store, c
  <2> QED  BY <2>1, <2>2
<1> QED  BY <1>1, <1>2, <1>3, <1>4 DEF Store, TypeOK, TxTypeOK

\* What the stdout buffer may hold is a text,
LEMMA MixturesTypes == \A s \in Mixtures : s \in Seq(Letters)
<1> SUFFICES ASSUME NEW s \in Mixtures PROVE s \in Seq(Letters)
  OBVIOUS
<1> DEFINE A == Range(MainLine) \cup Range(IsrLine)
<1>1. A \subseteq Letters  BY DEF Letters
<1>2. PICK n \in 0 .. Len(MainLine) : s \in [1 .. n -> A]
  <2> HIDE DEF A
  <2>1. Mixtures = UNION {[1 .. n -> A] : n \in 0 .. Len(MainLine)}
    BY Zenon DEF Mixtures, BoundedSeq, SeqOf, A
  <2> QED  BY <2>1
<1> HIDE DEF A
<1>3. n \in Nat  BY <1>2
<1> QED  BY <1>1, <1>2, <1>3

\* so is a part of the main program's line,
LEMMA PartTypes == \A n \in 0 .. Len(MainLine) : SubSeq(MainLine, 1, n) \in Seq(Letters)
BY TextTypes

\* and what a handler's line leaves of it, which has the length it had.
LEMMA ReplacedTypes ==
  ASSUME NEW s \in Seq(Letters), line \in Seq(Letters)
  PROVE  /\ Replaced(s) \in Seq(Letters) /\ Len(Replaced(s)) = Len(s)
         /\ \A j \in 1 .. Len(s) :
              Replaced(s)[j] = IF Len(line) + j <= Len(IsrLine) THEN IsrLine[Len(line) + j] ELSE s[j]
         /\ s = << >> => Replaced(s) = << >>
<1> DEFINE E(j) == IF Len(line) + j <= Len(IsrLine) THEN IsrLine[Len(line) + j] ELSE s[j]
<1>1. ASSUME NEW j \in 1 .. Len(s) PROVE E(j) \in Letters
  <2>1. Len(line) \in Nat /\ Len(IsrLine) \in Nat /\ IsrLine \in Seq(Letters) /\ s[j] \in Letters
    BY TextTypes
  <2>2. CASE Len(line) + j <= Len(IsrLine)
    <3>1. Len(line) + j \in 1 .. Len(IsrLine)  BY <2>1, <2>2
    <3>2. IsrLine[Len(line) + j] \in Letters  BY <2>1, <3>1
    <3> QED  BY <2>2, <3>2
  <2>3. CASE ~(Len(line) + j <= Len(IsrLine))  BY <2>1, <2>3
  <2> QED  BY <2>2, <2>3
<1>2. Replaced(s) = [j \in 1 .. Len(s) |-> E(j)]
  <2>1. DOMAIN s = 1 .. Len(s)  OBVIOUS
  <2> QED  BY <2>1, Zenon DEF Replaced
<1> HIDE DEF E
<1>3. Len(s) \in Nat  OBVIOUS
<1>4. Replaced(s) \in Seq(Letters) /\ Len(Replaced(s)) = Len(s)
      /\ \A j \in 1 .. Len(s) : Replaced(s)[j] = E(j)
  BY <1>1, <1>2, <1>3
<1>5. s = << >> => Replaced(s) = << >>
  BY <1>4
<1> QED  BY <1>4, <1>5, Zenon DEF E

\* A handler prints its line, and the main program reads on in it.
LEMMA LineIrqTypes ==
  ASSUME TypeOK, LineIrq
  PROVE  /\ text' \in [Writers -> Seq(Letters)] /\ text'["main"] = Replaced(text["main"])
         /\ UNCHANGED <<depth, todo, ready, thr, shift, sent, printed>>
<1>1. /\ UNCHANGED <<depth, todo, ready, thr, shift, sent, printed>>
      /\ \E begun \in Seq(Letters) :
           text' = [text EXCEPT !["isr"] = begun \o IsrLine, !["main"] = Replaced(@)]
  <2>1. << >> \in Seq(Letters)  OBVIOUS
  <2> QED  BY <2>1, MixturesTypes, PartTypes DEF LineIrq
<1>2. PICK begun \in Seq(Letters) :
           text' = [text EXCEPT !["isr"] = begun \o IsrLine, !["main"] = Replaced(text["main"])]
  BY <1>1, Zenon
<1>3. begun \o IsrLine \in Seq(Letters)
  BY TextTypes, ConcatProperties
<1>4. Replaced(text["main"]) \in Seq(Letters)
  BY ReplacedTypes DEF TypeOK, Writers
<1> QED  BY <1>1, <1>2, <1>3, <1>4 DEF TypeOK, Writers

\* Every step keeps the type invariant.
LEMMA TypeNext == TypeOK /\ [Next]_vars => TypeOK'
<1> SUFFICES ASSUME TypeOK, [Next]_vars PROVE TypeOK'
  OBVIOUS
<1> USE ConsoleAssumption, UartAssumption
<1>1. CASE MainPrints
  <2>1. /\ UNCHANGED tx /\ Written("main") /\ stdout' = "filling" /\ test = "lines"
        /\ line' = << >> /\ touched' = "never"
    BY <1>1 DEF MainPrints
  <2>2. << >> \in Seq(Letters)  OBVIOUS
  <2> QED  BY <1>1, <2>1, <2>2 DEF MainPrints, TypeOK, TxTypeOK, tx, rx, Written
<1>0. CASE MainFlushes
  <2>1. PICK s \in Seq(Letters) : Puts("main", s)
    BY <1>0, MixturesTypes, TextTypes DEF MainFlushes
  <2>2. text' \in [Writers -> Seq(Letters)] /\ TxTypeOK' /\ text'["isr"] = text["isr"]
    BY <2>1, PutsTypes DEF Writers
  <2>3. UNCHANGED <<todo, thr, shift, sent, printed>>
    BY <2>1 DEF Puts
  <2> QED  BY <1>0, <2>2, <2>3 DEF MainFlushes, TypeOK, rx, counts, Written
<1>2. CASE LineIrq
  <2>1. text' \in [Writers -> Seq(Letters)] /\ UNCHANGED <<depth, todo, ready, thr, shift, sent, printed>>
    BY <1>2, LineIrqTypes
  <2>2. hits' \in 0 .. irqs' /\ irqs' \in 0 .. MaxIrqs
    <3>1. irqs < MaxIrqs /\ irqs' = irqs + 1 /\ hits' = hits + IF ready["main"] THEN 1 ELSE 0
      BY <1>2, Zenon DEF LineIrq
    <3>2. hits' = hits + 1 \/ hits' = hits + 0
      BY <3>1, Zenon
    <3> QED  BY <3>1, <3>2 DEF TypeOK
  <2>3. stdout' = "filling" => Written("main")'
    <3>1. ASSUME stdout = "filling" PROVE text'["main"] = << >> /\ todo'["main"] = << >>
      <4>1. text["main"] = << >> /\ todo["main"] = << >> /\ text["main"] \in Seq(Letters)
            /\ line \in Seq(Letters)
        BY <3>1 DEF TypeOK, Written, Writers
      <4> QED  BY <1>2, <2>1, <4>1, LineIrqTypes, ReplacedTypes
    <3>2. stdout' = stdout  BY <1>2 DEF LineIrq
    <3> QED  BY <3>1, <3>2 DEF Written
  <2>4. touched' \in {"never", "copy", "write"}
    <3>1. touched' = CASE stdout = "filling"    -> "copy"
                       [] text["main"] # << >> -> IF touched = "copy" THEN touched ELSE "write"
                       [] OTHER                -> touched
      BY <1>2, Zenon DEF LineIrq
    <3> QED  BY <3>1 DEF TypeOK
  <2>5. TxTypeOK'
    BY <2>1 DEF TypeOK, TxTypeOK
  <2>6. pc' = "print" /\ test = "lines" /\ UNCHANGED <<stdout, line, lines, test, rbr, got, overrun, typed>>
    BY <1>2 DEF LineIrq, rx
  <2> QED  BY <2>1, <2>2, <2>3, <2>4, <2>5, <2>6 DEF TypeOK
<1>3. CASE IsrReturn
  BY <1>3 DEF IsrReturn, TypeOK, TxTypeOK, tx, rx, buffer, counts, Written
<1>4. CASE MainPrompts
  BY <1>4, PutsTypes, TextTypes DEF MainPrompts, TypeOK, Puts, rx, buffer, counts, Writers, Written
<1>5. CASE MainRequests
  BY <1>5 DEF MainRequests, TypeOK, TxTypeOK, tx, rx, buffer, counts, Written
<1>6. CASE KeyIrq
  BY <1>6 DEF KeyIrq, TypeOK, TxTypeOK, tx, rx, buffer, counts, Written
<1>7. CASE IsrGetc
  <2>1. Len(rbr) = 1 /\ Head(rbr) \in Keys /\ rbr = <<Head(rbr)>> /\ rbr \in Seq(Keys)
    BY <1>7, OneElement DEF IsrGetc, TypeOK
  <2>2. Puts("isr", <<Head(rbr), NL>> \o Prompt) /\ <<Head(rbr), NL>> \o Prompt \in Seq(Letters)
    BY <1>7, <2>1, ReplyType, KeyTypes DEF IsrGetc
  <2>3. /\ text' \in [Writers -> Seq(Letters)] /\ TxTypeOK' /\ text'["main"] = text["main"]
        /\ UNCHANGED <<todo, printed>>
    BY <2>2, PutsTypes DEF Writers, Puts
  <2>4. got' \in Seq(Keys) /\ Len(got') = Len(got) + Len(rbr) /\ rbr' = << >>
    <3>1. got \in Seq(Keys) /\ got' = got \o rbr /\ rbr' = << >>
      BY <1>7 DEF IsrGetc, TypeOK
    <3> QED  BY <2>1, <3>1, ConcatProperties
  <2>5. /\ pc' = "print" /\ test' = test /\ thr' = thr /\ shift' = shift /\ sent' = sent
        /\ lines' = lines /\ irqs' = irqs /\ hits' = hits
        /\ stdout' = stdout /\ touched' = touched /\ line' = line
        /\ overrun' = overrun /\ typed' = typed
    BY <1>7 DEF IsrGetc, Puts, counts, buffer
  <2>6. test # "lines"
    BY <1>7 DEF IsrGetc, TypeOK
  <2>7. rbr' \in Seq(Keys) /\ Len(rbr') = 0 /\ Len(got') + 0 + overrun' = Len(typed')
    <3>1. Len(got) + Len(rbr) + overrun = Len(typed) /\ Len(got) \in Nat /\ overrun \in Nat
      BY DEF TypeOK
    <3>2. << >> \in Seq(Keys) /\ Len(<< >>) = 0
      BY EmptySeq
    <3> QED  BY <2>1, <2>4, <2>5, <3>1, <3>2
  <2>8. stdout' = "filling" => Written("main")'
    BY <2>3, <2>5 DEF TypeOK, Written
  <2> QED  BY <2>3, <2>4, <2>5, <2>6, <2>7, <2>8 DEF TypeOK
<1>8. CASE Hardware
  <2>1. CASE Load
    <3>1. thr \in Seq(Characters) /\ thr # << >>
      BY <2>1 DEF Load, TypeOK
    <3>2. Head(thr) \in Characters /\ Tail(thr) \in Seq(Characters) /\ Len(Tail(thr)) = Len(thr) - 1
          /\ Len(thr) \in Nat
      BY <3>1, HeadTailProperties
    <3> QED  BY <1>8, <2>1, <3>1, <3>2 DEF Hardware, Load, TypeOK, TxTypeOK, rx, buffer, counts, Written
  <2>2. CASE Transmit
    BY <1>8, <2>2 DEF Hardware, Transmit, TypeOK, TxTypeOK, rx, buffer, counts, Written
  <2> QED  BY <1>8, <2>1, <2>2 DEF Hardware
<1>9. ASSUME NEW w \in Writers, Putc(w) PROVE TypeOK'
  <2>0. /\ UNCHANGED <<rbr, got, overrun, typed, stdout, touched, lines, irqs, hits, test, pc>>
        /\ (w = "isr") <=> (pc = "print")
    BY <1>9 DEF Putc, rx, counts
  <2>1. ASSUME Poll(w), UNCHANGED line PROVE TypeOK'
    BY <2>0, <2>1 DEF Poll, TypeOK, TxTypeOK, Written
  <2>2. ASSUME Store(w), UNCHANGED line PROVE TypeOK'
    <3>1. /\ todo' \in [Writers -> Seq(Letters)] /\ thr' \in Seq(Characters) /\ TxTypeOK'
          /\ UNCHANGED <<text, shift, sent, printed>> /\ todo[w] # << >>
          /\ \A v \in Writers : v # w => todo'[v] = todo[v]
      BY <2>2, StoreTypes DEF Store, TypeOK
    <3>2. pc # "print" => Written("isr")'
      BY <2>0, <3>1 DEF TypeOK, Written, Writers
    <3>3. stdout = "filling" => Written("main")'
      BY <2>0, <3>1 DEF TypeOK, Written, Writers
    <3> QED  BY <2>0, <2>2, <3>1, <3>2, <3>3 DEF TypeOK
  <2>3. ASSUME Fetch(w), line' = IF w = "main" THEN Append(line, Head(text[w])) ELSE line
        PROVE  TypeOK'
    <3>1. /\ text' \in [Writers -> Seq(Letters)] /\ todo' \in [Writers -> Seq(Letters)]
          /\ printed' \in [Writers -> Seq(Letters)] /\ TxTypeOK' /\ text[w] # << >>
          /\ UNCHANGED <<thr, shift, sent>>
          /\ \A v \in Writers : v # w => text'[v] = text[v] /\ todo'[v] = todo[v]
      BY <2>3, FetchTypes DEF Fetch
    <3>2. pc # "print" => Written("isr")'
      BY <2>0, <3>1 DEF TypeOK, Written, Writers
    <3>3. stdout = "filling" => Written("main")'
      BY <2>0, <3>1 DEF TypeOK, Written, Writers
    <3>4. line' \in Seq(Letters)
      <4>1. line \in Seq(Letters) /\ Head(text[w]) \in Letters
        BY <2>3, FetchTypes DEF TypeOK
      <4> QED  BY <2>3, <4>1, AppendProperties
    <3> QED  BY <2>0, <3>1, <3>2, <3>3, <3>4 DEF TypeOK
  <2> QED  BY <1>9, <2>1, <2>2, <2>3 DEF Putc
<1>10. ASSUME NEW key \in Keys, Type(key) PROVE TypeOK'
  <2>1. typed' \in Seq(Keys) /\ Len(typed') = Len(typed) + 1
    BY <1>10 DEF Type, TypeOK
  <2>2. CASE rbr = << >>
    <3>1. rbr' = <<key>> /\ Len(rbr') = 1 /\ rbr' \in Seq(Keys) /\ overrun' = overrun /\ Len(rbr) = 0
      <4>1. rbr' = <<key>> /\ overrun' = overrun  BY <1>10, <2>2 DEF Type
      <4> QED  BY <2>2, <4>1
    <3>2. UNCHANGED <<tx, got, buffer, counts, test, pc>>
      BY <1>10 DEF Type
    <3> QED  BY <2>1, <3>1, <3>2 DEF TypeOK, TxTypeOK, tx, buffer, counts, Written
  <2>3. CASE rbr # << >>
    <3>1. rbr' = rbr /\ overrun' = overrun + 1
      BY <1>10, <2>3 DEF Type
    <3>2. Len(rbr) \in Nat /\ Len(got) \in Nat /\ Len(typed) \in Nat
      BY DEF TypeOK
    <3>3. Len(got') + Len(rbr') + overrun' = Len(typed') /\ overrun' \in Nat /\ got' = got
      <4>1. got' = got  BY <1>10 DEF Type
      <4>2. overrun \in Nat /\ Len(got) + Len(rbr) + overrun = Len(typed)  BY DEF TypeOK
      <4> QED  BY <2>1, <3>1, <3>2, <4>1, <4>2
    <3>4. UNCHANGED <<tx, buffer, counts, test, pc>>
      BY <1>10 DEF Type
    <3> QED  BY <2>1, <3>1, <3>3, <3>4 DEF TypeOK, TxTypeOK, tx, buffer, counts, Written
  <2> QED  BY <2>2, <2>3
<1>11. CASE UNCHANGED vars
  BY <1>11 DEF vars, TypeOK, TxTypeOK, tx, rx, buffer, counts, Written
<1> QED
  BY <1>0, <1>1, <1>2, <1>3, <1>4, <1>5, <1>6, <1>7, <1>8, <1>9, <1>10, <1>11 DEF Next, Program, Idle

-----------------------------------------------------------------------------
\* Polls, and what the hardware does to the flow.

\* Every step keeps it true that whoever has seen THRE finds the buffer empty, or the
\* main program a single character of a handler.
LEMMA PolledNext == TypeOK /\ PolledInv /\ [Next]_vars => PolledInv'
<1> SUFFICES ASSUME TypeOK, PolledInv, [Next]_vars PROVE PolledInv'
  OBVIOUS
<1>1. ASSUME UNCHANGED <<ready, thr>> PROVE PolledInv'
  BY <1>1 DEF PolledInv
<1>3. CASE Load
  <2>1. thr # << >> /\ thr' = Tail(thr) /\ ready' = ready
    BY <1>3 DEF Load
  <2>2. ready["main"] => Tail(thr) = << >>
    <3>1. \A d \in [by : {"isr"}, ch : Letters] : Tail(<<d>>) = << >>
      OBVIOUS
    <3> QED  BY <2>1, <3>1, Zenon DEF PolledInv
  <2> QED  BY <2>1, <2>2 DEF PolledInv
<1>4. ASSUME NEW w \in Writers, Putc(w) PROVE PolledInv'
  <2>1. CASE Poll(w)
    BY <2>1 DEF Poll, PolledInv, TypeOK, TxTypeOK
  <2>3. CASE Fetch(w)
    BY <1>1, <2>3 DEF Fetch
  <2>2. CASE Store(w)
    <3> DEFINE c == [by |-> w, ch |-> Head(todo[w])]
    <3>1. Head(todo[w]) \in Letters  BY <2>2, StoreTypes
    <3>2. CASE w = "isr"
      <4>1. thr = << >> /\ depth \in Nat \ {0} /\ Len(thr) < depth
        BY <2>2, <3>2, UartAssumption DEF Store, PolledInv, TypeOK, TxTypeOK
      <4>2. thr' = Append(thr, c)
        BY <2>2, <4>1 DEF Store
      <4>3. thr' = <<c>> /\ c \in [by : {"isr"}, ch : Letters]
        BY <3>1, <3>2, <4>1, <4>2
      <4>4. ~ready'["isr"]
        BY <2>2, <3>2 DEF Store, TypeOK, TxTypeOK
      <4> HIDE DEF c
      <4> QED  BY <4>3, <4>4 DEF PolledInv
    <3>3. CASE w = "main"
      <4>1. ~ready["isr"] /\ ready \in [Writers -> BOOLEAN]
        BY <1>4, <3>3 DEF Putc, TypeOK, TxTypeOK, Writers, Written
      <4>2. ~ready'["isr"] /\ ~ready'["main"]
        BY <2>2, <3>3, <4>1 DEF Store, Writers
      <4> QED  BY <4>2 DEF PolledInv
    <3> QED  BY <3>2, <3>3 DEF Writers
  <2> QED  BY <1>4, <2>1, <2>2, <2>3 DEF Putc
<1>5. CASE Next
  <2>1. \/ UNCHANGED <<ready, thr>>
        \/ Load
        \/ \E w \in Writers : Putc(w)
    BY <1>5 DEF Next, MainPrints, MainFlushes, LineIrq, Program, MainPrompts, MainRequests, KeyIrq,
                IsrGetc, IsrReturn, Hardware, Transmit, Type, Idle, vars, tx, Puts
  <2> QED  BY <1>1, <1>3, <1>4, <2>1
<1> QED
  BY <1>1, <1>5 DEF vars, tx

-----------------------------------------------------------------------------
\* What has been given to the UART: the hardware moves it on, a writer adds to it.
LEMMA FlowType == TypeOK => Flow \in Seq(Characters)
BY ConcatProperties DEF TypeOK, Flow

\* The UART moves characters on, it neither adds nor loses one.
LEMMA HardwareKeepsFlow ==
  ASSUME TypeOK, Load \/ Transmit
  PROVE  Flow' = Flow
<1>0. sent \in Seq(Characters) /\ shift \in Seq(Characters) /\ thr \in Seq(Characters)
  BY DEF TypeOK
<1>1. CASE Load
  <2>1. thr # << >> /\ shift = << >> /\ shift' = <<Head(thr)>> /\ thr' = Tail(thr) /\ sent' = sent
    BY <1>1 DEF Load
  <2>2. thr = <<Head(thr)>> \o Tail(thr) /\ Head(thr) \in Characters /\ Tail(thr) \in Seq(Characters)
    BY <1>0, <2>1
  <2>3. (sent \o <<Head(thr)>>) \o Tail(thr) = sent \o (<<Head(thr)>> \o Tail(thr))
    <3>1. <<Head(thr)>> \in Seq(Characters)  BY <2>2
    <3>2. InTurn(sent, <<Head(thr)>>, Tail(thr))
      BY <1>0, <2>2, <3>1, OneBehindTheOther, Zenon
    <3> QED  BY <3>2, Zenon DEF InTurn
  <2>4. (sent \o << >>) \o thr = sent \o thr
    BY <1>0, ConcatEmptySeq
  <2> QED  BY <2>1, <2>2, <2>3, <2>4 DEF Flow
<1>2. CASE Transmit
  <2>1. shift' = << >> /\ thr' = thr /\ sent' = sent \o shift
    BY <1>2 DEF Transmit
  <2>2. (sent \o shift) \o << >> = sent \o shift
    BY <1>0, ConcatProperties, ConcatEmptySeq
  <2> QED  BY <2>1, <2>2 DEF Flow
<1> QED  BY <1>1, <1>2

\* The write of THR adds a character at the end, or replaces the last one by it.
LEMMA StoreAddsToFlow ==
  ASSUME TypeOK, NEW w \in Writers, Store(w), NEW c, c = [by |-> w, ch |-> Head(todo[w])]
  PROVE  /\ Len(thr) < depth => Flow' = Append(Flow, c)
         /\ depth = 1 /\ thr # << >> =>
              \E f \in Seq(Characters) : Flow = Append(f, Head(thr)) /\ Flow' = Append(f, c)
<1>0. sent \in Seq(Characters) /\ shift \in Seq(Characters) /\ thr \in Seq(Characters)
      /\ c \in Characters /\ sent \o shift \in Seq(Characters)
  BY StoreTypes, ConcatProperties DEF TypeOK
<1>1. ASSUME Len(thr) < depth PROVE Flow' = Append(Flow, c)
  <2>1. thr' = Append(thr, c) /\ shift' = shift /\ sent' = sent
    BY <1>1 DEF Store
  <2>2. \A f \in Seq(Characters) : f \o Append(thr, c) = Append(f \o thr, c)
    BY <1>0
  <2> QED  BY <1>0, <2>1, <2>2 DEF Flow
<1>2. ASSUME depth = 1, thr # << >>
      PROVE  \E f \in Seq(Characters) : Flow = Append(f, Head(thr)) /\ Flow' = Append(f, c)
  <2>1. Len(thr) = 1 /\ thr = <<Head(thr)>> /\ Head(thr) \in Characters
    BY <1>0, <1>2, OneElement DEF TypeOK, TxTypeOK
  <2>2. thr' = <<c>> /\ shift' = shift /\ sent' = sent
    BY <1>2, <2>1 DEF Store
  <2>3. Flow = Append(sent \o shift, Head(thr))
    BY <1>0, <2>1, AppendIsConcat DEF Flow
  <2>4. Flow' = Append(sent \o shift, c)
    BY <1>0, <2>2, AppendIsConcat DEF Flow
  <2> QED  BY <1>0, <2>3, <2>4
<1> QED  BY <1>1, <1>2

-----------------------------------------------------------------------------
\* The streams of the two writers.

\* The streams are sequences of characters.
LEMMA StreamTypes ==
  ASSUME TypeOK
  PROVE  /\ Flow \in Seq(Characters)
         /\ \A w \in Writers : /\ Of(w, Flow) \in Seq(Letters) /\ todo[w] \in Seq(Letters)
                               /\ Stream(w) \in Seq(Letters) /\ printed[w] \in Seq(Letters)
                               /\ Expand(printed[w]) \in Seq(Letters)
<1>1. Flow \in Seq(Characters)  BY FlowType
<1> SUFFICES ASSUME NEW w \in Writers
             PROVE  /\ Of(w, Flow) \in Seq(Letters) /\ todo[w] \in Seq(Letters)
                    /\ Stream(w) \in Seq(Letters) /\ printed[w] \in Seq(Letters)
                    /\ Expand(printed[w]) \in Seq(Letters)
  BY <1>1
<1>2. [by |-> w, ch |-> NL] \in Characters  BY LettersHave DEF Characters
<1>3. Of(w, Flow) \in Seq(Letters)
  BY <1>1, <1>2, OfAppend
<1>4. todo[w] \in Seq(Letters) /\ printed[w] \in Seq(Letters)
  BY DEF TypeOK
<1>5. Stream(w) \in Seq(Letters)
  BY <1>3, <1>4, ConcatProperties DEF Stream
<1> QED  BY <1>3, <1>4, <1>5, ExpandAppend, LettersHave

\* A character that is read is added to its writer's stream.
LEMMA FetchAddsToStream ==
  ASSUME TypeOK, NEW w \in Writers, Fetch(w), NEW c, c = Head(text[w])
  PROVE  /\ Flow' = Flow
         /\ Stream(w)' = Stream(w) \o Bytes(c)
         /\ Expand(printed[w])' = Expand(printed[w]) \o Bytes(c)
         /\ \A v \in Writers : v # w => Stream(v)' = Stream(v) /\ printed'[v] = printed[v]
<1>1. Flow' = Flow
  BY DEF Fetch, Flow
<1>2. Stream(w)' = Stream(w) \o Bytes(c)
  <2>1. Stream(w) = Of(w, Flow)
    BY StreamTypes, FetchTypes, ConcatEmptySeq DEF Stream
  <2>2. Stream(w)' = Of(w, Flow) \o Bytes(c)
    BY <1>1, FetchTypes DEF Stream
  <2> QED  BY <2>1, <2>2
<1>3. Expand(printed[w])' = Expand(printed[w]) \o Bytes(c)
  <2>1. printed'[w] = Append(printed[w], c) /\ printed[w] \in Seq(Letters) /\ c \in Letters
    BY StreamTypes, FetchTypes
  <2>2. Expand(Append(printed[w], c)) = Expand(printed[w]) \o Bytes(c)
    BY <2>1, ExpandAppend
  <2> QED  BY <2>1, <2>2
<1>4. ASSUME NEW v \in Writers, v # w PROVE Stream(v)' = Stream(v) /\ printed'[v] = printed[v]
  BY <1>1, <1>4, FetchTypes DEF Stream
<1> QED  BY <1>1, <1>2, <1>3, <1>4

\* A character that finds room goes from what is to be written into the flow.
LEMMA StoreKeepsStreams ==
  ASSUME TypeOK, NEW w \in Writers, Store(w), Len(thr) < depth
  PROVE  \A v \in Writers : Stream(v)' = Stream(v) /\ printed'[v] = printed[v]
<1> DEFINE c == [by |-> w, ch |-> Head(todo[w])]
<1>1. c \in Characters /\ c.by = w /\ c.ch = Head(todo[w]) /\ todo[w] # << >>
  BY StoreTypes
<1>2. Flow' = Append(Flow, c)
  BY StoreAddsToFlow
<1> HIDE DEF c
<1>3. Stream(w)' = Stream(w)
  <2>1. Of(w, Flow)' = Append(Of(w, Flow), c.ch)
    BY <1>1, <1>2, OfAppend, StreamTypes
  <2>2. todo'[w] = Tail(todo[w])
    BY DEF Store, TypeOK
  <2>4. Append(Of(w, Flow), Head(todo[w])) \o Tail(todo[w]) = Of(w, Flow) \o todo[w]
    BY <1>1, HeadJoinsTail, StreamTypes, Zenon
  <2>5. Stream(w)' = Of(w, Flow)' \o todo'[w]  BY DEF Stream
  <2> QED  BY <1>1, <2>1, <2>2, <2>4, <2>5 DEF Stream
<1>4. ASSUME NEW v \in Writers, v # w PROVE Stream(v)' = Stream(v)
  <2>1. Of(v, Flow)' = Of(v, Flow)
    BY <1>1, <1>2, <1>4, OfAppend, StreamTypes
  <2>2. todo'[v] = todo[v]
    BY <1>4 DEF Store, TypeOK
  <2> QED  BY <2>1, <2>2 DEF Stream
<1> QED  BY <1>3, <1>4 DEF Store

\* A character of the main program that finds the buffer full of one of the handler's
\* takes its place.
LEMMA StoreOverwrites ==
  ASSUME TypeOK, Store("main"), depth = 1, thr # << >>, Head(thr).by = "isr", todo["isr"] = << >>
  PROVE  /\ Stream("main")' = Stream("main")
         /\ \E e \in Letters : Stream("isr") = Append(Stream("isr")', e)
         /\ Stream("isr")' \in Seq(Letters)
         /\ printed' = printed
<1> DEFINE c == [by |-> "main", ch |-> Head(todo["main"])]
           d == Head(thr)
<1>0. "main" \in Writers /\ "isr" \in Writers /\ "main" # "isr"
  BY DEF Writers
<1>1. c \in Characters /\ c.by = "main" /\ c.ch = Head(todo["main"]) /\ todo["main"] # << >>
      /\ c.ch \in Letters
  BY <1>0, StoreTypes
<1>2. d \in Characters /\ d.by = "isr" /\ d.ch \in Letters
  <2>1. thr \in Seq(Characters)  BY DEF TypeOK
  <2>2. d \in Characters  BY <2>1, HeadTailProperties
  <2> QED  BY <2>2 DEF Characters
<1>3. PICK f \in Seq(Characters) : Flow = Append(f, d) /\ Flow' = Append(f, c)
  BY <1>0, StoreAddsToFlow
<1>4. todo'["main"] = Tail(todo["main"]) /\ todo'["isr"] = << >> /\ printed' = printed
  BY <1>0 DEF Store, TypeOK
<1> HIDE DEF c, d
<1>5. /\ Of("main", f) \in Seq(Letters) /\ Of("isr", f) \in Seq(Letters)
      /\ Of("main", Flow) = Of("main", f) /\ Of("main", Flow)' = Append(Of("main", f), c.ch)
      /\ Of("isr", Flow) = Append(Of("isr", f), d.ch) /\ Of("isr", Flow)' = Of("isr", f)
  BY <1>0, <1>1, <1>2, <1>3, OfAppend
<1>6. Stream("main")' = Stream("main")
  <2>1. todo["main"] \in Seq(Letters) /\ todo["main"] # << >> /\ Of("main", f) \in Seq(Letters)
    BY <1>0, <1>1, <1>5, StreamTypes, Zenon
  <2>2. Append(Of("main", f), Head(todo["main"])) \o Tail(todo["main"])
          = Of("main", f) \o todo["main"]
    BY <2>1, HeadJoinsTail, Zenon
  <2>3. Stream("main")' = Of("main", Flow)' \o todo'["main"]
    BY Zenon DEF Stream
  <2>4. Stream("main") = Of("main", Flow) \o todo["main"]
    BY Zenon DEF Stream
  <2> QED  BY <1>1, <1>4, <1>5, <2>2, <2>3, <2>4, Zenon
<1>7. Stream("isr") = Append(Of("isr", f), d.ch)
  <2>1. Of("isr", Flow) \o << >> = Of("isr", Flow)
    BY <1>0, StreamTypes, ConcatEmptySeq
  <2> QED  BY <1>5, <2>1 DEF Stream
<1>8. Stream("isr")' = Of("isr", f)
  BY <1>4, <1>5, ConcatEmptySeq DEF Stream
<1> QED  BY <1>2, <1>4, <1>5, <1>6, <1>7, <1>8

-----------------------------------------------------------------------------
\* What is lost.

\* The counters of what is lost are integers.
LEMMA CountTypes ==
  ASSUME TypeOK
  PROVE  /\ hits \in Nat /\ Settled \in Int /\ Lost \in Int /\ depth \in Nat \ {0}
         /\ Len(Stream("isr")) \in Nat /\ Len(Expand(printed["isr"])) \in Nat
<1>1. Len(Stream("isr")) \in Nat /\ Len(Expand(printed["isr"])) \in Nat
  <2>1. "isr" \in Writers  BY DEF Writers
  <2> QED  BY <2>1, StreamTypes
<1>2. hits \in Nat /\ depth \in Nat \ {0}
  BY UartAssumption, ConsoleAssumption DEF TypeOK, TxTypeOK
<1> QED  BY <1>1, <1>2 DEF Lost, Settled

\* Streams that stay as they are, while no hit is due that was not.
LEMMA SameStreams ==
  ASSUME TypeOK, TypeOK', StreamInv, \A w \in Writers : Stream(w)' = Stream(w), printed' = printed,
         depth' = depth, Settled' >= Settled
  PROVE  StreamInv'
<1>1. "main" \in Writers /\ "isr" \in Writers  BY DEF Writers
<1>2. Lost' = Lost
  BY <1>1 DEF Lost
<1>3. Stream("main")' = Expand(printed["main"])'
  BY <1>1 DEF StreamInv
<1>4. \A w \in Writers : Paired(Stream(w))'
  BY DEF StreamInv, Paired
<1>5. Lost' >= 0 /\ (depth' = 1 => Lost' <= Settled') /\ (depth' # 1 => Lost' = 0)
  <2>1. Lost >= 0 /\ (depth = 1 => Lost <= Settled) /\ (depth # 1 => Lost = 0)  BY DEF StreamInv
  <2>2. Settled' \in Int
    <3>1. hits' \in Int  BY ConsoleAssumption DEF TypeOK
    <3>2. Settled' = hits' - 0 \/ Settled' = hits' - 1  BY Zenon DEF Settled
    <3> QED  BY <3>1, <3>2
  <2>3. Settled \in Int /\ Lost \in Int /\ depth \in Int
    BY CountTypes
  <2> QED  BY <1>2, <2>1, <2>2, <2>3
<1> QED  BY <1>3, <1>4, <1>5 DEF StreamInv

\* A character that is read, while no hit is due that was not.
LEMMA LongerStream ==
  ASSUME TypeOK, TypeOK', StreamInv, NEW w \in Writers, Fetch(w), Settled' >= Settled
  PROVE  StreamInv'
<1> DEFINE c == Head(text[w])
<1>0. "main" \in Writers /\ "isr" \in Writers /\ depth' = depth
  BY DEF Writers, Fetch
<1>1. /\ Stream(w)' = Stream(w) \o Bytes(c)
      /\ Expand(printed[w])' = Expand(printed[w]) \o Bytes(c)
      /\ \A v \in Writers : v # w => Stream(v)' = Stream(v) /\ printed'[v] = printed[v]
  BY FetchAddsToStream
<1>2. /\ Stream(w) \in Seq(Letters) /\ Bytes(c) \in Seq(Letters) /\ c \in Letters
      /\ Expand(printed[w]) \in Seq(Letters)
  BY StreamTypes, FetchTypes
<1> HIDE DEF c
<1>3. Lost' = Lost
  <2>1. CASE w = "isr"
    <3>1. /\ Len(Stream(w) \o Bytes(c)) = Len(Stream(w)) + Len(Bytes(c))
          /\ Len(Expand(printed[w]) \o Bytes(c)) = Len(Expand(printed[w])) + Len(Bytes(c))
          /\ Len(Stream(w)) \in Nat /\ Len(Bytes(c)) \in Nat /\ Len(Expand(printed[w])) \in Nat
      BY <1>2, ConcatProperties
    <3>2. Lost' = Len(Expand(printed[w]) \o Bytes(c)) - Len(Stream(w) \o Bytes(c))
      BY <1>1, <2>1 DEF Lost
    <3>3. Lost = Len(Expand(printed[w])) - Len(Stream(w))
      BY <2>1 DEF Lost
    <3> QED  BY <3>1, <3>2, <3>3
  <2>2. CASE w # "isr"
    BY <1>0, <1>1, <2>2 DEF Lost
  <2> QED  BY <2>1, <2>2
<1>4. Stream("main")' = Expand(printed["main"])'
  BY <1>0, <1>1 DEF StreamInv
<1>5. \A v \in Writers : Paired(Stream(v))'
  <2>1. Paired(Stream(w) \o Bytes(c))
    BY <1>2, PairedBytes, PairedConcat DEF StreamInv
  <2>2. \A v \in Writers : Paired(Stream(v)')
    BY <1>1, <2>1 DEF StreamInv
  <2> QED  BY <2>2 DEF Paired
<1>6. Lost' >= 0 /\ (depth' = 1 => Lost' <= Settled') /\ (depth' # 1 => Lost' = 0)
  <2>1. Lost >= 0 /\ (depth = 1 => Lost <= Settled) /\ (depth # 1 => Lost = 0)  BY DEF StreamInv
  <2>2. Settled' \in Int
    <3>1. hits' \in Int  BY ConsoleAssumption DEF TypeOK
    <3>2. Settled' = hits' - 0 \/ Settled' = hits' - 1  BY Zenon DEF Settled
    <3> QED  BY <3>1, <3>2
  <2>3. Settled \in Int /\ Lost \in Int /\ depth \in Int
    BY CountTypes
  <2> QED  BY <1>0, <1>3, <2>1, <2>2, <2>3
<1> QED  BY <1>4, <1>5, <1>6 DEF StreamInv

\* Hits are settled when the main program has written its character.
LEMMA SettledValue ==
  ASSUME TypeOK, TypeOK'
  PROVE  /\ hits \in Int /\ Settled \in Int /\ Settled <= hits /\ Settled >= hits - 1
         /\ hits' \in Int /\ Settled' \in Int
         /\ ready["main"] /\ (pc = "print" \/ thr # << >>) => Settled = hits - 1
         /\ ~(ready["main"] /\ (pc = "print" \/ thr # << >>)) => Settled = hits
         /\ ~(ready["main"] /\ (pc = "print" \/ thr # << >>))' => Settled' = hits'
         /\ Settled' >= hits' - 1
<1>1. hits \in Int /\ hits' \in Int
  BY ConsoleAssumption DEF TypeOK
<1>2. /\ ready["main"] /\ (pc = "print" \/ thr # << >>) => Settled = hits - 1
      /\ ~(ready["main"] /\ (pc = "print" \/ thr # << >>)) => Settled = hits - 0
      /\ (ready["main"] /\ (pc = "print" \/ thr # << >>))' => Settled' = hits' - 1
      /\ ~(ready["main"] /\ (pc = "print" \/ thr # << >>))' => Settled' = hits' - 0
  BY Zenon DEF Settled
<1>3. Settled = hits - 0 \/ Settled = hits - 1
  BY <1>2, Zenon
<1>4. Settled' = hits' - 0 \/ Settled' = hits' - 1
  BY <1>2, Zenon
<1> QED  BY <1>1, <1>2, <1>3, <1>4

\* What the streams are made of
Streaming == <<depth, todo, ready, thr, shift, sent, printed>>

\* A step that leaves the transmitter alone and does not enter a handler, unless the main
\* program has not seen THRE
LEMMA OtherStep ==
  ASSUME TypeOK, TypeOK', StreamInv, UNCHANGED Streaming, hits' = hits,
         pc' # "print" \/ pc' = pc \/ ~ready["main"]
  PROVE  StreamInv'
<1>1. /\ \A w \in Writers : Stream(w)' = Stream(w)
      /\ printed' = printed /\ depth' = depth /\ ready' = ready /\ thr' = thr /\ hits' = hits
  BY DEF Streaming, Stream, Flow
<1>2. Settled' >= Settled
  <2>0. CASE ~ready["main"]
    BY <1>1, <2>0, SettledValue
  <2>1. CASE ready["main"] /\ (pc = "print" \/ thr # << >>)
    BY <1>1, <2>1, SettledValue
  <2>2. CASE ready["main"] /\ ~(pc = "print" \/ thr # << >>)
    <3>1. ~(ready["main"] /\ (pc = "print" \/ thr # << >>))'
      BY <1>1, <2>2
    <3> QED  BY <1>1, <3>1, SettledValue
  <2> QED  BY <2>0, <2>1, <2>2
<1> QED  BY <1>1, <1>2, SameStreams

\* A character that is written to THR
LEMMA StoreStep ==
  ASSUME TypeOK, TypeOK', PolledInv, StreamInv, NEW w \in Writers, Store(w),
         (w = "isr") <=> (pc = "print"), UNCHANGED <<hits, pc>>
  PROVE  StreamInv'
<1>1. depth \in Nat \ {0} /\ depth' = depth /\ thr \in Seq(Characters)
  BY UartAssumption DEF TypeOK, TxTypeOK, Store
<1>2. CASE Len(thr) < depth
  <2>1. /\ \A v \in Writers : Stream(v)' = Stream(v)
        /\ printed' = printed
    BY <1>2, StoreKeepsStreams DEF Store
  <2>2. Settled' >= Settled
    <3>1. CASE w = "main"
      <4>1. ~ready'["main"]
        BY <3>1 DEF Store, TypeOK, TxTypeOK, Writers
      <4> QED  BY <4>1, SettledValue
    <3>2. CASE w = "isr"
      <4>1. ready'["main"] = ready["main"] /\ pc = "print"
        BY <3>2 DEF Store, TypeOK, TxTypeOK, Writers
      <4> QED  BY <4>1, SettledValue
    <3> QED  BY <3>1, <3>2 DEF Writers
  <2> QED  BY <1>1, <2>1, <2>2, SameStreams
<1>3. CASE ~(Len(thr) < depth)
  <2>1. thr # << >> /\ w # "isr"
    <3>1. thr # << >>  BY <1>1, <1>3
    <3> QED  BY <3>1 DEF PolledInv, Store
  <2>2. w = "main" /\ ready["main"] /\ pc # "print"
    BY <2>1 DEF Writers, Store
  <2>3. Len(thr) = 1 /\ Head(thr).by = "isr"
    <3>1. \A c \in [by : {"isr"}, ch : Letters] : Len(<<c>>) = 1 /\ Head(<<c>>).by = "isr"
      OBVIOUS
    <3> QED  BY <2>1, <2>2, <3>1, Zenon DEF PolledInv
  <2>4. depth = 1 /\ todo["isr"] = << >>
    BY <1>1, <1>3, <2>2, <2>3 DEF TypeOK, Written, Writers
  <2>5. /\ Stream("main")' = Stream("main") /\ printed' = printed
        /\ Stream("isr")' \in Seq(Letters)
        /\ \E e \in Letters : Stream("isr") = Append(Stream("isr")', e)
    BY <2>1, <2>2, <2>3, <2>4, StoreOverwrites
  <2>6. PICK e \in Letters : Stream("isr") = Append(Stream("isr")', e)
    BY <2>5
  <2>7. Len(Stream("isr")) = Len(Stream("isr")') + 1 /\ Len(Stream("isr")') \in Nat
    BY <2>5, <2>6, AppendProperties
  <2>8. Lost' = Lost + 1 /\ Lost \in Int
    <3>1. Lost' = Len(Expand(printed["isr"])) - Len(Stream("isr")')
      BY <2>5 DEF Lost
    <3>2. Lost = Len(Expand(printed["isr"])) - Len(Stream("isr"))
      BY DEF Lost
    <3> QED  BY <2>7, <3>1, <3>2, CountTypes
  <2>9. Settled' = hits /\ Settled = hits - 1
    <3>1. ~ready'["main"]
      BY <2>2 DEF Store, TypeOK, TxTypeOK, Writers
    <3> QED  BY <2>1, <2>2, <3>1, SettledValue
  <2>10. Lost >= 0 /\ Lost <= Settled
    BY <2>4 DEF StreamInv
  <2>11. Lost' >= 0 /\ Lost' <= Settled'
    <3>1. hits \in Int  BY SettledValue
    <3> QED  BY <2>8, <2>9, <2>10, <3>1
  <2>12. Stream("main")' = Expand(printed["main"])'
    BY <2>5 DEF StreamInv
  <2>13. \A v \in Writers : Paired(Stream(v)')
    <3>1. Paired(Append(Stream("isr")', e))
      BY <2>6 DEF StreamInv, Writers
    <3>2. Paired(Stream("isr")')
      BY <2>5, <3>1, PairedFront
    <3> QED  BY <2>5, <3>2 DEF StreamInv, Writers
  <2>14. \A v \in Writers : Paired(Stream(v))'
    BY <2>13 DEF Paired
  <2> QED  BY <1>1, <2>4, <2>11, <2>12, <2>14 DEF StreamInv
<1> QED  BY <1>2, <1>3

\* The streams survive every step.
LEMMA StreamNext ==
  ASSUME TypeOK, TypeOK', PolledInv, StreamInv, EchoInv, [Next]_vars
  PROVE  StreamInv'
<1>1. CASE MainPrints
  BY <1>1, OtherStep DEF MainPrints, tx, Streaming
<1>0. CASE MainFlushes
  BY <1>0, OtherStep DEF MainFlushes, Puts, Streaming, counts
<1>2. CASE LineIrq
  <2>1. UNCHANGED Streaming /\ ready' = ready
    BY <1>2 DEF LineIrq, Streaming
  <2>2. Settled' >= Settled
    <3>1. CASE ready["main"]
      <4>1. hits' = hits + 1  BY <1>2, <3>1 DEF LineIrq
      <4> QED  BY <4>1, SettledValue
    <3>2. CASE ~ready["main"]
      <4>1. hits' = hits + 0  BY <1>2, <3>2 DEF LineIrq
      <4> QED  BY <2>1, <3>2, <4>1, SettledValue
    <3> QED  BY <3>1, <3>2
  <2>3. \A w \in Writers : Stream(w)' = Stream(w)
    BY <2>1 DEF Streaming, Stream, Flow
  <2> QED  BY <2>1, <2>2, <2>3, SameStreams DEF Streaming
<1>3. CASE IsrReturn
  BY <1>3, OtherStep DEF IsrReturn, counts, tx, Streaming
<1>4. CASE MainPrompts
  BY <1>4, OtherStep DEF MainPrompts, Puts, Streaming, counts
<1>5. CASE MainRequests
  BY <1>5, OtherStep DEF MainRequests, counts, tx, Streaming
<1>6. CASE KeyIrq
  BY <1>6, OtherStep DEF KeyIrq, counts, tx, Streaming
<1>7. CASE IsrGetc
  <2>1. UNCHANGED Streaming /\ hits' = hits /\ pc = "getc"
    BY <1>7 DEF IsrGetc, Puts, Streaming, counts
  <2>2. ~ready["main"]
    <3>1. test = "echo"  BY <2>1 DEF TypeOK
    <3>2. todo["main"] = << >>  BY <2>1, <3>1 DEF EchoInv, Written
    <3> QED  BY <3>2 DEF TypeOK, TxTypeOK, Writers
  <2> QED  BY <2>1, <2>2, OtherStep
<1>8. CASE Hardware
  <2>1. Load \/ Transmit
    BY <1>8 DEF Hardware
  <2>2. Flow' = Flow  BY <2>1, HardwareKeepsFlow
  <2>3. /\ UNCHANGED <<todo, printed, depth, ready, hits, pc>>
        /\ thr = << >> => thr' = << >>
    BY <1>8 DEF Hardware, Load, Transmit, counts
  <2>4. \A w \in Writers : Stream(w)' = Stream(w)
    BY <2>2, <2>3 DEF Stream
  <2>5. Settled' >= Settled
    <3>1. CASE ready["main"] /\ (pc = "print" \/ thr # << >>)
      BY <2>3, <3>1, SettledValue
    <3>2. CASE ~(ready["main"] /\ (pc = "print" \/ thr # << >>))
      BY <2>3, <3>2, SettledValue
    <3> QED  BY <3>1, <3>2
  <2> QED  BY <2>3, <2>4, <2>5, SameStreams
<1>9. ASSUME NEW w \in Writers, Putc(w) PROVE StreamInv'
  <2>1. CASE Poll(w)
    <3>1. /\ \A v \in Writers : Stream(v)' = Stream(v)
          /\ UNCHANGED <<printed, depth, hits, pc, thr>>
      BY <1>9, <2>1 DEF Putc, Poll, Stream, Flow, counts
    <3>2. Settled' >= Settled
      <4>1. CASE w = "main"
        <5>1. thr = << >> /\ pc # "print"
          BY <1>9, <2>1, <4>1 DEF Putc, Poll
        <5> QED  BY <3>1, <5>1, SettledValue
      <4>2. CASE w = "isr"
        <5>1. ready'["main"] = ready["main"]
          BY <2>1, <4>2 DEF Poll, TypeOK, TxTypeOK, Writers
        <5> QED  BY <3>1, <5>1, SettledValue
      <4> QED  BY <4>1, <4>2 DEF Writers
    <3> QED  BY <3>1, <3>2, SameStreams
  <2>2. CASE Store(w)
    BY <1>9, <2>2, StoreStep DEF Putc, counts
  <2>3. CASE Fetch(w)
    <3>1. UNCHANGED <<hits, pc, thr, ready>>
      BY <1>9, <2>3 DEF Putc, Fetch, counts
    <3>2. Settled' >= Settled
      <4>1. CASE ready["main"] /\ (pc = "print" \/ thr # << >>)
        BY <3>1, <4>1, SettledValue
      <4>2. CASE ~(ready["main"] /\ (pc = "print" \/ thr # << >>))
        BY <3>1, <4>2, SettledValue
      <4> QED  BY <4>1, <4>2
    <3> QED  BY <2>3, <3>2, LongerStream
  <2> QED  BY <1>9, <2>1, <2>2, <2>3 DEF Putc
<1>10. ASSUME NEW key \in Keys, Type(key) PROVE StreamInv'
  BY <1>10, OtherStep DEF Type, counts, tx, Streaming
<1>11. CASE UNCHANGED vars
  BY <1>11, OtherStep DEF vars, counts, tx, Streaming
<1> QED
  BY <1>0, <1>1, <1>2, <1>3, <1>4, <1>5, <1>6, <1>7, <1>8, <1>9, <1>10, <1>11 DEF Next, Program, Idle

-----------------------------------------------------------------------------
\* The main program's line in the buffer of stdout.

\* A line as it was printed may count as one that a handler's has replaced nothing of,
LEMMA LineAsPrinted == Overwritten(MainLine)
BY TextTypes DEF Overwritten

\* and the handler's may come over it at any time.
LEMMA ReplacedAgain ==
  ASSUME line \in Seq(Letters), NEW s \in Seq(Letters), Overwritten(line \o s)
  PROVE  Overwritten(line \o Replaced(s))
<1> DEFINE before == line \o s
           after == line \o Replaced(s)
<1>1. /\ Replaced(s) \in Seq(Letters) /\ Len(Replaced(s)) = Len(s)
      /\ \A j \in 1 .. Len(s) :
           Replaced(s)[j] = IF Len(line) + j <= Len(IsrLine) THEN IsrLine[Len(line) + j] ELSE s[j]
  BY ReplacedTypes
<1>2. Len(line) \in Nat /\ Len(s) \in Nat
  BY LenProperties
<1>3. /\ Len(before) = Len(line) + Len(s)
      /\ \A j \in 1 .. Len(line) + Len(s) :
           before[j] = IF j <= Len(line) THEN line[j] ELSE s[j - Len(line)]
  BY ConcatProperties
<1>4. /\ after \in Seq(Letters) /\ Len(after) = Len(line) + Len(s)
      /\ \A j \in 1 .. Len(line) + Len(s) :
           after[j] = IF j <= Len(line) THEN line[j] ELSE Replaced(s)[j - Len(line)]
  <2> DEFINE r == Replaced(s)
  <2>1. r \in Seq(Letters) /\ Len(r) = Len(s)  BY <1>1
  <2> HIDE DEF r
  <2>2. /\ line \o r \in Seq(Letters) /\ Len(line \o r) = Len(line) + Len(r)
        /\ \A j \in 1 .. Len(line) + Len(r) :
             (line \o r)[j] = IF j <= Len(line) THEN line[j] ELSE r[j - Len(line)]
    BY <2>1, ConcatProperties
  <2> QED  BY <2>1, <2>2 DEF r
<1>5. /\ Len(before) = Len(MainLine) /\ DOMAIN before = 1 .. Len(line) + Len(s)
      /\ \A j \in DOMAIN before : before[j] = MainLine[j] \/ (j <= Len(IsrLine) /\ before[j] = IsrLine[j])
  <2>1. before \in Seq(Letters)  BY ConcatProperties
  <2> QED  BY <1>3, <2>1, LenProperties DEF Overwritten
<1>6. DOMAIN after = 1 .. Len(line) + Len(s)
  BY <1>4, LenProperties
<1> HIDE DEF before, after
<1>7. ASSUME NEW j \in 1 .. Len(line) + Len(s)
      PROVE  after[j] = MainLine[j] \/ (j <= Len(IsrLine) /\ after[j] = IsrLine[j])
  <2>1. CASE j <= Len(line)
    <3>1. after[j] = before[j]  BY <1>3, <1>4, <2>1
    <3> QED  BY <1>5, <3>1
  <2>2. CASE ~(j <= Len(line))
    <3>1. j - Len(line) \in 1 .. Len(s) /\ Len(line) + (j - Len(line)) = j
      BY <1>2, <2>2
    <3>2. after[j] = IF j <= Len(IsrLine) THEN IsrLine[j] ELSE s[j - Len(line)]
      BY <1>1, <1>4, <2>2, <3>1
    <3>3. before[j] = s[j - Len(line)]
      BY <1>3, <2>2
    <3> QED  BY <1>5, <3>2, <3>3
  <2> QED  BY <2>1, <2>2
<1> QED  BY <1>3, <1>4, <1>5, <1>6, <1>7 DEF Overwritten, after

\* Every step keeps what _write() has read, with what it has still to read, the line.
LEMMA BufferNext ==
  ASSUME TypeOK, TypeOK', BufferInv, [Next]_vars
  PROVE  BufferInv'
<1> SUFFICES ASSUME test = "lines"
             PROVE  /\ lines' = 0 => Written("main")'
                    /\ stdout' = "filling" => lines' > 0 /\ line' = << >> /\ touched' # "write"
                    /\ stdout' = "flushed" /\ lines' > 0 =>
                         /\ touched' = "never" => line' \o text'["main"] = MainLine
                         /\ touched' = "write" => Overwritten(line' \o text'["main"])
  <2>1. test' = test
    BY DEF Next, MainPrints, MainFlushes, LineIrq, Program, MainPrompts, MainRequests, KeyIrq,
           IsrGetc, IsrReturn, Hardware, Putc, Type, Idle, vars
  <2> QED  BY <2>1 DEF BufferInv, Overwritten
<1>a. /\ lines = 0 => Written("main")
      /\ stdout = "filling" => lines > 0 /\ line = << >> /\ touched # "write"
      /\ stdout = "flushed" /\ lines > 0 =>
           /\ touched = "never" => line \o text["main"] = MainLine
           /\ touched = "write" => Overwritten(line \o text["main"])
  BY DEF BufferInv
<1>b. /\ lines \in Nat /\ pc \in {"main", "print"} /\ line \in Seq(Letters)
      /\ text["main"] \in Seq(Letters) /\ "main" \in Writers
      /\ touched \in {"never", "copy", "write"} /\ stdout \in {"filling", "flushed"}
  BY ConsoleAssumption DEF TypeOK, Writers
<1>c. ASSUME UNCHANGED <<lines, stdout, line, touched>>, text'["main"] = text["main"],
             lines = 0 => todo'["main"] = todo["main"]
      PROVE  /\ lines' = 0 => Written("main")'
             /\ stdout' = "filling" => lines' > 0 /\ line' = << >> /\ touched' # "write"
             /\ stdout' = "flushed" /\ lines' > 0 =>
                  /\ touched' = "never" => line' \o text'["main"] = MainLine
                  /\ touched' = "write" => Overwritten(line' \o text'["main"])
  BY <1>a, <1>c DEF Written
<1>1. CASE MainPrints
  BY <1>1, <1>b DEF MainPrints
<1>2. CASE MainFlushes
  <2>1. /\ stdout = "filling" /\ stdout' = "flushed" /\ UNCHANGED <<touched, line, lines>>
        /\ touched = "never" => Puts("main", MainLine)
    BY <1>2 DEF MainFlushes, counts
  <2>2. lines' > 0 /\ line' = << >> /\ touched' # "write"
    BY <1>a, <2>1
  <2>3. ASSUME touched' = "never" PROVE line' \o text'["main"] = MainLine
    <3>1. text'["main"] = MainLine
      BY <1>b, <2>1, <2>3, PutsTypes, TextTypes
    <3> QED  BY <2>2, <3>1, TextTypes, ConcatEmptySeq
  <2> QED  BY <2>1, <2>2, <2>3
<1>3. CASE LineIrq
  <2>1. /\ text'["main"] = Replaced(text["main"]) /\ UNCHANGED <<lines, stdout, line, todo>>
        /\ stdout = "filling" => touched' = "copy"
        /\ stdout # "filling" /\ text["main"] # << >> => touched' \in {"copy", "write"}
        /\ stdout # "filling" /\ text["main"] # << >> /\ touched = "copy" => touched' = "copy"
        /\ stdout # "filling" /\ text["main"] = << >> => touched' = touched
    <3>1. text'["main"] = Replaced(text["main"]) /\ UNCHANGED todo
      BY <1>3, LineIrqTypes
    <3>2. UNCHANGED <<lines, stdout, line>>
      BY <1>3 DEF LineIrq
    <3>3. touched' = CASE stdout = "filling"    -> "copy"
                       [] text["main"] # << >> -> IF touched = "copy" THEN touched ELSE "write"
                       [] OTHER                -> touched
      BY <1>3 DEF LineIrq
    <3>4. stdout = "filling" => text["main"] = << >>
      BY DEF TypeOK, Written
    <3> QED  BY <3>1, <3>2, <3>3, <3>4
  <2>2. CASE text["main"] = << >>
    <3>1. text'["main"] = << >>
      BY <1>b, <2>1, <2>2, ReplacedTypes
    <3>2. CASE stdout = "filling"
      BY <1>a, <2>1, <3>2
    <3>3. CASE stdout # "filling"
      BY <1>c, <2>1, <2>2, <3>1, <3>3
    <3> QED  BY <3>2, <3>3
  <2>3. CASE text["main"] # << >>
    <3>1. lines # 0 /\ stdout = "flushed" /\ touched' \in {"copy", "write"}
      BY <1>a, <1>b, <2>1, <2>3 DEF TypeOK, Written
    <3>2. ASSUME touched' = "write" PROVE Overwritten(line' \o text'["main"])
      <4>1. touched # "copy" /\ lines > 0
        BY <1>b, <2>1, <2>3, <3>1, <3>2
      <4>2. Overwritten(line \o text["main"])
        BY <1>a, <1>b, <3>1, <4>1, LineAsPrinted
      <4>3. Overwritten(line \o Replaced(text["main"]))
        BY <1>b, <4>2, ReplacedAgain
      <4> QED  BY <2>1, <4>3
    <3> QED  BY <2>1, <3>1, <3>2
  <2> QED  BY <2>2, <2>3
<1>4. CASE IsrReturn
  BY <1>4, <1>c DEF IsrReturn, tx, buffer, counts
<1>5. ~(MainPrompts \/ MainRequests \/ KeyIrq \/ IsrGetc \/ \E key \in Keys : Type(key))
  BY <1>b DEF MainPrompts, MainRequests, KeyIrq, IsrGetc, Type
<1>6. CASE Hardware
  BY <1>6, <1>c DEF Hardware, Load, Transmit, buffer, counts
<1>7. ASSUME NEW w \in Writers, Putc(w)
      PROVE  /\ lines' = 0 => Written("main")'
             /\ stdout' = "filling" => lines' > 0 /\ line' = << >> /\ touched' # "write"
             /\ stdout' = "flushed" /\ lines' > 0 =>
                  /\ touched' = "never" => line' \o text'["main"] = MainLine
                  /\ touched' = "write" => Overwritten(line' \o text'["main"])
  <2>1. UNCHANGED <<lines, stdout, touched>>
    BY <1>7 DEF Putc, counts
  <2>2. CASE Poll(w) /\ UNCHANGED line
    BY <1>c, <2>1, <2>2 DEF Poll
  <2>3. CASE Store(w) /\ UNCHANGED line
    <3>1. text' = text /\ todo[w] # << >> /\ \A v \in Writers : v # w => todo'[v] = todo[v]
      BY <2>3, StoreTypes DEF Store, TypeOK
    <3>2. lines = 0 => todo'["main"] = todo["main"]
      BY <1>a, <1>b, <3>1 DEF Written
    <3> QED  BY <1>c, <2>1, <2>3, <3>1, <3>2
  <2>4. CASE Fetch(w) /\ w # "main" /\ UNCHANGED line
    <3>1. text'["main"] = text["main"] /\ todo'["main"] = todo["main"]
      BY <1>b, <2>4, FetchTypes
    <3> QED  BY <1>c, <2>1, <2>4, <3>1
  <2>5. CASE Fetch(w) /\ w = "main" /\ line' = Append(line, Head(text["main"]))
    <3>1. text["main"] # << >> /\ text'["main"] = Tail(text["main"])
      BY <1>b, <2>5, FetchTypes
    <3>2. line' \o text'["main"] = line \o text["main"]
      BY <1>b, <2>5, <3>1, HeadJoinsTail
    <3>3. lines # 0 /\ stdout = "flushed"
      BY <1>a, <1>b, <3>1 DEF TypeOK, Written
    <3> QED  BY <1>a, <2>1, <3>2, <3>3
  <2> QED  BY <1>7, <2>2, <2>3, <2>4, <2>5 DEF Putc
<1>8. CASE UNCHANGED vars
  BY <1>8, <1>c DEF vars, tx, buffer, counts
<1> QED
  BY <1>1, <1>2, <1>3, <1>4, <1>5, <1>6, <1>7, <1>8 DEF Next, Program, Idle

-----------------------------------------------------------------------------
\* What is echoed.

\* The characters, whoever wrote them
Chs(s) == [j \in DOMAIN s |-> s[j].ch]

\* The characters of a flow, without their writers.
LEMMA ChsAppend ==
  ASSUME NEW s \in Seq(Characters), NEW c \in Characters
  PROVE  /\ Chs(s) \in Seq(Letters) /\ c.ch \in Letters
         /\ Chs(Append(s, c)) = Append(Chs(s), c.ch)
<1>1. \A d \in Characters : d.ch \in Letters  BY DEF Characters
<1>2. \A j \in 1 .. Len(s) : s[j].ch \in Letters  BY <1>1
<1>3. Chs(s) = [j \in 1 .. Len(s) |-> s[j].ch]  BY DEF Chs
<1>4. Chs(s) \in Seq(Letters)  BY <1>2, <1>3
<1>5. Chs(Append(s, c)) = Append(Chs(s), c.ch)  BY DEF Chs
<1> QED  BY <1>1, <1>4, <1>5

\* uart_puts() writes the prompt as it is: it has no line feed.
LEMMA PromptPlain == Expand(Prompt) = Prompt
<1>1. \A j \in 1 .. Len(Prompt) : Prompt[j] # NL
  <2>1. DOMAIN Prompt = 1 .. Len(Prompt)
    BY TextTypes, LenProperties, Zenon
  <2>2. NL \notin {Prompt[j] : j \in DOMAIN Prompt}
    BY TextsAssumption, Zenon DEF Range
  <2> QED  BY <2>1, <2>2, Zenon
<1> QED  BY <1>1, TextTypes, ExpandPlain

\* What uart_putc() makes of the handler's answer to a key
LEMMA ReplyExpands ==
  ASSUME NEW key \in Letters
  PROVE  Expand(<<key, NL>> \o Prompt) = Echo(key) /\ Echo(key) \in Seq(Letters)
<1>1. <<key>> \in Seq(Letters) /\ <<NL>> \in Seq(Letters) /\ <<key, NL>> \in Seq(Letters)
      /\ << >> \in Seq(Letters)
  BY LettersHave, ShortSeqs
<1>2. Expand(<<key, NL>> \o Prompt) = Expand(<<key, NL>>) \o Prompt
  <2> DEFINE answer == <<key, NL>>
  <2>1. answer \in Seq(Letters) /\ Prompt \in Seq(Letters)
    BY <1>1, TextTypes, Zenon
  <2> HIDE DEF answer
  <2>2. Expand(answer \o Prompt) = Expand(answer) \o Prompt
    BY <2>1, ExpandConcat, PromptPlain, Zenon
  <2> QED  BY <2>2, Zenon DEF answer
<1>3. Expand(<<key, NL>>) = Bytes(key) \o Bytes(NL)
  <2>1. Append(<< >>, key) = <<key>>
    BY <1>1, AppendIsConcat, ConcatEmptySeq
  <2>4. Append(<<key>>, NL) = <<key, NL>>
    <3>1. Append(<<key>>, NL) \in Seq(Letters) /\ Len(Append(<<key>>, NL)) = 2
          /\ Append(<<key>>, NL)[1] = key /\ Append(<<key>>, NL)[2] = NL
      BY <1>1, AppendProperties, LettersHave
    <3>2. Len(<<key, NL>>) = 2 /\ <<key, NL>>[1] = key /\ <<key, NL>>[2] = NL
      OBVIOUS
    <3>3. \A i \in 1 .. 2 : Append(<<key>>, NL)[i] = <<key, NL>>[i]
      <4>1. \A i \in 1 .. 2 : i = 1 \/ i = 2  OBVIOUS
      <4> QED  BY <3>1, <3>2, <4>1
    <3> DEFINE a == Append(<<key>>, NL)
               b == <<key, NL>>
    <3>4. a \in Seq(Letters) /\ b \in Seq(Letters) /\ Len(a) = 2 /\ Len(b) = 2
          /\ \A i \in 1 .. 2 : a[i] = b[i]
      BY <1>1, <3>1, <3>2, <3>3
    <3> HIDE DEF a, b
    <3>5. a = b  BY <3>4, SeqEqual
    <3> QED  BY <3>5 DEF a, b
  <2>5. Expand(Append(<<key>>, NL)) = Expand(<<key>>) \o Bytes(NL)
    BY <1>1, LettersHave, ExpandAppend
  <2>2. Expand(<<key>>) = << >> \o Bytes(key)
    BY <1>1, <2>1, ExpandAppend, ExpandEmpty
  <2>3. << >> \o Bytes(key) = Bytes(key)
    BY BytesType, ConcatEmptySeq
  <2> QED  BY <2>2, <2>3, <2>4, <2>5
<1>4. Bytes(NL) = <<CR, NL>> /\ Bytes(key) = IF key = NL THEN <<CR, NL>> ELSE <<key>>
  BY DEF Bytes
<1>5. Expand(<<key, NL>> \o Prompt) = Echo(key)
  BY <1>2, <1>3, <1>4 DEF Echo
<1>6. Echo(key) \in Seq(Letters)
  <2>1. <<key, NL>> \o Prompt \in Seq(Letters)  BY ReplyType
  <2> QED  BY <1>5, <2>1, ExpandAppend, LettersHave
<1> QED  BY <1>5, <1>6

\* The prompt, and an echo for each key
Echoes(keys) == Prompt \o FlattenSeq([j \in DOMAIN keys |-> Echo(keys[j])])

\* One more key is one more echo,
LEMMA EchoesStep ==
  ASSUME NEW keys \in Seq(Keys), NEW key \in Keys
  PROVE  /\ Echoes(keys) \in Seq(Letters)
         /\ Echoes(Append(keys, key)) = Echoes(keys) \o Echo(key)
<1> DEFINE E(t) == [j \in DOMAIN t |-> Echo(t[j])]
<1>1. \A k \in Keys : Echo(k) \in Seq(Letters)
  BY ReplyExpands, KeyTypes
<1>2. E(keys) \in Seq(Seq(Letters))
  <2>1. \A j \in 1 .. Len(keys) : Echo(keys[j]) \in Seq(Letters)  BY <1>1
  <2>2. E(keys) = [j \in 1 .. Len(keys) |-> Echo(keys[j])]  OBVIOUS
  <2> QED  BY <2>1, <2>2
<1>3. E(Append(keys, key)) = Append(E(keys), Echo(key))
  OBVIOUS
<1>4. FlattenSeq(E(keys)) \in Seq(Letters)
  <2> HIDE DEF E
  <2> QED  BY <1>2, FlattenType
<1>5. FlattenSeq(Append(E(keys), Echo(key))) = FlattenSeq(E(keys)) \o Echo(key)
  <2> HIDE DEF E
  <2> QED  BY <1>1, <1>2, FlattenAppend
<1>6. Echoes(Append(keys, key)) = Prompt \o (FlattenSeq(E(keys)) \o Echo(key))
  BY <1>3, <1>5 DEF Echoes
<1>7. (Prompt \o FlattenSeq(E(keys))) \o Echo(key) = Prompt \o (FlattenSeq(E(keys)) \o Echo(key))
  <2> HIDE DEF E
  <2>1. FlattenSeq(E(keys)) \in Seq(Letters) /\ Echo(key) \in Seq(Letters) /\ Prompt \in Seq(Letters)
    BY <1>1, <1>4, TextTypes
  <2> QED  BY <2>1, ConcatAssociative
<1>8. Echoes(keys) \in Seq(Letters)
  BY <1>4, TextTypes, ConcatProperties DEF Echoes
<1> QED  BY <1>6, <1>7, <1>8 DEF Echoes

\* and without a key there is only the first prompt.
LEMMA EchoesNone == Echoes(<< >>) = Prompt
<1>1. [j \in DOMAIN << >> |-> Echo(<< >>[j])] = << >>  OBVIOUS
<1> QED  BY <1>1, FlattenEmpty, TextTypes, ConcatEmptySeq DEF Echoes

-----------------------------------------------------------------------------
\* The whole of what is echoed, step by step.

\* All that goes, or is still to go, over the line in the order of the writers
Whole == Chs(Flow) \o Left("main") \o Left("isr")

\* What a writer has left is a sequence of characters, none when it has written all.
LEMMA LeftTypes ==
  ASSUME TypeOK, NEW w \in Writers
  PROVE  /\ Left(w) \in Seq(Letters)
         /\ Written(w) => Left(w) = << >>
         /\ todo[w] = << >> => Left(w) = Expand(text[w])
<1>1. todo[w] \in Seq(Letters) /\ text[w] \in Seq(Letters)
  BY DEF TypeOK
<1>2. Expand(text[w]) \in Seq(Letters)
  BY <1>1, ExpandAppend, LettersHave
<1>3. Left(w) \in Seq(Letters)
  BY <1>1, <1>2, ConcatProperties DEF Left
<1>4. todo[w] = << >> => Left(w) = Expand(text[w])
  BY <1>2, ConcatEmptySeq DEF Left
<1> QED  BY <1>3, <1>4, ExpandEmpty DEF Written

\* The character that is read stays a part of it,
LEMMA FetchKeepsLeft ==
  ASSUME TypeOK, TypeOK', NEW w \in Writers, Fetch(w)
  PROVE  \A v \in Writers : Left(v)' = Left(v)
<1> DEFINE c == Head(text[w])
           rest == Tail(text[w])
<1>1. /\ c \in Letters /\ text[w] # << >> /\ text'[w] = rest
      /\ todo[w] = << >> /\ todo'[w] = Bytes(c)
      /\ \A v \in Writers : v # w => text'[v] = text[v] /\ todo'[v] = todo[v]
  BY FetchTypes
<1>2. /\ rest \in Seq(Letters) /\ text[w] = <<c>> \o rest /\ <<c>> \in Seq(Letters)
      /\ << >> \in Seq(Letters) /\ Append(<< >>, c) = <<c>>
  <2>1. text[w] \in Seq(Letters)  BY DEF TypeOK
  <2> QED  BY <1>1, <2>1
<1> HIDE DEF c, rest
<1>3. Expand(text[w]) = Expand(<<c>>) \o Expand(rest)
  BY <1>2, ExpandConcat
<1>4. Expand(<<c>>) = Bytes(c)
  <2>1. Expand(Append(<< >>, c)) = Expand(<< >>) \o Bytes(c)
    BY <1>1, <1>2, ExpandAppend
  <2>2. << >> \o Bytes(c) = Bytes(c)
    BY <1>1, BytesType, ConcatEmptySeq
  <2> QED  BY <1>2, <2>1, <2>2, ExpandEmpty
<1>5. Left(w)' = Left(w)
  <2>1. Left(w) = Expand(text[w])  BY <1>1, LeftTypes
  <2>2. Left(w)' = Bytes(c) \o Expand(rest)  BY <1>1 DEF Left
  <2> QED  BY <1>3, <1>4, <2>1, <2>2
<1>6. ASSUME NEW v \in Writers, v # w PROVE Left(v)' = Left(v)
  BY <1>1, <1>6 DEF Left
<1> QED  BY <1>5, <1>6

\* the one that is written no longer is.
LEMMA StoreTakesFromLeft ==
  ASSUME TypeOK, NEW w \in Writers, Store(w)
  PROVE  /\ Left(w) # << >> /\ Head(Left(w)) = Head(todo[w]) /\ Left(w)' = Tail(Left(w))
         /\ \A v \in Writers : v # w => Left(v)' = Left(v)
<1> DEFINE more == Expand(text[w])
<1>1. /\ todo'[w] = Tail(todo[w]) /\ text' = text /\ todo[w] # << >>
      /\ \A v \in Writers : v # w => todo'[v] = todo[v]
  BY StoreTypes DEF Store, TypeOK
<1>2. todo[w] \in Seq(Letters) /\ more \in Seq(Letters)
  BY ExpandAppend, LettersHave DEF TypeOK
<1>3. \A v \in Writers : v # w => Left(v)' = Left(v)
  BY <1>1 DEF Left
<1>4. Left(w) = todo[w] \o more /\ Left(w)' = Tail(todo[w]) \o more
  BY <1>1 DEF Left
<1> HIDE DEF more
<1>5. todo[w] \o more # << >> /\ Head(todo[w] \o more) = Head(todo[w])
      /\ Tail(todo[w] \o more) = Tail(todo[w]) \o more
  BY <1>1, <1>2, HeadOfTwo
<1> QED  BY <1>3, <1>4, <1>5

\* EchoInv in these terms.
LEMMA EchoInvMeans ==
  EchoInv <=> (test = "echo" =>
                 /\ Whole = IF pc = "prompt" THEN << >> ELSE Echoes(got)
                 /\ ready["main"] => thr = << >>
                 /\ pc \in {"prompt", "request"} => got = << >>
                 /\ pc # "request" => Written("main"))
BY Zenon DEF EchoInv, Whole, Chs, Due, Echoes

\* What has been given to the UART is a sequence of characters.
LEMMA ChsFlow == TypeOK => Chs(Flow) \in Seq(Letters)
<1> SUFFICES ASSUME TypeOK PROVE Chs(Flow) \in Seq(Letters)
  OBVIOUS
<1>1. [by |-> "main", ch |-> NL] \in Characters  BY LettersHave DEF Characters, Writers
<1> QED  BY <1>1, FlowType, ChsAppend

\* A character that is written goes to its place in the line.
LEMMA StoreKeepsWhole ==
  ASSUME TypeOK, TypeOK', NEW w \in Writers, Store(w), thr = << >>, w = "isr" => Left("main") = << >>
  PROVE  Whole' = Whole
<1> DEFINE c == [by |-> w, ch |-> Head(todo[w])]
<1>1. c \in Characters /\ c.ch = Head(todo[w]) /\ todo[w] # << >>
  BY StoreTypes
<1>2. Flow' = Append(Flow, c)
  <2>1. Len(thr) < depth  BY UartAssumption DEF TypeOK, TxTypeOK
  <2> QED  BY <2>1, StoreAddsToFlow
<1> HIDE DEF c
<1>3. Chs(Flow)' = Append(Chs(Flow), Head(todo[w])) /\ Chs(Flow) \in Seq(Letters)
  BY <1>1, <1>2, FlowType, ChsAppend
<1>4. Left(w) \in Seq(Letters)
  BY LeftTypes
<1>5. Append(Chs(Flow), Head(todo[w])) \o Tail(Left(w)) = Chs(Flow) \o Left(w)
  <2>1. Left(w) # << >> /\ Head(Left(w)) = Head(todo[w])
    BY StoreTakesFromLeft
  <2>2. Append(Chs(Flow), Head(Left(w))) \o Tail(Left(w)) = Chs(Flow) \o Left(w)
    BY <1>3, <1>4, <2>1, HeadJoinsTail
  <2> QED  BY <2>1, <2>2
<1>6. CASE w = "main"
  <2>1. Left("main")' = Tail(Left("main")) /\ Left("isr")' = Left("isr")
    BY <1>6, StoreTakesFromLeft DEF Writers
  <2> QED  BY <1>3, <1>5, <1>6, <2>1 DEF Whole
<1>7. CASE w = "isr"
  <2>1. Left("isr")' = Tail(Left("isr")) /\ Left("main") = << >> /\ Left("main")' = << >>
    BY <1>7, StoreTakesFromLeft DEF Writers
  <2>2. Chs(Flow) \o << >> = Chs(Flow) /\ Chs(Flow)' \o << >> = Chs(Flow)'
    <3>1. Append(Chs(Flow), Head(todo[w])) \in Seq(Letters)
      <4>1. Head(todo[w]) \in Letters  BY StoreTypes
      <4> QED  BY <1>3, <4>1, AppendProperties
    <3> QED  BY <1>3, <3>1, ConcatEmptySeq
  <2> QED  BY <1>3, <1>5, <1>7, <2>1, <2>2 DEF Whole
<1> QED  BY <1>6, <1>7 DEF Writers

\* Every step keeps what has gone out, or is still to go out, equal to what is due.
LEMMA EchoNext ==
  ASSUME TypeOK, TypeOK', PolledInv, EchoInv, [Next]_vars
  PROVE  EchoInv'
<1> SUFFICES ASSUME test = "echo", test' = "echo"
             PROVE  /\ Whole' = IF pc' = "prompt" THEN << >> ELSE Echoes(got')
                    /\ ready'["main"] => thr' = << >>
                    /\ pc' \in {"prompt", "request"} => got' = << >>
                    /\ pc' # "request" => Written("main")'
  <2>1. test' = test
    BY DEF Next, MainPrints, MainFlushes, LineIrq, Program, MainPrompts, MainRequests, KeyIrq,
           IsrGetc, IsrReturn, Hardware, Putc, Type, Idle, vars
  <2>2. test \in {"lines", "echo"}  BY DEF TypeOK
  <2>3. EchoInv' <=> (test' = "echo" =>
                 /\ Whole' = IF pc' = "prompt" THEN << >> ELSE Echoes(got')
                 /\ ready'["main"] => thr' = << >>
                 /\ pc' \in {"prompt", "request"} => got' = << >>
                 /\ pc' # "request" => Written("main")')
    BY Zenon DEF EchoInv, Whole, Chs, Due, Echoes, Written
  <2> QED  BY <2>1, <2>2, <2>3, Zenon
<1>0. /\ Whole = IF pc = "prompt" THEN << >> ELSE Echoes(got)
      /\ ready["main"] => thr = << >>
      /\ pc \in {"prompt", "request"} => got = << >>
      /\ pc # "request" => Written("main")
  BY EchoInvMeans
<1>a. "main" \in Writers /\ "isr" \in Writers /\ "main" # "isr"
  BY DEF Writers
<1>b. /\ Chs(Flow) \in Seq(Letters)
      /\ \A w \in Writers : Left(w) \in Seq(Letters) /\ (Written(w) => Left(w) = << >>)
  BY ChsFlow, LeftTypes
<1>c. ASSUME UNCHANGED tx PROVE Whole' = Whole /\ (Written("main") => Written("main")')
  <2>1. Flow' = Flow  BY <1>c DEF tx, Flow
  <2>2. \A w \in Writers : Left(w)' = Left(w)  BY <1>c DEF tx, Left
  <2>3. Written("main") => Written("main")'  BY <1>c DEF tx, Written
  <2> QED  BY <1>a, <2>1, <2>2, <2>3 DEF Whole
<1>1. CASE IsrReturn
  BY <1>0, <1>1, <1>c DEF IsrReturn, rx, tx
<1>2. CASE MainPrompts
  <2>1. Puts("main", Prompt) /\ pc = "prompt" /\ pc' = "request" /\ got' = << >>
    BY <1>0, <1>2 DEF MainPrompts, rx
  <2>2. /\ Flow' = Flow /\ Left("main")' = Prompt /\ Left("main") = << >>
        /\ Left("isr") = << >> /\ Left("isr")' = << >>
    <3>1. Written("main") /\ Written("isr")
      BY <1>a, <2>1 DEF TypeOK, Puts
    <3>2. todo' = todo /\ text'["main"] = Prompt /\ text'["isr"] = text["isr"] /\ Flow' = Flow
      BY <1>a, <2>1, PutsTypes, TextTypes DEF Puts, Flow
    <3>3. Left("main")' = << >> \o Expand(Prompt) /\ Left("isr")' = Left("isr")
      BY <3>1, <3>2 DEF Left, Written
    <3>4. << >> \o Expand(Prompt) = Prompt
      BY PromptPlain, TextTypes, ConcatEmptySeq
    <3> QED  BY <1>a, <1>b, <3>1, <3>2, <3>3, <3>4
  <2>3. Chs(Flow) = << >>
    BY <1>0, <1>b, <2>1, <2>2, ConcatEmptySeq DEF Whole
  <2>4. Whole' = Prompt
    <3>1. Whole' = (<< >> \o Prompt) \o << >>
      BY <2>2, <2>3 DEF Whole
    <3>2. << >> \o Prompt = Prompt /\ Prompt \o << >> = Prompt
      BY TextTypes, ConcatEmptySeq
    <3> QED  BY <3>1, <3>2
  <2>5. ~ready'["main"]
    BY <1>a, <2>1, PutsTypes, TextTypes DEF Puts
  <2> QED  BY <2>1, <2>4, <2>5, EchoesNone
<1>3. CASE MainRequests
  <2>1. UNCHANGED tx /\ pc = "request" /\ pc' = "main" /\ got' = got /\ Written("main")
    BY <1>3 DEF MainRequests, rx
  <2>2. ready' = ready /\ thr' = thr
    BY <2>1 DEF tx
  <2> QED  BY <1>0, <1>c, <2>1, <2>2
<1>4. CASE KeyIrq
  BY <1>0, <1>4, <1>c DEF KeyIrq, rx, tx
<1>5. CASE IsrGetc
  <2> DEFINE key == Head(rbr)
  <2>1. /\ Puts("isr", <<key, NL>> \o Prompt) /\ pc = "getc" /\ pc' = "print" /\ rbr # << >>
        /\ got' = got \o rbr
    BY <1>5 DEF IsrGetc
  <2>2. key \in Keys /\ rbr = <<key>> /\ key \in Letters /\ got \in Seq(Keys)
    BY <2>1, OneElement, KeyTypes DEF TypeOK
  <2>3. got' = Append(got, key)
    BY <2>1, <2>2, AppendIsConcat
  <2>4. <<key, NL>> \o Prompt \in Seq(Letters) /\ Expand(<<key, NL>> \o Prompt) = Echo(key)
        /\ Echo(key) \in Seq(Letters)
    BY <2>2, ReplyType, ReplyExpands
  <2> HIDE DEF key
  <2>5. /\ Flow' = Flow /\ Left("main") = << >> /\ Left("main")' = << >> /\ Written("main")'
        /\ Left("isr") = << >> /\ Left("isr")' = Echo(key) /\ ready' = ready
    <3>1. Written("main") /\ Written("isr")
      BY <1>0, <1>a, <2>1 DEF Puts
    <3>2. /\ todo' = todo /\ text'["isr"] = <<key, NL>> \o Prompt /\ text'["main"] = text["main"]
          /\ Flow' = Flow /\ ready' = ready
      BY <1>a, <2>1, <2>4, PutsTypes DEF Puts, Flow
    <3>3. Left("isr")' = << >> \o Echo(key) /\ Left("main")' = Left("main") /\ Written("main")'
      BY <2>4, <3>1, <3>2 DEF Left, Written
    <3>4. << >> \o Echo(key) = Echo(key)
      BY <2>4, ConcatEmptySeq
    <3> QED  BY <1>a, <1>b, <3>1, <3>2, <3>3, <3>4
  <2>6. Whole = Chs(Flow) /\ Whole' = Chs(Flow) \o Echo(key)
    BY <1>b, <2>5, ConcatEmptySeq DEF Whole
  <2>7. Whole' = Echoes(got')
    BY <1>0, <2>1, <2>2, <2>3, <2>6, EchoesStep
  <2>8. thr' = thr
    BY <2>1 DEF Puts
  <2> QED  BY <1>0, <2>1, <2>5, <2>7, <2>8
<1>6. CASE Hardware
  <2>1. Load \/ Transmit  BY <1>6 DEF Hardware
  <2>2. Flow' = Flow  BY <2>1, HardwareKeepsFlow
  <2>3. UNCHANGED <<text, todo, ready, pc, got>> /\ (thr = << >> => thr' = << >>)
    BY <1>6 DEF Hardware, Load, Transmit, rx
  <2>4. Whole' = Whole
    BY <2>2, <2>3 DEF Whole, Left
  <2> QED  BY <1>0, <2>3, <2>4 DEF Written
<1>7. ASSUME NEW w \in Writers, Putc(w)
      PROVE  /\ Whole' = IF pc' = "prompt" THEN << >> ELSE Echoes(got')
             /\ ready'["main"] => thr' = << >>
             /\ pc' \in {"prompt", "request"} => got' = << >>
             /\ pc' # "request" => Written("main")'
  <2>1. UNCHANGED <<got, pc>> /\ ((w = "isr") <=> (pc = "print"))
    BY <1>7 DEF Putc, rx
  <2>2. CASE Poll(w)
    <3>1. UNCHANGED <<text, todo, thr>> /\ thr = << >> /\ Flow' = Flow
      BY <2>2 DEF Poll, Flow
    <3>2. Whole' = Whole
      BY <3>1 DEF Whole, Left
    <3> QED  BY <1>0, <2>1, <3>1, <3>2 DEF Written
  <2>4. CASE Fetch(w)
    <3>1. Flow' = Flow /\ UNCHANGED <<ready, thr>>
      BY <2>4 DEF Fetch, Flow
    <3>2. Whole' = Whole
      BY <1>a, <2>4, <3>1, FetchKeepsLeft DEF Whole
    <3>3. pc # "request" => Written("main")'
      <4>1. CASE w = "main"
        BY <1>0, <2>4, <4>1, FetchTypes DEF Written
      <4>2. CASE w # "main"
        BY <1>0, <1>a, <2>4, <4>2, FetchTypes DEF Written
      <4> QED  BY <4>1, <4>2
    <3> QED  BY <1>0, <2>1, <3>1, <3>2, <3>3
  <2>3. CASE Store(w)
    <3>1. thr = << >> /\ (w = "isr" => Written("main") /\ Left("main") = << >>)
      BY <1>0, <1>a, <1>b, <2>1, <2>3 DEF Store, PolledInv, Writers
    <3>2. Whole' = Whole
      BY <2>3, <3>1, StoreKeepsWhole
    <3>3. ~ready'["main"]
      <4>1. CASE w = "main"
        BY <2>3, <4>1 DEF Store, TypeOK, TxTypeOK, Writers
      <4>2. CASE w = "isr"
        <5>1. todo["main"] = << >>  BY <3>1, <4>2 DEF Written
        <5> QED  BY <2>3, <4>2, <5>1 DEF Store, TypeOK, TxTypeOK, Writers
      <4> QED  BY <4>1, <4>2 DEF Writers
    <3>4. pc # "request" => Written("main")'
      <4>1. CASE w = "main"
        <5>1. todo["main"] # << >>  BY <1>a, <2>3, <4>1, StoreTypes
        <5> QED  BY <1>0, <5>1 DEF Written
      <4>2. CASE w = "isr"
        BY <1>a, <2>3, <3>1, <4>2 DEF Store, TypeOK, Written
      <4> QED  BY <4>1, <4>2 DEF Writers
    <3> QED  BY <1>0, <2>1, <3>2, <3>3, <3>4
  <2> QED  BY <1>7, <2>2, <2>3, <2>4 DEF Putc
<1>8. ASSUME NEW key \in Keys, Type(key)
      PROVE  /\ Whole' = IF pc' = "prompt" THEN << >> ELSE Echoes(got')
             /\ ready'["main"] => thr' = << >>
             /\ pc' \in {"prompt", "request"} => got' = << >>
             /\ pc' # "request" => Written("main")'
  BY <1>0, <1>8, <1>c DEF Type, tx
<1>9. CASE UNCHANGED vars
  BY <1>0, <1>9, <1>c DEF vars, tx, rx
<1>10. ~MainPrints /\ ~LineIrq /\ ~MainFlushes
  BY DEF MainPrints, LineIrq, MainFlushes, TypeOK
<1> QED
  BY <1>1, <1>2, <1>3, <1>4, <1>5, <1>6, <1>7, <1>8, <1>9, <1>10 DEF Next, Program, Idle

-----------------------------------------------------------------------------
\* The properties of the console.

\* The invariant of Console holds at the start of either program,
LEMMA InitConsole == Init => IInv
<1> SUFFICES ASSUME Init PROVE IInv
  OBVIOUS
<1>a. "main" \in Writers /\ "isr" \in Writers
  BY DEF Writers
<1>1. /\ depth \in Depths /\ text = [w \in Writers |-> << >>] /\ todo = [w \in Writers |-> << >>]
      /\ ready = [w \in Writers |-> FALSE]
      /\ stdout = "flushed" /\ touched = "never" /\ line = << >> /\ lines = 0
      /\ thr = << >> /\ shift = << >> /\ sent = << >> /\ printed = [w \in Writers |-> << >>]
      /\ got = << >> /\ hits = 0 /\ pc \in {"main", "prompt"}
      /\ test = "echo" => pc = "prompt"
  BY DEF Init, TxInit
<1>2. TypeOK
  <2>1. << >> \in Seq(Letters) /\ << >> \in Seq(Characters) /\ << >> \in Seq(Keys) /\ Len(<< >>) = 0
    OBVIOUS
  <2>2. rbr \in Seq(Keys) /\ Len(rbr) <= 1 /\ Len(rbr) \in Nat /\ typed = rbr
    <3>1. \A key \in Keys : <<key>> \in Seq(Keys) /\ Len(<<key>>) = 1
      OBVIOUS
    <3>2. rbr = << >> \/ \E key \in Keys : rbr = <<key>>
      BY DEF Init
    <3>3. typed = rbr  BY DEF Init
    <3>4. CASE rbr = << >>  BY <2>1, <3>3, <3>4
    <3>5. CASE \E key \in Keys : rbr = <<key>>  BY <3>1, <3>3, <3>5
    <3> QED  BY <3>2, <3>4, <3>5
  <2>3. depth \in Nat \ {0}
    BY <1>1, UartAssumption
  <2>4. TxTypeOK
    BY <1>1, <2>1, <2>3 DEF TxTypeOK
  <2>5. Len(got) + Len(rbr) + overrun = Len(typed) /\ overrun \in Nat
    BY <1>1, <2>1, <2>2 DEF Init
  <2>6. lines \in 0 .. MaxLines /\ irqs \in 0 .. MaxIrqs /\ hits \in 0 .. irqs
    BY ConsoleAssumption DEF Init
  <2>7. test \in {"lines", "echo"} /\ pc \in {"prompt", "request", "main", "getc", "print"}
        /\ (test = "lines" => pc \in {"main", "print"})
    BY DEF Init
  <2> QED  BY <1>a, <1>1, <2>1, <2>2, <2>4, <2>5, <2>6, <2>7 DEF TypeOK, Written
<1>3. Flow = << >> /\ \A w \in Writers : Stream(w) = << >>
  <2>1. << >> \o << >> = << >>
    <3>1. << >> \in Seq(Letters)  OBVIOUS
    <3> QED  BY <3>1, ConcatEmptySeq
  <2>2. Flow = << >>  BY <1>1, <2>1 DEF Flow
  <2> QED  BY <1>1, <2>1, <2>2, OfEmpty DEF Stream
<1>4. PolledInv
  BY <1>a, <1>1 DEF PolledInv
<1>5. StreamInv
  <2>1. Lost = 0
    <3>1. Len(<< >>) - Len(<< >>) = 0  OBVIOUS
    <3> QED  BY <1>a, <1>1, <1>3, <3>1, ExpandEmpty DEF Lost
  <2>2. Settled = 0
    <3>1. ~ready["main"]  BY <1>a, <1>1
    <3>2. Settled = hits - 0  BY <3>1, Zenon DEF Settled
    <3> QED  BY <1>1, <3>2
  <2>3. \A w \in Writers : Paired(Stream(w))
    BY <1>3 DEF Paired
  <2> QED  BY <1>a, <1>1, <1>3, <2>1, <2>2, <2>3, ExpandEmpty DEF StreamInv
<1>6. EchoInv
  <2>1. ASSUME test = "echo" PROVE Whole = << >>
    <3>1. Chs(Flow) = << >>  BY <1>3 DEF Chs
    <3>2. << >> \o << >> = << >>
      <4>1. << >> \in Seq(Letters)  OBVIOUS
      <4> QED  BY <4>1, ConcatEmptySeq
    <3>3. Left("main") = << >> /\ Left("isr") = << >>
      BY <1>a, <1>1, <3>2, ExpandEmpty DEF Left
    <3> QED  BY <3>1, <3>2, <3>3 DEF Whole
  <2> QED  BY <1>a, <1>1, <2>1, EchoInvMeans DEF Written
<1>7. BufferInv
  BY <1>a, <1>1 DEF BufferInv, Written
<1> QED  BY <1>2, <1>4, <1>5, <1>6, <1>7 DEF IInv

\* and every step keeps it.
LEMMA NextConsole == IInv /\ [Next]_vars => IInv'
BY TypeNext, PolledNext, StreamNext, BufferNext, EchoNext DEF IInv

\* At every step of both programs: what was given to the UART by _uart_putc() and is not lost,
\* with what it is about to give, is what uart_puts() or _write() has read; and what _write()
\* has read of a line, with what it will read, is that line or a handler's over it.
THEOREM ConsoleInvariant == Spec => []IInv
<1> QED  BY InitConsole, NextConsole, PTL DEF Spec

\* When the UART is quiet, all that flows has been sent.
LEMMA QuietFlow ==
  ASSUME TypeOK, TxQuiet
  PROVE  /\ Flow = sent
         /\ \A w \in Writers : Stream(w) = Chars(w) /\ Written(w)
<1>1. thr = << >> /\ shift = << >> /\ \A w \in Writers : Written(w) /\ todo[w] = << >>
  BY DEF TxQuiet, Writers, Written
<1>2. Flow = sent
  BY <1>1, ConcatEmptySeq DEF Flow, TypeOK
<1>3. ASSUME NEW w \in Writers PROVE Stream(w) = Chars(w)
  BY <1>1, <1>2, StreamTypes, ConcatEmptySeq DEF Stream, Chars
<1> QED  BY <1>1, <1>2, <1>3

\* What is read for the main program goes out whole, and of what is read for the handlers at
\* most one character is missing for each interrupt that fell between the poll of THRE and the
\* write in _uart_putc().  A line of the main program that no handler's printf interrupts is
\* read as it was printed, and where one's replaces it in the buffer _write() reads, it keeps
\* its length.
THEOREM LosesLittle == Spec => []LossBounded
<1>1. IInv => LossBounded
  <2> SUFFICES ASSUME IInv, TxQuiet
               PROVE  /\ Chars("main") = Expand(printed["main"])
                      /\ Len(Expand(printed["isr"])) - Len(Chars("isr"))
                            \in 0 .. IF depth = 1 THEN hits ELSE 0
                      /\ \A w \in Writers : Paired(Chars(w))
                      /\ stdout = "flushed" /\ lines > 0 =>
                           /\ touched = "never" => line = MainLine
                           /\ touched = "write" => Overwritten(line)
    BY DEF LossBounded
  <2>1. TypeOK /\ StreamInv  BY DEF IInv
  <2>2. \A w \in Writers : Stream(w) = Chars(w)  BY <2>1, QuietFlow
  <2>3. Len(Expand(printed["isr"])) - Len(Chars("isr")) = Lost
    BY <2>2 DEF Lost, Writers
  <2>4. Lost \in Int /\ hits \in Int /\ (Settled = hits - 0 \/ Settled = hits - 1)
    <3>1. Settled = hits - 0 \/ Settled = hits - 1  BY Zenon DEF Settled
    <3>2. Lost \in Int /\ hits \in Int  BY <2>1, CountTypes
    <3> QED  BY <3>1, <3>2
  <2>5. Lost \in 0 .. IF depth = 1 THEN hits ELSE 0
    BY <2>1, <2>4 DEF StreamInv
  <2>6. stdout = "flushed" /\ lines > 0 =>
          /\ touched = "never" => line = MainLine
          /\ touched = "write" => Overwritten(line)
    <3>1. BufferInv  BY DEF IInv
    <3>2. test = "echo" => lines = 0
      BY <2>1 DEF TypeOK
    <3>3. text["main"] = << >> /\ line \in Seq(Letters)
      BY <2>1, QuietFlow DEF TypeOK, Written, Writers
    <3>4. line \o text["main"] = line
      BY <3>3, ConcatEmptySeq
    <3> QED  BY <2>1, <3>1, <3>2, <3>4 DEF BufferInv, TypeOK
  <2> QED  BY <2>1, <2>2, <2>3, <2>5, <2>6 DEF StreamInv, Writers
<1> QED  BY <1>1, ConsoleInvariant, PTL

\* test_irq() puts out the echo of each key that its handler read, in the order typed.
THEOREM EchoesKeys == Spec => []EchoesInOrder
<1>1. IInv => EchoesInOrder
  <2> SUFFICES ASSUME IInv, test = "echo", pc = "main", TxQuiet
               PROVE  Chs(sent) = Echoes(got)
    BY DEF EchoesInOrder, Chs, Echoes
  <2>1. TypeOK /\ EchoInv  BY DEF IInv
  <2>2. Flow = sent /\ Left("main") = << >> /\ Left("isr") = << >>
    BY <2>1, QuietFlow, LeftTypes DEF Writers
  <2>3. Whole = Echoes(got)  BY <2>1, EchoInvMeans
  <2>4. Whole = Chs(sent)
    BY <2>1, <2>2, ChsFlow, ConcatEmptySeq DEF Whole
  <2> QED  BY <2>3, <2>4
<1> QED  BY <1>1, ConsoleInvariant, PTL

-----------------------------------------------------------------------------
\* The heap.

\* In the cleared .bss nothing is held and the first call has not been made.
LEMMA InitHeap == HeapInit => HeapInv
BY HeapAssumption DEF HeapInit, HeapInv, HeapTypeOK, Solid, InCall, Block, End, Null

\* A call that does not move the end, or waits, keeps the invariant; so does the one that does.
LEMMA NextHeap == HeapInv /\ [HeapNext]_heapVars => HeapInv'
<1> SUFFICES ASSUME HeapInv, [HeapNext]_heapVars PROVE HeapInv'
  OBVIOUS
<1> USE HeapAssumption DEF HeapInv, HeapTypeOK, Solid, InCall, End, Null
<1>1. CASE Call
  BY <1>1 DEF Call, Fits
<1>2. CASE First
  BY <1>2 DEF First, Fits
<1>3. CASE Refuse
  BY <1>3 DEF Refuse, Fits
<1>4. CASE Check
  BY <1>4 DEF Check, Fits
<1>5. CASE Extend
  <2>1. /\ heap_end \in Int /\ heap_end >= 0 /\ prev_heap_end = heap_end
        /\ incr \in Int /\ heap_end + incr >= 0 /\ heap_end + incr <= HEAP_SIZE
        /\ heap_end' = heap_end + incr /\ at' = "idle"
    BY <1>5 DEF Extend, Fits
  <2>2. used' = Block(0, heap_end')
    <3>1. used' = (0 .. (heap_end - 1) \cup heap_end .. (heap_end + incr - 1))
                  \ (heap_end + incr) .. (heap_end - 1)
      BY <1>5, <2>1 DEF Extend, Block
    <3>2. used' = 0 .. (heap_end + incr - 1)
      BY <2>1, <3>1
    <3> QED  BY <2>1, <3>2 DEF Block
  <2>3. used' \subseteq Int
    BY <2>1, <2>2 DEF Block
  <2> QED  BY <1>5, <2>1, <2>2, <2>3 DEF Extend, Fits
<1>6. CASE UNCHANGED heapVars
  BY <1>6 DEF heapVars, Fits
<1> QED
  BY <1>1, <1>2, <1>3, <1>4, <1>5, <1>6 DEF HeapNext, Hung

\* The invariant holds in every state.
THEOREM HeapInvariant == HeapSpec => []HeapInv
<1>1. HeapInit => HeapInv  BY InitHeap
<1>2. HeapInv /\ [HeapNext]_heapVars => HeapInv'  BY NextHeap
<1> QED  BY <1>1, <1>2, PTL DEF HeapSpec

\* _sbrk(): no address outside heap[] is ever given out.
THEOREM StaysWithinHeap == HeapSpec => []WithinHeap
<1>1. HeapInv => WithinHeap
  BY HeapAssumption DEF HeapInv, HeapTypeOK, Solid, WithinHeap, Block, End, Null
<1> QED  BY <1>1, HeapInvariant, PTL

\* _sbrk() stops the program only when the block fits nowhere.
THEOREM HangsOnlyWhenFull == HeapSpec => []RefusesOnlyWhenFull
<1>1. HeapInv => RefusesOnlyWhenFull
  <2> SUFFICES ASSUME HeapInv, at = "hung", NEW from \in 0 .. HEAP_SIZE,
                      Block(from, from + incr) \subseteq (0 .. (HEAP_SIZE - 1)) \ used
               PROVE FALSE
    BY DEF RefusesOnlyWhenFull
  <2>1. /\ heap_end \in Int /\ incr \in Int /\ heap_end >= 0 /\ heap_end <= HEAP_SIZE
        /\ heap_end + incr > HEAP_SIZE /\ used = 0 .. (heap_end - 1)
    BY HeapAssumption DEF HeapInv, HeapTypeOK, Solid, InCall, Fits, Block, End, Null
  <2>2. from \in from .. (from + incr - 1) /\ from + incr - 1 \in from .. (from + incr - 1)
    BY <2>1, HeapAssumption
  <2>3. Block(from, from + incr) = from .. (from + incr - 1)
    BY <2>1, HeapAssumption DEF Block
  <2>4. from \notin used /\ from + incr - 1 \in 0 .. (HEAP_SIZE - 1)
    BY <2>2, <2>3
  <2> QED  BY <2>1, <2>4, HeapAssumption
<1> QED  BY <1>1, HeapInvariant, PTL

\* A block _sbrk() returns overlaps nothing that is still held.
THEOREM ReturnsFreshBlocks == HeapSpec => BlocksAreFresh
<1>1. HeapInv /\ [HeapNext]_heapVars =>
        [Extend => Block(prev_heap_end, prev_heap_end + incr) \cap used = {}]_heapVars
  BY HeapAssumption DEF HeapInv, HeapTypeOK, Solid, InCall, Extend, Block, End, Null
<1> QED  BY <1>1, HeapInvariant, PTL DEF HeapSpec, BlocksAreFresh
=============================================================================
