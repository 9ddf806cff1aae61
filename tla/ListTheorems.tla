---------------------------- MODULE ListTheorems ----------------------------
(***************************************************************************)
(* Lemmas about lists that the proofs of several modules need.             *)
(*                                                                         *)
(* What a fold over a list computes cannot be had from the library's       *)
(* induction theorems, which take an operator.  Here the induction is over *)
(* the set of the positions at which a fact holds (Induct): a fold is the  *)
(* last of a list of values, each the step's result of the one before      *)
(* (FoldRuns), so that what the step keeps, the fold keeps.                *)
(*                                                                         *)
(* And what a list of lists spells with a separator after each: a text     *)
(* that begins another one segment by segment, if no segment holds the     *)
(* separator (TextBegins).                                                 *)
(***************************************************************************)
EXTENDS Integers, Sequences, SequencesExt, Functions, SequenceTheorems, FiniteSetTheorems, TLAPS

(* Sequences of any kind.                                                    *)
IsList(s) == s \in Seq(Range(s))

LEMMA ListOfSeq ==
  ASSUME NEW S, NEW s \in Seq(S)
  PROVE  IsList(s) /\ Range(s) \subseteq S
<1>1. Len(s) \in Nat /\ s \in [1..Len(s) -> S] /\ DOMAIN s = 1..Len(s) BY LenProperties
<1>2. s \in [1..Len(s) -> Range(s)] BY <1>1 DEF Range
<1>3. s \in Seq(Range(s)) BY <1>1, <1>2, SeqDef
<1> QED BY <1>1, <1>3 DEF Range, IsList

LEMMA RangeOfAppend ==
  ASSUME NEW s, IsList(s), NEW x
  PROVE  IsList(Append(s, x)) /\ Range(Append(s, x)) = Range(s) \union {x}
<1> DEFINE S == Range(s) \union {x}
           g == Append(s, x)
<1>1. s \in Seq(S) BY SeqMonotonic DEF IsList
<1>2. /\ g \in Seq(S) /\ Len(g) = Len(s) + 1 /\ \A i \in 1..Len(s) : g[i] = s[i]
      /\ g[Len(s) + 1] = x
  BY <1>1, AppendProperties
<1>3. /\ Len(s) \in Nat /\ DOMAIN s = 1..Len(s) /\ DOMAIN g = 1..Len(g)
      /\ g \in [1..Len(g) -> S]
  BY <1>1, <1>2, LenProperties
<1> HIDE DEF g
<1>4. Range(g) = S BY ONLY <1>2, <1>3 DEF Range, S
<1> QED BY <1>2, <1>4 DEF g, IsList

LEMMA RangeOfTail ==
  ASSUME NEW s, IsList(s), s # <<>>
  PROVE  /\ IsList(Tail(s)) /\ Range(Tail(s)) \subseteq Range(s) /\ Head(s) \in Range(s)
<1> DEFINE S == Range(s)
           t == Tail(s)
<1>1. /\ Head(s) \in S /\ t \in Seq(S)
      /\ Len(t) = Len(s) - 1 /\ \A i \in 1..Len(t) : t[i] = s[i + 1]
  BY HeadTailProperties DEF IsList
<1>2. /\ Len(t) \in Nat /\ t \in [1..Len(t) -> S] /\ DOMAIN t = 1..Len(t)
  BY <1>1, LenProperties
<1> HIDE DEF S, t
<1>3. Range(t) \subseteq S BY ONLY <1>2 DEF Range
<1>4. t \in [1..Len(t) -> Range(t)] BY ONLY <1>2 DEF Range
<1>5. t \in Seq(Range(t)) BY ONLY <1>2, <1>4, SeqDef
<1> QED BY <1>1, <1>3, <1>5 DEF S, t, IsList

LEMMA FrontOf ==
  ASSUME NEW S, NEW s \in Seq(S), s # <<>>
  PROVE  /\ Front(s) \in Seq(S) /\ Len(Front(s)) = Len(s) - 1
         /\ \A i \in 1..(Len(s) - 1) : Front(s)[i] = s[i]
<1>1. Len(s) \in Nat /\ \A i \in 1..Len(s) : s[i] \in S BY LenProperties
<1>2. Len(s) \in Nat \ {0} BY EmptySeq
<1> DEFINE n == Len(s) - 1
<1>3. n \in Nat /\ 1 \in Int /\ n \in Int /\ \A i \in 1..n : s[i] \in S BY <1>1, <1>2
<1> HIDE DEF n
<1>4. /\ SubSeq(s, 1, n) \in Seq(S) /\ Len(SubSeq(s, 1, n)) = IF 1 <= n THEN n - 1 + 1 ELSE 0
      /\ \A i \in 1..(n - 1 + 1) : SubSeq(s, 1, n)[i] = s[1 + i - 1]
  BY <1>3, SubSeqProperties
<1>5. Len(SubSeq(s, 1, n)) = n /\ \A i \in 1..n : SubSeq(s, 1, n)[i] = s[i] BY <1>3, <1>4
<1> QED BY <1>4, <1>5 DEF Front, n

LEMMA ListOfConcat ==
  ASSUME NEW s, NEW t, IsList(s), IsList(t)
  PROVE  /\ IsList(s \o t) /\ Range(s \o t) = Range(s) \union Range(t)
         /\ IsPrefix(s, s \o t) /\ (t # <<>> => s # s \o t)
<1> DEFINE S == Range(s) \union Range(t)
<1>1. s \in Seq(S) /\ t \in Seq(S) BY SeqMonotonic DEF IsList
<1>2. /\ s \o t \in Seq(S) /\ Len(s \o t) = Len(s) + Len(t)
      /\ \A i \in 1..Len(s) : (s \o t)[i] = s[i]
      /\ \A i \in (Len(s) + 1)..(Len(s) + Len(t)) : (s \o t)[i] = t[i - Len(s)]
  BY <1>1, ConcatProperties
<1>3. /\ Len(s) \in Nat /\ Len(t) \in Nat /\ DOMAIN s = 1..Len(s) /\ DOMAIN t = 1..Len(t)
      /\ DOMAIN (s \o t) = 1..Len(s \o t)
  BY <1>1, <1>2, LenProperties
<1>4. Range(s \o t) = S
  <2> DEFINE r == s \o t
  <2>a. /\ \A i \in 1..Len(s) : r[i] = s[i] /\ i \in 1..Len(r)
        /\ \A i \in (Len(s) + 1)..(Len(s) + Len(t)) : r[i] = t[i - Len(s)] /\ i - Len(s) \in 1..Len(t)
        /\ \A i \in 1..Len(t) : r[i + Len(s)] = t[i] /\ i + Len(s) \in 1..Len(r)
        /\ \A i \in 1..Len(r) : i \in 1..Len(s) \/ i \in (Len(s) + 1)..(Len(s) + Len(t))
        /\ DOMAIN r = 1..Len(r)
    BY <1>2, <1>3
  <2> HIDE DEF r
  <2>1. \A x \in Range(s) : x \in Range(r) BY <1>3, <2>a DEF Range
  <2>2. \A x \in Range(t) : x \in Range(r) BY <1>3, <2>a DEF Range
  <2>3. \A x \in Range(r) : x \in S BY <1>3, <2>a DEF Range
  <2>4. Range(r) = S BY <2>1, <2>2, <2>3
  <2> QED BY <2>4 DEF r
<1>5. IsList(s \o t) BY <1>2, <1>4 DEF IsList
<1>6. SubSeq(s \o t, 1, Len(s)) = s BY <1>1, SubSeqOfConcat1
<1>7. SubSeq(s, 1, Len(s)) = s BY <1>1, SubSeqFull
<1>8. IsPrefix(s, s \o t) BY <1>2, <1>3, <1>6, <1>7 DEF IsPrefix
<1>9. ASSUME t # <<>> PROVE s # s \o t
  <2>1. Len(t) # 0 BY <1>1, <1>9, EmptySeq
  <2> DEFINE r == s \o t
             l == Len(r)
             m == Len(s)
             n == Len(t)
  <2>2. l = m + n /\ m \in Nat /\ n \in Nat /\ n # 0 BY ONLY <1>2, <1>3, <2>1
  <2> HIDE DEF m, n, l
  <2>3. l # m BY ONLY <2>2
  <2> HIDE DEF r
  <2>4. r # s BY ONLY <2>3 DEF l, m
  <2> QED BY ONLY <2>4 DEF r
<1> QED BY <1>4, <1>5, <1>8, <1>9

------------------------------------------------------------------------------
(* A set of numbers that is not empty has a least one.                       *)
LessThan == {d \in Nat \X Nat : d[1] < d[2]}

LEMMA Least ==
  ASSUME NEW T \in SUBSET Nat, T # {}
  PROVE  \E x \in T : \A y \in T : x <= y
<1>1. LessThan = OpToRel(<, Nat) BY DEF LessThan, OpToRel
<1>2. IsWellFoundedOn(LessThan, Nat) BY <1>1, NatLessThanWellFounded
<1>3. PICK x \in T : \A y \in T : <<y, x>> \notin LessThan BY <1>2, WFMin
<1>4. ASSUME NEW y \in T PROVE x <= y
  <2>1. x \in Nat /\ y \in Nat OBVIOUS
  <2>2. <<y, x>> \notin LessThan BY <1>3, <1>4
  <2>3. ~(y < x) BY <2>1, <2>2 DEF LessThan
  <2> QED BY <2>1, <2>3
<1> QED BY <1>4

------------------------------------------------------------------------------
(* What a fold over a list computes: an induction over the set of the        *)
(* positions at which a fact holds gives what a fold keeps from one element   *)
(* of the list to the next.                                                   *)

(* Induction over a set of numbers.                                          *)
LEMMA Induct ==
  ASSUME NEW n \in Nat, NEW G, 0 \in G, \A i \in 1..n : i - 1 \in G => i \in G
  PROVE  0..n \subseteq G
<1> DEFINE T == {i \in 0..n : i \notin G}
<1>1. CASE T = {} BY <1>1
<1>2. CASE T # {}
  <2>0. T \in SUBSET Nat OBVIOUS
  <2> HIDE DEF T
  <2>1. PICK x \in T : \A y \in T : x <= y BY <1>2, <2>0, Least
  <2> USE DEF T
  <2>2. x \in 1..n BY <2>1
  <2>3. x - 1 \in G BY <2>1, <2>2
  <2> QED BY <2>1, <2>2, <2>3
<1> QED BY <1>1, <1>2

LEMMA Highest ==
  ASSUME NEW n \in Nat, NEW s \in SUBSET (1..n), s # {}
  PROVE  Max(s) \in s /\ \A y \in s : y <= Max(s)
<1> DEFINE T == {n - x : x \in s}
<1>1. T \in SUBSET Nat /\ T # {} OBVIOUS
<1>2. PICK t \in T : \A y \in T : t <= y BY <1>1, Least
<1>3. PICK x \in s : t = n - x OBVIOUS
<1>4. ASSUME NEW y \in s PROVE x >= y
  <2>1. n - y \in T OBVIOUS
  <2>2. n - x <= n - y BY <1>2, <1>3, <2>1
  <2> QED BY <2>2
<1>5. \E z \in s : \A y \in s : z >= y BY <1>4
<1> HIDE DEF T
<1>6. Max(s) \in s /\ \A y \in s : Max(s) >= y BY <1>5 DEF Max
<1> QED BY <1>6

(* What a fold computes exists.                                              *)
IsFold(F, n, S, b, step) ==
  /\ F \in [SUBSET (1..n) -> S]
  /\ \A s \in SUBSET (1..n) :
       F[s] = IF s = {} THEN b ELSE step[<<Max(s), F[s \ {Max(s)}]>>]

LEMMA FoldExists ==
  ASSUME NEW n \in Nat, NEW S, NEW b \in S, NEW step \in [(1..n) \X S -> S]
  PROVE  \E F : IsFold(F, n, S, b, step)
<1> USE DEF IsFold
<1> DEFINE Folds(F, m) == IsFold(F, m, S, b, step)
           G == {m \in 0..n : \E F : Folds(F, m)}
<1>1. 0 \in G
  <2>1. Folds([s \in SUBSET (1..0) |-> b], 0) OBVIOUS
  <2> HIDE DEF Folds
  <2> QED BY <2>1
<1>2. ASSUME NEW m \in 1..n, m - 1 \in G PROVE m \in G
  <2>0. m \in Nat OBVIOUS
  <2>1. PICK F : Folds(F, m - 1) BY <1>2
  <2> DEFINE E == [s \in SUBSET (1..m) |-> IF m \in s THEN step[<<m, F[s \ {m}]>>] ELSE F[s]]
  <2>2. ASSUME NEW s \in SUBSET (1..m)
        PROVE  E[s] \in S /\ E[s] = IF s = {} THEN b ELSE step[<<Max(s), E[s \ {Max(s)}]>>]
    <3>1. CASE m \in s
      <4>1. s \ {m} \in SUBSET (1..(m - 1)) OBVIOUS
      <4>2. Max(s) = m
        <5>1. Max(s) \in s /\ m <= Max(s) BY <2>0, <3>1, Highest
        <5>2. Max(s) \in 1..m BY <5>1
        <5> QED BY <2>0, <5>1, <5>2
      <4>3. E[s \ {m}] = F[s \ {m}] /\ F[s \ {m}] \in S BY <2>1, <4>1
      <4>4. <<m, F[s \ {m}]>> \in (1..n) \X S BY <4>3
      <4> QED BY <3>1, <4>2, <4>3, <4>4
    <3>2. CASE m \notin s
      <4>1. s \in SUBSET (1..(m - 1)) /\ s \ {Max(s)} \in SUBSET (1..(m - 1))
        <5>1. ASSUME NEW x \in s PROVE x \in 1..(m - 1)
          <6>1. x \in 1..m /\ x # m BY <3>2
          <6> QED BY <2>0, <6>1
        <5> QED BY <5>1
      <4>2. E[s] = F[s] /\ E[s \ {Max(s)}] = F[s \ {Max(s)}] BY <3>2, <4>1
      <4>3. F[s] \in S BY <2>1, <4>1
      <4> HIDE DEF E
      <4> QED BY <2>1, <4>1, <4>2, <4>3
    <3> QED BY <3>1, <3>2
  <2>3. E \in [SUBSET (1..m) -> S]
    <3>1. \A s \in SUBSET (1..m) : (IF m \in s THEN step[<<m, F[s \ {m}]>>] ELSE F[s]) \in S
      BY <2>2
    <3> QED BY <3>1
  <2> HIDE DEF E
  <2>4. Folds(E, m) BY <2>2, <2>3
  <2> HIDE DEF Folds
  <2> QED BY <2>4
<1> HIDE DEF Folds
<1>3. 0..n \subseteq G
  <2> HIDE DEF G
  <2> QED BY <1>1, <1>2, Induct
<1>4. PICK F : Folds(F, n) BY <1>3
<1> QED BY <1>4 DEF Folds

LEMMA MaxOfInterval ==
  ASSUME NEW i \in Nat, i # 0
  PROVE  Max(1..i) = i /\ (1..i) \ {i} = 1..(i - 1)
<1>1. 1..i # {} /\ 1..i \in SUBSET (1..i) /\ i \in 1..i OBVIOUS
<1>2. Max(1..i) \in 1..i /\ \A y \in 1..i : y <= Max(1..i) BY <1>1, Highest
<1>3. Max(1..i) = i BY <1>1, <1>2
<1> QED BY <1>3

(* Its results, one element after the other.                                 *)
FoldSteps(H, n, S, b, step, r) ==
  /\ H \in [0..n -> S] /\ H[0] = b /\ H[n] = r
  /\ \A i \in 1..n : H[i] = step[<<i, H[i - 1]>>]

FoldsLike(G, n, S, b, step) ==
  /\ G[{}] = b
  /\ \A s \in SUBSET (1..n) : s # {} /\ G[s \ {Max(s)}] \in S =>
       G[s] = step[<<Max(s), G[s \ {Max(s)}]>>]

LEMMA FoldRuns ==
  ASSUME NEW n \in Nat, NEW S, NEW b \in S, NEW step \in [(1..n) \X S -> S],
         NEW G, FoldsLike(G, n, S, b, step)
  PROVE  \E H : FoldSteps(H, n, S, b, step, G[1..n])
<1> USE DEF FoldsLike
<1> DEFINE H == [i \in 0..n |-> G[1..i]]
<1>1. 1..0 = {} /\ 0 \in 0..n OBVIOUS
<1>2. ASSUME NEW i \in 1..n, G[1..(i - 1)] \in S
      PROVE  G[1..i] = step[<<i, G[1..(i - 1)]>>] /\ G[1..i] \in S
  <2>1. i \in Nat /\ i # 0 /\ 1..i \in SUBSET (1..n) /\ 1..i # {} OBVIOUS
  <2>2. Max(1..i) = i /\ (1..i) \ {i} = 1..(i - 1) BY <2>1, MaxOfInterval
  <2>3. G[1..i] = step[<<i, G[1..(i - 1)]>>] BY <1>2, <2>1, <2>2
  <2>4. <<i, G[1..(i - 1)]>> \in (1..n) \X S BY <1>2
  <2> QED BY <2>3, <2>4
<1>3. 0..n \subseteq {i \in 0..n : G[1..i] \in S}
  <2> DEFINE T == {i \in 0..n : G[1..i] \in S}
  <2>1. 0 \in T BY <1>1
  <2>2. ASSUME NEW i \in 1..n, i - 1 \in T PROVE i \in T
    <3>1. i \in 0..n /\ G[1..(i - 1)] \in S BY <2>2
    <3> QED BY <1>2, <3>1
  <2> HIDE DEF T
  <2>3. 0..n \subseteq T BY <2>1, <2>2, Induct
  <2> QED BY <2>3 DEF T
<1>4. H \in [0..n -> S] /\ H[0] = b BY <1>1, <1>3
<1>5. ASSUME NEW i \in 1..n PROVE H[i] = step[<<i, H[i - 1]>>]
  <2>1. i \in 0..n /\ i - 1 \in 0..n OBVIOUS
  <2>2. H[i] = G[1..i] /\ H[i - 1] = G[1..(i - 1)] /\ G[1..(i - 1)] \in S BY <1>3, <2>1
  <2> HIDE DEF H
  <2> QED BY <1>2, <2>2
<1>6. H[n] = G[1..n] OBVIOUS
<1> HIDE DEF H
<1>7. FoldSteps(H, n, S, b, step, G[1..n]) BY <1>4, <1>5, <1>6 DEF FoldSteps
<1> QED BY <1>7

------------------------------------------------------------------------------
(* One list begins another, element by element.                              *)
Begins(s, t) == Len(s) <= Len(t) /\ \A i \in 1..Len(s) : s[i] = t[i]

LEMMA BeginsIsPrefix ==
  ASSUME NEW s, NEW t, IsList(s), IsList(t)
  PROVE  IsPrefix(s, t) <=> Begins(s, t)
<1> DEFINE S == Range(s) \union Range(t)
           n == Len(s)
           m == Len(t)
<1>1. s \in Seq(S) /\ t \in Seq(S) BY SeqMonotonic DEF IsList
<1>2. n \in Nat /\ m \in Nat /\ (\A i \in 1..n : s[i] \in S) /\ (\A i \in 1..m : t[i] \in S)
  BY <1>1, LenProperties
<1>3. SubSeq(s, 1, n) = s BY <1>1, SubSeqFull
<1>4. CASE n > m BY <1>2, <1>4 DEF IsPrefix, Begins
<1>5. CASE n <= m
  <2> DEFINE u == SubSeq(t, 1, n)
  <2>1. u \in Seq(S) /\ Len(u) = n /\ \A i \in 1..n : u[i] = t[i]
    <3>1. 1 \in Int /\ n \in Int /\ \A i \in 1..n : t[i] \in S BY <1>2, <1>5
    <3> HIDE DEF n
    <3>2. /\ u \in Seq(S) /\ Len(u) = IF 1 <= n THEN n - 1 + 1 ELSE 0
          /\ \A i \in 1..(n - 1 + 1) : u[i] = t[1 + i - 1]
      BY <3>1, SubSeqProperties
    <3> QED BY <1>2, <3>2
  <2> HIDE DEF u
  <2>2. s = u <=> \A i \in 1..n : s[i] = u[i] BY <1>1, <2>1, SeqEqual
  <2>3. IsPrefix(s, t) <=> s = u BY <1>3, <1>5 DEF IsPrefix, u
  <2> QED BY <1>5, <2>1, <2>2, <2>3 DEF Begins
<1> QED BY <1>2, <1>4, <1>5

(* The text of a path up to its segment n and a separator; e[i] is its length    *)
(* after segment i.                                                          *)
Reads(sep, text, path, e, n) ==
  /\ e \in [0..n -> Nat] /\ e[0] = 0 /\ Len(text) = e[n] + 1
  /\ \A i \in 1..n : e[i] = e[i - 1] + 1 + Len(path[i])
  /\ \A i \in 0..n : e[i] + 1 \in 1..Len(text) /\ text[e[i] + 1] = sep
  /\ \A i \in 1..n : \A j \in 1..Len(path[i]) : text[e[i - 1] + 1 + j] = path[i][j]

IsText(sep, path) == IsList(path) /\ \A seg \in Range(path) : IsList(seg) /\ sep \notin Range(seg)

Concats(S, s, t, r) ==
  /\ r \in Seq(S) /\ Len(r) = Len(s) + Len(t)
  /\ \A i \in 1..Len(s) : r[i] = s[i]
  /\ \A i \in (Len(s) + 1)..(Len(s) + Len(t)) : r[i] = t[i - Len(s)]

LEMMA ConcatIs ==
  ASSUME NEW S, NEW s \in Seq(S), NEW t \in Seq(S)
  PROVE  Concats(S, s, t, s \o t)
BY ConcatProperties DEF Concats

LEMMA WithinText ==
  ASSUME NEW a \in Nat, NEW b \in Nat, NEW l \in Nat, NEW k \in Nat, b = a + 1 + l, b + 1 \in 1..k,
         NEW j \in 1..l
  PROVE  a + 1 + j \in 1..k
OBVIOUS

LEMMA ReadsOn ==
  ASSUME NEW sep, NEW text, IsList(text), NEW path, NEW n \in Nat, NEW e, Reads(sep, text, path, e, n),
         \A i \in 1..(n + 1) : IsList(path[i]),
         NEW more, more = text \o (path[n + 1] \o <<sep>>),
         NEW g, g = [i \in 0..(n + 1) |-> IF i = n + 1 THEN e[n] + 1 + Len(path[n + 1]) ELSE e[i]]
  PROVE  IsList(more) /\ Reads(sep, more, path, g, n + 1)
<1> DEFINE seg == path[n + 1]
           S == Range(text) \union Range(seg) \union {sep}
           k == Len(text)
           l == Len(seg)
           tail == seg \o <<sep>>
<1>0. IsList(seg)
  <2>1. n + 1 \in 1..(n + 1) OBVIOUS
  <2> QED BY <2>1
<1>1. text \in Seq(S) /\ seg \in Seq(S) /\ <<sep>> \in Seq(S) BY <1>0, SeqMonotonic DEF IsList
<1>2. k \in Nat /\ l \in Nat BY <1>1, LenProperties
<1> HIDE DEF S, seg
<1>3. /\ tail \in Seq(S) /\ Len(tail) = l + 1
      /\ \A i \in 1..l : tail[i] = seg[i]
      /\ tail[l + 1] = sep
  <2>1. Len(<<sep>>) = 1 /\ <<sep>>[1] = sep OBVIOUS
  <2>2. tail \in Seq(S) /\ Len(tail) = Len(seg) + Len(<<sep>>) /\ (\A i \in 1..Len(seg) : tail[i] = seg[i])
        /\ \A i \in (Len(seg) + 1)..(Len(seg) + Len(<<sep>>)) : tail[i] = <<sep>>[i - Len(seg)]
    BY <1>1, ConcatProperties
  <2> HIDE DEF tail
  <2>3. l + 1 \in (l + 1)..(l + 1) /\ (l + 1) - l = 1 BY <1>2
  <2> QED BY <2>1, <2>2, <2>3
<1> HIDE DEF tail
<1>4. more = text \o tail BY DEF tail, seg
<1>5. /\ more \in Seq(S) /\ Len(more) = k + l + 1
      /\ \A i \in 1..k : more[i] = text[i]
      /\ \A i \in (k + 1)..(k + l + 1) : more[i] = tail[i - k]
  <2>1. /\ more \in Seq(S) /\ Len(more) = k + Len(tail) /\ (\A i \in 1..k : more[i] = text[i])
        /\ \A i \in (k + 1)..(k + Len(tail)) : more[i] = tail[i - k]
    <3> HIDE DEF k
    <3>1. Concats(S, text, tail, text \o tail) BY ONLY <1>1, <1>3, ConcatIs
    <3>2. Concats(S, text, tail, more) BY ONLY <1>4, <3>1
    <3> QED BY ONLY <3>2 DEF k, Concats
  <2>2. k + Len(tail) = k + l + 1 BY <1>2, <1>3
  <2> QED BY <2>1, <2>2
<1>6. /\ e[n] \in Nat /\ k = e[n] + 1 /\ \A i \in 0..n : e[i] \in Nat
  <2>1. n \in 0..n /\ e \in [0..n -> Nat] /\ Len(text) = e[n] + 1 BY DEF Reads
  <2> QED BY <2>1
<1>7. /\ g[n + 1] = k + l /\ g[0] = 0 /\ \A i \in 0..n : g[i] = e[i]
  BY <1>6 DEF Reads, seg
<1>8. g \in [0..(n + 1) -> Nat]
  <2>1. e[n] + 1 + Len(path[n + 1]) \in Nat BY <1>2, <1>6 DEF seg
  <2> QED BY <1>6, <2>1
<1>9. \A i \in 1..(n + 1) : g[i] = g[i - 1] + 1 + Len(path[i])
  <2>1. ASSUME NEW i \in 1..n PROVE g[i] = g[i - 1] + 1 + Len(path[i])
    <3>1. i \in 0..n /\ i - 1 \in 0..n OBVIOUS
    <3> QED BY <1>7, <3>1 DEF Reads
  <2>2. g[n + 1] = g[n] + 1 + Len(path[n + 1])
    <3>1. n \in 0..n OBVIOUS
    <3> QED BY <1>6, <1>7, <1>2, <3>1 DEF seg
  <2>3. \A i \in 1..(n + 1) : i \in 1..n \/ i = n + 1 OBVIOUS
  <2>4. (n + 1) - 1 = n OBVIOUS
  <2> QED BY <2>1, <2>2, <2>3, <2>4
<1>10. \A i \in 0..(n + 1) : g[i] + 1 \in 1..Len(more) /\ more[g[i] + 1] = sep
  <2>1. ASSUME NEW i \in 0..n PROVE g[i] + 1 \in 1..Len(more) /\ more[g[i] + 1] = sep
    <3>1. e[i] + 1 \in 1..k /\ text[e[i] + 1] = sep BY DEF Reads
    <3>2. more[e[i] + 1] = sep BY <1>5, <3>1
    <3> QED BY <1>2, <1>5, <1>7, <3>1, <3>2
  <2>2. g[n + 1] + 1 \in 1..Len(more) /\ more[g[n + 1] + 1] = sep
    <3>1. k + l + 1 \in (k + 1)..(k + l + 1) /\ k + l + 1 - k = l + 1 BY <1>2
    <3>2. more[k + l + 1] = tail[k + l + 1 - k] BY ONLY <1>5, <3>1
    <3>3. more[k + l + 1] = sep BY ONLY <1>3, <3>1, <3>2
    <3>4. g[n + 1] + 1 = k + l + 1 /\ k + l + 1 \in 1..(k + l + 1) BY ONLY <1>2, <1>7
    <3> QED BY ONLY <1>5, <3>3, <3>4
  <2>3. \A i \in 0..(n + 1) : i \in 0..n \/ i = n + 1 OBVIOUS
  <2> QED BY <2>1, <2>2, <2>3
<1>11. \A i \in 1..(n + 1) : \A j \in 1..Len(path[i]) : more[g[i - 1] + 1 + j] = path[i][j]
  <2>1. ASSUME NEW i \in 1..n, NEW j \in 1..Len(path[i]) PROVE more[g[i - 1] + 1 + j] = path[i][j]
    <3>1. text[e[i - 1] + 1 + j] = path[i][j] BY DEF Reads
    <3>2. i - 1 \in 0..n /\ i \in 0..n OBVIOUS
    <3>3. e[i] = e[i - 1] + 1 + Len(path[i]) /\ e[i] + 1 \in 1..k BY <3>2 DEF Reads
    <3>4. e[i - 1] \in Nat /\ e[i] \in Nat BY <1>6, <3>2
    <3>a. Len(path[i]) \in Nat
      <4>1. IsList(path[i]) OBVIOUS
      <4> QED BY <4>1, LenProperties DEF IsList
    <3>5. e[i - 1] + 1 + j \in 1..k
      <4> HIDE DEF k
      <4> QED BY <1>2, <3>3, <3>4, <3>a, WithinText
    <3> QED BY <1>5, <1>7, <3>1, <3>2, <3>5
  <2>2. ASSUME NEW j \in 1..l PROVE more[g[n] + 1 + j] = seg[j]
    <3>1. n \in 0..n OBVIOUS
    <3>2. g[n] + 1 + j = k + j BY <1>6, <1>7, <3>1
    <3>3. k + j \in (k + 1)..(k + l + 1) /\ (k + j) - k = j BY <1>2
    <3> QED BY <1>3, <1>5, <3>2, <3>3
  <2>3. \A i \in 1..(n + 1) : i \in 1..n \/ i = n + 1 OBVIOUS
  <2>4. (n + 1) - 1 = n OBVIOUS
  <2> QED BY <2>1, <2>2, <2>3, <2>4 DEF seg
<1>12. IsList(more) BY <1>5, ListOfSeq
<1>13. Len(more) = g[n + 1] + 1 BY <1>2, <1>5, <1>7
<1> QED BY <1>7, <1>8, <1>9, <1>10, <1>11, <1>12, <1>13 DEF Reads

(* The text of a path, segment after segment.                                *)
Spells(sep, H, path, S, text) ==
  /\ H[0] = <<>> /\ \A i \in 0..Len(path) : H[i] \in Seq(S)
  /\ \A i \in 1..Len(path) : H[i] = H[i - 1] \o <<sep>> \o path[i]
  /\ text = H[Len(path)]

LEMMA SpelledText ==
  ASSUME NEW sep, NEW path, IsText(sep, path), NEW text,
         \A S : sep \in S /\ path \in Seq(Seq(S)) => \E H : Spells(sep, H, path, S, text)
  PROVE  /\ IsList(text) /\ IsList(text \o <<sep>>)
         /\ \E e : Reads(sep, text \o <<sep>>, path, e, Len(path))
<1> DEFINE P == UNION {Range(seg) : seg \in Range(path)}
           S == P \union {sep}
           n == Len(path)
<1>0. sep \in S
  <2> HIDE DEF P
  <2> QED OBVIOUS
<1>1. path \in Seq(Seq(S))
  <2>1. \A seg \in Range(path) : seg \in Seq(S) BY SeqMonotonic DEF IsText, IsList
  <2>2. Range(path) \subseteq Seq(S) BY <2>1
  <2> HIDE DEF S
  <2> QED BY <2>2, SeqMonotonic DEF IsText, IsList
<1>2. /\ n \in Nat
      /\ \A i \in 1..n : path[i] \in Seq(S) /\ IsList(path[i])
  <2>1. n \in Nat /\ DOMAIN path = 1..n /\ \A i \in 1..n : path[i] \in Seq(S)
    BY <1>1, LenProperties
  <2>2. \A i \in 1..n : path[i] \in Range(path) BY <2>1 DEF Range
  <2> QED BY <2>1, <2>2 DEF IsText
<1> HIDE DEF S
<1>3. PICK H : Spells(sep, H, path, S, text) BY <1>0, <1>1
<1>4. sep \in S /\ <<sep>> \in Seq(S) /\ IsList(<<sep>>)
  <2>1. <<sep>> \in Seq(S) BY <1>0
  <2> QED BY <1>0, <2>1, ListOfSeq
<1> DEFINE T(i) == H[i] \o <<sep>>
           G == {i \in 0..n : IsList(T(i)) /\ \E e : Reads(sep, T(i), path, e, i)}
<1>5. 0 \in G
  <2>1. H[0] = <<>> /\ <<>> \o <<sep>> = <<sep>> BY <1>3, <1>4, ConcatEmptySeq DEF Spells
  <2>2. T(0) = <<sep>> BY <2>1
  <2> DEFINE e == [i \in 0..0 |-> 0]
             u == <<sep>>
  <2>3. Len(u) = 1 /\ u[1] = sep OBVIOUS
  <2> HIDE DEF u
  <2>4. /\ e \in [0..0 -> Nat] /\ e[0] = 0 /\ Len(u) = e[0] + 1
        /\ \A i \in 0..0 : e[i] + 1 \in 1..Len(u) /\ u[e[i] + 1] = sep
        /\ 1..0 = {}
    BY <2>3
  <2> HIDE DEF e
  <2>5. Reads(sep, u, path, e, 0) BY <2>4 DEF Reads
  <2>6. 0 \in 0..n BY <1>2
  <2> QED BY <1>4, <2>2, <2>5, <2>6 DEF u
<1>6. ASSUME NEW i \in 1..n, i - 1 \in G PROVE i \in G
  <2>1. i - 1 \in Nat /\ i \in 0..n /\ (i - 1) + 1 = i /\ i - 1 \in 0..n BY <1>2
  <2>2. PICK e : Reads(sep, T(i - 1), path, e, i - 1) BY <1>6
  <2> DEFINE g == [x \in 0..((i - 1) + 1) |->
                     IF x = (i - 1) + 1 THEN e[i - 1] + 1 + Len(path[(i - 1) + 1]) ELSE e[x]]
  <2>3. T(i) = T(i - 1) \o (path[i] \o <<sep>>)
    <3>1. H[i] = (H[i - 1] \o <<sep>>) \o path[i] BY <1>3 DEF Spells
    <3>2. H[i - 1] \in Seq(S) /\ path[i] \in Seq(S) BY <1>2, <1>3, <2>1 DEF Spells
    <3>3. H[i - 1] \o <<sep>> \in Seq(S) BY <1>4, <3>2, ConcatProperties
    <3> DEFINE a == H[i - 1] \o <<sep>>
               b == path[i]
               c == <<sep>>
    <3>4. a \in Seq(S) /\ b \in Seq(S) /\ c \in Seq(S) BY <1>4, <3>2, <3>3
    <3>5. T(i) = (a \o b) \o c BY <3>1
    <3> HIDE DEF a, b, c
    <3>6. (a \o b) \o c = a \o (b \o c) BY <3>4, ConcatAssociative
    <3> QED BY <3>5, <3>6 DEF a, b, c
  <2>4. \A j \in 1..((i - 1) + 1) : IsList(path[j]) BY <1>2, <2>1
  <2> HIDE DEF T
  <2>5. T(i) = T(i - 1) \o (path[(i - 1) + 1] \o <<sep>>) BY <2>1, <2>3
  <2>6. IsList(T(i - 1)) BY <1>6
  <2> DEFINE k == i - 1
  <2>7. IsList(T(i)) /\ Reads(sep, T(i), path, g, k + 1)
    <3>1. k \in Nat /\ Reads(sep, T(k), path, e, k) /\ IsList(T(k))
          /\ (\A j \in 1..(k + 1) : IsList(path[j]))
          /\ T(i) = T(k) \o (path[k + 1] \o <<sep>>)
      BY <2>1, <2>2, <2>4, <2>5, <2>6
    <3>2. g = [x \in 0..(k + 1) |-> IF x = k + 1 THEN e[k] + 1 + Len(path[k + 1]) ELSE e[x]]
      OBVIOUS
    <3> HIDE DEF k, g
    <3> QED BY <3>1, <3>2, ReadsOn
  <2>8. k + 1 = i BY <2>1
  <2>9. Reads(sep, T(i), path, g, i) BY <2>7, <2>8
  <2> QED BY <2>1, <2>7, <2>9
<1> HIDE DEF G
<1>7. n \in G
  <2>1. 0..n \subseteq G BY <1>2, <1>5, <1>6, Induct
  <2> QED BY <1>2, <2>1
<1>8. T(n) = text \o <<sep>> BY <1>3 DEF Spells
<1>9. IsList(text)
  <2>1. n \in 0..n BY <1>2
  <2>2. text \in Seq(S) BY <1>3, <2>1 DEF Spells
  <2> QED BY <2>2, ListOfSeq
<1> HIDE DEF T
<1> QED BY <1>7, <1>8, <1>9 DEF G

LEMMA SegmentOf ==
  ASSUME NEW sep, NEW path, IsText(sep, path), NEW i \in 1..Len(path)
  PROVE  /\ IsList(path[i]) /\ Len(path[i]) \in Nat
         /\ \A j \in 1..Len(path[i]) : path[i][j] # sep
<1>1. DOMAIN path = 1..Len(path) BY LenProperties DEF IsText, IsList
<1>2. path[i] \in Range(path) BY <1>1 DEF Range
<1> DEFINE seg == path[i]
<1>3. IsList(seg) /\ sep \notin Range(seg) BY <1>2 DEF IsText
<1> HIDE DEF seg
<1>4. Len(seg) \in Nat /\ DOMAIN seg = 1..Len(seg) BY <1>3, LenProperties DEF IsList
<1>5. \A j \in 1..Len(seg) : seg[j] # sep BY <1>3, <1>4 DEF Range
<1> QED BY <1>3, <1>4, <1>5 DEF seg

(* A segment of a text that begins another's is one of the other's.          *)
Segment(sep, text, p, s, k) ==
  /\ IsList(s) /\ k = Len(s) /\ k \in Nat
  /\ \A j \in 1..k : s[j] # sep /\ text[p + 1 + j] = s[j]
  /\ text[p + k + 2] = sep

Agree(ta, tb, n) == \A x \in 1..n : ta[x] = tb[x]

LEMMA SameSegment ==
  ASSUME NEW sep, NEW ta, NEW tb, NEW p \in Nat, NEW s, NEW t, NEW k, NEW l,
         Segment(sep, ta, p, s, k), Segment(sep, tb, p, t, l),
         NEW n \in Nat, p + k + 2 <= n, Agree(ta, tb, n)
  PROVE  s = t
<1> USE DEF Segment, Agree
<1>0. k \in Nat /\ l \in Nat OBVIOUS
<1>1. ~(k < l)
  <2> SUFFICES ASSUME k < l PROVE FALSE OBVIOUS
  <2>1. k + 1 \in 1..l /\ p + 1 + (k + 1) = p + k + 2 /\ p + k + 2 \in 1..n BY <1>0
  <2> QED BY <2>1
<1>2. ~(l < k)
  <2> SUFFICES ASSUME l < k PROVE FALSE OBVIOUS
  <2>1. l + 1 \in 1..k /\ p + 1 + (l + 1) = p + l + 2 /\ p + l + 2 \in 1..n BY <1>0
  <2> QED BY <2>1
<1>3. k = l BY <1>0, <1>1, <1>2
<1>4. ASSUME NEW j \in 1..k PROVE s[j] = t[j]
  <2>1. p + 1 + j \in 1..n /\ j \in 1..l BY <1>3
  <2> QED BY <2>1
<1> DEFINE S == Range(s) \union Range(t)
<1>5. s \in Seq(S) /\ t \in Seq(S) BY SeqMonotonic DEF IsList
<1> HIDE DEF S
<1> QED BY <1>3, <1>4, <1>5, SeqEqual

LEMMA TextBegins ==
  ASSUME NEW sep, NEW a, NEW b, IsText(sep, a), IsText(sep, b), NEW ta, NEW tb, NEW e, NEW f,
         Reads(sep, ta, a, e, Len(a)), Reads(sep, tb, b, f, Len(b)), Begins(ta, tb),
         Len(ta) \in Nat, Len(tb) \in Nat
  PROVE  Begins(a, b)
<1> DEFINE n == Len(a)
           m == Len(b)
           G == {i \in 0..n : i <= m /\ e[i] = f[i] /\ \A j \in 1..i : a[j] = b[j]}
<1>1. n \in Nat /\ m \in Nat BY LenProperties DEF IsText, IsList
<1>2. /\ e \in [0..n -> Nat] /\ e[0] = 0
      /\ \A i \in 1..n : e[i] = e[i - 1] + 1 + Len(a[i])
      /\ \A i \in 0..n : e[i] + 1 \in 1..Len(ta) /\ ta[e[i] + 1] = sep
      /\ \A i \in 1..n : \A j \in 1..Len(a[i]) : ta[e[i - 1] + 1 + j] = a[i][j]
  BY DEF Reads
<1>3. /\ f \in [0..m -> Nat] /\ f[0] = 0 /\ Len(tb) = f[m] + 1
      /\ \A i \in 1..m : f[i] = f[i - 1] + 1 + Len(b[i])
      /\ \A i \in 0..m : f[i] + 1 \in 1..Len(tb) /\ tb[f[i] + 1] = sep
      /\ \A i \in 1..m : \A j \in 1..Len(b[i]) : tb[f[i - 1] + 1 + j] = b[i][j]
  BY DEF Reads
<1> DEFINE k == Len(ta)
<1>4. k \in Nat /\ k <= Len(tb) /\ \A x \in 1..k : ta[x] = tb[x] BY DEF Begins
<1>a. \A i \in 1..n : IsList(a[i]) /\ Len(a[i]) \in Nat /\ \A j \in 1..Len(a[i]) : a[i][j] # sep
  BY SegmentOf
<1>b. \A i \in 1..m : IsList(b[i]) /\ Len(b[i]) \in Nat /\ \A j \in 1..Len(b[i]) : b[i][j] # sep
  BY SegmentOf
<1> HIDE DEF n, m, k
<1>5. 0 \in G
  <2>1. 0 \in 0..n /\ 0 <= m /\ 1..0 = {} BY <1>1
  <2> QED BY <1>2, <1>3, <2>1
<1>6. ASSUME NEW i \in 1..n, i - 1 \in G PROVE i \in G
  <2> DEFINE p == e[i - 1]
             la == Len(a[i])
  <2>1. /\ i - 1 \in 0..n /\ i \in 0..n /\ i \in Nat /\ i - 1 <= m /\ p = f[i - 1] /\ p \in Nat
        /\ \A j \in 1..(i - 1) : a[j] = b[j]
    BY <1>1, <1>2, <1>6
  <2>2. la \in Nat /\ IsList(a[i]) /\ (\A j \in 1..la : a[i][j] # sep) BY <1>a
  <2>3. /\ e[i] = p + 1 + la /\ e[i] + 1 \in 1..k /\ ta[e[i] + 1] = sep
        /\ \A j \in 1..la : ta[p + 1 + j] = a[i][j]
    BY <1>2, <2>1 DEF k
  <2> HIDE DEF p, la
  <2>4. p + la + 2 <= k BY <1>4, <2>1, <2>2, <2>3
  <2>5. i <= m
    <3>1. CASE i - 1 = m
      <4>1. Len(tb) = p + 1 BY <1>3, <2>1, <3>1
      <4> QED BY <1>4, <2>1, <2>2, <2>4, <4>1
    <3> QED BY <1>1, <2>1, <3>1
  <2> DEFINE lb == Len(b[i])
  <2>6. i \in 1..m /\ i \in 0..m BY <1>1, <2>1, <2>5
  <2>7. lb \in Nat /\ IsList(b[i]) /\ (\A j \in 1..lb : b[i][j] # sep) BY <1>b, <2>6
  <2>8. /\ f[i] = p + 1 + lb /\ tb[f[i] + 1] = sep
        /\ \A j \in 1..lb : tb[p + 1 + j] = b[i][j]
    BY <1>3, <2>1, <2>6
  <2>9. a[i] = b[i]
    <3> DEFINE s == a[i]
               t == b[i]
    <3>1. ta[p + la + 2] = sep
      <4>1. e[i] + 1 = p + la + 2 BY <2>1, <2>2, <2>3
      <4> QED BY <2>3, <4>1
    <3>2. tb[p + lb + 2] = sep
      <4> HIDE DEF lb
      <4>1. f[i] + 1 = p + lb + 2 BY <2>1, <2>7, <2>8
      <4> QED BY <2>8, <4>1
    <3>3. /\ IsList(s) /\ IsList(t) /\ la = Len(s) /\ lb = Len(t)
          /\ \A j \in 1..la : s[j] # sep /\ ta[p + 1 + j] = s[j]
          /\ \A j \in 1..lb : t[j] # sep /\ tb[p + 1 + j] = t[j]
      BY <2>2, <2>3, <2>7, <2>8 DEF la
    <3>4. p \in Nat /\ la \in Nat /\ lb \in Nat /\ k \in Nat BY <1>4, <2>1, <2>2, <2>7
    <3> HIDE DEF s, t, lb
    <3>5. Segment(sep, ta, p, s, la) /\ Segment(sep, tb, p, t, lb) BY <3>1, <3>2, <3>3, <3>4 DEF Segment
    <3>6. Agree(ta, tb, k) BY <1>4 DEF Agree
    <3>7. s = t BY ONLY <2>4, <3>4, <3>5, <3>6, SameSegment
    <3> QED BY <3>7 DEF s, t
  <2>10. e[i] = f[i] BY <2>3, <2>8, <2>9 DEF la
  <2>11. \A j \in 1..i : a[j] = b[j]
    <3>1. \A j \in 1..i : j \in 1..(i - 1) \/ j = i BY <2>1
    <3> QED BY <2>1, <2>9, <3>1
  <2> QED BY <2>1, <2>5, <2>10, <2>11
<1> HIDE DEF G
<1>7. 0..n \subseteq G BY <1>1, <1>5, <1>6, Induct
<1>8. n \in G BY <1>1, <1>7
<1> QED BY <1>8 DEF G, Begins, n, m
=============================================================================
