-------------------------- MODULE LayerStack_proofs --------------------------
(***************************************************************************)
(* What the operators of LayerStack compute, for every sequence.  The      *)
(* theorems of the library that give induction and recursion take an       *)
(* operator as a parameter, so both are built here from its least element  *)
(* principle (WFMin), with sets and functions in place of operators.       *)
(***************************************************************************)
EXTENDS LayerStack, Lists, FiniteSetTheorems, SequenceTheorems, WellFoundedInduction, TLAPS

-----------------------------------------------------------------------------
(* Induction.                                                              *)

\* A set that has 0, and with a number the next, has all of Nat.
LEMMA NatInSet ==
  ASSUME NEW S, 0 \in S, \A n \in Nat : n \in S => n + 1 \in S
  PROVE  \A n \in Nat : n \in S
<1> SUFFICES ASSUME NEW a \in Nat, a \notin S PROVE FALSE
  OBVIOUS
<1> DEFINE T == {n \in Nat : n \notin S}
<1>1. PICK m \in T : \A k \in T : <<k, m>> \notin OpToRel(<, Nat)
  BY WFMin, NatLessThanWellFounded, Zenon
<1>2. \A k \in T : ~(k < m)
  BY <1>1, Zenon DEF OpToRel
<1>3. m # 0 /\ m - 1 \in Nat /\ m - 1 \notin S
  BY <1>2, m \in T
<1> QED BY <1>3, <1>2

\* A set that has the empty sequence, and with a sequence what Append makes of
\* it, has all sequences.
LEMMA SeqInSet ==
  ASSUME NEW E, NEW S, <<>> \in S,
         \A s \in Seq(E), e \in E : s \in S => Append(s, e) \in S
  PROVE  \A s \in Seq(E) : s \in S
<1> DEFINE N == {n \in Nat : \A s \in Seq(E) : Len(s) = n => s \in S}
<1>1. 0 \in N
  OBVIOUS
<1>2. ASSUME NEW n \in Nat, n \in N PROVE n + 1 \in N
  <2> SUFFICES ASSUME NEW s \in Seq(E), Len(s) = n + 1 PROVE s \in S
    OBVIOUS
  <2>1. PICK r \in Seq(E), e \in E : s = Append(r, e)
    BY SequenceEmptyOrAppend
  <2>2. Len(r) = n
    BY <2>1
  <2> QED BY <1>2, <2>1, <2>2
<1>3. \A n \in Nat : n \in N
  <2> HIDE DEF N
  <2> QED BY <1>1, <1>2, NatInSet
<1> QED BY <1>3

-----------------------------------------------------------------------------
(* Folds.                                                                  *)

Top(S) == CHOOSE x \in S : \A y \in S : x >= y

LEMMA TopOfInterval ==
  ASSUME NEW n \in Nat, NEW S \in SUBSET (1 .. n + 1)
  PROVE  /\ n + 1 \in S => Top(S) = n + 1 /\ S \ {Top(S)} \in SUBSET (1 .. n)
         /\ n + 1 \notin S => S \in SUBSET (1 .. n)
<1>1. n + 1 \notin S => S \in SUBSET (1 .. n)
  OBVIOUS
<1>2. ASSUME n + 1 \in S PROVE Top(S) = n + 1
  <2>1. \A y \in S : n + 1 >= y
    OBVIOUS
  <2>2. \A x \in S : (\A y \in S : x >= y) => x = n + 1
    BY <1>2
  <2> QED BY <1>2, <2>1, <2>2 DEF Top
<1>3. ASSUME n + 1 \in S PROVE S \ {n + 1} \in SUBSET (1 .. n)
  OBVIOUS
<1> QED BY <1>1, <1>2, <1>3

LEMMA TopIn ==
  ASSUME NEW n \in Nat, NEW S \in SUBSET (1 .. n), S # {}
  PROVE  Top(S) \in S /\ S \ {Top(S)} \in SUBSET (1 .. n)
<1> DEFINE Has(m) == \A R \in SUBSET (1 .. m) : R # {} => Top(R) \in R
           N == {m \in Nat : Has(m)}
<1>1. Has(0)
  <2>1. 1 .. 0 = {}
    OBVIOUS
  <2> QED BY <2>1, Zenon
<1>2. ASSUME NEW m \in Nat, Has(m) PROVE Has(m + 1)
  <2> SUFFICES ASSUME NEW R \in SUBSET (1 .. m + 1), R # {} PROVE Top(R) \in R
    OBVIOUS
  <2>1. CASE m + 1 \in R
    BY <2>1, TopOfInterval
  <2>2. CASE m + 1 \notin R
    BY <2>2, <1>2, TopOfInterval, Zenon
  <2> QED BY <2>1, <2>2
<1>3. \A m \in Nat : m \in N
  <2>1. 0 \in N /\ \A m \in Nat : m \in N => m + 1 \in N
    <3> HIDE DEF Has
    <3> QED BY <1>1, <1>2
  <2> HIDE DEF N
  <2> QED BY <2>1, NatInSet
<1>4. Has(n)
  <2> HIDE DEF Has
  <2> QED BY <1>3
<1> QED BY <1>4

FoldOf(it, D, base, d, n) ==
  /\ it \in [SUBSET (1 .. n) -> D]
  /\ \A S \in SUBSET (1 .. n) :
       it[S] = IF S = {} THEN base ELSE d[Top(S)][it[S \ {Top(S)}]]

\* A fold of a function d over 1 .. n is defined: it has the equation that its
\* recursive definition writes down.
LEMMA FoldExists ==
  ASSUME NEW D, NEW base \in D, NEW n \in Nat, NEW d \in [1 .. n -> [D -> D]]
  PROVE  \E it : FoldOf(it, D, base, d, n)
<1> DEFINE Fits(it, m) ==
      \A S \in SUBSET (1 .. m) :
        it[S] = IF S = {} THEN base ELSE d[Top(S)][it[S \ {Top(S)}]]
    Done(m) == m <= n => \E it \in [SUBSET (1 .. m) -> D] : Fits(it, m)
    N == {m \in Nat : Done(m)}
<1>1. Done(0)
  <2>1. [S \in SUBSET (1 .. 0) |-> base] \in [SUBSET (1 .. 0) -> D]
    OBVIOUS
  <2>2. Fits([S \in SUBSET (1 .. 0) |-> base], 0)
    OBVIOUS
  <2> HIDE DEF Fits
  <2> QED BY <2>1, <2>2
<1>2. ASSUME NEW m \in Nat, Done(m) PROVE Done(m + 1)
  <2> SUFFICES ASSUME m + 1 <= n
               PROVE  \E it \in [SUBSET (1 .. m + 1) -> D] : Fits(it, m + 1)
    OBVIOUS
  <2>1. PICK old \in [SUBSET (1 .. m) -> D] : Fits(old, m)
    <3>1. m <= n
      OBVIOUS
    <3> QED BY <1>2, <3>1, Zenon
  <2> DEFINE it == [S \in SUBSET (1 .. m + 1) |->
                      IF m + 1 \in S THEN d[m + 1][old[S \ {m + 1}]] ELSE old[S]]
  <2>2. ASSUME NEW S \in SUBSET (1 .. m + 1) PROVE it[S] \in D
    <3>1. CASE m + 1 \in S
      <4>1. S \ {m + 1} \in SUBSET (1 .. m) /\ m + 1 \in 1 .. n
        OBVIOUS
      <4> QED BY <4>1, <3>1
    <3>2. CASE m + 1 \notin S
      <4>1. S \in SUBSET (1 .. m)
        BY <3>2
      <4> QED BY <4>1, <3>2
    <3> QED BY <3>1, <3>2
  <2>3. ASSUME NEW S \in SUBSET (1 .. m + 1), S # {}
        PROVE  it[S] = d[Top(S)][it[S \ {Top(S)}]]
    <3>1. CASE m + 1 \in S
      <4>1. Top(S) = m + 1 /\ S \ {Top(S)} \in SUBSET (1 .. m)
        BY <3>1, TopOfInterval
      <4> QED BY <4>1, <3>1
    <3>2. CASE m + 1 \notin S
      <4>1. S \in SUBSET (1 .. m)
        BY <3>2, TopOfInterval
      <4>2. Top(S) \in S /\ S \ {Top(S)} \in SUBSET (1 .. m)
        BY <4>1, <2>3, TopIn
      <4>3. it[S] = old[S] /\ it[S \ {Top(S)}] = old[S \ {Top(S)}]
        BY <3>2, <4>1, <4>2
      <4> QED BY <4>1, <4>3, <2>1, <2>3
    <3> QED BY <3>1, <3>2
  <2>4. it[{}] = base
    BY <2>1
  <2>5. it \in [SUBSET (1 .. m + 1) -> D]
    BY <2>2
  <2>6. Fits(it, m + 1)
    <3> HIDE DEF it
    <3> QED BY <2>3, <2>4
  <2> HIDE DEF Fits, it
  <2> QED BY <2>5, <2>6
<1>3. \A m \in Nat : m \in N
  <2>1. 0 \in N /\ \A m \in Nat : m \in N => m + 1 \in N
    <3> HIDE DEF Done
    <3> QED BY <1>1, <1>2
  <2> HIDE DEF N
  <2> QED BY <2>1, NatInSet
<1>4. Done(n) /\ n <= n
  <2> HIDE DEF Done
  <2> QED BY <1>3
<1>5. PICK it \in [SUBSET (1 .. n) -> D] : Fits(it, n)
  BY <1>4, Zenon
<1> QED BY <1>5 DEF FoldOf

\* Two runs of the same steps agree to the end.
LEMMA StepsAgree ==
  ASSUME NEW n \in Nat, NEW g, NEW h, g[0] = h[0],
         \A k \in 1 .. n : g[k - 1] = h[k - 1] => g[k] = h[k]
  PROVE  g[n] = h[n]
<1> DEFINE N == {k \in Nat : k <= n => g[k] = h[k]}
<1>1. 0 \in N /\ \A k \in Nat : k \in N => k + 1 \in N
  OBVIOUS
<1>2. n \in N
  <2> HIDE DEF N
  <2> QED BY <1>1, NatInSet
<1> QED BY <1>2

Unfolds(it, base, op, n) ==
  \A S \in SUBSET (1 .. n) : it[S] = IF S = {} THEN base ELSE op[S]

\* The function a fold is made of, along the prefixes of a sequence.
LEMMA FoldAlong ==
  ASSUME NEW n \in Nat, NEW it, NEW base, NEW op,
         Unfolds(it, base, op, n)
  PROVE  /\ it[1 .. 0] = base
         /\ \A k \in 1 .. n : /\ it[1 .. k] = op[1 .. k]
                              /\ Top(1 .. k) = k
                              /\ (1 .. k) \ {Top(1 .. k)} = 1 .. k - 1
<1>1. 1 .. 0 = {} /\ {} \in SUBSET (1 .. n)
  OBVIOUS
<1>2. ASSUME NEW k \in 1 .. n
      PROVE  /\ 1 .. k \in SUBSET (1 .. n) /\ 1 .. k # {}
             /\ k - 1 \in Nat /\ (k - 1) + 1 = k /\ k \in 1 .. k
             /\ (1 .. k) \ {k} = 1 .. k - 1
  <2>1. k \in 1 .. k
    OBVIOUS
  <2>2. (1 .. k) \ {k} = 1 .. k - 1
    OBVIOUS
  <2> QED BY <2>1, <2>2
<1>3. ASSUME NEW k \in 1 .. n PROVE Top(1 .. k) = k
  BY <1>2, TopOfInterval
<1> QED BY <1>1, <1>2, <1>3 DEF Unfolds

-----------------------------------------------------------------------------
(* Lists.                                                                  *)

IsList(s) == s \in Seq({s[i] : i \in DOMAIN s})

LEMMA ListIs ==
  ASSUME NEW s
  PROVE  IsList(s) <=> \E n \in Nat : DOMAIN s = 1 .. n /\ s = [i \in 1 .. n |-> s[i]]
<1>1. ASSUME IsList(s) PROVE \E n \in Nat : DOMAIN s = 1 .. n /\ s = [i \in 1 .. n |-> s[i]]
  <2>1. Len(s) \in Nat /\ DOMAIN s = 1 .. Len(s) /\ s = [i \in 1 .. Len(s) |-> s[i]]
    BY <1>1 DEF IsList
  <2> QED BY <2>1
<1>2. ASSUME NEW n \in Nat, DOMAIN s = 1 .. n, s = [i \in 1 .. n |-> s[i]] PROVE IsList(s)
  <2> DEFINE E == {s[i] : i \in DOMAIN s}
  <2>1. s \in [1 .. n -> E]
    <3>1. \A i \in 1 .. n : s[i] \in E
      BY <1>2
    <3> HIDE DEF E
    <3> QED BY <1>2, <3>1
  <2>2. s \in Seq(E)
    <3> HIDE DEF E
    <3> QED BY <2>1
  <2> QED BY <2>2 DEF IsList
<1> QED BY <1>1, <1>2

LEMMA ListOfSeq == ASSUME NEW S, NEW s \in Seq(S) PROVE IsList(s)
  BY ListIs

LEMMA ListLen ==
  ASSUME NEW s, IsList(s)
  PROVE  /\ Len(s) \in Nat /\ DOMAIN s = 1 .. Len(s)
         /\ s = [i \in DOMAIN s |-> s[i]]
         /\ s = <<>> <=> Len(s) = 0
  BY DEF IsList

\* A list made anew over the same positions.
LEMMA ListMap ==
  ASSUME NEW s, IsList(s), NEW t, DOMAIN t = DOMAIN s, t = [i \in DOMAIN s |-> t[i]]
  PROVE  IsList(t) /\ Len(t) = Len(s)
<1>1. DOMAIN t = 1 .. Len(s) /\ Len(s) \in Nat
  BY ListLen
<1>2. IsList(t)
  BY <1>1, ListIs
<1>3. Len(t) \in Nat /\ DOMAIN t = 1 .. Len(t)
  BY <1>2, ListLen
<1> QED BY <1>1, <1>2, <1>3

\* One more at the end.
LEMMA ListAppend ==
  ASSUME NEW s, IsList(s), NEW x
  PROVE  /\ IsList(Append(s, x)) /\ Len(Append(s, x)) = Len(s) + 1
         /\ Append(s, x)[Len(s) + 1] = x
         /\ \A i \in DOMAIN s : Append(s, x)[i] = s[i]
<1> DEFINE E == {s[i] : i \in DOMAIN s} \union {x}
<1>1. s \in Seq(E) /\ x \in E
  <2>1. s \in Seq({s[i] : i \in DOMAIN s})
    BY DEF IsList
  <2> QED BY <2>1
<1> HIDE DEF E
<1>2. /\ Append(s, x) \in Seq(E) /\ Len(Append(s, x)) = Len(s) + 1
      /\ Append(s, x)[Len(s) + 1] = x
      /\ \A i \in DOMAIN s : Append(s, x)[i] = s[i]
  BY <1>1
<1> QED BY <1>2, ListOfSeq

\* One less.
LEMMA ListRemove ==
  ASSUME NEW s, IsList(s), NEW k \in DOMAIN s
  PROVE  /\ IsList(RemoveAt(s, k)) /\ Len(RemoveAt(s, k)) = Len(s) - 1
         /\ \A i \in DOMAIN RemoveAt(s, k) :
              RemoveAt(s, k)[i] = IF i < k THEN s[i] ELSE s[i + 1]
<1> DEFINE E == {s[i] : i \in DOMAIN s}
           l == SubSeq(s, 1, k - 1)
           r == SubSeq(s, k + 1, Len(s))
<1>1. s \in Seq(E) /\ Len(s) \in Nat /\ DOMAIN s = 1 .. Len(s) /\ k \in 1 .. Len(s)
  BY ListLen DEF IsList
<1> HIDE DEF E
<1>2. /\ l \in Seq(E) /\ Len(l) = k - 1 /\ \A i \in 1 .. k - 1 : l[i] = s[i]
  BY <1>1
<1>3. /\ r \in Seq(E) /\ Len(r) = Len(s) - k /\ \A i \in 1 .. Len(s) - k : r[i] = s[k + i]
  BY <1>1
<1> HIDE DEF l, r
<1>4. /\ l \o r \in Seq(E) /\ Len(l \o r) = Len(s) - 1
      /\ DOMAIN (l \o r) = 1 .. Len(s) - 1
      /\ \A i \in 1 .. Len(s) - 1 : (l \o r)[i] = IF i <= k - 1 THEN l[i] ELSE r[i - (k - 1)]
  <2>1. /\ l \o r \in Seq(E) /\ Len(l \o r) = Len(l) + Len(r)
        /\ \A i \in 1 .. Len(l) + Len(r) :
             (l \o r)[i] = IF i <= Len(l) THEN l[i] ELSE r[i - Len(l)]
    BY <1>2, <1>3, ConcatProperties
  <2>2. Len(l) + Len(r) = Len(s) - 1
    BY <1>1, <1>2, <1>3
  <2>3. DOMAIN (l \o r) = 1 .. Len(l \o r)
    BY <2>1
  <2> QED BY <2>1, <2>2, <2>3, <1>2
<1>5. ASSUME NEW i \in 1 .. Len(s) - 1
      PROVE  (l \o r)[i] = IF i < k THEN s[i] ELSE s[i + 1]
  <2>1. CASE i < k
    <3>1. i <= k - 1 /\ i \in 1 .. k - 1
      BY <2>1, <1>1
    <3> QED BY <3>1, <1>4, <1>2, <2>1
  <2>2. CASE ~(i < k)
    <3>1. ~(i <= k - 1) /\ i - (k - 1) \in 1 .. Len(s) - k /\ k + (i - (k - 1)) = i + 1
      BY <2>2, <1>1
    <3> QED BY <3>1, <1>4, <1>3, <2>2
  <2> QED BY <2>1, <2>2
<1>6. RemoveAt(s, k) = l \o r
  BY DEF RemoveAt, l, r
<1> QED BY <1>4, <1>5, <1>6, ListOfSeq

-----------------------------------------------------------------------------
(* Sequences without repetitions.                                          *)

LEMMA AppendSet ==
  ASSUME NEW L, NEW s \in Seq(L), NEW x \in L
  PROVE  /\ Append(s, x) \in Seq(L)
         /\ ToSet(Append(s, x)) = ToSet(s) \union {x}
         /\ IsInjective(Append(s, x)) <=> IsInjective(s) /\ x \notin ToSet(s)
<1> DEFINE t == Append(s, x)
           n == Len(s)
<1>1. /\ n \in Nat /\ DOMAIN s = 1 .. n
      /\ t \in Seq(L) /\ Len(t) = n + 1 /\ DOMAIN t = 1 .. n + 1
      /\ \A k \in 1 .. n : t[k] = s[k]
      /\ t[n + 1] = x
  OBVIOUS
<1> HIDE DEF t, n
<1>2. 1 .. n + 1 = 1 .. n \union {n + 1} /\ n + 1 \notin 1 .. n
  BY <1>1
<1>3. ToSet(t) = ToSet(s) \union {x}
  <2>1. ToSet(t) = {t[i] : i \in 1 .. n} \union {t[n + 1]}
    BY <1>1, <1>2 DEF ToSet
  <2>2. {t[i] : i \in 1 .. n} = {s[i] : i \in 1 .. n}
    BY <1>1
  <2> QED BY <2>1, <2>2, <1>1 DEF ToSet
<1>4. IsInjective(t) <=> IsInjective(s) /\ x \notin ToSet(s)
  BY <1>1, <1>2 DEF IsInjective, ToSet
<1> QED BY <1>1, <1>3, <1>4 DEF t

\* Contains of SequencesExt, by the set of the elements.
LEMMA ContainsIs ==
  ASSUME NEW L, NEW s \in Seq(L), NEW x
  PROVE  Contains(s, x) <=> x \in ToSet(s)
<1>1. DOMAIN s = 1 .. Len(s)
  OBVIOUS
<1> QED BY <1>1 DEF Contains, ToSet

\* What is left after the first.
LEMMA TailIs ==
  ASSUME NEW L, NEW s \in Seq(L), s # <<>>
  PROVE  /\ Head(s) \in L /\ Tail(s) \in Seq(L) /\ Head(s) \in ToSet(s)
         /\ ToSet(s) = {Head(s)} \union ToSet(Tail(s))
         /\ IsInjective(s) => /\ IsInjective(Tail(s))
                              /\ ToSet(Tail(s)) = ToSet(s) \ {Head(s)}
<1> DEFINE t == Tail(s)
           h == Head(s)
<1>1. /\ h \in L /\ t \in Seq(L) /\ Len(t) = Len(s) - 1 /\ Len(s) \in Nat \ {0}
      /\ h = s[1] /\ \A i \in 1 .. Len(t) : t[i] = s[i + 1]
      /\ DOMAIN s = 1 .. Len(s) /\ DOMAIN t = 1 .. Len(t)
  OBVIOUS
<1> HIDE DEF t, h
<1>2. ToSet(s) = {s[i] : i \in 1 .. Len(s)} /\ ToSet(t) = {t[i] : i \in 1 .. Len(t)}
  BY <1>1 DEF ToSet
<1>3. h \in ToSet(s) /\ ToSet(t) \subseteq ToSet(s)
  BY <1>1, <1>2
<1>4. \A i \in 1 .. Len(s) : i = 1 \/ (i - 1 \in 1 .. Len(t) /\ s[i] = t[i - 1])
  BY <1>1
<1>5. ToSet(s) \subseteq {h} \union ToSet(t)
  BY <1>1, <1>2, <1>4
<1>6. ASSUME IsInjective(s) PROVE IsInjective(t) /\ h \notin ToSet(t)
  <2>1. \A a, b \in 1 .. Len(s) : s[a] = s[b] => a = b
    BY <1>1, <1>6 DEF IsInjective
  <2>2. \A a, b \in 1 .. Len(t) : t[a] = t[b] => a = b
    BY <1>1, <2>1
  <2>3. \A i \in 1 .. Len(t) : t[i] # h
    BY <1>1, <2>1
  <2> QED BY <1>1, <1>2, <2>2, <2>3 DEF IsInjective
<1> QED BY <1>1, <1>3, <1>5, <1>6 DEF t, h

\* Stacks(S) are the sequences without repetitions.
LEMMA StacksAre ==
  ASSUME NEW S, IsFiniteSet(S), NEW s
  PROVE  s \in Stacks(S) <=> s \in Seq(S) /\ IsInjective(s)
<1>1. Cardinality(S) \in Nat
  BY FS_CardinalityType
<1>2. ASSUME s \in Stacks(S) PROVE s \in Seq(S) /\ IsInjective(s)
  <2>1. PICK m \in 0 .. Cardinality(S) : s \in [1 .. m -> S]
    BY <1>2 DEF Stacks, SeqOf
  <2> QED BY <2>1, <1>1, <1>2 DEF Stacks
<1>3. ASSUME s \in Seq(S), IsInjective(s) PROVE s \in Stacks(S)
  <2>1. /\ Len(s) \in Nat /\ s \in [1 .. Len(s) -> S]
    BY <1>3
  <2>2. s \in Injection(1 .. Len(s), S)
    BY <2>1, <1>3 DEF Injection
  <2>3. Cardinality(1 .. Len(s)) <= Cardinality(S)
    BY <2>2, FS_Injection
  <2>4. Cardinality(1 .. Len(s)) = Len(s)
    <3>1. 1 \in Int /\ Len(s) \in Int
      BY <2>1
    <3>2. Cardinality(1 .. Len(s)) = IF 1 > Len(s) THEN 0 ELSE Len(s) - 1 + 1
      BY <3>1, FS_Interval
    <3> QED BY <3>2, <2>1
  <2>5. Len(s) \in 0 .. Cardinality(S)
    BY <1>1, <2>1, <2>3, <2>4
  <2> QED BY <2>1, <2>5, <1>3 DEF Stacks, SeqOf
<1> QED BY <1>2, <1>3

\* The stack before keyd has spoken.
LEMMA EmptyStack ==
  ASSUME NEW S, IsFiniteSet(S)
  PROVE  <<>> \in Stacks(S) /\ ToSet(<<>>) = {}
<1> DEFINE z == <<>>
<1>1. z \in Seq(S) /\ IsInjective(z) /\ ToSet(z) = {}
  BY DEF IsInjective, ToSet
<1>2. z \in Stacks(S)
  <2> HIDE DEF z
  <2> QED BY <1>1, StacksAre
<1> QED BY <1>1, <1>2

-----------------------------------------------------------------------------
(* Among.                                                                  *)

\* Among goes through the sequence.
LEMMA AmongSteps ==
  ASSUME NEW L, NEW s \in Seq(L), NEW S
  PROVE  \E h : /\ h[0] = <<>>
                /\ \A k \in 1 .. Len(s) :
                     h[k] = IF s[k] \in S THEN Append(h[k - 1], s[k]) ELSE h[k - 1]
                /\ Among(s, S) = h[Len(s)]
<1> DEFINE n == Len(s)
           op(kept, x) == IF x \in S THEN Append(kept, x) ELSE kept
           d == [k \in 1 .. n |-> [kept \in Seq(L) |-> op(kept, s[k])]]
           Eqn(it) == it = [T \in SUBSET DOMAIN s |->
                              IF T = {} THEN <<>> ELSE op(it[T \ {Top(T)}], s[Top(T)])]
           it == CHOOSE it : Eqn(it)
<1>1. n \in Nat /\ DOMAIN s = 1 .. n
  OBVIOUS
<1>2. Among(s, S) = it[DOMAIN s]
  BY DEF Among, FoldLeft, MapThenFoldSet, Max, Top
<1>3. \E jt : Eqn(jt)
  <2>1. d \in [1 .. n -> [Seq(L) -> Seq(L)]]
    OBVIOUS
  <2>2. <<>> \in Seq(L)
    OBVIOUS
  <2>3. PICK jt : FoldOf(jt, Seq(L), <<>>, d, n)
    <3> HIDE DEF d, n
    <3> QED BY <2>1, <2>2, <1>1, FoldExists
  <2>4. ASSUME NEW T \in SUBSET (1 .. n), T # {}
        PROVE  d[Top(T)][jt[T \ {Top(T)}]] = op(jt[T \ {Top(T)}], s[Top(T)])
    <3>1. Top(T) \in 1 .. n /\ T \ {Top(T)} \in SUBSET (1 .. n)
      BY <2>4, TopIn, <1>1
    <3> QED BY <3>1, <2>3 DEF FoldOf
  <2>5. jt = [T \in SUBSET (1 .. n) |->
                IF T = {} THEN <<>> ELSE op(jt[T \ {Top(T)}], s[Top(T)])]
    <3> HIDE DEF d, op, n
    <3> QED BY <2>3, <2>4 DEF FoldOf
  <2> QED BY <2>5, <1>1
<1>4. Eqn(it)
  <2> HIDE DEF Eqn
  <2> QED BY <1>3
<1> DEFINE h == [k \in 0 .. n |-> it[1 .. k]]
<1>5. /\ it[1 .. 0] = <<>>
      /\ \A k \in 1 .. n : it[1 .. k] = op(it[1 .. k - 1], s[k])
  <2> DEFINE o == [T \in SUBSET (1 .. n) |-> op(it[T \ {Top(T)}], s[Top(T)])]
  <2>1. Unfolds(it, <<>>, o, n)
    <3> HIDE DEF it, op
    <3> QED BY <1>4, <1>1 DEF Unfolds
  <2>2. /\ it[1 .. 0] = <<>>
        /\ \A k \in 1 .. n : /\ it[1 .. k] = o[1 .. k]
                             /\ Top(1 .. k) = k
                             /\ (1 .. k) \ {Top(1 .. k)} = 1 .. k - 1
    <3> HIDE DEF it, o, n
    <3> QED BY <2>1, <1>1, FoldAlong
  <2>3. \A k \in 1 .. n : 1 .. k \in SUBSET (1 .. n)
    OBVIOUS
  <2> HIDE DEF it, op
  <2> QED BY <2>2, <2>3
<1>6. /\ h[0] = <<>>
      /\ \A k \in 1 .. n : h[k] = op(h[k - 1], s[k])
      /\ Among(s, S) = h[n]
  <2> HIDE DEF it, op
  <2> QED BY <1>1, <1>2, <1>5
<1> HIDE DEF h
<1> QED BY <1>6

LEMMA AmongEmpty ==
  ASSUME NEW S PROVE Among(<<>>, S) = <<>>
<1> DEFINE s == <<>>
<1>1. s \in Seq({}) /\ Len(s) = 0
  OBVIOUS
<1> HIDE DEF s
<1>2. PICK h : /\ h[0] = <<>>
               /\ \A k \in 1 .. Len(s) :
                    h[k] = IF s[k] \in S THEN Append(h[k - 1], s[k]) ELSE h[k - 1]
               /\ Among(s, S) = h[Len(s)]
  BY <1>1, AmongSteps
<1> QED BY <1>1, <1>2 DEF s

LEMMA AmongAppend ==
  ASSUME NEW L, NEW s \in Seq(L), NEW x \in L, NEW S
  PROVE  Among(Append(s, x), S) =
           IF x \in S THEN Append(Among(s, S), x) ELSE Among(s, S)
<1> DEFINE t == Append(s, x)
           n == Len(s)
<1>0. /\ t \in Seq(L) /\ Len(t) = n + 1 /\ n \in Nat
      /\ \A k \in 1 .. n : t[k] = s[k]
      /\ t[n + 1] = x
  OBVIOUS
<1> HIDE DEF t
<1>1. PICK g : /\ g[0] = <<>>
               /\ \A k \in 1 .. n :
                    g[k] = IF s[k] \in S THEN Append(g[k - 1], s[k]) ELSE g[k - 1]
               /\ Among(s, S) = g[n]
  BY AmongSteps
<1>2. PICK h : /\ h[0] = <<>>
               /\ \A k \in 1 .. Len(t) :
                    h[k] = IF t[k] \in S THEN Append(h[k - 1], t[k]) ELSE h[k - 1]
               /\ Among(t, S) = h[Len(t)]
  BY <1>0, AmongSteps
<1>3. g[n] = h[n]
  <2>1. \A k \in 1 .. n : g[k - 1] = h[k - 1] => g[k] = h[k]
    BY <1>0, <1>1, <1>2
  <2> QED BY <1>0, <1>1, <1>2, <2>1, StepsAgree
<1>4. Among(t, S) = IF x \in S THEN Append(h[n], x) ELSE h[n]
  BY <1>0, <1>2
<1> QED BY <1>1, <1>3, <1>4 DEF t

\* Among keeps those of the sequence that are in the set, and adds no repetition.
LEMMA AmongIs ==
  ASSUME NEW L, NEW S, NEW s \in Seq(L)
  PROVE  /\ Among(s, S) \in Seq(L)
         /\ ToSet(Among(s, S)) = ToSet(s) \intersect S
         /\ IsInjective(s) => IsInjective(Among(s, S))
<1> DEFINE Good(t) == /\ Among(t, S) \in Seq(L)
                      /\ ToSet(Among(t, S)) = ToSet(t) \intersect S
                      /\ IsInjective(t) => IsInjective(Among(t, S))
           T == {t \in Seq(L) : Good(t)}
<1>1. Good(<<>>)
  <2> DEFINE z == <<>>
  <2>1. Among(z, S) = z
    BY AmongEmpty
  <2>2. z \in Seq(L) /\ ToSet(z) = {} /\ IsInjective(z)
    BY DEF ToSet, IsInjective
  <2> HIDE DEF z
  <2>3. Good(z)
    BY <2>1, <2>2
  <2> QED BY <2>3 DEF z
<1>2. ASSUME NEW t \in Seq(L), NEW x \in L, Good(t) PROVE Good(Append(t, x))
  <2> DEFINE u == Append(t, x)
             w == Among(t, S)
  <2>1. Among(u, S) = IF x \in S THEN Append(w, x) ELSE w
    BY AmongAppend
  <2>2. /\ u \in Seq(L)
        /\ ToSet(u) = ToSet(t) \union {x}
        /\ IsInjective(u) => IsInjective(t) /\ x \notin ToSet(t)
    BY AppendSet
  <2>3. /\ w \in Seq(L) /\ ToSet(w) = ToSet(t) \intersect S
        /\ IsInjective(t) => IsInjective(w)
    BY <1>2
  <2>4. /\ Append(w, x) \in Seq(L)
        /\ ToSet(Append(w, x)) = ToSet(w) \union {x}
        /\ IsInjective(w) /\ x \notin ToSet(w) => IsInjective(Append(w, x))
    BY <2>3, AppendSet
  <2>5. ASSUME x \in S PROVE Good(u)
    <3> HIDE DEF u, w
    <3> QED BY <2>5, <2>1, <2>2, <2>3, <2>4
  <2>6. ASSUME x \notin S PROVE Good(u)
    <3> HIDE DEF u, w
    <3> QED BY <2>6, <2>1, <2>2, <2>3
  <2>7. Good(u)
    BY <2>5, <2>6
  <2> QED BY <2>7
<1>3. \A t \in Seq(L) : t \in T
  <2>1. <<>> \in T /\ \A t \in Seq(L), x \in L : t \in T => Append(t, x) \in T
    <3> HIDE DEF Good
    <3> QED BY <1>1, <1>2
  <2> HIDE DEF T
  <2> QED BY <2>1, SeqInSet
<1> QED BY <1>3

-----------------------------------------------------------------------------
(* Vec::retain.                                                            *)

\* Without goes through the sequence.
LEMMA WithoutSteps ==
  ASSUME NEW L, NEW s \in Seq(L), NEW e
  PROVE  \E h : /\ h[0] = <<>>
                /\ \A k \in 1 .. Len(s) :
                     h[k] = IF s[k] = e THEN h[k - 1] ELSE Append(h[k - 1], s[k])
                /\ Without(s, e) = h[Len(s)]
<1> DEFINE n == Len(s)
           op(kept, x) == IF x = e THEN kept ELSE Append(kept, x)
           d == [k \in 1 .. n |-> [kept \in Seq(L) |-> op(kept, s[k])]]
           Eqn(it) == it = [S \in SUBSET DOMAIN s |->
                              IF S = {} THEN <<>> ELSE op(it[S \ {Top(S)}], s[Top(S)])]
           it == CHOOSE it : Eqn(it)
<1>1. n \in Nat /\ DOMAIN s = 1 .. n
  OBVIOUS
<1>2. Without(s, e) = it[DOMAIN s]
  BY DEF Without, FoldLeft, MapThenFoldSet, Max, Top
<1>3. \E jt : Eqn(jt)
  <2>1. d \in [1 .. n -> [Seq(L) -> Seq(L)]]
    OBVIOUS
  <2>2. <<>> \in Seq(L)
    OBVIOUS
  <2>3. PICK jt : FoldOf(jt, Seq(L), <<>>, d, n)
    <3> HIDE DEF d, n
    <3> QED BY <2>1, <2>2, <1>1, FoldExists
  <2>4. ASSUME NEW S \in SUBSET (1 .. n), S # {}
        PROVE  d[Top(S)][jt[S \ {Top(S)}]] = op(jt[S \ {Top(S)}], s[Top(S)])
    <3>1. Top(S) \in 1 .. n /\ S \ {Top(S)} \in SUBSET (1 .. n)
      BY <2>4, TopIn, <1>1
    <3> QED BY <3>1, <2>3 DEF FoldOf
  <2>5. jt = [S \in SUBSET (1 .. n) |-> IF S = {} THEN <<>> ELSE op(jt[S \ {Top(S)}], s[Top(S)])]
    <3> HIDE DEF d, op, n
    <3> QED BY <2>3, <2>4 DEF FoldOf
  <2> QED BY <2>5, <1>1
<1>4. Eqn(it)
  <2> HIDE DEF Eqn
  <2> QED BY <1>3
<1> DEFINE h == [k \in 0 .. n |-> it[1 .. k]]
<1>5. /\ it[1 .. 0] = <<>>
      /\ \A k \in 1 .. n : it[1 .. k] = op(it[1 .. k - 1], s[k])
  <2> DEFINE o == [S \in SUBSET (1 .. n) |-> op(it[S \ {Top(S)}], s[Top(S)])]
  <2>1. Unfolds(it, <<>>, o, n)
    <3> HIDE DEF it, op
    <3> QED BY <1>4, <1>1 DEF Unfolds
  <2>2. /\ it[1 .. 0] = <<>>
        /\ \A k \in 1 .. n : /\ it[1 .. k] = o[1 .. k]
                             /\ Top(1 .. k) = k /\ (1 .. k) \ {Top(1 .. k)} = 1 .. k - 1
    <3> HIDE DEF it, o, n
    <3> QED BY <2>1, <1>1, FoldAlong
  <2>3. \A k \in 1 .. n : 1 .. k \in SUBSET (1 .. n)
    OBVIOUS
  <2> HIDE DEF it, op
  <2> QED BY <2>2, <2>3
<1>6. /\ h[0] = <<>>
      /\ \A k \in 1 .. n : h[k] = op(h[k - 1], s[k])
      /\ Without(s, e) = h[n]
  <2> HIDE DEF it, op
  <2> QED BY <1>1, <1>2, <1>5
<1> HIDE DEF h
<1> QED BY <1>6

LEMMA WithoutEmpty ==
  ASSUME NEW e PROVE Without(<<>>, e) = <<>>
<1> DEFINE s == <<>>
<1>1. s \in Seq({}) /\ Len(s) = 0
  OBVIOUS
<1> HIDE DEF s
<1>2. PICK h : h[0] = <<>> /\ Without(s, e) = h[Len(s)]
  BY <1>1, WithoutSteps
<1> QED BY <1>1, <1>2 DEF s

LEMMA WithoutAppend ==
  ASSUME NEW L, NEW e, NEW s \in Seq(L), NEW x \in L
  PROVE  Without(Append(s, x), e) =
           IF x = e THEN Without(s, e) ELSE Append(Without(s, e), x)
<1> DEFINE t == Append(s, x)
           n == Len(s)
<1>0. /\ t \in Seq(L) /\ Len(t) = n + 1 /\ n \in Nat
      /\ \A k \in 1 .. n : t[k] = s[k]
      /\ t[n + 1] = x
  OBVIOUS
<1> HIDE DEF t
<1>1. PICK g : /\ g[0] = <<>>
               /\ \A k \in 1 .. n :
                    g[k] = IF s[k] = e THEN g[k - 1] ELSE Append(g[k - 1], s[k])
               /\ Without(s, e) = g[n]
  BY WithoutSteps
<1>2. PICK h : /\ h[0] = <<>>
               /\ \A k \in 1 .. Len(t) :
                    h[k] = IF t[k] = e THEN h[k - 1] ELSE Append(h[k - 1], t[k])
               /\ Without(t, e) = h[Len(t)]
  BY <1>0, WithoutSteps
<1>3. g[n] = h[n]
  <2>1. \A k \in 1 .. n : g[k - 1] = h[k - 1] => g[k] = h[k]
    BY <1>0, <1>1, <1>2
  <2> QED BY <1>0, <1>1, <1>2, <2>1, StepsAgree
<1>4. Without(t, e) = IF x = e THEN h[n] ELSE Append(h[n], x)
  BY <1>0, <1>2
<1> QED BY <1>1, <1>3, <1>4 DEF t

\* Without takes out every e, keeps the rest, and leaves a sequence as it is
\* that has none.
LEMMA WithoutIs ==
  ASSUME NEW L, NEW e, NEW s \in Seq(L)
  PROVE  /\ Without(s, e) \in Seq(L)
         /\ ToSet(Without(s, e)) = ToSet(s) \ {e}
         /\ e \notin ToSet(s) => Without(s, e) = s
         /\ IsInjective(s) => IsInjective(Without(s, e))
<1> DEFINE Good(t) == /\ Without(t, e) \in Seq(L)
                      /\ ToSet(Without(t, e)) = ToSet(t) \ {e}
                      /\ e \notin ToSet(t) => Without(t, e) = t
                      /\ IsInjective(t) => IsInjective(Without(t, e))
           T == {t \in Seq(L) : Good(t)}
<1>1. Good(<<>>)
  <2> DEFINE z == <<>>
  <2>1. Without(z, e) = z
    BY WithoutEmpty
  <2>2. z \in Seq(L) /\ ToSet(z) = {} /\ IsInjective(z)
    BY DEF ToSet, IsInjective
  <2> HIDE DEF z
  <2>3. Good(z)
    BY <2>1, <2>2
  <2> QED BY <2>3 DEF z
<1>2. ASSUME NEW t \in Seq(L), NEW x \in L, Good(t) PROVE Good(Append(t, x))
  <2> DEFINE u == Append(t, x)
             w == Without(t, e)
  <2>1. Without(u, e) = IF x = e THEN w ELSE Append(w, x)
    BY WithoutAppend
  <2>2. /\ u \in Seq(L)
        /\ ToSet(u) = ToSet(t) \union {x}
        /\ IsInjective(u) => IsInjective(t) /\ x \notin ToSet(t)
    BY AppendSet
  <2>3. w \in Seq(L) /\ ToSet(w) = ToSet(t) \ {e} /\ (e \notin ToSet(t) => w = t)
        /\ (IsInjective(t) => IsInjective(w))
    BY <1>2
  <2>4. /\ ToSet(Append(w, x)) = ToSet(w) \union {x}
        /\ IsInjective(w) /\ x \notin ToSet(w) => IsInjective(Append(w, x))
    BY <2>3, AppendSet
  <2>5. ASSUME x = e PROVE Good(u)
    <3> HIDE DEF u, w
    <3> QED BY <2>5, <2>1, <2>2, <2>3
  <2>6. ASSUME x # e PROVE Good(u)
    <3>1. Append(w, x) \in Seq(L)
      BY <2>3
    <3>2. e \notin ToSet(u) => Append(w, x) = u
      BY <2>2, <2>3
    <3> HIDE DEF u, w
    <3> QED BY <3>1, <3>2, <2>6, <2>1, <2>2, <2>3, <2>4
  <2>7. Good(u)
    BY <2>5, <2>6
  <2> QED BY <2>7
<1>3. \A t \in Seq(L) : t \in T
  <2>1. <<>> \in T /\ \A t \in Seq(L), x \in L : t \in T => Append(t, x) \in T
    <3> HIDE DEF Good
    <3> QED BY <1>1, <1>2
  <2> HIDE DEF T
  <2> QED BY <2>1, SeqInSet
<1> QED BY <1>3

-----------------------------------------------------------------------------
(* The reducer.                                                            *)

LEMMA ApplyLayerIs ==
  ASSUME NEW L, IsFiniteSet(L), NEW s \in Stacks(L), NEW ev, ev.name \in L
  PROVE  /\ ApplyLayer(s, ev) \in Stacks(L)
         /\ ToSet(ApplyLayer(s, ev)) =
              IF ev.act = "off" THEN ToSet(s) \ {ev.name} ELSE ToSet(s) \union {ev.name}
<1>1. s \in Seq(L) /\ IsInjective(s)
  BY StacksAre
<1>2. CASE ev.act = "off"
  <2>1. ApplyLayer(s, ev) = Without(s, ev.name)
    BY <1>2 DEF ApplyLayer
  <2> QED BY <2>1, <1>1, <1>2, WithoutIs, StacksAre
<1>3. CASE ev.act # "off"
  <2>1. Contains(s, ev.name) <=> ev.name \in ToSet(s)
    BY <1>1 DEF Contains, ToSet
  <2>2. CASE Contains(s, ev.name)
    BY <2>1, <2>2, <1>3 DEF ApplyLayer
  <2>3. CASE ~Contains(s, ev.name)
    <3>1. ApplyLayer(s, ev) = Append(s, ev.name)
      BY <2>3, <1>3 DEF ApplyLayer
    <3>2. Append(s, ev.name) \in Seq(L) /\ IsInjective(Append(s, ev.name))
      BY <2>1, <2>3, <1>1, AppendSet
    <3>3. ToSet(Append(s, ev.name)) = ToSet(s) \union {ev.name}
      BY <1>1, AppendSet
    <3>4. Append(s, ev.name) \in Stacks(L)
      BY <3>2, StacksAre
    <3> QED BY <3>1, <3>3, <3>4, <1>3
  <2> QED BY <2>2, <2>3
<1> QED BY <1>2, <1>3

\* Events E whose layers are of L.
Over(E, L) == IsFiniteSet(L) /\ \A ev \in E : IsLayer(ev) => ev.name \in L

LEMMA LayerStepType ==
  ASSUME NEW L, NEW E, Over(E, L), NEW s \in Stacks(L), NEW ev \in E
  PROVE  LayerStep(s, ev) \in Stacks(L)
BY ApplyLayerIs DEF LayerStep, Over

ReduceRun(h, base, s) ==
  /\ h[0] = base
  /\ \A k \in 1 .. Len(s) : h[k] = LayerStep(h[k - 1], s[k])
  /\ Reduce(base, s) = h[Len(s)]

\* Reduce goes through the events.
LEMMA ReduceSteps ==
  ASSUME NEW L, NEW E, Over(E, L),
         NEW base \in Stacks(L), NEW s \in Seq(E)
  PROVE  \E h : ReduceRun(h, base, s)
<1> DEFINE n == Len(s)
           d == [k \in 1 .. n |-> [x \in Stacks(L) |-> LayerStep(x, s[k])]]
           Eqn(it) == it = [S \in SUBSET DOMAIN s |->
                              IF S = {} THEN base ELSE LayerStep(it[S \ {Top(S)}], s[Top(S)])]
           it == CHOOSE it : Eqn(it)
           h == [k \in 0 .. n |-> it[1 .. k]]
           o == [S \in SUBSET (1 .. n) |-> LayerStep(it[S \ {Top(S)}], s[Top(S)])]
<1>1. n \in Nat /\ DOMAIN s = 1 .. n
  OBVIOUS
<1>2. Reduce(base, s) = it[DOMAIN s]
  BY DEF Reduce, FoldLeft, MapThenFoldSet, Max, Top
<1>3. PICK jt : FoldOf(jt, Stacks(L), base, d, n)
  <2>1. \A k \in 1 .. n : s[k] \in E
    OBVIOUS
  <2>2. d \in [1 .. n -> [Stacks(L) -> Stacks(L)]]
    BY <2>1, LayerStepType
  <2> HIDE DEF d, n
  <2> QED BY <2>2, <1>1, FoldExists
<1>4. Eqn(it)
  <2>1. ASSUME NEW S \in SUBSET (1 .. n), S # {}
        PROVE  d[Top(S)][jt[S \ {Top(S)}]] = LayerStep(jt[S \ {Top(S)}], s[Top(S)])
    <3>1. Top(S) \in 1 .. n /\ S \ {Top(S)} \in SUBSET (1 .. n)
      BY <2>1, TopIn, <1>1
    <3> QED BY <3>1, <1>3 DEF FoldOf
  <2>2. Eqn(jt)
    <3>1. jt = [S \in SUBSET (1 .. n) |->
                  IF S = {} THEN base ELSE LayerStep(jt[S \ {Top(S)}], s[Top(S)])]
      <4> HIDE DEF d, n
      <4> QED BY <2>1, <1>3 DEF FoldOf
    <3> QED BY <3>1, <1>1
  <2> HIDE DEF Eqn
  <2> QED BY <2>2
<1>5. /\ it[1 .. 0] = base
      /\ \A k \in 1 .. n : it[1 .. k] = LayerStep(it[1 .. k - 1], s[k])
  <2>1. Unfolds(it, base, o, n)
    <3> HIDE DEF it
    <3> QED BY <1>4, <1>1 DEF Unfolds
  <2>2. /\ it[1 .. 0] = base
        /\ \A k \in 1 .. n : /\ it[1 .. k] = o[1 .. k]
                             /\ Top(1 .. k) = k /\ (1 .. k) \ {Top(1 .. k)} = 1 .. k - 1
    <3> HIDE DEF it, o, n
    <3> QED BY <2>1, <1>1, FoldAlong
  <2>3. \A k \in 1 .. n : 1 .. k \in SUBSET (1 .. n)
    OBVIOUS
  <2> HIDE DEF it
  <2> QED BY <2>2, <2>3
<1>6. ReduceRun(h, base, s)
  <2> HIDE DEF it
  <2> QED BY <1>1, <1>2, <1>5 DEF ReduceRun
<1> HIDE DEF h
<1> QED BY <1>6

LEMMA ReduceEmpty ==
  ASSUME NEW L, NEW E, Over(E, L),
         NEW base \in Stacks(L)
  PROVE  Reduce(base, <<>>) = base
<1> DEFINE s == <<>>
<1>1. s \in Seq(E) /\ Len(s) = 0
  OBVIOUS
<1> HIDE DEF s
<1>2. PICK h : ReduceRun(h, base, s)
  BY <1>1, ReduceSteps
<1> QED BY <1>1, <1>2 DEF s, ReduceRun

LEMMA ReduceAppend ==
  ASSUME NEW L, NEW E, Over(E, L),
         NEW base \in Stacks(L), NEW s \in Seq(E), NEW ev \in E
  PROVE  Reduce(base, Append(s, ev)) = LayerStep(Reduce(base, s), ev)
<1> DEFINE t == Append(s, ev)
           n == Len(s)
<1>1. /\ t \in Seq(E) /\ Len(t) = n + 1 /\ n \in Nat
      /\ \A k \in 1 .. n : t[k] = s[k]
      /\ t[n + 1] = ev
  OBVIOUS
<1> HIDE DEF t, n
<1>2. PICK g : ReduceRun(g, base, s)
  BY ReduceSteps
<1>3. PICK h : ReduceRun(h, base, t)
  BY <1>1, ReduceSteps
<1>4. /\ g[0] = h[0]
      /\ \A k \in 1 .. n : g[k - 1] = h[k - 1] => g[k] = h[k]
  BY <1>1, <1>2, <1>3 DEF ReduceRun, n
<1>5. g[n] = h[n]
  BY <1>1, <1>4, StepsAgree, Zenon
<1> QED BY <1>1, <1>2, <1>3, <1>5 DEF t, n, ReduceRun

LEMMA ReduceType ==
  ASSUME NEW L, NEW E, Over(E, L),
         NEW base \in Stacks(L), NEW s \in Seq(E)
  PROVE  Reduce(base, s) \in Stacks(L)
<1> DEFINE T == {t \in Seq(E) : Reduce(base, t) \in Stacks(L)}
<1>1. <<>> \in T
  BY ReduceEmpty
<1>2. ASSUME NEW t \in Seq(E), NEW ev \in E, t \in T PROVE Append(t, ev) \in T
  BY <1>2, ReduceAppend, LayerStepType
<1>3. s \in T
  <2> HIDE DEF T
  <2> QED BY <1>1, <1>2, SeqInSet
<1> QED BY <1>3

\* An event taken from the front goes into the base.
LEMMA ReduceHead ==
  ASSUME NEW L, NEW E, Over(E, L),
         NEW base \in Stacks(L), NEW s \in Seq(E), s # <<>>
  PROVE  Reduce(base, s) = Reduce(LayerStep(base, Head(s)), Tail(s))
<1> DEFINE Good(t) == t # <<>> => Reduce(base, t) = Reduce(LayerStep(base, Head(t)), Tail(t))
           T == {t \in Seq(E) : Good(t)}
<1>1. ASSUME NEW t \in Seq(E), NEW ev \in E, Good(t) PROVE Good(Append(t, ev))
  <2>1. Reduce(base, Append(t, ev)) = LayerStep(Reduce(base, t), ev)
    BY ReduceAppend
  <2>2. CASE t = <<>>
    <3>1. Head(Append(t, ev)) = ev /\ Tail(Append(t, ev)) = <<>>
      BY <2>2
    <3>2. LayerStep(base, ev) \in Stacks(L)
      BY LayerStepType
    <3>3. Reduce(base, t) = base /\ Reduce(LayerStep(base, ev), <<>>) = LayerStep(base, ev)
      BY <2>2, <3>2, ReduceEmpty
    <3> QED BY <2>1, <3>1, <3>3
  <2>3. CASE t # <<>>
    <3>1. Head(Append(t, ev)) = Head(t) /\ Tail(Append(t, ev)) = Append(Tail(t), ev)
      BY <2>3, HeadTailAppend
    <3>2. Head(t) \in E /\ Tail(t) \in Seq(E)
      BY <2>3
    <3>3. LayerStep(base, Head(t)) \in Stacks(L)
      BY <3>2, LayerStepType
    <3> DEFINE b == LayerStep(base, Head(t))
               r == Tail(t)
    <3>4. Reduce(b, Append(r, ev)) = LayerStep(Reduce(b, r), ev)
      <4> b \in Stacks(L) /\ r \in Seq(E)
        BY <3>2, <3>3
      <4> HIDE DEF b, r
      <4> QED BY ReduceAppend
    <3> QED BY <2>1, <2>3, <3>1, <3>4, <1>1
  <2> QED BY <2>2, <2>3
<1>2. <<>> \in T /\ \A t \in Seq(E), ev \in E : t \in T => Append(t, ev) \in T
  <2>1. Good(<<>>)
    OBVIOUS
  <2> HIDE DEF Good
  <2> QED BY <2>1, <1>1
<1>3. s \in T
  <2> HIDE DEF T
  <2> QED BY <1>2, SeqInSet
<1> QED BY <1>3

\* A run of events is its first part and then its second.
LEMMA ReduceConcat ==
  ASSUME NEW L, NEW E, Over(E, L),
         NEW base \in Stacks(L), NEW s \in Seq(E), NEW t \in Seq(E)
  PROVE  Reduce(base, s \o t) = Reduce(Reduce(base, s), t)
<1> DEFINE r == Reduce(base, s)
           Good(u) == Reduce(base, s \o u) = Reduce(r, u)
           T == {u \in Seq(E) : Good(u)}
<1>1. r \in Stacks(L)
  BY ReduceType
<1> HIDE DEF r
<1>2. Good(<<>>)
  <2>1. s \o <<>> = s
    OBVIOUS
  <2>2. Reduce(r, <<>>) = r
    BY <1>1, ReduceEmpty
  <2> QED BY <2>1, <2>2 DEF r
<1>3. ASSUME NEW u \in Seq(E), NEW ev \in E, Good(u) PROVE Good(Append(u, ev))
  <2>1. s \o Append(u, ev) = Append(s \o u, ev) /\ s \o u \in Seq(E)
    OBVIOUS
  <2> DEFINE v == s \o u
  <2>2. Reduce(base, Append(v, ev)) = LayerStep(Reduce(base, v), ev)
    <3>1. v \in Seq(E)
      BY <2>1
    <3> HIDE DEF v
    <3> QED BY <3>1, ReduceAppend
  <2>3. Reduce(r, Append(u, ev)) = LayerStep(Reduce(r, u), ev)
    BY <1>1, ReduceAppend
  <2> QED BY <1>3, <2>1, <2>2, <2>3
<1>4. <<>> \in T /\ \A u \in Seq(E), ev \in E : u \in T => Append(u, ev) \in T
  <2> HIDE DEF Good
  <2> QED BY <1>2, <1>3
<1>5. t \in T
  <2> HIDE DEF T
  <2> QED BY <1>4, SeqInSet
<1> QED BY <1>5 DEF r

\* keyd's first words put its layers on top of what was there.
LEMMA ReduceOns ==
  ASSUME NEW L, IsFiniteSet(L), NEW base \in Stacks(L), NEW order \in Seq(L)
  PROVE  ToSet(Reduce(base, Ons(order))) = ToSet(base) \union ToSet(order)
<1> DEFINE E == {On(l) : l \in L}
           Good(t) == ToSet(Reduce(base, Ons(t))) = ToSet(base) \union ToSet(t)
           T == {t \in Seq(L) : Good(t)}
<1>1. Over(E, L)
  BY DEF Over, On
<1>2. Good(<<>>)
  <2>1. Ons(<<>>) = <<>>
    BY DEF Ons
  <2>2. Reduce(base, <<>>) = base
    BY <1>1, ReduceEmpty
  <2> DEFINE z == <<>>
  <2>3. ToSet(z) = {}
    BY DEF ToSet
  <2> QED BY <2>1, <2>2, <2>3
<1>3. ASSUME NEW t \in Seq(L), NEW l \in L, Good(t) PROVE Good(Append(t, l))
  <2>1. Ons(t) \in Seq(E) /\ On(l) \in E
    BY DEF Ons
  <2>2. Ons(Append(t, l)) = Append(Ons(t), On(l))
    BY DEF Ons
  <2> DEFINE r == Reduce(base, Ons(t))
  <2>3. Reduce(base, Append(Ons(t), On(l))) = LayerStep(r, On(l))
    <3> HIDE DEF E
    <3> QED BY <1>1, <2>1, ReduceAppend
  <2>4. r \in Stacks(L)
    <3> HIDE DEF E
    <3> QED BY <1>1, <2>1, ReduceType
  <2>5. ToSet(LayerStep(r, On(l))) = ToSet(r) \union {l}
    <3>1. On(l).name = l /\ On(l).act = "on"
      BY DEF On
    <3>2. LayerStep(r, On(l)) = ApplyLayer(r, On(l))
      BY <3>1 DEF LayerStep, IsLayer
    <3> HIDE DEF r
    <3> QED BY <2>4, <3>1, <3>2, ApplyLayerIs
  <2>6. ToSet(Append(t, l)) = ToSet(t) \union {l}
    BY AppendSet
  <2> HIDE DEF E
  <2> QED BY <1>3, <2>2, <2>3, <2>5, <2>6
<1>4. <<>> \in T /\ \A t \in Seq(L), l \in L : t \in T => Append(t, l) \in T
  <2> HIDE DEF Good
  <2> QED BY <1>2, <1>3
<1>5. order \in T
  <2> HIDE DEF T
  <2> QED BY <1>4, SeqInSet
<1> QED BY <1>5

\* Replayed on nothing, a stack comes out as it was.
LEMMA ReduceOnsIs ==
  ASSUME NEW L, IsFiniteSet(L), NEW stack \in Stacks(L)
  PROVE  Reduce(<<>>, Ons(stack)) = stack
<1> DEFINE E == {On(l) : l \in L}
           none == <<>>
           Good(t) == IsInjective(t) => Reduce(none, Ons(t)) = t
           T == {t \in Seq(L) : Good(t)}
<1>1. Over(E, L) /\ none \in Stacks(L)
  BY EmptyStack DEF Over, On
<1> HIDE DEF none
<1>2. Good(<<>>)
  <2>1. Ons(<<>>) = <<>>
    BY DEF Ons
  <2>2. Reduce(none, <<>>) = none
    BY <1>1, ReduceEmpty
  <2> QED BY <2>1, <2>2 DEF none
<1>3. ASSUME NEW t \in Seq(L), NEW l \in L, Good(t) PROVE Good(Append(t, l))
  <2> SUFFICES ASSUME IsInjective(Append(t, l))
               PROVE  Reduce(none, Ons(Append(t, l))) = Append(t, l)
    OBVIOUS
  <2>1. IsInjective(t) /\ l \notin ToSet(t)
    BY AppendSet
  <2>2. Ons(t) \in Seq(E) /\ On(l) \in E /\ Ons(Append(t, l)) = Append(Ons(t), On(l))
    BY DEF Ons
  <2>3. Reduce(none, Append(Ons(t), On(l))) = LayerStep(t, On(l))
    <3> HIDE DEF E
    <3>1. Reduce(none, Append(Ons(t), On(l))) = LayerStep(Reduce(none, Ons(t)), On(l))
      BY <1>1, <2>2, ReduceAppend
    <3> QED BY <1>3, <2>1, <3>1
  <2>4. ~Contains(t, l)
    BY <2>1 DEF Contains, ToSet
  <2>5. LayerStep(t, On(l)) = Append(t, l)
    BY <2>4 DEF LayerStep, IsLayer, ApplyLayer, On
  <2> QED BY <2>2, <2>3, <2>5
<1>4. <<>> \in T /\ \A t \in Seq(L), l \in L : t \in T => Append(t, l) \in T
  <2> HIDE DEF Good
  <2> QED BY <1>2, <1>3
<1>5. stack \in T
  <2>1. stack \in Seq(L)
    BY StacksAre
  <2> HIDE DEF T
  <2> QED BY <1>4, <2>1, SeqInSet
<1>6. IsInjective(stack)
  BY StacksAre
<1> QED BY <1>5, <1>6 DEF none

\* A transition that has been applied changes nothing when it comes again.
LEMMA ApplyLayerTwice ==
  ASSUME NEW L, IsFiniteSet(L), NEW s \in Stacks(L), NEW ev, ev.name \in L
  PROVE  ApplyLayer(ApplyLayer(s, ev), ev) = ApplyLayer(s, ev)
<1> DEFINE r == ApplyLayer(s, ev)
<1>1. /\ r \in Stacks(L)
      /\ ToSet(r) = IF ev.act = "off" THEN ToSet(s) \ {ev.name} ELSE ToSet(s) \union {ev.name}
  BY ApplyLayerIs
<1> HIDE DEF r
<1>2. r \in Seq(L)
  BY <1>1, StacksAre
<1>3. CASE ev.act = "off"
  <2>1. ev.name \notin ToSet(r)
    BY <1>1, <1>3
  <2>2. Without(r, ev.name) = r
    BY <1>2, <2>1, WithoutIs
  <2> QED BY <1>3, <2>2 DEF ApplyLayer, r
<1>4. CASE ev.act # "off"
  <2>1. ev.name \in ToSet(r)
    BY <1>1, <1>4
  <2>2. Contains(r, ev.name)
    BY <1>2, <2>1 DEF Contains, ToSet
  <2>3. ApplyLayer(r, ev) = r
    BY <1>4, <2>2 DEF ApplyLayer
  <2> QED BY <2>3 DEF r
<1> QED BY <1>3, <1>4

\* The orders in which keyd may list its layers.
LEMMA OrdersAre ==
  ASSUME NEW L, IsFiniteSet(L), NEW stack \in Stacks(L),
         NEW order \in SetToSeqs(ToSet(stack))
  PROVE  /\ order \in Seq(L) /\ Len(order) <= Cardinality(L)
         /\ ToSet(order) = ToSet(stack)
<1> DEFINE S == ToSet(stack)
           n == Cardinality(S)
<1>1. S \subseteq L
  BY StacksAre DEF ToSet
<1>2. IsFiniteSet(S) /\ n \in Nat /\ n <= Cardinality(L)
  BY <1>1, FS_Subset, FS_CardinalityType
<1>3. order \in [1 .. n -> S] /\ \A i, j \in 1 .. n : i # j => order[i] # order[j]
  BY DEF SetToSeqs
<1> HIDE DEF S, n
<1>4. order \in Seq(L) /\ Len(order) = n
  BY <1>1, <1>2, <1>3
<1>5. order \in Injection(1 .. n, S)
  BY <1>3 DEF Injection, IsInjective
<1>6. IsFiniteSet(1 .. n) /\ Cardinality(1 .. n) = n
  <2>1. 1 \in Int /\ n \in Int
    BY <1>2
  <2>2. IsFiniteSet(1 .. n) /\ Cardinality(1 .. n) = IF 1 > n THEN 0 ELSE n - 1 + 1
    BY <2>1, FS_Interval
  <2> QED BY <2>2, <1>2
<1>7. order \in Surjection(1 .. n, S)
  BY <1>2, <1>5, <1>6, FS_Injection DEF n
<1>8. \A x \in S : \E i \in 1 .. n : order[i] = x
  BY <1>7 DEF Surjection
<1>9. ToSet(order) = S
  BY <1>3, <1>4, <1>8 DEF ToSet
<1> QED BY <1>2, <1>4, <1>9 DEF S

-----------------------------------------------------------------------------
(* What is held.                                                           *)

\* Events E whose keys are of K.
KeysOver(E, K) == \A ev \in E : ~IsLayer(ev) => ev.name \in K

LEMMA KeyStepType ==
  ASSUME NEW K, NEW E, KeysOver(E, K), NEW s \in SUBSET K, NEW ev \in E
  PROVE  KeyStep(s, ev) \in SUBSET K
BY DEF KeyStep, PressKey, KeysOver

PressAllRun(h, base, s) ==
  /\ h[0] = base
  /\ \A k \in 1 .. Len(s) : h[k] = KeyStep(h[k - 1], s[k])
  /\ PressAll(base, s) = h[Len(s)]

\* PressAll goes through the events.
LEMMA PressAllSteps ==
  ASSUME NEW K, NEW E, KeysOver(E, K),
         NEW base \in SUBSET K, NEW s \in Seq(E)
  PROVE  \E h : PressAllRun(h, base, s)
<1> DEFINE n == Len(s)
           d == [k \in 1 .. n |-> [x \in SUBSET K |-> KeyStep(x, s[k])]]
           Eqn(it) == it = [S \in SUBSET DOMAIN s |->
                              IF S = {} THEN base ELSE KeyStep(it[S \ {Top(S)}], s[Top(S)])]
           it == CHOOSE it : Eqn(it)
           h == [k \in 0 .. n |-> it[1 .. k]]
           o == [S \in SUBSET (1 .. n) |-> KeyStep(it[S \ {Top(S)}], s[Top(S)])]
<1>1. n \in Nat /\ DOMAIN s = 1 .. n
  OBVIOUS
<1>2. PressAll(base, s) = it[DOMAIN s]
  BY DEF PressAll, FoldLeft, MapThenFoldSet, Max, Top
<1>3. PICK jt : FoldOf(jt, SUBSET K, base, d, n)
  <2>1. \A k \in 1 .. n : s[k] \in E
    OBVIOUS
  <2>2. d \in [1 .. n -> [SUBSET K -> SUBSET K]]
    BY <2>1, KeyStepType
  <2> HIDE DEF d, n
  <2> QED BY <2>2, <1>1, FoldExists
<1>4. Eqn(it)
  <2>1. ASSUME NEW S \in SUBSET (1 .. n), S # {}
        PROVE  d[Top(S)][jt[S \ {Top(S)}]] = KeyStep(jt[S \ {Top(S)}], s[Top(S)])
    <3>1. Top(S) \in 1 .. n /\ S \ {Top(S)} \in SUBSET (1 .. n)
      BY <2>1, TopIn, <1>1
    <3> QED BY <3>1, <1>3 DEF FoldOf
  <2>2. Eqn(jt)
    <3>1. jt = [S \in SUBSET (1 .. n) |->
                  IF S = {} THEN base ELSE KeyStep(jt[S \ {Top(S)}], s[Top(S)])]
      <4> HIDE DEF d, n
      <4> QED BY <2>1, <1>3 DEF FoldOf
    <3> QED BY <3>1, <1>1
  <2> HIDE DEF Eqn
  <2> QED BY <2>2
<1>5. /\ it[1 .. 0] = base
      /\ \A k \in 1 .. n : it[1 .. k] = KeyStep(it[1 .. k - 1], s[k])
  <2>1. Unfolds(it, base, o, n)
    <3> HIDE DEF it
    <3> QED BY <1>4, <1>1 DEF Unfolds
  <2>2. /\ it[1 .. 0] = base
        /\ \A k \in 1 .. n : /\ it[1 .. k] = o[1 .. k]
                             /\ Top(1 .. k) = k /\ (1 .. k) \ {Top(1 .. k)} = 1 .. k - 1
    <3> HIDE DEF it, o, n
    <3> QED BY <2>1, <1>1, FoldAlong
  <2>3. \A k \in 1 .. n : 1 .. k \in SUBSET (1 .. n)
    OBVIOUS
  <2> HIDE DEF it
  <2> QED BY <2>2, <2>3
<1>6. PressAllRun(h, base, s)
  <2> HIDE DEF it
  <2> QED BY <1>1, <1>2, <1>5 DEF PressAllRun
<1> HIDE DEF h
<1> QED BY <1>6

LEMMA PressAllEmpty ==
  ASSUME NEW K, NEW E, KeysOver(E, K),
         NEW base \in SUBSET K
  PROVE  PressAll(base, <<>>) = base
<1> DEFINE s == <<>>
<1>1. s \in Seq(E) /\ Len(s) = 0
  OBVIOUS
<1> HIDE DEF s
<1>2. PICK h : PressAllRun(h, base, s)
  BY <1>1, PressAllSteps
<1> QED BY <1>1, <1>2 DEF s, PressAllRun

LEMMA PressAllAppend ==
  ASSUME NEW K, NEW E, KeysOver(E, K),
         NEW base \in SUBSET K, NEW s \in Seq(E), NEW ev \in E
  PROVE  PressAll(base, Append(s, ev)) = KeyStep(PressAll(base, s), ev)
<1> DEFINE t == Append(s, ev)
           n == Len(s)
<1>1. /\ t \in Seq(E) /\ Len(t) = n + 1 /\ n \in Nat
      /\ \A k \in 1 .. n : t[k] = s[k]
      /\ t[n + 1] = ev
  OBVIOUS
<1> HIDE DEF t, n
<1>2. PICK g : PressAllRun(g, base, s)
  BY PressAllSteps
<1>3. PICK h : PressAllRun(h, base, t)
  BY <1>1, PressAllSteps
<1>4. /\ g[0] = h[0]
      /\ \A k \in 1 .. n : g[k - 1] = h[k - 1] => g[k] = h[k]
  BY <1>1, <1>2, <1>3 DEF PressAllRun, n
<1>5. g[n] = h[n]
  BY <1>1, <1>4, StepsAgree, Zenon
<1> QED BY <1>1, <1>2, <1>3, <1>5 DEF t, n, PressAllRun

LEMMA PressAllType ==
  ASSUME NEW K, NEW E, KeysOver(E, K),
         NEW base \in SUBSET K, NEW s \in Seq(E)
  PROVE  PressAll(base, s) \in SUBSET K
<1> DEFINE T == {t \in Seq(E) : PressAll(base, t) \in SUBSET K}
<1>1. <<>> \in T
  BY PressAllEmpty
<1>2. ASSUME NEW t \in Seq(E), NEW ev \in E, t \in T PROVE Append(t, ev) \in T
  BY <1>2, PressAllAppend, KeyStepType
<1>3. s \in T
  <2> HIDE DEF T
  <2> QED BY <1>1, <1>2, SeqInSet
<1> QED BY <1>3

\* An event taken from the front goes into the base.
LEMMA PressAllHead ==
  ASSUME NEW K, NEW E, KeysOver(E, K),
         NEW base \in SUBSET K, NEW s \in Seq(E), s # <<>>
  PROVE  PressAll(base, s) = PressAll(KeyStep(base, Head(s)), Tail(s))
<1> DEFINE Good(t) == t # <<>> => PressAll(base, t) = PressAll(KeyStep(base, Head(t)), Tail(t))
           T == {t \in Seq(E) : Good(t)}
<1>1. ASSUME NEW t \in Seq(E), NEW ev \in E, Good(t) PROVE Good(Append(t, ev))
  <2>1. PressAll(base, Append(t, ev)) = KeyStep(PressAll(base, t), ev)
    BY PressAllAppend
  <2>2. CASE t = <<>>
    <3>1. Head(Append(t, ev)) = ev /\ Tail(Append(t, ev)) = <<>>
      BY <2>2
    <3>2. KeyStep(base, ev) \in SUBSET K
      BY KeyStepType
    <3>3. PressAll(base, t) = base /\ PressAll(KeyStep(base, ev), <<>>) = KeyStep(base, ev)
      BY <2>2, <3>2, PressAllEmpty
    <3> QED BY <2>1, <3>1, <3>3
  <2>3. CASE t # <<>>
    <3>1. Head(Append(t, ev)) = Head(t) /\ Tail(Append(t, ev)) = Append(Tail(t), ev)
      BY <2>3, HeadTailAppend
    <3>2. Head(t) \in E /\ Tail(t) \in Seq(E)
      BY <2>3
    <3>3. KeyStep(base, Head(t)) \in SUBSET K
      BY <3>2, KeyStepType
    <3> DEFINE b == KeyStep(base, Head(t))
               r == Tail(t)
    <3>4. PressAll(b, Append(r, ev)) = KeyStep(PressAll(b, r), ev)
      <4> b \in SUBSET K /\ r \in Seq(E)
        BY <3>2, <3>3
      <4> HIDE DEF b, r
      <4> QED BY PressAllAppend
    <3> QED BY <2>1, <2>3, <3>1, <3>4, <1>1
  <2> QED BY <2>2, <2>3
<1>2. <<>> \in T /\ \A t \in Seq(E), ev \in E : t \in T => Append(t, ev) \in T
  <2>1. Good(<<>>)
    OBVIOUS
  <2> HIDE DEF Good
  <2> QED BY <2>1, <1>1
<1>3. s \in T
  <2> HIDE DEF T
  <2> QED BY <1>2, SeqInSet
<1> QED BY <1>3

\* A run of events is its first part and then its second.
LEMMA PressAllConcat ==
  ASSUME NEW K, NEW E, KeysOver(E, K),
         NEW base \in SUBSET K, NEW s \in Seq(E), NEW t \in Seq(E)
  PROVE  PressAll(base, s \o t) = PressAll(PressAll(base, s), t)
<1> DEFINE r == PressAll(base, s)
           Good(u) == PressAll(base, s \o u) = PressAll(r, u)
           T == {u \in Seq(E) : Good(u)}
<1>1. r \in SUBSET K
  BY PressAllType
<1> HIDE DEF r
<1>2. Good(<<>>)
  <2>1. s \o <<>> = s
    OBVIOUS
  <2>2. PressAll(r, <<>>) = r
    BY <1>1, PressAllEmpty
  <2> QED BY <2>1, <2>2 DEF r
<1>3. ASSUME NEW u \in Seq(E), NEW ev \in E, Good(u) PROVE Good(Append(u, ev))
  <2>1. s \o Append(u, ev) = Append(s \o u, ev) /\ s \o u \in Seq(E)
    OBVIOUS
  <2> DEFINE v == s \o u
  <2>2. PressAll(base, Append(v, ev)) = KeyStep(PressAll(base, v), ev)
    <3>1. v \in Seq(E)
      BY <2>1
    <3> HIDE DEF v
    <3> QED BY <3>1, PressAllAppend
  <2>3. PressAll(r, Append(u, ev)) = KeyStep(PressAll(r, u), ev)
    BY <1>1, PressAllAppend
  <2> QED BY <1>3, <2>1, <2>2, <2>3
<1>4. <<>> \in T /\ \A u \in Seq(E), ev \in E : u \in T => Append(u, ev) \in T
  <2> HIDE DEF Good
  <2> QED BY <1>2, <1>3
<1>5. t \in T
  <2> HIDE DEF T
  <2> QED BY <1>4, SeqInSet
<1> QED BY <1>5 DEF r

\* What is held grows with what was held before.
LEMMA PressAllGrows ==
  ASSUME NEW K, NEW E, KeysOver(E, K),
         NEW low \in SUBSET K, NEW high \in SUBSET K, low \subseteq high,
         NEW s \in Seq(E)
  PROVE  PressAll(low, s) \subseteq PressAll(high, s)
<1> DEFINE Good(t) == PressAll(low, t) \subseteq PressAll(high, t)
           T == {t \in Seq(E) : Good(t)}
<1>1. Good(<<>>)
  BY PressAllEmpty
<1>2. ASSUME NEW t \in Seq(E), NEW ev \in E, Good(t) PROVE Good(Append(t, ev))
  <2>1. /\ PressAll(low, Append(t, ev)) = KeyStep(PressAll(low, t), ev)
        /\ PressAll(high, Append(t, ev)) = KeyStep(PressAll(high, t), ev)
    BY PressAllAppend
  <2> DEFINE a == PressAll(low, t)
             b == PressAll(high, t)
  <2>2. a \subseteq b
    BY <1>2
  <2> HIDE DEF a, b
  <2>3. KeyStep(a, ev) \subseteq KeyStep(b, ev)
    BY <2>2 DEF KeyStep, PressKey
  <2> QED BY <2>1, <2>3 DEF a, b
<1>3. <<>> \in T /\ \A t \in Seq(E), ev \in E : t \in T => Append(t, ev) \in T
  <2> HIDE DEF Good
  <2> QED BY <1>1, <1>2
<1>4. s \in T
  <2> HIDE DEF T
  <2> QED BY <1>3, SeqInSet
<1> QED BY <1>4

=============================================================================
