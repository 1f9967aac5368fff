-------------------------- MODULE BoardWatch_proofs --------------------------
(***************************************************************************)
(* The boards of the window agree with the sources and with the session,   *)
(* and no two of them are of one file, for any files, keyboards and edits, *)
(* and any number of outside changes; and the four places that match       *)
(* keyboards against [ids] agree.                                          *)
(*                                                                         *)
(* A source and a session are records of which only the shape matters, so  *)
(* the list of sources is a sequence of whatever it holds (IsList).  What  *)
(* a callback finds by path is said of any list (AtIn, Twice), so that one *)
(* lemma serves the list before a step and the list after it.              *)
(***************************************************************************)
EXTENDS BoardWatch, LayerStack_proofs

-----------------------------------------------------------------------------
(* Finding a board by its path.                                            *)

LEMMA FirstOf ==
  ASSUME NEW S \in SUBSET Nat, S # {}
  PROVE  \E m \in S : IsFirst(m, S) /\ (CHOOSE i \in S : IsFirst(i, S)) = m
<1>1. PICK m \in S : \A k \in S : <<k, m>> \notin OpToRel(<, Nat)
  BY WFMin, NatLessThanWellFounded, Zenon
<1>2. \A k \in S : ~(k < m)
  BY <1>1, Zenon DEF OpToRel
<1>3. IsFirst(m, S)
  BY <1>2 DEF IsFirst
<1>4. \A i \in S : IsFirst(i, S) => i = m
  BY <1>3 DEF IsFirst
<1> QED BY <1>3, <1>4

PosIn(s, p) == {i \in DOMAIN s : s[i].path = p}
Least(S)    == IF S = {} THEN 0 ELSE CHOOSE i \in S : IsFirst(i, S)
AtIn(s, p)  == Least(PosIn(s, p))
Twice(s)    == {s[i].path : i \in {j \in DOMAIN s : AtIn(s, s[j].path) # j}}

LEMMA AtInIs ==
  ASSUME NEW s, IsList(s), NEW p
  PROVE  /\ AtIn(s, p) = 0 <=> PosIn(s, p) = {}
         /\ PosIn(s, p) # {} => /\ AtIn(s, p) \in DOMAIN s /\ s[AtIn(s, p)].path = p
                                /\ \A i \in PosIn(s, p) : AtIn(s, p) <= i
<1>1. DOMAIN s = 1 .. Len(s) /\ Len(s) \in Nat
  BY ListLen
<1>2. PosIn(s, p) \in SUBSET Nat /\ 0 \notin PosIn(s, p) /\ PosIn(s, p) \subseteq DOMAIN s
  BY <1>1 DEF PosIn
<1>3. CASE PosIn(s, p) = {}
  BY <1>3 DEF AtIn, Least
<1>4. CASE PosIn(s, p) # {}
  <2>1. PICK m \in PosIn(s, p) : IsFirst(m, PosIn(s, p)) /\ AtIn(s, p) = m
    BY <1>2, <1>4, FirstOf DEF AtIn, Least
  <2>2. \A i \in PosIn(s, p) : m <= i
    BY <2>1 DEF IsFirst
  <2>3. m # 0 /\ m \in DOMAIN s /\ s[m].path = p
    BY <2>1, <1>2 DEF PosIn
  <2> QED BY <2>1, <2>2, <2>3, <1>4
<1> QED BY <1>3, <1>4

\* A path is there twice when two positions have it.
LEMMA TwiceIs ==
  ASSUME NEW s, IsList(s), NEW p
  PROVE  p \in Twice(s) <=> \E i, j \in DOMAIN s : i # j /\ s[i].path = p /\ s[j].path = p
<1>1. ASSUME p \in Twice(s)
      PROVE  \E i, j \in DOMAIN s : i # j /\ s[i].path = p /\ s[j].path = p
  <2>1. PICK j \in DOMAIN s : s[j].path = p /\ AtIn(s, p) # j
    BY <1>1 DEF Twice
  <2>2. PosIn(s, p) # {}
    BY <2>1 DEF PosIn
  <2> QED BY <2>1, <2>2, AtInIs
<1>2. ASSUME NEW i \in DOMAIN s, NEW j \in DOMAIN s, i # j, s[i].path = p, s[j].path = p
      PROVE  p \in Twice(s)
  BY <1>2 DEF Twice
<1> QED BY <1>1, <1>2

\* A list of the same paths.
LEMMA SamePaths ==
  ASSUME NEW s, NEW t, DOMAIN t = DOMAIN s, \A i \in DOMAIN s : t[i].path = s[i].path
  PROVE  Twice(t) = Twice(s) /\ \A p : AtIn(t, p) = AtIn(s, p)
<1>1. \A p : PosIn(t, p) = PosIn(s, p)
  BY DEF PosIn
<1>2. \A p : AtIn(t, p) = AtIn(s, p)
  BY <1>1 DEF AtIn
<1>3. \A i \in DOMAIN s : AtIn(t, t[i].path) = AtIn(s, s[i].path)
  BY <1>2
<1>4. ASSUME NEW p PROVE p \in Twice(t) <=> p \in Twice(s)
  <2>1. p \in Twice(t) <=> \E i \in DOMAIN s : AtIn(t, t[i].path) # i /\ t[i].path = p
    BY DEF Twice
  <2>2. p \in Twice(s) <=> \E i \in DOMAIN s : AtIn(s, s[i].path) # i /\ s[i].path = p
    BY DEF Twice
  <2> QED BY <2>1, <2>2, <1>3
<1> QED BY <1>2, <1>4

\* One more path.
LEMMA MorePaths ==
  ASSUME NEW s, IsList(s), NEW x
  PROVE  /\ Twice(Append(s, x)) \subseteq
              Twice(s) \union (IF PosIn(s, x.path) = {} THEN {} ELSE {x.path})
         /\ AtIn(Append(s, x), x.path) # 0
<1> DEFINE t == Append(s, x)
           n == Len(s)
<1>1. /\ IsList(t) /\ n \in Nat /\ DOMAIN s = 1 .. n /\ DOMAIN t = 1 .. n + 1
      /\ t[n + 1] = x /\ \A i \in 1 .. n : t[i] = s[i]
  <2>1. IsList(t) /\ Len(t) = n + 1 /\ t[n + 1] = x /\ \A i \in DOMAIN s : t[i] = s[i]
    BY ListAppend
  <2>2. n \in Nat /\ DOMAIN s = 1 .. n /\ DOMAIN t = 1 .. Len(t)
    BY <2>1, ListLen
  <2> QED BY <2>1, <2>2
<1> HIDE DEF t, n
<1>2. ASSUME NEW p \in Twice(t), p \notin Twice(s) PROVE p = x.path /\ PosIn(s, p) # {}
  <2>1. PICK i \in 1 .. n + 1, j \in 1 .. n + 1 : i # j /\ t[i].path = p /\ t[j].path = p
    BY <1>1, TwiceIs
  <2>2. ~(i \in 1 .. n /\ j \in 1 .. n)
    BY <2>1, <1>1, <1>2, TwiceIs
  <2>3. CASE i = n + 1
    <3>1. j \in 1 .. n /\ s[j].path = p
      BY <2>1, <2>3, <1>1
    <3> QED BY <3>1, <2>1, <2>3, <1>1 DEF PosIn
  <2>4. CASE j = n + 1
    <3>1. i \in 1 .. n /\ s[i].path = p
      BY <2>1, <2>4, <1>1
    <3> QED BY <3>1, <2>1, <2>4, <1>1 DEF PosIn
  <2> QED BY <2>2, <2>3, <2>4, <1>1
<1>3. AtIn(t, x.path) # 0
  <2>1. n + 1 \in PosIn(t, x.path)
    BY <1>1 DEF PosIn
  <2> QED BY <2>1, <1>1, AtInIs
<1> QED BY <1>2, <1>3 DEF t

\* One path less.
LEMMA FewerPaths ==
  ASSUME NEW s, IsList(s), NEW k \in DOMAIN s
  PROVE  /\ Twice(RemoveAt(s, k)) \subseteq Twice(s)
         /\ \A i \in DOMAIN RemoveAt(s, k) :
              \E j \in DOMAIN s : j # k /\ RemoveAt(s, k)[i] = s[j]
<1> DEFINE t == RemoveAt(s, k)
           n == Len(s)
<1>1. /\ IsList(t) /\ n \in Nat /\ DOMAIN s = 1 .. n /\ DOMAIN t = 1 .. n - 1
      /\ \A i \in 1 .. n - 1 : t[i] = IF i < k THEN s[i] ELSE s[i + 1]
      /\ k \in 1 .. n
  <2>1. /\ IsList(t) /\ Len(t) = n - 1
        /\ \A i \in DOMAIN t : t[i] = IF i < k THEN s[i] ELSE s[i + 1]
    BY ListRemove
  <2>2. n \in Nat /\ DOMAIN s = 1 .. n /\ DOMAIN t = 1 .. Len(t)
    BY <2>1, ListLen
  <2> QED BY <2>1, <2>2
<1> HIDE DEF t, n
<1> DEFINE old(i) == IF i < k THEN i ELSE i + 1
<1>2. \A i \in 1 .. n - 1 : old(i) \in 1 .. n /\ old(i) # k /\ t[i] = s[old(i)]
  BY <1>1
<1>3. \A i, j \in 1 .. n - 1 : i # j => old(i) # old(j)
  BY <1>1
<1>4. ASSUME NEW p \in Twice(t) PROVE p \in Twice(s)
  <2>1. PICK i \in 1 .. n - 1, j \in 1 .. n - 1 : i # j /\ t[i].path = p /\ t[j].path = p
    BY <1>1, TwiceIs
  <2>2. /\ old(i) \in DOMAIN s /\ old(j) \in DOMAIN s /\ old(i) # old(j)
        /\ s[old(i)].path = p /\ s[old(j)].path = p
    <3> HIDE DEF old
    <3> QED BY <2>1, <1>1, <1>2, <1>3
  <2> HIDE DEF old
  <2> QED BY <2>2, TwiceIs
<1>5. \A i \in DOMAIN t : \E j \in DOMAIN s : j # k /\ t[i] = s[j]
  <2> HIDE DEF old
  <2> QED BY <1>1, <1>2
<1> QED BY <1>4, <1>5 DEF t

LEMMA SameAsIn ==
  /\ \A p : Positions(p) = PosIn(srcs, p) /\ At(p) = AtIn(srcs, p)
  /\ SameFile = Twice(srcs)
  BY DEF Positions, At, PosIn, AtIn, Least, SameFile, Twice

-----------------------------------------------------------------------------
(* Distinct.                                                               *)

\* Distinct goes through the sequence.
LEMMA DistinctSteps ==
  ASSUME NEW L, NEW s \in Seq(L)
  PROVE  \E h : /\ h[0] = <<>>
                /\ \A k \in 1 .. Len(s) :
                     h[k] = IF Contains(h[k - 1], s[k]) THEN h[k - 1] ELSE Append(h[k - 1], s[k])
                /\ Distinct(s) = h[Len(s)]
<1> DEFINE n == Len(s)
           op(kept, x) == IF Contains(kept, x) THEN kept ELSE Append(kept, x)
           d == [k \in 1 .. n |-> [kept \in Seq(L) |-> op(kept, s[k])]]
           Eqn(it) == it = [T \in SUBSET DOMAIN s |->
                              IF T = {} THEN <<>> ELSE op(it[T \ {Top(T)}], s[Top(T)])]
           it == CHOOSE it : Eqn(it)
<1>1. n \in Nat /\ DOMAIN s = 1 .. n
  OBVIOUS
<1>2. Distinct(s) = it[DOMAIN s]
  BY DEF Distinct, FoldLeft, MapThenFoldSet, Max, Top
<1>3. \E jt : Eqn(jt)
  <2>1. d \in [1 .. n -> [Seq(L) -> Seq(L)]]
    OBVIOUS
  <2>2. <<>> \in Seq(L)
    OBVIOUS
  <2>3. PICK jt : FoldOf(jt, Seq(L), <<>>, d, n)
    <3> HIDE DEF d, n
    <3> QED BY <2>1, <2>2, <1>1, FoldExists
  <2>4. ASSUME NEW T \in SUBSET (1 .. n), T # {}
        PROVE  d[Top(T)][jt[T \ {Top(T)}]] = op(jt[T \ {Top(T)}], s[Top(T)])
    <3>1. Top(T) \in 1 .. n /\ T \ {Top(T)} \in SUBSET (1 .. n)
      BY <2>4, TopIn, <1>1
    <3> QED BY <3>1, <2>3 DEF FoldOf
  <2>5. jt = [T \in SUBSET (1 .. n) |->
                IF T = {} THEN <<>> ELSE op(jt[T \ {Top(T)}], s[Top(T)])]
    <3> HIDE DEF d, op, n
    <3> QED BY <2>3, <2>4 DEF FoldOf
  <2> QED BY <2>5, <1>1
<1>4. Eqn(it)
  <2> HIDE DEF Eqn
  <2> QED BY <1>3
<1> DEFINE h == [k \in 0 .. n |-> it[1 .. k]]
<1>5. /\ it[1 .. 0] = <<>>
      /\ \A k \in 1 .. n : it[1 .. k] = op(it[1 .. k - 1], s[k])
  <2> DEFINE o == [T \in SUBSET (1 .. n) |-> op(it[T \ {Top(T)}], s[Top(T)])]
  <2>1. Unfolds(it, <<>>, o, n)
    <3> HIDE DEF it, op
    <3> QED BY <1>4, <1>1 DEF Unfolds
  <2>2. /\ it[1 .. 0] = <<>>
        /\ \A k \in 1 .. n : /\ it[1 .. k] = o[1 .. k]
                             /\ Top(1 .. k) = k
                             /\ (1 .. k) \ {Top(1 .. k)} = 1 .. k - 1
    <3> HIDE DEF it, o, n
    <3> QED BY <2>1, <1>1, FoldAlong
  <2>3. \A k \in 1 .. n : 1 .. k \in SUBSET (1 .. n)
    OBVIOUS
  <2> HIDE DEF it, op
  <2> QED BY <2>2, <2>3
<1>6. /\ h[0] = <<>>
      /\ \A k \in 1 .. n : h[k] = op(h[k - 1], s[k])
      /\ Distinct(s) = h[n]
  <2> HIDE DEF it, op
  <2> QED BY <1>1, <1>2, <1>5
<1> HIDE DEF h
<1> QED BY <1>6

LEMMA DistinctEmpty ==
  Distinct(<<>>) = <<>>
<1> DEFINE s == <<>>
<1>1. s \in Seq({}) /\ Len(s) = 0
  OBVIOUS
<1> HIDE DEF s
<1>2. PICK h : h[0] = <<>> /\ Distinct(s) = h[Len(s)]
  BY <1>1, DistinctSteps
<1> QED BY <1>1, <1>2 DEF s

LEMMA DistinctAppend ==
  ASSUME NEW L, NEW s \in Seq(L), NEW x \in L
  PROVE  Distinct(Append(s, x)) =
           IF Contains(Distinct(s), x) THEN Distinct(s) ELSE Append(Distinct(s), x)
<1> DEFINE t == Append(s, x)
           n == Len(s)
<1>0. /\ t \in Seq(L) /\ Len(t) = n + 1 /\ n \in Nat
      /\ \A k \in 1 .. n : t[k] = s[k]
      /\ t[n + 1] = x
  OBVIOUS
<1> HIDE DEF t
<1>1. PICK g : /\ g[0] = <<>>
               /\ \A k \in 1 .. n :
                    g[k] = IF Contains(g[k - 1], s[k]) THEN g[k - 1] ELSE Append(g[k - 1], s[k])
               /\ Distinct(s) = g[n]
  BY DistinctSteps
<1>2. PICK h : /\ h[0] = <<>>
               /\ \A k \in 1 .. Len(t) :
                    h[k] = IF Contains(h[k - 1], t[k]) THEN h[k - 1] ELSE Append(h[k - 1], t[k])
               /\ Distinct(t) = h[Len(t)]
  BY <1>0, DistinctSteps
<1>3. g[n] = h[n]
  <2>1. \A k \in 1 .. n : g[k - 1] = h[k - 1] => g[k] = h[k]
    BY <1>0, <1>1, <1>2
  <2> QED BY <1>0, <1>1, <1>2, <2>1, StepsAgree
<1>4. Distinct(t) = IF Contains(h[n], x) THEN h[n] ELSE Append(h[n], x)
  BY <1>0, <1>2
<1> QED BY <1>1, <1>3, <1>4 DEF t

\* Distinct leaves something of everything.
LEMMA DistinctIs ==
  ASSUME NEW L, NEW s \in Seq(L)
  PROVE  /\ Distinct(s) \in Seq(L)
         /\ Distinct(s) = <<>> <=> s = <<>>
<1> DEFINE Good(t) == Distinct(t) \in Seq(L) /\ (Distinct(t) = <<>> <=> t = <<>>)
           T == {t \in Seq(L) : Good(t)}
<1>1. Good(<<>>)
  <2> DEFINE z == <<>>
  <2>1. Distinct(z) = z /\ z \in Seq(L)
    BY DistinctEmpty
  <2> QED BY <2>1
<1>2. ASSUME NEW t \in Seq(L), NEW x \in L, Good(t) PROVE Good(Append(t, x))
  <2> DEFINE w == Distinct(t)
  <2>1. Distinct(Append(t, x)) = IF Contains(w, x) THEN w ELSE Append(w, x)
    BY DistinctAppend
  <2>2. w \in Seq(L)
    BY <1>2
  <2> HIDE DEF w
  <2>3. Contains(w, x) => w # <<>>
    BY <2>2 DEF Contains
  <2>4. /\ Len(Append(t, x)) = Len(t) + 1 /\ Len(t) \in Nat
        /\ Append(w, x) \in Seq(L) /\ Len(Append(w, x)) = Len(w) + 1 /\ Len(w) \in Nat
    BY <2>2
  <2>5. Append(t, x) # <<>> /\ Append(w, x) # <<>>
    BY <2>4
  <2> QED BY <2>1, <2>2, <2>3, <2>4, <2>5
<1>3. \A t \in Seq(L) : t \in T
  <2>1. <<>> \in T /\ \A t \in Seq(L), x \in L : t \in T => Append(t, x) \in T
    <3> HIDE DEF Good
    <3> QED BY <1>1, <1>2
  <2> HIDE DEF T
  <2> QED BY <2>1, SeqInSet
<1> QED BY <1>3

-----------------------------------------------------------------------------
(* The matching.                                                           *)

LEMMA BestIs ==
  ASSUME NEW sections, NEW n \in Nat, DOMAIN sections = 1 .. n, NEW d
  PROVE  Best(sections, d) = 0 \/ Best(sections, d) \in DOMAIN sections
<1> DEFINE ranks == {<<c, Rank(match_device(sections[c], d.id, d.flags))>> : c \in DOMAIN sections}
           top   == {q \in ranks : q[2] > 0 /\ \A r \in ranks : r[2] <= q[2]}
           best  == {p[1] : p \in top}
<1>1. Best(sections, d) = IF best = {} THEN 0 ELSE CHOOSE c \in best : IsFirst(c, best)
  BY Zenon DEF Best
<1>2. best \subseteq DOMAIN sections
  <2>1. \A q \in ranks : q[1] \in DOMAIN sections
    OBVIOUS
  <2> HIDE DEF ranks
  <2> QED BY <2>1
<1> HIDE DEF best
<1>3. ASSUME best # {} PROVE Best(sections, d) \in best
  <2>1. best \in SUBSET Nat
    BY <1>2
  <2>2. PICK m \in best : (CHOOSE c \in best : IsFirst(c, best)) = m
    BY <2>1, <1>3, FirstOf
  <2> QED BY <2>2, <1>1, <1>3
<1> QED BY <1>1, <1>2, <1>3

GovernedBy(sections, ds, c) == Among(ds, {d \in ToSet(ds) : Best(sections, d) = c})
Governs(sections, ds) ==
  {<<d.id, Best(sections, d)>> : d \in {e \in ToSet(ds) : Best(sections, e) # 0}}
Firsts(on) == {p \in on : \A q \in on : q[1] = p[1] => p[2] <= q[2]}

LEMMA MatchesAre ==
  ASSUME NEW sections, NEW ds
  PROVE  /\ Matching(sections, ds).per =
              [c \in DOMAIN sections |->
                 [ids   |-> IdsOf(GovernedBy(sections, ds, c)),
                  label |-> config_label(sections[c], GovernedBy(sections, ds, c))]]
         /\ Matching(sections, ds).map = Firsts(Governs(sections, ds))
<1> DEFINE best == {<<d, Best(sections, d)>> : d \in ToSet(ds)}
           mine(c) == {p[1] : p \in {q \in best : q[2] = c}}
<1>1. \A c : mine(c) = {d \in ToSet(ds) : Best(sections, d) = c}
  <2> SUFFICES ASSUME NEW c, NEW d PROVE d \in mine(c) <=> d \in ToSet(ds) /\ Best(sections, d) = c
    OBVIOUS
  <2>1. \A q : q \in best <=> \E e \in ToSet(ds) : q = <<e, Best(sections, e)>>
    OBVIOUS
  <2> HIDE DEF best
  <2>2. d \in mine(c) <=> \E q \in best : q[2] = c /\ q[1] = d
    BY Zenon
  <2>3. ASSUME NEW q \in best, q[2] = c, q[1] = d PROVE d \in ToSet(ds) /\ Best(sections, d) = c
    BY <2>1, <2>3
  <2>4. ASSUME d \in ToSet(ds), Best(sections, d) = c PROVE \E q \in best : q[2] = c /\ q[1] = d
    <3> DEFINE q == <<d, c>>
    <3>1. q \in best /\ q[2] = c /\ q[1] = d
      BY <2>1, <2>4
    <3> HIDE DEF q
    <3> QED BY <3>1
  <2> QED BY <2>2, <2>3, <2>4
<1>2. GovernedDevices(best) = Governs(sections, ds)
  <2> SUFFICES ASSUME NEW x PROVE x \in GovernedDevices(best) <=> x \in Governs(sections, ds)
    OBVIOUS
  <2>1. x \in Governs(sections, ds) <=> \E d \in ToSet(ds) : Best(sections, d) # 0 /\ x = <<d.id, Best(sections, d)>>
    BY Zenon DEF Governs
  <2>2. \A q : q \in best <=> \E e \in ToSet(ds) : q = <<e, Best(sections, e)>>
    OBVIOUS
  <2> HIDE DEF best
  <2>3. x \in GovernedDevices(best) <=> \E q \in best : q[2] # 0 /\ x = <<q[1].id, q[2]>>
    BY Zenon DEF GovernedDevices
  <2>4. ASSUME NEW q \in best, q[2] # 0, x = <<q[1].id, q[2]>>
        PROVE  \E d \in ToSet(ds) : Best(sections, d) # 0 /\ x = <<d.id, Best(sections, d)>>
    BY <2>2, <2>4
  <2>5. ASSUME NEW d \in ToSet(ds), Best(sections, d) # 0, x = <<d.id, Best(sections, d)>>
        PROVE  \E q \in best : q[2] # 0 /\ x = <<q[1].id, q[2]>>
    <3> DEFINE q == <<d, Best(sections, d)>>
    <3>1. q \in best /\ q[2] = Best(sections, d) /\ q[1] = d
      BY <2>2
    <3> HIDE DEF q
    <3> QED BY <3>1, <2>5
  <2> QED BY <2>1, <2>3, <2>4, <2>5
<1>3. /\ Matching(sections, ds).per =
           [c \in DOMAIN sections |-> [ids   |-> IdsOf(Among(ds, mine(c))),
                                       label |-> config_label(sections[c], Among(ds, mine(c)))]]
      /\ Matching(sections, ds).map =
           {p \in GovernedDevices(best) : \A q \in GovernedDevices(best) : q[1] = p[1] => p[2] <= q[2]}
  BY DEF Matching
<1> HIDE DEF best, mine
<1>4. \A c : Among(ds, mine(c)) = GovernedBy(sections, ds, c)
  BY <1>1 DEF GovernedBy
<1> QED BY <1>2, <1>3, <1>4 DEF Firsts

\* A section with a device lists an id.
LEMMA UsedIs ==
  ASSUME NEW sections, NEW D, NEW ds \in Seq(D), NEW d \in ToSet(ds)
  PROVE  IdsOf(GovernedBy(sections, ds, Best(sections, d))) # <<>>
<1> DEFINE of  == GovernedBy(sections, ds, Best(sections, d))
           ids == [i \in DOMAIN of |-> of[i].id]
           E   == {ids[i] : i \in DOMAIN of}
<1>1. of \in Seq(D) /\ d \in ToSet(of)
  BY AmongIs DEF GovernedBy
<1> HIDE DEF of
<1>2. Len(of) \in Nat /\ DOMAIN of = 1 .. Len(of) /\ DOMAIN of # {}
  BY <1>1 DEF ToSet
<1>3. ids \in [1 .. Len(of) -> E]
  BY <1>2
<1>4. ids \in Seq(E) /\ ids # <<>>
  <2> HIDE DEF ids, E
  <2>1. ids \in Seq(E) /\ DOMAIN ids = DOMAIN of
    BY <1>2, <1>3
  <2> QED BY <2>1, <1>2
<1>5. IdsOf(of) = Distinct(ids)
  BY DEF IdsOf
<1> HIDE DEF ids, E
<1>6. IdsOf(of) # <<>>
  BY <1>4, <1>5, DistinctIs
<1> QED BY <1>6 DEF of

\* Every id of the map has a section, and that section lists an id.
LEMMA MatchingIs ==
  ASSUME NEW sections, NEW n \in Nat, DOMAIN sections = 1 .. n,
         NEW D, NEW ds \in Seq(D)
  PROVE  /\ DOMAIN Matching(sections, ds).per = DOMAIN sections
         /\ \A p \in Matching(sections, ds).map :
              p[2] \in DOMAIN sections /\ Matching(sections, ds).per[p[2]].ids # <<>>
<1> DEFINE m == Matching(sections, ds)
<1>1. /\ m.per = [c \in DOMAIN sections |->
                    [ids   |-> IdsOf(GovernedBy(sections, ds, c)),
                     label |-> config_label(sections[c], GovernedBy(sections, ds, c))]]
      /\ m.map = Firsts(Governs(sections, ds))
  BY MatchesAre
<1> HIDE DEF m
<1>2. ASSUME NEW p \in m.map PROVE p[2] \in DOMAIN sections /\ m.per[p[2]].ids # <<>>
  <2>1. PICK d \in ToSet(ds) : Best(sections, d) # 0 /\ p = <<d.id, Best(sections, d)>>
    BY <1>1 DEF Firsts, Governs
  <2>2. p[2] = Best(sections, d) /\ p[2] \in DOMAIN sections
    BY <2>1, BestIs
  <2>3. IdsOf(GovernedBy(sections, ds, p[2])) # <<>>
    BY <2>2, UsedIs
  <2> QED BY <2>2, <2>3, <1>1
<1> QED BY <1>1, <1>2 DEF m

\* What the readable files are, in the order of the listing.
LEMMA ConfsAre ==
  ASSUME NEW d
  PROVE  \E ps \in Seq(Named) :
           /\ IsInjective(ps) /\ \A i \in DOMAIN ps : d[ps[i]].readable
           /\ Confs(d) = [i \in DOMAIN ps |-> [path |-> ps[i], cfg |-> d[ps[i]].cfg]]
<1> DEFINE R == {p \in Named : d[p].readable}
           ps == Among(Paths, R)
<1>1. Paths \in Seq(Named) /\ IsInjective(Paths)
  <2>1. Paths \in Seq(STRING) /\ IsInjective(Paths)
    BY WatchAssumption
  <2>2. Len(Paths) \in Nat /\ Paths = [i \in 1 .. Len(Paths) |-> Paths[i]]
        /\ DOMAIN Paths = 1 .. Len(Paths)
    BY <2>1
  <2>3. \A i \in 1 .. Len(Paths) : Paths[i] \in Named
    BY <2>2 DEF Named, ToSet
  <2>4. Paths \in [1 .. Len(Paths) -> Named]
    BY <2>2, <2>3
  <2> QED BY <2>1, <2>2, <2>4
<1>2. ps \in Seq(Named) /\ IsInjective(ps) /\ ToSet(ps) = ToSet(Paths) \intersect R
  <2> HIDE DEF R
  <2> QED BY <1>1, AmongIs
<1>3. \A i \in DOMAIN ps : d[ps[i]].readable
  <2>1. \A i \in DOMAIN ps : ps[i] \in ToSet(ps)
    BY DEF ToSet
  <2> HIDE DEF ps
  <2> QED BY <2>1, <1>2
<1>4. Confs(d) = [i \in DOMAIN ps |-> [path |-> ps[i], cfg |-> d[ps[i]].cfg]]
  BY DEF Confs
<1> HIDE DEF ps
<1> QED BY <1>2, <1>3, <1>4

\* What a detection finds: boards of as many files, each of which can be read,
\* and a map of ids to boards.
Found(d, x) ==
  /\ IsList(x.srcs) /\ Twice(x.srcs) = {}
  /\ \A i \in DOMAIN x.srcs : /\ x.srcs[i] = Source(x.srcs[i], x.srcs[i].ids, x.srcs[i].label)
                            /\ x.srcs[i].path \in Named /\ d[x.srcs[i].path].readable
  /\ \A p \in x.map : p[2] \in Nat \ {0}

\* Boards s for the configs at the distinct positions o.
Picked(d, n, o, s) ==
  /\ n \in Nat /\ o \in [1 .. n -> DOMAIN Confs(d)] /\ IsInjective(o)
  /\ DOMAIN s = 1 .. n /\ s = [i \in 1 .. n |-> s[i]]
  /\ \A i \in 1 .. n : s[i] = Source(Confs(d)[o[i]], s[i].ids, s[i].label)

LEMMA BoardsOf ==
  ASSUME NEW d, NEW n, NEW o, NEW s, Picked(d, n, o, s)
  PROVE  /\ IsList(s) /\ Twice(s) = {}
         /\ \A i \in DOMAIN s : /\ s[i] = Source(s[i], s[i].ids, s[i].label)
                              /\ s[i].path \in Named /\ d[s[i].path].readable
<1> USE DEF Picked
<1>1. PICK ps \in Seq(Named) :
        /\ IsInjective(ps) /\ \A i \in DOMAIN ps : d[ps[i]].readable
        /\ Confs(d) = [i \in DOMAIN ps |-> [path |-> ps[i], cfg |-> d[ps[i]].cfg]]
  BY ConfsAre
<1>2. IsList(s)
  BY ListIs
<1>3. ASSUME NEW i \in 1 .. n
      PROVE  /\ o[i] \in DOMAIN ps /\ s[i].path = ps[o[i]]
             /\ s[i] = Source(s[i], s[i].ids, s[i].label)
  <2>1. o[i] \in DOMAIN ps /\ Confs(d)[o[i]].path = ps[o[i]]
    BY <1>1
  <2>2. s[i] = [path |-> Confs(d)[o[i]].path, cfg |-> Confs(d)[o[i]].cfg,
                ids |-> s[i].ids, label |-> s[i].label]
    BY DEF Source
  <2>3. s[i].path = Confs(d)[o[i]].path /\ s[i].cfg = Confs(d)[o[i]].cfg
    BY <2>2
  <2> QED BY <2>1, <2>2, <2>3 DEF Source
<1>4. ASSUME NEW i \in 1 .. n PROVE s[i].path \in Named /\ d[s[i].path].readable
  BY <1>1, <1>3
<1>5. ASSUME NEW i \in 1 .. n, NEW j \in 1 .. n, s[i].path = s[j].path PROVE i = j
  <2>1. o[i] = o[j]
    BY <1>1, <1>3, <1>5 DEF IsInjective
  <2> QED BY <2>1 DEF IsInjective
<1>6. Twice(s) = {}
  <2> SUFFICES ASSUME NEW p \in Twice(s) PROVE FALSE
    OBVIOUS
  <2>1. PICK i \in DOMAIN s, j \in DOMAIN s : i # j /\ s[i].path = p /\ s[j].path = p
    BY <1>2, TwiceIs
  <2> QED BY <2>1, <1>5
<1> QED BY <1>2, <1>3, <1>4, <1>6

LEMMA AllBoards ==
  ASSUME NEW d
  PROVE  Found(d, [srcs |-> [i \in DOMAIN Confs(d) |-> Source(Confs(d)[i], <<>>, NoLabel)],
                   map  |-> {}])
<1> DEFINE s == [i \in DOMAIN Confs(d) |-> Source(Confs(d)[i], <<>>, NoLabel)]
<1>1. PICK n \in Nat : DOMAIN Confs(d) = 1 .. n
  <2>1. PICK ps \in Seq(Named) : DOMAIN Confs(d) = DOMAIN ps
    BY ConfsAre
  <2> QED BY <2>1
<1> DEFINE o == [i \in 1 .. n |-> i]
<1>2. o \in [1 .. n -> DOMAIN Confs(d)] /\ IsInjective(o)
  BY <1>1 DEF IsInjective
<1>3. /\ DOMAIN s = 1 .. n /\ s = [i \in 1 .. n |-> s[i]]
      /\ \A i \in 1 .. n : s[i] = Source(Confs(d)[o[i]], s[i].ids, s[i].label)
  BY <1>1 DEF Source
<1> HIDE DEF s, o
<1>4. /\ IsList(s) /\ Twice(s) = {}
      /\ \A i \in DOMAIN s : /\ s[i] = Source(s[i], s[i].ids, s[i].label)
                           /\ s[i].path \in Named /\ d[s[i].path].readable
  <2>1. Picked(d, n, o, s)
    BY <1>2, <1>3 DEF Picked
  <2> QED BY <2>1, BoardsOf
<1>5. Found(d, [srcs |-> s, map |-> {}])
  BY <1>4 DEF Found
<1> QED BY <1>5 DEF s

LEMMA GatherIs ==
  ASSUME NEW d, NEW D, NEW ds \in Seq(D)
  PROVE  Found(d, gather_sheets(Confs(d), ds))
<1> DEFINE confs == Confs(d)
           m == Matching(Sections(confs), ds)
           used == {c \in DOMAIN confs : m.per[c].ids # <<>>}
           all == [c \in DOMAIN confs |-> c]
           order == Among(all, used)
           s == [i \in DOMAIN order |->
                   Source(confs[order[i]], m.per[order[i]].ids, m.per[order[i]].label)]
<1>1. PICK n \in Nat : DOMAIN confs = 1 .. n
  <2>1. PICK ps \in Seq(Named) : DOMAIN Confs(d) = DOMAIN ps
    BY ConfsAre
  <2> QED BY <2>1
<1>2. CASE used = {}
  <2>1. gather_sheets(confs, ds) =
          [srcs |-> [i \in DOMAIN confs |-> Source(confs[i], <<>>, NoLabel)], map |-> {}]
    BY <1>2, Zenon DEF gather_sheets
  <2> QED BY <2>1, AllBoards
<1>3. CASE used # {}
  <2>1. gather_sheets(confs, ds) = [srcs |-> s, map |-> Renumbered(m.map, order)]
    BY <1>3, Zenon DEF gather_sheets
  <2>2. all \in Seq(DOMAIN confs) /\ IsInjective(all) /\ ToSet(all) = DOMAIN confs
    <3>1. all \in Seq(DOMAIN confs) /\ DOMAIN all = DOMAIN confs
      <4>1. all \in [1 .. n -> DOMAIN confs]
        BY <1>1
      <4> QED BY <4>1, <1>1
    <3> QED BY <3>1 DEF IsInjective, ToSet
  <2>3. order \in Seq(DOMAIN confs) /\ IsInjective(order)
        /\ ToSet(order) = DOMAIN confs \intersect used
    <3> HIDE DEF all, used
    <3> QED BY <2>2, AmongIs
  <2> HIDE DEF order
  <2>4. PICK k \in Nat : DOMAIN order = 1 .. k /\ order \in [1 .. k -> DOMAIN confs]
    BY <2>3
  <2>5. /\ DOMAIN s = 1 .. k /\ s = [i \in 1 .. k |-> s[i]]
        /\ \A i \in 1 .. k : s[i] = Source(Confs(d)[order[i]], s[i].ids, s[i].label)
    <3>1. DOMAIN s = 1 .. k /\ s = [i \in 1 .. k |-> s[i]]
      BY <2>4
    <3>2. ASSUME NEW i \in 1 .. k
          PROVE  s[i] = Source(confs[order[i]], s[i].ids, s[i].label)
      <4> HIDE DEF confs, m
      <4> QED BY <2>4 DEF Source
    <3> QED BY <3>1, <3>2
  <2> HIDE DEF s
  <2>6. /\ IsList(s) /\ Twice(s) = {}
        /\ \A i \in DOMAIN s : /\ s[i] = Source(s[i], s[i].ids, s[i].label)
                             /\ s[i].path \in Named /\ d[s[i].path].readable
    <3>1. order \in [1 .. k -> DOMAIN Confs(d)] /\ IsInjective(order)
      BY <2>3, <2>4
    <3>2. k \in Nat
      BY <2>4
    <3>3. Picked(d, k, order, s)
      BY <3>1, <3>2, <2>5 DEF Picked
    <3> QED BY <3>3, BoardsOf
  <2>7. DOMAIN Sections(confs) = 1 .. n /\ DOMAIN Sections(confs) = DOMAIN confs
    BY <1>1 DEF Sections
  <2>8. ASSUME NEW p \in m.map PROVE (CHOOSE i \in DOMAIN order : order[i] = p[2]) \in 1 .. k
    <3>1. p[2] \in used
      BY <2>7, MatchingIs
    <3>2. p[2] \in ToSet(order)
      BY <3>1, <2>3
    <3> QED BY <3>2, <2>4 DEF ToSet
  <2>9. \A q \in Renumbered(m.map, order) : q[2] \in Nat \ {0}
    <3> HIDE DEF m
    <3>1. ASSUME NEW q \in Renumbered(m.map, order)
          PROVE  \E p \in m.map : q[2] = CHOOSE i \in DOMAIN order : order[i] = p[2]
      BY DEF Renumbered
    <3>2. \A i \in 1 .. k : i \in Nat \ {0}
      BY <2>4
    <3> QED BY <3>1, <3>2, <2>8
  <2> QED BY <2>1, <2>6, <2>9 DEF Found
<1> QED BY <1>2, <1>3

LEMMA ConnectedIs == ASSUME NEW k PROVE Connected(k) \in Seq(ToSet(Devices))
<1>1. Devices \in Seq(ToSet(Devices))
  BY WatchAssumption DEF ToSet
<1> QED BY <1>1, AmongIs DEF Connected

LEMMA DetectIs == ASSUME NEW d, NEW k PROVE Found(d, Detect(d, k))
  BY AllBoards, GatherIs, ConnectedIs DEF Detect

-----------------------------------------------------------------------------
(* The invariant.                                                          *)

IsSource(s)  == s = Source(s, s.ids, s.label)
IsSession(s) == /\ s = [path |-> s.path, cfg |-> s.cfg, new |-> s.new, edited |-> s.edited]
                /\ s.new \in BOOLEAN /\ s.edited \in BOOLEAN

Shapes ==
  /\ DOMAIN disk = Named /\ DOMAIN mtimes = Named /\ \A p \in Named : IsFile(disk[p])
  /\ IsList(srcs) /\ \A i \in DOMAIN srcs : IsSource(srcs[i])
  /\ IsSession(session)

\* A session has a board, whatever the timers and the world do.
SessionHasBoard == session # NoSession => session.path \in Named /\ AtIn(srcs, session.path) # 0

\* A reload is under way only while the timers run, and never of the file that
\* is edited.
ReloadIsAimed ==
  pending # 0 => started /\ pending \in DOMAIN srcs /\ srcs[pending].path # session.path

\* Every board has its file, unless somebody took it away or it is yet to be
\* written.
BoardsHaveFiles ==
  \A i \in DOMAIN srcs : \/ Exists(srcs[i].path) \/ srcs[i].path \in tampered
                        \/ (srcs[i].path = session.path /\ session.new)

PreviewShown == session.edited => srcs[AtIn(srcs, session.path)].cfg = session.cfg
OnlyTampered == Twice(srcs) \subseteq tampered

IInv == /\ TypeOK /\ Shapes /\ WindowShowsSources /\ PreviewShown
        /\ SessionHasBoard /\ ReloadIsAimed /\ BoardsHaveFiles /\ OnlyTampered

Config(x, c)   == [x EXCEPT !.cfg = c]
Relabel(x, m)  == [x EXCEPT !.ids = m.ids, !.label = m.label]

LEMMA ConfigIs ==
  ASSUME NEW x, IsSource(x), NEW c
  PROVE  IsSource(Config(x, c)) /\ Config(x, c).cfg = c /\ Config(x, c).path = x.path
<1>1. x = [path |-> x.path, cfg |-> x.cfg, ids |-> x.ids, label |-> x.label]
  BY DEF IsSource, Source
<1>2. Config(x, c) = [path |-> x.path, cfg |-> c, ids |-> x.ids, label |-> x.label]
  BY <1>1 DEF Config
<1> QED BY <1>2 DEF IsSource, Source

LEMMA RelabelIs ==
  ASSUME NEW x, IsSource(x), NEW m
  PROVE  IsSource(Relabel(x, m)) /\ Relabel(x, m).cfg = x.cfg /\ Relabel(x, m).path = x.path
<1> DEFINE y == [x EXCEPT !.ids = m.ids]
<1>1. x = [path |-> x.path, cfg |-> x.cfg, ids |-> x.ids, label |-> x.label]
  BY DEF IsSource, Source
<1>2. y = [path |-> x.path, cfg |-> x.cfg, ids |-> m.ids, label |-> x.label]
  BY <1>1
<1>3. Relabel(x, m) = [y EXCEPT !.label = m.label]
  BY Zenon DEF Relabel
<1> HIDE DEF y
<1>4. Relabel(x, m) = [path |-> x.path, cfg |-> x.cfg, ids |-> m.ids, label |-> m.label]
  BY <1>2, <1>3
<1> QED BY <1>4 DEF IsSource, Source

\* A list of sources that keep their paths.
LEMMA SameSources ==
  ASSUME NEW s, IsList(s), NEW t, DOMAIN t = DOMAIN s, t = [i \in DOMAIN s |-> t[i]],
         \A i \in DOMAIN s : t[i].path = s[i].path
  PROVE  /\ IsList(t) /\ Len(t) = Len(s)
         /\ Twice(t) = Twice(s) /\ \A p : AtIn(t, p) = AtIn(s, p)
  BY ListMap, SamePaths

\* A source gets another config: refresh_preview, exit_edit, a reload.
Configured(s, t, k, c) ==
  /\ IsList(s) /\ (\A i \in DOMAIN s : IsSource(s[i])) /\ k \in DOMAIN s
  /\ t = [s EXCEPT ![k] = Config(s[k], c)]

LEMMA SetConfig ==
  ASSUME NEW s, NEW t, NEW k, NEW c, Configured(s, t, k, c)
  PROVE  /\ IsList(t) /\ DOMAIN t = DOMAIN s /\ Len(t) = Len(s)
         /\ \A i \in DOMAIN s : IsSource(t[i]) /\ t[i].path = s[i].path
         /\ t[k].cfg = c /\ \A i \in DOMAIN s : i # k => t[i] = s[i]
         /\ Twice(t) = Twice(s) /\ \A p : AtIn(t, p) = AtIn(s, p)
<1> USE DEF Configured
<1>1. DOMAIN t = DOMAIN s /\ t = [i \in DOMAIN s |-> t[i]]
  OBVIOUS
<1>2. t[k] = Config(s[k], c) /\ \A i \in DOMAIN s : i # k => t[i] = s[i]
  OBVIOUS
<1>3. IsSource(t[k]) /\ t[k].cfg = c /\ t[k].path = s[k].path
  BY <1>2, ConfigIs
<1>4. \A i \in DOMAIN s : IsSource(t[i]) /\ t[i].path = s[i].path
  BY <1>2, <1>3
<1>5. /\ IsList(t) /\ Len(t) = Len(s)
      /\ Twice(t) = Twice(s) /\ \A p : AtIn(t, p) = AtIn(s, p)
  BY <1>1, <1>4, SameSources
<1> QED BY <1>1, <1>2, <1>3, <1>4, <1>5

\* Every source gets other ids and another label: the device timer.
Told(s, t, per) ==
  /\ IsList(s) /\ (\A i \in DOMAIN s : IsSource(s[i]))
  /\ t = [i \in DOMAIN s |-> Relabel(s[i], per[i])]

LEMMA Relabelled ==
  ASSUME NEW s, NEW t, NEW per, Told(s, t, per)
  PROVE  /\ IsList(t) /\ DOMAIN t = DOMAIN s /\ Len(t) = Len(s)
         /\ \A i \in DOMAIN s : /\ IsSource(t[i]) /\ t[i].path = s[i].path
                              /\ t[i].cfg = s[i].cfg
         /\ Twice(t) = Twice(s) /\ \A p : AtIn(t, p) = AtIn(s, p)
<1> USE DEF Told
<1>1. DOMAIN t = DOMAIN s /\ t = [i \in DOMAIN s |-> t[i]]
  OBVIOUS
<1>2. ASSUME NEW i \in DOMAIN s
      PROVE  IsSource(t[i]) /\ t[i].path = s[i].path /\ t[i].cfg = s[i].cfg
  BY RelabelIs
<1>3. /\ IsList(t) /\ Len(t) = Len(s)
      /\ Twice(t) = Twice(s) /\ \A p : AtIn(t, p) = AtIn(s, p)
  BY <1>1, <1>2, SameSources
<1> QED BY <1>1, <1>2, <1>3

-----------------------------------------------------------------------------
(* The initial states.                                                     *)

LEMMA InitInv == Init => IInv
<1> SUFFICES ASSUME Init PROVE IInv
  OBVIOUS
<1> DEFINE x == Detect(disk, devs)
<1>1. Found(disk, x)
  BY DetectIs
<1>2. /\ srcs = x.srcs /\ map = x.map /\ sheets = srcs /\ active = 1 /\ shown = srcs[1]
      /\ changes = 0 /\ last = {} /\ mtimes = [p \in Named |-> 0] /\ pending = 0
      /\ session = NoSession /\ disk \in FirstDisks /\ devs \in FirstDevs
  BY DEF Init
<1> HIDE DEF x
<1>3. /\ IsList(srcs) /\ Twice(srcs) = {}
      /\ \A i \in DOMAIN srcs : /\ IsSource(srcs[i]) /\ srcs[i].path \in Named
                              /\ disk[srcs[i].path].readable
      /\ \A p \in map : p[2] \in Nat \ {0}
  BY <1>1, <1>2 DEF Found, IsSource
<1>4. DOMAIN disk = Named /\ \A p \in Named : IsFile(disk[p]) /\ disk[p].mtime = 0
  BY <1>2, WatchAssumption DEF Named
<1>5. devs \subseteq DOMAIN Devices /\ MaxChanges \in Nat
  BY <1>2, WatchAssumption
<1>6. Len(srcs) \in Nat /\ DOMAIN srcs = 1 .. Len(srcs) /\ (srcs = <<>> <=> Len(srcs) = 0)
  BY <1>3, ListLen
<1>7. TypeOK
  BY <1>2, <1>3, <1>4, <1>5, <1>6 DEF TypeOK
<1>8. session.new = FALSE /\ session.edited = FALSE /\ IsSession(session)
  BY <1>2 DEF NoSession, IsSession
<1>9. Shapes
  BY <1>2, <1>3, <1>4, <1>8 DEF Shapes
<1>10. WindowShowsSources
  BY <1>2, <1>6 DEF WindowShowsSources
<1>11. BoardsHaveFiles
  <2>1. \A p : Readable(p) => Exists(p)
    BY DEF Readable, Exists, Missing
  <2> QED BY <2>1, <1>3 DEF BoardsHaveFiles, Readable
<1> QED BY <1>2, <1>3, <1>7, <1>8, <1>9, <1>10, <1>11
        DEF IInv, PreviewShown, SessionHasBoard, ReloadIsAimed, OnlyTampered

-----------------------------------------------------------------------------
(* What a step leaves of the window.                                       *)

LEMMA PublishIs ==
  ASSUME IsList(srcs), WindowShowsSources, NEW S, Publish(S),
         IsList(srcs'), DOMAIN srcs' = DOMAIN srcs,
         \A i \in DOMAIN srcs : i \notin S => srcs'[i] = srcs[i]
  PROVE  WindowShowsSources'
<1>1. sheets' = [i \in DOMAIN srcs' |-> srcs'[i]]
  BY DEF Publish, WindowShowsSources
<1>2. sheets' = srcs'
  BY <1>1, ListLen
<1>3. ASSUME srcs' # <<>> PROVE active' \in DOMAIN srcs' /\ shown' = srcs'[active']
  <2>1. srcs # <<>>
    BY <1>3, ListLen
  <2> QED BY <2>1 DEF Publish, WindowShowsSources
<1> QED BY <1>2, <1>3 DEF WindowShowsSources

LEMMA RebuildIs ==
  ASSUME NEW i, Rebuild(i), srcs' # <<>> => i \in DOMAIN srcs'
  PROVE  WindowShowsSources'
  BY DEF Rebuild, WindowShowsSources

\* The world turns: no file goes that is not noted.
LEMMA WorldInv ==
  ASSUME IInv, UNCHANGED <<boards, timers, map, session>>,
         DOMAIN disk' = Named, \A p \in Named : IsFile(disk[p])' /\ disk'[p].mtime \in 0 .. MaxChanges,
         \A p \in Named : Exists(p) => Exists(p)' \/ p \in tampered', tampered \subseteq tampered',
         devs' \subseteq DOMAIN Devices, changes' \in 0 .. MaxChanges
  PROVE  IInv'
<1> USE DEF boards, timers
<1>1. TypeOK'
  BY DEF IInv, TypeOK
<1>2. Shapes'
  BY DEF IInv, Shapes
<1>3. WindowShowsSources'
  BY DEF IInv, WindowShowsSources
<1>4. PreviewShown' /\ SessionHasBoard' /\ ReloadIsAimed'
  BY DEF IInv, PreviewShown, SessionHasBoard, ReloadIsAimed
<1>5. BoardsHaveFiles'
  <2> SUFFICES ASSUME NEW i \in DOMAIN srcs
               PROVE  \/ Exists(srcs[i].path)' \/ srcs[i].path \in tampered'
                      \/ (srcs[i].path = session.path /\ session.new)
    BY DEF BoardsHaveFiles
  <2>1. srcs[i].path \in Named
    BY DEF IInv, TypeOK
  <2> QED BY <2>1 DEF IInv, BoardsHaveFiles
<1>6. OnlyTampered'
  BY DEF IInv, OnlyTampered
<1> QED BY <1>1, <1>2, <1>3, <1>4, <1>5, <1>6 DEF IInv

LEMMA StutterInv == ASSUME IInv, UNCHANGED vars PROVE IInv'
<1>1. UNCHANGED <<boards, timers, map, session>> /\ UNCHANGED world
  BY DEF vars
<1>2. /\ DOMAIN disk' = Named
      /\ \A p \in Named : IsFile(disk[p])' /\ disk'[p].mtime \in 0 .. MaxChanges
      /\ \A p \in Named : Exists(p) => Exists(p)' \/ p \in tampered'
      /\ tampered \subseteq tampered' /\ devs' \subseteq DOMAIN Devices
      /\ changes' \in 0 .. MaxChanges
  BY <1>1 DEF world, IInv, Shapes, TypeOK, Exists
<1> QED BY <1>1, <1>2, WorldInv

-----------------------------------------------------------------------------
(* The world.                                                              *)

LEMMA WriteFileInv == ASSUME NEW p \in Named, NEW c, IInv, WriteFile(p, c) PROVE IInv'
<1> DEFINE f == [cfg |-> c, mtime |-> changes + 1, readable |-> TRUE]
<1>1. /\ disk' = [disk EXCEPT ![p] = f] /\ UNCHANGED <<devs, tampered>>
      /\ changes < MaxChanges /\ changes' = changes + 1
      /\ UNCHANGED <<boards, timers, map, session>>
  BY DEF WriteFile, Change
<1>2. DOMAIN disk = Named /\ changes \in 0 .. MaxChanges /\ MaxChanges \in Nat
  BY WatchAssumption DEF IInv, Shapes, TypeOK
<1>3. IsFile(f) /\ f.mtime = changes + 1 /\ f.mtime \in 0 .. MaxChanges /\ f # Missing
  BY <1>1, <1>2 DEF IsFile, Missing
<1> HIDE DEF f
<1>4. DOMAIN disk' = Named /\ \A q \in Named : disk'[q] = IF q = p THEN f ELSE disk[q]
  BY <1>1, <1>2
<1>5. \A q \in Named : IsFile(disk[q])' /\ disk'[q].mtime \in 0 .. MaxChanges
  BY <1>3, <1>4 DEF IInv, Shapes, TypeOK, IsFile
<1>6. \A q \in Named : Exists(q) => Exists(q)'
  BY <1>3, <1>4 DEF Exists
<1>7. devs' \subseteq DOMAIN Devices /\ changes' \in 0 .. MaxChanges
  BY <1>1, <1>2 DEF IInv, TypeOK
<1> QED BY <1>1, <1>4, <1>5, <1>6, <1>7, WorldInv

LEMMA RemoveFileInv == ASSUME NEW p \in Named, IInv, RemoveFile(p) PROVE IInv'
<1>1. /\ disk' = [disk EXCEPT ![p] = Missing] /\ UNCHANGED devs
      /\ tampered' = tampered \union {p}
      /\ changes < MaxChanges /\ changes' = changes + 1
      /\ UNCHANGED <<boards, timers, map, session>>
  BY DEF RemoveFile, Change
<1>2. DOMAIN disk = Named /\ changes \in 0 .. MaxChanges /\ MaxChanges \in Nat
  BY WatchAssumption DEF IInv, Shapes, TypeOK
<1>3. IsFile(Missing) /\ Missing.mtime = 0
  BY DEF IsFile, Missing
<1>4. DOMAIN disk' = Named /\ \A q \in Named : disk'[q] = IF q = p THEN Missing ELSE disk[q]
  BY <1>1, <1>2
<1>5. \A q \in Named : IsFile(disk[q])' /\ disk'[q].mtime \in 0 .. MaxChanges
  BY <1>2, <1>3, <1>4 DEF IInv, Shapes, TypeOK, IsFile
<1>6. \A q \in Named : Exists(q) => Exists(q)' \/ q \in tampered'
  BY <1>1, <1>4 DEF Exists
<1>7. devs' \subseteq DOMAIN Devices /\ changes' \in 0 .. MaxChanges /\ tampered \subseteq tampered'
  BY <1>1, <1>2 DEF IInv, TypeOK
<1> QED BY <1>1, <1>4, <1>5, <1>6, <1>7, WorldInv

LEMMA PermitInv == ASSUME NEW p \in Named, IInv, Permit(p) PROVE IInv'
<1> DEFINE f == [disk[p] EXCEPT !.readable = ~disk[p].readable]
<1>1. /\ disk' = [disk EXCEPT ![p] = f] /\ UNCHANGED devs
      /\ tampered' = tampered \union {p}
      /\ changes < MaxChanges /\ changes' = changes + 1
      /\ UNCHANGED <<boards, timers, map, session>>
  BY DEF Permit, Change
<1>2. /\ DOMAIN disk = Named /\ changes \in 0 .. MaxChanges /\ MaxChanges \in Nat
      /\ disk[p] = [cfg |-> disk[p].cfg, mtime |-> disk[p].mtime, readable |-> disk[p].readable]
  BY WatchAssumption DEF IInv, Shapes, TypeOK, IsFile
<1>3. f = [cfg |-> disk[p].cfg, mtime |-> disk[p].mtime, readable |-> ~disk[p].readable]
  BY <1>2
<1> HIDE DEF f
<1>4. IsFile(f) /\ f.mtime = disk[p].mtime
  BY <1>3 DEF IsFile
<1>5. DOMAIN disk' = Named /\ \A q \in Named : disk'[q] = IF q = p THEN f ELSE disk[q]
  BY <1>1, <1>2
<1>6. \A q \in Named : IsFile(disk[q])' /\ disk'[q].mtime \in 0 .. MaxChanges
  BY <1>4, <1>5 DEF IInv, Shapes, TypeOK, IsFile
<1>7. \A q \in Named : Exists(q) => Exists(q)' \/ q \in tampered'
  BY <1>1, <1>5 DEF Exists
<1>8. devs' \subseteq DOMAIN Devices /\ changes' \in 0 .. MaxChanges /\ tampered \subseteq tampered'
  BY <1>1, <1>2 DEF IInv, TypeOK
<1> QED BY <1>1, <1>5, <1>6, <1>7, <1>8, WorldInv

LEMMA PlugInv == ASSUME NEW i \in DOMAIN Devices, IInv, Plug(i) PROVE IInv'
<1>1. /\ UNCHANGED <<disk, tampered>> /\ devs' = (devs \ {i}) \union ({i} \ devs)
      /\ changes < MaxChanges /\ changes' = changes + 1
      /\ UNCHANGED <<boards, timers, map, session>>
  BY DEF Plug, Change
<1>2. /\ DOMAIN disk = Named /\ changes \in 0 .. MaxChanges /\ MaxChanges \in Nat
      /\ devs \subseteq DOMAIN Devices
      /\ \A q \in Named : IsFile(disk[q]) /\ disk[q].mtime \in 0 .. MaxChanges
  BY WatchAssumption DEF IInv, Shapes, TypeOK
<1>3. /\ DOMAIN disk' = Named
      /\ \A q \in Named : IsFile(disk[q])' /\ disk'[q].mtime \in 0 .. MaxChanges
      /\ \A q \in Named : Exists(q) => Exists(q)'
  BY <1>1, <1>2 DEF Exists
<1>4. devs' \subseteq DOMAIN Devices /\ changes' \in 0 .. MaxChanges /\ tampered \subseteq tampered'
  BY <1>1, <1>2
<1> QED BY <1>1, <1>3, <1>4, WorldInv

-----------------------------------------------------------------------------
(* The window.                                                             *)

\* Another board is shown.
LEMMA SwitchInv ==
  ASSUME NEW i, IInv, SwitchTo(i), UNCHANGED <<world, srcs, sheets, timers, map, session>>
  PROVE  IInv'
<1> USE DEF world, timers
<1>1. TypeOK' /\ Shapes'
  BY DEF IInv, TypeOK, Shapes
<1>2. WindowShowsSources'
  BY DEF IInv, WindowShowsSources, SwitchTo
<1>3. PreviewShown' /\ SessionHasBoard' /\ ReloadIsAimed' /\ OnlyTampered'
  BY DEF IInv, PreviewShown, SessionHasBoard, ReloadIsAimed, OnlyTampered
<1>4. BoardsHaveFiles'
  BY DEF IInv, BoardsHaveFiles, Exists
<1> QED BY <1>1, <1>2, <1>3, <1>4 DEF IInv

LEMMA PickKeyboardInv == ASSUME NEW i, IInv, PickKeyboard(i) PROVE IInv'
  BY SwitchInv DEF PickKeyboard

LEMMA KeyGoesDownInv == ASSUME NEW i, IInv, KeyGoesDown(i) PROVE IInv'
  BY SwitchInv DEF KeyGoesDown

LEMMA StartInv == ASSUME IInv, Start PROVE IInv'
<1> USE DEF world, boards
<1>1. /\ started' = TRUE /\ last' = rescan(srcs, Connected(devs)).map
      /\ mtimes' = [p \in Named |-> IF Positions(p) = {} THEN 0 ELSE disk[p].mtime]
      /\ UNCHANGED <<world, boards, pending, map, session>>
  BY DEF Start
<1>2. \A p \in last' : p[2] \in Nat \ {0}
  <2>1. Len(srcs) \in Nat /\ DOMAIN srcs = 1 .. Len(srcs)
    BY ListLen DEF IInv, Shapes
  <2>2. DOMAIN Sections(srcs) = 1 .. Len(srcs)
    BY <2>1 DEF Sections
  <2>3. \A p \in last' : p[2] \in DOMAIN Sections(srcs)
    BY <1>1, <2>1, <2>2, ConnectedIs, MatchingIs DEF rescan
  <2> QED BY <2>1, <2>2, <2>3
<1>3. DOMAIN mtimes' = Named /\ \A p \in Named : mtimes'[p] \in 0 .. MaxChanges
  <2>1. MaxChanges \in Nat
    BY WatchAssumption
  <2> QED BY <1>1, <2>1 DEF IInv, TypeOK
<1>4. TypeOK' /\ Shapes'
  BY <1>1, <1>2, <1>3 DEF IInv, TypeOK, Shapes
<1>5. WindowShowsSources' /\ PreviewShown' /\ SessionHasBoard' /\ ReloadIsAimed' /\ OnlyTampered'
  BY <1>1 DEF IInv, WindowShowsSources, PreviewShown, SessionHasBoard, ReloadIsAimed, OnlyTampered
<1>6. BoardsHaveFiles'
  BY <1>1 DEF IInv, BoardsHaveFiles, Exists
<1> QED BY <1>4, <1>5, <1>6 DEF IInv

LEMMA StampInv == ASSUME NEW i, IInv, StampMtime(i) PROVE IInv'
<1> USE DEF world, boards
<1>1. /\ started /\ i \in DOMAIN srcs /\ srcs[i].path # session.path /\ pending' = i
      /\ mtimes' = [mtimes EXCEPT ![srcs[i].path] = disk[srcs[i].path].mtime]
      /\ UNCHANGED <<world, boards, started, last, map, session>>
  BY DEF StampMtime, Idle, Due
<1>2. Len(srcs) \in Nat /\ DOMAIN srcs = 1 .. Len(srcs) /\ srcs[i].path \in Named
  BY <1>1, ListLen DEF IInv, Shapes, TypeOK
<1>3. DOMAIN mtimes' = Named /\ \A p \in Named : mtimes'[p] \in 0 .. MaxChanges
  BY <1>1, <1>2 DEF IInv, TypeOK, Shapes
<1>4. TypeOK' /\ Shapes'
  BY <1>1, <1>2, <1>3 DEF IInv, TypeOK, Shapes
<1>5. WindowShowsSources' /\ PreviewShown' /\ SessionHasBoard' /\ ReloadIsAimed' /\ OnlyTampered'
  BY <1>1 DEF IInv, WindowShowsSources, PreviewShown, SessionHasBoard, ReloadIsAimed, OnlyTampered
<1>6. BoardsHaveFiles'
  BY <1>1 DEF IInv, BoardsHaveFiles, Exists
<1> QED BY <1>4, <1>5, <1>6 DEF IInv

LEMMA OpenEditInv == ASSUME IInv, OpenEdit PROVE IInv'
<1> USE DEF world, boards, timers
<1>1. /\ pending = 0 /\ session = NoSession /\ active \in DOMAIN srcs
      /\ session' = [path |-> srcs[active].path, cfg |-> disk[srcs[active].path].cfg,
                     new |-> FALSE, edited |-> FALSE]
      /\ UNCHANGED <<world, boards, timers, map>>
  BY DEF OpenEdit, Idle
<1>2. IsSession(session)'
  BY <1>1 DEF IsSession
<1>3. session.new = FALSE /\ session'.edited = FALSE /\ session'.path = srcs[active].path
  BY <1>1 DEF NoSession
<1>4. TypeOK' /\ Shapes'
  BY <1>1, <1>2 DEF IInv, TypeOK, Shapes
<1>5. SessionHasBoard'
  <2>1. IsList(srcs) /\ srcs[active].path \in Named
    BY <1>1 DEF IInv, TypeOK, Shapes
  <2>2. active \in PosIn(srcs, srcs[active].path)
    BY <1>1 DEF PosIn
  <2>3. AtIn(srcs, srcs[active].path) # 0
    BY <2>1, <2>2, AtInIs
  <2> QED BY <1>1, <1>3, <2>1, <2>3 DEF SessionHasBoard
<1>6. WindowShowsSources' /\ PreviewShown' /\ ReloadIsAimed' /\ OnlyTampered'
  BY <1>1, <1>3 DEF IInv, WindowShowsSources, PreviewShown, ReloadIsAimed, OnlyTampered
<1>7. BoardsHaveFiles'
  BY <1>1, <1>3 DEF IInv, BoardsHaveFiles, Exists
<1> QED BY <1>4, <1>5, <1>6, <1>7 DEF IInv

-----------------------------------------------------------------------------
(* A board changes.                                                        *)

\* What a list of the same paths leaves standing.
Kept ==
  /\ IsList(srcs') /\ DOMAIN srcs' = DOMAIN srcs /\ Len(srcs') = Len(srcs)
  /\ \A i \in DOMAIN srcs : IsSource(srcs'[i]) /\ srcs'[i].path = srcs[i].path
  /\ Twice(srcs') = Twice(srcs) /\ \A p : AtIn(srcs', p) = AtIn(srcs, p)
  /\ WindowShowsSources'

LEMMA RetoldIs ==
  ASSUME IInv, NEW k \in DOMAIN srcs, NEW c, srcs' = [srcs EXCEPT ![k] = Config(srcs[k], c)],
         Publish({k})
  PROVE  Kept /\ srcs'[k].cfg = c /\ \A i \in DOMAIN srcs : i # k => srcs'[i] = srcs[i]
<1>1. /\ IsList(srcs') /\ DOMAIN srcs' = DOMAIN srcs /\ Len(srcs') = Len(srcs)
      /\ \A i \in DOMAIN srcs : IsSource(srcs'[i]) /\ srcs'[i].path = srcs[i].path
      /\ srcs'[k].cfg = c /\ \A i \in DOMAIN srcs : i # k => srcs'[i] = srcs[i]
      /\ Twice(srcs') = Twice(srcs) /\ \A p : AtIn(srcs', p) = AtIn(srcs, p)
  <2>1. IsList(srcs) /\ \A i \in DOMAIN srcs : IsSource(srcs[i])
    BY DEF IInv, Shapes
  <2>2. Configured(srcs, srcs', k, c)
    BY <2>1 DEF Configured
  <2> HIDE DEF Configured
  <2>3. /\ IsList(srcs') /\ DOMAIN srcs' = DOMAIN srcs /\ Len(srcs') = Len(srcs)
        /\ \A i \in DOMAIN srcs : IsSource(srcs'[i]) /\ srcs'[i].path = srcs[i].path
    BY <2>2, SetConfig
  <2>4. srcs'[k].cfg = c /\ \A i \in DOMAIN srcs : i # k => srcs'[i] = srcs[i]
    BY <2>2, SetConfig
  <2>5. Twice(srcs') = Twice(srcs)
    BY <2>2, SetConfig
  <2>6. \A p : AtIn(srcs', p) = AtIn(srcs, p)
    BY <2>2, SetConfig
  <2> QED BY <2>3, <2>4, <2>5, <2>6
<1>2. WindowShowsSources'
  <2>1. IsList(srcs) /\ WindowShowsSources
    BY DEF IInv, Shapes
  <2>2. \A i \in DOMAIN srcs : i \notin {k} => srcs'[i] = srcs[i]
    BY <1>1
  <2> QED BY <2>1, <2>2, <1>1, PublishIs
<1> QED BY <1>1, <1>2 DEF Kept

\* A source that nobody tells anything new is published as it is.
LEMMA RepeatedIs ==
  ASSUME IInv, NEW k, srcs' = srcs, Publish({k})
  PROVE  Kept
<1>1. IsList(srcs) /\ WindowShowsSources /\ \A i \in DOMAIN srcs : IsSource(srcs[i])
  BY DEF IInv, Shapes
<1>2. WindowShowsSources'
  BY <1>1, PublishIs
<1> QED BY <1>1, <1>2 DEF Kept

LEMMA UntouchedIs == ASSUME IInv, UNCHANGED boards PROVE Kept
  BY DEF Kept, boards, IInv, Shapes, WindowShowsSources

\* The session has a board, and At finds it.
LEMMA SessionAt ==
  ASSUME IInv, session # NoSession
  PROVE  LET k == At(session.path)
         IN  /\ k = AtIn(srcs, session.path) /\ k # 0 /\ k \in DOMAIN srcs
             /\ srcs[k].path = session.path /\ session.path \in Named
<1>1. IsList(srcs) /\ session.path \in Named /\ AtIn(srcs, session.path) # 0
  BY DEF IInv, Shapes, SessionHasBoard
<1> QED BY <1>1, AtInIs, SameAsIn

\* The boards are Kept, and with them the files: what is left to say is of the
\* session.
LEMMA KeptInv ==
  ASSUME IInv, Kept, UNCHANGED <<devs, tampered, mtimes>>,
         pending' \in 0 .. Len(srcs), ReloadIsAimed',
         \A p \in map' \union last' : p[2] \in Nat \ {0}, DOMAIN disk' = Named,
         \A p \in Named : IsFile(disk[p])' /\ disk'[p].mtime \in 0 .. MaxChanges,
         changes' \in 0 .. MaxChanges, IsSession(session'), PreviewShown',
         session' = NoSession \/ (session # NoSession /\ session'.path = session.path),
         \A p \in Named : Exists(p) => Exists(p)',
         session # NoSession /\ session.new =>
           disk'[session.path] # Missing \/ (session'.path = session.path /\ session'.new)
  PROVE  IInv'
<1>1. TypeOK'
  BY DEF IInv, TypeOK, Kept
<1>2. Shapes'
  BY DEF IInv, Shapes, Kept
<1>3. WindowShowsSources' /\ OnlyTampered'
  BY DEF IInv, Kept, OnlyTampered
<1>4. SessionHasBoard'
  BY DEF IInv, Kept, SessionHasBoard
<1>5. BoardsHaveFiles'
  <2> SUFFICES ASSUME NEW i \in DOMAIN srcs'
               PROVE  \/ disk'[srcs'[i].path] # Missing \/ srcs'[i].path \in tampered'
                      \/ (srcs'[i].path = session'.path /\ session'.new)
    BY DEF BoardsHaveFiles, Exists
  <2>1. i \in DOMAIN srcs /\ srcs[i].path \in Named
    BY DEF IInv, TypeOK, Kept
  <2>2. srcs'[i].path = srcs[i].path
    BY <2>1 DEF Kept
  <2>3. NoSession.new = FALSE
    BY DEF NoSession
  <2>4. Exists(srcs[i].path) => disk'[srcs[i].path] # Missing
    BY <2>1 DEF Exists
  <2>5. ASSUME srcs[i].path = session.path, session.new
        PROVE  disk'[session.path] # Missing \/ (session'.path = session.path /\ session'.new)
    <3>1. session # NoSession
      BY <2>3, <2>5
    <3> QED BY <3>1, <2>5
  <2>6. \/ Exists(srcs[i].path) \/ srcs[i].path \in tampered
        \/ (srcs[i].path = session.path /\ session.new)
    BY <2>1 DEF IInv, BoardsHaveFiles
  <2> QED BY <2>1, <2>2, <2>4, <2>5, <2>6
<1> QED BY <1>1, <1>2, <1>3, <1>4, <1>5 DEF IInv

LEMMA EditInv == ASSUME NEW b, IInv, Edit(b) PROVE IInv'
<1> DEFINE k == At(session.path)
           z == [session.cfg EXCEPT !.body = b]
           y == [session EXCEPT !.cfg = z]
<1>1. /\ pending = 0 /\ started /\ session # NoSession
      /\ session' = [session EXCEPT !.cfg.body = b, !.edited = TRUE]
      /\ IF k = 0 THEN UNCHANGED boards
         ELSE srcs' = [srcs EXCEPT ![k].cfg = session'.cfg] /\ Publish({k})
      /\ UNCHANGED <<world, timers, map>>
  BY DEF Edit, Idle
<1>2. /\ k = AtIn(srcs, session.path) /\ k # 0 /\ k \in DOMAIN srcs
      /\ srcs[k].path = session.path
  BY <1>1, SessionAt
<1>3. /\ IsSession(session') /\ session'.path = session.path
      /\ session'.new = session.new
  <2>1. /\ session = [path |-> session.path, cfg |-> session.cfg, new |-> session.new,
                      edited |-> session.edited]
        /\ session.new \in BOOLEAN
    BY DEF IInv, Shapes, IsSession
  <2>2. session' = [y EXCEPT !.edited = TRUE]
    BY <1>1, Zenon
  <2> HIDE DEF z
  <2>3. y = [path |-> session.path, cfg |-> z, new |-> session.new, edited |-> session.edited]
    BY <2>1
  <2> HIDE DEF y
  <2>4. session' = [path |-> session.path, cfg |-> z, new |-> session.new, edited |-> TRUE]
    BY <2>2, <2>3
  <2> QED BY <2>1, <2>4 DEF IsSession
<1>4. srcs' = [srcs EXCEPT ![k] = Config(srcs[k], session'.cfg)] /\ Publish({k})
  BY <1>1, <1>2, Zenon DEF Config
<1> HIDE DEF k
<1>5. Kept /\ srcs'[k].cfg = session'.cfg
  BY <1>2, <1>4, RetoldIs
<1>6. PreviewShown'
  <2>1. AtIn(srcs', session'.path) = k
    BY <1>2, <1>3, <1>5 DEF Kept
  <2> QED BY <1>5, <2>1 DEF PreviewShown
<1>7. /\ UNCHANGED <<devs, tampered, mtimes>> /\ pending' \in 0 .. Len(srcs) /\ ReloadIsAimed'
      /\ \A p \in map' \union last' : p[2] \in Nat \ {0}
      /\ DOMAIN disk' = Named /\ changes' \in 0 .. MaxChanges
      /\ \A p \in Named : IsFile(disk[p])' /\ disk'[p].mtime \in 0 .. MaxChanges
      /\ \A p \in Named : Exists(p) => Exists(p)'
  BY <1>1 DEF world, timers, IInv, TypeOK, Shapes, ReloadIsAimed, Exists
<1> QED BY <1>1, <1>3, <1>5, <1>6, <1>7, KeptInv

\* The board of the session goes, with the session.
LEMMA DropInv ==
  ASSUME IInv, session # NoSession, session' = NoSession, DropSource(At(session.path)),
         UNCHANGED <<devs, changes, tampered, timers, map>>, pending = 0, DOMAIN disk' = Named,
         \A p \in Named : /\ IsFile(disk[p])' /\ disk'[p].mtime \in 0 .. MaxChanges
                          /\ p # session.path => disk'[p] = disk[p]
  PROVE  IInv'
<1> DEFINE k == At(session.path)
<1>1. k = AtIn(srcs, session.path) /\ k \in DOMAIN srcs /\ srcs[k].path = session.path
  BY SessionAt
<1>2. srcs' = RemoveAt(srcs, k) /\ Rebuild(Clamped)
  BY DEF DropSource
<1> HIDE DEF k
<1>3. IsList(srcs) /\ Len(srcs) \in Nat /\ DOMAIN srcs = 1 .. Len(srcs)
  BY ListLen DEF IInv, Shapes
<1>4. /\ IsList(srcs') /\ Len(srcs') = Len(srcs) - 1 /\ Twice(srcs') \subseteq Twice(srcs)
      /\ \A i \in DOMAIN srcs' : \E j \in DOMAIN srcs : j # k /\ srcs'[i] = srcs[j]
  <2>1. IsList(RemoveAt(srcs, k)) /\ Len(RemoveAt(srcs, k)) = Len(srcs) - 1
    BY <1>1, <1>3, ListRemove
  <2>2. /\ Twice(RemoveAt(srcs, k)) \subseteq Twice(srcs)
        /\ \A i \in DOMAIN RemoveAt(srcs, k) :
             \E j \in DOMAIN srcs : j # k /\ RemoveAt(srcs, k)[i] = srcs[j]
    BY <1>1, <1>3, FewerPaths
  <2> QED BY <1>2, <2>1, <2>2
<1>5. /\ Len(srcs') \in Nat /\ DOMAIN srcs' = 1 .. Len(srcs')
      /\ srcs' = <<>> <=> Len(srcs') = 0
  BY <1>4, ListLen
<1>6. session'.new = FALSE /\ session'.edited = FALSE /\ IsSession(session')
  BY DEF NoSession, IsSession
<1>7. TypeOK'
  <2>1. \A i \in DOMAIN srcs' : srcs'[i].path \in Named
    BY <1>4 DEF IInv, TypeOK
  <2> QED BY <1>5, <2>1 DEF IInv, TypeOK, timers
<1>8. Shapes'
  <2>1. \A i \in DOMAIN srcs' : IsSource(srcs'[i])
    BY <1>4 DEF IInv, Shapes
  <2> QED BY <1>4, <1>6, <2>1 DEF IInv, Shapes, timers
<1>9. WindowShowsSources'
  <2>1. active \in 1 .. Len(srcs)
    <3>1. srcs # <<>>
      BY <1>1, <1>3
    <3> QED BY <3>1, <1>3 DEF IInv, WindowShowsSources
  <2>2. srcs' # <<>> => Clamped \in DOMAIN srcs'
    BY <1>3, <1>4, <1>5, <2>1 DEF Clamped
  <2> QED BY <1>2, <2>2, RebuildIs
<1>10. PreviewShown' /\ SessionHasBoard' /\ ReloadIsAimed'
  BY <1>6 DEF PreviewShown, SessionHasBoard, ReloadIsAimed, timers
<1>11. OnlyTampered'
  BY <1>4 DEF IInv, OnlyTampered
<1>12. BoardsHaveFiles'
  <2> SUFFICES ASSUME NEW i \in DOMAIN srcs'
               PROVE  disk'[srcs'[i].path] # Missing \/ srcs'[i].path \in tampered
    BY DEF BoardsHaveFiles, Exists
  <2>1. PICK j \in DOMAIN srcs : j # k /\ srcs'[i] = srcs[j]
    BY <1>4
  <2>2. CASE srcs[j].path = session.path
    <3>1. srcs[j].path \in Twice(srcs)
      BY <1>1, <1>3, <2>1, <2>2, TwiceIs
    <3> QED BY <3>1, <2>1 DEF IInv, OnlyTampered
  <2>3. CASE srcs[j].path # session.path
    <3>1. Exists(srcs[j].path) \/ srcs[j].path \in tampered
      BY <2>3 DEF IInv, BoardsHaveFiles
    <3>2. srcs[j].path \in Named
      BY DEF IInv, TypeOK
    <3> QED BY <2>1, <2>3, <3>1, <3>2 DEF Exists
  <2> QED BY <2>2, <2>3
<1> QED BY <1>7, <1>8, <1>9, <1>10, <1>11, <1>12 DEF IInv

LEMMA ExitEditInv == ASSUME IInv, ExitEdit PROVE IInv'
<1> DEFINE k == At(session.path)
<1>1. /\ pending = 0 /\ session # NoSession /\ session' = NoSession
      /\ IF k = 0 THEN UNCHANGED boards
         ELSE IF session.new /\ ~Exists(session.path) THEN DropSource(k)
         ELSE /\ srcs' = IF Readable(session.path)
                         THEN [srcs EXCEPT ![k].cfg = disk[session.path].cfg] ELSE srcs
              /\ Publish({k})
      /\ UNCHANGED <<world, timers, map>>
  BY DEF ExitEdit, Idle
<1>2. k # 0 /\ k \in DOMAIN srcs /\ session.path \in Named
  BY <1>1, SessionAt
<1> HIDE DEF k
<1>3. /\ UNCHANGED <<disk, devs, changes, tampered, mtimes>> /\ pending' \in 0 .. Len(srcs)
      /\ ReloadIsAimed' /\ DOMAIN disk' = Named /\ changes' \in 0 .. MaxChanges
      /\ \A p \in map' \union last' : p[2] \in Nat \ {0}
      /\ \A p \in Named : IsFile(disk[p])' /\ disk'[p].mtime \in 0 .. MaxChanges
      /\ \A p \in Named : Exists(p) => Exists(p)'
  BY <1>1 DEF world, timers, IInv, TypeOK, Shapes, ReloadIsAimed, Exists
<1>4. IsSession(session') /\ PreviewShown'
  BY <1>1 DEF NoSession, IsSession, PreviewShown
<1>5. CASE session.new /\ ~Exists(session.path)
  <2>1. DropSource(At(session.path))
    BY <1>1, <1>2, <1>5 DEF k
  <2> QED BY <1>1, <1>3, <2>1, DropInv
<1>6. CASE ~(session.new /\ ~Exists(session.path))
  <2>1. Kept
    <3>1. CASE Readable(session.path)
      <4>1. Publish({k})
        BY <1>1, <1>2, <1>6
      <4>2. srcs' = [srcs EXCEPT ![k] = Config(srcs[k], disk[session.path].cfg)]
        BY <1>1, <1>2, <1>6, <3>1, Zenon DEF Config
      <4> QED BY <1>2, <4>1, <4>2, RetoldIs
    <3>2. CASE ~Readable(session.path)
      <4>1. srcs' = srcs /\ Publish({k})
        BY <1>1, <1>2, <1>6, <3>2
      <4> QED BY <4>1, RepeatedIs
    <3> QED BY <3>1, <3>2
  <2>2. session.new => disk'[session.path] # Missing
    BY <1>3, <1>6 DEF Exists
  <2> QED BY <1>1, <1>3, <1>4, <2>1, <2>2, KeptInv
<1> QED BY <1>5, <1>6

LEMMA DeleteKeptInv == ASSUME IInv, DeleteKept PROVE IInv'
<1>1. /\ pending = 0 /\ session # NoSession /\ session' = NoSession
      /\ disk' = [disk EXCEPT ![session.path] = Missing]
      /\ IF At(session.path) = 0 THEN UNCHANGED boards ELSE DropSource(At(session.path))
      /\ UNCHANGED <<devs, changes, tampered, timers, map>>
  BY DEF DeleteKept, Idle
<1>2. At(session.path) # 0 /\ session.path \in Named
  BY <1>1, SessionAt
<1>3. IsFile(Missing) /\ Missing.mtime = 0 /\ MaxChanges \in Nat
  BY WatchAssumption DEF IsFile, Missing
<1>4. DOMAIN disk' = Named /\ \A p \in Named : disk'[p] = IF p = session.path THEN Missing ELSE disk[p]
  BY <1>1, <1>2 DEF IInv, Shapes
<1>5. \A p \in Named : /\ IsFile(disk[p])' /\ disk'[p].mtime \in 0 .. MaxChanges
                       /\ p # session.path => disk'[p] = disk[p]
  BY <1>3, <1>4 DEF IInv, Shapes, TypeOK, IsFile
<1> QED BY <1>1, <1>2, <1>4, <1>5, DropInv

LEMMA SessionWith ==
  ASSUME NEW s, s = [path |-> s.path, cfg |-> s.cfg, new |-> s.new, edited |-> s.edited], NEW n
  PROVE  [s EXCEPT !.new = n] = [path |-> s.path, cfg |-> s.cfg, new |-> n, edited |-> s.edited]
  OBVIOUS

LEMMA ApplyKeptInv == ASSUME IInv, ApplyKept PROVE IInv'
<1> DEFINE k == At(session.path)
           f == [cfg |-> session.cfg, mtime |-> changes + 1, readable |-> TRUE]
           y == [session EXCEPT !.new = FALSE]
<1>1. /\ pending = 0 /\ session.edited /\ changes < MaxChanges /\ changes' = changes + 1
      /\ disk' = [disk EXCEPT ![session.path] = f]
      /\ session' = [session EXCEPT !.new = FALSE, !.edited = FALSE]
      /\ IF k = 0 THEN UNCHANGED boards
         ELSE srcs' = [srcs EXCEPT ![k].cfg = session.cfg] /\ Publish({k})
      /\ UNCHANGED <<devs, tampered, timers, map>>
  BY DEF ApplyKept, Idle
<1>2. session # NoSession
  <2>1. NoSession.edited = FALSE
    BY DEF NoSession
  <2> QED BY <1>1, <2>1
<1>3. k # 0 /\ k \in DOMAIN srcs /\ session.path \in Named
  BY <1>2, SessionAt
<1>4. /\ IsSession(session') /\ session'.path = session.path /\ session'.edited = FALSE
  <2>1. /\ session = [path |-> session.path, cfg |-> session.cfg, new |-> session.new,
                      edited |-> session.edited]
        /\ session.new \in BOOLEAN /\ session.edited \in BOOLEAN
    BY DEF IInv, Shapes, IsSession
  <2>2. session' = [y EXCEPT !.edited = FALSE]
    BY <1>1, Zenon
  <2>3. y = [path |-> session.path, cfg |-> session.cfg, new |-> FALSE, edited |-> session.edited]
    BY <2>1, SessionWith
  <2> HIDE DEF y
  <2>4. session' = [path |-> session.path, cfg |-> session.cfg, new |-> FALSE, edited |-> FALSE]
    BY <2>2, <2>3
  <2> QED BY <2>4 DEF IsSession
<1>5. srcs' = [srcs EXCEPT ![k] = Config(srcs[k], session.cfg)] /\ Publish({k})
  BY <1>1, <1>3, Zenon DEF Config
<1> HIDE DEF k
<1>6. Kept
  BY <1>3, <1>5, RetoldIs
<1>7. DOMAIN disk = Named /\ changes \in 0 .. MaxChanges /\ MaxChanges \in Nat
  BY WatchAssumption DEF IInv, Shapes, TypeOK
<1>8. IsFile(f) /\ f.mtime \in 0 .. MaxChanges /\ f # Missing
  BY <1>1, <1>7 DEF IsFile, Missing
<1> HIDE DEF f
<1>9. DOMAIN disk' = Named /\ \A p \in Named : disk'[p] = IF p = session.path THEN f ELSE disk[p]
  BY <1>1, <1>7
<1>10. /\ \A p \in Named : IsFile(disk[p])' /\ disk'[p].mtime \in 0 .. MaxChanges
       /\ \A p \in Named : Exists(p) => Exists(p)'
       /\ disk'[session.path] # Missing
  BY <1>3, <1>8, <1>9 DEF IInv, Shapes, TypeOK, IsFile, Exists
<1>11. /\ UNCHANGED <<devs, tampered, mtimes>> /\ pending' \in 0 .. Len(srcs) /\ ReloadIsAimed'
       /\ \A p \in map' \union last' : p[2] \in Nat \ {0}
       /\ changes' \in 0 .. MaxChanges
  BY <1>1, <1>7 DEF timers, IInv, TypeOK, ReloadIsAimed
<1>12. PreviewShown'
  BY <1>4 DEF PreviewShown
<1> QED BY <1>2, <1>4, <1>6, <1>9, <1>10, <1>11, <1>12, KeptInv

LEMMA CreateConfigInv ==
  ASSUME NEW p \in Named, NEW ids, NEW label, IInv, CreateConfig(p, ids, label)
  PROVE  IInv'
<1> DEFINE cfg == [ids |-> ids, body |-> "starter"]
           x == Source([path |-> p, cfg |-> cfg], <<ids[1].pattern>>, label)
<1>1. /\ pending = 0 /\ session = NoSession /\ ~Exists(p)
      /\ session' = [path |-> p, cfg |-> cfg, new |-> TRUE, edited |-> FALSE]
      /\ srcs' = Append(srcs, x) /\ Rebuild(Len(srcs'))
      /\ UNCHANGED <<world, timers, map>>
  BY DEF CreateConfig, Idle, config_name_taken
<1>2. IsSource(x) /\ x.path = p
  BY DEF IsSource, Source
<1>3. /\ IsSession(session') /\ session'.path = p /\ session'.new = TRUE
      /\ session'.edited = FALSE /\ session' # NoSession
  BY <1>1 DEF IsSession, NoSession
<1> HIDE DEF x, cfg
<1>4. IsList(srcs) /\ Len(srcs) \in Nat /\ DOMAIN srcs = 1 .. Len(srcs)
  BY ListLen DEF IInv, Shapes
<1>5. /\ IsList(srcs') /\ Len(srcs') = Len(srcs) + 1 /\ DOMAIN srcs' = 1 .. Len(srcs) + 1
      /\ srcs'[Len(srcs) + 1] = x /\ \A i \in DOMAIN srcs : srcs'[i] = srcs[i]
  <2>1. /\ IsList(Append(srcs, x)) /\ Len(Append(srcs, x)) = Len(srcs) + 1
        /\ Append(srcs, x)[Len(srcs) + 1] = x
        /\ \A i \in DOMAIN srcs : Append(srcs, x)[i] = srcs[i]
    BY <1>4, ListAppend
  <2>2. DOMAIN srcs' = 1 .. Len(srcs')
    BY <1>1, <2>1, ListLen
  <2> QED BY <1>1, <2>1, <2>2
<1>6. /\ Twice(srcs') \subseteq Twice(srcs) \union (IF PosIn(srcs, p) = {} THEN {} ELSE {p})
      /\ AtIn(srcs', p) # 0
  BY <1>1, <1>2, <1>4, MorePaths
<1>7. \A i \in DOMAIN srcs' : i \in DOMAIN srcs \/ (i = Len(srcs) + 1 /\ srcs'[i] = x)
  BY <1>4, <1>5
<1>8. TypeOK'
  <2>1. \A i \in DOMAIN srcs' : srcs'[i].path \in Named
    BY <1>2, <1>5, <1>7 DEF IInv, TypeOK
  <2> QED BY <1>1, <1>4, <1>5, <2>1 DEF IInv, TypeOK, world, timers
<1>9. Shapes'
  <2>1. \A i \in DOMAIN srcs' : IsSource(srcs'[i])
    BY <1>2, <1>5, <1>7 DEF IInv, Shapes
  <2> QED BY <1>1, <1>3, <1>5, <2>1 DEF IInv, Shapes, world, timers
<1>10. WindowShowsSources'
  <2>1. Len(srcs') \in DOMAIN srcs'
    BY <1>4, <1>5
  <2> QED BY <1>1, <2>1, RebuildIs
<1>11. PreviewShown' /\ SessionHasBoard' /\ ReloadIsAimed'
  BY <1>1, <1>3, <1>6 DEF PreviewShown, SessionHasBoard, ReloadIsAimed, timers
<1>12. \A i \in DOMAIN srcs : Exists(srcs[i].path) \/ srcs[i].path \in tampered
  <2>1. NoSession.new = FALSE
    BY DEF NoSession
  <2> QED BY <1>1, <2>1 DEF IInv, BoardsHaveFiles
<1>13. OnlyTampered'
  <2>1. PosIn(srcs, p) # {} => p \in tampered
    BY <1>1, <1>12 DEF PosIn
  <2> QED BY <1>1, <1>6, <2>1 DEF IInv, OnlyTampered, world
<1>14. BoardsHaveFiles'
  <2> SUFFICES ASSUME NEW i \in DOMAIN srcs'
               PROVE  \/ disk'[srcs'[i].path] # Missing \/ srcs'[i].path \in tampered'
                      \/ (srcs'[i].path = session'.path /\ session'.new)
    BY DEF BoardsHaveFiles, Exists
  <2>1. CASE i \in DOMAIN srcs
    BY <1>1, <1>5, <1>12, <2>1 DEF Exists, world
  <2>2. CASE i = Len(srcs) + 1
    BY <1>2, <1>3, <1>5, <2>2
  <2> QED BY <1>7, <2>1, <2>2
<1> QED BY <1>8, <1>9, <1>10, <1>11, <1>13, <1>14 DEF IInv

-----------------------------------------------------------------------------
(* The timers.                                                             *)

LEMMA ReloadInv == ASSUME IInv, Reload PROVE IInv'
<1>1. /\ pending # 0 /\ pending' = 0
      /\ IF Readable(srcs[pending].path)
         THEN /\ srcs' = [srcs EXCEPT ![pending].cfg = disk[srcs[pending].path].cfg]
              /\ Publish({pending})
         ELSE UNCHANGED boards
      /\ UNCHANGED <<world, started, last, mtimes, map, session>>
  BY DEF Reload
<1>2. pending \in DOMAIN srcs /\ srcs[pending].path # session.path
  BY <1>1 DEF IInv, ReloadIsAimed
<1>3. Kept /\ \A i \in DOMAIN srcs : i # pending => srcs'[i] = srcs[i]
  <2>1. CASE Readable(srcs[pending].path)
    <3>1. Publish({pending})
      BY <1>1, <2>1
    <3>2. srcs' = [srcs EXCEPT ![pending] = Config(srcs[pending], disk[srcs[pending].path].cfg)]
      BY <1>1, <2>1, Zenon DEF Config
    <3> QED BY <1>2, <3>1, <3>2, RetoldIs
  <2>2. CASE ~Readable(srcs[pending].path)
    <3>1. UNCHANGED boards
      BY <1>1, <2>2
    <3> QED BY <3>1, UntouchedIs DEF boards
  <2> QED BY <2>1, <2>2
<1>4. PreviewShown'
  <2> SUFFICES ASSUME session.edited
               PROVE  srcs'[AtIn(srcs', session.path)].cfg = session.cfg
    BY <1>1 DEF PreviewShown
  <2>1. session # NoSession
    <3>1. NoSession.edited = FALSE
      BY DEF NoSession
    <3> QED BY <3>1
  <2>2. /\ AtIn(srcs, session.path) \in DOMAIN srcs
        /\ srcs[AtIn(srcs, session.path)].path = session.path
    BY <2>1, SessionAt
  <2>3. AtIn(srcs', session.path) = AtIn(srcs, session.path)
    BY <1>3 DEF Kept
  <2> QED BY <1>2, <1>3, <2>2, <2>3 DEF IInv, PreviewShown
<1>5. /\ UNCHANGED <<devs, tampered, mtimes>> /\ pending' \in 0 .. Len(srcs) /\ ReloadIsAimed'
      /\ \A p \in map' \union last' : p[2] \in Nat \ {0}
      /\ DOMAIN disk' = Named /\ changes' \in 0 .. MaxChanges
      /\ \A p \in Named : IsFile(disk[p])' /\ disk'[p].mtime \in 0 .. MaxChanges
      /\ \A p \in Named : Exists(p) => Exists(p)'
  <2>1. Len(srcs) \in Nat
    BY ListLen DEF IInv, Shapes
  <2> QED BY <1>1, <2>1 DEF world, IInv, TypeOK, Shapes, ReloadIsAimed, Exists
<1>6. /\ IsSession(session') /\ session' = session
      /\ session' = NoSession \/ (session # NoSession /\ session'.path = session.path)
  BY <1>1 DEF IInv, Shapes
<1> QED BY <1>3, <1>4, <1>5, <1>6, KeptInv

LEMMA WatchDevicesInv == ASSUME IInv, WatchDevices PROVE IInv'
<1> DEFINE m == rescan(srcs, Connected(devs))
<1>1. /\ pending = 0 /\ last' = m.map /\ map' = m.map
      /\ srcs' = [i \in DOMAIN srcs |-> [srcs[i] EXCEPT !.ids = m.per[i].ids,
                                                        !.label = m.per[i].label]]
      /\ Publish(DOMAIN srcs)
      /\ UNCHANGED <<world, started, mtimes, pending, session>>
  BY DEF WatchDevices, WatchDue, Idle
<1>2. Len(srcs) \in Nat /\ DOMAIN srcs = 1 .. Len(srcs) /\ IsList(srcs)
  BY ListLen DEF IInv, Shapes
<1>3. \A p \in map' \union last' : p[2] \in Nat \ {0}
  <2>1. DOMAIN Sections(srcs) = 1 .. Len(srcs)
    BY <1>2 DEF Sections
  <2>2. \A p \in m.map : p[2] \in DOMAIN Sections(srcs)
    BY <1>2, <2>1, ConnectedIs, MatchingIs DEF rescan
  <2>3. last' = m.map /\ map' = m.map
    BY <1>1, Zenon
  <2> HIDE DEF m
  <2> QED BY <1>2, <2>1, <2>2, <2>3
<1> HIDE DEF m
<1>4. srcs' = [i \in DOMAIN srcs |-> Relabel(srcs[i], m.per[i])]
  BY <1>1, Zenon DEF Relabel
<1>5. /\ IsList(srcs') /\ DOMAIN srcs' = DOMAIN srcs /\ Len(srcs') = Len(srcs)
      /\ \A i \in DOMAIN srcs : /\ IsSource(srcs'[i]) /\ srcs'[i].path = srcs[i].path
                              /\ srcs'[i].cfg = srcs[i].cfg
      /\ Twice(srcs') = Twice(srcs) /\ \A p : AtIn(srcs', p) = AtIn(srcs, p)
  <2>1. \A i \in DOMAIN srcs : IsSource(srcs[i])
    BY DEF IInv, Shapes
  <2>2. Told(srcs, srcs', m.per)
    BY <1>2, <1>4, <2>1 DEF Told
  <2>3. /\ IsList(srcs') /\ DOMAIN srcs' = DOMAIN srcs /\ Len(srcs') = Len(srcs)
        /\ \A i \in DOMAIN srcs : /\ IsSource(srcs'[i]) /\ srcs'[i].path = srcs[i].path
                                /\ srcs'[i].cfg = srcs[i].cfg
    BY <2>2, Relabelled
  <2>4. Twice(srcs') = Twice(srcs) /\ \A p : AtIn(srcs', p) = AtIn(srcs, p)
    BY <2>2, Relabelled
  <2> QED BY <2>3, <2>4
<1>6. Kept
  <2>1. WindowShowsSources
    BY DEF IInv
  <2>2. WindowShowsSources'
    BY <1>1, <1>2, <1>5, <2>1, PublishIs
  <2> QED BY <1>5, <2>2 DEF Kept
<1>7. PreviewShown'
  <2> SUFFICES ASSUME session.edited
               PROVE  srcs'[AtIn(srcs', session.path)].cfg = session.cfg
    BY <1>1 DEF PreviewShown
  <2>1. session # NoSession
    <3>1. NoSession.edited = FALSE
      BY DEF NoSession
    <3> QED BY <3>1
  <2>2. AtIn(srcs, session.path) \in DOMAIN srcs
    BY <2>1, SessionAt
  <2> QED BY <1>5, <2>2 DEF IInv, PreviewShown
<1>8. /\ UNCHANGED <<devs, tampered, mtimes>> /\ pending' \in 0 .. Len(srcs) /\ ReloadIsAimed'
      /\ DOMAIN disk' = Named /\ changes' \in 0 .. MaxChanges
      /\ \A p \in Named : IsFile(disk[p])' /\ disk'[p].mtime \in 0 .. MaxChanges
      /\ \A p \in Named : Exists(p) => Exists(p)'
  BY <1>1, <1>2 DEF world, IInv, TypeOK, Shapes, ReloadIsAimed, Exists
<1>9. /\ IsSession(session') /\ session' = session
      /\ session' = NoSession \/ (session # NoSession /\ session'.path = session.path)
  BY <1>1 DEF IInv, Shapes
<1>10. session # NoSession /\ session.new => session'.path = session.path /\ session'.new
  BY <1>1
<1> QED BY <1>3, <1>6, <1>7, <1>8, <1>9, <1>10, KeptInv

-----------------------------------------------------------------------------
(* The theorems.                                                           *)

LEMMA StepInv == IInv /\ [Next]_vars => IInv'
<1> SUFFICES ASSUME IInv, [Next]_vars PROVE IInv'
  OBVIOUS
<1>1. CASE World
  BY <1>1, RemoveFileInv, PermitInv, WriteFileInv, PlugInv DEF World
<1>2. CASE User
  <2>1. ASSUME NEW i, PickKeyboard(i) PROVE IInv'
    BY <2>1, PickKeyboardInv
  <2>2. ASSUME NEW i, KeyGoesDown(i) PROVE IInv'
    BY <2>2, KeyGoesDownInv
  <2>3. ASSUME NEW b, Edit(b) PROVE IInv'
    BY <2>3, EditInv
  <2>4. ASSUME NEW p \in Named, NEW o, CreateConfig(p, o[1], o[2]) PROVE IInv'
    BY <2>4, CreateConfigInv
  <2> QED BY <1>2, <2>1, <2>2, <2>3, <2>4, OpenEditInv, ExitEditInv, ApplyKeptInv, DeleteKeptInv
          DEF User
<1>3. CASE Start
  BY <1>3, StartInv
<1>4. CASE ReloadTick
  BY <1>4, ReloadInv, StampInv DEF ReloadTick
<1>5. CASE WatchDevices
  BY <1>5, WatchDevicesInv
<1>6. CASE UNCHANGED vars
  BY <1>6, StutterInv
<1> QED BY <1>1, <1>2, <1>3, <1>4, <1>5, <1>6 DEF Next

LEMMA InvHolds == Spec => []IInv
  BY InitInv, StepInv, PTL DEF Spec

\* The window shows what the sources say and, once the user has edited, the
\* preview of the session on its board, whatever the two timers of main.rs and
\* the callbacks of edit_ui.rs, create.rs and apply_ctx.rs do in what order.
THEOREM BoardsHold == Spec => []BoardsAgree
<1>1. IInv => BoardsAgree
  BY SameAsIn DEF IInv, BoardsAgree, PreviewShown, EditShowsPreview
<1> QED BY <1>1, InvHolds, PTL

\* No two boards are of one file, but of one that was taken away behind the
\* window: the name check of on_create_config is enough.
THEOREM PathsHold == Spec => []PathsDistinct
<1>1. IInv => PathsDistinct
  BY SameAsIn DEF IInv, PathsDistinct, OnlyTampered
<1> QED BY <1>1, InvHolds, PTL

-----------------------------------------------------------------------------
(* Sections and clashes.                                                   *)

IsId(p)      == IsList(p) /\ Len(p) = 2
IsPattern(p) == IsList(p) /\ Len(p) \in {1, 2}
IsEntry(e)   == /\ IsPattern(e.pattern)
                /\ e.flags \intersect Keyboard \in {{}, Keyboard}
                /\ e.flags \subseteq Keyboard \union {"mouse"}
IsIds(ids)   == IsList(ids.entries) /\ \A i \in DOMAIN ids.entries : IsEntry(ids.entries[i])

\* An [ids] section without bare `k:' lines and without unique parts.
PlainLines(lines) ==
  IsList(lines) /\ \A i \in DOMAIN lines : lines[i].mark # "*" => IsPattern(lines[i].pattern)

LEMMA PatternIs == ASSUME NEW p, IsPattern(p) PROVE IsList(p) /\ p # <<>>
<1>1. IsList(p) /\ (Len(p) = 1 \/ Len(p) = 2)
  BY DEF IsPattern
<1>2. Len(p) # 0
  BY <1>1
<1> QED BY <1>1, <1>2, ListLen

LEMMA Shorter == ASSUME NEW p, IsPattern(p), NEW q, IsId(q) PROVE Len(p) <= Len(q)
<1>1. CASE Len(p) = 1
  BY <1>1 DEF IsId
<1>2. CASE Len(p) = 2
  BY <1>2 DEF IsId
<1> QED BY <1>1, <1>2 DEF IsPattern

LEMMA EntryIs ==
  ASSUME NEW l, IsPattern(l.pattern)
  PROVE  /\ IsEntry(EntryOf(l)) /\ EntryOf(l).pattern = l.pattern
         /\ (l.mark = "" => ~EntryOf(l).exclude /\ EntryOf(l).flags = Keyboard \union {"mouse"})
<1> DEFINE f == {x \in Keyboard \union {"mouse"} :
                  /\ l.mark # "-"
                  /\ l.mark = "m:" => x = "mouse"
                  /\ l.mark = "k:" => x \in Keyboard}
<1>1. f \subseteq Keyboard \union {"mouse"} /\ f \intersect Keyboard \in {{}, Keyboard}
  <2>1. "mouse" \notin Keyboard
    BY DEF Keyboard
  <2>2. CASE l.mark \in {"m:", "-"}
    <3>1. f \intersect Keyboard = {}
      BY <2>1, <2>2
    <3> QED BY <3>1
  <2>3. CASE l.mark \notin {"m:", "-"}
    <3>1. f \intersect Keyboard = Keyboard
      BY <2>3
    <3> QED BY <3>1
  <2> QED BY <2>2, <2>3
<1>2. l.mark = "" => f = Keyboard \union {"mouse"}
  OBVIOUS
<1> DEFINE b == l.mark = "-"
<1>3. EntryOf(l) = [exclude |-> b, flags |-> f, pattern |-> l.pattern]
  BY DEF EntryOf
<1>4. b \in BOOLEAN /\ (l.mark = "" => b = FALSE)
  OBVIOUS
<1> HIDE DEF b, f
<1>5. EntryOf(l).flags = f /\ EntryOf(l).pattern = l.pattern /\ EntryOf(l).exclude = b
  BY <1>3
<1> QED BY <1>1, <1>2, <1>4, <1>5 DEF IsEntry

LEMMA ParseIs ==
  ASSUME NEW lines, PlainLines(lines)
  PROVE  IsIds(Parse(lines))
<1> DEFINE S == {l \in ToSet(lines) : l.mark # "*"}
           named == Among(lines, S)
           es == [i \in DOMAIN named |-> EntryOf(named[i])]
<1>1. lines \in Seq(ToSet(lines))
  BY DEF PlainLines, IsList, ToSet
<1>2. named \in Seq(ToSet(lines)) /\ ToSet(named) = ToSet(lines) \intersect S
  <2> HIDE DEF S
  <2> QED BY <1>1, AmongIs
<1>3. Parse(lines).entries = es
  BY DEF Parse
<1> HIDE DEF named
<1>4. IsList(named)
  BY <1>2, ListOfSeq
<1>5. IsList(es)
  BY <1>4, ListMap
<1>6. ASSUME NEW i \in DOMAIN named PROVE IsEntry(es[i])
  <2>1. named[i] \in ToSet(lines) /\ named[i].mark # "*"
    BY <1>2 DEF ToSet
  <2>2. IsPattern(named[i].pattern)
    BY <2>1 DEF PlainLines, ToSet
  <2> QED BY <2>2, EntryIs
<1> QED BY <1>3, <1>5, <1>6 DEF IsIds

\* The section of one line, as on_begin_create writes it.
LEMMA ParseOne ==
  ASSUME NEW v, IsPattern(v)
  PROVE  LET ids == Parse(<<[mark |-> "", pattern |-> v]>>)
         IN  /\ ~ids.wildcard /\ DOMAIN ids.entries = {1}
             /\ ids.entries[1].pattern = v /\ ~ids.entries[1].exclude
             /\ ids.entries[1].flags = Keyboard \union {"mouse"}
<1> DEFINE l == [mark |-> "", pattern |-> v]
           lines == <<l>>
           S == {x \in ToSet(lines) : x.mark # "*"}
           named == Among(lines, S)
<1>1. l.mark = "" /\ l.pattern = v
  OBVIOUS
<1> HIDE DEF l
<1>2. DOMAIN lines = {1} /\ lines[1] = l /\ ToSet(lines) = {l} /\ lines = Append(<<>>, l)
  BY DEF ToSet
<1>3. l \in S
  BY <1>1, <1>2
<1>4. named = <<l>>
  <2> DEFINE none == <<>>
             one == {l}
  <2>1. none \in Seq(one) /\ l \in one
    OBVIOUS
  <2>2. Among(Append(none, l), S) = Append(Among(none, S), l)
    <3> HIDE DEF S, none, one
    <3> QED BY <2>1, <1>3, AmongAppend
  <2> QED BY <2>2, <1>2, AmongEmpty
<1> HIDE DEF named
<1>5. /\ Parse(lines).entries = [i \in DOMAIN named |-> EntryOf(named[i])]
      /\ Parse(lines).wildcard <=> \E i \in DOMAIN lines : lines[i].mark = "*"
  BY DEF Parse, named
<1>6. DOMAIN Parse(lines).entries = {1} /\ Parse(lines).entries[1] = EntryOf(l)
  BY <1>4, <1>5
<1>7. ~Parse(lines).wildcard
  BY <1>1, <1>2, <1>5
<1>8. EntryOf(l).pattern = v /\ ~EntryOf(l).exclude /\ EntryOf(l).flags = Keyboard \union {"mouse"}
  BY <1>1, EntryIs
<1> QED BY <1>6, <1>7, <1>8 DEF l

-----------------------------------------------------------------------------
(* What a prefix is.                                                       *)

LEMMA PrefixIs ==
  ASSUME NEW p, NEW q, IsList(p), IsList(q)
  PROVE  IsPrefix(p, q) <=> Len(p) <= Len(q) /\ \A k \in 1 .. Len(p) : p[k] = q[k]
<1>1. Len(p) \in Nat /\ Len(q) \in Nat /\ p = [k \in 1 .. Len(p) |-> p[k]]
  BY ListLen
<1>2. SubSeq(p, 1, Len(p)) = [k \in 1 .. Len(p) |-> p[k]]
  BY <1>1
<1>3. SubSeq(q, 1, Len(p)) = [k \in 1 .. Len(p) |-> q[k]]
  BY <1>1
<1> QED BY <1>1, <1>2, <1>3 DEF IsPrefix

LEMMA PrefixSelf == ASSUME NEW p, IsList(p) PROVE IsPrefix(p, p)
  BY PrefixIs, ListLen

LEMMA PrefixOfPrefix ==
  ASSUME NEW p, NEW q, NEW r, IsList(p), IsList(q), IsList(r), IsPrefix(p, q), IsPrefix(q, r)
  PROVE  IsPrefix(p, r)
<1>1. Len(p) \in Nat /\ Len(q) \in Nat /\ Len(r) \in Nat
  BY ListLen
<1> QED BY <1>1, PrefixIs

LEMMA PrefixesMeet ==
  ASSUME NEW p, NEW q, NEW r, IsList(p), IsList(q), IsList(r), IsPrefix(p, r), IsPrefix(q, r)
  PROVE  IsPrefix(p, q) \/ IsPrefix(q, p)
<1>1. Len(p) \in Nat /\ Len(q) \in Nat /\ Len(r) \in Nat
  BY ListLen
<1> QED BY <1>1, PrefixIs

LEMMA PrefixOfNoLonger ==
  ASSUME NEW p, NEW q, IsList(p), IsList(q), IsPrefix(p, q), Len(q) <= Len(p)
  PROVE  p = q
<1>1. Len(p) \in Nat /\ Len(q) \in Nat /\ Len(p) = Len(q)
  BY ListLen, PrefixIs
<1>2. p = [k \in 1 .. Len(p) |-> p[k]] /\ q = [k \in 1 .. Len(p) |-> q[k]]
  BY <1>1, ListLen
<1> QED BY <1>1, <1>2, PrefixIs

-----------------------------------------------------------------------------

First(ids, id, flags, i) == IsFirst(i, Hits(ids, id, flags)) /\ ~ids.entries[i].exclude

LEMMA ExplicitIs ==
  ASSUME NEW ids, NEW id, NEW flags
  PROVE  match_device(ids, id, flags) = "explicit" <=> \E i : First(ids, id, flags, i)
<1> DEFINE hits == Hits(ids, id, flags)
<1>1. (\E i : First(ids, id, flags, i)) <=> (\E i \in hits : IsFirst(i, hits) /\ ~ids.entries[i].exclude)
  BY DEF First, IsFirst
<1>2. match_device(ids, id, flags) =
        IF \E i \in hits : IsFirst(i, hits) /\ ~ids.entries[i].exclude THEN "explicit"
        ELSE IF hits = {} /\ ids.wildcard /\ "keyboard" \in flags /\ "trackpad" \notin flags
             THEN "wildcard"
             ELSE "none"
  BY DEF match_device
<1> HIDE DEF hits
<1>3. CASE \E i \in hits : IsFirst(i, hits) /\ ~ids.entries[i].exclude
  BY <1>1, <1>2, <1>3
<1>4. CASE ~\E i \in hits : IsFirst(i, hits) /\ ~ids.entries[i].exclude
  <2>1. match_device(ids, id, flags) \in {"wildcard", "none"}
    BY <1>2, <1>4
  <2> QED BY <2>1, <1>1, <1>4
<1> QED BY <1>3, <1>4

\* A pattern decides for every id it is a prefix of and that is a prefix of
\* one it decided.
LEMMA Narrower ==
  ASSUME NEW ids, IsIds(ids), NEW id, NEW q, IsList(id), IsList(q), IsPrefix(q, id),
         NEW i, First(ids, id, Keyboard, i), IsPrefix(ids.entries[i].pattern, q)
  PROVE  match_device(ids, q, Keyboard) = "explicit"
<1>1. i \in Hits(ids, q, Keyboard)
  BY DEF First, IsFirst, Hits
<1>2. Hits(ids, q, Keyboard) \subseteq Hits(ids, id, Keyboard)
  <2> SUFFICES ASSUME NEW j \in Hits(ids, q, Keyboard) PROVE IsPrefix(ids.entries[j].pattern, id)
    BY DEF Hits
  <2>1. j \in DOMAIN ids.entries /\ IsPrefix(ids.entries[j].pattern, q)
    BY DEF Hits
  <2>2. IsList(ids.entries[j].pattern)
    BY <2>1 DEF IsIds, IsEntry, IsPattern
  <2> QED BY <2>1, <2>2, PrefixOfPrefix
<1>3. First(ids, q, Keyboard, i)
  BY <1>1, <1>2 DEF First, IsFirst
<1> QED BY <1>3, ExplicitIs

\* The entry that claims an id for keyboards is one of the candidates.
LEMMA CandidateIs ==
  ASSUME NEW ids, IsIds(ids), NEW id, NEW i, First(ids, id, Keyboard, i)
  PROVE  /\ i \in DOMAIN ids.entries /\ IsList(ids.entries[i].pattern)
         /\ IsPrefix(ids.entries[i].pattern, id)
         /\ ids.entries[i].pattern \in explicit_candidates(ids)
<1>1. /\ i \in DOMAIN ids.entries /\ IsPrefix(ids.entries[i].pattern, id)
      /\ ~ids.entries[i].exclude /\ ids.entries[i].flags \intersect Keyboard # {}
  BY DEF First, IsFirst, Hits
<1>2. IsPattern(ids.entries[i].pattern) /\ "keyboard" \in ids.entries[i].flags
  BY <1>1 DEF IsIds, IsEntry, Keyboard
<1>3. IsList(ids.entries[i].pattern) /\ ids.entries[i].pattern # <<>>
  BY <1>2, PatternIs
<1> QED BY <1>1, <1>2, <1>3 DEF explicit_candidates

LEMMA NamedIs ==
  ASSUME NEW s, NEW c \in DOMAIN s, NEW q \in explicit_candidates(s[c]), Several(Claiming(s, q))
  PROVE  [id |-> q, kind |-> "explicit", configs |-> Claiming(s, q)] \in find_conflicts(s)
<1>1. q \in UNION {explicit_candidates(s[k]) : k \in DOMAIN s}
  OBVIOUS
<1> QED BY <1>1 DEF find_conflicts

LEMMA ClashNamed ==
  ASSUME NEW s, \A c \in DOMAIN s : IsIds(s[c]), NEW id, IsList(id),
         NEW i \in Claiming(s, id), NEW j \in Claiming(s, id), i # j
  PROVE  \E c \in find_conflicts(s) : {i, j} \subseteq c.configs /\ IsPrefix(c.id, id)
<1>1. PICK a : First(s[i], id, Keyboard, a)
  BY ExplicitIs DEF Claiming
<1>2. PICK b : First(s[j], id, Keyboard, b)
  BY ExplicitIs DEF Claiming
<1>3. i \in DOMAIN s /\ j \in DOMAIN s
  BY DEF Claiming
<1> DEFINE p == s[i].entries[a].pattern
           r == s[j].entries[b].pattern
<1>4. IsList(p) /\ IsPrefix(p, id) /\ p \in explicit_candidates(s[i])
  BY <1>1, <1>3, CandidateIs
<1>5. IsList(r) /\ IsPrefix(r, id) /\ r \in explicit_candidates(s[j])
  BY <1>2, <1>3, CandidateIs
<1>6. ASSUME NEW q, NEW c \in DOMAIN s, IsList(q), IsPrefix(q, id), q \in explicit_candidates(s[c]),
             IsPrefix(p, q), IsPrefix(r, q)
      PROVE  \E x \in find_conflicts(s) : {i, j} \subseteq x.configs /\ IsPrefix(x.id, id)
  <2>1. i \in Claiming(s, q)
    BY <1>1, <1>3, <1>6, Narrower DEF Claiming
  <2>2. j \in Claiming(s, q)
    BY <1>2, <1>3, <1>6, Narrower DEF Claiming
  <2>3. Several(Claiming(s, q))
    BY <2>1, <2>2 DEF Several
  <2> DEFINE x == [id |-> q, kind |-> "explicit", configs |-> Claiming(s, q)]
  <2>4. x \in find_conflicts(s)
    BY <1>6, <2>3, NamedIs
  <2>5. x.id = q /\ x.configs = Claiming(s, q)
    OBVIOUS
  <2> HIDE DEF x
  <2> QED BY <2>1, <2>2, <2>4, <2>5, <1>6
<1> HIDE DEF p, r
<1>7. CASE IsPrefix(p, r)
  BY <1>7, <1>3, <1>5, <1>6, PrefixSelf
<1>8. CASE IsPrefix(r, p)
  BY <1>8, <1>3, <1>4, <1>6, PrefixSelf
<1> QED BY <1>4, <1>5, <1>7, <1>8, PrefixesMeet

-----------------------------------------------------------------------------
(* A config for a keyboard on offer.                                       *)

Contested(s) ==
  {q \in UNION {explicit_candidates(s[c]) : c \in DOMAIN s} : Several(Claiming(s, q))}

LEMMA ConflictsAre ==
  ASSUME NEW s, NEW t, Contested(t) = Contested(s), Wild(t) = Wild(s),
         \A q \in Contested(s) : Claiming(t, q) = Claiming(s, q)
  PROVE  find_conflicts(t) = find_conflicts(s)
<1> DEFINE of(u) == {[id |-> p, kind |-> "explicit", configs |-> Claiming(u, p)] : p \in Contested(u)}
           wild(u) == IF Several(Wild(u))
                      THEN {[id |-> <<"*">>, kind |-> "wildcard", configs |-> Wild(u)]} ELSE {}
<1>1. \A u : find_conflicts(u) = of(u) \union wild(u)
  BY DEF find_conflicts, Contested
<1>2. of(t) = of(s)
  OBVIOUS
<1>3. wild(t) = wild(s)
  OBVIOUS
<1> HIDE DEF of, wild
<1> QED BY <1>1, <1>2, <1>3

LEMMA NoNewClash ==
  ASSUME NEW s, IsList(s), \A c \in DOMAIN s : IsIds(s[c]),
         NEW v, IsId(v), Claiming(s, v) = {}
  PROVE  find_conflicts(Append(s, Parse(<<[mark |-> "", pattern |-> v]>>))) = find_conflicts(s)
<1> DEFINE x == Parse(<<[mark |-> "", pattern |-> v]>>)
           t == Append(s, x)
           n == Len(s)
<1>0. IsPattern(v)
  BY DEF IsPattern, IsId
<1>1. /\ ~x.wildcard /\ DOMAIN x.entries = {1}
      /\ x.entries[1].pattern = v /\ ~x.entries[1].exclude
      /\ x.entries[1].flags = Keyboard \union {"mouse"}
  BY <1>0, ParseOne
<1> HIDE DEF x
<1>2. /\ n \in Nat /\ DOMAIN s = 1 .. n /\ DOMAIN t = 1 .. n + 1
      /\ t[n + 1] = x /\ \A i \in 1 .. n : t[i] = s[i]
  <2>1. IsList(t) /\ Len(t) = n + 1 /\ t[n + 1] = x /\ \A i \in DOMAIN s : t[i] = s[i]
    BY ListAppend
  <2>2. n \in Nat /\ DOMAIN s = 1 .. n /\ DOMAIN t = 1 .. Len(t)
    BY <2>1, ListLen
  <2> QED BY <2>1, <2>2
<1> HIDE DEF t, n
<1>3. DOMAIN t = DOMAIN s \union {n + 1} /\ n + 1 \notin DOMAIN s /\ \A i \in DOMAIN s : t[i] = s[i]
  BY <1>2
<1>4. Wild(t) = Wild(s)
  BY <1>1, <1>2, <1>3 DEF Wild
<1>5. explicit_candidates(x) = {v}
  <2>1. v # <<>> /\ "keyboard" \in x.entries[1].flags
    BY <1>0, <1>1, PatternIs DEF Keyboard
  <2> QED BY <1>1, <2>1 DEF explicit_candidates
<1>6. \A q : Claiming(t, q) \ {n + 1} = Claiming(s, q)
  BY <1>3 DEF Claiming
<1>7. ASSUME NEW q, IsPattern(q), q # v PROVE n + 1 \notin Claiming(t, q)
  <2> SUFFICES ASSUME match_device(x, q, Keyboard) = "explicit" PROVE FALSE
    BY <1>2 DEF Claiming
  <2>1. PICK i : First(x, q, Keyboard, i)
    BY ExplicitIs
  <2>2. IsPrefix(v, q)
    BY <2>1, <1>1 DEF First, IsFirst, Hits
  <2>3. Len(q) <= Len(v)
    BY <1>7, Shorter
  <2> QED BY <2>2, <2>3, <1>7, PrefixOfNoLonger DEF IsPattern, IsId
<1>8. \A q : IsPattern(q) /\ q # v => Claiming(t, q) = Claiming(s, q)
  BY <1>6, <1>7
<1>9. ~Several(Claiming(t, v)) /\ ~Several(Claiming(s, v))
  BY <1>6 DEF Several
<1>10. ASSUME NEW c \in DOMAIN s, NEW q \in explicit_candidates(s[c]) PROVE IsPattern(q)
  BY DEF explicit_candidates, IsIds, IsEntry
<1>11. ASSUME NEW q PROVE q \in Contested(t) <=> q \in Contested(s)
  <2>1. q \in Contested(t) <=> /\ \E c \in DOMAIN t : q \in explicit_candidates(t[c])
                               /\ Several(Claiming(t, q))
    BY DEF Contested
  <2>2. q \in Contested(s) <=> /\ \E c \in DOMAIN s : q \in explicit_candidates(s[c])
                               /\ Several(Claiming(s, q))
    BY DEF Contested
  <2>3. CASE q = v
    BY <2>3, <2>1, <2>2, <1>9
  <2>4. CASE q # v
    <3>1. (\E c \in DOMAIN t : q \in explicit_candidates(t[c]))
            <=> (\E c \in DOMAIN s : q \in explicit_candidates(s[c]))
      BY <2>4, <1>2, <1>3, <1>5
    <3> QED BY <3>1, <2>1, <2>2, <2>4, <1>8, <1>10
  <2> QED BY <2>3, <2>4
<1>12. \A q \in Contested(s) : Claiming(t, q) = Claiming(s, q)
  BY <1>8, <1>9, <1>10 DEF Contested
<1>13. Contested(t) = Contested(s)
  BY <1>11
<1> QED BY <1>4, <1>12, <1>13, ConflictsAre DEF t, x

\* A keyboard on offer matches an entry when keyboards do.
LEMMA KeyboardIs ==
  ASSUME NEW d, IsDevice(d), is_create_candidate(d), NEW ids, IsIds(ids)
  PROVE  match_device(ids, d.id, d.flags) = "explicit" <=> match_device(ids, d.id, Keyboard) = "explicit"
<1>1. Keyboard \subseteq d.flags /\ "mouse" \notin d.flags
  <2>1. PICK caps \in SUBSET Capabilities : d.flags = FlagsOf(caps) /\ d.full = ("full" \in caps)
    BY DEF IsDevice
  <2>2. "full" \in caps
    BY <2>1 DEF is_create_candidate
  <2>3. Keyboard \subseteq FlagsOf(caps)
    BY <2>2 DEF FlagsOf, Flags, Keyboard
  <2> QED BY <2>1, <2>3 DEF is_create_candidate
<1>2. \A i \in DOMAIN ids.entries : ids.entries[i].flags \intersect d.flags # {}
                                     <=> ids.entries[i].flags \intersect Keyboard # {}
  <2> SUFFICES ASSUME NEW i \in DOMAIN ids.entries, NEW f \in ids.entries[i].flags, f \in d.flags
               PROVE  f \in Keyboard
    BY <1>1
  <2> QED BY <1>1 DEF IsIds, IsEntry
<1>3. Hits(ids, d.id, d.flags) = Hits(ids, d.id, Keyboard)
  BY <1>2 DEF Hits
<1>4. \A i : First(ids, d.id, d.flags, i) <=> First(ids, d.id, Keyboard, i)
  BY <1>3 DEF First
<1> QED BY <1>4, ExplicitIs

LEMMA OfferIs ==
  ASSUME NEW D, NEW ds \in Seq(D), NEW confs, NEW v \in ToSet(create_scan(confs, ds))
  PROVE  \E d \in ToSet(ds) : d.id = v /\ is_create_candidate(d) /\ ~Governed(confs, d)
<1> DEFINE S == {d \in ToSet(ds) : is_create_candidate(d) /\ ~Governed(confs, d)}
           on == Among(ds, S)
           ids == [i \in DOMAIN on |-> on[i].id]
           E == {ids[i] : i \in DOMAIN on}
<1>1. on \in Seq(D) /\ ToSet(on) = ToSet(ds) \intersect S
  <2> HIDE DEF S
  <2> QED BY AmongIs
<1>2. create_scan(confs, ds) = Distinct(ids)
  BY DEF create_scan, IdsOf
<1> HIDE DEF on
<1>3. ids \in Seq(E)
  <2>1. Len(on) \in Nat /\ DOMAIN on = 1 .. Len(on)
    BY <1>1
  <2>2. ids \in [1 .. Len(on) -> E]
    BY <2>1
  <2> QED BY <2>1, <2>2
<1>4. v \in E
  <2>1. Distinct(ids) \in Seq(E)
    <3> HIDE DEF ids, E
    <3> QED BY <1>3, DistinctIs
  <2> HIDE DEF ids, E
  <2> QED BY <2>1, <1>2 DEF ToSet
<1>5. PICK i \in DOMAIN on : v = on[i].id
  BY <1>4
<1>6. on[i] \in S
  BY <1>1 DEF ToSet
<1> QED BY <1>5, <1>6

-----------------------------------------------------------------------------
(* The start and the timer match alike.                                    *)

Rising(s) == \A i, j \in DOMAIN s : i < j => s[i] < s[j]

LEMMA RisingAppend ==
  ASSUME NEW s \in Seq(Nat), NEW x \in Nat
  PROVE  Rising(Append(s, x)) <=> Rising(s) /\ \A y \in ToSet(s) : y < x
<1> DEFINE t == Append(s, x)
           n == Len(s)
<1>1. /\ n \in Nat /\ DOMAIN s = 1 .. n /\ DOMAIN t = 1 .. n + 1
      /\ t[n + 1] = x /\ \A i \in 1 .. n : t[i] = s[i]
  OBVIOUS
<1> HIDE DEF t, n
<1>2. ASSUME Rising(t) PROVE Rising(s) /\ \A y \in ToSet(s) : y < x
  BY <1>1, <1>2 DEF Rising, ToSet
<1>3. ASSUME Rising(s), \A y \in ToSet(s) : y < x PROVE Rising(t)
  <2> SUFFICES ASSUME NEW i \in 1 .. n + 1, NEW j \in 1 .. n + 1, i < j PROVE t[i] < t[j]
    BY <1>1 DEF Rising
  <2>1. CASE j = n + 1
    BY <2>1, <1>1, <1>3 DEF ToSet
  <2>2. CASE j # n + 1
    BY <2>2, <1>1, <1>3 DEF Rising
  <2> QED BY <2>1, <2>2
<1> QED BY <1>2, <1>3 DEF t

LEMMA AmongRises ==
  ASSUME NEW S, NEW s \in Seq(Nat), Rising(s)
  PROVE  Rising(Among(s, S))
<1> DEFINE Good(t) == Rising(t) => Rising(Among(t, S))
           T == {t \in Seq(Nat) : Good(t)}
<1>1. Good(<<>>)
  <2> DEFINE z == <<>>
  <2>1. Among(z, S) = z
    BY AmongEmpty
  <2> HIDE DEF z
  <2>2. Good(z)
    BY <2>1
  <2> QED BY <2>2 DEF z
<1>2. ASSUME NEW t \in Seq(Nat), NEW x \in Nat, Good(t) PROVE Good(Append(t, x))
  <2> DEFINE u == Append(t, x)
             w == Among(t, S)
  <2>1. Among(u, S) = IF x \in S THEN Append(w, x) ELSE w
    BY AmongAppend
  <2>2. w \in Seq(Nat) /\ ToSet(w) \subseteq ToSet(t)
    BY AmongIs
  <2>3. Rising(u) => Rising(w) /\ \A y \in ToSet(w) : y < x
    BY <1>2, <2>2, RisingAppend
  <2>4. Rising(u) => Rising(Append(w, x))
    <3> HIDE DEF w
    <3> QED BY <2>2, <2>3, RisingAppend
  <2> HIDE DEF u, w
  <2>5. Good(u)
    BY <2>1, <2>3, <2>4
  <2> QED BY <2>5 DEF u
<1>3. \A t \in Seq(Nat) : t \in T
  <2>1. <<>> \in T /\ \A t \in Seq(Nat), x \in Nat : t \in T => Append(t, x) \in T
    <3> HIDE DEF Good
    <3> QED BY <1>1, <1>2
  <2> HIDE DEF T
  <2> QED BY <2>1, SeqInSet
<1> QED BY <1>3

\* How well section c matches d, and that c governs it.
Fit(sections, d, c)  == Rank(match_device(sections[c], d.id, d.flags))
Wins(sections, d, c) ==
  /\ c \in DOMAIN sections /\ Fit(sections, d, c) > 0
  /\ \A e \in DOMAIN sections : /\ Fit(sections, d, e) <= Fit(sections, d, c)
                                /\ Fit(sections, d, e) = Fit(sections, d, c) => c <= e

LEMMA FitIs == ASSUME NEW sections, NEW d, NEW c PROVE Fit(sections, d, c) \in 0 .. 2
  BY DEF Fit, Rank

LEMMA BestWins ==
  ASSUME NEW sections, NEW n \in Nat, DOMAIN sections = 1 .. n, NEW d, NEW c \in Nat \ {0}
  PROVE  Best(sections, d) = c <=> Wins(sections, d, c)
<1> DEFINE D == DOMAIN sections
           fit(x) == Fit(sections, d, x)
           ranks == {<<x, Rank(match_device(sections[x], d.id, d.flags))>> : x \in D}
           top   == {q \in ranks : q[2] > 0 /\ \A r \in ranks : r[2] <= q[2]}
           best  == {p[1] : p \in top}
<1>1. Best(sections, d) = IF best = {} THEN 0 ELSE CHOOSE x \in best : IsFirst(x, best)
  BY Zenon DEF Best
<1>2. \A x \in D : fit(x) \in 0 .. 2
  BY FitIs
<1>3. ranks = {<<x, fit(x)>> : x \in D}
  BY DEF Fit
<1>9. Wins(sections, d, c) <=>
        /\ c \in D /\ fit(c) > 0
        /\ \A y \in D : fit(y) <= fit(c) /\ (fit(y) = fit(c) => c <= y)
  BY DEF Wins
<1> HIDE DEF fit, ranks
<1>4. ASSUME NEW x PROVE x \in best <=> x \in D /\ fit(x) > 0 /\ \A y \in D : fit(y) <= fit(x)
  <2>1. \A q : q \in ranks <=> \E y \in D : q = <<y, fit(y)>>
    BY <1>3
  <2>2. ASSUME x \in best PROVE x \in D /\ fit(x) > 0 /\ \A y \in D : fit(y) <= fit(x)
    <3>1. PICK q \in ranks : q[1] = x /\ q[2] > 0 /\ \A r \in ranks : r[2] <= q[2]
      BY <2>2
    <3>2. x \in D /\ q[2] = fit(x)
      BY <3>1, <2>1
    <3>3. \A y \in D : <<y, fit(y)>> \in ranks /\ <<y, fit(y)>>[2] = fit(y)
      BY <2>1
    <3> QED BY <3>1, <3>2, <3>3
  <2>3. ASSUME x \in D, fit(x) > 0, \A y \in D : fit(y) <= fit(x) PROVE x \in best
    <3> DEFINE q == <<x, fit(x)>>
    <3>1. q \in ranks /\ q[1] = x /\ q[2] = fit(x)
      BY <2>3, <2>1
    <3>2. \A r \in ranks : r[2] <= fit(x)
      BY <2>3, <2>1
    <3> HIDE DEF q
    <3> QED BY <3>1, <3>2, <2>3
  <2> QED BY <2>2, <2>3
<1> HIDE DEF best
<1>5. best \in SUBSET Nat /\ 0 \notin best
  BY <1>4
<1>6. best # {} => Best(sections, d) \in best /\ \A x \in best : Best(sections, d) <= x
  <2> SUFFICES ASSUME best # {} PROVE Best(sections, d) \in best /\ \A x \in best : Best(sections, d) <= x
    OBVIOUS
  <2>1. PICK m \in best : IsFirst(m, best) /\ (CHOOSE x \in best : IsFirst(x, best)) = m
    BY <1>5, FirstOf
  <2> QED BY <2>1, <1>1 DEF IsFirst
<1>7. ASSUME Best(sections, d) = c PROVE Wins(sections, d, c)
  <2>1. c \in best /\ \A x \in best : c <= x
    BY <1>1, <1>6, <1>7
  <2>2. \A y \in D : fit(y) <= fit(c) /\ (fit(y) = fit(c) => c <= y)
    BY <2>1, <1>4
  <2> QED BY <2>1, <2>2, <1>4, <1>9
<1>8. ASSUME Wins(sections, d, c) PROVE Best(sections, d) = c
  <2>1. /\ c \in D /\ fit(c) > 0
        /\ \A y \in D : fit(y) <= fit(c) /\ (fit(y) = fit(c) => c <= y)
    BY <1>8, <1>9
  <2>2. c \in best
    BY <2>1, <1>4
  <2>3. \A x \in best : c <= x
    <3> SUFFICES ASSUME NEW x \in best PROVE c <= x
      OBVIOUS
    <3>1. fit(x) <= fit(c) /\ fit(c) <= fit(x) /\ x \in D
      BY <2>1, <1>4
    <3> QED BY <3>1, <2>1, <1>2
  <2>4. Best(sections, d) \in best /\ Best(sections, d) <= c
    BY <2>2, <1>6
  <2>5. c <= Best(sections, d) /\ Best(sections, d) \in Nat
    BY <2>3, <2>4, <1>5
  <2> QED BY <2>4, <2>5
<1> QED BY <1>7, <1>8

LEMMA BestNone ==
  ASSUME NEW sections, NEW n \in Nat, DOMAIN sections = 1 .. n, NEW d
  PROVE  Best(sections, d) = 0 \/ Wins(sections, d, Best(sections, d))
<1>1. Best(sections, d) = 0 \/ Best(sections, d) \in Nat \ {0}
  BY BestIs
<1> QED BY <1>1, BestWins

\* A section that fits at all keeps the device from being nobody's.
LEMMA SomeoneWins ==
  ASSUME NEW sections, NEW n \in Nat, DOMAIN sections = 1 .. n, NEW d,
         NEW c \in 1 .. n, Fit(sections, d, c) > 0
  PROVE  Best(sections, d) # 0
<1> DEFINE fit(x) == Fit(sections, d, x)
           B(r)   == {x \in 1 .. n : fit(x) = r}
<1>1. \A x \in 1 .. n : fit(x) \in 0 .. 2
  BY FitIs
<1>2. ASSUME NEW r \in {1, 2}, B(r) # {}, \A x \in 1 .. n : fit(x) <= r
      PROVE  Best(sections, d) # 0
  <2>1. B(r) \in SUBSET Nat
    OBVIOUS
  <2>2. PICK m \in B(r) : IsFirst(m, B(r))
    <3> HIDE DEF B
    <3> QED BY <1>2, <2>1, FirstOf
  <2>3. /\ m \in 1 .. n /\ fit(m) = r
        /\ \A x \in 1 .. n : fit(x) = r => m <= x
    BY <2>2 DEF IsFirst
  <2>4. Wins(sections, d, m)
    <3>1. r > 0
      OBVIOUS
    <3> QED BY <1>2, <2>3, <3>1 DEF Wins
  <2> QED BY <2>3, <2>4, BestWins
<1>3. CASE \E x \in 1 .. n : fit(x) = 2
  <2>1. B(2) # {} /\ \A x \in 1 .. n : fit(x) <= 2
    BY <1>1, <1>3
  <2> QED BY <2>1, <1>2
<1>4. CASE ~\E x \in 1 .. n : fit(x) = 2
  <2> HIDE DEF fit
  <2>1. \A x \in 1 .. n : fit(x) <= 1
    BY <1>1, <1>4
  <2>2. fit(c) = 1
    <3>1. fit(c) > 0
      BY DEF fit
    <3> QED BY <2>1, <3>1, <1>1
  <2>3. B(1) # {}
    BY <2>2
  <2> QED BY <2>1, <2>3, <1>2
<1> QED BY <1>3, <1>4

\* Sections that govern nothing can be left out.
Selected(sections, n, order, k, t) ==
  /\ n \in Nat /\ DOMAIN sections = 1 .. n
  /\ k \in Nat /\ order \in [1 .. k -> 1 .. n] /\ Rising(order)
  /\ DOMAIN t = 1 .. k /\ \A i \in 1 .. k : t[i] = sections[order[i]]

LEMMA BestKept ==
  ASSUME NEW sections, NEW n, NEW order, NEW k, NEW t, Selected(sections, n, order, k, t), NEW d,
         Best(sections, d) = 0 \/ \E i \in 1 .. k : Best(sections, d) = order[i]
  PROVE  /\ Best(sections, d) = 0 <=> Best(t, d) = 0
         /\ \A i \in 1 .. k : Best(sections, d) = order[i] <=> Best(t, d) = i
         /\ Best(t, d) # 0 => Best(t, d) \in 1 .. k
<1>0. /\ n \in Nat /\ DOMAIN sections = 1 .. n
      /\ k \in Nat /\ order \in [1 .. k -> 1 .. n] /\ Rising(order)
      /\ DOMAIN t = 1 .. k /\ \A i \in 1 .. k : t[i] = sections[order[i]]
  BY DEF Selected
<1>1. \A i \in 1 .. k : Fit(t, d, i) = Fit(sections, d, order[i]) /\ order[i] \in 1 .. n
  BY <1>0 DEF Fit
<1>2. ASSUME NEW i \in 1 .. k, Best(sections, d) = order[i] PROVE Best(t, d) = i
  <2>1. order[i] \in 1 .. n /\ order[i] \in Nat \ {0} /\ i \in Nat \ {0}
    BY <1>0
  <2>2. Wins(sections, d, order[i])
    BY <2>1, <1>0, <1>2, BestWins
  <2>3. ASSUME NEW e \in 1 .. k
        PROVE  /\ Fit(t, d, e) <= Fit(t, d, i)
               /\ Fit(t, d, e) = Fit(t, d, i) => i <= e
    <3>1. /\ Fit(sections, d, order[e]) <= Fit(sections, d, order[i])
          /\ Fit(sections, d, order[e]) = Fit(sections, d, order[i]) => order[i] <= order[e]
      BY <2>2, <1>0, <1>1 DEF Wins
    <3>2. e < i => order[e] < order[i]
      BY <1>0 DEF Rising
    <3>3. order[e] \in Nat /\ order[i] \in Nat
      BY <1>0
    <3> QED BY <3>1, <3>2, <3>3, <1>1, <1>0
  <2>4. Fit(t, d, i) > 0
    BY <2>2, <1>1 DEF Wins
  <2>5. Wins(t, d, i)
    BY <2>3, <2>4, <1>0 DEF Wins
  <2> QED BY <2>1, <2>5, <1>0, BestWins
<1>3. ASSUME Best(t, d) # 0 PROVE Best(t, d) \in 1 .. k /\ Best(sections, d) # 0
  <2>1. Wins(t, d, Best(t, d))
    BY <1>0, <1>3, BestNone
  <2>2. Best(t, d) \in 1 .. k /\ Fit(t, d, Best(t, d)) > 0
    BY <2>1, <1>0 DEF Wins
  <2>3. Fit(sections, d, order[Best(t, d)]) > 0 /\ order[Best(t, d)] \in 1 .. n
    BY <2>2, <1>1
  <2> QED BY <2>2, <2>3, <1>0, SomeoneWins
<1>4. ASSUME Best(sections, d) # 0 PROVE \E i \in 1 .. k : Best(sections, d) = order[i] /\ Best(t, d) = i
  BY <1>2, <1>4
<1>5. ASSUME NEW i \in 1 .. k, Best(t, d) = i PROVE Best(sections, d) = order[i]
  <2>1. i # 0
    BY <1>0
  <2>2. PICK j \in 1 .. k : Best(sections, d) = order[j] /\ Best(t, d) = j
    BY <2>1, <1>3, <1>4, <1>5
  <2> QED BY <2>2, <1>5
<1>6. Best(sections, d) # 0 => Best(t, d) # 0
  BY <1>0, <1>4
<1> QED BY <1>2, <1>3, <1>5, <1>6

\* A map over configs and the same over those that are shown.
SameMap(k, n, order, whole, part) ==
  /\ k \in Nat /\ n \in Nat /\ order \in [1 .. k -> 1 .. n] /\ Rising(order)
  /\ \A p \in whole : \E v : \E i \in 1 .. k : p = <<v, order[i]>>
  /\ \A p \in part : \E v : \E i \in 1 .. k : p = <<v, i>>
  /\ \A v : \A i \in 1 .. k : <<v, i>> \in part <=> <<v, order[i]>> \in whole

LEMMA RenumberedIs ==
  ASSUME NEW k, NEW n, NEW order, NEW whole, NEW part, SameMap(k, n, order, whole, part)
  PROVE  Renumbered(Firsts(whole), order) = Firsts(part)
<1> USE DEF SameMap
<1>1. \A i, j \in 1 .. k : order[i] <= order[j] <=> i <= j
  BY DEF Rising
<1>2. \A i \in 1 .. k : (CHOOSE j \in DOMAIN order : order[j] = order[i]) = i
  <2>1. \A i, j \in 1 .. k : order[j] = order[i] => j = i
    BY <1>1
  <2> QED BY <2>1
<1>3. ASSUME NEW v, NEW i \in 1 .. k
      PROVE  <<v, i>> \in Firsts(part) <=> <<v, order[i]>> \in Firsts(whole)
  <2>1. <<v, i>> \in Firsts(part) <=>
          <<v, i>> \in part /\ \A j \in 1 .. k : <<v, j>> \in part => i <= j
    BY DEF Firsts
  <2>2. <<v, order[i]>> \in Firsts(whole) <=>
          <<v, order[i]>> \in whole /\ \A j \in 1 .. k : <<v, order[j]>> \in whole => order[i] <= order[j]
    BY DEF Firsts
  <2> QED BY <2>1, <2>2, <1>1
<1>4. ASSUME NEW x
      PROVE  x \in Renumbered(Firsts(whole), order) <=>
               \E v : \E i \in 1 .. k : x = <<v, i>> /\ <<v, order[i]>> \in Firsts(whole)
  <2>1. ASSUME NEW p \in Firsts(whole), x = <<p[1], CHOOSE j \in DOMAIN order : order[j] = p[2]>>
        PROVE  \E v : \E i \in 1 .. k : x = <<v, i>> /\ <<v, order[i]>> \in Firsts(whole)
    <3>0. PICK v : \E i \in 1 .. k : p = <<v, order[i]>>
      BY DEF Firsts
    <3>1. PICK i \in 1 .. k : p = <<v, order[i]>>
      BY <3>0
    <3>2. p[1] = v /\ p[2] = order[i]
      BY <3>1
    <3>3. x = <<v, i>>
      BY <2>1, <3>2, <1>2
    <3> QED BY <3>1, <3>3
  <2>2. ASSUME NEW v, NEW i \in 1 .. k, x = <<v, i>>, <<v, order[i]>> \in Firsts(whole)
        PROVE  \E p \in Firsts(whole) : x = <<p[1], CHOOSE j \in DOMAIN order : order[j] = p[2]>>
    <3> DEFINE p == <<v, order[i]>>
    <3>1. p \in Firsts(whole) /\ p[1] = v /\ p[2] = order[i]
      BY <2>2
    <3> HIDE DEF p
    <3>2. x = <<p[1], CHOOSE j \in DOMAIN order : order[j] = p[2]>>
      BY <2>2, <3>1, <1>2
    <3> QED BY <3>1, <3>2
  <2>3. x \in Renumbered(Firsts(whole), order) <=>
          \E p \in Firsts(whole) : x = <<p[1], CHOOSE j \in DOMAIN order : order[j] = p[2]>>
    BY Zenon DEF Renumbered
  <2> QED BY <2>1, <2>2, <2>3
<1>5. ASSUME NEW x
      PROVE  x \in Firsts(part) <=> \E v : \E i \in 1 .. k : x = <<v, i>> /\ <<v, i>> \in Firsts(part)
  <2>1. x \in Firsts(part) => x \in part
    BY DEF Firsts
  <2>2. x \in part => \E v : \E i \in 1 .. k : x = <<v, i>>
    OBVIOUS
  <2> DEFINE F1 == Firsts(part)
  <2>3. ASSUME x \in F1 PROVE \E v : \E i \in 1 .. k : x = <<v, i>> /\ <<v, i>> \in F1
    <3>1. PICK v : \E i \in 1 .. k : x = <<v, i>>
      BY <2>1, <2>2, <2>3
    <3>2. PICK i \in 1 .. k : x = <<v, i>>
      BY <3>1
    <3>3. <<v, i>> \in F1
      BY <2>3, <3>2
    <3> HIDE DEF F1
    <3> QED BY <3>2, <3>3
  <2>4. ASSUME NEW v, NEW i \in 1 .. k, x = <<v, i>>, <<v, i>> \in F1 PROVE x \in F1
    BY <2>4
  <2> QED BY <2>3, <2>4
<1> QED BY <1>3, <1>4, <1>5

StartLike(d, m) ==
  /\ d.map = m.map
  /\ d.map # {} => \A i \in DOMAIN d.srcs : d.srcs[i].ids = m.per[i].ids
                                           /\ d.srcs[i].label = m.per[i].label

LEMMA StartIs ==
  ASSUME NEW confs, NEW n \in Nat, DOMAIN confs = 1 .. n, NEW D, NEW ds \in Seq(D)
  PROVE  StartLike(gather_sheets(confs, ds), rescan(gather_sheets(confs, ds).srcs, ds))
<1> DEFINE sections == Sections(confs)
           m0 == Matching(sections, ds)
           used == {c \in DOMAIN confs : m0.per[c].ids # <<>>}
           all == [c \in DOMAIN confs |-> c]
           order == Among(all, used)
           g == gather_sheets(confs, ds)
           t == Sections(g.srcs)
           m == Matching(t, ds)
<1>1. DOMAIN sections = 1 .. n /\ \A c \in 1 .. n : sections[c] = Parse(confs[c].cfg.ids)
  BY DEF Sections
<1>2. rescan(g.srcs, ds) = m
  BY DEF rescan
<1> HIDE DEF sections
<1>3. ASSUME NEW p \in m0.map PROVE p[2] \in used
  BY <1>1, MatchingIs
<1>4. ASSUME used = {} PROVE StartLike(g, rescan(g.srcs, ds))
  <2> DEFINE s == [c \in DOMAIN confs |-> Source(confs[c], <<>>, NoLabel)]
  <2>1. g = [srcs |-> s, map |-> {}]
    BY <1>4, Zenon DEF gather_sheets, sections
  <2>2. g.srcs = s /\ g.map = {}
    BY <2>1
  <2>3. t = sections
    <3>1. \A c \in DOMAIN confs : s[c].cfg = confs[c].cfg
      BY DEF Source
    <3>2. DOMAIN s = DOMAIN confs
      OBVIOUS
    <3> HIDE DEF s
    <3> QED BY <2>2, <3>1, <3>2 DEF Sections, sections
  <2>4. m.map = {}
    BY <1>3, <1>4, <2>3
  <2> HIDE DEF g, m
  <2> QED BY <1>2, <2>2, <2>4 DEF StartLike
<1>5. ASSUME used # {} PROVE StartLike(g, rescan(g.srcs, ds))
  <2> DEFINE s == [i \in DOMAIN order |->
                     Source(confs[order[i]], m0.per[order[i]].ids, m0.per[order[i]].label)]
  <2>1. g = [srcs |-> s, map |-> Renumbered(m0.map, order)]
    BY <1>5, Zenon DEF gather_sheets, sections
  <2>2. g.srcs = s /\ g.map = Renumbered(m0.map, order)
    BY <2>1
  <2>3. all \in Seq(1 .. n) /\ all \in Seq(Nat) /\ Rising(all) /\ ToSet(all) = 1 .. n
    <3>1. all \in [1 .. n -> 1 .. n] /\ all \in [1 .. n -> Nat] /\ DOMAIN all = 1 .. n
      OBVIOUS
    <3>2. all \in Seq(1 .. n) /\ all \in Seq(Nat)
      <4> HIDE DEF all
      <4> QED BY <3>1
    <3> QED BY <3>1, <3>2 DEF Rising, ToSet
  <2>4. order \in Seq(1 .. n) /\ Rising(order) /\ ToSet(order) = 1 .. n \intersect used
    <3> HIDE DEF all, used
    <3> QED BY <2>3, AmongIs, AmongRises
  <2>5. used \subseteq 1 .. n
    OBVIOUS
  <2> HIDE DEF order, used
  <2>6. PICK k \in Nat : DOMAIN order = 1 .. k /\ order \in [1 .. k -> 1 .. n]
    BY <2>4
  <2>7. DOMAIN s = 1 .. k /\ \A i \in 1 .. k : s[i] = Source(confs[order[i]], m0.per[order[i]].ids,
                                                             m0.per[order[i]].label)
    BY <2>6
  <2> HIDE DEF s, m0
  <2>8. \A i \in 1 .. k : /\ s[i].cfg = confs[order[i]].cfg
                         /\ s[i].ids = m0.per[order[i]].ids /\ s[i].label = m0.per[order[i]].label
    BY <2>7 DEF Source
  <2>9. DOMAIN t = 1 .. k /\ \A i \in 1 .. k : t[i] = sections[order[i]]
    <3>1. t = [i \in DOMAIN s |-> Parse(s[i].cfg.ids)]
      BY <2>2 DEF Sections
    <3> HIDE DEF t
    <3> QED BY <3>1, <2>6, <2>7, <2>8, <1>1
  <2> HIDE DEF g, t
  <2>10. Selected(sections, n, order, k, t)
    BY <1>1, <2>4, <2>6, <2>9 DEF Selected
  <2>11. /\ m0.per = [c \in DOMAIN sections |->
                 [ids   |-> IdsOf(GovernedBy(sections, ds, c)),
                  label |-> config_label(sections[c], GovernedBy(sections, ds, c))]]
         /\ m0.map = Firsts(Governs(sections, ds))
    BY MatchesAre DEF m0
  <2>12. /\ m.per = [c \in DOMAIN t |->
                 [ids   |-> IdsOf(GovernedBy(t, ds, c)),
                  label |-> config_label(t[c], GovernedBy(t, ds, c))]]
         /\ m.map = Firsts(Governs(t, ds))
    BY MatchesAre
  <2> HIDE DEF m
  <2>13. ASSUME NEW d \in ToSet(ds)
         PROVE  Best(sections, d) = 0 \/ \E i \in 1 .. k : Best(sections, d) = order[i]
    <3> SUFFICES ASSUME Best(sections, d) # 0 PROVE \E i \in 1 .. k : Best(sections, d) = order[i]
      OBVIOUS
    <3> DEFINE c == Best(sections, d)
    <3>1. c \in 1 .. n
      BY <1>1, BestIs
    <3>2. m0.per[c].ids # <<>>
      BY <3>1, <2>11, <1>1, UsedIs
    <3>3. c \in used
      BY <3>1, <3>2 DEF used, m0
    <3> HIDE DEF c
    <3>4. c \in ToSet(order)
      BY <3>1, <3>3, <2>4
    <3>5. \E i \in 1 .. k : c = order[i]
      BY <3>4, <2>6 DEF ToSet
    <3> QED BY <3>5 DEF c
  <2>14. ASSUME NEW d \in ToSet(ds)
         PROVE  /\ Best(sections, d) = 0 <=> Best(t, d) = 0
                /\ \A i \in 1 .. k : Best(sections, d) = order[i] <=> Best(t, d) = i
                /\ Best(t, d) # 0 => Best(t, d) \in 1 .. k
    BY <2>10, <2>13, BestKept
  <2>15. ASSUME NEW i \in 1 .. k PROVE GovernedBy(t, ds, i) = GovernedBy(sections, ds, order[i])
    <3>1. {d \in ToSet(ds) : Best(t, d) = i} = {d \in ToSet(ds) : Best(sections, d) = order[i]}
      BY <2>14
    <3> QED BY <3>1 DEF GovernedBy
  <2>16. ASSUME NEW i \in 1 .. k PROVE s[i].ids = m.per[i].ids /\ s[i].label = m.per[i].label
    <3>1. order[i] \in DOMAIN sections
      BY <2>6, <1>1
    <3>2. /\ m0.per[order[i]].ids = IdsOf(GovernedBy(sections, ds, order[i]))
          /\ m0.per[order[i]].label =
               config_label(sections[order[i]], GovernedBy(sections, ds, order[i]))
      BY <3>1, <2>11
    <3>3. /\ m.per[i].ids = IdsOf(GovernedBy(t, ds, i))
          /\ m.per[i].label = config_label(t[i], GovernedBy(t, ds, i))
      BY <2>9, <2>12
    <3> QED BY <3>2, <3>3, <2>8, <2>9, <2>15
  <2>17. Renumbered(m0.map, order) = m.map
    <3> DEFINE whole == Governs(sections, ds)
               part  == Governs(t, ds)
    <3>1. \A x : x \in whole <=> \E d \in ToSet(ds) : Best(sections, d) # 0 /\ x = <<d.id, Best(sections, d)>>
      BY Zenon DEF Governs
    <3>2. \A x : x \in part <=> \E d \in ToSet(ds) : Best(t, d) # 0 /\ x = <<d.id, Best(t, d)>>
      BY Zenon DEF Governs
    <3> HIDE DEF whole, part
    <3>3. ASSUME NEW p \in whole PROVE \E v : \E i \in 1 .. k : p = <<v, order[i]>>
      <4>1. PICK d \in ToSet(ds) : Best(sections, d) # 0 /\ p = <<d.id, Best(sections, d)>>
        BY <3>1
      <4>2. PICK i \in 1 .. k : Best(sections, d) = order[i]
        BY <4>1, <2>13
      <4> QED BY <4>1, <4>2
    <3>4. ASSUME NEW p \in part PROVE \E v : \E i \in 1 .. k : p = <<v, i>>
      BY <3>2, <2>14
    <3>5. ASSUME NEW v, NEW i \in 1 .. k PROVE <<v, i>> \in part <=> <<v, order[i]>> \in whole
      <4>1. i # 0 /\ order[i] # 0
        BY <2>6
      <4>2. <<v, i>> \in part <=> \E d \in ToSet(ds) : d.id = v /\ Best(t, d) = i
        BY <3>2, <4>1
      <4>3. <<v, order[i]>> \in whole <=> \E d \in ToSet(ds) : d.id = v /\ Best(sections, d) = order[i]
        BY <3>1, <4>1
      <4> QED BY <4>2, <4>3, <2>14
    <3>6. SameMap(k, n, order, whole, part)
      BY <3>3, <3>4, <3>5, <2>4, <2>6 DEF SameMap
    <3>7. Renumbered(Firsts(whole), order) = Firsts(part)
      BY <3>6, RenumberedIs
    <3> QED BY <3>7, <2>11, <2>12 DEF whole, part
  <2> QED BY <1>2, <2>2, <2>7, <2>16, <2>17 DEF StartLike
<1> QED BY <1>4, <1>5

-----------------------------------------------------------------------------
(* What the [ids] of the files are.                                        *)

IsConfig(c) == c = [ids |-> c.ids, body |-> c.body] /\ PlainLines(c.ids)

\* The assumption: no file of the outside has a bare `k:' or `m:' line, nor an
\* id with a unique part.
PlainContents == /\ \A c \in Contents : IsConfig(c)
                 /\ \A d \in FirstDisks, p \in Named : IsConfig(d[p].cfg)

AllPlain == (\A p \in Named : IsConfig(disk[p].cfg)) /\ IsConfig(session.cfg)

LEMMA NoConfigIs == IsConfig(NoConfig) /\ NoSession.cfg = NoConfig /\ Missing.cfg = NoConfig
<1> DEFINE z == <<>>
<1>1. NoConfig = [ids |-> z, body |-> ""]
  BY DEF NoConfig
<1>2. z \in Seq({}) /\ DOMAIN z = {}
  OBVIOUS
<1> HIDE DEF z
<1>3. IsList(z)
  BY <1>2, ListOfSeq
<1>4. NoConfig.ids = z /\ NoConfig = [ids |-> NoConfig.ids, body |-> NoConfig.body]
  BY <1>1
<1>5. IsConfig(NoConfig)
  BY <1>2, <1>3, <1>4 DEF IsConfig, PlainLines
<1> QED BY <1>5 DEF NoSession, Missing

LEMMA DeviceIs == ASSUME NEW k \in SUBSET DOMAIN Devices, NEW d \in ToSet(Connected(k))
                  PROVE  IsDevice(d) /\ IsId(d.id)
<1> DEFINE S == {Devices[i] : i \in k}
<1>1. Devices \in Seq(ToSet(Devices))
  BY WatchAssumption DEF ToSet
<1>2. ToSet(Connected(k)) = ToSet(Devices) \intersect S
  <2> HIDE DEF S
  <2>1. ToSet(Among(Devices, S)) = ToSet(Devices) \intersect S
    BY <1>1, AmongIs
  <2> QED BY <2>1 DEF Connected, S
<1>3. PICK i \in DOMAIN Devices : d = Devices[i]
  BY <1>2
<1>4. IsDevice(d)
  BY <1>3, WatchAssumption
<1>5. d.id = <<d.id[1], d.id[2]>>
  BY <1>4 DEF IsDevice
<1>6. IsId(d.id)
  <2> DEFINE a == d.id[1]
             b == d.id[2]
  <2>1. <<a, b>> \in Seq({a, b}) /\ Len(<<a, b>>) = 2
    OBVIOUS
  <2>2. IsList(<<a, b>>)
    BY <2>1, ListOfSeq
  <2> QED BY <1>5, <2>1, <2>2 DEF IsId
<1> QED BY <1>4, <1>6

LEMMA OneLine ==
  ASSUME NEW l, l.mark # "*" => IsPattern(l.pattern)
  PROVE  PlainLines(<<l>>)
<1>1. <<l>> \in Seq({l}) /\ DOMAIN <<l>> = {1} /\ <<l>>[1] = l
  OBVIOUS
<1>2. IsList(<<l>>)
  BY <1>1, ListOfSeq
<1> QED BY <1>1, <1>2 DEF PlainLines

LEMMA OffersArePlain == ASSUME IInv, NEW o \in Offers PROVE PlainLines(o[1])
<1> DEFINE line(v) == [mark |-> "", pattern |-> v]
           lab(v) == [name |-> SelectSeq(Connected(devs), LAMBDA d :
                                 d.id = v /\ is_create_candidate(d))[1].name, more |-> 0]
           star == [mark |-> "*", pattern |-> <<"*">>]
           named == {<<<<line(v)>>, lab(v)>> : v \in ToSet(create_scan(Confs(disk), Connected(devs)))}
<1>1. Offers = named \union {<<<<star>>, WildcardLabel>>}
  BY DEF Offers
<1>2. CASE o = <<<<star>>, WildcardLabel>>
  <2>1. star.mark = "*"
    OBVIOUS
  <2> HIDE DEF star
  <2> QED BY <1>2, <2>1, OneLine
<1>3. CASE o \in named
  <2> HIDE DEF line, lab
  <2>1. PICK v \in ToSet(create_scan(Confs(disk), Connected(devs))) : o[1] = <<line(v)>>
    BY <1>3
  <2>2. PICK d \in ToSet(Connected(devs)) : d.id = v
    BY ConnectedIs, OfferIs
  <2>3. IsId(v)
    BY <2>2, DeviceIs DEF IInv, TypeOK
  <2>4. IsPattern(v)
    BY <2>3 DEF IsId, IsPattern
  <2>5. PlainLines(<<line(v)>>)
    BY <2>4, OneLine DEF line
  <2> QED BY <2>1, <2>5
<1> QED BY <1>1, <1>2, <1>3

LEMMA PlainInit == ASSUME PlainContents, Init PROVE AllPlain
<1>1. disk \in FirstDisks /\ session = NoSession
  BY DEF Init
<1> QED BY <1>1, NoConfigIs DEF AllPlain, PlainContents

LEMMA PlainStep == ASSUME PlainContents, IInv, AllPlain, [Next]_vars PROVE AllPlain'
<1> USE DEF world, boards, timers
<1>0. /\ DOMAIN disk = Named /\ \A p \in Named : IsFile(disk[p])
      /\ \A i \in DOMAIN srcs : srcs[i].path \in Named
      /\ session # NoSession => session.path \in Named
      /\ IsSession(session)
  BY DEF IInv, Shapes, TypeOK, SessionHasBoard
<1>1. ASSUME UNCHANGED disk, session' = session \/ session' = NoSession PROVE AllPlain'
  BY <1>1, NoConfigIs DEF AllPlain
<1>2. ASSUME NEW p \in Named, NEW f, IsConfig(f.cfg), disk' = [disk EXCEPT ![p] = f],
             session' = NoSession \/ session'.cfg = session.cfg
      PROVE  AllPlain'
  BY <1>0, <1>2, NoConfigIs DEF AllPlain
<1>3. ASSUME NEW p \in Named, NEW c \in Contents, WriteFile(p, c) PROVE AllPlain'
  <2> DEFINE f == [cfg |-> c, mtime |-> changes + 1, readable |-> TRUE]
  <2>1. disk' = [disk EXCEPT ![p] = f] /\ session' = session /\ f.cfg = c
    BY <1>3 DEF WriteFile, Change
  <2> HIDE DEF f
  <2> QED BY <1>2, <2>1 DEF PlainContents
<1>4. ASSUME NEW p \in Named, RemoveFile(p) PROVE AllPlain'
  BY <1>2, <1>4, NoConfigIs DEF RemoveFile, Change
<1>5. ASSUME NEW p \in Named, Permit(p) PROVE AllPlain'
  <2> DEFINE f == [disk[p] EXCEPT !.readable = ~disk[p].readable]
  <2>1. disk' = [disk EXCEPT ![p] = f] /\ session' = session
    BY <1>5, Zenon DEF Permit, Change
  <2>2. f.cfg = disk[p].cfg
    BY <1>0 DEF IsFile
  <2> HIDE DEF f
  <2> QED BY <1>2, <2>1, <2>2 DEF AllPlain
<1>6. ASSUME OpenEdit PROVE AllPlain'
  <2>1. /\ UNCHANGED disk /\ srcs[active].path \in Named
        /\ session'.cfg = disk[srcs[active].path].cfg
    BY <1>0, <1>6 DEF OpenEdit
  <2> QED BY <2>1 DEF AllPlain
<1>7. ASSUME NEW b, Edit(b) PROVE AllPlain'
  <2> DEFINE z == [session.cfg EXCEPT !.body = b]
             y == [session EXCEPT !.cfg = z]
  <2>1. UNCHANGED disk /\ session' = [y EXCEPT !.edited = TRUE]
    BY <1>7, Zenon DEF Edit
  <2>2. session.cfg = [ids |-> session.cfg.ids, body |-> session.cfg.body] /\ PlainLines(session.cfg.ids)
    BY DEF AllPlain, IsConfig
  <2>3. z = [ids |-> session.cfg.ids, body |-> b]
    BY <2>2
  <2>4. IsConfig(z)
    BY <2>2, <2>3 DEF IsConfig
  <2> HIDE DEF z
  <2>5. session = [path |-> session.path, cfg |-> session.cfg, new |-> session.new,
                   edited |-> session.edited]
    BY <1>0 DEF IsSession
  <2>6. y = [path |-> session.path, cfg |-> z, new |-> session.new, edited |-> session.edited]
    BY <2>5
  <2> HIDE DEF y
  <2>7. session'.cfg = z
    BY <2>1, <2>6
  <2> QED BY <2>1, <2>4, <2>7 DEF AllPlain
<1>8. ASSUME NEW p \in Named, NEW o \in Offers, CreateConfig(p, o[1], o[2]) PROVE AllPlain'
  <2> DEFINE c == [ids |-> o[1], body |-> "starter"]
  <2>1. UNCHANGED disk /\ session'.cfg = c
    BY <1>8 DEF CreateConfig
  <2>2. IsConfig(c)
    BY OffersArePlain DEF IsConfig
  <2> HIDE DEF c
  <2> QED BY <2>1, <2>2 DEF AllPlain
<1>9. ASSUME ExitEdit PROVE AllPlain'
  BY <1>1, <1>9 DEF ExitEdit
<1>10. ASSUME ApplyKept PROVE AllPlain'
  <2> DEFINE f == [cfg |-> session.cfg, mtime |-> changes + 1, readable |-> TRUE]
             y == [session EXCEPT !.new = FALSE]
  <2>1. /\ session.edited /\ disk' = [disk EXCEPT ![session.path] = f]
        /\ session' = [y EXCEPT !.edited = FALSE]
    BY <1>10, Zenon DEF ApplyKept
  <2>2. session # NoSession
    <3>1. NoSession.edited = FALSE
      BY DEF NoSession
    <3> QED BY <3>1, <2>1
  <2>3. f.cfg = session.cfg
    OBVIOUS
  <2> HIDE DEF f
  <2>4. /\ session = [path |-> session.path, cfg |-> session.cfg, new |-> session.new,
                      edited |-> session.edited]
        /\ session.new \in BOOLEAN /\ session.edited \in BOOLEAN
    BY <1>0 DEF IsSession
  <2>5. y = [path |-> session.path, cfg |-> session.cfg, new |-> FALSE, edited |-> session.edited]
    BY <2>4, SessionWith
  <2> HIDE DEF y
  <2>6. session'.cfg = session.cfg
    BY <2>1, <2>5
  <2> QED BY <1>0, <1>2, <2>1, <2>2, <2>3, <2>6 DEF AllPlain
<1>11. ASSUME DeleteKept PROVE AllPlain'
  <2>1. /\ session # NoSession /\ session' = NoSession
        /\ disk' = [disk EXCEPT ![session.path] = Missing]
    BY <1>11 DEF DeleteKept
  <2> QED BY <1>0, <1>2, <2>1, NoConfigIs
<1>12. CASE World
  <2>1. ASSUME NEW i, Plug(i) PROVE AllPlain'
    BY <1>1, <2>1 DEF Plug, Change
  <2> QED BY <1>3, <1>4, <1>5, <1>12, <2>1 DEF World
<1>13. CASE User
  <2>1. ASSUME NEW i, PickKeyboard(i) \/ KeyGoesDown(i) PROVE AllPlain'
    BY <1>1, <2>1 DEF PickKeyboard, KeyGoesDown
  <2> QED BY <1>6, <1>7, <1>8, <1>9, <1>10, <1>11, <1>13, <2>1 DEF User
<1>14. CASE Start \/ ReloadTick \/ WatchDevices
  <2>1. ASSUME NEW i, StampMtime(i) PROVE AllPlain'
    BY <1>1, <2>1 DEF StampMtime
  <2>2. ASSUME Start \/ Reload \/ WatchDevices PROVE AllPlain'
    BY <1>1, <2>2 DEF Start, Reload, WatchDevices
  <2> QED BY <1>14, <2>1, <2>2 DEF ReloadTick
<1>15. CASE UNCHANGED vars
  BY <1>1, <1>15 DEF vars
<1> QED BY <1>12, <1>13, <1>14, <1>15 DEF Next

LEMMA PlainHolds == ASSUME PlainContents PROVE Spec => [](IInv /\ AllPlain)
<1>1. Init => IInv /\ AllPlain
  BY InitInv, PlainInit
<1>2. IInv /\ AllPlain /\ [Next]_vars => (IInv /\ AllPlain)'
  BY StepInv, PlainStep
<1> QED BY <1>1, <1>2, PTL DEF Spec

-----------------------------------------------------------------------------
(* The matchers.                                                           *)

LEMMA ConfsList ==
  ASSUME NEW d
  PROVE  /\ \E n \in Nat : DOMAIN Confs(d) = 1 .. n
         /\ IsList(Confs(d))
         /\ \A i \in DOMAIN Confs(d) : \E p \in Named : Confs(d)[i].cfg = d[p].cfg
<1>1. PICK ps \in Seq(Named) : Confs(d) = [i \in DOMAIN ps |-> [path |-> ps[i], cfg |-> d[ps[i]].cfg]]
  BY ConfsAre
<1>2. DOMAIN ps = 1 .. Len(ps) /\ Len(ps) \in Nat /\ \A i \in DOMAIN ps : ps[i] \in Named
  OBVIOUS
<1>3. /\ DOMAIN Confs(d) = 1 .. Len(ps) /\ Confs(d) = [i \in 1 .. Len(ps) |-> Confs(d)[i]]
      /\ \A i \in DOMAIN ps : Confs(d)[i].cfg = d[ps[i]].cfg
  BY <1>1, <1>2
<1> QED BY <1>2, <1>3, ListIs

LEMMA SectionsAre ==
  ASSUME AllPlain
  PROVE  /\ IsList(Sections(Confs(disk))) /\ DOMAIN Sections(Confs(disk)) = DOMAIN Confs(disk)
         /\ \A c \in DOMAIN Confs(disk) : IsIds(Sections(Confs(disk))[c])
<1> DEFINE confs == Confs(disk)
<1>1. /\ Sections(confs) = [c \in DOMAIN confs |-> Parse(confs[c].cfg.ids)]
  BY DEF Sections
<1>2. IsList(confs)
  BY ConfsList
<1>3. ASSUME NEW c \in DOMAIN confs PROVE IsIds(Parse(confs[c].cfg.ids))
  <2>1. PlainLines(confs[c].cfg.ids)
    BY ConfsList DEF AllPlain, IsConfig
  <2> QED BY <2>1, ParseIs
<1> HIDE DEF confs
<1>4. IsList(Sections(confs))
  BY <1>1, <1>2, ListMap
<1> QED BY <1>1, <1>3, <1>4 DEF confs

LEMMA StartsAlike == StartAgrees
<1>1. StartLike(gather_sheets(Confs(disk), Connected(devs)),
                rescan(gather_sheets(Confs(disk), Connected(devs)).srcs, Connected(devs)))
  BY ConfsList, ConnectedIs, StartIs
<1> QED BY <1>1 DEF StartAgrees, StartLike

LEMMA ClashesNamed == ASSUME AllPlain PROVE ClashesAreReported
<1> DEFINE s == Sections(Confs(disk))
<1>1. \A c \in DOMAIN s : IsIds(s[c])
  BY SectionsAre
<1> HIDE DEF s
<1>2. ASSUME NEW k \in DOMAIN Devices, NEW i \in Claiming(s, Devices[k].id),
             NEW j \in Claiming(s, Devices[k].id), i # j
      PROVE  \E c \in find_conflicts(s) : {i, j} \subseteq c.configs /\ IsPrefix(c.id, Devices[k].id)
  <2>1. IsList(Devices[k].id)
    <3>1. Devices[k].id = <<Devices[k].id[1], Devices[k].id[2]>>
      BY WatchAssumption DEF IsDevice
    <3> DEFINE a == Devices[k].id[1]
               b == Devices[k].id[2]
    <3>2. <<a, b>> \in Seq({a, b})
      OBVIOUS
    <3> QED BY <3>1, <3>2, ListOfSeq
  <2> QED BY <1>1, <1>2, <2>1, ClashNamed
<1> QED BY <1>2 DEF ClashesAreReported, s

LEMMA CreatesNoClash == ASSUME IInv, AllPlain PROVE CreatingMakesNoClash
<1> DEFINE confs == Confs(disk)
           s == Sections(confs)
<1>1. IsList(s) /\ DOMAIN s = DOMAIN confs /\ \A c \in DOMAIN s : IsIds(s[c])
  BY SectionsAre
<1>2. ASSUME NEW v \in ToSet(create_scan(confs, Connected(devs)))
      PROVE  find_conflicts(Append(s, Parse(<<[mark |-> "", pattern |-> v]>>))) = find_conflicts(s)
  <2>1. PICK d \in ToSet(Connected(devs)) : d.id = v /\ is_create_candidate(d) /\ ~Governed(confs, d)
    BY ConnectedIs, OfferIs
  <2>2. IsDevice(d) /\ IsId(v)
    BY <2>1, DeviceIs DEF IInv, TypeOK
  <2>3. ASSUME NEW c \in DOMAIN s PROVE match_device(s[c], v, Keyboard) # "explicit"
    <3>1. match_device(s[c], d.id, d.flags) # "explicit"
      BY <1>1, <2>1 DEF Governed
    <3> QED BY <1>1, <2>1, <2>2, <3>1, KeyboardIs
  <2> HIDE DEF s
  <2>4. Claiming(s, v) = {}
    BY <2>3 DEF Claiming
  <2> QED BY <1>1, <2>2, <2>4, NoNewClash
<1> QED BY <1>2 DEF CreatingMakesNoClash

\* What detect.rs shows at the start, what its timer says of the same boards,
\* what find_conflicts warns of and what create.rs offers never contradict each
\* other.  Assumed of the files: no bare `k:' line, which ids.rs leaves out of
\* the candidates, and no id with a unique part, which create.rs does not see.
THEOREM MatchersHold == ASSUME PlainContents PROVE Spec => []MatchersAgree
<1>1. IInv /\ AllPlain => MatchersAgree
  BY StartsAlike, ClashesNamed, CreatesNoClash DEF MatchersAgree
<1> QED BY <1>1, PlainHolds, PTL

=============================================================================
