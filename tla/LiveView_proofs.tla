-------------------------- MODULE LiveView_proofs --------------------------
(***************************************************************************)
(* The live view without the helper.  The window follows keyd: Spec =>     *)
(* []WindowFollows of LiveDirect, for every set of layers and keys, every  *)
(* pipe and every number of changes and losses.  And no key sticks, or     *)
(* strays, in the glow that its key events feed (KeyGlow).                 *)
(*                                                                         *)
(* The queues are read through one fold: what the window will show when    *)
(* the closures posted so far have run is what the threads have read, and  *)
(* what the pipes still hold brings that to what keyd has.                 *)
(***************************************************************************)
EXTENDS LiveDirect, KeyGlow, LayerStack_proofs

-----------------------------------------------------------------------------
(* What the posted closures come to.                                       *)

LEMMA PostsAre ==
  ASSUME NEW p \in Posts
  PROVE  /\ p.post = "layers" => p.live \in BOOLEAN /\ p.stack \in Stacks(Layers)
                                 /\ (~p.live => p.stack = <<>>)
         /\ p.post = "connection" => p.keys \in BOOLEAN
         /\ p.post = "key" => p.ev \in KeyEvents
         /\ p.post \in {"layers", "connection", "key"}
<1>1. <<>> \in Stacks(Layers)
  BY DirectAssumption, EmptyStack
<1>2. CASE \E s \in Stacks(Layers) : p = State(TRUE, s)
  BY <1>2 DEF State
<1>3. CASE p = State(FALSE, <<>>)
  BY <1>1, <1>3 DEF State
<1>4. CASE \E b \in BOOLEAN : p = Connected(b)
  BY <1>4 DEF Connected
<1>5. CASE \E ev \in KeyEvents : p = Press(ev)
  BY <1>5 DEF Press
<1> QED BY <1>2, <1>3, <1>4, <1>5 DEF Posts

LEMMA PressKeyType ==
  ASSUME NEW keys \in SUBSET Keys, NEW ev \in KeyEvents
  PROVE  PressKey(keys, ev) \in SUBSET Keys
BY DEF PressKey, KeyEvents, Down, Up

LEMMA ShownType ==
  ASSUME NEW w \in Windows, NEW p \in Posts
  PROVE  Shown(w, p) \in Windows
<1>1. CASE p.post = "layers"
  BY <1>1, PostsAre DEF Shown, Windows
<1>2. CASE p.post = "connection"
  BY <1>2, PostsAre DEF Shown, Windows
<1>3. CASE p.post = "key"
  <2>1. PressKey(w.held, p.ev) \in SUBSET Keys
    BY <1>3, PostsAre, PressKeyType DEF Windows
  <2> QED BY <1>3, <2>1 DEF Shown, Windows
<1> QED BY <1>1, <1>2, <1>3, PostsAre

ShownAllRun(h, base, s) ==
  /\ h[0] = base
  /\ \A k \in 1 .. Len(s) : h[k] = Shown(h[k - 1], s[k])
  /\ ShownAll(base, s) = h[Len(s)]

\* ShownAll goes through the closures.
LEMMA ShownAllSteps ==
  ASSUME NEW E, E = Posts,
         NEW base \in Windows, NEW s \in Seq(E)
  PROVE  \E h : ShownAllRun(h, base, s)
<1> DEFINE n == Len(s)
           d == [k \in 1 .. n |-> [x \in Windows |-> Shown(x, s[k])]]
           Eqn(it) == it = [S \in SUBSET DOMAIN s |->
                              IF S = {} THEN base ELSE Shown(it[S \ {Top(S)}], s[Top(S)])]
           it == CHOOSE it : Eqn(it)
           h == [k \in 0 .. n |-> it[1 .. k]]
           o == [S \in SUBSET (1 .. n) |-> Shown(it[S \ {Top(S)}], s[Top(S)])]
<1>1. n \in Nat /\ DOMAIN s = 1 .. n
  OBVIOUS
<1>2. ShownAll(base, s) = it[DOMAIN s]
  BY DEF ShownAll, FoldLeft, MapThenFoldSet, Max, Top
<1>3. PICK jt : FoldOf(jt, Windows, base, d, n)
  <2>1. \A k \in 1 .. n : s[k] \in E
    OBVIOUS
  <2>2. d \in [1 .. n -> [Windows -> Windows]]
    BY <2>1, ShownType
  <2> HIDE DEF d, n
  <2> QED BY <2>2, <1>1, FoldExists
<1>4. Eqn(it)
  <2>1. ASSUME NEW S \in SUBSET (1 .. n), S # {}
        PROVE  d[Top(S)][jt[S \ {Top(S)}]] = Shown(jt[S \ {Top(S)}], s[Top(S)])
    <3>1. Top(S) \in 1 .. n /\ S \ {Top(S)} \in SUBSET (1 .. n)
      BY <2>1, TopIn, <1>1
    <3> QED BY <3>1, <1>3 DEF FoldOf
  <2>2. Eqn(jt)
    <3>1. jt = [S \in SUBSET (1 .. n) |->
                  IF S = {} THEN base ELSE Shown(jt[S \ {Top(S)}], s[Top(S)])]
      <4> HIDE DEF d, n
      <4> QED BY <2>1, <1>3 DEF FoldOf
    <3> QED BY <3>1, <1>1
  <2> HIDE DEF Eqn
  <2> QED BY <2>2
<1>5. /\ it[1 .. 0] = base
      /\ \A k \in 1 .. n : it[1 .. k] = Shown(it[1 .. k - 1], s[k])
  <2>1. Unfolds(it, base, o, n)
    <3> HIDE DEF it
    <3> QED BY <1>4, <1>1 DEF Unfolds
  <2>2. /\ it[1 .. 0] = base
        /\ \A k \in 1 .. n : /\ it[1 .. k] = o[1 .. k]
                             /\ Top(1 .. k) = k /\ (1 .. k) \ {Top(1 .. k)} = 1 .. k - 1
    <3> HIDE DEF it, o, n
    <3> QED BY <2>1, <1>1, FoldAlong
  <2>3. \A k \in 1 .. n : 1 .. k \in SUBSET (1 .. n)
    OBVIOUS
  <2> HIDE DEF it
  <2> QED BY <2>2, <2>3
<1>6. ShownAllRun(h, base, s)
  <2> HIDE DEF it
  <2> QED BY <1>1, <1>2, <1>5 DEF ShownAllRun
<1> HIDE DEF h
<1> QED BY <1>6

LEMMA ShownAllEmpty ==
  ASSUME NEW E, E = Posts,
         NEW base \in Windows
  PROVE  ShownAll(base, <<>>) = base
<1> DEFINE s == <<>>
<1>1. s \in Seq(E) /\ Len(s) = 0
  OBVIOUS
<1> HIDE DEF s
<1>2. PICK h : ShownAllRun(h, base, s)
  BY <1>1, ShownAllSteps
<1> QED BY <1>1, <1>2 DEF s, ShownAllRun

LEMMA ShownAllAppend ==
  ASSUME NEW E, E = Posts,
         NEW base \in Windows, NEW s \in Seq(E), NEW ev \in E
  PROVE  ShownAll(base, Append(s, ev)) = Shown(ShownAll(base, s), ev)
<1> DEFINE t == Append(s, ev)
           n == Len(s)
<1>1. /\ t \in Seq(E) /\ Len(t) = n + 1 /\ n \in Nat
      /\ \A k \in 1 .. n : t[k] = s[k]
      /\ t[n + 1] = ev
  OBVIOUS
<1> HIDE DEF t, n
<1>2. PICK g : ShownAllRun(g, base, s)
  BY ShownAllSteps
<1>3. PICK h : ShownAllRun(h, base, t)
  BY <1>1, ShownAllSteps
<1>4. /\ g[0] = h[0]
      /\ \A k \in 1 .. n : g[k - 1] = h[k - 1] => g[k] = h[k]
  BY <1>1, <1>2, <1>3 DEF ShownAllRun, n
<1>5. g[n] = h[n]
  BY <1>1, <1>4, StepsAgree, Zenon
<1> QED BY <1>1, <1>2, <1>3, <1>5 DEF t, n, ShownAllRun

LEMMA ShownAllType ==
  ASSUME NEW E, E = Posts,
         NEW base \in Windows, NEW s \in Seq(E)
  PROVE  ShownAll(base, s) \in Windows
<1> DEFINE T == {t \in Seq(E) : ShownAll(base, t) \in Windows}
<1>1. <<>> \in T
  BY ShownAllEmpty
<1>2. ASSUME NEW t \in Seq(E), NEW ev \in E, t \in T PROVE Append(t, ev) \in T
  BY <1>2, ShownAllAppend, ShownType
<1>3. s \in T
  <2> HIDE DEF T
  <2> QED BY <1>1, <1>2, SeqInSet
<1> QED BY <1>3

\* An event taken from the front goes into the base.
LEMMA ShownAllHead ==
  ASSUME NEW E, E = Posts,
         NEW base \in Windows, NEW s \in Seq(E), s # <<>>
  PROVE  ShownAll(base, s) = ShownAll(Shown(base, Head(s)), Tail(s))
<1> DEFINE Good(t) == t # <<>> => ShownAll(base, t) = ShownAll(Shown(base, Head(t)), Tail(t))
           T == {t \in Seq(E) : Good(t)}
<1>1. ASSUME NEW t \in Seq(E), NEW ev \in E, Good(t) PROVE Good(Append(t, ev))
  <2>1. ShownAll(base, Append(t, ev)) = Shown(ShownAll(base, t), ev)
    BY ShownAllAppend
  <2>2. CASE t = <<>>
    <3>1. Head(Append(t, ev)) = ev /\ Tail(Append(t, ev)) = <<>>
      BY <2>2
    <3>2. Shown(base, ev) \in Windows
      BY ShownType
    <3>3. ShownAll(base, t) = base /\ ShownAll(Shown(base, ev), <<>>) = Shown(base, ev)
      BY <2>2, <3>2, ShownAllEmpty
    <3> QED BY <2>1, <3>1, <3>3
  <2>3. CASE t # <<>>
    <3>1. Head(Append(t, ev)) = Head(t) /\ Tail(Append(t, ev)) = Append(Tail(t), ev)
      BY <2>3, HeadTailAppend
    <3>2. Head(t) \in E /\ Tail(t) \in Seq(E)
      BY <2>3
    <3>3. Shown(base, Head(t)) \in Windows
      BY <3>2, ShownType
    <3> DEFINE b == Shown(base, Head(t))
               r == Tail(t)
    <3>4. ShownAll(b, Append(r, ev)) = Shown(ShownAll(b, r), ev)
      <4> b \in Windows /\ r \in Seq(E)
        BY <3>2, <3>3
      <4> HIDE DEF b, r
      <4> QED BY ShownAllAppend
    <3> QED BY <2>1, <2>3, <3>1, <3>4, <1>1
  <2> QED BY <2>2, <2>3
<1>2. <<>> \in T /\ \A t \in Seq(E), ev \in E : t \in T => Append(t, ev) \in T
  <2>1. Good(<<>>)
    OBVIOUS
  <2> HIDE DEF Good
  <2> QED BY <2>1, <1>1
<1>3. s \in T
  <2> HIDE DEF T
  <2> QED BY <1>2, SeqInSet
<1> QED BY <1>3

-----------------------------------------------------------------------------
(* The inductive invariant.                                                *)

\* A child is read while it runs, `keyd listen' runs while keyd does, and a
\* thread that does not read has read its child to the end.
ChildrenAreRead ==
  /\ child["layers"].open => up
  /\ \A r \in Readers : /\ child[r].open => reading[r]
                        /\ ~reading[r] => child[r] = Ended

\* What is posted is what has been read.
PostsTell ==
  /\ Coming.live = reading["layers"]
  /\ Coming.view = IF reading["layers"] THEN active ELSE <<>>
  /\ ~reading["keys"] => Coming.held = {}

IInv == TypeOK /\ ChildrenAreRead /\ PostsTell /\ LayersFollow /\ KeysFollow

-----------------------------------------------------------------------------
(* The events and the window.                                              *)

LEMMA EventsAre ==
  /\ Over(LayerEvents, Layers) /\ KeysOver(KeyEvents, Keys)
  /\ \A ev \in LayerEvents : IsLayer(ev) /\ ev.name \in Layers
  /\ \A ev \in KeyEvents : ~IsLayer(ev) /\ ev.name \in Keys
  /\ \A l \in Layers : On(l) \in LayerEvents /\ Off(l) \in LayerEvents
  /\ \A k \in Keys : Down(k) \in KeyEvents /\ Up(k) \in KeyEvents
<1>1. /\ \A ev \in LayerEvents : IsLayer(ev) /\ ev.name \in Layers
      /\ \A ev \in KeyEvents : ~IsLayer(ev) /\ ev.name \in Keys
  BY DEF LayerEvents, KeyEvents, IsLayer, On, Off, Down, Up
<1>2. /\ \A l \in Layers : On(l) \in LayerEvents /\ Off(l) \in LayerEvents
      /\ \A k \in Keys : Down(k) \in KeyEvents /\ Up(k) \in KeyEvents
  BY DEF LayerEvents, KeyEvents
<1>3. IsFiniteSet(Layers)
  BY DirectAssumption
<1> QED BY <1>1, <1>2, <1>3 DEF Over, KeysOver

\* The pipes hold what their child says.
LEMMA PipesAre ==
  ASSUME TypeOK
  PROVE  /\ child["layers"].pipe \in Seq(LayerEvents)
         /\ child["keys"].pipe \in Seq(KeyEvents)
BY DEF TypeOK, Readers, Says

LEMMA ShownState ==
  ASSUME NEW w \in Windows, NEW b \in BOOLEAN, NEW s \in Stacks(Layers)
  PROVE  /\ Shown(w, State(b, s)).live = b /\ Shown(w, State(b, s)).view = s
         /\ Shown(w, State(b, s)).held = w.held
<1>1. State(b, s).post = "layers" /\ State(b, s).live = b /\ State(b, s).stack = s
  BY DEF State
<1>2. \A p : p.post = "layers" =>
        Shown(w, p).live = p.live /\ Shown(w, p).view = p.stack /\ Shown(w, p).held = w.held
  BY DEF Shown, Windows
<1> QED BY <1>1, <1>2

LEMMA ShownConnected ==
  ASSUME NEW w \in Windows, NEW b \in BOOLEAN
  PROVE  /\ Shown(w, Connected(b)).live = w.live
         /\ Shown(w, Connected(b)).view = w.view
         /\ Shown(w, Connected(b)).held = IF b THEN w.held ELSE {}
<1>1. Connected(b).post = "connection" /\ Connected(b).keys = b
  BY DEF Connected
<1>2. \A p : p.post = "connection" =>
        /\ Shown(w, p).live = w.live /\ Shown(w, p).view = w.view
        /\ Shown(w, p).held = IF p.keys THEN w.held ELSE {}
  BY DEF Shown, Windows
<1> QED BY <1>1, <1>2

LEMMA ShownPress ==
  ASSUME NEW w \in Windows, NEW ev \in KeyEvents
  PROVE  /\ Shown(w, Press(ev)).live = w.live
         /\ Shown(w, Press(ev)).view = w.view
         /\ Shown(w, Press(ev)).held = PressKey(w.held, ev)
<1>1. Press(ev).post = "key" /\ Press(ev).ev = ev
  BY DEF Press
<1>2. \A p : p.post = "key" =>
        /\ Shown(w, p).live = w.live /\ Shown(w, p).view = w.view
        /\ Shown(w, p).held = PressKey(w.held, p.ev)
  BY DEF Shown, Windows
<1> QED BY <1>1, <1>2

LEMMA ComingType ==
  ASSUME TypeOK PROVE Coming \in Windows
BY ShownAllType DEF TypeOK, Coming

LEMMA ComingPost ==
  ASSUME TypeOK, NEW p \in Posts, win' = win, posts' = Append(posts, p)
  PROVE  Coming' = Shown(Coming, p)
<1>1. win \in Windows /\ posts \in Seq(Posts)
  BY DEF TypeOK
<1> QED BY <1>1, ShownAllAppend DEF Coming

LEMMA ComingRun ==
  ASSUME TypeOK, RunPost PROVE Coming' = Coming
<1>1. win \in Windows /\ posts \in Seq(Posts)
  BY DEF TypeOK
<1> QED BY <1>1, ShownAllHead DEF RunPost, Coming

-----------------------------------------------------------------------------
(* Types.                                                                  *)

ChildType ==
  /\ child \in [Readers -> [open : BOOLEAN, pipe : Seq(LayerEvents \union KeyEvents)]]
  /\ \A r \in Readers : /\ child[r].pipe \in Seq(Says(r))
                        /\ Len(child[r].pipe) <= PipeCap

Children == [open : BOOLEAN, pipe : Seq(LayerEvents \union KeyEvents)]

LEMMA SaysEvents ==
  ASSUME NEW r \in Readers, NEW p \in Seq(Says(r))
  PROVE  p \in Seq(LayerEvents \union KeyEvents)
BY DEF Says

\* One child changes to [open |-> b, pipe |-> p].
ChildSet(r, b, p) ==
  /\ child' \in [Readers -> Children]
  /\ child'[r].open = b /\ child'[r].pipe = p
  /\ \A q \in Readers \ {r} : child'[q] = child[q]

LEMMA SetOpen ==
  ASSUME ChildType, NEW r \in Readers, NEW b \in BOOLEAN,
         child' = [child EXCEPT ![r].open = b]
  PROVE  ChildSet(r, b, child[r].pipe)
BY DEF ChildType, ChildSet, Children

LEMMA SetPipe ==
  ASSUME ChildType, NEW r \in Readers, NEW p \in Seq(LayerEvents \union KeyEvents),
         child' = [child EXCEPT ![r].pipe = p]
  PROVE  ChildSet(r, child[r].open, p)
BY DEF ChildType, ChildSet, Children

LEMMA SetChild ==
  ASSUME ChildType, NEW r \in Readers, NEW b \in BOOLEAN,
         NEW p \in Seq(LayerEvents \union KeyEvents),
         child' = [child EXCEPT ![r] = [open |-> b, pipe |-> p]]
  PROVE  ChildSet(r, b, p)
BY DEF ChildType, ChildSet, Children

LEMMA SetType ==
  ASSUME ChildType, NEW r \in Readers, NEW b \in BOOLEAN,
         NEW p \in Seq(Says(r)), Len(p) <= PipeCap, ChildSet(r, b, p)
  PROVE  ChildType'
BY DEF ChildType, ChildSet, Children

\* A child that runs prints, unless its pipe is full; another's event is lost.
LEMMA EmitIs ==
  ASSUME ChildType, NEW r \in Readers, NEW ev \in Says(r), Emit(r, ev)
  PROVE  /\ ChildType'
         /\ child[r].open => ChildSet(r, TRUE, Append(child[r].pipe, ev))
         /\ ~child[r].open => child' = child
<1>1. CASE child[r].open
  <2> DEFINE p == Append(child[r].pipe, ev)
  <2>1. p \in Seq(Says(r)) /\ Len(p) <= PipeCap
    <3>1. child[r].pipe \in Seq(Says(r)) /\ Len(child[r].pipe) < PipeCap
      BY <1>1 DEF Emit, ChildType
    <3> QED BY <3>1, DirectAssumption
  <2>2. p \in Seq(LayerEvents \union KeyEvents)
    <3> HIDE DEF p
    <3> QED BY <2>1, SaysEvents
  <2>3. child' = [child EXCEPT ![r].pipe = p]
    BY <1>1 DEF Emit
  <2> HIDE DEF p
  <2>4. ChildSet(r, TRUE, p)
    BY <1>1, <2>2, <2>3, SetPipe DEF ChildType, Readers
  <2> QED BY <1>1, <2>1, <2>4, SetType DEF p
<1>2. CASE ~child[r].open
  BY <1>2 DEF Emit, ChildType
<1> QED BY <1>1, <1>2

\* A read takes the first event out of the pipe.
LEMMA ReadIs ==
  ASSUME ChildType, NEW r \in Readers,
         child[r].pipe # <<>>, child' = [child EXCEPT ![r].pipe = Tail(@)]
  PROVE  /\ ChildType'
         /\ ChildSet(r, child[r].open, Tail(child[r].pipe))
         /\ child[r].pipe \in Seq(Says(r)) /\ Head(child[r].pipe) \in Says(r)
<1> DEFINE p == Tail(child[r].pipe)
<1>1. child[r].pipe \in Seq(Says(r)) /\ Len(child[r].pipe) <= PipeCap /\ child[r].open \in BOOLEAN
  BY DEF ChildType
<1>2. p \in Seq(Says(r)) /\ Len(p) <= PipeCap /\ Head(child[r].pipe) \in Says(r)
  BY <1>1, DirectAssumption
<1>3. p \in Seq(LayerEvents \union KeyEvents)
  <2> HIDE DEF p
  <2> QED BY <1>2, SaysEvents
<1>4. child' = [child EXCEPT ![r].pipe = p]
  OBVIOUS
<1> HIDE DEF p
<1>5. ChildSet(r, child[r].open, p)
  BY <1>3, <1>4, SetPipe
<1> QED BY <1>1, <1>2, <1>5, SetType DEF p

LEMMA OrderFits ==
  ASSUME stack \in Stacks(Layers), NEW order \in SetToSeqs(ToSet(stack))
  PROVE  /\ order \in Seq(Layers) /\ ToSet(order) = ToSet(stack)
         /\ Ons(order) \in Seq(LayerEvents) /\ Len(Ons(order)) <= PipeCap
<1>1. /\ order \in Seq(Layers) /\ Len(order) <= Cardinality(Layers)
      /\ ToSet(order) = ToSet(stack)
  BY DirectAssumption, OrdersAre
<1>2. Cardinality(Layers) \in Nat /\ PipeCap \in Nat /\ Cardinality(Layers) <= PipeCap
  BY DirectAssumption, FS_CardinalityType
<1>3. Ons(order) \in Seq(LayerEvents) /\ Len(Ons(order)) = Len(order)
  <2>1. \A i \in 1 .. Len(order) : On(order[i]) \in LayerEvents
    BY <1>1, EventsAre
  <2> QED BY <1>1, <2>1 DEF Ons
<1>4. Len(order) \in Nat
  BY <1>1
<1> QED BY <1>1, <1>2, <1>3, <1>4

LEMMA PostsIn ==
  /\ \A s \in Stacks(Layers) : State(TRUE, s) \in Posts
  /\ State(FALSE, <<>>) \in Posts
  /\ \A b \in BOOLEAN : Connected(b) \in Posts
  /\ \A ev \in KeyEvents : Press(ev) \in Posts
BY DEF Posts

RestType ==
  /\ up \in BOOLEAN /\ stack \in Stacks(Layers) /\ down \subseteq Keys
  /\ reading \in [Readers -> BOOLEAN]
  /\ active \in Stacks(Layers)
  /\ posts \in Seq(Posts)
  /\ win \in Windows
  /\ ~win.live => win.view = <<>>
  /\ changes \in 0..MaxChanges /\ losses \in 0..MaxLosses

LEMMA TypesAre == TypeOK <=> ChildType /\ RestType
BY DEF TypeOK, ChildType, RestType

\* A post after a closure of Posts.
LEMMA PostIs ==
  ASSUME TypeOK, NEW p \in Posts, Post(p), win' = win
  PROVE  posts' \in Seq(Posts) /\ Coming' = Shown(Coming, p)
<1>1. posts \in Seq(Posts) /\ posts' = Append(posts, p)
  BY DEF TypeOK, Post
<1> QED BY <1>1, ComingPost

LEMMA SwitchTypes ==
  ASSUME TypeOK, NEW l \in Layers, SwitchLayer(l) PROVE TypeOK'
<1> DEFINE ev == IF Contains(stack, l) THEN Off(l) ELSE On(l)
<1>1. ev \in Says("layers") /\ ev.name = l
  BY EventsAre DEF Says, On, Off
<1>2. Emit("layers", ev) /\ stack' = ApplyLayer(stack, ev)
  BY DEF SwitchLayer
<1>3. /\ changes < MaxChanges /\ changes' = changes + 1
      /\ UNCHANGED <<up, down, reading, active, posts, win, losses>>
  BY DEF SwitchLayer, Change, threadVars
<1> HIDE DEF ev
<1>4. ChildType'
  BY <1>1, <1>2, TypesAre, EmitIs DEF Readers
<1>5. stack' \in Stacks(Layers)
  BY <1>1, <1>2, DirectAssumption, ApplyLayerIs DEF TypeOK
<1>6. changes' \in 0 .. MaxChanges
  BY <1>3, DirectAssumption DEF TypeOK
<1>7. RestType'
  BY <1>3, <1>5, <1>6, TypesAre DEF RestType
<1> QED BY <1>4, <1>7 DEF TypeOK, ChildType, RestType

LEMMA PressTypes ==
  ASSUME TypeOK, NEW k \in Keys, PressOrRelease(k) PROVE TypeOK'
<1> DEFINE ev == IF k \in down THEN Up(k) ELSE Down(k)
<1>1. ev \in Says("keys") /\ ev \in KeyEvents
  BY EventsAre DEF Says
<1>2. Emit("keys", ev) /\ down' = PressKey(down, ev)
  BY DEF PressOrRelease
<1>3. /\ changes < MaxChanges /\ changes' = changes + 1
      /\ UNCHANGED <<up, stack, reading, active, posts, win, losses>>
  BY DEF PressOrRelease, Change, threadVars
<1> HIDE DEF ev
<1>4. ChildType'
  BY <1>1, <1>2, TypesAre, EmitIs DEF Readers
<1>5. down' \subseteq Keys
  BY <1>1, <1>2, PressKeyType DEF TypeOK
<1>6. changes' \in 0 .. MaxChanges
  BY <1>3, DirectAssumption DEF TypeOK
<1>7. RestType'
  BY <1>3, <1>5, <1>6, TypesAre DEF RestType
<1> QED BY <1>4, <1>7 DEF TypeOK, ChildType, RestType

LEMMA KeydTypes ==
  ASSUME TypeOK, KeydStops \/ KeydStarts \/ \E r \in Readers : ChildDies(r)
  PROVE  TypeOK'
<1>1. CASE KeydStops
  <2>1. ChildSet("layers", FALSE, child["layers"].pipe)
    BY <1>1, TypesAre, SetOpen DEF KeydStops, Readers
  <2>2. ChildType'
    BY <2>1, TypesAre, SetType DEF ChildType, Readers
  <2>3. losses' \in 0 .. MaxLosses /\ <<>> \in Stacks(Layers)
    BY <1>1, DirectAssumption, EmptyStack DEF KeydStops, Lose, TypeOK
  <2>4. RestType'
    BY <1>1, <2>3, TypesAre DEF KeydStops, threadVars, RestType
  <2> QED BY <2>2, <2>4 DEF TypeOK, ChildType, RestType
<1>2. CASE KeydStarts
  BY <1>2 DEF KeydStarts, threadVars, TypeOK
<1>3. CASE \E r \in Readers : ChildDies(r)
  <2>1. PICK r \in Readers : ChildDies(r)
    BY <1>3
  <2>2. ChildSet(r, FALSE, child[r].pipe)
    BY <2>1, TypesAre, SetOpen DEF ChildDies
  <2>3. ChildType'
    BY <2>2, TypesAre, SetType DEF ChildType
  <2>4. losses' \in 0 .. MaxLosses
    BY <2>1, DirectAssumption DEF ChildDies, Lose, TypeOK
  <2>5. RestType'
    BY <2>1, <2>4, TypesAre DEF ChildDies, threadVars, RestType
  <2> QED BY <2>3, <2>5 DEF TypeOK, ChildType, RestType
<1> QED BY <1>1, <1>2, <1>3

LEMMA ListenTypes ==
  ASSUME TypeOK, ListenThread PROVE TypeOK'
<1>1. CASE SpawnListen
  <2>1. PICK order \in SetToSeqs(ToSet(stack)) :
          child' = [child EXCEPT !["layers"] = [open |-> TRUE, pipe |-> Ons(order)]]
    BY <1>1 DEF SpawnListen
  <2>2. Ons(order) \in Seq(Says("layers")) /\ Len(Ons(order)) <= PipeCap
    BY OrderFits DEF TypeOK, Says
  <2>3. ChildType'
    BY <2>1, <2>2, TypesAre, SaysEvents, SetChild, SetType DEF Readers
  <2>4. posts' \in Seq(Posts) /\ <<>> \in Stacks(Layers)
    BY <1>1, PostIs, PostsIn, EmptyStack, DirectAssumption DEF SpawnListen
  <2>5. RestType'
    BY <1>1, <2>4, TypesAre DEF SpawnListen, RestType
  <2> QED BY <2>3, <2>5 DEF TypeOK, ChildType, RestType
<1>2. CASE ReadLayer
  <2>1. ChildType' /\ Head(child["layers"].pipe) \in LayerEvents
    BY <1>2, TypesAre, ReadIs DEF ReadLayer, Readers, Says
  <2>2. active' \in Stacks(Layers)
    BY <1>2, <2>1, EventsAre, ApplyLayerIs, DirectAssumption DEF ReadLayer, TypeOK
  <2>3. posts' \in Seq(Posts)
    BY <1>2, <2>2, PostIs, PostsIn DEF ReadLayer
  <2>4. RestType'
    BY <1>2, <2>2, <2>3, TypesAre DEF ReadLayer, RestType
  <2> QED BY <2>1, <2>4 DEF TypeOK, ChildType, RestType
<1>3. CASE ListenEnds
  <2>1. posts' \in Seq(Posts)
    BY <1>3, PostIs, PostsIn DEF ListenEnds
  <2>2. ChildType'
    BY <1>3, TypesAre DEF ListenEnds, ChildType
  <2>3. RestType'
    BY <1>3, <2>1, TypesAre DEF ListenEnds, RestType
  <2> QED BY <2>2, <2>3 DEF TypeOK, ChildType, RestType
<1> QED BY <1>1, <1>2, <1>3 DEF ListenThread

LEMMA MonitorTypes ==
  ASSUME TypeOK, MonitorThread PROVE TypeOK'
<1>1. CASE SpawnMonitor
  <2>1. ChildSet("keys", TRUE, child["keys"].pipe)
    BY <1>1, TypesAre, SetOpen DEF SpawnMonitor, Readers
  <2>2. ChildType'
    BY <2>1, TypesAre, SetType DEF ChildType, Readers
  <2>3. posts' \in Seq(Posts)
    BY <1>1, PostIs, PostsIn DEF SpawnMonitor
  <2>4. RestType'
    BY <1>1, <2>3, TypesAre DEF SpawnMonitor, RestType
  <2> QED BY <2>2, <2>4 DEF TypeOK, ChildType, RestType
<1>2. CASE ReadKey
  <2>1. ChildType' /\ Head(child["keys"].pipe) \in KeyEvents
    BY <1>2, TypesAre, ReadIs DEF ReadKey, Readers, Says
  <2>2. posts' \in Seq(Posts)
    BY <1>2, <2>1, PostIs, PostsIn DEF ReadKey
  <2>3. RestType'
    BY <1>2, <2>2, TypesAre DEF ReadKey, RestType
  <2> QED BY <2>1, <2>3 DEF TypeOK, ChildType, RestType
<1>3. CASE MonitorEnds
  <2>1. posts' \in Seq(Posts)
    BY <1>3, PostIs, PostsIn DEF MonitorEnds
  <2>2. ChildType'
    BY <1>3, TypesAre DEF MonitorEnds, ChildType
  <2>3. RestType'
    BY <1>3, <2>1, TypesAre DEF MonitorEnds, RestType
  <2> QED BY <2>2, <2>3 DEF TypeOK, ChildType, RestType
<1> QED BY <1>1, <1>2, <1>3 DEF MonitorThread

LEMMA RunTypes ==
  ASSUME TypeOK, RunPost PROVE TypeOK'
<1>1. posts \in Seq(Posts) /\ posts # <<>> /\ posts' = Tail(posts) /\ win' = Shown(win, Head(posts))
  BY DEF RunPost, TypeOK
<1>2. Head(posts) \in Posts /\ posts' \in Seq(Posts)
  BY <1>1
<1>3. win' \in Windows
  BY <1>1, <1>2, ShownType DEF TypeOK
<1>4. ~win'.live => win'.view = <<>>
  <2> DEFINE p == Head(posts)
  <2>1. CASE p.post = "layers"
    BY <1>1, <1>2, <2>1, PostsAre DEF Shown, TypeOK, Windows
  <2>2. CASE p.post = "connection"
    BY <1>1, <1>2, <2>2, PostsAre DEF Shown, TypeOK, Windows
  <2>3. CASE p.post = "key"
    BY <1>1, <1>2, <2>3, PostsAre DEF Shown, TypeOK, Windows
  <2> QED BY <1>2, <2>1, <2>2, <2>3, PostsAre
<1> QED BY <1>2, <1>3, <1>4 DEF RunPost, TypeOK

LEMMA TypeStep ==
  ASSUME TypeOK, [Next]_vars PROVE TypeOK'
<1>1. CASE UNCHANGED vars
  BY <1>1 DEF vars, TypeOK
<1> QED BY <1>1, SwitchTypes, PressTypes, KeydTypes, ListenTypes, MonitorTypes, RunTypes
        DEF Next

-----------------------------------------------------------------------------
(* keyd's steps: what it prints is in the pipe.                            *)

LEMMA ComingSame ==
  ASSUME UNCHANGED <<posts, win>> PROVE Coming' = Coming
BY DEF Coming

LEMMA SwitchStep ==
  ASSUME IInv, NEW l \in Layers, SwitchLayer(l) PROVE IInv'
<1> DEFINE ev == IF Contains(stack, l) THEN Off(l) ELSE On(l)
           pipe == child["layers"].pipe
<1>1. ev \in Says("layers") /\ ev \in LayerEvents /\ IsLayer(ev) /\ ev.name \in Layers
  BY EventsAre DEF Says
<1>2. Emit("layers", ev) /\ stack' = ApplyLayer(stack, ev)
  BY DEF SwitchLayer
<1>3. UNCHANGED <<up, down, reading, active, posts, win>> /\ up
  BY DEF SwitchLayer, threadVars
<1> HIDE DEF ev
<1>4. TypeOK' /\ TypeOK /\ ChildType
  BY SwitchTypes, TypesAre DEF IInv
<1>5. Coming' = Coming
  BY <1>3, ComingSame
<1>6. /\ child["layers"].open => ChildSet("layers", TRUE, Append(pipe, ev))
      /\ ~child["layers"].open => child' = child
  BY <1>1, <1>2, <1>4, EmitIs DEF Readers
<1>7. ChildrenAreRead'
  BY <1>3, <1>6 DEF IInv, ChildrenAreRead, ChildSet, Readers, Ended
<1>8. PostsTell'
  BY <1>3, <1>5 DEF IInv, PostsTell
<1>9. LayersFollow'
  <2> SUFFICES ASSUME reading["layers"], child'["layers"].open
               PROVE  /\ Coming'.live
                      /\ ToSet(Reduce(Coming'.view, child'["layers"].pipe)) = ToSet(stack')
    BY <1>3 DEF LayersFollow
  <2>1. child["layers"].open /\ child'["layers"].pipe = Append(pipe, ev)
    BY <1>6 DEF ChildSet
  <2>2. Coming.live /\ ToSet(Reduce(Coming.view, pipe)) = ToSet(stack)
    BY <2>1 DEF IInv, LayersFollow
  <2>3. Coming.view \in Stacks(Layers) /\ pipe \in Seq(LayerEvents)
    BY <1>4, ComingType, PipesAre DEF Windows
  <2> DEFINE r == Reduce(Coming.view, pipe)
  <2>4. Reduce(Coming.view, Append(pipe, ev)) = LayerStep(r, ev) /\ r \in Stacks(Layers)
    BY <1>1, <2>3, EventsAre, ReduceAppend, ReduceType
  <2>5. LayerStep(r, ev) = ApplyLayer(r, ev)
    BY <1>1 DEF LayerStep
  <2>6. ToSet(r) = ToSet(stack)
    BY <2>2
  <2> HIDE DEF r, pipe
  <2>7. ToSet(ApplyLayer(r, ev)) =
          IF ev.act = "off" THEN ToSet(r) \ {ev.name} ELSE ToSet(r) \union {ev.name}
    BY <1>1, <2>4, DirectAssumption, ApplyLayerIs
  <2>8. ToSet(ApplyLayer(stack, ev)) =
          IF ev.act = "off" THEN ToSet(stack) \ {ev.name} ELSE ToSet(stack) \union {ev.name}
    BY <1>1, <1>4, DirectAssumption, ApplyLayerIs DEF TypeOK
  <2> QED BY <1>2, <1>5, <2>1, <2>2, <2>4, <2>5, <2>6, <2>7, <2>8
<1>10. KeysFollow'
  BY <1>3, <1>5, <1>6 DEF IInv, KeysFollow, ChildSet, Readers
<1> QED BY <1>4, <1>7, <1>8, <1>9, <1>10 DEF IInv

LEMMA PressStep ==
  ASSUME IInv, NEW k \in Keys, PressOrRelease(k) PROVE IInv'
<1> DEFINE ev == IF k \in down THEN Up(k) ELSE Down(k)
           pipe == child["keys"].pipe
<1>1. ev \in Says("keys") /\ ev \in KeyEvents /\ ~IsLayer(ev)
  BY EventsAre DEF Says
<1>2. Emit("keys", ev) /\ down' = PressKey(down, ev)
  BY DEF PressOrRelease
<1>3. UNCHANGED <<up, stack, reading, active, posts, win>>
  BY DEF PressOrRelease, threadVars
<1> HIDE DEF ev
<1>4. TypeOK' /\ TypeOK /\ ChildType
  BY PressTypes, TypesAre DEF IInv
<1>5. Coming' = Coming
  BY <1>3, ComingSame
<1>6. /\ child["keys"].open => ChildSet("keys", TRUE, Append(pipe, ev))
      /\ ~child["keys"].open => child' = child
  BY <1>1, <1>2, <1>4, EmitIs DEF Readers
<1>7. ChildrenAreRead'
  BY <1>3, <1>6 DEF IInv, ChildrenAreRead, ChildSet, Readers, Ended
<1>8. PostsTell'
  BY <1>3, <1>5 DEF IInv, PostsTell
<1>9. LayersFollow'
  BY <1>3, <1>5, <1>6 DEF IInv, LayersFollow, ChildSet, Readers
<1>10. KeysFollow'
  <2> SUFFICES ASSUME reading["keys"], child'["keys"].open
               PROVE  PressAll(Coming'.held, child'["keys"].pipe) \subseteq down'
    BY <1>3 DEF KeysFollow
  <2>1. child["keys"].open /\ child'["keys"].pipe = Append(pipe, ev)
    BY <1>6 DEF ChildSet
  <2>2. PressAll(Coming.held, pipe) \subseteq down
    BY <2>1 DEF IInv, KeysFollow
  <2>3. Coming.held \in SUBSET Keys /\ pipe \in Seq(KeyEvents)
    BY <1>4, ComingType, PipesAre DEF Windows
  <2>4. PressAll(Coming.held, Append(pipe, ev)) = PressKey(PressAll(Coming.held, pipe), ev)
    BY <1>1, <2>3, EventsAre, PressAllAppend DEF KeyStep
  <2> HIDE DEF pipe
  <2> QED BY <1>2, <1>5, <2>1, <2>2, <2>4 DEF PressKey
<1> QED BY <1>4, <1>7, <1>8, <1>9, <1>10 DEF IInv

LEMMA KeydStep ==
  ASSUME IInv, KeydStops \/ KeydStarts \/ \E r \in Readers : ChildDies(r)
  PROVE  IInv'
<1>1. TypeOK' /\ TypeOK /\ ChildType
  BY KeydTypes, TypesAre DEF IInv
<1>2. UNCHANGED <<down, reading, active, posts, win>>
  BY DEF KeydStops, KeydStarts, ChildDies, threadVars
<1>3. Coming' = Coming
  BY <1>2, ComingSame
<1>4. PostsTell'
  BY <1>2, <1>3 DEF IInv, PostsTell
<1>5. CASE KeydStops
  <2>1. ChildSet("layers", FALSE, child["layers"].pipe)
    BY <1>1, <1>5, SetOpen DEF KeydStops, Readers
  <2>2. ChildrenAreRead'
    BY <1>2, <2>1 DEF IInv, ChildrenAreRead, ChildSet, Children, Readers, Ended
  <2>3. LayersFollow' /\ KeysFollow'
    BY <1>2, <1>3, <2>1 DEF IInv, LayersFollow, KeysFollow, ChildSet, Readers
  <2> QED BY <1>1, <1>4, <2>2, <2>3 DEF IInv
<1>6. CASE KeydStarts
  BY <1>1, <1>2, <1>3, <1>4, <1>6
     DEF KeydStarts, IInv, ChildrenAreRead, LayersFollow, KeysFollow
<1>7. CASE \E r \in Readers : ChildDies(r)
  <2>1. PICK r \in Readers : ChildDies(r)
    BY <1>7
  <2>2. ChildSet(r, FALSE, child[r].pipe) /\ child[r].open /\ UNCHANGED <<up, stack>>
    BY <1>1, <2>1, SetOpen DEF ChildDies
  <2>3. ChildrenAreRead'
    BY <1>2, <2>2 DEF IInv, ChildrenAreRead, ChildSet, Readers, Ended
  <2>4. LayersFollow' /\ KeysFollow'
    BY <1>2, <1>3, <2>2 DEF IInv, LayersFollow, KeysFollow, ChildSet, Readers
  <2> QED BY <1>1, <1>4, <2>3, <2>4 DEF IInv
<1> QED BY <1>5, <1>6, <1>7

-----------------------------------------------------------------------------
(* The threads' steps: what is read goes from the pipe into the posts.     *)

LEMMA SpawnListenStep ==
  ASSUME IInv, SpawnListen PROVE IInv'
<1>1. TypeOK' /\ TypeOK /\ ChildType
  BY ListenTypes, TypesAre DEF IInv, ListenThread
<1>2. PICK order \in SetToSeqs(ToSet(stack)) :
        child' = [child EXCEPT !["layers"] = [open |-> TRUE, pipe |-> Ons(order)]]
  BY DEF SpawnListen
<1>3. /\ order \in Seq(Layers) /\ ToSet(order) = ToSet(stack)
      /\ Ons(order) \in Seq(Says("layers")) /\ Ons(order) \in Seq(LayerEvents)
  BY <1>1, OrderFits DEF TypeOK, Says
<1>4. ChildSet("layers", TRUE, Ons(order))
  BY <1>1, <1>2, <1>3, SaysEvents, SetChild DEF Readers
<1>5. /\ up /\ UNCHANGED <<up, stack, down, win>> /\ active' = <<>>
      /\ reading' = [reading EXCEPT !["layers"] = TRUE]
      /\ Post(State(TRUE, <<>>))
  BY DEF SpawnListen
<1>7. /\ Coming'.live = TRUE /\ Coming'.view = <<>> /\ Coming'.held = Coming.held
  <2>1. Coming' = Shown(Coming, State(TRUE, <<>>)) /\ <<>> \in Stacks(Layers)
    BY <1>1, <1>5, PostIs, PostsIn, EmptyStack, DirectAssumption
  <2> QED BY <1>1, <2>1, ComingType, ShownState
<1>8. ChildrenAreRead'
  BY <1>1, <1>4, <1>5 DEF IInv, ChildrenAreRead, ChildSet, Children, Readers, Ended, TypeOK
<1>9. PostsTell'
  BY <1>1, <1>5, <1>7 DEF IInv, PostsTell, TypeOK, Readers
<1>10. LayersFollow'
  <2> DEFINE none == <<>>
  <2>0. none \in Stacks(Layers) /\ ToSet(none) = {}
    BY EmptyStack, DirectAssumption
  <2>1. ToSet(Reduce(<<>>, Ons(order))) = ToSet(stack)
    <3> HIDE DEF none
    <3>1. \A base \in Stacks(Layers), ord \in Seq(Layers) :
            ToSet(Reduce(base, Ons(ord))) = ToSet(base) \union ToSet(ord)
      BY ReduceOns, DirectAssumption
    <3>2. ToSet(Reduce(none, Ons(order))) = ToSet(none) \union ToSet(order)
      BY <1>3, <2>0, <3>1
    <3>3. ToSet(Reduce(none, Ons(order))) = ToSet(stack)
      BY <1>3, <2>0, <3>2
    <3> QED BY <3>3 DEF none
  <2> QED BY <1>4, <1>5, <1>7, <2>1 DEF LayersFollow, ChildSet
<1>11. KeysFollow'
  BY <1>1, <1>4, <1>5, <1>7 DEF IInv, KeysFollow, ChildSet, Readers, TypeOK
<1> QED BY <1>1, <1>8, <1>9, <1>10, <1>11 DEF IInv

LEMMA ReadLayerStep ==
  ASSUME IInv, ReadLayer PROVE IInv'
<1> DEFINE pipe == child["layers"].pipe
           ev == Head(pipe)
<1>1. TypeOK' /\ TypeOK /\ ChildType
  BY ListenTypes, TypesAre DEF IInv, ListenThread
<1>2. /\ ChildSet("layers", child["layers"].open, Tail(pipe))
      /\ pipe \in Seq(LayerEvents) /\ ev \in LayerEvents /\ pipe # <<>>
  BY <1>1, ReadIs DEF ReadLayer, Readers, Says
<1>3. /\ reading["layers"] /\ UNCHANGED <<up, stack, down, reading, win>>
      /\ active' = ApplyLayer(active, ev) /\ Post(State(TRUE, active'))
  BY DEF ReadLayer
<1>4. /\ active' \in Stacks(Layers) /\ active \in Stacks(Layers)
      /\ active' = LayerStep(active, ev)
  BY <1>1, <1>2, <1>3, EventsAre DEF TypeOK, LayerStep
<1>5. Coming'.live = TRUE /\ Coming'.view = active' /\ Coming'.held = Coming.held
  <2>1. Coming' = Shown(Coming, State(TRUE, active'))
    BY <1>1, <1>3, <1>4, PostIs, PostsIn
  <2> QED BY <1>1, <1>4, <2>1, ComingType, ShownState
<1>6. ChildrenAreRead'
  BY <1>2, <1>3 DEF IInv, ChildrenAreRead, ChildSet, Children, Readers, Ended
<1>7. PostsTell'
  BY <1>3, <1>5 DEF IInv, PostsTell
<1>8. LayersFollow'
  <2>1. Reduce(active, pipe) = Reduce(active', Tail(pipe))
    BY <1>2, <1>4, EventsAre, ReduceHead
  <2>2. Coming.view = active
    BY <1>3 DEF IInv, PostsTell
  <2> QED BY <1>2, <1>3, <1>5, <2>1, <2>2 DEF IInv, LayersFollow, ChildSet
<1>9. KeysFollow'
  BY <1>2, <1>3, <1>5 DEF IInv, KeysFollow, ChildSet, Readers
<1> QED BY <1>1, <1>6, <1>7, <1>8, <1>9 DEF IInv

LEMMA ListenEndsStep ==
  ASSUME IInv, ListenEnds PROVE IInv'
<1>1. TypeOK' /\ TypeOK
  BY ListenTypes DEF IInv, ListenThread
<1>2. /\ UNCHANGED <<up, stack, down, child, active, win>> /\ child["layers"] = Ended
      /\ reading' = [reading EXCEPT !["layers"] = FALSE]
      /\ Post(State(FALSE, <<>>))
  BY DEF ListenEnds
<1>3. Coming'.live = FALSE /\ Coming'.view = <<>> /\ Coming'.held = Coming.held
  <2>1. Coming' = Shown(Coming, State(FALSE, <<>>)) /\ <<>> \in Stacks(Layers)
    BY <1>1, <1>2, PostIs, PostsIn, EmptyStack, DirectAssumption
  <2> QED BY <1>1, <2>1, ComingType, ShownState
<1>4. ChildrenAreRead'
  BY <1>1, <1>2 DEF IInv, ChildrenAreRead, Readers, Ended, TypeOK
<1>5. PostsTell'
  BY <1>1, <1>2, <1>3 DEF IInv, PostsTell, TypeOK, Readers
<1>6. LayersFollow' /\ KeysFollow'
  BY <1>1, <1>2, <1>3 DEF IInv, LayersFollow, KeysFollow, TypeOK, Readers, Ended
<1> QED BY <1>1, <1>4, <1>5, <1>6 DEF IInv

LEMMA SpawnMonitorStep ==
  ASSUME IInv, SpawnMonitor PROVE IInv'
<1>1. TypeOK' /\ TypeOK /\ ChildType
  BY MonitorTypes, TypesAre DEF IInv, MonitorThread
<1>2. /\ UNCHANGED <<up, stack, down, active, win>> /\ ~reading["keys"]
      /\ reading' = [reading EXCEPT !["keys"] = TRUE]
      /\ Post(Connected(TRUE))
  BY DEF SpawnMonitor
<1>3. ChildSet("keys", TRUE, <<>>)
  <2>1. ChildSet("keys", TRUE, child["keys"].pipe)
    BY <1>1, SetOpen DEF SpawnMonitor, Readers
  <2>2. child["keys"].pipe = <<>>
    BY <1>2 DEF IInv, ChildrenAreRead, Ended, Readers
  <2> QED BY <2>1, <2>2
<1>4. /\ Coming'.live = Coming.live /\ Coming'.view = Coming.view /\ Coming'.held = {}
  <2>1. Coming' = Shown(Coming, Connected(TRUE))
    BY <1>1, <1>2, PostIs, PostsIn
  <2> QED BY <1>1, <1>2, <2>1, ComingType, ShownConnected DEF IInv, PostsTell
<1>5. ChildrenAreRead'
  BY <1>1, <1>2, <1>3 DEF IInv, ChildrenAreRead, ChildSet, Children, Readers, Ended, TypeOK
<1>6. PostsTell'
  BY <1>1, <1>2, <1>4 DEF IInv, PostsTell, TypeOK, Readers
<1>7. LayersFollow'
  BY <1>1, <1>2, <1>3, <1>4 DEF IInv, LayersFollow, ChildSet, TypeOK, Readers
<1>8. KeysFollow'
  <2>1. PressAll({}, <<>>) = {}
    BY EventsAre, PressAllEmpty
  <2> QED BY <1>3, <1>4, <2>1 DEF KeysFollow, ChildSet
<1> QED BY <1>1, <1>5, <1>6, <1>7, <1>8 DEF IInv

LEMMA ReadKeyStep ==
  ASSUME IInv, ReadKey PROVE IInv'
<1> DEFINE pipe == child["keys"].pipe
           ev == Head(pipe)
<1>1. TypeOK' /\ TypeOK /\ ChildType
  BY MonitorTypes, TypesAre DEF IInv, MonitorThread
<1>2. /\ ChildSet("keys", child["keys"].open, Tail(pipe))
      /\ pipe \in Seq(KeyEvents) /\ ev \in KeyEvents /\ pipe # <<>>
  BY <1>1, ReadIs DEF ReadKey, Readers, Says
<1>3. /\ reading["keys"] /\ UNCHANGED <<up, stack, down, reading, active, win>>
      /\ Post(Press(ev))
  BY DEF ReadKey
<1>4. /\ Coming'.live = Coming.live /\ Coming'.view = Coming.view
      /\ Coming'.held = KeyStep(Coming.held, ev)
  <2>1. Coming' = Shown(Coming, Press(ev))
    BY <1>1, <1>2, <1>3, PostIs, PostsIn
  <2> QED BY <1>1, <1>2, <2>1, ComingType, ShownPress, EventsAre DEF KeyStep
<1>5. ChildrenAreRead'
  BY <1>2, <1>3 DEF IInv, ChildrenAreRead, ChildSet, Children, Readers, Ended
<1>6. PostsTell'
  BY <1>3, <1>4 DEF IInv, PostsTell
<1>7. LayersFollow'
  BY <1>2, <1>3, <1>4 DEF IInv, LayersFollow, ChildSet, Readers
<1>8. KeysFollow'
  <2>1. PressAll(Coming.held, pipe) = PressAll(KeyStep(Coming.held, ev), Tail(pipe))
    BY <1>1, <1>2, ComingType, EventsAre, PressAllHead DEF Windows
  <2> QED BY <1>2, <1>3, <1>4, <2>1 DEF IInv, KeysFollow, ChildSet
<1> QED BY <1>1, <1>5, <1>6, <1>7, <1>8 DEF IInv

LEMMA MonitorEndsStep ==
  ASSUME IInv, MonitorEnds PROVE IInv'
<1>1. TypeOK' /\ TypeOK
  BY MonitorTypes DEF IInv, MonitorThread
<1>2. /\ UNCHANGED <<up, stack, down, child, active, win>> /\ child["keys"] = Ended
      /\ reading' = [reading EXCEPT !["keys"] = FALSE]
      /\ Post(Connected(FALSE))
  BY DEF MonitorEnds
<1>3. Coming'.live = Coming.live /\ Coming'.view = Coming.view /\ Coming'.held = {}
  <2>1. Coming' = Shown(Coming, Connected(FALSE))
    BY <1>1, <1>2, PostIs, PostsIn
  <2> QED BY <1>1, <2>1, ComingType, ShownConnected
<1>4. ChildrenAreRead'
  BY <1>1, <1>2 DEF IInv, ChildrenAreRead, Readers, Ended, TypeOK
<1>5. PostsTell'
  BY <1>1, <1>2, <1>3 DEF IInv, PostsTell, TypeOK, Readers
<1>6. LayersFollow' /\ KeysFollow'
  BY <1>1, <1>2, <1>3 DEF IInv, LayersFollow, KeysFollow, TypeOK, Readers, Ended
<1> QED BY <1>1, <1>4, <1>5, <1>6 DEF IInv

LEMMA RunPostStep ==
  ASSUME IInv, RunPost PROVE IInv'
<1>1. TypeOK' /\ Coming' = Coming
  BY RunTypes, ComingRun DEF IInv
<1>2. UNCHANGED <<up, stack, down, child, reading, active>>
  BY DEF RunPost
<1> QED BY <1>1, <1>2 DEF IInv, ChildrenAreRead, PostsTell, LayersFollow, KeysFollow

-----------------------------------------------------------------------------
(* The theorem.                                                            *)

LEMMA InitInv == Init => IInv
<1> SUFFICES ASSUME Init PROVE IInv
  OBVIOUS
<1>1. <<>> \in Stacks(Layers)
  BY DirectAssumption, EmptyStack
<1>2. posts = <<>> /\ win \in Windows /\ ~reading["layers"] /\ ~reading["keys"]
  BY <1>1 DEF Init, Windows, Readers
<1>3. Coming = win
  BY <1>2, ShownAllEmpty DEF Coming
<1>4. TypeOK
  <2>1. ChildType
    <3>1. \A r \in Readers : child[r].open = FALSE /\ child[r].pipe = <<>>
      BY DEF Init, Ended
    <3>2. child \in [Readers -> Children]
      BY DEF Init, Ended, Children
    <3>3. Len(<<>>) <= PipeCap
      BY DirectAssumption
    <3>4. \A r \in Readers : <<>> \in Seq(Says(r))
      OBVIOUS
    <3> QED BY <3>1, <3>2, <3>3, <3>4 DEF ChildType, Children
  <2>2. RestType
    BY <1>1, <1>2, DirectAssumption DEF Init, RestType
  <2> QED BY <2>1, <2>2, TypesAre
<1>5. PostsTell /\ ChildrenAreRead
  BY <1>2, <1>3 DEF Init, PostsTell, ChildrenAreRead, Ended, Readers
<1> QED BY <1>2, <1>4, <1>5 DEF IInv, LayersFollow, KeysFollow

LEMMA NextInv == IInv /\ [Next]_vars => IInv'
<1> SUFFICES ASSUME IInv, [Next]_vars PROVE IInv'
  OBVIOUS
<1>1. CASE UNCHANGED vars
  <2>1. TypeOK' /\ Coming' = Coming
    BY <1>1, TypeStep DEF IInv, vars, Coming
  <2> QED BY <1>1, <2>1
          DEF vars, IInv, ChildrenAreRead, PostsTell, LayersFollow, KeysFollow
<1> QED BY <1>1, SwitchStep, PressStep, KeydStep, SpawnListenStep, ReadLayerStep,
           ListenEndsStep, SpawnMonitorStep, ReadKeyStep, MonitorEndsStep, RunPostStep
        DEF Next, ListenThread, MonitorThread

\* Whatever keyd and its children do, a window fed by the reader threads lags
\* behind keyd by what is in the queues and nothing else (run_listen,
\* run_monitor, spawn_live, spawn_monitor).
THEOREM WindowFollowsKeyd == Spec => []WindowFollows
<1>1. IInv => WindowFollows
  BY DEF IInv, WindowFollows
<1> QED BY <1>1, InitInv, NextInv, PTL DEF Spec

-----------------------------------------------------------------------------
(* KeyGlow, for any keyboards, sheets and device map.                      *)

USE GlowAssumption DEF GlowAssumption

\* No event leaves the typing: what is taken for held has a sheet of origin, a
\* capture is armed in edit mode only, and the view stays on a sheet.
THEOREM GlowTyping == GlowSpec => []GlowTypeOK
<1>1. GlowInit => GlowTypeOK
  <2> SUFFICES ASSUME GlowInit PROVE GlowTypeOK
    OBVIOUS
  <2>1. MaxStrikes \in Nat /\ MaxQueue \in Nat
    OBVIOUS
  <2>2. held = {} /\ origin \in [{} -> Sheets \union {AnySheet}]
    BY DEF GlowInit
  <2>3. queue \in Seq(Events) /\ Len(queue) <= MaxQueue
    BY <2>1 DEF GlowInit
  <2>4. strikes \in 0..MaxStrikes
    BY <2>1 DEF GlowInit
  <2> QED BY <2>2, <2>3, <2>4 DEF GlowInit, GlowTypeOK
<1>2. GlowTypeOK /\ [GlowNext]_glowVars => GlowTypeOK'
  <2> SUFFICES ASSUME GlowTypeOK, [GlowNext]_glowVars PROVE GlowTypeOK'
    OBVIOUS
  <2> USE DEF GlowTypeOK
  <2>1. ASSUME NEW b \in Keyboards, NEW k \in KeyNames, NEW act \in {"down", "up", "repeat"},
               Send(b, k, act)
        PROVE  queue' \in Seq(Events) /\ Len(queue') <= MaxQueue
    BY <2>1 DEF Send, Events
  <2>2. ASSUME NEW b \in Keyboards, NEW k \in KeyNames, Strike(b, k)
        PROVE  GlowTypeOK'
    <3>1. CASE <<b, k>> \in struck
      <4>1. Send(b, k, "up") /\ struck' = struck \ {<<b, k>>} /\ strikes' \in 0..MaxStrikes
        BY <2>2, <3>1 DEF Strike
      <4> QED BY <4>1, <2>1 DEF Send
    <3>2. CASE <<b, k>> \notin struck
      <4>1. Send(b, k, "down") /\ strikes' \in 0..MaxStrikes
        BY <2>2, <3>2 DEF Strike
      <4>2. struck' \subseteq Keyboards \X KeyNames
        BY <2>2, <3>2 DEF Strike
      <4>3. queue' \in Seq(Events) /\ Len(queue') <= MaxQueue
        BY <4>1, <2>1
      <4> QED BY <4>1, <4>2, <4>3 DEF Send
    <3> QED BY <3>1, <3>2
  <2>3. ASSUME NEW b \in Keyboards, NEW k \in KeyNames, AutoRepeat(b, k)
        PROVE  GlowTypeOK'
    <3>1. Send(b, k, "repeat") /\ struck' = struck /\ strikes' \in 0..MaxStrikes
      BY <2>3 DEF AutoRepeat
    <3> QED BY <3>1, <2>1 DEF Send
  <2>4. queue # <<>> => /\ Head(queue) \in Events
                        /\ Tail(queue) \in Seq(Events) /\ Len(Tail(queue)) <= MaxQueue
    OBVIOUS
  <2>5. CASE Capture
    <3>1. armed' \in BOOLEAN /\ editing' = editing /\ editing
      BY <2>5 DEF Capture, Capturing
    <3>2. eaten' \subseteq KeyNames
      BY <2>5, <2>4 DEF Capture, Events
    <3> QED BY <2>4, <2>5, <3>1, <3>2 DEF Capture
  <2>6. CASE HandleKey
    <3> DEFINE ev == Head(queue)
    <3>1. ev \in Events /\ ev.key \in KeyNames
      BY <2>4, <2>6 DEF HandleKey, Events
    <3>2. Target(ev) \in Sheets /\ From(ev) \in Sheets \union {AnySheet}
      BY <3>1 DEF Target, From, Events
    <3>3. Pressed(ev) \subseteq KeyNames /\ Pressed(ev) \subseteq held \union {ev.key}
      BY <3>1 DEF Pressed
    <3>4. /\ shown' \in Sheets
          /\ held' = Pressed(ev)
          /\ origin' = [k \in held' |-> IF k = ev.key THEN From(ev) ELSE origin[k]]
          /\ eaten' \subseteq KeyNames
      BY <2>6, <3>1, <3>2 DEF HandleKey
    <3>5. until' \subseteq KeyNames /\ lit' \subseteq KeyNames
      BY <2>6, <3>1, <3>3 DEF HandleKey, Glow
    <3>6. origin' \in [held' -> Sheets \union {AnySheet}]
      BY <3>2, <3>3, <3>4
    <3>7. UNCHANGED <<struck, strikes, editing, armed>> /\ queue' = Tail(queue) /\ queue # <<>>
      BY <2>6 DEF HandleKey
    <3> QED BY <2>4, <3>3, <3>4, <3>5, <3>6, <3>7
  <2>7. CASE Decay
    BY <2>7 DEF Decay, Glow
  <2>8. CASE ToggleEdit
    BY <2>8 DEF ToggleEdit
  <2>9. CASE ArmCapture
    BY <2>9 DEF ArmCapture
  <2>10. CASE \E i \in Sheets : PickKeyboard(i)
    BY <2>10 DEF PickKeyboard
  <2>11. CASE UNCHANGED glowVars
    BY <2>11 DEF glowVars
  <2> QED BY <2>2, <2>3, <2>5, <2>6, <2>7, <2>8, <2>9, <2>10, <2>11 DEF GlowNext
<1> QED BY <1>1, <1>2, PTL DEF GlowSpec

\* Following the keyboards carries no key to another sheet: a key whose keyboard
\* switches the view takes the place of what was held.
THEOREM GlowFollowsSheet == GlowSpec => StraysComeByHand
<1> DEFINE NewStray(k) == Stray(k)' /\ ~(k \in held /\ Stray(k))
           ByHand == editing \/ (shown' # shown /\ queue' = queue)
<1>1. GlowTypeOK /\ [GlowNext]_glowVars => [\A k \in held' : NewStray(k) => ByHand]_glowVars
  <2> SUFFICES ASSUME GlowTypeOK, GlowNext, NEW k \in held', NewStray(k) PROVE ByHand
    OBVIOUS
  <2>1. ~ UNCHANGED <<held, origin, shown>>
    BY DEF Stray
  <2>2. CASE HandleKey
    <3> SUFFICES ASSUME ~editing PROVE FALSE
      OBVIOUS
    <3> DEFINE ev == Head(queue)
    <3>1. /\ shown' = Target(ev)
          /\ held' = Pressed(ev)
          /\ origin' = [j \in held' |-> IF j = ev.key THEN From(ev) ELSE origin[j]]
      BY <2>2 DEF HandleKey
    <3>2. k # ev.key
      BY <3>1 DEF From, Target, Stray
    <3>3. k \in held /\ Target(ev) = shown
      BY <3>1, <3>2 DEF Pressed
    <3> QED BY <3>1, <3>2, <3>3 DEF Stray
  <2>3. CASE \E i \in Sheets : PickKeyboard(i)
    BY <2>1, <2>3 DEF PickKeyboard
  <2>4. CASE \E b \in Keyboards, j \in KeyNames : Strike(b, j) \/ AutoRepeat(b, j)
    BY <2>1, <2>4 DEF Strike, AutoRepeat, Send
  <2>5. CASE Capture \/ Decay \/ ToggleEdit \/ ArmCapture
    BY <2>1, <2>5 DEF Capture, Decay, ToggleEdit, ArmCapture
  <2> QED BY <2>2, <2>3, <2>4, <2>5 DEF GlowNext
<1>2. [\A k \in held' : NewStray(k) => ByHand]_glowVars
        => [\A k \in held' :
              Stray(k)' => \/ k \in held /\ Stray(k)
                           \/ editing
                           \/ shown' # shown /\ queue' = queue]_glowVars
  OBVIOUS
<1> QED BY <1>1, <1>2, GlowTyping, PTL DEF GlowSpec, StraysComeByHand

-----------------------------------------------------------------------------

\* k is no longer held by any keyboard, and the window knows or will know: its
\* last event in the queue is an up, or none is left and k is not held or its
\* up was eaten.
UpIsLast(q, k) ==
  \E i \in DOMAIN q :
    /\ q[i].key = k /\ q[i].act = "up"
    /\ \A j \in DOMAIN q : j > i => q[j].key # k

LetGo(k) ==
  \/ UpIsLast(queue, k)
  \/ /\ \A i \in DOMAIN queue : queue[i].key # k
     /\ k \in held => k \in eaten

AllLetGo == \A k \in KeyNames \ Physical : LetGo(k)

\* An event of another key behind the queue changes nothing for k, and an up of
\* k is its last event.
LEMMA Behind ==
  ASSUME NEW q \in Seq(Events), NEW ev \in Events, NEW k
  PROVE  LET new == Append(q, ev) IN
         /\ ev.key = k /\ ev.act = "up" => UpIsLast(new, k)
         /\ ev.key # k /\ UpIsLast(q, k) => UpIsLast(new, k)
         /\ ev.key # k /\ (\A i \in DOMAIN q : q[i].key # k)
              => \A i \in DOMAIN new : new[i].key # k
<1> DEFINE new == Append(q, ev)
<1>1. /\ DOMAIN q = 1..Len(q) /\ DOMAIN new = 1..(Len(q) + 1) /\ Len(q) \in Nat
      /\ \A i \in 1..Len(q) : new[i] = q[i]
      /\ new[Len(q) + 1] = ev
  OBVIOUS
<1>2. ASSUME ev.key = k, ev.act = "up" PROVE UpIsLast(new, k)
  BY <1>1, <1>2 DEF UpIsLast
<1>3. ASSUME ev.key # k, UpIsLast(q, k) PROVE UpIsLast(new, k)
  <2>1. PICK i \in DOMAIN q : /\ q[i].key = k /\ q[i].act = "up"
                              /\ \A j \in DOMAIN q : j > i => q[j].key # k
    BY <1>3 DEF UpIsLast
  <2>2. i \in DOMAIN new /\ new[i].key = k /\ new[i].act = "up"
    BY <1>1, <2>1
  <2>3. \A j \in DOMAIN new : j > i => new[j].key # k
    BY <1>1, <1>3, <2>1
  <2> QED BY <2>2, <2>3 DEF UpIsLast
<1>4. ASSUME ev.key # k, \A i \in DOMAIN q : q[i].key # k
      PROVE  \A i \in DOMAIN new : new[i].key # k
  BY <1>1, <1>4
<1> QED BY <1>2, <1>3, <1>4

\* Behind the head of the queue: the last event of k stays the last, unless it
\* was the head, and then none is left.
LEMMA Ahead ==
  ASSUME NEW q \in Seq(Events), q # <<>>, NEW k
  PROVE  /\ UpIsLast(q, k) =>
              \/ UpIsLast(Tail(q), k)
              \/ /\ Head(q).key = k /\ Head(q).act = "up"
                 /\ \A i \in DOMAIN Tail(q) : Tail(q)[i].key # k
         /\ (\A i \in DOMAIN q : q[i].key # k)
              => Head(q).key # k /\ \A i \in DOMAIN Tail(q) : Tail(q)[i].key # k
<1> DEFINE t == Tail(q)
<1>1. /\ DOMAIN q = 1..Len(q) /\ Len(q) \in Nat \ {0}
      /\ DOMAIN t = 1..(Len(q) - 1)
      /\ \A i \in 1..(Len(q) - 1) : t[i] = q[i + 1]
      /\ Head(q) = q[1]
  OBVIOUS
<1>2. ASSUME UpIsLast(q, k)
      PROVE  \/ UpIsLast(t, k)
             \/ /\ Head(q).key = k /\ Head(q).act = "up"
                /\ \A i \in DOMAIN t : t[i].key # k
  <2>1. PICK i \in DOMAIN q : /\ q[i].key = k /\ q[i].act = "up"
                              /\ \A j \in DOMAIN q : j > i => q[j].key # k
    BY <1>2 DEF UpIsLast
  <2>2. CASE i = 1
    BY <1>1, <2>1, <2>2
  <2>3. CASE i # 1
    <3>1. i - 1 \in DOMAIN t /\ t[i - 1] = q[i]
      BY <1>1, <2>1, <2>3
    <3>2. \A j \in DOMAIN t : j > i - 1 => t[j].key # k
      BY <1>1, <2>1, <2>3
    <3> QED BY <2>1, <3>1, <3>2 DEF UpIsLast
  <2> QED BY <2>2, <2>3
<1>3. ASSUME \A i \in DOMAIN q : q[i].key # k
      PROVE  Head(q).key # k /\ \A i \in DOMAIN t : t[i].key # k
  BY <1>1, <1>3
<1> QED BY <1>2, <1>3

\* A key that came up stays lit only if an armed capture ate its up, with any
\* keyboards, any map, and whatever the user edits, captures or picks.
THEOREM NoKeySticks == GlowSpec => []NoStuckKey
<1>1. GlowInit => AllLetGo
  BY DEF GlowInit, AllLetGo, LetGo
<1>2. GlowTypeOK /\ AllLetGo /\ [GlowNext]_glowVars => AllLetGo'
  <2> SUFFICES ASSUME GlowTypeOK, AllLetGo, [GlowNext]_glowVars,
                      NEW k \in KeyNames, k \notin Physical'
               PROVE  LetGo(k)'
    BY DEF AllLetGo
  <2>1. queue \in Seq(Events)
    BY DEF GlowTypeOK
  <2>2. ASSUME NEW b \in Keyboards, NEW c \in KeyNames, NEW act \in {"down", "up", "repeat"},
               Send(b, c, act), c = k => act = "up", c # k => k \notin Physical
        PROVE  LetGo(k)'
    <3> DEFINE ev == [board |-> b, key |-> c, act |-> act]
    <3>1. ev \in Events /\ ev.key = c /\ ev.act = act
      BY DEF Events
    <3>2. queue' = Append(queue, ev) /\ held' = held /\ eaten' = eaten
      BY <2>2 DEF Send
    <3>3. CASE c = k
      <4>1. UpIsLast(queue', k)
        BY <2>1, <2>2, <3>1, <3>2, <3>3, Behind
      <4> QED BY <4>1 DEF LetGo, UpIsLast
    <3>4. CASE c # k
      <4>1. LetGo(k)
        BY <2>2, <3>4 DEF AllLetGo
      <4>2. CASE UpIsLast(queue, k)
        <5>1. UpIsLast(queue', k)
          BY <2>1, <3>1, <3>2, <3>4, <4>2, Behind
        <5> QED BY <5>1 DEF LetGo, UpIsLast
      <4>3. CASE /\ \A i \in DOMAIN queue : queue[i].key # k
                 /\ k \in held => k \in eaten
        <5>1. \A i \in DOMAIN queue' : queue'[i].key # k
          BY <2>1, <3>1, <3>2, <3>4, <4>3, Behind
        <5> QED BY <3>2, <4>3, <5>1 DEF LetGo
      <4> QED BY <4>1, <4>2, <4>3 DEF LetGo
    <3> QED BY <3>3, <3>4
  <2>3. ASSUME NEW b \in Keyboards, NEW c \in KeyNames, Strike(b, c)
        PROVE  LetGo(k)'
    <3>1. CASE <<b, c>> \in struck
      <4>1. Send(b, c, "up") /\ struck' = struck \ {<<b, c>>}
        BY <2>3, <3>1 DEF Strike
      <4>2. c # k => k \notin Physical
        BY <4>1 DEF Physical
      <4> QED BY <2>2, <4>1, <4>2
    <3>2. CASE <<b, c>> \notin struck
      <4>1. Send(b, c, "down") /\ struck' = struck \union {<<b, c>>}
        BY <2>3, <3>2 DEF Strike
      <4>2. c # k /\ k \notin Physical
        BY <4>1 DEF Physical
      <4> QED BY <2>2, <4>1, <4>2
    <3> QED BY <3>1, <3>2
  <2>4. ASSUME NEW b \in Keyboards, NEW c \in KeyNames, AutoRepeat(b, c)
        PROVE  LetGo(k)'
    <3>1. Send(b, c, "repeat") /\ struck' = struck /\ <<b, c>> \in struck
      BY <2>4 DEF AutoRepeat
    <3>2. c # k /\ k \notin Physical
      BY <3>1 DEF Physical
    <3> QED BY <2>2, <3>1, <3>2
  <2>5. ASSUME Capture \/ HandleKey PROVE LetGo(k)'
    <3> DEFINE ev == Head(queue)
    <3>1. queue # <<>> /\ queue' = Tail(queue) /\ struck' = struck
      BY <2>5 DEF Capture, HandleKey
    <3>2. LetGo(k)
      BY <3>1 DEF AllLetGo, Physical
    <3>3. ev.key # k /\ (k \in held => k \in eaten) => (k \in held' => k \in eaten')
      <4>1. CASE Capture
        BY <4>1 DEF Capture
      <4>2. CASE HandleKey
        <5>1. held' = Pressed(ev) /\ eaten' = eaten \ {ev.key}
          BY <4>2 DEF HandleKey
        <5> QED BY <5>1 DEF Pressed
      <4> QED BY <2>5, <4>1, <4>2
    <3>4. ev.key = k /\ ev.act = "up" => (k \in held' => k \in eaten')
      <4>1. CASE Capture
        BY <4>1 DEF Capture
      <4>2. CASE HandleKey
        <5>1. held' = Pressed(ev)
          BY <4>2 DEF HandleKey
        <5> QED BY <5>1 DEF Pressed
      <4> QED BY <2>5, <4>1, <4>2
    <3>5. CASE UpIsLast(queue, k)
      <4>1. \/ UpIsLast(queue', k)
            \/ /\ ev.key = k /\ ev.act = "up"
               /\ \A i \in DOMAIN queue' : queue'[i].key # k
        BY <2>1, <3>1, <3>5, Ahead
      <4> QED BY <3>4, <4>1 DEF LetGo, UpIsLast
    <3>6. CASE /\ \A i \in DOMAIN queue : queue[i].key # k
               /\ k \in held => k \in eaten
      <4>1. ev.key # k /\ \A i \in DOMAIN queue' : queue'[i].key # k
        BY <2>1, <3>1, <3>6, Ahead
      <4> QED BY <3>3, <3>6, <4>1 DEF LetGo
    <3> QED BY <3>2, <3>5, <3>6 DEF LetGo
  <2>6. ASSUME UNCHANGED <<struck, queue, held, eaten>> PROVE LetGo(k)'
    <3>1. LetGo(k)
      BY <2>6 DEF AllLetGo, Physical
    <3> QED BY <2>6, <3>1 DEF LetGo, UpIsLast
  <2>7. CASE Decay \/ ToggleEdit \/ ArmCapture \/ \E i \in Sheets : PickKeyboard(i)
    BY <2>6, <2>7 DEF Decay, ToggleEdit, ArmCapture, PickKeyboard
  <2>8. CASE UNCHANGED glowVars
    BY <2>6, <2>8 DEF glowVars
  <2> QED BY <2>3, <2>4, <2>5, <2>7, <2>8 DEF GlowNext
<1>3. GlowTypeOK /\ AllLetGo => NoStuckKey
  <2> SUFFICES ASSUME GlowTypeOK, AllLetGo, queue = <<>>, NEW k \in held, k \notin Physical
               PROVE  k \in eaten
    BY DEF NoStuckKey
  <2>1. LetGo(k) /\ DOMAIN queue = {}
    BY DEF AllLetGo, GlowTypeOK
  <2> QED BY <2>1 DEF LetGo, UpIsLast
<1> QED BY <1>1, <1>2, <1>3, GlowTyping, PTL DEF GlowSpec

=============================================================================
