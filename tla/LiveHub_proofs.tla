--------------------------- MODULE LiveHub_proofs ---------------------------
(***************************************************************************)
(* The helper passes on what keyd says: Spec => []HubFollows, and no key   *)
(* is left glowing: Spec => []NoStuckGlow, for every set of layers, keys   *)
(* and windows and every bound of LiveHub.                                 *)
(*                                                                         *)
(* NewClientsFollow, a part of HubFollows, is proved for ~JoinRaces, what  *)
(* the code promises: with JoinRaces the run `join_race' shows the event   *)
(* that a client misses between the copy of the snapshot and its           *)
(* registration.                                                           *)
(***************************************************************************)
EXTENDS LiveHub, LayerStack_proofs

-----------------------------------------------------------------------------
(* The inductive invariant.                                                *)

\* The clients mutex is held by the thread that writes.  It writes what its
\* stream says, to clients that are there, each once.
Locking ==
  \A s \in Sources :
    /\ lock = s <=> src[s].pc = "write"
    /\ src[s].pc \in {"lock", "write"} => src[s].ev \in Says(s)
    /\ src[s].pc = "write" => /\ IsInjective(src[s].todo)
                              /\ ToSet(src[s].todo) \subseteq ToSet(clients)

\* A client has been accepted and added, in this order, and nothing is written
\* to it before.
Joining ==
  /\ \A g \in ToSet(clients) : wire[g].peer = "taken"
  /\ adder.pc # "accept" => /\ adder.gui \in Guis \ ToSet(clients)
                            /\ wire[adder.gui].peer = "taken"
  /\ adder.pc = "copy" => wire[adder.gui].buf = <<>>
  /\ \A g \in Guis : /\ wire[g].peer = "waiting" => wire[g].buf = <<>>
                     /\ gui[g].pc = "dial" => wire[g].peer = "none"

\* The snapshot is clear between two streams, and holds the event that is
\* being broadcast.
Streams ==
  /\ \A g \in Guis : joined[g] <= count.streams
  /\ src["layers"].pc = "connect" => snap = <<>>
  /\ src["layers"].pc # "connect" => count.streams > 0
  /\ src["layers"].pc \in {"lock", "write"} => ApplyLayer(snap, src["layers"].ev) = snap

\* What is on the wire and still to be replayed brings the GUI being added to
\* the snapshot.
Replaying ==
  adder.pc = "replay" /\ src["layers"].pc # "connect" /\ joined[adder.gui] = count.streams =>
    Reduce(gui[adder.gui].active, wire[adder.gui].buf \o Ons(adder.copy)) = snap

Basics == TypeOK /\ Locking /\ Joining

-----------------------------------------------------------------------------
(* Assumptions and events.                                                 *)

LEMMA Bounds ==
  /\ IsFiniteSet(Layers) /\ IsFiniteSet(Guis)
  /\ WireCap \in Nat \ {0} /\ KeydCap \in Nat \ {0}
  /\ MaxChanges \in Nat /\ MaxLosses \in Nat /\ MaxCrashes \in Nat /\ MaxQuits \in Nat
  /\ Cardinality(Layers) \in Nat /\ Cardinality(Layers) <= KeydCap
BY HubAssumption, FS_CardinalityType

LEMMA SourcesAre ==
  /\ "layers" \in Sources
  /\ \A s \in Sources : s = "layers" \/ s = "keys"
  /\ \A s \in Sources : s # "free"
BY DEF Sources

LEMMA EventsAre ==
  /\ Over(LayerEvents, Layers) /\ Over(Events, Layers)
  /\ KeysOver(KeyEvents, Keys) /\ KeysOver(Events, Keys)
  /\ \A ev \in LayerEvents : IsLayer(ev) /\ ev.name \in Layers /\ ev \in Events
  /\ \A ev \in KeyEvents : ~IsLayer(ev) /\ ev.name \in Keys /\ ev \in Events
  /\ \A l \in Layers : On(l) \in LayerEvents /\ Off(l) \in LayerEvents
  /\ \A k \in Keys : Down(k) \in KeyEvents /\ Up(k) \in KeyEvents
<1>1. /\ \A ev \in LayerEvents : IsLayer(ev) /\ ev.name \in Layers
      /\ \A ev \in KeyEvents : ~IsLayer(ev) /\ ev.name \in Keys
  BY DEF LayerEvents, KeyEvents, IsLayer, On, Off, Down, Up
<1>2. /\ \A l \in Layers : On(l) \in LayerEvents /\ Off(l) \in LayerEvents
      /\ \A k \in Keys : Down(k) \in KeyEvents /\ Up(k) \in KeyEvents
  BY DEF LayerEvents, KeyEvents
<1> QED BY <1>1, <1>2, Bounds DEF Over, KeysOver, Events

LEMMA SaysEvents ==
  ASSUME NEW s \in Sources
  PROVE  /\ \A p \in Seq(Says(s)) : p \in Seq(Events)
         /\ \A ev \in Says(s) : ev \in Events
         /\ Says("layers") = LayerEvents
         /\ s # "layers" => Says(s) = KeyEvents
<1>1. Says(s) \subseteq Events
  BY DEF Says, Events
<1> QED BY <1>1 DEF Says

LEMMA PressKeyType ==
  ASSUME NEW held \in SUBSET Keys, NEW ev \in KeyEvents
  PROVE  PressKey(held, ev) \in SUBSET Keys
BY EventsAre DEF PressKey

LEMMA PostsIn ==
  /\ \A b \in BOOLEAN : Connection(b) \in Posts
  /\ \A s \in Stacks(Layers) : Show(s) \in Posts
  /\ \A ev \in KeyEvents : Press(ev) \in Posts
BY DEF Posts

LEMMA PostsAre ==
  ASSUME NEW p \in Posts
  PROVE  /\ p.post = "layers" => p.stack \in Stacks(Layers)
         /\ p.post = "connection" => p.live \in BOOLEAN
         /\ p.post = "key" => p.ev \in KeyEvents
         /\ p.post \in {"layers", "connection", "key"}
<1>1. CASE \E b \in BOOLEAN : p = Connection(b)
  BY <1>1 DEF Connection
<1>2. CASE \E s \in Stacks(Layers) : p = Show(s)
  BY <1>2 DEF Show
<1>3. CASE \E ev \in KeyEvents : p = Press(ev)
  BY <1>3 DEF Press
<1> QED BY <1>1, <1>2, <1>3 DEF Posts

-----------------------------------------------------------------------------
(* Updates, field by field.                                                *)

FeedSet(s, b, p) ==
  /\ feed' \in [Sources -> Feeds]
  /\ feed'[s].open = b /\ feed'[s].pipe = p
  /\ \A o \in Sources \ {s} : feed'[o] = feed[o]

SrcSet(s, pc, ev, todo) ==
  /\ src' \in [Sources -> Threads]
  /\ src'[s].pc = pc /\ src'[s].ev = ev /\ src'[s].todo = todo
  /\ \A o \in Sources \ {s} : src'[o] = src[o]

WireSet(g, peer, buf) ==
  /\ wire' \in [Guis -> Wires]
  /\ wire'[g].peer = peer /\ wire'[g].buf = buf
  /\ \A o \in Guis \ {g} : wire'[o] = wire[o]

GuiSet(g, pc, active, posts) ==
  /\ gui' \in [Guis -> Windows]
  /\ gui'[g].pc = pc /\ gui'[g].active = active /\ gui'[g].posts = posts
  /\ gui'[g].held = gui[g].held
  /\ \A o \in Guis \ {g} : gui'[o] = gui[o]

AdderSet(pc, g, copy) ==
  /\ adder' \in [pc : {"accept", "copy", "replay"}, gui : Guis \union {NoGui},
                 copy : Stacks(Layers)]
  /\ adder'.pc = pc /\ adder'.gui = g /\ adder'.copy = copy

LEMMA SetFeed ==
  ASSUME feed \in [Sources -> Feeds], NEW s \in Sources,
         NEW b \in BOOLEAN, NEW p \in Seq(Events)
  PROVE  /\ feed' = [feed EXCEPT ![s].pipe = p] => FeedSet(s, feed[s].open, p)
         /\ feed' = [feed EXCEPT ![s].open = b] => FeedSet(s, b, feed[s].pipe)
         /\ feed' = [feed EXCEPT ![s] = [open |-> b, pipe |-> p]] => FeedSet(s, b, p)
<1>1. ASSUME feed' = [feed EXCEPT ![s].pipe = p] PROVE FeedSet(s, feed[s].open, p)
  BY <1>1 DEF FeedSet, Feeds
<1>2. ASSUME feed' = [feed EXCEPT ![s].open = b] PROVE FeedSet(s, b, feed[s].pipe)
  BY <1>2 DEF FeedSet, Feeds
<1>3. ASSUME feed' = [feed EXCEPT ![s] = [open |-> b, pipe |-> p]] PROVE FeedSet(s, b, p)
  BY <1>3 DEF FeedSet, Feeds
<1> QED BY <1>1, <1>2, <1>3

LEMMA SetSrc ==
  ASSUME src \in [Sources -> Threads], NEW s \in Sources,
         NEW pc \in {"connect", "read", "lock", "write"},
         NEW ev \in Events \union {Nothing}, NEW todo \in Seq(Guis)
  PROVE  /\ src' = [src EXCEPT ![s].pc = pc] => SrcSet(s, pc, src[s].ev, src[s].todo)
         /\ src' = [src EXCEPT ![s].todo = todo] => SrcSet(s, src[s].pc, src[s].ev, todo)
         /\ src' = [src EXCEPT ![s] = [@ EXCEPT !.pc = pc, !.ev = ev]] =>
              SrcSet(s, pc, ev, src[s].todo)
         /\ src' = [src EXCEPT ![s] = [@ EXCEPT !.pc = pc, !.todo = todo]] =>
              SrcSet(s, pc, src[s].ev, todo)
         /\ src' = [src EXCEPT ![s] = [Idle EXCEPT !.pc = pc]] => SrcSet(s, pc, Nothing, <<>>)
<1>1. ASSUME src' = [src EXCEPT ![s].pc = pc] PROVE SrcSet(s, pc, src[s].ev, src[s].todo)
  BY <1>1 DEF SrcSet, Threads
<1>2. ASSUME src' = [src EXCEPT ![s].todo = todo] PROVE SrcSet(s, src[s].pc, src[s].ev, todo)
  BY <1>2 DEF SrcSet, Threads
<1>3. ASSUME src' = [src EXCEPT ![s] = [@ EXCEPT !.pc = pc, !.ev = ev]]
      PROVE  SrcSet(s, pc, ev, src[s].todo)
  BY <1>3 DEF SrcSet, Threads
<1>4. ASSUME src' = [src EXCEPT ![s] = [@ EXCEPT !.pc = pc, !.todo = todo]]
      PROVE  SrcSet(s, pc, src[s].ev, todo)
  BY <1>4 DEF SrcSet, Threads
<1>5. ASSUME src' = [src EXCEPT ![s] = [Idle EXCEPT !.pc = pc]]
      PROVE  SrcSet(s, pc, Nothing, <<>>)
  <2> DEFINE r == [Idle EXCEPT !.pc = pc]
  <2>1. r.pc = pc /\ r.ev = Nothing /\ r.todo = <<>> /\ r \in Threads
    <3>1. Idle \in Threads /\ Idle.ev = Nothing /\ Idle.todo = <<>>
      BY DEF Idle, Threads
    <3> QED BY <3>1 DEF Threads
  <2>2. src' = [src EXCEPT ![s] = r]
    BY <1>5
  <2> HIDE DEF r
  <2> QED BY <2>1, <2>2 DEF SrcSet
<1> QED BY <1>1, <1>2, <1>3, <1>4, <1>5

LEMMA SetWire ==
  ASSUME wire \in [Guis -> Wires], NEW g \in Guis,
         NEW peer \in {"none", "waiting", "taken", "closed"}, NEW buf \in Seq(Events)
  PROVE  /\ wire' = [wire EXCEPT ![g].buf = buf] => WireSet(g, wire[g].peer, buf)
         /\ wire' = [wire EXCEPT ![g].peer = peer] => WireSet(g, peer, wire[g].buf)
         /\ wire' = [wire EXCEPT ![g] = [peer |-> peer, buf |-> buf]] => WireSet(g, peer, buf)
<1>1. ASSUME wire' = [wire EXCEPT ![g].buf = buf] PROVE WireSet(g, wire[g].peer, buf)
  BY <1>1 DEF WireSet, Wires
<1>2. ASSUME wire' = [wire EXCEPT ![g].peer = peer] PROVE WireSet(g, peer, wire[g].buf)
  BY <1>2 DEF WireSet, Wires
<1>3. ASSUME wire' = [wire EXCEPT ![g] = [peer |-> peer, buf |-> buf]]
      PROVE  WireSet(g, peer, buf)
  BY <1>3 DEF WireSet, Wires
<1> QED BY <1>1, <1>2, <1>3

LEMMA PostedIs ==
  ASSUME NEW w \in Windows, NEW p \in Posts
  PROVE  /\ Posted(w, p) \in Windows
         /\ Posted(w, p).posts = Append(w.posts, p)
         /\ Posted(w, p).pc = w.pc /\ Posted(w, p).active = w.active
         /\ Posted(w, p).held = w.held
<1> DEFINE ps == Append(w.posts, p)
<1>1. ps \in Seq(Posts) /\ Posted(w, p) = [w EXCEPT !.posts = ps]
  BY DEF Windows, Posted
<1> HIDE DEF ps
<1> QED BY <1>1 DEF Windows, ps

LEMMA SetGui ==
  ASSUME gui \in [Guis -> Windows], NEW g \in Guis,
         NEW pc \in {"dial", "read", "gone"}, NEW now \in Stacks(Layers),
         NEW p \in Posts
  PROVE  /\ gui' = [gui EXCEPT ![g].pc = pc] => GuiSet(g, pc, gui[g].active, gui[g].posts)
         /\ gui' = [gui EXCEPT ![g] = Posted(@, p)] =>
              GuiSet(g, gui[g].pc, gui[g].active, Append(gui[g].posts, p))
         /\ gui' = [gui EXCEPT ![g] = Posted([@ EXCEPT !.pc = pc], p)] =>
              GuiSet(g, pc, gui[g].active, Append(gui[g].posts, p))
         /\ gui' = [gui EXCEPT ![g] = Posted([@ EXCEPT !.active = now], p)] =>
              GuiSet(g, gui[g].pc, now, Append(gui[g].posts, p))
<1> DEFINE a == [gui[g] EXCEPT !.pc = pc]
           b == [gui[g] EXCEPT !.active = now]
           c == gui[g]
           At(x) == gui' = [gui EXCEPT ![g] = x]
<1>1. /\ a \in Windows /\ a.pc = pc /\ a.active = c.active /\ a.posts = c.posts
      /\ a.held = c.held
  BY DEF Windows
<1>2. /\ b \in Windows /\ b.pc = c.pc /\ b.active = now /\ b.posts = c.posts
      /\ b.held = c.held
  BY DEF Windows
<1>3. c \in Windows
  OBVIOUS
<1>4. ASSUME NEW x \in Windows, At(x), x.held = c.held
      PROVE  GuiSet(g, x.pc, x.active, x.posts)
  BY <1>4 DEF GuiSet
<1>5. ASSUME gui' = [gui EXCEPT ![g].pc = pc] PROVE At(a)
  BY <1>5
<1>6. ASSUME gui' = [gui EXCEPT ![g] = Posted(@, p)] PROVE At(Posted(c, p))
  BY <1>6
<1>7. ASSUME gui' = [gui EXCEPT ![g] = Posted([@ EXCEPT !.pc = pc], p)] PROVE At(Posted(a, p))
  BY <1>7
<1>8. ASSUME gui' = [gui EXCEPT ![g] = Posted([@ EXCEPT !.active = now], p)]
      PROVE  At(Posted(b, p))
  BY <1>8
<1> HIDE DEF At, a, b
<1>9. gui' = [gui EXCEPT ![g].pc = pc] => GuiSet(g, pc, gui[g].active, gui[g].posts)
  BY <1>1, <1>4, <1>5
<1>10. gui' = [gui EXCEPT ![g] = Posted(@, p)] =>
         GuiSet(g, gui[g].pc, gui[g].active, Append(gui[g].posts, p))
  <2> HIDE DEF c
  <2>1. /\ Posted(c, p) \in Windows /\ Posted(c, p).posts = Append(c.posts, p)
        /\ Posted(c, p).pc = c.pc /\ Posted(c, p).active = c.active
        /\ Posted(c, p).held = c.held
    BY <1>3, PostedIs
  <2> QED BY <1>4, <1>6, <2>1 DEF c
<1>11. gui' = [gui EXCEPT ![g] = Posted([@ EXCEPT !.pc = pc], p)] =>
         GuiSet(g, pc, gui[g].active, Append(gui[g].posts, p))
  <2>1. /\ Posted(a, p) \in Windows /\ Posted(a, p).posts = Append(a.posts, p)
        /\ Posted(a, p).pc = a.pc /\ Posted(a, p).active = a.active
        /\ Posted(a, p).held = a.held
    BY <1>1, PostedIs
  <2> QED BY <1>1, <1>4, <1>7, <2>1
<1>12. gui' = [gui EXCEPT ![g] = Posted([@ EXCEPT !.active = now], p)] =>
         GuiSet(g, gui[g].pc, now, Append(gui[g].posts, p))
  <2>1. /\ Posted(b, p) \in Windows /\ Posted(b, p).posts = Append(b.posts, p)
        /\ Posted(b, p).pc = b.pc /\ Posted(b, p).active = b.active
        /\ Posted(b, p).held = b.held
    BY <1>2, PostedIs
  <2> QED BY <1>2, <1>4, <1>8, <2>1
<1> QED BY <1>9, <1>10, <1>11, <1>12

-----------------------------------------------------------------------------
(* What the steps do: keyd.                                                *)

FeedType == \A s \in Sources : feed[s].pipe \in Seq(Says(s)) /\ Len(feed[s].pipe) <= KeydCap
SrcType  == \A s \in Sources : src[s].ev \in Says(s) \union {Nothing}
WireType == \A g \in Guis : Len(wire[g].buf) <= WireCap

CountType == count \in [changes : 0..MaxChanges, losses : 0..MaxLosses,
                        crashes : 0..MaxCrashes, quits : 0..MaxQuits, streams : Nat]

LEMMA TypesAre ==
  TypeOK <=>
    /\ keyd \in [up : BOOLEAN, stack : Stacks(Layers), held : SUBSET Keys]
    /\ feed \in [Sources -> Feeds] /\ FeedType
    /\ src \in [Sources -> Threads] /\ SrcType
    /\ snap \in Stacks(Layers)
    /\ clients \in Stacks(Guis)
    /\ lock \in Sources \union {"free"}
    /\ adder \in [pc : {"accept", "copy", "replay"}, gui : Guis \union {NoGui},
                  copy : Stacks(Layers)]
    /\ helper \in BOOLEAN
    /\ wire \in [Guis -> Wires] /\ WireType
    /\ gui \in [Guis -> Windows]
    /\ CountType
    /\ joined \in [Guis -> Nat]
BY DEF TypeOK, FeedType, SrcType, WireType, CountType

LEMMA CountedIs ==
  ASSUME CountType
  PROVE  /\ Counted("changes", MaxChanges) =>
              CountType' /\ count'.streams = count.streams /\ count'.losses = count.losses
         /\ Counted("losses", MaxLosses) =>
              CountType' /\ count'.streams = count.streams /\ count'.losses > 0
         /\ Counted("crashes", MaxCrashes) =>
              CountType' /\ count'.streams = count.streams /\ count'.losses = count.losses
         /\ Counted("quits", MaxQuits) =>
              CountType' /\ count'.streams = count.streams /\ count'.losses = count.losses
<1>1. ASSUME Counted("changes", MaxChanges)
      PROVE  CountType' /\ count'.streams = count.streams /\ count'.losses = count.losses
  BY <1>1, Bounds DEF Counted, CountType
<1>2. ASSUME Counted("losses", MaxLosses)
      PROVE  CountType' /\ count'.streams = count.streams /\ count'.losses > 0
  BY <1>2, Bounds DEF Counted, CountType
<1>3. ASSUME Counted("crashes", MaxCrashes)
      PROVE  CountType' /\ count'.streams = count.streams /\ count'.losses = count.losses
  BY <1>3, Bounds DEF Counted, CountType
<1>4. ASSUME Counted("quits", MaxQuits)
      PROVE  CountType' /\ count'.streams = count.streams /\ count'.losses = count.losses
  BY <1>4, Bounds DEF Counted, CountType
<1> QED BY <1>1, <1>2, <1>3, <1>4

\* What keyd says while it is heard is in the pipe.
LEMMA EmitIs ==
  ASSUME TypeOK, NEW s \in Sources, NEW ev \in Says(s), Emit(s, ev)
  PROVE  /\ feed' \in [Sources -> Feeds] /\ FeedType'
         /\ feed[s].open => FeedSet(s, TRUE, Append(feed[s].pipe, ev))
         /\ ~feed[s].open => feed' = feed
<1>1. CASE feed[s].open
  <2> DEFINE p == Append(feed[s].pipe, ev)
  <2>1. p \in Seq(Says(s)) /\ Len(p) <= KeydCap
    <3>1. feed[s].pipe \in Seq(Says(s)) /\ Len(feed[s].pipe) < KeydCap
      BY <1>1, TypesAre DEF Emit, FeedType
    <3> QED BY <3>1, Bounds
  <2>2. feed' = [feed EXCEPT ![s].pipe = p]
    BY <1>1 DEF Emit
  <2> HIDE DEF p
  <2>3. p \in Seq(Events)
    BY <2>1, SaysEvents
  <2>4. FeedSet(s, TRUE, p)
    BY <1>1, <2>2, <2>3, TypesAre, SetFeed
  <2>5. FeedType'
    BY <2>1, <2>4, TypesAre DEF FeedSet, FeedType
  <2> QED BY <1>1, <2>4, <2>5 DEF FeedSet, p
<1>2. CASE ~feed[s].open
  BY <1>2, TypesAre DEF Emit, FeedType
<1> QED BY <1>1, <1>2

LEMMA SwitchIs ==
  ASSUME TypeOK, NEW l \in Layers, SwitchLayer(l)
  PROVE  /\ TypeOK'
         /\ UNCHANGED <<snap, clients, lock, src, adder, helper, wire, gui, joined>>
         /\ count'.streams = count.streams /\ count'.losses = count.losses
         /\ keyd'.held = keyd.held
         /\ "keys" \in Sources => feed'["keys"] = feed["keys"]
         /\ \E ev \in LayerEvents :
              /\ keyd'.stack = ApplyLayer(keyd.stack, ev)
              /\ feed'["layers"].open = feed["layers"].open
              /\ feed["layers"].open => feed'["layers"].pipe = Append(feed["layers"].pipe, ev)
<1> DEFINE ev == IF Contains(keyd.stack, l) THEN Off(l) ELSE On(l)
<1>1. ev \in LayerEvents /\ ev \in Says("layers") /\ ev.name \in Layers
  BY EventsAre, SaysEvents, SourcesAre
<1>2. /\ Emit("layers", ev)
      /\ keyd' = [keyd EXCEPT !.stack = ApplyLayer(@, ev)]
      /\ Counted("changes", MaxChanges)
      /\ UNCHANGED <<snap, clients, lock, src, adder, helper, wire, gui, joined>>
  BY DEF SwitchLayer, helperVars, guiVars
<1> HIDE DEF ev
<1>3. /\ feed' \in [Sources -> Feeds] /\ FeedType'
      /\ feed["layers"].open => FeedSet("layers", TRUE, Append(feed["layers"].pipe, ev))
      /\ ~feed["layers"].open => feed' = feed
  BY <1>1, <1>2, EmitIs, SourcesAre
<1>4. ApplyLayer(keyd.stack, ev) \in Stacks(Layers)
  BY <1>1, ApplyLayerIs, Bounds, TypesAre
<1>5. /\ keyd' \in [up : BOOLEAN, stack : Stacks(Layers), held : SUBSET Keys]
      /\ keyd'.stack = ApplyLayer(keyd.stack, ev) /\ keyd'.held = keyd.held
  BY <1>2, <1>4, TypesAre
<1>6. CountType' /\ count'.streams = count.streams /\ count'.losses = count.losses
  BY <1>2, CountedIs, TypesAre
<1>7. TypeOK'
  <2>1. SrcType' /\ WireType'
    BY <1>2, TypesAre DEF SrcType, WireType
  <2> QED BY <1>2, <1>3, <1>5, <1>6, <2>1, TypesAre DEF TypeOK, FeedType, SrcType, WireType, CountType
<1>8. /\ feed'["layers"].open = feed["layers"].open
      /\ feed["layers"].open => feed'["layers"].pipe = Append(feed["layers"].pipe, ev)
      /\ "keys" \in Sources => feed'["keys"] = feed["keys"]
  BY <1>3, TypesAre, SourcesAre DEF FeedSet, Feeds
<1> QED BY <1>1, <1>2, <1>5, <1>6, <1>7, <1>8

LEMMA PressIs ==
  ASSUME TypeOK, NEW k \in Keys, PressOrRelease(k)
  PROVE  /\ TypeOK'
         /\ UNCHANGED <<snap, clients, lock, src, adder, helper, wire, gui, joined>>
         /\ count'.streams = count.streams /\ count'.losses = count.losses
         /\ keyd'.stack = keyd.stack
         /\ feed'["layers"] = feed["layers"]
         /\ \E ev \in KeyEvents :
              /\ keyd'.held = PressKey(keyd.held, ev)
              /\ feed'["keys"].open = feed["keys"].open
              /\ feed["keys"].open => feed'["keys"].pipe = Append(feed["keys"].pipe, ev)
<1> DEFINE ev == IF k \in keyd.held THEN Up(k) ELSE Down(k)
<1>0. "keys" \in Sources
  BY DEF Sources
<1>1. ev \in KeyEvents /\ ev \in Says("keys")
  BY <1>0, EventsAre, SaysEvents
<1>2. /\ Emit("keys", ev)
      /\ keyd' = [keyd EXCEPT !.held = PressKey(@, ev)]
      /\ Counted("changes", MaxChanges)
      /\ UNCHANGED <<snap, clients, lock, src, adder, helper, wire, gui, joined>>
  BY DEF PressOrRelease, helperVars, guiVars
<1> HIDE DEF ev
<1>3. /\ feed' \in [Sources -> Feeds] /\ FeedType'
      /\ feed["keys"].open => FeedSet("keys", TRUE, Append(feed["keys"].pipe, ev))
      /\ ~feed["keys"].open => feed' = feed
  BY <1>0, <1>1, <1>2, EmitIs
<1>4. PressKey(keyd.held, ev) \in SUBSET Keys
  BY <1>1, PressKeyType, TypesAre
<1>5. /\ keyd' \in [up : BOOLEAN, stack : Stacks(Layers), held : SUBSET Keys]
      /\ keyd'.held = PressKey(keyd.held, ev) /\ keyd'.stack = keyd.stack
  BY <1>2, <1>4, TypesAre
<1>6. CountType' /\ count'.streams = count.streams /\ count'.losses = count.losses
  BY <1>2, CountedIs, TypesAre
<1>7. TypeOK'
  <2>1. SrcType' /\ WireType'
    BY <1>2, TypesAre DEF SrcType, WireType
  <2> QED BY <1>2, <1>3, <1>5, <1>6, <2>1, TypesAre DEF TypeOK, FeedType, SrcType, WireType, CountType
<1>8. /\ feed'["keys"].open = feed["keys"].open
      /\ feed["keys"].open => feed'["keys"].pipe = Append(feed["keys"].pipe, ev)
      /\ feed'["layers"] = feed["layers"]
  BY <1>0, <1>3, TypesAre, SourcesAre DEF FeedSet, Feeds
<1> QED BY <1>1, <1>2, <1>5, <1>6, <1>7, <1>8

LEMMA KeydStopsIs ==
  ASSUME TypeOK, KeydStops
  PROVE  /\ TypeOK'
         /\ UNCHANGED <<snap, clients, lock, src, adder, helper, wire, gui, joined>>
         /\ count'.streams = count.streams /\ count'.losses > 0
         /\ \A s \in Sources : ~feed'[s].open
<1>1. /\ keyd' = [up |-> FALSE, stack |-> <<>>, held |-> {}]
      /\ Counted("losses", MaxLosses)
      /\ UNCHANGED <<snap, clients, lock, src, adder, helper, wire, gui, joined>>
  BY DEF KeydStops, helperVars, guiVars
<1>2. feed' = [s \in Sources |->
                [open |-> FALSE, pipe |-> IF s = "layers" THEN feed[s].pipe ELSE <<>>]]
  BY DEF KeydStops
<1>3. ASSUME NEW s \in Sources
      PROVE  /\ feed'[s] \in Feeds /\ ~feed'[s].open
             /\ feed'[s].pipe \in Seq(Says(s)) /\ Len(feed'[s].pipe) <= KeydCap
  <2>1. feed[s].pipe \in Seq(Says(s)) /\ Len(feed[s].pipe) <= KeydCap /\ feed[s].pipe \in Seq(Events)
    BY TypesAre DEF FeedType, Feeds
  <2> DEFINE p == IF s = "layers" THEN feed[s].pipe ELSE <<>>
  <2>2. p \in Seq(Says(s)) /\ Len(p) <= KeydCap /\ p \in Seq(Events)
    BY <2>1, Bounds
  <2>3. feed'[s] = [open |-> FALSE, pipe |-> p]
    BY <1>2
  <2> HIDE DEF p
  <2> QED BY <2>2, <2>3 DEF Feeds
<1>4. feed' \in [Sources -> Feeds] /\ FeedType'
  BY <1>2, <1>3 DEF FeedType
<1>5. CountType' /\ count'.streams = count.streams /\ count'.losses > 0
  BY <1>1, CountedIs, TypesAre
<1>6. keyd' \in [up : BOOLEAN, stack : Stacks(Layers), held : SUBSET Keys]
  BY <1>1, EmptyStack, Bounds
<1>7. SrcType' /\ WireType'
  BY <1>1, TypesAre DEF SrcType, WireType
<1> QED BY <1>1, <1>3, <1>4, <1>5, <1>6, <1>7, TypesAre
        DEF TypeOK, FeedType, SrcType, WireType, CountType

LEMMA KeydStartsIs ==
  ASSUME TypeOK, KeydStarts
  PROVE  /\ TypeOK'
         /\ UNCHANGED <<feed, snap, clients, lock, src, adder, helper, wire, gui, count, joined>>
         /\ keyd'.stack = keyd.stack /\ keyd'.held = keyd.held
<1>1. /\ keyd' = [keyd EXCEPT !.up = TRUE]
      /\ UNCHANGED <<feed, snap, clients, lock, src, adder, helper, wire, gui, count, joined>>
  BY DEF KeydStarts, helperVars, guiVars
<1>2. /\ keyd' \in [up : BOOLEAN, stack : Stacks(Layers), held : SUBSET Keys]
      /\ keyd'.stack = keyd.stack /\ keyd'.held = keyd.held
  BY <1>1, TypesAre
<1>3. FeedType' /\ SrcType' /\ WireType' /\ CountType'
  BY <1>1, TypesAre DEF FeedType, SrcType, WireType, CountType
<1> QED BY <1>1, <1>2, <1>3, TypesAre DEF TypeOK, FeedType, SrcType, WireType, CountType

LEMMA DropListenerIs ==
  ASSUME TypeOK, DropListener
  PROVE  /\ TypeOK'
         /\ UNCHANGED <<keyd, snap, clients, lock, src, adder, helper, wire, gui, joined>>
         /\ count'.streams = count.streams /\ count'.losses > 0
         /\ ~feed'["layers"].open
<1>1. /\ feed' = [feed EXCEPT !["layers"].open = FALSE]
      /\ Counted("losses", MaxLosses)
      /\ UNCHANGED <<keyd, snap, clients, lock, src, adder, helper, wire, gui, joined>>
  BY DEF DropListener, helperVars, guiVars
<1>2. FeedSet("layers", FALSE, feed["layers"].pipe)
  <2>1. feed["layers"].pipe \in Seq(Events)
    BY SourcesAre, TypesAre DEF Feeds
  <2> QED BY <1>1, <2>1, TypesAre, SetFeed, SourcesAre
<1>3. FeedType'
  BY <1>2, TypesAre, SourcesAre DEF FeedType, FeedSet
<1>4. CountType' /\ count'.streams = count.streams /\ count'.losses > 0
  BY <1>1, CountedIs, TypesAre
<1>5. SrcType' /\ WireType'
  BY <1>1, TypesAre DEF SrcType, WireType
<1>6. feed' \in [Sources -> Feeds] /\ ~feed'["layers"].open
  BY <1>2 DEF FeedSet
<1> QED BY <1>1, <1>3, <1>4, <1>5, <1>6, TypesAre
        DEF TypeOK, FeedType, SrcType, WireType, CountType

-----------------------------------------------------------------------------
(* What the steps do: the source threads.                                  *)

LEMMA ConnectIs ==
  ASSUME TypeOK, NEW s \in Sources, Connect(s)
  PROVE  /\ TypeOK'
         /\ UNCHANGED <<keyd, snap, clients, lock, adder, helper, wire, gui, joined>>
         /\ src[s].pc = "connect" /\ SrcSet(s, "read", src[s].ev, src[s].todo)
         /\ count'.losses = count.losses
         /\ \E p \in Seq(Says(s)) :
              /\ FeedSet(s, TRUE, p)
              /\ s # "layers" => p = <<>> /\ count'.streams = count.streams
              /\ s = "layers" =>
                   /\ count'.streams = count.streams + 1
                   /\ \E order \in Seq(Layers) :
                        p = Ons(order) /\ ToSet(order) = ToSet(keyd.stack)
<1>1. /\ UNCHANGED <<keyd, snap, clients, lock, adder, helper, wire, gui, joined>>
      /\ src[s].pc = "connect" /\ src' = [src EXCEPT ![s].pc = "read"]
      /\ count' = [count EXCEPT !.streams = @ + (IF s = "layers" THEN 1 ELSE 0)]
  BY DEF Connect, guiVars
<1>2. PICK order \in IF s = "layers" THEN SetToSeqs(ToSet(keyd.stack)) ELSE {<<>>} :
        feed' = [feed EXCEPT ![s] = [open |-> TRUE, pipe |-> Ons(order)]]
  BY DEF Connect
<1>3. s = "layers" => /\ order \in Seq(Layers) /\ Len(order) <= Cardinality(Layers)
                      /\ ToSet(order) = ToSet(keyd.stack)
  BY <1>2, OrdersAre, Bounds, TypesAre
<1>4. s # "layers" => Ons(order) = <<>>
  BY <1>2 DEF Ons
<1>5. Ons(order) \in Seq(Says(s)) /\ Len(Ons(order)) <= KeydCap
  <2>1. CASE s = "layers"
    <3>1. \A i \in 1 .. Len(order) : On(order[i]) \in LayerEvents
      BY <1>3, <2>1, EventsAre
    <3>2. Ons(order) \in Seq(LayerEvents) /\ Len(Ons(order)) = Len(order) /\ Len(order) \in Nat
      BY <1>3, <2>1, <3>1 DEF Ons
    <3> QED BY <1>3, <2>1, <3>2, Bounds, SaysEvents
  <2>2. CASE s # "layers"
    <3>1. <<>> \in Seq(Says(s)) /\ Len(<<>>) <= KeydCap
      BY Bounds
    <3> QED BY <1>4, <2>2, <3>1
  <2> QED BY <2>1, <2>2
<1>6. FeedSet(s, TRUE, Ons(order))
  BY <1>2, <1>5, TypesAre, SetFeed, SaysEvents
<1>7. feed' \in [Sources -> Feeds] /\ FeedType'
  BY <1>5, <1>6, TypesAre DEF FeedSet, FeedType
<1>8. SrcSet(s, "read", src[s].ev, src[s].todo)
  <2>1. src[s].ev \in Events \union {Nothing} /\ src[s].todo \in Seq(Guis)
    BY TypesAre DEF Threads
  <2> QED BY <1>1, <2>1, TypesAre, SetSrc
<1>9. src' \in [Sources -> Threads] /\ SrcType'
  BY <1>8, TypesAre DEF SrcSet, SrcType
<1>10. /\ CountType' /\ count'.losses = count.losses
       /\ count'.streams = count.streams + (IF s = "layers" THEN 1 ELSE 0)
  <2> DEFINE n == count.streams + (IF s = "layers" THEN 1 ELSE 0)
  <2>1. n \in Nat
    BY TypesAre DEF CountType
  <2>2. count' = [count EXCEPT !.streams = n]
    BY <1>1
  <2> HIDE DEF n
  <2>3. CountType' /\ count'.losses = count.losses /\ count'.streams = n
    BY <2>1, <2>2, TypesAre DEF CountType
  <2> QED BY <2>3 DEF n
<1>11. TypeOK'
  <2>1. WireType'
    BY <1>1, TypesAre DEF WireType
  <2> QED BY <1>1, <1>7, <1>9, <1>10, <2>1, TypesAre
          DEF TypeOK, FeedType, SrcType, WireType, CountType
<1>12. /\ s # "layers" => count'.streams = count.streams
       /\ s = "layers" => count'.streams = count.streams + 1
  BY <1>10, TypesAre DEF CountType
<1> QED BY <1>1, <1>3, <1>4, <1>5, <1>6, <1>8, <1>10, <1>11, <1>12

LEMMA ReadIs ==
  ASSUME TypeOK, NEW s \in Sources, Read(s)
  PROVE  /\ TypeOK'
         /\ UNCHANGED <<keyd, clients, lock, adder, helper, wire, gui, count, joined>>
         /\ src[s].pc = "read" /\ (JoinRaces \/ adder.pc # "replay")
         /\ feed[s].pipe # <<>> /\ feed[s].pipe \in Seq(Says(s))
         /\ Head(feed[s].pipe) \in Says(s)
         /\ FeedSet(s, feed[s].open, Tail(feed[s].pipe))
         /\ SrcSet(s, "lock", Head(feed[s].pipe), src[s].todo)
         /\ s = "layers" => snap' = ApplyLayer(snap, Head(feed[s].pipe))
         /\ s # "layers" => snap' = snap
<1> DEFINE ev == Head(feed[s].pipe)
           p == Tail(feed[s].pipe)
<1>1. /\ UNCHANGED <<keyd, clients, lock, adder, helper, wire, gui, count, joined>>
      /\ src[s].pc = "read" /\ (JoinRaces \/ adder.pc # "replay")
      /\ feed[s].pipe # <<>>
      /\ snap' = IF IsLayer(ev) THEN ApplyLayer(snap, ev) ELSE snap
      /\ src' = [src EXCEPT ![s] = [@ EXCEPT !.pc = "lock", !.ev = ev]]
      /\ feed' = [feed EXCEPT ![s].pipe = p]
  BY DEF Read, guiVars
<1>2. feed[s].pipe \in Seq(Says(s)) /\ Len(feed[s].pipe) <= KeydCap
  BY TypesAre DEF FeedType
<1>3. ev \in Says(s) /\ p \in Seq(Says(s)) /\ Len(p) <= KeydCap
  BY <1>1, <1>2, Bounds
<1>4. s = "layers" => ev \in LayerEvents
  BY <1>3, SaysEvents
<1>5. s # "layers" => ev \in KeyEvents
  BY <1>3, SaysEvents
<1> HIDE DEF ev, p
<1>6. FeedSet(s, feed[s].open, p)
  BY <1>1, <1>3, TypesAre, SetFeed, SaysEvents
<1>7. feed' \in [Sources -> Feeds] /\ FeedType'
  BY <1>3, <1>6, TypesAre DEF FeedSet, FeedType
<1>8. SrcSet(s, "lock", ev, src[s].todo)
  <2>1. ev \in Events \union {Nothing} /\ src[s].todo \in Seq(Guis)
    BY <1>3, TypesAre, SaysEvents DEF Threads
  <2> QED BY <1>1, <2>1, TypesAre, SetSrc
<1>9. src' \in [Sources -> Threads] /\ SrcType'
  BY <1>3, <1>8, TypesAre DEF SrcSet, SrcType
<1>10. /\ s = "layers" => snap' = ApplyLayer(snap, ev)
       /\ s # "layers" => snap' = snap
       /\ snap' \in Stacks(Layers)
  BY <1>1, <1>4, <1>5, EventsAre, ApplyLayerIs, Bounds, TypesAre
<1>11. TypeOK'
  <2>1. WireType' /\ CountType'
    BY <1>1, TypesAre DEF WireType, CountType
  <2> QED BY <1>1, <1>7, <1>9, <1>10, <2>1, TypesAre
          DEF TypeOK, FeedType, SrcType, WireType, CountType
<1> QED BY <1>1, <1>2, <1>3, <1>6, <1>8, <1>10, <1>11 DEF ev, p

LEMMA LockIs ==
  ASSUME TypeOK, NEW s \in Sources, Lock(s)
  PROVE  /\ TypeOK'
         /\ UNCHANGED <<keyd, feed, snap, clients, adder, helper, wire, gui, count, joined>>
         /\ src[s].pc = "lock" /\ lock = "free" /\ lock' = s
         /\ SrcSet(s, "write", src[s].ev, clients)
<1>1. /\ UNCHANGED <<keyd, feed, snap, clients, adder, helper, wire, gui, count, joined>>
      /\ src[s].pc = "lock" /\ lock = "free" /\ lock' = s
      /\ src' = [src EXCEPT ![s] = [@ EXCEPT !.pc = "write", !.todo = clients]]
  BY DEF Lock, guiVars, keydVars
<1>2. SrcSet(s, "write", src[s].ev, clients)
  <2>1. src[s].ev \in Events \union {Nothing} /\ clients \in Seq(Guis)
    BY TypesAre, StacksAre, Bounds DEF Threads
  <2> QED BY <1>1, <2>1, TypesAre, SetSrc
<1>3. src' \in [Sources -> Threads] /\ SrcType'
  BY <1>2, TypesAre DEF SrcSet, SrcType
<1>4. FeedType' /\ WireType' /\ CountType'
  BY <1>1, TypesAre DEF FeedType, WireType, CountType
<1> QED BY <1>1, <1>2, <1>3, <1>4, TypesAre
        DEF TypeOK, FeedType, SrcType, WireType, CountType

\* One client is written to, or found gone and dropped.
LEMMA WriteIs ==
  ASSUME Basics, NEW s \in Sources, Write(s)
  PROVE  /\ TypeOK'
         /\ UNCHANGED <<keyd, feed, snap, lock, adder, helper, gui, count, joined>>
         /\ src[s].pc = "write" /\ src[s].todo # <<>>
         /\ SrcSet(s, "write", src[s].ev, Tail(src[s].todo))
         /\ src[s].ev \in Says(s)
         /\ \E g \in Guis :
              /\ g \in ToSet(clients) /\ g = Head(src[s].todo)
              /\ \/ /\ gui[g].pc # "gone" /\ clients' = clients
                    /\ WireSet(g, wire[g].peer, Append(wire[g].buf, src[s].ev))
                 \/ /\ gui[g].pc = "gone" /\ wire' = wire
                    /\ ToSet(clients') = ToSet(clients) \ {g}
<1> DEFINE g == Head(src[s].todo)
           ev == src[s].ev
<1>1. /\ UNCHANGED <<keyd, feed, snap, lock, adder, helper, gui, count, joined>>
      /\ src[s].pc = "write" /\ src[s].todo # <<>>
      /\ src' = [src EXCEPT ![s].todo = Tail(@)]
      /\ \/ CanWrite(g) /\ Put(g, ev) /\ clients' = clients
         \/ Fails(g) /\ clients' = Without(clients, g) /\ wire' = wire
  BY DEF Write, keydVars
<1>2. /\ TypeOK /\ ev \in Says(s)
      /\ src[s].todo \in Seq(Guis) /\ ToSet(src[s].todo) \subseteq ToSet(clients)
  BY <1>1, TypesAre DEF Basics, Locking, Threads
<1>3. g \in Guis /\ g \in ToSet(clients) /\ Tail(src[s].todo) \in Seq(Guis)
  <2>1. Head(src[s].todo) \in ToSet(src[s].todo)
    BY <1>1, <1>2 DEF ToSet
  <2> QED BY <1>1, <1>2, <2>1
<1>4. SrcSet(s, "write", ev, Tail(src[s].todo))
  <2>1. "write" \in {"connect", "read", "lock", "write"} /\ ev \in Events \union {Nothing}
    BY <1>2, SaysEvents
  <2> QED BY <1>1, <1>2, <1>3, <2>1, TypesAre, SetSrc
<1>5. src' \in [Sources -> Threads] /\ SrcType'
  BY <1>2, <1>4, TypesAre DEF SrcSet, SrcType
<1> HIDE DEF g, ev
<1>6. CASE CanWrite(g) /\ Put(g, ev) /\ clients' = clients
  <2> DEFINE b == Append(wire[g].buf, ev)
  <2>1. ev \in Events /\ wire[g].buf \in Seq(Events) /\ Len(wire[g].buf) < WireCap
        /\ wire[g].peer \in {"none", "waiting", "taken", "closed"} /\ gui[g].pc # "gone"
    BY <1>2, <1>3, <1>6, TypesAre, SaysEvents DEF Wires, CanWrite
  <2>2. b \in Seq(Events) /\ Len(b) <= WireCap
    BY <2>1, Bounds
  <2>3. wire' = [wire EXCEPT ![g].buf = b]
    BY <1>6 DEF Put
  <2> HIDE DEF b
  <2>4. WireSet(g, wire[g].peer, b)
    BY <1>2, <1>3, <2>1, <2>2, <2>3, TypesAre, SetWire
  <2>5. wire' \in [Guis -> Wires] /\ WireType'
    BY <1>2, <2>2, <2>4, TypesAre DEF WireSet, WireType
  <2>6. TypeOK'
    <3>1. FeedType' /\ CountType'
      BY <1>1, <1>2, TypesAre DEF FeedType, CountType
    <3> QED BY <1>1, <1>2, <1>5, <1>6, <2>5, <3>1, TypesAre
            DEF TypeOK, FeedType, SrcType, WireType, CountType
  <2> QED BY <1>1, <1>2, <1>3, <1>4, <1>6, <2>1, <2>4, <2>6 DEF b, g, ev
<1>7. CASE Fails(g) /\ clients' = Without(clients, g) /\ wire' = wire
  <2>1. clients' \in Stacks(Guis) /\ ToSet(clients') = ToSet(clients) \ {g}
    BY <1>2, <1>7, WithoutIs, StacksAre, Bounds, TypesAre
  <2>2. TypeOK'
    <3>1. FeedType' /\ CountType' /\ WireType'
      BY <1>1, <1>2, <1>7, TypesAre DEF FeedType, CountType, WireType
    <3> QED BY <1>1, <1>2, <1>5, <1>7, <2>1, <3>1, TypesAre
            DEF TypeOK, FeedType, SrcType, WireType, CountType
  <2> QED BY <1>1, <1>2, <1>3, <1>4, <1>7, <2>1, <2>2 DEF Fails, g, ev
<1> QED BY <1>1, <1>6, <1>7 DEF g, ev

LEMMA UnlockIs ==
  ASSUME TypeOK, NEW s \in Sources, Unlock(s)
  PROVE  /\ TypeOK'
         /\ UNCHANGED <<keyd, feed, snap, clients, adder, helper, wire, gui, count, joined>>
         /\ src[s].pc = "write" /\ src[s].todo = <<>> /\ lock' = "free"
         /\ SrcSet(s, "read", Nothing, <<>>)
<1>1. /\ UNCHANGED <<keyd, feed, snap, clients, adder, helper, wire, gui, count, joined>>
      /\ src[s].pc = "write" /\ src[s].todo = <<>> /\ lock' = "free"
      /\ src' = [src EXCEPT ![s] = [Idle EXCEPT !.pc = "read"]]
  BY DEF Unlock, keydVars, guiVars
<1>2. SrcSet(s, "read", Nothing, <<>>)
  <2>1. src[s].ev \in Events \union {Nothing} /\ src[s].todo \in Seq(Guis)
    BY TypesAre DEF Threads
  <2> QED BY <1>1, <2>1, TypesAre, SetSrc
<1>3. src' \in [Sources -> Threads] /\ SrcType'
  BY <1>2, TypesAre DEF SrcSet, SrcType
<1>4. FeedType' /\ WireType' /\ CountType'
  BY <1>1, TypesAre DEF FeedType, WireType, CountType
<1> QED BY <1>1, <1>2, <1>3, <1>4, TypesAre
        DEF TypeOK, FeedType, SrcType, WireType, CountType

LEMMA LostIs ==
  ASSUME TypeOK, NEW s \in Sources, Lost(s)
  PROVE  /\ TypeOK'
         /\ UNCHANGED <<keyd, feed, clients, lock, adder, helper, wire, gui, count, joined>>
         /\ src[s].pc = "read" /\ ~feed[s].open
         /\ SrcSet(s, "connect", Nothing, <<>>)
         /\ s = "layers" => snap' = <<>>
         /\ s # "layers" => snap' = snap
<1>1. /\ UNCHANGED <<keyd, feed, clients, lock, adder, helper, wire, gui, count, joined>>
      /\ src[s].pc = "read" /\ ~feed[s].open
      /\ src' = [src EXCEPT ![s] = Idle]
      /\ snap' = IF s = "layers" THEN <<>> ELSE snap
  BY DEF Lost, keydVars, guiVars, Shut
<1>2. SrcSet(s, "connect", Nothing, <<>>)
  <2>1. Idle \in Threads /\ Idle.pc = "connect" /\ Idle.ev = Nothing /\ Idle.todo = <<>>
    BY DEF Idle, Threads
  <2> QED BY <1>1, <2>1, TypesAre DEF SrcSet
<1>3. src' \in [Sources -> Threads] /\ SrcType'
  BY <1>2, TypesAre DEF SrcSet, SrcType
<1>4. FeedType' /\ WireType' /\ CountType'
  BY <1>1, TypesAre DEF FeedType, WireType, CountType
<1>5. snap' \in Stacks(Layers)
  BY <1>1, EmptyStack, Bounds, TypesAre
<1> QED BY <1>1, <1>2, <1>3, <1>4, <1>5, TypesAre
        DEF TypeOK, FeedType, SrcType, WireType, CountType

-----------------------------------------------------------------------------
(* What the steps do: the accept loop.                                     *)

LEMMA NoAddIs ==
  /\ NoAdd.pc = "accept" /\ NoAdd.copy = <<>>
  /\ NoAdd \in [pc : {"accept", "copy", "replay"}, gui : Guis \union {NoGui},
                copy : Stacks(Layers)]
<1>1. <<>> \in Stacks(Layers)
  BY EmptyStack, Bounds
<1> QED BY <1>1 DEF NoAdd

LEMMA AcceptIs ==
  ASSUME TypeOK, NEW g \in Guis, Accept(g)
  PROVE  /\ TypeOK'
         /\ UNCHANGED <<keyd, feed, snap, clients, lock, src, helper, gui, count, joined>>
         /\ adder.pc = "accept" /\ wire[g].peer = "waiting"
         /\ WireSet(g, "taken", wire[g].buf)
         /\ adder'.pc \in {"accept", "copy"}
         /\ adder'.pc = "copy" => adder'.gui = g
<1>1. /\ UNCHANGED <<keyd, feed, snap, clients, lock, src, helper, gui, count, joined>>
      /\ adder.pc = "accept" /\ wire[g].peer = "waiting"
      /\ wire' = [wire EXCEPT ![g].peer = "taken"]
      /\ \/ adder' = NoAdd
         \/ adder' = [NoAdd EXCEPT !.pc = "copy", !.gui = g]
  BY DEF Accept, keydVars
<1>2. WireSet(g, "taken", wire[g].buf)
  <2>1. wire[g].buf \in Seq(Events)
    BY TypesAre DEF Wires
  <2> QED BY <1>1, <2>1, TypesAre, SetWire
<1>3. wire' \in [Guis -> Wires] /\ WireType'
  BY <1>2, TypesAre DEF WireSet, WireType
<1>4. /\ adder' \in [pc : {"accept", "copy", "replay"}, gui : Guis \union {NoGui},
                     copy : Stacks(Layers)]
      /\ adder'.pc \in {"accept", "copy"}
      /\ adder'.pc = "copy" => adder'.gui = g
  <2>1. CASE adder' = NoAdd
    BY <2>1, NoAddIs
  <2>2. CASE adder' = [NoAdd EXCEPT !.pc = "copy", !.gui = g]
    BY <2>2, NoAddIs
  <2> QED BY <1>1, <2>1, <2>2
<1>5. FeedType' /\ SrcType' /\ CountType'
  BY <1>1, TypesAre DEF FeedType, SrcType, CountType
<1> QED BY <1>1, <1>2, <1>3, <1>4, <1>5, TypesAre
        DEF TypeOK, FeedType, SrcType, WireType, CountType

LEMMA SnapshotIs ==
  ASSUME Basics, Snapshot
  PROVE  /\ TypeOK'
         /\ UNCHANGED <<keyd, feed, snap, clients, lock, src, helper, wire, gui, count>>
         /\ adder.pc = "copy" /\ adder.gui \in Guis
         /\ AdderSet("replay", adder.gui, snap)
         /\ joined'[adder.gui] = IF gui[adder.gui].active = <<>> THEN count.streams ELSE 0
         /\ \A o \in Guis \ {adder.gui} : joined'[o] = joined[o]
<1>1. /\ UNCHANGED <<keyd, feed, snap, clients, lock, src, helper, wire, gui, count>>
      /\ adder.pc = "copy"
      /\ adder' = [adder EXCEPT !.pc = "replay", !.copy = snap]
      /\ joined' = [joined EXCEPT ![adder.gui] =
                      IF gui[adder.gui].active = <<>> THEN count.streams ELSE 0]
  BY DEF Snapshot, keydVars, guiVars
<1>2. TypeOK /\ adder.gui \in Guis
  BY <1>1 DEF Basics, Joining
<1>3. AdderSet("replay", adder.gui, snap)
  BY <1>1, <1>2, TypesAre DEF AdderSet
<1>4. /\ joined' \in [Guis -> Nat]
      /\ joined'[adder.gui] = IF gui[adder.gui].active = <<>> THEN count.streams ELSE 0
      /\ \A o \in Guis \ {adder.gui} : joined'[o] = joined[o]
  <2>1. count.streams \in Nat
    BY <1>2, TypesAre DEF CountType
  <2> QED BY <1>1, <1>2, <2>1, TypesAre
<1>5. FeedType' /\ SrcType' /\ WireType' /\ CountType'
  BY <1>1, <1>2, TypesAre DEF FeedType, SrcType, WireType, CountType
<1>6. TypeOK'
  BY <1>1, <1>2, <1>3, <1>4, <1>5, TypesAre
     DEF TypeOK, FeedType, SrcType, WireType, CountType, AdderSet
<1> QED BY <1>1, <1>2, <1>3, <1>4, <1>6

LEMMA ReplayIs ==
  ASSUME Basics, Replay
  PROVE  /\ TypeOK'
         /\ UNCHANGED <<keyd, feed, snap, clients, lock, src, helper, gui, count, joined>>
         /\ adder.pc = "replay" /\ adder.copy # <<>> /\ adder.gui \in Guis
         /\ \/ /\ gui[adder.gui].pc # "gone"
               /\ WireSet(adder.gui, wire[adder.gui].peer,
                          Append(wire[adder.gui].buf, On(Head(adder.copy))))
               /\ On(Head(adder.copy)) \in LayerEvents
               /\ AdderSet("replay", adder.gui, Tail(adder.copy))
            \/ adder'.pc = "accept" /\ wire' = wire
<1> DEFINE g == adder.gui
           ev == On(Head(adder.copy))
<1>1. /\ UNCHANGED <<keyd, feed, snap, clients, lock, src, helper, gui, count, joined>>
      /\ adder.pc = "replay" /\ adder.copy # <<>>
      /\ \/ CanWrite(g) /\ Put(g, ev) /\ adder' = [adder EXCEPT !.copy = Tail(@)]
         \/ Fails(g) /\ adder' = NoAdd /\ wire' = wire
  BY DEF Replay, keydVars
<1>2. TypeOK /\ g \in Guis
  BY <1>1 DEF Basics, Joining
<1>3. /\ adder.copy \in Seq(Layers) /\ IsInjective(adder.copy)
      /\ ev \in LayerEvents
      /\ Tail(adder.copy) \in Stacks(Layers)
  <2> DEFINE c == adder.copy
             t == Tail(adder.copy)
  <2>1. c \in Seq(Layers) /\ IsInjective(c) /\ c # <<>>
    BY <1>1, <1>2, TypesAre, StacksAre, Bounds
  <2>2. t \in Seq(Layers) /\ IsInjective(t)
    BY <2>1, TailIs
  <2>3. t \in Stacks(Layers)
    <3> HIDE DEF t
    <3> QED BY <2>2, StacksAre, Bounds
  <2>4. ev \in LayerEvents
    BY <2>1, EventsAre
  <2> QED BY <2>1, <2>3, <2>4
<1>4. FeedType' /\ SrcType' /\ CountType'
  BY <1>1, <1>2, TypesAre DEF FeedType, SrcType, CountType
<1> HIDE DEF g, ev
<1>5. CASE CanWrite(g) /\ Put(g, ev) /\ adder' = [adder EXCEPT !.copy = Tail(@)]
  <2> DEFINE b == Append(wire[g].buf, ev)
             t == Tail(adder.copy)
  <2>1. ev \in Events /\ wire[g].buf \in Seq(Events) /\ Len(wire[g].buf) < WireCap
        /\ wire[g].peer \in {"none", "waiting", "taken", "closed"} /\ gui[g].pc # "gone"
    BY <1>2, <1>3, <1>5, TypesAre, EventsAre DEF Wires, CanWrite
  <2>2. b \in Seq(Events) /\ Len(b) <= WireCap
    BY <2>1, Bounds
  <2>3. wire' = [wire EXCEPT ![g].buf = b]
    BY <1>5 DEF Put
  <2>4. t \in Stacks(Layers) /\ adder' = [adder EXCEPT !.copy = t]
    BY <1>3, <1>5
  <2> HIDE DEF b, t
  <2>5. WireSet(g, wire[g].peer, b)
    BY <1>2, <2>1, <2>2, <2>3, TypesAre, SetWire
  <2>6. wire' \in [Guis -> Wires] /\ WireType'
    BY <1>2, <2>2, <2>5, TypesAre DEF WireSet, WireType
  <2>7. AdderSet("replay", g, t)
    BY <1>1, <1>2, <2>4, TypesAre DEF AdderSet, g
  <2>8. TypeOK'
    BY <1>1, <1>2, <1>4, <2>6, <2>7, TypesAre
       DEF TypeOK, FeedType, SrcType, WireType, CountType, AdderSet
  <2> QED BY <1>1, <1>2, <1>3, <2>1, <2>5, <2>7, <2>8 DEF b, t, g, ev
<1>6. CASE Fails(g) /\ adder' = NoAdd /\ wire' = wire
  <2>1. TypeOK'
    <3>1. WireType'
      BY <1>2, <1>6, TypesAre DEF WireType
    <3> QED BY <1>1, <1>2, <1>4, <1>6, <3>1, TypesAre, NoAddIs
            DEF TypeOK, FeedType, SrcType, WireType, CountType
  <2> QED BY <1>1, <1>2, <1>6, <2>1, NoAddIs DEF g
<1> QED BY <1>1, <1>5, <1>6

LEMMA RegisterIs ==
  ASSUME Basics, Register
  PROVE  /\ TypeOK'
         /\ UNCHANGED <<keyd, feed, snap, lock, src, helper, wire, gui, count, joined>>
         /\ adder.pc = "replay" /\ adder.copy = <<>> /\ adder.gui \in Guis
         /\ lock = "free" /\ adder'.pc = "accept"
         /\ ToSet(clients') = ToSet(clients) \union {adder.gui}
<1> DEFINE g == adder.gui
<1>1. /\ UNCHANGED <<keyd, feed, snap, lock, src, helper, wire, gui, count, joined>>
      /\ adder.pc = "replay" /\ adder.copy = <<>> /\ lock = "free"
      /\ clients' = Append(clients, g) /\ adder' = NoAdd
  BY DEF Register, keydVars, guiVars
<1>2. TypeOK /\ g \in Guis /\ g \notin ToSet(clients)
  BY <1>1 DEF Basics, Joining
<1>3. clients \in Seq(Guis) /\ IsInjective(clients)
  BY <1>2, TypesAre, StacksAre, Bounds
<1> HIDE DEF g
<1>4. /\ Append(clients, g) \in Seq(Guis) /\ IsInjective(Append(clients, g))
      /\ ToSet(Append(clients, g)) = ToSet(clients) \union {g}
  BY <1>2, <1>3, AppendSet
<1>5. clients' \in Stacks(Guis)
  <2> DEFINE c == Append(clients, g)
  <2> HIDE DEF c
  <2> SUFFICES c \in Stacks(Guis)
    BY <1>1 DEF c
  <2>1. c \in Seq(Guis) /\ IsInjective(c)
    BY <1>4 DEF c
  <2> QED BY <2>1, StacksAre, Bounds
<1>6. FeedType' /\ SrcType' /\ WireType' /\ CountType'
  BY <1>1, <1>2, TypesAre DEF FeedType, SrcType, WireType, CountType
<1>7. TypeOK'
  BY <1>1, <1>2, <1>5, <1>6, TypesAre, NoAddIs DEF TypeOK, FeedType, SrcType, WireType, CountType
<1> QED BY <1>1, <1>2, <1>4, <1>7, NoAddIs DEF g

LEMMA HelperStopsIs ==
  ASSUME TypeOK, HelperStops
  PROVE  /\ TypeOK'
         /\ UNCHANGED <<keyd, gui, joined>>
         /\ snap' = <<>> /\ clients' = <<>> /\ lock' = "free" /\ adder'.pc = "accept"
         /\ \A s \in Sources : src'[s].pc = "connect" /\ ~feed'[s].open
         /\ \A g \in Guis :
              /\ wire'[g].buf = wire[g].buf
              /\ wire'[g].peer = IF wire[g].peer = "none" THEN "none" ELSE "closed"
         /\ count'.streams = count.streams /\ count'.losses = count.losses
<1>1. /\ UNCHANGED <<keyd, gui, joined>>
      /\ helper' = FALSE /\ snap' = <<>> /\ clients' = <<>> /\ lock' = "free" /\ adder' = NoAdd
      /\ Counted("crashes", MaxCrashes)
  BY DEF HelperStops
<1>2. src' = [s \in Sources |-> Idle] /\ feed' = [s \in Sources |-> Shut]
  BY DEF HelperStops
<1>3. wire' = [g \in Guis |->
                [wire[g] EXCEPT !.peer = IF @ = "none" THEN "none" ELSE "closed"]]
  BY DEF HelperStops
<1>4. Idle \in Threads /\ Idle.pc = "connect" /\ Idle.ev = Nothing
  BY DEF Idle, Threads
<1>5. Shut \in Feeds /\ ~Shut.open /\ Shut.pipe = <<>>
  BY DEF Shut, Feeds
<1>6. src' \in [Sources -> Threads] /\ SrcType' /\ \A s \in Sources : src'[s].pc = "connect"
  BY <1>2, <1>4 DEF SrcType
<1>7. feed' \in [Sources -> Feeds] /\ FeedType' /\ \A s \in Sources : ~feed'[s].open
  <2>1. \A s \in Sources : <<>> \in Seq(Says(s)) /\ Len(<<>>) <= KeydCap
    BY Bounds
  <2> QED BY <1>2, <1>5, <2>1 DEF FeedType
<1>8. ASSUME NEW g \in Guis
      PROVE  /\ wire'[g] \in Wires /\ wire'[g].buf = wire[g].buf
             /\ wire'[g].peer = IF wire[g].peer = "none" THEN "none" ELSE "closed"
  <2>1. wire[g] \in Wires
    BY TypesAre
  <2> DEFINE w == wire[g]
             p == IF w.peer = "none" THEN "none" ELSE "closed"
  <2>2. wire'[g] = [w EXCEPT !.peer = p]
    BY <1>3
  <2>3. p \in {"none", "waiting", "taken", "closed"} /\ w \in Wires
    BY <2>1
  <2> HIDE DEF w, p
  <2>4. wire'[g] \in Wires /\ wire'[g].buf = w.buf /\ wire'[g].peer = p
    BY <2>2, <2>3 DEF Wires
  <2> QED BY <2>4 DEF w, p
<1>9. wire' \in [Guis -> Wires] /\ WireType'
  BY <1>3, <1>8, TypesAre DEF WireType
<1>10. CountType' /\ count'.streams = count.streams /\ count'.losses = count.losses
  BY <1>1, CountedIs, TypesAre
<1>11. snap' \in Stacks(Layers) /\ clients' \in Stacks(Guis)
  BY <1>1, EmptyStack, Bounds
<1>12. TypeOK'
  BY <1>1, <1>6, <1>7, <1>9, <1>10, <1>11, TypesAre, NoAddIs
     DEF TypeOK, FeedType, SrcType, WireType, CountType
<1> QED BY <1>1, <1>6, <1>7, <1>8, <1>10, <1>12, NoAddIs

LEMMA HelperStartsIs ==
  ASSUME TypeOK, HelperStarts
  PROVE  /\ TypeOK'
         /\ UNCHANGED <<keyd, feed, snap, clients, lock, src, adder, wire, gui, count, joined>>
<1>1. /\ UNCHANGED <<keyd, feed, snap, clients, lock, src, adder, wire, gui, count, joined>>
      /\ helper' = TRUE
  BY DEF HelperStarts, keydVars, guiVars
<1>2. FeedType' /\ SrcType' /\ WireType' /\ CountType'
  BY <1>1, TypesAre DEF FeedType, SrcType, WireType, CountType
<1> QED BY <1>1, <1>2, TypesAre DEF TypeOK, FeedType, SrcType, WireType, CountType

-----------------------------------------------------------------------------
(* What the steps do: the GUIs.                                            *)

\* What the closures posted to a window do to the keys it shows as held.
HeldStep(h, p) ==
  IF p.post = "key" THEN PressKey(h, p.ev)
  ELSE IF p.post = "connection" /\ ~p.live THEN {} ELSE h
HeldAll(h, ps) == FoldLeft(HeldStep, h, ps)

LEMMA DialIs ==
  ASSUME TypeOK, NEW g \in Guis, Dial(g)
  PROVE  /\ TypeOK'
         /\ UNCHANGED <<keyd, feed, snap, clients, lock, src, adder, helper, count, joined>>
         /\ gui[g].pc = "dial"
         /\ WireSet(g, "waiting", <<>>)
         /\ Connection(TRUE) \in Posts
         /\ GuiSet(g, "read", gui[g].active, Append(gui[g].posts, Connection(TRUE)))
<1> DEFINE c == Connection(TRUE)
           none == <<>>
<1>1. /\ UNCHANGED <<keyd, feed, snap, clients, lock, src, adder, helper, count, joined>>
      /\ gui[g].pc = "dial"
      /\ wire' = [wire EXCEPT ![g] = [peer |-> "waiting", buf |-> none]]
      /\ gui' = [gui EXCEPT ![g] = Posted([@ EXCEPT !.pc = "read"], c)]
  BY DEF Dial, keydVars, helperVars
<1>2. none \in Seq(Events) /\ Len(none) <= WireCap
  BY Bounds
<1>3. c \in Posts
  BY PostsIn
<1> HIDE DEF c
<1>4. gui[g].active \in Stacks(Layers)
  BY <1>3, TypesAre DEF Windows
<1> HIDE DEF none
<1>5. WireSet(g, "waiting", none)
  BY <1>1, <1>2, TypesAre, SetWire
<1>6. wire' \in [Guis -> Wires] /\ WireType'
  BY <1>2, <1>5, TypesAre DEF WireSet, WireType
<1>7. GuiSet(g, "read", gui[g].active, Append(gui[g].posts, c))
  BY <1>1, <1>3, <1>4, TypesAre, SetGui
<1>8. TypeOK'
  <2>1. FeedType' /\ SrcType' /\ CountType' /\ gui' \in [Guis -> Windows]
    BY <1>1, <1>7, TypesAre DEF FeedType, SrcType, CountType, GuiSet
  <2> QED BY <1>1, <1>6, <2>1, TypesAre DEF TypeOK, FeedType, SrcType, WireType, CountType
<1> QED BY <1>1, <1>3, <1>5, <1>7, <1>8 DEF c, none

\* An event is taken off the wire and a closure posted.
LEMMA TakeIs ==
  ASSUME TypeOK, NEW g \in Guis, wire[g].buf # <<>>,
         wire' = [wire EXCEPT ![g].buf = Tail(@)]
  PROVE  /\ WireSet(g, wire[g].peer, Tail(wire[g].buf)) /\ WireType'
         /\ wire[g].buf \in Seq(Events) /\ Head(wire[g].buf) \in Events
         /\ Tail(wire[g].buf) \in Seq(Events)
<1> DEFINE b == wire[g].buf
           t == Tail(wire[g].buf)
<1>1. b \in Seq(Events) /\ b # <<>> /\ Len(b) <= WireCap
      /\ wire[g].peer \in {"none", "waiting", "taken", "closed"}
  BY TypesAre DEF Wires, WireType
<1>2. Head(b) \in Events /\ t \in Seq(Events) /\ Len(t) <= WireCap
  BY <1>1, Bounds
<1>3. wire' = [wire EXCEPT ![g].buf = t]
  OBVIOUS
<1> HIDE DEF t
<1>4. WireSet(g, wire[g].peer, t)
  BY <1>1, <1>2, <1>3, TypesAre, SetWire
<1>5. WireType'
  BY <1>2, <1>4, TypesAre DEF WireSet, WireType
<1> QED BY <1>1, <1>2, <1>4, <1>5 DEF t

LEMMA ReceiveLayerIs ==
  ASSUME TypeOK, NEW g \in Guis, ReceiveLayer(g)
  PROVE  /\ TypeOK'
         /\ UNCHANGED <<keyd, feed, snap, clients, lock, src, adder, helper, count, joined>>
         /\ gui[g].pc = "read" /\ wire[g].buf # <<>> /\ wire[g].buf \in Seq(Events)
         /\ Head(wire[g].buf) \in LayerEvents
         /\ WireSet(g, wire[g].peer, Tail(wire[g].buf))
         /\ \E p \in Posts :
              /\ p.post = "layers"
              /\ GuiSet(g, "read", ApplyLayer(gui[g].active, Head(wire[g].buf)),
                        Append(gui[g].posts, p))
<1> DEFINE ev == Head(wire[g].buf)
           now == ApplyLayer(gui[g].active, ev)
           p == Show(now)
<1>1. /\ UNCHANGED <<keyd, feed, snap, clients, lock, src, adder, helper, count, joined>>
      /\ gui[g].pc = "read" /\ wire[g].buf # <<>> /\ IsLayer(ev)
      /\ wire' = [wire EXCEPT ![g].buf = Tail(@)]
      /\ gui' = [gui EXCEPT ![g] = Posted([@ EXCEPT !.active = now], p)]
  BY DEF ReceiveLayer, keydVars, helperVars
<1>2. /\ WireSet(g, wire[g].peer, Tail(wire[g].buf)) /\ WireType'
      /\ wire[g].buf \in Seq(Events) /\ ev \in Events
  BY <1>1, TakeIs
<1>3. ev \in LayerEvents /\ ev.name \in Layers
  BY <1>1, <1>2, EventsAre DEF Events
<1> HIDE DEF ev
<1>4. now \in Stacks(Layers)
  <2>1. gui[g].active \in Stacks(Layers)
    BY TypesAre DEF Windows
  <2> QED BY <1>3, <2>1, ApplyLayerIs, Bounds
<1>5. p \in Posts /\ p.post = "layers"
  BY <1>4, PostsIn DEF Show
<1> HIDE DEF now, p
<1>7. GuiSet(g, gui[g].pc, now, Append(gui[g].posts, p))
  BY <1>1, <1>4, <1>5, TypesAre, SetGui
<1>8. TypeOK'
  <2>1. FeedType' /\ SrcType' /\ CountType' /\ gui' \in [Guis -> Windows]
        /\ wire' \in [Guis -> Wires]
    BY <1>1, <1>2, <1>7, TypesAre DEF FeedType, SrcType, CountType, GuiSet, WireSet
  <2> QED BY <1>1, <1>2, <2>1, TypesAre DEF TypeOK, FeedType, SrcType, WireType, CountType
<1> QED BY <1>1, <1>2, <1>3, <1>5, <1>7, <1>8 DEF ev, now

LEMMA ReceiveKeyIs ==
  ASSUME TypeOK, NEW g \in Guis, ReceiveKey(g)
  PROVE  /\ TypeOK'
         /\ UNCHANGED <<keyd, feed, snap, clients, lock, src, adder, helper, count, joined>>
         /\ gui[g].pc = "read" /\ wire[g].buf # <<>> /\ wire[g].buf \in Seq(Events)
         /\ Head(wire[g].buf) \in KeyEvents
         /\ WireSet(g, wire[g].peer, Tail(wire[g].buf))
         /\ Press(Head(wire[g].buf)) \in Posts
         /\ GuiSet(g, "read", gui[g].active,
                   Append(gui[g].posts, Press(Head(wire[g].buf))))
<1> DEFINE ev == Head(wire[g].buf)
           p == Press(ev)
<1>1. /\ UNCHANGED <<keyd, feed, snap, clients, lock, src, adder, helper, count, joined>>
      /\ gui[g].pc = "read" /\ wire[g].buf # <<>> /\ ~IsLayer(ev)
      /\ wire' = [wire EXCEPT ![g].buf = Tail(@)]
      /\ gui' = [gui EXCEPT ![g] = Posted(@, p)]
  BY DEF ReceiveKey, Post, keydVars, helperVars
<1>2. /\ WireSet(g, wire[g].peer, Tail(wire[g].buf)) /\ WireType'
      /\ wire[g].buf \in Seq(Events) /\ ev \in Events
  BY <1>1, TakeIs
<1>3. ev \in KeyEvents
  BY <1>1, <1>2, EventsAre DEF Events
<1> HIDE DEF ev
<1>4. p \in Posts
  BY <1>3, PostsIn
<1>5. gui[g].pc \in {"dial", "read", "gone"} /\ gui[g].active \in Stacks(Layers)
  BY TypesAre DEF Windows
<1> HIDE DEF p
<1>6. GuiSet(g, gui[g].pc, gui[g].active, Append(gui[g].posts, p))
  BY <1>1, <1>4, <1>5, TypesAre, SetGui
<1>7. TypeOK'
  <2>1. FeedType' /\ SrcType' /\ CountType' /\ gui' \in [Guis -> Windows]
        /\ wire' \in [Guis -> Wires]
    BY <1>1, <1>2, <1>6, TypesAre DEF FeedType, SrcType, CountType, GuiSet, WireSet
  <2> QED BY <1>1, <1>2, <2>1, TypesAre DEF TypeOK, FeedType, SrcType, WireType, CountType
<1> QED BY <1>1, <1>2, <1>3, <1>4, <1>6, <1>7 DEF ev, p

LEMMA HangUpIs ==
  ASSUME TypeOK, NEW g \in Guis, HangUp(g)
  PROVE  /\ TypeOK'
         /\ UNCHANGED <<keyd, feed, snap, clients, lock, src, adder, helper, count, joined>>
         /\ gui[g].pc = "read" /\ wire[g].peer = "closed"
         /\ WireSet(g, "none", wire[g].buf)
         /\ Connection(FALSE) \in Posts
         /\ GuiSet(g, "dial", gui[g].active, Append(gui[g].posts, Connection(FALSE)))
<1> DEFINE c == Connection(FALSE)
<1>1. /\ UNCHANGED <<keyd, feed, snap, clients, lock, src, adder, helper, count, joined>>
      /\ gui[g].pc = "read" /\ wire[g].peer = "closed"
      /\ wire' = [wire EXCEPT ![g].peer = "none"]
      /\ gui' = [gui EXCEPT ![g] = Posted([@ EXCEPT !.pc = "dial"], c)]
  BY DEF HangUp, keydVars, helperVars
<1>2. c \in Posts
  BY PostsIn
<1> HIDE DEF c
<1>3. gui[g].active \in Stacks(Layers) /\ wire[g].buf \in Seq(Events)
  BY TypesAre DEF Windows, Wires
<1>4. WireSet(g, "none", wire[g].buf)
  BY <1>1, <1>3, TypesAre, SetWire
<1>5. wire' \in [Guis -> Wires] /\ WireType'
  BY <1>4, TypesAre DEF WireSet, WireType
<1>6. GuiSet(g, "dial", gui[g].active, Append(gui[g].posts, c))
  BY <1>1, <1>2, <1>3, TypesAre, SetGui
<1>7. TypeOK'
  <2>1. FeedType' /\ SrcType' /\ CountType' /\ gui' \in [Guis -> Windows]
    BY <1>1, <1>6, TypesAre DEF FeedType, SrcType, CountType, GuiSet
  <2> QED BY <1>1, <1>5, <2>1, TypesAre DEF TypeOK, FeedType, SrcType, WireType, CountType
<1> QED BY <1>1, <1>2, <1>4, <1>6, <1>7 DEF c

LEMMA QuitIs ==
  ASSUME TypeOK, NEW g \in Guis, Quit(g)
  PROVE  /\ TypeOK'
         /\ UNCHANGED <<keyd, feed, snap, clients, lock, src, adder, helper, wire, joined>>
         /\ GuiSet(g, "gone", gui[g].active, gui[g].posts)
         /\ count'.streams = count.streams /\ count'.losses = count.losses
<1>1. /\ UNCHANGED <<keyd, feed, snap, clients, lock, src, adder, helper, wire, joined>>
      /\ gui' = [gui EXCEPT ![g].pc = "gone"] /\ Counted("quits", MaxQuits)
  BY DEF Quit, keydVars, helperVars
<1>2. gui[g].active \in Stacks(Layers) /\ Connection(TRUE) \in Posts
  BY TypesAre, PostsIn DEF Windows
<1>3. GuiSet(g, "gone", gui[g].active, gui[g].posts)
  BY <1>1, <1>2, TypesAre, SetGui
<1>4. CountType' /\ count'.streams = count.streams /\ count'.losses = count.losses
  BY <1>1, CountedIs, TypesAre
<1>5. FeedType' /\ SrcType' /\ WireType' /\ gui' \in [Guis -> Windows]
  BY <1>1, <1>3, TypesAre DEF FeedType, SrcType, WireType, GuiSet
<1> QED BY <1>1, <1>3, <1>4, <1>5, TypesAre DEF TypeOK, FeedType, SrcType, WireType, CountType

\* The window that a posted closure leaves.
LEMMA ShownIs ==
  ASSUME NEW w \in Windows, NEW p \in Posts
  PROVE  /\ Shown(w, p) \in Windows
         /\ Shown(w, p).pc = w.pc /\ Shown(w, p).active = w.active
         /\ Shown(w, p).posts = w.posts
         /\ Shown(w, p).held = HeldStep(w.held, p)
<1>1. /\ p.post = "layers" => p.stack \in Stacks(Layers)
      /\ p.post = "connection" => p.live \in BOOLEAN
      /\ p.post = "key" => p.ev \in KeyEvents
      /\ p.post \in {"layers", "connection", "key"}
  BY PostsAre
<1>2. CASE p.post = "layers"
  <2>1. Shown(w, p) = [w EXCEPT !.view = p.stack] /\ HeldStep(w.held, p) = w.held
    BY <1>2 DEF Shown, HeldStep
  <2> DEFINE v == p.stack
  <2>2. v \in Stacks(Layers) /\ Shown(w, p) = [w EXCEPT !.view = v]
    BY <1>1, <1>2, <2>1
  <2> HIDE DEF v
  <2> QED BY <2>1, <2>2 DEF Windows
<1>3. CASE p.post = "key"
  <2> DEFINE h == PressKey(w.held, p.ev)
  <2>1. Shown(w, p) = [w EXCEPT !.held = h] /\ HeldStep(w.held, p) = h
    BY <1>3 DEF Shown, HeldStep
  <2>2. h \in SUBSET Keys
    <3>1. w.held \in SUBSET Keys /\ p.ev \in KeyEvents
      BY <1>1, <1>3 DEF Windows
    <3> QED BY <3>1, PressKeyType
  <2> HIDE DEF h
  <2> QED BY <2>1, <2>2 DEF Windows
<1>4. CASE p.post = "connection" /\ p.live
  <2>1. Shown(w, p) = w /\ HeldStep(w.held, p) = w.held
    BY <1>4 DEF Shown, HeldStep
  <2> QED BY <2>1
<1>5. CASE p.post = "connection" /\ ~p.live
  <2> DEFINE none == <<>>
             h == {}
  <2>1. Shown(w, p) = [w EXCEPT !.view = none, !.held = h] /\ HeldStep(w.held, p) = h
    BY <1>5 DEF Shown, HeldStep
  <2>2. none \in Stacks(Layers) /\ h \in SUBSET Keys
    BY EmptyStack, Bounds
  <2> HIDE DEF none, h
  <2> QED BY <2>1, <2>2 DEF Windows
<1> QED BY <1>1, <1>2, <1>3, <1>4, <1>5

LEMMA RunPostIs ==
  ASSUME TypeOK, NEW g \in Guis, RunPost(g)
  PROVE  /\ TypeOK'
         /\ UNCHANGED <<keyd, feed, snap, clients, lock, src, adder, helper, wire, count, joined>>
         /\ gui[g].posts # <<>> /\ gui[g].posts \in Seq(Posts)
         /\ gui'[g].pc = gui[g].pc /\ gui'[g].active = gui[g].active
         /\ gui'[g].posts = Tail(gui[g].posts)
         /\ gui'[g].held = HeldStep(gui[g].held, Head(gui[g].posts))
         /\ \A o \in Guis \ {g} : gui'[o] = gui[o]
<1> DEFINE p == Head(gui[g].posts)
           t == Tail(gui[g].posts)
           w == [gui[g] EXCEPT !.posts = t]
<1>1. /\ UNCHANGED <<keyd, feed, snap, clients, lock, src, adder, helper, wire, count, joined>>
      /\ gui[g].posts # <<>>
      /\ gui' = [gui EXCEPT ![g] = Shown(w, p)]
  BY Zenon DEF RunPost, keydVars, helperVars
<1>2. gui[g] \in Windows /\ gui[g].posts \in Seq(Posts)
  BY TypesAre DEF Windows
<1>3. p \in Posts /\ t \in Seq(Posts)
  BY <1>1, <1>2
<1> HIDE DEF p, t
<1>4. /\ w \in Windows /\ w.pc = gui[g].pc /\ w.active = gui[g].active
      /\ w.posts = t /\ w.held = gui[g].held
  BY <1>2, <1>3 DEF Windows
<1> DEFINE x == Shown(w, p)
<1>5. /\ x \in Windows /\ x.pc = w.pc /\ x.active = w.active /\ x.posts = w.posts
      /\ x.held = HeldStep(w.held, p)
  <2> HIDE DEF w
  <2> QED BY <1>3, <1>4, ShownIs
<1> HIDE DEF x, w
<1>6. gui' \in [Guis -> Windows] /\ gui'[g] = x /\ \A o \in Guis \ {g} : gui'[o] = gui[o]
  <2>1. gui' = [gui EXCEPT ![g] = x]
    BY <1>1 DEF x
  <2> QED BY <1>5, <2>1, TypesAre
<1>7. FeedType' /\ SrcType' /\ WireType' /\ CountType'
  BY <1>1, TypesAre DEF FeedType, SrcType, WireType, CountType
<1>8. TypeOK'
  BY <1>1, <1>6, <1>7, TypesAre DEF TypeOK, FeedType, SrcType, WireType, CountType
<1> QED BY <1>1, <1>2, <1>4, <1>5, <1>6, <1>8 DEF p, t

-----------------------------------------------------------------------------
(* The steps, side by side.                                                *)

KeydStep == \/ \E l \in Layers : SwitchLayer(l)
            \/ \E k \in Keys : PressOrRelease(k)
            \/ KeydStops \/ KeydStarts \/ DropListener
GuiStep  == \E g \in Guis : ClientStep(g) \/ RunPost(g) \/ Quit(g)

\* keyd and the GUIs leave the helper alone.
LEMMA Sides ==
  /\ Next <=> \/ KeydStep \/ (\E s \in Sources : SourceStep(s)) \/ AddStep
              \/ HelperStops \/ HelperStarts \/ GuiStep
  /\ KeydStep => UNCHANGED <<snap, clients, lock, src, adder, helper, wire, gui, joined>>
  /\ GuiStep => UNCHANGED <<keyd, feed, snap, clients, lock, src, adder, helper, joined>>
<1>1. ASSUME KeydStep
      PROVE  UNCHANGED <<snap, clients, lock, src, adder, helper, wire, gui, joined>>
  BY <1>1 DEF KeydStep, SwitchLayer, PressOrRelease, KeydStops, KeydStarts, DropListener,
              helperVars, guiVars
<1>2. ASSUME NEW g \in Guis, ClientStep(g) \/ RunPost(g) \/ Quit(g)
      PROVE  UNCHANGED <<keyd, feed, snap, clients, lock, src, adder, helper, joined>>
  <2>1. CASE Dial(g)
    BY <2>1 DEF Dial, keydVars, helperVars
  <2>2. CASE ReceiveLayer(g)
    BY <2>2 DEF ReceiveLayer, keydVars, helperVars
  <2>3. CASE ReceiveKey(g)
    BY <2>3 DEF ReceiveKey, keydVars, helperVars
  <2>4. CASE HangUp(g)
    BY <2>4 DEF HangUp, keydVars, helperVars
  <2>5. CASE RunPost(g)
    BY <2>5 DEF RunPost, keydVars, helperVars
  <2>6. CASE Quit(g)
    BY <2>6 DEF Quit, keydVars, helperVars
  <2> QED BY <1>2, <2>1, <2>2, <2>3, <2>4, <2>5, <2>6 DEF ClientStep
<1>3. Next <=> \/ KeydStep \/ (\E s \in Sources : SourceStep(s)) \/ AddStep
               \/ HelperStops \/ HelperStarts \/ GuiStep
  BY DEF Next, KeydStep, GuiStep
<1> QED BY <1>1, <1>2, <1>3 DEF GuiStep

LEMMA TypeStep ==
  ASSUME Basics, Next
  PROVE  TypeOK'
<1>0. TypeOK
  BY DEF Basics
<1>1. CASE KeydStep
  BY <1>0, <1>1, SwitchIs, PressIs, KeydStopsIs, KeydStartsIs, DropListenerIs DEF KeydStep
<1>2. ASSUME NEW s \in Sources, SourceStep(s) PROVE TypeOK'
  BY <1>0, <1>2, ConnectIs, ReadIs, LockIs, WriteIs, UnlockIs, LostIs DEF SourceStep
<1>3. CASE AddStep
  BY <1>0, <1>3, AcceptIs, SnapshotIs, ReplayIs, RegisterIs DEF AddStep
<1>4. CASE HelperStops \/ HelperStarts
  BY <1>0, <1>4, HelperStopsIs, HelperStartsIs
<1>5. CASE GuiStep
  BY <1>0, <1>5, DialIs, ReceiveLayerIs, ReceiveKeyIs, HangUpIs, RunPostIs, QuitIs
     DEF GuiStep, ClientStep
<1> QED BY <1>1, <1>2, <1>3, <1>4, <1>5, Sides

-----------------------------------------------------------------------------
(* Locking is kept.                                                        *)

LEMMA LockingStep ==
  ASSUME Basics, Next
  PROVE  Locking'
<1>0. TypeOK /\ Locking
  BY DEF Basics
<1>1. ASSUME UNCHANGED <<lock, src, clients>> PROVE Locking'
  BY <1>0, <1>1 DEF Locking
<1>2. CASE KeydStep \/ GuiStep \/ HelperStarts
  BY <1>0, <1>1, <1>2, Sides, HelperStartsIs
<1>3. CASE HelperStops
  BY <1>0, <1>3, HelperStopsIs, SourcesAre DEF Locking
<1>4. CASE AddStep
  <2>1. CASE (\E g \in Guis : Accept(g)) \/ Snapshot \/ Replay
    BY <1>0, <1>1, <2>1, AcceptIs, SnapshotIs, ReplayIs
  <2>2. CASE Register
    BY <1>0, <2>2, RegisterIs DEF Locking
  <2> QED BY <1>4, <2>1, <2>2 DEF AddStep
<1>5. ASSUME NEW s \in Sources, SourceStep(s) PROVE Locking'
  <2>1. CASE Connect(s)
    BY <1>0, <2>1, ConnectIs DEF Locking, SrcSet
  <2>2. CASE Read(s)
    BY <1>0, <2>2, ReadIs DEF Locking, SrcSet
  <2>3. CASE Lock(s)
    <3>1. IsInjective(clients)
      BY <1>0, TypesAre, StacksAre, Bounds
    <3> QED BY <1>0, <2>3, <3>1, LockIs, SourcesAre DEF Locking, SrcSet
  <2>4. CASE Write(s)
    <3>1. /\ src[s].todo \in Seq(Guis) /\ src[s].todo # <<>> /\ IsInjective(src[s].todo)
          /\ ToSet(src[s].todo) \subseteq ToSet(clients) /\ lock = s
          /\ lock' = lock /\ src[s].pc = "write"
          /\ SrcSet(s, "write", src[s].ev, Tail(src[s].todo))
          /\ ToSet(clients) \ {Head(src[s].todo)} \subseteq ToSet(clients')
      BY <1>0, <2>4, WriteIs, TypesAre DEF Locking, Threads
    <3>2. /\ IsInjective(Tail(src[s].todo))
          /\ ToSet(Tail(src[s].todo)) = ToSet(src[s].todo) \ {Head(src[s].todo)}
      BY <3>1, TailIs
    <3> QED BY <1>0, <3>1, <3>2 DEF Locking, SrcSet
  <2>5. CASE Unlock(s)
    BY <1>0, <2>5, UnlockIs, SourcesAre DEF Locking, SrcSet
  <2>6. CASE Lost(s)
    BY <1>0, <2>6, LostIs DEF Locking, SrcSet
  <2> QED BY <1>5, <2>1, <2>2, <2>3, <2>4, <2>5, <2>6 DEF SourceStep
<1> QED BY <1>2, <1>3, <1>4, <1>5, Sides

-----------------------------------------------------------------------------
(* Joining is kept.                                                        *)

LEMMA JoiningStep ==
  ASSUME Basics, Next
  PROVE  Joining'
<1>0. TypeOK /\ Joining /\ \A g \in ToSet(clients) : g \in Guis
  BY TypesAre, StacksAre, Bounds DEF Basics, ToSet
<1>1. ASSUME UNCHANGED <<clients, wire, adder, gui>> PROVE Joining'
  BY <1>0, <1>1 DEF Joining
<1>2. CASE KeydStep \/ HelperStarts
  BY <1>0, <1>1, <1>2, Sides, HelperStartsIs
<1>3. CASE HelperStops
  BY <1>0, <1>3, HelperStopsIs, EmptyStack, Bounds DEF Joining
<1>4. CASE AddStep
  <2>1. ASSUME NEW g \in Guis, Accept(g) PROVE Joining'
    <3>1. /\ UNCHANGED <<clients, gui>>
          /\ adder.pc = "accept" /\ wire[g].peer = "waiting"
          /\ wire'[g].peer = "taken" /\ wire'[g].buf = wire[g].buf
          /\ \A o \in Guis \ {g} : wire'[o] = wire[o]
          /\ adder'.pc \in {"accept", "copy"} /\ (adder'.pc = "copy" => adder'.gui = g)
      BY <1>0, <2>1, AcceptIs DEF WireSet
    <3> QED BY <1>0, <3>1 DEF Joining
  <2>2. CASE Snapshot
    BY <1>0, <2>2, SnapshotIs DEF Joining, AdderSet
  <2>3. CASE Replay
    <3>1. CASE adder'.pc = "accept" /\ wire' = wire
      BY <1>0, <2>3, <3>1, ReplayIs DEF Joining
    <3>2. CASE ~(adder'.pc = "accept" /\ wire' = wire)
      <4>1. /\ adder.pc = "replay" /\ adder'.pc = "replay" /\ adder'.gui = adder.gui
            /\ UNCHANGED <<clients, gui>>
            /\ \A o \in Guis : wire'[o].peer = wire[o].peer
            /\ \A o \in Guis \ {adder.gui} : wire'[o] = wire[o]
        BY <1>0, <2>3, <3>2, ReplayIs DEF WireSet, AdderSet
      <4> QED BY <1>0, <4>1 DEF Joining
    <3> QED BY <3>1, <3>2
  <2>4. CASE Register
    BY <1>0, <2>4, RegisterIs DEF Joining
  <2> QED BY <1>4, <2>1, <2>2, <2>3, <2>4 DEF AddStep
<1>5. ASSUME NEW s \in Sources, SourceStep(s) PROVE Joining'
  <2>1. CASE ~Write(s)
    BY <1>0, <1>1, <1>5, <2>1, ConnectIs, ReadIs, LockIs, UnlockIs, LostIs DEF SourceStep
  <2>2. CASE Write(s)
    <3>1. /\ UNCHANGED <<adder, gui>>
          /\ ToSet(clients') \subseteq ToSet(clients)
      BY <2>2, WriteIs DEF WireSet
    <3>2. PICK g \in ToSet(clients) : \A o \in Guis : /\ wire'[o].peer = wire[o].peer
                                                      /\ o # g => wire'[o] = wire[o]
      BY <2>2, WriteIs DEF WireSet
    <3> QED BY <1>0, <3>1, <3>2 DEF Joining
  <2> QED BY <2>1, <2>2
<1>6. CASE GuiStep
  <2>1. UNCHANGED <<clients, adder>>
    BY <1>6, Sides
  <2>2. ASSUME NEW g \in Guis, Dial(g) PROVE Joining'
    <3>1. /\ gui[g].pc = "dial" /\ gui'[g].pc = "read"
          /\ wire'[g].peer = "waiting" /\ wire'[g].buf = <<>>
          /\ \A o \in Guis \ {g} : wire'[o] = wire[o] /\ gui'[o] = gui[o]
      BY <1>0, <2>2, DialIs DEF WireSet, GuiSet
    <3> QED BY <1>0, <2>1, <3>1 DEF Joining
  <2>3. ASSUME NEW g \in Guis, ReceiveLayer(g) PROVE Joining'
    <3>1. /\ gui[g].pc = "read" /\ gui'[g].pc = "read" /\ wire[g].buf # <<>>
          /\ wire'[g].peer = wire[g].peer
          /\ \A o \in Guis \ {g} : wire'[o] = wire[o] /\ gui'[o] = gui[o]
      BY <1>0, <2>3, ReceiveLayerIs DEF WireSet, GuiSet
    <3> QED BY <1>0, <2>1, <3>1 DEF Joining
  <2>4. ASSUME NEW g \in Guis, ReceiveKey(g) PROVE Joining'
    <3>1. /\ gui[g].pc = "read" /\ gui'[g].pc = "read" /\ wire[g].buf # <<>>
          /\ wire'[g].peer = wire[g].peer
          /\ \A o \in Guis \ {g} : wire'[o] = wire[o] /\ gui'[o] = gui[o]
      BY <1>0, <2>4, ReceiveKeyIs DEF WireSet, GuiSet
    <3> QED BY <1>0, <2>1, <3>1 DEF Joining
  <2>5. ASSUME NEW g \in Guis, HangUp(g) PROVE Joining'
    <3>1. /\ wire[g].peer = "closed" /\ wire'[g].peer = "none"
          /\ \A o \in Guis \ {g} : wire'[o] = wire[o] /\ gui'[o] = gui[o]
      BY <1>0, <2>5, HangUpIs DEF WireSet, GuiSet
    <3> QED BY <1>0, <2>1, <3>1 DEF Joining
  <2>6. ASSUME NEW g \in Guis, RunPost(g) PROVE Joining'
    BY <1>0, <2>1, <2>6, RunPostIs DEF Joining
  <2>7. ASSUME NEW g \in Guis, Quit(g) PROVE Joining'
    BY <1>0, <2>1, <2>7, QuitIs DEF Joining, GuiSet
  <2> QED BY <1>6, <2>2, <2>3, <2>4, <2>5, <2>6, <2>7 DEF GuiStep, ClientStep
<1> QED BY <1>2, <1>3, <1>4, <1>5, <1>6, Sides

-----------------------------------------------------------------------------
(* Streams is kept, and SnapshotTracks.                                    *)

\* The layer events that count.
LEMMA LayerTypes ==
  ASSUME TypeOK
  PROVE  /\ snap \in Stacks(Layers)
         /\ feed["layers"].pipe \in Seq(LayerEvents)
         /\ keyd.stack \in Stacks(Layers)
         /\ \A g \in Guis : gui[g].active \in Stacks(Layers) /\ wire[g].buf \in Seq(Events)
<1>1. Says("layers") = LayerEvents
  BY SourcesAre, SaysEvents
<1> QED BY <1>1, TypesAre, SourcesAre DEF FeedType, Windows, Wires

LEMMA StreamsStep ==
  ASSUME Basics, Streams, Next
  PROVE  Streams'
<1> DEFINE th == src["layers"]
<1>0. TypeOK /\ Locking /\ "layers" \in Sources /\ joined \in [Guis -> Nat] /\ count.streams \in Nat
  BY SourcesAre, TypesAre DEF Basics, CountType
<1>1. ASSUME th' = th, UNCHANGED <<snap, joined>>, count'.streams = count.streams
      PROVE  Streams'
  BY <1>1 DEF Streams
<1>2. CASE KeydStep
  <2>1. count'.streams = count.streams
    BY <1>0, <1>2, SwitchIs, PressIs, KeydStopsIs, KeydStartsIs, DropListenerIs DEF KeydStep
  <2> QED BY <1>1, <1>2, <2>1, Sides
<1>3. CASE GuiStep
  <2>1. count'.streams = count.streams
    BY <1>0, <1>3, DialIs, ReceiveLayerIs, ReceiveKeyIs, HangUpIs, RunPostIs, QuitIs
       DEF GuiStep, ClientStep
  <2> QED BY <1>1, <1>3, <2>1, Sides
<1>4. CASE HelperStops
  BY <1>0, <1>4, HelperStopsIs DEF Streams
<1>5. CASE HelperStarts
  BY <1>0, <1>1, <1>5, HelperStartsIs
<1>6. CASE AddStep
  <2>1. CASE (\E g \in Guis : Accept(g)) \/ Replay \/ Register
    BY <1>0, <1>1, <2>1, AcceptIs, ReplayIs, RegisterIs
  <2>2. CASE Snapshot
    BY <1>0, <2>2, SnapshotIs DEF Streams
  <2> QED BY <1>6, <2>1, <2>2 DEF AddStep
<1>7. ASSUME NEW s \in Sources, SourceStep(s) PROVE Streams'
  <2>1. CASE Connect(s)
    <3>1. CASE s = "layers"
      <4>1. /\ UNCHANGED <<snap, joined>> /\ th'.pc = "read"
            /\ count'.streams = count.streams + 1
        BY <1>0, <2>1, <3>1, ConnectIs DEF SrcSet
      <4> QED BY <1>0, <4>1 DEF Streams
    <3>2. CASE s # "layers"
      <4>1. /\ UNCHANGED <<snap, joined>> /\ th' = th
            /\ count'.streams = count.streams
        <5>1. SrcSet(s, "read", src[s].ev, src[s].todo) /\ count'.streams = count.streams
              /\ UNCHANGED <<snap, joined>>
          BY <1>0, <2>1, <3>2, ConnectIs
        <5> QED BY <1>0, <3>2, <5>1 DEF SrcSet
      <4> QED BY <1>1, <4>1
    <3> QED BY <3>1, <3>2
  <2>2. CASE Read(s)
    <3>1. CASE s = "layers"
      <4> DEFINE ev == Head(feed["layers"].pipe)
      <4>1. /\ UNCHANGED <<count, joined>> /\ th.pc = "read" /\ th'.pc = "lock"
            /\ ev \in LayerEvents /\ th'.ev = ev /\ snap' = ApplyLayer(snap, ev)
        BY <1>0, <2>2, <3>1, ReadIs, SaysEvents DEF SrcSet
      <4> HIDE DEF ev
      <4>2. ApplyLayer(ApplyLayer(snap, ev), ev) = ApplyLayer(snap, ev)
        BY <1>0, <4>1, ApplyLayerTwice, EventsAre, Bounds, LayerTypes
      <4> QED BY <4>1, <4>2 DEF Streams
    <3>2. CASE s # "layers"
      BY <1>0, <1>1, <2>2, <3>2, ReadIs DEF SrcSet
    <3> QED BY <3>1, <3>2
  <2>3. CASE Lock(s)
    BY <1>0, <2>3, LockIs DEF Streams, SrcSet
  <2>4. CASE Write(s)
    BY <1>0, <2>4, WriteIs DEF Streams, SrcSet
  <2>5. CASE Unlock(s)
    BY <1>0, <2>5, UnlockIs DEF Streams, SrcSet
  <2>6. CASE Lost(s)
    <3>1. CASE s = "layers"
      BY <1>0, <2>6, <3>1, LostIs DEF Streams, SrcSet
    <3>2. CASE s # "layers"
      BY <1>0, <1>1, <2>6, <3>2, LostIs DEF SrcSet
    <3> QED BY <3>1, <3>2
  <2> QED BY <1>7, <2>1, <2>2, <2>3, <2>4, <2>5, <2>6 DEF SourceStep
<1> QED BY <1>2, <1>3, <1>4, <1>5, <1>6, <1>7, Sides

LEMMA SnapshotTracksStep ==
  ASSUME Basics, Streams, SnapshotTracks, Next
  PROVE  SnapshotTracks'
<1> DEFINE pipe == feed["layers"].pipe
           none == <<>>
<1>0. /\ TypeOK /\ "layers" \in Sources
      /\ snap \in Stacks(Layers) /\ pipe \in Seq(LayerEvents) /\ keyd.stack \in Stacks(Layers)
      /\ Over(LayerEvents, Layers) /\ IsFiniteSet(Layers)
  BY SourcesAre, LayerTypes, EventsAre, Bounds DEF Basics
<1>1. ASSUME UNCHANGED <<feed, snap, keyd>> PROVE SnapshotTracks'
  BY <1>1 DEF SnapshotTracks
<1>2. ASSUME ~feed'["layers"].open PROVE SnapshotTracks'
  BY <1>2 DEF SnapshotTracks
<1>3. ASSUME NEW l \in Layers, SwitchLayer(l) PROVE SnapshotTracks'
  <2>1. PICK ev \in LayerEvents :
          /\ keyd'.stack = ApplyLayer(keyd.stack, ev)
          /\ feed'["layers"].open = feed["layers"].open
          /\ feed["layers"].open => feed'["layers"].pipe = Append(pipe, ev)
    BY <1>0, <1>3, SwitchIs
  <2>2. snap' = snap
    BY <1>0, <1>3, SwitchIs
  <2> HIDE DEF pipe
  <2>3. IsLayer(ev) /\ ev.name \in Layers
    BY EventsAre
  <2> DEFINE r == Reduce(snap, pipe)
  <2>4. Reduce(snap, Append(pipe, ev)) = ApplyLayer(r, ev) /\ r \in Stacks(Layers)
    BY <1>0, <2>3, ReduceAppend, ReduceType DEF LayerStep
  <2> HIDE DEF r
  <2>5. ToSet(ApplyLayer(keyd.stack, ev)) =
             IF ev.act = "off" THEN ToSet(keyd.stack) \ {ev.name}
             ELSE ToSet(keyd.stack) \union {ev.name}
    BY <1>0, <2>3, ApplyLayerIs
  <2>6. ToSet(ApplyLayer(r, ev)) =
             IF ev.act = "off" THEN ToSet(r) \ {ev.name} ELSE ToSet(r) \union {ev.name}
    BY <1>0, <2>3, <2>4, ApplyLayerIs
  <2> QED BY <2>1, <2>2, <2>4, <2>5, <2>6 DEF SnapshotTracks, pipe, r
<1>4. ASSUME NEW k \in Keys, PressOrRelease(k) PROVE SnapshotTracks'
  BY <1>0, <1>4, PressIs DEF SnapshotTracks
<1>5. CASE KeydStep
  <2>1. CASE KeydStops \/ DropListener
    BY <1>0, <1>2, <2>1, KeydStopsIs, DropListenerIs
  <2>2. CASE KeydStarts
    BY <1>0, <2>2, KeydStartsIs DEF SnapshotTracks
  <2> QED BY <1>3, <1>4, <1>5, <2>1, <2>2 DEF KeydStep
<1>6. CASE GuiStep \/ HelperStarts
  BY <1>0, <1>1, <1>6, Sides, HelperStartsIs
<1>7. CASE HelperStops
  BY <1>0, <1>2, <1>7, HelperStopsIs
<1>8. CASE AddStep
  BY <1>0, <1>1, <1>8, AcceptIs, SnapshotIs, ReplayIs, RegisterIs DEF AddStep
<1>9. ASSUME NEW s \in Sources, SourceStep(s) PROVE SnapshotTracks'
  <2>1. CASE Connect(s)
    <3>1. CASE s = "layers"
      <4>1. PICK order \in Seq(Layers) :
              feed'["layers"].pipe = Ons(order) /\ ToSet(order) = ToSet(keyd.stack)
        BY <1>0, <2>1, <3>1, ConnectIs DEF FeedSet
      <4>2. snap' = none /\ keyd' = keyd
        BY <1>0, <2>1, <3>1, ConnectIs DEF Streams
      <4>3. none \in Stacks(Layers) /\ ToSet(none) = {}
        BY <1>0, EmptyStack
      <4> HIDE DEF none
      <4>4. ToSet(Reduce(none, Ons(order))) = ToSet(none) \union ToSet(order)
        <5>1. \A base \in Stacks(Layers), ord \in Seq(Layers) :
                ToSet(Reduce(base, Ons(ord))) = ToSet(base) \union ToSet(ord)
          BY ReduceOns, Bounds
        <5> QED BY <4>1, <4>3, <5>1
      <4> QED BY <4>1, <4>2, <4>3, <4>4 DEF SnapshotTracks
    <3>2. CASE s # "layers"
      <4>1. feed'["layers"] = feed["layers"] /\ UNCHANGED <<snap, keyd>>
        BY <1>0, <2>1, <3>2, ConnectIs DEF FeedSet
      <4> QED BY <4>1 DEF SnapshotTracks
    <3> QED BY <3>1, <3>2
  <2>2. CASE Read(s)
    <3>1. CASE s = "layers"
      <4>1. /\ pipe # <<>> /\ Head(pipe) \in LayerEvents
            /\ feed'["layers"].open = feed["layers"].open /\ feed'["layers"].pipe = Tail(pipe)
            /\ snap' = ApplyLayer(snap, Head(pipe)) /\ keyd' = keyd
        BY <1>0, <2>2, <3>1, ReadIs, SaysEvents DEF FeedSet
      <4>2. Reduce(snap, pipe) = Reduce(ApplyLayer(snap, Head(pipe)), Tail(pipe))
        <5> HIDE DEF pipe
        <5>1. IsLayer(Head(pipe))
          BY <4>1, EventsAre
        <5> QED BY <1>0, <4>1, <5>1, ReduceHead DEF LayerStep
      <4> QED BY <4>1, <4>2 DEF SnapshotTracks
    <3>2. CASE s # "layers"
      <4>1. feed'["layers"] = feed["layers"] /\ UNCHANGED <<snap, keyd>>
        BY <1>0, <2>2, <3>2, ReadIs DEF FeedSet
      <4> QED BY <4>1 DEF SnapshotTracks
    <3> QED BY <3>1, <3>2
  <2>3. CASE Lock(s) \/ Write(s) \/ Unlock(s)
    BY <1>0, <1>1, <2>3, LockIs, WriteIs, UnlockIs
  <2>4. CASE Lost(s)
    BY <1>0, <1>1, <1>2, <2>4, LostIs
  <2> QED BY <1>9, <2>1, <2>2, <2>3, <2>4 DEF SourceStep
<1> QED BY <1>5, <1>6, <1>7, <1>8, <1>9, Sides

-----------------------------------------------------------------------------
(* Replaying and NewClientsFollow are kept.                                *)

LEMMA FrontIs ==
  ASSUME NEW E, NEW s \in Seq(E), s # <<>>, NEW t \in Seq(E)
  PROVE  /\ s \o t \in Seq(E) /\ s \o t # <<>>
         /\ Head(s \o t) = Head(s) /\ Tail(s \o t) = Tail(s) \o t
OBVIOUS

\* Events reach the reducer one by one, whatever comes behind them.
LEMMA TakeReduce ==
  ASSUME NEW active \in Stacks(Layers), NEW buf \in Seq(Events), buf # <<>>,
         NEW rest \in Seq(Events)
  PROVE  Reduce(LayerStep(active, Head(buf)), Tail(buf) \o rest) = Reduce(active, buf \o rest)
<1> DEFINE all == buf \o rest
<1>1. /\ all \in Seq(Events) /\ all # <<>>
      /\ Head(all) = Head(buf) /\ Tail(all) = Tail(buf) \o rest
  BY FrontIs
<1> HIDE DEF all
<1>2. Reduce(active, all) = Reduce(LayerStep(active, Head(all)), Tail(all))
  BY <1>1, ReduceHead, EventsAre
<1> QED BY <1>1, <1>2 DEF all

\* An event written behind the others reaches the reducer after them.
LEMMA PutReduce ==
  ASSUME NEW active \in Stacks(Layers), NEW buf \in Seq(Events), NEW ev \in Events,
         NEW rest \in Seq(Events)
  PROVE  /\ Append(buf, ev) \o rest = buf \o (<<ev>> \o rest)
         /\ ~IsLayer(ev) => Reduce(active, Append(buf, ev) \o rest) = Reduce(active, buf \o rest)
<1>1. Append(buf, ev) \o rest = buf \o (<<ev>> \o rest)
  OBVIOUS
<1>2. ASSUME ~IsLayer(ev)
      PROVE  Reduce(active, Append(buf, ev) \o rest) = Reduce(active, buf \o rest)
  <2> DEFINE b == Append(buf, ev)
  <2>1. b \in Seq(Events) /\ Reduce(active, b) = LayerStep(Reduce(active, buf), ev)
    BY ReduceAppend, EventsAre
  <2>2. LayerStep(Reduce(active, buf), ev) = Reduce(active, buf)
    BY <1>2 DEF LayerStep
  <2> HIDE DEF b
  <2>3. Reduce(active, b \o rest) = Reduce(Reduce(active, b), rest)
    BY <2>1, ReduceConcat, EventsAre
  <2>4. Reduce(active, buf \o rest) = Reduce(Reduce(active, buf), rest)
    BY ReduceConcat, EventsAre
  <2> QED BY <2>1, <2>2, <2>3, <2>4 DEF b
<1> QED BY <1>1, <1>2

LEMMA OnsIs ==
  ASSUME NEW c \in Seq(Layers)
  PROVE  /\ Ons(c) \in Seq(Events)
         /\ c = <<>> => Ons(c) = <<>>
         /\ c # <<>> => /\ On(Head(c)) \in Events
                        /\ Ons(c) = <<On(Head(c))>> \o Ons(Tail(c))
<1>1. \A i \in 1 .. Len(c) : On(c[i]) \in Events
  BY EventsAre
<1>2. /\ Ons(c) = [i \in 1 .. Len(c) |-> On(c[i])]
      /\ Ons(Tail(c)) = [i \in 1 .. Len(Tail(c)) |-> On(Tail(c)[i])]
  BY DEF Ons
<1>3. Ons(c) \in Seq(Events)
  BY <1>1, <1>2
<1>4. ASSUME c # <<>>
      PROVE  On(Head(c)) \in Events /\ Ons(c) = <<On(Head(c))>> \o Ons(Tail(c))
  <2> DEFINE t == Tail(c)
             a == Ons(c)
             b == Ons(t)
             h == On(Head(c))
  <2>1. /\ Len(c) \in Nat \ {0} /\ t \in Seq(Layers) /\ Len(t) = Len(c) - 1
        /\ \A i \in 1 .. Len(t) : t[i] = c[i + 1]
        /\ c[1] = Head(c) /\ h \in Events
    BY <1>1, <1>4
  <2>2. b \in Seq(Events) /\ Len(b) = Len(t) /\ \A i \in 1 .. Len(t) : b[i] = On(c[i + 1])
    <3>1. \A i \in 1 .. Len(t) : On(t[i]) \in Events
      BY <2>1, EventsAre
    <3> HIDE DEF t
    <3>2. b = [i \in 1 .. Len(t) |-> On(t[i])]
      BY <1>2 DEF t
    <3> QED BY <2>1, <3>1, <3>2
  <2>3. a \in Seq(Events) /\ Len(a) = Len(c) /\ \A i \in 1 .. Len(c) : a[i] = On(c[i])
    BY <1>2, <1>3
  <2> HIDE DEF a, b, t, h
  <2>4. <<h>> \o b \in Seq(Events) /\ Len(<<h>> \o b) = Len(c)
        /\ (<<h>> \o b)[1] = h /\ \A i \in 1 .. Len(b) : (<<h>> \o b)[i + 1] = b[i]
    BY <2>1, <2>2
  <2> DEFINE d == <<h>> \o b
  <2> HIDE DEF d
  <2>5. \A i \in 1 .. Len(c) : a[i] = d[i]
    <3>1. a[1] = d[1]
      BY <2>1, <2>3, <2>4 DEF h, d
    <3>2. ASSUME NEW i \in 1 .. Len(c), i # 1 PROVE a[i] = d[i]
      <4> DEFINE j == i - 1
      <4>1. j \in 1 .. Len(t) /\ i = j + 1
        BY <2>1, <3>2
      <4> HIDE DEF j
      <4> QED BY <2>2, <2>3, <2>4, <4>1 DEF d
    <3> QED BY <3>1, <3>2
  <2>6. a = d
    BY <2>3, <2>4, <2>5 DEF d
  <2> QED BY <2>1, <2>6 DEF a, b, t, h, d
<1> QED BY <1>2, <1>3, <1>4

\* What a GUI does changes nothing about where its connection brings it.
LEMMA GuiFrame ==
  ASSUME Basics, GuiStep, NEW g \in Guis, wire[g].peer = "taken", NEW rest \in Seq(Events)
  PROVE  /\ Reduce(gui'[g].active, wire'[g].buf \o rest) = Reduce(gui[g].active, wire[g].buf \o rest)
         /\ gui'[g].pc # "gone" => gui[g].pc # "gone"
         /\ count'.streams = count.streams
<1> DEFINE P == /\ Reduce(gui'[g].active, wire'[g].buf \o rest) =
                     Reduce(gui[g].active, wire[g].buf \o rest)
                /\ gui'[g].pc # "gone" => gui[g].pc # "gone"
                /\ count'.streams = count.streams
<1>0. TypeOK /\ Joining /\ gui[g].active \in Stacks(Layers)
  BY LayerTypes DEF Basics
<1>1. ASSUME gui'[g] = gui[g], wire'[g] = wire[g], count'.streams = count.streams PROVE P
  BY <1>1
<1>2. ASSUME NEW o \in Guis, Dial(o) \/ HangUp(o) PROVE P
  <2>1. o # g
    BY <1>0, <1>2, DialIs, HangUpIs DEF Joining
  <2> QED BY <1>0, <1>1, <1>2, <2>1, DialIs, HangUpIs DEF WireSet, GuiSet
<1>3. ASSUME NEW o \in Guis, ReceiveLayer(o) PROVE P
  <2>1. CASE o = g
    <3>1. /\ wire[g].buf \in Seq(Events) /\ wire[g].buf # <<>>
          /\ Head(wire[g].buf) \in LayerEvents
          /\ wire'[g].buf = Tail(wire[g].buf) /\ count' = count /\ gui[g].pc = "read"
          /\ gui'[g].active = ApplyLayer(gui[g].active, Head(wire[g].buf))
      BY <1>0, <1>3, <2>1, ReceiveLayerIs DEF WireSet, GuiSet
    <3>2. ApplyLayer(gui[g].active, Head(wire[g].buf)) = LayerStep(gui[g].active, Head(wire[g].buf))
      BY <3>1, EventsAre DEF LayerStep
    <3>3. Reduce(LayerStep(gui[g].active, Head(wire[g].buf)), Tail(wire[g].buf) \o rest) =
            Reduce(gui[g].active, wire[g].buf \o rest)
      BY <1>0, <3>1, TakeReduce
    <3> QED BY <3>1, <3>2, <3>3
  <2>2. CASE o # g
    BY <1>0, <1>1, <1>3, <2>2, ReceiveLayerIs DEF WireSet, GuiSet
  <2> QED BY <2>1, <2>2
<1>4. ASSUME NEW o \in Guis, ReceiveKey(o) PROVE P
  <2>1. CASE o = g
    <3>1. /\ wire[g].buf \in Seq(Events) /\ wire[g].buf # <<>>
          /\ Head(wire[g].buf) \in KeyEvents
          /\ wire'[g].buf = Tail(wire[g].buf) /\ count' = count /\ gui[g].pc = "read"
          /\ gui'[g].active = gui[g].active
      BY <1>0, <1>4, <2>1, ReceiveKeyIs DEF WireSet, GuiSet
    <3>2. gui[g].active = LayerStep(gui[g].active, Head(wire[g].buf))
      BY <3>1, EventsAre DEF LayerStep
    <3>3. Reduce(LayerStep(gui[g].active, Head(wire[g].buf)), Tail(wire[g].buf) \o rest) =
            Reduce(gui[g].active, wire[g].buf \o rest)
      BY <1>0, <3>1, TakeReduce
    <3> QED BY <3>1, <3>2, <3>3
  <2>2. CASE o # g
    BY <1>0, <1>1, <1>4, <2>2, ReceiveKeyIs DEF WireSet, GuiSet
  <2> QED BY <2>1, <2>2
<1>5. ASSUME NEW o \in Guis, RunPost(o) PROVE P
  <2>1. /\ gui'[g].pc = gui[g].pc /\ gui'[g].active = gui[g].active
        /\ wire' = wire /\ count' = count
    BY <1>0, <1>5, RunPostIs
  <2> QED BY <2>1
<1>6. ASSUME NEW o \in Guis, Quit(o) PROVE P
  <2>1. /\ gui'[g].pc \in {"gone", gui[g].pc} /\ gui'[g].active = gui[g].active
        /\ wire' = wire /\ count'.streams = count.streams
    BY <1>0, <1>6, QuitIs DEF GuiSet
  <2> QED BY <2>1
<1> HIDE DEF P
<1>7. P
  BY <1>2, <1>3, <1>4, <1>5, <1>6 DEF GuiStep, ClientStep
<1> QED BY <1>7 DEF P

LEMMA ReplayingStep ==
  ASSUME Basics, Streams, Replaying, ~JoinRaces, Next
  PROVE  Replaying'
<1> DEFINE th == src["layers"]
           a == adder.gui
<1>0. /\ TypeOK /\ Joining /\ Locking /\ "layers" \in Sources
      /\ adder.copy \in Seq(Layers) /\ count.streams \in Nat
      /\ joined \in [Guis -> Nat]
  BY SourcesAre, TypesAre, StacksAre, Bounds DEF Basics, CountType
<1>1. ASSUME UNCHANGED <<adder, joined, snap>>, count'.streams = count.streams,
             th'.pc = th.pc,
             adder.pc = "replay" => gui'[a].active = gui[a].active /\ wire'[a].buf = wire[a].buf
      PROVE  Replaying'
  BY <1>1 DEF Replaying
<1>2. ASSUME adder'.pc # "replay" PROVE Replaying'
  BY <1>2 DEF Replaying
<1>3. CASE KeydStep
  <2>1. count'.streams = count.streams
    BY <1>0, <1>3, SwitchIs, PressIs, KeydStopsIs, KeydStartsIs, DropListenerIs DEF KeydStep
  <2> QED BY <1>1, <1>3, <2>1, Sides
<1>4. CASE GuiStep
  <2>1. UNCHANGED <<adder, joined, snap, src>>
    BY <1>4, Sides
  <2>2. CASE adder.pc # "replay"
    BY <1>2, <2>1, <2>2
  <2>3. CASE adder.pc = "replay"
    <3>1. a \in Guis /\ wire[a].peer = "taken" /\ Ons(adder.copy) \in Seq(Events)
      BY <1>0, <2>3, OnsIs DEF Joining
    <3>2. /\ Reduce(gui'[a].active, wire'[a].buf \o Ons(adder.copy)) =
               Reduce(gui[a].active, wire[a].buf \o Ons(adder.copy))
          /\ count'.streams = count.streams
      BY <1>4, <3>1, GuiFrame
    <3> QED BY <2>1, <3>2 DEF Replaying
  <2> QED BY <2>2, <2>3
<1>5. CASE HelperStops
  BY <1>0, <1>2, <1>5, HelperStopsIs
<1>6. CASE HelperStarts
  BY <1>0, <1>1, <1>6, HelperStartsIs
<1>7. CASE AddStep
  <2>1. CASE (\E g \in Guis : Accept(g)) \/ Register
    BY <1>0, <1>2, <2>1, AcceptIs, RegisterIs
  <2>2. CASE Snapshot
    <3>1. /\ UNCHANGED <<snap, src, wire, gui, count>> /\ a \in Guis
          /\ adder'.gui = a /\ adder'.copy = snap
          /\ joined'[a] = IF gui[a].active = <<>> THEN count.streams ELSE 0
          /\ wire[a].buf = <<>>
      BY <1>0, <2>2, SnapshotIs DEF AdderSet, Joining
    <3>2. ASSUME th.pc # "connect", joined'[a] = count.streams
          PROVE  gui[a].active = <<>>
      BY <1>0, <3>1, <3>2 DEF Streams
    <3>3. Reduce(<<>>, <<>> \o Ons(snap)) = snap
      <4>1. snap \in Stacks(Layers) /\ snap \in Seq(Layers)
        BY <1>0, LayerTypes, StacksAre, Bounds
      <4>2. Reduce(<<>>, Ons(snap)) = snap
        BY <4>1, ReduceOnsIs, Bounds
      <4>3. <<>> \o Ons(snap) = Ons(snap)
        <5> DEFINE o == Ons(snap)
        <5>1. o \in Seq(Events)
          BY <4>1, OnsIs
        <5> HIDE DEF o
        <5>2. <<>> \o o = o
          BY <5>1
        <5> QED BY <5>2 DEF o
      <4> QED BY <4>2, <4>3
    <3> QED BY <3>1, <3>2, <3>3 DEF Replaying
  <2>3. CASE Replay
    <3>1. CASE adder'.pc = "accept"
      BY <1>2, <3>1
    <3>2. CASE adder'.pc # "accept"
      <4> DEFINE c == adder.copy
                 b == wire[a].buf
      <4>1. /\ UNCHANGED <<snap, src, gui, count, joined>>
            /\ adder.pc = "replay" /\ adder'.gui = a /\ adder'.copy = Tail(c)
            /\ wire'[a].buf = Append(b, On(Head(c))) /\ c # <<>> /\ c \in Seq(Layers)
            /\ a \in Guis
        BY <1>0, <2>3, <3>2, ReplayIs DEF WireSet, AdderSet
      <4>2. Append(b, On(Head(c))) \o Ons(Tail(c)) = b \o Ons(c)
        <5>1. b \in Seq(Events) /\ gui[a].active \in Stacks(Layers)
          BY <1>0, <4>1, LayerTypes
        <5>2. /\ On(Head(c)) \in Events /\ Ons(c) = <<On(Head(c))>> \o Ons(Tail(c))
              /\ Ons(Tail(c)) \in Seq(Events)
          <6>1. Tail(c) \in Seq(Layers)
            BY <4>1
          <6> HIDE DEF c
          <6> QED BY <4>1, <6>1, OnsIs
        <5> HIDE DEF b, c
        <5> QED BY <5>1, <5>2, PutReduce
      <4> QED BY <4>1, <4>2 DEF Replaying
    <3> QED BY <3>1, <3>2
  <2> QED BY <1>7, <2>1, <2>2, <2>3 DEF AddStep
<1>8. ASSUME NEW s \in Sources, SourceStep(s) PROVE Replaying'
  <2>1. CASE Connect(s)
    <3>1. CASE s = "layers"
      <4>1. /\ UNCHANGED <<adder, joined>> /\ count'.streams = count.streams + 1
        BY <1>0, <2>1, <3>1, ConnectIs
      <4>2. adder.pc = "replay" => a \in Guis
        BY <1>0 DEF Joining
      <4> QED BY <1>0, <4>1, <4>2 DEF Streams, Replaying
    <3>2. CASE s # "layers"
      <4>1. UNCHANGED <<adder, joined, snap, gui, wire>> /\ count'.streams = count.streams
            /\ SrcSet(s, "read", src[s].ev, src[s].todo)
        BY <1>0, <2>1, <3>2, ConnectIs
      <4> QED BY <1>0, <1>1, <3>2, <4>1 DEF SrcSet
    <3> QED BY <3>1, <3>2
  <2>2. CASE Read(s)
    BY <1>0, <1>2, <2>2, ReadIs
  <2>3. CASE Lock(s)
    <3>1. /\ UNCHANGED <<adder, joined, snap, gui, wire, count>>
          /\ (th'.pc # "connect" /\ th.pc # "connect") \/ th' = th
      BY <1>0, <2>3, LockIs DEF SrcSet
    <3> QED BY <3>1 DEF Replaying
  <2>4. CASE Write(s)
    <3>1. UNCHANGED <<adder, joined, snap, gui, count>> /\ th'.pc = th.pc
      BY <1>0, <2>4, WriteIs DEF SrcSet
    <3>2. adder.pc = "replay" => wire'[a] = wire[a]
      BY <1>0, <2>4, WriteIs DEF WireSet, Joining
    <3> QED BY <1>1, <3>1, <3>2
  <2>5. CASE Unlock(s)
    <3>1. /\ UNCHANGED <<adder, joined, snap, gui, wire, count>>
          /\ (th'.pc # "connect" /\ th.pc # "connect") \/ th' = th
      BY <1>0, <2>5, UnlockIs DEF SrcSet
    <3> QED BY <3>1 DEF Replaying
  <2>6. CASE Lost(s)
    <3>1. CASE s = "layers"
      BY <1>0, <2>6, <3>1, LostIs DEF Replaying, SrcSet
    <3>2. CASE s # "layers"
      BY <1>0, <1>1, <2>6, <3>2, LostIs DEF SrcSet
    <3> QED BY <3>1, <3>2
  <2> QED BY <1>8, <2>1, <2>2, <2>3, <2>4, <2>5, <2>6 DEF SourceStep
<1> QED BY <1>3, <1>4, <1>5, <1>6, <1>7, <1>8, Sides

\* A client's view: the events on the way to it are events.
LEMMA OwedIs ==
  ASSUME TypeOK, Locking, NEW g \in Guis
  PROVE  /\ Owed(g) \in Seq(Events)
         /\ src["layers"].pc = "lock" => Owed(g) = <<src["layers"].ev>>
         /\ src["layers"].pc \notin {"lock", "write"} => Owed(g) = <<>>
         /\ src["layers"].pc = "write" =>
              Owed(g) = IF g \in ToSet(src["layers"].todo) THEN <<src["layers"].ev>> ELSE <<>>
         /\ src["layers"].pc \in {"lock", "write"} => src["layers"].ev \in LayerEvents
<1>1. src["layers"].pc \in {"lock", "write"} => src["layers"].ev \in LayerEvents
  BY SourcesAre, SaysEvents DEF Locking
<1>2. src["layers"].todo \in Seq(Guis)
  BY SourcesAre, TypesAre DEF Threads
<1>3. Contains(src["layers"].todo, g) <=> g \in ToSet(src["layers"].todo)
  BY <1>2, ContainsIs
<1>4. \A ev \in LayerEvents : <<ev>> \in Seq(Events)
  BY EventsAre
<1>5. /\ src["layers"].pc = "lock" => Owed(g) = <<src["layers"].ev>>
      /\ src["layers"].pc \notin {"lock", "write"} => Owed(g) = <<>>
      /\ src["layers"].pc = "write" =>
              Owed(g) = IF g \in ToSet(src["layers"].todo) THEN <<src["layers"].ev>> ELSE <<>>
  BY <1>3 DEF Owed
<1>6. Owed(g) = <<>> \/ Owed(g) \in Seq(Events)
  BY <1>1, <1>4, <1>5
<1>7. Owed(g) \in Seq(Events)
  <2> DEFINE q == Owed(g)
  <2>1. ASSUME q = <<>> PROVE q \in Seq(Events)
    <3> HIDE DEF q
    <3> QED BY <2>1
  <2> QED BY <1>6, <2>1
<1> QED BY <1>1, <1>5, <1>7

Follows(g) ==
  gui[g].pc # "gone" /\ joined[g] = count.streams =>
    Reduce(gui[g].active, wire[g].buf \o Owed(g)) = snap

LEMMA NewClientsFollowStep ==
  ASSUME Basics, Streams, Replaying, NewClientsFollow, ~JoinRaces, Next, Locking'
  PROVE  NewClientsFollow'
<1> DEFINE th == src["layers"]
<1>0. /\ TypeOK /\ Joining /\ Locking /\ "layers" \in Sources /\ TypeOK'
      /\ count.streams \in Nat /\ joined \in [Guis -> Nat]
      /\ snap \in Stacks(Layers)
      /\ \A g \in ToSet(clients) : g \in Guis /\ wire[g].peer = "taken"
      /\ \A g \in Guis : gui[g].active \in Stacks(Layers) /\ wire[g].buf \in Seq(Events)
  <2>1. \A g \in ToSet(clients) : g \in Guis
    BY TypesAre, StacksAre, Bounds DEF Basics, ToSet
  <2> QED BY <2>1, SourcesAre, TypesAre, LayerTypes, TypeStep DEF Basics, CountType, Joining
<1>1. /\ NewClientsFollow <=> (th.pc # "connect" => \A g \in ToSet(clients) : Follows(g))
      /\ NewClientsFollow' <=> (th'.pc # "connect" => \A g \in ToSet(clients') : Follows(g)')
  BY DEF NewClientsFollow, Follows
<1>2. ASSUME UNCHANGED <<clients, joined, snap, wire, gui>>, count'.streams = count.streams,
             th' = th
      PROVE  NewClientsFollow'
  BY <1>2 DEF NewClientsFollow, Owed
<1>3. CASE KeydStep
  <2>1. count'.streams = count.streams
    BY <1>0, <1>3, SwitchIs, PressIs, KeydStopsIs, KeydStartsIs, DropListenerIs DEF KeydStep
  <2> QED BY <1>2, <1>3, <2>1, Sides
<1>4. CASE GuiStep
  <2>1. UNCHANGED <<clients, joined, snap, src>>
    BY <1>4, Sides
  <2>2. ASSUME NEW g \in ToSet(clients), Follows(g) PROVE Follows(g)'
    <3>1. g \in Guis /\ wire[g].peer = "taken" /\ Owed(g) \in Seq(Events) /\ Owed(g)' = Owed(g)
      BY <1>0, <2>1, OwedIs DEF Owed
    <3>2. /\ Reduce(gui'[g].active, wire'[g].buf \o Owed(g)) =
               Reduce(gui[g].active, wire[g].buf \o Owed(g))
          /\ gui'[g].pc # "gone" => gui[g].pc # "gone"
          /\ count'.streams = count.streams
      BY <1>4, <3>1, GuiFrame
    <3> QED BY <2>1, <2>2, <3>1, <3>2 DEF Follows
  <2> QED BY <1>1, <2>1, <2>2
<1>5. CASE HelperStops
  BY <1>0, <1>1, <1>5, HelperStopsIs
<1>6. CASE HelperStarts
  BY <1>0, <1>2, <1>6, HelperStartsIs
<1>7. CASE AddStep
  <2>1. ASSUME NEW g \in Guis, Accept(g) PROVE NewClientsFollow'
    <3>1. /\ UNCHANGED <<clients, joined, snap, src, gui, count>>
          /\ \A o \in Guis : wire'[o].buf = wire[o].buf
      BY <1>0, <2>1, AcceptIs DEF WireSet
    <3>2. ASSUME NEW o \in ToSet(clients), Follows(o) PROVE Follows(o)'
      BY <1>0, <3>1, <3>2 DEF Follows, Owed
    <3> QED BY <1>1, <3>1, <3>2
  <2>2. CASE Snapshot
    <3>1. /\ UNCHANGED <<clients, snap, src, gui, wire, count>>
          /\ \A o \in ToSet(clients) : joined'[o] = joined[o]
      BY <1>0, <2>2, SnapshotIs DEF Joining
    <3>2. ASSUME NEW o \in ToSet(clients), Follows(o) PROVE Follows(o)'
      BY <3>1, <3>2 DEF Follows, Owed
    <3> QED BY <1>1, <3>1, <3>2
  <2>3. CASE Replay
    <3>1. /\ UNCHANGED <<clients, joined, snap, src, gui, count>>
          /\ \A o \in ToSet(clients) : wire'[o] = wire[o]
      BY <1>0, <2>3, ReplayIs DEF Joining, WireSet
    <3>2. ASSUME NEW o \in ToSet(clients), Follows(o) PROVE Follows(o)'
      BY <3>1, <3>2 DEF Follows, Owed
    <3> QED BY <1>1, <3>1, <3>2
  <2>4. CASE Register
    <3>0. PICK a \in Guis : a = adder.gui
      BY <1>0, <2>4, RegisterIs DEF Basics
    <3>1. /\ UNCHANGED <<joined, snap, src, gui, wire, count>>
          /\ adder.pc = "replay" /\ adder.copy = <<>> /\ lock = "free"
          /\ ToSet(clients') = ToSet(clients) \union {a}
      BY <3>0, <2>4, RegisterIs DEF Basics
    <3>2. ASSUME NEW o \in ToSet(clients), Follows(o) PROVE Follows(o)'
      BY <3>1, <3>2 DEF Follows, Owed
    <3>3. ASSUME th.pc # "connect", joined[a] = count.streams
          PROVE  Reduce(gui[a].active, wire[a].buf \o Owed(a)) = snap
      <4>1. Reduce(gui[a].active, wire[a].buf) = snap
        <5>1. Reduce(gui[a].active, wire[a].buf \o Ons(adder.copy)) = snap
          BY <3>0, <3>1, <3>3 DEF Replaying
        <5>2. adder.copy \in Seq(Layers)
          BY <1>0, TypesAre, StacksAre, Bounds
        <5>3. Ons(adder.copy) = <<>>
          BY <3>1, <5>2, OnsIs
        <5>4. wire[a].buf \o <<>> = wire[a].buf
          BY <1>0, <3>1
        <5> QED BY <5>1, <5>3, <5>4
      <4>2. th.pc # "write"
        BY <1>0, <3>1, SourcesAre DEF Locking
      <4>3. CASE th.pc = "lock"
        <5> DEFINE ev == th.ev
                   b == wire[a].buf
        <5>1. Owed(a) = <<ev>> /\ ev \in LayerEvents /\ ApplyLayer(snap, ev) = snap
          BY <1>0, <3>1, <4>3, OwedIs DEF Streams
        <5>2. b \in Seq(Events) /\ b \o <<ev>> = Append(b, ev)
              /\ gui[a].active \in Stacks(Layers) /\ ev \in Events
          BY <1>0, <3>1, <5>1, EventsAre
        <5>3. Reduce(gui[a].active, Append(b, ev)) = LayerStep(Reduce(gui[a].active, b), ev)
          <6> HIDE DEF b, ev
          <6> QED BY <5>2, ReduceAppend, EventsAre
        <5> QED BY <4>1, <5>1, <5>2, <5>3, EventsAre DEF LayerStep
      <4>4. CASE th.pc # "lock"
        <5>1. Owed(a) = <<>> /\ wire[a].buf \o <<>> = wire[a].buf
          BY <1>0, <3>1, <4>2, <4>4, OwedIs
        <5> QED BY <4>1, <5>1
      <4> QED BY <4>3, <4>4
    <3>4. th.pc # "connect" => Follows(a)'
      BY <3>1, <3>3 DEF Follows, Owed
    <3> QED BY <1>1, <3>1, <3>2, <3>4
  <2> QED BY <1>7, <2>1, <2>2, <2>3, <2>4 DEF AddStep
<1>8. ASSUME NEW s \in Sources, SourceStep(s) PROVE NewClientsFollow'
  <2>1. CASE Connect(s)
    <3>1. CASE s = "layers"
      <4>1. /\ UNCHANGED <<clients, joined>> /\ count'.streams = count.streams + 1
        BY <1>0, <2>1, <3>1, ConnectIs
      <4>2. ASSUME NEW g \in ToSet(clients) PROVE Follows(g)'
        BY <1>0, <4>1 DEF Follows, Streams
      <4> QED BY <1>1, <4>1, <4>2
    <3>2. CASE s # "layers"
      <4>1. UNCHANGED <<clients, joined, snap, gui, wire>> /\ count'.streams = count.streams
            /\ SrcSet(s, "read", src[s].ev, src[s].todo)
        BY <1>0, <2>1, <3>2, ConnectIs
      <4> QED BY <1>0, <1>2, <3>2, <4>1 DEF SrcSet
    <3> QED BY <3>1, <3>2
  <2>2. CASE Read(s)
    <3>1. CASE s = "layers"
      <4> DEFINE ev == Head(feed["layers"].pipe)
      <4>1. /\ UNCHANGED <<clients, joined, gui, wire, count>> /\ th.pc = "read"
            /\ th'.pc = "lock" /\ th'.ev = ev /\ ev \in LayerEvents
            /\ snap' = ApplyLayer(snap, ev)
        BY <1>0, <2>2, <3>1, ReadIs, SaysEvents DEF SrcSet
      <4> HIDE DEF ev
      <4>2. ASSUME NEW g \in ToSet(clients), Follows(g) PROVE Follows(g)'
        <5> DEFINE b == wire[g].buf
        <5>1. Owed(g) = <<>> /\ Owed(g)' = <<ev>> /\ ev \in Events /\ IsLayer(ev)
              /\ b \in Seq(Events) /\ g \in Guis
          BY <1>0, <4>1, OwedIs, EventsAre DEF Owed
        <5>2. b \o <<>> = b /\ b \o <<ev>> = Append(b, ev)
          BY <5>1
        <5>3. Reduce(gui[g].active, Append(b, ev)) = LayerStep(Reduce(gui[g].active, b), ev)
          <6> HIDE DEF b
          <6> QED BY <1>0, <5>1, ReduceAppend, EventsAre
        <5> QED BY <4>1, <4>2, <5>1, <5>2, <5>3 DEF Follows, LayerStep
      <4> QED BY <1>1, <4>1, <4>2
    <3>2. CASE s # "layers"
      BY <1>0, <1>2, <2>2, <3>2, ReadIs DEF SrcSet
    <3> QED BY <3>1, <3>2
  <2>3. CASE Lock(s)
    <3>1. CASE s = "layers"
      <4>1. /\ UNCHANGED <<clients, joined, gui, wire, count, snap>> /\ th.pc = "lock"
            /\ th'.pc = "write" /\ th'.ev = th.ev /\ th'.todo = clients
            /\ clients \in Seq(Guis)
        BY <1>0, <2>3, <3>1, LockIs, TypesAre, StacksAre, Bounds DEF SrcSet
      <4>2. ASSUME NEW g \in ToSet(clients), Follows(g) PROVE Follows(g)'
        <5>1. Contains(clients, g)
          BY <4>1 DEF Contains, ToSet
        <5>2. Owed(g)' = Owed(g)
          BY <4>1, <5>1 DEF Owed
        <5> QED BY <4>1, <4>2, <5>2 DEF Follows
      <4> QED BY <1>1, <4>1, <4>2
    <3>2. CASE s # "layers"
      BY <1>0, <1>2, <2>3, <3>2, LockIs DEF SrcSet
    <3> QED BY <3>1, <3>2
  <2>4. CASE Write(s)
    <3>0. PICK h, ev, todo : h = Head(todo) /\ ev = src[s].ev /\ todo = src[s].todo
      OBVIOUS
    <3>1. /\ UNCHANGED <<snap, gui, count, joined>> /\ src[s].pc = "write"
          /\ th'.pc = th.pc /\ th'.ev = th.ev
          /\ s = "layers" => th'.todo = Tail(todo)
          /\ s # "layers" => th' = th
          /\ todo \in Seq(Guis) /\ todo # <<>> /\ IsInjective(todo)
          /\ h \in ToSet(clients) /\ ev \in Says(s)
      BY <1>0, <2>4, <3>0, WriteIs, TypesAre DEF SrcSet, Locking, Basics, Threads
    <3>2. /\ h \in Guis /\ Tail(todo) \in Seq(Guis) /\ h \in ToSet(todo)
          /\ ToSet(Tail(todo)) = ToSet(todo) \ {h}
      BY <3>0, <3>1, TailIs
    <3>3. \/ /\ ToSet(clients') = ToSet(clients)
             /\ wire'[h].buf = Append(wire[h].buf, ev) /\ \A o \in Guis \ {h} : wire'[o] = wire[o]
          \/ /\ ToSet(clients') = ToSet(clients) \ {h} /\ wire' = wire
      BY <3>0, <2>4, <3>2, WriteIs DEF WireSet
    <3>4. ev \in Events /\ (s = "layers" => IsLayer(ev)) /\ (s # "layers" => ~IsLayer(ev))
      BY <3>1, SaysEvents, EventsAre
    <3>5. ASSUME NEW g \in ToSet(clients), g # h PROVE Owed(g)' = Owed(g)
      <4>1. CASE s = "layers"
        <5>1. Contains(Tail(todo), g) <=> Contains(todo, g)
          BY <3>1, <3>2, <3>5, ContainsIs
        <5> QED BY <3>0, <3>1, <4>1, <5>1 DEF Owed
      <4>2. CASE s # "layers"
        BY <3>1, <4>2 DEF Owed
      <4> QED BY <4>1, <4>2
    <3>6. ASSUME NEW g \in ToSet(clients), g # h, Follows(g) PROVE Follows(g)'
      <4>1. wire'[g] = wire[g] /\ Owed(g)' = Owed(g)
        BY <1>0, <3>3, <3>5, <3>6
      <4> QED BY <3>1, <3>6, <4>1 DEF Follows
    <3>7. ASSUME wire'[h].buf = Append(wire[h].buf, ev), Follows(h) PROVE Follows(h)'
      <4> DEFINE b == wire[h].buf
      <4>1. b \in Seq(Events) /\ gui[h].active \in Stacks(Layers)
        BY <1>0, <3>2
      <4>2. CASE s = "layers"
        <5>1. Owed(h) = <<ev>>
          BY <1>0, <3>0, <3>1, <3>2, <4>2, OwedIs
        <5>2. Owed(h)' = <<>>
          <6>1. ~Contains(Tail(todo), h)
            BY <3>2, ContainsIs
          <6> QED BY <3>1, <4>2, <6>1 DEF Owed
        <5>3. b \o <<ev>> = Append(b, ev) /\ Append(b, ev) \o <<>> = Append(b, ev)
          BY <3>4, <4>1
        <5> QED BY <3>1, <3>7, <5>1, <5>2, <5>3 DEF Follows
      <4>3. CASE s # "layers"
        <5>1. Owed(h)' = Owed(h) /\ Owed(h) \in Seq(Events) /\ ~IsLayer(ev)
          BY <1>0, <3>1, <3>2, <3>4, <4>3, OwedIs DEF Owed
        <5>2. Reduce(gui[h].active, Append(b, ev) \o Owed(h)) = Reduce(gui[h].active, b \o Owed(h))
          <6> HIDE DEF b
          <6> QED BY <3>4, <4>1, <5>1, PutReduce
        <5> QED BY <3>1, <3>7, <5>1, <5>2 DEF Follows
      <4> QED BY <4>2, <4>3
    <3>8. ASSUME th.pc # "connect", NEW g \in ToSet(clients') PROVE Follows(g)'
      <4>1. \A o \in ToSet(clients) : Follows(o)
        BY <1>1, <3>8
      <4> QED BY <3>1, <3>3, <3>6, <3>7, <3>8, <4>1
    <3> QED BY <1>1, <3>1, <3>8
  <2>5. CASE Unlock(s)
    <3>1. CASE s = "layers"
      <4>1. /\ UNCHANGED <<clients, joined, gui, wire, count, snap>> /\ th.pc = "write"
            /\ th.todo = <<>> /\ th'.pc = "read"
        BY <1>0, <2>5, <3>1, UnlockIs DEF SrcSet
      <4>2. ASSUME NEW g \in ToSet(clients), Follows(g) PROVE Follows(g)'
        <5>1. Owed(g) = <<>> /\ Owed(g)' = <<>>
          BY <4>1 DEF Owed, Contains
        <5> QED BY <4>1, <4>2, <5>1 DEF Follows
      <4> QED BY <1>1, <4>1, <4>2
    <3>2. CASE s # "layers"
      BY <1>0, <1>2, <2>5, <3>2, UnlockIs DEF SrcSet
    <3> QED BY <3>1, <3>2
  <2>6. CASE Lost(s)
    <3>1. CASE s = "layers"
      BY <1>0, <1>1, <2>6, <3>1, LostIs DEF SrcSet
    <3>2. CASE s # "layers"
      BY <1>0, <1>2, <2>6, <3>2, LostIs DEF SrcSet
    <3> QED BY <3>1, <3>2
  <2> QED BY <1>8, <2>1, <2>2, <2>3, <2>4, <2>5, <2>6 DEF SourceStep
<1> QED BY <1>3, <1>4, <1>5, <1>6, <1>7, <1>8, Sides

-----------------------------------------------------------------------------
(* The glow: what a window shows as held once its closures have run.       *)

LEMMA HeldStepType ==
  ASSUME NEW h \in SUBSET Keys, NEW p \in Posts
  PROVE  HeldStep(h, p) \in SUBSET Keys
<1>1. p.post = "key" => p.ev \in KeyEvents
  BY PostsAre
<1>2. p.post = "key" => PressKey(h, p.ev) \in SUBSET Keys
  BY <1>1, PressKeyType
<1> QED BY <1>2 DEF HeldStep

HeldAllRun(h, base, s) ==
  /\ h[0] = base
  /\ \A k \in 1 .. Len(s) : h[k] = HeldStep(h[k - 1], s[k])
  /\ HeldAll(base, s) = h[Len(s)]

\* HeldAll goes through the closures.
LEMMA HeldAllSteps ==
  ASSUME NEW E, E = Posts,
         NEW base \in SUBSET Keys, NEW s \in Seq(E)
  PROVE  \E h : HeldAllRun(h, base, s)
<1> DEFINE n == Len(s)
           d == [k \in 1 .. n |-> [x \in SUBSET Keys |-> HeldStep(x, s[k])]]
           Eqn(it) == it = [S \in SUBSET DOMAIN s |->
                              IF S = {} THEN base ELSE HeldStep(it[S \ {Top(S)}], s[Top(S)])]
           it == CHOOSE it : Eqn(it)
           h == [k \in 0 .. n |-> it[1 .. k]]
           o == [S \in SUBSET (1 .. n) |-> HeldStep(it[S \ {Top(S)}], s[Top(S)])]
<1>1. n \in Nat /\ DOMAIN s = 1 .. n
  OBVIOUS
<1>2. HeldAll(base, s) = it[DOMAIN s]
  BY DEF HeldAll, FoldLeft, MapThenFoldSet, Max, Top
<1>3. PICK jt : FoldOf(jt, SUBSET Keys, base, d, n)
  <2>1. \A k \in 1 .. n : s[k] \in E
    OBVIOUS
  <2>2. d \in [1 .. n -> [SUBSET Keys -> SUBSET Keys]]
    BY <2>1, HeldStepType
  <2> HIDE DEF d, n
  <2> QED BY <2>2, <1>1, FoldExists
<1>4. Eqn(it)
  <2>1. ASSUME NEW S \in SUBSET (1 .. n), S # {}
        PROVE  d[Top(S)][jt[S \ {Top(S)}]] = HeldStep(jt[S \ {Top(S)}], s[Top(S)])
    <3>1. Top(S) \in 1 .. n /\ S \ {Top(S)} \in SUBSET (1 .. n)
      BY <2>1, TopIn, <1>1
    <3> QED BY <3>1, <1>3 DEF FoldOf
  <2>2. Eqn(jt)
    <3>1. jt = [S \in SUBSET (1 .. n) |->
                  IF S = {} THEN base ELSE HeldStep(jt[S \ {Top(S)}], s[Top(S)])]
      <4> HIDE DEF d, n
      <4> QED BY <2>1, <1>3 DEF FoldOf
    <3> QED BY <3>1, <1>1
  <2> HIDE DEF Eqn
  <2> QED BY <2>2
<1>5. /\ it[1 .. 0] = base
      /\ \A k \in 1 .. n : it[1 .. k] = HeldStep(it[1 .. k - 1], s[k])
  <2>1. Unfolds(it, base, o, n)
    <3> HIDE DEF it
    <3> QED BY <1>4, <1>1 DEF Unfolds
  <2>2. /\ it[1 .. 0] = base
        /\ \A k \in 1 .. n : /\ it[1 .. k] = o[1 .. k]
                             /\ Top(1 .. k) = k /\ (1 .. k) \ {Top(1 .. k)} = 1 .. k - 1
    <3> HIDE DEF it, o, n
    <3> QED BY <2>1, <1>1, FoldAlong
  <2>3. \A k \in 1 .. n : 1 .. k \in SUBSET (1 .. n)
    OBVIOUS
  <2> HIDE DEF it
  <2> QED BY <2>2, <2>3
<1>6. HeldAllRun(h, base, s)
  <2> HIDE DEF it
  <2> QED BY <1>1, <1>2, <1>5 DEF HeldAllRun
<1> HIDE DEF h
<1> QED BY <1>6

LEMMA HeldAllEmpty ==
  ASSUME NEW E, E = Posts,
         NEW base \in SUBSET Keys
  PROVE  HeldAll(base, <<>>) = base
<1> DEFINE s == <<>>
<1>1. s \in Seq(E) /\ Len(s) = 0
  OBVIOUS
<1> HIDE DEF s
<1>2. PICK h : HeldAllRun(h, base, s)
  BY <1>1, HeldAllSteps
<1> QED BY <1>1, <1>2 DEF s, HeldAllRun

LEMMA HeldAllAppend ==
  ASSUME NEW E, E = Posts,
         NEW base \in SUBSET Keys, NEW s \in Seq(E), NEW p \in E
  PROVE  HeldAll(base, Append(s, p)) = HeldStep(HeldAll(base, s), p)
<1> DEFINE t == Append(s, p)
           n == Len(s)
<1>1. /\ t \in Seq(E) /\ Len(t) = n + 1 /\ n \in Nat
      /\ \A k \in 1 .. n : t[k] = s[k]
      /\ t[n + 1] = p
  OBVIOUS
<1> HIDE DEF t, n
<1>2. PICK g : HeldAllRun(g, base, s)
  BY HeldAllSteps
<1>3. PICK h : HeldAllRun(h, base, t)
  BY <1>1, HeldAllSteps
<1>4. /\ g[0] = h[0]
      /\ \A k \in 1 .. n : g[k - 1] = h[k - 1] => g[k] = h[k]
  BY <1>1, <1>2, <1>3 DEF HeldAllRun, n
<1>5. g[n] = h[n]
  BY <1>1, <1>4, StepsAgree, Zenon
<1> QED BY <1>1, <1>2, <1>3, <1>5 DEF t, n, HeldAllRun

LEMMA HeldAllType ==
  ASSUME NEW E, E = Posts,
         NEW base \in SUBSET Keys, NEW s \in Seq(E)
  PROVE  HeldAll(base, s) \in SUBSET Keys
<1> DEFINE T == {t \in Seq(E) : HeldAll(base, t) \in SUBSET Keys}
<1>1. <<>> \in T
  BY HeldAllEmpty
<1>2. ASSUME NEW t \in Seq(E), NEW p \in E, t \in T PROVE Append(t, p) \in T
  BY <1>2, HeldAllAppend, HeldStepType
<1>3. s \in T
  <2> HIDE DEF T
  <2> QED BY <1>1, <1>2, SeqInSet
<1> QED BY <1>3

\* A closure run goes into the base.
LEMMA HeldAllHead ==
  ASSUME NEW E, E = Posts,
         NEW base \in SUBSET Keys, NEW s \in Seq(E), s # <<>>
  PROVE  HeldAll(base, s) = HeldAll(HeldStep(base, Head(s)), Tail(s))
<1> DEFINE Good(t) == t # <<>> => HeldAll(base, t) = HeldAll(HeldStep(base, Head(t)), Tail(t))
           T == {t \in Seq(E) : Good(t)}
<1>1. ASSUME NEW t \in Seq(E), NEW p \in E, Good(t) PROVE Good(Append(t, p))
  <2>1. HeldAll(base, Append(t, p)) = HeldStep(HeldAll(base, t), p)
    BY HeldAllAppend
  <2>2. CASE t = <<>>
    <3>1. Head(Append(t, p)) = p /\ Tail(Append(t, p)) = <<>>
      BY <2>2
    <3>2. HeldStep(base, p) \in SUBSET Keys
      BY HeldStepType
    <3>3. HeldAll(base, t) = base /\ HeldAll(HeldStep(base, p), <<>>) = HeldStep(base, p)
      BY <2>2, <3>2, HeldAllEmpty
    <3> QED BY <2>1, <3>1, <3>3
  <2>3. CASE t # <<>>
    <3>1. Head(Append(t, p)) = Head(t) /\ Tail(Append(t, p)) = Append(Tail(t), p)
      BY <2>3, HeadTailAppend
    <3>2. Head(t) \in E /\ Tail(t) \in Seq(E)
      BY <2>3
    <3>3. HeldStep(base, Head(t)) \in SUBSET Keys
      BY <3>2, HeldStepType
    <3> DEFINE b == HeldStep(base, Head(t))
               r == Tail(t)
    <3>4. HeldAll(b, Append(r, p)) = HeldStep(HeldAll(b, r), p)
      <4> b \in SUBSET Keys /\ r \in Seq(E)
        BY <3>2, <3>3
      <4> HIDE DEF b, r
      <4> QED BY HeldAllAppend
    <3> QED BY <2>1, <2>3, <3>1, <3>4, <1>1
  <2> QED BY <2>2, <2>3
<1>2. <<>> \in T /\ \A t \in Seq(E), p \in E : t \in T => Append(t, p) \in T
  <2>1. Good(<<>>)
    OBVIOUS
  <2> HIDE DEF Good
  <2> QED BY <2>1, <1>1
<1>3. s \in T
  <2> HIDE DEF T
  <2> QED BY <1>2, SeqInSet
<1> QED BY <1>3

-----------------------------------------------------------------------------
(* GlowFollows: no window is ahead of keyd in what it shows as held, if    *)
(* keyd's keyboard was never lost.                                         *)

Keyed == "keys" \in Sources

Shows(g)   == HeldAll(gui[g].held, gui[g].posts)
Arrived(g) == PressAll(Shows(g), wire[g].buf)

\* The key event being broadcast, and whether it is still to be written to g.
InHand == IF src["keys"].pc \in {"lock", "write"} THEN <<src["keys"].ev>> ELSE <<>>
OwedKey(g) ==
  IF \/ src["keys"].pc = "lock"
     \/ src["keys"].pc = "write" /\ Contains(src["keys"].todo, g)
  THEN <<src["keys"].ev>> ELSE <<>>

Glow(g) ==
  /\ gui[g].pc = "dial" => Shows(g) = {}
  /\ gui[g].pc = "read" /\ wire[g].peer \in {"waiting", "taken"} =>
       IF g \in ToSet(clients) /\ feed["keys"].open
       THEN PressAll(Arrived(g), OwedKey(g) \o feed["keys"].pipe) \subseteq keyd.held
       ELSE Arrived(g) = {}

GlowAll ==
  /\ feed["keys"].open <=> src["keys"].pc # "connect"
  /\ feed["keys"].open => PressAll({}, InHand \o feed["keys"].pipe) \subseteq keyd.held
  /\ \A g \in Guis : Glow(g)

GlowFollows == Keyed /\ count.losses = 0 => GlowAll

LEMMA GlowTypes ==
  ASSUME Basics, Keyed
  PROVE  /\ keyd.held \in SUBSET Keys
         /\ feed["keys"].pipe \in Seq(Events)
         /\ src["keys"].pc \in {"lock", "write"} => src["keys"].ev \in KeyEvents
         /\ InHand \in Seq(Events)
         /\ \A g \in Guis : /\ Shows(g) \in SUBSET Keys /\ Arrived(g) \in SUBSET Keys
                            /\ gui[g].held \in SUBSET Keys /\ gui[g].posts \in Seq(Posts)
                            /\ wire[g].buf \in Seq(Events)
                            /\ OwedKey(g) \in Seq(Events)
                            /\ src["keys"].pc = "write" =>
                                 (Contains(src["keys"].todo, g) <=> g \in ToSet(src["keys"].todo))
<1>1. /\ TypeOK /\ Locking /\ "keys" \in Sources /\ Says("keys") = KeyEvents
      /\ keyd.held \in SUBSET Keys /\ feed["keys"].pipe \in Seq(Events)
  BY TypesAre, SaysEvents DEF Basics, Keyed, Feeds
<1>2. src["keys"].pc \in {"lock", "write"} => src["keys"].ev \in KeyEvents
  BY <1>1 DEF Locking
<1>3. \A ev \in KeyEvents : <<ev>> \in Seq(Events)
  BY EventsAre
<1>4. \A q : q = <<>> => q \in Seq(Events)
  OBVIOUS
<1>5. InHand = <<>> \/ InHand \in Seq(Events)
  BY <1>2, <1>3 DEF InHand
<1>6. InHand \in Seq(Events)
  BY <1>4, <1>5
<1>7. ASSUME NEW g \in Guis
      PROVE  /\ Shows(g) \in SUBSET Keys /\ Arrived(g) \in SUBSET Keys
             /\ gui[g].held \in SUBSET Keys /\ gui[g].posts \in Seq(Posts)
             /\ wire[g].buf \in Seq(Events)
             /\ OwedKey(g) \in Seq(Events)
             /\ src["keys"].pc = "write" =>
                  (Contains(src["keys"].todo, g) <=> g \in ToSet(src["keys"].todo))
  <2>1. /\ gui[g].held \in SUBSET Keys /\ gui[g].posts \in Seq(Posts)
        /\ wire[g].buf \in Seq(Events) /\ src["keys"].todo \in Seq(Guis)
    BY <1>1, TypesAre DEF Windows, Wires, Threads
  <2>2. Shows(g) \in SUBSET Keys
    BY <2>1, HeldAllType DEF Shows
  <2>3. Arrived(g) \in SUBSET Keys
    BY <2>1, <2>2, PressAllType, EventsAre DEF Arrived
  <2>4. OwedKey(g) = <<>> \/ OwedKey(g) \in Seq(Events)
    BY <1>2, <1>3 DEF OwedKey
  <2>5. OwedKey(g) \in Seq(Events)
    BY <1>4, <2>4
  <2> QED BY <2>1, <2>2, <2>3, <2>5, ContainsIs
<1> QED BY <1>1, <1>2, <1>6, <1>7

\* A key event, or another, behind a run of events.
LEMMA PressBehind ==
  ASSUME NEW held \in SUBSET Keys, NEW s \in Seq(Events), NEW t \in Seq(Events),
         NEW ev \in Events
  PROVE  /\ PressAll(held, s \o Append(t, ev)) = KeyStep(PressAll(held, s \o t), ev)
         /\ PressAll(held, Append(s, ev)) = KeyStep(PressAll(held, s), ev)
         /\ s # <<>> => PressAll(held, s) = PressAll(KeyStep(held, Head(s)), Tail(s))
<1>1. s \o Append(t, ev) = Append(s \o t, ev) /\ s \o t \in Seq(Events)
  OBVIOUS
<1> DEFINE r == s \o t
<1>2. PressAll(held, Append(r, ev)) = KeyStep(PressAll(held, r), ev)
  <2>1. r \in Seq(Events)
    BY <1>1
  <2> HIDE DEF r
  <2> QED BY <2>1, PressAllAppend, EventsAre
<1>3. PressAll(held, Append(s, ev)) = KeyStep(PressAll(held, s), ev)
  BY PressAllAppend, EventsAre
<1>4. s # <<>> => PressAll(held, s) = PressAll(KeyStep(held, Head(s)), Tail(s))
  BY PressAllHead, EventsAre
<1> QED BY <1>1, <1>2, <1>3, <1>4

LEMMA KeyStepIs ==
  ASSUME NEW held \in SUBSET Keys
  PROVE  /\ \A ev \in LayerEvents : KeyStep(held, ev) = held
         /\ \A ev \in KeyEvents : KeyStep(held, ev) = PressKey(held, ev)
BY EventsAre DEF KeyStep

\* A step that a window and the key stream do not notice.
Same(g) ==
  /\ gui'[g].pc = gui[g].pc /\ wire'[g].peer = wire[g].peer
  /\ Shows(g)' = Shows(g) /\ Arrived(g)' = Arrived(g)
  /\ g \in ToSet(clients') <=> g \in ToSet(clients)

KeysSame == feed'["keys"] = feed["keys"] /\ src'["keys"] = src["keys"] /\ keyd'.held = keyd.held

LEMMA GlowKept ==
  ASSUME NEW g \in Guis, Glow(g), Same(g), KeysSame
  PROVE  Glow(g)'
<1>1. OwedKey(g)' = OwedKey(g)
  BY DEF KeysSame, OwedKey
<1> QED BY <1>1 DEF Glow, Same, KeysSame

LEMMA GlowAllKept ==
  ASSUME GlowAll, KeysSame, \A g \in Guis : Glow(g)'
  PROVE  GlowAll'
<1>1. InHand' = InHand
  BY DEF KeysSame, InHand
<1> QED BY <1>1 DEF GlowAll, KeysSame

LEMMA SameWhen ==
  ASSUME NEW g \in Guis, gui'[g] = gui[g], wire'[g].buf = wire[g].buf
  PROVE  Shows(g)' = Shows(g) /\ Arrived(g)' = Arrived(g)
<1>1. Shows(g)' = Shows(g)
  BY DEF Shows
<1> QED BY <1>1 DEF Arrived

LEMMA GlowKeyd ==
  ASSUME Basics, Keyed, GlowAll, KeydStep, count'.losses = 0
  PROVE  GlowAll' /\ count.losses = 0
<1>0. TypeOK
  BY DEF Basics
<1>1. ASSUME NEW l \in Layers, SwitchLayer(l) PROVE GlowAll' /\ count.losses = 0
  <2>1. KeysSame /\ count'.losses = count.losses /\ UNCHANGED <<gui, wire, clients>>
    BY <1>0, <1>1, SwitchIs DEF KeysSame, Keyed
  <2>2. \A g \in Guis : Same(g)
    BY <2>1, SameWhen DEF Same
  <2> QED BY <2>1, <2>2, GlowKept, GlowAllKept DEF GlowAll
<1>2. ASSUME NEW k \in Keys, PressOrRelease(k) PROVE GlowAll' /\ count.losses = 0
  <2>1. /\ count'.losses = count.losses
        /\ UNCHANGED <<snap, clients, lock, src, adder, helper, wire, gui, joined>>
    BY <1>0, <1>2, PressIs
  <2>2. PICK ev \in KeyEvents :
              /\ keyd'.held = PressKey(keyd.held, ev)
              /\ feed'["keys"].open = feed["keys"].open
              /\ feed["keys"].open => feed'["keys"].pipe = Append(feed["keys"].pipe, ev)
    BY <1>0, <1>2, PressIs
  <2>3. /\ ev \in Events /\ InHand' = InHand
        /\ \A g \in Guis : /\ OwedKey(g)' = OwedKey(g) /\ gui'[g] = gui[g] /\ wire'[g] = wire[g]
                           /\ Shows(g)' = Shows(g) /\ Arrived(g)' = Arrived(g)
    BY <2>1, EventsAre, SameWhen DEF InHand, OwedKey
  <2>4. ASSUME NEW h \in SUBSET Keys, NEW s \in Seq(Events), feed["keys"].open,
               PressAll(h, s \o feed["keys"].pipe) \subseteq keyd.held
        PROVE  PressAll(h, s \o feed'["keys"].pipe) \subseteq keyd'.held
    <3> DEFINE p == feed["keys"].pipe
    <3>1. p \in Seq(Events) /\ keyd.held \in SUBSET Keys
      BY GlowTypes
    <3>2. PressAll(h, s \o Append(p, ev)) = KeyStep(PressAll(h, s \o p), ev)
      <4> HIDE DEF p
      <4> QED BY <2>3, <3>1, PressBehind
    <3>3. \A x : KeyStep(x, ev) = PressKey(x, ev)
      BY EventsAre DEF KeyStep
    <3>4. PressKey(PressAll(h, s \o p), ev) \subseteq PressKey(keyd.held, ev)
      BY <2>4 DEF PressKey
    <3> QED BY <2>2, <2>4, <3>2, <3>3, <3>4
  <2>5. feed'["keys"].open => PressAll({}, InHand' \o feed'["keys"].pipe) \subseteq keyd'.held
    BY <2>2, <2>3, <2>4, GlowTypes DEF GlowAll
  <2>6. ASSUME NEW g \in Guis PROVE Glow(g)'
    <3>1. Glow(g) /\ Arrived(g) \in SUBSET Keys /\ OwedKey(g) \in Seq(Events)
      BY GlowTypes DEF GlowAll
    <3> QED BY <2>1, <2>2, <2>3, <2>4, <3>1 DEF Glow
  <2> QED BY <2>1, <2>2, <2>5, <2>6 DEF GlowAll
<1>3. CASE KeydStops \/ DropListener
  BY <1>0, <1>3, KeydStopsIs, DropListenerIs
<1>4. CASE KeydStarts
  <2>1. KeysSame /\ count'.losses = count.losses /\ UNCHANGED <<gui, wire, clients>>
    BY <1>0, <1>4, KeydStartsIs DEF KeysSame
  <2>2. \A g \in Guis : Same(g)
    BY <2>1, SameWhen DEF Same
  <2> QED BY <2>1, <2>2, GlowKept, GlowAllKept DEF GlowAll
<1> QED BY <1>1, <1>2, <1>3, <1>4 DEF KeydStep

\* The layer thread reaches no glow: its events are skipped.
LEMMA GlowLayers ==
  ASSUME Basics, Keyed, GlowAll, SourceStep("layers")
  PROVE  GlowAll' /\ count'.losses = count.losses
<1>0. TypeOK /\ "layers" \in Sources /\ "keys" \in Sources /\ "keys" # "layers"
  BY SourcesAre DEF Basics, Keyed
<1>1. CASE ~Write("layers")
  <2>1. KeysSame
    <3>1. CASE Connect("layers")
      BY <1>0, <3>1, ConnectIs DEF KeysSame, SrcSet, FeedSet
    <3>2. CASE Read("layers")
      BY <1>0, <3>2, ReadIs DEF KeysSame, SrcSet, FeedSet
    <3>3. CASE Lock("layers") \/ Unlock("layers") \/ Lost("layers")
      BY <1>0, <3>3, LockIs, UnlockIs, LostIs DEF KeysSame, SrcSet
    <3> QED BY <1>1, <3>1, <3>2, <3>3 DEF SourceStep
  <2>2. UNCHANGED <<gui, wire, clients>> /\ count'.losses = count.losses
    BY <1>0, <1>1, ConnectIs, ReadIs, LockIs, UnlockIs, LostIs DEF SourceStep
  <2>3. \A g \in Guis : Same(g)
    BY <2>2, SameWhen DEF Same
  <2> QED BY <2>1, <2>2, <2>3, GlowKept, GlowAllKept DEF GlowAll
<1>2. CASE Write("layers")
  <2>1. PICK h \in Guis, ev \in LayerEvents :
          /\ h \in ToSet(clients)
          /\ \/ /\ clients' = clients
                /\ WireSet(h, wire[h].peer, Append(wire[h].buf, ev))
             \/ /\ gui[h].pc = "gone" /\ wire' = wire
                /\ ToSet(clients') = ToSet(clients) \ {h}
    BY <1>0, <1>2, WriteIs, SaysEvents
  <2>2. KeysSame /\ gui' = gui /\ count'.losses = count.losses
    BY <1>0, <1>2, WriteIs DEF KeysSame, SrcSet
  <2>3. ASSUME NEW g \in Guis PROVE Glow(g)'
    <3>1. /\ Glow(g) /\ wire[g].buf \in Seq(Events) /\ Shows(g) \in SUBSET Keys
          /\ Arrived(g) \in SUBSET Keys
      BY GlowTypes DEF GlowAll
    <3>2. CASE g # h
      <4>1. gui'[g] = gui[g] /\ wire'[g] = wire[g]
            /\ (g \in ToSet(clients') <=> g \in ToSet(clients))
        BY <2>1, <2>2, <3>2 DEF WireSet
      <4>2. Same(g)
        BY <4>1, SameWhen DEF Same
      <4> QED BY <2>2, <3>1, <4>2, GlowKept
    <3>3. CASE g = h /\ gui[h].pc = "gone"
      BY <2>2, <3>3 DEF Glow
    <3>4. CASE g = h /\ gui[h].pc # "gone"
      <4>1. /\ clients' = clients /\ gui'[g] = gui[g] /\ wire'[g].peer = wire[g].peer
            /\ wire'[g].buf = Append(wire[g].buf, ev) /\ Shows(g)' = Shows(g)
        BY <2>1, <2>2, <3>4 DEF WireSet, Shows
      <4> DEFINE b == wire[g].buf
                 x == Shows(g)
      <4>2. PressAll(x, Append(b, ev)) = KeyStep(PressAll(x, b), ev) /\ ev \in Events
        <5>1. ev \in Events /\ b \in Seq(Events) /\ x \in SUBSET Keys
          BY <3>1, EventsAre
        <5> HIDE DEF b, x
        <5> QED BY <5>1, PressBehind
      <4>3. Arrived(g)' = Arrived(g)
        <5>1. KeyStep(Arrived(g), ev) = Arrived(g)
          BY <3>1, KeyStepIs
        <5> QED BY <4>1, <4>2, <5>1 DEF Arrived
      <4>4. Same(g)
        BY <4>1, <4>3 DEF Same
      <4> QED BY <2>2, <3>1, <4>4, GlowKept
    <3> QED BY <3>2, <3>3, <3>4
  <2> QED BY <2>2, <2>3, GlowAllKept
<1> QED BY <1>1, <1>2

\* The key thread: what it has in hand was in the pipe, and then is on the wire.
LEMMA GlowKeys ==
  ASSUME Basics, Keyed, GlowAll, SourceStep("keys")
  PROVE  GlowAll' /\ count'.losses = count.losses
<1> DEFINE th == src["keys"]
           pipe == feed["keys"].pipe
<1>0. /\ TypeOK /\ "keys" \in Sources /\ "keys" # "layers" /\ Says("keys") = KeyEvents
      /\ pipe \in Seq(Events) /\ keyd.held \in SUBSET Keys
      /\ Locking /\ Joining
  BY GlowTypes, SaysEvents DEF Basics, Keyed
<1>1. CASE Connect("keys")
  <2>1. /\ UNCHANGED <<gui, wire, clients>> /\ count'.losses = count.losses /\ keyd' = keyd
        /\ th'.pc = "read" /\ th.pc = "connect"
        /\ feed'["keys"].open = TRUE /\ feed'["keys"].pipe = <<>>
    BY <1>0, <1>1, ConnectIs DEF SrcSet, FeedSet
  <2>2. InHand' \o feed'["keys"].pipe = <<>> /\ \A g : OwedKey(g)' \o feed'["keys"].pipe = <<>>
    BY <2>1 DEF InHand, OwedKey
  <2>3. \A x \in SUBSET Keys : PressAll(x, <<>>) = x
    BY PressAllEmpty, EventsAre
  <2>4. ~feed["keys"].open
    BY <2>1 DEF GlowAll
  <2>5. ASSUME NEW g \in Guis PROVE Glow(g)'
    <3>1. Shows(g)' = Shows(g) /\ Arrived(g)' = Arrived(g)
      BY <2>1, SameWhen
    <3>2. Glow(g)
      BY DEF GlowAll
    <3> QED BY <2>1, <2>2, <2>3, <2>4, <3>1, <3>2 DEF Glow
  <2>6. PressAll({}, InHand' \o feed'["keys"].pipe) = {}
    BY <2>2, <2>3
  <2> QED BY <2>1, <2>5, <2>6 DEF GlowAll
<1>2. CASE Read("keys")
  <2>1. /\ UNCHANGED <<gui, wire, clients, count, keyd>>
        /\ th'.pc = "lock" /\ th.pc = "read" /\ th'.ev = Head(pipe) /\ pipe # <<>>
        /\ feed'["keys"].open = feed["keys"].open /\ feed'["keys"].pipe = Tail(pipe)
    BY <1>0, <1>2, ReadIs DEF SrcSet, FeedSet
  <2>2. <<Head(pipe)>> \o Tail(pipe) = <<>> \o pipe
    <3> HIDE DEF pipe
    <3> QED BY <1>0, <2>1
  <2>3. /\ InHand' \o feed'["keys"].pipe = InHand \o pipe
        /\ \A g : OwedKey(g)' \o feed'["keys"].pipe = OwedKey(g) \o pipe
    <3>1. /\ InHand' = <<Head(pipe)>> /\ InHand = <<>>
          /\ \A g : OwedKey(g)' = <<Head(pipe)>> /\ OwedKey(g) = <<>>
      BY <2>1 DEF InHand, OwedKey
    <3> QED BY <2>1, <2>2, <3>1
  <2>4. ASSUME NEW g \in Guis PROVE Glow(g)'
    <3>1. Shows(g)' = Shows(g) /\ Arrived(g)' = Arrived(g) /\ Glow(g)
      BY <2>1, SameWhen DEF GlowAll
    <3> QED BY <2>1, <2>3, <3>1 DEF Glow
  <2> QED BY <2>1, <2>3, <2>4 DEF GlowAll
<1>3. CASE Lock("keys")
  <2>1. /\ UNCHANGED <<gui, wire, clients, count, keyd, feed>>
        /\ th'.pc = "write" /\ th.pc = "lock" /\ th'.ev = th.ev /\ th'.todo = clients
        /\ clients \in Seq(Guis)
    BY <1>0, <1>3, LockIs, TypesAre, StacksAre, Bounds DEF SrcSet
  <2>2. InHand' = InHand /\ \A g \in ToSet(clients) : OwedKey(g)' = OwedKey(g)
    <3>1. \A g \in ToSet(clients) : Contains(clients, g)
      BY <2>1, ContainsIs
    <3> QED BY <2>1, <3>1 DEF InHand, OwedKey
  <2>3. ASSUME NEW g \in Guis PROVE Glow(g)'
    <3>1. Shows(g)' = Shows(g) /\ Arrived(g)' = Arrived(g) /\ Glow(g)
      BY <2>1, SameWhen DEF GlowAll
    <3> QED BY <2>1, <2>2, <3>1 DEF Glow
  <2> QED BY <2>1, <2>2, <2>3 DEF GlowAll
<1>4. CASE Write("keys")
  <2>1. PICK h \in Guis, ev \in KeyEvents, todo \in Seq(Guis) :
          /\ h \in ToSet(clients) /\ h = Head(todo) /\ ev = th.ev /\ todo = th.todo
          /\ \/ /\ clients' = clients
                /\ WireSet(h, wire[h].peer, Append(wire[h].buf, ev))
             \/ /\ gui[h].pc = "gone" /\ wire' = wire
                /\ ToSet(clients') = ToSet(clients) \ {h}
    <3>1. th.todo \in Seq(Guis)
      BY <1>0, TypesAre DEF Threads
    <3> QED BY <1>0, <1>4, <3>1, WriteIs
  <2>2. /\ UNCHANGED <<gui, count, keyd, feed>>
        /\ th'.pc = "write" /\ th.pc = "write" /\ th'.ev = th.ev /\ th'.todo = Tail(todo)
        /\ todo # <<>> /\ IsInjective(todo)
    BY <1>0, <1>4, <2>1, WriteIs DEF SrcSet, Locking
  <2>3. InHand' = InHand
    BY <2>2 DEF InHand
  <2>4. /\ Tail(todo) \in Seq(Guis) /\ h \in ToSet(todo)
        /\ ToSet(Tail(todo)) = ToSet(todo) \ {h}
    BY <2>1, <2>2, TailIs
  <2>5. \A g : /\ Contains(Tail(todo), g) <=> g \in ToSet(todo) /\ g # h
               /\ Contains(todo, g) <=> g \in ToSet(todo)
    BY <2>1, <2>4, ContainsIs
  <2>6. ASSUME NEW g \in Guis PROVE Glow(g)'
    <3>1. /\ Glow(g) /\ wire[g].buf \in Seq(Events) /\ Shows(g) \in SUBSET Keys
          /\ Arrived(g) \in SUBSET Keys
      BY GlowTypes DEF GlowAll
    <3>2. CASE g # h
      <4>1. gui'[g] = gui[g] /\ wire'[g] = wire[g]
            /\ (g \in ToSet(clients') <=> g \in ToSet(clients))
        BY <2>1, <2>2, <3>2 DEF WireSet
      <4>2. Shows(g)' = Shows(g) /\ Arrived(g)' = Arrived(g)
        BY <4>1, SameWhen
      <4>3. OwedKey(g)' = OwedKey(g)
        BY <2>1, <2>2, <2>5, <3>2 DEF OwedKey
      <4> QED BY <2>2, <3>1, <4>1, <4>2, <4>3 DEF Glow
    <3>3. CASE g = h /\ gui[h].pc = "gone"
      BY <2>2, <3>3 DEF Glow
    <3>4. CASE g = h /\ gui[h].pc # "gone"
      <4>1. /\ clients' = clients /\ gui'[g] = gui[g] /\ wire'[g].peer = wire[g].peer
            /\ wire'[g].buf = Append(wire[g].buf, ev) /\ Shows(g)' = Shows(g)
            /\ g \in ToSet(clients)
        BY <2>1, <2>2, <3>4 DEF WireSet, Shows
      <4> DEFINE b == wire[g].buf
                 x == Shows(g)
                 y == Arrived(g)
      <4>2. Arrived(g)' = KeyStep(y, ev)
        <5>1. ev \in Events /\ b \in Seq(Events) /\ x \in SUBSET Keys
          BY <3>1, EventsAre
        <5>2. PressAll(x, Append(b, ev)) = KeyStep(PressAll(x, b), ev)
          <6> HIDE DEF b, x
          <6> QED BY <5>1, PressBehind
        <5> QED BY <4>1, <5>2 DEF Arrived
      <4>3. OwedKey(g) = <<ev>> /\ OwedKey(g)' = <<>>
        BY <2>1, <2>2, <2>4, <2>5, <3>4 DEF OwedKey
      <4>4. PressAll(y, <<ev>> \o pipe) = PressAll(KeyStep(y, ev), <<>> \o pipe)
        <5> DEFINE q == <<ev>>
        <5>1. /\ q \in Seq(Events) /\ Head(q \o pipe) = ev /\ Tail(q \o pipe) = pipe
              /\ q \o pipe # <<>> /\ q \o pipe \in Seq(Events) /\ <<>> \o pipe = pipe
              /\ ev \in Events
          <6>1. ev \in Events
            BY EventsAre
          <6> HIDE DEF pipe
          <6> QED BY <1>0, <6>1
        <5> DEFINE qp == q \o pipe
        <5> HIDE DEF qp
        <5>2. PressAll(y, qp) = PressAll(KeyStep(y, Head(qp)), Tail(qp))
          <6>1. qp \in Seq(Events) /\ qp # <<>> /\ y \in SUBSET Keys
            BY <3>1, <5>1 DEF qp
          <6> HIDE DEF y
          <6> QED BY <6>1, PressBehind, EventsAre, PressAllHead
        <5> QED BY <5>1, <5>2 DEF qp
      <4>5. feed["keys"].open
        BY <2>2 DEF GlowAll
      <4> QED BY <2>2, <3>1, <3>4, <4>1, <4>2, <4>3, <4>4, <4>5 DEF Glow
    <3> QED BY <3>2, <3>3, <3>4
  <2> QED BY <2>2, <2>3, <2>6 DEF GlowAll
<1>5. CASE Unlock("keys")
  <2>1. /\ UNCHANGED <<gui, wire, clients, count, keyd, feed>>
        /\ th'.pc = "read" /\ th.pc = "write" /\ th.todo = <<>>
    BY <1>0, <1>5, UnlockIs DEF SrcSet
  <2>2. \A g : OwedKey(g)' = <<>> /\ OwedKey(g) = <<>>
    BY <2>1 DEF OwedKey, Contains
  <2>3. ASSUME NEW g \in Guis PROVE Glow(g)'
    <3>1. Shows(g)' = Shows(g) /\ Arrived(g)' = Arrived(g) /\ Glow(g)
      BY <2>1, SameWhen DEF GlowAll
    <3> QED BY <2>1, <2>2, <3>1 DEF Glow
  <2>4. InHand' = <<>> /\ InHand = <<th.ev>> /\ th.ev \in KeyEvents /\ th.ev \in Events
    BY <2>1, GlowTypes, EventsAre DEF InHand
  <2>5. PressAll({}, <<>> \o pipe) \subseteq PressAll({}, <<th.ev>> \o pipe)
    <3> DEFINE ev == th.ev
               q == <<ev>>
               qp == q \o pipe
               none == {}
    <3>1. /\ Head(qp) = ev /\ Tail(qp) = pipe /\ qp # <<>> /\ qp \in Seq(Events)
          /\ <<>> \o pipe = pipe
      <4> HIDE DEF pipe, ev
      <4> QED BY <1>0, <2>4 DEF ev
    <3> HIDE DEF qp
    <3>2. PressAll(none, qp) = PressAll(KeyStep(none, Head(qp)), Tail(qp))
      <4>1. none \in SUBSET Keys
        OBVIOUS
      <4> HIDE DEF none
      <4> QED BY <3>1, <4>1, PressAllHead, EventsAre
    <3>3. KeyStep(none, ev) \in SUBSET Keys
      BY <2>4, KeyStepIs, PressKeyType
    <3>4. PressAll(none, pipe) \subseteq PressAll(KeyStep(none, ev), pipe)
      <4> DEFINE high == KeyStep(none, ev)
      <4>1. none \in SUBSET Keys /\ high \in SUBSET Keys /\ none \subseteq high
        BY <3>3
      <4>2. PressAll(none, pipe) \subseteq PressAll(high, pipe)
        <5> HIDE DEF none, high, pipe
        <5> QED BY <1>0, <4>1, PressAllGrows, EventsAre
      <4> QED BY <4>2
    <3> QED BY <3>1, <3>2, <3>4 DEF qp
  <2> QED BY <2>1, <2>3, <2>4, <2>5 DEF GlowAll
<1>6. CASE Lost("keys")
  BY <1>0, <1>6, LostIs DEF GlowAll
<1> QED BY <1>1, <1>2, <1>3, <1>4, <1>5, <1>6 DEF SourceStep

\* The accept loop: what it writes are layer events, and the client it
\* registers owes nothing but what the key thread has in hand.
LEMMA GlowAdd ==
  ASSUME Basics, Keyed, GlowAll, AddStep
  PROVE  GlowAll' /\ count'.losses = count.losses
<1>0. TypeOK /\ Joining /\ Locking /\ "keys" \in Sources
  BY DEF Basics, Keyed
<1>1. ASSUME NEW h \in Guis, Accept(h) PROVE GlowAll' /\ count'.losses = count.losses
  <2>1. /\ KeysSame /\ UNCHANGED <<gui, clients, count>> /\ wire[h].peer = "waiting"
        /\ WireSet(h, "taken", wire[h].buf)
    BY <1>0, <1>1, AcceptIs DEF KeysSame
  <2>2. h \notin ToSet(clients)
    BY <1>0, <2>1 DEF Joining
  <2>3. ASSUME NEW g \in Guis PROVE Glow(g)'
    <3>1. wire'[g].buf = wire[g].buf /\ gui'[g] = gui[g] /\ Glow(g)
      BY <2>1 DEF WireSet, GlowAll
    <3>2. Shows(g)' = Shows(g) /\ Arrived(g)' = Arrived(g)
      BY <3>1, SameWhen
    <3>3. CASE g = h
      BY <2>1, <2>2, <3>1, <3>2, <3>3 DEF Glow
    <3>4. CASE g # h
      <4>1. wire'[g].peer = wire[g].peer
        BY <2>1, <3>4 DEF WireSet
      <4>2. Same(g)
        BY <2>1, <3>1, <3>2, <4>1 DEF Same
      <4> QED BY <2>1, <3>1, <4>2, GlowKept
    <3> QED BY <3>3, <3>4
  <2> QED BY <2>1, <2>3, GlowAllKept
<1>2. CASE Snapshot
  <2>1. KeysSame /\ UNCHANGED <<gui, wire, clients, count>>
    BY <1>2, SnapshotIs DEF KeysSame
  <2>2. \A g \in Guis : Same(g)
    BY <2>1, SameWhen DEF Same
  <2> QED BY <2>1, <2>2, GlowKept, GlowAllKept DEF GlowAll
<1>3. CASE Replay
  <2> DEFINE h == adder.gui
             ev == On(Head(adder.copy))
  <2>1. /\ KeysSame /\ UNCHANGED <<gui, clients, count>> /\ h \in Guis
        /\ \/ WireSet(h, wire[h].peer, Append(wire[h].buf, ev)) /\ ev \in LayerEvents
           \/ wire' = wire
    BY <1>3, ReplayIs DEF KeysSame
  <2> HIDE DEF h, ev
  <2>2. ASSUME NEW g \in Guis PROVE Same(g)
    <3>1. CASE wire'[g] = wire[g]
      BY <2>1, <3>1, SameWhen DEF Same
    <3>2. CASE wire'[g] # wire[g]
      <4>1. /\ g = h /\ ev \in LayerEvents /\ ev \in Events
            /\ wire'[g].peer = wire[g].peer /\ wire'[g].buf = Append(wire[g].buf, ev)
        BY <2>1, <3>2, EventsAre DEF WireSet
      <4> DEFINE b == wire[g].buf
                 x == Shows(g)
      <4>2. Shows(g)' = x /\ b \in Seq(Events) /\ x \in SUBSET Keys /\ Arrived(g) \in SUBSET Keys
        BY <2>1, GlowTypes DEF Shows
      <4>3. PressAll(x, Append(b, ev)) = KeyStep(PressAll(x, b), ev)
        <5> HIDE DEF b, x
        <5> QED BY <4>1, <4>2, PressBehind
      <4>4. KeyStep(Arrived(g), ev) = Arrived(g)
        BY <4>1, <4>2, KeyStepIs
      <4>5. Arrived(g)' = Arrived(g)
        BY <4>1, <4>2, <4>3, <4>4 DEF Arrived
      <4> QED BY <2>1, <4>1, <4>2, <4>5 DEF Same
    <3> QED BY <3>1, <3>2
  <2> QED BY <2>1, <2>2, GlowKept, GlowAllKept DEF GlowAll
<1>4. CASE Register
  <2>1. PICK h \in Guis :
          /\ KeysSame /\ UNCHANGED <<gui, wire, count>> /\ h = adder.gui
          /\ lock = "free" /\ adder.pc = "replay"
          /\ ToSet(clients') = ToSet(clients) \union {h}
    BY <1>4, RegisterIs DEF KeysSame
  <2>2. h \notin ToSet(clients) /\ wire[h].peer = "taken" /\ src["keys"].pc # "write"
    BY <1>0, <2>1, SourcesAre DEF Joining, Locking
  <2>3. OwedKey(h)' = InHand
    BY <2>1, <2>2 DEF OwedKey, InHand, KeysSame
  <2>4. ASSUME NEW g \in Guis PROVE Glow(g)'
    <3>1. Shows(g)' = Shows(g) /\ Arrived(g)' = Arrived(g) /\ Glow(g)
      BY <2>1, SameWhen DEF GlowAll
    <3>2. CASE g # h
      BY <2>1, <3>1, <3>2, GlowKept DEF Same
    <3>3. CASE g = h
      <4>1. gui[g].pc = "read" => Arrived(g) = {}
        BY <2>2, <3>1, <3>3 DEF Glow
      <4>2. feed["keys"].open => PressAll({}, InHand \o feed["keys"].pipe) \subseteq keyd.held
        BY DEF GlowAll
      <4>3. /\ gui'[g].pc = gui[g].pc /\ wire'[g] = wire[g] /\ feed'["keys"] = feed["keys"]
            /\ keyd'.held = keyd.held /\ OwedKey(g)' = InHand
        BY <2>1, <2>3, <3>3 DEF KeysSame
      <4>4. gui[g].pc = "dial" => Shows(g)' = {}
        BY <3>1 DEF Glow
      <4>5. gui[g].pc = "read" => Arrived(g)' = {}
        BY <3>1, <4>1
      <4> HIDE DEF Shows, Arrived, OwedKey, InHand
      <4> QED BY <4>2, <4>3, <4>4, <4>5 DEF Glow
    <3> QED BY <3>2, <3>3
  <2> QED BY <2>1, <2>4, GlowAllKept
<1> QED BY <1>1, <1>2, <1>3, <1>4 DEF AddStep

LEMMA GlowHelper ==
  ASSUME Basics, Keyed, GlowAll, HelperStops \/ HelperStarts
  PROVE  GlowAll' /\ count'.losses = count.losses
<1>0. TypeOK /\ "keys" \in Sources
  BY DEF Basics, Keyed
<1>1. CASE HelperStops
  <2>1. /\ gui' = gui /\ src'["keys"].pc = "connect" /\ ~feed'["keys"].open
        /\ count'.losses = count.losses
        /\ \A g \in Guis : /\ wire'[g].buf = wire[g].buf
                           /\ wire'[g].peer \in {"none", "closed"}
    BY <1>0, <1>1, HelperStopsIs
  <2>2. ASSUME NEW g \in Guis PROVE Glow(g)'
    <3>1. Shows(g)' = Shows(g) /\ Glow(g)
      BY <2>1, SameWhen DEF GlowAll
    <3> QED BY <2>1, <3>1 DEF Glow
  <2> QED BY <2>1, <2>2 DEF GlowAll
<1>2. CASE HelperStarts
  <2>1. KeysSame /\ UNCHANGED <<gui, wire, clients, count>>
    BY <1>0, <1>2, HelperStartsIs DEF KeysSame
  <2>2. \A g \in Guis : Same(g)
    BY <2>1, SameWhen DEF Same
  <2> QED BY <2>1, <2>2, GlowKept, GlowAllKept DEF GlowAll
<1> QED BY <1>1, <1>2

\* What a closure posted last does to what the window comes to show.
LEMMA PostedShows ==
  ASSUME Basics, Keyed, NEW g \in Guis, NEW p \in Posts, NEW pc, NEW active,
         GuiSet(g, pc, active, Append(gui[g].posts, p))
  PROVE  Shows(g)' = HeldStep(Shows(g), p)
<1> DEFINE b == gui[g].held
           ps == gui[g].posts
<1>1. b \in SUBSET Keys /\ ps \in Seq(Posts)
  BY GlowTypes
<1>2. HeldAll(b, Append(ps, p)) = HeldStep(HeldAll(b, ps), p)
  <2> HIDE DEF b, ps
  <2> QED BY <1>1, HeldAllAppend
<1> QED BY <1>2 DEF GuiSet, Shows

\* A window runs its closures, takes what is on its wire, or begins anew.
LEMMA GlowGui ==
  ASSUME Basics, Keyed, GlowAll, GuiStep
  PROVE  GlowAll' /\ count'.losses = count.losses
<1>0. TypeOK /\ Joining /\ KeysSame /\ clients' = clients
  BY Sides DEF Basics, KeysSame
<1>1. PICK h \in Guis : ClientStep(h) \/ RunPost(h) \/ Quit(h)
  BY DEF GuiStep
<1> DEFINE b == wire[h].buf
           x == Shows(h)
<1>2. /\ Glow(h) /\ x \in SUBSET Keys /\ b \in Seq(Events) /\ Arrived(h) = PressAll(x, b)
  BY GlowTypes DEF GlowAll, Arrived
<1>3. ASSUME Glow(h)', count'.losses = count.losses,
             \A g \in Guis \ {h} : gui'[g] = gui[g] /\ wire'[g] = wire[g]
      PROVE  GlowAll' /\ count'.losses = count.losses
  <2>1. ASSUME NEW g \in Guis PROVE Glow(g)'
    <3>1. CASE g = h
      BY <1>3, <3>1
    <3>2. CASE g # h
      <4>1. Same(g) /\ Glow(g)
        BY <1>0, <1>3, <3>2, SameWhen DEF Same, GlowAll
      <4> QED BY <1>0, <4>1, GlowKept
    <3> QED BY <3>1, <3>2
  <2> QED BY <1>0, <1>3, <2>1, GlowAllKept
<1>4. CASE Dial(h)
  <2>1. /\ count' = count /\ gui[h].pc = "dial" /\ WireSet(h, "waiting", <<>>)
        /\ Connection(TRUE) \in Posts
        /\ GuiSet(h, "read", gui[h].active, Append(gui[h].posts, Connection(TRUE)))
    BY <1>0, <1>4, DialIs
  <2>2. Shows(h)' = {}
    BY <1>2, <2>1, PostedShows DEF HeldStep, Connection, Glow
  <2>3. h \notin ToSet(clients)
    BY <1>0, <2>1 DEF Joining
  <2>4. Arrived(h)' = {}
    <3>1. PressAll({}, <<>>) = {}
      BY PressAllEmpty, EventsAre
    <3> QED BY <2>1, <2>2, <3>1 DEF WireSet, Arrived
  <2>5. Glow(h)'
    BY <1>0, <2>1, <2>3, <2>4 DEF Glow, WireSet, GuiSet
  <2> QED BY <1>3, <2>1, <2>5 DEF WireSet, GuiSet
<1>5. CASE ReceiveLayer(h) \/ ReceiveKey(h)
  <2>1. PICK p, active :
          /\ p \in Posts
          /\ count' = count /\ gui[h].pc = "read" /\ b # <<>>
          /\ WireSet(h, wire[h].peer, Tail(b))
          /\ GuiSet(h, "read", active, Append(gui[h].posts, p))
          /\ Head(b) \in Events
          /\ HeldStep(x, p) = KeyStep(x, Head(b))
    <3>1. CASE ReceiveLayer(h)
      <4>1. /\ count' = count /\ gui[h].pc = "read" /\ b # <<>>
            /\ WireSet(h, wire[h].peer, Tail(b))
            /\ Head(b) \in LayerEvents
        BY <1>0, <3>1, ReceiveLayerIs
      <4>2. PICK p \in Posts :
              /\ p.post = "layers"
              /\ GuiSet(h, "read", ApplyLayer(gui[h].active, Head(b)), Append(gui[h].posts, p))
        BY <1>0, <3>1, ReceiveLayerIs
      <4>3. HeldStep(x, p) = x /\ KeyStep(x, Head(b)) = x /\ Head(b) \in Events
        BY <1>2, <4>1, <4>2, KeyStepIs, EventsAre DEF HeldStep
      <4> QED BY <4>1, <4>2, <4>3
    <3>2. CASE ReceiveKey(h)
      <4> DEFINE ev == Head(b)
                 p == Press(ev)
      <4>1. /\ count' = count /\ gui[h].pc = "read" /\ b # <<>>
            /\ WireSet(h, wire[h].peer, Tail(b))
            /\ ev \in KeyEvents /\ p \in Posts
            /\ GuiSet(h, "read", gui[h].active, Append(gui[h].posts, p))
        BY <1>0, <3>2, ReceiveKeyIs
      <4>2. HeldStep(x, p) = PressKey(x, ev)
        BY DEF HeldStep, Press
      <4>3. KeyStep(x, ev) = PressKey(x, ev) /\ ev \in Events
        BY <1>2, <4>1, KeyStepIs, EventsAre
      <4> HIDE DEF ev, p
      <4> QED BY <4>1, <4>2, <4>3 DEF ev
    <3> QED BY <1>5, <3>1, <3>2
  <2>2. Shows(h)' = KeyStep(x, Head(b))
    BY <2>1, PostedShows
  <2>3. PressAll(x, b) = PressAll(KeyStep(x, Head(b)), Tail(b))
    <3>1. b # <<>>
      BY <2>1
    <3> HIDE DEF b, x
    <3> QED BY <1>2, <3>1, PressAllHead, EventsAre
  <2>4. Arrived(h)' = Arrived(h)
    BY <1>2, <2>1, <2>2, <2>3 DEF WireSet, Arrived
  <2>5. OwedKey(h)' = OwedKey(h)
    BY <1>0 DEF KeysSame, OwedKey
  <2>6. Glow(h)'
    BY <1>0, <1>2, <2>1, <2>4, <2>5 DEF Glow, WireSet, GuiSet, KeysSame
  <2> QED BY <1>3, <2>1, <2>6 DEF WireSet, GuiSet
<1>6. CASE HangUp(h)
  <2>1. /\ count' = count /\ WireSet(h, "none", wire[h].buf)
        /\ Connection(FALSE) \in Posts
        /\ GuiSet(h, "dial", gui[h].active, Append(gui[h].posts, Connection(FALSE)))
    BY <1>0, <1>6, HangUpIs
  <2>2. Shows(h)' = {}
    BY <2>1, PostedShows DEF HeldStep, Connection
  <2>3. Glow(h)'
    BY <2>1, <2>2 DEF Glow, GuiSet
  <2> QED BY <1>3, <2>1, <2>3 DEF WireSet, GuiSet
<1>7. CASE RunPost(h)
  <2> DEFINE held == gui[h].held
             ps == gui[h].posts
  <2>1. /\ UNCHANGED <<wire, count>> /\ ps # <<>> /\ ps \in Seq(Posts)
        /\ gui'[h].pc = gui[h].pc
        /\ gui'[h].posts = Tail(ps) /\ gui'[h].held = HeldStep(held, Head(ps))
        /\ \A o \in Guis \ {h} : gui'[o] = gui[o]
    BY <1>0, <1>7, RunPostIs
  <2>2. held \in SUBSET Keys
    BY GlowTypes
  <2>3. HeldAll(held, ps) = HeldAll(HeldStep(held, Head(ps)), Tail(ps))
    <3>1. ps # <<>> /\ ps \in Seq(Posts)
      BY <2>1
    <3> HIDE DEF held, ps
    <3> QED BY <2>2, <3>1, HeldAllHead
  <2>4. Shows(h)' = Shows(h)
    BY <2>1, <2>3 DEF Shows
  <2>5. Same(h)
    BY <1>0, <2>1, <2>4 DEF Same, Arrived
  <2>6. Glow(h)'
    BY <1>0, <1>2, <2>5, GlowKept
  <2> QED BY <1>3, <2>1, <2>6
<1>8. CASE Quit(h)
  <2>1. /\ wire' = wire /\ count'.losses = count.losses
        /\ GuiSet(h, "gone", gui[h].active, gui[h].posts)
    BY <1>0, <1>8, QuitIs
  <2>2. Glow(h)'
    BY <2>1 DEF Glow, GuiSet
  <2> QED BY <1>3, <2>1, <2>2 DEF GuiSet
<1> QED BY <1>1, <1>4, <1>5, <1>6, <1>7, <1>8 DEF ClientStep

LEMMA GlowFollowsStep ==
  ASSUME Basics, GlowFollows, Next
  PROVE  GlowFollows'
<1> SUFFICES ASSUME Keyed, count'.losses = 0 PROVE GlowAll'
  BY DEF GlowFollows, Keyed
<1>1. CASE count.losses = 0
  <2>1. GlowAll
    BY <1>1 DEF GlowFollows
  <2> QED BY <2>1, Sides, SourcesAre, GlowKeyd, GlowLayers, GlowKeys, GlowAdd, GlowHelper, GlowGui
<1>2. CASE count.losses # 0
  <2>1. count'.losses = count.losses \/ count'.losses > 0
    <3>1. TypeOK /\ CountType
      BY TypesAre DEF Basics
    <3>2. CASE KeydStep
      BY <3>1, <3>2, SwitchIs, PressIs, KeydStopsIs, KeydStartsIs, DropListenerIs DEF KeydStep
    <3>3. ASSUME NEW s \in Sources, SourceStep(s) PROVE count'.losses = count.losses
      BY <3>1, <3>3, ConnectIs, ReadIs, LockIs, WriteIs, UnlockIs, LostIs DEF SourceStep
    <3>4. CASE AddStep
      BY <3>1, <3>4, AcceptIs, SnapshotIs, ReplayIs, RegisterIs DEF AddStep
    <3>5. CASE HelperStops \/ HelperStarts
      BY <3>1, <3>5, HelperStopsIs, HelperStartsIs
    <3>6. ASSUME NEW g \in Guis, ClientStep(g) \/ RunPost(g) \/ Quit(g)
          PROVE  count'.losses = count.losses
      BY <3>1, <3>6, DialIs, ReceiveLayerIs, ReceiveKeyIs, HangUpIs, RunPostIs, QuitIs
         DEF ClientStep
    <3> QED BY <3>2, <3>3, <3>4, <3>5, <3>6, Sides DEF GuiStep
  <2> QED BY <1>2, <2>1
<1> QED BY <1>1, <1>2

-----------------------------------------------------------------------------
(* The theorems.                                                           *)

LEMMA HubInit ==
  ASSUME Init
  PROVE  /\ Basics /\ Streams /\ SnapshotTracks /\ GlowFollows
         /\ Replaying /\ NewClientsFollow
<1> DEFINE none == <<>>
<1>1. /\ keyd = [up |-> TRUE, stack |-> none, held |-> {}]
      /\ feed = [s \in Sources |-> Shut] /\ snap = none /\ clients = none
      /\ lock = "free" /\ src = [s \in Sources |-> Idle] /\ adder = NoAdd /\ helper = TRUE
      /\ wire = [g \in Guis |-> [peer |-> "none", buf |-> none]]
      /\ gui = [g \in Guis |-> [pc |-> "dial", active |-> none, posts |-> none,
                                view |-> none, held |-> {}]]
      /\ count = [changes |-> 0, losses |-> 0, crashes |-> 0, quits |-> 0, streams |-> 0]
      /\ joined = [g \in Guis |-> 0]
  BY DEF Init
<1>2. /\ none \in Stacks(Layers) /\ none \in Stacks(Guis) /\ ToSet(none) = {}
      /\ none \in Seq(Events) /\ none \in Seq(Posts) /\ none \in Seq(Guis)
      /\ Len(none) = 0 /\ \A s \in Sources : none \in Seq(Says(s))
  BY EmptyStack, Bounds
<1>3. /\ Idle.pc = "connect" /\ Idle.ev = Nothing /\ Idle.todo = none
      /\ Shut.open = FALSE /\ Shut.pipe = none
  BY DEF Idle, Shut
<1> HIDE DEF none
<1>4. Idle \in Threads /\ Shut \in Feeds
  BY <1>2, <1>3 DEF Idle, Shut, Threads, Feeds, none
<1>5. TypeOK
  <2>1. keyd \in [up : BOOLEAN, stack : Stacks(Layers), held : SUBSET Keys]
    BY <1>1, <1>2
  <2>2. feed \in [Sources -> Feeds] /\ src \in [Sources -> Threads]
    BY <1>1, <1>4
  <2>3. FeedType
    <3>1. \A s \in Sources : feed[s].pipe = none
      BY <1>1, <1>3
    <3>2. 0 <= KeydCap
      BY Bounds
    <3> QED BY <1>2, <3>1, <3>2 DEF FeedType
  <2>4. SrcType
    BY <1>1, <1>3 DEF SrcType
  <2>5. wire \in [Guis -> Wires] /\ WireType
    BY <1>1, <1>2, Bounds DEF Wires, WireType
  <2>6. gui \in [Guis -> Windows]
    BY <1>1, <1>2 DEF Windows
  <2>7. CountType /\ joined \in [Guis -> Nat]
    BY <1>1, Bounds DEF CountType
  <2>8. adder \in [pc : {"accept", "copy", "replay"}, gui : Guis \union {NoGui},
                   copy : Stacks(Layers)]
    BY <1>1, NoAddIs
  <2> QED BY <1>1, <1>2, <2>1, <2>2, <2>3, <2>4, <2>5, <2>6, <2>7, <2>8, TypesAre
<1>6. /\ \A s \in Sources : src[s].pc = "connect" /\ ~feed[s].open
      /\ \A g \in Guis : /\ gui[g].pc = "dial" /\ wire[g].peer = "none"
                         /\ gui[g].held = {} /\ gui[g].posts = none
      /\ adder.pc = "accept"
  BY <1>1, <1>3, NoAddIs
<1>7. Locking /\ Joining /\ Streams
  BY <1>1, <1>2, <1>6, SourcesAre DEF Locking, Joining, Streams
<1>8. SnapshotTracks /\ Replaying /\ NewClientsFollow
  BY <1>6, SourcesAre DEF SnapshotTracks, Replaying, NewClientsFollow
<1>9. GlowFollows
  <2> SUFFICES ASSUME Keyed PROVE GlowAll
    BY DEF GlowFollows
  <2>1. \A g \in Guis : Shows(g) = {}
    <3>1. HeldAll({}, none) = {}
      BY HeldAllEmpty DEF none
    <3> QED BY <1>6, <3>1 DEF Shows
  <2> QED BY <1>6, <2>1 DEF GlowAll, Glow, Keyed
<1> QED BY <1>5, <1>7, <1>8, <1>9 DEF Basics

\* What holds with and without JoinRaces ...
Always == Basics /\ Streams /\ SnapshotTracks /\ GlowFollows

\* ... and what holds because no event is broadcast while a client is added.
Unraced == Replaying /\ NewClientsFollow

LEMMA AlwaysHolds == Spec => []Always
<1>1. Init => Always
  BY HubInit DEF Always
<1>2. Always /\ [Next]_vars => Always'
  <2> SUFFICES ASSUME Always, [Next]_vars PROVE Always'
    OBVIOUS
  <2>1. CASE Next
    <3>1. TypeOK' /\ Locking' /\ Joining'
      BY <2>1, TypeStep, LockingStep, JoiningStep DEF Always
    <3>2. Streams' /\ SnapshotTracks' /\ GlowFollows'
      BY <2>1, StreamsStep, SnapshotTracksStep, GlowFollowsStep DEF Always
    <3> QED BY <3>1, <3>2 DEF Always, Basics
  <2>2. CASE UNCHANGED vars
    <3>1. UNCHANGED <<keyd, feed, snap, clients, lock, src, adder, helper, wire, gui, count, joined>>
      BY <2>2 DEF vars, keydVars, helperVars, guiVars
    <3>2. TypeOK' /\ Locking' /\ Joining'
      BY <3>1 DEF Always, Basics, TypeOK, Locking, Joining
    <3>3. Streams' /\ SnapshotTracks'
      BY <3>1 DEF Always, Streams, SnapshotTracks
    <3>4. GlowFollows'
      BY <3>1 DEF Always, GlowFollows, Keyed, GlowAll, Glow, Shows, Arrived, InHand, OwedKey
    <3> QED BY <3>2, <3>3, <3>4 DEF Always, Basics
  <2> QED BY <2>1, <2>2
<1> QED BY <1>1, <1>2, PTL DEF Spec

\* The types, and the snapshot of the helper is keyd's stack but for what the
\* stream still holds: run_keyd_listen and Hub::broadcast, whether or not
\* events arrive while a client is being added.
THEOREM SnapshotIsKeyds == Spec => [](TypeOK /\ SnapshotTracks)
<1>1. Always => TypeOK /\ SnapshotTracks
  BY DEF Always, Basics
<1> QED BY <1>1, AlwaysHolds, PTL

\* The helper passes on what keyd says, to every client in order and without a
\* gap, if no event arrives between the copy of the snapshot and the
\* registration of a client (Hub::add_client).
THEOREM HubPassesOn == ASSUME ~JoinRaces PROVE Spec => []HubFollows
<1>1. Init => Always /\ Unraced
  BY HubInit DEF Always, Unraced
<1>2. Always /\ Always' /\ Unraced /\ [Next]_vars => Unraced'
  <2> SUFFICES ASSUME Always, Always', Unraced, [Next]_vars PROVE Unraced'
    OBVIOUS
  <2>1. CASE Next
    BY <2>1, ReplayingStep, NewClientsFollowStep DEF Always, Basics, Unraced
  <2>2. CASE UNCHANGED vars
    <3>1. UNCHANGED <<keyd, feed, snap, clients, lock, src, adder, helper, wire, gui, count, joined>>
      BY <2>2 DEF vars, keydVars, helperVars, guiVars
    <3> QED BY <3>1 DEF Unraced, Replaying, NewClientsFollow, Owed
  <2> QED BY <2>1, <2>2
<1>3. Always /\ Unraced => HubFollows
  BY DEF Always, Basics, Unraced, HubFollows
<1> QED BY <1>1, <1>2, <1>3, AlwaysHolds, PTL DEF Spec

\* No key is left glowing that keyd does not hold down, once everything on the
\* way has arrived: through restarts of the helper, windows that quit and
\* clients added in the middle of a broadcast (GlowState.held).
THEOREM NoKeyStuck == Spec => []NoStuckGlow
<1>1. Always => NoStuckGlow
  <2> SUFFICES ASSUME Always, Settled, count.losses = 0,
                      NEW g \in Guis, gui[g].pc # "gone"
               PROVE  gui[g].held \subseteq keyd.held
    BY DEF NoStuckGlow
  <2>1. TypeOK /\ gui[g].held \in SUBSET Keys
    BY TypesAre DEF Always, Basics, Windows
  <2>2. CASE ~Keyed
    BY <2>1, <2>2 DEF Keyed, Sources
  <2>3. CASE Keyed
    <3> DEFINE held == gui[g].held
               none == <<>>
    <3>1. /\ gui[g].pc = "read" /\ gui[g].posts = none
          /\ wire[g].peer = "taken" /\ wire[g].buf = none
          /\ src["keys"].pc = "read" /\ feed["keys"].open /\ feed["keys"].pipe = none
      BY <2>3 DEF Settled, Keyed
    <3>2. Glow(g)
      BY <2>3 DEF Always, GlowFollows, GlowAll
    <3>3. \A x \in SUBSET Keys : HeldAll(x, none) = x /\ PressAll(x, none) = x
      BY HeldAllEmpty, PressAllEmpty, EventsAre
    <3>4. Shows(g) = held /\ Arrived(g) = held
      BY <2>1, <3>1, <3>3 DEF Shows, Arrived
    <3>5. OwedKey(g) = none
      BY <3>1 DEF OwedKey
    <3>6. none \o none = none
      OBVIOUS
    <3> HIDE DEF none, held
    <3>7. PressAll(held, OwedKey(g) \o feed["keys"].pipe) = held
      BY <2>1, <3>1, <3>3, <3>5, <3>6 DEF held
    <3> QED BY <3>1, <3>2, <3>4, <3>7 DEF Glow, held
  <2> QED BY <2>2, <2>3
<1> QED BY <1>1, AlwaysHolds, PTL
=============================================================================
