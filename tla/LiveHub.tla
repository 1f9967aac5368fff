------------------------------ MODULE LiveHub ------------------------------
(***************************************************************************)
(* The helper daemon keydviz-helperd and the GUIs it feeds.                *)
(*                                                                         *)
(* In the helper, two source threads read keyd: `layers' its control       *)
(* socket (run_keyd_listen), `keys' its virtual keyboard                   *)
(* (run_evdev_monitor).  Each event goes through Hub::broadcast, which     *)
(* updates the snapshot under one mutex and then writes to every client    *)
(* under another.  The main thread accepts clients (Hub::add_client): it   *)
(* copies the snapshot, replays the copy, and registers the client.        *)
(*                                                                         *)
(* In a GUI, the client thread (run_helper_client with the closures of     *)
(* spawn_helper) reduces layer events and posts closures to the UI thread, *)
(* which runs them in order.                                               *)
(*                                                                         *)
(* keyd and the kernel's sockets are outside src/ and modelled from how    *)
(* the code uses them.  Left out: the greeting and layout events, which    *)
(* change nothing a client shows, the live/keys indicators, and the        *)
(* authorization of a peer.                                                *)
(***************************************************************************)
EXTENDS LayerStack

CONSTANTS
  Layers, Keys,  \* Keys = {} : the helper runs without --keys
  Guis,          \* GUI processes
  WireCap,       \* events a client's socket buffers
  KeydCap,       \* events keyd's streams buffer
  MaxChanges,    \* bound: changes of keyd's layers and keys
  MaxLosses,     \* bound: times keyd restarts or drops its listener
  MaxCrashes,    \* bound: times the helper is restarted
  MaxQuits,      \* bound: GUIs that quit
  JoinRaces      \* events may arrive while a client is being added

Sources == {"layers"} \union (IF Keys = {} THEN {} ELSE {"keys"})

VARIABLES
  keyd,     \* [up, stack, held]: the daemon, its layers, the keys it emits
  feed,     \* per source, keyd's end: [open, pipe]
  snap,     \* Hub.snapshot
  clients,  \* Hub.clients
  lock,     \* who holds the clients mutex
  src,      \* per source thread: [pc, ev, todo]
  adder,    \* the accept loop: [pc, gui, copy]
  helper,   \* the helper runs
  wire,     \* per GUI: [peer, buf], the helper's end of its connection
  gui,      \* per GUI: [pc, active, posts, view, held]
  count,    \* how often each bounded event happened
  joined    \* per GUI: the stream of keyd it joined in, see Snapshot

keydVars   == <<keyd, feed>>
helperVars == <<snap, clients, lock, src, adder, helper>>
guiVars    == <<wire, gui>>
vars == <<keydVars, helperVars, guiVars, count, joined>>

ASSUME HubAssumption ==
  /\ IsFiniteSet(Layers) /\ IsFiniteSet(Guis)
  /\ {WireCap, KeydCap} \subseteq Nat \ {0}
  /\ {MaxChanges, MaxLosses, MaxCrashes, MaxQuits} \subseteq Nat
  /\ KeydCap >= Cardinality(Layers)
  /\ JoinRaces \in BOOLEAN

LayerEvents == {On(l) : l \in Layers} \union {Off(l) : l \in Layers}
KeyEvents   == {Down(k) : k \in Keys} \union {Up(k) : k \in Keys}
Events      == LayerEvents \union KeyEvents
Says(s)     == IF s = "layers" THEN LayerEvents ELSE KeyEvents
Nothing     == [act |-> "none"]
NoGui       == "nobody"

\* Closures posted to the UI thread.
Connection(b) == [post |-> "connection", live |-> b]
Show(stack)   == [post |-> "layers", stack |-> stack]
Press(ev)     == [post |-> "key", ev |-> ev]

Posts == {Connection(b) : b \in BOOLEAN}
           \union {Show(s) : s \in Stacks(Layers)}
           \union {Press(ev) : ev \in KeyEvents}

Feeds    == [open : BOOLEAN, pipe : Seq(Events)]
Threads  == [pc : {"connect", "read", "lock", "write"},
             ev : Events \union {Nothing}, todo : Seq(Guis)]
Wires    == [peer : {"none", "waiting", "taken", "closed"}, buf : Seq(Events)]
Windows  == [pc : {"dial", "read", "gone"}, active : Stacks(Layers),
             posts : Seq(Posts), view : Stacks(Layers), held : SUBSET Keys]

TypeOK ==
  /\ keyd \in [up : BOOLEAN, stack : Stacks(Layers), held : SUBSET Keys]
  /\ feed \in [Sources -> Feeds]
  /\ src \in [Sources -> Threads]
  /\ \A s \in Sources :
       /\ feed[s].pipe \in Seq(Says(s)) /\ Len(feed[s].pipe) <= KeydCap
       /\ src[s].ev \in Says(s) \union {Nothing}
  /\ snap \in Stacks(Layers)
  /\ clients \in Stacks(Guis)
  /\ lock \in Sources \union {"free"}
  /\ adder \in [pc : {"accept", "copy", "replay"}, gui : Guis \union {NoGui},
                copy : Stacks(Layers)]
  /\ helper \in BOOLEAN
  /\ wire \in [Guis -> Wires]
  /\ \A g \in Guis : Len(wire[g].buf) <= WireCap
  /\ gui \in [Guis -> Windows]
  /\ count \in [changes : 0..MaxChanges, losses : 0..MaxLosses,
                crashes : 0..MaxCrashes, quits : 0..MaxQuits, streams : Nat]
  /\ joined \in [Guis -> Nat]

Idle == [pc |-> "connect", ev |-> Nothing, todo |-> <<>>]
Shut == [open |-> FALSE, pipe |-> <<>>]
NoAdd == [pc |-> "accept", gui |-> NoGui, copy |-> <<>>]

Init ==
  /\ keyd = [up |-> TRUE, stack |-> <<>>, held |-> {}]
  /\ feed = [s \in Sources |-> Shut]
  /\ snap = <<>>
  /\ clients = <<>>
  /\ lock = "free"
  /\ src = [s \in Sources |-> Idle]
  /\ adder = NoAdd
  /\ helper = TRUE
  /\ wire = [g \in Guis |-> [peer |-> "none", buf |-> <<>>]]
  /\ gui = [g \in Guis |-> [pc |-> "dial", active |-> <<>>, posts |-> <<>>,
                            view |-> <<>>, held |-> {}]]
  /\ count = [changes |-> 0, losses |-> 0, crashes |-> 0, quits |-> 0, streams |-> 0]
  /\ joined = [g \in Guis |-> 0]

Counted(what, limit) ==
  /\ count[what] < limit
  /\ count' = [count EXCEPT ![what] = @ + 1]

-----------------------------------------------------------------------------
(* keyd and the kernel.                                                    *)

\* A change goes to whoever has the source open; a full listener blocks keyd
\* until it drops it (DropListener).
Emit(s, ev) ==
  IF feed[s].open
  THEN /\ Len(feed[s].pipe) < KeydCap
       /\ feed' = [feed EXCEPT ![s].pipe = Append(@, ev)]
  ELSE UNCHANGED feed

SwitchLayer(l) ==
  /\ keyd.up
  /\ Counted("changes", MaxChanges)
  /\ LET ev == IF Contains(keyd.stack, l) THEN Off(l) ELSE On(l)
     IN /\ keyd' = [keyd EXCEPT !.stack = ApplyLayer(@, ev)]
        /\ Emit("layers", ev)
  /\ UNCHANGED <<helperVars, guiVars, joined>>

PressOrRelease(k) ==
  /\ keyd.up
  /\ Counted("changes", MaxChanges)
  /\ LET ev == IF k \in keyd.held THEN Up(k) ELSE Down(k)
     IN /\ keyd' = [keyd EXCEPT !.held = PressKey(@, ev)]
        /\ Emit("keys", ev)
  /\ UNCHANGED <<helperVars, guiVars, joined>>

\* keyd stops: the listener can still read what was sent, the virtual
\* keyboard and what it had queued are gone.
KeydStops ==
  /\ keyd.up
  /\ Counted("losses", MaxLosses)
  /\ keyd' = [up |-> FALSE, stack |-> <<>>, held |-> {}]
  /\ feed' = [s \in Sources |->
                [open |-> FALSE, pipe |-> IF s = "layers" THEN feed[s].pipe ELSE <<>>]]
  /\ UNCHANGED <<helperVars, guiVars, joined>>

KeydStarts ==
  /\ ~keyd.up
  /\ keyd' = [keyd EXCEPT !.up = TRUE]
  /\ UNCHANGED <<feed, helperVars, guiVars, count, joined>>

\* keyd drops a listener that leaves its stream full (keyd_ipc.rs: 50 ms).
DropListener ==
  /\ feed["layers"].open
  /\ Len(feed["layers"].pipe) = KeydCap
  /\ Counted("losses", MaxLosses)
  /\ feed' = [feed EXCEPT !["layers"].open = FALSE]
  /\ UNCHANGED <<keyd, helperVars, guiVars, joined>>

-----------------------------------------------------------------------------
(* The source threads.                                                     *)

\* Connecting succeeds while keyd is up.  The listen stream begins with the
\* active layers, in keyd's order; the virtual keyboard begins with nothing.
\* A failed attempt clears a snapshot that is clear already, and sleeps.
Connect(s) ==
  /\ helper
  /\ src[s].pc = "connect"
  /\ keyd.up
  /\ src' = [src EXCEPT ![s].pc = "read"]
  /\ \E order \in IF s = "layers" THEN SetToSeqs(ToSet(keyd.stack)) ELSE {<<>>} :
       feed' = [feed EXCEPT ![s] = [open |-> TRUE, pipe |-> Ons(order)]]
  /\ count' = [count EXCEPT !.streams = @ + (IF s = "layers" THEN 1 ELSE 0)]
  /\ UNCHANGED <<keyd, snap, clients, lock, adder, helper, guiVars, joined>>

\* One event is read and broadcast begins: the snapshot first, for a layer.
Read(s) ==
  /\ helper
  /\ src[s].pc = "read"
  /\ feed[s].pipe # <<>>
  /\ JoinRaces \/ adder.pc # "replay"
  /\ LET ev == Head(feed[s].pipe)
     IN /\ snap' = IF IsLayer(ev) THEN ApplyLayer(snap, ev) ELSE snap
        /\ src' = [src EXCEPT ![s] = [@ EXCEPT !.pc = "lock", !.ev = ev]]
  /\ feed' = [feed EXCEPT ![s].pipe = Tail(@)]
  /\ UNCHANGED <<keyd, clients, lock, adder, helper, guiVars, count, joined>>

\* Broadcast takes the clients mutex.
Lock(s) ==
  /\ helper
  /\ src[s].pc = "lock"
  /\ lock = "free"
  /\ lock' = s
  /\ src' = [src EXCEPT ![s] = [@ EXCEPT !.pc = "write", !.todo = clients]]
  /\ UNCHANGED <<keydVars, snap, clients, adder, helper, guiVars, count, joined>>

\* A write to a GUI that is there waits for room; to one that has quit it
\* fails.
CanWrite(g) == gui[g].pc # "gone" /\ Len(wire[g].buf) < WireCap
Fails(g)    == gui[g].pc = "gone"
Put(g, ev)  == wire' = [wire EXCEPT ![g].buf = Append(@, ev)]

\* retain_mut writes to the next client and drops it if that fails.
Write(s) ==
  /\ helper
  /\ src[s].pc = "write"
  /\ src[s].todo # <<>>
  /\ LET g == Head(src[s].todo)
     IN \/ CanWrite(g) /\ Put(g, src[s].ev) /\ UNCHANGED clients
        \/ Fails(g) /\ clients' = Without(clients, g) /\ UNCHANGED wire
  /\ src' = [src EXCEPT ![s].todo = Tail(@)]
  /\ UNCHANGED <<keydVars, snap, lock, adder, helper, gui, count, joined>>

Unlock(s) ==
  /\ helper
  /\ src[s].pc = "write"
  /\ src[s].todo = <<>>
  /\ lock' = "free"
  /\ src' = [src EXCEPT ![s] = [Idle EXCEPT !.pc = "read"]]
  /\ UNCHANGED <<keydVars, snap, clients, adder, helper, guiVars, count, joined>>

\* mutant: the snapshot survives the stream
Lost_KeepsSnapshot(s) ==
  /\ helper
  /\ src[s].pc = "read"
  /\ feed[s] = Shut
  /\ src' = [src EXCEPT ![s] = Idle]
  /\ UNCHANGED <<keydVars, snap, clients, lock, adder, helper, guiVars, count, joined>>

\* The stream ended.  run_keyd_listen clears the snapshot; nobody is told.
Lost(s) ==
  /\ helper
  /\ src[s].pc = "read"
  /\ feed[s] = Shut
  /\ src' = [src EXCEPT ![s] = Idle]
  /\ snap' = IF s = "layers" THEN <<>> ELSE snap
  /\ UNCHANGED <<keydVars, clients, lock, adder, helper, guiVars, count, joined>>

-----------------------------------------------------------------------------
(* The accept loop.                                                        *)

\* The next connection is taken and greeted; the greeting fails if the GUI
\* has quit.
Accept(g) ==
  /\ helper
  /\ adder.pc = "accept"
  /\ wire[g].peer = "waiting"
  /\ wire' = [wire EXCEPT ![g].peer = "taken"]
  /\ adder' = IF Fails(g) THEN NoAdd ELSE [NoAdd EXCEPT !.pc = "copy", !.gui = g]
  /\ UNCHANGED <<keydVars, snap, clients, lock, src, helper, gui, count, joined>>

\* The snapshot is copied.  joined remembers the stream of keyd for a GUI that
\* has reduced nothing from an earlier connection.
Snapshot ==
  /\ helper
  /\ adder.pc = "copy"
  /\ adder' = [adder EXCEPT !.pc = "replay", !.copy = snap]
  /\ joined' = [joined EXCEPT ![adder.gui] =
                  IF gui[adder.gui].active = <<>> THEN count.streams ELSE 0]
  /\ UNCHANGED <<keydVars, snap, clients, lock, src, helper, guiVars, count>>

Replay ==
  /\ helper
  /\ adder.pc = "replay"
  /\ adder.copy # <<>>
  /\ \/ /\ CanWrite(adder.gui)
        /\ Put(adder.gui, On(Head(adder.copy)))
        /\ adder' = [adder EXCEPT !.copy = Tail(@)]
     \/ /\ Fails(adder.gui)
        /\ adder' = NoAdd
        /\ UNCHANGED wire
  /\ UNCHANGED <<keydVars, snap, clients, lock, src, helper, gui, count, joined>>

Register ==
  /\ helper
  /\ adder.pc = "replay"
  /\ adder.copy = <<>>
  /\ lock = "free"
  /\ clients' = Append(clients, adder.gui)
  /\ adder' = NoAdd
  /\ UNCHANGED <<keydVars, snap, lock, src, helper, guiVars, count, joined>>

\* The helper is stopped and started: every connection ends, and what its
\* clients had not read yet stays readable.
HelperStops ==
  /\ helper
  /\ Counted("crashes", MaxCrashes)
  /\ helper' = FALSE
  /\ snap' = <<>>
  /\ clients' = <<>>
  /\ lock' = "free"
  /\ src' = [s \in Sources |-> Idle]
  /\ feed' = [s \in Sources |-> Shut]
  /\ adder' = NoAdd
  /\ wire' = [g \in Guis |->
                [wire[g] EXCEPT !.peer = IF @ = "none" THEN "none" ELSE "closed"]]
  /\ UNCHANGED <<keyd, gui, joined>>

HelperStarts ==
  /\ ~helper
  /\ helper' = TRUE
  /\ UNCHANGED <<keydVars, snap, clients, lock, src, adder, guiVars, count, joined>>

-----------------------------------------------------------------------------
(* The GUIs.                                                               *)

Posted(w, p) == [w EXCEPT !.posts = Append(@, p)]
Post(g, p)   == gui' = [gui EXCEPT ![g] = Posted(@, p)]

\* run_helper_client connects.  A failed attempt posts what the end of the
\* last connection has posted already, and sleeps.
Dial(g) ==
  /\ gui[g].pc = "dial"
  /\ helper
  /\ wire' = [wire EXCEPT ![g] = [peer |-> "waiting", buf |-> <<>>]]
  /\ gui' = [gui EXCEPT ![g] = Posted([@ EXCEPT !.pc = "read"], Connection(TRUE))]
  /\ UNCHANGED <<keydVars, helperVars, count, joined>>

\* mutant: only a layer that goes on is shown
ReceiveLayer_OnlyOn(g) ==
  /\ gui[g].pc = "read"
  /\ wire[g].buf # <<>>
  /\ IsLayer(Head(wire[g].buf))
  /\ LET ev == Head(wire[g].buf)
         now == ApplyLayer(gui[g].active, ev)
     IN gui' = [gui EXCEPT ![g].active = now,
                           ![g].posts = IF ev.act = "on" THEN Append(@, Show(now)) ELSE @]
  /\ wire' = [wire EXCEPT ![g].buf = Tail(@)]
  /\ UNCHANGED <<keydVars, helperVars, count, joined>>

\* The event closure of spawn_helper: a layer event goes through the reducer,
\* which lives as long as the process.
ReceiveLayer(g) ==
  /\ gui[g].pc = "read"
  /\ wire[g].buf # <<>>
  /\ IsLayer(Head(wire[g].buf))
  /\ LET now == ApplyLayer(gui[g].active, Head(wire[g].buf))
     IN gui' = [gui EXCEPT ![g] = Posted([@ EXCEPT !.active = now], Show(now))]
  /\ wire' = [wire EXCEPT ![g].buf = Tail(@)]
  /\ UNCHANGED <<keydVars, helperVars, count, joined>>

ReceiveKey(g) ==
  /\ gui[g].pc = "read"
  /\ wire[g].buf # <<>>
  /\ ~IsLayer(Head(wire[g].buf))
  /\ Post(g, Press(Head(wire[g].buf)))
  /\ wire' = [wire EXCEPT ![g].buf = Tail(@)]
  /\ UNCHANGED <<keydVars, helperVars, count, joined>>

HangUp(g) ==
  /\ gui[g].pc = "read"
  /\ wire[g].buf = <<>>
  /\ wire[g].peer = "closed"
  /\ gui' = [gui EXCEPT ![g] = Posted([@ EXCEPT !.pc = "dial"], Connection(FALSE))]
  /\ wire' = [wire EXCEPT ![g].peer = "none"]
  /\ UNCHANGED <<keydVars, helperVars, count, joined>>

\* mutant: a lost connection leaves the glow
Shown_KeepsGlow(w, p) ==
  CASE p.post = "layers" -> [w EXCEPT !.view = p.stack]
    [] p.post = "key" -> [w EXCEPT !.held = PressKey(@, p.ev)]
    [] p.post = "connection" -> IF p.live THEN w ELSE [w EXCEPT !.view = <<>>]

\* What a posted closure does to the window.
Shown(w, p) ==
  CASE p.post = "layers" -> [w EXCEPT !.view = p.stack]
    [] p.post = "key" -> [w EXCEPT !.held = PressKey(@, p.ev)]
    [] p.post = "connection" ->
         IF p.live THEN w ELSE [w EXCEPT !.view = <<>>, !.held = {}]

RunPost(g) ==
  /\ gui[g].pc # "gone"
  /\ gui[g].posts # <<>>
  /\ LET w == gui[g]
     IN gui' = [gui EXCEPT ![g] = Shown([w EXCEPT !.posts = Tail(@)], Head(w.posts))]
  /\ UNCHANGED <<keydVars, helperVars, wire, count, joined>>

Quit(g) ==
  /\ gui[g].pc # "gone"
  /\ Counted("quits", MaxQuits)
  /\ gui' = [gui EXCEPT ![g].pc = "gone"]
  /\ UNCHANGED <<keydVars, helperVars, wire, joined>>

-----------------------------------------------------------------------------

SourceStep(s) == Connect(s) \/ Read(s) \/ Lock(s) \/ Write(s) \/ Unlock(s) \/ Lost(s)
AddStep       == (\E g \in Guis : Accept(g)) \/ Snapshot \/ Replay \/ Register
ClientStep(g) == Dial(g) \/ ReceiveLayer(g) \/ ReceiveKey(g) \/ HangUp(g)

Next ==
  \/ \E l \in Layers : SwitchLayer(l)
  \/ \E k \in Keys : PressOrRelease(k)
  \/ KeydStops \/ KeydStarts \/ DropListener
  \/ \E s \in Sources : SourceStep(s)
  \/ AddStep
  \/ HelperStops \/ HelperStarts
  \/ \E g \in Guis : ClientStep(g) \/ RunPost(g) \/ Quit(g)

Spec == Init /\ [][Next]_vars

\* The helper's threads run, and keyd and the helper come back: systemd
\* restarts both.
HelperFairness ==
  /\ \A s \in Sources : WF_vars(SourceStep(s))
  /\ WF_vars(AddStep)
  /\ WF_vars(KeydStarts)
  /\ WF_vars(HelperStarts)

\* A GUI that is not suspended reads its socket and runs its event loop.
GuiFairness(g) == WF_vars(ClientStep(g)) /\ WF_vars(RunPost(g))

FairSpec == Spec /\ HelperFairness /\ \A g \in Guis : GuiFairness(g)

\* The GUIs may be suspended at any point.
SuspendedSpec == Spec /\ HelperFairness

-----------------------------------------------------------------------------
(* Properties.                                                             *)

\* Nothing is under way: both ends are up and every queue is empty.
Settled ==
  /\ keyd.up /\ helper
  /\ \A s \in Sources : feed[s] = [open |-> TRUE, pipe |-> <<>>] /\ src[s].pc = "read"
  /\ adder.pc = "accept"
  /\ \A g \in Guis : gui[g].pc # "gone" =>
       /\ gui[g].pc = "read" /\ gui[g].posts = <<>>
       /\ wire[g] = [peer |-> "taken", buf |-> <<>>]

\* Every window shows the layers keyd has on: what the replay of add_client and
\* the fan-out of broadcast are for.
SettledLayersTrue ==
  Settled => \A g \in Guis : gui[g].pc # "gone" =>
    ToSet(gui[g].view) = ToSet(keyd.stack)

\* No key glows that keyd does not hold down, through restarts of the helper:
\* GlowState.held, "Physically-held keys (from keyd's output)".
NoStuckGlow ==
  Settled /\ count.losses = 0 => \A g \in Guis : gui[g].pc # "gone" => gui[g].held \subseteq keyd.held

\* The snapshot lags behind keyd by what is in the stream and nothing else,
\* also after keyd was restarted or dropped its listener: "Stream lost: the
\* layer snapshot is stale --- clear it" (run_keyd_listen).
SnapshotTracks ==
  feed["layers"].open =>
    ToSet(Reduce(snap, feed["layers"].pipe)) = ToSet(keyd.stack)

\* The layer event still to be written to g by a broadcast under way.
Owed(g) ==
  IF \/ src["layers"].pc = "lock"
     \/ src["layers"].pc = "write" /\ Contains(src["layers"].todo, g)
  THEN <<src["layers"].ev>> ELSE <<>>

\* A registered client lags behind the snapshot by what is on its wire, in the
\* order of the snapshot.  This holds of clients that came with nothing from
\* an earlier connection, until keyd's stream is lost: "so new clients don't
\* get ghosts", and "so its view is immediately correct" (add_client).
NewClientsFollow ==
  src["layers"].pc # "connect" =>
    \A g \in ToSet(clients) :
      gui[g].pc # "gone" /\ joined[g] = count.streams =>
        Reduce(gui[g].active, wire[g].buf \o Owed(g)) = snap

\* The helper passes on what keyd says: its snapshot is keyd's stack and its
\* clients follow the snapshot, each behind by what is on the way to it.
HubFollows == TypeOK /\ SnapshotTracks /\ NewClientsFollow

\* Once keyd stops changing, every window comes to show its layers for good,
\* if neither keyd's stream nor the helper was lost on the way.
Undisturbed == count.losses = 0 /\ count.crashes = 0
Settles ==
  <>[](Undisturbed => \A g \in Guis : gui[g].pc # "gone" =>
                        ToSet(gui[g].view) = ToSet(keyd.stack))

\* The listener comes back to keyd's socket again and again: "A dedicated
\* read->parse->broadcast loop satisfies that" (keyd_ipc.rs, on reading
\* promptly).
ReadsPromptly == []<>(src["layers"].pc \in {"connect", "read"})

=============================================================================
