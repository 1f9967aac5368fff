----------------------------- MODULE LiveDirect -----------------------------
(***************************************************************************)
(* The live view without the helper: run_listen of app/src/layer.rs reads  *)
(* the layers from a child `keyd listen', run_monitor of monitor.rs the    *)
(* keys from a child `keyd monitor', and the closures of spawn_live and    *)
(* spawn_monitor in glow.rs bring both to the window.                      *)
(*                                                                         *)
(* keyd and its two commands are outside src/.  The keys are those of a    *)
(* keyboard keyd does not grab, so they outlive keyd.                      *)
(***************************************************************************)
EXTENDS LayerStack

CONSTANTS
  Layers, Keys,
  PipeCap,     \* events a child's pipe holds
  MaxChanges,  \* bound: changes of layers and keys
  MaxLosses    \* bound: times keyd stops or a child dies

ASSUME DirectAssumption ==
  /\ IsFiniteSet(Layers)
  /\ PipeCap \in Nat \ {0} /\ PipeCap >= Cardinality(Layers)
  /\ {MaxChanges, MaxLosses} \subseteq Nat

Readers == {"layers", "keys"}

VARIABLES
  up, stack, down,  \* keyd runs; its layers; the keys held
  child,            \* per reader: [open, pipe], the child and what it has printed
  reading,          \* per reader: the thread reads, or is about to spawn a child
  active,           \* the reducer of run_listen
  posts,            \* closures for the UI thread
  win,              \* [live, view, keys, held]
  changes, losses

vars == <<up, stack, down, child, reading, active, posts, win, changes, losses>>

LayerEvents == {On(l) : l \in Layers} \union {Off(l) : l \in Layers}
KeyEvents   == {Down(k) : k \in Keys} \union {Up(k) : k \in Keys}
Says(r)     == IF r = "layers" THEN LayerEvents ELSE KeyEvents

State(b, s)   == [post |-> "layers", live |-> b, stack |-> s]
Connected(b)  == [post |-> "connection", keys |-> b]
Press(ev)     == [post |-> "key", ev |-> ev]
Posts == {State(TRUE, s) : s \in Stacks(Layers)} \union {State(FALSE, <<>>)}
           \union {Connected(b) : b \in BOOLEAN} \union {Press(ev) : ev \in KeyEvents}

Windows == [live : BOOLEAN, view : Stacks(Layers), keys : BOOLEAN, held : SUBSET Keys]

\* Types, and that a window that is offline shows no layers.
TypeOK ==
  /\ up \in BOOLEAN /\ stack \in Stacks(Layers) /\ down \subseteq Keys
  /\ child \in [Readers -> [open : BOOLEAN, pipe : Seq(LayerEvents \union KeyEvents)]]
  /\ \A r \in Readers : /\ child[r].pipe \in Seq(Says(r))
                        /\ Len(child[r].pipe) <= PipeCap
  /\ reading \in [Readers -> BOOLEAN]
  /\ active \in Stacks(Layers)
  /\ posts \in Seq(Posts)
  /\ win \in Windows
  /\ ~win.live => win.view = <<>>
  /\ changes \in 0..MaxChanges /\ losses \in 0..MaxLosses

Ended == [open |-> FALSE, pipe |-> <<>>]

Init ==
  /\ up = TRUE /\ stack = <<>> /\ down = {}
  /\ child = [r \in Readers |-> Ended]
  /\ reading = [r \in Readers |-> FALSE]
  /\ active = <<>> /\ posts = <<>>
  /\ win = [live |-> FALSE, view |-> <<>>, keys |-> FALSE, held |-> {}]
  /\ changes = 0 /\ losses = 0

threadVars == <<reading, active, posts, win>>

-----------------------------------------------------------------------------
(* keyd, its commands and the keyboard.                                    *)

Emit(r, ev) ==
  IF child[r].open
  THEN /\ Len(child[r].pipe) < PipeCap
       /\ child' = [child EXCEPT ![r].pipe = Append(@, ev)]
  ELSE UNCHANGED child

Change == changes < MaxChanges /\ changes' = changes + 1
Lose   == losses < MaxLosses /\ losses' = losses + 1

SwitchLayer(l) ==
  /\ up /\ Change
  /\ LET ev == IF Contains(stack, l) THEN Off(l) ELSE On(l)
     IN stack' = ApplyLayer(stack, ev) /\ Emit("layers", ev)
  /\ UNCHANGED <<up, down, threadVars, losses>>

PressOrRelease(k) ==
  /\ Change
  /\ LET ev == IF k \in down THEN Up(k) ELSE Down(k)
     IN down' = PressKey(down, ev) /\ Emit("keys", ev)
  /\ UNCHANGED <<up, stack, threadVars, losses>>

\* keyd stops, and with it `keyd listen'.
KeydStops ==
  /\ up /\ Lose
  /\ up' = FALSE /\ stack' = <<>>
  /\ child' = [child EXCEPT !["layers"].open = FALSE]
  /\ UNCHANGED <<down, threadVars, changes>>

KeydStarts ==
  /\ ~up
  /\ up' = TRUE
  /\ UNCHANGED <<stack, down, child, threadVars, changes, losses>>

ChildDies(r) ==
  /\ child[r].open /\ Lose
  /\ child' = [child EXCEPT ![r].open = FALSE]
  /\ UNCHANGED <<up, stack, down, threadVars, changes>>

-----------------------------------------------------------------------------
(* The reader threads.                                                     *)

Post(p) == posts' = Append(posts, p)

\* mutant: the reducer lives as long as the thread
SpawnListen_KeepsReducer ==
  /\ ~reading["layers"] /\ up
  /\ reading' = [reading EXCEPT !["layers"] = TRUE]
  /\ \E order \in SetToSeqs(ToSet(stack)) :
       child' = [child EXCEPT !["layers"] = [open |-> TRUE, pipe |-> Ons(order)]]
  /\ Post(State(TRUE, <<>>))
  /\ UNCHANGED <<up, stack, down, active, win, changes, losses>>

\* `keyd listen' is spawned with a fresh reducer and prints the active layers
\* first.  One that finds no keyd ends at once: a spawn without keyd posts
\* what the last end has posted already, and is left out.
SpawnListen ==
  /\ ~reading["layers"] /\ up
  /\ reading' = [reading EXCEPT !["layers"] = TRUE]
  /\ \E order \in SetToSeqs(ToSet(stack)) :
       child' = [child EXCEPT !["layers"] = [open |-> TRUE, pipe |-> Ons(order)]]
  /\ active' = <<>>
  /\ Post(State(TRUE, <<>>))
  /\ UNCHANGED <<up, stack, down, win, changes, losses>>

\* mutant: only a layer that goes on is shown
ReadLayer_OnlyOn ==
  /\ reading["layers"]
  /\ child["layers"].pipe # <<>>
  /\ LET ev == Head(child["layers"].pipe)
     IN /\ active' = ApplyLayer(active, ev)
        /\ IF ev.act = "on" THEN Post(State(TRUE, active')) ELSE UNCHANGED posts
  /\ child' = [child EXCEPT !["layers"].pipe = Tail(@)]
  /\ UNCHANGED <<up, stack, down, reading, win, changes, losses>>

ReadLayer ==
  /\ reading["layers"]
  /\ child["layers"].pipe # <<>>
  /\ active' = ApplyLayer(active, Head(child["layers"].pipe))
  /\ Post(State(TRUE, active'))
  /\ child' = [child EXCEPT !["layers"].pipe = Tail(@)]
  /\ UNCHANGED <<up, stack, down, reading, win, changes, losses>>

ListenEnds ==
  /\ reading["layers"]
  /\ child["layers"] = Ended
  /\ reading' = [reading EXCEPT !["layers"] = FALSE]
  /\ Post(State(FALSE, <<>>))
  /\ UNCHANGED <<up, stack, down, child, active, win, changes, losses>>

SpawnMonitor ==
  /\ ~reading["keys"]
  /\ reading' = [reading EXCEPT !["keys"] = TRUE]
  /\ child' = [child EXCEPT !["keys"].open = TRUE]
  /\ Post(Connected(TRUE))
  /\ UNCHANGED <<up, stack, down, active, win, changes, losses>>

ReadKey ==
  /\ reading["keys"]
  /\ child["keys"].pipe # <<>>
  /\ Post(Press(Head(child["keys"].pipe)))
  /\ child' = [child EXCEPT !["keys"].pipe = Tail(@)]
  /\ UNCHANGED <<up, stack, down, reading, active, win, changes, losses>>

MonitorEnds ==
  /\ reading["keys"]
  /\ child["keys"] = Ended
  /\ reading' = [reading EXCEPT !["keys"] = FALSE]
  /\ Post(Connected(FALSE))
  /\ UNCHANGED <<up, stack, down, child, active, win, changes, losses>>

\* The closures of spawn_live and spawn_monitor.
Shown(w, p) ==
  CASE p.post = "layers" -> [w EXCEPT !.live = p.live, !.view = p.stack]
    [] p.post = "key" -> [w EXCEPT !.held = PressKey(@, p.ev)]
    [] p.post = "connection" ->
         [w EXCEPT !.keys = p.keys, !.held = IF p.keys THEN @ ELSE {}]

RunPost ==
  /\ posts # <<>>
  /\ win' = Shown(win, Head(posts))
  /\ posts' = Tail(posts)
  /\ UNCHANGED <<up, stack, down, child, reading, active, changes, losses>>

-----------------------------------------------------------------------------

ListenThread  == SpawnListen \/ ReadLayer \/ ListenEnds
MonitorThread == SpawnMonitor \/ ReadKey \/ MonitorEnds

Next ==
  \/ \E l \in Layers : SwitchLayer(l)
  \/ \E k \in Keys : PressOrRelease(k)
  \/ KeydStops \/ KeydStarts
  \/ \E r \in Readers : ChildDies(r)
  \/ ListenThread \/ MonitorThread \/ RunPost

Spec == Init /\ [][Next]_vars

\* The threads retry for ever, the event loop runs, keyd is started again.
FairSpec == Spec /\ WF_vars(ListenThread) /\ WF_vars(MonitorThread)
                 /\ WF_vars(RunPost) /\ WF_vars(KeydStarts)

-----------------------------------------------------------------------------
(* Properties.                                                             *)

\* What the window will show when the closures posted so far have run.
ShownAll(w, ps) == FoldLeft(Shown, w, ps)
Coming == ShownAll(win, posts)

\* While a child is read, the window lags behind keyd by what is in the queues
\* and nothing else, whatever was lost before: "State resets on every
\* (re)connect, since keyd replays a fresh snapshot" (run_listen).
LayersFollow ==
  reading["layers"] /\ child["layers"].open =>
    /\ Coming.live
    /\ ToSet(Reduce(Coming.view, child["layers"].pipe)) = ToSet(stack)

\* No key is shown held that is not, beyond the events on their way: the end of
\* the stream clears the glow (spawn_monitor).
KeysFollow ==
  reading["keys"] /\ child["keys"].open =>
    PressAll(Coming.held, child["keys"].pipe) \subseteq down

\* The window lags behind keyd by what is on the way to it, and no more.
WindowFollows == TypeOK /\ LayersFollow /\ KeysFollow

\* The window comes to show keyd's layers for good, through restarts of keyd.
Settles == <>[](win.live /\ ToSet(win.view) = ToSet(stack) /\ win.held \subseteq down)

=============================================================================
