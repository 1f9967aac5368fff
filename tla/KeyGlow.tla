------------------------------ MODULE KeyGlow ------------------------------
(***************************************************************************)
(* The glow of pressed keys in the window: handle_key_event,               *)
(* spawn_glow_decay and clear_glow of app/src/glow.rs with                 *)
(* next_press_state of monitor.rs, all on the UI thread.                   *)
(*                                                                         *)
(* Keyboards send key events, which wait for the UI thread in order.  A    *)
(* keyboard of the device map has a sheet of its own and can switch the    *)
(* view; any other glows on the sheet that is shown.  A lit key is held,   *)
(* or went down less than MIN_GLOW ago.                                    *)
(***************************************************************************)
EXTENDS Sequences, FiniteSets, Integers

CONSTANTS
  Keyboards, KeyNames,
  Sheets,      \* indices of the sheets
  AnySheet,    \* stands for no sheet in particular
  SheetOf,     \* device_map: some of the keyboards to their sheet
  Uses,        \* which of "edit", "capture", "flip" the user does
  MaxStrikes,  \* bound: key transitions
  MaxQueue     \* bound: events waiting for the UI thread

ASSUME GlowAssumption ==
  /\ DOMAIN SheetOf \subseteq Keyboards
  /\ SheetOf \in [DOMAIN SheetOf -> Sheets]
  /\ Uses \subseteq {"edit", "capture", "flip"}
  /\ {MaxStrikes, MaxQueue} \subseteq Nat

VARIABLES
  struck,   \* the <<keyboard, key>> pairs physically held
  strikes,  \* transitions so far
  queue,    \* key events posted and not handled
  shown,    \* active_index
  editing,  \* edit_mode
  armed,    \* capture_armed
  held,     \* GlowState.held
  until,    \* the keys of GlowState.until
  lit,      \* pressed_keys
  origin,   \* the sheet each held key was pressed on, AnySheet if its keyboard has none
  eaten     \* keys whose last event but a down was eaten by a capture

glowVars == <<struck, strikes, queue, shown, editing, armed, held, until, lit, origin, eaten>>

Events == [board : Keyboards, key : KeyNames, act : {"down", "up", "repeat"}]

GlowTypeOK ==
  /\ struck \subseteq Keyboards \X KeyNames
  /\ strikes \in 0..MaxStrikes
  /\ queue \in Seq(Events) /\ Len(queue) <= MaxQueue
  /\ shown \in Sheets
  /\ editing \in BOOLEAN
  /\ armed \in BOOLEAN /\ (armed => editing)
  /\ held \subseteq KeyNames
  /\ until \subseteq KeyNames
  /\ lit \subseteq KeyNames
  /\ origin \in [held -> Sheets \union {AnySheet}]
  /\ eaten \subseteq KeyNames

GlowInit ==
  /\ struck = {} /\ strikes = 0 /\ queue = <<>>
  /\ shown \in Sheets
  /\ editing = FALSE /\ armed = FALSE
  /\ held = {} /\ until = {} /\ lit = {}
  /\ origin = [k \in {} |-> AnySheet]
  /\ eaten = {}

-----------------------------------------------------------------------------
(* The keyboards.                                                          *)

Send(b, k, act) ==
  /\ Len(queue) < MaxQueue
  /\ queue' = Append(queue, [board |-> b, key |-> k, act |-> act])
  /\ UNCHANGED <<shown, editing, armed, held, until, lit, origin, eaten>>

Strike(b, k) ==
  /\ strikes < MaxStrikes
  /\ strikes' = strikes + 1
  /\ IF <<b, k>> \in struck
     THEN struck' = struck \ {<<b, k>>} /\ Send(b, k, "up")
     ELSE struck' = struck \union {<<b, k>>} /\ Send(b, k, "down")

AutoRepeat(b, k) ==
  /\ strikes < MaxStrikes
  /\ strikes' = strikes + 1
  /\ <<b, k>> \in struck
  /\ Send(b, k, "repeat")
  /\ UNCHANGED struck

-----------------------------------------------------------------------------
(* handle_key_event.                                                       *)

Capturing == editing /\ armed

\* An armed capture eats the event.  A key that goes down becomes the binding,
\* which disarms unless the edit is refused; an up or a repeat is dropped.
Capture ==
  /\ queue # <<>>
  /\ Capturing
  /\ armed' \in IF Head(queue).act = "down" THEN BOOLEAN ELSE {TRUE}
  /\ eaten' = IF Head(queue).act = "down" THEN eaten ELSE eaten \union {Head(queue).key}
  /\ queue' = Tail(queue)
  /\ UNCHANGED <<struck, strikes, shown, editing, held, until, lit, origin>>

\* next_press_state: the sheet of the keyboard, if it has one.
Target(ev) == IF ev.board \in DOMAIN SheetOf THEN SheetOf[ev.board] ELSE shown
From(ev)   == IF ev.board \in DOMAIN SheetOf THEN SheetOf[ev.board] ELSE AnySheet

\* mutant: another sheet's keyboard adds to the keys of this one
Pressed_KeepsHeld(ev) ==
  IF ev.act = "up" THEN held \ {ev.key} ELSE held \union {ev.key}

\* mutant: the events of another sheet's keyboard are ignored
Pressed_OwnSheetOnly(ev) ==
  IF Target(ev) # shown THEN held
  ELSE IF ev.act = "up" THEN held \ {ev.key} ELSE held \union {ev.key}

Pressed(ev) ==
  LET before == IF Target(ev) # shown THEN {} ELSE held
  IN IF ev.act = "up" THEN before \ {ev.key} ELSE before \union {ev.key}

\* What is lit, with the keys of `gone' past their time: glow_set.
Glow(nowHeld, window, gone) ==
  /\ until' = window \ gone
  /\ lit' = nowHeld \union (window \ gone)

HandleKey ==
  /\ queue # <<>>
  /\ ~Capturing
  /\ LET ev == Head(queue)
         switch == Target(ev) # shown /\ ~editing
         kept == IF switch THEN {} ELSE until
         fresh == IF ev.act = "down" THEN {ev.key} ELSE {}
     IN /\ shown' = IF switch THEN Target(ev) ELSE shown
        /\ held' = Pressed(ev)
        /\ origin' = [k \in held' |-> IF k = ev.key THEN From(ev) ELSE origin[k]]
        /\ eaten' = eaten \ {ev.key}
        /\ \E gone \in SUBSET (kept \ fresh) : Glow(held', kept \union fresh, gone)
  /\ queue' = Tail(queue)
  /\ UNCHANGED <<struck, strikes, editing, armed>>

\* mutant: windows do not end
Decay_Never ==
  /\ Glow(held, until, {})
  /\ UNCHANGED <<struck, strikes, queue, shown, editing, armed, held, origin, eaten>>

\* The timer of spawn_glow_decay.
Decay ==
  /\ \E gone \in SUBSET until : Glow(held, until, gone)
  /\ UNCHANGED <<struck, strikes, queue, shown, editing, armed, held, origin, eaten>>

-----------------------------------------------------------------------------
(* The user.                                                               *)

\* exit_edit and enter_edit_session, which disarm.
ToggleEdit ==
  /\ "edit" \in Uses
  /\ editing' = ~editing
  /\ armed' = FALSE
  /\ UNCHANGED <<struck, strikes, queue, shown, held, until, lit, origin, eaten>>

ArmCapture ==
  /\ "capture" \in Uses
  /\ editing
  /\ armed' = ~armed
  /\ UNCHANGED <<struck, strikes, queue, shown, editing, held, until, lit, origin, eaten>>

\* on_pick_keyboard: leaves a session that is clean or may be discarded, then
\* switch_keyboard.
PickKeyboard(i) ==
  /\ "flip" \in Uses
  /\ shown' = i
  /\ editing' = FALSE
  /\ armed' = FALSE
  /\ UNCHANGED <<struck, strikes, queue, held, until, lit, origin, eaten>>

GlowNext ==
  \/ \E b \in Keyboards, k \in KeyNames : Strike(b, k) \/ AutoRepeat(b, k)
  \/ Capture \/ HandleKey \/ Decay
  \/ ToggleEdit \/ ArmCapture
  \/ \E i \in Sheets : PickKeyboard(i)

GlowSpec == GlowInit /\ [][GlowNext]_glowVars

\* The event loop runs posted closures, and a window of MIN_GLOW passes: the
\* timer comes back after it.
FairGlowSpec == GlowSpec /\ WF_glowVars(Capture \/ HandleKey)
                 /\ \A k \in KeyNames : WF_glowVars(Decay /\ k \notin until')

-----------------------------------------------------------------------------
(* Properties.                                                             *)

Physical == {p[2] : p \in struck}

\* Once the events are handled, no key is taken for held that no keyboard
\* holds, whatever sheets, edits and switches came between --- but for a key
\* that came up while a capture was armed.
NoStuckKey == queue = <<>> => held \subseteq Physical \union eaten

\* The same without the exception.  GlowState.held: "Physically-held keys (from
\* keyd's output), maintained by next_press_state".
HeldIsPhysical == queue = <<>> => held \subseteq Physical

\* Only keys of the shown sheet glow.  The doc of clear_glow: used when "the
\* shown keyboard switches (we don't know the new context's held keys)".
Stray(k) == origin[k] \notin {shown, AnySheet}
OnBoard  == \A k \in held : ~Stray(k)

\* Following the keyboards never carries a key to another sheet: one that glows
\* on a sheet that is not its keyboard's came there in edit mode, or when the
\* user picked the sheet.
StraysComeByHand ==
  [][\A k \in held' :
       Stray(k)' => \/ k \in held /\ Stray(k)
                    \/ editing
                    \/ shown' # shown /\ queue' = queue]_glowVars

\* When the user rests, nothing is lit in the end: held keys are let go by their
\* up, taps by the timer.  A key whose up was captured stays.
GlowEnds == <>[](queue = <<>> /\ struck = {} => lit \subseteq eaten)

=============================================================================
