----------------------------- MODULE EditPanel -----------------------------
(***************************************************************************)
(* The edit panel of the window (callbacks of app/src/main.rs, edit_ui.rs) *)
(* over one EditSession: what is selected, what each form was last filled  *)
(* from, the lists and the confirm bar it keeps, and the board preview.    *)
(* Every one of them is a copy of something the session holds, refreshed   *)
(* by the callbacks that their author thought could change it.             *)
(*                                                                         *)
(* A callback whose operation is refused shows a banner and changes        *)
(* nothing else.  No apply is running: while one is, refuse_if_applying    *)
(* turns these callbacks down (ApplyUi).  The name fields of a new and of  *)
(* a renamed layer are opened and committed in one step, since the panel   *)
(* offers neither while the other, or the confirm bar, is up.              *)
(***************************************************************************)
EXTENDS EditSession

CONSTANTS
  Members,     \* keys a chord is built from
  StepsTyped,  \* steps the user adds to a macro
  Repeats,     \* <<timeout, count>> the user sets for it, <<>> for no repeat
  MaxSteps     \* bound: steps of a macro under construction

VARIABLES
  layer,       \* edit_layer: the board edits land on, <<>> when none is left
  phys,        \* selected_phys, "" when no key is
  chordMode,   \* board_mode is chord
  globalForm,  \* editing_global
  shown,       \* what the forms of the selected key were filled from
  draft,       \* macro_draft
  draftOf,     \* the board and key the draft was last loaded for
  picks,       \* chord_keys
  orig,        \* chord_edit_orig, <<>> for none
  lists,       \* edit_layers, chord_rows, global_rows, edit_warnings
  prompt,      \* delete_prompt and the count in its detail
  preview,     \* the Config the board is drawn from
  unsaved      \* edit_dirty

mode    == <<chordMode, globalForm>>
form    == <<shown, draft, draftOf>>
builder == <<picks, orig>>
window  == <<preview, unsaved>>
panel   == <<layer, phys, mode, form, builder, lists, prompt, window>>

NoPrompt == [name |-> <<>>, refs |-> 0]
NotShown == [binding |-> NoVal, label |-> "", macro |-> FALSE,
             tapHold |-> NoTapHold, layerAction |-> NoVal]

Lists(d, b) == [layers |-> editable_sections(d), chords |-> chords(d, b),
                globals |-> global_entries(d), warnings |-> orphan_warnings(d)]
First(d)    == IF editable_sections(d) = <<>> THEN <<>> ELSE editable_sections(d)[1]
References(d, b) == IF Len(b) = 1 THEN Len(references_to(d, b[1])) ELSE 0

\* The seed_* functions: what each form shows of key k.
Seed(d, b, k) ==
  [binding     |-> current_binding(d, b, <<k>>),
   label       |-> current_label(d, b, <<k>>),
   macro       |-> current_macro(d, b, k).ok,
   tapHold     |-> current_tap_hold(d, b, k),
   layerAction |-> current_layer_action(d, b, k)]

EnterInit ==
  /\ Init
  /\ layer = (IF First(edit) = <<>> THEN Main ELSE First(edit))
  /\ phys = "" /\ shown = NotShown
  /\ chordMode = FALSE /\ globalForm = FALSE
  /\ draft = <<>> /\ draftOf = <<>>
  /\ picks = <<>> /\ orig = <<>>
  /\ lists = Lists(edit, layer)
  /\ prompt = NoPrompt
  /\ preview = derive(edit) /\ unsaved = dirty

-----------------------------------------------------------------------------
(* Shared steps of the callbacks                                           *)

SeedMacro(b, k) ==
  /\ draft' = current_macro(edit', b, k).tokens
  /\ draftOf' = <<b, k>>
SeedForms(b, k) == shown' = Seed(edit', b, k) /\ SeedMacro(b, k)
\* The forms are hidden and their contents reloaded with the next selection:
\* the model forgets them.
Deselected      == phys' = "" /\ shown' = NotShown /\ draft' = <<>> /\ draftOf' = <<>>
ClearBuilder    == picks' = <<>> /\ orig' = <<>>
\* commit_edit: the flag and the board follow the session.
Commit          == preview' = derive(edit') /\ unsaved' = dirty'
Warn            == lists' = [lists EXCEPT !.warnings = orphan_warnings(edit')]

-----------------------------------------------------------------------------
(* Selecting                                                               *)

SelectKey(k) ==
  /\ ~chordMode /\ ~globalForm /\ UNCHANGED vars
  /\ IF phys = k THEN Deselected ELSE phys' = k /\ SeedForms(layer, k)
  /\ UNCHANGED <<layer, mode, builder, lists, prompt, window>>

\* Mutant: the forms keep what they showed of the key on the other layer.
PickWithoutSeeding(b) ==
  /\ layer' = b /\ globalForm' = FALSE /\ prompt' = NoPrompt /\ UNCHANGED vars
  /\ IF chordMode THEN ClearBuilder /\ lists' = [lists EXCEPT !.chords = chords(edit, b)]
                  ELSE UNCHANGED <<builder, lists>>
  /\ UNCHANGED <<phys, form, chordMode, window>>

PickEditLayer(b) ==
  /\ layer' = b /\ globalForm' = FALSE /\ prompt' = NoPrompt /\ UNCHANGED vars
  /\ IF chordMode THEN ClearBuilder /\ lists' = [lists EXCEPT !.chords = chords(edit, b)]
                  ELSE UNCHANGED <<builder, lists>>
  /\ IF phys # "" THEN SeedForms(b, phys) ELSE UNCHANGED form
  /\ UNCHANGED <<phys, chordMode, window>>

\* Mutant: the chord rows are those of the layer they were last built for.
BoardModeOnly ==
  /\ ~globalForm /\ layer # <<>>
  /\ chordMode' = ~chordMode /\ Deselected /\ ClearBuilder
  /\ UNCHANGED <<vars, layer, globalForm, lists, prompt, window>>

SetBoardMode ==
  /\ ~globalForm /\ layer # <<>>
  /\ chordMode' = ~chordMode /\ Deselected /\ ClearBuilder
  /\ lists' = IF chordMode THEN lists ELSE [lists EXCEPT !.chords = chords(edit, layer)]
  /\ UNCHANGED <<vars, layer, globalForm, prompt, window>>

EditGlobal ==
  /\ globalForm' = ~globalForm
  /\ IF globalForm THEN UNCHANGED <<phys, form, lists>>
     ELSE Deselected /\ lists' = [lists EXCEPT !.globals = global_entries(edit)]
  /\ UNCHANGED <<vars, layer, chordMode, builder, prompt, window>>

-----------------------------------------------------------------------------
(* Layers                                                                  *)

\* The shared end of create, delete and rename: the focus moves to b.
Refocus(b) ==
  /\ layer' = b /\ Deselected /\ ClearBuilder /\ Commit
  /\ lists' = [Lists(edit', b) EXCEPT !.globals = lists.globals]
  /\ UNCHANGED mode

CreateLayer(n) == prompt = NoPrompt /\ AddLayer(n) /\ Refocus(<<n>>) /\ UNCHANGED prompt
Rename(n) ==
  /\ prompt = NoPrompt /\ Len(layer) = 1 /\ layer # Main
  /\ RenameLayer(layer[1], n) /\ Refocus(<<n>>) /\ UNCHANGED prompt

AskDelete ==
  /\ prompt = NoPrompt /\ ~globalForm /\ layer \notin {<<>>, Main}
  /\ prompt' = [name |-> layer, refs |-> References(edit, layer)]
  /\ UNCHANGED <<vars, layer, phys, mode, form, builder, lists, window>>
CancelDelete ==
  /\ prompt # NoPrompt /\ prompt' = NoPrompt
  /\ UNCHANGED <<vars, layer, phys, mode, form, builder, lists, window>>
\* Mutant: the focus stays on the layer that was deleted.
DeleteUnderFocus ==
  /\ prompt # NoPrompt /\ RemoveLayer(prompt.name) /\ Refocus(layer)
  /\ prompt' = NoPrompt

ConfirmDelete ==
  /\ prompt # NoPrompt /\ RemoveLayer(prompt.name) /\ Refocus(First(edit'))
  /\ prompt' = NoPrompt

-----------------------------------------------------------------------------
(* The selected key                                                        *)

KeyForm == phys # "" /\ ~chordMode /\ ~globalForm
Rest    == UNCHANGED <<layer, phys, mode, builder, prompt>>

\* The value, tap/hold and layer forms all reseed every form but the label's.
\* A value typed, or dropped, is shown as it is; one composed is read back.
Reseeded(v) ==
  /\ shown' = [Seed(edit', layer, phys) EXCEPT !.label = shown.label, !.binding = v]
  /\ SeedMacro(layer, phys) /\ Warn /\ Commit /\ Rest
ReadBack == Reseeded(current_binding(edit', layer, <<phys>>))
ApplyBinding(v)           == KeyForm /\ SetBinding(layer, <<phys>>, v) /\ Reseeded(v)
MakeTransparent           == KeyForm /\ ClearBinding(layer, <<phys>>) /\ Reseeded(NoVal)
ApplyTapHold(n, tap, f)   == KeyForm /\ SetTapHold(layer, phys, n, tap, f) /\ ReadBack
ApplyLayerAction(kind, n) == KeyForm /\ SetLayerAction(layer, phys, kind, n) /\ ReadBack

Relabelled ==
  /\ shown' = [shown EXCEPT !.label = current_label(edit', layer, <<phys>>)]
  /\ Commit /\ Rest /\ UNCHANGED <<draft, draftOf, lists>>
LabelKey(t)  == KeyForm /\ SetLabel(layer, <<phys>>, t) /\ Relabelled
UnlabelKey   == KeyForm /\ shown.label # "" /\ ClearLabel(layer, <<phys>>) /\ Relabelled

MacroAdd(t) ==
  /\ KeyForm /\ Len(draft) < MaxSteps
  /\ draft' = Append(draft, t)
  /\ UNCHANGED <<vars, layer, phys, mode, shown, draftOf, builder, lists, prompt, window>>
MacroRemove(i) ==
  /\ KeyForm /\ draft' = RemoveAt(draft, i)
  /\ UNCHANGED <<vars, layer, phys, mode, shown, draftOf, builder, lists, prompt, window>>
MacroMove(i) ==
  /\ KeyForm /\ i < Len(draft)
  /\ draft' = [draft EXCEPT ![i] = draft[i + 1], ![i + 1] = draft[i]]
  /\ UNCHANGED <<vars, layer, phys, mode, shown, draftOf, builder, lists, prompt, window>>
\* Of the forms only the macro's is reseeded.
ApplyMacro(repeat) ==
  LET v == MacroValue(draft, repeat)
  IN  /\ KeyForm /\ draft # <<>> /\ Stable(v) /\ SetMacro(layer, phys, v)
      /\ shown' = [shown EXCEPT !.binding = current_binding(edit', layer, <<phys>>),
                                !.macro = current_macro(edit', layer, phys).ok]
      /\ SeedMacro(layer, phys) /\ Warn /\ Commit /\ Rest

-----------------------------------------------------------------------------
(* Chords and options                                                      *)

ChordForm == chordMode /\ ~globalForm
Build(c)  == picks' = c /\ UNCHANGED <<vars, layer, phys, mode, form, lists, prompt, window>>

ToggleMember(k) ==
  /\ ChordForm /\ UNCHANGED orig
  /\ Build(IF Contains(picks, k) THEN SelectSeq(picks, LAMBDA x : x # k) ELSE Append(picks, k))
EditChord(row)  == ChordForm /\ orig' = row.key /\ Build(row.key)
ClearKeys       == ChordForm /\ picks # <<>> /\ orig' = <<>> /\ Build(<<>>)

ChordsCommitted ==
  /\ lists' = [lists EXCEPT !.chords = chords(edit', layer), !.warnings = orphan_warnings(edit')]
  /\ Commit /\ UNCHANGED <<layer, phys, mode, form, prompt>>

\* Mutant: the chord that was edited stays.
AddChordKeepOld(v) ==
  /\ ChordForm /\ SetChord(layer, picks, v) /\ ClearBuilder /\ ChordsCommitted

AddChord(v) ==
  LET set   == set_layer_chord(edit, layer, picks, v)
      moved == orig # <<>> /\ canonical_chord(orig) # canonical_chord(picks)
  IN  /\ ChordForm /\ CanSetChord(layer, picks)
      /\ Mutates(Did("chord", layer, picks, v),
                 IF moved THEN remove_chord(set, layer, orig) ELSE set)
      /\ ClearBuilder /\ ChordsCommitted
RemoveChordRow(row) == ChordForm /\ RemoveChord(layer, row.key) /\ ChordsCommitted
                                 /\ UNCHANGED builder

OptionCommitted ==
  /\ lists' = [lists EXCEPT !.globals = global_entries(edit')]
  /\ Commit /\ UNCHANGED <<layer, phys, mode, form, builder, prompt>>
SetOption(o, v) == globalForm /\ SetGlobal(o, v) /\ OptionCommitted
ClearOption(o)  == globalForm /\ ClearGlobal(o) /\ OptionCommitted

-----------------------------------------------------------------------------

FocusNext ==
  \/ \E k \in EditKeys : SelectKey(k)
  \/ \E i \in DOMAIN lists.layers : PickEditLayer(lists.layers[i])
  \/ SetBoardMode
  \/ EditGlobal
LayerNext ==
  \/ \E n \in NewNames : CreateLayer(n) \/ Rename(n)
  \/ AskDelete \/ CancelDelete \/ ConfirmDelete
KeyNext ==
  \/ \E v \in Values : ApplyBinding(v)
  \/ MakeTransparent
  \/ \E n \in HoldTargets, tap \in Taps, f \in Feels : ApplyTapHold(n, tap, f)
  \/ \E kind \in Kinds, n \in Targets : ApplyLayerAction(kind, n)
  \/ \E t \in LabelTexts : LabelKey(t)
  \/ UnlabelKey
  \/ \E t \in StepsTyped : MacroAdd(t)
  \/ \E i \in DOMAIN draft : MacroRemove(i) \/ MacroMove(i)
  \/ \E r \in Repeats : ApplyMacro(r)
ChordNext ==
  \/ \E k \in Members : ToggleMember(k)
  \/ \E i \in DOMAIN lists.chords : EditChord(lists.chords[i]) \/ RemoveChordRow(lists.chords[i])
  \/ ClearKeys
  \/ \E v \in Values : AddChord(v)
  \/ \E o \in Options, v \in Values : SetOption(o, v)
  \/ \E o \in Options : ClearOption(o)

EditNext  == FocusNext \/ LayerNext \/ KeyNext \/ ChordNext
PanelSpec == EnterInit /\ [][EditNext]_<<vars, panel>>

-----------------------------------------------------------------------------
(* Properties                                                              *)

\* Whatever was edited, on this board or through another, the forms show the
\* value, the label and the kind the selected key has now, and a macro is
\* never written to another key, or layer, than it was begun on.
FormsShowTheKey ==
  phys # "" => LET now == Seed(edit, layer, phys)
               IN  /\ shown.binding = now.binding
                   /\ shown.label = now.label
                   /\ shown.macro = now.macro
                   /\ draftOf = <<layer, phys>>

\* The same of the tap/hold and layer forms: fails, apply_macro leaves them.
FormsAgree == phys # "" => shown = Seed(edit, layer, phys)

\* After every callback the lists, the board and the flag on screen are those
\* of the document.
ScreenFollows ==
  /\ preview = derive(edit) /\ unsaved = dirty
  /\ lists.warnings = orphan_warnings(edit)
  /\ chordMode => lists.chords = chords(edit, layer)
  /\ globalForm => lists.globals = global_entries(edit)
  /\ ToSet(lists.layers) \union {Main} = ToSet(editable_sections(edit)) \union {Main}

\* Edits have somewhere to go, until the last layer was deleted, and the layer
\* the confirm bar would delete is the one on screen.
FocusIsReal ==
  /\ layer # <<>> => HasBoard(edit, layer)
  /\ prompt # NoPrompt => prompt.name = layer

\* ... and its count of bindings that will dangle is right: fails, a key can
\* be pointed at the layer while the bar is up.
PromptStillTrue == prompt # NoPrompt => prompt.refs = References(edit, prompt.name)

\* Committing a chord that was loaded for editing replaces it, whatever keys
\* it has now, and leaves the other chords of the layer alone.
Canon(d)  == {<<canonical_chord(t.key), t.val>> : t \in ToSet(chords(d, layer))}
ChordEditReplaces ==
  [][last'.op = "chord" /\ edits' # edits =>
       LET gone == {canonical_chord(picks)} \union (IF orig = <<>> THEN {} ELSE {canonical_chord(orig)})
       IN  Canon(edit') = {p \in Canon(edit) : p[1] \notin gone}
                            \union {<<canonical_chord(picks), last'.val>>}]_<<vars, panel>>
=============================================================================
