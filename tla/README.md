# keyd-viz in TLA+

TLA+ models of keyd-viz, their TLC runs, and TLAPS proofs about them. Paths
below are those of the repository (`src/crates/...`); every definition that
models code is listed with its lines under `map` in `PROJECT.json`.

    tlc -workers 2 -config MCApplyTool_live.cfg MCApplyTool   # one run
    tlc -workers 2 -config MCEditSession_edits.cfg MCEditSession
    tlapm ApplyTool_proofs.tla                                # one proof module

## 1. The system

keyd-viz shows what the key remapping daemon `keyd` does, and edits its config.
It is three programs and a library.

| part | what it is | state | operations |
|---|---|---|---|
| **apply tool** `keydviz-apply` (`crates/apply`) | started through pkexec, once per change; the only thing that writes `/etc/keyd` | the transaction (undo list, temp file, backups), its pipe | `apply`, `delete`, validate, reload, dead-man window, `keep`, revert |
| **helper** `keydviz-helperd` (`crates/helper`) | a system service that reads keyd and feeds GUIs | snapshot of active layers, list of clients | two source threads, `broadcast`, `add_client` |
| **GUI** `keyd-viz` (`crates/app`) | the window | sources and boards, edit session and its panel, `ApplyCtx`, glow, live view | callbacks, timers and events on the UI thread; a thread per live source and per run of the tool |
| **core** (`crates/core`) | parser, config editor, board model, labels, event reducer | none but `ActiveLayers` | pure functions |

How they interact:

- GUI → tool: the GUI spawns pkexec and writes one request and its payload to
  the child's stdin. Later it writes `keep` there, or drops it. The tool answers
  with lines on stdout (`findings`, `applied`, then a verdict).
- tool → keyd: `keyd check` on a temp file before it is renamed into place,
  `keyd reload` after.
- keyd → helper → GUIs: keyd's control socket gives layer transitions, its
  virtual keyboard key events. The helper keeps the snapshot and fans every
  event out over one socket per GUI.
- keyd → GUI: without the helper, the GUI runs `keyd listen` and `keyd monitor`
  as children.
- inside the GUI: background threads post closures to the one UI thread; two
  timers there compare the window with the config files and with the connected
  keyboards. The panel edits a document, and after each edit the boards are built
  again from it, by the same parser the viewer uses.

### Components, what is hard about them, what makes them correct

**Apply transaction** (`txn.rs`, `fdio.rs`). Captures each file, writes a temp
file, checks it, takes a backup, renames, fsyncs; on failure undoes what was
done, and once more in `Drop`. *Hard*: an I/O failure or a kill between any two
system calls; a call that takes effect and still reports an error; backups
pruned by a stamp in whole seconds. *Correct when*: the bytes replaced can be
recovered at every point, a refused config leaves nothing behind, a failure
costs no more than the file it hit, pruning takes surplus only.

**Apply tool and dead-man switch** (`main.rs`, `deadman.rs`, `scan.rs`).
*Hard*: the keep, the end of the pipe and the deadline race; a reload fails
after the change went live; keyd is restarted during the window; two runs
overlap. *Correct when*: only a keep keeps, the verdict is true of the files,
what was kept is what keyd loaded, a run always ends, and a GUI that vanishes
gets its files back.

**Apply client and controller** (`applying.rs`, `apply_ctx.rs`). One handle, one
dialog, one pending intent and one state, used by all runs. *Hard*: events carry
no run id; the writer thread holds the mutex `revert` only tries; a session may
be discarded with a run in flight. *Correct when*: a live change always has a
dialog that reaches it, only a change whose own dialog had a KEEP is kept, the
tool is asked for what the user asked for, no flow hangs.

**Edit session and panel** (`editing.rs`, `edit_ui.rs`, callbacks of `main.rs`).
*Hard*: enter, leave, discard, switch and create in the middle of a run; boards
for configs that do not exist yet; a dozen forms and lists that are copies of
what the document says, each refreshed by the callbacks somebody thought of.
*Correct when*: staged edits are lost only by the user's decision, a board
without a file goes, a form shows the key it writes to, and a list the document.

**Helper hub** (`helper/main.rs`, `keyd_ipc.rs`, `evdev.rs`). *Hard*: two
mutexes, blocking writes under one of them, a client that joins while events
arrive, restarts of keyd and of the helper. *Correct when*: the snapshot is
keyd's stack behind the stream and each client the snapshot behind its wire.

**Live sources of the GUI** (`helper.rs`, `layer.rs`, `monitor.rs`, `live.rs`).
*Hard*: reconnects, and reducers that do or do not outlive the connection.
*Correct when*: the window ends up with keyd's layers and no stuck key.

**Glow** (`glow.rs`, `next_press_state`). *Hard*: events, timer, capture, edits
and switches of the sheet in any order. *Correct when*: a key that came up goes
dark.

**Boards, reload and device watch** (`ids.rs`, `detect.rs`, `create.rs`, timers in
`app/main.rs`). *Hard*: a stamp taken before the file is read; indices into a
list that edits, creations and deletions change; four places that match keyboards
against `[ids]` and must not contradict each other. *Correct when*: the boards
come to be those of the files and a key lights up on the board that governs its
keyboard, whatever is written, plugged, edited, created and deleted.

**Config editor and parser** (`core/edit`, `parser.rs`). Pure, on text that keyd
reads and a person wrote. *Hard*: sections that merge, keyd's last-wins, values
and qualified names with references to layers inside, files without a final
newline or with CRLF. *Correct when*: an edit does in keyd what was asked and
nothing else, every other line stays, the file read back is the document on
screen, and a rename leaves no reference behind.

**Board model, tap-hold, layer actions, macros** (`board.rs`, `taphold.rs`,
`layeraction.rs`, `macros.rs`). Pure. *Correct when*: the cap says what keyd does,
a form taken apart and put together again is the same binding, and a macro types
what was built.

**No protocol to model**: key tables, geometry and legends, tray, picker,
preferences (one file rewritten whole), reading `/proc` and `/sys`, polkit's
answer in `authz.rs`.

## 2. The modules

| module | models | built on |
|---|---|---|
| `ApplyTxn` | `txn.rs` over `fdio.rs`: one action per system call that matters, each of which may fail, and kills | |
| `WriteSet` | an arbitrary caller of `txn.rs`: write-sets of any length | EXTENDS `ApplyTxn` |
| `DeadMan` | abstract: what one run promises about the directory | |
| `RunProtocol` | abstract: what a run looks like from the GUI | |
| `ApplyTool` | `main.rs` `run` and `revert_and_report`, `deadman.rs` | EXTENDS `ApplyTxn`, implements `DeadMan` and `RunProtocol` |
| `ApplyUi` | `applying.rs`, `apply_ctx.rs`, edit-mode callbacks | INSTANCE `RunProtocol` |
| `LayerStack` | `live.rs`: events and the reducer, as operators | |
| `LiveHub` | the helper with its GUIs | EXTENDS `LayerStack` |
| `LiveDirect` | the GUI with `keyd listen` and `keyd monitor` | EXTENDS `LayerStack` |
| `KeyGlow` | `handle_key_event`, `spawn_glow_decay`, `next_press_state` | |
| `Lists` | filtering a list, as operator | |
| `ConfigDoc` | `core/src/edit`: the document as sections and lines, parse, serialize, the editor's operations, as operators | EXTENDS `Lists` |
| `Sheet` | `parser.rs` `derive` and `board.rs`: what the window draws of a document | EXTENDS `ConfigDoc` |
| `KeyActions` | `taphold.rs`, `layeraction.rs`, `macros.rs`: what the forms take apart and put together | EXTENDS `ConfigDoc` |
| `EditSession` | `editing.rs`: one session over one file, its mutators and the diff | EXTENDS `Sheet`, `KeyActions` |
| `EditPanel` | the edit callbacks of `main.rs` and `edit_ui.rs`: selection, forms, lists, preview | EXTENDS `EditSession` |
| `DeviceIds` | `ids.rs`, and what `detect.rs` and `create.rs` decide with it, as operators | EXTENDS `Lists` |
| `BoardWatch` | sources and boards, the two timers, and the callbacks that change the list under them | EXTENDS `DeviceIds` |
| `ApplyTool_proofs` | theorems | EXTENDS `ApplyTool` and `WriteSet` |
| `ApplyUi_proofs`, `LiveHub_proofs`, `BoardWatch_proofs`, `EditPanel_proofs` | theorems | EXTEND the module they are about |
| `EditSession_proofs` | theorems about the edits themselves, and the forms | EXTENDS `EditPanel_proofs`, whose lemmas it needs |
| `LiveView_proofs` | theorems | EXTENDS `LiveDirect` and `KeyGlow` |
| `LayerStack_proofs` | lemmas about the reducers, lists, folds and `Among` | EXTENDS `LayerStack` and `Lists`; the `Live*`, `BoardWatch` and `EditPanel` proofs extend it |

`MC*.tla` hold the sets TLC is given.

The chain of the apply side is: `ApplyTxn` says what each system call does to the
directory; `ApplyTool` runs one transaction per request over it and implements
both abstractions (`KeepsPromise`, `KeepsProtocol`, checked and proved); `ApplyUi`
uses the second as its tool, so that what the GUI may rely on is exactly what the
tool was shown to do. The chain of the edit side is: `ConfigDoc` says what an
operation does to the lines, `Sheet` what the window makes of the lines,
`EditSession` gives both a state, and `EditPanel` is the window over it, with its
copies. `ApplyUi` and `BoardWatch` see a session from outside, as the set of edits
it holds and as the content it would save.

### How state and actions correspond to the code

**ApplyTxn / ApplyTool.** `live`, `temps` and `baks` are the directory;
`todo[r]`, `applied[r]` and `prior[r]` the local variables of `txn::apply` and
the undo list of `Transaction`; `step[r]` the program counter in `txn.rs` and
`at[r]` that in `main.rs`. A step is a call that touches the directory
(`ReadPrior`, `WriteTmp`, `CheckTmp`, `BackUp`, `Rename`, ...), or a decision of
`main.rs` (`Accept`, `Reload`, `WindowKeep`, `WindowRevert`, ...). `faults`
counts I/O errors; with `UnsyncedIO` an operation may also take effect and
report an error, as `renameat` followed by a failing `fsync` does. `Kill` is
SIGKILL or power loss. `inbox`, `hup` and `expired` are the pipe and the clock
of `await_keep`. `loaded` is what keyd runs. A file's content is a model value;
`Valid` are those `keyd check` accepts and `Sensitive` those `scan` flags.
`latest`, `base` (the directory when the last run began) and the stamps of
backups are for the properties.

**ApplyUi.** Callbacks and events are whole actions, as they are on the UI
thread. `writer[r]` is the background thread up to the end of the write,
`pkexec[r]` the password dialog, `out[r]` the lines on their way to the UI
thread (pump, channel and event loop in one queue: the order is that of the
lines). `hup[r]` says that stdin was taken out of its mutex and dropped;
`state`, `pending`, `handle` and `dialog` are the fields of the same meaning in
`ApplyCtx` and the window. A config is the set of the user's edits it contains;
a backup has none. The tool's write and its `applied` line are one step here,
since `KeepsProtocol` and `KeepsPromise` are about what lies between.

**LiveHub / LiveDirect.** Streams, sockets and pipes are bounded queues. Each
thread has a program counter at the points where it blocks or holds a lock;
`lock` is the clients mutex. `keyd` and the kernel are external and modelled by
what the code can observe: layer and key events in order, a replay of the
active layers at the start of a stream, the end of a stream.

**KeyGlow.** Key events of all keyboards wait in one queue. `held`, `until` and
`lit` are `GlowState` and `pressed_keys`; `SheetOf` is the device map. `origin`
and `eaten` are for the properties.

**ConfigDoc / Sheet / KeyActions.** A line is a record by what the parser
understands of it (blank, prose, label comment, binding, header) with its
terminator; a key is the sequence of its `+`-joined parts, a value the tree of its
call, a word of a macro the sequence of its letters, because whether a word
survives as what it types depends on them. `serialize` is the lines in order, and
`parse` the sections they fall in, so that a line that lost its terminator glues to
the next one as it does in the file. `KeydValue`, `KeydChord` and `KeydOption` are
not code of this repository: they say what keyd makes of a config (the last line
of a key wins, sections of one name are one layer), as the comments of `mod.rs`
and `parser.rs` state it, and the properties compare the code with them.

**EditSession / EditPanel.** `edit` and `original` are `EditState::doc` and the
bytes it was opened from; an action is a method of `editing.rs` with its refusals.
In `EditPanel` an action is a whole callback: the method, then every seed and
refresh that callback calls. `shown`, `lists`, `prompt`, `preview` and `unsaved`
are the copies the window holds.

**BoardWatch.** `disk` and `devs` are the world; `srcs` is the shared list of
sources, `sheets`, `active` and `shown` the window's, `map` and `last` the device
map of the window and of the timer. A tick of the reload timer is `StampMtime`,
then `Reload` for that source, since the file may change in between; everything
else is one step of the UI thread. An mtime is the number of the change that made
it. A config is its `[ids]` lines and a body.

### Order of work

1. *Done*: the tool, since it decides over `/etc/keyd`, the GUI over the tool, and
   the live view.
2. *Done*: the document and its editor, the session and its panel, the matching of
   keyboards, the timers; both refinements and the invariants of `ApplyUi` as
   theorems.
   *Done*: theorems about both ways of the live view, the write-sets of `txn.rs`,
   the backups and the parallel runs of the tool, the boards of the window.
3. *Next, to model*: the pre-flight of an apply (the file changed on disk since the
   session opened, the backup list), includes and aliases of the parser, drafts
   saved beside the session.
   *Done*: theorems about the panel's copies (`FocusIsReal`, `ScreenFollows`,
   `FormsShowTheKey`), from lemmas about which lines each edit leaves.
   *Done*: theorems about what an edit puts in (`EditsTakeEffect`,
   `NothingElseChanges`, `ChordEditReplaces`).
4. *Next, to prove*: the parts of `FileIsSound` and `NothingIsLost` that hold beyond
   the bounds of their run (section 4 says which do not), once the model says what the
   others need.

## 3. The runs

`glow`, `panel`, `boards`, `ui_runs` and `ui_boards` check deadlock. The others say
`CHECK_DEADLOCK FALSE`: with its bounded events, runs or edits used up, each of
those systems may rest. That it does not rest where it should go on is what the
liveness properties say.

| run | checks | instance |
|---|---|---|
| `txn_sets` | `EndsClean`, `FaultsCostOneFileEach`, `OnlySurplusPruned` | two transactions in turn over two files; one write, two of which the last is rejected, or four of which three write one file; deletes and prunes; two failing calls anywhere, which may have taken effect; a kill anywhere; a clock that may move; retention 1 |
| `tool_live` | `EndingsAreTrue`, `Recoverable`, `KeepsPromise` (implements `DeadMan`), `RunsEndSafely`, `KeepsProtocol` (implements `RunProtocol`) | one run: apply or delete, accepted, rejected, unacknowledged; one failure, a kill, restarts of keyd; fair |
| `tool_parallel` | `ParallelRuns`, `OldBytesStay` | two runs at once on two configs, apply or delete; one failure, which may have taken effect; a kill; retention 1 |
| `ui_runs` | `WindowIsControlled`, `KeptWasTried`, `AsksWhatWasWanted`, `KeepIsHeard` | two runs, one config; create, restore, delete, switch |
| `ui_boards` | `BoardsAreReal`, `EditsAreNeverDropped`, `FlowsEnd` | one run, two configs of which one is created, two edits, fair |
| `hub` | `NoStuckGlow`, `HubFollows`, `Settles` | one GUI that may quit, a layer, a key; a loss of keyd and a restart of the helper, fair |
| `direct` | `WindowFollows`, `Settles` | two layers, a key, two losses of keyd or of a child, fair |
| `glow` | `NoStuckKey`, `StraysComeByHand`, `GlowEnds` | three keyboards, one without a sheet; two sheets, two keys; edits, captures and picked sheets, fair |
| `edits` | `FileIsSound`, `ChangesAreSeen`, `PreviewTellsKeyd`, `EditsTakeEffect`, `NothingElseChanges`, `NothingIsLost` | any two edits of three files, or of a new config |
| `panel` | `FormsShowTheKey`, `ScreenFollows`, `FocusIsReal`, `ChordEditReplaces` | two edits of two files, or of a new config, with any clicks between |
| `boards` | `BoardsAgree`, `PathsDistinct`, `MatchersAgree`, `BoardsConverge`, `MapConverges` | two configs and room for a third, two keyboards of which one has two nodes, a lid switch; any two changes from outside among a session's, fair |
| `edits_survive` | `EditsSurviveSaving`, violated | one edit of the same three files |

What they show, in short: the tool never leaves a config the user did not confirm,
or says so, and its last line can be believed; the window always has a way to
end a run it began, and KEEP keeps what its dialog was about; edits reach the file
or a decision of the user; the live view ends up with keyd's layers and no lit key
that is up; an edit does in keyd what its form says and nothing else; the forms
write to the key they show; and the boards follow files and keyboards.

Why these instances are enough to see what they are for:

- *The tool.* One failure distinguishes every failing call.
  `FaultsCostOneFileEach` needs two, and three entries to undo: an undo that fails
  leaves the rest to `Drop`, and one that fails there leaves it for good. Retention 1
  makes the second backup prune. What one run leaves to the next (temp files,
  backups, what keyd has loaded) is seen by hand, with `Runs = {r1, r2}` and
  `MaxClock = 0` in `MCApplyTool_live.cfg` and its invariants only, and is covered by
  the theorems. `tool_parallel` has two bounds more, to leave room for the failures
  that hide what they did: a GUI keeps or hangs up, not both (`KeepOrHangUp`), and keyd
  reads the directory only when a run has it do so (`NoRestart`). Neither of its
  properties looks at what keyd runs, and a keep with a hang-up behind it, and
  restarts of keyd, are in `tool_live`, whose `RunsEndSafely` says that a run ends, that
  a hang-up reverts and that a keep already in the pipe is obeyed whatever happens to the
  GUI behind it. `DeadMan` has no notion of a file half
  written: a run is quiet, open, kept, restored or in alarm. That `ApplyTool`
  implements it says that between any two system calls the directory is what it was
  or what was asked for.
- *The GUI.* Two runs are enough for an event of one to meet the state of the
  other. `Uses` chooses what the user does beyond opening, editing and applying;
  the passing runs leave out `discard in flight` (the answer of a discard
  question that was left open while a flow began) and `restore over edits`, which
  break the properties named below.
- *The live view.* A queue of two can be full with one event behind it. Two layers
  (`direct`, and by hand `hub` with two) can be in either order. In the
  passing runs `JoinRaces = FALSE`: no event arrives while a client is added.
- *The glow.* Two keyboards with sheets and one without are all the cases of
  `next_press_state`; four strikes hold two keys on different boards and let
  them go.
- *The editor.* The three files were chosen for what the code distinguishes: a
  layer in two sections, one of them qualified; a composite; references to a layer at
  the top of a value and inside one; a value no form can show; a file without a
  final newline, in CRLF, with a label and an option; and one that is not a keyd
  config, which the editor must leave alone. Every operation is tried on all of
  them, and after every other operation. `EditsTakeEffect`, `NothingElseChanges` and
  `NothingIsLost` compare with the state before, so that longer sessions add nothing
  but more states before. `NothingIsLost` is what a panel does not show: references
  to a renamed layer, the timeouts of a key that is pointed elsewhere, the words
  of a macro.
- *The panel.* What goes wrong here is a callback that forgets a copy. One edit
  through another form, or another board, between looking at a key and typing shows
  it; two give a chord to load and to commit.
- *The boards.* Three paths and three files let an index shift under the timer
  and a name be taken; two nodes of one keyboard make a device appear twice; two
  outside changes put one between a stamp and its read and one after.

### Bounds

`MaxFaults` I/O errors, `MaxClock` ticks between runs, `Retain` backups kept
(the code keeps 10); `MaxChanges`, `MaxLosses`, `MaxCrashes`, `MaxQuits` of
keyd and its clients; `WireCap`, `KeydCap`, `PipeCap` events a queue holds;
`MaxStrikes` key transitions and `MaxQueue` waiting ones; `MaxEdits` edits of a
session and `MaxSteps` steps of a macro under construction; `MaxChanges` of
`BoardWatch`, outside changes and file contents the session makes. Where a property
is about what happens after events stop, a bound on them is no restriction but
the hypothesis.

### Fairness

- `ApplyTool!FairSpec`: weak fairness of each run's steps and of its deadline.
  The scheduler runs the process and `poll` has a timeout. It assumes that
  `keyd check` and `keyd reload` end; the code waits for both without a limit,
  which is listed as a hazard that no property here can see.
- `ApplyUi!FairSpec`: a run's thread, pkexec, the tool (`RunsEnd`) and the
  event loop go on; somebody answers or closes the password dialog. The user is
  not fair: nobody has to press anything.
- `LiveHub!FairSpec`: threads run, systemd restarts keyd and the helper (their
  units say so), and a GUI that is there reads its socket. `SuspendedSpec`
  drops the last one.
- `LiveDirect!FairSpec`: both threads retry for ever, the event loop runs, keyd
  is started again.
- `KeyGlow!FairGlowSpec`: the event loop runs, and the timer comes back after a
  key's window has passed.
- `BoardWatch!FairSpec`: the two timers repeat as long as the window lives
  (`TimerMode::Repeated`). The reload timer is fair as a whole and not per source:
  a tick goes through all of them. The fairness of the device timer is written out
  with its guard, `WatchDue`, because TLC evaluates an ENABLED of so large an
  action slowly. Users and the outside are not fair.

### Where the code and what it says of itself differ

`edits_survive` is violated and is the finding of `PROJECT.json`: the editor promises
that a document read back from its own bytes is the same (`editing.rs:634`,
`edit_ui.rs:589-590`), and `set_label` inserts its comment after a last line that has
no terminator without giving it one (`core/src/edit/mod.rs:297`), so that the label
glues to the binding before it. `FileIsSound` of run `edits` is the same statement
with that case excepted (`GluedLabel`), and with that of a layer renamed to `main`,
whose section keeps its kind until the file is read again (`NamedMain`).

Options that the passing runs leave switched off were left off because of what
follows; and a few properties a reader would expect are stated beside the ones
that hold, and fail. Each has a config of its own, to be run by hand; TLC finds the
property violated.

| config | property | what happens |
|---|---|---|
| `MCLiveHub_join_race` | `NewClientsFollow` | an event between the copy of the snapshot and the registration is lost to the new client (`helper/src/main.rs:72-84`) |
| `MCApplyUi_wrong_keep` | `KeptWasTried` | KEEP in the dialog of a discarded run reaches the run started after it (`apply_ctx.rs:163`) |
| `MCApplyTool_unsync` | `ErrorWroteNothing` | the rename goes through, the fsync of the directory fails: `error`, which `main.rs:9` documents as "nothing written", and the new config is live (`txn.rs:131`) |
| `MCApplyTool_unsync` | `Recoverable` | the same for unlink: the backup is removed as well (`txn.rs:288`); the config checks both and TLC stops at the first it meets |
| `MCApplyTool_overlap` | `KeptIsPermanent` | two runs on one config: the revert of the first undoes what the second kept |
| `MCLiveHub_helper_restart` | `SettledLayersTrue` | the reducer of the GUI outlives the connection (`glow.rs:82`); with `MaxLosses = 1`, `MaxCrashes = 0`, `MaxChanges = 2` instead, keyd restarts and connected windows keep its old layers (`helper/src/main.rs:105`) |
| `MCLiveHub_suspended` | `ReadsPromptly` | one suspended GUI stops the thread that reads keyd (`helper/src/main.rs:60`) |
| `MCKeyGlow_capture` | `HeldIsPhysical` | an armed capture eats the up of a key that was down (`glow.rs:259`) |
| `MCApplyUi_restore` | `EditsAreNeverDropped` | a restore that is kept replaces staged edits (`apply_ctx.rs:624`) |

Others show when a config above is changed: `OnBoard` in `MCKeyGlow_use.cfg` with
`Uses = {"flip"}` (picking a keyboard does not clear the glow, `edit_ui.rs:154`);
`WindowIsControlled` in `MCApplyUi_runs.cfg` with `Uses = {"discard in flight"}` (a
session is discarded while the thread writes, and the run cannot be reached,
`applying.rs:409`); `PhantomBoardsGo` in `MCApplyUi_boards.cfg` with `Uses =
{"discard in flight", "create"}` (a new config is discarded in its countdown and its
board stays, `edit_ui.rs:562`); `FormsAgree` and `PromptStillTrue` in
`MCEditPanel_forms.cfg` with `MaxSteps = 2` (committing a macro leaves the tap/hold
and layer forms as they were; pointing a key at a layer leaves its delete bar with the
count from before, `main.rs:760-763`).

Changes to `MCBoardWatch_boards.cfg` show six more: `BoardsConverge` and `MapConverges`
with `Racy = TRUE`, `MaxChanges = 1` (a file written, or a keyboard plugged, between
detection and the first stamp of a timer is taken for seen, `main.rs:2001-2006`,
`2049-2053`); `ReadsAreRetried` with `Outside =
{"permit"}` (a stamp is recorded before a read that fails, `main.rs:2024`, so a
file that becomes readable again without a write is not read); `OneBoardPerFile`
with `Outside = {"remove"}` (the board of a removed file stays, and its name is free for
a new config); `CreatingMakesNoClash` with `Contents <- MCUids` (`create.rs:19` offers
a keyboard that an id with a unique part claims); `MapConverges` with `Examples =
TRUE`, `FirstDevs = {{1, 4}}` and `MaxChanges = 0` (bundled examples get no device map
until something is plugged); `LabelsConverge` as a PROPERTY (labels are refreshed
when the map changes, not when the file does).

Smaller oddities, met while modelling and kept in the model as they are: `remove_layer`
drops the comments inside the section; `clear_global` clears the first `[global]` only
(`editing.rs:473`); lookups of the editor take the first line of a key in a section
where keyd takes the last; the layer chooser is not refreshed when `[main]` is made
by the first edit of a file that has none.

## 4. The proofs

All for any values of the constants, and from no assumption but those on the
constants and the ones named.

**ApplyTool_proofs.** The safety invariants are not inductive: whether the directory
is `base` when the run says `error` depends on where in `txn.rs` it stopped.
`ControlInv` ties together, per run, the place in `main.rs`, the step in `txn.rs`, the
lines said, and that the write-set and the undo list have the one entry of this
request (`ControlHolds`, from which `Typing`; overlapping runs and unsynced errors
included). `SafetyInv` adds `Solo`: no other run is at work, and
`Directory` says what the files and keyd hold at each step, in the `Unsure` states after
an error that may hide a rename or unlink too (`SafetyHolds`, with `~Concurrent` alone).
`EndingsHold` (`EndingsAreTrue`: a run ends as it says) follows from it where there is no
such state, that is with `~UnsyncedIO` as well. Both are assumptions about the world and
not about the code: it has no lock that keeps a second run off a config
(`MCApplyTool_overlap`), and it takes an error of `fsync` for one of the rename or unlink
before it (`txn.rs:131`, `288`; `MCApplyTool_unsync`). `AnyDiskHolds` (`EndingsOnAnyDisk`) is what
remains on a disk of that kind: `kept` and `reverted` are true, and `error` and the alarm
leave what was found or what was asked for. TLC agrees by hand, with `EndingsOnAnyDisk` as
the invariant of `MCApplyTool_unsync.cfg`. The proof has a lemma per action of the tool and
of the transaction.

The two refinements, step by step. `ProtocolHolds` (`KeepsProtocol`): `ControlInv` is
enough, since it says what a run has said at each place, so it holds for runs side by
side, on any disk. This is what `ApplyUi` takes its tool to be. `PromiseHolds`
(`KeepsPromise`): from `SafetyInv`, hence with the two assumptions. `Reading` says what
`DeadMan` sees at each step of the transaction; the one change is the rename or the
unlink of `PromiseInstall`, its undo restores by `Directory`, and what is left of an
earlier run, its `Drop`, has nothing to undo.

`ParallelHolds` (`ParallelRuns`) and `OldBytesHold` (`OldBytesStay`) assume nothing: a run
changes its own file, its own temp files and the backups under its own pid (`Stock`), and
what its file and its backup are at each step follows from its own steps alone (`Mine`,
`Side`), be an error true or not, the others killed or not. Both are about runs that are
`Alone` on their config, which is a condition in the property. The one case in which old
bytes are lost is in `OldBytesStay` as well: a delete that is reported as failed and was
not, whose error path takes the backup away. `RecoverableHolds` (`Recoverable`), under the two
assumptions, from `BackupInv`: from the backup on, the latest run has one of its own
(`OwnBak`) with the bytes it read, and while it holds the transaction those are the
bytes it found; a prune that takes it has left `Retain` others that are not older.

Of `WriteSet`, for write-sets of any length. `ShapeHolds`: types, and what the
write-set and the undo list look like at each step. `SurplusHolds`
(`OnlySurplusPruned`): by counting, from the facts of the library about the cardinality
of finite sets; that the backups are finitely many is an invariant of its own.
`CleanHolds` (`EndsClean`): without an I/O failure a live run has at most the temp file
of the write at hand, and no backup of a file whose write is still to be rejected.
It assumes `RejectsOnce`, that no set rejects a write of a file it wrote before: such
a set leaves the backup of the first write behind, since undoing takes no backup back.
`CostHolds` (`FaultsCostOneFileEach`), with `~Concurrent` and on any disk. `Restorable`
says that undoing the whole list would give a file what the transaction found; a file
that is not is `Lost`, and `CostInv` says that no more are lost than calls failed. A
successful rename pushes what it replaced, a successful undo restores the top entry,
a failed one loses its file. The attempt to prove the property in a simpler form, a
file per failure and nothing else, showed that form to be false: `revert` stops at
the first error, `Drop` starts once more, and after a second error the entries left are
never tried, which the property now states.

**ApplyUi_proofs.** `AsksHolds`: the tool is asked for what the user wanted.
`IntentInv` says that whenever the state is `confirm`, the intent in `Pending` is that
of the button pressed last. It holds whatever the user does. The others assume that
no discard question is answered while a flow is in flight; `MCApplyUi_wrong_keep` and
the changes of section 3 with `discard in flight` show that without it they fail.
`ControlHolds` (`WindowIsControlled`), `KeptHolds` (`KeptWasTried`) and `KeepHeardHolds`
(`KeepIsHeard`) follow from `ControlInv`: a flow is past, starting, open or ending;
there is one handle and it belongs to the run the state is about, the only one that
has lines left to say; a dialog with a KEEP is up just when the last of them was
`applied`. `BoardsHold` (`BoardsAreReal`): a board without a file is excused by the
session that made it, by a run that is not over, or by a delete whose revert was
lost, and each event that ends the excuse takes the board away. `EditsHold`
(`EditsAreNeverDropped`) also assumes that no backup is restored over edits
(`MCApplyUi_restore`): what a run writes carries every edit of the session it was
started from, and what is on disk afterwards is what the session believes to be.

**LayerStack_proofs.** What the reducers make of a sequence of events, by induction
over its length: the library's induction theorems take an operator as a parameter,
which the provers cannot instantiate, but that a nonempty set of numbers has a least
member can be cited, and induction over numbers (`NatInSet`), sequences
(`SeqInSet`) and then folds follows, stated for sets of values. `Reduce` and
`PressAll` of a longer sequence are a further step of the reducer; replaying a stack
from nothing gives its layers.

**LiveView_proofs.** Of `LiveDirect`, `WindowFollowsKeyd` (`WindowFollows`), from `TypeOK` and an
invariant that says, of a thread that reads, that its reducer is what the window will
show once the posted closures ran, and that the pipe leads from there to keyd's
layers. Nothing is assumed, and no queue needs a bound. Of `KeyGlow`, for any keyboards, sheets and device map: `GlowTyping`.
`NoKeySticks`: what makes `NoStuckKey` inductive is that, with events in the queue,
a held key that no keyboard holds any more has an up on its way and no down
behind that up, unless a capture ate it; lemmas about `Append`, `Head` and
`Tail` of the queue carry it through a strike and a handled event.
`GlowFollowsSheet`: `StraysComeByHand`, action by action from type correctness.

**LiveHub_proofs.** `SnapshotIsKeyds` (`SnapshotTracks`) assumes nothing. `HubPassesOn`
(`HubFollows`) assumes `~JoinRaces`: `MCLiveHub_join_race` shows that an event between
the copy of the snapshot and the registration is lost to the new client. `NoKeyStuck`
(`NoStuckGlow`) assumes nothing: what is shown, posted, on the wire and owed by a
broadcast leads to keys that keyd holds.

**BoardWatch_proofs**, for any files, keyboards, edits and outside changes. `BoardsHold`
(`BoardsAgree`) and `PathsHold` (`PathsDistinct`) assume nothing. What makes them
inductive: a session has a board (`SessionHasBoard`), so no callback finds it missing; a
reload under way has a source and never that of the session (`ReloadIsAimed`), although
the list may have changed between the stamp and the read; every board has its file,
unless the file was taken away or is yet to be written (`BoardsHaveFiles`), so that a
name no file has is a name no board has, which is what `on_create_config` looks at. The
initial states come from `gather_sheets`: `Among`, a filter, keeps order and adds no
repetition, and the map of the matching names only configs that govern a keyboard. The
filters are written with `Among` because `SelectSeq` is unknown to the prover.

`MatchersHold` (`MatchersAgree`) assumes `PlainContents`, which the run's files satisfy:
no line of `[ids]` is a bare `k:` or `m:` (`ids.rs` leaves an empty pattern out of the
candidates, so its clash goes unnamed) and no id has a unique part (with `MCUids`,
section 3, the property is false). The sections written here keep to that (`AllPlain`).
Of two sections that claim a keyboard, the longer pattern is a candidate that both claim,
so `find_conflicts` names the clash; a section for a keyboard that no section governs is
claimed by no other, and adds none; the sections in use include the one of highest rank
for each keyboard (`BestKept`), so that what detection shows at the start, over those,
is what its timer says, over all. The last needs nothing but the shape of the files.

**EditPanel_proofs.** `FocusHolds` (`FocusIsReal`) and `ScreenHolds` (`ScreenFollows`), for
every file the session may open
on (`SessionAssumption`: its lines are lines), keys, values and labels, and with nothing
assumed about the order of the callbacks. `FocusInv` is inductive: the layers in the
picker are those of the document, the layer in focus is one of them or `[main]`, a
question is about the layer in focus, and the copies for drawing are current. Under it
stands what each operation of the editor does to the heads of the sections: `SameHeads`
(the sections stay, with other lines in them), `Adds` (one more, `[main]`, `[global]`
or the new layer), and for a rename that the new name is defined. `ParseIs`: what `parse`
makes of the lines of a file, run together where a newline is missing, is a document.

`ScreenFollows` adds to that what is on the lines (`ScreenInv`). Each list of the panel
is a selection (`Among`) from the lines of some sections (`Rows`, `ListsFrom`), so a
callback may leave a list alone when its edit leaves that selection: `Agrees(d, e, K, B)`
says that in the sections of kinds `K` the lines with texts in `B` are the same before and
after, in their order, and there is one lemma per operation for the `B` it leaves
(`BindingAgrees`, `LabelAgrees`, `ClearAgrees`, `ChordSound`, `OptionsAgree`,
`RenameOptions`, `RemoveOptions`). `WarningsAgree` is the one that is not obvious: after a
label edit `orphan_warnings` is not refreshed, and need not be, since what dangles and what
is defined follow from the bindings and the heads. `ScreenInv` needs that every header fits
its kind (`Sound`), or a rename could make an options section of a layer.

**EditSession_proofs.** Four theorems about the edits and their preview, for every file
the session may open on, every sequence of edits, and every key, value, label, chord, option
and layer name (a value is not the absence of one, `NoVal`): `EditsTake`
(`EditsTakeEffect`), `NothingElse` (`NothingElseChanges`), `ChordHolds`
(`ChordEditReplaces`) and `PreviewHolds` (`PreviewTellsKeyd`; a slot without a key cannot
be picked, `app.slint:143`: `"" \notin EditKeys`). The exceptions are in the properties: `clear_global`
clears the first `[global]`, and in a layer renamed to `main` the label is looked up
elsewhere. The invariant is `SessionSound` and `SessionWhole`: the lines of the document are entries,
those before the first header too, and its sections have the kind their name gives.

keyd takes the last line of a key over all the sections of a layer, so the value it reads is
that of the last text of the selection `Among(lines, ValuesOf(key))` (`KeydValue`,
`InForce`). For each operation there is a lemma that says that this selection ends with
the line it wrote (`Final`), or is empty: `SectionAt` finds the section where
`set_layer_binding` writes, and no later section of the layer names the key. The other
keys follow from `Agrees` of the panel's proofs, made finer: `Stays` looks at the
sections of one layer and the lines of one key. For the lines of the file the document is
written out as blocks, a header and its lines (`Blocks`, `FileTexts`); each block is
left, grows at its end or loses lines of the key alone, and `OthersFrom` puts this together
to the prefix that `OtherLinesStay` asks for. The chords a panel lists are, for each
chord, its last line in whatever order the keys are written (`Kept`, `ChordsAre`), so an edit
that moves a chord takes away every line of the old one and ends the lines of the new one.

For the preview, `DrawnLines` says that a board is drawn from the lines keyd merges for
it. `ListOf` puts each `[main]` line into one list of the `Config`, the lists are
selections (`SortedAs`), and a key with one line at most is in one of them at most
(`GetOnly`, `HeldAt`). Each way a cap is drawn (`CapDrawn`) leaves the binding on it, or
what it holds, or the mark of `noop` or of a toggle, and a label moves it to the ghost
(`LabelTells`). `BaseTells` and `OverlayTells` are the two boards, `SheetIs` and `CapShown`
find the cap on the sheet. Left out, as in the property: a key that has two lines on a
board, of which the sheet may draw the first while keyd takes the last; the game layer,
whose caps keep the keys' legends; and files that name a layer `main`.

`FormsHold` (`FormsShowTheKey`) is about the panel and stands here because it needs the
lemmas on values. `FormsInv`: while chords or options are up no key is selected, so none of
their edits can age a form. The callbacks of a value do not reseed the label, nor those
of the label the value; `ValueKeepsLabel` and `LabelKeepsValue` say that they need not:
for any document, key and value, an edit of one leaves what any key of any board shows of
the other. `apply_binding` shows the value that was typed and `make_transparent` none,
without asking the session (`main.rs:945`, `986`); `ReadsBack` says that this is what the
session would have answered: the section written to is the last of the board that has the
key, and the line written the last of the key in it.

**Only model-checked**: all liveness (the prover does not handle fairness and ENABLED),
and three properties of `EditSession`.

- `FileIsSound`: that `parse` gives back what `serialize` wrote is an induction over
  the lines of a file. Its other part, one line ending per file, is false of files
  beyond those of the run: a CRLF file whose only layer is removed is empty, and the next
  layer is added with LF.
- `ChangesAreSeen`: the table of the diff is an induction over two files, and that a
  diff without headers means the same sections needs that two edits do not undo
  each other's headers: it is a statement about `MaxEdits = 2`.
- `NothingIsLost`: renames and tuning follow nested arguments too, and some of it
  is false for names and values beyond the run's: a composite with spaces round its `+`,
  a composite that dangled before and meets another under the new name, an
  `overloadt2()` without arguments.

## 5. Left out

- The tool: reuse of process ids in temp names, protocol lines over 256 bytes,
  EINTR, modes and `O_NOFOLLOW`, the text search of `scan.rs` (its answer is
  the constant `Sensitive`).
- ApplyUi: quitting the GUI (for the tool that is `HangUp`), configs changed by
  another program, the list of backups, the scan of included files, drafts, the
  texts shown.
- The live view: the hello line, layout events, the live and keys indicators,
  authorization, code names, retry delays, the choice between helper and
  children at start-up.
- The editor: includes and aliases, quoting and escapes inside a value, the legends and
  geometry a board is drawn with, colours, the wording of banners, the texts of
  tooltips and warnings.
- The boards: reading `/proc` and `/sys` (what they say is the constant
  `Devices`), names and vendors shown in the picker, preferences and the tray.
