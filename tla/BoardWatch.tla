----------------------------- MODULE BoardWatch ----------------------------
(***************************************************************************)
(* The boards of the window against the world they show: the config files  *)
(* and the connected keyboards.  Detection decides the sources once        *)
(* (detect.rs); from then on one timer reloads a file whose mtime changed, *)
(* another matches the keyboards again (main.rs), and editing, creating    *)
(* and deleting a config change the list of sources under both of them.    *)
(*                                                                         *)
(* All of it runs on the UI thread; what happens between its steps is      *)
(* outside: files written, removed or made unreadable, keyboards plugged   *)
(* and pulled.  A tick of the reload timer is a pair of steps per source,  *)
(* since the file may change between the stat and the read.  Sources are   *)
(* numbered from 1.                                                        *)
(***************************************************************************)
EXTENDS DeviceIds

CONSTANTS
  Paths,       \* the file names, in the order of the directory listing
  Contents,    \* what a file can hold: [ids, body]
  Bodies,      \* the bodies the user edits a config into
  Devices,     \* the keyboards there are, in the order of /proc
  FirstDisks,  \* files at start
  FirstDevs,   \* connected keyboards at start
  Examples,    \* the files are the bundled examples: /etc/keyd has none
  Outside,     \* the kinds of outside change: write, remove, plug, permit
  Racy,        \* they may happen while the window is being set up
  MaxChanges   \* bound: outside changes, and new file contents of any kind

\* What a path can be: a file, read or not, or none (Missing).
IsFile(f) == f = [cfg |-> f.cfg, mtime |-> f.mtime, readable |-> f.readable]

\* The first file of every disk is older than the window.
ASSUME WatchAssumption ==
  /\ Paths \in Seq(STRING) /\ IsInjective(Paths)
  /\ Devices \in Seq({Devices[i] : i \in DOMAIN Devices})
  /\ \A i \in DOMAIN Devices : IsDevice(Devices[i])
  /\ \A d \in FirstDisks : /\ DOMAIN d = ToSet(Paths)
                          /\ \A p \in ToSet(Paths) : IsFile(d[p]) /\ d[p].mtime = 0
  /\ FirstDevs \subseteq SUBSET DOMAIN Devices
  /\ Examples \in BOOLEAN /\ Racy \in BOOLEAN
  /\ Outside \subseteq {"write", "remove", "plug", "permit"} /\ MaxChanges \in Nat

VARIABLES
  disk,      \* [Paths -> [cfg, mtime, readable]], Missing where there is none
  devs,      \* indices of the connected Devices
  changes,   \* how many outside changes there were
  tampered,  \* files that were removed, or made unreadable, behind the window
  started,   \* the timers run
  srcs,      \* the sources, shared by every callback
  sheets,    \* what the window holds of them
  active,    \* active_index, from 1
  shown,     \* active_sheet
  map,       \* device_map of the window
  last,      \* the map the device timer saw last
  mtimes,    \* the mtime of each path when it was last looked at, 0 for none
  pending,   \* the source a reload has stamped and not yet read, 0 for none
  session    \* the edit session

world   == <<disk, devs, changes, tampered>>
boards  == <<srcs, sheets, active, shown>>
timers  == <<started, last, mtimes, pending>>
vars    == <<world, boards, timers, map, session>>

NoConfig  == [ids |-> <<>>, body |-> ""]
Missing   == [cfg |-> NoConfig, mtime |-> 0, readable |-> FALSE]
NoSession == [path |-> "", cfg |-> NoConfig, new |-> FALSE, edited |-> FALSE]
Named     == ToSet(Paths)

Connected(d) == Among(Devices, {Devices[i] : i \in d})
Exists(p)    == disk[p] # Missing
Readable(p)  == disk[p].readable
\* conf_files_in and parse_configs: a file that cannot be read is skipped.
Confs(d)     == LET ps == Among(Paths, {p \in Named : d[p].readable})
                IN  [i \in DOMAIN ps |-> [path |-> ps[i], cfg |-> d[ps[i]].cfg]]
Positions(p) == {i \in DOMAIN srcs : srcs[i].path = p}
At(p)        == IF Positions(p) = {} THEN 0
                ELSE CHOOSE i \in Positions(p) : IsFirst(i, Positions(p))

Detect(d, k) ==
  IF Examples THEN [srcs |-> [i \in DOMAIN Confs(d) |-> Source(Confs(d)[i], <<>>, NoLabel)],
                    map  |-> {}]
  ELSE gather_sheets(Confs(d), Connected(k))

Init ==
  /\ disk \in FirstDisks /\ devs \in FirstDevs /\ changes = 0 /\ tampered = {}
  /\ srcs = Detect(disk, devs).srcs /\ map = Detect(disk, devs).map
  /\ sheets = srcs /\ active = 1 /\ shown = srcs[1]
  /\ started = FALSE /\ last = {} /\ mtimes = [p \in Named |-> 0] /\ pending = 0
  /\ session = NoSession

-----------------------------------------------------------------------------
(* The world                                                               *)

Change(kind) ==
  /\ kind \in Outside /\ changes < MaxChanges /\ (started \/ Racy)
  /\ changes' = changes + 1 /\ UNCHANGED <<boards, timers, map, session>>

WriteFile(p, c) ==
  /\ Change("write") /\ c # disk[p].cfg
  /\ disk' = [disk EXCEPT ![p] = [cfg |-> c, mtime |-> changes + 1, readable |-> TRUE]]
  /\ UNCHANGED <<devs, tampered>>
RemoveFile(p) ==
  /\ Change("remove") /\ Exists(p) /\ disk' = [disk EXCEPT ![p] = Missing]
  /\ tampered' = tampered \union {p} /\ UNCHANGED devs
\* The permissions of a file change, and with them not its mtime.
Permit(p) ==
  /\ Change("permit") /\ Exists(p)
  /\ disk' = [disk EXCEPT ![p].readable = ~disk[p].readable]
  /\ tampered' = tampered \union {p} /\ UNCHANGED devs
Plug(i) ==
  /\ Change("plug") /\ devs' = (devs \ {i}) \union ({i} \ devs) /\ UNCHANGED <<disk, tampered>>

-----------------------------------------------------------------------------
(* The window and its sources                                              *)

Idle == started /\ pending = 0

\* publish_sheet for the sources in S.
Publish(S) ==
  /\ sheets' = [i \in DOMAIN sheets |-> IF i \in S THEN srcs'[i] ELSE sheets[i]]
  /\ shown' = IF active \in S THEN srcs'[active] ELSE shown
  /\ UNCHANGED active
\* The list is rebuilt, after a source was added or removed.
Rebuild(i) ==
  /\ sheets' = srcs'
  /\ IF srcs' = <<>> THEN UNCHANGED <<active, shown>>
     ELSE active' = i /\ shown' = srcs'[i]
Clamped == IF active > Len(srcs') THEN Len(srcs') ELSE active

\* switch_keyboard: an index past the end is ignored.
SwitchTo(i) ==
  IF i \in DOMAIN sheets THEN active' = i /\ shown' = sheets[i] ELSE UNCHANGED <<active, shown>>
PickKeyboard(i) ==
  /\ Idle /\ session = NoSession /\ SwitchTo(i)
  /\ UNCHANGED <<world, srcs, sheets, timers, map, session>>
KeyGoesDown(i) ==
  /\ Idle /\ session = NoSession /\ i \in devs
  /\ \E p \in map : p[1] = Devices[i].id /\ p[2] # active /\ SwitchTo(p[2])
  /\ UNCHANGED <<world, srcs, sheets, timers, map, session>>

-----------------------------------------------------------------------------
(* Edit sessions, as far as they touch the sources                         *)

OpenEdit ==
  /\ Idle /\ session = NoSession /\ active \in DOMAIN srcs /\ Readable(srcs[active].path)
  /\ session' = [path |-> srcs[active].path, cfg |-> disk[srcs[active].path].cfg,
                 new |-> FALSE, edited |-> FALSE]
  /\ UNCHANGED <<world, boards, timers, map>>

\* commit_edit and refresh_preview: an edit leaves [ids] alone.
Edit(b) ==
  /\ Idle /\ session # NoSession /\ b # session.cfg.body
  /\ session' = [session EXCEPT !.cfg.body = b, !.edited = TRUE]
  /\ IF At(session.path) = 0 THEN UNCHANGED boards
     ELSE /\ srcs' = [srcs EXCEPT ![At(session.path)].cfg = session'.cfg]
          /\ Publish({At(session.path)})
  /\ UNCHANGED <<world, timers, map>>

\* Mutant: the name of a config that exists is accepted.
NeverTaken(p) == FALSE
config_name_taken(p) == Exists(p)

CreateConfig(p, ids, label) ==
  LET cfg == [ids |-> ids, body |-> "starter"]
  IN  /\ Idle /\ session = NoSession /\ ~config_name_taken(p)
      /\ session' = [path |-> p, cfg |-> cfg, new |-> TRUE, edited |-> FALSE]
      /\ srcs' = Append(srcs, Source([path |-> p, cfg |-> cfg], <<ids[1].pattern>>, label))
      /\ Rebuild(Len(srcs'))
      /\ UNCHANGED <<world, timers, map>>

\* on_begin_create's offer: a keyboard without a config, or all of them.
Offers ==
  {<<<<[mark |-> "", pattern |-> v]>>, [name |-> SelectSeq(Connected(devs), LAMBDA d :
        d.id = v /\ is_create_candidate(d))[1].name, more |-> 0]>> :
     v \in ToSet(create_scan(Confs(disk), Connected(devs)))}
  \union {<<<<[mark |-> "*", pattern |-> <<"*">>]>>, WildcardLabel>>}

DropSource(i) == srcs' = RemoveAt(srcs, i) /\ Rebuild(Clamped)

\* Mutant: the board keeps the preview that was discarded.
ExitKeepsPreview ==
  LET i == At(session.path)
  IN  /\ Idle /\ session # NoSession /\ session' = NoSession
      /\ IF i # 0 /\ session.new /\ ~Exists(session.path) THEN DropSource(i) ELSE UNCHANGED boards
      /\ UNCHANGED <<world, timers, map>>

ExitEdit ==
  LET i == At(session.path)
  IN  /\ Idle /\ session # NoSession /\ session' = NoSession
      /\ IF i = 0 THEN UNCHANGED boards
         ELSE IF session.new /\ ~Exists(session.path) THEN DropSource(i)
         ELSE /\ srcs' = IF Readable(session.path)
                         THEN [srcs EXCEPT ![i].cfg = disk[session.path].cfg] ELSE srcs
              /\ Publish({i})
      /\ UNCHANGED <<world, timers, map>>

\* An apply was kept: the tool has written the file, the session goes on from it.
ApplyKept ==
  /\ Idle /\ session.edited /\ changes < MaxChanges /\ changes' = changes + 1
  /\ disk' = [disk EXCEPT ![session.path] = [cfg |-> session.cfg, mtime |-> changes + 1,
                                             readable |-> TRUE]]
  /\ session' = [session EXCEPT !.new = FALSE, !.edited = FALSE]
  /\ IF At(session.path) = 0 THEN UNCHANGED boards
     ELSE /\ srcs' = [srcs EXCEPT ![At(session.path)].cfg = session.cfg]
          /\ Publish({At(session.path)})
  /\ UNCHANGED <<devs, tampered, timers, map>>

\* A delete was kept: remove_config_after_delete.
DeleteKept ==
  /\ Idle /\ session # NoSession /\ Exists(session.path)
  /\ disk' = [disk EXCEPT ![session.path] = Missing] /\ session' = NoSession
  /\ IF At(session.path) = 0 THEN UNCHANGED boards ELSE DropSource(At(session.path))
  /\ UNCHANGED <<devs, changes, tampered, timers, map>>

-----------------------------------------------------------------------------
(* The timers                                                              *)

\* Both are seeded with what they see when they are set up, not with what the
\* detection saw.
Start ==
  /\ ~started /\ started' = TRUE
  /\ last' = rescan(srcs, Connected(devs)).map
  /\ mtimes' = [p \in Named |-> IF Positions(p) = {} THEN 0 ELSE disk[p].mtime]
  /\ UNCHANGED <<world, boards, pending, map, session>>

\* Mutant: the file under the session is reloaded like every other.
DueAlways(i) == Exists(srcs[i].path) /\ mtimes[srcs[i].path] # disk[srcs[i].path].mtime

\* The file being edited is exempt; a missing one is being saved.
Due(i) ==
  /\ srcs[i].path # session.path
  /\ Exists(srcs[i].path) /\ mtimes[srcs[i].path] # disk[srcs[i].path].mtime

StampMtime(i) ==
  /\ Idle /\ i \in DOMAIN srcs /\ Due(i)
  /\ mtimes' = [mtimes EXCEPT ![srcs[i].path] = disk[srcs[i].path].mtime]
  /\ pending' = i
  /\ UNCHANGED <<world, boards, started, last, map, session>>

\* A read that fails leaves the board as it is, and is not tried again.
Reload ==
  /\ pending # 0 /\ pending' = 0
  /\ IF Readable(srcs[pending].path)
     THEN /\ srcs' = [srcs EXCEPT ![pending].cfg = disk[srcs[pending].path].cfg]
          /\ Publish({pending})
     ELSE UNCHANGED boards
  /\ UNCHANGED <<world, started, last, mtimes, map, session>>

\* Mutant: the ids are compared, not the boards they are on.
WatchIdsOnly ==
  Idle /\ {p[1] : p \in rescan(srcs, Connected(devs)).map} # {p[1] : p \in last}
WatchDue == Idle /\ rescan(srcs, Connected(devs)).map # last
WatchDevices ==
  LET m == rescan(srcs, Connected(devs))
  IN  /\ WatchDue /\ last' = m.map /\ map' = m.map
      /\ srcs' = [i \in DOMAIN srcs |-> [srcs[i] EXCEPT !.ids = m.per[i].ids,
                                                        !.label = m.per[i].label]]
      /\ Publish(DOMAIN srcs)
      /\ UNCHANGED <<world, started, mtimes, pending, session>>

-----------------------------------------------------------------------------

World ==
  \/ \E p \in Named : RemoveFile(p) \/ Permit(p) \/ \E c \in Contents : WriteFile(p, c)
  \/ \E i \in DOMAIN Devices : Plug(i)
User ==
  \/ \E i \in DOMAIN sheets : PickKeyboard(i)
  \/ \E i \in devs : KeyGoesDown(i)
  \/ OpenEdit \/ ExitEdit \/ ApplyKept \/ DeleteKept
  \/ \E b \in Bodies : Edit(b)
  \/ \E p \in Named, o \in Offers : CreateConfig(p, o[1], o[2])
ReloadTick == Reload \/ \E i \in DOMAIN srcs : StampMtime(i)

Next == World \/ User \/ Start \/ ReloadTick \/ WatchDevices
Spec == Init /\ [][Next]_vars

\* The timers repeat for as long as the window lives.  The last conjunct is
\* WF_vars(WatchDevices), its ENABLED written out as WatchDue.
FairSpec ==
  /\ Spec /\ WF_vars(Start) /\ WF_vars(ReloadTick)
  /\ []<>~WatchDue \/ []<><<WatchDevices>>_vars

-----------------------------------------------------------------------------
(* Properties                                                              *)

TypeOK ==
  /\ \A p \in Named : disk[p].mtime \in 0..MaxChanges /\ mtimes[p] \in 0..MaxChanges
  /\ devs \subseteq DOMAIN Devices /\ changes \in 0..MaxChanges /\ pending \in 0..Len(srcs)
  /\ \A i \in DOMAIN srcs : srcs[i].path \in Named
  /\ \A p \in map \union last : p[2] \in Nat \ {0}

\* What the window holds is what the sources say, after any callback or tick,
\* and of them it shows the one that is active ...
WindowShowsSources ==
  /\ sheets = srcs
  /\ srcs # <<>> => active \in DOMAIN srcs /\ shown = srcs[active]

\* ... and once the user has edited, the board is the preview, whatever the
\* timers do.
EditShowsPreview == session.edited => srcs[At(session.path)].cfg = session.cfg

\* No callback and no tick leaves the window with anything else than the
\* sources, nor the session with another board than its own.
BoardsAgree == TypeOK /\ WindowShowsSources /\ EditShowsPreview

\* Two sources are never of one file, so that a callback finds its board by
\* path ...
SameFile      == {srcs[i].path : i \in {j \in DOMAIN srcs : At(srcs[j].path) # j}}
PathsDistinct == SameFile \subseteq tampered

\* ... in any case: fails, the name of a file that was removed is free for a
\* new config while its board is still there.
OneBoardPerFile == SameFile = {}

\* The start and the device timer match the keyboards alike.
StartAgrees ==
  LET d == gather_sheets(Confs(disk), Connected(devs))
      m == rescan(d.srcs, Connected(devs))
  IN  /\ d.map = m.map
      /\ d.map # {} => \A i \in DOMAIN d.srcs : d.srcs[i].ids = m.per[i].ids
                                               /\ d.srcs[i].label = m.per[i].label

\* Whenever two configs claim a keyboard by its id, the start names them both.
ClashesAreReported ==
  LET s == Sections(Confs(disk))
  IN  \A k \in DOMAIN Devices : \A i, j \in Claiming(s, Devices[k].id) : i # j =>
        \E c \in find_conflicts(s) : {i, j} \subseteq c.configs /\ IsPrefix(c.id, Devices[k].id)

\* A config created for a keyboard on offer adds no clash to those there are.
CreatingMakesNoClash ==
  LET s == Sections(Confs(disk))
  IN  \A v \in ToSet(create_scan(Confs(disk), Connected(devs))) :
        find_conflicts(Append(s, Parse(<<[mark |-> "", pattern |-> v]>>))) = find_conflicts(s)

\* The four places that match keyboards against [ids] never contradict each
\* other: what is shown, what is watched, what is warned of, what is offered.
MatchersAgree == StartAgrees /\ ClashesAreReported /\ CreatingMakesNoClash

\* Every board comes to be that of its file, however often the file changes,
\* but for the one being edited and those whose file is gone ...
Follows(p) ==
  Readable(p) /\ p # session.path => \A i \in Positions(p) : srcs[i].cfg = disk[p].cfg
BoardsConverge == \A p \in Named : []<>(p \notin tampered => Follows(p))

\* ... whatever happens to the file: fails, a read that fails is not retried.
ReadsAreRetried == \A p \in Named : []<>Follows(p)

\* A key comes to be followed to the board of the config that governs its
\* keyboard, whatever is plugged, edited, created and deleted.
MapConverges == []<>(map = rescan(srcs, Connected(devs)).map)

\* The same of the labels: fails, they are refreshed when the map changes.
LabelsConverge ==
  []<>(\A i \in DOMAIN srcs : srcs[i].path # session.path =>
         srcs[i].label = rescan(srcs, Connected(devs)).per[i].label)
=============================================================================
