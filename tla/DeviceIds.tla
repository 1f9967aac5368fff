----------------------------- MODULE DeviceIds -----------------------------
(***************************************************************************)
(* Which config governs which keyboard: the [ids] matching of              *)
(* core/src/ids.rs, and what detect.rs and create.rs decide with it.       *)
(*                                                                         *)
(* An id is a sequence of its parts, <<vendor, product>> for a device and  *)
(* any prefix of <<vendor, product, uid>> for a pattern; a line of [ids]   *)
(* is [mark, pattern], the mark being what parse strips from it.           *)
(***************************************************************************)
EXTENDS Naturals, Lists

Capabilities == {"full", "media", "any", "rel", "abs"}
Flags     == {"mouse", "keyboard", "trackpad", "key"}
Keyboard  == {"keyboard", "key"}
\* What keyd makes of the capabilities of an event node: every letter key,
\* some media key, any key at all, relative axes, absolute axes.
FlagsOf(caps) ==
  {f \in Flags : \/ f = "key" /\ caps \cap {"full", "media", "any"} # {}
                 \/ f = "keyboard" /\ caps \cap {"full", "media"} # {}
                 \/ f = "mouse" /\ caps \cap {"rel", "abs"} # {}
                 \/ f = "trackpad" /\ "abs" \in caps}

\* A keyboard as /proc/bus/input/devices has it.
IsDevice(d) ==
  /\ d.id = <<d.id[1], d.id[2]>>
  /\ \E caps \in SUBSET Capabilities : d.flags = FlagsOf(caps) /\ d.full = ("full" \in caps)

-----------------------------------------------------------------------------
(* One [ids] section                                                       *)

EntryOf(line) ==
  [exclude |-> line.mark = "-",
   flags   |-> {f \in Keyboard \union {"mouse"} :
                  /\ line.mark # "-"
                  /\ line.mark = "m:" => f = "mouse"
                  /\ line.mark = "k:" => f \in Keyboard},
   pattern |-> line.pattern]

Parse(lines) ==
  LET named == Among(lines, {l \in ToSet(lines) : l.mark # "*"})
  IN  [entries  |-> [i \in DOMAIN named |-> EntryOf(named[i])],
       wildcard |-> \E i \in DOMAIN lines : lines[i].mark = "*"]

\* The entries that end the scan for a device: a hit of the wrong type does not.
Hits(ids, id, flags) ==
  {i \in DOMAIN ids.entries :
     /\ IsPrefix(ids.entries[i].pattern, id)
     /\ ids.entries[i].exclude \/ ids.entries[i].flags \cap flags # {}}

IsFirst(i, S) == i \in S /\ \A j \in S : i <= j

match_device(ids, id, flags) ==
  LET hits == Hits(ids, id, flags)
  IN  IF \E i \in hits : IsFirst(i, hits) /\ ~ids.entries[i].exclude THEN "explicit"
      ELSE IF hits = {} /\ ids.wildcard /\ "keyboard" \in flags /\ "trackpad" \notin flags
           THEN "wildcard"
           ELSE "none"

Rank(kind) == IF kind = "explicit" THEN 2 ELSE IF kind = "wildcard" THEN 1 ELSE 0

-----------------------------------------------------------------------------
(* Clashes between sections                                                *)

explicit_candidates(ids) ==
  {ids.entries[i].pattern : i \in {j \in DOMAIN ids.entries :
     /\ ~ids.entries[j].exclude /\ ids.entries[j].pattern # <<>>
     /\ "keyboard" \in ids.entries[j].flags}}

Claiming(sections, id) ==
  {c \in DOMAIN sections : match_device(sections[c], id, Keyboard) = "explicit"}
Wild(sections) == {c \in DOMAIN sections : sections[c].wildcard}
Several(S)     == \E c, d \in S : c # d

\* Mutant: a section is asked for its own patterns only, not for those a
\* wider pattern of it covers.
OwnPatterns(sections) ==
  {[id |-> p, kind |-> "explicit",
    configs |-> {c \in DOMAIN sections : p \in explicit_candidates(sections[c])}] :
     p \in {q \in UNION {explicit_candidates(sections[c]) : c \in DOMAIN sections} :
              Several({c \in DOMAIN sections : q \in explicit_candidates(sections[c])})}}

find_conflicts(sections) ==
  {[id |-> p, kind |-> "explicit", configs |-> Claiming(sections, p)] :
     p \in {q \in UNION {explicit_candidates(sections[c]) : c \in DOMAIN sections} :
              Several(Claiming(sections, q))}}
  \union (IF Several(Wild(sections))
          THEN {[id |-> <<"*">>, kind |-> "wildcard", configs |-> Wild(sections)]} ELSE {})

-----------------------------------------------------------------------------
(* Sheets for the connected devices                                        *)

VirtualVendor == "0fac"
NoLabel       == [name |-> "", more |-> 0]
WildcardLabel == [name |-> "all keyboards", more |-> 0]

Distinct(s) == FoldLeft(LAMBDA seen, x : IF Contains(seen, x) THEN seen ELSE Append(seen, x),
                        <<>>, s)
IdsOf(devs) == Distinct([i \in DOMAIN devs |-> devs[i].id])

\* One name for each keyboard, whatever event nodes it has.
device_label(devs) ==
  LET real     == SelectSeq(devs, LAMBDA d : d.full /\ d.id[1] # VirtualVendor)
      named    == SelectSeq(real, LAMBDA d : d.name # "")
      boards   == SelectSeq(IdsOf(real), LAMBDA v : Contains(IdsOf(named), v))
      NameOf(v) == SelectSeq(named, LAMBDA d : d.id = v)[1].name
  IN  IF boards = <<>> THEN NoLabel
      ELSE [name |-> NameOf(boards[1]), more |-> Len(boards) - 1]

config_label(ids, devs) ==
  LET explicit == SelectSeq(devs, LAMBDA d : match_device(ids, d.id, d.flags) = "explicit")
  IN  IF explicit # <<>> THEN device_label(explicit)
      ELSE IF ids.wildcard THEN WildcardLabel ELSE NoLabel

\* The section that governs a device: the first of those that match best.
Best(sections, d) ==
  LET ranks == {<<c, Rank(match_device(sections[c], d.id, d.flags))>> : c \in DOMAIN sections}
      best  == {p[1] : p \in {q \in ranks : q[2] > 0 /\ \A r \in ranks : r[2] <= q[2]}}
  IN  IF best = {} THEN 0 ELSE CHOOSE c \in best : IsFirst(c, best)

GovernedDevices(best) == {<<p[1].id, p[2]>> : p \in {q \in best : q[2] # 0}}

\* What each section governs, and the first section each id is governed by.
Matching(sections, devs) ==
  LET best  == {<<d, Best(sections, d)>> : d \in ToSet(devs)}
      of(c) == Among(devs, {p[1] : p \in {q \in best : q[2] = c}})
      on    == GovernedDevices(best)
  IN  [per |-> [c \in DOMAIN sections |-> [ids |-> IdsOf(of(c)),
                                           label |-> config_label(sections[c], of(c))]],
       map |-> {p \in on : \A q \in on : q[1] = p[1] => p[2] <= q[2]}]

Sections(confs) == [c \in DOMAIN confs |-> Parse(confs[c].cfg.ids)]

\* rescan: the same over the sources that are shown.
rescan(srcs, devs) == Matching(Sections(srcs), devs)

Source(conf, ids, label) == [path |-> conf.path, cfg |-> conf.cfg, ids |-> ids, label |-> label]

\* A map over the configs as one over those of them that are shown.
Renumbered(map, order) == {<<p[1], CHOOSE i \in DOMAIN order : order[i] = p[2]>> : p \in map}

\* gather_sheets, for the files of /etc/keyd: those that govern a connected
\* device, or all of them when none does.
gather_sheets(confs, devs) ==
  LET m     == Matching(Sections(confs), devs)
      used  == {c \in DOMAIN confs : m.per[c].ids # <<>>}
      order == Among([c \in DOMAIN confs |-> c], used)
  IN  IF used = {}
      THEN [srcs |-> [c \in DOMAIN confs |-> Source(confs[c], <<>>, NoLabel)], map |-> {}]
      ELSE [srcs |-> [i \in DOMAIN order |->
                        Source(confs[order[i]], m.per[order[i]].ids, m.per[order[i]].label)],
            map  |-> Renumbered(m.map, order)]

-----------------------------------------------------------------------------
(* A config for a keyboard that has none                                   *)

is_create_candidate(d) == d.full /\ d.id[1] # VirtualVendor /\ "mouse" \notin d.flags

Governed(confs, d) ==
  \E c \in DOMAIN confs : match_device(Sections(confs)[c], d.id, d.flags) = "explicit"

create_scan(confs, devs) ==
  IdsOf(Among(devs, {d \in ToSet(devs) : is_create_candidate(d) /\ ~Governed(confs, d)}))
=============================================================================
