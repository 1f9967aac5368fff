----------------------------- MODULE LayerStack -----------------------------
(***************************************************************************)
(* The live events and the reducer that turns layer transitions into the   *)
(* stack of active layers: core/src/live.rs.  A transition is `on' or      *)
(* `off' of a layer; `layout' changes nothing anyone reads and is left     *)
(* out.  A key goes `down' or comes `up'.                                  *)
(***************************************************************************)
EXTENDS SequencesExt

On(l)   == [act |-> "on", name |-> l]
Off(l)  == [act |-> "off", name |-> l]
Down(k) == [act |-> "down", name |-> k]
Up(k)   == [act |-> "up", name |-> k]

\* What keyd says first: the layers that are on, in some order.
Ons(order) == [i \in DOMAIN order |-> On(order[i])]

IsLayer(ev) == ev.act \in {"on", "off"}

\* Vec::retain(|x| x != e), for a list of anything.
Without(seq, e) ==
  FoldLeft(LAMBDA kept, x : IF x = e THEN kept ELSE Append(kept, x), <<>>, seq)

\* ActiveLayers::apply: most recent last, a layer that is on stays where it is.
ApplyLayer(stack, ev) ==
  IF ev.act = "off" THEN Without(stack, ev.name)
  ELSE IF Contains(stack, ev.name) THEN stack ELSE Append(stack, ev.name)

\* The stack after a run of events, of which the key events do not count.
LayerStep(stack, ev) == IF IsLayer(ev) THEN ApplyLayer(stack, ev) ELSE stack
Reduce(stack, evs)   == FoldLeft(LayerStep, stack, evs)

\* What is held after a run of events (next_press_state on one board), of which
\* the layer events do not count.
PressKey(held, ev) ==
  IF ev.act = "down" THEN held \union {ev.name} ELSE held \ {ev.name}

KeyStep(held, ev)   == IF IsLayer(ev) THEN held ELSE PressKey(held, ev)
PressAll(held, evs) == FoldLeft(KeyStep, held, evs)

\* A stack without repetitions.
Stacks(S) == {s \in SeqOf(S, Cardinality(S)) : IsInjective(s)}

=============================================================================
