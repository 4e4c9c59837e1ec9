------------------------------ MODULE EventList ------------------------------
(***************************************************************************)
(* The event list of the ns-3 simulator, as the devices of src/ use it:    *)
(* events are served in the order of their time and, at one time, in the   *)
(* order in which they were scheduled.  `in' is the delay from now.        *)
(***************************************************************************)
EXTENDS SequenceSums

Event(delay, name, arg) == [in |-> delay, event |-> name, arg |-> arg]

\* Simulator::Schedule: after every event that is not later.
Schedule(list, event) ==
  LET earlier == Cardinality({i \in DOMAIN list : list[i].in <= event.in})
  IN  InsertAt(list, earlier + 1, event)
ScheduleAll(list, events) == FoldLeft(Schedule, list, events)

\* The head of the list is a `name' event whose time has come.
HeadIsDue(list, name) ==
  /\ list # <<>>
  /\ Head(list).event = name
  /\ Head(list).in = 0

\* The list when `ticks' have passed.
Later(list, ticks) == [i \in DOMAIN list |-> [list[i] EXCEPT !.in = @ - ticks]]

InTimeOrder(list) ==
  \A i \in DOMAIN list :
    list[i].in \in Nat /\ (i > 1 => list[i - 1].in <= list[i].in)
=============================================================================
