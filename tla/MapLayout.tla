------------------------------ MODULE MapLayout ------------------------------
(***************************************************************************)
(* Where the grants of a MAP lie: CmtsUpstreamScheduler::ScheduleGrant     *)
(* places the allocated minislots around the PGS grants, BuildMapMessage   *)
(* encodes the placement as information elements, and the cable modem's    *)
(* HandleMapMsg decodes them.  A grant list is a sequence ordered by       *)
(* offset, as the std::map of the code keeps it.                           *)
(***************************************************************************)
EXTENDS SequenceSums

CONSTANT MinislotsPerMap

Classic == "classic"
LowLatency == "lowLatency"
NoFlow == "none"           \* SFID 0 of a null information element

Grant(sfid, offset, length) == [sfid |-> sfid, offset |-> offset, length |-> length]
End(grant) == grant.offset + grant.length
SumOfLengths(list) == SumSeq([i \in DOMAIN list |-> list[i].length])

\* A grant, if it has minislots.
GrantIfAny(sfid, offset, length) ==
  IF length = 0 THEN <<>> ELSE <<Grant(sfid, offset, length)>>

-----------------------------------------------------------------------------
(* ScheduleGrant, when PGS grants are there.                               *)

\* Mutant: the last grant may grow past the end of the MAP.
SpaceAfterUnbounded(list, i) ==
  IF i = Len(list) THEN MinislotsPerMap ELSE list[i + 1].offset - End(list[i])

\* Minislots between grant i and the next one, or the end of the MAP.
SpaceAfter(list, i) ==
  (IF i = Len(list) THEN MinislotsPerMap ELSE list[i + 1].offset) - End(list[i])

\* Append up to `extra' minislots to the PGS grants, the earliest first.
Spaces(pgsGrants) == [i \in DOMAIN pgsGrants |-> SpaceAfter(pgsGrants, i)]
Extend(pgsGrants, extra) ==
  LET more == Dealt(Spaces(pgsGrants), extra)
  IN  [left |-> Undealt(Spaces(pgsGrants), extra),
       list |-> [i \in DOMAIN pgsGrants |->
                   [pgsGrants[i] EXCEPT !.length = @ + more[i]]]]

\* The free stretches of a MAP: before each grant, and after the last.
Holes(list) ==
  LET from(i) == IF i = 1 THEN 0 ELSE End(list[i - 1])
      to(i)   == IF i > Len(list) THEN MinislotsPerMap ELSE list[i].offset
  IN  [i \in 1..Len(list) + 1 |-> [offset |-> from(i), length |-> to(i) - from(i)]]

\* Grant `minislots' to sfid in the free stretches, in their order.  What does
\* not fit is left; the code aborts on it.
Fill(list, sfid, minislots) ==
  LET holes == Holes(list)
      rooms == [i \in DOMAIN holes |-> holes[i].length]
      taken == Dealt(rooms, minislots)
      stretch(i) == GrantIfAny(sfid, holes[i].offset, taken[i])
                      \o (IF i > Len(list) THEN <<>> ELSE <<list[i]>>)
  IN  [left |-> Undealt(rooms, minislots),
       list |-> FlattenSeq([i \in DOMAIN holes |-> stretch(i)])]

PlaceAroundPgs(pgsGrants, cMinislots, lMinislots) ==
  LET extra    == Max({lMinislots - SumOfLengths(pgsGrants), 0})
      extended == Extend(pgsGrants, extra)
      low      == Fill(extended.list, LowLatency, extended.left)
      classic  == Fill(low.list, Classic, cMinislots)
  IN  [left |-> low.left + classic.left, list |-> classic.list]

-----------------------------------------------------------------------------
(* ScheduleGrant, without PGS grants: both back to back from a random start.*)

Starts(cMinislots, lMinislots) == 0..MinislotsPerMap - (cMinislots + lMinislots)

PlaceFrom(start, cMinislots, lMinislots) ==
  [left |-> 0,
   list |-> GrantIfAny(LowLatency, start, lMinislots)
              \o GrantIfAny(Classic, start + lMinislots, cMinislots)]

\* The grant lists ScheduleGrant may produce.
ScheduleGrant(pgsGrants, cMinislots, lMinislots) ==
  IF SumOfLengths(pgsGrants) > 0
  THEN {PlaceAroundPgs(pgsGrants, cMinislots, lMinislots)}
  ELSE {PlaceFrom(start, cMinislots, lMinislots) : start \in Starts(cMinislots, lMinislots)}

-----------------------------------------------------------------------------
(* The information elements of a MAP.                                      *)

Ie(sfid, offset) == [sfid |-> sfid, offset |-> offset]

\* Mutant: no null element between two grants.
BuildMapIesUnseparated(list) ==
  IF list = <<>> THEN <<>>
  ELSE [i \in DOMAIN list |-> Ie(list[i].sfid, list[i].offset)]
         \o <<Ie(NoFlow, End(Last(list)))>>

\* BuildMapMessage: a grant ends where the next element starts, so a null
\* element stands wherever no grant follows at once.
BuildMapIes(list) ==
  IF list = <<>> THEN <<>>
  ELSE LET lead == IF list[1].offset > 0 THEN <<Ie(NoFlow, 0)>> ELSE <<>>
           adjacent(i) == i < Len(list) /\ list[i + 1].offset = End(list[i])
           element(i) == <<Ie(list[i].sfid, list[i].offset)>>
                           \o (IF adjacent(i) THEN <<>> ELSE <<Ie(NoFlow, End(list[i]))>>)
       IN  lead \o FlattenSeq([i \in DOMAIN list |-> element(i)])

\* HandleMapMsg: the grants that the elements stand for.
UnpackMapIes(ies) ==
  LET minislots(i) == ies[i + 1].offset - ies[i].offset
  IN  FlattenSeq([i \in 1..Len(ies) - 1 |->
                    IF ies[i].sfid = NoFlow THEN <<>>
                    ELSE <<Grant(ies[i].sfid, ies[i].offset, minislots(i))>>])

-----------------------------------------------------------------------------
(* What a layout promises.                                                 *)

\* Grants lie in the MAP interval, in order, and no two share a minislot.
WellPlaced(list) ==
  /\ \A i \in DOMAIN list : list[i].length > 0 /\ End(list[i]) <= MinislotsPerMap
  /\ \A i, j \in DOMAIN list : i < j => End(list[i]) <= list[j].offset

GrantedTo(list, sfid) ==
  SumSeq([i \in DOMAIN list |-> IF list[i].sfid = sfid THEN list[i].length ELSE 0])
=============================================================================
