----------------------------- MODULE SequenceSums -----------------------------
(***************************************************************************)
(* Sums over sequences, and an amount dealt out to a sequence of rooms,    *)
(* the first ones first: the byte counters of the devices and the          *)
(* placement of a MAP's grants are built from them.                        *)
(***************************************************************************)
EXTENDS Integers, Sequences, SequencesExt, FiniteSetsExt

SumSeq(s) == FoldSeq(LAMBDA x, y : x + y, 0, s)

\* What remains of `amount' when the rooms are filled.
Undealt(rooms, amount) == Max({amount - SumSeq(rooms), 0})

\* What each room is given, as much as it holds and the rooms before it leave.
Dealt(rooms, amount) ==
  [i \in DOMAIN rooms |-> Min({rooms[i], Undealt(SubSeq(rooms, 1, i - 1), amount)})]
=============================================================================
