------------------------------ MODULE MCSlots -------------------------------
(* Instances of Slots for TLC: two days of six units, open from 1 to 5. *)
EXTENDS Slots, FiniteSets

Entries == {[start |-> s, end |-> e] : s \in 0..11, e \in 1..12}

\* Up to two entries of any length, overnight ones included.
TwoEntries ==
  LET proper == {e \in Entries : e.start < e.end}
  IN {{e, f} : e, f \in proper} \union {{}}

\* Windows and durations of either sign.
AnyLengths == {-1, 1, 2}
AnyDurations == {-2, 0, 1, 2, 3}
=============================================================================
