----------------------------- MODULE MCLiveCall ------------------------------
(* Instances of LiveCall for TLC. *)
EXTENDS LiveCall, TLC

CONSTANTS c1

In(op, start, end) ==
  [op |-> op, origin |-> "tool", client |-> c1, start |-> start, end |-> end,
   confirmed |-> TRUE, wellFormed |-> TRUE]

\* Two overlapping bookings, a cancellation and a move.
CallInputs ==
  {In("book", 2, 4), In("book", 1, 3),
   In("cancel", 0, 0), In("reschedule", 1, 3)}

\* The caller has an appointment already, which one booking overlaps.
CallEarlier == 3 :> [op |-> "book", origin |-> "tool", client |-> c1, start |-> 0,
                     end |-> 2, confirmed |-> TRUE, wellFormed |-> TRUE, target |-> 3]
=============================================================================
