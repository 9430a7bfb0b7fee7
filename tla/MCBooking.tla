----------------------------- MODULE MCBooking -----------------------------
(* Instances of Booking for TLC. *)
EXTENDS Booking, TLC

CONSTANTS r1, r2, r3, r4, c1, c2

In(op, origin, client, start, end, confirmed, wellFormed) ==
  [op |-> op, origin |-> origin, client |-> client, start |-> start, end |-> end,
   confirmed |-> confirmed, wellFormed |-> wellFormed]

\* Two overlapping slots and an empty one; both origins; a caller who did not
\* confirm; a tool call that names another caller's appointment.
CoreInputs ==
  {In("book", "rest", c1, 0, 2, TRUE, TRUE),
   In("book", "tool", c1, 1, 3, TRUE, TRUE),
   In("book", "tool", c2, 0, 2, TRUE, TRUE),
   In("book", "rest", c1, 1, 1, TRUE, TRUE),
   In("cancel", "rest", c1, 0, 0, TRUE, TRUE),
   In("cancel", "tool", c1, 0, 0, FALSE, TRUE),
   In("cancel", "tool", c2, 0, 0, TRUE, TRUE),
   In("reschedule", "rest", c1, 1, 3, TRUE, TRUE),
   In("reschedule", "tool", c1, 2, 2, TRUE, TRUE),
   In("reschedule", "tool", c1, 0, 3, TRUE, FALSE)}

\* Two adjacent bookings, a reschedule that overlaps both, a repeated booking.
RepeatInputs ==
  {In("book", "rest", c1, 0, 2, TRUE, TRUE),
   In("book", "rest", c1, 2, 4, TRUE, TRUE),
   In("reschedule", "rest", c1, 1, 3, TRUE, TRUE)}

Symmetry == Permutations(Requests)
=============================================================================
