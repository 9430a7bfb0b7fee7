-------------------------- MODULE AppointmentBook --------------------------
(***************************************************************************)
(* The life of an appointment as the booking service lets it happen, each  *)
(* change of the table or of the calendar one atomic step: it is booked    *)
(* once, with its slot held in the calendar; it moves while its row is     *)
(* active; its slot is given up before it is cancelled, and never held     *)
(* again.  A cancelled appointment may come back, but without a slot:      *)
(* rescheduling it is not refused.                                         *)
(***************************************************************************)
EXTENDS Integers

CONSTANTS Ids,    \* the appointments
          Times   \* the instants an appointment may start or end at

VARIABLE book     \* the life of each appointment

Slot == {t \in Times \X Times : t[1] < t[2]}

Free == [state |-> "free"]
Cancelled == [state |-> "cancelled"]
Standing(held, s) == [state |-> IF held THEN "booked" ELSE "unheld",
                      start |-> s[1], end |-> s[2]]

Become(a, entry) == book' = [book EXCEPT ![a] = entry]

Book(a) == book[a] = Free /\ \E s \in Slot : Become(a, Standing(TRUE, s))

Move(a) == \/ book[a].state = "booked" /\ \E s \in Slot : Become(a, Standing(TRUE, s))
           \/ book[a].state = "unheld" /\ \E s \in Slot : Become(a, Standing(FALSE, s))

\* The calendar half of a cancellation, which may be all of it.
Release(a) == book[a].state = "booked"
              /\ Become(a, Standing(FALSE, <<book[a].start, book[a].end>>))

Cancel(a) == book[a].state = "unheld" /\ Become(a, Cancelled)

Revive(a) == book[a] = Cancelled /\ \E s \in Slot : Become(a, Standing(FALSE, s))

Init == book = [a \in Ids |-> Free]

Next == \E a \in Ids : Book(a) \/ Move(a) \/ Release(a) \/ Cancel(a) \/ Revive(a)

Spec == Init /\ [][Next]_book
=============================================================================
