------------------------------- MODULE Slots --------------------------------
(***************************************************************************)
(* find_available_slots: one free/busy query over the search window, then  *)
(* a walk over fixed positions of each day's business hours.  Instants are *)
(* counted from midnight of the day the search starts, in one time zone    *)
(* without clock changes; an offered slot is named by its start.           *)
(***************************************************************************)
EXTENDS Sequences, Integers

CONSTANTS
  Day,         \* length of a day
  Open, Close, \* business_hours_start, business_hours_end
  MaxResults,  \* max_results
  Froms,       \* the times of day a search may start at
  Lengths,     \* search_days, any integer: nobody checks it
  Durations,   \* appointment lengths, unchecked as well; 0 only as the default
  Diaries      \* the calendars a search may meet: sets of [start, end]

ASSUME HoursAssumption ==
  /\ Day \in Nat \ {0} /\ Open \in 0..(Day - 1) /\ Close \in 0..(Day - 1)
  /\ MaxResults \in Nat
ASSUME SearchAssumption ==
  /\ Froms \subseteq 0..(Day - 1) /\ Lengths \subseteq Int /\ Durations \subseteq Int
  /\ \A diary \in Diaries : diary \subseteq [start : Int, end : Int]

VARIABLES
  diary,       \* the calendar at the time of the query
  from, until, \* search_from, search_until
  duration,
  busy,        \* what list_busy_slots returned
  day,         \* the opening of the day being walked
  slot,        \* slot_start
  offered,     \* candidates
  pc

search == <<diary, from, until, duration>>
vars == <<diary, from, until, duration, busy, day, slot, offered, pc>>

\* Do the slot at s and a calendar entry overlap?
Meets(s, entry) == s < entry.end /\ s + duration > entry.start

\* ~_overlaps_any
Free(s, entries) == \A e \in entries : ~Meets(s, e)

\* A mutant: the search may start before search_from.
FirstDayToday == Open

\* Today if the doors are not open yet, tomorrow otherwise.
FirstDay == IF Open < from THEN Open + Day ELSE Open

Closing == day + (Close - Open)

\* A mutant: the last slot may run over the closing time.
FitsLoosely == slot < Closing

Fits == slot + duration <= Closing

\* A mutant: one result too many.
RoomForOneMore == Len(offered) <= MaxResults

Room == Len(offered) < MaxResults

\* A mutant: busy entries only count when they lie within the window.
FetchedInside ==
  {e \in diary : e.start >= from /\ e.end <= until}

\* The free/busy query returns what touches the window.
Fetched == {e \in diary : e.start < until /\ e.end > from}

Query ==
  /\ pc = "query"
  /\ busy' = Fetched
  /\ day' = FirstDay
  /\ pc' = "day"
  /\ UNCHANGED <<search, slot, offered>>

QueryFails ==
  /\ pc = "query"
  /\ pc' = "failed"
  /\ UNCHANGED <<search, busy, day, slot, offered>>

StartDay ==
  /\ pc = "day" /\ day < until /\ Room
  /\ slot' = day
  /\ pc' = "slot"
  /\ UNCHANGED <<search, busy, day, offered>>

\* A mutant: an offered slot also blocks the position after it.
TrySlotSkipping ==
  /\ pc = "slot" /\ Fits /\ Room
  /\ offered' = IF Free(slot, busy) THEN Append(offered, slot) ELSE offered
  /\ slot' = slot + (IF Free(slot, busy) THEN 2 * duration ELSE duration)
  /\ UNCHANGED <<search, busy, day, pc>>

\* A mutant: a busy position is tried again and again.
TrySlotStuck ==
  /\ pc = "slot" /\ Fits /\ Room
  /\ offered' = IF Free(slot, busy) THEN Append(offered, slot) ELSE offered
  /\ slot' = IF Free(slot, busy) THEN slot + duration ELSE slot
  /\ UNCHANGED <<search, busy, day, pc>>

TrySlot ==
  /\ pc = "slot" /\ Fits /\ Room
  /\ offered' = IF Free(slot, busy) THEN Append(offered, slot) ELSE offered
  /\ slot' = slot + duration
  /\ UNCHANGED <<search, busy, day, pc>>

EndDay ==
  /\ pc = "slot" /\ ~(Fits /\ Room)
  /\ day' = day + Day
  /\ pc' = "day"
  /\ UNCHANGED <<search, busy, slot, offered>>

Finish ==
  /\ pc = "day" /\ ~(day < until /\ Room)
  /\ pc' = "done"
  /\ UNCHANGED <<search, busy, day, slot, offered>>

Init ==
  /\ diary \in Diaries
  /\ from \in Froms
  /\ \E days \in Lengths : until = from + days * Day
  /\ duration \in Durations
  /\ busy = {} /\ day = 0 /\ slot = 0 /\ offered = <<>> /\ pc = "query"

Step == Query \/ QueryFails \/ StartDay \/ TrySlot \/ EndDay \/ Finish

Next == Step

Spec == Init /\ [][Next]_vars

FairSpec == Spec /\ WF_vars(Step)

-----------------------------------------------------------------------------
(* Properties *)

\* Every variable keeps its shape.
TypeOK ==
  /\ diary \subseteq [start : Int, end : Int] /\ busy \subseteq diary
  /\ from \in 0..(Day - 1) /\ until \in Int /\ duration \in Int
  /\ day \in Nat /\ slot \in Int
  /\ offered \in Seq(Int) /\ Len(offered) <= MaxResults
  /\ pc \in {"query", "day", "slot", "done", "failed"}

\* A slot offered inside the search window is free in the calendar, whatever its
\* length and whatever entry straddles the edges of the window or of the slot.
OfferedIsFree ==
  \A k \in DOMAIN offered :
    offered[k] >= from /\ offered[k] + duration <= until => Free(offered[k], diary)

\* In the business hours of one day, not before the search starts.
InHours(s) ==
  /\ s >= from
  /\ \E n \in 0..until : n * Day + Open <= s /\ s + duration <= n * Day + Close

\* Every slot offered to someone who asks for a positive duration starts after the
\* search does and fits the business hours of its day, the first and the last day
\* of the window included.
OfferedInHours == duration > 0 => \A k \in DOMAIN offered : InHours(offered[k])

\* The reference: every position of the daily grid, of the days that open
\* inside the window.
Grid ==
  {s \in 0..(until + Day) :
     LET opening == (s \div Day) * Day + Open
     IN /\ opening \in from..(until - 1)
        /\ s >= opening /\ s + duration <= opening + (Close - Open)
        /\ (s - opening) % duration = 0}

\* Nothing free is passed over: a finished search for a positive duration offers
\* the earliest free positions of the grid, up to the limit, each once and in order.
NothingPassedOver ==
  pc = "done" /\ duration > 0 =>
    LET free == {s \in Grid : Free(s, busy)}
        Offered == {offered[k] : k \in DOMAIN offered}
    IN /\ Offered \subseteq free
       /\ Room => Offered = free
       /\ \A s \in free \ Offered, t \in Offered : t < s
       /\ \A j, k \in DOMAIN offered : j < k => offered[j] < offered[k]

\* The search ends, however long the window and full the calendar, walking forward
\* or, for a negative duration, back past everything the calendar holds.  (With a
\* default of 0 minutes it never leaves a busy position.)
SearchEnds == duration # 0 => <>(pc \in {"done", "failed"})

-----------------------------------------------------------------------------
(* What the documentation says and the code does not do *)

\* The tool's description: slots are open.  The last day of the window is walked
\* to its closing time, past the instant up to which the calendar was asked.
OfferedIsOpen == \A k \in DOMAIN offered : Free(offered[k], diary)

=============================================================================
