------------------------------ MODULE Booking ------------------------------
(***************************************************************************)
(* The booking service: requests that book, cancel and reschedule          *)
(* appointments, from the REST API or from a voice call's tools, over two  *)
(* stores that share no transaction: the appointments table and the        *)
(* external calendar.                                                      *)
(*                                                                         *)
(* A request is a coroutine.  Its steps here are the pieces of code        *)
(* between two awaits, so any two requests interleave at every database,   *)
(* calendar and notification call, and a request may fail, or be           *)
(* cancelled, at each of them.                                             *)
(*                                                                         *)
(* The row a request inserts and the calendar event it creates are named   *)
(* after the request: fresh ids, drawn by uuid4 and by the calendar.       *)
(***************************************************************************)
EXTENDS Integers

CONSTANTS
  Requests,  \* the requests that may arrive, at most one row and event each
  Clients,   \* phone numbers (unique in the clients table)
  Inputs,    \* what a request may ask for
  SmsTo,     \* the clients an SMS provider is configured for
  EmailTo,   \* the clients with an email address and an email provider
  None       \* absence of a row, of a request, of a loaded object

Input == [op : {"book", "cancel", "reschedule"}, origin : {"rest", "tool"},
          client : Clients, start : Int, end : Int,
          confirmed : BOOLEAN, wellFormed : BOOLEAN]

Statuses == {"confirmed", "rescheduled", "cancelled"}

Row == [client : Clients, start : Int, end : Int, status : Statuses]

\* A request: an input and the appointment it is about (its own, for a booking).
Request == [op : {"book", "cancel", "reschedule"}, origin : {"rest", "tool"},
            client : Clients, start : Int, end : Int,
            confirmed : BOOLEAN, wellFormed : BOOLEAN, target : Requests]

ASSUME InputsAssumption == Inputs \subseteq Input
ASSUME ReachAssumption == SmsTo \subseteq Clients /\ EmailTo \subseteq Clients
ASSUME NoneAssumption == None \notin Row /\ None \notin Request

VARIABLES
  clients,   \* the phone numbers with a row in the clients table
  rows,      \* the appointments table: committed rows
  events,    \* the external calendar
  pc,        \* the await each request is at, or the answer it got
  req,       \* what each request asked
  loaded,    \* the status and times of the ORM object a request loaded
  told,      \* the confirmations sent for a booking
  seen,      \* ghost: the rows in the table when a booking looked for overlaps
  effects,   \* ghost: the stores each request has changed
  raced      \* ghost: appointments two requests worked on at the same time

vars == <<clients, rows, events, pc, req, loaded, told, seen, effects, raced>>

Steps == {"idle", "client", "newClient", "check", "load", "calendar", "detached",
          "commit", "refresh", "sms", "email"}

Answers == {"ok", "duplicate", "conflict", "refused", "notFound",
            "calendarError", "raised", "abandoned"}

-----------------------------------------------------------------------------
(* Helpers *)

Active(row) == row # None /\ row.status # "cancelled"

\* starts_at < end AND ends_at > start, the filter of the overlap query.
Overlap(a, b) == a.start < b.end /\ a.end > b.start

SameTime(a, b) == a.start = b.start /\ a.end = b.end

\* A mutant: only an identical slot counts as an overlap.
OverlappingExactOnly(r) ==
  {a \in Requests : Active(rows[a]) /\ rows[a].client = req[r].client
                                    /\ SameTime(rows[a], req[r])}

\* The client's own active rows overlapping the requested time.
Overlapping(r) ==
  {a \in Requests : Active(rows[a]) /\ rows[a].client = req[r].client
                                    /\ Overlap(rows[a], req[r])}

\* A mutant: the tool does not look at caller_confirmed.
RefusedIgnoringConsent(in) == in.origin = "tool" /\ ~in.wellFormed

\* A tool call that stops before touching anything: invalid arguments, a naive
\* datetime, or no explicit confirmation by the caller.
Refused(in) == in.origin = "tool" /\ ~(in.wellFormed /\ in.confirmed)

Goto(r, step) == pc' = [pc EXCEPT ![r] = step]

-----------------------------------------------------------------------------
(* Receiving a request *)

\* A voice call's tools are bound to a client that exists since the call was
\* set up; a REST booking names a phone number.
Receive(r) ==
  /\ pc[r] = "idle"
  /\ \E in \in Inputs, t \in Requests :
       /\ in.op = "book" <=> t = r
       /\ in.origin = "tool" => in.client \in clients
       /\ req' = [req EXCEPT ![r] =
                    [op |-> in.op, origin |-> in.origin, client |-> in.client,
                     start |-> in.start, end |-> in.end, confirmed |-> in.confirmed,
                     wellFormed |-> in.wellFormed, target |-> t]]
       /\ Goto(r, IF Refused(in) THEN "refused"
                  ELSE IF in.op # "book" THEN "load"
                  ELSE IF in.origin = "rest" THEN "client" ELSE "check")
  /\ UNCHANGED <<clients, rows, events, loaded, told, seen, effects, raced>>

\* get_or_create_client: SELECT by phone number ...
LookupClient(r) ==
  /\ pc[r] = "client"
  /\ Goto(r, IF req[r].client \in clients THEN "check" ELSE "newClient")
  /\ UNCHANGED <<clients, rows, events, req, loaded, told, seen, effects, raced>>

\* ... then INSERT and commit: the unique index fails the second of two inserts.
CreateClient(r) ==
  /\ pc[r] = "newClient"
  /\ clients' = clients \union {req[r].client}
  /\ Goto(r, IF req[r].client \in clients THEN "raised" ELSE "check")
  /\ UNCHANGED <<rows, events, req, loaded, told, seen, effects, raced>>

\* The overlap guard of book_appointment.  The query has no ORDER BY: when
\* several rows overlap, first() may return any of them.
FindOverlap(r) ==
  /\ pc[r] = "check"
  /\ \/ /\ Overlapping(r) = {}
        /\ Goto(r, "calendar")
     \/ \E a \in Overlapping(r) :
          Goto(r, IF SameTime(rows[a], req[r]) THEN "duplicate" ELSE "conflict")
  /\ seen' = [seen EXCEPT ![r] = {a \in Requests : rows[a] # None}]
  /\ UNCHANGED <<clients, rows, events, req, loaded, told, effects, raced>>

\* db_session.get(Appointment, id); a tool also requires the caller's own row.
Found(r) ==
  /\ rows[req[r].target] # None
  /\ req[r].origin = "tool" => rows[req[r].target].client = req[r].client

\* A mutant: the tool does not compare the row's client with the caller.
FoundAnyClient(r) == rows[req[r].target] # None

\* Between its load and its commit a cancel or reschedule holds a copy of the row.
Holds(r, a) ==
  /\ pc[r] \in {"calendar", "detached", "commit"}
  /\ req[r].op # "book" /\ req[r].target = a

Load(r) ==
  /\ pc[r] = "load"
  /\ LET a == req[r].target IN
       /\ loaded' = IF Found(r)
                    THEN [loaded EXCEPT ![r] = [start |-> rows[a].start, end |-> rows[a].end,
                                                status |-> rows[a].status]]
                    ELSE loaded
       /\ Goto(r, IF Found(r) THEN "calendar" ELSE "notFound")
       /\ raced' = IF Found(r) /\ \E q \in Requests : Holds(q, a)
                   THEN raced \union {a} ELSE raced
  /\ UNCHANGED <<clients, rows, events, req, told, seen, effects>>

-----------------------------------------------------------------------------
(* The calendar call: insert, delete or patch, run in a worker thread *)

\* A mutant: rescheduling inserts the event anew instead of patching it.
CalendarEffectRecreating(r) ==
  /\ events' = [events EXCEPT ![req[r].target] =
                  IF req[r].op = "cancel" THEN [@ EXCEPT !.state = "deleted"]
                  ELSE [state |-> "live", start |-> req[r].start, end |-> req[r].end]]
  /\ effects' = [effects EXCEPT ![r] = @ \union {"calendar"}]

\* What an accepted call does to the calendar.  Nothing looks at the state of the
\* event first, and no contract says what a calendar does with a deleted one: it
\* may refuse the call (CalendarFails) or accept it, and then the event stays
\* deleted: a delete has nothing left to do, a patch names the times and no status.
CalendarEffect(r) ==
  /\ events' = [events EXCEPT ![req[r].target] =
                  CASE req[r].op = "book" ->
                         [state |-> "live", start |-> req[r].start, end |-> req[r].end]
                    [] req[r].op = "cancel" -> [@ EXCEPT !.state = "deleted"]
                    [] req[r].op = "reschedule" ->
                         [@ EXCEPT !.start = req[r].start, !.end = req[r].end]]
  /\ effects' = [effects EXCEPT ![r] = @ \union {"calendar"}]

CalendarOk(r) ==
  /\ pc[r] = "calendar"
  /\ CalendarEffect(r)
  /\ Goto(r, "commit")
  /\ UNCHANGED <<clients, rows, req, loaded, told, seen, raced>>

\* Any exception of the client library becomes a CalendarError: refused by the
\* calendar, or accepted with the response lost.
CalendarFails(r) ==
  /\ pc[r] = "calendar"
  /\ \/ UNCHANGED <<events, effects>>
     \/ CalendarEffect(r)
  /\ Goto(r, "calendarError")
  /\ UNCHANGED <<clients, rows, req, loaded, told, seen, raced>>

\* Cancelling the coroutine (a barge-in, a dying worker) does not stop the
\* thread asyncio.to_thread started: the call goes on with nobody waiting.
Detach(r) ==
  /\ pc[r] = "calendar"
  /\ Goto(r, "detached")
  /\ UNCHANGED <<clients, rows, events, req, loaded, told, seen, effects, raced>>

DetachedCallEnds(r) ==
  /\ pc[r] = "detached"
  /\ \/ UNCHANGED <<events, effects>>
     \/ CalendarEffect(r)
  /\ Goto(r, "abandoned")
  /\ UNCHANGED <<clients, rows, req, loaded, told, seen, raced>>

-----------------------------------------------------------------------------
(* The commit *)

\* The UPDATE a session flushes names only the attributes whose new value
\* differs from the loaded one; the others keep what the table holds by now.
Flush(column, old, new) == IF new = old THEN column ELSE new

\* A mutant: reschedule_appointment forgets ends_at.
NewRowKeepingEnd(r) ==
  LET new == req[r]
      row == rows[new.target]
      old == loaded[r]
  IN CASE new.op = "book" ->
            [client |-> new.client, start |-> new.start, end |-> new.end,
             status |-> "confirmed"]
       [] new.op = "cancel" -> [row EXCEPT !.status = Flush(@, old.status, "cancelled")]
       [] new.op = "reschedule" ->
            [row EXCEPT !.start = Flush(@, old.start, new.start),
                        !.status = Flush(@, old.status, "rescheduled")]

\* The row once the request's transaction commits.
NewRow(r) ==
  LET new == req[r]
      row == rows[new.target]
      old == loaded[r]
  IN CASE new.op = "book" ->
            [client |-> new.client, start |-> new.start, end |-> new.end,
             status |-> "confirmed"]
       [] new.op = "cancel" ->
            [row EXCEPT !.status = Flush(@, old.status, "cancelled")]
       [] new.op = "reschedule" ->
            [row EXCEPT !.start = Flush(@, old.start, new.start),
                        !.end = Flush(@, old.end, new.end),
                        !.status = Flush(@, old.status, "rescheduled")]

\* A mutant: the check constraint is missing from the table.
CommitEffectUnchecked(r) ==
  /\ rows' = [rows EXCEPT ![req[r].target] = NewRow(r)]
  /\ effects' = [effects EXCEPT ![r] = @ \union {"row"}]

CommitEffect(r) ==
  /\ NewRow(r).end > NewRow(r).start    \* ck_appointment_ends_after_starts
  /\ rows' = [rows EXCEPT ![req[r].target] = NewRow(r)]
  /\ effects' = [effects EXCEPT ![r] = @ \union {"row"}]

CommitOk(r) ==
  /\ pc[r] = "commit"
  /\ CommitEffect(r)
  /\ Goto(r, IF req[r].op = "cancel" THEN "ok" ELSE "refresh")
  /\ UNCHANGED <<clients, events, req, loaded, told, seen, raced>>

\* A mutant: a booking whose commit failed goes on to the confirmation.
CommitFailsQuietly(r) ==
  /\ pc[r] = "commit"
  /\ \/ UNCHANGED <<rows, effects>>
     \/ CommitEffect(r)
  /\ Goto(r, IF req[r].op = "book" THEN "sms" ELSE "raised")
  /\ UNCHANGED <<clients, events, req, loaded, told, seen, raced>>

\* The commit fails (the constraint, the connection) or its outcome is lost;
\* either way the request ends, with the calendar already changed.
CommitFails(r) ==
  /\ pc[r] = "commit"
  /\ \/ UNCHANGED <<rows, effects>>
     \/ CommitEffect(r)
  /\ \E answer \in {"raised", "abandoned"} : Goto(r, answer)
  /\ UNCHANGED <<clients, events, req, loaded, told, seen, raced>>

Refresh(r) ==
  /\ pc[r] = "refresh"
  /\ Goto(r, IF req[r].op = "book" THEN "sms" ELSE "ok")
  /\ UNCHANGED <<clients, rows, events, req, loaded, told, seen, effects, raced>>

-----------------------------------------------------------------------------
(* Confirmation of a booking: a failed message is logged and forgotten *)

\* A mutant: one try around both channels.
SendSmsStopping(r) ==
  /\ pc[r] = "sms"
  /\ \/ /\ req[r].client \in SmsTo
        /\ told' = [told EXCEPT ![r] = @ \union {"sms"}]
        /\ Goto(r, "email")
     \/ /\ UNCHANGED told
        /\ Goto(r, "ok")
  /\ UNCHANGED <<clients, rows, events, req, loaded, seen, effects, raced>>

SendSms(r) ==
  /\ pc[r] = "sms"
  /\ \/ /\ req[r].client \in SmsTo
        /\ told' = [told EXCEPT ![r] = @ \union {"sms"}]
     \/ UNCHANGED told
  /\ Goto(r, "email")
  /\ UNCHANGED <<clients, rows, events, req, loaded, seen, effects, raced>>

SendEmail(r) ==
  /\ pc[r] = "email"
  /\ \/ /\ req[r].client \in EmailTo
        /\ told' = [told EXCEPT ![r] = @ \union {"email"}]
     \/ UNCHANGED told
  /\ Goto(r, "ok")
  /\ UNCHANGED <<clients, rows, events, req, loaded, seen, effects, raced>>

-----------------------------------------------------------------------------
(* Failures *)

\* A database error outside the commit, caught by no handler of the service.
DbError(r) ==
  /\ pc[r] \in {"client", "newClient", "check", "load", "refresh"}
  /\ Goto(r, "raised")
  /\ UNCHANGED <<clients, rows, events, req, loaded, told, seen, effects, raced>>

\* The coroutine is cancelled, or its process dies, at any other await.
Abandon(r) ==
  /\ pc[r] \in {"client", "newClient", "check", "load", "refresh", "sms", "email"}
  /\ Goto(r, "abandoned")
  /\ UNCHANGED <<clients, rows, events, req, loaded, told, seen, effects, raced>>

-----------------------------------------------------------------------------
(* The specification *)

Init ==
  /\ clients \in SUBSET Clients
  /\ rows = [a \in Requests |-> None]
  /\ events = [a \in Requests |-> [state |-> "none", start |-> 0, end |-> 0]]
  /\ pc = [r \in Requests |-> "idle"]
  /\ req = [r \in Requests |-> None]
  /\ loaded = [r \in Requests |-> None]
  /\ told = [r \in Requests |-> {}]
  /\ seen = [r \in Requests |-> {}]
  /\ effects = [r \in Requests |-> {}]
  /\ raced = {}

\* What a request under way does next, faults included: it never just waits.
Proceed(r) ==
  \/ LookupClient(r) \/ CreateClient(r) \/ FindOverlap(r) \/ Load(r)
  \/ CalendarOk(r) \/ CalendarFails(r) \/ DetachedCallEnds(r)
  \/ CommitOk(r) \/ CommitFails(r) \/ Refresh(r)
  \/ SendSms(r) \/ SendEmail(r) \/ DbError(r)

Next == \E r \in Requests : Receive(r) \/ Proceed(r) \/ Detach(r) \/ Abandon(r)

Spec == Init /\ [][Next]_vars

FairSpec == Spec /\ \A r \in Requests : WF_vars(Proceed(r))

-----------------------------------------------------------------------------
(* Properties *)

Loaded == [start : Int, end : Int, status : Statuses]

\* Every variable keeps its shape, and no committed row ends before it starts:
\* whatever mix of columns two requests flush, the check constraint stands.
TypeOK ==
  /\ clients \subseteq Clients
  /\ rows \in [Requests -> Row \union {None}]
  /\ events \in [Requests -> [state : {"none", "live", "deleted"}, start : Int, end : Int]]
  /\ pc \in [Requests -> Steps \union Answers]
  /\ req \in [Requests -> Request \union {None}]
  /\ loaded \in [Requests -> Loaded \union {None}]
  /\ told \in [Requests -> SUBSET {"sms", "email"}]
  /\ seen \in [Requests -> SUBSET Requests]
  /\ effects \in [Requests -> SUBSET {"calendar", "row"}]
  /\ raced \subseteq Requests
  /\ \A a \in Requests : rows[a] # None => rows[a].end > rows[a].start

\* A request of this operation changed the calendar and ended without changing
\* the table.
Torn(op, a) == \E r \in Requests : /\ pc[r] \in Answers
                                  /\ effects[r] = {"calendar"}
                                  /\ req[r].op = op /\ req[r].target = a

\* A committed reschedule of the appointment, and one that had loaded the row
\* as cancelled.
Moved(r, a) == "row" \in effects[r] /\ req[r].op = "reschedule" /\ req[r].target = a

Revived(a) == \E r \in Requests : Moved(r, a) /\ loaded[r].status = "cancelled"

\* A reschedule committed on a row two requests held at once.
Mixed(a) == a \in raced /\ \E r \in Requests : Moved(r, a)

\* Nobody is between the calendar call and the commit of this appointment.
Settled(a) == \A r \in Requests : pc[r] = "commit" => req[r].target # a

Held(a) == events[a].state = "live"

\* The table and the calendar agree on an appointment, or differ for a reason.
DifferOnlyFor(a, race) ==
  /\ Held(a) /\ ~Active(rows[a]) => Torn("book", a)
  /\ Active(rows[a]) /\ ~Held(a) => Torn("cancel", a) \/ Revived(a) \/ race
  /\ Active(rows[a]) /\ Held(a) /\ ~SameTime(rows[a], events[a])
     => Torn("reschedule", a) \/ race

\* The table and the calendar disagree only in three ways, each with a cause of
\* its own.  An event nobody's active row stands for is that of a booking that
\* failed after its calendar call; an active row without its event is that of a
\* cancellation that failed after its calendar call, or of a reschedule of a
\* cancelled appointment, which nothing in reschedule_appointment refuses; different
\* times are those of a reschedule that failed after its calendar call.  Only a
\* reschedule that raced for the row may leave one of the last two otherwise.
StoresAgree == \A a \in Requests : Settled(a) => DifferOnlyFor(a, Mixed(a))

\* Two confirmed appointments of one client overlap only if neither booking's
\* overlap query ran after the other's commit: the double-booking guard has no
\* other hole than the race its docstring names (and moved appointments, which
\* are "rescheduled" and never checked).
OverlapOnlyByRace ==
  \A a, b \in Requests :
    /\ a # b
    /\ rows[a] # None /\ rows[b] # None
    /\ rows[a].status = "confirmed" /\ rows[b].status = "confirmed"
    /\ rows[a].client = rows[b].client
    /\ Overlap(rows[a], rows[b])
    => a \notin seen[b]

\* An acknowledged cancellation frees the slot for good: whatever runs after it or
\* beside it, the event stays deleted.  The row is active again only if a
\* reschedule loaded it as cancelled and moved it all the same, or raced with the
\* cancellation.
CancelSticks ==
  \A r \in Requests :
    pc[r] = "ok" /\ req[r].op = "cancel"
    => LET a == req[r].target IN
         /\ events[a].state = "deleted"
         /\ Active(rows[a]) => Revived(a) \/ Mixed(a)

\* A voice tool changes a store only after the caller's confirmation, and only
\* for an appointment of that caller, at any of its writes and even when the
\* call it belongs to is gone.
ToolsActForTheirCaller ==
  \A r \in Requests :
    effects[r] # {} /\ req[r].origin = "tool"
    => /\ req[r].confirmed /\ req[r].wellFormed
       /\ rows[req[r].target] # None => rows[req[r].target].client = req[r].client

\* Nobody is told of a booking that was not committed, or whose failure was
\* reported to the caller.  (What another request does to the appointment between
\* its commit and the message is not looked at: a message may be out of date.)
NotifiedMeansBooked ==
  \A r \in Requests :
    told[r] # {} => /\ rows[r] # None /\ effects[r] = {"calendar", "row"}
                    /\ pc[r] \in {"sms", "email", "ok", "abandoned"}

\* Every request received is answered, unless its coroutine is cancelled.
EveryRequestEnds ==
  \A r \in Requests : pc[r] # "idle" ~> pc[r] \in Answers

-----------------------------------------------------------------------------
(* Refinement *)

\* The life of an appointment: its row, and whether the calendar holds its slot.
PublicBook ==
  [a \in Requests |->
     IF rows[a] = None THEN [state |-> "free"]
     ELSE IF rows[a].status = "cancelled" THEN [state |-> "cancelled"]
     ELSE [state |-> IF Held(a) THEN "booked" ELSE "unheld",
           start |-> rows[a].start, end |-> rows[a].end]]

Instants == {in.start : in \in Inputs} \union {in.end : in \in Inputs}

Abstract == INSTANCE AppointmentBook
              WITH Ids <- Requests, Times <- Instants, book <- PublicBook

\* Every behaviour of the service is one of the abstract appointment book, races
\* and half-done requests included: an appointment is booked once, becomes
\* cancelled only after its slot is given up, and never gets a slot it gave up
\* back, even when a reschedule makes its row active again.
ImplementsAppointmentBook == Abstract!Spec

-----------------------------------------------------------------------------
(* What the documentation says and the code does not do *)

\* book_appointment's docstring: an exact repeat of an existing active
\* appointment is idempotent, only a different overlapping time is refused.
ExactRepeatIsIdempotent ==
  [][\A r \in Requests :
       pc[r] = "check" /\ pc'[r] = "conflict"
       => ~\E a \in Overlapping(r) : SameTime(rows[a], req[r])]_vars

=============================================================================
