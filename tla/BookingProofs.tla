--------------------------- MODULE BookingProofs ---------------------------
(***************************************************************************)
(* Safety of the booking service for any number of requests, clients and   *)
(* times.  The inductive invariant has three parts: what each request has  *)
(* done at each of its steps (RequestInv), what a booking that has passed  *)
(* its overlap query knows (SeenInv), and how the two stores and the       *)
(* copies held by requests relate (StoresInv).                             *)
(***************************************************************************)
EXTENDS Booking, TLAPS

\* Before any write, between the two writes, after both.
Untouched == {"idle", "client", "newClient", "check", "load", "calendar", "detached",
              "refused", "notFound", "duplicate", "conflict"}
Written == {"refresh", "sms", "email", "ok"}

RequestInv(r) ==
  /\ pc[r] # "idle" => req[r] \in Request
  /\ pc[r] # "idle" => (req[r].op = "book" <=> req[r].target = r)
  /\ pc[r] \in {"client", "newClient", "check", "sms", "email"} => req[r].op = "book"
  /\ pc[r] = "load" => req[r].op # "book"
  /\ pc[r] = "refresh" => req[r].op # "cancel"
  /\ pc[r] \in Untouched => effects[r] = {}
  /\ pc[r] = "commit" => effects[r] = {"calendar"}
  /\ pc[r] \in Written => effects[r] = {"calendar", "row"}
  /\ "row" \in effects[r] => "calendar" \in effects[r]
  /\ effects[r] # {} /\ req[r].op # "book" => rows[req[r].target] # None
  /\ pc[r] \in {"calendar", "detached", "commit"} /\ req[r].op # "book"
     => loaded[r] \in Loaded /\ rows[req[r].target] # None

\* The rows and events that exist are those of bookings that wrote them.
OwnInv(a) ==
  /\ rows[a] # None => /\ pc[a] # "idle" /\ req[a].op = "book"
                       /\ "row" \in effects[a] /\ rows[a].client = req[a].client
  /\ "row" \in effects[a] /\ req[a].op = "book" => rows[a] # None
  /\ rows[a] = None => (\/ events[a].state = "none"
                        \/ pc[a] # "idle" /\ req[a].op = "book"
                           /\ effects[a] = {"calendar"})
  /\ pc[a] = "commit" /\ req[a].op = "book"
     => events[a] = [state |-> "live", start |-> req[a].start, end |-> req[a].end]

\* A row in the table when b looked is no confirmed clash of b's slot now.
SeenInv(b) ==
  \A a \in seen[b] :
    /\ rows[a] # None
    /\ pc[b] # "idle"
    /\ /\ pc[b] \notin {"duplicate", "conflict"}
       /\ a # b
       /\ rows[a].status = "confirmed"
       /\ rows[a].client = req[b].client
       => ~Overlap(rows[a], req[b])

\* A moved row is never confirmed again, so a copy loaded after the move proves
\* the row is not confirmed.
MovedInv(r) ==
  /\ pc[r] \in {"calendar", "detached", "commit"} /\ req[r].op # "book"
  /\ loaded[r].status # "confirmed"
  => rows[req[r].target].status # "confirmed"

\* A confirmed row holds the times its booking asked for.
ConfirmedInv(a) ==
  rows[a] # None /\ rows[a].status = "confirmed" => SameTime(rows[a], req[a])

\* A copy loaded as cancelled, of a row that is active now, was outrun by a move.
CopyInv(r) ==
  /\ pc[r] \in {"calendar", "detached", "commit"} /\ req[r].op # "book"
  /\ loaded[r].status = "cancelled" /\ Active(rows[req[r].target])
  => \E q \in Requests : Moved(q, req[r].target)

\* Whoever holds the only copy of a row knows what is in the table, and what its
\* own calendar call has left in the calendar.
HolderInv(r) ==
  LET a == req[r].target IN
    Holds(r, a) /\ a \notin raced
    => /\ \A q \in Requests : Holds(q, a) => q = r
       /\ loaded[r] = [start |-> rows[a].start, end |-> rows[a].end,
                       status |-> rows[a].status]
       /\ pc[r] = "commit" /\ req[r].op = "reschedule" =>
            /\ Held(a) => SameTime(events[a], req[r])
            /\ Active(rows[a]) /\ ~Held(a) => Torn("cancel", a) \/ Revived(a)

\* A request of this operation changed the calendar and not, or not yet, the table.
Undone(op, a) == \E r \in Requests : /\ effects[r] = {"calendar"}
                                    /\ req[r].op = op /\ req[r].target = a

\* What the calendar holds of an appointment in the table, races included.
EventInv(a) ==
  rows[a] # None =>
    /\ events[a].state \in {"live", "deleted"}
    /\ rows[a].status = "cancelled" => events[a].state = "deleted"
    /\ Active(rows[a]) /\ ~Held(a)
       => Undone("cancel", a) \/ \E q \in Requests : Moved(q, a)
    /\ Active(rows[a]) /\ ~SameTime(rows[a], events[a])
       => Undone("reschedule", a) \/ \E q \in Requests : Moved(q, a)

\* The same of an appointment no two requests held at once.
AloneInv(a) == a \notin raced /\ Settled(a) => DifferOnlyFor(a, FALSE)

\* A cancellation deletes the event before it touches the row, and only a move
\* makes the row active again.
CancelInv(r) ==
  LET a == req[r].target IN
    pc[r] # "idle" /\ req[r].op = "cancel" =>
      /\ "calendar" \in effects[r] => events[a].state = "deleted"
      /\ "row" \in effects[r] /\ Active(rows[a])
         => /\ \E q \in Requests : Moved(q, a)
            /\ a \notin raced => Revived(a)

\* One step of request r.
Step(r) == Receive(r) \/ Proceed(r) \/ Detach(r) \/ Abandon(r)

RequestsInv ==
  /\ TypeOK
  /\ \A r \in Requests : RequestInv(r)
  /\ \A a \in Requests : OwnInv(a)

-----------------------------------------------------------------------------
(* Type correctness *)

\* What is written to the table is a row.
LEMMA NewRowType ==
  ASSUME TypeOK, NEW r \in Requests, RequestInv(r), pc[r] = "commit"
  PROVE  NewRow(r) \in Row /\ req[r].target \in Requests /\ req[r] \in Request
<1>1. req[r] \in Request
  BY DEF RequestInv
<1>2. req[r].target \in Requests
  BY <1>1 DEF Request
<1>3. CASE req[r].op = "book"
  BY <1>1, <1>2, <1>3 DEF NewRow, Request, Row, Statuses
<1>4. CASE req[r].op # "book"
  <2>1. rows[req[r].target] \in Row
    BY <1>2, <1>4 DEF RequestInv, TypeOK
  <2>2. CASE req[r].op = "cancel"
    BY <1>1, <2>1, <2>2, <1>2 DEF NewRow, Flush, Row, Statuses
  <2>3. CASE req[r].op = "reschedule"
    BY <1>1, <2>1, <2>3, <1>2 DEF NewRow, Flush, Request, Row, Statuses
  <2> QED
    BY <1>1, <1>4, <2>2, <2>3 DEF Request
<1> QED
  BY <1>1, <1>2, <1>3, <1>4

\* Each operation's row, field by field.
LEMMA NewRowFields ==
  ASSUME TypeOK, NEW r \in Requests, RequestInv(r), pc[r] = "commit"
  PROVE  LET row == rows[req[r].target]
             new == NewRow(r)
         IN /\ req[r].op = "book"
               => new = [client |-> req[r].client, start |-> req[r].start,
                         end |-> req[r].end, status |-> "confirmed"]
            /\ req[r].op # "book" => new.client = row.client
            /\ req[r].op = "cancel"
               => /\ new.start = row.start /\ new.end = row.end
                  /\ new.status = Flush(row.status, loaded[r].status, "cancelled")
            /\ req[r].op = "reschedule"
               => /\ new.start = Flush(row.start, loaded[r].start, req[r].start)
                  /\ new.end = Flush(row.end, loaded[r].end, req[r].end)
                  /\ new.status = Flush(row.status, loaded[r].status, "rescheduled")
<1>1. req[r] \in Request
  BY DEF RequestInv
<1>2. req[r].target \in Requests
  BY <1>1 DEF Request
<1>3. CASE req[r].op = "book"
  BY <1>3 DEF NewRow
<1>4. CASE req[r].op # "book"
  <2>1. rows[req[r].target] \in Row
    BY <1>2, <1>4 DEF RequestInv, TypeOK
  <2>2. CASE req[r].op = "cancel"
    BY <2>1, <2>2 DEF NewRow, Flush, Row
  <2>3. CASE req[r].op = "reschedule"
    BY <2>1, <2>3 DEF NewRow, Flush, Row
  <2> QED
    BY <1>1, <1>4, <2>2, <2>3 DEF Request
<1> QED
  BY <1>3, <1>4

LEMMA CalendarEffectType ==
  ASSUME TypeOK, NEW r \in Requests, req[r] \in Request, CalendarEffect(r)
  PROVE  /\ events' \in [Requests -> [state : {"none", "live", "deleted"},
                                      start : Int, end : Int]]
         /\ effects' \in [Requests -> SUBSET {"calendar", "row"}]
<1>1. req[r].target \in Requests /\ req[r].start \in Int /\ req[r].end \in Int
      /\ req[r].op \in {"book", "cancel", "reschedule"}
  BY DEF Request
<1> DEFINE Event == [state : {"none", "live", "deleted"}, start : Int, end : Int]
<1>2. events \in [Requests -> Event] /\ events[req[r].target] \in Event
  BY <1>1 DEF TypeOK
<1>3. CASE req[r].op = "book"
  BY <1>1, <1>2, <1>3 DEF TypeOK, CalendarEffect
<1>4. CASE req[r].op = "cancel"
  BY <1>1, <1>2, <1>4 DEF TypeOK, CalendarEffect
<1>5. CASE req[r].op = "reschedule"
  BY <1>1, <1>2, <1>5 DEF TypeOK, CalendarEffect
<1> QED
  BY <1>1, <1>3, <1>4, <1>5

LEMMA CommitEffectType ==
  ASSUME TypeOK, NEW r \in Requests, RequestInv(r), pc[r] = "commit", CommitEffect(r)
  PROVE  /\ rows' \in [Requests -> Row \union {None}]
         /\ \A a \in Requests : rows'[a] # None => rows'[a].end > rows'[a].start
         /\ effects' \in [Requests -> SUBSET {"calendar", "row"}]
BY NewRowType, NoneAssumption DEF TypeOK, CommitEffect

LEMMA TypeStep ==
  ASSUME TypeOK, NEW r \in Requests, RequestInv(r),
         Step(r)
  PROVE  TypeOK'
<1>0. req[r] \in Request \/ pc[r] = "idle"
  BY DEF RequestInv
<1> USE DEF TypeOK, Goto, Steps, Answers
<1>1. CASE Receive(r)
  BY <1>1, InputsAssumption DEF Receive, Input, Request
<1>2. CASE LookupClient(r)
  BY <1>2 DEF LookupClient
<1>3. CASE CreateClient(r)
  BY <1>3, <1>0 DEF CreateClient, Request
<1>4. CASE FindOverlap(r)
  BY <1>4 DEF FindOverlap
<1>5. CASE Load(r)
  BY <1>5, <1>0, NoneAssumption DEF Load, Request, Found, Loaded, Row
<1>6. CASE CalendarOk(r)
  BY <1>6, <1>0, CalendarEffectType DEF CalendarOk
<1>7. CASE CalendarFails(r)
  BY <1>7, <1>0, CalendarEffectType DEF CalendarFails
<1>8. CASE Detach(r)
  BY <1>8 DEF Detach
<1>9. CASE DetachedCallEnds(r)
  BY <1>9, <1>0, CalendarEffectType DEF DetachedCallEnds
<1>10. CASE CommitOk(r)
  BY <1>10, CommitEffectType DEF CommitOk
<1>11. CASE CommitFails(r)
  BY <1>11, CommitEffectType DEF CommitFails
<1>12. CASE Refresh(r)
  BY <1>12 DEF Refresh
<1>13. CASE SendSms(r)
  BY <1>13 DEF SendSms
<1>14. CASE SendEmail(r)
  BY <1>14 DEF SendEmail
<1>15. CASE DbError(r)
  BY <1>15 DEF DbError
<1>16. CASE Abandon(r)
  BY <1>16 DEF Abandon
<1> QED
  BY <1>1, <1>2, <1>3, <1>4, <1>5, <1>6, <1>7, <1>8, <1>9, <1>10, <1>11, <1>12, <1>13, <1>14, <1>15, <1>16 DEF Step, Proceed
-----------------------------------------------------------------------------
(* What each request has done *)

\* A commit writes one row and never removes one.
LEMMA CommitWritesRow ==
  ASSUME RequestsInv, NEW r \in Requests, pc[r] = "commit", CommitEffect(r)
  PROVE  /\ rows'[req[r].target] = NewRow(r)
         /\ rows'[req[r].target] # None
         /\ \A a \in Requests : a # req[r].target => rows'[a] = rows[a]
BY NewRowType, NoneAssumption DEF RequestsInv, TypeOK, CommitEffect

LEMMA RequestStep ==
  ASSUME RequestsInv, TypeOK', NEW r \in Requests,
         Step(r),
         NEW q \in Requests
  PROVE  RequestInv(q)'
<1>0. RequestInv(r) /\ RequestInv(q) /\ TypeOK
  BY DEF RequestsInv
<1> USE DEF RequestInv, Goto, Untouched, Written
<1>1. CASE Receive(r)
  BY <1>0, <1>1, InputsAssumption DEF TypeOK, Receive, Input, Request
<1>2. CASE LookupClient(r)
  BY <1>0, <1>2 DEF TypeOK, LookupClient
<1>3. CASE CreateClient(r)
  BY <1>0, <1>3 DEF TypeOK, CreateClient
<1>4. CASE FindOverlap(r)
  BY <1>0, <1>4 DEF TypeOK, FindOverlap
<1>5. CASE Load(r)
  BY <1>0, <1>5, NoneAssumption DEF TypeOK, Load, Found, Request, Loaded, Row
<1>6. CASE CalendarOk(r)
  BY <1>0, <1>6 DEF TypeOK, CalendarOk, CalendarEffect
<1>7. CASE CalendarFails(r)
  BY <1>0, <1>7 DEF TypeOK, CalendarFails, CalendarEffect
<1>8. CASE Detach(r)
  BY <1>0, <1>8 DEF TypeOK, Detach
<1>9. CASE DetachedCallEnds(r)
  BY <1>0, <1>9 DEF TypeOK, DetachedCallEnds, CalendarEffect
<1>10. CASE CommitOk(r)
  <2>1. \A a \in Requests : rows[a] # None => rows'[a] # None
    BY <1>10, CommitWritesRow DEF CommitOk
  <2>2. CASE q = r
    <3>1. rows'[req[r].target] # None
      BY <1>10, CommitWritesRow DEF CommitOk
    <3> QED
      BY <1>0, <1>10, <2>2, <3>1 DEF TypeOK, CommitOk, CommitEffect
  <2>3. CASE q # r
    BY <1>0, <1>10, <2>1, <2>3 DEF TypeOK, CommitOk, CommitEffect, Request
  <2> QED
    BY <2>2, <2>3
<1>11. CASE CommitFails(r)
  BY <1>0, <1>11, CommitWritesRow DEF TypeOK, CommitFails, CommitEffect, Request
<1>12. CASE Refresh(r)
  BY <1>0, <1>12 DEF TypeOK, Refresh
<1>13. CASE SendSms(r)
  BY <1>0, <1>13 DEF TypeOK, SendSms
<1>14. CASE SendEmail(r)
  BY <1>0, <1>14 DEF TypeOK, SendEmail
<1>15. CASE DbError(r)
  BY <1>0, <1>15 DEF TypeOK, DbError
<1>16. CASE Abandon(r)
  BY <1>0, <1>16 DEF TypeOK, Abandon
<1> QED
  BY <1>1, <1>2, <1>3, <1>4, <1>5, <1>6, <1>7, <1>8, <1>9, <1>10, <1>11, <1>12, <1>13, <1>14, <1>15, <1>16 DEF Step, Proceed

LEMMA OwnStep ==
  ASSUME RequestsInv, TypeOK', NEW r \in Requests,
         Step(r),
         NEW a \in Requests
  PROVE  OwnInv(a)'
<1>0. RequestInv(r) /\ RequestInv(a) /\ TypeOK /\ OwnInv(a) /\ OwnInv(r)
  BY DEF RequestsInv
<1> USE DEF OwnInv, Goto
<1>1. CASE Receive(r)
  BY <1>0, <1>1, InputsAssumption DEF TypeOK, RequestInv, Untouched, Receive, Input, Request
<1>2. CASE LookupClient(r)
  BY <1>0, <1>2 DEF TypeOK, LookupClient
<1>3. CASE CreateClient(r)
  BY <1>0, <1>3 DEF TypeOK, CreateClient
<1>4. CASE FindOverlap(r)
  BY <1>0, <1>4 DEF TypeOK, FindOverlap
<1>5. CASE Load(r)
  BY <1>0, <1>5, NoneAssumption DEF TypeOK, Load, Found, Request
<1>6. CASE CalendarOk(r)
  BY <1>0, <1>6 DEF TypeOK, RequestInv, Untouched, CalendarOk, CalendarEffect, Request
<1>7. CASE CalendarFails(r)
  BY <1>0, <1>7 DEF TypeOK, RequestInv, Untouched, CalendarFails, CalendarEffect, Request
<1>8. CASE Detach(r)
  BY <1>0, <1>8 DEF TypeOK, Detach
<1>9. CASE DetachedCallEnds(r)
  BY <1>0, <1>9 DEF TypeOK, RequestInv, Untouched, DetachedCallEnds, CalendarEffect, Request
<1>10. CASE CommitOk(r)
  <2>1. CASE CommitEffect(r)
    <3>1. /\ rows'[req[r].target] # None /\ req[r].target \in Requests
          /\ \A x \in Requests : x # req[r].target => rows'[x] = rows[x]
      BY <1>10, <2>1, CommitWritesRow, NewRowType, <1>0 DEF CommitOk
    <3>2. CASE a = req[r].target
      <4>1. CASE req[r].op = "book"
        <5>1. rows'[a].client = req[r].client
          BY <1>10, <2>1, <3>2, <4>1, CommitWritesRow, NewRowFields, <1>0 DEF CommitOk
        <5> QED
          BY <1>0, <1>10, <2>1, <3>1, <3>2, <4>1, <5>1 DEF TypeOK, RequestInv, CommitOk, CommitEffect
      <4>2. CASE req[r].op # "book"
        <5>1. rows[a] # None /\ rows[a] \in Row
          BY <1>0, <1>10, <3>2, <4>2 DEF RequestInv, TypeOK, CommitOk
        <5>2. rows'[a].client = rows[a].client
          BY <1>0, <1>10, <2>1, <3>2, <4>2, <5>1, CommitWritesRow, NewRowFields
             DEF CommitOk, RequestInv, Request
        <5> QED
          BY <1>0, <1>10, <2>1, <3>1, <3>2, <4>2, <5>1, <5>2
             DEF TypeOK, RequestInv, CommitOk, CommitEffect
      <4> QED
        BY <4>1, <4>2
    <3>3. CASE a # req[r].target
      BY <1>0, <1>10, <2>1, <3>1, <3>3 DEF TypeOK, RequestInv, CommitOk, CommitEffect
    <3> QED
      BY <3>2, <3>3
  <2> QED
    BY <1>10, <2>1 DEF CommitOk
<1>11. CASE CommitFails(r)
  <2>1. CASE CommitEffect(r)
    <3>1. /\ rows'[req[r].target] # None /\ req[r].target \in Requests
          /\ \A x \in Requests : x # req[r].target => rows'[x] = rows[x]
      BY <1>11, <2>1, CommitWritesRow, NewRowType, <1>0 DEF CommitFails
    <3>2. CASE a = req[r].target
      <4>1. CASE req[r].op = "book"
        <5>1. rows'[a].client = req[r].client
          BY <1>11, <2>1, <3>2, <4>1, CommitWritesRow, NewRowFields, <1>0 DEF CommitFails
        <5> QED
          BY <1>0, <1>11, <2>1, <3>1, <3>2, <4>1, <5>1 DEF TypeOK, RequestInv, CommitFails, CommitEffect
      <4>2. CASE req[r].op # "book"
        <5>1. rows[a] # None /\ rows[a] \in Row
          BY <1>0, <1>11, <3>2, <4>2 DEF RequestInv, TypeOK, CommitFails
        <5>2. rows'[a].client = rows[a].client
          BY <1>0, <1>11, <2>1, <3>2, <4>2, <5>1, CommitWritesRow, NewRowFields
             DEF CommitFails, RequestInv, Request
        <5> QED
          BY <1>0, <1>11, <2>1, <3>1, <3>2, <4>2, <5>1, <5>2
             DEF TypeOK, RequestInv, CommitFails, CommitEffect
      <4> QED
        BY <4>1, <4>2
    <3>3. CASE a # req[r].target
      BY <1>0, <1>11, <2>1, <3>1, <3>3 DEF TypeOK, RequestInv, CommitFails, CommitEffect
    <3> QED
      BY <3>2, <3>3
  <2>2. CASE UNCHANGED <<rows, effects>>
    BY <1>0, <1>11, <2>2 DEF TypeOK, CommitFails
  <2> QED
    BY <1>11, <2>1, <2>2 DEF CommitFails
<1>12. CASE Refresh(r)
  BY <1>0, <1>12 DEF TypeOK, Refresh
<1>13. CASE SendSms(r)
  BY <1>0, <1>13 DEF TypeOK, SendSms
<1>14. CASE SendEmail(r)
  BY <1>0, <1>14 DEF TypeOK, SendEmail
<1>15. CASE DbError(r)
  BY <1>0, <1>15 DEF TypeOK, DbError
<1>16. CASE Abandon(r)
  BY <1>0, <1>16 DEF TypeOK, Abandon
<1> QED
  BY <1>1, <1>2, <1>3, <1>4, <1>5, <1>6, <1>7, <1>8, <1>9, <1>10, <1>11, <1>12, <1>13, <1>14, <1>15, <1>16 DEF Step, Proceed
-----------------------------------------------------------------------------
(* Frame: what a step of request r leaves alone *)

\* A step of r keeps what belongs to the other requests, and r's own request
\* once it is received.
LEMMA FrameStep ==
  ASSUME TypeOK, NEW r \in Requests, Step(r), NEW q \in Requests
  PROVE  /\ q # r => /\ pc'[q] = pc[q] /\ req'[q] = req[q] /\ loaded'[q] = loaded[q]
                     /\ seen'[q] = seen[q] /\ effects'[q] = effects[q]
                     /\ told'[q] = told[q]
         /\ pc[q] # "idle" => req'[q] = req[q] /\ pc'[q] # "idle"
         /\ pc[q] \in Answers => pc'[q] = pc[q]
<1> USE DEF TypeOK, Goto, Answers, Steps
<1>1. CASE Receive(r)
  BY <1>1 DEF Receive
<1>2. CASE LookupClient(r)
  BY <1>2 DEF LookupClient
<1>3. CASE CreateClient(r)
  BY <1>3 DEF CreateClient
<1>4. CASE FindOverlap(r)
  BY <1>4 DEF FindOverlap
<1>5. CASE Load(r)
  BY <1>5 DEF Load
<1>6. CASE CalendarOk(r)
  BY <1>6 DEF CalendarOk, CalendarEffect
<1>7. CASE CalendarFails(r)
  BY <1>7 DEF CalendarFails, CalendarEffect
<1>8. CASE Detach(r)
  BY <1>8 DEF Detach
<1>9. CASE DetachedCallEnds(r)
  BY <1>9 DEF DetachedCallEnds, CalendarEffect
<1>10. CASE CommitOk(r)
  BY <1>10 DEF CommitOk, CommitEffect
<1>11. CASE CommitFails(r)
  BY <1>11 DEF CommitFails, CommitEffect
<1>12. CASE Refresh(r)
  BY <1>12 DEF Refresh
<1>13. CASE SendSms(r)
  BY <1>13 DEF SendSms
<1>14. CASE SendEmail(r)
  BY <1>14 DEF SendEmail
<1>15. CASE DbError(r)
  BY <1>15 DEF DbError
<1>16. CASE Abandon(r)
  BY <1>16 DEF Abandon
<1> QED
  BY <1>1, <1>2, <1>3, <1>4, <1>5, <1>6, <1>7, <1>8, <1>9, <1>10, <1>11, <1>12, <1>13, <1>14, <1>15, <1>16 DEF Step, Proceed

\* How a step changes the table: a booking inserts its own row, or a cancel or
\* reschedule updates one, and an updated row is not "confirmed".
LEMMA TableStep ==
  ASSUME RequestsInv, NEW r \in Requests, Step(r), MovedInv(r), NEW a \in Requests
  PROVE  \/ rows'[a] = rows[a]
         \/ /\ pc[r] = "commit" /\ CommitEffect(r) /\ a = req[r].target
            /\ \/ /\ req[r].op = "book" /\ a = r /\ rows[a] = None
                  /\ rows'[a] = [client |-> req[r].client, start |-> req[r].start,
                                 end |-> req[r].end, status |-> "confirmed"]
               \/ /\ req[r].op # "book" /\ rows[a] # None /\ rows'[a] # None
                  /\ rows'[a].client = rows[a].client
                  /\ rows'[a].status # "confirmed"
<1>1. CASE pc[r] = "commit" /\ CommitEffect(r) /\ a = req[r].target
  <2>1. /\ TypeOK /\ RequestInv(r) /\ OwnInv(r) /\ req[r] \in Request
        /\ rows'[a] = NewRow(r) /\ rows'[a] # None
    BY <1>1, CommitWritesRow, NewRowType DEF RequestsInv
  <2>2. CASE req[r].op = "book"
    <3>1. a = r /\ rows[a] = None
      BY <1>1, <2>1, <2>2 DEF RequestInv, OwnInv
    <3> QED
      BY <1>1, <2>1, <2>2, <3>1, NewRowFields
  <2>3. CASE req[r].op # "book"
    <3>1. rows[a] # None
      BY <1>1, <2>1, <2>3 DEF RequestInv
    <3>2. rows'[a].client = rows[a].client
      BY <1>1, <2>1, <2>3, NewRowFields DEF Request
    <3>3. rows'[a].status # "confirmed"
      BY <1>1, <2>1, <2>3, NewRowFields DEF Request, Flush, MovedInv
    <3> QED
      BY <1>1, <2>1, <2>3, <3>1, <3>2, <3>3
  <2> QED
    BY <2>2, <2>3
<1>2. CASE ~(pc[r] = "commit" /\ CommitEffect(r) /\ a = req[r].target)
  <2>1. CASE CommitOk(r) \/ CommitFails(r)
    BY <1>2, <2>1, CommitWritesRow DEF CommitOk, CommitFails
  <2>2. CASE ~(CommitOk(r) \/ CommitFails(r))
    BY <2>2 DEF Step, Proceed, Receive, LookupClient, CreateClient, FindOverlap, Load,
                CalendarOk, CalendarFails, Detach, DetachedCallEnds, Refresh,
                SendSms, SendEmail, DbError, Abandon
  <2> QED
    BY <2>1, <2>2
<1> QED
  BY <1>1, <1>2

-----------------------------------------------------------------------------
(* Double booking *)

ClashInv ==
  /\ \A r \in Requests : MovedInv(r)
  /\ \A a \in Requests : ConfirmedInv(a)
  /\ \A b \in Requests : SeenInv(b)

LEMMA MovedStep ==
  ASSUME RequestsInv, ClashInv, NEW r \in Requests, Step(r), NEW q \in Requests
  PROVE  MovedInv(q)'
<1>0. TypeOK /\ MovedInv(r) /\ MovedInv(q) /\ RequestInv(q) /\ RequestInv(r)
  BY DEF RequestsInv, ClashInv
<1>1. CASE Load(r) /\ q = r
  BY <1>0, <1>1, NoneAssumption DEF TypeOK, MovedInv, Load, Goto, Found, Request
<1>2. CASE ~(Load(r) /\ q = r)
  <2> SUFFICES ASSUME pc'[q] \in {"calendar", "detached", "commit"}, req'[q].op # "book",
                      loaded'[q].status # "confirmed"
               PROVE  rows'[req'[q].target].status # "confirmed"
    BY DEF MovedInv
  <2>1. /\ pc[q] \in {"calendar", "detached", "commit"}
        /\ req'[q] = req[q] /\ loaded'[q] = loaded[q]
    <3>1. CASE q # r
      BY <1>0, <3>1, FrameStep
    <3>2. CASE q = r
      BY <1>0, <1>2, <3>2 DEF RequestInv, TypeOK, Goto, Step, Proceed, Receive, LookupClient,
           CreateClient, FindOverlap, CalendarOk, CalendarFails, Detach,
           DetachedCallEnds, CommitOk, CommitFails, Refresh, SendSms, SendEmail, DbError, Abandon
    <3> QED
      BY <3>1, <3>2
  <2>2. req[q].target \in Requests /\ rows[req[q].target] # None
    BY <1>0, <2>1 DEF RequestInv, Request
  <2> QED
    BY <1>0, <2>1, <2>2, TableStep DEF MovedInv
<1> QED
  BY <1>1, <1>2

LEMMA ConfirmedStep ==
  ASSUME RequestsInv, ClashInv, NEW r \in Requests, Step(r), NEW a \in Requests
  PROVE  ConfirmedInv(a)'
<1>0. TypeOK /\ MovedInv(r) /\ ConfirmedInv(a) /\ OwnInv(a) /\ RequestInv(r)
  BY DEF RequestsInv, ClashInv
<1>1. CASE rows'[a] = rows[a]
  BY <1>0, <1>1, FrameStep DEF ConfirmedInv, OwnInv
<1>2. CASE rows'[a] # rows[a]
  <2>1. /\ req[r].op = "book" /\ a = r /\ pc[r] = "commit"
        /\ rows'[a] = [client |-> req[r].client, start |-> req[r].start,
                        end |-> req[r].end, status |-> "confirmed"]
        \/ rows'[a].status # "confirmed"
    BY <1>0, <1>2, TableStep
  <2>2. pc[a] = "commit" => req'[a] = req[a]
    BY <1>0, FrameStep
  <2> QED
    BY <2>1, <2>2 DEF ConfirmedInv, SameTime
<1> QED
  BY <1>1, <1>2

LEMMA SeenStep ==
  ASSUME RequestsInv, ClashInv, NEW r \in Requests, Step(r), NEW b \in Requests
  PROVE  SeenInv(b)'
<1>0. TypeOK /\ MovedInv(r) /\ SeenInv(b) /\ RequestInv(r)
  BY DEF RequestsInv, ClashInv
<1>1. CASE FindOverlap(r) /\ b = r
  <2>1. rows' = rows /\ req' = req /\ pc'[r] # "idle"
        /\ seen'[r] = {a \in Requests : rows[a] # None}
    BY <1>0, <1>1 DEF TypeOK, FindOverlap, Goto
  <2>2. pc'[r] \notin {"duplicate", "conflict"} => Overlapping(r) = {}
    BY <1>0, <1>1 DEF TypeOK, FindOverlap, Goto
  <2> QED
    BY <1>1, <2>1, <2>2 DEF SeenInv, Overlapping, Active
<1>2. CASE ~(FindOverlap(r) /\ b = r)
  <2> SUFFICES ASSUME NEW a \in Requests, a \in seen'[b]
               PROVE  /\ rows'[a] # None
                      /\ pc'[b] # "idle"
                      /\ /\ pc'[b] \notin {"duplicate", "conflict"}
                         /\ a # b
                         /\ rows'[a].status = "confirmed"
                         /\ rows'[a].client = req'[b].client
                         => ~Overlap(rows'[a], req'[b])
    <3>1. seen'[b] \subseteq Requests
      BY <1>0, <1>2, FrameStep, TypeStep DEF RequestsInv, TypeOK, Step
    <3> QED
      BY <3>1 DEF SeenInv
  <2>1. a \in seen[b]
    <3>1. CASE b # r
      BY <1>0, <3>1, FrameStep
    <3>2. CASE b = r
      BY <1>0, <1>2, <3>2 DEF TypeOK, Step, Proceed, Receive, LookupClient,
           CreateClient, Load, CalendarOk, CalendarFails, Detach,
           DetachedCallEnds, CommitOk, CommitFails, Refresh, SendSms, SendEmail, DbError, Abandon
    <3> QED
      BY <3>1, <3>2
  <2>2. pc[b] # "idle" /\ rows[a] # None
    BY <1>0, <2>1 DEF SeenInv
  <2>3. req'[b] = req[b] /\ pc'[b] # "idle"
    BY <1>0, <2>2, FrameStep
  <2>4. pc'[b] \notin {"duplicate", "conflict"} => pc[b] \notin {"duplicate", "conflict"}
    BY <1>0, FrameStep DEF Answers
  <2> QED
    BY <1>0, <2>1, <2>2, <2>3, <2>4, TableStep DEF SeenInv
<1> QED
  BY <1>1, <1>2

-----------------------------------------------------------------------------
(* The two stores *)

StoresInv ==
  /\ \A r \in Requests : CopyInv(r) /\ HolderInv(r) /\ CancelInv(r)
  /\ \A a \in Requests : EventInv(a) /\ AloneInv(a)

\* How a step changes the calendar.
LEMMA EventStep ==
  ASSUME RequestsInv, NEW r \in Requests, Step(r), NEW a \in Requests
  PROVE  \/ events'[a] = events[a]
         \/ /\ pc[r] \in {"calendar", "detached"} /\ req[r].target = a
            /\ CalendarEffect(r) /\ effects'[r] = {"calendar"} /\ rows' = rows
            /\ \/ pc[r] = "calendar" /\ pc'[r] = "commit"
               \/ pc'[r] \in {"calendarError", "abandoned"}
<1>0. TypeOK /\ RequestInv(r)
  BY DEF RequestsInv
<1>1. CASE CalendarOk(r) \/ CalendarFails(r) \/ DetachedCallEnds(r)
  <2>1. CASE UNCHANGED <<events, effects>>
    BY <2>1
  <2>2. CASE CalendarEffect(r)
    <3>1. pc[r] \in {"calendar", "detached"} /\ effects[r] = {} /\ req[r].target \in Requests
      BY <1>0, <1>1 DEF CalendarOk, CalendarFails, DetachedCallEnds, RequestInv,
                        Untouched, Request
    <3>2. effects'[r] = {"calendar"} /\ (a # req[r].target => events'[a] = events[a])
      BY <1>0, <2>2, <3>1 DEF TypeOK, CalendarEffect
    <3> QED
      BY <1>0, <1>1, <2>2, <3>1, <3>2
         DEF CalendarOk, CalendarFails, DetachedCallEnds, Goto, TypeOK
  <2> QED
    BY <1>1, <2>1, <2>2 DEF CalendarOk, CalendarFails, DetachedCallEnds
<1>2. CASE ~(CalendarOk(r) \/ CalendarFails(r) \/ DetachedCallEnds(r))
  BY <1>2 DEF Step, Proceed, Receive, LookupClient, CreateClient, FindOverlap, Load,
              Detach, CommitOk, CommitFails, Refresh, SendSms, SendEmail, DbError, Abandon
<1> QED
  BY <1>1, <1>2

\* A step writes to one store, or to none.
LEMMA StoreStep ==
  ASSUME RequestsInv, NEW r \in Requests, Step(r)
  PROVE  \/ rows' = rows /\ events' = events /\ effects' = effects
         \/ /\ pc[r] \in {"calendar", "detached"} /\ CalendarEffect(r) /\ rows' = rows
            /\ effects[r] = {} /\ effects'[r] = {"calendar"} /\ raced' = raced
            /\ pc'[r] \in {"commit", "calendarError", "abandoned"}
         \/ /\ pc[r] = "commit" /\ CommitEffect(r) /\ events' = events
            /\ effects[r] = {"calendar"} /\ effects'[r] = {"calendar", "row"}
            /\ raced' = raced /\ loaded' = loaded
            /\ pc'[r] \in {"ok", "refresh", "raised", "abandoned"}
<1>0. TypeOK /\ RequestInv(r)
  BY DEF RequestsInv
<1>1. CASE CalendarOk(r) \/ CalendarFails(r) \/ DetachedCallEnds(r)
  <2>1. CASE UNCHANGED <<events, effects>>
    BY <1>1, <2>1 DEF CalendarOk, CalendarFails, DetachedCallEnds
  <2>2. CASE CalendarEffect(r)
    <3>1. /\ pc[r] \in {"calendar", "detached"} /\ effects[r] = {} /\ rows' = rows
          /\ raced' = raced
      BY <1>0, <1>1 DEF CalendarOk, CalendarFails, DetachedCallEnds, RequestInv, Untouched
    <3>2. effects'[r] = {"calendar"}
      BY <1>0, <2>2, <3>1 DEF TypeOK, CalendarEffect
    <3>3. pc'[r] \in {"commit", "calendarError", "abandoned"}
      BY <1>0, <1>1 DEF CalendarOk, CalendarFails, DetachedCallEnds, Goto, TypeOK
    <3> QED
      BY <2>2, <3>1, <3>2, <3>3
  <2> QED
    BY <1>1, <2>1, <2>2 DEF CalendarOk, CalendarFails, DetachedCallEnds
<1>2. CASE CommitOk(r) \/ CommitFails(r)
  <2>1. CASE UNCHANGED <<rows, effects>>
    BY <1>2, <2>1 DEF CommitOk, CommitFails
  <2>2. CASE CommitEffect(r)
    <3>1. /\ pc[r] = "commit" /\ effects[r] = {"calendar"} /\ events' = events
          /\ raced' = raced /\ loaded' = loaded
      BY <1>0, <1>2 DEF CommitOk, CommitFails, RequestInv
    <3>2. effects'[r] = {"calendar", "row"}
      BY <1>0, <2>2, <3>1 DEF TypeOK, CommitEffect
    <3>3. pc'[r] \in {"ok", "refresh", "raised", "abandoned"}
      BY <1>0, <1>2 DEF CommitOk, CommitFails, Goto, TypeOK
    <3> QED
      BY <2>2, <3>1, <3>2, <3>3
  <2> QED
    BY <1>2, <2>1, <2>2 DEF CommitOk, CommitFails
<1>3. CASE ~(\/ CalendarOk(r) \/ CalendarFails(r) \/ DetachedCallEnds(r)
             \/ CommitOk(r) \/ CommitFails(r))
  BY <1>3 DEF Step, Proceed, Receive, LookupClient, CreateClient, FindOverlap, Load,
              Detach, Refresh, SendSms, SendEmail, DbError, Abandon
<1> QED
  BY <1>1, <1>2, <1>3

\* What a calendar call does to one event, and what a commit does to one row.
LEMMA EventFields ==
  ASSUME RequestsInv, NEW r \in Requests, CalendarEffect(r), pc[r] # "idle",
         NEW a \in Requests
  PROVE  /\ a # req[r].target => events'[a] = events[a]
         /\ a = req[r].target =>
              /\ req[r].op = "book" => events'[a] = [state |-> "live", start |-> req[r].start,
                                                     end |-> req[r].end]
              /\ req[r].op = "cancel"
                 => /\ events'[a].state = "deleted"
                    /\ events'[a].start = events[a].start /\ events'[a].end = events[a].end
              /\ req[r].op = "reschedule"
                 => /\ events'[a].state = events[a].state
                    /\ events'[a].start = req[r].start /\ events'[a].end = req[r].end
<1>1. TypeOK /\ req[r] \in Request
  BY DEF RequestsInv, RequestInv
<1>2. events[a] \in [state : {"none", "live", "deleted"}, start : Int, end : Int]
  BY <1>1 DEF TypeOK
<1> QED
  BY <1>1, <1>2 DEF TypeOK, CalendarEffect, Request

LEMMA OtherRows ==
  ASSUME RequestsInv, NEW r \in Requests, pc[r] = "commit", CommitEffect(r),
         NEW a \in Requests, a # req[r].target
  PROVE  rows'[a] = rows[a]
BY CommitWritesRow

LEMMA BookedRow ==
  ASSUME RequestsInv, NEW r \in Requests, pc[r] = "commit", CommitEffect(r),
         NEW a \in Requests, a = req[r].target, req[r].op = "book"
  PROVE  /\ a = r /\ rows[a] = None /\ rows'[a] # None
         /\ rows'[a] = [client |-> req[r].client, start |-> req[r].start,
                        end |-> req[r].end, status |-> "confirmed"]
<1>1. TypeOK /\ RequestInv(r) /\ OwnInv(r)
  BY DEF RequestsInv
<1>2. rows'[a] = NewRow(r) /\ rows'[a] # None
  BY CommitWritesRow
<1>3. a = r /\ rows[a] = None
  BY <1>1 DEF RequestInv, OwnInv
<1> QED
  BY <1>1, <1>2, <1>3, NewRowFields

LEMMA CancelledRow ==
  ASSUME RequestsInv, NEW r \in Requests, pc[r] = "commit", CommitEffect(r),
         NEW a \in Requests, a = req[r].target, req[r].op = "cancel"
  PROVE  /\ rows[a] # None /\ rows'[a] # None
         /\ rows'[a].start = rows[a].start /\ rows'[a].end = rows[a].end
         /\ loaded[r].status = "cancelled" => rows'[a].status = rows[a].status
         /\ loaded[r].status # "cancelled" => rows'[a].status = "cancelled"
<1>1. TypeOK /\ RequestInv(r)
  BY DEF RequestsInv
<1>2. rows'[a] = NewRow(r) /\ rows'[a] # None /\ rows[a] # None
  BY <1>1, CommitWritesRow DEF RequestInv
<1> QED
  BY <1>1, <1>2, NewRowFields DEF Flush

LEMMA MovedRow ==
  ASSUME RequestsInv, NEW r \in Requests, pc[r] = "commit", CommitEffect(r),
         NEW a \in Requests, a = req[r].target, req[r].op = "reschedule"
  PROVE  /\ rows[a] # None /\ rows'[a] # None
         /\ rows'[a].start = Flush(rows[a].start, loaded[r].start, req[r].start)
         /\ rows'[a].end = Flush(rows[a].end, loaded[r].end, req[r].end)
         /\ rows'[a].status = Flush(rows[a].status, loaded[r].status, "rescheduled")
<1>1. TypeOK /\ RequestInv(r)
  BY DEF RequestsInv
<1>2. rows'[a] = NewRow(r) /\ rows'[a] # None /\ rows[a] # None
  BY <1>1, CommitWritesRow DEF RequestInv
<1> QED
  BY <1>1, <1>2, NewRowFields

\* A request that has ended takes no step; what it tore stays torn, and what it
\* moved or revived stays so.
LEMMA TornStep ==
  ASSUME TypeOK, NEW r \in Requests, Step(r), NEW a \in Requests, NEW op
  PROVE  pc[r] \notin Answers /\ (Torn(op, a) => Torn(op, a)') /\ raced \subseteq raced'
<1>1. pc[r] \notin Answers
  BY DEF Answers, Step, Proceed, Receive, LookupClient, CreateClient, FindOverlap, Load,
         CalendarOk, CalendarFails, Detach, DetachedCallEnds, CommitOk, CommitFails,
         Refresh, SendSms, SendEmail, DbError, Abandon
<1>2. Torn(op, a) => Torn(op, a)'
  BY <1>1, FrameStep DEF Torn, Answers
<1>3. raced \subseteq raced'
  BY DEF Step, Proceed, Receive, LookupClient, CreateClient, FindOverlap, Load,
         CalendarOk, CalendarFails, Detach, DetachedCallEnds, CommitOk, CommitFails,
         Refresh, SendSms, SendEmail, DbError, Abandon
<1> QED
  BY <1>1, <1>2, <1>3

LEMMA MoveStays ==
  ASSUME RequestsInv, NEW r \in Requests, Step(r), NEW a \in Requests
  PROVE  /\ \A q \in Requests : Moved(q, a) => Moved(q, a)'
         /\ Revived(a) => Revived(a)'
<1>1. ASSUME NEW q \in Requests, Moved(q, a)
      PROVE  Moved(q, a)' /\ loaded'[q] = loaded[q]
  <2>1. TypeOK /\ RequestInv(q) /\ pc[q] # "idle" /\ "row" \in effects[q]
    BY <1>1 DEF Moved, RequestsInv, RequestInv, Untouched
  <2>2. req'[q] = req[q]
    BY <2>1, FrameStep
  <2>3. "row" \in effects'[q] /\ loaded'[q] = loaded[q]
    <3>1. CASE q # r
      BY <2>1, <3>1, FrameStep
    <3>2. CASE q = r
      <4>1. pc[r] # "load"
        BY <2>1, <3>2 DEF RequestInv, Untouched
      <4>2. loaded' = loaded
        BY <4>1 DEF Step, Proceed, Receive, LookupClient, CreateClient, FindOverlap, Load,
           CalendarOk, CalendarFails, Detach, DetachedCallEnds, CommitOk, CommitFails,
           Refresh, SendSms, SendEmail, DbError, Abandon
      <4>3. "row" \in effects'[q]
        BY <2>1, <3>2, StoreStep
      <4> QED
        BY <4>2, <4>3
    <3> QED
      BY <3>1, <3>2
  <2> QED
    BY <1>1, <2>2, <2>3 DEF Moved
<1> QED
  BY <1>1 DEF Revived

\* A write that is not undone any more is in the table.
LEMMA UndoneStep ==
  ASSUME RequestsInv, NEW r \in Requests, Step(r), NEW a \in Requests, NEW op,
         Undone(op, a)
  PROVE  \/ Undone(op, a)'
         \/ /\ pc[r] = "commit" /\ CommitEffect(r)
            /\ req[r].op = op /\ req[r].target = a
<1>1. PICK q \in Requests : effects[q] = {"calendar"} /\ req[q].op = op /\ req[q].target = a
  BY DEF Undone
<1>2. TypeOK /\ RequestInv(q) /\ pc[q] # "idle"
  BY <1>1 DEF RequestsInv, RequestInv, Untouched
<1>3. req'[q] = req[q]
  BY <1>2, FrameStep
<1>4. CASE effects'[q] = effects[q]
  BY <1>1, <1>3, <1>4 DEF Undone
<1>5. CASE effects'[q] # effects[q]
  <2>1. q = r
    BY <1>2, <1>5, FrameStep
  <2> QED
    BY <1>1, <1>5, <2>1, StoreStep
<1> QED
  BY <1>4, <1>5

\* With nobody between the two writes, what is undone is torn.
LEMMA UndoneIsTorn ==
  ASSUME RequestsInv, NEW a \in Requests, Settled(a), NEW op, Undone(op, a)
  PROVE  Torn(op, a)
<1>1. PICK q \in Requests : effects[q] = {"calendar"} /\ req[q].op = op /\ req[q].target = a
  BY DEF Undone
<1>2. TypeOK /\ RequestInv(q) /\ pc[q] # "commit"
  BY <1>1 DEF RequestsInv, Settled
<1>3. pc[q] \notin Untouched \union Written \union {"commit"}
  BY <1>1, <1>2 DEF RequestInv
<1>4. pc[q] \in Answers
  BY <1>2, <1>3 DEF TypeOK, Steps, Answers, Untouched, Written
<1> QED
  BY <1>1, <1>4 DEF Torn

\* Whoever works on a row that is in the table holds a copy of it.
LEMMA WorkerHolds ==
  ASSUME RequestsInv, NEW p \in Requests, NEW a \in Requests, rows[a] # None,
         pc[p] \in {"calendar", "detached", "commit"}, req[p].target = a
  PROVE  Holds(p, a)
<1>1. RequestInv(p) /\ OwnInv(a) /\ RequestInv(a)
  BY DEF RequestsInv
<1>2. req[p].op # "book"
  <2> SUFFICES ASSUME req[p].op = "book" PROVE FALSE
    OBVIOUS
  <2>1. p = a
    BY <1>1 DEF RequestInv
  <2>2. "row" \in effects[a]
    BY <1>1 DEF OwnInv
  <2> QED
    BY <1>1, <2>1, <2>2 DEF RequestInv, Untouched
<1> QED
  BY <1>2 DEF Holds

\* A copy is taken by Load and let go by the end of the request.
LEMMA HoldStep ==
  ASSUME RequestsInv, NEW r \in Requests, Step(r), NEW q \in Requests,
         NEW a \in Requests, Holds(q, a)'
  PROVE  \/ /\ q = r /\ Load(r) /\ Found(r) /\ req[r].target = a
         \/ /\ Holds(q, a) /\ loaded'[q] = loaded[q] /\ req'[q] = req[q]
            /\ q = r => pc[r] = "calendar"
<1>0. TypeOK /\ RequestInv(r)
  BY DEF RequestsInv
<1>1. CASE q # r
  BY <1>0, <1>1, FrameStep DEF Holds
<1>2. CASE q = r
  BY <1>0, <1>2 DEF TypeOK, Holds, Goto, Step, Proceed, Receive, LookupClient, CreateClient,
         FindOverlap, Load, CalendarOk, CalendarFails, Detach, DetachedCallEnds, CommitOk,
         CommitFails, Refresh, SendSms, SendEmail, DbError, Abandon, RequestInv, Found
<1> QED
  BY <1>1, <1>2

LEMMA CopyStep ==
  ASSUME RequestsInv, StoresInv, NEW r \in Requests, Step(r), NEW q \in Requests
  PROVE  CopyInv(q)'
<1>0. TypeOK /\ CopyInv(q) /\ RequestInv(q) /\ RequestInv(r)
  BY DEF RequestsInv, StoresInv
<1>a. pc'[q] # "idle" => req'[q] \in Request
  BY <1>0, RequestStep, TypeStep DEF RequestsInv, RequestInv
<1> SUFFICES ASSUME NEW a \in Requests, a = req'[q].target,
                    pc'[q] \in {"calendar", "detached", "commit"}, req'[q].op # "book",
                    loaded'[q].status = "cancelled", Active(rows'[a])
             PROVE  \E p \in Requests : Moved(p, a)'
  BY <1>a DEF CopyInv, Active, Moved, Request
<1>1. CASE Load(r) /\ q = r
  BY <1>0, <1>1, NoneAssumption DEF TypeOK, CopyInv, Load, Goto, Found, Request, Active
<1>2. CASE ~(Load(r) /\ q = r)
  <2>1. /\ pc[q] \in {"calendar", "detached", "commit"}
        /\ req'[q] = req[q] /\ loaded'[q] = loaded[q]
    <3>1. CASE q # r
      BY <1>0, <3>1, FrameStep
    <3>2. CASE q = r
      BY <1>0, <1>2, <3>2 DEF RequestInv, TypeOK, Goto, Step, Proceed, Receive, LookupClient,
           CreateClient, FindOverlap, CalendarOk, CalendarFails, Detach,
           DetachedCallEnds, CommitOk, CommitFails, Refresh, SendSms, SendEmail, DbError, Abandon
    <3> QED
      BY <3>1, <3>2
  <2>2. rows[a] # None /\ a = req[q].target
    BY <1>0, <2>1 DEF RequestInv
  <2>3. CASE Active(rows[a])
    BY <1>0, <2>1, <2>2, <2>3, MoveStays DEF CopyInv
  <2>4. CASE ~Active(rows[a])
    <3>1. rows[a].status = "cancelled" /\ rows'[a].status # "cancelled"
      BY <2>2, <2>4 DEF Active
    <3>2. /\ pc[r] = "commit" /\ CommitEffect(r) /\ a = req[r].target
          /\ effects'[r] = {"calendar", "row"} /\ req'[r] = req[r]
      <4>1. pc[r] = "commit" /\ CommitEffect(r) /\ effects'[r] = {"calendar", "row"}
        BY <3>1, StoreStep
      <4> QED
        BY <1>0, <3>1, <4>1, OtherRows, FrameStep
    <3>3. req[r].op = "reschedule"
      <4>1. req[r].op \in {"book", "cancel", "reschedule"}
        BY <1>0, <3>2 DEF RequestInv, Request
      <4>2. req[r].op # "cancel"
        BY <3>1, <3>2, CancelledRow
      <4>3. req[r].op # "book"
        BY <2>2, <3>2, BookedRow
      <4> QED
        BY <4>1, <4>2, <4>3
    <3> QED
      BY <3>2, <3>3 DEF Moved
  <2> QED
    BY <2>3, <2>4
<1> QED
  BY <1>1, <1>2

LEMMA EventInvStep ==
  ASSUME RequestsInv, StoresInv, NEW r \in Requests, Step(r), NEW a \in Requests
  PROVE  EventInv(a)'
<1>0. /\ TypeOK /\ RequestInv(r) /\ OwnInv(r) /\ EventInv(a) /\ CopyInv(r) /\ CancelInv(r)
      /\ pc[r] # "idle" => req[r] \in Request /\ req'[r] = req[r]
  BY FrameStep DEF RequestsInv, StoresInv, RequestInv
<1>m. \A q \in Requests : Moved(q, a) => Moved(q, a)'
  BY MoveStays
<1> SUFFICES ASSUME rows'[a] # None
             PROVE  /\ events'[a].state \in {"live", "deleted"}
                    /\ rows'[a].status = "cancelled" => events'[a].state = "deleted"
                    /\ Active(rows'[a]) /\ events'[a].state # "live"
                       => Undone("cancel", a)' \/ \E q \in Requests : Moved(q, a)'
                    /\ Active(rows'[a]) /\ ~SameTime(rows'[a], events'[a])
                       => Undone("reschedule", a)' \/ \E q \in Requests : Moved(q, a)'
  BY DEF EventInv, Held, Active, SameTime
<1>1. CASE rows' = rows /\ events' = events /\ effects' = effects
  <2>1. \A op : Undone(op, a) => Undone(op, a)'
    <3> SUFFICES ASSUME NEW op, Undone(op, a) PROVE Undone(op, a)'
      OBVIOUS
    <3>1. PICK q \in Requests : effects[q] = {"calendar"} /\ req[q].op = op /\ req[q].target = a
      BY DEF Undone
    <3>2. pc[q] # "idle"
      BY <3>1 DEF RequestsInv, RequestInv, Untouched
    <3>3. req'[q] = req[q]
      BY <1>0, <3>2, FrameStep
    <3> QED
      BY <1>1, <3>1, <3>3 DEF Undone
  <2> QED
    BY <1>0, <1>1, <1>m, <2>1 DEF EventInv, Held
<1>2. CASE /\ pc[r] \in {"calendar", "detached"} /\ CalendarEffect(r) /\ rows' = rows
           /\ effects'[r] = {"calendar"}
  <2>1. \A op : Undone(op, a) => Undone(op, a)'
    BY <1>2, UndoneStep
  <2>2. CASE a # req[r].target
    <3>1. events'[a] = events[a]
      BY <1>2, <2>2, EventFields
    <3> QED
      BY <1>0, <1>2, <1>m, <2>1, <3>1 DEF EventInv, Held
  <2>3. CASE a = req[r].target
    <3>1. req[r].op # "book"
      BY <1>2, <2>3, WorkerHolds DEF Holds
    <3>2. CASE req[r].op = "cancel"
      <4>1. /\ events'[a].state = "deleted"
            /\ events'[a].start = events[a].start /\ events'[a].end = events[a].end
        BY <1>2, <2>3, <3>2, EventFields
      <4>2. Undone("cancel", a)'
        BY <1>0, <1>2, <2>3, <3>2 DEF Undone
      <4> QED
        BY <1>0, <1>2, <1>m, <2>1, <4>1, <4>2 DEF EventInv, SameTime
    <3>3. CASE req[r].op = "reschedule"
      <4>1. events'[a].state = events[a].state
        BY <1>2, <2>3, <3>3, EventFields
      <4>2. Undone("reschedule", a)'
        BY <1>0, <1>2, <2>3, <3>3 DEF Undone
      <4> QED
        BY <1>0, <1>2, <1>m, <2>1, <4>1, <4>2 DEF EventInv, Held
    <3> QED
      BY <1>0, <1>2, <3>1, <3>2, <3>3 DEF Request
  <2> QED
    BY <2>2, <2>3
<1>3. CASE /\ pc[r] = "commit" /\ CommitEffect(r) /\ events' = events
           /\ effects[r] = {"calendar"} /\ effects'[r] = {"calendar", "row"}
  <2>1. CASE a # req[r].target
    <3>1. rows'[a] = rows[a]
      BY <1>3, <2>1, OtherRows
    <3>2. \A op : Undone(op, a) => Undone(op, a)'
      BY <2>1, UndoneStep
    <3> QED
      BY <1>0, <1>3, <1>m, <3>1, <3>2 DEF EventInv, Held
  <2>2. CASE a = req[r].target
    <3>1. CASE req[r].op = "book"
      <4>1. rows'[a] = [client |-> req[r].client, start |-> req[r].start,
                        end |-> req[r].end, status |-> "confirmed"] /\ a = r
        BY <1>3, <2>2, <3>1, BookedRow
      <4>2. events[a] = [state |-> "live", start |-> req[r].start, end |-> req[r].end]
        BY <1>0, <1>3, <3>1, <4>1 DEF OwnInv
      <4> QED
        BY <1>3, <4>1, <4>2 DEF SameTime
    <3>2. CASE req[r].op = "cancel"
      <4>1. events[a].state = "deleted"
        BY <1>0, <1>3, <2>2, <3>2 DEF CancelInv
      <4>2. Active(rows'[a]) => \E q \in Requests : Moved(q, a)
        <5>1. /\ rows[a] # None /\ rows'[a] # None
              /\ loaded[r].status = "cancelled" => rows'[a].status = rows[a].status
              /\ loaded[r].status # "cancelled" => rows'[a].status = "cancelled"
          BY <1>3, <2>2, <3>2, CancelledRow
        <5> QED
          BY <1>0, <1>3, <2>2, <3>2, <5>1 DEF CopyInv, Active
      <4> QED
        BY <1>3, <1>m, <4>1, <4>2
    <3>3. CASE req[r].op = "reschedule"
      <4>1. Moved(r, a)'
        BY <1>0, <1>3, <2>2, <3>3 DEF Moved
      <4>2. rows[a] # None
            /\ rows'[a].status = Flush(rows[a].status, loaded[r].status, "rescheduled")
        BY <1>3, <2>2, <3>3, MovedRow
      <4>3. rows'[a].status = "cancelled" => rows[a].status = "cancelled"
        BY <4>2 DEF Flush
      <4> QED
        BY <1>0, <1>3, <4>1, <4>2, <4>3 DEF EventInv
    <3> QED
      BY <1>0, <1>3, <3>1, <3>2, <3>3 DEF Request
  <2> QED
    BY <2>1, <2>2
<1> QED
  BY <1>1, <1>2, <1>3, StoreStep

LEMMA CancelInvStep ==
  ASSUME RequestsInv, StoresInv, NEW r \in Requests, Step(r), NEW q \in Requests
  PROVE  CancelInv(q)'
<1>0. /\ TypeOK /\ RequestInv(r) /\ RequestInv(q) /\ HolderInv(r) /\ CopyInv(r)
      /\ CancelInv(q)
      /\ pc[q] # "idle" => req[q] \in Request /\ req'[q] = req[q]
      /\ pc[r] # "idle" => req[r] \in Request /\ req'[r] = req[r]
  BY FrameStep DEF RequestsInv, StoresInv, RequestInv
<1>1. CASE pc[q] = "idle"
  <2>1. effects'[q] = {}
    <3>1. effects[q] = {}
      BY <1>0, <1>1 DEF RequestInv, Untouched
    <3>2. CASE q # r
      BY <1>0, <3>1, <3>2, FrameStep
    <3>3. CASE q = r
      BY <1>1, <3>1, <3>3, StoreStep
    <3> QED
      BY <3>2, <3>3
  <2> QED
    BY <2>1 DEF CancelInv
<1>2. CASE pc[q] # "idle"
  <2> SUFFICES ASSUME req[q].op = "cancel", NEW a \in Requests, a = req[q].target
               PROVE  /\ "calendar" \in effects'[q] => events'[a].state = "deleted"
                      /\ "row" \in effects'[q] /\ Active(rows'[a])
                         => /\ \E p \in Requests : Moved(p, a)'
                            /\ a \notin raced' => Revived(a)'
    BY <1>0, <1>2 DEF CancelInv, Active, Request, Moved, Revived
  <2>0. req'[q] = req[q]
    BY <1>0, <1>2
  <2>s. /\ \A p \in Requests : Moved(p, a) => Moved(p, a)'
        /\ Revived(a) => Revived(a)'
        /\ raced \subseteq raced'
    BY <1>0, <2>0, MoveStays, TornStep
  <2>1. ASSUME "calendar" \in effects'[q] PROVE events'[a].state = "deleted"
    <3>1. CASE "calendar" \in effects[q]
      <4>1. events[a].state = "deleted" /\ rows[a] # None
        BY <1>0, <1>2, <3>1 DEF CancelInv, RequestInv
      <4>2. CASE events'[a] = events[a]
        BY <4>1, <4>2
      <4>3. CASE events'[a] # events[a]
        <5>1. pc[r] \in {"calendar", "detached"} /\ req[r].target = a /\ CalendarEffect(r)
          BY <2>0, <4>3, EventStep
        <5>2. req[r].op # "book"
          BY <2>0, <4>1, <5>1, WorkerHolds DEF Holds
        <5> QED
          BY <1>0, <2>0, <4>1, <5>1, <5>2, EventFields DEF Request
      <4> QED
        BY <4>2, <4>3
    <3>2. CASE "calendar" \notin effects[q]
      <4>1. q = r
        BY <1>0, <2>1, <3>2, FrameStep
      <4>2. pc[r] \in {"calendar", "detached"} /\ CalendarEffect(r)
        BY <2>1, <3>2, <4>1, StoreStep
      <4> QED
        BY <2>0, <4>1, <4>2, EventFields
    <3> QED
      BY <3>1, <3>2
  <2>2. ASSUME "row" \in effects'[q], Active(rows'[a])
        PROVE  /\ \E p \in Requests : Moved(p, a)'
               /\ a \notin raced' => Revived(a)'
    <3>1. CASE "row" \notin effects[q]
      <4>1. q = r
        BY <1>0, <2>2, <3>1, FrameStep
      <4>2. pc[r] = "commit" /\ CommitEffect(r)
        BY <2>2, <3>1, <4>1, StoreStep
      <4>3. /\ rows[a] # None
            /\ loaded[r].status = "cancelled" => rows'[a].status = rows[a].status
            /\ loaded[r].status # "cancelled" => rows'[a].status = "cancelled"
        BY <4>1, <4>2, CancelledRow
      <4>4. loaded[r].status = "cancelled" /\ Active(rows[a])
        BY <2>2, <4>3 DEF Active
      <4>5. a \in raced
        BY <1>0, <4>1, <4>2, <4>4 DEF HolderInv, Holds, Active
      <4> QED
        BY <1>0, <2>s, <4>1, <4>2, <4>4, <4>5 DEF CopyInv
    <3>2. CASE "row" \in effects[q] /\ Active(rows[a])
      BY <1>0, <1>2, <2>s, <3>2 DEF CancelInv
    <3>3. CASE "row" \in effects[q] /\ ~Active(rows[a])
      <4>1. rows[a] # None /\ rows[a].status = "cancelled"
        BY <1>0, <3>3 DEF RequestInv, Active
      <4>2. pc[r] = "commit" /\ CommitEffect(r) /\ effects'[r] = {"calendar", "row"}
            /\ loaded' = loaded
        BY <2>2, <3>3, StoreStep
      <4>3. a = req[r].target
        BY <2>2, <3>3, <4>2, OtherRows DEF Active
      <4>4. req[r].op = "reschedule"
        <5>1. req[r].op \in {"book", "cancel", "reschedule"}
          BY <1>0, <4>2 DEF Request
        <5>2. req[r].op # "cancel"
          BY <2>2, <4>1, <4>2, <4>3, CancelledRow DEF Active
        <5>3. req[r].op # "book"
          BY <4>1, <4>2, <4>3, BookedRow
        <5> QED
          BY <5>1, <5>2, <5>3
      <4>5. Moved(r, a)'
        BY <1>0, <4>2, <4>3, <4>4 DEF Moved
      <4>6. a \notin raced => loaded'[r].status = "cancelled"
        BY <1>0, <4>1, <4>2, <4>3, <4>4 DEF HolderInv, Holds
      <4> QED
        BY <2>s, <4>5, <4>6 DEF Revived
    <3> QED
      BY <3>1, <3>2, <3>3
  <2> QED
    BY <2>1, <2>2
<1> QED
  BY <1>1, <1>2

LEMMA HolderStep ==
  ASSUME RequestsInv, ClashInv, StoresInv, NEW r \in Requests, Step(r), NEW q \in Requests
  PROVE  HolderInv(q)'
<1>0. TypeOK /\ RequestInv(r) /\ RequestInv(q) /\ MovedInv(r) /\ HolderInv(q) /\ HolderInv(r)
  BY DEF RequestsInv, ClashInv, StoresInv
<1>a. pc'[q] # "idle" => req'[q] \in Request
  BY <1>0, RequestStep, TypeStep DEF RequestsInv, RequestInv
<1> SUFFICES ASSUME NEW a \in Requests, a = req'[q].target, Holds(q, a)', a \notin raced'
             PROVE  /\ \A p \in Requests : Holds(p, a)' => p = q
                    /\ loaded'[q] = [start |-> rows'[a].start, end |-> rows'[a].end,
                                     status |-> rows'[a].status]
                    /\ pc'[q] = "commit" /\ req'[q].op = "reschedule" =>
                         /\ Held(a)' => SameTime(events'[a], req'[q])
                         /\ Active(rows'[a]) /\ ~Held(a)' => Torn("cancel", a)' \/ Revived(a)'
  <2> SUFFICES ASSUME Holds(q, req[q].target)', req'[q].target \notin raced'
               PROVE  HolderInv(q)'
    BY DEF HolderInv
  <2>1. req'[q].target \in Requests
    BY <1>a DEF Holds, Request
  <2> QED
    BY <2>1 DEF HolderInv, Holds, Torn, Revived, Moved, Held, Active, SameTime
<1>1. a \notin raced
  BY <1>0, TornStep
<1>2. CASE q = r /\ Load(r) /\ Found(r)
  <2>1. /\ req' = req /\ rows' = rows /\ pc'[q] = "calendar"
        /\ loaded'[q] = [start |-> rows[a].start, end |-> rows[a].end,
                         status |-> rows[a].status]
        /\ \A p \in Requests : ~Holds(p, a)
    BY <1>0, <1>1, <1>2 DEF TypeOK, Load, Goto
  <2>2. \A p \in Requests : Holds(p, a)' => p = q
    BY <1>1, <1>2, <2>1, HoldStep
  <2> QED
    BY <2>1, <2>2
<1>3. CASE Holds(q, a) /\ loaded'[q] = loaded[q] /\ req'[q] = req[q]
           /\ (q = r => pc[r] = "calendar")
  <2>1. /\ \A p \in Requests : Holds(p, a) => p = q
        /\ loaded[q] = [start |-> rows[a].start, end |-> rows[a].end,
                        status |-> rows[a].status]
        /\ pc[q] = "commit" /\ req[q].op = "reschedule" =>
             /\ Held(a) => SameTime(events[a], req[q])
             /\ Active(rows[a]) /\ ~Held(a) => Torn("cancel", a) \/ Revived(a)
    BY <1>0, <1>1, <1>3 DEF HolderInv, Holds
  <2>2. rows[a] # None
    BY <1>0, <1>3 DEF RequestInv, Holds
  <2>3. \A p \in Requests : /\ pc[p] \in {"calendar", "detached", "commit"}
                           /\ req[p].target = a => p = q
    BY <1>1, <2>1, <2>2, WorkerHolds
  <2>4. rows'[a] = rows[a]
    BY <1>0, <1>1, <1>3, <2>3, TableStep
  <2>5. \A p \in Requests : Holds(p, a)' => p = q
    <3> SUFFICES ASSUME NEW p \in Requests, Holds(p, a)', p # q PROVE FALSE
      OBVIOUS
    <3>1. ~Holds(p, a)
      BY <2>1
    <3>2. p = r /\ Load(r) /\ Found(r) /\ req[r].target = a
      BY <1>1, <3>1, HoldStep
    <3>3. a \in raced'
      BY <1>3, <3>2 DEF Load
    <3> QED
      BY <3>3
  <2>6. (Torn("cancel", a) => Torn("cancel", a)') /\ (Revived(a) => Revived(a)')
    BY <1>0, TornStep, MoveStays
  <2>7. ASSUME pc'[q] = "commit", req'[q].op = "reschedule"
        PROVE  /\ Held(a)' => SameTime(events'[a], req'[q])
               /\ Active(rows'[a]) /\ ~Held(a)' => Torn("cancel", a)' \/ Revived(a)'
    <3>1. CASE q = r
      <4>1. CalendarOk(r)
        BY <1>0, <1>3, <2>7, <3>1 DEF TypeOK, Goto, Step, Proceed, Receive, LookupClient,
             CreateClient, FindOverlap, Load, CalendarFails, Detach, DetachedCallEnds,
             CommitOk, CommitFails, Refresh, SendSms, SendEmail, DbError, Abandon
      <4>2. /\ events'[a].state = events[a].state
            /\ events'[a].start = req[r].start /\ events'[a].end = req[r].end
        BY <1>3, <2>7, <3>1, <4>1, EventFields DEF Holds, CalendarOk
      <4>3. Settled(a)
        BY <1>3, <2>3, <3>1 DEF Settled
      <4>4. Active(rows[a]) /\ ~Held(a) => Torn("cancel", a) \/ Revived(a)
        BY <1>1, <4>3 DEF StoresInv, AloneInv, DifferOnlyFor
      <4> QED
        BY <1>3, <2>4, <2>6, <3>1, <4>2, <4>4 DEF Held, SameTime
    <3>2. CASE q # r
      <4>1. pc[q] = "commit"
        BY <1>0, <2>7, <3>2, FrameStep
      <4>2. events'[a] = events[a]
        BY <1>1, <2>3, <3>2, EventStep
      <4> QED
        BY <1>3, <2>1, <2>4, <2>6, <2>7, <4>1, <4>2 DEF Held
    <3> QED
      BY <3>1, <3>2
  <2> QED
    BY <1>3, <2>1, <2>4, <2>5, <2>7
<1> QED
  BY <1>1, <1>2, <1>3, HoldStep

LEMMA AloneStep ==
  ASSUME RequestsInv, ClashInv, StoresInv, NEW r \in Requests, Step(r), NEW a \in Requests,
         a \notin raced', Settled(a)'
  PROVE  DifferOnlyFor(a, FALSE)'
<1>0. /\ TypeOK /\ RequestInv(r) /\ HolderInv(r) /\ OwnInv(r) /\ CancelInv(r)
      /\ EventInv(a) /\ a \notin raced
      /\ pc[r] # "idle" => req[r] \in Request /\ req'[r] = req[r]
  BY TornStep, FrameStep DEF RequestsInv, StoresInv, RequestInv
<1>s. /\ \A op : Torn(op, a) => Torn(op, a)'
      /\ Revived(a) => Revived(a)'
  BY <1>0, TornStep, MoveStays
<1>t. ASSUME effects'[r] = {"calendar"}, pc'[r] \in Answers, req[r].target = a,
             pc[r] # "idle", NEW op, req[r].op = op
      PROVE  Torn(op, a)'
  BY <1>0, <1>t DEF Torn
<1> SUFFICES /\ Held(a)' /\ ~Active(rows'[a]) => Torn("book", a)'
             /\ Active(rows'[a]) /\ ~Held(a)' => Torn("cancel", a)' \/ Revived(a)'
             /\ Active(rows'[a]) /\ Held(a)' /\ ~SameTime(rows'[a], events'[a])
                => Torn("reschedule", a)'
  BY DEF DifferOnlyFor, Active, SameTime
<1>1. CASE pc[r] = "commit" /\ req[r].target = a
  <2>0. /\ effects[r] = {"calendar"} /\ events' = events /\ loaded' = loaded
        /\ CommitOk(r) \/ CommitFails(r)
    BY <1>0, <1>1 DEF RequestInv, Step, Proceed, Receive, LookupClient,
         CreateClient, FindOverlap, Load, CalendarOk, CalendarFails, Detach,
         DetachedCallEnds, CommitOk, CommitFails, Refresh, SendSms, SendEmail, DbError, Abandon
  <2>h. req[r].op # "book"
        => /\ rows[a] # None
           /\ loaded[r] = [start |-> rows[a].start, end |-> rows[a].end,
                           status |-> rows[a].status]
           /\ req[r].op = "reschedule" =>
                /\ Held(a) => SameTime(events[a], req[r])
                /\ Active(rows[a]) /\ ~Held(a) => Torn("cancel", a) \/ Revived(a)
    BY <1>0, <1>1 DEF HolderInv, Holds, RequestInv
  <2>1. CASE CommitEffect(r)
    <3>1. CASE req[r].op = "book"
      <4>1. rows'[a] = [client |-> req[r].client, start |-> req[r].start,
                        end |-> req[r].end, status |-> "confirmed"] /\ a = r
            /\ rows'[a] # None
        BY <1>1, <2>1, <3>1, BookedRow
      <4>2. events[a] = [state |-> "live", start |-> req[r].start, end |-> req[r].end]
        BY <1>0, <1>1, <3>1, <4>1 DEF OwnInv
      <4> QED
        BY <2>0, <4>1, <4>2 DEF SameTime, Active, Held
    <3>2. CASE req[r].op = "cancel"
      <4>1. events[a].state = "deleted"
        BY <1>0, <1>1, <2>0, <3>2 DEF CancelInv
      <4>2. rows'[a].status = "cancelled"
        BY <1>1, <2>1, <2>h, <3>2, CancelledRow
      <4> QED
        BY <2>0, <4>1, <4>2 DEF Active, Held
    <3>3. CASE req[r].op = "reschedule"
      <4>1. /\ rows'[a] # None
            /\ rows'[a].start = req[r].start /\ rows'[a].end = req[r].end
            /\ rows'[a].status = "rescheduled"
        BY <1>1, <2>1, <2>h, <3>3, MovedRow DEF Flush
      <4>2. ~Held(a) => Torn("cancel", a)' \/ Revived(a)'
        <5>1. CASE Active(rows[a])
          BY <1>s, <2>h, <3>3, <5>1
        <5>2. CASE ~Active(rows[a])
          <6>1. loaded'[r].status = "cancelled"
            BY <2>0, <2>h, <3>3, <5>2 DEF Active
          <6>2. Moved(r, a)'
            BY <1>0, <1>1, <2>0, <2>1, <3>3 DEF Moved, CommitEffect, TypeOK
          <6> QED
            BY <6>1, <6>2 DEF Revived
        <5> QED
          BY <5>1, <5>2
      <4> QED
        BY <2>0, <2>h, <3>3, <4>1, <4>2 DEF Active, Held, SameTime
    <3> QED
      BY <1>0, <1>1, <3>1, <3>2, <3>3 DEF Request
  <2>2. CASE ~CommitEffect(r)
    <3>1. pc'[r] \in Answers /\ effects' = effects /\ rows' = rows
      BY <1>0, <2>0, <2>2 DEF CommitOk, CommitFails, TypeOK, Goto, Answers
    <3>2. \A op : req[r].op = op => Torn(op, a)'
      BY <1>1, <1>t, <2>0, <3>1
    <3>3. CASE req[r].op = "book"
      <4>1. rows[a] = None
        BY <1>0, <1>1, <2>0, <3>3 DEF RequestInv, OwnInv
      <4> QED
        BY <3>1, <3>2, <3>3, <4>1 DEF Active
    <3>4. CASE req[r].op = "cancel"
      <4>1. events[a].state = "deleted"
        BY <1>0, <1>1, <2>0, <3>4 DEF CancelInv
      <4> QED
        BY <2>0, <3>2, <3>4, <4>1 DEF Held
    <3>5. CASE req[r].op = "reschedule"
      <4>1. Active(rows[a]) \/ ~Held(a)
        BY <1>0, <2>h, <3>5 DEF Active, EventInv, Held
      <4> QED
        BY <1>s, <2>0, <2>h, <3>1, <3>2, <3>5, <4>1 DEF Held
    <3> QED
      BY <1>0, <1>1, <3>3, <3>4, <3>5 DEF Request
  <2> QED
    BY <2>1, <2>2
<1>2. CASE ~(pc[r] = "commit" /\ req[r].target = a)
  <2>1. rows'[a] = rows[a]
    BY <1>0, <1>2, TableStep DEF ClashInv
  <2>2. Settled(a)
    <3> SUFFICES ASSUME NEW p \in Requests, pc[p] = "commit", req[p].target = a PROVE FALSE
      BY DEF Settled
    <3>1. p # r
      BY <1>2
    <3>2. pc'[p] = "commit" /\ req'[p].target = a
      BY <1>0, <3>1, FrameStep
    <3> QED
      BY <3>2 DEF Settled
  <2>3. DifferOnlyFor(a, FALSE)
    BY <1>0, <2>2 DEF StoresInv, AloneInv
  <2>4. CASE events'[a] = events[a]
    BY <1>s, <2>1, <2>3, <2>4 DEF DifferOnlyFor, Held
  <2>5. CASE events'[a] # events[a]
    <3>1. /\ pc[r] \in {"calendar", "detached"} /\ req[r].target = a
          /\ effects'[r] = {"calendar"} /\ CalendarEffect(r)
          /\ pc'[r] = "commit" \/ pc'[r] \in {"calendarError", "abandoned"}
      BY <2>5, EventStep
    <3>2. req'[r].target = a
      BY <1>0, <3>1
    <3>3. pc'[r] \in Answers
      BY <3>1, <3>2 DEF Settled, Answers
    <3>4. \A op : req[r].op = op => Torn(op, a)'
      BY <1>t, <3>1, <3>3
    <3>5. CASE req[r].op = "book"
      <4>1. rows[a] = None
        <5>1. a = r /\ effects[r] = {}
          BY <1>0, <3>1, <3>5 DEF RequestInv, Untouched
        <5> QED
          BY <1>0, <5>1 DEF OwnInv
      <4> QED
        BY <2>1, <3>4, <3>5, <4>1 DEF Active
    <3>6. CASE req[r].op = "cancel"
      <4>1. events'[a].state = "deleted"
        BY <3>1, <3>6, EventFields
      <4> QED
        BY <3>4, <3>6, <4>1 DEF Held
    <3>7. CASE req[r].op = "reschedule"
      <4>1. events'[a].state = events[a].state
        BY <3>1, <3>7, EventFields
      <4> QED
        BY <1>s, <2>1, <2>3, <3>4, <3>7, <4>1 DEF DifferOnlyFor, Held
    <3> QED
      BY <1>0, <3>1, <3>5, <3>6, <3>7 DEF Request
  <2> QED
    BY <2>4, <2>5
<1> QED
  BY <1>1, <1>2

\* With or without races, every difference has its cause.
LEMMA AgreeFollows ==
  ASSUME RequestsInv, StoresInv
  PROVE  StoresAgree
<1> SUFFICES ASSUME NEW a \in Requests, Settled(a) PROVE DifferOnlyFor(a, Mixed(a))
  BY DEF StoresAgree
<1>0. TypeOK /\ OwnInv(a) /\ RequestInv(a) /\ EventInv(a) /\ AloneInv(a)
  BY DEF RequestsInv, StoresInv
<1>1. CASE a \notin raced
  BY <1>0, <1>1 DEF AloneInv, DifferOnlyFor
<1>2. CASE a \in raced
  <2>1. ASSUME Held(a), ~Active(rows[a]) PROVE Torn("book", a)
    <3>1. rows[a] = None
      BY <1>0, <2>1 DEF EventInv, Held, Active
    <3>2. effects[a] = {"calendar"} /\ req[a].op = "book" /\ req[a].target = a
      BY <1>0, <2>1, <3>1 DEF OwnInv, RequestInv, Held
    <3>3. Undone("book", a)
      BY <3>2 DEF Undone
    <3> QED
      BY <3>3, UndoneIsTorn
  <2>2. ASSUME Active(rows[a]), ~Held(a) PROVE Torn("cancel", a) \/ Mixed(a)
    BY <1>0, <1>2, <2>2, UndoneIsTorn DEF EventInv, Active, Mixed
  <2>3. ASSUME Active(rows[a]), Held(a), ~SameTime(rows[a], events[a])
        PROVE  Torn("reschedule", a) \/ Mixed(a)
    BY <1>0, <1>2, <2>3, UndoneIsTorn DEF EventInv, Active, Mixed
  <2> QED
    BY <2>1, <2>2, <2>3 DEF DifferOnlyFor
<1> QED
  BY <1>1, <1>2

-----------------------------------------------------------------------------
(* Consent, ownership and confirmations *)

\* A tool's request past its first checks has the caller's consent, and the
\* row it works on is the caller's.
ToolInv(r) ==
  req[r].origin = "tool" =>
    /\ pc[r] \notin {"idle", "refused"} => req[r].confirmed /\ req[r].wellFormed
    /\ /\ pc[r] \in {"calendar", "detached", "commit"} \/ effects[r] # {}
       /\ rows[req[r].target] # None
       => rows[req[r].target].client = req[r].client

NoticeInv ==
  /\ \A r \in Requests : ToolInv(r)
  /\ NotifiedMeansBooked

LEMMA ToolStep ==
  ASSUME RequestsInv, ClashInv, NoticeInv, NEW r \in Requests, Step(r), NEW q \in Requests
  PROVE  ToolInv(q)'
<1>0. /\ TypeOK /\ RequestInv(r) /\ RequestInv(q) /\ MovedInv(r) /\ ToolInv(q)
      /\ OwnInv(q)
  BY DEF RequestsInv, ClashInv, NoticeInv
<1> SUFFICES ASSUME req'[q].origin = "tool"
             PROVE  /\ pc'[q] \notin {"idle", "refused"}
                       => req'[q].confirmed /\ req'[q].wellFormed
                    /\ /\ pc'[q] \in {"calendar", "detached", "commit"} \/ effects'[q] # {}
                       /\ rows'[req'[q].target] # None
                       => rows'[req'[q].target].client = req'[q].client
  BY DEF ToolInv
<1>1. CASE Receive(r) /\ q = r
  BY <1>0, <1>1, InputsAssumption
     DEF TypeOK, Receive, Refused, Goto, Input, RequestInv, Untouched
<1>2. CASE ~(Receive(r) /\ q = r)
  <2>1. /\ req'[q] = req[q]
        /\ pc'[q] = pc[q] \/ (pc[q] # "idle" /\ pc[q] \notin Answers)
    BY <1>0, <1>2, FrameStep, TornStep DEF Step, Proceed, LookupClient, CreateClient,
       FindOverlap, Load, CalendarOk, CalendarFails, Detach, DetachedCallEnds, CommitOk,
       CommitFails, Refresh, SendSms, SendEmail, DbError, Abandon, Answers
  <2>2. pc'[q] \notin {"idle", "refused"} => req[q].confirmed /\ req[q].wellFormed
    BY <1>0, <2>1 DEF ToolInv, Answers
  <2> DEFINE a == req[q].target
  <2>3. ASSUME pc'[q] \in {"calendar", "detached", "commit"} \/ effects'[q] # {},
               rows'[a] # None
        PROVE  rows'[a].client = req[q].client
    <3>1. a \in Requests /\ pc[q] # "idle"
      BY <1>0, <2>1, <2>3, FrameStep, TypeStep, RequestStep
         DEF RequestsInv, RequestInv, Request, Untouched
    <3>2. CASE req[q].op = "book"
      <4>1. a = q /\ RequestsInv
        BY <1>0, <3>1, <3>2 DEF RequestInv
      <4>2. OwnInv(q)'
        BY OwnStep, TypeStep, <1>0
      <4> QED
        BY <2>1, <2>3, <4>1, <4>2 DEF OwnInv
    <3>3. CASE req[q].op # "book"
      <4>1. rows[a] # None /\ rows[a].client = req[q].client
        <5>1. CASE pc[q] \in {"calendar", "detached", "commit"} \/ effects[q] # {}
          <6>1. rows[a] # None
            BY <1>0, <3>3, <5>1 DEF RequestInv
          <6> QED
            BY <1>0, <2>1, <5>1, <6>1 DEF ToolInv
        <5>2. CASE ~(pc[q] \in {"calendar", "detached", "commit"} \/ effects[q] # {})
          <6>1. q = r /\ pc[r] \notin {"calendar", "detached", "commit"} /\ effects[r] = {}
            BY <1>0, <2>3, <5>2, FrameStep
          <6>2. /\ r \in Requests /\ pc \in [Requests -> Steps \union Answers]
                /\ pc'[r] \in {"calendar", "detached", "commit"} \/ effects'[r] # {}
                /\ pc[r] \notin {"idle", "client", "newClient", "check", "sms", "email"}
            BY <1>0, <2>3, <3>1, <3>3, <6>1 DEF TypeOK, RequestInv
          <6>3. Load(r) \/ Refresh(r) \/ DbError(r) \/ Abandon(r)
            BY <1>2, <6>1, <6>2 DEF Step, Proceed, Receive, LookupClient, CreateClient,
               FindOverlap, CalendarOk, CalendarFails, Detach, DetachedCallEnds, CommitOk,
               CommitFails, SendSms, SendEmail
          <6>4. ~(Refresh(r) \/ DbError(r) \/ Abandon(r))
            BY <6>1, <6>2 DEF Refresh, DbError, Abandon, Goto
          <6>5. Load(r) /\ Found(r)
            BY <6>1, <6>2, <6>3, <6>4 DEF Load, Goto
          <6> QED
            BY <2>1, <6>1, <6>5 DEF Found
        <5> QED
          BY <5>1, <5>2
      <4> QED
        BY <1>0, <3>1, <4>1, TableStep
    <3> QED
      BY <3>2, <3>3
  <2> QED
    BY <2>1, <2>2, <2>3
<1> QED
  BY <1>1, <1>2

LEMMA NotifiedStep ==
  ASSUME RequestsInv, ClashInv, NoticeInv, NEW r \in Requests, Step(r), NEW q \in Requests,
         told'[q] # {}
  PROVE  /\ rows'[q] # None /\ effects'[q] = {"calendar", "row"}
         /\ pc'[q] \in {"sms", "email", "ok", "abandoned"}
<1>0. TypeOK /\ RequestInv(q) /\ MovedInv(r) /\ OwnInv(q)
  BY DEF RequestsInv, ClashInv
<1>1. rows[q] # None => rows'[q] # None
  BY <1>0, TableStep
<1>2. CASE q # r
  BY <1>0, <1>1, <1>2, FrameStep DEF NoticeInv, NotifiedMeansBooked
<1>3. CASE q = r /\ (SendSms(r) \/ SendEmail(r))
  BY <1>0, <1>1, <1>3 DEF TypeOK, Goto, SendSms, SendEmail, RequestInv, OwnInv, Written
<1>4. CASE q = r /\ ~(SendSms(r) \/ SendEmail(r))
  <2>1. told[q] # {}
    BY <1>4 DEF Step, Proceed, Receive, LookupClient, CreateClient, FindOverlap, Load,
         CalendarOk, CalendarFails, Detach, DetachedCallEnds, CommitOk, CommitFails,
         Refresh, DbError, Abandon
  <2>2. /\ rows[q] # None /\ effects[q] = {"calendar", "row"}
        /\ pc[q] \in {"sms", "email", "ok", "abandoned"}
    BY <2>1 DEF NoticeInv, NotifiedMeansBooked
  <2> QED
    BY <1>0, <1>1, <1>4, <2>2 DEF TypeOK, Goto, Step, Proceed, Receive, LookupClient,
         CreateClient, FindOverlap, Load, CalendarOk, CalendarFails, Detach,
         DetachedCallEnds, CommitOk, CommitFails, Refresh, DbError, Abandon
<1> QED
  BY <1>2, <1>3, <1>4

-----------------------------------------------------------------------------
(* The inductive invariant and the theorems *)

IInv == RequestsInv /\ ClashInv /\ StoresInv /\ NoticeInv

LEMMA InitIInv == Init => IInv
<1> SUFFICES ASSUME Init PROVE IInv
  OBVIOUS
<1> USE NoneAssumption DEF Init
<1>1. TypeOK
  BY DEF TypeOK, Steps, Answers
<1>2. \A r \in Requests : RequestInv(r) /\ OwnInv(r)
  BY DEF RequestInv, OwnInv, Untouched, Written
<1>3. \A r \in Requests : MovedInv(r) /\ ConfirmedInv(r) /\ SeenInv(r)
  BY DEF MovedInv, ConfirmedInv, SeenInv
<1>4. \A r \in Requests : CopyInv(r) /\ HolderInv(r) /\ CancelInv(r)
  BY DEF CopyInv, HolderInv, Holds, CancelInv
<1>5. \A a \in Requests : EventInv(a) /\ AloneInv(a)
  BY DEF EventInv, AloneInv, DifferOnlyFor, Held, Active
<1>6. \A r \in Requests : ToolInv(r)
  BY DEF ToolInv
<1>7. NotifiedMeansBooked
  BY DEF NotifiedMeansBooked
<1> QED
  BY <1>1, <1>2, <1>3, <1>4, <1>5, <1>6, <1>7
     DEF IInv, RequestsInv, ClashInv, StoresInv, NoticeInv

LEMMA NextIInv == IInv /\ [Next]_vars => IInv'
<1> SUFFICES ASSUME IInv, [Next]_vars PROVE IInv'
  OBVIOUS
<1>0. RequestsInv /\ ClashInv /\ StoresInv /\ NoticeInv
  BY DEF IInv
<1>1. ASSUME NEW r \in Requests, Step(r) PROVE IInv'
  <2>1. TypeOK'
    BY <1>0, <1>1, TypeStep DEF RequestsInv
  <2>2. RequestsInv'
    BY <1>0, <1>1, <2>1, RequestStep, OwnStep DEF RequestsInv
  <2>3. ClashInv'
    BY <1>0, <1>1, MovedStep, ConfirmedStep, SeenStep DEF ClashInv
  <2>4. StoresInv'
    <3>1. \A q \in Requests : CopyInv(q)' /\ HolderInv(q)' /\ CancelInv(q)'
      BY <1>0, <1>1, CopyStep, HolderStep, CancelInvStep
    <3>2. \A a \in Requests : EventInv(a)'
      BY <1>0, <1>1, EventInvStep
    <3>3. \A a \in Requests : AloneInv(a)'
      BY <1>0, <1>1, AloneStep DEF AloneInv
    <3> QED
      BY <3>1, <3>2, <3>3 DEF StoresInv
  <2>5. NoticeInv'
    <3>1. \A q \in Requests : ToolInv(q)'
      BY <1>0, <1>1, ToolStep
    <3>2. NotifiedMeansBooked'
      BY <1>0, <1>1, NotifiedStep DEF NotifiedMeansBooked
    <3> QED
      BY <3>1, <3>2 DEF NoticeInv
  <2> QED
    BY <2>2, <2>3, <2>4, <2>5 DEF IInv
<1>2. CASE UNCHANGED vars
  <2> USE <1>0, <1>2 DEF vars
  <2>1. RequestsInv'
    BY DEF RequestsInv, TypeOK, RequestInv, OwnInv
  <2>2. ClashInv'
    BY DEF ClashInv, MovedInv, ConfirmedInv, SeenInv
  <2> USE DEF Torn, Revived, Moved, Active, Held, SameTime
  <2>3. (\A r \in Requests : CopyInv(r) /\ HolderInv(r) /\ CancelInv(r))'
    BY DEF StoresInv, CopyInv, HolderInv, Holds, CancelInv
  <2>4. (\A a \in Requests : EventInv(a))'
    BY DEF StoresInv, EventInv, Undone
  <2>5. (\A a \in Requests : AloneInv(a))'
    <3> SUFFICES ASSUME NEW a \in Requests, a \notin raced', Settled(a)'
                 PROVE  DifferOnlyFor(a, FALSE)'
      BY DEF AloneInv
    <3>1. a \notin raced /\ Settled(a)
      BY DEF Settled
    <3>2. DifferOnlyFor(a, FALSE)
      BY <3>1 DEF StoresInv, AloneInv
    <3> QED
      BY <3>2 DEF DifferOnlyFor
  <2>6. NoticeInv'
    BY DEF NoticeInv, ToolInv, NotifiedMeansBooked
  <2> QED
    BY <2>1, <2>2, <2>3, <2>4, <2>5, <2>6 DEF IInv, StoresInv
<1> QED
  BY <1>1, <1>2 DEF Next, Step

LEMMA Invariance == Spec => []IInv
<1> QED
  BY InitIInv, NextIInv, PTL DEF Spec

\* Types, and every committed row ends after it starts.
THEOREM TypeCorrect == Spec => []TypeOK
<1>1. IInv => TypeOK
  BY DEF IInv, RequestsInv
<1> QED
  BY <1>1, Invariance, PTL

\* The table and the calendar differ only where a booking, a cancellation or a
\* reschedule failed between its two writes, each in its own way, where a cancelled
\* row was rescheduled, or where a reschedule raced for the row.
THEOREM StoresAgreement == Spec => []StoresAgree
<1>1. IInv => StoresAgree
  BY AgreeFollows DEF IInv
<1> QED
  BY <1>1, Invariance, PTL

\* A client is double-booked only by bookings blind to one another.
THEOREM DoubleBookingOnlyByRace == Spec => []OverlapOnlyByRace
<1>1. IInv => OverlapOnlyByRace
  <2> SUFFICES ASSUME IInv, NEW a \in Requests, NEW b \in Requests, a # b,
                      rows[a] # None, rows[b] # None,
                      rows[a].status = "confirmed", rows[b].status = "confirmed",
                      rows[a].client = rows[b].client, Overlap(rows[a], rows[b]),
                      a \in seen[b]
               PROVE  FALSE
    BY DEF OverlapOnlyByRace
  <2>1. RequestInv(b) /\ OwnInv(b) /\ ConfirmedInv(b) /\ SeenInv(b)
    BY DEF IInv, RequestsInv, ClashInv
  <2>2. pc[b] \notin {"duplicate", "conflict"} /\ rows[b].client = req[b].client
    BY <2>1 DEF RequestInv, OwnInv, Untouched
  <2>3. SameTime(rows[b], req[b])
    BY <2>1 DEF ConfirmedInv
  <2>4. ~Overlap(rows[a], req[b])
    BY <2>1, <2>2 DEF SeenInv
  <2> QED
    BY <2>3, <2>4 DEF Overlap, SameTime
<1> QED
  BY <1>1, Invariance, PTL

\* An acknowledged cancellation deletes the event for good, and only a reschedule
\* of the cancelled row, or one that raced for it, makes the row active again.
THEOREM CancellationSticks == Spec => []CancelSticks
<1>1. IInv => CancelSticks
  <2> SUFFICES ASSUME IInv, NEW r \in Requests, pc[r] = "ok", req[r].op = "cancel"
               PROVE  /\ events[req[r].target].state = "deleted"
                      /\ Active(rows[req[r].target])
                         => Revived(req[r].target) \/ Mixed(req[r].target)
    BY DEF CancelSticks
  <2>1. RequestInv(r) /\ CancelInv(r)
    BY DEF IInv, RequestsInv, StoresInv
  <2>2. effects[r] = {"calendar", "row"}
    BY <2>1 DEF RequestInv, Written
  <2> QED
    BY <2>1, <2>2 DEF CancelInv, Mixed
<1> QED
  BY <1>1, Invariance, PTL

\* Voice tools write only with consent and only for their caller.
THEOREM ToolsStayWithTheirCaller == Spec => []ToolsActForTheirCaller
<1>1. IInv => ToolsActForTheirCaller
  BY DEF IInv, RequestsInv, NoticeInv, RequestInv, ToolInv, Untouched, ToolsActForTheirCaller
<1> QED
  BY <1>1, Invariance, PTL

\* Nobody is told of a booking that does not exist.
THEOREM NoPhantomConfirmation == Spec => []NotifiedMeansBooked
<1>1. IInv => NotifiedMeansBooked
  BY DEF IInv, NoticeInv
<1> QED
  BY <1>1, Invariance, PTL

-----------------------------------------------------------------------------
(* Refinement of the abstract appointment book *)

\* Every time a request asks for, or a row holds, comes from an input.
InstantsInv ==
  /\ \A r \in Requests : pc[r] # "idle" => req[r].start \in Instants /\ req[r].end \in Instants
  /\ \A a \in Requests : rows[a] # None => rows[a].start \in Instants /\ rows[a].end \in Instants

LEMMA InstantsStep ==
  ASSUME RequestsInv, ClashInv, InstantsInv, NEW r \in Requests, Step(r)
  PROVE  InstantsInv'
<1>0. TypeOK /\ RequestInv(r) /\ MovedInv(r)
  BY DEF RequestsInv, ClashInv
<1>1. ASSUME NEW q \in Requests, pc'[q] # "idle"
      PROVE  req'[q].start \in Instants /\ req'[q].end \in Instants
  <2>1. CASE pc[q] # "idle"
    BY <1>0, <2>1, FrameStep DEF InstantsInv
  <2>2. CASE pc[q] = "idle"
    <3>1. q = r /\ Receive(r)
      BY <1>0, <1>1, <2>2, FrameStep DEF Step, Proceed, LookupClient, CreateClient, FindOverlap,
         Load, CalendarOk, CalendarFails, Detach, DetachedCallEnds, CommitOk, CommitFails,
         Refresh, SendSms, SendEmail, DbError, Abandon
    <3> QED
      BY <1>0, <3>1 DEF Receive, Instants, TypeOK
  <2> QED
    BY <2>1, <2>2
<1>2. ASSUME NEW a \in Requests, rows'[a] # None
      PROVE  rows'[a].start \in Instants /\ rows'[a].end \in Instants
  <2>1. CASE rows'[a] = rows[a]
    BY <1>2, <2>1 DEF InstantsInv
  <2>2. CASE rows'[a] # rows[a]
    <3>1. /\ pc[r] = "commit" /\ CommitEffect(r) /\ a = req[r].target
          /\ req[r].op # "book" => rows[a] # None
      BY <1>0, <2>2, TableStep
    <3>2. rows'[a] = NewRow(r) /\ req[r] \in Request
      BY <1>0, <3>1, CommitWritesRow DEF RequestInv
    <3>3. req[r].start \in Instants /\ req[r].end \in Instants
      BY <3>1 DEF InstantsInv
    <3>4. rows[a] # None => rows[a].start \in Instants /\ rows[a].end \in Instants
      BY DEF InstantsInv
    <3>5. CASE req[r].op = "book"
      BY <1>0, <3>1, <3>2, <3>3, <3>5, NewRowFields
    <3>6. CASE req[r].op = "cancel"
      BY <1>0, <3>1, <3>2, <3>3, <3>4, <3>6, NewRowFields
    <3>7. CASE req[r].op = "reschedule"
      BY <1>0, <3>1, <3>2, <3>3, <3>4, <3>7, NewRowFields DEF Flush
    <3> QED
      BY <3>2, <3>5, <3>6, <3>7 DEF Request
  <2> QED
    BY <2>1, <2>2
<1> QED
  BY <1>1, <1>2 DEF InstantsInv

\* The life of one appointment.
Entry(a) ==
  IF rows[a] = None THEN [state |-> "free"]
  ELSE IF rows[a].status = "cancelled" THEN [state |-> "cancelled"]
  ELSE [state |-> IF Held(a) THEN "booked" ELSE "unheld",
        start |-> rows[a].start, end |-> rows[a].end]

\* What one entry may become: a step of the abstract book, or none.
EntryMoves(old, new) ==
  \/ new = old
  \/ old = Abstract!Free /\ \E s \in Abstract!Slot : new = Abstract!Standing(TRUE, s)
  \/ old.state = "booked" /\ \E s \in Abstract!Slot : new = Abstract!Standing(TRUE, s)
  \/ old.state = "unheld" /\ \E s \in Abstract!Slot : new = Abstract!Standing(FALSE, s)
  \/ old.state = "booked" /\ new = Abstract!Standing(FALSE, <<old.start, old.end>>)
  \/ old.state = "unheld" /\ new = Abstract!Cancelled
  \/ old = Abstract!Cancelled /\ \E s \in Abstract!Slot : new = Abstract!Standing(FALSE, s)

\* Only the appointment of the request that steps can change its entry.
LEMMA EntryFrame ==
  ASSUME RequestsInv, NEW r \in Requests, Step(r),
         NEW a \in Requests, a # req'[r].target
  PROVE  Entry(a)' = Entry(a)
<1>0. TypeOK /\ (pc[r] # "idle" => req'[r] = req[r])
  BY FrameStep DEF RequestsInv
<1>1. rows'[a] = rows[a]
  BY <1>0, StoreStep, OtherRows
<1>2. events'[a] = events[a]
  BY <1>0, EventStep
<1> QED
  BY <1>1, <1>2 DEF Entry, Held

\* The entry of the request's own appointment takes one abstract step, or none.
LEMMA EntryStep ==
  ASSUME IInv, InstantsInv, IInv', InstantsInv', NEW r \in Requests, Step(r),
         NEW a \in Requests, a = req'[r].target
  PROVE  EntryMoves(Entry(a), Entry(a)')
<1>0. /\ RequestsInv /\ TypeOK /\ TypeOK' /\ RequestInv(r) /\ OwnInv(r) /\ CancelInv(r)
      /\ EventInv(a)
      /\ pc[r] # "idle" => req[r] \in Request /\ req'[r] = req[r]
  BY FrameStep DEF IInv, RequestsInv, StoresInv, RequestInv
<1>1. CASE rows' = rows /\ events' = events /\ effects' = effects
  BY <1>1 DEF Entry, Held, EntryMoves
<1>2. CASE pc[r] \in {"calendar", "detached"} /\ CalendarEffect(r) /\ rows' = rows
  <2>0. a = req[r].target
    BY <1>0, <1>2
  <2>1. CASE rows[a] = None \/ rows[a].status = "cancelled"
    BY <1>2, <2>1 DEF Entry, EntryMoves
  <2>2. CASE Active(rows[a])
    <3>0. rows[a] # None /\ rows[a].status # "cancelled"
      BY <2>2 DEF Active
    <3>1. req[r].op # "book"
      BY <1>0, <1>2, <2>0, <3>0, WorkerHolds DEF Holds
    <3>2. CASE events'[a].state = events[a].state
      BY <1>2, <3>2 DEF Entry, Held, EntryMoves
    <3>3. CASE events'[a].state # events[a].state
      <4>1. events'[a].state = "deleted"
        BY <1>0, <1>2, <2>0, <3>1, <3>3, EventFields DEF Request
      <4>2. Held(a)
        BY <1>0, <3>0, <3>3, <4>1 DEF EventInv, Held
      <4>3. /\ Entry(a) = [state |-> "booked", start |-> rows[a].start, end |-> rows[a].end]
            /\ Entry(a)' = [state |-> "unheld", start |-> rows[a].start, end |-> rows[a].end]
        BY <1>2, <3>0, <4>1, <4>2 DEF Entry, Held
      <4> QED
        BY <4>3 DEF EntryMoves, Abstract!Standing
    <3> QED
      BY <3>2, <3>3
  <2> QED
    BY <2>1, <2>2 DEF Active
<1>3. CASE /\ pc[r] = "commit" /\ CommitEffect(r) /\ events' = events
           /\ effects[r] = {"calendar"}
  <2>0. a = req[r].target
    BY <1>0, <1>3
  <2>1. Active(rows'[a]) => \E s \in Abstract!Slot : Entry(a)' = Abstract!Standing(Held(a), s)
    <3> SUFFICES ASSUME Active(rows'[a])
                 PROVE  \E s \in Abstract!Slot : Entry(a)' = Abstract!Standing(Held(a), s)
      OBVIOUS
    <3>1. rows'[a] \in Row /\ rows'[a].end > rows'[a].start /\ rows'[a] # None
      BY <1>0 DEF TypeOK, Active
    <3> DEFINE s == <<rows'[a].start, rows'[a].end>>
    <3>2. s \in Abstract!Slot
      BY <3>1 DEF InstantsInv, Abstract!Slot, Row
    <3>3. Entry(a)' = Abstract!Standing(Held(a), s)
      BY <1>3, <3>1 DEF Entry, Abstract!Standing, Active, Held
    <3> QED
      BY <3>2, <3>3
  <2>2. CASE req[r].op = "book"
    <3>1. /\ rows[a] = None /\ rows'[a] # None /\ rows'[a].status = "confirmed" /\ a = r
      <4>1. a = r /\ rows[a] = None
        BY <1>0, <1>3, <2>0, <2>2 DEF RequestInv, OwnInv
      <4>2. rows'[a] = [client |-> req[r].client, start |-> req[r].start,
                        end |-> req[r].end, status |-> "confirmed"] /\ rows'[a] # None
        BY <1>0, <1>3, <2>0, <2>2, BookedRow
      <4> QED
        BY <4>1, <4>2
    <3>2. Held(a)
      BY <1>0, <1>3, <2>2, <3>1 DEF OwnInv, Held
    <3>3. Entry(a) = Abstract!Free /\ Active(rows'[a])
      BY <3>1 DEF Entry, Active, Abstract!Free
    <3> QED
      BY <2>1, <3>2, <3>3 DEF EntryMoves
  <2>3. CASE req[r].op = "cancel"
    <3>1. /\ rows[a] # None /\ rows'[a] # None /\ ~Held(a)
          /\ rows'[a].start = rows[a].start /\ rows'[a].end = rows[a].end
          /\ rows'[a].status \in {rows[a].status, "cancelled"}
      BY <1>0, <1>3, <2>0, <2>3, CancelledRow DEF CancelInv, Held
    <3>2. CASE rows'[a].status = rows[a].status
      BY <1>3, <3>1, <3>2 DEF Entry, Held, EntryMoves
    <3>3. CASE rows'[a].status # rows[a].status
      <4>1. Entry(a).state = "unheld" /\ Entry(a)' = Abstract!Cancelled
        BY <3>1, <3>3 DEF Entry, Abstract!Cancelled
      <4> QED
        BY <4>1 DEF EntryMoves
    <3> QED
      BY <3>2, <3>3
  <2>4. CASE req[r].op = "reschedule"
    <3>1. /\ rows[a] # None /\ rows'[a] # None
          /\ rows'[a].status \in {rows[a].status, "rescheduled"}
      BY <1>0, <1>3, <2>0, <2>4, MovedRow DEF Flush
    <3>2. CASE Active(rows[a])
      <4>1. Active(rows'[a]) /\ Entry(a).state = IF Held(a) THEN "booked" ELSE "unheld"
        BY <3>1, <3>2 DEF Active, Entry
      <4>2. CASE Held(a)
        <5>1. \E s \in Abstract!Slot : Entry(a)' = Abstract!Standing(TRUE, s)
          BY <2>1, <4>1, <4>2 DEF Abstract!Standing
        <5> QED
          BY <4>1, <4>2, <5>1 DEF EntryMoves
      <4>3. CASE ~Held(a)
        <5>1. \E s \in Abstract!Slot : Entry(a)' = Abstract!Standing(FALSE, s)
          BY <2>1, <4>1, <4>3 DEF Abstract!Standing
        <5> QED
          BY <4>1, <4>3, <5>1 DEF EntryMoves
      <4> QED
        BY <4>2, <4>3
    <3>3. CASE ~Active(rows[a])
      <4>1. Entry(a) = Abstract!Cancelled /\ ~Held(a)
        BY <1>0, <3>1, <3>3 DEF Entry, Active, Abstract!Cancelled, EventInv, Held
      <4>2. CASE Active(rows'[a])
        <5>1. \E s \in Abstract!Slot : Entry(a)' = Abstract!Standing(FALSE, s)
          BY <2>1, <4>1, <4>2 DEF Abstract!Standing
        <5> QED
          BY <4>1, <5>1 DEF EntryMoves
      <4>3. CASE ~Active(rows'[a])
        BY <3>1, <4>1, <4>3 DEF Entry, Active, Abstract!Cancelled, EntryMoves
      <4> QED
        BY <4>2, <4>3
    <3> QED
      BY <3>2, <3>3
  <2> QED
    BY <1>0, <1>3, <2>2, <2>3, <2>4 DEF Request
<1> QED
  BY <1>0, <1>1, <1>2, <1>3, StoreStep

\* Every behaviour of the service, over any requests and times, is a behaviour of
\* the abstract appointment book.
THEOREM Refinement == Spec => ImplementsAppointmentBook
<1>1. Init => Abstract!Init
  BY DEF Init, Abstract!Init, Abstract!Free, PublicBook
<1>2. Init => InstantsInv
  BY DEF Init, InstantsInv
<1>3. IInv /\ InstantsInv /\ [Next]_vars => InstantsInv'
  <2> SUFFICES ASSUME IInv, InstantsInv, [Next]_vars PROVE InstantsInv'
    OBVIOUS
  <2>1. CASE Next
    BY <2>1, InstantsStep DEF Next, Step, IInv
  <2>2. CASE UNCHANGED vars
    BY <2>2 DEF vars, InstantsInv
  <2> QED
    BY <2>1, <2>2
<1>4. IInv /\ IInv' /\ InstantsInv /\ InstantsInv' /\ [Next]_vars
      => [Abstract!Next]_PublicBook
  <2> SUFFICES ASSUME IInv, IInv', InstantsInv, InstantsInv', [Next]_vars
               PROVE  [Abstract!Next]_PublicBook
    OBVIOUS
  <2>0. PublicBook = [x \in Requests |-> Entry(x)] /\ PublicBook' = [x \in Requests |-> Entry(x)']
    BY DEF PublicBook, Entry
  <2>1. CASE UNCHANGED vars
    BY <2>1 DEF vars, PublicBook, Held
  <2>2. ASSUME NEW r \in Requests, Step(r) PROVE [Abstract!Next]_PublicBook
    <3>0. RequestsInv /\ ClashInv /\ StoresInv /\ TypeOK /\ TypeOK' /\ RequestInv(r)'
      BY DEF IInv, RequestsInv
    <3>1. PICK a \in Requests : a = req'[r].target
      <4>1. pc'[r] # "idle"
        BY <2>2, <3>0 DEF TypeOK, Goto, Step, Proceed, Receive, LookupClient, CreateClient,
           FindOverlap, Load, CalendarOk, CalendarFails, Detach, DetachedCallEnds, CommitOk,
           CommitFails, Refresh, SendSms, SendEmail, DbError, Abandon
      <4> QED
        BY <3>0, <4>1 DEF RequestInv, Request
    <3>2. \A x \in Requests : x # a => Entry(x)' = Entry(x)
      BY <2>2, <3>0, <3>1, EntryFrame
    <3>3. PublicBook' = [PublicBook EXCEPT ![a] = Entry(a)']
      BY <2>0, <3>2
    <3>4. PublicBook[a] = Entry(a)
      BY <2>0
    <3>5. EntryMoves(Entry(a), Entry(a)')
      BY <2>2, <3>1, EntryStep
    <3>6. CASE Entry(a)' = Entry(a)
      BY <2>0, <3>2, <3>6
    <3>7. CASE Entry(a)' # Entry(a)
      <4>1. Abstract!Book(a) \/ Abstract!Move(a) \/ Abstract!Release(a) \/ Abstract!Cancel(a)
            \/ Abstract!Revive(a)
        BY <3>3, <3>4, <3>5, <3>7 DEF EntryMoves, Abstract!Book, Abstract!Move,
           Abstract!Release, Abstract!Cancel, Abstract!Revive, Abstract!Become
      <4> QED
        BY <4>1 DEF Abstract!Next
    <3> QED
      BY <3>6, <3>7
  <2> QED
    BY <2>1, <2>2 DEF Next, Step
<1> QED
  BY <1>1, <1>2, <1>3, <1>4, Invariance, PTL
     DEF Spec, ImplementsAppointmentBook, Abstract!Spec

=============================================================================
