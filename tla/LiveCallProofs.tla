--------------------------- MODULE LiveCallProofs ---------------------------
(***************************************************************************)
(* Safety of one call for any number of requests, turns and appointments.  *)
(* The service's invariant is BookingProofs', which knows nothing of the   *)
(* conversation; what a call adds is that its requests come one at a time. *)
(***************************************************************************)
EXTENDS LiveCall, FiniteSetTheorems, TLAPS

BookP == INSTANCE BookingProofs WITH pc <- bpc
ConvP == INSTANCE ConversationProofs

-----------------------------------------------------------------------------
(* The components' theorems *)

\* The proofs' names for the service's definitions are other names.
LEMMA SameHelpers ==
  /\ \A row : BookP!Active(row) = Book!Active(row)
  /\ \A a, b : BookP!Overlap(a, b) = Book!Overlap(a, b)
  /\ \A a, b : BookP!SameTime(a, b) = Book!SameTime(a, b)
BY DEF Book!Active, BookP!Active, Book!Overlap, BookP!Overlap, Book!SameTime, BookP!SameTime

LEMMA SameCauses ==
  ASSUME NEW a \in Requests
  PROVE  /\ Book!Held(a) <=> BookP!Held(a)
         /\ Book!Revived(a) <=> BookP!Revived(a)
         /\ Book!Mixed(a) <=> BookP!Mixed(a)
         /\ \A op : Book!Torn(op, a) <=> BookP!Torn(op, a)
BY DEF Book!Held, BookP!Held, Book!Revived, BookP!Revived, Book!Mixed, BookP!Mixed,
       Book!Moved, BookP!Moved, Book!Torn, BookP!Torn, Book!Answers, BookP!Answers

LEMMA SameActions ==
  ASSUME NEW r \in Requests
  PROVE  /\ Book!Receive(r) <=> BookP!Receive(r)
         /\ Book!FindOverlap(r) <=> BookP!FindOverlap(r)
         /\ Book!Load(r) <=> BookP!Load(r)
         /\ Book!CalendarOk(r) <=> BookP!CalendarOk(r)
         /\ Book!CalendarFails(r) <=> BookP!CalendarFails(r)
         /\ Book!DetachedCallEnds(r) <=> BookP!DetachedCallEnds(r)
         /\ Book!CommitOk(r) <=> BookP!CommitOk(r)
         /\ Book!CommitFails(r) <=> BookP!CommitFails(r)
         /\ Book!Refresh(r) <=> BookP!Refresh(r)
         /\ Book!SendSms(r) <=> BookP!SendSms(r)
         /\ Book!SendEmail(r) <=> BookP!SendEmail(r)
         /\ Book!DbError(r) <=> BookP!DbError(r)
         /\ Book!Detach(r) <=> BookP!Detach(r)
         /\ Book!Abandon(r) <=> BookP!Abandon(r)
<1>1. Book!Receive(r) <=> BookP!Receive(r)
  BY DEF Book!Receive, BookP!Receive, Book!Refused, BookP!Refused, Book!Goto, BookP!Goto
<1>2. Book!FindOverlap(r) <=> BookP!FindOverlap(r)
  BY DEF Book!FindOverlap, BookP!FindOverlap, Book!Overlapping, BookP!Overlapping,
         Book!Overlap, BookP!Overlap, Book!SameTime, BookP!SameTime,
         Book!Active, BookP!Active, Book!Goto, BookP!Goto
<1>3. Book!Load(r) <=> BookP!Load(r)
  BY DEF Book!Load, BookP!Load, Book!Found, BookP!Found, Book!Holds, BookP!Holds,
         Book!Goto, BookP!Goto
<1>4. Book!CalendarOk(r) <=> BookP!CalendarOk(r)
  BY DEF Book!CalendarOk, BookP!CalendarOk, Book!CalendarEffect, BookP!CalendarEffect,
         Book!Goto, BookP!Goto
<1>5. Book!CalendarFails(r) <=> BookP!CalendarFails(r)
  BY DEF Book!CalendarFails, BookP!CalendarFails, Book!CalendarEffect,
         BookP!CalendarEffect, Book!Goto, BookP!Goto
<1>6. Book!DetachedCallEnds(r) <=> BookP!DetachedCallEnds(r)
  BY DEF Book!DetachedCallEnds, BookP!DetachedCallEnds, Book!CalendarEffect,
         BookP!CalendarEffect, Book!Goto, BookP!Goto
<1>7. Book!CommitEffect(r) <=> BookP!CommitEffect(r)
  BY DEF Book!CommitEffect, BookP!CommitEffect, Book!NewRow, BookP!NewRow,
         Book!Flush, BookP!Flush
<1>8. Book!CommitOk(r) <=> BookP!CommitOk(r)
  BY <1>7 DEF Book!CommitOk, BookP!CommitOk, Book!Goto, BookP!Goto
<1>9. Book!CommitFails(r) <=> BookP!CommitFails(r)
  BY <1>7 DEF Book!CommitFails, BookP!CommitFails, Book!Goto, BookP!Goto
<1>10. Book!Refresh(r) <=> BookP!Refresh(r)
  BY DEF Book!Refresh, BookP!Refresh, Book!Goto, BookP!Goto
<1>11. Book!SendSms(r) <=> BookP!SendSms(r)
  BY DEF Book!SendSms, BookP!SendSms, Book!Goto, BookP!Goto
<1>12. Book!SendEmail(r) <=> BookP!SendEmail(r)
  BY DEF Book!SendEmail, BookP!SendEmail, Book!Goto, BookP!Goto
<1>13. Book!DbError(r) <=> BookP!DbError(r)
  BY DEF Book!DbError, BookP!DbError, Book!Goto, BookP!Goto
<1>14. Book!Detach(r) <=> BookP!Detach(r)
  BY DEF Book!Detach, BookP!Detach, Book!Goto, BookP!Goto
<1>15. Book!Abandon(r) <=> BookP!Abandon(r)
  BY DEF Book!Abandon, BookP!Abandon, Book!Goto, BookP!Goto
<1> QED
  BY <1>1, <1>2, <1>3, <1>4, <1>5, <1>6, <1>8, <1>9, <1>10, <1>11, <1>12, <1>13,
     <1>14, <1>15

LEMMA Assumed ==
  /\ BookP!InputsAssumption /\ BookP!ReachAssumption /\ BookP!NoneAssumption
BY ServiceAssumption
   DEF Book!Input, BookP!Input, Book!Row, BookP!Row, Book!Request, BookP!Request,
       Book!Statuses, BookP!Statuses, BookP!InputsAssumption, BookP!ReachAssumption, BookP!NoneAssumption

LEMMA ServiceInv == BookP!IInv /\ [BookP!Next]_(BookP!vars) => BookP!IInv'
BY Assumed, BookP!NextIInv

-----------------------------------------------------------------------------
(* The steps of a call *)

\* Every step of a call is one of one request of the service, or leaves the
\* service alone.
LEMMA ServiceStep ==
  ASSUME BookP!TypeOK, running \in Requests \union {None}, [Next]_vars
  PROVE  UNCHANGED service \/ \E r \in Requests : BookP!Step(r)
<1> USE DEF BookP!Step, BookP!Proceed
<1>1. CASE Talk \/ ReadTool \/ ToolReturns
  BY <1>1 DEF Talk, ReadTool, ToolReturns
<1>2. CASE BargeIn
  BY <1>2, SameActions DEF BargeIn
<1>3. ASSUME NEW r \in Requests, StartTool(r) PROVE BookP!Step(r)
  BY <1>3, SameActions DEF StartTool
<1>4. ASSUME NEW r \in Requests, Work(r) PROVE BookP!Step(r)
  BY <1>4, SameActions DEF Work
<1>5. ASSUME NEW r \in Requests, NEW ch \in Channels, Post(r, ch) PROVE UNCHANGED service
  BY <1>5 DEF Post
<1>6. ASSUME NEW r \in Requests, NEW ch \in Channels, Sent(r, ch) PROVE BookP!Step(r)
  BY <1>6, SameActions DEF Sent
<1>7. CASE UNCHANGED vars
  BY <1>7 DEF vars
<1> QED
  BY <1>1, <1>2, <1>3, <1>4, <1>5, <1>6, <1>7 DEF Next, Serve

\* The coroutine of one request at most is under way, the one the turn waits for;
\* what else has not ended is a calendar thread nobody waits for.
SerialInv ==
  /\ running \in Requests \union {None}
  /\ \A r \in Requests :
       bpc[r] \in {"idle", "detached"} \union Book!Answers \/ r = running

LEMMA SerialStep ==
  ASSUME BookP!TypeOK, SerialInv, [Next]_vars
  PROVE  SerialInv'
<1>0. bpc \in [Requests -> BookP!Steps \union BookP!Answers]
  BY DEF BookP!TypeOK
<1> USE DEF SerialInv, Book!Answers
<1>1. CASE Talk \/ ReadTool
  BY <1>1 DEF Talk, ReadTool, service, tool
<1>2. CASE ToolReturns
  BY <1>2 DEF ToolReturns, service
<1>3. CASE BargeIn
  <2>1. running' = None
    BY <1>3 DEF BargeIn
  <2>2. CASE UNCHANGED service /\ (running # None => bpc[running] \in Book!Answers)
    BY <2>1, <2>2 DEF service
  <2>3. CASE /\ running # None
             /\ \/ Book!Detach(running)
                \/ Book!Abandon(running)
                \/ Book!CommitFails(running) /\ bpc'[running] = "abandoned"
    <3>1. PICK step \in {"detached", "abandoned", "raised"} :
            bpc' = [bpc EXCEPT ![running] = step]
      BY <2>3 DEF Book!Detach, Book!Abandon, Book!CommitFails, Book!Goto
    <3> QED BY <1>0, <2>1, <2>3, <3>1
  <2> QED BY <1>3, <2>2, <2>3 DEF BargeIn
<1>4. ASSUME NEW r \in Requests, StartTool(r) PROVE SerialInv'
  <2>1. running = None /\ running' = r
    BY <1>4 DEF StartTool
  <2>2. PICK step : bpc' = [bpc EXCEPT ![r] = step]
    BY <1>4 DEF StartTool, Book!Receive, Book!Goto
  <2> QED BY <1>0, <2>1, <2>2, CallAssumption
<1>5. ASSUME NEW r \in Requests, Work(r) PROVE SerialInv'
  <2>1. running' = running
    BY <1>5 DEF Work, tool
  <2>2. PICK step : bpc' = [bpc EXCEPT ![r] = step]
    BY <1>5 DEF Work, Book!FindOverlap, Book!Load, Book!CalendarOk, Book!CalendarFails,
         Book!DetachedCallEnds, Book!CommitOk, Book!Refresh, Book!DbError,
         Book!CommitFails, Book!Goto
  <2>3. r = running \/ bpc'[r] = "abandoned"
    BY <1>0, <1>5 DEF Work, Book!FindOverlap, Book!Load, Book!CalendarOk,
         Book!CalendarFails, Book!DetachedCallEnds, Book!CommitOk, Book!Refresh,
         Book!DbError, Book!CommitFails, Book!Goto
  <2> QED BY <1>0, <2>1, <2>2, <2>3
<1>6. ASSUME NEW r \in Requests, NEW ch \in Channels, Post(r, ch) PROVE SerialInv'
  BY <1>6 DEF Post, service, tool
<1>7. ASSUME NEW r \in Requests, NEW ch \in Channels, Sent(r, ch) PROVE SerialInv'
  <2>1. running' = running
    BY <1>7 DEF Sent, tool
  <2>2. r = running /\ \E step : bpc' = [bpc EXCEPT ![r] = step]
    BY <1>0, <1>7 DEF Sent, Book!SendSms, Book!SendEmail, Book!Goto
  <2> QED BY <1>0, <2>1, <2>2
<1>8. CASE UNCHANGED vars
  BY <1>8 DEF vars, service, tool
<1> QED
  BY <1>1, <1>2, <1>3, <1>4, <1>5, <1>6, <1>7, <1>8 DEF Next, Serve

\* While a request of the turn is at the calendar or at its commit, nobody else
\* changes the table.
LEMMA NobodyElseCommits ==
  ASSUME BookP!IInv, SerialInv, NEW r \in Requests, BookP!Step(r),
         NEW q \in Requests, q # r, bpc[q] \in {"calendar", "commit"}
  PROVE  bpc[r] # "commit" /\ \A a \in Requests : rows'[a] = rows[a]
<1>1. q = running
  BY DEF SerialInv, Book!Answers
<1>2. bpc[r] \in {"idle", "detached"} \union Book!Answers
  BY <1>1 DEF SerialInv
<1>3. bpc[r] # "commit"
  BY <1>2 DEF Book!Answers
<1>4. ASSUME NEW a \in Requests PROVE rows'[a] = rows[a]
  <2>1. BookP!RequestsInv /\ BookP!MovedInv(r)
    BY DEF BookP!IInv, BookP!ClashInv
  <2> QED BY <1>3, <2>1, Assumed, BookP!TableStep
<1> QED BY <1>3, <1>4

-----------------------------------------------------------------------------
(* Nobody is booked twice *)

\* Between its overlap query and its commit, nothing overlaps a booking.
SlotInv ==
  /\ NeverBookedTwiceInOneCall
  /\ \A r \in Requests :
       bpc[r] \in {"calendar", "commit"} /\ req[r].op = "book" => BookP!Overlapping(r) = {}

LEMMA SlotStep ==
  ASSUME BookP!IInv, SerialInv, SlotInv, NEW r \in Requests, BookP!Step(r)
  PROVE  SlotInv'
<1>0. /\ BookP!TypeOK /\ BookP!RequestsInv /\ BookP!MovedInv(r)
      /\ \A q \in Requests : BookP!RequestInv(q)
  BY DEF BookP!IInv, BookP!RequestsInv, BookP!ClashInv
<1>1. ASSUME NEW a \in Requests, rows'[a] # rows[a]
      PROVE  \/ rows'[a].status # "confirmed"
             \/ /\ a = r /\ BookP!Overlapping(r) = {}
                /\ rows'[a] = [client |-> req[r].client, start |-> req[r].start,
                               end |-> req[r].end, status |-> "confirmed"]
                /\ \A b \in Requests : b # a => rows'[b] = rows[b]
  <2>1. \A b \in Requests :
           \/ rows'[b] = rows[b]
           \/ /\ bpc[r] = "commit" /\ b = req[r].target
              /\ \/ /\ req[r].op = "book" /\ b = r
                    /\ rows'[b] = [client |-> req[r].client, start |-> req[r].start,
                                   end |-> req[r].end, status |-> "confirmed"]
                 \/ rows'[b].status # "confirmed"
    BY <1>0, Assumed, BookP!TableStep
  <2> QED BY <1>1, <2>1 DEF SlotInv
<1>2. ASSUME NEW a \in Requests, NEW b \in Requests, a # b,
             ~({a, b} \subseteq DOMAIN Earlier),
             Book!Active(rows'[a]), Book!Active(rows'[b]),
             rows'[a].client = rows'[b].client,
             rows'[a].status = "confirmed", rows'[b].status = "confirmed"
      PROVE  ~Book!Overlap(rows'[a], rows'[b])
  <2>1. CASE rows'[a] = rows[a] /\ rows'[b] = rows[b]
    BY <1>2, <2>1 DEF SlotInv, NeverBookedTwiceInOneCall
  <2>2. ASSUME NEW x \in Requests, NEW y \in Requests, x # y, rows'[x] # rows[x],
               rows'[x].status = "confirmed", Book!Active(rows'[y]),
               rows'[x].client = rows'[y].client
        PROVE  ~Book!Overlap(rows'[y], rows'[x])
    <3>1. /\ x = r /\ BookP!Overlapping(r) = {} /\ rows'[y] = rows[y]
          /\ rows'[x] = [client |-> req[r].client, start |-> req[r].start,
                         end |-> req[r].end, status |-> "confirmed"]
      BY <1>1, <2>2
    <3>2. ~(/\ BookP!Active(rows[y]) /\ rows[y].client = req[r].client
            /\ BookP!Overlap(rows[y], req[r]))
      BY <3>1 DEF BookP!Overlapping
    <3>3. rows'[y].client = req[r].client
      BY <2>2, <3>1
    <3> QED BY <2>2, <3>1, <3>2, <3>3
            DEF Book!Active, BookP!Active, Book!Overlap, BookP!Overlap
  <2>3. Book!Overlap(rows'[a], rows'[b]) <=> Book!Overlap(rows'[b], rows'[a])
    <3>1. /\ rows'[a] \in BookP!Row /\ rows'[b] \in BookP!Row
      <4>1. BookP!TypeOK'
        BY <1>0, Assumed, BookP!TypeStep
      <4> QED BY <1>2, <4>1 DEF BookP!TypeOK, Book!Active
    <3> QED BY <3>1 DEF Book!Overlap, BookP!Row
  <2> QED BY <1>2, <2>1, <2>2, <2>3
<1>3. ASSUME NEW q \in Requests, bpc'[q] \in {"calendar", "commit"}, req'[q].op = "book"
      PROVE  BookP!Overlapping(q)' = {}
  <2>1. CASE q = r
    <3>1. \/ BookP!FindOverlap(r)
          \/ BookP!Load(r) /\ bpc[r] = "load"
          \/ BookP!CalendarOk(r)
      BY <1>0, <1>3, <2>1 DEF BookP!TypeOK, BookP!Goto, BookP!Step, BookP!Proceed,
         BookP!Receive, BookP!LookupClient, BookP!CreateClient, BookP!FindOverlap,
         BookP!Load, BookP!CalendarOk, BookP!CalendarFails, BookP!Detach,
         BookP!DetachedCallEnds, BookP!CommitOk, BookP!CommitFails, BookP!Refresh,
         BookP!SendSms, BookP!SendEmail, BookP!DbError, BookP!Abandon
    <3>2. rows' = rows /\ req' = req
      BY <3>1 DEF BookP!FindOverlap, BookP!Load, BookP!CalendarOk
    <3>3. BookP!Overlapping(q)' = BookP!Overlapping(q)
      BY <3>2 DEF BookP!Overlapping
    <3>4. CASE BookP!FindOverlap(r)
      BY <1>0, <1>3, <2>1, <3>3, <3>4 DEF BookP!TypeOK, BookP!FindOverlap, BookP!Goto
    <3>5. CASE BookP!Load(r) /\ bpc[r] = "load"
      BY <1>0, <1>3, <2>1, <3>2, <3>5 DEF BookP!RequestInv
    <3>6. CASE BookP!CalendarOk(r)
      BY <1>3, <2>1, <3>2, <3>3, <3>6 DEF BookP!CalendarOk, SlotInv
    <3> QED BY <3>1, <3>4, <3>5, <3>6
  <2>2. CASE q # r
    <3>1. bpc'[q] = bpc[q] /\ req'[q] = req[q]
      BY <1>0, <2>2, Assumed, BookP!FrameStep
    <3>2. \A a \in Requests : rows'[a] = rows[a]
      BY <1>3, <2>2, <3>1, NobodyElseCommits
    <3>3. BookP!Overlapping(q)' = BookP!Overlapping(q)
      BY <3>1, <3>2 DEF BookP!Overlapping
    <3> QED BY <1>3, <3>1, <3>3 DEF SlotInv
  <2> QED BY <2>1, <2>2
<1> QED
  BY <1>2, <1>3 DEF SlotInv, NeverBookedTwiceInOneCall

-----------------------------------------------------------------------------
(* The table and the calendar *)

\* A request of the turn that is at the calendar or at its commit holds a copy of
\* the row as it still is; at its commit, a reschedule finds the calendar as it left
\* it, but for what the thread of a cut-off turn did since.
CopyInv ==
  /\ \A a \in Requests : BookP!Settled(a) => BookP!DifferOnlyFor(a, FALSE)
  /\ \A r \in Requests :
       bpc[r] \in {"calendar", "commit"} /\ req[r].op # "book" =>
         LET a == req[r].target IN
           /\ loaded[r] = [start |-> rows[a].start, end |-> rows[a].end,
                           status |-> rows[a].status]
           /\ bpc[r] = "commit" /\ req[r].op = "reschedule" =>
                /\ BookP!Held(a) => \/ BookP!SameTime(events[a], req[r])
                                    \/ BookP!Torn("reschedule", a)
                /\ BookP!Active(rows[a]) /\ ~BookP!Held(a)
                   => BookP!Torn("cancel", a) \/ BookP!Revived(a)

\* What has torn, or revived, an appointment stays so.
LEMMA CausesStay ==
  ASSUME BookP!RequestsInv, NEW r \in Requests, BookP!Step(r), NEW a \in Requests
  PROVE  /\ \A op : BookP!Torn(op, a) => BookP!Torn(op, a)'
         /\ BookP!Revived(a) => BookP!Revived(a)'
<1>0. BookP!TypeOK
  BY DEF BookP!RequestsInv
<1>1. ASSUME NEW op, BookP!Torn(op, a) PROVE BookP!Torn(op, a)'
  BY <1>0, <1>1, Assumed, BookP!TornStep
<1>2. BookP!Revived(a) => BookP!Revived(a)'
  BY Assumed, BookP!MoveStays
<1> QED BY <1>1, <1>2

\* A calendar thread that changes an event with no commit to follow tears it.
LEMMA ThreadTears ==
  ASSUME BookP!RequestsInv, NEW r \in Requests, BookP!Step(r), NEW a \in Requests,
         events'[a] # events[a], bpc'[r] # "commit"
  PROVE  /\ req[r].op = "book" => BookP!Torn("book", a)' /\ rows[a] = None
         /\ req[r].op = "cancel" => BookP!Torn("cancel", a)' /\ ~BookP!Held(a)'
         /\ req[r].op = "reschedule"
            => BookP!Torn("reschedule", a)' /\ events'[a].state = events[a].state
<1>0. BookP!TypeOK /\ BookP!RequestInv(r) /\ BookP!OwnInv(r)
  BY DEF BookP!RequestsInv
<1>1. /\ bpc[r] \in {"calendar", "detached"} /\ req[r].target = a
      /\ BookP!CalendarEffect(r) /\ effects'[r] = {"calendar"}
      /\ bpc'[r] \in BookP!Answers
  BY Assumed, BookP!EventStep DEF BookP!Answers
<1>2. req'[r] = req[r] /\ effects[r] = {}
  BY <1>0, <1>1, Assumed, BookP!FrameStep DEF BookP!RequestInv, BookP!Untouched
<1>3. \A op : req[r].op = op => BookP!Torn(op, a)'
  BY <1>1, <1>2 DEF BookP!Torn
<1>4. /\ req[r].op = "cancel" => events'[a].state = "deleted"
      /\ req[r].op = "reschedule" => events'[a].state = events[a].state
  BY <1>1, Assumed, BookP!EventFields
<1>5. req[r].op = "book" => rows[a] = None
  BY <1>0, <1>1, <1>2 DEF BookP!RequestInv, BookP!OwnInv
<1> QED BY <1>3, <1>4, <1>5 DEF BookP!Held

LEMMA CopyStep ==
  ASSUME BookP!IInv, SerialInv, CopyInv, NEW r \in Requests, BookP!Step(r),
         NEW q \in Requests, bpc'[q] \in {"calendar", "commit"}, req'[q].op # "book",
         NEW a \in Requests, a = req'[q].target
  PROVE  /\ loaded'[q] = [start |-> rows'[a].start, end |-> rows'[a].end,
                          status |-> rows'[a].status]
         /\ bpc'[q] = "commit" /\ req'[q].op = "reschedule" =>
              /\ BookP!Held(a)' => \/ BookP!SameTime(events'[a], req'[q])
                                   \/ BookP!Torn("reschedule", a)'
              /\ BookP!Active(rows'[a]) /\ ~BookP!Held(a)'
                 => BookP!Torn("cancel", a)' \/ BookP!Revived(a)'
<1>0. /\ BookP!TypeOK /\ BookP!RequestsInv /\ BookP!RequestInv(r)
      /\ BookP!RequestInv(q)
  BY DEF BookP!IInv, BookP!RequestsInv, BookP!ClashInv
<1>s. /\ \A op : BookP!Torn(op, a) => BookP!Torn(op, a)'
      /\ BookP!Revived(a) => BookP!Revived(a)'
  BY <1>0, CausesStay
<1>1. CASE q = r
  <2>1. (BookP!Load(r) /\ BookP!Found(r)) \/ BookP!CalendarOk(r) \/ BookP!FindOverlap(r)
    BY <1>0, <1>1 DEF BookP!TypeOK, BookP!Goto, BookP!Step, BookP!Proceed,
       BookP!Receive, BookP!LookupClient, BookP!CreateClient, BookP!FindOverlap,
       BookP!Load, BookP!CalendarOk, BookP!CalendarFails, BookP!Detach,
       BookP!DetachedCallEnds, BookP!CommitOk, BookP!CommitFails, BookP!Refresh,
       BookP!SendSms, BookP!SendEmail, BookP!DbError, BookP!Abandon
  <2>2. CASE BookP!Load(r) /\ BookP!Found(r)
    BY <1>0, <1>1, <2>2 DEF BookP!TypeOK, BookP!Load, BookP!Goto
  <2>3. CASE BookP!CalendarOk(r)
    <3>1. /\ rows' = rows /\ req' = req /\ loaded' = loaded /\ bpc[r] = "calendar"
          /\ BookP!CalendarEffect(r)
      BY <2>3 DEF BookP!CalendarOk
    <3>2. req[r].op = "reschedule"
          => /\ events'[a].state = events[a].state
             /\ events'[a].start = req[r].start /\ events'[a].end = req[r].end
      BY <1>0, <1>1, <3>1, Assumed, BookP!EventFields
    <3>3. BookP!Settled(a)
      BY <3>1 DEF BookP!Settled, SerialInv, Book!Answers
    <3>4. BookP!Active(rows[a]) /\ ~BookP!Held(a) => BookP!Torn("cancel", a) \/ BookP!Revived(a)
      BY <3>3 DEF CopyInv, BookP!DifferOnlyFor
    <3> QED BY <1>1, <1>s, <3>1, <3>2, <3>4 DEF CopyInv, BookP!Held, BookP!SameTime
  <2>4. CASE BookP!FindOverlap(r)
    BY <1>0, <1>1, <2>4 DEF BookP!FindOverlap, BookP!RequestInv
  <2> QED BY <2>1, <2>2, <2>3, <2>4
<1>2. CASE q # r
  <2>1. bpc'[q] = bpc[q] /\ req'[q] = req[q] /\ loaded'[q] = loaded[q]
    BY <1>0, <1>2, Assumed, BookP!FrameStep
  <2>2. bpc[r] # "commit" /\ rows'[a] = rows[a] /\ rows[a] # None
    BY <1>0, <1>2, <2>1, NobodyElseCommits DEF BookP!RequestInv
  <2>3. /\ loaded[q] = [start |-> rows[a].start, end |-> rows[a].end,
                        status |-> rows[a].status]
        /\ bpc[q] = "commit" /\ req[q].op = "reschedule" =>
             /\ BookP!Held(a) => \/ BookP!SameTime(events[a], req[q])
                                 \/ BookP!Torn("reschedule", a)
             /\ BookP!Active(rows[a]) /\ ~BookP!Held(a)
                => BookP!Torn("cancel", a) \/ BookP!Revived(a)
    BY <2>1 DEF CopyInv
  <2>4. CASE events'[a] = events[a]
    BY <1>s, <2>1, <2>2, <2>3, <2>4 DEF BookP!Held
  <2>5. CASE events'[a] # events[a]
    <3>1. bpc'[r] # "commit"
      <4>1. bpc[r] # "calendar"
        BY <1>2, <2>1 DEF SerialInv, Book!Answers
      <4> QED BY <1>0, <2>5, <4>1, Assumed, BookP!EventStep
    <3>2. /\ req[r].op # "book"
          /\ req[r].op = "cancel" => BookP!Torn("cancel", a)' /\ ~BookP!Held(a)'
          /\ req[r].op = "reschedule"
             => BookP!Torn("reschedule", a)' /\ events'[a].state = events[a].state
      BY <1>0, <2>2, <2>5, <3>1, ThreadTears
    <3>3. req[r].op \in {"cancel", "reschedule"}
      <4>1. bpc[r] # "idle"
        BY <1>0, <2>5, Assumed, BookP!EventStep
      <4> QED BY <1>0, <3>2, <4>1 DEF BookP!RequestInv, BookP!Request
    <3> QED BY <1>s, <2>1, <2>2, <2>3, <3>2, <3>3 DEF BookP!Held
  <2> QED BY <2>4, <2>5
<1> QED BY <1>1, <1>2

\* What the commit of the turn's request leaves in the two stores.
LEMMA CommitAgrees ==
  ASSUME BookP!IInv, SerialInv, CopyInv, NEW r \in Requests, BookP!Step(r),
         NEW a \in Requests, bpc[r] = "commit", req[r].target = a
  PROVE  /\ BookP!Held(a)' /\ ~BookP!Active(rows'[a]) => BookP!Torn("book", a)'
         /\ BookP!Active(rows'[a]) /\ ~BookP!Held(a)'
            => BookP!Torn("cancel", a)' \/ BookP!Revived(a)'
         /\ BookP!Active(rows'[a]) /\ BookP!Held(a)'
            /\ ~BookP!SameTime(rows'[a], events'[a]) => BookP!Torn("reschedule", a)'
<1>0. /\ BookP!TypeOK /\ BookP!RequestsInv /\ BookP!RequestInv(r) /\ BookP!OwnInv(r)
      /\ BookP!CancelInv(r) /\ BookP!EventInv(a) /\ req[r] \in BookP!Request
  BY DEF BookP!IInv, BookP!RequestsInv, BookP!StoresInv, BookP!RequestInv
<1>s. /\ \A op : BookP!Torn(op, a) => BookP!Torn(op, a)'
      /\ BookP!Revived(a) => BookP!Revived(a)'
  BY <1>0, CausesStay
<1>1. /\ effects[r] = {"calendar"} /\ events' = events /\ loaded' = loaded
      /\ BookP!CommitOk(r) \/ BookP!CommitFails(r)
  BY <1>0 DEF BookP!RequestInv, BookP!Step, BookP!Proceed, BookP!Receive,
     BookP!LookupClient, BookP!CreateClient, BookP!FindOverlap, BookP!Load,
     BookP!CalendarOk, BookP!CalendarFails, BookP!Detach, BookP!DetachedCallEnds,
     BookP!CommitOk, BookP!CommitFails, BookP!Refresh, BookP!SendSms,
     BookP!SendEmail, BookP!DbError, BookP!Abandon
<1>2. req'[r] = req[r]
  BY <1>0, Assumed, BookP!FrameStep
<1>h. req[r].op # "book"
      => /\ rows[a] # None
         /\ loaded[r] = [start |-> rows[a].start, end |-> rows[a].end,
                         status |-> rows[a].status]
         /\ req[r].op = "reschedule" =>
              /\ BookP!Held(a) => \/ BookP!SameTime(events[a], req[r])
                                  \/ BookP!Torn("reschedule", a)
              /\ BookP!Active(rows[a]) /\ ~BookP!Held(a)
                 => BookP!Torn("cancel", a) \/ BookP!Revived(a)
  BY <1>0 DEF CopyInv, BookP!RequestInv
<1>c. req[r].op = "cancel" => events[a].state = "deleted"
  BY <1>0, <1>1 DEF BookP!CancelInv
<1>3. CASE BookP!CommitEffect(r)
  <2>1. CASE req[r].op = "book"
    <3>1. /\ a = r /\ rows'[a] # None
          /\ rows'[a] = [client |-> req[r].client, start |-> req[r].start,
                         end |-> req[r].end, status |-> "confirmed"]
      BY <1>0, <1>3, <2>1, Assumed, BookP!BookedRow
    <3>2. events[a] = [state |-> "live", start |-> req[r].start, end |-> req[r].end]
      BY <1>0, <2>1, <3>1 DEF BookP!OwnInv
    <3> QED BY <1>1, <3>1, <3>2 DEF BookP!SameTime, BookP!Active, BookP!Held
  <2>2. CASE req[r].op = "cancel"
    <3>1. rows'[a].status = "cancelled"
      BY <1>0, <1>3, <1>h, <2>2, Assumed, BookP!CancelledRow
    <3> QED BY <1>1, <1>c, <2>2, <3>1 DEF BookP!Active, BookP!Held
  <2>3. CASE req[r].op = "reschedule"
    <3>1. /\ rows'[a] # None
          /\ rows'[a].start = req[r].start /\ rows'[a].end = req[r].end
          /\ rows'[a].status = "rescheduled"
      BY <1>0, <1>3, <1>h, <2>3, Assumed, BookP!MovedRow DEF BookP!Flush
    <3>2. ~BookP!Held(a) => BookP!Torn("cancel", a)' \/ BookP!Revived(a)'
      <4>1. CASE BookP!Active(rows[a])
        BY <1>s, <1>h, <2>3, <4>1
      <4>2. CASE ~BookP!Active(rows[a])
        <5>1. loaded'[r].status = "cancelled"
          BY <1>1, <1>h, <2>3, <4>2 DEF BookP!Active
        <5>2. "row" \in effects'[r] /\ req'[r].op = "reschedule" /\ req'[r].target = a
          BY <1>0, <1>2, <1>3, <2>3 DEF BookP!CommitEffect, BookP!TypeOK
        <5> QED BY <5>1, <5>2 DEF BookP!Revived, BookP!Moved
      <4> QED BY <4>1, <4>2
    <3>3. BookP!Held(a) => BookP!SameTime(events[a], req[r]) \/ BookP!Torn("reschedule", a)'
      BY <1>s, <1>h, <2>3
    <3> QED BY <1>1, <3>1, <3>2, <3>3 DEF BookP!Active, BookP!Held, BookP!SameTime
  <2> QED BY <1>0, <2>1, <2>2, <2>3 DEF BookP!Request
<1>4. CASE ~BookP!CommitEffect(r)
  <2>1. bpc'[r] \in BookP!Answers /\ effects' = effects /\ rows' = rows
    BY <1>0, <1>1, <1>4 DEF BookP!CommitOk, BookP!CommitFails, BookP!TypeOK, BookP!Goto,
                            BookP!Answers
  <2>2. \A op : req[r].op = op => BookP!Torn(op, a)'
    BY <1>1, <1>2, <2>1 DEF BookP!Torn
  <2>3. CASE req[r].op = "book"
    <3>1. rows[a] = None
      BY <1>0, <1>1, <2>3 DEF BookP!RequestInv, BookP!OwnInv
    <3> QED BY <2>1, <2>2, <2>3, <3>1 DEF BookP!Active
  <2>4. CASE req[r].op = "cancel"
    BY <1>1, <1>c, <2>2, <2>4 DEF BookP!Held
  <2>5. CASE req[r].op = "reschedule"
    <3>1. BookP!Active(rows[a]) \/ ~BookP!Held(a)
      BY <1>0, <1>h, <2>5 DEF BookP!Active, BookP!EventInv, BookP!Held
    <3> QED BY <1>1, <1>s, <1>h, <2>1, <2>2, <2>5, <3>1 DEF BookP!Held
  <2> QED BY <1>0, <2>3, <2>4, <2>5 DEF BookP!Request
<1> QED BY <1>3, <1>4

LEMMA AgreeStep ==
  ASSUME BookP!IInv, SerialInv, CopyInv, NEW r \in Requests, BookP!Step(r),
         NEW a \in Requests, BookP!Settled(a)'
  PROVE  BookP!DifferOnlyFor(a, FALSE)'
<1>0. /\ BookP!TypeOK /\ BookP!RequestsInv /\ BookP!RequestInv(r) /\ BookP!MovedInv(r)
  BY DEF BookP!IInv, BookP!RequestsInv, BookP!ClashInv
<1>s. /\ \A op : BookP!Torn(op, a) => BookP!Torn(op, a)'
      /\ BookP!Revived(a) => BookP!Revived(a)'
  BY <1>0, CausesStay
<1> SUFFICES /\ BookP!Held(a)' /\ ~BookP!Active(rows'[a]) => BookP!Torn("book", a)'
             /\ BookP!Active(rows'[a]) /\ ~BookP!Held(a)'
                => BookP!Torn("cancel", a)' \/ BookP!Revived(a)'
             /\ BookP!Active(rows'[a]) /\ BookP!Held(a)'
                /\ ~BookP!SameTime(rows'[a], events'[a]) => BookP!Torn("reschedule", a)'
  BY DEF BookP!DifferOnlyFor, BookP!Active, BookP!SameTime
<1>1. CASE bpc[r] = "commit" /\ req[r].target = a
  BY <1>1, CommitAgrees
<1>2. CASE ~(bpc[r] = "commit" /\ req[r].target = a)
  <2>1. rows'[a] = rows[a]
    BY <1>0, <1>2, Assumed, BookP!TableStep
  <2>2. BookP!Settled(a)
    <3> SUFFICES ASSUME NEW p \in Requests, bpc[p] = "commit", req[p].target = a PROVE FALSE
      BY DEF BookP!Settled
    <3>1. p # r
      BY <1>2
    <3>2. bpc'[p] = "commit" /\ req'[p].target = a
      BY <1>0, <3>1, Assumed, BookP!FrameStep
    <3> QED BY <3>2 DEF BookP!Settled
  <2>3. BookP!DifferOnlyFor(a, FALSE)
    BY <2>2 DEF CopyInv
  <2>4. CASE events'[a] = events[a]
    BY <1>s, <2>1, <2>3, <2>4 DEF BookP!DifferOnlyFor, BookP!Held
  <2>5. CASE events'[a] # events[a]
    <3>1. /\ bpc[r] # "idle" /\ req[r].target = a /\ req'[r] = req[r]
      BY <1>0, <2>5, Assumed, BookP!EventStep, BookP!FrameStep
    <3>2. bpc'[r] # "commit"
      BY <3>1 DEF BookP!Settled
    <3>3. /\ req[r].op = "book" => BookP!Torn("book", a)' /\ rows[a] = None
          /\ req[r].op = "cancel" => BookP!Torn("cancel", a)' /\ ~BookP!Held(a)'
          /\ req[r].op = "reschedule"
             => BookP!Torn("reschedule", a)' /\ events'[a].state = events[a].state
      BY <1>0, <2>5, <3>2, ThreadTears
    <3>4. CASE req[r].op = "book"
      BY <2>1, <3>3, <3>4 DEF BookP!Active
    <3>5. CASE req[r].op = "cancel"
      BY <3>3, <3>5
    <3>6. CASE req[r].op = "reschedule"
      BY <1>s, <2>1, <2>3, <3>3, <3>6 DEF BookP!DifferOnlyFor, BookP!Held
    <3> QED BY <1>0, <3>1, <3>4, <3>5, <3>6 DEF BookP!RequestInv, BookP!Request
  <2> QED BY <2>4, <2>5
<1> QED BY <1>1, <1>2

-----------------------------------------------------------------------------
(* Confirmations *)

\* A booking goes on to the next channel once the last one's message was sent or
\* its failure logged.
ConfirmInv ==
  /\ logged \in [Requests -> SUBSET Channels]
  /\ \A r \in Requests :
       bpc[r] = "email" /\ Wanted(r, "sms") => "sms" \in told[r] \union logged[r]
  /\ ConfirmedOrLogged

\* What a step does to the confirmations of one request.
LEMMA ConfirmFrame ==
  ASSUME BookP!TypeOK, ConfirmInv, [Next]_vars, NEW q \in Requests, NEW ch \in Channels
  PROVE  /\ logged' \in [Requests -> SUBSET Channels]
         /\ told[q] \subseteq told'[q] /\ logged[q] \subseteq logged'[q]
         /\ bpc[q] = ch /\ bpc'[q] \in {"email", "ok"} /\ bpc'[q] # ch /\ Wanted(q, ch)
            => ch \in told'[q] \union logged'[q]
<1>0. /\ bpc \in [Requests -> BookP!Steps \union BookP!Answers]
      /\ told \in [Requests -> SUBSET Channels] /\ logged \in [Requests -> SUBSET Channels]
  BY DEF BookP!TypeOK, ConfirmInv, Channels
<1>1. CASE UNCHANGED <<bpc, told, logged>>
  BY <1>0, <1>1
<1>2. ASSUME NEW r \in Requests, NEW c \in Channels, Sent(r, c)
      PROVE  /\ logged' \in [Requests -> SUBSET Channels]
             /\ told[q] \subseteq told'[q] /\ logged[q] \subseteq logged'[q]
             /\ bpc[q] = ch /\ bpc'[q] \in {"email", "ok"} /\ bpc'[q] # ch /\ Wanted(q, ch)
                => ch \in told'[q] \union logged'[q]
  <2>1. /\ bpc[r] = c
        /\ told' = [told EXCEPT ![r] = @ \union {c}] \/ told' = told
        /\ \A p \in Requests : p # r => bpc'[p] = bpc[p]
    BY <1>0, <1>2 DEF Sent, Book!SendSms, Book!SendEmail, Book!Goto
  <2>2. CASE Wanted(r, c)
    <3>1. SendEnds(r, c, c \in told'[r])
      BY <1>2, <2>2 DEF Sent
    <3>2. \/ c \in told'[r] /\ logged' = logged
          \/ logged' = [logged EXCEPT ![r] = @ \union {c}]
      BY <3>1 DEF SendEnds
    <3>3. logged' \in [Requests -> SUBSET Channels] /\ logged[q] \subseteq logged'[q]
      BY <1>0, <3>2
    <3>4. told[q] \subseteq told'[q]
      BY <1>0, <2>1
    <3>5. q = r /\ bpc[q] = ch => ch = c
      BY <2>1
    <3>6. c \in told'[r] \union logged'[r]
      BY <1>0, <3>2
    <3> QED BY <2>1, <3>3, <3>4, <3>5, <3>6
  <2>3. CASE ~Wanted(r, c)
    <3>1. logged' = logged
      BY <1>2, <2>3 DEF Sent, notifications
    <3>2. told[q] \subseteq told'[q]
      BY <1>0, <2>1
    <3>3. q = r /\ bpc[q] = ch => ch = c
      BY <2>1
    <3> QED BY <1>0, <2>1, <2>3, <3>1, <3>2, <3>3
  <2> QED BY <2>2, <2>3
<1>3. ASSUME NEW r \in Requests, StartTool(r) \/ Work(r)
      PROVE  /\ told' = told /\ logged' = logged
             /\ bpc[q] = ch => bpc'[q] = bpc[q]
  <2>1. logged' = logged
    BY <1>3 DEF StartTool, Work, notifications
  <2>2. told' = told /\ (bpc[q] = ch => bpc'[q] = bpc[q])
    BY <1>0, <1>3 DEF Channels, StartTool, Work, Book!Receive, Book!FindOverlap, Book!Load,
       Book!CalendarOk, Book!CalendarFails, Book!DetachedCallEnds, Book!CommitOk,
       Book!Refresh, Book!DbError, Book!CommitFails, Book!Goto
  <2> QED BY <2>1, <2>2
<1>4. CASE BargeIn
  <2>1. logged' = logged
    BY <1>4 DEF BargeIn, notifications
  <2>2. told' = told /\ (bpc'[q] = bpc[q] \/ bpc'[q] \notin {"email", "ok"})
    BY <1>0, <1>4 DEF BargeIn, service, Book!Detach, Book!Abandon, Book!CommitFails, Book!Goto
  <2> QED BY <1>0, <2>1, <2>2
<1>5. ASSUME NEW r \in Requests, NEW c \in Channels, Post(r, c)
      PROVE  UNCHANGED <<bpc, told, logged>>
  BY <1>5 DEF Post, PostAgain, service
<1>6. Talk \/ ReadTool \/ ToolReturns => UNCHANGED <<bpc, told, logged>>
  BY DEF Talk, ReadTool, ToolReturns, service, notifications
<1>7. UNCHANGED vars => UNCHANGED <<bpc, told, logged>>
  BY DEF vars, service, notifications
<1> QED BY <1>0, <1>1, <1>2, <1>3, <1>4, <1>5, <1>6, <1>7 DEF Next, Serve

LEMMA LoggedStep ==
  ASSUME logged \in [Requests -> SUBSET Channels], [Next]_vars
  PROVE  logged' \in [Requests -> SUBSET Channels]
<1>1. ASSUME NEW r \in Requests, NEW ch \in Channels, Sent(r, ch)
      PROVE  logged' \in [Requests -> SUBSET Channels]
  BY <1>1 DEF Sent, SendEnds, notifications
<1>2. ASSUME NEW r \in Requests, NEW ch \in Channels, Post(r, ch) PROVE logged' = logged
  BY <1>2 DEF Post, PostAgain
<1>3. ASSUME NEW r \in Requests, StartTool(r) \/ Work(r) PROVE logged' = logged
  BY <1>3 DEF StartTool, Work, notifications
<1>4. Talk \/ ReadTool \/ ToolReturns \/ BargeIn \/ UNCHANGED vars => logged' = logged
  BY DEF Talk, ReadTool, ToolReturns, BargeIn, vars, notifications
<1> QED BY <1>1, <1>2, <1>3, <1>4 DEF Next, Serve

LEMMA ConfirmStep ==
  ASSUME BookP!IInv, SerialInv, ConfirmInv, [Next]_vars
  PROVE  ConfirmInv'
<1>0. /\ BookP!TypeOK /\ running \in Requests \union {None}
      /\ \A r \in Requests : BookP!RequestInv(r)
  BY DEF BookP!IInv, BookP!RequestsInv, SerialInv
<1>1. "sms" \in Channels /\ "email" \in Channels
  BY DEF Channels
<1>2. ASSUME NEW r \in Requests, NEW ch \in Channels
      PROVE  /\ told[r] \subseteq told'[r] /\ logged[r] \subseteq logged'[r]
             /\ bpc[r] = ch /\ bpc'[r] \in {"email", "ok"} /\ bpc'[r] # ch /\ Wanted(r, ch)
                => ch \in told'[r] \union logged'[r]
  BY <1>0, ConfirmFrame
<1>3. ASSUME NEW r \in Requests, bpc'[r] = "email" \/ (bpc'[r] = "ok" /\ req'[r].op = "book")
      PROVE  /\ req'[r] = req[r]
             /\ bpc'[r] = "email" => bpc[r] \in {"sms", "email"}
             /\ bpc'[r] = "ok" => bpc[r] \in {"email", "ok"}
  <2>1. CASE UNCHANGED service
    BY <1>3, <2>1 DEF service
  <2>2. ASSUME NEW q \in Requests, BookP!Step(q) PROVE
          /\ q # r => bpc'[r] = bpc[r]
          /\ bpc[r] # "idle" => req'[r] = req[r]
    BY <1>0, <2>2, Assumed, BookP!FrameStep
  <2>3. CASE BookP!Step(r)
    <3>1. \/ BookP!SendSms(r) \/ BookP!SendEmail(r)
      BY <1>0, <1>3, <2>3 DEF BookP!TypeOK, BookP!RequestInv, BookP!Goto, BookP!Step,
         BookP!Proceed, BookP!Receive, BookP!LookupClient, BookP!CreateClient,
         BookP!FindOverlap, BookP!Load, BookP!CalendarOk, BookP!CalendarFails,
         BookP!Detach, BookP!DetachedCallEnds, BookP!CommitOk, BookP!CommitFails,
         BookP!Refresh, BookP!DbError, BookP!Abandon
    <3> QED BY <1>0, <1>3, <3>1 DEF BookP!TypeOK, BookP!SendSms, BookP!SendEmail, BookP!Goto
  <2>4. CASE bpc'[r] = bpc[r]
    <3>1. bpc[r] # "idle"
      BY <1>3, <2>4
    <3> QED BY <1>3, <2>1, <2>2, <2>4, <3>1, <1>0, ServiceStep
  <2> QED BY <1>0, <2>1, <2>2, <2>3, <2>4, ServiceStep
<1>4. ASSUME NEW r \in Requests, bpc'[r] = "email", Wanted(r, "sms")'
      PROVE  "sms" \in told'[r] \union logged'[r]
  <2>0. bpc'[r] = "email"
    BY <1>4
  <2>1. req'[r] = req[r] /\ bpc[r] \in {"sms", "email"}
    BY <1>3, <2>0
  <2>2. Wanted(r, "sms")
    BY <1>4, <2>1, Zenon DEF Wanted
  <2> QED BY <1>1, <1>2, <1>4, <2>1, <2>2 DEF ConfirmInv
<1>5. ASSUME NEW r \in Requests, bpc'[r] = "ok", req'[r].op = "book",
             NEW ch \in Channels, Wanted(r, ch)'
      PROVE  ch \in told'[r] \union logged'[r]
  <2>0. req'[r] = req[r] /\ bpc[r] \in {"email", "ok"} /\ req[r].op = "book"
    <3>1. bpc'[r] = "ok" /\ req'[r].op = "book"
      BY <1>5
    <3> QED BY <1>3, <3>1
  <2>1. Wanted(r, ch) /\ bpc[r] \in {"email", "ok"} /\ req[r].op = "book"
    BY <1>5, <2>0, Zenon DEF Wanted
  <2>2. CASE bpc[r] = "ok"
    BY <1>2, <1>5, <2>1, <2>2 DEF ConfirmInv, ConfirmedOrLogged
  <2>3. CASE bpc[r] = "email" /\ ch = "email"
    BY <1>2, <1>5, <2>1, <2>3
  <2>4. CASE bpc[r] = "email" /\ ch = "sms"
    BY <1>2, <1>5, <2>1, <2>4 DEF ConfirmInv
  <2> QED BY <1>5, <2>1, <2>2, <2>3, <2>4 DEF Channels
<1>6. logged' \in [Requests -> SUBSET Channels]
  BY LoggedStep DEF ConfirmInv
<1> QED BY <1>4, <1>5, <1>6 DEF ConfirmInv, ConfirmedOrLogged

-----------------------------------------------------------------------------
(* The inductive invariant and the theorems *)

CallInv == BookP!IInv /\ SerialInv /\ SlotInv /\ CopyInv /\ ConfirmInv

LEMMA CallStep == CallInv /\ [Next]_vars => CallInv'
<1> SUFFICES ASSUME CallInv, [Next]_vars PROVE CallInv'
  OBVIOUS
<1>1. /\ BookP!IInv /\ BookP!TypeOK /\ SerialInv /\ SlotInv /\ CopyInv /\ ConfirmInv
      /\ running \in Requests \union {None}
  BY DEF CallInv, BookP!IInv, BookP!RequestsInv, SerialInv
<1>2. SerialInv' /\ ConfirmInv'
  BY <1>1, SerialStep, ConfirmStep
<1>3. CASE UNCHANGED service
  <2>1. BookP!IInv'
    BY <1>1, <1>3, ServiceInv DEF service, BookP!vars
  <2>2. SlotInv'
    BY <1>1, <1>3 DEF service, SlotInv, NeverBookedTwiceInOneCall, BookP!Overlapping
  <2>3. CopyInv'
    <3>1. UNCHANGED <<rows, events, bpc, req, loaded, effects>>
      BY <1>3 DEF service
    <3>2. \A a \in Requests : /\ BookP!Revived(a)' = BookP!Revived(a)
                              /\ BookP!Held(a)' = BookP!Held(a)
                              /\ BookP!Settled(a)' = BookP!Settled(a)
                              /\ \A op : BookP!Torn(op, a)' = BookP!Torn(op, a)
      BY <3>1 DEF BookP!Settled, BookP!Torn, BookP!Revived, BookP!Moved, BookP!Held
    <3>3. \A a \in Requests : BookP!DifferOnlyFor(a, FALSE)' = BookP!DifferOnlyFor(a, FALSE)
      BY <3>1, <3>2 DEF BookP!DifferOnlyFor
    <3>4. ASSUME NEW r \in Requests, bpc[r] \in {"calendar", "commit"}, req[r].op # "book"
          PROVE  req[r].target \in Requests
      BY <1>1, <3>4 DEF BookP!IInv, BookP!RequestsInv, BookP!RequestInv, BookP!Request
    <3> QED BY <1>1, <3>1, <3>2, <3>3, <3>4 DEF CopyInv
  <2> QED BY <1>2, <2>1, <2>2, <2>3 DEF CallInv
<1>4. ASSUME NEW r \in Requests, BookP!Step(r) PROVE CallInv'
  <2>1. BookP!IInv'
    BY <1>1, <1>4, ServiceInv DEF BookP!Next, BookP!Step
  <2>2. SlotInv'
    BY <1>1, <1>4, SlotStep
  <2>3. \A a \in Requests : BookP!Settled(a)' => BookP!DifferOnlyFor(a, FALSE)'
    BY <1>1, <1>4, AgreeStep
  <2>4. ASSUME NEW q \in Requests, bpc'[q] \in {"calendar", "commit"}, req'[q].op # "book"
        PROVE  req'[q].target \in Requests
    BY <2>1, <2>4 DEF BookP!IInv, BookP!RequestsInv, BookP!RequestInv, BookP!Request
  <2>5. CopyInv'
    BY <1>1, <1>4, <2>3, <2>4, CopyStep DEF CopyInv
  <2> QED BY <1>2, <2>1, <2>2, <2>5 DEF CallInv
<1> QED BY <1>1, <1>3, <1>4, ServiceStep

\* An appointment of before the call, and a request to come.
Booked(r) ==
  /\ bpc[r] = "ok" /\ effects[r] = {"calendar", "row"}
  /\ req[r] \in BookP!Request /\ ~BookP!Refused(req[r])
  /\ req[r].op = "book" /\ req[r].target = r /\ req[r].start < req[r].end
  /\ rows[r] = [client |-> req[r].client, start |-> req[r].start, end |-> req[r].end,
                status |-> "confirmed"]
  /\ rows[r] \in BookP!Row /\ rows[r] # None
  /\ events[r] = [state |-> "live", start |-> req[r].start, end |-> req[r].end]
  /\ told[r] \subseteq Channels /\ \A ch \in Channels : Wanted(r, ch) => ch \in told[r]

ToCome(r) ==
  /\ bpc[r] = "idle" /\ req[r] = None /\ effects[r] = {} /\ rows[r] = None
  /\ events[r] = [state |-> "none", start |-> 0, end |-> 0] /\ told[r] = {}

LEMMA InitRequest ==
  ASSUME Init, NEW r \in Requests
  PROVE  (r \in DOMAIN Earlier /\ Booked(r)) \/ (r \notin DOMAIN Earlier /\ ToCome(r))
<1>1. /\ rows = [a \in Requests |->
           IF a \in DOMAIN Earlier
           THEN [client |-> Earlier[a].client, start |-> Earlier[a].start,
                 end |-> Earlier[a].end, status |-> "confirmed"]
           ELSE None]
      /\ events = [a \in Requests |->
           IF a \in DOMAIN Earlier
           THEN [state |-> "live", start |-> Earlier[a].start, end |-> Earlier[a].end]
           ELSE [state |-> "none", start |-> 0, end |-> 0]]
      /\ bpc = [a \in Requests |-> IF a \in DOMAIN Earlier THEN "ok" ELSE "idle"]
      /\ req = [a \in Requests |-> IF a \in DOMAIN Earlier THEN Earlier[a] ELSE None]
      /\ effects = [a \in Requests |->
           IF a \in DOMAIN Earlier THEN {"calendar", "row"} ELSE {}]
  BY Zenon DEF Init
<1>2. told[r] = IF r \in DOMAIN Earlier
                THEN {ch \in Channels : Reached(Earlier[r].client, ch)} ELSE {}
  BY Zenon DEF Init
<1>3. CASE r \in DOMAIN Earlier
  <2>1. /\ bpc[r] = "ok" /\ effects[r] = {"calendar", "row"} /\ req[r] = Earlier[r]
        /\ rows[r] = [client |-> Earlier[r].client, start |-> Earlier[r].start,
                      end |-> Earlier[r].end, status |-> "confirmed"]
        /\ events[r] = [state |-> "live", start |-> Earlier[r].start,
                        end |-> Earlier[r].end]
    BY <1>1, <1>3
  <2>2. /\ req[r] \in BookP!Request /\ ~BookP!Refused(req[r])
        /\ req[r].op = "book" /\ req[r].target = r /\ req[r].start < req[r].end
    BY <1>3, <2>1, EarlierAssumption
       DEF Book!Request, BookP!Request, Book!Refused, BookP!Refused
  <2>3. rows[r] \in BookP!Row
    BY <2>1, <2>2 DEF BookP!Request, BookP!Row, BookP!Statuses
  <2>4. rows[r] # None
    BY <2>3, Assumed DEF BookP!NoneAssumption
  <2>5. told[r] = {ch \in Channels : Reached(req[r].client, ch)}
    BY <1>2, <1>3, <2>1, Zenon
  <2>6. told[r] \subseteq Channels /\ \A ch \in Channels : Wanted(r, ch) => ch \in told[r]
    BY <2>5 DEF Wanted
  <2> QED BY <1>3, <2>1, <2>2, <2>3, <2>4, <2>6 DEF Booked
<1>4. CASE r \notin DOMAIN Earlier
  BY <1>1, <1>2, <1>4 DEF ToCome
<1> QED BY <1>3, <1>4

LEMMA CallInit == Init => CallInv
<1> SUFFICES ASSUME Init PROVE CallInv
  OBVIOUS
<1>1. /\ clients = Clients /\ raced = {} /\ running = None
      /\ loaded = [r \in Requests |-> None] /\ seen = [r \in Requests |-> {}]
      /\ logged = [r \in Requests |-> {}]
  BY Zenon DEF Init, InitNotifications
<1>2. /\ rows = [r \in Requests |-> rows[r]] /\ events = [r \in Requests |-> events[r]]
      /\ bpc = [r \in Requests |-> bpc[r]] /\ req = [r \in Requests |-> req[r]]
      /\ effects = [r \in Requests |-> effects[r]] /\ told = [r \in Requests |-> told[r]]
  BY Zenon DEF Init
<1>3. ASSUME NEW r \in Requests
      PROVE  (r \in DOMAIN Earlier /\ Booked(r)) \/ (r \notin DOMAIN Earlier /\ ToCome(r))
  BY InitRequest
<1>4. ASSUME NEW r \in Requests
      PROVE  (bpc[r] = "ok" /\ req[r].op = "book") \/ bpc[r] = "idle"
  <2>1. Booked(r) \/ ToCome(r)
    BY <1>3
  <2> QED BY <2>1 DEF Booked, ToCome
<1>5. BookP!TypeOK
  <2>1. ASSUME NEW r \in Requests
        PROVE  /\ rows[r] \in BookP!Row \union {None}
               /\ rows[r] # None => rows[r].end > rows[r].start
               /\ req[r] \in BookP!Request \union {None}
               /\ events[r] \in [state : {"none", "live", "deleted"}, start : Int, end : Int]
               /\ bpc[r] \in BookP!Steps \union BookP!Answers
               /\ told[r] \in SUBSET {"sms", "email"}
               /\ effects[r] \in SUBSET {"calendar", "row"}
    <3>1. CASE Booked(r)
      BY <3>1 DEF Booked, BookP!Request, BookP!Steps, BookP!Answers, Channels
    <3>2. CASE ToCome(r)
      BY <3>2 DEF ToCome, BookP!Steps
    <3> QED BY <1>3, <3>1, <3>2
  <2> QED BY <1>1, <1>2, <2>1 DEF BookP!TypeOK
<1>6. ASSUME NEW r \in Requests
      PROVE  /\ BookP!RequestInv(r) /\ BookP!OwnInv(r)
             /\ BookP!MovedInv(r) /\ BookP!ConfirmedInv(r) /\ BookP!SeenInv(r)
             /\ BookP!CopyInv(r) /\ BookP!HolderInv(r) /\ BookP!CancelInv(r)
             /\ BookP!EventInv(r) /\ BookP!DifferOnlyFor(r, FALSE) /\ BookP!ToolInv(r)
             /\ told[r] # {} => /\ rows[r] # None /\ effects[r] = {"calendar", "row"}
                                /\ bpc[r] \in {"sms", "email", "ok", "abandoned"}
  <2>1. loaded[r] = None /\ seen[r] = {}
    BY <1>1
  <2> USE DEF BookP!RequestInv, BookP!OwnInv, BookP!MovedInv, BookP!ConfirmedInv,
      BookP!SeenInv, BookP!CopyInv, BookP!HolderInv, BookP!Holds, BookP!CancelInv,
      BookP!EventInv, BookP!DifferOnlyFor, BookP!ToolInv, BookP!Held, BookP!Active,
      BookP!SameTime, BookP!Untouched, BookP!Written, BookP!Refused
  <2>2. CASE Booked(r)
    BY <2>1, <2>2 DEF Booked
  <2>3. CASE ToCome(r)
    BY <2>1, <2>3 DEF ToCome
  <2> QED BY <1>3, <2>2, <2>3
<1>7. BookP!IInv
  <2>1. BookP!StoresInv
    BY <1>6 DEF BookP!StoresInv, BookP!AloneInv
  <2> QED BY <1>5, <1>6, <2>1 DEF BookP!IInv, BookP!RequestsInv, BookP!ClashInv,
             BookP!NoticeInv, BookP!NotifiedMeansBooked
<1>8. SerialInv
  BY <1>1, <1>4 DEF SerialInv, Book!Answers
<1>9. SlotInv
  <2>1. \A r \in Requests : r \notin DOMAIN Earlier => rows[r] = None
    BY <1>3 DEF ToCome
  <2> QED BY <1>4, <2>1 DEF SlotInv, NeverBookedTwiceInOneCall, Book!Active
<1>10. CopyInv
  BY <1>4, <1>6 DEF CopyInv
<1>11. ConfirmInv
  <2>1. ASSUME NEW r \in Requests, bpc[r] = "ok", NEW ch \in Channels, Wanted(r, ch)
        PROVE  ch \in told[r]
    BY <1>3, <2>1 DEF Booked, ToCome
  <2> QED BY <1>1, <1>4, <2>1 DEF ConfirmInv, ConfirmedOrLogged
<1> QED BY <1>7, <1>8, <1>9, <1>10, <1>11 DEF CallInv

LEMMA CallInvariance == Spec => []CallInv
BY CallInit, CallStep, PTL DEF Spec

\* Within one call an appointment and its calendar event part only where a request
\* was cut off or failed between its two writes, or moved what had been cancelled:
\* the tools' serial execution leaves no race.
THEOREM StoresAgreeHolds == Spec => []StoresAgreeInOneCall
<1>1. CallInv => StoresAgreeInOneCall
  <2> SUFFICES ASSUME CallInv, NEW a \in Requests, Book!Settled(a)
               PROVE  Book!DifferOnlyFor(a, FALSE)
    BY DEF StoresAgreeInOneCall
  <2>1. BookP!DifferOnlyFor(a, FALSE)
    BY DEF CallInv, CopyInv, Book!Settled, BookP!Settled
  <2> QED BY <2>1, SameCauses DEF Book!DifferOnlyFor, BookP!DifferOnlyFor, Book!Active,
             BookP!Active, Book!SameTime, BookP!SameTime
<1> QED BY <1>1, CallInvariance, PTL

\* No tool books a client for a time that is taken, whatever the caller asks for
\* and cuts off (book_appointment's overlap guard).
THEOREM NeverBookedTwiceHolds == Spec => []NeverBookedTwiceInOneCall
<1>1. CallInv => NeverBookedTwiceInOneCall
  BY DEF CallInv, SlotInv
<1> QED BY <1>1, CallInvariance, PTL

\* A booking reported as done was confirmed on each channel, or the failure of the
\* channel logged (_send_confirmation).
THEOREM ConfirmedOrLoggedHolds == Spec => []ConfirmedOrLogged
<1>1. CallInv => ConfirmedOrLogged
  BY DEF CallInv, ConfirmInv
<1> QED BY <1>1, CallInvariance, PTL
-----------------------------------------------------------------------------
(* The components as parts of a call *)

\* To the conversation a call is a conversation like any other: the tools of the
\* booking service do to it what module Conversation takes for granted of tools,
\* so whatever holds of every conversation holds in a call.  That each tool does
\* return (the fairness in ImplementsConversation) is left to the runs.
THEOREM CallIsAConversation == Spec => Conv!Spec
<1>1. Init => Conv!Init
  BY DEF Init
<1>2. [Next]_vars => [Conv!Next]_(Conv!vars)
  <2> SUFFICES ASSUME [Next]_vars PROVE Conv!Next \/ UNCHANGED conversation
    BY DEF conversation, Conv!vars
  <2>1. CASE Talk
    BY <2>1 DEF Talk, Conv!Next, Conv!Proceed
  <2>2. CASE ReadTool \/ ToolReturns
    BY <2>2 DEF ReadTool, ToolReturns, Conv!Next, Conv!Proceed
  <2>3. CASE BargeIn
    BY <2>3 DEF BargeIn, Conv!Next
  <2>4. CASE \E r \in Requests : StartTool(r) \/ Serve(r)
    BY <2>4 DEF StartTool, Serve, Work, Post, Sent
  <2>5. CASE UNCHANGED vars
    BY <2>5 DEF vars
  <2> QED BY <2>1, <2>2, <2>3, <2>4, <2>5 DEF Next
<1> QED BY <1>1, <1>2, PTL DEF Spec, Conv!Spec

\* What the module of the conversation's proofs calls a step of it is one.
LEMMA SameSteps ==
  /\ Conv!Utterance => ConvP!Utterance
  /\ Conv!UtteranceOverLimit => ConvP!UtteranceOverLimit
  /\ Conv!Retry => ConvP!Retry
  /\ Conv!Connect => ConvP!Connect
  /\ Conv!StreamText => ConvP!StreamText
  /\ Conv!Answer => ConvP!Answer
  /\ Conv!CallTools => ConvP!CallTools
  /\ Conv!ToolEnds => ConvP!ToolEnds
  /\ Conv!LLMFails => ConvP!LLMFails
  /\ Conv!EndTurn => ConvP!EndTurn
  /\ Conv!CutIn => ConvP!CutIn
<1> USE DEF Conv!config, ConvP!config, Conv!world, ConvP!world, Conv!turns, ConvP!turns,
            Conv!request, ConvP!request
<1>1. Conv!Utterance => ConvP!Utterance
  BY DEF Conv!Utterance, ConvP!Utterance, Conv!Send, ConvP!Send,
         Conv!LimitReached, ConvP!LimitReached
<1>2. Conv!UtteranceOverLimit => ConvP!UtteranceOverLimit
  BY DEF Conv!UtteranceOverLimit, ConvP!UtteranceOverLimit,
         Conv!LimitReached, ConvP!LimitReached
<1>3. (Conv!Retry => ConvP!Retry) /\ (Conv!StreamText => ConvP!StreamText)
  BY DEF Conv!Retry, ConvP!Retry, Conv!StreamText, ConvP!StreamText
<1>4. Conv!Paired(history) <=> ConvP!Paired(history)
  BY DEF Conv!Paired, ConvP!Paired, Conv!Dangling, ConvP!Dangling
<1>5. Conv!Connect => ConvP!Connect
  BY <1>4 DEF Conv!Connect, ConvP!Connect
<1>6. Conv!CallTools => ConvP!CallTools
  BY <1>4 DEF Conv!CallTools, ConvP!CallTools, Conv!Msg, ConvP!Msg
<1>7. Conv!Dropped = ConvP!Dropped /\ \A role, n : Conv!Msg(role, n) = ConvP!Msg(role, n)
  BY DEF Conv!Dropped, ConvP!Dropped, Conv!Msg, ConvP!Msg
<1>8. \A kind : /\ Conv!Reply(kind) <=> ConvP!Reply(kind)
                /\ Conv!HandOff(kind) <=> ConvP!HandOff(kind)
  BY DEF Conv!Reply, ConvP!Reply, Conv!HandOff, ConvP!HandOff, Conv!HandsOff, ConvP!HandsOff
<1>9. \A h : Conv!Trim(h) = ConvP!Trim(h)
  BY Zenon DEF Conv!Trim, ConvP!Trim, Conv!LastTurns, ConvP!LastTurns, Conv!UserIndices,
     ConvP!UserIndices, Conv!Cardinality, ConvP!Cardinality
<1>10. Conv!Answer => ConvP!Answer
  BY <1>4, <1>7, <1>8, <1>9 DEF Conv!Answer, ConvP!Answer
<1>11. Conv!ToolEnds => ConvP!ToolEnds
  BY <1>7, <1>8 DEF Conv!ToolEnds, ConvP!ToolEnds, Conv!Send, ConvP!Send,
         Conv!AnotherRound, ConvP!AnotherRound
<1>12. (Conv!LLMFails => ConvP!LLMFails) /\ (Conv!EndTurn => ConvP!EndTurn)
  BY <1>7, <1>8 DEF Conv!LLMFails, ConvP!LLMFails, Conv!EndTurn, ConvP!EndTurn
<1>13. Conv!CutIn => ConvP!CutIn
  BY DEF Conv!CutIn, ConvP!CutIn
<1> QED
  BY <1>1, <1>2, <1>3, <1>5, <1>6, <1>10, <1>11, <1>12, <1>13

LEMMA SameConversation == Conv!Spec => ConvP!Spec
<1>1. Conv!Init => ConvP!Init
  BY DEF Conv!Init, ConvP!Init, Conv!Turns, ConvP!Turns
<1>2. [Conv!Next]_(Conv!vars) => [ConvP!Next]_(ConvP!vars)
  <2> SUFFICES ASSUME Conv!Next PROVE ConvP!Next
    BY DEF Conv!vars, ConvP!vars
  <2> USE DEF Conv!config, ConvP!config, Conv!turns, ConvP!turns, Conv!request, ConvP!request,
              Conv!conversation, ConvP!conversation
  <2>1. (Conv!TimeUp => ConvP!TimeUp) /\ (Conv!HangUp => ConvP!HangUp)
    BY DEF Conv!TimeUp, ConvP!TimeUp, Conv!HangUp, ConvP!HangUp
  <2>2. \A u : Conv!Lookup(u) \/ Conv!Transfer(u) => ConvP!Lookup(u) \/ ConvP!Transfer(u)
    BY DEF Conv!Lookup, ConvP!Lookup, Conv!Transfer, ConvP!Transfer, Conv!Advance, ConvP!Advance
  <2> QED
    BY SameSteps, <2>1, <2>2
       DEF Conv!Next, ConvP!Next, Conv!Proceed, ConvP!Proceed, Conv!Turns, ConvP!Turns
<1> QED BY <1>1, <1>2, PTL DEF Conv!Spec, ConvP!Spec

\* What is proved of every conversation holds in a call that books: its cost is
\* bounded, only a barge-in slices a tool call from its result, a transfer is
\* asked for, and a turn that fails leaves no trace in the history (whatever its
\* tools have done).
THEOREM ConversationHolds ==
  Spec => [](/\ Conv!CostBounded /\ Conv!SlicedOnlyByBargeIn
             /\ Conv!TransferOnlyWhenAsked /\ Conv!UnansweredTurnLeavesNoTrace)
<1>0. ConvP!LimitsAssumption
  BY TurnsAssumption DEF ConvP!LimitsAssumption
<1>1. Spec => [](/\ ConvP!CostBounded /\ ConvP!SlicedOnlyByBargeIn
                 /\ ConvP!TransferOnlyWhenAsked /\ ConvP!UnansweredTurnLeavesNoTrace)
  BY <1>0, CallIsAConversation, SameConversation, ConvP!CostIsBounded,
     ConvP!SlicedOnlyByBargeInHolds, ConvP!TransfersAreAskedFor,
     ConvP!FailedTurnsAreForgotten, PTL
<1>2. /\ ConvP!CostBounded <=> Conv!CostBounded
      /\ ConvP!SlicedOnlyByBargeIn <=> Conv!SlicedOnlyByBargeIn
      /\ ConvP!TransferOnlyWhenAsked <=> Conv!TransferOnlyWhenAsked
      /\ ConvP!UnansweredTurnLeavesNoTrace <=> Conv!UnansweredTurnLeavesNoTrace
  BY DEF Conv!CostBounded, ConvP!CostBounded, Conv!SlicedOnlyByBargeIn,
         ConvP!SlicedOnlyByBargeIn, Conv!Dangling, ConvP!Dangling,
         Conv!TransferOnlyWhenAsked, ConvP!TransferOnlyWhenAsked, Conv!Turns, ConvP!Turns,
         Conv!HandsOff, ConvP!HandsOff,
         Conv!UnansweredTurnLeavesNoTrace, ConvP!UnansweredTurnLeavesNoTrace
<1> QED BY <1>1, <1>2, PTL

\* A call whose tools book, barge-ins, failures and all, is remembered turn by turn as
\* Dialogue says, what its requests send is well formed for both vendors or for
\* neither unless an empty answer is remembered, and no turn speaks twice.
THEOREM DialogueHolds ==
  Spec => ConvP!ImplementsDialogue /\ []ConvP!OnlyEmptyAnswersDivideVendors /\ ConvP!SpokenOnce
<1>1. ConvP!LimitsAssumption
  BY TurnsAssumption DEF ConvP!LimitsAssumption
<1> QED BY <1>1, CallIsAConversation, SameConversation, ConvP!DialogueImplemented,
           ConvP!VendorsDividedHolds, ConvP!NothingIsSpokenTwice, PTL

\* What is proved of a service that is alone holds in a call, whose appointments
\* are not all of its own making: the event of a cancelled appointment stays deleted,
\* and only a reschedule that loaded the row as cancelled, or raced, revives it; tools
\* change only what is their caller's, and nobody is told of a booking that does not
\* exist.
THEOREM ServiceHolds ==
  Spec => [](Book!CancelSticks /\ Book!ToolsActForTheirCaller /\ Book!NotifiedMeansBooked)
<1>1. CallInv => Book!CancelSticks
  <2> SUFFICES ASSUME CallInv, NEW r \in Requests, bpc[r] = "ok", req[r].op = "cancel",
                      NEW a, a = req[r].target
               PROVE  /\ events[a].state = "deleted"
                      /\ Book!Active(rows[a]) => Book!Revived(a) \/ Book!Mixed(a)
    BY DEF Book!CancelSticks
  <2>1. BookP!RequestInv(r) /\ BookP!CancelInv(r)
    BY DEF CallInv, BookP!IInv, BookP!RequestsInv, BookP!StoresInv
  <2>2. effects[r] = {"calendar", "row"} /\ a \in Requests
    BY <2>1 DEF BookP!RequestInv, BookP!Written, BookP!Request
  <2>3. /\ events[a].state = "deleted"
        /\ BookP!Active(rows[a]) => BookP!Revived(a) \/ BookP!Mixed(a)
    BY <2>1, <2>2 DEF BookP!CancelInv, BookP!Mixed
  <2> QED BY <2>2, <2>3, SameCauses, SameHelpers
<1>2. CallInv => Book!NotifiedMeansBooked
  BY DEF CallInv, BookP!IInv, BookP!NoticeInv, Book!NotifiedMeansBooked, BookP!NotifiedMeansBooked
<1>3. CallInv => Book!ToolsActForTheirCaller
  BY DEF CallInv, BookP!IInv, BookP!RequestsInv, BookP!NoticeInv, BookP!RequestInv,
         BookP!ToolInv, BookP!Untouched, Book!ToolsActForTheirCaller
<1> QED BY <1>1, <1>2, <1>3, CallInvariance, PTL

-----------------------------------------------------------------------------
(* What the model knows of its tools *)

\* Each turn's results are where the conversation's proofs say they are.
KnowInv ==
  /\ returned \in [Conv!Turns -> Nat]
  /\ askedIn \in [Requests -> Conv!Turns \union {0}]
  /\ \A v \in Conv!Turns, k \in Nat : returned[v] = k => ConvP!KnownNow(k, v)

\* What holds of the conversation alone.
TalkInv == ConvP!Shape /\ ConvP!TraceInv /\ ConvP!PairInv /\ ConvP!MemoryInv

LEMMA KnowInit == Init => KnowInv
<1> SUFFICES ASSUME Init PROVE KnowInv
  OBVIOUS
<1>1. ConvP!Init /\ Conv!Turns = ConvP!Turns
  BY DEF Init, Conv!Init, ConvP!Init, Conv!Turns, ConvP!Turns
<1>2. ConvP!LimitsAssumption
  BY TurnsAssumption DEF ConvP!LimitsAssumption
<1>3. \A v \in Conv!Turns : ConvP!KnownNow(0, v)
  BY <1>1, <1>2, ConvP!KnownInit
<1>4. \A v \in Conv!Turns : returned[v] = 0
  BY DEF Init
<1>5. returned \in [Conv!Turns -> Nat] /\ askedIn \in [Requests -> Conv!Turns \union {0}]
  BY DEF Init
<1> QED BY <1>3, <1>4, <1>5 DEF KnowInv

\* A step without a tool's return keeps what is known, and none is counted.
LEMMA KnowStays ==
  ASSUME TalkInv, TalkInv', KnowInv, UNCHANGED returned,
         askedIn' \in [Requests -> Conv!Turns \union {0}],
         \/ Conv!Utterance \/ Conv!UtteranceOverLimit \/ Conv!Retry \/ Conv!Answer
         \/ Conv!CallTools \/ Conv!LLMFails \/ Conv!EndTurn \/ Conv!CutIn
         \/ UNCHANGED conversation
  PROVE  KnowInv'
<1>1. ConvP!LimitsAssumption
  BY TurnsAssumption DEF ConvP!LimitsAssumption
<1>2. \/ ConvP!Utterance \/ ConvP!UtteranceOverLimit \/ ConvP!Retry \/ ConvP!Answer
      \/ ConvP!CallTools \/ ConvP!LLMFails \/ ConvP!EndTurn \/ ConvP!CutIn
      \/ UNCHANGED ConvP!vars
  BY SameSteps DEF conversation, ConvP!vars
<1>3. Conv!Turns = ConvP!Turns
  BY DEF Conv!Turns, ConvP!Turns
<1>4. \A v \in Conv!Turns, k \in Nat : returned[v] = k => ConvP!KnownNow(k, v)'
  <2> SUFFICES ASSUME NEW CONSTANT v \in Conv!Turns, NEW CONSTANT k \in Nat, returned[v] = k
               PROVE  ConvP!KnownNow(k, v)'
    OBVIOUS
  <2>1. ConvP!KnownNow(k, v)
    BY DEF KnowInv
  <2>2. ConvP!Shape /\ ConvP!Shape' /\ ConvP!TraceInv /\ ConvP!PairInv /\ ConvP!MemoryInv
    BY DEF TalkInv
  <2>3. v \in ConvP!Turns
    BY <1>3
  <2> QED BY <1>1, <1>2, <2>1, <2>2, <2>3, ConvP!KnownKept
<1>5. returned' = returned
  OBVIOUS
<1> QED BY <1>4, <1>5 DEF KnowInv, Conv!Turns

\* A tool's return is counted and known, or its turn ends in the fallback.
LEMMA KnowReturn ==
  ASSUME TalkInv, TalkInv', KnowInv, Conv!ToolEnds, Return, UNCHANGED askedIn
  PROVE  KnowInv'
<1>1. ConvP!LimitsAssumption /\ ConvP!ToolEnds
  BY TurnsAssumption, SameSteps DEF ConvP!LimitsAssumption
<1>2. Conv!Turns = ConvP!Turns
  BY DEF Conv!Turns, ConvP!Turns
<1>3. turn \in Conv!Turns
  BY <1>2 DEF TalkInv, ConvP!Shape, Conv!ToolEnds
<1>4. /\ returned' \in [Conv!Turns -> Nat]
      /\ \A v \in Conv!Turns :
           returned'[v] = IF v = turn THEN returned[v] + 1 ELSE returned[v]
  BY <1>3 DEF Return, KnowInv
<1>5. \A v \in Conv!Turns, k \in Nat : returned'[v] = k => ConvP!KnownNow(k, v)'
  <2> SUFFICES ASSUME NEW CONSTANT v \in Conv!Turns, NEW CONSTANT k \in Nat, returned'[v] = k
               PROVE  ConvP!KnownNow(k, v)'
    OBVIOUS
  <2>1. ConvP!Shape /\ ConvP!TraceInv /\ ConvP!PairInv /\ ConvP!MemoryInv
    BY DEF TalkInv
  <2>2. v \in ConvP!Turns
    BY <1>2
  <2>3. CASE v = turn
    <3>1. returned[v] \in Nat /\ k = returned[v] + 1
      BY <1>4, <2>3 DEF KnowInv
    <3>2. k - 1 \in Nat /\ returned[v] = k - 1 /\ (k - 1) + 1 = k
      BY <3>1
    <3>3. ConvP!KnownNow(k - 1, v)
      BY <3>2 DEF KnowInv
    <3> DEFINE n == k - 1
    <3>4. n \in Nat /\ ConvP!KnownNow(n, v) /\ n + 1 = k
      BY <3>2, <3>3
    <3> HIDE DEF n
    <3>5. IF v = turn THEN ConvP!KnownNow(n + 1, v)' ELSE ConvP!KnownNow(n, v)'
      BY <1>1, <2>1, <2>2, <3>4, ConvP!KnownReturned
    <3> QED BY <2>3, <3>4, <3>5
  <2>4. CASE v # turn
    <3>1. ConvP!KnownNow(k, v)
      BY <1>4, <2>4 DEF KnowInv
    <3>2. IF v = turn THEN ConvP!KnownNow(k + 1, v)' ELSE ConvP!KnownNow(k, v)'
      BY <1>1, <2>1, <2>2, <3>1, ConvP!KnownReturned
    <3> QED BY <2>4, <3>2
  <2> QED BY <2>3, <2>4
<1> QED BY <1>4, <1>5 DEF KnowInv, Conv!Turns

LEMMA KnowStep == TalkInv /\ TalkInv' /\ KnowInv /\ [Next]_vars => KnowInv'
<1> SUFFICES ASSUME TalkInv, TalkInv', KnowInv, [Next]_vars PROVE KnowInv'
  OBVIOUS
<1>1. askedIn \in [Requests -> Conv!Turns \union {0}]
  BY DEF KnowInv
<1>2. CASE Talk
  BY <1>1, <1>2, KnowStays DEF Talk, tool
<1>3. CASE ReadTool \/ ToolReturns
  BY <1>3, KnowReturn DEF ReadTool, ToolReturns
<1>4. CASE BargeIn
  BY <1>1, <1>4, KnowStays DEF BargeIn
<1>5. ASSUME NEW r \in Requests, StartTool(r) PROVE KnowInv'
  <2>1. turn \in Conv!Turns
    BY <1>5 DEF StartTool, TalkInv, ConvP!Shape, Conv!Turns, ConvP!Turns
  <2>2. askedIn' \in [Requests -> Conv!Turns \union {0}]
    BY <1>1, <1>5, <2>1 DEF StartTool
  <2> QED BY <1>5, <2>2, KnowStays DEF StartTool
<1>6. ASSUME NEW r \in Requests, Serve(r) PROVE KnowInv'
  <2>1. UNCHANGED <<conversation, tool>>
    BY <1>6 DEF Serve, Work, Post, Sent
  <2> QED BY <1>1, <2>1, KnowStays DEF tool
<1>7. CASE UNCHANGED vars
  BY <1>1, <1>7, KnowStays DEF vars, tool
<1> QED BY <1>2, <1>3, <1>4, <1>5, <1>6, <1>7 DEF Next

\* Every request of a turn that is over is counted with what its turn returned: a
\* barge-in in the middle of one tears the turn.
CountInv ==
  /\ running # None => pc = "tools" /\ askedIn[running] = turn
  /\ \A v \in Conv!Turns :
       \/ outcome[v] = "torn"
       \/ IsFiniteSet(Ended(v)) /\ Cardinality(Ended(v)) <= returned[v]

LEMMA CountInit == Init => CountInv
<1> SUFFICES ASSUME Init PROVE CountInv
  OBVIOUS
<1>1. running = None /\ \A v \in Conv!Turns : Ended(v) = {} /\ returned[v] = 0
  BY DEF Init, Ended, Conv!Turns
<1>2. IsFiniteSet({}) /\ Cardinality({}) = 0
  BY FS_EmptySet
<1> QED BY <1>1, <1>2 DEF CountInv

\* A tool's return, of a request or not.
LEMMA CountReturn ==
  ASSUME TalkInv, KnowInv, running \in Requests \union {None}, CountInv,
         ReadTool \/ ToolReturns, NEW v \in Conv!Turns, outcome'[v] # "torn", outcome[v] # "torn"
  PROVE  IsFiniteSet(Ended(v)') /\ Cardinality(Ended(v)') <= returned'[v]
<1>1. /\ Return /\ askedIn' = askedIn /\ running' = None /\ pc = "tools" /\ turn \in Conv!Turns
      /\ \A r \in Requests : r # None
  BY CallAssumption DEF ReadTool, ToolReturns, Conv!ToolEnds, TalkInv, ConvP!Shape, Conv!Turns, ConvP!Turns
<1>2. /\ IsFiniteSet(Ended(v)) /\ Cardinality(Ended(v)) <= returned[v]
      /\ Cardinality(Ended(v)) \in Nat /\ returned[v] \in Nat
  BY FS_CardinalityType DEF CountInv, KnowInv
<1>3. returned'[v] = IF v = turn THEN returned[v] + 1 ELSE returned[v]
  BY <1>1 DEF Return, KnowInv
<1>4. CASE running # None /\ v = turn
  <2>1. Ended(v)' = Ended(v) \union {running} /\ running \notin Ended(v)
    BY <1>1, <1>4 DEF Ended, CountInv
  <2>2. /\ IsFiniteSet(Ended(v) \union {running})
        /\ Cardinality(Ended(v) \union {running}) = Cardinality(Ended(v)) + 1
    BY <1>2, <2>1, FS_AddElement
  <2> QED BY <1>2, <1>3, <1>4, <2>1, <2>2
<1>5. CASE ~(running # None /\ v = turn)
  <2>1. Ended(v)' = Ended(v)
    BY <1>1, <1>5 DEF Ended, CountInv
  <2> QED BY <1>2, <1>3, <2>1
<1> QED BY <1>4, <1>5

LEMMA CountStep ==
  TalkInv /\ KnowInv /\ SerialInv /\ CountInv /\ [Next]_vars => CountInv'
<1> SUFFICES ASSUME TalkInv, KnowInv, running \in Requests \union {None}, CountInv, [Next]_vars
             PROVE  CountInv'
  BY DEF SerialInv
<1>1. ASSUME NEW v \in Conv!Turns, outcome[v] = "torn" PROVE outcome'[v] = "torn"
  <2>1. ConvP!LimitsAssumption /\ ConvP!Shape /\ ConvP!PairInv /\ v \in ConvP!Turns
    BY TurnsAssumption DEF ConvP!LimitsAssumption, TalkInv, Conv!Turns, ConvP!Turns
  <2>2. \/ Conv!Utterance \/ Conv!UtteranceOverLimit \/ Conv!Retry \/ Conv!Answer
        \/ Conv!CallTools \/ Conv!ToolEnds \/ Conv!LLMFails \/ Conv!EndTurn \/ Conv!CutIn
        \/ UNCHANGED conversation
    BY DEF Next, Talk, ReadTool, ToolReturns, BargeIn, StartTool, Serve, Work, Post, Sent, vars
  <2>3. \/ ConvP!Utterance \/ ConvP!UtteranceOverLimit \/ ConvP!Retry \/ ConvP!Answer
        \/ ConvP!CallTools \/ ConvP!ToolEnds \/ ConvP!LLMFails \/ ConvP!EndTurn \/ ConvP!CutIn
        \/ UNCHANGED ConvP!vars
    BY <2>2, SameSteps DEF conversation, ConvP!vars
  <2> QED BY <1>1, <2>1, <2>3, ConvP!TornStays
<1>2. /\ running' # None => pc' = "tools" /\ askedIn'[running'] = turn'
      /\ \A v \in Conv!Turns :
           outcome'[v] # "torn"
           => IsFiniteSet(Ended(v)') /\ Cardinality(Ended(v)') <= returned'[v]
  <2>1. CASE Talk
    <3>1. running = None /\ UNCHANGED tool
      BY <2>1 DEF Talk, CountInv, Conv!Utterance, Conv!UtteranceOverLimit, Conv!Retry, Conv!Answer,
         Conv!CallTools, Conv!LLMFails, Conv!EndTurn
    <3> QED BY <1>1, <3>1 DEF tool, CountInv, Ended
  <2>2. CASE ReadTool \/ ToolReturns
    <3>1. running' = None
      BY <2>2 DEF ReadTool, ToolReturns
    <3> QED BY <1>1, <2>2, <3>1, CountReturn
  <2>3. CASE BargeIn
    <3>1. running' = None /\ UNCHANGED <<askedIn, returned>> /\ \A r \in Requests : r # None
      BY <2>3, CallAssumption DEF BargeIn
    <3>2. ASSUME NEW v \in Conv!Turns, outcome'[v] # "torn" PROVE Ended(v)' = Ended(v)
      <4>1. CASE running = None
        BY <3>1, <4>1 DEF Ended
      <4>2. CASE running # None
        <5>1. /\ pc = "tools" /\ askedIn[running] = turn /\ turn \in Conv!Turns
              /\ outcome \in [Conv!Turns -> {outcome[u] : u \in Conv!Turns}]
          BY <4>2 DEF CountInv, TalkInv, ConvP!Shape, ConvP!TypeOK, Conv!Turns, ConvP!Turns
        <5>2. outcome' = [outcome EXCEPT ![turn] = "torn"]
          BY <2>3, <5>1 DEF BargeIn, Conv!CutIn
        <5>3. v # turn
          BY <3>2, <5>1, <5>2
        <5> QED BY <3>1, <4>2, <5>1, <5>3 DEF Ended
      <4> QED BY <4>1, <4>2
    <3> QED BY <1>1, <3>1, <3>2 DEF CountInv
  <2>4. ASSUME NEW r \in Requests, StartTool(r)
        PROVE  /\ running' # None => pc' = "tools" /\ askedIn'[running'] = turn'
               /\ \A v \in Conv!Turns :
                    outcome'[v] # "torn"
                    => IsFiniteSet(Ended(v)') /\ Cardinality(Ended(v)') <= returned'[v]
    <3>1. /\ running = None /\ running' = r /\ pc = "tools"
          /\ askedIn' = [askedIn EXCEPT ![r] = turn]
          /\ UNCHANGED <<pc, turn, outcome, returned>>
      BY <2>4 DEF StartTool, conversation
    <3>2. askedIn'[r] = turn
      BY <3>1 DEF KnowInv
    <3>3. ASSUME NEW v \in Conv!Turns, outcome'[v] # "torn"
          PROVE  IsFiniteSet(Ended(v)') /\ Cardinality(Ended(v)') <= returned'[v]
      <4>1. Ended(v)' \in SUBSET Ended(v)
        <5> SUFFICES ASSUME NEW q \in Requests, askedIn'[q] = v, q # r
                     PROVE  askedIn[q] = v /\ q # None
          BY <3>1 DEF Ended
        <5> QED BY <3>1, CallAssumption DEF KnowInv
      <4>2. /\ IsFiniteSet(Ended(v)) /\ Cardinality(Ended(v)) <= returned[v]
            /\ returned[v] \in Nat /\ returned'[v] = returned[v]
        BY <3>1, <3>3 DEF CountInv, KnowInv
      <4>3. /\ IsFiniteSet(Ended(v)') /\ Cardinality(Ended(v)') <= Cardinality(Ended(v))
            /\ Cardinality(Ended(v)') \in Nat /\ Cardinality(Ended(v)) \in Nat
        BY <4>1, <4>2, FS_Subset, FS_CardinalityType
      <4> QED BY <4>2, <4>3
    <3> QED BY <3>1, <3>2, <3>3
  <2>5. CASE UNCHANGED <<conversation, tool>>
    BY <2>5 DEF conversation, tool, CountInv, Ended
  <2>6. ASSUME NEW r \in Requests, Serve(r) PROVE UNCHANGED <<conversation, tool>>
    BY <2>6 DEF Serve, Work, Post, Sent
  <2>7. CASE UNCHANGED vars
    <3>1. UNCHANGED <<conversation, tool>>
      BY <2>7 DEF vars
    <3> QED BY <2>5, <3>1
  <2> QED BY <2>1, <2>2, <2>3, <2>4, <2>5, <2>6, <2>7 DEF Next
<1> QED BY <1>2 DEF CountInv

LEMMA KnowInvariance == Spec => [](TalkInv /\ KnowInv /\ CountInv)
<1>1. ConvP!LimitsAssumption
  BY TurnsAssumption DEF ConvP!LimitsAssumption
<1>2. Spec => []TalkInv
  BY <1>1, CallIsAConversation, SameConversation, ConvP!MemoryHolds, PTL DEF TalkInv
<1>3. Spec => []SerialInv
  <2>1. CallInv => SerialInv
    BY DEF CallInv
  <2> QED BY <2>1, CallInvariance, PTL
<1> QED BY <1>2, <1>3, KnowInit, KnowStep, CountInit, CountStep, PTL DEF Spec

\* What the tools changed is what the model still knows of: the results of a turn
\* stay in the history, unless the turn was cut off in a tool, ended in the
\* fallback or has been trimmed (_trim_history, history[:turn_start]).
THEOREM ModelKnowsWhatItDidHolds == Spec => []ModelKnowsWhatItDid
<1>1. ConvP!LimitsAssumption
  BY TurnsAssumption DEF ConvP!LimitsAssumption
<1>2. ASSUME TalkInv, KnowInv, CountInv, NEW v \in Conv!Turns
      PROVE  Remembered(v) \/ Outlived(v) \/ outcome[v] \in {"torn", "fallback"}
  <2>1. ConvP!KnownNow(returned[v], v) /\ v \in ConvP!Turns
    BY <1>2 DEF KnowInv, Conv!Turns, ConvP!Turns
  <2>2. outcome[v] \in {"torn", "fallback"} \/ ConvP!Known(returned[v], history, v)
    BY <1>1, <1>2, <2>1, ConvP!KnownShown DEF TalkInv
  <2>3. outcome[v] = "torn" \/ Cardinality(Ended(v)) <= returned[v]
    BY <1>2 DEF CountInv
  <2>4. \A S : Cardinality(S) = ConvP!Cardinality(S)
    BY Zenon DEF Cardinality, ConvP!Cardinality
  <2>5. ConvP!ToolsOf(history, v) = {i \in DOMAIN history : history[i].role = "tool"
                                                            /\ history[i].turn = v}
    BY DEF ConvP!ToolsOf
  <2>6. ConvP!LaterUsers(history, v) = {i \in Conv!UserIndices(history) : history[i].turn > v}
    BY DEF ConvP!LaterUsers, ConvP!UserIndices, Conv!UserIndices
  <2>7. ConvP!Known(returned[v], history, v) /\ Cardinality(Ended(v)) <= returned[v]
        => Remembered(v) \/ Outlived(v)
    BY <2>4, <2>5, <2>6, Zenon DEF ConvP!Known, Remembered, Outlived
  <2> QED BY <2>2, <2>3, <2>7
<1>3. TalkInv /\ KnowInv /\ CountInv => ModelKnowsWhatItDid
  <2> SUFFICES ASSUME TalkInv, KnowInv, CountInv, NEW r \in Requests, askedIn[r] # 0
               PROVE  \/ Remembered(askedIn[r]) \/ Outlived(askedIn[r])
                      \/ outcome[askedIn[r]] \in {"torn", "fallback"}
    BY DEF ModelKnowsWhatItDid
  <2>1. askedIn[r] \in Conv!Turns
    BY DEF KnowInv
  <2> QED BY <1>2, <2>1
<1> QED BY <1>3, KnowInvariance, PTL

=============================================================================
