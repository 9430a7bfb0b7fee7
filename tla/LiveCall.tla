------------------------------ MODULE LiveCall -------------------------------
(***************************************************************************)
(* One call whose tools book appointments: the conversation manager, the   *)
(* booking service its tools run in, and the notification providers the    *)
(* service confirms with.  The conversation runs its tools one after the   *)
(* other and waits for each; a barge-in cancels the turn and the request   *)
(* of the tool under way with it, but not a calendar call a worker thread  *)
(* has begun.                                                              *)
(*                                                                         *)
(* Conv and Book are the two components.  This module says which steps     *)
(* they take together, and which each takes alone.                         *)
(***************************************************************************)
EXTENDS Notifications, Sequences, FiniteSets

CONSTANTS
  MaxHistory, MaxTurns, MaxIter, MaxAttempts, MaxCalls, MaxUtterances,
  Clients, Inputs, SmsTo, EmailTo, None,
  Earlier   \* the caller's appointments made before the call, as booking inputs

ASSUME CallAssumption ==
  /\ Requests \subseteq Nat /\ None \notin Requests
  /\ \A in \in Inputs : in.origin = "tool"

VARIABLES
  tools, number, pc, turn, turnCount, history, turnStart, iteration, attempt, spoke,
  batch, lastReply, timeUp, tasks, caller, llmCalls, before, outcome,
  clients, rows, events, bpc, req, loaded, told, seen, effects, raced,
  running,   \* the request the turn waits for, or None
  askedIn,   \* ghost: the turn each request was made in
  returned   \* ghost: the tools that returned in each turn

Conv == INSTANCE Conversation
Book == INSTANCE Booking WITH pc <- bpc

\* What the components assume of their constants.
ASSUME ServiceAssumption ==
  /\ Inputs \subseteq Book!Input
  /\ SmsTo \subseteq Clients /\ EmailTo \subseteq Clients
  /\ None \notin Book!Row /\ None \notin Book!Request

ASSUME TurnsAssumption ==
  /\ MaxHistory \in Nat \ {0} /\ MaxIter \in Nat \ {0} /\ MaxAttempts \in Nat \ {0}
  /\ MaxTurns \in Nat /\ MaxCalls \in Nat /\ MaxUtterances \in Nat

\* An earlier appointment is a booking that went through.
ASSUME EarlierAssumption ==
  /\ DOMAIN Earlier \subseteq Requests
  /\ \A r \in DOMAIN Earlier :
       /\ Earlier[r] \in Book!Request /\ ~Book!Refused(Earlier[r])
       /\ Earlier[r].op = "book" /\ Earlier[r].target = r
       /\ Earlier[r].start < Earlier[r].end

conversation == <<tools, number, pc, turn, turnCount, history, turnStart, iteration,
                  attempt, spoke, batch, lastReply, timeUp, tasks, caller, llmCalls,
                  before, outcome>>
service == <<clients, rows, events, bpc, req, loaded, told, seen, effects, raced>>
tool == <<running, askedIn, returned>>
vars == <<conversation, service, notifications, tool>>

-----------------------------------------------------------------------------
(* The turn and its tools *)

\* What the conversation does without a tool.  That the caller hangs up or talks
\* past the time limit only ends the utterances: left to module Conversation.
Talk ==
  /\ \/ Conv!Utterance \/ Conv!UtteranceOverLimit
     \/ Conv!Retry \/ Conv!Answer \/ Conv!CallTools \/ Conv!LLMFails \/ Conv!EndTurn
  /\ UNCHANGED <<service, notifications, tool>>

Return == returned' = [returned EXCEPT ![turn] = @ + 1]

\* A tool that only reads, one that does not exist, or arguments that make no
\* request.
ReadTool ==
  /\ running = None
  /\ Conv!ToolEnds
  /\ Return
  /\ UNCHANGED <<service, notifications, running, askedIn>>

\* The next tool call of the response books, cancels or reschedules.  The id it
\* names may be of no appointment.
StartTool(r) ==
  /\ pc = "tools" /\ running = None
  /\ \A q \in Requests : q < r => bpc[q] # "idle"
  /\ Book!Receive(r)
  /\ running' = r
  /\ askedIn' = [askedIn EXCEPT ![r] = turn]
  /\ UNCHANGED <<conversation, notifications, returned>>

\* A mutant: a slow tool is answered for, and its request left running.
ToolReturnsEarly ==
  /\ running # None
  /\ Conv!ToolEnds
  /\ Return
  /\ running' = None
  /\ UNCHANGED <<service, notifications, askedIn>>

\* Its request has been answered, or raised: the result goes to the history.
ToolReturns ==
  /\ running # None /\ bpc[running] \in Book!Answers
  /\ Conv!ToolEnds
  /\ Return
  /\ running' = None
  /\ UNCHANGED <<service, notifications, askedIn>>

\* The caller cuts in, and the request under way is cancelled where it waits.
BargeIn ==
  /\ Conv!CutIn
  /\ running' = None
  /\ \/ /\ running # None => bpc[running] \in Book!Answers
        /\ UNCHANGED service
     \/ /\ running # None
        /\ \/ Book!Detach(running)
           \/ Book!Abandon(running)
           \/ /\ Book!CommitFails(running)
              /\ bpc'[running] = "abandoned"
  /\ UNCHANGED <<notifications, askedIn, returned>>

-----------------------------------------------------------------------------
(* The request of a tool *)

Work(r) ==
  /\ \/ Book!FindOverlap(r) \/ Book!Load(r)
     \/ Book!CalendarOk(r) \/ Book!CalendarFails(r) \/ Book!DetachedCallEnds(r)
     \/ Book!CommitOk(r) \/ Book!Refresh(r) \/ Book!DbError(r)
     \/ /\ Book!CommitFails(r)
        /\ bpc'[r] = "raised"
  /\ UNCHANGED <<conversation, notifications, tool>>

\* A provider is configured, and the client has the number or the address.
Reached(client, ch) == client \in (IF ch = "sms" THEN SmsTo ELSE EmailTo)

Wanted(r, ch) == Reached(req[r].client, ch)

\* _send_confirmation, one post of one channel's message at a time ...
Post(r, ch) ==
  /\ bpc[r] = ch /\ Wanted(r, ch)
  /\ PostAgain(r)
  /\ UNCHANGED <<conversation, service, tool>>

\* ... until it is sent, given up or was not wanted, and the booking goes on.
Sent(r, ch) ==
  /\ \/ ch = "sms" /\ Book!SendSms(r)
     \/ ch = "email" /\ Book!SendEmail(r)
  /\ LET got == ch \in told'[r]
     IN IF Wanted(r, ch) THEN SendEnds(r, ch, got) ELSE UNCHANGED notifications
  /\ UNCHANGED <<conversation, tool>>

-----------------------------------------------------------------------------
(* The specification *)

\* A caller the worker found or created, with the appointments of earlier calls,
\* in a deployment with a calendar and without a number to transfer calls to.
Init ==
  /\ Conv!Init /\ tools /\ ~number
  /\ clients = Clients
  /\ rows = [r \in Requests |->
       IF r \in DOMAIN Earlier
       THEN [client |-> Earlier[r].client, start |-> Earlier[r].start,
             end |-> Earlier[r].end, status |-> "confirmed"]
       ELSE None]
  /\ events = [r \in Requests |->
       IF r \in DOMAIN Earlier
       THEN [state |-> "live", start |-> Earlier[r].start, end |-> Earlier[r].end]
       ELSE [state |-> "none", start |-> 0, end |-> 0]]
  /\ bpc = [r \in Requests |-> IF r \in DOMAIN Earlier THEN "ok" ELSE "idle"]
  /\ req = [r \in Requests |-> IF r \in DOMAIN Earlier THEN Earlier[r] ELSE None]
  /\ loaded = [r \in Requests |-> None]
  /\ told = [r \in Requests |-> IF r \in DOMAIN Earlier
                               THEN {ch \in Channels : Reached(Earlier[r].client, ch)}
                               ELSE {}]
  /\ seen = [r \in Requests |-> {}]
  /\ effects = [r \in Requests |->
       IF r \in DOMAIN Earlier THEN {"calendar", "row"} ELSE {}]
  /\ raced = {}
  /\ InitNotifications
  /\ running = None
  /\ askedIn = [r \in Requests |-> 0]
  /\ returned = [u \in Conv!Turns |-> 0]

Serve(r) ==
  \/ Work(r)
  \/ \E ch \in Channels : Post(r, ch) \/ Sent(r, ch)

Next ==
  \/ Talk \/ ReadTool \/ ToolReturns \/ BargeIn
  \/ \E r \in Requests : StartTool(r) \/ Serve(r)

\* The turn goes on by itself, whether the model's answer or a tool is awaited.
Proceed ==
  \/ Talk /\ Conv!Proceed
  \/ ReadTool \/ ToolReturns
  \/ \E r \in Requests : StartTool(r)

Spec == Init /\ [][Next]_vars

FairSpec ==
  /\ Spec
  /\ WF_vars(Proceed)
  /\ \A r \in Requests : WF_vars(Serve(r))
-----------------------------------------------------------------------------
(* Properties *)

\* What module Conversation takes for granted of its tools, here of the ones
\* the booking service provides: a tool whose service, calendar call and
\* retried messages all take their time still returns, once, in its turn, so
\* that the composition is a fair behaviour of the conversation.
ImplementsConversation == Conv!Spec /\ WF_conversation(Conv!Proceed)

\* In one call the appointments and the calendar come apart only where a request
\* was cut off or failed between its two writes, each operation in its own way, or
\* where the model moved an appointment it had cancelled.  No race is to blame for
\* it: the tools run one at a time, and the calendar thread of a turn the caller
\* cut off counts as a request that failed, whatever has been asked since.
StoresAgreeInOneCall ==
  \A a \in Requests : Book!Settled(a) => Book!DifferOnlyFor(a, FALSE)

\* The overlap guard of book_appointment, which two concurrent requests get
\* around, holds within one call: the tools never commit a second appointment of
\* the caller for a time the caller's own rows take, however often the caller cuts
\* in and asks again.  (Rows of this caller, that is: the event a cut-off booking
\* leaves in the calendar, and what other clients have booked, are not looked at.)
NeverBookedTwiceInOneCall ==
  \A a, b \in Requests :
    /\ a # b /\ ~({a, b} \subseteq DOMAIN Earlier) /\ Book!Active(rows[a]) /\ Book!Active(rows[b])
    /\ rows[a].client = rows[b].client
    /\ rows[a].status = "confirmed" /\ rows[b].status = "confirmed"
    => ~Book!Overlap(rows[a], rows[b])

Ended(u) == {r \in Requests : askedIn[r] = u /\ r # running}

\* The turn's results are in the history, all of them, and every request of the
\* turn that is over has one.
Remembered(u) ==
  LET results == Cardinality({i \in DOMAIN history : history[i].role = "tool"
                                                      /\ history[i].turn = u})
  IN returned[u] = results /\ Cardinality(Ended(u)) <= results

\* Newer turns have pushed this one out of the history.
Outlived(u) ==
  MaxHistory <= Cardinality({i \in Conv!UserIndices(history) : history[i].turn > u})

\* What the tools changed is what the model still knows of: an appointment
\* changed in this call has its result in the history, unless its turn was cut
\* off while a tool ran, ended in the fallback or is out of the window.
ModelKnowsWhatItDid ==
  \A r \in Requests :
    LET u == askedIn[r]
    IN u # 0 /\ "row" \in effects[r] /\ r # running
       => Remembered(u) \/ Outlived(u) \/ outcome[u] \in {"torn", "fallback"}

\* A booking the tool reports as done was confirmed on every channel its client
\* can be reached on, or the failure was logged; one channel's failure does not
\* cost the other.
ConfirmedOrLogged ==
  \A r \in Requests :
    bpc[r] = "ok" /\ req[r].op = "book"
    => \A ch \in Channels : Wanted(r, ch) => ch \in told[r] \union logged[r]

\* Every request of a tool ends, that of a cut-off turn included.
EveryRequestEnds == Book!EveryRequestEnds

=============================================================================
