--------------------------- MODULE CallLifecycle ----------------------------
(***************************************************************************)
(* The life of a call around its conversation: the worker's entrypoint     *)
(* resolves the caller, records the call, registers the shutdown callback  *)
(* and starts the session; when the call is over the callback writes the   *)
(* transcript and queues the summary, which a Celery worker produces with  *)
(* retries.  The worker process may die at any await, and every database,  *)
(* broker and LLM call may fail.                                           *)
(*                                                                         *)
(* The conversation appears as what module Conversation shows it to be:    *)
(* answered turns remembered whole, unanswered ones dropped, the latest    *)
(* MaxHistory kept.                                                        *)
(***************************************************************************)
EXTENDS Deployment, History, Integers

CONSTANTS
  Calls,       \* the calls of a day
  Callers,     \* phone numbers
  None,        \* no number
  MaxHistory,  \* max_history_turns
  MaxRetries,  \* max_retries of summarize_call_task
  MaxTurns,    \* bound: turns in all calls together
  Deployments  \* the settings the system may run with

ASSUME LifecycleAssumption ==
  /\ None \notin Callers /\ IsFiniteSet(Calls)
  /\ MaxHistory \in Nat \ {0} /\ MaxRetries \in Nat /\ MaxTurns \in Nat
  /\ Deployments \subseteq Settings

VARIABLES
  settings,  \* of the deployment
  phone,     \* sip.phoneNumber of each call's participant, or None
  clients,   \* phone numbers with a row in the clients table
  rows,      \* the calls table: the calls recorded, with transcript and summary
  pc,        \* where the call is in the worker
  hooked,    \* the shutdown callback is registered
  history,   \* the conversation's messages: who said it, in which turn
  turn,      \* ghost: turns answered or cut off so far
  job,       \* the summary task: its state and the retries used
  broken     \* ghost: the last thing that went wrong with a call, by its cause

vars == <<settings, phone, clients, rows, pc, hooked, history, turn, job, broken>>

Setup == {"client", "newClient", "row", "setup", "starting"}
Places == Setup \union {"ringing", "live", "closing", "dispatch", "closed"}

\* A worker that died, a job told to stop before the call was live, a first commit
\* whose answer was lost, a teardown transaction that failed.
Causes == {"died", "stopped", "rowLost", "closeFailed"}

Goto(c, place) == pc' = [pc EXCEPT ![c] = place]

Blame(c, cause) == broken' = [broken EXCEPT ![c] = cause]

-----------------------------------------------------------------------------
(* entrypoint *)

\* A job reaches a worker, which there is only if the settings are valid: the
\* modules it imports read them.
Connect(c) ==
  /\ pc[c] = "ringing" /\ Validated(settings)
  /\ Goto(c, IF phone[c] = None THEN "row" ELSE "client")
  /\ UNCHANGED <<settings, phone, clients, rows, hooked, history, turn, job, broken>>

\* get_or_create_client
FindClient(c) ==
  /\ pc[c] = "client"
  /\ Goto(c, IF phone[c] \in clients THEN "row" ELSE "newClient")
  /\ UNCHANGED <<settings, phone, clients, rows, hooked, history, turn, job, broken>>

CreateClient(c) ==
  /\ pc[c] = "newClient" /\ phone[c] \notin clients
  /\ clients' = clients \union {phone[c]}
  /\ Goto(c, "row")
  /\ UNCHANGED <<settings, phone, rows, hooked, history, turn, job, broken>>

NewRow == [status |-> "in_progress", transcript |-> {}, summary |-> FALSE]

Recorded(c) == c \in DOMAIN rows

AddRow(c) ==
  rows' = [d \in DOMAIN rows \union {c} |-> IF d = c THEN NewRow ELSE rows[d]]

RecordCall(c) ==
  /\ pc[c] = "row"
  /\ AddRow(c)
  /\ Goto(c, "setup")
  /\ UNCHANGED <<settings, phone, clients, hooked, history, turn, job, broken>>

\* Only a known caller gets tools, and only if there is a calendar; a calendar
\* that raises takes the call with it, and so does a timezone that does.
HasTools(c) == phone[c] # None /\ Calendar(settings) = "built"

Equipped(c) ==
  /\ BuildsPrompt(settings)
  /\ phone[c] # None => Calendar(settings) # "raises"
  /\ BuildsLLM(settings)

\* A mutant: the callback is registered when the session has started.
PrepareHookingLate(c) ==
  /\ pc[c] = "setup" /\ Equipped(c)
  /\ Goto(c, "starting")
  /\ UNCHANGED <<settings, phone, clients, rows, hooked, history, turn, job, broken>>

\* Tools, prompt and conversation are built, then the callback is registered.
Prepare(c) ==
  /\ pc[c] = "setup" /\ Equipped(c)
  /\ hooked' = hooked \union {c}
  /\ Goto(c, "starting")
  /\ UNCHANGED <<settings, phone, clients, rows, history, turn, job, broken>>

\* The providers that hear and speak are built, and the session started.
StartSession(c) ==
  /\ pc[c] = "starting" /\ BuildsSTT(settings) /\ BuildsTTS(settings)
  /\ Goto(c, "live")
  /\ UNCHANGED <<settings, phone, clients, rows, hooked, history, turn, job, broken>>

\* The job shuts down, which runs the callbacks registered so far.
ShutDown(c) == Goto(c, IF c \in hooked THEN "closing" ELSE "closed")

\* The row's insert takes effect, and nobody hears of it.
RowLost(c) == pc[c] = "row" /\ AddRow(c)

\* The entrypoint raises: a room it cannot connect to, an insert lost to another
\* call of the same number, a database error, perhaps after the commit took
\* effect, a prompt or provider that cannot be built, a session that cannot start.
EntrypointFails(c) ==
  /\ \/ pc[c] = "ringing" /\ Validated(settings)
     \/ pc[c] \in {"client", "newClient", "row", "starting"}
     \/ pc[c] = "setup" /\ ~Equipped(c)
  /\ \/ UNCHANGED <<rows, broken>>
     \/ RowLost(c) /\ Blame(c, "rowLost")
  /\ ShutDown(c)
  /\ UNCHANGED <<settings, phone, clients, hooked, history, turn, job>>

\* The caller leaves at once, or the worker is drained: the job is told to stop at
\* one of the entrypoint's awaits.
StopJob(c) ==
  /\ pc[c] \in Setup
  /\ (UNCHANGED rows) \/ RowLost(c)
  /\ Blame(c, "stopped")
  /\ ShutDown(c)
  /\ UNCHANGED <<settings, phone, clients, hooked, history, turn, job>>

-----------------------------------------------------------------------------
(* The conversation *)

\* A message of the turn under way, with what its content is.
Said(c, role, text) == [turn |-> turn[c] + 1, role |-> role, text |-> text]

\* The last MaxHistory turns of a history.
Trimmed(h) == LastTurns(h, MaxHistory)

\* The model asks for a tool, perhaps with an aside that is never spoken.
ToolCalls(c) ==
  IF ~HasTools(c) THEN {}
  ELSE {<<Said(c, "assistant", text)>> : text \in {"none", "aside"}}

Rounds(c) == {calls \o <<Said(c, "tool", "payload")>> : calls \in ToolCalls(c)}

Question(c) == <<Said(c, "user", "words")>>

Spent == {s \in Calls \X (1..MaxTurns) : s[2] <= turn[s[1]]}

TurnLeft == Cardinality(Spent) < MaxTurns

\* A turn is answered, with or without a tool round before the answer ...
Answered(c) ==
  /\ pc[c] = "live" /\ TurnLeft
  /\ \E round \in {<<>>} \union Rounds(c), reply \in {"reply", "none"} :
       history' = [history EXCEPT ![c] =
                     Trimmed(@ \o Question(c) \o round \o <<Said(c, "assistant", reply)>>)]
  /\ turn' = [turn EXCEPT ![c] = @ + 1]
  /\ UNCHANGED <<settings, phone, clients, rows, pc, hooked, job, broken>>

\* ... or cut off, perhaps between a tool call and its result.
CutOff(c) ==
  /\ pc[c] = "live" /\ TurnLeft
  /\ \E round \in {<<>>} \union ToolCalls(c) \union Rounds(c) :
       history' = [history EXCEPT ![c] = @ \o Question(c) \o round]
  /\ turn' = [turn EXCEPT ![c] = @ + 1]
  /\ UNCHANGED <<settings, phone, clients, rows, pc, hooked, job, broken>>

\* The caller leaves or was transferred, or the job is told to stop now.
CallEnds(c) ==
  /\ pc[c] = "live"
  /\ Goto(c, "closing")
  /\ UNCHANGED <<settings, phone, clients, rows, hooked, history, turn, job, broken>>

-----------------------------------------------------------------------------
(* finalize_call *)

LineOf(i, m) == [sequence |-> i, turn |-> m.turn, text |-> m.text,
                 who |-> IF m.role = "user" THEN "caller" ELSE "agent"]

\* A mutant: tool payloads end up in the transcript as the agent's words.
TranscriptWithTools(h) ==
  {LineOf(i, h[i]) : i \in {j \in DOMAIN h : h[j].text # "none"}}

\* A mutant: the lines are numbered by turn.
TranscriptNumberedByTurn(h) ==
  {LineOf(h[i].turn, h[i]) : i \in {j \in DOMAIN h : h[j].role # "tool" /\ h[j].text # "none"}}

\* The messages with a text, tool results left out, numbered by their place in
\* the history.
TranscriptOf(h) ==
  {LineOf(i, h[i]) : i \in {j \in DOMAIN h : h[j].role # "tool" /\ h[j].text # "none"}}

\* The row as the callback's transaction leaves it.
Completed(c) ==
  rows' = [rows EXCEPT ![c].status = "completed",
                       ![c].transcript = TranscriptOf(history[c])]

\* A mutant: the summary is queued before the transcript is committed.
FinalizeQueueingFirst(c) ==
  /\ pc[c] = "closing"
  /\ Recorded(c)
  /\ job' = [job EXCEPT ![c].state = "queued"]
  /\ \/ Completed(c) /\ Goto(c, "closed")
     \/ job[c].state = "none" /\ UNCHANGED <<rows, pc>>
  /\ UNCHANGED <<settings, phone, clients, hooked, history, turn, broken>>

\* The row is there: the callback is registered after its commit.
Finalize(c) ==
  /\ pc[c] = "closing"
  /\ Recorded(c)
  /\ Completed(c)
  /\ Goto(c, "dispatch")
  /\ UNCHANGED <<settings, phone, clients, hooked, history, turn, job, broken>>

\* A database error, perhaps after the commit took effect: the callback stops.
FinalizeFails(c) ==
  /\ pc[c] = "closing"
  /\ (UNCHANGED rows) \/ Completed(c)
  /\ Blame(c, "closeFailed")
  /\ Goto(c, "closed")
  /\ UNCHANGED <<settings, phone, clients, hooked, history, turn, job>>

Dispatch(c) ==
  /\ pc[c] = "dispatch"
  /\ job' = [job EXCEPT ![c].state = "queued"]
  /\ Goto(c, "closed")
  /\ UNCHANGED <<settings, phone, clients, rows, hooked, history, turn, broken>>

\* The broker does not take the task: logged and forgotten.
DispatchFails(c) ==
  /\ pc[c] = "dispatch"
  /\ Goto(c, "closed")
  /\ UNCHANGED <<settings, phone, clients, rows, hooked, history, turn, job, broken>>

WorkerDies(c) ==
  /\ pc[c] \notin {"ringing", "closed"}
  /\ Blame(c, "died")
  /\ Goto(c, "closed")
  /\ UNCHANGED <<settings, phone, clients, rows, hooked, history, turn, job>>

-----------------------------------------------------------------------------
(* summarize_call_task *)

SetJob(c, state) == job' = [job EXCEPT ![c].state = state]

\* The task reads the call; without a transcript there is nothing to do.
StartTask(c) ==
  /\ job[c].state = "queued"
  /\ SetJob(c, IF rows[c].transcript = {} THEN "done" ELSE "llm")
  /\ UNCHANGED <<settings, phone, clients, rows, pc, hooked, history, turn, broken>>

Summarize(c) ==
  /\ job[c].state = "llm"
  /\ rows' = [rows EXCEPT ![c].summary = TRUE]
  /\ SetJob(c, "done")
  /\ UNCHANGED <<settings, phone, clients, pc, hooked, history, turn, broken>>

\* A mutant: max_retries=None.
TaskRetriesForever(c) ==
  /\ job[c].state = "llm"
  /\ SetJob(c, "queued")
  /\ UNCHANGED <<settings, phone, clients, rows, pc, hooked, history, turn, broken>>

\* LLMProviderError: the task is queued again, MaxRetries times at most.
TaskRetries(c) ==
  /\ job[c].state = "llm"
  /\ IF job[c].retries < MaxRetries
     THEN job' = [job EXCEPT ![c].state = "queued", ![c].retries = @ + 1]
     ELSE SetJob(c, "failed")
  /\ UNCHANGED <<settings, phone, clients, rows, pc, hooked, history, turn, broken>>

\* Any other error, a time limit or the death of the Celery worker, perhaps
\* after the summary was committed: the task is not run again.
TaskFails(c) ==
  /\ job[c].state \in {"queued", "llm"}
  /\ \/ UNCHANGED rows
     \/ job[c].state = "llm" /\ rows' = [rows EXCEPT ![c].summary = TRUE]
  /\ SetJob(c, "failed")
  /\ UNCHANGED <<settings, phone, clients, pc, hooked, history, turn, broken>>

-----------------------------------------------------------------------------
(* The specification *)

Init ==
  /\ settings \in Deployments
  /\ phone \in [Calls -> Callers \union {None}]
  /\ clients \in SUBSET Callers
  /\ rows = [c \in {} |-> NewRow]
  /\ pc = [c \in Calls |-> "ringing"]
  /\ hooked = {}
  /\ broken = [c \in Calls |-> "none"]
  /\ history = [c \in Calls |-> <<>>]
  /\ turn = [c \in Calls |-> 0]
  /\ job = [c \in Calls |-> [state |-> "none", retries |-> 0]]

\* What the worker does next for a call that is not waiting for its caller.
Worker(c) ==
  \/ Connect(c) \/ FindClient(c) \/ CreateClient(c) \/ RecordCall(c) \/ Prepare(c)
  \/ StartSession(c) \/ EntrypointFails(c)
  \/ Finalize(c) \/ FinalizeFails(c) \/ Dispatch(c) \/ DispatchFails(c)

Task(c) == StartTask(c) \/ Summarize(c) \/ TaskRetries(c) \/ TaskFails(c)

Next == \E c \in Calls : \/ Worker(c) \/ Task(c)
                         \/ Answered(c) \/ CutOff(c) \/ CallEnds(c)
                         \/ StopJob(c) \/ WorkerDies(c)

Spec == Init /\ [][Next]_vars

FairSpec == Spec /\ \A c \in Calls : WF_vars(Worker(c)) /\ WF_vars(Task(c))

-----------------------------------------------------------------------------
(* Properties *)

Line == [sequence : Nat \ {0}, turn : 1..MaxTurns, who : {"caller", "agent"},
         text : {"words", "aside", "payload", "reply"}]

\* Every variable keeps its shape, and no two lines of a transcript have the
\* same sequence number: uq_call_transcript_sequence never fails.
TypeOK ==
  /\ settings \in Deployments
  /\ phone \in [Calls -> Callers \union {None}] /\ clients \subseteq Callers
  /\ pc \in [Calls -> Places]
  /\ hooked \subseteq Calls /\ broken \in [Calls -> Causes \union {"none"}]
  /\ turn \in [Calls -> 0..MaxTurns]
  /\ job \in [Calls -> [state : {"none", "queued", "llm", "done", "failed"},
                        retries : 0..MaxRetries]]
  /\ DOMAIN rows \subseteq Calls
  /\ \A c \in DOMAIN rows :
       /\ rows[c].status \in {"in_progress", "completed"} /\ rows[c].summary \in BOOLEAN
       /\ rows[c].transcript \subseteq Line
       /\ \A k, l \in rows[c].transcript : k.sequence = l.sequence => k = l

\* The transcript of a completed call is a dialogue: the lines are in the order
\* spoken, the agent's follow their caller's words, nothing follows the reply in
\* its turn, and what a tool answered is not among them.
TranscriptIsDialogue ==
  \A c \in DOMAIN rows :
    \A k, l \in rows[c].transcript :
      /\ l.text # "payload"
      /\ k.turn < l.turn => k.sequence < l.sequence
      /\ k.turn = l.turn /\ l.text = "reply" => k.sequence <= l.sequence
      /\ l.who = "agent" => \E q \in rows[c].transcript :
                              q.who = "caller" /\ q.turn = l.turn /\ q.sequence < l.sequence

\* The deployment lets the entrypoint raise after the row's commit and before the
\* callback is registered, with a language model that can be built.
Misconfigured(c) ==
  \/ settings.timezone = "malformed"
  \/ phone[c] # None /\ settings.credentials = "unreadable"

\* A call stays "in progress" after its end only when its worker died or the
\* teardown's transaction failed, or, before the callback was registered, when the
\* job was told to stop, the first commit's answer was lost, or the timezone is
\* malformed or a known caller's calendar credentials cannot be read.  A job
\* stopped later is recorded as ended, and a provider that cannot be built costs
\* the call, never its record.
OpenOnlyWhenBroken ==
  \A c \in Calls :
    pc[c] \in {"dispatch", "closed"} /\ Recorded(c) /\ rows[c].status = "in_progress"
    => \/ broken[c] \in {"died", "closeFailed"}
       \/ c \notin hooked /\ (broken[c] \in {"stopped", "rowLost"} \/ Misconfigured(c))

\* The summary task never runs before the transcript it reads is committed.
SummaryAfterTranscript ==
  \A c \in Calls :
    job[c].state # "none" => Recorded(c) /\ rows[c].status = "completed"

\* Every call that began to be set up, and every summary queued, comes to an end
\* by itself: no handler waits for another and retries are bounded.
EverythingEnds ==
  \A c \in Calls :
    /\ pc[c] \in Places \ {"ringing", "live"} ~> pc[c] \in {"live", "closed"}
    /\ job[c].state \in {"queued", "llm"} ~> job[c].state \in {"done", "failed"}

-----------------------------------------------------------------------------
(* What the documentation says and the code does not do *)

\* get_call: "a single call, including its full transcript".  The transcript is
\* written from the trimmed history: the turns beyond MaxHistory are gone.
FullTranscript ==
  \A c \in Calls :
    Recorded(c) /\ rows[c].status = "completed"
    => \A u \in 1..turn[c] : \E l \in rows[c].transcript : l.turn = u /\ l.who = "caller"

=============================================================================
