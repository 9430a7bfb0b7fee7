---------------------------- MODULE Conversation ----------------------------
(***************************************************************************)
(* One live call as the conversation manager drives it: each caller        *)
(* utterance becomes a turn of LLM requests, tool calls and a spoken       *)
(* reply, with the whole history sent again on every request.  A provider  *)
(* retries a request until its text starts to stream; a background task    *)
(* tries to hand the caller to a human.                                    *)
(*                                                                         *)
(* A step is the code between two awaits.  The caller may cut in at any    *)
(* await, which cancels the turn where it stands; the LLM may fail at any  *)
(* request; both vendors reject a request whose tool calls and results do  *)
(* not pair up, and what one of them rejects besides is one more way for   *)
(* the LLM to fail.                                                        *)
(***************************************************************************)
EXTENDS History, Integers

CONSTANTS
  MaxHistory,     \* max_history_turns
  MaxTurns,       \* max_conversation_turns
  MaxIter,        \* max_tool_iterations
  MaxAttempts,    \* llm_max_retries: attempts at one request
  MaxCalls,       \* bound: tool calls in one LLM response
  MaxUtterances   \* bound: utterances of the caller

ASSUME LimitsAssumption ==
  /\ MaxHistory \in Nat \ {0} /\ MaxTurns \in Nat /\ MaxIter \in Nat \ {0}
  /\ MaxAttempts \in Nat \ {0} /\ MaxCalls \in Nat /\ MaxUtterances \in Nat

VARIABLES
  tools,      \* booking tools are available: a known caller and a calendar
  number,     \* a human transfer number is configured
  pc,         \* the await the turn is at
  turn,       \* utterances so far, the name of the current turn
  turnCount,  \* _turn_count
  history,    \* _history
  turnStart,  \* turn_start
  iteration,  \* tool rounds already done this turn
  attempt,    \* attempts at the current request
  spoke,      \* some of the current turn's reply was yielded while streaming
  batch,      \* the tool calls of the last response: how many, how many done
  lastReply,  \* the kind of last_reply
  timeUp,     \* max_call_duration_seconds has elapsed
  tasks,      \* the background transfer task each turn started
  caller,     \* who has the caller: the bot, a human, nobody
  llmCalls,   \* ghost: requests sent to the LLM
  before,     \* ghost: the history when the turn began
  outcome     \* ghost: how each turn ended

vars == <<tools, number, pc, turn, turnCount, history, turnStart, iteration, attempt,
          spoke, batch, lastReply, timeUp, tasks, caller, llmCalls, before, outcome>>

config == <<tools, number>>
request == <<attempt, spoke>>
turns == <<turn, turnCount, turnStart, before>>
world == <<timeUp, tasks, caller>>

Turns == 1..MaxUtterances

\* The replies whose transfer_to_human is set.
HandsOff == {"handoff", "limit", "fallback"}

Message == [role : {"user", "assistant", "calls", "tool"}, turn : Turns, n : Nat]

\* A message; n counts the tool calls of a "calls" one, names, in a "tool" result,
\* the call it answers, and is 1 for an "assistant" one with words, 0 for an empty
\* one.
Msg(role, n) == [role |-> role, turn |-> turn, n |-> n]

-----------------------------------------------------------------------------
(* Helpers *)

\* A mutant: trimming by a raw message count.
TrimByCount(h) ==
  IF Len(h) > 2 * MaxHistory THEN SubSeq(h, Len(h) - 2 * MaxHistory + 1, Len(h)) ELSE h

\* A mutant: one turn too many survives.
TrimLate(h) == LastTurns(h, MaxHistory + 1)

\* _trim_history
Trim(h) == LastTurns(h, MaxHistory)

\* A mutant: drops the last message, as if a turn had only one yet.
DroppedLastMessage == SubSeq(history, 1, Len(history) - 1)

\* history[:turn_start], without the whole unanswered turn.
Dropped == SubSeq(history, 1, turnStart)

\* The messages both vendors reject: a tool call without its result right
\* after it, a result without its call.
Dangling(h, i) ==
  \/ /\ h[i].role = "calls"
     /\ \E k \in 1..h[i].n :
          ~(i + k \in DOMAIN h /\ h[i + k] = [role |-> "tool", turn |-> h[i].turn, n |-> k])
  \/ /\ h[i].role = "tool"
     /\ ~\E j \in DOMAIN h : h[j].role = "calls" /\ i = j + h[i].n /\ h[i].n <= h[j].n

Paired(h) == \A i \in DOMAIN h : ~Dangling(h, i)

\* A mutant: the cap is hit one turn late.
LimitReachedLate == turnCount > MaxTurns \/ timeUp

LimitReached == turnCount >= MaxTurns \/ timeUp

\* A mutant: one more round than the cap allows.
OneMoreRound(done) == done <= MaxIter

\* for iteration in range(max_tool_iterations)
AnotherRound(done) == done < MaxIter

-----------------------------------------------------------------------------
(* A turn *)

\* A mutant: the reply of an earlier turn is left in last_reply.
ReplyKeepingOldHandOff(kind) ==
  /\ lastReply' = IF lastReply \in HandsOff THEN lastReply ELSE kind
  /\ outcome' = [outcome EXCEPT ![turn] = kind]

\* The turn's AgentReply, kept in last_reply.
Reply(kind) == lastReply' = kind /\ outcome' = [outcome EXCEPT ![turn] = kind]

\* llm_node starts a task for a reply that asks for a transfer; without a
\* transfer number the task has nothing to do.
HandOff(kind) ==
  tasks' = IF kind \in HandsOff
           THEN [tasks EXCEPT ![turn] = IF number THEN "lookup" ELSE "done"]
           ELSE tasks

\* A new request with the whole history.
Send ==
  /\ attempt' = 1 /\ spoke' = FALSE
  /\ llmCalls' = llmCalls + 1
  /\ pc' = "llm"

\* The caller's next utterance, after the previous turn has ended: the caps are
\* checked first, and a call over them costs no request.
Utterance ==
  /\ pc = "idle" /\ caller = "bot" /\ turn < MaxUtterances /\ ~LimitReached
  /\ turn' = turn + 1
  /\ turnCount' = turnCount + 1
  /\ turnStart' = Len(history)
  /\ before' = history
  /\ history' = Append(history, [role |-> "user", turn |-> turn + 1, n |-> 0])
  /\ iteration' = 0
  /\ Send
  /\ UNCHANGED <<config, world, batch, lastReply, outcome>>

UtteranceOverLimit ==
  /\ pc = "idle" /\ caller = "bot" /\ turn < MaxUtterances /\ LimitReached
  /\ turn' = turn + 1
  /\ lastReply' = "limit"
  /\ outcome' = [outcome EXCEPT ![turn + 1] = "limit"]
  /\ pc' = "say"
  /\ UNCHANGED <<config, world, request, turnCount, turnStart, before, history,
                 iteration, batch, llmCalls>>

\* A mutant: the whole generation is retried, streamed text included.
RetryMidStream ==
  /\ pc \in {"llm", "stream"} /\ attempt < MaxAttempts
  /\ attempt' = attempt + 1
  /\ llmCalls' = llmCalls + 1
  /\ pc' = "llm"
  /\ UNCHANGED <<config, world, turns, spoke, history, iteration, batch, lastReply, outcome>>

\* A retryable error: the same request is sent again, MaxAttempts times at most.
Retry ==
  /\ pc = "llm" /\ attempt < MaxAttempts
  /\ attempt' = attempt + 1
  /\ llmCalls' = llmCalls + 1
  /\ UNCHANGED <<config, world, turns, pc, spoke, history, iteration, batch, lastReply,
                 outcome>>

\* Without tools the answer is streamed: nothing is retried from here on.
Connect ==
  /\ pc = "llm" /\ ~tools /\ Paired(history)
  /\ pc' = "stream"
  /\ UNCHANGED <<config, world, turns, request, history, iteration, batch, lastReply,
                 llmCalls, outcome>>

\* The first piece of the reply is handed to the speech synthesis.
StreamText ==
  /\ pc = "stream" /\ ~spoke
  /\ spoke' = TRUE
  /\ UNCHANGED <<config, world, turns, pc, attempt, history, iteration, batch, lastReply,
                 llmCalls, outcome>>

\* The model's final answer, with an intent that may ask for a human.  With
\* tools it is spoken as one chunk afterwards; without, it was streamed chunk
\* by chunk before the history is written, and nothing is awaited any more.  An
\* empty completion is kept as an empty message.
Answer ==
  /\ \/ pc = "llm" /\ tools /\ Paired(history)
     \/ pc = "stream"
  /\ \E w \in {0, 1} : history' = Trim(Append(history, Msg("assistant", w)))
  /\ \E kind \in {"answer", "handoff"} : Reply(kind)
  /\ IF tools THEN pc' = "say" /\ UNCHANGED tasks
              ELSE pc' = "idle" /\ HandOff(lastReply')
  /\ UNCHANGED <<config, turns, request, iteration, batch, timeUp, caller, llmCalls>>

\* The model asks for tools instead; they run one after the other.
CallTools ==
  /\ pc = "llm" /\ tools /\ Paired(history)
  /\ \E n \in 1..MaxCalls :
       /\ history' = Append(history, Msg("calls", n))
       /\ batch' = [size |-> n, done |-> 0]
  /\ pc' = "tools"
  /\ UNCHANGED <<config, world, turns, request, iteration, lastReply, llmCalls, outcome>>

\* One tool returns, or raises: either way its result is appended.  After the
\* last one the model is asked again, until the rounds are used up and the turn
\* is dropped for the fallback.
ToolEnds ==
  /\ pc = "tools"
  /\ LET done == batch.done + 1
         answered == Append(history, Msg("tool", done))
     IN /\ batch' = [batch EXCEPT !.done = done]
        /\ \/ /\ done < batch.size
              /\ history' = answered
              /\ UNCHANGED <<pc, request, iteration, llmCalls, lastReply, outcome>>
           \/ /\ done = batch.size /\ AnotherRound(iteration + 1)
              /\ history' = answered
              /\ iteration' = iteration + 1
              /\ Send
              /\ UNCHANGED <<lastReply, outcome>>
           \/ /\ done = batch.size /\ ~AnotherRound(iteration + 1)
              /\ history' = Dropped
              /\ Reply("fallback")
              /\ pc' = "say"
              /\ UNCHANGED <<request, iteration, llmCalls>>
  /\ UNCHANGED <<config, world, turns>>

\* A mutant: a raised error is answered but the turn never gets to be spoken.
LLMFailsSilently ==
  /\ pc \in {"llm", "stream"}
  /\ history' = Dropped
  /\ Reply("fallback")
  /\ UNCHANGED <<config, world, turns, pc, request, iteration, batch, llmCalls>>

\* LLMProviderError, before or in the middle of the stream: the whole turn is
\* dropped and the fallback promises a human.
LLMFails ==
  /\ pc \in {"llm", "stream"}
  /\ history' = Dropped
  /\ Reply("fallback")
  /\ pc' = "say"
  /\ UNCHANGED <<config, world, turns, request, iteration, batch, llmCalls>>

\* The generator is fully consumed; only now is last_reply read.
EndTurn ==
  /\ pc = "say"
  /\ HandOff(lastReply)
  /\ pc' = "idle"
  /\ UNCHANGED <<config, turns, request, history, iteration, batch, lastReply, timeUp,
                 caller, llmCalls, outcome>>

\* Barge-in, hang-up, or an error no handler catches: the turn stops where it
\* is, and the history stays as it is.
CutIn ==
  /\ pc \in {"llm", "stream", "tools", "say"}
  /\ outcome' = IF pc = "say" THEN outcome
                ELSE [outcome EXCEPT ![turn] = IF pc = "tools" THEN "torn" ELSE "cut"]
  /\ pc' = "idle"
  /\ UNCHANGED <<config, world, turns, request, history, iteration, batch, lastReply,
                 llmCalls>>

-----------------------------------------------------------------------------
(* Around the turn *)

conversation == <<turns, pc, request, history, iteration, batch, lastReply, llmCalls, outcome>>

TimeUp ==
  /\ ~timeUp /\ timeUp' = TRUE
  /\ UNCHANGED <<config, conversation, tasks, caller>>

HangUp ==
  /\ caller = "bot" /\ caller' = "left"
  /\ UNCHANGED <<config, conversation, timeUp, tasks>>

Advance(u, step) == tasks' = [tasks EXCEPT ![u] = step]

\* The transfer task lists the room and its participants: no room, no SIP
\* participant or an API error, and the caller stays with the bot ...
Lookup(u) ==
  /\ tasks[u] = "lookup"
  /\ \/ caller = "bot" /\ Advance(u, "transfer")
     \/ Advance(u, "done")
  /\ UNCHANGED <<config, conversation, timeUp, caller>>

\* ... then transfers the SIP participant it found, if it is still there.
Transfer(u) ==
  /\ tasks[u] = "transfer"
  /\ \/ caller = "bot" /\ caller' = "human"
     \/ UNCHANGED caller
  /\ Advance(u, "done")
  /\ UNCHANGED <<config, conversation, timeUp>>

-----------------------------------------------------------------------------
(* The specification *)

Init ==
  /\ tools \in BOOLEAN /\ number \in BOOLEAN
  /\ pc = "idle" /\ turn = 0 /\ turnCount = 0
  /\ history = <<>> /\ turnStart = 0 /\ iteration = 0
  /\ attempt = 0 /\ spoke = FALSE
  /\ batch = [size |-> 0, done |-> 0]
  /\ lastReply = "none" /\ timeUp = FALSE
  /\ tasks = [u \in Turns |-> "none"]
  /\ caller = "bot"
  /\ llmCalls = 0 /\ before = <<>>
  /\ outcome = [u \in Turns |-> "none"]

\* What the turn under way does next.
Proceed == Retry \/ Connect \/ StreamText \/ Answer \/ CallTools \/ ToolEnds \/ LLMFails \/ EndTurn

Next ==
  \/ Utterance \/ UtteranceOverLimit \/ Proceed \/ CutIn \/ TimeUp \/ HangUp
  \/ \E u \in Turns : Lookup(u) \/ Transfer(u)

Spec == Init /\ [][Next]_vars

FairSpec ==
  /\ Spec
  /\ WF_vars(Proceed)
  /\ \A u \in Turns : WF_vars(Lookup(u)) /\ WF_vars(Transfer(u))

-----------------------------------------------------------------------------
(* Properties *)

\* Every variable keeps its shape.
TypeOK ==
  /\ tools \in BOOLEAN /\ number \in BOOLEAN /\ timeUp \in BOOLEAN
  /\ pc \in {"idle", "llm", "stream", "tools", "say"}
  /\ turn \in 0..MaxUtterances /\ turnCount \in 0..MaxTurns
  /\ history \in Seq(Message) /\ before \in Seq(Message)
  /\ turnStart \in Nat
  /\ iteration \in 0..(MaxIter - 1)
  /\ attempt \in 0..MaxAttempts /\ spoke \in BOOLEAN
  /\ batch \in [size : 0..MaxCalls, done : 0..MaxCalls]
  /\ lastReply \in HandsOff \union {"none", "answer"}
  /\ tasks \in [Turns -> {"none", "lookup", "transfer", "done"}]
  /\ caller \in {"bot", "human", "left"}
  /\ llmCalls \in Nat
  /\ outcome \in [Turns -> HandsOff \union {"none", "answer", "cut", "torn"}]

\* Neither trimming nor dropping a turn ever slices a tool call from its result:
\* a request with a call that lacks its results, or a result that lacks its call,
\* holds a turn the caller cut off while a tool ran, and only there.
SlicedOnlyByBargeIn ==
  pc \in {"llm", "stream"} => \A i \in DOMAIN history :
                  Dangling(history, i) => outcome[history[i].turn] = "torn"

\* The cap on a call's cost: whatever the caller does, cut in or not, a call
\* never sends more requests than turns times rounds times attempts, because each
\* is counted before the request it allows.
CostBounded == llmCalls <= MaxTurns * MaxIter * MaxAttempts

\* A stream is never restarted: once some of a reply went to the speech
\* synthesis, its turn sends no further request.
SpokenOnce == [][spoke /\ turn' = turn => llmCalls' = llmCalls]_vars

\* A transfer is started only for a turn whose own reply asked for it: last_reply
\* is never read while it still holds an earlier turn's.
TransferOnlyWhenAsked ==
  \A u \in Turns : tasks[u] # "none" => outcome[u] \in HandsOff

\* A turn that ends in the fallback or at a cap leaves no trace: neither the
\* caller's words, nor tool calls and results, nor anything it would trim.
UnansweredTurnLeavesNoTrace ==
  pc = "say" /\ outcome[turn] \in {"fallback", "limit"}
  => \A i \in DOMAIN history : history[i].turn # turn

\* Every turn ends and gives the floor back, whatever the model and the tools
\* answer: rounds are bounded and every failure is answered.
EveryTurnEnds == pc # "idle" ~> pc = "idle"

-----------------------------------------------------------------------------
(* Refinement *)

\* A turn is remembered whole if its calls are all paired and it ends in a reply.
Whole(h, u) ==
  /\ \E i \in DOMAIN h : h[i].turn = u /\ h[i].role = "assistant"
  /\ \A i \in DOMAIN h : h[i].turn = u => ~Dangling(h, i)

TurnsIn(h) == {h[i].turn : i \in UserIndices(h)}

TurnsOf(h) == [u \in TurnsIn(h) |-> Whole(h, u)]

\* The memory changes when the turn is over; until then it is what it was.
Memory == TurnsOf(IF pc \in {"llm", "stream", "tools"} THEN before ELSE history)

Abstract == INSTANCE Dialogue WITH memory <- Memory

\* Every behaviour of the conversation manager is one of the abstract dialogue:
\* answered turns remembered whole, failed ones not at all, old ones forgotten
\* whole and only as answers come in.
ImplementsDialogue == Abstract!Spec

-----------------------------------------------------------------------------
(* What the documentation says and the code does not do *)

\* The reason _trim_history gives for its care: a request never holds a tool call
\* sliced from its result, which both vendors reject.
EveryRequestPaired == pc = "llm" => Paired(history)

=============================================================================
