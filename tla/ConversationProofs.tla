------------------------- MODULE ConversationProofs -------------------------
(***************************************************************************)
(* Theorems about Conversation for any numbers of turns, tool rounds,      *)
(* attempts, tool calls and utterances: its types, the cost of a call,     *)
(* when a transfer is started, what a failed turn leaves behind, that a    *)
(* stream is never restarted, where tool calls and their results part,     *)
(* that both vendors see it alike, and that it implements Dialogue.        *)
(***************************************************************************)
EXTENDS WireFormat, CommonLemmas, FunctionTheorems

Working == {"llm", "stream", "tools"}

-----------------------------------------------------------------------------
(* Lemmas about histories *)

\* Trimming leaves a history as it is or keeps what follows one of its user
\* messages, and that message.
LEMMA TrimIsSuffix ==
  ASSUME NEW h \in Seq(Message)
  PROVE  \/ Trim(h) = h
         \/ \E c \in 1..Len(h) : h[c].role = "user" /\ Trim(h) = SubSeq(h, c, Len(h))
<1>1. \A c \in UserIndices(h) : c \in 1..Len(h) /\ h[c].role = "user"
  BY HistoryPlaces
<1>2. MaxHistory \in Nat \ {0}
  BY LimitsAssumption
<1> QED BY <1>1, <1>2, LastTurnsIsSuffix DEF Trim

\* Trimming keeps some of the messages and makes none up.
LEMMA TrimKeeps ==
  ASSUME NEW h \in Seq(Message)
  PROVE  /\ Trim(h) \in Seq(Message)
         /\ \A i \in DOMAIN Trim(h) : \E j \in DOMAIN h : Trim(h)[i] = h[j]
<1>1. DOMAIN h = 1..Len(h)
  BY LenProperties
<1>2. CASE Trim(h) = h
  BY <1>2
<1>3. ASSUME NEW c \in 1..Len(h), Trim(h) = SubSeq(h, c, Len(h))
      PROVE  /\ Trim(h) \in Seq(Message)
             /\ \A i \in DOMAIN Trim(h) : \E j \in DOMAIN h : Trim(h)[i] = h[j]
  <2> DEFINE s == SubSeq(h, c, Len(h))
  <2>1. s \in Seq(Message) /\ \A i \in DOMAIN s : \E j \in DOMAIN h : s[i] = h[j]
    BY SuffixIs
  <2> QED BY <1>3, <2>1
<1> QED BY <1>2, <1>3, TrimIsSuffix

-----------------------------------------------------------------------------
(* Type correctness *)

\* A turn under way has a name, and its start is before what it has added.
Shape ==
  /\ TypeOK
  /\ pc # "idle" => turn \in Turns
  /\ pc \in Working => turnStart < Len(history)

\* What is appended to the history during a turn.
LEMMA AppendTyped ==
  ASSUME history \in Seq(Message), NEW m \in Message
  PROVE  /\ Append(history, m) \in Seq(Message)
         /\ Len(Append(history, m)) = Len(history) + 1
         /\ Len(history) \in Nat
BY AppendProperties, LenProperties

LEMMA MsgTyped ==
  ASSUME turn \in Turns, NEW role \in {"assistant", "calls", "tool"}, NEW n \in Nat
  PROVE  Msg(role, n) \in Message /\ Msg(role, n).turn = turn /\ Msg(role, n).role = role
BY DEF Msg, Message

\* Dropping a turn keeps the messages before its start.
LEMMA DroppedKeeps ==
  ASSUME TypeOK, turnStart < Len(history)
  PROVE  /\ Dropped \in Seq(Message)
         /\ Len(Dropped) = turnStart
         /\ \A i \in 1..turnStart : Dropped[i] = history[i]
<1>1. history \in Seq(Message) /\ turnStart \in Nat /\ Len(history) \in Nat
  BY LenProperties DEF TypeOK
<1>2. \A i \in 1..turnStart : history[i] \in Message
  BY <1>1, ElementOfSeq
<1>3. /\ SubSeq(history, 1, turnStart) \in Seq(Message)
      /\ Len(SubSeq(history, 1, turnStart)) = IF 1 <= turnStart THEN turnStart - 1 + 1 ELSE 0
      /\ \A i \in 1..(turnStart - 1 + 1) : SubSeq(history, 1, turnStart)[i] = history[1 + i - 1]
  BY <1>1, <1>2, SubSeqProperties
<1>4. \A i \in 1..turnStart : i \in 1..(turnStart - 1 + 1) /\ 1 + i - 1 = i
  BY <1>1
<1> QED BY <1>1, <1>3, <1>4 DEF Dropped

LEMMA SendTyped ==
  ASSUME TypeOK, Send
  PROVE  attempt' \in 0..MaxAttempts /\ spoke' \in BOOLEAN /\ llmCalls' \in Nat /\ pc' = "llm"
<1>1. attempt' \in 0..MaxAttempts /\ llmCalls' \in Nat /\ pc' = "llm"
  BY LimitsAssumption DEF TypeOK, Send
<1>2. spoke' \in BOOLEAN
  BY Zenon DEF Send
<1> QED BY <1>1, <1>2

LEMMA ShapeInit == Init => Shape
<1> SUFFICES ASSUME Init PROVE Shape
  OBVIOUS
<1>1. history \in Seq(Message) /\ before \in Seq(Message)
  BY EmptySeq DEF Init
<1>2. /\ turn \in 0..MaxUtterances /\ turnCount \in 0..MaxTurns /\ turnStart \in Nat
      /\ iteration \in 0..(MaxIter - 1) /\ attempt \in 0..MaxAttempts /\ llmCalls \in Nat
      /\ batch \in [size : 0..MaxCalls, done : 0..MaxCalls]
  BY LimitsAssumption DEF Init
<1>3. TypeOK
  BY <1>1, <1>2 DEF Init, TypeOK
<1> QED BY <1>3 DEF Init, Shape, Working

LEMMA ShapeStep == Shape /\ [Next]_vars => Shape'
<1> SUFFICES ASSUME Shape, [Next]_vars PROVE Shape'
  OBVIOUS
<1> USE LimitsAssumption
<1>1. CASE Utterance
  <2> DEFINE m == [role |-> "user", turn |-> turn + 1, n |-> 0]
  <2>1. turn + 1 \in Turns /\ turnCount + 1 \in 0..MaxTurns /\ turn + 1 \in 0..MaxUtterances
    BY <1>1 DEF Shape, TypeOK, Utterance, LimitReached, Turns
  <2>2. m \in Message
    BY <2>1 DEF Message
  <2>3. /\ Append(history, m) \in Seq(Message) /\ Len(Append(history, m)) = Len(history) + 1
        /\ Len(history) \in Nat
    BY <2>2, AppendTyped DEF Shape, TypeOK
  <2>4. /\ history' \in Seq(Message) /\ before' \in Seq(Message)
        /\ turnStart' \in Nat /\ turnStart' < Len(history')
    BY <1>1, <2>3 DEF Shape, TypeOK, Utterance
  <2>5. /\ turn' \in 0..MaxUtterances /\ turn' \in Turns /\ turnCount' \in 0..MaxTurns
        /\ iteration' \in 0..(MaxIter - 1)
    BY <1>1, <2>1 DEF Utterance
  <2>6. attempt' \in 0..MaxAttempts /\ spoke' \in BOOLEAN /\ llmCalls' \in Nat /\ pc' = "llm"
    BY <1>1, SendTyped DEF Shape, Utterance
  <2>7. TypeOK'
    BY <1>1, <2>4, <2>5, <2>6 DEF Shape, TypeOK, Utterance, config, world
  <2> QED BY <2>4, <2>5, <2>7 DEF Shape
<1>2. CASE UtteranceOverLimit
  BY <1>2 DEF Shape, TypeOK, UtteranceOverLimit, config, world, request, Working, Turns, HandsOff
<1>3. CASE Retry
  BY <1>3 DEF Shape, TypeOK, Retry, config, world, turns, Working
<1>4. CASE Connect
  BY <1>4 DEF Shape, TypeOK, Connect, config, world, turns, request, Working
<1>5. CASE StreamText
  BY <1>5 DEF Shape, TypeOK, StreamText, config, world, turns, Working
<1>6. CASE Answer
  <2>1. turn \in Turns
    BY <1>6 DEF Shape, Answer
  <2>2. history' \in Seq(Message)
    <3>1. PICK w \in {0, 1} : history' = Trim(Append(history, Msg("assistant", w)))
      BY <1>6 DEF Answer
    <3>2. Msg("assistant", w) \in Message
      BY <2>1, MsgTyped
    <3> QED BY <3>1, <3>2, AppendTyped, TrimKeeps DEF Shape, TypeOK
  <2>3. /\ lastReply' \in HandsOff \union {"none", "answer"}
        /\ outcome' \in [Turns -> HandsOff \union {"none", "answer", "cut", "torn"}]
    BY <1>6, <2>1 DEF Shape, TypeOK, Answer, Reply, HandsOff
  <2>4. tasks' \in [Turns -> {"none", "lookup", "transfer", "done"}]
    BY <1>6, <2>1 DEF Shape, TypeOK, Answer, HandOff
  <2> QED BY <1>6, <2>1, <2>2, <2>3, <2>4
          DEF Shape, TypeOK, Answer, config, turns, request, Working
<1>7. CASE CallTools
  <2>1. turn \in Turns
    BY <1>7 DEF Shape, CallTools
  <2>2. PICK n \in 1..MaxCalls : history' = Append(history, Msg("calls", n))
                              /\ batch' = [size |-> n, done |-> 0]
    BY <1>7 DEF CallTools
  <2>3. /\ history' \in Seq(Message) /\ Len(history') = Len(history) + 1
        /\ Len(history) \in Nat
    BY <2>1, <2>2, MsgTyped, AppendTyped DEF Shape, TypeOK
  <2>4. turnStart < Len(history) /\ turnStart' = turnStart /\ turnStart \in Nat
    BY <1>7 DEF Shape, TypeOK, CallTools, Working, turns
  <2> QED BY <1>7, <2>1, <2>2, <2>3, <2>4
          DEF Shape, TypeOK, CallTools, config, world, turns, request, Working
<1>8. CASE ToolEnds
  <2>1. turn \in Turns /\ batch.done + 1 \in Nat
    <3>1. turn \in Turns
      BY <1>8 DEF Shape, ToolEnds
    <3>2. batch.done \in Nat
      BY DEF Shape, TypeOK
    <3> QED BY <3>1, <3>2
  <2> DEFINE answered == Append(history, Msg("tool", batch.done + 1))
  <2>2. answered \in Seq(Message) /\ Len(answered) = Len(history) + 1 /\ Len(history) \in Nat
    BY <2>1, MsgTyped, AppendTyped DEF Shape, TypeOK
  <2>3. Dropped \in Seq(Message)
    BY <1>8, DroppedKeeps DEF Shape, ToolEnds, Working
  <2>4. turnStart < Len(history) /\ turnStart' = turnStart /\ turnStart \in Nat
    BY <1>8 DEF Shape, TypeOK, ToolEnds, Working, turns
  <2> HIDE DEF answered
  <2> DEFINE kept ==
        /\ tools' \in BOOLEAN /\ number' \in BOOLEAN /\ timeUp' \in BOOLEAN
        /\ turn' \in 0..MaxUtterances /\ turn' \in Turns /\ turnCount' \in 0..MaxTurns
        /\ before' \in Seq(Message) /\ turnStart' \in Nat
        /\ tasks' \in [Turns -> {"none", "lookup", "transfer", "done"}]
        /\ caller' \in {"bot", "human", "left"}
        /\ batch' \in [size : 0..MaxCalls, done : 0..MaxCalls]
  <2>5. kept
    <3>1. /\ batch' = [batch EXCEPT !.done = batch.done + 1]
          /\ batch.done + 1 < batch.size \/ batch.done + 1 = batch.size
      BY <1>8, Zenon DEF ToolEnds
    <3>2. batch \in [size : 0..MaxCalls, done : 0..MaxCalls]
      BY DEF Shape, TypeOK
    <3>3. batch.done + 1 \in 0..MaxCalls
      BY <3>1, <3>2
    <3>4. batch' \in [size : 0..MaxCalls, done : 0..MaxCalls]
      BY <3>1, <3>2, <3>3
    <3> QED BY <1>8, <2>1, <3>4 DEF Shape, TypeOK, ToolEnds, config, world, turns
  <2>6. CASE batch.done + 1 < batch.size /\ history' = answered
             /\ UNCHANGED <<pc, request, iteration, llmCalls, lastReply, outcome>>
    <3>1. TypeOK'
      BY <2>2, <2>5, <2>6 DEF Shape, TypeOK, request
    <3>2. turnStart' < Len(history')
      BY <2>2, <2>4, <2>6
    <3> QED BY <2>5, <3>1, <3>2 DEF Shape
  <2>7. CASE AnotherRound(iteration + 1) /\ history' = answered
             /\ iteration' = iteration + 1 /\ Send /\ UNCHANGED <<lastReply, outcome>>
    <3>1. iteration' \in 0..(MaxIter - 1)
      BY <2>7 DEF Shape, TypeOK, AnotherRound
    <3>2. attempt' \in 0..MaxAttempts /\ spoke' \in BOOLEAN /\ llmCalls' \in Nat /\ pc' = "llm"
      BY <2>7, SendTyped DEF Shape
    <3>3. TypeOK'
      BY <2>2, <2>5, <2>7, <3>1, <3>2 DEF Shape, TypeOK
    <3>4. turnStart' < Len(history')
      BY <2>2, <2>4, <2>7
    <3> QED BY <2>5, <3>3, <3>4 DEF Shape
  <2>8. CASE history' = Dropped /\ Reply("fallback") /\ pc' = "say"
             /\ UNCHANGED <<request, iteration, llmCalls>>
    <3>1. /\ lastReply' \in HandsOff \union {"none", "answer"}
          /\ outcome' \in [Turns -> HandsOff \union {"none", "answer", "cut", "torn"}]
      BY <2>1, <2>8 DEF Shape, TypeOK, Reply, HandsOff
    <3>2. TypeOK'
      BY <2>3, <2>5, <2>8, <3>1 DEF Shape, TypeOK, request
    <3> QED BY <2>5, <2>8, <3>2 DEF Shape, Working
  <2> QED BY <1>8, <2>6, <2>7, <2>8 DEF ToolEnds, answered
<1>9. CASE LLMFails
  <2>1. turn \in Turns /\ Dropped \in Seq(Message)
    BY <1>9, DroppedKeeps DEF Shape, LLMFails, Working
  <2> QED BY <1>9, <2>1
          DEF Shape, TypeOK, LLMFails, Reply, HandsOff, config, world, turns, request, Working
<1>10. CASE EndTurn
  <2>1. turn \in Turns
    BY <1>10 DEF Shape, EndTurn
  <2>2. tasks' \in [Turns -> {"none", "lookup", "transfer", "done"}]
    BY <1>10, <2>1 DEF Shape, TypeOK, EndTurn, HandOff
  <2> QED BY <1>10, <2>2 DEF Shape, TypeOK, EndTurn, config, turns, request, Working
<1>11. CASE CutIn
  <2>1. outcome' \in [Turns -> HandsOff \union {"none", "answer", "cut", "torn"}]
    BY <1>11 DEF Shape, TypeOK, CutIn
  <2> QED BY <1>11, <2>1 DEF Shape, TypeOK, CutIn, config, world, turns, request, Working
<1>12. CASE TimeUp
  BY <1>12 DEF Shape, TypeOK, TimeUp, config, conversation, turns, request, Working
<1>13. CASE HangUp
  BY <1>13 DEF Shape, TypeOK, HangUp, config, conversation, turns, request, Working
<1>14. ASSUME NEW u \in Turns, Lookup(u) PROVE Shape'
  BY <1>14 DEF Shape, TypeOK, Lookup, Advance, config, conversation, turns, request, Working
<1>15. ASSUME NEW u \in Turns, Transfer(u) PROVE Shape'
  BY <1>15 DEF Shape, TypeOK, Transfer, Advance, config, conversation, turns, request, Working
<1>16. CASE UNCHANGED vars
  BY <1>16 DEF Shape, TypeOK, vars, Working
<1> QED
  BY <1>1, <1>2, <1>3, <1>4, <1>5, <1>6, <1>7, <1>8, <1>9, <1>10, <1>11, <1>12, <1>13,
     <1>14, <1>15, <1>16 DEF Next, Proceed

LEMMA ShapeHolds == Spec => []Shape
BY ShapeInit, ShapeStep, PTL DEF Spec

\* Every variable keeps its type: the history holds messages of turns that were,
\* a turn counted is within the cap, a round and an attempt within theirs.
THEOREM TypeCorrect == Spec => []TypeOK
<1>1. Shape => TypeOK
  BY DEF Shape
<1> QED BY <1>1, ShapeHolds, PTL

-----------------------------------------------------------------------------
(* The cost of a call *)

\* What may have been sent when the turn counted last has done some rounds and
\* is at attempt n of the next.
Bill(rounds, n) == (turnCount - 1) * (MaxIter * MaxAttempts) + rounds * MaxAttempts + n

CostInv ==
  /\ pc \in {"llm", "stream"} => turnCount >= 1 /\ llmCalls <= Bill(iteration, attempt)
  /\ pc = "tools" => turnCount >= 1 /\ llmCalls <= Bill(iteration + 1, 0)
  /\ pc \in {"idle", "say"} => llmCalls <= turnCount * (MaxIter * MaxAttempts)

LEMMA Products ==
  ASSUME NEW i \in 0..(MaxIter - 1), NEW a \in 0..MaxAttempts, NEW t \in Nat
  PROVE  /\ i * MaxAttempts + a <= (i + 1) * MaxAttempts
         /\ (i + 1) * MaxAttempts <= MaxIter * MaxAttempts
         /\ (t - 1) * (MaxIter * MaxAttempts) + MaxIter * MaxAttempts = t * (MaxIter * MaxAttempts)
         /\ i * MaxAttempts \in Nat /\ (i + 1) * MaxAttempts \in Nat
         /\ MaxIter * MaxAttempts \in Nat
         /\ (t - 1) * (MaxIter * MaxAttempts) \in Int
         /\ t * (MaxIter * MaxAttempts) \in Nat
<1> USE LimitsAssumption
<1>1. i * MaxAttempts + MaxAttempts = (i + 1) * MaxAttempts
  OBVIOUS
<1>2. i + 1 <= MaxIter
  OBVIOUS
<1>3. (i + 1) * MaxAttempts <= MaxIter * MaxAttempts
  BY <1>2
<1>4. MaxIter * MaxAttempts \in Nat
  OBVIOUS
<1>5. \A k \in Nat : /\ (t - 1) * k + k = t * k
                     /\ (t - 1) * k \in Int /\ t * k \in Nat
  OBVIOUS
<1> QED BY <1>1, <1>3, <1>4, <1>5

\* The bill grows by the attempt, and a round costs no more than its attempts.
LEMMA BillGrows ==
  ASSUME NEW i \in 0..(MaxIter - 1), NEW a \in 0..MaxAttempts, turnCount \in Nat
  PROVE  /\ Bill(i, a) \in Int /\ Bill(i + 1, 0) \in Int
         /\ Bill(i, a) <= Bill(i + 1, 0)
         /\ Bill(i, a + 1) = Bill(i, a) + 1
         /\ Bill(i + 1, 1) = Bill(i + 1, 0) + 1
<1> DEFINE t == (turnCount - 1) * (MaxIter * MaxAttempts)
           now == i * MaxAttempts
           next == (i + 1) * MaxAttempts
<1>1. now + a <= next /\ now \in Nat /\ next \in Nat /\ t \in Int
  BY Products
<1>2. /\ Bill(i, a) = t + now + a /\ Bill(i, a + 1) = t + now + (a + 1)
      /\ Bill(i + 1, 0) = t + next + 0 /\ Bill(i + 1, 1) = t + next + 1
  BY DEF Bill
<1>3. a \in Nat
  BY LimitsAssumption
<1> HIDE DEF t, now, next
<1> QED BY <1>1, <1>2, <1>3

\* A turn under way, wherever it is, has cost no more than a whole turn may.
LEMMA WholeTurn ==
  ASSUME TypeOK, CostInv
  PROVE  llmCalls <= turnCount * (MaxIter * MaxAttempts)
<1>1. iteration \in 0..(MaxIter - 1) /\ attempt \in 0..MaxAttempts /\ turnCount \in Nat
      /\ llmCalls \in Nat /\ pc \in {"idle", "llm", "stream", "tools", "say"}
  BY LimitsAssumption DEF TypeOK
<1> DEFINE t == (turnCount - 1) * (MaxIter * MaxAttempts)
           whole == MaxIter * MaxAttempts
           now == iteration * MaxAttempts
           next == (iteration + 1) * MaxAttempts
           bound == turnCount * (MaxIter * MaxAttempts)
<1>2. /\ now + attempt <= next /\ next <= whole /\ t + whole = bound
      /\ now \in Nat /\ next \in Nat /\ whole \in Nat /\ t \in Int /\ bound \in Nat
  BY <1>1, Products
<1>3. /\ pc \in {"llm", "stream"} => llmCalls <= t + now + attempt
      /\ pc = "tools" => llmCalls <= t + next + 0
      /\ pc \in {"idle", "say"} => llmCalls <= bound
  BY DEF CostInv, Bill
<1> HIDE DEF t, whole, now, next, bound
<1>4. llmCalls <= bound
  BY <1>1, <1>2, <1>3
<1> QED BY <1>4 DEF bound

LEMMA CostStep == TypeOK /\ TypeOK' /\ CostInv /\ [Next]_vars => CostInv'
<1> SUFFICES ASSUME TypeOK, TypeOK', CostInv, [Next]_vars PROVE CostInv'
  OBVIOUS
<1> DEFINE rest == turnCount' = turnCount /\ llmCalls' = llmCalls
<1>1. iteration \in 0..(MaxIter - 1) /\ attempt \in 0..MaxAttempts /\ turnCount \in Nat
      /\ llmCalls \in Nat
  BY LimitsAssumption DEF TypeOK
<1>2. llmCalls <= turnCount * (MaxIter * MaxAttempts)
  BY WholeTurn
\* A turn that ends, or has not begun, sends nothing.
<1>3. ASSUME rest, pc' \in {"idle", "say"} PROVE CostInv'
  BY <1>2, <1>3 DEF CostInv
<1>4. CASE Utterance
  <2>1. /\ turnCount' = turnCount + 1 /\ llmCalls' = llmCalls + 1 /\ pc' = "llm"
        /\ iteration' = 0 /\ attempt' = 1
    BY <1>4 DEF Utterance, Send
  <2>2. Bill(iteration, attempt)' = turnCount * (MaxIter * MaxAttempts) + 1
    <3>1. turnCount * (MaxIter * MaxAttempts) \in Nat /\ 0 * MaxAttempts = 0
      BY <1>1, Products, LimitsAssumption
    <3>2. (turnCount + 1) - 1 = turnCount
      BY <1>1
    <3>3. Bill(iteration, attempt)'
            = ((turnCount + 1) - 1) * (MaxIter * MaxAttempts) + 0 * MaxAttempts + 1
      BY <2>1 DEF Bill
    <3> QED BY <3>1, <3>2, <3>3
  <2> QED BY <1>1, <1>2, <2>1, <2>2, Products DEF CostInv
<1>5. CASE Retry
  <2>1. /\ pc = "llm" /\ pc' = "llm" /\ turnCount' = turnCount /\ iteration' = iteration
        /\ attempt' = attempt + 1 /\ llmCalls' = llmCalls + 1
    BY <1>5 DEF Retry, turns
  <2>2. turnCount >= 1 /\ llmCalls <= Bill(iteration, attempt)
    BY <2>1 DEF CostInv
  <2>3. Bill(iteration, attempt)' = Bill(iteration, attempt + 1)
    BY <2>1 DEF Bill
  <2>4. Bill(iteration, attempt + 1) = Bill(iteration, attempt) + 1
        /\ Bill(iteration, attempt) \in Int
    BY <1>1, BillGrows
  <2> QED BY <1>1, <2>1, <2>2, <2>3, <2>4 DEF CostInv
<1>6. CASE Connect \/ StreamText
  BY <1>6 DEF Connect, StreamText, CostInv, Bill, turns, request
<1>7. CASE Answer
  BY <1>3, <1>7 DEF Answer, turns
<1>8. CASE CallTools
  <2>1. /\ pc = "llm" /\ pc' = "tools" /\ turnCount' = turnCount /\ iteration' = iteration
        /\ llmCalls' = llmCalls
    BY <1>8 DEF CallTools, turns
  <2>2. turnCount >= 1 /\ llmCalls <= Bill(iteration, attempt)
    BY <2>1 DEF CostInv
  <2>3. Bill(iteration, attempt) <= Bill(iteration + 1, 0) /\ Bill(iteration, attempt) \in Int
        /\ Bill(iteration + 1, 0) \in Int
    BY <1>1, BillGrows
  <2>4. Bill(iteration + 1, 0)' = Bill(iteration + 1, 0)
    BY <2>1 DEF Bill
  <2> QED BY <1>1, <2>1, <2>2, <2>3, <2>4 DEF CostInv
<1>9. CASE ToolEnds
  <2>1. pc = "tools" /\ turnCount' = turnCount
    BY <1>9 DEF ToolEnds, turns
  <2>2. turnCount >= 1 /\ llmCalls <= Bill(iteration + 1, 0)
    BY <2>1 DEF CostInv
  <2>3. CASE UNCHANGED <<pc, request, iteration, llmCalls>>
    BY <2>1, <2>2, <2>3 DEF CostInv, Bill
  <2>4. CASE iteration' = iteration + 1 /\ Send
    <3>1. Bill(iteration, attempt)' = Bill(iteration + 1, 1)
      BY <2>1, <2>4 DEF Bill, Send
    <3>2. Bill(iteration + 1, 1) = Bill(iteration + 1, 0) + 1 /\ Bill(iteration + 1, 0) \in Int
      BY <1>1, BillGrows
    <3> QED BY <1>1, <2>1, <2>2, <2>4, <3>1, <3>2 DEF CostInv, Send
  <2>5. CASE pc' = "say" /\ UNCHANGED <<request, iteration, llmCalls>>
    BY <1>3, <2>1, <2>5
  <2> QED BY <1>9, <2>3, <2>4, <2>5 DEF ToolEnds
<1>10. CASE UtteranceOverLimit \/ LLMFails \/ EndTurn \/ CutIn
  BY <1>3, <1>10 DEF UtteranceOverLimit, LLMFails, EndTurn, CutIn, turns
<1>11. CASE TimeUp \/ HangUp
  BY <1>11 DEF TimeUp, HangUp, CostInv, Bill, conversation, turns, request
<1>12. ASSUME NEW u \in Turns, Lookup(u) \/ Transfer(u) PROVE CostInv'
  BY <1>12 DEF Lookup, Transfer, CostInv, Bill, conversation, turns, request
<1>13. CASE UNCHANGED vars
  BY <1>13 DEF vars, CostInv, Bill
<1> QED
  BY <1>4, <1>5, <1>6, <1>7, <1>8, <1>9, <1>10, <1>11, <1>12, <1>13 DEF Next, Proceed

\* The cap on a call's cost: the requests a call sends, attempts included, are at
\* most turns times rounds times attempts, for any caps and however often the
\* caller cuts in.
THEOREM CostIsBounded == Spec => []CostBounded
<1>1. Init => CostInv
  BY LimitsAssumption DEF Init, CostInv
<1>2. TypeOK /\ CostInv => CostBounded
  <2> SUFFICES ASSUME TypeOK, CostInv PROVE CostBounded
    OBVIOUS
  <2>1. llmCalls <= turnCount * (MaxIter * MaxAttempts)
    BY WholeTurn
  <2>2. turnCount \in Nat /\ turnCount <= MaxTurns /\ llmCalls \in Nat
    BY LimitsAssumption DEF TypeOK
  <2>3. MaxIter * MaxAttempts \in Nat
    BY LimitsAssumption
  <2>4. turnCount * (MaxIter * MaxAttempts) <= MaxTurns * (MaxIter * MaxAttempts)
    BY <2>2, <2>3, LimitsAssumption
  <2>5. MaxTurns * (MaxIter * MaxAttempts) = MaxTurns * MaxIter * MaxAttempts
    BY LimitsAssumption
  <2> QED BY <2>1, <2>2, <2>3, <2>4, <2>5, LimitsAssumption DEF CostBounded
<1> QED BY <1>1, <1>2, TypeCorrect, CostStep, PTL DEF Spec

-----------------------------------------------------------------------------
(* When a transfer is started *)

\* A turn under way has started no task yet; its reply is the last one when it is
\* about to end.
TransferInv ==
  /\ TransferOnlyWhenAsked
  /\ \A u \in Turns : u > turn => tasks[u] = "none"
  /\ pc # "idle" => turn \in Turns /\ tasks[turn] = "none"
  /\ pc = "say" => outcome[turn] = lastReply

LEMMA TransferStep == TypeOK /\ TypeOK' /\ TransferInv /\ [Next]_vars => TransferInv'
<1> SUFFICES ASSUME TypeOK, TypeOK', TransferInv, [Next]_vars PROVE TransferInv'
  OBVIOUS
<1> USE DEF TransferInv, TransferOnlyWhenAsked
<1>1. /\ tasks \in [Turns -> {"none", "lookup", "transfer", "done"}]
      /\ outcome \in [Turns -> HandsOff \union {"none", "answer", "cut", "torn"}]
      /\ turn \in Nat /\ \A u \in Turns : u \in Nat
  <2>1. turn \in Nat /\ \A u \in Turns : u \in Nat
    BY LimitsAssumption DEF TypeOK, Turns
  <2>2. /\ tasks \in [Turns -> {"none", "lookup", "transfer", "done"}]
        /\ outcome \in [Turns -> HandsOff \union {"none", "answer", "cut", "torn"}]
    BY DEF TypeOK
  <2> QED BY <2>1, <2>2
\* Steps of which the tasks and the outcomes know nothing.
<1>2. ASSUME UNCHANGED <<turn, tasks, outcome>>, pc # "idle" \/ pc' = "idle",
             pc' = "say" => pc = "say" /\ lastReply' = lastReply
      PROVE TransferInv'
  BY <1>2
\* A turn that gets its reply, or is cut short, before it starts a task.
<1>3. ASSUME pc # "idle", UNCHANGED <<turn, tasks>>, NEW kind,
             outcome' = [outcome EXCEPT ![turn] = kind],
             pc' = "say" => lastReply' = kind
      PROVE TransferInv'
  <2>1. \A u \in Turns : u # turn => outcome'[u] = outcome[u]
    BY <1>1, <1>3
  <2>2. outcome'[turn] = kind /\ turn \in Turns /\ tasks[turn] = "none"
    BY <1>1, <1>3
  <2> QED BY <1>3, <2>1, <2>2
\* A turn that ends and hands off as its own reply says.
<1>4. ASSUME pc # "idle", pc' = "idle", turn' = turn, NEW kind, HandOff(kind),
             \A u \in Turns : u # turn => outcome'[u] = outcome[u], outcome'[turn] = kind
      PROVE TransferInv'
  <2>1. turn \in Turns
    BY <1>4
  <2>2. \A u \in Turns : u # turn => tasks'[u] = tasks[u]
    BY <1>1, <1>4 DEF HandOff
  <2>3. tasks'[turn] # "none" => kind \in HandsOff
    BY <1>1, <1>4 DEF HandOff
  <2> QED BY <1>1, <1>4, <2>1, <2>2, <2>3
<1>5. CASE Utterance
  <2>1. turn' = turn + 1 /\ turn + 1 \in Turns /\ pc' = "llm" /\ UNCHANGED <<tasks, outcome>>
    BY <1>1, <1>5, LimitsAssumption DEF Utterance, Send, world, Turns
  <2>2. turn + 1 > turn /\ \A u \in Turns : u > turn + 1 => u > turn
    BY <1>1
  <2> QED BY <2>1, <2>2
<1>6. CASE UtteranceOverLimit
  <2>1. /\ turn' = turn + 1 /\ turn + 1 \in Turns /\ pc' = "say" /\ UNCHANGED tasks
        /\ lastReply' = "limit" /\ outcome' = [outcome EXCEPT ![turn + 1] = "limit"]
    BY <1>1, <1>6, LimitsAssumption DEF UtteranceOverLimit, world, Turns
  <2>2. turn + 1 > turn /\ \A u \in Turns : u > turn + 1 => u > turn
    BY <1>1
  <2>3. \A u \in Turns : u # turn + 1 => outcome'[u] = outcome[u]
    BY <1>1, <2>1
  <2>4. outcome'[turn + 1] = "limit" /\ tasks[turn + 1] = "none"
    BY <1>1, <2>1, <2>2
  <2> QED BY <2>1, <2>2, <2>3, <2>4
<1>7. CASE Retry \/ Connect \/ StreamText \/ CallTools
  BY <1>2, <1>7 DEF Retry, Connect, StreamText, CallTools, turns, world
<1>8. CASE Answer
  <2>1. PICK kind \in {"answer", "handoff"} :
          lastReply' = kind /\ outcome' = [outcome EXCEPT ![turn] = kind]
    BY <1>8 DEF Answer, Reply
  <2>2. pc # "idle" /\ turn' = turn /\ turn \in Turns
    BY <1>8 DEF Answer, turns
  <2>3. CASE pc' = "say" /\ UNCHANGED tasks
    BY <1>3, <2>1, <2>2, <2>3
  <2>4. CASE pc' = "idle" /\ HandOff(lastReply')
    <3>1. outcome'[turn] = kind /\ \A u \in Turns : u # turn => outcome'[u] = outcome[u]
      BY <1>1, <2>1, <2>2
    <3> QED BY <1>4, <2>1, <2>2, <2>4, <3>1
  <2> QED BY <1>8, <2>3, <2>4 DEF Answer
<1>9. CASE ToolEnds
  <2>1. pc = "tools" /\ UNCHANGED <<turn, tasks>>
    BY <1>9 DEF ToolEnds, turns, world
  <2>2. CASE UNCHANGED <<pc, outcome>>
    BY <1>2, <2>1, <2>2
  <2>3. CASE Send /\ UNCHANGED outcome
    BY <1>2, <2>1, <2>3 DEF Send
  <2>4. CASE Reply("fallback")
    BY <1>3, <2>1, <2>4 DEF Reply
  <2> QED BY <1>9, <2>2, <2>3, <2>4 DEF ToolEnds
<1>10. CASE LLMFails
  <2>1. pc # "idle" /\ UNCHANGED <<turn, tasks>>
    BY <1>10 DEF LLMFails, turns, world
  <2> QED BY <1>3, <1>10, <2>1 DEF LLMFails, Reply
<1>11. CASE EndTurn
  <2>1. pc = "say" /\ pc' = "idle" /\ turn' = turn /\ HandOff(lastReply) /\ outcome' = outcome
    BY <1>11 DEF EndTurn, turns
  <2> QED BY <1>4, <2>1
<1>12. CASE CutIn
  <2>1. pc # "idle" /\ pc' = "idle" /\ UNCHANGED <<turn, tasks>>
    BY <1>12 DEF CutIn, turns, world
  <2>2. CASE outcome' = outcome
    BY <1>2, <2>1, <2>2
  <2>3. ASSUME NEW kind, outcome' = [outcome EXCEPT ![turn] = kind] PROVE TransferInv'
    BY <1>3, <2>1, <2>3
  <2> QED BY <1>12, <2>2, <2>3 DEF CutIn
<1>13. CASE TimeUp \/ HangUp
  BY <1>2, <1>13 DEF TimeUp, HangUp, conversation, turns
<1>14. ASSUME NEW v \in Turns, Lookup(v) \/ Transfer(v) PROVE TransferInv'
  <2>1. UNCHANGED <<turn, pc, outcome, lastReply>> /\ tasks[v] # "none"
    BY <1>14 DEF Lookup, Transfer, conversation, turns
  <2>2. \A u \in Turns : u # v => tasks'[u] = tasks[u]
    BY <1>1, <1>14 DEF Lookup, Transfer, Advance
  <2> QED BY <2>1, <2>2
<1>15. CASE UNCHANGED vars
  BY <1>15 DEF vars
<1> QED
  BY <1>5, <1>6, <1>7, <1>8, <1>9, <1>10, <1>11, <1>12, <1>13, <1>14, <1>15 DEF Next, Proceed

\* A transfer is started only for a turn whose own reply asked for one: however
\* turns are cut off, last_reply is never read while it holds an older reply.
THEOREM TransfersAreAskedFor == Spec => []TransferOnlyWhenAsked
<1>1. Init => TransferInv
  <2> SUFFICES ASSUME Init PROVE TransferInv
    OBVIOUS
  <2>1. \A u \in Turns : tasks[u] = "none"
    BY DEF Init
  <2> QED BY <2>1 DEF Init, TransferInv, TransferOnlyWhenAsked
<1>2. TransferInv => TransferOnlyWhenAsked
  BY DEF TransferInv
<1> QED BY <1>1, <1>2, TypeCorrect, TransferStep, PTL DEF Spec

-----------------------------------------------------------------------------
(* No stream is restarted *)

\* Text has been yielded only if the turn waits for no request and no tool.
SpokenInv == spoke => pc \notin {"llm", "tools"}

LEMMA SpokenStep == SpokenInv /\ [Next]_vars => SpokenInv'
<1> SUFFICES ASSUME SpokenInv, [Next]_vars PROVE SpokenInv'
  OBVIOUS
<1> USE DEF SpokenInv
<1>1. CASE Utterance
  BY <1>1 DEF Utterance, Send
<1>2. CASE UtteranceOverLimit \/ Retry \/ Connect \/ StreamText \/ Answer \/ CallTools
  BY <1>2 DEF UtteranceOverLimit, Retry, Connect, StreamText, Answer, CallTools, request
<1>3. CASE ToolEnds
  BY <1>3 DEF ToolEnds, Send, request
<1>4. CASE LLMFails \/ EndTurn \/ CutIn
  BY <1>4 DEF LLMFails, EndTurn, CutIn, request
<1>5. CASE TimeUp \/ HangUp
  BY <1>5 DEF TimeUp, HangUp, conversation, request
<1>6. ASSUME NEW u \in Turns, Lookup(u) \/ Transfer(u) PROVE SpokenInv'
  BY <1>6 DEF Lookup, Transfer, conversation, request
<1>7. CASE UNCHANGED vars
  BY <1>7 DEF vars
<1> QED BY <1>1, <1>2, <1>3, <1>4, <1>5, <1>6, <1>7 DEF Next, Proceed

\* A request is sent only by a turn that has spoken nothing yet.
LEMMA SendsBeforeSpeech ==
  TypeOK /\ SpokenInv /\ [Next]_vars => (spoke /\ turn' = turn => llmCalls' = llmCalls)
<1> SUFFICES ASSUME TypeOK, SpokenInv, [Next]_vars, spoke, turn' = turn
             PROVE llmCalls' = llmCalls
  OBVIOUS
<1>1. pc \notin {"llm", "tools"}
  BY DEF SpokenInv
<1>2. turn + 1 # turn
  BY DEF TypeOK
<1>3. CASE Utterance \/ UtteranceOverLimit
  BY <1>2, <1>3 DEF Utterance, UtteranceOverLimit
<1>4. CASE Retry \/ Connect \/ StreamText \/ Answer \/ CallTools \/ ToolEnds
  BY <1>1, <1>4 DEF Retry, Connect, StreamText, Answer, CallTools, ToolEnds
<1>5. CASE LLMFails \/ EndTurn \/ CutIn
  BY <1>5 DEF LLMFails, EndTurn, CutIn
<1>6. CASE TimeUp \/ HangUp
  BY <1>6 DEF TimeUp, HangUp, conversation
<1>7. ASSUME NEW u \in Turns, Lookup(u) \/ Transfer(u) PROVE llmCalls' = llmCalls
  BY <1>7 DEF Lookup, Transfer, conversation
<1>8. CASE UNCHANGED vars
  BY <1>8 DEF vars
<1> QED BY <1>3, <1>4, <1>5, <1>6, <1>7, <1>8 DEF Next, Proceed

\* Once some of a reply went to the speech synthesis, its turn sends no further
\* request: nothing is spoken twice.
THEOREM NothingIsSpokenTwice == Spec => SpokenOnce
<1>1. Init => SpokenInv
  BY DEF Init, SpokenInv
<1>2. TypeOK /\ SpokenInv /\ [Next]_vars
      => [spoke /\ turn' = turn => llmCalls' = llmCalls]_vars
  BY SendsBeforeSpeech
<1> QED BY <1>1, <1>2, TypeCorrect, SpokenStep, PTL DEF Spec, SpokenOnce

-----------------------------------------------------------------------------
(* What a failed turn leaves behind *)

\* Up to turn_start the history is older than the turn under way; a turn that
\* ended in the fallback or at a cap is not in it.
TraceInv ==
  /\ \A i \in DOMAIN history : history[i].turn <= turn
  /\ pc \in Working => \A i \in 1..turnStart : history[i].turn < turn
  /\ UnansweredTurnLeavesNoTrace

LEMMA HistoryDomain ==
  ASSUME TypeOK
  PROVE  /\ DOMAIN history = 1..Len(history) /\ Len(history) \in Nat
         /\ \A i \in DOMAIN history : history[i] \in Message /\ history[i].turn \in Nat
<1>1. DOMAIN history = 1..Len(history) /\ Len(history) \in Nat
  BY LenProperties DEF TypeOK
<1>2. \A i \in DOMAIN history : history[i] \in Message
  BY <1>1, ElementOfSeq DEF TypeOK
<1>3. \A m \in Message : m.turn \in Nat
  BY DEF Message, Turns
<1> QED BY <1>1, <1>2, <1>3

\* What appending a message of turn u does to the turns in the history.
LEMMA AppendTurns ==
  ASSUME TypeOK, NEW m \in Message
  PROVE  LET h == Append(history, m)
         IN /\ DOMAIN h = 1..(Len(history) + 1)
            /\ \A i \in 1..Len(history) : h[i] = history[i]
            /\ h[Len(history) + 1] = m
<1>1. /\ Append(history, m) \in Seq(Message)
      /\ Len(Append(history, m)) = Len(history) + 1
      /\ \A i \in 1..Len(history) : Append(history, m)[i] = history[i]
      /\ Append(history, m)[Len(history) + 1] = m
  BY AppendProperties DEF TypeOK
<1>2. DOMAIN Append(history, m) = 1..Len(Append(history, m))
  BY <1>1, LenProperties
<1> QED BY <1>1, <1>2

LEMMA TraceStep == Shape /\ TraceInv /\ [Next]_vars => TraceInv'
<1> SUFFICES ASSUME Shape, TraceInv, [Next]_vars PROVE TraceInv'
  OBVIOUS
<1>1. /\ TypeOK /\ turn \in Nat /\ turnStart \in Nat /\ DOMAIN history = 1..Len(history)
      /\ Len(history) \in Nat /\ \A i \in DOMAIN history : history[i].turn \in Nat
  BY HistoryDomain, LimitsAssumption DEF Shape, TypeOK
<1>2. /\ \A i \in DOMAIN history : history[i].turn <= turn
      /\ pc \in Working => \A i \in 1..turnStart : history[i].turn < turn
      /\ pc = "say" /\ outcome[turn] \in {"fallback", "limit"}
         => \A i \in DOMAIN history : history[i].turn # turn
  BY DEF TraceInv, UnansweredTurnLeavesNoTrace
\* Steps of which the history knows nothing.
<1>3. ASSUME UNCHANGED <<turn, turnStart, history>>, pc' \in Working => pc \in Working,
             pc' = "say" => pc = "say" /\ outcome' = outcome
      PROVE TraceInv'
  BY <1>2, <1>3 DEF TraceInv, UnansweredTurnLeavesNoTrace
\* A turn under way adds a message of its own.
<1>4. ASSUME pc \in Working, pc' \in Working, UNCHANGED <<turn, turnStart>>,
             NEW m \in Message, m.turn = turn, history' = Append(history, m)
      PROVE TraceInv'
  <2>1. /\ DOMAIN history' = 1..(Len(history) + 1)
        /\ \A i \in 1..Len(history) : history'[i] = history[i]
        /\ history'[Len(history) + 1] = m
    BY <1>1, <1>4, AppendTurns
  <2>2. turnStart < Len(history)
    BY <1>4 DEF Shape
  <2>3. \A i \in DOMAIN history' : history'[i].turn <= turn
    BY <1>1, <1>2, <1>4, <2>1
  <2>4. \A i \in 1..turnStart : history'[i].turn < turn
    BY <1>1, <1>2, <1>4, <2>1, <2>2
  <2>5. pc' # "say"
    BY <1>4 DEF Working
  <2> QED BY <1>4, <2>3, <2>4, <2>5 DEF TraceInv, UnansweredTurnLeavesNoTrace
\* The whole unanswered turn is dropped.
<1>5. ASSUME pc \in Working, pc' = "say", turn' = turn, history' = Dropped
      PROVE TraceInv'
  <2>1. /\ Dropped \in Seq(Message) /\ Len(Dropped) = turnStart
        /\ \A i \in 1..turnStart : Dropped[i] = history[i]
    BY <1>1, <1>5, DroppedKeeps DEF Shape
  <2>2. DOMAIN history' = 1..turnStart
    BY <1>5, <2>1, LenProperties
  <2>3. turnStart < Len(history)
    BY <1>5 DEF Shape
  <2>4. \A i \in 1..turnStart : history'[i].turn < turn /\ history'[i].turn \in Nat
    BY <1>1, <1>2, <1>5, <2>1, <2>3
  <2>5. \A i \in DOMAIN history' : history'[i].turn <= turn /\ history'[i].turn # turn
    BY <1>1, <2>2, <2>4
  <2> QED BY <1>5, <2>5 DEF TraceInv, UnansweredTurnLeavesNoTrace, Working
<1>6. CASE Utterance
  <2> DEFINE m == [role |-> "user", turn |-> turn + 1, n |-> 0]
  <2>1. m \in Message /\ m.turn = turn + 1
    BY <1>1, <1>6, LimitsAssumption DEF Utterance, Message, Turns
  <2>2. /\ turn' = turn + 1 /\ turnStart' = Len(history) /\ pc' = "llm"
        /\ history' = Append(history, m)
    BY <1>6 DEF Utterance, Send
  <2> HIDE DEF m
  <2>3. /\ DOMAIN history' = 1..(Len(history) + 1)
        /\ \A i \in 1..Len(history) : history'[i] = history[i]
        /\ history'[Len(history) + 1] = m
    BY <1>1, <2>1, <2>2, AppendTurns
  <2>4. \A i \in 1..turnStart' : history'[i].turn < turn'
    BY <1>1, <1>2, <2>2, <2>3
  <2>5. \A i \in DOMAIN history' : history'[i].turn <= turn'
    BY <1>1, <1>2, <2>1, <2>2, <2>3
  <2> QED BY <2>2, <2>4, <2>5 DEF TraceInv, UnansweredTurnLeavesNoTrace
<1>7. CASE UtteranceOverLimit
  <2>1. turn' = turn + 1 /\ history' = history /\ pc' = "say"
    BY <1>7 DEF UtteranceOverLimit
  <2>2. \A i \in DOMAIN history' : history'[i].turn <= turn' /\ history'[i].turn # turn'
    BY <1>1, <1>2, <2>1
  <2> QED BY <2>1, <2>2 DEF TraceInv, UnansweredTurnLeavesNoTrace, Working
<1>8. CASE Retry \/ Connect \/ StreamText \/ EndTurn \/ CutIn
  BY <1>3, <1>8 DEF Retry, Connect, StreamText, EndTurn, CutIn, turns, Working
<1>9. CASE Answer
  <2> PICK w \in {0, 1} : history' = Trim(Append(history, Msg("assistant", w)))
    BY <1>9 DEF Answer
  <2> DEFINE m == Msg("assistant", w)
  <2>1. pc # "idle" /\ turn \in Turns /\ turn' = turn
    BY <1>9 DEF Answer, Shape, turns
  <2>2. m \in Message /\ m.turn = turn
    BY <2>1, MsgTyped
  <2>3. history' = Trim(Append(history, m))
    OBVIOUS
  <2>4. outcome'[turn] \notin {"fallback", "limit"}
    BY <1>9, <2>1 DEF Answer, Reply, Shape, TypeOK
  <2>5. pc' \in {"say", "idle"}
    BY <1>9 DEF Answer
  <2> HIDE DEF m
  <2>6. Append(history, m) \in Seq(Message)
    BY <1>1, <2>2, AppendTyped DEF TypeOK
  <2>7. \A i \in DOMAIN Append(history, m) : Append(history, m)[i].turn <= turn
    <3>1. /\ DOMAIN Append(history, m) = 1..(Len(history) + 1)
          /\ \A i \in 1..Len(history) : Append(history, m)[i] = history[i]
          /\ Append(history, m)[Len(history) + 1] = m
      BY <1>1, <2>2, AppendTurns
    <3> QED BY <1>1, <1>2, <2>2, <3>1
  <2>8. ASSUME NEW i \in DOMAIN history' PROVE history'[i].turn <= turn
    <3> DEFINE h == Append(history, m)
    <3>1. h \in Seq(Message) /\ history' = Trim(h) /\ \A k \in DOMAIN h : h[k].turn <= turn
      BY <2>3, <2>6, <2>7
    <3> HIDE DEF h
    <3>2. PICK k \in DOMAIN h : Trim(h)[i] = h[k]
      BY <3>1, TrimKeeps
    <3> QED BY <3>1, <3>2
  <2> QED BY <2>1, <2>4, <2>5, <2>8 DEF TraceInv, UnansweredTurnLeavesNoTrace, Working
<1>10. CASE CallTools
  <2>1. pc = "llm" /\ pc' = "tools" /\ UNCHANGED <<turn, turnStart>> /\ turn \in Turns
    BY <1>10 DEF CallTools, turns, Shape
  <2>2. PICK n \in 1..MaxCalls : history' = Append(history, Msg("calls", n))
    BY <1>10 DEF CallTools
  <2>3. Msg("calls", n) \in Message /\ Msg("calls", n).turn = turn
    BY <2>1, MsgTyped, LimitsAssumption
  <2> QED BY <1>4, <2>1, <2>2, <2>3 DEF Working
<1>11. CASE ToolEnds
  <2>1. pc = "tools" /\ UNCHANGED <<turn, turnStart>> /\ turn \in Turns /\ batch.done + 1 \in Nat
    BY <1>11 DEF ToolEnds, turns, Shape, TypeOK
  <2> DEFINE m == Msg("tool", batch.done + 1)
  <2>2. m \in Message /\ m.turn = turn
    BY <2>1, MsgTyped
  <2>3. \/ history' = Append(history, m) /\ (UNCHANGED pc \/ Send)
        \/ history' = Dropped /\ pc' = "say"
    BY <1>11 DEF ToolEnds
  <2> HIDE DEF m
  <2>4. CASE history' = Append(history, m) /\ (UNCHANGED pc \/ Send)
    BY <1>4, <2>1, <2>2, <2>4 DEF Send, Working
  <2>5. CASE history' = Dropped /\ pc' = "say"
    BY <1>5, <2>1, <2>5 DEF Working
  <2> QED BY <2>3, <2>4, <2>5
<1>12. CASE LLMFails
  BY <1>5, <1>12 DEF LLMFails, turns, Working
<1>13. CASE TimeUp \/ HangUp
  BY <1>3, <1>13 DEF TimeUp, HangUp, conversation, turns
<1>14. ASSUME NEW u \in Turns, Lookup(u) \/ Transfer(u) PROVE TraceInv'
  BY <1>3, <1>14 DEF Lookup, Transfer, conversation, turns
<1>15. CASE UNCHANGED vars
  BY <1>3, <1>15 DEF vars
<1> QED
  BY <1>6, <1>7, <1>8, <1>9, <1>10, <1>11, <1>12, <1>13, <1>14, <1>15 DEF Next, Proceed

\* A turn that fails or meets a cap leaves no message in the history, whatever
\* tool rounds it went through and whatever was trimmed before it.
THEOREM FailedTurnsAreForgotten == Spec => []UnansweredTurnLeavesNoTrace
<1>1. Init => TraceInv
  BY DEF Init, TraceInv, UnansweredTurnLeavesNoTrace, Working
<1>2. TraceInv => UnansweredTurnLeavesNoTrace
  BY DEF TraceInv
<1> QED BY <1>1, <1>2, ShapeHolds, TraceStep, PTL DEF Spec

-----------------------------------------------------------------------------
(* Tool calls and their results                                            *)
(*                                                                         *)
(* However turns end, are dropped or trimmed, a result always follows its  *)
(* call, and a call without its results is the one under way or belongs to *)
(* a turn the caller cut off while a tool ran.  The invariant is about a   *)
(* history h, the turns T that were torn, and the place of the calls under *)
(* way (0: none).  Dropping a turn keeps a prefix that ends before a user  *)
(* message, trimming a suffix that starts with one: neither can part a     *)
(* call from results, which are adjacent to it.                            *)

ToolResult(u, k) == [role |-> "tool", turn |-> u, n |-> k]

\* The first d results of the calls at i are there, in their places.
AnsweredTo(h, i, d) ==
  \A k \in 1..d : i + k \in DOMAIN h /\ h[i + k] = ToolResult(h[i].turn, k)

\* The result at i follows the calls of its turn, with nothing but results of
\* them in between.
Follows(h, i) ==
  \E j \in DOMAIN h :
    /\ h[j].role = "calls" /\ i = j + h[i].n /\ h[i].n \in 1..h[j].n
    /\ \A m \in (j + 1)..i :
         m \in DOMAIN h /\ h[m].role = "tool" /\ h[m].turn = h[j].turn

ResultsFollow(h) == \A i \in DOMAIN h : h[i].role = "tool" => Follows(h, i)

CallsAnswered(h, T, open) ==
  \A i \in DOMAIN h :
    h[i].role = "calls" => h[i].turn \in T \/ AnsweredTo(h, i, h[i].n) \/ i = open

Sound(h, T, open) == ResultsFollow(h) /\ CallsAnswered(h, T, open)

-----------------------------------------------------------------------------
(* Lemmas about histories *)

LEMMA Positions ==
  ASSUME NEW h \in Seq(Message)
  PROVE  /\ Len(h) \in Nat /\ DOMAIN h = 1..Len(h)
         /\ \A i \in DOMAIN h : /\ i \in Nat \ {0} /\ h[i] \in Message
                                /\ h[i].n \in Nat /\ h[i].turn \in Turns
<1>1. Len(h) \in Nat /\ DOMAIN h = 1..Len(h)
  BY LenProperties
<1>2. \A i \in 1..Len(h) : h[i] \in Message
  BY ElementOfSeq
<1>3. \A m \in Message : m.n \in Nat /\ m.turn \in Turns
  BY DEF Message
<1> QED BY <1>1, <1>2, <1>3

LEMMA Appended ==
  ASSUME NEW h \in Seq(Message), NEW m \in Message
  PROVE  /\ Append(h, m) \in Seq(Message) /\ Len(Append(h, m)) = Len(h) + 1
         /\ DOMAIN Append(h, m) = 1..(Len(h) + 1)
         /\ \A i \in DOMAIN h : i \in DOMAIN Append(h, m) /\ Append(h, m)[i] = h[i]
         /\ Append(h, m)[Len(h) + 1] = m
<1>1. /\ Append(h, m) \in Seq(Message) /\ Len(Append(h, m)) = Len(h) + 1
      /\ \A i \in 1..Len(h) : Append(h, m)[i] = h[i]
      /\ Append(h, m)[Len(h) + 1] = m
  BY AppendProperties
<1>2. DOMAIN Append(h, m) = 1..(Len(h) + 1) /\ DOMAIN h = 1..Len(h) /\ Len(h) \in Nat
  BY <1>1, LenProperties
<1>3. \A i \in 1..Len(h) : i \in 1..(Len(h) + 1)
  BY <1>2
<1> QED BY <1>1, <1>2, <1>3

\* What holds of the old positions still does when a message is appended.
LEMMA AppendSound ==
  ASSUME NEW h \in Seq(Message), NEW T, NEW open, NEW m \in Message, Sound(h, T, open),
         m.role = "tool" => Follows(Append(h, m), Len(h) + 1),
         m.role = "calls" => m.turn \in T \/ open = Len(h) + 1
  PROVE  Sound(Append(h, m), T, open)
<1> DEFINE g == Append(h, m)
<1>1. /\ DOMAIN h = 1..Len(h) /\ Len(h) \in Nat /\ DOMAIN g = 1..(Len(h) + 1)
      /\ \A i \in DOMAIN h : i \in DOMAIN g /\ g[i] = h[i]
      /\ g[Len(h) + 1] = m
  BY Appended, Positions
<1>2. m.role = "tool" => Follows(g, Len(h) + 1)
  OBVIOUS
<1> HIDE DEF g
<1>3. ASSUME NEW i \in DOMAIN g PROVE i \in DOMAIN h \/ i = Len(h) + 1
  BY <1>1
<1>4. ASSUME NEW i \in DOMAIN g, g[i].role = "tool" PROVE Follows(g, i)
  <2>1. CASE i = Len(h) + 1
    BY <1>1, <1>2, <1>4, <2>1
  <2>2. CASE i \in DOMAIN h
    <3>1. Follows(h, i)
      BY <1>1, <1>4, <2>2 DEF Sound, ResultsFollow
    <3>2. PICK j \in DOMAIN h :
            /\ h[j].role = "calls" /\ i = j + h[i].n /\ h[i].n \in 1..h[j].n
            /\ \A k \in (j + 1)..i :
                 k \in DOMAIN h /\ h[k].role = "tool" /\ h[k].turn = h[j].turn
      BY <3>1 DEF Follows
    <3>3. j \in DOMAIN g /\ g[j] = h[j] /\ g[i] = h[i]
      BY <1>1, <2>2
    <3>4. \A k \in (j + 1)..i : k \in DOMAIN g /\ g[k] = h[k]
      BY <1>1, <3>2
    <3> QED BY <3>2, <3>3, <3>4 DEF Follows
  <2> QED BY <1>3, <2>1, <2>2
<1>5. ASSUME NEW i \in DOMAIN g, g[i].role = "calls"
      PROVE  g[i].turn \in T \/ AnsweredTo(g, i, g[i].n) \/ i = open
  <2>1. CASE i = Len(h) + 1
    BY <1>1, <1>5, <2>1
  <2>2. CASE i \in DOMAIN h
    <3>1. h[i].turn \in T \/ AnsweredTo(h, i, h[i].n) \/ i = open
      BY <1>1, <1>5, <2>2 DEF Sound, CallsAnswered
    <3> QED BY <1>1, <2>2, <3>1 DEF AnsweredTo
  <2> QED BY <1>3, <2>1, <2>2
<1>6. Sound(g, T, open)
  BY <1>4, <1>5 DEF Sound, ResultsFollow, CallsAnswered
<1> QED BY <1>6 DEF g

LEMMA Places ==
  ASSUME NEW L \in Nat, NEW d \in Nat, NEW open \in 1..L, open = L - d
  PROVE  /\ open + (d + 1) = L + 1 /\ L + 1 \in 1..(L + 1)
         /\ \A p \in (open + 1)..(L + 1) : p - open \in 1..(d + 1) /\ open + (p - open) = p
OBVIOUS

LEMMA Shift == ASSUME NEW L \in Nat, NEW d \in Nat PROVE L + 1 - (d + 1) = L - d
OBVIOUS

\* The next result of the calls under way.
LEMMA NextResult ==
  ASSUME NEW h \in Seq(Message), NEW open \in DOMAIN h, NEW d \in Nat,
         open = Len(h) - d, h[open].role = "calls", d < h[open].n, AnsweredTo(h, open, d),
         ToolResult(h[open].turn, d + 1) \in Message
  PROVE  LET g == Append(h, ToolResult(h[open].turn, d + 1))
         IN /\ Follows(g, Len(h) + 1)
            /\ AnsweredTo(g, open, d + 1)
            /\ g[open] = h[open]
<1> DEFINE m == ToolResult(h[open].turn, d + 1)
           g == Append(h, m)
<1>1. /\ DOMAIN h = 1..Len(h) /\ Len(h) \in Nat /\ DOMAIN g = 1..(Len(h) + 1)
      /\ \A i \in DOMAIN h : i \in DOMAIN g /\ g[i] = h[i]
      /\ g[Len(h) + 1] = m /\ open \in Nat \ {0} /\ h[open].n \in Nat
  BY Appended, Positions
<1>2. m.role = "tool" /\ m.n = d + 1
  BY DEF ToolResult
<1> HIDE DEF g, m
<1>3. /\ open + (d + 1) = Len(h) + 1 /\ Len(h) + 1 \in DOMAIN g
      /\ \A p \in (open + 1)..(Len(h) + 1) : p - open \in 1..(d + 1) /\ open + (p - open) = p
  <2>1. open \in 1..Len(h) /\ Len(h) \in Nat /\ DOMAIN g = 1..(Len(h) + 1)
    BY <1>1
  <2>2. /\ open + (d + 1) = Len(h) + 1 /\ Len(h) + 1 \in 1..(Len(h) + 1)
        /\ \A p \in (open + 1)..(Len(h) + 1) : p - open \in 1..(d + 1) /\ open + (p - open) = p
    <3>1. open = Len(h) - d OBVIOUS
    <3> QED BY ONLY <2>1, <3>1, d \in Nat, Places
  <2> QED BY <2>1, <2>2
<1>4. AnsweredTo(g, open, d + 1)
  <2>1. ASSUME NEW k \in 1..(d + 1)
        PROVE  open + k \in DOMAIN g /\ g[open + k] = ToolResult(g[open].turn, k)
    <3>1. CASE k \in 1..d
      BY <1>1, <3>1 DEF AnsweredTo
    <3>2. CASE k = d + 1
      <4>1. open + k \in DOMAIN g /\ g[open + k] = m
        BY <1>1, <1>3, <3>2
      <4>2. m = ToolResult(g[open].turn, k)
        BY <1>1, <3>2 DEF m
      <4> QED BY <4>1, <4>2
    <3> QED BY <3>1, <3>2
  <2> QED BY <2>1 DEF AnsweredTo
<1>5. Follows(g, Len(h) + 1)
  <2>1. ASSUME NEW p \in (open + 1)..(Len(h) + 1)
        PROVE  p \in DOMAIN g /\ g[p].role = "tool" /\ g[p].turn = g[open].turn
    <3>1. p - open \in 1..(d + 1) /\ open + (p - open) = p
      BY <1>3
    <3>2. p \in DOMAIN g /\ g[p] = ToolResult(g[open].turn, p - open)
      BY <1>4, <3>1 DEF AnsweredTo
    <3> QED BY <3>2 DEF ToolResult
  <2>2. /\ g[open].role = "calls" /\ g[Len(h) + 1].n = d + 1 /\ d + 1 \in 1..g[open].n
        /\ open \in DOMAIN g
    <3>1. g[open] = h[open] /\ open \in DOMAIN g
      BY <1>1
    <3>2. g[Len(h) + 1].n = d + 1
      BY <1>1, <1>2
    <3>3. d + 1 \in 1..h[open].n
      BY <1>1
    <3> QED BY <3>1, <3>2, <3>3
  <2> QED BY <1>3, <2>1, <2>2 DEF Follows
<1> QED BY <1>1, <1>4, <1>5 DEF g, m

\* A prefix that ends before a user message.
LEMMA PrefixSound ==
  ASSUME NEW h \in Seq(Message), NEW T, NEW open, NEW p \in Nat, p < Len(h),
         h[p + 1].role = "user", Sound(h, T, open), open \notin 1..p,
         NEW g, DOMAIN g = 1..p, \A i \in 1..p : g[i] = h[i]
  PROVE  Sound(g, T, 0)
<1>1. /\ DOMAIN h = 1..Len(h) /\ Len(h) \in Nat
      /\ \A i \in DOMAIN h : i \in Nat \ {0} /\ h[i].n \in Nat
      /\ p + 1 \in DOMAIN h /\ \A i \in 1..p : i \in DOMAIN h
  BY Positions
<1>2. ASSUME NEW i \in DOMAIN g, g[i].role = "tool" PROVE Follows(g, i)
  <2>1. Follows(h, i)
    BY <1>1, <1>2 DEF Sound, ResultsFollow
  <2>2. PICK j \in DOMAIN h :
          /\ h[j].role = "calls" /\ i = j + h[i].n /\ h[i].n \in 1..h[j].n
          /\ \A m \in (j + 1)..i :
               m \in DOMAIN h /\ h[m].role = "tool" /\ h[m].turn = h[j].turn
    BY <2>1 DEF Follows
  <2>3. j \in DOMAIN g /\ \A m \in (j + 1)..i : m \in DOMAIN g
    BY <1>1, <2>2
  <2> QED BY <2>2, <2>3 DEF Follows
<1>3. ASSUME NEW i \in DOMAIN g, g[i].role = "calls"
      PROVE  g[i].turn \in T \/ AnsweredTo(g, i, g[i].n) \/ i = 0
  <2>1. h[i].turn \in T \/ AnsweredTo(h, i, h[i].n)
    BY <1>1, <1>3 DEF Sound, CallsAnswered
  <2>2. ASSUME AnsweredTo(h, i, h[i].n), NEW k \in 1..h[i].n
        PROVE  i + k \in 1..p
    <3>1. ASSUME i + k > p PROVE FALSE
      <4>1. p + 1 - i \in 1..h[i].n /\ i + (p + 1 - i) = p + 1
        BY <1>1, <2>2, <3>1
      <4>2. h[p + 1] = ToolResult(h[i].turn, p + 1 - i)
        BY <2>2, <4>1 DEF AnsweredTo
      <4> QED BY <4>2 DEF ToolResult
    <3> QED BY <1>1, <2>2, <3>1
  <2> QED BY <2>1, <2>2 DEF AnsweredTo
<1> QED BY <1>2, <1>3 DEF Sound, ResultsFollow, CallsAnswered

\* A suffix that starts with a user message.
LEMMA SuffixSound ==
  ASSUME NEW h \in Seq(Message), NEW T, NEW c \in 1..Len(h), h[c].role = "user",
         Sound(h, T, 0)
  PROVE  Sound(SubSeq(h, c, Len(h)), T, 0)
<1> DEFINE g == SubSeq(h, c, Len(h))
<1>1. /\ DOMAIN h = 1..Len(h) /\ Len(h) \in Nat
      /\ \A i \in DOMAIN h : i \in Nat \ {0} /\ h[i].n \in Nat
  BY Positions
<1>2. /\ DOMAIN g = 1..(Len(h) - c + 1)
      /\ \A i \in DOMAIN g : c + i - 1 \in DOMAIN h /\ g[i] = h[c + i - 1]
  BY <1>1, SuffixIs
<1> HIDE DEF g
<1>3. \A i \in DOMAIN h : i >= c => i - c + 1 \in DOMAIN g /\ g[i - c + 1] = h[i]
  <2>1. ASSUME NEW i \in DOMAIN h, i >= c
        PROVE  i - c + 1 \in DOMAIN g /\ c + (i - c + 1) - 1 = i
    BY <1>1, <1>2, <2>1
  <2> QED BY <1>2, <2>1
<1>4. ASSUME NEW i \in DOMAIN g, g[i].role = "tool" PROVE Follows(g, i)
  <2> DEFINE ih == c + i - 1
  <2>1. ih \in DOMAIN h /\ g[i] = h[ih] /\ ih >= c /\ i = ih - c + 1
    BY <1>1, <1>2
  <2> HIDE DEF ih
  <2>2. Follows(h, ih)
    BY <1>4, <2>1 DEF Sound, ResultsFollow
  <2>3. PICK j \in DOMAIN h :
          /\ h[j].role = "calls" /\ ih = j + h[ih].n /\ h[ih].n \in 1..h[j].n
          /\ \A m \in (j + 1)..ih :
               m \in DOMAIN h /\ h[m].role = "tool" /\ h[m].turn = h[j].turn
    BY <2>2 DEF Follows
  <2>4. j >= c
    <3>1. ASSUME j < c PROVE FALSE
      <4>1. c \in (j + 1)..ih
        BY <1>1, <2>1, <3>1
      <4> QED BY <2>3, <4>1
    <3> QED BY <1>1, <3>1
  <2> DEFINE jg == j - c + 1
  <2>5. jg \in DOMAIN g /\ g[jg] = h[j]
    BY <1>3, <2>4
  <2>6. i = jg + g[i].n
    BY <1>1, <2>1, <2>3
  <2>7. ASSUME NEW m \in (jg + 1)..i
        PROVE  m \in DOMAIN g /\ g[m].role = "tool" /\ g[m].turn = g[jg].turn
    <3> DEFINE mh == c + m - 1
    <3>1. mh \in (j + 1)..ih /\ mh >= c /\ m = mh - c + 1
      BY <1>1, <2>1, <2>4, <2>7
    <3> HIDE DEF mh
    <3> QED BY <1>3, <2>3, <2>5, <3>1
  <2> HIDE DEF jg
  <2> QED BY <2>1, <2>3, <2>5, <2>6, <2>7 DEF Follows
<1>5. ASSUME NEW i \in DOMAIN g, g[i].role = "calls"
      PROVE  g[i].turn \in T \/ AnsweredTo(g, i, g[i].n)
  <2> DEFINE ih == c + i - 1
  <2>1. ih \in DOMAIN h /\ g[i] = h[ih] /\ ih >= c /\ i = ih - c + 1 /\ ih # 0
    BY <1>1, <1>2
  <2> HIDE DEF ih
  <2>2. h[ih].turn \in T \/ AnsweredTo(h, ih, h[ih].n)
    BY <1>5, <2>1 DEF Sound, CallsAnswered
  <2>3. ASSUME AnsweredTo(h, ih, h[ih].n), NEW k \in 1..h[ih].n
        PROVE  i + k \in DOMAIN g /\ g[i + k] = ToolResult(g[i].turn, k)
    <3>1. ih + k \in DOMAIN h /\ h[ih + k] = ToolResult(h[ih].turn, k)
      BY <2>3 DEF AnsweredTo
    <3>2. ih + k >= c /\ i + k = (ih + k) - c + 1
      BY <1>1, <2>1
    <3> QED BY <1>3, <2>1, <3>1, <3>2
  <2> QED BY <2>1, <2>2, <2>3 DEF AnsweredTo
<1>6. Sound(g, T, 0)
  BY <1>4, <1>5 DEF Sound, ResultsFollow, CallsAnswered
<1> QED BY <1>6 DEF g

LEMMA TrimSound ==
  ASSUME NEW h \in Seq(Message), NEW T, Sound(h, T, 0)
  PROVE  Sound(Trim(h), T, 0)
BY TrimIsSuffix, SuffixSound

\* More turns are torn; and the calls under way are those of a torn turn, or are
\* answered.
LEMMA SoundLater ==
  ASSUME NEW h \in Seq(Message), NEW T, NEW open, Sound(h, T, open), NEW T2, T \subseteq T2
  PROVE  /\ Sound(h, T2, open)
         /\ open \in DOMAIN h /\ (h[open].turn \in T2 \/ AnsweredTo(h, open, h[open].n))
            => Sound(h, T2, 0)
         /\ \A other : open \notin DOMAIN h => Sound(h, T2, other)
BY DEF Sound, CallsAnswered

-----------------------------------------------------------------------------
(* The invariant *)

Torn == {u \in Turns : outcome[u] = "torn"}

\* The place of the calls under way.
Open == IF pc = "tools" THEN Len(history) - batch.done ELSE 0

BatchInv ==
  pc = "tools" => /\ batch.done < batch.size /\ Open \in DOMAIN history
                  /\ history[Open].role = "calls" /\ history[Open].turn = turn
                  /\ history[Open].n = batch.size
                  /\ AnsweredTo(history, Open, batch.done)

StartInv == pc \in Working => history[turnStart + 1].role = "user" /\ outcome[turn] = "none"

LaterInv == \A u \in Turns : u > turn => outcome[u] = "none"

PairInv == Sound(history, Torn, Open) /\ BatchInv /\ StartInv /\ LaterInv

LEMMA PairInit == Init => PairInv
<1> SUFFICES ASSUME Init PROVE PairInv
  OBVIOUS
<1>1. Sound(history, Torn, Open)
  <2>1. history = <<>> /\ DOMAIN history = {}
    BY DEF Init
  <2> QED BY <2>1 DEF Sound, ResultsFollow, CallsAnswered
<1>2. BatchInv /\ StartInv /\ LaterInv
  BY DEF Init, BatchInv, StartInv, LaterInv, Working
<1> QED BY <1>1, <1>2 DEF PairInv

LEMMA Facts ==
  ASSUME Shape
  PROVE  /\ history \in Seq(Message) /\ Len(history) \in Nat /\ DOMAIN history = 1..Len(history)
         /\ turn \in Nat /\ turnStart \in Nat /\ batch.done \in Nat /\ batch.size \in Nat
         /\ outcome \in [Turns -> HandsOff \union {"none", "answer", "cut", "torn"}]
         /\ \A u \in Turns : u \in Nat
BY Positions, LimitsAssumption DEF Shape, TypeOK, Turns

Kept == /\ history' = history /\ outcome' = outcome /\ turn' = turn
        /\ turnStart' = turnStart /\ batch' = batch

Waits == \/ pc' = pc
         \/ pc' \in {"idle", "say"} /\ pc # "tools"
         \/ pc' = "stream" /\ pc = "llm"

\* Steps that leave history, outcomes and tools alone.
LEMMA PairKept ==
  ASSUME Shape, PairInv, Kept, Waits
  PROVE  PairInv'
<1> USE DEF Kept, Waits
<1>1. Open' = Open /\ Torn' = Torn
  BY DEF Open, Torn
<1>2. Sound(history, Torn, Open)'
  BY <1>1 DEF PairInv, Sound, ResultsFollow, CallsAnswered, Follows, AnsweredTo
<1>3. BatchInv'
  BY <1>1 DEF PairInv, BatchInv, AnsweredTo
<1>4. StartInv' /\ LaterInv'
  BY DEF PairInv, StartInv, LaterInv, Working
<1> QED BY <1>2, <1>3, <1>4 DEF PairInv

\* A turn that ends is torn or not, and those torn before still are.
LEMMA TornGrows ==
  ASSUME Shape, PairInv, NEW u \in Turns, u >= turn, outcome[u] = "none", NEW how,
         outcome' = [outcome EXCEPT ![u] = how], turn' = u
  PROVE  Torn \subseteq Torn' /\ LaterInv' /\ (how = "torn" => u \in Torn')
<1>0. /\ outcome \in [Turns -> HandsOff \union {"none", "answer", "cut", "torn"}]
      /\ turn \in Nat /\ \A v \in Turns : v \in Nat
  BY Facts
<1>1. Torn \subseteq Torn' /\ (how = "torn" => u \in Torn')
  BY <1>0 DEF Torn
<1>2. LaterInv'
  BY <1>0 DEF LaterInv, PairInv
<1> QED BY <1>1, <1>2

LEMMA SoundOf ==
  ASSUME Sound(history', Torn', Open')
  PROVE  Sound(history, Torn, Open)'
BY DEF Sound, ResultsFollow, CallsAnswered, Follows, AnsweredTo

LEMMA UtterancePair == ASSUME Shape, Shape', PairInv, Utterance PROVE PairInv'
<1> DEFINE m == [role |-> "user", turn |-> turn + 1, n |-> 0]
<1>1. /\ history' = Append(history, m) /\ turnStart' = Len(history) /\ turn' = turn + 1
      /\ pc = "idle" /\ pc' = "llm" /\ outcome' = outcome
  BY DEF Utterance, Send
<1>2. turn + 1 \in Turns /\ m \in Message
  BY <1>1, Facts, LimitsAssumption DEF Utterance, Turns, Message
<1>3. m.role = "user"
  OBVIOUS
<1> HIDE DEF m
<1>4. Open = 0 /\ Open' = 0 /\ Torn' = Torn
  BY <1>1 DEF Open, Torn
<1>5. Sound(history', Torn', Open')
  <2>1. Sound(history, Torn, 0)
    BY <1>4 DEF PairInv
  <2>2. Sound(Append(history, m), Torn, 0)
    BY <1>2, <1>3, <2>1, AppendSound, Facts
  <2> QED BY <1>1, <1>4, <2>2
<1>6. BatchInv'
  BY <1>1 DEF BatchInv
<1>7. StartInv'
  <2>1. history'[Len(history) + 1].role = "user"
    BY <1>1, <1>2, <1>3, Appended, Facts
  <2>2. outcome[turn + 1] = "none"
    BY <1>2, Facts DEF PairInv, LaterInv
  <2> QED BY <1>1, <2>1, <2>2 DEF StartInv
<1>8. LaterInv'
  BY <1>1, Facts DEF PairInv, LaterInv
<1> QED BY <1>5, <1>6, <1>7, <1>8, SoundOf DEF PairInv

LEMMA OverLimitPair == ASSUME Shape, Shape', PairInv, UtteranceOverLimit PROVE PairInv'
<1>1. /\ history' = history /\ turn' = turn + 1 /\ pc = "idle" /\ pc' = "say"
      /\ outcome' = [outcome EXCEPT ![turn + 1] = "limit"]
  BY DEF UtteranceOverLimit
<1>2. turn + 1 \in Turns /\ turn + 1 >= turn
  BY Facts, LimitsAssumption DEF UtteranceOverLimit, Turns
<1>3. outcome[turn + 1] = "none"
  BY <1>2, Facts DEF PairInv, LaterInv
<1>4. Torn \subseteq Torn' /\ LaterInv'
  BY <1>1, <1>2, <1>3, TornGrows
<1>5. Open = 0 /\ Open' = 0
  BY <1>1 DEF Open
<1>6. Sound(history', Torn', Open')
  BY <1>1, <1>4, <1>5, SoundLater, Facts DEF PairInv
<1>7. BatchInv' /\ StartInv'
  BY <1>1 DEF BatchInv, StartInv, Working
<1> QED BY <1>4, <1>6, <1>7, SoundOf DEF PairInv

LEMMA AnswerPair == ASSUME Shape, Shape', PairInv, Answer PROVE PairInv'
<1>1. PICK kind : outcome' = [outcome EXCEPT ![turn] = kind]
  BY DEF Answer, Reply
<1>0. PICK w \in {0, 1} : history' = Trim(Append(history, Msg("assistant", w)))
  BY DEF Answer
<1>2. /\ history' = Trim(Append(history, Msg("assistant", w)))
      /\ pc \in {"llm", "stream"} /\ pc' \in {"say", "idle"} /\ turn' = turn
  BY <1>0 DEF Answer, turns
<1>3. turn \in Turns /\ outcome[turn] = "none" /\ turn >= turn
  BY <1>2, Facts DEF Shape, PairInv, StartInv, Working
<1>4. Torn \subseteq Torn' /\ LaterInv'
  BY <1>1, <1>2, <1>3, TornGrows
<1>5. Open = 0 /\ Open' = 0
  BY <1>2 DEF Open
<1>6. Sound(history', Torn', Open')
  <2> DEFINE m == Msg("assistant", w)
  <2>1. m \in Message /\ m.role = "assistant"
    BY <1>3, MsgTyped
  <2> HIDE DEF m
  <2>2. Sound(history, Torn', 0)
    BY <1>4, <1>5, SoundLater, Facts DEF PairInv
  <2>3. Sound(Append(history, m), Torn', 0)
    BY <2>1, <2>2, AppendSound, Facts
  <2>4. Append(history, m) \in Seq(Message)
    BY <2>1, Appended, Facts
  <2>5. Sound(Trim(Append(history, m)), Torn', 0)
    BY <2>3, <2>4, TrimSound
  <2> QED BY <1>2, <1>5, <2>5 DEF m
<1>7. BatchInv' /\ StartInv'
  BY <1>2 DEF BatchInv, StartInv, Working
<1> QED BY <1>4, <1>6, <1>7, SoundOf DEF PairInv

LEMMA CallToolsPair == ASSUME Shape, Shape', PairInv, CallTools PROVE PairInv'
<1>1. PICK n \in 1..MaxCalls : /\ history' = Append(history, Msg("calls", n))
                               /\ batch' = [size |-> n, done |-> 0]
  BY DEF CallTools
<1>2. /\ pc = "llm" /\ pc' = "tools" /\ turn' = turn /\ turnStart' = turnStart
      /\ outcome' = outcome
  BY DEF CallTools, turns
<1> DEFINE m == Msg("calls", n)
<1>3. m \in Message /\ m.role = "calls" /\ m.turn = turn /\ m.n = n /\ n \in Nat /\ n > 0
  <2>1. n \in Nat /\ n > 0 /\ turn \in Turns
    BY <1>2, LimitsAssumption DEF Shape
  <2> QED BY <2>1, MsgTyped DEF Msg
<1> HIDE DEF m
<1>4. /\ history' = Append(history, m) /\ batch'.size = n /\ batch'.done = 0
  BY <1>1 DEF m
<1>5. /\ DOMAIN history' = 1..(Len(history) + 1) /\ Len(history') = Len(history) + 1
      /\ \A i \in DOMAIN history : history'[i] = history[i]
      /\ history'[Len(history) + 1] = m
  BY <1>3, <1>4, Appended, Facts
<1>6. Open = 0 /\ Open' = Len(history) + 1 /\ Torn' = Torn
  BY <1>2, <1>4, <1>5, Facts DEF Open, Torn
<1>7. Sound(history', Torn', Open')
  <2>1. Sound(history, Torn, Len(history) + 1)
    <3>1. Sound(history, Torn, 0) /\ 0 \notin DOMAIN history
      BY <1>6, Facts DEF PairInv
    <3> QED BY <3>1, SoundLater, Facts
  <2> QED BY <1>3, <1>4, <1>6, <2>1, AppendSound, Facts
<1>8. BatchInv'
  <2>1. Open' \in DOMAIN history' /\ history'[Open'] = m
    BY <1>5, <1>6, Facts
  <2>2. AnsweredTo(history, Open, batch.done)'
    BY <1>4 DEF AnsweredTo
  <2> QED BY <1>2, <1>3, <1>4, <2>1, <2>2 DEF BatchInv
<1>9. StartInv'
  <2>1. turnStart + 1 \in DOMAIN history
    BY <1>2, Facts DEF Shape, Working
  <2> QED BY <1>2, <1>5, <2>1 DEF StartInv, PairInv, Working
<1>10. LaterInv'
  BY <1>2 DEF PairInv, LaterInv
<1> QED BY <1>7, <1>8, <1>9, <1>10, SoundOf DEF PairInv

LEMMA LLMFailsPair == ASSUME Shape, Shape', PairInv, LLMFails PROVE PairInv'
<1>1. /\ outcome' = [outcome EXCEPT ![turn] = "fallback"] /\ history' = Dropped
      /\ pc \in {"llm", "stream"} /\ pc' = "say" /\ turn' = turn
  BY DEF LLMFails, Reply, turns
<1>2. turn \in Turns /\ outcome[turn] = "none" /\ turnStart < Len(history)
      /\ history[turnStart + 1].role = "user" /\ turn >= turn
  BY <1>1, Facts DEF Shape, PairInv, StartInv, Working
<1>3. Torn \subseteq Torn' /\ LaterInv'
  BY <1>1, <1>2, TornGrows
<1>4. Open = 0 /\ Open' = 0
  BY <1>1 DEF Open
<1>5. Sound(history', Torn', Open')
  <2>1. Sound(history, Torn', 0)
    BY <1>3, <1>4, SoundLater, Facts DEF PairInv
  <2>2. DOMAIN Dropped = 1..turnStart /\ \A i \in 1..turnStart : Dropped[i] = history[i]
    BY <1>2, DroppedKeeps, LenProperties DEF Shape
  <2>3. 0 \notin 1..turnStart
    BY Facts
  <2>4. Sound(Dropped, Torn', 0)
    BY <1>2, <2>1, <2>2, <2>3, PrefixSound, Facts
  <2> QED BY <1>1, <1>4, <2>4
<1>6. BatchInv' /\ StartInv'
  BY <1>1 DEF BatchInv, StartInv, Working
<1> QED BY <1>3, <1>5, <1>6, SoundOf DEF PairInv

LEMMA CutInPair == ASSUME Shape, Shape', PairInv, CutIn PROVE PairInv'
<1>0. pc' = "idle" /\ UNCHANGED <<history, turn, turnStart, batch>> /\ pc # "idle"
  BY DEF CutIn, turns
<1>1. CASE pc = "say"
  <2>1. Kept
    BY <1>0, <1>1 DEF CutIn, Kept
  <2>2. Waits
    BY <1>0, <1>1 DEF Waits
  <2> QED BY <2>1, <2>2, PairKept
<1>2. CASE pc \in Working
  <2>1. turn \in Turns /\ outcome[turn] = "none" /\ turn >= turn
    BY <1>2, Facts DEF Shape, PairInv, StartInv, Working
  <2>2. PICK how : outcome' = [outcome EXCEPT ![turn] = how] /\ (pc = "tools" => how = "torn")
    BY <1>2 DEF CutIn, Working
  <2>3. Torn \subseteq Torn' /\ LaterInv' /\ (pc = "tools" => turn \in Torn')
    BY <1>0, <2>1, <2>2, TornGrows
  <2>4. Open' = 0
    BY <1>0 DEF Open
  <2>5. Sound(history, Torn', 0)
    <3>1. CASE pc = "tools"
      BY <2>3, <3>1, SoundLater, Facts DEF PairInv, BatchInv
    <3>2. CASE pc # "tools"
      BY <2>3, <3>2, SoundLater, Facts DEF PairInv, Open
    <3> QED BY <3>1, <3>2
  <2>6. BatchInv' /\ StartInv'
    BY <1>0 DEF BatchInv, StartInv, Working
  <2>7. Sound(history', Torn', Open')
    BY <1>0, <2>4, <2>5
  <2> QED BY <2>3, <2>6, <2>7, SoundOf DEF PairInv
<1> QED BY <1>1, <1>2 DEF CutIn, Working

\* The last result of a round, and the next request or the end of the rounds.
LEMMA ToolEndsPair == ASSUME Shape, Shape', PairInv, ToolEnds PROVE PairInv'
<1> DEFINE done == batch.done + 1
           m == Msg("tool", done)
<1>0. /\ pc = "tools" /\ turn' = turn /\ turnStart' = turnStart
      /\ batch' = [batch EXCEPT !.done = done]
      /\ \/ /\ done < batch.size /\ history' = Append(history, m)
            /\ pc' = pc /\ outcome' = outcome
         \/ /\ done = batch.size /\ history' = Append(history, m)
            /\ pc' = "llm" /\ outcome' = outcome
         \/ /\ done = batch.size /\ history' = Dropped
            /\ pc' = "say" /\ outcome' = [outcome EXCEPT ![turn] = "fallback"]
  BY DEF ToolEnds, Send, Reply, turns
<1>1. /\ Open = Len(history) - batch.done /\ Open \in DOMAIN history /\ batch.done < batch.size
      /\ history[Open].role = "calls" /\ history[Open].turn = turn /\ history[Open].n = batch.size
      /\ AnsweredTo(history, Open, batch.done) /\ Sound(history, Torn, Open)
  BY <1>0 DEF PairInv, BatchInv, Open
<1>2. /\ turn \in Turns /\ outcome[turn] = "none" /\ turn >= turn /\ turnStart < Len(history)
      /\ history[turnStart + 1].role = "user" /\ turnStart + 1 \in DOMAIN history
  BY <1>0, Facts DEF Shape, PairInv, StartInv, Working
<1>3. m \in Message /\ m = ToolResult(turn, done) /\ m.role = "tool"
  <2>1. done \in Nat
    BY Facts
  <2> HIDE DEF done
  <2> QED BY <1>2, <2>1, MsgTyped DEF Msg, ToolResult
<1>4. batch'.size = batch.size /\ batch'.done = done
  BY <1>0 DEF Shape, TypeOK
<1> HIDE DEF done, m
<1>5. CASE history' = Append(history, m) /\ outcome' = outcome
  <2>1. /\ Follows(history', Len(history) + 1) /\ AnsweredTo(history', Open, done)
        /\ history'[Open] = history[Open]
    <3>1. history[Open].turn = turn /\ done = batch.done + 1 /\ batch.done \in Nat
      BY <1>1, Facts DEF done
    <3>2. /\ Open \in DOMAIN history /\ Open = Len(history) - batch.done
          /\ history[Open].role = "calls" /\ batch.done < history[Open].n
          /\ AnsweredTo(history, Open, batch.done) /\ history \in Seq(Message)
      BY <1>1, Facts
    <3>3. m = ToolResult(history[Open].turn, batch.done + 1) /\ m \in Message
      BY <1>3, <3>1
    <3>4. LET g == Append(history, ToolResult(history[Open].turn, batch.done + 1))
          IN /\ Follows(g, Len(history) + 1)
             /\ AnsweredTo(g, Open, batch.done + 1)
             /\ g[Open] = history[Open]
      BY <3>1, <3>2, <3>3, NextResult
    <3> QED BY <1>5, <3>1, <3>3, <3>4
  <2>2. /\ DOMAIN history' = 1..(Len(history) + 1) /\ Len(history') = Len(history) + 1
        /\ \A i \in DOMAIN history : i \in DOMAIN history' /\ history'[i] = history[i]
        /\ history' \in Seq(Message)
    BY <1>3, <1>5, Appended, Facts
  <2>3. Sound(history', Torn, Open)
    BY <1>1, <1>3, <1>5, <2>1, AppendSound, Facts
  <2>4. Torn' = Torn
    BY <1>5 DEF Torn
  <2>5. LaterInv' /\ StartInv'
    BY <1>0, <1>2, <1>5, <2>2 DEF LaterInv, StartInv, PairInv
  <2>6. CASE pc' = "tools" /\ done < batch.size
    <3>1. Open' = Open
      <4>1. Open' = Len(history) + 1 - (batch.done + 1)
        <5>1. Open' = Len(history') - batch'.done
          BY <2>6 DEF Open
        <5>2. done = batch.done + 1
          BY DEF done
        <5> QED BY <1>4, <2>2, <5>1, <5>2
      <4>2. Len(history) \in Nat /\ batch.done \in Nat
        BY Facts
      <4>3. Len(history) + 1 - (batch.done + 1) = Len(history) - batch.done
        BY ONLY <4>2, Shift
      <4> QED BY <1>1, <4>1, <4>3
    <3>2. BatchInv'
      <4>1. AnsweredTo(history', Open', batch'.done)
        BY <1>4, <2>1, <3>1
      <4>2. AnsweredTo(history, Open, batch.done)'
        BY <4>1 DEF AnsweredTo
      <4>3. Open' \in DOMAIN history' /\ history'[Open'] = history[Open]
        BY <1>1, <2>1, <2>2, <3>1
      <4> QED BY <1>0, <1>1, <1>4, <2>6, <4>2, <4>3 DEF BatchInv
    <3>3. Sound(history', Torn', Open')
      BY <2>3, <2>4, <3>1
    <3> QED BY <2>5, <3>2, <3>3, SoundOf DEF PairInv
  <2>7. CASE pc' = "llm" /\ done = batch.size
    <3>1. Open' = 0
      BY <2>7 DEF Open
    <3>2. AnsweredTo(history', Open, history'[Open].n) /\ Open \in DOMAIN history'
      BY <1>1, <2>1, <2>2, <2>7
    <3>3. Sound(history', Torn', Open')
      BY <2>2, <2>3, <2>4, <3>1, <3>2, SoundLater
    <3>4. BatchInv'
      BY <2>7 DEF BatchInv
    <3> QED BY <2>5, <3>3, <3>4, SoundOf DEF PairInv
  <2>8. pc' # "say"
    <3>1. outcome \in [Turns -> HandsOff \union {"none", "answer", "cut", "torn"}]
      BY Facts
    <3>2. [outcome EXCEPT ![turn] = "fallback"] # outcome
      BY <1>2, <3>1
    <3> QED BY <1>0, <1>5, <3>2
  <2> QED BY <1>0, <2>6, <2>7, <2>8
<1>6. CASE /\ history' = Dropped /\ pc' = "say"
           /\ outcome' = [outcome EXCEPT ![turn] = "fallback"]
  <2>1. Torn \subseteq Torn' /\ LaterInv'
    BY <1>0, <1>2, <1>6, TornGrows
  <2>2. Open' = 0
    BY <1>6 DEF Open
  <2>3. Open \notin 1..turnStart
    <3>1. ASSUME Open \in 1..turnStart PROVE FALSE
      <4>1. turnStart + 1 - Open \in 1..batch.done /\ Open + (turnStart + 1 - Open) = turnStart + 1
        BY <1>1, <1>2, <3>1, Facts
      <4>2. history[turnStart + 1] = ToolResult(turn, turnStart + 1 - Open)
        BY <1>1, <4>1 DEF AnsweredTo
      <4> QED BY <1>2, <4>2 DEF ToolResult
    <3> QED BY <3>1
  <2>4. Sound(history, Torn', Open)
    BY <1>1, <2>1, SoundLater, Facts
  <2>5. DOMAIN Dropped = 1..turnStart /\ \A i \in 1..turnStart : Dropped[i] = history[i]
    BY <1>2, DroppedKeeps, LenProperties DEF Shape
  <2>6. Sound(Dropped, Torn', 0)
    BY <1>2, <2>3, <2>4, <2>5, PrefixSound, Facts
  <2>7. Sound(history', Torn', Open')
    BY <1>6, <2>2, <2>6
  <2>8. BatchInv' /\ StartInv'
    BY <1>6 DEF BatchInv, StartInv, Working
  <2> QED BY <2>1, <2>7, <2>8, SoundOf DEF PairInv
<1> QED BY <1>0, <1>5, <1>6

LEMMA PairStep == Shape /\ Shape' /\ PairInv /\ [Next]_vars => PairInv'
<1> SUFFICES ASSUME Shape, Shape', PairInv, [Next]_vars PROVE PairInv'
  OBVIOUS
<1>1. CASE Retry \/ Connect \/ StreamText \/ EndTurn
  <2>1. Kept
    BY <1>1 DEF Retry, Connect, StreamText, EndTurn, turns, Kept
  <2>2. Waits
    BY <1>1 DEF Retry, Connect, StreamText, EndTurn, Waits
  <2> QED BY <2>1, <2>2, PairKept
<1>2. CASE TimeUp \/ HangUp \/ (\E u \in Turns : Lookup(u) \/ Transfer(u)) \/ UNCHANGED vars
  <2>1. Kept /\ pc' = pc
    BY <1>2 DEF TimeUp, HangUp, Lookup, Transfer, conversation, turns, vars, Kept
  <2>2. Waits
    BY <2>1 DEF Waits
  <2> QED BY <2>1, <2>2, PairKept
<1> QED BY <1>1, <1>2, UtterancePair, OverLimitPair, AnswerPair, CallToolsPair,
           ToolEndsPair, LLMFailsPair, CutInPair
        DEF Next, Proceed

\* A result in the history always has its call, and a call whose results are not
\* all there is under way or was torn: no request is malformed otherwise.
LEMMA SoundIsPaired ==
  ASSUME Shape, PairInv
  PROVE  SlicedOnlyByBargeIn
<1> SUFFICES ASSUME pc \in {"llm", "stream"}, NEW i \in DOMAIN history, Dangling(history, i)
             PROVE  outcome[history[i].turn] = "torn"
  BY DEF SlicedOnlyByBargeIn
<1>1. /\ \A j \in DOMAIN history : history[j].turn \in Turns /\ history[j].n \in Nat /\ j # 0
      /\ Sound(history, Torn, 0)
  BY Facts, Positions DEF PairInv, Open
<1>2. CASE history[i].role = "calls"
  <2>1. ~AnsweredTo(history, i, history[i].n)
    BY <1>2 DEF Dangling, AnsweredTo, ToolResult
  <2>2. history[i].turn \in Torn
    BY <1>1, <1>2, <2>1 DEF Sound, CallsAnswered
  <2> QED BY <2>2 DEF Torn
<1>3. CASE history[i].role = "tool"
  <2>1. Follows(history, i)
    BY <1>1, <1>3 DEF Sound, ResultsFollow
  <2> QED BY <1>1, <1>3, <2>1 DEF Dangling, Follows
<1> QED BY <1>2, <1>3 DEF Dangling

\* Neither _trim_history nor the dropping of an unanswered turn slices a tool call
\* from its result, for any limits and any number of calls per response: the only
\* requests the vendors would reject hold a turn the caller cut off while a tool
\* ran.
THEOREM SlicedOnlyByBargeInHolds == Spec => []SlicedOnlyByBargeIn
<1>1. Shape /\ PairInv => SlicedOnlyByBargeIn
  BY SoundIsPaired
<1> QED BY <1>1, ShapeHolds, PairInit, PairStep, PTL DEF Spec

-----------------------------------------------------------------------------
(* Both wire formats                                                       *)
(*                                                                         *)
(* In a history whose results follow their calls, all three ways to say it *)
(* is well formed come down to one: no response is short of a result.      *)

\* Each of the response's calls has a result in its place.
Full(h, j) == \A k \in 1..h[j].n : j + k \in DOMAIN h /\ h[j + k].role = "tool"

AllFull(h) == \A j \in DOMAIN h : h[j].role = "calls" => Full(h, j)

\* A result belongs to the only calls before it that nothing but results part it
\* from.
LEMMA ResultsOf ==
  ASSUME NEW h \in Seq(Message), ResultsFollow(h), NEW j \in DOMAIN h, h[j].role = "calls",
         NEW i \in DOMAIN h, j < i, \A m \in (j + 1)..i : m \in DOMAIN h /\ h[m].role = "tool"
  PROVE  h[i] = ToolResult(h[j].turn, i - j) /\ i - j \in 1..h[j].n
<1>1. \A m \in DOMAIN h : m \in Nat \ {0} /\ h[m] \in Message /\ h[m].n \in Nat
  BY Positions
<1>2. h[i].role = "tool"
  BY <1>1
<1>3. PICK c \in DOMAIN h :
        /\ h[c].role = "calls" /\ i = c + h[i].n /\ h[i].n \in 1..h[c].n
        /\ \A m \in (c + 1)..i :
             m \in DOMAIN h /\ h[m].role = "tool" /\ h[m].turn = h[c].turn
  BY <1>2 DEF ResultsFollow, Follows
<1>4. c = j
  <2>1. ASSUME c < j PROVE FALSE
    <3>1. j \in (c + 1)..i
      BY <1>1, <2>1
    <3> QED BY <1>3, <3>1
  <2>2. ASSUME j < c PROVE FALSE
    <3>1. c \in (j + 1)..i
      BY <1>1, <1>3, <2>2
    <3> QED BY <1>3, <3>1
  <2> QED BY <1>1, <2>1, <2>2
<1>5. h[i].n = i - j /\ i - j \in 1..h[j].n
  BY <1>1, <1>3, <1>4
<1>6. h[i].turn = h[j].turn
  BY <1>1, <1>3, <1>4
<1>7. h[i] = [role |-> "tool", turn |-> h[j].turn, n |-> i - j]
  BY <1>1, <1>2, <1>5, <1>6 DEF Message
<1> QED BY <1>5, <1>7 DEF ToolResult

\* The results up to one are all there if it is.
LEMMA FullIsAnswered ==
  ASSUME NEW h \in Seq(Message), ResultsFollow(h), NEW j \in DOMAIN h, h[j].role = "calls",
         Full(h, j), NEW k \in 1..h[j].n
  PROVE  j + k \in DOMAIN h /\ h[j + k] = ToolResult(h[j].turn, k)
<1>1. j \in Nat \ {0} /\ h[j].n \in Nat
  BY Positions
<1>2. ASSUME NEW m \in (j + 1)..(j + k) PROVE m \in DOMAIN h /\ h[m].role = "tool"
  <2>1. m - j \in 1..h[j].n /\ j + (m - j) = m
    BY <1>1
  <2> QED BY <2>1 DEF Full
<1>3. j + k \in (j + 1)..(j + k) /\ j < j + k /\ (j + k) - j = k
  BY <1>1
<1>4. h[j + k] = ToolResult(h[j].turn, (j + k) - j)
  BY <1>2, <1>3, ResultsOf
<1> QED BY <1>2, <1>3, <1>4

LEMMA PairedIsFull ==
  ASSUME NEW h \in Seq(Message), ResultsFollow(h)
  PROVE  Paired(h) <=> AllFull(h)
<1>1. \A i \in DOMAIN h : i \in Nat \ {0} /\ h[i].n \in Nat
  BY Positions
<1>2. ASSUME Paired(h), NEW j \in DOMAIN h, h[j].role = "calls", NEW k \in 1..h[j].n
      PROVE  j + k \in DOMAIN h /\ h[j + k].role = "tool"
  BY <1>2 DEF Paired, Dangling
<1>3. ASSUME AllFull(h), NEW i \in DOMAIN h PROVE ~Dangling(h, i)
  <2>1. CASE h[i].role = "calls"
    <3>1. Full(h, i)
      BY <1>3, <2>1 DEF AllFull
    <3>2. \A k \in 1..h[i].n : i + k \in DOMAIN h /\ h[i + k] = ToolResult(h[i].turn, k)
      BY <2>1, <3>1, FullIsAnswered
    <3> QED BY <2>1, <3>2 DEF Dangling, ToolResult
  <2>2. CASE h[i].role = "tool"
    <3>1. Follows(h, i)
      BY <2>2 DEF ResultsFollow
    <3>2. PICK j \in DOMAIN h : h[j].role = "calls" /\ i = j + h[i].n /\ h[i].n \in 1..h[j].n
      BY <3>1 DEF Follows
    <3>3. h[i].n <= h[j].n
      BY <1>1, <3>2
    <3> QED BY <2>2, <3>2, <3>3 DEF Dangling
  <2> QED BY <2>1, <2>2 DEF Dangling
<1> QED BY <1>2, <1>3 DEF AllFull, Full, Paired

\* A response with n calls names n of them.
LEMMA CallsCounted ==
  ASSUME NEW msg \in Message
  PROVE  /\ msg.role = "calls" => Cardinality(CallsOf(msg)) = msg.n
         /\ msg.role # "calls" => CallsOf(msg) = {} /\ Cardinality(CallsOf(msg)) = 0
         /\ CallsOf(msg) # {} <=> msg.role = "calls" /\ msg.n > 0
<1>1. msg.n \in Nat
  BY DEF Message
<1>2. CASE msg.role = "calls"
  <2> DEFINE S == {<<msg.turn, k>> : k \in 1..msg.n}
             name == [k \in 1..msg.n |-> <<msg.turn, k>>]
  <2>1. name \in Bijection(1..msg.n, S)
    <3>1. name \in [1..msg.n -> S]
      OBVIOUS
    <3>2. \A a, b \in 1..msg.n : name[a] = name[b] => a = b
      OBVIOUS
    <3>3. \A s \in S : \E a \in 1..msg.n : name[a] = s
      OBVIOUS
    <3> HIDE DEF name, S
    <3> QED BY <3>1, <3>2, <3>3, Fun_IsBij
  <2>2. IsFiniteSet(1..msg.n) /\ Cardinality(1..msg.n) = msg.n
    <3> DEFINE n == msg.n
    <3>1. n \in Int /\ n >= 0
      BY <1>1
    <3> HIDE DEF n
    <3>2. /\ IsFiniteSet(1..n)
          /\ Cardinality(1..n) = IF 1 > n THEN 0 ELSE n - 1 + 1
      BY <3>1, FS_Interval
    <3>3. (IF 1 > n THEN 0 ELSE n - 1 + 1) = n
      BY <3>1
    <3> QED BY <3>2, <3>3 DEF n
  <2>3. Cardinality(S) = msg.n
    <3> HIDE DEF name, S
    <3> QED BY <2>1, <2>2, FS_Bijection DEF ExistsBijection
  <2>4. CallsOf(msg) = S
    BY <1>2 DEF CallsOf
  <2>5. S # {} <=> msg.n > 0
    <3>1. msg.n > 0 => <<msg.turn, 1>> \in S
      BY <1>1
    <3>2. msg.n = 0 => S = {}
      OBVIOUS
    <3> HIDE DEF S
    <3> QED BY <1>1, <3>1, <3>2
  <2> HIDE DEF S
  <2> QED BY <1>2, <2>3, <2>4, <2>5
<1>3. CASE msg.role # "calls"
  BY <1>3, FS_EmptySet DEF CallsOf
<1> QED BY <1>2, <1>3

\* OpenAI's rules ask no more of such a history than its results, nor less.
LEMMA OpenAIIsFull ==
  ASSUME NEW h \in Seq(Message), ResultsFollow(h)
  PROVE  OpenAIAccepts(ToOpenAI(h)) <=> AllFull(h)
<1> DEFINE wire == ToOpenAI(h)
<1>1. \A i \in DOMAIN h : i \in Nat \ {0} /\ h[i] \in Message /\ h[i].n \in Nat
  BY Positions
<1>2. /\ DOMAIN wire = DOMAIN h
      /\ \A i \in DOMAIN h : /\ wire[i].role = "tool" <=> h[i].role = "tool"
                             /\ wire[i].calls = CallsOf(h[i])
                             /\ wire[i].answers = <<h[i].turn, h[i].n>>
  BY DEF ToOpenAI, Speaker
<1>3. \A i \in DOMAIN h :
         /\ h[i].role = "calls" => Cardinality(wire[i].calls) = h[i].n
         /\ wire[i].calls # {} <=> h[i].role = "calls" /\ h[i].n > 0
  BY <1>1, <1>2, CallsCounted
<1> HIDE DEF wire
<1>4. ASSUME OpenAIAccepts(wire), NEW j \in DOMAIN h, h[j].role = "calls",
             NEW k \in 1..h[j].n
      PROVE  j + k \in DOMAIN h /\ h[j + k].role = "tool"
  <2>1. h[j].n > 0 /\ j + k \in (j + 1)..(j + h[j].n)
    BY <1>1
  <2>2. j + k \in DOMAIN wire /\ wire[j + k].role = "tool"
    BY <1>2, <1>3, <1>4, <2>1 DEF OpenAIAccepts
  <2> QED BY <1>2, <2>2
<1>5. ASSUME AllFull(h), NEW m \in DOMAIN wire, wire[m].calls # {},
             NEW after, after = (m + 1)..(m + Cardinality(wire[m].calls))
      PROVE  /\ after \subseteq DOMAIN wire
             /\ \A i \in after : wire[i].role = "tool"
             /\ {wire[i].answers : i \in after} = wire[m].calls
  <2>1. m \in DOMAIN h /\ h[m].role = "calls" /\ after = (m + 1)..(m + h[m].n)
    BY <1>2, <1>3, <1>5
  <2>2. Full(h, m)
    BY <1>5, <2>1 DEF AllFull
  <2>3. \A k \in 1..h[m].n : m + k \in DOMAIN h /\ h[m + k] = ToolResult(h[m].turn, k)
    BY <2>1, <2>2, FullIsAnswered
  <2>4. ASSUME NEW k \in 1..h[m].n
        PROVE  /\ m + k \in after /\ m + k \in DOMAIN h /\ h[m + k].role = "tool"
               /\ wire[m + k].answers = <<h[m].turn, k>>
    <3>1. m + k \in after
      BY <1>1, <2>1
    <3>2. m + k \in DOMAIN h /\ h[m + k] = ToolResult(h[m].turn, k)
      BY <2>3
    <3>3. h[m + k].role = "tool" /\ h[m + k].turn = h[m].turn /\ h[m + k].n = k
      BY <3>2 DEF ToolResult
    <3>4. wire[m + k].answers = <<h[m + k].turn, h[m + k].n>>
      BY <1>2, <3>2
    <3> QED BY <3>1, <3>2, <3>3, <3>4
  <2>5. ASSUME NEW i \in after
        PROVE  \E k \in 1..h[m].n : i = m + k
    <3>1. i - m \in 1..h[m].n /\ m + (i - m) = i
      BY <1>1, <2>1
    <3> QED BY <3>1
  <2>6. \A i \in after : i \in DOMAIN h /\ h[i].role = "tool"
    BY <2>4, <2>5
  <2>7. wire[m].calls = {<<h[m].turn, k>> : k \in 1..h[m].n}
    BY <1>2, <2>1 DEF CallsOf
  <2>8. ASSUME NEW i \in after PROVE wire[i].answers \in wire[m].calls
    <3>1. PICK k \in 1..h[m].n : i = m + k
      BY <2>5
    <3>2. wire[i].answers = <<h[m].turn, k>>
      BY <2>4, <3>1
    <3> QED BY <2>7, <3>2
  <2>9. ASSUME NEW c \in wire[m].calls PROVE \E i \in after : c = wire[i].answers
    <3>1. PICK k \in 1..h[m].n : c = <<h[m].turn, k>>
      BY <2>7
    <3>2. m + k \in after /\ wire[m + k].answers = c
      BY <2>4, <3>1
    <3> QED BY <3>2
  <2>10. {wire[i].answers : i \in after} = wire[m].calls
    BY <2>8, <2>9
  <2> QED BY <1>2, <2>6, <2>10
<1>6. ASSUME NEW m \in DOMAIN wire, wire[m].role = "tool"
      PROVE  \E c \in 1..(m - 1) : m <= c + Cardinality(wire[c].calls)
  <2>1. PICK c \in DOMAIN h :
          h[c].role = "calls" /\ m = c + h[m].n /\ h[m].n \in 1..h[c].n
    BY <1>2, <1>6 DEF ResultsFollow, Follows
  <2>2. Cardinality(wire[c].calls) = h[c].n
    BY <1>3, <2>1
  <2>3. c \in 1..(m - 1) /\ m <= c + h[c].n
    BY <1>1, <1>2, <2>1
  <2> QED BY <2>2, <2>3
<1>7. AllFull(h) => OpenAIAccepts(wire)
  BY <1>5, <1>6 DEF OpenAIAccepts
<1>8. OpenAIAccepts(wire) => AllFull(h)
  BY <1>4 DEF AllFull, Full
<1> QED BY <1>7, <1>8 DEF wire

\* A message of blocks that comes after calls holds results of these calls alone.
LEMMA BlocksAfter ==
  ASSUME NEW h \in Seq(Message), ResultsFollow(h), NEW j \in DOMAIN h, h[j].role = "calls",
         NEW l \in Joined(h, j + 1), h[l].role = "tool"
  PROVE  l \in DOMAIN h /\ h[l] = ToolResult(h[j].turn, l - j) /\ l - j \in 1..h[j].n
<1>1. DOMAIN h = 1..Len(h) /\ Len(h) \in Nat /\ j \in Nat \ {0}
  BY Positions
<1>2. l \in (j + 1)..Len(h) /\ \A k \in (j + 2)..l : Continues(h, k)
  BY <1>1 DEF Joined
<1>3. l \in DOMAIN h /\ l \in Nat /\ j < l
  BY <1>1, <1>2
<1>4. ASSUME NEW m \in (j + 1)..l PROVE m \in DOMAIN h /\ h[m].role = "tool"
  <2>1. m \in DOMAIN h
    BY <1>1, <1>2
  <2>2. CASE m = l
    BY <2>1, <2>2
  <2>3. CASE m # l
    <3>1. m + 1 \in (j + 2)..l /\ (m + 1) - 1 = m
      BY <1>1, <1>2, <2>3
    <3>2. Continues(h, m + 1)
      BY <1>2, <3>1
    <3> QED BY <2>1, <3>1, <3>2 DEF Continues
  <2> QED BY <2>2, <2>3
<1> QED BY <1>3, <1>4, ResultsOf

\* It holds all of them if none is missing, and only then.
LEMMA BlocksAreCalls ==
  ASSUME NEW h \in Seq(Message), ResultsFollow(h), NEW j \in DOMAIN h, h[j].role = "calls",
         h[j].n > 0
  PROVE  Blocks(h, j + 1) = CallsOf(h[j]) <=> Full(h, j)
<1> DEFINE B == Blocks(h, j + 1)
<1>1. DOMAIN h = 1..Len(h) /\ Len(h) \in Nat /\ j \in Nat \ {0} /\ h[j].n \in Nat
  BY Positions
<1>2. CallsOf(h[j]) = {<<h[j].turn, k>> : k \in 1..h[j].n}
  BY DEF CallsOf
<1>3. ASSUME NEW b \in B
      PROVE  \E k \in 1..h[j].n : /\ b = <<h[j].turn, k>>
                                  /\ j + k \in DOMAIN h /\ h[j + k].role = "tool"
  <2>1. PICK l \in Joined(h, j + 1) : h[l].role = "tool" /\ b = <<h[l].turn, h[l].n>>
    BY DEF Blocks
  <2>2. l \in DOMAIN h /\ h[l] = ToolResult(h[j].turn, l - j) /\ l - j \in 1..h[j].n
    BY <2>1, BlocksAfter
  <2>3. b = <<h[j].turn, l - j>>
    BY <2>1, <2>2 DEF ToolResult
  <2>4. j + (l - j) = l
    BY <1>1, <2>2
  <2> QED BY <2>1, <2>2, <2>3, <2>4
<1>4. ASSUME B = CallsOf(h[j]), NEW k \in 1..h[j].n
      PROVE  j + k \in DOMAIN h /\ h[j + k].role = "tool"
  <2> HIDE DEF B
  <2>1. <<h[j].turn, k>> \in B
    BY <1>2, <1>4
  <2>2. PICK i \in 1..h[j].n : /\ <<h[j].turn, k>> = <<h[j].turn, i>>
                               /\ j + i \in DOMAIN h /\ h[j + i].role = "tool"
    BY <1>3, <2>1
  <2> QED BY <2>2
<1>5. ASSUME Full(h, j), NEW k \in 1..h[j].n PROVE <<h[j].turn, k>> \in B
  <2>1. j + k \in DOMAIN h /\ h[j + k] = ToolResult(h[j].turn, k)
    BY <1>5, FullIsAnswered
  <2>2. ASSUME NEW m \in (j + 2)..(j + k) PROVE Continues(h, m)
    <3>1. /\ m - j \in 1..h[j].n /\ j + (m - j) = m
          /\ (m - 1) - j \in 1..h[j].n /\ j + ((m - 1) - j) = m - 1 /\ m > 1
      <4>1. m \in Int /\ j + 2 <= m /\ m <= j + k /\ k <= h[j].n
        BY <1>1
      <4>2. m - j \in 2..h[j].n
        BY <1>1, <4>1
      <4>3. (m - 1) - j = (m - j) - 1 /\ j + (m - j) = m /\ j + ((m - 1) - j) = m - 1 /\ m > 1
        BY <1>1, <4>1
      <4> HIDE DEF B
      <4>4. \A d \in 2..h[j].n : d \in 1..h[j].n /\ d - 1 \in 1..h[j].n
        BY <1>1
      <4> QED BY <4>2, <4>3, <4>4
    <3>2. h[m].role = "tool" /\ h[m - 1].role = "tool"
      BY <1>5, <3>1 DEF Full
    <3> QED BY <3>1, <3>2 DEF Continues
  <2>3. j + k \in (j + 1)..Len(h) /\ (j + 1) + 1 = j + 2
    BY <1>1, <2>1
  <2>4. j + k \in Joined(h, j + 1)
    BY <2>2, <2>3 DEF Joined
  <2>5. /\ h[j + k].role = "tool"
        /\ <<h[j + k].turn, h[j + k].n>> = <<h[j].turn, k>>
    BY <2>1 DEF ToolResult
  <2> QED BY <2>4, <2>5 DEF Blocks
<1> HIDE DEF B
<1>6. Full(h, j) => B = CallsOf(h[j])
  BY <1>2, <1>3, <1>5
<1>7. B = CallsOf(h[j]) => Full(h, j)
  BY <1>4 DEF Full
<1> QED BY <1>6, <1>7 DEF B

\* Nor do Anthropic's, but for empty answers.
LEMMA AnthropicIsFull ==
  ASSUME NEW h \in Seq(Message), ResultsFollow(h), h = <<>> \/ h[Len(h)].role # "assistant"
  PROVE  AnthropicAccepts(ToAnthropic(h)) <=> AllFull(h) /\ ~HasWordless(h)
<1> DEFINE wire == ToAnthropic(h)
<1>1. /\ DOMAIN h = 1..Len(h) /\ Len(h) \in Nat
      /\ \A i \in DOMAIN h : i \in Nat \ {0} /\ h[i] \in Message /\ h[i].n \in Nat
  BY Positions
<1>2. /\ DOMAIN wire = {j \in DOMAIN h : ~Continues(h, j)}
      /\ \A i \in DOMAIN wire : /\ wire[i].calls = CallsOf(h[i])
                                /\ wire[i].results = Blocks(h, i)
                                /\ wire[i].words = ~Wordless(h[i])
  BY DEF ToAnthropic
<1> HIDE DEF wire
<1>3. \A i \in DOMAIN wire : i \in DOMAIN h
  BY <1>2
<1>4. \A i \in DOMAIN wire : wire[i].calls # {} <=> h[i].role = "calls" /\ h[i].n > 0
  BY <1>1, <1>2, <1>3, CallsCounted
<1>5. \A j \in DOMAIN h : h[j].role = "calls" =>
         j \in DOMAIN wire /\ (j + 1 \in DOMAIN h => j + 1 \in DOMAIN wire)
  <2>1. \A j \in DOMAIN h : h[j].role = "calls" => ~Continues(h, j) /\ ~Continues(h, j + 1)
    <3>1. \A j \in DOMAIN h : (j + 1) - 1 = j
      BY <1>1
    <3> QED BY <3>1 DEF Continues
  <2> QED BY <1>2, <2>1
<1>6. ASSUME AnthropicAccepts(wire), NEW j \in DOMAIN h, h[j].role = "calls"
      PROVE  Full(h, j)
  <2>1. CASE h[j].n = 0
    BY <2>1 DEF Full
  <2>2. CASE h[j].n > 0
    <3>1. PICK k \in DOMAIN wire : NextMessage(wire, j, k) /\ wire[k].results = wire[j].calls
      BY <1>4, <1>5, <1>6, <2>2 DEF AnthropicAccepts
    <3>2. k \in DOMAIN h /\ j < k /\ \A l \in DOMAIN wire : l <= j \/ l >= k
      BY <1>3, <3>1 DEF NextMessage
    <3>3. j + 1 \in DOMAIN h
      BY <1>1, <3>2
    <3>4. k = j + 1
      BY <1>1, <1>5, <1>6, <3>2, <3>3
    <3>5. Blocks(h, j + 1) = CallsOf(h[j])
      BY <1>2, <1>5, <1>6, <3>1, <3>4
    <3> QED BY <1>6, <2>2, <3>5, BlocksAreCalls
  <2> QED BY <1>1, <2>1, <2>2
<1>7. ASSUME AllFull(h), NEW j \in DOMAIN h, h[j].role = "calls", h[j].n > 0
      PROVE  /\ j \in DOMAIN wire /\ j + 1 \in DOMAIN wire
             /\ NextMessage(wire, j, j + 1) /\ wire[j + 1].results = wire[j].calls
  <2>1. Full(h, j)
    BY <1>7 DEF AllFull
  <2>2. j + 1 \in DOMAIN h
    BY <1>1, <1>7, <2>1 DEF Full
  <2>3. j \in DOMAIN wire /\ j + 1 \in DOMAIN wire
    BY <1>5, <1>7, <2>2
  <2>4. Blocks(h, j + 1) = CallsOf(h[j])
    BY <1>7, <2>1, BlocksAreCalls
  <2>5. j < j + 1 /\ \A l \in DOMAIN wire : l <= j \/ l >= j + 1
    BY <1>1, <1>3
  <2> QED BY <1>2, <2>3, <2>4, <2>5 DEF NextMessage
<1>8. ASSUME AllFull(h), NEW m \in DOMAIN wire, wire[m].results # {}
      PROVE  \E k \in DOMAIN wire : NextMessage(wire, k, m) /\ wire[k].calls = wire[m].results
  <2>1. m \in DOMAIN h /\ ~Continues(h, m)
    BY <1>2
  <2>2. PICK l \in Joined(h, m) : h[l].role = "tool"
    BY <1>2, <1>8 DEF Blocks
  <2>3. h[m].role = "tool"
    <3>1. l \in m..Len(h) /\ \A k \in (m + 1)..l : Continues(h, k)
      BY <2>2 DEF Joined
    <3>2. CASE l = m
      BY <2>2, <3>2
    <3>3. CASE l # m
      <4>1. m + 1 \in (m + 1)..l /\ (m + 1) - 1 = m
        BY <1>1, <2>1, <3>1, <3>3
      <4>2. Continues(h, m + 1)
        BY <3>1, <4>1
      <4> QED BY <4>1, <4>2 DEF Continues
    <3> QED BY <3>2, <3>3
  <2>4. PICK c \in DOMAIN h :
          /\ h[c].role = "calls" /\ m = c + h[m].n /\ h[m].n \in 1..h[c].n
          /\ \A i \in (c + 1)..m : i \in DOMAIN h /\ h[i].role = "tool"
    BY <2>1, <2>3 DEF ResultsFollow, Follows
  <2>5. m = c + 1
    <3>1. ASSUME m # c + 1 PROVE FALSE
      <4>1. m - 1 \in (c + 1)..m /\ m > 1
        BY <1>1, <2>1, <2>4, <3>1
      <4>2. h[m - 1].role = "tool"
        BY <2>4, <4>1
      <4> QED BY <2>1, <2>3, <4>1, <4>2 DEF Continues
    <3> QED BY <3>1
  <2>6. h[c].n > 0
    BY <1>1, <2>4
  <2>7. /\ c \in DOMAIN wire
        /\ NextMessage(wire, c, c + 1) /\ wire[c + 1].results = wire[c].calls
    BY <1>7, <1>8, <2>4, <2>6
  <2> QED BY <2>5, <2>7
<1>9. AllFull(h) /\ ~HasWordless(h) => AnthropicAccepts(wire)
  <2>0. ~HasWordless(h) => \A m \in DOMAIN wire : wire[m].words
    BY <1>2, <1>3 DEF HasWordless
  <2> SUFFICES ASSUME AllFull(h), NEW m \in DOMAIN wire, wire[m].calls # {}
               PROVE  \E k \in DOMAIN wire :
                         NextMessage(wire, m, k) /\ wire[k].results = wire[m].calls
    BY <1>8, <2>0 DEF AnthropicAccepts
  <2>1. m \in DOMAIN h /\ h[m].role = "calls" /\ h[m].n > 0
    BY <1>3, <1>4
  <2> QED BY <1>7, <2>1
<1>10. AnthropicAccepts(wire) => AllFull(h)
  BY <1>6 DEF AllFull
<1>11. ASSUME AnthropicAccepts(wire), NEW i \in DOMAIN h, Wordless(h[i]) PROVE FALSE
  <2>1. i \in DOMAIN wire /\ ~wire[i].words
    BY <1>2, <1>11 DEF Wordless, Continues
  <2>2. \A l \in DOMAIN wire : l <= i
    BY <1>11, <2>1 DEF AnthropicAccepts
  <2>3. i < Len(h)
    BY <1>1, <1>11 DEF Wordless
  <2>4. i + 1 \in DOMAIN h /\ ~Continues(h, i + 1)
    <3>1. (i + 1) - 1 = i
      BY <1>1
    <3> QED BY <1>1, <1>11, <2>3, <3>1 DEF Continues, Wordless
  <2>5. i + 1 \in DOMAIN wire
    BY <1>2, <2>4
  <2> QED BY <1>1, <2>2, <2>5
<1>12. AnthropicAccepts(wire) => ~HasWordless(h)
  BY <1>11 DEF HasWordless
<1> QED BY <1>9, <1>10, <1>12 DEF wire

-----------------------------------------------------------------------------
(* What is remembered                                                      *)
(*                                                                         *)
(* The refinement of Dialogue.  Whether a turn is remembered whole does    *)
(* not depend on the turns before and after it, so that appending, dropping *)
(* and trimming change the memory of no other turn than the one under way; *)
(* and the user messages of a history stand for its turns, in their order, *)
(* so that counting the ones is counting the others.                       *)

\* Whole, in a history whose results follow their calls.
AnsweredTurn(h, u) ==
  /\ \E i \in DOMAIN h : h[i].turn = u /\ h[i].role = "assistant"
  /\ \A i \in DOMAIN h : h[i].turn = u /\ h[i].role = "calls" => AnsweredTo(h, i, h[i].n)

LEMMA WholeIs ==
  ASSUME NEW h \in Seq(Message), ResultsFollow(h), NEW u
  PROVE  Whole(h, u) <=> AnsweredTurn(h, u)
<1>1. ASSUME NEW i \in DOMAIN h
      PROVE  Dangling(h, i) <=> h[i].role = "calls" /\ ~AnsweredTo(h, i, h[i].n)
  <2>1. CASE h[i].role = "tool"
    <3>1. Follows(h, i)
      BY <2>1 DEF ResultsFollow
    <3>2. PICK j \in DOMAIN h : /\ h[j].role = "calls" /\ i = j + h[i].n
                                /\ h[i].n \in 1..h[j].n
      BY <3>1 DEF Follows
    <3>3. h[j].n \in Nat
      BY Positions
    <3>4. h[i].n <= h[j].n
      BY <3>2, <3>3
    <3> QED BY <2>1, <3>2, <3>4 DEF Dangling
  <2>2. CASE h[i].role # "tool"
    BY <2>2 DEF Dangling, AnsweredTo, ToolResult
  <2> QED BY <2>1, <2>2
<1> QED BY <1>1 DEF Whole, AnsweredTurn

\* What is appended in turn t leaves the other turns as they were.
LEMMA OtherTurns ==
  ASSUME NEW h \in Seq(Message), NEW g \in Seq(Message), NEW t, NEW u, u # t,
         Len(h) <= Len(g), \A i \in 1..Len(h) : g[i] = h[i],
         \A i \in DOMAIN g : i > Len(h) => g[i].turn = t
  PROVE  AnsweredTurn(g, u) <=> AnsweredTurn(h, u)
<1>1. /\ Len(h) \in Nat /\ DOMAIN h = 1..Len(h) /\ Len(g) \in Nat /\ DOMAIN g = 1..Len(g)
      /\ \A i \in DOMAIN h : h[i].n \in Nat
  BY Positions
<1>2. \A i \in DOMAIN g : g[i].turn = u => i \in DOMAIN h /\ g[i] = h[i]
  BY <1>1
<1>3. \A i \in DOMAIN h : i \in DOMAIN g /\ g[i] = h[i]
  BY <1>1
<1>4. ASSUME NEW i \in DOMAIN h, h[i].turn = u
      PROVE  AnsweredTo(g, i, h[i].n) <=> AnsweredTo(h, i, h[i].n)
  <2>1. ASSUME NEW k \in 1..h[i].n
        PROVE  (i + k \in DOMAIN g /\ g[i + k] = ToolResult(u, k))
               <=> (i + k \in DOMAIN h /\ h[i + k] = ToolResult(u, k))
    BY <1>2, <1>3 DEF ToolResult
  <2> QED BY <1>3, <1>4, <2>1 DEF AnsweredTo
<1>5. (\E i \in DOMAIN g : g[i].turn = u /\ g[i].role = "assistant")
      <=> (\E i \in DOMAIN h : h[i].turn = u /\ h[i].role = "assistant")
  BY <1>2, <1>3
<1>6. (\A i \in DOMAIN g : g[i].turn = u /\ g[i].role = "calls" => AnsweredTo(g, i, g[i].n))
      <=> (\A i \in DOMAIN h : h[i].turn = u /\ h[i].role = "calls" => AnsweredTo(h, i, h[i].n))
  BY <1>2, <1>3, <1>4
<1> QED BY <1>5, <1>6 DEF AnsweredTurn

\* What is trimmed leaves the turns that stay as they were.
LEMMA LaterTurns ==
  ASSUME NEW h \in Seq(Message), Ordered(h), NEW c \in UserIndices(h),
         NEW u \in TurnsIn(SubSeq(h, c, Len(h)))
  PROVE  AnsweredTurn(SubSeq(h, c, Len(h)), u) <=> AnsweredTurn(h, u)
<1> DEFINE s == SubSeq(h, c, Len(h))
           L == Len(h)
<1>1. /\ L \in Nat /\ DOMAIN h = 1..L /\ c \in 1..L /\ h[c].role = "user"
      /\ \A i \in DOMAIN h : i \in Nat /\ h[i].n \in Nat /\ h[i].turn \in Nat
  <2>1. \A i \in DOMAIN h : h[i].turn \in Nat
    BY Positions DEF Turns
  <2> QED BY <2>1, Positions, HistoryPlaces
<1>2. DOMAIN s = 1..(L - c + 1) /\ \A i \in DOMAIN s : c + i - 1 \in DOMAIN h /\ s[i] = h[c + i - 1]
  BY <1>1, SuffixIs
<1>3. PICK j \in UserIndices(s) : s[j].turn = u
  BY DEF TurnsIn
<1> HIDE DEF s, L
<1>4. h[c].turn <= u
  <2>1. j \in DOMAIN s
    BY <1>3 DEF UserIndices
  <2>2. c + j - 1 \in DOMAIN h /\ s[j] = h[c + j - 1] /\ c <= c + j - 1 /\ c \in DOMAIN h
    BY <1>1, <1>2, <2>1
  <2>3. h[c].turn <= h[c + j - 1].turn
    BY <2>2 DEF Ordered
  <2> QED BY <1>3, <2>2, <2>3
<1>5. \A i \in DOMAIN h : h[i].turn = u => i >= c
  <2> SUFFICES ASSUME NEW i \in DOMAIN h, h[i].turn = u, i < c PROVE FALSE
    BY <1>1
  <2>1. h[i].turn < h[c].turn
    BY DEF Ordered
  <2> QED BY <1>1, <1>4, <2>1
<1>6. \A i \in DOMAIN h : i >= c => i - c + 1 \in DOMAIN s /\ s[i - c + 1] = h[i]
  <2> SUFFICES ASSUME NEW i \in DOMAIN h, i >= c
               PROVE  i - c + 1 \in DOMAIN s /\ s[i - c + 1] = h[i]
    OBVIOUS
  <2>1. i - c + 1 \in 1..(L - c + 1) /\ c + (i - c + 1) - 1 = i
    BY <1>1
  <2> QED BY <1>2, <2>1
<1>7. (\E i \in DOMAIN s : s[i].turn = u /\ s[i].role = "assistant")
      <=> (\E i \in DOMAIN h : h[i].turn = u /\ h[i].role = "assistant")
  BY <1>2, <1>5, <1>6
<1>8. ASSUME NEW i \in DOMAIN h, i >= c
      PROVE  AnsweredTo(s, i - c + 1, h[i].n) <=> AnsweredTo(h, i, h[i].n)
  <2>1. s[i - c + 1] = h[i]
    BY <1>6, <1>8
  <2>2. ASSUME NEW k \in 1..h[i].n
        PROVE  (i - c + 1 + k \in DOMAIN s /\ s[i - c + 1 + k] = ToolResult(h[i].turn, k))
               <=> (i + k \in DOMAIN h /\ h[i + k] = ToolResult(h[i].turn, k))
    <3>1. k \in Nat /\ i \in Nat /\ c \in Nat
      BY <1>1
    <3>2. c + (i - c + 1 + k) - 1 = i + k /\ (i + k) - c + 1 = i - c + 1 + k /\ i + k >= c
      BY <1>8, <3>1
    <3>3. i - c + 1 + k \in DOMAIN s => i + k \in DOMAIN h /\ s[i - c + 1 + k] = h[i + k]
      BY <1>2, <3>2
    <3>4. i + k \in DOMAIN h => i - c + 1 + k \in DOMAIN s
      BY <1>6, <3>2
    <3> QED BY <3>3, <3>4
  <2> QED BY <2>1, <2>2 DEF AnsweredTo
<1>9. (\A i \in DOMAIN s : s[i].turn = u /\ s[i].role = "calls" => AnsweredTo(s, i, s[i].n))
      <=> (\A i \in DOMAIN h : h[i].turn = u /\ h[i].role = "calls" => AnsweredTo(h, i, h[i].n))
  <2>1. ASSUME NEW i \in DOMAIN s
        PROVE  /\ c + i - 1 \in DOMAIN h /\ c + i - 1 >= c /\ s[i] = h[c + i - 1]
               /\ i = (c + i - 1) - c + 1
    BY <1>1, <1>2
  <2>2. ASSUME \A x \in DOMAIN h : h[x].turn = u /\ h[x].role = "calls" => AnsweredTo(h, x, h[x].n),
               NEW i \in DOMAIN s, s[i].turn = u, s[i].role = "calls"
        PROVE  AnsweredTo(s, i, s[i].n)
    <3> DEFINE at == c + i - 1
    <3>1. at \in DOMAIN h /\ at >= c /\ s[i] = h[at] /\ i = at - c + 1
      BY <2>1
    <3> HIDE DEF at
    <3>2. AnsweredTo(h, at, h[at].n)
      BY <2>2, <3>1
    <3> QED BY <1>8, <3>1, <3>2
  <2>3. ASSUME \A x \in DOMAIN s : s[x].turn = u /\ s[x].role = "calls" => AnsweredTo(s, x, s[x].n),
               NEW i \in DOMAIN h, h[i].turn = u, h[i].role = "calls"
        PROVE  AnsweredTo(h, i, h[i].n)
    <3>1. i >= c
      BY <1>5, <2>3
    <3>2. i - c + 1 \in DOMAIN s /\ s[i - c + 1] = h[i]
      BY <1>6, <3>1
    <3>3. AnsweredTo(s, i - c + 1, h[i].n)
      BY <2>3, <3>2
    <3> QED BY <1>8, <3>1, <3>3
  <2> QED BY <2>2, <2>3
<1> QED BY <1>7, <1>9 DEF AnsweredTurn, s
\* The user messages at or after one of them are the turns not before its.
LEMMA TurnsFrom ==
  ASSUME NEW h \in Seq(Message), Ordered(h), NEW i \in UserIndices(h)
  PROVE  Cardinality({v \in TurnsIn(h) : v >= h[i].turn}) = Cardinality(UsersFrom(h, i))
<1> DEFINE S == UsersFrom(h, i)
           T == {v \in TurnsIn(h) : v >= h[i].turn}
           f == [j \in S |-> h[j].turn]
<1>1. /\ \A j \in UserIndices(h) : j \in Nat /\ j \in DOMAIN h /\ h[j].turn \in Nat
      /\ IsFiniteSet(UserIndices(h))
  <2>1. \A j \in DOMAIN h : h[j].turn \in Nat
    BY Positions DEF Turns
  <2> QED BY <2>1, HistoryPlaces
<1>2. IsFiniteSet(S)
  BY <1>1, FS_Subset DEF UsersFrom
<1>3. \A j, k \in UserIndices(h) : j < k => h[j].turn < h[k].turn
  BY <1>1 DEF Ordered
<1>4. \A j \in S : j \in UserIndices(h) /\ f[j] = h[j].turn /\ f[j] \in T
  <2> SUFFICES ASSUME NEW j \in S PROVE j \in UserIndices(h) /\ f[j] = h[j].turn /\ f[j] \in T
    OBVIOUS
  <2>1. j \in UserIndices(h) /\ j >= i
    BY DEF UsersFrom
  <2>2. h[j].turn >= h[i].turn
    BY <1>1, <1>3, <2>1
  <2> QED BY <2>1, <2>2 DEF TurnsIn
<1>5. \A j, k \in S : f[j] = f[k] => j = k
  BY <1>1, <1>3, <1>4
<1>6. \A v \in T : \E j \in S : f[j] = v
  <2> SUFFICES ASSUME NEW v \in T PROVE \E j \in S : f[j] = v
    OBVIOUS
  <2>1. PICK j \in UserIndices(h) : v = h[j].turn
    BY DEF TurnsIn
  <2>2. j >= i
    BY <1>1, <1>3, <2>1
  <2>3. j \in S
    BY <2>1, <2>2 DEF UsersFrom
  <2> QED BY <1>4, <2>1, <2>3
<1>7. f \in Bijection(S, T)
  <2>1. f \in [S -> T]
    BY <1>4
  <2> HIDE DEF f, S, T
  <2> QED BY <1>5, <1>6, <2>1, Fun_IsBij
<1>8. ExistsBijection(S, T)
  BY <1>7 DEF ExistsBijection
<1> HIDE DEF S, T
<1>9. Cardinality(T) = Cardinality(S)
  BY <1>2, <1>8, FS_Bijection
<1> QED BY <1>9 DEF S, T

\* Trimming forgets all but the newest turns.
LEMMA TrimNewest ==
  ASSUME NEW h \in Seq(Message), Ordered(h)
  PROVE  /\ TurnsIn(Trim(h)) = Abstract!Newest(TurnsIn(h))
         /\ \A u \in TurnsIn(Trim(h)) : AnsweredTurn(Trim(h), u) <=> AnsweredTurn(h, u)
<1> DEFINE Few(i) == Cardinality(UsersFrom(h, i)) <= MaxHistory
<1>1. Abstract!Newest(TurnsIn(h)) =
        {u \in TurnsIn(h) : Cardinality({v \in TurnsIn(h) : v >= u}) <= MaxHistory}
  BY Zenon DEF Abstract!Newest, Abstract!Cardinality, Cardinality
<1>2. Abstract!Newest(TurnsIn(h)) = {h[i].turn : i \in {j \in UserIndices(h) : Few(j)}}
  <2>1. \A i \in UserIndices(h) :
          Few(i) <=> Cardinality({v \in TurnsIn(h) : v >= h[i].turn}) <= MaxHistory
    BY TurnsFrom
  <2> QED BY <1>1, <2>1 DEF TurnsIn
<1>3. /\ \A i \in UserIndices(h) : i \in Nat /\ i \in 1..Len(h)
      /\ IsFiniteSet(UserIndices(h)) /\ MaxHistory \in Nat \ {0}
  BY HistoryPlaces, LimitsAssumption
<1>4. \A i \in UserIndices(h) : /\ UsersFrom(h, i) \in SUBSET UserIndices(h)
                                /\ IsFiniteSet(UsersFrom(h, i))
                                /\ Cardinality(UsersFrom(h, i)) \in Nat
  BY <1>3, FS_Subset, FS_CardinalityType DEF UsersFrom
<1>5. CASE Trim(h) = h /\ Cardinality(UserIndices(h)) <= MaxHistory
  <2>1. \A i \in UserIndices(h) : Few(i)
    <3> SUFFICES ASSUME NEW i \in UserIndices(h) PROVE Few(i)
      OBVIOUS
    <3>1. Cardinality(UsersFrom(h, i)) <= Cardinality(UserIndices(h))
      BY <1>3, <1>4, FS_Subset
    <3>2. Cardinality(UserIndices(h)) \in Nat
      BY <1>3, FS_CardinalityType
    <3> QED BY <1>3, <1>4, <1>5, <3>1, <3>2
  <2> HIDE DEF Few
  <2>2. {j \in UserIndices(h) : Few(j)} = UserIndices(h)
    BY <2>1
  <2> QED BY <1>2, <1>5, <2>2 DEF TurnsIn
<1>6. ASSUME NEW c \in UserIndices(h), Trim(h) = SubSeq(h, c, Len(h)), Few(c),
             \A k \in UserIndices(h) : k < c => ~Few(k)
      PROVE  /\ TurnsIn(Trim(h)) = Abstract!Newest(TurnsIn(h))
             /\ \A u \in TurnsIn(Trim(h)) : AnsweredTurn(Trim(h), u) <=> AnsweredTurn(h, u)
  <2> DEFINE s == SubSeq(h, c, Len(h))
  <2>1. \A i \in UserIndices(h) : Few(i) <=> i >= c
    <3> SUFFICES ASSUME NEW i \in UserIndices(h), i >= c PROVE Few(i)
      BY <1>3, <1>6
    <3>1. UsersFrom(h, i) \in SUBSET UsersFrom(h, c)
      BY <1>3 DEF UsersFrom
    <3>2. Cardinality(UsersFrom(h, i)) <= Cardinality(UsersFrom(h, c))
      BY <1>4, <3>1, FS_Subset
    <3> QED BY <1>3, <1>4, <1>6, <3>2
  <2>2. {j \in UserIndices(h) : Few(j)} = UsersFrom(h, c)
    <3> HIDE DEF Few
    <3> QED BY <2>1 DEF UsersFrom
  <2>3. UserIndices(s) = {j - c + 1 : j \in UsersFrom(h, c)}
    <3>1. \A m \in Message : m.turn \in Nat
      BY DEF Message, Turns
    <3> QED BY <3>1, OrderedSuffix
  <2>4. \A j \in UsersFrom(h, c) : s[j - c + 1] = h[j]
    <3> SUFFICES ASSUME NEW j \in UsersFrom(h, c) PROVE s[j - c + 1] = h[j]
      OBVIOUS
    <3>1. j \in 1..Len(h) /\ j >= c /\ c \in 1..Len(h) /\ Len(h) \in Nat
      BY <1>3, Positions DEF UsersFrom
    <3>2. j - c + 1 \in 1..(Len(h) - c + 1) /\ c + (j - c + 1) - 1 = j
      BY <3>1
    <3> HIDE DEF s
    <3>3. \A i \in 1..(Len(h) - c + 1) : s[i] = h[c + i - 1]
      BY <3>1, SuffixIs DEF s
    <3> QED BY <3>2, <3>3
  <2> HIDE DEF s
  <2>5. TurnsIn(s) = {h[j].turn : j \in UsersFrom(h, c)}
    BY <2>3, <2>4 DEF TurnsIn
  <2>6. \A u \in TurnsIn(s) : AnsweredTurn(s, u) <=> AnsweredTurn(h, u)
    BY LaterTurns DEF s
  <2>7. Trim(h) = s
    BY <1>6 DEF s
  <2> QED BY <1>2, <2>2, <2>5, <2>6, <2>7
<1>7. \/ Trim(h) = h /\ Cardinality(UserIndices(h)) <= MaxHistory
      \/ \E c \in UserIndices(h) :
           /\ Trim(h) = SubSeq(h, c, Len(h)) /\ Few(c)
           /\ \A k \in UserIndices(h) : k < c => ~Few(k)
  BY <1>3, LastTurnsIsSuffix DEF Trim
<1> HIDE DEF Few
<1> QED BY <1>5, <1>6, <1>7
-----------------------------------------------------------------------------
(* The turn under way, apart from what was there before it *)

\* The history h of a turn u that began when it was b, of length n: its user
\* message, then tool rounds.
UnderWay(h, b, n, u) ==
  /\ Len(b) = n /\ n < Len(h)
  /\ \A i \in 1..n : b[i] = h[i] /\ h[i].turn < u
  /\ h[n + 1].role = "user"
  /\ \A i \in DOMAIN h : i > n => /\ h[i].turn = u /\ h[i].role # "assistant"
                                  /\ (h[i].role = "user" => i = n + 1)

MemoryInv ==
  /\ Ordered(history)
  /\ pc \in Working => UnderWay(history, before, turnStart, turn)
  /\ pc = "stream" => Paired(history)

LEMMA MessageNat == \A m \in Message : m.turn \in Nat
BY DEF Message, Turns

\* A turn begins ...
LEMMA Begins ==
  ASSUME NEW h \in Seq(Message), Ordered(h), NEW u, \A i \in DOMAIN h : h[i].turn < u,
         NEW m \in Message, m.role = "user", m.turn = u
  PROVE  Ordered(Append(h, m)) /\ UnderWay(Append(h, m), h, Len(h), u)
<1>1. Ordered(Append(h, m))
  BY OrderedAppend, MessageNat
<1>2. UnderWay(Append(h, m), h, Len(h), u)
  <2> DEFINE g == Append(h, m)
  <2>1. /\ Len(g) = Len(h) + 1 /\ DOMAIN g = 1..(Len(h) + 1) /\ g[Len(h) + 1] = m
        /\ \A i \in DOMAIN h : g[i] = h[i]
        /\ DOMAIN h = 1..Len(h) /\ Len(h) \in Nat
    BY Appended, Positions
  <2> HIDE DEF g
  <2>2. UnderWay(g, h, Len(h), u)
    BY <2>1 DEF UnderWay
  <2> QED BY <2>2 DEF g
<1> QED BY <1>1, <1>2

\* ... and goes on.
LEMMA GoesOn ==
  ASSUME NEW h \in Seq(Message), Ordered(h), NEW b, NEW n \in Nat, NEW u, UnderWay(h, b, n, u),
         NEW m \in Message, m.role # "user", m.turn = u
  PROVE  /\ Ordered(Append(h, m))
         /\ m.role # "assistant" => UnderWay(Append(h, m), b, n, u)
<1>1. /\ DOMAIN h = 1..Len(h) /\ Len(h) \in Nat /\ n < Len(h)
  BY Positions DEF UnderWay
<1>2. h # <<>> /\ m.turn = h[Len(h)].turn
  <2>1. h # <<>>
    BY <1>1, EmptySeq
  <2>2. Len(h) \in DOMAIN h /\ Len(h) > n
    BY <1>1
  <2> QED BY <2>1, <2>2 DEF UnderWay
<1>3. Ordered(Append(h, m))
  BY <1>2, OrderedAppend, MessageNat
<1>4. ASSUME m.role # "assistant" PROVE UnderWay(Append(h, m), b, n, u)
  <2> DEFINE g == Append(h, m)
  <2>1. /\ Len(g) = Len(h) + 1 /\ DOMAIN g = 1..(Len(h) + 1) /\ g[Len(h) + 1] = m
        /\ \A i \in DOMAIN h : g[i] = h[i]
    BY Appended
  <2> HIDE DEF g
  <2>2. \A i \in DOMAIN g : i \in DOMAIN h \/ i = Len(h) + 1
    BY <1>1, <2>1
  <2>3. \A i \in 1..n : i \in DOMAIN h
    BY <1>1
  <2>4. n + 1 \in DOMAIN h
    BY <1>1
  <2>5. UnderWay(g, b, n, u)
    BY <1>1, <1>4, <2>1, <2>2, <2>3, <2>4 DEF UnderWay
  <2> QED BY <2>5 DEF g
<1> QED BY <1>3, <1>4

\* What a turn under way has added, a reply or not, changes no turn before it.
LEMMA TurnUnderWay ==
  ASSUME NEW h \in Seq(Message), NEW b \in Seq(Message), NEW n \in Nat, NEW u \in Nat,
         UnderWay(h, b, n, u),
         NEW g \in Seq(Message), Len(h) <= Len(g), \A i \in 1..Len(h) : g[i] = h[i],
         \A i \in DOMAIN g : i > Len(h) => g[i].turn = u /\ g[i].role # "user"
  PROVE  /\ TurnsIn(g) = TurnsIn(b) \union {u}
         /\ \A v \in TurnsIn(b) : v < u /\ (AnsweredTurn(g, v) <=> AnsweredTurn(b, v))
<1>1. /\ DOMAIN h = 1..Len(h) /\ Len(h) \in Nat /\ DOMAIN b = 1..Len(b) /\ Len(b) = n
      /\ DOMAIN g = 1..Len(g) /\ Len(g) \in Nat /\ n < Len(h)
      /\ \A i \in DOMAIN h : h[i].turn \in Nat
  <2>1. \A i \in DOMAIN h : h[i].turn \in Nat
    BY Positions, MessageNat
  <2> QED BY <2>1, Positions DEF UnderWay
<1>2. \A i \in DOMAIN b : i \in DOMAIN g /\ b[i] = g[i] /\ b[i].turn < u
  BY <1>1 DEF UnderWay
<1>3. \A i \in DOMAIN g : i > n => g[i].turn = u /\ (g[i].role = "user" => i = n + 1)
  <2> SUFFICES ASSUME NEW i \in DOMAIN g, i > n
               PROVE  g[i].turn = u /\ (g[i].role = "user" => i = n + 1)
    OBVIOUS
  <2>1. CASE i \in DOMAIN h
    BY <1>1, <2>1 DEF UnderWay
  <2>2. CASE i > Len(h)
    BY <2>2
  <2> QED BY <1>1, <2>1, <2>2
<1>4. n + 1 \in DOMAIN g /\ g[n + 1].role = "user"
  BY <1>1 DEF UnderWay
<1>5. \A i \in DOMAIN g : i \in DOMAIN b \/ i > n
  BY <1>1
<1>6. UserIndices(g) = UserIndices(b) \union {n + 1}
  BY <1>1, <1>2, <1>3, <1>4, <1>5 DEF UserIndices
<1>7. \A i \in UserIndices(b) : i \in DOMAIN b
  BY DEF UserIndices
<1>8. g[n + 1].turn = u
  BY <1>1, <1>3, <1>4
<1>9. TurnsIn(g) = TurnsIn(b) \union {u}
  BY <1>2, <1>6, <1>7, <1>8 DEF TurnsIn
<1>10. \A v \in TurnsIn(b) : v < u
  BY <1>2, <1>7 DEF TurnsIn
<1>11. ASSUME NEW v \in TurnsIn(b) PROVE AnsweredTurn(g, v) <=> AnsweredTurn(b, v)
  <2>1. v # u /\ v \in Nat
    <3>1. PICK i \in UserIndices(b) : v = b[i].turn
      BY DEF TurnsIn
    <3>2. i \in DOMAIN h /\ b[i] = h[i] /\ h[i].turn < u
      BY <1>1, <1>7, <3>1 DEF UnderWay
    <3> QED BY <1>1, <3>1, <3>2
  <2>2. Len(b) <= Len(g) /\ \A i \in 1..Len(b) : g[i] = b[i]
    BY <1>1, <1>2
  <2>3. \A i \in DOMAIN g : i > Len(b) => g[i].turn = u
    BY <1>1, <1>3
  <2> QED BY <2>1, <2>2, <2>3, OtherTurns
<1> QED BY <1>9, <1>10, <1>11
LEMMA MemoryInit == Init => MemoryInv
<1> SUFFICES ASSUME Init PROVE MemoryInv
  OBVIOUS
<1>1. history = <<>> /\ DOMAIN history = {} /\ pc = "idle"
  BY DEF Init
<1> QED BY <1>1 DEF MemoryInv, Ordered, Working

\* Everything the steps need to know.
LEMMA TurnFacts ==
  ASSUME Shape, TraceInv, MemoryInv
  PROVE  /\ history \in Seq(Message) /\ Len(history) \in Nat /\ DOMAIN history = 1..Len(history)
         /\ before \in Seq(Message) /\ turn \in Nat /\ turnStart \in Nat
         /\ pc # "idle" => turn \in Turns
         /\ \A i \in DOMAIN history : history[i].turn \in Nat /\ history[i].turn <= turn
         /\ Ordered(history)
<1>1. before \in Seq(Message)
  BY DEF Shape, TypeOK
<1>2. \A i \in DOMAIN history : history[i].turn \in Nat
  BY Facts, Positions, MessageNat
<1> QED BY <1>1, <1>2, Facts DEF Shape, TraceInv, MemoryInv

\* What is dropped is what the turn had added.
LEMMA DroppedIsBefore ==
  ASSUME Shape, TraceInv, MemoryInv, pc \in Working
  PROVE  Dropped = before /\ Ordered(Dropped)
<1>1. UnderWay(history, before, turnStart, turn) /\ turnStart < Len(history)
  BY DEF MemoryInv, UnderWay
<1>2. /\ Dropped \in Seq(Message) /\ Len(Dropped) = turnStart
      /\ \A i \in 1..turnStart : Dropped[i] = history[i]
  BY <1>1, DroppedKeeps DEF Shape
<1>3. \A i \in 1..turnStart : before[i] = history[i]
  BY <1>1 DEF UnderWay
<1>4. before \in Seq(Message) /\ Len(before) = turnStart
  BY <1>1, TurnFacts DEF UnderWay
<1>5. Dropped = before
  BY <1>2, <1>3, <1>4, SeqEqual
<1>6. turnStart \in 0..Len(history)
  BY <1>1, TurnFacts
<1>7. Ordered(Dropped)
  BY <1>6, TurnFacts, OrderedPrefix DEF Dropped
<1> QED BY <1>5, <1>7

\* The messages a turn adds before its reply.
LEMMA AddsTo ==
  ASSUME Shape, TraceInv, MemoryInv, pc \in Working, UNCHANGED <<before, turnStart, turn>>,
         NEW m \in Message, m.turn = turn, m.role \notin {"user", "assistant"},
         history' = Append(history, m), pc' # "stream"
  PROVE  MemoryInv'
<1>1. Ordered(history') /\ UnderWay(history', before, turnStart, turn)
  BY TurnFacts, GoesOn DEF MemoryInv
<1>2. Ordered(history)' /\ UnderWay(history, before, turnStart, turn)'
  BY <1>1 DEF Ordered, UserIndices, UnderWay
<1> QED BY <1>2 DEF MemoryInv

LEMMA Drops ==
  ASSUME Shape, TraceInv, MemoryInv, pc \in Working, history' = Dropped,
         pc' \notin Working
  PROVE  MemoryInv'
<1>1. Ordered(history')
  BY DroppedIsBefore
<1>2. Ordered(history)'
  BY <1>1 DEF Ordered, UserIndices
<1> QED BY <1>2 DEF MemoryInv, Working

\* Steps of which the history knows nothing.
LEMMA MemoryKept ==
  ASSUME MemoryInv, UNCHANGED <<history, before, turnStart, turn>>,
         pc' \in Working => pc \in Working,
         pc' = "stream" => pc = "stream" \/ Paired(history)
  PROVE  MemoryInv'
<1>1. Paired(history) => Paired(history)'
  BY DEF Paired, Dangling
<1> QED BY <1>1 DEF MemoryInv, Ordered, UserIndices, UnderWay

LEMMA MemoryStep ==
  Shape /\ Shape' /\ TraceInv /\ MemoryInv /\ [Next]_vars => MemoryInv'
<1> SUFFICES ASSUME Shape, Shape', TraceInv, MemoryInv, [Next]_vars PROVE MemoryInv'
  OBVIOUS
<1>1. CASE Utterance
  <2> DEFINE m == [role |-> "user", turn |-> turn + 1, n |-> 0]
  <2>1. /\ turn' = turn + 1 /\ turnStart' = Len(history) /\ pc' = "llm" /\ before' = history
        /\ history' = Append(history, m)
    BY <1>1 DEF Utterance, Send
  <2>2. m \in Message /\ m.turn = turn + 1 /\ m.role = "user"
    BY <1>1, Facts, LimitsAssumption DEF Utterance, Message, Turns
  <2> HIDE DEF m
  <2>3. \A i \in DOMAIN history : history[i].turn < turn + 1
    BY TurnFacts
  <2>4. Ordered(history') /\ UnderWay(history', before', turnStart', turn')
    BY <2>1, <2>2, <2>3, Begins, TurnFacts
  <2>5. Ordered(history)' /\ UnderWay(history, before, turnStart, turn)'
    BY <2>4 DEF Ordered, UserIndices, UnderWay
  <2> QED BY <2>1, <2>5 DEF MemoryInv
<1>2. CASE UtteranceOverLimit
  <2>1. history' = history /\ pc' = "say"
    BY <1>2 DEF UtteranceOverLimit
  <2> QED BY <2>1 DEF MemoryInv, Ordered, UserIndices, Working
<1>3. CASE Retry \/ Connect \/ StreamText \/ EndTurn \/ CutIn
  BY <1>3, MemoryKept DEF Retry, Connect, StreamText, EndTurn, CutIn, turns, Working
<1>4. CASE Answer
  <2> PICK w \in {0, 1} : history' = Trim(Append(history, Msg("assistant", w)))
    BY <1>4 DEF Answer
  <2> DEFINE m == Msg("assistant", w)
  <2>1. /\ history' = Trim(Append(history, m)) /\ pc \in Working /\ pc # "idle"
        /\ pc' \in {"say", "idle"}
    BY <1>4 DEF Answer, Working
  <2>2. m \in Message /\ m.turn = turn /\ m.role = "assistant"
    BY <2>1, TurnFacts, MsgTyped
  <2> HIDE DEF m
  <2>3. Ordered(Append(history, m)) /\ Append(history, m) \in Seq(Message)
    BY <2>1, <2>2, TurnFacts, GoesOn, Appended DEF MemoryInv
  <2>4. Ordered(history')
    BY <2>1, <2>3, LastTurnsOrdered, MessageNat, LimitsAssumption DEF Trim
  <2>5. Ordered(history)'
    BY <2>4 DEF Ordered, UserIndices
  <2> QED BY <2>1, <2>5 DEF MemoryInv, Working
<1>5. CASE CallTools
  <2>1. PICK n \in 1..MaxCalls : history' = Append(history, Msg("calls", n))
    BY <1>5 DEF CallTools
  <2>2. pc \in Working /\ pc' = "tools" /\ UNCHANGED <<before, turnStart, turn>> /\ turn \in Turns
    BY <1>5, TurnFacts DEF CallTools, turns, Working
  <2>3. /\ Msg("calls", n) \in Message /\ Msg("calls", n).turn = turn
        /\ Msg("calls", n).role = "calls"
    BY <2>2, MsgTyped, LimitsAssumption
  <2> QED BY <2>1, <2>2, <2>3, AddsTo
<1>6. CASE ToolEnds
  <2> DEFINE m == Msg("tool", batch.done + 1)
  <2>1. pc \in Working /\ turn \in Turns /\ UNCHANGED <<before, turnStart, turn>>
    BY <1>6, TurnFacts DEF ToolEnds, turns, Working
  <2>2. m \in Message /\ m.turn = turn /\ m.role = "tool"
    BY <2>1, Facts, MsgTyped
  <2>3. \/ history' = Append(history, m) /\ pc' # "stream"
        \/ history' = Dropped /\ pc' \notin Working
    BY <1>6 DEF ToolEnds, Send, Working
  <2> HIDE DEF m
  <2> QED BY <2>1, <2>2, <2>3, AddsTo, Drops
<1>7. CASE LLMFails
  <2>1. history' = Dropped /\ pc \in Working /\ pc' \notin Working
    BY <1>7 DEF LLMFails, Working
  <2> QED BY <2>1, Drops
<1>8. CASE TimeUp \/ HangUp \/ (\E u \in Turns : Lookup(u) \/ Transfer(u))
  BY <1>8, MemoryKept DEF TimeUp, HangUp, Lookup, Transfer, conversation, turns
<1>9. CASE UNCHANGED vars
  BY <1>9, MemoryKept DEF vars
<1> QED
  BY <1>1, <1>2, <1>3, <1>4, <1>5, <1>6, <1>7, <1>8, <1>9 DEF Next, Proceed
-----------------------------------------------------------------------------
(* The steps of Dialogue *)

LEMMA SameTruth == ASSUME NEW a \in BOOLEAN, NEW b \in BOOLEAN, a <=> b PROVE a = b
OBVIOUS

LEMMA TurnsOfIs ==
  ASSUME NEW h \in Seq(Message), ResultsFollow(h)
  PROVE  TurnsOf(h) = [u \in TurnsIn(h) |-> AnsweredTurn(h, u)]
<1>1. ASSUME NEW u PROVE Whole(h, u) = AnsweredTurn(h, u)
  <2>1. Whole(h, u) <=> AnsweredTurn(h, u)
    BY WholeIs
  <2>2. Whole(h, u) \in BOOLEAN /\ AnsweredTurn(h, u) \in BOOLEAN
    BY Zenon DEF Whole, AnsweredTurn
  <2> QED BY <2>1, <2>2, SameTruth
<1> QED BY <1>1, Zenon DEF TurnsOf

\* What the memory is before and after a step.
MemoryShown ==
  /\ pc \in Working => Memory = TurnsOf(before)
  /\ pc \notin Working => Memory = TurnsOf(history)

LEMMA MemoryNow == MemoryShown
BY DEF MemoryShown, Memory, Working

LEMMA MemoryNext ==
  /\ pc' \in Working => Memory' = TurnsOf(before')
  /\ pc' \notin Working => Memory' = TurnsOf(history')
<1>1. /\ pc' \in Working => Memory' = TurnsOf(before)'
      /\ pc' \notin Working => Memory' = TurnsOf(history)'
  <2>1. MemoryShown'
    BY MemoryNow, PTL
  <2> QED BY <2>1 DEF MemoryShown
<1>2. TurnsOf(before)' = TurnsOf(before')
  BY Zenon DEF TurnsOf, TurnsIn, UserIndices, Whole, Dangling
<1>3. TurnsOf(history)' = TurnsOf(history')
  BY Zenon DEF TurnsOf, TurnsIn, UserIndices, Whole, Dangling
<1> QED BY <1>1, <1>2, <1>3

\* The turns before the one under way have their results after their calls too.
LEMMA BeforeFollows ==
  ASSUME Shape, PairInv, MemoryInv, pc \in Working
  PROVE  before \in Seq(Message) /\ ResultsFollow(before)
<1>1. UnderWay(history, before, turnStart, turn)
  BY DEF MemoryInv
<1>2. /\ history \in Seq(Message) /\ turnStart \in Nat /\ before \in Seq(Message)
      /\ DOMAIN before = 1..turnStart /\ DOMAIN history = 1..Len(history)
      /\ Len(history) \in Nat /\ turnStart < Len(history)
      /\ \A i \in 1..turnStart : before[i] = history[i]
      /\ history[turnStart + 1].role = "user"
  BY <1>1, Facts, LenProperties DEF Shape, TypeOK, UnderWay
<1>3. Sound(history, Turns, 0)
  BY Positions, Facts DEF PairInv, Sound, CallsAnswered
<1>4. 0 \notin 1..turnStart
  BY <1>2
<1>5. Sound(before, Turns, 0)
  BY <1>2, <1>3, <1>4, PrefixSound
<1> QED BY <1>2, <1>5 DEF Sound

\* The memory while a turn is under way, and in every other state.
LEMMA MemoryOf ==
  ASSUME Shape, PairInv, MemoryInv
  PROVE  /\ pc \in Working => Memory = [v \in TurnsIn(before) |-> AnsweredTurn(before, v)]
         /\ pc \notin Working => Memory = [v \in TurnsIn(history) |-> AnsweredTurn(history, v)]
<1>1. history \in Seq(Message) /\ ResultsFollow(history)
  BY Facts DEF PairInv, Sound
<1> QED BY <1>1, BeforeFollows, TurnsOfIs, MemoryNow DEF MemoryShown

\* The memory after a step that ends the turn under way with the history g, which
\* is what it was and perhaps a reply, before g is trimmed.
LEMMA TurnOver ==
  ASSUME Shape, TraceInv, PairInv, MemoryInv, pc \in Working,
         NEW g \in Seq(Message), Len(history) <= Len(g),
         \A i \in 1..Len(history) : g[i] = history[i],
         \A i \in DOMAIN g : i > Len(history) => g[i].turn = turn /\ g[i].role # "user"
  PROVE  /\ Abstract!Newer(turn)
         /\ TurnsIn(g) = DOMAIN Memory \union {turn}
         /\ \A v \in DOMAIN Memory : v # turn /\ Memory[v] = AnsweredTurn(g, v)
<1>1. Memory = [v \in TurnsIn(before) |-> AnsweredTurn(before, v)]
  BY MemoryOf
<1>2. UnderWay(history, before, turnStart, turn)
  BY DEF MemoryInv
<1>3. /\ TurnsIn(g) = TurnsIn(before) \union {turn}
      /\ \A v \in TurnsIn(before) : v < turn /\ (AnsweredTurn(g, v) <=> AnsweredTurn(before, v))
  BY <1>2, TurnFacts, TurnUnderWay
<1>4. DOMAIN Memory = TurnsIn(before)
  BY <1>1
<1>5. Abstract!Newer(turn)
  BY <1>3, <1>4 DEF Abstract!Newer
<1>6. \A v \in DOMAIN Memory : v # turn
  BY <1>3, <1>4, TurnFacts
<1>7. ASSUME NEW v \in DOMAIN Memory PROVE Memory[v] = AnsweredTurn(g, v)
  <2>1. Memory[v] = AnsweredTurn(before, v)
    BY <1>1, <1>4
  <2>2. AnsweredTurn(before, v) \in BOOLEAN /\ AnsweredTurn(g, v) \in BOOLEAN
    BY Zenon DEF AnsweredTurn
  <2>3. AnsweredTurn(g, v) <=> AnsweredTurn(before, v)
    BY <1>3, <1>4
  <2>4. AnsweredTurn(before, v) = AnsweredTurn(g, v)
    BY <2>2, <2>3, SameTruth
  <2> QED BY <2>1, <2>4
<1> QED BY <1>3, <1>4, <1>5, <1>6, <1>7

\* A reply is one step of the dialogue: the turn is remembered whole, and the
\* turns it leaves no room for are forgotten.
LEMMA AnswerRemembers ==
  ASSUME Shape, Shape', TraceInv, PairInv, PairInv', MemoryInv, MemoryInv', Answer
  PROVE  Abstract!Answer(turn)
<1> PICK w \in {0, 1} : history' = Trim(Append(history, Msg("assistant", w)))
  BY DEF Answer
<1> DEFINE m == Msg("assistant", w)
           g == Append(history, m)
<1>1. pc \in Working /\ pc # "idle" /\ history' = Trim(g) /\ pc' \notin Working
  BY DEF Answer, Working
<1>2. m \in Message /\ m.turn = turn /\ m.role = "assistant"
  BY <1>1, TurnFacts, MsgTyped
<1> HIDE DEF m
<1>3. /\ g \in Seq(Message) /\ Len(g) = Len(history) + 1 /\ DOMAIN g = 1..(Len(history) + 1)
      /\ \A i \in DOMAIN history : g[i] = history[i]
      /\ g[Len(history) + 1] = m
  BY <1>2, Appended, TurnFacts
<1>4. Ordered(g)
  BY <1>1, <1>2, TurnFacts, GoesOn DEF MemoryInv
<1> HIDE DEF g
<1>5. /\ Abstract!Newer(turn) /\ TurnsIn(g) = DOMAIN Memory \union {turn}
      /\ \A v \in DOMAIN Memory : v # turn /\ Memory[v] = AnsweredTurn(g, v)
  <2>1. /\ Len(history) <= Len(g) /\ \A i \in 1..Len(history) : g[i] = history[i]
        /\ \A i \in DOMAIN g : i > Len(history) => g[i] = m
    BY <1>3, TurnFacts
  <2>2. \A i \in DOMAIN g : i > Len(history) => g[i].turn = turn /\ g[i].role # "user"
    BY <1>2, <2>1
  <2> QED BY <1>1, <1>3, <2>1, <2>2, TurnOver
<1>6. AnsweredTurn(g, turn)
  <2>1. history \in Seq(Message) /\ ResultsFollow(history) /\ Paired(history)
    BY Facts DEF PairInv, Sound, MemoryInv, Answer
  <2>2. \A i \in DOMAIN history :
          history[i].role = "calls" => AnsweredTo(history, i, history[i].n)
    BY <2>1 DEF Paired, Dangling, AnsweredTo, ToolResult
  <2>3. Len(history) + 1 \in DOMAIN g
    BY <1>3, TurnFacts
  <2>4. \A i \in DOMAIN history : i \in DOMAIN g /\ g[i] = history[i]
    BY <1>3, TurnFacts
  <2>5. \A i \in DOMAIN g : g[i].role = "calls" => i \in DOMAIN history
    BY <1>2, <1>3, TurnFacts
  <2>6. \A i \in DOMAIN g : g[i].role = "calls" => AnsweredTo(g, i, g[i].n)
    BY <2>2, <2>4, <2>5 DEF AnsweredTo
  <2> QED BY <1>2, <1>3, <2>3, <2>6 DEF AnsweredTurn
<1>7. Memory' = [v \in TurnsIn(Trim(g)) |-> AnsweredTurn(Trim(g), v)]
  <2>1. history' \in Seq(Message) /\ ResultsFollow(history')
    <3>1. (history \in Seq(Message) /\ ResultsFollow(history))'
      BY Facts, PTL DEF PairInv, Sound
    <3> QED BY <3>1 DEF ResultsFollow, Follows
  <2> QED BY <1>1, <2>1, TurnsOfIs, MemoryNext
<1>8. TurnsIn(Trim(g)) = Abstract!Newest(DOMAIN Memory \union {turn})
  BY <1>3, <1>4, <1>5, TrimNewest
<1>9. \A v \in TurnsIn(Trim(g)) :
        AnsweredTurn(Trim(g), v) = IF v = turn THEN TRUE ELSE Memory[v]
  <2> SUFFICES ASSUME NEW v \in TurnsIn(Trim(g))
               PROVE  AnsweredTurn(Trim(g), v) = IF v = turn THEN TRUE ELSE Memory[v]
    OBVIOUS
  <2>1. v \in DOMAIN Memory \union {turn}
    BY <1>8 DEF Abstract!Newest
  <2>2. AnsweredTurn(Trim(g), v) = AnsweredTurn(g, v)
    <3>1. AnsweredTurn(Trim(g), v) \in BOOLEAN /\ AnsweredTurn(g, v) \in BOOLEAN
      BY Zenon DEF AnsweredTurn
    <3> QED BY <1>3, <1>4, <3>1, TrimNewest, SameTruth
  <2>3. CASE v = turn
    <3>1. AnsweredTurn(g, v) = TRUE
      BY <1>6, <2>3, Zenon
    <3> QED BY <2>2, <2>3, <3>1, Zenon
  <2>4. CASE v \in DOMAIN Memory
    BY <1>5, <2>2, <2>4, Zenon
  <2> QED BY <2>1, <2>3, <2>4
<1>10. Memory' = [v \in Abstract!Newest(DOMAIN Memory \union {turn}) |->
                    IF v = turn THEN TRUE ELSE Memory[v]]
  BY <1>7, <1>8, <1>9, Zenon
<1> QED BY <1>5, <1>10, Zenon DEF Abstract!Answer, Abstract!Remember

\* A caller who cuts in leaves the turn in memory, but not whole.
LEMMA CutOffRemembers ==
  ASSUME Shape, Shape', TraceInv, PairInv, PairInv', MemoryInv, MemoryInv', CutIn, pc \in Working
  PROVE  Abstract!CutOff(turn)
<1>1. history' = history /\ pc' \notin Working
  BY DEF CutIn, Working
<1>2. /\ Abstract!Newer(turn) /\ TurnsIn(history) = DOMAIN Memory \union {turn}
      /\ \A v \in DOMAIN Memory : v # turn /\ Memory[v] = AnsweredTurn(history, v)
  <2>1. history \in Seq(Message) /\ \A i \in DOMAIN history : ~(i > Len(history))
    BY TurnFacts
  <2>2. Len(history) <= Len(history)
    BY TurnFacts
  <2> QED BY <2>1, <2>2, TurnOver
<1>3. ~AnsweredTurn(history, turn)
  <2>1. UnderWay(history, before, turnStart, turn)
    BY DEF MemoryInv
  <2>2. \A i \in DOMAIN history : history[i].turn = turn => i > turnStart
    <3>1. \A i \in 1..turnStart : history[i].turn < turn
      BY <2>1 DEF UnderWay
    <3>2. \A i \in DOMAIN history : i \in 1..turnStart \/ i > turnStart
      BY TurnFacts
    <3> QED BY <3>1, <3>2, TurnFacts
  <2> QED BY <2>1, <2>2 DEF AnsweredTurn, UnderWay
<1>4. Memory' = [v \in TurnsIn(history) |-> AnsweredTurn(history, v)]
  <2>1. history \in Seq(Message) /\ ResultsFollow(history)
    BY Facts DEF PairInv, Sound
  <2> QED BY <1>1, <2>1, TurnsOfIs, MemoryNext
<1>5. \A v \in TurnsIn(history) :
        AnsweredTurn(history, v) = IF v = turn THEN FALSE ELSE Memory[v]
  <2> SUFFICES ASSUME NEW v \in TurnsIn(history)
               PROVE  AnsweredTurn(history, v) = IF v = turn THEN FALSE ELSE Memory[v]
    OBVIOUS
  <2>1. CASE v = turn
    <3>1. AnsweredTurn(history, v) \in BOOLEAN
      BY Zenon DEF AnsweredTurn
    <3>2. AnsweredTurn(history, v) = FALSE
      BY <1>3, <2>1, <3>1, Zenon
    <3> QED BY <2>1, <3>2, Zenon
  <2>2. CASE v \in DOMAIN Memory
    BY <1>2, <2>2, Zenon
  <2> QED BY <1>2, <2>1, <2>2
<1>6. Memory' = [v \in DOMAIN Memory \union {turn} |-> IF v = turn THEN FALSE ELSE Memory[v]]
  BY <1>2, <1>4, <1>5, Zenon
<1> QED BY <1>2, <1>6, Zenon DEF Abstract!CutOff, Abstract!Remember

\* A step of which the memory knows nothing: the turn goes on with the same past,
\* or begins, or ends as if it had not been, or none is under way.
LEMMA MemoryStutters ==
  ASSUME Shape, PairInv, TraceInv, MemoryInv,
         \/ pc \in Working /\ pc' \in Working /\ before' = before
         \/ pc \notin Working /\ pc' \in Working /\ before' = history
         \/ pc \in Working /\ pc' \notin Working /\ history' = before
         \/ pc \notin Working /\ pc' \notin Working /\ history' = history
  PROVE  UNCHANGED Memory
BY MemoryNow, MemoryNext DEF MemoryShown

LEMMA DialogueStep ==
  Shape /\ Shape' /\ TraceInv /\ PairInv /\ PairInv' /\ MemoryInv /\ MemoryInv' /\ [Next]_vars
  => [Abstract!Next]_Memory
<1> SUFFICES ASSUME Shape, Shape', TraceInv, PairInv, PairInv', MemoryInv, MemoryInv', [Next]_vars
             PROVE  [Abstract!Next]_Memory
  OBVIOUS
<1>1. CASE Utterance
  <2>1. pc \notin Working /\ pc' \in Working /\ before' = history
    BY <1>1 DEF Utterance, Send, Working
  <2> QED BY <2>1, MemoryStutters
<1>2. CASE UtteranceOverLimit \/ EndTurn \/ (CutIn /\ pc \notin Working)
  <2>1. pc \notin Working /\ pc' \notin Working /\ history' = history
    BY <1>2 DEF UtteranceOverLimit, EndTurn, CutIn, Working
  <2> QED BY <2>1, MemoryStutters
<1>3. CASE Retry \/ Connect \/ StreamText \/ CallTools
  <2>1. pc \in Working /\ pc' \in Working /\ before' = before
    BY <1>3 DEF Retry, Connect, StreamText, CallTools, turns, Working
  <2> QED BY <2>1, MemoryStutters
<1>4. CASE Answer
  <2>1. turn \in Turns
    BY <1>4, TurnFacts DEF Answer
  <2>2. Abstract!Answer(turn)
    BY <1>4, AnswerRemembers
  <2> QED BY <2>1, <2>2 DEF Abstract!Next
<1>5. CASE ToolEnds
  <2>1. pc \in Working /\ before' = before
    BY <1>5 DEF ToolEnds, turns, Working
  <2>2. pc' \in Working \/ (history' = Dropped /\ pc' \notin Working)
    BY <1>5 DEF ToolEnds, Send, Working
  <2> QED BY <2>1, <2>2, DroppedIsBefore, MemoryStutters
<1>6. CASE LLMFails
  <2>1. pc \in Working /\ pc' \notin Working /\ history' = Dropped
    BY <1>6 DEF LLMFails, Working
  <2> QED BY <2>1, DroppedIsBefore, MemoryStutters
<1>7. CASE CutIn /\ pc \in Working
  <2>1. turn \in Turns
    BY <1>7, TurnFacts DEF Working
  <2>2. Abstract!CutOff(turn)
    BY <1>7, CutOffRemembers
  <2> QED BY <2>1, <2>2 DEF Abstract!Next
<1>8. CASE TimeUp \/ HangUp \/ (\E u \in Turns : Lookup(u) \/ Transfer(u)) \/ UNCHANGED vars
  <2>1. pc' = pc /\ before' = before /\ history' = history
    BY <1>8 DEF TimeUp, HangUp, Lookup, Transfer, conversation, turns, vars
  <2> QED BY <2>1, MemoryStutters
<1> QED
  BY <1>1, <1>2, <1>3, <1>4, <1>5, <1>6, <1>7, <1>8 DEF Next, Proceed

LEMMA DialogueInit == Init => Abstract!Init
<1> SUFFICES ASSUME Init PROVE Abstract!Init
  OBVIOUS
<1>1. pc \notin Working /\ UserIndices(history) = {}
  BY DEF Init, Working, UserIndices
<1>2. TurnsIn(history) = {}
  BY <1>1 DEF TurnsIn
<1>3. Memory = [u \in {} |-> Whole(history, u)]
  BY <1>1, <1>2, MemoryNow DEF MemoryShown, TurnsOf
<1>4. Memory = [u \in {} |-> TRUE]
  BY <1>3
<1> QED BY <1>4 DEF Abstract!Init

\* The invariants of a conversation, together.
LEMMA MemoryHolds == Spec => [](Shape /\ TraceInv /\ PairInv /\ MemoryInv)
<1>1. Init => TraceInv
  BY DEF Init, TraceInv, UnansweredTurnLeavesNoTrace, Working
<1> QED
  BY <1>1, ShapeHolds, TraceStep, PairInit, PairStep, MemoryInit, MemoryStep, PTL DEF Spec

\* For any limits, and whatever was cut off, dropped and trimmed: the two wire formats
\* of a request are refused for a call without its results or a result without its
\* call, and for nothing else, except that Anthropic also refuses one in which an
\* empty answer is remembered.
THEOREM VendorsDividedHolds == Spec => []OnlyEmptyAnswersDivideVendors
<1>1. Shape /\ PairInv /\ MemoryInv => OnlyEmptyAnswersDivideVendors
  <2> SUFFICES ASSUME Shape, PairInv, MemoryInv, pc = "llm"
               PROVE  /\ OpenAIAccepts(ToOpenAI(history)) <=> Paired(history)
                      /\ AnthropicAccepts(ToAnthropic(history))
                           <=> Paired(history) /\ ~HasWordless(history)
    BY DEF OnlyEmptyAnswersDivideVendors
  <2>1. history \in Seq(Message) /\ ResultsFollow(history)
    BY Facts DEF PairInv, Sound
  <2>2. UnderWay(history, before, turnStart, turn)
    BY DEF MemoryInv, Working
  <2>3. history[Len(history)].role # "assistant"
    BY <2>1, <2>2, Positions, Facts DEF UnderWay
  <2> QED BY <2>1, <2>3, PairedIsFull, AnthropicIsFull, OpenAIIsFull
<1> QED BY <1>1, MemoryHolds, PTL

\* The conversation manager remembers a call as Dialogue says, turn by turn, for any
\* limits and however the turns end: an answered turn whole, one that ended in the
\* fallback or at a cap not at all, one the caller cut off in part, and when there
\* are too many the oldest are forgotten whole.
THEOREM DialogueImplemented == Spec => ImplementsDialogue
BY MemoryHolds, DialogueInit, DialogueStep, PTL DEF Spec, ImplementsDialogue, Abstract!Spec

-----------------------------------------------------------------------------
(* Tool results                                                            *)
(*                                                                         *)
(* What the model still knows of the tools a turn ran: all their results   *)
(* are in the history, or enough newer turns are to have pushed it out.    *)

ToolsOf(h, u) == {i \in DOMAIN h : h[i].role = "tool" /\ h[i].turn = u}

LaterUsers(h, u) == {i \in UserIndices(h) : h[i].turn > u}

\* The k results of turn u.
Known(k, h, u) ==
  k = Cardinality(ToolsOf(h, u)) \/ MaxHistory <= Cardinality(LaterUsers(h, u))

LEMMA Countable ==
  ASSUME NEW h \in Seq(Message), NEW u
  PROVE  /\ IsFiniteSet(ToolsOf(h, u)) /\ Cardinality(ToolsOf(h, u)) \in Nat
         /\ IsFiniteSet(LaterUsers(h, u)) /\ Cardinality(LaterUsers(h, u)) \in Nat
<1>1. IsFiniteSet(UserIndices(h)) /\ DOMAIN h = 1..Len(h) /\ Len(h) \in Nat
  BY HistoryPlaces
<1>2. IsFiniteSet(DOMAIN h)
  BY <1>1, FS_Interval
<1>3. ToolsOf(h, u) \in SUBSET DOMAIN h /\ LaterUsers(h, u) \in SUBSET UserIndices(h)
  BY DEF ToolsOf, LaterUsers
<1> QED BY <1>1, <1>2, <1>3, FS_Subset, FS_CardinalityType

\* A turn under way leaves what is known of the others.
LEMMA KnownStays ==
  ASSUME NEW h \in Seq(Message), NEW b \in Seq(Message), NEW n \in Nat, NEW u \in Nat,
         UnderWay(h, b, n, u),
         NEW g \in Seq(Message), Len(h) <= Len(g), \A i \in 1..Len(h) : g[i] = h[i],
         \A i \in DOMAIN g : i > Len(h) => g[i].turn = u,
         NEW v \in Nat, v # u, NEW k, Known(k, b, v)
  PROVE  Known(k, g, v)
<1>1. /\ DOMAIN h = 1..Len(h) /\ Len(h) \in Nat /\ DOMAIN b = 1..Len(b) /\ Len(b) = n
      /\ DOMAIN g = 1..Len(g) /\ Len(g) \in Nat /\ n < Len(h)
  BY Positions DEF UnderWay
<1>2. \A i \in DOMAIN b : i \in DOMAIN g /\ b[i] = g[i]
  BY <1>1 DEF UnderWay
<1>3. \A i \in DOMAIN g : i \in DOMAIN b \/ g[i].turn = u
  <2> SUFFICES ASSUME NEW i \in DOMAIN g, i \notin DOMAIN b PROVE g[i].turn = u
    OBVIOUS
  <2>1. CASE i \in DOMAIN h
    BY <1>1, <2>1 DEF UnderWay
  <2>2. CASE i > Len(h)
    BY <2>2
  <2> QED BY <1>1, <2>1, <2>2
<1>4. ToolsOf(g, v) = ToolsOf(b, v)
  BY <1>2, <1>3 DEF ToolsOf
<1>5. LaterUsers(b, v) \in SUBSET LaterUsers(g, v)
  BY <1>2 DEF LaterUsers, UserIndices
<1>6. Cardinality(LaterUsers(b, v)) <= Cardinality(LaterUsers(g, v))
  BY <1>5, Countable, FS_Subset
<1>7. MaxHistory \in Nat /\ Cardinality(LaterUsers(b, v)) \in Nat /\ Cardinality(LaterUsers(g, v)) \in Nat
  BY Countable, LimitsAssumption
<1> QED BY <1>4, <1>6, <1>7 DEF Known

\* What trimming takes from a turn it takes for want of room: the turn's messages
\* stay, or those that stay are of as many newer turns as there is room for.
LEMMA KnownTrimmed ==
  ASSUME NEW h \in Seq(Message), Ordered(h), NEW v \in Nat, NEW k, Known(k, h, v)
  PROVE  Known(k, Trim(h), v)
<1>1. CASE Trim(h) = h
  BY <1>1
<1>2. ASSUME Trim(h) # h PROVE Known(k, Trim(h), v)
  <2>1. PICK c \in UserIndices(h) :
          Trim(h) = SubSeq(h, c, Len(h)) /\ Cardinality(UsersFrom(h, c)) = MaxHistory
    BY <1>2, LastTurnsAreFull, LimitsAssumption DEF Trim
  <2> DEFINE s == SubSeq(h, c, Len(h))
  <2>2. /\ Len(h) \in Nat /\ DOMAIN h = 1..Len(h) /\ c \in 1..Len(h) /\ h[c].role = "user"
        /\ UserIndices(h) \in SUBSET Nat /\ IsFiniteSet(UserIndices(h))
        /\ \A i \in DOMAIN h : i \in Nat /\ h[i].turn \in Nat
    BY HistoryPlaces, MessageNat
  <2>3. /\ DOMAIN s = 1..(Len(h) - c + 1)
        /\ \A i \in DOMAIN s : c + i - 1 \in DOMAIN h /\ s[i] = h[c + i - 1]
    BY <2>2, SuffixIs
  <2>4. UserIndices(s) = {j - c + 1 : j \in UsersFrom(h, c)}
    BY OrderedSuffix, MessageNat
  <2> HIDE DEF s
  <2>5. \A j \in DOMAIN h : j >= c => j - c + 1 \in DOMAIN s /\ s[j - c + 1] = h[j]
    <3> SUFFICES ASSUME NEW j \in DOMAIN h, j >= c
                 PROVE  j - c + 1 \in DOMAIN s /\ s[j - c + 1] = h[j]
      OBVIOUS
    <3>1. j - c + 1 \in 1..(Len(h) - c + 1) /\ c + (j - c + 1) - 1 = j
      BY <2>2
    <3> QED BY <2>3, <3>1
  <2>6. UsersFrom(h, c) \in SUBSET Nat /\ IsFiniteSet(UsersFrom(h, c))
        /\ \A j \in UsersFrom(h, c) : j \in DOMAIN h /\ j >= c /\ h[j].role = "user"
    <3>1. UsersFrom(h, c) \in SUBSET UserIndices(h)
      BY DEF UsersFrom
    <3> QED BY <2>2, <3>1, FS_Subset DEF UsersFrom, UserIndices
  <2>7. CASE h[c].turn > v
    <3>1. \A j \in UsersFrom(h, c) : h[j].turn > v
      <4> SUFFICES ASSUME NEW j \in UsersFrom(h, c) PROVE h[j].turn > v
        OBVIOUS
      <4>1. h[c].turn <= h[j].turn
        BY <2>2, <2>6 DEF Ordered
      <4> QED BY <2>2, <2>6, <2>7, <4>1
    <3>2. LaterUsers(s, v) = {j - c + 1 : j \in UsersFrom(h, c)}
      BY <2>4, <2>5, <2>6, <3>1 DEF LaterUsers
    <3>3. c \in Nat
      BY <2>2
    <3>4. Cardinality(LaterUsers(s, v)) = MaxHistory
      BY <2>1, <2>6, <3>2, <3>3, ShiftedCount
    <3> QED BY <2>1, <3>4, LimitsAssumption DEF Known, s
  <2>8. CASE ~(h[c].turn > v)
    <3>1. ~(MaxHistory <= Cardinality(LaterUsers(h, v)))
      <4>1. LaterUsers(h, v) \in SUBSET (UsersFrom(h, c) \ {c})
        <5> SUFFICES ASSUME NEW j \in LaterUsers(h, v) PROVE j \in UsersFrom(h, c) \ {c}
          OBVIOUS
        <5>1. j \in UserIndices(h) /\ j \in DOMAIN h /\ h[j].turn > v
          BY DEF LaterUsers, UserIndices
        <5>2. j > c
          <6> SUFFICES ASSUME j <= c PROVE FALSE
            BY <2>2, <5>1
          <6>1. h[j].turn <= h[c].turn
            BY <2>2, <5>1 DEF Ordered
          <6> QED BY <2>2, <2>8, <5>1, <6>1
        <5> QED BY <2>2, <5>1, <5>2 DEF UsersFrom
      <4>2. c \in UsersFrom(h, c)
        BY <2>2 DEF UsersFrom
      <4>3. /\ IsFiniteSet(UsersFrom(h, c) \ {c})
            /\ Cardinality(UsersFrom(h, c) \ {c}) = MaxHistory - 1
        BY <2>1, <2>6, <4>2, FS_RemoveElement
      <4>4. Cardinality(LaterUsers(h, v)) <= MaxHistory - 1
        BY <4>1, <4>3, FS_Subset
      <4> QED BY <4>4, Countable, LimitsAssumption
    <3>2. k = Cardinality(ToolsOf(h, v))
      BY <3>1 DEF Known
    <3>3. \A j \in ToolsOf(h, v) : j \in DOMAIN h /\ j >= c
      <4> SUFFICES ASSUME NEW j \in ToolsOf(h, v) PROVE j \in DOMAIN h /\ j >= c
        OBVIOUS
      <4>1. j \in DOMAIN h /\ h[j].turn = v /\ h[j].role = "tool"
        BY DEF ToolsOf
      <4>2. ASSUME j < c PROVE FALSE
        <5>1. h[j].turn < h[c].turn
          BY <2>2, <4>1, <4>2 DEF Ordered
        <5> QED BY <2>2, <2>8, <4>1, <5>1
      <4> QED BY <2>2, <4>1, <4>2
    <3>4. ToolsOf(s, v) = {j - c + 1 : j \in ToolsOf(h, v)}
      <4>1. \A j \in ToolsOf(h, v) : j - c + 1 \in ToolsOf(s, v)
        BY <2>5, <3>3 DEF ToolsOf
      <4>2. \A i \in ToolsOf(s, v) : /\ c + i - 1 \in ToolsOf(h, v)
                                     /\ i = (c + i - 1) - c + 1
        BY <2>2, <2>3 DEF ToolsOf
      <4> QED BY <4>1, <4>2
    <3>5. ToolsOf(h, v) \in SUBSET Nat /\ c \in Nat
      BY <2>2 DEF ToolsOf
    <3>6. Cardinality(ToolsOf(s, v)) = Cardinality(ToolsOf(h, v))
      BY <3>4, <3>5, Countable, ShiftedCount
    <3> QED BY <2>1, <3>2, <3>6 DEF Known, s
  <2> QED BY <2>7, <2>8
<1> QED BY <1>1, <1>2

\* Turn v has returned k results, and the model knows of them unless it was torn or
\* ended in the fallback; of the turn under way it knows them all.
KnownNow(k, v) ==
  \/ outcome[v] \in {"torn", "fallback"}
  \/ pc \in Working /\ v = turn /\ k = Cardinality(ToolsOf(history, v))
  \/ pc \in Working /\ v # turn /\ Known(k, before, v)
  \/ pc \notin Working /\ Known(k, history, v)

LEMMA KnownNext ==
  ASSUME NEW CONSTANT k, NEW CONSTANT v,
         \/ outcome'[v] \in {"torn", "fallback"}
         \/ pc' \in Working /\ v = turn' /\ k = Cardinality(ToolsOf(history', v))
         \/ pc' \in Working /\ v # turn' /\ Known(k, before', v)
         \/ pc' \notin Working /\ Known(k, history', v)
  PROVE  KnownNow(k, v)'
<1>1. /\ ToolsOf(history, v)' = ToolsOf(history', v)
      /\ Known(k, history, v)' <=> Known(k, history', v)
      /\ Known(k, before, v)' <=> Known(k, before', v)
  BY DEF Known, ToolsOf, LaterUsers, UserIndices
<1> QED BY <1>1, Zenon DEF KnownNow

\* What is known of a turn that is over, or of the one under way, as it ends with the
\* history g, before g is trimmed.
LEMMA KnownAtTheEnd ==
  ASSUME Shape, TraceInv, PairInv, MemoryInv, pc \in Working,
         NEW g \in Seq(Message), Len(history) <= Len(g),
         \A i \in 1..Len(history) : g[i] = history[i],
         \A i \in DOMAIN g : i > Len(history) => g[i].turn = turn /\ g[i].role # "tool",
         NEW k, NEW v \in Turns, KnownNow(k, v)
  PROVE  (outcome[v] \in {"torn", "fallback"} /\ v # turn) \/ Known(k, g, v)
<1>1. /\ history \in Seq(Message) /\ before \in Seq(Message) /\ turnStart \in Nat /\ turn \in Nat
      /\ DOMAIN history = 1..Len(history) /\ Len(history) \in Nat
      /\ UnderWay(history, before, turnStart, turn) /\ outcome[turn] = "none" /\ v \in Nat
  BY TurnFacts, Facts DEF MemoryInv, PairInv, StartInv
<1>2. CASE v # turn
  <2>1. outcome[v] \in {"torn", "fallback"} \/ Known(k, before, v)
    BY <1>2 DEF KnownNow
  <2> QED BY <1>1, <1>2, <2>1, KnownStays
<1>3. CASE v = turn
  <2>1. k = Cardinality(ToolsOf(history, v))
    BY <1>1, <1>3 DEF KnownNow
  <2>2. DOMAIN g = 1..Len(g) /\ Len(g) \in Nat
    BY Positions
  <2>3. ToolsOf(g, v) = ToolsOf(history, v)
    <3>1. \A i \in DOMAIN history : i \in DOMAIN g /\ g[i] = history[i]
      BY <1>1, <2>2
    <3>2. \A i \in DOMAIN g : i \in DOMAIN history \/ i > Len(history)
      BY <1>1, <2>2
    <3> QED BY <3>1, <3>2 DEF ToolsOf
  <2> QED BY <2>1, <2>3 DEF Known
<1> QED BY <1>2, <1>3

\* No step but the return of a tool changes how many results are known of.
LEMMA KnownKept ==
  ASSUME Shape, Shape', TraceInv, PairInv, MemoryInv,
         \/ Utterance \/ UtteranceOverLimit \/ Retry \/ Connect \/ StreamText \/ Answer
         \/ CallTools \/ LLMFails \/ EndTurn \/ CutIn \/ UNCHANGED vars,
         NEW CONSTANT k \in Nat, NEW CONSTANT v \in Turns, KnownNow(k, v)
  PROVE  KnownNow(k, v)'
<1>1. CASE Utterance
  <2> DEFINE m == [role |-> "user", turn |-> turn + 1, n |-> 0]
  <2>1. /\ turn' = turn + 1 /\ pc \notin Working /\ pc' \in Working /\ before' = history
        /\ history' = Append(history, m) /\ outcome' = outcome
    BY <1>1 DEF Utterance, Send, Working
  <2>2. outcome[v] \in {"torn", "fallback"} \/ Known(k, history, v)
    BY <2>1 DEF KnownNow
  <2>3. CASE v # turn'
    BY <2>1, <2>2, <2>3, KnownNext
  <2>4. CASE v = turn' /\ Known(k, history, v)
    <3>1. /\ \A i \in DOMAIN history : history[i].turn \in Nat /\ history[i].turn <= turn
          /\ turn \in Nat /\ history \in Seq(Message)
      BY TurnFacts
    <3>2. ToolsOf(history, v) = {} /\ LaterUsers(history, v) = {}
      BY <2>1, <2>4, <3>1 DEF ToolsOf, LaterUsers, UserIndices
    <3>3. k = 0
      <4>1. Cardinality({}) = 0
        BY FS_EmptySet
      <4> QED BY <2>4, <3>2, <4>1, LimitsAssumption DEF Known
    <3>4. m \in Message /\ m.role = "user"
      BY <1>1, <2>1, Facts, LimitsAssumption DEF Utterance, Message, Turns
    <3> HIDE DEF m
    <3>5. \A i \in DOMAIN history' : history'[i] = m \/ (i \in DOMAIN history /\ history'[i] = history[i])
      <4>1. /\ DOMAIN history' = 1..(Len(history) + 1) /\ history'[Len(history) + 1] = m
            /\ \A i \in DOMAIN history : history'[i] = history[i]
            /\ DOMAIN history = 1..Len(history) /\ Len(history) \in Nat
        BY <2>1, <3>1, <3>4, Appended, Positions
      <4> QED BY <4>1
    <3>6. ToolsOf(history', v) = {}
      BY <3>2, <3>4, <3>5 DEF ToolsOf
    <3>7. k = Cardinality(ToolsOf(history', v))
      BY <3>3, <3>6, FS_EmptySet
    <3> QED BY <2>1, <2>4, <3>7, KnownNext
  <2> QED BY <2>1, <2>2, <2>3, <2>4, KnownNext
<1>2. CASE UtteranceOverLimit
  <2>1. /\ turn' = turn + 1 /\ pc \notin Working /\ pc' \notin Working /\ history' = history
        /\ outcome' = [outcome EXCEPT ![turn + 1] = "limit"]
    BY <1>2 DEF UtteranceOverLimit, Working
  <2>2. outcome[v] \in {"torn", "fallback"} \/ Known(k, history, v)
    BY <2>1 DEF KnownNow
  <2>3. outcome[v] \in {"torn", "fallback"} => outcome'[v] = outcome[v]
    <3>1. v = turn + 1 => outcome[v] = "none"
      BY Facts DEF PairInv, LaterInv
    <3> QED BY <2>1, <3>1, Facts
  <2> QED BY <2>1, <2>2, <2>3, KnownNext
<1>3. CASE Retry \/ Connect \/ StreamText
  <2>1. /\ pc \in Working /\ pc' \in Working
        /\ UNCHANGED <<turn, before, history, outcome>>
    BY <1>3 DEF Retry, Connect, StreamText, turns, Working
  <2> QED BY <2>1, KnownNext DEF KnownNow
<1>4. CASE CallTools
  <2>1. PICK n \in 1..MaxCalls : history' = Append(history, Msg("calls", n))
    BY <1>4 DEF CallTools
  <2>2. /\ pc \in Working /\ pc' \in Working /\ pc # "idle"
        /\ UNCHANGED <<turn, before, outcome>>
    BY <1>4 DEF CallTools, turns, Working
  <2>3. CASE v = turn
    <3>1. outcome[v] = "none"
      BY <2>2, <2>3 DEF PairInv, StartInv
    <3>2. k = Cardinality(ToolsOf(history, v))
      BY <2>2, <2>3, <3>1 DEF KnownNow
    <3> DEFINE m == Msg("calls", n)
    <3>3. m \in Message /\ m.role = "calls"
      BY <2>2, TurnFacts, MsgTyped, LimitsAssumption
    <3>4. history' = Append(history, m)
      BY <2>1
    <3> HIDE DEF m
    <3>5. /\ DOMAIN history' = 1..(Len(history) + 1) /\ history'[Len(history) + 1] = m
          /\ \A i \in DOMAIN history : history'[i] = history[i]
          /\ DOMAIN history = 1..Len(history) /\ Len(history) \in Nat
      BY <3>3, <3>4, Appended, TurnFacts
    <3>6. ToolsOf(history', v) = ToolsOf(history, v)
      BY <3>3, <3>5 DEF ToolsOf
    <3> QED BY <2>2, <2>3, <3>2, <3>6, KnownNext
  <2>4. CASE v # turn
    BY <2>2, <2>4, KnownNext DEF KnownNow
  <2> QED BY <2>3, <2>4
<1>5. CASE Answer
  <2> PICK w \in {0, 1} : history' = Trim(Append(history, Msg("assistant", w)))
    BY <1>5 DEF Answer
  <2> DEFINE m == Msg("assistant", w)
             g == Append(history, m)
  <2>1. /\ pc \in Working /\ pc # "idle" /\ history' = Trim(g) /\ pc' \notin Working
        /\ \E kind : outcome' = [outcome EXCEPT ![turn] = kind]
    BY <1>5 DEF Answer, Reply, Working
  <2>2. m \in Message /\ m.turn = turn /\ m.role = "assistant"
    BY <2>1, TurnFacts, MsgTyped
  <2> HIDE DEF m
  <2>3. /\ g \in Seq(Message) /\ Len(g) = Len(history) + 1 /\ DOMAIN g = 1..(Len(history) + 1)
        /\ \A i \in DOMAIN history : g[i] = history[i]
        /\ g[Len(history) + 1] = m /\ DOMAIN history = 1..Len(history) /\ Len(history) \in Nat
    BY <2>2, Appended, TurnFacts
  <2>4. Ordered(g)
    BY <2>1, <2>2, TurnFacts, GoesOn DEF MemoryInv
  <2> HIDE DEF g
  <2>5. /\ Len(history) <= Len(g) /\ \A i \in 1..Len(history) : g[i] = history[i]
        /\ \A i \in DOMAIN g : i > Len(history) => g[i].turn = turn /\ g[i].role # "tool"
    BY <2>2, <2>3
  <2>6. (outcome[v] \in {"torn", "fallback"} /\ v # turn) \/ Known(k, g, v)
    BY <2>1, <2>3, <2>5, KnownAtTheEnd
  <2>7. Known(k, g, v) => Known(k, history', v)
    BY <2>1, <2>3, <2>4, KnownTrimmed, Facts
  <2>8. v # turn => outcome'[v] = outcome[v]
    BY <2>1, Facts
  <2> QED BY <2>1, <2>6, <2>7, <2>8, KnownNext
<1>6. CASE LLMFails
  <2>1. /\ pc \in Working /\ pc' \notin Working /\ history' = before /\ pc # "idle"
        /\ outcome' = [outcome EXCEPT ![turn] = "fallback"]
    BY <1>6, DroppedIsBefore DEF LLMFails, Reply, Working
  <2>2. CASE v = turn
    <3>1. outcome'[v] = "fallback"
      BY <2>1, <2>2, Facts
    <3> QED BY <3>1, KnownNext
  <2>3. CASE v # turn
    <3>1. outcome'[v] = outcome[v]
      BY <2>1, <2>3, Facts
    <3> QED BY <2>1, <2>3, <3>1, KnownNext DEF KnownNow
  <2> QED BY <2>2, <2>3
<1>7. CASE CutIn /\ pc \in Working
  <2>1. /\ pc' \notin Working /\ history' = history
        /\ \E how : outcome' = [outcome EXCEPT ![turn] = how]
    BY <1>7 DEF CutIn, Working
  <2>2. (outcome[v] \in {"torn", "fallback"} /\ v # turn) \/ Known(k, history, v)
    <3>1. /\ history \in Seq(Message) /\ Len(history) <= Len(history)
          /\ \A i \in DOMAIN history : ~(i > Len(history))
      BY TurnFacts
    <3> QED BY <1>7, <3>1, KnownAtTheEnd
  <2>3. v # turn => outcome'[v] = outcome[v]
    BY <2>1, Facts
  <2> QED BY <2>1, <2>2, <2>3, KnownNext
<1>8. CASE EndTurn \/ (CutIn /\ pc \notin Working)
  <2>1. pc \notin Working /\ pc' \notin Working /\ history' = history /\ outcome' = outcome
    BY <1>8 DEF EndTurn, CutIn, Working
  <2> QED BY <2>1, KnownNext DEF KnownNow
<1>9. CASE UNCHANGED vars
  <2>1. UNCHANGED <<pc, turn, before, history, outcome>>
    BY <1>9 DEF vars
  <2> QED BY <2>1, KnownNext DEF KnownNow
<1> QED
  BY <1>1, <1>2, <1>3, <1>4, <1>5, <1>6, <1>7, <1>8, <1>9

\* A tool that returns, or raises, adds its result, unless its turn is dropped.
LEMMA KnownReturned ==
  ASSUME Shape, TraceInv, PairInv, MemoryInv, ToolEnds,
         NEW CONSTANT k \in Nat, NEW CONSTANT v \in Turns, KnownNow(k, v)
  PROVE  IF v = turn THEN KnownNow(k + 1, v)' ELSE KnownNow(k, v)'
<1> DEFINE m == Msg("tool", batch.done + 1)
<1>1. pc \in Working /\ turn \in Turns /\ UNCHANGED <<before, turnStart, turn>>
  BY TurnFacts DEF ToolEnds, turns, Working
<1>2. m \in Message /\ m.turn = turn /\ m.role = "tool"
  BY <1>1, Facts, MsgTyped
<1>3. \/ history' = Append(history, m) /\ pc' \in Working /\ outcome' = outcome
      \/ /\ history' = before /\ pc' \notin Working
         /\ outcome' = [outcome EXCEPT ![turn] = "fallback"]
  BY <1>1, DroppedIsBefore DEF ToolEnds, Send, Reply, Working
<1> HIDE DEF m
<1>4. CASE v # turn
  <2>1. outcome[v] \in {"torn", "fallback"} \/ Known(k, before, v)
    BY <1>1, <1>4 DEF KnownNow
  <2>2. outcome'[v] = outcome[v]
    BY <1>3, <1>4, Facts
  <2>3. KnownNow(k, v)'
    BY <1>1, <1>3, <1>4, <2>1, <2>2, KnownNext
  <2> QED BY <1>4, <2>3
<1>5. CASE v = turn
  <2>1. outcome[v] = "none"
    BY <1>1, <1>5 DEF PairInv, StartInv
  <2>2. k = Cardinality(ToolsOf(history, v))
    BY <1>1, <1>5, <2>1 DEF KnownNow
  <2>3. CASE outcome' = [outcome EXCEPT ![turn] = "fallback"]
    <3>1. outcome'[v] = "fallback"
      BY <1>5, <2>3, Facts
    <3>2. KnownNow(k + 1, v)'
      BY <3>1, KnownNext
    <3> QED BY <1>5, <3>2
  <2>4. CASE history' = Append(history, m) /\ pc' \in Working
    <3>1. /\ DOMAIN history' = 1..(Len(history) + 1) /\ history'[Len(history) + 1] = m
          /\ \A i \in DOMAIN history : history'[i] = history[i]
          /\ DOMAIN history = 1..Len(history) /\ Len(history) \in Nat
      BY <1>2, <2>4, Appended, TurnFacts
    <3>2. /\ ToolsOf(history', v) = ToolsOf(history, v) \union {Len(history) + 1}
          /\ Len(history) + 1 \notin ToolsOf(history, v)
      BY <1>2, <1>5, <3>1 DEF ToolsOf
    <3>3. IsFiniteSet(ToolsOf(history, v))
      BY Countable, Facts
    <3>4. Cardinality(ToolsOf(history', v)) = k + 1
      BY <2>2, <3>2, <3>3, FS_AddElement
    <3>5. KnownNow(k + 1, v)'
      BY <1>1, <1>5, <2>4, <3>4, KnownNext
    <3> QED BY <1>5, <3>5
  <2> QED BY <1>3, <2>3, <2>4
<1> QED BY <1>4, <1>5

LEMMA KnownInit == Init => \A v \in Turns : KnownNow(0, v)
<1> SUFFICES ASSUME Init, NEW v \in Turns PROVE KnownNow(0, v)
  OBVIOUS
<1>1. ToolsOf(history, v) = {} /\ pc \notin Working
  BY DEF Init, ToolsOf, Working
<1>2. Cardinality(ToolsOf(history, v)) = 0
  BY <1>1, FS_EmptySet
<1> QED BY <1>1, <1>2 DEF KnownNow, Known

\* What the model knows of a turn, from the history alone.
LEMMA KnownShown ==
  ASSUME Shape, TraceInv, PairInv, MemoryInv, NEW k, NEW v \in Turns, KnownNow(k, v)
  PROVE  outcome[v] \in {"torn", "fallback"} \/ Known(k, history, v)
<1>1. CASE pc \in Working
  <2>1. /\ history \in Seq(Message) /\ Len(history) <= Len(history)
        /\ \A i \in DOMAIN history : ~(i > Len(history))
    BY TurnFacts
  <2> QED BY <1>1, <2>1, KnownAtTheEnd
<1>2. CASE pc \notin Working
  BY <1>2 DEF KnownNow
<1> QED BY <1>1, <1>2

\* A turn that was cut off in a tool stays one.
LEMMA TornStays ==
  ASSUME Shape, PairInv,
         \/ Utterance \/ UtteranceOverLimit \/ Retry \/ Answer \/ CallTools \/ ToolEnds
         \/ LLMFails \/ EndTurn \/ CutIn \/ UNCHANGED vars,
         NEW v \in Turns, outcome[v] = "torn"
  PROVE  outcome'[v] = "torn"
<1>1. pc \in Working => v # turn
  BY DEF PairInv, StartInv
<1>2. v # turn + 1
  BY Facts DEF PairInv, LaterInv
<1>3. CASE UtteranceOverLimit
  BY <1>2, <1>3, Facts DEF UtteranceOverLimit
<1>4. CASE Answer \/ ToolEnds \/ LLMFails \/ CutIn
  <2>1. outcome' = outcome \/ (pc \in Working /\ \E how : outcome' = [outcome EXCEPT ![turn] = how])
    BY <1>4 DEF Answer, ToolEnds, LLMFails, CutIn, Reply, Working
  <2> QED BY <1>1, <2>1, Facts
<1>5. CASE Utterance \/ Retry \/ CallTools \/ EndTurn \/ UNCHANGED vars
  BY <1>5 DEF Utterance, Retry, CallTools, EndTurn, vars
<1> QED BY <1>3, <1>4, <1>5

=============================================================================
