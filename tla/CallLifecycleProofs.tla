------------------------ MODULE CallLifecycleProofs ------------------------
(***************************************************************************)
(* What the database holds of a call, for any number of calls, callers,    *)
(* turns, retries and deployments: a call is only left open for the        *)
(* reasons named, no summary is made before the transcript is written, and *)
(* a transcript reads as the dialogue it was.                              *)
(*                                                                         *)
(* The inductive invariant says for every place in the worker whether the  *)
(* call has its row, its status and its shutdown callback by then, and in  *)
(* what order its history holds its messages.                              *)
(***************************************************************************)
EXTENDS CallLifecycle, CommonLemmas

\* The caller's words are the messages with the user's role, and what a tool
\* answered those with the tool's.
Messages ==
  {m \in [turn : 1..MaxTurns, role : {"user", "assistant", "tool"},
          text : {"words", "none", "aside", "payload", "reply"}] :
     /\ m.role = "user" <=> m.text = "words"
     /\ m.role = "tool" <=> m.text = "payload"}

\* A history of t turns: in order, and nothing follows a reply in its turn.
Recounted(h, t) ==
  /\ h \in Seq(Messages) /\ Ordered(h)
  /\ \A i \in DOMAIN h : h[i].turn <= t
  /\ \A i, j \in DOMAIN h : i < j /\ h[i].text = "reply" => h[i].turn < h[j].turn

\* One whose last turn is under way.
Continues(h, t) ==
  /\ Recounted(h, t)
  /\ h # <<>> /\ h[Len(h)].turn = t
  /\ \A i \in DOMAIN h : h[i].turn = t => h[i].text # "reply"

-----------------------------------------------------------------------------
(* Histories *)

\* A message more.
LEMMA Extended ==
  ASSUME NEW h \in Seq(Messages), NEW m \in Messages
  PROVE  /\ h \o <<m>> = Append(h, m)
         /\ Append(h, m) \in Seq(Messages)
         /\ Len(h) \in Nat /\ DOMAIN h = 1..Len(h) /\ DOMAIN Append(h, m) = 1..(Len(h) + 1)
         /\ \A i \in 1..Len(h) : Append(h, m)[i] = h[i] /\ h[i] \in Messages
         /\ Append(h, m)[Len(h) + 1] = m
         /\ Append(h, m) # <<>> /\ Len(Append(h, m)) = Len(h) + 1
<1>1. /\ Append(h, m) \in Seq(Messages) /\ Len(Append(h, m)) = Len(h) + 1
      /\ Append(h, m)[Len(h) + 1] = m
      /\ \A i \in 1..Len(h) : Append(h, m)[i] = h[i]
  BY AppendProperties
<1>2. h \o <<m>> = Append(h, m)
  BY AppendIsConcat
<1>3. Len(h) \in Nat /\ DOMAIN h = 1..Len(h) /\ \A i \in 1..Len(h) : h[i] \in Messages
  BY LenProperties, ElementOfSeq
<1>4. DOMAIN Append(h, m) = 1..(Len(h) + 1)
  BY <1>1, LenProperties
<1>5. Append(h, m) # <<>>
  BY <1>1, <1>3, EmptySeq
<1> QED BY <1>1, <1>2, <1>3, <1>4, <1>5
LEMMA MessageTurns == \A m \in Messages : m.turn \in 1..MaxTurns /\ m.turn \in Nat
BY LifecycleAssumption DEF Messages

\* The caller's words begin a turn ...
LEMMA Begins ==
  ASSUME NEW h, NEW t \in Nat, Recounted(h, t),
         NEW m \in Messages, m.role = "user", m.turn = t + 1
  PROVE  h \o <<m>> = Append(h, m) /\ Continues(Append(h, m), t + 1)
<1> DEFINE g == Append(h, m)
           L == Len(h)
<1>1. h \in Seq(Messages)
  BY DEF Recounted
<1>2. /\ h \o <<m>> = g /\ g \in Seq(Messages) /\ L \in Nat
      /\ DOMAIN h = 1..L /\ DOMAIN g = 1..(L + 1)
      /\ \A i \in 1..L : g[i] = h[i] /\ h[i] \in Messages
      /\ g[L + 1] = m /\ g # <<>> /\ Len(g) = L + 1
  BY <1>1, Extended
<1>3. \A i \in 1..L : h[i].turn \in Nat /\ h[i].turn <= t
  BY <1>2, MessageTurns DEF Recounted
<1>4. Ordered(g)
  BY <1>1, <1>2, <1>3, OrderedAppend, MessageTurns DEF Recounted
<1>5. m.text = "words"
  BY DEF Messages
<1> HIDE DEF g
<1>6. \A i \in DOMAIN g : g[i].turn <= t + 1 /\ (g[i].turn = t + 1 => i = L + 1)
  BY <1>2, <1>3
<1>7. \A i, j \in DOMAIN g : i < j /\ g[i].text = "reply" => g[i].turn < g[j].turn
  <2> SUFFICES ASSUME NEW i \in DOMAIN g, NEW j \in DOMAIN g, i < j, g[i].text = "reply"
               PROVE  g[i].turn < g[j].turn
    OBVIOUS
  <2>1. i \in 1..L /\ g[i] = h[i] /\ j \in 1..(L + 1)
    BY <1>2
  <2>2. CASE j = L + 1
    BY <1>2, <1>3, <2>1, <2>2
  <2>3. CASE j \in 1..L
    BY <1>2, <2>1, <2>3 DEF Recounted
  <2> QED BY <1>2, <2>1, <2>2, <2>3
<1>8. Continues(g, t + 1)
  BY <1>2, <1>4, <1>5, <1>6, <1>7 DEF Continues, Recounted
<1> QED BY <1>2, <1>8 DEF g

\* ... tool calls and what they return continue it ...
LEMMA GoesOn ==
  ASSUME NEW h, NEW t \in Nat, Continues(h, t),
         NEW m \in Messages, m.role # "user", m.turn = t
  PROVE  /\ h \o <<m>> = Append(h, m)
         /\ Recounted(Append(h, m), t)
         /\ m.text # "reply" => Continues(Append(h, m), t)
<1> DEFINE g == Append(h, m)
           L == Len(h)
<1>1. h \in Seq(Messages) /\ Recounted(h, t)
  BY DEF Recounted, Continues
<1>2. /\ h \o <<m>> = g /\ g \in Seq(Messages) /\ L \in Nat
      /\ DOMAIN h = 1..L /\ DOMAIN g = 1..(L + 1)
      /\ \A i \in 1..L : g[i] = h[i] /\ h[i] \in Messages
      /\ g[L + 1] = m /\ g # <<>> /\ Len(g) = L + 1
  BY <1>1, Extended
<1>3. \A i \in 1..L : h[i].turn \in Nat /\ h[i].turn <= t
  BY <1>1, <1>2, MessageTurns DEF Recounted
<1>4. Ordered(g)
  BY <1>1, <1>2, <1>3, OrderedAppend, MessageTurns DEF Recounted, Continues
<1> HIDE DEF g
<1>5. \A i \in DOMAIN g : g[i].turn <= t
  BY <1>2, <1>3
<1>6. \A i, j \in DOMAIN g : i < j /\ g[i].text = "reply" => g[i].turn < g[j].turn
  BY <1>1, <1>2, <1>3 DEF Recounted, Continues
<1>7. Recounted(g, t)
  BY <1>2, <1>4, <1>5, <1>6 DEF Recounted
<1>8. ASSUME m.text # "reply" PROVE Continues(g, t)
  BY <1>2, <1>7, <1>8 DEF Continues
<1> QED BY <1>2, <1>7, <1>8 DEF g

\* ... and trimming keeps the order.
LEMMA TrimmedRecounted ==
  ASSUME NEW h, NEW t \in Nat, Recounted(h, t)
  PROVE  Recounted(Trimmed(h), t)
<1>1. h \in Seq(Messages) /\ Len(h) \in Nat /\ DOMAIN h = 1..Len(h)
  BY LenProperties DEF Recounted
<1>2. Trimmed(h) \in Seq(Messages) /\ Ordered(Trimmed(h))
  BY <1>1, LastTurnsOrdered, MessageTurns, LifecycleAssumption DEF Recounted, Trimmed
<1>3. CASE Trimmed(h) = h
  BY <1>3
<1>4. ASSUME NEW c \in UserIndices(h), Trimmed(h) = SubSeq(h, c, Len(h))
      PROVE  Recounted(Trimmed(h), t)
  <2> DEFINE s == SubSeq(h, c, Len(h))
  <2>1. c \in 1..Len(h)
    BY <1>1 DEF UserIndices
  <2>2. /\ DOMAIN s = 1..(Len(h) - c + 1)
        /\ \A i \in 1..(Len(h) - c + 1) : c + i - 1 \in 1..Len(h) /\ s[i] = h[c + i - 1]
    BY <1>1, <2>1, SuffixIs
  <2>3. s \in Seq(Messages) /\ Ordered(s)
    BY <1>2, <1>4
  <2> HIDE DEF s
  <2>4. \A i \in DOMAIN s : s[i].turn <= t
    BY <1>1, <2>2 DEF Recounted
  <2>5. ASSUME NEW i \in DOMAIN s, NEW j \in DOMAIN s, i < j, s[i].text = "reply"
        PROVE  s[i].turn < s[j].turn
    <3>1. c + i - 1 < c + j - 1
      BY <1>1, <2>1, <2>2, <2>5
    <3> QED BY <1>1, <2>2, <2>5, <3>1 DEF Recounted
  <2>6. Recounted(s, t)
    BY <2>3, <2>4, <2>5 DEF Recounted
  <2> QED BY <1>4, <2>6 DEF s
<1> QED BY <1>1, <1>3, <1>4, LastTurnsIsSuffix, LifecycleAssumption DEF Trimmed

-----------------------------------------------------------------------------
(* Transcripts *)

\* What TranscriptIsDialogue and TypeOK say of one transcript.
Dialogue(T) ==
  /\ T \subseteq Line
  /\ \A k, l \in T : k.sequence = l.sequence => k = l
  /\ \A k, l \in T :
       /\ l.text # "payload"
       /\ k.turn < l.turn => k.sequence < l.sequence
       /\ k.turn = l.turn /\ l.text = "reply" => k.sequence <= l.sequence
       /\ l.who = "agent" => \E q \in T : q.who = "caller" /\ q.turn = l.turn
                                          /\ q.sequence < l.sequence

LEMMA TranscriptTells ==
  ASSUME NEW h, NEW t \in Nat, Recounted(h, t)
  PROVE  Dialogue(TranscriptOf(h))
<1> DEFINE T == TranscriptOf(h)
           Kept(i) == h[i].role # "tool" /\ h[i].text # "none"
<1>1. h \in Seq(Messages) /\ Len(h) \in Nat /\ DOMAIN h = 1..Len(h)
      /\ \A i \in DOMAIN h : h[i] \in Messages
  BY LenProperties, ElementOfSeq DEF Recounted
<1>2. \A l \in T : /\ l.sequence \in DOMAIN h /\ Kept(l.sequence)
                   /\ l = LineOf(l.sequence, h[l.sequence])
  BY DEF TranscriptOf, LineOf
<1>3. \A i \in DOMAIN h : Kept(i) => LineOf(i, h[i]) \in T
  BY DEF TranscriptOf
<1>4. \A l \in T : /\ l.turn = h[l.sequence].turn /\ l.text = h[l.sequence].text
                   /\ l.who = "agent" <=> h[l.sequence].role # "user"
  BY <1>2 DEF LineOf
<1> HIDE DEF T
<1>5. T \subseteq Line
  <2> SUFFICES ASSUME NEW l \in T PROVE l \in Line
    OBVIOUS
  <2>1. l.sequence \in Nat \ {0} /\ h[l.sequence] \in Messages /\ Kept(l.sequence)
    BY <1>1, <1>2
  <2> QED BY <1>2, <2>1 DEF Line, LineOf, Messages
<1>6. \A k, l \in T : k.sequence = l.sequence => k = l
  BY <1>2
<1>7. \A l \in T : l.text # "payload"
  BY <1>1, <1>2, <1>4 DEF Messages
<1>8. ASSUME NEW k \in T, NEW l \in T, k.turn < l.turn PROVE k.sequence < l.sequence
  <2>1. k.sequence \in 1..Len(h) /\ l.sequence \in 1..Len(h)
    BY <1>1, <1>2
  <2>2. l.sequence <= k.sequence => h[l.sequence].turn <= h[k.sequence].turn
    BY <1>1, <2>1 DEF Recounted, Ordered
  <2>3. h[l.sequence].turn \in Nat /\ h[k.sequence].turn \in Nat
    BY <1>1, <2>1, MessageTurns
  <2> QED BY <1>1, <1>4, <1>8, <2>1, <2>2, <2>3
<1>9. ASSUME NEW k \in T, NEW l \in T, k.turn = l.turn, l.text = "reply"
      PROVE  k.sequence <= l.sequence
  <2>1. k.sequence \in 1..Len(h) /\ l.sequence \in 1..Len(h)
    BY <1>1, <1>2
  <2>2. l.sequence < k.sequence => h[l.sequence].turn < h[k.sequence].turn
    BY <1>1, <1>4, <1>9, <2>1 DEF Recounted
  <2>3. h[l.sequence].turn \in Nat /\ h[k.sequence].turn \in Nat
    BY <1>1, <2>1, MessageTurns
  <2> QED BY <1>1, <1>4, <1>9, <2>1, <2>2, <2>3
<1>10. ASSUME NEW l \in T, l.who = "agent"
       PROVE  \E q \in T : q.who = "caller" /\ q.turn = l.turn /\ q.sequence < l.sequence
  <2>1. l.sequence \in DOMAIN h /\ h[l.sequence].role # "user"
    BY <1>2, <1>4, <1>10
  <2>2. PICK j \in UserIndices(h) : j <= l.sequence /\ h[j].turn = h[l.sequence].turn
    BY <2>1 DEF Recounted, Ordered
  <2>3. j \in DOMAIN h /\ h[j].role = "user" /\ j < l.sequence
    BY <1>1, <2>1, <2>2 DEF UserIndices
  <2>4. h[j].text = "words"
    BY <1>1, <2>3 DEF Messages
  <2>5. LineOf(j, h[j]) \in T
    BY <1>3, <2>3, <2>4
  <2> QED BY <1>4, <2>2, <2>3, <2>5 DEF LineOf
<1>11. Dialogue(T)
  BY <1>5, <1>6, <1>7, <1>8, <1>9, <1>10 DEF Dialogue
<1> QED BY <1>11 DEF T

-----------------------------------------------------------------------------
(* The inductive invariant *)

RowLike(x) ==
  /\ x \in [status : {"in_progress", "completed"}, transcript : SUBSET Line, summary : BOOLEAN]
  /\ Dialogue(x.transcript)

Shapes ==
  /\ settings \in Deployments
  /\ phone \in [Calls -> Callers \union {None}] /\ clients \subseteq Callers
  /\ pc \in [Calls -> Places]
  /\ hooked \subseteq Calls /\ broken \in [Calls -> Causes \union {"none"}]
  /\ job \in [Calls -> [state : {"none", "queued", "llm", "done", "failed"},
                        retries : 0..MaxRetries]]
  /\ DOMAIN rows \subseteq Calls
  /\ \A c \in DOMAIN rows : RowLike(rows[c])

TalkInv ==
  /\ turn \in [Calls -> 0..MaxTurns]
  /\ history \in [Calls -> Seq(Messages)]
  /\ \A c \in Calls : turn[c] \in Nat /\ Recounted(history[c], turn[c])

CompletedRow(c) == Recorded(c) /\ rows[c].status = "completed"

\* Why the row of a call that is over may still be open: its end went wrong, or
\* there was no callback yet, because the job was stopped, the first commit failed,
\* or the prompt or the calendar raised; the settings were validated, so the
\* language model is no reason.
Excused(c) ==
  \/ broken[c] \in {"died", "closeFailed"}
  \/ c \notin hooked /\ (broken[c] \in {"stopped", "rowLost"} \/ Misconfigured(c))

PlaceInv(c) ==
  /\ pc[c] \in {"ringing", "client", "newClient", "row"} => ~Recorded(c)
  /\ pc[c] \in {"client", "newClient"} => phone[c] # None
  /\ pc[c] = "setup" => Recorded(c)
  /\ pc[c] \in {"starting", "live", "closing"} => c \in hooked
  /\ c \in hooked => Recorded(c)
  /\ c \in hooked => pc[c] \in {"starting", "live", "closing", "dispatch", "closed"}
  /\ pc[c] \notin {"ringing", "closed"} => Validated(settings)
  /\ pc[c] = "dispatch" => CompletedRow(c)
  /\ job[c].state # "none" => CompletedRow(c)
  /\ pc[c] = "closed" /\ Recorded(c) => CompletedRow(c) \/ Excused(c)

IInv == Shapes /\ TalkInv /\ \A c \in Calls : PlaceInv(c)

-----------------------------------------------------------------------------
(* Rows *)

LEMMA RowSummarized ==
  ASSUME NEW x, RowLike(x)
  PROVE  /\ RowLike([x EXCEPT !.summary = TRUE])
         /\ [x EXCEPT !.summary = TRUE].status = x.status
BY DEF RowLike

LEMMA RowCompleted ==
  ASSUME NEW x, RowLike(x), NEW t, Dialogue(t)
  PROVE  /\ RowLike([x EXCEPT !.status = "completed", !.transcript = t])
         /\ [x EXCEPT !.status = "completed", !.transcript = t].status = "completed"
<1>1. t \in SUBSET Line
  BY DEF Dialogue
<1> QED BY <1>1 DEF RowLike

LEMMA RowNew == RowLike(NewRow) /\ NewRow.status = "in_progress"
BY DEF NewRow, RowLike, Dialogue

\* What the callback's transaction does to the table.
LEMMA CompletedRows ==
  ASSUME NEW c \in DOMAIN rows, Shapes, TalkInv, Completed(c)
  PROVE  /\ DOMAIN rows' = DOMAIN rows
         /\ \A d \in DOMAIN rows : RowLike(rows[d])'
         /\ rows'[c].status = "completed"
         /\ \A d \in DOMAIN rows : d # c => rows'[d] = rows[d]
<1> DEFINE row == [rows[c] EXCEPT !.status = "completed",
                                  !.transcript = TranscriptOf(history[c])]
<1>1. RowLike(row) /\ row.status = "completed"
  <2>1. c \in Calls /\ RowLike(rows[c])
    BY DEF Shapes
  <2>2. turn[c] \in Nat /\ Recounted(history[c], turn[c])
    BY <2>1 DEF TalkInv
  <2>3. Dialogue(TranscriptOf(history[c]))
    BY <2>2, TranscriptTells
  <2> QED BY <2>1, <2>3, RowCompleted, Zenon
<1>2. rows' = [rows EXCEPT ![c] = row] BY DEF Completed
<1> HIDE DEF row
<1> QED BY <1>1, <1>2 DEF Shapes

\* What the summary task does to it.
LEMMA SummarizedRows ==
  ASSUME NEW c \in DOMAIN rows, Shapes, rows' = [rows EXCEPT ![c].summary = TRUE]
  PROVE  /\ DOMAIN rows' = DOMAIN rows
         /\ \A d \in DOMAIN rows : RowLike(rows[d])' /\ rows'[d].status = rows[d].status
<1> DEFINE row == [rows[c] EXCEPT !.summary = TRUE]
<1>1. RowLike(row) /\ row.status = rows[c].status
  BY RowSummarized DEF Shapes
<1>2. rows' = [rows EXCEPT ![c] = row] OBVIOUS
<1> HIDE DEF row
<1> QED BY <1>1, <1>2 DEF Shapes

-----------------------------------------------------------------------------
(* The conversation's steps *)

\* The bound on all turns together bounds each call's.
LEMMA TurnBound ==
  ASSUME turn \in [Calls -> 0..MaxTurns], NEW c \in Calls, TurnLeft
  PROVE  turn[c] + 1 \in 1..MaxTurns
<1>1. MaxTurns \in Nat /\ turn[c] \in 0..MaxTurns
  BY LifecycleAssumption
<1>2. ASSUME turn[c] = MaxTurns PROVE FALSE
  <2>1. IsFiniteSet({c}) /\ Cardinality({c}) = 1
    BY FS_Singleton
  <2>2. IsFiniteSet(1..MaxTurns) /\ Cardinality(1..MaxTurns) = MaxTurns
    BY <1>1, FS_Interval
  <2>3. Cardinality({c} \X (1..MaxTurns)) = MaxTurns
    <3>1. Cardinality({c} \X (1..MaxTurns)) = Cardinality({c}) * Cardinality(1..MaxTurns)
      BY <2>1, <2>2, FS_Product
    <3>2. 1 * MaxTurns = MaxTurns
      BY <1>1
    <3> QED BY <2>1, <2>2, <3>1, <3>2
  <2>4. IsFiniteSet(Calls \X (1..MaxTurns))
    BY <2>2, FS_Product, LifecycleAssumption
  <2>5. Spent \in SUBSET (Calls \X (1..MaxTurns))
    BY DEF Spent
  <2>6. IsFiniteSet(Spent) /\ Cardinality(Spent) \in Nat
    BY <2>4, <2>5, FS_Subset, FS_CardinalityType
  <2>7. {c} \X (1..MaxTurns) \in SUBSET Spent
    BY <1>1, <1>2 DEF Spent
  <2>8. MaxTurns <= Cardinality(Spent)
    BY <2>3, <2>6, <2>7, FS_Subset
  <2> QED BY <1>1, <2>6, <2>8 DEF TurnLeft
<1> QED BY <1>1, <1>2

LEMMA SaidTyped ==
  ASSUME NEW c \in Calls, turn[c] \in Nat, turn[c] + 1 \in 1..MaxTurns
  PROVE  /\ Said(c, "user", "words") \in Messages
         /\ \A text \in {"none", "aside", "reply"} : Said(c, "assistant", text) \in Messages
         /\ Said(c, "tool", "payload") \in Messages
         /\ \A role, text : /\ Said(c, role, text).turn = turn[c] + 1
                            /\ Said(c, role, text).role = role
                            /\ Said(c, role, text).text = text
BY DEF Said, Messages

\* A question, and what the model made of it so far.
LEMMA RoundContinues ==
  ASSUME TalkInv, NEW c \in Calls, TurnLeft,
         NEW round \in {<<>>} \union ToolCalls(c) \union Rounds(c)
  PROVE  Continues((history[c] \o Question(c)) \o round, turn[c] + 1)
<1> DEFINE t == turn[c]
           q == Said(c, "user", "words")
           result == Said(c, "tool", "payload")
           asked == Append(history[c], q)
<1>1. t \in Nat /\ t + 1 \in 1..MaxTurns /\ Recounted(history[c], t)
  BY TurnBound DEF TalkInv
<1>2. /\ q \in Messages /\ q.role = "user" /\ q.turn = t + 1
      /\ result \in Messages /\ result.role = "tool" /\ result.turn = t + 1
      /\ result.text = "payload"
  BY <1>1, SaidTyped
<1>3. history[c] \o Question(c) = asked /\ Continues(asked, t + 1)
  <2> HIDE DEF q
  <2>1. history[c] \o <<q>> = asked /\ Continues(asked, t + 1)
    BY <1>1, <1>2, Begins
  <2> QED BY <2>1 DEF Question, q
<1>4. asked \in Seq(Messages)
  BY <1>3 DEF Continues, Recounted
<1>5. CASE round = <<>>
  <2> HIDE DEF asked
  <2>1. asked \o <<>> = asked
    BY <1>4, ConcatEmptySeq
  <2> QED BY <1>3, <1>5, <2>1
<1>6. ASSUME NEW calls \in ToolCalls(c)
      PROVE  /\ calls \in Seq(Messages)
             /\ Continues(asked \o calls, t + 1)
  <2>1. PICK text \in {"none", "aside"} : calls = <<Said(c, "assistant", text)>>
    BY <1>6 DEF ToolCalls
  <2> DEFINE m == Said(c, "assistant", text)
  <2>2. m \in Messages /\ m.role = "assistant" /\ m.turn = t + 1 /\ m.text = text
    BY <1>1, SaidTyped
  <2> HIDE DEF m, asked
  <2>3. asked \o <<m>> = Append(asked, m) /\ Continues(Append(asked, m), t + 1)
    BY <1>1, <1>3, <2>2, GoesOn
  <2>4. <<m>> \in Seq(Messages)
    BY <2>2
  <2> QED BY <2>1, <2>3, <2>4 DEF m
<1>7. CASE round \in ToolCalls(c)
  BY <1>3, <1>6, <1>7
<1>8. CASE round \in Rounds(c)
  <2>1. PICK calls \in ToolCalls(c) : round = calls \o <<result>>
    BY <1>8 DEF Rounds
  <2> HIDE DEF result, asked
  <2>2. calls \in Seq(Messages) /\ Continues(asked \o calls, t + 1)
    BY <1>6
  <2>3. <<result>> \in Seq(Messages)
    BY <1>2
  <2>4. asked \o round = (asked \o calls) \o <<result>>
    BY <1>4, <2>1, <2>2, <2>3, ConcatAssociative
  <2>5. /\ (asked \o calls) \o <<result>> = Append(asked \o calls, result)
        /\ Continues(Append(asked \o calls, result), t + 1)
    BY <1>1, <1>2, <2>2, GoesOn
  <2> QED BY <1>3, <2>4, <2>5
<1> QED BY <1>5, <1>7, <1>8

\* What the call's turn did to its history keeps the others as they were.
LEMMA TalkedOn ==
  ASSUME TalkInv, NEW c \in Calls, NEW h, turn[c] + 1 \in 0..MaxTurns,
         Recounted(h, turn[c] + 1),
         history' = [history EXCEPT ![c] = h], turn' = [turn EXCEPT ![c] = @ + 1]
  PROVE  TalkInv'
<1>1. h \in Seq(Messages)
  BY DEF Recounted
<1>2. /\ turn' \in [Calls -> 0..MaxTurns] /\ history' \in [Calls -> Seq(Messages)]
      /\ turn'[c] = turn[c] + 1 /\ history'[c] = h
      /\ \A d \in Calls : d # c => turn'[d] = turn[d] /\ history'[d] = history[d]
  BY <1>1 DEF TalkInv
<1>3. \A d \in Calls : turn'[d] \in Nat /\ Recounted(history'[d], turn'[d])
  BY <1>2 DEF TalkInv
<1>4. \A d \in Calls : Recounted(history[d], turn[d])'
  BY <1>3 DEF Recounted, Ordered
<1> QED BY <1>2, <1>3, <1>4 DEF TalkInv

LEMMA AnsweredTalk == ASSUME TalkInv, NEW c \in Calls, Answered(c) PROVE TalkInv'
<1>1. TurnLeft /\ turn' = [turn EXCEPT ![c] = @ + 1]
  BY DEF Answered
<1>2. PICK round \in {<<>>} \union Rounds(c), reply \in {"reply", "none"} :
        history' = [history EXCEPT ![c] =
          Trimmed(@ \o Question(c) \o round \o <<Said(c, "assistant", reply)>>)]
  BY DEF Answered
<1> DEFINE asked == (history[c] \o Question(c)) \o round
           m == Said(c, "assistant", reply)
<1>3. /\ turn[c] \in Nat /\ turn[c] + 1 \in 1..MaxTurns
      /\ turn[c] + 1 \in 0..MaxTurns /\ turn[c] + 1 \in Nat
  BY <1>1, TurnBound DEF TalkInv
<1>4. m \in Messages /\ m.role = "assistant" /\ m.turn = turn[c] + 1
  BY <1>3, SaidTyped
<1>5. Continues(asked, turn[c] + 1)
  BY <1>1, RoundContinues
<1>6. c \in Calls /\ history \in [Calls -> Seq(Messages)]
  BY DEF TalkInv
<1>7. history' = [history EXCEPT ![c] = Trimmed(asked \o <<m>>)]
  BY <1>2, <1>6
<1> HIDE DEF asked, m
<1>8. asked \o <<m>> = Append(asked, m) /\ Recounted(Append(asked, m), turn[c] + 1)
  BY <1>3, <1>4, <1>5, GoesOn
<1>9. Recounted(Trimmed(asked \o <<m>>), turn[c] + 1)
  <2>1. Recounted(asked \o <<m>>, turn[c] + 1)
    BY <1>8
  <2> QED BY <1>3, <2>1, TrimmedRecounted
<1> DEFINE kept == Trimmed(asked \o <<m>>)
<1>10. history' = [history EXCEPT ![c] = kept] /\ Recounted(kept, turn[c] + 1)
  BY <1>7, <1>9
<1> HIDE DEF kept
<1> QED BY <1>1, <1>3, <1>10, TalkedOn

LEMMA CutOffTalk == ASSUME TalkInv, NEW c \in Calls, CutOff(c) PROVE TalkInv'
<1>1. TurnLeft /\ turn' = [turn EXCEPT ![c] = @ + 1]
  BY DEF CutOff
<1>2. PICK round \in {<<>>} \union ToolCalls(c) \union Rounds(c) :
        history' = [history EXCEPT ![c] = @ \o Question(c) \o round]
  BY DEF CutOff
<1> DEFINE asked == (history[c] \o Question(c)) \o round
<1>3. /\ turn[c] \in Nat /\ turn[c] + 1 \in 1..MaxTurns
      /\ turn[c] + 1 \in 0..MaxTurns /\ turn[c] + 1 \in Nat
  BY <1>1, TurnBound DEF TalkInv
<1>4. Recounted(asked, turn[c] + 1)
  BY <1>1, RoundContinues DEF Continues
<1>5. c \in Calls /\ history \in [Calls -> Seq(Messages)]
  BY DEF TalkInv
<1>6. history' = [history EXCEPT ![c] = asked]
  BY <1>2, <1>5
<1> HIDE DEF asked
<1> QED BY <1>1, <1>3, <1>4, <1>6, TalkedOn

-----------------------------------------------------------------------------
(* Every step *)

LEMMA InitInv == Init => IInv
<1> SUFFICES ASSUME Init PROVE IInv OBVIOUS
<1>1. MaxTurns \in Nat /\ MaxRetries \in Nat
  BY LifecycleAssumption
<1>2. Recounted(<<>>, 0) /\ <<>> \in Seq(Messages)
  BY EmptySeq DEF Recounted, Ordered
<1>3. TalkInv
  BY <1>1, <1>2 DEF Init, TalkInv
<1>4. Shapes /\ \A c \in Calls : PlaceInv(c)
  BY <1>1 DEF Init, Shapes, PlaceInv, Recorded, CompletedRow, Places, Setup
<1> QED BY <1>3, <1>4 DEF IInv

LEMMA StepInv == IInv /\ [Next]_vars => IInv'
<1> SUFFICES ASSUME IInv, [Next]_vars PROVE IInv' OBVIOUS
<1>0. ASSUME UNCHANGED <<turn, history>> PROVE TalkInv'
  BY <1>0 DEF IInv, TalkInv, Recounted, Ordered
<1> USE DEF IInv, Shapes, PlaceInv, Recorded, CompletedRow, Excused, Misconfigured, Places, Setup,
        Causes
<1>1. ASSUME NEW c \in Calls, Connect(c) PROVE IInv'
  BY <1>1, <1>0 DEF Connect, Goto
<1>2. ASSUME NEW c \in Calls, FindClient(c) PROVE IInv'
  BY <1>2, <1>0 DEF FindClient, Goto
<1>3. ASSUME NEW c \in Calls, CreateClient(c) PROVE IInv'
  BY <1>3, <1>0 DEF CreateClient, Goto
<1>4. ASSUME NEW c \in Calls, RecordCall(c) PROVE IInv'
  BY <1>4, <1>0, RowNew DEF RecordCall, Goto, AddRow
<1>5. ASSUME NEW c \in Calls, Prepare(c) PROVE IInv'
  BY <1>5, <1>0 DEF Prepare, Goto
<1>6. ASSUME NEW c \in Calls, StartSession(c) PROVE IInv'
  BY <1>6, <1>0 DEF StartSession, Goto
<1>7. ASSUME NEW c \in Calls, EntrypointFails(c) PROVE IInv'
  <2>1. /\ TalkInv' /\ c \in Calls
        /\ pc' = [pc EXCEPT ![c] = IF c \in hooked THEN "closing" ELSE "closed"]
        /\ UNCHANGED <<settings, phone, clients, hooked, job>>
    BY <1>7, <1>0 DEF EntrypointFails, ShutDown, Goto
  <2>2. CASE UNCHANGED <<rows, broken>>
    <3>1. Shapes'
      BY <2>1, <2>2
    <3>2. PlaceInv(c)'
      BY <1>7, <2>1, <2>2
         DEF EntrypointFails, Equipped, Calendar, Validated, BuildsLLM, BuildsPrompt
    <3>3. \A d \in Calls \ {c} : PlaceInv(d)'
      BY <2>1, <2>2
    <3> QED BY <2>1, <3>1, <3>2, <3>3
  <2>3. CASE RowLost(c) /\ Blame(c, "rowLost")
    <3>1. Shapes'
      BY <2>1, <2>3, RowNew DEF RowLost, Blame, AddRow
    <3>2. PlaceInv(c)'
      BY <2>1, <2>3 DEF RowLost, Blame, AddRow
    <3>3. \A d \in Calls \ {c} : PlaceInv(d)'
      BY <2>1, <2>3 DEF RowLost, Blame, AddRow
    <3> QED BY <2>1, <3>1, <3>2, <3>3
  <2> QED BY <1>7, <2>2, <2>3 DEF EntrypointFails
<1>8. ASSUME NEW c \in Calls, Finalize(c) PROVE IInv'
  BY <1>8, <1>0, CompletedRows DEF Finalize, Goto
<1>9. ASSUME NEW c \in Calls, FinalizeFails(c) PROVE IInv'
  BY <1>9, <1>0, CompletedRows DEF FinalizeFails, Goto, Blame
<1>10. ASSUME NEW c \in Calls, Dispatch(c) PROVE IInv'
  BY <1>10, <1>0 DEF Dispatch, Goto
<1>11. ASSUME NEW c \in Calls, DispatchFails(c) PROVE IInv'
  BY <1>11, <1>0 DEF DispatchFails, Goto
<1>12. ASSUME NEW c \in Calls, StartTask(c) PROVE IInv'
  BY <1>12, <1>0 DEF StartTask, SetJob
<1>13. ASSUME NEW c \in Calls, Summarize(c) PROVE IInv'
  <2>1. /\ c \in DOMAIN rows /\ rows[c].status = "completed"
        /\ rows' = [rows EXCEPT ![c].summary = TRUE]
        /\ UNCHANGED <<settings, phone, clients, pc, hooked, broken>>
    BY <1>13 DEF Summarize
  <2>2. /\ DOMAIN rows' = DOMAIN rows
        /\ \A d \in DOMAIN rows : RowLike(rows[d])' /\ rows'[d].status = rows[d].status
    BY <2>1, SummarizedRows
  <2>3. /\ job' \in [Calls -> [state : {"none", "queued", "llm", "done", "failed"},
                           retries : 0..MaxRetries]]
        /\ \A d \in Calls : job'[d].state # "none" => job[d].state # "none"
    BY <1>13 DEF Summarize, SetJob
  <2> HIDE DEF RowLike
  <2>4. Shapes'
    BY <2>1, <2>2, <2>3
  <2>5. ASSUME NEW d \in Calls PROVE PlaceInv(d)'
    BY <2>1, <2>2, <2>3 DEF Validated
  <2>6. TalkInv'
    BY <1>13, <1>0 DEF Summarize
  <2> QED BY <2>4, <2>5, <2>6
<1>14. ASSUME NEW c \in Calls, TaskRetries(c) PROVE IInv'
  BY <1>14, <1>0, LifecycleAssumption DEF TaskRetries, SetJob
<1>15. ASSUME NEW c \in Calls, TaskFails(c) PROVE IInv'
  BY <1>15, <1>0, SummarizedRows DEF TaskFails, SetJob
<1>16. ASSUME NEW c \in Calls, Answered(c) PROVE IInv'
  BY <1>16, AnsweredTalk DEF Answered
<1>17. ASSUME NEW c \in Calls, CutOff(c) PROVE IInv'
  BY <1>17, CutOffTalk DEF CutOff
<1>18. ASSUME NEW c \in Calls, CallEnds(c) PROVE IInv'
  BY <1>18, <1>0 DEF CallEnds, Goto
<1>19. ASSUME NEW c \in Calls, WorkerDies(c) PROVE IInv'
  BY <1>19, <1>0 DEF WorkerDies, Goto, Blame
<1>21. ASSUME NEW c \in Calls, StopJob(c) PROVE IInv'
  <2>1. /\ TalkInv' /\ pc[c] \in Setup
        /\ pc' = [pc EXCEPT ![c] = IF c \in hooked THEN "closing" ELSE "closed"]
        /\ broken' = [broken EXCEPT ![c] = "stopped"]
        /\ UNCHANGED <<settings, phone, clients, hooked, job>>
    BY <1>21, <1>0 DEF StopJob, ShutDown, Goto, Blame
  <2>2. CASE UNCHANGED rows
    <3>1. Shapes'
      BY <2>1, <2>2
    <3>2. PlaceInv(c)'
      BY <2>1, <2>2 DEF Validated
    <3>3. \A d \in Calls \ {c} : PlaceInv(d)'
      BY <2>1, <2>2 DEF Validated
    <3> QED BY <2>1, <3>1, <3>2, <3>3
  <2>3. CASE RowLost(c)
    <3>1. Shapes'
      BY <2>1, <2>3, RowNew DEF RowLost, AddRow
    <3>2. PlaceInv(c)'
      BY <2>1, <2>3 DEF RowLost, AddRow, Validated
    <3>3. \A d \in Calls \ {c} : PlaceInv(d)'
      BY <2>1, <2>3 DEF RowLost, AddRow, Validated
    <3> QED BY <2>1, <3>1, <3>2, <3>3
  <2> QED BY <1>21, <2>2, <2>3 DEF StopJob
<1>20. CASE UNCHANGED vars
  BY <1>20, <1>0 DEF vars, Validated
<1> QED BY <1>1, <1>2, <1>3, <1>4, <1>5, <1>6, <1>7, <1>8, <1>9, <1>10, <1>11, <1>12,
           <1>13, <1>14, <1>15, <1>16, <1>17, <1>18, <1>19, <1>20, <1>21
        DEF Next, Worker, Task

LEMMA Invariance == Spec => []IInv
BY InitInv, StepInv, PTL DEF Spec

\* For any deployment: a call that is over and still "in progress" lost its worker or
\* its teardown's transaction, or was never given finalize_call, because the job was
\* told to stop before, the first commit's answer was lost, BOOKING_TIMEZONE is
\* malformed, or a known caller's calendar credentials cannot be read; between the
\* commit and the registration nothing else can raise.
THEOREM OpenOnlyWhenBrokenHolds == Spec => []OpenOnlyWhenBroken
<1>1. IInv => OpenOnlyWhenBroken
  BY DEF IInv, PlaceInv, CompletedRow, Excused, OpenOnlyWhenBroken
<1> QED BY <1>1, Invariance, PTL

\* summarize_call_task is only ever queued for a call whose transcript has been
\* committed by finalize_call.
THEOREM SummaryAfterTranscriptHolds == Spec => []SummaryAfterTranscript
<1>1. IInv => SummaryAfterTranscript
  BY DEF IInv, PlaceInv, CompletedRow, SummaryAfterTranscript
<1> QED BY <1>1, Invariance, PTL

\* Every variable keeps its shape, and no two lines of a transcript share a
\* sequence number, so that uq_call_transcript_sequence never fails finalize_call's
\* commit: the place of a message in the history names its line.
THEOREM TypeCorrect == Spec => []TypeOK
<1>1. IInv => TypeOK
  BY DEF IInv, Shapes, TalkInv, RowLike, Dialogue, TypeOK
<1> QED BY <1>1, Invariance, PTL

\* What finalize_call writes reads as the dialogue it was, however many turns the
\* caller cut off and the trimming forgot: lines in the order spoken, no agent line
\* without its caller's before it, the reply last in its turn, no tool's payload.
THEOREM TranscriptIsDialogueHolds == Spec => []TranscriptIsDialogue
<1>1. IInv => TranscriptIsDialogue
  BY DEF IInv, Shapes, RowLike, Dialogue, TranscriptIsDialogue
<1> QED BY <1>1, Invariance, PTL

=============================================================================
