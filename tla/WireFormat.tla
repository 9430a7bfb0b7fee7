----------------------------- MODULE WireFormat -----------------------------
(***************************************************************************)
(* The history as the two LLM providers send it.  A tool call is known by  *)
(* its turn and its number in the response; texts and arguments are left   *)
(* out, but for whether an answer is empty.  A wire message is known by    *)
(* the place in the history of the first message that went into it.        *)
(***************************************************************************)
EXTENDS Conversation

CallsOf(msg) == IF msg.role = "calls" THEN {<<msg.turn, k>> : k \in 1..msg.n} ELSE {}

Speaker(msg) == IF msg.role \in {"calls", "assistant"} THEN "assistant" ELSE "user"

\* An answer without a word; a message that asks for tools needs none.
Wordless(msg) == msg.role = "assistant" /\ msg.n = 0

-----------------------------------------------------------------------------
(* Anthropic: all results of a response are blocks of one user message *)

\* A mutant: one message for each result.
ContinuesNever(h, i) == FALSE

\* Message i goes into the same wire message as the one before.
Continues(h, i) == i > 1 /\ h[i].role = "tool" /\ h[i - 1].role = "tool"

\* The messages that go into the wire message which starts with message i.
Joined(h, i) == {j \in i..Len(h) : \A k \in (i + 1)..j : Continues(h, k)}

\* The results a wire message holds as blocks.
Blocks(h, i) == {<<h[j].turn, h[j].n>> : j \in {l \in Joined(h, i) : h[l].role = "tool"}}

\* _to_anthropic_messages
ToAnthropic(h) ==
  [i \in {j \in DOMAIN h : ~Continues(h, j)} |->
     [role |-> Speaker(h[i]), calls |-> CallsOf(h[i]), results |-> Blocks(h, i),
      words |-> ~Wordless(h[i])]]

\* k is the wire message after m.
NextMessage(wire, m, k) == m < k /\ \A l \in DOMAIN wire : l <= m \/ l >= k

\* The API takes a request if the calls of a message are answered by exactly the
\* results of the next, and no message but the last is empty.
AnthropicAccepts(wire) ==
  \A m \in DOMAIN wire :
    /\ wire[m].words \/ \A l \in DOMAIN wire : l <= m
    /\ wire[m].calls # {} =>
         \E k \in DOMAIN wire : NextMessage(wire, m, k) /\ wire[k].results = wire[m].calls
    /\ wire[m].results # {} =>
         \E k \in DOMAIN wire : NextMessage(wire, k, m) /\ wire[k].calls = wire[m].results

-----------------------------------------------------------------------------
(* OpenAI: a message of its own for each result *)

\* _to_openai_messages
ToOpenAI(h) ==
  [i \in DOMAIN h |->
     [role |-> IF h[i].role = "tool" THEN "tool" ELSE Speaker(h[i]),
      calls |-> CallsOf(h[i]),
      answers |-> <<h[i].turn, h[i].n>>]]

\* The API takes a request if the calls of a message are answered, each once and
\* in any order, before anything else is said.
OpenAIAccepts(wire) ==
  \A m \in DOMAIN wire :
    /\ LET after == (m + 1)..(m + Cardinality(wire[m].calls))
       IN wire[m].calls # {} =>
            /\ after \subseteq DOMAIN wire
            /\ \A i \in after : wire[i].role = "tool"
            /\ {wire[i].answers : i \in after} = wire[m].calls
    /\ wire[m].role = "tool" =>
         \E c \in 1..(m - 1) : m <= c + Cardinality(wire[c].calls)

-----------------------------------------------------------------------------
(* Properties *)

HasWordless(h) == \E i \in DOMAIN h : Wordless(h[i])

\* A request is well formed for both vendors or for neither, whatever turns were
\* cut off, dropped and trimmed before, except where an empty completion is still
\* remembered: OpenAI asks for Paired and nothing else, Anthropic for words too.
OnlyEmptyAnswersDivideVendors ==
  pc = "llm" =>
    /\ OpenAIAccepts(ToOpenAI(history)) <=> Paired(history)
    /\ AnthropicAccepts(ToAnthropic(history)) <=> Paired(history) /\ ~HasWordless(history)

=============================================================================
