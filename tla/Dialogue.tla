------------------------------ MODULE Dialogue ------------------------------
(***************************************************************************)
(* What the conversation manager promises of its memory, as if each caller *)
(* turn were one step: an answered turn is remembered whole, an            *)
(* unanswered one is not remembered at all, only a turn the caller cut off *)
(* leaves a partial trace, and old turns are forgotten whole, oldest first.*)
(***************************************************************************)
EXTENDS Naturals, FiniteSets

CONSTANTS Turns,      \* the turns of the call, numbered as they come
          MaxHistory  \* the turns an answer leaves in memory

VARIABLE memory       \* of each remembered turn, whether it is remembered whole

Newest(turns) == {u \in turns : Cardinality({v \in turns : v >= u}) <= MaxHistory}

\* The turns remembered after turn u, which was answered or not.
Remember(turns, u, whole) ==
  memory' = [v \in turns |-> IF v = u THEN whole ELSE memory[v]]

\* Turns come in the order they are spoken in.
Newer(u) == \A v \in DOMAIN memory : v < u

Answer(u) == Newer(u) /\ Remember(Newest(DOMAIN memory \union {u}), u, TRUE)

CutOff(u) == Newer(u) /\ Remember(DOMAIN memory \union {u}, u, FALSE)

Init == memory = [u \in {} |-> TRUE]

Next == \E u \in Turns : Answer(u) \/ CutOff(u)

Spec == Init /\ [][Next]_memory
=============================================================================
