------------------------------ MODULE History -------------------------------
(***************************************************************************)
(* The messages a call's conversation is remembered as, and how old ones   *)
(* are forgotten.  A message is a record with a role and the turn it was   *)
(* said in; what else it holds is for the modules that use this one.       *)
(***************************************************************************)
EXTENDS Sequences, Naturals, FiniteSets

UserIndices(h) == {i \in DOMAIN h : h[i].role = "user"}

\* The suffix of a history that starts with its last n user messages.
LastTurns(h, n) ==
  LET users == UserIndices(h)
      Few(i) == Cardinality({j \in users : j >= i}) <= n
      cutoff == CHOOSE i \in users : Few(i) /\ \A k \in users : k < i => ~Few(k)
  IN IF Cardinality(users) <= n THEN h ELSE SubSeq(h, cutoff, Len(h))

=============================================================================
