---------------------------- MODULE MCListening -----------------------------
(* Instances of Listening for TLC. *)
EXTENDS Listening, SequencesExt

\* Every caller who says at most four things.
FourUtterances == BoundedSeq(Kinds, 4)
=============================================================================
