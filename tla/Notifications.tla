---------------------------- MODULE Notifications ----------------------------
(***************************************************************************)
(* How a confirmation leaves: the Twilio and the Resend provider post the  *)
(* message, post it again after a transport error or a retryable status,   *)
(* and give up after MaxSends posts or at the first other error.  A post   *)
(* whose response is lost may have been delivered all the same.            *)
(***************************************************************************)
EXTENDS Integers

CONSTANTS
  Requests,  \* the bookings that may be confirmed, one message at a time
  MaxSends   \* notification_max_retries: posts of one message

ASSUME SendsAssumption == MaxSends \in Nat \ {0}

Channels == {"sms", "email"}

VARIABLES
  posts,     \* posts so far of the message each booking is sending
  reached,   \* one of them was delivered
  logged     \* the channels whose message was given up, with an error in the log

notifications == <<posts, reached, logged>>

\* A mutant: no stop condition.
PostAgainForever(r) ==
  /\ posts' = [posts EXCEPT ![r] = (@ + 1) % MaxSends]
  /\ \E got \in {reached[r], TRUE} : reached' = [reached EXCEPT ![r] = got]
  /\ UNCHANGED logged

\* A retryable outcome with a post left: delivered or not, the loop goes on.
PostAgain(r) ==
  /\ posts[r] + 1 < MaxSends
  /\ posts' = [posts EXCEPT ![r] = @ + 1]
  /\ \E got \in {reached[r], TRUE} : reached' = [reached EXCEPT ![r] = got]
  /\ UNCHANGED logged

\* The send ends: accepted; or given up, because the last post failed as those
\* before it or because a refusal is never retried.
SendEnds(r, ch, got) ==
  /\ \/ got /\ UNCHANGED logged
     \/ /\ got => reached[r] \/ posts[r] + 1 = MaxSends
        /\ reached[r] => got
        /\ logged' = [logged EXCEPT ![r] = @ \union {ch}]
  /\ posts' = [posts EXCEPT ![r] = 0]
  /\ reached' = [reached EXCEPT ![r] = FALSE]

InitNotifications ==
  /\ posts = [r \in Requests |-> 0]
  /\ reached = [r \in Requests |-> FALSE]
  /\ logged = [r \in Requests |-> {}]
=============================================================================
