----------------------------- MODULE Notification -----------------------------
(***************************************************************************)
(* QStash and the notification service.  QStash keeps a published event    *)
(* and posts it to the service until it hears a success or has no attempts *)
(* left.  The service verifies the signature, validates the body, sends    *)
(* the notification and answers; it keeps no state.                        *)
(***************************************************************************)
EXTENDS Integers

CONSTANTS
  Events,
  Attempts                           \* what QStash tries

ASSUME AttemptsAssumption == Attempts \in Nat \ {0}

VARIABLES
  letter,   \* the state of each event in QStash
  valid,    \* whether its body fits the schema of its endpoint
  attempts, \* how often it was posted
  sent      \* how many notifications were sent for it

notification == <<letter, valid, attempts, sent>>

NotificationInit ==
  /\ letter = [e \in Events |-> "none"]
  /\ valid = [e \in Events |-> TRUE]
  /\ attempts = [e \in Events |-> 0]
  /\ sent = [e \in Events |-> 0]

Enqueue(e, fits) ==
  /\ letter[e] = "none"
  /\ letter' = [letter EXCEPT ![e] = "queued"]
  /\ valid' = [valid EXCEPT ![e] = fits]
  /\ UNCHANGED <<attempts, sent>>

\* QStash hears of no success: it tries again as long as it may.
Retry(e) ==
  /\ attempts' = [attempts EXCEPT ![e] = @ + 1]
  /\ letter' = IF attempts[e] + 1 < Attempts THEN letter ELSE [letter EXCEPT ![e] = "dead"]

\* 401: the signature is missing or does not verify.  Or the service is down.
Unverified(e) ==
  /\ letter[e] = "queued"
  /\ Retry(e)
  /\ UNCHANGED <<valid, sent>>

\* 422, on every attempt.
Invalid(e) ==
  /\ letter[e] = "queued" /\ ~ valid[e]
  /\ Retry(e)
  /\ UNCHANGED <<valid, sent>>

\* The handler hands the event to the email or the in-app service.
Send(e) == sent' = [sent EXCEPT ![e] = @ + 1]

AcceptUnsent(e) ==                   \* mutant: the answer does not wait for the sending
  /\ letter[e] = "queued" /\ valid[e]
  /\ attempts' = [attempts EXCEPT ![e] = @ + 1]
  /\ letter' = [letter EXCEPT ![e] = "acked"]
  /\ \E done \in {0, 1} : sent' = [sent EXCEPT ![e] = @ + done]
  /\ UNCHANGED valid

\* The handler waits for the sending, then answers 200.
Accept(e) ==
  /\ letter[e] = "queued" /\ valid[e]
  /\ attempts' = [attempts EXCEPT ![e] = @ + 1]
  /\ letter' = [letter EXCEPT ![e] = "acked"]
  /\ Send(e)
  /\ UNCHANGED valid

\* The answer does not reach QStash.  The service keeps no record of the event, so it
\* sends again when QStash does.
AcceptUnheard(e) ==
  /\ letter[e] = "queued" /\ valid[e]
  /\ Retry(e)
  /\ Send(e)
  /\ UNCHANGED valid

Deliver(e) == Unverified(e) \/ Invalid(e) \/ Accept(e) \/ AcceptUnheard(e)

------------------------------------------------------------------------------
(* Properties.                                                             *)

NotificationTypeOK ==
  /\ letter \in [Events -> {"none", "queued", "acked", "dead"}]
  /\ valid \in [Events -> BOOLEAN]
  /\ attempts \in [Events -> 0..Attempts]
  /\ sent \in [Events -> Nat]
  /\ \A e \in Events : letter[e] = "queued" => attempts[e] < Attempts
==============================================================================
