---------------------------- MODULE ExecutionPath ----------------------------
(***************************************************************************)
(* The way of a request to run code: through the gateway to the execution  *)
(* service and back, and its result through QStash to the user.            *)
(***************************************************************************)
EXTENDS Execution, Notification

\* An event has the name of the request that makes it.
ASSUME EventsAssumption == Events = Requests

vars == <<gateway, execution, notification>>

Init == GatewayInit /\ ExecutionInit /\ NotificationInit

GatewayStep(r) == Gateway(r) /\ UNCHANGED <<execution, notification>>

\* The execution service's answer reaches the gateway; other services answer at will.
Respond(r) ==
  /\ req[r].route = "execute" => reply[r] # "none"
  /\ ReadBody(r)
  /\ UNCHANGED <<execution, notification>>

ExecutionStep(r) == Execution(r) /\ UNCHANGED <<gateway, notification>>

\* The executionId is the client's; the schema wants a UUID.
PublishResult(r) ==
  /\ \/ \E fits \in BOOLEAN : Publish(r, "published") /\ Enqueue(r, fits)
     \/ Publish(r, "lost") /\ UNCHANGED notification
  /\ UNCHANGED gateway

\* The workspace or the file service publishes an event of its own, which fits.
PublishOther(r) ==
  /\ req[r].route = "api" /\ req[r].stage \in {"proxy", "abandoned"}
  /\ Enqueue(r, TRUE)
  /\ UNCHANGED <<gateway, execution>>

Next ==
  \/ \E r \in Requests :
       GatewayStep(r) \/ Respond(r) \/ ExecutionStep(r) \/ PublishResult(r)
       \/ PublishOther(r)
  \/ Redis /\ UNCHANGED <<execution, notification>>
  \/ Crash /\ UNCHANGED <<gateway, notification>>
  \/ \E e \in Events : Deliver(e) /\ UNCHANGED <<gateway, execution>>

\* The timers of the gateway and of the runs, and the handler's own steps.
Fairness ==
  \A r \in Requests :
    /\ WF_vars(Abandon(r) /\ UNCHANGED <<execution, notification>>)
    /\ WF_vars((Start(r) \/ FailToStart(r)) /\ UNCHANGED <<gateway, notification>>)
    /\ WF_vars(Deadline(r) /\ UNCHANGED <<gateway, notification>>)
    /\ WF_vars(Return(r) /\ UNCHANGED <<gateway, notification>>)

Spec == Init /\ [][Next]_vars /\ Fairness

------------------------------------------------------------------------------
(* Properties.                                                             *)

TypeOK == GatewayTypeOK /\ ExecutionTypeOK /\ NotificationTypeOK

\* What a request's way through three services leaves behind fits together: no
\* program runs for a request that was refused or not answered by its limits,
\* a result is published at most once, and only a result is; a client
\* who is answered 200 has a result whose event is sent or lost, although he may
\* be told 502 for a run that goes on and is announced.
Refused(r) == req[r].stage \in {"new", "auth", "incr", "expire", "refused"}

Consistent ==
  \A r \in Requests :
    /\ Refused(r) \/ req[r].route # "execute" => phase[r] = "none"
    /\ reply[r] = "result" <=> event[r] # "none"
    /\ letter[r] # "none" => event[r] = "published" \/ req[r].route = "api"

\* The result a client was answered with is announced by another goroutine, another
\* company's queue and another service, none of which reports back.  It gets lost in
\* three ways only: in the publishing, by a crash before it, or when QStash has no
\* attempts left; until then it is under way, and QStash lets go of it only after
\* it was notified of.  Nobody is notified of a run that has no result or whose event
\* the schema does not admit.
ResultTold ==
  \A r \in Requests :
    /\ reply[r] = "result" =>
         \/ event[r] \in {"pending", "lost"}
         \/ letter[r] = "queued"
         \/ letter[r] = "dead" /\ attempts[r] = Attempts
         \/ sent[r] > 0
    /\ req[r].route = "execute" /\ sent[r] > 0 => reply[r] = "result" /\ valid[r]

\* Whoever gives up and whatever is lost, every run ends whose processes do not
\* hold its output for ever: its slot comes back.  (A program that was started by
\* a launcher, or starts another, may outlive the kill.)
RunEnds ==
  \A r \in Requests : []<>(~ held[r]) => (r \in Busy ~> r \notin Busy)

\* The gateway keeps no client waiting for the headers of an answer beyond its own
\* time limit.  The timer is cleared when they come: the body, which proxyHandler reads
\* then, has no limit, and nothing is claimed of that wait.
ForwardedEnds ==
  \A r \in Requests : InStage(r, "proxy") ~> ~ InStage(r, "proxy")
==============================================================================
