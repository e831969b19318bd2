------------------------------ MODULE Execution ------------------------------
(***************************************************************************)
(* The execution service behind the gateway.  A request that is forwarded  *)
(* is admitted by a semaphore, its program is run in a process of its own, *)
(* and its result is returned and published by a goroutine of its own.     *)
(*                                                                         *)
(* The deadline and the caller's disappearance end the context: it kills   *)
(* the process that was started.  cmd.Run also waits for the output pipes, *)
(* which the processes below it hold too: those the program starts, and    *)
(* the program itself where the command is a launcher (go run, sh -lc).    *)
(***************************************************************************)
EXTENDS Gateway

CONSTANT Capacity                    \* MaxConcurrentExecutions

ASSUME CapacityAssumption == Capacity \in Nat \ {0} /\ IsFiniteSet(Requests)

VARIABLES
  slots,   \* the number of tokens in the semaphore
  phase,   \* how far each request is here
  held,    \* whether processes below the one started hold the pipes
  reply,   \* whether the request was answered with a result or an error
  event    \* execution.completed

execution == <<slots, phase, held, reply, event>>

ExecutionInit ==
  /\ slots = 0
  /\ phase = [r \in Requests |-> "none"]
  /\ held = [r \in Requests |-> FALSE]
  /\ reply = [r \in Requests |-> "none"]
  /\ event = [r \in Requests |-> "none"]

InPhase(r, p) == phase[r] = p

Forwarded(r) == req[r].route = "execute" /\ req[r].stage \in {"proxy", "abandoned"}

Refuse(r) ==
  /\ phase' = [phase EXCEPT ![r] = "over"]
  /\ reply' = [reply EXCEPT ![r] = "error"]
  /\ UNCHANGED <<slots, held, event>>

ExecuteOverfull(r) ==                \* mutant: the semaphore holds one more
  /\ InPhase(r, "none") /\ Forwarded(r)
  /\ \/ Refuse(r)
     \/ /\ slots <= Capacity
        /\ slots' = slots + 1
        /\ phase' = [phase EXCEPT ![r] = "admitted"]
        /\ UNCHANGED <<held, reply, event>>

\* The request is malformed (400) or names nobody (401), or there is no slot (503).
Execute(r) ==
  /\ InPhase(r, "none") /\ Forwarded(r)
  /\ \/ Refuse(r)
     \/ /\ slots < Capacity
        /\ slots' = slots + 1
        /\ phase' = [phase EXCEPT ![r] = "admitted"]
        /\ UNCHANGED <<held, reply, event>>

\* The handler writes its answer and returns, which gives the slot back.
Finish(r, answer) ==
  /\ phase' = [phase EXCEPT ![r] = "over"]
  /\ reply' = [reply EXCEPT ![r] = answer]
  /\ slots' = slots - 1

\* mutant: an early return keeps the slot
FailToStartKeeping(r) == InPhase(r, "admitted") /\ Refuse(r)

\* The language is not supported (400), or a directory, a file or a process cannot
\* be made (500).
FailToStart(r) ==
  /\ InPhase(r, "admitted")
  /\ Finish(r, "error")
  /\ UNCHANGED <<held, event>>

\* The process started is the program (python3, node), or a launcher that runs it
\* (go run, sh -lc).
Languages == {"direct", "launched"}

Start(r) ==
  /\ InPhase(r, "admitted")
  /\ phase' = [phase EXCEPT ![r] = "running"]
  /\ \E lang \in Languages : held' = [held EXCEPT ![r] = (lang = "launched")]
  /\ UNCHANGED <<slots, reply, event>>

\* The program starts other processes.
Fork(r) ==
  /\ InPhase(r, "running") /\ ~ held[r]
  /\ held' = [held EXCEPT ![r] = TRUE]
  /\ UNCHANGED <<slots, phase, reply, event>>

\* They are gone, or let go of the pipes.
LetGo(r) ==
  /\ held[r]
  /\ held' = [held EXCEPT ![r] = FALSE]
  /\ UNCHANGED <<slots, phase, reply, event>>

\* The process exits or is killed.  cmd.Run waits for the pipes.
End(r) ==
  /\ InPhase(r, "running")
  /\ phase' = [phase EXCEPT ![r] = "waiting"]
  /\ UNCHANGED <<slots, held, reply, event>>

Exit(r) == End(r)

DeadlineIgnored(r) == FALSE          \* mutant: the run gets the context without a timeout

Deadline(r) == End(r)

Cancel(r) == InStage(r, "abandoned") /\ End(r)

\* mutant: the failed runs' answer is not a result, but they are announced
ReturnUnheeding(r) ==
  /\ InPhase(r, "waiting") /\ ~ held[r]
  /\ \E answer \in {"result", "error"} : Finish(r, answer)
  /\ event' = [event EXCEPT ![r] = "pending"]
  /\ UNCHANGED held

\* The run has a result, whatever its exit status, also when it was killed; the
\* goroutine that publishes it starts.  A process that exits with 0 when its caller
\* is gone leaves the context's error, which is none of the two the code expects.
Return(r) ==
  /\ InPhase(r, "waiting") /\ ~ held[r]
  /\ \/ Finish(r, "result") /\ event' = [event EXCEPT ![r] = "pending"]
     \/ InStage(r, "abandoned") /\ Finish(r, "error") /\ UNCHANGED event
  /\ UNCHANGED held

\* The goroutine's request reaches QStash or not; nobody looks at the outcome.
Publish(r, outcome) ==
  /\ event[r] = "pending"
  /\ event' = [event EXCEPT ![r] = outcome]
  /\ UNCHANGED <<slots, phase, held, reply>>

Busy == {r \in Requests : phase[r] \in {"admitted", "running", "waiting"}}

\* The service stops and starts again: the runs and the goroutines are gone.
Crash ==
  /\ Busy # {} \/ \E r \in Requests : event[r] = "pending"
  /\ slots' = 0
  /\ phase' = [r \in Requests |-> IF r \in Busy THEN "over" ELSE phase[r]]
  /\ held' = [r \in Requests |-> FALSE]
  /\ event' = [r \in Requests |-> IF event[r] = "pending" THEN "lost" ELSE event[r]]
  /\ UNCHANGED reply

Execution(r) ==
  \/ Execute(r) \/ FailToStart(r) \/ Start(r) \/ Fork(r) \/ LetGo(r) \/ Exit(r)
  \/ Deadline(r) \/ Cancel(r) \/ Return(r)

------------------------------------------------------------------------------
(* Properties.                                                             *)

ExecutionTypeOK ==
  /\ slots \in 0..Capacity
  /\ phase \in [Requests -> {"none", "admitted", "running", "waiting", "over"}]
  /\ held \in [Requests -> BOOLEAN]
  /\ reply \in [Requests -> {"none", "result", "error"}]
  /\ event \in [Requests -> {"none", "pending", "published", "lost"}]

\* On every way out of a run, early, failed, killed or crashed, the slot comes
\* back once: the semaphore holds as many tokens as requests are being run.
SlotsExact == slots = Cardinality(Busy)
==============================================================================
