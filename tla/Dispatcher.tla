----------------------------- MODULE Dispatcher -----------------------------
(***************************************************************************)
(* LocalTaskDispatcher (register/in-memory-dispatcher.ts): tasks run in    *)
(* the background with retries, and a shutdown waits for them, at most so  *)
(* long.  A call dispatches one task, which bears the call's name.         *)
(*                                                                         *)
(* What a handler does, and whether it ever settles, is its owner's; here  *)
(* are the steps of the dispatcher around it.  Promise callbacks that      *)
(* follow each other without a timer are one step.                         *)
(***************************************************************************)
EXTENDS Integers, FiniteSets

CONSTANTS Calls,      \* those who dispatch
          MaxRetries, \* retryOptions.maxRetries
          WaitLimit   \* timeoutMs of waitForActiveTasks, in polls of 50 ms

ASSUME DispatcherAssumption ==
  /\ IsFiniteSet(Calls)
  /\ MaxRetries \in Nat
  /\ WaitLimit \in Nat

VARIABLES
  task,             \* task[c]: how far the task of c has come
  attempt,          \* attempt[c]: currentAttempt of its retry loop
  activeTasksCount,
  waiter,           \* waitForActiveTasks: idle, asleep, or its answer
  waited            \* how long it has waited, in polls

dispatcherVars == <<task, attempt, activeTasksCount, waiter, waited>>

Unfinished == {"queued", "running", "backoff", "failing"}

\* A type: what every variable holds.
DispatcherTypeOK ==
  /\ task \in [Calls -> Unfinished \cup {"none", "sent", "failed"}]
  /\ attempt \in [Calls -> 0..MaxRetries]
  /\ activeTasksCount \in Nat
  /\ waiter \in {"idle", "asleep", "true", "false"}
  /\ waited \in 0..WaitLimit

DispatcherInit ==
  /\ task = [c \in Calls |-> "none"]
  /\ attempt = [c \in Calls |-> 0]
  /\ activeTasksCount = 0
  /\ waiter = "idle"
  /\ waited = 0

-----------------------------------------------------------------------------
(* Tasks.                                                                  *)

\* dispatch: counted at once, begun by setImmediate.
Dispatch(c) ==
  /\ task' = [task EXCEPT ![c] = "queued"]
  /\ activeTasksCount' = activeTasksCount + 1
  /\ UNCHANGED <<attempt, waiter, waited>>

\* The handler is called, for the first time or after a delay.
RunHandler(c) ==
  /\ task[c] \in {"queued", "backoff"}
  /\ task' = [task EXCEPT ![c] = "running"]
  /\ UNCHANGED <<attempt, activeTasksCount, waiter, waited>>

\* runWithRetry is over, its finally block has run.
Settle(c, outcome) ==
  /\ task' = [task EXCEPT ![c] = outcome]
  /\ attempt' = [attempt EXCEPT ![c] = 0]
  /\ activeTasksCount' = activeTasksCount - 1
  /\ UNCHANGED <<waiter, waited>>

HandlerSucceeds(c) == task[c] = "running" /\ Settle(c, "sent")

\* Mutant: the task no longer counts while onFailure runs.
HandlerFailsUncounted(c) ==
  /\ task[c] = "running"
  /\ IF attempt[c] < MaxRetries
     THEN /\ task' = [task EXCEPT ![c] = "backoff"]
          /\ attempt' = [attempt EXCEPT ![c] = @ + 1]
          /\ UNCHANGED activeTasksCount
     ELSE /\ task' = [task EXCEPT ![c] = "failing"]
          /\ activeTasksCount' = activeTasksCount - 1
          /\ UNCHANGED attempt
  /\ UNCHANGED <<waiter, waited>>

\* Wait for another attempt or, after the last one, call onFailure.
HandlerFails(c) ==
  /\ task[c] = "running"
  /\ IF attempt[c] < MaxRetries
     THEN /\ task' = [task EXCEPT ![c] = "backoff"]
          /\ attempt' = [attempt EXCEPT ![c] = @ + 1]
     ELSE /\ task' = [task EXCEPT ![c] = "failing"]
          /\ UNCHANGED attempt
  /\ UNCHANGED <<activeTasksCount, waiter, waited>>

\* onFailure returns or throws: a double fault is reported and swallowed.
OnFailureSettles(c) == task[c] = "failing" /\ Settle(c, "failed")

-----------------------------------------------------------------------------
(* waitForActiveTasks.                                                     *)

StartWaiting ==
  /\ waiter = "idle"
  /\ waiter' = IF activeTasksCount > 0 THEN "asleep" ELSE "true"
  /\ waited' = 0
  /\ UNCHANGED <<task, attempt, activeTasksCount>>

\* Mutant: as long as tasks are active it sleeps again.
PollForever ==
  /\ waiter = "asleep"
  /\ waiter' = IF activeTasksCount = 0 THEN "true" ELSE "asleep"
  /\ UNCHANGED <<task, attempt, activeTasksCount, waited>>

\* The timer fires, no sooner than it was set for.
Poll ==
  /\ waiter = "asleep"
  /\ \E elapsed \in (waited + 1)..(WaitLimit + 1) :
       /\ waiter' = IF activeTasksCount = 0 THEN "true"
                    ELSE IF elapsed > WaitLimit THEN "false" ELSE "asleep"
       /\ waited' = IF waiter' = "asleep" THEN elapsed ELSE 0
  /\ UNCHANGED <<task, attempt, activeTasksCount>>

StopWaiting ==
  /\ waiter \in {"true", "false"}
  /\ waiter' = "idle"
  /\ UNCHANGED <<task, attempt, activeTasksCount, waited>>

Waiting == StartWaiting \/ Poll \/ StopWaiting

\* The process dies: nothing of this is persisted.
DispatcherCrash ==
  /\ task' = [c \in Calls |-> IF task[c] \in Unfinished THEN "failed" ELSE task[c]]
  /\ attempt' = [c \in Calls |-> 0]
  /\ activeTasksCount' = 0
  /\ waiter' = "idle"
  /\ waited' = 0

-----------------------------------------------------------------------------
(* Properties.                                                             *)

\* The counter is the number of tasks that are queued, run, wait for a retry
\* or report their failure (in-memory-dispatcher.ts:45-51).
CountIsExact ==
  activeTasksCount = Cardinality({c \in Calls : task[c] \in Unfinished})

\* A shutdown that is told "true" kills no task: none is under way at the
\* moment of the answer, failure handlers included.
TrueMeansIdle ==
  [][waiter # "true" /\ waiter' = "true"
       => \A c \in Calls : task'[c] \notin Unfinished]_dispatcherVars

\* waitForActiveTasks returns, even when a handler never settles or others
\* are dispatched all the time.
WaitEnds == waiter = "asleep" ~> waiter # "asleep"

=============================================================================
