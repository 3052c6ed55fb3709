---------------------------- MODULE ProposalRunner ----------------------------
(***************************************************************************)
(* ProposalRunner::run (src/authoring/runner.rs): each run creates the     *)
(* policy's future, races it against a timer with futures' `select`, and   *)
(* turns whatever happens first into the outcome of one AgentTrace.        *)
(*                                                                         *)
(* A run is a task of some executor.  It is polled when it has been woken; *)
(* `select` polls the policy's future first and the timer only when that   *)
(* is pending.  The policy is the environment: its result may become       *)
(* available at any time, it may forget to register the task's waker, and  *)
(* it may panic while it creates, polls or drops the future.  The timer    *)
(* counts monotonic time and the trace's two timestamps read the wall      *)
(* clock, which an administrator or a time daemon may set back.            *)
(***************************************************************************)
EXTENDS Naturals

CONSTANTS
  Runs,             \* runs of one or more runners, concurrent or in sequence
  Proposals,        \* the proposals a policy can make
  Messages,         \* the texts of errors and panics
  TimeoutMessage,   \* [Runs -> ...], the text of each run's timeout failure
  MaxClock,         \* bound: the wall clock shows 0 .. MaxClock
  MaxMoves,         \* bound: how often it changes
  Faults,           \* which of the policy's and the clock's faults occur
  NotReady, NoOutcome

ASSUME RunnerAssumption ==
  /\ MaxClock \in Nat /\ MaxMoves \in Nat
  /\ Faults \subseteq {"drop_panic", "cancel", "clock_back"}
  /\ TimeoutMessage \in [Runs -> Messages]

\* What a policy does: it answers, returns an error, or panics.
Results ==
  [is: {"propose"}, intent: Proposals] \cup [is: {"no_proposal"}]
    \cup [is: {"error", "panic"}, message: Messages]

FailureKinds == {"PolicyError", "Timeout", "Panic"}

Failed(kind, message) == [is |-> "failed", kind |-> kind, message |-> message]

Outcomes ==
  [is: {"proposed"}, intent: Proposals] \cup [is: {"no_proposal"}]
    \cup [is: {"failed"}, kind: FailureKinds, message: Messages]

ASSUME SentinelAssumption == NotReady \notin Results /\ NoOutcome \notin Outcomes

VARIABLES
  phase,        \* where each run is
  future,       \* the policy's future
  timer,        \* the run's Delay
  timerWaker,   \* the Delay holds the task's waker
  policyWaker,  \* the policy's future holds the task's waker
  woken,        \* the executor has been told to poll the task
  ready,        \* the policy's result, once it is available
  outcome,      \* the run's TraceOutcome
  now, moves,   \* the wall clock, and how often it has changed
  startedAt, completedAt,
  setBack,      \* history: the runs during which the clock was set back
  readyAtPoll   \* history: the policy's result was available when this poll began

taskVars == <<timer, timerWaker, policyWaker, woken, ready, readyAtPoll>>
clockVars == <<now, moves, startedAt, completedAt, setBack>>
vars == <<phase, future, outcome, taskVars, clockVars>>

Phases == {"idle", "proposing", "polling", "polled", "suspended", "dropping",
           "finishing", "returned", "escaped", "cancelled"}

\* Every variable keeps its type: an outcome is one of the trace's, never a
\* policy's raw result.
TypeOK ==
  /\ phase \in [Runs -> Phases]
  /\ future \in [Runs -> {"none", "live", "done", "dropped"}]
  /\ timer \in [Runs -> {"none", "armed", "elapsed"}]
  /\ timerWaker \in [Runs -> BOOLEAN]
  /\ policyWaker \in [Runs -> BOOLEAN]
  /\ woken \in [Runs -> BOOLEAN]
  /\ ready \in [Runs -> Results \cup {NotReady}]
  /\ outcome \in [Runs -> Outcomes \cup {NoOutcome}]
  /\ now \in 0 .. MaxClock /\ moves \in 0 .. MaxMoves
  /\ startedAt \in [Runs -> 0 .. MaxClock]
  /\ completedAt \in [Runs -> 0 .. MaxClock]
  /\ setBack \subseteq Runs
  /\ readyAtPoll \in [Runs -> BOOLEAN]

Init ==
  /\ phase = [r \in Runs |-> "idle"]
  /\ future = [r \in Runs |-> "none"]
  /\ timer = [r \in Runs |-> "none"]
  /\ timerWaker = [r \in Runs |-> FALSE]
  /\ policyWaker = [r \in Runs |-> FALSE]
  /\ woken = [r \in Runs |-> FALSE]
  /\ ready = [r \in Runs |-> NotReady]
  /\ outcome = [r \in Runs |-> NoOutcome]
  /\ now \in 0 .. MaxClock /\ moves = 0
  /\ startedAt = [r \in Runs |-> 0]
  /\ completedAt = [r \in Runs |-> 0]
  /\ setBack = {}
  /\ readyAtPoll = [r \in Runs |-> FALSE]

Ended(r) == phase[r] \in {"returned", "escaped", "cancelled"}

Goto(r, from, to) ==
  /\ phase[r] = from
  /\ phase' = [phase EXCEPT ![r] = to]

-----------------------------------------------------------------------------
(* The run.                                                                *)

OutcomeOf_PanicAsError(result) ==
  CASE result.is = "propose"     -> [is |-> "proposed", intent |-> result.intent]
    [] result.is = "no_proposal" -> [is |-> "no_proposal"]
    [] OTHER                     -> Failed("PolicyError", result.message)

\* The match on Either::Left, and panic_outcome.
OutcomeOf(result) ==
  CASE result.is = "propose"     -> [is |-> "proposed", intent |-> result.intent]
    [] result.is = "no_proposal" -> [is |-> "no_proposal"]
    [] result.is = "error"       -> Failed("PolicyError", result.message)
    [] result.is = "panic"       -> Failed("Panic", result.message)

\* run reads the clock, then evaluate calls propose.
Start(r) ==
  /\ Goto(r, "idle", "proposing")
  /\ startedAt' = [startedAt EXCEPT ![r] = now]
  /\ UNCHANGED <<future, outcome, taskVars, now, moves, completedAt, setBack>>

\* propose panics: the failure is the outcome, and no timer was ever created.
ProposePanics(r, message) ==
  /\ Goto(r, "proposing", "finishing")
  /\ outcome' = [outcome EXCEPT ![r] = Failed("Panic", message)]
  /\ UNCHANGED <<future, taskVars, clockVars>>

\* propose returns a future: the timer starts now, and select polls at once.
ProposeReturns(r) ==
  /\ Goto(r, "proposing", "polling")
  /\ future' = [future EXCEPT ![r] = "live"]
  /\ timer' = [timer EXCEPT ![r] = "armed"]
  /\ UNCHANGED <<outcome, timerWaker, policyWaker, woken, ready, readyAtPoll, clockVars>>

\* The executor polls a woken task.
Poll(r) ==
  /\ woken[r]
  /\ Goto(r, "suspended", "polling")
  /\ woken' = [woken EXCEPT ![r] = FALSE]
  /\ readyAtPoll' = [readyAtPoll EXCEPT ![r] = ready[r] # NotReady]
  /\ UNCHANGED <<future, outcome, timer, timerWaker, policyWaker, ready, clockVars>>

\* select polls the policy's future: its answer or its panic ends the race.
PolicyAnswers(r) ==
  /\ ready[r] # NotReady
  /\ Goto(r, "polling", "dropping")
  /\ future' = [future EXCEPT ![r] = "done"]
  /\ outcome' = [outcome EXCEPT ![r] = OutcomeOf(ready[r])]
  /\ UNCHANGED <<taskVars, clockVars>>

\* It is pending, and has or has not registered the waker.
PolicyPending(r, registers) ==
  /\ ready[r] = NotReady
  /\ Goto(r, "polling", "polled")
  /\ policyWaker' = [policyWaker EXCEPT ![r] = registers]
  /\ UNCHANGED <<future, outcome, timer, timerWaker, woken, ready, readyAtPoll, clockVars>>

TimerElapsed_First(r) ==
  /\ timer[r] = "elapsed" /\ phase[r] \in {"polling", "polled"}
  /\ phase' = [phase EXCEPT ![r] = "dropping"]
  /\ outcome' = [outcome EXCEPT ![r] = Failed("Timeout", TimeoutMessage[r])]
  /\ UNCHANGED <<future, taskVars, clockVars>>

\* Then select polls the timer: it has elapsed, and the policy lost.
TimerElapsed(r) ==
  /\ timer[r] = "elapsed"
  /\ Goto(r, "polled", "dropping")
  /\ outcome' = [outcome EXCEPT ![r] = Failed("Timeout", TimeoutMessage[r])]
  /\ UNCHANGED <<future, taskVars, clockVars>>

TimerPending_NoWaker(r) ==
  /\ timer[r] = "armed"
  /\ Goto(r, "polled", "suspended")
  /\ UNCHANGED <<future, outcome, taskVars, clockVars>>

\* Or it is pending too: it keeps the waker and the task yields.
TimerPending(r) ==
  /\ timer[r] = "armed"
  /\ Goto(r, "polled", "suspended")
  /\ timerWaker' = [timerWaker EXCEPT ![r] = TRUE]
  /\ UNCHANGED <<future, outcome, timer, policyWaker, woken, ready, readyAtPoll, clockVars>>

DropFuture_Detached(r) ==
  /\ Goto(r, "dropping", "finishing")
  /\ UNCHANGED <<future, outcome, taskVars, clockVars>>

\* select's future goes out of scope, and the policy's future with it.
DropFuture(r) ==
  /\ Goto(r, "dropping", "finishing")
  /\ future' = [future EXCEPT ![r] = "dropped"]
  /\ UNCHANGED <<outcome, taskVars, clockVars>>

\* A panic while it is dropped is not caught: it leaves run, and no trace does.
DropPanics(r) ==
  /\ "drop_panic" \in Faults
  /\ Goto(r, "dropping", "escaped")
  /\ future' = [future EXCEPT ![r] = "dropped"]
  /\ UNCHANGED <<outcome, taskVars, clockVars>>

\* run reads the clock again and returns the trace.
Finish(r) ==
  /\ Goto(r, "finishing", "returned")
  /\ completedAt' = [completedAt EXCEPT ![r] = now]
  /\ UNCHANGED <<future, outcome, taskVars, now, moves, startedAt, setBack>>

-----------------------------------------------------------------------------
(* The environment.                                                        *)

\* The caller drops the future of run while it waits.
Cancel(r) ==
  /\ "cancel" \in Faults
  /\ Goto(r, "suspended", "cancelled")
  /\ future' = [future EXCEPT ![r] = "dropped"]
  /\ UNCHANGED <<outcome, taskVars, clockVars>>

\* What the policy waits for happens, or its code reaches its end in a poll.
BecomeReady(r, result) ==
  /\ future[r] = "live" /\ ready[r] = NotReady
  /\ ready' = [ready EXCEPT ![r] = result]
  /\ woken' = [woken EXCEPT ![r] = @ \/ policyWaker[r]]
  /\ UNCHANGED <<phase, future, outcome, timer, timerWaker, policyWaker, readyAtPoll, clockVars>>

\* The timer's thread finds the Delay due and wakes the task it knows of.
Elapse(r) ==
  /\ timer[r] = "armed" /\ future[r] # "dropped"
  /\ timer' = [timer EXCEPT ![r] = "elapsed"]
  /\ woken' = [woken EXCEPT ![r] = @ \/ timerWaker[r]]
  /\ UNCHANGED <<phase, future, outcome, timerWaker, policyWaker, ready, readyAtPoll, clockVars>>

\* The wall clock moves; only a fault moves it back.
ClockMoves(t) ==
  /\ t # now /\ ("clock_back" \in Faults \/ t > now)
  /\ now' = t
  /\ moves < MaxMoves /\ moves' = moves + 1
  /\ setBack' = setBack \cup {r \in Runs : t < now /\ phase[r] # "idle" /\ ~Ended(r)}
  /\ UNCHANGED <<phase, future, outcome, taskVars, startedAt, completedAt>>

RunStep(r) ==
  \/ ProposeReturns(r) \/ \E m \in Messages : ProposePanics(r, m)
  \/ Poll(r) \/ PolicyAnswers(r) \/ \E b \in BOOLEAN : PolicyPending(r, b)
  \/ TimerElapsed(r) \/ TimerPending(r) \/ DropFuture(r) \/ DropPanics(r) \/ Finish(r)

Environment ==
  \/ \E r \in Runs : Cancel(r) \/ Elapse(r) \/ \E result \in Results : BecomeReady(r, result)
  \/ \E t \in 0 .. MaxClock : ClockMoves(t)

Next ==
  \/ \E r \in Runs : Start(r) \/ RunStep(r)
  \/ Environment

Spec == Init /\ [][Next]_vars

-----------------------------------------------------------------------------
(* Properties.                                                             *)

\* An outcome tells of a result of the policy.
Reports(told, result) ==
  CASE result.is = "propose" -> told.is = "proposed" /\ told.intent = result.intent
    [] result.is = "no_proposal" -> told.is = "no_proposal"
    [] result.is = "error" -> told.is = "failed" /\ told.kind = "PolicyError"
    [] result.is = "panic" -> told.is = "failed" /\ told.kind = "Panic"

\* A trace does not complete before it started, unless the wall clock was set
\* back meanwhile: run reads it twice.  tests/authoring.rs:45 and
\* tests/contract_fixtures.rs:306 assert it without the condition.
TraceOrdered ==
  \A r \in Runs \ setBack : phase[r] = "returned" => completedAt[r] >= startedAt[r]

\* The trace reports what happened: a timeout only when the timer elapsed, a
\* decision, error or panic only when it is the one the policy produced
\* (README, ProposalRunner: "Failure trace"), and its times are in order.
OutcomeFaithful ==
  /\ TraceOrdered
  /\ \A r \in Runs : outcome[r] # NoOutcome =>
       \/ outcome[r].is = "failed" /\ outcome[r].kind = "Timeout" /\ timer[r] = "elapsed"
       \/ ready[r] \in Results /\ Reports(outcome[r], ready[r])
       \/ future[r] = "none" /\ outcome[r].is = "failed" /\ outcome[r].kind = "Panic"

\* An answer that was there when the last poll began is never discarded for a
\* timer that elapsed too: select prefers the policy.
ReadyBeatsTimeout ==
  \A r \in Runs : outcome[r] # NoOutcome /\ readyAtPoll[r] =>
    ~(outcome[r].is = "failed" /\ outcome[r].kind = "Timeout")

\* A run that has ended left no policy future running behind it.
NothingDetached == \A r \in Runs : Ended(r) => future[r] \in {"none", "dropped"}
===============================================================================
