---------------------------- MODULE Shadow_proofs -----------------------------
(***************************************************************************)
(* What a trace may say and what a run leaves behind, for every number of  *)
(* runs, every policy and every fault.                                     *)
(***************************************************************************)
EXTENDS Shadow, TLAPS

\* Nothing has happened to a run before its future exists.
Fresh(r) ==
  phase[r] \in {"idle", "proposing"} =>
    future[r] = "none" /\ ready[r] = NotReady /\ outcome[r] = NoOutcome /\ readyAtPoll[r] = FALSE

\* A run that waits is undecided, and its policy's future is alive.
Waiting(r) ==
  phase[r] \in {"polling", "polled", "suspended"} => future[r] = "live" /\ outcome[r] = NoOutcome

\* A run that has an outcome still has, or has dropped, the future.
Decided(r) ==
  /\ phase[r] \in {"dropping", "finishing", "returned"} => outcome[r] # NoOutcome
  /\ phase[r] = "cancelled" => outcome[r] = NoOutcome
  /\ phase[r] = "dropping" => future[r] # "none"
  /\ phase[r] \in {"finishing", "returned", "escaped", "cancelled"} => future[r] \in {"none", "dropped"}

\* What a poll found when it began.
AtPoll(r) ==
  /\ phase[r] = "polling" /\ readyAtPoll[r] => ready[r] # NotReady
  /\ phase[r] = "polled" => readyAtPoll[r] = FALSE

\* While a run is under way, the wall clock does not show less than at its start,
\* unless it was set back.
Timed(r) ==
  r \in setBack \/ phase[r] = "idle" \/ Ended(r) \/ startedAt[r] <= now

\* The inductive invariant.
IInv ==
  /\ TypeOK
  /\ \A r \in Runs : Fresh(r) /\ Waiting(r) /\ Decided(r) /\ AtPoll(r) /\ Timed(r)
  /\ OutcomeFaithful /\ ReadyBeatsTimeout

\* The outcome of a result is one of the trace's and tells of that result.
LEMMA OutcomeTells ==
  ASSUME NEW result \in Results
  PROVE  /\ OutcomeOf(result) \in Outcomes /\ Reports(OutcomeOf(result), result)
         /\ ~(OutcomeOf(result).is = "failed" /\ OutcomeOf(result).kind = "Timeout")
<1>1. CASE result \in [is: {"propose"}, intent: Proposals]
  BY <1>1 DEF OutcomeOf, Outcomes, Reports
<1>2. CASE result \in [is: {"no_proposal"}]
  BY <1>2 DEF OutcomeOf, Outcomes, Reports
<1>3. CASE result \in [is: {"error", "panic"}, message: Messages]
  BY <1>3 DEF OutcomeOf, Outcomes, Reports, Failed, FailureKinds
<1>. QED  BY <1>1, <1>2, <1>3 DEF Results

LEMMA FailureTyped ==
  ASSUME NEW kind \in FailureKinds, NEW message \in Messages
  PROVE  /\ Failed(kind, message) \in Outcomes
         /\ Failed(kind, message).is = "failed" /\ Failed(kind, message).kind = kind
BY DEF Failed, Outcomes

\* A run reads the clock when it starts.
LEMMA StartIInv ==
  ASSUME IInv, NEW r \in Runs, Start(r)
  PROVE  IInv'
<1> USE RunnerAssumption, SentinelAssumption DEF IInv, Start, Goto, taskVars, clockVars
<1>1. TypeOK'
  BY DEF TypeOK, Phases
<1>2. \A q \in Runs : Fresh(q)' /\ Waiting(q)' /\ Decided(q)' /\ AtPoll(q)' /\ Timed(q)'
  BY DEF TypeOK, Fresh, Waiting, Decided, AtPoll, Timed, Ended
<1>3. OutcomeFaithful'
  BY DEF TypeOK, OutcomeFaithful, TraceOrdered, Fresh, Waiting, Decided, Timed, Ended
<1>4. ReadyBeatsTimeout'
  BY DEF TypeOK, ReadyBeatsTimeout, Fresh, Waiting, Decided, AtPoll
<1>. QED  BY <1>1, <1>2, <1>3, <1>4

\* A panic of propose is the outcome, and there is no future.
LEMMA ProposePanicsIInv ==
  ASSUME IInv, NEW r \in Runs, NEW message \in Messages, ProposePanics(r, message)
  PROVE  IInv'
<1> USE RunnerAssumption, SentinelAssumption DEF IInv, ProposePanics, Goto, taskVars, clockVars
<1>0. /\ Failed("Panic", message) \in Outcomes
      /\ Failed("Panic", message).is = "failed" /\ Failed("Panic", message).kind = "Panic"
  BY FailureTyped DEF FailureKinds
<1>1. TypeOK'
  BY <1>0 DEF TypeOK, Phases
<1>2. \A q \in Runs : Fresh(q)' /\ Waiting(q)' /\ Decided(q)' /\ AtPoll(q)' /\ Timed(q)'
  BY <1>0 DEF TypeOK, Fresh, Waiting, Decided, AtPoll, Timed, Ended
<1>3. OutcomeFaithful'
  BY <1>0 DEF TypeOK, OutcomeFaithful, TraceOrdered, Fresh, Waiting, Decided, Timed, Ended
<1>4. ReadyBeatsTimeout'
  BY <1>0 DEF TypeOK, ReadyBeatsTimeout, Fresh, Waiting, Decided, AtPoll
<1>. QED  BY <1>1, <1>2, <1>3, <1>4

\* The future exists and nothing is decided.
LEMMA ProposeReturnsIInv ==
  ASSUME IInv, NEW r \in Runs, ProposeReturns(r)
  PROVE  IInv'
<1> USE RunnerAssumption, SentinelAssumption DEF IInv, ProposeReturns, Goto, taskVars, clockVars
<1>1. TypeOK'
  BY DEF TypeOK, Phases
<1>2. \A q \in Runs : Fresh(q)' /\ Waiting(q)' /\ Decided(q)' /\ AtPoll(q)' /\ Timed(q)'
  BY DEF TypeOK, Fresh, Waiting, Decided, AtPoll, Timed, Ended
<1>3. OutcomeFaithful'
  BY DEF TypeOK, OutcomeFaithful, TraceOrdered, Fresh, Waiting, Decided, Timed, Ended
<1>4. ReadyBeatsTimeout'
  BY DEF TypeOK, ReadyBeatsTimeout, Fresh, Waiting, Decided, AtPoll
<1>. QED  BY <1>1, <1>2, <1>3, <1>4

\* A poll notes whether the answer is there.
LEMMA PollIInv ==
  ASSUME IInv, NEW r \in Runs, Poll(r)
  PROVE  IInv'
<1> USE RunnerAssumption, SentinelAssumption DEF IInv, Poll, Goto, taskVars, clockVars
<1>1. TypeOK'
  BY DEF TypeOK, Phases
<1>2. \A q \in Runs : Fresh(q)' /\ Waiting(q)' /\ Decided(q)' /\ AtPoll(q)' /\ Timed(q)'
  <2>1. \A q \in Runs : Fresh(q)' /\ Waiting(q)' /\ Decided(q)'
    BY DEF TypeOK, Fresh, Waiting, Decided
  <2>2. \A q \in Runs : AtPoll(q)'
    BY DEF TypeOK, AtPoll
  <2>3. \A q \in Runs : Timed(q)'
    BY DEF TypeOK, Timed, Ended
  <2>. QED  BY <2>1, <2>2, <2>3
<1>3. OutcomeFaithful'
  BY DEF TypeOK, OutcomeFaithful, TraceOrdered, Fresh, Waiting, Decided, Timed, Ended
<1>4. ReadyBeatsTimeout'
  BY DEF TypeOK, ReadyBeatsTimeout, Fresh, Waiting, Decided, AtPoll
<1>. QED  BY <1>1, <1>2, <1>3, <1>4

\* The policy decides the race with its own result.
LEMMA PolicyAnswersIInv ==
  ASSUME IInv, NEW r \in Runs, PolicyAnswers(r)
  PROVE  IInv'
<1> USE RunnerAssumption, SentinelAssumption DEF IInv, PolicyAnswers, Goto, taskVars, clockVars
<1>0. /\ OutcomeOf(ready[r]) \in Outcomes /\ Reports(OutcomeOf(ready[r]), ready[r])
      /\ ~(OutcomeOf(ready[r]).is = "failed" /\ OutcomeOf(ready[r]).kind = "Timeout")
  BY OutcomeTells DEF TypeOK
<1>1. TypeOK'
  BY <1>0 DEF TypeOK, Phases
<1>2. \A q \in Runs : Fresh(q)' /\ Waiting(q)' /\ Decided(q)' /\ AtPoll(q)' /\ Timed(q)'
  BY <1>0 DEF TypeOK, Fresh, Waiting, Decided, AtPoll, Timed, Ended
<1>3. OutcomeFaithful'
  BY <1>0 DEF TypeOK, OutcomeFaithful, TraceOrdered, Fresh, Waiting, Decided, Timed, Ended
<1>4. ReadyBeatsTimeout'
  BY <1>0 DEF TypeOK, ReadyBeatsTimeout, Fresh, Waiting, Decided, AtPoll
<1>. QED  BY <1>1, <1>2, <1>3, <1>4

\* A pending policy had no answer when the poll began.
LEMMA PolicyPendingIInv ==
  ASSUME IInv, NEW r \in Runs, NEW registers \in BOOLEAN, PolicyPending(r, registers)
  PROVE  IInv'
<1> USE RunnerAssumption, SentinelAssumption DEF IInv, PolicyPending, Goto, taskVars, clockVars
<1>1. TypeOK'
  BY DEF TypeOK, Phases
<1>2. \A q \in Runs : Fresh(q)' /\ Waiting(q)' /\ Decided(q)' /\ AtPoll(q)' /\ Timed(q)'
  BY DEF TypeOK, Fresh, Waiting, Decided, AtPoll, Timed, Ended
<1>3. OutcomeFaithful'
  BY DEF TypeOK, OutcomeFaithful, TraceOrdered, Fresh, Waiting, Decided, Timed, Ended
<1>4. ReadyBeatsTimeout'
  BY DEF TypeOK, ReadyBeatsTimeout, Fresh, Waiting, Decided, AtPoll
<1>. QED  BY <1>1, <1>2, <1>3, <1>4

\* The timer decides only after the policy was asked.
LEMMA TimerElapsedIInv ==
  ASSUME IInv, NEW r \in Runs, TimerElapsed(r)
  PROVE  IInv'
<1> USE RunnerAssumption, SentinelAssumption DEF IInv, TimerElapsed, Goto, taskVars, clockVars
<1>0. /\ Failed("Timeout", TimeoutMessage[r]) \in Outcomes
      /\ Failed("Timeout", TimeoutMessage[r]).is = "failed" /\ Failed("Timeout", TimeoutMessage[r]).kind = "Timeout"
  BY FailureTyped DEF FailureKinds
<1>1. TypeOK'
  BY <1>0 DEF TypeOK, Phases
<1>2. \A q \in Runs : Fresh(q)' /\ Waiting(q)' /\ Decided(q)' /\ AtPoll(q)' /\ Timed(q)'
  BY <1>0 DEF TypeOK, Fresh, Waiting, Decided, AtPoll, Timed, Ended
<1>3. OutcomeFaithful'
  BY <1>0 DEF TypeOK, OutcomeFaithful, TraceOrdered, Fresh, Waiting, Decided, Timed, Ended
<1>4. ReadyBeatsTimeout'
  BY <1>0 DEF TypeOK, ReadyBeatsTimeout, Fresh, Waiting, Decided, AtPoll
<1>. QED  BY <1>1, <1>2, <1>3, <1>4

\* Nobody has decided: the task yields.
LEMMA TimerPendingIInv ==
  ASSUME IInv, NEW r \in Runs, TimerPending(r)
  PROVE  IInv'
<1> USE RunnerAssumption, SentinelAssumption DEF IInv, TimerPending, Goto, taskVars, clockVars
<1>1. TypeOK'
  BY DEF TypeOK, Phases
<1>2. \A q \in Runs : Fresh(q)' /\ Waiting(q)' /\ Decided(q)' /\ AtPoll(q)' /\ Timed(q)'
  BY DEF TypeOK, Fresh, Waiting, Decided, AtPoll, Timed, Ended
<1>3. OutcomeFaithful'
  BY DEF TypeOK, OutcomeFaithful, TraceOrdered, Fresh, Waiting, Decided, Timed, Ended
<1>4. ReadyBeatsTimeout'
  BY DEF TypeOK, ReadyBeatsTimeout, Fresh, Waiting, Decided, AtPoll
<1>. QED  BY <1>1, <1>2, <1>3, <1>4

\* The future is dropped, whoever decided.
LEMMA DropFutureIInv ==
  ASSUME IInv, NEW r \in Runs, DropFuture(r)
  PROVE  IInv'
<1> USE RunnerAssumption, SentinelAssumption DEF IInv, DropFuture, Goto, taskVars, clockVars
<1>1. TypeOK'
  BY DEF TypeOK, Phases
<1>2. \A q \in Runs : Fresh(q)' /\ Waiting(q)' /\ Decided(q)' /\ AtPoll(q)' /\ Timed(q)'
  BY DEF TypeOK, Fresh, Waiting, Decided, AtPoll, Timed, Ended
<1>3. OutcomeFaithful'
  BY DEF TypeOK, OutcomeFaithful, TraceOrdered, Fresh, Waiting, Decided, Timed, Ended
<1>4. ReadyBeatsTimeout'
  BY DEF TypeOK, ReadyBeatsTimeout, Fresh, Waiting, Decided, AtPoll
<1>. QED  BY <1>1, <1>2, <1>3, <1>4

\* It is dropped even when that panics.
LEMMA DropPanicsIInv ==
  ASSUME IInv, NEW r \in Runs, DropPanics(r)
  PROVE  IInv'
<1> USE RunnerAssumption, SentinelAssumption DEF IInv, DropPanics, Goto, taskVars, clockVars
<1>1. TypeOK'
  BY DEF TypeOK, Phases
<1>2. \A q \in Runs : Fresh(q)' /\ Waiting(q)' /\ Decided(q)' /\ AtPoll(q)' /\ Timed(q)'
  BY DEF TypeOK, Fresh, Waiting, Decided, AtPoll, Timed, Ended
<1>3. OutcomeFaithful'
  BY DEF TypeOK, OutcomeFaithful, TraceOrdered, Fresh, Waiting, Decided, Timed, Ended
<1>4. ReadyBeatsTimeout'
  BY DEF TypeOK, ReadyBeatsTimeout, Fresh, Waiting, Decided, AtPoll
<1>. QED  BY <1>1, <1>2, <1>3, <1>4

\* The trace is complete when the clock is read again.
LEMMA FinishIInv ==
  ASSUME IInv, NEW r \in Runs, Finish(r)
  PROVE  IInv'
<1> USE RunnerAssumption, SentinelAssumption DEF IInv, Finish, Goto, taskVars, clockVars
<1>1. TypeOK'
  BY DEF TypeOK, Phases
<1>2. \A q \in Runs : Fresh(q)' /\ Waiting(q)' /\ Decided(q)' /\ AtPoll(q)' /\ Timed(q)'
  BY DEF TypeOK, Fresh, Waiting, Decided, AtPoll, Timed, Ended
<1>3. OutcomeFaithful'
  BY DEF TypeOK, OutcomeFaithful, TraceOrdered, Fresh, Waiting, Decided, Timed, Ended
<1>4. ReadyBeatsTimeout'
  BY DEF TypeOK, ReadyBeatsTimeout, Fresh, Waiting, Decided, AtPoll
<1>. QED  BY <1>1, <1>2, <1>3, <1>4

\* A run that is cancelled drops the future undecided.
LEMMA CancelIInv ==
  ASSUME IInv, NEW r \in Runs, Cancel(r)
  PROVE  IInv'
<1> USE RunnerAssumption, SentinelAssumption DEF IInv, Cancel, Goto, taskVars, clockVars
<1>1. TypeOK'
  BY DEF TypeOK, Phases
<1>2. \A q \in Runs : Fresh(q)' /\ Waiting(q)' /\ Decided(q)' /\ AtPoll(q)' /\ Timed(q)'
  BY DEF TypeOK, Fresh, Waiting, Decided, AtPoll, Timed, Ended
<1>3. OutcomeFaithful'
  BY DEF TypeOK, OutcomeFaithful, TraceOrdered, Fresh, Waiting, Decided, Timed, Ended
<1>4. ReadyBeatsTimeout'
  BY DEF TypeOK, ReadyBeatsTimeout, Fresh, Waiting, Decided, AtPoll
<1>. QED  BY <1>1, <1>2, <1>3, <1>4

\* A result, once there, does not change.
LEMMA BecomeReadyIInv ==
  ASSUME IInv, NEW r \in Runs, NEW result \in Results, BecomeReady(r, result)
  PROVE  IInv'
<1> USE RunnerAssumption, SentinelAssumption DEF IInv, BecomeReady, Goto, taskVars, clockVars
<1>1. TypeOK'
  BY DEF TypeOK, Phases
<1>2. \A q \in Runs : Fresh(q)' /\ Waiting(q)' /\ Decided(q)' /\ AtPoll(q)' /\ Timed(q)'
  BY DEF TypeOK, Fresh, Waiting, Decided, AtPoll, Timed, Ended
<1>3. OutcomeFaithful'
  BY DEF TypeOK, OutcomeFaithful, TraceOrdered, Fresh, Waiting, Decided, Timed, Ended
<1>4. ReadyBeatsTimeout'
  BY DEF TypeOK, ReadyBeatsTimeout, Fresh, Waiting, Decided, AtPoll
<1>. QED  BY <1>1, <1>2, <1>3, <1>4

\* A timer that has elapsed stays so.
LEMMA ElapseIInv ==
  ASSUME IInv, NEW r \in Runs, Elapse(r)
  PROVE  IInv'
<1> USE RunnerAssumption, SentinelAssumption DEF IInv, Elapse, Goto, taskVars, clockVars
<1>1. TypeOK'
  BY DEF TypeOK, Phases
<1>2. \A q \in Runs : Fresh(q)' /\ Waiting(q)' /\ Decided(q)' /\ AtPoll(q)' /\ Timed(q)'
  BY DEF TypeOK, Fresh, Waiting, Decided, AtPoll, Timed, Ended
<1>3. OutcomeFaithful'
  BY DEF TypeOK, OutcomeFaithful, TraceOrdered, Fresh, Waiting, Decided, Timed, Ended
<1>4. ReadyBeatsTimeout'
  BY DEF TypeOK, ReadyBeatsTimeout, Fresh, Waiting, Decided, AtPoll
<1>. QED  BY <1>1, <1>2, <1>3, <1>4

LEMMA ClockMovesIInv ==
  ASSUME IInv, NEW t \in 0 .. MaxClock, ClockMoves(t)
  PROVE  IInv'
<1> USE RunnerAssumption DEF IInv, ClockMoves, taskVars
<1>1. TypeOK'
  BY DEF TypeOK
<1>2. \A q \in Runs : Fresh(q)' /\ Waiting(q)' /\ Decided(q)' /\ AtPoll(q)' /\ Timed(q)'
  BY DEF TypeOK, Fresh, Waiting, Decided, AtPoll, Timed, Ended
<1>3. OutcomeFaithful' /\ ReadyBeatsTimeout'
  BY DEF OutcomeFaithful, TraceOrdered, ReadyBeatsTimeout
<1>. QED  BY <1>1, <1>2, <1>3

LEMMA InitIInv == Init => IInv
BY RunnerAssumption DEF Init, IInv, TypeOK, Phases, Fresh, Waiting, Decided, AtPoll, Timed, Ended,
   OutcomeFaithful, TraceOrdered, ReadyBeatsTimeout

LEMMA NextIInv == IInv /\ [Next]_vars => IInv'
<1> SUFFICES ASSUME IInv, [Next]_vars PROVE IInv'  OBVIOUS
<1>1. CASE UNCHANGED vars
  BY <1>1 DEF vars, taskVars, clockVars, IInv, TypeOK, Fresh, Waiting, Decided, AtPoll, Timed, Ended,
     OutcomeFaithful, TraceOrdered, ReadyBeatsTimeout
<1>2. ASSUME NEW r \in Runs, Start(r) \/ RunStep(r)  PROVE IInv'
  BY <1>2, StartIInv, ProposeReturnsIInv, ProposePanicsIInv, PollIInv, PolicyAnswersIInv, PolicyPendingIInv,
     TimerElapsedIInv, TimerPendingIInv, DropFutureIInv, DropPanicsIInv, FinishIInv DEF RunStep
<1>3. CASE Environment
  BY <1>3, CancelIInv, ElapseIInv, BecomeReadyIInv, ClockMovesIInv DEF Environment
<1>. QED  BY <1>1, <1>2, <1>3 DEF Next

THEOREM Inductive == Spec => []IInv
  BY InitIInv, NextIInv, PTL DEF Spec

\* A trace says what happened: a timeout only of a timer that elapsed, a
\* decision, error or panic only if the policy produced it, and without a
\* clock fault it completes after it started (ProposalRunner::evaluate).
THEOREM TraceFaithful == Spec => []OutcomeFaithful
<1>. IInv => OutcomeFaithful  BY DEF IInv
<1>. QED  BY Inductive, PTL

\* The timer does not win over an answer that the last poll could have taken
\* (the order of select's arguments).
THEOREM PolicyFirst == Spec => []ReadyBeatsTimeout
<1>. IInv => ReadyBeatsTimeout  BY DEF IInv
<1>. QED  BY Inductive, PTL

\* No run that ended, by whatever way, leaves its policy's future running.
THEOREM NothingLeft == Spec => []NothingDetached
<1>. IInv => NothingDetached  BY DEF IInv, Decided, NothingDetached, Ended
<1>. QED  BY Inductive, PTL

-----------------------------------------------------------------------------
(***************************************************************************)
(* The shadow evaluation, for every pair of policies: what holds of a run  *)
(* holds of the two it consists of, and the comparison is equality.        *)
(***************************************************************************)

\* The candidate runs after the baseline, and a comparison is of two traces
\* that are complete.
InTurn ==
  /\ phase[Candidate] # "idle" => phase[Baseline] = "returned"
  /\ differing # NoDifference =>
       /\ phase[Candidate] = "returned"
       /\ differing = DifferingFields(outcome[Baseline], outcome[Candidate])

\* The inductive invariant.
ShadowIInv == IInv /\ InTurn

\* Two outcomes without a differing field are the same.
LEMMA NoFieldLeftOut ==
  ASSUME NEW b \in Outcomes, NEW c \in Outcomes
  PROVE  /\ DifferingFields(b, c) = {} <=> b = c
         /\ DifferingFields(b, c) \subseteq ProposalFields \cup {"outcome", "kind", "message"}
<1>1. CASE b.is # c.is
  BY <1>1 DEF DifferingFields
<1>2. CASE b.is = "no_proposal" /\ c.is = "no_proposal"
  BY <1>2 DEF DifferingFields, Outcomes
<1>3. CASE b.is = "proposed" /\ c.is = "proposed"
  <2>1. /\ b \in [is: {"proposed"}, intent: Proposals] /\ c \in [is: {"proposed"}, intent: Proposals]
    BY <1>3 DEF Outcomes
  <2>2. b.intent = c.intent <=> \A f \in ProposalFields : b.intent[f] = c.intent[f]
    BY <2>1, ShadowAssumption DEF ProposalFields
  <2>3. b = c <=> b.intent = c.intent
    BY <2>1
  <2>4. DifferingFields(b, c) = {f \in ProposalFields : b.intent[f] # c.intent[f]}
    BY <1>3 DEF DifferingFields
  <2>. QED  BY <2>2, <2>3, <2>4
<1>4. CASE b.is = "failed" /\ c.is = "failed"
  <2>1. /\ b \in [is: {"failed"}, kind: FailureKinds, message: Messages]
        /\ c \in [is: {"failed"}, kind: FailureKinds, message: Messages]
    BY <1>4 DEF Outcomes
  <2>2. b = c <=> b["kind"] = c["kind"] /\ b["message"] = c["message"]
    BY <2>1
  <2>3. DifferingFields(b, c) = {f \in {"kind", "message"} : b[f] # c[f]}
    BY <1>4 DEF DifferingFields
  <2>. QED  BY <2>2, <2>3
<1>. QED  BY <1>1, <1>2, <1>3, <1>4 DEF Outcomes

\* A step of the evaluation is a step of its runs, or leaves them alone.
LEMMA RunsStep == ShadowNext => [Next]_vars
BY DEF ShadowNext, StartRun, Compare, Next

\* A run that has returned makes no step.
LEMMA ReturnedStays ==
  ASSUME TypeOK, NEW r \in Runs, phase[r] = "returned", [Next]_vars
  PROVE  phase'[r] = "returned" /\ outcome'[r] = outcome[r]
<1>. USE DEF TypeOK
<1>1. CASE UNCHANGED vars
  BY <1>1 DEF vars
<1>2. ASSUME NEW q \in Runs, Start(q) \/ RunStep(q) \/ Cancel(q)
      PROVE  phase'[r] = "returned" /\ outcome'[r] = outcome[r]
  BY <1>2 DEF Goto, RunStep, Start, ProposeReturns, ProposePanics, Poll, PolicyAnswers, PolicyPending,
     TimerElapsed, TimerPending, DropFuture, DropPanics, Finish, Cancel
<1>3. CASE \/ \E q \in Runs : Elapse(q) \/ \E result \in Results : BecomeReady(q, result)
           \/ \E t \in 0 .. MaxClock : ClockMoves(t)
  BY <1>3 DEF Elapse, BecomeReady, ClockMoves
<1>. QED  BY <1>1, <1>2, <1>3 DEF Next, Environment

\* The candidate begins only when MayStart lets it.
LEMMA CandidateWaits ==
  ASSUME TypeOK, phase[Candidate] = "idle", ShadowNext, phase'[Candidate] # "idle"
  PROVE  phase[Baseline] = "returned"
<1>. USE ShadowAssumption DEF TypeOK
<1>1. CASE \E r \in Runs : StartRun(r)
  BY <1>1 DEF StartRun, MayStart, Start, Goto
<1>2. ASSUME NEW q \in Runs, RunStep(q) \/ Cancel(q)
      PROVE  phase'[Candidate] = "idle"
  BY <1>2 DEF Goto, RunStep, ProposeReturns, ProposePanics, Poll, PolicyAnswers, PolicyPending,
     TimerElapsed, TimerPending, DropFuture, DropPanics, Finish, Cancel
<1>3. ASSUME \/ \E q \in Runs : Elapse(q) \/ \E result \in Results : BecomeReady(q, result)
             \/ \E t \in 0 .. MaxClock : ClockMoves(t)
             \/ Compare
      PROVE  phase' = phase
  BY <1>3 DEF Elapse, BecomeReady, ClockMoves, Compare, vars
<1>. QED  BY <1>1, <1>2, <1>3 DEF ShadowNext, Environment

LEMMA ShadowInitIInv == ShadowInit => ShadowIInv
BY InitIInv, ShadowAssumption DEF ShadowInit, ShadowIInv, InTurn, Init

LEMMA ShadowNextIInv == ShadowIInv /\ [ShadowNext]_shadowVars => ShadowIInv'
<1> SUFFICES ASSUME ShadowIInv, [ShadowNext]_shadowVars PROVE ShadowIInv'  OBVIOUS
<1>. USE ShadowAssumption DEF ShadowIInv
<1>1. [Next]_vars
  BY RunsStep DEF shadowVars
<1>2. IInv'
  BY <1>1, NextIInv
<1>3. TypeOK
  BY DEF IInv
<1>4. CASE UNCHANGED shadowVars
  BY <1>2, <1>4 DEF shadowVars, vars, InTurn
<1>5. CASE ShadowNext
  <2>1. phase'[Candidate] # "idle" => phase'[Baseline] = "returned"
    BY <1>1, <1>3, <1>5, CandidateWaits, ReturnedStays DEF InTurn
  <2>2. CASE Compare
    BY <1>2, <2>1, <2>2 DEF Compare, InTurn, vars
  <2>3. CASE differing' = differing
    BY <1>1, <1>2, <1>3, <2>1, <2>3, ReturnedStays DEF InTurn
  <2>. QED  BY <1>5, <2>2, <2>3 DEF ShadowNext, StartRun
<1>. QED  BY <1>4, <1>5

THEOREM ShadowInductive == ShadowSpec => []ShadowIInv
  BY ShadowInitIInv, ShadowNextIInv, PTL DEF ShadowSpec

\* A match is decided after both runs, and says that the outcomes are equal
\* (differing_fields and ShadowResult::is_match).
THEOREM MatchDecides == ShadowSpec => []MatchIsEquality
<1>1. ShadowIInv => MatchIsEquality
  <2> SUFFICES ASSUME ShadowIInv PROVE MatchIsEquality  OBVIOUS
  <2>1. \A r \in Runs : phase[r] = "returned" => outcome[r] \in Outcomes
    BY DEF ShadowIInv, IInv, TypeOK, Decided
  <2>2. differing # NoDifference =>
          /\ phase[Baseline] = "returned" /\ phase[Candidate] = "returned"
          /\ differing = DifferingFields(outcome[Baseline], outcome[Candidate])
    BY DEF ShadowIInv, InTurn
  <2>. QED
    BY <2>1, <2>2, NoFieldLeftOut, ShadowAssumption DEF MatchIsEquality, ShadowTypeOK, ShadowIInv, IInv
<1>. QED  BY <1>1, ShadowInductive, PTL

\* What is proved of any runs holds of the two of an evaluation: it implements
\* ProposalRunner (ShadowEvaluator::evaluate awaits ProposalRunner::evaluate).
THEOREM ShadowIsRuns == ShadowSpec => Spec
<1>1. ShadowInit => Init  BY DEF ShadowInit
<1>2. [ShadowNext]_shadowVars => [Next]_vars  BY RunsStep DEF shadowVars
<1>. QED  BY <1>1, <1>2, PTL DEF ShadowSpec, Spec

===============================================================================
