-------------------------------- MODULE Shadow --------------------------------
(***************************************************************************)
(* ShadowEvaluator::evaluate (src/assurance/shadow.rs): runs the baseline  *)
(* policy, then the candidate, over the same observation, each with its    *)
(* own runner, and lists the fields in which the two outcomes differ.  The *)
(* two runs are runs of ProposalRunner; the evaluation is the task that    *)
(* polls them, so a panic that escapes a run ends the evaluation too.      *)
(***************************************************************************)
EXTENDS ProposalRunner

CONSTANTS Baseline, Candidate, NoDifference, PositionIds, InstrumentIds, Quantities

ASSUME ShadowAssumption ==
  /\ Runs = {Baseline, Candidate} /\ Baseline # Candidate
  /\ Proposals \subseteq [position_id: PositionIds, instrument_id: InstrumentIds, quantity: Quantities]

VARIABLE differing   \* differing_fields of the result, or NoDifference before it

shadowVars == <<vars, differing>>

ProposalFields == {"position_id", "instrument_id", "quantity"}

DifferingFields_Unqualified(b, c) ==
  CASE b.is # c.is -> {"outcome"}
    [] b.is = c.is /\ b.is = "no_proposal" -> {}
    [] b.is = c.is /\ b.is = "proposed" ->
         {f \in ProposalFields : b.intent[f] # c.intent[f]}
    [] b.is = c.is /\ b.is = "failed" -> {f \in {"kind"} : b[f] # c[f]}

\* differing_fields: field by field for two outcomes of the same kind.
DifferingFields(b, c) ==
  CASE b.is # c.is -> {"outcome"}
    [] b.is = c.is /\ b.is = "no_proposal" -> {}
    [] b.is = c.is /\ b.is = "proposed" ->
         {f \in ProposalFields : b.intent[f] # c.intent[f]}
    [] b.is = c.is /\ b.is = "failed" -> {f \in {"kind", "message"} : b[f] # c[f]}

ShadowInit == Init /\ differing = NoDifference

\* evaluate awaits the two runs one after the other.
MayStart(r) == r = Candidate => phase[Baseline] = "returned"

StartRun(r) == MayStart(r) /\ Start(r) /\ UNCHANGED differing

Compare ==
  /\ phase[Candidate] = "returned" /\ differing = NoDifference
  /\ differing' = DifferingFields(outcome[Baseline], outcome[Candidate])
  /\ UNCHANGED vars

ShadowNext ==
  \/ \E r \in Runs : StartRun(r)
  \/ \E r \in Runs : RunStep(r) /\ UNCHANGED differing
  \/ Environment /\ UNCHANGED differing
  \/ Compare

ShadowSpec == ShadowInit /\ [][ShadowNext]_shadowVars

\* The executor polls what is woken, calls into the policies return, and the
\* timer's thread runs.  Nothing is assumed of a policy's result or wakers.
ShadowFairness ==
  /\ \A r \in Runs : WF_shadowVars(StartRun(r))
  /\ \A r \in Runs : WF_shadowVars(RunStep(r) /\ UNCHANGED differing)
  /\ \A r \in Runs : WF_shadowVars(Elapse(r) /\ UNCHANGED differing)
  /\ WF_shadowVars(Compare)

FairShadowSpec == ShadowSpec /\ ShadowFairness

-----------------------------------------------------------------------------
(* Properties.                                                             *)

\* The comparison names fields of outcomes, and the runs keep their types.
ShadowTypeOK ==
  /\ TypeOK
  /\ differing = NoDifference
       \/ differing \subseteq ProposalFields \cup {"outcome", "kind", "message"}

\* ShadowResult::is_match answers the question its comment states: "both
\* complete local outcomes match".  It is decided after both runs are over,
\* and no field in which two outcomes can differ is left out.
MatchIsEquality ==
  /\ ShadowTypeOK
  /\ differing # NoDifference =>
       /\ \A r \in Runs : phase[r] = "returned"
       /\ differing = {} <=> outcome[Baseline] = outcome[Candidate]

\* An evaluation ends with a comparison, with a panic that escaped one of the
\* runs or with its cancellation, even when neither policy is ever ready or
\* wakes the task: the timers do (README, ProposalRunner).
EvaluationEnds ==
  <>(differing # NoDifference \/ \E r \in Runs : phase[r] \in {"escaped", "cancelled"})
===============================================================================
