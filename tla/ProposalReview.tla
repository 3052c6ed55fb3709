---------------------------- MODULE ProposalReview ----------------------------
(***************************************************************************)
(* An agent's handling of one observation: it is built with                *)
(* ObservationBuilder or received, its public fields can be edited         *)
(* (src/testing.rs and examples do), the digest among them, the digest     *)
(* refreshed, a proposal, its own or a policy's, checked against it by     *)
(* AdvisoryValidator while time passes, and a LiveProposalRequest made     *)
(* with Observation::reference, which copies the stored id and digest and  *)
(* checks nothing.                                                         *)
(***************************************************************************)
EXTENDS Fixtures

CONSTANTS
  Drafts,     \* the observations the agent may receive
  Settings,   \* the values it may give to each field while building
  MaxSets,    \* bound: setter calls
  Ids,        \* the ids it may write into the observation
  Digests,    \* the digests it may write into the observation
  Now,        \* the times at which it acts, a set of naturals
  MaxEdits,   \* bound: local edits of one observation
  NoReport

ObservationFields ==
  {"version", "id", "created_at", "expires_at", "grant", "omissions", "retention", "positions",
   "instruments", "digest"}

\* The types of the fields that a check reads a part of, or compares.
FieldTypes ==
  [ created_at |-> Nat, expires_at |-> Nat, retention |-> RetentionClass,
    grant |-> [observations: SUBSET Capabilities, instruments: SUBSET InstrumentIds, expires_at: Nat],
    positions |-> Seq([position_id: PositionIds, instrument_id: InstrumentIds, quantity: Nat,
                       updated_at: Nat]),
    instruments |-> Seq([instrument_id: InstrumentIds, quantity_increment: Nat \ {0}]) ]

Typed(o) ==
  /\ DOMAIN o = ObservationFields
  /\ \A f \in DOMAIN FieldTypes : o[f] \in FieldTypes[f]

\* Serde and the setters' parameters admit nothing else.
ASSUME ReviewAssumption ==
  /\ Now \subseteq Nat /\ Quantities \subseteq Nat
  /\ FixturePosition \in PositionIds /\ FixtureInstrument \in InstrumentIds
  /\ \A o \in Drafts : Typed(o)
  /\ \A field \in DOMAIN Settings :
       /\ field \in ObservationFields \ {"digest"}
       /\ field \in DOMAIN FieldTypes => Settings[field] \subseteq FieldTypes[field]

VARIABLES
  phase,      \* "building", "refused" or "review"
  obs,        \* the observation
  now,        \* the agent's clock
  report,     \* the last advisory report, with what it was about
  edits,      \* the number of setter calls or of local edits so far
  digestWritten,  \* history: the stored digest was written since that report
  requests    \* the requests made

vars == <<phase, obs, now, report, edits, digestWritten, requests>>

Init ==
  /\ \/ phase = "review" /\ obs \in Drafts
     \/ phase = "building" /\ obs = BaseObservation(11, 11)
  /\ now \in Now /\ \A t \in Now : now <= t
  /\ report = NoReport
  /\ edits = 0
  /\ digestWritten = FALSE
  /\ requests = {}

\* A setter of ObservationBuilder; the one of the payload sets both views.
Set(field, setting) ==
  /\ phase = "building" /\ edits < MaxSets
  /\ edits' = edits + 1
  /\ obs' = [obs EXCEPT ![field] = setting]
  /\ UNCHANGED <<phase, now, report, digestWritten, requests>>

Build_ValidatesFirst ==
  /\ phase = "building"
  /\ obs' = Refreshed(obs)
  /\ phase' = IF Valid(obs) THEN "review" ELSE "refused"
  /\ edits' = 0
  /\ UNCHANGED <<now, report, digestWritten, requests>>

Build ==
  /\ phase = "building"
  /\ obs' = Refreshed(obs)
  /\ phase' = IF Valid(obs') THEN "review" ELSE "refused"
  /\ edits' = 0
  /\ UNCHANGED <<now, report, digestWritten, requests>>

\* A local change of a public field; the stored digest does not follow.
EditRetention(class) ==
  /\ phase = "review"
  /\ edits < MaxEdits /\ edits' = edits + 1
  /\ class # obs.retention
  /\ obs' = [obs EXCEPT !.retention = class]
  /\ UNCHANGED <<phase, now, report, digestWritten, requests>>

EditId(id) ==
  /\ phase = "review"
  /\ edits < MaxEdits /\ edits' = edits + 1
  /\ id # obs.id
  /\ obs' = [obs EXCEPT !.id = id]
  /\ UNCHANGED <<phase, now, report, digestWritten, requests>>

EditQuantity(i, quantity) ==
  /\ phase = "review"
  /\ edits < MaxEdits /\ edits' = edits + 1
  /\ obs' = [obs EXCEPT !.positions[i].quantity = quantity]
  /\ obs' # obs
  /\ UNCHANGED <<phase, now, report, digestWritten, requests>>

\* The digest is a public field like the others.
EditDigest(digest) ==
  /\ phase = "review"
  /\ edits < MaxEdits /\ edits' = edits + 1
  /\ digest # obs.digest
  /\ obs' = [obs EXCEPT !.digest = digest]
  /\ digestWritten' = TRUE
  /\ UNCHANGED <<phase, now, report, requests>>

RefreshDigest ==
  /\ phase = "review"
  /\ obs' = Refreshed(obs)
  /\ digestWritten' = TRUE
  /\ UNCHANGED <<phase, now, report, edits, requests>>

Advise(proposal) ==
  /\ phase = "review"
  /\ report = NoReport
  /\ report' = [findings |-> Findings(obs, proposal, now), observation |-> obs,
                proposal |-> proposal, at |-> now]
  /\ digestWritten' = FALSE
  /\ UNCHANGED <<phase, obs, now, edits, requests>>

\* The caller submits the proposal it had checked, with Observation::reference.
Request ==
  /\ report # NoReport
  /\ requests = {}
  /\ requests' = {[reference |-> [id |-> obs.id, digest |-> obs.digest], report |-> report,
                 digestWritten |-> digestWritten]}
  /\ UNCHANGED <<phase, obs, now, report, edits, digestWritten>>

Tick ==
  /\ now + 1 \in Now
  /\ now' = now + 1
  /\ UNCHANGED <<phase, obs, report, edits, digestWritten, requests>>

Next ==
  \/ \E field \in DOMAIN Settings : \E setting \in Settings[field] : Set(field, setting)
  \/ Build
  \/ \E class \in RetentionClass : EditRetention(class)
  \/ \E id \in Ids : EditId(id)
  \/ \E digest \in Digests : EditDigest(digest)
  \/ \E i \in DOMAIN obs.positions, quantity \in Quantities : EditQuantity(i, quantity)
  \/ RefreshDigest
  \/ \E proposal \in Proposals \cup ExampleProposals(obs) \cup {RequestProposal} : Advise(proposal)
  \/ Request
  \/ Tick

Spec == Init /\ [][Next]_vars

-----------------------------------------------------------------------------
(* Properties.                                                             *)

Clear(r) == r # NoReport /\ r.findings = {}

\* Every variable keeps its type; the digest may be any value.
TypeOK ==
  /\ Typed(obs)
  /\ now \in Now
  /\ digestWritten \in BOOLEAN

\* A clear report on an observation that validate accepts means what the
\* intent promises, "reducing an existing position without adding risk"
\* (LiveIntent): every position view with that id is of that instrument, in
\* the grant and no smaller, and every view of the instrument divides the
\* quantity.  The two checks share this between them; neither gives it alone.
ClearIsReduction ==
  Clear(report) /\ Valid(report.observation) =>
    LET o == report.observation
        p == report.proposal IN
    /\ p.instrument_id \in o.grant.instruments
    /\ Capabilities \subseteq o.grant.observations
    /\ \E v \in Range(o.positions) : v.position_id = p.position_id
    /\ \A v \in Range(o.positions) : v.position_id = p.position_id =>
         v.instrument_id = p.instrument_id /\ p.quantity <= v.quantity
    /\ \A v \in Range(o.instruments) : v.instrument_id = p.instrument_id =>
         p.quantity % v.quantity_increment = 0

\* What validate asks of an observation, apart from its digest.
ValidContent(o) ==
  /\ IsSupported(o.version)
  /\ o.created_at <= o.expires_at /\ o.expires_at <= o.grant.expires_at
  /\ ValidLivePayload(o)

\* build takes the digest upon itself: whatever was stored there, it accepts the
\* content that validate has nothing against and refuses every other, and what
\* it returns passes validate as it is (ObservationBuilder::build).
BuildJudgesContent ==
  [][phase = "building" /\ phase' # "building" =>
       /\ phase' = IF ValidContent(obs) THEN "review" ELSE "refused"
       /\ phase' = "review" => Valid(obs')]_vars

\* On an observation that validate accepts, an example policy proposes what the
\* advisory check finds nothing wrong with but what the policy does not look
\* at: the clock, the omissions and the instrument views; and the size of the
\* position, when it has no threshold above its reduction.
PolicyProposalFits ==
  report # NoReport /\ Valid(report.observation) =>
    LET o == report.observation
        unseen == {"ExpiredObservation", "RequiredFieldOmitted", "InstrumentMissing",
                   "QuantityIncrementMismatch"} IN
    /\ report.proposal \in ExampleProposals(o) =>
         report.findings \subseteq unseen \cup {"QuantityExceedsPosition"}
    /\ report.proposal \in DefensivePolicy(o, 12, 5) => report.findings \subseteq unseen

\* The synthetic values are examples of what their names say: each observation
\* passes validate, the request is clear on the valid observation, the
\* redaction is disclosed, and time is all that makes the expired one expired
\* (valid_observation, redacted_observation, expired_observation).
FixturesSpeakTrue ==
  report # NoReport =>
    /\ report.observation \in {ValidObservation, RedactedObservation, ExpiredObservation} =>
         Valid(report.observation)
    /\ report.proposal = RequestProposal =>
         /\ report.observation \in {ValidObservation, ExpiredObservation} =>
              report.findings = {code \in {"ExpiredObservation"} :
                                   report.at > ExpiredObservation.expires_at}
         /\ report.observation = RedactedObservation /\ report.at <= RedactedObservation.expires_at =>
              report.findings = {"RequiredFieldOmitted", "PositionMissing"}

\* A request made after a clear report names the content that was checked, its
\* id included, which the digest covers: even if the observation, or the id that
\* goes with the digest, was edited in between, unless the stored digest was
\* written (Observation::reference).
RequestNamesChecked ==
  /\ TypeOK
  /\ \A q \in requests : Clear(q.report) /\ ~q.digestWritten =>
       q.reference.digest = ComputedDigest(q.report.observation)

\* The advisory check and validate_at agree on the last usable instant.
ExpiryAgrees ==
  report # NoReport /\ Valid(report.observation) =>
    ("ExpiredObservation" \in report.findings <=> ~ValidAt(report.observation, report.at))

\* The payload fields that the check of a proposal reads.
FieldsRead ==
  ({"payload"} \X {"live"} \X {"positions"} \X {"*"}
     \X {"position_id", "instrument_id", "quantity"})
    \cup ({"payload"} \X {"live"} \X {"instruments"} \X {"*"}
            \X {"instrument_id", "quantity_increment"})

\* An omission covers the field it names and every field below that.
Covers(path, field) == \E n \in 0 .. Len(field) : path = SubSeq(field, 1, n)

\* "A disclosed omission covers data needed by the proposal" (the comment of
\* RequiredFieldOmitted): a clear report means that no omission covers a field
\* that the check reads.
NeededDataDisclosed ==
  Clear(report) =>
    \A path \in report.observation.omissions, field \in FieldsRead : ~Covers(path, field)

\* The same of the omissions that name a part of the document: the empty
\* pointer is the only omission of needed data that a clear report can hide
\* (omission_is_required).
PartialOmissionDisclosed ==
  Clear(report) =>
    \A path \in report.observation.omissions, field \in FieldsRead :
      Covers(path, field) => path = <<>>
===============================================================================
