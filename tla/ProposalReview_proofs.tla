------------------------- MODULE ProposalReview_proofs -------------------------
(***************************************************************************)
(* What the advisory check means, for every observation, proposal and time *)
(* and every edit between the check and the request.                       *)
(***************************************************************************)
EXTENDS ProposalReview, SequenceTheorems, TLAPS

PositionType ==
  [position_id: PositionIds, instrument_id: InstrumentIds, quantity: Nat, updated_at: Nat]
GrantType == [observations: SUBSET Capabilities, instruments: SUBSET InstrumentIds, expires_at: Nat]
InstrumentType == [instrument_id: InstrumentIds, quantity_increment: Nat \ {0}]

LEMMA TypesAre ==
  /\ DOMAIN FieldTypes = {"created_at", "expires_at", "retention", "grant", "positions", "instruments"}
  /\ FieldTypes["created_at"] = Nat /\ FieldTypes["expires_at"] = Nat
  /\ FieldTypes["retention"] = RetentionClass /\ FieldTypes["grant"] = GrantType
  /\ FieldTypes["positions"] = Seq(PositionType) /\ FieldTypes["instruments"] = Seq(InstrumentType)
BY DEF FieldTypes, GrantType, PositionType, InstrumentType

LEMMA NumbersAre == Quantities \subseteq Nat /\ Now \subseteq Nat
BY ReviewAssumption

LEMMA TypedIs ==
  ASSUME NEW o
  PROVE  Typed(o) <=>
    /\ DOMAIN o = ObservationFields
    /\ o.created_at \in Nat /\ o.expires_at \in Nat /\ o.retention \in RetentionClass
    /\ o.grant \in GrantType
    /\ o.positions \in Seq(PositionType) /\ o.instruments \in Seq(InstrumentType)
BY TypesAre DEF Typed

-----------------------------------------------------------------------------
(* The two checks.                                                         *)

\* Iterator::find finds something, and of distinct views the only one.
LEMMA FirstOfDistinct ==
  ASSUME NEW S, NEW views \in Seq(S), NEW id, NEW value, Distinct(views, id),
         NEW v \in Range(views), v[id] = value
  PROVE  First(views, id, value) = {v}
<1>1. PICK i \in DOMAIN views : views[i] = v
  BY DEF Range
<1>2. \A k \in DOMAIN views : views[k][id] = value => k = i
  BY <1>1 DEF Distinct
<1>3. \A j \in 1 .. i - 1 : views[j][id] # value
  BY <1>1, <1>2
<1>. QED  BY <1>1, <1>2, <1>3 DEF First

LEMMA FoundIsView ==
  ASSUME NEW views, NEW id, NEW value, NEW v \in First(views, id, value)
  PROVE  v \in Range(views) /\ v[id] = value
BY DEF First, Range

\* What an empty list of findings says.
LEMMA NothingFound ==
  ASSUME NEW o, NEW p, NEW now_, Findings(o, p, now_) = {}
  PROVE  LET position   == First(o.positions, "position_id", p.position_id)
             instrument == First(o.instruments, "instrument_id", p.instrument_id) IN
         /\ ComputedDigest(o) = o.digest
         /\ position # {} /\ instrument # {}
         /\ \A v \in position : v.instrument_id = p.instrument_id /\ ~(p.quantity > v.quantity)
         /\ \A v \in instrument : p.quantity % v.quantity_increment = 0
BY DEF Findings, ReductionFindings

\* A proposal without findings on an observation without faults.
LEMMA ClearOnValid ==
  ASSUME NEW o, NEW p, NEW now_, Typed(o), p.quantity \in Nat,
         Valid(o), Findings(o, p, now_) = {}
  PROVE  /\ p.instrument_id \in o.grant.instruments
         /\ Capabilities \subseteq o.grant.observations
         /\ \E v \in Range(o.positions) : v.position_id = p.position_id
         /\ \A v \in Range(o.positions) : v.position_id = p.position_id =>
              v.instrument_id = p.instrument_id /\ p.quantity <= v.quantity
         /\ \A v \in Range(o.instruments) : v.instrument_id = p.instrument_id =>
              p.quantity % v.quantity_increment = 0
<1>. DEFINE position   == First(o.positions, "position_id", p.position_id)
            instrument == First(o.instruments, "instrument_id", p.instrument_id)
<1>1. /\ position # {} /\ instrument # {}
      /\ \A v \in position : v.instrument_id = p.instrument_id /\ ~(p.quantity > v.quantity)
      /\ \A v \in instrument : p.quantity % v.quantity_increment = 0
  BY NothingFound
<1>2. /\ o.positions \in Seq(PositionType) /\ o.instruments \in Seq(InstrumentType)
  BY TypedIs
<1>3. ValidLivePayload(o)  BY DEF Valid
<1>4. PICK v \in Range(o.positions) : v.position_id = p.position_id /\ v \in position
  BY <1>1, FoundIsView
<1>5. PICK w \in Range(o.instruments) : w.instrument_id = p.instrument_id /\ w \in instrument
  BY <1>1, FoundIsView
<1>6. position = {v} /\ \A u \in Range(o.positions) : u.position_id = p.position_id => u = v
  <2>1. Distinct(o.positions, "position_id")  BY <1>3 DEF ValidLivePayload
  <2>2. \A u \in Range(o.positions) : u["position_id"] = p.position_id => position = {u}
    BY <1>2, <2>1, FirstOfDistinct
  <2>. QED  BY <1>4, <2>2
<1>7. \A u \in Range(o.instruments) : u.instrument_id = p.instrument_id => u = w
  <2>1. Distinct(o.instruments, "instrument_id")  BY <1>3 DEF ValidLivePayload
  <2>2. \A u \in Range(o.instruments) : u["instrument_id"] = p.instrument_id => instrument = {u}
    BY <1>2, <2>1, FirstOfDistinct
  <2>. QED  BY <1>5, <2>2
<1>8. v \in PositionType  BY <1>2 DEF Range
<1>9. v.quantity \in Nat  BY <1>8 DEF PositionType
<1>10. p.quantity <= v.quantity /\ v.instrument_id = p.instrument_id
  BY <1>1, <1>4, <1>9
<1>11. p.instrument_id \in o.grant.instruments
  BY <1>3, <1>4, <1>10 DEF ValidLivePayload, InScope
<1>12. Capabilities \subseteq o.grant.observations
  <2>1. o.positions # <<>> /\ o.instruments # <<>>  BY <1>4, <1>5 DEF Range
  <2>. QED  BY <1>3, <2>1 DEF ValidLivePayload, Capabilities
<1>. QED  BY <1>1, <1>4, <1>5, <1>6, <1>7, <1>10, <1>11, <1>12

\* What a policy proposes of the first position is found to be of it.
LEMMA FitsOnValid ==
  ASSUME NEW o, NEW at, NEW quantity \in Nat, Typed(o), Valid(o), NEW v \in FirstPosition(o)
  PROVE  LET found == Findings(o, Reduce(v, quantity), at) IN
         /\ found \subseteq {"ExpiredObservation", "RequiredFieldOmitted", "InstrumentMissing",
                             "QuantityIncrementMismatch", "QuantityExceedsPosition"}
         /\ quantity <= v.quantity => "QuantityExceedsPosition" \notin found
<1>. DEFINE p == Reduce(v, quantity)
<1>1. o.positions \in Seq(PositionType) /\ v \in Range(o.positions)
  BY TypedIs DEF FirstPosition, Range
<1>2. p.position_id = v["position_id"] /\ p.instrument_id = v.instrument_id /\ p.quantity = quantity
  BY DEF Reduce
<1>. HIDE DEF p
<1>3. First(o.positions, "position_id", p.position_id) = {v}
  BY <1>1, <1>2, FirstOfDistinct DEF Valid, ValidLivePayload
<1>4. v.quantity \in Nat
  <2>1. v \in PositionType  BY <1>1 DEF Range
  <2>. QED  BY <2>1 DEF PositionType
<1>5. /\ ReductionFindings(o, p) \subseteq
           {"InstrumentMissing", "QuantityIncrementMismatch", "QuantityExceedsPosition"}
      /\ quantity <= v.quantity => "QuantityExceedsPosition" \notin ReductionFindings(o, p)
  BY <1>2, <1>3, <1>4 DEF ReductionFindings
<1>6. IsSupported(o.version) /\ ComputedDigest(o) = o.digest
  BY DEF Valid
<1>. QED  BY <1>5, <1>6 DEF Findings, p

\* The check and validate_at read the clock alike.
LEMMA ExpiryOnValid ==
  ASSUME NEW o, NEW p, NEW at \in Nat, Typed(o), Valid(o)
  PROVE  "ExpiredObservation" \in Findings(o, p, at) <=> ~ValidAt(o, at)
<1>1. o.expires_at \in Nat  BY TypedIs
<1>2. "ExpiredObservation" \notin ReductionFindings(o, p)
  BY DEF ReductionFindings
<1>3. "ExpiredObservation" \in Findings(o, p, at) <=> at > o.expires_at
  BY <1>2 DEF Findings
<1>. QED  BY <1>1, <1>3 DEF ValidAt

\* refresh_digest: a digest does not cover itself.
LEMMA RefreshedDigest ==
  ASSUME NEW o, Typed(o)
  PROVE  /\ Typed(Refreshed(o))
         /\ Refreshed(o).digest = ComputedDigest(Refreshed(o))
         /\ \A f \in ObservationFields \ {"digest"} : Refreshed(o)[f] = o[f]
<1>1. /\ DOMAIN Refreshed(o) = ObservationFields /\ Refreshed(o).digest = ComputedDigest(o)
      /\ \A f \in ObservationFields \ {"digest"} : Refreshed(o)[f] = o[f]
  BY DEF Refreshed, Typed, ObservationFields
<1>2. ComputedDigest(Refreshed(o)) = ComputedDigest(o)
  BY <1>1 DEF ComputedDigest, Typed
<1>4. Typed(Refreshed(o))
  BY <1>1 DEF Typed, FieldTypes, ObservationFields
<1>. QED  BY <1>1, <1>2, <1>4

\* What the builder starts from.
LEMMA BaseTyped == Typed(BaseObservation(11, 11))
<1>. DEFINE o == BaseObservation(11, 11)
            position == [position_id |-> FixturePosition, instrument_id |-> FixtureInstrument,
                         quantity |-> 11, updated_at |-> 0]
            instrument == [instrument_id |-> FixtureInstrument, quantity_increment |-> 1]
<1>1. position \in PositionType /\ instrument \in InstrumentType
  BY ReviewAssumption DEF PositionType, InstrumentType
<1>2. /\ DOMAIN o = ObservationFields /\ o.created_at = 1 /\ o.expires_at = 2 /\ o.retention = "Derived"
      /\ o.positions = <<position>> /\ o.instruments = <<instrument>>
      /\ o.grant = [observations |-> Capabilities, instruments |-> {FixtureInstrument}, expires_at |-> 3]
  BY DEF BaseObservation, ObservationFields
<1>. HIDE DEF o, position, instrument
<1>3. o.positions \in Seq(PositionType) /\ o.instruments \in Seq(InstrumentType)
  BY <1>1, <1>2
<1>4. o.grant \in GrantType
  BY <1>2, ReviewAssumption DEF GrantType
<1>5. Typed(o)
  <2>1. o.created_at \in Nat /\ o.expires_at \in Nat /\ o.retention \in RetentionClass
    BY <1>2 DEF RetentionClass
  <2>2. DOMAIN o = ObservationFields  BY <1>2
  <2>. QED  BY ONLY <1>3, <1>4, <2>1, <2>2, TypedIs
<1>. QED  BY <1>5 DEF o

-----------------------------------------------------------------------------
(* The review.                                                             *)

\* A report is about an observation and says what the check found in it.
Reported ==
  report # NoReport =>
    /\ phase = "review"
    /\ Typed(report.observation) /\ report.proposal.quantity \in Nat /\ report.at \in Nat
    /\ report.findings = Findings(report.observation, report.proposal, report.at)
    /\ ~digestWritten => obs.digest = report.observation.digest

\* The inductive invariant.
IInv == TypeOK /\ Reported /\ RequestNamesChecked

LEMMA InitIInv == Init => IInv
<1> SUFFICES ASSUME Init PROVE IInv  OBVIOUS
<1>1. Typed(BaseObservation(11, 11))
  BY BaseTyped
<1>2. TypeOK
  BY <1>1, ReviewAssumption DEF Init, TypeOK, Typed
<1>. QED  BY <1>2 DEF Init, IInv, Reported, RequestNamesChecked

\* A setter gives one field a value of its type.
LEMMA SetIInv ==
  ASSUME IInv, NEW field \in DOMAIN Settings, NEW setting \in Settings[field], Set(field, setting)
  PROVE  IInv'
<1>. USE DEF IInv, Set
<1>1. Typed(obs')
  BY ReviewAssumption, TypesAre DEF TypeOK, Typed, ObservationFields
<1>2. TypeOK'  BY <1>1 DEF TypeOK
<1>. QED  BY <1>2 DEF Reported, RequestNamesChecked

\* What build makes keeps its types, and there is no report yet.
LEMMA BuildIInv ==
  ASSUME IInv, Build
  PROVE  IInv'
<1>. USE DEF IInv, Build
<1>1. Typed(obs')  BY RefreshedDigest DEF TypeOK
<1>2. TypeOK'  BY <1>1 DEF TypeOK
<1>. QED  BY <1>2 DEF Reported, RequestNamesChecked

\* An edit does not touch the stored digest.
LEMMA EditRetentionIInv ==
  ASSUME IInv, NEW class \in RetentionClass, EditRetention(class)
  PROVE  IInv'
<1>. USE DEF IInv, EditRetention
<1>1. Typed(obs') /\ obs'.digest = obs.digest
  BY TypesAre DEF TypeOK, Typed, ObservationFields
<1>2. TypeOK'  BY <1>1 DEF TypeOK, Typed
<1>. QED  BY <1>1, <1>2 DEF Reported, RequestNamesChecked

LEMMA EditIdIInv ==
  ASSUME IInv, NEW id \in Ids, EditId(id)
  PROVE  IInv'
<1>. USE DEF IInv, EditId
<1>1. Typed(obs') /\ obs'.digest = obs.digest
  BY TypesAre DEF TypeOK, Typed, ObservationFields
<1>2. TypeOK'  BY <1>1 DEF TypeOK
<1>. QED  BY <1>1, <1>2 DEF Reported, RequestNamesChecked

\* A digest written by hand is noted as such.
LEMMA EditDigestIInv ==
  ASSUME IInv, NEW digest \in Digests, EditDigest(digest)
  PROVE  IInv'
<1>. USE DEF IInv, EditDigest
<1>1. Typed(obs')
  BY TypesAre DEF TypeOK, Typed, ObservationFields
<1>2. TypeOK'  BY <1>1 DEF TypeOK
<1>. QED  BY <1>2 DEF Reported, RequestNamesChecked

LEMMA EditQuantityIInv ==
  ASSUME IInv, NEW i \in DOMAIN obs.positions, NEW quantity \in Quantities, EditQuantity(i, quantity)
  PROVE  IInv'
<1>. USE DEF IInv, EditQuantity
<1>1. obs.positions \in Seq(PositionType)  BY TypedIs DEF TypeOK
<1>. DEFINE changed == [obs.positions[i] EXCEPT !.quantity = quantity]
            positions == [obs.positions EXCEPT ![i] = changed]
<1>2. positions \in Seq(PositionType)
  <2>1. obs.positions[i] \in PositionType  BY <1>1
  <2>2. changed \in PositionType  BY <2>1, ReviewAssumption DEF PositionType
  <2>. HIDE DEF changed
  <2>. QED  BY <1>1, <2>2
<1>3. Typed(obs') /\ obs'.digest = obs.digest
  <2>1. obs' = [obs EXCEPT !.positions = positions]  OBVIOUS
  <2>. HIDE DEF positions
  <2>2. DOMAIN obs = ObservationFields  BY DEF TypeOK, Typed
  <2>3. /\ DOMAIN obs' = ObservationFields /\ obs'.positions = positions
        /\ \A f \in ObservationFields \ {"positions"} : obs'[f] = obs[f]
    BY <2>1, <2>2 DEF ObservationFields
  <2>. QED  BY <1>2, <2>3, TypedIs DEF TypeOK, ObservationFields
<1>4. TypeOK'  BY <1>3 DEF TypeOK, Typed
<1>. QED  BY <1>3, <1>4 DEF Reported, RequestNamesChecked

LEMMA RefreshDigestIInv ==
  ASSUME IInv, RefreshDigest
  PROVE  IInv'
<1>. USE DEF IInv, RefreshDigest
<1>1. Typed(obs')
  BY RefreshedDigest DEF TypeOK
<1>2. TypeOK'  BY <1>1 DEF TypeOK, Typed
<1>. QED  BY <1>2 DEF Reported, RequestNamesChecked

\* The report is of this observation, and there was none before.
LEMMA AdviseIInv ==
  ASSUME IInv, NEW proposal \in Proposals \cup ExampleProposals(obs) \cup {RequestProposal}, Advise(proposal)
  PROVE  IInv'
<1>. USE DEF IInv, Advise
<1>1. proposal.quantity \in Nat
  <2>1. proposal \in ExampleProposals(obs) \cup {RequestProposal} => proposal.quantity \in {5, 6}
    BY DEF ExampleProposals, DefensivePolicy, FixedReductionPolicy, Reduce, RequestProposal
  <2>2. proposal \in Proposals => proposal.quantity \in Quantities
    BY DEF Proposals
  <2>3. \/ proposal \in Proposals
        \/ proposal \in ExampleProposals(obs) \cup {RequestProposal}
    OBVIOUS
  <2>4. CASE proposal \in Proposals  BY <2>2, <2>4, NumbersAre
  <2>5. CASE proposal \in ExampleProposals(obs) \cup {RequestProposal}  BY <2>1, <2>5
  <2>. QED  BY <2>3, <2>4, <2>5
<1>2. now \in Nat  BY NumbersAre DEF TypeOK
<1>3. TypeOK'  BY DEF TypeOK
<1>4. Reported'  BY <1>1, <1>2 DEF Reported, TypeOK
<1>. QED  BY <1>3, <1>4 DEF RequestNamesChecked

\* After a clear report the stored digest is the content's.
LEMMA RequestIInv ==
  ASSUME IInv, Request
  PROVE  IInv'
<1>. USE DEF IInv, Request
<1>1. TypeOK'  BY DEF TypeOK
<1>2. Clear(report) /\ ~digestWritten => obs.digest = ComputedDigest(report.observation)
  BY NothingFound DEF Clear, Reported
<1>3. RequestNamesChecked'
  BY <1>1, <1>2 DEF RequestNamesChecked
<1>. QED  BY <1>1, <1>3 DEF Reported

LEMMA TickIInv ==
  ASSUME IInv, Tick
  PROVE  IInv'
<1>. USE DEF IInv, Tick
<1>1. TypeOK'  BY DEF TypeOK
<1>. QED  BY <1>1 DEF Reported, RequestNamesChecked

LEMMA NextIInv == IInv /\ [Next]_vars => IInv'
<1> SUFFICES ASSUME IInv, [Next]_vars PROVE IInv'  OBVIOUS
<1>1. CASE UNCHANGED vars
  BY <1>1 DEF vars, IInv, TypeOK, Reported, RequestNamesChecked
<1>2. CASE Next
  BY <1>2, SetIInv, BuildIInv, EditRetentionIInv, EditIdIInv, EditDigestIInv, EditQuantityIInv, RefreshDigestIInv, AdviseIInv,
     RequestIInv, TickIInv DEF Next
<1>. QED  BY <1>1, <1>2

THEOREM Inductive == Spec => []IInv
  BY InitIInv, NextIInv, PTL DEF Spec

\* A clear report on a valid observation is a reduction of an existing
\* position in whole increments (AdvisoryValidator::evaluate, validate).
THEOREM ClearReduces == Spec => []ClearIsReduction
<1>. IInv => ClearIsReduction
  BY ClearOnValid DEF IInv, Reported, ClearIsReduction, Clear
<1>. QED  BY Inductive, PTL

\* The advisory check and validate_at agree at every instant.
THEOREM ExpiryAlike == Spec => []ExpiryAgrees
<1>. IInv => ExpiryAgrees
  BY ExpiryOnValid DEF IInv, Reported, ExpiryAgrees
<1>. QED  BY Inductive, PTL

\* Whatever is edited in between, a request after a clear report names the
\* content that was checked (Observation::reference).
THEOREM RequestsNameChecked == Spec => []RequestNamesChecked
<1>. IInv => RequestNamesChecked  BY DEF IInv
<1>. QED  BY Inductive, PTL

\* The policies of the examples propose what the check finds nothing wrong with,
\* but what they do not look at (DefensivePolicy, FixedReductionPolicy).
THEOREM PolicyFits == Spec => []PolicyProposalFits
<1>1. IInv => PolicyProposalFits
  <2> SUFFICES ASSUME IInv, report # NoReport, Valid(report.observation)
               PROVE  LET o == report.observation
                          unseen == {"ExpiredObservation", "RequiredFieldOmitted", "InstrumentMissing",
                                     "QuantityIncrementMismatch"} IN
                      /\ report.proposal \in ExampleProposals(o) =>
                           report.findings \subseteq unseen \cup {"QuantityExceedsPosition"}
                      /\ report.proposal \in DefensivePolicy(o, 12, 5) => report.findings \subseteq unseen
    BY DEF PolicyProposalFits
  <2>. DEFINE o == report.observation
  <2>1. Typed(o) /\ report.findings = Findings(o, report.proposal, report.at)
    BY DEF IInv, Reported
  <2>2. \A v \in FirstPosition(o) : v.quantity \in Nat
    <3>1. o.positions \in Seq(PositionType)  BY <2>1, TypedIs
    <3>2. \A v \in FirstPosition(o) : v \in PositionType  BY <3>1 DEF FirstPosition
    <3>. QED  BY <3>2 DEF PositionType
  <2>. HIDE DEF o
  <2>3. ASSUME NEW v \in FirstPosition(o), v.quantity > 12, report.proposal = Reduce(v, 5)
        PROVE  report.findings \subseteq {"ExpiredObservation", "RequiredFieldOmitted", "InstrumentMissing",
                                          "QuantityIncrementMismatch"}
    BY <2>1, <2>2, <2>3, FitsOnValid DEF o
  <2>4. ASSUME NEW v \in FirstPosition(o), NEW q \in {5, 6}, report.proposal = Reduce(v, q)
        PROVE  report.findings \subseteq {"ExpiredObservation", "RequiredFieldOmitted", "InstrumentMissing",
                                          "QuantityIncrementMismatch", "QuantityExceedsPosition"}
    BY <2>1, <2>4, FitsOnValid DEF o
  <2>5. report.proposal \in ExampleProposals(o) =>
          \E v \in FirstPosition(o), q \in {5, 6} : report.proposal = Reduce(v, q)
    BY DEF ExampleProposals, DefensivePolicy, FixedReductionPolicy
  <2>6. report.proposal \in DefensivePolicy(o, 12, 5) =>
          \E v \in FirstPosition(o) : v.quantity > 12 /\ report.proposal = Reduce(v, 5)
    BY DEF DefensivePolicy
  <2>. QED  BY <2>3, <2>4, <2>5, <2>6 DEF o
<1>. QED  BY <1>1, Inductive, PTL

\* A builder validates its fields under the digest it has just stored.
LEMMA RefreshedValid ==
  ASSUME NEW o, Typed(o)
  PROVE  Valid(Refreshed(o)) <=> ValidContent(o)
<1>. DEFINE r == Refreshed(o)
<1>1. /\ Typed(r) /\ r.digest = ComputedDigest(r)
      /\ \A f \in ObservationFields \ {"digest"} : r[f] = o[f]
  BY RefreshedDigest
<1>. HIDE DEF r
<1>2. /\ r.version = o.version /\ r.created_at = o.created_at /\ r.expires_at = o.expires_at
      /\ r.grant = o.grant /\ r.positions = o.positions /\ r.instruments = o.instruments
  BY <1>1 DEF ObservationFields
<1>3. ValidLivePayload(r) <=> ValidLivePayload(o)
  BY <1>2 DEF ValidLivePayload, InScope
<1>4. o.created_at \in Nat /\ o.expires_at \in Nat /\ o.grant.expires_at \in Nat
  BY TypedIs DEF GrantType
<1>5. Valid(r) <=> ValidContent(o)
  BY <1>1, <1>2, <1>3, <1>4 DEF Valid, ValidContent
<1>. QED  BY <1>5 DEF r

\* However its setters were called, build accepts valid content and no other,
\* and what it returns passes validate (ObservationBuilder::build).
THEOREM BuildJust == Spec => BuildJudgesContent
<1>. DEFINE Judged == phase = "building" /\ phase' # "building" =>
                        /\ phase' = IF ValidContent(obs) THEN "review" ELSE "refused"
                        /\ phase' = "review" => Valid(obs')
<1>1. IInv /\ [Next]_vars => [Judged]_vars
  <2> SUFFICES ASSUME IInv, Next, phase = "building", phase' # "building"
               PROVE  /\ phase' = IF ValidContent(obs) THEN "review" ELSE "refused"
                      /\ phase' = "review" => Valid(obs')
    BY DEF vars
  <2>1. Build
    BY DEF Next, IInv, Reported, Set, EditRetention, EditId, EditDigest, EditQuantity,
           RefreshDigest, Advise, Request, Tick
  <2>2. Valid(obs') <=> ValidContent(obs)
    BY <2>1, RefreshedValid DEF Build, IInv, TypeOK
  <2>. QED  BY <2>1, <2>2 DEF Build
<1>. QED  BY <1>1, Inductive, PTL DEF Spec, BuildJudgesContent

-----------------------------------------------------------------------------
(* Omissions.                                                              *)

LEMMA FieldsReadAre ==
  ASSUME NEW field \in FieldsRead
  PROVE  \E list \in {"positions", "instruments"}, name \in {"position_id", "instrument_id", "quantity", "quantity_increment"} :
           /\ field = <<"payload", "live", list, "*", name>>
           /\ list = "positions" => name \in {"position_id", "instrument_id", "quantity"}
           /\ list = "instruments" => name \in {"instrument_id", "quantity_increment"}
BY DEF FieldsRead

\* The first n segments of a field, one by one.
LEMMA BeginningIs ==
  ASSUME NEW S, NEW s \in Seq(S), NEW n \in 0 .. Len(s), NEW t \in Seq(S), Len(t) = n,
         \A i \in 1 .. n : t[i] = s[i]
  PROVE  SubSeq(s, 1, n) = t
<1>1. SubSeq(s, 1, n) \in Seq(S) /\ Len(SubSeq(s, 1, n)) = n
      /\ \A i \in 1 .. n : SubSeq(s, 1, n)[i] = s[i]
  BY SubSeqProperties
<1>. QED  BY ONLY <1>1, t \in Seq(S), Len(t) = n, \A i \in 1 .. n : t[i] = s[i], SeqEqual

\* Every beginning of a field that is read counts, but the empty one.
LEMMA BeginningsCount ==
  ASSUME NEW field \in FieldsRead, NEW path, Covers(path, field), path # <<>>
  PROVE  OmissionIsRequired(path)
<1>1. PICK list \in {"positions", "instruments"}, name \in {"position_id", "instrument_id", "quantity", "quantity_increment"} :
           /\ field = <<"payload", "live", list, "*", name>>
           /\ list = "positions" => name \in {"position_id", "instrument_id", "quantity"}
           /\ list = "instruments" => name \in {"instrument_id", "quantity_increment"}
  BY FieldsReadAre
<1>2. PICK n \in 0 .. 5 : path = SubSeq(field, 1, n)
  BY <1>1 DEF Covers
<1>. DEFINE Segments == {"payload", "live", "*", list, name}
<1>3. /\ field \in Seq(Segments) /\ Len(field) = 5
      /\ field[1] = "payload" /\ field[2] = "live" /\ field[3] = list /\ field[4] = "*" /\ field[5] = name
  BY <1>1
<1>. HIDE DEF Segments
<1>b. \A t \in Seq(Segments) : Len(t) = n /\ (\A i \in 1 .. n : t[i] = field[i]) => path = t
  BY <1>3, <1>2, BeginningIs
<1>5. n # 0
  BY <1>3, <1>2
<1>6. CASE n = 1
  <2>1. <<"payload">> \in Seq(Segments)  BY DEF Segments
  <2>2. \A i \in 1 .. 1 : <<"payload">>[i] = field[i]  BY <1>3
  <2>3. path = <<"payload">>  BY <1>b, <1>6, <2>1, <2>2
  <2>. QED  BY <2>3 DEF OmissionIsRequired
<1>7. CASE n = 2
  <2>1. <<"payload", "live">> \in Seq(Segments)  BY DEF Segments
  <2>2. \A i \in 1 .. 2 : <<"payload", "live">>[i] = field[i]  BY <1>3
  <2>3. path = <<"payload", "live">>  BY <1>b, <1>7, <2>1, <2>2
  <2>. QED  BY <2>3 DEF OmissionIsRequired
<1>8. CASE n = 3
  <2>1. <<"payload", "live", list>> \in Seq(Segments)  BY DEF Segments
  <2>2. \A i \in 1 .. 3 : <<"payload", "live", list>>[i] = field[i]  BY <1>3
  <2>3. path = <<"payload", "live", list>>  BY <1>b, <1>8, <2>1, <2>2
  <2>. QED  BY <2>3 DEF OmissionIsRequired
<1>9. CASE n = 4
  <2>1. <<"payload", "live", list, "*">> \in Seq(Segments)  BY DEF Segments
  <2>2. \A i \in 1 .. 4 : <<"payload", "live", list, "*">>[i] = field[i]  BY <1>3
  <2>3. path = <<"payload", "live", list, "*">>  BY <1>b, <1>9, <2>1, <2>2
  <2>. QED  BY <2>3 DEF OmissionIsRequired
<1>10. CASE n = 5
  <2>1. <<"payload", "live", list, "*", name>> \in Seq(Segments)  BY DEF Segments
  <2>2. \A i \in 1 .. 5 : <<"payload", "live", list, "*", name>>[i] = field[i]  BY <1>3
  <2>3. path = <<"payload", "live", list, "*", name>>  BY <1>b, <1>10, <2>1, <2>2
  <2>. QED  BY <1>1, <2>3 DEF OmissionIsRequired
<1>. QED  BY <1>5, <1>6, <1>7, <1>8, <1>9, <1>10

\* A clear report hides no omission of needed data but that of everything
\* (omission_is_required).
THEOREM OmissionsDisclosed == Spec => []PartialOmissionDisclosed
<1>1. IInv => PartialOmissionDisclosed
  <2> SUFFICES ASSUME IInv, Clear(report), NEW path \in report.observation.omissions,
                      NEW field \in FieldsRead, Covers(path, field), path # <<>>
               PROVE  FALSE
    BY DEF PartialOmissionDisclosed
  <2>1. OmissionIsRequired(path)  BY BeginningsCount
  <2>2. "RequiredFieldOmitted" \in report.findings
    BY <2>1 DEF IInv, Reported, Clear, Findings
  <2>. QED  BY <2>2 DEF Clear
<1>. QED  BY <1>1, Inductive, PTL

-----------------------------------------------------------------------------
(* The synthetic values.                                                   *)

ThePosition ==
  [position_id |-> FixturePosition, instrument_id |-> FixtureInstrument, quantity |-> 11, updated_at |-> 0]
TheInstrument == [instrument_id |-> FixtureInstrument, quantity_increment |-> 1]

\* The fields of a synthetic observation, whatever its id, omissions, retention
\* and digest.
Synthetic(o) ==
  /\ Typed(o)
  /\ o.version = ProtocolVersion /\ o.created_at = 1 /\ o.expires_at = 2
  /\ o.grant = [observations |-> Capabilities, instruments |-> {FixtureInstrument}, expires_at |-> 3]
  /\ o.positions \in {<<>>, <<ThePosition>>} /\ o.instruments = <<TheInstrument>>

\* validate has nothing against them but perhaps the digest.
LEMMA SyntheticValid ==
  ASSUME NEW o, Synthetic(o)
  PROVE  ValidContent(o)
<1>1. \A v, id : Distinct(<<v>>, id)
  BY DEF Distinct
<1>2. \A id : Distinct(<<>>, id)
  BY DEF Distinct
<1>3. /\ InScope(o, <<>>) /\ InScope(o, <<ThePosition>>) /\ InScope(o, <<TheInstrument>>)
  BY DEF Synthetic, InScope, Range, ThePosition, TheInstrument
<1>4. \A p \in Range(o.positions) : p.updated_at <= o.created_at
  BY DEF Synthetic, Range, ThePosition
<1>5. "PositionSummary" \in o.grant.observations /\ "InstrumentSummary" \in o.grant.observations
  BY DEF Synthetic, Capabilities
<1>6. ValidLivePayload(o)
  <2>1. Distinct(o.positions, "position_id") /\ Distinct(o.instruments, "instrument_id")
    BY <1>1, <1>2 DEF Synthetic
  <2>2. InScope(o, o.positions) /\ InScope(o, o.instruments)
    BY <1>3 DEF Synthetic
  <2>. QED  BY <1>4, <1>5, <2>1, <2>2 DEF ValidLivePayload
<1>7. IsSupported(o.version)
  BY DEF Synthetic, IsSupported, ProtocolVersion
<1>8. o.created_at <= o.expires_at /\ o.expires_at <= o.grant.expires_at
  BY DEF Synthetic
<1>. QED  BY <1>6, <1>7, <1>8 DEF ValidContent

LEMMA ValidObservationIs ==
  LET o == ValidObservation IN
  /\ Synthetic(o) /\ o.digest = ComputedDigest(o) /\ Valid(o)
  /\ o.omissions = {} /\ o.positions = <<ThePosition>>
<1>. DEFINE base == BaseObservation(11, 11)
            o == ValidObservation
<1>1. /\ base.version = ProtocolVersion /\ base.created_at = 1 /\ base.expires_at = 2
      /\ base.grant = [observations |-> Capabilities, instruments |-> {FixtureInstrument}, expires_at |-> 3]
      /\ base.positions = <<ThePosition>> /\ base.instruments = <<TheInstrument>>
      /\ base.omissions = {}
  BY DEF BaseObservation, ThePosition, TheInstrument
<1>2. Typed(base)  BY BaseTyped
<1>3. o = Refreshed(base)  BY DEF ValidObservation
<1>. HIDE DEF base, o
<1>4. Synthetic(base)  BY <1>1, <1>2 DEF Synthetic
<1>5. Valid(o)  BY <1>2, <1>3, <1>4, SyntheticValid, RefreshedValid
<1>6. /\ Typed(o) /\ o.digest = ComputedDigest(o)
      /\ \A f \in ObservationFields \ {"digest"} : o[f] = base[f]
  BY <1>2, <1>3, RefreshedDigest
<1>7. Synthetic(o) /\ o.omissions = {} /\ o.positions = <<ThePosition>>
  BY <1>1, <1>6 DEF Synthetic, ObservationFields
<1>. QED  BY <1>5, <1>6, <1>7 DEF o

\* Only the id is another.
LEMMA ExpiredObservationIs ==
  LET o == ExpiredObservation IN
  /\ Synthetic(o) /\ o.digest = ComputedDigest(o) /\ Valid(o)
  /\ o.omissions = {} /\ o.positions = <<ThePosition>>
<1>. DEFINE named == [ValidObservation EXCEPT !.id = 13]
            o == ExpiredObservation
<1>1. DOMAIN named = ObservationFields /\ \A f \in ObservationFields \ {"id"} : named[f] = ValidObservation[f]
  BY ValidObservationIs DEF Synthetic, Typed, ObservationFields
<1>2. o = Refreshed(named)  BY DEF ExpiredObservation
<1>. HIDE DEF named, o
<1>3. Synthetic(named) /\ named.omissions = {} /\ named.positions = <<ThePosition>>
  BY <1>1, ValidObservationIs DEF Synthetic, Typed, FieldTypes, ObservationFields
<1>4. Typed(named)  BY <1>3 DEF Synthetic
<1>5. Valid(o)  BY <1>2, <1>3, <1>4, SyntheticValid, RefreshedValid
<1>6. /\ Typed(o) /\ o.digest = ComputedDigest(o)
      /\ \A f \in ObservationFields \ {"digest"} : o[f] = named[f]
  BY <1>2, <1>4, RefreshedDigest
<1>7. Synthetic(o) /\ o.omissions = {} /\ o.positions = <<ThePosition>>
  BY <1>3, <1>6 DEF Synthetic, ObservationFields
<1>. QED  BY <1>5, <1>6, <1>7 DEF o

LEMMA RedactedObservationIs ==
  LET o == RedactedObservation IN
  /\ Synthetic(o) /\ o.digest = ComputedDigest(o) /\ Valid(o)
  /\ o.omissions = {<<"payload", "live", "positions">>} /\ o.positions = <<>>
<1>. DEFINE redacted == [ValidObservation EXCEPT !.id = 12, !.positions = <<>>,
                           !.omissions = {<<"payload", "live", "positions">>}, !.retention = "Restricted"]
            o == RedactedObservation
<1>1. /\ DOMAIN redacted = ObservationFields
      /\ \A f \in ObservationFields \ {"id", "positions", "omissions", "retention"} :
           redacted[f] = ValidObservation[f]
      /\ redacted.positions = <<>> /\ redacted.retention = "Restricted"
      /\ redacted.omissions = {<<"payload", "live", "positions">>}
  BY ValidObservationIs DEF Synthetic, Typed, ObservationFields
<1>2. o = Refreshed(redacted)  BY DEF RedactedObservation
<1>. HIDE DEF redacted, o
<1>3. Typed(redacted)
  <2>1. redacted.retention \in RetentionClass /\ redacted.positions \in Seq(PositionType)
    BY <1>1 DEF RetentionClass
  <2>2. /\ redacted.created_at = ValidObservation.created_at
        /\ redacted.expires_at = ValidObservation.expires_at
        /\ redacted.grant = ValidObservation.grant
        /\ redacted.instruments = ValidObservation.instruments
    BY <1>1 DEF ObservationFields
  <2>. QED  BY <1>1, <2>1, <2>2, ValidObservationIs, TypedIs DEF Synthetic
<1>4. Synthetic(redacted)
  BY <1>1, <1>3, ValidObservationIs DEF Synthetic, ObservationFields
<1>5. Valid(o)  BY <1>2, <1>3, <1>4, SyntheticValid, RefreshedValid
<1>6. /\ Typed(o) /\ o.digest = ComputedDigest(o)
      /\ \A f \in ObservationFields \ {"digest"} : o[f] = redacted[f]
  BY <1>2, <1>3, RefreshedDigest
<1>7. /\ Synthetic(o) /\ o.positions = <<>>
      /\ o.omissions = {<<"payload", "live", "positions">>}
  BY <1>1, <1>4, <1>6 DEF Synthetic, ObservationFields
<1>. QED  BY <1>5, <1>6, <1>7 DEF o

\* A list of one view.
LEMMA FirstOfOne ==
  ASSUME NEW v, NEW id, NEW value, v[id] = value
  PROVE  First(<<v>>, id, value) = {v}
<1>. DEFINE one == <<v>>
<1>1. DOMAIN one = {1} /\ one[1] = v /\ one \in Seq({v})  OBVIOUS
<1>. HIDE DEF one
<1>2. Distinct(one, id)  BY <1>1 DEF Distinct
<1>3. v \in Range(one)  BY <1>1 DEF Range
<1>4. First(one, id, value) = {v}  BY <1>1, <1>2, <1>3, FirstOfDistinct
<1>. QED  BY <1>4 DEF one

\* The request is clear on the whole position until the observation expires.
LEMMA RequestOnWhole ==
  ASSUME NEW at \in Nat, NEW o, Synthetic(o), o.digest = ComputedDigest(o),
         o.omissions = {}, o.positions = <<ThePosition>>
  PROVE  Findings(o, RequestProposal, at) = {code \in {"ExpiredObservation"} : at > 2}
<1>. DEFINE p == RequestProposal
<1>1. /\ p.position_id = ThePosition["position_id"] /\ p.instrument_id = TheInstrument["instrument_id"]
      /\ p.instrument_id = ThePosition["instrument_id"]
      /\ p.quantity = 5 /\ ThePosition.quantity = 11 /\ TheInstrument.quantity_increment = 1
  BY DEF RequestProposal, ThePosition, TheInstrument
<1>2. /\ First(o.positions, "position_id", p.position_id) = {ThePosition}
      /\ First(o.instruments, "instrument_id", p.instrument_id) = {TheInstrument}
  BY <1>1, FirstOfOne DEF Synthetic
<1>3. ReductionFindings(o, p) = {}
  <2>. HIDE DEF p
  <2>1. 5 % 1 = 0 /\ ~(5 > 11)  OBVIOUS
  <2>. QED  BY <1>1, <1>2, <2>1 DEF ReductionFindings
<1>4. IsSupported(o.version) /\ o.expires_at = 2
  BY DEF Synthetic, IsSupported, ProtocolVersion
<1>. QED  BY <1>3, <1>4 DEF Findings

\* The redaction takes the position and says so.
LEMMA RequestOnRedacted ==
  ASSUME NEW at \in Nat, at <= 2
  PROVE  Findings(RedactedObservation, RequestProposal, at) = {"RequiredFieldOmitted", "PositionMissing"}
<1>. DEFINE o == RedactedObservation
            p == RequestProposal
<1>1. ReductionFindings(o, p) = {"PositionMissing"}
  <2>1. First(o.positions, "position_id", p.position_id) = {}
    BY RedactedObservationIs DEF First
  <2>. QED  BY <2>1 DEF ReductionFindings
<1>2. IsSupported(o.version)
  BY RedactedObservationIs DEF Synthetic, IsSupported, ProtocolVersion
<1>3. \E path \in o.omissions : OmissionIsRequired(path)
  BY RedactedObservationIs DEF OmissionIsRequired
<1>. HIDE DEF o, p
<1>4. o.digest = ComputedDigest(o) /\ o.expires_at = 2
  BY RedactedObservationIs DEF o, Synthetic
<1>5. Findings(o, p, at) = {"RequiredFieldOmitted", "PositionMissing"}
  BY <1>1, <1>2, <1>3, <1>4 DEF Findings
<1>. QED  BY <1>5 DEF o, p

\* The synthetic observations pass validate and are examples of what they are
\* called (src/testing.rs).
THEOREM FixturesTrue == Spec => []FixturesSpeakTrue
<1>1. IInv => FixturesSpeakTrue
  <2> SUFFICES ASSUME IInv, report # NoReport PROVE FixturesSpeakTrue
    BY DEF FixturesSpeakTrue
  <2>1. /\ ExpiredObservation.expires_at = 2 /\ RedactedObservation.expires_at = 2
        /\ Valid(ValidObservation) /\ Valid(RedactedObservation) /\ Valid(ExpiredObservation)
    BY ValidObservationIs, ExpiredObservationIs, RedactedObservationIs DEF Synthetic
  <2>2. \A at \in Nat : \A o \in {ValidObservation, ExpiredObservation} :
          Findings(o, RequestProposal, at) = {code \in {"ExpiredObservation"} : at > 2}
    BY ValidObservationIs, ExpiredObservationIs, RequestOnWhole
  <2>3. \A at \in Nat : at <= 2 =>
          Findings(RedactedObservation, RequestProposal, at) = {"RequiredFieldOmitted", "PositionMissing"}
    BY RequestOnRedacted
  <2>4. report.at \in Nat /\ report.findings = Findings(report.observation, report.proposal, report.at)
    BY DEF IInv, Reported
  <2>. QED  BY ONLY <2>1, <2>2, <2>3, <2>4 DEF FixturesSpeakTrue
<1>. QED  BY <1>1, Inductive, PTL

================================================================================
