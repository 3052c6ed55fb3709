----------------------------- MODULE Observation -----------------------------
(***************************************************************************)
(* Observation::validate and the local advisory check of one proposal      *)
(* (src/protocol/observation.rs, src/assurance/advisory.rs).               *)
(*                                                                         *)
(* An observation is a record whose fields carry the names of the source.  *)
(* SHA-256 over the canonical JSON is taken as collision free, so a digest *)
(* is the record of the fields it covers.  Quantities are natural numbers: *)
(* the decimal strings of the source are the subject of module Decimal.    *)
(* Which error validate reports first is abstracted away.                  *)
(***************************************************************************)
EXTENDS Naturals, Sequences, FiniteSets, Functions

CONSTANTS PositionIds, InstrumentIds, Quantities, Times

PositionViews ==
  [position_id: PositionIds, instrument_id: InstrumentIds, quantity: Quantities, updated_at: Times]
InstrumentViews == [instrument_id: InstrumentIds, quantity_increment: Quantities]
Proposals == [position_id: PositionIds, instrument_id: InstrumentIds, quantity: Quantities]

Capabilities == {"PositionSummary", "InstrumentSummary"}
RetentionClass == {"ReferenceOnly", "Derived", "Restricted"}

ProtocolVersion == [major |-> 1, minor |-> 0]

\* Same major, and a minor this crate knows.
IsSupported(version) ==
  version.major = ProtocolVersion.major /\ version.minor <= ProtocolVersion.minor

\* ObservationDigest: every field but the digest itself.
ComputedDigest(o) == [f \in DOMAIN o \ {"digest"} |-> o[f]]

\* The views of one kind are in scope of the grant and have distinct ids.
InScope(o, views) == \A v \in Range(views) : v.instrument_id \in o.grant.instruments

Distinct_Off(views, id) == TRUE

Distinct(views, id) ==
  \A i, j \in DOMAIN views : views[i][id] = views[j][id] => i = j

ValidLivePayload(o) ==
  /\ o.positions # <<>> => "PositionSummary" \in o.grant.observations
  /\ o.instruments # <<>> => "InstrumentSummary" \in o.grant.observations
  /\ InScope(o, o.positions) /\ Distinct(o.positions, "position_id")
  /\ \A p \in Range(o.positions) : p.updated_at <= o.created_at
  /\ InScope(o, o.instruments) /\ Distinct(o.instruments, "instrument_id")

Valid(o) ==
  /\ IsSupported(o.version)
  /\ o.expires_at >= o.created_at
  /\ o.grant.expires_at >= o.expires_at
  /\ ValidLivePayload(o)
  /\ ComputedDigest(o) = o.digest

ValidAt(o, now) == Valid(o) /\ now <= o.expires_at

-----------------------------------------------------------------------------
(* The advisory check.                                                     *)

OmissionIsRequired_LeavesOnly(path) ==
  \/ path \in ({"payload"} \X {"live"} \X {"positions"} \X {"*"}
                 \X {"position_id", "instrument_id", "quantity"})
  \/ path \in ({"payload"} \X {"live"} \X {"instruments"} \X {"*"}
                 \X {"instrument_id", "quantity_increment"})

\* A path is the sequence of its segments; "*" is an index into a list.
OmissionIsRequired(path) ==
  \/ path \in {<<"payload">>, <<"payload", "live">>}
  \/ path \in ({"payload"} \X {"live"} \X {"positions", "instruments"})
  \/ path \in ({"payload"} \X {"live"} \X {"positions", "instruments"} \X {"*"})
  \/ path \in ({"payload"} \X {"live"} \X {"positions"} \X {"*"}
                 \X {"position_id", "instrument_id", "quantity"})
  \/ path \in ({"payload"} \X {"live"} \X {"instruments"} \X {"*"}
                 \X {"instrument_id", "quantity_increment"})

\* Iterator::find: the first view with this id, as a set of at most one view.
First(views, id, value) ==
  {views[i] : i \in {k \in DOMAIN views :
     views[k][id] = value /\ \A j \in 1 .. k - 1 : views[j][id] # value}}

\* A missing position ends the check; a wrong instrument does not; a missing
\* instrument ends it before the quantities are compared.
ReductionFindings(o, proposal) ==
  LET position   == First(o.positions, "position_id", proposal.position_id)
      instrument == First(o.instruments, "instrument_id", proposal.instrument_id) IN
  IF position = {} THEN {"PositionMissing"} ELSE
    {code \in {"PositionInstrumentMismatch"} :
       \E p \in position : p.instrument_id # proposal.instrument_id}
    \cup {code \in {"InstrumentMissing"} : instrument = {}}
    \cup {code \in {"QuantityExceedsPosition"} :
       instrument # {} /\ \E p \in position : proposal.quantity > p.quantity}
    \cup {code \in {"QuantityIncrementMismatch"} :
       \E i \in instrument : proposal.quantity % i.quantity_increment # 0}

Findings_NoDigest(o, proposal, now) ==
  {code \in {"ExpiredObservation"} : now > o.expires_at}
    \cup ReductionFindings(o, proposal)

Findings_EarlyExpiry(o, proposal, now) ==
  {code \in {"DigestMismatch"} : ComputedDigest(o) # o.digest}
    \cup {code \in {"ExpiredObservation"} : now >= o.expires_at}
    \cup ReductionFindings(o, proposal)

\* AdvisoryValidator::evaluate, as the set of codes it finds.
Findings(o, proposal, now) ==
  {code \in {"UnsupportedVersion"} : ~IsSupported(o.version)}
    \cup {code \in {"ExpiredObservation"} : now > o.expires_at}
    \cup {code \in {"DigestMismatch"} : ComputedDigest(o) # o.digest}
    \cup {code \in {"RequiredFieldOmitted"} : \E path \in o.omissions : OmissionIsRequired(path)}
    \cup ReductionFindings(o, proposal)
==============================================================================
