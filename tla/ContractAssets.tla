---------------------------- MODULE ContractAssets ----------------------------
(***************************************************************************)
(* The tables behind contract/v1, as operators: what the generator lists   *)
(* (tools/contract-schema), what the crate embeds (src/conformance.rs),    *)
(* and the receipts both carry (src/protocol/receipt.rs).  The two tables  *)
(* are written by hand, one in each crate.                                 *)
(*                                                                         *)
(* Names stand without their file extension.  A schema or an ordinary      *)
(* fixture is <<name, root type>>, a consumer case reviewed by hand adds   *)
(* its expected error, and an embedded entry is                            *)
(* <<directory, name, root type, expectation, error>>.                     *)
(***************************************************************************)
EXTENDS Naturals, FiniteSets

NoError == "none"

-----------------------------------------------------------------------------
(* Decision receipts.                                                      *)

ErrorCode == {"Malformed", "UnsupportedVersion", "Forbidden", "StaleObservation",
              "IndeterminateState", "Rejected", "IdempotencyConflict", "CommitFailed",
              "DispatchFailed"}

\* The codes each status may carry; a status without any forbids an error.
CodesOf ==
  [ Accepted |-> {}, Authorized |-> {}, Dispatched |-> {}, Completed |-> {},
    Rejected |-> {"Forbidden", "StaleObservation", "IndeterminateState", "Rejected",
                  "IdempotencyConflict"},
    NotDispatched |-> {"CommitFailed", "DispatchFailed"},
    DispatchUnknown |-> {"DispatchFailed"} ]

DecisionStatus == DOMAIN CodesOf

\* DecisionReceipt::validate.
ReceiptValid(r) ==
  /\ r.major = 1
  /\ r.updated_at >= r.created_at
  /\ r.error \in IF CodesOf[r.status] = {} THEN {NoError} ELSE CodesOf[r.status]

\* decision_receipt; times in ns after the second 1 712 400 001.
Receipt(status, error, offset) ==
  [major |-> 1, status |-> status, error |-> error,
   created_at |-> 707 + offset, updated_at |-> 1000000808 + offset]

-----------------------------------------------------------------------------
(* What the generator lists.                                               *)

SchemaAssets ==
  { <<"agent-trace", "AgentTrace">>, <<"decision-receipt", "DecisionReceipt">>,
    <<"live-proposal-request", "LiveProposalRequest">>, <<"observation", "Observation">>,
    <<"proposal-response", "ProposalResponse">> }

ReceiptFixtures ==
  { <<"receipt-accepted", Receipt("Accepted", NoError, 41)>>,
    <<"receipt-rejected", Receipt("Rejected", "Rejected", 42)>>,
    <<"receipt-authorized", Receipt("Authorized", NoError, 43)>>,
    <<"receipt-not-dispatched", Receipt("NotDispatched", "CommitFailed", 44)>>,
    <<"receipt-dispatched", Receipt("Dispatched", NoError, 45)>>,
    <<"receipt-dispatch-unknown", Receipt("DispatchUnknown", "DispatchFailed", 46)>>,
    <<"receipt-completed", Receipt("Completed", NoError, 47)>> }

ValidFixtureAssets ==
  ({"full-live-observation", "redacted-observation"} \X {"Observation"})
    \cup {<<"reduce-position-request", "LiveProposalRequest">>}
    \cup ({"trace-no-proposal", "trace-proposal", "trace-timeout", "trace-policy-failure"}
            \X {"AgentTrace"})
    \cup ({f[1] : f \in ReceiptFixtures} \X {"DecisionReceipt"})
    \cup ({"error-forbidden", "error-unsupported-version"} \X {"ProposalResponse"})

InvalidFixtures ==
  ({"unknown-field", "unknown-enum-variant", "zero-quantity", "negative-quantity",
    "exponent-quantity", "over-precision-quantity", "client-intent-id", "lowered-command",
    "guardrail-result", "dispatch-claim", "private-authorization-field"}
     \X {"LiveProposalRequest"} \X {"Malformed"})
    \cup ({"missing-source-timestamp", "missing-digest", "digest-mismatch",
           "expiry-before-creation"} \X {"Observation"} \X {"Malformed"})
    \cup ({"missing-position-view", "missing-instrument-view", "position-instrument-mismatch",
           "increment-misaligned-quantity"} \X {"ProposalCase"} \X {"Rejected"})
    \cup { <<"expired-observation", "Observation", "StaleObservation">>,
           <<"unsupported-protocol-major", "LiveProposalRequest", "UnsupportedVersion">>,
           <<"unsupported-feature", "ProtocolInfo", "UnsupportedVersion">>,
           <<"idempotency-original", "LiveProposalRequest", NoError>>,
           <<"idempotency-conflict", "LiveProposalRequest", "IdempotencyConflict">> }

-----------------------------------------------------------------------------
(* fields.toml.  A field is <<root type, container, name, required>>.      *)

FieldOwner(field) ==
  CASE field[1] \in {"Observation", "DecisionReceipt", "ProposalResponse"} -> "nautilus_trader"
    [] field[1] = "LiveProposalRequest" -> "caller"
    [] field[1] = "AgentTrace" -> "agent"
    [] OTHER -> "shared"

FieldRetention(field) ==
  CASE field[1] = "Observation" -> "declared_by_observation"
    [] field[1] = "AgentTrace" -> "agent_trace"
    [] OTHER -> "reference_only"

FieldDigestCovered_All(field) == field[1] \in {"Observation", "LiveProposalRequest", "AgentTrace"}

FieldDigestCovered(field) ==
  CASE field[1] = "Observation" -> ~(field[2] = "Observation" /\ field[3] = "digest")
    [] field[1] \in {"LiveProposalRequest", "AgentTrace"} -> TRUE
    [] OTHER -> FALSE

-----------------------------------------------------------------------------
(* What the crate embeds, and what its digest covers.                      *)

EmbeddedSchemas ==
  { <<"schema", a[1], a[2], "schema", NoError>> :
    a \in { <<"agent-trace", "AgentTrace">>, <<"decision-receipt", "DecisionReceipt">>,
             <<"live-proposal-request", "LiveProposalRequest">>,
             <<"observation", "Observation">>, <<"proposal-response", "ProposalResponse">> } }

ValidFixture(names, root) ==
  {"fixtures/valid"} \X names \X {root} \X {"valid"} \X {NoError}

InvalidFixture(names, root, error) ==
  {"fixtures/invalid"} \X names \X {root} \X {"invalid"} \X {error}

EmbeddedFixtures ==
  UNION {
    ValidFixture({"error-forbidden", "error-unsupported-version"}, "ProposalResponse"),
    ValidFixture({"full-live-observation", "redacted-observation"}, "Observation"),
    ValidFixture({"receipt-accepted", "receipt-authorized", "receipt-completed",
                  "receipt-dispatch-unknown", "receipt-dispatched", "receipt-not-dispatched",
                  "receipt-rejected"}, "DecisionReceipt"),
    ValidFixture({"reduce-position-request"}, "LiveProposalRequest"),
    ValidFixture({"trace-no-proposal", "trace-policy-failure", "trace-proposal",
                  "trace-timeout"}, "AgentTrace"),
    InvalidFixture({"client-intent-id", "dispatch-claim", "exponent-quantity",
                    "guardrail-result", "lowered-command", "negative-quantity",
                    "over-precision-quantity", "private-authorization-field",
                    "unknown-enum-variant", "unknown-field", "zero-quantity"},
                   "LiveProposalRequest", "Malformed"),
    InvalidFixture({"digest-mismatch", "expiry-before-creation", "missing-digest",
                    "missing-source-timestamp"}, "Observation", "Malformed"),
    InvalidFixture({"expired-observation"}, "Observation", "StaleObservation"),
    InvalidFixture({"idempotency-conflict"}, "LiveProposalRequest", "IdempotencyConflict"),
    InvalidFixture({"increment-misaligned-quantity", "missing-instrument-view",
                    "missing-position-view", "position-instrument-mismatch"},
                   "ProposalCase", "Rejected"),
    InvalidFixture({"unsupported-feature"}, "ProtocolInfo", "UnsupportedVersion"),
    InvalidFixture({"unsupported-protocol-major"}, "LiveProposalRequest", "UnsupportedVersion"),
    {<<"fixtures/invalid", "idempotency-original", "LiveProposalRequest", "valid", NoError>>} }

ObservationFields ==
  {"version", "id", "created_at", "expires_at", "grant", "provenance", "omissions",
   "retention", "payload", "digest"}

ObservationDigest ==
  {"version", "id", "created_at", "expires_at", "grant", "provenance", "omissions",
   "retention", "payload"}
=============================================================================
