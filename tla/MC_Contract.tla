----------------------------- MODULE MC_Contract -----------------------------
(* Instances of Contract for TLC, over a part of the repository's tables.    *)
EXTENDS Contract, TLC

Part == {"observation", "receipt-rejected", "digest-mismatch", "idempotency-original"}

Observations == <<"schema", "observation">>
Rejections == <<"fixtures/valid", "receipt-rejected">>

\* Two generations of a schema and of a receipt, and an inconsistent receipt.
MCMeaning ==
  << {"Observation"} \X ObservationFields \X {TRUE},
     ({"Observation"} \X ObservationFields \X {TRUE}) \cup {<<"FieldOmission", "reason", TRUE>>},
     (CHOOSE f \in ReceiptFixtures : f[1] = "receipt-rejected")[2],
     Receipt("Rejected", "Forbidden", 42),
     Receipt("Rejected", "CommitFailed", 42) >>

Base ==
  [ schemas |-> {a \in SchemaAssets : a[1] \in Part},
    valid |-> {a \in ValidFixtureAssets : a[1] \in Part},
    value |-> [p \in {Observations, Rejections} |-> IF p = Observations THEN 1 ELSE 3],
    invalid |-> {f \in InvalidFixtures : f[1] \in Part},
    embedded |-> {e \in EmbeddedSchemas \cup EmbeddedFixtures : e[2] \in Part} ]

\* base; more fields and another receipt; the receipt dropped from both tables;
\* an inconsistent receipt; the crate's table taking the idempotency control
\* for a malformed request.
MCTree ==
  [ base |-> Base,
    evolved |-> [Base EXCEPT !.value[Observations] = 2, !.value[Rejections] = 4],
    dropped |-> [Base EXCEPT !.valid = {}, !.value = [p \in {Observations} |-> 1],
                             !.embedded = {e \in @ : e[2] # "receipt-rejected"}],
    inconsistent |-> [Base EXCEPT !.value[Rejections] = 5],
    drifted |-> [Base EXCEPT !.embedded = {e \in @ : e[2] # "idempotency-original"}
                   \cup InvalidFixture({"idempotency-original"}, "LiveProposalRequest", "Malformed")] ]

\* The repository's two hand-written tables agree, its receipts validate, they
\* are one example of each status, and its fixtures are as FixtureAssumption says.
ASSUME TablesAgree ==
  /\ EmbeddedSchemas \cup EmbeddedFixtures =
       Declared([schemas |-> SchemaAssets, valid |-> ValidFixtureAssets, invalid |-> InvalidFixtures])
  /\ \A f \in ReceiptFixtures : ReceiptValid(f[2])
  /\ \A status \in DecisionStatus : Cardinality({f \in ReceiptFixtures : f[2].status = status}) = 1
  /\ \A f \in InvalidFixtures : f[2] # "DecisionReceipt"
  /\ \A f, g \in ValidFixtureAssets \cup InvalidFixtures : f[1] = g[1] => f = g

SlotSymmetry == Permutations(Slots)
==============================================================================
