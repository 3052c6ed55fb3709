------------------------------- MODULE Fixtures -------------------------------
(***************************************************************************)
(* The synthetic values of src/testing.rs, the builder behind them, and    *)
(* the policies of examples/.  Quantities count quarters (2.75 is 11),     *)
(* times only keep their order, and ids their last digits.                 *)
(***************************************************************************)
EXTENDS Observation

CONSTANTS
  FixturePosition, FixtureInstrument,   \* P-197, BTCUSDT.BINANCE
  ZeroDigest                            \* ContentDigest::new([0; 32])

Refreshed(o) == [o EXCEPT !.digest = ComputedDigest(o)]

\* base_observation and the one of examples/support, which differ in the id and
\* in a quantity.
BaseObservation(id, quantity) ==
  [ version |-> ProtocolVersion, id |-> id, created_at |-> 1, expires_at |-> 2,
    grant |-> [observations |-> Capabilities, instruments |-> {FixtureInstrument},
               expires_at |-> 3],
    omissions |-> {}, retention |-> "Derived",
    positions |-> <<[position_id |-> FixturePosition, instrument_id |-> FixtureInstrument,
                     quantity |-> quantity, updated_at |-> 0]>>,
    instruments |-> <<[instrument_id |-> FixtureInstrument, quantity_increment |-> 1]>>,
    digest |-> ZeroDigest ]

ValidObservation == Refreshed(BaseObservation(11, 11))

RedactedObservation_Undisclosed ==
  Refreshed([ValidObservation EXCEPT !.id = 12, !.positions = <<>>, !.retention = "Restricted"])

RedactedObservation ==
  Refreshed([ValidObservation EXCEPT
               !.id = 12,
               !.positions = <<>>,
               !.omissions = {<<"payload", "live", "positions">>},
               !.retention = "Restricted"])

\* Of the valid observation, expired_observation only changes the id.
ExpiredObservation == Refreshed([ValidObservation EXCEPT !.id = 13])

\* reduce_position_request; proposal_trace carries the same proposal.
RequestProposal ==
  [position_id |-> FixturePosition, instrument_id |-> FixtureInstrument, quantity |-> 5]

\* support::live_observation.
LiveObservation == Refreshed(BaseObservation(17, 15))

-----------------------------------------------------------------------------
(* The example policies, as the set of at most one proposal.               *)

Reduce(position, quantity) ==
  [position_id |-> position.position_id, instrument_id |-> position.instrument_id,
   quantity |-> quantity]

\* Vec::first.
FirstPosition(o) == {o.positions[i] : i \in {1} \cap DOMAIN o.positions}

DefensivePolicy_Always(o, threshold, reduction) ==
  {Reduce(p, reduction) : p \in FirstPosition(o)}

DefensivePolicy(o, threshold, reduction) ==
  {Reduce(p, reduction) : p \in {q \in FirstPosition(o) : q.quantity > threshold}}

FixedReductionPolicy(o, quantity) == {Reduce(p, quantity) : p \in FirstPosition(o)}

\* What the two examples run: a threshold of 3 and reductions of 1.25 and 1.5.
ExampleProposals(o) ==
  DefensivePolicy(o, 12, 5) \cup FixedReductionPolicy(o, 5) \cup FixedReductionPolicy(o, 6)
===============================================================================
