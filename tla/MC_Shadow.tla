------------------------------ MODULE MC_Shadow ------------------------------
(* Instances of Shadow for TLC: a proposal, two others that differ from it  *)
(* in one field each, and a timeout text per runner.                        *)
EXTENDS Shadow

CONSTANTS slow, slower, p, x

MCMessages == {slow, slower}
MCTimeoutMessage == [r \in Runs |-> IF r = Baseline THEN slow ELSE slower]
MCProposals ==
  {intent \in [position_id: PositionIds, instrument_id: InstrumentIds, quantity: Quantities] :
     intent.position_id = p \/ intent.quantity = x}
==============================================================================
