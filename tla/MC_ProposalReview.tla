-------------------------- MODULE MC_ProposalReview --------------------------
(* Instances of ProposalReview for TLC.                                      *)
EXTENDS ProposalReview

CONSTANTS pos, other, inst, foreign

UpToTwo(S) == {<<>>} \cup {<<a>> : a \in S} \cup (S \X S)

WithDigest(o) == [f \in DOMAIN o \cup {"digest"} |-> IF f = "digest" THEN o ELSE o[f]]

\* Every payload of at most two positions and two instruments, of the granted
\* instrument and of another, under grants of one category and of both.
Payloads ==
  { WithDigest([ version |-> ProtocolVersion, id |-> 2, created_at |-> 1, expires_at |-> 2,
      grant |-> [observations |-> caps, instruments |-> {inst}, expires_at |-> 2],
      omissions |-> {}, retention |-> "Derived", positions |-> ps, instruments |-> is ]) :
    caps \in {Capabilities, {"PositionSummary"}},
    ps \in UpToTwo({v \in PositionViews :
                      v.updated_at = 1 /\ (v.instrument_id = inst \/ v.quantity = 1)}),
    is \in UpToTwo({v \in InstrumentViews : v.instrument_id = inst \/ v.quantity_increment = 1}) }

\* One payload under every version and expiry, omitting nothing or one path.
Headers(paths) ==
  { WithDigest([ version |-> v, id |-> 2, created_at |-> 1, expires_at |-> e,
      grant |-> [observations |-> Capabilities, instruments |-> {inst}, expires_at |-> ge],
      omissions |-> om, retention |-> "Derived",
      positions |-> <<[position_id |-> pos, instrument_id |-> inst, quantity |-> 2,
                       updated_at |-> u]>>,
      instruments |-> <<[instrument_id |-> inst, quantity_increment |-> 1]>> ]) :
    v \in {ProtocolVersion, [major |-> 1, minor |-> 1], [major |-> 2, minor |-> 0]},
    e \in {0, 2, 3}, ge \in 2 .. 3, u \in 1 .. 2, om \in {{}} \cup {{path} : path \in paths} }

LivePaths ==
  { <<"payload">>, <<"payload", "live">>, <<"payload", "live", "positions">>,
    <<"payload", "live", "instruments", "*">>, <<"payload", "live", "positions", "*", "quantity">>,
    <<"payload", "live", "positions", "*", "side">> }

AllDrafts ==
  Payloads \cup Headers(LivePaths)
    \cup {ValidObservation, RedactedObservation, ExpiredObservation, LiveObservation}

\* Of nothing, and of another content than the one observed.
MCDigests == {ZeroDigest, ValidObservation.digest}

\* One setting per field that validate accepts or one that it refuses, or both.
MCSettings ==
  [ version |-> {[major |-> 2, minor |-> 0]}, id |-> {3}, created_at |-> {0, 3}, expires_at |-> {0, 3},
    grant |-> {[observations |-> {}, instruments |-> {inst}, expires_at |-> 3],
               [observations |-> Capabilities, instruments |-> {}, expires_at |-> 3],
               [observations |-> Capabilities, instruments |-> {inst}, expires_at |-> 2]},
    omissions |-> {{<<"payload", "live", "instruments">>}},
    retention |-> {"Restricted"},
    positions |-> {<<>>, <<[position_id |-> pos, instrument_id |-> foreign, quantity |-> 15,
                            updated_at |-> 2]>>},
    instruments |-> {<<>>} ]

\* RFC 6901: the empty pointer, which FieldPath accepts, is the whole document.
RootDrafts == Headers({<<>>})
==============================================================================
