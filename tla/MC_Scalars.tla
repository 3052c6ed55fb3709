------------------------------ MODULE MC_Scalars ------------------------------
(* Instances of Scalars for TLC: every text over a small alphabet per kind.  *)
EXTENDS Scalars, SequencesExt

MCTexts ==
  [ Identifier |-> SeqOf({"a", "e_acute", "nul", "del", "nel"}, 5),
    IdempotencyKey |-> SeqOf({"a", "e_acute", "nul"}, 5),
    TimestampNs |-> SeqOf({"0", "3", "4", "6", "a"}, 4),
    ContentDigest |->
      {<<p>> \o t : p \in {"sha256:", "a"}, t \in SeqOf({"0", "a", "A", "g", "e_acute"}, 5)}
        \cup SeqOf({"0", "a"}, 5),
    Uuid |-> SeqOf({"0", "a", "A", "-"}, 6)
               \cup {<<"{">> \o t \o <<"}">> : t \in SeqOf({"a", "A", "-"}, 5)}
               \cup {<<"urn:uuid:">> \o t : t \in SeqOf({"a", "A", "-"}, 5)},
    FieldPath |-> SeqOf({"a", "0", "1", "~", "/"}, 5) ]

\* Bytes over a few hexadecimal digits stand for all 256.
MCHashByte == {16 * h + l : h, l \in {0, 1, 10, 15}}
==============================================================================
