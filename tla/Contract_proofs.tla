---------------------------- MODULE Contract_proofs ----------------------------
(***************************************************************************)
(* The contract generator and the crate's own test, for every table, every *)
(* number of invocations and every fault: a verdict is exact, a tested     *)
(* crate embeds one generation and tells of it what the manifest does.     *)
(***************************************************************************)
EXTENDS Contract, FiniteSetTheorems, TLAPS

Places == Paths \cup Range(Directories)

\* The revision that a slot's invocation was compiled from.
Own(r) == Tree[built[r]]

\* Where an invocation of the generator is under way.
Working == {"read", "write", "fill", "compare", "list"}

\* What a file may hold: a manifest or a fields.toml is whole and of one
\* revision whose receipts are consistent, or it is torn or gone.
FileOK(path, bytes) ==
  /\ path = ManifestFile => \/ bytes \in {Missing, Torn}
                            \/ \E v \in Revisions : \E invalid \in [InvalidPaths(Tree[v]) -> {1, 2}] :
                                 /\ ReceiptsConsistent(Tree[v])
                                 /\ bytes = ManifestBytes(Tree[v], invalid)
  /\ path = Fields => bytes \in {Missing, Torn} \/ \E v \in Revisions : bytes = FieldsBytes(Tree[v])
  /\ \A v \in Revisions : path \in InvalidPaths(Tree[v]) => bytes \in {1, 2, Missing}

DiskOK == \A p \in Paths : FileOK(p, disk[p])

Types ==
  /\ ContractTypeOK
  /\ todo \in [Slots -> Seq(Places)]
  /\ DOMAIN seen = Slots
  /\ clean \in [Slots -> BOOLEAN]

\* An invocation of the generator has consistent receipts; it has read the
\* consumer cases, or will, and works through its own assets.
Generating(r) ==
  pc[r] \in Working =>
    /\ mode[r] # "build" /\ ReceiptsConsistent(Own(r))
    /\ DOMAIN seen[r] \subseteq InvalidPaths(Own(r))
    /\ \A p \in DOMAIN seen[r] : seen[r][p] \in {1, 2}
    /\ pc[r] = "read" => /\ Range(todo[r]) \subseteq InvalidPaths(Own(r))
                         /\ InvalidPaths(Own(r)) \subseteq DOMAIN seen[r] \cup Range(todo[r])
    /\ pc[r] # "read" => InvalidPaths(Own(r)) \subseteq DOMAIN seen[r]
    /\ pc[r] \in {"write", "fill", "compare"} => Range(todo[r]) \subseteq Range(AssetOrder(Own(r)))
    /\ pc[r] = "fill" => todo[r] # <<>>
    /\ pc[r] = "list" => Range(todo[r]) \subseteq Range(Directories)

\* A build has read what the crate embeds, or will.
Embedding(r) ==
  /\ pc[r] = "embed" => mode[r] = "build"
  /\ mode[r] = "build" /\ pc[r] \in {"embed", "ok"} =>
       /\ DOMAIN seen[r] \subseteq EmbeddedPaths(Own(r))
       /\ EmbeddedPaths(Own(r)) \subseteq DOMAIN seen[r] \cup Range(todo[r])
       /\ Range(todo[r]) \subseteq EmbeddedPaths(Own(r))
       /\ \A p \in DOMAIN seen[r] : FileOK(p, seen[r][p])

\* While nobody else changes a file, what was read is still there, and what has
\* been written or compared is as generated.
Undisturbed(r) ==
  clean[r] =>
    /\ pc[r] \in Working \cup {"embed"} => \A p \in DOMAIN seen[r] : disk[p] = seen[r][p]
    /\ pc[r] \in {"write", "fill", "compare", "list"} =>
         \A p \in Range(AssetOrder(Own(r))) :
           \/ pc[r] # "list" /\ p \in Range(todo[r])
           \/ disk[p] = Generated(Own(r), seen[r], p)
    /\ pc[r] = "list" =>
         \A d \in Range(Directories) \ Range(todo[r]) :
           DirectoryNames(d) = ExpectedNames(Own(r), d)

SlotOK(r) == Generating(r) /\ Embedding(r) /\ Undisturbed(r)

\* The inductive invariant.
IInv == Types /\ DiskOK /\ \A r \in Slots : SlotOK(r)

-----------------------------------------------------------------------------
(* Sequences and finite sets.                                              *)

\* The head of a sequence and the range of its tail are its range.
LEMMA RangeOfTail ==
  ASSUME NEW S, NEW s \in Seq(S), s # <<>>
  PROVE  /\ Head(s) \in Range(s)
         /\ Tail(s) \in Seq(S)
         /\ Range(s) = {Head(s)} \cup Range(Tail(s))
<1>1. Len(s) \in Nat \ {0} /\ DOMAIN s = 1 .. Len(s) /\ Head(s) = s[1]
  OBVIOUS
<1>2. Tail(s) \in Seq(S) /\ DOMAIN Tail(s) = 1 .. Len(s) - 1
  BY <1>1
<1>3. \A i \in 1 .. Len(s) - 1 : Tail(s)[i] = s[i + 1]
  BY <1>1
<1>4. ASSUME NEW x \in Range(s) PROVE x \in {Head(s)} \cup Range(Tail(s))
  <2>1. PICK i \in 1 .. Len(s) : x = s[i]
    BY <1>1 DEF Range
  <2>2. CASE i = 1
    BY <1>1, <2>1, <2>2
  <2>3. CASE i # 1
    <3>1. i - 1 \in 1 .. Len(s) - 1 /\ Tail(s)[i - 1] = x
      BY <1>1, <1>3, <2>1, <2>3
    <3>2. QED
      BY <1>2, <3>1 DEF Range
  <2>4. QED
    BY <2>2, <2>3
<1>5. Range(Tail(s)) \subseteq Range(s)
  BY <1>1, <1>2, <1>3 DEF Range
<1>6. Head(s) \in Range(s)
  BY <1>1 DEF Range
<1>7. QED
  BY <1>2, <1>4, <1>5, <1>6

\* A concatenation has the elements of both sequences.
LEMMA RangeOfConcat ==
  ASSUME NEW S, NEW s \in Seq(S), NEW t \in Seq(S)
  PROVE  s \o t \in Seq(S) /\ Range(s \o t) = Range(s) \cup Range(t)
<1>1. /\ Len(s) \in Nat /\ Len(t) \in Nat
      /\ DOMAIN s = 1 .. Len(s) /\ DOMAIN t = 1 .. Len(t)
      /\ s \o t \in Seq(S) /\ DOMAIN (s \o t) = 1 .. Len(s) + Len(t)
  OBVIOUS
<1>2. \A i \in 1 .. Len(s) + Len(t) : (s \o t)[i] = IF i <= Len(s) THEN s[i] ELSE t[i - Len(s)]
  OBVIOUS
<1>3. ASSUME NEW x \in Range(s \o t) PROVE x \in Range(s) \cup Range(t)
  <2>1. PICK i \in 1 .. Len(s) + Len(t) : x = (s \o t)[i]
    BY <1>1 DEF Range
  <2>2. CASE i <= Len(s)
    BY <1>1, <1>2, <2>1, <2>2 DEF Range
  <2>3. CASE i > Len(s)
    <3>1. i - Len(s) \in 1 .. Len(t) /\ x = t[i - Len(s)]
      BY <1>1, <1>2, <2>1, <2>3
    <3>2. QED
      BY <1>1, <3>1 DEF Range
  <2>4. QED
    BY <1>1, <2>2, <2>3
<1>4. ASSUME NEW x \in Range(s) PROVE x \in Range(s \o t)
  <2>1. PICK i \in 1 .. Len(s) : x = s[i]
    BY <1>1 DEF Range
  <2>2. i \in 1 .. Len(s) + Len(t) /\ (s \o t)[i] = x
    BY <1>1, <1>2, <2>1
  <2>3. QED
    BY <1>1, <2>2 DEF Range
<1>5. ASSUME NEW x \in Range(t) PROVE x \in Range(s \o t)
  <2>1. PICK i \in 1 .. Len(t) : x = t[i]
    BY <1>1 DEF Range
  <2>2. i + Len(s) \in 1 .. Len(s) + Len(t) /\ (s \o t)[i + Len(s)] = x
    BY <1>1, <1>2, <2>1
  <2>3. QED
    BY <1>1, <2>2 DEF Range
<1>6. QED
  BY <1>1, <1>3, <1>4, <1>5

\* A finite set as a sequence has its elements and no others.
LEMMA RangeOfSetToSeq ==
  ASSUME NEW S, IsFiniteSet(S)
  PROVE  SetToSeq(S) \in Seq(S) /\ Range(SetToSeq(S)) = S
<1> DEFINE n == Cardinality(S)
<1>1. n \in Nat /\ ExistsBijection(1 .. n, S)
  BY FS_CardinalityType
<1>2. PICK f : f \in Bijection(1 .. n, S)
  BY <1>1 DEF ExistsBijection
<1>3. f \in [1 .. n -> S] /\ IsInjective(f)
  BY <1>2 DEF Bijection, Injection, IsInjective
<1>4. SetToSeq(S) \in [1 .. n -> S] /\ IsInjective(SetToSeq(S))
  BY <1>3 DEF SetToSeq
<1> HIDE DEF n
<1>5. SetToSeq(S) \in Injection(1 .. n, S)
  BY <1>4 DEF Injection, IsInjective
<1>6. IsFiniteSet(1 .. n) /\ Cardinality(1 .. n) = Cardinality(S)
  BY <1>1, FS_Interval DEF n
<1>7. SetToSeq(S) \in Surjection(1 .. n, S)
  BY <1>5, <1>6, FS_Injection
<1>8. Range(SetToSeq(S)) = S
  BY <1>4, <1>7 DEF Surjection, Range
<1>9. SetToSeq(S) \in Seq(S)
  BY <1>1, <1>4
<1>10. QED
  BY <1>8, <1>9

-----------------------------------------------------------------------------
(* Paths and the bytes that a revision generates.                          *)

\* A path tells its directory, and the two described files are in none.
LEMMA DirectoryOfPath ==
  ASSUME NEW s, NEW p
  PROVE  /\ p \in SchemaPaths(s) => p[1] = "schema"
         /\ p \in ValidPaths(s) => p[1] = "fixtures/valid"
         /\ p \in InvalidPaths(s) => p[1] = "fixtures/invalid"
         /\ p = Fields => p[1] = "fields.toml"
         /\ p = ManifestFile => p[1] = "manifest.json"
BY DEF SchemaPaths, ValidPaths, InvalidPaths, Fields, ManifestFile

\* The files of an invocation are files of the model.
LEMMA PathsOfRevision ==
  ASSUME NEW v \in Revisions
  PROVE  /\ AssetPaths(Tree[v]) \subseteq Paths
         /\ EmbeddedPaths(Tree[v]) \subseteq Paths
         /\ {Fields, ManifestFile} \subseteq Paths
         /\ Paths \subseteq Places
         /\ Range(Directories) \subseteq Places
<1>1. AssetPaths(Tree[v]) \cup EmbeddedPaths(Tree[v]) \in
        {AssetPaths(Tree[w]) \cup EmbeddedPaths(Tree[w]) : w \in Revisions}
  OBVIOUS
<1>2. AssetPaths(Tree[v]) \cup EmbeddedPaths(Tree[v]) \subseteq Paths
  BY <1>1 DEF Paths
<1>3. {Fields, ManifestFile} \subseteq Paths
  BY DEF Paths
<1>4. QED
  BY <1>2, <1>3 DEF Places

\* The tables are finite, so are the paths in them.
LEMMA FinitePaths ==
  ASSUME NEW v \in Revisions
  PROVE  /\ IsFiniteSet(SchemaPaths(Tree[v])) /\ IsFiniteSet(ValidPaths(Tree[v]))
         /\ IsFiniteSet(InvalidPaths(Tree[v])) /\ IsFiniteSet(EmbeddedPaths(Tree[v]))
<1> DEFINE s == Tree[v]
<1>1. /\ IsFiniteSet(s.schemas) /\ IsFiniteSet(s.valid)
      /\ IsFiniteSet(s.invalid) /\ IsFiniteSet(s.embedded)
  BY SourceAssumption
<1> HIDE DEF s
<1>2. IsFiniteSet(SchemaPaths(s))
  <2> DEFINE f == [a \in s.schemas |-> <<"schema", a[1]>>]
  <2>1. f \in Surjection(s.schemas, SchemaPaths(s))
    BY DEF Surjection, SchemaPaths
  <2>2. QED
    BY <1>1, <2>1, FS_Surjection
<1>3. IsFiniteSet(ValidPaths(s))
  <2> DEFINE f == [a \in s.valid |-> <<"fixtures/valid", a[1]>>]
  <2>1. f \in Surjection(s.valid, ValidPaths(s))
    BY DEF Surjection, ValidPaths
  <2>2. QED
    BY <1>1, <2>1, FS_Surjection
<1>4. IsFiniteSet(InvalidPaths(s))
  <2> DEFINE f == [a \in s.invalid |-> <<"fixtures/invalid", a[1]>>]
  <2>1. f \in Surjection(s.invalid, InvalidPaths(s))
    BY DEF Surjection, InvalidPaths
  <2>2. QED
    BY <1>1, <2>1, FS_Surjection
<1>5. IsFiniteSet(EmbeddedPaths(s))
  <2> DEFINE T == {<<e[1], e[2]>> : e \in s.embedded}
             f == [e \in s.embedded |-> <<e[1], e[2]>>]
  <2>1. f \in Surjection(s.embedded, T)
    BY DEF Surjection
  <2>2. IsFiniteSet(T)
    BY <1>1, <2>1, FS_Surjection
  <2>3. QED
    BY <2>2, FS_AddElement DEF EmbeddedPaths
<1>6. QED
  BY <1>2, <1>3, <1>4, <1>5 DEF s

\* What an invocation works through, as sets.
LEMMA TodoLists ==
  ASSUME NEW v \in Revisions
  PROVE  /\ SetToSeq(InvalidPaths(Tree[v])) \in Seq(Places)
         /\ Range(SetToSeq(InvalidPaths(Tree[v]))) = InvalidPaths(Tree[v])
         /\ SetToSeq(EmbeddedPaths(Tree[v])) \in Seq(Places)
         /\ Range(SetToSeq(EmbeddedPaths(Tree[v]))) = EmbeddedPaths(Tree[v])
         /\ AssetOrder(Tree[v]) \in Seq(Places)
         /\ Range(AssetOrder(Tree[v])) =
              SchemaPaths(Tree[v]) \cup ValidPaths(Tree[v]) \cup {Fields, ManifestFile}
         /\ Directories \in Seq(Places)
         /\ Range(Directories) = {<<"schema">>, <<"fixtures/valid">>, <<"fixtures/invalid">>}
<1> DEFINE s == Tree[v]
<1>1. /\ InvalidPaths(s) \subseteq Places /\ EmbeddedPaths(s) \subseteq Places
      /\ SchemaPaths(s) \subseteq Places /\ ValidPaths(s) \subseteq Places
      /\ Fields \in Places /\ ManifestFile \in Places /\ Range(Directories) \subseteq Places
  BY PathsOfRevision DEF AssetPaths
<1>2. /\ IsFiniteSet(SchemaPaths(s)) /\ IsFiniteSet(ValidPaths(s))
      /\ IsFiniteSet(InvalidPaths(s)) /\ IsFiniteSet(EmbeddedPaths(s))
  BY FinitePaths
<1> HIDE DEF s
<1>3. \A S \in SUBSET Places : IsFiniteSet(S) => SetToSeq(S) \in Seq(Places) /\ Range(SetToSeq(S)) = S
  <2>1. ASSUME NEW S \in SUBSET Places, IsFiniteSet(S)
        PROVE  SetToSeq(S) \in Seq(Places) /\ Range(SetToSeq(S)) = S
    <3>1. SetToSeq(S) \in Seq(S) /\ Range(SetToSeq(S)) = S
      BY <2>1, RangeOfSetToSeq
    <3>2. QED
      BY <3>1
  <2>2. QED
    BY <2>1
<1>4. <<Fields, ManifestFile>> \in Seq(Places) /\ Range(<<Fields, ManifestFile>>) = {Fields, ManifestFile}
  BY <1>1 DEF Range
<1>5. /\ SetToSeq(SchemaPaths(s)) \in Seq(Places) /\ Range(SetToSeq(SchemaPaths(s))) = SchemaPaths(s)
      /\ SetToSeq(ValidPaths(s)) \in Seq(Places) /\ Range(SetToSeq(ValidPaths(s))) = ValidPaths(s)
      /\ SetToSeq(InvalidPaths(s)) \in Seq(Places) /\ Range(SetToSeq(InvalidPaths(s))) = InvalidPaths(s)
      /\ SetToSeq(EmbeddedPaths(s)) \in Seq(Places) /\ Range(SetToSeq(EmbeddedPaths(s))) = EmbeddedPaths(s)
  BY <1>1, <1>2, <1>3
<1>6. /\ SetToSeq(SchemaPaths(s)) \o SetToSeq(ValidPaths(s)) \in Seq(Places)
      /\ Range(SetToSeq(SchemaPaths(s)) \o SetToSeq(ValidPaths(s))) = SchemaPaths(s) \cup ValidPaths(s)
  BY <1>5, RangeOfConcat
<1>7. AssetOrder(s) \in Seq(Places) /\ Range(AssetOrder(s)) = SchemaPaths(s) \cup ValidPaths(s) \cup {Fields, ManifestFile}
  <2> DEFINE t == SetToSeq(SchemaPaths(s)) \o SetToSeq(ValidPaths(s))
             u == <<Fields, ManifestFile>>
  <2>1. AssetOrder(s) = t \o u
    BY DEF AssetOrder
  <2>2. /\ t \in Seq(Places) /\ Range(t) = SchemaPaths(s) \cup ValidPaths(s)
        /\ u \in Seq(Places) /\ Range(u) = {Fields, ManifestFile}
    BY <1>4, <1>6
  <2> HIDE DEF t, u
  <2>3. t \o u \in Seq(Places) /\ Range(t \o u) = Range(t) \cup Range(u)
    BY <2>2, RangeOfConcat
  <2>4. QED
    BY <2>1, <2>2, <2>3
<1>8. Range(Directories) = {<<"schema">>, <<"fixtures/valid">>, <<"fixtures/invalid">>}
  BY DEF Directories, Range
<1>9. Directories \in Seq(Places)
  BY <1>1, <1>8 DEF Directories
<1>10. QED
  BY <1>5, <1>7, <1>8, <1>9 DEF s

\* The generator neither writes nor checks the consumer cases.
LEMMA CasesAreNoAssets ==
  ASSUME NEW v \in Revisions, NEW w \in Revisions
  PROVE  Range(AssetOrder(Tree[v])) \cap InvalidPaths(Tree[w]) = {}
<1>1. \A p \in SchemaPaths(Tree[v]) \cup ValidPaths(Tree[v]) \cup {Fields, ManifestFile} :
        p[1] \in {"schema", "fixtures/valid", "fields.toml", "manifest.json"}
  BY DirectoryOfPath
<1>2. \A p \in InvalidPaths(Tree[w]) : p[1] = "fixtures/invalid"
  BY DirectoryOfPath
<1>3. QED
  BY <1>1, <1>2, TodoLists

\* The rows of a manifest.
SchemaRow(s, a) ==
  ManifestAsset(<<"schema", a[1]>>, a[2], s.value[<<"schema", a[1]>>], "schema", NoError)

ValidRow(s, a) ==
  ManifestAsset(<<"fixtures/valid", a[1]>>, a[2], s.value[<<"fixtures/valid", a[1]>>], "valid", NoError)

CaseRow(invalid, f) ==
  ManifestAsset(<<"fixtures/invalid", f[1]>>, f[2], invalid[<<"fixtures/invalid", f[1]>>],
                IF f[3] = NoError THEN "valid" ELSE "invalid", f[3])

Rows(s, invalid) ==
  {SchemaRow(s, a) : a \in s.schemas} \cup {ValidRow(s, a) : a \in s.valid}
    \cup {CaseRow(invalid, f) : f \in s.invalid}

LEMMA RowsOfManifest ==
  ASSUME NEW s, NEW invalid
  PROVE  /\ ManifestBytes(s, invalid) =
              [assets |-> Rows(s, invalid), contract_digest |-> Rows(s, invalid)]
         /\ ManifestBytes(s, invalid).assets = Rows(s, invalid)
<1>1. ManifestBytes(s, invalid) =
        [assets |-> Rows(s, invalid), contract_digest |-> Rows(s, invalid)]
  BY DEF ManifestBytes, Rows, SchemaRow, ValidRow, CaseRow
<1>2. QED
  BY <1>1

\* A manifest depends on the bytes of the consumer cases and of no other file.
LEMMA ManifestOfCases ==
  ASSUME NEW s, NEW i, NEW j, \A p \in InvalidPaths(s) : i[p] = j[p]
  PROVE  /\ ManifestBytes(s, i) = ManifestBytes(s, j)
         /\ \A p : Generated(s, i, p) = Generated(s, j, p)
<1>1. \A f \in s.invalid : CaseRow(i, f) = CaseRow(j, f)
  BY DEF InvalidPaths, CaseRow
<1>2. Rows(s, i) = Rows(s, j)
  BY <1>1 DEF Rows
<1>3. ManifestBytes(s, i) = ManifestBytes(s, j)
  BY <1>2, RowsOfManifest
<1>4. QED
  BY <1>3 DEF Generated

\* A manifest shows whether the receipts of its generator were consistent.
LEMMA ConsistentByManifest ==
  ASSUME NEW s, NEW i, NEW t, NEW j,
         ManifestBytes(s, i) = ManifestBytes(t, j), ReceiptsConsistent(t)
  PROVE  ReceiptsConsistent(s)
<1> SUFFICES ASSUME NEW a \in s.valid, a[2] = "DecisionReceipt"
             PROVE  ReceiptValid(Meaning[s.value[<<"fixtures/valid", a[1]>>]])
  BY DEF ReceiptsConsistent, Receipts
<1> DEFINE row == ValidRow(s, a)
<1>1. row \in Rows(t, j)
  <2>1. row \in Rows(s, i)
    BY DEF Rows
  <2>2. Rows(s, i) = Rows(t, j)
    BY RowsOfManifest
  <2>3. QED
    BY <2>1, <2>2
<1>2. /\ row.path = <<"fixtures/valid", a[1]>> /\ row.root_type = "DecisionReceipt"
      /\ row.sha256 = s.value[<<"fixtures/valid", a[1]>>]
  BY DEF ValidRow, ManifestAsset
<1> HIDE DEF row
<1>3. PICK b \in t.valid : row = ValidRow(t, b)
  <2>1. CASE \E b \in t.schemas : row = SchemaRow(t, b)
    BY <1>2, <2>1 DEF SchemaRow, ManifestAsset
  <2>2. CASE \E f \in t.invalid : row = CaseRow(j, f)
    BY <1>2, <2>2 DEF CaseRow, ManifestAsset
  <2>3. QED
    BY <1>1, <2>1, <2>2 DEF Rows
<1>4. b[2] = "DecisionReceipt" /\ s.value[<<"fixtures/valid", a[1]>>] = t.value[<<"fixtures/valid", b[1]>>]
  BY <1>2, <1>3 DEF ValidRow, ManifestAsset
<1>5. QED
  BY <1>4 DEF ReceiptsConsistent, Receipts

-----------------------------------------------------------------------------
(* The inductive invariant.                                                *)

\* What a consistent generator makes is what a file may hold.
LEMMA GeneratedOK ==
  ASSUME NEW v \in Revisions, NEW invalid, NEW p \in Range(AssetOrder(Tree[v])),
         ReceiptsConsistent(Tree[v]),
         \A q \in InvalidPaths(Tree[v]) : invalid[q] \in {1, 2}
  PROVE  FileOK(p, Generated(Tree[v], invalid, p))
<1> DEFINE cases == [q \in InvalidPaths(Tree[v]) |-> invalid[q]]
<1>1. cases \in [InvalidPaths(Tree[v]) -> {1, 2}]
  OBVIOUS
<1>2. ManifestBytes(Tree[v], invalid) = ManifestBytes(Tree[v], cases)
  BY ManifestOfCases
<1> HIDE DEF cases
<1>3. Fields # ManifestFile
  BY DEF Fields, ManifestFile
<1>4. \A w \in Revisions : p \notin InvalidPaths(Tree[w])
  BY CasesAreNoAssets
<1>5. CASE p = ManifestFile
  <2>1. Generated(Tree[v], invalid, p) = ManifestBytes(Tree[v], cases)
    BY <1>2, <1>3, <1>5 DEF Generated
  <2>2. QED
    BY <1>1, <1>3, <1>4, <1>5, <2>1 DEF FileOK
<1>6. CASE p = Fields
  <2>1. Generated(Tree[v], invalid, p) = FieldsBytes(Tree[v])
    BY <1>3, <1>6 DEF Generated
  <2>2. QED
    BY <1>3, <1>4, <1>6, <2>1 DEF FileOK
<1>7. CASE p # ManifestFile /\ p # Fields
  BY <1>4, <1>7 DEF FileOK
<1>8. QED
  BY <1>5, <1>6, <1>7

\* Any file may be gone, and any that is not a consumer case torn.
LEMMA GoneOrTorn ==
  ASSUME NEW p
  PROVE  /\ FileOK(p, Missing)
         /\ (\A v \in Revisions : p \notin InvalidPaths(Tree[v])) => FileOK(p, Torn)
BY DEF FileOK

\* A slot that a step leaves alone stays right, if the step disturbs it or
\* changes no file.
LEMMA OtherSlots ==
  ASSUME NEW q \in Slots, SlotOK(q),
         pc'[q] = pc[q], mode'[q] = mode[q], built'[q] = built[q],
         todo'[q] = todo[q], seen'[q] = seen[q],
         clean'[q] => clean[q] /\ disk' = disk
  PROVE  SlotOK(q)'
<1>1. Generating(q)' /\ Embedding(q)'
  BY DEF SlotOK, Generating, Embedding, Own, FileOK
<1>2. Undisturbed(q)'
  <2>1. CASE clean'[q] = FALSE
    BY <2>1 DEF Undisturbed
  <2>2. CASE clean'[q] /\ clean[q] /\ disk' = disk
    BY <2>2 DEF SlotOK, Undisturbed, Own, DirectoryNames
  <2>3. QED
    BY <2>1, <2>2 DEF Undisturbed
<1>3. QED
  BY <1>1, <1>2 DEF SlotOK

LEMMA InitIInv == Init => IInv
<1> SUFFICES ASSUME Init PROVE IInv
  OBVIOUS
<1> DEFINE s == Tree[First]
           ones == [q \in InvalidPaths(s) |-> 1]
<1>1. First \in Revisions /\ ReceiptsConsistent(s)
  BY SourceAssumption, GeneratorAssumption
<1>2. DiskOK
  <2> SUFFICES ASSUME NEW p \in Paths PROVE FileOK(p, disk[p])
    BY DEF DiskOK
  <2>1. disk[p] = IF p \in InvalidPaths(s) THEN 1
                  ELSE IF p \in Range(AssetOrder(s)) THEN Generated(s, ones, p) ELSE Missing
    BY DEF Init, Complete
  <2>2. CASE p \in InvalidPaths(s)
    <3>1. p # ManifestFile /\ p # Fields
      BY <2>2, DirectoryOfPath
    <3>2. QED
      BY <2>1, <2>2, <3>1 DEF FileOK
  <2>3. CASE p \notin InvalidPaths(s) /\ p \in Range(AssetOrder(s))
    <3>1. \A q \in InvalidPaths(s) : ones[q] \in {1, 2}
      OBVIOUS
    <3> HIDE DEF ones
    <3>2. QED
      BY <1>1, <2>1, <2>3, <3>1, GeneratedOK
  <2>4. CASE p \notin InvalidPaths(s) /\ p \notin Range(AssetOrder(s))
    BY <2>1, <2>4, GoneOrTorn
  <2>5. QED
    BY <2>2, <2>3, <2>4
<1>3. Types
  <2>1. \A r \in Slots : todo[r] = <<>> /\ seen[r] = <<>>
    BY DEF Init
  <2>2. Range(<<>>) = {} /\ DOMAIN <<>> = {} /\ <<>> \in Seq(Places)
    BY DEF Range
  <2>3. DOMAIN disk = Paths
    BY DEF Init, Complete
  <2>4. ContractTypeOK
    BY <1>1, <2>1, <2>2, <2>3 DEF Init, ContractTypeOK, Ended
  <2>5. QED
    BY <2>1, <2>2, <2>4 DEF Init, Types
<1>4. \A r \in Slots : SlotOK(r)
  BY DEF Init, SlotOK, Generating, Embedding, Undisturbed, Working
<1>5. QED
  BY <1>2, <1>3, <1>4 DEF IInv

\* A loop's new list, or what is left of it.
LEMMA TodoTypes ==
  ASSUME todo \in [Slots -> Seq(Places)], NEW r \in Slots, NEW t \in Seq(Places),
         todo' = [todo EXCEPT ![r] = t]
  PROVE  /\ todo' \in [Slots -> Seq(Places)]
         /\ \A q \in Slots : Range(todo'[q]) \subseteq Paths \cup {Directories[i] : i \in 1 .. 3}
<1>1. todo' \in [Slots -> Seq(Places)]
  OBVIOUS
<1>2. Range(Directories) = {Directories[i] : i \in 1 .. 3}
  BY DEF Directories, Range
<1>3. \A u \in Seq(Places) : Range(u) \subseteq Places
  BY DEF Range
<1>4. QED
  BY <1>1, <1>2, <1>3 DEF Places

LEMMA TodoLeft ==
  ASSUME todo \in [Slots -> Seq(Places)], NEW r \in Slots, todo[r] # <<>>
  PROVE  /\ Tail(todo[r]) \in Seq(Places)
         /\ Head(todo[r]) \in Range(todo[r])
         /\ Range(todo[r]) = {Head(todo[r])} \cup Range(Tail(todo[r]))
BY RangeOfTail

\* What reading a file changes.
LEMMA ReadAdds ==
  ASSUME DOMAIN seen = Slots, todo \in [Slots -> Seq(Places)], NEW r \in Slots, ReadFile(r),
         disk[Head(todo[r])] # Missing
  PROVE  /\ DOMAIN seen' = Slots
         /\ \A q \in Slots \ {r} : seen'[q] = seen[q]
         /\ DOMAIN seen'[r] = DOMAIN seen[r] \cup {Head(todo[r])}
         /\ seen'[r][Head(todo[r])] = disk[Head(todo[r])]
         /\ \A p \in DOMAIN seen[r] : p # Head(todo[r]) => seen'[r][p] = seen[r][p]
         /\ todo' = [todo EXCEPT ![r] = Tail(todo[r])]
         /\ pc' = pc
<1> DEFINE path == Head(todo[r])
           s == [p \in DOMAIN seen[r] \cup {path} |-> IF p = path THEN disk[path] ELSE seen[r][p]]
<1>1. seen' = [seen EXCEPT ![r] = s]
  BY DEF ReadFile
<1>2. DOMAIN seen' = Slots /\ seen'[r] = s /\ \A q \in Slots \ {r} : seen'[q] = seen[q]
  <2> HIDE DEF s
  <2>1. QED
    BY <1>1
<1>3. todo' = [todo EXCEPT ![r] = Tail(todo[r])] /\ pc' = pc
  BY DEF ReadFile
<1>4. QED
  BY <1>2, <1>3

\* Every step keeps the types.
LEMMA NextTypes == IInv /\ [Next]_vars => Types'
<1> SUFFICES ASSUME IInv, [Next]_vars PROVE Types'
  OBVIOUS
<1> USE DEF Types, ContractTypeOK, Ended
<1>0. Types
  BY DEF IInv
<1>1. ASSUME NEW r \in Slots, NEW m \in {"generate", "check", "build"}, Start(r, m)
      PROVE  Types'
  <2> DEFINE s == Tree[source]
             t == IF m = "build" THEN SetToSeq(EmbeddedPaths(s)) ELSE SetToSeq(InvalidPaths(s))
  <2>1. t \in Seq(Places)
    BY <1>0, TodoLists
  <2>2. todo' = [todo EXCEPT ![r] = t]
    BY <1>0, <1>1 DEF Start
  <2> HIDE DEF t
  <2>3. /\ \A q \in Slots : DOMAIN seen'[q] \subseteq Paths /\ \A p \in DOMAIN seen'[q] : seen'[q][p] # Missing
        /\ DOMAIN seen' = Slots
    BY <1>0, <1>1 DEF Start
  <2>4. QED
    BY <1>0, <1>1, <2>1, <2>2, <2>3, TodoTypes DEF Start
<1>2. ASSUME NEW r \in Slots, ReadFile(r) PROVE Types'
  <2>1. CASE disk[Head(todo[r])] = Missing
    BY <1>0, <1>2, <2>1 DEF ReadFile
  <2>2. CASE disk[Head(todo[r])] # Missing
    <3>1. todo' = [todo EXCEPT ![r] = Tail(todo[r])]
      BY <1>0, <1>2, <2>2 DEF ReadFile
    <3>2. Head(todo[r]) \in Paths
      <4>1. Range(todo[r]) \subseteq Paths
        BY <1>0, <1>2, PathsOfRevision
           DEF IInv, SlotOK, ReadFile, Generating, Embedding, Working, Own, AssetPaths
      <4>2. QED
        BY <1>0, <1>2, <4>1, TodoLeft DEF ReadFile
    <3>3. /\ \A q \in Slots : DOMAIN seen'[q] \subseteq Paths /\ \A p \in DOMAIN seen'[q] : seen'[q][p] # Missing
          /\ DOMAIN seen' = Slots
      <4>1. /\ DOMAIN seen' = Slots
            /\ \A q \in Slots \ {r} : seen'[q] = seen[q]
            /\ DOMAIN seen'[r] = DOMAIN seen[r] \cup {Head(todo[r])}
            /\ seen'[r][Head(todo[r])] = disk[Head(todo[r])]
            /\ \A p \in DOMAIN seen[r] : p # Head(todo[r]) => seen'[r][p] = seen[r][p]
        BY <1>0, <1>2, <2>2, ReadAdds
      <4>2. DOMAIN seen'[r] \subseteq Paths /\ \A p \in DOMAIN seen'[r] : seen'[r][p] # Missing
        BY <1>0, <2>2, <3>2, <4>1
      <4>3. QED
        BY <1>0, <4>1, <4>2
    <3>4. QED
      BY <1>0, <1>2, <2>2, <3>1, <3>3, TodoTypes, TodoLeft DEF ReadFile
  <2>3. QED
    BY <2>1, <2>2
<1>3. ASSUME NEW r \in Slots, Computed(r) PROVE Types'
  BY <1>0, <1>3, TodoLists, TodoTypes DEF Computed, Goto
<1>4. ASSUME NEW r \in Slots, Truncate(r) PROVE Types'
  BY <1>0, <1>4 DEF Truncate, Goto, Store
<1>5. ASSUME NEW r \in Slots, Fill(r) PROVE Types'
  <2>1. todo[r] # <<>>
    BY <1>5 DEF IInv, SlotOK, Generating, Working, Fill, Goto
  <2>2. todo' = [todo EXCEPT ![r] = Tail(todo[r])]
    BY <1>0, <1>5 DEF Fill
  <2>3. QED
    BY <1>0, <1>5, <2>1, <2>2, TodoLeft, TodoTypes DEF Fill, Goto, Store
<1>6. ASSUME NEW r \in Slots, CheckFile(r) \/ CheckNames(r) PROVE Types'
  <2>1. CASE todo' = todo
    BY <1>0, <1>6, <2>1 DEF CheckFile, CheckNames
  <2>2. CASE todo' = [todo EXCEPT ![r] = Tail(todo[r])]
    <3>1. todo[r] # <<>>
      BY <1>6 DEF CheckFile, CheckNames
    <3>2. QED
      BY <1>0, <1>6, <2>2, <3>1, TodoLeft, TodoTypes DEF CheckFile, CheckNames
  <2>3. QED
    BY <1>0, <1>6, <2>1, <2>2 DEF CheckFile, CheckNames
<1>7. ASSUME NEW r \in Slots, ListNames(r) PROVE Types'
  BY <1>0, <1>7, TodoLists, TodoTypes DEF ListNames
<1>8. ASSUME NEW r \in Slots, Succeed(r) \/ Test(r) \/ Fault(r) PROVE Types'
  BY <1>0, <1>8 DEF Succeed, Test, Fault, Goto
<1>9. ASSUME Developer PROVE Types'
  BY <1>0, <1>9 DEF Developer, EditSource, EditFile, local
<1>10. CASE UNCHANGED vars
  BY <1>0, <1>10 DEF vars, local
<1>11. QED
  BY <1>1, <1>2, <1>3, <1>4, <1>5, <1>6, <1>7, <1>8, <1>9, <1>10 DEF Next, RunStep

\* What a slot's own step keeps.
LEMMA StartOK ==
  ASSUME IInv, NEW r \in Slots, NEW m \in {"generate", "check", "build"}, Start(r, m)
  PROVE  SlotOK(r)'
<1> DEFINE s == Tree[source]
<1>1. Types /\ source \in Revisions
  BY DEF IInv, Types, ContractTypeOK
<1>2. /\ built'[r] = source /\ mode'[r] = m /\ seen'[r] = <<>> /\ disk' = disk
      /\ DOMAIN seen'[r] = {}
  BY <1>1 DEF Start, Types, ContractTypeOK
<1>3. CASE m = "build"
  <2>1. pc'[r] = "embed" /\ Range(todo'[r]) = EmbeddedPaths(s)
    BY <1>1, <1>3, TodoLists DEF Start, Types, ContractTypeOK
  <2>2. QED
    BY <1>2, <1>3, <2>1 DEF SlotOK, Generating, Embedding, Undisturbed, Working, Own
<1>4. CASE m # "build"
  <2>1. /\ pc'[r] = IF ReceiptsConsistent(s) THEN "read" ELSE "failed"
        /\ Range(todo'[r]) = InvalidPaths(s)
    BY <1>1, <1>4, TodoLists DEF Start, Types, ContractTypeOK
  <2>2. QED
    BY <1>2, <1>4, <2>1 DEF SlotOK, Generating, Embedding, Undisturbed, Working, Own
<1>5. QED
  BY <1>3, <1>4

LEMMA ReadFileOK ==
  ASSUME IInv, NEW r \in Slots, ReadFile(r)
  PROVE  SlotOK(r)'
<1> DEFINE path == Head(todo[r])
<1>1. Types /\ DiskOK /\ SlotOK(r)
  BY DEF IInv
<1>2. /\ pc[r] \in {"read", "embed"} /\ todo[r] # <<>>
      /\ mode' = mode /\ built' = built /\ disk' = disk /\ clean' = clean
  BY DEF ReadFile
<1>3. CASE disk[path] = Missing
  BY <1>1, <1>2, <1>3 DEF ReadFile, SlotOK, Generating, Embedding, Undisturbed, Working, Types, ContractTypeOK
<1>4. CASE disk[path] # Missing
  <2>1. /\ DOMAIN seen'[r] = DOMAIN seen[r] \cup {path}
        /\ seen'[r][path] = disk[path]
        /\ \A p \in DOMAIN seen[r] : p # path => seen'[r][p] = seen[r][p]
        /\ pc' = pc /\ todo'[r] = Tail(todo[r])
    BY <1>1, <1>4, ReadAdds DEF Types
  <2>2. path \in Range(todo[r]) /\ Range(todo[r]) = {path} \cup Range(todo'[r])
    BY <1>1, <1>2, <2>1, TodoLeft DEF Types
  <2>3. built[r] \in Revisions
    BY <1>1 DEF Types, ContractTypeOK
  <2> HIDE DEF path
  <2>4. CASE pc[r] = "read"
    <3>1. path \in InvalidPaths(Own(r))
      BY <1>1, <2>2, <2>4 DEF SlotOK, Generating, Working
    <3>2. disk[path] \in {1, 2}
      BY <1>1, <1>4, <2>3, <3>1, PathsOfRevision DEF DiskOK, FileOK, Own, AssetPaths
    <3>3. Generating(r)'
      BY <1>1, <1>2, <2>1, <2>2, <2>4, <3>1, <3>2 DEF SlotOK, Generating, Working, Own
    <3>4. Embedding(r)' /\ Undisturbed(r)'
      BY <1>1, <1>2, <2>1, <2>4 DEF SlotOK, Embedding, Undisturbed, Working
    <3>5. QED
      BY <3>3, <3>4 DEF SlotOK
  <2>5. CASE pc[r] = "embed"
    <3>1. path \in EmbeddedPaths(Own(r)) /\ mode[r] = "build"
      BY <1>1, <2>2, <2>5 DEF SlotOK, Embedding
    <3>2. FileOK(path, disk[path])
      BY <1>1, <2>3, <3>1, PathsOfRevision DEF DiskOK, Own
    <3>3. \A p \in DOMAIN seen'[r] : FileOK(p, seen'[r][p])
      BY <1>1, <2>1, <2>5, <3>1, <3>2 DEF SlotOK, Embedding
    <3>4. Embedding(r)'
      <4>1. /\ DOMAIN seen'[r] \subseteq EmbeddedPaths(Own(r))
            /\ EmbeddedPaths(Own(r)) \subseteq DOMAIN seen'[r] \cup Range(todo'[r])
            /\ Range(todo'[r]) \subseteq EmbeddedPaths(Own(r))
        BY <1>1, <2>1, <2>2, <2>5, <3>1 DEF SlotOK, Embedding
      <4>2. QED
        BY <1>2, <2>1, <2>5, <3>1, <3>3, <4>1 DEF Embedding, Own
    <3>5. Generating(r)' /\ Undisturbed(r)'
      BY <1>1, <1>2, <2>1, <2>5 DEF SlotOK, Generating, Undisturbed, Working
    <3>6. QED
      BY <3>4, <3>5 DEF SlotOK
  <2>6. QED
    BY <1>2, <2>4, <2>5
<1>5. QED
  BY <1>3, <1>4

LEMMA ComputedOK ==
  ASSUME IInv, NEW r \in Slots, Computed(r)
  PROVE  SlotOK(r)'
<1>1. Types /\ SlotOK(r) /\ built[r] \in Revisions
  BY DEF IInv, Types, ContractTypeOK
<1>2. /\ todo[r] = <<>> /\ pc[r] = "read" /\ pc'[r] \in {"write", "compare"}
      /\ mode' = mode /\ built' = built /\ disk' = disk /\ clean' = clean /\ seen' = seen
      /\ todo'[r] = AssetOrder(Own(r))
  BY <1>1 DEF Computed, Goto, Types, ContractTypeOK, Own
<1>3. Range(todo[r]) = {}
  BY <1>2 DEF Range
<1>4. QED
  BY <1>1, <1>2, <1>3 DEF SlotOK, Generating, Embedding, Undisturbed, Working, Own

\* The slot's own writes: a file is torn, then as generated.
LEMMA StoreOK ==
  ASSUME IInv, NEW r \in Slots, Truncate(r) \/ Fill(r)
  PROVE  SlotOK(r)' /\ DiskOK'
<1> DEFINE path == Head(todo[r])
           s == Own(r)
<1>1. Types /\ DiskOK /\ SlotOK(r) /\ built[r] \in Revisions
  BY DEF IInv, Types, ContractTypeOK
<1>2. /\ pc[r] \in {"write", "fill"} /\ mode' = mode /\ built' = built /\ seen' = seen
      /\ todo[r] # <<>>
  BY <1>1 DEF Truncate, Fill, Goto, SlotOK, Generating, Working
<1>3. path \in Range(todo[r]) /\ Range(todo[r]) = {path} \cup Range(Tail(todo[r]))
  BY <1>1, <1>2, TodoLeft DEF Types
<1>4. /\ mode[r] # "build" /\ ReceiptsConsistent(s)
      /\ DOMAIN seen[r] = InvalidPaths(s)
      /\ \A p \in DOMAIN seen[r] : seen[r][p] \in {1, 2}
      /\ Range(todo[r]) \subseteq Range(AssetOrder(s))
  BY <1>1, <1>2 DEF SlotOK, Generating, Working
<1>5. /\ path \in Range(AssetOrder(s))
      /\ \A v \in Revisions : path \notin InvalidPaths(Tree[v])
      /\ path \notin DOMAIN seen[r]
  BY <1>1, <1>3, <1>4, CasesAreNoAssets DEF Own
<1>6. DOMAIN disk = Paths
  BY <1>1 DEF Types, ContractTypeOK
<1> HIDE DEF path, s
<1>7. CASE Truncate(r)
  <2>1. disk' = [disk EXCEPT ![path] = Torn] /\ clean'[r] = clean[r] /\ todo' = todo
    BY <1>1, <1>7 DEF Truncate, Store, Types, path
  <2>2. pc'[r] = "fill"
    BY <1>1, <1>7 DEF Truncate, Goto, Types, ContractTypeOK
  <2>3. \A p \in Paths : p # path => disk'[p] = disk[p]
    BY <1>6, <2>1
  <2>4. DiskOK'
    <3>1. \A p \in Paths : FileOK(p, disk'[p])
      BY <1>1, <1>5, <1>6, <2>1, GoneOrTorn DEF DiskOK
    <3>2. QED
      BY <3>1 DEF DiskOK
  <2>5. Generating(r)' /\ Embedding(r)'
    BY <1>1, <1>2, <1>4, <2>1, <2>2 DEF Generating, Embedding, Working, s, Own
  <2>6. Undisturbed(r)'
    <3>1. /\ pc'[r] = "fill" /\ s' = s /\ clean'[r] = clean[r] /\ todo' = todo /\ seen' = seen
      BY <1>2, <2>1, <2>2 DEF s, Own
    <3>2. clean[r] => \A p \in DOMAIN seen[r] : disk'[p] = seen[r][p]
      BY <1>1, <1>2, <1>4, <1>5, <2>3, PathsOfRevision DEF SlotOK, Undisturbed, Working, AssetPaths, s, Own
    <3>3. clean[r] => \A p \in Range(AssetOrder(s)) :
                        p \in Range(todo[r]) \/ disk'[p] = Generated(s, seen[r], p)
      <4>1. \A p \in Range(AssetOrder(s)) : p \in Paths
        BY <1>1, TodoLists, PathsOfRevision DEF AssetPaths, s, Own
      <4>2. QED
        BY <1>1, <1>2, <1>3, <2>3, <4>1 DEF SlotOK, Undisturbed, s
    <3>4. QED
      BY <3>1, <3>2, <3>3 DEF Undisturbed, s
  <2>7. QED
    BY <2>4, <2>5, <2>6 DEF SlotOK
<1>8. CASE Fill(r)
  <2>1. /\ disk' = [disk EXCEPT ![path] = Generated(s, seen[r], path)] /\ clean'[r] = clean[r]
        /\ todo'[r] = Tail(todo[r])
    BY <1>1, <1>8 DEF Fill, Store, Types, path, s, Own
  <2>2. pc'[r] = "write"
    BY <1>1, <1>8 DEF Fill, Goto, Types, ContractTypeOK
  <2>3. \A p \in Paths : disk'[p] = IF p = path THEN Generated(s, seen[r], path) ELSE disk[p]
    BY <1>6, <2>1
  <2>4. DiskOK'
    <3>1. FileOK(path, Generated(s, seen[r], path))
      BY <1>1, <1>4, <1>5, GeneratedOK DEF s, Own
    <3>2. \A p \in Paths : FileOK(p, disk'[p])
      BY <1>1, <2>3, <3>1 DEF DiskOK
    <3>3. QED
      BY <3>2 DEF DiskOK
  <2>5. Generating(r)' /\ Embedding(r)'
    BY <1>1, <1>2, <1>3, <1>4, <2>1, <2>2 DEF Generating, Embedding, Working, s, Own
  <2>6. Undisturbed(r)'
    <3>1. /\ pc'[r] = "write" /\ s' = s /\ clean'[r] = clean[r] /\ seen' = seen
      BY <1>2, <2>1, <2>2 DEF s, Own
    <3>2. clean[r] => \A p \in DOMAIN seen[r] : disk'[p] = seen[r][p]
      BY <1>1, <1>2, <1>4, <1>5, <2>3, PathsOfRevision DEF SlotOK, Undisturbed, Working, AssetPaths, s, Own
    <3>3. clean[r] => \A p \in Range(AssetOrder(s)) :
                        p \in Range(todo'[r]) \/ disk'[p] = Generated(s, seen[r], p)
      <4>1. \A p \in Range(AssetOrder(s)) : p \in Paths
        BY <1>1, TodoLists, PathsOfRevision DEF AssetPaths, s, Own
      <4>2. QED
        BY <1>1, <1>2, <1>3, <2>1, <2>3, <4>1 DEF SlotOK, Undisturbed, s
    <3>4. QED
      BY <3>1, <3>2, <3>3 DEF Undisturbed, s
  <2>7. QED
    BY <2>4, <2>5, <2>6 DEF SlotOK
<1>9. QED
  BY <1>7, <1>8

LEMMA CompareOK ==
  ASSUME IInv, NEW r \in Slots, CheckFile(r) \/ CheckNames(r)
  PROVE  SlotOK(r)'
<1> DEFINE path == Head(todo[r])
<1>1. Types /\ SlotOK(r) /\ built[r] \in Revisions
  BY DEF IInv, Types, ContractTypeOK
<1>2. /\ mode' = mode /\ built' = built /\ seen' = seen /\ disk' = disk /\ clean' = clean
      /\ todo[r] # <<>> /\ pc[r] \in {"compare", "list"}
  BY DEF CheckFile, CheckNames
<1>3. CASE pc'[r] = "failed"
  BY <1>1, <1>2, <1>3 DEF SlotOK, Generating, Embedding, Undisturbed, Working
<1>4. CASE pc'[r] # "failed"
  <2>1. pc' = pc /\ todo' = [todo EXCEPT ![r] = Tail(todo[r])]
    BY <1>1, <1>4 DEF CheckFile, CheckNames, Types, ContractTypeOK
  <2>2. path \in Range(todo[r]) /\ Range(todo[r]) = {path} \cup Range(todo'[r])
    BY <1>1, <1>2, <2>1, TodoLeft DEF Types
  <2>3. Generating(r)' /\ Embedding(r)'
    BY <1>1, <1>2, <2>1, <2>2 DEF SlotOK, Generating, Embedding, Working, Own
  <2>4. CASE pc[r] = "compare"
    <3>1. disk[path] = Generated(Own(r), seen[r], path)
      BY <1>1, <1>4, <2>4 DEF CheckFile, CheckNames, Types, ContractTypeOK, Own
    <3>2. Undisturbed(r)'
      BY <1>1, <1>2, <2>1, <2>2, <2>4, <3>1 DEF SlotOK, Undisturbed, Working, Own
    <3>3. QED
      BY <2>3, <3>2 DEF SlotOK
  <2>5. CASE pc[r] = "list"
    <3>1. DirectoryNames(path) = ExpectedNames(Own(r), path)
      BY <1>1, <1>4, <2>5 DEF CheckFile, CheckNames, Types, ContractTypeOK, Own
    <3>2. \A d : DirectoryNames(d)' = DirectoryNames(d)
      BY <1>2 DEF DirectoryNames
    <3>3. Undisturbed(r)'
      BY <1>1, <1>2, <2>1, <2>2, <2>5, <3>1, <3>2 DEF SlotOK, Undisturbed, Working, Own
    <3>4. QED
      BY <2>3, <3>3 DEF SlotOK
  <2>6. QED
    BY <1>2, <2>4, <2>5
<1>5. QED
  BY <1>3, <1>4

LEMMA ListNamesOK ==
  ASSUME IInv, NEW r \in Slots, ListNames(r)
  PROVE  SlotOK(r)'
<1>1. Types /\ SlotOK(r)
  BY DEF IInv
<1>2. /\ mode' = mode /\ built' = built /\ seen' = seen /\ disk' = disk /\ clean' = clean
      /\ todo[r] = <<>> /\ pc[r] \in {"write", "compare"} /\ pc'[r] = "list" /\ todo'[r] = Directories
  BY <1>1 DEF ListNames, Types, ContractTypeOK
<1>3. Range(todo[r]) = {}
  BY <1>2 DEF Range
<1>4. QED
  BY <1>1, <1>2, <1>3 DEF SlotOK, Generating, Embedding, Undisturbed, Working, Own

\* The steps that end an invocation.
LEMMA EndOK ==
  ASSUME IInv, NEW r \in Slots, Succeed(r) \/ Test(r) \/ Fault(r)
  PROVE  SlotOK(r)'
<1>1. Types /\ SlotOK(r)
  BY DEF IInv
<1>2. /\ mode' = mode /\ built' = built /\ seen' = seen /\ disk' = disk /\ clean' = clean /\ todo' = todo
      /\ pc'[r] \in {"ok", "failed", "stopped"}
      /\ pc'[r] = "ok" => pc[r] \in {"list", "embed"}
  BY <1>1 DEF Succeed, Test, Fault, Goto, Types, ContractTypeOK
<1>3. Generating(r)' /\ Undisturbed(r)'
  BY <1>2 DEF Generating, Undisturbed, Working
<1>4. Embedding(r)'
  BY <1>1, <1>2 DEF SlotOK, Generating, Embedding, Working, Own
<1>5. QED
  BY <1>3, <1>4 DEF SlotOK

\* One slot's step, seen from another.
LEMMA SeenFromOthers ==
  ASSUME Types, NEW r \in Slots, NEW q \in Slots, q # r,
         (\E m \in {"generate", "check", "build"} : Start(r, m)) \/ RunStep(r) \/ Fault(r)
  PROVE  /\ pc'[q] = pc[q] /\ mode'[q] = mode[q] /\ built'[q] = built[q]
         /\ todo'[q] = todo[q] /\ seen'[q] = seen[q]
         /\ clean'[q] => clean[q] /\ disk' = disk
<1>1. CASE \E m \in {"generate", "check", "build"} : Start(r, m)
  BY <1>1 DEF Start, Types, ContractTypeOK
<1>2. CASE ReadFile(r)
  BY <1>2 DEF ReadFile, Types, ContractTypeOK
<1>3. CASE Truncate(r) \/ Fill(r)
  BY <1>3 DEF Truncate, Fill, Store, Goto, Types, ContractTypeOK
<1>4. CASE Computed(r) \/ CheckFile(r) \/ ListNames(r) \/ CheckNames(r)
  BY <1>4 DEF Computed, CheckFile, ListNames, CheckNames, Goto, Types, ContractTypeOK
<1>5. CASE Succeed(r) \/ Test(r) \/ Fault(r)
  BY <1>5 DEF Succeed, Test, Fault, Goto, Types, ContractTypeOK
<1>6. QED
  BY <1>1, <1>2, <1>3, <1>4, <1>5 DEF RunStep

\* The developer and a stuttering step leave the invocations alone.
LEMMA SeenFromAll ==
  ASSUME Types, Developer \/ UNCHANGED vars, NEW q \in Slots
  PROVE  /\ pc'[q] = pc[q] /\ mode'[q] = mode[q] /\ built'[q] = built[q]
         /\ todo'[q] = todo[q] /\ seen'[q] = seen[q]
         /\ clean'[q] => clean[q] /\ disk' = disk
BY DEF Developer, EditSource, EditFile, local, vars

LEMMA NextDisk == IInv /\ [Next]_vars => DiskOK'
<1> SUFFICES ASSUME IInv, [Next]_vars PROVE DiskOK'
  OBVIOUS
<1>1. DiskOK /\ Types /\ DOMAIN disk = Paths
  BY DEF IInv, Types, ContractTypeOK
<1>2. CASE UNCHANGED disk
  BY <1>1, <1>2 DEF DiskOK
<1>3. CASE \E r \in Slots : Truncate(r) \/ Fill(r)
  BY <1>3, StoreOK
<1>4. ASSUME NEW path, NEW bytes, EditFile(path, bytes), FileOK(path, bytes)
      PROVE  DiskOK'
  <2>1. \A p \in Paths : FileOK(p, disk'[p])
    BY <1>1, <1>4 DEF EditFile, DiskOK
  <2>2. QED
    BY <2>1 DEF DiskOK
<1>5. CASE Developer
  <2>1. CASE \E v \in Revisions : EditSource(v)
    BY <1>2, <2>1 DEF EditSource
  <2>2. CASE \E path \in UNION {InvalidPaths(Tree[v]) : v \in Revisions}, bytes \in {1, 2} : EditFile(path, bytes)
    <3>1. PICK path \in UNION {InvalidPaths(Tree[v]) : v \in Revisions}, bytes \in {1, 2} : EditFile(path, bytes)
      BY <2>2
    <3>2. PICK v \in Revisions : path \in InvalidPaths(Tree[v])
      OBVIOUS
    <3>3. path # Fields /\ path # ManifestFile
      BY <3>2, DirectoryOfPath
    <3>4. FileOK(path, bytes)
      BY <3>3 DEF FileOK
    <3>5. QED
      BY <1>4, <3>1, <3>4
  <2>3. CASE \E path \in Paths : EditFile(path, Missing)
    <3>1. PICK path \in Paths : EditFile(path, Missing)
      BY <2>3
    <3>2. FileOK(path, Missing)
      BY GoneOrTorn
    <3>3. QED
      BY <1>4, <3>1, <3>2
  <2>4. QED
    BY <1>5, <2>1, <2>2, <2>3 DEF Developer
<1>6. CASE \E r \in Slots : \/ \E m \in {"generate", "check", "build"} : Start(r, m)
                            \/ RunStep(r)
                            \/ Fault(r)
  BY <1>2, <1>3, <1>6 DEF Start, RunStep, ReadFile, Computed, CheckFile, ListNames, CheckNames,
                          Succeed, Test, Fault
<1>7. QED
  BY <1>2, <1>5, <1>6 DEF Next, vars

LEMMA NextSlots == IInv /\ [Next]_vars => \A q \in Slots : SlotOK(q)'
<1> SUFFICES ASSUME IInv, [Next]_vars, NEW q \in Slots PROVE SlotOK(q)'
  OBVIOUS
<1>1. Types /\ SlotOK(q)
  BY DEF IInv
<1>2. ASSUME NEW r \in Slots, (\E m \in {"generate", "check", "build"} : Start(r, m)) \/ RunStep(r) \/ Fault(r)
      PROVE  SlotOK(q)'
  <2>1. CASE r = q
    BY <1>2, <2>1, StartOK, ReadFileOK, ComputedOK, StoreOK, CompareOK, ListNamesOK, EndOK DEF RunStep
  <2>2. CASE r # q
    BY <1>1, <1>2, <2>2, SeenFromOthers, OtherSlots
  <2>3. QED
    BY <2>1, <2>2
<1>3. CASE Developer \/ UNCHANGED vars
  BY <1>1, <1>3, SeenFromAll, OtherSlots
<1>4. QED
  BY <1>2, <1>3 DEF Next

LEMMA NextIInv == IInv /\ [Next]_vars => IInv'
BY NextTypes, NextDisk, NextSlots DEF IInv

\* Every variable keeps its type, a manifest on the disk or in memory is one
\* generation's, and every invocation works through its own revision's files.
THEOREM InvariantHolds == Spec => []IInv
BY InitIInv, NextIInv, PTL DEF Spec

-----------------------------------------------------------------------------
(* Verdicts are exact.                                                     *)

\* What it means for the contract of a revision to be current depends on the
\* files only.
LEMMA CurrentOfDisk ==
  ASSUME disk' = disk, NEW s
  PROVE  Current(s)' <=> Current(s)
BY DEF Current, DirectoryNames

\* A current contract has the manifest of consistent receipts, and no generated
\* file of it is gone or torn.
LEMMA CurrentContract ==
  ASSUME DiskOK, NEW v \in Revisions, Current(Tree[v])
  PROVE  /\ ReceiptsConsistent(Tree[v])
         /\ \A p \in InvalidPaths(Tree[v]) : disk[p] \in {1, 2}
         /\ disk[ManifestFile] = ManifestBytes(Tree[v], disk)
         /\ disk[ManifestFile] \notin {Missing, Torn}
         /\ \A p \in SchemaPaths(Tree[v]) \cup ValidPaths(Tree[v]) :
              disk[p] = Tree[v].value[p] /\ disk[p] \notin {Missing, Torn}
<1> DEFINE s == Tree[v]
           cases == [p \in InvalidPaths(s) |-> disk[p]]
<1>1. \A p \in InvalidPaths(s) : disk[p] \in {1, 2}
  BY PathsOfRevision DEF Current, DiskOK, FileOK, AssetPaths
<1>2. cases \in [InvalidPaths(s) -> {1, 2}]
  BY <1>1
<1>3. ManifestBytes(s, disk) = ManifestBytes(s, cases)
  BY ManifestOfCases
<1>4. ManifestBytes(s, cases) \notin {Missing, Torn}
  BY <1>2, GeneratorAssumption
<1> HIDE DEF cases
<1>5. Fields # ManifestFile /\ ManifestFile \in Range(AssetOrder(s)) /\ ManifestFile \in Paths
  BY TodoLists, PathsOfRevision DEF Fields, ManifestFile
<1>6. disk[ManifestFile] = ManifestBytes(s, disk)
  BY <1>5 DEF Current, Generated
<1>7. PICK w \in Revisions : \E invalid \in [InvalidPaths(Tree[w]) -> {1, 2}] :
        ReceiptsConsistent(Tree[w]) /\ disk[ManifestFile] = ManifestBytes(Tree[w], invalid)
  BY <1>3, <1>4, <1>5, <1>6 DEF DiskOK, FileOK
<1>8. ReceiptsConsistent(s)
  BY <1>6, <1>7, ConsistentByManifest
<1>9. ASSUME NEW p \in SchemaPaths(s) \cup ValidPaths(s)
      PROVE  disk[p] = s.value[p] /\ disk[p] \notin {Missing, Torn}
  <2>1. p # Fields /\ p # ManifestFile
    BY DirectoryOfPath
  <2>2. disk[p] = s.value[p]
    BY <2>1, TodoLists DEF Current, Generated
  <2>3. s.value[p] \in DOMAIN Meaning
    BY SourceAssumption
  <2>4. QED
    BY <2>2, <2>3, GeneratorAssumption
<1>10. QED
  BY <1>1, <1>3, <1>4, <1>6, <1>8, <1>9

\* With all consumer cases read and unchanged, expecting a file to be generated
\* from memory is expecting it to be generated from the disk.
LEMMA ExpectedOfDisk ==
  ASSUME IInv, NEW r \in Slots, clean[r], pc[r] \in Working \ {"read"}
  PROVE  /\ \A p \in InvalidPaths(Own(r)) : disk[p] \in {1, 2}
         /\ \A p : Generated(Own(r), seen[r], p) = Generated(Own(r), disk, p)
<1>1. SlotOK(r)
  BY DEF IInv
<1>2. DOMAIN seen[r] = InvalidPaths(Own(r)) /\ \A p \in DOMAIN seen[r] : seen[r][p] \in {1, 2} /\ disk[p] = seen[r][p]
  BY <1>1 DEF SlotOK, Generating, Undisturbed, Working
<1>3. QED
  BY <1>2, ManifestOfCases

\* What a slot's verdict says.
Verdict(r) ==
  mode[r] # "build" /\ clean[r] =>
    /\ pc[r] = "ok" => Current(Own(r))
    /\ pc[r] = "failed" /\ mode[r] = "check" => ~Current(Own(r))

LEMMA VerdictOfOthers ==
  ASSUME NEW q \in Slots, Verdict(q),
         pc'[q] = pc[q], mode'[q] = mode[q], built'[q] = built[q],
         clean'[q] => clean[q] /\ disk' = disk
  PROVE  Verdict(q)'
<1>1. CASE clean'[q] = FALSE
  BY <1>1 DEF Verdict
<1>2. CASE clean'[q] /\ clean[q] /\ disk' = disk
  <2>1. Own(q)' = Own(q)
    BY DEF Own
  <2>2. Current(Own(q))' <=> Current(Own(q))
    BY <1>2, <2>1, CurrentOfDisk DEF Current, DirectoryNames
  <2>3. QED
    BY <1>2, <2>2 DEF Verdict
<1>3. QED
  BY <1>1, <1>2 DEF Verdict

LEMMA OwnVerdict ==
  ASSUME IInv, NEW r \in Slots, Verdict(r),
         (\E m \in {"generate", "check", "build"} : Start(r, m)) \/ RunStep(r) \/ Fault(r)
  PROVE  Verdict(r)'
<1>1. /\ Types /\ DiskOK /\ SlotOK(r) /\ built[r] \in Revisions /\ source \in Revisions
      /\ pc \in [Slots -> Ended \cup {"read", "write", "fill", "compare", "list", "embed"}]
  BY DEF IInv, Types, ContractTypeOK
<1>2. CASE \E m \in {"generate", "check", "build"} : Start(r, m)
  <2>1. PICK m \in {"generate", "check", "build"} : Start(r, m)
    BY <1>2
  <2>2. /\ built'[r] = source /\ mode'[r] = m /\ disk' = disk
        /\ m # "build" => pc'[r] = IF ReceiptsConsistent(Tree[source]) THEN "read" ELSE "failed"
    BY <1>1, <2>1 DEF Start, Types, ContractTypeOK
  <2>3. ~ReceiptsConsistent(Tree[source]) => ~Current(Tree[source])
    BY <1>1, CurrentContract
  <2>4. Own(r)' = Tree[source]
    BY <2>2 DEF Own
  <2>5. Current(Own(r))' <=> Current(Tree[source])
    BY <2>2, <2>4 DEF Current, DirectoryNames
  <2>6. QED
    BY <2>2, <2>3, <2>5 DEF Verdict
<1>3. CASE ReadFile(r)
  <2>1. /\ pc'[r] \in {pc[r], "failed"} /\ disk' = disk /\ mode' = mode /\ built' = built /\ clean' = clean
        /\ pc'[r] = "failed" => disk[Head(todo[r])] = Missing
        /\ pc[r] \in {"read", "embed"} /\ todo[r] # <<>>
    BY <1>1, <1>3 DEF ReadFile
  <2>2. pc[r] = "read" => Head(todo[r]) \in InvalidPaths(Own(r))
    BY <1>1, <2>1, TodoLeft DEF SlotOK, Generating, Working, Types
  <2>3. pc[r] = "embed" => mode[r] = "build"
    BY <1>1 DEF SlotOK, Embedding
  <2>4. pc'[r] = "failed" /\ mode[r] # "build" => ~Current(Own(r))
    BY <2>1, <2>2, <2>3 DEF Current
  <2>5. Current(Own(r))' <=> Current(Own(r))
    BY <2>1 DEF Current, DirectoryNames, Own
  <2>6. QED
    BY <2>1, <2>4, <2>5 DEF Verdict
<1>4. CASE Computed(r) \/ Truncate(r) \/ Fill(r) \/ ListNames(r)
  <2>1. pc'[r] \in {"write", "compare", "fill", "list"}
    BY <1>1, <1>4 DEF Computed, Truncate, Fill, ListNames, Goto
  <2>2. QED
    BY <2>1 DEF Verdict
<1>5. CASE CheckFile(r) \/ CheckNames(r)
  <2>1. /\ pc'[r] \in {pc[r], "failed"} /\ pc[r] \in {"compare", "list"} /\ todo[r] # <<>>
        /\ disk' = disk /\ mode' = mode /\ built' = built /\ clean' = clean
    BY <1>1, <1>5 DEF CheckFile, CheckNames
  <2>2. ASSUME pc'[r] = "failed", clean[r] PROVE ~Current(Own(r))
    <3>1. CASE CheckFile(r)
      <4>1. disk[Head(todo[r])] # Generated(Own(r), seen[r], Head(todo[r]))
        BY <1>1, <2>1, <2>2, <3>1 DEF CheckFile, Own
      <4>2. Head(todo[r]) \in Range(AssetOrder(Own(r)))
        BY <1>1, <2>1, <3>1, TodoLeft DEF CheckFile, SlotOK, Generating, Working, Types
      <4>3. Generated(Own(r), seen[r], Head(todo[r])) = Generated(Own(r), disk, Head(todo[r]))
        BY <2>1, <2>2, ExpectedOfDisk DEF Working
      <4>4. QED
        BY <4>1, <4>2, <4>3 DEF Current
    <3>2. CASE CheckNames(r)
      <4>1. DirectoryNames(Head(todo[r])) # ExpectedNames(Own(r), Head(todo[r]))
        BY <1>1, <2>1, <2>2, <3>2 DEF CheckNames, Own
      <4>2. Head(todo[r]) \in Range(Directories)
        BY <1>1, <2>1, <3>2, TodoLeft DEF CheckNames, SlotOK, Generating, Working, Types
      <4>3. QED
        BY <4>1, <4>2 DEF Current
    <3>3. QED
      BY <1>5, <3>1, <3>2
  <2>3. Current(Own(r))' <=> Current(Own(r))
    BY <2>1 DEF Current, DirectoryNames, Own
  <2>4. QED
    BY <2>1, <2>2, <2>3 DEF Verdict
<1>6. CASE Succeed(r)
  <2>1. /\ pc[r] = "list" /\ pc'[r] = "ok" /\ todo[r] = <<>>
        /\ disk' = disk /\ mode' = mode /\ built' = built /\ clean' = clean
    BY <1>1, <1>6 DEF Succeed, Goto
  <2>2. ASSUME clean[r] PROVE Current(Own(r))
    <3>1. Range(todo[r]) = {}
      BY <2>1 DEF Range
    <3>2. /\ \A p \in InvalidPaths(Own(r)) : disk[p] \in {1, 2}
          /\ \A p : Generated(Own(r), seen[r], p) = Generated(Own(r), disk, p)
      BY <2>1, <2>2, ExpectedOfDisk DEF Working
    <3>3. \A p \in InvalidPaths(Own(r)) : disk[p] # Missing
      BY <3>2, GeneratorAssumption
    <3>4. /\ \A p \in Range(AssetOrder(Own(r))) : disk[p] = Generated(Own(r), seen[r], p)
          /\ \A d \in Range(Directories) : DirectoryNames(d) = ExpectedNames(Own(r), d)
      BY <1>1, <2>1, <2>2, <3>1 DEF SlotOK, Undisturbed
    <3>5. QED
      BY <3>2, <3>3, <3>4 DEF Current
  <2>3. Current(Own(r))' <=> Current(Own(r))
    BY <2>1 DEF Current, DirectoryNames, Own
  <2>4. QED
    BY <2>1, <2>2, <2>3 DEF Verdict
<1>7. CASE Test(r) \/ Fault(r)
  <2>1. CASE Test(r)
    BY <1>1, <2>1 DEF Test, Goto, SlotOK, Embedding, Verdict
  <2>2. CASE Fault(r)
    BY <1>1, <2>2 DEF Fault, Verdict
  <2>3. QED
    BY <1>7, <2>1, <2>2
<1>8. QED
  BY <1>2, <1>3, <1>4, <1>5, <1>6, <1>7 DEF RunStep

LEMMA VerdictStep ==
  IInv /\ (\A r \in Slots : Verdict(r)) /\ [Next]_vars => (\A r \in Slots : Verdict(r))'
<1> SUFFICES ASSUME IInv, \A r \in Slots : Verdict(r), [Next]_vars, NEW q \in Slots
             PROVE  Verdict(q)'
  OBVIOUS
<1>1. Types
  BY DEF IInv
<1>2. ASSUME NEW r \in Slots, (\E m \in {"generate", "check", "build"} : Start(r, m)) \/ RunStep(r) \/ Fault(r)
      PROVE  Verdict(q)'
  <2>1. CASE r = q
    BY <1>2, <2>1, OwnVerdict
  <2>2. CASE r # q
    BY <1>1, <1>2, <2>2, SeenFromOthers, VerdictOfOthers
  <2>3. QED
    BY <2>1, <2>2
<1>3. CASE Developer \/ UNCHANGED vars
  BY <1>1, <1>3, SeenFromAll, VerdictOfOthers
<1>4. QED
  BY <1>2, <1>3 DEF Next

\* With nobody else writing, a check passes exactly on a current contract and a
\* generation that reports success has made it current, for every table and
\* after any faults, edits and half-done generations.
THEOREM VerdictsAreExact == Spec => []VerdictExact
<1>1. Init => \A r \in Slots : Verdict(r)
  BY DEF Init, Verdict
<1>2. IInv /\ (\A r \in Slots : Verdict(r)) => VerdictExact
  BY DEF IInv, Types, VerdictExact, Verdict, Own
<1>3. QED
  BY <1>1, <1>2, InvariantHolds, VerdictStep, PTL DEF Spec

-----------------------------------------------------------------------------
(* The crate's test.                                                       *)

\* What a row says of its asset, in the form of the crate's table.
Entry(a) == <<a.path[1], a.path[2], a.root_type, a.expectation, a.expected_error>>

\* The form of a row, whose bytes follow from its path.
LEMMA RowFacts ==
  ASSUME NEW s, NEW invalid, NEW a \in Rows(s, invalid)
  PROVE  /\ a = ManifestAsset(a.path, a.root_type, a.sha256, a.expectation, a.expected_error)
         /\ a.path = <<a.path[1], a.path[2]>>
         /\ a.path[1] \in {"schema", "fixtures/valid", "fixtures/invalid"}
         /\ a.path \in AssetPaths(s)
         /\ Entry(a) \in Declared(s)
         /\ a.sha256 = IF a.path[1] = "fixtures/invalid" THEN invalid[a.path] ELSE s.value[a.path]
<1>1. CASE \E b \in s.schemas : a = SchemaRow(s, b)
  BY <1>1 DEF SchemaRow, ManifestAsset, AssetPaths, SchemaPaths, Entry, Declared
<1>2. CASE \E b \in s.valid : a = ValidRow(s, b)
  BY <1>2 DEF ValidRow, ManifestAsset, AssetPaths, ValidPaths, Entry, Declared
<1>3. CASE \E f \in s.invalid : a = CaseRow(invalid, f)
  BY <1>3 DEF CaseRow, ManifestAsset, AssetPaths, InvalidPaths, Entry, Declared
<1>4. QED
  BY <1>1, <1>2, <1>3 DEF Rows

\* Every asset that a revision declares has a row, at each of its paths.
LEMMA RowOfEntry ==
  ASSUME NEW s, NEW invalid
  PROVE  /\ \A d \in Declared(s) : \E a \in Rows(s, invalid) : Entry(a) = d
         /\ \A p \in AssetPaths(s) : \E a \in Rows(s, invalid) : a.path = p
<1>1. ASSUME NEW b \in s.schemas
      PROVE  /\ SchemaRow(s, b) \in Rows(s, invalid)
             /\ SchemaRow(s, b).path = <<"schema", b[1]>>
             /\ Entry(SchemaRow(s, b)) = <<"schema", b[1], b[2], "schema", NoError>>
  BY DEF Rows, SchemaRow, ManifestAsset, Entry
<1>2. ASSUME NEW b \in s.valid
      PROVE  /\ ValidRow(s, b) \in Rows(s, invalid)
             /\ ValidRow(s, b).path = <<"fixtures/valid", b[1]>>
             /\ Entry(ValidRow(s, b)) = <<"fixtures/valid", b[1], b[2], "valid", NoError>>
  BY DEF Rows, ValidRow, ManifestAsset, Entry
<1>3. ASSUME NEW f \in s.invalid
      PROVE  /\ CaseRow(invalid, f) \in Rows(s, invalid)
             /\ CaseRow(invalid, f).path = <<"fixtures/invalid", f[1]>>
             /\ Entry(CaseRow(invalid, f)) =
                  <<"fixtures/invalid", f[1], f[2], IF f[3] = NoError THEN "valid" ELSE "invalid", f[3]>>
  BY DEF Rows, CaseRow, ManifestAsset, Entry
<1>4. \A d \in Declared(s) : \E a \in Rows(s, invalid) : Entry(a) = d
  BY <1>1, <1>2, <1>3 DEF Declared
<1>5. \A p \in AssetPaths(s) : \E a \in Rows(s, invalid) : a.path = p
  BY <1>1, <1>2, <1>3 DEF AssetPaths, SchemaPaths, ValidPaths, InvalidPaths
<1>6. QED
  BY <1>4, <1>5

LEMMA FiniteRows ==
  ASSUME NEW v \in Revisions, NEW invalid
  PROVE  IsFiniteSet(Rows(Tree[v], invalid))
<1> DEFINE s == Tree[v]
<1>1. IsFiniteSet(s.schemas) /\ IsFiniteSet(s.valid) /\ IsFiniteSet(s.invalid)
  BY SourceAssumption
<1> HIDE DEF s
<1>2. IsFiniteSet({SchemaRow(s, a) : a \in s.schemas})
  <2> DEFINE f == [a \in s.schemas |-> SchemaRow(s, a)]
  <2>1. f \in Surjection(s.schemas, {SchemaRow(s, a) : a \in s.schemas})
    BY DEF Surjection
  <2>2. QED
    BY <1>1, <2>1, FS_Surjection
<1>3. IsFiniteSet({ValidRow(s, a) : a \in s.valid})
  <2> DEFINE f == [a \in s.valid |-> ValidRow(s, a)]
  <2>1. f \in Surjection(s.valid, {ValidRow(s, a) : a \in s.valid})
    BY DEF Surjection
  <2>2. QED
    BY <1>1, <2>1, FS_Surjection
<1>4. IsFiniteSet({CaseRow(invalid, a) : a \in s.invalid})
  <2> DEFINE f == [a \in s.invalid |-> CaseRow(invalid, a)]
  <2>1. f \in Surjection(s.invalid, {CaseRow(invalid, a) : a \in s.invalid})
    BY DEF Surjection
  <2>2. QED
    BY <1>1, <2>1, FS_Surjection
<1>5. QED
  BY <1>2, <1>3, <1>4, FS_Union DEF Rows, s

\* A row and an entry that the test takes for the same.
Matches(a, e, embedding) ==
  /\ SameName(a, e) /\ a.root_type = e[3]
  /\ a.expectation = e[4] /\ a.expected_error = e[5]
  /\ a.sha256 = embedding[<<e[1], e[2]>>]

\* Where the embedded bytes of an entry come from.
FileOf(e) == <<e[1], e[2]>>

\* A row and an entry that are about one file, and say the same of it.
SameAsset(a, e) == a.path = FileOf(e) /\ Entry(a) = e

\* A match is about one file, although the test compares names only.
LEMMA MatchedPaths ==
  ASSUME NEW v \in Revisions, NEW w \in Revisions, NEW invalid, NEW embedding
  PROVE  \A a \in Rows(Tree[v], invalid), e \in Tree[w].embedded :
           Matches(a, e, embedding) => SameAsset(a, e)
<1> SUFFICES ASSUME NEW a \in Rows(Tree[v], invalid), NEW e \in Tree[w].embedded, Matches(a, e, embedding)
             PROVE  SameAsset(a, e)
  OBVIOUS
<1>1. /\ a.path = <<a.path[1], a.path[2]>> /\ a.path \in Paths
      /\ a.path[1] \in {"schema", "fixtures/valid", "fixtures/invalid"}
  BY RowFacts, PathsOfRevision
<1>2. /\ e \in {"schema", "fixtures/valid", "fixtures/invalid"} \X STRING \X STRING \X STRING \X STRING
      /\ <<e[1], e[2]>> \in Paths
  BY SourceAssumption, PathsOfRevision DEF EmbeddedPaths
<1>3. e = <<e[1], e[2], e[3], e[4], e[5]>> /\ e[1] \in {"schema", "fixtures/valid", "fixtures/invalid"}
  BY <1>2
<1>4. a.path[2] = e[2] /\ (a.path[1] = "schema" <=> e[1] = "schema")
  BY DEF Matches, SameName
<1>5. a.path = <<e[1], e[2]>>
  <2>1. CASE e[1] = "schema"
    BY <1>1, <1>4, <2>1
  <2>2. CASE e[1] # "schema"
    <3> DEFINE q == <<e[1], e[2]>>
    <3>1. q \in Paths /\ q[1] \in {"fixtures/valid", "fixtures/invalid"} /\ q[2] = a.path[2]
      BY <1>2, <1>3, <1>4, <2>2
    <3>2. a.path[1] \in {"fixtures/valid", "fixtures/invalid"}
      BY <1>1, <1>4, <2>2
    <3> HIDE DEF q
    <3>3. a.path = q
      BY <1>1, <3>1, <3>2, FixtureAssumption
    <3>4. QED
      BY <3>3 DEF q
  <2>3. QED
    BY <2>1, <2>2
<1>6. QED
  BY <1>3, <1>5 DEF Entry, Matches, FileOf, SameAsset

\* As many rows as entries, and an entry for each row: the other way round too.
LEMMA EveryEntryHasARow ==
  ASSUME NEW v \in Revisions, NEW w \in Revisions, NEW invalid, NEW embedding,
         RowsMatch(Rows(Tree[v], invalid), Tree[w], embedding)
  PROVE  \A e \in Tree[w].embedded : \E a \in Rows(Tree[v], invalid) : Matches(a, e, embedding)
<1>0. \A a \in Rows(Tree[v], invalid), e \in Tree[w].embedded :
        Matches(a, e, embedding) => SameAsset(a, e)
  BY MatchedPaths
<1> DEFINE rows == Rows(Tree[v], invalid)
           table == Tree[w].embedded
           f == [a \in rows |-> CHOOSE e \in table : Matches(a, e, embedding)]
<1>1. Cardinality(rows) = Cardinality(table) /\ \A a \in rows : \E e \in table : Matches(a, e, embedding)
  BY DEF RowsMatch, Matches
<1>2. IsFiniteSet(table)
  BY SourceAssumption
<1>3. \A a \in rows : f[a] \in table /\ Matches(a, f[a], embedding)
  BY <1>1
<1>4. ASSUME NEW a \in rows
      PROVE  Entry(a) = f[a] /\ a.sha256 = embedding[a.path]
  <2>1. f[a] \in table /\ Matches(a, f[a], embedding)
    BY <1>3
  <2> HIDE DEF f
  <2>2. a.path = FileOf(f[a]) /\ Entry(a) = f[a]
    BY <1>0, <2>1 DEF SameAsset
  <2>3. QED
    BY <2>1, <2>2 DEF Matches, FileOf
<1>5. \A a \in rows : a = ManifestAsset(a.path, a.root_type, a.sha256, a.expectation, a.expected_error)
  BY RowFacts
<1>6. f \in [rows -> table]
  BY <1>3
<1> HIDE DEF f, rows, table
<1>7. ASSUME NEW a \in rows, NEW b \in rows, f[a] = f[b] PROVE a = b
  <2>1. Entry(a) = Entry(b)
    BY <1>4, <1>7
  <2>2. /\ a.path[1] = b.path[1] /\ a.path[2] = b.path[2] /\ a.root_type = b.root_type
        /\ a.expectation = b.expectation /\ a.expected_error = b.expected_error
    BY <2>1 DEF Entry
  <2>3. a.path = b.path
    BY <2>2, RowFacts DEF rows
  <2>4. a.sha256 = b.sha256
    BY <1>4, <2>3
  <2>5. QED
    BY <1>5, <2>2, <2>3, <2>4
<1>8. f \in Injection(rows, table)
  BY <1>6, <1>7 DEF Injection, IsInjective
<1>9. f \in Surjection(rows, table)
  BY <1>1, <1>2, <1>8, FS_Injection
<1>10. \A e \in table : \E a \in rows : f[a] = e
  BY <1>9 DEF Surjection
<1>11. QED
  BY <1>3, <1>10 DEF rows, table

\* A manifest that was read is one generation's, if it is not torn.
LEMMA ManifestRead ==
  ASSUME NEW bytes, FileOK(ManifestFile, bytes), bytes \notin {Missing, Torn}
  PROVE  \E v \in Revisions : \E invalid \in [InvalidPaths(Tree[v]) -> {1, 2}] :
           /\ ReceiptsConsistent(Tree[v])
           /\ bytes.assets = Rows(Tree[v], invalid)
           /\ bytes = ManifestBytes(Tree[v], invalid)
BY RowsOfManifest DEF FileOK

\* A build that passed the test: its memory holds what the test looked at.
Tested(r) == mode[r] = "build" /\ pc[r] = "ok" => TestsPass(r) /\ todo[r] = <<>>

LEMMA TestedStep ==
  IInv /\ (\A r \in Slots : Tested(r)) /\ [Next]_vars => (\A r \in Slots : Tested(r))'
<1> SUFFICES ASSUME IInv, \A r \in Slots : Tested(r), [Next]_vars, NEW q \in Slots
             PROVE  Tested(q)'
  OBVIOUS
<1>1. /\ Types /\ SlotOK(q)
      /\ pc \in [Slots -> Ended \cup {"read", "write", "fill", "compare", "list", "embed"}]
  BY DEF IInv, Types, ContractTypeOK
<1>2. ASSUME pc'[q] = pc[q], mode'[q] = mode[q], built'[q] = built[q], todo'[q] = todo[q], seen'[q] = seen[q]
      PROVE  Tested(q)'
  BY <1>2 DEF Tested, TestsPass
<1>3. ASSUME NEW m \in {"generate", "check", "build"}, Start(q, m) PROVE Tested(q)'
  <2>1. pc'[q] # "ok"
    BY <1>1, <1>3 DEF Start
  <2>2. QED
    BY <2>1 DEF Tested
<1>4. CASE Test(q)
  <2>1. /\ todo[q] = <<>>
        /\ pc'[q] = "ok" => TestsPass(q)
        /\ mode' = mode /\ built' = built /\ todo' = todo /\ seen' = seen
    BY <1>1, <1>4 DEF Test, Goto
  <2>2. pc'[q] = "ok" => TestsPass(q)'
    BY <2>1 DEF TestsPass
  <2>3. todo'[q] = <<>>
    BY <2>1
  <2>4. QED
    BY <2>2, <2>3 DEF Tested
<1>5. CASE Succeed(q)
  BY <1>1, <1>5 DEF Succeed, Goto, SlotOK, Generating, Working, Tested
<1>6. CASE ReadFile(q) \/ Computed(q) \/ Truncate(q) \/ Fill(q) \/ CheckFile(q) \/ ListNames(q) \/ CheckNames(q) \/ Fault(q)
  <2>1. pc'[q] # "ok"
    BY <1>1, <1>6 DEF ReadFile, Computed, Truncate, Fill, CheckFile, ListNames, CheckNames, Fault, Goto
  <2>2. QED
    BY <2>1 DEF Tested
<1>7. ASSUME NEW r \in Slots, (\E m \in {"generate", "check", "build"} : Start(r, m)) \/ RunStep(r) \/ Fault(r)
      PROVE  Tested(q)'
  <2>1. CASE r = q
    BY <1>3, <1>4, <1>5, <1>6, <1>7, <2>1 DEF RunStep
  <2>2. CASE r # q
    BY <1>1, <1>2, <1>7, <2>2, SeenFromOthers
  <2>3. QED
    BY <2>1, <2>2
<1>8. CASE Developer \/ UNCHANGED vars
  BY <1>1, <1>2, <1>8, SeenFromAll
<1>9. QED
  BY <1>7, <1>8 DEF Next

LEMMA TestedHolds == Spec => [](IInv /\ \A r \in Slots : Tested(r))
<1>1. Init => \A r \in Slots : Tested(r)
  BY DEF Init, Tested
<1>2. QED
  BY <1>1, InvariantHolds, TestedStep, PTL DEF Spec

\* What a tested build holds: one generation's manifest, a row for each entry of
\* its table, an entry for each row, and the rows' bytes.
LEMMA TestedBuild ==
  ASSUME IInv, NEW r \in Slots, Tested(r), mode[r] = "build", pc[r] = "ok"
  PROVE  \E v \in Revisions : \E invalid \in [InvalidPaths(Tree[v]) -> {1, 2}] :
           /\ DOMAIN seen[r] = EmbeddedPaths(Own(r))
           /\ seen[r][ManifestFile] = ManifestBytes(Tree[v], invalid)
           /\ seen[r][ManifestFile].assets = Rows(Tree[v], invalid)
           /\ \A e \in Own(r).embedded : \E a \in Rows(Tree[v], invalid) : Matches(a, e, seen[r])
           /\ \A a \in Rows(Tree[v], invalid) : \E e \in Own(r).embedded : Matches(a, e, seen[r])
<1>1. Types /\ SlotOK(r) /\ built[r] \in Revisions
  BY DEF IInv, Types, ContractTypeOK
<1>2. TestsPass(r) /\ Range(todo[r]) = {}
  BY DEF Tested, Range
<1>3. DOMAIN seen[r] = EmbeddedPaths(Own(r)) /\ \A p \in DOMAIN seen[r] : FileOK(p, seen[r][p])
  BY <1>1, <1>2 DEF SlotOK, Embedding
<1>4. ManifestFile \in DOMAIN seen[r]
  BY <1>3 DEF EmbeddedPaths
<1>5. seen[r][ManifestFile] \notin {Missing, Torn}
  BY <1>1, <1>2, <1>4 DEF Types, ContractTypeOK, TestsPass
<1>6. PICK v \in Revisions : \E invalid \in [InvalidPaths(Tree[v]) -> {1, 2}] :
        /\ seen[r][ManifestFile].assets = Rows(Tree[v], invalid)
        /\ seen[r][ManifestFile] = ManifestBytes(Tree[v], invalid)
  BY <1>3, <1>4, <1>5, ManifestRead
<1>7. PICK invalid \in [InvalidPaths(Tree[v]) -> {1, 2}] :
        /\ seen[r][ManifestFile].assets = Rows(Tree[v], invalid)
        /\ seen[r][ManifestFile] = ManifestBytes(Tree[v], invalid)
  BY <1>6
<1>8. RowsMatch(Rows(Tree[v], invalid), Own(r), seen[r])
  BY <1>2, <1>7 DEF TestsPass, Own
<1>9. \A e \in Own(r).embedded : \E a \in Rows(Tree[v], invalid) : Matches(a, e, seen[r])
  BY <1>1, <1>8, EveryEntryHasARow DEF Own
<1>10. \A a \in Rows(Tree[v], invalid) : \E e \in Own(r).embedded : Matches(a, e, seen[r])
  BY <1>8 DEF RowsMatch, Matches
<1>11. QED
  BY <1>3, <1>7, <1>9, <1>10

\* The bytes that a tested build embeds are those of the generation whose
\* manifest it embeds.
LEMMA TestedBytes ==
  ASSUME IInv, NEW r \in Slots, Tested(r), mode[r] = "build", pc[r] = "ok"
  PROVE  \E v \in Revisions : \A p \in DOMAIN seen[r] \ InvalidPaths(Tree[v]) :
           p \in Range(AssetOrder(Tree[v])) /\ seen[r][p] = Generated(Tree[v], seen[r], p)
<1>1. built[r] \in Revisions
  BY DEF IInv, Types, ContractTypeOK
<1>2. PICK v \in Revisions : \E invalid \in [InvalidPaths(Tree[v]) -> {1, 2}] :
        /\ DOMAIN seen[r] = EmbeddedPaths(Own(r))
        /\ seen[r][ManifestFile] = ManifestBytes(Tree[v], invalid)
        /\ \A e \in Own(r).embedded : \E a \in Rows(Tree[v], invalid) : Matches(a, e, seen[r])
        /\ \A a \in Rows(Tree[v], invalid) : \E e \in Own(r).embedded : Matches(a, e, seen[r])
  BY TestedBuild
<1>3. PICK invalid \in [InvalidPaths(Tree[v]) -> {1, 2}] :
        /\ DOMAIN seen[r] = EmbeddedPaths(Own(r))
        /\ seen[r][ManifestFile] = ManifestBytes(Tree[v], invalid)
        /\ \A e \in Own(r).embedded : \E a \in Rows(Tree[v], invalid) : Matches(a, e, seen[r])
        /\ \A a \in Rows(Tree[v], invalid) : \E e \in Own(r).embedded : Matches(a, e, seen[r])
  BY <1>2
<1> DEFINE s == Tree[v]
           rows == Rows(s, invalid)
<1>4. \A a \in rows, e \in Own(r).embedded : Matches(a, e, seen[r]) => SameAsset(a, e)
  BY <1>1, MatchedPaths DEF Own
<1>5. \A a \in rows : a.sha256 = IF a.path[1] = "fixtures/invalid" THEN invalid[a.path] ELSE s.value[a.path]
  BY RowFacts
<1>6. ASSUME NEW a \in rows PROVE a.sha256 = seen[r][a.path]
  <2>1. PICK e \in Own(r).embedded : Matches(a, e, seen[r])
    BY <1>3
  <2>2. SameAsset(a, e)
    BY <1>4, <2>1
  <2>3. QED
    BY <2>1, <2>2 DEF Matches, SameAsset, FileOf
<1> HIDE DEF rows
<1>7. ASSUME NEW q \in InvalidPaths(s) PROVE invalid[q] = seen[r][q]
  <2>1. PICK a \in rows : a.path = q
    BY RowOfEntry DEF rows, AssetPaths
  <2>2. q[1] = "fixtures/invalid"
    BY DirectoryOfPath
  <2>3. QED
    BY <1>5, <1>6, <2>1, <2>2
<1>8. ManifestBytes(s, invalid) = ManifestBytes(s, seen[r])
  BY <1>7, ManifestOfCases
<1>9. ASSUME NEW p \in DOMAIN seen[r], p \notin InvalidPaths(s)
      PROVE  p \in Range(AssetOrder(s)) /\ seen[r][p] = Generated(s, seen[r], p)
  <2>1. CASE p = ManifestFile
    <3>1. p \in Range(AssetOrder(s)) /\ p # Fields
      BY <2>1, TodoLists DEF ManifestFile, Fields
    <3>2. QED
      BY <1>3, <1>8, <2>1, <3>1 DEF Generated
  <2>2. CASE p # ManifestFile
    <3>1. PICK e \in Own(r).embedded : p = FileOf(e)
      BY <1>3, <1>9, <2>2 DEF EmbeddedPaths, FileOf
    <3>2. PICK a \in rows : Matches(a, e, seen[r])
      BY <1>3 DEF rows
    <3>3. a.path = p
      BY <1>4, <3>1, <3>2 DEF rows, SameAsset
    <3>4. p \in AssetPaths(s)
      BY <3>3, RowFacts DEF rows
    <3>5. p \in SchemaPaths(s) \cup ValidPaths(s)
      BY <1>9, <3>4 DEF AssetPaths
    <3>6. p[1] # "fixtures/invalid" /\ p # Fields /\ p # ManifestFile
      BY <3>5, DirectoryOfPath
    <3>7. seen[r][p] = s.value[p]
      BY <1>5, <1>6, <3>3, <3>6
    <3>8. QED
      BY <3>5, <3>6, <3>7, TodoLists DEF Generated
  <2>3. QED
    BY <2>1, <2>2
<1>10. QED
  BY <1>9

\* A crate that passes its test embeds one generation, whichever generators
\* wrote under the build and were killed.
THEOREM CratesAreNeverMixed == Spec => []NeverMixed
<1>1. IInv /\ (\A r \in Slots : Tested(r)) => NeverMixed
  BY TestedBytes DEF NeverMixed
<1>2. QED
  BY <1>1, TestedHolds, PTL

\* A crate that passes its test says of each asset what its manifest says.
THEOREM TablesAreAlike == Spec => []DeclaredAlike
<1>1. ASSUME IInv, NEW r \in Slots, Tested(r), mode[r] = "build", pc[r] = "ok"
      PROVE  Own(r).embedded = {Entry(a) : a \in seen[r][ManifestFile].assets}
  <2>1. built[r] \in Revisions
    BY <1>1 DEF IInv, Types, ContractTypeOK
  <2>2. PICK v \in Revisions : \E invalid \in [InvalidPaths(Tree[v]) -> {1, 2}] :
          /\ seen[r][ManifestFile].assets = Rows(Tree[v], invalid)
          /\ \A e \in Own(r).embedded : \E a \in Rows(Tree[v], invalid) : Matches(a, e, seen[r])
          /\ \A a \in Rows(Tree[v], invalid) : \E e \in Own(r).embedded : Matches(a, e, seen[r])
    BY <1>1, TestedBuild
  <2>3. PICK invalid \in [InvalidPaths(Tree[v]) -> {1, 2}] :
          /\ seen[r][ManifestFile].assets = Rows(Tree[v], invalid)
          /\ \A e \in Own(r).embedded : \E a \in Rows(Tree[v], invalid) : Matches(a, e, seen[r])
          /\ \A a \in Rows(Tree[v], invalid) : \E e \in Own(r).embedded : Matches(a, e, seen[r])
    BY <2>2
  <2> DEFINE rows == Rows(Tree[v], invalid)
             table == Own(r).embedded
             match(a, e) == Matches(a, e, seen[r])
  <2>4. \A a \in rows, e \in table : match(a, e) => SameAsset(a, e)
    BY <2>1, MatchedPaths DEF Own
  <2>5. /\ \A e \in table : \E a \in rows : match(a, e)
        /\ \A a \in rows : \E e \in table : match(a, e)
        /\ seen[r][ManifestFile].assets = rows
    BY <2>3
  <2> HIDE DEF rows, table, match
  <2>6. \A a \in rows, e \in table : match(a, e) => Entry(a) = e
    BY <2>4 DEF SameAsset
  <2>7. table = {Entry(a) : a \in rows}
    <3>1. ASSUME NEW e \in table PROVE e \in {Entry(a) : a \in rows}
      <4>1. PICK a \in rows : match(a, e)
        BY <2>5
      <4>2. QED
        BY <2>6, <4>1
    <3>2. ASSUME NEW a \in rows PROVE Entry(a) \in table
      <4>1. PICK e \in table : match(a, e)
        BY <2>5
      <4>2. QED
        BY <2>6, <4>1
    <3>3. QED
      BY <3>1, <3>2
  <2>8. QED
    BY <2>5, <2>7 DEF table
<1>2. IInv /\ (\A r \in Slots : Tested(r)) => DeclaredAlike
  BY <1>1 DEF DeclaredAlike, Entry, Own
<1>3. QED
  BY <1>2, TestedHolds, PTL

\* What fields.toml says of the digest is true of ObservationDigest.
THEOREM FlagsAreTrue == Spec => []DigestFlagsTrue
<1>1. ASSUME IInv, disk[Fields] \notin {Missing, Torn}, NEW row \in disk[Fields], row[1][1] = "Observation"
      PROVE  row[4] <=> row[1][2] # "Observation" \/ row[1][3] \in ObservationDigest
  <2>1. Fields \in Paths
    BY SourceAssumption, PathsOfRevision
  <2>2. PICK v \in Revisions : disk[Fields] = FieldsBytes(Tree[v])
    BY <1>1, <2>1 DEF IInv, DiskOK, FileOK
  <2> DEFINE s == Tree[v]
  <2>3. PICK f \in CollectFields(s) : row = <<f, FieldOwner(f), FieldRetention(f), FieldDigestCovered(f)>>
    BY <1>1, <2>2 DEF FieldsBytes
  <2>4. PICK a \in s.schemas : \E g \in Meaning[s.value[<<"schema", a[1]>>]] : f = <<a[2], g[1], g[2], g[3]>>
    BY <2>3 DEF CollectFields
  <2>5. PICK g \in Meaning[s.value[<<"schema", a[1]>>]] : f = <<a[2], g[1], g[2], g[3]>>
    BY <2>4
  <2>6. a[2] = "Observation" /\ row[1] = f /\ row[4] = FieldDigestCovered(f)
    BY <1>1, <2>3, <2>5
  <2>7. f[1] = "Observation" /\ f[2] = g[1] /\ f[3] = g[2]
    BY <2>5, <2>6
  <2>8. g[1] = "Observation" => g[2] \in ObservationFields
    BY <2>6, SchemaAssumption
  <2>9. QED
    BY <2>6, <2>7, <2>8 DEF FieldDigestCovered, ObservationDigest, ObservationFields
<1>2. IInv => DigestFlagsTrue
  BY <1>1 DEF DigestFlagsTrue
<1>3. QED
  BY <1>2, InvariantHolds, PTL

-----------------------------------------------------------------------------
(* The test refuses nothing that the generator is content with.            *)

LEMMA DeclaredPaths ==
  ASSUME NEW s, NEW e \in Declared(s)
  PROVE  FileOf(e) \in AssetPaths(s)
<1>1. CASE \E a \in s.schemas : e = <<"schema", a[1], a[2], "schema", NoError>>
  BY <1>1 DEF FileOf, AssetPaths, SchemaPaths
<1>2. CASE \E a \in s.valid : e = <<"fixtures/valid", a[1], a[2], "valid", NoError>>
  BY <1>2 DEF FileOf, AssetPaths, ValidPaths
<1>3. CASE \E f \in s.invalid :
             e = <<"fixtures/invalid", f[1], f[2], IF f[3] = NoError THEN "valid" ELSE "invalid", f[3]>>
  BY <1>3 DEF FileOf, AssetPaths, InvalidPaths
<1>4. QED
  BY <1>1, <1>2, <1>3 DEF Declared

\* A row of a current contract has the bytes on the disk.
LEMMA RowsOfCurrent ==
  ASSUME DiskOK, NEW v \in Revisions, Current(Tree[v]), NEW a \in Rows(Tree[v], disk)
  PROVE  a.sha256 = disk[a.path]
<1>1. /\ a.sha256 = IF a.path[1] = "fixtures/invalid" THEN disk[a.path] ELSE Tree[v].value[a.path]
      /\ a.path \in AssetPaths(Tree[v])
  BY RowFacts
<1>2. \A p \in SchemaPaths(Tree[v]) \cup ValidPaths(Tree[v]) : disk[p] = Tree[v].value[p]
  BY CurrentContract
<1>3. a.path \in InvalidPaths(Tree[v]) => a.path[1] = "fixtures/invalid"
  BY DirectoryOfPath
<1>4. QED
  BY <1>1, <1>2, <1>3 DEF AssetPaths

\* A revision declares as many assets as its manifest of them has rows.
LEMMA AsManyRows ==
  ASSUME DiskOK, NEW v \in Revisions, Current(Tree[v])
  PROVE  Cardinality(Rows(Tree[v], disk)) = Cardinality(Declared(Tree[v]))
<1> DEFINE rows == Rows(Tree[v], disk)
           declared == Declared(Tree[v])
           f == [a \in rows |-> Entry(a)]
<1>1. /\ \A a \in rows : Entry(a) \in declared
      /\ \A d \in declared : \E a \in rows : Entry(a) = d
      /\ \A a \in rows : a.sha256 = disk[a.path]
      /\ \A a \in rows : a.path = <<a.path[1], a.path[2]>>
      /\ \A a \in rows : a = ManifestAsset(a.path, a.root_type, a.sha256, a.expectation, a.expected_error)
  BY RowFacts, RowOfEntry, RowsOfCurrent
<1>2. IsFiniteSet(rows)
  BY FiniteRows
<1> HIDE DEF rows, declared
<1>3. ASSUME NEW a \in rows, NEW b \in rows, Entry(a) = Entry(b) PROVE a = b
  <2>1. /\ a.path[1] = b.path[1] /\ a.path[2] = b.path[2] /\ a.root_type = b.root_type
        /\ a.expectation = b.expectation /\ a.expected_error = b.expected_error
    BY <1>3 DEF Entry
  <2>2. a.path = b.path
    BY <1>1, <2>1
  <2>3. QED
    BY <1>1, <2>1, <2>2
<1>4. f \in Bijection(rows, declared)
  BY <1>1, <1>3 DEF Bijection, Injection, IsInjective, Surjection
<1>5. ExistsBijection(rows, declared)
  BY <1>4 DEF ExistsBijection
<1> HIDE DEF f
<1>6. Cardinality(declared) = Cardinality(rows)
  BY <1>2, <1>5, FS_Bijection
<1>7. QED
  BY <1>6 DEF rows, declared

\* A build that read a current contract undisturbed, with a table that is its
\* generator's, passes the test.
LEMMA CurrentPasses ==
  ASSUME IInv, NEW r \in Slots, mode[r] = "build", pc[r] = "embed", todo[r] = <<>>, clean[r],
         Current(Own(r)), Declared(Own(r)) = Own(r).embedded
  PROVE  TestsPass(r)
<1> DEFINE s == Own(r)
           rows == Rows(s, disk)
<1>1. built[r] \in Revisions /\ DiskOK /\ SlotOK(r)
  BY DEF IInv, Types, ContractTypeOK
<1>2. Range(todo[r]) = {}
  BY DEF Range
<1>3. /\ DOMAIN seen[r] = EmbeddedPaths(s)
      /\ \A p \in EmbeddedPaths(s) : seen[r][p] = disk[p]
  BY <1>1, <1>2 DEF SlotOK, Embedding, Undisturbed
<1>4. /\ ReceiptsConsistent(s)
      /\ disk[ManifestFile] = ManifestBytes(s, disk)
      /\ disk[ManifestFile] # Torn
      /\ \A p \in SchemaPaths(s) \cup ValidPaths(s) : disk[p] = s.value[p] /\ disk[p] # Torn
  BY <1>1, CurrentContract DEF Own
<1>5. seen[r][ManifestFile] = disk[ManifestFile]
  BY <1>3 DEF EmbeddedPaths
<1>6. /\ seen[r][ManifestFile].assets = rows
      /\ seen[r][ManifestFile].contract_digest = rows
  BY <1>4, <1>5, RowsOfManifest
<1>7. \A e \in s.embedded : seen[r][FileOf(e)] = disk[FileOf(e)]
  BY <1>3 DEF EmbeddedPaths, FileOf
<1>8. Cardinality(rows) = Cardinality(s.embedded)
  BY <1>1, AsManyRows DEF Own
<1>9. ASSUME NEW a \in rows PROVE \E e \in s.embedded : Matches(a, e, seen[r])
  <2> DEFINE e == Entry(a)
  <2>1. e \in s.embedded /\ a.path = <<a.path[1], a.path[2]>>
    BY RowFacts
  <2>2. /\ e[1] = a.path[1] /\ e[2] = a.path[2] /\ e[3] = a.root_type
        /\ e[4] = a.expectation /\ e[5] = a.expected_error
    BY DEF Entry
  <2>3. a.sha256 = disk[a.path]
    BY <1>1, RowsOfCurrent DEF Own
  <2> HIDE DEF e, rows
  <2>4. FileOf(e) = a.path
    BY <2>1, <2>2 DEF FileOf
  <2>5. a.sha256 = seen[r][FileOf(e)]
    BY <1>7, <2>1, <2>3, <2>4
  <2>6. Matches(a, e, seen[r])
    BY <2>2, <2>5 DEF Matches, SameName, FileOf
  <2>7. QED
    BY <2>1, <2>6
<1>10. RowsMatch(rows, s, seen[r])
  BY <1>8, <1>9 DEF RowsMatch, Matches
<1>11. ASSUME NEW e \in s.embedded, e[3] = "DecisionReceipt", e[4] = "valid"
       PROVE  seen[r][FileOf(e)] # Torn /\ ReceiptValid(Meaning[seen[r][FileOf(e)]])
  <2>1. PICK a \in s.valid : e = <<"fixtures/valid", a[1], a[2], "valid", NoError>>
    <3>1. \A f \in s.invalid : f[2] # "DecisionReceipt"
      BY <1>1, FixtureAssumption DEF Own
    <3>2. QED
      BY <1>11, <3>1 DEF Declared
  <2>2. a[2] = "DecisionReceipt" /\ FileOf(e) = <<"fixtures/valid", a[1]>>
    BY <1>11, <2>1 DEF FileOf
  <2>3. FileOf(e) \in ValidPaths(s)
    BY <2>2 DEF ValidPaths
  <2>4. seen[r][FileOf(e)] = s.value[FileOf(e)] /\ seen[r][FileOf(e)] # Torn
    BY <1>4, <1>7, <2>3
  <2>5. Meaning[s.value[<<"fixtures/valid", a[1]>>]] \in Receipts(s)
    BY <2>2 DEF Receipts
  <2>6. QED
    BY <1>4, <2>2, <2>4, <2>5 DEF ReceiptsConsistent
<1>12. QED
  BY <1>4, <1>5, <1>6, <1>10, <1>11 DEF TestsPass, Own, FileOf

\* What a refused build says of the contract and the two tables.
Refusal(r) ==
  mode[r] = "build" /\ pc[r] = "failed" /\ clean[r] =>
    ~Current(Own(r)) \/ Declared(Own(r)) # Own(r).embedded

LEMMA RefusalOfOthers ==
  ASSUME NEW q \in Slots, Refusal(q),
         pc'[q] = pc[q], mode'[q] = mode[q], built'[q] = built[q],
         clean'[q] => clean[q] /\ disk' = disk
  PROVE  Refusal(q)'
<1>1. CASE clean'[q] = FALSE
  BY <1>1 DEF Refusal
<1>2. CASE clean'[q] /\ clean[q] /\ disk' = disk
  <2>1. Own(q)' = Own(q)
    BY DEF Own
  <2>2. Current(Own(q))' <=> Current(Own(q))
    BY <1>2, <2>1, CurrentOfDisk DEF Current, DirectoryNames
  <2>3. QED
    BY <1>2, <2>1, <2>2 DEF Refusal
<1>3. QED
  BY <1>1, <1>2 DEF Refusal

LEMMA OwnRefusal ==
  ASSUME IInv, NEW r \in Slots, Refusal(r),
         (\E m \in {"generate", "check", "build"} : Start(r, m)) \/ RunStep(r) \/ Fault(r)
  PROVE  Refusal(r)'
<1>1. /\ Types /\ DiskOK /\ SlotOK(r) /\ built[r] \in Revisions
      /\ pc \in [Slots -> Ended \cup {"read", "write", "fill", "compare", "list", "embed"}]
  BY DEF IInv, Types, ContractTypeOK
<1>2. ASSUME NEW m \in {"generate", "check", "build"}, Start(r, m) PROVE Refusal(r)'
  <2>1. mode'[r] = "build" => pc'[r] = "embed"
    BY <1>1, <1>2 DEF Start, Types, ContractTypeOK
  <2>2. QED
    BY <2>1 DEF Refusal
<1>3. ASSUME disk' = disk, built' = built, mode' = mode, clean' = clean,
             ~Current(Own(r)) \/ Declared(Own(r)) # Own(r).embedded
      PROVE  Refusal(r)'
  <2>1. Own(r)' = Own(r)
    BY <1>3 DEF Own
  <2>2. Current(Own(r))' <=> Current(Own(r))
    BY <1>3, <2>1, CurrentOfDisk DEF Current, DirectoryNames
  <2>3. QED
    BY <1>3, <2>1, <2>2 DEF Refusal
<1>4. CASE ReadFile(r)
  <2>1. /\ pc'[r] \in {pc[r], "failed"} /\ disk' = disk /\ mode' = mode /\ built' = built /\ clean' = clean
        /\ pc[r] \in {"read", "embed"} /\ todo[r] # <<>>
    BY <1>1, <1>4 DEF ReadFile
  <2>2. pc'[r] = "failed" => disk[Head(todo[r])] = Missing
    BY <1>1, <1>4 DEF ReadFile
  <2>3. CASE pc'[r] = "failed" /\ mode[r] = "build"
    <3>1. pc[r] = "embed"
      BY <1>1, <2>1, <2>3 DEF SlotOK, Generating, Working
    <3>2. Head(todo[r]) \in EmbeddedPaths(Own(r))
      BY <1>1, <2>1, <2>3, <3>1, TodoLeft DEF SlotOK, Embedding, Types
    <3>3. ASSUME Declared(Own(r)) = Own(r).embedded
          PROVE  EmbeddedPaths(Own(r)) \subseteq AssetPaths(Own(r)) \cup {ManifestFile}
      BY <3>3, DeclaredPaths DEF EmbeddedPaths, FileOf
    <3>4. Current(Own(r)) => \A p \in AssetPaths(Own(r)) \cup {ManifestFile} : disk[p] # Missing
      BY <1>1, CurrentContract, GeneratorAssumption DEF Own, AssetPaths
    <3>5. QED
      BY <1>3, <2>1, <2>2, <2>3, <3>2, <3>3, <3>4
  <2>4. CASE ~(pc'[r] = "failed" /\ mode[r] = "build")
    BY <2>1, <2>4 DEF Refusal
  <2>5. QED
    BY <2>3, <2>4
<1>5. CASE Test(r)
  <2>1. /\ todo[r] = <<>> /\ pc[r] = "embed" /\ disk' = disk /\ mode' = mode /\ built' = built /\ clean' = clean
        /\ pc'[r] = IF TestsPass(r) THEN "ok" ELSE "failed"
    BY <1>1, <1>5 DEF Test, Goto
  <2>2. mode[r] = "build"
    BY <1>1, <2>1 DEF SlotOK, Embedding
  <2>3. CASE pc'[r] = "failed" /\ clean[r]
    <3>1. ~TestsPass(r)
      BY <2>1, <2>3
    <3>2. ~Current(Own(r)) \/ Declared(Own(r)) # Own(r).embedded
      BY <2>1, <2>2, <2>3, <3>1, CurrentPasses
    <3>3. QED
      BY <1>3, <2>1, <3>2
  <2>4. CASE ~(pc'[r] = "failed" /\ clean[r])
    BY <2>1, <2>4 DEF Refusal
  <2>5. QED
    BY <2>3, <2>4
<1>6. CASE Computed(r) \/ Truncate(r) \/ Fill(r) \/ CheckFile(r) \/ ListNames(r) \/ CheckNames(r)
  <2>1. pc[r] \in Working /\ mode' = mode
    BY <1>6 DEF Computed, Truncate, Fill, CheckFile, ListNames, CheckNames, Goto, Working
  <2>2. mode[r] # "build"
    BY <1>1, <2>1 DEF SlotOK, Generating
  <2>3. QED
    BY <2>1, <2>2 DEF Refusal
<1>7. CASE Succeed(r) \/ Fault(r)
  <2>1. pc'[r] # "failed"
    BY <1>1, <1>7 DEF Succeed, Fault, Goto
  <2>2. QED
    BY <2>1 DEF Refusal
<1>8. QED
  BY <1>2, <1>4, <1>5, <1>6, <1>7 DEF RunStep

LEMMA RefusalStep ==
  IInv /\ (\A r \in Slots : Refusal(r)) /\ [Next]_vars => (\A r \in Slots : Refusal(r))'
<1> SUFFICES ASSUME IInv, \A r \in Slots : Refusal(r), [Next]_vars, NEW q \in Slots
             PROVE  Refusal(q)'
  OBVIOUS
<1>1. Types
  BY DEF IInv
<1>2. ASSUME NEW r \in Slots, (\E m \in {"generate", "check", "build"} : Start(r, m)) \/ RunStep(r) \/ Fault(r)
      PROVE  Refusal(q)'
  <2>1. CASE r = q
    BY <1>2, <2>1, OwnRefusal
  <2>2. CASE r # q
    <3>1. /\ pc'[q] = pc[q] /\ mode'[q] = mode[q] /\ built'[q] = built[q]
          /\ clean'[q] => clean[q] /\ disk' = disk
      BY <1>1, <1>2, <2>2, SeenFromOthers
    <3>2. QED
      BY <3>1, RefusalOfOthers
  <2>3. QED
    BY <2>1, <2>2
<1>3. CASE Developer \/ UNCHANGED vars
  <2>1. /\ pc'[q] = pc[q] /\ mode'[q] = mode[q] /\ built'[q] = built[q]
        /\ clean'[q] => clean[q] /\ disk' = disk
    BY <1>1, <1>3, SeenFromAll
  <2>2. QED
    BY <2>1, RefusalOfOthers
<1>4. QED
  BY <1>2, <1>3 DEF Next

\* An undisturbed build fails its test only if the contract is not current or
\* the crate's table is not the generator's: what a check passes, the crate's
\* own test does not refuse.
THEOREM TestsAreExact == Spec => []TestExact
<1>1. Init => \A r \in Slots : Refusal(r)
  BY DEF Init, Refusal
<1>2. (\A r \in Slots : Refusal(r)) => TestExact
  BY DEF TestExact, Refusal, Own
<1>3. QED
  BY <1>1, <1>2, InvariantHolds, RefusalStep, PTL DEF Spec
===============================================================================
