------------------------------- MODULE Contract -------------------------------
(***************************************************************************)
(* tools/contract-schema (generate and check), and the crate that embeds   *)
(* what it writes (src/conformance.rs) with the test that compares the two *)
(* (tests/contract_fixtures.rs).  A developer changes the sources and the  *)
(* consumer cases while invocations run, fail and are killed.              *)
(*                                                                         *)
(* The bytes of an asset are a number, which Meaning maps to the fields of *)
(* a schema or to a receipt; SHA-256 is taken as collision free, so a hash *)
(* is that number.  fs::write truncates first, and a file is Torn between  *)
(* the two.                                                                *)
(***************************************************************************)
EXTENDS ContractAssets, SequencesExt

CONSTANTS
  Revisions,   \* of the sources
  First,       \* the one that contract/v1 was generated from
  Tree,        \* what a revision holds, see SourceAssumption
  Meaning,     \* of the bytes of a schema or a receipt
  Slots,       \* places for concurrent invocations
  MaxRuns,     \* bound: invocations
  MaxEdits,    \* bound: the developer's changes
  Faults,      \* whether invocations are killed or meet I/O errors
  Missing, Torn

Fields == <<"fields.toml">>
ManifestFile == <<"manifest.json">>

SchemaPaths(s) == {<<"schema", a[1]>> : a \in s.schemas}
ValidPaths(s) == {<<"fixtures/valid", a[1]>> : a \in s.valid}
InvalidPaths(s) == {<<"fixtures/invalid", f[1]>> : f \in s.invalid}

\* The receipts that a revision's generator builds.
Receipts(s) ==
  {Meaning[s.value[<<"fixtures/valid", a[1]>>]] : a \in {v \in s.valid : v[2] = "DecisionReceipt"}}

AssetPaths(s) == SchemaPaths(s) \cup ValidPaths(s) \cup InvalidPaths(s)

EmbeddedPaths(s) == {<<e[1], e[2]>> : e \in s.embedded} \cup {ManifestFile}

Paths == {Fields, ManifestFile}
           \cup UNION {AssetPaths(Tree[v]) \cup EmbeddedPaths(Tree[v]) : v \in Revisions}

\* A revision: the generator's tables, the bytes it gives to each generated
\* asset, and the crate's own table of what it embeds.
ASSUME SourceAssumption ==
  /\ First \in Revisions
  /\ \A v \in Revisions :
       LET s == Tree[v] IN
       /\ DOMAIN s = {"schemas", "valid", "value", "invalid", "embedded"}
       /\ IsFiniteSet(s.schemas) /\ IsFiniteSet(s.valid)
       /\ IsFiniteSet(s.invalid) /\ IsFiniteSet(s.embedded)
       /\ s.value \in [SchemaPaths(s) \cup ValidPaths(s) -> DOMAIN Meaning]
       /\ s.embedded \subseteq
            {"schema", "fixtures/valid", "fixtures/invalid"} \X STRING \X STRING \X STRING \X STRING

\* No consumer case is a receipt, and no file name is in use in both fixture
\* directories, in whichever revisions: the crate's test looks fixtures up by
\* name alone.
ASSUME FixtureAssumption ==
  /\ \A v \in Revisions : \A f \in Tree[v].invalid : f[2] # "DecisionReceipt"
  /\ \A p, q \in Paths :
       {p[1], q[1]} \subseteq {"fixtures/valid", "fixtures/invalid"} /\ p[2] = q[2] => p = q

\* The schema of an observation has the fields of the struct.
ASSUME SchemaAssumption ==
  \A v \in Revisions : \A a \in Tree[v].schemas : a[2] = "Observation" =>
    \A f \in Meaning[Tree[v].value[<<"schema", a[1]>>]] :
      f[1] = "Observation" => f[2] \in ObservationFields

VARIABLES
  source,    \* the revision in the work tree
  disk,      \* contract/v1
  pc, mode,  \* per invocation
  built,     \* the revision it was compiled from
  todo,      \* what its current loop has not reached
  seen,      \* the files it has read into memory
  runs, edits,  \* counters
  clean      \* history: nobody else has changed the disk since it started

local == <<pc, mode, built, todo, seen>>
vars == <<source, disk, local, clean, runs, edits>>

-----------------------------------------------------------------------------
(* What the generator computes.                                            *)

CollectFields(s) ==
  UNION {{<<a[2], f[1], f[2], f[3]>> : f \in Meaning[s.value[<<"schema", a[1]>>]]} : a \in s.schemas}

FieldsBytes(s) ==
  {<<f, FieldOwner(f), FieldRetention(f), FieldDigestCovered(f)>> : f \in CollectFields(s)}

ManifestAsset(path, root, bytes, expectation, error) ==
  [path |-> path, root_type |-> root, sha256 |-> bytes, expectation |-> expectation,
   expected_error |-> error]

\* manifest_bytes, where invalid is what was read of the consumer cases; the
\* contract digest is the hash of all rows.
ManifestBytes(s, invalid) ==
  LET schemas == {ManifestAsset(<<"schema", a[1]>>, a[2], s.value[<<"schema", a[1]>>],
                                "schema", NoError) : a \in s.schemas}
      valid == {ManifestAsset(<<"fixtures/valid", a[1]>>, a[2],
                              s.value[<<"fixtures/valid", a[1]>>], "valid", NoError) :
                a \in s.valid}
      cases == {ManifestAsset(<<"fixtures/invalid", f[1]>>, f[2],
                              invalid[<<"fixtures/invalid", f[1]>>],
                              IF f[3] = NoError THEN "valid" ELSE "invalid", f[3]) :
                f \in s.invalid}
  IN [assets |-> schemas \cup valid \cup cases, contract_digest |-> schemas \cup valid \cup cases]

\* The bytes that write_assets writes and check_assets expects at a path.
Generated(s, invalid, path) ==
  CASE path = Fields -> FieldsBytes(s)
    [] path = ManifestFile -> ManifestBytes(s, invalid)
    [] OTHER -> s.value[path]

\* Schemas, fixtures, then the two files that describe them.
AssetOrder(s) ==
  SetToSeq(SchemaPaths(s)) \o SetToSeq(ValidPaths(s)) \o <<Fields, ManifestFile>>

Directories == << <<"schema">>, <<"fixtures/valid">>, <<"fixtures/invalid">> >>

ExpectedNames(s, directory) == {p \in AssetPaths(s) : <<p[1]>> = directory}

DirectoryNames(directory) == {p \in Paths : <<p[1]>> = directory /\ disk[p] # Missing}

-----------------------------------------------------------------------------
(* An invocation.                                                          *)

\* A complete contract generated from s, the consumer cases all at number 1.
Complete(s) ==
  [p \in Paths |->
     IF p \in InvalidPaths(s) THEN 1
     ELSE IF p \in Range(AssetOrder(s)) THEN Generated(s, [q \in InvalidPaths(s) |-> 1], p)
     ELSE Missing]

Init ==
  /\ source = First
  /\ disk = Complete(Tree[First])
  /\ pc = [r \in Slots |-> "idle"]
  /\ mode = [r \in Slots |-> "check"]
  /\ built = [r \in Slots |-> First]
  /\ todo = [r \in Slots |-> <<>>]
  /\ seen = [r \in Slots |-> <<>>]
  /\ clean = [r \in Slots |-> TRUE]
  /\ runs = 0
  /\ edits = 0

Ended == {"idle", "ok", "failed", "stopped"}

Goto(r, from, to) == pc[r] = from /\ pc' = [pc EXCEPT ![r] = to]

\* The slot's invocation changes one file: every other one is disturbed.
Store(r, path, bytes) ==
  /\ disk' = [disk EXCEPT ![path] = bytes]
  /\ clean' = [q \in Slots |-> clean[q] /\ q = r]

ReceiptsConsistent_Unchecked(s) == TRUE

\* decision_receipt validates what it builds.
ReceiptsConsistent(s) == \A x \in Receipts(s) : ReceiptValid(x)

\* contract/v1 was generated from First, and no generated asset is what Missing
\* or Torn stand for: no file at all, and an empty or a partial one.
ASSUME GeneratorAssumption ==
  /\ ReceiptsConsistent(Tree[First])
  /\ {Missing, Torn} \cap (DOMAIN Meaning \cup {1, 2}) = {}
  /\ \A v \in Revisions : \A invalid \in [InvalidPaths(Tree[v]) -> {1, 2}] :
       ManifestBytes(Tree[v], invalid) \notin {Missing, Torn}

\* main: schemas and valid fixtures first, which may be an error.  A build of
\* the crate starts here too, to run include_bytes.
Start(r, m) ==
  /\ runs < MaxRuns /\ runs' = runs + 1
  /\ pc[r] \in Ended
  /\ mode' = [mode EXCEPT ![r] = m]
  /\ built' = [built EXCEPT ![r] = source]
  /\ seen' = [seen EXCEPT ![r] = <<>>]
  /\ clean' = [clean EXCEPT ![r] = TRUE]
  /\ IF m = "build"
     THEN /\ pc' = [pc EXCEPT ![r] = "embed"]
          /\ todo' = [todo EXCEPT ![r] = SetToSeq(EmbeddedPaths(Tree[source]))]
     ELSE /\ pc' = [pc EXCEPT ![r] =
                      IF ReceiptsConsistent(Tree[source]) THEN "read" ELSE "failed"]
          /\ todo' = [todo EXCEPT ![r] = SetToSeq(InvalidPaths(Tree[source]))]
  /\ UNCHANGED <<source, disk, edits>>

\* manifest_bytes reads the consumer cases; a missing one ends the run.
\* include_bytes reads what the crate embeds; a missing one fails the build.
ReadFile(r) ==
  /\ pc[r] \in {"read", "embed"} /\ todo[r] # <<>>
  /\ LET path == Head(todo[r]) IN
     IF disk[path] = Missing
     THEN pc' = [pc EXCEPT ![r] = "failed"] /\ UNCHANGED <<todo, seen>>
     ELSE /\ seen' = [seen EXCEPT ![r] =
                        [p \in DOMAIN @ \cup {path} |-> IF p = path THEN disk[path] ELSE @[p]]]
          /\ todo' = [todo EXCEPT ![r] = Tail(@)]
          /\ UNCHANGED pc
  /\ UNCHANGED <<source, disk, mode, built, clean, runs, edits>>

\* All is computed, nothing is written yet.
Computed(r) ==
  /\ todo[r] = <<>>
  /\ Goto(r, "read", IF mode[r] = "generate" THEN "write" ELSE "compare")
  /\ todo' = [todo EXCEPT ![r] = AssetOrder(Tree[built[r]])]
  /\ UNCHANGED <<source, disk, mode, built, seen, clean, runs, edits>>

\* fs::write, first half.
Truncate(r) ==
  /\ todo[r] # <<>>
  /\ Goto(r, "write", "fill")
  /\ Store(r, Head(todo[r]), Torn)
  /\ UNCHANGED <<source, mode, built, todo, seen, runs, edits>>

Fill(r) ==
  /\ Goto(r, "fill", "write")
  /\ Store(r, Head(todo[r]), Generated(Tree[built[r]], seen[r], Head(todo[r])))
  /\ todo' = [todo EXCEPT ![r] = Tail(@)]
  /\ UNCHANGED <<source, mode, built, seen, runs, edits>>

CheckFile_Exists(r) ==
  /\ pc[r] = "compare" /\ todo[r] # <<>>
  /\ IF disk[Head(todo[r])] # Missing
     THEN todo' = [todo EXCEPT ![r] = Tail(@)] /\ UNCHANGED pc
     ELSE pc' = [pc EXCEPT ![r] = "failed"] /\ UNCHANGED todo
  /\ UNCHANGED <<source, disk, mode, built, seen, clean, runs, edits>>

CheckFile(r) ==
  /\ pc[r] = "compare" /\ todo[r] # <<>>
  /\ IF disk[Head(todo[r])] = Generated(Tree[built[r]], seen[r], Head(todo[r]))
     THEN todo' = [todo EXCEPT ![r] = Tail(@)] /\ UNCHANGED pc
     ELSE pc' = [pc EXCEPT ![r] = "failed"] /\ UNCHANGED todo
  /\ UNCHANGED <<source, disk, mode, built, seen, clean, runs, edits>>

\* Every asset is written, or is as expected: check_expected_names.
ListNames(r) ==
  /\ todo[r] = <<>>
  /\ pc[r] \in {"write", "compare"}
  /\ pc' = [pc EXCEPT ![r] = "list"]
  /\ todo' = [todo EXCEPT ![r] = Directories]
  /\ UNCHANGED <<source, disk, mode, built, seen, clean, runs, edits>>

CheckNames(r) ==
  /\ pc[r] = "list" /\ todo[r] # <<>>
  /\ IF DirectoryNames(Head(todo[r])) = ExpectedNames(Tree[built[r]], Head(todo[r]))
     THEN todo' = [todo EXCEPT ![r] = Tail(@)] /\ UNCHANGED pc
     ELSE pc' = [pc EXCEPT ![r] = "failed"] /\ UNCHANGED todo
  /\ UNCHANGED <<source, disk, mode, built, seen, clean, runs, edits>>

Succeed(r) ==
  /\ todo[r] = <<>>
  /\ Goto(r, "list", "ok")
  /\ UNCHANGED <<source, disk, mode, built, todo, seen, clean, runs, edits>>

-----------------------------------------------------------------------------
(* The crate's own test of the bytes it embeds.  The library and the test   *)
(* read the manifest each, and must read the same digest: one read here.   *)

\* The crate keeps its schemas and its fixtures in a map by name each.
SameName(a, e) == a.path[2] = e[2] /\ (a.path[1] = "schema" <=> e[1] = "schema")

RowsMatch_AnyError(rows, s, embedding) ==
  /\ Cardinality(rows) = Cardinality(s.embedded)
  /\ \A a \in rows : \E e \in s.embedded :
       /\ SameName(a, e) /\ a.root_type = e[3]
       /\ a.sha256 = embedding[<<e[1], e[2]>>]

RowsMatch_AnyBytes(rows, s, embedding) ==
  /\ Cardinality(rows) = Cardinality(s.embedded)
  /\ \A a \in rows : \E e \in s.embedded :
       /\ SameName(a, e) /\ a.root_type = e[3]
       /\ a.expectation = e[4] /\ a.expected_error = e[5]

\* Every row of the manifest is an entry of that file name with the same root
\* type, expectations and bytes, and there are as many rows as entries.
RowsMatch(rows, s, embedding) ==
  /\ Cardinality(rows) = Cardinality(s.embedded)
  /\ \A a \in rows : \E e \in s.embedded :
       /\ SameName(a, e) /\ a.root_type = e[3]
       /\ a.expectation = e[4] /\ a.expected_error = e[5]
       /\ a.sha256 = embedding[<<e[1], e[2]>>]

TestsPass(r) ==
  LET s == Tree[built[r]]
      manifest == seen[r][ManifestFile] IN
  /\ manifest # Torn
  /\ manifest.contract_digest = manifest.assets
  /\ RowsMatch(manifest.assets, s, seen[r])
  /\ \A e \in s.embedded : e[3] = "DecisionReceipt" /\ e[4] = "valid" =>
       LET bytes == seen[r][<<e[1], e[2]>>] IN bytes # Torn /\ ReceiptValid(Meaning[bytes])

Test(r) ==
  /\ todo[r] = <<>>
  /\ Goto(r, "embed", IF TestsPass(r) THEN "ok" ELSE "failed")
  /\ UNCHANGED <<source, disk, mode, built, todo, seen, clean, runs, edits>>

-----------------------------------------------------------------------------
(* Failures and the developer.                                             *)

\* An fs operation fails and ends the run, or the process is killed.
Fault(r) ==
  /\ Faults /\ pc[r] \notin Ended
  /\ pc' = [pc EXCEPT ![r] = "stopped"]
  /\ UNCHANGED <<source, disk, mode, built, todo, seen, clean, runs, edits>>

Edit == edits < MaxEdits /\ edits' = edits + 1

EditSource(v) ==
  /\ Edit
  /\ v # source /\ source' = v
  /\ UNCHANGED <<disk, local, clean, runs>>

\* A consumer case changes, or any file is added or removed by hand.
EditFile(path, bytes) ==
  /\ Edit
  /\ disk[path] # bytes
  /\ disk' = [disk EXCEPT ![path] = bytes]
  /\ clean' = [r \in Slots |-> FALSE]
  /\ UNCHANGED <<source, local, runs>>

RunStep(r) ==
  \/ ReadFile(r) \/ Computed(r) \/ Truncate(r) \/ Fill(r)
  \/ CheckFile(r) \/ ListNames(r) \/ CheckNames(r) \/ Succeed(r) \/ Test(r)

Developer ==
  \/ \E v \in Revisions : EditSource(v)
  \/ \E path \in UNION {InvalidPaths(Tree[v]) : v \in Revisions}, bytes \in {1, 2} : EditFile(path, bytes)
  \/ \E path \in Paths : EditFile(path, Missing)

Next ==
  \/ \E r \in Slots :
       \/ \E m \in {"generate", "check", "build"} : Start(r, m)
       \/ RunStep(r)
       \/ Fault(r)
  \/ Developer

Spec == Init /\ [][Next]_vars

-----------------------------------------------------------------------------
(* Properties.                                                             *)

ContractTypeOK ==
  /\ source \in Revisions
  /\ DOMAIN disk = Paths
  /\ pc \in [Slots -> Ended \cup {"read", "write", "fill", "compare", "list", "embed"}]
  /\ mode \in [Slots -> {"generate", "check", "build"}]
  /\ built \in [Slots -> Revisions]
  /\ \A r \in Slots :
       /\ Range(todo[r]) \subseteq Paths \cup {Directories[i] : i \in 1 .. 3}
       /\ DOMAIN seen[r] \subseteq Paths
       /\ \A p \in DOMAIN seen[r] : seen[r][p] # Missing

\* contract/v1 is what the generator of s makes of the consumer cases there,
\* and its directories hold nothing else.
Current(s) ==
  /\ \A p \in InvalidPaths(s) : disk[p] # Missing
  /\ \A p \in Range(AssetOrder(s)) : disk[p] = Generated(s, disk, p)
  /\ \A d \in Range(Directories) : DirectoryNames(d) = ExpectedNames(s, d)

\* "make contract-check fails when a generated asset differs from the
\* generator's output or when the schema or fixture directories hold an
\* unexpected or missing file" (README): with nobody else writing, a check
\* passes exactly on a current contract, whatever half-done generations,
\* faults and edits came before it, and a generation that reports success has
\* made it current.
VerdictExact ==
  /\ ContractTypeOK
  /\ \A r \in Slots : mode[r] # "build" /\ clean[r] =>
       /\ pc[r] = "ok" => Current(Tree[built[r]])
       /\ pc[r] = "failed" /\ mode[r] = "check" =>
            ~Current(Tree[built[r]])

\* A tested crate embeds one generation: even when generators, killed or not,
\* write under the build, the bytes are those of one revision with the
\* manifest made of them.
NeverMixed ==
  \A r \in Slots : mode[r] = "build" /\ pc[r] = "ok" =>
    \E v \in Revisions : \A p \in DOMAIN seen[r] \ InvalidPaths(Tree[v]) :
      p \in Range(AssetOrder(Tree[v])) /\ seen[r][p] = Generated(Tree[v], seen[r], p)

\* What a revision's generator says of each asset.
Declared(s) ==
  {<<"schema", a[1], a[2], "schema", NoError>> : a \in s.schemas}
    \cup {<<"fixtures/valid", a[1], a[2], "valid", NoError>> : a \in s.valid}
    \cup {<<"fixtures/invalid", f[1], f[2],
            IF f[3] = NoError THEN "valid" ELSE "invalid", f[3]>> : f \in s.invalid}

\* A tested crate tells its consumers of each fixture what the manifest does,
\* although one table is src/conformance.rs's and the other the generator's.
DeclaredAlike ==
  \A r \in Slots : mode[r] = "build" /\ pc[r] = "ok" =>
    Tree[built[r]].embedded = {<<a.path[1], a.path[2], a.root_type, a.expectation, a.expected_error>> :
                         a \in seen[r][ManifestFile].assets}

\* The generator and the crate's test ask the same: an undisturbed build fails
\* its test only when the contract is not current or the two tables differ, so
\* no generated asset is one that the crate would refuse.
TestExact ==
  \A r \in Slots : mode[r] = "build" /\ pc[r] = "failed" /\ clean[r] =>
    ~Current(Tree[built[r]]) \/ Declared(Tree[built[r]]) # Tree[built[r]].embedded

\* What fields.toml tells a consumer of the digest is true: a field in an
\* observation is covered exactly when ObservationDigest holds it, or holds
\* what it is nested in.
DigestFlagsTrue ==
  disk[Fields] \notin {Missing, Torn} =>
    \A row \in disk[Fields] : row[1][1] = "Observation" =>
      (row[4] <=> row[1][2] # "Observation" \/ row[1][3] \in ObservationDigest)
===============================================================================
