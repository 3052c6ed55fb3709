--------------------------- MODULE Cooldown_proofs ---------------------------
(***************************************************************************)
(* What the gate's verdicts are worth, for every set of crates, lockfiles, *)
(* dates and bounds: IInv follows a run from what it hashed to what it     *)
(* read and judged, and a date from the branch that wrote it to HEAD.      *)
(***************************************************************************)
EXTENDS Cooldown, FiniteSetTheorems, TLAPS

RunType ==
  [ mode : Modes, allBase : BOOLEAN, at : Nat, fingerprint : {run.fingerprint},
    candidates : SUBSET Packages, recorded : Databases, newKeys : SUBSET Packages,
    resolved : [Packages -> Entries], problem : BOOLEAN, fresh : SUBSET Packages,
    hit : BOOLEAN, repaired : BOOLEAN, raced : BOOLEAN ]

Types ==
  /\ CooldownTypeOK
  /\ run \in RunType
  /\ cache # None => cache.at \in Nat

\* Where a run may be, by what it holds.
Places ==
  /\ run.hit => pc = "passed" /\ run.mode = "all"
  /\ run.raced => edited /\ pc # "idle"
  /\ pc = "write" => run.mode = "update"
  /\ pc = "dates" => todo \subseteq run.candidates \cup run.newKeys
  /\ pc \in {"read", "dates"} => run.candidates \cap Foreign = {}
  /\ pc \in {"select", "read"} => \A p \in Packages : run.resolved[p] = "none"

\* A wrong date in d is new, or HEAD has it already, or a base had its key.
Inherited(d) ==
  \A p \in Packages : Entry(d, p) = "wrong" =>
    \/ p \in rewritten
    \/ Entry(trusted.db, p) = "none" /\ Entry(head.db, p) \in {"none", "wrong"}

\* Where wrong dates may be.
Dates ==
  /\ \A p \in Packages : Entry(head.db, p) = "wrong" => p \in Unverified
  /\ Inherited(db)
  /\ pc \in {"dates", "write"} =>
       /\ Inherited(run.recorded)
       /\ \A p \in Packages : run.resolved[p] = "wrong" => Entry(run.recorded, p) = "wrong"
  /\ head.db = None => seeded = {}
  /\ db = None => head.db = None
  /\ vouched => \A p \in Packages : Entry(db, p) = "wrong" =>
       Entry(head.db, p) # "none" \/ (head.db = None /\ p \notin lock \ head.lock)

\* What a run has read is what it hashed, or what is there.
Reads ==
  LET base == IF run.allBase THEN trusted ELSE None IN
  /\ run.mode = "all" /\ ~run.raced =>
       /\ pc = "select" => run.fingerprint = <<lock, db, policy, base>>
       /\ pc = "read" => run.fingerprint = <<run.candidates, db, policy, base>>
       /\ pc = "dates" => run.fingerprint = <<run.candidates, run.recorded, policy, base>>
  /\ ~edited /\ pc \in {"read", "dates"} =>
       /\ run.mode \in {"diff", "fix"} => lock \ head.lock \subseteq run.candidates
       /\ run.mode = "all" => lock = run.candidates
  /\ ~edited /\ pc = "dates" => run.recorded = db

\* A recorded date that is not looked up again is the base's.
Bases ==
  pc = "dates" => \A p \in Packages \ run.newKeys : Entry(run.recorded, p) # "none" =>
    /\ run.mode \in {"diff", "fix"} =>
         Entry(head.db, p) # "none" \/ (head.db = None /\ p \notin run.candidates)
    /\ run.mode = "all" /\ run.allBase =>
         Entry(trusted.db, p) # "none" \/ (trusted.db = None /\ p \notin run.candidates \ trusted.lock)

Quiet == IF run.mode = "all" THEN ~run.raced ELSE ~edited

Aged(p) == Published[p] + Days <= run.at
Excused(p) == p \in policy.allow \cap policy.audits

\* What the verdict so far says of the versions it has looked at.
Judgements ==
  pc = "dates" =>
    /\ \A p \in run.newKeys \ todo : Entry(run.recorded, p) = "wrong" => run.problem
    /\ Quiet => \A p \in run.candidates \ todo :
         \/ run.problem \/ p \in run.fresh
         \/ Entry(run.recorded, p) = "wrong" /\ p \notin run.newKeys
         \/ Aged(p) \/ Excused(p)

\* What a saved cache stands for.
CacheTrue ==
  cache # None /\ ~cacheRaced /\ cache.fingerprint[4] = trusted =>
    \A p \in cache.fingerprint[1] \ (Unverified \cup (IF trusted.db = None THEN trusted.lock ELSE {})) :
      /\ p \notin Foreign
      /\ \/ Published[p] + Days <= cache.at
         \/ p \in cache.fingerprint[3].allow \cap cache.fingerprint[3].audits

\* The inductive invariant.
IInv ==
  /\ Types /\ Places /\ Dates /\ Reads /\ Bases /\ Judgements /\ CacheTrue
  /\ PassIsSound /\ CacheIsSound
\* A run that begins is typed, and so are the days.
LEMMA Blank ==
  /\ [p \in Packages |-> "none"] \in [Packages -> Entries]
  /\ None \in Databases /\ FirstDay .. LastDay \subseteq Nat
BY CooldownAssumption DEF Databases, Entries

LEMMA BeginsTyped ==
  ASSUME NEW mode \in Modes, NEW allBase \in BOOLEAN, NEW day \in Nat, NEW hit \in BOOLEAN, NEW print,
         run' = [NoRun EXCEPT !.mode = mode, !.allBase = allBase, !.at = day, !.hit = hit, !.fingerprint = print]
  PROVE  run' \in RunType'
BY Blank DEF RunType, NoRun

\* What one turn leaves of the run, once it has looked at p.
Looked(s, p) ==
  /\ s \in RunType
  /\ s = [run EXCEPT !.resolved = s.resolved, !.problem = s.problem, !.fresh = s.fresh]
  /\ run.problem => s.problem
  /\ run.fresh \subseteq s.fresh
  /\ \A q \in Packages : s.resolved[q] = "wrong" =>
       run.resolved[q] = "wrong" \/ Entry(run.recorded, q) = "wrong"
  /\ p \in run.newKeys /\ Entry(run.recorded, p) = "wrong" => s.problem
  /\ p \in run.candidates =>
       \/ s.problem \/ p \in s.fresh
       \/ Entry(run.recorded, p) = "wrong" /\ p \notin run.newKeys
       \/ Aged(p) \/ Excused(p)

\* The verdict on a version whose date is the registry's, or was trusted.
LEMMA JudgedSound ==
  ASSUME Types, NEW r \in RunType, NEW p \in Packages, NEW entry \in {"right", "wrong"},
         r = [run EXCEPT !.problem = r.problem], run.problem => r.problem,
         entry = "wrong" => Entry(run.recorded, p) = "wrong" /\ p \notin run.newKeys,
         p \in run.newKeys /\ Entry(run.recorded, p) = "wrong" => r.problem
  PROVE  Looked(Judged(r, p, entry), p)
<1>. DEFINE young == DateOf(p, entry) + Days > r.at
            s == Judged(r, p, entry)
            R == [r.resolved EXCEPT ![p] = entry]
            B == r.problem \/ (young /\ p \in policy.allow /\ p \notin policy.audits)
            F == IF young /\ p \notin policy.allow THEN r.fresh \cup {p} ELSE r.fresh
<1>1. s = [r EXCEPT !.resolved = R, !.problem = B, !.fresh = F]
  BY DEF Judged
<1>2. B \in BOOLEAN /\ F \subseteq Packages /\ R \in [Packages -> Entries]
  BY DEF RunType, Entries
<1>3. entry = "right" => (young <=> ~Aged(p))
  BY CooldownAssumption DEF DateOf, Aged, RunType
<1>. HIDE DEF young, R, s
<1>4. s \in RunType /\ s = [run EXCEPT !.resolved = R, !.problem = B, !.fresh = F]
  BY <1>1, <1>2 DEF RunType
<1>5. \A q \in Packages : R[q] = IF q = p THEN entry ELSE run.resolved[q]
  BY DEF R, RunType, Types
<1>6. s.problem = B /\ s.fresh = F /\ s.resolved = R
  BY <1>4 DEF RunType, Types
<1>7. p \in run.candidates =>
        \/ B \/ p \in F
        \/ Entry(run.recorded, p) = "wrong" /\ p \notin run.newKeys
        \/ Aged(p) \/ Excused(p)
  BY <1>3 DEF Excused
<1>8. run.fresh \subseteq F  BY DEF RunType, Types
<1>. QED  BY <1>4, <1>5, <1>6, <1>7, <1>8 DEF Looked, s

LEMMA LookSound ==
  ASSUME Types, Places, Look
  PROVE  NextLookup \in todo /\ NextLookup \in Packages /\ Looked(run', NextLookup)
<1>1. NextLookup \in todo
  BY DEF Look, NextLookup, InOrder
<1>2. NextLookup \in Packages
  BY <1>1 DEF Look, Places, Types, RunType
<1>. DEFINE p == NextLookup
            entry == Entry(run.recorded, p)
<1>3. entry \in Entries
  BY <1>2 DEF Types, RunType, Databases, Entry, Entries
<1>4. LookUp(p) /\ p \in Packages  BY <1>2 DEF Look
<1>. SUFFICES Looked(run', p)  BY <1>1, <1>2
<1>. HIDE DEF p
<1>5. CASE entry # "none" /\ p \notin run.newKeys
  <2>1. run' = Judged(run, p, entry)  BY <1>4, <1>5 DEF LookUp
  <2>2. run \in RunType /\ run = [run EXCEPT !.problem = run.problem]  BY DEF Types, RunType
  <2>3. entry \in {"right", "wrong"}  BY <1>3, <1>5 DEF Entries
  <2>4. /\ entry = "wrong" => Entry(run.recorded, p) = "wrong" /\ p \notin run.newKeys
        /\ p \in run.newKeys /\ Entry(run.recorded, p) = "wrong" => run.problem
    BY <1>5
  <2>5. Looked(Judged(run, p, entry), p)
    BY ONLY Types, <1>4, <2>2, <2>3, <2>4, JudgedSound
  <2>. QED  BY <2>1, <2>5
<1>6. CASE run' = Failed(run)
  <2>1. run' = [run EXCEPT !.problem = TRUE]  BY <1>6 DEF Failed
  <2>2. /\ run' \in RunType /\ run'.problem = TRUE /\ run'.fresh = run.fresh
        /\ run'.resolved = run.resolved
    BY <2>1 DEF Types, RunType
  <2>3. run' = [run EXCEPT !.resolved = run'.resolved, !.problem = run'.problem, !.fresh = run'.fresh]
    BY <2>1, <2>2 DEF Types, RunType
  <2>. QED  BY <2>2, <2>3 DEF Looked
<1>7. CASE /\ ~(entry # "none" /\ p \notin run.newKeys)
           /\ run' # Failed(run)
  <2>. DEFINE looked == [run EXCEPT !.problem = @ \/ entry = "wrong"]
  <2>1. run' = IF p \in run.candidates THEN Judged(looked, p, "right") ELSE looked
    BY <1>4, <1>7 DEF LookUp
  <2>2. looked \in RunType /\ looked = [run EXCEPT !.problem = looked.problem]
    BY DEF Types, RunType
  <2>3. (run.problem => looked.problem) /\ (entry = "wrong" => looked.problem)
    BY DEF Types, RunType
  <2>4. CASE p \in run.candidates
    <3>1. p \in run.newKeys /\ Entry(run.recorded, p) = "wrong" => looked.problem  BY <2>3
    <3>. HIDE DEF looked
    <3>2. Looked(Judged(looked, p, "right"), p)
      BY ONLY Types, <1>4, <2>2, <2>3, <3>1, JudgedSound
    <3>. QED  BY <2>1, <2>4, <3>2
  <2>5. CASE p \notin run.candidates
    <3>1. run' = [run EXCEPT !.problem = looked.problem]  BY <2>1, <2>2, <2>5
    <3>. HIDE DEF looked
    <3>2. /\ run' \in RunType /\ run'.problem = looked.problem /\ run'.fresh = run.fresh
          /\ run'.resolved = run.resolved
      BY <2>2, <3>1 DEF Types, RunType
    <3>3. run' = [run EXCEPT !.resolved = run'.resolved, !.problem = run'.problem, !.fresh = run'.fresh]
      BY <3>1, <3>2 DEF Types, RunType
    <3>. QED  BY <2>3, <2>5, <3>2, <3>3 DEF Looked
  <2>. QED  BY <2>4, <2>5
<1>. QED  BY <1>5, <1>6, <1>7

\* A cache hit meets the tree the cache was saved for.
LEMMA StartIInv ==
  ASSUME IInv, NEW mode \in Modes, NEW allBase \in BOOLEAN, Start(mode, allBase)
  PROVE  IInv'
<1> USE CooldownAssumption DEF IInv, Unverified, Start, NoRun, Fingerprint, CacheMatches, tree, revisions, loop, counters
<1>1. Types'
  <2>. DEFINE hit == mode = "all" /\ CacheMatches(Fingerprint(allBase))
               print == IF mode = "all" THEN Fingerprint(allBase) ELSE None
  <2>1. run' = [NoRun EXCEPT !.mode = mode, !.allBase = allBase, !.at = clock, !.hit = hit, !.fingerprint = print]
    BY DEF Start
  <2>2. hit \in BOOLEAN  OBVIOUS
  <2>. HIDE DEF hit, print
  <2>3. clock \in Nat  BY Blank DEF Types, CooldownTypeOK
  <2>5. run' \in RunType'  BY ONLY <2>1, <2>2, <2>3, mode \in Modes, allBase \in BOOLEAN, BeginsTyped
  <2>6. /\ UNCHANGED <<lock, db, policy, head, trusted, before, clock, seeded, rewritten, online, progress, vouched>>
        /\ pc' \in {"passed", "select"} /\ edited' = FALSE
    OBVIOUS
  <2>7. CooldownTypeOK'  BY ONLY <2>5, <2>6, Types, CooldownAssumption DEF Types, CooldownTypeOK, RunType
  <2>. QED  BY <2>5, <2>7 DEF Types
<1>2. Places'
  BY DEF Types, CooldownTypeOK, RunType, Places, Modes
<1>3. Dates'
  BY DEF Types, CooldownTypeOK, RunType, Places, Dates, Inherited, Entry, Modes
<1>4. Reads'
  BY DEF Types, CooldownTypeOK, RunType, Places, Reads, Modes
<1>5. Bases'
  BY DEF Types, CooldownTypeOK, RunType, Places, Bases, Entry, Modes
<1>6. Judgements'
  BY DEF Types, CooldownTypeOK, RunType, Places, Judgements, Quiet, Aged, Excused, Entry, Modes
<1>7. CacheTrue'
  BY DEF Types, CooldownTypeOK, RunType, Places, CacheTrue
<1>8. PassIsSound'
  BY <1>1 DEF Types, Places, PassIsSound, VouchedFor, OldOrAudited
<1>9. CacheIsSound'
  BY DEF Types, CooldownTypeOK, RunType, Places, CacheTrue, CacheIsSound, HitIsSound, VouchedFor, OldOrAudited, Dates, Modes
<1>. QED  BY <1>1, <1>2, <1>3, <1>4, <1>5, <1>6, <1>7, <1>8, <1>9

\* What is to be checked covers what the run will vouch for.
LEMMA SelectIInv ==
  ASSUME IInv, Select
  PROVE  IInv'
<1> USE CooldownAssumption DEF IInv, Unverified, Select, Candidates, Base, tree, revisions, loop, counters
<1>1. Types'
  BY DEF Types, CooldownTypeOK, RunType, Modes, Policies
<1>2. Places'
  BY DEF Types, CooldownTypeOK, RunType, Places, Modes
<1>3. Dates'
  BY DEF Types, CooldownTypeOK, RunType, Places, Dates, Inherited, Entry, Modes
<1>4. Reads'
  BY DEF Types, CooldownTypeOK, RunType, Places, Reads, Modes
<1>5. Bases'
  BY DEF Types, CooldownTypeOK, RunType, Places, Bases, Entry, Modes
<1>6. Judgements'
  BY DEF Types, CooldownTypeOK, RunType, Places, Judgements, Quiet, Aged, Excused, Entry, Modes
<1>7. CacheTrue'
  BY DEF Types, CooldownTypeOK, RunType, Places, CacheTrue
<1>8. PassIsSound'
  BY <1>1 DEF Types, Places, PassIsSound, VouchedFor, OldOrAudited
<1>9. CacheIsSound'
  BY DEF Types, CooldownTypeOK, RunType, Places, CacheIsSound, HitIsSound, VouchedFor, OldOrAudited
<1>. QED  BY <1>1, <1>2, <1>3, <1>4, <1>5, <1>6, <1>7, <1>8, <1>9

\* The new entries are those the base does not have.
LEMMA ReadDatabaseIInv ==
  ASSUME IInv, ReadDatabase
  PROVE  IInv'
<1> USE CooldownAssumption DEF IInv, Unverified, ReadDatabase, NewDbKeys, Introduced, Base, Keys, tree, revisions, loop, counters
<1>1. Types'
  BY DEF Types, CooldownTypeOK, RunType, Modes, Policies
<1>2. Places'
  BY DEF Types, CooldownTypeOK, RunType, Places, Modes
<1>3. Dates'
  BY DEF Types, CooldownTypeOK, RunType, Places, Dates, Inherited, Entry, Modes
<1>4. Reads'
  BY DEF Types, CooldownTypeOK, RunType, Places, Reads, Modes
<1>5. Bases'
  BY DEF Types, CooldownTypeOK, RunType, Places, Bases, Entry, Modes
<1>6. Judgements'
  BY DEF Types, CooldownTypeOK, RunType, Places, Judgements, Quiet, Aged, Excused, Entry, Modes
<1>7. CacheTrue'
  BY DEF Types, CooldownTypeOK, RunType, Places, CacheTrue
<1>8. PassIsSound'
  BY <1>1 DEF Types, Places, PassIsSound, VouchedFor, OldOrAudited
<1>9. CacheIsSound'
  BY DEF Types, CooldownTypeOK, RunType, Places, CacheIsSound, HitIsSound, VouchedFor, OldOrAudited
<1>. QED  BY <1>1, <1>2, <1>3, <1>4, <1>5, <1>6, <1>7, <1>8, <1>9

\* Each turn settles one version, or a new entry.
LEMMA LookIInv ==
  ASSUME IInv, Look
  PROVE  IInv'
<1> USE CooldownAssumption DEF IInv, Unverified, Look, tree, revisions, loop, counters
<1>a. NextLookup \in todo /\ NextLookup \in Packages /\ Looked(run', NextLookup)
  BY LookSound
<1>b. /\ todo' = todo \ {NextLookup} /\ UNCHANGED <<lock, db, policy, head, trusted, edited, pc>> /\ pc = "dates"
       /\ run'.recorded = run.recorded /\ run'.newKeys = run.newKeys /\ run'.candidates = run.candidates
       /\ run'.mode = run.mode /\ run'.raced = run.raced /\ run'.at = run.at
       /\ run'.allBase = run.allBase /\ run'.fingerprint = run.fingerprint
  BY <1>a DEF Looked, Types, RunType
<1>. HIDE DEF NextLookup, LookUp
<1>1. Types'
  BY <1>a DEF Looked, Types, CooldownTypeOK, RunType
<1>2. Places'
  BY <1>a DEF Looked, Types, CooldownTypeOK, RunType, Places
<1>3. Dates'
  <2>1. /\ UNCHANGED <<head, trusted, db, seeded, rewritten, lock, vouched, pc>>
        /\ run'.recorded = run.recorded
    BY <1>a DEF Looked, Types, RunType
  <2>2. \A q \in Packages : run'.resolved[q] = "wrong" => Entry(run.recorded, q) = "wrong"
    BY <1>a DEF Looked, Dates
  <2>. QED  BY <2>1, <2>2 DEF Dates, Inherited, Entry
<1>4. Reads'
  BY <1>a DEF Looked, Types, CooldownTypeOK, RunType, Places, Reads, Modes
<1>5. Bases'
  BY ONLY <1>b, Bases DEF Bases, Entry
<1>6. Judgements'
  <2>1. /\ run.problem => run'.problem
        /\ run.fresh \subseteq run'.fresh
        /\ NextLookup \in run.newKeys /\ Entry(run.recorded, NextLookup) = "wrong" => run'.problem
        /\ NextLookup \in run.candidates =>
             \/ run'.problem \/ NextLookup \in run'.fresh
             \/ Entry(run.recorded, NextLookup) = "wrong" /\ NextLookup \notin run.newKeys
             \/ Aged(NextLookup) \/ Excused(NextLookup)
    BY <1>a DEF Looked
  <2>2. \A p : (Aged(p))' = Aged(p) /\ (Excused(p))' = Excused(p)
    BY <1>b DEF Aged, Excused
  <2>3. Quiet' <=> Quiet
    BY ONLY <1>b DEF Quiet
  <2>4. ASSUME NEW p \in run.newKeys \ todo', Entry(run.recorded, p) = "wrong"
        PROVE  run'.problem
    BY ONLY <1>b, <2>1, <2>4, Judgements DEF Judgements
  <2>5. ASSUME Quiet, NEW p \in run.candidates \ todo'
        PROVE  \/ run'.problem \/ p \in run'.fresh
               \/ Entry(run.recorded, p) = "wrong" /\ p \notin run.newKeys
               \/ Aged(p) \/ Excused(p)
    BY ONLY <1>b, <2>1, <2>5, Judgements DEF Judgements
  <2>. QED  BY ONLY <1>b, <2>2, <2>3, <2>4, <2>5 DEF Judgements, Entry, Quiet, Aged, Excused
<1>7. CacheTrue'
  BY DEF Types, CooldownTypeOK, RunType, Places, CacheTrue
<1>8. PassIsSound'
  BY <1>1 DEF Types, Places, PassIsSound, VouchedFor, OldOrAudited
<1>9. CacheIsSound'
  BY DEF Types, CooldownTypeOK, RunType, Places, CacheIsSound, HitIsSound, VouchedFor, OldOrAudited
<1>. QED  BY <1>1, <1>2, <1>3, <1>4, <1>5, <1>6, <1>7, <1>8, <1>9

\* A refusal leaves everything as it is.
LEMMA FailIInv ==
  ASSUME IInv, Fail
  PROVE  IInv'
<1> USE CooldownAssumption DEF IInv, Unverified, Fail, tree, revisions, loop, counters
<1>1. Types'
  BY DEF Types, CooldownTypeOK, RunType, Modes, Policies
<1>2. Places'
  BY DEF Types, CooldownTypeOK, RunType, Places, Modes
<1>3. Dates'
  BY DEF Types, CooldownTypeOK, RunType, Places, Dates, Inherited, Entry, Modes
<1>4. Reads'
  BY DEF Types, CooldownTypeOK, RunType, Places, Reads, Modes
<1>5. Bases'
  BY DEF Types, CooldownTypeOK, RunType, Places, Bases, Entry, Modes
<1>6. Judgements'
  BY DEF Types, CooldownTypeOK, RunType, Places, Judgements, Quiet, Aged, Excused, Entry, Modes
<1>7. CacheTrue'
  BY DEF Types, CooldownTypeOK, RunType, Places, CacheTrue
<1>8. PassIsSound'
  BY <1>1 DEF Types, Places, PassIsSound, VouchedFor, OldOrAudited
<1>9. CacheIsSound'
  BY DEF Types, CooldownTypeOK, RunType, Places, CacheIsSound, HitIsSound, VouchedFor, OldOrAudited
<1>. QED  BY <1>1, <1>2, <1>3, <1>4, <1>5, <1>6, <1>7, <1>8, <1>9

\* With nothing left to look at, the verdict covers every candidate.
LEMMA PassIInv ==
  ASSUME IInv, Pass
  PROVE  IInv'
<1> USE CooldownAssumption DEF IInv, Unverified, Pass, Refuses, SaveCache, tree, revisions, loop, counters
<1>1. Types'
  BY DEF Types, CooldownTypeOK, RunType, Modes, Policies
<1>2. Places'
  BY DEF Types, CooldownTypeOK, RunType, Places, Modes
<1>3. Dates'
  <2>1. run.mode = "diff" /\ ~edited /\ run.problem = FALSE /\ run.recorded = db =>
          \A p \in Packages : Entry(db, p) = "wrong" =>
            Entry(head.db, p) # "none" \/ (head.db = None /\ p \notin lock \ head.lock)
    BY DEF Types, CooldownTypeOK, RunType, Places, Bases, Reads, Judgements, Entry
  <2>2. run.problem = FALSE  BY DEF Types, RunType
  <2>3. ~edited => run.recorded = db  BY DEF Reads
  <2>. QED  BY <2>1, <2>2, <2>3 DEF Types, CooldownTypeOK, RunType, Places, Dates, Inherited, Entry, Modes
<1>4. Reads'
  BY DEF Types, CooldownTypeOK, RunType, Places, Reads, Modes
<1>5. Bases'
  BY DEF Types, CooldownTypeOK, RunType, Places, Bases, Entry, Modes
<1>6. Judgements'
  BY DEF Types, CooldownTypeOK, RunType, Places, Judgements, Quiet, Aged, Excused, Entry, Modes
<1>7. CacheTrue'
  <2>1. CASE run.mode # "all"
    BY <2>1 DEF Types, CooldownTypeOK, RunType, CacheTrue
  <2>2. CASE run.mode = "all"
    <3>. DEFINE fp == run.fingerprint
    <3>1. cache' = [fingerprint |-> fp, at |-> run.at] /\ cacheRaced' = run.raced
          /\ trusted' = trusted /\ seeded' = seeded /\ rewritten' = rewritten
      BY <2>2
    <3>2. SUFFICES ASSUME ~run.raced, fp[4] = trusted, NEW p \in fp[1], p \notin Unverified,
                          trusted.db = None => p \notin trusted.lock
                   PROVE  p \notin Foreign /\ (Aged(p) \/ p \in fp[3].allow \cap fp[3].audits)
      BY <3>1 DEF CacheTrue, Aged
    <3>3. fp = <<run.candidates, run.recorded, policy, IF run.allBase THEN trusted ELSE None>>
      BY <2>2, <3>2 DEF Reads
    <3>4. run.allBase
      BY <3>2, <3>3 DEF Types, CooldownTypeOK
    <3>5. p \in run.candidates /\ p \notin Foreign /\ p \in Packages
      BY <3>3 DEF Places, Types, CooldownTypeOK
    <3>6. \/ Entry(run.recorded, p) = "wrong" /\ p \notin run.newKeys
          \/ Aged(p) \/ Excused(p)
      BY <2>2, <3>2, <3>5 DEF Judgements, Quiet
    <3>7. ~(Entry(run.recorded, p) = "wrong" /\ p \notin run.newKeys)
      BY <2>2, <3>2, <3>4, <3>5 DEF Bases, Dates, Inherited
    <3>. QED  BY <3>3, <3>5, <3>6, <3>7 DEF Excused
  <2>. QED  BY <2>1, <2>2
<1>8. PassIsSound'
  <2>1. SUFFICES ASSUME ~run.hit, ~edited, run.mode # "update", NEW p \in VouchedFor
                 PROVE  OldOrAudited(p)
    BY <1>1 DEF Types, Places, PassIsSound, VouchedFor, OldOrAudited
  <2>2. p \in run.candidates /\ p \in Packages /\ p \notin Foreign /\ p \notin Unverified
    BY <2>1, CooldownAssumption DEF Types, CooldownTypeOK, Reads, Places, VouchedFor, Modes
  <2>3. \/ Entry(run.recorded, p) = "wrong" /\ p \notin run.newKeys
        \/ Aged(p) \/ Excused(p)
    BY <2>1, <2>2 DEF Judgements, Quiet, Places
  <2>4. ASSUME Entry(run.recorded, p) = "wrong", p \notin run.newKeys
        PROVE  FALSE
    <3>1. CASE run.mode \in {"diff", "fix"}
      BY <2>2, <2>4, <3>1 DEF Bases, Dates, Inherited
    <3>2. CASE run.mode = "all"
      BY <2>1, <2>2, <2>4, <3>2 DEF Bases, Dates, Inherited, VouchedFor
    <3>. QED  BY <2>1, <3>1, <3>2 DEF Types, CooldownTypeOK, Modes
  <2>. QED  BY <2>2, <2>3, <2>4 DEF OldOrAudited, Aged, Excused
<1>9. CacheIsSound'
  BY DEF Types, CooldownTypeOK, RunType, Places, CacheIsSound, HitIsSound, VouchedFor, OldOrAudited
<1>. QED  BY <1>1, <1>2, <1>3, <1>4, <1>5, <1>6, <1>7, <1>8, <1>9

\* The new database has only dates that were looked up or trusted.
LEMMA WriteDatabaseIInv ==
  ASSUME IInv, WriteDatabase
  PROVE  IInv'
<1> USE CooldownAssumption DEF IInv, Unverified, WriteDatabase, tree, revisions, loop, counters
<1>1. Types'
  <2>1. db' \in Databases  BY DEF Types, CooldownTypeOK, RunType, Databases
  <2>. QED  BY <2>1 DEF Types, CooldownTypeOK, RunType
<1>2. Places'
  BY DEF Types, CooldownTypeOK, RunType, Places, Modes
<1>3. Dates'
  <2>1. CASE db' = db
    BY <2>1 DEF Types, CooldownTypeOK, RunType, Places, Dates, Inherited
  <2>2. CASE db' = run.resolved
    <3>1. Inherited(run.resolved)
      BY CooldownAssumption DEF Types, CooldownTypeOK, RunType, Dates, Inherited, Entry, Databases, Entries
    <3>2. db' # None  BY <2>2 DEF Types, RunType, Entries
    <3>. QED  BY <2>2, <3>1, <3>2 DEF Types, CooldownTypeOK, RunType, Places, Dates, Inherited
  <2>. QED  BY <2>1, <2>2
<1>4. Reads'
  BY DEF Types, CooldownTypeOK, RunType, Places, Reads, Modes
<1>5. Bases'
  BY DEF Types, CooldownTypeOK, RunType, Places, Bases, Entry, Modes
<1>6. Judgements'
  BY DEF Types, CooldownTypeOK, RunType, Places, Judgements, Quiet, Aged, Excused, Entry, Modes
<1>7. CacheTrue'
  BY DEF Types, CooldownTypeOK, RunType, Places, CacheTrue
<1>8. PassIsSound'
  BY <1>1 DEF Types, Places, PassIsSound, VouchedFor, OldOrAudited
<1>9. CacheIsSound'
  BY DEF Types, CooldownTypeOK, RunType, Places, CacheIsSound, HitIsSound, VouchedFor, OldOrAudited
<1>. QED  BY <1>1, <1>2, <1>3, <1>4, <1>5, <1>6, <1>7, <1>8, <1>9

\* The next run begins blank.
LEMMA EndIInv ==
  ASSUME IInv, End
  PROVE  IInv'
<1> USE CooldownAssumption DEF IInv, Unverified, End, NoRun, tree, revisions, loop, counters
<1>1. Types'
  <2>1. run' \in RunType'  BY Blank DEF RunType, Modes, NoRun
  <2>2. CooldownTypeOK'  BY Blank DEF Types, CooldownTypeOK, Modes, NoRun
  <2>. QED  BY <2>1, <2>2 DEF Types
<1>2. Places'
  BY DEF Types, CooldownTypeOK, RunType, Places, Modes
<1>3. Dates'
  BY DEF Types, CooldownTypeOK, RunType, Places, Dates, Inherited, Entry, Modes
<1>4. Reads'
  BY DEF Types, CooldownTypeOK, RunType, Places, Reads, Modes
<1>5. Bases'
  BY DEF Types, CooldownTypeOK, RunType, Places, Bases, Entry, Modes
<1>6. Judgements'
  BY DEF Types, CooldownTypeOK, RunType, Places, Judgements, Quiet, Aged, Excused, Entry, Modes
<1>7. CacheTrue'
  BY DEF Types, CooldownTypeOK, RunType, Places, CacheTrue
<1>8. PassIsSound'
  BY <1>1 DEF Types, Places, PassIsSound, VouchedFor, OldOrAudited
<1>9. CacheIsSound'
  BY DEF Types, CooldownTypeOK, RunType, Places, CacheIsSound, HitIsSound, VouchedFor, OldOrAudited
<1>. QED  BY <1>1, <1>2, <1>3, <1>4, <1>5, <1>6, <1>7, <1>8, <1>9

\* A repair is planned from the verdict and changes no file.
LEMMA PlanRepairIInv ==
  ASSUME IInv, PlanRepair
  PROVE  IInv'
<1> USE CooldownAssumption DEF IInv, Unverified, PlanRepair, tree, revisions, loop, counters
<1>1. Types'
  BY DEF Types, CooldownTypeOK, RunType, Modes, Policies
<1>2. Places'
  BY DEF Types, CooldownTypeOK, RunType, Places, Modes
<1>3. Dates'
  BY DEF Types, CooldownTypeOK, RunType, Places, Dates, Inherited, Entry, Modes
<1>4. Reads'
  BY DEF Types, CooldownTypeOK, RunType, Places, Reads, Modes
<1>5. Bases'
  BY DEF Types, CooldownTypeOK, RunType, Places, Bases, Entry, Modes
<1>6. Judgements'
  BY DEF Types, CooldownTypeOK, RunType, Places, Judgements, Quiet, Aged, Excused, Entry, Modes
<1>7. CacheTrue'
  BY DEF Types, CooldownTypeOK, RunType, Places, CacheTrue
<1>8. PassIsSound'
  BY <1>1 DEF Types, Places, PassIsSound, VouchedFor, OldOrAudited
<1>9. CacheIsSound'
  BY DEF Types, CooldownTypeOK, RunType, Places, CacheIsSound, HitIsSound, VouchedFor, OldOrAudited
<1>. QED  BY <1>1, <1>2, <1>3, <1>4, <1>5, <1>6, <1>7, <1>8, <1>9

\* A repair moves the lockfile only, and is followed by a check.
LEMMA RollbackIInv ==
  ASSUME IInv, NEW item, Rollback(item)
  PROVE  IInv'
<1> USE CooldownAssumption DEF IInv, Unverified, Rollback, Repaired, CargoResults, tree, revisions, loop, counters
<1>1. Types'
  <2>1. UNCHANGED <<db, policy, head, trusted, before, clock, cache, run, online, edited, seeded, rewritten>>
    OBVIOUS
  <2>2. lock' \in Resolutions /\ pc' \in {pc, "failed"} /\ progress' \in {progress, TRUE} /\ vouched' \in {vouched, FALSE}
    BY DEF Types, CooldownTypeOK
  <2>3. CooldownTypeOK'  BY ONLY <2>1, <2>2, Types DEF Types, CooldownTypeOK
  <2>. QED  BY ONLY <2>1, <2>3, Types DEF Types, RunType
<1>2. Places'
  BY DEF Types, CooldownTypeOK, RunType, Places, Modes
<1>3. Dates'
  BY DEF Types, CooldownTypeOK, RunType, Places, Dates, Inherited, Entry, Modes
<1>4. Reads'
  BY DEF Types, CooldownTypeOK, RunType, Places, Reads, Modes
<1>5. Bases'
  BY DEF Types, CooldownTypeOK, RunType, Places, Bases, Entry, Modes
<1>6. Judgements'
  BY DEF Types, CooldownTypeOK, RunType, Places, Judgements, Quiet, Aged, Excused, Entry, Modes
<1>7. CacheTrue'
  BY DEF Types, CooldownTypeOK, RunType, Places, CacheTrue
<1>8. PassIsSound'
  BY <1>1 DEF Types, Places, PassIsSound, VouchedFor, OldOrAudited
<1>9. CacheIsSound'
  BY DEF Types, CooldownTypeOK, RunType, Places, CacheIsSound, HitIsSound, VouchedFor, OldOrAudited
<1>. QED  BY <1>1, <1>2, <1>3, <1>4, <1>5, <1>6, <1>7, <1>8, <1>9

\* Another pass of the repair.
LEMMA EndOfPassIInv ==
  ASSUME IInv, EndOfPass
  PROVE  IInv'
<1> USE CooldownAssumption DEF IInv, Unverified, EndOfPass, NextPass, tree, revisions, loop, counters
<1>1. Types'
  BY DEF Types, CooldownTypeOK, RunType, Modes, Policies
<1>2. Places'
  BY DEF Types, CooldownTypeOK, RunType, Places, Modes
<1>3. Dates'
  BY DEF Types, CooldownTypeOK, RunType, Places, Dates, Inherited, Entry, Modes
<1>4. Reads'
  BY DEF Types, CooldownTypeOK, RunType, Places, Reads, Modes
<1>5. Bases'
  BY DEF Types, CooldownTypeOK, RunType, Places, Bases, Entry, Modes
<1>6. Judgements'
  BY DEF Types, CooldownTypeOK, RunType, Places, Judgements, Quiet, Aged, Excused, Entry, Modes
<1>7. CacheTrue'
  BY DEF Types, CooldownTypeOK, RunType, Places, CacheTrue
<1>8. PassIsSound'
  BY <1>1 DEF Types, Places, PassIsSound, VouchedFor, OldOrAudited
<1>9. CacheIsSound'
  BY DEF Types, CooldownTypeOK, RunType, Places, CacheIsSound, HitIsSound, VouchedFor, OldOrAudited
<1>. QED  BY <1>1, <1>2, <1>3, <1>4, <1>5, <1>6, <1>7, <1>8, <1>9

\* The check after a repair starts from nothing, unless a manifest is refused.
LEMMA RollbackDoneIInv ==
  ASSUME IInv, RollbackDone
  PROVE  IInv'
<1> USE CooldownAssumption DEF IInv, Unverified, RollbackDone, Verify, NoRun, tree, revisions, loop, counters
<1>1. Types'
  <2>1. clock \in Nat  BY Blank DEF Types, CooldownTypeOK
  <2>2. CASE Verify
    <3>1. run' \in RunType'  BY <2>1, <2>2, Blank DEF RunType, Modes, NoRun
    <3>2. CooldownTypeOK'  BY <2>2, Blank DEF Types, CooldownTypeOK, Modes, NoRun
    <3>. QED  BY <3>1, <3>2 DEF Types
  <2>3. CASE pc' = "failed" /\ UNCHANGED <<run, edited>>
    BY <2>3 DEF Types, CooldownTypeOK, RunType, Modes, Policies
  <2>. QED  BY <2>2, <2>3
<1>2. Places'
  <2>1. CASE Verify
    BY <2>1 DEF Types, RunType, Places
  <2>2. CASE pc' = "failed" /\ UNCHANGED <<run, edited>>
    BY <2>2 DEF Types, RunType, Places
  <2>. QED  BY <2>1, <2>2
<1>3. Dates'
  BY DEF Types, CooldownTypeOK, RunType, Places, Dates, Inherited, Entry, Modes
<1>4. Reads'
  BY DEF Types, CooldownTypeOK, RunType, Places, Reads, Modes
<1>5. Bases'
  BY DEF Types, CooldownTypeOK, RunType, Places, Bases, Entry, Modes
<1>6. Judgements'
  BY DEF Types, CooldownTypeOK, RunType, Places, Judgements, Quiet, Aged, Excused, Entry, Modes
<1>7. CacheTrue'
  BY DEF Types, CooldownTypeOK, RunType, Places, CacheTrue
<1>8. PassIsSound'
  BY <1>1 DEF Types, Places, PassIsSound, VouchedFor, OldOrAudited
<1>9. CacheIsSound'
  BY DEF Types, CooldownTypeOK, RunType, Places, CacheIsSound, HitIsSound, VouchedFor, OldOrAudited
<1>. QED  BY <1>1, <1>2, <1>3, <1>4, <1>5, <1>6, <1>7, <1>8, <1>9

\* The lockfile is replaced: a commit must be vouched for again.
LEMMA BumpIInv ==
  ASSUME IInv, Bump
  PROVE  IInv'
<1> USE CooldownAssumption DEF IInv, Unverified, Bump, Edited, tree, revisions, loop, counters
<1>1. Types'
  <2>1. lock' \in Resolutions /\ lock \in Resolutions  BY DEF Types, CooldownTypeOK
  <2>2. run' \in RunType'  BY DEF Types, RunType
  <2>3. /\ UNCHANGED <<head, trusted, seeded, rewritten, clock, pc, online, progress, db, policy>>
        /\ edited' \in BOOLEAN /\ vouched' = FALSE /\ before' = lock
    OBVIOUS
  <2>4. CooldownTypeOK'  BY ONLY <2>1, <2>2, <2>3, Types DEF Types, CooldownTypeOK, RunType
  <2>. QED  BY <2>2, <2>4 DEF Types
<1>2. Places'
  BY DEF Types, CooldownTypeOK, RunType, Places, Modes
<1>3. Dates'
  BY DEF Types, CooldownTypeOK, RunType, Places, Dates, Inherited, Entry, Modes
<1>4. Reads'
  BY DEF Types, CooldownTypeOK, RunType, Places, Reads, Modes
<1>5. Bases'
  BY DEF Types, CooldownTypeOK, RunType, Places, Bases, Entry, Modes
<1>6. Judgements'
  BY DEF Types, CooldownTypeOK, RunType, Places, Judgements, Quiet, Aged, Excused, Entry, Modes
<1>7. CacheTrue'
  BY DEF Types, CooldownTypeOK, RunType, Places, CacheTrue
<1>8. PassIsSound'
  BY <1>1 DEF Types, Places, PassIsSound, VouchedFor, OldOrAudited
<1>9. CacheIsSound'
  BY DEF Types, CooldownTypeOK, RunType, Places, CacheIsSound, HitIsSound, VouchedFor, OldOrAudited
<1>. QED  BY <1>1, <1>2, <1>3, <1>4, <1>5, <1>6, <1>7, <1>8, <1>9

\* An exception changes after its file was hashed, or the run is not told.
LEMMA EditPolicyIInv ==
  ASSUME IInv, Edited({"select", "read", "dates"}), EditPolicy, UNCHANGED <<lock, db, before, rewritten>>
  PROVE  IInv'
<1> USE CooldownAssumption DEF IInv, Unverified, EditPolicy, Edited, tree, revisions, loop, counters
<1>1. Types'
  <2>1. policy' \in Policies  BY CooldownAssumption DEF Policies
  <2>2. run' \in RunType'  BY DEF Types, RunType
  <2>3. /\ UNCHANGED <<head, trusted, seeded, rewritten, clock, pc, online, progress, lock, db, before>>
        /\ edited' \in BOOLEAN /\ vouched' = FALSE
    OBVIOUS
  <2>4. CooldownTypeOK'  BY ONLY <2>1, <2>2, <2>3, Types DEF Types, CooldownTypeOK, RunType
  <2>. QED  BY <2>2, <2>4 DEF Types
<1>2. Places'
  BY DEF Types, CooldownTypeOK, RunType, Places, Modes
<1>3. Dates'
  BY DEF Types, CooldownTypeOK, RunType, Places, Dates, Inherited, Entry, Modes
<1>4. Reads'
  BY DEF Types, CooldownTypeOK, RunType, Places, Reads, Modes
<1>5. Bases'
  BY DEF Types, CooldownTypeOK, RunType, Places, Bases, Entry, Modes
<1>6. Judgements'
  BY DEF Types, CooldownTypeOK, RunType, Places, Judgements, Quiet, Aged, Excused, Entry, Modes
<1>7. CacheTrue'
  BY DEF Types, CooldownTypeOK, RunType, Places, CacheTrue
<1>8. PassIsSound'
  BY <1>1 DEF Types, Places, PassIsSound, VouchedFor, OldOrAudited
<1>9. CacheIsSound'
  BY DEF Types, CooldownTypeOK, RunType, Places, CacheIsSound, HitIsSound, VouchedFor, OldOrAudited
<1>. QED  BY <1>1, <1>2, <1>3, <1>4, <1>5, <1>6, <1>7, <1>8, <1>9

\* A wrong date enters as a new entry, or its key is noted.
LEMMA EditDatabaseIInv ==
  ASSUME IInv, Edited({"select", "read"}), EditDatabase, UNCHANGED <<lock, policy, before>>
  PROVE  IInv'
<1> USE CooldownAssumption DEF IInv, Unverified, EditDatabase, Edited, tree, revisions, loop, counters
<1>1. Types'
  <2>1. db' \in Databases
    BY CooldownAssumption DEF Types, CooldownTypeOK, Databases, Entries, Entry
  <2>2. run' \in RunType'  BY DEF Types, RunType
  <2>3. /\ UNCHANGED <<head, trusted, seeded, clock, pc, online, progress, lock, policy, before>>
        /\ edited' \in BOOLEAN /\ vouched' = FALSE /\ rewritten' \subseteq Packages
    BY CooldownAssumption DEF Types, CooldownTypeOK
  <2>4. CooldownTypeOK'  BY ONLY <2>1, <2>2, <2>3, Types DEF Types, CooldownTypeOK, RunType
  <2>. QED  BY <2>2, <2>4 DEF Types
<1>2. Places'
  BY DEF Types, CooldownTypeOK, RunType, Places, Modes
<1>3. Dates'
  <2>1. \A q \in Packages : Entry(db', q) = "wrong" =>
          Entry(db, q) = "wrong" \/ q \in rewritten' \/ q \notin Keys(head.db) \cup Keys(trusted.db)
    BY CooldownAssumption DEF Entry, Databases, Entries
  <2>4. rewritten \subseteq rewritten'  OBVIOUS
  <2>2. db' # None  BY CooldownAssumption DEF Types, CooldownTypeOK, Databases, Entries, Entry
  <2>3. Inherited(db)'  BY <2>1, <2>4 DEF Dates, Inherited, Keys, Entry
  <2>. QED  BY <2>2, <2>3, <2>4 DEF Types, CooldownTypeOK, RunType, Places, Dates, Inherited
<1>4. Reads'
  BY DEF Types, CooldownTypeOK, RunType, Places, Reads, Modes
<1>5. Bases'
  BY DEF Types, CooldownTypeOK, RunType, Places, Bases, Entry, Modes
<1>6. Judgements'
  BY DEF Types, CooldownTypeOK, RunType, Places, Judgements, Quiet, Aged, Excused, Entry, Modes
<1>7. CacheTrue'
  BY DEF Types, CooldownTypeOK, RunType, Places, CacheTrue
<1>8. PassIsSound'
  BY <1>1 DEF Types, Places, PassIsSound, VouchedFor, OldOrAudited
<1>9. CacheIsSound'
  BY DEF Types, CooldownTypeOK, RunType, Places, CacheIsSound, HitIsSound, VouchedFor, OldOrAudited
<1>. QED  BY <1>1, <1>2, <1>3, <1>4, <1>5, <1>6, <1>7, <1>8, <1>9

\* A commit carries what the hook has vouched for.
LEMMA CommitIInv ==
  ASSUME IInv, Commit
  PROVE  IInv'
<1> USE CooldownAssumption DEF IInv, Unverified, Commit, tree, revisions, loop, counters
<1>1. Types'
  <2>1. Keys(db) \subseteq Packages  BY DEF Keys
  <2>2. seeded' \subseteq Packages  BY <2>1 DEF Types, CooldownTypeOK
  <2>. QED  BY <2>2 DEF Types, CooldownTypeOK, RunType
<1>2. Places'
  BY DEF Types, CooldownTypeOK, RunType, Places, Modes
<1>3. Dates'
  <2>1. \A p \in Packages : Entry(db, p) = "wrong" =>
          Entry(head.db, p) # "none" \/ (head.db = None /\ p \notin lock \ head.lock)
    BY DEF Dates
  <2>2. \A p \in Packages : Entry(db, p) = "wrong" => p \in Unverified'
    BY <2>1, CooldownAssumption DEF Dates, Inherited, Entry, Keys
  <2>3. Inherited(db)'
    BY CooldownAssumption DEF Dates, Inherited
  <2>4. db = None => seeded' = {}
    BY DEF Dates, Keys
  <2>5. vouched => \A p \in Packages : Entry(db, p) = "wrong" => Entry(db, p) # "none"
    OBVIOUS
  <2>. QED  BY <2>2, <2>3, <2>4, <2>5 DEF Dates, Inherited
<1>4. Reads'
  BY DEF Types, CooldownTypeOK, RunType, Places, Reads, Modes
<1>5. Bases'
  BY DEF Types, CooldownTypeOK, RunType, Places, Bases, Entry, Modes
<1>6. Judgements'
  BY DEF Types, CooldownTypeOK, RunType, Places, Judgements, Quiet, Aged, Excused, Entry, Modes
<1>7. CacheTrue'
  <2>1. Unverified \subseteq Unverified'  BY DEF Dates
  <2>. QED  BY <2>1 DEF CacheTrue
<1>8. PassIsSound'
  BY <1>1 DEF Types, Places, PassIsSound, VouchedFor, OldOrAudited
<1>9. CacheIsSound'
  BY DEF Types, CooldownTypeOK, RunType, Places, CacheIsSound, HitIsSound, VouchedFor, OldOrAudited
<1>. QED  BY <1>1, <1>2, <1>3, <1>4, <1>5, <1>6, <1>7, <1>8, <1>9

\* A run keeps the day it began on.
LEMMA ClockMovesIInv ==
  ASSUME IInv, ClockMoves
  PROVE  IInv'
<1> USE CooldownAssumption DEF IInv, Unverified, ClockMoves, tree, revisions, loop, counters
<1>1. Types'
  BY DEF Types, CooldownTypeOK, RunType, Modes, Policies
<1>2. Places'
  BY DEF Types, CooldownTypeOK, RunType, Places, Modes
<1>3. Dates'
  BY DEF Types, CooldownTypeOK, RunType, Places, Dates, Inherited, Entry, Modes
<1>4. Reads'
  BY DEF Types, CooldownTypeOK, RunType, Places, Reads, Modes
<1>5. Bases'
  BY DEF Types, CooldownTypeOK, RunType, Places, Bases, Entry, Modes
<1>6. Judgements'
  BY DEF Types, CooldownTypeOK, RunType, Places, Judgements, Quiet, Aged, Excused, Entry, Modes
<1>7. CacheTrue'
  BY DEF Types, CooldownTypeOK, RunType, Places, CacheTrue
<1>8. PassIsSound'
  BY <1>1 DEF Types, Places, PassIsSound, VouchedFor, OldOrAudited
<1>9. CacheIsSound'
  BY DEF Types, CooldownTypeOK, RunType, Places, CacheIsSound, HitIsSound, VouchedFor, OldOrAudited
<1>. QED  BY <1>1, <1>2, <1>3, <1>4, <1>5, <1>6, <1>7, <1>8, <1>9

LEMMA InitIInv == Init => IInv
<1> SUFFICES ASSUME Init PROVE IInv  OBVIOUS
<1>. USE CooldownAssumption DEF Init
<1>1. Types
  <2>1. db \in Databases
    BY DEF Databases, Entries
  <2>2. run \in RunType  BY Blank DEF RunType, Modes, NoRun
  <2>3. FirstDay \in FirstDay .. LastDay
    OBVIOUS
  <2>4. head \in [lock : Resolutions, db : Databases] /\ trusted = head
    BY <2>1
  <2>5. policy \in Policies /\ before \in Resolutions  BY DEF Policies
  <2>6. /\ pc = "idle" /\ online = FALSE /\ progress = FALSE /\ edited = FALSE /\ vouched = FALSE
        /\ seeded = {} /\ rewritten = {}
        /\ lock \in Resolutions /\ clock = FirstDay
    OBVIOUS
  <2>7. CooldownTypeOK
    BY ONLY <2>1, <2>2, <2>3, <2>4, <2>5, <2>6 DEF CooldownTypeOK, RunType
  <2>. QED  BY <2>2, <2>7 DEF Types
<1>2. \A p \in Packages : Entry(db, p) # "wrong"
  BY DEF Entry
<1>3. Places /\ Reads /\ Bases /\ Judgements /\ CacheTrue /\ PassIsSound /\ CacheIsSound
  BY <1>1 DEF Types, Places, Reads, Bases, Judgements, CacheTrue, PassIsSound, CacheIsSound, HitIsSound, NoRun
<1>4. Dates
  BY <1>2 DEF Dates, Inherited, NoRun
<1>. QED  BY <1>1, <1>3, <1>4 DEF IInv

LEMMA NextIInv == IInv /\ [Next]_vars => IInv'
<1> SUFFICES ASSUME IInv, [Next]_vars PROVE IInv'  OBVIOUS
<1>1. CASE UNCHANGED vars
  BY <1>1 DEF vars, tree, revisions, loop, counters, IInv, Types, CooldownTypeOK, RunType, Places, Dates,
     Inherited, Reads, Bases, Quiet, Aged, Excused, Judgements, CacheTrue, PassIsSound, CacheIsSound, HitIsSound,
     VouchedFor, Unverified, OldOrAudited
<1>2. CASE \E mode \in Modes, allBase \in BOOLEAN : Start(mode, allBase)
  BY <1>2, StartIInv
<1>3. CASE GateStep
  BY <1>3, SelectIInv, ReadDatabaseIInv, LookIInv, FailIInv, PassIInv, WriteDatabaseIInv, EndIInv,
     PlanRepairIInv, RollbackIInv, EndOfPassIInv, RollbackDoneIInv DEF GateStep
<1>4. CASE EditTree
  BY <1>4, BumpIInv, EditPolicyIInv, EditDatabaseIInv DEF EditTree
<1>5. CASE Commit
  BY <1>5, CommitIInv
<1>6. CASE ClockMoves
  BY <1>6, ClockMovesIInv
<1>. QED  BY <1>1, <1>2, <1>3, <1>4, <1>5, <1>6 DEF Next

THEOREM Inductive == Spec => []IInv
  BY InitIInv, NextIInv, PTL DEF Spec

\* A run that passes vouches for what it checked: every version that the diff
\* introduced, or that a full check found, is old enough by the registry's
\* dates or audited, whatever was recorded under a new key
\* (require_registry_publish_date).
THEOREM PassSound == Spec => []PassIsSound
<1>. IInv => PassIsSound  BY DEF IInv
<1>. QED  BY Inductive, PTL

\* A hit of the clean-pass cache (cache_matches) is as good as a check: what it
\* was saved for is old enough today.
THEOREM CacheSound == Spec => []CacheIsSound
<1>. IInv => CacheIsSound  BY DEF IInv
<1>. QED  BY Inductive, PTL

\* However many commits the hook lets through, a wrong date is never among the
\* entries of HEAD, but in a database that was adopted whole or under a key that
\* a base had (verify_new_db_entries).
THEOREM DatesTrue == Spec => []CommittedDatesTrue
<1>. IInv => CommittedDatesTrue
  BY DEF IInv, Dates, CommittedDatesTrue, Keys, Entry
<1>. QED  BY Inductive, PTL

-----------------------------------------------------------------------------
(***************************************************************************)
(* A gate that was started ends: every step leaves it less to do.          *)
(***************************************************************************)

\* The loops work through finite lists, a check of a repaired lockfile repairs
\* no more, and the rollback loop starts offline and without progress.
Bounded ==
  /\ pc = "rollback" => /\ IsFiniteSet(pending) /\ Cardinality(pending) <= Cardinality(Packages)
                        /\ todo \subseteq pending
                        /\ ~run.repaired
  /\ run.repaired => run.mode = "diff"
  /\ pc = "idle" \/ (pc \in {"select", "read", "dates"} /\ ~run.repaired) => ~online /\ ~progress

\* What changes neither the run nor its loops keeps them bounded.
LEMMA BoundedStill ==
  ASSUME IInv, Bounded, UNCHANGED <<pc, loop>>, run'.repaired = run.repaired, run'.mode = run.mode
  PROVE  Bounded'
BY DEF Bounded, loop

\* What the gate repairs is no more than there are versions.
LEMMA PlanBounded ==
  ASSUME IInv, PlanRepair, pc' = "rollback"
  PROVE  /\ IsFiniteSet(pending') /\ Cardinality(pending') \in Nat
         /\ pending' # {} /\ Cardinality(pending') # 0
         /\ Cardinality(pending') <= Cardinality(Packages)
         /\ todo' = pending'
         /\ run.mode = "fix"
<1> DEFINE plan(p) == [name |-> p.name, new |-> p, old |-> CHOOSE q \in PriorVersions(p) : TRUE]
           fresh == run.fresh
           f == [p \in fresh |-> plan(p)]
<1>1. pending' = {plan(p) : p \in fresh} /\ todo' = pending' /\ fresh # {} /\ run.mode = "fix"
  BY DEF PlanRepair, Refuses
<1>2. fresh \in SUBSET Packages
  BY DEF IInv, Types, RunType
<1> HIDE DEF plan, fresh
<1>3. IsFiniteSet(fresh) /\ Cardinality(fresh) <= Cardinality(Packages)
  BY <1>2, FiniteAssumption, FS_Subset
<1>4. f \in Surjection(fresh, pending')
  BY <1>1 DEF Surjection
<1> HIDE DEF f
<1>5. IsFiniteSet(pending') /\ Cardinality(pending') <= Cardinality(fresh)
  BY <1>3, <1>4, FS_Surjection
<1>6. pending' # {}
  BY <1>1
<1>7. /\ Cardinality(pending') \in Nat /\ Cardinality(fresh) \in Nat /\ Cardinality(Packages) \in Nat
      /\ Cardinality(pending') # 0
  BY <1>3, <1>5, <1>6, FiniteAssumption, FS_CardinalityType, FS_EmptySet
<1>8. QED
  BY <1>1, <1>3, <1>5, <1>6, <1>7

\* A repair that is made leaves one less.
LEMMA OneLess ==
  ASSUME NEW S, IsFiniteSet(S), NEW x \in S
  PROVE  /\ IsFiniteSet(S \ {x}) /\ Cardinality(S) \in Nat /\ Cardinality(S \ {x}) \in Nat
         /\ Cardinality(S) = Cardinality(S \ {x}) + 1
<1>1. IsFiniteSet(S \ {x}) /\ Cardinality(S \ {x}) = Cardinality(S) - 1
  BY FS_RemoveElement
<1>2. Cardinality(S) \in Nat /\ Cardinality(S \ {x}) \in Nat
  BY <1>1, FS_CardinalityType
<1>3. QED
  BY <1>1, <1>2

LEMMA BoundedStep == IInv /\ Bounded /\ [Next]_vars => Bounded'
<1> SUFFICES ASSUME IInv, Bounded, [Next]_vars PROVE Bounded'
  OBVIOUS
<1>1. run \in RunType
  BY DEF IInv, Types
<1>2. ASSUME NEW mode \in Modes, NEW allBase \in BOOLEAN, Start(mode, allBase) PROVE Bounded'
  <2>1. run'.repaired = FALSE /\ pc' \in {"passed", "select"} /\ UNCHANGED loop /\ pc = "idle"
    BY <1>2 DEF Start, NoRun
  <2>2. QED
    BY <2>1 DEF Bounded, loop
<1>3. CASE Select \/ ReadDatabase \/ Fail \/ Pass \/ WriteDatabase
  <2>1. /\ run'.repaired = run.repaired /\ run'.mode = run.mode
        /\ UNCHANGED <<pending, online, progress>>
        /\ pc' \in {"read", "failed", "dates", "write", "passed"} /\ pc \in {"select", "read", "dates", "write"}
        /\ pc' \in {"read", "dates"} => pc \in {"select", "read"}
    BY <1>1, <1>3 DEF Select, ReadDatabase, Fail, Pass, WriteDatabase, loop, RunType
  <2>2. QED
    BY <2>1 DEF Bounded
<1>4. CASE Look
  <2>1. Looked(run', NextLookup)
    BY <1>4, LookSound DEF IInv
  <2>2. run'.repaired = run.repaired /\ run'.mode = run.mode
    BY <1>1, <2>1 DEF Looked, RunType
  <2>3. UNCHANGED <<pc, pending, online, progress>> /\ pc = "dates"
    BY <1>4 DEF Look
  <2>4. QED
    BY <2>2, <2>3 DEF Bounded
<1>5. CASE End
  BY <1>5 DEF End, NoRun, Bounded
<1>6. CASE PlanRepair
  <2>1. pc' \in {"rollback", "failed"} /\ UNCHANGED <<run, online, progress>>
    BY <1>6 DEF PlanRepair
  <2>2. CASE pc' = "rollback"
    <3>1. run.mode = "fix" /\ IsFiniteSet(pending') /\ Cardinality(pending') <= Cardinality(Packages) /\ todo' = pending'
      BY <1>6, <2>2, PlanBounded
    <3>2. QED
      BY <2>1, <2>2, <3>1 DEF Bounded
  <2>3. QED
    BY <2>1, <2>2 DEF Bounded
<1>7. ASSUME NEW item \in todo, Rollback(item) PROVE Bounded'
  <2>1. /\ pc = "rollback" /\ pc' \in {"rollback", "failed"} /\ run' = run /\ todo' = todo \ {item}
        /\ pending' \in {pending, pending \ {item}}
    BY <1>7 DEF Rollback, Repaired
  <2>2. item \in pending /\ IsFiniteSet(pending) /\ Cardinality(pending) <= Cardinality(Packages) /\ todo \subseteq pending
    BY <1>7, <2>1 DEF Bounded
  <2>3. Cardinality(Packages) \in Nat
    BY FiniteAssumption, FS_CardinalityType
  <2>4. IsFiniteSet(pending') /\ Cardinality(pending') <= Cardinality(Packages)
    BY <2>1, <2>2, <2>3, OneLess
  <2>5. todo' \subseteq pending'
    BY <2>1, <2>2
  <2>6. QED
    BY <2>1, <2>4, <2>5 DEF Bounded
<1>8. CASE EndOfPass
  <2>1. pc = "rollback" /\ pc' \in {"rollback", "failed"} /\ UNCHANGED <<run, pending>> /\ todo' = pending
    BY <1>8 DEF EndOfPass, NextPass
  <2>2. QED
    BY <2>1 DEF Bounded
<1>9. CASE RollbackDone
  BY <1>9 DEF RollbackDone, Verify, NoRun, Bounded
<1>10. CASE EditTree
  BY <1>1, <1>10, BoundedStill DEF EditTree, Bump, Edited, RunType
<1>11. CASE Commit \/ ClockMoves \/ UNCHANGED vars
  BY <1>1, <1>11, BoundedStill DEF Commit, ClockMoves, vars
<1>12. ASSUME todo # {} PROVE InOrder(todo) \in todo
  BY <1>12 DEF InOrder
<1>13. CASE GateStep
  BY <1>3, <1>4, <1>5, <1>6, <1>7, <1>8, <1>9, <1>12, <1>13 DEF GateStep
<1>14. QED
  BY <1>2, <1>10, <1>11, <1>13 DEF Next

\* The parts of WorkLeft.
Size == Cardinality(Packages) + 1
Passes == IF progress THEN 3 ELSE IF online THEN 1 ELSE 2
Ahead == IF run.repaired THEN 0 ELSE 5 * Size * Size

WorkByPlace ==
  /\ pc = "idle" => WorkLeft = 0
  /\ pc \in {"passed", "failed"} => WorkLeft = 1
  /\ pc = "write" => WorkLeft = 2
  /\ pc = "dates" => WorkLeft = 3 + Cardinality(todo) + Ahead
  /\ pc = "read" => WorkLeft = 4 + Size + Ahead
  /\ pc = "select" => WorkLeft = 5 + Size + Ahead
  /\ pc = "rollback" => WorkLeft = 6 + Size + Cardinality(todo) + Size * (Passes + 4 * Cardinality(pending))

LEMMA WorkSplits == WorkByPlace /\ WorkByPlace'
BY DEF WorkByPlace, WorkLeft, Size, Passes, Ahead

\* Every list that the gate works through is finite.
LEMMA ListSizes ==
  ASSUME IInv, Bounded
  PROVE  /\ Cardinality(Packages) \in Nat /\ Size \in Nat /\ Size > Cardinality(Packages)
         /\ Ahead \in Nat /\ Passes \in 1 .. 3
         /\ pc \in {"dates", "rollback"} => IsFiniteSet(todo) /\ Cardinality(todo) \in Nat
         /\ pc = "dates" => Cardinality(todo) <= Cardinality(Packages)
         /\ pc = "rollback" =>
              /\ Cardinality(pending) \in Nat
              /\ Cardinality(todo) <= Cardinality(pending)
              /\ Cardinality(pending) <= Cardinality(Packages)
<1>1. Cardinality(Packages) \in Nat
  BY FiniteAssumption, FS_CardinalityType
<1>2. Size \in Nat /\ Size > Cardinality(Packages)
  BY <1>1 DEF Size
<1>3. Ahead \in Nat /\ Passes \in 1 .. 3
  BY <1>2 DEF Ahead, Passes
<1>4. ASSUME pc = "dates"
      PROVE  IsFiniteSet(todo) /\ Cardinality(todo) \in Nat /\ Cardinality(todo) <= Cardinality(Packages)
  <2>1. todo \in SUBSET Packages
    BY <1>4 DEF IInv, Types, RunType, Places
  <2>2. QED
    BY <2>1, FiniteAssumption, FS_Subset, FS_CardinalityType
<1>5. ASSUME pc = "rollback"
      PROVE  /\ IsFiniteSet(todo) /\ Cardinality(todo) \in Nat /\ Cardinality(pending) \in Nat
             /\ Cardinality(todo) <= Cardinality(pending) /\ Cardinality(pending) <= Cardinality(Packages)
  <2>1. IsFiniteSet(pending) /\ todo \in SUBSET pending /\ Cardinality(pending) <= Cardinality(Packages)
    BY <1>5 DEF Bounded
  <2>2. QED
    BY <2>1, FS_Subset, FS_CardinalityType
<1>6. QED
  BY <1>1, <1>2, <1>3, <1>4, <1>5

\* A repair plan is less work than was set aside for it.
LEMMA PlanIsLess ==
  ASSUME NEW n \in Nat, NEW k \in 1 .. n
  PROVE  6 + (n + 1) + k + (n + 1) * (2 + 4 * k) < 3 + 5 * (n + 1) * (n + 1)
<1>1. (n + 1) * (2 + 4 * k) <= (n + 1) * (2 + 4 * n)
  OBVIOUS
<1>2. (n + 1) * (2 + 4 * n) = 4 * (n * n) + 6 * n + 2 /\ 5 * (n + 1) * (n + 1) = 5 * (n * n) + 10 * n + 5
  OBVIOUS
<1>3. n * n \in Nat /\ n >= 1 /\ n * n >= n
  OBVIOUS
<1> DEFINE square == n * n
           times == (n + 1) * (2 + 4 * k)
<1> HIDE DEF square, times
<1>4. QED
  BY <1>1, <1>2, <1>3 DEF square, times

\* A repair that is made is worth four passes, and allows one more.
LEMMA RepairIsLess ==
  ASSUME NEW s \in Nat, NEW a \in Nat, NEW b \in 1 .. 3, NEW k \in Nat, s >= 1
  PROVE  s * (3 + 4 * k) < s * (b + 4 * (k + 1))
<1>1. s * (b + 4 * (k + 1)) = s * (3 + 4 * k) + s * (b + 1)
  OBVIOUS
<1>2. s * (b + 1) >= 1 /\ s * (b + 1) \in Nat /\ s * (3 + 4 * k) \in Nat
  OBVIOUS
<1>3. QED
  BY <1>1, <1>2

LEMMA StepLeavesLess ==
  IInv /\ Bounded /\ [Next]_vars /\ GateStep => WorkLeft' < WorkLeft
<1> SUFFICES ASSUME IInv, Bounded, [Next]_vars, GateStep PROVE WorkLeft' < WorkLeft
  OBVIOUS
<1>1. /\ IInv' /\ Bounded'
      /\ pc \in {"idle", "select", "read", "dates", "write", "rollback", "passed", "failed"}
      /\ run \in RunType /\ online \in BOOLEAN /\ progress \in BOOLEAN
  BY NextIInv, BoundedStep DEF IInv, Types, CooldownTypeOK
<1>2. /\ Size \in Nat /\ Size > Cardinality(Packages) /\ Cardinality(Packages) \in Nat /\ Size' = Size
      /\ Ahead \in Nat /\ Passes \in 1 .. 3
      /\ pc = "dates" => Cardinality(todo) \in Nat
      /\ pc = "rollback" => /\ IsFiniteSet(todo) /\ Cardinality(todo) \in Nat
                            /\ Cardinality(pending) \in Nat
  BY ListSizes DEF Size
<1>3. ASSUME pc \in {"select", "read", "dates", "write", "rollback"}, pc' \in {"passed", "failed"}
      PROVE  WorkLeft' < WorkLeft
  <2>1. WorkLeft' = 1
    BY <1>3, WorkSplits DEF WorkByPlace
  <2>2. CASE pc = "rollback"
    <3>1. Size * (Passes + 4 * Cardinality(pending)) \in Nat
      BY <1>2, <2>2
    <3>2. QED
      BY <1>2, <2>1, <2>2, <3>1, WorkSplits DEF WorkByPlace
  <2>3. CASE pc # "rollback"
    BY <1>2, <1>3, <2>1, <2>3, WorkSplits DEF WorkByPlace
  <2>4. QED
    BY <2>2, <2>3
<1>4. CASE Select
  <2>1. pc = "select" /\ pc' \in {"read", "failed"} /\ run'.repaired = run.repaired
    BY <1>1, <1>4 DEF Select, RunType
  <2>2. Ahead' = Ahead
    BY <1>2, <2>1 DEF Ahead
  <2>3. CASE pc' = "read"
    BY <1>2, <2>1, <2>2, <2>3, WorkSplits DEF WorkByPlace
  <2>4. QED
    BY <1>3, <2>1, <2>3
<1>5. CASE ReadDatabase
  <2>1. pc = "read" /\ pc' = "dates" /\ run'.repaired = run.repaired
    BY <1>1, <1>5 DEF ReadDatabase, RunType
  <2>2. Ahead' = Ahead
    BY <1>2, <2>1 DEF Ahead
  <2>3. Cardinality(todo') \in Nat /\ Cardinality(todo') <= Cardinality(Packages)
    <3>1. todo' \in SUBSET Packages
      BY <1>1, <2>1 DEF IInv, Types, RunType, Places
    <3>2. QED
      BY <3>1, FiniteAssumption, FS_Subset, FS_CardinalityType
  <2>4. QED
    BY <1>2, <2>1, <2>2, <2>3, WorkSplits DEF WorkByPlace
<1>6. CASE Look
  <2>1. pc = "dates" /\ pc' = "dates" /\ NextLookup \in todo /\ todo' = todo \ {NextLookup}
    BY <1>6, LookSound DEF Look, IInv
  <2>2. run'.repaired = run.repaired
    BY <1>1, <1>6, LookSound DEF IInv, Looked, RunType
  <2>3. Ahead' = Ahead
    BY <1>2, <2>2 DEF Ahead
  <2>4. Cardinality(todo) = Cardinality(todo') + 1 /\ Cardinality(todo') \in Nat
    BY <2>1, ListSizes, OneLess
  <2>5. QED
    BY <1>2, <2>1, <2>3, <2>4, WorkSplits DEF WorkByPlace
<1>7. CASE Fail \/ WriteDatabase
  BY <1>3, <1>7 DEF Fail, WriteDatabase
<1>8. CASE Pass
  <2>1. pc = "dates" /\ pc' \in {"write", "passed"}
    BY <1>8 DEF Pass
  <2>2. CASE pc' = "write"
    BY <1>2, <2>1, <2>2, WorkSplits DEF WorkByPlace
  <2>3. QED
    BY <1>3, <2>1, <2>2
<1>9. CASE End
  <2>1. pc \in {"passed", "failed"} /\ pc' = "idle"
    BY <1>9 DEF End
  <2>2. QED
    BY <2>1, WorkSplits DEF WorkByPlace
<1>10. CASE PlanRepair
  <2>1. pc = "dates" /\ pc' \in {"rollback", "failed"} /\ todo = {} /\ UNCHANGED <<run, online, progress>>
    BY <1>10 DEF PlanRepair
  <2>2. CASE pc' = "rollback"
    <3> DEFINE n == Cardinality(Packages)
               k == Cardinality(pending')
    <3>1. k \in Nat /\ k # 0 /\ k <= n /\ todo' = pending' /\ run.mode = "fix"
      BY <1>10, <2>2, PlanBounded
    <3>2. ~run.repaired /\ ~online /\ ~progress
      BY <2>1, <3>1 DEF Bounded
    <3>3. Passes' = 2 /\ Ahead = 5 * Size * Size /\ Cardinality(todo) = 0
      BY <2>1, <3>2, FS_EmptySet DEF Passes, Ahead
    <3>4. WorkLeft' = 6 + Size + k + Size * (2 + 4 * k) /\ WorkLeft = 3 + 5 * Size * Size
      BY <1>2, <2>1, <2>2, <3>1, <3>3, WorkSplits DEF WorkByPlace
    <3>5. k \in 1 .. n /\ n \in Nat /\ Size = n + 1
      BY <1>2, <3>1 DEF Size
    <3> HIDE DEF n, k
    <3>6. QED
      BY <3>4, <3>5, PlanIsLess
  <2>3. QED
    BY <1>3, <2>1, <2>2
<1>11. CASE todo # {} /\ Rollback(InOrder(todo))
  <2> DEFINE item == InOrder(todo)
             rest == Cardinality(todo')
             left == Cardinality(pending')
  <2>1. /\ item \in todo /\ pc = "rollback" /\ pc' \in {"rollback", "failed"}
        /\ todo' = todo \ {item} /\ online' = online
        /\ pc' = "rollback" => \/ UNCHANGED <<pending, progress>>
                               \/ pending' = pending \ {item} /\ progress' = TRUE
    BY <1>11 DEF Rollback, Repaired, InOrder
  <2> HIDE DEF item
  <2>2. Cardinality(todo) = rest + 1 /\ rest \in Nat
    BY <1>2, <2>1, OneLess
  <2>3. CASE pc' = "rollback" /\ UNCHANGED <<pending, progress>>
    <3>1. Passes' = Passes
      BY <2>1, <2>3 DEF Passes
    <3>2. Size * (Passes + 4 * Cardinality(pending)) \in Nat
      BY <1>2, <2>1
    <3>3. QED
      BY <1>2, <2>1, <2>2, <2>3, <3>1, <3>2, WorkSplits DEF WorkByPlace
  <2>4. CASE pc' = "rollback" /\ pending' = pending \ {item} /\ progress' = TRUE
    <3>1. Passes' = 3
      BY <2>4 DEF Passes
    <3>2. item \in pending /\ IsFiniteSet(pending)
      BY <2>1 DEF Bounded
    <3>3. Cardinality(pending) = left + 1 /\ left \in Nat
      BY <2>4, <3>2, OneLess
    <3> HIDE DEF rest, left
    <3>4. Size * (3 + 4 * left) < Size * (Passes + 4 * (left + 1))
      BY <1>2, <3>3, RepairIsLess
    <3>5. Size * (3 + 4 * left) \in Nat /\ Size * (Passes + 4 * (left + 1)) \in Nat
      BY <1>2, <3>3
    <3>6. /\ WorkLeft' = 6 + Size + rest + Size * (3 + 4 * left)
          /\ WorkLeft = 6 + Size + (rest + 1) + Size * (Passes + 4 * (left + 1))
      BY <1>2, <2>1, <2>2, <2>4, <3>1, <3>3, WorkSplits DEF WorkByPlace, rest, left
    <3>7. QED
      BY <1>2, <2>2, <3>4, <3>5, <3>6 DEF rest
  <2>5. QED
    BY <1>3, <2>1, <2>3, <2>4
<1>12. CASE EndOfPass
  <2> DEFINE k == Cardinality(pending)
  <2>1. /\ pc = "rollback" /\ todo = {} /\ todo' = pending /\ pending' = pending /\ progress' = FALSE
        /\ \/ pc' = "rollback" /\ (progress \/ ~online) /\ online' = (~progress /\ ~online)
           \/ pc' = "failed"
    BY <1>12 DEF EndOfPass, NextPass
  <2>2. CASE pc' = "rollback"
    <3>1. Passes = Passes' + 1 /\ Passes' \in Nat
      <4>1. ~progress' /\ (progress \/ ~online) /\ (online' <=> ~progress /\ ~online)
        BY <2>1, <2>2
      <4>2. QED
        BY <4>1 DEF Passes
    <3>2. k \in Nat /\ k < Size /\ Cardinality(todo) = 0
      BY <1>2, <2>1, ListSizes, FS_EmptySet
    <3>3. /\ WorkLeft' = 6 + Size + k + Size * (Passes' + 4 * k)
          /\ WorkLeft = 6 + Size + Size * (Passes' + 1 + 4 * k)
      BY <1>2, <2>1, <2>2, <3>1, <3>2, WorkSplits DEF WorkByPlace
    <3> DEFINE passes == Passes'
    <3>0. passes \in Nat
      BY <3>1
    <3> HIDE DEF k, passes
    <3>4. Size * (passes + 1 + 4 * k) = Size + Size * (passes + 4 * k) /\ Size * (passes + 4 * k) \in Nat
      BY <1>2, <3>2, <3>0
    <3>5. QED
      BY <1>2, <3>2, <3>3, <3>4 DEF passes
  <2>3. QED
    BY <1>3, <2>1, <2>2
<1>13. CASE RollbackDone
  <2>1. pc = "rollback" /\ (pc' = "failed" \/ (pc' = "select" /\ run'.repaired = TRUE))
    BY <1>13 DEF RollbackDone, Verify, NoRun
  <2>2. CASE pc' = "select"
    <3>1. Ahead' = 0 /\ Size * (Passes + 4 * Cardinality(pending)) \in Nat
      BY <1>2, <2>1, <2>2 DEF Ahead
    <3>2. QED
      BY <1>2, <2>1, <2>2, <3>1, WorkSplits DEF WorkByPlace
  <2>3. QED
    BY <1>3, <2>1, <2>2
<1>14. QED
  BY <1>4, <1>5, <1>6, <1>7, <1>8, <1>9, <1>10, <1>11, <1>12, <1>13 DEF GateStep

\* A gate that was started ends, however the registry and Cargo answer and for
\* every number of versions: no step leaves it as much to do as before, the
\* retries of the rollback loop (repair_online, progress) included.
THEOREM GatesEnd == Spec => GateEnds
<1>1. Init => Bounded
  BY DEF Init, Bounded, NoRun
<1>2. QED
  BY <1>1, Inductive, BoundedStep, StepLeavesLess, PTL DEF Spec, GateEnds
===============================================================================
