------------------------------- MODULE Cooldown -------------------------------
(***************************************************************************)
(* scripts/check-cargo-cooldown.sh: the gate that keeps crate versions     *)
(* younger than Days out of Cargo.lock, its publication-date database, its *)
(* clean-pass cache, and the repair of --fix.                              *)
(*                                                                         *)
(* The gate reads the work tree one file after another while an editor, or *)
(* Cargo, may change it.  "diff" is the commit hook, whose base is HEAD;   *)
(* "all" is --all --cache against the configured trusted base; "update" is *)
(* --update-db on every lockfile; "fix" is --fix --snapshot-dir.           *)
(*                                                                         *)
(* A version of a crate is a record; a lockfile is the set of versions it  *)
(* resolves.  A database entry is abstracted to whether its date is the    *)
(* registry's.  The gate tells new entries by their keys, so an entry that *)
(* the base has under the same key is trusted with whatever date the       *)
(* branch gave it: `rewritten` keeps the keys whose dates were.            *)
(***************************************************************************)
EXTENDS Naturals, FiniteSets

CONSTANTS
  Packages,     \* [name, version] records
  Published,    \* [Packages -> Nat], the day the registry names
  Foreign,      \* the packages of registries other than crates.io
  Resolutions,  \* the lockfiles Cargo may resolve
  Reverted,     \* versions a lockfile went back from, which HEAD's database may still date
  Touched,      \* the versions whose entries and exceptions are edited, a bound
  Days,         \* the cooldown
  FirstDay, LastDay,
  MaxEdits, MaxRuns,  \* bounds of the instance
  None          \* no database, no cache

Modes == {"diff", "all", "update", "fix"}
Entries == {"none", "right", "wrong"}
Databases == [Packages -> Entries] \cup {None}

ASSUME CooldownAssumption ==
  /\ Published \in [Packages -> Nat] /\ Foreign \subseteq Packages
  /\ Resolutions \subseteq SUBSET Packages /\ Touched \cup Reverted \subseteq Packages
  /\ {Days, FirstDay, LastDay, MaxEdits, MaxRuns} \subseteq Nat /\ FirstDay <= LastDay
  /\ None \notin [Packages -> Entries] \cup [lock : Resolutions, db : Databases]

\* A lockfile's history names finitely many versions.
ASSUME FiniteAssumption == IsFiniteSet(Packages)

Policies == [allow : SUBSET Packages, audits : SUBSET Packages]

VARIABLES
  lock, db, policy,  \* the work tree: Cargo.lock, crate-dates.json, Cargo.toml and audits.toml
  head, trusted,     \* the lockfile and database of HEAD and of the trusted base
  before,            \* the wrapper's snapshot of the lockfile
  clock,
  cache,             \* the clean-pass cache
  pc,
  run,               \* what the running gate holds
  pending,           \* its repairs, [name, new, old], still to be made
  todo,              \* the versions, or repairs, its current loop has not reached
  online, progress,  \* repair_online, progress
  edited,            \* history: the tree was edited while the gate ran
  cacheRaced,        \* history: what the run that saved the cache read was not what it hashed
  vouched,           \* history: the commit hook has passed on this tree
  seeded,            \* history: entries of a database first adopted, taken as reviewed
  rewritten,         \* history: entries a base has, whose dates were edited
  edits, runs        \* how many edits and runs there were

tree == <<lock, db, policy>>
revisions == <<head, trusted, before, seeded, rewritten>>
loop == <<pending, todo, online, progress>>
counters == <<edits, runs>>
vars == <<tree, revisions, clock, cache, pc, run, loop, edited, cacheRaced, vouched, counters>>

Keys(d) == IF d = None THEN {} ELSE {p \in Packages : d[p] # "none"}
Entry(d, p) == IF d = None THEN "none" ELSE d[p]
DateOf(p, entry) == IF entry = "right" THEN Published[p] ELSE 0
NoRun == [mode |-> "diff", allBase |-> FALSE, at |-> 0, fingerprint |-> None, candidates |-> {},
          recorded |-> None, newKeys |-> {}, resolved |-> [p \in Packages |-> "none"],
          problem |-> FALSE, fresh |-> {}, hit |-> FALSE, repaired |-> FALSE,
          raced |-> FALSE]

CooldownTypeOK ==
  /\ lock \in Resolutions /\ db \in Databases /\ policy \in Policies
  /\ {head, trusted} \subseteq [lock : Resolutions, db : Databases]
  /\ before \in Resolutions /\ clock \in FirstDay .. LastDay
  /\ pc \in {"idle", "select", "read", "dates", "write", "rollback", "passed", "failed"}
  /\ run.mode \in Modes /\ run.recorded \in Databases
  /\ run.candidates \cup run.fresh \cup run.newKeys \cup seeded \cup rewritten \subseteq Packages
  /\ {run.allBase, run.problem, run.hit, run.repaired, run.raced, online, progress, edited, vouched} \subseteq BOOLEAN

Init ==
  /\ lock \in Resolutions /\ lock \cap Foreign = {} /\ before = lock
  /\ policy = [allow |-> {}, audits |-> {}]
  /\ db \in {None} \cup {[p \in Packages |-> IF p \in lock \cup old THEN "right" ELSE "none"] :
                       old \in SUBSET Reverted}
  /\ head = [lock |-> lock, db |-> db] /\ trusted = head
  /\ clock = FirstDay /\ \A p \in lock : Published[p] + Days <= clock
  /\ cache = None /\ pc = "idle" /\ run = NoRun
  /\ pending = {} /\ todo = {} /\ online = FALSE /\ progress = FALSE
  /\ edited = FALSE /\ cacheRaced = FALSE /\ vouched = FALSE
  /\ seeded = {} /\ rewritten = {}
  /\ edits = 0 /\ runs = 0

-----------------------------------------------------------------------------
(* A check.                                                                *)

\* cache_fingerprint: the inputs' digests and, against a base, its blobs.
Fingerprint(allBase) == <<lock, db, policy, IF allBase THEN trusted ELSE None>>

\* A cache saved by a clock ahead of this one does not count.
CacheMatches(fingerprint) ==
  /\ cache # None
  /\ cache.fingerprint = fingerprint /\ cache.at <= clock

\* A shallow checkout lacks the trusted base: allBase is FALSE.
Start(mode, allBase) ==
  /\ pc = "idle" /\ runs < MaxRuns
  /\ allBase => mode = "all"
  /\ LET hit == mode = "all" /\ CacheMatches(Fingerprint(allBase)) IN
       /\ pc' = IF hit THEN "passed" ELSE "select"
       /\ run' = [NoRun EXCEPT !.mode = mode, !.allBase = allBase, !.at = clock, !.hit = hit,
                               !.fingerprint = IF mode = "all" THEN Fingerprint(allBase) ELSE None]
  /\ runs' = runs + 1
  /\ edited' = FALSE
  /\ UNCHANGED <<tree, revisions, clock, cache, loop, cacheRaced, vouched, edits>>

\* The revision the diff, and the new entries of the database, are against.
Base == IF run.mode = "all" THEN trusted ELSE head

Candidates ==
  IF run.mode \in {"all", "update"} THEN lock
  ELSE (lock \ Base.lock) \cup (IF run.mode = "fix" THEN lock \ before ELSE {})

Select ==
  /\ pc = "select"
  /\ run' = [run EXCEPT !.candidates = Candidates]
  /\ pc' = IF Candidates \cap Foreign # {} THEN "failed" ELSE "read"
  /\ UNCHANGED <<tree, revisions, clock, cache, loop, edited, cacheRaced, vouched, counters>>

Introduced == IF run.mode = "all" THEN run.candidates \ Base.lock ELSE run.candidates

NewDbKeys_OfCandidates ==
  IF run.mode = "update" \/ (run.mode = "all" /\ ~run.allBase) THEN {}
  ELSE (Keys(db) \ Keys(Base.db)) \cap run.candidates

\* new_db_keys: the recorded dates that are not trusted yet.
NewDbKeys ==
  IF run.mode = "update" \/ (run.mode = "all" /\ ~run.allBase) THEN {}
  ELSE IF Base.db # None THEN Keys(db) \ Keys(Base.db)
  ELSE Keys(db) \cap Introduced

ReadDatabase ==
  /\ pc = "read"
  /\ run' = [run EXCEPT !.recorded = db, !.newKeys = NewDbKeys]
  /\ todo' = run.candidates \cup NewDbKeys
  /\ pc' = "dates"
  /\ UNCHANGED <<tree, revisions, clock, cache, pending, online, progress, edited, cacheRaced, vouched, counters>>

\* The verdict on a candidate whose date is known: old enough, an audited
\* exception, an exception without audit, or fresh.
Judged(r, p, entry) ==
  LET young == DateOf(p, entry) + Days > r.at
  IN [r EXCEPT !.resolved[p] = entry,
               !.problem = @ \/ (young /\ p \in policy.allow /\ p \notin policy.audits),
               !.fresh = IF young /\ p \notin policy.allow THEN @ \cup {p} ELSE @]

\* fetch_published fails, or names no date.
Failed(r) == [r EXCEPT !.problem = TRUE]

\* A recorded date that is not new is trusted; any other version is looked up,
\* and a new entry must agree with the answer.
LookUp(p) ==
  LET entry == Entry(run.recorded, p) IN
    IF entry # "none" /\ p \notin run.newKeys
    THEN run' = Judged(run, p, entry)
    ELSE \/ run' = Failed(run)
         \/ LET looked == [run EXCEPT !.problem = @ \/ entry = "wrong"]
            IN run' = IF p \in run.candidates THEN Judged(looked, p, "right") ELSE looked

\* The lists are sorted, and new entries that are no candidates come first.
InOrder(set) == CHOOSE x \in set : TRUE
NextLookup == InOrder(IF todo \subseteq run.candidates THEN todo ELSE todo \ run.candidates)

\* One turn of verify_new_db_entries or of the loop over the candidates.
Look ==
  /\ pc = "dates" /\ todo # {}
  /\ LookUp(NextLookup)
  /\ todo' = todo \ {NextLookup}
  /\ UNCHANGED <<tree, revisions, clock, cache, pc, pending, online, progress,
                 edited, cacheRaced, vouched, counters>>

Refuses == run.problem \/ (run.mode # "fix" /\ run.fresh # {})

\* Of a clean check, save_cache or validate_lock_manifests may still fail.
Stumbles == run.fresh = {} /\ run.mode \in {"all", "fix"}

Fail ==
  /\ pc = "dates" /\ todo = {} /\ (Refuses \/ Stumbles)
  /\ pc' = "failed"
  /\ UNCHANGED <<tree, revisions, clock, cache, run, loop, edited, cacheRaced, vouched, counters>>

SaveCache_Refreshed == cache' = [fingerprint |-> Fingerprint(run.allBase), at |-> run.at]

\* save_cache: the fingerprint and the time are those of the start.
SaveCache == cache' = [fingerprint |-> run.fingerprint, at |-> run.at]

Pass ==
  /\ pc = "dates" /\ todo = {} /\ ~Refuses /\ run.fresh = {}
  /\ pc' = IF run.mode = "update" THEN "write" ELSE "passed"
  /\ IF run.mode = "all" THEN SaveCache /\ cacheRaced' = run.raced ELSE UNCHANGED <<cache, cacheRaced>>
  /\ vouched' = (vouched \/ (run.mode = "diff" /\ ~edited))
  /\ UNCHANGED <<tree, revisions, clock, run, loop, edited, counters>>

\* write_database on the full scope: what was resolved replaces what was there.
WriteDatabase ==
  /\ pc = "write"
  /\ \/ pc' = "passed" /\ db' = run.resolved
     \/ pc' = "failed" /\ UNCHANGED db
  /\ vouched' = (vouched /\ db' = db)
  /\ UNCHANGED <<lock, policy, revisions, clock, cache, run, loop, edited, cacheRaced, counters>>

End ==
  /\ pc \in {"passed", "failed"}
  /\ pc' = "idle" /\ run' = NoRun
  /\ pending' = {} /\ todo' = {} /\ online' = FALSE /\ progress' = FALSE /\ edited' = FALSE
  /\ UNCHANGED <<tree, revisions, clock, cache, cacheRaced, vouched, counters>>

-----------------------------------------------------------------------------
(* --fix.                                                                  *)

VersionsOf(l, name) == {p \in l : p.name = name}

\* What a fresh version may have replaced: versions_removed_from_base or
\* versions_removed_from_lock.
PriorVersions(p) == VersionsOf(IF p \in before THEN Base.lock ELSE before, p.name) \ lock

FreshTogether(p) == VersionsOf(run.fresh \cap run.candidates, p.name)

Repairable == \A p \in run.fresh : Cardinality(FreshTogether(p)) = 1 /\ Cardinality(PriorVersions(p)) = 1

PlanRepair ==
  /\ pc = "dates" /\ todo = {} /\ ~Refuses /\ run.fresh # {}
  /\ IF Repairable
     THEN /\ pc' = "rollback"
          /\ pending' = {[name |-> p.name, new |-> p, old |-> CHOOSE q \in PriorVersions(p) : TRUE] : p \in run.fresh}
          /\ todo' = pending'
     ELSE pc' = "failed" /\ UNCHANGED <<pending, todo>>
  /\ UNCHANGED <<tree, revisions, clock, cache, run, online, progress, edited, cacheRaced, vouched, counters>>

Repaired(item) ==
  /\ pending' = pending \ {item}
  /\ progress' = TRUE

\* What cargo update --precise may leave: the old version instead of the new
\* one, and whatever the resolver changed with it.
CargoResults(item) == {l \in Resolutions : item.old \in l /\ item.new \notin l}

\* One turn of the rollback loop.
Rollback(item) ==
  /\ pc = "rollback"
  /\ todo' = todo \ {item}
  /\ IF item.new \notin lock
     THEN /\ IF item.old \in lock THEN Repaired(item) /\ UNCHANGED pc
             ELSE pc' = "failed" /\ UNCHANGED <<pending, progress>>
          /\ UNCHANGED <<lock, vouched>>
     ELSE \/ \E l \in CargoResults(item) : lock' = l /\ vouched' = FALSE /\ Repaired(item) /\ UNCHANGED pc
          \/ \E l \in Resolutions \ CargoResults(item) :
               lock' = l /\ vouched' = FALSE /\ pc' = "failed" /\ UNCHANGED <<pending, progress>>
          \/ UNCHANGED <<lock, vouched, pc, pending, progress>>
  /\ UNCHANGED <<db, policy, revisions, clock, cache, run, online, edited, cacheRaced, counters>>

NextPass_KeepsTrying ==
  /\ online' = (~progress /\ ~online)
  /\ UNCHANGED pc

\* The end of a pass that left something: a pass without progress is repeated
\* with network access, or is the last; progress goes back offline.
NextPass ==
  IF progress \/ ~online THEN online' = (~progress /\ ~online) /\ UNCHANGED pc
  ELSE pc' = "failed" /\ UNCHANGED online

EndOfPass ==
  /\ pc = "rollback" /\ todo = {} /\ pending # {}
  /\ NextPass
  /\ todo' = pending /\ progress' = FALSE
  /\ UNCHANGED <<tree, revisions, clock, cache, run, pending, edited, cacheRaced, vouched, counters>>

Verify_Omitted ==
  /\ pc' = "passed"
  /\ UNCHANGED <<run, edited>>

\* The script runs itself as a plain check of the repaired lockfiles.
Verify ==
  /\ pc' = "select"
  /\ run' = [NoRun EXCEPT !.at = clock, !.repaired = TRUE]
  /\ edited' = FALSE

\* validate_lock_manifests comes first, and may fail.
RollbackDone ==
  /\ pc = "rollback" /\ todo = {} /\ pending = {}
  /\ Verify \/ (pc' = "failed" /\ UNCHANGED <<run, edited>>)
  /\ UNCHANGED <<tree, revisions, clock, cache, loop, cacheRaced, vouched, counters>>

GateStep ==
  \/ Select \/ ReadDatabase \/ Look \/ Fail \/ Pass \/ WriteDatabase \/ End
  \/ PlanRepair \/ EndOfPass \/ RollbackDone
  \/ todo # {} /\ Rollback(InOrder(todo))

-----------------------------------------------------------------------------
(* The work tree, the clock and commits.                                   *)

\* An edit of a file that a full check has hashed, and not yet read, is a race.
Edited(unread) ==
  /\ pc \notin {"passed", "failed"}
  /\ edits < MaxEdits /\ edits' = edits + 1
  /\ edited' = (pc # "idle")
  /\ run' = [run EXCEPT !.raced = @ \/ (run.mode = "all" /\ pc \in unread)]
  /\ vouched' = FALSE
  /\ UNCHANGED <<head, trusted, seeded, clock, cache, pc, loop, cacheRaced, runs>>

\* cargo update in the update transaction, which keeps a snapshot.
Bump == Edited({"select"}) /\ before' = lock /\ lock' \in Resolutions \ {lock}
        /\ UNCHANGED <<db, policy, rewritten>>

\* An exception is made or withdrawn, with its audit or without.
EditPolicy ==
  \E allow \in {{}} \cup {{p} : p \in Touched} : \E audits \in {{}, allow} :
    policy' = [allow |-> allow, audits |-> audits]

\* An entry is removed, or a wrong date is written, under a new key or under one
\* that a base has; right dates come from --update-db.
EditDatabase ==
  \E p \in Touched : \E entry \in {"none", "wrong"} \ {Entry(db, p)} :
    /\ db' = [q \in Packages |-> IF q = p THEN entry ELSE Entry(db, q)]
    /\ rewritten' = IF entry = "wrong" /\ p \in Keys(head.db) \cup Keys(trusted.db)
                    THEN rewritten \cup {p} ELSE rewritten

EditTree ==
  \/ Bump
  \/ Edited({"select", "read", "dates"}) /\ EditPolicy /\ policy' # policy
     /\ UNCHANGED <<lock, db, before, rewritten>>
  \/ Edited({"select", "read"}) /\ EditDatabase /\ UNCHANGED <<lock, policy, before>>

\* The hook lets a commit through.  A database HEAD did not have is a seed:
\* its entries for versions the commit does not introduce count as reviewed.
Commit ==
  /\ pc = "idle" /\ vouched /\ <<lock, db>> # <<head.lock, head.db>>
  /\ head' = [lock |-> lock, db |-> db]
  /\ seeded' = IF head.db = None THEN Keys(db) \ (lock \ head.lock) ELSE seeded
  /\ UNCHANGED <<tree, trusted, before, rewritten, clock, cache, pc, run, loop, edited, cacheRaced,
                 vouched, counters>>

\* Time passes, or the clock is set.  A gate reads it at its start only.
ClockMoves ==
  /\ pc \in {"idle", "rollback"}
  /\ clock' \in (FirstDay .. LastDay) \ {clock}
  /\ UNCHANGED <<tree, revisions, cache, pc, run, loop, edited, cacheRaced, vouched, counters>>

Next ==
  \/ \E mode \in Modes, allBase \in BOOLEAN : Start(mode, allBase)
  \/ GateStep
  \/ EditTree \/ Commit \/ ClockMoves

Spec == Init /\ [][Next]_vars

-----------------------------------------------------------------------------
(* Properties.                                                             *)

\* The entries whose dates the gate never looks up: those of a database adopted
\* whole, and those of a base.
Unverified == seeded \cup rewritten

\* The versions a verdict vouches for: what the diff introduced or, in a full
\* check against a base, every version of the lockfile, but those with such an
\* entry.  A shallow checkout trusts recorded dates.
VouchedFor ==
  CASE run.mode \in {"diff", "fix"} -> lock \ (head.lock \cup Unverified)
    [] run.mode = "all" /\ run.allBase /\ trusted.db # None -> lock \ Unverified
    [] run.mode = "all" /\ run.allBase -> lock \ (trusted.lock \cup Unverified)
    [] OTHER -> {}

OldOrAudited(p) ==
  p \notin Foreign /\ (Published[p] + Days <= run.at \/ p \in policy.allow \cap policy.audits)

\* "Exits 0 when every bumped crate is old enough, or allowed with a matching
\* audit" (the header): by the registry's dates and not by those the branch
\* recorded under a key that the base does not have; a repair that completes has
\* passed the same check.
PassIsSound ==
  /\ CooldownTypeOK
  /\ pc = "passed" /\ ~run.hit /\ ~edited => \A p \in VouchedFor : OldOrAudited(p)

\* "stores a successful full check for identical locks, policy, audits, database,
\* script, and trusted-base content" (the header): a cache hit stands for a full
\* check that would pass now.
HitIsSound == pc = "passed" /\ run.hit /\ ~edited => \A p \in VouchedFor : OldOrAudited(p)

\* The same of a cache that was not saved by a run under which a file was edited
\* between its hash and its reading; against edits that come later the code
\* does guard.
CacheIsSound == ~cacheRaced => HitIsSound

\* "a branch cannot vouch for dates it adds" (the header): over any number of
\* commits the hook lets through, a wrong date never reaches a commit, except
\* in a database that is adopted whole or under a key that a base had already.
CommittedDatesTrue ==
  \A p \in Keys(head.db) : head.db[p] = "wrong" => p \in Unverified

\* What a started gate has left to do at most: a pass of the rollback loop that
\* changed nothing has one more pass, with network access, and then none.
WorkLeft ==
  LET size == Cardinality(Packages) + 1
      passes == IF progress THEN 3 ELSE IF online THEN 1 ELSE 2
      first == IF run.repaired THEN 0 ELSE 5 * size * size
  IN CASE pc = "idle" -> 0
       [] pc \in {"passed", "failed"} -> 1
       [] pc = "write" -> 2
       [] pc = "dates" -> 3 + Cardinality(todo) + first
       [] pc = "read" -> 4 + size + first
       [] pc = "select" -> 5 + size + first
       [] pc = "rollback" -> 6 + size + Cardinality(todo)
                             + size * (passes + 4 * Cardinality(pending))

\* A gate that was started ends, however the registry and Cargo answer: each of
\* its steps leaves it less to do, the retries of the rollback loop included.
GateEnds == [][GateStep => WorkLeft' < WorkLeft]_vars
==============================================================================
