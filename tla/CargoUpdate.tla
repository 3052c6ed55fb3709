----------------------------- MODULE CargoUpdate -----------------------------
(***************************************************************************)
(* scripts/update-cargo-dependencies.bash: the update transaction.  It     *)
(* takes a directory as its lock, copies the lockfiles aside, lets child   *)
(* processes update, repair and record, and on any exit other than success *)
(* puts the copies back from its EXIT trap.                                *)
(*                                                                         *)
(* The children (cargo update, check-cargo-cooldown.sh) are processes of   *)
(* their own: the shell waits for one at a time, but a SIGTERM sent to the *)
(* shell alone runs the trap at once and leaves the child running.  What a *)
(* child computes is abstracted to which files it has written.  A          *)
(* lockfile's content is Base or <<the updater that wrote it, its step>>.  *)
(***************************************************************************)
EXTENDS Naturals, FiniteSets

CONSTANTS
  Updaters,    \* invocations of the script
  Locks,       \* the tracked Cargo.lock files
  LocksOf,     \* [Updaters -> SUBSET Locks], the --lock selection
  ExplicitOf,  \* [Updaters -> BOOLEAN], whether --lock was given
  Faults,      \* which of the faults below occur
  Base, Free, NoChild, NoCopy

ASSUME UpdateAssumption ==
  /\ LocksOf \in [Updaters -> (SUBSET Locks) \ {{}}]
  /\ ExplicitOf \in [Updaters -> BOOLEAN]
  /\ \A u \in Updaters : ~ExplicitOf[u] => LocksOf[u] = Locks
  /\ Faults \subseteq {"fail", "rmdir", "interrupt", "terminate", "kill"}
  /\ Free \notin Updaters

Jobs == {"update", "repair", "record"}

ASSUME ChildAssumption == NoChild \notin [job : Jobs, locks : SUBSET Locks]

Contents == {Base} \cup (Updaters \X {"update", "repair"})

VARIABLES
  pc,               \* where each updater is
  todo,             \* the lockfiles its current loop has not reached
  child,            \* the child it started, which may outlive it
  snapshot,         \* its copies of the lockfiles
  restoreRequired,  \* its restore_required
  restoreFailed,    \* its restore_status is not 0
  status,           \* the exit status so far
  result,           \* how it ended
  held,             \* the transaction lock directory: who made it
  lockfile,         \* the lockfiles of the work tree
  db,               \* for each lock, the contents whose versions are recorded
  trouble           \* history: the signals sent, and whether an rmdir failed

shellVars == <<todo, snapshot, restoreRequired, restoreFailed>>
fileVars == <<held, lockfile, db, trouble>>
vars == <<pc, child, status, result, shellVars, fileVars>>

Trapped == {"snapshot", "update", "repair", "record", "commit"}
Cleaning == {"cleanup", "restore", "release"}

\* Every variable keeps its type: a lockfile always holds a lockfile's content,
\* so a restore never uses a copy that was not made.
TypeOK ==
  /\ pc \in [Updaters -> {"start", "locked", "exited", "killed"} \cup Trapped \cup Cleaning]
  /\ todo \in [Updaters -> SUBSET Locks]
  /\ child \in [Updaters -> [job: Jobs, locks: SUBSET Locks] \cup {NoChild}]
  /\ snapshot \in [Updaters -> [Locks -> Contents \cup {NoCopy}]]
  /\ restoreRequired \in [Updaters -> BOOLEAN]
  /\ restoreFailed \in [Updaters -> BOOLEAN]
  /\ status \in [Updaters -> {"ok", "fail"}]
  /\ result \in [Updaters -> {"none", "ok", "fail"}]
  /\ held \in Updaters \cup {Free}
  /\ lockfile \in [Locks -> Contents]
  /\ db \in [Locks -> SUBSET Contents]
  /\ trouble \subseteq {"interrupt", "terminate", "rmdir"}

Init ==
  /\ pc = [u \in Updaters |-> "start"]
  /\ todo = [u \in Updaters |-> {}]
  /\ child = [u \in Updaters |-> NoChild]
  /\ snapshot = [u \in Updaters |-> [l \in Locks |-> NoCopy]]
  /\ restoreRequired = [u \in Updaters |-> FALSE]
  /\ restoreFailed = [u \in Updaters |-> FALSE]
  /\ status = [u \in Updaters |-> "ok"]
  /\ result = [u \in Updaters |-> "none"]
  /\ held = Free
  /\ lockfile = [l \in Locks |-> Base]
  /\ db = [l \in Locks |-> {Base}]
  /\ trouble = {}

Goto(u, from, to) ==
  /\ pc[u] = from
  /\ pc' = [pc EXCEPT ![u] = to]

Exit(u, res) ==
  /\ pc' = [pc EXCEPT ![u] = "exited"]
  /\ result' = [result EXCEPT ![u] = res]

Fails(u) ==
  /\ status' = [status EXCEPT ![u] = "fail"]
  /\ pc' = [pc EXCEPT ![u] = "cleanup"]

-----------------------------------------------------------------------------
(* The script, up to its last line.                                        *)

\* mkdir succeeds for one updater.
Lock(u) ==
  /\ held = Free
  /\ Goto(u, "start", "locked")
  /\ held' = u
  /\ UNCHANGED <<child, status, result, shellVars, lockfile, db, trouble>>

Refuse_TrapFirst(u) ==
  /\ held # Free /\ pc[u] = "start" /\ Fails(u)
  /\ UNCHANGED <<child, result, shellVars, fileVars>>

\* mkdir fails: the updater returns 2, before it has set its trap.
Refuse(u) ==
  /\ held # Free /\ pc[u] = "start" /\ Exit(u, "fail")
  /\ UNCHANGED <<child, status, shellVars, fileVars>>

SetTrap(u) ==
  /\ Goto(u, "locked", "snapshot")
  /\ todo' = [todo EXCEPT ![u] = LocksOf[u]]
  /\ UNCHANGED <<child, status, result, snapshot, restoreRequired, restoreFailed, fileVars>>

Copy(u, l) ==
  /\ pc[u] = "snapshot" /\ l \in todo[u]
  /\ snapshot' = [snapshot EXCEPT ![u][l] = lockfile[l]]
  /\ todo' = [todo EXCEPT ![u] = @ \ {l}]
  /\ UNCHANGED <<pc, child, status, result, restoreRequired, restoreFailed, fileVars>>

CopyFails_NoTrap(u) ==
  /\ "fail" \in Faults /\ pc[u] = "snapshot" /\ todo[u] # {}
  /\ Exit(u, "fail")
  /\ UNCHANGED <<child, status, shellVars, fileVars>>

\* mktemp, mkdir or cp fails under set -e.
CopyFails(u) ==
  /\ "fail" \in Faults /\ pc[u] = "snapshot" /\ todo[u] # {}
  /\ Fails(u)
  /\ UNCHANGED <<child, result, shellVars, fileVars>>

Copied_NotRequired(u) ==
  /\ todo[u] = {}
  /\ Goto(u, "snapshot", "update")
  /\ todo' = [todo EXCEPT ![u] = LocksOf[u]]
  /\ UNCHANGED <<child, status, result, snapshot, restoreRequired, restoreFailed, fileVars>>

\* Every copy is made: from here on an exit restores.
Copied(u) ==
  /\ todo[u] = {}
  /\ Goto(u, "snapshot", "update")
  /\ todo' = [todo EXCEPT ![u] = LocksOf[u]]
  /\ restoreRequired' = [restoreRequired EXCEPT ![u] = TRUE]
  /\ UNCHANGED <<child, status, result, snapshot, restoreFailed, fileVars>>

Spawn(u, job, locks) == child' = [child EXCEPT ![u] = [job |-> job, locks |-> locks]]

\* cargo update for one lock at a time.
RunUpdate(u, l) ==
  /\ pc[u] = "update" /\ child[u] = NoChild /\ l \in todo[u]
  /\ Spawn(u, "update", {l})
  /\ todo' = [todo EXCEPT ![u] = @ \ {l}]
  /\ UNCHANGED <<pc, status, result, snapshot, restoreRequired, restoreFailed, fileVars>>

Updated(u) ==
  /\ child[u] = NoChild /\ todo[u] = {}
  /\ Goto(u, "update", "repair")
  /\ UNCHANGED <<child, status, result, shellVars, fileVars>>

\* check-cargo-cooldown.sh --fix, then --update-db.
RunRepair(u) ==
  /\ pc[u] = "repair" /\ child[u] = NoChild
  /\ Spawn(u, "repair", LocksOf[u])
  /\ UNCHANGED <<pc, status, result, shellVars, fileVars>>

RunRecord(u) ==
  /\ pc[u] = "record" /\ child[u] = NoChild
  /\ Spawn(u, "record", LocksOf[u])
  /\ UNCHANGED <<pc, status, result, shellVars, fileVars>>

\* The transaction is complete; the exit that follows restores nothing.
Commit(u) ==
  /\ Goto(u, "commit", "cleanup")
  /\ restoreRequired' = [restoreRequired EXCEPT ![u] = FALSE]
  /\ UNCHANGED <<child, status, result, todo, snapshot, restoreFailed, fileVars>>

-----------------------------------------------------------------------------
(* The child.                                                              *)

Running(u, job) == child[u] # NoChild /\ child[u].job = job

\* cargo rewrites a lockfile, or finds nothing to change and does not.
ChildWrites(u, l) ==
  /\ Running(u, "update") \/ Running(u, "repair")
  /\ l \in child[u].locks
  /\ child' = [child EXCEPT ![u].locks = @ \ {l}]
  /\ lockfile' = [lockfile EXCEPT ![l] = <<u, child[u].job>>]
  /\ UNCHANGED <<pc, status, result, shellVars, held, db, trouble>>

ChildRecords_Prunes(u) ==
  /\ Running(u, "record") /\ child[u].locks # {}
  /\ child' = [child EXCEPT ![u].locks = {}]
  /\ db' = [l \in Locks |-> IF l \in LocksOf[u] THEN {lockfile[l]} ELSE {}]
  /\ UNCHANGED <<pc, status, result, shellVars, held, lockfile, trouble>>

\* write_database: a selection is merged, the full scope replaces what was there.
ChildRecords(u) ==
  /\ Running(u, "record") /\ child[u].locks # {}
  /\ child' = [child EXCEPT ![u].locks = {}]
  /\ db' = [l \in Locks |-> {lockfile[k] : k \in LocksOf[u] \cap {l}}
                            \cup (IF ExplicitOf[u] THEN db[l] ELSE {})]
  /\ UNCHANGED <<pc, status, result, shellVars, held, lockfile, trouble>>

\* The next step of a shell whose child has succeeded.
AfterJob == [update |-> "update", repair |-> "record", record |-> "commit"]

ChildSucceeds(u) ==
  /\ child[u] # NoChild
  /\ Running(u, "record") => child[u].locks = {}
  /\ child' = [child EXCEPT ![u] = NoChild]
  /\ pc' = [pc EXCEPT ![u] = IF @ = child[u].job THEN AfterJob[@] ELSE @]
  /\ UNCHANGED <<status, result, shellVars, fileVars>>

\* The recording fails before it has replaced the database; the others may
\* have written some of the lockfiles.
ChildFails(u) ==
  /\ "fail" \in Faults /\ child[u] # NoChild
  /\ Running(u, "record") => child[u].locks # {}
  /\ child' = [child EXCEPT ![u] = NoChild]
  /\ IF pc[u] = child[u].job THEN Fails(u) ELSE UNCHANGED <<pc, status>>
  /\ UNCHANGED <<result, shellVars, fileVars>>

-----------------------------------------------------------------------------
(* The EXIT trap.                                                          *)

Cleanup(u) ==
  /\ pc[u] = "cleanup"
  /\ pc' = [pc EXCEPT ![u] = IF restoreRequired[u] THEN "restore" ELSE "release"]
  /\ todo' = [todo EXCEPT ![u] = IF restoreRequired[u] THEN LocksOf[u] ELSE {}]
  /\ UNCHANGED <<child, status, result, snapshot, restoreRequired, restoreFailed, fileVars>>

\* restore_locks: mktemp, cp and mv for each lock, going on after a failure.
Restore(u, l) ==
  /\ pc[u] = "restore" /\ l \in todo[u]
  /\ todo' = [todo EXCEPT ![u] = @ \ {l}]
  /\ \/ /\ lockfile' = [lockfile EXCEPT ![l] = snapshot[u][l]]
        /\ UNCHANGED restoreFailed
     \/ /\ "fail" \in Faults
        /\ restoreFailed' = [restoreFailed EXCEPT ![u] = TRUE]
        /\ UNCHANGED lockfile
  /\ UNCHANGED <<pc, child, status, result, snapshot, restoreRequired, held, db, trouble>>

Restored(u) ==
  /\ pc[u] = "restore" /\ todo[u] = {} /\ ~restoreFailed[u]
  /\ pc' = [pc EXCEPT ![u] = "release"]
  /\ status' = [status EXCEPT ![u] = "fail"]
  /\ UNCHANGED <<child, result, shellVars, fileVars>>

\* A lockfile could not be restored: snapshots and transaction lock stay.
RetainLock(u) ==
  /\ pc[u] = "restore" /\ todo[u] = {} /\ restoreFailed[u]
  /\ Exit(u, "fail")
  /\ UNCHANGED <<child, status, shellVars, fileVars>>

\* rmdir of the transaction lock, whoever made it.
Release(u) ==
  /\ pc[u] = "release"
  /\ \/ Exit(u, status[u]) /\ held' = Free /\ UNCHANGED trouble
     \/ /\ "rmdir" \in Faults /\ Exit(u, "fail")
        /\ trouble' = trouble \cup {"rmdir"}
        /\ UNCHANGED held
  /\ UNCHANGED <<child, status, shellVars, lockfile, db>>

-----------------------------------------------------------------------------
(* Signals.  A shell whose trap is not set, or is running, just dies.      *)

Stops(u) ==
  \/ pc[u] \in Trapped /\ Fails(u)
  \/ pc[u] \in {"locked"} \cup Cleaning /\ pc' = [pc EXCEPT ![u] = "killed"] /\ UNCHANGED status

\* To the whole process group (Ctrl-C): the child dies with the shell.
Interrupt(u) ==
  /\ "interrupt" \in Faults
  /\ Stops(u)
  /\ child' = [child EXCEPT ![u] = NoChild]
  /\ trouble' = trouble \cup {"interrupt"}
  /\ UNCHANGED <<result, shellVars, held, lockfile, db>>

\* To the shell alone: its child goes on.
Terminate(u) ==
  /\ "terminate" \in Faults
  /\ Stops(u)
  /\ trouble' = trouble \cup {"terminate"}
  /\ UNCHANGED <<child, result, shellVars, held, lockfile, db>>

\* SIGKILL of the shell runs no trap.
Kill(u) ==
  /\ "kill" \in Faults /\ pc[u] \in {"locked"} \cup Trapped \cup Cleaning
  /\ pc' = [pc EXCEPT ![u] = "killed"]
  /\ UNCHANGED <<child, status, result, shellVars, fileVars>>

ScriptStep(u) ==
  \/ SetTrap(u) \/ CopyFails(u) \/ Copied(u) \/ Updated(u) \/ RunRepair(u) \/ RunRecord(u)
  \/ Commit(u) \/ Cleanup(u) \/ Restored(u) \/ RetainLock(u) \/ Release(u)
  \/ \E l \in Locks : Copy(u, l) \/ RunUpdate(u, l) \/ Restore(u, l)

ChildStep(u) ==
  \/ ChildRecords(u) \/ ChildSucceeds(u) \/ ChildFails(u)
  \/ \E l \in Locks : ChildWrites(u, l)

Next ==
  \E u \in Updaters :
    \/ Lock(u) \/ Refuse(u)
    \/ ScriptStep(u) \/ ChildStep(u)
    \/ Interrupt(u) \/ Terminate(u) \/ Kill(u)

Spec == Init /\ [][Next]_vars

\* The shell runs, and every child it waits for ends.
Fairness == \A u \in Updaters : WF_vars(ScriptStep(u)) /\ WF_vars(ChildStep(u))

FairSpec == Spec /\ Fairness

-----------------------------------------------------------------------------
(* Properties.                                                             *)

Owner(content) == content[1]

\* "fails this update and restores the pre-update lockfiles" (the script's
\* header): whenever no transaction lock exists, each lockfile is the
\* committed one or the work of an update that succeeded.  An update that
\* failed half way, died, or could not restore never lets the next one take
\* its leftovers for the pre-update state.
OnlyCommittedWork ==
  held = Free =>
    \A l \in Locks : lockfile[l] = Base \/ result[Owner(lockfile[l])] = "ok"

\* OnlyCommittedWork holds under failing commands, Ctrl-C and SIGKILL: only a
\* SIGTERM to the shell alone, whose child outlives the restore, breaks it.
OnlyOrphansEscape ==
  /\ TypeOK
  /\ "terminate" \in trouble \/ OnlyCommittedWork

\* The lock protects its owner's whole transaction: nobody else, and no
\* refused updater's exit, removes it under a running update.
LockHeldThroughout ==
  \A u \in Updaters :
    pc[u] \in {"locked"} \cup Trapped \cup Cleaning => held = u

\* "record the publication-date database transactionally" (the header): when
\* no transaction lock exists the database records what the lockfiles resolve.
DatabaseInStep == held = Free => \A l \in Locks : lockfile[l] \in db[l]

\* Failing commands and restores leave the database in step.  A signal between
\* write_database's mv and restore_required=false does not: it restores the
\* lockfiles, and of the database there is no snapshot.
DatabaseMatchesLocks == trouble \subseteq {"rmdir"} => DatabaseInStep

\* Every exit path that runs gives the lock back, except after a failed restore
\* or rmdir: a failure never blocks the next update for good.
LockReleased ==
  \A u \in Updaters :
    held = u ~> held # u \/ restoreFailed[u] \/ pc[u] = "killed" \/ "rmdir" \in trouble
==============================================================================
