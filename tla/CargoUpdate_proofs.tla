-------------------------- MODULE CargoUpdate_proofs --------------------------
(***************************************************************************)
(* What CargoUpdate guarantees for every set of updaters, lockfiles and    *)
(* faults: its type, that the transaction lock protects its owner, and     *)
(* that without a SIGTERM to a shell alone the lockfiles are the committed *)
(* ones whenever nobody holds the lock.                                    *)
(***************************************************************************)
EXTENDS CargoUpdate, TLAPS

Committed(c) == c = Base \/ result[Owner(c)] = "ok"

Critical == {"locked"} \cup Trapped \cup Cleaning

\* What the place in the script says about the script's variables.
Phases ==
  \A u \in Updaters :
    /\ pc[u] # "exited" => result[u] = "none"
    /\ pc[u] \in {"start", "locked"} \cup Trapped => status[u] = "ok"
    /\ pc[u] \in {"start", "locked", "snapshot"} => ~restoreRequired[u]
    /\ pc[u] \in {"update", "repair", "record", "commit", "restore"} => restoreRequired[u]
    /\ todo[u] \subseteq LocksOf[u]

\* A restore only uses copies that were made.
Copies ==
  \A u \in Updaters :
    /\ pc[u] = "snapshot" => \A l \in LocksOf[u] \ todo[u] : snapshot[u][l] \in Contents
    /\ restoreRequired[u] => \A l \in LocksOf[u] : snapshot[u][l] \in Contents

\* A child belongs to the owner of the lock, who waits for it or was killed.
Children ==
  \A u \in Updaters :
    child[u] # NoChild =>
      /\ held = u
      /\ pc[u] \in {child[u].job, "killed"}
      /\ child[u].locks \subseteq LocksOf[u]

\* The lockfiles while the lock is free, and under its owner: what is not
\* committed is the owner's work on its own selection, which a restore undoes.
Work ==
  /\ held = Free => \A l \in Locks : Committed(lockfile[l])
  /\ \A u \in Updaters : pc[u] \in Critical =>
       /\ \A l \in Locks : Committed(lockfile[l]) \/ Owner(lockfile[l]) = u
       /\ \A l \in Locks \ LocksOf[u] : Committed(lockfile[l])
       /\ pc[u] \in {"locked", "snapshot"} => \A l \in Locks : Committed(lockfile[l])
       /\ pc[u] = "cleanup" /\ ~restoreRequired[u] /\ status[u] = "fail" =>
            \A l \in Locks : Committed(lockfile[l])
       /\ pc[u] = "release" /\ status[u] = "fail" => \A l \in Locks : Committed(lockfile[l])
       /\ pc[u] = "restore" /\ ~restoreFailed[u] =>
            \A l \in Locks \ todo[u] : Committed(lockfile[l])
       /\ pc[u] = "snapshot" => \A l \in LocksOf[u] \ todo[u] : Committed(snapshot[u][l])
       /\ restoreRequired[u] => \A l \in LocksOf[u] : Committed(snapshot[u][l])

\* The inductive invariant.
IInv ==
  /\ TypeOK /\ LockHeldThroughout /\ Phases /\ Copies
  /\ "terminate" \notin trouble => Children /\ Work

-----------------------------------------------------------------------------

\* Nothing that is committed becomes less so when an updater ends.
LEMMA CommittedKept ==
  ASSUME NEW u \in Updaters, NEW res, TypeOK, result[u] = "none",
         result' = [result EXCEPT ![u] = res]
  PROVE  \A c \in Contents : Committed(c) => Committed(c)'
<1> SUFFICES ASSUME NEW c \in Contents, c # Base, Committed(c)
             PROVE  result'[Owner(c)] = "ok"
  BY DEF Committed
<1>1. Owner(c) \in Updaters /\ result[Owner(c)] = "ok"
  BY DEF Committed, Contents, Owner
<1>. QED  BY <1>1 DEF TypeOK

\* Outside of the three commands there is no child, unless the shell was killed.
LEMMA NoChildLeft ==
  ASSUME NEW u \in Updaters, TypeOK, Children, pc[u] \notin Jobs \cup {"killed"}
  PROVE  child[u] = NoChild
<1> SUFFICES ASSUME child[u] # NoChild PROVE FALSE
  OBVIOUS
<1>1. child[u].job \in Jobs
  BY DEF TypeOK
<1>. QED  BY <1>1 DEF Children

\* mkdir succeeds: the lock was free, so everything is committed.
LEMMA LockIInv ==
  ASSUME NEW u \in Updaters, IInv, Lock(u)
  PROVE  IInv'
<1> USE UpdateAssumption DEF IInv, Lock, Goto, shellVars, fileVars, Trapped, Cleaning
<1>1. TypeOK'
  BY DEF TypeOK, Jobs, Contents, Copies, Phases
<1>2. LockHeldThroughout'
  BY DEF TypeOK, LockHeldThroughout, Jobs
<1>3. Phases'
  BY DEF TypeOK, Phases, Jobs
<1>4. Copies'
  BY DEF TypeOK, Phases, Copies, Contents, Jobs
<1>5. ASSUME "terminate" \notin trouble' PROVE Children'
  BY <1>5 DEF TypeOK, Children, Phases, Jobs, LockHeldThroughout
<1>6. ASSUME "terminate" \notin trouble' PROVE Work'
  BY <1>6 DEF TypeOK, Children, Work, Phases, LockHeldThroughout, Committed, Owner,
     Contents, Critical, Jobs
<1>. QED  BY <1>1, <1>2, <1>3, <1>4, <1>5, <1>6

\* A refused updater ends without touching the lock or a file.
LEMMA RefuseIInv ==
  ASSUME NEW u \in Updaters, IInv, Refuse(u)
  PROVE  IInv'
<1> USE UpdateAssumption DEF IInv, Refuse, Exit, shellVars, fileVars, Trapped, Cleaning
<1>1. TypeOK'
  BY DEF TypeOK, Jobs, Contents, Copies, Phases
<1>2. LockHeldThroughout'
  BY DEF TypeOK, LockHeldThroughout, Jobs
<1>3. Phases'
  BY DEF TypeOK, Phases, Jobs
<1>4. Copies'
  BY DEF TypeOK, Phases, Copies, Contents, Jobs
<1>5. ASSUME "terminate" \notin trouble' PROVE Children'
  BY <1>5 DEF TypeOK, Children, Phases, Jobs, LockHeldThroughout
<1>6. ASSUME "terminate" \notin trouble' PROVE Work'
  <2>1. \A c \in Contents : Committed(c) => Committed(c)'
    BY CommittedKept DEF Phases, TypeOK
  <2>2. lockfile' = lockfile /\ \A l \in Locks : lockfile[l] \in Contents
    BY DEF TypeOK
  <2>3. \A v \in Updaters : v # u => pc'[v] = pc[v]
    BY DEF TypeOK
  <2>4. pc'[u] = "exited"
    BY DEF TypeOK
  <2>5. Work
    BY <1>6
  <2>6. UNCHANGED <<held, snapshot, todo, restoreRequired, restoreFailed, status>>
    OBVIOUS
  <2>7. \A v \in Updaters : restoreRequired[v] =>
          \A l \in LocksOf[v] : snapshot[v][l] \in Contents
    BY DEF Copies
  <2>8. \A v \in Updaters : pc[v] = "snapshot" =>
          \A l \in LocksOf[v] \ todo[v] : snapshot[v][l] \in Contents
    BY DEF Copies
  <2>. QED  BY ONLY <2>1, <2>2, <2>3, <2>4, <2>5, <2>6, <2>7, <2>8 DEF Work, Critical
<1>. QED  BY <1>1, <1>2, <1>3, <1>4, <1>5, <1>6

\* The trap is set before the first copy.
LEMMA SetTrapIInv ==
  ASSUME NEW u \in Updaters, IInv, SetTrap(u)
  PROVE  IInv'
<1> USE UpdateAssumption DEF IInv, SetTrap, Goto, shellVars, fileVars, Trapped, Cleaning
<1>1. TypeOK'
  BY DEF TypeOK
<1>2. LockHeldThroughout'
  BY DEF TypeOK, LockHeldThroughout, Jobs
<1>3. Phases'
  BY DEF TypeOK, Phases, Jobs
<1>4. Copies'
  BY DEF TypeOK, Phases, Copies, Contents, Jobs
<1>5. ASSUME "terminate" \notin trouble' PROVE Children'
  BY <1>5 DEF TypeOK, Children, Phases, Jobs, LockHeldThroughout
<1>6. ASSUME "terminate" \notin trouble' PROVE Work'
  BY <1>6 DEF TypeOK, Children, Work, Phases, LockHeldThroughout, Committed, Owner,
     Contents, Critical, Jobs
<1>. QED  BY <1>1, <1>2, <1>3, <1>4, <1>5, <1>6

\* A copy of a committed lockfile is committed.
LEMMA CopyIInv ==
  ASSUME NEW u \in Updaters, NEW l \in Locks, IInv, Copy(u, l)
  PROVE  IInv'
<1> USE UpdateAssumption DEF IInv, Copy, shellVars, fileVars, Trapped, Cleaning
<1>1. TypeOK'
  BY DEF TypeOK, Jobs, Contents, Copies, Phases
<1>2. LockHeldThroughout'
  BY DEF TypeOK, LockHeldThroughout, Jobs
<1>3. Phases'
  BY DEF TypeOK, Phases, Jobs
<1>4. Copies'
  BY DEF TypeOK, Phases, Copies, Contents, Jobs
<1>5. ASSUME "terminate" \notin trouble' PROVE Children'
  BY <1>5 DEF TypeOK, Children, Phases, Jobs, LockHeldThroughout
<1>6. ASSUME "terminate" \notin trouble' PROVE Work'
  BY <1>6 DEF TypeOK, Children, Work, Phases, LockHeldThroughout, Committed, Owner,
     Contents, Critical, Jobs
<1>. QED  BY <1>1, <1>2, <1>3, <1>4, <1>5, <1>6

\* Without all copies nothing is restored, and nothing was changed.
LEMMA CopyFailsIInv ==
  ASSUME NEW u \in Updaters, IInv, CopyFails(u)
  PROVE  IInv'
<1> USE UpdateAssumption DEF IInv, CopyFails, Fails, shellVars, fileVars, Trapped, Cleaning
<1>1. TypeOK'
  BY DEF TypeOK, Jobs, Contents, Copies, Phases
<1>2. LockHeldThroughout'
  BY DEF TypeOK, LockHeldThroughout, Jobs
<1>3. Phases'
  BY DEF TypeOK, Phases, Jobs
<1>4. Copies'
  BY DEF TypeOK, Phases, Copies, Contents, Jobs
<1>5. ASSUME "terminate" \notin trouble' PROVE Children'
  BY <1>5 DEF TypeOK, Children, Phases, Jobs, LockHeldThroughout
<1>6. ASSUME "terminate" \notin trouble' PROVE Work'
  BY <1>6 DEF TypeOK, Children, Work, Phases, LockHeldThroughout, Committed, Owner,
     Contents, Critical, Jobs
<1>. QED  BY <1>1, <1>2, <1>3, <1>4, <1>5, <1>6

\* All copies exist when the restore becomes required.
LEMMA CopiedIInv ==
  ASSUME NEW u \in Updaters, IInv, Copied(u)
  PROVE  IInv'
<1> USE UpdateAssumption DEF IInv, Copied, Goto, shellVars, fileVars, Trapped, Cleaning
<1>1. TypeOK'
  BY DEF TypeOK
<1>2. LockHeldThroughout'
  BY DEF TypeOK, LockHeldThroughout, Jobs
<1>3. Phases'
  BY DEF TypeOK, Phases, Jobs
<1>4. Copies'
  BY DEF TypeOK, Phases, Copies, Contents, Jobs
<1>5. ASSUME "terminate" \notin trouble' PROVE Children'
  BY <1>5 DEF TypeOK, Children, Phases, Jobs, LockHeldThroughout
<1>6. ASSUME "terminate" \notin trouble' PROVE Work'
  BY <1>6 DEF TypeOK, Children, Work, Phases, LockHeldThroughout, Committed, Owner,
     Contents, Critical, Jobs
<1>. QED  BY <1>1, <1>2, <1>3, <1>4, <1>5, <1>6

\* The child works on the selection of the lock's owner.
LEMMA RunUpdateIInv ==
  ASSUME NEW u \in Updaters, NEW l \in Locks, IInv, RunUpdate(u, l)
  PROVE  IInv'
<1> USE UpdateAssumption DEF IInv, RunUpdate, Spawn, shellVars, fileVars, Trapped, Cleaning
<1>1. TypeOK'
  BY DEF TypeOK, Jobs, Contents, Copies, Phases
<1>2. LockHeldThroughout'
  BY DEF TypeOK, LockHeldThroughout, Jobs
<1>3. Phases'
  BY DEF TypeOK, Phases, Jobs
<1>4. Copies'
  BY DEF TypeOK, Phases, Copies, Contents, Jobs
<1>5. ASSUME "terminate" \notin trouble' PROVE Children'
  BY <1>5 DEF TypeOK, Children, Phases, Jobs, LockHeldThroughout
<1>6. ASSUME "terminate" \notin trouble' PROVE Work'
  BY <1>6 DEF TypeOK, Children, Work, Phases, LockHeldThroughout, Committed, Owner,
     Contents, Critical, Jobs
<1>. QED  BY <1>1, <1>2, <1>3, <1>4, <1>5, <1>6

\* The updates ended one by one.
LEMMA UpdatedIInv ==
  ASSUME NEW u \in Updaters, IInv, Updated(u)
  PROVE  IInv'
<1> USE UpdateAssumption DEF IInv, Updated, Goto, shellVars, fileVars, Trapped, Cleaning
<1>1. TypeOK'
  BY DEF TypeOK, Jobs, Contents, Copies, Phases
<1>2. LockHeldThroughout'
  BY DEF TypeOK, LockHeldThroughout, Jobs
<1>3. Phases'
  BY DEF TypeOK, Phases, Jobs
<1>4. Copies'
  BY DEF TypeOK, Phases, Copies, Contents, Jobs
<1>5. ASSUME "terminate" \notin trouble' PROVE Children'
  BY <1>5 DEF TypeOK, Children, Phases, Jobs, LockHeldThroughout
<1>6. ASSUME "terminate" \notin trouble' PROVE Work'
  BY <1>6 DEF TypeOK, Children, Work, Phases, LockHeldThroughout, Committed, Owner,
     Contents, Critical, Jobs
<1>. QED  BY <1>1, <1>2, <1>3, <1>4, <1>5, <1>6

\* The repair works on the selection of the lock's owner.
LEMMA RunRepairIInv ==
  ASSUME NEW u \in Updaters, IInv, RunRepair(u)
  PROVE  IInv'
<1> USE UpdateAssumption DEF IInv, RunRepair, Spawn, shellVars, fileVars, Trapped, Cleaning
<1>1. TypeOK'
  BY DEF TypeOK, Jobs
<1>2. LockHeldThroughout'
  BY DEF TypeOK, LockHeldThroughout, Jobs
<1>3. Phases'
  BY DEF TypeOK, Phases, Jobs
<1>4. Copies'
  BY DEF TypeOK, Phases, Copies, Contents, Jobs
<1>5. ASSUME "terminate" \notin trouble' PROVE Children'
  BY <1>5 DEF TypeOK, Children, Phases, Jobs, LockHeldThroughout
<1>6. ASSUME "terminate" \notin trouble' PROVE Work'
  BY <1>6 DEF TypeOK, Children, Work, Phases, LockHeldThroughout, Committed, Owner,
     Contents, Critical, Jobs
<1>. QED  BY <1>1, <1>2, <1>3, <1>4, <1>5, <1>6

\* The recording works on the selection of the lock's owner.
LEMMA RunRecordIInv ==
  ASSUME NEW u \in Updaters, IInv, RunRecord(u)
  PROVE  IInv'
<1> USE UpdateAssumption DEF IInv, RunRecord, Spawn, shellVars, fileVars, Trapped, Cleaning
<1>1. TypeOK'
  BY DEF TypeOK, Jobs
<1>2. LockHeldThroughout'
  BY DEF TypeOK, LockHeldThroughout, Jobs
<1>3. Phases'
  BY DEF TypeOK, Phases, Jobs
<1>4. Copies'
  BY DEF TypeOK, Phases, Copies, Contents, Jobs
<1>5. ASSUME "terminate" \notin trouble' PROVE Children'
  BY <1>5 DEF TypeOK, Children, Phases, Jobs, LockHeldThroughout
<1>6. ASSUME "terminate" \notin trouble' PROVE Work'
  BY <1>6 DEF TypeOK, Children, Work, Phases, LockHeldThroughout, Committed, Owner,
     Contents, Critical, Jobs
<1>. QED  BY <1>1, <1>2, <1>3, <1>4, <1>5, <1>6

\* From here on the owner ends with success, or is killed with its lock.
LEMMA CommitIInv ==
  ASSUME NEW u \in Updaters, IInv, Commit(u)
  PROVE  IInv'
<1> USE UpdateAssumption DEF IInv, Commit, Goto, shellVars, fileVars, Trapped, Cleaning
<1>1. TypeOK'
  BY DEF TypeOK, Jobs, Contents, Copies, Phases
<1>2. LockHeldThroughout'
  BY DEF TypeOK, LockHeldThroughout, Jobs
<1>3. Phases'
  BY DEF TypeOK, Phases, Jobs
<1>4. Copies'
  BY DEF TypeOK, Phases, Copies, Contents, Jobs
<1>5. ASSUME "terminate" \notin trouble' PROVE Children'
  <2>1. child[u] = NoChild
    BY <1>5, NoChildLeft DEF Jobs
  <2>. QED  BY <1>5, <2>1 DEF TypeOK, Children, Phases, Jobs, LockHeldThroughout
<1>6. ASSUME "terminate" \notin trouble' PROVE Work'
  BY <1>6 DEF TypeOK, Children, Work, Phases, LockHeldThroughout, Committed, Owner,
     Contents, Critical, Jobs
<1>. QED  BY <1>1, <1>2, <1>3, <1>4, <1>5, <1>6

\* What is not committed is the lock owner's.
LEMMA ChildWritesIInv ==
  ASSUME NEW u \in Updaters, NEW l \in Locks, IInv, ChildWrites(u, l)
  PROVE  IInv'
<1> USE UpdateAssumption DEF IInv, ChildWrites, Running, shellVars, fileVars, Trapped,
     Cleaning
<1>1. TypeOK'
  BY DEF TypeOK, Jobs, Contents, Copies, Phases
<1>2. LockHeldThroughout'
  BY DEF TypeOK, LockHeldThroughout, Jobs
<1>3. Phases'
  BY DEF TypeOK, Phases, Jobs
<1>4. Copies'
  BY DEF TypeOK, Phases, Copies, Contents, Jobs
<1>5. ASSUME "terminate" \notin trouble' PROVE Children'
  BY <1>5 DEF TypeOK, Children, Phases, Jobs, LockHeldThroughout
<1>6. ASSUME "terminate" \notin trouble' PROVE Work'
  <2>1. Children /\ Work /\ held = u /\ l \in LocksOf[u]
    BY <1>6 DEF Children
  <2>2. child[u].job \in {"update", "repair"}
    OBVIOUS
  <2>3. pc[u] \notin {"locked", "snapshot", "cleanup", "restore", "release"}
    BY <2>1, <2>2 DEF Children
  <2>4. lockfile' = [lockfile EXCEPT ![l] = <<u, child[u].job>>] /\ DOMAIN lockfile = Locks
    BY DEF TypeOK
  <2>5. lockfile'[l] = <<u, child[u].job>> /\ Owner(lockfile'[l]) = u
    BY <2>4 DEF Owner
  <2>6. \A k \in Locks \ {l} : lockfile'[k] = lockfile[k]
    BY <2>4
  <2>7. held # Free /\ \A v \in Updaters : pc[v] \in Critical => v = u
    BY <2>1 DEF LockHeldThroughout, Critical
  <2>8. UNCHANGED <<pc, status, result, restoreRequired, restoreFailed, todo, snapshot, held>>
    OBVIOUS
  <2>9. pc[u] \in Critical =>
          /\ \A k \in Locks : Committed(lockfile'[k]) \/ Owner(lockfile'[k]) = u
          /\ \A k \in Locks \ LocksOf[u] : Committed(lockfile'[k])
          /\ restoreRequired[u] => \A k \in LocksOf[u] : Committed(snapshot[u][k])
    BY <2>1, <2>5, <2>6 DEF Work
  <2>. QED  BY ONLY <2>1, <2>3, <2>7, <2>8, <2>9 DEF Work, Committed, Critical
<1>. QED  BY <1>1, <1>2, <1>3, <1>4, <1>5, <1>6

\* Recording leaves the lockfiles alone.
LEMMA ChildRecordsIInv ==
  ASSUME NEW u \in Updaters, IInv, ChildRecords(u)
  PROVE  IInv'
<1> USE UpdateAssumption DEF IInv, ChildRecords, Running, shellVars, fileVars, Trapped,
     Cleaning
<1>1. TypeOK'
  BY DEF TypeOK, Jobs, Contents, Copies, Phases
<1>2. LockHeldThroughout'
  BY DEF TypeOK, LockHeldThroughout, Jobs
<1>3. Phases'
  BY DEF TypeOK, Phases, Jobs
<1>4. Copies'
  BY DEF TypeOK, Phases, Copies, Contents, Jobs
<1>5. ASSUME "terminate" \notin trouble' PROVE Children'
  BY <1>5 DEF TypeOK, Children, Phases, Jobs, LockHeldThroughout
<1>6. ASSUME "terminate" \notin trouble' PROVE Work'
  BY <1>6 DEF TypeOK, Children, Work, Phases, LockHeldThroughout, Committed, Owner,
     Contents, Critical, Jobs
<1>. QED  BY <1>1, <1>2, <1>3, <1>4, <1>5, <1>6

\* The shell goes on without a child.
LEMMA ChildSucceedsIInv ==
  ASSUME NEW u \in Updaters, IInv, ChildSucceeds(u)
  PROVE  IInv'
<1> USE UpdateAssumption DEF IInv, ChildSucceeds, Running, AfterJob, shellVars,
     fileVars, Trapped, Cleaning
<1>1. TypeOK'
  BY DEF TypeOK, Jobs, Contents, Copies, Phases
<1>2. LockHeldThroughout'
  BY DEF TypeOK, LockHeldThroughout, Jobs
<1>3. Phases'
  BY DEF TypeOK, Phases, Jobs
<1>4. Copies'
  BY DEF TypeOK, Phases, Copies, Contents, Jobs
<1>5. ASSUME "terminate" \notin trouble' PROVE Children'
  BY <1>5 DEF TypeOK, Children, Phases, Jobs, LockHeldThroughout
<1>6. ASSUME "terminate" \notin trouble' PROVE Work'
  BY <1>6 DEF TypeOK, Children, Work, Phases, LockHeldThroughout, Committed, Owner,
     Contents, Critical, Jobs
<1>. QED  BY <1>1, <1>2, <1>3, <1>4, <1>5, <1>6

\* The shell enters its trap without a child.
LEMMA ChildFailsIInv ==
  ASSUME NEW u \in Updaters, IInv, ChildFails(u)
  PROVE  IInv'
<1> USE UpdateAssumption DEF IInv, ChildFails, Running, Fails, shellVars, fileVars,
     Trapped, Cleaning
<1>1. TypeOK'
  <2>1. CASE pc[u] = child[u].job /\ Fails(u)
    BY <2>1 DEF TypeOK, Jobs, Contents, Copies, Phases
  <2>2. CASE UNCHANGED <<pc, status>>
    BY <2>2 DEF TypeOK, Jobs, Contents, Copies, Phases
  <2>. QED  BY <2>1, <2>2
<1>2. LockHeldThroughout'
  BY DEF TypeOK, LockHeldThroughout, Jobs
<1>3. Phases'
  BY DEF TypeOK, Phases, Jobs
<1>4. Copies'
  <2>1. CASE pc[u] = child[u].job /\ Fails(u)
    BY <2>1 DEF TypeOK, Phases, Copies, Contents, Jobs
  <2>2. CASE UNCHANGED <<pc, status>>
    BY <2>2 DEF TypeOK, Phases, Copies, Contents, Jobs
  <2>. QED  BY <2>1, <2>2
<1>5. ASSUME "terminate" \notin trouble' PROVE Children'
  BY <1>5 DEF TypeOK, Children, Phases, Jobs, LockHeldThroughout
<1>6. ASSUME "terminate" \notin trouble' PROVE Work'
  BY <1>6 DEF TypeOK, Children, Work, Phases, LockHeldThroughout, Committed, Owner,
     Contents, Critical, Jobs
<1>. QED  BY <1>1, <1>2, <1>3, <1>4, <1>5, <1>6

\* The trap restores whatever it has to.
LEMMA CleanupIInv ==
  ASSUME NEW u \in Updaters, IInv, Cleanup(u)
  PROVE  IInv'
<1> USE UpdateAssumption DEF IInv, Cleanup, shellVars, fileVars, Trapped, Cleaning
<1>1. TypeOK'
  BY DEF TypeOK
<1>2. LockHeldThroughout'
  BY DEF TypeOK, LockHeldThroughout, Jobs
<1>3. Phases'
  BY DEF TypeOK, Phases, Jobs
<1>4. Copies'
  BY DEF TypeOK, Phases, Copies, Contents, Jobs
<1>5. ASSUME "terminate" \notin trouble' PROVE Children'
  <2>1. child[u] = NoChild
    BY <1>5, NoChildLeft DEF Jobs
  <2>. QED  BY <1>5, <2>1 DEF TypeOK, Children, Phases, Jobs, LockHeldThroughout
<1>6. ASSUME "terminate" \notin trouble' PROVE Work'
  BY <1>6 DEF TypeOK, Children, Work, Phases, LockHeldThroughout, Committed, Owner,
     Contents, Critical, Jobs
<1>. QED  BY <1>1, <1>2, <1>3, <1>4, <1>5, <1>6

\* A restored lockfile is committed; a failed restore is remembered.
LEMMA RestoreIInv ==
  ASSUME NEW u \in Updaters, NEW l \in Locks, IInv, Restore(u, l)
  PROVE  IInv'
<1> USE UpdateAssumption DEF IInv, Restore, shellVars, fileVars, Trapped, Cleaning
<1>1. TypeOK'
  <2>1. CASE lockfile' = [lockfile EXCEPT ![l] = snapshot[u][l]] /\ UNCHANGED restoreFailed
    BY <2>1 DEF TypeOK, Jobs, Contents, Copies, Phases
  <2>2. CASE restoreFailed' = [restoreFailed EXCEPT ![u] = TRUE] /\ UNCHANGED lockfile
    BY <2>2 DEF TypeOK, Jobs, Contents, Copies, Phases
  <2>. QED  BY <2>1, <2>2
<1>2. LockHeldThroughout'
  BY DEF TypeOK, LockHeldThroughout, Jobs
<1>3. Phases'
  BY DEF TypeOK, Phases, Jobs
<1>4. Copies'
  BY DEF TypeOK, Phases, Copies, Contents, Jobs
<1>5. ASSUME "terminate" \notin trouble' PROVE Children'
  BY <1>5 DEF TypeOK, Children, Phases, Jobs, LockHeldThroughout
<1>6. ASSUME "terminate" \notin trouble' PROVE Work'
  <2>1. CASE lockfile' = [lockfile EXCEPT ![l] = snapshot[u][l]] /\ UNCHANGED restoreFailed
    BY <1>6, <2>1 DEF TypeOK, Children, Work, Phases, LockHeldThroughout, Committed,
       Owner, Contents, Critical, Jobs
  <2>2. CASE restoreFailed' = [restoreFailed EXCEPT ![u] = TRUE] /\ UNCHANGED lockfile
    BY <1>6, <2>2 DEF TypeOK, Children, Work, Phases, LockHeldThroughout, Committed,
       Owner, Contents, Critical, Jobs
  <2>. QED  BY <2>1, <2>2
<1>. QED  BY <1>1, <1>2, <1>3, <1>4, <1>5, <1>6

\* Everything is committed again.
LEMMA RestoredIInv ==
  ASSUME NEW u \in Updaters, IInv, Restored(u)
  PROVE  IInv'
<1> USE UpdateAssumption DEF IInv, Restored, shellVars, fileVars, Trapped, Cleaning
<1>1. TypeOK'
  BY DEF TypeOK, Jobs, Contents, Copies, Phases
<1>2. LockHeldThroughout'
  BY DEF TypeOK, LockHeldThroughout, Jobs
<1>3. Phases'
  BY DEF TypeOK, Phases, Jobs
<1>4. Copies'
  BY DEF TypeOK, Phases, Copies, Contents, Jobs
<1>5. ASSUME "terminate" \notin trouble' PROVE Children'
  <2>1. child[u] = NoChild
    BY <1>5, NoChildLeft DEF Jobs
  <2>. QED  BY <1>5, <2>1 DEF TypeOK, Children, Phases, Jobs, LockHeldThroughout
<1>6. ASSUME "terminate" \notin trouble' PROVE Work'
  BY <1>6 DEF TypeOK, Children, Work, Phases, LockHeldThroughout, Committed, Owner,
     Contents, Critical, Jobs
<1>. QED  BY <1>1, <1>2, <1>3, <1>4, <1>5, <1>6

\* After a failed restore the lock stays.
LEMMA RetainLockIInv ==
  ASSUME NEW u \in Updaters, IInv, RetainLock(u)
  PROVE  IInv'
<1> USE UpdateAssumption DEF IInv, RetainLock, Exit, shellVars, fileVars, Trapped, Cleaning
<1>1. TypeOK'
  BY DEF TypeOK, Jobs, Contents, Copies, Phases
<1>2. LockHeldThroughout'
  BY DEF TypeOK, LockHeldThroughout, Jobs
<1>3. Phases'
  BY DEF TypeOK, Phases, Jobs
<1>4. Copies'
  BY DEF TypeOK, Phases, Copies, Contents, Jobs
<1>5. ASSUME "terminate" \notin trouble' PROVE Children'
  <2>1. child[u] = NoChild
    BY <1>5, NoChildLeft DEF Jobs
  <2>. QED  BY <1>5, <2>1 DEF TypeOK, Children, Phases, Jobs, LockHeldThroughout
<1>6. ASSUME "terminate" \notin trouble' PROVE Work'
  BY <1>6 DEF TypeOK, Children, Work, Phases, LockHeldThroughout, Committed, Owner,
     Contents, Critical, Jobs
<1>. QED  BY <1>1, <1>2, <1>3, <1>4, <1>5, <1>6

\* The lock goes only once everything is committed.
LEMMA ReleaseIInv ==
  ASSUME NEW u \in Updaters, IInv, Release(u)
  PROVE  IInv'
<1> USE UpdateAssumption DEF IInv, Release, Exit, shellVars, fileVars, Trapped, Cleaning
<1>1. TypeOK'
  <2>1. CASE Exit(u, status[u]) /\ held' = Free /\ UNCHANGED trouble
    BY <2>1 DEF TypeOK, Jobs, Contents, Copies, Phases
  <2>2. CASE Exit(u, "fail") /\ trouble' = trouble \cup {"rmdir"} /\ UNCHANGED held
    BY <2>2 DEF TypeOK, Jobs, Contents, Copies, Phases
  <2>. QED  BY <2>1, <2>2
<1>2. LockHeldThroughout'
  <2>1. \A v \in Updaters \ {u} : pc'[v] = pc[v] /\ pc[v] \notin {"locked"} \cup Trapped \cup Cleaning
    BY DEF TypeOK, LockHeldThroughout
  <2>2. pc'[u] = "exited"
    BY DEF TypeOK
  <2>. QED  BY ONLY <2>1, <2>2 DEF LockHeldThroughout, Trapped, Cleaning
<1>3. Phases'
  BY DEF TypeOK, Phases, Jobs
<1>4. Copies'
  <2>1. CASE Exit(u, status[u]) /\ held' = Free /\ UNCHANGED trouble
    BY <2>1 DEF TypeOK, Phases, Copies, Contents, Jobs
  <2>2. CASE Exit(u, "fail") /\ trouble' = trouble \cup {"rmdir"} /\ UNCHANGED held
    BY <2>2 DEF TypeOK, Phases, Copies, Contents, Jobs
  <2>. QED  BY <2>1, <2>2
<1>5. ASSUME "terminate" \notin trouble' PROVE Children'
  <2>1. child[u] = NoChild
    BY <1>5, NoChildLeft DEF Jobs
  <2>2. \A v \in Updaters : v # u => pc'[v] = pc[v]
    BY DEF TypeOK
  <2>3. Children /\ child' = child
    BY <1>5
  <2>4. \A v \in Updaters : child[v] # NoChild /\ held = u => v = u
    BY <2>3 DEF Children
  <2>5. held = u
    BY DEF LockHeldThroughout
  <2>. QED  BY ONLY <2>1, <2>2, <2>3, <2>4, <2>5 DEF Children
<1>6. ASSUME "terminate" \notin trouble' PROVE Work'
  <2>1. CASE Exit(u, status[u]) /\ held' = Free /\ UNCHANGED trouble
    BY <1>6, <2>1 DEF TypeOK, Children, Work, Phases, LockHeldThroughout, Committed,
       Owner, Contents, Critical, Jobs
  <2>2. CASE Exit(u, "fail") /\ trouble' = trouble \cup {"rmdir"} /\ UNCHANGED held
    BY <1>6, <2>2 DEF TypeOK, Children, Work, Phases, LockHeldThroughout, Committed,
       Owner, Contents, Critical, Jobs
  <2>. QED  BY <2>1, <2>2
<1>. QED  BY <1>1, <1>2, <1>3, <1>4, <1>5, <1>6

\* Ctrl-C takes the child with the shell.
LEMMA InterruptIInv ==
  ASSUME NEW u \in Updaters, IInv, Interrupt(u)
  PROVE  IInv'
<1> USE UpdateAssumption DEF IInv, Interrupt, Stops, Fails, shellVars, fileVars,
     Trapped, Cleaning
<1>1. TypeOK'
  <2>1. CASE pc[u] \in Trapped /\ Fails(u)
    BY <2>1 DEF TypeOK, Jobs, Contents, Copies, Phases
  <2>2. CASE /\ pc[u] \in {"locked"} \cup Cleaning
             /\ pc' = [pc EXCEPT ![u] = "killed"]
             /\ UNCHANGED status
    BY <2>2 DEF TypeOK, Jobs, Contents, Copies, Phases
  <2>. QED  BY <2>1, <2>2
<1>2. LockHeldThroughout'
  BY DEF TypeOK, LockHeldThroughout, Jobs
<1>3. Phases'
  BY DEF TypeOK, Phases, Jobs
<1>4. Copies'
  <2>1. CASE pc[u] \in Trapped /\ Fails(u)
    BY <2>1 DEF TypeOK, Phases, Copies, Contents, Jobs
  <2>2. CASE /\ pc[u] \in {"locked"} \cup Cleaning
             /\ pc' = [pc EXCEPT ![u] = "killed"]
             /\ UNCHANGED status
    BY <2>2 DEF TypeOK, Phases, Copies, Contents, Jobs
  <2>. QED  BY <2>1, <2>2
<1>5. ASSUME "terminate" \notin trouble' PROVE Children'
  BY <1>5 DEF TypeOK, Children, Phases, Jobs, LockHeldThroughout
<1>6. ASSUME "terminate" \notin trouble' PROVE Work'
  <2>1. CASE pc[u] \in Trapped /\ Fails(u)
    BY <1>6, <2>1 DEF TypeOK, Children, Work, Phases, LockHeldThroughout, Committed,
       Owner, Contents, Critical, Jobs
  <2>2. CASE /\ pc[u] \in {"locked"} \cup Cleaning
             /\ pc' = [pc EXCEPT ![u] = "killed"]
             /\ UNCHANGED status
    BY <1>6, <2>2 DEF TypeOK, Children, Work, Phases, LockHeldThroughout, Committed,
       Owner, Contents, Critical, Jobs
  <2>. QED  BY <2>1, <2>2
<1>. QED  BY <1>1, <1>2, <1>3, <1>4, <1>5, <1>6

\* A SIGTERM to the shell alone ends the claims about its child.
LEMMA TerminateIInv ==
  ASSUME NEW u \in Updaters, IInv, Terminate(u)
  PROVE  IInv'
<1> USE UpdateAssumption DEF IInv, Terminate, Stops, Fails, shellVars, fileVars,
     Trapped, Cleaning
<1>1. TypeOK'
  <2>1. CASE pc[u] \in Trapped /\ Fails(u)
    BY <2>1 DEF TypeOK, Jobs, Contents, Copies, Phases
  <2>2. CASE /\ pc[u] \in {"locked"} \cup Cleaning
             /\ pc' = [pc EXCEPT ![u] = "killed"]
             /\ UNCHANGED status
    BY <2>2 DEF TypeOK, Jobs, Contents, Copies, Phases
  <2>. QED  BY <2>1, <2>2
<1>2. LockHeldThroughout'
  BY DEF TypeOK, LockHeldThroughout, Jobs
<1>3. Phases'
  BY DEF TypeOK, Phases, Jobs
<1>4. Copies'
  <2>1. CASE pc[u] \in Trapped /\ Fails(u)
    BY <2>1 DEF TypeOK, Phases, Copies, Contents, Jobs
  <2>2. CASE /\ pc[u] \in {"locked"} \cup Cleaning
             /\ pc' = [pc EXCEPT ![u] = "killed"]
             /\ UNCHANGED status
    BY <2>2 DEF TypeOK, Phases, Copies, Contents, Jobs
  <2>. QED  BY <2>1, <2>2
<1>5. ASSUME "terminate" \notin trouble' PROVE Children'
  BY <1>5 DEF TypeOK, Children, Phases, Jobs, LockHeldThroughout
<1>6. ASSUME "terminate" \notin trouble' PROVE Work'
  BY <1>6 DEF TypeOK, Children, Work, Phases, LockHeldThroughout, Committed, Owner,
     Contents, Critical, Jobs
<1>. QED  BY <1>1, <1>2, <1>3, <1>4, <1>5, <1>6

\* A killed shell keeps its lock.
LEMMA KillIInv ==
  ASSUME NEW u \in Updaters, IInv, Kill(u)
  PROVE  IInv'
<1> USE UpdateAssumption DEF IInv, Kill, shellVars, fileVars, Trapped, Cleaning
<1>1. TypeOK'
  BY DEF TypeOK, Jobs, Contents, Copies, Phases
<1>2. LockHeldThroughout'
  BY DEF TypeOK, LockHeldThroughout, Jobs
<1>3. Phases'
  BY DEF TypeOK, Phases, Jobs
<1>4. Copies'
  BY DEF TypeOK, Phases, Copies, Contents, Jobs
<1>5. ASSUME "terminate" \notin trouble' PROVE Children'
  BY <1>5 DEF TypeOK, Children, Phases, Jobs, LockHeldThroughout
<1>6. ASSUME "terminate" \notin trouble' PROVE Work'
  BY <1>6 DEF TypeOK, Children, Work, Phases, LockHeldThroughout, Committed, Owner,
     Contents, Critical, Jobs
<1>. QED  BY <1>1, <1>2, <1>3, <1>4, <1>5, <1>6

\* The first state.
LEMMA InitIInv == Init => IInv
BY UpdateAssumption DEF Init, IInv, TypeOK, LockHeldThroughout, Phases, Copies,
   Children, Work,
   Committed, Critical, Trapped, Cleaning, Contents, Jobs

\* Every step.
LEMMA NextIInv == IInv /\ [Next]_vars => IInv'
<1> SUFFICES ASSUME IInv, [Next]_vars PROVE IInv'
  OBVIOUS
<1>1. CASE UNCHANGED vars
  BY <1>1 DEF vars, shellVars, fileVars, IInv, TypeOK, LockHeldThroughout, Phases, Copies,
     Children, Work, Committed
<1>2. CASE Next
  <2>1. PICK u \in Updaters :
          \/ Lock(u) \/ Refuse(u) \/ ScriptStep(u) \/ ChildStep(u)
          \/ Interrupt(u) \/ Terminate(u) \/ Kill(u)
    BY <1>2 DEF Next
  <2>2. CASE ScriptStep(u)
    <3>1. CASE \E l \in Locks : Copy(u, l) \/ RunUpdate(u, l) \/ Restore(u, l)
      BY <3>1, CopyIInv, RunUpdateIInv, RestoreIInv
    <3>2. CASE \/ SetTrap(u) \/ CopyFails(u) \/ Copied(u) \/ Updated(u)
               \/ RunRepair(u) \/ RunRecord(u)
      BY <3>2, SetTrapIInv, CopyFailsIInv, CopiedIInv, UpdatedIInv, RunRepairIInv, RunRecordIInv
    <3>3. CASE Commit(u) \/ Cleanup(u) \/ Restored(u) \/ RetainLock(u) \/ Release(u)
      BY <3>3, CommitIInv, CleanupIInv, RestoredIInv, RetainLockIInv, ReleaseIInv
    <3>. QED  BY <2>2, <3>1, <3>2, <3>3 DEF ScriptStep
  <2>3. CASE ChildStep(u)
    <3>1. CASE \E l \in Locks : ChildWrites(u, l)
      BY <3>1, ChildWritesIInv
    <3>2. CASE ChildRecords(u) \/ ChildSucceeds(u) \/ ChildFails(u)
      BY <3>2, ChildRecordsIInv, ChildSucceedsIInv, ChildFailsIInv
    <3>. QED  BY <2>3, <3>1, <3>2 DEF ChildStep
  <2>4. CASE Lock(u) \/ Refuse(u)
    BY <2>4, LockIInv, RefuseIInv
  <2>5. CASE Interrupt(u) \/ Terminate(u) \/ Kill(u)
    BY <2>5, InterruptIInv, TerminateIInv, KillIInv
  <2>. QED  BY <2>1, <2>2, <2>3, <2>4, <2>5
<1>. QED  BY <1>1, <1>2

\* The strengthened invariant holds in every reachable state.
THEOREM Invariant == Spec => []IInv
BY InitIInv, NextIInv, PTL DEF Spec

\* Every variable of the transaction keeps its type: a lockfile always holds a
\* lockfile's content, so the EXIT trap never restores a copy that was not made.
THEOREM TypeCorrect == Spec => []TypeOK
<1>1. IInv => TypeOK
  BY DEF IInv
<1>. QED  BY <1>1, Invariant, PTL

\* From mkdir to rmdir the transaction directory is its owner's: neither a refused
\* updater's exit nor any failure or signal removes it under a running update.
THEOREM LockProtects == Spec => []LockHeldThroughout
<1>1. IInv => LockHeldThroughout
  BY DEF IInv
<1>. QED  BY <1>1, Invariant, PTL

\* Whenever no transaction directory exists every lockfile is the committed one or
\* the work of an update that succeeded, unless a SIGTERM reached a shell alone.
THEOREM CommittedWithoutOrphans == Spec => []OnlyOrphansEscape
<1>1. IInv => OnlyOrphansEscape
  BY DEF IInv, Work, Committed, OnlyOrphansEscape, OnlyCommittedWork
<1>. QED  BY <1>1, Invariant, PTL

-----------------------------------------------------------------------------
(***************************************************************************)
(* That the publication-date database records what the lockfiles resolve,  *)
(* for every set of updaters, lockfiles, selections and failures.          *)
(***************************************************************************)

Matches(l) == lockfile[l] \in db[l]

\* The database has been replaced: from here on only a signal restores.
HasRecorded(u) ==
  \/ pc[u] = "record" /\ child[u] # NoChild /\ child[u].locks = {}
  \/ pc[u] = "commit"

\* The database under the lock's owner.  Before it is replaced it records the
\* copies, and afterwards the lockfiles; what is not selected is untouched.
Match(u) ==
  pc[u] \in Critical =>
    /\ \A l \in Locks \ LocksOf[u] : Matches(l)
    /\ \/ pc[u] \in {"locked", "snapshot", "release"} \/ HasRecorded(u)
       \/ pc[u] = "cleanup" /\ ~restoreRequired[u]
       => \A l \in Locks : Matches(l)
    /\ pc[u] = "snapshot" => \A l \in LocksOf[u] \ todo[u] : snapshot[u][l] \in db[l]
    /\ restoreRequired[u] /\ ~HasRecorded(u) /\ pc[u] # "release" =>
         \A l \in LocksOf[u] : snapshot[u][l] \in db[l]
    /\ pc[u] = "restore" /\ ~restoreFailed[u] => \A l \in LocksOf[u] \ todo[u] : Matches(l)

\* The invariant, on top of IInv: it holds until a shell is signalled.
Recorded ==
  trouble \subseteq {"rmdir"} =>
    /\ held = Free => \A l \in Locks : Matches(l)
    /\ \A u \in Updaters : Match(u)

\* The lock was free, so every lockfile was recorded.
LEMMA LockRecorded ==
  ASSUME IInv, Recorded, NEW u \in Updaters, Lock(u)
  PROVE  Recorded'
BY UpdateAssumption DEF IInv, Recorded, Match, Matches, HasRecorded, Lock, Goto,
   shellVars, fileVars, TypeOK, Children, LockHeldThroughout, Phases, Critical, Trapped,
   Cleaning, Jobs

\* A refused updater changes nothing.
LEMMA RefuseRecorded ==
  ASSUME IInv, Recorded, NEW u \in Updaters, Refuse(u)
  PROVE  Recorded'
BY UpdateAssumption DEF IInv, Recorded, Match, Matches, HasRecorded, Refuse, Exit,
   shellVars, fileVars, TypeOK, Children, LockHeldThroughout, Phases, Critical, Trapped,
   Cleaning, Jobs

\* Nothing has been copied yet.
LEMMA SetTrapRecorded ==
  ASSUME IInv, Recorded, NEW u \in Updaters, SetTrap(u)
  PROVE  Recorded'
BY UpdateAssumption DEF IInv, Recorded, Match, Matches, HasRecorded, SetTrap, Goto,
   shellVars, fileVars, TypeOK, Children, LockHeldThroughout, Phases, Critical, Trapped,
   Cleaning, Jobs

\* A copy is of a lockfile that is recorded.
LEMMA CopyRecorded ==
  ASSUME IInv, Recorded, NEW u \in Updaters, NEW l \in Locks, Copy(u, l)
  PROVE  Recorded'
BY UpdateAssumption DEF IInv, Recorded, Match, Matches, HasRecorded, Copy,
   shellVars, fileVars, TypeOK, Children, LockHeldThroughout, Phases, Critical, Trapped,
   Cleaning, Jobs

\* Nothing has changed.
LEMMA CopyFailsRecorded ==
  ASSUME IInv, Recorded, NEW u \in Updaters, CopyFails(u)
  PROVE  Recorded'
BY UpdateAssumption DEF IInv, Recorded, Match, Matches, HasRecorded, CopyFails, Fails,
   shellVars, fileVars, TypeOK, Children, LockHeldThroughout, Phases, Critical, Trapped,
   Cleaning, Jobs

\* All copies are of recorded lockfiles.
LEMMA CopiedRecorded ==
  ASSUME IInv, Recorded, NEW u \in Updaters, Copied(u)
  PROVE  Recorded'
BY UpdateAssumption DEF IInv, Recorded, Match, Matches, HasRecorded, Copied, Goto,
   shellVars, fileVars, TypeOK, Children, LockHeldThroughout, Phases, Critical, Trapped,
   Cleaning, Jobs

\* The copies stay recorded while cargo runs.
LEMMA RunUpdateRecorded ==
  ASSUME IInv, Recorded, NEW u \in Updaters, NEW l \in Locks, RunUpdate(u, l)
  PROVE  Recorded'
BY UpdateAssumption DEF IInv, Recorded, Match, Matches, HasRecorded, RunUpdate, Spawn,
   shellVars, fileVars, TypeOK, Children, LockHeldThroughout, Phases, Critical, Trapped,
   Cleaning, Jobs

\* The copies stay recorded between two commands.
LEMMA UpdatedRecorded ==
  ASSUME IInv, Recorded, NEW u \in Updaters, Updated(u)
  PROVE  Recorded'
BY UpdateAssumption DEF IInv, Recorded, Match, Matches, HasRecorded, Updated, Goto,
   shellVars, fileVars, TypeOK, Children, LockHeldThroughout, Phases, Critical, Trapped,
   Cleaning, Jobs

\* The copies stay recorded while the repair runs.
LEMMA RunRepairRecorded ==
  ASSUME IInv, Recorded, NEW u \in Updaters, RunRepair(u)
  PROVE  Recorded'
BY UpdateAssumption DEF IInv, Recorded, Match, Matches, HasRecorded, RunRepair, Spawn,
   shellVars, fileVars, TypeOK, Children, LockHeldThroughout, Phases, Critical, Trapped,
   Cleaning, Jobs

\* Every selection names a lock: nothing is recorded yet.
LEMMA RunRecordRecorded ==
  ASSUME IInv, Recorded, NEW u \in Updaters, RunRecord(u)
  PROVE  Recorded'
BY UpdateAssumption DEF IInv, Recorded, Match, Matches, HasRecorded, RunRecord, Spawn,
   shellVars, fileVars, TypeOK, Children, LockHeldThroughout, Phases, Critical, Trapped,
   Cleaning, Jobs

\* Nothing will be restored, and the lockfiles are recorded.
LEMMA CommitRecorded ==
  ASSUME IInv, Recorded, NEW u \in Updaters, Commit(u)
  PROVE  Recorded'
BY UpdateAssumption DEF IInv, Recorded, Match, Matches, HasRecorded, Commit, Goto,
   shellVars, fileVars, TypeOK, Children, LockHeldThroughout, Phases, Critical, Trapped,
   Cleaning, Jobs

\* A child writes what its owner selected, and no copy.
LEMMA ChildWritesRecorded ==
  ASSUME IInv, Recorded, NEW u \in Updaters, NEW l \in Locks, ChildWrites(u, l)
  PROVE  Recorded'
BY UpdateAssumption DEF IInv, Recorded, Match, Matches, HasRecorded, ChildWrites, Running,
   shellVars, fileVars, TypeOK, Children, LockHeldThroughout, Phases, Critical, Trapped,
   Cleaning, Jobs

\* The lockfiles of the selection are recorded, and the others remain.
LEMMA ChildRecordsRecorded ==
  ASSUME IInv, Recorded, NEW u \in Updaters, ChildRecords(u)
  PROVE  Recorded'
<1> USE UpdateAssumption DEF ChildRecords, Running, shellVars, fileVars
<1> SUFFICES ASSUME trouble \subseteq {"rmdir"}
             PROVE  held # Free /\ \A v \in Updaters : Match(v)'
  BY DEF IInv, Recorded, Children, Match
<1>1. held = u /\ pc[u] \in {"record", "killed"}
  BY DEF IInv, Children
<1>2. ASSUME NEW v \in Updaters, pc[v] \in Critical  PROVE v = u
  BY <1>1, <1>2 DEF IInv, LockHeldThroughout, Critical
<1>3. Match(u) /\ (pc[u] = "record" => pc[u] \in Critical)
  BY DEF Recorded, Critical, Trapped
<1>4. ASSUME NEW l \in LocksOf[u], l \in Locks  PROVE lockfile[l] \in db'[l]
  BY <1>4
<1>5. ASSUME NEW l \in Locks \ LocksOf[u]  PROVE db[l] \subseteq db'[l]
  <2>1. ExplicitOf[u]
    BY <1>5
  <2>. QED  BY <1>5, <2>1
<1>6. child'[u].locks = {} /\ child'[u] # NoChild
  <2>1. child[u] \in [job : Jobs, locks : SUBSET Locks]
    BY DEF IInv, TypeOK
  <2>2. child'[u] = [child[u] EXCEPT !.locks = {}]
    BY DEF IInv, TypeOK
  <2>3. child'[u] \in [job : Jobs, locks : SUBSET Locks] /\ child'[u].locks = {}
    BY <2>1, <2>2
  <2>. QED  BY <2>3, ChildAssumption
<1>7. LocksOf[u] \subseteq Locks
  OBVIOUS
<1>8. ASSUME pc[u] = "record"  PROVE Match(u)'
  <2>1. \A l \in Locks : Matches(l)'
    BY <1>3, <1>4, <1>5, <1>8 DEF Match, Matches
  <2>2. HasRecorded(u)'
    BY <1>6, <1>8 DEF HasRecorded
  <2>. QED  BY <1>7, <1>8, <2>1, <2>2 DEF Match
<1>9. ASSUME NEW v \in Updaters  PROVE Match(v)'
  BY <1>1, <1>2, <1>8 DEF Match, Critical, Trapped, Cleaning
<1>. QED  BY <1>1, <1>9

\* A recording succeeds when it has replaced the database.
LEMMA ChildSucceedsRecorded ==
  ASSUME IInv, Recorded, NEW u \in Updaters, ChildSucceeds(u)
  PROVE  Recorded'
BY UpdateAssumption DEF IInv, Recorded, Match, Matches, HasRecorded, ChildSucceeds, Running, AfterJob,
   shellVars, fileVars, TypeOK, Children, LockHeldThroughout, Phases, Critical, Trapped,
   Cleaning, Jobs

\* A recording that fails has not replaced the database.
LEMMA ChildFailsRecorded ==
  ASSUME IInv, Recorded, NEW u \in Updaters, ChildFails(u)
  PROVE  Recorded'
BY UpdateAssumption DEF IInv, Recorded, Match, Matches, HasRecorded, ChildFails, Running, Fails,
   shellVars, fileVars, TypeOK, Children, LockHeldThroughout, Phases, Critical, Trapped,
   Cleaning, Jobs

\* A restore finds recorded copies.
LEMMA CleanupRecorded ==
  ASSUME IInv, Recorded, NEW u \in Updaters, Cleanup(u)
  PROVE  Recorded'
BY UpdateAssumption DEF IInv, Recorded, Match, Matches, HasRecorded, Cleanup,
   shellVars, fileVars, TypeOK, Children, LockHeldThroughout, Phases, Critical, Trapped,
   Cleaning, Jobs

\* A restored lockfile is a recorded one.
LEMMA RestoreRecorded ==
  ASSUME IInv, Recorded, NEW u \in Updaters, NEW l \in Locks, Restore(u, l)
  PROVE  Recorded'
<1> USE UpdateAssumption DEF Restore, shellVars, fileVars
<1> SUFFICES ASSUME trouble \subseteq {"rmdir"}
             PROVE  held # Free /\ \A v \in Updaters : Match(v)'
  BY DEF IInv, Recorded, LockHeldThroughout, Cleaning
<1>1. held = u /\ pc[u] = "restore" /\ pc[u] \in Critical /\ restoreRequired[u]
  BY DEF IInv, LockHeldThroughout, Phases, Critical, Cleaning
<1>2. ASSUME NEW v \in Updaters, pc[v] \in Critical  PROVE v = u
  BY <1>1, <1>2 DEF IInv, LockHeldThroughout, Critical
<1>3. Match(u) /\ ~HasRecorded(u) /\ ~HasRecorded(u)'
  BY <1>1 DEF Recorded, HasRecorded
<1>4. l \in LocksOf[u] /\ snapshot[u][l] \in db[l]
  BY <1>1, <1>3 DEF Match, IInv, Phases
<1>5. \A k \in Locks : k # l => lockfile'[k] = lockfile[k]
  BY DEF IInv, TypeOK
<1>6. todo'[u] = todo[u] \ {l}
  BY DEF IInv, TypeOK
<1>7. ASSUME ~restoreFailed'[u]  PROVE ~restoreFailed[u] /\ Matches(l)'
  BY <1>4, <1>7 DEF Matches, IInv, TypeOK
<1>8. Match(u)'
  <2>1. \A k \in Locks \ LocksOf[u] : Matches(k)'
    BY <1>1, <1>3, <1>4, <1>5 DEF Match, Matches
  <2>2. \A k \in LocksOf[u] : snapshot'[u][k] \in db'[k]
    BY <1>1, <1>3 DEF Match
  <2>3. ASSUME ~restoreFailed'[u], NEW k \in LocksOf[u] \ todo'[u]  PROVE Matches(k)'
    BY <1>1, <1>3, <1>5, <1>6, <1>7, <2>3 DEF Match, Matches
  <2>. QED  BY <1>1, <1>3, <2>1, <2>2, <2>3 DEF Match
<1>9. ASSUME NEW v \in Updaters  PROVE Match(v)'
  BY <1>2, <1>8 DEF Match
<1>. QED  BY <1>1, <1>9

\* All are restored.
LEMMA RestoredRecorded ==
  ASSUME IInv, Recorded, NEW u \in Updaters, Restored(u)
  PROVE  Recorded'
BY UpdateAssumption DEF IInv, Recorded, Match, Matches, HasRecorded, Restored,
   shellVars, fileVars, TypeOK, Children, LockHeldThroughout, Phases, Critical, Trapped,
   Cleaning, Jobs

\* The lock stays: nothing is claimed of the lockfiles.
LEMMA RetainLockRecorded ==
  ASSUME IInv, Recorded, NEW u \in Updaters, RetainLock(u)
  PROVE  Recorded'
BY UpdateAssumption DEF IInv, Recorded, Match, Matches, HasRecorded, RetainLock, Exit,
   shellVars, fileVars, TypeOK, Children, LockHeldThroughout, Phases, Critical, Trapped,
   Cleaning, Jobs

\* The lock is given back over recorded lockfiles.
LEMMA ReleaseRecorded ==
  ASSUME IInv, Recorded, NEW u \in Updaters, Release(u)
  PROVE  Recorded'
BY UpdateAssumption DEF IInv, Recorded, Match, Matches, HasRecorded, Release, Exit,
   shellVars, fileVars, TypeOK, Children, LockHeldThroughout, Phases, Critical, Trapped,
   Cleaning, Jobs

\* A signal ends the claim.
LEMMA InterruptRecorded ==
  ASSUME IInv, Recorded, NEW u \in Updaters, Interrupt(u)
  PROVE  Recorded'
BY UpdateAssumption DEF IInv, Recorded, Match, Matches, HasRecorded, Interrupt, Stops, Fails,
   shellVars, fileVars, TypeOK, Children, LockHeldThroughout, Phases, Critical, Trapped,
   Cleaning, Jobs

\* So does this one.
LEMMA TerminateRecorded ==
  ASSUME IInv, Recorded, NEW u \in Updaters, Terminate(u)
  PROVE  Recorded'
BY UpdateAssumption DEF IInv, Recorded, Match, Matches, HasRecorded, Terminate, Stops, Fails,
   shellVars, fileVars, TypeOK, Children, LockHeldThroughout, Phases, Critical, Trapped,
   Cleaning, Jobs

\* A killed shell keeps the lock.
LEMMA KillRecorded ==
  ASSUME IInv, Recorded, NEW u \in Updaters, Kill(u)
  PROVE  Recorded'
BY UpdateAssumption DEF IInv, Recorded, Match, Matches, HasRecorded, Kill,
   shellVars, fileVars, TypeOK, Children, LockHeldThroughout, Phases, Critical, Trapped,
   Cleaning, Jobs

LEMMA InitRecorded == Init => Recorded
BY DEF Init, Recorded, Match, Matches, Critical, Trapped, Cleaning

LEMMA NextRecorded == IInv /\ Recorded /\ [Next]_vars => Recorded'
<1> SUFFICES ASSUME IInv, Recorded, [Next]_vars PROVE Recorded'  OBVIOUS
<1>1. CASE UNCHANGED vars
  BY <1>1 DEF vars, shellVars, fileVars, Recorded, Match, Matches, HasRecorded
<1>2. CASE Next
  BY <1>2, LockRecorded, RefuseRecorded, SetTrapRecorded, CopyRecorded, CopyFailsRecorded, CopiedRecorded,
     RunUpdateRecorded, UpdatedRecorded, RunRepairRecorded, RunRecordRecorded, CommitRecorded,
     ChildWritesRecorded, ChildRecordsRecorded, ChildSucceedsRecorded, ChildFailsRecorded, CleanupRecorded,
     RestoreRecorded, RestoredRecorded, RetainLockRecorded, ReleaseRecorded, InterruptRecorded,
     TerminateRecorded, KillRecorded DEF Next, ScriptStep, ChildStep
<1>. QED  BY <1>1, <1>2

\* Without a signal, whenever no updater holds the transaction lock the
\* database records what each lockfile resolves, after whatever failures
\* (write_database, cleanup and restore_locks).
THEOREM DatabaseMatches == Spec => []DatabaseMatchesLocks
<1>1. Recorded => DatabaseMatchesLocks
  BY DEF Recorded, Matches, DatabaseMatchesLocks, DatabaseInStep
<1>2. Init => IInv /\ Recorded
  BY InitIInv, InitRecorded
<1>3. IInv /\ Recorded /\ [Next]_vars => (IInv /\ Recorded)'
  BY NextIInv, NextRecorded
<1>. QED  BY <1>1, <1>2, <1>3, PTL DEF Spec

===============================================================================
