------------------------- MODULE TraceRecorder_proofs -------------------------
(***************************************************************************)
(* Proofs about TraceRecorder, for every set of callers, records, calls    *)
(* and faults.  IInv is the inductive invariant: a published file (one the *)
(* path names, in memory or on the disk) is synced and out of reach of     *)
(* every running call, and the record of a call that has not renamed is    *)
(* nowhere a later call could copy it from.                                *)
(***************************************************************************)
EXTENDS TraceRecorder, TLAPS

\* Appending an element adds it to the range and nothing else.
LEMMA RangeOfAppend ==
  ASSUME NEW S, NEW s \in Seq(S), NEW x \in S
  PROVE  Range(Append(s, x)) = Range(s) \cup {x}
<1>1. DOMAIN Append(s, x) = 1 .. Len(s) + 1 /\ DOMAIN s = 1 .. Len(s) /\ Len(s) \in Nat
  OBVIOUS
<1>2. \A i \in 1 .. Len(s) : Append(s, x)[i] = s[i]
  OBVIOUS
<1>3. Append(s, x)[Len(s) + 1] = x
  OBVIOUS
<1>4. ASSUME NEW y \in Range(Append(s, x)) PROVE y \in Range(s) \cup {x}
  BY <1>1, <1>2, <1>3 DEF Range
<1>5. ASSUME NEW y \in Range(s) \cup {x} PROVE y \in Range(Append(s, x))
  <2>1. CASE y = x
    BY <2>1, <1>1, <1>3 DEF Range
  <2>2. CASE y \in Range(s)
    BY <2>2, <1>1, <1>2 DEF Range
  <2>3. QED
    BY <2>1, <2>2
<1>6. QED
  BY <1>4, <1>5

\* An empty file holds no record.
LEMMA RangeOfEmpty == Range(<<>>) = {}
BY DEF Range

-----------------------------------------------------------------------------

\* The recorder starts in a state of its types.
LEMMA InitType == Init => TypeOK
<1> SUFFICES ASSUME Init PROVE TypeOK
  OBVIOUS
<1> USE DEF Init, Files
<1>1. file \in [Files -> [state: FileStates, data: Seq(Files)]]
  <2>1. <<Original>> \in Seq(Files) /\ <<>> \in Seq(Files)
    OBVIOUS
  <2>2. QED
    BY <2>1 DEF EmptyFile, FileStates
<1>2. existing \in [Callers -> Seq(Files)]
  OBVIOUS
<1>3. QED
  BY <1>1, <1>2 DEF TypeOK, PcValues, Outcomes

\* Ending a call keeps the types of what it resets.
LEMMA EndType ==
  ASSUME TypeOK, NEW c \in Callers, NEW res \in Outcomes, End(c, res)
  PROVE  /\ pc' \in [Callers -> PcValues]
         /\ line' \in [Callers -> Records \cup {NoRecord}]
         /\ existing' \in [Callers -> Seq(Files)]
         /\ outcome' \in [Records -> Outcomes]
<1> USE DEF TypeOK, End
<1>1. pc' \in [Callers -> PcValues]
  BY DEF PcValues
<1>2. line' \in [Callers -> Records \cup {NoRecord}]
  OBVIOUS
<1>3. existing' \in [Callers -> Seq(Files)]
  <2>1. <<>> \in Seq(Files)
    OBVIOUS
  <2>2. QED
    BY <2>1
<1>4. outcome' \in [Records -> Outcomes]
  OBVIOUS
<1>5. QED
  BY <1>1, <1>2, <1>3, <1>4

\* Every step of a caller keeps the types.
LEMMA StepType ==
  ASSUME TypeOK, NEW c \in Callers, Step(c),
         pc[c] # "idle" => line[c] \in Records
  PROVE  TypeOK'
<1> USE DEF TypeOK, Goto, diskVars
<1>1. CASE Read(c)
  <2>1. Content \in Seq(Files)
    BY DEF Content, ContentOf
  <2>2. QED
    BY <1>1, <2>1 DEF Read, PcValues
<1>2. CASE ReadFails(c)
  BY <1>2, EndType DEF ReadFails, Outcomes
<1>3. CASE Create(c)
  BY <1>3 DEF Create, PcValues, Files, FileStates
<1>4. CASE Write(c)
  <2>1. Append(existing[c], line[c]) \in Seq(Files)
    BY <1>4 DEF Write, Files
  <2>2. QED
    BY <1>4, <2>1 DEF Write, PcValues, Files, FileStates
<1>5. CASE Sync(c)
  BY <1>5 DEF Sync, PcValues, Files, FileStates
<1>6. CASE Rename(c)
  BY <1>6 DEF Rename, PcValues, Files
<1>7. CASE Return(c)
  BY <1>7, EndType DEF Return, Outcomes
<1>8. CASE StepFails(c)
  BY <1>8 DEF StepFails, PcValues
<1>9. CASE Cleanup(c)
  BY <1>9, EndType DEF Cleanup, Outcomes
<1>10. QED
  BY <1>1, <1>2, <1>3, <1>4, <1>5, <1>6, <1>7, <1>8, <1>9 DEF Step

-----------------------------------------------------------------------------
(* The inductive invariant.                                                *)

Busy(c) == pc[c] # "idle"

\* Nothing that another call could read or copy holds r.
Unpublished(r) ==
  /\ r # target /\ r # durable
  /\ r \notin Range(Content) /\ r \notin Range(ContentOf(durable))
  /\ \A c \in Callers : r \notin Range(existing[c])

\* Published files are on the disk: the sync comes before the rename.
Frozen ==
  /\ \A f \in {target, durable} \ {Absent} : file[f].state = "synced"
  /\ \A c \in Callers : pc[c] = "rename" => file[line[c]].state = "synced"

\* A running call owns its record.
Owned ==
  /\ \A c \in Callers : Busy(c) => line[c] \in Records /\ outcome[line[c]] = "running"
  /\ \A c, d \in Callers : Busy(c) /\ Busy(d) /\ line[c] = line[d] => c = d

Hidden ==
  /\ \A r \in Records : outcome[r] \in {"new", "err"} => Unpublished(r)
  /\ \A c \in Callers :
       pc[c] \in {"read", "create", "write", "sync", "rename", "cleanup"}
         => Unpublished(line[c])

\* The temporary file holds what was read plus the new record.
Copied ==
  \A c \in Callers : pc[c] \in {"sync", "rename"} =>
    Range(file[line[c]].data) = Range(existing[c]) \cup {line[c]}

IInv == TypeOK /\ Frozen /\ Owned /\ Hidden /\ Copied

\* The inductive invariant holds before the first call.
LEMMA InitIInv == Init => IInv
<1> SUFFICES ASSUME Init PROVE IInv
  OBVIOUS
<1>1. TypeOK
  BY InitType
<1>2. Frozen
  BY DEF Init, Frozen, Files
<1>3. Owned /\ Copied
  BY DEF Init, Owned, Copied, Busy
<1>4. Hidden
  <2>1. Range(Content) \subseteq {Original} /\ Range(ContentOf(durable)) \subseteq {Original}
    <3>1. Range(<<Original>>) = {Original} /\ Range(<<>>) = {}
      BY DEF Range
    <3>2. QED
      BY <3>1 DEF Init, Content, ContentOf, Files
  <2>2. \A r \in Records : Unpublished(r)
    BY <2>1, NamesAssumption, RangeOfEmpty DEF Init, Unpublished
  <2>3. QED
    BY <2>2 DEF Init, Hidden
<1>5. QED
  BY <1>1, <1>2, <1>3, <1>4 DEF IInv

\* A step that leaves the published files alone and reads nothing publishes nothing.
LEMMA QuietStep ==
  ASSUME NEW r, Unpublished(r), UNCHANGED <<target, durable>>,
         Content' = Content, ContentOf(durable)' = ContentOf(durable),
         \A c \in Callers : existing'[c] = existing[c] \/ existing'[c] = <<>>
  PROVE  Unpublished(r)'
BY RangeOfEmpty DEF Unpublished

\* Writing to the temporary file of a call leaves the published files alone.
LEMMA PrivateWrite ==
  ASSUME TypeOK, NEW r \in Records, Unpublished(r), UNCHANGED <<target, durable>>,
         NEW new, file' = [file EXCEPT ![r] = new]
  PROVE  /\ Content' = Content /\ ContentOf(durable)' = ContentOf(durable)
         /\ \A f \in {target, durable} \ {Absent} : file'[f] = file[f]
BY DEF TypeOK, Content, ContentOf, Unpublished

\* Ending a call: only the caller and its record change.
LEMMA EndOwned ==
  ASSUME TypeOK, Owned, NEW c \in Callers, NEW res, Busy(c), End(c, res)
  PROVE  Owned'
BY DEF TypeOK, Owned, Busy, End

\* Ending a call that published nothing, or had published before, keeps IInv.
LEMMA EndQuiet ==
  ASSUME IInv, NEW c \in Callers, NEW res, res \in {"ok", "err", "killed"},
         Busy(c), End(c, res), UNCHANGED <<file, target, durable>>,
         res = "err" => Unpublished(line[c])
  PROVE  Frozen' /\ Owned' /\ Hidden' /\ Copied'
<1> USE DEF IInv
<1>1. Frozen'
  BY DEF Frozen, End, TypeOK
<1>2. Owned'
  BY EndOwned
<1>3. Copied'
  BY DEF Copied, End, TypeOK
<1>4. ASSUME NEW r, Unpublished(r) PROVE Unpublished(r)'
  BY <1>4, QuietStep DEF End, TypeOK, Content, ContentOf
<1>5. Hidden'
  BY <1>4 DEF Hidden, Owned, Busy, End, TypeOK
<1>6. QED
  BY <1>1, <1>2, <1>3, <1>5

\* A step inside a call that touches at most the caller's temporary file.
LEMMA PrivateStep ==
  ASSUME IInv, NEW c \in Callers,
         pc[c] \in {"create", "write", "sync", "rename"},
         NEW to \in {"write", "sync", "rename", "cleanup"},
         pc' = [pc EXCEPT ![c] = to],
         UNCHANGED <<line, existing, target, durable, outcome>>,
         \/ UNCHANGED file
         \/ \E new : file' = [file EXCEPT ![line[c]] = new]
  PROVE  Owned' /\ Hidden' /\ \A f \in {target, durable} \ {Absent} : file'[f] = file[f]
<1> USE DEF IInv
<1>1. line[c] \in Records /\ Unpublished(line[c])
  BY DEF Owned, Hidden, Busy
<1>2. /\ Content' = Content /\ ContentOf(durable)' = ContentOf(durable)
      /\ \A f \in {target, durable} \ {Absent} : file'[f] = file[f]
  BY <1>1, PrivateWrite DEF Content, ContentOf
<1>3. ASSUME NEW r, Unpublished(r) PROVE Unpublished(r)'
  BY <1>2, <1>3, QuietStep
<1>4. Owned'
  BY DEF Owned, Busy, TypeOK
<1>5. Hidden'
  BY <1>3 DEF Hidden, TypeOK
<1>6. QED
  BY <1>2, <1>4, <1>5

\* Starting a call keeps the inductive invariant.
LEMMA BeginIInv ==
  ASSUME IInv, NEW c \in Callers, NEW r \in Records, NEW call \in Calls,
         Begin(c, r, call)
  PROVE  IInv'
<1> USE DEF IInv, Begin, Goto, diskVars
<1>1. TypeOK'
  BY DEF TypeOK, PcValues, Outcomes
<1>2. Frozen'
  BY DEF Frozen, TypeOK
<1>3. Owned'
  BY DEF Owned, Busy, TypeOK
<1>4. Copied'
  BY DEF Copied, TypeOK
<1>5. ASSUME NEW q, Unpublished(q) PROVE Unpublished(q)'
  BY <1>5, QuietStep DEF Content, ContentOf
<1>6. Hidden'
  BY <1>5 DEF Hidden, TypeOK
<1>7. QED
  BY <1>1, <1>2, <1>3, <1>4, <1>6

\* A refused call keeps it: its record never reaches a file.
LEMMA RefuseIInv ==
  ASSUME IInv, NEW c \in Callers, NEW r \in Records, NEW call \in Calls,
         Refuse(c, r, call)
  PROVE  IInv'
<1> USE DEF IInv, Refuse, diskVars
<1>1. TypeOK'
  BY DEF TypeOK, Outcomes
<1>2. Frozen' /\ Copied'
  BY DEF Frozen, Copied
<1>3. Owned'
  BY DEF Owned, Busy, TypeOK
<1>4. ASSUME NEW q, Unpublished(q) PROVE Unpublished(q)'
  BY <1>4, QuietStep DEF Content, ContentOf
<1>5. Hidden'
  BY <1>4 DEF Hidden, TypeOK
<1>6. QED
  BY <1>1, <1>2, <1>3, <1>5

\* What a call reads holds no unpublished record.
LEMMA ReadIInv ==
  ASSUME IInv, NEW c \in Callers, Read(c)
  PROVE  IInv'
<1> USE DEF IInv, Read, Goto, diskVars
<1>1. TypeOK'
  BY StepType DEF Step, Owned, Busy
<1>2. Frozen'
  BY DEF Frozen, TypeOK
<1>3. Owned'
  BY DEF Owned, Busy, TypeOK
<1>4. Copied'
  BY DEF Copied, TypeOK
<1>5. ASSUME NEW q, Unpublished(q) PROVE Unpublished(q)'
  BY <1>5 DEF Unpublished, Content, ContentOf, TypeOK
<1>6. Hidden'
  BY <1>5 DEF Hidden, TypeOK
<1>7. QED
  BY <1>1, <1>2, <1>3, <1>4, <1>6

\* The rename publishes one record, the caller's, and every other call stays private.
LEMMA RenameIInv ==
  ASSUME IInv, NEW c \in Callers, Rename(c)
  PROVE  IInv'
<1> USE DEF IInv, Rename, Goto
<1>1. TypeOK'
  BY StepType DEF Step, Owned, Busy
<1>2. line[c] \in Records /\ outcome[line[c]] = "running"
  BY DEF Owned, Busy
<1>3. Frozen'
  BY DEF Frozen, TypeOK
<1>4. Owned'
  BY DEF Owned, Busy, TypeOK
<1>5. Copied'
  BY DEF Copied, TypeOK
<1>6. Content' = file[line[c]].data /\ ContentOf(durable)' = ContentOf(durable)
  BY <1>2, NamesAssumption DEF Content, ContentOf
<1>7. ASSUME NEW q, Unpublished(q), q # line[c] PROVE Unpublished(q)'
  <2>1. q \notin Range(file[line[c]].data)
    BY <1>7 DEF Copied, Unpublished
  <2>2. QED
    BY <1>6, <1>7, <2>1 DEF Unpublished
<1>8. Hidden'
  BY <1>2, <1>7 DEF Hidden, Owned, Busy, TypeOK
<1>9. QED
  BY <1>1, <1>3, <1>4, <1>5, <1>8

\* Copied, when caller c has written to its own temporary file only.
LEMMA CopiedStep ==
  ASSUME IInv, NEW c \in Callers, Busy(c), UNCHANGED <<line, existing>>,
         NEW to, pc' = [pc EXCEPT ![c] = to],
         NEW new, file' = [file EXCEPT ![line[c]] = new],
         to \in {"sync", "rename"} =>
           Range(new.data) = Range(existing[c]) \cup {line[c]}
  PROVE  Copied'
<1> SUFFICES ASSUME NEW d \in Callers, pc'[d] \in {"sync", "rename"}
             PROVE  Range(file'[line[d]].data) = Range(existing[d]) \cup {line[d]}
  BY DEF Copied
<1> USE DEF IInv
<1>1. line[c] \in Files
  BY DEF Owned, Files
<1>2. CASE d = c
  <2>1. file'[line[d]] = new /\ to \in {"sync", "rename"}
    BY <1>1, <1>2 DEF TypeOK
  <2>2. QED
    BY <1>2, <2>1
<1>3. CASE d # c
  <2>1. pc[d] \in {"sync", "rename"} /\ Busy(d)
    BY <1>3 DEF TypeOK, Busy
  <2>2. file'[line[d]] = file[line[d]]
    BY <1>3, <2>1 DEF Owned, TypeOK, Files
  <2>3. QED
    BY <2>1, <2>2 DEF Copied
<1>4. QED
  BY <1>2, <1>3

\* Creating the temporary file keeps it: the file is the caller's alone.
LEMMA CreateIInv ==
  ASSUME IInv, NEW c \in Callers, Create(c)
  PROVE  IInv'
<1> USE DEF IInv, Create, Goto
<1>1. TypeOK'
  BY StepType DEF Step, Owned, Busy
<1>2. Owned' /\ Hidden' /\ \A f \in {target, durable} \ {Absent} : file'[f] = file[f]
  BY PrivateStep
<1>3. line[c] \in Records /\ \A d \in Callers : d # c /\ Busy(d) => line[d] # line[c]
  BY DEF Owned, Busy
<1>4. Frozen'
  BY <1>2, <1>3 DEF Frozen, TypeOK, Files, Busy
<1>5. Copied'
  <2> DEFINE new == [state |-> "partial", data |-> <<>>]
  <2>1. pc' = [pc EXCEPT ![c] = "write"] /\ file' = [file EXCEPT ![line[c]] = new]
    OBVIOUS
  <2>2. Busy(c) /\ UNCHANGED <<line, existing>> /\ "write" \notin {"sync", "rename"}
    BY DEF Busy
  <2> HIDE DEF new
  <2>3. QED
    BY <2>1, <2>2, CopiedStep
<1>6. QED
  BY <1>1, <1>2, <1>4, <1>5

\* Writing the temporary file keeps it: what is copied was published.
LEMMA WriteIInv ==
  ASSUME IInv, NEW c \in Callers, Write(c)
  PROVE  IInv'
<1> USE DEF IInv, Write, Goto
<1>1. TypeOK'
  BY StepType DEF Step, Owned, Busy
<1>2. Owned' /\ Hidden' /\ \A f \in {target, durable} \ {Absent} : file'[f] = file[f]
  BY PrivateStep
<1>3. line[c] \in Records /\ \A d \in Callers : d # c /\ Busy(d) => line[d] # line[c]
  BY DEF Owned, Busy
<1>4. Frozen'
  BY <1>2, <1>3 DEF Frozen, TypeOK, Files, Busy
<1>5. Range(Append(existing[c], line[c])) = Range(existing[c]) \cup {line[c]}
  BY <1>3, RangeOfAppend DEF TypeOK, Files
<1>6. Copied'
  BY <1>5, CopiedStep DEF Busy
<1>7. QED
  BY <1>1, <1>2, <1>4, <1>6

\* Syncing the temporary file keeps it.
LEMMA SyncIInv ==
  ASSUME IInv, NEW c \in Callers, Sync(c)
  PROVE  IInv'
<1> USE DEF IInv, Sync, Goto
<1>1. TypeOK'
  BY StepType DEF Step, Owned, Busy
<1>2. Owned' /\ Hidden' /\ \A f \in {target, durable} \ {Absent} : file'[f] = file[f]
  BY PrivateStep
<1>3. line[c] \in Records /\ \A d \in Callers : d # c /\ Busy(d) => line[d] # line[c]
  BY DEF Owned, Busy
<1>4. Frozen'
  BY <1>2, <1>3 DEF Frozen, TypeOK, Files, Busy
<1>5. Copied'
  <2>1. file' = [file EXCEPT ![line[c]] = [file[line[c]] EXCEPT !.state = "synced"]]
    BY DEF TypeOK
  <2>2. [file[line[c]] EXCEPT !.state = "synced"].data = file[line[c]].data
    BY <1>3 DEF TypeOK, Files
  <2>3. QED
    BY <2>1, <2>2, CopiedStep DEF Copied, Busy
<1>6. QED
  BY <1>1, <1>2, <1>4, <1>5

\* A failing file operation keeps it: the record is not published yet.
LEMMA StepFailsIInv ==
  ASSUME IInv, NEW c \in Callers, StepFails(c)
  PROVE  IInv'
<1> USE DEF IInv, StepFails, diskVars, FileSteps
<1>1. TypeOK'
  BY StepType DEF Step, Owned, Busy
<1>2. Owned' /\ Hidden'
  BY PrivateStep
<1>3. Frozen' /\ Copied'
  BY DEF Frozen, Copied, TypeOK
<1>4. QED
  BY <1>1, <1>2, <1>3

\* Every step of a running call keeps it.
LEMMA StepIInv ==
  ASSUME IInv, NEW c \in Callers, Step(c)
  PROVE  IInv'
<1>1. TypeOK'
  BY StepType DEF IInv, Owned, Busy
<1>2. CASE ReadFails(c)
  BY <1>1, <1>2, EndQuiet DEF ReadFails, IInv, Hidden, Busy, diskVars
<1>3. CASE Return(c)
  BY <1>1, <1>3, EndQuiet DEF Return, IInv, Busy, diskVars
<1>4. CASE Cleanup(c)
  BY <1>1, <1>4, EndQuiet DEF Cleanup, IInv, Hidden, Busy
<1>5. QED
  BY <1>2, <1>3, <1>4, ReadIInv, CreateIInv, WriteIInv, SyncIInv, RenameIInv, StepFailsIInv
     DEF Step

\* The death of a caller keeps it.
LEMMA KillIInv ==
  ASSUME IInv, NEW c \in Callers, Kill(c)
  PROVE  IInv'
<1>1. TypeOK'
  <2>1. stray' \subseteq Records
    BY DEF Kill, IInv, TypeOK
  <2>2. QED
    BY <2>1, EndType DEF Kill, IInv, TypeOK, diskVars, Outcomes
<1>2. QED
  BY <1>1, EndQuiet DEF Kill, IInv, Busy, diskVars

\* Writing the directory entry to the disk keeps it.
LEMMA WritebackIInv ==
  ASSUME IInv, Writeback
  PROVE  IInv'
<1> USE DEF IInv, Writeback
<1>1. TypeOK' /\ Frozen' /\ Owned' /\ Copied'
  BY DEF TypeOK, Frozen, Owned, Busy, Copied
<1>2. ASSUME NEW q, Unpublished(q) PROVE Unpublished(q)'
  BY <1>2 DEF Unpublished, Content, ContentOf
<1>3. Hidden'
  BY <1>2 DEF Hidden
<1>4. QED
  BY <1>1, <1>3

\* A power loss keeps it: the file it falls back to is synced.
LEMMA PowerLossIInv ==
  ASSUME IInv, PowerLoss
  PROVE  IInv'
<1> USE DEF IInv, PowerLoss
<1>1. file' \in [Files -> [state: FileStates, data: Seq(Files)]]
  <2>1. <<>> \in Seq(Files)
    OBVIOUS
  <2>2. QED
    BY <2>1 DEF TypeOK, FileStates
<1>2. existing' \in [Callers -> Seq(Files)]
  OBVIOUS
<1>3. TypeOK'
  BY <1>1, <1>2 DEF TypeOK, PcValues, Outcomes
<1>4. \A f \in {durable} \ {Absent} : file'[f] = file[f]
  BY DEF Frozen, TypeOK
<1>5. Frozen' /\ Owned' /\ Copied'
  BY <1>4 DEF Frozen, Owned, Busy, Copied
<1>6. Content' = ContentOf(durable) /\ ContentOf(durable)' = ContentOf(durable)
  BY <1>4 DEF Content, ContentOf
<1>7. ASSUME NEW q, Unpublished(q) PROVE Unpublished(q)'
  BY <1>6, <1>7, RangeOfEmpty DEF Unpublished
<1>8. Hidden'
  BY <1>7 DEF Hidden, TypeOK
<1>9. QED
  BY <1>3, <1>5, <1>8

-----------------------------------------------------------------------------

\* The invariant is inductive.
LEMMA NextIInv == IInv /\ [Next]_vars => IInv'
<1> SUFFICES ASSUME IInv, [Next]_vars PROVE IInv'
  OBVIOUS
<1>1. CASE UNCHANGED vars
  BY <1>1 DEF vars, IInv, TypeOK, Frozen, Owned, Busy, Hidden, Unpublished, Copied,
              Content, ContentOf
<1>2. CASE Next
  BY <1>2, BeginIInv, RefuseIInv, StepIInv, KillIInv, WritebackIInv, PowerLossIInv DEF Next
<1>3. QED
  BY <1>1, <1>2

\* The inductive invariant holds in every reachable state.
THEOREM Inductive == Spec => []IInv
BY InitIInv, NextIInv, PTL DEF Spec

\* Every variable keeps its type, whatever the sets of callers, records and calls.
THEOREM TypeCorrect == Spec => []TypeOK
<1>1. IInv => TypeOK
  BY DEF IInv
<1>2. QED
  BY <1>1, Inductive, PTL

\* Each append replaces the target atomically: no number of callers, failures,
\* deaths and power losses makes the path name a partial file.
THEOREM AtomicReplacement == Spec => []TargetWhole
<1>1. IInv => TargetWhole
  BY DEF IInv, Frozen, TargetWhole
<1>2. QED
  BY <1>1, Inductive, PTL

\* A call that returned an error left its record in no published file and in
\* nothing a running call will copy there.
THEOREM ErrorsAppendNothing == Spec => []FailedNeverAppears
<1>1. IInv => FailedNeverAppears
  BY DEF IInv, Hidden, Unpublished, FailedNeverAppears
<1>2. QED
  BY <1>1, Inductive, PTL

-----------------------------------------------------------------------------
(***************************************************************************)
(* What TraceRecorder leaves on the disk, for every set of callers,        *)
(* records, calls and faults: the prior content survives, every temporary  *)
(* file is accounted for, and no file holds data that the capture mode     *)
(* refuses.  Each part is inductive relative to IInv.                      *)
(***************************************************************************)

\* What was in the target before the first call, in memory, on the disk, and
\* in what a running call is about to copy.
Prior ==
  /\ file[Original].state \in {"unused", "synced"}
  /\ file[Original].state # "unused" =>
       /\ target # Absent /\ Original \in Range(Content)
       /\ durable # Absent /\ Original \in Range(ContentOf(durable))
       /\ \A c \in Callers : pc[c] \in FileSteps => Original \in Range(existing[c])

\* A temporary name exists from create_new to rename or remove_file, or comes
\* back of a file that was created.
Temps ==
  /\ TempsAccounted
  /\ \A c \in Callers : ~Busy(c) => line[c] = NoRecord
  /\ \A r \in Records : outcome[r] = "new" => r \notin temps /\ file[r].state = "unused"
  /\ \A c \in Callers : pc[c] \in {"read", "create", "return"} => line[c] \notin temps

\* The record of a call may be written: its payload is not forbidden.
Allowed(call) ==
  Payload(call) # NoPayload =>
    /\ Payload(call).retention # "Restricted"
    /\ call.capture = "Redacted" => Payload(call).valid

\* A record that is in a file, or about to be, comes from a call that was not refused.
Vetted ==
  /\ \A r \in Records, f \in Files :
       r \in Range(file[f].data) => outcome[r] # "new" /\ Allowed(request[r])
  /\ \A r \in Records, c \in Callers :
       r \in Range(existing[c]) => outcome[r] # "new" /\ Allowed(request[r])
  /\ \A c \in Callers : Busy(c) => Allowed(request[line[c]])

-----------------------------------------------------------------------------

\* A step that leaves the files and what callers read alone keeps Prior.
LEMMA PriorQuiet ==
  ASSUME IInv, Prior, UNCHANGED <<target, durable, file>>,
         \A c \in Callers : pc'[c] \in FileSteps =>
           pc[c] \in FileSteps /\ existing'[c] = existing[c]
  PROVE  Prior'
BY DEF Prior, Content, ContentOf

\* A step of a caller that writes at most its own temporary file keeps Prior.
LEMMA PriorPrivate ==
  ASSUME IInv, Prior, NEW c \in Callers, pc[c] \in FileSteps, NEW new,
         UNCHANGED <<target, durable, existing>>,
         file' = [file EXCEPT ![line[c]] = new],
         \A d \in Callers : pc'[d] \in FileSteps => pc[d] \in FileSteps
  PROVE  Prior'
<1>1. line[c] \in Records /\ Unpublished(line[c])
  BY DEF IInv, Owned, Hidden, Busy, FileSteps
<1>2. Content' = Content /\ ContentOf(durable)' = ContentOf(durable)
  BY <1>1, PrivateWrite DEF IInv
<1>3. file'[Original] = file[Original]
  BY <1>1, NamesAssumption DEF IInv, TypeOK, Files
<1>. QED
  BY <1>2, <1>3 DEF Prior

\* What the target held survives every step.
LEMMA PriorStep == IInv /\ Prior /\ [Next]_vars => Prior'
<1> SUFFICES ASSUME IInv, Prior, [Next]_vars PROVE Prior'
  OBVIOUS
<1>1. CASE UNCHANGED vars
  BY <1>1, PriorQuiet DEF vars
<1>2. ASSUME NEW c \in Callers, NEW r \in Records, NEW call \in Calls,
             Begin(c, r, call) \/ Refuse(c, r, call)
      PROVE  Prior'
  BY <1>2, PriorQuiet DEF Begin, Refuse, Goto, diskVars, FileSteps, IInv, TypeOK
<1>3. ASSUME NEW c \in Callers, ReadFails(c) \/ Return(c) \/ Cleanup(c) \/ Kill(c)
      PROVE  Prior'
  BY <1>3, PriorQuiet DEF ReadFails, Return, Cleanup, Kill, End, diskVars, FileSteps, IInv, TypeOK
<1>4. ASSUME NEW c \in Callers, Read(c) PROVE Prior'
  BY <1>4 DEF Read, Goto, diskVars, FileSteps, Prior, Content, ContentOf, IInv, TypeOK
<1>5. ASSUME NEW c \in Callers, StepFails(c) PROVE Prior'
  BY <1>5, PriorQuiet DEF StepFails, diskVars, FileSteps, IInv, TypeOK
<1>6. ASSUME NEW c \in Callers, Create(c) \/ Write(c) PROVE Prior'
  <2>1. pc[c] \in FileSteps /\ UNCHANGED <<target, durable, existing>>
    BY <1>6 DEF Create, Write, Goto, FileSteps
  <2>2. \A d \in Callers : pc'[d] \in FileSteps => pc[d] \in FileSteps
    BY <1>6 DEF Create, Write, Goto, FileSteps, IInv, TypeOK
  <2>3. \E new : file' = [file EXCEPT ![line[c]] = new]
    BY <1>6 DEF Create, Write
  <2>. QED
    BY <2>1, <2>2, <2>3, PriorPrivate
<1>7. ASSUME NEW c \in Callers, Sync(c) PROVE Prior'
  <2>1. pc[c] \in FileSteps /\ UNCHANGED <<target, durable, existing>>
    BY <1>7 DEF Sync, Goto, FileSteps
  <2>2. \A d \in Callers : pc'[d] \in FileSteps => pc[d] \in FileSteps
    BY <1>7 DEF Sync, Goto, FileSteps, IInv, TypeOK
  <2>3. file' = [file EXCEPT ![line[c]] = [file[line[c]] EXCEPT !.state = "synced"]]
    BY <1>7 DEF Sync, IInv, TypeOK
  <2>. QED
    BY <2>1, <2>2, <2>3, PriorPrivate
<1>8. ASSUME NEW c \in Callers, Rename(c) PROVE Prior'
  <2>1. Content' = file[line[c]].data /\ ContentOf(durable)' = ContentOf(durable)
    BY <1>8, NamesAssumption DEF Rename, Goto, Content, ContentOf, IInv, Owned, Busy
  <2>2. Range(Content') = Range(existing[c]) \cup {line[c]}
    BY <1>8, <2>1 DEF Rename, Goto, IInv, Copied
  <2>3. target' \in Records /\ UNCHANGED <<file, existing, durable>>
    BY <1>8 DEF Rename, Goto, IInv, Owned, Busy
  <2>4. pc[c] \in FileSteps /\ \A d \in Callers : pc'[d] \in FileSteps => pc[d] \in FileSteps
    BY <1>8 DEF Rename, Goto, FileSteps, IInv, TypeOK
  <2>. QED
    BY <2>1, <2>2, <2>3, <2>4, NamesAssumption DEF Prior
<1>9. CASE Writeback
  BY <1>9 DEF Writeback, Prior, Content, ContentOf
<1>10. CASE PowerLoss
  <2>1. \A f \in {durable} \ {Absent} : file'[f] = file[f]
    BY <1>10 DEF PowerLoss, IInv, Frozen, TypeOK
  <2>2. Content' = ContentOf(durable) /\ ContentOf(durable)' = ContentOf(durable)
    BY <1>10, <2>1 DEF PowerLoss, Content, ContentOf
  <2>3. file'[Original] = file[Original]
    BY <1>10 DEF PowerLoss, Prior, Files
  <2>4. \A c \in Callers : pc'[c] \notin FileSteps
    BY <1>10 DEF PowerLoss, FileSteps
  <2>. QED
    BY <1>10, <2>2, <2>3, <2>4 DEF PowerLoss, Prior
<1>. QED
  BY <1>1, <1>2, <1>3, <1>4, <1>5, <1>6, <1>7, <1>8, <1>9, <1>10 DEF Next, Step

-----------------------------------------------------------------------------

\* Every step leaves each temporary name to a running call or counts it as stray.
LEMMA TempsStep == IInv /\ Temps /\ [Next]_vars => Temps'
<1> SUFFICES ASSUME IInv, Temps, [Next]_vars PROVE Temps'
  OBVIOUS
<1> USE DEF IInv, Temps, TempsAccounted, Busy
<1>1. CASE UNCHANGED vars
  BY <1>1 DEF vars
<1>2. ASSUME NEW c \in Callers, NEW r \in Records, NEW call \in Calls, Begin(c, r, call)
      PROVE  Temps'
  BY <1>2, NamesAssumption DEF Begin, Goto, diskVars, TypeOK
<1>3. ASSUME NEW c \in Callers, NEW r \in Records, NEW call \in Calls, Refuse(c, r, call)
      PROVE  Temps'
  BY <1>3 DEF Refuse, diskVars, TypeOK
<1>4. ASSUME NEW c \in Callers, ReadFails(c) \/ Return(c) \/ Kill(c) PROVE Temps'
  <2>1. CASE ReadFails(c)
    BY <2>1 DEF ReadFails, End, diskVars, TypeOK, Owned
  <2>2. CASE Return(c)
    BY <2>2 DEF Return, End, diskVars, TypeOK, Owned
  <2>3. CASE Kill(c)
    BY <2>3 DEF Kill, End, diskVars, TypeOK, Owned
  <2>. QED
    BY <1>4, <2>1, <2>2, <2>3
<1>5. ASSUME NEW c \in Callers, Cleanup(c) PROVE Temps'
  BY <1>5 DEF Cleanup, End, TypeOK, Owned
<1>6. ASSUME NEW c \in Callers, Read(c) \/ StepFails(c) \/ Sync(c) \/ Write(c) PROVE Temps'
  <2>1. CASE Read(c) \/ StepFails(c)
    BY <2>1 DEF Read, StepFails, Goto, diskVars, FileSteps, TypeOK
  <2>2. CASE Sync(c) \/ Write(c)
    <3>1. outcome[line[c]] = "running" /\ \A r \in Records \ {line[c]} : file'[r] = file[r]
      BY <2>2 DEF Sync, Write, Goto, Owned, TypeOK, Files
    <3>2. \A r \in Records : outcome[r] = "new" => file'[r].state = "unused"
      BY <3>1
    <3>3. UNCHANGED <<outcome, line, temps, stray>>
      BY <2>2 DEF Sync, Write
    <3>4. TempsAccounted'  BY <3>3
    <3>5. \A d \in Callers : pc'[d] \in {"read", "create", "return"} => pc'[d] = pc[d]
      BY <2>2 DEF Sync, Write, Goto, TypeOK
    <3>6. \A d \in Callers : (~Busy(d))' => ~Busy(d)
      BY <2>2 DEF Sync, Write, Goto, TypeOK
    <3>. QED  BY <3>2, <3>3, <3>4, <3>5, <3>6
  <2>. QED  BY <1>6, <2>1, <2>2
<1>7. ASSUME NEW c \in Callers, Create(c) PROVE Temps'
  <2>1. outcome[line[c]] = "running" /\ \A r \in Records \ {line[c]} : file'[r] = file[r]
    BY <1>7 DEF Create, Goto, Owned, TypeOK, Files
  <2>. QED  BY <1>7, <2>1 DEF Create, Goto, TypeOK, Owned
<1>8. ASSUME NEW c \in Callers, Rename(c) PROVE Temps'
  BY <1>8 DEF Rename, Goto, TypeOK, Owned
<1>9. CASE Writeback
  BY <1>9 DEF Writeback
<1>10. CASE PowerLoss
  <2>1. \A r \in Records : file[r].state = "unused" => file'[r].state = "unused"
    BY <1>10 DEF PowerLoss, TypeOK, Files
  <2>. QED  BY <1>10, <2>1 DEF PowerLoss, TypeOK
<1>. QED
  BY <1>1, <1>2, <1>3, <1>4, <1>5, <1>6, <1>7, <1>8, <1>9, <1>10 DEF Next, Step

-----------------------------------------------------------------------------

\* A file of typed records holds nothing else.
LEMMA RangeOfSeq ==
  ASSUME NEW S, NEW s \in Seq(S)
  PROVE  Range(s) \subseteq S
<1>1. DOMAIN s = 1 .. Len(s) /\ \A i \in 1 .. Len(s) : s[i] \in S
  OBVIOUS
<1>. QED
  BY <1>1 DEF Range

\* A call that begins was not refused, so its record may be written.
LEMMA AcceptedIsAllowed ==
  ASSUME NEW call \in Calls, ~Refuses(call)
  PROVE  Allowed(call)
<1> USE DEF Allowed, Payload, Refuses
<1>1. CASE call = TraceCall
  BY <1>1 DEF TraceCall
<1>2. CASE call \in ObservationCalls
  BY <1>2 DEF ObservationCalls, Observations, ObservationCaptures, RefusesRedacted, RefusesFull
<1>. QED
  BY <1>1, <1>2, CallsAssumption

\* No step puts the record of a refused call into a file, nor into what is copied.
LEMMA VettedStep == IInv /\ Vetted /\ [Next]_vars => Vetted'
<1> SUFFICES ASSUME IInv, Vetted, [Next]_vars PROVE Vetted'
  OBVIOUS
<1> USE DEF IInv, Busy
<1>1. CASE UNCHANGED vars
  BY <1>1 DEF vars, Vetted
<1>2. ASSUME NEW c \in Callers, NEW r \in Records, NEW call \in Calls, Begin(c, r, call)
      PROVE  Vetted'
  BY <1>2, AcceptedIsAllowed DEF Begin, Goto, diskVars, Vetted, TypeOK, Owned
<1>3. ASSUME NEW c \in Callers, NEW r \in Records, NEW call \in Calls, Refuse(c, r, call)
      PROVE  Vetted'
  BY <1>3 DEF Refuse, diskVars, Vetted, TypeOK, Owned
<1>4. ASSUME NEW c \in Callers, ReadFails(c) \/ Return(c) \/ Kill(c) \/ Cleanup(c)
      PROVE  Vetted'
  <2>1. PICK res \in {"ok", "err", "killed"} : End(c, res)
    BY <1>4 DEF ReadFails, Return, Kill, Cleanup
  <2>2. UNCHANGED <<file, request>>
    BY <1>4 DEF ReadFails, Return, Kill, Cleanup, diskVars
  <2>3. \A r \in Records : outcome[r] # "new" => outcome'[r] # "new"
    BY <2>1 DEF End, TypeOK
  <2>4. \A d \in Callers : existing'[d] \in {<<>>, existing[d]}
    BY <2>1 DEF End, TypeOK
  <2>5. \A d \in Callers : pc'[d] # "idle" => pc[d] # "idle" /\ line'[d] = line[d]
    BY <2>1 DEF End, TypeOK
  <2>. QED
    BY <2>2, <2>3, <2>4, <2>5, RangeOfEmpty DEF Vetted
<1>5. ASSUME NEW c \in Callers, Read(c) PROVE Vetted'
  BY <1>5, RangeOfEmpty DEF Read, Goto, diskVars, Content, ContentOf, Vetted, TypeOK
<1>6. ASSUME NEW c \in Callers, StepFails(c) \/ Rename(c) PROVE Vetted'
  BY <1>6 DEF StepFails, Rename, Goto, diskVars, FileSteps, Vetted, TypeOK
<1>7. ASSUME NEW c \in Callers, Create(c) PROVE Vetted'
  BY <1>7, RangeOfEmpty DEF Create, Goto, Vetted, TypeOK
<1>8. ASSUME NEW c \in Callers, Write(c) PROVE Vetted'
  <2>1. line[c] \in Records /\ outcome[line[c]] = "running" /\ Allowed(request[line[c]])
    BY <1>8 DEF Write, Goto, Owned, Vetted
  <2>2. Range(Append(existing[c], line[c])) = Range(existing[c]) \cup {line[c]}
    <3>1. existing[c] \in Seq(Files) /\ line[c] \in Files
      BY <2>1 DEF TypeOK, Files
    <3>. QED
      BY ONLY <3>1, RangeOfAppend
  <2>. QED
    BY <1>8, <2>1, <2>2 DEF Write, Goto, Vetted, TypeOK
<1>9. ASSUME NEW c \in Callers, Sync(c) PROVE Vetted'
  BY <1>9 DEF Sync, Goto, Vetted, TypeOK
<1>10. CASE Writeback
  BY <1>10 DEF Writeback, Vetted
<1>11. CASE PowerLoss
  <2>1. \A f \in Files : file'[f].data \in {<<>>, file[f].data}
    BY <1>11 DEF PowerLoss
  <2>2. \A r \in Records : outcome[r] # "new" => outcome'[r] # "new"
    BY <1>11 DEF PowerLoss
  <2>3. \A c \in Callers : existing'[c] = <<>> /\ pc'[c] = "idle"
    BY <1>11 DEF PowerLoss
  <2>4. request' = request
    BY <1>11 DEF PowerLoss
  <2>. QED
    BY <2>1, <2>2, <2>3, <2>4, RangeOfEmpty DEF Vetted
<1>. QED
  BY <1>1, <1>2, <1>3, <1>4, <1>5, <1>6, <1>7, <1>8, <1>9, <1>10, <1>11 DEF Next, Step

-----------------------------------------------------------------------------

\* Before the first call the target holds its own content, if there is one.
LEMMA InitDisk == Init => Prior /\ Temps /\ Vetted
<1> SUFFICES ASSUME Init PROVE Prior /\ Temps /\ Vetted
  OBVIOUS
<1>1. Range(<<Original>>) = {Original} /\ Range(<<>>) = {}
  BY DEF Range
<1>2. \A f \in Files : file[f].data \in {<<>>, <<Original>>}
  BY DEF Init, EmptyFile
<1>3. Prior
  BY <1>1, NamesAssumption DEF Init, Prior, Content, ContentOf, Files, EmptyFile, FileSteps
<1>4. Temps
  BY NamesAssumption DEF Init, Files, EmptyFile, Temps, TempsAccounted, Busy
<1>5. Vetted
  BY <1>1, <1>2, NamesAssumption DEF Init, Vetted, Busy
<1>. QED
  BY <1>3, <1>4, <1>5

\* No interleaving, fault or restart loses what the target held before the first
\* call: the target never disappears and every later version still holds it.
THEOREM PriorContentKept == Spec => []PriorKept
<1>1. Prior => PriorKept
  BY DEF Prior, PriorKept
<1>. QED
  BY <1>1, Inductive, InitDisk, PriorStep, PTL DEF Spec

\* No error path forgets a temporary file: each belongs to a running call, or to
\* one that died or could not remove it.
THEOREM NoForgottenFile == Spec => []TempsAccounted
<1>1. Temps => TempsAccounted
  BY DEF Temps
<1>. QED
  BY <1>1, Inductive, InitDisk, TempsStep, PTL DEF Spec

\* No file, temporary or left behind included, ever holds Restricted data or
\* redactor output that validation rejects.
THEOREM NothingForbidden == Spec => []NothingForbiddenOnDisk
<1>1. TypeOK /\ Vetted => NothingForbiddenOnDisk
  <2>1. TypeOK => \A f \in Files : Range(file[f].data) \subseteq Files
    BY RangeOfSeq DEF TypeOK
  <2>. QED
    BY <2>1 DEF Vetted, Allowed, NothingForbiddenOnDisk, Files
<1>. QED
  BY <1>1, TypeCorrect, Inductive, InitDisk, VettedStep, PTL DEF Spec

-----------------------------------------------------------------------------
(***************************************************************************)
(* The refinement: with one caller the file protocol implements AppendLog. *)
(***************************************************************************)

\* What holds while the only caller is c: its record is the one that is running,
\* nobody replaces the target between its read and its rename, and the disk
\* falls back to a prefix of what the target holds.
Serial(c) ==
  /\ \A r \in Records : outcome[r] = "running" => Busy(c) /\ line[c] = r
  /\ pc[c] \in FileSteps => existing[c] = Content
  /\ pc[c] \in {"sync", "rename"} => file[line[c]].data = Append(existing[c], line[c])
  /\ pc[c] = "return" => line[c] \in Range(Content)
  /\ \E n \in 0 .. Len(Content) : ContentOf(durable) = SubSeq(Content, 1, n)

\* Published content is a sequence of records.
LEMMA ContentType ==
  ASSUME TypeOK
  PROVE  Content \in Seq(Files) /\ ContentOf(durable) \in Seq(Files)
BY DEF TypeOK, Content, ContentOf

\* The calls' outcomes as AppendLog sees them.
LEMMA StatusOf ==
  ASSUME NEW r \in Records
  PROVE  /\ outcome[r] = "new" => status[r] = "new"
         /\ outcome[r] = "running" => status[r] = "open"
         /\ outcome[r] = "ok" => status[r] = "ok"
         /\ outcome[r] = "err" => status[r] = "err"
         /\ outcome[r] = "killed" => status[r] = "lost"
BY DEF status, Fate

\* A call that changes its outcome changes its status and no other's.
LEMMA StatusChange ==
  ASSUME TypeOK, NEW r \in Records, NEW res \in Outcomes, outcome' = [outcome EXCEPT ![r] = res]
  PROVE  /\ res = "running" => status' = [status EXCEPT ![r] = "open"]
         /\ res = "ok" => status' = [status EXCEPT ![r] = "ok"]
         /\ res = "err" => status' = [status EXCEPT ![r] = "err"]
         /\ res = "killed" => status' = [status EXCEPT ![r] = "lost"]
<1>1. outcome' \in [Records -> Outcomes] /\ outcome'[r] = res /\ \A q \in Records \ {r} : outcome'[q] = outcome[q]
  BY DEF TypeOK
<1>2. status' = [status EXCEPT ![r] = Fate[res]]
  BY <1>1 DEF status
<1>3. /\ Fate["running"] = "open" /\ Fate["ok"] = "ok"
      /\ Fate["err"] = "err" /\ Fate["killed"] = "lost"
  BY DEF Fate
<1>4. QED
  BY <1>2, <1>3

\* A record is in the abstract log when it is in the range of the content.
LEMMA InLogIsRange ==
  ASSUME TypeOK, NEW r
  PROVE  Log!InLog(r) <=> r \in Range(Content)
BY DEF Log!InLog, Range

\* Steps before the rename leave what a reader sees alone.
LEMMA QuietContent ==
  ASSUME IInv, NEW c \in Callers,
         Read(c) \/ ReadFails(c) \/ Create(c) \/ Write(c) \/ Sync(c) \/ StepFails(c) \/ Cleanup(c)
           \/ Return(c) \/ Kill(c)
  PROVE  Content' = Content /\ ContentOf(durable)' = ContentOf(durable)
<1>1. CASE Read(c) \/ ReadFails(c) \/ StepFails(c) \/ Cleanup(c) \/ Return(c) \/ Kill(c)
  BY <1>1 DEF Read, ReadFails, StepFails, Cleanup, Return, Kill, diskVars, Content, ContentOf
<1>2. CASE Create(c) \/ Write(c) \/ Sync(c)
  <2>1. /\ pc[c] \in {"create", "write", "sync"} /\ UNCHANGED <<target, durable>>
        /\ \E new : file' = [file EXCEPT ![line[c]] = new]
    BY <1>2 DEF Create, Write, Sync, Goto
  <2>2. TypeOK /\ line[c] \in Records /\ Unpublished(line[c])
    BY <2>1 DEF IInv, Owned, Hidden, Busy
  <2>3. QED
    BY <2>1, <2>2, PrivateWrite
<1>3. QED
  BY <1>1, <1>2

\* A rename appends the caller's record to what a reader sees.
LEMMA RenameAppends ==
  ASSUME IInv, NEW c \in Callers, Serial(c), Rename(c)
  PROVE  /\ line[c] \in Records
         /\ Content' = Append(Content, line[c])
         /\ ContentOf(durable)' = ContentOf(durable)
<1>1. pc[c] = "rename" /\ target' = line[c] /\ UNCHANGED <<line, existing, file, durable>>
  BY DEF Rename, Goto
<1>2. TypeOK /\ line[c] \in Records
  BY <1>1 DEF IInv, Owned, Busy
<1>3. line[c] # Absent
  BY <1>2, NamesAssumption
<1>4. file[line[c]].data = Append(Content, line[c])
  BY <1>1 DEF Serial, FileSteps
<1>5. QED
  BY <1>1, <1>2, <1>3, <1>4 DEF Content, ContentOf

\* Appending leaves every prefix as it was.
LEMMA PrefixOfAppend ==
  ASSUME NEW S, NEW s \in Seq(S), NEW x \in S, NEW n \in 0 .. Len(s)
  PROVE  n \in 0 .. Len(Append(s, x)) /\ SubSeq(Append(s, x), 1, n) = SubSeq(s, 1, n)
<1>1. Append(s, x) \in Seq(S) /\ Len(Append(s, x)) = Len(s) + 1 /\ Len(s) \in Nat
  OBVIOUS
<1>2. \A i \in 1 .. n : Append(s, x)[i] = s[i]
  OBVIOUS
<1>3. QED
  BY <1>1, <1>2

\* What the disk names was synced: a power loss falls back to it whole.
LEMMA PowerLossKeeps ==
  ASSUME IInv, PowerLoss
  PROVE  ContentOf(durable)' = ContentOf(durable) /\ Content' = ContentOf(durable)
BY DEF PowerLoss, IInv, TypeOK, Frozen, Content, ContentOf

\* One caller's calls begin and end one after the other: the steps of Serial.
LEMMA SerialStep ==
  ASSUME NEW c, Callers = {c}, IInv, Serial(c), [Next]_vars
  PROVE  Serial(c)'
<1> USE DEF IInv, TypeOK
<1>1. c \in Callers /\ Content \in Seq(Files) /\ ContentOf(durable) \in Seq(Files)
  BY ContentType
<1>2. ASSUME Content' = Content, ContentOf(durable)' = ContentOf(durable)
      PROVE  \E n \in 0 .. Len(Content') : ContentOf(durable)' = SubSeq(Content', 1, n)
  BY <1>2 DEF Serial
<1>3. Content = SubSeq(Content, 1, Len(Content)) /\ Len(Content) \in 0 .. Len(Content)
  BY <1>1
<1>4. ASSUME NEW r \in Records, NEW call \in Calls, Begin(c, r, call) PROVE Serial(c)'
  <2>1. UNCHANGED <<Content, ContentOf(durable)>>
    BY <1>4 DEF Begin, diskVars, Content, ContentOf
  <2>2. pc'[c] = "read" /\ line'[c] = r /\ Busy(c)'
    BY <1>1, <1>4 DEF Begin, Goto, Busy
  <2>3. \A q \in Records : outcome'[q] = "running" => q = r
    BY <1>4 DEF Begin, Goto, Serial, Busy
  <2>4. QED
    BY <1>2, <2>1, <2>2, <2>3 DEF Serial, FileSteps
<1>5. ASSUME NEW r \in Records, NEW call \in Calls, Refuse(c, r, call) PROVE Serial(c)'
  <2>1. UNCHANGED <<Content, ContentOf(durable), pc, line, existing, file>>
    BY <1>5 DEF Refuse, diskVars, Content, ContentOf
  <2>2. \A q \in Records : outcome'[q] = "running" => outcome[q] = "running"
    BY <1>5 DEF Refuse
  <2>3. QED
    BY <1>2, <2>1, <2>2 DEF Serial, Busy
<1>6. ASSUME NEW res \in {"ok", "err", "killed"}, Busy(c), End(c, res),
             Content' = Content, ContentOf(durable)' = ContentOf(durable)
      PROVE  Serial(c)'
  <2>1. pc'[c] = "idle"
    BY <1>1, <1>6 DEF End
  <2>2. line[c] \in Records /\ outcome'[line[c]] = res
    BY <1>1, <1>6 DEF End, Owned
  <2>3. \A q \in Records : outcome'[q] # "running"
    BY <1>6, <2>2 DEF End, Serial
  <2>4. QED
    BY <1>2, <1>6, <2>1, <2>3 DEF Serial, FileSteps
<1>7. CASE ReadFails(c) \/ Return(c) \/ Cleanup(c) \/ Kill(c)
  BY <1>1, <1>6, <1>7, QuietContent DEF ReadFails, Return, Cleanup, Kill, Busy
<1>8. ASSUME Content' = Content, ContentOf(durable)' = ContentOf(durable), pc'[c] \in {"create", "write"},
             line' = line, outcome' = outcome, existing'[c] = Content, Busy(c)
      PROVE  Serial(c)'
  BY <1>2, <1>8 DEF Serial, Busy, FileSteps
<1>9. CASE Read(c) \/ Create(c)
  <2>1. Content' = Content /\ ContentOf(durable)' = ContentOf(durable)
    BY <1>1, <1>9, QuietContent
  <2>2. pc'[c] \in {"create", "write"} /\ line' = line /\ outcome' = outcome /\ Busy(c)
    BY <1>1, <1>9 DEF Read, Create, Goto, Busy
  <2>3. existing'[c] = Content
    BY <1>1, <1>9 DEF Read, Create, Goto, Serial, FileSteps
  <2>4. QED
    BY <1>8, <2>1, <2>2, <2>3
<1>10. CASE Write(c) \/ Sync(c)
  <2>1. Content' = Content /\ ContentOf(durable)' = ContentOf(durable)
    BY <1>1, <1>10, QuietContent
  <2>2. /\ pc[c] \in {"write", "sync"} /\ pc'[c] \in {"sync", "rename"}
        /\ line' = line /\ outcome' = outcome /\ existing' = existing
    BY <1>1, <1>10 DEF Write, Sync, Goto
  <2>3. line[c] \in Files
    BY <1>1, <2>2 DEF Owned, Busy, Files
  <2>4. file'[line[c]].data = Append(existing[c], line[c])
    <3>1. CASE Write(c)
      BY <1>1, <2>3, <3>1 DEF Write
    <3>2. CASE Sync(c)
      <4>1. pc[c] = "sync" /\ file' = [file EXCEPT ![line[c]].state = "synced"]
        BY <3>2 DEF Sync, Goto
      <4>2. file'[line[c]].data = file[line[c]].data
        BY <2>3, <4>1
      <4>3. QED
        BY <4>1, <4>2 DEF Serial
    <3>3. QED
      BY <1>10, <3>1, <3>2
  <2>5. QED
    BY <1>2, <2>1, <2>2, <2>4 DEF Serial, Busy, FileSteps
<1>11. CASE Rename(c)
  <2>1. /\ line[c] \in Records /\ Content' = Append(Content, line[c])
        /\ ContentOf(durable)' = ContentOf(durable)
    BY <1>1, <1>11, RenameAppends
  <2>2. pc[c] = "rename" /\ pc'[c] = "return" /\ line' = line /\ outcome' = outcome
    BY <1>1, <1>11 DEF Rename, Goto
  <2>3. line[c] \in Range(Content')
    <3>1. line[c] \in Files
      BY <2>1 DEF Files
    <3>2. Range(Append(Content, line[c])) = Range(Content) \cup {line[c]}
      BY <1>1, <3>1, RangeOfAppend
    <3>3. QED
      BY <2>1, <3>2
  <2>4. PICK n \in 0 .. Len(Content) : ContentOf(durable) = SubSeq(Content, 1, n)
    BY DEF Serial
  <2>5. n \in 0 .. Len(Content') /\ SubSeq(Content', 1, n) = SubSeq(Content, 1, n)
    BY <1>1, <2>1, PrefixOfAppend DEF Files
  <2>6. QED
    BY <2>1, <2>2, <2>3, <2>4, <2>5 DEF Serial, Busy, FileSteps
<1>12. CASE StepFails(c)
  <2>1. Content' = Content /\ ContentOf(durable)' = ContentOf(durable)
    BY <1>1, <1>12, QuietContent
  <2>2. pc'[c] = "cleanup" /\ Busy(c) /\ line' = line /\ outcome' = outcome
    BY <1>1, <1>12 DEF StepFails, FileSteps, Busy
  <2>3. QED
    BY <1>2, <2>1, <2>2 DEF Serial, Busy, FileSteps
<1>13. CASE Writeback
  <2>1. durable' = target /\ UNCHANGED <<pc, line, existing, file, target, outcome>>
    BY <1>13 DEF Writeback
  <2>2. Content' = Content /\ ContentOf(durable)' = Content
    BY <2>1 DEF Content, ContentOf
  <2>3. QED
    BY <1>3, <2>1, <2>2 DEF Serial, Busy
<1>14. CASE PowerLoss
  <2>1. pc'[c] = "idle" /\ durable' = durable /\ target' = durable
    BY <1>1, <1>14 DEF PowerLoss
  <2>2. \A q \in Records : outcome'[q] # "running"
    BY <1>14 DEF PowerLoss, Outcomes
  <2>3. ContentOf(durable)' = ContentOf(durable) /\ Content' = ContentOf(durable)
    BY <1>14, PowerLossKeeps
  <2>4. Content' = SubSeq(Content', 1, Len(Content')) /\ Len(Content') \in 0 .. Len(Content')
    BY <1>1, <2>3
  <2>5. QED
    BY <2>1, <2>2, <2>3, <2>4 DEF Serial, FileSteps
<1>15. CASE UNCHANGED vars
  BY <1>15 DEF vars, Serial, Busy, Content, ContentOf
<1>16. QED
  BY <1>4, <1>5, <1>7, <1>9, <1>10, <1>11, <1>12, <1>13, <1>14, <1>15 DEF Next, Step

\* Each step of the protocol is one of AppendLog, or changes neither the log nor
\* what became of a call.
LEMMA StepImplements ==
  ASSUME NEW c, Callers = {c}, IInv, Serial(c), [Next]_vars
  PROVE  [Log!Next]_(Log!vars)
<1>1. TypeOK /\ c \in Callers
  BY DEF IInv
<1>2. ASSUME NEW r \in Records, NEW call \in Calls, Begin(c, r, call) PROVE Log!Start(r)
  <2>1. outcome[r] = "new" /\ outcome' = [outcome EXCEPT ![r] = "running"] /\ Content' = Content
    BY <1>2 DEF Begin, diskVars, Content, ContentOf
  <2>2. QED
    BY <1>1, <2>1, StatusOf, StatusChange DEF Log!Start, Log!Becomes, Outcomes
<1>3. ASSUME NEW r \in Records, NEW call \in Calls, Refuse(c, r, call) PROVE Log!Refuse(r)
  <2>1. outcome[r] = "new" /\ outcome' = [outcome EXCEPT ![r] = "err"] /\ Content' = Content
    BY <1>3 DEF Refuse, diskVars, Content, ContentOf
  <2>2. QED
    BY <1>1, <2>1, StatusOf, StatusChange DEF Log!Refuse, Log!Becomes, Outcomes
<1>4. ASSUME Busy(c) PROVE line[c] \in Records /\ status[line[c]] = "open"
  BY <1>1, <1>4, StatusOf DEF IInv, Owned
<1>5. CASE ReadFails(c) \/ Cleanup(c)
  <2>1. pc[c] \in {"read", "cleanup"} /\ End(c, "err")
    BY <1>5 DEF ReadFails, Cleanup
  <2>2. line[c] \notin Range(Content)
    BY <1>1, <2>1 DEF IInv, Hidden, Unpublished
  <2>3. Content' = Content
    BY <1>1, <1>5, QuietContent
  <2>4. line[c] \in Records /\ status[line[c]] = "open" /\ status' = [status EXCEPT ![line[c]] = "err"]
    BY <1>1, <1>4, <2>1, StatusChange DEF Busy, End, Outcomes
  <2>5. Log!Fail(line[c])
    BY <1>1, <2>2, <2>3, <2>4, InLogIsRange DEF Log!Fail, Log!Becomes
  <2>6. QED
    BY <2>4, <2>5 DEF Log!Next
<1>6. CASE Return(c)
  <2>1. pc[c] = "return" /\ End(c, "ok")
    BY <1>6 DEF Return
  <2>2. line[c] \in Range(Content) /\ Content' = Content
    BY <1>1, <1>6, <2>1, QuietContent DEF Serial
  <2>3. line[c] \in Records /\ status[line[c]] = "open" /\ status' = [status EXCEPT ![line[c]] = "ok"]
    BY <1>1, <1>4, <2>1, StatusChange DEF Busy, End, Outcomes
  <2>4. Log!Succeed(line[c])
    BY <1>1, <2>2, <2>3, InLogIsRange DEF Log!Succeed, Log!Becomes
  <2>5. QED
    BY <2>3, <2>4 DEF Log!Next
<1>7. CASE Kill(c)
  <2>1. Busy(c) /\ End(c, "killed") /\ Content' = Content
    BY <1>1, <1>7, QuietContent DEF Kill, Busy
  <2>2. line[c] \in Records /\ status[line[c]] = "open" /\ status' = [status EXCEPT ![line[c]] = "lost"]
    BY <1>1, <1>4, <2>1, StatusChange DEF End, Outcomes
  <2>3. QED
    BY <2>1, <2>2 DEF Log!Next, Log!Lose, Log!Becomes
<1>8. CASE Rename(c)
  <2>1. pc[c] = "rename" /\ outcome' = outcome
    BY <1>8 DEF Rename, Goto
  <2>2. line[c] \in Records /\ Content' = Append(Content, line[c])
    BY <1>1, <1>8, RenameAppends
  <2>3. line[c] \notin Range(Content) /\ status[line[c]] = "open" /\ status' = status
    BY <1>1, <1>4, <2>1 DEF IInv, Hidden, Unpublished, Busy, status
  <2>4. Log!Commit(line[c])
    BY <1>1, <2>2, <2>3, InLogIsRange DEF Log!Commit
  <2>5. QED
    BY <2>2, <2>4 DEF Log!Next
<1>9. CASE Read(c) \/ Create(c) \/ Write(c) \/ Sync(c) \/ StepFails(c)
  <2>1. Content' = Content
    BY <1>1, <1>9, QuietContent
  <2>2. status' = status
    BY <1>9 DEF Read, Create, Write, Sync, StepFails, status
  <2>3. QED
    BY <2>1, <2>2 DEF Log!vars
<1>10. CASE PowerLoss
  <2>1. PICK n \in 0 .. Len(Content) : ContentOf(durable) = SubSeq(Content, 1, n)
    BY DEF Serial
  <2>2. Content' = SubSeq(Content, 1, n)
    BY <1>10, <2>1, PowerLossKeeps
  <2>3. ASSUME NEW r \in Records PROVE status'[r] = IF status[r] = "open" THEN "lost" ELSE status[r]
    <3>1. outcome'[r] = IF outcome[r] = "running" THEN "killed" ELSE outcome[r]
      BY <1>10 DEF PowerLoss
    <3>2. outcome[r] \in Outcomes
      BY <1>1 DEF TypeOK
    <3>3. QED
      BY <3>1, <3>2 DEF status, Fate, Outcomes
  <2>4. status' = [r \in Records |-> IF status[r] = "open" THEN "lost" ELSE status[r]]
    <3>1. status' = [r \in Records |-> status'[r]]
      BY DEF status
    <3>2. QED
      BY <2>3, <3>1
  <2>5. Log!PowerLoss
    BY <2>2, <2>4 DEF Log!PowerLoss
  <2>6. QED
    BY <2>5 DEF Log!Next
<1>11. CASE Writeback \/ UNCHANGED vars
  BY <1>11 DEF Writeback, vars, Log!vars, status, Content, ContentOf
<1>12. QED
  BY <1>2, <1>3, <1>5, <1>6, <1>7, <1>8, <1>9, <1>10, <1>11 DEF Next, Step, Log!Next

\* With one caller at a time, whatever fails, dies or loses power: a record is
\* appended in one atomic step or not at all, the call's answer says which, and
\* a power loss forgets a suffix of the log.
THEOREM OneCallerAppends ==
  ASSUME NEW c, Callers = {c}
  PROVE  Spec => ImplementsAppendLog
<1>1. Init => Log!Init /\ Serial(c)
  <2> SUFFICES ASSUME Init PROVE Log!Init /\ Serial(c)
    OBVIOUS
  <2>1. Content \in {<<>>, <<Original>>} /\ ContentOf(durable) = Content
    BY DEF Init, Content, ContentOf, Files
  <2>2. status = [r \in Records |-> "new"]
    BY DEF Init, status, Fate
  <2>3. Content = SubSeq(Content, 1, Len(Content)) /\ Len(Content) \in 0 .. Len(Content)
    <3>1. <<>> \in Seq({Original}) /\ <<Original>> \in Seq({Original})
      OBVIOUS
    <3>2. Content \in Seq({Original})
      BY <2>1, <3>1
    <3>3. QED
      BY <3>2
  <2>4. QED
    BY <2>1, <2>2, <2>3 DEF Init, Log!Init, Serial, FileSteps
<1>2. IInv /\ Serial(c) /\ [Next]_vars => Serial(c)'
  BY SerialStep
<1>3. IInv /\ Serial(c) /\ [Next]_vars => [Log!Next]_(Log!vars)
  BY StepImplements
<1>4. QED
  BY <1>1, <1>2, <1>3, Inductive, PTL DEF Spec, ImplementsAppendLog, Log!Spec
===============================================================================
