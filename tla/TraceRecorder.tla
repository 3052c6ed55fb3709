---------------------------- MODULE TraceRecorder ----------------------------
(***************************************************************************)
(* TraceRecorder (src/assurance/recording.rs): every record call reads the *)
(* whole target, writes it plus one line to a temporary file of its own,   *)
(* syncs that file and renames it over the target.                         *)
(*                                                                         *)
(* Callers are the threads, of one process or of several, that record to   *)
(* one path; `record_trace` and `record_observation` take &self and no     *)
(* lock, so one recorder shared by two threads behaves as two recorders    *)
(* do.  A file is identified by the record whose call created it (a fresh  *)
(* v4 UUID is in its name), and a file's data is the sequence of records   *)
(* it holds.  Bytes are abstracted to the file's state: "partial" while it *)
(* holds some prefix of what was to be written, "written" when it holds    *)
(* all of it in the page cache, "synced" when that data is on the disk.    *)
(*                                                                         *)
(* Directory entries reach the disk on their own time (the code never      *)
(* syncs the directory): `durable` is the target entry a power loss falls  *)
(* back to.                                                                *)
(***************************************************************************)
EXTENDS ObservationCapture, Sequences, FiniteSets, Functions

CONSTANTS
  Callers,   \* threads that record to the path
  Records,   \* one per call: the line it wants appended
  Calls,     \* the inputs of a call (see ObservationCapture)
  Faults,    \* which of the faults below the environment produces
  Original,  \* the file that was the target before the first call
  Absent,    \* no target file
  NoRecord,  \* the caller runs no call
  NoCall     \* the record's call has not started

ASSUME FaultsAssumption == Faults \subseteq {"io", "kill", "power"}

ASSUME NamesAssumption ==
  /\ Original \notin Records /\ Absent \notin Records /\ Absent # Original
  /\ NoRecord \notin Records

ASSUME CallsAssumption == Calls \subseteq {TraceCall} \cup ObservationCalls

Files == Records \cup {Original}

VARIABLES
  pc,        \* where each caller is inside replace_with_appended_record
  line,      \* the record each caller is appending
  existing,  \* what each caller's fs::read returned
  file,      \* the state and data of each file
  target,    \* the file the path names
  durable,   \* the file the path names on the disk
  temps,     \* the files that have a temporary name
  outcome,   \* history: what became of the call for each record
  request,   \* history: the input of the call for each record
  stray      \* history: temporary files whose call ended without removing them

diskVars == <<file, target, durable, temps>>
vars == <<pc, line, existing, file, target, durable, temps, outcome, request, stray>>

Outcomes == {"new", "running", "ok", "err", "killed"}
FileStates == {"unused", "partial", "written", "synced"}
PcValues == {"idle", "read", "create", "write", "sync", "rename", "return", "cleanup"}

\* Every variable keeps its type: what is read back, missing file included, is
\* a sequence of records.
TypeOK ==
  /\ pc \in [Callers -> PcValues]
  /\ line \in [Callers -> Records \cup {NoRecord}]
  /\ existing \in [Callers -> Seq(Files)]
  /\ file \in [Files -> [state: FileStates, data: Seq(Files)]]
  /\ target \in Files \cup {Absent}
  /\ durable \in Files \cup {Absent}
  /\ temps \subseteq Records
  /\ outcome \in [Records -> Outcomes]
  /\ request \in [Records -> Calls \cup {NoCall}]
  /\ stray \subseteq Records

ContentOf(f) == IF f = Absent THEN <<>> ELSE file[f].data

\* What a reader of the path sees.
Content == ContentOf(target)

EmptyFile == [state |-> "unused", data |-> <<>>]

Init ==
  /\ pc = [c \in Callers |-> "idle"]
  /\ line = [c \in Callers |-> NoRecord]
  /\ existing = [c \in Callers |-> <<>>]
  /\ target \in {Original, Absent}
  /\ durable = target
  /\ file = [f \in Files |-> IF f = target THEN [state |-> "synced", data |-> <<Original>>]
                                          ELSE EmptyFile]
  /\ temps = {}
  /\ outcome = [r \in Records |-> "new"]
  /\ request = [r \in Records |-> NoCall]
  /\ stray = {}

-----------------------------------------------------------------------------
(* Steps of a call.                                                        *)

Goto(c, from, to) ==
  /\ pc[c] = from
  /\ pc' = [pc EXCEPT ![c] = to]

\* The call of caller c ends with result res for its record.
End(c, res) ==
  /\ pc' = [pc EXCEPT ![c] = "idle"]
  /\ line' = [line EXCEPT ![c] = NoRecord]
  /\ existing' = [existing EXCEPT ![c] = <<>>]
  /\ outcome' = [outcome EXCEPT ![line[c]] = res]

\* record_trace or record_observation with a record that is not refused.
Begin(c, r, call) ==
  /\ outcome[r] = "new" /\ ~Refuses(call)
  /\ Goto(c, "idle", "read")
  /\ line' = [line EXCEPT ![c] = r]
  /\ outcome' = [outcome EXCEPT ![r] = "running"]
  /\ request' = [request EXCEPT ![r] = call]
  /\ UNCHANGED <<existing, stray, diskVars>>

\* The capture mode refuses the observation, or the record does not serialize.
Refuse(c, r, call) ==
  /\ pc[c] = "idle" /\ outcome[r] = "new"
  /\ Refuses(call) \/ "io" \in Faults
  /\ outcome' = [outcome EXCEPT ![r] = "err"]
  /\ request' = [request EXCEPT ![r] = call]
  /\ UNCHANGED <<pc, line, existing, stray, diskVars>>

Read_NoDefault(c) ==
  /\ Goto(c, "read", "create")
  /\ existing' = [existing EXCEPT ![c] = IF target = Absent THEN Absent ELSE Content]
  /\ UNCHANGED <<line, outcome, request, stray, diskVars>>

\* fs::read: one open file is read to its end, and a missing file is empty.
\* A file that has been renamed over the target is never written again
\* (invariant TargetWhole), so the read sees one version of it.
Read(c) ==
  /\ Goto(c, "read", "create")
  /\ existing' = [existing EXCEPT ![c] = Content]
  /\ UNCHANGED <<line, outcome, request, stray, diskVars>>

\* Any other read error, or a path without a UTF-8 file name.
ReadFails(c) ==
  /\ "io" \in Faults /\ pc[c] = "read"
  /\ End(c, "err")
  /\ UNCHANGED <<request, stray, diskVars>>

\* OpenOptions::create_new.
Create(c) ==
  /\ Goto(c, "create", "write")
  /\ temps' = temps \cup {line[c]}
  /\ file' = [file EXCEPT ![line[c]] = [state |-> "partial", data |-> <<>>]]
  /\ UNCHANGED <<line, existing, target, durable, outcome, request, stray>>

Write_LineOnly(c) ==
  /\ Goto(c, "write", "sync")
  /\ file' = [file EXCEPT ![line[c]] = [state |-> "written", data |-> <<line[c]>>]]
  /\ UNCHANGED <<line, existing, target, durable, temps, outcome, request, stray>>

\* write_all of the existing bytes, then of the line.
Write(c) ==
  /\ Goto(c, "write", "sync")
  /\ file' = [file EXCEPT ![line[c]] =
                [state |-> "written", data |-> Append(existing[c], line[c])]]
  /\ UNCHANGED <<line, existing, target, durable, temps, outcome, request, stray>>

Sync_Omitted(c) ==
  /\ Goto(c, "sync", "rename")
  /\ UNCHANGED <<line, existing, file, target, durable, temps, outcome, request, stray>>

\* File::sync_all.
Sync(c) ==
  /\ Goto(c, "sync", "rename")
  /\ file' = [file EXCEPT ![line[c]].state = "synced"]
  /\ UNCHANGED <<line, existing, target, durable, temps, outcome, request, stray>>

\* fs::rename over the target.
Rename(c) ==
  /\ Goto(c, "rename", "return")
  /\ target' = line[c]
  /\ temps' = temps \ {line[c]}
  /\ UNCHANGED <<line, existing, file, durable, outcome, request, stray>>

Return(c) ==
  /\ pc[c] = "return"
  /\ End(c, "ok")
  /\ UNCHANGED <<request, stray, diskVars>>

FileSteps == {"create", "write", "sync", "rename"}

StepFails_AfterRename(c) ==
  /\ "io" \in Faults /\ pc[c] \in FileSteps \cup {"return"}
  /\ pc' = [pc EXCEPT ![c] = "cleanup"]
  /\ UNCHANGED <<line, existing, outcome, request, stray, diskVars>>

\* One of the four file operations returns an error.  A failed write leaves
\* the temporary file partial, which is the state it is in.
StepFails(c) ==
  /\ "io" \in Faults /\ pc[c] \in FileSteps
  /\ pc' = [pc EXCEPT ![c] = "cleanup"]
  /\ UNCHANGED <<line, existing, outcome, request, stray, diskVars>>

Cleanup_Omitted(c) ==
  /\ pc[c] = "cleanup" /\ End(c, "err")
  /\ UNCHANGED <<request, stray, diskVars>>

\* remove_file; its own failure is ignored and leaves the temporary file.
Cleanup(c) ==
  /\ pc[c] = "cleanup" /\ End(c, "err")
  /\ \/ temps' = temps \ {line[c]} /\ UNCHANGED stray
     \/ temps' = temps /\ line[c] \in temps /\ stray' = stray \cup {line[c]}
  /\ UNCHANGED <<file, target, durable, request>>

-----------------------------------------------------------------------------
(* Faults.                                                                 *)

\* The caller dies; killing a process kills its threads one after another.
Kill(c) ==
  /\ "kill" \in Faults /\ pc[c] # "idle"
  /\ End(c, "killed")
  /\ stray' = stray \cup (temps \cap {line[c]})
  /\ UNCHANGED <<request, diskVars>>

\* The kernel writes the directory entry of the target to the disk.
Writeback ==
  /\ "power" \in Faults /\ durable # target
  /\ durable' = target
  /\ UNCHANGED <<pc, line, existing, file, target, temps, outcome, request, stray>>

\* The machine stops: the path names what the disk says it names, data that
\* was not synced is cut short, and any temporary name may be there again, one
\* that a rename or remove_file had taken away included.
PowerLoss ==
  /\ "power" \in Faults
  /\ target' = durable
  /\ file' = [f \in Files |-> IF file[f].state = "written"
                                THEN [state |-> "partial", data |-> <<>>] ELSE file[f]]
  /\ pc' = [c \in Callers |-> "idle"]
  /\ line' = [c \in Callers |-> NoRecord]
  /\ existing' = [c \in Callers |-> <<>>]
  /\ outcome' = [r \in Records |-> IF outcome[r] = "running" THEN "killed" ELSE outcome[r]]
  /\ temps' \in SUBSET {r \in Records : file[r].state # "unused"}
  /\ stray' = temps'
  /\ UNCHANGED <<durable, request>>

Step(c) ==
  \/ Read(c) \/ ReadFails(c) \/ Create(c) \/ Write(c) \/ Sync(c) \/ Rename(c)
  \/ Return(c) \/ StepFails(c) \/ Cleanup(c)

Next ==
  \/ \E c \in Callers, r \in Records, call \in Calls : Begin(c, r, call) \/ Refuse(c, r, call)
  \/ \E c \in Callers : Step(c) \/ Kill(c)
  \/ Writeback
  \/ PowerLoss

Spec == Init /\ [][Next]_vars

-----------------------------------------------------------------------------
(* Properties.                                                             *)

\* Each append replaces the target atomically (README, Recording): the file
\* the path names, now or on the disk after a power loss, is never a partial
\* one, whatever failed, died or raced on the way.
TargetWhole ==
  \A f \in {target, durable} \ {Absent} : file[f].state \in {"written", "synced"}

\* "A filesystem operation failed before the target could be replaced"
\* (RecordingError::Io): a call that returned an error never put its record
\* in the target, nor in what a later call may copy there.
FailedNeverAppears ==
  \A r \in Records : outcome[r] = "err" =>
    /\ r \notin Range(Content) /\ r \notin Range(ContentOf(durable))
    /\ \A c \in Callers : r \notin Range(existing[c])

\* No interleaving, fault or restart loses what the target held before the
\* first call, and the target never disappears once there is one.
PriorKept ==
  file[Original].state # "unused" => target # Absent /\ Original \in Range(Content)

\* Every temporary name belongs to a running call, or was left by a call that
\* died or whose remove_file failed: an error path never forgets the file.
TempsAccounted ==
  \A f \in temps : f \in stray \/ \E c \in Callers : line[c] = f

\* Whatever files exist, strays included, hold no Restricted observation data
\* and no redactor output that protocol validation rejects.
NothingForbiddenOnDisk ==
  \A f \in Files : \A r \in Range(file[f].data) \ {Original} :
    LET call == request[r] IN
    Payload(call) # NoPayload =>
      /\ Payload(call).retention # "Restricted"
      /\ call.capture = "Redacted" => Payload(call).valid

-----------------------------------------------------------------------------
(* The promise of the recording, for one call at a time.                   *)

\* What became of a call, in AppendLog's words.
Fate == [new |-> "new", running |-> "open", ok |-> "ok", err |-> "err", killed |-> "lost"]

status == [r \in Records |-> Fate[outcome[r]]]

Log == INSTANCE AppendLog WITH log <- Content

\* With one caller the file protocol implements AppendLog: every rename is one
\* atomic append, every answer agrees with it, and a power loss forgets a suffix.
ImplementsAppendLog == Log!Spec
==============================================================================
