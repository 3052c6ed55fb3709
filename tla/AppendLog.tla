------------------------------ MODULE AppendLog ------------------------------
(***************************************************************************)
(* What the JSONL recording promises its caller (README.md of the          *)
(* repository, "Recording"): the target is a log of whole records, a call  *)
(* appends its record in one atomic step or not at all, a call that        *)
(* returns an error appended nothing, and a power loss can only forget a   *)
(* suffix of the log.  TraceRecorder is the file protocol that implements  *)
(* this promise when one call runs at a time.                              *)
(***************************************************************************)
EXTENDS Naturals, Sequences

CONSTANTS
  Records,   \* the records that calls try to append, one per call
  Original   \* stands for whatever the target held before the first call

VARIABLES
  log,       \* the records the target holds, oldest first
  status     \* what became of the call that appends each record

vars == <<log, status>>

Init ==
  /\ log \in {<<>>, <<Original>>}
  /\ status = [r \in Records |-> "new"]

InLog(r) == \E i \in DOMAIN log : log[i] = r

Becomes(r, from, to) ==
  /\ status[r] = from
  /\ status' = [status EXCEPT ![r] = to]

\* The call starts.  A record refused before any file is touched fails at once.
Start(r)  == Becomes(r, "new", "open") /\ UNCHANGED log
Refuse(r) == Becomes(r, "new", "err") /\ UNCHANGED log

\* The one step that changes the log while the machine stays up.
Commit(r) ==
  /\ status[r] = "open" /\ ~InLog(r)
  /\ log' = Append(log, r)
  /\ UNCHANGED status

\* The call's answer agrees with the log.
Succeed(r) == InLog(r) /\ Becomes(r, "open", "ok") /\ UNCHANGED log
Fail(r)    == ~InLog(r) /\ Becomes(r, "open", "err") /\ UNCHANGED log

\* The process dies inside the call: its caller never learns which it was.
Lose(r) == Becomes(r, "open", "lost") /\ UNCHANGED log

PowerLoss ==
  /\ \E n \in 0 .. Len(log) : log' = SubSeq(log, 1, n)
  /\ status' = [r \in Records |-> IF status[r] = "open" THEN "lost" ELSE status[r]]

Next ==
  \/ \E r \in Records : \/ Start(r) \/ Refuse(r) \/ Commit(r)
                        \/ Succeed(r) \/ Fail(r) \/ Lose(r)
  \/ PowerLoss

Spec == Init /\ [][Next]_vars
==============================================================================
