-------------------------- MODULE ObservationCapture --------------------------
(***************************************************************************)
(* What TraceRecorder::record_observation decides to write, before any     *)
(* file is touched.  The payload of an observation is abstracted to the    *)
(* two things the decision reads: its retention class and whether          *)
(* Observation::validate accepts it.                                       *)
(*                                                                         *)
(* A call is a record with these fields:                                   *)
(*   kind         "trace" or "observation"                                 *)
(*   capture      the recorder's ObservationCapture                        *)
(*   observation  the observation passed in                                *)
(*   redactor     what the configured redactor does with it: an            *)
(*                observation, RedactionError, or NoRedactor               *)
(***************************************************************************)
EXTENDS Naturals

CONSTANTS NoRedactor, RedactionError, NoPayload

RetentionClass == {"ReferenceOnly", "Derived", "Restricted"}
ObservationCaptures == {"ReferenceOnly", "Redacted", "Full"}
Observations == [retention: RetentionClass, valid: BOOLEAN]

TraceCall == [kind |-> "trace"]
ObservationCalls ==
  [ kind: {"observation"}, capture: ObservationCaptures, observation: Observations,
    redactor: Observations \cup {NoRedactor, RedactionError} ]

RefusesRedacted_OnSource(call) ==
  \/ call.redactor \notin Observations
  \/ call.redactor \in Observations /\ ~call.redactor.valid
  \/ call.observation.retention = "Restricted"

\* The redacted mode needs a redactor that succeeds (RedactorRequired,
\* Redaction), and checks its output (InvalidRedaction, ForbiddenRetention) and
\* never the source.
RefusesRedacted(call) ==
  \/ call.redactor \notin Observations
  \/ call.redactor \in Observations /\ ( \/ ~call.redactor.valid
                                        \/ call.redactor.retention = "Restricted" )

\* The full mode checks the retention class and nothing else: the observation
\* is written as it is, valid or not.
RefusesFull(call) == call.observation.retention = "Restricted"

Refuses(call) ==
  /\ call.kind = "observation"
  /\ \/ call.capture = "Redacted" /\ RefusesRedacted(call)
     \/ call.capture = "Full" /\ RefusesFull(call)

\* The observation data in the line that an accepted call writes.  Every line
\* of an observation also carries the source's reference.
Payload(call) ==
  CASE call.kind = "trace" -> NoPayload
    [] call.kind = "observation" /\ call.capture = "ReferenceOnly" -> NoPayload
    [] call.kind = "observation" /\ call.capture = "Redacted" -> call.redactor
    [] call.kind = "observation" /\ call.capture = "Full" -> call.observation
==============================================================================
