--------------------------- MODULE MC_TraceRecorder ---------------------------
(* Instances of TraceRecorder for TLC. *)
EXTENDS TraceRecorder

\* The file protocol runs are about files: every call records a trace.
TraceCalls == {TraceCall}

\* The single-caller run takes every capture mode and redactor, for a source that
\* may be recorded, one that may not, and one that is not valid.
SomeCalls ==
  {TraceCall} \cup
    {call \in ObservationCalls :
       /\ call.observation \in {[retention |-> "Derived", valid |-> TRUE],
                               [retention |-> "Restricted", valid |-> TRUE],
                               [retention |-> "ReferenceOnly", valid |-> FALSE]}
       /\ call.capture # "Redacted" => call.redactor = NoRedactor}
===============================================================================
