-------------------------- MODULE MCCaptureSession --------------------------
(* CaptureSession with a few harnesses and children. *)
EXTENDS CaptureSession

CONSTANT w1  \* the worker

\* The harness of plain tests numbers its worker and not itself; threads of
\* the body get implicit ids.
WorkerIds == [t \in Thread |-> IF t = w1 THEN 0 ELSE NoOne]

\* Scenario and tasks harnesses: the test's thread is 0, its children get
\* implicit ids.
ScenarioIds == [t \in Thread |-> IF t \in Harness THEN 0 ELSE NoOne]
=============================================================================
