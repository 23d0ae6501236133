------------------------------ MODULE Webhook ------------------------------
(***************************************************************************)
(* handleWorkflowRun (internal/webhook): what an accepted workflow_run     *)
(* delivery does to the table.  Its clock is read just before the upsert.  *)
(* The snapshot of the queue depth it may also take is in QueueDepthTrend. *)
(***************************************************************************)
EXTENDS RunStore

HandleWorkflowRun(payload, capturedAt) == UpsertWorkflowRun(payload, capturedAt)
=============================================================================
