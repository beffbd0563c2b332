---------------------------- MODULE MCWorkspace ----------------------------
(* One process for each command. *)
EXTENDS Workspace

CONSTANTS ingest, worker, sync, connect, delete

MCRole == [p \in Procs |->
  CASE p = ingest -> "ingest" [] p = worker -> "worker" [] p = sync -> "sync"
    [] p = connect -> "connect" [] p = delete -> "delete"]
=============================================================================
