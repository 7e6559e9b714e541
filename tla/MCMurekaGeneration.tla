-------------------------- MODULE MCMurekaGeneration --------------------------
(* Small instances of MurekaGeneration. *)
EXTENDS MurekaGeneration

CONSTANTS a1, a2, a3, a4, a5, a6, e1, e2, p1, p2

\* Nothing but long queues; what single workers suffer; overlapping jobs; a
\* refund pass that may never come to the row.
MCEnvironments ==
    {{"backlog"}, {"worker_crash", "db_error"},
     {"lock_loss", "db_error"}, {"full_batch", "db_error"}}

MCBacklog == {{"backlog"}}
=============================================================================
