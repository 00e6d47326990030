------------------------------ MODULE JobLife ------------------------------
(***************************************************************************)
(* What the processing queue promises about one job, whatever the workers, *)
(* the retries, the crashes and the restarts do: an accepted job stays     *)
(* pending until its handler ends it; a job that completed never runs      *)
(* again; a dead job only comes back when an operator retries it; and only *)
(* a job that has ended is ever forgotten.  The promise is the interface   *)
(* of ProcessingQueue (src/src/services/queue.ts) seen from its callers:   *)
(* enqueue, retryDead, purge and the persisted row.                        *)
(***************************************************************************)
CONSTANT Jobs                 \* identities of the jobs

VARIABLE life                 \* life[j], one of LifeStates

LifeStates == {"absent", "pending", "completed", "dead", "purged"}

LifeTypeOK == life \in [Jobs -> LifeStates]

LifeInit == life = [j \in Jobs |-> "absent"]

\* The moves one job may make.
Move(from, to) ==
  \/ from = "absent"               /\ to \in {"pending", "dead"}  \* enqueue; dead at once when no handler is registered
  \/ from = "pending"              /\ to \in {"completed", "dead"}
  \/ from = "dead"                 /\ to \in {"pending", "purged"}
  \/ from = "completed"            /\ to = "purged"

\* A step moves any number of jobs (one tick may start, and bury, several).
LifeNext ==
  /\ life' \in [Jobs -> LifeStates]
  /\ \A j \in Jobs : life'[j] = life[j] \/ Move(life[j], life'[j])

LifeSpec == LifeInit /\ [][LifeNext]_life
=============================================================================
