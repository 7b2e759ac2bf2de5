------------------------------- MODULE JobQueue -------------------------------
(***************************************************************************)
(* The durable job queue as the slices of kvox-api see it through          *)
(* `KvoxJobsPort`.  The queue itself is the platform package; the adapter  *)
(* of apps/api translates the port's calls to it.  What matters to a       *)
(* handler is modelled here: a row is active while it is pending or        *)
(* running, an enqueue with a dedup key merges into the active row, the    *)
(* attempt is charged when a row is CLAIMED, a throw puts the row back     *)
(* until its budget is spent, a 429 gives the attempt back but is counted  *)
(* against a budget of its own, and the row of a killed process stays      *)
(* active until its lease expires.                                         *)
(*                                                                         *)
(* Delays (`scheduledFor`, backoff) are left to the scheduler: a pending   *)
(* row may be claimed at any later moment.                                 *)
(***************************************************************************)
EXTENDS Naturals

CONSTANTS Slots,        \* the active job rows one subject may have at once
          MaxAttempts,  \* the attempt budget of the type each slot is of
          MaxHits       \* the 429s one row may be deferred for

ASSUME QueueAssumption == MaxAttempts \in [Slots -> Nat \ {0}] /\ MaxHits \in Nat

VARIABLE job  \* job[s]: the active row in slot s, or NoJob

NoJob == [state |-> "none", attempts |-> 0, hits |-> 0]

JobRow == [state    : {"none", "pending", "running", "abandoned"},
           attempts : Nat,
           hits     : Nat]

QueueInit == job = [s \in Slots |-> NoJob]

Active(s)    == job[s].state # "none"
Running(s)   == job[s].state = "running"
Exhausted(s) == job[s].attempts >= MaxAttempts[s]

-------------------------------------------------------------------------------

\* A row inserted whatever else is active: `skipDedup`, or a free dedup key.
Enqueue(s) ==
  /\ ~Active(s)
  /\ job' = [job EXCEPT ![s] = [NoJob EXCEPT !.state = "pending"]]

\* An enqueue under a dedup key: an active row of the same key is kept.
EnqueueOnce(s) ==
  \/ Enqueue(s)
  \/ Active(s) /\ UNCHANGED job

\* The worker claims a due row; the attempt is charged here.
ClaimJob(s) ==
  /\ job[s].state = "pending"
  /\ job' = [job EXCEPT ![s].state = "running", ![s].attempts = @ + 1]

\* The handler returned.
Complete(s) ==
  /\ Running(s)
  /\ job' = [job EXCEPT ![s] = NoJob]

\* The handler threw, or the reaper found the lease of its process expired.
Fail(s) ==
  /\ job[s].state \in {"running", "abandoned"}
  /\ job' = [job EXCEPT ![s] = IF Exhausted(s) THEN NoJob
                               ELSE [@ EXCEPT !.state = "pending"]]

\* A rate limit defers the row and gives the attempt back, until the row has been
\* deferred too often.
Defer(s) ==
  /\ Running(s)
  /\ job' = [job EXCEPT ![s] =
       IF @.hits >= MaxHits THEN NoJob
       ELSE [state |-> "pending", attempts |-> @.attempts - 1, hits |-> @.hits + 1]]

\* The process dies: nothing settles the rows it was running.
AbandonAll ==
  job' = [s \in Slots |-> IF Running(s) THEN [job[s] EXCEPT !.state = "abandoned"]
                          ELSE job[s]]
===============================================================================
