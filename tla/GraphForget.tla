----------------------------- MODULE GraphForget -----------------------------
(***************************************************************************)
(* "Forget this person" beside everything else that writes the graph: the  *)
(* kg.purge job (kg-purge.handler.ts, KgPurgeService.purgePerson).  It     *)
(* collects the person and every tombstone merged into them, and deletes   *)
(* what is about them step by step, each step a transaction of its own     *)
(* that takes no lock the other writers know of.  The job is never retried *)
(* (maxAttempts: 1): one that fails half way leaves a half-forgotten       *)
(* person until the owner asks again.                                      *)
(***************************************************************************)
EXTENDS GraphProposals

CONSTANT MaxForgets   \* how many of these jobs run

ASSUME ForgetAssumption == MaxForgets \in Nat

VARIABLES forgetting,  \* the running job: its step and the entities it forgets
          begun,       \* the entities some job has set out to forget
          forgotten,   \* those it has forgotten
          jobs         \* how many jobs have been started

forgetVars == <<forgetting, begun, forgotten, jobs>>

Idle == [step |-> "idle", set |-> {}]

ForgetInit == /\ Init
              /\ forgetting = Idle /\ begun = {} /\ forgotten = {} /\ jobs = 0

\* Mutant of PersonSet: those who were merged into the person are left behind.
PersonSetAlone(e) == {e}

\* The person and whoever was merged into them, and into those.
PersonSet(e) ==
  LET reach[n \in 0..Cardinality(Entities)] ==
        IF n = 0 THEN {e}
        ELSE reach[n - 1] \cup {x \in Entities : graph.entity[x].into \in reach[n - 1]}
  IN  reach[Cardinality(Entities)]

\* What a step deletes or clears.
Deletes(g) ==
  /\ Uncited(graph) = {}
  /\ graph' = g
  /\ last' = [who |-> None, was |-> graph]
  /\ UNCHANGED <<clock, proposal>>

At(step) == forgetting.step = step
Onto(step) == forgetting' = [forgetting EXCEPT !.step = step]

\* The job starts: an entity that is not there or not a person is left alone.
Forget(e) ==
  /\ At("idle") /\ jobs < MaxForgets
  /\ e \in Persons /\ There(graph, e)
  /\ forgetting' = [step |-> "items", set |-> PersonSet(e)]
  /\ begun' = begun \cup PersonSet(e)
  /\ jobs' = jobs + 1
  /\ UNCHANGED <<vars, forgotten>>

\* Rows with their citations; what they had superseded names nothing any more.
Without(rows) ==
  LET g == WithoutRows(graph, rows) IN
  [g EXCEPT
     !.cite = [c \in Cites |-> IF @[c] \in rows THEN None ELSE @[c]],
     !.relation = [r \in Relations |-> IF @[r].by # graph.relation[r].by
                                       THEN [@[r] EXCEPT !.touched = Now] ELSE @[r]],
     !.item = [i \in Items |-> IF @[i].by # graph.item[i].by
                               THEN [@[i] EXCEPT !.touched = Now] ELSE @[i]]]

\* A step drains what it selects: it ends when there is nothing left to select.
Drain(rows, step) ==
  /\ IF rows = {} THEN Onto(step) /\ UNCHANGED vars
     ELSE Deletes(Without(rows)) /\ UNCHANGED <<forgetting, merges, plan>>
  /\ UNCHANGED <<begun, forgotten, jobs>>

ForgetItems ==
  At("items") /\ Drain({i \in Items : graph.item[i].subject \in forgetting.set}, "relations")

ForgetRelations ==
  At("relations")
    /\ Drain({r \in Relations : Names(graph.relation[r]) \cap forgetting.set # {}}, "rows")

\* The records of their merges; one that is gone can be reversed no more than one that was
\* reversed.
ForgetRows ==
  /\ At("rows") /\ Onto("drafts")
  /\ Deletes(graph)
  /\ merges' = [n \in DOMAIN merges |->
                  IF {merges[n].m, merges[n].s} \cap forgetting.set # {}
                  THEN [merges[n] EXCEPT !.reversed = TRUE] ELSE merges[n]]
  /\ UNCHANGED <<plan, begun, forgotten, jobs>>

\* The rows of drafts that name them; a committed proposal is history.
ForgetDrafts ==
  /\ At("drafts") /\ Onto("entities")
  /\ Deletes(graph)
  /\ plan' = [p \in Proposals |->
                IF proposal[p].status # "draft" THEN plan[p]
                ELSE Picked(plan[p], {n \in 1..Len(plan[p]) :
                       {plan[p][n].target, plan[p][n].from, plan[p][n].to} \cap forgetting.set = {}})]
  /\ UNCHANGED <<merges, begun, forgotten, jobs>>

\* The entities with their citations.  A row that names one of them by now goes by its foreign
\* key, without its citations.
ForgetEntities ==
  /\ At("entities") /\ forgetting' = Idle
  /\ LET g == WithoutRows(graph, forgetting.set) IN
       Deletes([g EXCEPT !.cite = [c \in Cites |-> IF @[c] \in forgetting.set THEN None ELSE @[c]]])
  /\ merges' = [n \in DOMAIN merges |->
                  IF {merges[n].m, merges[n].s} \cap forgetting.set # {}
                  THEN [merges[n] EXCEPT !.reversed = TRUE] ELSE merges[n]]
  /\ forgotten' = forgotten \cup forgetting.set
  /\ UNCHANGED <<plan, begun, jobs>>

\* The worker dies, or a statement fails.
Fail ==
  /\ ~At("idle") /\ forgetting' = Idle
  /\ UNCHANGED <<vars, begun, forgotten, jobs>>

Purge ==
  \/ \E e \in Entities : Forget(e)
  \/ ForgetItems \/ ForgetRelations \/ ForgetRows \/ ForgetDrafts \/ ForgetEntities
  \/ Fail

Others == Next /\ UNCHANGED forgetVars

\* Anyone writes at any time.
ForgetSpec == ForgetInit /\ [][Purge \/ Others]_<<vars, forgetVars>>

\* Nobody else writes while a job runs: nothing in the code sees to that.
QuietSpec == ForgetInit /\ [][Purge \/ (At("idle") /\ Others)]_<<vars, forgetVars>>

-------------------------------------------------------------------------------
(* Properties                                                              *)

\* Once a person is forgotten nothing names them and nothing brings them back: no row, no
\* tombstone, no merge to reverse, no draft, and none of the proposals that are committed or
\* reverted after.  Left out are the tombstones that a job which failed has left half forgotten.
ForgottenIsGone ==
  /\ \A e \in forgotten : ~There(graph, e)
  /\ \A r \in Relations : Names(graph.relation[r]) \cap forgotten = {}
  /\ \A i \in Items : graph.item[i].subject \notin forgotten
  /\ \A n \in DOMAIN merges : {merges[n].m, merges[n].s} \cap forgotten # {} => merges[n].reversed
  /\ \A e \in Entities \ begun : graph.entity[e].state = "merged" => graph.entity[e].into # None

\* A tombstone can be brought back, until someone sets out to forget it.
TombstonesReversible ==
  \A e \in Entities \ begun : graph.entity[e].state = "merged" =>
    \E n \in DOMAIN merges : /\ ~merges[n].reversed
                             /\ merges[n].m = e /\ merges[n].s = graph.entity[e].into

\* kg-purge.service.ts: trusting the cascades "would leave both behind: citations (with their
\* quotes — the very text about the person) pointing at nothing".  The plan leaves none.
NoQuoteLeft == \A c \in Cites : graph.cite[c] # None => There(graph, graph.cite[c])
===============================================================================
