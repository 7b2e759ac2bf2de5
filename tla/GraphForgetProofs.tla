---------------------------- MODULE GraphForgetProofs ----------------------------
(***************************************************************************)
(* What holds of the graph whoever writes it, and what holds once a person *)
(* is forgotten: the invariant, that every transaction keeps it, and the   *)
(* theorems.                                                               *)
(***************************************************************************)
EXTENDS GraphOpsProofs
-------------------------------------------------------------------------------
(* The invariant.                                                          *)

\* What a relation or an item names, and what a citation is about, is live, or in D: what a
\* commit has yet to create.
NamesWell(g, D) ==
  /\ \A e \in Entities : g.entity[e].state # "merged" => g.entity[e].into = None
  /\ \A r \in Relations :
       IF g.relation[r].state = "none" THEN Names(g.relation[r]) = {None}
       ELSE \A e \in Names(g.relation[r]) : e \in Entities /\ (e \in D \/ Live(g.entity[e]))
  /\ \A i \in Items : g.item[i].subject # None =>
       /\ g.item[i].state # "none"
       /\ g.item[i].subject \in D \/ Live(g.entity[g.item[i].subject])
  /\ \A c \in Cites :
       /\ g.cite[c] \in Entities => g.cite[c] \in D \/ Live(g.entity[g.cite[c]])
       /\ g.cite[c] \in Items => g.item[g.cite[c]].state # "merged"

Stands(ms, n) == n \in 1..Len(ms) /\ ~ms[n].reversed

\* A merge that stands has left its tombstone, and no other has left that one.
Tombs(g, ms) ==
  \A n \in 1..Len(ms) : Stands(ms, n) =>
    /\ g.entity[ms[n].m].state = "merged" /\ g.entity[ms[n].m].into = ms[n].s
    /\ g.entity[ms[n].s].state # "none"
    /\ \A k \in 1..Len(ms) : Stands(ms, k) /\ ms[k].m = ms[n].m => k = n

\* Every tombstone outside B is that of a merge that stands.
Recorded(g, ms, B) ==
  \A e \in Entities \ B : g.entity[e].state = "merged" =>
    \E n \in 1..Len(ms) : Stands(ms, n) /\ ms[n].m = e /\ ms[n].s = g.entity[e].into

\* What a draft is to create is not there, nobody has set out to forget it, and no other row
\* is to create it; a draft either merges or does not.
NewNames ==
  \A p \in Proposals : proposal[p].status = "draft" =>
    \A n \in 1..Len(plan[p]) :
      /\ plan[p][n].name # None =>
           /\ ~There(graph, plan[p][n].name) /\ plan[p][n].name \notin begun
           /\ \A q \in Proposals : proposal[q].status = "draft" =>
                \A k \in 1..Len(plan[q]) : plan[q][k].name = plan[p][n].name => p = q /\ n = k
      /\ plan[p][n].kind = "merge" => \A k \in 1..Len(plan[p]) : plan[p][k].kind = "merge"

\* A merge of what pr created was made after its commit.
After(pr, ms, t) ==
  /\ pr.at <= t /\ pr.log.merges \subseteq 1..Len(ms)
  /\ \A n \in 1..Len(ms) : Stands(ms, n) /\ {ms[n].m, ms[n].s} \cap pr.log.created # {}
                             => ms[n].at > pr.at

Since == \A p \in Proposals : proposal[p].status = "committed" => After(proposal[p], merges, clock)

Types ==
  /\ graph \in Graphs /\ merges \in Seq(MergeRecords) /\ clock \in 0..MaxWrites
  /\ proposal \in [Proposals -> ProposalRows] /\ plan \in [Proposals -> Seq(PlanRows)]
  /\ \A p \in Proposals : proposal[p].at \in 0..MaxWrites

\* What is forgotten is not there and nothing brings it back.
Gone ==
  /\ forgetting \in [step : {"idle", "items", "relations", "rows", "drafts", "entities"},
                     set : SUBSET begun]
  /\ forgetting.step = "idle" => forgetting.set = {}
  /\ begun \subseteq Entities /\ forgotten \subseteq begun
  /\ \A e \in forgotten : graph.entity[e].state = "none"

\* The invariant of whoever writes.
Sound == Types /\ NamesWell(graph, {}) /\ Tombs(graph, merges) /\ NewNames /\ Since /\ Gone

\* And of a job that has the graph to itself.
Quiet ==
  /\ \A e \in Entities : graph.entity[e].into \in forgetting.set => e \in forgetting.set
  /\ Recorded(graph, merges, begun)

-------------------------------------------------------------------------------
(* Merging and reversing keep it.                                          *)

\* A relation that is not there names nobody.
LEMMA NamesWellBlank ==
  ASSUME NEW g, NEW D, NamesWell(g, D)
  PROVE  Blank(g)
BY DEF NamesWell, Blank

\* A graph and its merges, as far as they are about each other.
Paired(g, ms) == g \in Graphs /\ ms \in Seq(MergeRecords) /\ NamesWell(g, {}) /\ Tombs(g, ms)

\* Nothing comes or goes.
SameRows(g, h) == \A c \in Cites : There(h, c) <=> There(g, c)

\* A merge leaves the graph well named, its tombstone recorded, and nothing comes or goes by it.
LEMMA MergeKeeps ==
  ASSUME clock \in Nat, NEW g, NEW ms, Paired(g, ms), NEW m \in Entities, NEW s \in Entities,
         m # s, Live(g.entity[m]), Live(g.entity[s])
  PROVE  LET x == MergeIn(g, m, s) IN
         /\ x.entry \in MergeRecords /\ x.entry.m = m /\ x.entry.s = s /\ x.entry.at = Now
         /\ Paired(x.graph, Append(ms, x.entry)) /\ SameRows(g, x.graph)
         /\ \A e \in Entities \ {m} : x.graph.entity[e] = g.entity[e]
         /\ \A B : Recorded(g, ms, B) => Recorded(x.graph, Append(ms, x.entry), B)
<1> DEFINE x == MergeIn(g, m, s)
           h == x.graph
           v == x.entry
           more == Append(ms, v)
<1>1. /\ h \in Graphs /\ v \in MergeRecords
      /\ v.m = m /\ v.s = s /\ v.at = Now /\ ~v.reversed
      /\ h.entity[m].state = "merged" /\ h.entity[m].into = s
      /\ \A e \in Entities \ {m} : h.entity[e] = g.entity[e]
      /\ MovesAll(g, h, m, s)
  <2>1. g \in Graphs /\ Blank(g)
    BY NamesWellBlank DEF Paired
  <2> QED BY <2>1, MergeInDoes
<1> HIDE DEF x
<1>2. /\ g \in Graphs /\ ms \in Seq(MergeRecords) /\ NamesWell(g, {}) /\ Tombs(g, ms)
      /\ g.entity[m].state = "live" /\ g.entity[s].state = "live"
  BY DEF Paired, Live
<1>3. /\ more \in Seq(MergeRecords) /\ Len(more) = Len(ms) + 1 /\ more[Len(ms) + 1] = v
      /\ \A n \in 1..Len(ms) : more[n] = ms[n]
  <2> HIDE DEF h, v
  <2> QED BY <1>1, <1>2
<1>4. SameRows(g, h)
  <2>1. \A e \in Entities : h.entity[e].state = "none" <=> g.entity[e].state = "none"
    BY <1>1, <1>2
  <2> QED BY <1>1, <2>1, Apart DEF SameRows, There, MovesAll, Cites
<1>5. NamesWell(h, {})
  <2>1. ASSUME NEW e \in Entities, Live(g.entity[e]) PROVE Live(h.entity[Moved(e, m, s)])
    BY <1>1, <2>1 DEF Moved, Live
  <2>2. \A e \in Entities : h.entity[e].state # "merged" => h.entity[e].into = None
    BY <1>1, <1>2 DEF NamesWell
  <2>3. ASSUME NEW r \in Relations
        PROVE  IF h.relation[r].state = "none" THEN Names(h.relation[r]) = {None}
               ELSE \A e \in Names(h.relation[r]) : e \in Entities /\ (e \in {} \/ Live(h.entity[e]))
    <3>1. /\ h.relation[r].from = Moved(g.relation[r].from, m, s)
          /\ h.relation[r].to = Moved(g.relation[r].to, m, s)
          /\ h.relation[r].state = "none" <=> g.relation[r].state = "none"
      BY <1>1 DEF MovesAll
    <3>2. CASE g.relation[r].state = "none"
      BY <1>2, <3>1, <3>2, Apart DEF NamesWell, Names, Moved
    <3>3. CASE g.relation[r].state # "none"
      <4>1. \A e \in Names(g.relation[r]) : e \in Entities /\ Live(g.entity[e])
        BY <1>2, <3>3 DEF NamesWell
      <4> QED BY <2>1, <3>1, <3>3, <4>1 DEF Names, Moved
    <3> QED BY <3>2, <3>3
  <2>4. ASSUME NEW i \in Items, h.item[i].subject # None
        PROVE  /\ h.item[i].state # "none"
               /\ h.item[i].subject \in {} \/ Live(h.entity[h.item[i].subject])
    <3>1. /\ h.item[i].subject = Moved(g.item[i].subject, m, s)
          /\ h.item[i].state = "none" <=> g.item[i].state = "none"
      BY <1>1 DEF MovesAll
    <3>2. g.item[i].subject # None /\ g.item[i].subject \in Entities \cup {None}
      BY <1>2, <2>4, <3>1, Apart, PartsOf DEF Moved, ItemRows
    <3> QED BY <1>2, <2>1, <3>1, <3>2 DEF NamesWell
  <2>5. ASSUME NEW c \in Cites, h.cite[c] \in Entities
        PROVE  h.cite[c] \in {} \/ Live(h.entity[h.cite[c]])
    <3>1. c \in Entities \cup Links
      BY <1>1, <2>5, CiteKinds
    <3>2. h.cite[c] = Moved(g.cite[c], m, s)
      BY <1>1, <3>1 DEF MovesAll
    <3>3. g.cite[c] \in Entities
      BY <1>2, <2>5, <3>1, <3>2, Apart, CiteKinds DEF Moved
    <3> QED BY <1>2, <2>1, <3>2, <3>3 DEF NamesWell
  <2>6. ASSUME NEW c \in Cites, h.cite[c] \in Items
        PROVE  h.item[h.cite[c]].state # "merged"
    BY <1>1, <1>2, <2>6 DEF NamesWell, MovesAll
  <2> QED BY <2>2, <2>3, <2>4, <2>5, <2>6 DEF NamesWell
<1>6. ASSUME NEW n \in 1..Len(ms)
      PROVE  /\ ms[n] \in MergeRecords /\ ms[n].m \in Entities /\ ms[n].s \in Entities
             /\ Stands(more, n) <=> Stands(ms, n)
             /\ Stands(ms, n) => ms[n].m # m
  <2>1. ms[n] \in MergeRecords
    BY <1>2
  <2> QED BY <1>2, <1>3, <2>1 DEF MergeRecords, Tombs, Stands
<1>7. Tombs(h, more)
  <2>1. ASSUME NEW n \in 1..Len(more), Stands(more, n)
        PROVE  /\ h.entity[more[n].m].state = "merged" /\ h.entity[more[n].m].into = more[n].s
               /\ h.entity[more[n].s].state # "none"
               /\ \A k \in 1..Len(more) : Stands(more, k) /\ more[k].m = more[n].m => k = n
    <3>1. CASE n = Len(ms) + 1
      <4>1. \A k \in 1..Len(more) : k = n \/ k \in 1..Len(ms)
        BY <1>2, <1>3, <3>1
      <4>2. h.entity[s].state # "none"
        BY <1>1, <1>2
      <4> QED BY <1>1, <1>3, <1>6, <3>1, <4>1, <4>2
    <3>2. CASE n \in 1..Len(ms)
      <4>1. \A k \in 1..Len(more) : k = Len(ms) + 1 \/ k \in 1..Len(ms)
        BY <1>2, <1>3
      <4>2. /\ g.entity[ms[n].m].state = "merged" /\ g.entity[ms[n].m].into = ms[n].s
            /\ g.entity[ms[n].s].state # "none"
            /\ \A k \in 1..Len(ms) : Stands(ms, k) /\ ms[k].m = ms[n].m => k = n
        BY <1>2, <1>6, <2>1, <3>2 DEF Tombs
      <4>3. ms[n].m # m /\ more[n] = ms[n] /\ ms[n].m \in Entities /\ ms[n].s \in Entities
        BY <1>3, <1>6, <2>1, <3>2
      <4>4. /\ h.entity[ms[n].m].state = "merged" /\ h.entity[ms[n].m].into = ms[n].s
            /\ h.entity[ms[n].s].state # "none"
        BY <1>1, <4>2, <4>3
      <4> QED BY <1>1, <1>3, <1>6, <4>1, <4>2, <4>3, <4>4
    <3> QED BY <1>2, <1>3, <3>1, <3>2
  <2> QED BY <2>1 DEF Tombs
<1>8. ASSUME NEW B, Recorded(g, ms, B) PROVE Recorded(h, more, B)
  <2> SUFFICES ASSUME NEW e \in Entities \ B, h.entity[e].state = "merged"
               PROVE  \E n \in 1..Len(more) : /\ Stands(more, n) /\ more[n].m = e
                                              /\ more[n].s = h.entity[e].into
    BY DEF Recorded
  <2>1. CASE e = m
    <3>1. Stands(more, Len(ms) + 1)
      BY <1>1, <1>2, <1>3 DEF Stands
    <3> QED BY <1>1, <1>2, <1>3, <2>1, <3>1
  <2>2. CASE e # m
    <3>1. h.entity[e] = g.entity[e]
      BY <1>1, <2>2
    <3>2. PICK n \in 1..Len(ms) : Stands(ms, n) /\ ms[n].m = e /\ ms[n].s = g.entity[e].into
      BY <1>8, <3>1 DEF Recorded
    <3> QED BY <1>2, <1>3, <1>6, <3>1, <3>2
  <2> QED BY <2>1, <2>2
<1>9. Paired(h, more)
  BY <1>1, <1>3, <1>5, <1>7 DEF Paired
<1> QED BY <1>1, <1>4, <1>8, <1>9 DEF x

\* A merge is marked as one that can be reversed no more.
Closed(ms, n) == [ms EXCEPT ![n].reversed = TRUE]

\* A record that is closed is the one that was, but that it does not stand.
LEMMA ClosedIs ==
  ASSUME NEW ms \in Seq(MergeRecords), NEW n \in 1..Len(ms)
  PROVE  /\ Closed(ms, n) \in Seq(MergeRecords) /\ Len(Closed(ms, n)) = Len(ms)
         /\ \A k \in 1..Len(ms) : /\ Closed(ms, n)[k].m = ms[k].m /\ Closed(ms, n)[k].s = ms[k].s
                                  /\ Closed(ms, n)[k].at = ms[k].at
                                  /\ Stands(Closed(ms, n), k) <=> (Stands(ms, k) /\ k # n)
<1> DEFINE v == [ms[n] EXCEPT !.reversed = TRUE]
           less == Closed(ms, n)
<1>1. ms[n] \in MergeRecords /\ \A k \in 1..Len(ms) : ms[k] \in MergeRecords
  OBVIOUS
<1>2. v \in MergeRecords /\ v.m = ms[n].m /\ v.s = ms[n].s /\ v.at = ms[n].at /\ v.reversed
  BY <1>1 DEF MergeRecords
<1>3. less = [ms EXCEPT ![n] = v]
  BY DEF Closed
<1> HIDE DEF v, less
<1>4. /\ less \in Seq(MergeRecords) /\ Len(less) = Len(ms)
      /\ \A k \in 1..Len(ms) : less[k] = IF k = n THEN v ELSE ms[k]
  BY <1>2, <1>3
<1> QED BY <1>1, <1>2, <1>4 DEF less, Stands

\* A reversal leaves the graph well named: whatever it moves back names who is live again.
LEMMA ReverseKeeps ==
  ASSUME clock \in Nat, NEW g, NEW ms, Paired(g, ms), NEW n \in 1..Len(ms), Reversible(g, ms[n])
  PROVE  LET h == ReverseIn(g, ms[n]) IN
         /\ Paired(h, Closed(ms, n)) /\ SameRows(g, h)
         /\ h.entity[ms[n].m].state = "live" /\ h.entity[ms[n].m].into = None
         /\ \A e \in Entities \ {ms[n].m} : h.entity[e] = g.entity[e]
         /\ \A B : Recorded(g, ms, B) => Recorded(h, Closed(ms, n), B)
<1> DEFINE v == ms[n]
           m == v.m
           s == v.s
           h == ReverseIn(g, v)
           less == Closed(ms, n)
<1>0. /\ g \in Graphs /\ ms \in Seq(MergeRecords) /\ NamesWell(g, {}) /\ Tombs(g, ms)
      /\ v \in MergeRecords /\ m \in Entities /\ s \in Entities
  <2>1. g \in Graphs /\ ms \in Seq(MergeRecords) /\ NamesWell(g, {}) /\ Tombs(g, ms)
    BY DEF Paired
  <2>2. v \in MergeRecords
    BY <2>1
  <2> HIDE DEF v
  <2> QED BY <2>1, <2>2 DEF MergeRecords
<1>1. /\ h \in Graphs /\ h.entity[m].state = "live" /\ h.entity[m].into = None
      /\ \A e \in Entities \ {m} : h.entity[e] = g.entity[e]
      /\ MovesSome(g, h, s, m)
  BY <1>0, ReverseInDoes
<1>2. Stands(ms, n) /\ g.entity[m].state # "none" /\ g.entity[s].state = "live"
  BY <1>0, Apart DEF Reversible, Stands, There, Live
<1>3. /\ less \in Seq(MergeRecords) /\ Len(less) = Len(ms)
      /\ \A k \in 1..Len(ms) : /\ less[k].m = ms[k].m /\ less[k].s = ms[k].s
                               /\ Stands(less, k) <=> (Stands(ms, k) /\ k # n)
  BY <1>0, ClosedIs
<1> HIDE DEF h, less, m, s, v
<1>4. SameRows(g, h)
  <2>1. \A e \in Entities : h.entity[e].state = "none" <=> g.entity[e].state = "none"
    BY <1>0, <1>1, <1>2
  <2> QED BY <1>1, <2>1, Apart DEF SameRows, There, MovesSome, Cites
<1>5. NamesWell(h, {})
  <2>1. ASSUME NEW e \in Entities, Live(g.entity[e])
        PROVE  Live(h.entity[e]) /\ Live(h.entity[Moved(e, s, m)])
    BY <1>0, <1>1, <2>1 DEF Moved, Live
  <2>2. \A e \in Entities : h.entity[e].state # "merged" => h.entity[e].into = None
    BY <1>0, <1>1 DEF NamesWell
  <2>3. ASSUME NEW r \in Relations
        PROVE  IF h.relation[r].state = "none" THEN Names(h.relation[r]) = {None}
               ELSE \A e \in Names(h.relation[r]) : e \in Entities /\ (e \in {} \/ Live(h.entity[e]))
    <3>1. /\ h.relation[r].from \in {g.relation[r].from, Moved(g.relation[r].from, s, m)}
          /\ h.relation[r].to \in {g.relation[r].to, Moved(g.relation[r].to, s, m)}
          /\ h.relation[r].state = "none" <=> g.relation[r].state = "none"
      BY <1>1 DEF MovesSome
    <3>2. CASE g.relation[r].state = "none"
      <4>1. g.relation[r].from = None /\ g.relation[r].to = None /\ s # None
        BY <1>0, <3>2, Apart DEF NamesWell, Names
      <4>2. h.relation[r].from = None /\ h.relation[r].to = None
        BY <3>1, <4>1 DEF Moved
      <4> QED BY <3>1, <3>2, <4>2 DEF Names
    <3>3. CASE g.relation[r].state # "none"
      <4>1. \A e \in Names(g.relation[r]) : e \in Entities /\ Live(g.entity[e])
        BY <1>0, <3>3 DEF NamesWell
      <4> QED BY <1>0, <2>1, <3>1, <3>3, <4>1 DEF Names, Moved
    <3> QED BY <3>2, <3>3
  <2>4. ASSUME NEW i \in Items, h.item[i].subject # None
        PROVE  /\ h.item[i].state # "none"
               /\ h.item[i].subject \in {} \/ Live(h.entity[h.item[i].subject])
    <3>1. /\ h.item[i].subject \in {g.item[i].subject, Moved(g.item[i].subject, s, m)}
          /\ h.item[i].state = "none" <=> g.item[i].state = "none"
      BY <1>1 DEF MovesSome
    <3>2. g.item[i].subject # None /\ g.item[i].subject \in Entities \cup {None}
      BY <1>0, <2>4, <3>1, Apart, PartsOf DEF Moved, ItemRows
    <3> QED BY <1>0, <2>1, <3>1, <3>2 DEF NamesWell
  <2>5. ASSUME NEW c \in Cites, h.cite[c] \in Entities
        PROVE  h.cite[c] \in {} \/ Live(h.entity[h.cite[c]])
    <3>1. c \in Entities \cup Links
      BY <1>1, <2>5, CiteKinds
    <3>2. h.cite[c] \in {g.cite[c], Moved(g.cite[c], s, m)}
      BY <1>1, <3>1 DEF MovesSome
    <3>3. g.cite[c] \in Entities
      BY <1>0, <2>5, <3>1, <3>2, Apart, CiteKinds DEF Moved
    <3> QED BY <1>0, <2>1, <3>2, <3>3 DEF NamesWell
  <2>6. ASSUME NEW c \in Cites, h.cite[c] \in Items
        PROVE  h.item[h.cite[c]].state # "merged"
    BY <1>0, <1>1, <2>6 DEF NamesWell, MovesSome
  <2> QED BY <2>2, <2>3, <2>4, <2>5, <2>6 DEF NamesWell
<1>6. \A k \in 1..Len(ms) : ms[k].m \in Entities /\ ms[k].s \in Entities
  <2> SUFFICES ASSUME NEW k \in 1..Len(ms) PROVE ms[k].m \in Entities /\ ms[k].s \in Entities
    OBVIOUS
  <2>1. ms[k] \in MergeRecords
    BY <1>0
  <2> QED BY <2>1 DEF MergeRecords
<1>7. Tombs(h, less)
  <2>1. ASSUME NEW k \in 1..Len(ms), Stands(less, k)
        PROVE  /\ h.entity[ms[k].m].state = "merged" /\ h.entity[ms[k].m].into = ms[k].s
               /\ h.entity[ms[k].s].state # "none"
               /\ \A j \in 1..Len(ms) : Stands(less, j) /\ ms[j].m = ms[k].m => j = k
    <3>1. Stands(ms, k) /\ k # n
      BY <1>3, <2>1
    <3>2. /\ g.entity[ms[k].m].state = "merged" /\ g.entity[ms[k].m].into = ms[k].s
          /\ g.entity[ms[k].s].state # "none" /\ ms[k].m # m
          /\ \A j \in 1..Len(ms) : Stands(ms, j) /\ ms[j].m = ms[k].m => j = k
      BY <1>0, <1>2, <3>1 DEF Tombs, m, v
    <3> QED BY <1>1, <1>3, <1>6, <3>2
  <2> QED BY <1>3, <2>1 DEF Tombs
<1>8. ASSUME NEW B, Recorded(g, ms, B) PROVE Recorded(h, less, B)
  <2> SUFFICES ASSUME NEW e \in Entities \ B, h.entity[e].state = "merged"
               PROVE  \E k \in 1..Len(less) : /\ Stands(less, k) /\ less[k].m = e
                                              /\ less[k].s = h.entity[e].into
    BY DEF Recorded
  <2>1. e # m /\ h.entity[e] = g.entity[e]
    BY <1>1
  <2>2. PICK k \in 1..Len(ms) : Stands(ms, k) /\ ms[k].m = e /\ ms[k].s = g.entity[e].into
    BY <1>8, <2>1 DEF Recorded
  <2>3. k # n
    BY <2>1, <2>2 DEF m, v
  <2> QED BY <1>3, <2>1, <2>2, <2>3
<1>9. Paired(h, less)
  BY <1>1, <1>3, <1>5, <1>7 DEF Paired
<1> QED BY <1>1, <1>4, <1>8, <1>9 DEF h, less, m, v

-------------------------------------------------------------------------------
(* What backs a name.                                                      *)

\* A merge that is reversed had folded x into another row; the merge v found x to be a loop.
BackIn(ms, x) == \E n \in 1..Len(ms) : ms[n].reversed /\ GoneIn(ms[n], x)
Looped(v, x)  == \E l \in v.loops : l[1] = x

\* A live entity has its own citation and no merge that stands has taken it; where a tombstone's
\* own citation goes, that of its survivor goes too.
OwnCites(g, ms) ==
  /\ \A e \in Entities : Live(g.entity[e]) =>
       g.cite[e] = e /\ \A n \in 1..Len(ms) : Stands(ms, n) => e \notin ms[n].cites
  /\ \A n \in 1..Len(ms) : Stands(ms, n) =>
       /\ g.cite[ms[n].m] = g.cite[ms[n].s]
       /\ \A k \in 1..Len(ms) : Stands(ms, k) =>
            IF k = n THEN ms[n].m \in ms[n].cites
            ELSE ms[n].m \in ms[k].cites <=> ms[n].s \in ms[k].cites

Committed(pr, p) == pr[p].status = "committed"

\* The own citation of the entity c shadows the end k of r: it is about whom r names there,
\* every merge that stands has taken both or neither, and a commit that created c and came
\* after r has created r too.
Shadows(g, ms, pr, k, r, c) ==
  /\ g.cite[c] = NameOf(g, k, r)
  /\ \A n \in 1..Len(ms) : Stands(ms, n) => (Took(ms[n], k, r) <=> c \in ms[n].cites)
  /\ \A p \in Proposals : Committed(pr, p) /\ BornOf(g, r) <= pr[p].at /\ c \in pr[p].log.created
                            => r \in pr[p].log.created

\* Whoever is named is backed by such a citation.
Shadowed(g, ms, pr) ==
  \A k \in Kinds : \A r \in Claims : End(k, r) /\ NameOf(g, k, r) # None =>
    \E c \in Entities : Shadows(g, ms, pr, k, r, c)

\* A relation or an item that is not folded has its own citation, or was given back.
OwnRows(g, ms) ==
  \A x \in Claims : StateOf(g, x) \notin {"none", "merged"} => g.cite[x] = x \/ BackIn(ms, x)

\* A loop that a merge which stands has folded still is, with its own citation.
LoopsHold(g, ms) ==
  \A n \in 1..Len(ms) : \A x \in Claims : Stands(ms, n) /\ Looped(ms[n], x) /\ StateOf(g, x) # "none" =>
    \/ BackIn(ms, x)
    \/ /\ StateOf(g, x) = "merged" /\ g.cite[x] = x
       /\ \A k \in 1..Len(ms) : Stands(ms, k) /\ Looped(ms[k], x) => k = n

\* A row whose own citation came back to it by a fold had been given back.
KeptBack(ms) ==
  \A n \in 1..Len(ms) : \A d \in Claims : Stands(ms, n) /\ KeptIn(ms[n], d) => BackIn(ms, d)

\* The citation of a relation or an item is about what is there, or was given back.
CitesHold(g, ms) ==
  \A c \in Claims : g.cite[c] # None => StateOf(g, g.cite[c]) # "none" \/ BackIn(ms, g.cite[c])

Whole(g, ms, pr) == /\ OwnCites(g, ms) /\ Shadowed(g, ms, pr) /\ OwnRows(g, ms)
                    /\ LoopsHold(g, ms) /\ KeptBack(ms) /\ CitesHold(g, ms)

\* A name that is not there and that no merge which stands knows of.
Fresh(g, ms, x) ==
  /\ ~There(g, x) /\ g.cite[x] = None
  /\ \A n \in 1..Len(ms) : Stands(ms, n) =>
       /\ x \notin ms[n].cites \cup ms[n].from \cup ms[n].to \cup ms[n].subj
       /\ ~Looped(ms[n], x)

\* Relations and items, and what they name.
LEMMA ClaimParts ==
  ASSUME NEW g \in Graphs, NamesWell(g, {})
  PROVE  /\ \A x \in Claims : /\ x \in Cites /\ x \notin Entities /\ x # None
                              /\ There(g, x) <=> StateOf(g, x) # "none"
                              /\ g.cite[x] \in Claims \cup {None}
         /\ \A k \in Kinds : \A r \in Claims : End(k, r) /\ NameOf(g, k, r) # None =>
              /\ NameOf(g, k, r) \in Entities /\ Live(g.entity[NameOf(g, k, r)])
              /\ StateOf(g, r) # "none"
<1>1. ASSUME NEW x \in Claims
      PROVE  /\ x \in Cites /\ x \notin Entities /\ x # None
             /\ There(g, x) <=> StateOf(g, x) # "none"
             /\ g.cite[x] \in Claims \cup {None}
  BY Apart, CiteKinds DEF Claims, Cites, Rows, There, StateOf
<1>2. ASSUME NEW k \in Kinds, NEW r \in Claims, End(k, r), NameOf(g, k, r) # None
      PROVE  /\ NameOf(g, k, r) \in Entities /\ Live(g.entity[NameOf(g, k, r)])
             /\ StateOf(g, r) # "none"
  <2>1. CASE k \in {"from", "to"} /\ r \in Relations
    <3>1. NameOf(g, k, r) \in Names(g.relation[r]) /\ StateOf(g, r) = g.relation[r].state
      BY <2>1 DEF NameOf, Names, StateOf
    <3>2. g.relation[r].state # "none"
      BY <1>2, <2>1, <3>1 DEF NamesWell
    <3> QED BY <2>1, <3>1, <3>2 DEF NamesWell
  <2>2. CASE k = "subj" /\ r \in Items
    <3>1. NameOf(g, k, r) = g.item[r].subject /\ StateOf(g, r) = g.item[r].state
      BY <2>2, Apart DEF NameOf, StateOf
    <3>2. g.item[r].subject \in Entities
      BY <1>2, <2>2, <3>1, PartsOf DEF ItemRows
    <3> QED BY <1>2, <2>2, <3>1, <3>2 DEF NamesWell
  <2> QED BY <1>2, <2>1, <2>2 DEF End
<1> QED BY <1>1, <1>2

\* What a record of kg_merges lists.
LEMMA RecordParts ==
  ASSUME NEW v \in MergeRecords
  PROVE  /\ v.m \in Entities /\ v.s \in Entities /\ v.cites \subseteq Cites
         /\ v.from \subseteq Relations /\ v.to \subseteq Relations /\ v.subj \subseteq Items
         /\ \A x : GoneIn(v, x) => x \in Claims
         /\ \A x : Looped(v, x) => x \in Relations
<1>1. /\ v.m \in Entities /\ v.s \in Entities /\ v.cites \subseteq Cites
      /\ v.from \subseteq Relations /\ v.to \subseteq Relations /\ v.subj \subseteq Items
      /\ v.twins \subseteq TwinRecords /\ v.folds \in Seq(FoldRecords) /\ v.loops \subseteq LoopRecords
  BY DEF MergeRecords
<1>2. ASSUME NEW x, GoneIn(v, x) PROVE x \in Claims
  <2>1. CASE \E j \in 1..Len(v.folds) : v.folds[j].row = x
    <3>1. PICK j \in 1..Len(v.folds) : v.folds[j].row = x
      BY <2>1
    <3>2. v.folds[j] \in FoldRecords
      BY <1>1
    <3>3. v.folds[j].row \in Relations
      BY <3>2 DEF FoldRecords
    <3> QED BY <3>1, <3>3 DEF Claims
  <2>2. CASE \E t \in v.twins : t.row = x
    BY <1>1, <2>2 DEF TwinRecords, Claims
  <2> QED BY <1>2, <2>1, <2>2 DEF GoneIn
<1>3. ASSUME NEW x, Looped(v, x) PROVE x \in Relations
  <2>1. PICK l \in v.loops : l[1] = x
    BY <1>3 DEF Looped
  <2>2. l \in Relations \X {"live", "rejected"}
    BY <1>1 DEF LoopRecords
  <2> QED BY <2>1, <2>2
<1> QED BY <1>1, <1>2, <1>3

\* A merge leaves every name backed, and what is fresh it leaves fresh.
LEMMA MergeWhole ==
  ASSUME clock \in Nat, NEW g, NEW ms, Paired(g, ms), NEW m \in Entities, NEW s \in Entities,
         m # s, Live(g.entity[m]), Live(g.entity[s])
  PROVE  LET x == MergeIn(g, m, s) IN
         /\ \A pr : Whole(g, ms, pr) => Whole(x.graph, Append(ms, x.entry), pr)
         /\ \A c \in Cites : Fresh(g, ms, c) => Fresh(x.graph, Append(ms, x.entry), c)
<1> DEFINE x == MergeIn(g, m, s)
           h == x.graph
           v == x.entry
           more == Append(ms, v)
           N == Len(ms) + 1
<1>1. /\ h \in Graphs /\ v \in MergeRecords
      /\ v.m = m /\ v.s = s /\ ~v.reversed
      /\ h.entity[m].state = "merged"
      /\ \A e \in Entities \ {m} : h.entity[e] = g.entity[e]
      /\ MovesAll(g, h, m, s) /\ MergesAs(g, h, v)
  <2>1. g \in Graphs /\ Blank(g)
    BY NamesWellBlank DEF Paired
  <2> QED BY <2>1, MergeInDoes
<1>2. SameRows(g, h) /\ Paired(h, more)
  BY MergeKeeps
<1> HIDE DEF x
<1>3. /\ g \in Graphs /\ ms \in Seq(MergeRecords) /\ NamesWell(g, {}) /\ Tombs(g, ms)
      /\ g.entity[m].state = "live" /\ g.entity[s].state = "live"
      /\ NamesWell(h, {})
  BY <1>2 DEF Paired, Live
<1> HIDE DEF h, v
<1>4. /\ more \in Seq(MergeRecords) /\ Len(more) = N /\ more[N] = v /\ N \in Nat
      /\ \A n \in 1..Len(ms) : more[n] = ms[n]
      /\ \A n \in 1..Len(more) : n = N \/ n \in 1..Len(ms)
      /\ 1..Len(ms) \subseteq 1..Len(more) /\ N \in 1..Len(more) /\ N \notin 1..Len(ms)
  BY <1>1, <1>3
<1>5. /\ Stands(more, N)
      /\ \A n \in 1..Len(ms) : Stands(more, n) <=> Stands(ms, n)
  BY <1>1, <1>4 DEF Stands
<1>6. \A y : BackIn(more, y) <=> BackIn(ms, y)
  BY <1>1, <1>4 DEF BackIn
<1> HIDE DEF more, N
<1>7. /\ \A k \in Kinds : \A r \in Claims : End(k, r) =>
           /\ NameOf(h, k, r) = Moved(NameOf(g, k, r), m, s)
           /\ Took(v, k, r) <=> NameOf(g, k, r) = m
      /\ \A c \in Cites : c \in v.cites <=> g.cite[c] = m
      /\ \A y \in Claims :
           /\ BornOf(h, y) = BornOf(g, y)
           /\ \/ StateOf(h, y) = StateOf(g, y)
              \/ StateOf(h, y) = "merged" /\ StateOf(g, y) # "none"
           /\ GoneIn(v, y) => /\ StateOf(g, y) = "live" /\ StateOf(h, y) = "merged" /\ ~Looped(v, y)
           /\ KeptIn(v, y) => StateOf(g, y) = "live" /\ g.cite[y] # y
           /\ \/ h.cite[y] = g.cite[y]
              \/ GoneIn(v, g.cite[y]) /\ h.cite[y] \in Claims /\ StateOf(h, h.cite[y]) # "none"
           /\ Looped(v, y) => StateOf(g, y) \notin {"none", "merged"} /\ StateOf(h, y) = "merged"
      /\ \A c \in Entities \cup Links : h.cite[c] = Moved(g.cite[c], m, s)
  BY <1>1 DEF MergesAs, MovesAll, Looped
<1>8. /\ \A n \in 1..Len(ms) : ms[n].m \in Entities /\ ms[n].s \in Entities
      /\ Entities \subseteq Cites /\ m # None
  <2>1. ASSUME NEW n \in 1..Len(ms) PROVE ms[n].m \in Entities /\ ms[n].s \in Entities
    <3>1. ms[n] \in MergeRecords
      BY <1>3
    <3> QED BY <3>1, RecordParts
  <2> QED BY <2>1, Apart DEF Cites, Rows
<1>9. ASSUME NEW pr, Whole(g, ms, pr) PROVE Whole(h, more, pr)
  <2>1. OwnCites(h, more)
    <3>0. OwnCites(g, ms)
      BY <1>9 DEF Whole
    <3>1. ASSUME NEW e \in Entities, Live(h.entity[e])
          PROVE  h.cite[e] = e /\ \A n \in 1..Len(more) : Stands(more, n) => e \notin more[n].cites
      <4>1. e # m /\ Live(g.entity[e])
        BY <1>1, <3>1 DEF Live
      <4>2. g.cite[e] = e /\ \A n \in 1..Len(ms) : Stands(ms, n) => e \notin ms[n].cites
        BY <3>0, <4>1 DEF OwnCites
      <4>3. h.cite[e] = e /\ e \notin v.cites
        BY <1>7, <1>8, <4>1, <4>2 DEF Moved
      <4> QED BY <1>4, <1>5, <4>2, <4>3
    <3>2. g.cite[m] = m /\ g.cite[s] = s
      BY <1>3, <3>0 DEF OwnCites, Live
    <3>3. ASSUME NEW n \in 1..Len(more), Stands(more, n)
          PROVE  /\ h.cite[more[n].m] = h.cite[more[n].s]
                 /\ \A k \in 1..Len(more) : Stands(more, k) =>
                      IF k = n THEN more[n].m \in more[n].cites
                      ELSE more[n].m \in more[k].cites <=> more[n].s \in more[k].cites
      <4>1. CASE n = N
        <5>1. h.cite[m] = s /\ h.cite[s] = s
          BY <1>7, <3>2 DEF Moved
        <5>2. m \in v.cites
          BY <1>7, <1>8, <3>2
        <5>3. \A k \in 1..Len(ms) : Stands(ms, k) => m \notin ms[k].cites /\ s \notin ms[k].cites
          BY <1>3, <3>0 DEF OwnCites, Live
        <5> QED BY <1>1, <1>4, <1>5, <4>1, <5>1, <5>2, <5>3
      <4>2. CASE n \in 1..Len(ms)
        <5>1. more[n] = ms[n] /\ Stands(ms, n)
          BY <1>4, <1>5, <3>3, <4>2
        <5>2. /\ g.cite[ms[n].m] = g.cite[ms[n].s]
              /\ \A k \in 1..Len(ms) : Stands(ms, k) =>
                   IF k = n THEN ms[n].m \in ms[n].cites
                   ELSE ms[n].m \in ms[k].cites <=> ms[n].s \in ms[k].cites
          BY <3>0, <4>2, <5>1 DEF OwnCites
        <5>3. h.cite[ms[n].m] = h.cite[ms[n].s]
          BY <1>7, <1>8, <4>2, <5>2
        <5>4. ms[n].m \in v.cites <=> ms[n].s \in v.cites
          BY <1>7, <1>8, <4>2, <5>2
        <5> QED BY <1>4, <1>5, <4>2, <5>1, <5>2, <5>3, <5>4
      <4> QED BY <1>4, <4>1, <4>2
    <3> QED BY <3>1, <3>3 DEF OwnCites
  <2>2. Shadowed(h, more, pr)
    <3> SUFFICES ASSUME NEW k \in Kinds, NEW r \in Claims, End(k, r), NameOf(h, k, r) # None
                 PROVE  \E c \in Entities : Shadows(h, more, pr, k, r, c)
      BY DEF Shadowed
    <3>1. NameOf(g, k, r) # None
      BY <1>7, <1>8 DEF Moved
    <3>2. PICK c \in Entities : Shadows(g, ms, pr, k, r, c)
      BY <1>9, <3>1 DEF Whole, Shadowed
    <3>3. h.cite[c] = NameOf(h, k, r)
      BY <1>7, <3>2 DEF Shadows
    <3>4. Took(v, k, r) <=> c \in v.cites
      BY <1>7, <1>8, <3>2 DEF Shadows
    <3>5. \A n \in 1..Len(more) : Stands(more, n) => (Took(more[n], k, r) <=> c \in more[n].cites)
      BY <1>4, <1>5, <3>2, <3>4 DEF Shadows
    <3>6. \A p \in Proposals : Committed(pr, p) /\ BornOf(h, r) <= pr[p].at /\ c \in pr[p].log.created
                                 => r \in pr[p].log.created
      BY <1>7, <3>2 DEF Shadows
    <3> QED BY <3>3, <3>5, <3>6 DEF Shadows
  <2>3. OwnRows(h, more)
    <3> SUFFICES ASSUME NEW y \in Claims, StateOf(h, y) \notin {"none", "merged"}
                 PROVE  h.cite[y] = y \/ BackIn(more, y)
      BY DEF OwnRows
    <3>1. StateOf(g, y) = StateOf(h, y) /\ ~GoneIn(v, y)
      BY <1>7
    <3>2. g.cite[y] = y \/ BackIn(ms, y)
      BY <1>9, <3>1 DEF Whole, OwnRows
    <3> QED BY <1>6, <1>7, <3>1, <3>2
  <2>4. LoopsHold(h, more)
    <3> SUFFICES ASSUME NEW n \in 1..Len(more), NEW y \in Claims, Stands(more, n), Looped(more[n], y),
                        StateOf(h, y) # "none", ~BackIn(more, y)
                 PROVE  /\ StateOf(h, y) = "merged" /\ h.cite[y] = y
                        /\ \A k \in 1..Len(more) : Stands(more, k) /\ Looped(more[k], y) => k = n
      BY DEF LoopsHold
    <3>1. ~BackIn(ms, y) /\ StateOf(g, y) # "none"
      BY <1>6, <1>7
    <3>2. ASSUME NEW k \in 1..Len(ms), Stands(ms, k), Looped(ms[k], y)
          PROVE  /\ StateOf(g, y) = "merged" /\ g.cite[y] = y
                 /\ \A i \in 1..Len(ms) : Stands(ms, i) /\ Looped(ms[i], y) => i = k
      BY <1>9, <3>1, <3>2 DEF Whole, LoopsHold
    <3>3. CASE n = N
      <4>1. Looped(v, y)
        BY <1>4, <3>3
      <4>2. StateOf(g, y) \notin {"none", "merged"} /\ StateOf(h, y) = "merged" /\ ~GoneIn(v, y)
        BY <1>7, <4>1
      <4>3. g.cite[y] = y
        BY <1>9, <3>1, <4>2 DEF Whole, OwnRows
      <4>4. h.cite[y] = y
        BY <1>7, <4>2, <4>3
      <4>5. \A k \in 1..Len(ms) : ~(Stands(ms, k) /\ Looped(ms[k], y))
        BY <3>2, <4>2
      <4> QED BY <1>4, <1>5, <3>3, <4>2, <4>4, <4>5
    <3>4. CASE n \in 1..Len(ms)
      <4>1. Stands(ms, n) /\ Looped(ms[n], y)
        BY <1>4, <1>5, <3>4
      <4>2. /\ StateOf(g, y) = "merged" /\ g.cite[y] = y
            /\ \A i \in 1..Len(ms) : Stands(ms, i) /\ Looped(ms[i], y) => i = n
        BY <3>2, <3>4, <4>1
      <4>3. ~GoneIn(v, y) /\ ~Looped(v, y)
        BY <1>7, <4>2
      <4>4. StateOf(h, y) = "merged" /\ h.cite[y] = y
        BY <1>7, <4>2, <4>3
      <4> QED BY <1>4, <1>5, <4>2, <4>3, <4>4
    <3> QED BY <1>4, <3>3, <3>4
  <2>5. KeptBack(more)
    <3> SUFFICES ASSUME NEW n \in 1..Len(more), NEW d \in Claims, Stands(more, n), KeptIn(more[n], d)
                 PROVE  BackIn(more, d)
      BY DEF KeptBack
    <3>1. CASE n = N
      <4>1. StateOf(g, d) = "live" /\ g.cite[d] # d
        BY <1>4, <1>7, <3>1
      <4> QED BY <1>6, <1>9, <4>1 DEF Whole, OwnRows
    <3>2. CASE n \in 1..Len(ms)
      BY <1>4, <1>5, <1>6, <1>9, <3>2 DEF Whole, KeptBack
    <3> QED BY <1>4, <3>1, <3>2
  <2>6. CitesHold(h, more)
    <3> SUFFICES ASSUME NEW c \in Claims, h.cite[c] # None
                 PROVE  StateOf(h, h.cite[c]) # "none" \/ BackIn(more, h.cite[c])
      BY DEF CitesHold
    <3>1. CASE h.cite[c] = g.cite[c]
      <4>1. StateOf(g, g.cite[c]) # "none" \/ BackIn(ms, g.cite[c])
        BY <1>9, <3>1 DEF Whole, CitesHold
      <4>2. g.cite[c] \in Claims
        BY <1>3, <3>1, ClaimParts
      <4> QED BY <1>6, <1>7, <3>1, <4>1, <4>2
    <3> QED BY <1>7, <3>1
  <2> QED BY <2>1, <2>2, <2>3, <2>4, <2>5, <2>6 DEF Whole
<1>10. ASSUME NEW c \in Cites, Fresh(g, ms, c) PROVE Fresh(h, more, c)
  <2>1. ~There(h, c) /\ ~There(g, c) /\ g.cite[c] = None
    BY <1>2, <1>10 DEF SameRows, Fresh
  <2>2. h.cite[c] = None
    <3>1. CASE c \in Entities \cup Links
      BY <1>7, <1>8, <2>1, <3>1 DEF Moved
    <3>2. CASE c \in Claims
      <4>1. ~GoneIn(v, None)
        <5>1. None \notin Claims
          BY <1>3, ClaimParts
        <5> QED BY <1>1, <5>1, RecordParts
      <4> QED BY <1>7, <2>1, <3>2, <4>1
    <3> QED BY <3>1, <3>2 DEF Cites, Rows, Claims
  <2>3. c \notin v.cites /\ c \notin v.from /\ c \notin v.to /\ c \notin v.subj /\ ~Looped(v, c)
    <3>1. c \notin v.cites
      BY <1>7, <1>8, <2>1
    <3>2. ASSUME NEW k \in Kinds, c \in Claims, End(k, c) PROVE ~Took(v, k, c)
      <4>1. StateOf(g, c) = "none"
        BY <1>3, <2>1, <3>2, ClaimParts
      <4>2. NameOf(g, k, c) = None
        BY <1>3, <3>2, <4>1, ClaimParts
      <4> QED BY <1>7, <1>8, <3>2, <4>2
    <3>3. v.from \subseteq Relations /\ v.to \subseteq Relations /\ v.subj \subseteq Items
          /\ (Looped(v, c) => c \in Relations)
      BY <1>1, RecordParts
    <3>4. c \notin v.from
      <4>1. c \in Relations => ~Took(v, "from", c)
        BY <3>2 DEF Kinds, Claims, End
      <4> QED BY <3>3, <4>1 DEF Took
    <3>5. c \notin v.to
      <4>1. c \in Relations => ~Took(v, "to", c)
        BY <3>2 DEF Kinds, Claims, End
      <4> QED BY <3>3, <4>1 DEF Took
    <3>6. c \notin v.subj
      <4>1. c \in Items => ~Took(v, "subj", c)
        BY <3>2 DEF Kinds, Claims, End
      <4> QED BY <3>3, <4>1 DEF Took
    <3>7. ~Looped(v, c)
      <4>1. c \in Relations => StateOf(g, c) = "none"
        BY <1>3, <2>1, ClaimParts DEF Claims
      <4> QED BY <1>7, <3>3, <4>1 DEF Claims
    <3> QED BY <3>1, <3>4, <3>5, <3>6, <3>7
  <2>4. \A n \in 1..Len(more) : Stands(more, n) =>
          /\ c \notin more[n].cites \cup more[n].from \cup more[n].to \cup more[n].subj
          /\ ~Looped(more[n], c)
    BY <1>4, <1>5, <1>10, <2>3 DEF Fresh
  <2> QED BY <2>1, <2>2, <2>4 DEF Fresh
<1> QED BY <1>9, <1>10 DEF h, v, more, x

\* The merges of ms, some of which stand no longer.
Fewer(ms, less) ==
  /\ Len(less) = Len(ms)
  /\ \A n \in 1..Len(ms) :
       /\ less[n].m = ms[n].m /\ less[n].s = ms[n].s /\ less[n].cites = ms[n].cites
       /\ less[n].from = ms[n].from /\ less[n].to = ms[n].to /\ less[n].subj = ms[n].subj
       /\ less[n].loops = ms[n].loops /\ less[n].folds = ms[n].folds /\ less[n].twins = ms[n].twins
       /\ ms[n].reversed => less[n].reversed

\* They know what they knew.
LEMMA FewerParts ==
  ASSUME NEW ms, NEW less, Fewer(ms, less)
  PROVE  /\ Len(less) = Len(ms)
         /\ \A n \in 1..Len(ms) :
              /\ less[n].m = ms[n].m /\ less[n].s = ms[n].s /\ less[n].cites = ms[n].cites
              /\ Stands(less, n) => Stands(ms, n)
              /\ \A y : /\ Looped(less[n], y) <=> Looped(ms[n], y)
                        /\ KeptIn(less[n], y) <=> KeptIn(ms[n], y)
                        /\ GoneIn(less[n], y) <=> GoneIn(ms[n], y)
              /\ \A k \in Kinds : \A r : Took(less[n], k, r) <=> Took(ms[n], k, r)
         /\ \A y : BackIn(ms, y) => BackIn(less, y)
<1>1. ASSUME NEW n \in 1..Len(ms)
      PROVE  /\ less[n].m = ms[n].m /\ less[n].s = ms[n].s /\ less[n].cites = ms[n].cites
             /\ Stands(less, n) => Stands(ms, n)
             /\ \A y : /\ Looped(less[n], y) <=> Looped(ms[n], y)
                       /\ KeptIn(less[n], y) <=> KeptIn(ms[n], y)
                       /\ GoneIn(less[n], y) <=> GoneIn(ms[n], y)
             /\ \A k \in Kinds : \A r : Took(less[n], k, r) <=> Took(ms[n], k, r)
  BY DEF Fewer, Stands, Looped, KeptIn, GoneIn, Took, Kinds
<1>2. \A y : BackIn(ms, y) => BackIn(less, y)
  BY <1>1 DEF Fewer, BackIn
<1> QED BY <1>1, <1>2 DEF Fewer

\* One that is reversed.
LEMMA ClosedFewer ==
  ASSUME NEW ms \in Seq(MergeRecords), NEW n \in 1..Len(ms)
  PROVE  Fewer(ms, Closed(ms, n)) /\ Closed(ms, n)[n].reversed
<1> DEFINE v == [ms[n] EXCEPT !.reversed = TRUE]
           less == Closed(ms, n)
<1>1. ms[n] \in MergeRecords
  OBVIOUS
<1>2. /\ v.m = ms[n].m /\ v.s = ms[n].s /\ v.cites = ms[n].cites
      /\ v.from = ms[n].from /\ v.to = ms[n].to /\ v.subj = ms[n].subj
      /\ v.loops = ms[n].loops /\ v.folds = ms[n].folds /\ v.twins = ms[n].twins /\ v.reversed
      /\ v \in MergeRecords
  BY <1>1 DEF MergeRecords
<1>3. less = [ms EXCEPT ![n] = v]
  BY DEF Closed
<1> HIDE DEF v, less
<1>4. /\ Len(less) = Len(ms) /\ n \in 1..Len(ms)
      /\ \A k \in 1..Len(ms) : less[k] = IF k = n THEN v ELSE ms[k]
  BY <1>2, <1>3
<1>5. Fewer(ms, less)
  BY <1>2, <1>4 DEF Fewer
<1>6. less[n].reversed
  BY <1>2, <1>4
<1> QED BY <1>5, <1>6 DEF less

\* A reversal leaves every name backed, and what is fresh it leaves fresh.
LEMMA ReverseWhole ==
  ASSUME clock \in Nat, NEW g, NEW ms, Paired(g, ms), NEW n \in 1..Len(ms), Reversible(g, ms[n])
  PROVE  LET h == ReverseIn(g, ms[n]) IN
         /\ \A pr : Whole(g, ms, pr) => Whole(h, Closed(ms, n), pr)
         /\ \A c \in Cites : Fresh(g, ms, c) => Fresh(h, Closed(ms, n), c)
<1> DEFINE v == ms[n]
           m == v.m
           s == v.s
           h == ReverseIn(g, v)
           less == Closed(ms, n)
<1>0. /\ g \in Graphs /\ ms \in Seq(MergeRecords) /\ NamesWell(g, {}) /\ Tombs(g, ms)
      /\ v \in MergeRecords
  <2>1. g \in Graphs /\ ms \in Seq(MergeRecords) /\ NamesWell(g, {}) /\ Tombs(g, ms)
    BY DEF Paired
  <2>2. v \in MergeRecords
    BY <2>1
  <2> QED BY <2>1, <2>2
<1>1. m \in Entities /\ s \in Entities
  <2> HIDE DEF v
  <2> QED BY <1>0, RecordParts
<1>2. SameRows(g, h) /\ Paired(h, less)
  BY ReverseKeeps
<1>3. /\ h \in Graphs
      /\ \A e \in Entities \ {m} : h.entity[e] = g.entity[e]
      /\ ReversesAs(g, h, v)
  BY <1>0, ReverseInDoes
<1>4. Stands(ms, n) /\ Live(g.entity[s])
  BY <1>0 DEF Reversible, Stands
<1>5. /\ Fewer(ms, less) /\ less[n].reversed
      /\ \A k \in 1..Len(ms) : Stands(less, k) => k # n
  <2>1. Fewer(ms, less) /\ less[n].reversed
    BY <1>0, ClosedFewer
  <2> QED BY <2>1 DEF Stands
<1> HIDE DEF h, less
<1>6. /\ Len(less) = Len(ms)
      /\ \A k \in 1..Len(ms) :
           /\ less[k].m = ms[k].m /\ less[k].s = ms[k].s /\ less[k].cites = ms[k].cites
           /\ Stands(less, k) => Stands(ms, k) /\ k # n
           /\ \A y : /\ Looped(less[k], y) <=> Looped(ms[k], y)
                     /\ KeptIn(less[k], y) <=> KeptIn(ms[k], y)
                     /\ GoneIn(less[k], y) <=> GoneIn(ms[k], y)
           /\ \A i \in Kinds : \A r : Took(less[k], i, r) <=> Took(ms[k], i, r)
      /\ \A y : BackIn(ms, y) => BackIn(less, y)
  BY <1>5, FewerParts
<1>7. \A y : GoneIn(v, y) => BackIn(less, y)
  BY <1>5, <1>6 DEF BackIn
<1>8. /\ \A k \in Kinds : \A r \in Claims : End(k, r) =>
           NameOf(h, k, r) = IF Took(v, k, r) /\ NameOf(g, k, r) = s THEN m ELSE NameOf(g, k, r)
      /\ \A c \in Entities \cup Links : h.cite[c] = IF c \in v.cites /\ g.cite[c] = s THEN m ELSE g.cite[c]
      /\ \A y \in Claims :
           /\ BornOf(h, y) = BornOf(g, y)
           /\ \/ StateOf(h, y) = StateOf(g, y)
              \/ /\ StateOf(g, y) = "merged" /\ StateOf(h, y) # "none"
                 /\ GoneIn(v, y) \/ Looped(v, y)
           /\ \/ h.cite[y] = g.cite[y]
              \/ GoneIn(v, h.cite[y]) /\ g.cite[y] # None /\ (g.cite[y] = y => KeptIn(v, y))
  BY <1>3 DEF ReversesAs, Looped
<1>9. /\ \A k \in 1..Len(ms) : ms[k].m \in Entities /\ ms[k].s \in Entities
      /\ s # None /\ m # None
  <2>1. ASSUME NEW k \in 1..Len(ms) PROVE ms[k].m \in Entities /\ ms[k].s \in Entities
    <3>1. ms[k] \in MergeRecords
      BY <1>0
    <3> QED BY <3>1, RecordParts
  <2> QED BY <1>1, <2>1, Apart
<1>10. ASSUME NEW pr, Whole(g, ms, pr) PROVE Whole(h, less, pr)
  <2>0. /\ OwnCites(g, ms) /\ Shadowed(g, ms, pr) /\ OwnRows(g, ms) /\ LoopsHold(g, ms)
        /\ KeptBack(ms) /\ CitesHold(g, ms)
    BY <1>10 DEF Whole
  <2>1. OwnCites(h, less)
    <3>1. g.cite[s] = s /\ \A k \in 1..Len(ms) : Stands(ms, k) => s \notin ms[k].cites
      BY <1>1, <1>4, <2>0 DEF OwnCites
    <3>2. /\ g.cite[m] = g.cite[s] /\ m \in v.cites
          /\ \A k \in 1..Len(ms) : Stands(ms, k) /\ k # n => (m \in ms[k].cites <=> s \in ms[k].cites)
      BY <1>4, <2>0 DEF OwnCites
    <3>3. ASSUME NEW e \in Entities, Live(h.entity[e])
          PROVE  h.cite[e] = e /\ \A k \in 1..Len(less) : Stands(less, k) => e \notin less[k].cites
      <4>1. CASE e = m
        <5>1. h.cite[m] = m
          BY <1>1, <1>8, <3>1, <3>2
        <5> QED BY <1>6, <3>1, <3>2, <4>1, <5>1
      <4>2. CASE e # m
        <5>1. g.cite[e] = e /\ \A k \in 1..Len(ms) : Stands(ms, k) => e \notin ms[k].cites
          BY <1>3, <2>0, <3>3, <4>2 DEF OwnCites
        <5>2. h.cite[e] = e
          BY <1>4, <1>8, <5>1
        <5> QED BY <1>6, <5>1, <5>2
      <4> QED BY <4>1, <4>2
    <3>4. ASSUME NEW k \in 1..Len(less), Stands(less, k)
          PROVE  /\ h.cite[less[k].m] = h.cite[less[k].s]
                 /\ \A j \in 1..Len(less) : Stands(less, j) =>
                      IF j = k THEN less[k].m \in less[k].cites
                      ELSE less[k].m \in less[j].cites <=> less[k].s \in less[j].cites
      <4>1. k \in 1..Len(ms) /\ Stands(ms, k) /\ k # n
        BY <1>6, <3>4
      <4>2. /\ g.cite[ms[k].m] = g.cite[ms[k].s]
            /\ \A j \in 1..Len(ms) : Stands(ms, j) =>
                 IF j = k THEN ms[k].m \in ms[k].cites
                 ELSE ms[k].m \in ms[j].cites <=> ms[k].s \in ms[j].cites
        BY <2>0, <4>1 DEF OwnCites
      <4>3. ms[k].m \in v.cites <=> ms[k].s \in v.cites
        BY <1>4, <4>1, <4>2
      <4>4. h.cite[ms[k].m] = h.cite[ms[k].s]
        BY <1>8, <1>9, <4>1, <4>2, <4>3
      <4> QED BY <1>6, <4>1, <4>2, <4>4
    <3> QED BY <3>3, <3>4 DEF OwnCites
  <2>2. Shadowed(h, less, pr)
    <3> SUFFICES ASSUME NEW k \in Kinds, NEW r \in Claims, End(k, r), NameOf(h, k, r) # None
                 PROVE  \E c \in Entities : Shadows(h, less, pr, k, r, c)
      BY DEF Shadowed
    <3>1. NameOf(g, k, r) # None
      BY <1>8, <1>9
    <3>2. PICK c \in Entities : Shadows(g, ms, pr, k, r, c)
      BY <2>0, <3>1 DEF Shadowed
    <3>3. g.cite[c] = NameOf(g, k, r) /\ (Took(v, k, r) <=> c \in v.cites)
      BY <1>4, <3>2 DEF Shadows
    <3>4. h.cite[c] = NameOf(h, k, r)
      BY <1>8, <3>3
    <3>5. \A j \in 1..Len(less) : Stands(less, j) => (Took(less[j], k, r) <=> c \in less[j].cites)
      BY <1>6, <3>2 DEF Shadows
    <3>6. \A p \in Proposals : Committed(pr, p) /\ BornOf(h, r) <= pr[p].at /\ c \in pr[p].log.created
                                 => r \in pr[p].log.created
      BY <1>8, <3>2 DEF Shadows
    <3> QED BY <3>4, <3>5, <3>6 DEF Shadows
  <2>3. ASSUME NEW y \in Claims, g.cite[y] = y
        PROVE  h.cite[y] = y \/ BackIn(less, y)
    <3>1. KeptIn(v, y) => BackIn(ms, y)
      BY <1>4, <2>0 DEF KeptBack
    <3> QED BY <1>6, <1>8, <2>3, <3>1
  <2>4. OwnRows(h, less)
    <3> SUFFICES ASSUME NEW y \in Claims, StateOf(h, y) \notin {"none", "merged"}, ~BackIn(less, y)
                 PROVE  h.cite[y] = y
      BY DEF OwnRows
    <3>1. ~BackIn(ms, y) /\ ~GoneIn(v, y)
      BY <1>6, <1>7
    <3>2. CASE StateOf(h, y) = StateOf(g, y)
      BY <2>0, <2>3, <3>1, <3>2 DEF OwnRows
    <3>3. CASE StateOf(g, y) = "merged" /\ Looped(v, y)
      BY <1>4, <2>0, <2>3, <3>1, <3>3 DEF LoopsHold
    <3> QED BY <1>8, <3>1, <3>2, <3>3
  <2>5. LoopsHold(h, less)
    <3> SUFFICES ASSUME NEW k \in 1..Len(less), NEW y \in Claims, Stands(less, k), Looped(less[k], y),
                        StateOf(h, y) # "none", ~BackIn(less, y)
                 PROVE  /\ StateOf(h, y) = "merged" /\ h.cite[y] = y
                        /\ \A j \in 1..Len(less) : Stands(less, j) /\ Looped(less[j], y) => j = k
      BY DEF LoopsHold
    <3>1. k \in 1..Len(ms) /\ Stands(ms, k) /\ k # n /\ Looped(ms[k], y)
      BY <1>6
    <3>2. ~BackIn(ms, y) /\ ~GoneIn(v, y) /\ StateOf(g, y) # "none"
      BY <1>6, <1>7, <1>8
    <3>3. /\ StateOf(g, y) = "merged" /\ g.cite[y] = y
          /\ \A j \in 1..Len(ms) : Stands(ms, j) /\ Looped(ms[j], y) => j = k
      BY <2>0, <3>1, <3>2 DEF LoopsHold
    <3>4. ~Looped(v, y)
      BY <1>4, <3>1, <3>3
    <3>5. StateOf(h, y) = "merged" /\ h.cite[y] = y
      BY <1>8, <2>3, <3>2, <3>3, <3>4
    <3> QED BY <1>6, <3>3, <3>5
  <2>6. KeptBack(less)
    BY <1>6, <2>0 DEF KeptBack
  <2>7. CitesHold(h, less)
    <3> SUFFICES ASSUME NEW c \in Claims, h.cite[c] # None
                 PROVE  StateOf(h, h.cite[c]) # "none" \/ BackIn(less, h.cite[c])
      BY DEF CitesHold
    <3>1. CASE h.cite[c] = g.cite[c]
      <4>1. StateOf(g, g.cite[c]) # "none" \/ BackIn(ms, g.cite[c])
        BY <2>0, <3>1 DEF CitesHold
      <4>2. g.cite[c] \in Claims
        BY <1>0, <3>1, ClaimParts
      <4> QED BY <1>6, <1>8, <3>1, <4>1, <4>2
    <3> QED BY <1>7, <1>8, <3>1
  <2> QED BY <2>1, <2>2, <2>4, <2>5, <2>6, <2>7 DEF Whole
<1>11. ASSUME NEW c \in Cites, Fresh(g, ms, c) PROVE Fresh(h, less, c)
  <2>1. ~There(h, c) /\ g.cite[c] = None
    BY <1>2, <1>11 DEF SameRows, Fresh
  <2>2. h.cite[c] = None
    <3>1. CASE c \in Entities \cup Links
      BY <1>8, <1>9, <2>1, <3>1
    <3>2. CASE c \in Claims
      BY <1>8, <2>1, <3>2
    <3> QED BY <3>1, <3>2 DEF Cites, Rows, Claims
  <2>3. \A k \in 1..Len(less) : Stands(less, k) =>
          /\ c \notin less[k].cites \cup less[k].from \cup less[k].to \cup less[k].subj
          /\ ~Looped(less[k], c)
    BY <1>5, <1>6, <1>11 DEF Fresh, Fewer
  <2> QED BY <2>1, <2>2, <2>3 DEF Fresh
<1> QED BY <1>10, <1>11 DEF h, less, v

\* g and h agree on what backs a name: on every name and citation, and on what is there.
Agrees(g, h) ==
  /\ \A e \in Entities : Live(h.entity[e]) <=> Live(g.entity[e])
  /\ \A c \in Cites : h.cite[c] = g.cite[c] /\ (There(h, c) <=> There(g, c))
  /\ \A k \in Kinds : \A r \in Claims : End(k, r) => NameOf(h, k, r) = NameOf(g, k, r)
  /\ \A x \in Claims :
       /\ BornOf(h, x) = BornOf(g, x)
       /\ \/ StateOf(h, x) = StateOf(g, x)
          \/ {StateOf(g, x), StateOf(h, x)} \cap {"none", "merged"} = {}

\* What agrees is backed as well.
LEMMA AgreesWhole ==
  ASSUME NEW g \in Graphs, NEW h, Agrees(g, h), NEW ms \in Seq(MergeRecords)
  PROVE  /\ \A pr : Whole(g, ms, pr) => Whole(h, ms, pr)
         /\ \A c \in Cites : Fresh(g, ms, c) => Fresh(h, ms, c)
<1>1. ASSUME NEW pr, Whole(g, ms, pr) PROVE Whole(h, ms, pr)
  <2>0. /\ OwnCites(g, ms) /\ Shadowed(g, ms, pr) /\ OwnRows(g, ms) /\ LoopsHold(g, ms)
        /\ KeptBack(ms) /\ CitesHold(g, ms)
    BY <1>1 DEF Whole
  <2>1. OwnCites(h, ms)
    <3>1. ASSUME NEW n \in 1..Len(ms), Stands(ms, n) PROVE h.cite[ms[n].m] = h.cite[ms[n].s]
      <4>1. g.cite[ms[n].m] = g.cite[ms[n].s]
        BY <2>0, <3>1 DEF OwnCites
      <4>2. ms[n] \in MergeRecords
        OBVIOUS
      <4>3. ms[n].m \in Cites /\ ms[n].s \in Cites
        BY <4>2, RecordParts, Apart
      <4> QED BY <4>1, <4>3 DEF Agrees
    <3> QED BY <2>0, <3>1, Apart DEF OwnCites, Agrees
  <2>2. Shadowed(h, ms, pr)
    <3> SUFFICES ASSUME NEW k \in Kinds, NEW r \in Claims, End(k, r), NameOf(h, k, r) # None
                 PROVE  \E c \in Entities : Shadows(h, ms, pr, k, r, c)
      BY DEF Shadowed
    <3>1. NameOf(g, k, r) = NameOf(h, k, r)
      BY DEF Agrees
    <3>2. PICK c \in Entities : Shadows(g, ms, pr, k, r, c)
      BY <2>0, <3>1 DEF Shadowed
    <3>3. h.cite[c] = g.cite[c] /\ BornOf(h, r) = BornOf(g, r)
      BY Apart DEF Agrees
    <3> QED BY <3>1, <3>2, <3>3 DEF Shadows
  <2>3. \A y \in Claims : y \in Cites /\ h.cite[y] = g.cite[y]
    BY Apart DEF Agrees, Claims
  <2>4. OwnRows(h, ms)
    BY <2>0, <2>3 DEF OwnRows, Agrees
  <2>5. LoopsHold(h, ms)
    BY <2>0, <2>3 DEF LoopsHold, Agrees
  <2>6. CitesHold(h, ms)
    <3> SUFFICES ASSUME NEW c \in Claims, h.cite[c] # None
                 PROVE  StateOf(h, h.cite[c]) # "none" \/ BackIn(ms, h.cite[c])
      BY DEF CitesHold
    <3>1. h.cite[c] = g.cite[c] /\ g.cite[c] \in Claims
      BY <2>3, CiteKinds DEF Claims
    <3> QED BY <2>0, <3>1 DEF CitesHold, Agrees
  <2> QED BY <2>0, <2>1, <2>2, <2>4, <2>5, <2>6 DEF Whole
<1>2. \A c \in Cites : Fresh(g, ms, c) => Fresh(h, ms, c)
  BY DEF Fresh, Agrees
<1> QED BY <1>1, <1>2

\* So it is when some merges, and some commits, stand no longer.
LEMMA FewerWhole ==
  ASSUME NEW g, NEW ms, NEW less, Fewer(ms, less), NEW pr, NEW fewer,
         \A p \in Proposals : Committed(fewer, p) =>
           Committed(pr, p) /\ fewer[p].at = pr[p].at /\ fewer[p].log = pr[p].log
  PROVE  /\ Whole(g, ms, pr) => Whole(g, less, fewer)
         /\ \A c : Fresh(g, ms, c) => Fresh(g, less, c)
<1>0. /\ Len(less) = Len(ms)
      /\ \A n \in 1..Len(ms) :
           /\ less[n].m = ms[n].m /\ less[n].s = ms[n].s /\ less[n].cites = ms[n].cites
           /\ Stands(less, n) => Stands(ms, n)
           /\ \A y : /\ Looped(less[n], y) <=> Looped(ms[n], y)
                     /\ KeptIn(less[n], y) <=> KeptIn(ms[n], y)
           /\ \A k \in Kinds : \A r : Took(less[n], k, r) <=> Took(ms[n], k, r)
      /\ \A y : BackIn(ms, y) => BackIn(less, y)
  BY FewerParts
<1>1. ASSUME Whole(g, ms, pr) PROVE Whole(g, less, fewer)
  <2>0. /\ OwnCites(g, ms) /\ Shadowed(g, ms, pr) /\ OwnRows(g, ms) /\ LoopsHold(g, ms)
        /\ KeptBack(ms) /\ CitesHold(g, ms)
    BY <1>1 DEF Whole
  <2>1. OwnCites(g, less)
    BY <1>0, <2>0 DEF OwnCites
  <2>2. Shadowed(g, less, fewer)
    <3> SUFFICES ASSUME NEW k \in Kinds, NEW r \in Claims, End(k, r), NameOf(g, k, r) # None
                 PROVE  \E c \in Entities : Shadows(g, less, fewer, k, r, c)
      BY DEF Shadowed
    <3>1. PICK c \in Entities : Shadows(g, ms, pr, k, r, c)
      BY <2>0 DEF Shadowed
    <3>2. \A n \in 1..Len(less) : Stands(less, n) => (Took(less[n], k, r) <=> c \in less[n].cites)
      BY <1>0, <3>1 DEF Shadows
    <3>3. \A p \in Proposals :
            Committed(fewer, p) /\ BornOf(g, r) <= fewer[p].at /\ c \in fewer[p].log.created
              => r \in fewer[p].log.created
      <4> SUFFICES ASSUME NEW p \in Proposals, Committed(fewer, p), BornOf(g, r) <= fewer[p].at,
                          c \in fewer[p].log.created
                   PROVE  r \in fewer[p].log.created
        OBVIOUS
      <4>1. Committed(pr, p) /\ fewer[p].at = pr[p].at /\ fewer[p].log = pr[p].log
        OBVIOUS
      <4>2. BornOf(g, r) <= pr[p].at /\ c \in pr[p].log.created
        BY <4>1
      <4>3. r \in pr[p].log.created
        BY <3>1, <4>1, <4>2 DEF Shadows
      <4> QED BY <4>1, <4>3
    <3> QED BY <3>1, <3>2, <3>3 DEF Shadows
  <2>3. OwnRows(g, less) /\ KeptBack(less) /\ CitesHold(g, less)
    BY <1>0, <2>0 DEF OwnRows, KeptBack, CitesHold
  <2>4. LoopsHold(g, less)
    BY <1>0, <2>0 DEF LoopsHold
  <2> QED BY <2>1, <2>2, <2>3, <2>4 DEF Whole
<1>2. \A c : Fresh(g, ms, c) => Fresh(g, less, c)
  BY <1>0 DEF Fresh, Fewer
<1> QED BY <1>1, <1>2

\* h is g without the rows, what is about them, and the citations of cut, none of which is all
\* that a row has; nothing goes that only names a row.
Drops(g, h, rows, cut) ==
  /\ Loses(g, h, rows) /\ None \notin rows
  /\ \A r \in Relations : Names(g.relation[r]) \cap rows # {} => r \in rows
  /\ \A i \in Items : g.item[i].subject \in rows => i \in rows
  /\ cut \cap Entities = {} /\ \A c \in cut : ~There(g, c)
  /\ \A c \in Cites : h.cite[c] = IF c \in cut \/ g.cite[c] \in rows THEN None ELSE g.cite[c]

\* What is left is backed.
LEMMA DropsWhole ==
  ASSUME NEW g \in Graphs, NEW h, NEW rows, NEW cut, Drops(g, h, rows, cut), NamesWell(g, {}),
         NEW ms \in Seq(MergeRecords)
  PROVE  /\ \A pr : Whole(g, ms, pr) => Whole(h, ms, pr)
         /\ \A c \in Cites : Fresh(g, ms, c) => Fresh(h, ms, c)
<1>1. \A y \in Claims :
        /\ y \in Cites /\ (There(g, y) <=> StateOf(g, y) # "none")
        /\ g.cite[y] \in Claims \cup {None}
        /\ StateOf(h, y) # "none" =>
             y \notin rows /\ StateOf(h, y) = StateOf(g, y) /\ BornOf(h, y) = BornOf(g, y)
        /\ y \notin rows => StateOf(h, y) = StateOf(g, y)
  <2>1. ASSUME NEW y \in Relations
        PROVE  /\ StateOf(h, y) # "none" =>
                    y \notin rows /\ StateOf(h, y) = StateOf(g, y) /\ BornOf(h, y) = BornOf(g, y)
               /\ y \notin rows => StateOf(h, y) = StateOf(g, y)
    BY <2>1 DEF StateOf, BornOf, Drops, Loses
  <2>2. ASSUME NEW y \in Items
        PROVE  /\ StateOf(h, y) # "none" =>
                    y \notin rows /\ StateOf(h, y) = StateOf(g, y) /\ BornOf(h, y) = BornOf(g, y)
               /\ y \notin rows => StateOf(h, y) = StateOf(g, y)
    BY <2>2, Apart DEF StateOf, BornOf, Drops, Loses
  <2> QED BY <2>1, <2>2, ClaimParts DEF Claims
<1>2. ASSUME NEW e \in Entities, Live(h.entity[e]) PROVE Live(g.entity[e]) /\ e \notin rows
  BY <1>2 DEF Drops, Loses, Live
<1>3. ASSUME NEW k \in Kinds, NEW r \in Claims, End(k, r), NameOf(h, k, r) # None
      PROVE  /\ NameOf(h, k, r) = NameOf(g, k, r) /\ NameOf(g, k, r) \notin rows
             /\ StateOf(h, r) # "none" \/ BornOf(h, r) = BornOf(g, r)
  <2>1. CASE k \in {"from", "to"} /\ r \in Relations
    <3>1. NameOf(h, k, r) \in Names(h.relation[r]) /\ NameOf(g, k, r) \in Names(g.relation[r])
      BY <2>1 DEF NameOf, Names
    <3>2. ~(r \in rows \/ Names(g.relation[r]) \cap rows # {})
      BY <1>3, <2>1, <3>1 DEF Drops, Loses
    <3> QED BY <2>1, <3>1, <3>2 DEF Drops, Loses, NameOf, BornOf
  <2>2. CASE k = "subj" /\ r \in Items
    <3>1. NameOf(h, k, r) = h.item[r].subject /\ NameOf(g, k, r) = g.item[r].subject
      BY <2>2 DEF NameOf
    <3>2. ~(r \in rows \/ g.item[r].subject \in rows)
      BY <1>3, <2>2, <3>1 DEF Drops, Loses
    <3> QED BY <2>2, <3>1, <3>2, Apart DEF Drops, Loses, BornOf
  <2> QED BY <1>3, <2>1, <2>2 DEF End
<1>4. \A c \in Cites : h.cite[c] = IF c \in cut \/ g.cite[c] \in rows THEN None ELSE g.cite[c]
  BY DEF Drops
<1>5. /\ \A e \in Entities : e \in Cites /\ e \notin cut
      /\ \A c \in cut : ~There(g, c)
  BY Apart DEF Drops
<1>6. ASSUME NEW pr, Whole(g, ms, pr) PROVE Whole(h, ms, pr)
  <2>0. /\ OwnCites(g, ms) /\ Shadowed(g, ms, pr) /\ OwnRows(g, ms) /\ LoopsHold(g, ms)
        /\ KeptBack(ms) /\ CitesHold(g, ms)
    BY <1>6 DEF Whole
  <2>1. OwnCites(h, ms)
    <3>1. ASSUME NEW e \in Entities, Live(h.entity[e])
          PROVE  h.cite[e] = e /\ \A n \in 1..Len(ms) : Stands(ms, n) => e \notin ms[n].cites
      <4>1. Live(g.entity[e]) /\ e \notin rows
        BY <1>2, <3>1
      <4> QED BY <1>4, <1>5, <2>0, <4>1 DEF OwnCites
    <3>2. ASSUME NEW n \in 1..Len(ms), Stands(ms, n) PROVE h.cite[ms[n].m] = h.cite[ms[n].s]
      <4>1. g.cite[ms[n].m] = g.cite[ms[n].s]
        BY <2>0, <3>2 DEF OwnCites
      <4>2. ms[n] \in MergeRecords
        OBVIOUS
      <4>3. ms[n].m \in Entities /\ ms[n].s \in Entities
        BY <4>2, RecordParts
      <4> QED BY <1>4, <1>5, <4>1, <4>3
    <3> QED BY <2>0, <3>1, <3>2 DEF OwnCites
  <2>2. Shadowed(h, ms, pr)
    <3> SUFFICES ASSUME NEW k \in Kinds, NEW r \in Claims, End(k, r), NameOf(h, k, r) # None
                 PROVE  \E c \in Entities : Shadows(h, ms, pr, k, r, c)
      BY DEF Shadowed
    <3>1. NameOf(h, k, r) = NameOf(g, k, r) /\ NameOf(g, k, r) \notin rows
      BY <1>3
    <3>2. BornOf(h, r) = BornOf(g, r)
      BY <1>1, <1>3
    <3>3. PICK c \in Entities : Shadows(g, ms, pr, k, r, c)
      BY <2>0, <3>1 DEF Shadowed
    <3>4. h.cite[c] = NameOf(h, k, r)
      BY <1>4, <1>5, <3>1, <3>3 DEF Shadows
    <3> QED BY <3>2, <3>3, <3>4 DEF Shadows
  <2>3. ASSUME NEW y \in Claims, StateOf(h, y) # "none", g.cite[y] = y PROVE h.cite[y] = y
    BY <1>1, <1>4, <1>5, <2>3
  <2>4. OwnRows(h, ms)
    BY <1>1, <2>0, <2>3 DEF OwnRows
  <2>5. LoopsHold(h, ms)
    BY <1>1, <2>0, <2>3 DEF LoopsHold
  <2>6. CitesHold(h, ms)
    <3> SUFFICES ASSUME NEW c \in Claims, h.cite[c] # None
                 PROVE  StateOf(h, h.cite[c]) # "none" \/ BackIn(ms, h.cite[c])
      BY DEF CitesHold
    <3>1. h.cite[c] = g.cite[c] /\ g.cite[c] \notin rows /\ g.cite[c] \in Claims
      BY <1>1, <1>4
    <3> QED BY <1>1, <2>0, <3>1 DEF CitesHold
  <2> QED BY <2>0, <2>1, <2>2, <2>4, <2>5, <2>6 DEF Whole
<1>7. ASSUME NEW c \in Cites, Fresh(g, ms, c) PROVE Fresh(h, ms, c)
  <2>1. There(h, c) => There(g, c)
    BY Apart DEF There, Drops, Loses, Cites, Rows
  <2> QED BY <1>4, <1>7, <2>1 DEF Fresh
<1> QED BY <1>6, <1>7

-------------------------------------------------------------------------------
(* A commit that creates rows keeps it.                                    *)

\* A row of a draft adds to the run what it is to add, and touches no other name.
LEMMA CommitRowDoes ==
  ASSUME clock \in Nat, NEW x \in RunRecords, NEW w \in PlanRows, w.kind # "merge",
         ~There(x.graph, w.name)
  PROVE  /\ CommitRow(x, w) \in RunRecords /\ Adds(x, CommitRow(x, w), w)
         /\ Tells(x, CommitRow(x, w), w)
<1>1. w.kind \in {"entity", "relation", "item", "closing"}
  BY DEF PlanRows
<1>2. CASE w.kind = "entity"
  BY <1>2, CommitEntityDoes DEF CommitRow
<1>3. CASE w.kind = "relation"
  BY <1>3, CommitRelationDoes DEF CommitRow
<1>4. CASE w.kind = "item"
  BY <1>4, CommitItemDoes DEF CommitRow
<1>5. CASE w.kind = "closing"
  BY <1>5, CommitClosingDoes DEF CommitRow
<1> QED BY <1>1, <1>2, <1>3, <1>4, <1>5

\* What the first i rows of p create, and the entities that the rest of them will.
Made(p, i) == {plan[p][k].name : k \in 1..i} \ {None}
Coming(p, i) == {e \in Entities : \E k \in (i + 1)..Len(plan[p]) :
                   plan[p][k].kind = "entity" /\ plan[p][k].name = e}

\* What a run is after the first i rows of p.
Added(p, i, x) ==
  /\ x.merges = merges /\ x.log.merges = {} /\ x.log.created \subseteq Made(p, i)
  /\ NamesWell(x.graph, Coming(p, i))
  /\ \A e \in Entities :
       \/ x.graph.entity[e] = graph.entity[e]
       \/ e \in Made(p, i) /\ x.graph.entity[e].state = "live" /\ x.graph.entity[e].into = None
  /\ \A c \in Cites : There(x.graph, c) => There(graph, c) \/ c \in Made(p, i)
  /\ \A k \in 1..i : plan[p][k].kind = "entity" /\ plan[p][k].name \in Entities =>
       Live(x.graph.entity[plan[p][k].name])

\* One more row of a commit that creates.
LEMMA AddsNext ==
  ASSUME Types, NewNames, NEW p \in Proposals, proposal[p].status = "draft", Valid(p),
         \A k \in 1..Len(plan[p]) : plan[p][k].kind # "merge",
         NEW i \in 1..Len(plan[p]), NEW x \in RunRecords, Added(p, i - 1, x)
  PROVE  /\ CommitRow(x, plan[p][i]) \in RunRecords /\ Added(p, i, CommitRow(x, plan[p][i]))
         /\ Tells(x, CommitRow(x, plan[p][i]), plan[p][i])
<1> DEFINE w == plan[p][i]
           y == CommitRow(x, w)
           D == Coming(p, i - 1)
           E == Coming(p, i)
<1>0. plan[p] \in Seq(PlanRows) /\ Len(plan[p]) \in Nat /\ \A k \in 1..Len(plan[p]) : plan[p][k] \in PlanRows
  BY DEF Types
<1>1. /\ w \in PlanRows /\ w.kind # "merge"
      /\ w.name # None => ~There(graph, w.name) /\ w.name \notin Made(p, i - 1)
  <2>1. w.name # None => /\ ~There(graph, w.name)
                         /\ \A k \in 1..Len(plan[p]) : plan[p][k].name = w.name => k = i
    BY DEF NewNames
  <2>2. \A k \in 1..(i - 1) : k \in 1..Len(plan[p]) /\ k # i
    BY <1>0
  <2> QED BY <1>0, <2>1, <2>2 DEF Made
<1>2. w.name \in Cites \cup {None}
  BY <1>1 DEF PlanRows
<1>3. ~There(x.graph, w.name)
  BY <1>1, <1>2, Apart DEF Added, There
<1>4. y \in RunRecords /\ Adds(x, y, w) /\ Tells(x, y, w)
  BY <1>1, <1>3, CommitRowDoes DEF Types
<1> HIDE DEF y
<1>5. Made(p, i) = Made(p, i - 1) \cup ({w.name} \ {None})
  <2>1. 1..i = 1..(i - 1) \cup {i}
    BY <1>0
  <2> QED BY <2>1 DEF Made
<1>6. /\ x.graph \in Graphs /\ y.graph \in Graphs
      /\ x.graph.entity \in [Entities -> EntityRows] /\ y.graph.entity \in [Entities -> EntityRows]
      /\ x.graph.relation \in [Relations -> RelationRows] /\ x.graph.item \in [Items -> ItemRows]
  BY <1>4, RunParts, PartsOf
<1>7. w.kind = "entity" /\ w.name \in Entities => Live(y.graph.entity[w.name])
  BY <1>1, <1>4, Apart DEF Adds, PlanRows
<1>8. ASSUME NEW e \in Entities, Live(x.graph.entity[e]) PROVE Live(y.graph.entity[e])
  BY <1>4, <1>8 DEF Adds
<1>9. ASSUME NEW e \in Entities, e \in D \/ Live(x.graph.entity[e])
      PROVE  e \in E \/ Live(y.graph.entity[e])
  <2>1. CASE e \in D
    <3>1. PICK k \in (i - 1 + 1)..Len(plan[p]) : plan[p][k].kind = "entity" /\ plan[p][k].name = e
      BY <2>1 DEF Coming
    <3>2. k = i \/ k \in (i + 1)..Len(plan[p])
      BY <1>0, <3>1
    <3> QED BY <1>7, <3>1, <3>2 DEF Coming
  <2> QED BY <1>8, <1>9, <2>1
<1>10. ASSUME NEW e \in Entities,
              \/ Live(graph.entity[e])
              \/ \E k \in 1..Len(plan[p]) : plan[p][k].name = e /\ plan[p][k].kind = "entity"
       PROVE  e \in E \/ Live(y.graph.entity[e])
  <2>1. CASE Live(graph.entity[e])
    BY <1>8, <2>1 DEF Added, Live
  <2>2. CASE \E k \in 1..Len(plan[p]) : plan[p][k].name = e /\ plan[p][k].kind = "entity"
    <3>1. PICK k \in 1..Len(plan[p]) : plan[p][k].name = e /\ plan[p][k].kind = "entity"
      BY <2>2
    <3>2. k \in 1..(i - 1) \/ k = i \/ k \in (i + 1)..Len(plan[p])
      BY <1>0
    <3>3. CASE k \in 1..(i - 1)
      BY <1>8, <3>1, <3>3 DEF Added
    <3> QED BY <1>7, <3>1, <3>2, <3>3 DEF Coming
  <2> QED BY <1>10, <2>1, <2>2
<1>11. /\ w.kind = "entity" /\ w.target # None => w.target \in E \/ Live(y.graph.entity[w.target])
       /\ w.kind = "relation" => \A e \in {w.from, w.to} : e \in Entities /\ (e \in E \/ Live(y.graph.entity[e]))
       /\ w.kind = "item" /\ w.from # None => w.from \in E \/ Live(y.graph.entity[w.from])
  <2> DEFINE ok(e) == e # None => \/ Live(graph.entity[e])
                                  \/ \E k \in 1..Len(plan[p]) : plan[p][k].name = e /\ plan[p][k].kind = "entity"
  <2>1. /\ w.kind = "entity" => ok(w.target)
        /\ w.kind = "relation" => ok(w.from) /\ ok(w.to)
        /\ w.kind = "item" => ok(w.from)
    BY DEF Valid
  <2>2. /\ w.kind = "entity" => w.target \in Entities \cup {None}
        /\ w.kind = "relation" => w.from \in Entities /\ w.to \in Entities
        /\ w.kind = "item" => w.from \in Entities \cup {None}
    BY <1>1 DEF PlanRows
  <2>3. \A e \in Entities : ok(e) => e \in E \/ Live(y.graph.entity[e])
    BY <1>10, Apart
  <2> HIDE DEF ok, E, w
  <2> QED BY <2>1, <2>2, <2>3, Apart
<1>12. NamesWell(y.graph, E)
  <2>0. NamesWell(x.graph, D)
    BY DEF Added
  <2>1. ASSUME NEW e \in Entities, y.graph.entity[e].state # "merged"
        PROVE  y.graph.entity[e].into = None
    BY <1>4, <2>0, <2>1 DEF Adds, NamesWell
  <2>2. ASSUME NEW r \in Relations
        PROVE  IF y.graph.relation[r].state = "none" THEN Names(y.graph.relation[r]) = {None}
               ELSE \A e \in Names(y.graph.relation[r]) :
                      e \in Entities /\ (e \in E \/ Live(y.graph.entity[e]))
    <3>1. CASE /\ y.graph.relation[r].from = x.graph.relation[r].from
               /\ y.graph.relation[r].to = x.graph.relation[r].to
               /\ y.graph.relation[r].state = "none" <=> x.graph.relation[r].state = "none"
      BY <1>9, <2>0, <3>1 DEF NamesWell, Names
    <3>2. CASE /\ r = w.name /\ Live(y.graph.relation[r])
               /\ Names(y.graph.relation[r]) = {w.from, w.to} /\ w.kind = "relation"
      BY <1>11, <3>2 DEF Live
    <3> QED BY <1>4, <3>1, <3>2 DEF Adds
  <2>3. ASSUME NEW j \in Items, y.graph.item[j].subject # None
        PROVE  /\ y.graph.item[j].state # "none"
               /\ y.graph.item[j].subject \in E \/ Live(y.graph.entity[y.graph.item[j].subject])
    <3>1. CASE /\ y.graph.item[j].subject = x.graph.item[j].subject
               /\ y.graph.item[j].state = "none" <=> x.graph.item[j].state = "none"
      <4>1. x.graph.item[j].subject \in Entities
        BY <1>6, <2>3, <3>1 DEF ItemRows
      <4> QED BY <1>9, <2>0, <2>3, <3>1, <4>1 DEF NamesWell
    <3>2. CASE j = w.name /\ Live(y.graph.item[j]) /\ y.graph.item[j].subject = w.from /\ w.kind = "item"
      BY <1>11, <2>3, <3>2 DEF Live
    <3> QED BY <1>4, <3>1, <3>2 DEF Adds
  <2>4. ASSUME NEW c \in Cites, y.graph.cite[c] \in Entities
        PROVE  y.graph.cite[c] \in E \/ Live(y.graph.entity[y.graph.cite[c]])
    <3>1. CASE y.graph.cite[c] = x.graph.cite[c]
      BY <1>9, <2>0, <2>4, <3>1 DEF NamesWell
    <3>2. CASE \/ y.graph.cite[c] = w.target /\ w.kind = "entity"
               \/ Live(y.graph.entity[y.graph.cite[c]])
      BY <1>11, <2>4, <3>2, Apart
    <3> QED BY <1>4, <2>4, <3>1, <3>2 DEF Adds
  <2>5. ASSUME NEW c \in Cites, y.graph.cite[c] \in Items
        PROVE  y.graph.item[y.graph.cite[c]].state # "merged"
    <3>1. CASE y.graph.cite[c] = x.graph.cite[c]
      BY <1>4, <2>0, <2>5, <3>1 DEF NamesWell, Adds, Live
    <3>2. CASE Live(y.graph.item[y.graph.cite[c]])
      BY <3>2 DEF Live
    <3> QED BY <1>4, <2>5, <3>1, <3>2 DEF Adds
  <2> QED BY <2>1, <2>2, <2>3, <2>4, <2>5 DEF NamesWell
<1>13. ASSUME NEW e \in Entities
       PROVE  \/ y.graph.entity[e] = graph.entity[e]
              \/ e \in Made(p, i) /\ y.graph.entity[e].state = "live" /\ y.graph.entity[e].into = None
  BY <1>4, <1>5, Apart DEF Adds, Added, Live
<1>14. ASSUME NEW c \in Cites, There(y.graph, c)
       PROVE  There(graph, c) \/ c \in Made(p, i)
  <2>1. There(x.graph, c) \/ c = w.name
    BY <1>4, <1>14, Apart DEF Adds, There, Cites
  <2> QED BY <1>5, <2>1, Apart DEF Added
<1>15. ASSUME NEW k \in 1..i, plan[p][k].kind = "entity", plan[p][k].name \in Entities
       PROVE  Live(y.graph.entity[plan[p][k].name])
  <2>1. k \in 1..(i - 1) \/ k = i
    BY <1>0
  <2> QED BY <1>7, <1>8, <1>15, <2>1 DEF Added
<1>16. y.merges = merges /\ y.log.merges = {} /\ y.log.created \subseteq Made(p, i)
  <2>1. y.log.created \subseteq Rows
    BY <1>4, RunParts DEF Logs
  <2> QED BY <1>4, <1>5, <2>1, Apart DEF Adds, Added
<1> QED BY <1>4, <1>12, <1>13, <1>14, <1>15, <1>16 DEF Added, y

\* What a run after the first i rows of p has told: what it created has its own citation and is
\* there, what it cites besides is there, and of everything else it has only superseded items.
Told(p, i, x) ==
  /\ x.log.created \cup x.log.added \subseteq Made(p, i)
  /\ x.log.added \cap (x.log.created \cup Entities) = {}
  /\ \A c \in Cites :
       IF c \in x.log.created THEN x.graph.cite[c] = c /\ (c \in Claims => StateOf(x.graph, c) # "none")
       ELSE IF c \in x.log.added
       THEN c \in Claims => x.graph.cite[c] \in Claims /\ StateOf(x.graph, x.graph.cite[c]) # "none"
       ELSE x.graph.cite[c] = graph.cite[c]
  /\ \A e \in Entities : x.graph.entity[e] = graph.entity[e] \/ e \in x.log.created
  /\ \A r \in Claims :
       \/ /\ \A k \in Kinds : End(k, r) => NameOf(x.graph, k, r) = NameOf(graph, k, r)
          /\ BornOf(x.graph, r) = BornOf(graph, r)
          /\ \/ StateOf(x.graph, r) = StateOf(graph, r)
             \/ {StateOf(graph, r), StateOf(x.graph, r)} \cap {"none", "merged"} = {}
       \/ /\ r \in x.log.created /\ BornOf(x.graph, r) = Now
          /\ StateOf(x.graph, r) \notin {"none", "merged"}
  /\ \A n \in 1..Len(x.log.changes) :
       /\ x.log.changes[n].after.state \in {"live", "superseded"}
       /\ \E k \in 1..i : plan[p][k].kind = "item" /\ plan[p][k].target = x.log.changes[n].row

\* One more row told.
LEMMA ToldNext ==
  ASSUME Types, NewNames, NEW p \in Proposals, proposal[p].status = "draft",
         NEW i \in 1..Len(plan[p]), NEW x \in RunRecords, Told(p, i - 1, x),
         NEW y \in RunRecords, Tells(x, y, plan[p][i])
  PROVE  Told(p, i, y)
<1> DEFINE w == plan[p][i]
<1>0. plan[p] \in Seq(PlanRows) /\ Len(plan[p]) \in Nat
  BY DEF Types
<1>1. w.name # None => w.name \notin Made(p, i - 1)
  <2>1. w.name # None => \A k \in 1..Len(plan[p]) : plan[p][k].name = w.name => k = i
    BY DEF NewNames
  <2>2. \A k \in 1..(i - 1) : k \in 1..Len(plan[p]) /\ k # i
    BY <1>0
  <2> QED BY <1>0, <2>1, <2>2 DEF Made
<1>2. Made(p, i) = Made(p, i - 1) \cup ({w.name} \ {None}) /\ 1..(i - 1) \subseteq 1..i /\ i \in 1..i
  <2>1. 1..i = 1..(i - 1) \cup {i}
    BY <1>0
  <2> QED BY <1>0, <2>1 DEF Made
<1>3. /\ x.graph \in Graphs /\ y.graph \in Graphs
      /\ x.log.changes \in Seq(ChangeRecords)
      /\ x.log.created \subseteq Rows /\ x.log.added \subseteq Cites
  BY RunParts DEF Logs
<1> HIDE DEF w
<1>4. \/ y.log.created = x.log.created /\ y.log.added = x.log.added
      \/ /\ y.log.created = x.log.created \cup {w.name} /\ y.log.added = x.log.added
         /\ w.name \in Rows
      \/ /\ y.log.created = x.log.created /\ y.log.added = x.log.added \cup {w.name}
         /\ w.name \in Links \cup Claims
  BY DEF Tells, Rows, Claims, w
<1>5. /\ y.log.created \cup y.log.added \subseteq Made(p, i)
      /\ y.log.added \cap (y.log.created \cup Entities) = {}
      /\ x.log.created \subseteq y.log.created
      /\ x.log.added \subseteq y.log.added
  <2>1. w.name \in Rows \cup Links \cup Claims => w.name # None
    BY Apart DEF Rows, Claims
  <2>2. w.name \in Links \cup Claims => w.name \notin Entities
    BY Apart DEF Claims
  <2> QED BY <1>1, <1>2, <1>4, <2>1, <2>2 DEF Told
<1>6. ASSUME NEW r \in Claims, StateOf(x.graph, r) # "none" PROVE StateOf(y.graph, r) # "none"
  <2>1. CASE r \in Relations
    BY <1>6, <2>1 DEF StateOf, Tells, Live
  <2>2. CASE r \in Items
    BY <1>6, <2>2, Apart DEF StateOf, Tells, Live
  <2> QED BY <2>1, <2>2 DEF Claims
<1>7. ASSUME NEW c \in Cites
      PROVE  IF c \in y.log.created THEN y.graph.cite[c] = c /\ (c \in Claims => StateOf(y.graph, c) # "none")
             ELSE IF c \in y.log.added
             THEN c \in Claims => y.graph.cite[c] \in Claims /\ StateOf(y.graph, y.graph.cite[c]) # "none"
             ELSE y.graph.cite[c] = graph.cite[c]
  <2>1. CASE y.graph.cite[c] = x.graph.cite[c] /\ (c \in x.log.created <=> c \in y.log.created)
               /\ (c \in x.log.added <=> c \in y.log.added)
    BY <1>6, <2>1 DEF Told
  <2>2. CASE c = w.name /\ y.graph.cite[c] = c /\ c \in y.log.created
               /\ \/ w.name \in Entities
                  \/ w.name \in Relations /\ Live(y.graph.relation[w.name])
                  \/ w.name \in Items /\ Live(y.graph.item[w.name])
    BY <2>2, Apart DEF StateOf, Live, Claims
  <2>3. CASE c = w.name /\ c \in y.log.added
               /\ \/ w.name \in Links
                  \/ /\ w.name \in Relations /\ y.graph.cite[w.name] \in Relations
                     /\ Live(y.graph.relation[y.graph.cite[w.name]])
                  \/ /\ w.name \in Items /\ y.graph.cite[w.name] \in Items
                     /\ Live(y.graph.item[y.graph.cite[w.name]])
    <3>1. c \notin y.log.created
      BY <1>5, <2>3
    <3> QED BY <2>3, <3>1, Apart DEF StateOf, Live, Claims
  <2>4. w.name # None => w.name \notin x.log.created \cup x.log.added
    BY <1>1 DEF Told
  <2> QED BY <2>1, <2>2, <2>3, <2>4, Apart DEF Tells, w
<1>8. \A e \in Entities : y.graph.entity[e] = graph.entity[e] \/ e \in y.log.created
  BY <1>5 DEF Told, Tells
<1>9. ASSUME NEW r \in Claims
      PROVE  \/ /\ \A k \in Kinds : End(k, r) => NameOf(y.graph, k, r) = NameOf(graph, k, r)
                /\ BornOf(y.graph, r) = BornOf(graph, r)
                /\ \/ StateOf(y.graph, r) = StateOf(graph, r)
                   \/ {StateOf(graph, r), StateOf(y.graph, r)} \cap {"none", "merged"} = {}
             \/ /\ r \in y.log.created /\ BornOf(y.graph, r) = Now
                /\ StateOf(y.graph, r) \notin {"none", "merged"}
  <2>1. \/ /\ \A k \in Kinds : End(k, r) => NameOf(y.graph, k, r) = NameOf(x.graph, k, r)
           /\ BornOf(y.graph, r) = BornOf(x.graph, r)
           /\ \/ StateOf(y.graph, r) = StateOf(x.graph, r)
              \/ StateOf(y.graph, r) = "superseded" /\ StateOf(x.graph, r) = "live"
        \/ /\ r \in y.log.created /\ BornOf(y.graph, r) = Now
           /\ StateOf(y.graph, r) \notin {"none", "merged"}
    <3>1. CASE r \in Relations
      BY <3>1, Apart DEF Tells, End, NameOf, BornOf, StateOf, Live, Kinds
    <3>2. CASE r \in Items
      BY <3>2, Apart DEF Tells, End, NameOf, BornOf, StateOf, Live, Kinds
    <3> QED BY <3>1, <3>2 DEF Claims
  <2>2. \/ /\ \A k \in Kinds : End(k, r) => NameOf(x.graph, k, r) = NameOf(graph, k, r)
           /\ BornOf(x.graph, r) = BornOf(graph, r)
           /\ \/ StateOf(x.graph, r) = StateOf(graph, r)
              \/ {StateOf(graph, r), StateOf(x.graph, r)} \cap {"none", "merged"} = {}
        \/ /\ r \in x.log.created /\ BornOf(x.graph, r) = Now
           /\ StateOf(x.graph, r) \notin {"none", "merged"}
    BY DEF Told
  <2> QED BY <1>5, <2>1, <2>2
<1>10. ASSUME NEW n \in 1..Len(y.log.changes)
       PROVE  /\ y.log.changes[n].after.state \in {"live", "superseded"}
              /\ \E k \in 1..i : plan[p][k].kind = "item" /\ plan[p][k].target = y.log.changes[n].row
  <2>1. CASE y.log.changes = x.log.changes
    BY <1>2, <2>1 DEF Told
  <2>2. CASE y.log.changes # x.log.changes
    <3>1. PICK entry \in ChangeRecords :
            /\ y.log.changes = Append(x.log.changes, entry)
            /\ w.kind = "item" /\ entry.row = w.target /\ entry.after.state \in {"live", "superseded"}
      BY <2>2 DEF Tells, w
    <3>2. \/ n \in 1..Len(x.log.changes) /\ y.log.changes[n] = x.log.changes[n]
          \/ y.log.changes[n] = entry
      BY <1>3, <3>1
    <3> QED BY <1>2, <3>1, <3>2 DEF Told, w
  <2> QED BY <2>1, <2>2
<1> QED BY <1>5, <1>7, <1>8, <1>9, <1>10 DEF Told

-------------------------------------------------------------------------------
(* A commit that merges keeps it.                                          *)

\* What a run is that has done nothing but merge.
MergedOnly(x) ==
  /\ Paired(x.graph, x.merges) /\ SameRows(graph, x.graph)
  /\ x.log.created = {} /\ x.log.added = {} /\ x.log.changes = <<>>
  /\ x.log.merges \subseteq (Len(merges) + 1)..Len(x.merges) /\ Len(merges) <= Len(x.merges)
  /\ \A n \in 1..Len(merges) : x.merges[n] = merges[n]
  /\ \A n \in (Len(merges) + 1)..Len(x.merges) : x.merges[n].at = Now
  /\ \A e \in Entities : \/ x.graph.entity[e] = graph.entity[e]
                         \/ \E n \in x.log.merges : x.merges[n].m = e
  /\ \A B : Recorded(graph, merges, B) => Recorded(x.graph, x.merges, B)
  /\ \A pr : Whole(graph, merges, pr) => Whole(x.graph, x.merges, pr)
  /\ \A c \in Cites : Fresh(graph, merges, c) => Fresh(x.graph, x.merges, c)

\* Twice the same rows are the same rows.
LEMMA SameRowsTwice ==
  ASSUME NEW f, NEW g, NEW h, SameRows(f, g), SameRows(g, h)
  PROVE  SameRows(f, h)
BY DEF SameRows

\* One more merge of a commit that merges.
LEMMA MergesNext ==
  ASSUME Types, NEW w \in PlanRows, w.kind = "merge", Mergeable(graph, w.from, w.target),
         NEW x \in RunRecords, MergedOnly(x)
  PROVE  CommitRow(x, w) \in RunRecords /\ MergedOnly(CommitRow(x, w))
<1> DEFINE h == CommitRow(x, w)
<1>0. h = CommitMerge(x, w)
  BY DEF CommitRow
<1>1. CASE \E n \in x.log.merges : x.merges[n].m \in {w.from, w.target}
  <2>1. h = x
    BY <1>0, <1>1 DEF CommitMerge
  <2> HIDE DEF h
  <2>2. h \in RunRecords /\ MergedOnly(h)
    BY <2>1
  <2> QED BY <2>2 DEF h
<1>2. CASE ~ \E n \in x.log.merges : x.merges[n].m \in {w.from, w.target}
  <2> DEFINE m == w.from
             s == w.target
             y == MergeIn(x.graph, m, s)
             more == Append(x.merges, y.entry)
             N == Len(x.merges)
             done == x.log.merges \cup {N + 1}
             log == [x.log EXCEPT !.merges = done]
  <2>1. /\ m # s /\ m \in Entities /\ s \in Entities
        /\ Live(graph.entity[m]) /\ Live(graph.entity[s])
    BY Apart DEF Mergeable, PlanRows
  <2>2. Live(x.graph.entity[m]) /\ Live(x.graph.entity[s])
    BY <1>2, <2>1 DEF MergedOnly
  <2>3. /\ x.merges \in Seq(MergeRecords) /\ N \in Nat /\ x.log \in Logs /\ x.log.merges \subseteq Nat
        /\ clock \in Nat /\ Len(merges) \in Nat
    BY RunParts DEF Logs, Types
  <2>4. /\ y.entry \in MergeRecords /\ y.entry.m = m /\ y.entry.s = s /\ y.entry.at = Now
        /\ Paired(y.graph, more) /\ SameRows(x.graph, y.graph)
        /\ \A e \in Entities \ {m} : y.graph.entity[e] = x.graph.entity[e]
        /\ \A B : Recorded(x.graph, x.merges, B) => Recorded(y.graph, more, B)
        /\ \A pr : Whole(x.graph, x.merges, pr) => Whole(y.graph, more, pr)
        /\ \A c \in Cites : Fresh(x.graph, x.merges, c) => Fresh(y.graph, more, c)
    <3>1. Paired(x.graph, x.merges)
      BY DEF MergedOnly
    <3> DEFINE g == x.graph
               ms == x.merges
    <3>2. Paired(g, ms) /\ Live(g.entity[m]) /\ Live(g.entity[s])
      BY <2>2, <3>1
    <3> HIDE DEF g, ms
    <3>3. LET z == MergeIn(g, m, s) IN
          /\ z.entry \in MergeRecords /\ z.entry.m = m /\ z.entry.s = s /\ z.entry.at = Now
          /\ Paired(z.graph, Append(ms, z.entry)) /\ SameRows(g, z.graph)
          /\ \A e \in Entities \ {m} : z.graph.entity[e] = g.entity[e]
          /\ \A B : Recorded(g, ms, B) => Recorded(z.graph, Append(ms, z.entry), B)
      BY <2>1, <2>3, <3>2, MergeKeeps
    <3>4. LET z == MergeIn(g, m, s) IN
          /\ \A pr : Whole(g, ms, pr) => Whole(z.graph, Append(ms, z.entry), pr)
          /\ \A c \in Cites : Fresh(g, ms, c) => Fresh(z.graph, Append(ms, z.entry), c)
      BY <2>1, <2>3, <3>2, MergeWhole
    <3> QED BY <3>3, <3>4 DEF g, ms
  <2>5. h = [graph |-> y.graph, merges |-> more, log |-> log]
    BY <1>0, <1>2 DEF CommitMerge
  <2> HIDE DEF y, m, s
  <2>6. /\ more \in Seq(MergeRecords) /\ Len(more) = N + 1 /\ more[N + 1] = y.entry
        /\ \A n \in 1..N : more[n] = x.merges[n]
    BY <2>3, <2>4
  <2> HIDE DEF more
  <2>7. done \subseteq Nat /\ log \in Logs /\ log.created = x.log.created /\ log.merges = done
        /\ log.added = x.log.added /\ log.changes = x.log.changes
    <3>1. done \subseteq Nat
      BY <2>3
    <3> HIDE DEF done
    <3> QED BY <2>3, <3>1 DEF Logs
  <2> HIDE DEF log, done
  <2>8. y.graph \in Graphs
    BY <2>4 DEF Paired
  <2>9. /\ h \in RunRecords /\ h.graph = y.graph /\ h.merges = more /\ h.log = log
    <3> HIDE DEF h
    <3> QED BY <2>5, <2>6, <2>7, <2>8 DEF RunRecords
  <2> HIDE DEF h
  <2>10. SameRows(graph, y.graph)
    BY <2>4, SameRowsTwice DEF MergedOnly
  <2>11. done \subseteq (Len(merges) + 1)..Len(more) /\ Len(merges) <= Len(more)
    BY <2>3, <2>6 DEF MergedOnly, done
  <2>12. \A n \in 1..Len(merges) : more[n] = merges[n]
    BY <2>3, <2>6 DEF MergedOnly
  <2>13. \A n \in (Len(merges) + 1)..Len(more) : more[n].at = Now
    <3> SUFFICES ASSUME NEW n \in (Len(merges) + 1)..Len(more) PROVE more[n].at = Now
      OBVIOUS
    <3>1. n = N + 1 \/ n \in (Len(merges) + 1)..N
      BY <2>3, <2>6
    <3>2. n \in (Len(merges) + 1)..N => n \in 1..N
      BY <2>3
    <3> QED BY <2>4, <2>6, <3>1, <3>2 DEF MergedOnly
  <2>14. \A e \in Entities : \/ y.graph.entity[e] = graph.entity[e]
                             \/ \E n \in done : more[n].m = e
    <3> SUFFICES ASSUME NEW e \in Entities
                 PROVE  y.graph.entity[e] = graph.entity[e] \/ \E n \in done : more[n].m = e
      OBVIOUS
    <3>1. CASE e = m
      BY <2>4, <2>6, <3>1 DEF done
    <3>2. CASE e # m
      <4>1. y.graph.entity[e] = x.graph.entity[e]
        BY <2>4, <3>2
      <4>2. \A n \in x.log.merges : n \in done /\ more[n] = x.merges[n]
        BY <2>3, <2>6 DEF MergedOnly, done
      <4> QED BY <4>1, <4>2 DEF MergedOnly
    <3> QED BY <3>1, <3>2
  <2>15. \A B : Recorded(graph, merges, B) => Recorded(y.graph, more, B)
    BY <2>4 DEF MergedOnly
  <2>16. /\ \A pr : Whole(graph, merges, pr) => Whole(y.graph, more, pr)
         /\ \A c \in Cites : Fresh(graph, merges, c) => Fresh(y.graph, more, c)
    BY <2>4 DEF MergedOnly
  <2>17. log.created = {} /\ log.added = {} /\ log.changes = <<>>
    BY <2>7 DEF MergedOnly
  <2>18. MergedOnly(h)
    BY <2>4, <2>9, <2>7, <2>10, <2>11, <2>12, <2>13, <2>14, <2>15, <2>16, <2>17 DEF MergedOnly
  <2> QED BY <2>9, <2>18 DEF h
<1> QED BY <1>1, <1>2

-------------------------------------------------------------------------------
(* The whole commit.                                                       *)

\* A graph that names only what is there names only that or what is to come.
LEMMA NamesWellMore ==
  ASSUME NEW g \in Graphs, NEW D, NamesWell(g, {})
  PROVE  NamesWell(g, D)
BY DEF NamesWell

\* A run starts as one.
LEMMA RunStarts ==
  ASSUME Types
  PROVE  Run(graph) \in RunRecords
<1>1. NoLog \in Logs
  BY DEF NoLog, Logs
<1> QED BY <1>1 DEF Types, Run, RunRecords

\* A run of a commit creates what the rows of the proposal name, or it does nothing but merge.
LEMMA CommitInDoes ==
  ASSUME Types, NamesWell(graph, {}), Tombs(graph, merges), NewNames,
         NEW p \in Proposals, proposal[p].status = "draft", Valid(p)
  PROVE  /\ CommitIn(p) \in RunRecords
         /\ \/ Added(p, Len(plan[p]), CommitIn(p)) /\ Told(p, Len(plan[p]), CommitIn(p))
            \/ MergedOnly(CommitIn(p))
<1> DEFINE n == Len(plan[p])
           creates == \A k \in 1..n : plan[p][k].kind # "merge"
           Good(i, x) == IF creates THEN Added(p, i, x) /\ Told(p, i, x) ELSE MergedOnly(x)
           G == [i \in 0..n |-> {x \in RunRecords : Good(i, x)}]
           F == [i \in 1..n |-> [x \in G[i - 1] |-> CommitRow(x, plan[p][i])]]
           start == Run(graph)
           Walked(f) == f = [i \in 0..n |-> IF i = 0 THEN start ELSE CommitRow(f[i - 1], plan[p][i])]
           after == CHOOSE f : Walked(f)
<1>0. /\ plan[p] \in Seq(PlanRows) /\ n \in Nat /\ \A k \in 1..n : plan[p][k] \in PlanRows
      /\ graph \in Graphs /\ merges \in Seq(MergeRecords)
  BY DEF Types
<1>1. start \in RunRecords /\ Good(0, start)
  <2>1. start \in RunRecords
    BY RunStarts
  <2>2. start.graph = graph /\ start.merges = merges /\ start.log.created = {} /\ start.log.merges = {}
        /\ start.log.added = {} /\ start.log.changes = <<>>
    BY DEF Run, NoLog
  <2> HIDE DEF start
  <2>3. CASE creates
    <3>1. Made(p, 0) = {}
      BY DEF Made
    <3>2. NamesWell(start.graph, Coming(p, 0))
      BY <1>0, <2>2, NamesWellMore
    <3>3. Added(p, 0, start)
      BY <2>2, <3>1, <3>2 DEF Added
    <3>4. Told(p, 0, start)
      BY <2>2, <3>1 DEF Told
    <3> QED BY <2>1, <2>3, <3>3, <3>4
  <2>4. CASE ~creates
    <3>1. MergedOnly(start)
      BY <1>0, <2>2 DEF MergedOnly, Paired, SameRows
    <3> QED BY <2>1, <2>4, <3>1
  <2> QED BY <2>3, <2>4
<1>2. ASSUME NEW i \in 1..n, NEW x \in RunRecords, Good(i - 1, x)
      PROVE  CommitRow(x, plan[p][i]) \in RunRecords /\ Good(i, CommitRow(x, plan[p][i]))
  <2>1. CASE creates
    <3>1. CommitRow(x, plan[p][i]) \in RunRecords /\ Added(p, i, CommitRow(x, plan[p][i]))
            /\ Tells(x, CommitRow(x, plan[p][i]), plan[p][i])
      BY <1>2, <2>1, AddsNext
    <3>2. Told(p, i, CommitRow(x, plan[p][i]))
      BY <1>2, <2>1, <3>1, ToldNext
    <3> QED BY <2>1, <3>1, <3>2
  <2>2. CASE ~creates
    <3>1. plan[p][i] \in PlanRows /\ plan[p][i].kind = "merge"
      BY <1>0, <2>2 DEF NewNames
    <3>2. Mergeable(graph, plan[p][i].from, plan[p][i].target)
      BY <3>1 DEF Valid
    <3> QED BY <1>2, <2>2, <3>1, <3>2, MergesNext
  <2> QED BY <2>1, <2>2
<1>3. \A i \in 0..n : G[i] = {x \in RunRecords : Good(i, x)}
  OBVIOUS
<1>4. start \in G[0]
  <2> HIDE DEF Good, start, G
  <2> QED BY <1>0, <1>1, <1>3
<1>5. ASSUME NEW i \in 1..n, NEW x \in G[i - 1]
      PROVE  CommitRow(x, plan[p][i]) \in G[i]
  <2> HIDE DEF Good, G
  <2> QED BY <1>0, <1>2, <1>3
<1>6. \A i \in 1..n : F[i] \in [G[i - 1] -> G[i]]
  <2> HIDE DEF G, n
  <2> QED BY <1>5
<1>7. \A i \in 1..n : \A x \in G[i - 1] : F[i][x] = CommitRow(x, plan[p][i])
  <2> HIDE DEF G, n
  <2> QED OBVIOUS
<1> HIDE DEF F, G, start, Good
<1>a. PICK g : Pass(G, n, F, start, g)
  <2> HIDE DEF n
  <2> QED BY <1>0, <1>4, <1>6, Passes, Zenon
<1>8. /\ g = [i \in 0..n |-> g[i]] /\ g[0] = start
      /\ \A i \in 1..n : g[i] = F[i][g[i - 1]] /\ g[i] \in G[i]
  BY <1>a DEF Pass
<1>9. Walked(g)
  <2> HIDE DEF n
  <2>1. \A i \in 0..n : g[i] \in G[i]
    <3> SUFFICES ASSUME NEW i \in 0..n PROVE g[i] \in G[i]
      OBVIOUS
    <3>1. i = 0 \/ i \in 1..n
      BY <1>0
    <3> QED BY <1>4, <1>8, <3>1
  <2>2. \A i \in 1..n : g[i] = CommitRow(g[i - 1], plan[p][i])
    <3> SUFFICES ASSUME NEW i \in 1..n PROVE g[i] = CommitRow(g[i - 1], plan[p][i])
      OBVIOUS
    <3>1. i - 1 \in 0..n
      BY <1>0
    <3> QED BY <1>7, <1>8, <2>1, <3>1
  <2>3. \A i \in 0..n : g[i] = IF i = 0 THEN start ELSE CommitRow(g[i - 1], plan[p][i])
    <3>1. ASSUME NEW i \in 0..n, i # 0 PROVE i \in 1..n
      BY <1>0, <3>1
    <3> QED BY <1>8, <2>2, <3>1, Zenon
  <2> QED BY <1>8, <2>3, Zenon
<1>10. Walked(after)
  <2> HIDE DEF Walked
  <2> QED BY <1>9
<1>11. after[0] = start /\ \A i \in 1..n : after[i] = CommitRow(after[i - 1], plan[p][i])
  <2> HIDE DEF after, n
  <2>1. \A i \in 0..n : after[i] = IF i = 0 THEN start ELSE CommitRow(after[i - 1], plan[p][i])
    BY <1>10, Zenon
  <2>2. 0 \in 0..n /\ \A i \in 1..n : i \in 0..n /\ i # 0
    BY <1>0
  <2> QED BY <2>1, <2>2, Zenon
<1>12. CommitIn(p) = after[n]
  BY DEF CommitIn, start
<1> HIDE DEF after
<1>13. \A i \in 0..n : after[i] \in G[i]
  <2> DEFINE S == {i \in 0..n : after[i] \in G[i]}
  <2> HIDE DEF n
  <2>1. 0 \in S
    BY <1>0, <1>4, <1>11
  <2>2. ASSUME NEW i \in 0..n, i \in S, i < n PROVE i + 1 \in S
    <3>1. i + 1 \in 1..n /\ i + 1 - 1 = i /\ i + 1 \in 0..n
      BY <1>0, <2>2
    <3>2. after[i] \in G[i + 1 - 1]
      BY <2>2, <3>1
    <3>3. after[i + 1] = CommitRow(after[i], plan[p][i + 1])
      BY <1>11, <3>1
    <3>4. after[i + 1] \in G[i + 1]
      BY <1>5, <3>1, <3>2, <3>3
    <3> QED BY <3>1, <3>4
  <2> HIDE DEF S
  <2>3. \A i \in 0..n : i \in S
    BY <1>0, <2>1, <2>2, UpTo, Zenon
  <2> QED BY <2>3 DEF S
<1>14. after[n] \in RunRecords /\ Good(n, after[n])
  <2>1. n \in 0..n
    BY <1>0
  <2> HIDE DEF n
  <2> QED BY <1>3, <1>13, <2>1
<1> QED BY <1>12, <1>14 DEF Good

-------------------------------------------------------------------------------
(* A revert takes the merges of its proposal back.                         *)

\* What the graph and its merges are once some of them are reversed.
TakenBack(g, ms) ==
  /\ Paired(g, ms) /\ SameRows(graph, g) /\ Len(ms) = Len(merges)
  /\ \A k \in 1..Len(merges) : /\ ms[k].m = merges[k].m /\ ms[k].s = merges[k].s /\ ms[k].at = merges[k].at
                               /\ Stands(ms, k) => Stands(merges, k)
  /\ \A B : Recorded(graph, merges, B) => Recorded(g, ms, B)
  /\ \A pr : Whole(graph, merges, pr) => Whole(g, ms, pr)
  /\ \A c \in Cites : Fresh(graph, merges, c) => Fresh(g, ms, c)

\* One more merge taken back.
LEMMA TakesBack ==
  ASSUME clock \in Nat, NEW g, NEW ms, TakenBack(g, ms), merges \in Seq(MergeRecords),
         NEW j \in 1..Len(merges), Reversible(g, ms[j])
  PROVE  TakenBack(ReverseIn(g, ms[j]), Closed(ms, j))
<1>1. Paired(g, ms) /\ Len(ms) = Len(merges) /\ j \in 1..Len(ms) /\ ms \in Seq(MergeRecords)
  BY DEF TakenBack, Paired
<1>2. /\ Paired(ReverseIn(g, ms[j]), Closed(ms, j)) /\ SameRows(g, ReverseIn(g, ms[j]))
      /\ \A B : Recorded(g, ms, B) => Recorded(ReverseIn(g, ms[j]), Closed(ms, j), B)
  BY <1>1, ReverseKeeps
<1>3. /\ Len(Closed(ms, j)) = Len(ms)
      /\ \A k \in 1..Len(ms) : /\ Closed(ms, j)[k].m = ms[k].m /\ Closed(ms, j)[k].s = ms[k].s
                               /\ Closed(ms, j)[k].at = ms[k].at
                               /\ Stands(Closed(ms, j), k) <=> (Stands(ms, k) /\ k # j)
  BY <1>1, ClosedIs
<1> DEFINE h == ReverseIn(g, ms[j])
           less == Closed(ms, j)
<1> HIDE DEF h, less
<1>4. SameRows(graph, h)
  BY <1>2, SameRowsTwice DEF TakenBack, h
<1>5. /\ \A pr : Whole(g, ms, pr) => Whole(h, less, pr)
      /\ \A c \in Cites : Fresh(g, ms, c) => Fresh(h, less, c)
  BY <1>1, ReverseWhole DEF h, less
<1> QED BY <1>1, <1>2, <1>3, <1>4, <1>5 DEF TakenBack, h, less

\* All of them, in whatever order.
LEMMA MergesBackDoes ==
  ASSUME Types, NamesWell(graph, {}), Tombs(graph, merges),
         NEW S \in SUBSET (1..Len(merges)), NEW order \in Orderings(S)
  PROVE  /\ TakenBack(MergesBack(order).graph, MergesBack(order).merges)
         /\ S = {} => MergesBack(order).graph = graph /\ MergesBack(order).merges = merges
<1> DEFINE n == Len(order)
           Passed == [graph : Graphs, merges : Seq(MergeRecords), kept : BOOLEAN]
           T == {x \in Passed : TakenBack(x.graph, x.merges)}
           Do(x, i) == LET v == x.merges[order[i]] IN
             IF v.reversed THEN x
             ELSE IF Reversible(x.graph, v)
             THEN [x EXCEPT !.graph = ReverseIn(x.graph, v), !.merges[order[i]].reversed = TRUE]
             ELSE [x EXCEPT !.kept = TRUE]
           start == [graph |-> graph, merges |-> merges, kept |-> FALSE]
           F == [i \in 1..n |-> [x \in T |-> Do(x, i)]]
           Walked(f) == f = [i \in 0..n |-> IF i = 0 THEN start ELSE Do(f[i - 1], i)]
           after == CHOOSE f : Walked(f)
<1>0. /\ n \in Nat /\ \A i \in 1..n : order[i] \in 1..Len(merges)
      /\ graph \in Graphs /\ merges \in Seq(MergeRecords) /\ clock \in Nat
      /\ S = {} => n = 0
  <2>1. graph \in Graphs /\ merges \in Seq(MergeRecords) /\ clock \in Nat /\ Len(merges) \in Nat
    BY DEF Types
  <2>2. IsFiniteSet(S)
    <3>1. IsFiniteSet(1..Len(merges))
      BY <2>1, FS_Interval
    <3> DEFINE A == 1..Len(merges)
    <3>2. IsFiniteSet(A) /\ S \in SUBSET A
      BY <3>1
    <3> HIDE DEF A
    <3> QED BY <3>2, FS_Subset
  <2>3. Cardinality(S) \in Nat
    BY <2>2, FS_CardinalityType
  <2>4. order \in [1..Cardinality(S) -> S]
    BY DEF Orderings
  <2>5. order \in Seq(S) /\ \A i \in 1..n : order[i] \in S
    <3> DEFINE N == Cardinality(S)
    <3>1. N \in Nat /\ order \in [1..N -> S]
      BY <2>3, <2>4
    <3> HIDE DEF N
    <3> QED BY <3>1
  <2>6. n \in Nat
    BY <2>5
  <2>7. \A i \in 1..n : order[i] \in 1..Len(merges)
    <3> HIDE DEF n
    <3> QED BY <2>5, Zenon
  <2>8. S = {} => n = 0
    <3>1. n # 0 => 1 \in 1..n
      BY <2>6
    <3> HIDE DEF n
    <3> QED BY <2>5, <3>1
  <2> HIDE DEF n
  <2> QED BY <2>1, <2>6, <2>7, <2>8
<1>1. start \in T
  <2>1. TakenBack(graph, merges)
    BY <1>0 DEF TakenBack, Paired, SameRows
  <2> QED BY <1>0, <2>1
<1>2. ASSUME NEW x \in T, NEW i \in 1..n PROVE Do(x, i) \in T
  <2> DEFINE j == order[i]
             v == x.merges[j]
             less == Closed(x.merges, j)
             h == ReverseIn(x.graph, v)
  <2>1. /\ x \in Passed /\ x.graph \in Graphs /\ x.merges \in Seq(MergeRecords)
        /\ TakenBack(x.graph, x.merges) /\ j \in 1..Len(merges)
    BY <1>0
  <2>2. CASE v.reversed
    <3>1. Do(x, i) = x
      BY <2>2
    <3> HIDE DEF Do
    <3> QED BY <3>1
  <2>3. CASE ~v.reversed /\ Reversible(x.graph, v)
    <3>1. Do(x, i) = [x EXCEPT !.graph = h, !.merges[j].reversed = TRUE]
      BY <2>3
    <3>2. [x EXCEPT !.graph = h, !.merges[j].reversed = TRUE] = [x EXCEPT !.graph = h, !.merges = less]
      <4> HIDE DEF h, j, T
      <4> QED BY <2>1 DEF Closed
    <3>3. TakenBack(h, less)
      <4> DEFINE g == x.graph
                 ms == x.merges
      <4>1. TakenBack(g, ms) /\ Reversible(g, ms[j])
        BY <2>1, <2>3
      <4> HIDE DEF g, ms, j
      <4>2. TakenBack(ReverseIn(g, ms[j]), Closed(ms, j))
        BY <1>0, <2>1, <4>1, TakesBack
      <4> QED BY <4>2 DEF g, ms
    <3> HIDE DEF Do, h, less
    <3>4. h \in Graphs /\ less \in Seq(MergeRecords)
      BY <3>3 DEF TakenBack, Paired
    <3>5. Do(x, i) = [x EXCEPT !.graph = h, !.merges = less]
      BY <3>1, <3>2
    <3> QED BY <2>1, <3>3, <3>4, <3>5
  <2>4. CASE ~v.reversed /\ ~Reversible(x.graph, v)
    <3>1. Do(x, i) = [x EXCEPT !.kept = TRUE]
      BY <2>4
    <3> HIDE DEF Do
    <3> QED BY <2>1, <3>1
  <2> QED BY <2>2, <2>3, <2>4
<1> HIDE DEF Do, T, start
<1>3. F \in [1..n -> [T -> T]]
  <2> HIDE DEF n
  <2> QED BY <1>2
<1>4. PICK h : Iteration(T, n, F, start, h)
  <2> HIDE DEF F, n
  <2> QED BY <1>0, <1>1, <1>3, Iterates, Zenon
<1>5. Walked(h)
  <2>1. \A i \in 1..n : \A x \in T : F[i][x] = Do(x, i)
    OBVIOUS
  <2> HIDE DEF F, n
  <2>2. \A i \in 1..n : h[i] = Do(h[i - 1], i)
    BY <1>0, <1>4, <2>1 DEF Iteration
  <2> QED BY <1>0, <1>4, <2>2 DEF Iteration
<1>6. Walked(after)
  <2> HIDE DEF Walked
  <2> QED BY <1>5
<1>7. after[0] = start /\ \A i \in 1..n : after[i] = Do(after[i - 1], i)
  <2> HIDE DEF after, n
  <2> QED BY <1>0, <1>6
<1>8. \A i \in 0..n : after[i] \in T
  <2> DEFINE N == {i \in 0..n : after[i] \in T}
  <2> HIDE DEF after, n
  <2>1. 0 \in N /\ \A i \in 0..n : i \in N /\ i < n => i + 1 \in N
    BY <1>0, <1>1, <1>2, <1>7
  <2> HIDE DEF N
  <2>2. \A i \in 0..n : i \in N
    BY <1>0, <2>1, UpTo, Zenon
  <2> QED BY <2>2 DEF N
<1>9. MergesBack(order) = after[n]
  BY DEF MergesBack, Do, start
<1> HIDE DEF after
<1>10. MergesBack(order) \in T
  <2> HIDE DEF n
  <2> QED BY <1>0, <1>8, <1>9
<1>11. S = {} => MergesBack(order).graph = graph /\ MergesBack(order).merges = merges
  <2> HIDE DEF n
  <2> QED BY <1>0, <1>7, <1>9 DEF start
<1> QED BY <1>10, <1>11 DEF T

-------------------------------------------------------------------------------
(* What keeps each part.                                                   *)

\* The rows of h are those of g as far as their names go.
SameNames(g, h) ==
  /\ \A e \in Entities : h.entity[e].state = g.entity[e].state /\ h.entity[e].into = g.entity[e].into
  /\ \A r \in Relations : /\ h.relation[r].from = g.relation[r].from /\ h.relation[r].to = g.relation[r].to
                          /\ h.relation[r].state = "none" <=> g.relation[r].state = "none"
  /\ \A i \in Items : h.item[i].subject = g.item[i].subject /\ h.item[i].state = g.item[i].state
  /\ h.cite = g.cite

\* What changes no name keeps all that is about names.
LEMMA SameNamesKeeps ==
  ASSUME NEW g \in Graphs, NEW h \in Graphs, SameNames(g, h), NEW ms, Paired(g, ms)
  PROVE  /\ Paired(h, ms) /\ SameRows(g, h)
         /\ \A B : Recorded(g, ms, B) => Recorded(h, ms, B)
<1>1. NamesWell(h, {})
  <2>0. NamesWell(g, {})
    BY DEF Paired
  <2>1. \A r \in Relations : Names(h.relation[r]) = Names(g.relation[r])
    BY DEF SameNames, Names
  <2>2. ASSUME NEW r \in Relations
        PROVE  IF h.relation[r].state = "none" THEN Names(h.relation[r]) = {None}
               ELSE \A e \in Names(h.relation[r]) : e \in Entities /\ (e \in {} \/ Live(h.entity[e]))
    BY <2>0, <2>1 DEF SameNames, NamesWell, Live
  <2>3. ASSUME NEW i \in Items, h.item[i].subject # None
        PROVE  /\ h.item[i].state # "none"
               /\ h.item[i].subject \in {} \/ Live(h.entity[h.item[i].subject])
    <3>1. g.item[i].subject \in Entities \cup {None}
      BY PartsOf DEF ItemRows
    <3> QED BY <2>0, <2>3, <3>1 DEF SameNames, NamesWell, Live
  <2>4. ASSUME NEW c \in Cites
        PROVE  /\ h.cite[c] \in Entities => h.cite[c] \in {} \/ Live(h.entity[h.cite[c]])
               /\ h.cite[c] \in Items => h.item[h.cite[c]].state # "merged"
    BY <2>0 DEF SameNames, NamesWell, Live
  <2>5. \A e \in Entities : h.entity[e].state # "merged" => h.entity[e].into = None
    BY <2>0 DEF SameNames, NamesWell
  <2> QED BY <2>2, <2>3, <2>4, <2>5 DEF NamesWell
<1>2. Tombs(h, ms)
  <2>1. \A n \in 1..Len(ms) : ms[n].m \in Entities /\ ms[n].s \in Entities
    <3> SUFFICES ASSUME NEW n \in 1..Len(ms) PROVE ms[n].m \in Entities /\ ms[n].s \in Entities
      OBVIOUS
    <3>1. ms[n] \in MergeRecords
      BY DEF Paired
    <3> QED BY <3>1 DEF MergeRecords
  <2> QED BY <2>1 DEF Paired, Tombs, SameNames
<1>3. SameRows(g, h)
  BY Apart DEF SameNames, SameRows, There
<1>4. ASSUME NEW B, Recorded(g, ms, B) PROVE Recorded(h, ms, B)
  BY <1>4 DEF Recorded, SameNames
<1> QED BY <1>1, <1>2, <1>3, <1>4 DEF Paired

\* The same merges, some of them reversed, beside a graph that still has what stands.
LEMMA TombsLess ==
  ASSUME NEW g, NEW h, NEW ms, NEW less, Tombs(g, ms), Len(less) = Len(ms),
         \A k \in 1..Len(ms) :
           /\ less[k].m = ms[k].m /\ less[k].s = ms[k].s
           /\ Stands(less, k) => Stands(ms, k)
           /\ Stands(less, k) => /\ h.entity[ms[k].m].state = g.entity[ms[k].m].state
                                 /\ h.entity[ms[k].m].into = g.entity[ms[k].m].into
                                 /\ h.entity[ms[k].s].state = g.entity[ms[k].s].state
  PROVE  Tombs(h, less)
<1> SUFFICES ASSUME NEW n \in 1..Len(less), Stands(less, n)
             PROVE  /\ h.entity[less[n].m].state = "merged" /\ h.entity[less[n].m].into = less[n].s
                    /\ h.entity[less[n].s].state # "none"
                    /\ \A k \in 1..Len(less) : Stands(less, k) /\ less[k].m = less[n].m => k = n
  BY DEF Tombs
<1>1. /\ less[n].m = ms[n].m /\ less[n].s = ms[n].s /\ Stands(ms, n)
      /\ h.entity[ms[n].m].state = g.entity[ms[n].m].state
      /\ h.entity[ms[n].m].into = g.entity[ms[n].m].into
      /\ h.entity[ms[n].s].state = g.entity[ms[n].s].state
  <2>1. n \in 1..Len(ms)
    OBVIOUS
  <2> QED BY <2>1, Zenon
<1>2. /\ g.entity[ms[n].m].state = "merged" /\ g.entity[ms[n].m].into = ms[n].s
      /\ g.entity[ms[n].s].state # "none"
      /\ \A k \in 1..Len(ms) : Stands(ms, k) /\ ms[k].m = ms[n].m => k = n
  BY <1>1 DEF Tombs
<1>3. ASSUME NEW k \in 1..Len(less), Stands(less, k), less[k].m = less[n].m
      PROVE  k = n
  <2>1. k \in 1..Len(ms) /\ Stands(ms, k) /\ ms[k].m = ms[n].m
    <3>1. k \in 1..Len(ms)
      OBVIOUS
    <3>2. less[k].m = ms[k].m /\ Stands(ms, k)
      BY <1>3, <3>1, Zenon
    <3> QED BY <1>1, <1>3, <3>1, <3>2
  <2> QED BY <1>2, <2>1
<1> QED BY <1>1, <1>2, <1>3


\* A graph that has lost rows, and the citations that were about them.
LEMMA LosesKeeps ==
  ASSUME NEW g \in Graphs, NEW h \in Graphs, NEW rows, NamesWell(g, {}), Loses(g, h, rows),
         None \notin rows,
         \A c \in Cites : h.cite[c] \notin rows /\ h.cite[c] \in {g.cite[c], None}
  PROVE  NamesWell(h, {}) /\ \A c \in Cites : There(h, c) => There(g, c)
<1>1. ASSUME NEW r \in Relations
      PROVE  IF h.relation[r].state = "none" THEN Names(h.relation[r]) = {None}
             ELSE \A e \in Names(h.relation[r]) : e \in Entities /\ (e \in {} \/ Live(h.entity[e]))
  <2>1. CASE r \in rows \/ Names(g.relation[r]) \cap rows # {}
    BY <2>1 DEF Loses
  <2>2. CASE ~(r \in rows \/ Names(g.relation[r]) \cap rows # {})
    <3>1. h.relation[r].state = g.relation[r].state /\ Names(h.relation[r]) = Names(g.relation[r])
      BY <2>2 DEF Loses, Names
    <3>2. CASE g.relation[r].state = "none"
      BY <3>1, <3>2 DEF NamesWell
    <3>3. CASE g.relation[r].state # "none"
      <4>1. \A e \in Names(g.relation[r]) : e \in Entities /\ Live(g.entity[e]) /\ e \notin rows
        BY <2>2, <3>3 DEF NamesWell
      <4> QED BY <3>1, <3>3, <4>1 DEF Loses, Live
    <3> QED BY <3>2, <3>3
  <2> QED BY <2>1, <2>2
<1>2. ASSUME NEW i \in Items, h.item[i].subject # None
      PROVE  /\ h.item[i].state # "none"
             /\ h.item[i].subject \in {} \/ Live(h.entity[h.item[i].subject])
  <2>1. /\ i \notin rows /\ g.item[i].subject \notin rows
        /\ h.item[i].state = g.item[i].state /\ h.item[i].subject = g.item[i].subject
    BY <1>2 DEF Loses
  <2>2. g.item[i].subject \in Entities
    BY <1>2, <2>1, PartsOf DEF ItemRows
  <2> QED BY <1>2, <2>1, <2>2 DEF Loses, NamesWell, Live
<1>3. ASSUME NEW c \in Cites
      PROVE  /\ h.cite[c] \in Entities => h.cite[c] \in {} \/ Live(h.entity[h.cite[c]])
             /\ h.cite[c] \in Items => h.item[h.cite[c]].state # "merged"
  <2>1. CASE h.cite[c] = None
    BY <2>1, Apart
  <2>2. CASE h.cite[c] = g.cite[c]
    BY <2>2 DEF Loses, NamesWell, Live
  <2> QED BY <2>1, <2>2
<1>4. \A e \in Entities : h.entity[e].state # "merged" => h.entity[e].into = None
  BY DEF Loses, NamesWell
<1>5. \A c \in Cites : There(h, c) => There(g, c)
  BY Apart DEF Loses, There, Cites
<1> QED BY <1>1, <1>2, <1>3, <1>4, <1>5 DEF NamesWell

\* New names stay new while no row comes and no draft changes.
LEMMA NewNamesKept ==
  ASSUME NewNames, plan' = plan, begun' = begun,
         \A c \in Cites : There(graph', c) => There(graph, c),
         \A p \in Proposals : proposal'[p].status = "draft" => proposal[p].status = "draft"
  PROVE  NewNames'
<1>1. \A c \in Cites \cup {None} : There(graph', c) => There(graph, c)
  BY Apart DEF There
<1>2. \A c : c \notin Cites => ~There(graph', c)
  BY Apart DEF There
<1> QED BY <1>1, <1>2 DEF NewNames

\* The merges ms, some of them reversed, and others made at t + 1.
More(ms, more, t) ==
  /\ ms \in Seq(MergeRecords) /\ more \in Seq(MergeRecords) /\ Len(ms) <= Len(more)
  /\ \A n \in 1..Len(ms) : /\ more[n].m = ms[n].m /\ more[n].s = ms[n].s /\ more[n].at = ms[n].at
                           /\ Stands(more, n) => Stands(ms, n)
  /\ \A n \in (Len(ms) + 1)..Len(more) : more[n].at = t + 1

\* What was made after a commit stays so, and so is what is made now.
LEMMA AfterKept ==
  ASSUME NEW pr \in ProposalRows, NEW ms, NEW more, NEW t \in Nat, NEW u \in Nat, t <= u,
         After(pr, ms, t), More(ms, more, t)
  PROVE  After(pr, more, u)
<1>1. pr.at \in Nat /\ Len(ms) \in Nat /\ Len(more) \in Nat /\ Len(ms) <= Len(more) /\ pr.at <= t
  BY DEF ProposalRows, After, More
<1>2. ASSUME NEW n \in 1..Len(more), Stands(more, n), {more[n].m, more[n].s} \cap pr.log.created # {}
      PROVE  more[n].at > pr.at
  <2>1. CASE n \in 1..Len(ms)
    <3>1. more[n].m = ms[n].m /\ more[n].s = ms[n].s /\ more[n].at = ms[n].at /\ Stands(ms, n)
      BY <1>2, <2>1 DEF More
    <3> QED BY <1>2, <2>1, <3>1 DEF After
  <2>2. CASE n \in (Len(ms) + 1)..Len(more)
    <3>1. more[n].at = t + 1
      BY <2>2 DEF More
    <3> QED BY <1>1, <3>1
  <2> QED BY <1>1, <2>1, <2>2
<1>3. pr.log.merges \subseteq 1..Len(more)
  <2>1. pr.log.merges \subseteq 1..Len(ms)
    BY DEF After
  <2>2. 1..Len(ms) \subseteq 1..Len(more)
    BY <1>1
  <2> QED BY <2>1, <2>2
<1> QED BY <1>1, <1>2, <1>3 DEF After

\* The same of every committed proposal.
LEMMA SinceKept ==
  ASSUME Since, clock \in Nat, clock' \in Nat, clock <= clock', More(merges, merges', clock),
         proposal \in [Proposals -> ProposalRows],
         \A p \in Proposals : proposal'[p].status = "committed" => proposal'[p] = proposal[p]
  PROVE  Since'
<1>1. ASSUME NEW p \in Proposals, proposal'[p].status = "committed"
      PROVE  After(proposal'[p], merges', clock')
  <2>1. proposal'[p] = proposal[p] /\ proposal[p] \in ProposalRows
    BY <1>1
  <2>2. After(proposal[p], merges, clock)
    BY <1>1, <2>1 DEF Since
  <2>3. After(proposal[p], merges', clock')
    BY <2>1, <2>2, AfterKept
  <2> QED BY <2>1, <2>3
<1>2. ASSUME NEW p \in Proposals, (proposal[p].status = "committed")'
      PROVE  After(proposal[p], merges, clock)'
  <2>1. After(proposal'[p], merges', clock')
    BY <1>1, <1>2
  <2> QED BY <2>1 DEF After, Stands
<1> QED BY <1>2 DEF Since

\* What is forgotten stays gone while no row comes.
LEMMA GoneKept ==
  ASSUME Gone, UNCHANGED forgetVars,
         \A e \in forgotten : There(graph', e) => There(graph, e)
  PROVE  Gone'
BY Apart DEF Gone, forgetVars, There

\* A transaction that leaves the graph well named, and the merges as they were or with more,
\* keeps the invariant.
LEMMA WritesKeeps ==
  ASSUME Sound, plan' = plan, UNCHANGED forgetVars, clock' = Now, clock < MaxWrites,
         Paired(graph', merges'), \A c \in Cites : There(graph', c) => There(graph, c),
         More(merges, merges', clock), proposal' \in [Proposals -> ProposalRows],
         \A p \in Proposals : /\ proposal'[p].at = proposal[p].at
                              /\ proposal'[p].status = "draft" => proposal[p].status = "draft"
                              /\ proposal'[p].status = "committed" => proposal'[p] = proposal[p]
  PROVE  Sound'
<1>1. clock \in Nat /\ clock' \in 0..MaxWrites /\ clock <= clock'
  BY GraphAssumption DEF Sound, Types, Now
<1>2. Types'
  BY <1>1 DEF Sound, Types, Paired
<1>3. NamesWell(graph, {})' /\ Tombs(graph, merges)'
  <2>1. NamesWell(graph', {}) /\ Tombs(graph', merges')
    BY DEF Paired
  <2> QED BY <2>1 DEF NamesWell, Tombs, Stands, Names, Live
<1>4. NewNames'
  <2>1. begun' = begun
    BY DEF forgetVars
  <2> QED BY <2>1, NewNamesKept DEF Sound
<1>5. Since'
  BY <1>1, SinceKept DEF Sound, Types
<1>6. Gone'
  <2>1. \A e \in forgotten : e \in Cites
    BY Apart DEF Sound, Gone
  <2> QED BY <2>1, GoneKept DEF Sound
<1> QED BY <1>2, <1>3, <1>4, <1>5, <1>6 DEF Sound

-------------------------------------------------------------------------------
(* Merges, reversals and what the owner does by hand.                      *)

\* Every tombstone that has a merge to reverse still has one.
Records == \A B : Recorded(graph, merges, B) => Recorded(graph', merges', B)

\* The parts of the invariant most steps need.
LEMMA SoundParts ==
  ASSUME Sound
  PROVE  /\ graph \in Graphs /\ merges \in Seq(MergeRecords) /\ clock \in Nat
         /\ Paired(graph, merges) /\ proposal \in [Proposals -> ProposalRows]
BY DEF Sound, Types, Paired

\* The owner merges.
LEMMA MergeSound ==
  ASSUME Sound, NEW m \in Entities, NEW s \in Entities, Merge(m, s), UNCHANGED forgetVars
  PROVE  Sound' /\ Records
<1> DEFINE x == MergeIn(graph, m, s)
<1>1. /\ m # s /\ Live(graph.entity[m]) /\ Live(graph.entity[s])
      /\ clock < MaxWrites /\ clock' = Now /\ graph' = x.graph /\ plan' = plan
      /\ merges' = Append(merges, x.entry) /\ proposal' = proposal
  BY DEF Merge, Mergeable, Writes
<1>2. /\ x.entry \in MergeRecords /\ x.entry.at = Now
      /\ Paired(x.graph, Append(merges, x.entry)) /\ SameRows(graph, x.graph)
      /\ \A B : Recorded(graph, merges, B) => Recorded(x.graph, Append(merges, x.entry), B)
  BY <1>1, SoundParts, MergeKeeps
<1> HIDE DEF x
<1>3. More(merges, merges', clock)
  <2>1. /\ merges' \in Seq(MergeRecords) /\ Len(merges') = Len(merges) + 1
        /\ merges'[Len(merges) + 1] = x.entry /\ \A n \in 1..Len(merges) : merges'[n] = merges[n]
    BY <1>1, <1>2, SoundParts
  <2>2. \A n \in 1..Len(merges) : Stands(merges', n) => Stands(merges, n)
    BY <2>1 DEF Stands
  <2>3. \A n \in (Len(merges) + 1)..Len(merges') : merges'[n].at = clock + 1
    BY <1>2, <2>1, SoundParts DEF Now
  <2> QED BY <2>1, <2>2, <2>3, SoundParts DEF More
<1>4. Sound'
  BY <1>1, <1>2, <1>3, SoundParts, WritesKeeps DEF SameRows
<1> QED BY <1>1, <1>2, <1>4 DEF Records

\* The owner reverses a merge.
LEMMA ReverseSound ==
  ASSUME Sound, NEW n \in 1..Len(merges), Reverse(n), UNCHANGED forgetVars
  PROVE  Sound' /\ Records
<1> DEFINE h == ReverseIn(graph, merges[n])
           less == Closed(merges, n)
<1>1. /\ Reversible(graph, merges[n])
      /\ clock < MaxWrites /\ clock' = Now /\ graph' = h /\ plan' = plan
      /\ merges' = less /\ proposal' = proposal
  BY DEF Reverse, Writes, Closed
<1>2. /\ Paired(h, less) /\ SameRows(graph, h)
      /\ \A B : Recorded(graph, merges, B) => Recorded(h, less, B)
  BY <1>1, SoundParts, ReverseKeeps
<1>3. /\ Len(less) = Len(merges)
      /\ \A k \in 1..Len(merges) : /\ less[k].m = merges[k].m /\ less[k].s = merges[k].s
                                   /\ less[k].at = merges[k].at
                                   /\ Stands(less, k) <=> (Stands(merges, k) /\ k # n)
  BY SoundParts, ClosedIs
<1> HIDE DEF h, less
<1>4. More(merges, merges', clock)
  BY <1>1, <1>2, <1>3, SoundParts DEF More, Paired
<1>5. Sound'
  BY <1>1, <1>2, <1>4, SoundParts, WritesKeeps DEF SameRows
<1> QED BY <1>1, <1>2, <1>5 DEF Records

\* An edit, a retraction and a lesson leave every name where it was.
LEMMA HandSound ==
  ASSUME Sound, UNCHANGED forgetVars,
         NEW h \in Graphs, SameNames(graph, h), Writes(None, h), UNCHANGED <<proposal, merges>>
  PROVE  Sound' /\ Records
<1>1. clock < MaxWrites /\ clock' = Now /\ graph' = h /\ plan' = plan
  BY DEF Writes
<1>2. /\ Paired(h, merges) /\ SameRows(graph, h)
      /\ \A B : Recorded(graph, merges, B) => Recorded(h, merges, B)
  BY SoundParts, SameNamesKeeps
<1>3. More(merges, merges', clock)
  BY SoundParts DEF More
<1>4. Sound'
  BY <1>1, <1>2, <1>3, SoundParts, WritesKeeps DEF SameRows
<1> QED BY <1>1, <1>2, <1>4 DEF Records

\* The owner edits an entity.
LEMMA EditSound ==
  ASSUME Sound, NEW e \in Entities, EditEntity(e), UNCHANGED forgetVars
  PROVE  Sound' /\ Records
<1> DEFINE row == [graph.entity[e] EXCEPT !.touched = Now]
           h == [graph EXCEPT !.entity[e].touched = Now]
<1>1. graph \in Graphs /\ clock \in Nat
  BY SoundParts
<1>2. graph.entity[e] \in EntityRows
  BY <1>1, PartsOf
<1>3. row \in EntityRows /\ row.state = graph.entity[e].state /\ row.into = graph.entity[e].into
  BY <1>1, <1>2 DEF EntityRows, Now
<1>4. h = [graph EXCEPT !.entity[e] = row]
  OBVIOUS
<1> HIDE DEF row
<1>5. h \in Graphs /\ SameNames(graph, h)
  BY <1>1, <1>3, <1>4 DEF Graphs, SameNames
<1>6. Writes(None, h) /\ UNCHANGED <<proposal, merges>>
  BY DEF EditEntity
<1> HIDE DEF h
<1> QED BY <1>5, <1>6, HandSound

\* A relation that ends otherwise is still one.
LEMMA RowReopened ==
  ASSUME NEW row \in RelationRows, NEW u \in Relations \cup {None}, NEW b \in Relations \cup {None},
         NEW t \in Nat
  PROVE  [row EXCEPT !.until = u, !.by = b, !.touched = t] \in RelationRows
BY DEF RelationRows

\* The owner retracts a relation.
LEMMA RetractSound ==
  ASSUME Sound, NEW r \in Relations, RetractRelation(r), UNCHANGED forgetVars
  PROVE  Sound' /\ Records
<1> DEFINE relation == [k \in Relations |->
             IF k = r THEN [graph.relation[k] EXCEPT !.state = "rejected", !.touched = Now]
             ELSE IF Live(graph.relation[k]) /\ graph.relation[k].by = r /\ graph.relation[k].until = r
             THEN [graph.relation[k] EXCEPT !.until = None, !.by = None, !.touched = Now]
             ELSE graph.relation[k]]
           h == [graph EXCEPT !.relation = relation]
<1>1. graph \in Graphs /\ clock \in Nat /\ Live(graph.relation[r])
  BY SoundParts DEF RetractRelation
<1>2. ASSUME NEW k \in Relations
      PROVE  /\ relation[k] \in RelationRows
             /\ relation[k].from = graph.relation[k].from /\ relation[k].to = graph.relation[k].to
             /\ relation[k].state = "none" <=> graph.relation[k].state = "none"
  <2>1. graph.relation[k] \in RelationRows
    BY <1>1, PartsOf
  <2> DEFINE row == graph.relation[k]
             one == [row EXCEPT !.state = "rejected", !.touched = Now]
             two == [row EXCEPT !.until = None, !.by = None, !.touched = Now]
  <2>2. k = r => relation[k] = one /\ Live(row)
    BY <1>1
  <2>3. k # r => relation[k] \in {two, row}
    OBVIOUS
  <2> HIDE DEF relation
  <2>4. /\ one \in RelationRows /\ one.from = row.from /\ one.to = row.to /\ one.state = "rejected"
        /\ two \in RelationRows /\ two.from = row.from /\ two.to = row.to /\ two.state = row.state
    <3>1. row \in RelationRows
      BY <2>1
    <3>2. Now \in Nat
      BY <1>1 DEF Now
    <3> HIDE DEF row
    <3>3. one \in RelationRows /\ one.from = row.from /\ one.to = row.to /\ one.state = "rejected"
      BY <3>1, <3>2 DEF RelationRows
    <3>4. two \in RelationRows
      BY <3>1, <3>2, RowReopened
    <3>5. two.from = row.from /\ two.to = row.to /\ two.state = row.state
      BY <3>1 DEF RelationRows
    <3> QED BY <3>3, <3>4, <3>5
  <2> HIDE DEF one, two
  <2> QED BY <2>1, <2>2, <2>3, <2>4 DEF Live
<1>3. relation \in [Relations -> RelationRows]
  BY <1>2
<1>4. h = [graph EXCEPT !.relation = [k \in Relations |->
            IF k = r THEN [@[k] EXCEPT !.state = "rejected", !.touched = Now]
            ELSE IF Live(@[k]) /\ @[k].by = r /\ @[k].until = r
            THEN [@[k] EXCEPT !.until = None, !.by = None, !.touched = Now]
            ELSE @[k]]]
  OBVIOUS
<1>5. Writes(None, h) /\ UNCHANGED <<proposal, merges>>
  BY <1>4 DEF RetractRelation
<1> HIDE DEF relation
<1>6. h \in Graphs /\ SameNames(graph, h)
  BY <1>1, <1>2, <1>3 DEF Graphs, SameNames
<1> HIDE DEF h
<1> QED BY <1>5, <1>6, HandSound

\* The owner says that two are not the same.
LEMMA DistinctSound ==
  ASSUME Sound, NEW l \in Lessons, MarkDistinct(l), UNCHANGED forgetVars
  PROVE  Sound' /\ Records
<1> DEFINE h == [graph EXCEPT !.learned = @ \cup {l}]
<1>1. graph \in Graphs
  BY SoundParts
<1>2. h \in Graphs /\ SameNames(graph, h)
  BY <1>1 DEF Graphs, SameNames
<1>3. Writes(None, h) /\ UNCHANGED <<proposal, merges>>
  BY DEF MarkDistinct
<1> HIDE DEF h
<1> QED BY <1>2, <1>3, HandSound

-------------------------------------------------------------------------------
(* Commits and reverts.                                                    *)

\* A draft is committed: what it creates was not there, and no merge that stands is about it.
LEMMA CommitSound ==
  ASSUME Sound, NEW p \in Proposals, Commit(p), UNCHANGED forgetVars
  PROVE  Sound' /\ Records
<1> DEFINE x == CommitIn(p)
           n == Len(plan[p])
           pr == [status |-> "committed", log |-> x.log, at |-> Now]
<1>0. /\ graph \in Graphs /\ merges \in Seq(MergeRecords) /\ clock \in Nat
      /\ proposal \in [Proposals -> ProposalRows] /\ Len(merges) \in Nat
      /\ Types /\ NamesWell(graph, {}) /\ Tombs(graph, merges) /\ NewNames /\ Since /\ Gone
  BY SoundParts DEF Sound
<1>1. /\ proposal[p].status = "draft" /\ Valid(p)
      /\ clock < MaxWrites /\ clock' = Now /\ graph' = x.graph /\ plan' = plan
      /\ merges' = x.merges /\ proposal' = [proposal EXCEPT ![p] = pr]
  BY DEF Commit, Writes
<1>2. x \in RunRecords /\ (Added(p, n, x) \/ MergedOnly(x))
  BY <1>0, <1>1, CommitInDoes
<1> HIDE DEF x
<1>3. /\ x.graph \in Graphs /\ x.log \in Logs /\ x.merges \in Seq(MergeRecords)
      /\ plan[p] \in Seq(PlanRows) /\ n \in Nat
  BY <1>0, <1>2, RunParts DEF Types
<1>4. pr \in ProposalRows
  BY <1>0, <1>3 DEF ProposalRows, Now
<1>5. ASSUME NEW c \in Made(p, n)
      PROVE  /\ ~There(graph, c) /\ c \notin begun /\ c # None
             /\ \A q \in Proposals : proposal[q].status = "draft" =>
                  \A k \in 1..Len(plan[q]) : plan[q][k].name = c => p = q
  BY <1>0, <1>1 DEF NewNames, Made
<1>6. /\ Paired(x.graph, x.merges) /\ More(merges, x.merges, clock) /\ After(pr, x.merges, clock')
      /\ \A c \in Cites : There(x.graph, c) => There(graph, c) \/ c \in Made(p, n)
      /\ \A B : Recorded(graph, merges, B) => Recorded(x.graph, x.merges, B)
  <2>1. CASE Added(p, n, x)
    <3>1. Coming(p, n) = {}
      <4>1. (n + 1)..n = {}
        BY <1>3
      <4> QED BY <4>1 DEF Coming
    <3>2. /\ x.merges = merges /\ x.log.merges = {} /\ x.log.created \subseteq Made(p, n)
          /\ NamesWell(x.graph, {})
          /\ \A c \in Cites : There(x.graph, c) => There(graph, c) \/ c \in Made(p, n)
      BY <2>1, <3>1 DEF Added
    <3>3. ASSUME NEW e \in Entities, There(graph, e) PROVE x.graph.entity[e] = graph.entity[e]
      BY <1>5, <2>1, <3>3 DEF Added
    <3>4. ASSUME NEW k \in 1..Len(merges), Stands(merges, k)
          PROVE  /\ merges[k].m \in Entities /\ merges[k].s \in Entities
                 /\ There(graph, merges[k].m) /\ There(graph, merges[k].s)
      <4>1. merges[k] \in MergeRecords
        BY <1>0
      <4>2. merges[k].m \in Entities /\ merges[k].s \in Entities
        BY <4>1 DEF MergeRecords
      <4>3. graph.entity[merges[k].m].state = "merged" /\ graph.entity[merges[k].s].state # "none"
        BY <1>0, <3>4 DEF Tombs
      <4> QED BY <4>2, <4>3, Apart DEF There
    <3>5. Tombs(x.graph, merges)
      BY <1>0, <3>3, <3>4, TombsLess
    <3>6. After(pr, merges, clock')
      <4>1. clock' \in Nat /\ pr.at = clock' /\ pr.log.merges = {}
        BY <1>0, <1>1, <3>2 DEF Now
      <4>2. \A k \in 1..Len(merges) : Stands(merges, k) => {merges[k].m, merges[k].s} \cap pr.log.created = {}
        BY <1>5, <3>2, <3>4
      <4> QED BY <4>1, <4>2 DEF After
    <3>7. \A B : Recorded(graph, merges, B) => Recorded(x.graph, merges, B)
      <4> SUFFICES ASSUME NEW B, Recorded(graph, merges, B), NEW e \in Entities \ B,
                          x.graph.entity[e].state = "merged"
                   PROVE  \E k \in 1..Len(merges) : /\ Stands(merges, k) /\ merges[k].m = e
                                                    /\ merges[k].s = x.graph.entity[e].into
        BY DEF Recorded
      <4>1. x.graph.entity[e] = graph.entity[e]
        BY <2>1 DEF Added
      <4> QED BY <4>1 DEF Recorded
    <3>8. More(merges, merges', clock)
      BY <1>0, <1>1, <3>2 DEF More
    <3> QED BY <1>0, <1>1, <1>3, <3>2, <3>5, <3>6, <3>7, <3>8 DEF Paired
  <2>2. CASE MergedOnly(x)
    <3>1. /\ Paired(x.graph, x.merges) /\ SameRows(graph, x.graph) /\ x.log.created = {}
          /\ x.log.merges \subseteq (Len(merges) + 1)..Len(x.merges) /\ Len(merges) <= Len(x.merges)
          /\ \A k \in 1..Len(merges) : x.merges[k] = merges[k]
          /\ \A k \in (Len(merges) + 1)..Len(x.merges) : x.merges[k].at = Now
          /\ \A B : Recorded(graph, merges, B) => Recorded(x.graph, x.merges, B)
      BY <2>2 DEF MergedOnly
    <3>2. More(merges, x.merges, clock)
      <4>1. \A k \in 1..Len(merges) : Stands(x.merges, k) => Stands(merges, k)
        BY <3>1 DEF Stands
      <4> QED BY <1>0, <1>3, <3>1, <4>1 DEF More, Now
    <3>3. After(pr, x.merges, clock')
      <4>1. pr.log.merges \subseteq 1..Len(x.merges)
        BY <1>0, <1>3, <3>1
      <4> QED BY <1>0, <1>1, <3>1, <4>1 DEF After, Now
    <3> QED BY <3>1, <3>2, <3>3 DEF SameRows
  <2> QED BY <1>2, <2>1, <2>2
<1>7. Types'
  <2>1. clock' \in 0..MaxWrites
    BY <1>0, <1>1, GraphAssumption DEF Now
  <2>2. proposal' \in [Proposals -> ProposalRows]
    BY <1>0, <1>1, <1>4
  <2>3. ASSUME NEW q \in Proposals PROVE proposal'[q].at \in 0..MaxWrites
    BY <1>0, <1>1, <2>1 DEF Types
  <2> QED BY <1>0, <1>1, <1>3, <2>1, <2>2, <2>3 DEF Types
<1>8. NamesWell(graph, {})' /\ Tombs(graph, merges)'
  <2>1. NamesWell(graph', {}) /\ Tombs(graph', merges')
    BY <1>1, <1>6 DEF Paired
  <2> QED BY <2>1 DEF NamesWell, Tombs, Stands, Names, Live
<1>9. NewNames'
  <2>1. ASSUME NEW q \in Proposals, proposal'[q].status = "draft"
        PROVE  q # p /\ proposal[q].status = "draft"
    BY <1>0, <1>1, <2>1
  <2>2. begun' = begun
    BY DEF forgetVars
  <2>3. ASSUME NEW q \in Proposals, proposal'[q].status = "draft", NEW k \in 1..Len(plan[q]),
               plan[q][k].name # None
        PROVE  ~There(graph', plan[q][k].name)
    <3> DEFINE c == plan[q][k].name
    <3>1. ~There(graph, c)
      BY <1>0, <2>1, <2>3 DEF NewNames
    <3>2. c \notin Made(p, n)
      BY <1>5, <2>1, <2>3
    <3>3. c \in Cites
      <4>1. plan[q][k] \in PlanRows
        BY <1>0 DEF Types
      <4> QED BY <2>3, <4>1 DEF PlanRows
    <3> HIDE DEF c
    <3>4. ~There(graph', c)
      BY <1>1, <1>6, <3>1, <3>2, <3>3
    <3> QED BY <3>4 DEF c
  <2>4. ASSUME NEW q \in Proposals, proposal'[q].status = "draft", NEW k \in 1..Len(plan[q])
        PROVE  /\ plan[q][k].name # None =>
                    /\ ~There(graph', plan[q][k].name) /\ plan[q][k].name \notin begun
                    /\ \A o \in Proposals : proposal'[o].status = "draft" =>
                         \A j \in 1..Len(plan[o]) : plan[o][j].name = plan[q][k].name => q = o /\ k = j
               /\ plan[q][k].kind = "merge" => \A j \in 1..Len(plan[q]) : plan[q][j].kind = "merge"
    BY <1>0, <2>1, <2>3, <2>4 DEF NewNames
  <2> QED BY <1>1, <2>2, <2>4 DEF NewNames, There
<1>10. Since'
  <2>1. ASSUME NEW q \in Proposals, proposal'[q].status = "committed"
        PROVE  After(proposal'[q], merges', clock')
    <3>1. CASE q = p
      BY <1>0, <1>1, <1>6, <3>1
    <3>2. CASE q # p
      <4>1. proposal'[q] = proposal[q] /\ proposal[q] \in ProposalRows
        BY <1>0, <1>1, <3>2
      <4>2. After(proposal[q], merges, clock)
        BY <1>0, <2>1, <4>1 DEF Since
      <4>3. clock' \in Nat /\ clock <= clock' /\ More(merges, merges', clock)
        BY <1>0, <1>1, <1>6 DEF Now
      <4> QED BY <1>0, <4>1, <4>2, <4>3, AfterKept
    <3> QED BY <3>1, <3>2
  <2>2. ASSUME NEW q \in Proposals, (proposal[q].status = "committed")'
        PROVE  After(proposal[q], merges, clock)'
    <3>1. After(proposal'[q], merges', clock')
      BY <2>1, <2>2
    <3> QED BY <3>1 DEF After, Stands
  <2> QED BY <2>2 DEF Since
<1>11. Gone'
  <2>1. ASSUME NEW e \in forgotten, There(graph', e) PROVE There(graph, e)
    <3>1. e \in begun /\ e \in Cites
      BY <1>0, Apart DEF Gone
    <3>2. There(graph, e) \/ e \in Made(p, n)
      BY <1>1, <1>6, <2>1, <3>1
    <3> QED BY <1>5, <3>1, <3>2
  <2> QED BY <1>0, <2>1, GoneKept
<1>12. Records
  BY <1>1, <1>6 DEF Records
<1> QED BY <1>7, <1>8, <1>9, <1>10, <1>11, <1>12 DEF Sound

\* A revert deletes no entity that a merge which stands is about.
LEMMA StandingKept ==
  ASSUME NEW p \in Proposals, After(proposal[p], merges, clock), merges \in Seq(MergeRecords),
         NEW n \in 1..Len(merges), Stands(merges, n)
  PROVE  {merges[n].m, merges[n].s} \cap (Standing(p) \ KeptRows(p)) = {}
<1> SUFFICES ASSUME NEW e \in {merges[n].m, merges[n].s}, e \in Standing(p) PROVE e \in KeptRows(p)
  OBVIOUS
<1>1. e \in Entities
  <2>1. merges[n] \in MergeRecords
    OBVIOUS
  <2> QED BY <2>1 DEF MergeRecords
<1>2. e \in proposal[p].log.created
  BY DEF Standing
<1>3. merges[n].at > proposal[p].at /\ ~merges[n].reversed
  BY <1>2 DEF After, Stands
<1>4. EntityMoved(p, e)
  BY <1>3 DEF EntityMoved
<1> QED BY <1>1, <1>4 DEF KeptRows

\* The graph without rows no standing merge is about.
LEMMA LosesTombs ==
  ASSUME NEW g \in Graphs, NEW h, NEW rows, Loses(g, h, rows), NEW ms \in Seq(MergeRecords), Tombs(g, ms),
         \A n \in 1..Len(ms) : Stands(ms, n) => {ms[n].m, ms[n].s} \cap rows = {}
  PROVE  /\ Tombs(h, ms)
         /\ \A B : Recorded(g, ms, B) => Recorded(h, ms, B)
<1>1. ASSUME NEW n \in 1..Len(ms), Stands(ms, n)
      PROVE  /\ h.entity[ms[n].m].state = g.entity[ms[n].m].state
             /\ h.entity[ms[n].m].into = g.entity[ms[n].m].into
             /\ h.entity[ms[n].s].state = g.entity[ms[n].s].state
  <2>1. ms[n] \in MergeRecords
    OBVIOUS
  <2>2. ms[n].m \in Entities \ rows /\ ms[n].s \in Entities \ rows
    BY <1>1, <2>1 DEF MergeRecords
  <2>3. g.entity[ms[n].m].into \notin rows
    BY <1>1, <2>2 DEF Tombs
  <2> QED BY <2>2, <2>3 DEF Loses
<1>2. Tombs(h, ms)
  BY <1>1, TombsLess
<1>3. ASSUME NEW B, Recorded(g, ms, B) PROVE Recorded(h, ms, B)
  <2> SUFFICES ASSUME NEW e \in Entities \ B, h.entity[e].state = "merged"
               PROVE  \E n \in 1..Len(ms) : Stands(ms, n) /\ ms[n].m = e /\ ms[n].s = h.entity[e].into
    BY DEF Recorded
  <2>1. g.entity[e].state = "merged"
    BY DEF Loses
  <2>2. PICK n \in 1..Len(ms) : Stands(ms, n) /\ ms[n].m = e /\ ms[n].s = g.entity[e].into
    BY <1>3, <2>1 DEF Recorded
  <2>3. h.entity[e].into = g.entity[e].into
    BY <1>1, <2>2
  <2> QED BY <2>2, <2>3
<1> QED BY <1>2, <1>3

\* A proposal is reverted: its merges go back first, then the rows that nobody else needs.
LEMMA RevertSound ==
  ASSUME Sound, NEW p \in Proposals, NEW confirm, Revert(p, confirm), UNCHANGED forgetVars
  PROVE  Sound' /\ Records
<1>0. /\ graph \in Graphs /\ merges \in Seq(MergeRecords) /\ clock \in Nat /\ Len(merges) \in Nat
      /\ proposal \in [Proposals -> ProposalRows] /\ proposal[p].log \in Logs
      /\ Types /\ NamesWell(graph, {}) /\ Tombs(graph, merges) /\ Since
  <2>1. proposal[p] \in ProposalRows
    BY SoundParts
  <2> QED BY <2>1, SoundParts DEF Sound, ProposalRows
<1>1. PICK order \in Orderings(proposal[p].log.merges) :
       LET kept == KeptRows(p)
           x    == MergesBack(order)
           rows == Standing(p) \ kept
           cut  == Deletable(x.graph, {c \in proposal[p].log.added : x.graph.cite[c] # None})
           bare == [x.graph EXCEPT !.cite = [c \in Cites |-> IF c \in cut \/ @[c] \in rows THEN None
                                                             ELSE @[c]]]
       IN  /\ Writes(None, Restored(WithoutRows(bare, rows), p, kept))
           /\ merges' = x.merges
  BY DEF Revert
<1> DEFINE kept == KeptRows(p)
           x    == MergesBack(order)
           g    == x.graph
           ms   == x.merges
           rows == Standing(p) \ kept
           cut  == Deletable(g, {c \in proposal[p].log.added : g.cite[c] # None})
           cite == [c \in Cites |-> IF c \in cut \/ g.cite[c] \in rows THEN None ELSE g.cite[c]]
           bare == [g EXCEPT !.cite = cite]
           left == WithoutRows(bare, rows)
           h    == Restored(left, p, kept)
<1>2. /\ clock < MaxWrites /\ clock' = Now /\ graph' = h /\ plan' = plan /\ merges' = ms
      /\ proposal[p].status = "committed"
      /\ proposal' = [proposal EXCEPT ![p].status = "reverted"]
  BY <1>1 DEF Revert, Writes
<1>3. After(proposal[p], merges, clock)
  BY <1>0, <1>2 DEF Since
<1>4. TakenBack(g, ms)
  <2> DEFINE S == proposal[p].log.merges
  <2>1. S \in SUBSET (1..Len(merges)) /\ order \in Orderings(S)
    BY <1>3 DEF After
  <2> HIDE DEF S
  <2> QED BY <1>0, <2>1, MergesBackDoes
<1> HIDE DEF x, g, ms
<1>5. /\ g \in Graphs /\ ms \in Seq(MergeRecords) /\ NamesWell(g, {}) /\ Tombs(g, ms)
      /\ SameRows(graph, g) /\ Len(ms) = Len(merges)
      /\ \A k \in 1..Len(merges) : /\ ms[k].m = merges[k].m /\ ms[k].s = merges[k].s
                                   /\ ms[k].at = merges[k].at
                                   /\ Stands(ms, k) => Stands(merges, k)
      /\ \A B : Recorded(graph, merges, B) => Recorded(g, ms, B)
  BY <1>4 DEF TakenBack, Paired
<1>6. ASSUME NEW n \in 1..Len(ms), Stands(ms, n) PROVE {ms[n].m, ms[n].s} \cap rows = {}
  BY <1>0, <1>3, <1>5, <1>6, StandingKept
<1>7. None \notin rows
  BY <1>0, Apart DEF Standing, Logs
<1> HIDE DEF rows, kept, cut
<1>8. /\ bare \in Graphs /\ bare.cite = cite /\ bare.entity = g.entity
      /\ bare.relation = g.relation /\ bare.item = g.item
  <2>1. cite \in Citations
    <3>1. g.cite \in Citations
      BY <1>5, PartsOf
    <3> QED BY <3>1, CitationsOf
  <2> HIDE DEF cite
  <2> QED BY <1>5, <2>1 DEF Graphs
<1>9. /\ \A c \in Cites : cite[c] \notin rows /\ cite[c] \in {g.cite[c], None}
  BY <1>7
<1> HIDE DEF cite, bare
<1>10. left \in Graphs /\ left.cite = cite /\ Loses(g, left, rows)
  <2>1. left \in Graphs /\ left.cite = bare.cite /\ Loses(bare, left, rows)
    BY <1>8, WithoutRowsDoes
  <2> HIDE DEF left
  <2> QED BY <1>8, <2>1 DEF Loses
<1> HIDE DEF left
<1>11. NamesWell(left, {}) /\ \A c \in Cites : There(left, c) => There(g, c)
  BY <1>5, <1>7, <1>9, <1>10, LosesKeeps
<1>12. Tombs(left, ms) /\ \A B : Recorded(g, ms, B) => Recorded(left, ms, B)
  BY <1>5, <1>6, <1>10, LosesTombs
<1>13. /\ h \in Graphs /\ h.entity = left.entity /\ h.cite = left.cite
       /\ \A r \in Relations : /\ h.relation[r].from = left.relation[r].from
                               /\ h.relation[r].to = left.relation[r].to
                               /\ h.relation[r].state = left.relation[r].state
       /\ \A i \in Items : /\ h.item[i].subject = left.item[i].subject
                           /\ \/ h.item[i].state = left.item[i].state
                              \/ h.item[i].state = "live" /\ There(graph, i)
  BY <1>0, <1>10, RestoredDoes
<1> HIDE DEF h
<1>14. NamesWell(h, {})
  <2>1. \A r \in Relations : Names(h.relation[r]) = Names(left.relation[r])
    BY <1>13 DEF Names
  <2>2. \A r \in Relations :
          IF h.relation[r].state = "none" THEN Names(h.relation[r]) = {None}
          ELSE \A e \in Names(h.relation[r]) : e \in Entities /\ (e \in {} \/ Live(h.entity[e]))
    BY <1>11, <1>13, <2>1 DEF NamesWell
  <2>3. \A i \in Items : h.item[i].subject # None =>
          h.item[i].state # "none" /\ (h.item[i].subject \in {} \/ Live(h.entity[h.item[i].subject]))
    BY <1>11, <1>13 DEF NamesWell
  <2>4. \A c \in Cites : /\ h.cite[c] \in Entities => h.cite[c] \in {} \/ Live(h.entity[h.cite[c]])
                         /\ h.cite[c] \in Items => h.item[h.cite[c]].state # "merged"
    BY <1>11, <1>13 DEF NamesWell
  <2> QED BY <1>11, <1>13, <2>2, <2>3, <2>4 DEF NamesWell
<1>15. Paired(h, ms) /\ \A B : Recorded(graph, merges, B) => Recorded(h, ms, B)
  BY <1>5, <1>12, <1>13, <1>14 DEF Paired, Tombs, Recorded
<1>16. ASSUME NEW c \in Cites, There(h, c) PROVE There(graph, c)
  <2>1. There(left, c) \/ There(graph, c)
    BY <1>13, <1>16, Apart DEF There, Cites
  <2> QED BY <1>5, <1>11, <2>1 DEF SameRows
<1>17. More(merges, merges', clock)
  BY <1>0, <1>2, <1>5 DEF More
<1>18. proposal' \in [Proposals -> ProposalRows] /\
       \A q \in Proposals : /\ proposal'[q].at = proposal[q].at
                            /\ proposal'[q].status = "draft" => proposal[q].status = "draft"
                            /\ proposal'[q].status = "committed" => proposal'[q] = proposal[q]
  <2> DEFINE pr == [proposal[p] EXCEPT !.status = "reverted"]
  <2>1. proposal[p] \in ProposalRows
    BY <1>0
  <2>2. pr \in ProposalRows /\ pr.at = proposal[p].at /\ pr.status = "reverted"
    BY <2>1 DEF ProposalRows
  <2>3. proposal' = [proposal EXCEPT ![p] = pr]
    BY <1>2
  <2> HIDE DEF pr
  <2> QED BY <1>0, <2>2, <2>3
<1>19. Sound'
  BY <1>2, <1>15, <1>16, <1>17, <1>18, WritesKeeps
<1> QED BY <1>2, <1>15, <1>19 DEF Records

\* Whoever writes besides the job keeps the invariant, and the record of every tombstone.
LEMMA OthersSound ==
  ASSUME Sound, Others
  PROVE  Sound' /\ Records
<1>1. Next /\ UNCHANGED forgetVars
  BY DEF Others
<1>2. CASE \E p \in Proposals : Commit(p)
  BY <1>1, <1>2, CommitSound
<1>3. CASE \E p \in Proposals : \E confirm \in BOOLEAN : Revert(p, confirm)
  BY <1>1, <1>3, RevertSound
<1>4. CASE \E m, s \in Entities : Merge(m, s)
  BY <1>1, <1>4, MergeSound
<1>5. CASE \E n \in 1..Len(merges) : Reverse(n)
  BY <1>1, <1>5, ReverseSound
<1>6. CASE \E e \in Entities : EditEntity(e)
  BY <1>1, <1>6, EditSound
<1>7. CASE \E r \in Relations : RetractRelation(r)
  BY <1>1, <1>7, RetractSound
<1>8. CASE \E l \in Lessons : MarkDistinct(l)
  BY <1>1, <1>8, DistinctSound
<1> QED BY <1>1, <1>2, <1>3, <1>4, <1>5, <1>6, <1>7, <1>8 DEF Next

-------------------------------------------------------------------------------
(* The job.                                                                *)

\* What the job does to the graph and the merges while nobody commits or reverts.
LEMMA DeletesKeeps ==
  ASSUME Sound, UNCHANGED <<clock, proposal, begun>>, Paired(graph', merges'),
         \A c \in Cites : There(graph', c) => There(graph, c),
         More(merges, merges', clock), plan' = plan
  PROVE  (Types /\ NamesWell(graph, {}) /\ Tombs(graph, merges) /\ NewNames /\ Since)'
<1>1. Types'
  BY DEF Sound, Types, Paired
<1>2. NamesWell(graph, {})' /\ Tombs(graph, merges)'
  <2>1. NamesWell(graph', {}) /\ Tombs(graph', merges')
    BY DEF Paired
  <2> QED BY <2>1 DEF NamesWell, Tombs, Stands, Names, Live
<1>3. NewNames'
  BY NewNamesKept DEF Sound
<1>4. Since'
  BY SinceKept DEF Sound, Types
<1> QED BY <1>1, <1>2, <1>3, <1>4

\* The merges of some entities are reversed, or their records are gone.
MergesWithout(F) == [n \in DOMAIN merges |-> IF {merges[n].m, merges[n].s} \cap F # {}
                                             THEN [merges[n] EXCEPT !.reversed = TRUE] ELSE merges[n]]

\* What is left to reverse then.
LEMMA MergesWithoutDoes ==
  ASSUME merges \in Seq(MergeRecords), clock \in Nat, NEW F
  PROVE  /\ MergesWithout(F) \in Seq(MergeRecords) /\ Len(MergesWithout(F)) = Len(merges)
         /\ More(merges, MergesWithout(F), clock)
         /\ \A n \in 1..Len(merges) :
              /\ MergesWithout(F)[n].m = merges[n].m /\ MergesWithout(F)[n].s = merges[n].s
              /\ Stands(MergesWithout(F), n)
                   <=> Stands(merges, n) /\ {merges[n].m, merges[n].s} \cap F = {}
<1> DEFINE less == MergesWithout(F)
<1>1. DOMAIN merges = 1..Len(merges) /\ Len(merges) \in Nat
  OBVIOUS
<1>2. ASSUME NEW n \in 1..Len(merges)
      PROVE  /\ less[n] \in MergeRecords /\ less[n].m = merges[n].m /\ less[n].s = merges[n].s
             /\ less[n].at = merges[n].at
             /\ less[n].reversed <=> (merges[n].reversed \/ {merges[n].m, merges[n].s} \cap F # {})
  <2> DEFINE v == merges[n]
             hit == {v.m, v.s} \cap F # {}
  <2>1. v \in MergeRecords /\ less[n] = IF hit THEN [v EXCEPT !.reversed = TRUE] ELSE v
    <3>1. n \in DOMAIN merges /\ merges[n] \in MergeRecords
      BY <1>1
    <3>2. less[n] = IF {merges[n].m, merges[n].s} \cap F # {}
                    THEN [merges[n] EXCEPT !.reversed = TRUE] ELSE merges[n]
      BY <3>1, Zenon DEF MergesWithout
    <3> QED BY <3>1, <3>2
  <2> HIDE DEF less, v
  <2>2. CASE hit
    <3>1. less[n] = [v EXCEPT !.reversed = TRUE]
      BY <2>1, <2>2
    <3>2. /\ less[n] \in MergeRecords /\ less[n].m = v.m /\ less[n].s = v.s /\ less[n].at = v.at
          /\ less[n].reversed = TRUE
      BY <2>1, <3>1 DEF MergeRecords
    <3> QED BY <2>2, <3>2 DEF v
  <2>3. CASE ~hit
    BY <2>1, <2>3 DEF v
  <2> QED BY <2>2, <2>3
<1>3. less = [n \in 1..Len(merges) |-> less[n]]
  BY <1>1 DEF MergesWithout
<1> HIDE DEF less
<1>4. less \in Seq(MergeRecords) /\ Len(less) = Len(merges)
  <2> DEFINE N == Len(merges)
  <2>1. N \in Nat /\ less = [n \in 1..N |-> less[n]] /\ \A n \in 1..N : less[n] \in MergeRecords
    BY <1>1, <1>2, <1>3
  <2> HIDE DEF N
  <2>2. less \in [1..N -> MergeRecords]
    BY <2>1
  <2>3. less \in Seq(MergeRecords) /\ Len(less) = N
    BY <2>1, <2>2
  <2> QED BY <2>3 DEF N
<1>5. \A n \in 1..Len(merges) : Stands(less, n) <=> Stands(merges, n) /\ {merges[n].m, merges[n].s} \cap F = {}
  BY <1>2, <1>4 DEF Stands
<1>6. More(merges, less, clock)
  BY <1>1, <1>2, <1>4, <1>5 DEF More
<1> QED BY <1>2, <1>4, <1>5, <1>6 DEF less

\* A step that leaves the graph, the merges and the proposals alone keeps what is about them.
LEMMA SameKeeps ==
  ASSUME Sound, UNCHANGED <<graph, proposal, merges, plan, clock, begun>>
  PROVE  /\ (Types /\ NamesWell(graph, {}) /\ Tombs(graph, merges) /\ NewNames /\ Since)'
         /\ \A B : Recorded(graph, merges, B) => Recorded(graph', merges', B)
<1>1. More(merges, merges, clock)
  BY SoundParts DEF More
<1>2. Paired(graph', merges') /\ More(merges, merges', clock)
      /\ \A c \in Cites : There(graph', c) => There(graph, c)
  BY <1>1, SoundParts
<1> QED BY <1>2, DeletesKeeps

\* The job starts: who it sets out to forget was there, so no draft is to create them.
LEMMA ForgetSound ==
  ASSUME Sound, NEW e \in Entities, Forget(e)
  PROVE  Sound' /\ (Quiet => Quiet')
<1>1. /\ forgetting' = [step |-> "items", set |-> PersonSet(e)] /\ begun' = begun \cup PersonSet(e)
      /\ UNCHANGED <<graph, proposal, merges, plan, clock, forgotten>> /\ There(graph, e)
      /\ graph \in Graphs /\ NamesWell(graph, {})
  BY SoundParts DEF Forget, vars, Sound
<1>2. /\ PersonSet(e) \subseteq Entities
      /\ \A x \in Entities : graph.entity[x].into \in PersonSet(e) => x \in PersonSet(e)
      /\ \A x \in PersonSet(e) : x = e \/ graph.entity[x].into \in Entities
  BY <1>1, PersonSetIs
<1> DEFINE F == PersonSet(e)
<1>3. \A x \in F : There(graph, x)
  <2>1. \A x \in Entities : graph.entity[x].into \in Entities => graph.entity[x].state = "merged"
    BY <1>1, Apart DEF NamesWell
  <2>2. \A x \in F : x \in Entities /\ (x = e \/ graph.entity[x].state = "merged")
    BY <1>2, <2>1
  <2> QED BY <1>1, <2>2, Apart DEF There
<1> HIDE DEF F
<1>4. Gone'
  BY <1>1, <1>2 DEF Sound, Gone, F
<1>5. NewNames'
  <2>1. \A p \in Proposals : \A n \in 1..Len(plan[p]) :
          proposal[p].status = "draft" /\ plan[p][n].name # None => plan[p][n].name \notin begun \cup F
    BY <1>3 DEF Sound, NewNames
  <2> QED BY <1>1, <2>1 DEF Sound, NewNames, There, F
<1>6. Types' /\ NamesWell(graph, {})' /\ Tombs(graph, merges)' /\ Since'
  BY <1>1 DEF Sound, Types, NamesWell, Tombs, Since, After, Stands, Names, Live
<1>7. Quiet => Quiet'
  BY <1>1, <1>2 DEF Quiet, Recorded, Stands, F
<1> QED BY <1>4, <1>5, <1>6, <1>7 DEF Sound

\* Items or relations are deleted with their citations.
LEMMA DrainSound ==
  ASSUME Sound, NEW rows, NEW step, step \in {"relations", "rows"}, ~At("idle"), Drain(rows, step),
         rows \cap Entities = {}, None \notin rows
  PROVE  Sound' /\ (Quiet => Quiet')
<1>1. CASE rows = {}
  <2>1. /\ forgetting' = [forgetting EXCEPT !.step = step]
        /\ UNCHANGED <<graph, proposal, merges, plan, clock, begun, forgotten>>
    BY <1>1 DEF Drain, Onto, vars
  <2>2. Gone'
    BY <2>1 DEF Sound, Gone
  <2>3. Types' /\ NamesWell(graph, {})' /\ Tombs(graph, merges)' /\ Since' /\ NewNames'
    BY <2>1, SameKeeps
  <2>4. forgetting'.set = forgetting.set
    BY <2>1 DEF Sound, Gone
  <2>5. Quiet => Quiet'
    BY <2>1, <2>4 DEF Quiet, Recorded, Stands
  <2> QED BY <2>2, <2>3, <2>5 DEF Sound
<1>2. CASE rows # {}
  <2> DEFINE h == Without(rows)
  <2>1. /\ graph' = h
        /\ UNCHANGED <<proposal, merges, plan, clock, forgetting, begun, forgotten>>
    BY <1>2 DEF Drain, Deletes
  <2>2. h \in Graphs /\ Loses(graph, h, rows)
        /\ \A c \in Cites : h.cite[c] = IF graph.cite[c] \in rows THEN None ELSE graph.cite[c]
    BY SoundParts, WithoutDoes
  <2> HIDE DEF h
  <2>3. \A c \in Cites : h.cite[c] \notin rows /\ h.cite[c] \in {graph.cite[c], None}
    BY <2>2
  <2>4. /\ graph \in Graphs /\ NamesWell(graph, {}) /\ Tombs(graph, merges)
        /\ merges \in Seq(MergeRecords)
    BY SoundParts DEF Sound
  <2>5. NamesWell(h, {}) /\ \A c \in Cites : There(h, c) => There(graph, c)
    BY <2>2, <2>3, <2>4, LosesKeeps
  <2>6. Tombs(h, merges) /\ \A B : Recorded(graph, merges, B) => Recorded(h, merges, B)
    <3>1. ASSUME NEW n \in 1..Len(merges) PROVE {merges[n].m, merges[n].s} \cap rows = {}
      <4>1. merges[n] \in MergeRecords
        BY <2>4
      <4> QED BY <4>1 DEF MergeRecords
    <3> QED BY <2>2, <2>4, <3>1, LosesTombs
  <2>7. Paired(h, merges) /\ More(merges, merges, clock)
    BY <2>2, <2>4, <2>5, <2>6 DEF Paired, More
  <2>8. (Types /\ NamesWell(graph, {}) /\ Tombs(graph, merges) /\ NewNames /\ Since)'
    BY <2>1, <2>5, <2>7, DeletesKeeps
  <2>9. \A e \in Entities : /\ h.entity[e].state = graph.entity[e].state
                            /\ h.entity[e].into = graph.entity[e].into
    <3>1. \A e \in Entities : graph.entity[e].into \in Entities \cup {None}
      BY <2>4, PartsOf DEF EntityRows
    <3> QED BY <2>2, <3>1 DEF Loses
  <2>10. Gone'
    BY <2>1, <2>9 DEF Sound, Gone
  <2>11. Quiet => Quiet'
    BY <2>1, <2>6, <2>9 DEF Quiet, Recorded, Stands
  <2> QED BY <2>8, <2>10, <2>11 DEF Sound
<1> QED BY <1>1, <1>2

\* The items about them.
LEMMA ForgetItemsSound ==
  ASSUME Sound, ForgetItems
  PROVE  Sound' /\ (Quiet => Quiet')
<1>1. ~At("idle")
  BY DEF ForgetItems, At
<1>2. {i \in Items : graph.item[i].subject \in forgetting.set} \cap Entities = {}
      /\ None \notin {i \in Items : graph.item[i].subject \in forgetting.set}
  BY Apart
<1>3. Drain({i \in Items : graph.item[i].subject \in forgetting.set}, "relations")
  BY DEF ForgetItems
<1> QED BY <1>1, <1>2, <1>3, DrainSound

\* The relations that name them.
LEMMA ForgetRelationsSound ==
  ASSUME Sound, ForgetRelations
  PROVE  Sound' /\ (Quiet => Quiet')
<1>1. ~At("idle")
  BY DEF ForgetRelations, At
<1>2. {r \in Relations : Names(graph.relation[r]) \cap forgetting.set # {}} \cap Entities = {}
      /\ None \notin {r \in Relations : Names(graph.relation[r]) \cap forgetting.set # {}}
  BY Apart
<1>3. Drain({r \in Relations : Names(graph.relation[r]) \cap forgetting.set # {}}, "rows")
  BY DEF ForgetRelations
<1> QED BY <1>1, <1>2, <1>3, DrainSound

\* The records of their merges: a tombstone of theirs is in the set by then.
LEMMA ForgetRowsSound ==
  ASSUME Sound, ForgetRows
  PROVE  Sound' /\ (Quiet => Quiet')
<1> DEFINE F == forgetting.set
           less == MergesWithout(F)
<1>1. /\ forgetting' = [forgetting EXCEPT !.step = "drafts"] /\ forgetting.step = "rows"
      /\ merges' = less /\ UNCHANGED <<graph, proposal, plan, clock, begun, forgotten>>
  BY DEF ForgetRows, At, Onto, Deletes, MergesWithout
<1>2. /\ less \in Seq(MergeRecords) /\ Len(less) = Len(merges) /\ More(merges, less, clock)
      /\ \A n \in 1..Len(merges) :
           /\ less[n].m = merges[n].m /\ less[n].s = merges[n].s
           /\ Stands(less, n) <=> Stands(merges, n) /\ {merges[n].m, merges[n].s} \cap F = {}
  BY SoundParts, MergesWithoutDoes
<1> HIDE DEF less
<1>3. graph \in Graphs /\ NamesWell(graph, {}) /\ Tombs(graph, merges)
  BY SoundParts DEF Sound
<1>4. Tombs(graph, less)
  BY <1>2, <1>3, TombsLess
<1>5. Paired(graph, less)
  BY <1>2, <1>3, <1>4 DEF Paired
<1>6. (Types /\ NamesWell(graph, {}) /\ Tombs(graph, merges) /\ NewNames /\ Since)'
  BY <1>1, <1>2, <1>5, DeletesKeeps
<1>7. forgetting'.set = F /\ F \subseteq begun
  BY <1>1 DEF Sound, Gone
<1>8. Gone'
  BY <1>1 DEF Sound, Gone
<1>9. Quiet => Quiet'
  <2> SUFFICES ASSUME Quiet PROVE Quiet'
    OBVIOUS
  <2>1. ASSUME NEW e \in Entities \ begun, graph.entity[e].state = "merged"
        PROVE  \E n \in 1..Len(less) : Stands(less, n) /\ less[n].m = e /\ less[n].s = graph.entity[e].into
    <3>1. PICK n \in 1..Len(merges) : /\ Stands(merges, n) /\ merges[n].m = e
                                      /\ merges[n].s = graph.entity[e].into
      BY <2>1 DEF Quiet, Recorded
    <3>2. merges[n].m \notin F /\ merges[n].s \notin F
      BY <1>7, <3>1 DEF Quiet
    <3> QED BY <1>2, <3>1, <3>2
  <2> QED BY <1>1, <1>7, <2>1 DEF Quiet, Recorded, Stands
<1> QED BY <1>6, <1>8, <1>9 DEF Sound

\* The rows of drafts that name someone are dropped; the others stay, in their order.
LEMMA ForgetDraftsSound ==
  ASSUME Sound, ForgetDrafts
  PROVE  Sound' /\ (Quiet => Quiet')
<1> DEFINE left(p) == {n \in 1..Len(plan[p]) :
                         {plan[p][n].target, plan[p][n].from, plan[p][n].to} \cap forgetting.set = {}}
<1>1. /\ forgetting' = [forgetting EXCEPT !.step = "entities"] /\ forgetting.step = "drafts"
      /\ UNCHANGED <<graph, proposal, merges, clock, begun, forgotten>>
      /\ plan' = [p \in Proposals |-> IF proposal[p].status # "draft" THEN plan[p]
                                      ELSE Picked(plan[p], left(p))]
  BY DEF ForgetDrafts, At, Onto, Deletes
<1> HIDE DEF left
<1>2. plan \in [Proposals -> Seq(PlanRows)] /\ NewNames
  BY DEF Sound, Types
<1>3. ASSUME NEW p \in Proposals
      PROVE  /\ plan'[p] \in Seq(PlanRows)
             /\ \A n \in 1..Len(plan'[p]) : \E k \in 1..Len(plan[p]) : plan'[p][n] = plan[p][k]
             /\ \A a, b \in 1..Len(plan'[p]) : a < b =>
                  \E k, l \in 1..Len(plan[p]) : k < l /\ plan'[p][a] = plan[p][k] /\ plan'[p][b] = plan[p][l]
  <2>1. CASE proposal[p].status = "draft"
    <3> DEFINE s == plan[p]
               I == left(p)
    <3>1. s \in Seq(PlanRows) /\ plan'[p] = Picked(s, I)
      BY <1>1, <1>2, <2>1
    <3> HIDE DEF s, I
    <3>2. /\ Picked(s, I) \in Seq(PlanRows)
          /\ \A n \in 1..Len(Picked(s, I)) : \E k \in 1..Len(s) : k \in I /\ Picked(s, I)[n] = s[k]
          /\ \A a, b \in 1..Len(Picked(s, I)) : a < b =>
               \E k, l \in 1..Len(s) : k < l /\ Picked(s, I)[a] = s[k] /\ Picked(s, I)[b] = s[l]
      BY <3>1, PickedTyped
    <3> QED BY <3>1, <3>2 DEF s
  <2>2. CASE proposal[p].status # "draft"
    <3>1. plan'[p] = plan[p] /\ plan[p] \in Seq(PlanRows)
      BY <1>1, <1>2, <2>2
    <3> QED BY <3>1
  <2> QED BY <2>1, <2>2
<1>4. plan' \in [Proposals -> Seq(PlanRows)]
  BY <1>1, <1>3
<1>5. ASSUME NEW p \in Proposals, proposal[p].status = "draft", NEW n \in 1..Len(plan'[p])
      PROVE  /\ plan'[p][n].name # None =>
                  /\ ~There(graph, plan'[p][n].name) /\ plan'[p][n].name \notin begun
                  /\ \A q \in Proposals : proposal[q].status = "draft" =>
                       \A k \in 1..Len(plan'[q]) : plan'[q][k].name = plan'[p][n].name => p = q /\ n = k
             /\ plan'[p][n].kind = "merge" => \A k \in 1..Len(plan'[p]) : plan'[p][k].kind = "merge"
  <2>1. PICK i \in 1..Len(plan[p]) : plan'[p][n] = plan[p][i]
    BY <1>3
  <2>2. /\ plan[p][i].name # None =>
             /\ ~There(graph, plan[p][i].name) /\ plan[p][i].name \notin begun
             /\ \A q \in Proposals : proposal[q].status = "draft" =>
                  \A k \in 1..Len(plan[q]) : plan[q][k].name = plan[p][i].name => p = q /\ i = k
        /\ plan[p][i].kind = "merge" => \A k \in 1..Len(plan[p]) : plan[p][k].kind = "merge"
    BY <1>2, <1>5 DEF NewNames
  <2>3. ASSUME plan'[p][n].name # None, NEW q \in Proposals, proposal[q].status = "draft",
               NEW k \in 1..Len(plan'[q]), plan'[q][k].name = plan'[p][n].name
        PROVE  p = q /\ n = k
    <3>1. PICK j \in 1..Len(plan[q]) : plan'[q][k] = plan[q][j]
      BY <1>3
    <3>2. p = q
      BY <2>1, <2>2, <2>3, <3>1
    <3>3. ASSUME NEW a \in 1..Len(plan'[p]), NEW b \in 1..Len(plan'[p]), a < b,
                 plan'[p][a].name = plan'[p][n].name, plan'[p][b].name = plan'[p][n].name
          PROVE  FALSE
      <4>1. PICK x \in 1..Len(plan[p]), y \in 1..Len(plan[p]) :
                   x < y /\ plan'[p][a] = plan[p][x] /\ plan'[p][b] = plan[p][y]
        BY <1>3, <3>3
      <4>2. x = i /\ y = i
        BY <1>5, <2>1, <2>2, <2>3, <3>3, <4>1
      <4> QED BY <4>1, <4>2
    <3>4. k \in 1..Len(plan'[p]) /\ k \in Nat /\ n \in Nat
      <4>1. Len(plan'[p]) \in Nat
        BY <1>3
      <4> QED BY <3>2, <4>1
    <3>5. ~(n < k) /\ ~(k < n)
      BY <2>3, <3>2, <3>3, <3>4
    <3> QED BY <3>2, <3>4, <3>5
  <2>4. plan'[p][n].kind = "merge" => \A k \in 1..Len(plan'[p]) : plan'[p][k].kind = "merge"
    <3> SUFFICES ASSUME plan'[p][n].kind = "merge", NEW k \in 1..Len(plan'[p])
                 PROVE  plan'[p][k].kind = "merge"
      OBVIOUS
    <3>1. PICK j \in 1..Len(plan[p]) : plan'[p][k] = plan[p][j]
      BY <1>3
    <3>2. plan[p][i].kind = "merge"
      BY <2>1
    <3>3. plan[p][j].kind = "merge"
      BY <2>2, <3>2
    <3> QED BY <3>1, <3>3
  <2> QED BY <2>1, <2>2, <2>3, <2>4
<1>6. NewNames'
  BY <1>1, <1>5 DEF NewNames, There
<1>7. Types'
  BY <1>1, <1>4 DEF Sound, Types
<1>8. NamesWell(graph, {})' /\ Tombs(graph, merges)' /\ Since'
  BY <1>1 DEF Sound, NamesWell, Tombs, Since, After, Stands, Names, Live
<1>9. Gone' /\ forgetting'.set = forgetting.set
  BY <1>1 DEF Sound, Gone
<1>10. Quiet => Quiet'
  BY <1>1, <1>9 DEF Quiet, Recorded, Stands
<1> QED BY <1>6, <1>7, <1>8, <1>9, <1>10 DEF Sound

\* The entities, and by their foreign keys whatever names them by now.
LEMMA ForgetEntitiesSound ==
  ASSUME Sound, ForgetEntities
  PROVE  Sound' /\ (Quiet => Quiet')
<1> DEFINE F == forgetting.set
           less == MergesWithout(F)
           left == WithoutRows(graph, F)
           cite == [c \in Cites |-> IF graph.cite[c] \in F THEN None ELSE graph.cite[c]]
           h == [left EXCEPT !.cite = cite]
<1>0. /\ graph \in Graphs /\ NamesWell(graph, {}) /\ Tombs(graph, merges)
      /\ merges \in Seq(MergeRecords)
      /\ F \subseteq begun /\ begun \subseteq Entities /\ forgotten \subseteq begun
      /\ \A e \in forgotten : graph.entity[e].state = "none"
  BY SoundParts DEF Sound, Gone
<1>1. left \in Graphs /\ left.cite = graph.cite /\ Loses(graph, left, F)
  BY <1>0, WithoutRowsDoes
<1>2. /\ forgetting' = Idle /\ graph' = h /\ merges' = less /\ forgotten' = forgotten \cup F
      /\ UNCHANGED <<proposal, plan, clock, begun>>
  <2>1. graph' = [left EXCEPT !.cite = [c \in Cites |-> IF @[c] \in F THEN None ELSE @[c]]]
    BY DEF ForgetEntities, Deletes
  <2> HIDE DEF left
  <2>2. [left EXCEPT !.cite = [c \in Cites |-> IF @[c] \in F THEN None ELSE @[c]]] = h
    BY <1>1
  <2> QED BY <2>1, <2>2 DEF ForgetEntities, Deletes, MergesWithout
<1> HIDE DEF left
<1>3. /\ h \in Graphs /\ Loses(graph, h, F) /\ h.cite = cite
  <2>1. cite \in Citations
    <3>1. graph.cite \in Citations
      BY <1>0, PartsOf
    <3> QED BY <3>1, CitationsOf
  <2> HIDE DEF cite
  <2>2. h \in Graphs /\ h.cite = cite /\ h.entity = left.entity /\ h.relation = left.relation
        /\ h.item = left.item
    BY <1>1, <2>1 DEF Graphs
  <2> HIDE DEF h
  <2> QED BY <1>1, <2>2 DEF Loses
<1>4. None \notin F /\ \A c \in Cites : cite[c] \notin F /\ cite[c] \in {graph.cite[c], None}
  BY <1>0, Apart
<1> HIDE DEF h, cite
<1>5. NamesWell(h, {}) /\ \A c \in Cites : There(h, c) => There(graph, c)
  BY <1>0, <1>3, <1>4, LosesKeeps
<1>6. /\ less \in Seq(MergeRecords) /\ Len(less) = Len(merges) /\ More(merges, less, clock)
      /\ \A n \in 1..Len(merges) :
           /\ less[n].m = merges[n].m /\ less[n].s = merges[n].s
           /\ Stands(less, n) <=> Stands(merges, n) /\ {merges[n].m, merges[n].s} \cap F = {}
  BY SoundParts, MergesWithoutDoes
<1> HIDE DEF less
<1>7. Tombs(graph, less)
  BY <1>0, <1>6, TombsLess
<1>8. \A n \in 1..Len(less) : Stands(less, n) => {less[n].m, less[n].s} \cap F = {}
  BY <1>6
<1>9. Tombs(h, less) /\ \A B : Recorded(graph, less, B) => Recorded(h, less, B)
  BY <1>0, <1>3, <1>6, <1>7, <1>8, LosesTombs
<1>10. Paired(h, less)
  BY <1>3, <1>5, <1>6, <1>9 DEF Paired
<1>11. (Types /\ NamesWell(graph, {}) /\ Tombs(graph, merges) /\ NewNames /\ Since)'
  BY <1>2, <1>5, <1>6, <1>10, DeletesKeeps
<1>12. Gone'
  <2>1. \A e \in forgotten \cup F : h.entity[e].state = "none"
    BY <1>0, <1>3 DEF Loses
  <2> QED BY <1>0, <1>2, <2>1 DEF Gone, Idle
<1>13. Quiet => Quiet'
  <2> SUFFICES ASSUME Quiet PROVE Quiet'
    OBVIOUS
  <2>1. Recorded(graph, less, begun)
    <3> SUFFICES ASSUME NEW e \in Entities \ begun, graph.entity[e].state = "merged"
                 PROVE  \E n \in 1..Len(less) : /\ Stands(less, n) /\ less[n].m = e
                                                /\ less[n].s = graph.entity[e].into
      BY DEF Recorded
    <3>1. PICK n \in 1..Len(merges) : /\ Stands(merges, n) /\ merges[n].m = e
                                      /\ merges[n].s = graph.entity[e].into
      BY DEF Quiet, Recorded
    <3>2. merges[n].m \notin F /\ merges[n].s \notin F
      BY <1>0, <3>1 DEF Quiet
    <3> QED BY <1>6, <3>1, <3>2
  <2>2. Recorded(h, less, begun)
    BY <1>9, <2>1
  <2> QED BY <1>2, <2>2 DEF Quiet, Recorded, Stands, Idle
<1> QED BY <1>11, <1>12, <1>13 DEF Sound

\* Every step of the job, and its failure.
LEMMA PurgeSound ==
  ASSUME Sound, Purge
  PROVE  Sound' /\ (Quiet => Quiet')
<1>1. CASE \E e \in Entities : Forget(e)
  BY <1>1, ForgetSound
<1>2. CASE ForgetItems
  BY <1>2, ForgetItemsSound
<1>3. CASE ForgetRelations
  BY <1>3, ForgetRelationsSound
<1>4. CASE ForgetRows
  BY <1>4, ForgetRowsSound
<1>5. CASE ForgetDrafts
  BY <1>5, ForgetDraftsSound
<1>6. CASE ForgetEntities
  BY <1>6, ForgetEntitiesSound
<1>7. CASE Fail
  <2>1. forgetting' = Idle /\ UNCHANGED <<graph, proposal, merges, plan, clock, begun, forgotten>>
    BY <1>7 DEF Fail, vars
  <2>2. Gone'
    BY <2>1 DEF Sound, Gone, Idle
  <2>3. Quiet => Quiet'
    <3>1. \A e \in Entities : graph.entity[e].into \notin forgetting'.set
      BY <2>1 DEF Idle
    <3> QED BY <2>1, <3>1 DEF Quiet, Recorded, Stands
  <2> QED BY <2>1, <2>2, <2>3, SameKeeps DEF Sound
<1> QED BY <1>1, <1>2, <1>3, <1>4, <1>5, <1>6, <1>7 DEF Purge

\* A step that is nobody's keeps everything.
LEMMA StutterSound ==
  ASSUME Sound, UNCHANGED <<vars, forgetVars>>
  PROVE  Sound' /\ (Quiet => Quiet')
<1>1. UNCHANGED <<graph, proposal, merges, plan, clock, forgetting, begun, forgotten>>
  BY DEF vars, forgetVars
<1>2. Gone'
  BY <1>1 DEF Sound, Gone
<1>3. Quiet => Quiet'
  BY <1>1 DEF Quiet, Recorded, Stands
<1> QED BY <1>1, <1>2, <1>3, SameKeeps DEF Sound

\* Between two jobs others write, and every tombstone keeps its record.
LEMMA OthersQuiet ==
  ASSUME Sound, Quiet, At("idle"), Others
  PROVE  Quiet'
<1>1. forgetting' = forgetting /\ begun' = begun /\ forgetting.set = {}
  BY DEF Others, forgetVars, Sound, Gone, At
<1>2. Recorded(graph', merges', begun)
  BY OthersSound DEF Quiet, Records
<1> QED BY <1>1, <1>2 DEF Quiet, Recorded, Stands

-------------------------------------------------------------------------------
(* The beginning.                                                          *)

\* A graph to begin with is well named and has no tombstone.
LEMMA SettledIs ==
  ASSUME NEW g \in GraphRows, Settled(g)
  PROVE  /\ g \in Graphs /\ NamesWell(g, {})
         /\ \A e \in Entities : g.entity[e].state # "merged" /\ g.entity[e].into = None
<1>1. /\ g.entity \in [Entities -> EntityRows] /\ g.relation \in [Relations -> RelationRows]
      /\ g.item \in [Items -> ItemRows] /\ g.cite \in [Cites -> Rows \cup {None}]
      /\ g.learned \in SUBSET Lessons
  BY DEF GraphRows
<1>2. \A c \in Cites : g.cite[c] = (IF There(g, c) THEN c ELSE None)
  BY DEF Settled
<1>3. \A c \in Links : ~There(g, c)
  BY Apart DEF There
<1>4. g.cite \in Citations
  BY <1>1, <1>2, <1>3, Apart DEF Citations
<1>5. g \in Graphs
  BY <1>1, <1>4 DEF Graphs, GraphRows
<1>6. \A e \in Entities : g.entity[e].state \in {"none", "live"} /\ g.entity[e].into = None
  BY <1>1 DEF Settled, EntityRows
<1>7. ASSUME NEW r \in Relations
      PROVE  IF g.relation[r].state = "none" THEN Names(g.relation[r]) = {None}
             ELSE \A e \in Names(g.relation[r]) : e \in Entities /\ (e \in {} \/ Live(g.entity[e]))
  <2>1. g.relation[r] \in RelationRows
    BY <1>1
  <2>2. CASE g.relation[r] = NoRelation
    BY <2>2 DEF NoRelation, Names
  <2>3. CASE g.relation[r] # NoRelation
    <3>1. /\ g.relation[r].state = "live"
          /\ \A e \in Names(g.relation[r]) : e # None /\ Live(g.entity[e])
      BY <2>3 DEF Settled, Live
    <3>2. Names(g.relation[r]) \subseteq Entities \cup {None}
      BY <2>1 DEF Names, RelationRows
    <3> QED BY <3>1, <3>2
  <2> QED BY <2>2, <2>3
<1>8. ASSUME NEW i \in Items
      PROVE  /\ g.item[i].state # "merged"
             /\ g.item[i].subject # None =>
                  g.item[i].state # "none" /\ (g.item[i].subject \in {} \/ Live(g.entity[g.item[i].subject]))
  BY DEF Settled, NoItem, Live
<1>9. ASSUME NEW c \in Cites, g.cite[c] \in Entities PROVE Live(g.entity[g.cite[c]])
  <2>1. g.cite[c] = c /\ There(g, c)
    BY <1>2, <1>9, Apart
  <2> QED BY <1>6, <1>9, <2>1, Apart DEF There, Live
<1>10. NamesWell(g, {})
  BY <1>6, <1>7, <1>8, <1>9 DEF NamesWell
<1> QED BY <1>5, <1>6, <1>10

\* The invariant holds of every scene.
LEMMA InitSound ==
  ASSUME ForgetInit
  PROVE  Sound /\ Quiet
<1>1. PICK s \in Scenes : graph = s.graph /\ plan = s.plan
  BY DEF ForgetInit, Init
<1>2. /\ proposal = [p \in Proposals |-> NoProposal] /\ merges = <<>> /\ clock = 0
      /\ forgetting = Idle /\ begun = {} /\ forgotten = {}
  BY DEF ForgetInit, Init
<1>3. /\ graph \in Graphs /\ NamesWell(graph, {})
      /\ \A e \in Entities : graph.entity[e].state # "merged" /\ graph.entity[e].into = None
  BY <1>1, SceneAssumption, SettledIs
<1>4. NoProposal \in ProposalRows /\ NoProposal.at = 0 /\ NoProposal.status = "draft"
  <2>1. NoLog \in Logs
    BY DEF NoLog, Logs
  <2> QED BY <2>1 DEF NoProposal, ProposalRows
<1>5. plan \in [Proposals -> Seq(PlanRows)]
  BY <1>1, SceneAssumption
<1>6. Types
  <2>1. merges \in Seq(MergeRecords)
    BY <1>2
  <2>2. proposal \in [Proposals -> ProposalRows]
    BY <1>2, <1>4
  <2>3. clock \in 0..MaxWrites /\ \A p \in Proposals : proposal[p].at \in 0..MaxWrites
    BY <1>2, <1>4, GraphAssumption
  <2> QED BY <1>3, <1>5, <2>1, <2>2, <2>3 DEF Types
<1>7. Tombs(graph, merges) /\ Recorded(graph, merges, begun)
  BY <1>2, <1>3 DEF Tombs, Recorded
<1>8. NewNames
  <2>1. \A p, q \in Proposals : \A n \in 1..Len(plan[p]), k \in 1..Len(plan[q]) :
          /\ plan[p][n].name # None =>
               ~There(graph, plan[p][n].name) /\ (plan[p][n].name = plan[q][k].name => p = q /\ n = k)
          /\ p = q /\ plan[p][n].kind = "merge" => plan[p][k].kind = "merge"
    BY <1>1, SceneAssumption
  <2> QED BY <1>2, <2>1 DEF NewNames
<1>9. Since
  BY <1>2, <1>4 DEF Since
<1>10. Gone
  BY <1>2 DEF Gone, Idle
<1>11. Quiet
  BY <1>2, <1>3, <1>7 DEF Quiet, Idle
<1> QED BY <1>3, <1>6, <1>7, <1>8, <1>9, <1>10, <1>11 DEF Sound

-------------------------------------------------------------------------------
(* What follows for the forgotten.                                         *)

StayGone ==
  /\ \A e \in forgotten : ~There(graph, e)
  /\ \A r \in Relations : Names(graph.relation[r]) \cap forgotten = {}
  /\ \A i \in Items : graph.item[i].subject \notin forgotten
  /\ \A n \in DOMAIN merges : {merges[n].m, merges[n].s} \cap forgotten # {} => merges[n].reversed

\* It follows from the invariant.
LEMMA GoneIsGone == Sound => StayGone
<1> SUFFICES ASSUME Sound PROVE StayGone
  OBVIOUS
<1>1. /\ NamesWell(graph, {}) /\ Tombs(graph, merges) /\ forgotten \subseteq Entities
      /\ \A e \in forgotten : graph.entity[e].state = "none"
      /\ DOMAIN merges = 1..Len(merges)
  BY SoundParts DEF Sound, Gone
<1>2. \A e \in forgotten : ~There(graph, e)
  BY <1>1, Apart DEF There
<1>3. \A r \in Relations : Names(graph.relation[r]) \cap forgotten = {}
  BY <1>1, Apart DEF NamesWell, Live
<1>4. \A i \in Items : graph.item[i].subject \notin forgotten
  BY <1>1, Apart DEF NamesWell, Live
<1>5. \A n \in DOMAIN merges : {merges[n].m, merges[n].s} \cap forgotten # {} => merges[n].reversed
  BY <1>1 DEF Tombs, Stands
<1> QED BY <1>2, <1>3, <1>4, <1>5 DEF StayGone

-------------------------------------------------------------------------------
(* Every name stays backed.                                                *)

\* A commit that creates backs what it creates, and leaves what was backed as it was.
LEMMA CommitWhole ==
  ASSUME Types, NamesWell(graph, {}), Tombs(graph, merges), Since, Whole(graph, merges, proposal),
         NEW p \in Proposals, NEW x \in RunRecords,
         Added(p, Len(plan[p]), x), Told(p, Len(plan[p]), x), NamesWell(x.graph, {}),
         \A c \in Cites : c \in Made(p, Len(plan[p])) => Fresh(graph, merges, c),
         NEW pr, pr[p].log = x.log, \A q \in Proposals : q # p => pr[q] = proposal[q]
  PROVE  /\ Whole(x.graph, merges, pr)
         /\ \A c \in Cites : Fresh(graph, merges, c) /\ c \notin Made(p, Len(plan[p])) =>
              Fresh(x.graph, merges, c)
<1> DEFINE h == x.graph
           M == Made(p, Len(plan[p]))
           C == x.log.created
           A == x.log.added
<1>1. /\ graph \in Graphs /\ h \in Graphs /\ merges \in Seq(MergeRecords) /\ clock \in Nat
      /\ NamesWell(h, {}) /\ C \subseteq Rows /\ A \subseteq Cites
  BY RunParts DEF Types, Logs
<1>2. /\ C \cup A \subseteq M /\ A \cap (C \cup Entities) = {}
      /\ \A c \in Cites :
           IF c \in C THEN h.cite[c] = c /\ (c \in Claims => StateOf(h, c) # "none")
           ELSE IF c \in A
           THEN c \in Claims => h.cite[c] \in Claims /\ StateOf(h, h.cite[c]) # "none"
           ELSE h.cite[c] = graph.cite[c]
      /\ \A e \in Entities : h.entity[e] = graph.entity[e] \/ e \in C
      /\ \A r \in Claims :
           \/ /\ \A k \in Kinds : End(k, r) => NameOf(h, k, r) = NameOf(graph, k, r)
              /\ BornOf(h, r) = BornOf(graph, r)
              /\ \/ StateOf(h, r) = StateOf(graph, r)
                 \/ {StateOf(graph, r), StateOf(h, r)} \cap {"none", "merged"} = {}
           \/ r \in C /\ BornOf(h, r) = Now /\ StateOf(h, r) \notin {"none", "merged"}
  BY DEF Told
<1>3. \A c \in Cites : There(h, c) => There(graph, c) \/ c \in M
  BY DEF Added
<1>4. \A c \in Cites : c \in M => Fresh(graph, merges, c)
  OBVIOUS
<1>5. pr[p].log.created = C
  OBVIOUS
<1> HIDE DEF h, M, C, A
<1>6. ASSUME NEW c \in Cites, c \in C \cup A
      PROVE  Fresh(graph, merges, c) /\ ~There(graph, c) /\ graph.cite[c] = None
  <2>1. Fresh(graph, merges, c)
    BY <1>2, <1>4, <1>6
  <2> QED BY <2>1 DEF Fresh
<1>7. ASSUME NEW c \in Cites, graph.cite[c] # None \/ There(graph, c)
      PROVE  c \notin C /\ h.cite[c] = graph.cite[c]
  <2>1. c \notin C \cup A
    BY <1>6, <1>7
  <2> QED BY <1>2, <2>1
<1>8. /\ OwnCites(graph, merges) /\ Shadowed(graph, merges, proposal) /\ OwnRows(graph, merges)
      /\ LoopsHold(graph, merges) /\ KeptBack(merges) /\ CitesHold(graph, merges)
  BY DEF Whole
<1>9. \A y \in Claims : y \in Cites /\ y # None
  BY Apart DEF Claims
<1>10. OwnCites(h, merges)
  <2>1. ASSUME NEW e \in Entities, Live(h.entity[e])
        PROVE  h.cite[e] = e /\ \A n \in 1..Len(merges) : Stands(merges, n) => e \notin merges[n].cites
    <3>0. e \in Cites /\ e # None
      BY Apart
    <3>1. CASE e \in C
      <4>1. Fresh(graph, merges, e)
        BY <1>6, <3>0, <3>1
      <4> QED BY <1>2, <3>0, <3>1, <4>1 DEF Fresh
    <3>2. CASE e \notin C
      <4>1. Live(graph.entity[e])
        BY <1>2, <2>1, <3>2
      <4>2. graph.cite[e] = e
        BY <1>8, <4>1 DEF OwnCites
      <4>3. h.cite[e] = graph.cite[e]
        BY <1>7, <3>0, <4>2
      <4> QED BY <1>8, <4>1, <4>2, <4>3 DEF OwnCites
    <3> QED BY <3>1, <3>2
  <2>2. ASSUME NEW n \in 1..Len(merges), Stands(merges, n)
        PROVE  h.cite[merges[n].m] = h.cite[merges[n].s]
    <3>1. merges[n] \in MergeRecords
      BY <1>1
    <3>2. merges[n].m \in Entities /\ merges[n].s \in Entities
      BY <3>1, RecordParts
    <3>3. There(graph, merges[n].m) /\ There(graph, merges[n].s)
      BY <2>2, <3>2, Apart DEF Tombs, There
    <3>4. h.cite[merges[n].m] = graph.cite[merges[n].m] /\ h.cite[merges[n].s] = graph.cite[merges[n].s]
      BY <1>7, <3>2, <3>3, Apart
    <3> QED BY <1>8, <2>2, <3>4 DEF OwnCites
  <2> QED BY <1>8, <2>1, <2>2 DEF OwnCites
<1>11. Shadowed(h, merges, pr)
  <2> SUFFICES ASSUME NEW k \in Kinds, NEW r \in Claims, End(k, r), NameOf(h, k, r) # None
               PROVE  \E c \in Entities : Shadows(h, merges, pr, k, r, c)
    BY DEF Shadowed
  <2>1. CASE NameOf(h, k, r) = NameOf(graph, k, r) /\ BornOf(h, r) = BornOf(graph, r)
    <3>1. PICK c \in Entities : Shadows(graph, merges, proposal, k, r, c)
      BY <1>8, <2>1 DEF Shadowed
    <3>2. /\ graph.cite[c] = NameOf(h, k, r)
          /\ \A n \in 1..Len(merges) : Stands(merges, n) => (Took(merges[n], k, r) <=> c \in merges[n].cites)
      BY <2>1, <3>1 DEF Shadows
    <3>3. c \notin C /\ h.cite[c] = NameOf(h, k, r)
      BY <1>7, <3>2, Apart
    <3>4. ASSUME NEW q \in Proposals, Committed(pr, q), BornOf(h, r) <= pr[q].at, c \in pr[q].log.created
          PROVE  r \in pr[q].log.created
      <4>1. q # p
        BY <1>5, <3>3, <3>4
      <4>2. pr[q] = proposal[q]
        BY <4>1
      <4>3. Committed(proposal, q) /\ BornOf(graph, r) <= proposal[q].at /\ c \in proposal[q].log.created
        BY <2>1, <3>4, <4>2 DEF Committed
      <4>4. r \in proposal[q].log.created
        BY <3>1, <4>3 DEF Shadows
      <4> QED BY <4>2, <4>4
    <3> QED BY <3>2, <3>3, <3>4 DEF Shadows
  <2>2. CASE r \in C /\ BornOf(h, r) = Now
    <3> DEFINE e == NameOf(h, k, r)
    <3>1. e \in Entities /\ Live(h.entity[e])
      BY <1>1, ClaimParts
    <3>2. h.cite[e] = e /\ \A n \in 1..Len(merges) : Stands(merges, n) => e \notin merges[n].cites
      BY <1>10, <3>1 DEF OwnCites
    <3>3. Fresh(graph, merges, r)
      BY <1>6, <1>9, <2>2
    <3>4. \A n \in 1..Len(merges) : Stands(merges, n) => ~Took(merges[n], k, r)
      BY <3>3 DEF Fresh, Took, Kinds
    <3>5. ASSUME NEW q \in Proposals, Committed(pr, q), BornOf(h, r) <= pr[q].at
          PROVE  q = p
      <4> SUFFICES ASSUME q # p PROVE FALSE
        OBVIOUS
      <4>1. pr[q] = proposal[q]
        OBVIOUS
      <4>2. After(proposal[q], merges, clock)
        BY <3>5, <4>1 DEF Committed, Since
      <4>3. proposal[q].at <= clock /\ proposal[q].at \in Nat
        <5>1. proposal[q] \in ProposalRows
          BY DEF Types
        <5> QED BY <4>2, <5>1 DEF After, ProposalRows
      <4> QED BY <1>1, <2>2, <3>5, <4>1, <4>3 DEF Now
    <3>6. Shadows(h, merges, pr, k, r, e)
      BY <1>5, <2>2, <3>2, <3>4, <3>5 DEF Shadows
    <3> QED BY <3>1, <3>6
  <2> QED BY <1>2, <2>1, <2>2
<1>12. OwnRows(h, merges)
  <2> SUFFICES ASSUME NEW y \in Claims, StateOf(h, y) \notin {"none", "merged"}
               PROVE  h.cite[y] = y \/ BackIn(merges, y)
    BY DEF OwnRows
  <2>1. CASE y \in C
    BY <1>2, <1>9, <2>1
  <2>2. CASE y \notin C
    <3>1. StateOf(graph, y) \notin {"none", "merged"}
      BY <1>2, <2>2
    <3>2. graph.cite[y] = y \/ BackIn(merges, y)
      BY <1>8, <3>1 DEF OwnRows
    <3> QED BY <1>7, <1>9, <3>2
  <2> QED BY <2>1, <2>2
<1>13. LoopsHold(h, merges)
  <2> SUFFICES ASSUME NEW n \in 1..Len(merges), NEW y \in Claims, Stands(merges, n), Looped(merges[n], y),
                      StateOf(h, y) # "none", ~BackIn(merges, y)
               PROVE  /\ StateOf(h, y) = "merged" /\ h.cite[y] = y
                      /\ \A k \in 1..Len(merges) : Stands(merges, k) /\ Looped(merges[k], y) => k = n
    BY DEF LoopsHold
  <2>1. y \notin C
    BY <1>6, <1>9 DEF Fresh
  <2>2. StateOf(graph, y) # "none"
    BY <1>2, <2>1
  <2>3. /\ StateOf(graph, y) = "merged" /\ graph.cite[y] = y
        /\ \A k \in 1..Len(merges) : Stands(merges, k) /\ Looped(merges[k], y) => k = n
    BY <1>8, <2>2 DEF LoopsHold
  <2> QED BY <1>2, <1>7, <1>9, <2>1, <2>3
<1>14. CitesHold(h, merges)
  <2> SUFFICES ASSUME NEW c \in Claims, h.cite[c] # None
               PROVE  StateOf(h, h.cite[c]) # "none" \/ BackIn(merges, h.cite[c])
    BY DEF CitesHold
  <2>1. CASE c \in C
    BY <1>2, <1>9, <2>1
  <2>2. CASE c \in A \ C
    BY <1>2, <1>9, <2>2
  <2>3. CASE c \notin C \cup A
    <3>1. h.cite[c] = graph.cite[c]
      BY <1>2, <1>9, <2>3
    <3>2. graph.cite[c] \in Claims
      BY <1>1, <3>1, ClaimParts
    <3>3. StateOf(graph, graph.cite[c]) # "none" \/ BackIn(merges, graph.cite[c])
      BY <1>8, <3>1 DEF CitesHold
    <3> QED BY <1>2, <3>1, <3>2, <3>3
  <2> QED BY <2>1, <2>2, <2>3
<1>15. Whole(h, merges, pr)
  BY <1>8, <1>10, <1>11, <1>12, <1>13, <1>14 DEF Whole
<1>16. ASSUME NEW c \in Cites, Fresh(graph, merges, c), c \notin M PROVE Fresh(h, merges, c)
  BY <1>2, <1>3, <1>16 DEF Fresh
<1> QED BY <1>15, <1>16 DEF h, M

\* A commit log that says what its commit did: what it cites besides is no row that is there, a
\* commit that merges does nothing else, and what it changes it has not created.
LogWell(g, log) ==
  /\ log.added \cap Entities = {} /\ \A c \in log.added : ~There(g, c)
  /\ log.merges # {} => log.created = {} /\ log.added = {} /\ log.changes = <<>>
  /\ \A n \in 1..Len(log.changes) : /\ log.changes[n].after.state \in {"live", "superseded"}
                                    /\ log.changes[n].row \notin log.created

LogsWell == \A p \in Proposals : Committed(proposal, p) => LogWell(graph, proposal[p].log)

\* What a draft is to create nobody knows of, and the draft restates no item of its own.
Unused ==
  \A p \in Proposals : proposal[p].status = "draft" =>
    \A n \in 1..Len(plan[p]) : plan[p][n].name # None =>
      /\ Fresh(graph, merges, plan[p][n].name)
      /\ \A q \in Proposals : Committed(proposal, q) => plan[p][n].name \notin proposal[q].log.added
      /\ \A k \in 1..Len(plan[p]) : plan[p][k].kind = "item" => plan[p][k].target # plan[p][n].name

\* What the steps of the job that are done have left to name those it forgets.
Cleared ==
  /\ forgetting.step \in {"relations", "rows", "drafts", "entities"} =>
       \A i \in Items : graph.item[i].subject \notin forgetting.set
  /\ forgetting.step \in {"rows", "drafts", "entities"} =>
       \A r \in Relations : Names(graph.relation[r]) \cap forgetting.set = {}

\* The invariant of what backs a name.
Fine == Whole(graph, merges, proposal) /\ LogsWell /\ Unused /\ Cleared

\* It is kept by a step that leaves every name backed and lets nothing come.
LEMMA FineNext ==
  ASSUME Types, Fine, Whole(graph', merges', proposal'),
         \A c \in Cites : Fresh(graph, merges, c) => Fresh(graph', merges', c),
         \A c \in Cites : There(graph', c) => There(graph, c),
         \A p \in Proposals : proposal'[p] = proposal[p] \/ proposal'[p].status = "reverted",
         \A p \in Proposals : \A n \in 1..Len(plan'[p]) : \E k \in 1..Len(plan[p]) : plan'[p][n] = plan[p][k],
         Cleared'
  PROVE  Fine'
<1>1. Whole(graph, merges, proposal)'
  BY DEF Whole, OwnCites, Shadowed, Shadows, OwnRows, LoopsHold, KeptBack, CitesHold, Committed,
         BackIn, GoneIn, KeptIn, Looped, Stands, Took, NameOf, StateOf, BornOf, Live
<1>2. LogsWell /\ Unused
  BY DEF Fine
<1>3. LogsWell'
  <2>1. ASSUME NEW p \in Proposals, proposal'[p].status = "committed"
        PROVE  LogWell(graph', proposal'[p].log)
    <3>1. proposal'[p] = proposal[p] /\ LogWell(graph, proposal[p].log)
      BY <1>2, <2>1 DEF LogsWell, Committed
    <3>2. proposal[p].log.added \subseteq Cites
      <4>1. proposal[p] \in ProposalRows
        BY DEF Types
      <4> QED BY <4>1 DEF ProposalRows, Logs
    <3> QED BY <3>1, <3>2 DEF LogWell
  <2>2. ASSUME NEW p \in Proposals, Committed(proposal, p)' PROVE LogWell(graph, proposal[p].log)'
    <3>1. LogWell(graph', proposal'[p].log)
      BY <2>1, <2>2 DEF Committed
    <3> QED BY <3>1 DEF LogWell, There
  <2> QED BY <2>2 DEF LogsWell
<1>4. Unused'
  <2>1. ASSUME NEW p \in Proposals, proposal'[p].status = "draft", NEW n \in 1..Len(plan'[p]),
               plan'[p][n].name # None
        PROVE  /\ Fresh(graph', merges', plan'[p][n].name)
               /\ \A q \in Proposals : proposal'[q].status = "committed" =>
                    plan'[p][n].name \notin proposal'[q].log.added
               /\ \A k \in 1..Len(plan'[p]) : plan'[p][k].kind = "item" =>
                    plan'[p][k].target # plan'[p][n].name
    <3>1. proposal[p].status = "draft"
      BY <2>1
    <3>2. PICK i \in 1..Len(plan[p]) : plan'[p][n] = plan[p][i]
      OBVIOUS
    <3>3. plan[p][i].name \in Cites
      <4>1. plan[p] \in Seq(PlanRows)
        BY DEF Types
      <4>2. plan[p][i] \in PlanRows
        BY <4>1
      <4> QED BY <2>1, <3>2, <4>2 DEF PlanRows
    <3>4. /\ Fresh(graph, merges, plan[p][i].name)
          /\ \A q \in Proposals : Committed(proposal, q) => plan[p][i].name \notin proposal[q].log.added
          /\ \A k \in 1..Len(plan[p]) : plan[p][k].kind = "item" => plan[p][k].target # plan[p][i].name
      BY <1>2, <2>1, <3>1, <3>2 DEF Unused
    <3>5. \A q \in Proposals : proposal'[q].status = "committed" =>
            plan'[p][n].name \notin proposal'[q].log.added
      BY <3>2, <3>4 DEF Committed
    <3> QED BY <3>2, <3>3, <3>4, <3>5
  <2> QED BY <2>1 DEF Unused, Fresh, There, Stands, Looped, Committed
<1> QED BY <1>1, <1>3, <1>4 DEF Fine

\* A writer who is not alone with a job changes nothing of what a job has done.
LEMMA IdleFine ==
  ASSUME Sound, Fine, At("idle"), UNCHANGED forgetVars, plan' = plan,
         Whole(graph', merges', proposal'),
         \A c \in Cites : Fresh(graph, merges, c) => Fresh(graph', merges', c),
         \A c \in Cites : There(graph', c) => There(graph, c),
         \A p \in Proposals : proposal'[p] = proposal[p] \/ proposal'[p].status = "reverted"
  PROVE  Fine'
<1>1. Cleared'
  BY DEF At, forgetVars, Cleared
<1>2. Types
  BY DEF Sound
<1>3. \A p \in Proposals : \A n \in 1..Len(plan'[p]) : \E k \in 1..Len(plan[p]) : plan'[p][n] = plan[p][k]
  OBVIOUS
<1> QED BY <1>1, <1>2, <1>3, FineNext

\* The owner merges.
LEMMA MergeFine ==
  ASSUME Sound, Fine, At("idle"), NEW m \in Entities, NEW s \in Entities, Merge(m, s), UNCHANGED forgetVars
  PROVE  Fine'
<1> DEFINE x == MergeIn(graph, m, s)
<1>1. /\ m # s /\ Live(graph.entity[m]) /\ Live(graph.entity[s])
      /\ graph' = x.graph /\ plan' = plan
      /\ merges' = Append(merges, x.entry) /\ proposal' = proposal
  BY DEF Merge, Mergeable, Writes
<1>2. /\ Whole(graph, merges, proposal) => Whole(x.graph, Append(merges, x.entry), proposal)
      /\ \A c \in Cites : Fresh(graph, merges, c) => Fresh(x.graph, Append(merges, x.entry), c)
  BY <1>1, SoundParts, MergeWhole
<1>3. SameRows(graph, x.graph)
  BY <1>1, SoundParts, MergeKeeps
<1> HIDE DEF x
<1> QED BY <1>1, <1>2, <1>3, IdleFine DEF Fine, SameRows

\* The owner reverses a merge.
LEMMA ReverseFine ==
  ASSUME Sound, Fine, At("idle"), NEW n \in 1..Len(merges), Reverse(n), UNCHANGED forgetVars
  PROVE  Fine'
<1> DEFINE h == ReverseIn(graph, merges[n])
           less == Closed(merges, n)
<1>1. /\ Reversible(graph, merges[n])
      /\ graph' = h /\ plan' = plan /\ merges' = less /\ proposal' = proposal
  BY DEF Reverse, Writes, Closed
<1>2. /\ Whole(graph, merges, proposal) => Whole(h, less, proposal)
      /\ \A c \in Cites : Fresh(graph, merges, c) => Fresh(h, less, c)
  BY <1>1, SoundParts, ReverseWhole
<1>3. SameRows(graph, h)
  BY <1>1, SoundParts, ReverseKeeps
<1> HIDE DEF h, less
<1> QED BY <1>1, <1>2, <1>3, IdleFine DEF Fine, SameRows

\* What the owner does by hand leaves what backs the names.
LEMMA HandFine ==
  ASSUME Sound, Fine, At("idle"), UNCHANGED forgetVars,
         NEW h, Agrees(graph, h), Writes(None, h), UNCHANGED <<proposal, merges>>
  PROVE  Fine'
<1>1. graph' = h /\ plan' = plan
  BY DEF Writes
<1>2. /\ Whole(graph, merges, proposal) => Whole(h, merges, proposal)
      /\ \A c \in Cites : Fresh(graph, merges, c) => Fresh(h, merges, c)
  BY SoundParts, AgreesWhole
<1> QED BY <1>1, <1>2, IdleFine DEF Fine, Agrees

\* What agrees, row by row.
LEMMA RowsAgree ==
  ASSUME NEW g, NEW h, h.cite = g.cite,
         \A e \in Entities : h.entity[e].state = g.entity[e].state,
         \A r \in Relations : /\ h.relation[r].from = g.relation[r].from
                              /\ h.relation[r].to = g.relation[r].to
                              /\ h.relation[r].born = g.relation[r].born
                              /\ \/ h.relation[r].state = g.relation[r].state
                                 \/ {g.relation[r].state, h.relation[r].state} \cap {"none", "merged"} = {},
         \A i \in Items : /\ h.item[i].subject = g.item[i].subject
                          /\ h.item[i].born = g.item[i].born
                          /\ \/ h.item[i].state = g.item[i].state
                             \/ {g.item[i].state, h.item[i].state} \cap {"none", "merged"} = {}
  PROVE  Agrees(g, h)
<1>1. \A e \in Entities : Live(h.entity[e]) <=> Live(g.entity[e])
  BY DEF Live
<1>2. ASSUME NEW c \in Cites PROVE There(h, c) <=> There(g, c)
  BY Apart DEF There
<1>3. ASSUME NEW k \in Kinds, NEW r \in Claims, End(k, r) PROVE NameOf(h, k, r) = NameOf(g, k, r)
  BY <1>3, Apart DEF End, NameOf, Kinds
<1>4. ASSUME NEW y \in Claims
      PROVE  /\ BornOf(h, y) = BornOf(g, y)
             /\ \/ StateOf(h, y) = StateOf(g, y)
                \/ {StateOf(g, y), StateOf(h, y)} \cap {"none", "merged"} = {}
  BY Apart DEF BornOf, StateOf, Claims
<1> QED BY <1>1, <1>2, <1>3, <1>4 DEF Agrees

\* The owner edits an entity.
LEMMA EditFine ==
  ASSUME Sound, Fine, At("idle"), NEW e \in Entities, EditEntity(e), UNCHANGED forgetVars
  PROVE  Fine'
<1> DEFINE row == [graph.entity[e] EXCEPT !.touched = Now]
           h == [graph EXCEPT !.entity[e].touched = Now]
<1>1. graph \in Graphs
  BY SoundParts
<1>2. graph.entity[e] \in EntityRows
  BY <1>1, PartsOf
<1>3. row.state = graph.entity[e].state
  BY <1>2 DEF EntityRows
<1>4. h = [graph EXCEPT !.entity[e] = row]
  OBVIOUS
<1> HIDE DEF row
<1>5. /\ h.cite = graph.cite /\ h.relation = graph.relation /\ h.item = graph.item
      /\ \A a \in Entities : h.entity[a].state = graph.entity[a].state
  BY <1>1, <1>3, <1>4 DEF Graphs
<1>6. Writes(None, h) /\ UNCHANGED <<proposal, merges>>
  BY DEF EditEntity
<1> HIDE DEF h
<1>7. Agrees(graph, h)
  BY <1>5, RowsAgree
<1> QED BY <1>6, <1>7, HandFine

\* The owner retracts a relation: it keeps its names and its citations.
LEMMA RetractFine ==
  ASSUME Sound, Fine, At("idle"), NEW r \in Relations, RetractRelation(r), UNCHANGED forgetVars
  PROVE  Fine'
<1> DEFINE relation == [k \in Relations |->
             IF k = r THEN [graph.relation[k] EXCEPT !.state = "rejected", !.touched = Now]
             ELSE IF Live(graph.relation[k]) /\ graph.relation[k].by = r /\ graph.relation[k].until = r
             THEN [graph.relation[k] EXCEPT !.until = None, !.by = None, !.touched = Now]
             ELSE graph.relation[k]]
           h == [graph EXCEPT !.relation = relation]
<1>1. graph \in Graphs /\ Live(graph.relation[r])
  BY SoundParts DEF RetractRelation
<1>2. ASSUME NEW k \in Relations
      PROVE  /\ relation[k].from = graph.relation[k].from /\ relation[k].to = graph.relation[k].to
             /\ relation[k].born = graph.relation[k].born
             /\ \/ relation[k].state = graph.relation[k].state
                \/ {graph.relation[k].state, relation[k].state} \cap {"none", "merged"} = {}
  <2> DEFINE row == graph.relation[k]
             one == [row EXCEPT !.state = "rejected", !.touched = Now]
             two == [row EXCEPT !.until = None, !.by = None, !.touched = Now]
  <2>1. row \in RelationRows
    BY <1>1, PartsOf
  <2>2. k = r => relation[k] = one /\ row.state = "live"
    BY <1>1 DEF Live
  <2>3. k # r => relation[k] \in {two, row}
    OBVIOUS
  <2> HIDE DEF relation
  <2>4. /\ one.from = row.from /\ one.to = row.to /\ one.state = "rejected" /\ one.born = row.born
        /\ two.from = row.from /\ two.to = row.to /\ two.state = row.state /\ two.born = row.born
    <3> HIDE DEF row
    <3> QED BY <2>1 DEF RelationRows
  <2> HIDE DEF one, two, row
  <2> QED BY <2>2, <2>3, <2>4 DEF row
<1>3. h = [graph EXCEPT !.relation = [k \in Relations |->
            IF k = r THEN [@[k] EXCEPT !.state = "rejected", !.touched = Now]
            ELSE IF Live(@[k]) /\ @[k].by = r /\ @[k].until = r
            THEN [@[k] EXCEPT !.until = None, !.by = None, !.touched = Now]
            ELSE @[k]]]
  OBVIOUS
<1>4. Writes(None, h) /\ UNCHANGED <<proposal, merges>>
  BY <1>3 DEF RetractRelation
<1> HIDE DEF relation
<1>5. /\ h.cite = graph.cite /\ h.entity = graph.entity /\ h.item = graph.item /\ h.relation = relation
  BY <1>1 DEF Graphs
<1> HIDE DEF h
<1>6. Agrees(graph, h)
  BY <1>2, <1>5, RowsAgree
<1> QED BY <1>4, <1>6, HandFine

\* The owner says that two are not the same.
LEMMA DistinctFine ==
  ASSUME Sound, Fine, At("idle"), NEW l \in Lessons, MarkDistinct(l), UNCHANGED forgetVars
  PROVE  Fine'
<1> DEFINE h == [graph EXCEPT !.learned = @ \cup {l}]
<1>1. graph \in Graphs
  BY SoundParts
<1>2. h.cite = graph.cite /\ h.entity = graph.entity /\ h.item = graph.item /\ h.relation = graph.relation
  BY <1>1 DEF Graphs
<1>3. Writes(None, h) /\ UNCHANGED <<proposal, merges>>
  BY DEF MarkDistinct
<1> HIDE DEF h
<1>4. Agrees(graph, h)
  BY <1>2, RowsAgree
<1> QED BY <1>3, <1>4, HandFine

\* A proposal that has created nothing is shadowed by nothing of its own.
LEMMA WholeToo ==
  ASSUME NEW g, NEW ms, NEW pr, Whole(g, ms, pr), NEW more,
         \A q \in Proposals : more[q] = pr[q] \/ more[q].log.created = {}
  PROVE  Whole(g, ms, more)
<1>1. Shadowed(g, ms, more)
  <2> SUFFICES ASSUME NEW k \in Kinds, NEW r \in Claims, End(k, r), NameOf(g, k, r) # None
               PROVE  \E c \in Entities : Shadows(g, ms, more, k, r, c)
    BY DEF Shadowed
  <2>1. PICK c \in Entities : Shadows(g, ms, pr, k, r, c)
    BY DEF Whole, Shadowed
  <2>2. ASSUME NEW q \in Proposals, Committed(more, q), BornOf(g, r) <= more[q].at, c \in more[q].log.created
        PROVE  r \in more[q].log.created
    <3>1. more[q] = pr[q]
      BY <2>2
    <3>2. Committed(pr, q) /\ BornOf(g, r) <= pr[q].at /\ c \in pr[q].log.created
      BY <2>2, <3>1 DEF Committed
    <3>3. r \in pr[q].log.created
      BY <2>1, <3>2 DEF Shadows
    <3> QED BY <3>1, <3>3
  <2> QED BY <2>1, <2>2 DEF Shadows
<1> QED BY <1>1 DEF Whole

\* A draft is committed: what it creates comes with its own citation, and nobody knew of it.
LEMMA CommitFine ==
  ASSUME Sound, Fine, At("idle"), NEW p \in Proposals, Commit(p), UNCHANGED forgetVars
  PROVE  Fine'
<1> DEFINE x == CommitIn(p)
           n == Len(plan[p])
           M == Made(p, n)
           one == [status |-> "committed", log |-> x.log, at |-> Now]
           pr == [proposal EXCEPT ![p] = one]
<1>0. /\ graph \in Graphs /\ merges \in Seq(MergeRecords) /\ clock \in Nat
      /\ proposal \in [Proposals -> ProposalRows] /\ plan \in [Proposals -> Seq(PlanRows)]
      /\ Types /\ NamesWell(graph, {}) /\ Tombs(graph, merges) /\ NewNames /\ Since
  BY SoundParts DEF Sound, Types
<1>1. /\ proposal[p].status = "draft" /\ Valid(p)
      /\ graph' = x.graph /\ plan' = plan /\ merges' = x.merges /\ proposal' = pr
  BY DEF Commit, Writes
<1>2. x \in RunRecords /\ ((Added(p, n, x) /\ Told(p, n, x)) \/ MergedOnly(x))
  BY <1>0, <1>1, CommitInDoes
<1> HIDE DEF x
<1>3. /\ x.graph \in Graphs /\ x.log \in Logs /\ n \in Nat /\ plan[p] \in Seq(PlanRows)
  BY <1>0, <1>2, RunParts
<1>4. /\ one.log = x.log /\ one.status = "committed"
      /\ pr[p] = one /\ \A q \in Proposals : q # p => pr[q] = proposal[q]
  BY <1>0
<1> HIDE DEF one, pr
<1>5. Whole(graph, merges, proposal) /\ LogsWell /\ Unused
  BY DEF Fine
<1>6. ASSUME NEW c \in M
      PROVE  /\ c \in Cites /\ Fresh(graph, merges, c)
             /\ \A q \in Proposals : Committed(proposal, q) => c \notin proposal[q].log.added
             /\ \A k \in 1..n : plan[p][k].kind = "item" => plan[p][k].target # c
             /\ \A q \in Proposals \ {p} : proposal[q].status = "draft" =>
                  \A k \in 1..Len(plan[q]) : plan[q][k].name # c
  <2>1. PICK i \in 1..n : plan[p][i].name = c /\ c # None
    BY DEF Made
  <2>2. plan[p][i] \in PlanRows
    BY <1>3
  <2>3. c \in Cites
    BY <2>1, <2>2 DEF PlanRows
  <2>4. \A q \in Proposals : proposal[q].status = "draft" =>
          \A k \in 1..Len(plan[q]) : plan[q][k].name = plan[p][i].name => p = q
    BY <1>0, <1>1, <2>1 DEF NewNames
  <2> QED BY <1>1, <1>5, <2>1, <2>3, <2>4 DEF Unused
<1> HIDE DEF M
<1>7. /\ Whole(x.graph, x.merges, pr)
      /\ \A c \in Cites : Fresh(graph, merges, c) /\ c \notin M => Fresh(x.graph, x.merges, c)
      /\ \A c \in Cites : There(x.graph, c) => There(graph, c) \/ c \in M
      /\ LogWell(x.graph, x.log) /\ x.log.added \subseteq M
  <2>1. CASE Added(p, n, x) /\ Told(p, n, x)
    <3>1. Coming(p, n) = {}
      <4>1. (n + 1)..n = {}
        BY <1>3
      <4> QED BY <4>1 DEF Coming
    <3>2. NamesWell(x.graph, {}) /\ x.merges = merges /\ x.log.merges = {}
          /\ \A c \in Cites : There(x.graph, c) => There(graph, c) \/ c \in M
      BY <2>1, <3>1 DEF Added, M
    <3>3. pr[p].log = x.log
      BY <1>4
    <3>4. Whole(x.graph, merges, pr)
          /\ \A c \in Cites : Fresh(graph, merges, c) /\ c \notin M => Fresh(x.graph, merges, c)
      BY <1>0, <1>2, <1>4, <1>5, <1>6, <2>1, <3>2, <3>3, CommitWhole DEF M
    <3>5. x.log.created \cup x.log.added \subseteq M /\ x.log.added \cap (x.log.created \cup Entities) = {}
      BY <2>1 DEF Told, M
    <3>6. ASSUME NEW c \in x.log.added PROVE ~There(x.graph, c)
      <4>1. c \in Cites /\ ~There(graph, c) /\ c \notin x.log.created /\ c \notin Entities
        BY <1>6, <3>5 DEF Fresh
      <4>2. CASE c \in Links
        BY <4>2, Apart DEF There
      <4>3. CASE c \in Claims
        <5>1. StateOf(graph, c) = "none"
          BY <1>0, <4>1, <4>3, ClaimParts
        <5>2. StateOf(x.graph, c) = "none"
          BY <2>1, <4>1, <4>3, <5>1 DEF Told
        <5> QED BY <1>3, <3>2, <4>3, <5>2, ClaimParts
      <4> QED BY <4>1, <4>2, <4>3 DEF Cites, Rows, Claims
    <3>7. ASSUME NEW k \in 1..Len(x.log.changes)
          PROVE  /\ x.log.changes[k].after.state \in {"live", "superseded"}
                 /\ x.log.changes[k].row \notin x.log.created
      <4>1. /\ x.log.changes[k].after.state \in {"live", "superseded"}
            /\ \E j \in 1..n : plan[p][j].kind = "item" /\ plan[p][j].target = x.log.changes[k].row
        BY <2>1 DEF Told
      <4> QED BY <1>6, <3>5, <4>1
    <3>8. LogWell(x.graph, x.log)
      BY <3>2, <3>5, <3>6, <3>7 DEF LogWell
    <3> QED BY <3>2, <3>4, <3>5, <3>8
  <2>2. CASE MergedOnly(x)
    <3>1. /\ x.log.created = {} /\ x.log.added = {} /\ x.log.changes = <<>>
          /\ SameRows(graph, x.graph)
          /\ \A q : Whole(graph, merges, q) => Whole(x.graph, x.merges, q)
          /\ \A c \in Cites : Fresh(graph, merges, c) => Fresh(x.graph, x.merges, c)
      BY <2>2 DEF MergedOnly
    <3>2. \A q \in Proposals : pr[q] = proposal[q] \/ pr[q].log.created = {}
      BY <1>4, <3>1
    <3>3. Whole(graph, merges, pr)
      BY <1>5, <3>2, WholeToo
    <3>4. LogWell(x.graph, x.log)
      BY <3>1 DEF LogWell
    <3> QED BY <3>1, <3>3, <3>4 DEF SameRows
  <2> QED BY <1>2, <2>1, <2>2
<1>8. Whole(graph, merges, proposal)'
  <2>1. Whole(graph', merges', proposal')
    BY <1>1, <1>7
  <2> QED BY <2>1 DEF Whole, OwnCites, Shadowed, Shadows, OwnRows, LoopsHold, KeptBack, CitesHold, Committed,
                      BackIn, GoneIn, KeptIn, Looped, Stands, Took, NameOf, StateOf, BornOf, Live
<1>9. LogsWell'
  <2>1. ASSUME NEW q \in Proposals, pr[q].status = "committed" PROVE LogWell(x.graph, pr[q].log)
    <3>1. CASE q = p
      BY <1>4, <1>7, <3>1
    <3>2. CASE q # p
      <4>1. pr[q] = proposal[q] /\ Committed(proposal, q)
        BY <1>4, <2>1, <3>2 DEF Committed
      <4>2. LogWell(graph, proposal[q].log)
        BY <1>5, <4>1 DEF LogsWell
      <4>3. \A c \in proposal[q].log.added : c \in Cites /\ c \notin M
        <5>1. proposal[q] \in ProposalRows
          BY <1>0
        <5>2. proposal[q].log.added \subseteq Cites
          BY <5>1 DEF ProposalRows, Logs
        <5> QED BY <1>6, <4>1, <5>2
      <4> QED BY <1>7, <4>1, <4>2, <4>3 DEF LogWell
    <3> QED BY <3>1, <3>2
  <2>2. ASSUME NEW q \in Proposals, Committed(proposal, q)' PROVE LogWell(graph, proposal[q].log)'
    <3>1. LogWell(graph', proposal'[q].log)
      BY <1>1, <2>1, <2>2 DEF Committed
    <3> QED BY <3>1 DEF LogWell, There
  <2> QED BY <2>2 DEF LogsWell
<1>10. Unused'
  <2>1. ASSUME NEW q \in Proposals, pr[q].status = "draft", NEW i \in 1..Len(plan[q]), plan[q][i].name # None
        PROVE  /\ Fresh(x.graph, x.merges, plan[q][i].name)
               /\ \A o \in Proposals : pr[o].status = "committed" => plan[q][i].name \notin pr[o].log.added
               /\ \A k \in 1..Len(plan[q]) : plan[q][k].kind = "item" => plan[q][k].target # plan[q][i].name
    <3>1. q # p /\ proposal[q].status = "draft"
      BY <1>4, <2>1
    <3>2. /\ Fresh(graph, merges, plan[q][i].name)
          /\ \A o \in Proposals : Committed(proposal, o) => plan[q][i].name \notin proposal[o].log.added
          /\ \A k \in 1..Len(plan[q]) : plan[q][k].kind = "item" => plan[q][k].target # plan[q][i].name
      BY <1>5, <2>1, <3>1 DEF Unused
    <3>3. plan[q][i].name \notin M
      BY <1>6, <3>1
    <3>4. plan[q][i].name \in Cites
      <4>1. plan[q] \in Seq(PlanRows)
        BY <1>0
      <4>2. plan[q][i] \in PlanRows
        BY <4>1
      <4> QED BY <2>1, <4>2 DEF PlanRows
    <3>5. ASSUME NEW o \in Proposals, pr[o].status = "committed" PROVE plan[q][i].name \notin pr[o].log.added
      BY <1>4, <1>7, <3>2, <3>3, <3>5 DEF Committed
    <3> QED BY <1>7, <3>2, <3>3, <3>4, <3>5
  <2> QED BY <1>1, <2>1 DEF Unused, Fresh, There, Stands, Looped, Committed
<1>11. Cleared'
  BY DEF At, forgetVars, Cleared
<1> QED BY <1>8, <1>9, <1>10, <1>11 DEF Fine

\* The job deletes claims and their citations.
LEMMA DrainFine ==
  ASSUME Sound, Fine, NEW rows, NEW step, Drain(rows, step), rows \subseteq Claims, Cleared'
  PROVE  Fine'
<1>1. Types /\ graph \in Graphs /\ merges \in Seq(MergeRecords) /\ clock \in Nat /\ NamesWell(graph, {})
  BY SoundParts DEF Sound
<1>2. CASE rows = {}
  <2>1. UNCHANGED <<graph, proposal, merges, plan>>
    BY <1>2 DEF Drain, vars
  <2>2. Whole(graph', merges', proposal')
    BY <2>1 DEF Fine
  <2>3. \A c \in Cites : Fresh(graph, merges, c) => Fresh(graph', merges', c)
    BY <2>1
  <2> QED BY <1>1, <2>1, <2>2, <2>3, FineNext
<1>3. CASE rows # {}
  <2> DEFINE h == Without(rows)
             cut == {}
  <2>1. graph' = h /\ UNCHANGED <<proposal, merges, plan>>
    BY <1>3 DEF Drain, Deletes
  <2>2. h \in Graphs /\ Loses(graph, h, rows)
        /\ \A c \in Cites : h.cite[c] = IF graph.cite[c] \in rows THEN None ELSE graph.cite[c]
    BY <1>1, WithoutDoes
  <2> HIDE DEF h
  <2>3. None \notin rows /\ rows \cap Entities = {}
    BY Apart DEF Claims
  <2>4. ASSUME NEW r \in Relations PROVE Names(graph.relation[r]) \cap rows = {}
    <3>1. graph.relation[r] \in RelationRows
      BY <1>1, PartsOf
    <3>2. Names(graph.relation[r]) \subseteq Entities \cup {None}
      BY <3>1 DEF RelationRows, Names
    <3> QED BY <2>3, <3>2
  <2>5. ASSUME NEW i \in Items PROVE graph.item[i].subject \notin rows
    <3>1. graph.item[i] \in ItemRows
      BY <1>1, PartsOf
    <3>2. graph.item[i].subject \in Entities \cup {None}
      BY <3>1 DEF ItemRows
    <3> QED BY <2>3, <3>2
  <2>6. Drops(graph, h, rows, cut)
    BY <2>2, <2>3, <2>4, <2>5 DEF Drops
  <2>7. /\ Whole(graph, merges, proposal) => Whole(h, merges, proposal)
        /\ \A c \in Cites : Fresh(graph, merges, c) => Fresh(h, merges, c)
    BY <1>1, <2>6, DropsWhole
  <2>8. \A c \in Cites : There(h, c) => There(graph, c)
    BY <2>2, Apart DEF There, Loses, Cites, Rows
  <2> QED BY <1>1, <2>1, <2>7, <2>8, FineNext DEF Fine
<1> QED BY <1>2, <1>3

\* The items about those it forgets.
LEMMA ForgetItemsFine ==
  ASSUME Sound, Fine, ForgetItems
  PROVE  Fine'
<1> DEFINE rows == {i \in Items : graph.item[i].subject \in forgetting.set}
<1>1. forgetting.step = "items" /\ Drain(rows, "relations")
  BY DEF ForgetItems, At
<1>2. Cleared'
  <2>1. CASE rows = {}
    <3>1. forgetting' = [forgetting EXCEPT !.step = "relations"] /\ graph' = graph
      BY <1>1, <2>1 DEF Drain, Onto, vars
    <3>2. forgetting'.step = "relations" /\ forgetting'.set = forgetting.set
      BY <3>1 DEF Sound, Gone
    <3> QED BY <2>1, <3>1, <3>2 DEF Cleared
  <2>2. CASE rows # {}
    <3>1. forgetting' = forgetting
      BY <1>1, <2>2 DEF Drain
    <3> QED BY <1>1, <3>1 DEF Cleared
  <2> QED BY <2>1, <2>2
<1>3. rows \subseteq Claims
  BY DEF Claims
<1> HIDE DEF rows
<1> QED BY <1>1, <1>2, <1>3, DrainFine

\* The relations that name them.
LEMMA ForgetRelationsFine ==
  ASSUME Sound, Fine, ForgetRelations
  PROVE  Fine'
<1> DEFINE rows == {r \in Relations : Names(graph.relation[r]) \cap forgetting.set # {}}
<1>1. forgetting.step = "relations" /\ Drain(rows, "rows")
  BY DEF ForgetRelations, At
<1>2. \A i \in Items : graph.item[i].subject \notin forgetting.set
  BY <1>1 DEF Fine, Cleared
<1>3. Cleared'
  <2>1. CASE rows = {}
    <3>1. forgetting' = [forgetting EXCEPT !.step = "rows"] /\ graph' = graph
      BY <1>1, <2>1 DEF Drain, Onto, vars
    <3>2. forgetting'.step = "rows" /\ forgetting'.set = forgetting.set
      BY <3>1 DEF Sound, Gone
    <3> QED BY <1>2, <2>1, <3>1, <3>2 DEF Cleared
  <2>2. CASE rows # {}
    <3>1. forgetting' = forgetting /\ graph' = Without(rows)
      BY <1>1, <2>2 DEF Drain, Deletes
    <3>2. Loses(graph, Without(rows), rows)
      BY SoundParts, WithoutDoes
    <3>3. None \notin forgetting.set
      BY Apart DEF Sound, Gone
    <3>4. \A i \in Items : graph'.item[i].subject \notin forgetting.set
      BY <1>2, <3>1, <3>2, <3>3 DEF Loses
    <3> QED BY <1>1, <3>1, <3>4 DEF Cleared
  <2> QED BY <2>1, <2>2
<1>4. rows \subseteq Claims
  BY DEF Claims
<1> HIDE DEF rows
<1> QED BY <1>1, <1>3, <1>4, DrainFine

\* The records of the merges of some entities go.
LEMMA MergesWithoutFewer ==
  ASSUME merges \in Seq(MergeRecords), NEW F
  PROVE  MergesWithout(F) \in Seq(MergeRecords) /\ Fewer(merges, MergesWithout(F))
<1> DEFINE less == MergesWithout(F)
           N == Len(merges)
<1>1. DOMAIN merges = 1..N /\ N \in Nat
  OBVIOUS
<1>2. ASSUME NEW n \in 1..N
      PROVE  /\ less[n] \in MergeRecords
             /\ less[n].m = merges[n].m /\ less[n].s = merges[n].s /\ less[n].cites = merges[n].cites
             /\ less[n].from = merges[n].from /\ less[n].to = merges[n].to /\ less[n].subj = merges[n].subj
             /\ less[n].loops = merges[n].loops /\ less[n].folds = merges[n].folds
             /\ less[n].twins = merges[n].twins
             /\ merges[n].reversed => less[n].reversed
  <2> DEFINE v == merges[n]
             w == [v EXCEPT !.reversed = TRUE]
  <2>1. v \in MergeRecords /\ n \in DOMAIN merges
    BY <1>1
  <2>2. less[n] = IF {merges[n].m, merges[n].s} \cap F # {}
                  THEN [merges[n] EXCEPT !.reversed = TRUE] ELSE merges[n]
    BY <2>1, Zenon DEF MergesWithout
  <2>3. less[n] \in {v, w}
    BY <2>2
  <2> HIDE DEF less, v
  <2>4. /\ w \in MergeRecords /\ w.m = v.m /\ w.s = v.s /\ w.cites = v.cites
        /\ w.from = v.from /\ w.to = v.to /\ w.subj = v.subj /\ w.loops = v.loops
        /\ w.folds = v.folds /\ w.twins = v.twins /\ w.reversed
    BY <2>1 DEF MergeRecords
  <2> HIDE DEF w
  <2> QED BY <2>1, <2>3, <2>4 DEF v
<1>3. less = [n \in 1..N |-> less[n]]
  BY <1>1 DEF MergesWithout
<1> HIDE DEF less, N
<1>4. less \in [1..N -> MergeRecords]
  BY <1>2, <1>3
<1>5. less \in Seq(MergeRecords) /\ Len(less) = N
  BY <1>1, <1>4
<1> QED BY <1>2, <1>5 DEF Fewer, less, N

\* The records of their merges.
LEMMA ForgetRowsFine ==
  ASSUME Sound, Fine, ForgetRows
  PROVE  Fine'
<1> DEFINE less == MergesWithout(forgetting.set)
<1>1. /\ forgetting' = [forgetting EXCEPT !.step = "drafts"] /\ forgetting.step = "rows"
      /\ merges' = less /\ UNCHANGED <<graph, proposal, plan>>
  BY DEF ForgetRows, At, Onto, Deletes, MergesWithout
<1>2. Fewer(merges, less)
  BY SoundParts, MergesWithoutFewer
<1> HIDE DEF less
<1>3. /\ Whole(graph, merges, proposal) => Whole(graph, less, proposal)
      /\ \A c : Fresh(graph, merges, c) => Fresh(graph, less, c)
  BY <1>2, FewerWhole
<1>4. Cleared'
  <2>1. forgetting'.step = "drafts" /\ forgetting'.set = forgetting.set
    BY <1>1 DEF Sound, Gone
  <2> QED BY <1>1, <2>1 DEF Fine, Cleared
<1>5. Types
  BY DEF Sound
<1> QED BY <1>1, <1>3, <1>4, <1>5, FineNext DEF Fine

\* The rows of drafts that name them.
LEMMA ForgetDraftsFine ==
  ASSUME Sound, Fine, ForgetDrafts
  PROVE  Fine'
<1> DEFINE left(p) == {n \in 1..Len(plan[p]) :
                         {plan[p][n].target, plan[p][n].from, plan[p][n].to} \cap forgetting.set = {}}
<1>1. /\ forgetting' = [forgetting EXCEPT !.step = "entities"] /\ forgetting.step = "drafts"
      /\ UNCHANGED <<graph, proposal, merges>>
      /\ plan' = [p \in Proposals |-> IF proposal[p].status # "draft" THEN plan[p]
                                      ELSE Picked(plan[p], left(p))]
  BY DEF ForgetDrafts, At, Onto, Deletes
<1> HIDE DEF left
<1>2. plan \in [Proposals -> Seq(PlanRows)] /\ Types
  BY DEF Sound, Types
<1>3. ASSUME NEW p \in Proposals
      PROVE  \A n \in 1..Len(plan'[p]) : \E k \in 1..Len(plan[p]) : plan'[p][n] = plan[p][k]
  <2>1. plan'[p] = plan[p] \/ plan'[p] = Picked(plan[p], left(p))
    BY <1>1
  <2>2. CASE plan'[p] = plan[p]
    BY <2>2
  <2>3. CASE plan'[p] = Picked(plan[p], left(p))
    <3> DEFINE s == plan[p]
               I == left(p)
    <3>1. s \in Seq(PlanRows) /\ plan'[p] = Picked(s, I)
      BY <1>2, <2>3
    <3> HIDE DEF s, I
    <3>2. \A n \in 1..Len(Picked(s, I)) : \E k \in 1..Len(s) : k \in I /\ Picked(s, I)[n] = s[k]
      BY <3>1, PickedTyped
    <3> QED BY <3>1, <3>2 DEF s
  <2> QED BY <2>1, <2>2, <2>3
<1>4. Cleared'
  <2>1. forgetting'.step = "entities" /\ forgetting'.set = forgetting.set
    BY <1>1 DEF Sound, Gone
  <2> QED BY <1>1, <2>1 DEF Fine, Cleared
<1>5. Whole(graph', merges', proposal')
  BY <1>1 DEF Fine
<1>6. \A c \in Cites : Fresh(graph, merges, c) => Fresh(graph', merges', c)
  BY <1>1
<1> QED BY <1>1, <1>2, <1>3, <1>4, <1>5, <1>6, FineNext

\* The entities, whom nothing names by then.
LEMMA ForgetEntitiesFine ==
  ASSUME Sound, Fine, ForgetEntities
  PROVE  Fine'
<1> DEFINE F == forgetting.set
           less == MergesWithout(F)
           left == WithoutRows(graph, F)
           cite == [c \in Cites |-> IF graph.cite[c] \in F THEN None ELSE graph.cite[c]]
           h == [left EXCEPT !.cite = cite]
           cut == {}
<1>0. /\ graph \in Graphs /\ NamesWell(graph, {}) /\ merges \in Seq(MergeRecords) /\ Types
      /\ F \subseteq Entities /\ forgetting.step = "entities"
  BY SoundParts DEF Sound, Gone, ForgetEntities, At
<1>1. left \in Graphs /\ left.cite = graph.cite /\ Loses(graph, left, F)
  BY <1>0, WithoutRowsDoes
<1>2. forgetting' = Idle /\ graph' = h /\ merges' = less /\ UNCHANGED <<proposal, plan>>
  <2>1. graph' = [left EXCEPT !.cite = [c \in Cites |-> IF @[c] \in F THEN None ELSE @[c]]]
    BY DEF ForgetEntities, Deletes
  <2> HIDE DEF left
  <2>2. [left EXCEPT !.cite = [c \in Cites |-> IF @[c] \in F THEN None ELSE @[c]]] = h
    BY <1>1
  <2> QED BY <2>1, <2>2 DEF ForgetEntities, Deletes, MergesWithout
<1> HIDE DEF left
<1>3. h.cite = cite /\ Loses(graph, h, F)
  <2>1. h.cite = cite /\ h.entity = left.entity /\ h.relation = left.relation /\ h.item = left.item
    BY <1>1 DEF Graphs
  <2> HIDE DEF h
  <2> QED BY <1>1, <2>1 DEF Loses
<1>4. \A c \in Cites : h.cite[c] = IF graph.cite[c] \in F THEN None ELSE graph.cite[c]
  BY <1>3
<1> HIDE DEF h, cite
<1>5. /\ \A i \in Items : graph.item[i].subject \notin F
      /\ \A r \in Relations : Names(graph.relation[r]) \cap F = {}
  BY <1>0 DEF Fine, Cleared
<1>6. Drops(graph, h, F, cut)
  BY <1>0, <1>3, <1>4, <1>5, Apart DEF Drops
<1>7. less \in Seq(MergeRecords) /\ Fewer(merges, less)
  BY <1>0, MergesWithoutFewer
<1> HIDE DEF less, F, cut
<1>8. /\ Whole(graph, merges, proposal) => Whole(graph, less, proposal)
      /\ \A c : Fresh(graph, merges, c) => Fresh(graph, less, c)
  BY <1>7, FewerWhole
<1>9. /\ Whole(graph, less, proposal) => Whole(h, less, proposal)
      /\ \A c \in Cites : Fresh(graph, less, c) => Fresh(h, less, c)
  BY <1>0, <1>6, <1>7, DropsWhole
<1>10. \A c \in Cites : There(h, c) => There(graph, c)
  BY <1>3, Apart DEF There, Loses, Cites, Rows
<1>11. Cleared'
  BY <1>2 DEF Cleared, Idle
<1> QED BY <1>0, <1>2, <1>8, <1>9, <1>10, <1>11, FineNext DEF Fine

\* A step that leaves all that is written alone.
LEMMA SameFine ==
  ASSUME Sound, Fine, UNCHANGED <<graph, proposal, merges, plan>>, Cleared'
  PROVE  Fine'
<1>1. Whole(graph', merges', proposal')
  BY DEF Fine
<1>2. \A c \in Cites : Fresh(graph, merges, c) => Fresh(graph', merges', c)
  OBVIOUS
<1>3. Types
  BY DEF Sound
<1> QED BY <1>1, <1>2, <1>3, FineNext

\* Every step of the job, and its failure.
LEMMA PurgeFine ==
  ASSUME Sound, Fine, Purge
  PROVE  Fine'
<1>1. CASE \E e \in Entities : Forget(e)
  <2>1. UNCHANGED <<graph, proposal, merges, plan>> /\ forgetting'.step = "items"
    BY <1>1 DEF Forget, vars
  <2>2. Cleared'
    BY <2>1 DEF Cleared
  <2> QED BY <2>1, <2>2, SameFine
<1>2. CASE ForgetItems
  BY <1>2, ForgetItemsFine
<1>3. CASE ForgetRelations
  BY <1>3, ForgetRelationsFine
<1>4. CASE ForgetRows
  BY <1>4, ForgetRowsFine
<1>5. CASE ForgetDrafts
  BY <1>5, ForgetDraftsFine
<1>6. CASE ForgetEntities
  BY <1>6, ForgetEntitiesFine
<1>7. CASE Fail
  <2>1. UNCHANGED <<graph, proposal, merges, plan>> /\ forgetting'.step = "idle"
    BY <1>7 DEF Fail, vars, Idle
  <2>2. Cleared'
    BY <2>1 DEF Cleared
  <2> QED BY <2>1, <2>2, SameFine
<1> QED BY <1>1, <1>2, <1>3, <1>4, <1>5, <1>6, <1>7 DEF Purge

\* A step that is nobody's.
LEMMA StutterFine ==
  ASSUME Sound, Fine, UNCHANGED <<vars, forgetVars>>
  PROVE  Fine'
<1>1. UNCHANGED <<graph, proposal, merges, plan, forgetting>>
  BY DEF vars, forgetVars
<1>2. Cleared'
  BY <1>1 DEF Fine, Cleared
<1> QED BY <1>1, <1>2, SameFine

\* A claim that names an entity its revert deletes is of the same commit and goes with it: the
\* entity has no citation but those of its commit, and nothing newer names it.
LEMMA NamedGo ==
  ASSUME Types, NamesWell(graph, {}), Whole(graph, merges, proposal), LogsWell,
         NEW p \in Proposals, Committed(proposal, p), NEW k \in Kinds, NEW r \in Claims, End(k, r),
         NameOf(graph, k, r) \in Standing(p) \ KeptRows(p)
  PROVE  r \in Standing(p) \ KeptRows(p)
<1> DEFINE e == NameOf(graph, k, r)
           changed == {x \in Standing(p) : \/ Touched(graph, x) > proposal[p].at
                                           \/ CitesOf(graph, x) \ Own(p) # {}
                                           \/ x \in Entities /\ EntityMoved(p, x)}
           newer == {y \in Relations : graph.relation[y].born > proposal[p].at}
                      \cup {y \in Items : graph.item[y].born > proposal[p].at}
<1>1. KeptRows(p) = changed \cup (Standing(p) \cap NamedBy(changed))
  BY DEF KeptRows
<1>2. graph \in Graphs /\ proposal[p] \in ProposalRows /\ LogWell(graph, proposal[p].log)
  BY DEF Types, LogsWell
<1>3. e # None
  <2>1. proposal[p].log.created \subseteq Rows
    BY <1>2 DEF ProposalRows, Logs
  <2> QED BY <2>1, Apart DEF Standing
<1>4. e \in Entities /\ StateOf(graph, r) # "none"
  BY <1>2, <1>3, ClaimParts
<1>5. e \in Standing(p) /\ e \notin changed /\ e \notin NamedBy(changed)
  BY <1>1
<1>6. CitesOf(graph, e) \subseteq Own(p) /\ ~EntityMoved(p, e)
  BY <1>4, <1>5
<1>7. ASSUME NEW S, r \in S PROVE e \in NamedBy(S)
  <2>1. CASE k \in {"from", "to"} /\ r \in Relations
    <3>1. e \in Names(graph.relation[r])
      BY <2>1 DEF NameOf, Names
    <3> QED BY <1>7, <2>1, <3>1 DEF NamedBy
  <2>2. CASE k = "subj" /\ r \in Items
    <3>1. e = graph.item[r].subject
      BY <2>2 DEF NameOf
    <3> QED BY <1>7, <2>2, <3>1 DEF NamedBy
  <2> QED BY <2>1, <2>2 DEF End
<1>8. EntityMoved(p, e) <=> \/ graph.entity[e].state = "merged"
                            \/ \E n \in 1..Len(merges) : /\ ~merges[n].reversed
                                                         /\ merges[n].at > proposal[p].at
                                                         /\ e \in {merges[n].m, merges[n].s}
                            \/ e \in NamedBy(newer)
  BY DEF EntityMoved
<1> HIDE DEF e, changed
<1>9. r \notin newer
  BY <1>6, <1>7, <1>8
<1> HIDE DEF newer
<1>10. BornOf(graph, r) <= proposal[p].at
  <2>1. proposal[p].at \in Nat
    BY <1>2 DEF ProposalRows
  <2>2. CASE r \in Relations
    <3>1. graph.relation[r] \in RelationRows
      BY <1>2, <2>2, PartsOf
    <3>2. BornOf(graph, r) = graph.relation[r].born /\ graph.relation[r].born \in Nat
      BY <2>2, <3>1 DEF RelationRows, BornOf
    <3> QED BY <1>9, <2>1, <2>2, <3>2 DEF newer
  <2>3. CASE r \in Items
    <3>1. graph.item[r] \in ItemRows
      BY <1>2, <2>3, PartsOf
    <3>2. BornOf(graph, r) = graph.item[r].born /\ graph.item[r].born \in Nat
      BY <2>3, <3>1, Apart DEF ItemRows, BornOf
    <3> QED BY <1>9, <2>1, <2>3, <3>2 DEF newer
  <2> QED BY <2>2, <2>3 DEF Claims
<1>11. PICK c \in Entities : Shadows(graph, merges, proposal, k, r, c)
  BY <1>3 DEF Whole, Shadowed, e
<1>12. c \in proposal[p].log.created
  <2>1. c \in Own(p)
    BY <1>6, <1>11, Apart DEF Shadows, CitesOf, e
  <2> QED BY <1>2, <2>1 DEF LogWell, Own
<1>13. r \in proposal[p].log.created
  BY <1>10, <1>11, <1>12 DEF Shadows
<1>14. There(graph, r)
  BY <1>2, <1>4, ClaimParts
<1>15. r \in Standing(p)
  BY <1>13, <1>14 DEF Standing
<1>16. r \notin changed
  BY <1>5, <1>7
<1>17. r \notin NamedBy(changed)
  <2>1. \A y \in Relations : Names(graph.relation[y]) \subseteq Entities \cup {None}
    BY <1>2, PartsOf DEF Names, RelationRows
  <2>2. \A y \in Items : graph.item[y].subject \in Entities \cup {None}
    BY <1>2, PartsOf DEF ItemRows
  <2>3. r \notin Entities \cup {None}
    BY Apart DEF Claims
  <2> QED BY <2>1, <2>2, <2>3 DEF NamedBy
<1> QED BY <1>1, <1>15, <1>16, <1>17

\* A proposal is reverted: what its deleted rows named goes with them, and an item that it had
\* superseded is there to be restored.
LEMMA RevertFine ==
  ASSUME Sound, Fine, At("idle"), NEW p \in Proposals, NEW confirm, Revert(p, confirm), UNCHANGED forgetVars
  PROVE  Fine'
<1>0. /\ graph \in Graphs /\ merges \in Seq(MergeRecords) /\ clock \in Nat /\ Len(merges) \in Nat
      /\ proposal \in [Proposals -> ProposalRows] /\ proposal[p].log \in Logs
      /\ Types /\ NamesWell(graph, {}) /\ Tombs(graph, merges) /\ Since
      /\ Whole(graph, merges, proposal) /\ LogsWell
  <2>1. proposal[p] \in ProposalRows
    BY SoundParts
  <2> QED BY <2>1, SoundParts DEF Sound, ProposalRows, Fine
<1>1. PICK order \in Orderings(proposal[p].log.merges) :
       LET kept == KeptRows(p)
           x    == MergesBack(order)
           rows == Standing(p) \ kept
           cut  == Deletable(x.graph, {c \in proposal[p].log.added : x.graph.cite[c] # None})
           bare == [x.graph EXCEPT !.cite = [c \in Cites |-> IF c \in cut \/ @[c] \in rows THEN None
                                                             ELSE @[c]]]
       IN  /\ Writes(None, Restored(WithoutRows(bare, rows), p, kept))
           /\ merges' = x.merges
  BY DEF Revert
<1> DEFINE log  == proposal[p].log
           kept == KeptRows(p)
           x    == MergesBack(order)
           g    == x.graph
           ms   == x.merges
           rows == Standing(p) \ kept
           cut  == Deletable(g, {c \in proposal[p].log.added : g.cite[c] # None})
           cite == [c \in Cites |-> IF c \in cut \/ g.cite[c] \in rows THEN None ELSE g.cite[c]]
           bare == [g EXCEPT !.cite = cite]
           left == WithoutRows(bare, rows)
           h    == Restored(left, p, kept)
           back == [proposal[p] EXCEPT !.status = "reverted"]
           pr   == [proposal EXCEPT ![p] = back]
<1>2. /\ graph' = h /\ plan' = plan /\ merges' = ms /\ proposal' = pr
      /\ Committed(proposal, p) /\ LogWell(graph, log)
  BY <1>0, <1>1 DEF Revert, Writes, Committed, LogsWell
<1>3. After(proposal[p], merges, clock)
  BY <1>0, <1>2 DEF Since, Committed
<1>4. TakenBack(g, ms) /\ (log.merges = {} => g = graph /\ ms = merges)
  <2> DEFINE S == log.merges
  <2>1. S \in SUBSET (1..Len(merges)) /\ order \in Orderings(S)
    BY <1>3 DEF After
  <2> HIDE DEF S
  <2>2. TakenBack(g, ms) /\ (S = {} => g = graph /\ ms = merges)
    BY <1>0, <2>1, MergesBackDoes
  <2> QED BY <2>2 DEF S
<1> HIDE DEF x, g, ms
<1>5. /\ g \in Graphs /\ ms \in Seq(MergeRecords) /\ NamesWell(g, {})
      /\ SameRows(graph, g) /\ Whole(g, ms, proposal)
      /\ \A c \in Cites : Fresh(graph, merges, c) => Fresh(g, ms, c)
  BY <1>0, <1>4 DEF TakenBack, Paired
<1>6. /\ None \notin rows /\ rows \subseteq log.created /\ cut \subseteq log.added
      /\ log.created \subseteq Rows /\ log.added \subseteq Cites
  BY <1>0, Apart DEF Standing, Logs, Deletable
<1>7. log.merges # {} => log.created = {} /\ log.added = {} /\ log.changes = <<>>
  BY <1>2 DEF LogWell
<1>8. ASSUME NEW k \in Kinds, NEW r \in Claims, End(k, r), NameOf(g, k, r) \in rows
      PROVE  r \in rows
  <2>1. g = graph
    BY <1>4, <1>6, <1>7, <1>8
  <2> QED BY <1>0, <1>2, <1>8, <2>1, NamedGo
<1>9. pr \in [Proposals -> ProposalRows] /\ pr[p].status = "reverted"
      /\ \A q \in Proposals : q # p => pr[q] = proposal[q]
  <2>1. proposal[p] \in ProposalRows
    BY <1>0
  <2>2. back \in ProposalRows /\ back.status = "reverted"
    BY <2>1 DEF ProposalRows
  <2> HIDE DEF back
  <2> QED BY <1>0, <2>2
<1> HIDE DEF rows, kept, cut, pr, log
<1>10. /\ bare \in Graphs /\ bare.cite = cite /\ bare.entity = g.entity
       /\ bare.relation = g.relation /\ bare.item = g.item
  <2>1. cite \in Citations
    <3>1. g.cite \in Citations
      BY <1>5, PartsOf
    <3> QED BY <3>1, CitationsOf
  <2> HIDE DEF cite
  <2> QED BY <1>5, <2>1 DEF Graphs
<1>11. \A c \in Cites : cite[c] = IF c \in cut \/ g.cite[c] \in rows THEN None ELSE g.cite[c]
  OBVIOUS
<1> HIDE DEF cite, bare
<1>12. left \in Graphs /\ left.cite = cite /\ Loses(g, left, rows)
  <2>1. left \in Graphs /\ left.cite = bare.cite /\ Loses(bare, left, rows)
    BY <1>10, WithoutRowsDoes
  <2> HIDE DEF left
  <2> QED BY <1>10, <2>1 DEF Loses
<1> HIDE DEF left
<1>13. /\ \A r \in Relations : Names(g.relation[r]) \cap rows # {} => r \in rows
       /\ \A i \in Items : g.item[i].subject \in rows => i \in rows
  <2>1. ASSUME NEW r \in Relations, Names(g.relation[r]) \cap rows # {} PROVE r \in rows
    <3>1. NameOf(g, "from", r) = g.relation[r].from /\ NameOf(g, "to", r) = g.relation[r].to
      BY DEF NameOf
    <3>2. "from" \in Kinds /\ "to" \in Kinds /\ End("from", r) /\ End("to", r) /\ r \in Claims
      BY DEF Kinds, End, Claims
    <3>3. NameOf(g, "from", r) \in rows \/ NameOf(g, "to", r) \in rows
      BY <2>1, <3>1 DEF Names
    <3> QED BY <1>8, <3>2, <3>3
  <2>2. ASSUME NEW i \in Items, g.item[i].subject \in rows PROVE i \in rows
    <3>1. NameOf(g, "subj", i) = g.item[i].subject
      BY DEF NameOf
    <3>2. "subj" \in Kinds /\ End("subj", i) /\ i \in Claims
      BY DEF Kinds, End, Claims
    <3> QED BY <1>8, <2>2, <3>1, <3>2
  <2> QED BY <2>1, <2>2
<1>14. cut \cap Entities = {} /\ \A c \in cut : ~There(g, c)
  <2>1. \A c \in cut : c \in Cites /\ c \notin Entities /\ ~There(graph, c)
    BY <1>2, <1>6 DEF LogWell
  <2> QED BY <1>5, <2>1 DEF SameRows
<1>15. Drops(g, left, rows, cut)
  BY <1>6, <1>11, <1>12, <1>13, <1>14 DEF Drops
<1>16. /\ h \in Graphs /\ h.entity = left.entity /\ h.cite = left.cite
       /\ \A r \in Relations : /\ h.relation[r].from = left.relation[r].from
                               /\ h.relation[r].to = left.relation[r].to
                               /\ h.relation[r].state = left.relation[r].state
                               /\ h.relation[r].born = left.relation[r].born
       /\ \A i \in Items : /\ h.item[i].subject = left.item[i].subject
                           /\ h.item[i].born = left.item[i].born
                           /\ \/ h.item[i].state = left.item[i].state
                              \/ h.item[i].state = "live" /\ There(graph, i) /\ Undone(p, i)
  BY <1>0, <1>12, RestoredDoes
<1> HIDE DEF h
<1>17. ASSUME NEW i \in Items, Undone(p, i) PROVE left.item[i].state \in {"live", "superseded"}
  <2>1. PICK n \in 1..Len(log.changes) : log.changes[n].row = i /\ graph.item[i].state = log.changes[n].after.state
    BY <1>17 DEF Undone, log
  <2>2. graph.item[i].state \in {"live", "superseded"} /\ i \notin log.created
    BY <1>2, <2>1 DEF LogWell
  <2>3. log.changes # <<>>
    BY <2>1
  <2>4. g = graph
    BY <1>4, <1>7, <2>3
  <2>5. i \notin rows /\ g.item[i].subject \notin rows
    BY <1>6, <1>13, <2>2
  <2> QED BY <1>12, <2>2, <2>4, <2>5 DEF Loses
<1>18. Agrees(left, h)
  <2>1. \A i \in Items : \/ h.item[i].state = left.item[i].state
                         \/ {left.item[i].state, h.item[i].state} \cap {"none", "merged"} = {}
    <3> SUFFICES ASSUME NEW i \in Items, h.item[i].state # left.item[i].state
                 PROVE  {left.item[i].state, h.item[i].state} \cap {"none", "merged"} = {}
      OBVIOUS
    <3>1. h.item[i].state = "live" /\ Undone(p, i)
      BY <1>16
    <3>2. left.item[i].state \in {"live", "superseded"}
      BY <1>17, <3>1
    <3> QED BY <3>1, <3>2
  <2> QED BY <1>16, <2>1, RowsAgree
<1>19. Whole(g, ms, pr)
  <2>1. \A q \in Proposals : Committed(pr, q) =>
          Committed(proposal, q) /\ pr[q].at = proposal[q].at /\ pr[q].log = proposal[q].log
    BY <1>9 DEF Committed
  <2>2. Fewer(ms, ms)
    BY DEF Fewer
  <2> QED BY <1>5, <2>1, <2>2, FewerWhole
<1>20. Whole(h, ms, pr) /\ \A c \in Cites : Fresh(graph, merges, c) => Fresh(h, ms, c)
  <2>1. Whole(left, ms, pr) /\ \A c \in Cites : Fresh(g, ms, c) => Fresh(left, ms, c)
    BY <1>5, <1>15, <1>19, DropsWhole
  <2>2. Whole(h, ms, pr) /\ \A c \in Cites : Fresh(left, ms, c) => Fresh(h, ms, c)
    BY <1>5, <1>12, <1>18, <2>1, AgreesWhole
  <2> QED BY <1>5, <2>1, <2>2
<1>21. ASSUME NEW c \in Cites, There(h, c) PROVE There(graph, c)
  <2>1. There(left, c)
    BY <1>18, <1>21 DEF Agrees
  <2>2. There(g, c)
    BY <1>12, <2>1, Apart DEF There, Loses, Cites, Rows
  <2> QED BY <1>5, <2>2 DEF SameRows
<1>22. \A q \in Proposals : proposal'[q] = proposal[q] \/ proposal'[q].status = "reverted"
  BY <1>2, <1>9
<1> QED BY <1>2, <1>20, <1>21, <1>22, IdleFine

\* Whoever writes besides the job.
LEMMA OthersFine ==
  ASSUME Sound, Fine, At("idle"), Others
  PROVE  Fine'
<1>1. Next /\ UNCHANGED forgetVars
  BY DEF Others
<1>2. CASE \E p \in Proposals : Commit(p)
  BY <1>1, <1>2, CommitFine
<1>3. CASE \E p \in Proposals : \E confirm \in BOOLEAN : Revert(p, confirm)
  BY <1>1, <1>3, RevertFine
<1>4. CASE \E m, s \in Entities : Merge(m, s)
  BY <1>1, <1>4, MergeFine
<1>5. CASE \E n \in 1..Len(merges) : Reverse(n)
  BY <1>1, <1>5, ReverseFine
<1>6. CASE \E e \in Entities : EditEntity(e)
  BY <1>1, <1>6, EditFine
<1>7. CASE \E r \in Relations : RetractRelation(r)
  BY <1>1, <1>7, RetractFine
<1>8. CASE \E l \in Lessons : MarkDistinct(l)
  BY <1>1, <1>8, DistinctFine
<1> QED BY <1>1, <1>2, <1>3, <1>4, <1>5, <1>6, <1>7, <1>8 DEF Next

\* Every scene begins with every name backed and every new name unknown.
LEMMA InitFine ==
  ASSUME ForgetInit
  PROVE  Fine
<1>1. PICK s \in Scenes : graph = s.graph /\ plan = s.plan
  BY DEF ForgetInit, Init
<1>2. proposal = [p \in Proposals |-> NoProposal] /\ merges = <<>> /\ forgetting = Idle
  BY DEF ForgetInit, Init
<1>3. graph \in GraphRows /\ Settled(graph) /\ plan \in [Proposals -> Seq(PlanRows)]
  BY <1>1, SceneAssumption
<1>4. /\ graph \in Graphs /\ NamesWell(graph, {})
      /\ \A c \in Cites : graph.cite[c] = IF There(graph, c) THEN c ELSE None
  BY <1>3, SettledIs DEF Settled
<1>5. \A p \in Proposals : ~Committed(proposal, p)
  BY <1>2 DEF Committed, NoProposal
<1>6. ~\E n : Stands(merges, n)
  BY <1>2 DEF Stands
<1>7. ASSUME NEW e \in Entities, Live(graph.entity[e]) PROVE graph.cite[e] = e
  <2>1. There(graph, e) /\ e \in Cites
    BY <1>7, Apart DEF There, Live
  <2> QED BY <1>4, <2>1
<1>8. OwnCites(graph, merges)
  BY <1>2, <1>7 DEF OwnCites
<1>9. Shadowed(graph, merges, proposal)
  <2> SUFFICES ASSUME NEW k \in Kinds, NEW r \in Claims, End(k, r), NameOf(graph, k, r) # None
               PROVE  \E c \in Entities : Shadows(graph, merges, proposal, k, r, c)
    BY DEF Shadowed
  <2> DEFINE e == NameOf(graph, k, r)
  <2>1. e \in Entities /\ Live(graph.entity[e])
    BY <1>4, ClaimParts
  <2>2. graph.cite[e] = e
    BY <1>7, <2>1
  <2>3. Shadows(graph, merges, proposal, k, r, e)
    BY <1>5, <1>6, <2>2 DEF Shadows
  <2> QED BY <2>1, <2>3
<1>10. ASSUME NEW y \in Claims, StateOf(graph, y) # "none" PROVE graph.cite[y] = y
  <2>1. There(graph, y) /\ y \in Cites
    BY <1>4, <1>10, ClaimParts
  <2> QED BY <1>4, <2>1
<1>11. OwnRows(graph, merges) /\ LoopsHold(graph, merges) /\ KeptBack(merges)
  BY <1>6, <1>10 DEF OwnRows, LoopsHold, KeptBack
<1>12. CitesHold(graph, merges)
  <2> SUFFICES ASSUME NEW c \in Claims, graph.cite[c] # None PROVE StateOf(graph, graph.cite[c]) # "none"
    BY DEF CitesHold
  <2>1. c \in Cites /\ (There(graph, c) <=> StateOf(graph, c) # "none")
    BY <1>4, ClaimParts
  <2> QED BY <1>4, <2>1
<1>13. Whole(graph, merges, proposal)
  BY <1>8, <1>9, <1>11, <1>12 DEF Whole
<1>14. LogsWell
  BY <1>5 DEF LogsWell
<1>15. Unused
  <2> SUFFICES ASSUME NEW p \in Proposals, NEW n \in 1..Len(plan[p]), plan[p][n].name # None
               PROVE  /\ Fresh(graph, merges, plan[p][n].name)
                      /\ \A k \in 1..Len(plan[p]) : plan[p][k].kind = "item" =>
                           plan[p][k].target # plan[p][n].name
    BY <1>5 DEF Unused
  <2>1. plan[p][n] \in PlanRows
    BY <1>3
  <2>2. plan[p][n].name \in Cites
    BY <2>1 DEF PlanRows
  <2>3. /\ ~There(graph, plan[p][n].name)
        /\ \A k \in 1..Len(plan[p]) : plan[p][k].kind = "item" => plan[p][k].target # plan[p][n].name
    BY <1>1, SceneAssumption
  <2>4. Fresh(graph, merges, plan[p][n].name)
    BY <1>4, <1>6, <2>2, <2>3 DEF Fresh
  <2> QED BY <2>3, <2>4
<1>16. Cleared
  BY <1>2 DEF Cleared, Idle
<1> QED BY <1>13, <1>14, <1>15, <1>16 DEF Fine

\* What is backed is no orphan.
LEMMA WholeNoOrphans ==
  ASSUME graph \in Graphs, NamesWell(graph, {}), Whole(graph, merges, proposal)
  PROVE  NoOrphans
<1>1. \A x : BackIn(merges, x) => GivenBack(x)
  BY DEF BackIn, GoneIn, GivenBack
<1>2. OwnCites(graph, merges) /\ OwnRows(graph, merges) /\ CitesHold(graph, merges)
  BY DEF Whole
<1>3. ASSUME NEW x \in Uncited(graph) PROVE GivenBack(x)
  <2>1. CASE x \in Entities /\ Live(graph.entity[x]) /\ CitesOf(graph, x) = {}
    <3>1. graph.cite[x] = x
      BY <1>2, <2>1 DEF OwnCites
    <3> QED BY <2>1, <3>1, Apart DEF CitesOf
  <2>2. CASE x \in Claims /\ StateOf(graph, x) = "live" /\ CitesOf(graph, x) = {}
    <3>1. graph.cite[x] = x \/ BackIn(merges, x)
      BY <1>2, <2>2 DEF OwnRows
    <3> QED BY <1>1, <2>2, <3>1, Apart DEF CitesOf, Claims
  <2> QED BY <2>1, <2>2, Apart DEF Uncited, Claims, StateOf, Live
<1>4. ASSUME NEW c \in Cites, graph.cite[c] # None
      PROVE  There(graph, graph.cite[c]) \/ GivenBack(graph.cite[c])
  <2>1. CASE c \in Claims
    <3>1. graph.cite[c] \in Claims /\ (There(graph, graph.cite[c]) <=> StateOf(graph, graph.cite[c]) # "none")
      BY <1>4, <2>1, ClaimParts
    <3> QED BY <1>1, <1>2, <1>4, <2>1, <3>1 DEF CitesHold
  <2>2. CASE c \in Entities \cup Links
    <3>1. graph.cite[c] \in Entities
      BY <1>4, <2>2, CiteKinds
    <3>2. Live(graph.entity[graph.cite[c]])
      BY <3>1 DEF NamesWell
    <3> QED BY <3>1, <3>2, Apart DEF There, Live
  <2> QED BY <2>1, <2>2 DEF Cites, Rows, Claims
<1> QED BY <1>3, <1>4 DEF NoOrphans

-------------------------------------------------------------------------------
(* Theorems.                                                               *)

\* Sound holds whoever writes and however often the job runs or fails.
THEOREM SoundAlways == ForgetSpec => []Sound
<1>1. ForgetInit => Sound
  BY InitSound
<1>2. Sound /\ [Purge \/ Others]_<<vars, forgetVars>> => Sound'
  BY OthersSound, PurgeSound, StutterSound
<1> QED BY <1>1, <1>2, PTL DEF ForgetSpec

\* While a job has the graph to itself, every step is one that anyone could take.
THEOREM QuietIsForget == QuietSpec => ForgetSpec
<1>1. [Purge \/ (At("idle") /\ Others)]_<<vars, forgetVars>> => [Purge \/ Others]_<<vars, forgetVars>>
  OBVIOUS
<1> QED BY <1>1, PTL DEF QuietSpec, ForgetSpec

\* Quiet holds if nobody else writes while a job runs.
THEOREM QuietAlways == QuietSpec => [](Sound /\ Quiet)
<1>1. ForgetInit => Sound /\ Quiet
  BY InitSound
<1>2. Sound /\ Quiet /\ [Purge \/ (At("idle") /\ Others)]_<<vars, forgetVars>> => Sound' /\ Quiet'
  BY OthersSound, OthersQuiet, PurgeSound, StutterSound
<1> QED BY <1>1, <1>2, PTL DEF QuietSpec

\* The graph and the proposals keep their types through every commit, revert, merge and
\* reversal (proposal-commit.service.ts, proposal-revert.service.ts, merge.service.ts) and
\* every step of the job (kg-purge.service.ts), from whatever scene.
THEOREM GraphTypeOKHolds == ForgetSpec => []GraphTypeOK
<1>1. Sound => GraphTypeOK
  <2> SUFFICES ASSUME Sound PROVE GraphTypeOK
    OBVIOUS
  <2>1. graph \in GraphRows
    BY SoundParts DEF Graphs, GraphRows, Citations
  <2>2. \A p \in Proposals : proposal[p].status \in {"draft", "committed", "reverted"}
    BY SoundParts DEF ProposalRows
  <2> QED BY <2>1, <2>2 DEF Sound, Types, GraphTypeOK
<1> QED BY <1>1, SoundAlways, PTL

\* What is live names what is live: no merge, reversal, commit, revert or half-done job leaves
\* a live relation or item on a tombstone or on what was deleted, or a citation with a
\* tombstone, even if the job and the owner write at the same time.
THEOREM NamesLiveHolds == ForgetSpec => []NamesLive
<1>1. Sound => NamesLive
  <2> SUFFICES ASSUME Sound PROVE NamesLive
    OBVIOUS
  <2>1. NamesWell(graph, {})
    BY DEF Sound
  <2>2. \A r \in Relations : Live(graph.relation[r]) =>
          \A e \in Names(graph.relation[r]) : Live(graph.entity[e])
    BY <2>1 DEF NamesWell, Live
  <2> QED BY <2>1, <2>2 DEF NamesWell, NamesLive
<1> QED BY <1>1, SoundAlways, PTL

\* A tombstone can be brought back until someone sets out to forget it, if nobody writes while
\* the job runs: its merge stands, in the records of kg_merges.
THEOREM TombstonesReversibleHolds == QuietSpec => []TombstonesReversible
<1>1. Sound /\ Quiet => TombstonesReversible
  <2> SUFFICES ASSUME Sound, Quiet, NEW e \in Entities \ begun, graph.entity[e].state = "merged"
               PROVE  \E n \in DOMAIN merges : /\ ~merges[n].reversed
                                               /\ merges[n].m = e /\ merges[n].s = graph.entity[e].into
    BY DEF TombstonesReversible
  <2>1. DOMAIN merges = 1..Len(merges)
    BY SoundParts
  <2> QED BY <2>1 DEF Quiet, Recorded, Stands
<1> QED BY <1>1, QuietAlways, PTL

\* Even beside other writers, what is forgotten stays gone: it is not there, no relation or item
\* names it and no merge that stands is about it.  (What such writers can leave behind is a
\* citation, see NoQuoteLeft, and a tombstone without a survivor.)
THEOREM ForgottenStayGone == ForgetSpec => []StayGone
<1> QED BY SoundAlways, GoneIsGone, PTL

\* Once a person is forgotten nothing names them, no tombstone is left of who was merged into
\* them and nothing brings them back, if nobody else writes while the job runs.
THEOREM ForgottenIsGoneHolds == QuietSpec => []ForgottenIsGone
<1>1. Sound /\ Quiet => ForgottenIsGone
  <2> SUFFICES ASSUME Sound, Quiet PROVE ForgottenIsGone
    OBVIOUS
  <2>1. ASSUME NEW e \in Entities \ begun, graph.entity[e].state = "merged"
        PROVE  graph.entity[e].into # None
    <3>1. PICK n \in 1..Len(merges) : merges[n].s = graph.entity[e].into
      BY <2>1 DEF Quiet, Recorded
    <3>2. merges[n] \in MergeRecords
      BY SoundParts
    <3> QED BY <3>1, <3>2, Apart DEF MergeRecords
  <2> QED BY <2>1, GoneIsGone DEF StayGone, ForgottenIsGone
<1> QED BY <1>1, QuietAlways, PTL

\* Every live row keeps a citation and every citation its row, whatever is merged, reversed,
\* committed, reverted and deleted in any order, if nobody else writes while a job runs: but for
\* the duplicates that a reversal has given back (merge.service.ts, proposal-revert.service.ts,
\* kg-purge.service.ts).
THEOREM NoOrphansHolds == QuietSpec => []NoOrphans
<1>1. ForgetInit => Sound /\ Quiet /\ Fine
  BY InitSound, InitFine
<1>2. Sound /\ Quiet /\ Fine /\ [Purge \/ (At("idle") /\ Others)]_<<vars, forgetVars>> =>
        Sound' /\ Quiet' /\ Fine'
  BY OthersSound, OthersQuiet, OthersFine, PurgeSound, PurgeFine, StutterSound, StutterFine
<1>3. Sound /\ Fine => NoOrphans
  BY SoundParts, WholeNoOrphans DEF Sound, Fine
<1> QED BY <1>1, <1>2, <1>3, PTL DEF QuietSpec
==================================================================================
