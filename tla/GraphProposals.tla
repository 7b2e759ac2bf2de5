--------------------------- MODULE GraphProposals ---------------------------
(***************************************************************************)
(* The reviewed graph of one owner and the ways it is changed and changed  *)
(* back: the commit of a proposal and its revert, the merge of two         *)
(* entities and its reversal, and what the owner does by hand in between.  *)
(*                                                                         *)
(* Each of them is one transaction and one action here.  A row that a      *)
(* commit creates takes the name of the proposal row it comes from, and so *)
(* does the one citation a proposal row carries: `cite` says what each     *)
(* citation is about.  `born` and `touched` are created_at and updated_at, *)
(* counted in transactions; that the revert allows a second between the    *)
(* two is left out, so nobody edits a row in the second of its commit.     *)
(***************************************************************************)
EXTENDS Naturals, Sequences, FiniteSets

CONSTANTS Entities, Relations, Items, Links,  \* the names of rows, and of proposal rows that
                                              \* only cite what is there
          Keys, Lessons,  \* props of a relation; aliases, mentions and pairs to be learned
          Proposals, None,
          Persons,        \* the entities of type Person; the others share another type
          Fact,           \* Fact[r]: the type, the start and the identity props of a relation
          Statement,      \* Statement[i]: what an item says
          Scenes,         \* the graphs to begin with and the proposals on the table
          MaxWrites       \* how many transactions there are

Rows  == Entities \cup Relations \cup Items
Cites == Rows \cup Links

ASSUME GraphAssumption ==
  /\ Entities \cap (Relations \cup Items \cup Links) = {}
  /\ Relations \cap (Items \cup Links) = {} /\ Items \cap Links = {}
  /\ None \notin Cites /\ Persons \subseteq Entities /\ MaxWrites \in Nat
  /\ IsFiniteSet(Entities) /\ IsFiniteSet(Relations)

VARIABLES graph,     \* the rows and what is learned
          proposal,  \* proposal[p]: its status, its commit log and when it was committed
          merges,    \* the kg_merges rows, in order
          plan,      \* plan[p]: the rows of p its reviewer accepted, in the order of the commit
          clock,
          last       \* the last transaction: who made it, and the graph before it

vars == <<graph, proposal, merges, plan, clock, last>>

-------------------------------------------------------------------------------
(* The rows.                                                               *)

Statuses == {"open", "done", "dropped", "superseded"}

EntityRows   == [state : {"none", "live", "merged"}, into : Entities \cup {None},
                 born : Nat, touched : Nat]
RelationRows == [state : {"none", "live", "merged", "rejected"},
                 from : Entities \cup {None}, to : Entities \cup {None},
                 until : Relations \cup {None}, by : Relations \cup {None},
                 props : [Keys -> Cites \cup {None}], born : Nat, touched : Nat]
ItemRows     == [state : {"none", "live", "merged", "superseded"}, subject : Entities \cup {None},
                 status : Statuses, by : Items \cup {None}, born : Nat, touched : Nat]
GraphRows    == [entity : [Entities -> EntityRows], relation : [Relations -> RelationRows],
                 item : [Items -> ItemRows], cite : [Cites -> Rows \cup {None}],
                 learned : SUBSET Lessons]

NoEntity   == [state |-> "none", into |-> None, born |-> 0, touched |-> 0]
NoRelation == [state |-> "none", from |-> None, to |-> None, until |-> None, by |-> None,
               props |-> [k \in Keys |-> None], born |-> 0, touched |-> 0]
NoItem     == [state |-> "none", subject |-> None, status |-> "open", by |-> None,
               born |-> 0, touched |-> 0]

Now == clock + 1

Live(row) == row.state = "live"
There(g, x) == CASE x \in Entities  -> g.entity[x].state # "none"
                 [] x \in Relations -> g.relation[x].state # "none"
                 [] x \in Items     -> g.item[x].state # "none"
                 [] OTHER           -> FALSE
Touched(g, x) == CASE x \in Entities -> g.entity[x].touched [] x \in Relations -> g.relation[x].touched
                   [] OTHER -> g.item[x].touched
CitesOf(g, x) == {c \in Cites : g.cite[c] = x}
Names(rel) == {rel.from, rel.to}

\* A graph to begin with: every row is live, has its own citation and names live entities.
Settled(g) ==
  /\ \A e \in Entities : g.entity[e].state # "merged" /\ g.entity[e].into = None
  /\ \A r \in Relations :
       \/ g.relation[r] = NoRelation
       \/ /\ Live(g.relation[r]) /\ g.relation[r].until = None
          /\ \A e \in Names(g.relation[r]) : e # None /\ Live(g.entity[e])
  /\ \A i \in Items :
       \/ g.item[i] = NoItem
       \/ Live(g.item[i]) /\ (g.item[i].subject # None => Live(g.entity[g.item[i].subject]))
  /\ \A c \in Cites : g.cite[c] = IF There(g, c) THEN c ELSE None

\* A row of a proposal.  What it is linked to, or changes, is in its target; a closing is late
\* when its target starts no sooner than it is to end.
PlanRows ==
  {w \in [kind : {"entity", "relation", "item", "closing", "merge"}, name : Cites \cup {None},
          target : Rows \cup {None}, from : Rows \cup {None}, to : Entities \cup {None},
          keys : SUBSET Keys, verdict : {"new", "same", "supersedes"},
          status : Statuses \cup {None}, lesson : Lessons \cup {None}, late : BOOLEAN] :
     CASE w.kind = "entity"   -> \/ w.target = None /\ w.name \in Entities
                                 \/ w.target \in Entities /\ w.name \in Links
       [] w.kind = "relation" -> /\ w.name \in Relations /\ {w.from, w.to} \subseteq Entities
                                 /\ w.target \in Relations \cup {None}
       [] w.kind = "item"     -> /\ w.name \in Items /\ w.from \in Entities \cup {None}
                                 /\ w.target \in Items \cup {None}
       [] w.kind = "closing"  -> w.name = None /\ {w.target, w.from} \subseteq Relations
       [] OTHER               -> w.name = None /\ {w.target, w.from} \subseteq Entities}

\* What a proposal is to create is new and its own, what it restates is not what it is to
\* create, and the proposal of a resolution does nothing but merge.
ASSUME SceneAssumption ==
  \A s \in Scenes :
    /\ s.graph \in GraphRows /\ Settled(s.graph)
    /\ s.plan \in [Proposals -> Seq(PlanRows)]
    /\ \A p, q \in Proposals : \A n \in 1..Len(s.plan[p]), k \in 1..Len(s.plan[q]) :
         /\ s.plan[p][n].name # None =>
              /\ ~There(s.graph, s.plan[p][n].name)
              /\ s.plan[p][n].name = s.plan[q][k].name => p = q /\ n = k
         /\ p = q /\ s.plan[p][n].kind = "merge" => s.plan[p][k].kind = "merge"
         /\ p = q /\ s.plan[p][n].name # None /\ s.plan[q][k].kind = "item" =>
              s.plan[q][k].target # s.plan[p][n].name

\* Mutant of ItemState: the two statuses of an item in each other's place.
ItemStateSwapped(i) == [state |-> i.status, status |-> i.state, by |-> i.by]

\* What a change of an item, and of a relation's validity, remembers.
ItemState(i) == [state |-> i.state, status |-> i.status, by |-> i.by]
Validity(r)  == [until |-> r.until, by |-> r.by]

\* The commit log of a proposal that has done nothing, and such a proposal.
NoLog == [created |-> {}, added |-> {}, learned |-> {}, changes |-> <<>>, closings |-> <<>>,
          fills |-> <<>>, merges |-> {}]
NoProposal == [status |-> "draft", log |-> NoLog, at |-> 0]

Init ==
  /\ \E s \in Scenes : graph = s.graph /\ plan = s.plan
  /\ proposal = [p \in Proposals |-> NoProposal]
  /\ merges = <<>>
  /\ clock = 0
  /\ last = [who |-> None, was |-> graph]

\* The members of s whose places are in I, in their order.
Picked(s, I) ==
  LET picked[n \in 0..Len(s)] ==
        IF n = 0 THEN <<>> ELSE IF n \in I THEN Append(picked[n - 1], s[n]) ELSE picked[n - 1]
  IN  picked[Len(s)]

Orderings(S) == {s \in [1..Cardinality(S) -> S] : \A i, j \in DOMAIN s : s[i] = s[j] => i = j}

\* The live rows that nothing supports.
Uncited(g) == {e \in Entities : Live(g.entity[e]) /\ CitesOf(g, e) = {}}
                \cup {r \in Relations : Live(g.relation[r]) /\ CitesOf(g, r) = {}}
                \cup {i \in Items : Live(g.item[i]) /\ CitesOf(g, i) = {}}

\* A transaction that changes the graph.  The deferred trigger refuses one that leaves a row
\* uncited: such a graph is where a behaviour ends.
Writes(who, g) ==
  /\ clock < MaxWrites /\ Uncited(graph) = {}
  /\ clock' = Now
  /\ graph' = g
  /\ last' = [who |-> who, was |-> graph]
  /\ UNCHANGED plan

-------------------------------------------------------------------------------
(* Merging two entities, and taking it back.                               *)

Oldest(rows, C) == CHOOSE k \in C : \A j \in C : rows[k].born <= rows[j].born

\* The live relations that say the same as the live r, those the merge has not moved first.
KeptFor(g, moved, r) ==
  LET same == {k \in Relations \ {r} :
                 /\ Live(g.relation[k]) /\ Fact[k] = Fact[r]
                 /\ g.relation[k].until = g.relation[r].until
                 /\ g.relation[k].from = g.relation[r].from /\ g.relation[k].to = g.relation[r].to}
  IN  IF same \ moved # {} THEN same \ moved ELSE same

\* r folded into k: its citations move over, and what it says in addition.
Fold(g, r, k) ==
  LET gained == {key \in Keys : g.relation[k].props[key] = None /\ g.relation[r].props[key] # None}
      shifted == CitesOf(g, r)
      kept == [g.relation[k] EXCEPT
                 !.props = [key \in Keys |-> IF key \in gained THEN g.relation[r].props[key] ELSE @[key]],
                 !.touched = IF gained = {} THEN @ ELSE Now]
  IN  [graph |-> [g EXCEPT
         !.cite = [c \in Cites |-> IF c \in shifted THEN k ELSE @[c]],
         !.relation[r] = [g.relation[r] EXCEPT !.state = "merged", !.touched = Now],
         !.relation[k] = kept],
       entry |-> [row |-> r, kept |-> k, shifted |-> shifted, gained |-> gained,
                  props |-> g.relation[r].props]]

\* Every moved relation that has become a duplicate, one after the other in the order of their
\* ids, which are random: this is one such order.
RelationOrder == CHOOSE s \in Orderings(Relations) : TRUE

Folded(g, moved) ==
  LET after[n \in 0..Len(RelationOrder)] ==
        IF n = 0 THEN [graph |-> g, folds |-> <<>>]
        ELSE LET r == RelationOrder[n]
                 x == after[n - 1]
                 C == KeptFor(x.graph, moved, r)
             IN  IF r \in moved /\ Live(x.graph.relation[r]) /\ C # {}
                 THEN LET f == Fold(x.graph, r, Oldest(x.graph.relation, C))
                      IN  [graph |-> f.graph, folds |-> Append(x.folds, f.entry)]
                 ELSE x
  IN  after[Len(RelationOrder)]

Mergeable(g, m, s) ==
  m # s /\ Live(g.entity[m]) /\ Live(g.entity[s]) /\ (m \in Persons <=> s \in Persons)

\* Mutant of Recited: the citations of a duplicate item stay with it.
RecitedEntity(g, m, s, twins) == [c \in Cites |-> IF g.cite[c] = m THEN s ELSE g.cite[c]]

\* What each citation is about once m is s and every duplicate item its twin.
Recited(g, m, s, twins) ==
  [c \in Cites |-> IF g.cite[c] = m THEN s
                   ELSE IF \E t \in twins : t.row = g.cite[c]
                   THEN (CHOOSE t \in twins : t.row = g.cite[c]).kept
                   ELSE g.cite[c]]

\* m becomes a tombstone of s and whatever named it names s; what became a duplicate or a
\* loop by that is folded.  The entry of kg_merges lists every change.
MergeIn(g, m, s) ==
  LET from == {r \in Relations : g.relation[r].from = m}
      to   == {r \in Relations : g.relation[r].to = m}
      subj == {i \in Items : g.item[i].subject = m}
      twin(i) == {k \in Items : Live(g.item[k]) /\ g.item[k].subject = s /\ Statement[k] = Statement[i]}
      twins == {[row |-> i, kept |-> Oldest(g.item, twin(i)), shifted |-> CitesOf(g, i)] :
                i \in {j \in subj : Live(g.item[j]) /\ twin(j) # {}}}
      relation(r) == [g.relation[r] EXCEPT !.from = IF @ = m THEN s ELSE @,
                                           !.to = IF @ = m THEN s ELSE @, !.touched = Now]
      loops == {r \in from \cup to : /\ relation(r).from = relation(r).to
                                     /\ g.relation[r].state # "merged"}
      moved == [g EXCEPT
        !.entity[m] = [@ EXCEPT !.state = "merged", !.into = s, !.touched = Now],
        !.relation = [r \in Relations |->
           IF r \in loops THEN [relation(r) EXCEPT !.state = "merged"]
           ELSE IF r \in from \cup to THEN relation(r) ELSE @[r]],
        !.item = [i \in Items |->
           IF i \notin subj THEN @[i]
           ELSE [g.item[i] EXCEPT !.subject = s, !.touched = Now,
                                  !.state = IF \E t \in twins : t.row = i THEN "merged" ELSE @]],
        !.cite = Recited(g, m, s, twins)]
      folded == Folded(moved, from \cup to)
  IN  [graph |-> folded.graph,
       entry |-> [m |-> m, s |-> s, at |-> Now, reversed |-> FALSE,
                  from |-> from, to |-> to, subj |-> subj, cites |-> CitesOf(g, m),
                  twins |-> twins, folds |-> folded.folds,
                  loops |-> {<<r, g.relation[r].state>> : r \in loops}]]

\* The relations and the items that are still where the merge left them, back with v.m.
Returned(g, v) ==
  LET relation(r) == [g.relation[r] EXCEPT !.from = IF r \in v.from /\ @ = v.s THEN v.m ELSE @,
                                           !.to = IF r \in v.to /\ @ = v.s THEN v.m ELSE @]
  IN  [g EXCEPT
         !.relation = [r \in Relations |-> IF relation(r) = @[r] THEN @[r]
                                           ELSE [relation(r) EXCEPT !.touched = Now]],
         !.item = [i \in Items |-> IF i \in v.subj /\ @[i].subject = v.s
                                   THEN [@[i] EXCEPT !.subject = v.m, !.touched = Now] ELSE @[i]]]

\* One fold undone: the citations that are still on the row that was kept go back, the
\* duplicate is live again, and what the kept row gained by it is taken off.
Unfold(g, f) ==
  LET row  == g.relation[f.row]
      lost == {k \in f.gained : g.relation[f.kept].props[k] = f.props[k]}
      kept == [g.relation[f.kept] EXCEPT
                 !.props = [k \in Keys |-> IF k \in lost THEN None ELSE @[k]],
                 !.touched = IF lost = {} THEN @ ELSE Now]
  IN  [g EXCEPT
         !.cite = [c \in Cites |-> IF c \in f.shifted /\ @[c] = f.kept THEN f.row ELSE @[c]],
         !.relation[f.row] = IF row.state = "merged" THEN [row EXCEPT !.state = "live", !.touched = Now]
                             ELSE row,
         !.relation[f.kept] = kept]

\* Mutant of Unmerged: the folded relations stay folded.
UnmergedButFolds(g, v) == Returned(g, v)

\* Everything returned, then every fold undone.
Unmerged(g, v) ==
  LET after[n \in 0..Len(v.folds)] ==
        IF n = 0 THEN Returned(g, v) ELSE Unfold(after[n - 1], v.folds[n])
  IN  after[Len(v.folds)]

Reversible(g, v) ==
  /\ ~v.reversed /\ There(g, v.m) /\ Live(g.entity[v.s])
  /\ \E c \in v.cites : g.cite[c] = v.s

\* The inverse of MergeIn: what the entry lists and is still where the merge left it.
ReverseIn(g, v) ==
  LET back == Unmerged(g, v)
      twinOf(i) == CHOOSE t \in v.twins : t.row = i
      isTwin(i) == \E t \in v.twins : t.row = i
      loop(r) == CHOOSE l \in v.loops : l[1] = r
  IN  [back EXCEPT
         !.entity[v.m] = [@ EXCEPT !.state = "live", !.into = None, !.touched = Now],
         !.relation = [r \in Relations |->
            IF @[r].state = "merged" /\ \E l \in v.loops : l[1] = r
            THEN [@[r] EXCEPT !.state = loop(r)[2], !.touched = Now] ELSE @[r]],
         !.item = [i \in Items |-> IF isTwin(i) /\ @[i].state = "merged"
                                   THEN [@[i] EXCEPT !.state = "live", !.touched = Now] ELSE @[i]],
         !.cite = [c \in Cites |->
            IF \E t \in v.twins : c \in t.shifted /\ @[c] = t.kept
            THEN (CHOOSE t \in v.twins : c \in t.shifted /\ @[c] = t.kept).row
            ELSE IF c \in v.cites /\ @[c] = v.s THEN v.m ELSE @[c]]]

\* The owner merges by hand, or reverses any merge that stands.
Merge(m, s) ==
  /\ Mergeable(graph, m, s)
  /\ LET x == MergeIn(graph, m, s) IN
       Writes(Len(merges) + 1, x.graph) /\ merges' = Append(merges, x.entry)
  /\ UNCHANGED proposal

Reverse(n) ==
  /\ n \in 1..Len(merges) /\ Reversible(graph, merges[n])
  /\ Writes(None, ReverseIn(graph, merges[n]))
  /\ merges' = [merges EXCEPT ![n].reversed = TRUE]
  /\ UNCHANGED proposal

-------------------------------------------------------------------------------
(* Committing a proposal.                                                  *)

\* What the transaction has made of the graph, of its log and of kg_merges.
Run(g) == [graph |-> g, log |-> NoLog, merges |-> merges]

Cited(x, w, subject) ==
  [x EXCEPT !.graph.cite[w.name] = subject, !.log.added = @ \cup {w.name}]
Created(x, w) ==
  [x EXCEPT !.graph.cite[w.name] = w.name, !.log.created = @ \cup {w.name}]

\* An entity is created, or the one the row is linked to is cited; and what the reviewer
\* said besides is learned, unless it is known: an alias, a mention, a pair that is distinct.
CommitEntity(x, w) ==
  LET taught == {w.lesson} \ ({None} \cup x.graph.learned)
      y == IF w.target # None THEN Cited(x, w, w.target)
           ELSE [Created(x, w) EXCEPT !.graph.entity[w.name] =
                   [state |-> "live", into |-> None, born |-> Now, touched |-> Now]]
  IN  [y EXCEPT !.graph.learned = @ \cup taught, !.log.learned = @ \cup taught]

\* A relation that is known is cited and gains what it lacks; another is created.
CommitRelation(x, w) ==
  IF w.target # None /\ Live(x.graph.relation[w.target])
  THEN LET old == x.graph.relation[w.target]
           fills == {k \in w.keys : old.props[k] = None}
           new == [old EXCEPT !.props = [k \in Keys |-> IF k \in fills THEN w.name ELSE @[k]],
                              !.touched = IF fills = {} THEN @ ELSE Now]
       IN  [Cited(x, w, w.target) EXCEPT
              !.graph.relation[w.target] = new,
              !.log.fills = IF fills = {} THEN @
                            ELSE Append(@, [row |-> w.target, keys |-> fills, value |-> w.name])]
  ELSE [Created(x, w) EXCEPT
          !.graph.relation[w.name] =
             [state |-> "live", from |-> w.from, to |-> w.to, until |-> None, by |-> None,
              props |-> [k \in Keys |-> IF k \in w.keys THEN w.name ELSE None],
              born |-> Now, touched |-> Now]]

\* An item that is known or restated is cited, a restated one may change its status; one
\* that says what a live item of its subject says is that item; another is created and
\* retires the one it supersedes.
CommitItem(x, w) ==
  LET known == w.target # None /\ Live(x.graph.item[w.target])
      older == IF known /\ w.verdict = "supersedes" THEN {w.target} ELSE {}
      twins == {i \in Items \ older : /\ Live(x.graph.item[i]) /\ x.graph.item[i].subject = w.from
                                      /\ Statement[i] = Statement[w.name]}
      change(i, y) == [y EXCEPT !.log.changes =
                         Append(@, [row |-> i, before |-> ItemState(x.graph.item[i]),
                                    after |-> ItemState(y.graph.item[i])])]
  IN  IF known /\ w.verdict = "same"
      THEN LET y == Cited(x, w, w.target) IN
           IF w.status = None THEN y
           ELSE change(w.target, [y EXCEPT !.graph.item[w.target] =
                                   [@ EXCEPT !.status = w.status, !.touched = Now]])
      ELSE IF twins # {} THEN Cited(x, w, CHOOSE i \in twins : TRUE)
      ELSE LET y == [Created(x, w) EXCEPT
                       !.graph.item[w.name] = [state |-> "live", subject |-> w.from, status |-> "open",
                                               by |-> None, born |-> Now, touched |-> Now]]
           IN  IF older = {} THEN y
               ELSE change(w.target,
                      [y EXCEPT !.graph.item[w.target] =
                         [@ EXCEPT !.state = "superseded", !.status = "superseded", !.by = w.name,
                                   !.touched = Now]])

\* A live relation that is still open, and started before, ends where the relation of row w.from
\* begins.
CommitClosing(x, w) ==
  LET closer == x.graph.cite[w.from]
      old    == x.graph.relation[w.target]
  IN  IF closer # None /\ Live(old) /\ closer # w.target /\ old.until = None /\ ~w.late
      THEN LET new == [old EXCEPT !.until = closer, !.by = closer, !.touched = Now] IN
           [x EXCEPT !.graph.relation[w.target] = new,
                     !.log.closings = Append(@, [row |-> w.target, before |-> Validity(old),
                                                 after |-> Validity(new)])]
      ELSE x

\* An accepted suggestion of a resolution proposal, unless an earlier one has merged a side away.
CommitMerge(x, w) ==
  IF \E n \in x.log.merges : x.merges[n].m \in {w.from, w.target} THEN x
  ELSE LET y == MergeIn(x.graph, w.from, w.target) IN
       [graph |-> y.graph, merges |-> Append(x.merges, y.entry),
        log |-> [x.log EXCEPT !.merges = @ \cup {Len(x.merges) + 1}]]

CommitRow(x, w) ==
  CASE w.kind = "entity"   -> CommitEntity(x, w)
    [] w.kind = "relation" -> CommitRelation(x, w)
    [] w.kind = "item"     -> CommitItem(x, w)
    [] w.kind = "closing"  -> CommitClosing(x, w)
    [] w.kind = "merge"    -> CommitMerge(x, w)

CommitIn(p) ==
  LET after[n \in 0..Len(plan[p])] ==
        IF n = 0 THEN Run(graph) ELSE CommitRow(after[n - 1], plan[p][n])
  IN  after[Len(plan[p])]

\* Whatever a row names is an entity that is live, or that the proposal creates.
Valid(p) ==
  \A n \in 1..Len(plan[p]) :
    LET w == plan[p][n]
        ok(e) == e # None =>
                   \/ Live(graph.entity[e])
                   \/ \E k \in 1..Len(plan[p]) : plan[p][k].name = e /\ plan[p][k].kind = "entity"
    IN  CASE w.kind = "entity"   -> ok(w.target)
          [] w.kind = "relation" -> ok(w.from) /\ ok(w.to)
          [] w.kind = "item"     -> ok(w.from)
          [] w.kind = "merge"    -> Mergeable(graph, w.from, w.target)
          [] OTHER               -> TRUE

\* A draft whose rows are all valid is committed; any other is left as it was.
Commit(p) ==
  /\ proposal[p].status = "draft" /\ Valid(p)
  /\ LET x == CommitIn(p) IN
       /\ Writes(p, x.graph)
       /\ merges' = x.merges
       /\ proposal' = [proposal EXCEPT ![p] = [status |-> "committed", log |-> x.log, at |-> Now]]

-------------------------------------------------------------------------------
(* Reverting it.                                                           *)

Own(p) == proposal[p].log.created \cup proposal[p].log.added

\* The rows p created that are still there.
Standing(p) == {x \in proposal[p].log.created : There(graph, x)}

\* The entities that the relations and the items of S name.
NamedBy(S) == (UNION {Names(graph.relation[r]) : r \in S \cap Relations})
                \cup {graph.item[i].subject : i \in S \cap Items}

\* Mutant of EntityMoved: a row of another proposal that names the entity is not looked for.
EntityMovedUnnamed(p, e) ==
  \/ graph.entity[e].state = "merged"
  \/ \E n \in 1..Len(merges) : /\ ~merges[n].reversed /\ merges[n].at > proposal[p].at
                               /\ e \in {merges[n].m, merges[n].s}

\* An entity that was merged, on either side, since its commit, or that something newer names.
EntityMoved(p, e) ==
  \/ graph.entity[e].state = "merged"
  \/ \E n \in 1..Len(merges) : /\ ~merges[n].reversed /\ merges[n].at > proposal[p].at
                               /\ e \in {merges[n].m, merges[n].s}
  \/ e \in NamedBy({r \in Relations : graph.relation[r].born > proposal[p].at}
                   \cup {i \in Items : graph.item[i].born > proposal[p].at})

\* What p created and must keep: what was edited or cited by others since, an entity that
\* has moved, and the entities that those name.
KeptRows(p) ==
  LET changed == {x \in Standing(p) : \/ Touched(graph, x) > proposal[p].at
                                      \/ CitesOf(graph, x) \ Own(p) # {}
                                      \/ x \in Entities /\ EntityMoved(p, x)}
  IN  changed \cup (Standing(p) \cap NamedBy(changed))

\* Mutant of Restorable: the successor of the row does not matter.
RestorableAlone(kept, entry, state) == state = entry.after

\* A change can be taken back if the row holds what the commit wrote, and what it gave way
\* to is not kept.
Restorable(kept, entry, state) == entry.after.by \notin kept /\ state = entry.after

\* The changes of items, the closings and the fills of p that are taken back.
ItemsBack(p, kept) ==
  LET log == proposal[p].log.changes
  IN  Picked(log, {n \in 1..Len(log) : /\ There(graph, log[n].row)
                                       /\ Restorable(kept, log[n], ItemState(graph.item[log[n].row]))})

\* Mutant of ClosingsBack: what the commit closed stays closed.
ClosingsStay(p, kept) == <<>>

ClosingsBack(p, kept) ==
  LET log == proposal[p].log.closings
  IN  Picked(log, {n \in 1..Len(log) : /\ There(graph, log[n].row)
                                       /\ Restorable(kept, log[n], Validity(graph.relation[log[n].row]))})

FillsBack(p) ==
  LET log == proposal[p].log.fills
  IN  Picked(log, {n \in 1..Len(log) :
                     /\ There(graph, log[n].row)
                     /\ \A k \in log[n].keys : graph.relation[log[n].row].props[k] = log[n].value})

\* Every change that is listed as kept: the row is there and is not taken back.
KeptChanges(p, kept) ==
  LET gone(log) == Cardinality({n \in 1..Len(log) : ~There(graph, log[n].row)})
      log == proposal[p].log
  IN  \/ Len(ItemsBack(p, kept)) + gone(log.changes) < Len(log.changes)
      \/ Len(ClosingsBack(p, kept)) + gone(log.closings) < Len(log.closings)
      \/ Len(FillsBack(p)) + gone(log.fills) < Len(log.fills)

\* Its merges, one after the other: one whose survivor has been merged since is kept.
MergesBack(order) ==
  LET after[n \in 0..Len(order)] ==
        IF n = 0 THEN [graph |-> graph, merges |-> merges, kept |-> FALSE]
        ELSE LET x == after[n - 1]  v == x.merges[order[n]] IN
             IF v.reversed THEN x
             ELSE IF Reversible(x.graph, v)
             THEN [x EXCEPT !.graph = ReverseIn(x.graph, v), !.merges[order[n]].reversed = TRUE]
             ELSE [x EXCEPT !.kept = TRUE]
  IN  after[Len(order)]

\* The citations p added to other rows, but for those that are all a row has.
Deletable(g, added) ==
  {c \in added : \E d \in CitesOf(g, g.cite[c]) : d \notin added}

\* Rows are deleted, and by the foreign keys every relation and item that names them; what
\* they had superseded, and what had been merged into them, names nothing any more.
WithoutRows(g, rows) ==
  LET goneR == {r \in Relations : r \in rows \/ Names(g.relation[r]) \cap rows # {}}
      goneI == {i \in Items : i \in rows \/ g.item[i].subject \in rows}
  IN  [g EXCEPT
         !.entity   = [e \in Entities |-> IF e \in rows THEN NoEntity
                                          ELSE [g.entity[e] EXCEPT !.into = IF @ \in rows THEN None ELSE @]],
         !.relation = [r \in Relations |->
            IF r \in goneR THEN NoRelation
            ELSE [g.relation[r] EXCEPT !.by = IF @ \in goneR THEN None ELSE @]],
         !.item     = [i \in Items |->
            IF i \in goneI THEN NoItem
            ELSE [g.item[i] EXCEPT !.by = IF @ \in goneI THEN None ELSE @]]]

\* Every change taken back, in the order it was made.  The props of a relation are written
\* as they were read before the first of them.
Restored(g, p, kept) ==
  LET items == ItemsBack(p, kept)  closings == ClosingsBack(p, kept)  fills == FillsBack(p)
      item[n \in 0..Len(items)] ==
        IF n = 0 THEN g.item
        ELSE [item[n - 1] EXCEPT ![items[n].row] =
                [@ EXCEPT !.state = items[n].before.state, !.status = items[n].before.status,
                          !.by = items[n].before.by, !.touched = Now]]
      opened[n \in 0..Len(closings)] ==
        IF n = 0 THEN g.relation
        ELSE [opened[n - 1] EXCEPT ![closings[n].row] =
                [@ EXCEPT !.until = closings[n].before.until, !.by = closings[n].before.by,
                          !.touched = Now]]
      emptied[n \in 0..Len(fills)] ==
        IF n = 0 THEN opened[Len(closings)]
        ELSE [emptied[n - 1] EXCEPT ![fills[n].row] =
                [@ EXCEPT !.props = [k \in Keys |-> IF k \in fills[n].keys THEN None
                                                    ELSE graph.relation[fills[n].row].props[k]],
                          !.touched = Now]]
  IN  [g EXCEPT !.item = item[Len(items)], !.relation = emptied[Len(fills)],
                !.learned = @ \ proposal[p].log.learned]

\* A committed proposal is reverted: in whole, or as far as it can be once the owner has
\* agreed to that.
Revert(p, confirm) ==
  /\ proposal[p].status = "committed"
  /\ \E order \in Orderings(proposal[p].log.merges) :
       LET kept == KeptRows(p)
           x    == MergesBack(order)
           rows == Standing(p) \ kept
           cut  == Deletable(x.graph, {c \in proposal[p].log.added : x.graph.cite[c] # None})
           bare == [x.graph EXCEPT !.cite = [c \in Cites |-> IF c \in cut \/ @[c] \in rows THEN None
                                                             ELSE @[c]]]
       IN  /\ confirm \/ (kept = {} /\ ~KeptChanges(p, kept) /\ ~x.kept)
           /\ Writes(None, Restored(WithoutRows(bare, rows), p, kept))
           /\ merges' = x.merges
  /\ proposal' = [proposal EXCEPT ![p].status = "reverted"]

-------------------------------------------------------------------------------
(* The owner's own changes.                                                *)

\* A live entity is edited: its label or its props.
EditEntity(e) ==
  /\ Live(graph.entity[e])
  /\ Writes(None, [graph EXCEPT !.entity[e].touched = Now])
  /\ UNCHANGED <<proposal, merges>>

\* A relation that is wrong is retracted, and what it had closed is open again.
RetractRelation(r) ==
  /\ Live(graph.relation[r])
  /\ Writes(None,
       [graph EXCEPT !.relation = [k \in Relations |->
          IF k = r THEN [@[k] EXCEPT !.state = "rejected", !.touched = Now]
          ELSE IF Live(@[k]) /\ @[k].by = r /\ @[k].until = r
          THEN [@[k] EXCEPT !.until = None, !.by = None, !.touched = Now]
          ELSE @[k]]])
  /\ UNCHANGED <<proposal, merges>>

\* "Not the same": learned already, or now.
MarkDistinct(l) ==
  /\ l \in Lessons \ graph.learned
  /\ Writes(None, [graph EXCEPT !.learned = @ \cup {l}])
  /\ UNCHANGED <<proposal, merges>>

Next ==
  \/ \E p \in Proposals : Commit(p) \/ \E confirm \in BOOLEAN : Revert(p, confirm)
  \/ \E m, s \in Entities : Merge(m, s)
  \/ \E n \in 1..Len(merges) : Reverse(n)
  \/ \E e \in Entities : EditEntity(e)
  \/ \E r \in Relations : RetractRelation(r)
  \/ \E l \in Lessons : MarkDistinct(l)

Spec == Init /\ [][Next]_vars

-------------------------------------------------------------------------------
(* Properties                                                              *)

\* Types.
GraphTypeOK ==
  /\ graph \in GraphRows
  /\ \A p \in Proposals : /\ proposal[p].status \in {"draft", "committed", "reverted"}
                          /\ proposal[p].at \in 0..MaxWrites

\* A duplicate that a merge had folded into another row and its reversal has given back.
GivenBack(x) ==
  \E n \in 1..Len(merges) :
    merges[n].reversed /\ (\/ \E k \in 1..Len(merges[n].folds) : merges[n].folds[k].row = x
                          \/ \E t \in merges[n].twins : t.row = x)

\* Every live row keeps a citation and every citation its row, whatever is merged, reversed,
\* committed, reverted and deleted in any order; the one writer that fails to is the reversal
\* of a merge: what it folded may have been folded further since, or deleted.
NoOrphans ==
  /\ \A x \in Uncited(graph) : GivenBack(x)
  /\ \A c \in Cites : graph.cite[c] # None => There(graph, graph.cite[c]) \/ GivenBack(graph.cite[c])

\* What is live names what is live, through every merge, reversal and revert, and no citation
\* is left with a tombstone.
NamesLive ==
  /\ \A r \in Relations : Live(graph.relation[r]) => \A e \in Names(graph.relation[r]) : Live(graph.entity[e])
  /\ \A i \in Items : Live(graph.item[i]) /\ graph.item[i].subject # None =>
                       Live(graph.entity[graph.item[i].subject])
  /\ \A c \in Cites : /\ graph.cite[c] \in Entities => Live(graph.entity[graph.cite[c]])
                      /\ graph.cite[c] \in Items => graph.item[graph.cite[c]].state # "merged"

\* Nothing stays closed or superseded by what is not there any more: when the new fact goes,
\* the old one holds again.
SuccessionHolds ==
  /\ \A r \in Relations : Live(graph.relation[r]) /\ graph.relation[r].until # None =>
       /\ graph.relation[r].by # None /\ There(graph, graph.relation[r].by)
       /\ graph.relation[graph.relation[r].by].state # "rejected"
  /\ \A i \in Items : graph.item[i].state = "superseded" =>
       graph.item[i].by # None /\ There(graph, graph.item[i].by)

\* A graph without its timestamps.
Facts(g) ==
  [g EXCEPT !.entity   = [e \in Entities |-> <<@[e].state, @[e].into>>],
            !.relation = [r \in Relations |-> [@[r] EXCEPT !.born = 0, !.touched = 0]],
            !.item     = [i \in Items |-> [@[i] EXCEPT !.born = 0, !.touched = 0]]]

\* No two rows of p change the same row, and none merges what another has merged into.
OneChangeEach(p) ==
  \A i, j \in 1..Len(plan[p]) : i # j /\ plan[p][i].target # None =>
    /\ plan[p][i].target # plan[p][j].target
    /\ plan[p][i].kind = "merge" => plan[p][i].target # plan[p][j].from

\* What is undone straight away was never done: a proposal reverted, or a merge reversed,
\* before anything else happened leaves the graph it found, row by row
\* (merge.service.ts: "`reverse` restores exactly what the merge undid, row by row, not an
\* approximation of it").
UndoIsExact ==
  [][/\ \A p \in Proposals : last.who = p /\ proposal[p].status = "committed" /\ OneChangeEach(p)
          /\ proposal'[p].status = "reverted" => Facts(graph') = Facts(last.was)
     /\ \A n \in 1..Len(merges) :
          last.who = n /\ ~merges[n].reversed /\ Live(graph'.entity[merges[n].m])
          => Facts(graph') = Facts(last.was)]_vars

\* A revert takes back what its commit did and nothing else: every other row is as it was,
\* whatever others have written since stays, and so do their citations
\* (proposal-revert.service.ts: "never silently destroy what the owner did SINCE").
RevertSparesOthers ==
  [][\A p \in Proposals :
       proposal[p].status = "committed" /\ proposal'[p].status = "reverted"
         /\ proposal[p].log.merges = {} =>
       LET log == proposal[p].log
           changed == {log.changes[n].row : n \in 1..Len(log.changes)}
             \cup {log.closings[n].row : n \in 1..Len(log.closings)}
             \cup {log.fills[n].row : n \in 1..Len(log.fills)}
       IN  /\ \A e \in Entities \ log.created : graph'.entity[e] = graph.entity[e]
           /\ \A r \in Relations \ (log.created \cup changed) : graph'.relation[r] = graph.relation[r]
           /\ \A i \in Items \ (log.created \cup changed) : graph'.item[i] = graph.item[i]
           /\ \A x \in Standing(p) : Touched(graph, x) > proposal[p].at => There(graph', x)
           /\ \A n \in DOMAIN log.changes : There(graph', log.changes[n].after.by)
                => ItemState(graph'.item[log.changes[n].row]) = ItemState(graph.item[log.changes[n].row])
           /\ \A n \in DOMAIN log.closings : There(graph', log.closings[n].after.by)
                => Validity(graph'.relation[log.closings[n].row])
                     = Validity(graph.relation[log.closings[n].row])
           /\ \A c \in Cites \ Own(p) : graph'.cite[c] = graph.cite[c]]_vars
===============================================================================
