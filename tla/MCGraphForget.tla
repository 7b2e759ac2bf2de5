---------------------------- MODULE MCGraphForget ----------------------------
(* Small graphs, and the proposals that their owner may commit.             *)
EXTENDS GraphForget

CONSTANTS anna, ann, acme, ally,   \* entities
          r1, r2, r3, i1, i2, i3,  \* relations and items
          l1, l2,                  \* rows that only cite
          unit, since, nick,       \* props and a lesson
          p1, p2

NoRow == [kind |-> "", name |-> None, target |-> None, from |-> None, to |-> None,
          keys |-> {}, verdict |-> "new", status |-> None, lesson |-> None, late |-> FALSE]
EntityRow(e) == [NoRow EXCEPT !.kind = "entity", !.name = e]
LinkRow(c, e, l) == [NoRow EXCEPT !.kind = "entity", !.name = c, !.target = e, !.lesson = l]
RelationRow(r, from, to) == [NoRow EXCEPT !.kind = "relation", !.name = r, !.from = from, !.to = to]
KnownRow(r, from, to, target, keys) == [RelationRow(r, from, to) EXCEPT !.target = target, !.keys = keys]
ItemRow(i, e) == [NoRow EXCEPT !.kind = "item", !.name = i, !.from = e]
NewerRow(i, e, target) == [ItemRow(i, e) EXCEPT !.target = target, !.verdict = "supersedes"]
DoneRow(c, e, target) == [ItemRow(c, e) EXCEPT !.target = target, !.verdict = "same", !.status = "done"]
ClosingRow(c, target, by) == [NoRow EXCEPT !.kind = "closing", !.name = c, !.target = target, !.from = by]
LateRow(target, by) == [ClosingRow(None, target, by) EXCEPT !.late = TRUE]
MergeRow(c, m, s) == [NoRow EXCEPT !.kind = "merge", !.name = c, !.from = m, !.target = s]

\* A graph of live entities, relations <<r, from, to>> and items <<i, subject>>.
Graph(entities, relations, items) ==
  LET names == entities \cup {t[1] : t \in relations} \cup {t[1] : t \in items} IN
  [entity |-> [e \in Entities |-> IF e \in entities THEN [NoEntity EXCEPT !.state = "live"] ELSE NoEntity],
   relation |-> [r \in Relations |->
      IF r \in names THEN LET t == CHOOSE t \in relations : t[1] = r IN
                          [NoRelation EXCEPT !.state = "live", !.from = t[2], !.to = t[3]]
      ELSE NoRelation],
   item |-> [i \in Items |->
      IF i \in names THEN LET t == CHOOSE t \in items : t[1] = i IN
                          [NoItem EXCEPT !.state = "live", !.subject = t[2]]
      ELSE NoItem],
   cite |-> [c \in Cites |-> IF c \in names THEN c ELSE None],
   learned |-> {}]

Plan(first, second) == [p \in Proposals |-> IF p = p1 THEN first ELSE second]

MCFact == [r \in Relations |-> "works at"]
MCStatement == [i \in Items |-> IF i = i3 THEN "other" ELSE "said"]

\* A second spelling is proposed with what it does; the next proposal speaks of it, and
\* would end a fact before it began.
Spelling ==
  [graph |-> Graph({anna, acme}, {<<r1, anna, acme>>}, {<<i1, anna>>}),
   plan |-> Plan(<<EntityRow(ann), RelationRow(r2, ann, acme), ItemRow(i2, ann)>>,
                 <<LinkRow(l1, ann, nick), KnownRow(r3, ann, acme, r2, {unit}), LateRow(r1, r3)>>)]

\* A newcomer is proposed, and the next proposal speaks of them without citing them.
Newcomer ==
  [graph |-> Graph({anna, acme}, {}, {}),
   plan |-> Plan(<<EntityRow(ann)>>, <<RelationRow(r3, ann, anna), ItemRow(i2, ann)>>)]

\* One new fact after the other, each ending the one before.
Succession ==
  [graph |-> Graph({anna, acme}, {<<r1, anna, acme>>}, {<<i1, anna>>}),
   plan |-> Plan(<<RelationRow(r2, anna, acme), NewerRow(i2, anna, i1), ClosingRow(None, r1, r2)>>,
                 <<KnownRow(r3, anna, acme, None, {}), NewerRow(i3, anna, i2),
                   ClosingRow(None, r2, r3)>>)]

\* A resolution against a proposal that names what it merges.
Resolution ==
  [graph |-> Graph({anna, ann, acme}, {<<r1, anna, acme>>, <<r2, ann, acme>>}, {<<i1, anna>>, <<i2, ann>>}),
   plan |-> Plan(<<MergeRow(None, ann, anna)>>,
                 <<LinkRow(l1, ann, nick), KnownRow(r3, ann, acme, r2, {unit}), DoneRow(i3, ann, i2)>>)]

\* Two spellings of a person and two of a company, with a fact in three of the four pairs.
Square ==
  [graph |-> Graph({anna, ann, acme, ally}, {<<r1, ann, acme>>, <<r2, anna, acme>>, <<r3, anna, ally>>}, {}),
   plan |-> Plan(<<LinkRow(l1, acme, nick)>>, <<LinkRow(l2, ally, None)>>)]

\* One proposal brings two spellings of a person, and says the same of both.
Twins ==
  [graph |-> Graph({acme}, {}, {}),
   plan |-> Plan(<<EntityRow(ann), EntityRow(anna), ItemRow(i1, ann), ItemRow(i2, anna)>>,
                 <<LinkRow(l1, acme, None)>>)]

MCScenes == {Spelling, Newcomer, Succession, Resolution, Square, Twins}
=================================================================================
