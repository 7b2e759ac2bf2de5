---------------------------- MODULE GraphOpsProofs ----------------------------
(***************************************************************************)
(* What the operators of GraphProposals and GraphForget make of a graph.   *)
(* A merge and its reversal, the commit of a proposal row by row and its   *)
(* revert are each computed step by step; the lemmas say what the whole    *)
(* computation does to every row, which is all the invariants need.        *)
(***************************************************************************)
EXTENDS GraphForget, SetInduction, FiniteSetTheorems

-------------------------------------------------------------------------------
(* Types.                                                                  *)

\* A citation is of a row of its own kind; a row that only cites is about an entity.
Citations ==
  {c \in [Cites -> Rows \cup {None}] :
     /\ \A x \in Entities \cup Links : c[x] \in Entities \cup {None}
     /\ \A x \in Relations : c[x] \in Relations \cup {None}
     /\ \A x \in Items : c[x] \in Items \cup {None}}

Props  == [Keys -> Cites \cup {None}]
Graphs == [entity : [Entities -> EntityRows], relation : [Relations -> RelationRows],
           item : [Items -> ItemRows], cite : Citations, learned : SUBSET Lessons]

FoldRecords == [row : Relations, kept : Relations, shifted : SUBSET Cites, gained : SUBSET Keys,
                props : Props]
TwinRecords == [row : Items, kept : Items, shifted : SUBSET Cites]
LoopRecords == Relations \X {"live", "rejected"}

\* A record of kg_merges.
MergeRecords ==
  [m : Entities, s : Entities, at : Nat, reversed : BOOLEAN, from : SUBSET Relations,
   to : SUBSET Relations, subj : SUBSET Items, cites : SUBSET Cites,
   twins : SUBSET TwinRecords, folds : Seq(FoldRecords), loops : SUBSET LoopRecords]

ItemStates == [state : {"none", "live", "merged", "superseded"}, status : Statuses,
               by : Items \cup {None}]
Befores    == [state : {"live"}, status : Statuses, by : Items \cup {None}]
Validities == [until : Relations \cup {None}, by : Relations \cup {None}]

\* What a commit changed of what was there: a live item, the validity and the props of a relation.
ChangeRecords  == [row : Items, before : Befores, after : ItemStates]
ClosingRecords == [row : Relations, before : Validities, after : Validities]
FillRecords    == [row : Relations, keys : SUBSET Keys, value : Cites]

\* The log of a commit.
Logs == [created : SUBSET Rows, added : SUBSET Cites, learned : SUBSET Lessons,
         changes : Seq(ChangeRecords), closings : Seq(ClosingRecords), fills : Seq(FillRecords),
         merges   : SUBSET Nat]

ProposalRows == [status : {"draft", "committed", "reverted"}, log : Logs, at : Nat]

\* Names of different kinds are different.
LEMMA Apart ==
  /\ Entities \cap Relations = {} /\ Entities \cap Items = {} /\ Entities \cap Links = {}
  /\ Relations \cap Items = {} /\ Relations \cap Links = {} /\ Items \cap Links = {}
  /\ None \notin Entities /\ None \notin Relations /\ None \notin Items /\ None \notin Links
  /\ Entities \subseteq Cites /\ Relations \subseteq Cites /\ Items \subseteq Cites
  /\ Links \subseteq Cites /\ None \notin Cites /\ Rows \subseteq Cites
BY GraphAssumption DEF Cites, Rows

\* The parts of a graph.
LEMMA PartsOf ==
  ASSUME NEW g \in Graphs
  PROVE  /\ g.entity \in [Entities -> EntityRows] /\ g.relation \in [Relations -> RelationRows]
         /\ g.item \in [Items -> ItemRows] /\ g.cite \in Citations /\ g.learned \subseteq Lessons
BY DEF Graphs

\* What a citation is about has its kind.
LEMMA CiteKinds ==
  ASSUME NEW g \in Graphs, NEW c \in Cites
  PROVE  /\ g.cite[c] \in Rows \cup {None}
         /\ c \in Entities \cup Links => g.cite[c] \in Entities \cup {None}
         /\ c \in Relations => g.cite[c] \in Relations \cup {None}
         /\ c \in Items => g.cite[c] \in Items \cup {None}
         /\ g.cite[c] \in Entities <=> (c \in Entities \cup Links /\ g.cite[c] # None)
         /\ g.cite[c] \in Relations <=> (c \in Relations /\ g.cite[c] # None)
         /\ g.cite[c] \in Items <=> (c \in Items /\ g.cite[c] # None)
BY Apart, PartsOf DEF Citations, Cites, Rows

\* Citations written one by one.
LEMMA CitationsOf ==
  ASSUME NEW f \in Citations, NEW h, DOMAIN h = Cites, h = [c \in Cites |-> h[c]],
         \A c \in Cites : \/ h[c] = f[c] \/ h[c] = None
                          \/ h[c] \in Entities /\ c \in Entities \cup Links
                          \/ h[c] \in Relations /\ c \in Relations
                          \/ h[c] \in Items /\ c \in Items
  PROVE  h \in Citations
<1>1. \A c \in Cites : h[c] \in Rows \cup {None}
  BY DEF Citations, Rows
<1>2. h \in [Cites -> Rows \cup {None}]
  BY <1>1
<1> QED BY <1>2, Apart DEF Citations
-------------------------------------------------------------------------------
(* Picking, and the least of a set.                                        *)

\* What is picked of a sequence are members of it, in their order.
LEMMA PickedTyped ==
  ASSUME NEW A, NEW s \in Seq(A), NEW I
  PROVE  /\ Picked(s, I) \in Seq(A)
         /\ \A n \in 1..Len(Picked(s, I)) : \E k \in 1..Len(s) : k \in I /\ Picked(s, I)[n] = s[k]
         /\ \A a, b \in 1..Len(Picked(s, I)) : a < b =>
              \E k, l \in 1..Len(s) : k < l /\ Picked(s, I)[a] = s[k] /\ Picked(s, I)[b] = s[l]
<1> DEFINE Places(t, i) ==
             /\ \A n \in 1..Len(t) : \E k \in 1..i : k \in I /\ t[n] = s[k]
             /\ \A a, b \in 1..Len(t) : a < b => \E k, l \in 1..i : k < l /\ t[a] = s[k] /\ t[b] = s[l]
           G  == [i \in 0..Len(s) |-> {t \in Seq(A) : Places(t, i)}]
           Do(t, i) == IF i \in I THEN Append(t, s[i]) ELSE t
           F  == [i \in 1..Len(s) |-> [t \in G[i - 1] |-> Do(t, i)]]
           Walked(f) == f = [i \in 0..Len(s) |-> IF i = 0 THEN <<>> ELSE Do(f[i - 1], i)]
           picked == CHOOSE f : Walked(f)
<1>0. Len(s) \in Nat /\ \A i \in 1..Len(s) : s[i] \in A
  OBVIOUS
<1>1. <<>> \in G[0]
  BY <1>0
<1>2. ASSUME NEW i \in 1..Len(s), NEW t \in G[i - 1] PROVE Do(t, i) \in G[i]
  <2>0. t \in Seq(A) /\ Places(t, i - 1) /\ i \in Nat /\ i - 1 \in 0..Len(s) /\ i \in 0..Len(s) /\ s[i] \in A
    <3>1. i - 1 \in 0..Len(s)
      BY <1>0
    <3> HIDE DEF Places
    <3> QED BY <1>0, <3>1
  <2>1. CASE i \in I
    <3> DEFINE u == Append(t, s[i])
    <3>1. u \in Seq(A) /\ Len(u) = Len(t) + 1 /\ Len(t) \in Nat
      BY <2>0
    <3>2. u[Len(t) + 1] = s[i] /\ \A n \in 1..Len(t) : u[n] = t[n]
      BY <2>0
    <3> HIDE DEF u
    <3>3. ASSUME NEW n \in 1..Len(u)
          PROVE  \E k \in 1..i : k \in I /\ u[n] = s[k]
      <4>1. CASE n = Len(t) + 1
        BY <2>0, <2>1, <3>2, <4>1
      <4>2. CASE n \in 1..Len(t)
        <5>1. PICK k \in 1..(i - 1) : k \in I /\ t[n] = s[k]
          BY <2>0, <4>2
        <5> QED BY <3>2, <4>2, <5>1
      <4> QED BY <3>1, <4>1, <4>2
    <3>4. ASSUME NEW a \in 1..Len(u), NEW b \in 1..Len(u), a < b
          PROVE  \E k, l \in 1..i : k < l /\ u[a] = s[k] /\ u[b] = s[l]
      <4>1. a \in 1..Len(t)
        BY <3>1, <3>4
      <4>2. CASE b = Len(t) + 1
        <5>1. PICK k \in 1..(i - 1) : t[a] = s[k]
          BY <2>0, <4>1
        <5>2. k \in 1..i /\ i \in 1..i /\ k < i
          BY <2>0
        <5> QED BY <3>2, <4>1, <4>2, <5>1, <5>2
      <4>3. CASE b \in 1..Len(t)
        <5>1. PICK k \in 1..(i - 1), l \in 1..(i - 1) : k < l /\ t[a] = s[k] /\ t[b] = s[l]
          BY <2>0, <3>4, <4>1, <4>3
        <5>2. k \in 1..i /\ l \in 1..i
          BY <2>0
        <5> QED BY <3>2, <4>1, <4>3, <5>1, <5>2
      <4> QED BY <3>1, <4>2, <4>3
    <3>5. Do(t, i) = u
      BY <2>1 DEF u
    <3>6. Places(u, i)
      BY <3>3, <3>4
    <3> HIDE DEF Places, Do
    <3> QED BY <2>0, <3>1, <3>5, <3>6
  <2>2. CASE i \notin I
    <3>1. Do(t, i) = t
      BY <2>2
    <3>2. 1..(i - 1) \subseteq 1..i
      BY <2>0
    <3>3. Places(t, i)
      <4>1. \A n \in 1..Len(t) : \E k \in 1..i : k \in I /\ t[n] = s[k]
        BY <2>0, <3>2
      <4>2. ASSUME NEW a \in 1..Len(t), NEW b \in 1..Len(t), a < b
            PROVE  \E k, l \in 1..i : k < l /\ t[a] = s[k] /\ t[b] = s[l]
        <5>1. PICK k \in 1..(i - 1), l \in 1..(i - 1) : k < l /\ t[a] = s[k] /\ t[b] = s[l]
          BY <2>0, <4>2
        <5>2. k \in 1..i /\ l \in 1..i
          BY <3>2
        <5> QED BY <5>1, <5>2
      <4> QED BY <4>1, <4>2
    <3> HIDE DEF Places, Do
    <3> QED BY <2>0, <3>1, <3>3
  <2> QED BY <2>1, <2>2
<1> HIDE DEF Do, G
<1>3. \A i \in 1..Len(s) : F[i] \in [G[i - 1] -> G[i]] /\ \A t \in G[i - 1] : F[i][t] = Do(t, i)
  BY <1>2
<1> HIDE DEF F
<1>4. PICK g : Pass(G, Len(s), F, <<>>, g)
  BY <1>0, <1>1, <1>3, Passes, Zenon
<1>5. \A i \in 0..Len(s) : g[i] \in G[i]
  <2> SUFFICES ASSUME NEW i \in 0..Len(s) PROVE g[i] \in G[i]
    OBVIOUS
  <2>1. i = 0 \/ i \in 1..Len(s)
    BY <1>0
  <2> QED BY <1>1, <1>4, <2>1 DEF Pass
<1>6. Walked(g)
  <2>1. ASSUME NEW i \in 1..Len(s) PROVE g[i] = Do(g[i - 1], i)
    <3>1. i - 1 \in 0..Len(s)
      BY <1>0
    <3> QED BY <1>3, <1>4, <1>5, <3>1 DEF Pass
  <2>2. \A i \in 0..Len(s) : g[i] = IF i = 0 THEN <<>> ELSE Do(g[i - 1], i)
    <3>1. ASSUME NEW i \in 0..Len(s), i # 0 PROVE i \in 1..Len(s)
      BY <1>0, <3>1
    <3>2. g[0] = <<>>
      BY <1>4 DEF Pass
    <3> QED BY <2>1, <3>1, <3>2, Zenon
  <2>3. g = [i \in 0..Len(s) |-> g[i]]
    BY <1>4 DEF Pass
  <2> QED BY <2>2, <2>3, Zenon
<1>7. Walked(picked)
  <2> HIDE DEF Walked
  <2> QED BY <1>6
<1>8. Picked(s, I) = picked[Len(s)]
  BY DEF Picked, Do
<1> HIDE DEF picked
<1>9. picked[0] = <<>> /\ \A i \in 1..Len(s) : picked[i] = Do(picked[i - 1], i)
  <2>1. \A i \in 0..Len(s) : picked[i] = IF i = 0 THEN <<>> ELSE Do(picked[i - 1], i)
    BY <1>7, Zenon
  <2>2. 0 \in 0..Len(s) /\ \A i \in 1..Len(s) : i \in 0..Len(s) /\ i # 0
    BY <1>0
  <2> QED BY <2>1, <2>2, Zenon
<1>10. \A i \in 0..Len(s) : picked[i] \in G[i]
  <2> DEFINE S == {i \in 0..Len(s) : picked[i] \in G[i]}
  <2>1. 0 \in S
    BY <1>0, <1>1, <1>9
  <2>2. ASSUME NEW i \in 0..Len(s), i \in S, i < Len(s) PROVE i + 1 \in S
    <3>1. i + 1 \in 1..Len(s) /\ i + 1 - 1 = i /\ i + 1 \in 0..Len(s)
      BY <1>0, <2>2
    <3>2. picked[i] \in G[i + 1 - 1]
      BY <2>2, <3>1
    <3>3. picked[i + 1] = Do(picked[i], i + 1)
      BY <1>9, <3>1
    <3>4. picked[i + 1] \in G[i + 1]
      BY <1>2, <3>1, <3>2, <3>3
    <3> QED BY <3>1, <3>4
  <2> HIDE DEF S
  <2>3. \A i \in 0..Len(s) : i \in S
    BY <1>0, <2>1, <2>2, UpTo, Zenon
  <2> QED BY <2>3 DEF S
<1>11. Picked(s, I) \in Seq(A) /\ Places(Picked(s, I), Len(s))
  <2>1. Len(s) \in 0..Len(s)
    BY <1>0
  <2>2. Picked(s, I) \in G[Len(s)]
    BY <1>8, <1>10, <2>1
  <2> HIDE DEF Places
  <2> QED BY <2>1, <2>2 DEF G
<1> QED BY <1>11

\* The oldest of some rows is one of them.
LEMMA OldestIn ==
  ASSUME NEW rows, NEW C, C # {}, \A k \in C : rows[k].born \in Nat
  PROVE  Oldest(rows, C) \in C
<1> DEFINE B == {rows[k].born : k \in C}
<1>1. B \subseteq Nat /\ B # {}
  OBVIOUS
<1>2. PICK b \in B : \A y \in B : ~ (<<y, b>> \in OpToRel(<, Nat))
  <2> HIDE DEF B
  <2> QED BY <1>1, WFMin, NatLessThanWellFounded
<1>3. PICK k \in C : rows[k].born = b
  OBVIOUS
<1>4. ASSUME NEW j \in C PROVE rows[k].born <= rows[j].born
  <2>1. SUFFICES ASSUME ~(b <= rows[j].born) PROVE FALSE
    BY <1>3
  <2>2. rows[j].born \in B /\ rows[j].born \in Nat /\ b \in Nat
    BY <1>1
  <2>3. <<rows[j].born, b>> \in OpToRel(<, Nat)
    BY <2>1, <2>2 DEF OpToRel
  <2> QED BY <1>2, <2>2, <2>3
<1>5. \E x \in C : \A j \in C : rows[x].born <= rows[j].born
  BY <1>4
<1> QED BY <1>5 DEF Oldest

-------------------------------------------------------------------------------
(* Folding.                                                                *)

\* h is g but for the state, the props and the citations of relations, and no relation comes
\* or goes.
OnlyFolds(g, h) ==
  /\ h.entity = g.entity /\ h.item = g.item /\ h.learned = g.learned
  /\ \A r \in Relations : /\ h.relation[r].from = g.relation[r].from
                          /\ h.relation[r].to = g.relation[r].to
                          /\ h.relation[r].born = g.relation[r].born
                          /\ h.relation[r].state = "none" <=> g.relation[r].state = "none"
  /\ \A c \in Cites : h.cite[c] = g.cite[c] \/ (c \in Relations /\ {g.cite[c], h.cite[c]} \subseteq Relations)

\* y is h with the fold f.
FoldsOne(h, y, f) ==
  /\ f.shifted = CitesOf(h, f.row)
  /\ y.relation[f.row].state = "merged"
  /\ \A q \in Relations \ {f.row} : y.relation[q].state = h.relation[q].state
  /\ \A c \in Cites : y.cite[c] = IF h.cite[c] = f.row THEN f.kept ELSE h.cite[c]

\* h is g with the folds listed: what is folded, and what it is folded into, was live, and a
\* citation moves only with its row and only to a row that is there.
FoldsInto(g, h, folds) ==
  /\ \A r \in Relations :
       \/ h.relation[r].state = g.relation[r].state
       \/ h.relation[r].state = "merged" /\ \E j \in 1..Len(folds) : folds[j].row = r
  /\ \A j \in 1..Len(folds) :
       /\ Live(g.relation[folds[j].row]) /\ h.relation[folds[j].row].state = "merged"
       /\ Live(g.relation[folds[j].kept])
       /\ folds[j].kept \in folds[j].shifted => g.cite[folds[j].kept] # folds[j].kept
  /\ \A c \in Cites :
       \/ h.cite[c] = g.cite[c]
       \/ /\ \E j \in 1..Len(folds) : folds[j].row = g.cite[c]
          /\ h.cite[c] \in Relations /\ h.relation[h.cite[c]].state # "none"

\* h is g with some of the folds listed undone.
UnfoldsFrom(g, h, folds) ==
  /\ \A r \in Relations :
       \/ h.relation[r].state = g.relation[r].state
       \/ /\ g.relation[r].state = "merged" /\ h.relation[r].state = "live"
          /\ \E j \in 1..Len(folds) : folds[j].row = r
  /\ \A c \in Cites :
       \/ h.cite[c] = g.cite[c]
       \/ /\ \E j \in 1..Len(folds) : folds[j].row = h.cite[c]
          /\ \E j \in 1..Len(folds) : folds[j].kept = g.cite[c] /\ c \in folds[j].shifted

\* Two folds one after the other are still only folds.
LEMMA OnlyFoldsTwice ==
  ASSUME NEW f, NEW g, NEW h, OnlyFolds(f, g), OnlyFolds(g, h)
  PROVE  OnlyFolds(f, h)
BY DEF OnlyFolds

\* One fold: a graph again, and a record of it.
LEMMA FoldTyped ==
  ASSUME clock \in Nat, NEW g \in Graphs, NEW r \in Relations, NEW k \in Relations, r # k,
         g.relation[r].state # "none"
  PROVE  /\ Fold(g, r, k).graph \in Graphs /\ Fold(g, r, k).entry \in FoldRecords
         /\ Fold(g, r, k).entry.row = r /\ Fold(g, r, k).entry.kept = k
         /\ OnlyFolds(g, Fold(g, r, k).graph)
         /\ FoldsOne(g, Fold(g, r, k).graph, Fold(g, r, k).entry)
<1> DEFINE gained  == {key \in Keys : g.relation[k].props[key] = None /\ g.relation[r].props[key] # None}
           shifted == CitesOf(g, r)
           cite  == [c \in Cites |-> IF c \in shifted THEN k ELSE g.cite[c]]
           props == [key \in Keys |-> IF key \in gained THEN g.relation[r].props[key]
                                                 ELSE g.relation[k].props[key]]
           row   == [g.relation[r] EXCEPT !.state = "merged", !.touched = Now]
           kept  == [g.relation[k] EXCEPT !.touched = IF gained = {} THEN @ ELSE Now, !.props = props]
           relation == [g.relation EXCEPT ![r] = row, ![k] = kept]
           x == Fold(g, r, k)
<1>1. g.relation \in [Relations -> RelationRows] /\ Now \in Nat
  BY PartsOf DEF Now
<1>2. g.relation[r] \in RelationRows /\ g.relation[k] \in RelationRows
  BY <1>1
<1>3. g.relation[r].props \in Props /\ g.relation[k].props \in Props
  BY <1>2 DEF RelationRows, Props
<1>4. props \in Props
  BY <1>3 DEF Props
<1>5. row \in RelationRows /\ row.from = g.relation[r].from /\ row.to = g.relation[r].to
        /\ row.state = "merged" /\ row.born = g.relation[r].born
  BY <1>1, <1>2 DEF RelationRows
<1>6. kept \in RelationRows /\ kept.from = g.relation[k].from /\ kept.to = g.relation[k].to
        /\ kept.state = g.relation[k].state /\ kept.born = g.relation[k].born
  BY <1>1, <1>2, <1>4 DEF RelationRows, Props
<1>7. relation \in [Relations -> RelationRows]
  <2> HIDE DEF row, kept
  <2> QED BY <1>1, <1>5, <1>6
<1>8. \A c \in Cites : c \in shifted => c \in Relations /\ g.cite[c] = r
  BY CiteKinds DEF CitesOf
<1>9. cite \in Citations
  BY <1>8, PartsOf, CitationsOf
<1>10. x.graph = [g EXCEPT !.cite = cite, !.relation[r] = row, !.relation[k] = kept]
  BY DEF Fold
<1>11. x.graph = [g EXCEPT !.cite = cite, !.relation = relation]
  <2> HIDE DEF cite, row, kept, x
  <2> QED BY <1>1, <1>10, PartsOf
<1>12. /\ x.graph \in Graphs /\ x.graph.entity = g.entity /\ x.graph.relation = relation
       /\ x.graph.item = g.item /\ x.graph.cite = cite /\ x.graph.learned = g.learned
  <2> HIDE DEF cite, relation, x
  <2> QED BY <1>7, <1>9, <1>11 DEF Graphs
<1>13. x.entry = [row |-> r, kept |-> k, shifted |-> shifted, gained |-> gained,
                  props |-> g.relation[r].props]
  BY DEF Fold
<1>14. x.entry \in FoldRecords /\ x.entry.row = r /\ x.entry.kept = k /\ x.entry.shifted = shifted
  <2>1. shifted \subseteq Cites /\ gained \subseteq Keys
    BY DEF CitesOf
  <2> HIDE DEF shifted, gained, x
  <2> QED BY <1>3, <1>13, <2>1 DEF FoldRecords
<1>15. OnlyFolds(g, x.graph)
  <2>1. \A q \in Relations : /\ relation[q].from = g.relation[q].from
                             /\ relation[q].to = g.relation[q].to
                             /\ relation[q].born = g.relation[q].born
                             /\ relation[q].state = "none" <=> g.relation[q].state = "none"
    <3> HIDE DEF row, kept
    <3> QED BY <1>1, <1>5, <1>6
  <2>2. \A c \in Cites : cite[c] = g.cite[c] \/ (c \in Relations /\ {g.cite[c], cite[c]} \subseteq Relations)
    BY <1>8
  <2> HIDE DEF cite, relation, x
  <2> QED BY <1>12, <2>1, <2>2 DEF OnlyFolds
<1>16. FoldsOne(g, x.graph, x.entry)
  <2>1. relation[r].state = "merged" /\ \A q \in Relations \ {r} : relation[q].state = g.relation[q].state
    <3> HIDE DEF row, kept
    <3> QED BY <1>1, <1>5, <1>6
  <2>2. \A c \in Cites : cite[c] = IF g.cite[c] = r THEN k ELSE g.cite[c]
    BY DEF CitesOf
  <2> HIDE DEF cite, relation, x, shifted
  <2>3. x.entry.shifted = CitesOf(g, r)
    BY <1>14 DEF shifted
  <2> QED BY <1>12, <1>14, <2>1, <2>2, <2>3 DEF FoldsOne
<1> QED BY <1>12, <1>14, <1>15, <1>16

\* What a fold adds to the folds before it.
LEMMA FoldsNext ==
  ASSUME NEW g \in Graphs, NEW h \in Graphs, NEW folds \in Seq(FoldRecords), FoldsInto(g, h, folds),
         NEW y \in Graphs, NEW f \in FoldRecords, FoldsOne(h, y, f), f.row # f.kept,
         Live(h.relation[f.row]), Live(h.relation[f.kept])
  PROVE  FoldsInto(g, y, Append(folds, f))
<1> DEFINE all == Append(folds, f)
<1>1. /\ Len(all) = Len(folds) + 1 /\ Len(folds) \in Nat /\ all[Len(folds) + 1] = f
      /\ \A j \in 1..Len(folds) : all[j] = folds[j]
  OBVIOUS
<1>2. f.row \in Relations /\ f.kept \in Relations
  BY DEF FoldRecords
<1> HIDE DEF all
<1>3. \A j \in 1..Len(all) : j \in 1..Len(folds) \/ all[j] = f
  BY <1>1
<1>4. Len(all) \in 1..Len(all) /\ all[Len(all)] = f /\ \A j \in 1..Len(folds) : j \in 1..Len(all)
  BY <1>1
<1>5. Live(g.relation[f.row]) /\ Live(g.relation[f.kept])
  BY <1>2 DEF FoldsInto, Live
<1>6. f.kept \in f.shifted => g.cite[f.kept] # f.kept
  <2> SUFFICES ASSUME f.kept \in f.shifted, g.cite[f.kept] = f.kept PROVE FALSE
    OBVIOUS
  <2>1. f.kept \in Cites /\ h.cite[f.kept] = f.row
    BY DEF FoldsOne, CitesOf
  <2>2. PICK j \in 1..Len(folds) : folds[j].row = f.kept
    BY <2>1 DEF FoldsInto
  <2> QED BY <2>2 DEF FoldsInto, Live
<1>7. ASSUME NEW r \in Relations
      PROVE  \/ y.relation[r].state = g.relation[r].state
             \/ y.relation[r].state = "merged" /\ \E j \in 1..Len(all) : all[j].row = r
  BY <1>1, <1>2, <1>4 DEF FoldsInto, FoldsOne
<1>8. ASSUME NEW j \in 1..Len(all)
      PROVE  /\ Live(g.relation[all[j].row]) /\ y.relation[all[j].row].state = "merged"
             /\ Live(g.relation[all[j].kept])
             /\ all[j].kept \in all[j].shifted => g.cite[all[j].kept] # all[j].kept
  <2>1. CASE all[j] = f
    BY <1>5, <1>6, <2>1 DEF FoldsOne
  <2>2. CASE j \in 1..Len(folds)
    <3>1. folds[j] \in FoldRecords
      BY <2>2
    <3>2. folds[j].row \in Relations /\ all[j] = folds[j]
      BY <1>1, <2>2, <3>1 DEF FoldRecords
    <3> QED BY <2>2, <3>2 DEF FoldsInto, FoldsOne
  <2> QED BY <1>3, <2>1, <2>2
<1>9. ASSUME NEW c \in Cites
      PROVE  \/ y.cite[c] = g.cite[c]
             \/ /\ \E j \in 1..Len(all) : all[j].row = g.cite[c]
                /\ y.cite[c] \in Relations /\ y.relation[y.cite[c]].state # "none"
  <2>1. ASSUME NEW k \in Relations, h.relation[k].state # "none" PROVE y.relation[k].state # "none"
    BY <2>1 DEF FoldsOne
  <2>2. h.relation[f.kept].state # "none"
    BY DEF Live
  <2>3. CASE h.cite[c] = f.row
    <3>1. y.cite[c] = f.kept
      BY <2>3 DEF FoldsOne
    <3>2. \E j \in 1..Len(all) : all[j].row = g.cite[c]
      BY <1>1, <1>4, <2>3 DEF FoldsInto
    <3> QED BY <1>2, <2>1, <2>2, <3>1, <3>2
  <2>4. CASE h.cite[c] # f.row
    <3>1. y.cite[c] = h.cite[c]
      BY <2>4 DEF FoldsOne
    <3> QED BY <1>1, <1>4, <2>1, <3>1 DEF FoldsInto
  <2> QED BY <2>3, <2>4
<1>10. FoldsInto(g, y, all)
  BY <1>7, <1>8, <1>9 DEF FoldsInto
<1> QED BY <1>10 DEF all

\* The order of the relations is a sequence of them.
LEMMA RelationOrderTyped == RelationOrder \in Seq(Relations)
<1>1. Cardinality(Relations) \in Nat /\ ExistsBijection(1..Cardinality(Relations), Relations)
  BY FS_CardinalityType, GraphAssumption
<1>2. PICK f \in [1..Cardinality(Relations) -> Relations] : IsInjective(f)
  BY <1>1 DEF ExistsBijection, Bijection, Injection
<1>3. f \in Orderings(Relations)
  BY <1>2 DEF Orderings, IsInjective
<1>4. RelationOrder \in Orderings(Relations)
  BY <1>3 DEF RelationOrder
<1> QED BY <1>1, <1>4 DEF Orderings

\* All the folds of a merge.
LEMMA FoldedTyped ==
  ASSUME clock \in Nat, NEW g \in Graphs, NEW moved
  PROVE  /\ Folded(g, moved).graph \in Graphs
         /\ Folded(g, moved).folds \in Seq(FoldRecords)
         /\ OnlyFolds(g, Folded(g, moved).graph)
         /\ FoldsInto(g, Folded(g, moved).graph, Folded(g, moved).folds)
<1> DEFINE T == {x \in [graph : Graphs, folds : Seq(FoldRecords)] :
                   OnlyFolds(g, x.graph) /\ FoldsInto(g, x.graph, x.folds)}
           n == Len(RelationOrder)
           Doing(x, r, C) ==
             IF r \in moved /\ Live(x.graph.relation[r]) /\ C # {}
             THEN LET f == Fold(x.graph, r, Oldest(x.graph.relation, C))
                  IN  [graph |-> f.graph, folds |-> Append(x.folds, f.entry)]
             ELSE x
           Do(x, r) == Doing(x, r, KeptFor(x.graph, moved, r))
           start == [graph |-> g, folds |-> <<>>]
           F == [i \in 1..n |-> [x \in T |-> Do(x, RelationOrder[i])]]
           Walked(f) == f = [i \in 0..n |-> IF i = 0 THEN start ELSE Do(f[i - 1], RelationOrder[i])]
           after == CHOOSE f : Walked(f)
<1>0. n \in Nat /\ \A i \in 1..n : RelationOrder[i] \in Relations
  BY RelationOrderTyped
<1>1. start \in T
  BY DEF OnlyFolds, FoldsInto
<1>2. ASSUME NEW x \in T, NEW r \in Relations PROVE Do(x, r) \in T
  <2> DEFINE C == KeptFor(x.graph, moved, r)
             k == Oldest(x.graph.relation, C)
             f == Fold(x.graph, r, k)
  <2>1. /\ x.graph \in Graphs /\ x.folds \in Seq(FoldRecords) /\ OnlyFolds(g, x.graph)
        /\ FoldsInto(g, x.graph, x.folds)
    OBVIOUS
  <2>2. CASE r \in moved /\ Live(x.graph.relation[r]) /\ C # {}
    <3>1. C \subseteq Relations \ {r}
      BY DEF KeptFor
    <3>2. \A q \in C : x.graph.relation[q].born \in Nat
      BY <2>1, <3>1, PartsOf DEF RelationRows
    <3>3. k \in Relations /\ k # r /\ Live(x.graph.relation[k])
      <4>1. \A q \in C : Live(x.graph.relation[q])
        BY DEF KeptFor
      <4> HIDE DEF C
      <4> QED BY <2>2, <3>1, <3>2, <4>1, OldestIn
    <3>4. /\ f.graph \in Graphs /\ f.entry \in FoldRecords /\ OnlyFolds(x.graph, f.graph)
          /\ f.entry.row = r /\ f.entry.kept = k /\ FoldsOne(x.graph, f.graph, f.entry)
      <4>1. x.graph.relation[r].state # "none"
        BY <2>2 DEF Live
      <4> HIDE DEF k, C
      <4> QED BY <2>1, <3>3, <4>1, FoldTyped
    <3>5. OnlyFolds(g, f.graph)
      <4> HIDE DEF f
      <4> QED BY <2>1, <3>4, OnlyFoldsTwice
    <3>6. Append(x.folds, f.entry) \in Seq(FoldRecords)
      <4> HIDE DEF f
      <4> QED BY <2>1, <3>4
    <3>7. Do(x, r) = [graph |-> f.graph, folds |-> Append(x.folds, f.entry)]
      BY <2>2
    <3>8. FoldsInto(g, f.graph, Append(x.folds, f.entry))
      <4> HIDE DEF f, k
      <4> QED BY <2>1, <2>2, <3>3, <3>4, FoldsNext
    <3> DEFINE folds == Append(x.folds, f.entry)
    <3> HIDE DEF f, Do, folds
    <3>9. [graph |-> f.graph, folds |-> folds] \in T
      BY <3>4, <3>5, <3>6, <3>8 DEF folds
    <3> QED BY <3>7, <3>9 DEF folds
  <2>3. CASE ~(r \in moved /\ Live(x.graph.relation[r]) /\ C # {})
    <3>1. Do(x, r) = x
      BY <2>3
    <3> HIDE DEF Do
    <3> QED BY <3>1
  <2> QED BY <2>2, <2>3
<1> HIDE DEF Do, T, start
<1>3. F \in [1..n -> [T -> T]]
  <2> HIDE DEF n
  <2> QED BY <1>0, <1>2
<1>4. PICK h : Iteration(T, n, F, start, h)
  <2> HIDE DEF F, n
  <2> QED BY <1>0, <1>1, <1>3, Iterates, Zenon
<1>5. Walked(h)
  <2>1. \A i \in 1..n : \A x \in T : F[i][x] = Do(x, RelationOrder[i])
    OBVIOUS
  <2> HIDE DEF F, n
  <2>2. \A i \in 1..n : h[i] = Do(h[i - 1], RelationOrder[i])
    BY <1>0, <1>4, <2>1 DEF Iteration
  <2> QED BY <1>0, <1>4, <2>2 DEF Iteration
<1>6. Walked(after)
  <2> HIDE DEF Walked
  <2> QED BY <1>5
<1>7. after[0] = start /\ \A i \in 1..n : after[i] = Do(after[i - 1], RelationOrder[i])
  <2> HIDE DEF after, n
  <2> QED BY <1>0, <1>6
<1>8. \A i \in 0..n : after[i] \in T
  <2> DEFINE S == {i \in 0..n : after[i] \in T}
  <2> HIDE DEF after, n
  <2>1. 0 \in S /\ \A i \in 0..n : i \in S /\ i < n => i + 1 \in S
    BY <1>0, <1>1, <1>2, <1>7
  <2> HIDE DEF S
  <2>2. \A i \in 0..n : i \in S
    BY <1>0, <2>1, UpTo, Zenon
  <2> QED BY <2>2 DEF S
<1>9. Folded(g, moved) = after[n]
  BY DEF Folded, Do, start
<1> HIDE DEF after
<1>10. Folded(g, moved) \in T
  <2> HIDE DEF n
  <2> QED BY <1>0, <1>8, <1>9
<1> QED BY <1>10 DEF T

-------------------------------------------------------------------------------
(* Unfolding.                                                              *)

\* One fold undone.
LEMMA UnfoldTyped ==
  ASSUME clock \in Nat, NEW g \in Graphs, NEW f \in FoldRecords
  PROVE  Unfold(g, f) \in Graphs /\ OnlyFolds(g, Unfold(g, f)) /\ UnfoldsFrom(g, Unfold(g, f), <<f>>)
<1> DEFINE old  == g.relation[f.row]
           lost == {k \in f.gained : g.relation[f.kept].props[k] = f.props[k]}
           props == [k \in Keys |-> IF k \in lost THEN None ELSE g.relation[f.kept].props[k]]
           kept == [g.relation[f.kept] EXCEPT !.props = props,
                                              !.touched = IF lost = {} THEN @ ELSE Now]
           row  == IF old.state = "merged" THEN [old EXCEPT !.state = "live", !.touched = Now] ELSE old
           cite == [c \in Cites |-> IF c \in f.shifted /\ g.cite[c] = f.kept THEN f.row ELSE g.cite[c]]
           relation == [g.relation EXCEPT ![f.row] = row, ![f.kept] = kept]
           h == Unfold(g, f)
<1>1. g.relation \in [Relations -> RelationRows] /\ Now \in Nat /\ f.row \in Relations
        /\ f.kept \in Relations
  BY PartsOf DEF Now, FoldRecords
<1>2. old \in RelationRows /\ g.relation[f.kept] \in RelationRows
  BY <1>1
<1>3. g.relation[f.kept].props \in Props
  BY <1>2 DEF RelationRows, Props
<1>4. props \in Props
  BY <1>3 DEF Props
<1>5. row \in RelationRows /\ row.from = old.from /\ row.to = old.to /\ row.born = old.born
        /\ (row.state = old.state \/ (old.state = "merged" /\ row.state = "live"))
  BY <1>1, <1>2 DEF RelationRows
<1>6. kept \in RelationRows /\ kept.from = g.relation[f.kept].from /\ kept.to = g.relation[f.kept].to
        /\ kept.state = g.relation[f.kept].state /\ kept.born = g.relation[f.kept].born
  BY <1>1, <1>2, <1>4 DEF RelationRows, Props
<1>7. relation \in [Relations -> RelationRows]
  <2> HIDE DEF row, kept
  <2> QED BY <1>1, <1>5, <1>6
<1>8. \A c \in Cites : g.cite[c] = f.kept => c \in Relations
  BY <1>1, CiteKinds
<1>9. cite \in Citations
  BY <1>1, <1>8, PartsOf, CitationsOf
<1>10. h = [g EXCEPT !.cite = cite, !.relation[f.row] = row, !.relation[f.kept] = kept]
  BY DEF Unfold
<1>11. h = [g EXCEPT !.cite = cite, !.relation = relation]
  <2> HIDE DEF cite, row, kept, h
  <2> QED BY <1>1, <1>10, PartsOf
<1>12. /\ h \in Graphs /\ h.entity = g.entity /\ h.relation = relation
       /\ h.item = g.item /\ h.cite = cite /\ h.learned = g.learned
  <2> HIDE DEF cite, relation, h
  <2> QED BY <1>7, <1>9, <1>11 DEF Graphs
<1>13. ASSUME NEW q \in Relations
       PROVE  /\ relation[q].from = g.relation[q].from
              /\ relation[q].to = g.relation[q].to
              /\ relation[q].born = g.relation[q].born
              /\ relation[q].state = "none" <=> g.relation[q].state = "none"
              /\ \/ relation[q].state = g.relation[q].state
                 \/ g.relation[q].state = "merged" /\ relation[q].state = "live" /\ f.row = q
  <2> HIDE DEF row, kept
  <2> QED BY <1>1, <1>5, <1>6
<1>14. \A c \in Cites : cite[c] = g.cite[c] \/ (c \in Relations /\ {g.cite[c], cite[c]} \subseteq Relations)
  BY <1>1, <1>8
<1>15. h \in Graphs /\ OnlyFolds(g, h)
  <2> HIDE DEF cite, relation, h
  <2> QED BY <1>12, <1>13, <1>14 DEF OnlyFolds
<1>16. \A c \in Cites : cite[c] = g.cite[c] \/ (f.row = cite[c] /\ f.kept = g.cite[c] /\ c \in f.shifted)
  OBVIOUS
<1>17. UnfoldsFrom(g, h, <<f>>)
  <2>1. 1 \in 1..Len(<<f>>) /\ <<f>>[1] = f
    OBVIOUS
  <2> HIDE DEF cite, relation, h
  <2> QED BY <1>12, <1>13, <1>16, <2>1 DEF UnfoldsFrom
<1> QED BY <1>15, <1>17

\* One more of the folds undone.
LEMMA UnfoldsNext ==
  ASSUME NEW g, NEW h, NEW y, NEW folds, NEW i \in 1..Len(folds),
         UnfoldsFrom(g, h, folds), UnfoldsFrom(h, y, <<folds[i]>>)
  PROVE  UnfoldsFrom(g, y, folds)
<1> DEFINE f == folds[i]
<1>1. Len(<<f>>) = 1 /\ <<f>>[1] = f /\ \A j \in 1..1 : j = 1
  OBVIOUS
<1>2. ASSUME NEW r \in Relations
      PROVE  \/ y.relation[r].state = h.relation[r].state
             \/ h.relation[r].state = "merged" /\ y.relation[r].state = "live" /\ f.row = r
  BY <1>1 DEF UnfoldsFrom
<1>3. ASSUME NEW c \in Cites
      PROVE  \/ y.cite[c] = h.cite[c]
             \/ f.row = y.cite[c] /\ f.kept = h.cite[c] /\ c \in f.shifted
  BY <1>1 DEF UnfoldsFrom
<1> QED BY <1>2, <1>3 DEF UnfoldsFrom

\* All of them undone, once everything is returned.
LEMMA UnmergedTyped ==
  ASSUME clock \in Nat, NEW g, NEW v, Returned(g, v) \in Graphs, v.folds \in Seq(FoldRecords)
  PROVE  /\ Unmerged(g, v) \in Graphs /\ OnlyFolds(Returned(g, v), Unmerged(g, v))
         /\ UnfoldsFrom(Returned(g, v), Unmerged(g, v), v.folds)
<1> DEFINE start == Returned(g, v)
           T == {x \in Graphs : OnlyFolds(start, x) /\ UnfoldsFrom(start, x, v.folds)}
           n == Len(v.folds)
           F == [i \in 1..n |-> [x \in T |-> Unfold(x, v.folds[i])]]
           Walked(f) == f = [i \in 0..n |-> IF i = 0 THEN start ELSE Unfold(f[i - 1], v.folds[i])]
           after == CHOOSE f : Walked(f)
<1> HIDE DEF start
<1>0. n \in Nat /\ (\A i \in 1..n : v.folds[i] \in FoldRecords) /\ start \in Graphs
  BY DEF start
<1>1. start \in T
  BY <1>0 DEF OnlyFolds, UnfoldsFrom
<1>2. ASSUME NEW i \in 1..n, NEW x \in T PROVE Unfold(x, v.folds[i]) \in T
  <2>1. /\ Unfold(x, v.folds[i]) \in Graphs /\ OnlyFolds(x, Unfold(x, v.folds[i]))
        /\ UnfoldsFrom(x, Unfold(x, v.folds[i]), <<v.folds[i]>>)
    BY <1>0, UnfoldTyped
  <2> QED BY <2>1, OnlyFoldsTwice, UnfoldsNext
<1> HIDE DEF T
<1>3. F \in [1..n -> [T -> T]]
  <2> HIDE DEF n
  <2> QED BY <1>2
<1>4. PICK h : Iteration(T, n, F, start, h)
  <2> HIDE DEF F, n
  <2> QED BY <1>0, <1>1, <1>3, Iterates, Zenon
<1>5. Walked(h)
  <2>1. \A i \in 1..n : \A x \in T : F[i][x] = Unfold(x, v.folds[i])
    OBVIOUS
  <2> HIDE DEF F, n
  <2>2. \A i \in 1..n : h[i] = Unfold(h[i - 1], v.folds[i])
    BY <1>0, <1>4, <2>1 DEF Iteration
  <2> QED BY <1>0, <1>4, <2>2 DEF Iteration
<1>6. Walked(after)
  <2> HIDE DEF Walked
  <2> QED BY <1>5
<1>7. after[0] = start /\ \A i \in 1..n : after[i] = Unfold(after[i - 1], v.folds[i])
  <2> HIDE DEF after, n
  <2> QED BY <1>0, <1>6
<1>8. \A i \in 0..n : after[i] \in T
  <2> DEFINE S == {i \in 0..n : after[i] \in T}
  <2> HIDE DEF after, n
  <2>1. 0 \in S /\ \A i \in 0..n : i \in S /\ i < n => i + 1 \in S
    BY <1>0, <1>1, <1>2, <1>7
  <2> HIDE DEF S
  <2>2. \A i \in 0..n : i \in S
    BY <1>0, <2>1, UpTo, Zenon
  <2> QED BY <2>2 DEF S
<1>9. Unmerged(g, v) = after[n]
  BY DEF Unmerged, start
<1> HIDE DEF after
<1>10. Unmerged(g, v) \in T
  <2> HIDE DEF n
  <2> QED BY <1>0, <1>8, <1>9
<1> QED BY <1>10 DEF T, start

-------------------------------------------------------------------------------
(* Merging.                                                                *)

\* One entity for another.
Moved(x, m, s) == IF x = m THEN s ELSE x

\* What the merge of m into s, or its way back, does to the rows of g: everything that named
\* or was about m names and is about s, and items that have become one are merged.
MovesAll(g, h, m, s) ==
  /\ \A r \in Relations : /\ h.relation[r].from = Moved(g.relation[r].from, m, s)
                          /\ h.relation[r].to = Moved(g.relation[r].to, m, s)
                          /\ h.relation[r].state = "none" <=> g.relation[r].state = "none"
  /\ \A i \in Items : /\ h.item[i].subject = Moved(g.item[i].subject, m, s)
                      /\ h.item[i].state = "none" <=> g.item[i].state = "none"
                      /\ Live(h.item[i]) => Live(g.item[i])
  /\ \A c \in Entities \cup Links : h.cite[c] = Moved(g.cite[c], m, s)
  /\ \A c \in Cites : g.cite[c] \in Items =>
       /\ h.cite[c] \in Items
       /\ g.item[g.cite[c]].state # "merged" => h.item[h.cite[c]].state # "merged"
  /\ \A c \in Cites : h.cite[c] \in Items => g.cite[c] \in Items

\* The rows that say something of entities: each of their ends by its kind, with the name it
\* holds; their states and when they were created.
Claims == Relations \cup Items
Kinds  == {"from", "to", "subj"}
End(k, r) == \/ k \in {"from", "to"} /\ r \in Relations
             \/ k = "subj" /\ r \in Items
NameOf(g, k, r) == CASE k = "from" -> g.relation[r].from
                     [] k = "to" -> g.relation[r].to
                     [] OTHER -> g.item[r].subject
StateOf(g, x) == IF x \in Relations THEN g.relation[x].state ELSE g.item[x].state
BornOf(g, x)  == IF x \in Relations THEN g.relation[x].born ELSE g.item[x].born

\* The merge v took over this end; it folded x into another row; it folded into d the row
\* that the citation of d was about.
Took(v, k, r) == CASE k = "from" -> r \in v.from [] k = "to" -> r \in v.to [] OTHER -> r \in v.subj
GoneIn(v, x) == \/ \E j \in 1..Len(v.folds) : v.folds[j].row = x
                \/ \E t \in v.twins : t.row = x
KeptIn(v, d) == \/ \E j \in 1..Len(v.folds) : v.folds[j].kept = d /\ d \in v.folds[j].shifted
                \/ \E t \in v.twins : t.kept = d /\ d \in t.shifted

\* What the merge v makes of the claims of g, and what it has listed of it.
MergesAs(g, h, v) ==
  /\ \A k \in Kinds : \A r \in Claims : End(k, r) =>
       /\ NameOf(h, k, r) = Moved(NameOf(g, k, r), v.m, v.s)
       /\ Took(v, k, r) <=> NameOf(g, k, r) = v.m
  /\ \A c \in Cites : c \in v.cites <=> g.cite[c] = v.m
  /\ \A x \in Claims :
       /\ BornOf(h, x) = BornOf(g, x)
       /\ \/ StateOf(h, x) = StateOf(g, x)
          \/ StateOf(h, x) = "merged" /\ StateOf(g, x) # "none"
       /\ GoneIn(v, x) => /\ StateOf(g, x) = "live" /\ StateOf(h, x) = "merged"
                          /\ \A l \in v.loops : l[1] # x
       /\ KeptIn(v, x) => StateOf(g, x) = "live" /\ g.cite[x] # x
       /\ \/ h.cite[x] = g.cite[x]
          \/ GoneIn(v, g.cite[x]) /\ h.cite[x] \in Claims /\ StateOf(h, h.cite[x]) # "none"
  /\ \A l \in v.loops : StateOf(g, l[1]) \notin {"none", "merged"} /\ StateOf(h, l[1]) = "merged"

\* A relation that is not there names nothing.
Blank(g) == \A r \in Relations : g.relation[r].state = "none" => Names(g.relation[r]) = {None}

\* A merge: its entry, its tombstone, and where every name and citation has moved.
LEMMA MergeInDoes ==
  ASSUME clock \in Nat, NEW g \in Graphs, Blank(g), NEW m \in Entities, NEW s \in Entities, m # s
  PROVE  LET x == MergeIn(g, m, s) IN
         /\ x.graph \in Graphs /\ x.entry \in MergeRecords
         /\ x.entry.m = m /\ x.entry.s = s /\ x.entry.at = Now /\ ~x.entry.reversed
         /\ x.graph.learned = g.learned
         /\ x.graph.entity[m].state = "merged" /\ x.graph.entity[m].into = s
         /\ \A e \in Entities \ {m} : x.graph.entity[e] = g.entity[e]
         /\ MovesAll(g, x.graph, m, s) /\ MergesAs(g, x.graph, x.entry)
<1> DEFINE from == {r \in Relations : g.relation[r].from = m}
           to   == {r \in Relations : g.relation[r].to = m}
           subj == {i \in Items : g.item[i].subject = m}
           twin(i) == {k \in Items : Live(g.item[k]) /\ g.item[k].subject = s /\ Statement[k] = Statement[i]}
           twins == {[row |-> i, kept |-> Oldest(g.item, twin(i)), shifted |-> CitesOf(g, i)] :
                     i \in {j \in subj : Live(g.item[j]) /\ twin(j) # {}}}
           moving(r) == [g.relation[r] EXCEPT !.from = IF @ = m THEN s ELSE @,
                                              !.to = IF @ = m THEN s ELSE @, !.touched = Now]
           loops == {r \in from \cup to : /\ moving(r).from = moving(r).to
                                          /\ g.relation[r].state # "merged"}
           tomb == [g.entity[m] EXCEPT !.state = "merged", !.into = s, !.touched = Now]
           relation == [r \in Relations |->
                          IF r \in loops THEN [moving(r) EXCEPT !.state = "merged"]
                          ELSE IF r \in from \cup to THEN moving(r) ELSE g.relation[r]]
           item == [i \in Items |->
                      IF i \notin subj THEN g.item[i]
                      ELSE [g.item[i] EXCEPT !.subject = s, !.touched = Now,
                              !.state = IF \E t \in twins : t.row = i THEN "merged" ELSE @]]
           cite == Recited(g, m, s, twins)
           entity == [g.entity EXCEPT ![m] = tomb]
           moved == [g EXCEPT !.entity = entity, !.relation = relation, !.item = item, !.cite = cite]
           folded == Folded(moved, from \cup to)
           x == MergeIn(g, m, s)
<1>1. /\ g.entity \in [Entities -> EntityRows] /\ g.relation \in [Relations -> RelationRows]
      /\ g.item \in [Items -> ItemRows] /\ g.cite \in Citations /\ Now \in Nat
  BY PartsOf DEF Now
<1>2. tomb \in EntityRows /\ tomb.state = "merged" /\ tomb.into = s
  <2>1. g.entity[m] \in EntityRows
    BY <1>1
  <2> QED BY <1>1, <2>1 DEF EntityRows
<1>3. entity \in [Entities -> EntityRows] /\ entity[m] = tomb
        /\ \A e \in Entities \ {m} : entity[e] = g.entity[e]
  <2> HIDE DEF tomb
  <2> QED BY <1>1, <1>2
<1>4. ASSUME NEW r \in Relations
      PROVE  /\ moving(r) \in RelationRows /\ moving(r).from = Moved(g.relation[r].from, m, s)
             /\ moving(r).to = Moved(g.relation[r].to, m, s) /\ moving(r).state = g.relation[r].state
             /\ moving(r).born = g.relation[r].born
  <2>1. g.relation[r] \in RelationRows
    BY <1>1
  <2> QED BY <1>1, <2>1 DEF RelationRows, Moved
<1>6. \A r \in from \cup to : g.relation[r].state # "none"
  BY Apart DEF Blank, Names
<1>5. ASSUME NEW r \in Relations
      PROVE  /\ relation[r] \in RelationRows /\ relation[r].from = Moved(g.relation[r].from, m, s)
             /\ relation[r].to = Moved(g.relation[r].to, m, s)
             /\ relation[r].state = "none" <=> g.relation[r].state = "none"
             /\ relation[r].born = g.relation[r].born
             /\ relation[r].state = IF r \in loops THEN "merged" ELSE g.relation[r].state
  <2> HIDE DEF moving
  <2>1. CASE r \in loops
    <3>1. relation[r] = [moving(r) EXCEPT !.state = "merged"]
      BY <2>1
    <3>2. g.relation[r].state # "none"
      BY <1>6, <2>1
    <3> QED BY <1>4, <2>1, <3>1, <3>2 DEF RelationRows
  <2>2. CASE r \notin loops /\ r \in from \cup to
    BY <1>4, <2>2
  <2>3. CASE r \notin from \cup to
    <3>1. relation[r] = g.relation[r] /\ g.relation[r].from # m /\ g.relation[r].to # m
      BY <2>3
    <3> QED BY <1>1, <3>1 DEF Moved
  <2> QED BY <2>1, <2>2, <2>3
<1>7. twins \subseteq TwinRecords /\ \A t \in twins : /\ t.row \in subj /\ Live(g.item[t.row])
                                                    /\ Live(g.item[t.kept]) /\ g.item[t.kept].subject = s
  <2> SUFFICES ASSUME NEW i \in subj, Live(g.item[i]), twin(i) # {}
               PROVE  LET t == [row |-> i, kept |-> Oldest(g.item, twin(i)), shifted |-> CitesOf(g, i)] IN
                      /\ t \in TwinRecords /\ t.row \in subj /\ Live(g.item[t.row])
                      /\ Live(g.item[t.kept]) /\ g.item[t.kept].subject = s
    OBVIOUS
  <2>1. \A k \in twin(i) : g.item[k].born \in Nat
    BY <1>1 DEF ItemRows
  <2>2. Oldest(g.item, twin(i)) \in twin(i)
    <3> DEFINE C == twin(i)
    <3>1. C # {} /\ \A k \in C : g.item[k].born \in Nat
      BY <2>1
    <3> HIDE DEF C
    <3>2. Oldest(g.item, C) \in C
      BY <3>1, OldestIn
    <3> QED BY <3>2 DEF C
  <2>3. CitesOf(g, i) \subseteq Cites
    BY DEF CitesOf
  <2> QED BY <2>2, <2>3 DEF TwinRecords
<1>20. \A t \in twins : t.shifted = CitesOf(g, t.row)
  <2> DEFINE record(i) == [row |-> i, kept |-> Oldest(g.item, twin(i)), shifted |-> CitesOf(g, i)]
             I == {j \in subj : Live(g.item[j]) /\ twin(j) # {}}
  <2> HIDE DEF twin
  <2>1. \A i : record(i).shifted = CitesOf(g, record(i).row)
    OBVIOUS
  <2>2. twins = {record(i) : i \in I}
    OBVIOUS
  <2> HIDE DEF record, I, twins
  <2> QED BY <2>1, <2>2
<1>8. ASSUME NEW i \in Items
      PROVE  /\ item[i] \in ItemRows /\ item[i].subject = Moved(g.item[i].subject, m, s)
             /\ item[i].state = "none" <=> g.item[i].state = "none"
             /\ Live(item[i]) => Live(g.item[i])
             /\ i \notin subj => item[i] = g.item[i]
             /\ item[i].state = "merged" => g.item[i].state = "merged" \/ \E t \in twins : t.row = i
             /\ item[i].born = g.item[i].born
             /\ (\E t \in twins : t.row = i) => item[i].state = "merged"
             /\ item[i].state = g.item[i].state \/ (item[i].state = "merged" /\ Live(g.item[i]))
  <2>1. g.item[i] \in ItemRows
    BY <1>1
  <2>2. CASE i \notin subj
    <3>1. item[i] = g.item[i] /\ g.item[i].subject # m
      BY <2>2
    <3>2. ~ \E t \in twins : t.row = i
      <4> HIDE DEF twins, subj
      <4> QED BY <1>7, <2>2
    <3> HIDE DEF item, twins
    <3> QED BY <2>1, <3>1, <3>2 DEF Moved
  <2>3. CASE i \in subj
    <3> DEFINE st == IF \E t \in twins : t.row = i THEN "merged" ELSE g.item[i].state
    <3>1. item[i] = [g.item[i] EXCEPT !.subject = s, !.touched = Now, !.state = st]
      <4> HIDE DEF twins
      <4> QED BY <2>3
    <3>2. st \in {"none", "live", "merged", "superseded"}
      <4> HIDE DEF twins
      <4> QED BY <2>1 DEF ItemRows
    <3>3. \/ st = g.item[i].state /\ ~ \E t \in twins : t.row = i
          \/ st = "merged" /\ Live(g.item[i]) /\ \E t \in twins : t.row = i
      <4> HIDE DEF twins
      <4> QED BY <1>7
    <3>4. item[i] \in ItemRows /\ item[i].subject = s /\ item[i].state = st /\ item[i].born = g.item[i].born
      <4> HIDE DEF st, item
      <4> QED BY <1>1, <2>1, <3>1, <3>2 DEF ItemRows
    <3> HIDE DEF st, item, twins
    <3> QED BY <2>3, <3>3, <3>4 DEF Moved, Live
  <2> QED BY <2>2, <2>3
<1>9. ASSUME NEW c \in Cites
      PROVE  /\ g.cite[c] = m => cite[c] = s
             /\ g.cite[c] # m /\ g.cite[c] \notin Items => cite[c] = g.cite[c]
             /\ g.cite[c] # m => cite[c] = g.cite[c] \/ \E t \in twins : t.row = g.cite[c]
             /\ g.cite[c] \in Items => /\ cite[c] \in Items
                                       /\ \/ Live(g.item[cite[c]]) /\ g.item[cite[c]].subject = s
                                          \/ cite[c] = g.cite[c] /\ ~ \E t \in twins : t.row = g.cite[c]
  <2>1. CASE \E t \in twins : t.row = g.cite[c]
    <3> DEFINE t == CHOOSE t \in twins : t.row = g.cite[c]
    <3>1. t \in twins /\ t.row = g.cite[c]
      <4> HIDE DEF twins
      <4> QED BY <2>1
    <3>2. t.kept \in Items /\ Live(g.item[t.kept]) /\ g.item[t.kept].subject = s /\ g.cite[c] \in Items
      <4> HIDE DEF twins, t
      <4> QED BY <1>7, <3>1 DEF TwinRecords
    <3>3. g.cite[c] # m
      BY <3>2, Apart
    <3>4. cite[c] = t.kept
      <4> HIDE DEF twins
      <4> QED BY <2>1, <3>3 DEF Recited
    <3> HIDE DEF twins, t, cite
    <3> QED BY <2>1, <3>2, <3>3, <3>4
  <2>2. CASE ~ \E t \in twins : t.row = g.cite[c]
    <3>1. cite[c] = IF g.cite[c] = m THEN s ELSE g.cite[c]
      <4> HIDE DEF twins
      <4> QED BY <2>2 DEF Recited
    <3> HIDE DEF twins, cite
    <3> QED BY <2>2, <3>1, Apart
  <2> QED BY <2>1, <2>2
<1>10. cite \in Citations
  <2>1. ASSUME NEW c \in Cites
        PROVE  \/ cite[c] = g.cite[c] \/ cite[c] = None
               \/ cite[c] \in Entities /\ c \in Entities \cup Links
               \/ cite[c] \in Relations /\ c \in Relations
               \/ cite[c] \in Items /\ c \in Items
    <3> HIDE DEF cite, twins
    <3>1. CASE g.cite[c] = m
      BY <1>9, <3>1, CiteKinds
    <3>2. CASE g.cite[c] \in Items
      BY <1>9, <3>2, CiteKinds
    <3>3. CASE g.cite[c] # m /\ g.cite[c] \notin Items
      BY <1>9, <3>3
    <3> QED BY <3>1, <3>2, <3>3
  <2>2. cite = [c \in Cites |-> cite[c]]
    <3> HIDE DEF twins
    <3> QED BY DEF Recited
  <2>3. DOMAIN cite = Cites
    <3> HIDE DEF twins
    <3> QED BY DEF Recited
  <2> HIDE DEF cite, twins
  <2> QED BY <1>1, <2>1, <2>2, <2>3, CitationsOf
<1>11. relation \in [Relations -> RelationRows] /\ item \in [Items -> ItemRows]
  <2>1. relation = [r \in Relations |-> relation[r]]
    BY Zenon
  <2>2. item = [i \in Items |-> item[i]]
    BY Zenon
  <2> HIDE DEF relation, item
  <2> QED BY <1>5, <1>8, <2>1, <2>2
<1>12. /\ moved \in Graphs /\ moved.entity = entity /\ moved.relation = relation
       /\ moved.item = item /\ moved.cite = cite /\ moved.learned = g.learned
  <2> HIDE DEF entity, relation, item, cite
  <2> QED BY <1>3, <1>10, <1>11 DEF Graphs
<1>13. /\ folded.graph \in Graphs /\ folded.folds \in Seq(FoldRecords) /\ OnlyFolds(moved, folded.graph)
       /\ FoldsInto(moved, folded.graph, folded.folds)
  <2> DEFINE S == from \cup to
  <2> HIDE DEF moved, S
  <2> QED BY <1>12, FoldedTyped DEF S
<1>14. /\ x.graph = folded.graph
       /\ x.entry = [m |-> m, s |-> s, at |-> Now, reversed |-> FALSE,
                     from |-> from, to |-> to, subj |-> subj, cites |-> CitesOf(g, m),
                     twins |-> twins, folds |-> folded.folds,
                     loops |-> {<<r, g.relation[r].state>> : r \in loops}]
  BY DEF MergeIn
<1>15. x.entry \in MergeRecords
  <2>1. from \subseteq Relations /\ to \subseteq Relations /\ subj \subseteq Items /\ CitesOf(g, m) \subseteq Cites
    BY DEF CitesOf
  <2> DEFINE left == {<<r, g.relation[r].state>> : r \in loops}
  <2>2. left \subseteq LoopRecords
    <3> SUFFICES ASSUME NEW r \in loops PROVE <<r, g.relation[r].state>> \in LoopRecords
      OBVIOUS
    <3>1. g.relation[r] \in RelationRows /\ r \in Relations /\ r \in from \cup to
            /\ g.relation[r].state # "merged"
      <4> HIDE DEF moving
      <4> QED BY <1>1
    <3>2. g.relation[r].state \in {"live", "rejected"}
      BY <1>6, <3>1 DEF RelationRows
    <3> HIDE DEF loops
    <3> QED BY <3>1, <3>2 DEF LoopRecords
  <2>3. x.entry = [m |-> m, s |-> s, at |-> Now, reversed |-> FALSE,
                     from |-> from, to |-> to, subj |-> subj, cites |-> CitesOf(g, m),
                     twins |-> twins, folds |-> folded.folds, loops |-> left]
    BY <1>14
  <2> HIDE DEF from, to, subj, twins, folded, left, x
  <2> QED BY <1>1, <1>7, <1>13, <2>1, <2>2, <2>3 DEF MergeRecords
<1>16. x.entry.m = m /\ x.entry.s = s /\ x.entry.at = Now /\ ~x.entry.reversed
  <2> HIDE DEF from, to, subj, twins, folded, loops, x
  <2> QED BY <1>14
<1>17. MovesAll(g, x.graph, m, s)
  <2> HIDE DEF entity, relation, item, cite, moved, folded, x, twins, subj
  <2>1. ASSUME NEW r \in Relations
        PROVE  /\ x.graph.relation[r].from = Moved(g.relation[r].from, m, s)
               /\ x.graph.relation[r].to = Moved(g.relation[r].to, m, s)
               /\ x.graph.relation[r].state = "none" <=> g.relation[r].state = "none"
    BY <1>5, <1>12, <1>13, <1>14 DEF OnlyFolds
  <2>2. x.graph.item = item
    BY <1>12, <1>13, <1>14 DEF OnlyFolds
  <2>3. ASSUME NEW c \in Entities \cup Links
        PROVE  x.graph.cite[c] = Moved(g.cite[c], m, s)
    <3>1. c \in Cites /\ c \notin Relations /\ g.cite[c] \notin Items
      BY Apart, CiteKinds
    <3>2. x.graph.cite[c] = cite[c]
      BY <1>12, <1>13, <1>14, <3>1 DEF OnlyFolds
    <3> QED BY <1>9, <3>1, <3>2 DEF Moved
  <2>4. ASSUME NEW c \in Cites, g.cite[c] \in Items
        PROVE  /\ x.graph.cite[c] \in Items
               /\ g.item[g.cite[c]].state # "merged" => x.graph.item[x.graph.cite[c]].state # "merged"
    <3>1. c \notin Relations
      BY <2>4, Apart, CiteKinds
    <3>2. x.graph.cite[c] = cite[c] /\ cite[c] \in Items
      BY <1>9, <1>12, <1>13, <1>14, <2>4, <3>1 DEF OnlyFolds
    <3>3. CASE Live(g.item[cite[c]]) /\ g.item[cite[c]].subject = s
      <4>1. cite[c] \notin subj
        BY <3>3 DEF subj
      <4>2. item[cite[c]] = g.item[cite[c]]
        BY <1>8, <3>2, <4>1
      <4> QED BY <2>2, <3>2, <3>3, <4>2 DEF Live
    <3>4. CASE cite[c] = g.cite[c] /\ ~ \E t \in twins : t.row = g.cite[c]
      BY <1>8, <2>2, <2>4, <3>2, <3>4
    <3> QED BY <1>9, <2>4, <3>3, <3>4
  <2>5. ASSUME NEW c \in Cites, x.graph.cite[c] \in Items
        PROVE  g.cite[c] \in Items
    <3>1. x.graph \in Graphs
      BY <1>13, <1>14
    <3>2. c \in Items /\ c \notin Relations
      BY <2>5, <3>1, Apart, CiteKinds
    <3>3. x.graph.cite[c] = cite[c] /\ cite[c] \in Items
      BY <1>12, <1>13, <1>14, <2>5, <3>2 DEF OnlyFolds
    <3> QED BY <1>9, <2>5, <3>2, <3>3, Apart, CiteKinds
  <2> QED BY <1>8, <2>1, <2>2, <2>3, <2>4, <2>5 DEF MovesAll
<1>18. /\ x.graph \in Graphs /\ x.graph.learned = g.learned
       /\ x.graph.entity[m].state = "merged" /\ x.graph.entity[m].into = s
       /\ \A e \in Entities \ {m} : x.graph.entity[e] = g.entity[e]
  <2> HIDE DEF x, moved, folded, entity, tomb
  <2>1. x.graph = folded.graph
    BY <1>14
  <2>2. x.graph.entity = entity /\ x.graph.learned = g.learned /\ x.graph \in Graphs
    BY <1>12, <1>13, <2>1 DEF OnlyFolds
  <2> QED BY <1>2, <1>3, <2>2
<1>19. MergesAs(g, x.graph, x.entry)
  <2> DEFINE v == x.entry
             h == x.graph
             left == {<<r, g.relation[r].state>> : r \in loops}
  <2>1. /\ v.from = from /\ v.to = to /\ v.subj = subj /\ v.cites = CitesOf(g, m)
        /\ v.twins = twins /\ v.folds = folded.folds /\ v.loops = left /\ h = folded.graph
    <3> HIDE DEF from, to, subj, twins, folded, left, x
    <3> QED BY <1>14 DEF left
  <2>2. /\ OnlyFolds(moved, h) /\ FoldsInto(moved, h, v.folds) /\ v.folds \in Seq(FoldRecords)
        /\ h.item = item /\ h \in Graphs /\ moved.relation = relation /\ moved.cite = cite
    <3> HIDE DEF folded, x, entity, relation, item, cite, moved
    <3> QED BY <1>12, <1>13, <2>1 DEF OnlyFolds
  <2>3. \A l \in v.loops : l[1] \in loops
    <3> HIDE DEF loops, x, v, h, folded, twins, from, to, subj
    <3> QED BY <2>1
  <2>4. loops \subseteq Relations /\ \A r \in loops : g.relation[r].state \notin {"none", "merged"}
    <3> HIDE DEF moving
    <3> QED BY <1>6
  <2>5. ASSUME NEW k \in Kinds, NEW r \in Claims, End(k, r)
        PROVE  /\ NameOf(h, k, r) = Moved(NameOf(g, k, r), v.m, v.s)
               /\ Took(v, k, r) <=> NameOf(g, k, r) = v.m
    <3>1. CASE k = "from" /\ r \in Relations
      <4>1. NameOf(h, k, r) = h.relation[r].from /\ NameOf(g, k, r) = g.relation[r].from
              /\ (Took(v, k, r) <=> r \in v.from)
        BY <3>1 DEF NameOf, Took
      <4> HIDE DEF x, h, v
      <4> QED BY <1>16, <1>17, <2>1, <3>1, <4>1 DEF MovesAll, h, v
    <3>2. CASE k = "to" /\ r \in Relations
      <4>1. NameOf(h, k, r) = h.relation[r].to /\ NameOf(g, k, r) = g.relation[r].to
              /\ (Took(v, k, r) <=> r \in v.to)
        BY <3>2 DEF NameOf, Took
      <4> HIDE DEF x, h, v
      <4> QED BY <1>16, <1>17, <2>1, <3>2, <4>1 DEF MovesAll, h, v
    <3>3. CASE k = "subj" /\ r \in Items
      <4>1. NameOf(h, k, r) = h.item[r].subject /\ NameOf(g, k, r) = g.item[r].subject
              /\ (Took(v, k, r) <=> r \in v.subj)
        BY <3>3 DEF NameOf, Took
      <4> HIDE DEF x, h, v
      <4> QED BY <1>16, <1>17, <2>1, <3>3, <4>1 DEF MovesAll, h, v
    <3> QED BY <2>5, <3>1, <3>2, <3>3 DEF End
  <2>6. \A c \in Cites : c \in v.cites <=> g.cite[c] = v.m
    <3> HIDE DEF x, v
    <3> QED BY <1>16, <2>1 DEF CitesOf, v
  <2>7. \A j \in 1..Len(v.folds) : v.folds[j].row \in Relations /\ v.folds[j].kept \in Relations
    <3>1. \A j \in 1..Len(v.folds) : v.folds[j] \in FoldRecords
      <4> HIDE DEF v, h, moved, relation, item, cite
      <4> QED BY <2>2
    <3> HIDE DEF v
    <3> QED BY <3>1 DEF FoldRecords
  <2>8. \A t \in v.twins : t.row \in Items /\ t.kept \in Items
    <3> HIDE DEF v, twins
    <3> QED BY <1>7, <2>1 DEF TwinRecords
  <2> HIDE DEF h, v, left, loops, relation, item, cite, twins, moved, x, subj
  <2>9. ASSUME NEW r \in Relations
        PROVE  /\ h.relation[r].born = g.relation[r].born
               /\ \/ h.relation[r].state = g.relation[r].state
                  \/ h.relation[r].state = "merged" /\ g.relation[r].state # "none"
               /\ GoneIn(v, r) => /\ g.relation[r].state = "live" /\ h.relation[r].state = "merged"
                                  /\ r \notin loops
               /\ KeptIn(v, r) => g.relation[r].state = "live" /\ g.cite[r] # r
               /\ \/ h.cite[r] = g.cite[r]
                  \/ /\ GoneIn(v, g.cite[r])
                     /\ h.cite[r] \in Relations /\ h.relation[h.cite[r]].state # "none"
    <3>1. /\ relation[r].born = g.relation[r].born
          /\ relation[r].state = IF r \in loops THEN "merged" ELSE g.relation[r].state
      BY <1>5
    <3>2. r \in Cites /\ cite[r] = g.cite[r]
      BY <1>9, Apart, CiteKinds
    <3>3. h.relation[r].born = relation[r].born
      BY <2>2 DEF OnlyFolds
    <3>4. \/ h.relation[r].state = relation[r].state
          \/ h.relation[r].state = "merged" /\ \E j \in 1..Len(v.folds) : v.folds[j].row = r
      BY <2>2 DEF FoldsInto
    <3>5. (\E j \in 1..Len(v.folds) : v.folds[j].row = r) =>
             relation[r].state = "live" /\ h.relation[r].state = "merged"
      BY <2>2 DEF FoldsInto, Live
    <3>6. (\E j \in 1..Len(v.folds) : v.folds[j].kept = r /\ r \in v.folds[j].shifted) =>
             relation[r].state = "live" /\ cite[r] # r
      BY <2>2 DEF FoldsInto, Live
    <3>7. \A t \in v.twins : t.row # r /\ t.kept # r
      BY <2>8, Apart
    <3>8. GoneIn(v, r) => relation[r].state = "live" /\ h.relation[r].state = "merged"
      BY <3>5, <3>7 DEF GoneIn
    <3>9. KeptIn(v, r) => relation[r].state = "live" /\ cite[r] # r
      BY <3>6, <3>7 DEF KeptIn
    <3>10. \/ h.cite[r] = g.cite[r]
           \/ /\ GoneIn(v, g.cite[r])
              /\ h.cite[r] \in Relations /\ h.relation[h.cite[r]].state # "none"
      BY <2>2, <3>2 DEF FoldsInto, GoneIn
    <3> QED BY <2>4, <3>1, <3>2, <3>3, <3>4, <3>5, <3>8, <3>9, <3>10
  <2>10. ASSUME NEW i \in Items
         PROVE  /\ h.item[i].born = g.item[i].born
                /\ \/ h.item[i].state = g.item[i].state
                   \/ h.item[i].state = "merged" /\ g.item[i].state # "none"
                /\ GoneIn(v, i) => g.item[i].state = "live" /\ h.item[i].state = "merged"
                /\ KeptIn(v, i) => g.item[i].state = "live" /\ g.cite[i] # i
                /\ \/ h.cite[i] = g.cite[i]
                   \/ /\ GoneIn(v, g.cite[i])
                      /\ h.cite[i] \in Items /\ h.item[h.cite[i]].state # "none"
    <3>1. i \in Cites /\ i \notin Relations /\ g.cite[i] # m /\ g.cite[i] \in Items \cup {None}
      BY Apart, CiteKinds
    <3>2. h.cite[i] = cite[i]
      BY <2>2, <3>1 DEF OnlyFolds
    <3>3. \A j \in 1..Len(v.folds) : v.folds[j].row # i /\ v.folds[j].kept # i
      BY <2>7, Apart
    <3>4. GoneIn(v, i) => \E t \in twins : t.row = i
      BY <2>1, <3>3 DEF GoneIn, v
    <3>5. GoneIn(v, i) => g.item[i].state = "live"
      BY <1>7, <3>4 DEF Live
    <3>6. ASSUME KeptIn(v, i) PROVE g.item[i].state = "live" /\ g.cite[i] # i
      <4>1. PICK t \in twins : t.kept = i /\ i \in t.shifted
        BY <2>1, <3>3, <3>6 DEF KeptIn, v
      <4>2. /\ Live(g.item[i]) /\ g.item[i].subject = s /\ t.row \in subj /\ t.shifted = CitesOf(g, t.row)
        BY <1>7, <1>20, <4>1
      <4>3. g.cite[i] = t.row /\ g.item[t.row].subject = m
        BY <4>1, <4>2 DEF CitesOf, subj
      <4> QED BY <4>2, <4>3 DEF Live
    <3>7. ASSUME h.cite[i] # g.cite[i]
          PROVE  /\ GoneIn(v, g.cite[i])
                 /\ h.cite[i] \in Items /\ h.item[h.cite[i]].state # "none"
      <4>1. PICK t \in twins : t.row = g.cite[i]
        BY <1>9, <3>1, <3>2, <3>7
      <4>2. GoneIn(v, g.cite[i])
        BY <2>1, <4>1 DEF GoneIn, v
      <4>3. g.cite[i] \in Items
        BY <1>7, <4>1 DEF TwinRecords
      <4>4. cite[i] \in Items /\ Live(g.item[cite[i]]) /\ g.item[cite[i]].subject = s
        BY <1>9, <3>1, <3>2, <3>7, <4>3
      <4>5. item[cite[i]] = g.item[cite[i]]
        BY <1>8, <4>4 DEF subj
      <4> QED BY <2>2, <3>2, <4>2, <4>4, <4>5 DEF Live
    <3>8. /\ item[i].born = g.item[i].born
          /\ (\E t \in twins : t.row = i) => item[i].state = "merged"
          /\ item[i].state = g.item[i].state \/ (item[i].state = "merged" /\ Live(g.item[i]))
      BY <1>8
    <3> QED BY <2>2, <3>4, <3>5, <3>6, <3>7, <3>8 DEF Live
  <2>11. ASSUME NEW y \in Claims
         PROVE  /\ BornOf(h, y) = BornOf(g, y)
                /\ \/ StateOf(h, y) = StateOf(g, y)
                   \/ StateOf(h, y) = "merged" /\ StateOf(g, y) # "none"
                /\ GoneIn(v, y) => /\ StateOf(g, y) = "live" /\ StateOf(h, y) = "merged"
                                   /\ \A l \in v.loops : l[1] # y
                /\ KeptIn(v, y) => StateOf(g, y) = "live" /\ g.cite[y] # y
                /\ \/ h.cite[y] = g.cite[y]
                   \/ GoneIn(v, g.cite[y]) /\ h.cite[y] \in Claims /\ StateOf(h, h.cite[y]) # "none"
    <3>1. CASE y \in Relations
      <4>1. BornOf(h, y) = h.relation[y].born /\ BornOf(g, y) = g.relation[y].born
              /\ StateOf(h, y) = h.relation[y].state /\ StateOf(g, y) = g.relation[y].state
        BY <3>1 DEF BornOf, StateOf
      <4>2. \A c \in Relations : c \in Claims /\ StateOf(h, c) = h.relation[c].state
        BY DEF StateOf, Claims
      <4> QED BY <2>3, <2>9, <3>1, <4>1, <4>2
    <3>2. CASE y \in Items
      <4>1. \A c \in Items : c \in Claims /\ StateOf(h, c) = h.item[c].state /\ c \notin Relations
        BY Apart DEF StateOf, Claims
      <4>2. BornOf(h, y) = h.item[y].born /\ BornOf(g, y) = g.item[y].born
              /\ StateOf(h, y) = h.item[y].state /\ StateOf(g, y) = g.item[y].state
        BY <3>2, <4>1 DEF BornOf, StateOf
      <4>3. \A l \in v.loops : l[1] # y
        BY <2>3, <2>4, <3>2, <4>1
      <4> QED BY <2>10, <3>2, <4>1, <4>2, <4>3
    <3> QED BY <3>1, <3>2 DEF Claims
  <2>12. \A l \in v.loops : StateOf(g, l[1]) \notin {"none", "merged"} /\ StateOf(h, l[1]) = "merged"
    <3> SUFFICES ASSUME NEW r \in loops
                 PROVE  StateOf(g, r) \notin {"none", "merged"} /\ StateOf(h, r) = "merged"
      BY <2>3
    <3>1. r \in Relations /\ g.relation[r].state \notin {"none", "merged"}
      BY <2>4
    <3>2. relation[r].state = "merged"
      BY <1>5, <3>1
    <3>3. h.relation[r].state = "merged"
      BY <2>2, <3>1, <3>2 DEF FoldsInto
    <3> QED BY <3>1, <3>3 DEF StateOf
  <2>13. MergesAs(g, h, v)
    BY <2>5, <2>6, <2>11, <2>12 DEF MergesAs
  <2> QED BY <2>13 DEF h, v
<1> HIDE DEF x
<1> QED BY <1>15, <1>16, <1>17, <1>18, <1>19 DEF x

-------------------------------------------------------------------------------
(* Reversing a merge.                                                      *)

\* What the reversal does: some of what named s names m, and a merged item may be live.
MovesSome(g, h, s, m) ==
  /\ \A r \in Relations : /\ h.relation[r].from \in {g.relation[r].from, Moved(g.relation[r].from, s, m)}
                          /\ h.relation[r].to \in {g.relation[r].to, Moved(g.relation[r].to, s, m)}
                          /\ h.relation[r].state = "none" <=> g.relation[r].state = "none"
  /\ \A i \in Items : /\ h.item[i].subject \in {g.item[i].subject, Moved(g.item[i].subject, s, m)}
                      /\ h.item[i].state = "none" <=> g.item[i].state = "none"
  /\ \A c \in Entities \cup Links : h.cite[c] \in {g.cite[c], Moved(g.cite[c], s, m)}
  /\ \A c \in Cites : g.cite[c] \in Items =>
       /\ h.cite[c] \in Items
       /\ g.item[g.cite[c]].state # "merged" => h.item[h.cite[c]].state # "merged"
  /\ \A c \in Cites : h.cite[c] \in Items => g.cite[c] \in Items

\* What the reversal of v makes of the claims of g: the ends it takes back, and the rows that
\* it gives back with the citations that were shifted from them.
ReversesAs(g, h, v) ==
  /\ \A k \in Kinds : \A r \in Claims : End(k, r) =>
       NameOf(h, k, r) = IF Took(v, k, r) /\ NameOf(g, k, r) = v.s THEN v.m ELSE NameOf(g, k, r)
  /\ \A c \in Entities \cup Links :
       h.cite[c] = IF c \in v.cites /\ g.cite[c] = v.s THEN v.m ELSE g.cite[c]
  /\ \A x \in Claims :
       /\ BornOf(h, x) = BornOf(g, x)
       /\ \/ StateOf(h, x) = StateOf(g, x)
          \/ /\ StateOf(g, x) = "merged" /\ StateOf(h, x) # "none"
             /\ GoneIn(v, x) \/ \E l \in v.loops : l[1] = x
       /\ \/ h.cite[x] = g.cite[x]
          \/ GoneIn(v, h.cite[x]) /\ g.cite[x] # None /\ (g.cite[x] = x => KeptIn(v, x))

\* What is returned to the entity that was merged.
LEMMA ReturnedDoes ==
  ASSUME clock \in Nat, NEW g \in Graphs, NEW v, v.m \in Entities
  PROVE  /\ Returned(g, v) \in Graphs
         /\ Returned(g, v).entity = g.entity /\ Returned(g, v).cite = g.cite
         /\ Returned(g, v).learned = g.learned
         /\ \A r \in Relations :
              /\ Returned(g, v).relation[r].from \in {g.relation[r].from, Moved(g.relation[r].from, v.s, v.m)}
              /\ Returned(g, v).relation[r].to \in {g.relation[r].to, Moved(g.relation[r].to, v.s, v.m)}
              /\ Returned(g, v).relation[r].state = g.relation[r].state
         /\ \A i \in Items :
              /\ Returned(g, v).item[i].subject \in {g.item[i].subject, Moved(g.item[i].subject, v.s, v.m)}
              /\ Returned(g, v).item[i].state = g.item[i].state
         /\ \A r \in Relations :
              /\ Returned(g, v).relation[r].born = g.relation[r].born
              /\ Returned(g, v).relation[r].from
                   = IF r \in v.from /\ g.relation[r].from = v.s THEN v.m ELSE g.relation[r].from
              /\ Returned(g, v).relation[r].to
                   = IF r \in v.to /\ g.relation[r].to = v.s THEN v.m ELSE g.relation[r].to
         /\ \A i \in Items :
              /\ Returned(g, v).item[i].born = g.item[i].born
              /\ Returned(g, v).item[i].subject
                   = IF i \in v.subj /\ g.item[i].subject = v.s THEN v.m ELSE g.item[i].subject
<1> DEFINE back(r) == [g.relation[r] EXCEPT !.from = IF r \in v.from /\ @ = v.s THEN v.m ELSE @,
                                            !.to = IF r \in v.to /\ @ = v.s THEN v.m ELSE @]
           relation == [r \in Relations |-> IF back(r) = g.relation[r] THEN g.relation[r]
                                            ELSE [back(r) EXCEPT !.touched = Now]]
           item == [i \in Items |-> IF i \in v.subj /\ g.item[i].subject = v.s
                                    THEN [g.item[i] EXCEPT !.subject = v.m, !.touched = Now] ELSE g.item[i]]
           h == Returned(g, v)
<1>1. /\ g.relation \in [Relations -> RelationRows] /\ g.item \in [Items -> ItemRows] /\ Now \in Nat
  BY PartsOf DEF Now
<1>2. ASSUME NEW r \in Relations
      PROVE  /\ back(r) \in RelationRows /\ back(r).state = g.relation[r].state
             /\ back(r).born = g.relation[r].born
             /\ back(r).from = IF r \in v.from /\ g.relation[r].from = v.s THEN v.m ELSE g.relation[r].from
             /\ back(r).to = IF r \in v.to /\ g.relation[r].to = v.s THEN v.m ELSE g.relation[r].to
             /\ back(r).from \in {g.relation[r].from, Moved(g.relation[r].from, v.s, v.m)}
             /\ back(r).to \in {g.relation[r].to, Moved(g.relation[r].to, v.s, v.m)}
  <2>1. g.relation[r] \in RelationRows
    BY <1>1
  <2> QED BY <2>1 DEF RelationRows, Moved
<1>3. ASSUME NEW r \in Relations
      PROVE  /\ relation[r] \in RelationRows /\ relation[r].state = g.relation[r].state
             /\ relation[r].from \in {g.relation[r].from, Moved(g.relation[r].from, v.s, v.m)}
             /\ relation[r].born = g.relation[r].born
             /\ relation[r].from = back(r).from /\ relation[r].to = back(r).to
             /\ relation[r].to \in {g.relation[r].to, Moved(g.relation[r].to, v.s, v.m)}
  <2>1. CASE back(r) = g.relation[r]
    <3>1. relation[r] = g.relation[r]
      BY <2>1
    <3> HIDE DEF relation, back
    <3> QED BY <1>1, <1>2, <2>1, <3>1
  <2>2. CASE back(r) # g.relation[r]
    <3>1. relation[r] = [back(r) EXCEPT !.touched = Now]
      BY <2>2
    <3> HIDE DEF relation, back
    <3> QED BY <1>1, <1>2, <3>1 DEF RelationRows
  <2> QED BY <2>1, <2>2
<1>4. ASSUME NEW i \in Items
      PROVE  /\ item[i] \in ItemRows /\ item[i].state = g.item[i].state
             /\ item[i].subject \in {g.item[i].subject, Moved(g.item[i].subject, v.s, v.m)}
             /\ item[i].born = g.item[i].born
             /\ item[i].subject = IF i \in v.subj /\ g.item[i].subject = v.s THEN v.m ELSE g.item[i].subject
  <2>1. g.item[i] \in ItemRows
    BY <1>1
  <2> QED BY <1>1, <2>1 DEF ItemRows, Moved
<1>5. relation \in [Relations -> RelationRows] /\ item \in [Items -> ItemRows]
  <2>1. relation = [r \in Relations |-> relation[r]] /\ item = [i \in Items |-> item[i]]
    BY Zenon
  <2> HIDE DEF relation, item
  <2> QED BY <1>3, <1>4, <2>1
<1>6. h = [g EXCEPT !.relation = relation, !.item = item]
  BY DEF Returned
<1>7. /\ h \in Graphs /\ h.entity = g.entity /\ h.cite = g.cite /\ h.learned = g.learned
      /\ h.relation = relation /\ h.item = item
  <2> HIDE DEF relation, item, h
  <2> QED BY <1>5, <1>6 DEF Graphs
<1>8. \A r \in Relations :
              /\ h.relation[r].from \in {g.relation[r].from, Moved(g.relation[r].from, v.s, v.m)}
              /\ h.relation[r].to \in {g.relation[r].to, Moved(g.relation[r].to, v.s, v.m)}
              /\ h.relation[r].state = g.relation[r].state
  <2> HIDE DEF relation, item, h
  <2> QED BY <1>3, <1>7
<1>9. \A i \in Items :
              /\ h.item[i].subject \in {g.item[i].subject, Moved(g.item[i].subject, v.s, v.m)}
              /\ h.item[i].state = g.item[i].state
  <2> HIDE DEF relation, item, h
  <2> QED BY <1>4, <1>7
<1>10. ASSUME NEW r \in Relations
       PROVE  /\ h.relation[r].born = g.relation[r].born
              /\ h.relation[r].from = IF r \in v.from /\ g.relation[r].from = v.s THEN v.m
                                      ELSE g.relation[r].from
              /\ h.relation[r].to = IF r \in v.to /\ g.relation[r].to = v.s THEN v.m ELSE g.relation[r].to
  <2> HIDE DEF relation, item, h, back
  <2> QED BY <1>2, <1>3, <1>7
<1>11. ASSUME NEW i \in Items
       PROVE  /\ h.item[i].born = g.item[i].born
              /\ h.item[i].subject = IF i \in v.subj /\ g.item[i].subject = v.s THEN v.m
                                     ELSE g.item[i].subject
  <2> HIDE DEF relation, item, h
  <2> QED BY <1>4, <1>7
<1> HIDE DEF h, relation, item
<1> QED BY <1>7, <1>8, <1>9, <1>10, <1>11 DEF h

\* A reversal: the tombstone is live, and what moves moves back.
LEMMA ReverseInDoes ==
  ASSUME clock \in Nat, NEW g \in Graphs, NEW v \in MergeRecords
  PROVE  LET h == ReverseIn(g, v) IN
         /\ h \in Graphs /\ h.learned = g.learned
         /\ h.entity[v.m].state = "live" /\ h.entity[v.m].into = None
         /\ \A e \in Entities \ {v.m} : h.entity[e] = g.entity[e]
         /\ MovesSome(g, h, v.s, v.m) /\ ReversesAs(g, h, v)
<1> DEFINE base == Returned(g, v)
           back == Unmerged(g, v)
           twinOf(i) == CHOOSE t \in v.twins : t.row = i
           isTwin(i) == \E t \in v.twins : t.row = i
           loop(r) == CHOOSE l \in v.loops : l[1] = r
           risen == [back.entity[v.m] EXCEPT !.state = "live", !.into = None, !.touched = Now]
           entity == [back.entity EXCEPT ![v.m] = risen]
           relation == [r \in Relations |->
              IF back.relation[r].state = "merged" /\ \E l \in v.loops : l[1] = r
              THEN [back.relation[r] EXCEPT !.state = loop(r)[2], !.touched = Now] ELSE back.relation[r]]
           item == [i \in Items |-> IF isTwin(i) /\ back.item[i].state = "merged"
                                    THEN [back.item[i] EXCEPT !.state = "live", !.touched = Now]
                                    ELSE back.item[i]]
           away(c, t) == c \in t.shifted /\ back.cite[c] = t.kept
           cite == [c \in Cites |->
              IF \E t \in v.twins : c \in t.shifted /\ back.cite[c] = t.kept
              THEN (CHOOSE t \in v.twins : c \in t.shifted /\ back.cite[c] = t.kept).row
              ELSE IF c \in v.cites /\ back.cite[c] = v.s THEN v.m ELSE back.cite[c]]
           h == ReverseIn(g, v)
<1>0. /\ v.m \in Entities /\ v.s \in Entities /\ v.folds \in Seq(FoldRecords)
      /\ v.twins \subseteq TwinRecords /\ v.loops \subseteq LoopRecords /\ Now \in Nat
  BY DEF MergeRecords, Now
<1>1. /\ base \in Graphs /\ base.entity = g.entity /\ base.cite = g.cite /\ base.learned = g.learned
      /\ \A r \in Relations :
              /\ base.relation[r].from \in {g.relation[r].from, Moved(g.relation[r].from, v.s, v.m)}
              /\ base.relation[r].to \in {g.relation[r].to, Moved(g.relation[r].to, v.s, v.m)}
              /\ base.relation[r].state = g.relation[r].state
      /\ \A i \in Items :
              /\ base.item[i].subject \in {g.item[i].subject, Moved(g.item[i].subject, v.s, v.m)}
              /\ base.item[i].state = g.item[i].state
  BY <1>0, ReturnedDoes
<1>2. back \in Graphs /\ OnlyFolds(base, back)
  BY <1>0, <1>1, UnmergedTyped
<1>14. UnfoldsFrom(base, back, v.folds)
  BY <1>0, <1>1, UnmergedTyped
<1>15. /\ \A r \in Relations :
            /\ base.relation[r].born = g.relation[r].born
            /\ base.relation[r].from = IF r \in v.from /\ g.relation[r].from = v.s THEN v.m
                                       ELSE g.relation[r].from
            /\ base.relation[r].to = IF r \in v.to /\ g.relation[r].to = v.s THEN v.m ELSE g.relation[r].to
       /\ \A i \in Items :
            /\ base.item[i].born = g.item[i].born
            /\ base.item[i].subject = IF i \in v.subj /\ g.item[i].subject = v.s THEN v.m
                                      ELSE g.item[i].subject
  BY <1>0, ReturnedDoes
<1> HIDE DEF back, base
<1>3. /\ back.entity \in [Entities -> EntityRows] /\ back.relation \in [Relations -> RelationRows]
      /\ back.item \in [Items -> ItemRows] /\ back.cite \in Citations
  BY <1>2, PartsOf
<1>4. /\ entity \in [Entities -> EntityRows] /\ entity[v.m].state = "live" /\ entity[v.m].into = None
      /\ \A e \in Entities \ {v.m} : entity[e] = g.entity[e]
  <2>1. risen \in EntityRows /\ risen.state = "live" /\ risen.into = None
    <3>1. back.entity[v.m] \in EntityRows
      BY <1>0, <1>3
    <3> QED BY <1>0, <3>1 DEF EntityRows
  <2>2. back.entity = g.entity
    BY <1>1, <1>2 DEF OnlyFolds
  <2> HIDE DEF risen
  <2> QED BY <1>0, <1>3, <2>1, <2>2
<1>5. ASSUME NEW r \in Relations
      PROVE  /\ relation[r] \in RelationRows /\ relation[r].from = back.relation[r].from
             /\ relation[r].to = back.relation[r].to
             /\ relation[r].state = "none" <=> back.relation[r].state = "none"
             /\ relation[r].born = back.relation[r].born
             /\ \/ relation[r].state = back.relation[r].state
                \/ back.relation[r].state = "merged" /\ \E l \in v.loops : l[1] = r
  <2>1. back.relation[r] \in RelationRows
    BY <1>3
  <2>2. CASE back.relation[r].state = "merged" /\ \E l \in v.loops : l[1] = r
    <3>1. loop(r) \in v.loops
      BY <2>2
    <3>2. loop(r)[2] \in {"live", "rejected"}
      <4> HIDE DEF loop
      <4> QED BY <1>0, <3>1 DEF LoopRecords
    <3>3. relation[r] = [back.relation[r] EXCEPT !.state = loop(r)[2], !.touched = Now]
      BY <2>2
    <3> HIDE DEF relation, loop
    <3> QED BY <1>0, <2>1, <2>2, <3>2, <3>3 DEF RelationRows
  <2>3. CASE ~(back.relation[r].state = "merged" /\ \E l \in v.loops : l[1] = r)
    <3>1. relation[r] = back.relation[r]
      BY <2>3
    <3> HIDE DEF relation
    <3> QED BY <2>1, <3>1
  <2> QED BY <2>2, <2>3
<1>6. ASSUME NEW i \in Items
      PROVE  /\ item[i] \in ItemRows /\ item[i].subject = back.item[i].subject
             /\ item[i].state = "none" <=> back.item[i].state = "none"
             /\ item[i].state = "merged" => back.item[i].state = "merged" /\ ~isTwin(i)
             /\ item[i].born = back.item[i].born
             /\ \/ item[i].state = back.item[i].state
                \/ back.item[i].state = "merged" /\ isTwin(i)
  <2>1. back.item[i] \in ItemRows
    BY <1>3
  <2> HIDE DEF isTwin
  <2> QED BY <1>0, <2>1 DEF ItemRows
<1>7. ASSUME NEW c \in Cites
      PROVE  \/ cite[c] \in Items /\ back.cite[c] \in Items /\ isTwin(cite[c])
             \/ cite[c] = Moved(back.cite[c], v.s, v.m) /\ back.cite[c] \notin Items
             \/ cite[c] = back.cite[c]
  <2> DEFINE t == CHOOSE t \in v.twins : c \in t.shifted /\ back.cite[c] = t.kept
  <2>1. CASE \E t_1 \in v.twins : c \in t_1.shifted /\ back.cite[c] = t_1.kept
    <3>1. t \in v.twins /\ c \in t.shifted /\ back.cite[c] = t.kept
      BY <2>1
    <3>2. cite[c] = t.row
      BY <2>1
    <3> HIDE DEF t, cite
    <3> QED BY <1>0, <3>1, <3>2 DEF TwinRecords
  <2>2. CASE ~ \E t_1 \in v.twins : c \in t_1.shifted /\ back.cite[c] = t_1.kept
    <3>1. cite[c] = IF c \in v.cites /\ back.cite[c] = v.s THEN v.m ELSE back.cite[c]
      BY <2>2
    <3> HIDE DEF cite
    <3> QED BY <1>0, <3>1, Apart DEF Moved
  <2> QED BY <2>1, <2>2
<1>16. ASSUME NEW c \in Cites
       PROVE  \/ \E t \in v.twins : t.row = cite[c] /\ c \in t.shifted /\ t.kept = back.cite[c]
              \/ cite[c] = IF c \in v.cites /\ back.cite[c] = v.s THEN v.m ELSE back.cite[c]
  <2> DEFINE t == CHOOSE t \in v.twins : c \in t.shifted /\ back.cite[c] = t.kept
  <2>1. CASE \E t_1 \in v.twins : c \in t_1.shifted /\ back.cite[c] = t_1.kept
    <3>1. t \in v.twins /\ c \in t.shifted /\ back.cite[c] = t.kept
      BY <2>1
    <3>2. cite[c] = t.row
      BY <2>1
    <3> HIDE DEF t, cite
    <3> QED BY <3>1, <3>2
  <2>2. CASE ~ \E t_1 \in v.twins : c \in t_1.shifted /\ back.cite[c] = t_1.kept
    BY <2>2
  <2> QED BY <2>1, <2>2
<1>8. cite \in Citations
  <2>1. ASSUME NEW c \in Cites
        PROVE  \/ cite[c] = back.cite[c] \/ cite[c] = None
               \/ cite[c] \in Entities /\ c \in Entities \cup Links
               \/ cite[c] \in Relations /\ c \in Relations
               \/ cite[c] \in Items /\ c \in Items
    <3> HIDE DEF cite, isTwin
    <3>1. CASE cite[c] \in Items /\ back.cite[c] \in Items
      BY <1>2, <3>1, CiteKinds
    <3>2. CASE cite[c] = Moved(back.cite[c], v.s, v.m)
      BY <1>0, <1>2, <3>2, CiteKinds DEF Moved
    <3> QED BY <1>7, <3>1, <3>2
  <2>2. cite = [c \in Cites |-> cite[c]] /\ DOMAIN cite = Cites
    BY Zenon
  <2> HIDE DEF cite
  <2> QED BY <1>3, <2>1, <2>2, CitationsOf
<1>9. relation \in [Relations -> RelationRows] /\ item \in [Items -> ItemRows]
  <2>1. relation = [r \in Relations |-> relation[r]] /\ item = [i \in Items |-> item[i]]
    BY Zenon
  <2> HIDE DEF relation, item
  <2> QED BY <1>5, <1>6, <2>1
<1>10. h = [back EXCEPT !.entity = entity, !.relation = relation, !.item = item, !.cite = cite]
  BY <1>0, <1>2, PartsOf DEF ReverseIn, back
<1>11. /\ h \in Graphs /\ h.entity = entity /\ h.relation = relation /\ h.item = item /\ h.cite = cite
       /\ h.learned = g.learned
  <2>1. back.learned = g.learned
    BY <1>1, <1>2 DEF OnlyFolds
  <2> HIDE DEF entity, relation, item, cite, h
  <2> QED BY <1>2, <1>4, <1>8, <1>9, <1>10, <2>1 DEF Graphs
<1>12. MovesSome(g, h, v.s, v.m)
  <2> HIDE DEF entity, relation, item, cite, h
  <2>1. ASSUME NEW r \in Relations
        PROVE  /\ h.relation[r].from \in {g.relation[r].from, Moved(g.relation[r].from, v.s, v.m)}
               /\ h.relation[r].to \in {g.relation[r].to, Moved(g.relation[r].to, v.s, v.m)}
               /\ h.relation[r].state = "none" <=> g.relation[r].state = "none"
    BY <1>1, <1>2, <1>5, <1>11 DEF OnlyFolds
  <2>2. ASSUME NEW i \in Items
        PROVE  /\ h.item[i].subject \in {g.item[i].subject, Moved(g.item[i].subject, v.s, v.m)}
               /\ h.item[i].state = "none" <=> g.item[i].state = "none"
               /\ h.item[i].state = "merged" => g.item[i].state = "merged" /\ ~isTwin(i)
    BY <1>1, <1>2, <1>6, <1>11 DEF OnlyFolds
  <2>3. ASSUME NEW c \in Cites, c \notin Relations
        PROVE  back.cite[c] = g.cite[c]
    BY <1>1, <1>2, <2>3 DEF OnlyFolds
  <2>4. ASSUME NEW c \in Entities \cup Links
        PROVE  h.cite[c] \in {g.cite[c], Moved(g.cite[c], v.s, v.m)}
    <3>1. c \in Cites /\ c \notin Relations /\ back.cite[c] \notin Items
      BY <1>2, Apart, CiteKinds
    <3> QED BY <1>7, <1>11, <2>3, <3>1
  <2>5. ASSUME NEW c \in Cites, g.cite[c] \in Items
        PROVE  /\ h.cite[c] \in Items
               /\ g.item[g.cite[c]].state # "merged" => h.item[h.cite[c]].state # "merged"
    <3>1. c \notin Relations /\ back.cite[c] = g.cite[c]
      BY <2>3, <2>5, Apart, CiteKinds
    <3> HIDE DEF isTwin
    <3> QED BY <1>7, <1>11, <2>2, <2>5, <3>1
  <2>6. ASSUME NEW c \in Cites, h.cite[c] \in Items
        PROVE  g.cite[c] \in Items
    <3>1. h \in Graphs
      BY <1>11
    <3>2. c \in Items /\ c \notin Relations
      BY <2>6, <3>1, Apart, CiteKinds
    <3>3. back.cite[c] = g.cite[c] /\ h.cite[c] = cite[c]
      BY <1>11, <2>3, <3>2
    <3> HIDE DEF isTwin
    <3> QED BY <1>0, <1>7, <2>6, <3>2, <3>3, Apart DEF Moved
  <2> HIDE DEF isTwin
  <2> QED BY <2>1, <2>2, <2>4, <2>5, <2>6 DEF MovesSome
<1>13. h.entity[v.m].state = "live" /\ h.entity[v.m].into = None /\ h.learned = g.learned
         /\ (\A e \in Entities \ {v.m} : h.entity[e] = g.entity[e]) /\ h \in Graphs
  <2> HIDE DEF entity, relation, item, cite, h
  <2> QED BY <1>4, <1>11
<1>17. ReversesAs(g, h, v)
  <2> HIDE DEF entity, relation, item, cite, h
  <2>1. ASSUME NEW k \in Kinds, NEW r \in Claims, End(k, r)
        PROVE  NameOf(h, k, r) = IF Took(v, k, r) /\ NameOf(g, k, r) = v.s THEN v.m ELSE NameOf(g, k, r)
    <3>1. CASE k = "from" /\ r \in Relations
      <4>1. NameOf(h, k, r) = h.relation[r].from /\ NameOf(g, k, r) = g.relation[r].from
              /\ (Took(v, k, r) <=> r \in v.from)
        BY <3>1 DEF NameOf, Took
      <4> QED BY <1>2, <1>5, <1>11, <1>15, <3>1, <4>1 DEF OnlyFolds
    <3>2. CASE k = "to" /\ r \in Relations
      <4>1. NameOf(h, k, r) = h.relation[r].to /\ NameOf(g, k, r) = g.relation[r].to
              /\ (Took(v, k, r) <=> r \in v.to)
        BY <3>2 DEF NameOf, Took
      <4> QED BY <1>2, <1>5, <1>11, <1>15, <3>2, <4>1 DEF OnlyFolds
    <3>3. CASE k = "subj" /\ r \in Items
      <4>1. NameOf(h, k, r) = h.item[r].subject /\ NameOf(g, k, r) = g.item[r].subject
              /\ (Took(v, k, r) <=> r \in v.subj)
        BY <3>3 DEF NameOf, Took
      <4> QED BY <1>2, <1>6, <1>11, <1>15, <3>3, <4>1 DEF OnlyFolds
    <3> QED BY <2>1, <3>1, <3>2, <3>3 DEF End
  <2>2. ASSUME NEW c \in Entities \cup Links
        PROVE  h.cite[c] = IF c \in v.cites /\ g.cite[c] = v.s THEN v.m ELSE g.cite[c]
    <3>1. c \in Cites /\ c \notin Relations /\ g.cite[c] \notin Items
      BY Apart, CiteKinds
    <3>2. back.cite[c] = g.cite[c]
      BY <1>1, <1>2, <3>1 DEF OnlyFolds
    <3>3. \A t \in v.twins : t.kept # back.cite[c]
      BY <1>0, <3>1, <3>2 DEF TwinRecords
    <3> QED BY <1>11, <1>16, <3>1, <3>2, <3>3
  <2>3. \A j \in 1..Len(v.folds) : v.folds[j].row \in Relations /\ v.folds[j].kept \in Relations
    <3>1. \A j \in 1..Len(v.folds) : v.folds[j] \in FoldRecords
      BY <1>0
    <3> QED BY <3>1 DEF FoldRecords
  <2>4. \A t \in v.twins : t.row \in Items /\ t.kept \in Items
    BY <1>0 DEF TwinRecords
  <2>5. ASSUME NEW r \in Relations
        PROVE  /\ h.relation[r].born = g.relation[r].born
               /\ \/ h.relation[r].state = g.relation[r].state
                  \/ /\ g.relation[r].state = "merged" /\ h.relation[r].state # "none"
                     /\ GoneIn(v, r) \/ \E l \in v.loops : l[1] = r
               /\ \/ h.cite[r] = g.cite[r]
                  \/ GoneIn(v, h.cite[r]) /\ g.cite[r] # None /\ (g.cite[r] = r => KeptIn(v, r))
    <3>1. h.relation[r].born = g.relation[r].born
      BY <1>2, <1>5, <1>11, <1>15 DEF OnlyFolds
    <3>2. \/ back.relation[r].state = g.relation[r].state
          \/ g.relation[r].state = "merged" /\ back.relation[r].state = "live" /\ GoneIn(v, r)
      BY <1>1, <1>14 DEF UnfoldsFrom, GoneIn
    <3>3. r \in Cites /\ back.cite[r] \notin Items /\ back.cite[r] # v.s
      BY <1>0, <1>2, Apart, CiteKinds
    <3>4. h.cite[r] = back.cite[r]
      BY <1>11, <1>16, <2>4, <3>3
    <3>5. \/ h.cite[r] = g.cite[r]
          \/ GoneIn(v, h.cite[r]) /\ g.cite[r] # None /\ (g.cite[r] = r => KeptIn(v, r))
      BY <1>1, <1>14, <2>3, <3>3, <3>4, Apart DEF UnfoldsFrom, GoneIn, KeptIn
    <3>6. /\ h.relation[r].state = "none" <=> back.relation[r].state = "none"
          /\ \/ h.relation[r].state = back.relation[r].state
             \/ back.relation[r].state = "merged" /\ \E l \in v.loops : l[1] = r
      BY <1>5, <1>11
    <3> QED BY <3>1, <3>2, <3>5, <3>6
  <2>6. ASSUME NEW i \in Items
        PROVE  /\ h.item[i].born = g.item[i].born
               /\ \/ h.item[i].state = g.item[i].state
                  \/ g.item[i].state = "merged" /\ h.item[i].state # "none" /\ GoneIn(v, i)
               /\ \/ h.cite[i] = g.cite[i]
                  \/ GoneIn(v, h.cite[i]) /\ g.cite[i] # None /\ (g.cite[i] = i => KeptIn(v, i))
    <3>1. i \in Cites /\ i \notin Relations /\ g.cite[i] # v.s
      BY <1>0, Apart, CiteKinds
    <3>2. back.cite[i] = g.cite[i] /\ back.item[i].state = g.item[i].state /\ back.item[i].born = g.item[i].born
      BY <1>1, <1>2, <1>15, <3>1 DEF OnlyFolds
    <3>3. \/ h.cite[i] = g.cite[i]
          \/ GoneIn(v, h.cite[i]) /\ g.cite[i] # None /\ (g.cite[i] = i => KeptIn(v, i))
      BY <1>11, <1>16, <2>4, <3>1, <3>2, Apart DEF GoneIn, KeptIn
    <3>4. isTwin(i) => GoneIn(v, i)
      BY DEF GoneIn
    <3> HIDE DEF isTwin
    <3> QED BY <1>6, <1>11, <3>2, <3>3, <3>4
  <2>7. ASSUME NEW x \in Claims
        PROVE  /\ BornOf(h, x) = BornOf(g, x)
               /\ \/ StateOf(h, x) = StateOf(g, x)
                  \/ /\ StateOf(g, x) = "merged" /\ StateOf(h, x) # "none"
                     /\ GoneIn(v, x) \/ \E l \in v.loops : l[1] = x
               /\ \/ h.cite[x] = g.cite[x]
                  \/ GoneIn(v, h.cite[x]) /\ g.cite[x] # None /\ (g.cite[x] = x => KeptIn(v, x))
    <3>1. CASE x \in Relations
      <4>1. BornOf(h, x) = h.relation[x].born /\ BornOf(g, x) = g.relation[x].born
              /\ StateOf(h, x) = h.relation[x].state /\ StateOf(g, x) = g.relation[x].state
        BY <3>1 DEF BornOf, StateOf
      <4> QED BY <2>5, <3>1, <4>1
    <3>2. CASE x \in Items
      <4>1. BornOf(h, x) = h.item[x].born /\ BornOf(g, x) = g.item[x].born
              /\ StateOf(h, x) = h.item[x].state /\ StateOf(g, x) = g.item[x].state
        BY <3>2, Apart DEF BornOf, StateOf
      <4> QED BY <2>6, <3>2, <4>1
    <3> QED BY <3>1, <3>2 DEF Claims
  <2> QED BY <2>1, <2>2, <2>7 DEF ReversesAs
<1> HIDE DEF h
<1> QED BY <1>12, <1>13, <1>17 DEF h

-------------------------------------------------------------------------------
(* The rows of a commit.                                                   *)

RunRecords == [graph : Graphs, log : Logs, merges : Seq(MergeRecords)]

\* The kinds of a citation and of what it is about agree.
Fits(c, x) == \/ c \in Entities \cup Links /\ x \in Entities
              \/ c \in Relations /\ x \in Relations
              \/ c \in Items /\ x \in Items

\* The parts of a run.
LEMMA RunParts ==
  ASSUME NEW x \in RunRecords
  PROVE  /\ x.graph \in Graphs /\ x.log \in Logs /\ x.merges \in Seq(MergeRecords)
         /\ DOMAIN x = {"graph", "log", "merges"}
         /\ DOMAIN x.log = {"created", "added", "learned", "changes", "closings", "fills", "merges"}
BY DEF RunRecords, Logs

\* A row of a proposal cites what is there.
LEMMA CitedDoes ==
  ASSUME NEW x \in RunRecords, NEW w, NEW subject, w.name \in Cites, Fits(w.name, subject)
  PROVE  LET y == Cited(x, w, subject) IN
         /\ y \in RunRecords /\ y.merges = x.merges
         /\ y.graph.entity = x.graph.entity /\ y.graph.relation = x.graph.relation
         /\ y.graph.item = x.graph.item /\ y.graph.learned = x.graph.learned
         /\ y.graph.cite = [x.graph.cite EXCEPT ![w.name] = subject]
         /\ y.log.created = x.log.created /\ y.log.merges = x.log.merges
         /\ y.log.added = x.log.added \cup {w.name}
         /\ y.log.changes = x.log.changes /\ y.log.closings = x.log.closings
         /\ y.log.fills = x.log.fills /\ y.log.learned = x.log.learned
<1> DEFINE y == Cited(x, w, subject)
           cite == [x.graph.cite EXCEPT ![w.name] = subject]
           added == x.log.added \cup {w.name}
<1>1. y = [x EXCEPT !.graph = [x.graph EXCEPT !.cite = cite], !.log = [x.log EXCEPT !.added = added]]
  <2>1. x.graph.cite \in Citations
    BY RunParts, PartsOf
  <2> QED BY <2>1, RunParts DEF Cited, RunRecords
<1>2. cite \in Citations
  <2>1. x.graph.cite \in Citations
    BY RunParts, PartsOf
  <2>2. \A c \in Cites : cite[c] = IF c = w.name THEN subject ELSE x.graph.cite[c]
    BY <2>1 DEF Citations
  <2>3. cite = [c \in Cites |-> cite[c]] /\ DOMAIN cite = Cites
    BY <2>1 DEF Citations
  <2> HIDE DEF cite
  <2> QED BY <2>1, <2>2, <2>3, CitationsOf DEF Fits
<1>3. added \subseteq Cites
  BY RunParts DEF Logs
<1>4. /\ [x.graph EXCEPT !.cite = cite] \in Graphs
      /\ [x.graph EXCEPT !.cite = cite].entity = x.graph.entity
      /\ [x.graph EXCEPT !.cite = cite].relation = x.graph.relation
      /\ [x.graph EXCEPT !.cite = cite].item = x.graph.item
      /\ [x.graph EXCEPT !.cite = cite].learned = x.graph.learned
      /\ [x.graph EXCEPT !.cite = cite].cite = cite
  <2> HIDE DEF cite
  <2> QED BY <1>2, RunParts DEF Graphs
<1>5. LET l == [x.log EXCEPT !.added = added] IN
      /\ l \in Logs /\ l.created = x.log.created /\ l.merges = x.log.merges /\ l.added = added
      /\ l.changes = x.log.changes /\ l.closings = x.log.closings /\ l.fills = x.log.fills
      /\ l.learned = x.log.learned
  <2> HIDE DEF added
  <2> QED BY <1>3, RunParts DEF Logs
<1> DEFINE graph_1 == [x.graph EXCEPT !.cite = cite]
           log_1 == [x.log EXCEPT !.added = added]
<1>6. y \in RunRecords /\ y.graph = graph_1 /\ y.log = log_1 /\ y.merges = x.merges
  <2> HIDE DEF y, graph_1, log_1
  <2>1. y = [x EXCEPT !.graph = graph_1, !.log = log_1]
    BY <1>1 DEF graph_1, log_1
  <2>2. graph_1 \in Graphs /\ log_1 \in Logs
    BY <1>4, <1>5 DEF graph_1, log_1
  <2> QED BY <2>1, <2>2 DEF RunRecords
<1> HIDE DEF y, cite, added
<1> QED BY <1>4, <1>5, <1>6 DEF y, cite, added

\* A row of a proposal is created and cites itself.
LEMMA CreatedDoes ==
  ASSUME NEW x \in RunRecords, NEW w, w.name \in Rows
  PROVE  LET y == Created(x, w) IN
         /\ y \in RunRecords /\ y.merges = x.merges
         /\ y.graph.entity = x.graph.entity /\ y.graph.relation = x.graph.relation
         /\ y.graph.item = x.graph.item /\ y.graph.learned = x.graph.learned
         /\ y.graph.cite = [x.graph.cite EXCEPT ![w.name] = w.name]
         /\ y.log.created = x.log.created \cup {w.name} /\ y.log.merges = x.log.merges
         /\ y.log.added = x.log.added
         /\ y.log.changes = x.log.changes /\ y.log.closings = x.log.closings
         /\ y.log.fills = x.log.fills /\ y.log.learned = x.log.learned
<1> DEFINE y == Created(x, w)
           cite == [x.graph.cite EXCEPT ![w.name] = w.name]
           created == x.log.created \cup {w.name}
           graph_1 == [x.graph EXCEPT !.cite = cite]
           log_1 == [x.log EXCEPT !.created = created]
<1>1. y = [x EXCEPT !.graph = graph_1, !.log = log_1]
  <2>1. x.graph.cite \in Citations
    BY RunParts, PartsOf
  <2> QED BY <2>1, RunParts DEF Created, RunRecords
<1>2. cite \in Citations
  <2>1. x.graph.cite \in Citations
    BY RunParts, PartsOf
  <2>2. \A c \in Cites : cite[c] = IF c = w.name THEN w.name ELSE x.graph.cite[c]
    BY <2>1 DEF Citations
  <2>3. cite = [c \in Cites |-> cite[c]] /\ DOMAIN cite = Cites
    BY <2>1 DEF Citations
  <2> HIDE DEF cite
  <2> QED BY <2>1, <2>2, <2>3, CitationsOf DEF Rows
<1>3. created \subseteq Rows
  BY RunParts DEF Logs
<1>4. /\ graph_1 \in Graphs /\ graph_1.entity = x.graph.entity /\ graph_1.relation = x.graph.relation
      /\ graph_1.item = x.graph.item /\ graph_1.learned = x.graph.learned /\ graph_1.cite = cite
  <2> HIDE DEF cite
  <2> QED BY <1>2, RunParts DEF Graphs
<1>5. /\ log_1 \in Logs /\ log_1.created = created /\ log_1.merges = x.log.merges
      /\ log_1.added = x.log.added /\ log_1.changes = x.log.changes
      /\ log_1.closings = x.log.closings /\ log_1.fills = x.log.fills /\ log_1.learned = x.log.learned
  <2> HIDE DEF created
  <2> QED BY <1>3, RunParts DEF Logs
<1>6. y \in RunRecords /\ y.graph = graph_1 /\ y.log = log_1 /\ y.merges = x.merges
  <2> HIDE DEF y, graph_1, log_1
  <2> QED BY <1>1, <1>4, <1>5 DEF RunRecords
<1> HIDE DEF y, graph_1, log_1
<1> QED BY <1>4, <1>5, <1>6 DEF y

\* What committing row w does to a run: a row of the graph is created with the name of w, any
\* other is there if it was and names what it named; what w cites is its target or is live.
Adds(x, y, w) ==
  /\ y.merges = x.merges /\ y.log.merges = x.log.merges
  /\ y.log.created \subseteq x.log.created \cup {w.name}
  /\ \A e \in Entities : \/ y.graph.entity[e] = x.graph.entity[e]
                         \/ e = w.name /\ Live(y.graph.entity[e]) /\ y.graph.entity[e].into = None
  /\ w.kind = "entity" /\ w.target = None => Live(y.graph.entity[w.name])
  /\ \A r \in Relations :
       \/ /\ y.graph.relation[r].from = x.graph.relation[r].from
          /\ y.graph.relation[r].to = x.graph.relation[r].to
          /\ y.graph.relation[r].state = "none" <=> x.graph.relation[r].state = "none"
       \/ r = w.name /\ Live(y.graph.relation[r]) /\ Names(y.graph.relation[r]) = {w.from, w.to}
            /\ w.kind = "relation"
  /\ \A i \in Items :
       \/ /\ y.graph.item[i].subject = x.graph.item[i].subject
          /\ y.graph.item[i].state = "none" <=> x.graph.item[i].state = "none"
          /\ y.graph.item[i].state = "merged" => x.graph.item[i].state = "merged"
       \/ i = w.name /\ Live(y.graph.item[i]) /\ y.graph.item[i].subject = w.from /\ w.kind = "item"
  /\ \A c \in Cites :
       \/ y.graph.cite[c] = x.graph.cite[c]
       \/ /\ c = w.name
          /\ y.graph.cite[c] \in Entities => \/ y.graph.cite[c] = w.target /\ w.kind = "entity"
                                             \/ Live(y.graph.entity[y.graph.cite[c]])
          /\ y.graph.cite[c] \in Items => Live(y.graph.item[y.graph.cite[c]])

\* What it tells: a row is created with a citation of its own, or something that is there is
\* cited, or neither; and an item may be restated or superseded, which is logged.
Tells(x, y, w) ==
  /\ \/ /\ y.log.created = x.log.created /\ y.log.added = x.log.added
        /\ \A c \in Cites : y.graph.cite[c] = x.graph.cite[c]
     \/ /\ y.log.created = x.log.created \cup {w.name} /\ y.log.added = x.log.added
        /\ \/ w.name \in Entities
           \/ w.name \in Relations /\ Live(y.graph.relation[w.name])
           \/ w.name \in Items /\ Live(y.graph.item[w.name])
        /\ \A c \in Cites : y.graph.cite[c] = IF c = w.name THEN c ELSE x.graph.cite[c]
     \/ /\ y.log.created = x.log.created /\ y.log.added = x.log.added \cup {w.name}
        /\ \/ w.name \in Links
           \/ /\ w.name \in Relations /\ y.graph.cite[w.name] \in Relations
              /\ Live(y.graph.relation[y.graph.cite[w.name]])
           \/ /\ w.name \in Items /\ y.graph.cite[w.name] \in Items
              /\ Live(y.graph.item[y.graph.cite[w.name]])
        /\ \A c \in Cites \ {w.name} : y.graph.cite[c] = x.graph.cite[c]
  /\ \A e \in Entities : y.graph.entity[e] = x.graph.entity[e] \/ e \in y.log.created
  /\ \A r \in Relations :
       \/ /\ y.graph.relation[r].from = x.graph.relation[r].from
          /\ y.graph.relation[r].to = x.graph.relation[r].to
          /\ y.graph.relation[r].born = x.graph.relation[r].born
          /\ y.graph.relation[r].state = x.graph.relation[r].state
       \/ r \in y.log.created /\ y.graph.relation[r].born = Now /\ Live(y.graph.relation[r])
  /\ \A i \in Items :
       \/ /\ y.graph.item[i].subject = x.graph.item[i].subject
          /\ y.graph.item[i].born = x.graph.item[i].born
          /\ \/ y.graph.item[i].state = x.graph.item[i].state
             \/ y.graph.item[i].state = "superseded" /\ Live(x.graph.item[i])
       \/ i \in y.log.created /\ y.graph.item[i].born = Now /\ Live(y.graph.item[i])
  /\ \/ y.log.changes = x.log.changes
     \/ \E entry \in ChangeRecords :
          /\ y.log.changes = Append(x.log.changes, entry)
          /\ w.kind = "item" /\ entry.row = w.target /\ entry.after.state \in {"live", "superseded"}

\* The row of an entity.
LEMMA CommitEntityDoes ==
  ASSUME clock \in Nat, NEW x \in RunRecords, NEW w \in PlanRows, w.kind = "entity"
  PROVE  /\ CommitEntity(x, w) \in RunRecords /\ Adds(x, CommitEntity(x, w), w)
         /\ Tells(x, CommitEntity(x, w), w)
<1> DEFINE taught == {w.lesson} \ ({None} \cup x.graph.learned)
           row == [state |-> "live", into |-> None, born |-> Now, touched |-> Now]
           z == Created(x, w)
           y == IF w.target # None THEN Cited(x, w, w.target)
                ELSE [z EXCEPT !.graph.entity[w.name] = row]
           h == CommitEntity(x, w)
<1>1. taught \subseteq Lessons /\ row \in EntityRows /\ row.state = "live" /\ row.into = None
  BY DEF PlanRows, EntityRows, Now
<1>2. \/ w.target = None /\ w.name \in Entities
      \/ w.target \in Entities /\ w.name \in Links /\ w.target # None
  BY Apart DEF PlanRows
<1>3. y \in RunRecords /\ Adds(x, y, w) /\ Tells(x, y, w)
  <2>1. CASE w.target \in Entities /\ w.name \in Links /\ w.target # None
    <3>1. w.name \in Cites /\ Fits(w.name, w.target)
      BY <2>1, Apart DEF Fits
    <3> DEFINE c == Cited(x, w, w.target)
    <3>2. /\ c \in RunRecords /\ c.merges = x.merges
          /\ c.graph.entity = x.graph.entity /\ c.graph.relation = x.graph.relation
          /\ c.graph.item = x.graph.item
          /\ c.graph.cite = [x.graph.cite EXCEPT ![w.name] = w.target]
          /\ c.log.created = x.log.created /\ c.log.merges = x.log.merges
          /\ c.log.added = x.log.added \cup {w.name} /\ c.log.changes = x.log.changes
      BY <3>1, CitedDoes
    <3>3. y = c
      BY <2>1
    <3>4. x.graph.cite \in [Cites -> Rows \cup {None}]
      BY RunParts, PartsOf DEF Citations
    <3> HIDE DEF y, c
    <3>5. \A q \in Cites : c.graph.cite[q] = IF q = w.name THEN w.target ELSE x.graph.cite[q]
      BY <3>2, <3>4
    <3>6. Adds(x, c, w)
      BY <2>1, <3>2, <3>5, Apart DEF Adds
    <3>7. Tells(x, c, w)
      BY <2>1, <3>2, <3>5 DEF Tells
    <3> QED BY <3>2, <3>3, <3>6, <3>7
  <2>2. CASE w.target = None /\ w.name \in Entities
    <3>1. w.name \in Rows /\ w.name \in Cites
      BY <2>2, Apart DEF Rows
    <3>2. /\ z \in RunRecords /\ z.merges = x.merges
          /\ z.graph.entity = x.graph.entity /\ z.graph.relation = x.graph.relation
          /\ z.graph.item = x.graph.item
          /\ z.graph.cite = [x.graph.cite EXCEPT ![w.name] = w.name]
          /\ z.log.created = x.log.created \cup {w.name} /\ z.log.merges = x.log.merges
          /\ z.log.added = x.log.added /\ z.log.changes = x.log.changes
      BY <3>1, CreatedDoes
    <3> DEFINE entity == [z.graph.entity EXCEPT ![w.name] = row]
               graph_1 == [z.graph EXCEPT !.entity = entity]
    <3>3. y = [z EXCEPT !.graph = graph_1]
      <4> HIDE DEF z, row
      <4>1. y = [z EXCEPT !.graph.entity[w.name] = row]
        BY <2>2
      <4> QED BY <3>2, <4>1, RunParts DEF RunRecords
    <3>4. z.graph.entity \in [Entities -> EntityRows] /\ z.graph.cite \in [Cites -> Rows \cup {None}]
            /\ x.graph.cite \in [Cites -> Rows \cup {None}]
      <4> HIDE DEF z
      <4> QED BY <3>2, RunParts, PartsOf DEF Citations
    <3>5. entity \in [Entities -> EntityRows] /\ entity[w.name] = row
            /\ \A e \in Entities \ {w.name} : entity[e] = z.graph.entity[e]
      <4> HIDE DEF z, row
      <4> QED BY <1>1, <2>2, <3>4
    <3>6. /\ graph_1 \in Graphs /\ graph_1.entity = entity /\ graph_1.relation = z.graph.relation
          /\ graph_1.item = z.graph.item /\ graph_1.cite = z.graph.cite
      <4>1. z.graph \in Graphs
        BY <3>2 DEF RunRecords
      <4>2. entity \in [Entities -> EntityRows]
        BY <3>5
      <4> HIDE DEF z, entity
      <4> QED BY <4>1, <4>2 DEF Graphs
    <3>7. y \in RunRecords /\ y.graph = graph_1 /\ y.log = z.log /\ y.merges = z.merges
      <4> HIDE DEF z, y, graph_1
      <4> QED BY <3>2, <3>3, <3>6 DEF RunRecords
    <3>8. \A q \in Cites : y.graph.cite[q] = IF q = w.name THEN w.name ELSE x.graph.cite[q]
      <4> HIDE DEF z, y, graph_1
      <4> QED BY <3>2, <3>4, <3>6, <3>7
    <3> HIDE DEF y, z, graph_1, entity, row
    <3>9. Adds(x, y, w)
      BY <1>1, <2>2, <3>2, <3>5, <3>6, <3>7, <3>8, Apart DEF Adds, Live
    <3>10. Tells(x, y, w)
      BY <2>2, <3>1, <3>2, <3>5, <3>6, <3>7, <3>8 DEF Tells
    <3> QED BY <3>7, <3>9, <3>10
  <2> QED BY <1>2, <2>1, <2>2
<1> HIDE DEF y
<1> DEFINE graph_2 == [y.graph EXCEPT !.learned = @ \cup taught]
           log_2 == [y.log EXCEPT !.learned = @ \cup taught]
<1>4. h = [y EXCEPT !.graph = graph_2, !.log = log_2]
  <2>1. h = [y EXCEPT !.graph.learned = @ \cup taught, !.log.learned = @ \cup taught]
    BY DEF CommitEntity, y
  <2> HIDE DEF h, taught
  <2> QED BY <1>3, <2>1, RunParts DEF RunRecords
<1>5. /\ graph_2 \in Graphs /\ graph_2.entity = y.graph.entity /\ graph_2.relation = y.graph.relation
      /\ graph_2.item = y.graph.item /\ graph_2.cite = y.graph.cite
  <2> HIDE DEF taught
  <2> QED BY <1>1, <1>3, RunParts DEF Graphs
<1>6. /\ log_2 \in Logs /\ log_2.created = y.log.created /\ log_2.merges = y.log.merges
      /\ log_2.added = y.log.added /\ log_2.changes = y.log.changes
  <2> HIDE DEF taught
  <2> QED BY <1>1, <1>3, RunParts DEF Logs
<1>7. h \in RunRecords /\ h.graph = graph_2 /\ h.log = log_2 /\ h.merges = y.merges
  <2> HIDE DEF h, graph_2, log_2
  <2> QED BY <1>3, <1>4, <1>5, <1>6 DEF RunRecords
<1>8. Adds(x, h, w)
  <2> HIDE DEF h, graph_2, log_2
  <2> QED BY <1>3, <1>5, <1>6, <1>7 DEF Adds
<1>9. Tells(x, h, w)
  <2> HIDE DEF h, graph_2, log_2
  <2> QED BY <1>3, <1>5, <1>6, <1>7 DEF Tells
<1> QED BY <1>7, <1>8, <1>9

\* A relation, or an item, of the graph of a run is written.
RelationWritten(z, r, row, log) ==
  [z EXCEPT !.graph = [z.graph EXCEPT !.relation = [z.graph.relation EXCEPT ![r] = row]], !.log = log]
ItemWritten(z, i, row, log) ==
  [z EXCEPT !.graph = [z.graph EXCEPT !.item = [z.graph.item EXCEPT ![i] = row]], !.log = log]

\* A relation of a run is written.
LEMMA RelationWrittenDoes ==
  ASSUME NEW z \in RunRecords, NEW r \in Relations, NEW row \in RelationRows, NEW log \in Logs
  PROVE  LET y == RelationWritten(z, r, row, log) IN
         /\ y \in RunRecords /\ y.merges = z.merges /\ y.log = log
         /\ y.graph.entity = z.graph.entity /\ y.graph.item = z.graph.item
         /\ y.graph.cite = z.graph.cite /\ y.graph.learned = z.graph.learned
         /\ y.graph.relation[r] = row
         /\ \A q \in Relations \ {r} : y.graph.relation[q] = z.graph.relation[q]
<1> DEFINE y == RelationWritten(z, r, row, log)
           relation == [z.graph.relation EXCEPT ![r] = row]
           graph_1  == [z.graph EXCEPT !.relation = relation]
<1>1. z.graph \in Graphs /\ z.graph.relation \in [Relations -> RelationRows]
  BY RunParts, PartsOf
<1>2. relation \in [Relations -> RelationRows] /\ relation[r] = row
        /\ \A q \in Relations \ {r} : relation[q] = z.graph.relation[q]
  BY <1>1
<1>3. /\ graph_1 \in Graphs /\ graph_1.entity = z.graph.entity /\ graph_1.item = z.graph.item
      /\ graph_1.cite = z.graph.cite /\ graph_1.learned = z.graph.learned /\ graph_1.relation = relation
  <2> HIDE DEF relation
  <2> QED BY <1>1, <1>2 DEF Graphs
<1>4. y \in RunRecords /\ y.merges = z.merges /\ y.log = log /\ y.graph = graph_1
  <2>1. y = [z EXCEPT !.graph = graph_1, !.log = log]
    BY DEF RelationWritten
  <2> HIDE DEF graph_1, y
  <2> QED BY <1>3, <2>1 DEF RunRecords
<1> HIDE DEF graph_1, relation, y
<1> QED BY <1>2, <1>3, <1>4 DEF y

\* An item of a run is written.
LEMMA ItemWrittenDoes ==
  ASSUME NEW z \in RunRecords, NEW i \in Items, NEW row \in ItemRows, NEW log \in Logs
  PROVE  LET y == ItemWritten(z, i, row, log) IN
         /\ y \in RunRecords /\ y.merges = z.merges /\ y.log = log
         /\ y.graph.entity = z.graph.entity /\ y.graph.relation = z.graph.relation
         /\ y.graph.cite = z.graph.cite /\ y.graph.learned = z.graph.learned
         /\ y.graph.item[i] = row
         /\ \A k \in Items \ {i} : y.graph.item[k] = z.graph.item[k]
<1> DEFINE y == ItemWritten(z, i, row, log)
           item == [z.graph.item EXCEPT ![i] = row]
           graph_1  == [z.graph EXCEPT !.item = item]
<1>1. z.graph \in Graphs /\ z.graph.item \in [Items -> ItemRows]
  BY RunParts, PartsOf
<1>2. item \in [Items -> ItemRows] /\ item[i] = row
        /\ \A k \in Items \ {i} : item[k] = z.graph.item[k]
  BY <1>1
<1>3. /\ graph_1 \in Graphs /\ graph_1.entity = z.graph.entity /\ graph_1.relation = z.graph.relation
      /\ graph_1.cite = z.graph.cite /\ graph_1.learned = z.graph.learned /\ graph_1.item = item
  <2> HIDE DEF item
  <2> QED BY <1>1, <1>2 DEF Graphs
<1>4. y \in RunRecords /\ y.merges = z.merges /\ y.log = log /\ y.graph = graph_1
  <2>1. y = [z EXCEPT !.graph = graph_1, !.log = log]
    BY DEF ItemWritten
  <2> HIDE DEF graph_1, y
  <2> QED BY <1>3, <2>1 DEF RunRecords
<1> HIDE DEF graph_1, item, y
<1> QED BY <1>2, <1>3, <1>4 DEF y

\* The row of a relation.
LEMMA CommitRelationDoes ==
  ASSUME clock \in Nat, NEW x \in RunRecords, NEW w \in PlanRows, w.kind = "relation"
  PROVE  /\ CommitRelation(x, w) \in RunRecords /\ Adds(x, CommitRelation(x, w), w)
         /\ Tells(x, CommitRelation(x, w), w)
<1> DEFINE h == CommitRelation(x, w)
<1>0. /\ w.name \in Relations /\ w.from \in Entities /\ w.to \in Entities
      /\ w.target \in Relations \cup {None} /\ w.keys \subseteq Keys /\ Now \in Nat
      /\ w.name \in Rows /\ w.name \in Cites /\ x.graph.relation \in [Relations -> RelationRows]
      /\ x.graph.cite \in [Cites -> Rows \cup {None}]
  BY Apart, RunParts, PartsOf DEF PlanRows, Rows, Now, Citations
<1>1. CASE w.target # None /\ Live(x.graph.relation[w.target])
  <2> DEFINE old == x.graph.relation[w.target]
             fills == {k \in w.keys : old.props[k] = None}
             c == Cited(x, w, w.target)
             props == [k \in Keys |-> IF k \in fills THEN w.name ELSE old.props[k]]
             row == [old EXCEPT !.props = props, !.touched = IF fills = {} THEN @ ELSE Now]
             fill == [row |-> w.target, keys |-> fills, value |-> w.name]
             more == IF fills = {} THEN c.log.fills ELSE Append(c.log.fills, fill)
             log == [c.log EXCEPT !.fills = more]
  <2>1. w.target \in Relations /\ Fits(w.name, w.target)
    BY <1>0, <1>1 DEF Fits
  <2>2. /\ c \in RunRecords /\ c.merges = x.merges
        /\ c.graph.entity = x.graph.entity /\ c.graph.relation = x.graph.relation
        /\ c.graph.item = x.graph.item
        /\ c.graph.cite = [x.graph.cite EXCEPT ![w.name] = w.target]
        /\ c.log.created = x.log.created /\ c.log.merges = x.log.merges
        /\ c.log.added = x.log.added \cup {w.name} /\ c.log.changes = x.log.changes
    BY <1>0, <2>1, CitedDoes
  <2>3. old \in RelationRows /\ old.props \in Props
    BY <1>0, <2>1 DEF RelationRows, Props
  <2>4. props \in Props
    <3> HIDE DEF old
    <3> QED BY <1>0, <2>3 DEF Props
  <2>5. /\ row \in RelationRows /\ row.from = old.from /\ row.to = old.to /\ row.state = old.state
        /\ row.born = old.born
    <3> HIDE DEF old, props
    <3> QED BY <1>0, <2>3, <2>4 DEF RelationRows, Props
  <2>6. /\ log \in Logs /\ log.created = c.log.created /\ log.merges = c.log.merges
        /\ log.added = c.log.added /\ log.changes = c.log.changes
    <3>1. fill \in FillRecords
      BY <1>0, <2>1 DEF FillRecords
    <3> HIDE DEF fills, fill, c
    <3>2. c.log \in Logs /\ c.log.fills \in Seq(FillRecords)
      BY <2>2, RunParts DEF Logs
    <3>3. more \in Seq(FillRecords)
      BY <3>1, <3>2
    <3> HIDE DEF more
    <3> QED BY <3>2, <3>3 DEF Logs
  <2>7. h = RelationWritten(c, w.target, row, log)
    <3>1. h = [c EXCEPT !.graph.relation[w.target] = row,
                        !.log.fills = IF fills = {} THEN @ ELSE Append(@, fill)]
      BY <1>1 DEF CommitRelation
    <3> HIDE DEF h, c, fills, row, fill
    <3> QED BY <2>2, <3>1, RunParts DEF RunRecords, RelationWritten
  <2>8. /\ h \in RunRecords /\ h.merges = c.merges /\ h.log = log
        /\ h.graph.entity = c.graph.entity /\ h.graph.item = c.graph.item
        /\ h.graph.cite = c.graph.cite
        /\ h.graph.relation[w.target] = row
        /\ \A q \in Relations \ {w.target} : h.graph.relation[q] = c.graph.relation[q]
    <3> HIDE DEF h, c, row, log
    <3> QED BY <2>1, <2>2, <2>5, <2>6, <2>7, RelationWrittenDoes
  <2>9. \A q \in Cites : h.graph.cite[q] = IF q = w.name THEN w.target ELSE x.graph.cite[q]
    <3> HIDE DEF h, c
    <3> QED BY <1>0, <2>2, <2>8
  <2>10. Adds(x, h, w)
    <3> HIDE DEF h, c, row, log
    <3> QED BY <2>1, <2>2, <2>5, <2>6, <2>8, <2>9, Apart, <1>0, <1>1 DEF Adds
  <2>11. Tells(x, h, w)
    <3> HIDE DEF h, c, row, log
    <3> QED BY <2>1, <2>2, <2>5, <2>6, <2>8, <2>9, <1>0, <1>1 DEF Tells, Live
  <2> QED BY <2>8, <2>10, <2>11
<1>2. CASE ~(w.target # None /\ Live(x.graph.relation[w.target]))
  <2> DEFINE z == Created(x, w)
             row == [state |-> "live", from |-> w.from, to |-> w.to, until |-> None, by |-> None,
                     props |-> [k \in Keys |-> IF k \in w.keys THEN w.name ELSE None],
                     born |-> Now, touched |-> Now]
  <2>1. /\ z \in RunRecords /\ z.merges = x.merges
        /\ z.graph.entity = x.graph.entity /\ z.graph.relation = x.graph.relation
        /\ z.graph.item = x.graph.item
        /\ z.graph.cite = [x.graph.cite EXCEPT ![w.name] = w.name]
        /\ z.log.created = x.log.created \cup {w.name} /\ z.log.merges = x.log.merges
        /\ z.log.added = x.log.added /\ z.log.changes = x.log.changes
    BY <1>0, CreatedDoes
  <2>2. /\ row \in RelationRows /\ row.state = "live" /\ row.from = w.from /\ row.to = w.to
        /\ row.born = Now
    BY <1>0 DEF RelationRows
  <2>3. h = RelationWritten(z, w.name, row, z.log)
    <3>1. h = [z EXCEPT !.graph.relation[w.name] = row]
      BY <1>2 DEF CommitRelation
    <3> HIDE DEF h, z, row
    <3> QED BY <1>0, <2>1, <3>1, RunParts DEF RunRecords, RelationWritten
  <2>4. z.log \in Logs
    <3> HIDE DEF z
    <3> QED BY <2>1, RunParts
  <2>5. /\ h \in RunRecords /\ h.merges = z.merges /\ h.log = z.log
        /\ h.graph.entity = z.graph.entity /\ h.graph.item = z.graph.item
        /\ h.graph.cite = z.graph.cite
        /\ h.graph.relation[w.name] = row
        /\ \A q \in Relations \ {w.name} : h.graph.relation[q] = z.graph.relation[q]
    <3>1. z \in RunRecords /\ w.name \in Relations /\ row \in RelationRows
      BY <1>0, <2>1, <2>2
    <3> HIDE DEF h, z, row
    <3> QED BY <2>3, <2>4, <3>1, RelationWrittenDoes
  <2>6. \A q \in Cites : h.graph.cite[q] = IF q = w.name THEN w.name ELSE x.graph.cite[q]
    <3> HIDE DEF h, z
    <3> QED BY <1>0, <2>1, <2>5
  <2>7. Adds(x, h, w)
    <3> HIDE DEF h, z, row
    <3> QED BY <1>0, <2>1, <2>2, <2>5, <2>6, Apart DEF Adds, Live, Names
  <2>8. Tells(x, h, w)
    <3> HIDE DEF h, z, row
    <3> QED BY <1>0, <2>1, <2>2, <2>5, <2>6 DEF Tells, Live
  <2> QED BY <2>5, <2>7, <2>8
<1> QED BY <1>1, <1>2

\* A change of an item is logged.
Logged(y, entry) == [y EXCEPT !.log.changes = Append(@, entry)]

\* A change of a live item is logged.
LEMMA ChangeLogged ==
  ASSUME NEW y \in RunRecords, NEW entry \in ChangeRecords
  PROVE  LET h == Logged(y, entry) IN
         /\ h \in RunRecords /\ h.graph = y.graph /\ h.merges = y.merges
         /\ h.log.created = y.log.created /\ h.log.merges = y.log.merges
         /\ h.log.added = y.log.added /\ h.log.changes = Append(y.log.changes, entry)
<1> DEFINE h == Logged(y, entry)
           more == Append(y.log.changes, entry)
           log == [y.log EXCEPT !.changes = more]
<1>1. y.log \in Logs /\ y.log.changes \in Seq(ChangeRecords)
  BY RunParts DEF Logs, ChangeRecords
<1>2. more \in Seq(ChangeRecords)
  BY <1>1
<1>3. /\ log \in Logs /\ log.created = y.log.created /\ log.merges = y.log.merges
      /\ log.added = y.log.added /\ log.changes = more
  <2> HIDE DEF more
  <2> QED BY <1>1, <1>2 DEF Logs, ChangeRecords
<1>4. h = [y EXCEPT !.log = log]
  BY RunParts DEF RunRecords, Logged
<1> HIDE DEF log, h, more
<1>5. /\ h \in RunRecords /\ h.graph = y.graph /\ h.merges = y.merges
      /\ h.log.created = y.log.created /\ h.log.merges = y.log.merges
      /\ h.log.added = y.log.added /\ h.log.changes = more
  BY <1>3, <1>4 DEF RunRecords
<1> QED BY <1>5 DEF h, more

\* What a change remembers of an item.
LEMMA ItemStateTyped ==
  ASSUME NEW i \in ItemRows
  PROVE  ItemState(i) \in ItemStates /\ (Live(i) => ItemState(i) \in Befores)
BY DEF ItemState, ItemStates, Befores, ItemRows, Live

\* The row of an item: cited, restated, a twin, new, or in the place of another.
LEMMA CommitItemDoes ==
  ASSUME clock \in Nat, NEW x \in RunRecords, NEW w \in PlanRows, w.kind = "item",
         ~There(x.graph, w.name)
  PROVE  /\ CommitItem(x, w) \in RunRecords /\ Adds(x, CommitItem(x, w), w)
         /\ Tells(x, CommitItem(x, w), w)
<1> DEFINE h == CommitItem(x, w)
           t == w.target
           known == t # None /\ Live(x.graph.item[t])
           older == IF known /\ w.verdict = "supersedes" THEN {t} ELSE {}
           twins == {i \in Items \ older : /\ Live(x.graph.item[i]) /\ x.graph.item[i].subject = w.from
                                           /\ Statement[i] = Statement[w.name]}
           entry(y) == [row |-> t, before |-> ItemState(x.graph.item[t]),
                        after |-> ItemState(y.graph.item[t])]
           change(y) == [y EXCEPT !.log.changes = Append(@, entry(y))]
<1>0. /\ w.name \in Items /\ w.from \in Entities \cup {None} /\ t \in Items \cup {None} /\ Now \in Nat
      /\ w.name \in Rows /\ w.name \in Cites /\ x.graph.item \in [Items -> ItemRows]
      /\ x.graph.cite \in [Cites -> Rows \cup {None}] /\ w.status \in Statuses \cup {None}
      /\ ~Live(x.graph.item[w.name])
  BY Apart, RunParts, PartsOf DEF PlanRows, Rows, Now, Citations, There, Live
<1>1. ASSUME NEW subject \in Items, Live(x.graph.item[subject])
      PROVE  LET c == Cited(x, w, subject) IN
             /\ c \in RunRecords /\ c.merges = x.merges
             /\ c.graph.entity = x.graph.entity /\ c.graph.relation = x.graph.relation
             /\ c.graph.item = x.graph.item
             /\ \A q \in Cites : c.graph.cite[q] = IF q = w.name THEN subject ELSE x.graph.cite[q]
             /\ c.log.created = x.log.created /\ c.log.merges = x.log.merges
             /\ c.log.added = x.log.added \cup {w.name} /\ c.log.changes = x.log.changes
  <2> DEFINE c == Cited(x, w, subject)
  <2>1. Fits(w.name, subject)
    BY <1>0 DEF Fits
  <2>2. /\ c \in RunRecords /\ c.merges = x.merges
        /\ c.graph.entity = x.graph.entity /\ c.graph.relation = x.graph.relation
        /\ c.graph.item = x.graph.item
        /\ c.graph.cite = [x.graph.cite EXCEPT ![w.name] = subject]
        /\ c.log.created = x.log.created /\ c.log.merges = x.log.merges
        /\ c.log.added = x.log.added \cup {w.name} /\ c.log.changes = x.log.changes
    BY <1>0, <2>1, CitedDoes
  <2> HIDE DEF c
  <2>3. \A q \in Cites : c.graph.cite[q] = IF q = w.name THEN subject ELSE x.graph.cite[q]
    BY <1>0, <2>2
  <2> QED BY <2>2, <2>3 DEF c
<1>2. ASSUME NEW subject \in Items, Live(x.graph.item[subject])
      PROVE  Adds(x, Cited(x, w, subject), w) /\ Tells(x, Cited(x, w, subject), w)
  <2> DEFINE c == Cited(x, w, subject)
  <2>1. /\ c \in RunRecords /\ c.merges = x.merges
        /\ c.graph.entity = x.graph.entity /\ c.graph.relation = x.graph.relation
        /\ c.graph.item = x.graph.item
        /\ \A q \in Cites : c.graph.cite[q] = IF q = w.name THEN subject ELSE x.graph.cite[q]
        /\ c.log.created = x.log.created /\ c.log.merges = x.log.merges
        /\ c.log.added = x.log.added \cup {w.name} /\ c.log.changes = x.log.changes
    BY <1>1, <1>2
  <2> HIDE DEF c
  <2>2. Adds(x, c, w)
    BY <1>2, <2>1, Apart DEF Adds
  <2>3. Tells(x, c, w)
    BY <1>0, <1>2, <2>1 DEF Tells
  <2> QED BY <2>2, <2>3 DEF c
<1>3. CASE known /\ w.verdict = "same" /\ w.status = None
  <2>1. h = Cited(x, w, t)
    BY <1>3 DEF CommitItem
  <2>2. t \in Items /\ Live(x.graph.item[t])
    BY <1>0, <1>3
  <2> HIDE DEF h, t
  <2>3. h \in RunRecords /\ Adds(x, h, w) /\ Tells(x, h, w)
    BY <1>1, <1>2, <2>1, <2>2
  <2> QED BY <2>3 DEF h
<1>4. CASE known /\ w.verdict = "same" /\ w.status # None
  <2> DEFINE c == Cited(x, w, t)
             row == [c.graph.item[t] EXCEPT !.status = w.status, !.touched = Now]
             y == ItemWritten(c, t, row, c.log)
  <2>1. t \in Items /\ Live(x.graph.item[t])
    BY <1>0, <1>4
  <2>2. /\ c \in RunRecords /\ c.merges = x.merges
        /\ c.graph.entity = x.graph.entity /\ c.graph.relation = x.graph.relation
        /\ c.graph.item = x.graph.item
        /\ \A q \in Cites : c.graph.cite[q] = IF q = w.name THEN t ELSE x.graph.cite[q]
        /\ c.log.created = x.log.created /\ c.log.merges = x.log.merges
        /\ c.log.added = x.log.added \cup {w.name} /\ c.log.changes = x.log.changes
    BY <1>1, <2>1
  <2>3. /\ row \in ItemRows /\ row.subject = x.graph.item[t].subject /\ row.state = x.graph.item[t].state
        /\ row.born = x.graph.item[t].born
    <3> HIDE DEF c, t
    <3>1. c.graph.item[t] \in ItemRows /\ w.status \in Statuses
      BY <1>0, <1>4, <2>1, <2>2
    <3> QED BY <1>0, <2>2, <3>1 DEF ItemRows
  <2>4. c.log \in Logs
    <3> HIDE DEF c
    <3> QED BY <2>2, RunParts
  <2>5. /\ y \in RunRecords /\ y.merges = c.merges /\ y.log = c.log
        /\ y.graph.entity = c.graph.entity /\ y.graph.relation = c.graph.relation
        /\ y.graph.cite = c.graph.cite /\ y.graph.item[t] = row
        /\ \A k \in Items \ {t} : y.graph.item[k] = c.graph.item[k]
    <3> HIDE DEF c, row, t
    <3> QED BY <2>1, <2>2, <2>3, <2>4, ItemWrittenDoes
  <2>6. entry(y) \in ChangeRecords
    <3>1. x.graph.item[t] \in ItemRows /\ y.graph.item[t] \in ItemRows
      <4> HIDE DEF y, row, t
      <4> QED BY <1>0, <2>1, <2>3, <2>5
    <3> HIDE DEF y, t
    <3> QED BY <2>1, <3>1, ItemStateTyped DEF ChangeRecords
  <2>7. h = change(y)
    <3>1. h = change([c EXCEPT !.graph.item[t] = [@ EXCEPT !.status = w.status, !.touched = Now]])
      BY <1>4 DEF CommitItem
    <3>2. [c EXCEPT !.graph.item[t] = [@ EXCEPT !.status = w.status, !.touched = Now]] = y
      <4> HIDE DEF c, t
      <4>1. c.graph.item \in [Items -> ItemRows] /\ c.graph.item[t] \in ItemRows
        BY <1>0, <2>1, <2>2
      <4> QED BY <2>1, <2>2, <4>1, RunParts DEF RunRecords, ItemWritten
    <3> HIDE DEF c, y, t
    <3> QED BY <3>1, <3>2
  <2>8. /\ h \in RunRecords /\ h.graph = y.graph /\ h.merges = y.merges
        /\ h.log.created = y.log.created /\ h.log.merges = y.log.merges
    <3> DEFINE e == entry(y)
    <3>1. h = Logged(y, e) /\ e \in ChangeRecords
      BY <2>6, <2>7 DEF Logged
    <3> HIDE DEF h, y, e
    <3> QED BY <2>5, <3>1, ChangeLogged
  <2>9. Adds(x, h, w)
    <3> HIDE DEF h, y, c, row, t
    <3> QED BY <2>1, <2>2, <2>3, <2>5, <2>8, Apart DEF Adds, Live
  <2>10. h.log.added = y.log.added /\ h.log.changes = Append(y.log.changes, entry(y))
    <3> DEFINE e == entry(y)
    <3>1. h = Logged(y, e) /\ e \in ChangeRecords
      BY <2>6, <2>7 DEF Logged
    <3> HIDE DEF h, y, e
    <3>2. h.log.added = y.log.added /\ h.log.changes = Append(y.log.changes, e)
      BY <2>5, <3>1, ChangeLogged
    <3> QED BY <3>2 DEF e
  <2>11. entry(y).row = t /\ entry(y).after.state = "live"
    <3> HIDE DEF y, row, t
    <3> QED BY <2>1, <2>3, <2>5 DEF ItemState, Live
  <2>12. Tells(x, h, w)
    <3> DEFINE e == entry(y)
    <3>1. e \in ChangeRecords /\ e.row = w.target /\ e.after.state = "live"
            /\ h.log.changes = Append(y.log.changes, e)
      BY <2>6, <2>10, <2>11
    <3>2. /\ \A q \in Cites : h.graph.cite[q] = IF q = w.name THEN t ELSE x.graph.cite[q]
          /\ \A i \in Items : /\ h.graph.item[i].subject = x.graph.item[i].subject
                              /\ h.graph.item[i].born = x.graph.item[i].born
                              /\ h.graph.item[i].state = x.graph.item[i].state
          /\ h.graph.entity = x.graph.entity /\ h.graph.relation = x.graph.relation
          /\ h.log.created = x.log.created /\ h.log.added = x.log.added \cup {w.name}
          /\ y.log.changes = x.log.changes
      <4> HIDE DEF h, y, c, row, t
      <4> QED BY <2>1, <2>2, <2>3, <2>5, <2>8, <2>10
    <3> HIDE DEF h, y, c, row, e
    <3> QED BY <1>0, <2>1, <3>1, <3>2 DEF Tells, Live
  <2> QED BY <2>8, <2>9, <2>12
<1>5. CASE ~(known /\ w.verdict = "same") /\ twins # {}
  <2> DEFINE i == CHOOSE i \in twins : TRUE
  <2>1. h = Cited(x, w, i)
    BY <1>5 DEF CommitItem
  <2>2. i \in twins
    <3> HIDE DEF twins
    <3> QED BY <1>5
  <2>3. i \in Items /\ Live(x.graph.item[i])
    <3> HIDE DEF i
    <3> QED BY <2>2
  <2> HIDE DEF h, i
  <2>4. h \in RunRecords /\ Adds(x, h, w) /\ Tells(x, h, w)
    BY <1>1, <1>2, <2>1, <2>3
  <2> QED BY <2>4 DEF h
<1> DEFINE z == Created(x, w)
           new == [state |-> "live", subject |-> w.from, status |-> "open",
                   by |-> None, born |-> Now, touched |-> Now]
           y == ItemWritten(z, w.name, new, z.log)
<1>6. /\ z \in RunRecords /\ z.merges = x.merges
      /\ z.graph.entity = x.graph.entity /\ z.graph.relation = x.graph.relation
      /\ z.graph.item = x.graph.item
      /\ z.graph.cite = [x.graph.cite EXCEPT ![w.name] = w.name]
      /\ z.log.created = x.log.created \cup {w.name} /\ z.log.merges = x.log.merges
      /\ z.log.added = x.log.added /\ z.log.changes = x.log.changes
  BY <1>0, CreatedDoes
<1>7. new \in ItemRows /\ new.state = "live" /\ new.subject = w.from /\ new.born = Now
  BY <1>0 DEF ItemRows, Statuses
<1>8. /\ y \in RunRecords /\ y.merges = z.merges /\ y.log = z.log
      /\ y.graph.entity = z.graph.entity /\ y.graph.relation = z.graph.relation
      /\ y.graph.cite = z.graph.cite /\ y.graph.item[w.name] = new
      /\ \A k \in Items \ {w.name} : y.graph.item[k] = z.graph.item[k]
  <2>1. z \in RunRecords /\ w.name \in Items /\ new \in ItemRows /\ z.log \in Logs
    <3> HIDE DEF z, new
    <3> QED BY <1>0, <1>6, <1>7, RunParts
  <2> HIDE DEF z, new
  <2> QED BY <2>1, ItemWrittenDoes
<1>9. [z EXCEPT !.graph.item[w.name] = new] = y
  <2> HIDE DEF z, new
  <2> QED BY <1>0, <1>6, RunParts DEF RunRecords, ItemWritten
<1>10. \A q \in Cites : y.graph.cite[q] = IF q = w.name THEN w.name ELSE x.graph.cite[q]
  <2> HIDE DEF y, z
  <2> QED BY <1>0, <1>6, <1>8
<1>11. CASE ~(known /\ w.verdict = "same") /\ twins = {} /\ older = {}
  <2>1. h = [z EXCEPT !.graph.item[w.name] = new]
    BY <1>11 DEF CommitItem
  <2> HIDE DEF h, y, z, new
  <2>2. h = y
    BY <1>9, <2>1
  <2>3. Adds(x, y, w)
    BY <1>0, <1>6, <1>7, <1>8, <1>10, Apart DEF Adds, Live
  <2>5. Tells(x, y, w)
    BY <1>0, <1>6, <1>7, <1>8, <1>10 DEF Tells, Live
  <2>4. h \in RunRecords /\ Adds(x, h, w) /\ Tells(x, h, w)
    BY <1>8, <2>2, <2>3, <2>5
  <2> QED BY <2>4 DEF h
<1>12. CASE ~(known /\ w.verdict = "same") /\ twins = {} /\ older # {}
  <2> DEFINE row == [y.graph.item[t] EXCEPT !.state = "superseded", !.status = "superseded",
                                            !.by = w.name, !.touched = Now]
             s == ItemWritten(y, t, row, y.log)
  <2>1. t \in Items /\ Live(x.graph.item[t]) /\ t # w.name
    BY <1>0, <1>12
  <2>2. y.graph.item[t] = x.graph.item[t] /\ x.graph.item[t] \in ItemRows
    <3> HIDE DEF y, z, t, new
    <3> QED BY <1>0, <1>6, <1>8, <2>1
  <2>3. /\ row \in ItemRows /\ row.state = "superseded" /\ row.subject = x.graph.item[t].subject
        /\ row.born = x.graph.item[t].born
    <3> HIDE DEF y, z, t, new
    <3> QED BY <1>0, <2>2 DEF ItemRows, Statuses
  <2>4. y.log \in Logs
    <3> HIDE DEF y, z, new
    <3> QED BY <1>8, RunParts
  <2>5. /\ s \in RunRecords /\ s.merges = y.merges /\ s.log = y.log
        /\ s.graph.entity = y.graph.entity /\ s.graph.relation = y.graph.relation
        /\ s.graph.cite = y.graph.cite /\ s.graph.item[t] = row
        /\ \A k \in Items \ {t} : s.graph.item[k] = y.graph.item[k]
    <3>1. y \in RunRecords /\ t \in Items /\ row \in ItemRows
      BY <1>8, <2>1, <2>3
    <3> HIDE DEF y, row, t
    <3> QED BY <2>4, <3>1, ItemWrittenDoes
  <2>6. entry(s) \in ChangeRecords
    <3>1. x.graph.item[t] \in ItemRows /\ s.graph.item[t] \in ItemRows
      <4> HIDE DEF s, row, t
      <4> QED BY <1>0, <2>1, <2>3, <2>5
    <3> HIDE DEF s, t
    <3> QED BY <2>1, <3>1, ItemStateTyped DEF ChangeRecords
  <2>7. h = change(s)
    <3> DEFINE n == [z EXCEPT !.graph.item[w.name] = new]
    <3>1. h = change([n EXCEPT !.graph.item[t] =
                 [@ EXCEPT !.state = "superseded", !.status = "superseded", !.by = w.name,
                           !.touched = Now]])
      BY <1>12 DEF CommitItem
    <3>2. n = y
      BY <1>9
    <3> HIDE DEF n
    <3>3. h = change([y EXCEPT !.graph.item[t] =
                 [@ EXCEPT !.state = "superseded", !.status = "superseded", !.by = w.name,
                           !.touched = Now]])
      <4> HIDE DEF h, y
      <4> QED BY <3>1, <3>2
    <3>4. [y EXCEPT !.graph.item[t] =
                 [@ EXCEPT !.state = "superseded", !.status = "superseded", !.by = w.name,
                           !.touched = Now]] = s
      <4>1. y \in RunRecords
        BY <1>8
      <4> HIDE DEF y, t
      <4> QED BY <2>1, <4>1, RunParts DEF RunRecords, ItemWritten
    <3> HIDE DEF h, y, s, t
    <3> QED BY <3>3, <3>4
  <2>8. /\ h \in RunRecords /\ h.graph = s.graph /\ h.merges = s.merges
        /\ h.log.created = s.log.created /\ h.log.merges = s.log.merges
    <3> DEFINE e == entry(s)
    <3>1. h = Logged(s, e) /\ e \in ChangeRecords
      BY <2>6, <2>7 DEF Logged
    <3> HIDE DEF h, s, e
    <3> QED BY <2>5, <3>1, ChangeLogged
  <2>9. Adds(x, h, w)
    <3> HIDE DEF h, s, y, z, new, row, t
    <3> QED BY <1>0, <1>6, <1>7, <1>8, <1>10, <2>1, <2>3, <2>5, <2>8, Apart DEF Adds, Live
  <2>10. h.log.added = s.log.added /\ h.log.changes = Append(s.log.changes, entry(s))
    <3> DEFINE e == entry(s)
    <3>1. h = Logged(s, e) /\ e \in ChangeRecords
      BY <2>6, <2>7 DEF Logged
    <3> HIDE DEF h, s, e
    <3>2. h.log.added = s.log.added /\ h.log.changes = Append(s.log.changes, e)
      BY <2>5, <3>1, ChangeLogged
    <3> QED BY <3>2 DEF e
  <2>11. entry(s).row = t /\ entry(s).after.state = "superseded"
    <3> HIDE DEF s, row, t
    <3> QED BY <2>1, <2>3, <2>5 DEF ItemState, Live
  <2>12. Tells(x, h, w)
    <3> DEFINE e == entry(s)
    <3>1. e \in ChangeRecords /\ e.row = w.target /\ e.after.state = "superseded"
            /\ h.log.changes = Append(s.log.changes, e)
      BY <2>6, <2>10, <2>11
    <3>2. /\ \A q \in Cites : h.graph.cite[q] = IF q = w.name THEN w.name ELSE x.graph.cite[q]
          /\ \A i \in Items \ {t, w.name} : h.graph.item[i] = x.graph.item[i]
          /\ h.graph.item[t] = row /\ h.graph.item[w.name] = new
          /\ h.graph.entity = x.graph.entity /\ h.graph.relation = x.graph.relation
          /\ h.log.created = x.log.created \cup {w.name} /\ h.log.added = x.log.added
          /\ s.log.changes = x.log.changes
      <4> HIDE DEF h, s, y, z, new, row, t
      <4> QED BY <1>0, <1>6, <1>8, <1>10, <2>1, <2>5, <2>8, <2>10
    <3> HIDE DEF h, s, y, z, new, row, e
    <3> QED BY <1>0, <1>7, <2>1, <2>3, <3>1, <3>2 DEF Tells, Live
  <2> QED BY <2>8, <2>9, <2>12
<1> HIDE DEF h, z, y, new, twins, known, older
<1> QED BY <1>3, <1>4, <1>5, <1>11, <1>12 DEF h

\* The row that ends a relation.
LEMMA CommitClosingDoes ==
  ASSUME clock \in Nat, NEW x \in RunRecords, NEW w \in PlanRows, w.kind = "closing"
  PROVE  /\ CommitClosing(x, w) \in RunRecords /\ Adds(x, CommitClosing(x, w), w)
         /\ Tells(x, CommitClosing(x, w), w)
<1> DEFINE h == CommitClosing(x, w)
           closer == x.graph.cite[w.from]
           old == x.graph.relation[w.target]
           new == [old EXCEPT !.until = closer, !.by = closer, !.touched = Now]
           entry == [row |-> w.target, before |-> Validity(old), after |-> Validity(new)]
           more == Append(x.log.closings, entry)
           log == [x.log EXCEPT !.closings = more]
<1>0. /\ w.target \in Relations /\ w.from \in Relations /\ w.name = None /\ Now \in Nat
      /\ x.graph.relation \in [Relations -> RelationRows] /\ x.graph \in Graphs
  BY RunParts, PartsOf DEF PlanRows, Now
<1>1. CASE closer # None /\ Live(old) /\ closer # w.target /\ old.until = None /\ ~w.late
  <2>1. old \in RelationRows /\ closer \in Relations
    BY <1>0, <1>1, Apart, CiteKinds
  <2>2. /\ new \in RelationRows /\ new.from = old.from /\ new.to = old.to /\ new.state = old.state
        /\ new.born = old.born
    <3> HIDE DEF old, closer
    <3> QED BY <1>0, <2>1 DEF RelationRows
  <2>3. entry \in ClosingRecords
    <3> HIDE DEF old, new
    <3> QED BY <1>0, <2>1, <2>2 DEF ClosingRecords, Validities, Validity, RelationRows
  <2>4. x.log \in Logs /\ x.log.closings \in Seq(ClosingRecords)
    BY RunParts DEF Logs, ClosingRecords
  <2>5. more \in Seq(ClosingRecords)
    <3> HIDE DEF entry
    <3> QED BY <2>3, <2>4
  <2>6. /\ log \in Logs /\ log.created = x.log.created /\ log.merges = x.log.merges
        /\ log.added = x.log.added /\ log.changes = x.log.changes
    <3> HIDE DEF more
    <3> QED BY <2>4, <2>5 DEF Logs, ClosingRecords
  <2>7. h = RelationWritten(x, w.target, new, log)
    <3>1. h = [x EXCEPT !.graph.relation[w.target] = new, !.log.closings = Append(@, entry)]
      BY <1>1 DEF CommitClosing
    <3> HIDE DEF h, new, entry
    <3> QED BY <1>0, <3>1, RunParts DEF RunRecords, RelationWritten
  <2>8. /\ h \in RunRecords /\ h.merges = x.merges /\ h.log = log
        /\ h.graph.entity = x.graph.entity /\ h.graph.item = x.graph.item
        /\ h.graph.cite = x.graph.cite /\ h.graph.relation[w.target] = new
        /\ \A q \in Relations \ {w.target} : h.graph.relation[q] = x.graph.relation[q]
    <3> HIDE DEF h, new, log
    <3> QED BY <1>0, <2>2, <2>6, <2>7, RelationWrittenDoes
  <2>9. Adds(x, h, w)
    <3> HIDE DEF h, new, log, closer
    <3> QED BY <1>0, <2>2, <2>6, <2>8 DEF Adds
  <2>10. Tells(x, h, w)
    <3> HIDE DEF h, new, log, closer
    <3> QED BY <1>0, <2>2, <2>6, <2>8 DEF Tells
  <2> QED BY <2>8, <2>9, <2>10
<1>2. CASE ~(closer # None /\ Live(old) /\ closer # w.target /\ old.until = None /\ ~w.late)
  <2>1. h = x
    BY <1>2 DEF CommitClosing
  <2> HIDE DEF h
  <2>2. h \in RunRecords /\ Adds(x, h, w) /\ Tells(x, h, w)
    BY <1>0, <2>1 DEF Adds, Tells
  <2> QED BY <2>2 DEF h
<1> QED BY <1>1, <1>2

-------------------------------------------------------------------------------
(* Deleting rows.                                                          *)

\* h is g without the rows: what names one of them is gone with it, and any other row names
\* what it named.
Loses(g, h, rows) ==
  /\ \A e \in Entities :
       IF e \in rows THEN h.entity[e].state = "none" /\ h.entity[e].into = None
       ELSE /\ h.entity[e].state = g.entity[e].state
            /\ h.entity[e].into = IF g.entity[e].into \in rows THEN None ELSE g.entity[e].into
  /\ \A r \in Relations :
       IF r \in rows \/ Names(g.relation[r]) \cap rows # {}
       THEN h.relation[r].state = "none" /\ Names(h.relation[r]) = {None}
       ELSE /\ h.relation[r].state = g.relation[r].state /\ h.relation[r].born = g.relation[r].born
            /\ h.relation[r].from = g.relation[r].from /\ h.relation[r].to = g.relation[r].to
  /\ \A i \in Items :
       IF i \in rows \/ g.item[i].subject \in rows
       THEN h.item[i].state = "none" /\ h.item[i].subject = None
       ELSE /\ h.item[i].state = g.item[i].state /\ h.item[i].born = g.item[i].born
            /\ h.item[i].subject = g.item[i].subject

\* Deleted rows take with them what names them, and nothing else.
LEMMA WithoutRowsDoes ==
  ASSUME NEW g \in Graphs, NEW rows
  PROVE  LET h == WithoutRows(g, rows) IN
         h \in Graphs /\ h.cite = g.cite /\ h.learned = g.learned /\ Loses(g, h, rows)
<1> DEFINE goneR == {r \in Relations : r \in rows \/ Names(g.relation[r]) \cap rows # {}}
           goneI == {i \in Items : i \in rows \/ g.item[i].subject \in rows}
           leftE(e) == [g.entity[e] EXCEPT !.into = IF @ \in rows THEN None ELSE @]
           leftR(r) == [g.relation[r] EXCEPT !.by = IF @ \in goneR THEN None ELSE @]
           leftI(i) == [g.item[i] EXCEPT !.by = IF @ \in goneI THEN None ELSE @]
           entity == [e \in Entities |-> IF e \in rows THEN NoEntity ELSE leftE(e)]
           relation == [r \in Relations |-> IF r \in goneR THEN NoRelation ELSE leftR(r)]
           item == [i \in Items |-> IF i \in goneI THEN NoItem ELSE leftI(i)]
           h == WithoutRows(g, rows)
<1>1. /\ g.entity \in [Entities -> EntityRows] /\ g.relation \in [Relations -> RelationRows]
      /\ g.item \in [Items -> ItemRows]
  BY PartsOf
<1>2. ASSUME NEW e \in Entities
      PROVE  /\ leftE(e) \in EntityRows /\ leftE(e).state = g.entity[e].state
             /\ leftE(e).into = IF g.entity[e].into \in rows THEN None ELSE g.entity[e].into
  <2>1. g.entity[e] \in EntityRows
    BY <1>1
  <2> QED BY <2>1 DEF EntityRows
<1>3. ASSUME NEW r \in Relations
      PROVE  /\ leftR(r) \in RelationRows /\ leftR(r).state = g.relation[r].state
             /\ leftR(r).from = g.relation[r].from /\ leftR(r).to = g.relation[r].to
             /\ leftR(r).born = g.relation[r].born
  <2>1. g.relation[r] \in RelationRows
    BY <1>1
  <2> HIDE DEF goneR
  <2> QED BY <2>1 DEF RelationRows
<1>4. ASSUME NEW i \in Items
      PROVE  /\ leftI(i) \in ItemRows /\ leftI(i).state = g.item[i].state
             /\ leftI(i).subject = g.item[i].subject /\ leftI(i).born = g.item[i].born
  <2>1. g.item[i] \in ItemRows
    BY <1>1
  <2> HIDE DEF goneI
  <2> QED BY <2>1 DEF ItemRows
<1>5. /\ NoEntity \in EntityRows /\ NoEntity.state = "none" /\ NoEntity.into = None
      /\ NoItem \in ItemRows /\ NoItem.state = "none" /\ NoItem.subject = None
  BY DEF NoEntity, EntityRows, NoItem, ItemRows, Statuses
<1>6. NoRelation \in RelationRows /\ NoRelation.state = "none" /\ Names(NoRelation) = {None}
  <2>1. [k \in Keys |-> None] \in [Keys -> Cites \cup {None}]
    OBVIOUS
  <2> QED BY <2>1 DEF NoRelation, RelationRows, Names
<1>7. /\ entity \in [Entities -> EntityRows] /\ relation \in [Relations -> RelationRows]
      /\ item \in [Items -> ItemRows]
  <2> HIDE DEF leftE, leftR, leftI, goneR, goneI
  <2> QED BY <1>2, <1>3, <1>4, <1>5, <1>6
<1>8. h = [g EXCEPT !.entity = entity, !.relation = relation, !.item = item]
  BY DEF WithoutRows
<1>9. /\ h \in Graphs /\ h.cite = g.cite /\ h.learned = g.learned
      /\ h.entity = entity /\ h.relation = relation /\ h.item = item
  <2> HIDE DEF entity, relation, item, h
  <2> QED BY <1>7, <1>8 DEF Graphs
<1>10. ASSUME NEW e \in Entities
       PROVE  IF e \in rows THEN h.entity[e].state = "none" /\ h.entity[e].into = None
              ELSE /\ h.entity[e].state = g.entity[e].state
                   /\ h.entity[e].into = IF g.entity[e].into \in rows THEN None ELSE g.entity[e].into
  <2> HIDE DEF leftE, h
  <2> QED BY <1>2, <1>5, <1>9
<1>11. ASSUME NEW r \in Relations
       PROVE  IF r \in rows \/ Names(g.relation[r]) \cap rows # {}
              THEN h.relation[r].state = "none" /\ Names(h.relation[r]) = {None}
              ELSE /\ h.relation[r].state = g.relation[r].state
                   /\ h.relation[r].born = g.relation[r].born
                   /\ h.relation[r].from = g.relation[r].from /\ h.relation[r].to = g.relation[r].to
  <2>1. relation[r] = IF r \in goneR THEN NoRelation ELSE leftR(r)
    OBVIOUS
  <2> HIDE DEF leftR, h, relation
  <2> QED BY <1>3, <1>6, <1>9, <2>1
<1>12. ASSUME NEW i \in Items
       PROVE  IF i \in rows \/ g.item[i].subject \in rows
              THEN h.item[i].state = "none" /\ h.item[i].subject = None
              ELSE /\ h.item[i].state = g.item[i].state /\ h.item[i].born = g.item[i].born
                   /\ h.item[i].subject = g.item[i].subject
  <2> HIDE DEF leftI, h
  <2> QED BY <1>4, <1>5, <1>9
<1> HIDE DEF h, entity, relation, item
<1> QED BY <1>9, <1>10, <1>11, <1>12 DEF h, Loses

\* What the plan of "forget" deletes, it deletes with its citations.
LEMMA WithoutDoes ==
  ASSUME clock \in Nat, graph \in Graphs, NEW rows
  PROVE  /\ Without(rows) \in Graphs /\ Loses(graph, Without(rows), rows)
         /\ \A c \in Cites : Without(rows).cite[c] = IF graph.cite[c] \in rows THEN None ELSE graph.cite[c]
<1> DEFINE g == WithoutRows(graph, rows)
           cite == [c \in Cites |-> IF g.cite[c] \in rows THEN None ELSE g.cite[c]]
           relation == [r \in Relations |-> IF g.relation[r].by # graph.relation[r].by
                                            THEN [g.relation[r] EXCEPT !.touched = Now] ELSE g.relation[r]]
           item == [i \in Items |-> IF g.item[i].by # graph.item[i].by
                                    THEN [g.item[i] EXCEPT !.touched = Now] ELSE g.item[i]]
           h == Without(rows)
<1>1. g \in Graphs /\ g.cite = graph.cite /\ Loses(graph, g, rows)
  BY WithoutRowsDoes
<1> HIDE DEF g
<1>2. /\ g.relation \in [Relations -> RelationRows] /\ g.item \in [Items -> ItemRows]
      /\ g.cite \in Citations /\ Now \in Nat
  BY <1>1, PartsOf DEF Now
<1>3. cite \in Citations
  BY <1>2, CitationsOf
<1>4. ASSUME NEW r \in Relations
      PROVE  /\ relation[r] \in RelationRows /\ relation[r].state = g.relation[r].state
             /\ relation[r].from = g.relation[r].from /\ relation[r].to = g.relation[r].to
             /\ relation[r].born = g.relation[r].born
  <2>1. g.relation[r] \in RelationRows
    BY <1>2
  <2> QED BY <1>2, <2>1 DEF RelationRows
<1>5. ASSUME NEW i \in Items
      PROVE  /\ item[i] \in ItemRows /\ item[i].state = g.item[i].state
             /\ item[i].subject = g.item[i].subject /\ item[i].born = g.item[i].born
  <2>1. g.item[i] \in ItemRows
    BY <1>2
  <2> QED BY <1>2, <2>1 DEF ItemRows
<1>6. relation \in [Relations -> RelationRows] /\ item \in [Items -> ItemRows]
  <2>1. relation = [r \in Relations |-> relation[r]] /\ item = [i \in Items |-> item[i]]
    BY Zenon
  <2> HIDE DEF relation, item
  <2> QED BY <1>4, <1>5, <2>1
<1>7. h = [g EXCEPT !.cite = cite, !.relation = relation, !.item = item]
  BY DEF Without, g
<1>8. /\ h \in Graphs /\ h.entity = g.entity /\ h.cite = cite /\ h.relation = relation /\ h.item = item
  <2> HIDE DEF cite, relation, item, h
  <2> QED BY <1>1, <1>3, <1>6, <1>7 DEF Graphs
<1>9. Loses(graph, h, rows)
  <2>1. /\ \A r \in Relations : /\ h.relation[r].state = g.relation[r].state
                                /\ Names(h.relation[r]) = Names(g.relation[r])
                                /\ h.relation[r].from = g.relation[r].from
                                /\ h.relation[r].to = g.relation[r].to
                                /\ h.relation[r].born = g.relation[r].born
        /\ \A i \in Items : /\ h.item[i].state = g.item[i].state
                            /\ h.item[i].subject = g.item[i].subject
                            /\ h.item[i].born = g.item[i].born
    <3> HIDE DEF cite, relation, item, h
    <3> QED BY <1>4, <1>5, <1>8 DEF Names
  <2> HIDE DEF h, relation, item, cite
  <2> QED BY <1>1, <1>8, <2>1 DEF Loses
<1>10. \A c \in Cites : h.cite[c] = IF graph.cite[c] \in rows THEN None ELSE graph.cite[c]
  <2> HIDE DEF relation, item, h
  <2> QED BY <1>1, <1>8
<1> HIDE DEF h
<1> QED BY <1>8, <1>9, <1>10 DEF h

-------------------------------------------------------------------------------
(* Taking changes back.                                                    *)

\* The change of item i that p has logged is what i holds.
Undone(p, i) ==
  \E k \in 1..Len(proposal[p].log.changes) :
    /\ proposal[p].log.changes[k].row = i
    /\ graph.item[i].state = proposal[p].log.changes[k].after.state

\* What is taken back is a change of the log, of a row that is there and holds it.
LEMMA BackTyped ==
  ASSUME NEW p, proposal[p].log \in Logs, NEW kept
  PROVE  /\ ItemsBack(p, kept) \in Seq(ChangeRecords) /\ ClosingsBack(p, kept) \in Seq(ClosingRecords)
         /\ FillsBack(p) \in Seq(FillRecords)
         /\ \A n \in 1..Len(ItemsBack(p, kept)) : /\ There(graph, ItemsBack(p, kept)[n].row)
                                                  /\ Undone(p, ItemsBack(p, kept)[n].row)
<1> DEFINE log == proposal[p].log
           I == {n \in 1..Len(log.changes) :
                   /\ There(graph, log.changes[n].row)
                   /\ Restorable(kept, log.changes[n], ItemState(graph.item[log.changes[n].row]))}
<1>1. /\ log.changes \in Seq(ChangeRecords) /\ log.closings \in Seq(ClosingRecords)
      /\ log.fills \in Seq(FillRecords)
  BY DEF Logs
<1>2. ItemsBack(p, kept) = Picked(log.changes, I)
  BY DEF ItemsBack
<1>3. \A n \in I : There(graph, log.changes[n].row) /\ Undone(p, log.changes[n].row)
  <2> SUFFICES ASSUME NEW n \in I PROVE There(graph, log.changes[n].row) /\ Undone(p, log.changes[n].row)
    OBVIOUS
  <2>1. There(graph, log.changes[n].row) /\ ItemState(graph.item[log.changes[n].row]) = log.changes[n].after
    BY DEF Restorable
  <2>2. graph.item[log.changes[n].row].state = log.changes[n].after.state
    <3>1. ItemState(graph.item[log.changes[n].row]).state = graph.item[log.changes[n].row].state
      BY DEF ItemState
    <3> HIDE DEF I, log
    <3> QED BY <2>1, <3>1
  <2> QED BY <2>1, <2>2 DEF Undone
<1> HIDE DEF I
<1>4. ItemsBack(p, kept) \in Seq(ChangeRecords)
        /\ \A n \in 1..Len(ItemsBack(p, kept)) : \E k \in 1..Len(log.changes) :
             k \in I /\ ItemsBack(p, kept)[n] = log.changes[k]
  <2> DEFINE s == log.changes
  <2>1. s \in Seq(ChangeRecords)
    BY <1>1
  <2> HIDE DEF s
  <2>2. /\ Picked(s, I) \in Seq(ChangeRecords)
        /\ \A n \in 1..Len(Picked(s, I)) : \E k \in 1..Len(s) : k \in I /\ Picked(s, I)[n] = s[k]
    BY <2>1, PickedTyped
  <2> QED BY <1>2, <2>2 DEF s
<1>5. ClosingsBack(p, kept) \in Seq(ClosingRecords)
  <2> DEFINE J == {n \in 1..Len(log.closings) :
                     /\ There(graph, log.closings[n].row)
                     /\ Restorable(kept, log.closings[n], Validity(graph.relation[log.closings[n].row]))}
  <2>1. ClosingsBack(p, kept) = Picked(log.closings, J)
    BY DEF ClosingsBack
  <2> HIDE DEF J
  <2> QED BY <1>1, <2>1, PickedTyped
<1>6. FillsBack(p) \in Seq(FillRecords)
  <2> DEFINE J == {n \in 1..Len(log.fills) :
                     /\ There(graph, log.fills[n].row)
                     /\ \A k \in log.fills[n].keys :
                          graph.relation[log.fills[n].row].props[k] = log.fills[n].value}
  <2>1. FillsBack(p) = Picked(log.fills, J)
    BY DEF FillsBack
  <2> HIDE DEF J
  <2> QED BY <1>1, <2>1, PickedTyped
<1> QED BY <1>3, <1>4, <1>5, <1>6

\* The items of g once the changes are taken back, one after the other.
ItemsRestored(g, items) ==
  LET item[n \in 0..Len(items)] ==
        IF n = 0 THEN g.item
        ELSE [item[n - 1] EXCEPT ![items[n].row] =
                [@ EXCEPT !.state = items[n].before.state, !.status = items[n].before.status,
                          !.by = items[n].before.by, !.touched = Now]]
  IN  item[Len(items)]

\* The items, one change after the other.
LEMMA ItemsRestoredDoes ==
  ASSUME clock \in Nat, NEW g \in Graphs, NEW items \in Seq(ChangeRecords)
  PROVE  /\ ItemsRestored(g, items) \in [Items -> ItemRows]
         /\ \A i \in Items :
              /\ ItemsRestored(g, items)[i].subject = g.item[i].subject
              /\ ItemsRestored(g, items)[i].born = g.item[i].born
              /\ \/ ItemsRestored(g, items)[i].state = g.item[i].state
                 \/ /\ ItemsRestored(g, items)[i].state = "live"
                    /\ \E k \in 1..Len(items) : i = items[k].row
<1> DEFINE n == Len(items)
           T == {f \in [Items -> ItemRows] : \A i \in Items :
                   /\ f[i].subject = g.item[i].subject /\ f[i].born = g.item[i].born
                   /\ \/ f[i].state = g.item[i].state
                      \/ f[i].state = "live" /\ \E k \in 1..n : i = items[k].row}
           Do(f, i) == [f EXCEPT ![items[i].row] =
                          [@ EXCEPT !.state = items[i].before.state, !.status = items[i].before.status,
                                    !.by = items[i].before.by, !.touched = Now]]
           start == g.item
           F == [i \in 1..n |-> [f \in T |-> Do(f, i)]]
           Walked(f) == f = [i \in 0..n |-> IF i = 0 THEN start ELSE Do(f[i - 1], i)]
           after == CHOOSE f : Walked(f)
<1>0. n \in Nat /\ \A i \in 1..n : items[i] \in ChangeRecords
  OBVIOUS
<1>1. start \in T
  BY PartsOf
<1>2. ASSUME NEW f \in T, NEW i \in 1..n PROVE Do(f, i) \in T
  <2>1. items[i].row \in Items /\ items[i].before \in Befores /\ Now \in Nat
    BY <1>0 DEF ChangeRecords, Now
  <2>2. f \in [Items -> ItemRows]
    OBVIOUS
  <2> DEFINE row == [f[items[i].row] EXCEPT !.state = items[i].before.state,
                       !.status = items[i].before.status, !.by = items[i].before.by, !.touched = Now]
  <2>3. f[items[i].row] \in ItemRows
    BY <2>1, <2>2
  <2>4. /\ row \in ItemRows /\ row.state = "live" /\ row.subject = f[items[i].row].subject
        /\ row.born = f[items[i].row].born
    BY <2>1, <2>3 DEF ItemRows, Befores
  <2>5. Do(f, i) = [f EXCEPT ![items[i].row] = row]
    OBVIOUS
  <2> HIDE DEF row, Do
  <2> QED BY <2>1, <2>2, <2>4, <2>5
<1> HIDE DEF Do, T
<1>3. F \in [1..n -> [T -> T]]
  <2> HIDE DEF n
  <2> QED BY <1>2
<1>4. PICK h : Iteration(T, n, F, start, h)
  <2> HIDE DEF F, n
  <2> QED BY <1>0, <1>1, <1>3, Iterates, Zenon
<1>5. Walked(h)
  <2>1. \A i \in 1..n : \A x \in T : F[i][x] = Do(x, i)
    OBVIOUS
  <2> HIDE DEF F, n
  <2>2. \A i \in 1..n : h[i] = Do(h[i - 1], i)
    BY <1>0, <1>4, <2>1 DEF Iteration
  <2> QED BY <1>0, <1>4, <2>2 DEF Iteration
<1>6. Walked(after)
  <2> HIDE DEF Walked
  <2> QED BY <1>5
<1>7. after[0] = start /\ \A i \in 1..n : after[i] = Do(after[i - 1], i)
  <2> HIDE DEF after, n
  <2> QED BY <1>0, <1>6
<1>8. \A i \in 0..n : after[i] \in T
  <2> DEFINE S == {i \in 0..n : after[i] \in T}
  <2> HIDE DEF after, n
  <2>1. 0 \in S /\ \A i \in 0..n : i \in S /\ i < n => i + 1 \in S
    BY <1>0, <1>1, <1>2, <1>7
  <2> HIDE DEF S
  <2>2. \A i \in 0..n : i \in S
    BY <1>0, <2>1, UpTo, Zenon
  <2> QED BY <2>2 DEF S
<1>9. ItemsRestored(g, items) = after[n]
  BY DEF ItemsRestored, Do
<1> HIDE DEF after
<1>10. ItemsRestored(g, items) \in T
  <2> HIDE DEF n
  <2> QED BY <1>0, <1>8, <1>9
<1> QED BY <1>10 DEF T

\* And the relations, once what was closed is open again.
Opened(relation, closings) ==
  LET opened[n \in 0..Len(closings)] ==
        IF n = 0 THEN relation
        ELSE [opened[n - 1] EXCEPT ![closings[n].row] =
                [@ EXCEPT !.until = closings[n].before.until, !.by = closings[n].before.by,
                          !.touched = Now]]
  IN  opened[Len(closings)]

\* The relations that were ended are open again.
LEMMA OpenedDoes ==
  ASSUME clock \in Nat, NEW relation \in [Relations -> RelationRows],
         NEW closings \in Seq(ClosingRecords)
  PROVE  /\ Opened(relation, closings) \in [Relations -> RelationRows]
         /\ \A r \in Relations :
              /\ Opened(relation, closings)[r].from = relation[r].from
              /\ Opened(relation, closings)[r].to = relation[r].to
              /\ Opened(relation, closings)[r].state = relation[r].state
              /\ Opened(relation, closings)[r].born = relation[r].born
<1> DEFINE n == Len(closings)
           T == {f \in [Relations -> RelationRows] : \A r \in Relations :
                   /\ f[r].from = relation[r].from /\ f[r].to = relation[r].to
                   /\ f[r].state = relation[r].state /\ f[r].born = relation[r].born}
           Do(f, i) == [f EXCEPT ![closings[i].row] =
                          [@ EXCEPT !.until = closings[i].before.until, !.by = closings[i].before.by,
                                    !.touched = Now]]
           start == relation
           F == [i \in 1..n |-> [f \in T |-> Do(f, i)]]
           Walked(f) == f = [i \in 0..n |-> IF i = 0 THEN start ELSE Do(f[i - 1], i)]
           after == CHOOSE f : Walked(f)
<1>0. n \in Nat /\ \A i \in 1..n : closings[i] \in ClosingRecords
  OBVIOUS
<1>1. start \in T
  OBVIOUS
<1>2. ASSUME NEW f \in T, NEW i \in 1..n PROVE Do(f, i) \in T
  <2>1. closings[i].row \in Relations /\ closings[i].before \in Validities /\ Now \in Nat
    BY <1>0 DEF ClosingRecords, Now
  <2>2. f \in [Relations -> RelationRows]
    OBVIOUS
  <2> DEFINE row == [f[closings[i].row] EXCEPT !.until = closings[i].before.until,
                                               !.by = closings[i].before.by, !.touched = Now]
  <2>3. f[closings[i].row] \in RelationRows
    BY <2>1, <2>2
  <2>4. /\ row \in RelationRows /\ row.state = f[closings[i].row].state
        /\ row.from = f[closings[i].row].from /\ row.to = f[closings[i].row].to
        /\ row.born = f[closings[i].row].born
    BY <2>1, <2>3 DEF RelationRows, Validities
  <2>5. Do(f, i) = [f EXCEPT ![closings[i].row] = row]
    OBVIOUS
  <2> HIDE DEF row, Do
  <2> QED BY <2>1, <2>2, <2>4, <2>5
<1> HIDE DEF Do, T
<1>3. F \in [1..n -> [T -> T]]
  <2> HIDE DEF n
  <2> QED BY <1>2
<1>4. PICK h : Iteration(T, n, F, start, h)
  <2> HIDE DEF F, n
  <2> QED BY <1>0, <1>1, <1>3, Iterates, Zenon
<1>5. Walked(h)
  <2>1. \A i \in 1..n : \A x \in T : F[i][x] = Do(x, i)
    OBVIOUS
  <2> HIDE DEF F, n
  <2>2. \A i \in 1..n : h[i] = Do(h[i - 1], i)
    BY <1>0, <1>4, <2>1 DEF Iteration
  <2> QED BY <1>0, <1>4, <2>2 DEF Iteration
<1>6. Walked(after)
  <2> HIDE DEF Walked
  <2> QED BY <1>5
<1>7. after[0] = start /\ \A i \in 1..n : after[i] = Do(after[i - 1], i)
  <2> HIDE DEF after, n
  <2> QED BY <1>0, <1>6
<1>8. \A i \in 0..n : after[i] \in T
  <2> DEFINE S == {i \in 0..n : after[i] \in T}
  <2> HIDE DEF after, n
  <2>1. 0 \in S /\ \A i \in 0..n : i \in S /\ i < n => i + 1 \in S
    BY <1>0, <1>1, <1>2, <1>7
  <2> HIDE DEF S
  <2>2. \A i \in 0..n : i \in S
    BY <1>0, <2>1, UpTo, Zenon
  <2> QED BY <2>2 DEF S
<1>9. Opened(relation, closings) = after[n]
  BY DEF Opened, Do
<1> HIDE DEF after
<1>10. Opened(relation, closings) \in T
  <2> HIDE DEF n
  <2> QED BY <1>0, <1>8, <1>9
<1> QED BY <1>10 DEF T

\* And once what was filled in is taken off.
Emptied(relation, fills) ==
  LET emptied[n \in 0..Len(fills)] ==
        IF n = 0 THEN relation
        ELSE [emptied[n - 1] EXCEPT ![fills[n].row] =
                [@ EXCEPT !.props = [k \in Keys |-> IF k \in fills[n].keys THEN None
                                                    ELSE graph.relation[fills[n].row].props[k]],
                          !.touched = Now]]
  IN  emptied[Len(fills)]

\* What relations had gained is taken off.
LEMMA EmptiedDoes ==
  ASSUME clock \in Nat, NEW relation \in [Relations -> RelationRows],
         NEW fills \in Seq(FillRecords), graph \in Graphs
  PROVE  /\ Emptied(relation, fills) \in [Relations -> RelationRows]
         /\ \A r \in Relations :
              /\ Emptied(relation, fills)[r].from = relation[r].from
              /\ Emptied(relation, fills)[r].to = relation[r].to
              /\ Emptied(relation, fills)[r].state = relation[r].state
              /\ Emptied(relation, fills)[r].born = relation[r].born
<1> DEFINE n == Len(fills)
           T == {f \in [Relations -> RelationRows] : \A r \in Relations :
                   /\ f[r].from = relation[r].from /\ f[r].to = relation[r].to
                   /\ f[r].state = relation[r].state /\ f[r].born = relation[r].born}
           Do(f, i) == [f EXCEPT ![fills[i].row] =
                          [@ EXCEPT !.props = [k \in Keys |-> IF k \in fills[i].keys THEN None
                                                              ELSE graph.relation[fills[i].row].props[k]],
                                    !.touched = Now]]
           start == relation
           F == [i \in 1..n |-> [f \in T |-> Do(f, i)]]
           Walked(f) == f = [i \in 0..n |-> IF i = 0 THEN start ELSE Do(f[i - 1], i)]
           after == CHOOSE f : Walked(f)
<1>0. n \in Nat /\ \A i \in 1..n : fills[i] \in FillRecords
  OBVIOUS
<1>1. start \in T
  OBVIOUS
<1>2. ASSUME NEW f \in T, NEW i \in 1..n PROVE Do(f, i) \in T
  <2>1. fills[i].row \in Relations /\ fills[i].keys \subseteq Keys /\ Now \in Nat
    BY <1>0 DEF FillRecords, Now
  <2>2. f \in [Relations -> RelationRows]
    OBVIOUS
  <2> DEFINE props == [k \in Keys |-> IF k \in fills[i].keys THEN None
                                      ELSE graph.relation[fills[i].row].props[k]]
             row == [f[fills[i].row] EXCEPT !.props = props, !.touched = Now]
  <2>3. f[fills[i].row] \in RelationRows /\ graph.relation[fills[i].row] \in RelationRows
    BY <2>1, <2>2, PartsOf
  <2>4. props \in [Keys -> Cites \cup {None}]
    BY <2>3 DEF RelationRows
  <2>5. Do(f, i) = [f EXCEPT ![fills[i].row] = row]
    OBVIOUS
  <2> HIDE DEF props
  <2>6. /\ row \in RelationRows /\ row.state = f[fills[i].row].state
        /\ row.from = f[fills[i].row].from /\ row.to = f[fills[i].row].to
        /\ row.born = f[fills[i].row].born
    BY <2>1, <2>3, <2>4 DEF RelationRows
  <2> HIDE DEF row, Do
  <2> QED BY <2>1, <2>2, <2>5, <2>6
<1> HIDE DEF Do, T
<1>3. F \in [1..n -> [T -> T]]
  <2> HIDE DEF n
  <2> QED BY <1>2
<1>4. PICK h : Iteration(T, n, F, start, h)
  <2> HIDE DEF F, n
  <2> QED BY <1>0, <1>1, <1>3, Iterates, Zenon
<1>5. Walked(h)
  <2>1. \A i \in 1..n : \A x \in T : F[i][x] = Do(x, i)
    OBVIOUS
  <2> HIDE DEF F, n
  <2>2. \A i \in 1..n : h[i] = Do(h[i - 1], i)
    BY <1>0, <1>4, <2>1 DEF Iteration
  <2> QED BY <1>0, <1>4, <2>2 DEF Iteration
<1>6. Walked(after)
  <2> HIDE DEF Walked
  <2> QED BY <1>5
<1>7. after[0] = start /\ \A i \in 1..n : after[i] = Do(after[i - 1], i)
  <2> HIDE DEF after, n
  <2> QED BY <1>0, <1>6
<1>8. \A i \in 0..n : after[i] \in T
  <2> DEFINE S == {i \in 0..n : after[i] \in T}
  <2> HIDE DEF after, n
  <2>1. 0 \in S /\ \A i \in 0..n : i \in S /\ i < n => i + 1 \in S
    BY <1>0, <1>1, <1>2, <1>7
  <2> HIDE DEF S
  <2>2. \A i \in 0..n : i \in S
    BY <1>0, <2>1, UpTo, Zenon
  <2> QED BY <2>2 DEF S
<1>9. Emptied(relation, fills) = after[n]
  BY DEF Emptied, Do
<1> HIDE DEF after
<1>10. Emptied(relation, fills) \in T
  <2> HIDE DEF n
  <2> QED BY <1>0, <1>8, <1>9
<1> QED BY <1>10 DEF T

\* All that a revert restores: no name moves, and an item that comes back was there.
LEMMA RestoredDoes ==
  ASSUME clock \in Nat, graph \in Graphs, NEW g \in Graphs, NEW p, proposal[p].log \in Logs, NEW kept
  PROVE  LET h == Restored(g, p, kept) IN
         /\ h \in Graphs /\ h.entity = g.entity /\ h.cite = g.cite
         /\ \A r \in Relations : /\ h.relation[r].from = g.relation[r].from
                                 /\ h.relation[r].to = g.relation[r].to
                                 /\ h.relation[r].state = g.relation[r].state
                                 /\ h.relation[r].born = g.relation[r].born
         /\ \A i \in Items : /\ h.item[i].subject = g.item[i].subject /\ h.item[i].born = g.item[i].born
                             /\ \/ h.item[i].state = g.item[i].state
                                \/ h.item[i].state = "live" /\ There(graph, i) /\ Undone(p, i)
<1> DEFINE items == ItemsBack(p, kept)
           closings == ClosingsBack(p, kept)
           fills == FillsBack(p)
           item == ItemsRestored(g, items)
           opened == Opened(g.relation, closings)
           relation == Emptied(opened, fills)
           learned == g.learned \ proposal[p].log.learned
           h == Restored(g, p, kept)
<1>1. /\ items \in Seq(ChangeRecords) /\ closings \in Seq(ClosingRecords) /\ fills \in Seq(FillRecords)
      /\ \A n \in 1..Len(items) : There(graph, items[n].row) /\ Undone(p, items[n].row)
  BY BackTyped
<1>2. h = [g EXCEPT !.item = item, !.relation = relation, !.learned = learned]
  BY DEF Restored, ItemsRestored, Opened, Emptied
<1> HIDE DEF items, closings, fills, h
<1>3. /\ item \in [Items -> ItemRows]
      /\ \A i \in Items : /\ item[i].subject = g.item[i].subject /\ item[i].born = g.item[i].born
                          /\ \/ item[i].state = g.item[i].state
                             \/ item[i].state = "live" /\ There(graph, i) /\ Undone(p, i)
  BY <1>1, ItemsRestoredDoes
<1>4. /\ opened \in [Relations -> RelationRows]
      /\ \A r \in Relations : /\ opened[r].from = g.relation[r].from /\ opened[r].to = g.relation[r].to
                              /\ opened[r].state = g.relation[r].state
                              /\ opened[r].born = g.relation[r].born
  <2> DEFINE f == g.relation
  <2>1. f \in [Relations -> RelationRows]
    BY PartsOf
  <2> HIDE DEF f
  <2>2. /\ Opened(f, closings) \in [Relations -> RelationRows]
        /\ \A r \in Relations : /\ Opened(f, closings)[r].from = f[r].from
                                /\ Opened(f, closings)[r].to = f[r].to
                                /\ Opened(f, closings)[r].state = f[r].state
                                /\ Opened(f, closings)[r].born = f[r].born
    BY <1>1, <2>1, OpenedDoes
  <2> QED BY <2>2 DEF f
<1> HIDE DEF opened
<1>5. /\ relation \in [Relations -> RelationRows]
      /\ \A r \in Relations : /\ relation[r].from = opened[r].from /\ relation[r].to = opened[r].to
                              /\ relation[r].state = opened[r].state
                              /\ relation[r].born = opened[r].born
  BY <1>1, <1>4, EmptiedDoes
<1> HIDE DEF item, relation
<1>6. learned \subseteq Lessons
  BY PartsOf
<1> HIDE DEF learned
<1>7. /\ h \in Graphs /\ h.entity = g.entity /\ h.cite = g.cite /\ h.item = item /\ h.relation = relation
  BY <1>2, <1>3, <1>5, <1>6 DEF Graphs
<1>8. \A r \in Relations : /\ h.relation[r].from = g.relation[r].from
                           /\ h.relation[r].to = g.relation[r].to
                           /\ h.relation[r].state = g.relation[r].state
                           /\ h.relation[r].born = g.relation[r].born
  BY <1>4, <1>5, <1>7
<1> QED BY <1>3, <1>7, <1>8 DEF h

-------------------------------------------------------------------------------
(* Who is forgotten with a person.                                         *)

\* The person, whoever was merged into someone of them, and nobody else: there are no more
\* rounds to find another than there are entities.
LEMMA PersonSetIs ==
  ASSUME graph \in Graphs, NEW e \in Entities
  PROVE  /\ e \in PersonSet(e) /\ PersonSet(e) \subseteq Entities
         /\ \A x \in Entities : graph.entity[x].into \in PersonSet(e) => x \in PersonSet(e)
         /\ \A x \in PersonSet(e) : x = e \/ graph.entity[x].into \in Entities
<1> DEFINE N == Cardinality(Entities)
           Next1(R) == R \cup {x \in Entities : graph.entity[x].into \in R}
           T == {R \in SUBSET Entities : e \in R /\ \A x \in R : x = e \/ graph.entity[x].into \in Entities}
           Closed(R) == \A x \in Entities : graph.entity[x].into \in R => x \in R
           F == [i \in 1..N |-> [R \in T |-> Next1(R)]]
           Walked(f) == f = [n \in 0..N |-> IF n = 0 THEN {e} ELSE Next1(f[n - 1])]
           reach == CHOOSE f : Walked(f)
           start == {e}
<1>0. N \in Nat
  BY FS_CardinalityType, GraphAssumption
<1>1. start \in T
  OBVIOUS
<1>2. \A R \in T : Next1(R) \in T
  OBVIOUS
<1>a. \A R \in T : /\ R \in SUBSET Entities /\ e \in R
                   /\ \A x \in R : x = e \/ graph.entity[x].into \in Entities
  OBVIOUS
<1> HIDE DEF Next1, T, start
<1>3. F \in [1..N -> [T -> T]]
  <2> HIDE DEF N
  <2> QED BY <1>2
<1>4. PICK h : Iteration(T, N, F, start, h)
  <2> HIDE DEF F, N
  <2> QED BY <1>0, <1>1, <1>3, Iterates, Zenon
<1>5. Walked(h)
  <2>1. \A i \in 1..N : \A x \in T : F[i][x] = Next1(x)
    OBVIOUS
  <2> HIDE DEF F, N
  <2>2. \A i \in 1..N : h[i] = Next1(h[i - 1])
    BY <1>0, <1>4, <2>1 DEF Iteration
  <2> QED BY <1>0, <1>4, <2>2 DEF Iteration, start
<1>6. Walked(reach)
  <2> HIDE DEF Walked
  <2> QED BY <1>5
<1>7. reach[0] = start /\ \A i \in 1..N : reach[i] = Next1(reach[i - 1])
  <2> HIDE DEF reach, N
  <2> QED BY <1>0, <1>6 DEF start
<1> HIDE DEF reach
<1>8. \A i \in 0..N : reach[i] \in T
  <2> DEFINE S == {i \in 0..N : reach[i] \in T}
  <2> HIDE DEF N
  <2>1. 0 \in S /\ \A i \in 0..N : i \in S /\ i < N => i + 1 \in S
    BY <1>0, <1>1, <1>2, <1>7
  <2> HIDE DEF S
  <2>2. \A i \in 0..N : i \in S
    BY <1>0, <2>1, UpTo, Zenon
  <2> QED BY <2>2 DEF S
<1>9. \A R \in T : IsFiniteSet(R) /\ Cardinality(R) \in Nat /\ Cardinality(R) <= N
  <2> SUFFICES ASSUME NEW R \in T PROVE IsFiniteSet(R) /\ Cardinality(R) \in Nat /\ Cardinality(R) <= N
    OBVIOUS
  <2>1. R \subseteq Entities
    BY <1>a
  <2> QED BY <2>1, GraphAssumption, FS_Subset, FS_CardinalityType
<1>10. ASSUME NEW R \in T, ~Closed(R)
       PROVE  Cardinality(Next1(R)) > Cardinality(R)
  <2>1. PICK x \in Entities : graph.entity[x].into \in R /\ x \notin R
    BY <1>10
  <2>2. R \subseteq Next1(R) /\ x \in Next1(R) /\ Next1(R) \in T
    BY <1>2, <2>1 DEF Next1
  <2>3. Cardinality(R) <= Cardinality(Next1(R)) /\ (Cardinality(R) = Cardinality(Next1(R)) => R = Next1(R))
    BY <1>9, <2>2, FS_Subset
  <2> QED BY <1>9, <2>1, <2>2, <2>3
<1>11. \A i \in 0..N : Closed(reach[i]) \/ Cardinality(reach[i]) > i
  <2> DEFINE S == {i \in 0..N : Closed(reach[i]) \/ Cardinality(reach[i]) > i}
  <2>1. 0 \in S
    <3>1. Cardinality(start) = 1
      BY FS_Singleton DEF start
    <3> HIDE DEF N, Closed
    <3> QED BY <1>0, <1>7, <3>1
  <2>2. ASSUME NEW i \in 0..N, i \in S, i < N PROVE i + 1 \in S
    <3>1. i + 1 \in 1..N /\ i + 1 - 1 = i /\ i + 1 \in 0..N
      BY <1>0, <2>2
    <3>2. reach[i + 1] = Next1(reach[i]) /\ reach[i] \in T
      BY <1>7, <1>8, <3>1
    <3>3. CASE Closed(reach[i])
      <4>1. Next1(reach[i]) = reach[i]
        BY <3>3 DEF Next1
      <4> QED BY <3>1, <3>2, <3>3, <4>1
    <3>4. CASE ~Closed(reach[i])
      <4>1. Cardinality(reach[i]) > i
        BY <2>2, <3>4
      <4>2. Cardinality(reach[i + 1]) > Cardinality(reach[i])
        BY <1>10, <3>2, <3>4
      <4>3. Cardinality(reach[i + 1]) \in Nat /\ Cardinality(reach[i]) \in Nat
        BY <1>2, <1>9, <3>2
      <4>4. Cardinality(reach[i + 1]) > i + 1
        BY <4>1, <4>2, <4>3
      <4> QED BY <3>1, <4>4
    <3> QED BY <3>3, <3>4
  <2> HIDE DEF S, N
  <2>3. \A i \in 0..N : i \in S
    BY <1>0, <2>1, <2>2, UpTo, Zenon
  <2> QED BY <2>3 DEF S
<1>12. N \in 0..N
  BY <1>0
<1>13. reach[N] \in T /\ Closed(reach[N])
  <2> HIDE DEF Closed, N
  <2> QED BY <1>0, <1>8, <1>9, <1>11, <1>12
<1>14. PersonSet(e) = reach[N]
  BY DEF PersonSet, reach, Next1
<1> HIDE DEF N
<1> QED BY <1>a, <1>13, <1>14
===============================================================================
