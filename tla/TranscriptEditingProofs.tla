------------------------- MODULE TranscriptEditingProofs -------------------------
(***************************************************************************)
(* What holds of TranscriptEditing for every transcript, every menu, any   *)
(* number of requests and snapshot runs at once, and any bounds.           *)
(***************************************************************************)
EXTENDS TranscriptEditing, TranscriptOpsProofs, FiniteSetTheorems

Docs == Document(Texts)
Ops  == Seq(Op(Texts))
Rows == LineRow(Texts) \cup VoiceRow \cup {Gone}

\* Where a request is before and after its commit.
EditPcs    == {"accepted", "routed", "naming", "saving", "bumping", "raced", "conflicted", "saved"}
RestorePcs == {"restoring", "materializing", "restores", "restored"}

Request ==
  [pc : {"idle"} \cup EditPcs \cup RestorePcs, batch : 0..MaxRequests, ops : Ops, version : Nat,
   sight : Seq(Rows), base : Nat, tries : Nat, target : Docs \cup {Gone},
   answer : {"none", "replayed", "conflict", "named", "invalid", "saved", "unavailable", "error"}]

VersionRow ==
  [kind : {"ai_original", "edit", "restore"}, ops : Ops, batch : 0..MaxRequests, from : Nat,
   snapshot : BOOLEAN, said : [Segments -> LineRow(Texts) \cup {Gone}]]

Run ==
  [pc : {"idle", "started", "read", "put", "returned"}, row : SUBSET Slots, version : Nat,
   body : Docs \cup {Gone}]

Types ==
  /\ live \in Docs
  /\ log \in Seq(VersionRow) /\ current # 0
  /\ identities \in Given
  /\ store \in [Versions -> Docs \cup {Gone}]
  /\ job \in [Slots -> JobRow]
  /\ worker \in [Workers -> Run] /\ late \in SUBSET Versions
  /\ client \in [Tabs -> Request]
  /\ menu \in SUBSET Kinds
  /\ used \in [requests : 0..MaxRequests, faults : Nat]

\* The requests that may still commit.
Open == (EditPcs \cup RestorePcs) \ {"saved", "restored"}
Busy == {t \in Tabs : client[t].pc \in Open}

\* Each version is a request's that is done with it.
Budget ==
  /\ IsFiniteSet(Busy)
  /\ current + Cardinality(Busy) <= 1 + used.requests

\* Which pc a request can be at with which batch; of n versions, the one it names is one.
RequestOK(c, n) ==
  /\ c.pc # "idle" => c.version \in 1..n /\ c.answer = "none"
  /\ c.pc \in EditPcs => c.ops # <<>>
  /\ c.pc \in RestorePcs => c.ops = <<>>
  /\ c.pc = "naming" => \A i \in 1..Len(c.ops) : c.ops[i].op = "speaker.rename"
  /\ c.pc = "restores" => c.target # Gone

\* What a run of the snapshot handler has read is a document, and its version exists.
HasRead(r)  == r.pc \in {"read", "put"}
RunOK(r, n) == HasRead(r) => r.version \in 1..n /\ r.body # Gone

\* A version comes from an earlier one, the first from none.
LogOK == \A v \in 1..current : log[v].from \in 0..(v - 1)

Shape ==
  /\ Types /\ LogOK
  /\ \A t \in Tabs : RequestOK(client[t], current)
  /\ \A w \in Workers : RunOK(worker[w], current)
  /\ Budget

-------------------------------------------------------------------------------
(* Types.                                                                  *)

\* Texts are numbers, which is what the ops ask of them.
LEMMA TextsAreNumbers == Texts \in SUBSET Nat
BY DEF Texts

\* The lines of a document are lines, or gone.
LEMMA LinesTyped ==
  ASSUME NEW doc \in Docs
  PROVE  Lines(doc) \in [Segments -> LineRow(Texts) \cup {Gone}]
BY DEF Lines, Docs, Document

\* What a version is made from makes a version.
LEMMA EntryTyped ==
  ASSUME NEW kind \in {"ai_original", "edit", "restore"}, NEW ops \in Ops,
         NEW batch \in 0..MaxRequests, NEW from \in Nat, NEW doc \in Docs
  PROVE  Entry(kind, ops, batch, from, doc) \in VersionRow
BY LinesTyped DEF Entry, VersionRow

\* An empty batch is one.
LEMMA NoBatch == <<>> \in Ops /\ <<>> \in Seq(Rows)
BY DEF Ops

\* A tab without a request is one that has none to send.
LEMMA NoRequestTyped ==
  /\ NoRequest \in Request
  /\ NoRequest.pc = "idle" /\ NoRequest.ops = <<>> /\ NoRequest.answer = "none"
BY NoBatch, EditingBounds DEF NoRequest, Request

\* What is gone is no document.
LEMMA GoneIsNoDocument == Gone \notin Docs
<1>1. Docs \subseteq Document(Nat)
  BY TextsAreNumbers DEF Docs, Document, LineRow
<1> QED BY <1>1, OpsAssumption

\* The first version has the shape of any.
LEMMA InitShape == Init => Shape
<1> SUFFICES ASSUME Init PROVE Shape
  OBVIOUS
<1>1. live \in Docs
  <2>1. PICK said \in [Segments -> Speakers] :
          live = [e \in Entities |-> IF e \in Speakers THEN Voice(e, 1) ELSE Line(0, said[e], 1)]
    BY DEF Init
  <2>2. ASSUME NEW s \in Segments PROVE live[s] \in LineRow(Texts)
    <3>1. s \notin Speakers /\ s \in Entities
      BY OpsAssumption DEF Entities
    <3>2. live[s] = Line(0, said[s], 1) /\ said[s] \in Speakers
      BY <2>1, <3>1
    <3>3. 0 \in Texts
      BY EditingBounds DEF Texts
    <3> QED BY <3>2, <3>3 DEF Line, LineRow
  <2>3. \A s \in Speakers : live[s] \in VoiceRow
    BY <2>1 DEF Entities, Voice, VoiceRow
  <2>4. live = [e \in Entities |-> live[e]]
    BY <2>1
  <2> QED BY <2>2, <2>3, <2>4, IsDocument DEF Docs
<1>2. Entry("ai_original", <<>>, 0, 0, live) \in VersionRow
  BY <1>1, NoBatch, EntryTyped, EditingBounds
<1>3. log \in Seq(VersionRow) /\ current = 1 /\ log[1].from = 0
  BY <1>2 DEF Init, current, Entry
<1>4. identities \in Given
  BY DEF Init, Given
<1>5. /\ store \in [Versions -> Docs \cup {Gone}] /\ late \in SUBSET Versions
      /\ worker \in [Workers -> Run] /\ \A w \in Workers : RunOK(worker[w], current)
  BY DEF Init, NoRun, Run, RunOK, HasRead
<1>9. job \in [Slots -> JobRow]
  BY DEF Init, NoJob, JobRow
<1>6. client \in [Tabs -> Request] /\ \A t \in Tabs : RequestOK(client[t], current)
  BY NoRequestTyped DEF Init, RequestOK, NoRequest, EditPcs, RestorePcs
<1>7. menu \in SUBSET Kinds /\ used \in [requests : 0..MaxRequests, faults : Nat]
  BY EditingBounds DEF Init
<1>8. Budget
  <2>1. Busy = {}
    BY DEF Init, NoRequest, Busy, Open, EditPcs, RestorePcs
  <2> QED BY <2>1, <1>3, FS_EmptySet DEF Init, Budget
<1> QED BY <1>1, <1>3, <1>4, <1>5, <1>6, <1>7, <1>8, <1>9 DEF Shape, Types, LogOK

-------------------------------------------------------------------------------
(* The versions rebuilt.                                                   *)

Outcome ==
  {r \in [how : {"found", "unreachable", "lost", "corrupt"}, doc : Docs \cup {Gone}] :
     r.how = "found" => r.doc \in Docs}

\* Replaying ops over what a replay gave gives a document, or tells what went wrong.
LEMMA ReplayTyped ==
  ASSUME NEW base \in Outcome, NEW ops \in Ops
  PROVE  Replay(base, ops) \in Outcome
<1>1. CASE base.how # "found"
  BY <1>1 DEF Replay
<1>2. CASE base.how = "found"
  <2>1. ApplyOps(base.doc, ops) \in Progress(Texts)
    BY <1>2, TextsAreNumbers, ApplyOpsTyped DEF Outcome, Docs, Ops
  <2> QED BY <1>2, <2>1 DEF Replay, Outcome, Found, Missing, Progress, Docs
<1> QED BY <1>1, <1>2

\* What a version is rebuilt from, earlier ones being rebuilt.
Rebuilt(g, v) ==
  CASE v = 0 -> Missing("unreachable")
    [] v > 0 /\ log[v].snapshot ->
         IF store[v] = Gone THEN Missing("lost") ELSE Found(store[v])
    [] v > 0 /\ ~log[v].snapshot /\ log[v].kind = "restore" -> g[log[v].from]
    [] OTHER -> Replay(g[v - 1], log[v].ops)

\* There is a version, and each up to the current one has a row in the log.
LEMMA VersionsExist ==
  ASSUME Shape
  PROVE  /\ current \in Nat \ {0} /\ current \in Versions
         /\ \A v \in 1..current : log[v] \in VersionRow /\ v \in Versions
<1>1. current \in Nat \ {0} /\ \A v \in 1..current : log[v] \in VersionRow
  BY DEF Shape, Types, current
<1>2. Cardinality(Busy) \in Nat
  BY FS_CardinalityType DEF Shape, Budget
<1>3. current <= 1 + MaxRequests
  BY <1>1, <1>2, EditingBounds DEF Shape, Types, Budget
<1> QED BY <1>1, <1>3, EditingBounds DEF Versions

\* One version of a replay is a document, or tells what went wrong.
LEMMA RebuiltTyped ==
  ASSUME Shape, NEW m \in 0..current, NEW g \in [0..m -> Outcome], NEW v \in 0..current,
         v <= m + 1
  PROVE  Rebuilt(g, v) \in Outcome
<1>1. CASE v = 0
  BY <1>1 DEF Rebuilt, Missing, Outcome
<1>2. CASE v # 0
  <2>1. v \in 1..current /\ v > 0 /\ v - 1 \in 0..m /\ log[v].from \in 0..m
    BY <1>2, VersionsExist DEF Shape, LogOK
  <2>2. log[v] \in VersionRow /\ v \in Versions
    BY <2>1, VersionsExist
  <2>3. store[v] \in Docs \cup {Gone} /\ log[v].ops \in Ops
    BY <2>2 DEF Shape, Types, VersionRow
  <2>4. g[log[v].from] \in Outcome /\ Replay(g[v - 1], log[v].ops) \in Outcome
    BY <2>1, <2>3, ReplayTyped
  <2>5. Missing("lost") \in Outcome /\ (store[v] # Gone => Found(store[v]) \in Outcome)
    BY <2>3 DEF Missing, Found, Outcome
  <2>6. CASE log[v].snapshot
    BY <2>1, <2>5, <2>6 DEF Rebuilt
  <2>7. CASE ~log[v].snapshot /\ log[v].kind = "restore"
    BY <2>1, <2>4, <2>7, <1>2 DEF Rebuilt
  <2>8. CASE ~log[v].snapshot /\ log[v].kind # "restore"
    BY <2>1, <2>4, <2>8, <1>2 DEF Rebuilt
  <2> QED BY <2>6, <2>7, <2>8
<1> QED BY <1>1, <1>2

\* Functions that agree below a version rebuild it alike.
LEMMA RebuiltFrom ==
  ASSUME Shape, NEW v \in 0..current, NEW g, NEW h, \A u \in 0..(v - 1) : g[u] = h[u]
  PROVE  Rebuilt(g, v) = Rebuilt(h, v)
<1>1. CASE v = 0
  BY <1>1 DEF Rebuilt
<1>2. CASE v # 0
  <2>1. v \in 1..current /\ v - 1 \in 0..(v - 1) /\ log[v].from \in 0..(v - 1)
    BY <1>2, VersionsExist DEF Shape, LogOK
  <2>2. g[v - 1] = h[v - 1] /\ g[log[v].from] = h[log[v].from]
    BY <2>1
  <2> QED BY <2>2 DEF Rebuilt
<1> QED BY <1>1, <1>2

\* The recursion of Raw is one that can be run.
LEMMA RawIs ==
  ASSUME Shape
  PROVE  Raw \in [0..current -> Outcome] /\ \A v \in 0..current : Raw[v] = Rebuilt(Raw, v)
<1> DEFINE Goes(m) == \E g \in [0..m -> Outcome] : \A v \in 0..m : g[v] = Rebuilt(g, v)
           S == {m \in 0..current : Goes(m)}
<1>0. current \in Nat
  BY VersionsExist
<1>1. Goes(0)
  <2> DEFINE g == [v \in 0..0 |-> Missing("unreachable")]
  <2>1. g \in [0..0 -> Outcome] /\ \A v \in 0..0 : g[v] = Rebuilt(g, v)
    BY DEF Missing, Outcome, Rebuilt
  <2> HIDE DEF g
  <2> QED BY <2>1
<1>2. ASSUME NEW m \in 0..current, Goes(m), m < current PROVE Goes(m + 1)
  <2>1. PICK g \in [0..m -> Outcome] : \A v \in 0..m : g[v] = Rebuilt(g, v)
    BY <1>2
  <2>2. m \in Nat /\ m + 1 \in 0..current
    BY <1>0, <1>2
  <2> DEFINE h == [v \in 0..(m + 1) |-> IF v = m + 1 THEN Rebuilt(g, m + 1) ELSE g[v]]
  <2>3. Rebuilt(g, m + 1) \in Outcome
    BY <2>2, RebuiltTyped
  <2>4. h \in [0..(m + 1) -> Outcome]
    BY <2>2, <2>3
  <2>5. (\A u \in 0..m : h[u] = g[u]) /\ h[m + 1] = Rebuilt(g, m + 1)
    BY <2>2
  <2> HIDE DEF h
  <2>6. ASSUME NEW v \in 0..(m + 1) PROVE h[v] = Rebuilt(h, v)
    <3>1. v \in 0..current /\ \A u \in 0..(v - 1) : u \in 0..m
      BY <1>0, <1>2, <2>2
    <3>2. Rebuilt(g, v) = Rebuilt(h, v)
      BY <3>1, <2>5, RebuiltFrom
    <3>3. h[v] = Rebuilt(g, v)
      BY <2>1, <2>2, <2>5
    <3> QED BY <3>2, <3>3
  <2> QED BY <2>4, <2>6
<1> HIDE DEF Goes
<1>3. 0 \in S /\ \A i \in 0..current : i \in S /\ i < current => i + 1 \in S
  BY <1>0, <1>1, <1>2
<1> HIDE DEF S
<1>4. \A i \in 0..current : i \in S
  BY <1>0, <1>3, UpTo, Zenon
<1>5. PICK g \in [0..current -> Outcome] : \A v \in 0..current : g[v] = Rebuilt(g, v)
  BY <1>0, <1>4 DEF S, Goes
<1> DEFINE IsRaw(f) == f = [v \in 0..Len(log) |-> Rebuilt(f, v)]
           raw == CHOOSE f : IsRaw(f)
<1>6. IsRaw(g)
  BY <1>5 DEF current
<1>7. IsRaw(raw)
  <2> HIDE DEF IsRaw
  <2> QED BY <1>6
<1>8. Raw = raw
  BY DEF Raw, Rebuilt
<1>9. raw = [v \in 0..current |-> raw[v]] /\ \A v \in 0..current : raw[v] = Rebuilt(raw, v)
  <2> HIDE DEF raw
  <2> QED BY <1>7 DEF current
<1> HIDE DEF raw
<1> DEFINE T == {i \in 0..current : \A v \in 0..i : raw[v] = g[v]}
<1>10. 0 \in T /\ \A i \in 0..current : i \in T /\ i < current => i + 1 \in T
  <2>1. ASSUME NEW i \in 0..current, \A u \in 0..(i - 1) : raw[u] = g[u] PROVE raw[i] = g[i]
    BY <2>1, <1>5, <1>9, RebuiltFrom
  <2>2. 0 \in T
    BY <1>0, <2>1
  <2>3. ASSUME NEW i \in 0..current, i \in T, i < current PROVE i + 1 \in T
    <3>1. i + 1 \in 0..current /\ \A u \in 0..((i + 1) - 1) : raw[u] = g[u]
      BY <1>0, <2>3
    <3>2. raw[i + 1] = g[i + 1]
      BY <2>1, <3>1
    <3> QED BY <2>3, <3>1, <3>2
  <2> QED BY <2>2, <2>3
<1> HIDE DEF T
<1>11. \A i \in 0..current : i \in T
  BY <1>0, <1>10, UpTo, Zenon
<1>12. \A v \in 0..current : raw[v] \in Outcome
  BY <1>0, <1>5, <1>11 DEF T
<1> QED BY <1>8, <1>9, <1>12

\* What materialize returns is a document, or tells what went wrong.
LEMMA MaterializeTyped ==
  ASSUME Shape, NEW v \in 1..current
  PROVE  Materialize(v) \in Outcome
<1> DEFINE raw == IF v = current /\ Raw[v].how = "unreachable" THEN Found(live) ELSE Raw[v]
<1>1. v \in 0..current
  BY VersionsExist
<1>2. raw \in Outcome
  BY <1>1, RawIs DEF Found, Outcome, Shape, Types
<1>3. Materialize(v) = IF raw.how = "found" THEN Found(ApplyIdentities(raw.doc, identities)) ELSE raw
  BY DEF Materialize
<1> HIDE DEF raw
<1>4. CASE raw.how = "found"
  <2>1. ApplyIdentities(raw.doc, identities) \in Docs
    BY <1>2, <1>4, TextsAreNumbers, NamesPut DEF Outcome, Docs, Shape, Types
  <2> QED BY <1>3, <1>4, <2>1 DEF Found, Outcome
<1> QED BY <1>2, <1>3, <1>4

-------------------------------------------------------------------------------
(* What a request does.                                                    *)

\* An op that names the row in front of its author, and its rev.
Fresh(op) == op.op # "speaker.merge" => live[op.id] # Gone /\ op.rev = live[op.id].rev

\* What the menu offers are ops, and whatever they add is new.
LEMMA OpsTyped ==
  ASSUME Shape, NEW kind \in Kinds, NEW batch \in 1..MaxRequests, NEW op \in OpsOf(kind, batch)
  PROVE  /\ op \in Op(Texts) /\ Fresh(op)
         /\ kind = "rename" => op.op = "speaker.rename"
<1>0. batch \in Texts
  BY EditingBounds DEF Texts
<1>1. /\ \A s \in Present(Segments) : s \in Segments /\ live[s] # Gone /\ live[s].rev \in Nat
      /\ \A s \in Present(Speakers) : s \in Speakers /\ live[s] # Gone /\ live[s].rev \in Nat
  <2>1. live \in Document(Texts)
    BY DEF Shape, Types, Docs
  <2>2. \A s \in Segments : live[s] # Gone => live[s] \in LineRow(Texts)
    BY <2>1, TextsAreNumbers, RowsAreRows
  <2>3. \A s \in Speakers : live[s] # Gone => live[s] \in VoiceRow
    BY <2>1, TextsAreNumbers, RowsAreRows
  <2> QED BY <2>2, <2>3 DEF Present, LineRow, VoiceRow
<1>2. CASE kind = "text"
  <2>1. PICK s \in Present(Segments) :
          op = [op |-> "segment.update_text", id |-> s, rev |-> live[s].rev, value |-> batch]
    BY <1>2 DEF OpsOf
  <2> QED BY <1>0, <1>1, <1>2, <2>1 DEF Op, Fresh
<1>3. CASE kind = "delete"
  <2>1. PICK s \in Present(Segments) :
          op = [op |-> "segment.delete", id |-> s, rev |-> live[s].rev]
    BY <1>3 DEF OpsOf
  <2> QED BY <1>1, <1>3, <2>1 DEF Op, Fresh
<1>4. CASE kind = "rename"
  <2>1. PICK s \in Present(Speakers), n \in Names :
          op = [op |-> "speaker.rename", id |-> s, rev |-> live[s].rev, value |-> n]
    BY <1>4 DEF OpsOf
  <2> QED BY <1>1, <1>4, <2>1 DEF Op, Fresh
<1>5. CASE kind = "unname"
  <2>1. PICK s \in Present(Speakers) :
          op = [op |-> "speaker.rename", id |-> s, rev |-> live[s].rev, value |-> s]
    BY <1>5 DEF OpsOf
  <2> QED BY <1>1, <1>5, <2>1 DEF Op, Fresh
<1>6. CASE kind \in {"merge", "merge_name"}
  <2>1. PICK p \in Present(Speakers) \X Present(Speakers) :
          /\ p[1] # p[2]
          /\ op = [op |-> "speaker.merge", id |-> p[1], source |-> p[2],
                   keepName |-> kind = "merge"]
    BY <1>6 DEF OpsOf
  <2>2. (kind = "merge") \in BOOLEAN
    OBVIOUS
  <2>3. op \in Op(Texts)
    BY <1>1, <2>1, <2>2 DEF Op
  <2> QED BY <1>6, <2>1, <2>3 DEF Fresh
<1>7. CASE kind \notin {"text", "delete", "rename", "unname", "merge", "merge_name"}
  BY <1>7 DEF OpsOf
<1> QED BY <1>2, <1>3, <1>4, <1>5, <1>6, <1>7

\* An op these editors make: a merge that takes a name, or a name taken back, is on the menu.
Allowed(op) ==
  /\ op.op = "speaker.merge" /\ ~op.keepName => "merge_name" \in menu
  /\ op.op = "speaker.rename" /\ op.value \notin Names => "unname" \in menu

\* What the menu offers is allowed.
LEMMA OpsAllowed ==
  ASSUME NEW kind, kind \in menu \/ kind \in {"text", "rename"}, NEW batch,
         NEW op \in OpsOf(kind, batch)
  PROVE  Allowed(op)
<1>1. CASE kind \in {"text", "delete"}
  BY <1>1 DEF OpsOf, Allowed
<1>2. CASE kind = "rename"
  BY <1>2 DEF OpsOf, Allowed
<1>3. CASE kind = "unname"
  BY <1>3 DEF OpsOf, Allowed
<1>4. CASE kind \in {"merge", "merge_name"}
  <2>1. op.op = "speaker.merge" /\ op.keepName = (kind = "merge")
    BY <1>4 DEF OpsOf
  <2> QED BY <1>4, <2>1 DEF Allowed
<1>5. CASE kind \notin {"text", "delete", "rename", "unname", "merge", "merge_name"}
  BY <1>5 DEF OpsOf
<1> QED BY <1>1, <1>2, <1>3, <1>4, <1>5

\* A batch as it is composed.
Composed(ops) ==
  /\ ops \in Ops /\ Len(ops) \in 1..2 /\ Fresh(ops[1])
  /\ Len(ops) = 2 => ops[2].op = "speaker.rename"
  /\ \A i \in 1..Len(ops) : Allowed(ops[i])

\* What the client composes are batches it may send.
LEMMA BatchesTyped ==
  ASSUME Shape, NEW batch \in 1..MaxRequests, NEW ops \in BatchesOf(batch)
  PROVE  Composed(ops)
<1>1. \A kind \in menu : kind \in Kinds
  BY DEF Shape, Types
<1>2. CASE \E op \in UNION {OpsOf(kind, batch) : kind \in menu} : ops = <<op>>
  <2>1. PICK kind \in menu : \E op \in OpsOf(kind, batch) : ops = <<op>>
    BY <1>2
  <2>2. PICK op \in OpsOf(kind, batch) : ops = <<op>>
    BY <2>1
  <2>3. op \in Op(Texts) /\ Fresh(op) /\ Allowed(op)
    BY <1>1, OpsTyped, OpsAllowed
  <2> QED BY <2>2, <2>3 DEF Composed, Ops
<1>3. CASE \E text \in OpsOf("text", batch), rename \in OpsOf("rename", batch) :
              ops = <<text, rename>>
  <2>1. PICK text \in OpsOf("text", batch), rename \in OpsOf("rename", batch) :
          ops = <<text, rename>>
    BY <1>3
  <2>2. text \in Op(Texts) /\ Fresh(text) /\ Allowed(text)
    BY OpsTyped, OpsAllowed DEF Kinds
  <2>3. rename \in Op(Texts) /\ rename.op = "speaker.rename" /\ Allowed(rename)
    BY OpsTyped, OpsAllowed DEF Kinds
  <2> QED BY <2>1, <2>2, <2>3 DEF Composed, Ops
<1> QED BY <1>2, <1>3 DEF BatchesOf

\* What it saw of them.
LEMMA SightTyped ==
  ASSUME Shape, NEW ops \in Ops
  PROVE  [i \in DOMAIN ops |-> live[ops[i].id]] \in Seq(Rows)
<1>1. DOMAIN ops = 1..Len(ops) /\ Len(ops) \in Nat
  BY DEF Ops
<1>2. \A i \in 1..Len(ops) : live[ops[i].id] \in Rows
  <2>1. \A i \in 1..Len(ops) : ops[i].id \in Entities
    BY DEF Ops, Op, Entities
  <2> QED BY <2>1 DEF Shape, Types, Docs, Document, Rows
<1> QED BY <1>1, <1>2

\* Only a request moves.
Aside ==
  /\ used' \in [requests : 0..MaxRequests, faults : Nat] /\ used'.requests = used.requests
  /\ job' = job \/ EnqueueSnapshot
  /\ UNCHANGED <<document, store, worker, late, menu>>

\* It moves to c.
Moves(t, c) ==
  /\ client[t].pc # "idle" /\ client' = [client EXCEPT ![t] = c]
  /\ c \in Request /\ RequestOK(c, current)
  /\ c.pc # "idle" =>
       c.ops = client[t].ops /\ c.version = client[t].version /\ c.sight = client[t].sight
  /\ c.pc \in Open => client[t].pc \in Open
  /\ c.pc = "restores" => Materialize(c.version) = Found(c.target)
  /\ Aside

Answers == {"none", "replayed", "conflict", "named", "invalid", "saved", "unavailable", "error"}

\* An answer only moves the request on.
LEMMA AnswerMoves ==
  ASSUME Shape, NEW t \in Tabs, client[t].pc # "idle", NEW a \in Answers, Answer(t, a), Aside
  PROVE  \E c : Moves(t, c)
<1> DEFINE c == [NoRequest EXCEPT !.answer = a]
<1>1. c \in Request /\ c.pc = "idle"
  BY NoRequestTyped DEF NoRequest, Request, Answers
<1>2. client' = [client EXCEPT ![t] = c]
  BY DEF Answer
<1> HIDE DEF c
<1>3. RequestOK(c, current) /\ c.pc \notin Open
  BY <1>1 DEF RequestOK, Open, EditPcs, RestorePcs
<1>4. Moves(t, c)
  BY <1>1, <1>2, <1>3 DEF Moves
<1> QED BY <1>4

\* From one place of an edit, or of a restore, to another.
LEMMA GotoMoves ==
  ASSUME Shape, NEW t \in Tabs, NEW p, client[t].pc # "idle",
         \/ client[t].pc \in EditPcs /\ p \in EditPcs
         \/ client[t].pc \in RestorePcs /\ p \in RestorePcs \ {"restores"},
         p \in Open => client[t].pc \in Open,
         p = "naming" => \A i \in 1..Len(client[t].ops) : client[t].ops[i].op = "speaker.rename",
         NEW base \in Nat, NEW tries \in Nat,
         client' = [client EXCEPT ![t] = [client[t] EXCEPT !.pc = p, !.base = base, !.tries = tries]],
         Aside
  PROVE  \E c : Moves(t, c)
<1> DEFINE c == [client[t] EXCEPT !.pc = p, !.base = base, !.tries = tries]
<1>0. client[t] \in Request /\ RequestOK(client[t], current)
  BY DEF Shape, Types
<1>1. c \in Request
  BY <1>0 DEF Request
<1>2. c.pc = p /\ c.ops = client[t].ops /\ c.version = client[t].version /\ c.sight = client[t].sight
        /\ c.answer = client[t].answer
  BY <1>0 DEF Request
<1>3. p # "restores"
  BY DEF EditPcs
<1> HIDE DEF c
<1>4. RequestOK(c, current)
  BY <1>0, <1>2, <1>3 DEF RequestOK, EditPcs, RestorePcs
<1>5. client' = [client EXCEPT ![t] = c]
  BY DEF c
<1>6. Moves(t, c)
  BY <1>1, <1>2, <1>3, <1>4, <1>5 DEF Moves
<1> QED BY <1>6

\* Going to the next step only moves the request on.
LEMMA WentMoves ==
  ASSUME Shape, NEW t \in Tabs, NEW p, client[t].pc # "idle",
         \/ client[t].pc \in EditPcs /\ p \in EditPcs
         \/ client[t].pc \in RestorePcs /\ p \in RestorePcs \ {"restores"},
         p \in Open => client[t].pc \in Open,
         p = "naming" => \A i \in 1..Len(client[t].ops) : client[t].ops[i].op = "speaker.rename",
         Goto(t, p), Aside
  PROVE  \E c : Moves(t, c)
<1>0. client \in [Tabs -> Request] /\ client[t] \in Request
  BY DEF Shape, Types
<1>1. [client[t] EXCEPT !.pc = p, !.base = client[t].base, !.tries = client[t].tries]
        = [client[t] EXCEPT !.pc = p]
  BY <1>0 DEF Request
<1>2. client' = [client EXCEPT ![t] = [client[t] EXCEPT !.pc = p, !.base = client[t].base,
                                                         !.tries = client[t].tries]]
  BY <1>0, <1>1 DEF Goto
<1>3. client[t].base \in Nat /\ client[t].tries \in Nat
  BY <1>0 DEF Request
<1> QED BY <1>2, <1>3, GotoMoves

\* A step that writes nothing and uses nothing up leaves those variables aside.
LEMMA Unspent == ASSUME Shape, UNCHANGED <<document, snapshots, menu, used>> PROVE Aside
BY DEF Aside, document, snapshots, runs, Shape, Types

\* Accepting a batch moves the request on.
LEMMA AcceptMoves == ASSUME Shape, NEW t \in Tabs, Accept(t) PROVE \E c : Moves(t, c)
<1>1. Aside /\ client[t].pc = "accepted"
  BY Unspent DEF Accept
<1>2. CASE Answer(t, "replayed")
  BY <1>1, <1>2, AnswerMoves DEF Answers
<1>3. CASE Goto(t, "routed")
  BY <1>1, <1>3, WentMoves DEF EditPcs, Open
<1> QED BY <1>2, <1>3 DEF Accept

\* Finding what kind of batch it is moves the request on.
LEMMA RouteMoves == ASSUME Shape, NEW t \in Tabs, Route(t) PROVE \E c : Moves(t, c)
<1>1. Aside /\ client[t].pc = "routed"
  BY Unspent DEF Route
<1>2. CASE IsIdentificationBatch(live, client[t].ops) /\ Goto(t, "naming")
  <2>1. client[t].ops \in Seq(Op(Texts)) /\ live \in Document(Texts)
    BY DEF Shape, Types, Request, Ops, Docs
  <2>2. \A i \in 1..Len(client[t].ops) : client[t].ops[i].op = "speaker.rename"
    BY <1>2, <2>1, TextsAreNumbers, IdentificationsRename
  <2> QED BY <1>1, <1>2, <2>2, WentMoves DEF EditPcs, Open
<1>3. CASE Goto(t, "saving")
  BY <1>1, <1>3, WentMoves DEF EditPcs, Open
<1> QED BY <1>2, <1>3 DEF Route

\* What a save reads moves its request on.
LEMMA SaveReadsMoves == ASSUME Shape, NEW t \in Tabs, SaveReads(t) PROVE \E c : Moves(t, c)
<1>1. Aside /\ client[t].pc = "saving"
  BY Unspent DEF SaveReads
<1>2. client \in [Tabs -> Request] /\ client[t] \in Request /\ current \in Nat
  BY VersionsExist DEF Shape, Types
<1>3. [client[t] EXCEPT !.pc = "bumping", !.base = current, !.tries = client[t].tries]
        = [client[t] EXCEPT !.pc = "bumping", !.base = current]
  BY <1>2 DEF Request
<1>4. client' = [client EXCEPT ![t] = [client[t] EXCEPT !.pc = "bumping", !.base = current]]
  BY <1>2 DEF SaveReads
<1>5. client' = [client EXCEPT ![t] = [client[t] EXCEPT !.pc = "bumping", !.base = current,
                                                         !.tries = client[t].tries]]
  BY <1>3, <1>4
<1>6. client[t].tries \in Nat
  BY <1>2 DEF Request
<1> QED BY <1>1, <1>2, <1>5, <1>6, GotoMoves DEF EditPcs, Open

\* Losing the race for the version moves the request on.
LEMMA SaveLosesMoves == ASSUME Shape, NEW t \in Tabs, SaveLoses(t) PROVE \E c : Moves(t, c)
<1>1. Aside /\ client[t].pc = "bumping"
  BY Unspent DEF SaveLoses
<1>2. client \in [Tabs -> Request] /\ client[t] \in Request
  BY DEF Shape, Types
<1>3. CASE client' = [client EXCEPT ![t].pc = "raced", ![t].tries = @ + 1]
  <2>1. client' = [client EXCEPT ![t] = [client[t] EXCEPT !.pc = "raced", !.base = client[t].base,
                                                           !.tries = client[t].tries + 1]]
    <3>1. [client[t] EXCEPT !.pc = "raced", !.base = client[t].base, !.tries = client[t].tries + 1]
            = [client[t] EXCEPT !.pc = "raced", !.tries = @ + 1]
      BY <1>2 DEF Request
    <3>2. client' = [client EXCEPT ![t] = [client[t] EXCEPT !.pc = "raced", !.tries = @ + 1]]
      BY <1>2, <1>3
    <3> QED BY <3>1, <3>2
  <2>2. client[t].tries + 1 \in Nat /\ client[t].base \in Nat
    BY <1>2 DEF Request
  <2> QED BY <1>1, <2>1, <2>2, GotoMoves DEF EditPcs, Open
<1>4. CASE Answer(t, "conflict")
  BY <1>1, <1>4, AnswerMoves DEF Answers
<1> QED BY <1>3, <1>4 DEF SaveLoses

\* The rest of a save that commits nothing.
LEMMA SavesNothing ==
  ASSUME Shape, NEW t \in Tabs, SaveInvalid(t) \/ SaveConflicts(t) \/ SaveRetries(t) \/ Conflicted(t)
  PROVE  \E c : Moves(t, c)
<1>0. Aside
  BY Unspent DEF SaveInvalid, SaveConflicts, SaveRetries, Conflicted
<1>1. CASE SaveInvalid(t)
  BY <1>0, <1>1, AnswerMoves DEF SaveInvalid, Answers
<1>2. CASE SaveConflicts(t)
  <2>1. client[t].pc = "bumping" /\ Goto(t, "conflicted")
    BY <1>2 DEF SaveConflicts
  <2> QED BY <1>0, <2>1, WentMoves DEF EditPcs, Open
<1>3. CASE SaveRetries(t)
  <2>1. client[t].pc = "raced" /\ (Answer(t, "replayed") \/ Goto(t, "saving"))
    BY <1>3 DEF SaveRetries
  <2>2. CASE Answer(t, "replayed")
    BY <1>0, <2>1, <2>2, AnswerMoves DEF Answers
  <2>3. CASE Goto(t, "saving")
    BY <1>0, <2>1, <2>3, WentMoves DEF EditPcs, Open
  <2> QED BY <2>1, <2>2, <2>3
<1>4. CASE Conflicted(t)
  <2>1. client[t].pc = "conflicted" /\ (Answer(t, "replayed") \/ Answer(t, "conflict"))
    BY <1>4 DEF Conflicted
  <2> QED BY <1>0, <2>1, AnswerMoves DEF Answers
<1> QED BY <1>1, <1>2, <1>3, <1>4

\* What is left to do after a commit.
LEMMA AfterwardsMoves ==
  ASSUME Shape, NEW t \in Tabs, AfterCommit(t) \/ RestoreQueues(t) \/ QueueThrows(t)
  PROVE  \E c : Moves(t, c)
<1>1. CASE AfterCommit(t)
  <2>1. Aside
    BY <1>1 DEF AfterCommit, Aside, runs, Shape, Types
  <2> QED BY <1>1, <2>1, AnswerMoves DEF AfterCommit, Answers
<1>2. CASE RestoreQueues(t)
  <2>1. Aside
    BY <1>2 DEF RestoreQueues, Aside, runs, Shape, Types
  <2> QED BY <1>2, <2>1, AnswerMoves DEF RestoreQueues, Answers
<1>3. CASE QueueThrows(t)
  <2>1. used' \in [requests : 0..MaxRequests, faults : Nat] /\ used'.requests = used.requests
    BY <1>3 DEF QueueThrows, Spend, Shape, Types
  <2>2. Aside
    BY <1>3, <2>1 DEF QueueThrows, Aside, snapshots, runs, Shape, Types
  <2> QED BY <1>3, <2>2, AnswerMoves DEF QueueThrows, Answers
<1> QED BY <1>1, <1>2, <1>3

\* Every step of a restore but the one that writes moves its request on.
LEMMA RestoreMoves ==
  ASSUME Shape, NEW t \in Tabs,
         RestoreChecks(t) \/ RestoreMaterializes(t) \/ (RestoreCommits(t) /\ current # client[t].base)
  PROVE  \E c : Moves(t, c)
<1>1. CASE RestoreChecks(t)
  <2>1. Aside /\ client[t].pc = "restoring" /\ (Answer(t, "conflict") \/ Goto(t, "materializing"))
    BY <1>1, Unspent DEF RestoreChecks
  <2>2. CASE Answer(t, "conflict")
    BY <2>1, <2>2, AnswerMoves DEF Answers
  <2>3. CASE Goto(t, "materializing")
    BY <2>1, <2>3, WentMoves DEF EditPcs, RestorePcs, Open
  <2> QED BY <2>1, <2>2, <2>3
<1>2. CASE RestoreMaterializes(t)
  <2> DEFINE target == Materialize(client[t].version)
  <2>1. Aside /\ client[t].pc = "materializing"
    BY <1>2, Unspent DEF RestoreMaterializes
  <2>2. client \in [Tabs -> Request] /\ client[t] \in Request /\ RequestOK(client[t], current)
    BY DEF Shape, Types
  <2>3. target \in Outcome
    BY <2>1, <2>2, MaterializeTyped DEF RequestOK
  <2>4. \/ target.how = "found"
           /\ client' = [client EXCEPT ![t].pc = "restores", ![t].target = target.doc]
        \/ Answer(t, "unavailable")
    BY <1>2 DEF RestoreMaterializes
  <2> HIDE DEF target
  <2>5. CASE Answer(t, "unavailable")
    BY <2>1, <2>5, AnswerMoves DEF Answers
  <2>6. CASE /\ target.how = "found"
             /\ client' = [client EXCEPT ![t].pc = "restores", ![t].target = target.doc]
    <3> DEFINE c == [client[t] EXCEPT !.pc = "restores", !.target = target.doc]
    <3>1. target.doc \in Docs /\ target = Found(target.doc)
      BY <2>3, <2>6 DEF Outcome, Found
    <3>2. c \in Request
      BY <2>2, <3>1 DEF Request, RestorePcs
    <3>3. /\ c.pc = "restores" /\ c.ops = client[t].ops /\ c.version = client[t].version
          /\ c.sight = client[t].sight /\ c.answer = client[t].answer /\ c.target = target.doc
      BY <2>2 DEF Request
    <3>4. client' = [client EXCEPT ![t] = c]
      BY <2>2, <2>6
    <3> HIDE DEF c
    <3>5. RequestOK(c, current)
      BY <2>1, <2>2, <3>1, <3>3, GoneIsNoDocument DEF RequestOK, EditPcs, RestorePcs
    <3>6. Materialize(c.version) = Found(c.target)
      BY <3>1, <3>3 DEF target
    <3>7. client[t].pc \in Open
      BY <2>1 DEF Open, RestorePcs
    <3>8. Moves(t, c)
      BY <2>1, <3>2, <3>3, <3>4, <3>5, <3>6, <3>7 DEF Moves
    <3> QED BY <3>8
  <2> QED BY <2>4, <2>5, <2>6
<1>3. CASE RestoreCommits(t) /\ current # client[t].base
  <2>1. Aside /\ client[t].pc = "restores" /\ Answer(t, "conflict")
    <3>1. UNCHANGED <<document, snapshots, menu, used>>
      BY <1>3 DEF RestoreCommits
    <3> QED BY <1>3, <3>1, Unspent DEF RestoreCommits
  <2> QED BY <2>1, AnswerMoves DEF Answers
<1> QED BY <1>1, <1>2, <1>3

-------------------------------------------------------------------------------
(* Naming beside the log.                                                  *)

\* Some of the speakers nobody has identified have a name, and it is the one kept beside the log.
Identified(doc, ids, then, now) ==
  \A s \in Speakers :
    \/ then[s] = doc[s] /\ now[s] = ids[s]
    \/ /\ IsUnidentified(doc, s) /\ then[s] # Gone
       /\ now[s] \in Names /\ then[s].name = now[s]

\* Names are written, and nothing else of the document changes.
GivesNames(t) ==
  /\ client[t].pc = "naming" /\ client[t].pc # "idle"
  /\ live' \in Docs /\ Alike(live', live)
  /\ identities' \in Given
  /\ Identified(live, identities, live', identities')
  /\ Answer(t, "named")
  /\ UNCHANGED <<log, snapshots, menu, used>>

\* Naming a speaker moves the request on, or gives the names.
LEMMA IdentifyIs ==
  ASSUME Shape, NEW t \in Tabs, Identify(t)
  PROVE  (\E c : Moves(t, c)) \/ GivesNames(t)
<1> DEFINE ops == client[t].ops
           n == Len(ops)
           Name(acc, op) ==
             LET kind == ClassifyRename(acc.doc, op)
             IN  IF kind = "noop" THEN acc
                 ELSE IF kind # "identification" \/ acc.doc[op.id].rev # op.rev
                 THEN [acc EXCEPT !.conflict = TRUE]
                 ELSE [acc EXCEPT !.doc[op.id] = Named(@, op.value), !.identities[op.id] = op.value]
           start == [doc |-> live, identities |-> identities, conflict |-> FALSE]
           P == {acc \in [doc : Docs, identities : Given, conflict : BOOLEAN] :
                   /\ Alike(acc.doc, live)
                   /\ Identified(live, identities, acc.doc, acc.identities)}
           F == [i \in 1..n |-> [acc \in P |-> Name(acc, ops[i])]]
           Walked(f) == f = [i \in 0..n |-> IF i = 0 THEN start ELSE Name(f[i - 1], ops[i])]
           after == CHOOSE f : Walked(f)
<1>0. /\ n \in Nat /\ client[t].pc = "naming"
      /\ \A i \in 1..n : ops[i] \in Op(Texts) /\ ops[i].op = "speaker.rename"
  <2>1. client[t].pc = "naming" /\ client[t] \in Request /\ RequestOK(client[t], current)
    BY DEF Identify, Shape, Types
  <2> QED BY <2>1 DEF RequestOK, Request, Ops
<1>1. start \in P
  <2>1. Identified(live, identities, live, identities)
    BY DEF Identified
  <2> QED BY <2>1, AlikeItself DEF Shape, Types
<1>2. ASSUME NEW acc \in P, NEW op \in Op(Texts), op.op = "speaker.rename"
      PROVE  Name(acc, op) \in P
  <2> DEFINE kind == ClassifyRename(acc.doc, op)
  <2>1. CASE kind = "noop"
    BY <2>1
  <2>2. CASE kind # "noop" /\ (kind # "identification" \/ acc.doc[op.id].rev # op.rev)
    BY <2>2
  <2>3. CASE kind = "identification" /\ acc.doc[op.id].rev = op.rev
    <3> DEFINE row == [acc.doc[op.id] EXCEPT !.name = op.value]
    <3>1. /\ op.id \in Speakers /\ op.id \in Entities /\ op.id \notin Segments
          /\ op.value \in Names \cup {op.id}
      BY <1>2, OpsAssumption DEF Op, Entities
    <3>2. acc.doc[op.id] # Gone /\ acc.doc[op.id].name = op.id /\ op.value # op.id
      BY <2>3 DEF ClassifyRename, IsUnidentified
    <3>3. acc.doc \in Document(Texts)
      BY DEF Docs
    <3>4. acc.doc[op.id] \in VoiceRow
      BY <3>1, <3>2, <3>3, TextsAreNumbers, RowsAreRows
    <3>5. row \in VoiceRow /\ row.rev = acc.doc[op.id].rev
      BY <3>1, <3>4, RenamedRow
    <3>6. row # Gone
      BY <3>5, OpsAssumption
    <3> HIDE DEF row
    <3>7. [acc.doc EXCEPT ![op.id] = row] \in Docs
      BY <3>1, <3>3, <3>5, DocumentExcept DEF Docs
    <3>8. Alike([acc.doc EXCEPT ![op.id] = row], live)
      <4> DEFINE new == [acc.doc EXCEPT ![op.id] = row]
      <4>1. \A e \in Entities : new[e] = IF e = op.id THEN row ELSE acc.doc[e]
        BY <3>1, <3>3 DEF Document
      <4> HIDE DEF new
      <4>2. Alike(new, acc.doc)
        BY <3>1, <3>2, <3>5, <3>6, <4>1 DEF Alike, Entities
      <4>3. Alike(new, live)
        BY <4>2, AlikeOnward
      <4> QED BY <4>3 DEF new
    <3>9. [acc.identities EXCEPT ![op.id] = op.value] \in Given
      BY <3>1, <3>2 DEF Given
    <3>10. Identified(live, identities, [acc.doc EXCEPT ![op.id] = row],
                      [acc.identities EXCEPT ![op.id] = op.value])
      <4> DEFINE new == [acc.doc EXCEPT ![op.id] = row]
                 ids == [acc.identities EXCEPT ![op.id] = op.value]
      <4>1. \A e \in Entities : new[e] = IF e = op.id THEN row ELSE acc.doc[e]
        BY <3>1, <3>3 DEF Document
      <4>2. \A s \in Speakers : ids[s] = IF s = op.id THEN op.value ELSE acc.identities[s]
        BY <3>1 DEF Given
      <4>3. row.name = op.value
        BY <3>4 DEF row, VoiceRow
      <4>4. Identified(live, identities, acc.doc, acc.identities)
        OBVIOUS
      <4>5. IsUnidentified(live, op.id)
        BY <3>1, <3>2, <4>4, OpsAssumption DEF Identified, IsUnidentified
      <4> HIDE DEF new, ids
      <4>6. ASSUME NEW s \in Speakers
            PROVE  \/ new[s] = live[s] /\ ids[s] = identities[s]
                   \/ /\ IsUnidentified(live, s) /\ new[s] # Gone
                      /\ ids[s] \in Names /\ new[s].name = ids[s]
        <5>1. CASE s = op.id
          BY <3>1, <3>2, <3>6, <4>1, <4>2, <4>3, <4>5, <5>1 DEF Entities
        <5>2. CASE s # op.id
          BY <4>1, <4>2, <4>4, <5>2 DEF Entities, Identified
        <5> QED BY <5>1, <5>2
      <4>7. Identified(live, identities, new, ids)
        BY <4>6 DEF Identified
      <4> QED BY <4>7 DEF new, ids
    <3>11. Name(acc, op) = [acc EXCEPT !.doc = [acc.doc EXCEPT ![op.id] = row],
                              !.identities = [acc.identities EXCEPT ![op.id] = op.value]]
      BY <2>3 DEF Named, row
    <3> HIDE DEF Name
    <3> QED BY <3>7, <3>8, <3>9, <3>10, <3>11
  <2> QED BY <2>1, <2>2, <2>3
<1>3. F \in [1..n -> [P -> P]]
  <2> HIDE DEF Name, P, ops
  <2> QED BY <1>0, <1>2
<1>4. PICK g : Iteration(P, n, F, start, g)
  <2> HIDE DEF F, P, n, start
  <2> QED BY <1>0, <1>1, <1>3, Iterates, Zenon
<1>5. \A i \in 1..n : g[i] = Name(g[i - 1], ops[i])
  <2>1. \A i \in 1..n, acc \in P : F[i][acc] = Name(acc, ops[i])
    <3> HIDE DEF Name, P, n, ops
    <3> QED OBVIOUS
  <2> HIDE DEF F, P, Name, n, ops, start
  <2> QED BY <1>0, <1>4, <2>1 DEF Iteration
<1>6. Walked(g)
  <2> HIDE DEF F, P, Name, start, n, ops
  <2> QED BY <1>0, <1>4, <1>5 DEF Iteration
<1>7. Walked(after)
  <2> HIDE DEF Walked
  <2> QED BY <1>6
<1>8. \A i \in 0..n : after[i] \in P
  <2>1. after[0] = start /\ \A i \in 1..n : after[i] = Name(after[i - 1], ops[i])
    <3> HIDE DEF after, Name, start, n, ops
    <3> QED BY <1>0, <1>7
  <2> DEFINE S == {i \in 0..n : after[i] \in P}
  <2> HIDE DEF after, Name, start, P, n, ops
  <2>2. 0 \in S /\ \A i \in 0..n : i \in S /\ i < n => i + 1 \in S
    <3>1. 0 \in S
      BY <1>0, <1>1, <2>1
    <3>2. ASSUME NEW i \in 0..n, i \in S, i < n PROVE i + 1 \in S
      <4>1. i + 1 \in 1..n /\ i + 1 \in 0..n /\ (i + 1) - 1 = i
        BY <1>0, <3>2
      <4>2. after[i + 1] = Name(after[i], ops[i + 1])
        BY <2>1, <4>1
      <4> QED BY <1>0, <1>2, <3>2, <4>1, <4>2
    <3> QED BY <3>1, <3>2
  <2> HIDE DEF S
  <2>3. \A i \in 0..n : i \in S
    BY <1>0, <2>2, UpTo, Zenon
  <2> QED BY <2>3 DEF S
<1>9. LET named == after[n]
      IN  /\ IF named.conflict
             THEN Answer(t, "conflict") /\ UNCHANGED document
             ELSE /\ live' = named.doc
                  /\ identities' = named.identities
                  /\ Answer(t, "named")
                  /\ UNCHANGED log
          /\ UNCHANGED <<snapshots, menu, used>>
  BY DEF Identify, Walk
<1> HIDE DEF after, Name, start, F, n, ops
<1>10. after[n] \in P
  BY <1>0, <1>8
<1>11. CASE after[n].conflict
  <2>1. Aside
    BY <1>9, <1>11, Unspent
  <2> QED BY <1>0, <1>9, <1>11, <2>1, AnswerMoves DEF Answers
<1>12. CASE ~after[n].conflict
  BY <1>0, <1>9, <1>10, <1>12 DEF GivesNames
<1> QED BY <1>11, <1>12

-------------------------------------------------------------------------------
(* A version appended.                                                     *)

\* An entry goes to the end of the log, with the document it leaves; the request goes on to c.
Appends(t, entry, c) ==
  /\ client[t].pc \in Open
  /\ live' \in Docs /\ entry.said = Lines(live')
  /\ entry \in VersionRow /\ entry.from \in 0..current /\ ~entry.snapshot
  /\ log' = Append(log, entry)
  /\ identities' \in Given
  /\ c \in Request /\ c.pc \in {"saved", "restored"} /\ client' = [client EXCEPT ![t] = c]
  /\ RequestOK(c, current)
  /\ c.ops = client[t].ops /\ c.version = client[t].version /\ c.sight = client[t].sight
  /\ UNCHANGED <<snapshots, menu, used>>

\* A request that has written its version keeps what it asked for.
LEMMA GoneOn ==
  ASSUME Shape, NEW t \in Tabs, NEW p \in {"saved", "restored"}, Goto(t, p),
         \/ client[t].pc \in EditPcs /\ p \in EditPcs
         \/ client[t].pc \in RestorePcs /\ p \in RestorePcs
  PROVE  \E c \in Request :
           /\ c.pc = p /\ client' = [client EXCEPT ![t] = c] /\ RequestOK(c, current)
           /\ c.ops = client[t].ops /\ c.version = client[t].version /\ c.sight = client[t].sight
<1> DEFINE c == [client[t] EXCEPT !.pc = p]
<1>1. client \in [Tabs -> Request] /\ client[t] \in Request /\ RequestOK(client[t], current)
  BY DEF Shape, Types
<1>2. c \in Request /\ client' = [client EXCEPT ![t] = c]
  BY <1>1 DEF Goto, Request
<1>3. /\ c.pc = p /\ c.ops = client[t].ops /\ c.version = client[t].version
      /\ c.sight = client[t].sight /\ c.answer = client[t].answer
  BY <1>1 DEF Request
<1> HIDE DEF c
<1>4. RequestOK(c, current)
  BY <1>1, <1>3 DEF RequestOK, EditPcs, RestorePcs
<1> QED BY <1>2, <1>3, <1>4

\* The entry of a save.
Edited(t) == Entry("edit", client[t].ops, client[t].batch, 0, live')

\* A save that commits appends the version it composed.
LEMMA SaveCommitsAppends ==
  ASSUME Shape, NEW t \in Tabs, SaveCommits(t)
  PROVE  \E c : Appends(t, Edited(t), c)
<1>0. /\ client[t] \in Request /\ live \in Docs /\ identities \in Given /\ current \in Nat
      /\ client[t].pc = "bumping"
  BY VersionsExist DEF Shape, Types, SaveCommits
<1>1. live' = ApplyOps(live, client[t].ops).doc /\ live' \in Docs
  <2>1. ApplyOps(live, client[t].ops) \in Progress(Texts)
    BY <1>0, TextsAreNumbers, ApplyOpsTyped DEF Request, Ops, Docs
  <2>2. live' = ApplyOps(live, client[t].ops).doc
    BY DEF SaveCommits
  <2> QED BY <2>1, <2>2 DEF Progress, Docs
<1>2. log' = Append(log, Edited(t))
  BY <1>1 DEF SaveCommits, Edited
<1>3. Edited(t) \in VersionRow
  BY <1>0, <1>1, EntryTyped DEF Edited, Request
<1>4. Edited(t).said = Lines(live') /\ Edited(t).from = 0 /\ ~Edited(t).snapshot
  BY DEF Edited, Entry
<1>5. identities' \in Given
  <2>1. identities' = RetireIdentities(live')
    BY <1>1 DEF SaveCommits
  <2> QED BY <1>0, <2>1 DEF RetireIdentities, Given
<1>6. PICK c \in Request :
        /\ c.pc = "saved" /\ client' = [client EXCEPT ![t] = c] /\ RequestOK(c, current)
        /\ c.ops = client[t].ops /\ c.version = client[t].version /\ c.sight = client[t].sight
  BY <1>0, GoneOn DEF SaveCommits, EditPcs
<1>7. Appends(t, Edited(t), c)
  BY <1>0, <1>1, <1>2, <1>3, <1>4, <1>5, <1>6 DEF Appends, SaveCommits, Open, EditPcs
<1> QED BY <1>7

\* The entry of a restore.
Returned(t) == Entry("restore", <<>>, 0, client[t].version, live')

\* A restore that commits appends the version it goes back to.
LEMMA RestoreCommitsAppends ==
  ASSUME Shape, NEW t \in Tabs, RestoreCommits(t), current = client[t].base
  PROVE  /\ \E c : Appends(t, Returned(t), c)
         /\ Alike(live', client[t].target)
<1>0. /\ client[t] \in Request /\ identities \in Given /\ current \in Nat
      /\ client[t].pc = "restores" /\ RequestOK(client[t], current)
  BY VersionsExist DEF Shape, Types, RestoreCommits
<1>1. client[t].target \in Docs /\ client[t].version \in 1..current
  BY <1>0 DEF RequestOK, Request, RestorePcs
<1>2. live' \in Docs /\ Alike(live', client[t].target)
  <2>1. live' = ApplyIdentities(client[t].target, identities)
    BY DEF RestoreCommits, Restored
  <2> QED BY <2>1, <1>0, <1>1, TextsAreNumbers, NamesPut DEF Docs
<1>3. log' = Append(log, Returned(t))
  BY DEF RestoreCommits, Returned
<1>4. Returned(t) \in VersionRow
  BY <1>0, <1>1, <1>2, NoBatch, EntryTyped, EditingBounds DEF Returned
<1>5. Returned(t).said = Lines(live') /\ Returned(t).from = client[t].version /\ ~Returned(t).snapshot
  BY DEF Returned, Entry
<1>6. PICK c \in Request :
        /\ c.pc = "restored" /\ client' = [client EXCEPT ![t] = c] /\ RequestOK(c, current)
        /\ c.ops = client[t].ops /\ c.version = client[t].version /\ c.sight = client[t].sight
  BY <1>0, GoneOn DEF RestoreCommits, RestorePcs
<1>7. Appends(t, Returned(t), c)
  BY <1>0, <1>1, <1>2, <1>3, <1>4, <1>5, <1>6 DEF Appends, RestoreCommits, Open, RestorePcs
<1> QED BY <1>2, <1>7

-------------------------------------------------------------------------------
(* The steps.                                                              *)

\* A request is made: a batch of what is there, one sent before, or an older version asked for.
Asks(t, c) ==
  /\ client[t].pc = "idle" /\ client' = [client EXCEPT ![t] = c]
  /\ used.requests < MaxRequests /\ used' = [used EXCEPT !.requests = @ + 1]
  /\ c \in Request /\ c.pc \in {"accepted", "restoring"} /\ RequestOK(c, current)
  /\ \/ /\ Composed(c.ops) /\ c.version = current
        /\ c.sight = [i \in DOMAIN c.ops |-> live[c.ops[i].id]]
     \/ \E sent \in Tabs : /\ client[sent].pc # "idle" /\ c.ops = client[sent].ops
                           /\ c.version = client[sent].version /\ c.sight = client[sent].sight
     \/ c.ops = <<>>
  /\ c.pc = "restoring" => "restore" \in menu
  /\ UNCHANGED <<document, snapshots, menu>>

\* A tab composes, sends again or asks for a restore: all are new requests.
LEMMA RequestsAsk ==
  ASSUME Shape, NEW t \in Tabs, Compose(t) \/ Resend(t) \/ ComposeRestore(t)
  PROVE  \E c : Asks(t, c)
<1>0. /\ client \in [Tabs -> Request] /\ used \in [requests : 0..MaxRequests, faults : Nat]
      /\ current \in Nat \ {0}
  BY VersionsExist DEF Shape, Types
<1>1. used.requests < MaxRequests /\ used' = [used EXCEPT !.requests = @ + 1]
  BY <1>0 DEF Compose, Resend, ComposeRestore, Spend
<1>2. used.requests + 1 \in 1..MaxRequests
  BY <1>0, <1>1, EditingBounds
<1>3. CASE Compose(t)
  <2>1. PICK ops \in BatchesOf(used.requests + 1) :
          client' = [client EXCEPT ![t] = [NoRequest EXCEPT
                       !.pc = "accepted", !.batch = used.requests + 1, !.ops = ops,
                       !.sight = [i \in DOMAIN ops |-> live[ops[i].id]], !.version = current]]
    BY <1>3 DEF Compose
  <2> DEFINE sight == [i \in DOMAIN ops |-> live[ops[i].id]]
             c == [NoRequest EXCEPT !.pc = "accepted", !.batch = used.requests + 1, !.ops = ops,
                                    !.sight = sight, !.version = current]
  <2>2. Composed(ops)
    BY <1>2, BatchesTyped
  <2>3. sight \in Seq(Rows) /\ ops \in Ops /\ ops # <<>>
    BY <2>2, SightTyped DEF Composed
  <2>4. client' = [client EXCEPT ![t] = c]
    BY <2>1
  <2> HIDE DEF sight
  <2>5. c \in Request
    <3>1. /\ "accepted" \in {"idle"} \cup EditPcs \cup RestorePcs /\ current \in Nat
          /\ used.requests + 1 \in 0..MaxRequests
      BY <1>0, <1>2 DEF EditPcs
    <3> QED BY <2>3, <3>1, NoRequestTyped DEF Request
  <2>6. /\ c.pc = "accepted" /\ c.ops = ops /\ c.version = current /\ c.sight = sight
        /\ c.answer = "none"
    BY NoRequestTyped DEF Request
  <2> HIDE DEF c
  <2>7. RequestOK(c, current)
    BY <1>0, <2>3, <2>6 DEF RequestOK, EditPcs, RestorePcs
  <2>8. Asks(t, c)
    BY <1>1, <1>3, <2>2, <2>4, <2>5, <2>6, <2>7 DEF Asks, Compose, sight
  <2> QED BY <2>8
<1>4. CASE Resend(t)
  <2>1. PICK sent \in Tabs :
          /\ client[sent].pc # "idle" /\ client[sent].ops # <<>>
          /\ client' = [client EXCEPT ![t] = [client[sent] EXCEPT !.pc = "accepted",
                                              !.base = 0, !.tries = 0]]
    BY <1>4 DEF Resend
  <2> DEFINE c == [client[sent] EXCEPT !.pc = "accepted", !.base = 0, !.tries = 0]
  <2>2. client[sent] \in Request /\ RequestOK(client[sent], current)
    BY DEF Shape, Types
  <2>3. /\ c \in Request /\ c.pc = "accepted" /\ c.ops = client[sent].ops
        /\ c.version = client[sent].version /\ c.sight = client[sent].sight
        /\ c.answer = client[sent].answer
    BY <2>2 DEF Request, EditPcs
  <2>4. client' = [client EXCEPT ![t] = c]
    BY <2>1
  <2> HIDE DEF c
  <2>5. RequestOK(c, current)
    BY <2>1, <2>2, <2>3 DEF RequestOK, EditPcs, RestorePcs
  <2>6. Asks(t, c)
    BY <1>1, <1>4, <2>1, <2>3, <2>4, <2>5 DEF Asks, Resend
  <2> QED BY <2>6
<1>5. CASE ComposeRestore(t)
  <2>1. PICK v \in 1..current :
          client' = [client EXCEPT ![t] = [NoRequest EXCEPT
                       !.pc = "restoring", !.version = v, !.base = current]]
    BY <1>5 DEF ComposeRestore
  <2> DEFINE c == [NoRequest EXCEPT !.pc = "restoring", !.version = v, !.base = current]
  <2>2. c \in Request
    <3>1. "restoring" \in {"idle"} \cup EditPcs \cup RestorePcs /\ v \in Nat /\ current \in Nat
      BY <1>0 DEF RestorePcs
    <3> QED BY <3>1, NoRequestTyped DEF Request
  <2>3. c.pc = "restoring" /\ c.ops = <<>> /\ c.version = v /\ c.answer = "none"
    BY NoRequestTyped DEF Request
  <2>4. client' = [client EXCEPT ![t] = c]
    BY <2>1
  <2> HIDE DEF c
  <2>5. RequestOK(c, current)
    BY <2>3 DEF RequestOK, EditPcs, RestorePcs
  <2>6. Asks(t, c)
    BY <1>1, <1>5, <2>2, <2>3, <2>4, <2>5 DEF Asks, ComposeRestore
  <2> QED BY <2>6
<1> QED BY <1>3, <1>4, <1>5

Saves(t)   == SaveCommits(t) /\ \E c : Appends(t, Edited(t), c)
Returns(t) == /\ RestoreCommits(t) /\ current = client[t].base /\ Alike(live', client[t].target)
              /\ \E c : Appends(t, Returned(t), c)

\* Every step is one of these.
LEMMA StepIs ==
  ASSUME Shape, [Next]_vars
  PROVE  \/ \E t \in Tabs : \/ \E c : Asks(t, c)
                            \/ \E c : Moves(t, c)
                            \/ GivesNames(t) \/ Saves(t) \/ Returns(t)
         \/ \E w \in Workers : Snapshot(w)
         \/ UNCHANGED vars
<1>1. ASSUME NEW t \in Tabs, Compose(t) \/ Resend(t) \/ ComposeRestore(t)
      PROVE  \E c : Asks(t, c)
  BY <1>1, RequestsAsk
<1>2. ASSUME NEW t \in Tabs, Edit(t)
      PROVE  (\E c : Moves(t, c)) \/ GivesNames(t) \/ Saves(t)
  <2>1. CASE Accept(t) \/ Route(t) \/ SaveReads(t) \/ SaveLoses(t)
    BY <2>1, AcceptMoves, RouteMoves, SaveReadsMoves, SaveLosesMoves
  <2>2. CASE SaveInvalid(t) \/ SaveConflicts(t) \/ SaveRetries(t) \/ Conflicted(t)
    BY <2>2, SavesNothing
  <2>3. CASE Identify(t)
    BY <2>3, IdentifyIs
  <2>4. CASE SaveCommits(t)
    BY <2>4, SaveCommitsAppends DEF Saves
  <2>5. CASE AfterCommit(t)
    BY <2>5, AfterwardsMoves
  <2> QED BY <1>2, <2>1, <2>2, <2>3, <2>4, <2>5 DEF Edit
<1>3. ASSUME NEW t \in Tabs, Restore(t)
      PROVE  (\E c : Moves(t, c)) \/ Returns(t)
  <2>1. CASE RestoreCommits(t) /\ current = client[t].base
    BY <2>1, RestoreCommitsAppends DEF Returns
  <2>2. CASE RestoreChecks(t) \/ RestoreMaterializes(t) \/ (RestoreCommits(t) /\ current # client[t].base)
    BY <2>2, RestoreMoves
  <2>3. CASE RestoreQueues(t)
    BY <2>3, AfterwardsMoves
  <2> QED BY <1>3, <2>1, <2>2, <2>3 DEF Restore
<1>4. ASSUME NEW t \in Tabs, QueueThrows(t) PROVE \E c : Moves(t, c)
  BY <1>4, AfterwardsMoves
<1> QED BY <1>1, <1>2, <1>3, <1>4 DEF Next

-------------------------------------------------------------------------------
(* The shape is kept.                                                      *)

\* A request that was well-formed stays so when versions are added.
LEMMA RequestOnward ==
  ASSUME NEW c, NEW m \in Nat, NEW n \in Nat, m <= n, RequestOK(c, m)
  PROVE  RequestOK(c, n)
BY DEF RequestOK

\* A run that was well-formed stays so when versions are added.
LEMMA RunOnward ==
  ASSUME NEW r, NEW m \in Nat, NEW n \in Nat, m <= n, RunOK(r, m)
  PROVE  RunOK(r, n)
BY DEF RunOK

\* What is done to a row of the queue leaves rows.
LEMMA RowsTyped ==
  ASSUME job \in [Slots -> JobRow],
         EnqueueSnapshot \/ \E s \in Slots : ClaimJob(s) \/ Complete(s) \/ Fail(s)
  PROVE  job' \in [Slots -> JobRow]
<1>1. ASSUME NEW s \in Slots, NEW row \in JobRow, job' = [job EXCEPT ![s] = row]
      PROVE  job' \in [Slots -> JobRow]
  BY <1>1
<1>2. NoJob \in JobRow /\ [NoJob EXCEPT !.state = "pending"] \in JobRow
  BY DEF NoJob, JobRow
<1>3. CASE EnqueueSnapshot
  BY <1>1, <1>2, <1>3 DEF EnqueueSnapshot, Enqueue
<1>4. ASSUME NEW s \in Slots, ClaimJob(s) PROVE job' \in [Slots -> JobRow]
  <2>1. [job[s] EXCEPT !.state = "running", !.attempts = @ + 1] \in JobRow
    <3>1. PICK row \in JobRow : row = job[s]
      OBVIOUS
    <3>2. row.attempts + 1 \in Nat
      BY DEF JobRow
    <3>3. [row EXCEPT !.state = "running", !.attempts = @ + 1] \in JobRow
      BY <3>2 DEF JobRow
    <3> QED BY <3>1, <3>3
  <2>2. job' = [job EXCEPT ![s] = [job[s] EXCEPT !.state = "running", !.attempts = @ + 1]]
    BY <1>4 DEF ClaimJob, JobRow
  <2> QED BY <1>1, <2>1, <2>2
<1>5. ASSUME NEW s \in Slots, Complete(s) PROVE job' \in [Slots -> JobRow]
  BY <1>1, <1>2, <1>5 DEF Complete
<1>6. ASSUME NEW s \in Slots, Fail(s) PROVE job' \in [Slots -> JobRow]
  <2>1. [job[s] EXCEPT !.state = "pending"] \in JobRow
    BY DEF JobRow
  <2> QED BY <1>1, <1>2, <1>6, <2>1 DEF Fail
<1> QED BY <1>3, <1>4, <1>5, <1>6

\* Of the requests, only one has changed.
LEMMA Others ==
  ASSUME Shape, NEW t \in Tabs, NEW c, client' = [client EXCEPT ![t] = c]
  PROVE  client'[t] = c /\ \A u \in Tabs \ {t} : client'[u] = client[u]
BY DEF Shape, Types

\* Replacing one request by a well-formed one keeps all of them so.
LEMMA ClientsTyped ==
  ASSUME Shape, NEW t \in Tabs, NEW c \in Request, client' = [client EXCEPT ![t] = c],
         NEW n \in Nat, current <= n, RequestOK(c, n)
  PROVE  client' \in [Tabs -> Request] /\ \A u \in Tabs : RequestOK(client'[u], n)
<1>1. client' \in [Tabs -> Request]
  BY DEF Shape, Types
<1>2. ASSUME NEW u \in Tabs PROVE RequestOK(client'[u], n)
  <2>1. CASE u = t
    BY <2>1, Others
  <2>2. CASE u # t
    <3>1. client'[u] = client[u] /\ RequestOK(client[u], current)
      BY <2>2, Others DEF Shape
    <3> QED BY <3>1, VersionsExist, RequestOnward
  <2> QED BY <2>1, <2>2
<1> QED BY <1>1, <1>2

\* A request that does not open anew leaves no more of them open.
LEMMA NoMoreBusy ==
  ASSUME Shape, NEW t \in Tabs, NEW c, client' = [client EXCEPT ![t] = c],
         c.pc \in Open => client[t].pc \in Open
  PROVE  IsFiniteSet(Busy') /\ Cardinality(Busy') \in Nat /\ Cardinality(Busy') <= Cardinality(Busy)
<1>1. Busy' \in SUBSET Busy
  BY Others DEF Busy
<1> QED BY <1>1, FS_Subset, FS_CardinalityType DEF Shape, Budget

\* A new request keeps the shape.
LEMMA AsksShape == ASSUME Shape, NEW t \in Tabs, NEW c, Asks(t, c) PROVE Shape'
<1>1. c \in Request /\ client' = [client EXCEPT ![t] = c] /\ RequestOK(c, current) /\ current \in Nat
  BY VersionsExist DEF Asks
<1>2. client' \in [Tabs -> Request] /\ \A u \in Tabs : RequestOK(client'[u], current)
  <2>1. current <= current
    BY <1>1
  <2> QED BY <1>1, <2>1, ClientsTyped
<1>3. used' \in [requests : 0..MaxRequests, faults : Nat] /\ used'.requests = used.requests + 1
        /\ used.requests \in Nat
  BY EditingBounds DEF Asks, Shape, Types
<1>4. UNCHANGED <<live, log, identities, store, job, worker, late, menu>>
  BY DEF Asks, document, snapshots, runs
<1>5. Budget'
  <2>1. IsFiniteSet(Busy \cup {t}) /\ Cardinality(Busy \cup {t}) <= Cardinality(Busy) + 1
          /\ Cardinality(Busy) \in Nat
    <3>1. IsFiniteSet(Busy) /\ Cardinality(Busy) \in Nat
      BY FS_CardinalityType DEF Shape, Budget
    <3> QED BY <3>1, FS_AddElement
  <2>2. Busy' \in SUBSET (Busy \cup {t})
    BY <1>1, Others DEF Busy
  <2>3. /\ IsFiniteSet(Busy') /\ Cardinality(Busy') <= Cardinality(Busy \cup {t})
        /\ Cardinality(Busy') \in Nat /\ Cardinality(Busy \cup {t}) \in Nat
    BY <2>1, <2>2, FS_Subset, FS_CardinalityType
  <2>4. current' = current
    BY <1>4 DEF current
  <2> QED BY <1>1, <1>3, <2>1, <2>3, <2>4 DEF Shape, Budget
<1>6. current' = current
  BY <1>4 DEF current
<1> QED BY <1>2, <1>3, <1>4, <1>5, <1>6 DEF Shape, Types, LogOK

\* A request moving on keeps the shape.
LEMMA MovesShape == ASSUME Shape, NEW t \in Tabs, NEW c, Moves(t, c) PROVE Shape'
<1>1. c \in Request /\ client' = [client EXCEPT ![t] = c] /\ RequestOK(c, current) /\ current \in Nat
  BY VersionsExist DEF Moves
<1>2. client' \in [Tabs -> Request] /\ \A u \in Tabs : RequestOK(client'[u], current)
  <2>1. current <= current
    BY <1>1
  <2> QED BY <1>1, <2>1, ClientsTyped
<1>3. used' \in [requests : 0..MaxRequests, faults : Nat] /\ used'.requests = used.requests
        /\ job' \in [Slots -> JobRow] /\ used.requests \in Nat
  BY RowsTyped DEF Moves, Aside, Shape, Types
<1>4. UNCHANGED <<live, log, identities, store, worker, late, menu>>
  BY DEF Moves, Aside, document
<1>5. current' = current
  BY <1>4 DEF current
<1>6. Budget'
  <2>1. /\ IsFiniteSet(Busy') /\ Cardinality(Busy') \in Nat
        /\ Cardinality(Busy') <= Cardinality(Busy) /\ Cardinality(Busy) \in Nat
    BY <1>1, NoMoreBusy, FS_CardinalityType DEF Moves, Shape, Budget
  <2> QED BY <1>1, <1>3, <1>5, <2>1 DEF Shape, Budget
<1> QED BY <1>2, <1>3, <1>4, <1>5, <1>6 DEF Shape, Types, LogOK

\* Giving the names keeps the shape.
LEMMA GivesNamesShape == ASSUME Shape, NEW t \in Tabs, GivesNames(t) PROVE Shape'
<1> DEFINE c == [NoRequest EXCEPT !.answer = "named"]
<1>1. client' = [client EXCEPT ![t] = c] /\ current \in Nat
  BY VersionsExist DEF GivesNames, Answer
<1>2. c \in Request /\ c.pc = "idle"
  BY NoRequestTyped DEF Request
<1> HIDE DEF c
<1>3. RequestOK(c, current) /\ c.pc \notin Open
  BY <1>2 DEF RequestOK, Open, EditPcs, RestorePcs
<1>4. client' \in [Tabs -> Request] /\ \A u \in Tabs : RequestOK(client'[u], current)
  <2>1. current <= current
    BY <1>1
  <2> QED BY <1>1, <1>2, <1>3, <2>1, ClientsTyped
<1>5. /\ UNCHANGED <<log, store, job, worker, late, menu, used>>
      /\ live' \in Docs /\ identities' \in Given
  BY DEF GivesNames, snapshots, runs
<1>6. current' = current
  BY <1>5 DEF current
<1>7. Budget'
  <2>1. /\ IsFiniteSet(Busy') /\ Cardinality(Busy') \in Nat
        /\ Cardinality(Busy') <= Cardinality(Busy) /\ Cardinality(Busy) \in Nat
    BY <1>1, <1>3, NoMoreBusy, FS_CardinalityType DEF Shape, Budget
  <2>2. used'.requests = used.requests /\ used.requests \in Nat
    BY <1>5 DEF Shape, Types
  <2> QED BY <1>1, <1>6, <2>1, <2>2 DEF Shape, Budget
<1> QED BY <1>4, <1>5, <1>6, <1>7 DEF Shape, Types, LogOK

\* The log of one more version.
LEMMA LogAppended ==
  ASSUME Shape, NEW entry \in VersionRow, log' = Append(log, entry)
  PROVE  /\ current' = current + 1 /\ log' \in Seq(VersionRow)
         /\ \A v \in 1..current : log'[v] = log[v]
         /\ log'[current + 1] = entry
BY VersionsExist DEF Shape, Types, current

\* Appending a version keeps the shape.
LEMMA AppendsShape == ASSUME Shape, NEW t \in Tabs, NEW entry, NEW c, Appends(t, entry, c) PROVE Shape'
<1>0. current \in Nat /\ current' = current + 1 /\ log' \in Seq(VersionRow)
        /\ (\A v \in 1..current : log'[v] = log[v]) /\ log'[current + 1] = entry
  BY VersionsExist, LogAppended DEF Appends
<1>1. c \in Request /\ client' = [client EXCEPT ![t] = c] /\ RequestOK(c, current)
  BY DEF Appends
<1>2. client' \in [Tabs -> Request] /\ \A u \in Tabs : RequestOK(client'[u], current')
  <2>1. RequestOK(c, current') /\ current' \in Nat /\ current <= current'
    BY <1>0, <1>1, RequestOnward
  <2> QED BY <1>1, <2>1, ClientsTyped
<1>3. /\ UNCHANGED <<store, job, worker, late, menu, used>>
      /\ live' \in Docs /\ identities' \in Given
  BY DEF Appends, snapshots, runs
<1>4. LogOK'
  <2>1. ASSUME NEW v \in 1..current' PROVE log'[v].from \in 0..(v - 1)
    <3>1. CASE v \in 1..current
      BY <3>1, <1>0 DEF Shape, LogOK
    <3>2. CASE v = current + 1
      BY <3>2, <1>0 DEF Appends
    <3> QED BY <1>0, <3>1, <3>2
  <2> QED BY <2>1 DEF LogOK
<1>5. \A w \in Workers : RunOK(worker'[w], current')
  <2>1. \A w \in Workers : RunOK(worker[w], current)
    BY DEF Shape
  <2>2. current' \in Nat /\ current <= current'
    BY <1>0
  <2> QED BY <1>0, <1>3, <2>1, <2>2, RunOnward
<1>6. Budget'
  <2>1. IsFiniteSet(Busy) /\ t \in Busy /\ Cardinality(Busy) \in Nat
    BY FS_CardinalityType DEF Shape, Budget, Busy, Appends
  <2>2. Busy' \in SUBSET (Busy \ {t})
    BY <1>1, Others DEF Busy, Appends, Open
  <2>3. IsFiniteSet(Busy \ {t}) /\ Cardinality(Busy \ {t}) = Cardinality(Busy) - 1
    BY <2>1, FS_RemoveElement
  <2>4. /\ IsFiniteSet(Busy') /\ Cardinality(Busy') <= Cardinality(Busy \ {t})
        /\ Cardinality(Busy') \in Nat
    BY <2>2, <2>3, FS_Subset, FS_CardinalityType
  <2>5. used'.requests = used.requests /\ used.requests \in Nat
    BY <1>3 DEF Shape, Types
  <2> QED BY <1>0, <2>1, <2>3, <2>4, <2>5 DEF Shape, Budget
<1>7. current' # 0
  BY <1>0
<1> QED BY <1>0, <1>2, <1>3, <1>4, <1>5, <1>6, <1>7 DEF Shape, Types

\* A run goes on as r, which holds what it held before or the current version; the log gets at
\* most the link to the version it has read, and the store at most the body it has read.
RunStep(w, r) ==
  /\ worker' = [worker EXCEPT ![w] = r] /\ r \in Run
  /\ HasRead(r) => \/ r.version = current /\ r.body = live
                   \/ HasRead(worker[w]) /\ r.version = worker[w].version
                                         /\ r.body = worker[w].body
  /\ \/ log' = log
     \/ HasRead(worker[w]) /\ log' = [log EXCEPT ![worker[w].version].snapshot = TRUE]
  /\ \/ store' = store
     \/ store' = [store EXCEPT ![worker[w].version] = Gone]
     \/ HasRead(worker[w]) /\ store' = [store EXCEPT ![worker[w].version] = worker[w].body]
  /\ UNCHANGED <<live, identities, client, menu>>
  /\ used' \in [requests : 0..MaxRequests, faults : Nat] /\ used'.requests = used.requests
  /\ job' \in [Slots -> JobRow]
  /\ late' \in SUBSET Versions

\* Every step of a snapshot job is such a step.
LEMMA SnapshotRuns ==
  ASSUME Shape, NEW w \in Workers, Snapshot(w)
  PROVE  \E r : RunStep(w, r)
<1>0. /\ current \in Versions /\ current \in Nat
      /\ worker \in [Workers -> Run] /\ worker[w] \in Run
      /\ live \in Docs /\ late \in SUBSET Versions /\ job \in [Slots -> JobRow]
      /\ used \in [requests : 0..MaxRequests, faults : Nat]
      /\ HasRead(worker[w]) => worker[w].version \in Versions
  BY VersionsExist DEF Shape, Types, RunOK
<1>1. NoRun \in Run /\ ~HasRead(NoRun)
  BY DEF NoRun, Run, HasRead
<1>2. ASSUME Spend("faults", MaxFaults)
      PROVE  used' \in [requests : 0..MaxRequests, faults : Nat] /\ used'.requests = used.requests
  BY <1>0, <1>2 DEF Spend
<1>3. CASE SnapshotStarts(w)
  <2>1. PICK s \in Slots :
          /\ ClaimJob(s)
          /\ worker' = [worker EXCEPT ![w] = [NoRun EXCEPT !.pc = "started", !.row = {s}]]
    BY <1>3 DEF SnapshotStarts
  <2> DEFINE r == [NoRun EXCEPT !.pc = "started", !.row = {s}]
  <2>2. r \in Run /\ ~HasRead(r)
    BY DEF NoRun, Run, HasRead
  <2>3. UNCHANGED <<live, log, identities, client, used, store, late, menu>>
    BY <1>3 DEF SnapshotStarts, document, requests
  <2>4. worker' = [worker EXCEPT ![w] = r] /\ job' \in [Slots -> JobRow]
    BY <1>0, <2>1, RowsTyped
  <2> HIDE DEF r
  <2> QED BY <1>0, <2>2, <2>3, <2>4 DEF RunStep
<1>4. CASE SnapshotReads(w)
  <2>1. UNCHANGED <<live, log, identities, client, used, store, job, menu>>
    BY <1>4 DEF SnapshotReads, document, requests
  <2>2. CASE log[current].snapshot
    <3> DEFINE r == [NoRun EXCEPT !.pc = "returned", !.row = worker[w].row]
    <3>1. r \in Run /\ ~HasRead(r)
      BY <1>0 DEF NoRun, Run, HasRead
    <3>2. worker' = [worker EXCEPT ![w] = r] /\ late' = late
      BY <1>4, <2>2 DEF SnapshotReads, Return
    <3> HIDE DEF r
    <3> QED BY <1>0, <2>1, <3>1, <3>2 DEF RunStep
  <2>3. CASE ~log[current].snapshot
    <3> DEFINE r == [worker[w] EXCEPT !.pc = "read", !.version = current, !.body = live]
    <3>1. r \in Run /\ r.version = current /\ r.body = live
      BY <1>0 DEF Run
    <3>2. worker' = [worker EXCEPT ![w] = r] /\ late' \in SUBSET Versions
      BY <1>0, <1>4, <2>3 DEF SnapshotReads
    <3> HIDE DEF r
    <3> QED BY <1>0, <2>1, <3>1, <3>2 DEF RunStep
  <2> QED BY <2>2, <2>3
<1>5. CASE SnapshotPuts(w)
  <2> DEFINE r == [worker[w] EXCEPT !.pc = "put"]
  <2>1. /\ UNCHANGED <<live, log, identities, client, used, job, late, menu>>
        /\ store' = [store EXCEPT ![worker[w].version] = worker[w].body]
        /\ worker' = [worker EXCEPT ![w] = r] /\ HasRead(worker[w])
    BY <1>5 DEF SnapshotPuts, document, requests, Body, HasRead
  <2>2. r \in Run /\ r.version = worker[w].version /\ r.body = worker[w].body
    BY <1>0 DEF Run
  <2> HIDE DEF r
  <2> QED BY <1>0, <2>1, <2>2 DEF RunStep
<1>6. CASE SnapshotClaims(w)
  <2> DEFINE r == [NoRun EXCEPT !.pc = "returned", !.row = worker[w].row]
  <2>1. /\ UNCHANGED <<live, identities, client, used, job, late, menu>>
        /\ worker' = [worker EXCEPT ![w] = r] /\ HasRead(worker[w])
        /\ \/ /\ log' = log
              /\ store' = [store EXCEPT ![worker[w].version] = Gone]
           \/ /\ log' = [log EXCEPT ![worker[w].version].snapshot = TRUE]
              /\ store' = store
    BY <1>6 DEF SnapshotClaims, requests, Claimed, Return, HasRead
  <2>2. r \in Run /\ ~HasRead(r)
    BY <1>0 DEF NoRun, Run, HasRead
  <2> HIDE DEF r
  <2> QED BY <1>0, <2>1, <2>2 DEF RunStep
<1>7. CASE SnapshotReturns(w) \/ SnapshotThrows(w)
  <2>1. /\ UNCHANGED <<live, log, identities, client, store, late, menu>>
        /\ worker' = [worker EXCEPT ![w] = NoRun]
    BY <1>7 DEF SnapshotReturns, SnapshotThrows, Ends, document, requests
  <2>2. job' = job \/ \E s \in worker[w].row : Complete(s) \/ Fail(s)
    BY <1>7 DEF SnapshotReturns, SnapshotThrows, Ends
  <2>3. job' \in [Slots -> JobRow]
    <3>1. worker[w].row \in SUBSET Slots
      BY <1>0 DEF Run
    <3> QED BY <1>0, <2>2, <3>1, RowsTyped
  <2>4. used' = used \/ Spend("faults", MaxFaults)
    BY <1>7 DEF SnapshotReturns, SnapshotThrows, requests
  <2> QED BY <1>0, <1>1, <1>2, <2>1, <2>3, <2>4 DEF RunStep
<1>8. CASE SnapshotTimesOut(w)
  <2> DEFINE r == [worker[w] EXCEPT !.row = {}]
  <2>1. /\ UNCHANGED <<live, log, identities, client, store, menu>>
        /\ worker' = [worker EXCEPT ![w] = r] /\ Spend("faults", MaxFaults)
        /\ \E s \in worker[w].row : Fail(s)
    BY <1>8 DEF SnapshotTimesOut, document
  <2>2. r \in Run /\ r.pc = worker[w].pc /\ r.version = worker[w].version /\ r.body = worker[w].body
    BY <1>0 DEF Run
  <2>3. job' \in [Slots -> JobRow]
    <3>1. worker[w].row \in SUBSET Slots
      BY <1>0 DEF Run
    <3> QED BY <1>0, <2>1, <3>1, RowsTyped
  <2>4. late' \in SUBSET Versions
    <3>1. worker[w].pc = "started" \/ HasRead(worker[w])
      BY <1>8 DEF SnapshotTimesOut, HasRead
    <3> QED BY <1>0, <1>8, <3>1 DEF SnapshotTimesOut
  <2> HIDE DEF r
  <2> QED BY <1>0, <1>2, <2>1, <2>2, <2>3, <2>4 DEF RunStep, HasRead
<1> QED BY <1>3, <1>4, <1>5, <1>6, <1>7, <1>8 DEF Snapshot

\* Of the log, a run changes a link at most.
LEMMA RunsLog ==
  ASSUME Shape, NEW w \in Workers, NEW r, RunStep(w, r)
  PROVE  /\ log' \in Seq(VersionRow) /\ current' = current
         /\ \A v \in 1..current :
              /\ log'[v].said = log[v].said /\ log'[v].kind = log[v].kind
              /\ log'[v].ops = log[v].ops /\ log'[v].from = log[v].from
<1>0. /\ log \in Seq(VersionRow) /\ current \in Nat
      /\ \A v \in 1..current : log[v] \in VersionRow
      /\ RunOK(worker[w], current)
  BY VersionsExist DEF Shape, Types
<1>1. CASE log' = log
  BY <1>0, <1>1 DEF current
<1>2. CASE log' # log
  <2> DEFINE at == worker[w].version
             marked == [log[at] EXCEPT !.snapshot = TRUE]
  <2>0. log' = [log EXCEPT ![at].snapshot = TRUE]
    BY <1>2 DEF RunStep
  <2>1. at \in 1..current
    BY <1>0, <1>2 DEF RunStep, RunOK
  <2>2. /\ marked \in VersionRow /\ marked.said = log[at].said /\ marked.kind = log[at].kind
        /\ marked.ops = log[at].ops /\ marked.from = log[at].from
    BY <1>0, <2>1 DEF VersionRow
  <2>3. log' = [log EXCEPT ![at] = marked]
    BY <2>0
  <2> HIDE DEF marked, at
  <2>4. Len(log') = Len(log) /\ log' \in Seq(VersionRow)
    BY <1>0, <2>1, <2>2, <2>3 DEF current
  <2>5. \A v \in 1..current : log'[v] = IF v = at THEN marked ELSE log[v]
    BY <1>0, <2>3 DEF current
  <2> QED BY <2>2, <2>4, <2>5 DEF current
<1> QED BY <1>1, <1>2

\* A run keeps the shape.
LEMMA SnapshotsShape ==
  ASSUME Shape, NEW w \in Workers, Snapshot(w)
  PROVE  Shape'
<1>1. PICK r : RunStep(w, r)
  BY SnapshotRuns
<1>2. /\ log' \in Seq(VersionRow) /\ current' = current
      /\ \A v \in 1..current : log'[v].from = log[v].from
  BY <1>1, RunsLog
<1>3. /\ current \in Nat \ {0} /\ worker \in [Workers -> Run] /\ live \in Docs /\ Gone \notin Docs
      /\ store \in [Versions -> Docs \cup {Gone}] /\ worker[w] \in Run
      /\ \A u \in Workers : RunOK(worker[u], current)
  BY VersionsExist, GoneIsNoDocument DEF Shape, Types
<1>4. worker' \in [Workers -> Run] /\ \A u \in Workers : RunOK(worker'[u], current)
  <2>1. r \in Run /\ worker' = [worker EXCEPT ![w] = r]
    BY <1>1 DEF RunStep
  <2>2. RunOK(r, current)
    BY <1>1, <1>3 DEF RunStep, RunOK
  <2> QED BY <1>3, <2>1, <2>2
<1>5. store' \in [Versions -> Docs \cup {Gone}]
  <2>1. worker[w].body \in Docs \cup {Gone}
    BY <1>3 DEF Run
  <2> QED BY <1>1, <1>3, <2>1 DEF RunStep
<1>6. LogOK'
  BY <1>2 DEF Shape, LogOK
<1>7. Types'
  BY <1>1, <1>2, <1>3, <1>4, <1>5 DEF RunStep, Shape, Types
<1>8. Budget'
  BY <1>1, <1>2 DEF RunStep, Shape, Budget, Busy
<1>9. \A t \in Tabs : RequestOK(client'[t], current')
  BY <1>1, <1>2 DEF RunStep, Shape
<1> QED BY <1>2, <1>4, <1>6, <1>7, <1>8, <1>9 DEF Shape

\* Every step keeps the shape.
LEMMA NextShape == Shape /\ [Next]_vars => Shape'
<1> SUFFICES ASSUME Shape, [Next]_vars PROVE Shape'
  OBVIOUS
<1>1. ASSUME UNCHANGED vars PROVE Shape'
  BY <1>1 DEF vars, Shape, Types, LogOK, Budget, Busy, current
<1>2. ASSUME NEW t \in Tabs, Saves(t) \/ Returns(t) PROVE Shape'
  BY <1>2, AppendsShape DEF Saves, Returns
<1> QED BY <1>1, <1>2, StepIs, AsksShape, MovesShape, GivesNamesShape, SnapshotsShape

\* The documents are documents, the log is a log, and there are never more versions than requests.
THEOREM EditingTypeOKHolds == Spec => []EditingTypeOK
<1>1. Shape => EditingTypeOK
  <2> SUFFICES ASSUME Shape PROVE EditingTypeOK
    OBVIOUS
  <2>1. current \in Versions /\ \A v \in 1..current : log[v] \in VersionRow
    BY VersionsExist
  <2>2. \A v \in 1..current : /\ log[v].kind \in {"ai_original", "edit", "restore"}
                              /\ log[v].batch \in 0..MaxRequests /\ log[v].from \in 0..(v - 1)
    BY <2>1 DEF Shape, LogOK, VersionRow
  <2>3. \A t \in Tabs : client[t].target \in Docs \cup {Gone}
    BY DEF Shape, Types, Request
  <2> QED BY <2>1, <2>2, <2>3 DEF EditingTypeOK, Shape, Types, Docs, Given
<1> QED BY <1>1, InitShape, NextShape, PTL DEF Spec

-------------------------------------------------------------------------------
(* The history.                                                            *)

\* Version v says what it says of the text of that version and of the ones before it.
Tells(row, docs, v) ==
  /\ row.said = Lines(docs[v])
  /\ row.kind = "ai_original" => v = 1
  /\ row.kind = "edit" =>
       /\ v # 1
       /\ LET applied == ApplyOps(docs[v - 1], row.ops)
          IN  ~applied.invalid /\ ~applied.conflict /\ Alike(applied.doc, docs[v])
  /\ row.kind = "restore" => row.from \in 1..(v - 1) /\ Alike(docs[row.from], docs[v])

\* docs[v] is the text as version v left it.
Told(docs) ==
  /\ docs \in [1..current -> Docs]
  /\ Alike(live, docs[current])
  /\ \A v \in 1..current : Tells(log[v], docs, v)
  /\ \A v \in Versions : store[v] # Gone => v \in 1..current /\ Alike(store[v], docs[v])
  /\ \A w \in Workers : HasRead(worker[w]) => Alike(worker[w].body, docs[worker[w].version])
  /\ \A t \in Tabs : client[t].pc = "restores" => Alike(client[t].target, docs[client[t].version])

\* The text of every version can be named, and all that the program kept of it agrees with it.
History == \E docs : Told(docs)

\* What a version is rebuilt to is what it said, but for names.
Fits(docs, v) ==
  /\ Raw[v].how # "corrupt"
  /\ Raw[v].how = "found" => v # 0 /\ Alike(Raw[v].doc, docs[v])

\* One version of a replay says what the log tells, if those before it do.
LEMMA FitsNext ==
  ASSUME Shape, NEW docs, Told(docs), NEW v \in 0..current, \A u \in 0..(v - 1) : Fits(docs, u)
  PROVE  Fits(docs, v)
<1>0. /\ current \in Nat /\ Raw[v] = Rebuilt(Raw, v)
      /\ \A u \in 0..current : Raw[u] \in Outcome
  BY VersionsExist, RawIs
<1>1. CASE v = 0
  BY <1>0, <1>1 DEF Rebuilt, Missing, Fits
<1>2. CASE v # 0
  <2>0. /\ v \in 1..current /\ v > 0 /\ v - 1 \in 0..(v - 1) /\ v - 1 \in 0..current
        /\ log[v] \in VersionRow /\ v \in Versions
    BY <1>0, <1>2, VersionsExist
  <2>1. Tells(log[v], docs, v) /\ docs[v] \in Docs
    BY <2>0 DEF Told
  <2>2. CASE log[v].snapshot
    <3>1. CASE store[v] = Gone
      BY <1>0, <2>0, <2>2, <3>1 DEF Rebuilt, Missing, Fits
    <3>2. CASE store[v] # Gone
      <4>1. Alike(store[v], docs[v])
        BY <2>0, <3>2 DEF Told
      <4> QED BY <1>0, <1>2, <2>0, <2>2, <3>2, <4>1 DEF Rebuilt, Found, Fits
    <3> QED BY <3>1, <3>2
  <2>3. CASE ~log[v].snapshot /\ log[v].kind = "restore"
    <3>1. log[v].from \in 1..(v - 1) /\ Alike(docs[log[v].from], docs[v])
      BY <2>1, <2>3 DEF Tells
    <3>2. Raw[v] = Raw[log[v].from]
      BY <1>0, <2>0, <2>3 DEF Rebuilt
    <3>3. Fits(docs, log[v].from)
      BY <3>1
    <3> QED BY <1>2, <3>1, <3>2, <3>3, AlikeOnward DEF Fits
  <2>4. CASE ~log[v].snapshot /\ log[v].kind # "restore"
    <3>1. Raw[v] = Replay(Raw[v - 1], log[v].ops)
      BY <1>0, <1>2, <2>0, <2>4 DEF Rebuilt
    <3>2. Fits(docs, v - 1) /\ Raw[v - 1] \in Outcome
      BY <1>0, <2>0
    <3>3. CASE Raw[v - 1].how # "found"
      BY <1>2, <3>1, <3>2, <3>3 DEF Replay, Fits
    <3>4. CASE Raw[v - 1].how = "found"
      <4> DEFINE a == ApplyOps(Raw[v - 1].doc, log[v].ops)
                 b == ApplyOps(docs[v - 1], log[v].ops)
      <4>1. v - 1 \in 1..current /\ v # 1 /\ Alike(Raw[v - 1].doc, docs[v - 1])
        BY <1>0, <2>0, <3>2, <3>4 DEF Fits
      <4>2. log[v].kind = "edit"
        BY <2>0, <2>1, <2>4, <4>1 DEF Tells, VersionRow
      <4>3. ~b.invalid /\ ~b.conflict /\ Alike(b.doc, docs[v])
        BY <2>1, <4>2 DEF Tells
      <4>4. AlikeProgress(a, b)
        <5>1. Raw[v - 1].doc \in Document(Texts) /\ docs[v - 1] \in Document(Texts)
                /\ log[v].ops \in Seq(Op(Texts))
          BY <2>0, <3>2, <3>4, <4>1 DEF Outcome, Told, Docs, VersionRow, Ops
        <5> QED BY <4>1, <5>1, TextsAreNumbers, ApplyOpsAlike
      <4> HIDE DEF b
      <4>5. ~a.invalid /\ ~a.conflict /\ Alike(a.doc, docs[v])
        BY <4>3, <4>4, AlikeOnward DEF AlikeProgress
      <4>6. Raw[v] = Found(a.doc)
        BY <3>1, <3>4, <4>5 DEF Replay
      <4> HIDE DEF a
      <4> QED BY <1>2, <4>5, <4>6 DEF Found, Fits
    <3> QED BY <3>3, <3>4
  <2> QED BY <2>2, <2>3, <2>4, <2>0 DEF VersionRow
<1> QED BY <1>1, <1>2

\* A replay from the start says what the log tells, at every version.
LEMMA RawFits ==
  ASSUME Shape, NEW docs, Told(docs)
  PROVE  \A v \in 0..current : Fits(docs, v)
<1> DEFINE S == {i \in 0..current : \A v \in 0..i : Fits(docs, v)}
<1>0. current \in Nat
  BY VersionsExist
<1>1. 0 \in S
  <2>1. Fits(docs, 0)
    BY <1>0, FitsNext
  <2> QED BY <1>0, <2>1
<1>2. ASSUME NEW i \in 0..current, i \in S, i < current PROVE i + 1 \in S
  <2>1. i + 1 \in 0..current /\ \A u \in 0..((i + 1) - 1) : Fits(docs, u)
    BY <1>0, <1>2
  <2>2. Fits(docs, i + 1)
    BY <2>1, FitsNext
  <2>3. \A v \in 0..(i + 1) : v \in 0..i \/ v = i + 1
    BY <1>0
  <2> QED BY <1>2, <2>1, <2>2, <2>3
<1> HIDE DEF S
<1>3. \A i \in 0..current : i \in S
  BY <1>0, <1>1, <1>2, UpTo, Zenon
<1> QED BY <1>0, <1>3 DEF S

\* So is what is shown of it.
LEMMA MaterializeFits ==
  ASSUME Shape, NEW docs, Told(docs), NEW v \in 1..current, NEW doc, Materialize(v) = Found(doc)
  PROVE  Alike(doc, docs[v])
<1> DEFINE raw == IF v = current /\ Raw[v].how = "unreachable" THEN Found(live) ELSE Raw[v]
<1>1. v \in 0..current /\ Fits(docs, v) /\ Raw[v] \in Outcome
  BY VersionsExist, RawFits, RawIs
<1>2. raw \in Outcome /\ (raw.how = "found" => Alike(raw.doc, docs[v]))
  BY <1>1 DEF Found, Outcome, Shape, Types, Fits, Told
<1>3. Materialize(v) = IF raw.how = "found" THEN Found(ApplyIdentities(raw.doc, identities)) ELSE raw
  BY DEF Materialize
<1> HIDE DEF raw
<1>4. raw.how = "found"
  BY <1>3 DEF Found
<1>5. doc = ApplyIdentities(raw.doc, identities)
  BY <1>3, <1>4 DEF Found
<1>6. Alike(ApplyIdentities(raw.doc, identities), raw.doc)
  BY <1>2, <1>4, TextsAreNumbers, NamesPut DEF Outcome, Docs, Shape, Types
<1> QED BY <1>2, <1>4, <1>5, <1>6, AlikeOnward

\* What a version tells is of documents that later versions leave alone.
LEMMA TellsOn ==
  ASSUME NEW row, NEW docs, NEW now, NEW v \in Nat \ {0}, Tells(row, docs, v),
         \A u \in 1..v : now[u] = docs[u]
  PROVE  Tells(row, now, v)
<1>1. now[v] = docs[v] /\ (v # 1 => now[v - 1] = docs[v - 1])
        /\ \A u \in 1..(v - 1) : now[u] = docs[u]
  OBVIOUS
<1> QED BY <1>1 DEF Tells

\* The first version is told by the document it was made from.
LEMMA InitHistory == Init => History
<1> SUFFICES ASSUME Init PROVE History
  OBVIOUS
<1> DEFINE docs == [v \in 1..1 |-> live]
<1>1. Shape /\ current = 1 /\ log[1] = Entry("ai_original", <<>>, 0, 0, live)
  BY InitShape DEF Init, current
<1>2. docs \in [1..current -> Docs] /\ docs[1] = live
  BY <1>1 DEF Shape, Types
<1> HIDE DEF docs
<1>3. Tells(log[1], docs, 1)
  BY <1>1, <1>2 DEF Tells, Entry
<1>4. Told(docs)
  BY <1>1, <1>2, <1>3, AlikeItself DEF Told, Init, NoRun, HasRead, NoRequest
<1> QED BY <1>4 DEF History

\* Where no version is added and only requests and names move.
LEMMA ToldOn ==
  ASSUME Shape, NEW docs, Told(docs), NEW t \in Tabs, NEW c, client' = [client EXCEPT ![t] = c],
         c.pc = "restores" => Alike(c.target, docs[c.version]),
         Alike(live', live), UNCHANGED <<log, store, worker>>
  PROVE  Told(docs)'
<1>1. current' = current
  BY DEF current
<1>2. Alike(live', docs[current])
  BY AlikeOnward DEF Told
<1>3. ASSUME NEW u \in Tabs, client'[u].pc = "restores"
      PROVE  Alike(client'[u].target, docs[client'[u].version])
  BY <1>3, Others DEF Told
<1> QED BY <1>1, <1>2, <1>3 DEF Told

\* A new request leaves the history as it is told.
LEMMA AsksHistory ==
  ASSUME Shape, NEW docs, Told(docs), NEW t \in Tabs, NEW c, Asks(t, c)
  PROVE  Told(docs)'
BY ToldOn, AlikeItself DEF Asks, document, snapshots, runs

\* A request that moves on leaves the history as it is told.
LEMMA MovesHistory ==
  ASSUME Shape, NEW docs, Told(docs), NEW t \in Tabs, NEW c, Moves(t, c)
  PROVE  Told(docs)'
<1>1. c.pc = "restores" => Alike(c.target, docs[c.version])
  <2> SUFFICES ASSUME c.pc = "restores" PROVE Alike(c.target, docs[c.version])
    OBVIOUS
  <2>1. c.version \in 1..current /\ Materialize(c.version) = Found(c.target)
    BY DEF Moves, RequestOK
  <2> QED BY <2>1, MaterializeFits
<1> QED BY <1>1, ToldOn, AlikeItself DEF Moves, Aside, document

\* Names are no part of a history, so giving them leaves it.
LEMMA GivesNamesHistory ==
  ASSUME Shape, NEW docs, Told(docs), NEW t \in Tabs, GivesNames(t)
  PROVE  Told(docs)'
<1> DEFINE c == [NoRequest EXCEPT !.answer = "named"]
<1>1. client' = [client EXCEPT ![t] = c] /\ c.pc # "restores"
  BY DEF GivesNames, Answer, NoRequest
<1> QED BY <1>1, ToldOn DEF GivesNames, snapshots, runs

\* The text after one more version.
Onward(docs) == [v \in 1..(current + 1) |-> IF v = current + 1 THEN live' ELSE docs[v]]

\* A version that is appended adds one document to the history.
LEMMA AppendsHistory ==
  ASSUME Shape, NEW docs, Told(docs), NEW t \in Tabs, NEW entry, NEW c, Appends(t, entry, c),
         NEW now, now = Onward(docs), Tells(entry, now, current + 1)
  PROVE  Told(now)'
<1>0. current \in Nat /\ current' = current + 1 /\ log' \in Seq(VersionRow)
        /\ (\A v \in 1..current : log'[v] = log[v]) /\ log'[current + 1] = entry
  BY VersionsExist, LogAppended DEF Appends
<1>1. /\ now \in [1..current' -> Docs] /\ now[current'] = live'
      /\ \A v \in 1..current : now[v] = docs[v]
  BY <1>0 DEF Onward, Told, Appends
<1>2. Alike(live', now[current'])
  BY <1>1, AlikeItself
<1>3. ASSUME NEW v \in 1..current' PROVE Tells(log'[v], now, v)
  <2>1. CASE v \in 1..current
    <3>1. Tells(log[v], docs, v) /\ v \in Nat \ {0} /\ \A u \in 1..v : now[u] = docs[u]
      BY <1>0, <1>1, <2>1 DEF Told
    <3> QED BY <1>0, <2>1, <3>1, TellsOn
  <2>2. CASE v = current + 1
    BY <1>0, <2>2
  <2> QED BY <1>0, <2>1, <2>2
<1>4. UNCHANGED <<store, worker>>
  BY DEF Appends, snapshots, runs
<1>5. ASSUME NEW v \in Versions, store[v] # Gone PROVE v \in 1..current' /\ Alike(store[v], now[v])
  <2>1. v \in 1..current /\ Alike(store[v], docs[v])
    BY <1>5 DEF Told
  <2> QED BY <1>0, <1>1, <2>1
<1>6. ASSUME NEW w \in Workers, HasRead(worker[w]) PROVE Alike(worker[w].body, now[worker[w].version])
  <2>1. worker[w].version \in 1..current
    BY <1>6 DEF Shape, RunOK
  <2> QED BY <1>1, <1>6, <2>1 DEF Told
<1>7. ASSUME NEW u \in Tabs, client'[u].pc = "restores"
      PROVE  Alike(client'[u].target, now[client'[u].version])
  <2>1. u # t /\ client'[u] = client[u]
    BY <1>7, Others DEF Appends
  <2>2. client[u].version \in 1..current
    BY <1>7, <2>1 DEF Shape, RequestOK
  <2> QED BY <1>1, <1>7, <2>1, <2>2 DEF Told
<1> QED BY <1>1, <1>2, <1>3, <1>4, <1>5, <1>6, <1>7 DEF Told

\* A save adds what its batch makes of the live tables.
LEMMA SavesHistory ==
  ASSUME Shape, NEW docs, Told(docs), NEW t \in Tabs, Saves(t)
  PROVE  History'
<1> PICK now : now = Onward(docs)
  OBVIOUS
<1> DEFINE applied == ApplyOps(live, client[t].ops)
           replayed == ApplyOps(docs[current], client[t].ops)
<1>0. current \in Nat \ {0}
  BY VersionsExist
<1>1. PICK c : Appends(t, Edited(t), c)
  BY DEF Saves
<1>2. now[current + 1] = live' /\ now[current] = docs[current]
  BY <1>0 DEF Onward
<1>3. live' = applied.doc /\ ~applied.invalid /\ ~applied.conflict
  BY DEF Saves, SaveCommits
<1>4. AlikeProgress(replayed, applied)
  <2>1. /\ docs[current] \in Document(Texts) /\ live \in Document(Texts)
        /\ client[t].ops \in Seq(Op(Texts)) /\ Alike(docs[current], live)
    BY <1>0, AlikeBack DEF Told, Shape, Types, Docs, Request, Ops
  <2> QED BY <2>1, TextsAreNumbers, ApplyOpsAlike
<1> HIDE DEF applied, replayed
<1>5. ~replayed.invalid /\ ~replayed.conflict /\ Alike(replayed.doc, live')
  BY <1>3, <1>4 DEF AlikeProgress
<1>6. /\ Edited(t).said = Lines(live') /\ Edited(t).kind = "edit" /\ Edited(t).ops = client[t].ops
  BY DEF Edited, Entry
<1>7. Tells(Edited(t), now, current + 1)
  <2>1. (current + 1) - 1 = current /\ current + 1 # 1
    BY <1>0
  <2> HIDE DEF current, Edited
  <2> QED BY <1>2, <1>5, <1>6, <2>1 DEF Tells, replayed
<1>8. Told(now)'
  BY <1>1, <1>7, AppendsHistory
<1> QED BY <1>8 DEF History

\* A restore adds the document it goes back to.
LEMMA ReturnsHistory ==
  ASSUME Shape, NEW docs, Told(docs), NEW t \in Tabs, Returns(t)
  PROVE  History'
<1> PICK now : now = Onward(docs)
  OBVIOUS
<1> DEFINE from == client[t].version
<1>0. current \in Nat \ {0}
  BY VersionsExist
<1>1. PICK c : Appends(t, Returned(t), c)
  BY DEF Returns
<1>2. client[t].pc = "restores" /\ from \in 1..current
  BY DEF Returns, RestoreCommits, Shape, RequestOK
<1>3. now[current + 1] = live' /\ now[from] = docs[from]
  BY <1>0, <1>2 DEF Onward
<1>4. Alike(docs[from], live')
  <2>1. Alike(live', client[t].target) /\ Alike(client[t].target, docs[from])
    BY <1>2 DEF Returns, Told
  <2> QED BY <2>1, AlikeBack, AlikeOnward
<1>5. Returned(t).said = Lines(live') /\ Returned(t).kind = "restore" /\ Returned(t).from = from
  BY DEF Returned, Entry
<1>6. Tells(Returned(t), now, current + 1)
  <2>1. from \in 1..((current + 1) - 1)
    BY <1>0, <1>2
  <2> HIDE DEF current, Returned, from
  <2> QED BY <1>3, <1>4, <1>5, <2>1 DEF Tells
<1>7. Told(now)'
  BY <1>1, <1>6, AppendsHistory
<1> QED BY <1>7 DEF History

\* A snapshot job adds nothing, and snaps what the log tells.
LEMMA SnapshotsHistory ==
  ASSUME Shape, NEW docs, Told(docs), NEW w \in Workers, Snapshot(w)
  PROVE  Told(docs)'
<1>1. PICK r : RunStep(w, r)
  BY SnapshotRuns
<1>2. /\ current' = current
      /\ \A v \in 1..current :
           /\ log'[v].said = log[v].said /\ log'[v].kind = log[v].kind
           /\ log'[v].ops = log[v].ops /\ log'[v].from = log[v].from
  BY <1>1, RunsLog
<1>3. /\ worker \in [Workers -> Run] /\ store \in [Versions -> Docs \cup {Gone}]
      /\ RunOK(worker[w], current) /\ UNCHANGED <<live, client>>
  BY <1>1 DEF Shape, Types, RunStep
<1>4. HasRead(worker[w]) => Alike(worker[w].body, docs[worker[w].version])
  BY DEF Told
<1>5. ASSUME NEW u \in Workers, HasRead(worker'[u])
      PROVE  Alike(worker'[u].body, docs[worker'[u].version])
  <2>1. CASE u = w
    <3>1. worker'[u] = r
      BY <1>1, <1>3, <2>1 DEF RunStep
    <3>2. Alike(live, docs[current])
      BY DEF Told
    <3> QED BY <1>1, <1>4, <1>5, <3>1, <3>2 DEF RunStep
  <2>2. CASE u # w
    <3>1. worker'[u] = worker[u]
      BY <1>1, <1>3, <2>2 DEF RunStep
    <3> QED BY <1>5, <3>1 DEF Told
  <2> QED BY <2>1, <2>2
<1>6. ASSUME NEW v \in Versions, store'[v] # Gone
      PROVE  v \in 1..current /\ Alike(store'[v], docs[v])
  <2>1. CASE store'[v] = store[v]
    BY <1>6, <2>1 DEF Told
  <2>2. CASE store'[v] # store[v]
    <3>1. HasRead(worker[w]) /\ v = worker[w].version /\ store'[v] = worker[w].body
      BY <1>1, <1>3, <1>6, <2>2 DEF RunStep
    <3> QED BY <1>3, <1>4, <3>1 DEF RunOK
  <2> QED BY <2>1, <2>2
<1>7. ASSUME NEW v \in 1..current PROVE Tells(log'[v], docs, v)
  <2>1. Tells(log[v], docs, v)
    BY DEF Told
  <2> QED BY <1>2, <2>1 DEF Tells
<1> QED BY <1>2, <1>3, <1>5, <1>6, <1>7 DEF Told

\* Every step leaves the history told.
LEMMA NextHistory == Shape /\ History /\ [Next]_vars => History'
<1> SUFFICES ASSUME Shape, History, [Next]_vars PROVE History'
  OBVIOUS
<1>1. PICK docs : Told(docs)
  BY DEF History
<1>2. ASSUME UNCHANGED vars PROVE Told(docs)'
  BY <1>1, <1>2 DEF vars, Told, current
<1>3. Told(docs)' => History'
  BY DEF History
<1>4. CASE \E t \in Tabs : \/ \E c : Asks(t, c)
                           \/ \E c : Moves(t, c)
                           \/ GivesNames(t) \/ Saves(t) \/ Returns(t)
  BY <1>1, <1>3, <1>4, AsksHistory, MovesHistory, GivesNamesHistory, SavesHistory, ReturnsHistory
<1>5. CASE \E w \in Workers : Snapshot(w)
  BY <1>1, <1>3, <1>5, SnapshotsHistory
<1> QED BY <1>2, <1>3, <1>4, <1>5, StepIs

\* Whatever is edited, restored, named or snapshotted later, a version that can be shown says
\* what the transcript said when it was saved.
THEOREM PastIsFixedHolds == Spec => []PastIsFixed
<1>1. Shape /\ History => PastIsFixed
  <2> SUFFICES ASSUME Shape, History, NEW v \in 1..current, Raw[v].how = "found"
               PROVE  Lines(Raw[v].doc) = log[v].said
    BY DEF PastIsFixed
  <2>1. PICK docs : Told(docs)
    BY DEF History
  <2>2. Alike(Raw[v].doc, docs[v])
    BY <2>1, VersionsExist, RawFits DEF Fits
  <2>3. log[v].said = Lines(docs[v])
    BY <2>1 DEF Told, Tells
  <2> QED BY <2>2, <2>3 DEF Alike, Lines
<1> QED BY <1>1, InitShape, NextShape, InitHistory, NextHistory, PTL DEF Spec

\* No op of the log names a rev that the replay of its version does not produce.
THEOREM HistoryReplaysHolds == Spec => []HistoryReplays
<1>1. Shape /\ History => HistoryReplays
  <2> SUFFICES ASSUME Shape, History, NEW v \in 1..current
               PROVE  Raw[v].how # "corrupt"
    BY DEF HistoryReplays
  <2>1. PICK docs : Told(docs)
    BY DEF History
  <2> QED BY <2>1, VersionsExist, RawFits DEF Fits
<1> QED BY <1>1, InitShape, NextShape, InitHistory, NextHistory, PTL DEF Spec

-------------------------------------------------------------------------------
(* Snapshots.                                                              *)

\* At most one row is active, and a run that still has its row is alone with it.
Alone ==
  /\ \A a, b \in Slots : Active(a) /\ Active(b) => a = b
  /\ \A w \in Workers :
       /\ worker[w].pc = "idle" => worker[w].row = {}
       /\ \A s \in worker[w].row : Running(s)
  /\ \A u, w \in Workers, s \in Slots : s \in worker[u].row /\ s \in worker[w].row => u = w

\* What a run without its row has read is late; of any other version, a link is written only
\* once the bytes are there, and only where there was none.
Kept ==
  /\ SnapshotsKept
  /\ \A w \in Workers :
       LET at == worker[w].version
       IN  HasRead(worker[w]) /\ at \notin late =>
             /\ worker[w].row # {} /\ ~log[at].snapshot
             /\ worker[w].pc = "put" => store[at] # Gone

\* An enqueue makes no second active row, and leaves a running one as it is.
LEMMA EnqueueAlone == ASSUME Shape, Alone, EnqueueSnapshot, UNCHANGED worker PROVE Alone'
<1>0. job \in [Slots -> JobRow] /\ worker \in [Workers -> Run]
  BY DEF Shape, Types
<1>1. CASE UNCHANGED job
  BY <1>1 DEF Alone, Active, Running
<1>2. ASSUME NEW s \in Slots, Enqueue(s), \A q \in Slots : ~Active(q) PROVE Alone'
  <2>1. \A q \in Slots : q # s => job'[q] = job[q]
    BY <1>0, <1>2 DEF Enqueue
  <2>2. \A a \in Slots : Active(a)' => a = s
    BY <1>2, <2>1 DEF Active
  <2>3. \A w \in Workers : worker[w].row = {}
    BY <1>0, <1>2 DEF Alone, Running, Active, Run
  <2> QED BY <2>2, <2>3 DEF Alone
<1> QED BY <1>1, <1>2 DEF EnqueueSnapshot

\* A request leaves the runs alone.
LEMMA RequestsAlone ==
  ASSUME Shape, Alone, NEW t \in Tabs,
         \/ \E c : Asks(t, c)
         \/ \E c : Moves(t, c)
         \/ GivesNames(t) \/ Saves(t) \/ Returns(t)
  PROVE  Alone'
<1>1. CASE \E c : Moves(t, c)
  <2>1. UNCHANGED worker /\ (job' = job \/ EnqueueSnapshot)
    BY <1>1 DEF Moves, Aside
  <2>2. CASE job' = job
    BY <2>1, <2>2 DEF Alone, Active, Running
  <2> QED BY <2>1, <2>2, EnqueueAlone
<1>2. CASE (\E c : Asks(t, c)) \/ GivesNames(t) \/ Saves(t) \/ Returns(t)
  <2>1. UNCHANGED <<job, worker>>
    BY <1>2 DEF Asks, GivesNames, Saves, Returns, Appends, snapshots, runs
  <2> QED BY <2>1 DEF Alone, Active, Running
<1> QED BY <1>1, <1>2

\* A claim takes a row no run has, and a run that ends or times out leaves its own.
LEMMA RunsAlone == ASSUME Shape, Alone, NEW w \in Workers, Snapshot(w) PROVE Alone'
<1>0. /\ job \in [Slots -> JobRow] /\ worker \in [Workers -> Run]
      /\ \A u \in Workers : worker[u] \in Run /\ worker[u].row \in SUBSET Slots
  BY DEF Shape, Types, Run
<1>1. ASSUME UNCHANGED job, NEW r, worker' = [worker EXCEPT ![w] = r],
             r.row = worker[w].row, r.pc # "idle"
      PROVE  Alone'
  <2>1. \A u \in Workers : worker'[u].row = worker[u].row /\ (worker'[u].pc = "idle" => worker[u].pc = "idle")
    BY <1>0, <1>1
  <2> QED BY <1>1, <2>1 DEF Alone, Active, Running
<1>2. ASSUME NEW s \in worker[w].row, Complete(s) \/ Fail(s),
             NEW r, worker' = [worker EXCEPT ![w] = r], r.row = {}
      PROVE  Alone'
  <2>1. s \in Slots /\ \A q \in Slots : q # s => job'[q] = job[q]
    BY <1>0, <1>2 DEF Complete, Fail
  <2>2. \A q \in Slots : Active(q)' => Active(q)
    BY <1>2, <2>1 DEF Active, Alone, Running
  <2>3. /\ worker'[w].row = {}
        /\ \A u \in Workers : u # w => worker'[u] = worker[u] /\ s \notin worker[u].row
    BY <1>0, <1>2, <2>1 DEF Alone
  <2>4. ASSUME NEW u \in Workers, NEW q \in worker'[u].row PROVE Running(q)'
    BY <1>0, <2>1, <2>3, <2>4 DEF Alone, Running
  <2>5. ASSUME NEW u \in Workers, worker'[u].pc = "idle" PROVE worker'[u].row = {}
    BY <2>3, <2>5 DEF Alone
  <2>6. ASSUME NEW u \in Workers, NEW x \in Workers, NEW q \in Slots,
               q \in worker'[u].row, q \in worker'[x].row
        PROVE  u = x
    BY <2>3, <2>6 DEF Alone
  <2>7. \A a, b \in Slots : Active(a)' /\ Active(b)' => a = b
    BY <2>2 DEF Alone
  <2> QED BY <2>4, <2>5, <2>6, <2>7 DEF Alone
<1>3. CASE SnapshotStarts(w)
  <2> DEFINE r(s) == [NoRun EXCEPT !.pc = "started", !.row = {s}]
  <2>1. PICK s \in Slots : ClaimJob(s) /\ worker' = [worker EXCEPT ![w] = r(s)]
    BY <1>3 DEF SnapshotStarts
  <2>2. r(s).row = {s} /\ r(s).pc = "started"
    BY DEF NoRun
  <2> HIDE DEF r
  <2>3. /\ worker'[w].row = {s} /\ worker'[w].pc = "started"
        /\ \A u \in Workers : u # w => worker'[u] = worker[u]
    BY <1>0, <2>1, <2>2
  <2>4. /\ job[s].state = "pending" /\ job'[s].state = "running"
        /\ \A q \in Slots : q # s => job'[q] = job[q]
    BY <1>0, <2>1 DEF ClaimJob, JobRow
  <2>5. \A u \in Workers : s \notin worker[u].row
    BY <2>4 DEF Alone, Running
  <2>6. \A q \in Slots : Active(q)' => Active(q)
    BY <2>4 DEF Active
  <2>7. ASSUME NEW u \in Workers, NEW q \in worker'[u].row PROVE Running(q)'
    BY <1>0, <2>3, <2>4, <2>5, <2>7 DEF Alone, Running
  <2>8. ASSUME NEW u \in Workers, worker'[u].pc = "idle" PROVE worker'[u].row = {}
    BY <2>3, <2>8 DEF Alone
  <2>9. ASSUME NEW u \in Workers, NEW x \in Workers, NEW q \in Slots,
               q \in worker'[u].row, q \in worker'[x].row
        PROVE  u = x
    BY <2>3, <2>5, <2>9 DEF Alone
  <2>10. \A a, b \in Slots : Active(a)' /\ Active(b)' => a = b
    BY <2>6 DEF Alone
  <2> QED BY <2>7, <2>8, <2>9, <2>10 DEF Alone
<1>4. CASE SnapshotReads(w)
  <2> DEFINE r == [NoRun EXCEPT !.pc = "returned", !.row = worker[w].row]
             q == [worker[w] EXCEPT !.pc = "read", !.version = current, !.body = live]
  <2>1. /\ UNCHANGED job
        /\ worker' = [worker EXCEPT ![w] = r] \/ worker' = [worker EXCEPT ![w] = q]
    BY <1>4 DEF SnapshotReads, Return
  <2>2. /\ r.row = worker[w].row /\ r.pc = "returned"
        /\ q.row = worker[w].row /\ q.pc = "read"
    BY <1>0 DEF NoRun, Run
  <2> HIDE DEF r, q
  <2> QED BY <1>1, <2>1, <2>2
<1>5. CASE SnapshotPuts(w)
  <2> DEFINE r == [worker[w] EXCEPT !.pc = "put"]
  <2>1. UNCHANGED job /\ worker' = [worker EXCEPT ![w] = r]
    BY <1>5 DEF SnapshotPuts
  <2>2. r.row = worker[w].row /\ r.pc = "put"
    BY <1>0 DEF Run
  <2> HIDE DEF r
  <2> QED BY <1>1, <2>1, <2>2
<1>6. CASE SnapshotClaims(w)
  <2> DEFINE r == [NoRun EXCEPT !.pc = "returned", !.row = worker[w].row]
  <2>1. UNCHANGED job /\ worker' = [worker EXCEPT ![w] = r]
    BY <1>6 DEF SnapshotClaims, Return
  <2>2. r.row = worker[w].row /\ r.pc = "returned"
    BY DEF NoRun
  <2> HIDE DEF r
  <2> QED BY <1>1, <2>1, <2>2
<1>7. CASE SnapshotReturns(w) \/ SnapshotThrows(w)
  <2>1. worker' = [worker EXCEPT ![w] = NoRun] /\ NoRun.row = {}
    BY <1>7 DEF SnapshotReturns, SnapshotThrows, Ends, NoRun
  <2>2. CASE worker[w].row # {}
    <3>1. \E s \in worker[w].row : Complete(s) \/ Fail(s)
      BY <1>7, <2>2 DEF SnapshotReturns, SnapshotThrows, Ends
    <3> QED BY <1>2, <2>1, <3>1
  <2>3. CASE worker[w].row = {}
    <3>1. UNCHANGED job
      BY <1>7, <2>3 DEF SnapshotReturns, SnapshotThrows, Ends
    <3>2. \A u \in Workers : worker'[u].row = worker[u].row /\ (u # w => worker'[u] = worker[u])
      BY <1>0, <2>1, <2>3
    <3> QED BY <2>3, <3>1, <3>2 DEF Alone, Active, Running
  <2> QED BY <2>2, <2>3
<1>8. CASE SnapshotTimesOut(w)
  <2> DEFINE r == [worker[w] EXCEPT !.row = {}]
  <2>1. (\E s \in worker[w].row : Fail(s)) /\ worker' = [worker EXCEPT ![w] = r]
    BY <1>8 DEF SnapshotTimesOut
  <2>2. r.row = {}
    BY <1>0 DEF Run
  <2> HIDE DEF r
  <2> QED BY <1>2, <2>1, <2>2
<1> QED BY <1>3, <1>4, <1>5, <1>6, <1>7, <1>8 DEF Snapshot

\* No request takes away a snapshot's bytes.
LEMMA RequestsKeep ==
  ASSUME Shape, Kept, NEW t \in Tabs,
         \/ \E c : Asks(t, c)
         \/ \E c : Moves(t, c)
         \/ GivesNames(t) \/ Saves(t) \/ Returns(t)
  PROVE  Kept'
<1>1. CASE UNCHANGED <<log, store, worker, late>>
  BY <1>1 DEF Kept, SnapshotsKept, current
<1>2. ASSUME NEW entry, NEW c, Appends(t, entry, c) PROVE Kept'
  <2>1. /\ current \in Nat /\ current' = current + 1
        /\ (\A v \in 1..current : log'[v] = log[v]) /\ log'[current + 1] = entry
        /\ ~entry.snapshot /\ UNCHANGED <<store, worker, late>>
    BY <1>2, VersionsExist, LogAppended DEF Appends, snapshots, runs
  <2>2. \A w \in Workers : HasRead(worker[w]) => worker[w].version \in 1..current
    BY DEF Shape, RunOK
  <2>3. \A v \in 1..current' : v \in 1..current \/ v = current + 1
    BY <2>1
  <2>4. SnapshotsKept'
    BY <2>1, <2>3 DEF Kept, SnapshotsKept
  <2> QED BY <2>1, <2>2, <2>4 DEF Kept
<1>3. \/ \E c : Asks(t, c)
      \/ \E c : Moves(t, c)
      \/ GivesNames(t)
      => UNCHANGED <<log, store, worker, late>>
  BY DEF Asks, Moves, Aside, GivesNames, document, snapshots, runs
<1> QED BY <1>1, <1>2, <1>3 DEF Saves, Returns

\* A run that has its row writes the link after the bytes, and there is no other such run; what
\* the others write or take away is of versions that are late.
LEMMA RunsKeep ==
  ASSUME Shape, Alone, Kept, NEW w \in Workers, Snapshot(w)
  PROVE  Kept'
<1> DEFINE at == worker[w].version
<1>0. /\ current \in Nat \ {0} /\ worker \in [Workers -> Run] /\ log \in Seq(VersionRow)
      /\ store \in [Versions -> Docs \cup {Gone}] /\ worker[w] \in Run
      /\ \A v \in 1..current : log[v] \in VersionRow /\ v \in Versions
      /\ HasRead(worker[w]) => at \in 1..current /\ worker[w].body # Gone
  BY VersionsExist DEF Shape, Types, RunOK
<1>1. ASSUME NEW u \in Workers, u # w, worker[w].row # {} PROVE worker[u].row = {}
  <2>1. /\ worker[u].row \in SUBSET Slots /\ worker[w].row \in SUBSET Slots
        /\ \A a, b \in Slots : Running(a) /\ Running(b) => a = b
    BY <1>0 DEF Run, Alone, Active, Running
  <2> QED BY <1>1, <2>1 DEF Alone
<1>2. ASSUME UNCHANGED <<log, store, late>>, NEW r, ~HasRead(r), worker' = [worker EXCEPT ![w] = r]
      PROVE  Kept'
  <2>1. ~HasRead(worker'[w]) /\ \A u \in Workers : u # w => worker'[u] = worker[u]
    BY <1>0, <1>2
  <2> QED BY <1>2, <2>1 DEF Kept, SnapshotsKept, current
<1>3. CASE SnapshotStarts(w)
  <2>1. PICK s \in Slots : worker' = [worker EXCEPT ![w] = [NoRun EXCEPT !.pc = "started", !.row = {s}]]
    BY <1>3 DEF SnapshotStarts
  <2>2. ~HasRead([NoRun EXCEPT !.pc = "started", !.row = {s}])
    BY DEF HasRead, NoRun
  <2>3. UNCHANGED <<log, store, late>>
    BY <1>3 DEF SnapshotStarts, document
  <2> QED BY <1>2, <2>1, <2>2, <2>3
<1>4. CASE SnapshotReads(w)
  <2>0. UNCHANGED <<log, store>>
    BY <1>4 DEF SnapshotReads, document
  <2>1. CASE log[current].snapshot
    <3> DEFINE r == [NoRun EXCEPT !.pc = "returned", !.row = worker[w].row]
    <3>1. ~HasRead(r)
      BY DEF HasRead, NoRun
    <3>2. UNCHANGED late /\ worker' = [worker EXCEPT ![w] = r]
      BY <1>4, <2>1 DEF SnapshotReads, Return
    <3> HIDE DEF r
    <3> QED BY <1>2, <2>0, <3>1, <3>2
  <2>2. CASE ~log[current].snapshot
    <3> DEFINE r == [worker[w] EXCEPT !.pc = "read", !.version = current, !.body = live]
    <3>1. r.pc = "read" /\ r.version = current /\ r.row = worker[w].row
      BY <1>0 DEF Run
    <3>2. worker' = [worker EXCEPT ![w] = r]
      BY <1>4, <2>2 DEF SnapshotReads
    <3> HIDE DEF r
    <3>3. worker'[w] = r /\ \A u \in Workers : u # w => worker'[u] = worker[u]
      BY <1>0, <3>2
    <3>4. late \subseteq late' /\ (worker[w].row = {} => current \in late')
      BY <1>4, <2>2 DEF SnapshotReads
    <3> QED BY <2>0, <2>2, <3>1, <3>3, <3>4 DEF Kept, SnapshotsKept, current
  <2> QED BY <2>1, <2>2
<1>5. CASE SnapshotPuts(w)
  <2> DEFINE r == [worker[w] EXCEPT !.pc = "put"]
  <2>1. /\ UNCHANGED <<log, late>> /\ HasRead(worker[w])
        /\ store' = [store EXCEPT ![at] = worker[w].body]
        /\ worker' = [worker EXCEPT ![w] = r]
    BY <1>5 DEF SnapshotPuts, document, Body, HasRead
  <2>2. r.version = at /\ r.row = worker[w].row
    BY <1>0 DEF Run
  <2> HIDE DEF r
  <2>3. worker'[w] = r /\ \A u \in Workers : u # w => worker'[u] = worker[u]
    BY <1>0, <2>1
  <2>4. store'[at] # Gone /\ \A v \in Versions : v # at => store'[v] = store[v]
    BY <1>0, <2>1
  <2>5. \A u \in Workers : HasRead(worker[u]) => worker[u].version \in Versions
    BY <1>0 DEF Shape, RunOK
  <2>6. \A v \in Versions : store'[v] = Gone => store[v] = Gone
    BY <2>4
  <2> QED BY <1>0, <2>1, <2>2, <2>3, <2>4, <2>5, <2>6 DEF Kept, SnapshotsKept, current
<1>6. CASE SnapshotClaims(w)
  <2> DEFINE r == [NoRun EXCEPT !.pc = "returned", !.row = worker[w].row]
  <2>1. /\ UNCHANGED late /\ worker[w].pc = "put" /\ HasRead(worker[w])
        /\ worker' = [worker EXCEPT ![w] = r]
        /\ \/ log[at].snapshot /\ store' = [store EXCEPT ![at] = Gone] /\ UNCHANGED log
           \/ log' = [log EXCEPT ![at].snapshot = TRUE] /\ UNCHANGED store
    BY <1>6 DEF SnapshotClaims, Claimed, Return, HasRead
  <2>2. ~HasRead(r)
    BY DEF HasRead, NoRun
  <2> HIDE DEF r
  <2>3. worker'[w] = r /\ \A u \in Workers : u # w => worker'[u] = worker[u]
    BY <1>0, <2>1
  <2>4. /\ current' = current
        /\ \A v \in 1..current : v # at => log'[v] = log[v] /\ store'[v] = store[v]
    BY <1>0, <2>1 DEF current
  <2>5. at \notin late => store'[at] # Gone /\ worker[w].row # {}
    BY <1>0, <2>1 DEF Kept
  <2>6. \A u \in Workers : HasRead(worker[u]) => worker[u].version \in 1..current
    BY <1>0 DEF Shape, RunOK
  <2>7. SnapshotsKept'
    BY <1>0, <2>1, <2>4, <2>5 DEF Kept, SnapshotsKept
  <2>8. ASSUME NEW u \in Workers, HasRead(worker'[u]), worker'[u].version \notin late'
        PROVE  /\ worker'[u].row # {} /\ ~log'[worker'[u].version].snapshot
               /\ worker'[u].pc = "put" => store'[worker'[u].version] # Gone
    <3>1. u # w /\ worker'[u] = worker[u] /\ worker[u].version \in 1..current
      BY <2>2, <2>3, <2>6, <2>8
    <3>2. worker[u].row # {}
      BY <2>1, <2>8, <3>1 DEF Kept
    <3>3. worker[u].version # at
      BY <1>1, <2>1, <2>5, <2>8, <3>1, <3>2
    <3> QED BY <2>1, <2>4, <2>8, <3>1, <3>3 DEF Kept
  <2> QED BY <2>7, <2>8 DEF Kept
<1>7. CASE SnapshotReturns(w) \/ SnapshotThrows(w)
  <2>1. UNCHANGED <<log, store, late>> /\ worker' = [worker EXCEPT ![w] = NoRun] /\ ~HasRead(NoRun)
    BY <1>7 DEF SnapshotReturns, SnapshotThrows, Ends, document, HasRead, NoRun
  <2> QED BY <1>2, <2>1
<1>8. CASE SnapshotTimesOut(w)
  <2> DEFINE r == [worker[w] EXCEPT !.row = {}]
  <2>1. UNCHANGED <<log, store>> /\ worker' = [worker EXCEPT ![w] = r]
    BY <1>8 DEF SnapshotTimesOut, document
  <2>2. r.pc = worker[w].pc /\ r.version = at
    BY <1>0 DEF Run
  <2> HIDE DEF r
  <2>3. worker'[w] = r /\ \A u \in Workers : u # w => worker'[u] = worker[u]
    BY <1>0, <2>1
  <2>4. late \subseteq late' /\ (HasRead(worker[w]) => at \in late')
    BY <1>8 DEF SnapshotTimesOut, HasRead
  <2> QED BY <2>1, <2>2, <2>3, <2>4 DEF Kept, SnapshotsKept, HasRead, current
<1> QED BY <1>3, <1>4, <1>5, <1>6, <1>7, <1>8 DEF Snapshot

\* However many snapshot jobs are asked for, throw, die, time out and are run again, the snapshot
\* a version is linked to is in storage, unless a timed-out run had read that version.
THEOREM SnapshotsKeptHolds == Spec => []SnapshotsKept
<1>1. Init => Alone /\ Kept
  <2> SUFFICES ASSUME Init PROVE Alone /\ Kept
    OBVIOUS
  <2>1. \A w \in Workers : worker[w] = NoRun
    BY DEF Init
  <2>2. \A a, b \in Slots : Active(a) /\ Active(b) => a = b
    BY DEF Init, Active, NoJob
  <2>3. SnapshotsKept
    BY DEF Init, SnapshotsKept, current, Entry
  <2> QED BY <2>1, <2>2, <2>3 DEF Alone, Kept, NoRun, HasRead
<1>2. Shape /\ Alone /\ Kept /\ [Next]_vars => (Alone /\ Kept)'
  <2> SUFFICES ASSUME Shape, Alone, Kept, [Next]_vars PROVE (Alone /\ Kept)'
    OBVIOUS
  <2>1. ASSUME UNCHANGED vars PROVE (Alone /\ Kept)'
    BY <2>1 DEF vars, Alone, Active, Running, Kept, SnapshotsKept, current
  <2> QED BY <2>1, StepIs, RequestsAlone, RunsAlone, RequestsKeep, RunsKeep
<1>3. Kept => SnapshotsKept
  BY DEF Kept
<1> QED BY <1>1, <1>2, <1>3, InitShape, NextShape, PTL DEF Spec

-------------------------------------------------------------------------------
(* What a person is told of a save.                                        *)

\* What the actions answer a conflict to.
LEMMA ConflictAnswered ==
  ASSUME Shape, NEW u \in Tabs, Next, client'[u].answer = "conflict", client[u].pc # "idle",
         client[u].pc # "bumping"
  PROVE  \/ client[u].pc \in {"restoring", "restores", "naming"}
         \/ client[u].pc = "conflicted" /\ ~Saved(client[u].batch)
<1>1. /\ client \in [Tabs -> Request] /\ \A t \in Tabs : client[t] \in Request
      /\ client[u].answer = "none"
  BY DEF Shape, Types, RequestOK
<1>2. client' # client
  BY <1>1
<1>3. ASSUME NEW t \in Tabs, NEW a, Answer(t, a), a # "conflict" PROVE FALSE
  BY <1>1, <1>3 DEF Answer, NoRequest
<1>4. ASSUME NEW t \in Tabs, NEW p, Goto(t, p) PROVE FALSE
  BY <1>1, <1>4 DEF Goto, Request
<1>5. ASSUME NEW t \in Tabs, NEW a, Answer(t, a) PROVE t = u
  BY <1>1, <1>5 DEF Answer
<1>6. ASSUME NEW t \in Tabs, Compose(t) \/ Resend(t) \/ ComposeRestore(t) PROVE FALSE
  <2>1. client[t].pc = "idle" /\ \A v \in Tabs \ {t} : client'[v] = client[v]
    BY <1>1, <1>6 DEF Compose, Resend, ComposeRestore
  <2> QED BY <1>1, <2>1
<1>7. ASSUME NEW t \in Tabs, SaveReads(t) \/ SaveLoses(t) PROVE FALSE
  <2>1. CASE SaveReads(t)
    BY <1>1, <2>1 DEF SaveReads, Request
  <2>2. CASE SaveLoses(t) /\ client[t].tries < Retries
    BY <1>1, <2>2 DEF SaveLoses, Request
  <2>3. CASE SaveLoses(t) /\ ~(client[t].tries < Retries)
    BY <1>5, <2>3 DEF SaveLoses
  <2> QED BY <1>7, <2>1, <2>2, <2>3
<1>8. ASSUME NEW t \in Tabs, Edit(t)
      PROVE  client[u].pc = "naming" \/ (client[u].pc = "conflicted" /\ ~Saved(client[u].batch))
  <2>1. CASE Accept(t) \/ Route(t) \/ SaveCommits(t) \/ SaveInvalid(t) \/ SaveConflicts(t)
             \/ SaveRetries(t) \/ AfterCommit(t)
    BY <1>3, <1>4, <2>1
       DEF Accept, Route, SaveCommits, SaveInvalid, SaveConflicts, SaveRetries, AfterCommit
  <2>2. CASE Identify(t)
    <3>1. client[t].pc = "naming" /\ (Answer(t, "conflict") \/ Answer(t, "named"))
      BY <2>2 DEF Identify
    <3> QED BY <1>5, <3>1
  <2>3. CASE Conflicted(t)
    <3>1. client[t].pc = "conflicted" /\ \E a : Answer(t, a)
      BY <2>3 DEF Conflicted
    <3>2. t = u
      BY <1>5, <3>1
    <3>3. ASSUME Saved(client[u].batch) PROVE FALSE
      <4>1. Answer(t, "replayed")
        BY <2>3, <3>2, <3>3 DEF Conflicted
      <4> QED BY <1>3, <4>1
    <3> QED BY <3>1, <3>2, <3>3
  <2> QED BY <1>7, <1>8, <2>1, <2>2, <2>3 DEF Edit
<1>9. ASSUME NEW t \in Tabs, Restore(t) PROVE client[u].pc \in {"restoring", "restores"}
  <2>1. CASE RestoreChecks(t)
    <3>1. client[t].pc = "restoring" /\ (Answer(t, "conflict") \/ Goto(t, "materializing"))
      BY <2>1 DEF RestoreChecks
    <3> QED BY <1>4, <1>5, <3>1
  <2>2. CASE RestoreMaterializes(t)
    <3>1. CASE Answer(t, "unavailable")
      BY <1>3, <3>1
    <3>2. ASSUME NEW doc, client' = [client EXCEPT ![t].pc = "restores", ![t].target = doc] PROVE FALSE
      BY <1>1, <3>2 DEF Request
    <3> QED BY <2>2, <3>1, <3>2 DEF RestoreMaterializes
  <2>3. CASE RestoreCommits(t)
    <3>1. client[t].pc = "restores" /\ (Answer(t, "conflict") \/ Goto(t, "restored"))
      BY <2>3 DEF RestoreCommits
    <3> QED BY <1>4, <1>5, <3>1
  <2>4. CASE RestoreQueues(t)
    BY <1>3, <2>4 DEF RestoreQueues
  <2> QED BY <1>9, <2>1, <2>2, <2>3, <2>4 DEF Restore
<1>10. ASSUME NEW t \in Tabs, QueueThrows(t) PROVE FALSE
  BY <1>3, <1>10 DEF QueueThrows
<1>11. ASSUME NEW w \in Workers, Snapshot(w) PROVE FALSE
  BY <1>2, <1>11, SnapshotRuns DEF RunStep
<1> QED BY <1>6, <1>8, <1>9, <1>10, <1>11 DEF Next

\* Whoever is told that a correction of lines or a merge conflicts has not saved it, unless it
\* lost its last race.
THEOREM ConflictMeansUnsavedHolds == Spec => ConflictMeansUnsaved
<1> DEFINE Unsaved ==
             \A t \in Tabs :
               /\ \E i \in DOMAIN client[t].ops : client[t].ops[i].op # "speaker.rename"
               /\ client[t].pc \notin {"idle", "bumping"} /\ client'[t].answer = "conflict"
               => ~Saved(client[t].batch)
<1>1. Shape /\ Next => Unsaved
  <2> SUFFICES ASSUME Shape, Next, NEW t \in Tabs,
                      NEW i \in DOMAIN client[t].ops, client[t].ops[i].op # "speaker.rename",
                      client[t].pc \notin {"idle", "bumping"}, client'[t].answer = "conflict"
               PROVE  ~Saved(client[t].batch)
    OBVIOUS
  <2>1. client[t] \in Request /\ RequestOK(client[t], current)
    BY DEF Shape, Types
  <2>2. i \in 1..Len(client[t].ops) /\ client[t].ops # <<>>
    BY <2>1 DEF Request, Ops
  <2>3. client[t].pc \notin {"restoring", "restores", "naming"}
    BY <2>1, <2>2 DEF RequestOK, RestorePcs
  <2> QED BY <2>3, ConflictAnswered
<1>2. Shape /\ [Next]_vars => [Unsaved]_vars
  BY <1>1
<1> QED BY <1>2, InitShape, NextShape, PTL DEF Spec, ConflictMeansUnsaved

-------------------------------------------------------------------------------
(* What the author of a save saw.                                          *)

\* A save names, of a line, what the version in front of its author says of it.
Seen(c) ==
  c.pc # "idle" /\ c.ops # <<>> =>
    /\ Len(c.ops) \in 1..2 /\ (Len(c.ops) = 2 => c.ops[2].op = "speaker.rename")
    /\ c.ops[1].id \in Segments =>
         /\ c.sight[1] = log[c.version].said[c.ops[1].id]
         /\ c.sight[1] # Gone /\ c.sight[1].rev = c.ops[1].rev

Sights == \A t \in Tabs : Seen(client[t])

\* What an open request has seen is not changed by what replaces one request.
LEMMA SightsOn ==
  ASSUME Shape, Sights, NEW t \in Tabs, NEW c, client' = [client EXCEPT ![t] = c],
         \/ c.pc = "idle" \/ c.ops = <<>>
         \/ \E u \in Tabs : /\ client[u].pc # "idle" /\ c.ops = client[u].ops
                            /\ c.version = client[u].version /\ c.sight = client[u].sight,
         \A v \in 1..current : log'[v].said = log[v].said
  PROVE  Sights'
<1>1. ASSUME NEW u \in Tabs, client[u].pc # "idle"
      PROVE  log'[client[u].version].said = log[client[u].version].said
  BY <1>1 DEF Shape, RequestOK
<1>2. ASSUME NEW u \in Tabs, client'[u].pc # "idle", client'[u].ops # <<>>
      PROVE  \E s \in Tabs : /\ client[s].pc # "idle" /\ client'[u].ops = client[s].ops
                             /\ client'[u].version = client[s].version
                             /\ client'[u].sight = client[s].sight
  BY <1>2, Others
<1>3. ASSUME NEW u \in Tabs PROVE Seen(client[u])'
  <2>1. CASE client'[u].pc # "idle" /\ client'[u].ops # <<>>
    <3>1. PICK s \in Tabs : /\ client[s].pc # "idle" /\ client'[u].ops = client[s].ops
                            /\ client'[u].version = client[s].version
                            /\ client'[u].sight = client[s].sight
      BY <1>2, <2>1
    <3>2. Seen(client[s]) /\ log'[client[s].version].said = log[client[s].version].said
      BY <1>1, <3>1 DEF Sights
    <3> QED BY <2>1, <3>1, <3>2 DEF Seen
  <2>2. CASE ~(client'[u].pc # "idle" /\ client'[u].ops # <<>>)
    BY <2>2 DEF Seen
  <2> QED BY <2>1, <2>2
<1> QED BY <1>3 DEF Sights

\* The last version says what the lines are.
LEMMA SaidIsLive ==
  ASSUME Shape, History
  PROVE  log[current].said = Lines(live)
<1>1. PICK docs : Told(docs)
  BY DEF History
<1>2. current \in 1..current
  BY VersionsExist
<1>3. Alike(live, docs[current]) /\ log[current].said = Lines(docs[current])
  BY <1>1, <1>2 DEF Told, Tells
<1>4. Lines(docs[current]) = Lines(live)
  <2>1. \A s \in Segments : docs[current][s] = live[s]
    BY <1>3 DEF Alike
  <2> QED BY <2>1 DEF Lines
<1> QED BY <1>3, <1>4

\* A new request has seen the version it is made from.
LEMMA AsksSights ==
  ASSUME Shape, History, Sights, NEW t \in Tabs, NEW c, Asks(t, c)
  PROVE  Sights'
<1>1. client' = [client EXCEPT ![t] = c] /\ UNCHANGED log
  BY DEF Asks, document
<1>2. CASE Composed(c.ops) /\ c.version = current /\ c.sight = [i \in DOMAIN c.ops |-> live[c.ops[i].id]]
  <2> DEFINE op == c.ops[1]
  <2>1. op \in Op(Texts) /\ 1 \in DOMAIN c.ops /\ Len(c.ops) \in 1..2
          /\ (Len(c.ops) = 2 => c.ops[2].op = "speaker.rename") /\ Fresh(op)
    BY <1>2 DEF Composed, Ops
  <2>2. c.sight[1] = live[op.id]
    BY <1>2, <2>1
  <2>3. op.id \in Segments => log[current].said[op.id] = live[op.id]
    BY SaidIsLive DEF Lines
  <2>4. op.id \in Segments => op.op # "speaker.merge"
    BY <2>1, OpsAssumption DEF Op
  <2>5. Seen(c)
    BY <1>2, <2>1, <2>2, <2>3, <2>4 DEF Seen, Fresh
  <2>6. ASSUME NEW u \in Tabs PROVE Seen(client[u])'
    <3>1. Seen(client'[u])
      BY <1>1, <2>5, Others DEF Sights
    <3> QED BY <1>1, <3>1 DEF Seen
  <2> QED BY <2>6 DEF Sights
<1>3. CASE \/ c.ops = <<>>
           \/ \E sent \in Tabs : /\ client[sent].pc # "idle" /\ c.ops = client[sent].ops
                                 /\ c.version = client[sent].version /\ c.sight = client[sent].sight
  BY <1>1, <1>3, SightsOn
<1> QED BY <1>2, <1>3 DEF Asks

\* At first no request is open.
LEMMA InitSights == Init => Sights
BY DEF Init, NoRequest, Sights, Seen

\* Every step leaves open requests what they have seen.
LEMMA NextSights == Shape /\ History /\ Sights /\ [Next]_vars => Sights'
<1> SUFFICES ASSUME Shape, History, Sights, [Next]_vars PROVE Sights'
  OBVIOUS
<1>1. ASSUME NEW t \in Tabs, NEW c, Moves(t, c) PROVE Sights'
  BY <1>1, SightsOn DEF Moves, Aside, document
<1>2. ASSUME NEW t \in Tabs, GivesNames(t) PROVE Sights'
  <2> DEFINE c == [NoRequest EXCEPT !.answer = "named"]
  <2>1. client' = [client EXCEPT ![t] = c] /\ c.pc = "idle" /\ UNCHANGED log
    BY <1>2 DEF GivesNames, Answer, NoRequest
  <2> QED BY <1>2, <2>1, SightsOn
<1>3. ASSUME NEW t \in Tabs, NEW entry, NEW c, Appends(t, entry, c) PROVE Sights'
  <2>1. /\ client' = [client EXCEPT ![t] = c] /\ client[t].pc # "idle"
        /\ c.ops = client[t].ops /\ c.version = client[t].version /\ c.sight = client[t].sight
    BY <1>3 DEF Appends, Open, EditPcs, RestorePcs
  <2>2. \A v \in 1..current : log'[v].said = log[v].said
    BY <1>3, LogAppended DEF Appends
  <2> QED BY <2>1, <2>2, SightsOn
<1>4. ASSUME NEW w \in Workers, Snapshot(w) PROVE Sights'
  <2>1. PICK r : RunStep(w, r)
    BY <1>4, SnapshotRuns
  <2>2. UNCHANGED client /\ \A v \in 1..current : log'[v].said = log[v].said
    BY <2>1, RunsLog DEF RunStep
  <2>3. ASSUME NEW u \in Tabs PROVE Seen(client[u])'
    <3>1. Seen(client[u]) /\ (client[u].pc # "idle" => client[u].version \in 1..current)
      BY DEF Sights, Shape, RequestOK
    <3> QED BY <2>2, <3>1 DEF Seen
  <2> QED BY <2>3 DEF Sights
<1>5. ASSUME UNCHANGED vars PROVE Sights'
  BY <1>5 DEF vars, Sights, Seen
<1> QED BY <1>1, <1>2, <1>3, <1>4, <1>5, StepIs, AsksSights DEF Saves, Returns

-------------------------------------------------------------------------------
(* What becomes of a line from version to version.                         *)

\* What a version says of a line is a line, or that it is gone.
LEMMA SaidTyped ==
  ASSUME Shape, NEW v \in 1..current, NEW s \in Segments
  PROVE  IsLine(log[v].said[s])
<1>1. log[v].said[s] \in LineRow(Texts) \cup {Gone}
  BY VersionsExist DEF VersionRow
<1> QED BY <1>1, LineIsLine

\* An edit says of each line what the version before says, or something later.
LEMMA NextSaid ==
  ASSUME Shape, History, NEW v \in 1..current, v # 1, log[v].kind # "restore", NEW s \in Segments
  PROVE  Later(log[v - 1].said[s], log[v].said[s])
<1>1. PICK docs : Told(docs)
  BY DEF History
<1>2. v - 1 \in 1..current /\ current \in Nat /\ log[v] \in VersionRow
  BY VersionsExist
<1>3. log[v].kind = "edit" /\ Tells(log[v], docs, v) /\ Tells(log[v - 1], docs, v - 1)
  BY <1>1, <1>2 DEF Told, Tells, VersionRow
<1> DEFINE after == ApplyOps(docs[v - 1], log[v].ops)
<1>4. Alike(after.doc, docs[v])
  BY <1>3 DEF Tells
<1>5. Later(docs[v - 1][s], after.doc[s])
  <2>1. docs[v - 1] \in Document(Texts) /\ log[v].ops \in Seq(Op(Texts))
    BY <1>1, <1>2 DEF Told, Docs, VersionRow, Ops
  <2> QED BY <2>1, TextsAreNumbers, ApplyOpsLater
<1> HIDE DEF after
<1>6. log[v - 1].said[s] = docs[v - 1][s] /\ log[v].said[s] = docs[v][s] /\ after.doc[s] = docs[v][s]
  BY <1>3, <1>4 DEF Tells, Lines, Alike
<1> QED BY <1>5, <1>6

\* Short of a restore a line never goes back to what it was.
LEMMA SaidOnward ==
  ASSUME Shape, History, NEW v \in 1..current, ~RestoredSince(v), NEW s \in Segments
  PROVE  Later(log[v].said[s], log[current].said[s])
<1> DEFINE n == current - v
           S == {i \in 0..n : Later(log[v].said[s], log[v + i].said[s])}
<1>0. current \in Nat /\ n \in Nat /\ v \in Nat /\ v + 0 = v /\ v + n = current
  BY VersionsExist
<1>1. 0 \in S
  BY <1>0 DEF Later
<1>2. ASSUME NEW i \in 0..n, i \in S, i < n PROVE i + 1 \in S
  <2>1. /\ i + 1 \in 0..n /\ v + i \in 1..current /\ v + (i + 1) \in 1..current
        /\ v + (i + 1) \in (v + 1)..current /\ v + (i + 1) # 1 /\ (v + (i + 1)) - 1 = v + i
    BY <1>0, <1>2
  <2>2. Later(log[v + i].said[s], log[v + (i + 1)].said[s])
    <3>1. log[v + (i + 1)].kind # "restore"
      BY <2>1 DEF RestoredSince
    <3>2. Later(log[(v + (i + 1)) - 1].said[s], log[v + (i + 1)].said[s])
      BY <2>1, <3>1, NextSaid
    <3> QED BY <2>1, <3>2
  <2>3. IsLine(log[v].said[s]) /\ IsLine(log[v + i].said[s]) /\ IsLine(log[v + (i + 1)].said[s])
    BY <2>1, SaidTyped
  <2> QED BY <1>2, <2>1, <2>2, <2>3, LaterOnward
<1> HIDE DEF S
<1>3. \A i \in 0..n : i \in S
  <2> HIDE DEF n
  <2> QED BY <1>0, <1>1, <1>2, UpTo, Zenon
<1>4. n \in 0..n
  BY <1>0
<1>5. Later(log[v].said[s], log[v + n].said[s])
  BY <1>3, <1>4 DEF S
<1> QED BY <1>0, <1>5

\* A commit is of a save.
LEMMA CommitSaves ==
  ASSUME Shape, [Next]_vars, NEW t \in Tabs, Commits(t)
  PROVE  ~ApplyOps(live, client[t].ops).conflict
<1>1. client[t].pc = "bumping" /\ client'[t].pc = "saved" /\ client \in [Tabs -> Request]
  BY DEF Commits, Shape, Types
<1>2. ASSUME NEW u \in Tabs, NEW c, Asks(u, c) PROVE FALSE
  BY <1>1, <1>2, Others DEF Asks
<1>3. ASSUME NEW u \in Tabs, SaveCommits(u) PROVE ~ApplyOps(live, client[t].ops).conflict
  <2>1. CASE u = t
    BY <1>3, <2>1 DEF SaveCommits
  <2>2. CASE u # t
    BY <1>1, <1>3, <2>2 DEF SaveCommits, Goto
  <2> QED BY <2>1, <2>2
<1>4. ASSUME NEW u \in Tabs, NEW p, Goto(u, p), p # "saved" PROVE FALSE
  BY <1>1, <1>4 DEF Goto, Request
<1>5. ASSUME NEW u \in Tabs, NEW a, Answer(u, a) PROVE FALSE
  BY <1>1, <1>5 DEF Answer, NoRequest
<1>6. ASSUME NEW u \in Tabs, Compose(u) \/ Resend(u) \/ ComposeRestore(u) PROVE FALSE
  BY <1>2, <1>6, RequestsAsk
<1>7. ASSUME NEW u \in Tabs, Edit(u) PROVE ~ApplyOps(live, client[t].ops).conflict
  <2>1. CASE Accept(u) \/ Route(u) \/ SaveInvalid(u) \/ SaveConflicts(u) \/ SaveRetries(u)
             \/ Conflicted(u) \/ AfterCommit(u)
    <3>1. (\E a : Answer(u, a)) \/ (\E p : p # "saved" /\ Goto(u, p))
      BY <2>1 DEF Accept, Route, SaveInvalid, SaveConflicts, SaveRetries, Conflicted, AfterCommit
    <3> QED BY <1>4, <1>5, <3>1
  <2>2. CASE Identify(u)
    <3>1. \E a : Answer(u, a)
      BY <2>2 DEF Identify
    <3> QED BY <1>5, <3>1
  <2>3. CASE SaveReads(u)
    BY <1>1, <2>3 DEF SaveReads, Request
  <2>4. CASE SaveLoses(u)
    <3>1. CASE Answer(u, "conflict")
      BY <1>5, <3>1
    <3>2. CASE client' = [client EXCEPT ![u].pc = "raced", ![u].tries = @ + 1]
      BY <1>1, <3>2 DEF Request
    <3> QED BY <2>4, <3>1, <3>2 DEF SaveLoses
  <2> QED BY <1>3, <1>7, <2>1, <2>2, <2>3, <2>4 DEF Edit
<1>8. ASSUME NEW u \in Tabs, Restore(u) PROVE FALSE
  <2>1. CASE RestoreMaterializes(u)
    <3>1. CASE Answer(u, "unavailable")
      BY <1>5, <3>1
    <3>2. ASSUME NEW doc, client' = [client EXCEPT ![u].pc = "restores", ![u].target = doc] PROVE FALSE
      BY <1>1, <3>2 DEF Request
    <3> QED BY <2>1, <3>1, <3>2 DEF RestoreMaterializes
  <2>2. CASE RestoreChecks(u) \/ RestoreCommits(u) \/ RestoreQueues(u)
    <3>1. (\E a : Answer(u, a)) \/ (\E p : p # "saved" /\ Goto(u, p))
      BY <2>2 DEF RestoreChecks, RestoreCommits, RestoreQueues
    <3> QED BY <1>4, <1>5, <3>1
  <2> QED BY <1>8, <2>1, <2>2 DEF Restore
<1>9. ASSUME NEW u \in Tabs, QueueThrows(u) PROVE FALSE
  BY <1>5, <1>9 DEF QueueThrows
<1>10. ASSUME NEW w \in Workers, Snapshot(w) PROVE FALSE
  BY <1>1, <1>10, SnapshotRuns DEF RunStep
<1>11. ASSUME UNCHANGED vars PROVE FALSE
  BY <1>1, <1>11 DEF vars
<1> QED BY <1>6, <1>7, <1>8, <1>9, <1>10, <1>11 DEF Next

\* A save overwrites no line its author has not seen, unless a restore has set the revs of its
\* lines back in between.
THEOREM NoBlindLinesHolds == Spec => NoBlindLines
<1> DEFINE Sighted ==
             \A t \in Tabs :
               Commits(t) /\ ~RestoredSince(client[t].version) =>
                 \A i \in DOMAIN client[t].ops :
                   LET op == client[t].ops[i]
                   IN  op.id \in Segments => live[op.id] = client[t].sight[i]
<1>1. Shape /\ History /\ Sights /\ [Next]_vars => Sighted
  <2> SUFFICES ASSUME Shape, History, Sights, [Next]_vars, NEW t \in Tabs, Commits(t),
                      ~RestoredSince(client[t].version), NEW i \in DOMAIN client[t].ops,
                      client[t].ops[i].id \in Segments
               PROVE  live[client[t].ops[i].id] = client[t].sight[i]
    OBVIOUS
  <2> DEFINE ops == client[t].ops
             s   == ops[i].id
             row == client[t].sight[1]
  <2>1. /\ client[t] \in Request /\ RequestOK(client[t], current) /\ client[t].pc = "bumping"
        /\ live \in Document(Texts) /\ ops \in Seq(Op(Texts)) /\ i \in 1..Len(ops)
    BY DEF Shape, Types, Commits, Docs, Request, Ops
  <2>2. ops # <<>> /\ client[t].version \in 1..current
    BY <2>1 DEF RequestOK, EditPcs
  <2>3. Seen(client[t])
    BY DEF Sights
  <2>4. i = 1
    <3>1. CASE i = 2
      <4>1. ops[2].op = "speaker.rename" /\ ops[2] \in Op(Texts)
        BY <2>1, <2>2, <2>3, <3>1 DEF Seen
      <4> QED BY <3>1, <4>1, OpsAssumption DEF Op
    <3> QED BY <2>1, <2>2, <2>3, <3>1 DEF Seen
  <2>5. row = log[client[t].version].said[s] /\ row # Gone /\ row.rev = ops[1].rev
    BY <2>1, <2>2, <2>3, <2>4 DEF Seen
  <2>6. Later(row, live[s])
    <3>1. Later(row, log[current].said[s])
      BY <2>2, <2>5, SaidOnward
    <3> QED BY <3>1, SaidIsLive DEF Lines
  <2>7. live[s] # Gone /\ live[s].rev = ops[1].rev
    <3>1. ops[1].op # "speaker.merge"
      <4>1. ops[1] \in Op(Texts)
        BY <2>1, <2>4
      <4> QED BY <2>4, <4>1, OpsAssumption DEF Op
    <3>2. ~ApplyOps(live, ops).conflict
      BY CommitSaves
    <3> QED BY <2>1, <2>2, <2>4, <3>1, <3>2, TextsAreNumbers, FirstTakes
  <2>8. IsLine(live[s])
    <3>1. live[s] \in LineRow(Texts) \cup {Gone}
      BY <2>1 DEF Document
    <3> QED BY <3>1, LineIsLine
  <2>9. live[s] = row
    BY <2>5, <2>6, <2>7, <2>8 DEF Later, IsLine
  <2> QED BY <2>4, <2>9
<1>2. Shape /\ History /\ Sights /\ [Next]_vars => [Sighted]_vars
  BY <1>1
<1> QED BY <1>2, InitShape, NextShape, InitHistory, NextHistory, InitSights, NextSights, PTL
        DEF Spec, NoBlindLines

-------------------------------------------------------------------------------
(* What is on the menu.                                                    *)

\* Requests are those the menu has.
Offered ==
  /\ menu \in Menus
  /\ \A t \in Tabs :
       client[t].pc # "idle" =>
         /\ \A i \in 1..Len(client[t].ops) : Allowed(client[t].ops[i])
         /\ client[t].pc \in RestorePcs => "restore" \in menu

\* A request that is on the menu, or an open one that has moved on, leaves requests on the menu.
LEMMA OfferedOn ==
  ASSUME Shape, Offered, UNCHANGED menu, NEW t \in Tabs, NEW c, client' = [client EXCEPT ![t] = c],
         c.pc # "idle" => /\ \A i \in 1..Len(c.ops) : Allowed(c.ops[i])
                          /\ c.pc \in RestorePcs => "restore" \in menu
  PROVE  Offered'
<1>1. ASSUME NEW u \in Tabs, client'[u].pc # "idle"
      PROVE  /\ \A i \in 1..Len(client'[u].ops) : Allowed(client'[u].ops[i])
             /\ client'[u].pc \in RestorePcs => "restore" \in menu
  <2>1. CASE u = t
    BY <1>1, <2>1, Others
  <2>2. CASE u # t
    BY <1>1, <2>2, Others DEF Offered
  <2> QED BY <2>1, <2>2
<1>2. \A op : Allowed(op)' <=> Allowed(op)
  BY DEF Allowed
<1> QED BY <1>1, <1>2 DEF Offered

\* Of a restore only the way on is a restore's.
LEMMA OpenOffered ==
  ASSUME Shape, Offered, NEW t \in Tabs, client[t].pc # "idle", NEW c, RequestOK(c, current),
         c.pc # "idle" => c.ops = client[t].ops
  PROVE  c.pc # "idle" => /\ \A i \in 1..Len(c.ops) : Allowed(c.ops[i])
                          /\ c.pc \in RestorePcs => "restore" \in menu
<1> SUFFICES ASSUME c.pc # "idle"
             PROVE  /\ \A i \in 1..Len(c.ops) : Allowed(c.ops[i])
                    /\ c.pc \in RestorePcs => "restore" \in menu
  OBVIOUS
<1>1. client[t] \in Request /\ RequestOK(client[t], current)
  BY DEF Shape, Types
<1>2. c.pc \in RestorePcs => client[t].pc \in RestorePcs
  BY <1>1 DEF RequestOK, Request
<1> QED BY <1>2 DEF Offered

\* At first no request is open.
LEMMA InitOffered == Init => Offered
BY DEF Init, NoRequest, Offered

\* Every request made is on the menu, which nothing changes.
LEMMA NextOffered == Shape /\ Offered /\ [Next]_vars => Offered'
<1> SUFFICES ASSUME Shape, Offered, [Next]_vars PROVE Offered'
  OBVIOUS
<1>1. ASSUME NEW t \in Tabs, NEW c, Asks(t, c) PROVE Offered'
  <2>1. UNCHANGED menu /\ client' = [client EXCEPT ![t] = c] /\ c.pc \in {"accepted", "restoring"}
    BY <1>1 DEF Asks
  <2>2. c.pc \in RestorePcs => "restore" \in menu
    BY <1>1, <2>1 DEF Asks, RestorePcs
  <2>3. \A i \in 1..Len(c.ops) : Allowed(c.ops[i])
    BY <1>1 DEF Asks, Composed, Offered
  <2> QED BY <2>1, <2>2, <2>3, OfferedOn
<1>2. ASSUME NEW t \in Tabs, NEW c, Moves(t, c) PROVE Offered'
  BY <1>2, OpenOffered, OfferedOn DEF Moves, Aside
<1>3. ASSUME NEW t \in Tabs, GivesNames(t) PROVE Offered'
  <2> DEFINE c == [NoRequest EXCEPT !.answer = "named"]
  <2>1. client' = [client EXCEPT ![t] = c] /\ c.pc = "idle" /\ UNCHANGED menu
    BY <1>3 DEF GivesNames, Answer, NoRequest
  <2> QED BY <2>1, OfferedOn
<1>4. ASSUME NEW t \in Tabs, NEW entry, NEW c, Appends(t, entry, c) PROVE Offered'
  <2>1. client[t].pc # "idle"
    BY <1>4 DEF Appends, Open, EditPcs, RestorePcs
  <2> QED BY <1>4, <2>1, OpenOffered, OfferedOn DEF Appends
<1>5. ASSUME NEW w \in Workers, Snapshot(w) PROVE Offered'
  <2>1. UNCHANGED <<client, menu>>
    BY <1>5, SnapshotRuns DEF RunStep
  <2> QED BY <2>1 DEF Offered, Allowed
<1>6. ASSUME UNCHANGED vars PROVE Offered'
  BY <1>6 DEF vars, Offered, Allowed
<1> QED BY <1>1, <1>2, <1>3, <1>4, <1>5, <1>6, StepIs DEF Saves, Returns

-------------------------------------------------------------------------------
(* The names of today over the text of a version.                          *)

\* The name a speaker called n in some text has, these being the names kept beside the log.
Today(ids, n, s) == IF n = s /\ ids[s] # Gone THEN ids[s] ELSE n

\* The names in a text are these, but that a placeholder may stand for a name that was only kept
\* beside the log.
Shows(doc, name, ids) ==
  \A s \in Speakers :
    doc[s] # Gone => doc[s].name = name[s] \/ (doc[s].name = s /\ ids[s] = name[s])

\* What a version does to any text with the names of the one it is made from.
Calls(row, name, ids, v) ==
  /\ row.kind = "ai_original" => v = 1
  /\ row.kind = "edit" =>
       /\ v # 1
       /\ \A doc \in Docs :
            Shows(doc, name[v - 1], ids[v - 1]) /\ ~ApplyOps(doc, row.ops).conflict =>
              Shows(ApplyOps(doc, row.ops).doc, name[v], ids[v])
  /\ row.kind = "restore" =>
       /\ row.from \in 1..(v - 1)
       /\ \A doc \in Docs :
            Shows(doc, name[row.from], ids[row.from]) => Shows(doc, name[v], ids[v])

\* name[v] and ids[v] are the names of the speakers, and those kept beside the log, when version v
\* was the current one.
Naming(name, ids) ==
  /\ name \in [1..current -> [Speakers -> Names \cup Speakers]]
  /\ ids \in [1..current -> Given]
  /\ ids[current] = identities
  /\ \A s \in Speakers : live[s] # Gone => live[s].name = name[current][s]
  /\ \A v \in 1..current : Calls(log[v], name, ids, v)
  /\ \A v \in Versions : store[v] # Gone => v \in 1..current /\ Shows(store[v], name[v], ids[v])
  /\ \A w \in Workers :
       HasRead(worker[w]) =>
         Shows(worker[w].body, name[worker[w].version], ids[worker[w].version])
  /\ \A t \in Tabs :
       client[t].pc = "restores" =>
         \A s \in Speakers :
           client[t].target[s] # Gone =>
             Today(identities, client[t].target[s].name, s) = Today(identities, name[client[t].version][s], s)
  /\ "restore" \in menu =>
       \A v \in 1..current, s \in Speakers : ids[v][s] # Gone => identities[s] = ids[v][s]

\* Whoever has a name beside the log is not on the placeholder in the live tables.
Placed == \A s \in Speakers : identities[s] # Gone /\ live[s] # Gone => live[s].name # s

NamesKept == Placed /\ \E name, ids : Naming(name, ids)

\* No two names are kept that a restore could bring together wrongly.
Separate == \A m \in Menus : "merge_name" \notin m /\ ("unname" \notin m \/ "restore" \notin m)

\* What is called by the names of today keeps them.
LEMMA TodayTwice ==
  ASSUME Shape, NEW s \in Speakers, NEW n
  PROVE  /\ Today(identities, Today(identities, n, s), s) = Today(identities, n, s)
         /\ Today(identities, n, s) = s => identities[s] = Gone
         /\ n \in Names \cup Speakers => Today(identities, n, s) \in Names \cup Speakers
<1>1. identities[s] \in Names \cup {Gone} /\ s \notin Names /\ Gone # s
  BY OpsAssumption DEF Shape, Types, Given
<1> QED BY <1>1 DEF Today

\* The live tables show the names they have.
LEMMA LiveShows ==
  ASSUME NEW name, NEW ids, Naming(name, ids)
  PROVE  Shows(live, name[current], ids[current])
BY DEF Naming, Shows

\* One version of a replay shows the names of that version, if those before it do.
ShownAt(name, ids, v) == Raw[v].how = "found" => v # 0 /\ Shows(Raw[v].doc, name[v], ids[v])

\* The replay of one version shows its names.
LEMMA ShownNext ==
  ASSUME Shape, NEW name, NEW ids, Naming(name, ids), NEW v \in 0..current,
         \A u \in 0..(v - 1) : ShownAt(name, ids, u)
  PROVE  ShownAt(name, ids, v)
<1>0. /\ current \in Nat /\ Raw[v] = Rebuilt(Raw, v)
      /\ \A u \in 0..current : Raw[u] \in Outcome
  BY VersionsExist, RawIs
<1>1. CASE v = 0
  BY <1>0, <1>1 DEF Rebuilt, Missing, ShownAt
<1>2. CASE v # 0
  <2>0. /\ v \in 1..current /\ v > 0 /\ v - 1 \in 0..(v - 1) /\ v - 1 \in 0..current
        /\ log[v] \in VersionRow /\ v \in Versions
    BY <1>0, <1>2, VersionsExist
  <2>1. Calls(log[v], name, ids, v)
    BY <2>0 DEF Naming
  <2>2. CASE log[v].snapshot
    <3>1. CASE store[v] = Gone
      BY <1>0, <2>0, <2>2, <3>1 DEF Rebuilt, Missing, ShownAt
    <3>2. CASE store[v] # Gone
      <4>1. Shows(store[v], name[v], ids[v])
        BY <2>0, <3>2 DEF Naming
      <4> QED BY <1>0, <1>2, <2>0, <2>2, <3>2, <4>1 DEF Rebuilt, Found, ShownAt
    <3> QED BY <3>1, <3>2
  <2>3. CASE ~log[v].snapshot /\ log[v].kind = "restore"
    <3> DEFINE f == log[v].from
    <3>1. f \in 1..(v - 1) /\ f \in 0..(v - 1) /\ f \in 0..current
      BY <1>0, <2>0, <2>1, <2>3 DEF Calls
    <3>2. Raw[v] = Raw[f]
      BY <1>0, <2>0, <2>3 DEF Rebuilt
    <3>3. ShownAt(name, ids, f) /\ Raw[f] \in Outcome
      BY <1>0, <3>1
    <3>4. Raw[f].how = "found" => Raw[f].doc \in Docs
      BY <3>3 DEF Outcome
    <3>5. \A doc \in Docs : Shows(doc, name[f], ids[f]) => Shows(doc, name[v], ids[v])
      BY <2>1, <2>3 DEF Calls
    <3> HIDE DEF f
    <3> QED BY <1>2, <3>2, <3>3, <3>4, <3>5 DEF ShownAt
  <2>4. CASE ~log[v].snapshot /\ log[v].kind # "restore"
    <3>1. Raw[v] = Replay(Raw[v - 1], log[v].ops)
      BY <1>0, <1>2, <2>0, <2>4 DEF Rebuilt
    <3>2. ShownAt(name, ids, v - 1) /\ Raw[v - 1] \in Outcome
      BY <1>0, <2>0
    <3> SUFFICES ASSUME Raw[v].how = "found" PROVE Shows(Raw[v].doc, name[v], ids[v])
      BY <1>2 DEF ShownAt
    <3> DEFINE a == ApplyOps(Raw[v - 1].doc, log[v].ops)
    <3>3. Raw[v - 1].how = "found" /\ ~a.conflict /\ Raw[v].doc = a.doc
      BY <3>1 DEF Replay, Found, Missing
    <3>4. v - 1 # 0 /\ Shows(Raw[v - 1].doc, name[v - 1], ids[v - 1]) /\ Raw[v - 1].doc \in Docs
      BY <3>2, <3>3 DEF ShownAt, Outcome
    <3>5. log[v].kind = "edit"
      BY <1>0, <2>0, <2>1, <2>4, <3>4 DEF Calls, VersionRow
    <3>6. Shows(a.doc, name[v], ids[v])
      BY <2>1, <3>3, <3>4, <3>5 DEF Calls
    <3> QED BY <3>3, <3>6
  <2> QED BY <2>2, <2>3, <2>4, <2>0 DEF VersionRow
<1> QED BY <1>1, <1>2

\* A replay from the start shows the names of every version.
LEMMA RawShows ==
  ASSUME Shape, NEW name, NEW ids, Naming(name, ids)
  PROVE  \A v \in 0..current : ShownAt(name, ids, v)
<1> DEFINE S == {i \in 0..current : \A v \in 0..i : ShownAt(name, ids, v)}
<1>0. current \in Nat
  BY VersionsExist
<1>1. 0 \in S
  <2>1. ShownAt(name, ids, 0)
    BY <1>0, ShownNext
  <2> QED BY <1>0, <2>1
<1>2. ASSUME NEW i \in 0..current, i \in S, i < current PROVE i + 1 \in S
  <2>1. i + 1 \in 0..current /\ \A u \in 0..((i + 1) - 1) : ShownAt(name, ids, u)
    BY <1>0, <1>2
  <2>2. ShownAt(name, ids, i + 1)
    BY <2>1, ShownNext
  <2>3. \A v \in 0..(i + 1) : v \in 0..i \/ v = i + 1
    BY <1>0
  <2> QED BY <1>2, <2>1, <2>2, <2>3
<1> HIDE DEF S
<1>3. \A i \in 0..current : i \in S
  BY <1>0, <1>1, <1>2, UpTo, Zenon
<1> QED BY <1>0, <1>3 DEF S

\* So does the text of a version as it is shown, once the names are put over it.
LEMMA MaterializeShows ==
  ASSUME Shape, "restore" \in menu, NEW name, NEW ids, Naming(name, ids), NEW v \in 1..current,
         NEW doc, Materialize(v) = Found(doc), NEW s \in Speakers, doc[s] # Gone
  PROVE  Today(identities, doc[s].name, s) = Today(identities, name[v][s], s)
<1> DEFINE raw == IF v = current /\ Raw[v].how = "unreachable" THEN Found(live) ELSE Raw[v]
<1>1. v \in 0..current /\ ShownAt(name, ids, v) /\ Raw[v] \in Outcome
  BY VersionsExist, RawShows, RawIs
<1>2. raw \in Outcome /\ (raw.how = "found" => Shows(raw.doc, name[v], ids[v]))
  BY <1>1, LiveShows DEF Found, Outcome, Shape, Types, ShownAt
<1>3. Materialize(v) = IF raw.how = "found" THEN Found(ApplyIdentities(raw.doc, identities)) ELSE raw
  BY DEF Materialize
<1> HIDE DEF raw
<1>4. raw.how = "found"
  BY <1>3 DEF Found
<1>5. doc = ApplyIdentities(raw.doc, identities)
  BY <1>3, <1>4 DEF Found
<1>6. raw.doc \in Document(Texts) /\ identities \in Given /\ Shows(raw.doc, name[v], ids[v])
  BY <1>2, <1>4 DEF Outcome, Docs, Shape, Types
<1>7. raw.doc[s] # Gone
  BY <1>5, <1>6, TextsAreNumbers, NamesPut DEF Alike
<1>8. doc[s].name = Today(identities, raw.doc[s].name, s)
  BY <1>5, <1>6, <1>7, TextsAreNumbers, NamesPutName DEF Today
<1>9. Today(identities, raw.doc[s].name, s) = Today(identities, name[v][s], s)
  <2>1. CASE raw.doc[s].name = name[v][s]
    BY <2>1
  <2>2. CASE raw.doc[s].name = s /\ ids[v][s] = name[v][s]
    <3>1. name[v][s] \in Names \cup Speakers /\ name[v][s] # Gone
      BY OpsAssumption DEF Naming
    <3>2. identities[s] = name[v][s]
      BY <2>2, <3>1 DEF Naming
    <3> QED BY <2>2, <3>1, <3>2 DEF Today
  <2> QED BY <1>6, <1>7, <2>1, <2>2 DEF Shows
<1> QED BY <1>8, <1>9, TodayTwice

\* Where only requests move.
LEMMA NamingOn ==
  ASSUME Shape, NEW name, NEW ids, Naming(name, ids), NEW t \in Tabs, NEW c,
         client' = [client EXCEPT ![t] = c],
         c.pc = "restores" =>
           \A s \in Speakers :
             c.target[s] # Gone =>
               Today(identities, c.target[s].name, s) = Today(identities, name[c.version][s], s),
         UNCHANGED <<document, store, worker, menu>>
  PROVE  Naming(name, ids)'
<1>1. current' = current /\ identities' = identities
  BY DEF current, document
<1>2. ASSUME NEW u \in Tabs, client'[u].pc = "restores", NEW s \in Speakers,
             client'[u].target[s] # Gone
      PROVE  Today(identities, client'[u].target[s].name, s)
               = Today(identities, name[client'[u].version][s], s)
  <2>1. CASE u = t
    BY <1>1, <1>2, <2>1, Others
  <2>2. CASE u # t
    BY <1>1, <1>2, <2>2, Others DEF Naming
  <2> QED BY <2>1, <2>2
<1> QED BY <1>1, <1>2 DEF Naming, document

\* A new request, or one that moves on, leaves the names told.
LEMMA RequestsNaming ==
  ASSUME Shape, Offered, NEW name, NEW ids, Naming(name, ids), NEW t \in Tabs, NEW c,
         Asks(t, c) \/ Moves(t, c)
  PROVE  Naming(name, ids)'
<1>1. CASE Asks(t, c)
  <2>1. c.pc # "restores" /\ client' = [client EXCEPT ![t] = c]
          /\ UNCHANGED <<document, store, worker, menu>>
    BY <1>1 DEF Asks, snapshots, runs
  <2> QED BY <2>1, NamingOn
<1>2. CASE Moves(t, c)
  <2>1. /\ client' = [client EXCEPT ![t] = c] /\ UNCHANGED <<document, store, worker, menu>>
        /\ c.pc = "restores" => Materialize(c.version) = Found(c.target) /\ c.version \in 1..current
    BY <1>2 DEF Moves, Aside, RequestOK
  <2>2. c.pc = "restores" => "restore" \in menu
    BY <1>2, OpenOffered DEF Moves, RestorePcs
  <2>3. ASSUME c.pc = "restores", NEW s \in Speakers, c.target[s] # Gone
        PROVE  Today(identities, c.target[s].name, s) = Today(identities, name[c.version][s], s)
    BY <2>1, <2>2, <2>3, MaterializeShows
  <2> QED BY <2>1, <2>3, NamingOn
<1> QED BY <1>1, <1>2

-------------------------------------------------------------------------------
(* Names given beside the log, told.                                       *)

\* The names of the current version once some are given, and those of the others.
NameNow(name) ==
  [v \in 1..current |->
     IF v = current
     THEN [s \in Speakers |-> IF identities'[s] = identities[s] THEN name[v][s] ELSE identities'[s]]
     ELSE name[v]]
IdsNow(ids) == [v \in 1..current |-> IF v = current THEN identities' ELSE ids[v]]

\* Whoever is given a name had none.
LEMMA NewlyNamed ==
  ASSUME Shape, Placed, NEW name, NEW ids, Naming(name, ids), NEW t \in Tabs, GivesNames(t),
         NEW s \in Speakers
  PROVE  /\ identities'[s] = identities[s] => live'[s] = live[s]
         /\ identities'[s] # identities[s] =>
              /\ name[current][s] = s /\ identities[s] = Gone /\ identities'[s] \in Names
              /\ live'[s] # Gone /\ live'[s].name = identities'[s]
<1>1. Gone \notin Names
  BY OpsAssumption
<1>2. \/ live'[s] = live[s] /\ identities'[s] = identities[s]
      \/ /\ IsUnidentified(live, s) /\ live'[s] # Gone
         /\ identities'[s] \in Names /\ live'[s].name = identities'[s]
  BY DEF GivesNames, Identified
<1>3. IsUnidentified(live, s) => name[current][s] = s /\ identities[s] = Gone
  BY DEF IsUnidentified, Placed, Naming
<1> QED BY <1>1, <1>2, <1>3

\* Naming speakers leaves them called by their names.
LEMMA GivesNamesNaming ==
  ASSUME Shape, Placed, NEW name, NEW ids, Naming(name, ids), NEW t \in Tabs, GivesNames(t)
  PROVE  NamesKept'
<1> PICK then, now : then = NameNow(name) /\ now = IdsNow(ids)
  OBVIOUS
<1> DEFINE Moved(s) == identities'[s] # identities[s]
<1>0. /\ current \in Nat \ {0} /\ current' = current /\ identities' \in Given
      /\ UNCHANGED <<log, store, worker, menu>>
  BY VersionsExist DEF GivesNames, snapshots, runs, current
<1>1. \A s \in Speakers :
        /\ ~Moved(s) => live'[s] = live[s]
        /\ Moved(s) => /\ name[current][s] = s /\ identities[s] = Gone /\ identities'[s] \in Names
                       /\ live'[s] # Gone /\ live'[s].name = identities'[s]
  BY NewlyNamed
<1>2. /\ name \in [1..current -> [Speakers -> Names \cup Speakers]] /\ ids \in [1..current -> Given]
      /\ ids[current] = identities
  BY DEF Naming
<1>3. /\ \A v \in 1..current : v # current => then[v] = name[v] /\ now[v] = ids[v]
      /\ now[current] = identities'
      /\ \A s \in Speakers :
           then[current][s] = IF Moved(s) THEN identities'[s] ELSE name[current][s]
  BY <1>0 DEF NameNow, IdsNow
<1>4. then \in [1..current -> [Speakers -> Names \cup Speakers]] /\ now \in [1..current -> Given]
  <2>1. [s \in Speakers |-> IF ~Moved(s) THEN name[current][s] ELSE identities'[s]]
          \in [Speakers -> Names \cup Speakers]
    BY <1>0, <1>1, <1>2
  <2> QED BY <1>0, <1>2, <2>1 DEF NameNow, IdsNow
<1>5. \A s \in Speakers : Moved(s) => identities'[s] # s /\ identities'[s] # Gone
  BY <1>1, OpsAssumption
<1> HIDE DEF Moved
<1>6. ASSUME NEW v \in 1..current, NEW doc, Shows(doc, name[v], ids[v])
      PROVE  Shows(doc, then[v], now[v])
  <2>1. CASE v # current
    BY <1>3, <1>6, <2>1
  <2>2. CASE v = current
    <3>1. ASSUME NEW s \in Speakers, doc[s] # Gone
          PROVE  doc[s].name = then[v][s] \/ (doc[s].name = s /\ now[v][s] = then[v][s])
      <4>1. doc[s].name = name[v][s] \/ (doc[s].name = s /\ ids[v][s] = name[v][s])
        BY <1>6, <3>1 DEF Shows
      <4>2. CASE Moved(s)
        BY <1>1, <1>3, <2>2, <4>1, <4>2
      <4>3. CASE ~Moved(s)
        BY <1>2, <1>3, <2>2, <4>1, <4>3 DEF Moved
      <4> QED BY <4>2, <4>3
    <3> QED BY <3>1 DEF Shows
  <2> QED BY <2>1, <2>2
<1>7. ASSUME NEW v \in 1..current PROVE Calls(log[v], then, now, v)
  <2>1. Calls(log[v], name, ids, v)
    BY DEF Naming
  <2>2. \A u \in 1..(v - 1) : then[u] = name[u] /\ now[u] = ids[u]
    BY <1>0, <1>3
  <2>3. v # 1 => v - 1 \in 1..(v - 1)
    OBVIOUS
  <2> QED BY <1>6, <2>1, <2>2, <2>3 DEF Calls
<1>8. \A s \in Speakers : live'[s] # Gone => live'[s].name = then[current][s]
  BY <1>1, <1>3 DEF Naming
<1>9. ASSUME NEW u \in Tabs, client'[u].pc = "restores", NEW s \in Speakers,
             client'[u].target[s] # Gone
      PROVE  Today(identities', client'[u].target[s].name, s)
               = Today(identities', then[client'[u].version][s], s)
  <2> DEFINE n == client[u].target[s].name
             f == client[u].version
  <2>1. client'[u] = client[u]
    BY <1>9 DEF GivesNames, Answer, NoRequest, Shape, Types
  <2>2. Today(identities, n, s) = Today(identities, name[f][s], s) /\ f \in 1..current
    BY <1>9, <2>1 DEF Naming, Shape, RequestOK
  <2>3. Today(identities', n, s) = Today(identities', then[f][s], s)
    <3>1. CASE ~Moved(s)
      <4>1. then[f][s] = name[f][s] /\ identities'[s] = identities[s]
        BY <1>3, <2>2, <3>1 DEF Moved
      <4> QED BY <2>2, <4>1 DEF Today
    <3>2. CASE Moved(s)
      <4>1. n = name[f][s]
        BY <1>1, <2>2, <3>2 DEF Today
      <4>2. then[f][s] = name[f][s] \/ (name[f][s] = s /\ then[f][s] = identities'[s])
        BY <1>1, <1>3, <2>2, <3>2
      <4> HIDE DEF n, f
      <4> QED BY <1>5, <3>2, <4>1, <4>2 DEF Today
    <3> QED BY <3>1, <3>2
  <2> QED BY <2>1, <2>3
<1>10. ASSUME "restore" \in menu, NEW v \in 1..current, NEW s \in Speakers, now[v][s] # Gone
       PROVE  identities'[s] = now[v][s]
  <2>1. CASE v = current
    BY <1>3, <2>1
  <2>2. CASE v # current
    <3>1. now[v][s] = ids[v][s] /\ identities[s] = ids[v][s]
      BY <1>3, <1>10, <2>2 DEF Naming
    <3> QED BY <1>1, <1>10, <3>1 DEF Moved
  <2> QED BY <2>1, <2>2
<1>11. ASSUME NEW v \in Versions, store[v] # Gone
       PROVE  v \in 1..current /\ Shows(store[v], then[v], now[v])
  BY <1>6, <1>11 DEF Naming
<1>12. ASSUME NEW w \in Workers, HasRead(worker[w])
       PROVE  Shows(worker[w].body, then[worker[w].version], now[worker[w].version])
  <2>1. worker[w].version \in 1..current
    BY <1>12 DEF Shape, RunOK
  <2> QED BY <1>6, <1>12, <2>1 DEF Naming
<1>13. Naming(then, now)'
  BY <1>0, <1>3, <1>4, <1>7, <1>8, <1>9, <1>10, <1>11, <1>12 DEF Naming
<1>14. Placed'
  BY <1>1, <1>5 DEF Placed, Moved
<1> QED BY <1>13, <1>14 DEF NamesKept

-------------------------------------------------------------------------------
(* A version appended, called by its names.                                *)

\* One more version, and what is called so in it.
Longer(f, last) == [v \in 1..(current + 1) |-> IF v = current + 1 THEN last ELSE f[v]]

\* A version goes to the end of the log with the names the live tables have.
LEMMA AppendsNaming ==
  ASSUME Shape, Offered, NEW name, NEW ids, Naming(name, ids), NEW t \in Tabs, NEW entry, NEW c,
         Appends(t, entry, c), NEW last \in [Speakers -> Names \cup Speakers],
         \A s \in Speakers : live'[s] # Gone => live'[s].name = last[s],
         NEW then, NEW now, then = Longer(name, last), now = Longer(ids, identities'),
         Calls(entry, then, now, current + 1),
         "restore" \in menu => identities' = identities
  PROVE  Naming(then, now)'
<1>0. current \in Nat /\ current' = current + 1 /\ log' \in Seq(VersionRow)
        /\ (\A v \in 1..current : log'[v] = log[v]) /\ log'[current + 1] = entry
  BY VersionsExist, LogAppended DEF Appends
<1>1. UNCHANGED <<store, worker, menu>> /\ identities' \in Given
  BY DEF Appends, snapshots, runs
<1>2. /\ name \in [1..current -> [Speakers -> Names \cup Speakers]] /\ ids \in [1..current -> Given]
  BY DEF Naming
<1>3. /\ then \in [1..current' -> [Speakers -> Names \cup Speakers]]
      /\ now \in [1..current' -> Given]
      /\ then[current'] = last /\ now[current'] = identities'
      /\ \A v \in 1..current : then[v] = name[v] /\ now[v] = ids[v]
  BY <1>0, <1>1, <1>2 DEF Longer
<1>4. ASSUME NEW v \in 1..current' PROVE Calls(log'[v], then, now, v)
  <2>1. CASE v = current + 1
    BY <1>0, <2>1
  <2>2. CASE v \in 1..current
    <3>1. Calls(log[v], name, ids, v) /\ log'[v] = log[v]
      BY <1>0, <2>2 DEF Naming
    <3>2. /\ then[v] = name[v] /\ now[v] = ids[v]
          /\ \A u \in 1..(v - 1) : then[u] = name[u] /\ now[u] = ids[u]
      BY <1>0, <1>3, <2>2
    <3>3. v # 1 => v - 1 \in 1..(v - 1)
      BY <2>2
    <3> QED BY <3>1, <3>2, <3>3 DEF Calls
  <2> QED BY <1>0, <2>1, <2>2
<1>5. ASSUME NEW v \in Versions, store[v] # Gone
      PROVE  v \in 1..current' /\ Shows(store[v], then[v], now[v])
  <2>1. v \in 1..current /\ Shows(store[v], name[v], ids[v])
    BY <1>5 DEF Naming
  <2> QED BY <1>0, <1>3, <2>1
<1>6. ASSUME NEW w \in Workers, HasRead(worker[w])
      PROVE  Shows(worker[w].body, then[worker[w].version], now[worker[w].version])
  <2>1. worker[w].version \in 1..current
    BY <1>6 DEF Shape, RunOK
  <2> QED BY <1>3, <1>6, <2>1 DEF Naming
<1>7. ASSUME NEW u \in Tabs, client'[u].pc = "restores", NEW s \in Speakers,
             client'[u].target[s] # Gone
      PROVE  Today(identities', client'[u].target[s].name, s)
               = Today(identities', then[client'[u].version][s], s)
  <2>1. client'[u] = client[u]
    BY <1>7, Others DEF Appends
  <2>2. client[u].version \in 1..current /\ "restore" \in menu
    BY <1>7, <2>1 DEF Shape, RequestOK, Offered, RestorePcs
  <2>3. Today(identities, client[u].target[s].name, s)
          = Today(identities, name[client[u].version][s], s)
    BY <1>7, <2>1 DEF Naming
  <2>4. identities' = identities /\ then[client[u].version] = name[client[u].version]
    BY <1>3, <2>2
  <2> QED BY <2>1, <2>3, <2>4
<1>8. ASSUME "restore" \in menu, NEW v \in 1..current', NEW s \in Speakers, now[v][s] # Gone
      PROVE  identities'[s] = now[v][s]
  <2>1. CASE v = current'
    BY <1>3, <2>1
  <2>2. CASE v \in 1..current
    BY <1>3, <1>8, <2>2 DEF Naming
  <2> QED BY <1>0, <2>1, <2>2
<1> QED BY <1>1, <1>3, <1>4, <1>5, <1>6, <1>7, <1>8 DEF Naming

\* A save gives the speakers the names its renames say, to whatever text it is replayed over.
LEMMA SavesNaming ==
  ASSUME Separate, Shape, Offered, Placed, NEW name, NEW ids, Naming(name, ids),
         NEW t \in Tabs, Saves(t)
  PROVE  NamesKept'
<1> DEFINE ops == client[t].ops
           values == IF "unname" \in menu THEN Names \cup Speakers ELSE Names
<1>0. /\ current \in Nat \ {0} /\ ops \in Seq(Op(Texts)) /\ live \in Document(Texts)
      /\ live' = ApplyOps(live, ops).doc /\ ~ApplyOps(live, ops).conflict
      /\ identities' = RetireIdentities(live') /\ identities \in Given
      /\ client[t].pc # "idle"
  BY VersionsExist DEF Shape, Types, Request, Ops, Docs, Saves, SaveCommits
<1>1. PICK c : Appends(t, Edited(t), c)
  BY DEF Saves
<1>2. \A i \in 1..Len(ops) : /\ ops[i].op = "speaker.merge" => ops[i].keepName
                             /\ ops[i].op = "speaker.rename" => ops[i].value \in values
  <2>1. ASSUME NEW i \in 1..Len(ops)
        PROVE  /\ ops[i].op = "speaker.merge" => ops[i].keepName
               /\ ops[i].op = "speaker.rename" => ops[i].value \in values
    <3>1. Allowed(ops[i]) /\ "merge_name" \notin menu
      BY <1>0 DEF Offered, Separate
    <3>2. ops[i].op = "speaker.rename" => ops[i].value \in Names \cup Speakers
      <4>1. ops[i] \in Op(Texts)
        BY <1>0
      <4> QED BY <4>1 DEF Op
    <3> QED BY <3>1, <3>2 DEF Allowed
  <2> QED BY <2>1
<1>3. PICK given \in [Speakers -> values \cup {Gone}] :
        \A doc \in Document(Texts) :
          ~ApplyOps(doc, ops).conflict => Renamed(doc, ApplyOps(doc, ops).doc, given)
  <2>1. values \in SUBSET (Names \cup Speakers)
    OBVIOUS
  <2> HIDE DEF ops, values
  <2> QED BY <1>0, <1>2, <2>1, TextsAreNumbers, ApplyOpsNames
<1>4. PICK last : last = [s \in Speakers |-> IF given[s] = Gone THEN name[current][s] ELSE given[s]]
  OBVIOUS
<1>5. name[current] \in [Speakers -> Names \cup Speakers] /\ ids[current] = identities
  BY <1>0 DEF Naming
<1>6. last \in [Speakers -> Names \cup Speakers]
  BY <1>3, <1>4, <1>5
<1>7. ASSUME NEW s \in Speakers, live'[s] # Gone PROVE live[s] # Gone /\ live'[s].name = last[s]
  <2>1. live[s] # Gone /\ live'[s].name = IF given[s] = Gone THEN live[s].name ELSE given[s]
    BY <1>0, <1>3, <1>7 DEF Renamed
  <2> QED BY <1>4, <2>1 DEF Naming
<1>8. \A s \in Speakers :
        identities'[s] = IF live'[s] # Gone /\ last[s] = s THEN Gone ELSE identities[s]
  BY <1>0, <1>7 DEF RetireIdentities, IsUnidentified
<1>9. PICK then, now : then = Longer(name, last) /\ now = Longer(ids, identities')
  OBVIOUS
<1>10. /\ then[current + 1] = last /\ now[current + 1] = identities'
       /\ then[current] = name[current] /\ now[current] = ids[current]
  BY <1>0, <1>9 DEF Longer
<1>11. ASSUME NEW doc \in Docs, Shows(doc, name[current], ids[current]), ~ApplyOps(doc, ops).conflict
       PROVE  Shows(ApplyOps(doc, ops).doc, last, identities')
  <2> DEFINE after == ApplyOps(doc, ops).doc
  <2>1. Renamed(doc, after, given)
    BY <1>3, <1>11 DEF Docs
  <2> HIDE DEF after
  <2>2. ASSUME NEW s \in Speakers, after[s] # Gone
        PROVE  after[s].name = last[s] \/ (after[s].name = s /\ identities'[s] = last[s])
    <3>1. doc[s] # Gone /\ after[s].name = IF given[s] = Gone THEN doc[s].name ELSE given[s]
      BY <2>1, <2>2 DEF Renamed
    <3>2. CASE given[s] # Gone
      BY <1>4, <3>1, <3>2
    <3>3. CASE given[s] = Gone
      <4>1. doc[s].name = last[s] \/ (doc[s].name = s /\ identities[s] = last[s])
        BY <1>4, <1>5, <1>11, <3>1, <3>3 DEF Shows
      <4> QED BY <1>8, <3>1, <3>3, <4>1
    <3> QED BY <3>2, <3>3
  <2>3. Shows(after, last, identities')
    BY <2>2 DEF Shows
  <2> QED BY <2>3 DEF after
<1>12. Edited(t).kind = "edit" /\ Edited(t).ops = ops
  BY DEF Edited, Entry
<1>13. Calls(Edited(t), then, now, current + 1)
  <2>1. (current + 1) - 1 = current /\ current + 1 # 1
    BY <1>0
  <2> HIDE DEF ops, current, Edited
  <2> QED BY <1>10, <1>11, <1>12, <2>1 DEF Calls
<1>14. ASSUME "restore" \in menu PROVE identities' = identities
  <2>1. values = Names
    BY <1>14 DEF Separate, Offered
  <2>2. ASSUME NEW s \in Speakers PROVE identities'[s] = identities[s]
    <3>1. CASE live'[s] # Gone /\ last[s] = s
      <4>1. given[s] = Gone /\ live[s] # Gone /\ live[s].name = s
        <5>1. given[s] \in Names \cup {Gone} /\ s \notin Names
          BY <1>3, <2>1, OpsAssumption
        <5> QED BY <1>4, <1>7, <3>1, <5>1 DEF Naming
      <4> QED BY <1>8, <3>1, <4>1 DEF Placed
    <3>2. CASE ~(live'[s] # Gone /\ last[s] = s)
      BY <1>8, <3>2
    <3> QED BY <3>1, <3>2
  <2>3. /\ identities' = [s \in Speakers |-> identities'[s]]
        /\ identities = [s \in Speakers |-> identities[s]]
    BY <1>0 DEF RetireIdentities, Given
  <2> QED BY <2>2, <2>3
<1>15. Naming(then, now)'
  <2> HIDE DEF ops, values
  <2> QED BY <1>1, <1>6, <1>7, <1>9, <1>13, <1>14, AppendsNaming
<1>16. Placed'
  BY <1>7, <1>8 DEF Placed
<1> QED BY <1>15, <1>16 DEF NamesKept

\* A restore gives back the names of the version it goes back to, and those given since beside
\* the log.
LEMMA ReturnsNaming ==
  ASSUME Shape, Offered, Placed, NEW name, NEW ids, Naming(name, ids), NEW t \in Tabs, Returns(t)
  PROVE  NamesKept'
<1> DEFINE f == client[t].version
           target == client[t].target
<1>0. /\ current \in Nat \ {0} /\ f \in 1..current /\ target \in Document(Texts)
      /\ live' = ApplyIdentities(target, identities)
      /\ identities' = identities /\ identities \in Given
      /\ client[t].pc = "restores" /\ "restore" \in menu
  <2>1. client[t].pc = "restores" /\ client[t] \in Request /\ RequestOK(client[t], current)
    BY DEF Shape, Types, Returns, RestoreCommits
  <2>2. live' = ApplyIdentities(target, identities) /\ identities' = identities
    BY DEF Returns, RestoreCommits, Restored
  <2>3. f \in 1..current /\ target \in Document(Texts)
    BY <2>1 DEF RequestOK, Request, RestorePcs, Docs
  <2> QED BY <2>1, <2>2, <2>3, VersionsExist DEF Shape, Types, Offered, RestorePcs
<1>1. PICK c : Appends(t, Returned(t), c)
  BY DEF Returns
<1>2. PICK last : last = [s \in Speakers |-> Today(identities, name[f][s], s)]
  OBVIOUS
<1>3. name[f] \in [Speakers -> Names \cup Speakers]
  BY <1>0 DEF Naming
<1>4. last \in [Speakers -> Names \cup Speakers]
  BY <1>2, <1>3, TodayTwice
<1>5. ASSUME NEW s \in Speakers, live'[s] # Gone PROVE live'[s].name = last[s]
  <2>1. target[s] # Gone
    BY <1>0, <1>5, TextsAreNumbers, NamesPut DEF Alike
  <2>2. live'[s].name = Today(identities, target[s].name, s)
    BY <1>0, <2>1, TextsAreNumbers, NamesPutName DEF Today
  <2>3. Today(identities, target[s].name, s) = Today(identities, name[f][s], s)
    BY <1>0, <2>1 DEF Naming
  <2> QED BY <1>2, <2>2, <2>3
<1>6. PICK then, now : then = Longer(name, last) /\ now = Longer(ids, identities')
  OBVIOUS
<1>7. /\ then[current + 1] = last /\ now[current + 1] = identities
      /\ then[f] = name[f] /\ now[f] = ids[f]
  BY <1>0, <1>6 DEF Longer
<1>8. ASSUME NEW doc \in Docs, Shows(doc, name[f], ids[f]) PROVE Shows(doc, last, identities)
  <2>1. ASSUME NEW s \in Speakers, doc[s] # Gone
        PROVE  doc[s].name = last[s] \/ (doc[s].name = s /\ identities[s] = last[s])
    <3>1. doc[s].name = name[f][s] \/ (doc[s].name = s /\ ids[f][s] = name[f][s])
      BY <1>8, <2>1 DEF Shows
    <3>2. last[s] = IF name[f][s] = s /\ identities[s] # Gone THEN identities[s] ELSE name[f][s]
      BY <1>2 DEF Today
    <3>3. name[f][s] # Gone
      BY <1>3, OpsAssumption
    <3>4. ids[f][s] # Gone => identities[s] = ids[f][s]
      BY <1>0 DEF Naming
    <3> HIDE DEF f
    <3> QED BY <3>1, <3>2, <3>3, <3>4
  <2> QED BY <2>1 DEF Shows
<1>9. Returned(t).kind = "restore" /\ Returned(t).from = f
  BY DEF Returned, Entry
<1>10. Calls(Returned(t), then, now, current + 1)
  <2>1. (current + 1) - 1 = current
    BY <1>0
  <2> HIDE DEF f, current, Returned
  <2> QED BY <1>0, <1>7, <1>8, <1>9, <2>1 DEF Calls
<1>11. Naming(then, now)'
  <2> HIDE DEF f, target
  <2> QED BY <1>0, <1>1, <1>4, <1>5, <1>6, <1>10, AppendsNaming
<1>12. Placed'
  <2>1. \A s \in Speakers : last[s] = s => identities[s] = Gone
    BY <1>2, TodayTwice
  <2> QED BY <1>0, <1>5, <2>1 DEF Placed
<1> QED BY <1>11, <1>12 DEF NamesKept

\* What a snapshot job reads and stores shows the names of its version.
LEMMA SnapshotsNaming ==
  ASSUME Shape, Offered, NEW name, NEW ids, Naming(name, ids), NEW w \in Workers, Snapshot(w)
  PROVE  Naming(name, ids)'
<1>1. PICK r : RunStep(w, r)
  BY SnapshotRuns
<1>2. /\ current' = current
      /\ \A v \in 1..current :
           log'[v].kind = log[v].kind /\ log'[v].ops = log[v].ops /\ log'[v].from = log[v].from
  BY <1>1, RunsLog
<1>3. /\ worker \in [Workers -> Run] /\ store \in [Versions -> Docs \cup {Gone}]
      /\ RunOK(worker[w], current) /\ UNCHANGED <<live, identities, client, menu>>
  BY <1>1 DEF Shape, Types, RunStep
<1>4. HasRead(worker[w]) =>
        Shows(worker[w].body, name[worker[w].version], ids[worker[w].version])
  BY DEF Naming
<1>5. ASSUME NEW u \in Workers, HasRead(worker'[u])
      PROVE  Shows(worker'[u].body, name[worker'[u].version], ids[worker'[u].version])
  <2>1. CASE u = w
    <3>1. worker'[u] = r
      BY <1>1, <1>3, <2>1 DEF RunStep
    <3> QED BY <1>1, <1>4, <1>5, <3>1, LiveShows DEF RunStep
  <2>2. CASE u # w
    <3>1. worker'[u] = worker[u]
      BY <1>1, <1>3, <2>2 DEF RunStep
    <3> QED BY <1>5, <3>1 DEF Naming
  <2> QED BY <2>1, <2>2
<1>6. ASSUME NEW v \in Versions, store'[v] # Gone
      PROVE  v \in 1..current /\ Shows(store'[v], name[v], ids[v])
  <2>1. CASE store'[v] = store[v]
    BY <1>6, <2>1 DEF Naming
  <2>2. CASE store'[v] # store[v]
    <3>1. HasRead(worker[w]) /\ v = worker[w].version /\ store'[v] = worker[w].body
      BY <1>1, <1>3, <1>6, <2>2 DEF RunStep
    <3> QED BY <1>3, <1>4, <3>1 DEF RunOK
  <2> QED BY <2>1, <2>2
<1>7. ASSUME NEW v \in 1..current PROVE Calls(log'[v], name, ids, v)
  <2>1. Calls(log[v], name, ids, v)
    BY DEF Naming
  <2> QED BY <1>2, <2>1 DEF Calls
<1> QED BY <1>2, <1>3, <1>5, <1>6, <1>7 DEF Naming

\* At first every speaker has the name of the live tables, and none is kept beside the log.
LEMMA InitNaming == Init => NamesKept
<1> SUFFICES ASSUME Init PROVE NamesKept
  OBVIOUS
<1>1. Shape /\ current = 1 /\ log[1] = Entry("ai_original", <<>>, 0, 0, live)
  BY InitShape DEF Init, current
<1>2. PICK last : last = [s \in Speakers |-> s]
  OBVIOUS
<1>3. PICK name, ids : name = [v \in 1..1 |-> last] /\ ids = [v \in 1..1 |-> identities]
  OBVIOUS
<1>4. /\ name \in [1..current -> [Speakers -> Names \cup Speakers]] /\ ids \in [1..current -> Given]
      /\ name[current] = last /\ ids[current] = identities
  BY <1>1, <1>2, <1>3 DEF Shape, Types
<1>5. \A s \in Speakers : live[s] # Gone => live[s].name = last[s]
  <2>1. ASSUME NEW s \in Speakers PROVE live[s].name = s
    <3>1. live[s] = Voice(s, 1)
      BY DEF Init, Entities
    <3> QED BY <3>1 DEF Voice
  <2>2. \A s \in Speakers : last[s] = s
    BY <1>2
  <2> QED BY <2>1, <2>2
<1>6. \A v \in 1..current : Calls(log[v], name, ids, v)
  BY <1>1 DEF Calls, Entry
<1>7. \A s \in Speakers : identities[s] = Gone
  BY DEF Init
<1>8. \A v \in 1..current, s \in Speakers : ids[v][s] = Gone
  BY <1>1, <1>4, <1>7
<1>9. Naming(name, ids)
  BY <1>4, <1>5, <1>6, <1>8 DEF Naming, Init, NoRun, HasRead, NoRequest
<1> QED BY <1>7, <1>9 DEF NamesKept, Placed

\* Every step leaves the names told.
LEMMA NextNaming ==
  ASSUME Separate
  PROVE  Shape /\ Offered /\ NamesKept /\ [Next]_vars => NamesKept'
<1> SUFFICES ASSUME Shape, Offered, NamesKept, [Next]_vars PROVE NamesKept'
  OBVIOUS
<1>1. PICK name, ids : Naming(name, ids)
  BY DEF NamesKept
<1>2. Placed
  BY DEF NamesKept
<1>3. Naming(name, ids)' /\ Placed' => NamesKept'
  BY DEF NamesKept
<1>4. ASSUME NEW t \in Tabs, NEW c, Asks(t, c) \/ Moves(t, c) PROVE NamesKept'
  <2>1. UNCHANGED <<live, identities>>
    BY <1>4 DEF Asks, Moves, Aside, document
  <2>2. Placed'
    BY <1>2, <2>1 DEF Placed
  <2> QED BY <1>1, <1>3, <1>4, <2>2, RequestsNaming
<1>5. ASSUME NEW w \in Workers, Snapshot(w) PROVE NamesKept'
  <2>1. UNCHANGED <<live, identities>>
    BY <1>5, SnapshotRuns DEF RunStep
  <2>2. Placed'
    BY <1>2, <2>1 DEF Placed
  <2> QED BY <1>1, <1>3, <1>5, <2>2, SnapshotsNaming
<1>6. ASSUME UNCHANGED vars PROVE NamesKept'
  <2>1. Naming(name, ids)'
    BY <1>1, <1>6 DEF vars, Naming, current
  <2>2. Placed'
    BY <1>2, <1>6 DEF vars, Placed
  <2> QED BY <1>3, <2>1, <2>2
<1>7. ASSUME NEW t \in Tabs, GivesNames(t) PROVE NamesKept'
  BY <1>1, <1>2, <1>7, GivesNamesNaming
<1>8. ASSUME NEW t \in Tabs, Saves(t) \/ Returns(t) PROVE NamesKept'
  BY <1>1, <1>2, <1>8, SavesNaming, ReturnsNaming
<1> QED BY <1>4, <1>5, <1>6, <1>7, <1>8, StepIs

\* The current version, rebuilt and with the names over it, is what the live tables hold.
LEMMA ShownIsLive ==
  ASSUME Shape, History, NamesKept, NEW doc, Materialize(current) = Found(doc)
  PROVE  doc = live
<1>1. PICK docs : Told(docs)
  BY DEF History
<1>2. PICK name, ids : Naming(name, ids)
  BY DEF NamesKept
<1> DEFINE raw == IF Raw[current].how = "unreachable" THEN Found(live) ELSE Raw[current]
<1>3. current \in 1..current /\ current \in 0..current
  BY VersionsExist
<1>4. ShownAt(name, ids, current) /\ Raw[current] \in Outcome
  BY <1>2, <1>3, RawShows, RawIs
<1>5. raw \in Outcome /\ (raw.how = "found" => Shows(raw.doc, name[current], ids[current]))
  BY <1>2, <1>4, LiveShows DEF Found, Outcome, Shape, Types, ShownAt
<1>6. Materialize(current)
        = IF raw.how = "found" THEN Found(ApplyIdentities(raw.doc, identities)) ELSE raw
  BY DEF Materialize
<1> HIDE DEF raw
<1>7. raw.how = "found"
  BY <1>6 DEF Found
<1>8. doc = ApplyIdentities(raw.doc, identities)
  BY <1>6, <1>7 DEF Found
<1>9. /\ raw.doc \in Document(Texts) /\ identities \in Given /\ live \in Document(Texts)
      /\ Shows(raw.doc, name[current], ids[current]) /\ ids[current] = identities
  BY <1>2, <1>5, <1>7 DEF Outcome, Docs, Shape, Types, Naming
<1>10. doc \in Document(Texts) /\ Alike(doc, raw.doc)
  BY <1>8, <1>9, TextsAreNumbers, NamesPut
<1>11. Alike(doc, live)
  <2>1. Alike(doc, docs[current]) /\ Alike(live, docs[current])
    BY <1>1, <1>3, MaterializeFits DEF Told
  <2> QED BY <2>1, AlikeBack, AlikeOnward
<1>12. ASSUME NEW s \in Speakers PROVE doc[s] = live[s]
  <2>1. CASE doc[s] = Gone
    BY <1>11, <2>1 DEF Alike
  <2>2. CASE doc[s] # Gone
    <3>1. live[s] # Gone /\ raw.doc[s] # Gone /\ doc[s].rev = live[s].rev
      BY <1>10, <1>11, <2>2 DEF Alike
    <3>2. doc[s] \in VoiceRow /\ live[s] \in VoiceRow
      BY <1>9, <1>10, <2>2, <3>1, TextsAreNumbers, RowsAreRows
    <3>3. live[s].name = name[current][s]
      BY <1>2, <3>1 DEF Naming
    <3>4. doc[s].name = IF raw.doc[s].name = s /\ identities[s] # Gone
                        THEN identities[s] ELSE raw.doc[s].name
      BY <1>8, <1>9, <3>1, TextsAreNumbers, NamesPutName
    <3>5. raw.doc[s].name = live[s].name \/ (raw.doc[s].name = s /\ identities[s] = live[s].name)
      BY <1>9, <3>1, <3>3 DEF Shows
    <3>6. identities[s] # Gone => live[s].name # s
      BY <3>1 DEF NamesKept, Placed
    <3>7. live[s].name # Gone
      BY <3>2, OpsAssumption DEF VoiceRow
    <3>8. doc[s].name = live[s].name
      BY <3>4, <3>5, <3>6, <3>7
    <3> QED BY <3>1, <3>2, <3>8 DEF VoiceRow
  <2> QED BY <2>1, <2>2
<1>13. \A e \in Entities : doc[e] = live[e]
  BY <1>11, <1>12 DEF Alike, Entities
<1> QED BY <1>9, <1>10, <1>13 DEF Document

\* What the version log says of the current version, names put over it, is what the live tables
\* hold, names and revs included: where no merge takes the name of the speaker it removes, and no
\* editor both takes names back and goes back to older versions.
THEOREM HistoryIsLiveHolds ==
  ASSUME \A m \in Menus : "merge_name" \notin m /\ ("unname" \notin m \/ "restore" \notin m)
  PROVE  Spec => []HistoryIsLive
<1>0. Separate
  BY DEF Separate
<1>1. Shape /\ History /\ NamesKept => HistoryIsLive
  <2> SUFFICES ASSUME Shape, History, NamesKept, Materialize(current).how = "found"
               PROVE  Materialize(current).doc = live
    BY DEF HistoryIsLive
  <2> DEFINE now == Materialize(current)
  <2>1. now \in Outcome
    BY VersionsExist, MaterializeTyped
  <2>2. now = Found(now.doc)
    BY <2>1 DEF Outcome, Found
  <2> QED BY <2>2, ShownIsLive
<1>2. Shape /\ Offered /\ NamesKept /\ [Next]_vars => NamesKept'
  BY <1>0, NextNaming
<1> QED BY <1>1, <1>2, InitShape, NextShape, InitHistory, NextHistory, InitOffered, NextOffered,
           InitNaming, PTL
        DEF Spec
=================================================================================
