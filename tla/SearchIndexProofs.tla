-------------------------- MODULE SearchIndexProofs --------------------------
(***************************************************************************)
(* What TLAPS proves of SearchIndex, for any documents, models, number of  *)
(* concurrent runs and bounds: every property its run checks except        *)
(* NamesCaughtUp, which the code violates.                                 *)
(*                                                                         *)
(* A run is a record whose fields change one at a time; all NothingLeft    *)
(* needs of its type is that it has these fields, so that a step changes   *)
(* what it says and nothing else.                                          *)
(***************************************************************************)
EXTENDS SearchIndex, FiniteSetTheorems, WellFoundedInduction, TLAPS

IsRun(r) == r = [pc |-> r.pc, rev |-> r.rev, text |-> r.text, model |-> r.model,
                 known |-> r.known, at |-> r.at, todo |-> r.todo]

Shape ==
  /\ run = [j \in Slots |-> run[j]]
  /\ \A j \in Slots : IsRun(run[j])
  /\ doc = [state |-> doc.state, rev |-> doc.rev, text |-> doc.text]
  /\ past = [torn |-> past.torn, overlap |-> past.overlap, stamp |-> past.stamp,
             outlived |-> past.outlived]

\* Init gives every record its fields.
LEMMA ShapeInit == Init => Shape
<1> SUFFICES ASSUME Init PROVE Shape
  OBVIOUS
<1>1. run = [j \in Slots |-> NoRun]
  BY DEF Init
<1>2. run = [j \in Slots |-> run[j]] /\ \A j \in Slots : IsRun(run[j])
  BY <1>1 DEF IsRun, NoRun
<1>3. doc = [state |-> doc.state, rev |-> doc.rev, text |-> doc.text]
  BY DEF Init
<1>4. past = [torn |-> past.torn, overlap |-> past.overlap, stamp |-> past.stamp,
              outlived |-> past.outlived]
  BY DEF Init
<1> QED
  BY <1>2, <1>3, <1>4 DEF Shape

\* No step loses a field of a record.
LEMMA ShapeStep == Shape /\ [Next]_vars => Shape'
<1> SUFFICES ASSUME Shape, [Next]_vars PROVE Shape'
  OBVIOUS
<1> USE DEF Shape, IsRun
<1>1. ASSUME NEW j \in Slots, Process(j) PROVE Shape'
  BY <1>1 DEF Process, Owner, Gate, Skip, Forget, ForgetState, Load, Read, ReadState, Confirm,
     MarkIndexing, Existing, Create, Update, DropVectors, Trim, Pending, Write, DeleteStale,
     Settle, Check, Follow, RecordError, Goto, Raised, Onward, UpdateState, OnlyRuns,
     ChunksChange, StateChanges, Stamps
<1>2. ASSUME NEW j \in Slots,
             Claim(j) \/ Completes(j) \/ Fails(j) \/ Throws(j) \/ KeyRefused(j)
               \/ WrongWidth(j) \/ RateLimited(j)
      PROVE  Shape'
  BY <1>2 DEF Claim, Completes, Fails, Ends, Throws, KeyRefused, WrongWidth, RateLimited, Goto,
     Raised, Cut, NoRun
<1>3. CASE Crash
  BY <1>3 DEF Crash, Cut, NoRun
<1>4. CASE Edit \/ Name \/ Queue \/ Press \/ QueuePressed \/ Switch \/ RemoveDocument
  BY <1>4 DEF Edit, Name, Commits, Queue, Press, QueuePressed, Switch, RemoveDocument
<1>5. CASE PurgeChunks \/ PurgeState \/ PurgeRow \/ PurgeFails
  BY <1>5 DEF PurgeChunks, PurgeState, PurgeRow, PurgeFails
<1>6. CASE UNCHANGED vars
  BY <1>6 DEF vars
<1> QED
  BY <1>1, <1>2, <1>3, <1>4, <1>5, <1>6 DEF Next

\* The records keep their fields throughout a behaviour.
THEOREM ShapeKept == Spec => []Shape
  BY ShapeInit, ShapeStep, PTL DEF Spec

-------------------------------------------------------------------------------
(* NothingLeft.                                                            *)

\* The steps of a run that has found the document there and will write.
Writing == Tried \cup {"gate", "skip", "read", "state", "mark", "record"}

Forgetting == (doc.state = "removed" /\ purge \in {"state", "row"}) \/ doc.state = "gone"

\* From the first statement of a purge on no run begins to write, so what it deletes stays away.
\* A purge that starts over asks the question anew.
LeftInv ==
  /\ Live => purge = "chunks"
  /\ Forgetting /\ ~past.outlived =>
       /\ \A j \in Slots : run[j].pc \notin Writing
       /\ \A o \in Ords : chunk[o] = NoChunk
       /\ doc.state = "gone" \/ purge = "row" => state = NoState

\* While a purge is under way or over, the runs that are left write nothing.
LEMMA LeftProcess ==
  ASSUME Shape, LeftInv, NEW j \in Slots, Process(j)
  PROVE  LeftInv'
<1>1. doc' = doc /\ purge' = purge /\ past'.outlived = past.outlived
  BY DEF Process, Owner, Gate, Skip, Forget, ForgetState, Load, Read, ReadState, Confirm,
     MarkIndexing, Existing, Create, Update, DropVectors, Trim, Pending, Write, DeleteStale,
     Settle, Check, Follow, RecordError, OnlyRuns, ChunksChange, StateChanges, Stamps, Shape
<1> SUFFICES ASSUME Forgetting', ~past'.outlived PROVE LeftInv'
  BY <1>1 DEF LeftInv, Live
<1>2. /\ Forgetting /\ ~Live
      /\ \A k \in Slots : run[k].pc \notin Writing
      /\ \A o \in Ords : chunk[o] = NoChunk
      /\ doc.state = "gone" \/ purge = "row" => state = NoState
  BY <1>1 DEF Forgetting, LeftInv, Live
<1> USE <1>1, <1>2 DEF Shape, IsRun, At, Goto, Writing, Tried, Live
<1>3. CASE Owner(j) \/ Load(j)
  BY <1>3 DEF Owner, Load, OnlyRuns, LeftInv
<1>4. CASE Forget(j) \/ ForgetState(j)
  BY <1>4 DEF Forget, ForgetState, NoChunks, ChunksChange, StateChanges, LeftInv
<1>5. CASE Confirm(j)
  BY <1>5 DEF Confirm, UpdateState, Raised, NoState, Stamps, LeftInv
<1>6. CASE Check(j) \/ Follow(j)
  BY <1>6 DEF Check, Follow, Stamps, LeftInv
<1>7. ~(\/ Gate(j) \/ Skip(j) \/ Read(j) \/ ReadState(j) \/ MarkIndexing(j) \/ Existing(j)
        \/ Create(j) \/ Update(j) \/ DropVectors(j) \/ Trim(j) \/ Pending(j) \/ Write(j)
        \/ DeleteStale(j) \/ Settle(j) \/ RecordError(j))
  BY DEF Gate, Skip, Read, ReadState, MarkIndexing, Existing, Create, Update, DropVectors, Trim,
     Pending, Write, DeleteStale, Settle, RecordError
<1> QED
  BY <1>3, <1>4, <1>5, <1>6, <1>7 DEF Process

\* Every step keeps a forgotten document forgotten.
LEMMA LeftStep == Shape /\ LeftInv /\ [Next]_vars => LeftInv'
<1> SUFFICES ASSUME Shape, LeftInv, [Next]_vars PROVE LeftInv'
  OBVIOUS
<1>1. ASSUME NEW j \in Slots, Process(j) PROVE LeftInv'
  BY <1>1, LeftProcess
<1> USE DEF LeftInv, Forgetting, Shape, IsRun, Live
<1>2. ASSUME NEW j \in Slots, Claim(j) \/ Completes(j) \/ Fails(j) \/ RateLimited(j) PROVE LeftInv'
  BY <1>2 DEF Claim, Completes, Fails, Ends, RateLimited, NoRun, Writing, Tried
<1>3. ASSUME NEW j \in Slots, Throws(j) PROVE LeftInv'
  BY <1>3 DEF Throws, Raised, Goto, Cut, Writing, Tried
<1>4. ASSUME NEW j \in Slots, KeyRefused(j) \/ WrongWidth(j) PROVE LeftInv'
  BY <1>4 DEF KeyRefused, WrongWidth, Goto, At, Writing, Tried
<1>5. CASE Crash
  BY <1>5 DEF Crash, Cut, NoRun, Writing, Tried
<1>6. CASE Edit \/ Name \/ Queue \/ Press \/ QueuePressed \/ Switch
  BY <1>6 DEF Edit, Name, Commits, Queue, Press, QueuePressed, Switch
<1>7. CASE RemoveDocument \/ PurgeState \/ PurgeRow \/ PurgeFails
  BY <1>7 DEF RemoveDocument, PurgeState, PurgeRow, PurgeFails
<1>8. CASE PurgeChunks
  BY <1>8 DEF PurgeChunks, NoChunks, Outliving, Writing
<1>9. CASE UNCHANGED vars
  BY <1>9 DEF vars
<1> QED
  BY <1>1, <1>2, <1>3, <1>4, <1>5, <1>6, <1>7, <1>8, <1>9 DEF Next

\* Nothing of a document outlives its purge, unless a run was already past its last look at the
\* document when the purge began to forget.
THEOREM NothingLeftHolds == Spec => []NothingLeft
<1>1. Init => LeftInv
  BY DEF Init, LeftInv, Forgetting, Live
<1>2. LeftInv => NothingLeft
  BY DEF LeftInv, Forgetting, NothingLeft, Rows, There, NoChunk
<1> QED
  BY <1>1, <1>2, LeftStep, ShapeKept, PTL DEF Spec
-------------------------------------------------------------------------------
(* Types.  Ids of rows are unique because there always is a fresh one, for *)
(* which the ids in use have to be finitely many.                          *)

\* The values of a function on a finite set are finitely many.
LEMMA ImageFinite ==
  ASSUME NEW S, IsFiniteSet(S), NEW f
  PROVE  IsFiniteSet({f[x] : x \in S})
<1> DEFINE T == {f[x] : x \in S}
           g == [x \in S |-> f[x]]
<1>1. g \in Surjection(S, T)
  BY DEF Surjection
<1> QED
  BY <1>1, FS_Surjection

\* Some number is not among finitely many values.
LEMMA FreshExists ==
  ASSUME NEW S, IsFiniteSet(S)
  PROVE  \E n \in 1..(Cardinality(S) + 1) : n \notin S
<1> DEFINE c == Cardinality(S)
<1>1. c \in Nat
  BY FS_CardinalityType
<1>2. Cardinality(1..(c + 1)) = c + 1
  BY <1>1, FS_Interval, SMT
<1> SUFFICES ASSUME 1..(c + 1) \subseteq S PROVE FALSE
  OBVIOUS
<1>3. Cardinality(1..(c + 1)) <= c
  BY FS_Subset
<1> QED
  BY <1>1, <1>2, <1>3

\* There are finitely many runs and ordinals.
LEMMA SlotsFinite == IsFiniteSet(Slots) /\ IsFiniteSet(Ords)
<1>1. IsFiniteSet({Keyed} \cup Reruns)
  BY SearchAssumption, FS_Union, FS_Singleton
<1>2. IsFiniteSet(1..MaxChunks)
  BY SearchAssumption, FS_Interval
<1> QED
  BY <1>1, <1>2, SearchAssumption DEF Ords

\* What a document may say and a run has read, and what a run has left to embed.
Said  == Contents \cup {<<>>}
Todos == [at : Ords, id : Nat \ {0}, text : Texts]

RunsTyped ==
  \A j \in Slots : /\ run[j].text \in Said /\ run[j].model \in Models \cup {NoModel}
                   /\ run[j].known \in [Ords -> Held]
                   /\ run[j].todo \in SUBSET Todos

TodoFinite == \A j \in Slots : IsFiniteSet(run[j].todo)

UniqueIds == \A o, q \in Rows : chunk[o].id = chunk[q].id => o = q

ChunksTyped ==
  /\ chunk \in [Ords -> Chunks]
  /\ \A o \in Ords : IF There(o) THEN chunk[o].text \in Texts ELSE chunk[o] = NoChunk

\* The id a created chunk gets is nobody else's.
LEMMA FreshIdFresh ==
  ASSUME TodoFinite
  PROVE  FreshId \in Nat \ {0} /\ \A o \in Ords : chunk[o].id # FreshId
<1> DEFINE ids    == {chunk[o].id : o \in Ords}
           kn(s)  == {run[s].known[o].id : o \in Ords}
           td(s)  == {t.id : t \in run[s].todo}
           held   == ids \cup (UNION {kn(s) : s \in Slots}) \cup (UNION {td(s) : s \in Slots})
<1>1. IsFiniteSet(ids)
  <2> DEFINE f == [o \in Ords |-> chunk[o].id]
  <2>1. IsFiniteSet({f[o] : o \in Ords})
    BY ImageFinite, SlotsFinite
  <2>2. {f[o] : o \in Ords} = ids
    OBVIOUS
  <2> QED
    BY <2>1, <2>2
<1>2. ASSUME NEW s \in Slots PROVE IsFiniteSet(kn(s))
  <2> DEFINE f == [o \in Ords |-> run[s].known[o].id]
  <2>1. IsFiniteSet({f[o] : o \in Ords})
    BY ImageFinite, SlotsFinite
  <2>2. {f[o] : o \in Ords} = kn(s)
    OBVIOUS
  <2> QED
    BY <2>1, <2>2
<1>3. ASSUME NEW s \in Slots PROVE IsFiniteSet(td(s))
  <2> DEFINE f == [t \in run[s].todo |-> t.id]
  <2>1. IsFiniteSet({f[t] : t \in run[s].todo})
    BY ImageFinite DEF TodoFinite
  <2>2. {f[t] : t \in run[s].todo} = td(s)
    OBVIOUS
  <2> QED
    BY <2>1, <2>2
<1>4. IsFiniteSet({kn(s) : s \in Slots})
  <2> DEFINE f == [s \in Slots |-> kn(s)]
  <2>1. IsFiniteSet({f[s] : s \in Slots})
    BY ImageFinite, SlotsFinite
  <2>2. {f[s] : s \in Slots} = {kn(s) : s \in Slots}
    OBVIOUS
  <2> QED
    BY <2>1, <2>2
<1>5. IsFiniteSet({td(s) : s \in Slots})
  <2> DEFINE f == [s \in Slots |-> td(s)]
  <2>1. IsFiniteSet({f[s] : s \in Slots})
    BY ImageFinite, SlotsFinite
  <2>2. {f[s] : s \in Slots} = {td(s) : s \in Slots}
    OBVIOUS
  <2> QED
    BY <2>1, <2>2
<1>6. IsFiniteSet(UNION {kn(s) : s \in Slots}) /\ IsFiniteSet(UNION {td(s) : s \in Slots})
  <2> DEFINE K == {kn(s) : s \in Slots}
             D == {td(s) : s \in Slots}
  <2>1. IsFiniteSet(K) /\ \A T \in K : IsFiniteSet(T)
    BY <1>2, <1>4
  <2>2. IsFiniteSet(D) /\ \A T \in D : IsFiniteSet(T)
    BY <1>3, <1>5
  <2> HIDE DEF K, D
  <2>3. IsFiniteSet(UNION K) /\ IsFiniteSet(UNION D)
    BY <2>1, <2>2, FS_UNION
  <2> QED
    BY <2>3 DEF K, D
<1>7. IsFiniteSet(held)
  BY <1>1, <1>6, FS_Union
<1>8. FreshId = CHOOSE n \in 1..(Cardinality(held) + 1) : n \notin held
  BY DEF FreshId
<1> HIDE DEF held
<1>9. FreshId \in 1..(Cardinality(held) + 1) /\ FreshId \notin held
  BY <1>7, <1>8, FreshExists
<1>10. Cardinality(held) \in Nat
  BY <1>7, FS_CardinalityType
<1> QED
  BY <1>9, <1>10 DEF held

\* A text that has an o-th chunk.
LEMMA SaidAt ==
  ASSUME NEW text \in Said, NEW o \in Ords, o <= Len(text)
  PROVE  text[o] \in Texts
<1>1. text \in Seq(Texts)
  <2>1. Contents \subseteq {c \in Seq(Texts) : Len(c) <= MaxChunks}
    BY SearchAssumption
  <2>2. <<>> \in Seq(Texts)
    OBVIOUS
  <2> QED
    BY <2>1, <2>2, Zenon DEF Said
<1>2. o \in 1..Len(text)
  BY <1>1, SearchAssumption DEF Ords
<1> QED
  BY <1>1, <1>2

\* Steps that leave every row its id, or delete it, keep the ids unique.
LEMMA IdsKept ==
  ASSUME UniqueIds, \A o \in Ords : chunk'[o].id \in {chunk[o].id, 0}
  PROVE  UniqueIds'
BY DEF UniqueIds, Rows, There

\* What a run reads of the document and of the chunks is what they may be.
LEMMA RunsProcess ==
  ASSUME Shape, RunsTyped, ChunksTyped, doc.text \in Contents, setting \in Models \cup {NoModel},
         TodoFinite, NEW j \in Slots, Process(j)
  PROVE  RunsTyped' /\ TodoFinite'
<1>1. CASE Pending(j)
  <2> DEFINE missing == {o \in Rows : chunk[o].vector[run[j].model] = None}
             X == {[at |-> o, id |-> chunk[o].id, text |-> chunk[o].text] : o \in missing}
             f == [o \in missing |-> [at |-> o, id |-> chunk[o].id, text |-> chunk[o].text]]
  <2>1. IsFiniteSet(missing)
    BY SlotsFinite, FS_Subset DEF Rows
  <2>2. IsFiniteSet({f[o] : o \in missing})
    BY <2>1, ImageFinite
  <2>3. {f[o] : o \in missing} = X
    OBVIOUS
  <2>4. X \in SUBSET Todos
    BY DEF Todos, ChunksTyped, Chunks, Rows, There
  <2>5. PICK pc : run' = [run EXCEPT ![j].pc = pc, ![j].known = NoRun.known, ![j].at = 0, ![j].todo = X]
    BY <1>1 DEF Pending
  <2> HIDE DEF X, f, missing
  <2>6. /\ run'[j].todo = X /\ run'[j].known = [o \in Ords |-> Brief(NoChunk)]
        /\ run'[j].text = run[j].text /\ run'[j].model = run[j].model
        /\ \A k \in Slots \ {j} : run'[k] = run[k]
    BY <2>5 DEF Shape, IsRun, NoRun
  <2>7. [o \in Ords |-> Brief(NoChunk)] \in [Ords -> Held]
    BY DEF Brief, NoChunk, Held
  <2> QED
    BY <2>2, <2>3, <2>4, <2>6, <2>7 DEF TodoFinite, RunsTyped
<1>2. CASE Write(j)
  <2>1. /\ run'[j].todo \subseteq run[j].todo /\ run'[j].known = run[j].known
        /\ run'[j].text = run[j].text /\ run'[j].model = run[j].model
        /\ \A k \in Slots \ {j} : run'[k] = run[k]
    <3> DEFINE batch == {t \in run[j].todo : Cardinality({u \in run[j].todo : u.at < t.at}) < BatchSize}
               rest  == run[j].todo \ batch
    <3>1. \E pc : \/ run' = [run EXCEPT ![j].pc = pc]
                  \/ run' = [run EXCEPT ![j].todo = rest, ![j].pc = pc]
      BY <1>2 DEF Write, Raised, Goto
    <3>2. rest \subseteq run[j].todo
      OBVIOUS
    <3> HIDE DEF rest
    <3> QED
      BY <3>1, <3>2 DEF Shape, IsRun
  <2> QED
    BY <2>1, FS_Subset DEF TodoFinite, RunsTyped
<1>3. CASE Existing(j)
  <2> DEFINE K == [o \in Ords |-> Brief(chunk[o])]
  <2>1. K \in [Ords -> Held]
    BY DEF Brief, ChunksTyped, Chunks, Held
  <2>2. PICK at : run' = [run EXCEPT ![j].pc = "chunk", ![j].known = K, ![j].at = at]
    BY <1>3 DEF Existing
  <2> HIDE DEF K
  <2>3. \A k \in Slots : /\ run'[k].todo = run[k].todo
                         /\ run'[k].known \in {run[k].known, K}
                         /\ run'[k].text = run[k].text /\ run'[k].model = run[k].model
    BY <2>2 DEF Shape, IsRun
  <2> QED
    BY <2>1, <2>3 DEF TodoFinite, RunsTyped
<1>4. CASE Gate(j) \/ Read(j)
  <2>1. \A k \in Slots : /\ run'[k].todo = run[k].todo /\ run'[k].known = run[k].known
                         /\ run'[k].text \in {run[k].text, <<>>, doc.text}
                         /\ run'[k].model \in {run[k].model, setting}
    BY <1>4 DEF Gate, Read, Shape, IsRun
  <2> QED
    BY <2>1 DEF TodoFinite, RunsTyped, Said
<1>5. CASE ~(Pending(j) \/ Write(j) \/ Existing(j) \/ Gate(j) \/ Read(j))
  <2>1. \A k \in Slots : /\ run'[k].todo = run[k].todo /\ run'[k].known = run[k].known
                         /\ run'[k].text = run[k].text /\ run'[k].model = run[k].model
    BY <1>5 DEF Process, Owner, Skip, Forget, ForgetState, Load, ReadState, Confirm,
       MarkIndexing, Create, Update, DropVectors, Trim, DeleteStale,
       Settle, Check, Follow, RecordError, Goto, Raised, Onward, UpdateState, OnlyRuns,
       ChunksChange, StateChanges, Stamps, Shape, IsRun
  <2> QED
    BY <2>1 DEF TodoFinite, RunsTyped
<1> QED
  BY <1>1, <1>2, <1>3, <1>4, <1>5

ChunksOK == ChunksTyped /\ UniqueIds

\* What every statement does with a chunk.
LEMMA ChunksProcess ==
  ASSUME Shape, RunsTyped, TodoFinite, ChunksOK, NEW j \in Slots, Process(j)
  PROVE  ChunksOK'
<1> DEFINE at == run[j].at
           text == run[j].text
<1>1. ChunksTyped /\ UniqueIds /\ text \in Said
  BY DEF ChunksOK, RunsTyped
<1>2. NoChunk \in Chunks /\ NoChunk.id = 0
  BY DEF NoChunk, Chunks
<1> SUFFICES ChunksTyped' /\ UniqueIds'
  BY DEF ChunksOK
<1>3. CASE Create(j) /\ chunk' # chunk
  <2> DEFINE new == [id |-> FreshId, text |-> text[at], vector |-> NoChunk.vector]
  <2>1. chunk' = [chunk EXCEPT ![at] = new] /\ at <= Len(text)
    BY <1>3 DEF Create, NoChunk
  <2>2. FreshId \in Nat \ {0} /\ \A o \in Ords : chunk[o].id # FreshId
    BY FreshIdFresh
  <2>3. ASSUME at \in Ords PROVE new \in Chunks /\ new.text \in Texts /\ new.id # 0
    BY <1>1, <1>2, <2>1, <2>2, <2>3, SaidAt DEF Chunks
  <2>4. new.id = FreshId
    OBVIOUS
  <2> HIDE DEF new
  <2>5. ChunksTyped'
    BY <1>1, <2>1, <2>3 DEF ChunksTyped, There
  <2>6. UniqueIds'
    BY <1>1, <2>1, <2>2, <2>4 DEF ChunksTyped, UniqueIds, Rows, There
  <2> QED
    BY <2>5, <2>6
<1>4. CASE Update(j) /\ chunk' # chunk
  <2>1. chunk' = [chunk EXCEPT ![at].text = text[at]] /\ at <= Len(text)
          /\ chunk[at].id # 0
    BY <1>4 DEF Update
  <2>2. ChunksTyped'
    BY <1>1, <2>1, SaidAt DEF ChunksTyped, Chunks, There
  <2>3. \A o \in Ords : chunk'[o].id = chunk[o].id
    BY <1>1, <2>1 DEF ChunksTyped, Chunks
  <2> QED
    BY <1>1, <2>2, <2>3, IdsKept
<1>5. CASE DropVectors(j) /\ chunk' # chunk
  <2>1. chunk' = [chunk EXCEPT ![at].vector = NoChunk.vector]
    BY <1>5 DEF DropVectors
  <2>2. \A o \in Ords : chunk[o] = NoChunk => chunk'[o] = NoChunk
    BY <1>1, <2>1 DEF ChunksTyped, NoChunk
  <2>3. ChunksTyped'
    BY <1>1, <1>2, <2>1, <2>2 DEF ChunksTyped, Chunks, There
  <2>4. \A o \in Ords : chunk'[o].id = chunk[o].id
    BY <1>1, <2>1 DEF ChunksTyped, Chunks
  <2> QED
    BY <1>1, <2>3, <2>4, IdsKept
<1>6. CASE Trim(j) \/ Forget(j)
  <2>1. \A o \in Ords : chunk'[o] \in {chunk[o], NoChunk}
    BY <1>6 DEF Trim, Forget, NoChunks
  <2>2. chunk' = [o \in Ords |-> chunk'[o]]
    BY <1>6 DEF Trim, Forget, NoChunks
  <2> QED
    BY <1>1, <1>2, <2>1, <2>2, IdsKept DEF ChunksTyped, There
<1>7. CASE Write(j) /\ chunk' # chunk
  <2> DEFINE batch   == {t \in run[j].todo : Cardinality({u \in run[j].todo : u.at < t.at}) < BatchSize}
             mine(o) == {t \in batch : t.id = chunk[o].id}
             one(o)  == CHOOSE t \in mine(o) : TRUE
  <2>1. chunk' = [o \in Ords |-> IF mine(o) = {} THEN chunk[o]
                                 ELSE [chunk[o] EXCEPT !.vector[run[j].model] = one(o).text]]
    BY <1>7 DEF Write
  <2>2. ASSUME NEW o \in Ords, mine(o) # {}
        PROVE  one(o) \in run[j].todo /\ one(o).id = chunk[o].id
    BY <2>2
  <2> HIDE DEF mine, one
  <2>3. ASSUME NEW o \in Ords, mine(o) # {}
        PROVE  one(o).text \in Texts /\ There(o)
    BY <2>2, <2>3 DEF RunsTyped, Todos, There
  <2>4. ChunksTyped'
    BY <1>1, <2>1, <2>3 DEF ChunksTyped, Chunks, There
  <2>5. \A o \in Ords : chunk'[o].id = chunk[o].id
    BY <1>1, <2>1 DEF ChunksTyped, Chunks
  <2> QED
    BY <1>1, <2>4, <2>5, IdsKept
<1>8. CASE DeleteStale(j)
  <2> DEFINE only(v) == [m \in Models |-> IF m = run[j].model THEN v[m] ELSE None]
  <2>1. chunk' = [o \in Ords |-> [chunk[o] EXCEPT !.vector = only(@)]]
    BY <1>8 DEF DeleteStale
  <2>2. ASSUME NEW o \in Ords PROVE only(chunk[o].vector) \in [Models -> Texts \cup {None}]
    BY <1>1 DEF ChunksTyped, Chunks
  <2>3. only(NoChunk.vector) = NoChunk.vector
    BY DEF NoChunk
  <2> HIDE DEF only
  <2>4. ChunksTyped'
    BY <1>1, <2>1, <2>2, <2>3 DEF ChunksTyped, There, Chunks, NoChunk
  <2>5. \A o \in Ords : chunk'[o].id = chunk[o].id
    BY <1>1, <2>1 DEF ChunksTyped, Chunks
  <2> QED
    BY <1>1, <2>4, <2>5, IdsKept
<1>9. CASE chunk' = chunk
  BY <1>1, <1>9 DEF ChunksTyped, UniqueIds, Rows, There
<1>10. \/ Create(j) \/ Update(j) \/ DropVectors(j) \/ Trim(j) \/ Forget(j) \/ Write(j)
       \/ DeleteStale(j) \/ chunk' = chunk
  BY DEF Process, Owner, Gate, Skip, ForgetState, Load, Read, ReadState, Confirm, MarkIndexing,
     Existing, Pending, Settle, Check, Follow, RecordError, OnlyRuns, StateChanges, Stamps
<1> QED
  BY <1>3, <1>4, <1>5, <1>6, <1>7, <1>8, <1>9, <1>10

RowsTyped ==
  /\ doc.state \in {"live", "removed", "gone"} /\ doc.text \in Contents
  /\ setting \in Models \cup {NoModel}
  /\ state = [status |-> state.status, text |-> state.text, model |-> state.model,
              current |-> state.current]
  /\ state.status \in {"none", "indexing", "indexed", "skipped", "failed"}

JobsTyped ==
  /\ job \in [Slots -> JobRow]
  /\ \A j \in Slots : /\ Running(j) <=> run[j].pc # "idle"
                      /\ Running(j) => job[j].attempts > 0

TypeInv == RowsTyped /\ JobsTyped /\ RunsTyped /\ TodoFinite /\ ChunksOK

\* The document, the setting and the state row stay what they may be.
LEMMA RowsStep == Shape /\ RowsTyped /\ [Next]_vars => RowsTyped'
<1> SUFFICES ASSUME Shape, RowsTyped, [Next]_vars PROVE RowsTyped'
  OBVIOUS
<1> USE DEF RowsTyped, Shape
<1>1. ASSUME NEW j \in Slots, Process(j) PROVE RowsTyped'
  <2>1. doc' = doc /\ setting' = setting
    BY <1>1 DEF Process, Owner, Gate, Skip, Forget, ForgetState, Load, Read, ReadState, Confirm,
       MarkIndexing, Existing, Create, Update, DropVectors, Trim, Pending, Write, DeleteStale,
       Settle, Check, Follow, RecordError, OnlyRuns, ChunksChange, StateChanges, Stamps
  <2>2. \/ state' = state
        \/ state' \in {Settled("skipped"), NoState, [state EXCEPT !.current = TRUE],
                       [state EXCEPT !.status = "indexing"], [state EXCEPT !.status = "failed"],
                       [status |-> "indexed", text |-> run[j].text, model |-> run[j].model,
                        current |-> TRUE]}
    BY <1>1 DEF Process, Owner, Gate, Skip, Forget, ForgetState, Load, Read, ReadState, Confirm,
       MarkIndexing, Existing, Create, Update, DropVectors, Trim, Pending, Write, DeleteStale,
       Settle, Check, Follow, RecordError, OnlyRuns, ChunksChange, StateChanges, Stamps, UpdateState
  <2> QED
    BY <2>1, <2>2 DEF Settled, NoState
<1>2. ASSUME NEW j \in Slots,
             Claim(j) \/ Completes(j) \/ Fails(j) \/ Throws(j) \/ KeyRefused(j)
               \/ WrongWidth(j) \/ RateLimited(j)
      PROVE  RowsTyped'
  BY <1>2 DEF Claim, Completes, Fails, Ends, Throws, KeyRefused, WrongWidth, RateLimited,
     Settled, NoState
<1>3. CASE Crash
  BY <1>3 DEF Crash
<1>4. CASE Edit \/ Name \/ Queue \/ Press \/ QueuePressed \/ Switch \/ RemoveDocument
  BY <1>4 DEF Edit, Name, Commits, Queue, Press, QueuePressed, Switch, RemoveDocument
<1>5. CASE PurgeChunks \/ PurgeState \/ PurgeRow \/ PurgeFails
  BY <1>5 DEF PurgeChunks, PurgeState, PurgeRow, PurgeFails, NoState
<1>6. CASE UNCHANGED vars
  BY <1>6 DEF vars
<1> QED
  BY <1>1, <1>2, <1>3, <1>4, <1>5, <1>6 DEF Next

\* A run has a place exactly while its row is running, and a running row has been charged.
LEMMA JobsStep == Shape /\ JobsTyped /\ [Next]_vars => JobsTyped'
<1> SUFFICES ASSUME Shape, JobsTyped, [Next]_vars PROVE JobsTyped'
  OBVIOUS
<1>e. ASSUME NEW s \in Slots, EnqueueOnce(s),
             \A k \in Slots : (run'[k].pc = "idle") <=> (run[k].pc = "idle")
      PROVE  JobsTyped'
  BY <1>e DEF JobsTyped, JobRow, EnqueueOnce, Enqueue, Active, Running, NoJob
<1>u. ASSUME job' = job, \A k \in Slots : (run'[k].pc = "idle") <=> (run[k].pc = "idle")
      PROVE  JobsTyped'
  BY <1>u DEF JobsTyped, Running
<1>1. ASSUME NEW j \in Slots, Process(j) PROVE JobsTyped'
  <2>1. \A k \in Slots : (run'[k].pc = "idle") <=> (run[k].pc = "idle")
    BY <1>1 DEF Process, Owner, Gate, Skip, Forget, ForgetState, Load, Read, ReadState, Confirm,
       MarkIndexing, Existing, Create, Update, DropVectors, Trim, Pending, Write, DeleteStale,
       Settle, Check, Follow, RecordError, Goto, Raised, Onward, UpdateState, At, Shape, IsRun
  <2>2. CASE Follow(j)
    <3>1. \E s \in Slots : EnqueueOnce(s)
      BY <2>2, SearchAssumption DEF Follow, EnqueueOnce
    <3> QED
      BY <2>1, <3>1, <1>e
  <2>3. CASE ~Follow(j)
    <3>1. job' = job
      BY <1>1, <2>3 DEF Process, Owner, Gate, Skip, Forget, ForgetState, Load, Read, ReadState,
         Confirm, MarkIndexing, Existing, Create, Update, DropVectors, Trim, Pending, Write,
         DeleteStale, Settle, Check, RecordError, OnlyRuns, ChunksChange, StateChanges, Stamps
    <3> QED
      BY <2>1, <3>1, <1>u
  <2> QED
    BY <2>2, <2>3
<1>2. ASSUME NEW j \in Slots, Claim(j) PROVE JobsTyped'
  BY <1>2 DEF Claim, ClaimJob, JobsTyped, JobRow, Running, NoRun, Shape
<1>3. ASSUME NEW j \in Slots, Completes(j) \/ Fails(j) \/ RateLimited(j) PROVE JobsTyped'
  <2>1. job[j] \in JobRow /\ (Running(j) => job[j].attempts > 0)
    BY DEF JobsTyped
  <2>2. \E row \in JobRow : row.state # "running" /\ job' = [job EXCEPT ![j] = row]
    <3> DEFINE again    == [job[j] EXCEPT !.state = "pending"]
               deferred == [state |-> "pending", attempts |-> job[j].attempts - 1, hits |-> job[j].hits + 1]
    <3>1. NoJob \in JobRow /\ NoJob.state # "running"
      BY DEF NoJob, JobRow
    <3>2. again \in JobRow /\ again.state # "running"
      BY <2>1 DEF JobRow
    <3>3. Running(j) => deferred \in JobRow /\ deferred.state # "running"
      BY <2>1 DEF JobRow
    <3>4. \/ job' = [job EXCEPT ![j] = NoJob] \/ job' = [job EXCEPT ![j] = again]
          \/ Running(j) /\ job' = [job EXCEPT ![j] = deferred]
      BY <1>3 DEF Completes, Complete, Fails, Fail, RateLimited, Defer
    <3> HIDE DEF again, deferred
    <3> QED
      BY <3>1, <3>2, <3>3, <3>4
  <2>3. run' = [run EXCEPT ![j] = NoRun]
    BY <1>3 DEF Completes, Fails, Ends, RateLimited
  <2> QED
    BY <2>2, <2>3 DEF JobsTyped, Running, NoRun, Shape
<1>4. ASSUME NEW j \in Slots, Throws(j) \/ KeyRefused(j) \/ WrongWidth(j) PROVE JobsTyped'
  <2>1. job' = job /\ \A k \in Slots : (run'[k].pc = "idle") <=> (run[k].pc = "idle")
    BY <1>4 DEF Throws, KeyRefused, WrongWidth, Goto, Raised, At, JobsTyped, Shape, IsRun
  <2> QED
    BY <2>1, <1>u
<1>5. CASE Crash
  BY <1>5 DEF Crash, AbandonAll, JobsTyped, JobRow, Running, NoRun
<1>6. CASE Queue \/ QueuePressed
  <2>1. run' = run /\ (job' = job \/ EnqueueOnce(Keyed))
    BY <1>6 DEF Queue, QueuePressed
  <2> QED
    BY <2>1, <1>e, <1>u, SearchAssumption
<1>7. CASE Edit \/ Name \/ Press \/ Switch \/ RemoveDocument
  BY <1>7, <1>u DEF Edit, Name, Commits, Press, Switch, RemoveDocument
<1>8. CASE PurgeChunks \/ PurgeState \/ PurgeRow \/ PurgeFails
  BY <1>8, <1>u DEF PurgeChunks, PurgeState, PurgeRow, PurgeFails
<1>9. CASE UNCHANGED vars
  BY <1>9, <1>u DEF vars
<1> QED
  BY <1>1, <1>2, <1>3, <1>4, <1>5, <1>6, <1>7, <1>8, <1>9 DEF Next

\* At first there are no chunks and no runs.
LEMMA TypeInit == Init => TypeInv
<1> SUFFICES ASSUME Init PROVE TypeInv
  OBVIOUS
<1>1. RowsTyped
  BY DEF Init, RowsTyped, NoState
<1>2. JobsTyped
  BY DEF Init, QueueInit, JobsTyped, JobRow, NoJob, Running, NoRun
<1>3. RunsTyped /\ TodoFinite
  BY FS_EmptySet DEF Init, RunsTyped, TodoFinite, NoRun, Said, Held, Brief, NoChunk
<1>4. ChunksOK
  BY DEF Init, ChunksOK, ChunksTyped, UniqueIds, Rows, There, NoChunk, Chunks
<1> QED
  BY <1>1, <1>2, <1>3, <1>4 DEF TypeInv

\* Every step keeps the types, and the ids of the chunks distinct.
LEMMA TypeStep == Shape /\ TypeInv /\ [Next]_vars => TypeInv'
<1> SUFFICES ASSUME Shape, TypeInv, [Next]_vars PROVE TypeInv'
  OBVIOUS
<1>1. RowsTyped' /\ JobsTyped'
  BY RowsStep, JobsStep DEF TypeInv
<1> SUFFICES RunsTyped' /\ TodoFinite' /\ ChunksOK'
  BY <1>1 DEF TypeInv
<1>2. ASSUME NEW j \in Slots, Process(j) PROVE RunsTyped' /\ TodoFinite' /\ ChunksOK'
  BY <1>2, RunsProcess, ChunksProcess DEF TypeInv, RowsTyped, ChunksOK
<1> DEFINE same(k)  == /\ run'[k].todo = run[k].todo /\ run'[k].known = run[k].known
                       /\ run'[k].text = run[k].text /\ run'[k].model = run[k].model
           reset(k) == /\ run'[k].todo = {} /\ run'[k].known = [o \in Ords |-> Brief(NoChunk)]
                       /\ run'[k].text = <<>> /\ run'[k].model = NoModel
<1>3. ASSUME \A k \in Slots : same(k) \/ reset(k)
      PROVE  RunsTyped' /\ TodoFinite'
  <2>1. [o \in Ords |-> Brief(NoChunk)] \in [Ords -> Held]
    BY DEF Brief, NoChunk, Held
  <2> QED
    BY <1>3, <2>1, FS_EmptySet DEF TypeInv, RunsTyped, TodoFinite, Said
<1>4. ASSUME chunk' = chunk PROVE ChunksOK'
  BY <1>4 DEF TypeInv, ChunksOK, ChunksTyped, UniqueIds, Rows, There
<1>5. ASSUME NEW j \in Slots,
             Claim(j) \/ Completes(j) \/ Fails(j) \/ Throws(j) \/ KeyRefused(j)
               \/ WrongWidth(j) \/ RateLimited(j)
      PROVE  chunk' = chunk /\ \A k \in Slots : same(k) \/ reset(k)
  BY <1>5 DEF Claim, Completes, Fails, Ends, Throws, KeyRefused, WrongWidth, RateLimited,
     Goto, Raised, NoRun, Shape, IsRun
<1>6. ASSUME Crash PROVE chunk' = chunk /\ \A k \in Slots : same(k) \/ reset(k)
  BY <1>6 DEF Crash, NoRun
<1>7. ASSUME \/ Edit \/ Name \/ Queue \/ Press \/ QueuePressed \/ Switch \/ RemoveDocument
             \/ PurgeState \/ PurgeRow \/ PurgeFails \/ UNCHANGED vars
      PROVE  chunk' = chunk /\ \A k \in Slots : same(k) \/ reset(k)
  BY <1>7 DEF Edit, Name, Commits, Queue, Press, QueuePressed, Switch, RemoveDocument,
     PurgeState, PurgeRow, PurgeFails, vars
<1>8. CASE PurgeChunks
  <2>1. \A k \in Slots : same(k)
    BY <1>8 DEF PurgeChunks
  <2>2. ChunksOK'
    BY <1>8 DEF PurgeChunks, NoChunks, ChunksOK, ChunksTyped, Chunks, UniqueIds, Rows, There, NoChunk
  <2> QED
    BY <2>1, <2>2, <1>3
<1> HIDE DEF same, reset
<1> QED
  BY <1>2, <1>3, <1>4, <1>5, <1>6, <1>7, <1>8 DEF Next

\* The inductive form of the types: what the tables, the runs and the queue may hold, and that
\* the ids of chunks are distinct, which the statements of a run rely on.
THEOREM TypesHold == Spec => []TypeInv
  BY TypeInit, TypeStep, ShapeKept, PTL DEF Spec

\* Types: rows and runs are what the code's tables and variables may hold, and no two chunks
\* have one id, so that a vector is written under the chunk it was computed for.
THEOREM SearchTypeOKHolds == Spec => []SearchTypeOK
<1>1. TypeInv => SearchTypeOK
  BY DEF TypeInv, RowsTyped, JobsTyped, RunsTyped, ChunksOK, ChunksTyped, UniqueIds, Rows, There,
     Todos, SearchTypeOK, NoChunk
<1> QED
  BY <1>1, TypesHold, PTL

-------------------------------------------------------------------------------
(* VectorsFit.                                                             *)

Fit(o) == \A m \in Models : chunk[o].vector[m] \in {None, chunk[o].text}

\* One run at a time, so what it has read of the chunks is what they are: the chunk it is about
\* to strip is the one it has rewritten, and the texts it embeds are those of their chunks.
Alone    == \A s, k \in Slots : Busy(s) /\ Busy(k) => s = k
Fits     == \A o \in Rows : Fit(o) \/ \E j \in Slots : At(j, "drop") /\ run[j].at = o
Dropping == \A j \in Slots, o \in Rows :
              At(j, "drop") /\ run[j].at = o => chunk[o].id = run[j].known[o].id
Embeds   == \A j \in Slots, o \in Rows :
              At(j, "write") => \A t \in run[j].todo : t.id = chunk[o].id => t.text = chunk[o].text

FitsInv == past.torn \/ past.overlap \/ (Alone /\ Fits /\ Dropping /\ Embeds)

\* A run that neither rewrites chunks nor begins to embed.
Quietly(k) ==
  \/ run'[k] = run[k] /\ (Running(k)' <=> Running(k))
  \/ ~At(k, "drop") /\ run'[k].pc \notin {"drop", "write"} /\ (Busy(k)' => Busy(k))

\* A step that leaves the chunks alone, and starts no rewriting or embedding, keeps them fitting.
LEMMA FitsCalm ==
  ASSUME FitsInv, chunk' = chunk, past.torn => past'.torn, past.overlap => past'.overlap,
         \A k \in Slots : Quietly(k)
  PROVE  FitsInv'
<1> SUFFICES ASSUME Alone, Fits, Dropping, Embeds PROVE (Alone /\ Fits /\ Dropping /\ Embeds)'
  BY DEF FitsInv
<1>1. \A k \in Slots : Busy(k)' => Busy(k)
  BY DEF Quietly, Busy
<1>2. \A k \in Slots : /\ At(k, "drop") => At(k, "drop")' /\ run'[k] = run[k]
                       /\ At(k, "drop")' => At(k, "drop") /\ run'[k] = run[k]
                       /\ At(k, "write")' => At(k, "write") /\ run'[k] = run[k]
  BY DEF Quietly, At
<1> QED
  BY <1>1, <1>2 DEF Alone, Fits, Fit, Dropping, Embeds, Rows, There

\* The steps of a run while no other is under way.
LEMMA FitsChunks ==
  ASSUME Shape, TypeInv, Alone, Fits, Dropping, Embeds, NEW j \in Slots,
         \/ Create(j) \/ Update(j) \/ DropVectors(j) \/ Trim(j) \/ Forget(j)
         \/ Pending(j) \/ Write(j) \/ DeleteStale(j)
  PROVE  (Alone /\ Fits /\ Dropping /\ Embeds)'
<1> DEFINE at == run[j].at
<1>1. ChunksTyped /\ UniqueIds
  BY DEF TypeInv, ChunksOK
<1>2. job' = job /\ \A k \in Slots \ {j} : run'[k] = run[k]
  BY DEF Create, Update, DropVectors, Trim, Forget, Pending, Write, DeleteStale, Goto, Raised,
     Onward, ChunksChange, OnlyRuns, Shape
<1>3. Running(j) /\ Busy(j)
  BY DEF Create, Update, DropVectors, Trim, Forget, Pending, Write, DeleteStale, At, Busy
<1>4. \A k \in Slots \ {j} : ~Busy(k) /\ ~Busy(k)'
  BY <1>2, <1>3 DEF Alone, Busy
<1>5. \A k \in Slots \ {j} : ~At(k, "drop")' /\ ~At(k, "write")' /\ ~At(k, "drop")
  BY <1>4 DEF Busy, At
<1>6. Alone'
  BY <1>4 DEF Alone
<1>7. ASSUME NEW o \in Rows, run[j].pc # "drop" PROVE Fit(o)
  BY <1>5, <1>7 DEF Fits, At
<1>8. ASSUME run'[j].pc \notin {"drop", "write"}, \A o \in Ords : There(o)' => Fit(o)'
      PROVE  (Fits /\ Dropping /\ Embeds)'
  BY <1>5, <1>8 DEF Fits, Dropping, Embeds, Rows, At
<1>9. CASE Create(j)
  <2> DEFINE new == [id |-> FreshId, text |-> run[j].text[at], vector |-> NoChunk.vector]
  <2>1. chunk' = chunk \/ chunk' = [chunk EXCEPT ![at] = new]
    BY <1>9 DEF Create, NoChunk
  <2>2. \A m \in Models : new.vector[m] = None
    BY DEF NoChunk
  <2> HIDE DEF new
  <2>3. \A o \in Ords : chunk'[o] = chunk[o] \/ chunk'[o] = new
    BY <1>1, <2>1 DEF ChunksTyped
  <2>4. run'[j].pc \notin {"drop", "write"} /\ run[j].pc # "drop"
    BY <1>9 DEF Create, Onward, Goto, Raised, At, Shape, IsRun
  <2>5. \A o \in Ords : There(o)' => Fit(o)'
    BY <1>7, <2>2, <2>3, <2>4 DEF Fit, Rows, There
  <2> QED
    BY <1>6, <1>8, <2>4, <2>5
<1>10. CASE Update(j)
  <2>1. run[j].pc # "drop" /\ run'[j].pc # "write"
    BY <1>10 DEF Update, Goto, Raised, At, Shape, IsRun
  <2>2. CASE chunk[at].id # run[j].known[at].id
    <3>1. chunk' = chunk /\ run'[j].pc # "drop"
      BY <1>10, <2>2 DEF Update, Goto, Raised, At, Shape, IsRun
    <3> QED
      BY <1>6, <1>7, <1>8, <2>1, <3>1 DEF Fit, Rows, There
  <2>3. CASE chunk[at].id = run[j].known[at].id
    <3>1. /\ chunk' = [chunk EXCEPT ![at].text = run[j].text[at]]
          /\ run' = [run EXCEPT ![j].pc = "drop"]
      BY <1>10, <2>3 DEF Update, Goto
    <3>2. run'[j].pc = "drop" /\ run'[j].at = at /\ run'[j].known = run[j].known /\ At(j, "drop")'
      BY <1>2, <1>3, <3>1 DEF Shape, IsRun, At, Running
    <3>3. \A o \in Ords : chunk'[o].id = chunk[o].id /\ (o # at => chunk'[o] = chunk[o])
      BY <1>1, <3>1 DEF ChunksTyped, Chunks
    <3>4. Fits'
      BY <1>7, <2>1, <3>2, <3>3 DEF Fits, Fit, Rows, There
    <3>5. Dropping'
      BY <1>5, <2>3, <3>2, <3>3 DEF Dropping, Rows, There
    <3>6. Embeds'
      BY <1>5, <2>1 DEF Embeds, At
    <3> QED
      BY <1>6, <3>4, <3>5, <3>6
  <2> QED
    BY <2>2, <2>3
<1>11. CASE DropVectors(j)
  <2>1. run[j].pc = "drop" /\ run'[j].pc = "chunk"
    BY <1>11 DEF DropVectors, Onward, At, Shape, IsRun
  <2>2. ASSUME NEW o \in Ords, There(o)' PROVE Fit(o)'
    <3>1. CASE o # at
      <4>1. chunk'[o] = chunk[o]
        BY <1>11, <3>1 DEF DropVectors
      <4> QED
        BY <1>5, <2>2, <3>1, <4>1 DEF Fits, Fit, Rows, There
    <3>2. CASE o = at
      <4>1. CASE There(o)
        <5>1. chunk[at].id = run[j].known[at].id
          BY <1>3, <2>1, <3>2, <4>1 DEF Dropping, At, Rows
        <5>2. chunk' = [chunk EXCEPT ![at].vector = NoChunk.vector]
          BY <1>11, <5>1 DEF DropVectors
        <5>3. chunk'[o].vector = NoChunk.vector
          BY <1>1, <3>2, <5>2 DEF ChunksTyped, Chunks
        <5> QED
          BY <5>3 DEF Fit, NoChunk
      <4>2. CASE ~There(o)
        <5>1. \A q \in Ords : chunk'[q].id = chunk[q].id
          BY <1>1, <1>11 DEF DropVectors, ChunksTyped, Chunks
        <5> QED
          BY <2>2, <4>2, <5>1 DEF There
      <4> QED
        BY <4>1, <4>2
    <3> QED
      BY <3>1, <3>2
  <2> QED
    BY <1>6, <1>8, <2>1, <2>2
<1>12. CASE Trim(j) \/ Forget(j)
  <2>1. run[j].pc # "drop" /\ run'[j].pc \notin {"drop", "write"}
    BY <1>12 DEF Trim, Forget, Goto, At, Shape, IsRun
  <2>2. \A o \in Ords : chunk'[o] \in {chunk[o], NoChunk}
    BY <1>12 DEF Trim, Forget, NoChunks
  <2>3. \A o \in Ords : There(o)' => Fit(o)'
    BY <1>7, <2>1, <2>2 DEF Fit, Rows, There, NoChunk
  <2> QED
    BY <1>6, <1>8, <2>1, <2>3
<1>13. CASE Pending(j)
  <2> DEFINE missing == {o \in Rows : chunk[o].vector[run[j].model] = None}
             X == {[at |-> o, id |-> chunk[o].id, text |-> chunk[o].text] : o \in missing}
  <2>1. run[j].pc # "drop" /\ chunk' = chunk
    BY <1>13 DEF Pending, At, OnlyRuns
  <2>2. PICK pc \in {"stale", "write"} :
          run' = [run EXCEPT ![j].pc = pc, ![j].known = NoRun.known, ![j].at = 0, ![j].todo = X]
    BY <1>13 DEF Pending
  <2>3. \A t \in X : \E o \in Rows : t.id = chunk[o].id /\ t.text = chunk[o].text
    OBVIOUS
  <2> HIDE DEF X
  <2>4. run'[j].pc # "drop" /\ run'[j].todo = X
    BY <2>2 DEF Shape, IsRun
  <2>5. Fits' /\ Dropping'
    BY <1>5, <1>7, <2>1, <2>4 DEF Fits, Fit, Dropping, Rows, There, At
  <2>6. Embeds'
    BY <1>1, <1>5, <2>1, <2>3, <2>4 DEF Embeds, UniqueIds, Rows, There
  <2> QED
    BY <1>6, <2>5, <2>6
<1>14. CASE Write(j)
  <2>1. run[j].pc = "write" /\ At(j, "write")
    BY <1>14 DEF Write, At
  <2> DEFINE batch   == {t \in run[j].todo : Cardinality({u \in run[j].todo : u.at < t.at}) < BatchSize}
             mine(o) == {t \in batch : t.id = chunk[o].id}
             one(o)  == CHOOSE t \in mine(o) : TRUE
             rest    == run[j].todo \ batch
  <2>2. \/ chunk' = chunk
        \/ chunk' = [o \in Ords |-> IF mine(o) = {} THEN chunk[o]
                                    ELSE [chunk[o] EXCEPT !.vector[run[j].model] = one(o).text]]
    BY <1>14 DEF Write
  <2>3. ASSUME NEW o \in Ords, mine(o) # {}
        PROVE  one(o) \in run[j].todo /\ one(o).id = chunk[o].id
    BY <2>3
  <2>4. \E pc : \/ run' = [run EXCEPT ![j].pc = pc] /\ pc \in {"record", "failed"}
                \/ run' = [run EXCEPT ![j].todo = rest, ![j].pc = pc] /\ pc \in {"stale", "write"}
    BY <1>14 DEF Write, Raised, Goto
  <2>5. rest \subseteq run[j].todo
    OBVIOUS
  <2> HIDE DEF mine, one, rest
  <2>6. run'[j].pc # "drop" /\ (run'[j].pc = "write" => run'[j].todo \subseteq run[j].todo)
    BY <2>4, <2>5 DEF Shape, IsRun
  <2>7. \A o \in Ords : chunk'[o].id = chunk[o].id /\ chunk'[o].text = chunk[o].text
    BY <1>1, <2>2 DEF ChunksTyped, Chunks
  <2>8. ASSUME NEW o \in Rows PROVE Fit(o)'
    <3>1. Fit(o)
      BY <1>7, <2>1
    <3>2. mine(o) # {} => one(o).text = chunk[o].text
      BY <2>1, <2>3 DEF Embeds, Rows
    <3>3. \A m \in Models : \/ chunk'[o].vector[m] = chunk[o].vector[m]
                            \/ mine(o) # {} /\ chunk'[o].vector[m] = one(o).text
      BY <1>1, <2>2 DEF ChunksTyped, Chunks, Rows
    <3> QED
      BY <2>7, <3>1, <3>2, <3>3 DEF Fit, Rows
  <2>9. Rows' = Rows
    BY <2>7 DEF Rows, There
  <2>10. Fits' /\ Dropping'
    BY <1>5, <2>6, <2>8, <2>9 DEF Fits, Dropping, At
  <2>11. Embeds'
    BY <1>5, <2>1, <2>6, <2>7, <2>9 DEF Embeds, Rows, At
  <2> QED
    BY <1>6, <2>10, <2>11
<1>15. CASE DeleteStale(j)
  <2> DEFINE only(v) == [m \in Models |-> IF m = run[j].model THEN v[m] ELSE None]
  <2>1. run[j].pc # "drop" /\ run'[j].pc \notin {"drop", "write"}
    BY <1>15 DEF DeleteStale, Goto, At, Shape, IsRun
  <2>2. chunk' = [o \in Ords |-> [chunk[o] EXCEPT !.vector = only(@)]]
    BY <1>15 DEF DeleteStale
  <2>3. \A v : \A m \in Models : only(v)[m] \in {v[m], None}
    OBVIOUS
  <2> HIDE DEF only
  <2>4. \A o \in Ords : /\ chunk'[o].id = chunk[o].id /\ chunk'[o].text = chunk[o].text
                        /\ chunk'[o].vector = only(chunk[o].vector)
    BY <1>1, <2>2 DEF ChunksTyped, Chunks
  <2>5. \A o \in Ords : There(o)' => Fit(o)'
    BY <1>7, <2>1, <2>3, <2>4 DEF Fit, Rows, There
  <2> QED
    BY <1>6, <1>8, <2>1, <2>5
<1> QED
  BY <1>9, <1>10, <1>11, <1>12, <1>13, <1>14, <1>15

\* A step of a run keeps the vectors fitting.
LEMMA FitsProcess ==
  ASSUME Shape, TypeInv, FitsInv, NEW j \in Slots, Process(j)
  PROVE  FitsInv'
<1>1. past'.torn = past.torn /\ past'.overlap = past.overlap
  BY DEF Process, Owner, Gate, Skip, Forget, ForgetState, Load, Read, ReadState, Confirm,
     MarkIndexing, Existing, Create, Update, DropVectors, Trim, Pending, Write, DeleteStale,
     Settle, Check, Follow, RecordError, OnlyRuns, ChunksChange, StateChanges, Stamps, Shape
<1>2. CASE \/ Create(j) \/ Update(j) \/ DropVectors(j) \/ Trim(j) \/ Forget(j)
           \/ Pending(j) \/ Write(j) \/ DeleteStale(j)
  BY <1>1, <1>2, FitsChunks DEF FitsInv
<1>3. CASE \/ Owner(j) \/ Gate(j) \/ Skip(j) \/ ForgetState(j) \/ Load(j) \/ Read(j)
           \/ ReadState(j) \/ Confirm(j) \/ MarkIndexing(j) \/ Existing(j) \/ Settle(j)
           \/ Check(j) \/ Follow(j) \/ RecordError(j)
  <2> USE DEF Owner, Gate, Skip, ForgetState, Load, Read, ReadState, Confirm, MarkIndexing,
     Existing, Settle, Check, Follow, RecordError
  <2>1. chunk' = chunk
    BY <1>3 DEF OnlyRuns, StateChanges, Stamps
  <2>2. \A k \in Slots : Running(k)' <=> Running(k)
    BY <1>3 DEF OnlyRuns, StateChanges, Stamps, Enqueue, Active, Running, TypeInv, JobsTyped, NoJob
  <2>3. \A k \in Slots \ {j} : run'[k] = run[k]
    BY <1>3 DEF Goto, Raised, UpdateState, Shape
  <2>4. run[j].pc \notin {"drop", "idle", "done"} /\ run'[j].pc \notin {"drop", "write"}
    BY <1>3 DEF Goto, Raised, UpdateState, At, Shape, IsRun
  <2>5. \A k \in Slots : Quietly(k)
    BY <2>2, <2>3, <2>4 DEF Quietly, At, Busy
  <2> QED
    BY <1>1, <2>1, <2>5, FitsCalm
<1> QED
  BY <1>2, <1>3 DEF Process

\* Every step keeps the vectors fitting.
LEMMA FitsStep == Shape /\ TypeInv /\ FitsInv /\ [Next]_vars => FitsInv'
<1> SUFFICES ASSUME Shape, TypeInv, FitsInv, [Next]_vars PROVE FitsInv'
  OBVIOUS
<1>1. ASSUME NEW j \in Slots, Process(j) PROVE FitsInv'
  BY <1>1, FitsProcess
<1>2. ASSUME NEW j \in Slots, Claim(j) PROVE FitsInv'
  <2> SUFFICES ASSUME ~past'.torn, ~past'.overlap PROVE (Alone /\ Fits /\ Dropping /\ Embeds)'
    BY DEF FitsInv
  <2>1. ~past.torn /\ ~past.overlap /\ \A s \in Slots : ~Busy(s)
    BY <1>2 DEF Claim, Shape
  <2>2. chunk' = chunk /\ run'[j].pc = "owner" /\ \A k \in Slots \ {j} : run'[k] = run[k]
    BY <1>2 DEF Claim, NoRun, Shape
  <2>3. \A k \in Slots : ~At(k, "drop") /\ ~At(k, "drop")' /\ ~At(k, "write")'
    BY <2>1, <2>2 DEF At, Busy
  <2>4. Fits /\ \A k \in Slots : Busy(k)' => k = j
    BY <2>1, <2>2 DEF FitsInv, Busy
  <2> QED
    BY <2>2, <2>3, <2>4 DEF Alone, Fits, Fit, Dropping, Embeds, Rows, There
<1>3. ASSUME NEW j \in Slots, Completes(j) \/ Fails(j) \/ KeyRefused(j) \/ WrongWidth(j) \/ RateLimited(j)
      PROVE  FitsInv'
  <2>1. chunk' = chunk /\ past' = past
    BY <1>3 DEF Completes, Fails, Ends, KeyRefused, WrongWidth, RateLimited
  <2>2. \A k \in Slots \ {j} : run'[k] = run[k] /\ (Running(k)' <=> Running(k))
    BY <1>3 DEF Completes, Complete, Fails, Fail, Ends, KeyRefused, WrongWidth, RateLimited, Defer,
       Goto, Running, Shape, TypeInv, JobsTyped
  <2>3. ~At(j, "drop") /\ run'[j].pc \in {"idle", "skip", "record"} /\ (Busy(j)' => Busy(j))
    BY <1>3 DEF Completes, Fails, Ends, KeyRefused, WrongWidth, RateLimited, Goto, At, Running,
       Busy, NoRun, Shape, IsRun
  <2>4. \A k \in Slots : Quietly(k)
    BY <2>2, <2>3 DEF Quietly
  <2> QED
    BY <2>1, <2>4, FitsCalm
<1>4. ASSUME NEW j \in Slots, Throws(j) PROVE FitsInv'
  <2> SUFFICES ASSUME ~past'.torn PROVE FitsInv'
    BY DEF FitsInv
  <2>1. chunk' = chunk /\ job' = job /\ past'.overlap = past.overlap /\ ~past.torn /\ ~At(j, "drop")
    BY <1>4 DEF Throws, Cut, Shape
  <2>2. /\ \A k \in Slots \ {j} : run'[k] = run[k]
        /\ run'[j].pc \in {"record", "failed"} /\ run[j].pc \notin {"done", "failed", "idle"}
    BY <1>4 DEF Throws, Raised, Goto, TypeInv, JobsTyped, Shape, IsRun
  <2>3. \A k \in Slots : Quietly(k)
    BY <2>1, <2>2 DEF Quietly, Running, Busy
  <2> QED
    BY <2>1, <2>3, FitsCalm
<1>5. CASE Crash
  <2> SUFFICES ASSUME ~past'.torn PROVE FitsInv'
    BY DEF FitsInv
  <2>1. /\ chunk' = chunk /\ past'.overlap = past.overlap /\ ~past.torn
        /\ \A k \in Slots : ~At(k, "drop") /\ run'[k].pc = "idle"
    BY <1>5 DEF Crash, Cut, NoRun, Shape
  <2>2. \A k \in Slots : Quietly(k)
    BY <2>1 DEF Quietly, Busy
  <2> QED
    BY <2>1, <2>2, FitsCalm
<1>6. CASE \/ Edit \/ Name \/ Queue \/ Press \/ QueuePressed \/ Switch \/ RemoveDocument
           \/ PurgeState \/ PurgeRow \/ PurgeFails \/ UNCHANGED vars
  <2> USE DEF Edit, Name, Commits, Queue, Press, QueuePressed, Switch, RemoveDocument,
     PurgeState, PurgeRow, PurgeFails, vars
  <2>1. chunk' = chunk /\ run' = run /\ past'.torn = past.torn /\ past'.overlap = past.overlap
    BY <1>6 DEF Shape
  <2>2. \A k \in Slots : Running(k)' <=> Running(k)
    BY <1>6 DEF EnqueueOnce, Enqueue, Active, Running, TypeInv, JobsTyped, NoJob
  <2>3. \A k \in Slots : Quietly(k)
    BY <2>1, <2>2 DEF Quietly
  <2> QED
    BY <2>1, <2>3, FitsCalm
<1>7. CASE PurgeChunks
  <2>1. /\ run' = run /\ job' = job /\ past'.torn = past.torn /\ past'.overlap = past.overlap
        /\ Rows' = {}
    BY <1>7 DEF PurgeChunks, NoChunks, NoChunk, Rows, There, Shape
  <2> QED
    BY <2>1 DEF FitsInv, Alone, Busy, Fits, Dropping, Embeds
<1> QED
  BY <1>1, <1>2, <1>3, <1>4, <1>5, <1>6, <1>7 DEF Next

\* As long as no two runs of a document were under way at once and none was cut off between the
\* two statements, every vector is of the text its chunk has, or about to go.
THEOREM VectorsFitHolds == Spec => []VectorsFit
<1>1. Init => FitsInv
  BY DEF Init, FitsInv, Alone, Busy, NoRun, Fits, Dropping, Embeds, Rows, There, NoChunk
<1>2. FitsInv => VectorsFit
  BY DEF FitsInv, VectorsFit, Fits, Fit
<1> QED
  BY <1>1, <1>2, FitsStep, TypesHold, ShapeKept, PTL DEF Spec

-------------------------------------------------------------------------------
(* CaughtUp and StaleIsOffered.                                            *)

\* The chunks are those of a text.
Holds(text) == \A o \in Ords : chunk[o].text = IF o <= Len(text) THEN text[o] ELSE None

\* Each has a vector of m.
Vectored(m) == \A o \in Rows : chunk[o].vector[m] # None

\* How far run j has come, as long as it is the only one and the document is there.
Progress(j) ==
  LET pc == run[j].pc
      text == run[j].text
      done(o) == o < run[j].at \/ (pc = "drop" /\ o = run[j].at)
  IN
  /\ pc \notin {"forget", "forgetState"}
  /\ pc \in {"load", "read", "state", "confirm", "mark"} \cup Tried => run[j].model \in Models
  /\ pc \in Tried => state.status \notin {"none", "indexed"}
  /\ pc \in {"chunk", "drop"} =>
       /\ run[j].at \in Nat \ {0} /\ (pc = "drop" => run[j].at <= Len(text))
       /\ \A o \in Ords : IF done(o) THEN o <= Len(text) => chunk[o].text = text[o]
                          ELSE run[j].known[o] = Brief(chunk[o])
  /\ pc \in {"pending", "write", "stale", "settle"} => Holds(text)
  /\ pc = "write" =>
       /\ \A o \in Rows : \/ chunk[o].vector[run[j].model] # None
                          \/ \E t \in run[j].todo : t.id = chunk[o].id
       /\ \A t \in run[j].todo : \E o \in Rows : t.id = chunk[o].id
  /\ pc \in {"stale", "settle"} => Vectored(run[j].model)
  /\ pc \in {"confirm", "check", "follow"} => state.status = "indexed" /\ state.text = text

\* What the state row says of the index is so.
Told ==
  /\ state.status = "indexed" => /\ Holds(state.text) /\ Vectored(state.model)
                                 /\ state.model \in Models
  /\ state.status = "indexed" /\ state.current /\ past.stamp = "fresh" => state.text = doc.text

IndexInv == past.overlap \/ ~Live \/ (Alone /\ Told /\ \A j \in Slots : Progress(j))

\* Somebody is going to look at the document.
Awaited == owed > 0 \/ \E j \in Slots : job[j].state = "pending" \/ Busy(j)

\* Where nothing has failed an edit is indexed, or somebody is going to look.
WorkInv ==
  used.faults = 0 /\ Live /\ ~past.overlap =>
    /\ \A j \in Slots : run[j].pc \notin {"record", "failed"} /\ job[j].state # "abandoned"
    /\ (\E j \in Slots : run[j].pc = "done") =>
         state.status \in {"indexed", "skipped"} \/ \E k \in Slots : Busy(k)
    /\ \/ past.stamp \in {"missed", "named"} \/ Awaited
       \/ state.status = "indexed" /\ state.text = doc.text
       \/ state.status = "skipped"

\* A text has no more chunks than there are ordinals, each with a text of its own.
LEMMA SaidIs ==
  ASSUME NEW text \in Said
  PROVE  /\ text \in Seq(Texts) /\ Len(text) <= MaxChunks
         /\ \A o \in 1..Len(text) : o \in Ords /\ text[o] \in Texts
<1>1. Contents \subseteq {c \in Seq(Texts) : Len(c) <= MaxChunks} /\ MaxChunks \in Nat
  BY SearchAssumption
<1>2. text \in Seq(Texts) /\ Len(text) <= MaxChunks
  <2>1. CASE text = <<>>
    BY <1>1, <2>1
  <2>2. CASE text \in Contents
    BY <1>1, <2>2, Zenon
  <2> QED BY <2>1, <2>2 DEF Said
<1> QED BY <1>1, <1>2 DEF Ords

\* The ordinals that NextOrd passes over are those whose text is the same.
LEMMA NextOrdIs ==
  ASSUME NEW known, NEW text \in Said, NEW from \in Nat \ {0}, from <= Len(text) + 1
  PROVE  /\ NextOrd(known, text, from) \in Nat /\ NextOrd(known, text, from) >= from
         /\ \A o \in Ords : from <= o /\ o < NextOrd(known, text, from) /\ o <= Len(text)
                              => known[o].text = text[o]
<1> DEFINE differs == {o \in from..Len(text) : known[o].text # text[o]}
           next == IF differs = {} THEN Len(text) + 1 ELSE Min(differs)
<1>1. Len(text) \in Nat /\ Ords \subseteq Nat
  BY SaidIs, SearchAssumption DEF Ords
<1>2. NextOrd(known, text, from) = next
  BY DEF NextOrd
<1>3. CASE differs = {}
  <2>1. next = Len(text) + 1
    BY <1>3
  <2>2. ASSUME NEW o \in Ords, from <= o, o <= Len(text) PROVE known[o].text = text[o]
    <3>1. o \in from..Len(text) /\ o \notin differs
      BY <1>1, <1>3, <2>2
    <3> QED BY <3>1
  <2> QED BY <1>1, <1>2, <2>1, <2>2
<1>4. CASE differs # {}
  <2> DEFINE D == differs
  <2>1. D \subseteq Nat /\ D # {}
    BY <1>1, <1>4
  <2> HIDE DEF D
  <2>2. PICK x \in D : \A y \in D : ~ (<<y, x>> \in OpToRel(<, Nat))
    BY <2>1, WFMin, NatLessThanWellFounded
  <2>3. \A y \in D : x <= y
    <3> TAKE y \in D
    <3>1. y \in Nat /\ x \in Nat /\ ~ (y < x)
      BY <2>1, <2>2 DEF OpToRel
    <3> QED BY <3>1
  <2>4. Min(D) \in D /\ \A y \in D : Min(D) <= y
    BY <2>3 DEF Min
  <2>5. next = Min(D)
    BY <1>4 DEF D
  <2>6. Min(D) \in from..Len(text)
    BY <2>4 DEF D
  <2>7. ASSUME NEW o \in Ords, from <= o, o < Min(D), o <= Len(text) PROVE known[o].text = text[o]
    <3>1. o \in from..Len(text) /\ o \notin D
      BY <1>1, <2>4, <2>6, <2>7
    <3> QED BY <3>1 DEF D
  <2>8. NextOrd(known, text, from) = Min(D)
    BY <1>2, <2>5
  <2>9. Min(D) \in Nat /\ Min(D) >= from
    BY <1>1, <2>6
  <2> HIDE DEF differs, next
  <2> QED BY <2>7, <2>8, <2>9
<1> QED BY <1>3, <1>4

\* A run at a step of which nothing is said.
LEMMA NoProgress ==
  ASSUME NEW k \in Slots,
         run'[k].pc \in {"idle", "owner", "gate", "skip", "record", "failed", "done"}
  PROVE  Progress(k)'
BY DEF Progress, Tried

\* A run of which nothing changes.
LEMMA SameProgress ==
  ASSUME NEW k \in Slots, Progress(k), run'[k] = run[k], chunk' = chunk,
         state'.status = state.status, state'.text = state.text
  PROVE  Progress(k)'
BY DEF Progress, Holds, Vectored, Rows, There

\* Neither the index nor the document changes.
LEMMA SameTold ==
  ASSUME Told, chunk' = chunk, state' = state, doc' = doc,
         past'.stamp \in {past.stamp, "named", "missed"}
  PROVE  Told'
BY DEF Told, Holds, Vectored, Rows, There

\* A run of a document that is there, while no other is under way.
Indexing(j) == Shape /\ TypeInv /\ ~past.overlap /\ Live /\ Alone /\ Told /\ Progress(j)

\* What a run reads.
LEMMA IndexReads ==
  ASSUME NEW j \in Slots, Indexing(j),
         \/ Owner(j) \/ Gate(j) \/ Load(j) \/ Read(j) \/ ReadState(j) \/ Existing(j) \/ Pending(j)
         \/ Check(j) \/ Follow(j)
  PROVE  Told' /\ Progress(j)'
<1>1. Told'
  BY SameTold DEF Indexing, Owner, Gate, Load, Read, ReadState, Existing, Pending, Check, Follow,
     OnlyRuns, Stamps, Shape
<1> DEFINE text == run[j].text
<1>2. text \in Said /\ run[j].model \in Models \cup {NoModel} /\ setting \in Models \cup {NoModel}
  BY DEF Indexing, TypeInv, RunsTyped, RowsTyped
<1>3. chunk' = chunk /\ state' = state
  BY DEF Owner, Gate, Load, Read, ReadState, Existing, Pending, Check, Follow, OnlyRuns, Stamps
<1>4. CASE Owner(j) \/ Follow(j)
  <2>1. run'[j].pc \in {"gate", "done"}
    BY <1>4 DEF Indexing, Owner, Follow, Goto, Shape, IsRun
  <2> QED BY <1>1, <2>1, NoProgress
<1>5. CASE Gate(j)
  <2> DEFINE pc == IF setting = NoModel THEN "skip" ELSE "load"
  <2>1. run' = [run EXCEPT ![j].pc = pc, ![j].model = setting]
    BY <1>5 DEF Gate
  <2>2. pc = "skip" \/ (pc = "load" /\ setting \in Models)
    BY <1>2
  <2> HIDE DEF pc
  <2>3. run'[j] = [run[j] EXCEPT !.pc = pc, !.model = setting]
    BY <2>1 DEF Indexing, Shape, IsRun
  <2> QED BY <1>1, <2>2, <2>3, NoProgress DEF Progress, Tried
<1>6. CASE Load(j) \/ Read(j)
  <2>1. run'[j].pc \in {"read", "state"} /\ run'[j].model = run[j].model /\ run[j].pc \in {"load", "read"}
    BY <1>6 DEF Indexing, Load, Read, At, Shape, IsRun
  <2> QED BY <1>1, <2>1 DEF Indexing, Progress, Tried
<1>7. CASE ReadState(j)
  <2>1. /\ run'[j].model = run[j].model /\ run'[j].text = text /\ run[j].pc = "state"
        /\ \/ run'[j].pc = "mark"
           \/ run'[j].pc = "confirm" /\ state.status = "indexed" /\ state.text = text
    BY <1>7 DEF Indexing, ReadState, Goto, At, Shape, IsRun
  <2> QED BY <1>1, <1>3, <2>1 DEF Indexing, Progress, Tried
<1>8. CASE Check(j)
  <2>1. /\ run'[j].pc \in {"follow", "done"} /\ run'[j].text = text /\ run[j].pc = "check"
    BY <1>8 DEF Indexing, Check, Goto, At, Shape, IsRun
  <2> QED BY <1>1, <1>3, <2>1 DEF Indexing, Progress, Tried
<1>9. CASE Existing(j)
  <2> DEFINE K == [o \in Ords |-> Brief(chunk[o])]
             next == NextOrd(K, text, 1)
  <2>1. run' = [run EXCEPT ![j].pc = "chunk", ![j].known = K, ![j].at = next] /\ run[j].pc = "existing"
    BY <1>9 DEF Existing, At
  <2>2. \A o \in Ords : K[o] = Brief(chunk[o]) /\ K[o].text = chunk[o].text
    BY DEF Brief
  <2>3. Len(text) \in Nat
    BY <1>2, SaidIs
  <2> HIDE DEF K
  <2>4. /\ next \in Nat \ {0}
        /\ \A o \in Ords : o < next /\ o <= Len(text) => K[o].text = text[o]
    <3>1. 1 \in Nat \ {0} /\ 1 <= Len(text) + 1 /\ \A o \in Ords : 1 <= o
      BY <2>3, SearchAssumption DEF Ords
    <3>2. /\ next \in Nat /\ next >= 1
          /\ \A o \in Ords : 1 <= o /\ o < next /\ o <= Len(text) => K[o].text = text[o]
      BY <1>2, <3>1, NextOrdIs
    <3> QED BY <3>1, <3>2
  <2> HIDE DEF next
  <2>5. /\ run'[j].pc = "chunk" /\ run'[j].known = K /\ run'[j].at = next
        /\ run'[j].text = text /\ run'[j].model = run[j].model
    BY <2>1 DEF Indexing, Shape, IsRun
  <2> QED BY <1>1, <1>3, <2>1, <2>2, <2>4, <2>5 DEF Indexing, Progress, Tried
<1>10. CASE Pending(j)
  <2> DEFINE missing == {o \in Rows : chunk[o].vector[run[j].model] = None}
             X == {[at |-> o, id |-> chunk[o].id, text |-> chunk[o].text] : o \in missing}
  <2>1. ASSUME NEW o \in Rows, o \notin missing PROVE chunk[o].vector[run[j].model] # None
    BY <2>1
  <2>2. ASSUME NEW o \in missing PROVE \E t \in X : t.id = chunk[o].id
    <3> DEFINE t == [at |-> o, id |-> chunk[o].id, text |-> chunk[o].text]
    <3>1. t \in X /\ t.id = chunk[o].id
      OBVIOUS
    <3> QED BY <3>1
  <2>3. ASSUME NEW t \in X PROVE \E o \in Rows : t.id = chunk[o].id
    OBVIOUS
  <2> DEFINE pc == IF missing = {} THEN "stale" ELSE "write"
  <2>4. /\ run[j].pc = "pending"
        /\ run' = [run EXCEPT ![j].pc = pc, ![j].known = NoRun.known, ![j].at = 0, ![j].todo = X]
    BY <1>10 DEF Pending, At
  <2> HIDE DEF X, pc
  <2>5. /\ run'[j].todo = X /\ run'[j].text = text /\ run'[j].model = run[j].model
        /\ run'[j].pc = pc
    BY <2>4 DEF Indexing, Shape, IsRun
  <2> HIDE DEF missing
  <2>6. missing = {} => Vectored(run[j].model)
    BY <2>1 DEF Vectored
  <2>7. Holds(text) /\ run[j].model \in Models /\ state.status \notin {"none", "indexed"}
    BY <2>4 DEF Indexing, Progress, Tried
  <2>8. /\ Rows' = Rows
        /\ \A o \in Ords : chunk'[o].text = IF o <= Len(run'[j].text) THEN run'[j].text[o] ELSE None
        /\ missing = {} => \A o \in Rows' : chunk'[o].vector[run'[j].model] # None
    BY <1>3, <2>5, <2>6, <2>7 DEF Holds, Vectored, Rows, There
  <2>9. CASE missing = {}
    <3>1. run'[j].pc = "stale"
      BY <2>5, <2>9 DEF pc
    <3> QED BY <1>1, <1>3, <2>5, <2>7, <2>8, <2>9, <3>1 DEF Progress, Tried, Holds, Vectored
  <2>10. CASE missing # {}
    <3>1. run'[j].pc = "write"
      BY <2>5, <2>10 DEF pc
    <3>2. \A o \in Rows : \/ chunk[o].vector[run[j].model] # None
                          \/ \E t \in X : t.id = chunk[o].id
      BY <2>1, <2>2
    <3> QED BY <1>1, <1>3, <2>3, <2>5, <2>7, <2>8, <3>1, <3>2 DEF Progress, Tried, Holds
  <2> QED BY <2>9, <2>10
<1> QED BY <1>4, <1>5, <1>6, <1>7, <1>8, <1>9, <1>10

\* What a run writes into the state row.
LEMMA IndexStates ==
  ASSUME NEW j \in Slots, Indexing(j),
         Skip(j) \/ Confirm(j) \/ MarkIndexing(j) \/ Settle(j) \/ RecordError(j)
  PROVE  Told' /\ Progress(j)'
<1> DEFINE text == run[j].text
<1>1. chunk' = chunk /\ doc' = doc
  BY DEF Skip, Confirm, MarkIndexing, Settle, RecordError, StateChanges, Stamps
<1>2. CASE Skip(j) \/ RecordError(j)
  <2>1. state'.status \in {"skipped", "failed"} /\ run'[j].pc \in {"done", "failed"}
    BY <1>2 DEF Indexing, Skip, RecordError, Settled, NoState, Goto, TypeInv, RowsTyped, Shape, IsRun
  <2> QED BY <2>1, NoProgress DEF Told
<1>3. CASE MarkIndexing(j)
  <2>1. /\ state'.status = "indexing" /\ run'[j].pc = "existing"
        /\ run'[j].model = run[j].model /\ run[j].pc = "mark"
    BY <1>3 DEF Indexing, MarkIndexing, Goto, At, TypeInv, RowsTyped, Shape, IsRun
  <2> QED BY <2>1 DEF Indexing, Told, Progress, Tried
<1>4. CASE Confirm(j)
  <2>1. run[j].pc = "confirm" /\ state.status = "indexed" /\ state.text = text
    BY <1>4 DEF Indexing, Confirm, At, Progress
  <2>2. /\ state' = [state EXCEPT !.current = TRUE] /\ run'[j].pc = "done"
        /\ past'.stamp = "fresh" => doc.text = text
    BY <1>4, <2>1 DEF Indexing, Confirm, UpdateState, Goto, Unread, Shape, IsRun
  <2>3. /\ state'.status = "indexed" /\ state'.text = text /\ state'.model = state.model
    BY <2>1, <2>2 DEF Indexing, TypeInv, RowsTyped
  <2> QED BY <1>1, <2>1, <2>2, <2>3, NoProgress DEF Indexing, Told, Holds, Vectored, Rows, There
<1>5. CASE Settle(j)
  <2>1. /\ run[j].pc = "settle" /\ state.status # "none" /\ Holds(text) /\ Vectored(run[j].model)
        /\ run[j].model \in Models
    BY <1>5 DEF Indexing, Settle, At, Progress, Tried
  <2>2. /\ state' = [status |-> "indexed", text |-> text, model |-> run[j].model, current |-> TRUE]
        /\ run'[j].pc = "check" /\ run'[j].text = text
        /\ past'.stamp = "fresh" => doc.text = text
    BY <1>5, <2>1 DEF Indexing, Settle, UpdateState, Goto, Unread, Shape, IsRun
  <2>3. Told'
    BY <1>1, <2>1, <2>2 DEF Told, Holds, Vectored, Rows, There
  <2> QED BY <2>2, <2>3 DEF Progress, Tried
<1> QED BY <1>2, <1>3, <1>4, <1>5

\* Nothing is said of the index while it is rewritten.
LEMMA UntoldWhile ==
  ASSUME NEW j \in Slots, Indexing(j), run[j].pc \in Tried, state' = state
  PROVE  Told' /\ state'.status \notin {"none", "indexed"} /\ run[j].model \in Models
BY DEF Indexing, Progress, Told

\* A run goes on to the next chunk that differs.
LEMMA GoesOn ==
  ASSUME NEW j \in Slots, Indexing(j), run[j].pc \in {"chunk", "drop"}, Onward(j), state' = state,
         run[j].at <= Len(run[j].text),
         chunk'[run[j].at].text = run[j].text[run[j].at],
         \A o \in Ords \ {run[j].at} : chunk'[o] = chunk[o]
  PROVE  Told' /\ Progress(j)'
<1> DEFINE text == run[j].text
           at   == run[j].at
           next == NextOrd(run[j].known, text, at + 1)
<1>1. text \in Said /\ Len(text) \in Nat /\ Len(text) <= MaxChunks /\ Ords \subseteq Nat
  BY SaidIs, SearchAssumption DEF Indexing, TypeInv, RunsTyped, Ords
<1>2. at \in Nat \ {0}
  BY DEF Indexing, Progress
<1>3. \A o \in Ords : IF o < at THEN o <= Len(text) => chunk[o].text = text[o]
                      ELSE o # at => run[j].known[o] = Brief(chunk[o])
  BY <1>1, <1>2 DEF Indexing, Progress
<1>4. /\ next \in Nat /\ next >= at + 1
      /\ \A o \in Ords : at + 1 <= o /\ o < next /\ o <= Len(text) => run[j].known[o].text = text[o]
  <2>1. at + 1 \in Nat \ {0} /\ at + 1 <= Len(text) + 1
    BY <1>1, <1>2
  <2> QED BY <1>1, <2>1, NextOrdIs
<1>5. run' = [run EXCEPT ![j].pc = "chunk", ![j].at = next]
  BY DEF Onward
<1> HIDE DEF next
<1>6. /\ run'[j].pc = "chunk" /\ run'[j].at = next /\ run'[j].text = text
      /\ run'[j].known = run[j].known /\ run'[j].model = run[j].model
  <2>1. run'[j] = [run[j] EXCEPT !.pc = "chunk", !.at = next]
    BY <1>5 DEF Indexing, Shape, IsRun
  <2> QED BY <2>1 DEF Indexing, Shape, IsRun
<1>7. ASSUME NEW o \in Ords
      PROVE  IF o < next THEN o <= Len(text) => chunk'[o].text = text[o]
             ELSE run[j].known[o] = Brief(chunk'[o])
  <2>1. CASE o < at
    BY <1>1, <1>2, <1>3, <1>4, <2>1
  <2>2. CASE o = at
    BY <1>1, <1>2, <1>4, <2>2
  <2>3. CASE o > at /\ o < next
    <3>1. run[j].known[o] = Brief(chunk[o]) /\ chunk'[o] = chunk[o]
      BY <1>1, <1>2, <1>3, <2>3
    <3>2. o <= Len(text) => run[j].known[o].text = text[o]
      BY <1>1, <1>2, <1>4, <2>3
    <3> QED BY <2>3, <3>1, <3>2 DEF Brief
  <2>4. CASE o >= next
    <3>1. ~ (o < at) /\ o # at /\ ~ (o < next)
      BY <1>1, <1>2, <1>4, <2>4
    <3> QED BY <1>3, <3>1
  <2> QED BY <1>1, <1>2, <1>4, <2>1, <2>2, <2>3, <2>4
<1>8. Told' /\ state'.status \notin {"none", "indexed"} /\ run[j].model \in Models
  BY UntoldWhile DEF Tried
<1>9. next \in Nat \ {0}
  BY <1>2, <1>4
<1> QED BY <1>6, <1>7, <1>8, <1>9 DEF Progress, Tried

\* What a run does to the chunks, and that each of these statements finds the rows it expects.
LEMMA IndexWrites ==
  ASSUME NEW j \in Slots, Indexing(j),
         Create(j) \/ Update(j) \/ DropVectors(j) \/ Trim(j) \/ Write(j) \/ DeleteStale(j)
  PROVE  Told' /\ Progress(j)' /\ run'[j].pc \in Tried
<1> DEFINE text  == run[j].text
           at    == run[j].at
           known == run[j].known
           m     == run[j].model
<1>1. ChunksTyped /\ UniqueIds /\ run[j].todo \in SUBSET Todos
  BY DEF Indexing, TypeInv, ChunksOK, RunsTyped
<1>2. /\ text \in Said /\ Len(text) \in Nat /\ Len(text) <= MaxChunks /\ Ords \subseteq Nat
      /\ None \notin Texts /\ MaxChunks \in Nat
  BY SaidIs, SearchAssumption DEF Indexing, TypeInv, RunsTyped, Ords
<1>3. state' = state /\ run[j].pc \in Tried
  BY DEF Create, Update, DropVectors, Trim, Write, DeleteStale, At, Tried, ChunksChange
<1>4. Told' /\ state'.status \notin {"none", "indexed"} /\ m \in Models
  BY <1>3, UntoldWhile
<1>5. ASSUME Onward(j) PROVE run'[j].pc = "chunk"
  BY <1>5 DEF Onward, Indexing, Shape, IsRun
<1>6. ASSUME run[j].pc \in {"chunk", "drop"}, at <= Len(text)
      PROVE  /\ at \in Nat \ {0} /\ at \in Ords
             /\ text[at] \in Texts
             /\ run[j].pc = "chunk" => known[at] = Brief(chunk[at])
             /\ run[j].pc = "drop" => chunk[at].text = text[at]
             /\ \A o \in Ords : IF o < at THEN o <= Len(text) => chunk[o].text = text[o]
                                ELSE o # at => known[o] = Brief(chunk[o])
  <2>1. at \in Nat \ {0}
    BY <1>6 DEF Indexing, Progress
  <2>2. at \in 1..Len(text)
    BY <1>2, <1>6, <2>1
  <2>3. at \in Ords /\ text[at] \in Texts
    BY <1>2, <2>2, SaidIs
  <2> QED BY <1>2, <1>6, <2>1, <2>3 DEF Indexing, Progress
<1>7. CASE Create(j)
  <2>1. run[j].pc = "chunk" /\ at <= Len(text) /\ known[at].id = 0
    BY <1>7 DEF Create, At
  <2>2. at \in Ords /\ known[at] = Brief(chunk[at]) /\ ~There(at)
    BY <1>6, <2>1 DEF Brief, There
  <2>3. chunk' = [chunk EXCEPT ![at] = [NoChunk EXCEPT !.id = FreshId, !.text = text[at]]] /\ Onward(j)
    BY <1>7, <2>2 DEF Create
  <2>4. chunk'[at].text = text[at] /\ \A o \in Ords \ {at} : chunk'[o] = chunk[o]
    BY <1>1, <2>2, <2>3 DEF ChunksTyped, NoChunk
  <2> QED BY <1>3, <1>5, <2>1, <2>3, <2>4, GoesOn DEF Tried
<1>8. CASE Update(j)
  <2>1. run[j].pc = "chunk" /\ at <= Len(text)
    BY <1>8 DEF Update, At
  <2>2. at \in Ords /\ at \in Nat \ {0} /\ known[at] = Brief(chunk[at])
    BY <1>6, <2>1
  <2>3. chunk' = [chunk EXCEPT ![at].text = text[at]] /\ run' = [run EXCEPT ![j].pc = "drop"]
    BY <1>8, <2>2 DEF Update, Goto, Brief
  <2>4. chunk'[at].text = text[at] /\ \A o \in Ords \ {at} : chunk'[o] = chunk[o]
    BY <1>1, <2>2, <2>3 DEF ChunksTyped, Chunks
  <2>5. /\ run'[j].pc = "drop" /\ run'[j].at = at /\ run'[j].text = text
        /\ run'[j].known = known /\ run'[j].model = m
    BY <2>3 DEF Indexing, Shape, IsRun
  <2>6. ASSUME NEW o \in Ords
        PROVE  IF o < at \/ o = at THEN o <= Len(text) => chunk'[o].text = text[o]
               ELSE known[o] = Brief(chunk'[o])
    BY <1>2, <1>6, <2>1, <2>2, <2>4
  <2> QED BY <1>4, <2>1, <2>2, <2>5, <2>6 DEF Progress, Tried
<1>9. CASE DropVectors(j)
  <2>1. run[j].pc = "drop" /\ Onward(j) /\ at <= Len(text)
    BY <1>9 DEF DropVectors, At, Indexing, Progress
  <2>2. at \in Ords /\ chunk[at].text = text[at]
    BY <1>6, <2>1
  <2>3. chunk'[at].text = text[at] /\ \A o \in Ords \ {at} : chunk'[o] = chunk[o]
    BY <1>1, <1>9, <2>2 DEF DropVectors, ChunksTyped, Chunks
  <2> QED BY <1>3, <1>5, <2>1, <2>3, GoesOn DEF Tried
<1>10. CASE Trim(j)
  <2>1. /\ run[j].pc = "chunk" /\ at > Len(text)
        /\ run'[j].pc = "pending" /\ run'[j].text = text /\ run'[j].model = m
    BY <1>10 DEF Trim, At, Goto, Indexing, Shape, IsRun
  <2>2. at \in Nat /\ \A o \in Ords : o < at => (o <= Len(text) => chunk[o].text = text[o])
    BY <2>1 DEF Indexing, Progress
  <2>3. chunk' = [o \in Ords |-> IF o > Len(text) THEN NoChunk ELSE chunk[o]]
    BY <1>10 DEF Trim
  <2>4. ASSUME NEW o \in Ords
        PROVE  chunk'[o].text = IF o <= Len(text) THEN text[o] ELSE None
    <3>1. o \in Nat
      BY <1>2
    <3>2. CASE o <= Len(text)
      <4>1. o < at /\ ~ (o > Len(text))
        BY <1>2, <2>1, <2>2, <3>1, <3>2
      <4>2. chunk'[o] = chunk[o]
        BY <2>3, <4>1
      <4> QED BY <2>2, <3>2, <4>1, <4>2
    <3>3. CASE o > Len(text)
      <4>1. chunk'[o] = NoChunk /\ ~ (o <= Len(text))
        BY <1>2, <2>3, <3>1, <3>3
      <4> QED BY <4>1 DEF NoChunk
    <3> QED BY <1>2, <3>1, <3>2, <3>3
  <2> QED BY <1>4, <2>1, <2>4 DEF Progress, Tried, Holds
<1>11. CASE Write(j)
  <2> DEFINE batch   == {t \in run[j].todo : Cardinality({u \in run[j].todo : u.at < t.at}) < BatchSize}
             mine(o) == {t \in batch : t.id = chunk[o].id}
             one(o)  == CHOOSE t \in mine(o) : TRUE
             rest    == run[j].todo \ batch
             pc      == IF rest = {} THEN "stale" ELSE "write"
  <2>1. /\ run[j].pc = "write" /\ Holds(text)
        /\ \A o \in Rows : chunk[o].vector[m] # None \/ \E t \in run[j].todo : t.id = chunk[o].id
        /\ \A t \in run[j].todo : \E o \in Rows : t.id = chunk[o].id
    BY <1>11 DEF Write, At, Indexing, Progress
  <2>2. ~ \E t \in batch : \A o \in Ords : chunk[o].id # t.id
    BY <2>1 DEF Rows
  <2>3. /\ chunk' = [o \in Ords |-> IF mine(o) = {} THEN chunk[o]
                                    ELSE [chunk[o] EXCEPT !.vector[run[j].model] = one(o).text]]
        /\ run' = [run EXCEPT ![j].todo = rest, ![j].pc = pc]
    BY <1>11, <2>2 DEF Write
  <2>4. ASSUME NEW o \in Ords, mine(o) # {}
        PROVE  one(o) \in run[j].todo
    BY <2>4
  <2>5. ASSUME NEW o \in Ords, NEW t \in run[j].todo, t.id = chunk[o].id, mine(o) = {}
        PROVE  t \in rest
    BY <2>5
  <2>6. rest \subseteq run[j].todo
    OBVIOUS
  <2> HIDE DEF mine, one, rest
  <2>7. \A o \in Ords : chunk'[o].id = chunk[o].id /\ chunk'[o].text = chunk[o].text
    BY <1>1, <2>3 DEF ChunksTyped, Chunks
  <2>8. Rows' = Rows
    BY <2>7 DEF Rows, There
  <2>9. ASSUME NEW o \in Rows, mine(o) # {} PROVE chunk'[o].vector[m] # None
    <3>1. one(o).text \in Texts /\ o \in Ords
      BY <1>1, <2>4, <2>9 DEF Todos, Rows
    <3>2. chunk'[o].vector[m] = one(o).text
      BY <1>1, <1>4, <2>3, <2>9, <3>1 DEF ChunksTyped, Chunks
    <3> QED BY <1>2, <3>1, <3>2
  <2>10. ASSUME NEW o \in Rows, mine(o) = {}
         PROVE  chunk'[o].vector[m] # None \/ \E t \in rest : t.id = chunk'[o].id
    <3>1. chunk'[o] = chunk[o] /\ o \in Ords
      BY <2>3, <2>10 DEF Rows
    <3> QED BY <2>1, <2>5, <2>10, <3>1
  <2>11. \A t \in rest : \E o \in Rows : t.id = chunk'[o].id
    BY <2>1, <2>6, <2>7 DEF Rows
  <2> HIDE DEF pc
  <2>12. run'[j] = [run[j] EXCEPT !.todo = rest, !.pc = pc]
    BY <2>3 DEF Indexing, Shape, IsRun
  <2>13. /\ run'[j].pc = pc /\ run'[j].text = text /\ run'[j].model = m /\ run'[j].todo = rest
    BY <2>12 DEF Indexing, Shape, IsRun
  <2>14. \A o \in Ords : chunk'[o].text = IF o <= Len(text) THEN text[o] ELSE None
    BY <2>1, <2>7 DEF Holds
  <2>15. CASE rest = {}
    <3>1. pc = "stale" /\ \A o \in Rows : chunk'[o].vector[m] # None
      BY <2>9, <2>10, <2>15 DEF pc
    <3> QED BY <1>4, <2>8, <2>13, <2>14, <3>1 DEF Progress, Tried, Holds, Vectored
  <2>16. CASE rest # {}
    <3>1. pc = "write"
      BY <2>16 DEF pc
    <3> QED BY <1>4, <2>8, <2>9, <2>10, <2>11, <2>13, <2>14, <3>1 DEF Progress, Tried, Holds
  <2> QED BY <2>15, <2>16
<1>12. CASE DeleteStale(j)
  <2> DEFINE only(v) == [n \in Models |-> IF n = m THEN v[n] ELSE None]
  <2>1. chunk' = [o \in Ords |-> [chunk[o] EXCEPT !.vector = only(@)]]
    BY <1>12 DEF DeleteStale
  <2>2. \A v : only(v)[m] = v[m]
    BY <1>4
  <2> HIDE DEF only
  <2>3. \A o \in Ords : /\ chunk'[o].id = chunk[o].id /\ chunk'[o].text = chunk[o].text
                        /\ chunk'[o].vector[m] = chunk[o].vector[m]
    BY <1>1, <2>1, <2>2 DEF ChunksTyped, Chunks
  <2>4. /\ run[j].pc = "stale" /\ run'[j].pc = "settle" /\ run'[j].text = text /\ run'[j].model = m
    BY <1>12 DEF DeleteStale, At, Goto, Indexing, Shape, IsRun
  <2>5. Holds(text) /\ Vectored(m)
    BY <2>4 DEF Indexing, Progress
  <2> QED BY <1>4, <2>3, <2>4, <2>5 DEF Progress, Tried, Holds, Vectored, Rows, There
<1> QED BY <1>7, <1>8, <1>9, <1>10, <1>11, <1>12

\* A step of a run moves no other, and only a run that is under way takes one.
LEMMA ProcessMoves ==
  ASSUME Shape, NEW j \in Slots, Process(j)
  PROVE  /\ Busy(j) /\ Running(j) /\ \A k \in Slots \ {j} : run'[k] = run[k]
         /\ doc' = doc /\ used' = used /\ owed' = owed /\ past'.overlap = past.overlap
<1> USE DEF Owner, Gate, Skip, Forget, ForgetState, Load, Read, ReadState, Confirm, MarkIndexing,
     Existing, Create, Update, DropVectors, Trim, Pending, Write, DeleteStale, Settle, Check,
     Follow, RecordError
<1>1. Busy(j) /\ Running(j)
  BY DEF Process, At, Busy
<1>2. \A k \in Slots \ {j} : run'[k] = run[k]
  BY DEF Process, Goto, Raised, Onward, UpdateState, Shape
<1>3. doc' = doc /\ used' = used /\ owed' = owed /\ past'.overlap = past.overlap
  BY DEF Process, OnlyRuns, ChunksChange, StateChanges, Stamps, Shape
<1> QED BY <1>1, <1>2, <1>3

\* A run comes under way by being claimed, and not otherwise.
LEMMA BusyOnce ==
  ASSUME Shape, JobsTyped, [Next]_vars, NEW k \in Slots, Busy(k)'
  PROVE  Busy(k) \/ Claim(k)
<1>1. ASSUME NEW j \in Slots, Process(j) PROVE Busy(k)
  BY <1>1, ProcessMoves DEF Busy
<1>2. ASSUME NEW j \in Slots, Claim(j) PROVE Busy(k) \/ Claim(k)
  <2>1. k # j => run'[k] = run[k]
    BY <1>2 DEF Claim, Shape
  <2> QED BY <1>2, <2>1 DEF Busy
<1>3. ASSUME NEW j \in Slots, Completes(j) \/ Fails(j) \/ RateLimited(j) PROVE Busy(k)
  <2>1. run' = [run EXCEPT ![j] = NoRun]
    BY <1>3 DEF Completes, Fails, Ends, RateLimited
  <2> QED BY <2>1 DEF Busy, NoRun, Shape
<1>4. ASSUME NEW j \in Slots, Throws(j) \/ KeyRefused(j) \/ WrongWidth(j) PROVE Busy(k)
  BY <1>4 DEF Throws, KeyRefused, WrongWidth, Raised, Goto, At, Busy, Shape, IsRun, JobsTyped
<1>5. CASE Crash
  BY <1>5 DEF Crash, Busy, NoRun
<1>6. CASE \/ Edit \/ Name \/ Queue \/ Press \/ QueuePressed \/ Switch \/ RemoveDocument
           \/ PurgeChunks \/ PurgeState \/ PurgeRow \/ PurgeFails \/ UNCHANGED vars
  BY <1>6 DEF Edit, Name, Commits, Queue, Press, QueuePressed, Switch, RemoveDocument,
     PurgeChunks, PurgeState, PurgeRow, PurgeFails, vars, Busy
<1> QED BY <1>1, <1>2, <1>3, <1>4, <1>5, <1>6 DEF Next

\* A document that is there was there, and an overlap is not forgotten.
LEMMA NothingComesBack ==
  ASSUME Shape, [Next]_vars
  PROVE  (Live' => Live) /\ (past.overlap => past'.overlap)
<1>1. ASSUME NEW j \in Slots, Process(j) PROVE doc' = doc /\ past'.overlap = past.overlap
  BY <1>1, ProcessMoves
<1>2. ASSUME NEW j \in Slots,
             Claim(j) \/ Completes(j) \/ Fails(j) \/ Throws(j) \/ KeyRefused(j)
               \/ WrongWidth(j) \/ RateLimited(j)
      PROVE  doc' = doc /\ (past.overlap => past'.overlap)
  BY <1>2 DEF Claim, Completes, Fails, Ends, Throws, KeyRefused, WrongWidth, RateLimited, Cut, Shape
<1>3. CASE Crash
  BY <1>3 DEF Crash, Cut, Shape, Live
<1>4. CASE \/ Edit \/ Name \/ Queue \/ Press \/ QueuePressed \/ Switch \/ RemoveDocument
           \/ PurgeChunks \/ PurgeState \/ PurgeRow \/ PurgeFails \/ UNCHANGED vars
  BY <1>4 DEF Edit, Name, Commits, Queue, Press, QueuePressed, Switch, RemoveDocument,
     PurgeChunks, PurgeState, PurgeRow, PurgeFails, vars, Live, Shape
<1> QED BY <1>1, <1>2, <1>3, <1>4 DEF Next, Live

\* Only one run at a time, until there is an overlap.
LEMMA AloneStep ==
  ASSUME Shape, TypeInv, Alone, [Next]_vars, ~past'.overlap
  PROVE  Alone'
<1>1. CASE \E j \in Slots : Claim(j)
  <2> PICK j \in Slots : Claim(j)
    BY <1>1
  <2>1. \A s \in Slots : ~Busy(s)
    BY DEF Claim, Shape
  <2>2. \A k \in Slots \ {j} : ~Busy(k)'
    BY <2>1 DEF Claim, Busy, Shape
  <2> QED BY <2>2 DEF Alone
<1>2. CASE ~ \E j \in Slots : Claim(j)
  <2>1. \A k \in Slots : Busy(k)' => Busy(k)
    BY <1>2, BusyOnce DEF TypeInv
  <2> QED BY <2>1 DEF Alone
<1> QED BY <1>1, <1>2

\* A run alone, at any step of its own.
LEMMA IndexProcess ==
  ASSUME Shape, TypeInv, ~past.overlap, Live, Alone, Told, \A k \in Slots : Progress(k),
         NEW j \in Slots, Process(j)
  PROVE  Told' /\ \A k \in Slots : Progress(k)'
<1>1. Indexing(j)
  BY DEF Indexing
<1>2. ASSUME NEW k \in Slots \ {j} PROVE Progress(k)'
  <2>1. run'[k] = run[k] /\ run[k].pc \in {"idle", "done"}
    BY ProcessMoves DEF Alone, Busy
  <2> QED BY <2>1, NoProgress
<1>3. ~ (Forget(j) \/ ForgetState(j))
  BY DEF Forget, ForgetState, At, Progress
<1>4. CASE \/ Owner(j) \/ Gate(j) \/ Load(j) \/ Read(j) \/ ReadState(j) \/ Existing(j) \/ Pending(j)
           \/ Check(j) \/ Follow(j)
  BY <1>1, <1>2, <1>4, IndexReads
<1>5. CASE Skip(j) \/ Confirm(j) \/ MarkIndexing(j) \/ Settle(j) \/ RecordError(j)
  BY <1>1, <1>2, <1>5, IndexStates
<1>6. CASE Create(j) \/ Update(j) \/ DropVectors(j) \/ Trim(j) \/ Write(j) \/ DeleteStale(j)
  BY <1>1, <1>2, <1>6, IndexWrites
<1> QED BY <1>3, <1>4, <1>5, <1>6 DEF Process

\* What the runs have done, and what the state row tells of it, stay so.
LEMMA IndexStep == Shape /\ TypeInv /\ IndexInv /\ [Next]_vars => IndexInv'
<1> SUFFICES ASSUME Shape, TypeInv, IndexInv, [Next]_vars, ~past'.overlap, Live'
             PROVE  (Alone /\ Told /\ \A k \in Slots : Progress(k))'
  BY DEF IndexInv
<1>1. ~past.overlap /\ Live /\ Alone /\ Told /\ \A k \in Slots : Progress(k)
  BY NothingComesBack DEF IndexInv
<1> SUFFICES Told' /\ \A k \in Slots : Progress(k)'
  BY <1>1, AloneStep
<1>2. ASSUME NEW j \in Slots, Process(j) PROVE Told' /\ \A k \in Slots : Progress(k)'
  BY <1>1, <1>2, IndexProcess
<1>3. ASSUME NEW j \in Slots,
             Claim(j) \/ Completes(j) \/ Fails(j) \/ Throws(j) \/ KeyRefused(j) \/ RateLimited(j)
      PROVE  Told' /\ \A k \in Slots : Progress(k)'
  <2> USE DEF Claim, Completes, Fails, Ends, Throws, KeyRefused, RateLimited
  <2>1. chunk' = chunk /\ state' = state /\ doc' = doc /\ past'.stamp = past.stamp
    BY <1>3 DEF Cut, Shape
  <2>2. \A k \in Slots \ {j} : run'[k] = run[k]
    BY <1>3 DEF Goto, Raised, Shape
  <2>3. run'[j].pc \in {"idle", "owner", "skip", "record", "failed"}
    BY <1>3 DEF Goto, Raised, NoRun, Shape, IsRun
  <2>4. \A k \in Slots \ {j} : Progress(k)'
    BY <1>1, <2>1, <2>2, SameProgress
  <2> QED BY <1>1, <2>1, <2>3, <2>4, SameTold, NoProgress
<1>4. ASSUME NEW j \in Slots, WrongWidth(j) PROVE Told' /\ \A k \in Slots : Progress(k)'
  <2>1. state'.status = "failed" /\ Busy(j) /\ run'[j].pc = "record"
    BY <1>4 DEF WrongWidth, Settled, NoState, At, Busy, Goto, Shape, IsRun
  <2>2. ASSUME NEW k \in Slots \ {j} PROVE Progress(k)'
    <3>1. run'[k] = run[k] /\ run[k].pc \in {"idle", "done"}
      BY <1>1, <1>4, <2>1 DEF WrongWidth, Goto, Shape, Alone, Busy
    <3> QED BY <3>1, NoProgress
  <2> QED BY <2>1, <2>2, NoProgress DEF Told
<1>5. CASE Crash
  <2>1. chunk' = chunk /\ state' = state /\ doc' = doc /\ past'.stamp = past.stamp
    BY <1>5 DEF Crash, Cut, Shape
  <2>2. \A k \in Slots : run'[k].pc = "idle"
    BY <1>5 DEF Crash, NoRun
  <2> QED BY <1>1, <2>1, <2>2, SameTold, NoProgress
<1>6. CASE Edit \/ Name
  <2>1. /\ run' = run /\ chunk' = chunk
        /\ state'.status = state.status /\ state'.text = state.text /\ state'.model = state.model
        /\ ~state'.current
    BY <1>6 DEF Edit, Name, Commits, TypeInv, RowsTyped
  <2> QED BY <1>1, <2>1, SameProgress DEF Told, Holds, Vectored, Rows, There
<1>7. CASE \/ Queue \/ Press \/ QueuePressed \/ Switch \/ PurgeFails \/ UNCHANGED vars
  <2>1. /\ run' = run /\ chunk' = chunk /\ state' = state /\ doc' = doc
        /\ past'.stamp \in {past.stamp, "missed"}
    BY <1>7 DEF Queue, Press, QueuePressed, Switch, PurgeFails, vars, Shape
  <2> QED BY <1>1, <2>1, SameProgress, SameTold
<1>8. ~ (RemoveDocument \/ PurgeChunks \/ PurgeState \/ PurgeRow)
  BY <1>1 DEF RemoveDocument, PurgeChunks, PurgeState, PurgeRow, Live, Shape
<1> QED BY <1>2, <1>3, <1>4, <1>5, <1>6, <1>7, <1>8 DEF Next

\* Of a document that is there and whose runs have not overlapped, the state row says what the
\* index holds, and a run that has come to a step has done what the steps before it do.
THEOREM IndexHolds == Spec => []IndexInv
<1>1. Init => IndexInv
  BY DEF Init, IndexInv, Alone, Busy, NoRun, Told, NoState, Progress, Tried
<1> QED BY <1>1, IndexStep, TypesHold, ShapeKept, PTL DEF Spec

\* What the owner is not offered and nobody works on is up to date, but for the cases named.
THEOREM StaleIsOfferedHolds == Spec => []StaleIsOffered
<1>1. IndexInv /\ TypeInv => StaleIsOffered
  BY DEF IndexInv, TypeInv, RowsTyped, StaleIsOffered, NeedsIndexing, UpToDate, Told, Holds, Vectored
<1> QED BY <1>1, IndexHolds, TypesHold, PTL

\* What the bounds and the queue of edits count.
Counted ==
  /\ used = [names |-> used.names, faults |-> used.faults, switches |-> used.switches,
             presses |-> used.presses]
  /\ used.faults \in Nat /\ owed \in Nat

\* What is counted are numbers, and the count of faults only grows: by the steps that are one.
LEMMA CountedStep ==
  ASSUME Shape, Counted, [Next]_vars
  PROVE  Counted' /\ (used'.faults = 0 => used.faults = 0 /\ ~Faulty)
<1> USE DEF Counted, Faulty
<1>1. ASSUME NEW j \in Slots, Process(j) PROVE used' = used /\ owed' = owed
  BY <1>1, ProcessMoves
<1>2. ASSUME NEW j \in Slots,
             Claim(j) \/ Completes(j) \/ Fails(j) \/ Throws(j) \/ KeyRefused(j)
               \/ WrongWidth(j) \/ RateLimited(j)
      PROVE  Counted' /\ (used'.faults = 0 => used.faults = 0 /\ ~Faulty)
  BY <1>2 DEF Claim, Completes, Fails, Ends, Throws, KeyRefused, WrongWidth, RateLimited
<1>3. CASE Crash
  BY <1>3 DEF Crash
<1>4. CASE Edit \/ Name
  <2>1. owed' = owed + 1 /\ (used' = used \/ used' = [used EXCEPT !.names = @ + 1])
    BY <1>4, Zenon DEF Edit, Name, Commits
  <2>2. used'.faults = used.faults /\ Counted'
    BY <2>1
  <2>3. ~Faulty
    BY <2>2
  <2> QED BY <2>2, <2>3
<1>5. CASE Queue
  BY <1>5 DEF Queue
<1>6. CASE Press \/ QueuePressed \/ Switch \/ RemoveDocument
  BY <1>6 DEF Press, QueuePressed, Switch, RemoveDocument
<1>7. CASE PurgeChunks \/ PurgeState \/ PurgeRow \/ PurgeFails \/ UNCHANGED vars
  BY <1>7 DEF PurgeChunks, PurgeState, PurgeRow, PurgeFails, vars
<1> QED BY <1>1, <1>2, <1>3, <1>4, <1>5, <1>6, <1>7 DEF Next

\* A run alone, where nothing fails: none of its statements is refused, and when it is done the
\* document is indexed as it stands, or skipped, or a look is missing, or a run is queued.
LEMMA WorkProcess ==
  ASSUME NEW j \in Slots, Indexing(j), Process(j), run[j].pc \notin {"record", "failed"}
  PROVE  \/ Busy(j)' /\ run'[j].pc \notin {"record", "failed"} /\ job' = job
         \/ /\ run'[j].pc = "done" /\ job' = job
            /\ \/ state'.status = "skipped"
               \/ state'.status = "indexed" /\ (state'.text = doc.text \/ past'.stamp \in {"missed", "named"})
         \/ /\ run'[j].pc = "done" /\ state'.status = "indexed"
            /\ \E s \in Slots : Enqueue(s)
<1>1. ~ (Forget(j) \/ ForgetState(j) \/ RecordError(j))
  BY DEF Forget, ForgetState, RecordError, At, Indexing, Progress
<1>2. CASE \/ Owner(j) \/ Gate(j) \/ Load(j) \/ Read(j) \/ ReadState(j) \/ Existing(j) \/ Pending(j)
           \/ MarkIndexing(j)
  <2>1. run'[j].pc \in {"gate", "skip", "load", "read", "state", "confirm", "mark", "existing",
                        "chunk", "write", "stale"}
    BY <1>2 DEF Owner, Gate, Load, Read, ReadState, Existing, Pending, MarkIndexing, Goto, Indexing,
       Shape, IsRun
  <2>2. job' = job
    BY <1>2 DEF Owner, Gate, Load, Read, ReadState, Existing, Pending, MarkIndexing, OnlyRuns, StateChanges
  <2> QED BY <2>1, <2>2 DEF Busy
<1>3. CASE Create(j) \/ Update(j) \/ DropVectors(j) \/ Trim(j) \/ Write(j) \/ DeleteStale(j)
  <2>1. run'[j].pc \in Tried
    BY <1>3, IndexWrites
  <2>2. job' = job
    BY <1>3 DEF Create, Update, DropVectors, Trim, Write, DeleteStale, ChunksChange
  <2> QED BY <2>1, <2>2 DEF Busy, Tried
<1>4. CASE Skip(j)
  BY <1>4 DEF Skip, Settled, NoState, Goto, StateChanges, Indexing, Shape, IsRun
<1>5. CASE Confirm(j)
  <2>1. state.status = "indexed" /\ state.text = run[j].text
    BY <1>5 DEF Confirm, At, Indexing, Progress
  <2>2. state' = [state EXCEPT !.current = TRUE] /\ run' = [run EXCEPT ![j].pc = "done"] /\ job' = job
    BY <1>5, <2>1 DEF Confirm, UpdateState, Goto, Stamps
  <2>3. doc.text = run[j].text \/ past'.stamp = "missed"
    BY <1>5 DEF Confirm, Unread, Indexing, Shape
  <2>4. run'[j].pc = "done"
    BY <2>2 DEF Indexing, Shape, IsRun
  <2> QED BY <2>1, <2>2, <2>3, <2>4 DEF Indexing, TypeInv, RowsTyped
<1>6. CASE Settle(j)
  <2>1. state.status # "none"
    BY <1>6 DEF Settle, At, Indexing, Progress, Tried
  <2>2. run' = [run EXCEPT ![j].pc = "check"] /\ job' = job
    BY <1>6, <2>1 DEF Settle, UpdateState, Goto, Stamps
  <2> QED BY <2>2 DEF Indexing, Shape, IsRun, Busy
<1>7. CASE Check(j)
  <2>1. state.status = "indexed" /\ state.text = run[j].text /\ state' = state /\ job' = job
    BY <1>7 DEF Check, At, Stamps, Indexing, Progress
  <2>2. CASE doc.rev # run[j].rev
    BY <1>7, <2>1, <2>2 DEF Check, Goto, Indexing, Shape, IsRun, Busy
  <2>3. CASE ~ (doc.rev # run[j].rev)
    <3>1. run'[j].pc = "done" /\ (doc.text = run[j].text \/ past'.stamp = "named")
      BY <1>7, <2>3 DEF Check, Goto, Unread, Indexing, Shape, IsRun
    <3> QED BY <2>1, <3>1
  <2> QED BY <2>2, <2>3
<1>8. CASE Follow(j)
  <2>1. state.status = "indexed" /\ state' = state /\ run'[j].pc = "done"
    BY <1>8 DEF Follow, At, Goto, Indexing, Progress, Shape, IsRun
  <2>2. \E s \in Slots : Enqueue(s)
    BY <1>8, SearchAssumption DEF Follow
  <2> QED BY <2>1, <2>2
<1> QED BY <1>1, <1>2, <1>3, <1>4, <1>5, <1>6, <1>7, <1>8 DEF Process

\* Where nothing fails, an edit is indexed, or somebody is going to look.
LEMMA WorkStep ==
  Shape /\ TypeInv /\ Counted /\ IndexInv /\ WorkInv /\ [Next]_vars => WorkInv'
<1> DEFINE calm    == \A j \in Slots : run[j].pc \notin {"record", "failed"} /\ job[j].state # "abandoned"
           done    == (\E j \in Slots : run[j].pc = "done") =>
                        state.status \in {"indexed", "skipped"} \/ \E k \in Slots : Busy(k)
           settled == \/ past.stamp \in {"missed", "named"} \/ Awaited
                      \/ state.status = "indexed" /\ state.text = doc.text
                      \/ state.status = "skipped"
<1> SUFFICES ASSUME Shape, TypeInv, Counted, IndexInv, WorkInv, [Next]_vars,
                    used'.faults = 0, Live', ~past'.overlap
             PROVE  calm' /\ done' /\ settled'
  BY DEF WorkInv
<1>1. used.faults = 0 /\ ~Faulty /\ Counted'
  BY CountedStep
<1>2. Live /\ ~past.overlap
  BY NothingComesBack
<1>3. calm /\ done /\ settled
  BY <1>1, <1>2 DEF WorkInv
<1>4. \A j \in Slots : Indexing(j)
  BY <1>2 DEF IndexInv, Indexing
<1>5. ~ \/ \E j \in Slots : Fails(j) \/ Throws(j) \/ KeyRefused(j) \/ WrongWidth(j) \/ RateLimited(j)
        \/ Crash \/ PurgeFails
  BY <1>1, <1>3 DEF Fails, At, Throws, KeyRefused, WrongWidth, RateLimited, Crash, PurgeFails
<1>6. ~ (RemoveDocument \/ PurgeChunks \/ PurgeState \/ PurgeRow)
  BY <1>2 DEF RemoveDocument, PurgeChunks, PurgeState, PurgeRow, Live, Shape
<1>7. ASSUME NEW j \in Slots, Process(j) PROVE calm' /\ done' /\ settled'
  <2>1. /\ doc' = doc /\ Running(j) /\ \A k \in Slots \ {j} : run'[k] = run[k]
    BY <1>7, ProcessMoves
  <2>2. \/ Busy(j)' /\ run'[j].pc \notin {"record", "failed"} /\ job' = job
        \/ /\ run'[j].pc = "done" /\ job' = job
           /\ \/ state'.status = "skipped"
              \/ state'.status = "indexed" /\ (state'.text = doc.text \/ past'.stamp \in {"missed", "named"})
        \/ /\ run'[j].pc = "done" /\ state'.status = "indexed"
           /\ \E s \in Slots : Enqueue(s)
    BY <1>3, <1>4, <1>7, WorkProcess
  <2>3. \A k \in Slots : run'[k].pc \notin {"record", "failed"}
    BY <1>3, <2>1, <2>2
  <2>4. CASE Busy(j)' /\ job' = job
    BY <1>3, <2>3, <2>4 DEF Awaited
  <2>5. CASE /\ run'[j].pc = "done" /\ job' = job
             /\ \/ state'.status = "skipped"
                \/ state'.status = "indexed" /\ (state'.text = doc.text \/ past'.stamp \in {"missed", "named"})
    BY <1>3, <2>1, <2>3, <2>5
  <2>6. CASE /\ run'[j].pc = "done" /\ state'.status = "indexed"
             /\ \E s \in Slots : Enqueue(s)
    <3> PICK s \in Slots : Enqueue(s)
      BY <2>6
    <3>1. job'[s].state = "pending" /\ \A k \in Slots \ {s} : job'[k] = job[k]
      BY DEF Enqueue, NoJob, TypeInv, JobsTyped
    <3> QED BY <1>3, <2>3, <2>6, <3>1 DEF Awaited
  <2> QED BY <2>2, <2>4, <2>5, <2>6
<1>8. ASSUME NEW j \in Slots, Claim(j) PROVE calm' /\ done' /\ settled'
  <2>1. /\ run'[j].pc = "owner" /\ \A k \in Slots \ {j} : run'[k] = run[k]
        /\ job'[j].state = "running" /\ \A k \in Slots \ {j} : job'[k] = job[k]
    BY <1>8 DEF Claim, ClaimJob, NoRun, Shape, TypeInv, JobsTyped, JobRow
  <2>2. Busy(j)'
    BY <2>1 DEF Busy
  <2> QED BY <1>3, <2>1, <2>2 DEF Awaited
<1>9. ASSUME NEW j \in Slots, Completes(j) PROVE calm' /\ done' /\ settled'
  <2>1. /\ run'[j].pc = "idle" /\ \A k \in Slots \ {j} : run'[k] = run[k]
        /\ job'[j].state = "none" /\ \A k \in Slots \ {j} : job'[k] = job[k]
    BY <1>9 DEF Completes, Complete, Ends, NoRun, NoJob, Shape, TypeInv, JobsTyped
  <2>2. /\ run[j].pc = "done" /\ job[j].state = "running"
        /\ doc' = doc /\ state' = state /\ past' = past /\ owed' = owed
    BY <1>9 DEF Completes, At, Running, Ends
  <2>3. calm'
    BY <1>3, <2>1
  <2>4. \A k \in Slots : (Busy(k)' <=> Busy(k)) /\ (job'[k].state = "pending" <=> job[k].state = "pending")
    BY <2>1, <2>2 DEF Busy
  <2>5. (\E k \in Slots : run'[k].pc = "done") => \E k \in Slots : run[k].pc = "done"
    BY <2>2
  <2> QED BY <1>3, <2>2, <2>3, <2>4, <2>5 DEF Awaited
<1>10. CASE Edit \/ Name
  <2>1. run' = run /\ job' = job /\ state'.status = state.status /\ owed' = owed + 1
    BY <1>10 DEF Edit, Name, Commits, TypeInv, RowsTyped
  <2>2. owed' > 0
    BY <2>1 DEF Counted
  <2> QED BY <1>3, <2>1, <2>2 DEF Awaited, Busy
<1>11. ASSUME run' = run, state' = state, Enqueue(Keyed) PROVE calm' /\ done' /\ settled'
  <2>1. job'[Keyed].state = "pending" /\ \A k \in Slots \ {Keyed} : job'[k] = job[k]
    BY <1>11, SearchAssumption DEF Enqueue, NoJob, TypeInv, JobsTyped
  <2>2. calm'
    BY <1>3, <1>11, <2>1
  <2>3. done'
    BY <1>3, <1>11 DEF Busy
  <2> QED BY <2>1, <2>2, <2>3, SearchAssumption DEF Awaited
<1>12. ASSUME run' = run, job' = job, state' = state, doc' = doc, past'.stamp = past.stamp, owed' = owed
       PROVE  calm' /\ done' /\ settled'
  BY <1>3, <1>12 DEF Awaited, Busy
<1>13. CASE Queue
  <2>1. /\ run' = run /\ state' = state /\ doc' = doc
        /\ past'.stamp = IF At(Keyed, "done") /\ doc.text # state.text THEN "missed" ELSE past.stamp
    BY <1>13 DEF Queue, Shape
  <2>2. Enqueue(Keyed) \/ (Active(Keyed) /\ job' = job)
    BY <1>1, <1>13 DEF Queue, EnqueueOnce
  <2>3. CASE Enqueue(Keyed)
    BY <1>11, <2>1, <2>3
  <2>4. CASE Active(Keyed) /\ job' = job
    <3>1. calm' /\ done'
      BY <1>3, <2>1, <2>4 DEF Busy
    <3>2. CASE job[Keyed].state = "pending" \/ \E k \in Slots : Busy(k)
      BY <2>1, <2>4, <3>1, <3>2, SearchAssumption DEF Awaited, Busy
    <3>3. CASE job[Keyed].state # "pending" /\ \A k \in Slots : ~Busy(k)
      <4>1. At(Keyed, "done")
        BY <1>3, <2>4, <3>3, SearchAssumption DEF Active, TypeInv, JobsTyped, JobRow, Running, At, Busy
      <4>2. state.status \in {"indexed", "skipped"}
        BY <1>3, <3>3, <4>1, SearchAssumption DEF At
      <4>3. past'.stamp = "missed" \/ doc.text = state.text
        BY <2>1, <4>1
      <4> QED BY <2>1, <3>1, <4>2, <4>3
    <3> QED BY <3>2, <3>3
  <2> QED BY <2>2, <2>3, <2>4
<1>14. CASE QueuePressed
  <2>1. /\ run' = run /\ state' = state /\ doc' = doc /\ past' = past /\ owed' = owed
        /\ Enqueue(Keyed) \/ job' = job
    BY <1>14 DEF QueuePressed, EnqueueOnce
  <2> QED BY <1>11, <1>12, <2>1
<1>15. CASE Press \/ Switch \/ UNCHANGED vars
  <2>1. run' = run /\ job' = job /\ state' = state /\ doc' = doc /\ past' = past /\ owed' = owed
    BY <1>15 DEF Press, Switch, vars
  <2> QED BY <1>12, <2>1
<1> QED
  BY <1>5, <1>6, <1>7, <1>8, <1>9, <1>10, <1>13, <1>14, <1>15 DEF Next

\* Where nothing fails an edit is indexed without anyone asking, but for the cases named.
THEOREM CaughtUpHolds == Spec => []CaughtUp
<1>1. Init => Counted /\ WorkInv
  BY DEF Init, QueueInit, NoJob, NoRun, Counted, WorkInv, Awaited
<1>2. Shape /\ Counted /\ [Next]_vars => Counted'
  BY CountedStep
<1>3. TypeInv /\ IndexInv /\ WorkInv => CaughtUp
  <2> SUFFICES ASSUME TypeInv, IndexInv, WorkInv, used.faults = 0, Quiet, Live, ~past.overlap,
                      past.stamp \notin {"missed", "named"}
               PROVE  (state.status = "indexed" /\ UpToDate) \/ state.status = "skipped"
    BY DEF CaughtUp
  <2>1. ~Awaited
    BY DEF Quiet, Awaited, Active, Busy, TypeInv, JobsTyped, Running
  <2>2. (state.status = "indexed" /\ state.text = doc.text) \/ state.status = "skipped"
    BY <2>1 DEF WorkInv
  <2> QED BY <2>2 DEF IndexInv, Told, Holds, Vectored, UpToDate
<1> QED
  BY <1>1, <1>2, <1>3, WorkStep, IndexHolds, TypesHold, ShapeKept, PTL DEF Spec
===============================================================================
