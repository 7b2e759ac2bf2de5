----------------------------- MODULE SearchIndex -----------------------------
(***************************************************************************)
(* The semantic index of one document: the search.index job                *)
(* (SearchIndexHandler.process), everything that queues it, and the purge  *)
(* that takes the index of a removed document with it.                     *)
(*                                                                         *)
(* The document is cut into chunks; a chunk is kept under its ordinal, so  *)
(* that its vectors survive an edit that leaves its text alone.  A text is *)
(* a value and its hash is the text; a vector is the text it was computed  *)
(* from.  Every statement the job makes of the database is a step.  The    *)
(* document is read as a transcript is, in two statements; a note is read  *)
(* in one, which is the case of nothing coming between the two.            *)
(*                                                                         *)
(* The queue runs two jobs at a time and `skipDedup` rows carry no key:    *)
(* several runs of one document may be under way.                          *)
(***************************************************************************)
EXTENDS JobQueue, Sequences, FiniteSetsExt

CONSTANTS Keyed, Reruns,      \* the slot of the dedup key, and those without one
          Texts, Contents,    \* texts of a chunk; what the document may say, in chunks
          MaxChunks,          \* the length of the longest of them
          Models, NoModel,    \* embedding models; none that can be used
          None,               \* no vector
          BatchSize,          \* how many texts one call embeds
          MaxEdits, MaxNames, MaxFaults, MaxSwitches, MaxPresses   \* bounds

ASSUME SearchAssumption ==
  /\ Slots = {Keyed} \cup Reruns /\ Keyed \notin Reruns /\ IsFiniteSet(Reruns)
  /\ MaxChunks \in Nat
  /\ Contents # {} /\ Contents \subseteq {c \in Seq(Texts) : Len(c) <= MaxChunks}
  /\ NoModel \notin Models /\ None \notin Texts
  /\ BatchSize \in Nat \ {0}
  /\ {MaxEdits, MaxNames, MaxFaults, MaxSwitches, MaxPresses} \subseteq Nat

VARIABLES doc,      \* the document
          setting,  \* the model that can be used for its owner now
          chunk,    \* search_chunks with their search_embeddings, by ordinal
          state,    \* search_index_state
          run,      \* the runs of the job, by slot
          owed,     \* committed edits that have not called enqueue yet
          purge,    \* the step of the purge of a removed document
          pressed,  \* the owner's request found the document wanting
          past,     \* what has happened that no row remembers
          used      \* how much of each bound has been used

vars == <<doc, setting, chunk, state, run, owed, purge, pressed, past, used, job>>

Ords == 1..MaxChunks

NoChunk == [id |-> 0, text |-> None, vector |-> [m \in Models |-> None]]
Brief(c) == [id |-> c.id, text |-> c.text]
NoState == [status |-> "none", text |-> <<>>, model |-> NoModel, current |-> FALSE]
NoRun   == [pc |-> "idle", rev |-> 0, text |-> <<>>, model |-> NoModel,
            known |-> [o \in Ords |-> Brief(NoChunk)], at |-> 0, todo |-> {}]

There(o) == chunk[o].id # 0
Rows     == {o \in Ords : There(o)}
Live     == doc.state = "live"

-------------------------------------------------------------------------------
(* Steps of a run.                                                         *)

At(j, step)   == Running(j) /\ run[j].pc = step
Goto(j, step) == run' = [run EXCEPT ![j].pc = step]

\* What a step has beside its move: it changes the chunks, or the state row, or stamps it too.
OnlyRuns     == UNCHANGED <<doc, setting, chunk, state, owed, purge, pressed, past, used, job>>
ChunksChange == UNCHANGED <<doc, setting, state, owed, purge, pressed, past, used, job>>
StateChanges == UNCHANGED <<doc, setting, chunk, owed, purge, pressed, past, used, job>>
Stamps       == UNCHANGED <<doc, setting, chunk, owed, purge, pressed, used, job>>

\* What the handler's catch sees; elsewhere an error goes straight to the queue.
Tried == {"existing", "chunk", "drop", "pending", "write", "stale", "settle"}

Raised(j) == Goto(j, IF run[j].pc \in Tried THEN "record" ELSE "failed")

\* `update` by the document's id: a row that is not there is an error.
UpdateState(j, row, step) ==
  IF state.status = "none" THEN Raised(j) /\ UNCHANGED state
  ELSE state' = row /\ Goto(j, step)

\* upsert of a final outcome: nothing that was known of the text stays.
Settled(status) == [NoState EXCEPT !.status = status]

Owner(j) ==
  /\ At(j, "owner") /\ Goto(j, IF Live THEN "gate" ELSE "forget")
  /\ OnlyRuns

Gate(j) ==
  /\ At(j, "gate")
  /\ run' = [run EXCEPT ![j].pc = IF setting = NoModel THEN "skip" ELSE "load",
                        ![j].model = setting]
  /\ OnlyRuns

Skip(j) ==
  /\ At(j, "skip") /\ Goto(j, "done")
  /\ state' = Settled("skipped")
  /\ StateChanges

\* SearchIndexService.forget: the chunks, with their vectors, then the state row.
NoChunks == chunk' = [o \in Ords |-> NoChunk]

Forget(j) ==
  /\ At(j, "forget") /\ Goto(j, "forgetState") /\ NoChunks
  /\ ChunksChange

ForgetState(j) ==
  /\ At(j, "forgetState") /\ Goto(j, "done") /\ state' = NoState
  /\ StateChanges

\* Mutant of Load: a removed document is loaded like any other.
LoadAnyway(j) ==
  /\ At(j, "load")
  /\ run' = [run EXCEPT ![j].pc = "read", ![j].rev = doc.rev]
  /\ OnlyRuns

\* The header, with the revision, and then the segments.
Load(j) ==
  /\ At(j, "load")
  /\ run' = IF Live THEN [run EXCEPT ![j].pc = "read", ![j].rev = doc.rev]
            ELSE [run EXCEPT ![j].pc = "forget"]
  /\ OnlyRuns

Read(j) ==
  /\ At(j, "read")
  /\ run' = [run EXCEPT ![j].pc = "state",
                        ![j].text = IF doc.state = "gone" THEN <<>> ELSE doc.text]
  /\ OnlyRuns

ReadState(j) ==
  /\ At(j, "state")
  /\ LET unchanged == /\ state.status = "indexed" /\ state.text = run[j].text
                      /\ state.model = run[j].model
     IN  Goto(j, IF unchanged THEN "confirm" ELSE "mark")
  /\ OnlyRuns

\* The document has become another since the run read it.
Unread(j) == doc.text # run[j].text

\* Nothing to do: `indexedAt` is moved to now, whatever the document has become since.
Confirm(j) ==
  /\ At(j, "confirm")
  /\ UpdateState(j, [state EXCEPT !.current = TRUE], "done")
  /\ past' = [past EXCEPT !.stamp = IF Unread(j) THEN "missed" ELSE "fresh"]
  /\ Stamps

MarkIndexing(j) ==
  /\ At(j, "mark") /\ Goto(j, "existing")
  /\ state' = [state EXCEPT !.status = "indexing"]
  /\ StateChanges

\* The ordinals in order; a chunk whose hash is the same is passed over.
NextOrd(known, text, from) ==
  LET differs == {o \in from..Len(text) : known[o].text # text[o]} IN
  IF differs = {} THEN Len(text) + 1 ELSE Min(differs)

\* An id no row has and no run holds.
FreshId ==
  LET held == {chunk[o].id : o \in Ords}
              \cup (UNION {{run[s].known[o].id : o \in Ords} : s \in Slots})
              \cup (UNION {{t.id : t \in run[s].todo} : s \in Slots})
  IN  CHOOSE n \in 1..(Cardinality(held) + 1) : n \notin held

\* reconcileChunks: what is there now, under which ids.
Existing(j) ==
  /\ At(j, "existing")
  /\ LET known == [o \in Ords |-> Brief(chunk[o])] IN
       run' = [run EXCEPT ![j].pc = "chunk", ![j].known = known,
                          ![j].at = NextOrd(known, run[j].text, 1)]
  /\ OnlyRuns

Onward(j) ==
  run' = [run EXCEPT ![j].pc = "chunk",
                     ![j].at = NextOrd(run[j].known, run[j].text, run[j].at + 1)]

\* A chunk that was not there is created, unless another run has created it since.
Create(j) ==
  LET o == run[j].at IN
  /\ At(j, "chunk") /\ o <= Len(run[j].text) /\ run[j].known[o].id = 0
  /\ IF There(o) THEN Raised(j) /\ UNCHANGED chunk
     ELSE /\ chunk' = [chunk EXCEPT ![o] = [NoChunk EXCEPT !.id = FreshId, !.text = run[j].text[o]]]
          /\ Onward(j)
  /\ ChunksChange

\* One whose text changed keeps its id, and with it the vectors of the old text.
Update(j) ==
  LET o == run[j].at IN
  /\ At(j, "chunk") /\ o <= Len(run[j].text) /\ run[j].known[o].id # 0
  /\ IF chunk[o].id # run[j].known[o].id THEN Raised(j) /\ UNCHANGED chunk
     ELSE chunk' = [chunk EXCEPT ![o].text = run[j].text[o]] /\ Goto(j, "drop")
  /\ ChunksChange

\* Mutant of DropVectors: an edited chunk keeps its vectors.
DropNoVectors(j) ==
  /\ At(j, "drop") /\ Onward(j)
  /\ UNCHANGED chunk /\ ChunksChange

\* A statement of its own: its vectors go.
DropVectors(j) ==
  LET o == run[j].at IN
  /\ At(j, "drop") /\ Onward(j)
  /\ chunk' = IF chunk[o].id = run[j].known[o].id
              THEN [chunk EXCEPT ![o].vector = NoChunk.vector] ELSE chunk
  /\ ChunksChange

\* Mutant of Trim: the vectors of a deleted chunk do not go with it.
TrimAlone(j) ==
  /\ At(j, "chunk") /\ run[j].at > Len(run[j].text)
  /\ Goto(j, "pending")
  /\ chunk' = [o \in Ords |-> IF o > Len(run[j].text) THEN [chunk[o] EXCEPT !.id = 0, !.text = None]
                              ELSE chunk[o]]
  /\ ChunksChange

\* What lies past the end of the document goes.
Trim(j) ==
  /\ At(j, "chunk") /\ run[j].at > Len(run[j].text)
  /\ Goto(j, "pending")
  /\ chunk' = [o \in Ords |-> IF o > Len(run[j].text) THEN NoChunk ELSE chunk[o]]
  /\ ChunksChange

\* embedMissing: the chunks without a vector of this model, whoever wrote them.
Pending(j) ==
  /\ At(j, "pending")
  /\ LET missing == {o \in Rows : chunk[o].vector[run[j].model] = None} IN
       run' = [run EXCEPT ![j].pc = IF missing = {} THEN "stale" ELSE "write",
                          ![j].known = NoRun.known, ![j].at = 0,
                          ![j].todo = {[at |-> o, id |-> chunk[o].id, text |-> chunk[o].text]
                                         : o \in missing}]
  /\ OnlyRuns

\* One batch, in the order of the document: the texts are embedded, and the vectors are written
\* in one transaction, which fails when a chunk they belong to is gone.
Write(j) ==
  LET before(t) == {u \in run[j].todo : u.at < t.at}
      batch == {t \in run[j].todo : Cardinality(before(t)) < BatchSize}
      rest  == run[j].todo \ batch
  IN
  /\ At(j, "write")
  /\ IF \E t \in batch : \A o \in Ords : chunk[o].id # t.id
     THEN Raised(j) /\ UNCHANGED chunk
     ELSE /\ chunk' = [o \in Ords |->
               LET mine == {t \in batch : t.id = chunk[o].id} IN
               IF mine = {} THEN chunk[o]
               ELSE [chunk[o] EXCEPT !.vector[run[j].model] = (CHOOSE t \in mine : TRUE).text]]
          /\ run' = [run EXCEPT ![j].todo = rest,
                                ![j].pc = IF rest = {} THEN "stale" ELSE "write"]
  /\ ChunksChange

\* Only now the vectors of other models go.
DeleteStale(j) ==
  /\ At(j, "stale") /\ Goto(j, "settle")
  /\ chunk' = [o \in Ords |-> [chunk[o] EXCEPT
                 !.vector = [m \in Models |-> IF m = run[j].model THEN @[m] ELSE None]]]
  /\ ChunksChange

Settle(j) ==
  /\ At(j, "settle")
  /\ UpdateState(j, [status |-> "indexed", text |-> run[j].text, model |-> run[j].model,
                     current |-> TRUE], "check")
  /\ past' = [past EXCEPT !.stamp = IF Unread(j) THEN "settled" ELSE "fresh"]
  /\ Stamps

\* Did the document move underneath us?  Its revision tells, which a naming leaves alone.
Check(j) ==
  LET moved == doc.rev # run[j].rev IN
  /\ At(j, "check")
  /\ Goto(j, IF Live /\ moved THEN "follow" ELSE "done")
  /\ past' = [past EXCEPT !.stamp = IF Unread(j) /\ ~moved THEN "named" ELSE @]
  /\ Stamps /\ UNCHANGED state

\* Mutant of Follow: the follow-up is queued like any other.
FollowDeduped(j) ==
  /\ At(j, "follow") /\ Goto(j, "done") /\ EnqueueOnce(Keyed)
  /\ UNCHANGED <<doc, setting, chunk, state, owed, purge, pressed, past, used>>

\* The follow-up skips dedup: the key is still this run's.
Follow(j) ==
  /\ At(j, "follow") /\ Goto(j, "done")
  /\ \E s \in Reruns : Enqueue(s)
  /\ UNCHANGED <<doc, setting, chunk, state, owed, purge, pressed, past, used>>

\* The catch of an error nobody expected.
RecordError(j) ==
  /\ At(j, "record") /\ Goto(j, "failed")
  /\ state' = [state EXCEPT !.status = "failed"]
  /\ StateChanges

Process(j) ==
  \/ Owner(j) \/ Gate(j) \/ Skip(j) \/ Forget(j) \/ ForgetState(j)
  \/ Load(j) \/ Read(j) \/ ReadState(j) \/ Confirm(j) \/ MarkIndexing(j)
  \/ Existing(j) \/ Create(j) \/ Update(j) \/ DropVectors(j) \/ Trim(j)
  \/ Pending(j) \/ Write(j) \/ DeleteStale(j) \/ Settle(j)
  \/ Check(j) \/ Follow(j) \/ RecordError(j)

-------------------------------------------------------------------------------
(* The worker, and how a run can end otherwise.                            *)

Busy(j) == run[j].pc \notin {"idle", "done"}

Claim(j) ==
  /\ ClaimJob(j)
  /\ run' = [run EXCEPT ![j] = [NoRun EXCEPT !.pc = "owner"]]
  /\ past' = [past EXCEPT !.overlap = @ \/ \E s \in Slots : Busy(s)]
  /\ UNCHANGED <<doc, setting, chunk, state, owed, purge, pressed, used>>

Ends(j) ==
  /\ run' = [run EXCEPT ![j] = NoRun]
  /\ UNCHANGED <<doc, setting, chunk, state, owed, purge, pressed, past, used>>

Completes(j) == At(j, "done") /\ Complete(j) /\ Ends(j)

\* The handler threw, or the reaper finds the row of a dead process.
Fails(j) == (At(j, "failed") \/ job[j].state = "abandoned") /\ Fail(j) /\ Ends(j)

Faulty ==
  /\ used.faults < MaxFaults
  /\ used' = [used EXCEPT !.faults = @ + 1]

\* Runs are cut short between the two statements of an edited chunk.
Cut(slots) == [past EXCEPT !.torn = @ \/ \E j \in slots : At(j, "drop")]

\* A statement or a call fails.
Throws(j) ==
  /\ Running(j) /\ run[j].pc \notin {"done", "failed"} /\ Faulty
  /\ Raised(j)
  /\ past' = Cut({j})
  /\ UNCHANGED <<doc, setting, chunk, state, owed, purge, pressed, job>>

\* The provider refuses the key; its vectors have another width.
KeyRefused(j) ==
  /\ At(j, "write") /\ Faulty /\ Goto(j, "skip")
  /\ UNCHANGED <<doc, setting, chunk, state, owed, purge, pressed, past, job>>

WrongWidth(j) ==
  /\ At(j, "write") /\ Faulty /\ Goto(j, "record")
  /\ state' = Settled("failed")
  /\ UNCHANGED <<doc, setting, chunk, owed, purge, pressed, past, job>>

\* A 429 puts the row back and says nothing in the state row.
RateLimited(j) ==
  /\ At(j, "write") /\ Faulty /\ Defer(j)
  /\ run' = [run EXCEPT ![j] = NoRun]
  /\ UNCHANGED <<doc, setting, chunk, state, owed, purge, pressed, past>>

\* One process holds the worker, the requests and the purge, which starts over.
Crash ==
  /\ Faulty /\ AbandonAll
  /\ past' = Cut(Slots)
  /\ run' = [j \in Slots |-> NoRun]
  /\ owed' = 0 /\ pressed' = FALSE
  /\ purge' = "chunks"
  /\ UNCHANGED <<doc, setting, chunk, state>>

-------------------------------------------------------------------------------
(* The document, its owner and the settings.                               *)

\* A commit is later than what the state row was confirmed at.
Commits(rev) ==
  /\ Live
  /\ \E text \in Contents \ {doc.text} : doc' = [doc EXCEPT !.text = text, !.rev = rev]
  /\ state' = [state EXCEPT !.current = FALSE]
  /\ owed' = owed + 1
  /\ UNCHANGED <<setting, chunk, run, purge, pressed, past, job>>

Edit == doc.rev < MaxEdits /\ Commits(doc.rev + 1) /\ UNCHANGED used

\* A speaker is named: the lines of a chunk start with the name, and no version is written.
Name ==
  /\ used.names < MaxNames /\ Commits(doc.rev)
  /\ used' = [used EXCEPT !.names = @ + 1]

\* The enqueue that follows a commit; one that fails is logged.
Queue ==
  /\ owed > 0 /\ owed' = owed - 1
  /\ past' = [past EXCEPT !.stamp =
       IF At(Keyed, "done") /\ doc.text # state.text THEN "missed" ELSE @]
  /\ \/ EnqueueOnce(Keyed) /\ UNCHANGED used
     \/ Faulty /\ UNCHANGED job
  /\ UNCHANGED <<doc, setting, chunk, state, run, purge, pressed>>

\* Mutant of NeedsIndexing: what failed is left alone.
NeedsIndexingUntried ==
  \/ state.status = "none"
  \/ state.status = "indexed" /\ (state.model # setting \/ ~state.current)

\* What the owner's request takes for out of date.
NeedsIndexing ==
  \/ state.status \notin {"indexing", "indexed"}
  \/ state.status = "indexed" /\ (state.model # setting \/ ~state.current)

\* The owner asks for what is missing to be indexed.
Press ==
  /\ ~pressed /\ used.presses < MaxPresses /\ setting # NoModel
  /\ Live /\ NeedsIndexing
  /\ pressed' = TRUE
  /\ used' = [used EXCEPT !.presses = @ + 1]
  /\ UNCHANGED <<doc, setting, chunk, state, run, owed, purge, past, job>>

QueuePressed ==
  /\ pressed /\ pressed' = FALSE
  /\ EnqueueOnce(Keyed)
  /\ UNCHANGED <<doc, setting, chunk, state, run, owed, purge, past, used>>

Switch ==
  /\ used.switches < MaxSwitches
  /\ \E m \in (Models \cup {NoModel}) \ {setting} : setting' = m
  /\ used' = [used EXCEPT !.switches = @ + 1]
  /\ UNCHANGED <<doc, chunk, state, run, owed, purge, pressed, past, job>>

RemoveDocument ==
  /\ Live /\ doc' = [doc EXCEPT !.state = "removed"]
  /\ UNCHANGED <<setting, chunk, state, run, owed, purge, pressed, past, used, job>>

\* A run that has found the document there and will write.
Outliving ==
  \E j \in Slots : run[j].pc \in Tried \cup {"gate", "skip", "read", "state", "mark", "record"}

\* The purge handler: forget, and then the row.
PurgeChunks ==
  /\ doc.state = "removed" /\ purge = "chunks"
  /\ purge' = "state" /\ NoChunks
  /\ past' = [past EXCEPT !.outlived = @ \/ Outliving]
  /\ UNCHANGED <<doc, setting, state, run, owed, pressed, used, job>>

PurgeState ==
  /\ doc.state = "removed" /\ purge = "state"
  /\ purge' = "row" /\ state' = NoState
  /\ UNCHANGED <<doc, setting, chunk, run, owed, pressed, past, used, job>>

PurgeRow ==
  /\ doc.state = "removed" /\ purge = "row"
  /\ doc' = [doc EXCEPT !.state = "gone"]
  /\ UNCHANGED <<setting, chunk, state, run, owed, purge, pressed, past, used, job>>

\* The purge is tried again, from the start.
PurgeFails ==
  /\ doc.state = "removed" /\ purge # "chunks" /\ Faulty
  /\ purge' = "chunks"
  /\ UNCHANGED <<doc, setting, chunk, state, run, owed, pressed, past, job>>

Init ==
  /\ \E text \in Contents : doc = [state |-> "live", rev |-> 0, text |-> text]
  /\ setting \in Models
  /\ chunk = [o \in Ords |-> NoChunk] /\ state = NoState
  /\ run = [j \in Slots |-> NoRun] /\ QueueInit
  /\ owed = 1 /\ purge = "chunks" /\ pressed = FALSE
  /\ past = [torn |-> FALSE, overlap |-> FALSE, stamp |-> "fresh", outlived |-> FALSE]
  /\ used = [names |-> 0, faults |-> 0, switches |-> 0, presses |-> 0]

Next ==
  \/ \E j \in Slots :
       \/ Claim(j) \/ Process(j) \/ Completes(j) \/ Fails(j)
       \/ Throws(j) \/ KeyRefused(j) \/ WrongWidth(j) \/ RateLimited(j)
  \/ Crash
  \/ Edit \/ Name \/ Queue \/ Press \/ QueuePressed \/ Switch
  \/ RemoveDocument \/ PurgeChunks \/ PurgeState \/ PurgeRow \/ PurgeFails

Spec == Init /\ [][Next]_vars

-------------------------------------------------------------------------------
(* Properties                                                              *)

Chunks == [id : Nat, text : Texts \cup {None}, vector : [Models -> Texts \cup {None}]]
Held   == [id : Nat, text : Texts \cup {None}]

\* Rows have ids of their own, and a vector needs its row.
SearchTypeOK ==
  /\ doc.state \in {"live", "removed", "gone"} /\ doc.text \in Contents
  /\ setting \in Models \cup {NoModel}
  /\ chunk \in [Ords -> Chunks] /\ job \in [Slots -> JobRow]
  /\ state.status \in {"none", "indexing", "indexed", "skipped", "failed"}
  /\ \A o \in Ords : /\ ~There(o) => chunk[o] = NoChunk
                     /\ \A q \in Rows \ {o} : chunk[q].id # chunk[o].id
  /\ \A j \in Slots : /\ run[j].known \in [Ords -> Held]
                      /\ \A t \in run[j].todo : t.at \in Ords /\ t.text \in Texts
                      /\ Running(j) <=> run[j].pc # "idle"

\* A chunk whose text moved loses its vectors ("the single most dangerous line in the file"):
\* a vector is of the text its chunk has, but for the chunk whose vectors are the next thing to
\* go.  It takes runs that do not overlap, and no error between the two statements.
VectorsFit ==
  past.torn \/ past.overlap \/
  \A o \in Rows, m \in Models :
    \/ chunk[o].vector[m] \in {None, chunk[o].text}
    \/ \E j \in Slots : At(j, "drop") /\ run[j].at = o

UpToDate ==
  /\ state.text = doc.text
  /\ \A o \in Ords : chunk[o].text = IF o <= Len(doc.text) THEN doc.text[o] ELSE None
  /\ \A o \in Rows : chunk[o].vector[state.model] # None

Quiet == (\A j \in Slots : ~Active(j)) /\ owed = 0 /\ ~pressed

\* "The dedup race, closed here": where nothing fails, an edit is indexed without anyone asking,
\* also one whose enqueue was merged into a run that had read the older text.  Missed is an
\* edit that comes after that run's last look and is merged while its row is still active, and the
\* run that finds the older text indexed already does not look again; a naming is seen by no
\* look; runs that overlap undo each other's work.
CaughtUp ==
  used.faults = 0 /\ Quiet /\ Live
    => \/ state.status = "indexed" /\ UpToDate
       \/ state.status = "skipped"
       \/ past.stamp \in {"missed", "named"} \/ past.overlap

\* The same, of namings too, as the comment on the revision has it: "segment text, segment order
\* and speaker display names all move only through an op batch, which is a version".
NamesCaughtUp ==
  used.faults = 0 /\ Quiet /\ Live
    => \/ state.status = "indexed" /\ UpToDate
       \/ state.status = "skipped"
       \/ past.stamp = "missed" \/ past.overlap

\* Whatever fails, what the index has not caught up with is offered to the owner
\* (needsIndexing): an enqueue that was lost, a job that gave up, another model.  Left out are a
\* row that died in `indexing`, one that a run which had read an older text stamped with the
\* present, and what overlapping runs left.
StaleIsOffered ==
  Quiet /\ Live /\ setting # NoModel /\ ~NeedsIndexing
    => \/ UpToDate
       \/ state.status = "indexing" \/ past.stamp # "fresh" \/ past.overlap

\* Nothing of a document outlives it: "nothing else will ever clean these up".  Only a run that
\* had found the document there when the purge began to forget it can still write.
NothingLeft ==
  doc.state = "gone" => (Rows = {} /\ state = NoState) \/ past.outlived
===============================================================================
