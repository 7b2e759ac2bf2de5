---------------------------- MODULE NoteGeneration ----------------------------
(***************************************************************************)
(* One note of the notes slice and everything that writes it: the          *)
(* `note.generate` jobs of its generations (several may be queued, and     *)
(* run, at once), the saves and restores of its owner with their retries,  *)
(* the removal with its purge job, and the sweep; and the pages that watch *)
(* a generation being written (module RowStream).                          *)
(*                                                                         *)
(* Every await of the code is a step boundary.  A transaction is one step, *)
(* except the commit of a generation, which reads the note without a lock  *)
(* before it writes: other transactions may commit in between.             *)
(*                                                                         *)
(* The text of a generation is the sequence of the chunks its provider has *)
(* sent, each named by the run of the job that received it: two runs of    *)
(* one generation never produce the same text.  The text of a save is      *)
(* named by its batch.                                                     *)
(***************************************************************************)
EXTENDS JobQueue, RowStream, FiniteSets

CONSTANTS Gens,       \* the generations that may be asked for
          First,      \* the one created together with the note
          Previews,   \* the generations of a template preview, which have no note
          Saves,      \* the save and restore requests of the owner
          Batches,    \* the client batch ids of the saves
          Purge,      \* the slot of the note's purge job
          Scenes,     \* where to begin: with a note or with none, and which generation each
                      \* reader watches, NoGen for the note's current one
          NoGen, NoBatch,
          MaxChunks,  \* the chunks one run of the provider sends
          Mishaps     \* how many steps may throw, and how often the process may die, together

ASSUME NoteAssumption ==
  /\ First \in Gens /\ Previews \subseteq Gens \ {First}
  /\ Purge \notin Gens /\ NoGen \notin Gens /\ NoBatch \notin Batches
  /\ Slots = Gens \cup {Purge} /\ \A g \in Gens : MaxAttempts[g] = 1
  /\ Scenes \subseteq [note : BOOLEAN, route : [Readers -> Gens \cup {NoGen}]]
  /\ MaxChunks \in Nat \ {0} /\ Mishaps \in Nat

VARIABLES note,       \* the notes row
          versions,   \* its note_versions rows, in order
          gens,       \* the note_generations rows
          run,        \* run[g]: the handler of g's job, or the request that queues it
          save,       \* save[s]: a save or restore request
          removal,    \* the removal request in flight
          told,       \* told[g]: what the owner was told of g
          cutOff,     \* the generations whose handler ended without recording an outcome
          route,      \* route[r]: what r asks for, a generation or the note's current one
          watching,   \* watching[r]: every generation r has connected to, in order
          budget      \* the mishaps left

noteVars == <<note, versions>>
vars == <<note, versions, gens, run, save, removal, told, cutOff, route, watching, budget,
          job, conn, wire, page, faults>>

\* What only the requests, only the readers, or only the handlers touch.
requestVars == <<save, removal>>
readerVars  == <<route, watching, conn, wire, page, faults>>
handlerVars == <<gens, run, told, cutOff>>

-------------------------------------------------------------------------------
(* The rows.                                                               *)

NoRun == [pc |-> "idle", buffer |-> <<>>, base |-> 0, class |-> "none"]
NoSave == [pc |-> "new", batch |-> NoBatch, body |-> <<>>, base |-> 0, saw |-> 0, status |-> "none",
           answer |-> "none"]

Gone       == note.status = "gone"
Visible    == ~Gone /\ ~note.removed
RowGone(g) == gens[g].status \in {"none", "gone"}
Settled(g) == gens[g].status \in {"succeeded", "failed"}

\* The text of a generation, as the body of a note.  The code's body is the text alone: whose
\* it is, is history, kept to tell the texts of two generations apart.
BodyOf(g, content) == <<g, content>>

\* Mutant of VersionTaken: no unique key.
VersionTakenNever(v) == FALSE

\* @@unique([noteId, version]): the row a second writer of a number collides with.
VersionTaken(v) == v <= Len(versions)

\* A note just created with its first generation queued, or none, for the previews: they
\* share nothing with a note, so PreviewQueue asks for one only where there is no note.
Init ==
  /\ \E scene \in Scenes :
       LET first == IF scene.note THEN "pending" ELSE "gone" IN
       /\ route = scene.route
       /\ note = [status |-> IF scene.note THEN "draft" ELSE "gone", removed |-> FALSE,
                  version |-> 0, body |-> <<>>, gen |-> First]
       /\ gens = [g \in Gens |-> [status |-> IF g = First THEN first ELSE "none",
                                  content |-> <<>>, attempt |-> 0]]
       /\ job = [s \in Slots |-> IF s = First /\ scene.note
                                 THEN [NoJob EXCEPT !.state = "pending"] ELSE NoJob]
  /\ versions = <<>>
  /\ run = [g \in Gens |-> NoRun]
  /\ save = [s \in Saves |-> NoSave]
  /\ removal = "none"
  /\ told = [g \in Gens |-> <<>>]
  /\ cutOff = {}
  /\ watching = [r \in Readers |-> <<>>]
  /\ budget = Mishaps
  /\ StreamInit

\* Where a handler, or the request that queues it, goes next.
StartRun(g, pc)  == run' = [run EXCEPT ![g] = [NoRun EXCEPT !.pc = pc]]
Goto(g, pc)      == run' = [run EXCEPT ![g].pc = pc]
Escape(g, class) == run' = [run EXCEPT ![g].pc = "failGen", ![g].class = class]
EndRun(g)        == run' = [run EXCEPT ![g] = NoRun]

-------------------------------------------------------------------------------
(* The requests that queue a generation.                                   *)

\* POST /notes/:id/regenerate reads the note, then checks the template, the source, the
\* model and the prompt: many awaits.
RegenerateAsk(g) ==
  /\ g \notin Previews /\ gens[g].status = "none" /\ run[g].pc = "idle"
  /\ Visible /\ note.status \notin {"deleting", "generating"}
  /\ Goto(g, "asked")
  /\ UNCHANGED <<noteVars, gens, told, cutOff, requestVars, readerVars, budget, job>>

\* Then one transaction writes the note, the generation, the job and the pointer; the
\* update of a row that is gone refuses the request.
RegenerateQueue(g) ==
  /\ run[g].pc = "asked"
  /\ Goto(g, "idle")
  /\ \/ /\ ~Gone
        /\ gens' = [gens EXCEPT ![g].status = "pending"]
        /\ note' = [note EXCEPT !.gen = g]
        /\ Enqueue(g)
     \/ Gone /\ UNCHANGED <<gens, note, job>>
  /\ UNCHANGED <<versions, told, cutOff, requestVars, readerVars, budget>>

\* POST /note-templates/preview: a generation with no note.
PreviewQueue(g) ==
  /\ g \in Previews /\ gens[g].status = "none" /\ Gone
  /\ gens' = [gens EXCEPT ![g].status = "pending"]
  /\ Enqueue(g)
  /\ UNCHANGED <<noteVars, run, told, cutOff, requestVars, readerVars, budget>>

\* notes.housekeeping, step 1: the row of an expired preview, whatever is using it.
PreviewExpire(g) ==
  /\ g \in Previews /\ ~RowGone(g)
  /\ gens' = [gens EXCEPT ![g].status = "gone"]
  /\ UNCHANGED <<noteVars, run, told, cutOff, requestVars, readerVars, budget, job>>

-------------------------------------------------------------------------------
(* The handler of note.generate.                                           *)

\* The job is claimed and its generation read with its note: one that is gone, settled,
\* or whose note is on its way out makes the job a no-op.
Load(g) ==
  /\ ClaimJob(g)
  /\ StartRun(g, IF \/ RowGone(g) \/ Settled(g)
                    \/ g \notin Previews /\ (note.removed \/ note.status = "deleting")
                 THEN "return" ELSE "prepare")
  /\ UNCHANGED <<noteVars, gens, told, cutOff, requestVars, readerVars, budget>>

\* The handler returns, or rethrows what it does not know.
Return(g) ==
  /\ run[g].pc = "return"
  /\ IF run[g].class = "other" THEN Fail(g) ELSE Complete(g)
  /\ EndRun(g)
  /\ UNCHANGED <<noteVars, gens, told, cutOff, requestVars, readerVars, budget>>

\* The model, the template, the source, the prompt and its budget are settled, and the
\* context the provider will be sent is recorded.
Prepare(g) ==
  /\ run[g].pc = "prepare" /\ ~RowGone(g)
  /\ Goto(g, "mark")
  /\ UNCHANGED <<noteVars, gens, told, cutOff, requestVars, readerVars, budget, job>>

\* No key, no template, no source, too large; or the provider declines, before or
\* after its first chunk.
Refuse(g) ==
  /\ run[g].pc \in {"prepare", "stream"}
  /\ Escape(g, "refusal")
  /\ UNCHANGED <<noteVars, gens, told, cutOff, requestVars, readerVars, budget, job>>

\* pending -> streaming, the first of markStreaming's two writes.
MarkStreaming(g) ==
  /\ run[g].pc = "mark" /\ ~RowGone(g)
  /\ gens' = [gens EXCEPT ![g].status = "streaming", ![g].attempt = @ + 1]
  /\ Goto(g, IF g \in Previews THEN "stream" ELSE "markNote")
  /\ UNCHANGED <<noteVars, told, cutOff, requestVars, readerVars, budget, job>>

\* Mutant of MarkGenerating: the status markStreaming has just given the generation.
MarkNoteStreaming(g) ==
  /\ run[g].pc = "markNote"
  /\ note' = IF Visible /\ note.status # "deleting" THEN [note EXCEPT !.status = "streaming"]
             ELSE note
  /\ Goto(g, "stream")
  /\ UNCHANGED <<versions, gens, told, cutOff, requestVars, readerVars, budget, job>>

\* The note -> generating, unless it is on its way out.
MarkGenerating(g) ==
  /\ run[g].pc = "markNote"
  /\ note' = IF Visible /\ note.status # "deleting" THEN [note EXCEPT !.status = "generating"]
             ELSE note
  /\ Goto(g, "stream")
  /\ UNCHANGED <<versions, gens, told, cutOff, requestVars, readerVars, budget, job>>

\* A chunk arrives; whether it is time to write the buffer down is the clock's choice.
Chunk(g) ==
  /\ run[g].pc = "stream" /\ Len(run[g].buffer) < MaxChunks
  /\ \E due \in BOOLEAN :
       run' = [run EXCEPT ![g].buffer = Append(@, gens[g].attempt),
                          ![g].pc = IF due THEN "flush" ELSE "stream"]
  /\ UNCHANGED <<noteVars, gens, told, cutOff, requestVars, readerVars, budget, job>>

\* The WHOLE text received by this run replaces the row's.
Flush(g) ==
  /\ run[g].pc = "flush" /\ ~RowGone(g)
  /\ gens' = [gens EXCEPT ![g].content = run[g].buffer]
  /\ Goto(g, "stream")
  /\ UNCHANGED <<noteVars, told, cutOff, requestVars, readerVars, budget, job>>

\* The provider says 429, before its first chunk or in the middle of its answer: the
\* job is deferred and nothing is recorded.  A job deferred too often is failed by the
\* queue, and nothing is recorded either.
RateLimit(g) ==
  /\ run[g].pc = "stream"
  /\ Defer(g)
  /\ EndRun(g)
  /\ cutOff' = IF job[g].hits >= MaxHits THEN cutOff \cup {g} ELSE cutOff
  /\ UNCHANGED <<noteVars, gens, told, requestVars, readerVars, budget>>

\* The provider's stream ends; an empty answer is a refusal.
StreamEnds(g) ==
  /\ run[g].pc = "stream"
  /\ IF run[g].buffer = <<>> THEN Escape(g, "refusal") ELSE Goto(g, "commit")
  /\ UNCHANGED <<noteVars, gens, told, cutOff, requestVars, readerVars, budget, job>>

Succeeded(g) == [gens EXCEPT ![g].status = "succeeded", ![g].content = run[g].buffer]

\* Mutant of CommitRead: the generation is settled before the transaction that writes the note.
CommitReadSettles(g) ==
  /\ run[g].pc = "commit" /\ ~RowGone(g)
  /\ gens' = Succeeded(g)
  /\ IF g \in Previews \/ ~Visible \/ note.status = "deleting"
     THEN Goto(g, IF g \in Previews THEN "return" ELSE "announce")
     ELSE run' = [run EXCEPT ![g].pc = "commitWrite", ![g].base = note.version]
  /\ UNCHANGED <<noteVars, told, cutOff, requestVars, readerVars, budget, job>>

\* The commit's transaction re-reads the note.  With no note, or with one on its way
\* out, only the generation is written and the transaction ends here.
CommitRead(g) ==
  /\ run[g].pc = "commit" /\ ~RowGone(g)
  /\ IF g \in Previews \/ ~Visible \/ note.status = "deleting"
     THEN gens' = Succeeded(g) /\ Goto(g, IF g \in Previews THEN "return" ELSE "announce")
     ELSE /\ run' = [run EXCEPT ![g].pc = "commitWrite", ![g].base = note.version]
          /\ UNCHANGED gens
  /\ UNCHANGED <<noteVars, told, cutOff, requestVars, readerVars, budget, job>>

\* Then it writes the version, the note and the generation, by id and together.  A
\* version number taken meanwhile, or a note deleted meanwhile, aborts all of it.
CommitWrite(g) ==
  /\ run[g].pc = "commitWrite"
  /\ LET v == run[g].base + 1 IN
       IF Gone \/ RowGone(g) \/ VersionTaken(v)
       THEN Escape(g, "other") /\ UNCHANGED <<noteVars, gens>>
       ELSE /\ versions' = Append(versions, [body |-> BodyOf(g, run[g].buffer), gen |-> g,
                                             batch |-> NoBatch, saw |-> run[g].base])
            /\ note' = [note EXCEPT !.status = "ready", !.version = v,
                                    !.body = BodyOf(g, run[g].buffer)]
            /\ gens' = Succeeded(g)
            /\ Goto(g, "announce")
  /\ UNCHANGED <<told, cutOff, requestVars, readerVars, budget, job>>

\* Mutant of Announce: what follows the transaction throws into the handler.
AnnounceThrows(g) ==
  /\ run[g].pc = "announce"
  /\ told' = [told EXCEPT ![g] = Append(@, "ready")]
  /\ Goto(g, "return") \/ Escape(g, "other")
  /\ UNCHANGED <<noteVars, gens, cutOff, requestVars, readerVars, budget, job>>

\* Titling, the index, the ready event and the notification come after the transaction,
\* and a failure of any of them is swallowed.
Announce(g) ==
  /\ run[g].pc = "announce"
  /\ told' = [told EXCEPT ![g] = Append(@, "ready")]
  /\ Goto(g, "return")
  /\ UNCHANGED <<noteVars, gens, cutOff, requestVars, readerVars, budget, job>>

\* A step throws: a lost connection to the provider or to the database, or a row that
\* is not there any more.
Throw(g) ==
  /\ run[g].pc \in {"prepare", "mark", "markNote", "stream", "flush", "commit", "commitWrite"}
  /\ \/ RowGone(g) /\ run[g].pc \in {"prepare", "mark", "flush", "commit"} /\ UNCHANGED budget
     \/ budget > 0 /\ budget' = budget - 1
  /\ Escape(g, "other")
  /\ UNCHANGED <<noteVars, gens, told, cutOff, requestVars, readerVars, job>>

\* Mutant of FailGeneration: the note is left out.
FailGenerationAlone(g) ==
  /\ run[g].pc = "failGen" /\ ~RowGone(g)
  /\ gens' = [gens EXCEPT ![g].status = "failed"]
  /\ Goto(g, "return")
  /\ UNCHANGED <<noteVars, told, cutOff, requestVars, readerVars, budget, job>>

\* markFailed: first the generation, whatever it was.
FailGeneration(g) ==
  /\ run[g].pc = "failGen" /\ ~RowGone(g)
  /\ gens' = [gens EXCEPT ![g].status = "failed"]
  /\ Goto(g, IF g \in Previews THEN "return" ELSE "failNote")
  /\ UNCHANGED <<noteVars, told, cutOff, requestVars, readerVars, budget, job>>

\* Mutant of FailNote: only a note that has never been generated.
FailNoteDraft(g) ==
  /\ run[g].pc = "failNote"
  /\ IF Visible /\ note.status = "draft"
     THEN /\ note' = [note EXCEPT !.status = "failed"]
          /\ told' = [told EXCEPT ![g] = Append(@, "failed")]
     ELSE UNCHANGED <<note, told>>
  /\ Goto(g, "return")
  /\ UNCHANGED <<versions, gens, cutOff, requestVars, readerVars, budget, job>>

\* Then the note, unless it is failed already or on its way out; the owner is told of
\* a failure only if the note changed.
FailNote(g) ==
  /\ run[g].pc = "failNote"
  /\ IF Visible /\ note.status \notin {"failed", "deleting"}
     THEN /\ note' = [note EXCEPT !.status = "failed"]
          /\ told' = [told EXCEPT ![g] = Append(@, "failed")]
     ELSE UNCHANGED <<note, told>>
  /\ Goto(g, "return")
  /\ UNCHANGED <<versions, gens, cutOff, requestVars, readerVars, budget, job>>

\* markFailed itself throws: the job fails and nobody records why.
FailureUnrecorded(g) ==
  /\ run[g].pc \in {"failGen", "failNote"}
  /\ \/ RowGone(g) /\ run[g].pc = "failGen" /\ UNCHANGED budget
     \/ budget > 0 /\ budget' = budget - 1
  /\ Fail(g)
  /\ EndRun(g)
  /\ cutOff' = cutOff \cup {g}
  /\ UNCHANGED <<noteVars, gens, told, requestVars, readerVars>>

\* The lease of a dead process expires: the one attempt is spent.
Reap(g) ==
  /\ job[g].state = "abandoned"
  /\ Fail(g)
  /\ UNCHANGED <<noteVars, handlerVars, requestVars, readerVars, budget>>

-------------------------------------------------------------------------------
(* The owner's saves and restores, with the same save sent again.          *)

SaveBody(b) == <<b, <<>>>>
Answered(req, answer) == [NoSave EXCEPT !.pc = "answered", !.answer = answer,
                                        !.batch = req.batch, !.base = req.base]
Reply(s, answer) == save' = [save EXCEPT ![s] = Answered(@, answer)]
Known(b) == \E i \in 1..Len(versions) : versions[i].batch = b

\* The save as it was first sent, or as its author has the note now: any version they may
\* still have in front of them.
Drafts ==
  {[batch |-> save[s].batch, base |-> save[s].base] : s \in {t \in Saves : save[t].batch \in Batches}}
    \cup {[batch |-> b, base |-> v] :
          b \in {c \in Batches : \A s \in Saves : save[s].batch # c}, v \in 0..note.version}

\* PATCH /notes/:id reads the note: one being generated takes no save, and only then is
\* the batch looked for.
SaveRead(s) ==
  /\ save[s].pc = "new"
  /\ \E d \in Drafts :
       save' = [save EXCEPT ![s] =
         IF ~Visible \/ note.status = "deleting" THEN Answered(d, "gone")
         ELSE IF note.status = "generating" THEN Answered(d, "generating")
         ELSE [pc |-> "lookup", batch |-> d.batch, base |-> d.base, body |-> SaveBody(d.batch),
               saw |-> note.version, status |-> note.status, answer |-> "none"]]
  /\ UNCHANGED <<noteVars, handlerVars, removal, readerVars, budget, job>>

\* A version the batch has written is the answer to it; a save of an older text than the
\* one read is refused.
SaveLookup(s) ==
  /\ save[s].pc = "lookup"
  /\ IF Known(save[s].batch) THEN Reply(s, "replayed")
     ELSE IF save[s].base # save[s].saw THEN Reply(s, "stale")
     ELSE save' = [save EXCEPT ![s].pc = "write"]
  /\ UNCHANGED <<noteVars, handlerVars, removal, readerVars, budget, job>>

\* POST versions/:v/restore, of an older version and from the current one.
RestoreRead(s) ==
  /\ save[s].pc = "new"
  /\ Visible /\ note.status \notin {"deleting", "generating"}
  /\ \E v \in 1..(Len(versions) - 1) :
       save' = [save EXCEPT ![s] = [NoSave EXCEPT !.pc = "write", !.body = versions[v].body,
                                    !.base = note.version, !.saw = note.version,
                                    !.status = note.status]]
  /\ UNCHANGED <<noteVars, handlerVars, removal, readerVars, budget, job>>

\* The version writer's transaction: the note is claimed at the version the request has
\* read, whatever its status has become; a failed one is ready again.
SaveWrite(s) ==
  /\ save[s].pc = "write"
  /\ IF Visible /\ note.version = save[s].saw
     THEN /\ note' = [note EXCEPT !.version = @ + 1, !.body = save[s].body,
                                  !.status = IF save[s].status = "failed" THEN "ready" ELSE @]
          /\ versions' = Append(versions, [body |-> save[s].body, gen |-> NoGen,
                                           batch |-> save[s].batch, saw |-> save[s].saw])
          /\ Reply(s, "saved")
     ELSE Reply(s, "stale") /\ UNCHANGED noteVars
  /\ UNCHANGED <<handlerVars, removal, readerVars, budget, job>>

-------------------------------------------------------------------------------
(* The removal, its purge job and the sweep.                               *)

\* DELETE /notes/:id reads the note: one being generated is not removed.
RemoveAsk ==
  /\ removal = "none" /\ Visible /\ note.status \notin {"deleting", "generating"}
  /\ removal' = "asked"
  /\ UNCHANGED <<noteVars, handlerVars, save, readerVars, budget, job>>

\* The soft delete is by id: nothing asks again whether a generation has begun.
RemoveMark ==
  /\ removal = "asked"
  /\ IF Gone THEN removal' = "none" /\ UNCHANGED note
     ELSE /\ note' = [note EXCEPT !.status = "deleting", !.removed = TRUE]
          /\ removal' = "marked"
  /\ UNCHANGED <<versions, handlerVars, save, readerVars, budget, job>>

RemoveEnqueue ==
  /\ removal = "marked"
  /\ EnqueueOnce(Purge)
  /\ removal' = "none"
  /\ UNCHANGED <<noteVars, handlerVars, save, readerVars, budget>>

PurgeClaim ==
  /\ ClaimJob(Purge)
  /\ UNCHANGED <<noteVars, handlerVars, requestVars, readerVars, budget>>

\* note.purge deletes the row, and the cascade its versions and its generations; a note
\* that is gone makes it a no-op.
PurgeNote ==
  /\ Complete(Purge)
  /\ note' = [note EXCEPT !.status = "gone", !.body = <<>>, !.version = 0]
  /\ versions' = <<>>
  /\ gens' = [g \in Gens |-> IF g \in Previews \/ RowGone(g) THEN gens[g]
                             ELSE [gens[g] EXCEPT !.status = "gone"]]
  /\ UNCHANGED <<run, told, cutOff, requestVars, readerVars, budget>>

PurgeThrows ==
  /\ Running(Purge) /\ budget > 0
  /\ budget' = budget - 1
  /\ Fail(Purge)
  /\ UNCHANGED <<noteVars, handlerVars, requestVars, readerVars>>

\* Mutant of RequeueStalledPurges: only while the removal is still on its way.
RequeueWhileAsked ==
  /\ note.status = "deleting" /\ ~Active(Purge) /\ removal = "marked"
  /\ Enqueue(Purge)
  /\ UNCHANGED <<noteVars, handlerVars, requestVars, readerVars, budget>>

\* notes.housekeeping, step 3: a deleting note with no purge job, after a grace window.
RequeueStalledPurges ==
  /\ note.status = "deleting" /\ ~Active(Purge) /\ removal = "none"
  /\ Enqueue(Purge)
  /\ UNCHANGED <<noteVars, handlerVars, requestVars, readerVars, budget>>

\* The process dies, and with it every handler, request and connection.
Crash ==
  /\ budget > 0
  /\ budget' = budget - 1
  /\ AbandonAll
  /\ cutOff' = cutOff \cup {g \in Gens : run[g].pc \notin {"idle", "asked", "announce", "return"}}
  /\ run' = [g \in Gens |-> NoRun]
  /\ save' = [s \in Saves |-> IF save[s].pc \in {"new", "answered"} THEN save[s]
                              ELSE Answered(save[s], "lost")]
  /\ removal' = "none"
  /\ conn' = [r \in Readers |-> NoConn]
  /\ wire' = [r \in Readers |-> <<>>]
  /\ UNCHANGED <<noteVars, gens, told, route, watching, page, faults>>

-------------------------------------------------------------------------------
(* The pages.                                                              *)

Target(r) == IF route[r] = NoGen THEN note.gen ELSE route[r]
Latest(r) == watching[r][Len(watching[r])]

RowOf(g) == IF RowGone(g) THEN NoRow
            ELSE [status |-> gens[g].status, content |-> gens[g].content]

\* GET /notes/:id/stream and GET /note-generations/:id/stream: whoever may not see the row
\* any more gets a 404, and the page's loop tries again.
ReaderConnects(r) ==
  /\ ~RowGone(Target(r)) /\ (Target(r) \notin Previews => Visible)
  /\ Connect(r)
  /\ watching' = [watching EXCEPT ![r] = IF @ # <<>> /\ Latest(r) = Target(r) THEN @
                                         ELSE Append(@, Target(r))]
  /\ UNCHANGED <<noteVars, handlerVars, requestVars, route, budget, job>>

ReaderPolls(r) ==
  /\ watching[r] # <<>> /\ Poll(r, RowOf(Latest(r)))
  /\ UNCHANGED <<noteVars, handlerVars, requestVars, route, watching, budget, job>>

ReaderReceives(r) ==
  /\ Deliver(r)
  /\ UNCHANGED <<noteVars, handlerVars, requestVars, route, watching, budget, job>>

ReaderSuffers(r) ==
  /\ PollFails(r) \/ Drop(r)
  /\ UNCHANGED <<noteVars, handlerVars, requestVars, route, watching, budget, job>>

-------------------------------------------------------------------------------

Handler(g) ==
  \/ Load(g) \/ Return(g) \/ Prepare(g) \/ Refuse(g) \/ MarkStreaming(g) \/ MarkGenerating(g)
  \/ Chunk(g) \/ Flush(g) \/ RateLimit(g) \/ StreamEnds(g) \/ CommitRead(g) \/ CommitWrite(g)
  \/ Announce(g) \/ Throw(g) \/ FailGeneration(g) \/ FailNote(g) \/ FailureUnrecorded(g)
  \/ Reap(g)

SaveStep(s) == SaveRead(s) \/ SaveLookup(s) \/ RestoreRead(s) \/ SaveWrite(s)

ReapPurge ==
  /\ job[Purge].state = "abandoned"
  /\ Fail(Purge)
  /\ UNCHANGED <<noteVars, handlerVars, requestVars, readerVars, budget>>

PurgeJob == PurgeClaim \/ PurgeNote \/ PurgeThrows \/ ReapPurge

Reader(r) == ReaderConnects(r) \/ ReaderPolls(r) \/ ReaderReceives(r)

Next ==
  \/ \E g \in Gens : \/ RegenerateAsk(g) \/ RegenerateQueue(g)
                     \/ PreviewQueue(g) \/ PreviewExpire(g) \/ Handler(g)
  \/ \E s \in Saves : SaveStep(s)
  \/ RemoveAsk \/ RemoveMark \/ RemoveEnqueue \/ PurgeJob \/ RequeueStalledPurges
  \/ \E r \in Readers : Reader(r) \/ ReaderSuffers(r)
  \/ Crash

Spec == Init /\ [][Next]_vars

\* The worker runs what it claims and the reaper what it finds, the sweep is a cron, a
\* request that is being served goes on, and a page polls and tries again.  Nobody has to
\* ask for anything.
Fairness ==
  /\ \A g \in Gens : WF_vars(Handler(g)) /\ WF_vars(RegenerateQueue(g))
  /\ WF_vars(RemoveMark) /\ WF_vars(RemoveEnqueue)
  /\ WF_vars(PurgeJob) /\ WF_vars(RequeueStalledPurges)
  /\ \A r \in Readers : WF_vars(ReaderConnects(r)) /\ WF_vars(ReaderPolls(r))
                        /\ WF_vars(ReaderReceives(r))

FairSpec == Spec /\ Fairness

-------------------------------------------------------------------------------
(* Properties                                                              *)

Texts  == UNION {[1..n -> 1..(MaxHits + 1)] : n \in 0..MaxChunks}
Bodies == {<<w, t>> : w \in Gens \cup Batches, t \in Texts}

\* Types.
NotesTypeOK ==
  /\ note.status \in {"draft", "generating", "ready", "failed", "deleting", "gone"}
  /\ note.removed \in BOOLEAN /\ note.version \in Nat /\ note.gen \in Gens
  /\ note.body \in Bodies \cup {<<>>}
  /\ \A i \in 1..Len(versions) : versions[i].body \in Bodies
  /\ \A g \in Gens :
       /\ gens[g].status \in {"none", "pending", "streaming", "succeeded", "failed", "gone"}
       /\ gens[g].content \in Texts /\ gens[g].attempt \in Nat
       /\ run[g].pc \in {"idle", "asked", "prepare", "mark", "markNote", "stream", "flush",
                         "commit", "commitWrite", "announce", "failGen", "failNote", "return"}
       /\ run[g].buffer \in Texts
  /\ \A s \in Saves : save[s].pc \in {"new", "lookup", "write", "answered"}
  /\ removal \in {"none", "asked", "marked"} /\ cutOff \subseteq Gens
  /\ job \in [Slots -> JobRow]
  /\ StreamTypeOK(Texts)

\* Whoever writes the note, an edit, a restore or a generation that was read in two parts,
\* its history is the version log's: it only grows, each version was written by someone who
\* knew the one before, and the note shows the last
\* (note-generation.service.ts: "`notes.body` must equal the `note_versions` row named by
\* `notes.current_version`").
Log == INSTANCE VersionLog WITH
  Empty   <- <<>>,
  history <- [i \in 1..Len(versions) |-> [body |-> versions[i].body, saw |-> versions[i].saw]],
  shown   <- note.body,
  alive   <- ~Gone

HistoryIsALog == Log!Spec

\* A generation is committed whole: it has succeeded if and only if one version of the note
\* is its text, and then only one, unless the note was removed before it could be written.
CommitIsWhole ==
  \A g \in Gens \ Previews :
    LET written == {i \in 1..Len(versions) : versions[i].gen = g} IN
    /\ \A i \in written : gens[g].status = "succeeded" /\ versions[i].body = BodyOf(g, gens[g].content)
    /\ Cardinality(written) <= 1
    /\ gens[g].status = "succeeded" => written # {} \/ note.removed

\* The owner hears of one outcome of a generation, once, and it is the one the row records
\* (a generation "already `ready`" is not to be failed by what comes after its commit).
ToldOnce ==
  \A g \in Gens :
    /\ Len(told[g]) <= 1
    /\ told[g] = <<"ready">> => gens[g].status \in {"succeeded", "gone"}
    /\ told[g] = <<"failed">> => gens[g].status \in {"failed", "gone"}

\* A note says it is being generated only while some generation of it has a job, unless a
\* handler was cut off before it could say how it ended.
GeneratingHasWriter ==
  note.status = "generating" => cutOff # {} \/ \E g \in Gens \ Previews : Active(g)

\* What a page shows of the one generation it watches, if that ran once, is a prefix of its
\* row's text, and all of it when the page is told that it is done: whatever was dropped and
\* whenever the page came back (sse-stream.ts: a late joiner and an early one "converge on
\* byte-identical text").
ShownIsWritten ==
  \A r \in Readers : \A g \in Gens :
    watching[r] = <<g>> /\ gens[g].attempt <= 1 =>
      /\ Len(page[r].buffer) <= Len(gens[g].content)
      /\ page[r].buffer = SubSeq(gens[g].content, 1, Len(page[r].buffer))
      /\ page[r].state = "done" => page[r].buffer = gens[g].content

\* A note that is being generated does not stay so, unless a handler was cut off.
NoteSettles == note.status = "generating" ~> (note.status # "generating" \/ cutOff # {})

\* A removed note is deleted in the end, through crashes and failed purges, unless a
\* generation has made it ready again behind the removal's back.
RemovalCompletes == note.removed ~> (Gone \/ note.status \notin {"deleting", "gone"})

\* A page that watches comes to an end, even if the generation never does, unless the
\* stream it asks for is not there any more.
PageSettles ==
  \A r \in Readers :
    page[r].state = "watching" ~>
      (\/ page[r].state # "watching" \/ RowGone(Target(r))
       \/ Target(r) \notin Previews /\ ~Visible)
===============================================================================
