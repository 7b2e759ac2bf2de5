# KVox: models, checks and proofs

KVox turns an uploaded recording into a versioned transcript, and transcripts into notes, a
search index and a knowledge graph. Everything slow runs as jobs of a durable queue; everything
durable is a row of PostgreSQL that many writers update, most of them without holding it while
they wait for a provider. This directory models five parts of it: the pipeline every other part
starts from, the editing of what it produces, the notes written from that together with the pages
that watch them being written, the graph that is reviewed, changed and changed back, and the
semantic index of a document.

- [Inventory](#inventory): the system's components, their state, operations and hazards
- [Plan](#plan): the modules, in order
- How module and code correspond: [the pipeline](#the-model-of-the-transcription-pipeline), [the
  editing](#the-model-of-the-editing), [notes and streams](#the-model-of-the-notes-and-their-streams),
  [the graph](#the-model-of-the-graph), [the search index](#the-model-of-the-search-index)
- [Runs and bounds](#runs-and-bounds)
- [What the code does that its comments deny](#findings)
- [Proofs](#proofs)
- [What is not modelled](#what-is-not-modelled)

## Inventory

| Component | State | Operations | Interacts by | Hard behaviour | Correct when |
|---|---|---|---|---|---|
| Transcription pipeline (`kvox-api/src/transcripts`: `transcript-pipeline.service.ts`, `handlers/transcription-{submit,poll,ingest}`, `media-audio-transcode`) | the `transcripts` row: status, transcriptionStatus, playbackStatus, providerJobId, submittedAt, currentVersion | one job type each | rows, enqueues, provider calls | every await is a point where another writer moves the row; jobs are re-delivered | one recording is one provider job; one notice of success, one of failure; nothing says it is working when nothing works on it |
| Job queue (platform package behind `ports/jobs.port.ts`) | job rows: status, attempts, rate-limit hits, lease, dedup key | enqueue, claim, complete, fail, defer, reap | `onSettled` events | re-delivery, leases, budgets, dedup against oneself | (assumed; modelled as the slices see it) |
| Failure listener (`listeners/transcript-job-failure.listener.ts`) | none | reconcile of an exhausted job | `onSettled`, `findActive`, rows | detached, races retries | a job that gave up fails its transcript, and no live pipeline |
| Upload hook (`transcript-upload.hook.ts`) | none | completed, aborted | object store events | duplicated events, a transcode faster than the hook | each upload starts the pipeline once, or fails |
| Owner requests (`transcripts.service.ts`) | none | create, retry, cancel, remove, edits of metadata | HTTP | several awaits, several tabs | a refused request changes nothing; what was removed goes |
| Purge (`handlers/transcript-purge.handler.ts`) | none | purge one, purge an owner's | rows, objects, provider | re-delivery between object deletions | nothing of a removed transcript stays |
| Housekeeping (`handlers/transcripts-housekeeping.handler.ts`) | none | lost chains, abandoned uploads, aborted uploads, exports | rows, `findActive`, object store | check-then-act against everything above | repairs only what is broken |
| Transcript editing (`transcript-editing.service.ts`, `transcript-materialize.service.ts`) | segments, speakers, versions, snapshots, identities | apply a batch, restore, identify a speaker, materialize | conditional bump of currentVersion | repeated batches, races for a version, unversioned identifications | live = materialize(current); a batch takes effect once |
| Note generation (`notes/generation`, `notes/handlers/note-generate.handler.ts`) | note_generations, the note's status, version and body | regenerate, preview, generate, flush, commit, fail | jobs, row stream, events | one billed attempt, several generations of one note at once, a commit that reads without a lock, removal while streaming | body = the current version; a success is written once and told once; a generating note has a writer |
| Notes (`notes.service.ts`, `note-version-writer.ts`) | note, note_versions | edit, restore, remove, import, export | HTTP, sync of the library | a save sent twice, saves racing commits | the history is a log nobody overwrites |
| Notes housekeeping and purge (`notes-housekeeping`, `note-purge` handlers) | none | expired previews, stalled purges, purge | rows, jobs | a removal cut off half way | what was removed goes |
| Row streams (`core/stream`, and `kvox-web/src/core/headless/sse.ts`) | one connection, its cursor; the page's buffer | connect, poll, cap, close; resume | timers, rows, frames | failing reads, lost frames, resuming | the page shows the row's text; the stream ends |
| Search index (`search/`) | search_chunks, search_embeddings, search_index_state | index, queue, request, forget, query | jobs that dedup, billed embeddings, rows without foreign keys | edits and a removal while indexing, two runs at once, a job of many statements and no transaction | vectors describe their chunks; what changed is indexed, or offered to the owner; nothing outlives the document |
| Ask (`ask/`) | conversations, messages | respond, stream, cancel | jobs, tools, row stream | one billed attempt, history | one answer per message |
| Knowledge graph (`graph/`) | entities, relations, items, citations, kg_merges | edit, retract, merge, reverse, forget a person, migrate | transactions, one job, foreign keys, a deferred trigger | undoing in another order than doing; a job in several transactions beside other writers | no live row without a citation, no citation without its row; what is forgotten is gone |
| Proposals (`graph-extraction/proposals`, `graph-extraction/resolution`) | kg_proposals with their commit log | commit, revert in whole or in part | transactions over the graph | others edit, cite, merge, name what a commit made | a revert leaves no trace of its own and spares what others did |
| Extraction and review (the rest of `graph-extraction/`) | drafts of proposals | propose, decide a row | jobs, model calls | edits between review and commit | a draft that is not valid is not committed |
| Browser upload engine (`kvox-web/src/core/headless/upload`) | parts, URLs, attempts | start, pause, resume, complete | presigned PUTs, HTTP | expired URLs, lost answers | every byte once, then complete |
| Library sync, editors (`kvox-web/src/notes`, `transcripts`) | queues of local changes | sync, apply, replay | HTTP | offline, conflicts | no local change lost |
| The rest (webhooks, RDF, AI providers, CLI, schema, evaluation) | | | | | pure I/O, formats, tooling |

The hazards of this code, each at its line and with the property that covers it, are listed
under `hazards` in `PROJECT.json`.

## Plan

In order, the most important behaviour first. Done:

1. **`JobQueue`**, **`TranscriptionInput`**, **`TranscriptPipeline`**: the queue as the handlers see
   it, the choice of the file, and one transcript from its upload to the end.
   **`TranscriptPipelineProofs`**: types, the notices, one provider job, one chain of polls, and that
   ready is final.
2. **`TranscriptOps`**, **`TranscriptEditing`**: the corrections of a transcript, its version log,
   its names and its snapshots. **`TranscriptOpsProofs`**, **`TranscriptEditingProofs`**: that every
   version replays to what it said, and what else holds of the history. **`SetInduction`**: induction
   over numbers and the existence of iterations, for proofs about recursive functions.
3. **`RowStream`**, **`NoteGeneration`**: generations, edits, removal and sweep of one note, and the
   pages tailing the rows it writes. **`VersionLog`**: what any versioned document promises, which
   `NoteGeneration` implements. **`NoteGenerationProofs`**: that it does, and what else holds of
   a generation's outcome and of what the pages show.
4. **`GraphProposals`**, **`GraphForget`**: the reviewed graph and the ways it is changed and changed
   back, and the job that forgets a person beside them. **`GraphOpsProofs`**, **`GraphForgetProofs`**:
   types, that what is live names what is live and keeps a citation, that tombstones can be reversed, that
   who is forgotten is gone.

5. **`SearchIndex`**: the index of one document against edits, faults, changes of the model and the
   removal. **`SearchIndexProofs`**: types, that vectors fit their chunks, that nothing outlives the
   document, and what is true of the index when nothing is under way.

Not done, in the order they would be worth it. Proofs: `RevertSparesOthers` of the graph. Models: **`TranscriptUploads`** (the object store's rows,
completed and aborted events, housekeeping steps 2 and 3, against the purge that deletes the
source), **`UploadEngine`** (the browser's parts, expired URLs, pause and resume),
**`LibrarySync`**, **`AskRespond`**.

Composition: `TranscriptPipeline` extends `JobQueue`; `TranscriptEditing` extends `TranscriptOps` and
`JobQueue`;
`NoteGeneration` extends `JobQueue` and `RowStream`, and instantiates `VersionLog`; `GraphForget`
extends `GraphProposals`; `SearchIndex` extends `JobQueue`.

## The model of the transcription pipeline

`TranscriptPipeline` is one transcript, its jobs, its owner, the provider and the clock.

**State.** `row` is the `transcripts` row, cut to what the pipeline branches on: `status`,
`transcriptionStatus` (`ts`), `playbackStatus`, `providerJobId` (`handle`, an index of `remote`,
0 for null), whether version 1 exists, `deletedAt`, and whether the poll deadline computed from
`submittedAt` has passed (`overdue`). `job[s]` is the active queue row in slot `s`: one slot for
each type whose enqueues carry a dedup key, `PollSlots` for `transcription.poll`, which opts out
of dedup. `pc[s]` and `seen[s]` are where a running handler is and what it has read; `hook[u]`,
`call[c]`, `listener[s]` and `sweep` are the same for the upload hook, the owner's tabs, the
detached reconciles and the sweep. `tally` and `used` are history: notices sent, answers lost,
handles given up, and how much of each bound is spent.

**Steps.** An action is what happens between two awaits: a read and the tests on it up to the
next write, a write, an enqueue, a provider call. A handler's first action claims the row and
loads the transcript. Guards are the code's conditions; `update` by id writes whatever the row has
become and throws once the purge has deleted it (`UpdateRefused`), `updateMany` tests its `where`
in the same step. Any await may throw (`Throw`, `HookThrows`, `CallThrows`, `ListenerThrows`,
`SweepThrows`); what a handler can classify ends it normally (`Refuse`); a throw puts the job
back or exhausts it, and an exhausted pipeline job wakes the listener. A 429 defers the job.
The process may die (`Crash`): every handler, request, hook, reconcile and sweep stops where it
is, its jobs stay active until the reaper finds their leases expired. The object store delivers
the completion of one upload once per member of `Uploads`, so a duplicate is an interleaving.
A transcode may be run by a worker node, whose failures never reach `onTranscodeError`.

| Part of the module | Code |
|---|---|
| MarkFailed, MarkQueued, EnqueuePoll | `transcript-pipeline.service.ts` |
| SubmitLoad .. SubmitFirstPoll | `handlers/transcription-submit.handler.ts`, `process` |
| PollLoad .. PollNext | `handlers/transcription-poll.handler.ts`, `process` |
| IngestLoad .. IngestNotify | `handlers/transcription-ingest.handler.ts`, `process` |
| TranscodeLoad .. TranscodeRethrow | `handlers/media-audio-transcode.handler.ts` |
| PurgeLoad .. PurgeDelete | `handlers/transcript-purge.handler.ts`, `process` |
| HookPromote .. HookAbort | `transcript-upload.hook.ts` |
| Retry*, Cancel*, Remove* | `transcripts.service.ts` |
| ListenerCheck .. ListenerBlame | `listeners/transcript-job-failure.listener.ts` |
| SweepFinds .. SweepRestarts | `handlers/transcripts-housekeeping.handler.ts`, step 1 |
| SelectTranscriptionInput | `transcription-input.ts` |
| JobQueue | `ports/jobs.port.ts`, the adapter in `apps/api`, and `docs/specs/job-queue.md` for the platform's queue, which is external |

The provider's two live states are one: `getStatus` may answer `queued` or `processing` of a
running job, and `PollAsk` takes either. The raw result stored before the commit, the snapshot
job and the search index do not touch the row and are left out; the enqueue of the snapshot can
throw, which is the throw at `release` or `notify`.

`MCTranscriptPipeline` gives the constants their values. A definition commented "Mutant of" is the
one that follows it with a plausible bug; no action uses it. Put in the place of the original it
makes the property it is meant for fail, which shows that the property can.

## The model of the editing

`TranscriptOps` is the text of a transcript and what a correction does to it: the reducers that
a save and a replay both run, and the rules that tell a first naming from a correction of a name.
`TranscriptEditing` is one transcript that has its version 1, the requests that correct it, and the
`transcript.snapshot` job.

**State.** `live` is the segment and speaker rows, a function from their ids, `Gone` where there
is none; `log` the rows of `transcript_versions`, so `current_version` is its length;
`identities` the names given beside it; `store` what lies in object storage under the key of each
version's snapshot; `job` the queue's rows of `transcript.snapshot`, of which its dedup key leaves one
active at a time, and `worker[w]` a run of the handler: the row it is an attempt of, the version and the
text it has read; `client[t]` a request in flight: where it is, its ops, the version it bumps from, a
restore's target. `sight`, the `said` of a log entry and `late` are history: the rows an author had seen,
the lines as their version left them, and the versions that were read by an attempt which outlived its time.
`menu` is what the editors of one behaviour do; it keeps the runs small and is chosen
at the start.

**Steps.** Every writer of `live` first takes the lock of the transcript's row, by the conditional
bump or by SELECT FOR UPDATE, so what a transaction does under it is one action (`SaveCommits`,
`Identify`, `RestoreCommits`), and what it read before the lock is another (`SaveReads`). Outside
the lock are the check for a batch that is already there (`Accept`, `SaveRetries`, `Conflicted`),
the choice of the path (`Route`), the reading of a restore's target and the enqueue of a snapshot
after the commit. `Raw` is the replay: from the nearest snapshot or later restore, the ops of
every version after it through the same reducers; a rev that does not fit is a corrupt history.
`EnqueueSnapshot` is merged into a row that is active. An attempt at a snapshot may throw, or die with its
process, and it may be given up for its time or for its lease (`SnapshotTimesOut`): its row is tried again, and the
work, which JavaScript cannot cancel (`docs/specs/job-queue.md` §6.5), goes on and settles no row.

| Part of the module | Code |
|---|---|
| ApplyOps, Takes, MergeSpeakers | `editing/reducers.ts` |
| ClassifyRename, IsIdentificationBatch, ApplyIdentities | `editing/speaker-identity.ts` |
| Accept .. AfterCommit, Restore* | `transcript-editing.service.ts` |
| Raw, Materialize | `transcript-materialize.service.ts` |
| Snapshot* | `handlers/transcript-snapshot.handler.ts` |
| EnqueueSnapshot | `transcript-pipeline.service.ts`, `enqueueSnapshot` |
| ShouldSnapshot | `editing/snapshot-policy.ts` |

Left out: times, words and ordinals, and with them split and join; `set_speaker` and the creation of
a speaker; find and replace (its ops are those of a batch once it is expanded); the depth limit of
chained restores; the answers' bodies. The bytes that may call for a snapshot are a free choice in
`AfterCommit`. A restore reads its target in one step, the code in several reads of rows that do
not change but for a snapshot's link and the names, which are put over it again.

## The model of the notes and their streams

`NoteGeneration` is one note, or a template preview that has none, with every generation of it, its
owner's saves, its removal and the sweep; `RowStream` is a live view of one row from the poll loop
to the reader's screen, and knows nothing of notes.

**State.** `note` is the `notes` row: status, `deletedAt`, current version, body, and
`currentGenerationId`; `versions` its `note_versions`; `gens[g]` a `note_generations` row with the
text flushed so far. `run[g]` is the handler of `g`'s job, or the request that queues it: where it is,
the text received, the version its commit has read. `save[s]` is a save or restore in flight,
`removal` the request that removes the note. `told` and `cutOff` are history: what the owner was
told of each generation, and the generations whose handler ended without recording an outcome.
`route` and `watching` say which generation a page asks for and which it has connected to; `conn`,
`wire`, `page` are the server's cursor, the frames in flight and the page's buffer. `budget` and
`faults` are the mishaps left.

The text of a generation is the sequence of the chunks its provider sent, each named by the run of
the job that received it, so that two runs never write the same text; an offset in the stream is a
number of chunks. A body is named by the generation or the batch that made it; in the code it is the text
alone, and the name is history, to tell the texts of two generations apart.

**Steps.** Each await is a step boundary and a transaction one step, but for the commit of a
generation: it reads the note without a lock (`CommitRead`), other transactions may commit, then
it writes (`CommitWrite`), and the unique key of a version is what stops it. A save is a read, the
lookup of its batch and the version writer's conditional transaction. Any await of a handler may
throw, the process may die at any step, the provider may decline or say 429 before or in the
middle of its answer. A connection may break with frames in flight, and a read of the row may fail.

| Part of the modules | Code |
|---|---|
| RegenerateAsk, RegenerateQueue | `notes.service.ts` |
| PreviewQueue, PreviewExpire | `note-template-preview.service.ts`, `handlers/notes-housekeeping.handler.ts` |
| Load .. Return, FailGeneration .. Reap | `handlers/note-generate.handler.ts`, `generation/note-generation.service.ts` |
| Save*, RestoreRead | `notes.service.ts`, `note-version-writer.ts` |
| Remove*, Purge*, RequeueStalledPurges | `notes.service.ts`, `handlers/note-purge.handler.ts`, `handlers/notes-housekeeping.handler.ts` |
| Poll, PollFails, Advance, Ending | `core/stream/row-stream-poller.ts`, `sse-stream.ts`, `generation/note-generation-stream.service.ts` |
| Chunk | `core/stream/stream-flusher.ts` |
| Connect, Deliver, ApplyDelta | `kvox-web`: `core/headless/sse.ts`, `notes/headless/clients/noteGenerationStream.ts` |
| ReaderConnects | `access/note-generation-access.service.ts`, behind the stream routes of notes and generations |

`VersionLog` is what a versioned document promises, whoever writes it: a history that only grows, one
version at a time; a version's writer knew how many there were; what is shown is what was written
last; and it goes all at once. `HistoryIsALog` states that `NoteGeneration` implements it, with
`history` the versions, `shown` the note's body and `alive` that the row is there. It rules out a lost
update, a version without its body and a body without its version in one formula.

Left out: titles, templates, prompts and token budgets, the model's choice, heartbeats and
backoff, exports, libraries and their sync, source documents.

## The model of the graph

`GraphProposals` is the reviewed graph of one owner and everything that changes it back and forth;
`GraphForget` adds the job that forgets a person, whose steps are transactions of their own.

**State.** `graph` holds the rows: entities (live, or a tombstone merged into another), relations with
their validity, successor and props, items with their status and successor, `cite`, which says what each
citation is about, and `learned`, the aliases, mentions and distinct pairs. `proposal[p]` is a
proposal's status and its commit log; `merges` the `kg_merges` rows; `plan[p]` the accepted rows
of `p`, in the order of the commit. A row that a commit creates has the name of the proposal row it
comes from, and every proposal row carries one citation. `clock` counts transactions, for `created_at` and
`updated_at`. `last` is history: the last transaction, and the graph before it. `forgetting` is the
job; `begun` and `forgotten` are whom it set out to forget and has forgotten.

**Steps.** Commit, revert, merge, reversal and each hand edit is one transaction and one action, with
every row it touches. The deferred trigger refuses a transaction that leaves a live row without a
citation, so a graph with such a row is where a behaviour ends. Deleting a row deletes what names it by foreign
key, or clears the name, as the schema says. The job collects the person and every tombstone
below them, then drains items, relations, merge and draft rows, and the entities; it may fail between
any two (`maxAttempts` 1: it is not repeated).

| Part of the modules | Code |
|---|---|
| Commit* | `graph-extraction/proposals/proposal-commit.service.ts` |
| Revert, KeptRows, *Back, Restored | `graph-extraction/proposals/proposal-revert.service.ts` |
| Merge, MergeIn, Fold, Reverse, Unfold | `graph-extraction/resolution/merge.service.ts`, `merge-fold.ts` |
| Writes, Uncited, WithoutRows | the evidence trigger's migration, the foreign keys of `kvox.graph.prisma` |
| EditEntity, RetractRelation, MarkDistinct | `graph/write/graph-write.service.ts`, `graph-extraction/resolution/distinct-pair.service.ts` |
| GraphForget | `graph/purge/kg-purge.service.ts`, `graph/handlers/kg-purge.handler.ts` |

Left out: what a merge does to mentions, aliases and distinct pairs (a lesson is opaque); the order in
which a merge folds relations is one order, the code's is that of random ids; the second by which
a revert lets `updated_at` differ from `created_at`; batch sizes, the exports and imports among the
job's steps; owner, counterparty and meeting of an item, and all dates.

## The model of the search index

`SearchIndex` is one document, its rows in the index, and the runs of `search.index` for it.

**State.** `doc` is what the index sees of a transcript or note: whether it is live, removed or
gone, its text in chunks, and `rev`, the token that the job compares (`current_version`, for a note
with the title). `setting` is the model that can be used for its owner now, or none. `chunk[o]` is
the row of `search_chunks` with ordinal `o`, its id, its text and its vectors; a text is a value, its
hash is the text, and a vector is the text it was computed from, which is how the model can say what a
vector describes. `state` is `search_index_state`; `current` is `indexed_at >= updated_at`. `run[j]` is a
run of the job in the slot `j` of the queue: where it is, the revision and the text it has read, the model it was
given, the rows it found, and what it is going to embed. One slot has the dedup key, the others hold
follow-ups, which carry none. `owed` counts commits whose enqueue is still to come; `purge` is the
step of the purge; `past` is history: two runs at once, a run cut short between two statements,
what the last stamp covered, and a run that was past its last look when the purge began.

**Steps.** No transaction spans two statements of the job, so every statement is a step: the owner, the gate, the
header and the segments of a transcript, the state row, and then, chunk by chunk, the reconciliation,
the vectors in batches, the vectors of other models, the settlement, the last look. A statement or a call
may fail anywhere; what the handler's `catch` sees is recorded in the state row, what it does not
see goes to the queue. The provider may say 429, refuse the key, or answer in another width. An update by id of a row that
is gone throws, an insert under a taken ordinal or of a vector without its chunk too. An edit
commits, then queues (and may fail to); a naming changes the text and no version.

| Part of the module | Code |
|---|---|
| Owner .. Confirm, Settle .. Follow | `search/indexing/search-index.handler.ts`, `process`, `loadDocument` |
| Existing .. Trim | `reconcileChunks` |
| Pending, Write, DeleteStale | `embedMissing`, `writeVectors`, `deleteStaleVectors` |
| Forget, ForgetState | `search/indexing/search-index.service.ts` |
| NeedsIndexing, Press | `search/indexing/search-index-status.service.ts` |
| Edit, Name, Queue | `transcript-editing.service.ts`, `transcript-pipeline.service.ts`, `notes.service.ts` |
| Purge* | `handlers/note-purge.handler.ts`, `handlers/transcript-purge.handler.ts` |

`VectorsFit` excepts runs that overlapped or were cut between the two statements of an edited chunk,
`CaughtUp` and `StaleIsOffered` the stamps that cover what was not read; each exception is there
because the property is false without it, and the findings say how.

Left out: how a text is cut into chunks, offsets, which documents the owner's request takes first and its cap, the
forgetting of all of an owner's documents, the queries.

## Runs and bounds

| Run | Asks | Bounds that matter |
|---|---|---|
| `faults` | original submitted directly, its event delivered twice, or under faults or a crash: types, one provider job, one notice; with no process dead, one chain, and finished stays finished | 2 completion events, no fault; or 2 faults, 2 deferrals of which one row takes one, 1 deadline; or 1 crash, 1 fault, sweeps; budget of 2 attempts |
| `rendition_faults` | rendition path, server or node, with a retry or a removal: failure notices accounted for | 1 fault, 1 request, budget of 1 attempt |
| `settles_rendition` | the rendition path ends, nothing is stranded on the way, the queue drains | FairSpec; 1 deferral, 1 deadline |
| `removal` | remove and cancel, of a file the provider takes and of one it does not: settles, goes | FairSpec; 2 completion events, 1 request, 1 deadline |
| `editing` | history against live tables, past versions, snapshots, conflicts, unseen overwrites | 1 line, 2 speakers, 1 name, 3 requests, 1 retry of a race, 2 snapshot workers, 3 attempts; 2 requests at once without a fault and 3 menus, or one at a time with 2 faults and 1 menu |
| `notes` | every writer of one note: the history is a log, commits are whole, outcomes told once, a generating note has a writer | 2 generations, 2 requests of 1 batch, 1 chunk, 1 throw or crash |
| `note_stream` | the page shows what is written; note, removal and page end | FairSpec; a note's generation or a preview, 1 page, 2 chunks, 1 glitch, 1 mishap, a cap of 1 poll |
| `graph` | citations, names, successions, exact undo, what a revert spares, who is forgotten | QuietSpec; 6 scenes, 2 proposals, 4 transactions, 1 forgetting |
| `search` | vectors against chunks, the index against the document, what is offered, what is left | 2 chunks of 2 texts, 2 models, batches of 1, 1 follow-up, budget of 2 attempts; 2 edits or namings, 2 faults, 1 change of model, 1 request, 1 removal, 3 of these in a behaviour |
| `finding_search_naming`, `finding_snapshot_lost`, `finding_graph_forget` | see [Findings](#findings) | the smallest instance that shows it |

The pipeline's largest has two million states, `editing` a little more than two, `notes` two, `graph`
three quarters of one, `search` one and a third.

*Attempts.* The code's budgets are 3 (submit, transcode) and 5 (poll, ingest). Two are enough to
have one retry of each job and one exhaustion; where exhaustion would hide the question the
configuration allows fewer faults than attempts. *Faults.* One throw at every await finds what a
half-done step leaves behind; the second finds what its repair leaves behind. *Poll slots.* Two:
one running link and its successor, or two chains. With both slots taken by two running links,
neither can enqueue its successor: a stop of the model, not of the code, reached only when two
chains exist. That is why no liveness is checked together with crashes or retries, which can
start a second chain. *Provider jobs.* `MaxRemote` is one more than the properties allow, so that
a violation has room.

`CHECK_DEADLOCK FALSE` everywhere: a transcript that is ready, failed or gone, a note nobody asks
anything of and a graph whose transactions are spent have nothing left to do.

`faults` puts three questions to one configuration: `MCFaultsOrCrash` allows the second completion event where
there is neither a fault nor a crash, or the faults without a crash, or a crash with one fault and the sweep, which passes over rows touched in the last 20
minutes and so finds something only after a crash. `OnePollChain` and `ReadyIsFinal` speak of behaviours without one.

*Editing.* Three requests are what the properties need to go wrong: a save, what makes it stale,
and what collides with both; a fourth finds the same conflicts again. Two in flight race each
other; a third only queues behind the same row lock. A version race is retried once instead of
five times, so that within three requests a save can also lose its last race. One line and two speakers: ops on different rows
do not see each other, and merging takes two. `Interval` is 2 instead of 50, so that a save without
a snapshot and one with both occur. What two requests at once do to each other does not depend on how often a
snapshot fails, and what two runs of a snapshot do to each other not on how close the requests are: the
constraint `MCTabsOrFaults` allows two tabs without a fault, or one with. The dedup key leaves one
row active, so a second run of the handler is there only beside one that has outlived its time. Two
faults are what it takes to give an attempt up and to lose its retry, or to throw after a commit.
`SnapshotsKept` speaks of versions no such late attempt had read: `finding_snapshot_lost`
is what becomes of the others. The menus do not put taking a name
back together with restoring: a snapshot in flight across both shows the name that was taken back
until the restored version has its own snapshot. `ConflictMeansUnsaved` and `NoBlindLines` say
what they except, and the findings why.

*Notes.* Two generations running at once are what can take one version number, and a save and its
twin what can write a batch twice; a restore needs two versions before it, which two commits, or a commit and a save, give. A chunk more adds nothing where nobody watches, so `notes` has one and `note_stream`
two, without which a frame with part of the text does not occur. The proofs below cover every other number.
One mishap is one half-done handler; a second meets a note that is already settled or stuck, which
`cutOff` excepts. The cap of a connection is one poll: what matters is that it can be reached before and
after every state of the row.

*Graph.* A scene is a small graph and two proposals chosen so that they meet: a second spelling of a
person and a proposal that cites it (`Spelling`), a newcomer whom another proposal names (`Newcomer`),
a chain of facts each closing the one before (`Succession`), a resolution against a proposal that
cites what it merges (`Resolution`), four entities whose merges meet in one relation
(`Square`), and two spellings that one proposal brings, with the same said of both (`Twins`). Four transactions are what it takes to commit both proposals, or merge twice, and undo both in
either order; a fifth would only repeat one of them. In the scenes a fact and what closes it are
about the same person, so forgetting takes both: where they name different people the older one stays
closed by nothing, as the code's foreign key leaves it (see the findings). `QuietSpec`
assumes that nobody else writes while the job runs: nothing in the code ensures it, and
`finding_graph_forget` is what happens without it. `ForgottenIsGone` says of tombstones only that
those are whole which no job has set out to delete: a job that has drained the rows and then fails leaves
a survivor that the revert of its proposal may delete, and the tombstone then points nowhere. `UndoIsExact` speaks of what is undone
straight away, by proposals whose rows change different things; `NoOrphans` excepts a relation or an item that
the reversal of a merge has given back. The findings say why both must.

*Search.* Two chunks are one that changes and one that comes or goes; two texts are the old one and the
new one. Batches of one put a step between the vectors of two chunks. `MCFewEvents` allows three
events beside the first run, where a removal, and two runs at once, are two each: an edit with two faults,
two edits and a change of model, an edit with a run beside another, a removal with a fault. The proof below covers
every other number for what is left of a removed document.

**Fairness.** Weak fairness of each handler with its worker, of each listener, hook, request in
progress, of the sweep, and of the passing of the deadline. The queue claims every due row and
runs it to its end or to its lease, a promise that was started is run by the event loop, time
passes. Of the notes: the handlers and the queueing of a generation that was asked for, the two steps
of a removal that was begun, the purge job, the sweep (a cron), and a page's connecting, polling and
receiving (its timers, and its loop that tries again for ever). Nothing is asked of the provider
of a transcript (a job may never finish), of the owner or of faults. That a generation's
call of the model comes to an end is the request timeout the AI port puts on every call
(`kvox-ai/src/port/create-kvox-ai.ts:80`). `NoteSettles` excepts a
handler that was cut off (see the findings); `RemovalCompletes` a commit that
made the note ready behind the removal's back; `PageSettles` a stream that answers 404, which the page
asks for again without end.

**History.** PaidOnce, FailureToldOnce and ToldReadyOnce compare counters kept in `tally`: a lost
answer and a handle given up by a retry (one that was there to give up) each excuse one provider
job; the reopening of a failed transcript, or an ingest that makes it ready, excuses one notice.
`told`, `cutOff`, `last`, `begun` and `forgotten` are read by no guard.

## Findings

Each is a run that TLC ends with a counterexample; `PROJECT.json` quotes the line it contradicts.

| Run | The code | Consequence |
|---|---|---|
| `finding_snapshot_lost` | a snapshot attempt that is given up for its time works on beside its retry, and the second of the two deletes the object the first one linked | the version, and those replayed from it, cannot be read |
| `finding_search_naming` | the last look of an index run compares versions, and the naming of a speaker is none | a naming that meets a run is not indexed, and the transcript is not offered for it |
| `finding_graph_forget` | the steps that forget a person keep nobody out between them | a citation, with the quote about the person, stays and is about nothing |

Seen while modelling, with no run of their own.

Transcription:

- `attachRendition` records the rendition before what can still throw (`media-audio-transcode.handler.ts:489`);
  the retried job finds its work done and returns (234), and the transcript that waits for the rendition is
  not woken;
- a running transcode counts as the job that owns the outcome of an exhausted submit
  (`transcript-job-failure.listener.ts:196`): processing for ever;
- cancel writes by id after its provider round trip (`transcripts.service.ts:911`), and fails a transcript
  that has become ready;
- the hook and the transcode's wake may each queue a submit where both see the other's work undone: two
  poll chains;
- a poll that throws between writing `completed` (`transcription-poll.handler.ts:221`) and
  queueing the ingest (231) ends the chain when it is retried, and the sweep does not select
  `completed`: processing for ever;
- a crash between the soft delete (`transcripts.service.ts:714`) and the purge's enqueue leaves a row
  nobody purges, and a second remove is answered 404;
- a reconcile that fails (`transcript-job-failure.listener.ts:153`) relies on housekeeping, whose
  sweep does not select a transcript that is queued or submitting;
- a retry of an unusable file in a build without a transcoder waits for ever:
  `transcription-submit.handler.ts:266` counts playback `pending` as an expected rendition;
- the ingest transaction (`transcription-ingest.handler.ts:280`) writes by id, so a transcript
  removed under it is `ready`, and announced, until its purge;
- a retry after the deadline keeps the old `submittedAt`, and its first poll fails it again
  without asking the provider (`transcription-poll.handler.ts:152`);
- `markFailed` excludes `failed` and `deleting` but not `ready`: a writer that is late enough (a second
  completion event that throws, say) fails a finished transcript, which is why FailureToldOnce allows for one notice more once
  there is a version.

Editing:

- a merge that takes its source's name takes the live one, its replay the placeholder
  (`editing/reducers.ts:576`): the history of the current version differs from the transcript;
- an op checks the rev of its row, and a restore sets revs back: a correction composed at rev 1,
  sent after another correction and the restore of version 1, is saved over a line its author
  has not seen; an identification leaves the rev alone, so a rename may do the same to a name.
  The header of `transcript-editing.service.ts` promises a 409 (22-24). `NoBlindLines` excepts both;
- a save that loses its last race is told 409 without the look for its batch that a retry and a
  conflict get (`transcript-editing.service.ts:314`, against 279-282 and 322-330): where the winner was its own twin it
  has been saved. TLC finds it in `editing` when `ConflictMeansUnsaved` does not except a request that has
  lost its last race; with the five retries of the code it takes five other saves first;
- the paths of identifications and of merges do not look for their batch before they refuse: the
  twin of a versioned rename that is routed once the rename has made it a no-op, and the twin of
  a merge, are told 409 and 400 for a save that took effect. `ConflictMeansUnsaved` speaks
  of 409s for corrections of lines and merges.

Notes and streams:

- only the handler of a generation records that it failed (`note-generate.handler.ts:219`), and it may die
  first, or fail to record it: the one attempt is spent, the generation stays streaming, and its note cannot
  be edited, regenerated or removed. `docs/specs/notes.md:228` promises `failed`;
- two regenerations: `currentGenerationId` may name another generation than the one whose text the
  note shows (`notes.service.ts:1151-1155`), and the failure of the older one, recorded late, turns a
  note that is ready into a failed one (`markFailed` tests neither);
- a commit writes the note by id, so it can set `ready` on a note removed between its read and its
  write (`notes.service.ts:863-864`: "There is no path back"); if the purge's enqueue was lost
  the sweep, which looks for `deleting`, never repeats it;
- a save sent again while its first copy is in flight, or while a generation runs, is told 409
  although it is or will be saved (`notes.service.ts:548-551`); and a save that read the note before a
  generation began commits while it is being generated;
- a 429 in the middle of an answer starts over: the row is rewritten shorter, the cursor is clamped
  (`sse-stream.ts:290`) and the page shows the old run's text with the new one's after it, until
  it is reloaded. `ShownIsWritten` speaks of generations that ran once;
- a page of a note that reconnects after a regeneration sends the last id of another text;
- `row-stream-poller.ts:228` says a read that keeps failing is ended by the cap; the error path
  (224-233) schedules the next poll without looking at it (257);
- the note-ready event is sent when a commit found its note removed and wrote no version;
- the page's loop asks again for ever for a stream that answers 404 (`sse.ts:305-310`).

Graph:

- two rows of one commit that fill the same relation: the revert writes the props it read once
  (`proposal-revert.service.ts:318-321`, 434-440), and the second undo writes back what the first took off;
  and two that change one item are restored in the order of the commit, or the first is kept as edited since;
- aliases, mentions and distinct pairs that a commit added go with its revert though others
  have confirmed them since;
- merges into one survivor, reversed out of order: folded evidence goes back to the wrong row until both
  are reversed. If the target of a fold was folded further by a merge of its other end,
  the reversal leaves the restored relation without evidence, and the trigger fails the transaction
  with a 500 instead of `revert_conflict`; if it was deleted, the citations it gives back are
  about nothing (`merge.service.ts:496-506`). If it was an item that said the same of the survivor, and a
confirmed revert deletes it with the citations it was given, the reversal brings the other back with none
(the scene `Twins`). These are what `NoOrphans` excepts;
- a relation that a merge has folded away, or made a loop, keeps naming what closed it; if its closer is then
  retracted, the reversal gives back a relation that a rejected one closes. `SuccessionHolds` is true of
  the scenes, where no fact is both closed and folded, and is not true of every graph;
- the merges of one resolution proposal are reverted in no order (`proposal-revert.service.ts:341`): of two
  chained ones, the older first conflicts, and is kept as merged since;
- a revert's own writes move `updated_at`, so a later revert of a chained closing takes them for an edit;
- a revert gives an item its old status though another live item says the same by now: the unique index
  fails it with a 500;
- a merge runs at the default isolation beside a serializable commit (`merge.service.ts:184`): a
  citation may land on a tombstone. Each transaction is one action of the model, which cannot show it;
- a relation closed by one that names a forgotten person stays closed, with no successor.

Search index:

- an edited chunk gets its text and loses its vectors in two statements
  (`search-index.handler.ts:701`, 713). A run cut short between them leaves a hash that matches and the vector of the old
  text; the retry passes the chunk over, and finds nothing to embed;
- the follow-up has no dedup key, so the next edit's run starts beside it. One may compute vectors
  of texts the other is replacing, write them under the new text (867-901), and the row be indexed: without a
  fault, in two edits, a chunk keeps the vector of a text it no longer has;
- the run that finds the document unchanged moves `indexed_at` to now (374) and returns without the
  last look: an edit that was merged into it meanwhile is neither indexed nor offered. The same for an
  edit that is merged between the last look and the end of the job;
- `indexed_at` of a settlement is later than edits the run has not read (419): where the follow-up is lost,
  the owner's request does not offer the document (`search-index-status.service.ts:508`);
- a run that dies leaves the row `indexing`; when the job's attempts are spent too nothing
  offers the document again (503: "work is already queued");
- a run that loaded the document before it was removed writes its rows during the purge or after it, and
  nothing takes them away (`note-purge.handler.ts:195`);
- `search-index.service.ts:193-196` says chunks without a state row come from a crashed `forget`, which
  deletes the chunks first.

Comments that differ from the code: the poll handler's comment at line 130 says housekeeping re-queues
a submit, the comment that ends the housekeeping handler says it deliberately does not;
`transcription-poll.handler.ts:146` says a missing `submittedAt` is treated as now, the code uses
`createdAt`; `transcription-input.ts:37` says housekeeping notices an upload-mode build without a
transcoder, and nothing there looks for it.

## Proofs

`TranscriptPipelineProofs` proves seven theorems of `Spec` with TLAPS, for every value of the
constants: any number of poll rows, completion events and tabs, any attempt and deferral budgets,
any bounds on faults, crashes, requests and provider jobs, either delivery mode, with or without a
transcoder and sweeps. They rest on `QueueAssumption` (attempt budgets are positive),
`SlotsAssumption` (which slots there are, and that a poll slot is none of the others),
`MediaAssumption` and `BoundsAssumption`, which TLC evaluates in every run.

| Theorem | Says | Inductive invariant |
|---|---|---|
| `TypeCorrect` | `TypeOK` | `Types`: TypeOK and JobsCharged. A deferral gives an attempt back, so the count stays natural only because a running row has been charged at its claim. |
| `ToldReadyOnceHolds` | `ToldReadyOnce` | `ToldInv`: no more notices than versions; an ingest between its commit and its notice is the one that wrote the version, and none has been sent yet. |
| `PaidOnceHolds` | `PaidOnce` | `PaidInv`: while the row has no handle and no submit holds an answer, every provider job is excused; the same while a submit is in front of the provider; a submit that holds an answer is running and its handle is not null. |
| `FailureToldOnceHolds` | `FailureToldOnce` | `FailInv`: a transcript that is neither failed, removed nor gone has a notice left. |
| `OnePollChainHolds` | `OnePollChain`, under `OneStart` and `SweepLate` | `ChainInv`: before the first crash, at most one job carries the transcript on (it is active and has not started its successor), none while a hook is still to start one, and neither while the file is uploading; a job that is not running remembers nothing. |
| `ReadyIsFinalHolds` | `ReadyIsFinal`, under `Undisturbed` and `SweepLate` | `FinalInv` with `ChainInv`: before the first crash, a hook or a listener that is still at work has no carrier beside it and a transcript that is not ready; of a ready one only the ingest that wrote it is left, past its commit or about to find the version there. |
| `NotStrandedHolds` | `NotStranded`, under `Smooth` and `SweepLate` | `Going` with `ChainInv` and `Calm`: of an uploading or processing transcript, what the row looks like before the first job, while a rendition is made, while it is submitted, polled and ingested, and after a transcode gave up; and that there is a carrier, a hook or a listener. `Calm`: no row was put back more often than the provider pushed back. |

The last three ask for what their runs give them. `OnePollChain` and `ReadyIsFinal` speak of the time before a
crash. `SweepLate` is the constraint of the run `faults`: the sweep passes over what was touched in the last 20 minutes, so that
it finds something only after a crash. `OneStart` says that only the upload starts the pipeline, and in one way: nobody
retries, and a build that transcodes does not also submit the original. Otherwise a second submit
finds the handle of the first and starts a chain beside its own; cancels, removals and duplicate events are
allowed. `Undisturbed` asks for more, and each part is needed. A cancel writes `failed` without looking at the
status again; a removal meets an ingest whose commit does not look either, and makes the row `ready` just before
the purge deletes it; a duplicate event whose hook throws fails what is ready by then (the run has one only where nothing throws); and a
hook that waits behind the transcode it started may come to its choice after the end.

`Smooth` is what the run `settles_rendition` bounds: no await throws, no process dies, the provider pushes
back no more often than a row may be deferred, and `OneStart`, which `ChainInv` rests on. The first three are needed. A process that dies between the hook's promotion
and its enqueue leaves the transcript waiting for nothing. A poll that wrote `completed`
and throws before it queued the ingest finds its work done when it comes back, as a transcode does that recorded
the rendition and threw before it woke the submit (a hazard of the list: the code strands the transcript); a 429
past the budget is heard by the listener while another row of the pipeline, which will not decide the outcome, is still
active. Everything else is allowed: an encoder that cannot read the file, on the server or on a node, until
the attempts are spent, the listener that then takes over, refusals of the provider, 429s within the budget, passed deadlines, cancels and
removals at any time, duplicate events, and builds with and without a transcoder. The theorem therefore covers
more than its run, which has one event and no request.

`NoteGenerationProofs` proves seven of `NoteGeneration`'s, all the safety properties that the runs `notes` and
`note_stream` check, for any number of generations, previews,
saves, batches, readers, chunks, deferrals and mishaps, from `QueueAssumption`, `NoteAssumption`
(the slots, and that a generation has one attempt) and `StreamAssumption`.

| Theorem | Says | Inductive invariant |
|---|---|---|
| `RowsHold` | `Rows`, the types without the bounds of the runs | itself |
| `HistoryIsALogHolds` | `HistoryIsALog`: the refinement of `VersionLog` | `HistoryInv`: the row's version is the length of the history, and a commit about to write has read a version that existed. So a commit whose number is free appends, a save claims the last number, the purge erases, and every other step leaves the log alone. |
| `ToldOnceHolds` | `ToldOnce` | `OutcomeInv`: where a handler stands, what its generation's row says and what was told of it agree; before its end nothing was told. |
| `CommitIsWholeHolds` | `CommitIsWhole` | `WrittenInv`: a generation has a version with its text, one, if and only if it succeeded before its note was removed. |
| `GeneratingHasWriterHolds` | `GeneratingHasWriter` | `WriterInv`: a handler that runs has a running job; a note that is being generated has a handler before its commit or its failure, or one was cut off. |
| `NotesTypeOKHolds` | `NotesTypeOK` | `BriefInv`: each run of a generation but the first was paid for by a deferral of its job, of which there are `MaxHits`, so no text names a run beyond `MaxHits + 1`; with `BodiesInv`, what requests and versions carry is made of such texts, and `StreamInv`, below. |
| `ShownIsWrittenHolds` | `ShownIsWritten` | `ExactInv`, see below. |

A page, the frames on their way to it and the server's cursor hold one text between them. `StreamInv` says that they
meet: each delta starts no later than where the frame before it will have brought the page (`Mark`), the cursor
stands no further than the last, a terminal frame is last and has closed its connection. That is so even when
a second run of the generation makes the row's text shorter. Of a generation that runs once `ExactInv` says more: each delta
is exactly the `Piece` of the row's text between two such marks, and a `done` comes when there is no more.
It is kept by the pages' steps because a connection begins at the last id the page has received, and by the others
because of `GrownInv`: while a generation runs for the first time its row's text is how its handler's buffer
begins, so that a flush extends what was shown (`Grows`), and nothing is written once it has succeeded.

`SearchIndexProofs` proves five of `SearchIndex`'s, all that the run `search` checks, for any documents, models, number of runs at once,
edits, faults, crashes and repetitions of the purge, from `SearchAssumption` (the slots are the keyed one
and finitely many others, and no document is longer than `MaxChunks`).

| Theorem | Says | Inductive invariant |
|---|---|---|
| `SearchTypeOKHolds` | `SearchTypeOK`, with it that rows have ids of their own | `TypeInv`: the types, that a running job has been charged, and that what a run has left to embed is finite. The last is what makes the ids in use finitely many, so that there is a fresh one. |
| `VectorsFitHolds` | `VectorsFit` | `FitsInv`: unless runs have overlapped or one was cut off between the two statements, at most one run is under way; every vector is of the text its chunk has, but for the chunk about to be stripped; that chunk still is the one the run rewrote; and the texts a run embeds are those of their chunks. |
| `NothingLeftHolds` | `NothingLeft` | `LeftInv`: from the first statement of a purge on, unless a run was past its last look at the document then, no run is in a step that writes, there are no chunks, and, once the purge has come to the row, no state. A run that asks after the document finds it removed and can only forget. |
| `StaleIsOfferedHolds` | `StaleIsOffered` | `IndexInv`: unless runs have overlapped, and while the document is there, a run has done what the steps before its own do (`Progress`): the chunks it has passed are those of its text and it knows the others as they are, every one has a vector or is to be embedded, and while it writes the state row claims nothing. So a row that says `indexed` is the truth about the chunks (`Told`), and about the document where the stamp covers what was read. |
| `CaughtUpHolds` | `CaughtUp` | `IndexInv`, with `WorkInv`: before the first fault no statement of a run is refused, a run that returns leaves `indexed` or `skipped`, and either the row names the text the document has, or an enqueue, a queued run or a run is still to come, or the history has the missed look. |

`ShapeKept` says that records keep their fields, which is all `LeftInv` needs of their types.

`TranscriptEditingProofs` proves seven of `TranscriptEditing`'s, for any lines and voices, any number of
requests, restores, versions and crashes, and any menu: from `OpsAssumption` (what the ops name, and that
`Gone` is no row) and `EditingBounds`.

| Theorem | Says | Inductive invariant |
|---|---|---|
| `EditingTypeOKHolds` | `EditingTypeOK` | `Shape`: `Types`, with the texts of any document; `LogOK` and `RequestOK`, which ops a version or a request may carry and when; `JobOK`; and `Budget`, that the versions and the requests that may still write one were all paid for, which bounds the log. |
| `PastIsFixedHolds`, `HistoryReplaysHolds` | `PastIsFixed`, `HistoryReplays` | `History`: there is one document for each version, which says what the log says of its lines and, but for the names, is what the version's op makes of the one before, what a later restore says, what the snapshot holds, what a job has read and a restore is about to write; the last one is the live tables. No variable holds these documents: the invariant says that they exist (`Told`). |
| `ConflictMeansUnsavedHolds` | `ConflictMeansUnsaved` | `Shape`: a batch is answered with a conflict only in a step that looked for its id in the log. |
| `HistoryIsLiveHolds` | `HistoryIsLive`, where no menu has `merge_name`, nor both `unname` and `restore` | `History` with `NamesKept`: there are the names the speakers had at each version, and those then kept beside the log, and every text of the version shows them. |
| `NoBlindLinesHolds` | `NoBlindLines` | `Sights`: what an open request says of a line's rev is what the version it was made from says. |
| `SnapshotsKeptHolds` | `SnapshotsKept` | `Alone`: at most one row of the job is active, and each run of the handler that is still an attempt holds it, so that at most one is; what a run without a row has read is late. `Kept`: a version that is linked and not late has bytes, and no run that is about to claim it could come second. |

`SnapshotsKeptHolds` takes no hypothesis about the workers: it is the dedup key that keeps them apart, for any number
of workers and rows, and `late` says where it cannot.

`History` says of the live tables what a replay makes of them but for the names, which are put over a version
when it is shown. `Naming` is what the names need: the body, the snapshot and the replay of a version call a
speaker as it was called then, or by its placeholder if its name was kept beside the log (`Shows`). The three
may differ, since a restore and a snapshot bake in the names of the day and a replay does not; so
each version is told by what its ops do to *any* text with the names of the one before (`Calls`), which
`ApplyOpsNames` gives of a batch: it gives the same names to every text it does not conflict with. `Placed` is why
a name of today does not cover a later rename. Both exceptions of the hypothesis are real,
and TLC has a behaviour for each: a merge that takes the name of the speaker it removes bakes in what only one of
the two texts says; and a snapshot may have baked in a name that is then taken back, so that a restore which read
the version before the snapshot was linked leaves the placeholder in the live tables, and every later
replay, which starts at the snapshot, the name (one speaker, no lines, five requests by one person, no fault). That a request asks only
what its menu has is an invariant of its own (`Offered`). The number of snapshot
jobs does not matter here: of a snapshot that was lost there is nothing to show.

A replay is a recursive function over the versions (`Raw`, `Materialize`), and such a function is
a CHOOSE, of which a proof first has to show that there is one. `SetInduction` does so once: `UpTo` is induction
over 0..n for a *set* of numbers, so that no theorem takes an operator as a parameter, `Iteration` says that a
step can be iterated, `Iterates` that the CHOOSE then is an iteration. `RawIs` is what they give of
`Raw`; from it `FitsNext` is one version of a replay, `RawFits` all of them, and `MaterializeFits` those that
start at a snapshot. `TranscriptOpsProofs` has the lemmas about the ops: the reducers keep the types, and
make of two documents that are alike but for the names two that are; a batch renames the same speakers in
every document it does not conflict with.

`GraphForgetProofs` proves six of the graph's, for any entities, relations, items, proposals, plans, scenes,
number of transactions and of forgettings, from `GraphAssumption` (ids of different tables differ, and the
entities and relations are finitely many, which a walk over them needs), `SceneAssumption` (a behaviour begins
with live rows that name live rows; what a draft is to create is new, its own, and nothing that it restates; a
draft that merges does nothing else) and `ForgetAssumption`. The last two are what `proposal-commit.service.ts` validates and how a
draft comes by its ids: what it restates is a row that was there when the draft was resolved
(`proposal-commit.service.ts:863-870`), and what it creates has no id before the commit.

| Theorem | Says | Of |
|---|---|---|
| `GraphTypeOKHolds` | `GraphTypeOK` | `ForgetSpec` |
| `NamesLiveHolds` | `NamesLive` | `ForgetSpec` |
| `ForgottenStayGone` | `StayGone`: who is forgotten is not there, nothing names them, no merge about them stands | `ForgetSpec` |
| `TombstonesReversibleHolds` | `TombstonesReversible` | `QuietSpec` |
| `ForgottenIsGoneHolds` | `ForgottenIsGone` | `QuietSpec` |
| `NoOrphansHolds` | `NoOrphans` | `QuietSpec` |

`ForgetSpec` lets everyone write at any time, between two steps of the job too; `QuietSpec` leaves the graph to
the job while it runs (`QuietIsForget`: its behaviours are some of the former's). So the first three hold
although nothing keeps the writers out, and `finding_graph_forget` is what does not.
`SoundAlways` is the invariant of `ForgetSpec`, in six parts that need each other:

- `Types`, with the types of the logs that undo a commit or a merge;
- `NamesWell`: `NamesLive` of every row that is there, live or not, and of every citation: a rejected
  relation or a folded item that is given back must find its names alive;
- `Tombs`: each merge that stands has left its tombstone, and no two the same one. A reversal brings
  back the tombstone of its merge, so it must not be somebody else's;
- `NewNames`: what a draft is to create is not there, is in no other draft, and nobody has set out to
  forget it: a commit overwrites nothing, and brings back nobody;
- `Since`: a merge of what a proposal created is younger than its commit. It makes a revert, which spares
  what is merged since, spare the survivors of the merges that stand;
- `Gone`: where the job stands, and that nobody it has forgotten is there.

`QuietAlways` adds `Quiet`: whoever was merged into one whom the job forgets is being forgotten too, and every
tombstone nobody set out to forget is recorded by a merge that stands. `GraphOpsProofs` says what the pieces of a
transaction do, one lemma each, for any graph: folding, merging, reversing, a commit's rows one after
the other, each of a revert's four takings-back. The recursive functions among them, a commit over its
rows, a merge over the relations, a revert over its log and the set of a person over the graph, are
iterations by `SetInduction` (`Pass` where each step leads from one set of values to another).

`NoOrphansHolds` adds `Fine` to both. That a live row has a citation is far from inductive: a revert deletes an
entity with its citations, and which row those are on, and who names the entity, depends on every merge since. What
holds it together is `Whole`. A live entity keeps its *own* citation, the one written with it (`OwnCites`); a
relation or an item that is not folded keeps its own too, unless a reversal gave the row back (`OwnRows`); and each end of a relation or of an item is shadowed by
the own citation of an entity (`Shadowed`): it is on whatever the end names now, each merge that stands took both
or neither, and a commit that made the entity after the row does not exist. So no name is left when an entity
goes: if a surviving row names it, the entity still has the citation that shadows the end, which is of
another commit, and the revert spares it. A merge and its reversal keep the pair together, a merge by taking both,
a reversal by giving back what its record lists. `LogsWell` is what a log of a commit may hold, `Unused` that what a
draft is to create is known to no row, citation, merge or log, and `Cleared` how far the job that forgets has
come, without which the last step would leave names behind. All four were checked with TLC on the scenes of the run `graph`
first.

Strengthening these found that three properties were false as they had been stated, where no scene showed
it: they are the exceptions above, and `Twins` is the scene of the first.

Each proof has an `Init` lemma, a lemma per actor with a step for each of its actions (actions that
touch nothing the invariant speaks of are taken together), a `Next` lemma that puts them
together, and the temporal step. `EnqueueJobs` to `UnchangedJobs` are what each queue operation
keeps, `HandlerThrowsTypes` and `MarkFailedTypes` what the two shared pieces of code keep, `QueueAfter`,
`UntouchedOutcome` and `MovedWritten` the same of the notes; they are
cited where the pieces are used. The invariants were checked with TLC on the runs above first.

Model-checked only: of the graph `SuccessionHolds` (not true of every
graph, see the findings), `UndoIsExact` and `RevertSparesOthers`, which still waits for its proof, and the liveness properties: liveness under fairness and ENABLED are beyond the prover.

## What is not modelled

Of the pipeline, the notes and the search index: a handler that lives on after its time or its lease is over and runs
beside the re-delivered one (of the snapshot job it is modelled). Of the pipeline: job priorities, backoff and poll delays, nodes' data plane, the abort event of an
upload and steps 2 to 4 of housekeeping, the purge of all of an owner's transcripts and the order in
which a purge deletes objects, metadata edits, and
the administrator's change of provider or delivery mode under way. Policy is read at each step in
the code and is constant here, but for the hook that finds transcription turned off. Of the
editing: what its section leaves out, a 429 of the queue against a snapshot (its handler calls no provider), the removal of a transcript under an edit, and the database,
whose row locks and repeatable reads are taken to work. Of the notes and the graph: what their sections
leave out, and the interleaving of statements inside one transaction, but for a commit's.

Validity ranges with their precision are pure functions, the migration of a graph rewrites every row of
one owner in one job, and what a model extracts or a reviewer decides is where `GraphProposals`
begins. The other components of the inventory are planned or out of scope as the plan and
`PROJECT.json` say: screens, formats, vendors' clients and schema have no state worth exploring.
