--------------------------- MODULE TranscriptPipeline ---------------------------
(***************************************************************************)
(* One transcript on its way from a finished upload to `ready`, `failed`   *)
(* or gone.  The row is written by every job of the pipeline, by the       *)
(* upload hook, by the owner's requests, by the listener of failed jobs    *)
(* and by the housekeeping sweep, and almost none of those writers holds   *)
(* the row while it works: each reads it, awaits a provider or the queue,  *)
(* and writes.  A step of this module is what happens between two awaits   *)
(* whose order another writer can observe.                                 *)
(*                                                                         *)
(* row.original is the uploaded file, and row.handle is `providerJobId` (0 *)
(* for null), an index of `remote`, the provider's own jobs.  row.overdue  *)
(* says the poll deadline of                                               *)
(* `submittedAt` has passed, row.deleted that `deletedAt` is set, and      *)
(* row.version is `currentVersion` as far as the pipeline writes it.  The  *)
(* purged row has status "gone".                                           *)
(***************************************************************************)
EXTENDS JobQueue, Sequences, TranscriptionInput

CONSTANTS
  PollSlots,            \* rows of type transcription.poll that may be active at once
  Uploads,              \* completion events the object store raises for the one source
  Callers,              \* the owner's browser tabs
  OwnerCalls,           \* which of "retry", "cancel", "remove" the owner uses
  AudioDelivery,        \* transcription.audioDelivery
  Originals,            \* the files a user uploads, as the provider's limits see them
  Rendition,            \* the rendition a transcode produces, seen the same way
  TranscodeRegistered,  \* this build has a media.audio.transcode handler
  DeleteRemote,         \* policy.deleteRemoteAfterIngest
  Sweeps,               \* the host schedules transcripts.housekeeping
  MaxRemote,            \* bound: provider jobs
  MaxCrashes,           \* bound: deaths of the server process
  MaxFaults,            \* bound: thrown errors and lost answers
  MaxLimits,            \* bound: 429s of the provider
  MaxExpiries,          \* bound: poll deadlines that pass
  MaxCalls              \* bound: requests of the owner

PipelineTypes == {"submit", "ingest", "transcode"}

ASSUME SlotsAssumption ==
  /\ Slots = PipelineTypes \cup {"purge"} \cup PollSlots
  /\ PollSlots \cap (PipelineTypes \cup {"purge"}) = {}

ASSUME MediaAssumption ==
  /\ AudioDelivery \in DeliveryModes
  /\ Originals \subseteq Candidates
  /\ Rendition \in Candidates
  /\ TranscodeRegistered \in BOOLEAN
  /\ DeleteRemote \in BOOLEAN
  /\ Sweeps \in BOOLEAN

ASSUME BoundsAssumption ==
  /\ MaxRemote \in Nat /\ MaxCrashes \in Nat /\ MaxFaults \in Nat /\ MaxLimits \in Nat
  /\ MaxExpiries \in Nat /\ MaxCalls \in Nat
  /\ OwnerCalls \subseteq {"retry", "cancel", "remove"}

VARIABLES
  row,       \* the transcripts row
  pc,        \* pc[s]: where the handler running slot s is
  seen,      \* seen[s]: what that handler remembers across its awaits
  remote,    \* the provider's jobs, in the order they were accepted
  hook,      \* hook[u]: where the upload hook is with event u
  call,      \* call[c]: the request tab c has in flight
  listener,  \* listener[s]: a detached reconcile of the failed job of slot s
  sweep,     \* step 1 of transcripts.housekeeping
  tally,     \* history: notices sent, answers lost, failures reopened, handles given up
  used       \* how much of each bound has been used

vars == <<row, job, pc, seen, remote, hook, call, listener, sweep, tally, used>>

-------------------------------------------------------------------------------
(* Data.                                                                   *)

Statuses   == {"uploading", "processing", "ready", "failed", "deleting", "gone"}
TStatuses  == {"waiting_input", "queued", "submitting", "submitted", "processing",
               "completed", "failed", "cancelled"}
Playbacks  == {"pending", "processing", "ready", "failed"}
RemoteStates == {"running", "completed", "failed", "deleted"}

Row == [original : Candidates,
        status   : Statuses,
        ts       : TStatuses,
        playback : Playbacks,
        handle   : Nat,
        version  : {0, 1},
        deleted  : BOOLEAN,
        overdue  : BOOLEAN]

Snapshots  == [ts : TStatuses, playback : Playbacks, handle : Nat]
NoSnapshot == [ts |-> "waiting_input", playback |-> "pending", handle |-> 0]
Snapshot   == [ts |-> row.ts, playback |-> row.playback, handle |-> row.handle]

PCs == {"idle", "done", "refuse",                               \* every handler
        "select", "deliver", "record", "firstPoll",             \* submit
        "ask", "complete", "toIngest", "note", "next",          \* poll
        "fetch", "commit", "release", "notify",                 \* ingest
        "node", "run", "attach", "wake", "queue", "toSubmit",   \* transcode
        "giveUp", "verdict", "blame", "rethrow",
        "forgetRemote", "delete"}                               \* purge

HookPCs == {"event", "transcode", "mark", "choose", "queue", "toSubmit", "abort", "off"}

CallPCs == {"idle", "stopRemote", "cancel", "reopen", "resume", "poll", "clear",
            "queue", "toSubmit", "delete", "toPurge"}
Calls   == [pc : CallPCs, handle : Nat, cancelled : BOOLEAN]
NoCall  == [pc |-> "idle", handle |-> 0, cancelled |-> FALSE]

Exists == row.status # "gone"
Live   == Exists /\ ~row.deleted         \* what loadForJob and access.require return

At(s, p)       == Running(s) /\ pc[s] = p
Goto(s, p)     == pc' = [pc EXCEPT ![s] = p]
Keep(s, x)     == seen' = [seen EXCEPT ![s] = x]
Reset(s)       == Goto(s, "idle") /\ Keep(s, NoSnapshot)

-------------------------------------------------------------------------------
(* TranscriptPipelineService.                                              *)

\* Mutant of MarkFailed: the UPDATE is not conditional on the status.
MarkFailedAgain(stage) ==
  IF Live
    THEN /\ row' = [row EXCEPT !.status = "failed",
                             !.ts = IF stage \in {"transcription", "ingest"}
                                      THEN "failed" ELSE @]
         /\ tally' = [tally EXCEPT !.failed = @ + 1]
    ELSE UNCHANGED <<row, tally>>

\* markFailed: conditional on the row being live and neither failed nor deleting; the
\* owner is told by the caller whose write counted.
MarkFailed(stage) ==
  IF Live /\ row.status \notin {"failed", "deleting"}
    THEN /\ row' = [row EXCEPT !.status = "failed",
                             !.ts = IF stage \in {"transcription", "ingest"}
                                      THEN "failed" ELSE @]
         /\ tally' = [tally EXCEPT !.failed = @ + 1]
    ELSE UNCHANGED <<row, tally>>

\* enqueueSubmit, its write; the enqueue is the next await.
MarkQueued == Exists /\ row' = [row EXCEPT !.ts = "queued"]

\* Mutant of EnqueuePoll: without skipDedup the running link of the chain is the dedup hit.
EnqueuePollDeduped ==
  IF \E k \in PollSlots : Active(k) THEN UNCHANGED job
                                  ELSE \E k \in PollSlots : Enqueue(k)

\* enqueuePoll skips dedup: any free row.
EnqueuePoll == \E k \in PollSlots : Enqueue(k)

-------------------------------------------------------------------------------
(* The queue and the worker that runs the handlers.                        *)

\* A handler's first step claims its row and reads the transcript, before any await.
Starts(s, p) == ClaimJob(s) /\ Goto(s, p)

Finish(s) ==
  /\ pc[s] = "done"
  /\ Complete(s)
  /\ Reset(s)
  /\ UNCHANGED <<row, remote, hook, call, listener, sweep, tally, used>>

\* A row that spent a budget settles as failed, and the listener hears of it.
HeardBy(s) ==
  listener' = IF job'[s] = NoJob /\ s # "purge" THEN [listener EXCEPT ![s] = "check"]
              ELSE listener

\* The handler of s throws.  A submit that held the provider's answer loses it.
HandlerThrows(s) ==
  /\ Fail(s)
  /\ Reset(s)
  /\ HeardBy(s)
  /\ tally' = IF s = "submit" /\ pc[s] = "record" THEN [tally EXCEPT !.lost = @ + 1]
              ELSE tally

\* process() of the transcode handler catches what it throws on the last attempt.  The
\* steps after the rendition are shared with persistNodeResult, which catches nothing.
CaughtAt(s, pcs) == s = "transcode" /\ Exhausted(s) /\ pc[s] \in pcs

ThrowStep(s) ==
  \/ /\ CaughtAt(s, {"run", "refuse", "wake", "queue", "toSubmit"})
     /\ Goto(s, "giveUp") /\ UNCHANGED <<job, seen, listener, tally>>
  \/ ~CaughtAt(s, {"run"}) /\ HandlerThrows(s)

\* Mutant of Throw: something that may throw follows the handler's last write.
ThrowAfterAll(s) ==
  /\ Running(s)
  /\ used.faults < MaxFaults
  /\ ThrowStep(s)
  /\ used' = [used EXCEPT !.faults = @ + 1]
  /\ UNCHANGED <<row, remote, hook, call, sweep>>

\* Any await of a handler may throw: the database, the queue, the provider, storage.
Throw(s) ==
  /\ Running(s) /\ pc[s] # "done"
  /\ used.faults < MaxFaults
  /\ ThrowStep(s)
  /\ used' = [used EXCEPT !.faults = @ + 1]
  /\ UNCHANGED <<row, remote, hook, call, sweep>>

\* `update` by id throws when the purge has deleted the row, and a second version 1
\* breaks the unique (transcript, version).
UpdateRefused(s) ==
  /\ Running(s)
  /\ \/ ~Exists /\ pc[s] \in {"select", "record", "complete", "note", "commit", "run", "attach", "queue"}
     \/ row.version = 1 /\ pc[s] = "commit"
  /\ ThrowStep(s)
  /\ UNCHANGED <<row, remote, hook, call, sweep, used>>

\* A 429 of the provider defers the job without spending an attempt, so many times.
RateLimited(s) ==
  /\ Running(s) /\ pc[s] \in {"deliver", "ask", "fetch"}
  /\ used.limits < MaxLimits
  /\ Defer(s)
  /\ Reset(s)
  /\ HeardBy(s)
  /\ used' = [used EXCEPT !.limits = @ + 1]
  /\ UNCHANGED <<row, remote, hook, call, sweep, tally>>

\* The reaper finds the expired lease of a killed process.
Reap(s) ==
  /\ job[s].state = "abandoned"
  /\ Fail(s)
  /\ HeardBy(s)
  /\ UNCHANGED <<row, pc, seen, remote, hook, call, sweep, tally, used>>

\* A failure the handler can classify: nothing to submit, poll or fetch; a provider
\* that is not configured, rejects the file or the key, or reports that it failed.
Stage(s) == IF s = "ingest" THEN "ingest" ELSE "transcription"

\* A submit that finds the source object missing fails the upload instead.
Stages(s) == {Stage(s)} \cup (IF pc[s] = "select" THEN {"upload"} ELSE {})

Refuse(s) ==
  /\ Running(s) /\ pc[s] \in {"refuse", "select", "deliver", "ask", "fetch"}
  /\ \E stage \in Stages(s) : MarkFailed(stage)
  /\ Goto(s, "done")
  /\ UNCHANGED <<job, seen, remote, hook, call, listener, sweep, used>>

-------------------------------------------------------------------------------
(* transcription.submit                                                    *)

\* Mutant of SubmitLoad: the provider handle of an earlier attempt is not looked at.
SubmitLoadAfresh ==
  /\ IF ~Live \/ row.status \in {"failed", "deleting"} \/ row.ts = "cancelled"
       THEN Starts("submit", "done") /\ UNCHANGED seen
       ELSE Starts("submit", "select") /\ Keep("submit", Snapshot)
  /\ UNCHANGED <<row, remote, hook, call, listener, sweep, tally, used>>

SubmitLoad ==
  /\ IF ~Live \/ row.status \in {"failed", "deleting"} \/ row.ts = "cancelled"
       THEN Starts("submit", "done") /\ UNCHANGED seen
       ELSE /\ Starts("submit", IF row.handle # 0 THEN "firstPoll" ELSE "select")
            /\ Keep("submit", Snapshot)
  /\ UNCHANGED <<row, remote, hook, call, listener, sweep, tally, used>>

\* The choice is made from the snapshot: the playback columns read at load.
Selection ==
  LET playback == seen["submit"].playback IN
  SelectTranscriptionInput(AudioDelivery, row.original,
                           IF playback = "ready" THEN {Rendition} ELSE {},
                           playback \in {"pending", "processing"})

SubmitWaits ==
  /\ At("submit", "select") /\ Selection = "wait"
  /\ IF row.status = "processing" THEN row' = [row EXCEPT !.ts = "waiting_input"]
                                  ELSE UNCHANGED row
  /\ Goto("submit", "done")
  /\ UNCHANGED <<job, seen, remote, hook, call, listener, sweep, tally, used>>

SubmitSelects ==
  /\ At("submit", "select") /\ Selection \in {"original", "rendition"}
  /\ Exists /\ row' = [row EXCEPT !.ts = "submitting"]
  /\ Goto("submit", "deliver")
  /\ UNCHANGED <<job, seen, remote, hook, call, listener, sweep, tally, used>>

\* provider.submit answers with the id of a new job ...
SubmitAccepted ==
  /\ At("submit", "deliver") /\ Len(remote) < MaxRemote
  /\ remote' = Append(remote, "running")
  /\ Keep("submit", [seen["submit"] EXCEPT !.handle = Len(remote) + 1])
  /\ Goto("submit", "record")
  /\ UNCHANGED <<row, job, hook, call, listener, sweep, tally, used>>

\* ... or the job is created and its answer never arrives.
SubmitAnswerLost ==
  /\ At("submit", "deliver") /\ Len(remote) < MaxRemote
  /\ used.faults < MaxFaults
  /\ remote' = Append(remote, "running")
  /\ Fail("submit") /\ Reset("submit") /\ HeardBy("submit")
  /\ tally' = [tally EXCEPT !.lost = @ + 1]
  /\ used' = [used EXCEPT !.faults = @ + 1]
  /\ UNCHANGED <<row, hook, call, sweep>>

SubmitRecord ==
  /\ At("submit", "record")
  /\ Exists
  /\ row' = [row EXCEPT !.handle = seen["submit"].handle, !.ts = "submitted",
                      !.overdue = FALSE]
  /\ Goto("submit", "firstPoll")
  /\ UNCHANGED <<job, seen, remote, hook, call, listener, sweep, tally, used>>

SubmitFirstPoll ==
  /\ At("submit", "firstPoll")
  /\ EnqueuePoll
  /\ Goto("submit", "done")
  /\ UNCHANGED <<row, seen, remote, hook, call, listener, sweep, tally, used>>

Submit == \/ SubmitLoad \/ SubmitWaits \/ SubmitSelects \/ SubmitAccepted
          \/ SubmitAnswerLost \/ SubmitRecord \/ SubmitFirstPoll

-------------------------------------------------------------------------------
(* transcription.poll                                                      *)

ChainEnded ==
  \/ ~Live
  \/ row.status \in {"failed", "deleting", "ready"}
  \/ row.ts \in {"cancelled", "failed", "completed"}
  \/ row.handle = 0

\* Mutant of PollLoad: the chain has no deadline.
PollLoadForever(s) ==
  /\ IF ChainEnded THEN Starts(s, "done") /\ UNCHANGED seen
     ELSE Starts(s, "ask") /\ Keep(s, [Snapshot EXCEPT !.playback = "pending"])
  /\ UNCHANGED <<row, remote, hook, call, listener, sweep, tally, used>>

PollLoad(s) ==
  /\ IF ChainEnded THEN Starts(s, "done") /\ UNCHANGED seen
     ELSE /\ Starts(s, IF row.overdue THEN "refuse" ELSE "ask")
          /\ Keep(s, [Snapshot EXCEPT !.playback = "pending"])
  /\ UNCHANGED <<row, remote, hook, call, listener, sweep, tally, used>>

\* Mutant of PollAsk: the provider's own word for the state is stored.
PollAskRaw(s) ==
  /\ At(s, "ask")
  /\ LET state == remote[seen[s].handle] IN
     \/ state = "completed" /\ Goto(s, "complete") /\ UNCHANGED seen
     \/ state = "running" /\ Goto(s, "note") /\ Keep(s, [seen[s] EXCEPT !.ts = state])
  /\ UNCHANGED <<row, job, remote, hook, call, listener, sweep, tally, used>>

\* getStatus of the job the snapshot names.  "queued" leaves the transcriptionStatus of
\* the snapshot to be written back; a failed job is refused.
PollAsk(s) ==
  /\ At(s, "ask")
  /\ \/ /\ remote[seen[s].handle] = "completed"
        /\ Goto(s, "complete") /\ UNCHANGED seen
     \/ /\ remote[seen[s].handle] = "running"
        /\ Goto(s, "note")
        /\ \E ts \in {seen[s].ts, "processing"} : Keep(s, [seen[s] EXCEPT !.ts = ts])
  /\ UNCHANGED <<row, job, remote, hook, call, listener, sweep, tally, used>>

PollComplete(s) ==
  /\ At(s, "complete") /\ Exists
  /\ row' = [row EXCEPT !.ts = "completed"]
  /\ Goto(s, "toIngest")
  /\ UNCHANGED <<job, seen, remote, hook, call, listener, sweep, tally, used>>

PollToIngest(s) ==
  /\ At(s, "toIngest")
  /\ EnqueueOnce("ingest")
  /\ Goto(s, "done")
  /\ UNCHANGED <<row, seen, remote, hook, call, listener, sweep, tally, used>>

\* Still queued: the transcriptionStatus of the snapshot is written back.
PollNote(s) ==
  /\ At(s, "note") /\ Exists
  /\ row' = [row EXCEPT !.ts = seen[s].ts]
  /\ Goto(s, "next")
  /\ UNCHANGED <<job, seen, remote, hook, call, listener, sweep, tally, used>>

PollNext(s) ==
  /\ At(s, "next")
  /\ EnqueuePoll
  /\ Goto(s, "done")
  /\ UNCHANGED <<row, seen, remote, hook, call, listener, sweep, tally, used>>

Poll(s) == PollLoad(s) \/ PollAsk(s) \/ PollComplete(s) \/ PollToIngest(s)
           \/ PollNote(s) \/ PollNext(s)

-------------------------------------------------------------------------------
(* transcription.ingest                                                    *)

\* Mutant of IngestLoad: a second delivery resumes after the commit.
IngestLoadResumes ==
  /\ IF ~Live \/ row.status = "deleting" \/ row.ts = "cancelled"
       THEN Starts("ingest", "done") /\ UNCHANGED seen
       ELSE /\ Starts("ingest", IF row.handle = 0 THEN "refuse"
                               ELSE IF row.version = 1 THEN "notify" ELSE "fetch")
            /\ Keep("ingest", [NoSnapshot EXCEPT !.handle = row.handle])
  /\ UNCHANGED <<row, remote, hook, call, listener, sweep, tally, used>>

IngestLoad ==
  /\ IF ~Live \/ row.status = "deleting" \/ row.ts = "cancelled" \/ row.version = 1
       THEN Starts("ingest", "done") /\ UNCHANGED seen
       ELSE /\ Starts("ingest", IF row.handle = 0 THEN "refuse" ELSE "fetch")
            /\ Keep("ingest", [NoSnapshot EXCEPT !.handle = row.handle])
  /\ UNCHANGED <<row, remote, hook, call, listener, sweep, tally, used>>

\* fetchResult: the text, or a job that is not there yet and an error worth retrying.
IngestFetch ==
  /\ At("ingest", "fetch")
  /\ \/ /\ remote[seen["ingest"].handle] = "completed"
        /\ Goto("ingest", "commit") /\ UNCHANGED <<job, seen, listener, tally>>
     \/ remote[seen["ingest"].handle] = "running" /\ HandlerThrows("ingest")
  /\ UNCHANGED <<row, remote, hook, call, sweep, used>>

\* One transaction writes version 1 and the row.  The snapshot is queued next; whether
\* that throws or the release does, the text is there.
IngestCommit ==
  /\ At("ingest", "commit") /\ Exists
  /\ row.version = 0
  /\ row' = [row EXCEPT !.status = "ready", !.ts = "completed", !.version = 1]
  /\ Goto("ingest", IF DeleteRemote THEN "release" ELSE "notify")
  /\ UNCHANGED <<job, seen, remote, hook, call, listener, sweep, tally, used>>

\* deleteRemote; a refusal is logged and changes nothing.
IngestRelease ==
  /\ At("ingest", "release")
  /\ \/ remote' = [remote EXCEPT ![seen["ingest"].handle] = "deleted"]
     \/ UNCHANGED remote
  /\ Goto("ingest", "notify")
  /\ UNCHANGED <<row, job, seen, hook, call, listener, sweep, tally, used>>

\* The search index is queued, the row is read again, and the owner is told.
IngestNotify ==
  /\ At("ingest", "notify")
  /\ tally' = IF Exists THEN [tally EXCEPT !.ready = @ + 1] ELSE tally
  /\ Goto("ingest", "done")
  /\ UNCHANGED <<row, job, seen, remote, hook, call, listener, sweep, used>>

Ingest == IngestLoad \/ IngestFetch \/ IngestCommit \/ IngestRelease \/ IngestNotify

-------------------------------------------------------------------------------
(* media.audio.transcode                                                   *)

TranscodeLoad ==
  /\ Starts("transcode", IF \/ ~Live \/ row.status \in {"failed", "deleting"}
                            \/ row.playback = "ready"
                           THEN "done" ELSE "run")
  /\ UNCHANGED <<row, seen, remote, hook, call, listener, sweep, tally, used>>

\* An encoder that cannot read the file: the attempt fails whatever the fault budget.
TranscodeBroken ==
  /\ At("transcode", "run")
  /\ ThrowStep("transcode")
  /\ UNCHANGED <<row, remote, hook, call, sweep, used>>

\* A worker node may run the job instead of process().  A failure it reports never
\* reaches onTranscodeError; a result looks only for a live row.
TranscodeOnNode ==
  /\ Starts("transcode", "node")
  /\ UNCHANGED <<row, seen, remote, hook, call, listener, sweep, tally, used>>

TranscodeNodeFails ==
  /\ At("transcode", "node")
  /\ HandlerThrows("transcode")
  /\ UNCHANGED <<row, remote, hook, call, sweep, used>>

TranscodeNodeResult ==
  /\ At("transcode", "node")
  /\ Goto("transcode", IF Live THEN "attach" ELSE "done")
  /\ UNCHANGED <<row, job, seen, remote, hook, call, listener, sweep, tally, used>>

\* attachRendition; then failIfTooLong measures the rendition against the provider's limit.
TranscodeAttach ==
  /\ Running("transcode") /\ pc["transcode"] \in {"run", "attach"} /\ Exists
  /\ row' = [row EXCEPT !.playback = "ready"]
  /\ \E next \in {"wake", "refuse"} : Goto("transcode", next)
  /\ UNCHANGED <<job, seen, remote, hook, call, listener, sweep, tally, used>>

\* Mutant of TranscodeWake: a finished rendition wakes nobody.
TranscodeWakeNobody ==
  /\ At("transcode", "wake")
  /\ Goto("transcode", "done")
  /\ UNCHANGED <<row, job, seen, remote, hook, call, listener, sweep, tally, used>>

TranscodeWake ==
  /\ At("transcode", "wake")
  /\ Goto("transcode", IF row.ts = "waiting_input" /\ row.status = "processing"
                         THEN "queue" ELSE "done")
  /\ UNCHANGED <<row, job, seen, remote, hook, call, listener, sweep, tally, used>>

TranscodeQueue ==
  /\ At("transcode", "queue")
  /\ MarkQueued
  /\ Goto("transcode", "toSubmit")
  /\ UNCHANGED <<job, seen, remote, hook, call, listener, sweep, tally, used>>

TranscodeToSubmit ==
  /\ At("transcode", "toSubmit")
  /\ EnqueueOnce("submit")
  /\ Goto("transcode", "done")
  /\ UNCHANGED <<row, seen, remote, hook, call, listener, sweep, tally, used>>

\* onTranscodeError on the last attempt, then the error is rethrown.
MarkPlaybackFailed ==
  IF Exists /\ row.playback \in {"pending", "processing"}
    THEN row' = [row EXCEPT !.playback = "failed"]
    ELSE UNCHANGED row

TranscodeGiveUp ==
  /\ At("transcode", "giveUp")
  /\ MarkPlaybackFailed
  /\ Goto("transcode", "verdict")
  /\ UNCHANGED <<job, seen, remote, hook, call, listener, sweep, tally, used>>

TranscodeVerdict ==
  /\ At("transcode", "verdict")
  /\ Goto("transcode", IF row.ts = "waiting_input" THEN "blame" ELSE "rethrow")
  /\ UNCHANGED <<row, job, seen, remote, hook, call, listener, sweep, tally, used>>

TranscodeBlame ==
  /\ At("transcode", "blame")
  /\ MarkFailed("transcode")
  /\ Goto("transcode", "rethrow")
  /\ UNCHANGED <<job, seen, remote, hook, call, listener, sweep, used>>

TranscodeRethrow ==
  /\ At("transcode", "rethrow")
  /\ HandlerThrows("transcode")
  /\ UNCHANGED <<row, remote, hook, call, sweep, used>>

Transcode == \/ TranscodeLoad \/ TranscodeBroken
             \/ TranscodeOnNode \/ TranscodeNodeResult \/ TranscodeNodeFails
             \/ TranscodeAttach \/ TranscodeWake \/ TranscodeQueue \/ TranscodeToSubmit
             \/ TranscodeGiveUp \/ TranscodeVerdict \/ TranscodeBlame \/ TranscodeRethrow

-------------------------------------------------------------------------------
(* transcript.purge of one transcript                                      *)

\* Mutant of PurgeLoad: the purge insists on the status the owner's request wrote.
PurgeLoadStrict ==
  /\ Starts("purge", IF row.status # "deleting" THEN "done"
                     ELSE IF row.handle # 0 THEN "forgetRemote" ELSE "delete")
  /\ Keep("purge", [NoSnapshot EXCEPT !.handle = row.handle])
  /\ UNCHANGED <<row, remote, hook, call, listener, sweep, tally, used>>

PurgeLoad ==
  /\ Starts("purge", IF ~Exists THEN "done"
                     ELSE IF row.handle # 0 THEN "forgetRemote" ELSE "delete")
  /\ Keep("purge", [NoSnapshot EXCEPT !.handle = row.handle])
  /\ UNCHANGED <<row, remote, hook, call, listener, sweep, tally, used>>

\* Never fatal: the provider deletes its copy or does not answer.
PurgeForgetRemote ==
  /\ At("purge", "forgetRemote")
  /\ \/ remote' = [remote EXCEPT ![seen["purge"].handle] = "deleted"]
     \/ UNCHANGED remote
  /\ Goto("purge", "delete")
  /\ UNCHANGED <<row, job, seen, hook, call, listener, sweep, tally, used>>

PurgeDelete ==
  /\ At("purge", "delete")
  /\ row' = [row EXCEPT !.status = "gone"]
  /\ Goto("purge", "done")
  /\ UNCHANGED <<job, seen, remote, hook, call, listener, sweep, tally, used>>

Purge == PurgeLoad \/ PurgeForgetRemote \/ PurgeDelete

-------------------------------------------------------------------------------
(* The upload hook, once per completion event.                             *)

HookAt(u, p)   == hook[u] = p
HookGoto(u, p) == hook' = [hook EXCEPT ![u] = p]

\* Mutant of HookPromote: the update names the row and not its status.
HookPromoteAlways(u) ==
  /\ HookAt(u, "event")
  /\ IF Live
       THEN row' = [row EXCEPT !.status = "processing"] /\ HookGoto(u, "transcode")
       ELSE UNCHANGED row /\ HookGoto(u, "off")
  /\ UNCHANGED <<job, pc, seen, remote, call, listener, sweep, tally, used>>

\* The promotion is conditional on `uploading`, so a duplicated event promotes once.
HookPromote(u) ==
  /\ HookAt(u, "event")
  /\ IF Live /\ row.status = "uploading"
       THEN row' = [row EXCEPT !.status = "processing"] /\ HookGoto(u, "transcode")
       ELSE UNCHANGED row /\ HookGoto(u, "off")
  /\ UNCHANGED <<job, pc, seen, remote, call, listener, sweep, tally, used>>

HookTranscode(u) ==
  /\ HookAt(u, "transcode")
  /\ IF TranscodeRegistered
       THEN EnqueueOnce("transcode") /\ HookGoto(u, "mark")
       ELSE UNCHANGED job /\ HookGoto(u, "choose")
  /\ UNCHANGED <<row, pc, seen, remote, call, listener, sweep, tally, used>>

\* Conditional on `pending`: the transcode may have finished already.
HookMark(u) ==
  /\ HookAt(u, "mark")
  /\ IF Exists /\ row.playback = "pending"
       THEN row' = [row EXCEPT !.playback = "processing"] ELSE UNCHANGED row
  /\ HookGoto(u, "choose")
  /\ UNCHANGED <<job, pc, seen, remote, call, listener, sweep, tally, used>>

\* An administrator turned transcription off while the file was uploading.
HookUnconfigured(u) ==
  /\ HookAt(u, "choose")
  /\ MarkFailed("transcription")
  /\ HookGoto(u, "off")
  /\ UNCHANGED <<job, pc, seen, remote, call, listener, sweep, used>>

\* Mutant of HookChoose: a file nothing can be done with is left waiting.
HookChooseWaits(u) ==
  /\ HookAt(u, "choose") /\ Exists
  /\ row' = [row EXCEPT !.ts = "waiting_input"]
  /\ HookGoto(u, "off")
  /\ UNCHANGED <<job, pc, seen, remote, call, listener, sweep, tally, used>>

HookChoose(u) ==
  LET kind == SelectTranscriptionInput(AudioDelivery, row.original, {},
                                       TranscodeRegistered) IN
  /\ HookAt(u, "choose")
  /\ \/ kind = "original" /\ HookGoto(u, "queue") /\ UNCHANGED <<row, tally>>
     \/ kind = "impossible" /\ MarkFailed("transcription") /\ HookGoto(u, "off")
     \/ kind = "wait" /\ Exists /\ row' = [row EXCEPT !.ts = "waiting_input"]
        /\ HookGoto(u, "off") /\ UNCHANGED tally
  /\ UNCHANGED <<job, pc, seen, remote, call, listener, sweep, used>>

HookQueue(u) ==
  /\ HookAt(u, "queue")
  /\ MarkQueued
  /\ HookGoto(u, "toSubmit")
  /\ UNCHANGED <<job, pc, seen, remote, call, listener, sweep, tally, used>>

HookToSubmit(u) ==
  /\ HookAt(u, "toSubmit")
  /\ EnqueueOnce("submit")
  /\ HookGoto(u, "off")
  /\ UNCHANGED <<row, pc, seen, remote, call, listener, sweep, tally, used>>

\* handleUploaded catches whatever start() throws and fails the transcript; what that
\* throws in its turn is logged.
HookThrows(u) ==
  /\ hook[u] # "off"
  /\ \/ used.faults < MaxFaults /\ used' = [used EXCEPT !.faults = @ + 1]
     \/ ~Exists /\ hook[u] \in {"choose", "queue"} /\ UNCHANGED used
  /\ HookGoto(u, IF hook[u] = "abort" THEN "off" ELSE "abort")
  /\ UNCHANGED <<row, job, pc, seen, remote, call, listener, sweep, tally>>

HookAbort(u) ==
  /\ HookAt(u, "abort")
  /\ MarkFailed("upload")
  /\ HookGoto(u, "off")
  /\ UNCHANGED <<job, pc, seen, remote, call, listener, sweep, used>>

Hook(u) == \/ HookPromote(u) \/ HookTranscode(u) \/ HookMark(u) \/ HookUnconfigured(u)
           \/ HookChoose(u) \/ HookQueue(u) \/ HookToSubmit(u) \/ HookAbort(u)

-------------------------------------------------------------------------------
(* The owner's requests.  A request that is refused changes nothing.       *)

CallAt(c, p)   == call[c].pc = p
CallGoto(c, p) == call' = [call EXCEPT ![c].pc = p]
CallEnds(c)    == call' = [call EXCEPT ![c] = NoCall]

Begin(c, op, p) ==
  /\ call[c] = NoCall
  /\ op \in OwnerCalls /\ used.calls < MaxCalls
  /\ Live
  /\ call' = [call EXCEPT ![c] = [pc |-> p, handle |-> row.handle,
                                  cancelled |-> row.ts = "cancelled"]]
  /\ used' = [used EXCEPT !.calls = @ + 1]
  /\ UNCHANGED <<row, job, pc, seen, remote, hook, listener, sweep, tally>>

RetryBegins(c) ==
  /\ row.status \notin {"deleting", "ready", "uploading"}
  /\ Begin(c, "retry", "reopen")

RetryReopens(c) ==
  /\ CallAt(c, "reopen") /\ Exists
  /\ row' = [row EXCEPT !.status = "processing"]
  /\ tally' = IF row.status = "failed" THEN [tally EXCEPT !.reopened = @ + 1] ELSE tally
  /\ CallGoto(c, IF call[c].handle # 0 /\ ~call[c].cancelled THEN "resume" ELSE "clear")
  /\ UNCHANGED <<job, pc, seen, remote, hook, listener, sweep, used>>

\* The provider already has the job: poll it again.
RetryResumes(c) ==
  /\ CallAt(c, "resume") /\ Exists
  /\ row' = [row EXCEPT !.ts = "submitted"]
  /\ CallGoto(c, "poll")
  /\ UNCHANGED <<job, pc, seen, remote, hook, listener, sweep, tally, used>>

RetryPolls(c) ==
  /\ CallAt(c, "poll")
  /\ EnqueuePoll
  /\ CallEnds(c)
  /\ UNCHANGED <<row, pc, seen, remote, hook, listener, sweep, tally, used>>

\* Never submitted, or cancelled: the handle and submittedAt are cleared.
RetryClears(c) ==
  /\ CallAt(c, "clear") /\ Exists
  /\ row' = [row EXCEPT !.handle = 0, !.overdue = FALSE]
  /\ tally' = IF row.handle # 0 THEN [tally EXCEPT !.forgotten = @ + 1] ELSE tally
  /\ CallGoto(c, "queue")
  /\ UNCHANGED <<job, pc, seen, remote, hook, listener, sweep, used>>

RetryQueues(c) ==
  /\ CallAt(c, "queue")
  /\ MarkQueued
  /\ CallGoto(c, "toSubmit")
  /\ UNCHANGED <<job, pc, seen, remote, hook, listener, sweep, tally, used>>

RetrySubmits(c) ==
  /\ CallAt(c, "toSubmit")
  /\ EnqueueOnce("submit")
  /\ CallEnds(c)
  /\ UNCHANGED <<row, pc, seen, remote, hook, listener, sweep, tally, used>>

CancelBegins(c) ==
  /\ row.status \notin {"ready", "deleting"}
  /\ Begin(c, "cancel", IF row.handle # 0 THEN "stopRemote" ELSE "cancel")

\* Providers without a cancel capability, or one that does not answer, run on.
CancelStopsRemote(c) ==
  /\ CallAt(c, "stopRemote")
  /\ \/ /\ remote[call[c].handle] = "running"
        /\ remote' = [remote EXCEPT ![call[c].handle] = "failed"]
     \/ UNCHANGED remote
  /\ CallGoto(c, "cancel")
  /\ UNCHANGED <<row, job, pc, seen, hook, listener, sweep, tally, used>>

CancelWrites(c) ==
  /\ CallAt(c, "cancel") /\ Exists
  /\ row' = [row EXCEPT !.status = "failed", !.ts = "cancelled"]
  /\ CallEnds(c)
  /\ UNCHANGED <<job, pc, seen, remote, hook, listener, sweep, tally, used>>

RemoveBegins(c) ==
  /\ row.status # "deleting"
  /\ Begin(c, "remove", "delete")

RemoveDeletes(c) ==
  /\ CallAt(c, "delete") /\ Exists
  /\ row' = [row EXCEPT !.status = "deleting", !.deleted = TRUE]
  /\ CallGoto(c, "toPurge")
  /\ UNCHANGED <<job, pc, seen, remote, hook, listener, sweep, tally, used>>

RemovePurges(c) ==
  /\ CallAt(c, "toPurge")
  /\ EnqueueOnce("purge")
  /\ CallEnds(c)
  /\ UNCHANGED <<row, pc, seen, remote, hook, listener, sweep, tally, used>>

\* The request fails half-way: a fault, or the row it updates is gone.
CallThrows(c) ==
  /\ call[c] # NoCall
  /\ \/ used.faults < MaxFaults /\ used' = [used EXCEPT !.faults = @ + 1]
     \/ ~Exists /\ call[c].pc \notin {"poll", "toSubmit", "toPurge", "stopRemote"}
        /\ UNCHANGED used
  /\ CallEnds(c)
  /\ UNCHANGED <<row, job, pc, seen, remote, hook, listener, sweep, tally>>

CallBegins(c) == RetryBegins(c) \/ CancelBegins(c) \/ RemoveBegins(c)

CallStep(c) == \/ RetryReopens(c) \/ RetryResumes(c) \/ RetryPolls(c) \/ RetryClears(c)
               \/ RetryQueues(c) \/ RetrySubmits(c)
               \/ CancelStopsRemote(c) \/ CancelWrites(c)
               \/ RemoveDeletes(c) \/ RemovePurges(c)

-------------------------------------------------------------------------------
(* TranscriptJobFailureListener: a detached reconcile per exhausted row.   *)

PipelineSlots == PipelineTypes \cup PollSlots

OtherPipelineJobActive == \E s \in PipelineSlots : Active(s)

\* Mutant of ListenerCheck: the status of the transcript is not looked at.
ListenerCheckBlind(s) ==
  /\ listener[s] = "check"
  /\ listener' = [listener EXCEPT ![s] =
       IF Live /\ ~OtherPipelineJobActive THEN "write" ELSE "none"]
  /\ UNCHANGED <<row, job, pc, seen, remote, hook, call, sweep, tally, used>>

ListenerCheck(s) ==
  /\ listener[s] = "check"
  /\ listener' = [listener EXCEPT ![s] =
       IF Live /\ row.status = "processing" /\ ~OtherPipelineJobActive THEN "write" ELSE "none"]
  /\ UNCHANGED <<row, job, pc, seen, remote, hook, call, sweep, tally, used>>

ListenerWrite(s) ==
  /\ listener[s] = "write"
  /\ IF s = "transcode"
       THEN /\ MarkPlaybackFailed /\ UNCHANGED tally
            /\ listener' = [listener EXCEPT ![s] = "verdict"]
       ELSE /\ MarkFailed(Stage(s))
            /\ listener' = [listener EXCEPT ![s] = "none"]
  /\ UNCHANGED <<job, pc, seen, remote, hook, call, sweep, used>>

ListenerVerdict(s) ==
  /\ listener[s] = "verdict"
  /\ listener' = [listener EXCEPT ![s] = IF row.ts = "waiting_input" THEN "blame" ELSE "none"]
  /\ UNCHANGED <<row, job, pc, seen, remote, hook, call, sweep, tally, used>>

ListenerBlame(s) ==
  /\ listener[s] = "blame"
  /\ MarkFailed("transcode")
  /\ listener' = [listener EXCEPT ![s] = "none"]
  /\ UNCHANGED <<job, pc, seen, remote, hook, call, sweep, used>>

Listener(s) == \/ ListenerCheck(s) \/ ListenerWrite(s)
               \/ ListenerVerdict(s) \/ ListenerBlame(s)

\* The detached reconcile rejects: the error is logged, and nothing tries again.
ListenerThrows(s) ==
  /\ listener[s] # "none"
  /\ used.faults < MaxFaults /\ used' = [used EXCEPT !.faults = @ + 1]
  /\ listener' = [listener EXCEPT ![s] = "none"]
  /\ UNCHANGED <<row, job, pc, seen, remote, hook, call, sweep, tally>>

-------------------------------------------------------------------------------
(* Step 1 of transcripts.housekeeping: restart a lost poll chain.          *)

WaitsOnProvider ==
  /\ Live /\ row.status = "processing"
  /\ row.ts \in {"submitted", "processing"} /\ row.handle # 0

SweepFinds ==
  /\ Sweeps /\ sweep = "idle" /\ WaitsOnProvider
  /\ sweep' = "found"
  /\ UNCHANGED <<row, job, pc, seen, remote, hook, call, listener, tally, used>>

SweepChecks ==
  /\ sweep = "found"
  /\ sweep' = IF \E s \in PollSlots : Active(s) THEN "idle" ELSE "lost"
  /\ UNCHANGED <<row, job, pc, seen, remote, hook, call, listener, tally, used>>

SweepRestarts ==
  /\ sweep = "lost"
  /\ EnqueuePoll
  /\ sweep' = "idle"
  /\ UNCHANGED <<row, pc, seen, remote, hook, call, listener, tally, used>>

Sweep == SweepFinds \/ SweepChecks \/ SweepRestarts

\* Step 1 failed: the other steps of the sweep run, and the next sweep starts over.
SweepThrows ==
  /\ sweep # "idle"
  /\ used.faults < MaxFaults /\ used' = [used EXCEPT !.faults = @ + 1]
  /\ sweep' = "idle"
  /\ UNCHANGED <<row, job, pc, seen, remote, hook, call, listener, tally>>

-------------------------------------------------------------------------------
(* The provider, the clock, and the death of the process.                  *)

RemoteFinishes ==
  /\ \E h \in 1..Len(remote), outcome \in {"completed", "failed"} :
       remote[h] = "running" /\ remote' = [remote EXCEPT ![h] = outcome]
  /\ UNCHANGED <<row, job, pc, seen, hook, call, listener, sweep, tally, used>>

DeadlinePasses ==
  /\ used.expiries < MaxExpiries
  /\ Live /\ row.handle # 0 /\ ~row.overdue /\ row.status \in {"processing", "failed"}
  /\ row' = [row EXCEPT !.overdue = TRUE]
  /\ used' = [used EXCEPT !.expiries = @ + 1]
  /\ UNCHANGED <<job, pc, seen, remote, hook, call, listener, sweep, tally>>

\* One process holds the worker, the requests, the hook, the listener and the sweep.
Crash ==
  /\ used.crashes < MaxCrashes
  /\ used' = [used EXCEPT !.crashes = @ + 1]
  /\ AbandonAll
  /\ pc' = [s \in Slots |-> "idle"]
  /\ seen' = [s \in Slots |-> NoSnapshot]
  /\ hook' = [u \in Uploads |-> IF hook[u] = "event" THEN "event" ELSE "off"]
  /\ call' = [c \in Callers |-> NoCall]
  /\ listener' = [s \in Slots |-> "none"]
  /\ sweep' = "idle"
  /\ tally' = IF pc["submit"] = "record" THEN [tally EXCEPT !.lost = @ + 1] ELSE tally
  /\ UNCHANGED <<row, remote>>

-------------------------------------------------------------------------------

Init ==
  /\ \E original \in Originals :
       row = [original |-> original, status |-> "uploading", ts |-> "waiting_input",
              playback |-> "pending", handle |-> 0, version |-> 0,
              deleted |-> FALSE, overdue |-> FALSE]
  /\ QueueInit
  /\ pc = [s \in Slots |-> "idle"]
  /\ seen = [s \in Slots |-> NoSnapshot]
  /\ remote = <<>>
  /\ hook = [u \in Uploads |-> "event"]
  /\ call = [c \in Callers |-> NoCall]
  /\ listener = [s \in Slots |-> "none"]
  /\ sweep = "idle"
  /\ tally = [ready |-> 0, failed |-> 0, lost |-> 0, reopened |-> 0, forgotten |-> 0]
  /\ used = [crashes |-> 0, faults |-> 0, limits |-> 0, expiries |-> 0, calls |-> 0]

\* The worker and the reaper.
Worker(s) == Finish(s) \/ UpdateRefused(s) \/ Refuse(s) \/ Reap(s)

Handler(s) == \/ s = "submit" /\ Submit
              \/ s = "ingest" /\ Ingest
              \/ s = "transcode" /\ Transcode
              \/ s = "purge" /\ Purge
              \/ s \in PollSlots /\ Poll(s)

Faults == \/ \E s \in Slots : Throw(s) \/ RateLimited(s) \/ ListenerThrows(s)
          \/ SweepThrows
          \/ \E u \in Uploads : HookThrows(u)
          \/ \E c \in Callers : CallThrows(c)
          \/ Crash

Next == \/ \E s \in Slots : Handler(s) \/ Worker(s) \/ Listener(s)
        \/ \E u \in Uploads : Hook(u)
        \/ \E c \in Callers : CallBegins(c) \/ CallStep(c)
        \/ Sweep
        \/ RemoteFinishes \/ DeadlinePasses
        \/ Faults

Spec == Init /\ [][Next]_vars

\* The worker, the requests, the hook and the detached listeners are run to their end, and
\* time passes.  No fairness is asked of the provider, the owner or the faults.
Fairness ==
  /\ \A s \in Slots : WF_vars(Handler(s) \/ Worker(s)) /\ WF_vars(Listener(s))
  /\ \A u \in Uploads : WF_vars(Hook(u))
  /\ \A c \in Callers : WF_vars(CallStep(c))
  /\ WF_vars(Sweep)
  /\ WF_vars(DeadlinePasses)

FairSpec == Spec /\ Fairness

-------------------------------------------------------------------------------
(* Properties.                                                             *)

Tally == [ready : Nat, failed : Nat, lost : Nat, reopened : Nat, forgotten : Nat]
Used  == [crashes : Nat, faults : Nat, limits : Nat, expiries : Nat, calls : Nat]

\* Every variable holds the kind of value its column, its queue row or its await can hold.
TypeOK ==
  /\ row \in Row
  /\ job \in [Slots -> JobRow]
  /\ pc \in [Slots -> PCs]
  /\ seen \in [Slots -> Snapshots]
  /\ remote \in Seq(RemoteStates)
  /\ hook \in [Uploads -> HookPCs]
  /\ call \in [Callers -> Calls]
  /\ listener \in [Slots -> {"none", "check", "write", "verdict", "blame"}]
  /\ sweep \in {"idle", "found", "lost"}
  /\ tally \in Tally
  /\ used \in Used

\* The re-entry check of the ingest handler and the unique (transcript, version): however
\* often the queue delivers an ingest, the owner is told at most once that the text is there.
ToldReadyOnce == tally.ready <= 1

\* Property 1 of transcription.submit: one recording is one provider job.  A second one
\* exists only if an answer was lost before it was recorded, or a retry gave a handle up.
PaidOnce == Len(remote) <= 1 + tally.lost + tally.forgotten

\* markFailed is conditional in its UPDATE: two stages that fail one transcript at the same
\* moment send one notice.  Another needs the transcript to have left `failed`: the owner
\* reopened it, or an ingest in flight, which does not look at the status, made it ready.
FailureToldOnce == tally.failed <= 1 + tally.reopened + row.version

\* enqueuePoll skips dedup: nothing but the chain itself keeps it single.  While no process has
\* died, at most one poll row is not finishing.
OnePollChain ==
  used.crashes = 0 =>
  \A s, k \in PollSlots : s # k /\ Active(s) /\ Active(k) => "done" \in {pc[s], pc[k]}

\* A finished transcript stays finished until its owner removes it; a process that has died may
\* have left a second chain.
ReadyIsFinal ==
  [][used.crashes = 0 /\ row.status = "ready" => row'.status \in {"ready", "deleting"}]_vars

HooksOff     == \A u \in Uploads : hook[u] = "off"
NoCallOpen   == \A c \in Callers : call[c] = NoCall
NothingHeard == \A s \in Slots : listener[s] = "none"

\* No transcript says it is working while nothing is left that could change it: no job, no
\* hook, no request, no listener, no sweep that would find it.
NotStranded ==
  (Live /\ row.status = "processing" /\ HooksOff /\ NoCallOpen /\ NothingHeard)
     => OtherPipelineJobActive \/ sweep # "idle" \/ (Sweeps /\ WaitsOnProvider)

\* Every transcript whose upload finished stops saying it is working.
Settles == row.status = "processing" ~> row.status # "processing"

\* What its owner removed is gone in the end.
DeletionCompletes == row.deleted ~> row.status = "gone"

\* The queue runs dry: no chain polls for ever, no job is put back for ever.
JobsDrain == <>[](\A s \in Slots : ~Active(s))
===============================================================================
