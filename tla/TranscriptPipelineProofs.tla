------------------------ MODULE TranscriptPipelineProofs ------------------------
(***************************************************************************)
(* What holds of TranscriptPipeline for every number of poll rows, events, *)
(* tabs, faults, crashes and requests, every attempt budget and every      *)
(* choice of files.                                                        *)
(*                                                                         *)
(* Five invariants and an action property are proved, each from an         *)
(* inductive strengthening that says where the writers stand:              *)
(*   ToldInv   an ingest between its commit and its notice is the first;   *)
(*   PaidInv   a submit in front of the provider has no job to its name;   *)
(*   FailInv   a transcript that may still fail has a notice left;         *)
(*   ChainInv  one job carries the transcript on, or a hook is about to    *)
(*             start one, and never both (no retry, no crash);             *)
(*   FinalInv  whoever could still fail the transcript has gone before it  *)
(*             is ready (one event, no request, no crash);                 *)
(*   Going     what the job, the hook or the listener that carries a       *)
(*             transcript on still finds in its row (no fault, no crash).  *)
(* Each rests on the types, which are inductive only together with         *)
(* JobsCharged: a running job has been charged for its attempt.            *)
(***************************************************************************)
EXTENDS TranscriptPipeline, SequenceTheorems, TLAPS

\* The queue charges a row when it is claimed, so a 429 has an attempt to give back.
JobsCharged == \A s \in Slots : Running(s) => job[s].attempts >= 1

Types == TypeOK /\ JobsCharged

\* The slots the handlers run in, and that no poll slot is one of the four others.
LEMMA SlotFacts ==
  /\ {"submit", "ingest", "transcode", "purge"} \subseteq Slots
  /\ PollSlots \subseteq Slots
  /\ PollSlots \cap {"submit", "ingest", "transcode", "purge"} = {}
BY SlotsAssumption DEF PipelineTypes

\* The part of Types the queue's operations keep by themselves.
JobsOK == job \in [Slots -> JobRow] /\ JobsCharged

\* Each operation of the queue keeps its rows well formed and every running row charged:
\* a fresh row starts pending,
LEMMA EnqueueJobs ==
  ASSUME JobsOK, NEW s \in Slots, Enqueue(s) PROVE JobsOK'
BY DEF JobsOK, JobsCharged, Enqueue, Active, Running, NoJob, JobRow

\* an enqueue that merges into an active row changes nothing,
LEMMA EnqueueOnceJobs ==
  ASSUME JobsOK, NEW s \in Slots, EnqueueOnce(s) PROVE JobsOK'
BY EnqueueJobs DEF EnqueueOnce, JobsOK, JobsCharged, Running

\* the enqueue of a poll takes some free slot,
LEMMA EnqueuePollJobs ==
  ASSUME JobsOK, EnqueuePoll PROVE JobsOK'
BY EnqueueJobs, SlotFacts DEF EnqueuePoll

\* a claim charges the attempt,
LEMMA ClaimJobs ==
  ASSUME JobsOK, NEW s \in Slots, ClaimJob(s) PROVE JobsOK'
BY DEF JobsOK, JobsCharged, ClaimJob, Running, JobRow

\* a job that returned leaves no row,
LEMMA CompleteJobs ==
  ASSUME JobsOK, NEW s \in Slots, Complete(s) PROVE JobsOK'
BY DEF JobsOK, JobsCharged, Complete, Running, NoJob, JobRow

\* a job that failed goes back to pending or leaves no row,
LEMMA FailJobs ==
  ASSUME JobsOK, NEW s \in Slots, Fail(s) PROVE JobsOK'
BY DEF JobsOK, JobsCharged, Fail, Exhausted, Running, NoJob, JobRow

\* a 429 gives back an attempt that was charged,
LEMMA DeferJobs ==
  ASSUME JobsOK, NEW s \in Slots, Defer(s) PROVE JobsOK'
BY DEF JobsOK, JobsCharged, Defer, Running, NoJob, JobRow

\* the death of the process leaves nothing running,
LEMMA AbandonJobs ==
  ASSUME JobsOK, AbandonAll PROVE JobsOK'
BY DEF JobsOK, JobsCharged, AbandonAll, Running, JobRow

\* and a step that does not touch the queue keeps both.
LEMMA UnchangedJobs ==
  ASSUME JobsOK, UNCHANGED job PROVE JobsOK'
BY DEF JobsOK, JobsCharged, Running

\* Overwriting one element of a sequence keeps its length and the set of its elements.
LEMMA ReplaceInSeq ==
  ASSUME NEW S, NEW q \in Seq(S), NEW i \in Nat, NEW x \in S
  PROVE  [q EXCEPT ![i] = x] \in Seq(S) /\ Len([q EXCEPT ![i] = x]) = Len(q)
<1> DEFINE r == [q EXCEPT ![i] = x]
<1>1. q \in [1..Len(q) -> S] /\ Len(q) \in Nat OBVIOUS
<1>2. r \in [1..Len(q) -> S] BY <1>1
<1>3. r \in Seq(S) BY <1>1, <1>2, SeqDef
<1>4. DOMAIN r = 1..Len(r) /\ Len(r) \in Nat BY <1>3
<1>5. DOMAIN r = 1..Len(q) BY <1>2
<1>6. Len(r) = Len(q) BY <1>1, <1>4, <1>5
<1> QED BY <1>3, <1>6

\* What a handler reads of the row at its load is a snapshot.
LEMMA SnapshotTypes == ASSUME Types PROVE Snapshot \in Snapshots /\ NoSnapshot \in Snapshots
BY DEF Types, TypeOK, Row, Snapshot, Snapshots, NoSnapshot, TStatuses, Playbacks

\* Moving a handler to one of its steps keeps the type of pc,
LEMMA GotoTypes ==
  ASSUME Types, NEW s \in Slots, NEW p \in PCs, Goto(s, p)
  PROVE  pc' \in [Slots -> PCs]
BY DEF Types, TypeOK, Goto

\* remembering a snapshot keeps the type of seen,
LEMMA KeepTypes ==
  ASSUME Types, NEW s \in Slots, NEW x \in Snapshots, Keep(s, x)
  PROVE  seen' \in [Slots -> Snapshots]
BY DEF Types, TypeOK, Keep

\* and ending a handler keeps both.
LEMMA ResetTypes ==
  ASSUME Types, NEW s \in Slots, Reset(s)
  PROVE  pc' \in [Slots -> PCs] /\ seen' \in [Slots -> Snapshots]
BY GotoTypes, KeepTypes, SnapshotTypes DEF Reset, PCs

\* The listener of failed jobs starts at its check.
LEMMA HeardByTypes ==
  ASSUME Types, NEW s \in Slots, HeardBy(s)
  PROVE  listener' \in [Slots -> {"none", "check", "write", "verdict", "blame"}]
BY DEF Types, TypeOK, HeardBy

\* One more in the history is still a count.
LEMMA TallyTypes ==
  ASSUME Types
  PROVE  /\ tally \in Tally
         /\ [tally EXCEPT !.ready = @ + 1] \in Tally
         /\ [tally EXCEPT !.failed = @ + 1] \in Tally
         /\ [tally EXCEPT !.lost = @ + 1] \in Tally
         /\ [tally EXCEPT !.reopened = @ + 1] \in Tally
         /\ [tally EXCEPT !.forgotten = @ + 1] \in Tally
<1>1. tally \in Tally BY DEF Types, TypeOK
<1>2. [tally EXCEPT !.ready = @ + 1] \in Tally BY <1>1 DEF Tally
<1>3. [tally EXCEPT !.failed = @ + 1] \in Tally BY <1>1 DEF Tally
<1>4. [tally EXCEPT !.lost = @ + 1] \in Tally BY <1>1 DEF Tally
<1>5. [tally EXCEPT !.reopened = @ + 1] \in Tally BY <1>1 DEF Tally
<1>6. [tally EXCEPT !.forgotten = @ + 1] \in Tally BY <1>1 DEF Tally
<1> QED BY <1>1, <1>2, <1>3, <1>4, <1>5, <1>6

\* Spending one unit of a bound is still a count.
LEMMA UsedTypes ==
  ASSUME Types
  PROVE  /\ used \in Used
         /\ [used EXCEPT !.crashes = @ + 1] \in Used
         /\ [used EXCEPT !.faults = @ + 1] \in Used
         /\ [used EXCEPT !.limits = @ + 1] \in Used
         /\ [used EXCEPT !.expiries = @ + 1] \in Used
         /\ [used EXCEPT !.calls = @ + 1] \in Used
<1>1. used \in Used BY DEF Types, TypeOK
<1>2. [used EXCEPT !.crashes = @ + 1] \in Used BY <1>1 DEF Used
<1>3. [used EXCEPT !.faults = @ + 1] \in Used BY <1>1 DEF Used
<1>4. [used EXCEPT !.limits = @ + 1] \in Used BY <1>1 DEF Used
<1>5. [used EXCEPT !.expiries = @ + 1] \in Used BY <1>1 DEF Used
<1>6. [used EXCEPT !.calls = @ + 1] \in Used BY <1>1 DEF Used
<1> QED BY <1>1, <1>2, <1>3, <1>4, <1>5, <1>6

\* markFailed writes columns that may hold what it writes.
LEMMA MarkFailedTypes ==
  ASSUME Types, NEW stage, MarkFailed(stage)
  PROVE  row' \in Row /\ tally' \in Tally
<1>1. row' \in Row BY DEF Types, TypeOK, MarkFailed, Row, Statuses, TStatuses
<1>2. tally' \in Tally BY TallyTypes DEF MarkFailed
<1> QED BY <1>1, <1>2

\* markFailed touches neither the version, the handle nor the history of the other notices.
LEMMA MarkFailedKeeps ==
  ASSUME Types, NEW stage, MarkFailed(stage)
  PROVE  /\ row'.version = row.version /\ row'.handle = row.handle
         /\ tally'.ready = tally.ready /\ tally'.lost = tally.lost
         /\ tally'.forgotten = tally.forgotten
<1>1. row'.version = row.version /\ row'.handle = row.handle
  BY DEF MarkFailed, Types, TypeOK, Row
<1>2. tally'.ready = tally.ready /\ tally'.lost = tally.lost
      /\ tally'.forgotten = tally.forgotten
  BY DEF MarkFailed, Types, TypeOK, Tally
<1> QED BY <1>1, <1>2

\* A throw that reaches the queue keeps every variable it writes well typed,
LEMMA HandlerThrowsTypes ==
  ASSUME Types, NEW s \in Slots, HandlerThrows(s)
  PROVE  /\ JobsOK'
         /\ pc' \in [Slots -> PCs] /\ seen' \in [Slots -> Snapshots]
         /\ listener' \in [Slots -> {"none", "check", "write", "verdict", "blame"}]
         /\ tally' \in Tally
<1>1. JobsOK' BY FailJobs DEF HandlerThrows, Types, TypeOK, JobsOK
<1>2. tally' \in Tally BY TallyTypes DEF HandlerThrows
<1> QED BY <1>1, <1>2, ResetTypes, HeardByTypes DEF HandlerThrows

\* and so does one the transcode handler catches.
LEMMA ThrowStepTypes ==
  ASSUME Types, NEW s \in Slots, ThrowStep(s)
  PROVE  /\ JobsOK'
         /\ pc' \in [Slots -> PCs] /\ seen' \in [Slots -> Snapshots]
         /\ listener' \in [Slots -> {"none", "check", "write", "verdict", "blame"}]
         /\ tally' \in Tally
<1>1. CASE Goto(s, "giveUp") /\ UNCHANGED <<job, seen, listener, tally>>
  BY <1>1, GotoTypes, UnchangedJobs DEF Types, TypeOK, JobsOK, PCs
<1>2. CASE HandlerThrows(s) BY <1>2, HandlerThrowsTypes
<1> QED BY <1>1, <1>2 DEF ThrowStep

\* The steps of transcription.submit.
LEMMA SubmitTypes == ASSUME Types, Submit PROVE Types'
<1> USE SlotFacts
<1>j. JobsOK BY DEF Types, TypeOK, JobsOK
<1>1. CASE SubmitLoad
  <2>1. JobsOK' BY <1>1, <1>j, ClaimJobs DEF SubmitLoad, Starts
  <2>2. pc' \in [Slots -> PCs] BY <1>1 DEF SubmitLoad, Starts, Goto, Types, TypeOK, PCs
  <2>0. UNCHANGED seen \/ Keep("submit", Snapshot) BY <1>1 DEF SubmitLoad
  <2>3. seen' \in [Slots -> Snapshots] BY <2>0, SnapshotTypes DEF Keep, Types, TypeOK
  <2> QED BY <1>1, <2>1, <2>2, <2>3 DEF SubmitLoad, Types, TypeOK, JobsOK
<1>2. CASE SubmitWaits
  <2>1. JobsOK' BY <1>2, <1>j, UnchangedJobs DEF SubmitWaits
  <2> QED BY <1>2, <2>1 DEF SubmitWaits, Goto, Types, TypeOK, JobsOK, PCs, Row, TStatuses
<1>3. CASE SubmitSelects
  <2>1. JobsOK' BY <1>3, <1>j, UnchangedJobs DEF SubmitSelects
  <2> QED BY <1>3, <2>1 DEF SubmitSelects, Goto, Types, TypeOK, JobsOK, PCs, Row, TStatuses
<1>4. CASE SubmitAccepted
  <2> DEFINE answer == [seen["submit"] EXCEPT !.handle = Len(remote) + 1]
  <2>1. JobsOK' BY <1>4, <1>j, UnchangedJobs DEF SubmitAccepted
  <2>2. remote' \in Seq(RemoteStates) BY <1>4 DEF SubmitAccepted, Types, TypeOK, RemoteStates
  <2>3. answer \in Snapshots
    <3>1. seen["submit"] \in Snapshots BY DEF Types, TypeOK
    <3>2. Len(remote) + 1 \in Nat BY DEF Types, TypeOK
    <3> QED BY <3>1, <3>2 DEF Snapshots
  <2>4. Keep("submit", answer) BY <1>4 DEF SubmitAccepted
  <2>5. seen' \in [Slots -> Snapshots] BY <2>3, <2>4, KeepTypes
  <2> QED BY <1>4, <2>1, <2>2, <2>5 DEF SubmitAccepted, Goto, Types, TypeOK, JobsOK, PCs
<1>5. CASE SubmitAnswerLost
  <2>1. JobsOK' BY <1>5, <1>j, FailJobs DEF SubmitAnswerLost
  <2>2. remote' \in Seq(RemoteStates) BY <1>5 DEF SubmitAnswerLost, Types, TypeOK, RemoteStates
  <2>3. tally' \in Tally BY <1>5, TallyTypes DEF SubmitAnswerLost
  <2>4. used' \in Used BY <1>5, UsedTypes DEF SubmitAnswerLost
  <2> QED BY <1>5, <2>1, <2>2, <2>3, <2>4, ResetTypes, HeardByTypes DEF SubmitAnswerLost, Types, TypeOK, JobsOK
<1>6. CASE SubmitRecord
  <2>1. JobsOK' BY <1>6, <1>j, UnchangedJobs DEF SubmitRecord
  <2> QED BY <1>6, <2>1 DEF SubmitRecord, Goto, Types, TypeOK, JobsOK, PCs, Snapshots, Row, TStatuses
<1>7. CASE SubmitFirstPoll
  <2>1. JobsOK' BY <1>7, <1>j, EnqueuePollJobs DEF SubmitFirstPoll
  <2> QED BY <1>7, <2>1 DEF SubmitFirstPoll, Goto, Types, TypeOK, JobsOK, PCs
<1> QED BY <1>1, <1>2, <1>3, <1>4, <1>5, <1>6, <1>7 DEF Submit

\* The steps of transcription.poll.
LEMMA PollTypes ==
  ASSUME Types, NEW s \in PollSlots, Poll(s) PROVE Types'
<1> USE SlotFacts
<1>j. JobsOK BY DEF Types, TypeOK, JobsOK
<1>s. s \in Slots /\ seen[s] \in Snapshots BY DEF Types, TypeOK
<1>1. CASE PollLoad(s)
  <2>1. JobsOK' BY <1>1, <1>j, ClaimJobs DEF PollLoad, Starts
  <2>2. pc' \in [Slots -> PCs]
    BY <1>1 DEF PollLoad, Starts, Goto, PCs, Types, TypeOK
  <2>3. UNCHANGED seen \/ Keep(s, [Snapshot EXCEPT !.playback = "pending"])
    BY <1>1 DEF PollLoad
  <2>4. [Snapshot EXCEPT !.playback = "pending"] \in Snapshots
    BY SnapshotTypes DEF Snapshots, Playbacks
  <2>5. seen' \in [Slots -> Snapshots]
    BY <2>3, <2>4, KeepTypes DEF Types, TypeOK
  <2> QED
    BY <1>1, <2>1, <2>2, <2>3, <2>4, <2>5
    DEF PollLoad, Types, TypeOK, JobsOK
<1>2. CASE PollAsk(s)
  <2>1. JobsOK' BY <1>2, <1>j, UnchangedJobs DEF PollAsk
  <2>2. \A ts \in {seen[s].ts, "processing"} : [seen[s] EXCEPT !.ts = ts] \in Snapshots
    BY <1>s DEF Snapshots, TStatuses
  <2>3. UNCHANGED seen \/ \E ts \in {seen[s].ts, "processing"} : Keep(s, [seen[s] EXCEPT !.ts = ts])
    BY <1>2 DEF PollAsk
  <2>4. seen' \in [Slots -> Snapshots]
    BY <2>2, <2>3, KeepTypes DEF Types, TypeOK
  <2>5. pc' \in [Slots -> PCs]
    BY <1>2 DEF PollAsk, Goto, PCs, Types, TypeOK
  <2> QED
    BY <1>2, <2>1, <2>2, <2>3, <2>4, <2>5
    DEF PollAsk, Types, TypeOK, JobsOK
<1>3. CASE PollComplete(s)
  <2>1. JobsOK' BY <1>3, <1>j, UnchangedJobs DEF PollComplete
  <2>2. row' \in Row
    BY <1>3 DEF PollComplete, Types, TypeOK, Row, Statuses, TStatuses, Playbacks
  <2> QED
    BY <1>3, <2>1, <2>2
    DEF PollComplete, Goto, PCs, Types, TypeOK, JobsOK
<1>4. CASE PollToIngest(s)
  <2>1. JobsOK' BY <1>4, <1>j, EnqueueOnceJobs DEF PollToIngest
  <2> QED
    BY <1>4, <2>1
    DEF PollToIngest, Goto, PCs, Types, TypeOK, JobsOK
<1>5. CASE PollNote(s)
  <2>1. JobsOK' BY <1>5, <1>j, UnchangedJobs DEF PollNote
  <2>2. row' \in Row
    BY <1>5, <1>s DEF PollNote, Snapshots, Types, TypeOK, Row
  <2> QED
    BY <1>5, <2>1, <2>2
    DEF PollNote, Goto, PCs, Types, TypeOK, JobsOK
<1>6. CASE PollNext(s)
  <2>1. JobsOK' BY <1>6, <1>j, EnqueuePollJobs DEF PollNext
  <2> QED
    BY <1>6, <2>1
    DEF PollNext, Goto, PCs, Types, TypeOK, JobsOK
<1> QED BY <1>1, <1>2, <1>3, <1>4, <1>5, <1>6 DEF Poll

\* The steps of transcription.ingest.
LEMMA IngestTypes ==
  ASSUME Types, Ingest PROVE Types'
<1> USE SlotFacts
<1>j. JobsOK BY DEF Types, TypeOK, JobsOK
<1>s. seen["ingest"].handle \in Nat BY DEF Types, TypeOK, Snapshots
<1>1. CASE IngestLoad
  <2>1. JobsOK' BY <1>1, <1>j, ClaimJobs DEF IngestLoad, Starts
  <2>2. pc' \in [Slots -> PCs]
    BY <1>1 DEF IngestLoad, Starts, Goto, PCs, Types, TypeOK
  <2>3. UNCHANGED seen \/ Keep("ingest", [NoSnapshot EXCEPT !.handle = row.handle])
    BY <1>1 DEF IngestLoad
  <2>4. [NoSnapshot EXCEPT !.handle = row.handle] \in Snapshots
    BY SnapshotTypes DEF Snapshots, Row, Types, TypeOK
  <2>5. seen' \in [Slots -> Snapshots]
    BY <2>3, <2>4, KeepTypes DEF Types, TypeOK
  <2> QED
    BY <1>1, <2>1, <2>2, <2>3, <2>4, <2>5
    DEF IngestLoad, Types, TypeOK, JobsOK
<1>2. CASE IngestFetch
  <2>1. JobsOK' BY <1>2, <1>j, UnchangedJobs, HandlerThrowsTypes DEF IngestFetch
  <2>2. pc' \in [Slots -> PCs] /\ seen' \in [Slots -> Snapshots]
    BY <1>2, GotoTypes, HandlerThrowsTypes DEF IngestFetch, PCs, Types, TypeOK
  <2>3. listener' \in [Slots -> {"none", "check", "write", "verdict", "blame"}] /\ tally' \in Tally
    BY <1>2, HandlerThrowsTypes DEF IngestFetch, Types, TypeOK
  <2> QED
    BY <1>2, <2>1, <2>2, <2>3
    DEF IngestFetch, Types, TypeOK, JobsOK
<1>3. CASE IngestCommit
  <2>1. JobsOK' BY <1>3, <1>j, UnchangedJobs DEF IngestCommit
  <2>2. row' \in Row
    BY <1>3 DEF IngestCommit, Types, TypeOK, Row, Statuses, TStatuses, Playbacks
  <2> QED
    BY <1>3, <2>1, <2>2
    DEF IngestCommit, Goto, PCs, Types, TypeOK, JobsOK
<1>4. CASE IngestRelease
  <2>1. JobsOK' BY <1>4, <1>j, UnchangedJobs DEF IngestRelease
  <2>2. remote' \in Seq(RemoteStates)
    BY <1>4, <1>s, ReplaceInSeq DEF IngestRelease, RemoteStates, Types, TypeOK
  <2> QED
    BY <1>4, <2>1, <2>2
    DEF IngestRelease, Goto, PCs, Types, TypeOK, JobsOK
<1>5. CASE IngestNotify
  <2>1. JobsOK' BY <1>5, <1>j, UnchangedJobs DEF IngestNotify
  <2>2. tally' \in Tally
    BY <1>5, TallyTypes DEF IngestNotify
  <2> QED
    BY <1>5, <2>1, <2>2
    DEF IngestNotify, Goto, PCs, Types, TypeOK, JobsOK
<1> QED BY <1>1, <1>2, <1>3, <1>4, <1>5 DEF Ingest

\* The steps of media.audio.transcode.
LEMMA TranscodeTypes ==
  ASSUME Types, Transcode PROVE Types'
<1> USE SlotFacts
<1>j. JobsOK BY DEF Types, TypeOK, JobsOK
<1>1. CASE TranscodeLoad
  <2>1. JobsOK' BY <1>1, <1>j, ClaimJobs DEF TranscodeLoad, Starts
  <2> QED
    BY <1>1, <2>1
    DEF TranscodeLoad, Starts, Goto, PCs, Types, TypeOK, JobsOK
<1>2. CASE TranscodeBroken
  <2>1. JobsOK' BY <1>2, <1>j, ThrowStepTypes DEF TranscodeBroken
  <2>2. pc' \in [Slots -> PCs] /\ seen' \in [Slots -> Snapshots]
    BY <1>2, ThrowStepTypes DEF TranscodeBroken
  <2>3. listener' \in [Slots -> {"none", "check", "write", "verdict", "blame"}] /\ tally' \in Tally
    BY <1>2, ThrowStepTypes DEF TranscodeBroken
  <2> QED
    BY <1>2, <2>1, <2>2, <2>3
    DEF TranscodeBroken, Types, TypeOK, JobsOK
<1>3. CASE TranscodeOnNode
  <2>1. JobsOK' BY <1>3, <1>j, ClaimJobs DEF TranscodeOnNode, Starts
  <2> QED
    BY <1>3, <2>1
    DEF TranscodeOnNode, Starts, Goto, PCs, Types, TypeOK, JobsOK
<1>4. CASE TranscodeNodeResult
  <2>1. JobsOK' BY <1>4, <1>j, UnchangedJobs DEF TranscodeNodeResult
  <2> QED
    BY <1>4, <2>1
    DEF TranscodeNodeResult, Goto, PCs, Types, TypeOK, JobsOK
<1>5. CASE TranscodeNodeFails
  <2>1. JobsOK' BY <1>5, <1>j, HandlerThrowsTypes DEF TranscodeNodeFails
  <2>2. pc' \in [Slots -> PCs] /\ seen' \in [Slots -> Snapshots]
    BY <1>5, HandlerThrowsTypes DEF TranscodeNodeFails
  <2>3. listener' \in [Slots -> {"none", "check", "write", "verdict", "blame"}] /\ tally' \in Tally
    BY <1>5, HandlerThrowsTypes DEF TranscodeNodeFails
  <2> QED
    BY <1>5, <2>1, <2>2, <2>3
    DEF TranscodeNodeFails, Types, TypeOK, JobsOK
<1>6. CASE TranscodeAttach
  <2>1. JobsOK' BY <1>6, <1>j, UnchangedJobs DEF TranscodeAttach
  <2>2. row' \in Row
    BY <1>6 DEF TranscodeAttach, Types, TypeOK, Row, Statuses, TStatuses, Playbacks
  <2> QED
    BY <1>6, <2>1, <2>2
    DEF TranscodeAttach, Goto, PCs, Types, TypeOK, JobsOK
<1>7. CASE TranscodeWake
  <2>1. JobsOK' BY <1>7, <1>j, UnchangedJobs DEF TranscodeWake
  <2> QED
    BY <1>7, <2>1
    DEF TranscodeWake, Goto, PCs, Types, TypeOK, JobsOK
<1>8. CASE TranscodeQueue
  <2>1. JobsOK' BY <1>8, <1>j, UnchangedJobs DEF TranscodeQueue
  <2>2. row' \in Row
    BY <1>8 DEF TranscodeQueue, MarkQueued, Types, TypeOK, Row, Statuses, TStatuses, Playbacks
  <2> QED
    BY <1>8, <2>1, <2>2
    DEF TranscodeQueue, Goto, PCs, Types, TypeOK, JobsOK
<1>9. CASE TranscodeToSubmit
  <2>1. JobsOK' BY <1>9, <1>j, EnqueueOnceJobs DEF TranscodeToSubmit
  <2> QED
    BY <1>9, <2>1
    DEF TranscodeToSubmit, Goto, PCs, Types, TypeOK, JobsOK
<1>10. CASE TranscodeGiveUp
  <2>1. JobsOK' BY <1>10, <1>j, UnchangedJobs DEF TranscodeGiveUp
  <2>2. row' \in Row
    BY <1>10 DEF TranscodeGiveUp, MarkPlaybackFailed, Types, TypeOK, Row, Statuses, TStatuses, Playbacks
  <2> QED
    BY <1>10, <2>1, <2>2
    DEF TranscodeGiveUp, Goto, PCs, Types, TypeOK, JobsOK
<1>11. CASE TranscodeVerdict
  <2>1. JobsOK' BY <1>11, <1>j, UnchangedJobs DEF TranscodeVerdict
  <2> QED
    BY <1>11, <2>1
    DEF TranscodeVerdict, Goto, PCs, Types, TypeOK, JobsOK
<1>12. CASE TranscodeBlame
  <2>1. JobsOK' BY <1>12, <1>j, UnchangedJobs DEF TranscodeBlame
  <2> QED
    BY <1>12, <2>1, MarkFailedTypes
    DEF TranscodeBlame, Goto, PCs, Types, TypeOK, JobsOK
<1>13. CASE TranscodeRethrow
  <2>1. JobsOK' BY <1>13, <1>j, HandlerThrowsTypes DEF TranscodeRethrow
  <2>2. pc' \in [Slots -> PCs] /\ seen' \in [Slots -> Snapshots]
    BY <1>13, HandlerThrowsTypes DEF TranscodeRethrow
  <2>3. listener' \in [Slots -> {"none", "check", "write", "verdict", "blame"}] /\ tally' \in Tally
    BY <1>13, HandlerThrowsTypes DEF TranscodeRethrow
  <2> QED
    BY <1>13, <2>1, <2>2, <2>3
    DEF TranscodeRethrow, Types, TypeOK, JobsOK
<1> QED BY <1>1, <1>2, <1>3, <1>4, <1>5, <1>6, <1>7, <1>8, <1>9, <1>10, <1>11, <1>12, <1>13 DEF Transcode

\* The steps of transcript.purge.
LEMMA PurgeTypes ==
  ASSUME Types, Purge PROVE Types'
<1> USE SlotFacts
<1>j. JobsOK BY DEF Types, TypeOK, JobsOK
<1>s. seen["purge"].handle \in Nat BY DEF Types, TypeOK, Snapshots
<1>1. CASE PurgeLoad
  <2>1. JobsOK' BY <1>1, <1>j, ClaimJobs DEF PurgeLoad, Starts
  <2>2. pc' \in [Slots -> PCs]
    BY <1>1 DEF PurgeLoad, Starts, Goto, PCs, Types, TypeOK
  <2>3. Keep("purge", [NoSnapshot EXCEPT !.handle = row.handle])
    BY <1>1 DEF PurgeLoad
  <2>4. [NoSnapshot EXCEPT !.handle = row.handle] \in Snapshots
    BY SnapshotTypes DEF Snapshots, Row, Types, TypeOK
  <2>5. seen' \in [Slots -> Snapshots]
    BY <2>3, <2>4, KeepTypes DEF Types, TypeOK
  <2> QED
    BY <1>1, <2>1, <2>2, <2>3, <2>4, <2>5
    DEF PurgeLoad, Types, TypeOK, JobsOK
<1>2. CASE PurgeForgetRemote
  <2>1. JobsOK' BY <1>2, <1>j, UnchangedJobs DEF PurgeForgetRemote
  <2>2. remote' \in Seq(RemoteStates)
    BY <1>2, <1>s, ReplaceInSeq DEF PurgeForgetRemote, RemoteStates, Types, TypeOK
  <2> QED
    BY <1>2, <2>1, <2>2
    DEF PurgeForgetRemote, Goto, PCs, Types, TypeOK, JobsOK
<1>3. CASE PurgeDelete
  <2>1. JobsOK' BY <1>3, <1>j, UnchangedJobs DEF PurgeDelete
  <2>2. row' \in Row
    BY <1>3 DEF PurgeDelete, Types, TypeOK, Row, Statuses, TStatuses, Playbacks
  <2> QED
    BY <1>3, <2>1, <2>2
    DEF PurgeDelete, Goto, PCs, Types, TypeOK, JobsOK
<1> QED BY <1>1, <1>2, <1>3 DEF Purge

\* The steps of the upload hook.
LEMMA HookTypes ==
  ASSUME Types, NEW u \in Uploads, Hook(u) PROVE Types'
<1> USE SlotFacts
<1>j. JobsOK BY DEF Types, TypeOK, JobsOK
<1>1. CASE HookPromote(u)
  <2>1. JobsOK' BY <1>1, <1>j, UnchangedJobs DEF HookPromote
  <2>2. row' \in Row
    BY <1>1 DEF HookPromote, Types, TypeOK, Row, Statuses, TStatuses, Playbacks
  <2> QED
    BY <1>1, <2>1, <2>2
    DEF HookPromote, HookGoto, HookPCs, Types, TypeOK, JobsOK
<1>2. CASE HookTranscode(u)
  <2>1. JobsOK' BY <1>2, <1>j, EnqueueOnceJobs, UnchangedJobs DEF HookTranscode
  <2> QED
    BY <1>2, <2>1
    DEF HookTranscode, HookGoto, HookPCs, Types, TypeOK, JobsOK
<1>3. CASE HookMark(u)
  <2>1. JobsOK' BY <1>3, <1>j, UnchangedJobs DEF HookMark
  <2>2. row' \in Row
    BY <1>3 DEF HookMark, Types, TypeOK, Row, Statuses, TStatuses, Playbacks
  <2> QED
    BY <1>3, <2>1, <2>2
    DEF HookMark, HookGoto, HookPCs, Types, TypeOK, JobsOK
<1>4. CASE HookUnconfigured(u)
  <2>1. JobsOK' BY <1>4, <1>j, UnchangedJobs DEF HookUnconfigured
  <2> QED
    BY <1>4, <2>1, MarkFailedTypes
    DEF HookUnconfigured, HookGoto, HookPCs, Types, TypeOK, JobsOK
<1>5. CASE HookChoose(u)
  <2>1. JobsOK' BY <1>5, <1>j, UnchangedJobs DEF HookChoose
  <2>2. row' \in Row
    BY <1>5, MarkFailedTypes DEF HookChoose, Types, TypeOK, Row, TStatuses
  <2>3. tally' \in Tally
    BY <1>5, MarkFailedTypes DEF HookChoose, Types, TypeOK
  <2> QED
    BY <1>5, <2>1, <2>2, <2>3
    DEF HookChoose, HookGoto, HookPCs, Types, TypeOK, JobsOK
<1>6. CASE HookQueue(u)
  <2>1. JobsOK' BY <1>6, <1>j, UnchangedJobs DEF HookQueue
  <2>2. row' \in Row
    BY <1>6 DEF HookQueue, MarkQueued, Types, TypeOK, Row, Statuses, TStatuses, Playbacks
  <2> QED
    BY <1>6, <2>1, <2>2
    DEF HookQueue, HookGoto, HookPCs, Types, TypeOK, JobsOK
<1>7. CASE HookToSubmit(u)
  <2>1. JobsOK' BY <1>7, <1>j, EnqueueOnceJobs DEF HookToSubmit
  <2> QED
    BY <1>7, <2>1
    DEF HookToSubmit, HookGoto, HookPCs, Types, TypeOK, JobsOK
<1>8. CASE HookAbort(u)
  <2>1. JobsOK' BY <1>8, <1>j, UnchangedJobs DEF HookAbort
  <2> QED
    BY <1>8, <2>1, MarkFailedTypes
    DEF HookAbort, HookGoto, HookPCs, Types, TypeOK, JobsOK
<1> QED BY <1>1, <1>2, <1>3, <1>4, <1>5, <1>6, <1>7, <1>8 DEF Hook

\* The owner's requests, their checks.
LEMMA CallBeginsTypes ==
  ASSUME Types, NEW c \in Callers, CallBegins(c) PROVE Types'
<1> USE SlotFacts
<1>j. JobsOK BY DEF Types, TypeOK, JobsOK
<1>1. CASE RetryBegins(c)
  <2>1. JobsOK' BY <1>1, <1>j, UnchangedJobs DEF RetryBegins, Begin
  <2>2. call' \in [Callers -> Calls]
    BY <1>1 DEF RetryBegins, Begin, Calls, CallPCs, Row, Types, TypeOK
  <2>3. used' \in Used
    BY <1>1, UsedTypes DEF RetryBegins, Begin
  <2> QED
    BY <1>1, <2>1, <2>2, <2>3
    DEF RetryBegins, Begin, Types, TypeOK, JobsOK
<1>2. CASE CancelBegins(c)
  <2>1. JobsOK' BY <1>2, <1>j, UnchangedJobs DEF CancelBegins, Begin
  <2>2. call' \in [Callers -> Calls]
    BY <1>2 DEF CancelBegins, Begin, Calls, CallPCs, Row, Types, TypeOK
  <2>3. used' \in Used
    BY <1>2, UsedTypes DEF CancelBegins, Begin
  <2> QED
    BY <1>2, <2>1, <2>2, <2>3
    DEF CancelBegins, Begin, Types, TypeOK, JobsOK
<1>3. CASE RemoveBegins(c)
  <2>1. JobsOK' BY <1>3, <1>j, UnchangedJobs DEF RemoveBegins, Begin
  <2>2. call' \in [Callers -> Calls]
    BY <1>3 DEF RemoveBegins, Begin, Calls, CallPCs, Row, Types, TypeOK
  <2>3. used' \in Used
    BY <1>3, UsedTypes DEF RemoveBegins, Begin
  <2> QED
    BY <1>3, <2>1, <2>2, <2>3
    DEF RemoveBegins, Begin, Types, TypeOK, JobsOK
<1> QED BY <1>1, <1>2, <1>3 DEF CallBegins

\* The owner's requests, their writes and enqueues.
LEMMA CallStepTypes ==
  ASSUME Types, NEW c \in Callers, CallStep(c) PROVE Types'
<1> USE SlotFacts
<1>j. JobsOK BY DEF Types, TypeOK, JobsOK
<1>s. call[c].handle \in Nat BY DEF Types, TypeOK, Calls
<1>1. CASE RetryReopens(c)
  <2>1. JobsOK' BY <1>1, <1>j, UnchangedJobs DEF RetryReopens
  <2>2. row' \in Row
    BY <1>1 DEF RetryReopens, Types, TypeOK, Row, Statuses, TStatuses, Playbacks
  <2>3. call' \in [Callers -> Calls]
    BY <1>1 DEF RetryReopens, CallGoto, Calls, CallPCs, Types, TypeOK
  <2>4. tally' \in Tally
    BY <1>1, TallyTypes DEF RetryReopens
  <2> QED
    BY <1>1, <2>1, <2>2, <2>3, <2>4
    DEF RetryReopens, Types, TypeOK, JobsOK
<1>2. CASE RetryResumes(c)
  <2>1. JobsOK' BY <1>2, <1>j, UnchangedJobs DEF RetryResumes
  <2>2. row' \in Row
    BY <1>2 DEF RetryResumes, Types, TypeOK, Row, Statuses, TStatuses, Playbacks
  <2>3. call' \in [Callers -> Calls]
    BY <1>2 DEF RetryResumes, CallGoto, Calls, CallPCs, Types, TypeOK
  <2> QED
    BY <1>2, <2>1, <2>2, <2>3
    DEF RetryResumes, Types, TypeOK, JobsOK
<1>3. CASE RetryPolls(c)
  <2>1. JobsOK' BY <1>3, <1>j, EnqueuePollJobs DEF RetryPolls
  <2>2. call' \in [Callers -> Calls]
    BY <1>3 DEF RetryPolls, CallEnds, NoCall, Calls, CallPCs, Types, TypeOK
  <2> QED
    BY <1>3, <2>1, <2>2
    DEF RetryPolls, Types, TypeOK, JobsOK
<1>4. CASE RetryClears(c)
  <2>1. JobsOK' BY <1>4, <1>j, UnchangedJobs DEF RetryClears
  <2>2. row' \in Row
    BY <1>4 DEF RetryClears, Types, TypeOK, Row, Statuses, TStatuses, Playbacks
  <2>3. call' \in [Callers -> Calls]
    BY <1>4 DEF RetryClears, CallGoto, Calls, CallPCs, Types, TypeOK
  <2>4. tally' \in Tally
    BY <1>4, TallyTypes DEF RetryClears
  <2> QED
    BY <1>4, <2>1, <2>2, <2>3, <2>4
    DEF RetryClears, Types, TypeOK, JobsOK
<1>5. CASE RetryQueues(c)
  <2>1. JobsOK' BY <1>5, <1>j, UnchangedJobs DEF RetryQueues
  <2>2. row' \in Row
    BY <1>5 DEF RetryQueues, MarkQueued, Types, TypeOK, Row, Statuses, TStatuses, Playbacks
  <2>3. call' \in [Callers -> Calls]
    BY <1>5 DEF RetryQueues, CallGoto, Calls, CallPCs, Types, TypeOK
  <2> QED
    BY <1>5, <2>1, <2>2, <2>3
    DEF RetryQueues, Types, TypeOK, JobsOK
<1>6. CASE RetrySubmits(c)
  <2>1. JobsOK' BY <1>6, <1>j, EnqueueOnceJobs DEF RetrySubmits
  <2>2. call' \in [Callers -> Calls]
    BY <1>6 DEF RetrySubmits, CallEnds, NoCall, Calls, CallPCs, Types, TypeOK
  <2> QED
    BY <1>6, <2>1, <2>2
    DEF RetrySubmits, Types, TypeOK, JobsOK
<1>7. CASE CancelStopsRemote(c)
  <2>1. JobsOK' BY <1>7, <1>j, UnchangedJobs DEF CancelStopsRemote
  <2>2. remote' \in Seq(RemoteStates)
    BY <1>7, <1>s, ReplaceInSeq DEF CancelStopsRemote, RemoteStates, Types, TypeOK
  <2>3. call' \in [Callers -> Calls]
    BY <1>7 DEF CancelStopsRemote, CallGoto, Calls, CallPCs, Types, TypeOK
  <2> QED
    BY <1>7, <2>1, <2>2, <2>3
    DEF CancelStopsRemote, Types, TypeOK, JobsOK
<1>8. CASE CancelWrites(c)
  <2>1. JobsOK' BY <1>8, <1>j, UnchangedJobs DEF CancelWrites
  <2>2. row' \in Row
    BY <1>8 DEF CancelWrites, Types, TypeOK, Row, Statuses, TStatuses, Playbacks
  <2>3. call' \in [Callers -> Calls]
    BY <1>8 DEF CancelWrites, CallEnds, NoCall, Calls, CallPCs, Types, TypeOK
  <2> QED
    BY <1>8, <2>1, <2>2, <2>3
    DEF CancelWrites, Types, TypeOK, JobsOK
<1>9. CASE RemoveDeletes(c)
  <2>1. JobsOK' BY <1>9, <1>j, UnchangedJobs DEF RemoveDeletes
  <2>2. row' \in Row
    BY <1>9 DEF RemoveDeletes, Types, TypeOK, Row, Statuses, TStatuses, Playbacks
  <2>3. call' \in [Callers -> Calls]
    BY <1>9 DEF RemoveDeletes, CallGoto, Calls, CallPCs, Types, TypeOK
  <2> QED
    BY <1>9, <2>1, <2>2, <2>3
    DEF RemoveDeletes, Types, TypeOK, JobsOK
<1>10. CASE RemovePurges(c)
  <2>1. JobsOK' BY <1>10, <1>j, EnqueueOnceJobs DEF RemovePurges
  <2>2. call' \in [Callers -> Calls]
    BY <1>10 DEF RemovePurges, CallEnds, NoCall, Calls, CallPCs, Types, TypeOK
  <2> QED
    BY <1>10, <2>1, <2>2
    DEF RemovePurges, Types, TypeOK, JobsOK
<1> QED BY <1>1, <1>2, <1>3, <1>4, <1>5, <1>6, <1>7, <1>8, <1>9, <1>10 DEF CallStep

\* The steps of the failure listener.
LEMMA ListenerTypes ==
  ASSUME Types, NEW s \in Slots, Listener(s) PROVE Types'
<1> USE SlotFacts
<1>j. JobsOK BY DEF Types, TypeOK, JobsOK
<1>1. CASE ListenerCheck(s)
  <2>1. JobsOK' BY <1>1, <1>j, UnchangedJobs DEF ListenerCheck
  <2> QED
    BY <1>1, <2>1
    DEF ListenerCheck, Types, TypeOK, JobsOK
<1>2. CASE ListenerWrite(s)
  <2>1. JobsOK' BY <1>2, <1>j, UnchangedJobs DEF ListenerWrite
  <2>2. row' \in Row
    BY <1>2, MarkFailedTypes DEF ListenerWrite, MarkPlaybackFailed, Types, TypeOK, Row, Playbacks
  <2>3. tally' \in Tally
    BY <1>2, MarkFailedTypes DEF ListenerWrite, Types, TypeOK
  <2> QED
    BY <1>2, <2>1, <2>2, <2>3
    DEF ListenerWrite, Types, TypeOK, JobsOK
<1>3. CASE ListenerVerdict(s)
  <2>1. JobsOK' BY <1>3, <1>j, UnchangedJobs DEF ListenerVerdict
  <2> QED
    BY <1>3, <2>1
    DEF ListenerVerdict, Types, TypeOK, JobsOK
<1>4. CASE ListenerBlame(s)
  <2>1. JobsOK' BY <1>4, <1>j, UnchangedJobs DEF ListenerBlame
  <2> QED
    BY <1>4, <2>1, MarkFailedTypes
    DEF ListenerBlame, Types, TypeOK, JobsOK
<1> QED BY <1>1, <1>2, <1>3, <1>4 DEF Listener

\* Step 1 of the sweep.
LEMMA SweepTypes ==
  ASSUME Types, Sweep PROVE Types'
<1> USE SlotFacts
<1>j. JobsOK BY DEF Types, TypeOK, JobsOK
<1>1. CASE SweepFinds
  <2>1. JobsOK' BY <1>1, <1>j, UnchangedJobs DEF SweepFinds
  <2> QED
    BY <1>1, <2>1
    DEF SweepFinds, Types, TypeOK, JobsOK
<1>2. CASE SweepChecks
  <2>1. JobsOK' BY <1>2, <1>j, UnchangedJobs DEF SweepChecks
  <2> QED
    BY <1>2, <2>1
    DEF SweepChecks, Types, TypeOK, JobsOK
<1>3. CASE SweepRestarts
  <2>1. JobsOK' BY <1>3, <1>j, EnqueuePollJobs DEF SweepRestarts
  <2> QED
    BY <1>3, <2>1
    DEF SweepRestarts, Types, TypeOK, JobsOK
<1> QED BY <1>1, <1>2, <1>3 DEF Sweep

\* The worker and the reaper.
LEMMA WorkerTypes ==
  ASSUME Types, NEW s \in Slots, Worker(s) PROVE Types'
<1> USE SlotFacts
<1>j. JobsOK BY DEF Types, TypeOK, JobsOK
<1>1. CASE Finish(s)
  <2>1. JobsOK' BY <1>1, <1>j, CompleteJobs DEF Finish
  <2> QED
    BY <1>1, <2>1, ResetTypes
    DEF Finish, Types, TypeOK, JobsOK
<1>2. CASE UpdateRefused(s)
  <2>1. JobsOK' BY <1>2, <1>j, ThrowStepTypes DEF UpdateRefused
  <2>2. pc' \in [Slots -> PCs] /\ seen' \in [Slots -> Snapshots]
    BY <1>2, ThrowStepTypes DEF UpdateRefused
  <2>3. listener' \in [Slots -> {"none", "check", "write", "verdict", "blame"}] /\ tally' \in Tally
    BY <1>2, ThrowStepTypes DEF UpdateRefused
  <2> QED
    BY <1>2, <2>1, <2>2, <2>3
    DEF UpdateRefused, Types, TypeOK, JobsOK
<1>3. CASE Refuse(s)
  <2>1. JobsOK' BY <1>3, <1>j, UnchangedJobs DEF Refuse
  <2> QED
    BY <1>3, <2>1, MarkFailedTypes
    DEF Refuse, Goto, PCs, Types, TypeOK, JobsOK
<1>4. CASE Reap(s)
  <2>1. JobsOK' BY <1>4, <1>j, FailJobs DEF Reap
  <2> QED
    BY <1>4, <2>1, HeardByTypes
    DEF Reap, Types, TypeOK, JobsOK
<1> QED BY <1>1, <1>2, <1>3, <1>4 DEF Worker

\* Thrown errors, 429s and the death of the process.
LEMMA FaultTypes == ASSUME Types, Faults PROVE Types'
<1> USE SlotFacts
<1>j. JobsOK BY DEF Types, TypeOK, JobsOK
<1>1. CASE \E s \in Slots : Throw(s)
  <2>1. JobsOK' BY <1>1, <1>j, ThrowStepTypes DEF Throw
  <2>2. pc' \in [Slots -> PCs] /\ seen' \in [Slots -> Snapshots]
    BY <1>1, ThrowStepTypes DEF Throw
  <2>3. listener' \in [Slots -> {"none", "check", "write", "verdict", "blame"}] /\ tally' \in Tally
    BY <1>1, ThrowStepTypes DEF Throw
  <2>4. used' \in Used
    BY <1>1, UsedTypes DEF Throw
  <2> QED
    BY <1>1, <2>1, <2>2, <2>3, <2>4
    DEF Throw, Types, TypeOK, JobsOK
<1>2. CASE \E s \in Slots : RateLimited(s)
  <2>1. JobsOK' BY <1>2, <1>j, DeferJobs DEF RateLimited
  <2>2. used' \in Used
    BY <1>2, UsedTypes DEF RateLimited
  <2> QED
    BY <1>2, <2>1, <2>2, ResetTypes, HeardByTypes
    DEF RateLimited, Types, TypeOK, JobsOK
<1>3. CASE \E s \in Slots : ListenerThrows(s)
  <2>1. JobsOK' BY <1>3, <1>j, UnchangedJobs DEF ListenerThrows
  <2>2. used' \in Used
    BY <1>3, UsedTypes DEF ListenerThrows
  <2>3. listener' \in [Slots -> {"none", "check", "write", "verdict", "blame"}]
    BY <1>3 DEF ListenerThrows, Types, TypeOK
  <2> QED
    BY <1>3, <2>1, <2>2, <2>3
    DEF ListenerThrows, Types, TypeOK, JobsOK
<1>4. CASE SweepThrows
  <2>1. JobsOK' BY <1>4, <1>j, UnchangedJobs DEF SweepThrows
  <2>2. used' \in Used
    BY <1>4, UsedTypes DEF SweepThrows
  <2> QED
    BY <1>4, <2>1, <2>2
    DEF SweepThrows, Types, TypeOK, JobsOK
<1>5. CASE \E u \in Uploads : HookThrows(u)
  <2>1. JobsOK' BY <1>5, <1>j, UnchangedJobs DEF HookThrows
  <2>2. used' \in Used
    BY <1>5, UsedTypes DEF HookThrows
  <2> QED
    BY <1>5, <2>1, <2>2
    DEF HookThrows, HookGoto, HookPCs, Types, TypeOK, JobsOK
<1>6. CASE \E c \in Callers : CallThrows(c)
  <2>1. JobsOK' BY <1>6, <1>j, UnchangedJobs DEF CallThrows
  <2>2. used' \in Used
    BY <1>6, UsedTypes DEF CallThrows
  <2>3. call' \in [Callers -> Calls]
    BY <1>6 DEF CallThrows, CallEnds, NoCall, Calls, CallPCs, Types, TypeOK
  <2> QED
    BY <1>6, <2>1, <2>2, <2>3
    DEF CallThrows, Types, TypeOK, JobsOK
<1>7. CASE Crash
  <2>1. JobsOK' BY <1>7, <1>j, AbandonJobs DEF Crash
  <2>2. used' \in Used
    BY <1>7, UsedTypes DEF Crash
  <2>3. tally' \in Tally
    BY <1>7, TallyTypes DEF Crash
  <2>4. pc' \in [Slots -> PCs] /\ hook' \in [Uploads -> HookPCs]
    BY <1>7 DEF Crash, PCs, HookPCs, Types, TypeOK
  <2>5. seen' \in [Slots -> Snapshots]
    BY <1>7, SnapshotTypes DEF Crash
  <2>6. call' \in [Callers -> Calls]
    BY <1>7 DEF Crash, NoCall, Calls, CallPCs
  <2> QED
    BY <1>7, <2>1, <2>2, <2>3, <2>4, <2>5, <2>6
    DEF Crash, Types, TypeOK, JobsOK
<1> QED BY <1>1, <1>2, <1>3, <1>4, <1>5, <1>6, <1>7 DEF Faults

\* The provider and the clock.
LEMMA WorldTypes == ASSUME Types, RemoteFinishes \/ DeadlinePasses PROVE Types'
<1>j. JobsOK BY DEF Types, TypeOK, JobsOK
<1>1. CASE RemoteFinishes
  <2>1. JobsOK' BY <1>1, <1>j, UnchangedJobs DEF RemoteFinishes
  <2>2. remote' \in Seq(RemoteStates)
    BY <1>1, ReplaceInSeq DEF RemoteFinishes, RemoteStates, Types, TypeOK
  <2> QED
    BY <1>1, <2>1, <2>2
    DEF RemoteFinishes, Types, TypeOK, JobsOK
<1>2. CASE DeadlinePasses
  <2>1. JobsOK' BY <1>2, <1>j, UnchangedJobs DEF DeadlinePasses
  <2>2. row' \in Row
    BY <1>2 DEF DeadlinePasses, Types, TypeOK, Row, Statuses, TStatuses, Playbacks
  <2>3. used' \in Used
    BY <1>2, UsedTypes DEF DeadlinePasses
  <2> QED
    BY <1>2, <2>1, <2>2, <2>3
    DEF DeadlinePasses, Types, TypeOK, JobsOK
<1> QED BY <1>1, <1>2

\* The types hold initially.
LEMMA TypesInit == Init => Types
<1> SUFFICES ASSUME Init PROVE Types OBVIOUS
<1>1. row \in Row BY MediaAssumption DEF Init, Row, Statuses, TStatuses, Playbacks
<1>2. job \in [Slots -> JobRow] /\ JobsCharged BY DEF Init, QueueInit, NoJob, JobRow, JobsCharged, Running
<1>3. pc \in [Slots -> PCs] /\ hook \in [Uploads -> HookPCs] BY DEF Init, PCs, HookPCs
<1>4. seen \in [Slots -> Snapshots] BY DEF Init, NoSnapshot, Snapshots, TStatuses, Playbacks
<1>5. call \in [Callers -> Calls] BY DEF Init, NoCall, Calls, CallPCs
<1>6. tally \in Tally /\ used \in Used BY DEF Init, Tally, Used
<1> QED BY <1>1, <1>2, <1>3, <1>4, <1>5, <1>6 DEF Init, Types, TypeOK

\* Every step keeps the types.
LEMMA TypesNext == ASSUME Types, [Next]_vars PROVE Types'
<1>1. ASSUME NEW s \in Slots, Handler(s) PROVE Types'
  BY <1>1, SubmitTypes, IngestTypes, TranscodeTypes, PurgeTypes, PollTypes DEF Handler
<1>2. CASE UNCHANGED vars
  BY <1>2 DEF vars, Types, TypeOK, JobsCharged, Running
<1> QED
  BY <1>1, <1>2, WorkerTypes, ListenerTypes, HookTypes, CallBeginsTypes, CallStepTypes,
     SweepTypes, WorldTypes, FaultTypes
  DEF Next

\* Every variable holds the kind of value its column, its queue row or its await can hold;
\* in particular giving an attempt back never takes the count below zero.
THEOREM TypeCorrect == Spec => []TypeOK
<1>1. Types => TypeOK BY DEF Types
<1> QED BY TypesInit, TypesNext, <1>1, PTL DEF Spec

-------------------------------------------------------------------------------
(* The notice of success.                                                  *)

\* Only version 1 is announced, and the ingest that will announce it is the one that wrote
\* it: a second delivery finds the version and stops at its load.
ToldInv ==
  /\ tally.ready <= row.version
  /\ pc["ingest"] \in {"release", "notify"} => row.version = 1 /\ tally.ready = 0

\* ToldInv under transcription.submit: neither the version nor an announcement in progress is touched.
LEMMA ToldSubmit ==
  ASSUME Types, ToldInv, Submit PROVE ToldInv'
<1> USE SlotFacts
<1>1. CASE SubmitLoad
  BY <1>1 DEF SubmitLoad, Goto, Starts, Types, TypeOK, Row, Tally, ToldInv
<1>2. CASE SubmitWaits
  BY <1>2 DEF SubmitWaits, Goto, Types, TypeOK, Row, Tally, ToldInv
<1>3. CASE SubmitSelects
  BY <1>3 DEF SubmitSelects, Goto, Types, TypeOK, Row, Tally, ToldInv
<1>4. CASE SubmitAccepted
  BY <1>4 DEF SubmitAccepted, Goto, Types, TypeOK, Row, Tally, ToldInv
<1>5. CASE SubmitAnswerLost
  BY <1>5 DEF SubmitAnswerLost, Reset, Goto, Types, TypeOK, Row, Tally, ToldInv
<1>6. CASE SubmitRecord
  BY <1>6 DEF SubmitRecord, Goto, Types, TypeOK, Row, Tally, ToldInv
<1>7. CASE SubmitFirstPoll
  BY <1>7 DEF SubmitFirstPoll, Goto, Types, TypeOK, Row, Tally, ToldInv
<1> QED BY <1>1, <1>2, <1>3, <1>4, <1>5, <1>6, <1>7 DEF Submit

\* ToldInv under transcription.poll: neither the version nor an announcement in progress is touched.
LEMMA ToldPoll ==
  ASSUME Types, ToldInv, NEW s \in PollSlots, Poll(s) PROVE ToldInv'
BY SlotFacts DEF Poll, PollLoad, Goto, Starts, PollAsk, PollComplete, PollToIngest,
     PollNote, PollNext, Types, TypeOK, Row, Tally, ToldInv

\* The ingest announces between its commit and its end, and commits only where there is no version.
LEMMA ToldIngest ==
  ASSUME Types, ToldInv, Ingest PROVE ToldInv'
<1> USE SlotFacts
<1>1. CASE IngestLoad
  BY <1>1 DEF IngestLoad, Goto, Starts, Types, TypeOK, Row, Tally, ToldInv
<1>2. CASE IngestFetch
  BY <1>2 DEF IngestFetch, HandlerThrows, Reset, Goto, Types, TypeOK, Row, Tally, ToldInv
<1>3. CASE IngestCommit
  BY <1>3 DEF IngestCommit, Goto, Types, TypeOK, Row, Tally, ToldInv
<1>4. CASE IngestRelease
  BY <1>4 DEF IngestRelease, Goto, At, Types, TypeOK, Row, Tally, ToldInv
<1>5. CASE IngestNotify
  BY <1>5 DEF IngestNotify, Goto, At, Types, TypeOK, Row, Tally, ToldInv
<1> QED BY <1>1, <1>2, <1>3, <1>4, <1>5 DEF Ingest

\* ToldInv under media.audio.transcode: neither the version nor an announcement in progress is touched.
LEMMA ToldTranscode ==
  ASSUME Types, ToldInv, Transcode PROVE ToldInv'
<1> USE SlotFacts
<1>1. CASE TranscodeLoad
  BY <1>1 DEF TranscodeLoad, Goto, Starts, Types, TypeOK, Row, Tally, ToldInv
<1>2. CASE TranscodeBroken
  BY <1>2 DEF TranscodeBroken, ThrowStep, HandlerThrows, Reset, Goto, Types, TypeOK, Row,
     Tally, ToldInv
<1>3. CASE TranscodeOnNode
  BY <1>3 DEF TranscodeOnNode, Goto, Starts, Types, TypeOK, Row, Tally, ToldInv
<1>4. CASE TranscodeNodeResult
  BY <1>4 DEF TranscodeNodeResult, Goto, Types, TypeOK, Row, Tally, ToldInv
<1>5. CASE TranscodeNodeFails
  BY <1>5 DEF TranscodeNodeFails, HandlerThrows, Reset, Goto, Types, TypeOK, Row, Tally,
     ToldInv
<1>6. CASE TranscodeAttach
  BY <1>6 DEF TranscodeAttach, Goto, Types, TypeOK, Row, Tally, ToldInv
<1>7. CASE TranscodeWake
  BY <1>7 DEF TranscodeWake, Goto, Types, TypeOK, Row, Tally, ToldInv
<1>8. CASE TranscodeQueue
  BY <1>8 DEF TranscodeQueue, Goto, MarkQueued, Types, TypeOK, Row, Tally, ToldInv
<1>9. CASE TranscodeToSubmit
  BY <1>9 DEF TranscodeToSubmit, Goto, Types, TypeOK, Row, Tally, ToldInv
<1>10. CASE TranscodeGiveUp
  BY <1>10 DEF TranscodeGiveUp, Goto, MarkPlaybackFailed, Types, TypeOK, Row, Tally, ToldInv
<1>11. CASE TranscodeVerdict
  BY <1>11 DEF TranscodeVerdict, Goto, Types, TypeOK, Row, Tally, ToldInv
<1>12. CASE TranscodeBlame
  BY <1>12, MarkFailedKeeps DEF TranscodeBlame, Goto, Types, TypeOK, Row, Tally, ToldInv
<1>13. CASE TranscodeRethrow
  BY <1>13 DEF TranscodeRethrow, HandlerThrows, Reset, Goto, Types, TypeOK, Row, Tally,
     ToldInv
<1> QED BY <1>1, <1>2, <1>3, <1>4, <1>5, <1>6, <1>7, <1>8, <1>9, <1>10, <1>11, <1>12, <1>13 DEF Transcode

\* ToldInv under transcript.purge: neither the version nor an announcement in progress is touched.
LEMMA ToldPurge ==
  ASSUME Types, ToldInv, Purge PROVE ToldInv'
BY SlotFacts DEF Purge, PurgeLoad, Goto, Starts, PurgeForgetRemote, PurgeDelete, Types,
     TypeOK, Row, Tally, ToldInv

\* ToldInv under the worker and the reaper: neither the version nor an announcement in progress is touched.
LEMMA ToldWorker ==
  ASSUME Types, ToldInv, NEW s \in Slots, Worker(s) PROVE ToldInv'
<1> USE SlotFacts
<1>1. CASE Finish(s)
  BY <1>1 DEF Finish, Reset, Goto, Types, TypeOK, Row, Tally, ToldInv
<1>2. CASE UpdateRefused(s)
  BY <1>2 DEF UpdateRefused, ThrowStep, HandlerThrows, Reset, Goto, Types, TypeOK, Row,
     Tally, ToldInv
<1>3. CASE Refuse(s)
  BY <1>3, MarkFailedKeeps DEF Refuse, Goto, Types, TypeOK, Row, Tally, ToldInv
<1>4. CASE Reap(s)
  BY <1>4 DEF Reap, Types, TypeOK, Row, Tally, ToldInv
<1> QED BY <1>1, <1>2, <1>3, <1>4 DEF Worker

\* ToldInv under the upload hook: neither the version nor an announcement in progress is touched.
LEMMA ToldHook ==
  ASSUME Types, ToldInv, NEW u \in Uploads, Hook(u) PROVE ToldInv'
BY SlotFacts, MarkFailedKeeps DEF Hook, HookPromote, HookTranscode, HookMark,
     HookUnconfigured, HookChoose, HookQueue, MarkQueued, HookToSubmit, HookAbort, Types,
     TypeOK, Row, Tally, ToldInv

\* ToldInv under the checks of the owner's requests: neither the version nor an announcement in progress is touched.
LEMMA ToldCallBegins ==
  ASSUME Types, ToldInv, NEW c \in Callers, CallBegins(c) PROVE ToldInv'
BY SlotFacts DEF CallBegins, RetryBegins, Begin, CancelBegins, RemoveBegins, Types,
     TypeOK, Row, Tally, ToldInv

\* ToldInv under the writes and enqueues of the owner's requests: neither the version nor an announcement in progress is touched.
LEMMA ToldCallStep ==
  ASSUME Types, ToldInv, NEW c \in Callers, CallStep(c) PROVE ToldInv'
BY SlotFacts DEF CallStep, RetryReopens, RetryResumes, RetryPolls, RetryClears,
     RetryQueues, MarkQueued, RetrySubmits, CancelStopsRemote, CancelWrites, RemoveDeletes,
     RemovePurges, Types, TypeOK, Row, Tally, ToldInv

\* ToldInv under the failure listener: neither the version nor an announcement in progress is touched.
LEMMA ToldListener ==
  ASSUME Types, ToldInv, NEW s \in Slots, Listener(s) PROVE ToldInv'
<1> USE SlotFacts
<1>1. CASE ListenerCheck(s)
  BY <1>1 DEF ListenerCheck, Types, TypeOK, Row, Tally, ToldInv
<1>2. CASE ListenerWrite(s)
  BY <1>2, MarkFailedKeeps DEF ListenerWrite, MarkPlaybackFailed, Types, TypeOK, Row, Tally,
     ToldInv
<1>3. CASE ListenerVerdict(s)
  BY <1>3 DEF ListenerVerdict, Types, TypeOK, Row, Tally, ToldInv
<1>4. CASE ListenerBlame(s)
  BY <1>4, MarkFailedKeeps DEF ListenerBlame, Types, TypeOK, Row, Tally, ToldInv
<1> QED BY <1>1, <1>2, <1>3, <1>4 DEF Listener

\* ToldInv under the sweep: neither the version nor an announcement in progress is touched.
LEMMA ToldSweep ==
  ASSUME Types, ToldInv, Sweep PROVE ToldInv'
BY SlotFacts DEF Sweep, SweepFinds, SweepChecks, SweepRestarts, Types, TypeOK, Row, Tally,
     ToldInv

\* ToldInv under the provider and the clock: neither the version nor an announcement in progress is touched.
LEMMA ToldWorld ==
  ASSUME Types, ToldInv, RemoteFinishes \/ DeadlinePasses PROVE ToldInv'
BY SlotFacts DEF RemoteFinishes, DeadlinePasses, Types, TypeOK, Row, Tally, ToldInv

\* ToldInv under thrown errors, 429s and crashes: neither the version nor an announcement in progress is touched.
LEMMA ToldFaults ==
  ASSUME Types, ToldInv, Faults PROVE ToldInv'
BY SlotFacts DEF Faults, Throw, ThrowStep, HandlerThrows, Reset, Goto, RateLimited,
     ListenerThrows, SweepThrows, HookThrows, CallThrows, Crash, Types, TypeOK, Row, Tally,
     ToldInv

\* Nothing has been announced initially.
LEMMA ToldInit == Init => ToldInv
BY SlotFacts DEF Init, ToldInv

\* Every step keeps ToldInv.
LEMMA ToldNext == ASSUME Types, ToldInv, [Next]_vars PROVE ToldInv'
<1>1. ASSUME NEW s \in Slots, Handler(s) PROVE ToldInv'
  BY <1>1, ToldSubmit, ToldPoll, ToldIngest, ToldTranscode, ToldPurge DEF Handler
<1>2. CASE UNCHANGED vars
  BY <1>2 DEF vars, ToldInv
<1> QED
  BY <1>1, <1>2, ToldWorker, ToldHook, ToldCallBegins, ToldCallStep, ToldListener, ToldSweep, ToldWorld, ToldFaults
  DEF Next

\* However often the queue delivers an ingest, the owner is told at most once that the text is there.
THEOREM ToldReadyOnceHolds == Spec => []ToldReadyOnce
<1>1. Types /\ ToldInv => ToldReadyOnce BY DEF Types, TypeOK, Row, Tally, ToldInv, ToldReadyOnce
<1> QED BY TypesInit, TypesNext, ToldInit, ToldNext, <1>1, PTL DEF Spec

-------------------------------------------------------------------------------
(* One recording, one provider job.                                        *)

\* A provider job is excused by an answer that was lost or a handle that was given up.
Excused == tally.lost + tally.forgotten

\* While no handle is recorded, every job of the provider is excused, but for the one whose
\* answer a submit holds and is about to record.
PaidInv ==
  /\ Len(remote) <= 1 + Excused
  /\ row.handle = 0 /\ pc["submit"] # "record" => Len(remote) <= Excused
  /\ pc["submit"] \in {"select", "deliver"} => Len(remote) <= Excused
  /\ pc["submit"] = "record" => Running("submit") /\ seen["submit"].handle # 0

\* A submit that throws with the provider's answer in hand counts that answer as lost.
LEMMA PaidHandlerThrows ==
  ASSUME Types, PaidInv, NEW s \in Slots, HandlerThrows(s), UNCHANGED <<row, remote>>
  PROVE  PaidInv'
<1> USE SlotFacts
<1>1. CASE s = "submit"
  BY <1>1 DEF HandlerThrows, Reset, Goto, Keep, Fail, Running, Types, TypeOK, Row, Tally,
     Excused, PaidInv
<1>2. CASE s # "submit"
  BY <1>2 DEF HandlerThrows, Reset, Goto, Keep, Fail, Running, Types, TypeOK, Row, Tally,
     Excused, PaidInv
<1> QED BY <1>1, <1>2

\* The same for a throw the transcode handler may catch.
LEMMA PaidThrowStep ==
  ASSUME Types, PaidInv, NEW s \in Slots, ThrowStep(s), UNCHANGED <<row, remote>>
  PROVE  PaidInv'
<1>1. CASE CaughtAt(s, {"run", "refuse", "wake", "queue", "toSubmit"})
           /\ Goto(s, "giveUp") /\ UNCHANGED <<job, seen, listener, tally>>
  BY <1>1 DEF CaughtAt, Goto, Running, Types, TypeOK, Excused, PaidInv
<1> QED BY <1>1, PaidHandlerThrows DEF ThrowStep

\* The submit: a job accepted is recorded, or counted as lost.
LEMMA PaidSubmit ==
  ASSUME Types, PaidInv, Submit PROVE PaidInv'
<1> USE SlotFacts
<1>1. CASE SubmitLoad
  BY <1>1 DEF SubmitLoad, Goto, Starts, Keep, ClaimJob, At, Snapshot, Running, Types,
     TypeOK, Row, Tally, Excused, PaidInv
<1>2. CASE SubmitWaits
  BY <1>2 DEF SubmitWaits, Goto, At, Running, Types, TypeOK, Row, Tally, Excused, PaidInv
<1>3. CASE SubmitSelects
  BY <1>3 DEF SubmitSelects, Goto, At, Running, Types, TypeOK, Row, Tally, Excused, PaidInv
<1>4. CASE SubmitAccepted
  BY <1>4 DEF SubmitAccepted, Goto, Keep, At, Snapshots, RemoteStates, Running, Types,
     TypeOK, Row, Tally, Excused, PaidInv
<1>5. CASE SubmitAnswerLost
  BY <1>5 DEF SubmitAnswerLost, Reset, Goto, Keep, Fail, At, Running, Types, TypeOK, Row,
     Tally, Excused, PaidInv
<1>6. CASE SubmitRecord
  BY <1>6 DEF SubmitRecord, Goto, At, Running, Types, TypeOK, Row, Tally, Excused, PaidInv
<1>7. CASE SubmitFirstPoll
  BY <1>7 DEF SubmitFirstPoll, Goto, EnqueuePoll, Enqueue, Active, NoJob, JobRow, At,
     Running, Types, TypeOK, Row, Tally, Excused, PaidInv
<1> QED BY <1>1, <1>2, <1>3, <1>4, <1>5, <1>6, <1>7 DEF Submit

\* PaidInv under transcription.poll: no new job, no handle cleared.
LEMMA PaidPoll ==
  ASSUME Types, PaidInv, NEW s \in PollSlots, Poll(s) PROVE PaidInv'
<1> USE SlotFacts
<1>1. CASE PollLoad(s)
  BY <1>1 DEF PollLoad, Goto, Starts, Keep, ClaimJob, Running, Types, TypeOK, Row, Tally,
     Excused, PaidInv
<1>2. CASE PollAsk(s)
  BY <1>2 DEF PollAsk, Goto, Keep, Running, Types, TypeOK, Row, Tally, Excused, PaidInv
<1>3. CASE PollComplete(s)
  BY <1>3 DEF PollComplete, Goto, Running, Types, TypeOK, Row, Tally, Excused, PaidInv
<1>4. CASE PollToIngest(s)
  BY <1>4 DEF PollToIngest, Goto, EnqueueOnce, Enqueue, Active, NoJob, JobRow, Running,
     Types, TypeOK, Row, Tally, Excused, PaidInv
<1>5. CASE PollNote(s)
  BY <1>5 DEF PollNote, Goto, Running, Types, TypeOK, Row, Tally, Excused, PaidInv
<1>6. CASE PollNext(s)
  BY <1>6 DEF PollNext, Goto, EnqueuePoll, Enqueue, Active, NoJob, JobRow, Running, Types,
     TypeOK, Row, Tally, Excused, PaidInv
<1> QED BY <1>1, <1>2, <1>3, <1>4, <1>5, <1>6 DEF Poll

\* PaidInv under transcription.ingest: no new job, no handle cleared.
LEMMA PaidIngest ==
  ASSUME Types, PaidInv, Ingest PROVE PaidInv'
<1> USE SlotFacts
<1>s. seen["ingest"].handle \in Nat BY DEF Types, TypeOK, Snapshots
<1>1. CASE IngestLoad
  BY <1>1 DEF IngestLoad, Goto, Starts, Keep, ClaimJob, Running, Types, TypeOK, Row, Tally,
     Excused, PaidInv
<1>2. CASE IngestFetch
  BY <1>2 DEF IngestFetch, HandlerThrows, Reset, Goto, Keep, Fail, Running, Types, TypeOK,
     Row, Tally, Excused, PaidInv
<1>3. CASE IngestCommit
  BY <1>3 DEF IngestCommit, Goto, Running, Types, TypeOK, Row, Tally, Excused, PaidInv
<1>4. CASE IngestRelease
  BY <1>4, <1>s, ReplaceInSeq DEF IngestRelease, Goto, RemoteStates, Running, Types, TypeOK,
     Row, Tally, Excused, PaidInv
<1>5. CASE IngestNotify
  BY <1>5 DEF IngestNotify, Goto, Running, Types, TypeOK, Row, Tally, Excused, PaidInv
<1> QED BY <1>1, <1>2, <1>3, <1>4, <1>5 DEF Ingest

\* PaidInv under media.audio.transcode: no new job, no handle cleared.
LEMMA PaidTranscode ==
  ASSUME Types, PaidInv, Transcode PROVE PaidInv'
<1> USE SlotFacts
<1>1. CASE TranscodeLoad
  BY <1>1 DEF TranscodeLoad, Goto, Starts, ClaimJob, Running, Types, TypeOK, Row, Tally,
     Excused, PaidInv
<1>2. CASE TranscodeBroken
  BY <1>2, PaidThrowStep DEF TranscodeBroken
<1>3. CASE TranscodeOnNode
  BY <1>3 DEF TranscodeOnNode, Goto, Starts, ClaimJob, Running, Types, TypeOK, Row, Tally,
     Excused, PaidInv
<1>4. CASE TranscodeNodeResult
  BY <1>4 DEF TranscodeNodeResult, Goto, Running, Types, TypeOK, Row, Tally, Excused,
     PaidInv
<1>5. CASE TranscodeNodeFails
  BY <1>5, PaidHandlerThrows DEF TranscodeNodeFails
<1>6. CASE TranscodeAttach
  BY <1>6 DEF TranscodeAttach, Goto, Running, Types, TypeOK, Row, Tally, Excused, PaidInv
<1>7. CASE TranscodeWake
  BY <1>7 DEF TranscodeWake, Goto, Running, Types, TypeOK, Row, Tally, Excused, PaidInv
<1>8. CASE TranscodeQueue
  BY <1>8 DEF TranscodeQueue, Goto, MarkQueued, Running, Types, TypeOK, Row, Tally, Excused,
     PaidInv
<1>9. CASE TranscodeToSubmit
  BY <1>9 DEF TranscodeToSubmit, Goto, EnqueueOnce, Enqueue, Active, NoJob, JobRow, Running,
     Types, TypeOK, Row, Tally, Excused, PaidInv
<1>10. CASE TranscodeGiveUp
  BY <1>10 DEF TranscodeGiveUp, Goto, MarkPlaybackFailed, Running, Types, TypeOK, Row,
     Tally, Excused, PaidInv
<1>11. CASE TranscodeVerdict
  BY <1>11 DEF TranscodeVerdict, Goto, Running, Types, TypeOK, Row, Tally, Excused, PaidInv
<1>12. CASE TranscodeBlame
  BY <1>12, MarkFailedKeeps DEF TranscodeBlame, Goto, Running, Types, TypeOK, Row, Tally,
     Excused, PaidInv
<1>13. CASE TranscodeRethrow
  BY <1>13, PaidHandlerThrows DEF TranscodeRethrow
<1> QED BY <1>1, <1>2, <1>3, <1>4, <1>5, <1>6, <1>7, <1>8, <1>9, <1>10, <1>11, <1>12, <1>13 DEF Transcode

\* PaidInv under transcript.purge: no new job, no handle cleared.
LEMMA PaidPurge ==
  ASSUME Types, PaidInv, Purge PROVE PaidInv'
<1> USE SlotFacts
<1>s. seen["purge"].handle \in Nat BY DEF Types, TypeOK, Snapshots
<1>1. CASE PurgeLoad
  BY <1>1 DEF PurgeLoad, Goto, Starts, Keep, ClaimJob, Running, Types, TypeOK, Row, Tally,
     Excused, PaidInv
<1>2. CASE PurgeForgetRemote
  BY <1>2, <1>s, ReplaceInSeq DEF PurgeForgetRemote, Goto, RemoteStates, Running, Types,
     TypeOK, Row, Tally, Excused, PaidInv
<1>3. CASE PurgeDelete
  BY <1>3 DEF PurgeDelete, Goto, Running, Types, TypeOK, Row, Tally, Excused, PaidInv
<1> QED BY <1>1, <1>2, <1>3 DEF Purge

\* The worker: a submit that is refused half-way counts its answer as lost.
LEMMA PaidWorker ==
  ASSUME Types, PaidInv, NEW s \in Slots, Worker(s) PROVE PaidInv'
<1> USE SlotFacts
<1>1. CASE Finish(s)
  BY <1>1 DEF Finish, Reset, Goto, Keep, Complete, Running, Types, TypeOK, Row, Tally,
     Excused, PaidInv
<1>2. CASE UpdateRefused(s)
  BY <1>2, PaidThrowStep DEF UpdateRefused
<1>3. CASE Refuse(s)
  BY <1>3, MarkFailedKeeps DEF Refuse, Goto, Running, Types, TypeOK, Row, Tally, Excused,
     PaidInv
<1>4. CASE Reap(s)
  BY <1>4 DEF Reap, Fail, Running, Types, TypeOK, Row, Tally, Excused, PaidInv
<1> QED BY <1>1, <1>2, <1>3, <1>4 DEF Worker

\* PaidInv under the upload hook: no new job, no handle cleared.
LEMMA PaidHook ==
  ASSUME Types, PaidInv, NEW u \in Uploads, Hook(u) PROVE PaidInv'
<1> USE SlotFacts
<1>1. CASE HookPromote(u)
  BY <1>1 DEF HookPromote, Running, Types, TypeOK, Row, Tally, Excused, PaidInv
<1>2. CASE HookTranscode(u)
  BY <1>2 DEF HookTranscode, EnqueueOnce, Enqueue, Active, NoJob, JobRow, Running, Types,
     TypeOK, Row, Tally, Excused, PaidInv
<1>3. CASE HookMark(u)
  BY <1>3 DEF HookMark, Running, Types, TypeOK, Row, Tally, Excused, PaidInv
<1>4. CASE HookUnconfigured(u)
  BY <1>4, MarkFailedKeeps DEF HookUnconfigured, Running, Types, TypeOK, Row, Tally,
     Excused, PaidInv
<1>5. CASE HookChoose(u)
  BY <1>5, MarkFailedKeeps DEF HookChoose, Running, Types, TypeOK, Row, Tally, Excused,
     PaidInv
<1>6. CASE HookQueue(u)
  BY <1>6 DEF HookQueue, MarkQueued, Running, Types, TypeOK, Row, Tally, Excused, PaidInv
<1>7. CASE HookToSubmit(u)
  BY <1>7 DEF HookToSubmit, EnqueueOnce, Enqueue, Active, NoJob, JobRow, Running, Types,
     TypeOK, Row, Tally, Excused, PaidInv
<1>8. CASE HookAbort(u)
  BY <1>8, MarkFailedKeeps DEF HookAbort, Running, Types, TypeOK, Row, Tally, Excused,
     PaidInv
<1> QED BY <1>1, <1>2, <1>3, <1>4, <1>5, <1>6, <1>7, <1>8 DEF Hook

\* PaidInv under the checks of the owner's requests: no new job, no handle cleared.
LEMMA PaidCallBegins ==
  ASSUME Types, PaidInv, NEW c \in Callers, CallBegins(c) PROVE PaidInv'
BY SlotFacts DEF CallBegins, RetryBegins, Begin, Running, CancelBegins, RemoveBegins,
     Types, TypeOK, Row, Tally, Excused, PaidInv

\* The owner's requests: a handle that is cleared is counted as given up.
LEMMA PaidCallStep ==
  ASSUME Types, PaidInv, NEW c \in Callers, CallStep(c) PROVE PaidInv'
<1> USE SlotFacts
<1>s. call[c].handle \in Nat BY DEF Types, TypeOK, Calls
<1>1. CASE RetryReopens(c)
  BY <1>1 DEF RetryReopens, Running, Types, TypeOK, Row, Tally, Excused, PaidInv
<1>2. CASE RetryResumes(c)
  BY <1>2 DEF RetryResumes, Running, Types, TypeOK, Row, Tally, Excused, PaidInv
<1>3. CASE RetryPolls(c)
  BY <1>3 DEF RetryPolls, EnqueuePoll, Enqueue, Active, NoJob, JobRow, Running, Types,
     TypeOK, Row, Tally, Excused, PaidInv
<1>4. CASE RetryClears(c)
  BY <1>4 DEF RetryClears, Running, Types, TypeOK, Row, Tally, Excused, PaidInv
<1>5. CASE RetryQueues(c)
  BY <1>5 DEF RetryQueues, MarkQueued, Running, Types, TypeOK, Row, Tally, Excused, PaidInv
<1>6. CASE RetrySubmits(c)
  BY <1>6 DEF RetrySubmits, EnqueueOnce, Enqueue, Active, NoJob, JobRow, Running, Types,
     TypeOK, Row, Tally, Excused, PaidInv
<1>7. CASE CancelStopsRemote(c)
  BY <1>7, <1>s, ReplaceInSeq DEF CancelStopsRemote, RemoteStates, Running, Types, TypeOK,
     Row, Tally, Excused, PaidInv
<1>8. CASE CancelWrites(c)
  BY <1>8 DEF CancelWrites, Running, Types, TypeOK, Row, Tally, Excused, PaidInv
<1>9. CASE RemoveDeletes(c)
  BY <1>9 DEF RemoveDeletes, Running, Types, TypeOK, Row, Tally, Excused, PaidInv
<1>10. CASE RemovePurges(c)
  BY <1>10 DEF RemovePurges, EnqueueOnce, Enqueue, Active, NoJob, JobRow, Running, Types,
     TypeOK, Row, Tally, Excused, PaidInv
<1> QED BY <1>1, <1>2, <1>3, <1>4, <1>5, <1>6, <1>7, <1>8, <1>9, <1>10 DEF CallStep

\* PaidInv under the failure listener: no new job, no handle cleared.
LEMMA PaidListener ==
  ASSUME Types, PaidInv, NEW s \in Slots, Listener(s) PROVE PaidInv'
<1> USE SlotFacts
<1>1. CASE ListenerCheck(s)
  BY <1>1 DEF ListenerCheck, Running, Types, TypeOK, Row, Tally, Excused, PaidInv
<1>2. CASE ListenerWrite(s)
  BY <1>2, MarkFailedKeeps DEF ListenerWrite, MarkPlaybackFailed, Running, Types, TypeOK,
     Row, Tally, Excused, PaidInv
<1>3. CASE ListenerVerdict(s)
  BY <1>3 DEF ListenerVerdict, Running, Types, TypeOK, Row, Tally, Excused, PaidInv
<1>4. CASE ListenerBlame(s)
  BY <1>4, MarkFailedKeeps DEF ListenerBlame, Running, Types, TypeOK, Row, Tally, Excused,
     PaidInv
<1> QED BY <1>1, <1>2, <1>3, <1>4 DEF Listener

\* PaidInv under the sweep: no new job, no handle cleared.
LEMMA PaidSweep ==
  ASSUME Types, PaidInv, Sweep PROVE PaidInv'
BY SlotFacts DEF Sweep, SweepFinds, Running, SweepChecks, SweepRestarts, EnqueuePoll,
     Enqueue, Active, NoJob, JobRow, Types, TypeOK, Row, Tally, Excused, PaidInv

\* PaidInv under the provider and the clock: no new job, no handle cleared.
LEMMA PaidWorld ==
  ASSUME Types, PaidInv, RemoteFinishes \/ DeadlinePasses PROVE PaidInv'
<1> USE SlotFacts
<1>1. CASE RemoteFinishes
  BY <1>1, ReplaceInSeq DEF RemoteFinishes, RemoteStates, Running, Types, TypeOK, Row,
     Tally, Excused, PaidInv
<1>2. CASE DeadlinePasses
  BY <1>2 DEF DeadlinePasses, Running, Types, TypeOK, Row, Tally, Excused, PaidInv
<1> QED BY <1>1, <1>2

\* A throw or a crash between the answer and its record counts the answer as lost.
LEMMA PaidFaults ==
  ASSUME Types, PaidInv, Faults PROVE PaidInv'
<1> USE SlotFacts
<1>1. ASSUME NEW s \in Slots, Throw(s) PROVE PaidInv'
  BY <1>1, PaidThrowStep DEF Throw
<1>2. ASSUME NEW s \in Slots, RateLimited(s) PROVE PaidInv'
  BY <1>2 DEF RateLimited, Reset, Goto, Keep, Defer, Running, Types, TypeOK, Row, Tally,
     Excused, PaidInv
<1>3. ASSUME NEW s \in Slots, ListenerThrows(s) PROVE PaidInv'
  BY <1>3 DEF ListenerThrows, Running, Types, TypeOK, Row, Tally, Excused, PaidInv
<1>4. CASE SweepThrows
  BY <1>4 DEF SweepThrows, Running, Types, TypeOK, Row, Tally, Excused, PaidInv
<1>5. ASSUME NEW u \in Uploads, HookThrows(u) PROVE PaidInv'
  BY <1>5 DEF HookThrows, Running, Types, TypeOK, Row, Tally, Excused, PaidInv
<1>6. ASSUME NEW c \in Callers, CallThrows(c) PROVE PaidInv'
  BY <1>6 DEF CallThrows, Running, Types, TypeOK, Row, Tally, Excused, PaidInv
<1>7. CASE Crash
  BY <1>7 DEF Crash, AbandonAll, Running, Types, TypeOK, Row, Tally, Excused, PaidInv
<1> QED BY <1>1, <1>2, <1>3, <1>4, <1>5, <1>6, <1>7 DEF Faults

\* The provider has no job initially.
LEMMA PaidInit == Init => PaidInv
BY SlotFacts DEF Init, PaidInv, Excused

\* Every step keeps PaidInv.
LEMMA PaidNext == ASSUME Types, PaidInv, [Next]_vars PROVE PaidInv'
<1>1. ASSUME NEW s \in Slots, Handler(s) PROVE PaidInv'
  BY <1>1, PaidSubmit, PaidPoll, PaidIngest, PaidTranscode, PaidPurge DEF Handler
<1>2. CASE UNCHANGED vars
  BY <1>2 DEF vars, PaidInv, Excused, Running
<1> QED
  BY <1>1, <1>2, PaidWorker, PaidHook, PaidCallBegins, PaidCallStep, PaidListener, PaidSweep, PaidWorld, PaidFaults
  DEF Next

\* One recording is one provider job, but for lost answers and handles a retry gave up.
THEOREM PaidOnceHolds == Spec => []PaidOnce
<1>1. Types /\ PaidInv => PaidOnce BY DEF Types, TypeOK, Row, Tally, PaidInv, PaidOnce, Excused
<1> QED BY TypesInit, TypesNext, PaidInit, PaidNext, <1>1, PTL DEF Spec

-------------------------------------------------------------------------------
(* The notice of failure.                                                  *)

\* A live transcript that is not failed has had at most one notice for each time it left
\* `failed`, so its next one is within the bound.
FailInv ==
  /\ FailureToldOnce
  /\ ~row.deleted /\ row.status \notin {"failed", "gone"}
       => tally.failed <= tally.reopened + row.version

\* The write that counts the notice is the one that makes the transcript failed.
LEMMA FailMarkFailed ==
  ASSUME Types, FailInv, NEW stage, MarkFailed(stage) PROVE FailInv'
<1>1. CASE Live /\ row.status \notin {"failed", "deleting"}
  <2>1. row' = [row EXCEPT !.status = "failed",
                         !.ts = IF stage \in {"transcription", "ingest"} THEN "failed" ELSE @]
    BY <1>1 DEF MarkFailed
  <2>2. row'.status = "failed" /\ row'.version = row.version
    BY <2>1 DEF Types, TypeOK, Row
  <2>3. tally' = [tally EXCEPT !.failed = @ + 1] BY <1>1 DEF MarkFailed
  <2>4. tally'.failed = tally.failed + 1 /\ tally'.reopened = tally.reopened
    BY <2>3 DEF Types, TypeOK, Tally
  <2>5. tally.failed <= tally.reopened + row.version BY <1>1 DEF FailInv, Live, Exists
  <2>6. tally.failed \in Nat /\ tally.reopened \in Nat /\ row.version \in Nat
    BY DEF Types, TypeOK, Row, Tally
  <2> QED BY <2>2, <2>4, <2>5, <2>6 DEF FailInv, FailureToldOnce
<1>2. CASE ~(Live /\ row.status \notin {"failed", "deleting"})
  BY <1>2 DEF MarkFailed, FailInv, FailureToldOnce
<1> QED BY <1>1, <1>2

\* FailInv under transcription.submit: a notice is counted by the write that fails the transcript.
LEMMA FailSubmit ==
  ASSUME Types, FailInv, Submit PROVE FailInv'
<1> USE SlotFacts
<1>1. CASE SubmitLoad
  BY <1>1 DEF SubmitLoad, Goto, Starts, Types, TypeOK, Row, Tally, FailInv, FailureToldOnce
<1>2. CASE SubmitWaits
  BY <1>2 DEF SubmitWaits, Goto, Types, TypeOK, Row, Tally, FailInv, FailureToldOnce
<1>3. CASE SubmitSelects
  BY <1>3 DEF SubmitSelects, Goto, Types, TypeOK, Row, Tally, FailInv, FailureToldOnce
<1>4. CASE SubmitAccepted
  BY <1>4 DEF SubmitAccepted, Goto, Types, TypeOK, Row, Tally, FailInv, FailureToldOnce
<1>5. CASE SubmitAnswerLost
  BY <1>5 DEF SubmitAnswerLost, Reset, Goto, Types, TypeOK, Row, Tally, FailInv,
     FailureToldOnce
<1>6. CASE SubmitRecord
  BY <1>6 DEF SubmitRecord, Goto, Types, TypeOK, Row, Tally, FailInv, FailureToldOnce
<1>7. CASE SubmitFirstPoll
  BY <1>7 DEF SubmitFirstPoll, Goto, Types, TypeOK, Row, Tally, FailInv, FailureToldOnce
<1> QED BY <1>1, <1>2, <1>3, <1>4, <1>5, <1>6, <1>7 DEF Submit

\* FailInv under transcription.poll: a notice is counted by the write that fails the transcript.
LEMMA FailPoll ==
  ASSUME Types, FailInv, NEW s \in PollSlots, Poll(s) PROVE FailInv'
<1> USE SlotFacts
<1>1. CASE PollLoad(s)
  BY <1>1 DEF PollLoad, Goto, Starts, Types, TypeOK, Row, Tally, FailInv, FailureToldOnce
<1>2. CASE PollAsk(s)
  BY <1>2 DEF PollAsk, Goto, Types, TypeOK, Row, Tally, FailInv, FailureToldOnce
<1>3. CASE PollComplete(s)
  BY <1>3 DEF PollComplete, Goto, Types, TypeOK, Row, Tally, FailInv, FailureToldOnce
<1>4. CASE PollToIngest(s)
  BY <1>4 DEF PollToIngest, Goto, Types, TypeOK, Row, Tally, FailInv, FailureToldOnce
<1>5. CASE PollNote(s)
  BY <1>5 DEF PollNote, Goto, Types, TypeOK, Row, Tally, FailInv, FailureToldOnce
<1>6. CASE PollNext(s)
  BY <1>6 DEF PollNext, Goto, Types, TypeOK, Row, Tally, FailInv, FailureToldOnce
<1> QED BY <1>1, <1>2, <1>3, <1>4, <1>5, <1>6 DEF Poll

\* The ingest that makes a failed transcript ready writes its only version 1.
LEMMA FailIngest ==
  ASSUME Types, FailInv, Ingest PROVE FailInv'
<1> USE SlotFacts
<1>1. CASE IngestLoad
  BY <1>1 DEF IngestLoad, Goto, Starts, Types, TypeOK, Row, Tally, FailInv, FailureToldOnce
<1>2. CASE IngestFetch
  BY <1>2 DEF IngestFetch, HandlerThrows, Reset, Goto, Types, TypeOK, Row, Tally, FailInv,
     FailureToldOnce
<1>3. CASE IngestCommit
  BY <1>3 DEF IngestCommit, Goto, Exists, Types, TypeOK, Row, Tally, FailInv,
     FailureToldOnce
<1>4. CASE IngestRelease
  BY <1>4 DEF IngestRelease, Goto, Types, TypeOK, Row, Tally, FailInv, FailureToldOnce
<1>5. CASE IngestNotify
  BY <1>5 DEF IngestNotify, Goto, Types, TypeOK, Row, Tally, FailInv, FailureToldOnce
<1> QED BY <1>1, <1>2, <1>3, <1>4, <1>5 DEF Ingest

\* FailInv under media.audio.transcode: a notice is counted by the write that fails the transcript.
LEMMA FailTranscode ==
  ASSUME Types, FailInv, Transcode PROVE FailInv'
<1> USE SlotFacts
<1>1. CASE TranscodeLoad
  BY <1>1 DEF TranscodeLoad, Goto, Starts, Types, TypeOK, Row, Tally, FailInv,
     FailureToldOnce
<1>2. CASE TranscodeBroken
  BY <1>2 DEF TranscodeBroken, ThrowStep, HandlerThrows, Reset, Goto, Types, TypeOK, Row,
     Tally, FailInv, FailureToldOnce
<1>3. CASE TranscodeOnNode
  BY <1>3 DEF TranscodeOnNode, Goto, Starts, Types, TypeOK, Row, Tally, FailInv,
     FailureToldOnce
<1>4. CASE TranscodeNodeResult
  BY <1>4 DEF TranscodeNodeResult, Goto, Types, TypeOK, Row, Tally, FailInv, FailureToldOnce
<1>5. CASE TranscodeNodeFails
  BY <1>5 DEF TranscodeNodeFails, HandlerThrows, Reset, Goto, Types, TypeOK, Row, Tally,
     FailInv, FailureToldOnce
<1>6. CASE TranscodeAttach
  BY <1>6 DEF TranscodeAttach, Goto, Types, TypeOK, Row, Tally, FailInv, FailureToldOnce
<1>7. CASE TranscodeWake
  BY <1>7 DEF TranscodeWake, Goto, Types, TypeOK, Row, Tally, FailInv, FailureToldOnce
<1>8. CASE TranscodeQueue
  BY <1>8 DEF TranscodeQueue, Goto, MarkQueued, Types, TypeOK, Row, Tally, FailInv,
     FailureToldOnce
<1>9. CASE TranscodeToSubmit
  BY <1>9 DEF TranscodeToSubmit, Goto, Types, TypeOK, Row, Tally, FailInv, FailureToldOnce
<1>10. CASE TranscodeGiveUp
  BY <1>10 DEF TranscodeGiveUp, Goto, MarkPlaybackFailed, Types, TypeOK, Row, Tally,
     FailInv, FailureToldOnce
<1>11. CASE TranscodeVerdict
  BY <1>11 DEF TranscodeVerdict, Goto, Types, TypeOK, Row, Tally, FailInv, FailureToldOnce
<1>12. CASE TranscodeBlame
  BY <1>12, FailMarkFailed DEF TranscodeBlame, Goto, Types, TypeOK, Row, Tally, FailInv,
     FailureToldOnce
<1>13. CASE TranscodeRethrow
  BY <1>13 DEF TranscodeRethrow, HandlerThrows, Reset, Goto, Types, TypeOK, Row, Tally,
     FailInv, FailureToldOnce
<1> QED BY <1>1, <1>2, <1>3, <1>4, <1>5, <1>6, <1>7, <1>8, <1>9, <1>10, <1>11, <1>12, <1>13 DEF Transcode

\* FailInv under transcript.purge: a notice is counted by the write that fails the transcript.
LEMMA FailPurge ==
  ASSUME Types, FailInv, Purge PROVE FailInv'
BY SlotFacts DEF Purge, PurgeLoad, Goto, Starts, PurgeForgetRemote, PurgeDelete, Types,
     TypeOK, Row, Tally, FailInv, FailureToldOnce

\* FailInv under the worker and the reaper: a notice is counted by the write that fails the transcript.
LEMMA FailWorker ==
  ASSUME Types, FailInv, NEW s \in Slots, Worker(s) PROVE FailInv'
<1> USE SlotFacts
<1>1. CASE Finish(s)
  BY <1>1 DEF Finish, Reset, Goto, Types, TypeOK, Row, Tally, FailInv, FailureToldOnce
<1>2. CASE UpdateRefused(s)
  BY <1>2 DEF UpdateRefused, ThrowStep, HandlerThrows, Reset, Goto, Types, TypeOK, Row,
     Tally, FailInv, FailureToldOnce
<1>3. CASE Refuse(s)
  BY <1>3, FailMarkFailed DEF Refuse, Goto, Types, TypeOK, Row, Tally, FailInv,
     FailureToldOnce
<1>4. CASE Reap(s)
  BY <1>4 DEF Reap, Types, TypeOK, Row, Tally, FailInv, FailureToldOnce
<1> QED BY <1>1, <1>2, <1>3, <1>4 DEF Worker

\* FailInv under the upload hook: a notice is counted by the write that fails the transcript.
LEMMA FailHook ==
  ASSUME Types, FailInv, NEW u \in Uploads, Hook(u) PROVE FailInv'
<1> USE SlotFacts
<1>1. CASE HookPromote(u)
  BY <1>1 DEF HookPromote, Exists, Live, Types, TypeOK, Row, Tally, FailInv, FailureToldOnce
<1>2. CASE HookTranscode(u)
  BY <1>2 DEF HookTranscode, Types, TypeOK, Row, Tally, FailInv, FailureToldOnce
<1>3. CASE HookMark(u)
  BY <1>3 DEF HookMark, Types, TypeOK, Row, Tally, FailInv, FailureToldOnce
<1>4. CASE HookUnconfigured(u)
  BY <1>4, FailMarkFailed DEF HookUnconfigured, Types, TypeOK, Row, Tally, FailInv,
     FailureToldOnce
<1>5. CASE HookChoose(u)
  BY <1>5, FailMarkFailed DEF HookChoose, Types, TypeOK, Row, Tally, FailInv,
     FailureToldOnce
<1>6. CASE HookQueue(u)
  BY <1>6 DEF HookQueue, MarkQueued, Types, TypeOK, Row, Tally, FailInv, FailureToldOnce
<1>7. CASE HookToSubmit(u)
  BY <1>7 DEF HookToSubmit, Types, TypeOK, Row, Tally, FailInv, FailureToldOnce
<1>8. CASE HookAbort(u)
  BY <1>8, FailMarkFailed DEF HookAbort, Types, TypeOK, Row, Tally, FailInv, FailureToldOnce
<1> QED BY <1>1, <1>2, <1>3, <1>4, <1>5, <1>6, <1>7, <1>8 DEF Hook

\* FailInv under the checks of the owner's requests: a notice is counted by the write that fails the transcript.
LEMMA FailCallBegins ==
  ASSUME Types, FailInv, NEW c \in Callers, CallBegins(c) PROVE FailInv'
BY SlotFacts DEF CallBegins, RetryBegins, Begin, CancelBegins, RemoveBegins, Types,
     TypeOK, Row, Tally, FailInv, FailureToldOnce

\* The owner's requests: a reopening is counted, a removal ends all notices.
LEMMA FailCallStep ==
  ASSUME Types, FailInv, NEW c \in Callers, CallStep(c) PROVE FailInv'
<1> USE SlotFacts
<1>1. CASE RetryReopens(c)
  BY <1>1 DEF RetryReopens, Exists, Types, TypeOK, Row, Tally, FailInv, FailureToldOnce
<1>2. CASE RetryResumes(c)
  BY <1>2 DEF RetryResumes, Types, TypeOK, Row, Tally, FailInv, FailureToldOnce
<1>3. CASE RetryPolls(c)
  BY <1>3 DEF RetryPolls, Types, TypeOK, Row, Tally, FailInv, FailureToldOnce
<1>4. CASE RetryClears(c)
  BY <1>4 DEF RetryClears, Types, TypeOK, Row, Tally, FailInv, FailureToldOnce
<1>5. CASE RetryQueues(c)
  BY <1>5 DEF RetryQueues, MarkQueued, Types, TypeOK, Row, Tally, FailInv, FailureToldOnce
<1>6. CASE RetrySubmits(c)
  BY <1>6 DEF RetrySubmits, Types, TypeOK, Row, Tally, FailInv, FailureToldOnce
<1>7. CASE CancelStopsRemote(c)
  BY <1>7 DEF CancelStopsRemote, Types, TypeOK, Row, Tally, FailInv, FailureToldOnce
<1>8. CASE CancelWrites(c)
  BY <1>8 DEF CancelWrites, Exists, Types, TypeOK, Row, Tally, FailInv, FailureToldOnce
<1>9. CASE RemoveDeletes(c)
  BY <1>9 DEF RemoveDeletes, Exists, Types, TypeOK, Row, Tally, FailInv, FailureToldOnce
<1>10. CASE RemovePurges(c)
  BY <1>10 DEF RemovePurges, Types, TypeOK, Row, Tally, FailInv, FailureToldOnce
<1> QED BY <1>1, <1>2, <1>3, <1>4, <1>5, <1>6, <1>7, <1>8, <1>9, <1>10 DEF CallStep

\* FailInv under the failure listener: a notice is counted by the write that fails the transcript.
LEMMA FailListener ==
  ASSUME Types, FailInv, NEW s \in Slots, Listener(s) PROVE FailInv'
<1> USE SlotFacts
<1>1. CASE ListenerCheck(s)
  BY <1>1 DEF ListenerCheck, Types, TypeOK, Row, Tally, FailInv, FailureToldOnce
<1>2. CASE ListenerWrite(s)
  BY <1>2, FailMarkFailed DEF ListenerWrite, MarkPlaybackFailed, Types, TypeOK, Row, Tally,
     FailInv, FailureToldOnce
<1>3. CASE ListenerVerdict(s)
  BY <1>3 DEF ListenerVerdict, Types, TypeOK, Row, Tally, FailInv, FailureToldOnce
<1>4. CASE ListenerBlame(s)
  BY <1>4, FailMarkFailed DEF ListenerBlame, Types, TypeOK, Row, Tally, FailInv,
     FailureToldOnce
<1> QED BY <1>1, <1>2, <1>3, <1>4 DEF Listener

\* FailInv under the sweep: a notice is counted by the write that fails the transcript.
LEMMA FailSweep ==
  ASSUME Types, FailInv, Sweep PROVE FailInv'
BY SlotFacts DEF Sweep, SweepFinds, SweepChecks, SweepRestarts, Types, TypeOK, Row, Tally,
     FailInv, FailureToldOnce

\* FailInv under the provider and the clock: a notice is counted by the write that fails the transcript.
LEMMA FailWorld ==
  ASSUME Types, FailInv, RemoteFinishes \/ DeadlinePasses PROVE FailInv'
BY SlotFacts DEF RemoteFinishes, DeadlinePasses, Exists, Live, Types, TypeOK, Row, Tally,
     FailInv, FailureToldOnce

\* FailInv under thrown errors, 429s and crashes: a notice is counted by the write that fails the transcript.
LEMMA FailFaults ==
  ASSUME Types, FailInv, Faults PROVE FailInv'
<1> USE SlotFacts
<1>1. ASSUME NEW s \in Slots, Throw(s) PROVE FailInv'
  BY <1>1 DEF Throw, ThrowStep, HandlerThrows, Reset, Goto, Types, TypeOK, Row, Tally,
     FailInv, FailureToldOnce
<1>2. ASSUME NEW s \in Slots, RateLimited(s) PROVE FailInv'
  BY <1>2 DEF RateLimited, Reset, Goto, Types, TypeOK, Row, Tally, FailInv, FailureToldOnce
<1>3. ASSUME NEW s \in Slots, ListenerThrows(s) PROVE FailInv'
  BY <1>3 DEF ListenerThrows, Types, TypeOK, Row, Tally, FailInv, FailureToldOnce
<1>4. CASE SweepThrows
  BY <1>4 DEF SweepThrows, Types, TypeOK, Row, Tally, FailInv, FailureToldOnce
<1>5. ASSUME NEW u \in Uploads, HookThrows(u) PROVE FailInv'
  BY <1>5 DEF HookThrows, Types, TypeOK, Row, Tally, FailInv, FailureToldOnce
<1>6. ASSUME NEW c \in Callers, CallThrows(c) PROVE FailInv'
  BY <1>6 DEF CallThrows, Types, TypeOK, Row, Tally, FailInv, FailureToldOnce
<1>7. CASE Crash
  BY <1>7 DEF Crash, Types, TypeOK, Row, Tally, FailInv, FailureToldOnce
<1> QED BY <1>1, <1>2, <1>3, <1>4, <1>5, <1>6, <1>7 DEF Faults

\* Nothing has failed initially.
LEMMA FailInit == Init => FailInv
BY DEF Init, FailInv, FailureToldOnce

\* Every step keeps FailInv.
LEMMA FailNext == ASSUME Types, FailInv, [Next]_vars PROVE FailInv'
<1>1. ASSUME NEW s \in Slots, Handler(s) PROVE FailInv'
  BY <1>1, FailSubmit, FailPoll, FailIngest, FailTranscode, FailPurge DEF Handler
<1>2. CASE UNCHANGED vars
  BY <1>2 DEF vars, FailInv, FailureToldOnce
<1> QED
  BY <1>1, <1>2, FailWorker, FailHook, FailCallBegins, FailCallStep, FailListener, FailSweep, FailWorld, FailFaults
  DEF Next

\* A transcript that fails is announced once, until it leaves `failed` again.
THEOREM FailureToldOnceHolds == Spec => []FailureToldOnce
<1>1. Types /\ FailInv => FailureToldOnce BY DEF Types, TypeOK, Row, Tally, FailInv, FailureToldOnce
<1> QED BY TypesInit, TypesNext, FailInit, FailNext, <1>1, PTL DEF Spec

-------------------------------------------------------------------------------
(* One chain of polls.                                                     *)

\* Who may still cause a submit, once its event promoted the transcript: the transcode, in a
\* build that has one, or else the hook itself.
Promoted == {"transcode", "mark", "choose", "queue", "toSubmit"}
Opening  == IF TranscodeRegistered THEN {"transcode"} ELSE Promoted

\* The job in s may still cause the next one.
Carries(s) == Active(s) /\ pc[s] # "done"

\* Only the upload starts the pipeline, and only in one way: the owner does not retry, and a
\* build that transcodes does not submit the file as it was uploaded.
OneStart ==
  /\ "retry" \notin OwnerCalls
  /\ TranscodeRegistered =>
       \A o \in Originals : SelectTranscriptionInput(AudioDelivery, o, {}, TRUE) # "original"

\* The sweep has something to find only once a process has died: it passes over a transcript
\* that was touched in the last twenty minutes.
SweepLate == used.crashes = 0 => sweep = "idle"

\* One job carries the transcript on, or a hook is about to start one, and never both.
Chain ==
  /\ row.original \in Originals
  /\ \A s \in Slots : job[s].state # "abandoned" /\ (~Running(s) => pc[s] = "idle")
  /\ \A c \in Callers : call[c].pc \in {"idle", "stopRemote", "cancel", "delete", "toPurge"}
  /\ row.status = "uploading" =>
       /\ \A s \in PipelineSlots : ~Active(s)
       /\ \A u \in Uploads : hook[u] \notin Promoted
  /\ TranscodeRegistered => \A u \in Uploads : hook[u] \notin {"queue", "toSubmit"}
  /\ ~TranscodeRegistered => ~Active("transcode")
  /\ \A u, v \in Uploads : hook[u] \in Promoted /\ hook[v] \in Promoted => u = v
  /\ \A u \in Uploads : hook[u] \in Opening => \A s \in PipelineSlots : ~Carries(s)
  /\ \A s, k \in PipelineSlots : Carries(s) /\ Carries(k) => s = k

ChainInv == used.crashes = 0 => Chain

\* The upload is over once and for all, and the file stays.
RowGoesOn == row'.original = row.original /\ (row'.status = "uploading" => row.status = "uploading")

\* The slots of the pipeline are slots, and the purge's is none of them.
LEMMA LinkFacts ==
  /\ PipelineSlots \subseteq Slots /\ "purge" \notin PipelineSlots
  /\ Slots = PipelineSlots \cup {"purge"}
  /\ {"submit", "ingest", "transcode"} \subseteq PipelineSlots /\ PollSlots \subseteq PipelineSlots
BY SlotsAssumption DEF PipelineSlots, PipelineTypes

\* A step of the handler in s that starts no other job.
LEMMA ChainMove ==
  ASSUME Types, Chain, NEW s \in Slots, UNCHANGED <<hook, call>>, RowGoesOn,
         \A k \in Slots \ {s} : job'[k] = job[k] /\ pc'[k] = pc[k],
         job'[s].state # "abandoned", job'[s].state # "running" => pc'[s] = "idle",
         Active(s), Carries(s)' => Carries(s)
  PROVE  Chain'
<1> USE LinkFacts
<1>1. \A k \in Slots : /\ Carries(k)' => Carries(k)
                       /\ Active(k)' => Active(k)
                       /\ job'[k].state # "abandoned" /\ (~Running(k)' => pc'[k] = "idle")
  BY DEF Chain, Carries, Active, Running
<1>2. row'.original \in Originals BY DEF Chain, RowGoesOn
<1>3. row'.status = "uploading" =>
        /\ \A k \in PipelineSlots : ~Active(k)'
        /\ \A u \in Uploads : hook'[u] \notin Promoted
  BY <1>1 DEF Chain, RowGoesOn
<1>4. ~TranscodeRegistered => ~Active("transcode")' BY <1>1 DEF Chain
<1>5. \A u \in Uploads : hook'[u] \in Opening => \A k \in PipelineSlots : ~Carries(k)'
  BY <1>1 DEF Chain
<1>6. \A k, l \in PipelineSlots : Carries(k)' /\ Carries(l)' => k = l BY <1>1 DEF Chain
<1> QED BY <1>1, <1>2, <1>3, <1>4, <1>5, <1>6 DEF Chain

\* It moves on,
LEMMA ChainGoto ==
  ASSUME Types, Chain, NEW s \in Slots, Running(s), pc[s] # "done", NEW p, Goto(s, p),
         UNCHANGED <<hook, call, job>>, RowGoesOn
  PROVE  Chain'
<1>1. /\ \A k \in Slots \ {s} : job'[k] = job[k] /\ pc'[k] = pc[k]
      /\ job'[s].state = "running" /\ Active(s) /\ Carries(s)
  BY DEF Goto, Types, TypeOK, Running, Active, Carries
<1> QED BY <1>1, ChainMove

\* begins,
LEMMA ChainStarts ==
  ASSUME Types, Chain, NEW s \in Slots, NEW p, Starts(s, p), UNCHANGED <<hook, call>>, RowGoesOn
  PROVE  Chain'
<1>1. /\ \A k \in Slots \ {s} : job'[k] = job[k] /\ pc'[k] = pc[k]
      /\ job'[s].state = "running" /\ job[s].state = "pending"
  BY DEF Starts, ClaimJob, Goto, Types, TypeOK, JobRow
<1>2. Active(s) /\ Carries(s) BY <1>1 DEF Active, Carries, Chain, Running
<1> QED BY <1>1, <1>2, ChainMove

\* or ends.
LEMMA ChainEnds ==
  ASSUME Types, Chain, NEW s \in Slots, Fail(s) \/ Defer(s) \/ Complete(s), Reset(s),
         Complete(s) \/ pc[s] # "done",
         UNCHANGED <<hook, call>>, RowGoesOn
  PROVE  Chain'
<1>1. job[s].state = "running" BY DEF Fail, Defer, Complete, Running, Chain
<1>2. /\ \A k \in Slots \ {s} : job'[k] = job[k] /\ pc'[k] = pc[k]
      /\ job'[s].state \in {"none", "pending"} /\ pc'[s] = "idle"
      /\ Complete(s) => job'[s].state = "none"
  BY DEF Fail, Defer, Complete, Reset, Goto, Types, TypeOK, JobRow, NoJob
<1>3. Carries(s)' => Carries(s) BY <1>1, <1>2 DEF Carries, Active
<1> QED BY <1>1, <1>2, <1>3, ChainMove DEF Active

\* What the queue holds after an enqueue.
LEMMA QueueGains ==
  ASSUME Types, NEW k \in Slots, EnqueueOnce(k)
  PROVE  /\ \A l \in Slots \ {k} : job'[l] = job[l]
         /\ (~Active(k) /\ job'[k].state = "pending") \/ (Active(k) /\ job'[k] = job[k])
<1>1. CASE Enqueue(k)
  BY <1>1 DEF Enqueue, Types, TypeOK, NoJob
<1>2. CASE Active(k) /\ UNCHANGED job BY <1>2
<1> QED BY <1>1, <1>2 DEF EnqueueOnce

\* A job or a hook that starts another has done its part.
LEMMA ChainPasses ==
  ASSUME Types, Chain, NEW k \in PipelineSlots, EnqueueOnce(k), UNCHANGED <<call, row>>,
         row.status # "uploading", k = "transcode" => TranscodeRegistered,
         \A l \in PipelineSlots \ {k} : ~Carries(l)',
         \A l \in Slots : pc'[l] = pc[l] \/ (Running(l) /\ l # k),
         \A u \in Uploads : hook'[u] \notin Opening, \A u \in Uploads : hook'[u] \in Promoted => hook[u] \in Promoted,
         TranscodeRegistered => \A u \in Uploads : hook'[u] \notin {"queue", "toSubmit"}
  PROVE  Chain'
<1> USE LinkFacts
<1>1. /\ \A l \in Slots \ {k} : job'[l] = job[l]
      /\ (~Active(k) /\ job'[k].state = "pending") \/ (Active(k) /\ job'[k] = job[k])
  BY QueueGains
<1>2. ASSUME NEW l \in Slots
      PROVE  job'[l].state # "abandoned" /\ (~Running(l)' => pc'[l] = "idle")
  <2>1. CASE l = k
    <3>1. pc'[k] = pc[k] BY <2>1
    <3> QED BY <1>1, <2>1, <3>1 DEF Chain, Running, Active
  <2>2. CASE l # k BY <1>1, <2>2 DEF Chain, Running
  <2> QED BY <2>1, <2>2
<1>3. ~TranscodeRegistered => ~Active("transcode")'
  <2>1. CASE k = "transcode" BY <2>1
  <2>2. CASE k # "transcode" BY <1>1, <2>2 DEF Chain, Active
  <2> QED BY <2>1, <2>2
<1>4. \A l, m \in PipelineSlots : Carries(l)' /\ Carries(m)' => l = m OBVIOUS
<1>5. \A u, v \in Uploads : hook'[u] \in Promoted /\ hook'[v] \in Promoted => u = v BY DEF Chain
<1>6. row'.status # "uploading" /\ row'.original \in Originals BY DEF Chain
<1>7. \A c \in Callers : call'[c].pc \in {"idle", "stopRemote", "cancel", "delete", "toPurge"}
  BY DEF Chain
<1> QED BY <1>2, <1>3, <1>4, <1>5, <1>6, <1>7 DEF Chain

\* A carrier that passes the transcript on.
LEMMA ChainHands ==
  ASSUME Types, Chain, NEW s \in PipelineSlots, Running(s), pc[s] # "done", Goto(s, "done"),
         NEW k \in PipelineSlots, EnqueueOnce(k), k # "transcode", k # s,
         UNCHANGED <<row, hook, call>>
  PROVE  Chain'
<1> USE LinkFacts
<1>1. Carries(s) BY DEF Carries, Active, Running
<1>2. /\ \A l \in Slots \ {k} : job'[l] = job[l]
      /\ \A l \in Slots \ {s} : pc'[l] = pc[l]
      /\ pc'[s] = "done"
  BY QueueGains DEF Goto, Types, TypeOK
<1>3. ASSUME NEW l \in PipelineSlots \ {k} PROVE ~Carries(l)'
  <2>1. CASE l = s BY <1>2, <2>1 DEF Carries
  <2>2. CASE l # s
    <3>1. ~Carries(l) BY <1>1, <2>2 DEF Chain
    <3> QED BY <1>2, <2>2, <3>1 DEF Carries, Active
  <2> QED BY <2>1, <2>2
<1>4. \A u \in Uploads : hook'[u] \notin Opening BY <1>1 DEF Chain
<1>5. row.status # "uploading" BY DEF Chain, Active, Running
<1>6. \A l \in Slots : pc'[l] = pc[l] \/ (Running(l) /\ l # k) BY <1>2
<1>7. TranscodeRegistered => \A u \in Uploads : hook'[u] \notin {"queue", "toSubmit"} BY DEF Chain
<1> QED BY <1>3, <1>4, <1>5, <1>6, <1>7, ChainPasses

\* The next poll.
LEMMA ChainPolls ==
  ASSUME Types, Chain, NEW s \in PipelineSlots, Running(s), pc[s] # "done", Goto(s, "done"), EnqueuePoll,
         UNCHANGED <<row, hook, call>>
  PROVE  Chain'
<1> USE LinkFacts
<1>1. PICK k \in PollSlots : Enqueue(k) BY DEF EnqueuePoll
<1>2. k # s BY <1>1 DEF Enqueue, Active, Running
<1>3. k # "transcode" BY SlotFacts
<1> QED BY <1>1, <1>2, <1>3, ChainHands DEF EnqueueOnce

\* A step that touches neither the queue nor a handler, and moves a hook only where it will
\* start nothing.
LEMMA ChainAside ==
  ASSUME Types, Chain, UNCHANGED <<job, pc>>, RowGoesOn,
         \A u \in Uploads : hook'[u] = hook[u] \/ hook'[u] \in {"abort", "off"},
         \A c \in Callers : call'[c].pc \in {"idle", "stopRemote", "cancel", "delete", "toPurge"}
  PROVE  Chain'
<1>1. \A u \in Uploads : /\ hook'[u] \in Promoted => hook[u] \in Promoted
                         /\ hook'[u] \in Opening => hook[u] \in Opening
                         /\ hook'[u] \in {"queue", "toSubmit"} => hook[u] \in {"queue", "toSubmit"}
  BY DEF Promoted, Opening
<1>2. \A s \in Slots : (Active(s)' <=> Active(s)) /\ (Running(s)' <=> Running(s)) /\ (Carries(s)' <=> Carries(s))
  BY DEF Active, Running, Carries
<1> USE LinkFacts
<1>3. row'.original \in Originals BY DEF Chain, RowGoesOn
<1>4. row'.status = "uploading" =>
        /\ \A k \in PipelineSlots : ~Active(k)'
        /\ \A u \in Uploads : hook'[u] \notin Promoted
  BY <1>1, <1>2 DEF Chain, RowGoesOn
<1>5. \A s \in Slots : job'[s].state # "abandoned" /\ (~Running(s)' => pc'[s] = "idle")
  BY <1>2 DEF Chain
<1>6. ~TranscodeRegistered => ~Active("transcode")' BY <1>2 DEF Chain
<1>7. \A u, v \in Uploads : hook'[u] \in Promoted /\ hook'[v] \in Promoted => u = v BY <1>1 DEF Chain
<1>8. \A u \in Uploads : hook'[u] \in Opening => \A s \in PipelineSlots : ~Carries(s)' BY <1>1, <1>2 DEF Chain
<1>9. \A s, k \in PipelineSlots : Carries(s)' /\ Carries(k)' => s = k BY <1>2 DEF Chain
<1>10. TranscodeRegistered => \A u \in Uploads : hook'[u] \notin {"queue", "toSubmit"} BY <1>1 DEF Chain
<1> QED BY <1>3, <1>4, <1>5, <1>6, <1>7, <1>8, <1>9, <1>10 DEF Chain

\* What markFailed leaves of the row.
LEMMA MarkFailedGoesOn ==
  ASSUME Types, NEW stage, MarkFailed(stage)
  PROVE  RowGoesOn /\ row'.status \in {row.status, "failed"} /\ row'.version = row.version
BY DEF MarkFailed, RowGoesOn, Types, TypeOK, Row

\* What the end of the playback leaves of it.
LEMMA PlaybackGoesOn ==
  ASSUME Types, MarkPlaybackFailed
  PROVE  RowGoesOn /\ row'.status = row.status /\ row'.version = row.version
BY DEF MarkPlaybackFailed, RowGoesOn, Types, TypeOK, Row

\* A handler that throws.
LEMMA ChainThrows ==
  ASSUME Types, Chain, NEW s \in Slots, Running(s), pc[s] # "done", UNCHANGED <<row, hook, call>>,
         ThrowStep(s) \/ HandlerThrows(s)
  PROVE  Chain'
<1>1. CASE HandlerThrows(s) BY <1>1, ChainEnds DEF HandlerThrows, RowGoesOn
<1>2. CASE Goto(s, "giveUp") /\ UNCHANGED job BY <1>2, ChainGoto DEF RowGoesOn
<1> QED BY <1>1, <1>2 DEF ThrowStep

\* Chain under transcription.submit: the first poll takes over.
LEMMA ChainSubmit ==
  ASSUME Types, Chain, Submit PROVE Chain'
<1> USE SlotFacts, LinkFacts DEF At
<1>1. CASE SubmitLoad
  <2>1. \E p \in PCs : Starts("submit", p) BY <1>1 DEF SubmitLoad, PCs
  <2> QED BY <1>1, <2>1, ChainStarts DEF SubmitLoad, RowGoesOn
<1>2. CASE SubmitWaits
  <2>1. RowGoesOn BY <1>2 DEF SubmitWaits, RowGoesOn, Types, TypeOK, Row
  <2> QED BY <1>2, <2>1, ChainGoto DEF SubmitWaits
<1>3. CASE SubmitSelects
  <2>1. RowGoesOn BY <1>3 DEF SubmitSelects, RowGoesOn, Types, TypeOK, Row
  <2> QED BY <1>3, <2>1, ChainGoto DEF SubmitSelects
<1>4. CASE SubmitAccepted BY <1>4, ChainGoto DEF SubmitAccepted, RowGoesOn
<1>5. CASE SubmitAnswerLost BY <1>5, ChainEnds DEF SubmitAnswerLost, RowGoesOn
<1>6. CASE SubmitRecord
  <2>1. RowGoesOn BY <1>6 DEF SubmitRecord, RowGoesOn, Types, TypeOK, Row
  <2> QED BY <1>6, <2>1, ChainGoto DEF SubmitRecord
<1>7. CASE SubmitFirstPoll BY <1>7, ChainPolls DEF SubmitFirstPoll
<1> QED BY <1>1, <1>2, <1>3, <1>4, <1>5, <1>6, <1>7 DEF Submit

\* Chain under transcription.poll: the next poll or the ingest takes over.
LEMMA ChainPoll ==
  ASSUME Types, Chain, NEW s \in PollSlots, Poll(s) PROVE Chain'
<1> USE SlotFacts, LinkFacts DEF At
<1>1. CASE PollLoad(s)
  <2>1. \E p \in PCs : Starts(s, p) BY <1>1 DEF PollLoad, PCs
  <2> QED BY <1>1, <2>1, ChainStarts DEF PollLoad, RowGoesOn
<1>2. CASE PollAsk(s) BY <1>2, ChainGoto DEF PollAsk, RowGoesOn
<1>3. CASE PollComplete(s)
  <2>1. RowGoesOn BY <1>3 DEF PollComplete, RowGoesOn, Types, TypeOK, Row
  <2> QED BY <1>3, <2>1, ChainGoto DEF PollComplete
<1>4. CASE PollToIngest(s) BY <1>4, ChainHands DEF PollToIngest
<1>5. CASE PollNote(s)
  <2>1. RowGoesOn BY <1>5 DEF PollNote, RowGoesOn, Types, TypeOK, Row
  <2> QED BY <1>5, <2>1, ChainGoto DEF PollNote
<1>6. CASE PollNext(s) BY <1>6, ChainPolls DEF PollNext
<1> QED BY <1>1, <1>2, <1>3, <1>4, <1>5, <1>6 DEF Poll

\* Chain under transcription.ingest: it ends the chain.
LEMMA ChainIngest ==
  ASSUME Types, Chain, Ingest PROVE Chain'
<1> USE SlotFacts, LinkFacts DEF At
<1>1. CASE IngestLoad
  <2>1. \E p \in PCs : Starts("ingest", p) BY <1>1 DEF IngestLoad, PCs
  <2> QED BY <1>1, <2>1, ChainStarts DEF IngestLoad, RowGoesOn
<1>2. CASE IngestFetch BY <1>2, ChainGoto, ChainThrows DEF IngestFetch, RowGoesOn
<1>3. CASE IngestCommit
  <2>1. RowGoesOn BY <1>3 DEF IngestCommit, RowGoesOn, Types, TypeOK, Row
  <2> QED BY <1>3, <2>1, ChainGoto DEF IngestCommit
<1>4. CASE IngestRelease BY <1>4, ChainGoto DEF IngestRelease, RowGoesOn
<1>5. CASE IngestNotify BY <1>5, ChainGoto DEF IngestNotify, RowGoesOn
<1> QED BY <1>1, <1>2, <1>3, <1>4, <1>5 DEF Ingest

\* Chain under media.audio.transcode: the submit it wakes takes over.
LEMMA ChainTranscode ==
  ASSUME Types, Chain, Transcode PROVE Chain'
<1> USE SlotFacts, LinkFacts DEF At
<1>1. CASE TranscodeLoad \/ TranscodeOnNode
  <2>1. \E p \in PCs : Starts("transcode", p) BY <1>1 DEF TranscodeLoad, TranscodeOnNode, PCs
  <2> QED BY <1>1, <2>1, ChainStarts DEF TranscodeLoad, TranscodeOnNode, RowGoesOn
<1>2. CASE TranscodeBroken \/ TranscodeNodeFails \/ TranscodeRethrow
  BY <1>2, ChainThrows DEF TranscodeBroken, TranscodeNodeFails, TranscodeRethrow, HandlerThrows, Fail,
     Chain, Running
<1>3. CASE TranscodeNodeResult \/ TranscodeWake \/ TranscodeVerdict
  BY <1>3, ChainGoto DEF TranscodeNodeResult, TranscodeWake, TranscodeVerdict, RowGoesOn
<1>4. CASE TranscodeAttach
  <2>1. RowGoesOn BY <1>4 DEF TranscodeAttach, RowGoesOn, Types, TypeOK, Row
  <2> QED BY <1>4, <2>1, ChainGoto DEF TranscodeAttach
<1>5. CASE TranscodeQueue
  <2>1. RowGoesOn BY <1>5 DEF TranscodeQueue, MarkQueued, RowGoesOn, Types, TypeOK, Row
  <2> QED BY <1>5, <2>1, ChainGoto DEF TranscodeQueue
<1>6. CASE TranscodeToSubmit BY <1>6, ChainHands DEF TranscodeToSubmit
<1>7. CASE TranscodeGiveUp BY <1>7, PlaybackGoesOn, ChainGoto DEF TranscodeGiveUp
<1>8. CASE TranscodeBlame BY <1>8, MarkFailedGoesOn, ChainGoto DEF TranscodeBlame
<1> QED BY <1>1, <1>2, <1>3, <1>4, <1>5, <1>6, <1>7, <1>8 DEF Transcode

\* Chain under transcript.purge, which is no part of it.
LEMMA ChainPurge ==
  ASSUME Types, Chain, Purge PROVE Chain'
<1> USE SlotFacts, LinkFacts DEF At
<1>1. CASE PurgeLoad
  <2>1. \E p \in PCs : Starts("purge", p) BY <1>1 DEF PurgeLoad, PCs
  <2> QED BY <1>1, <2>1, ChainStarts DEF PurgeLoad, RowGoesOn
<1>2. CASE PurgeForgetRemote BY <1>2, ChainGoto DEF PurgeForgetRemote, RowGoesOn
<1>3. CASE PurgeDelete
  <2>1. RowGoesOn BY <1>3 DEF PurgeDelete, RowGoesOn, Types, TypeOK, Row
  <2> QED BY <1>3, <2>1, ChainGoto DEF PurgeDelete
<1> QED BY <1>1, <1>2, <1>3 DEF Purge

\* Chain under the worker; before a crash there is nothing to reap.
LEMMA ChainWorker ==
  ASSUME Types, Chain, NEW s \in Slots, Worker(s) PROVE Chain'
<1>1. CASE Finish(s) BY <1>1, ChainEnds DEF Finish, RowGoesOn
<1>2. CASE UpdateRefused(s)
  <2>1. Running(s) /\ pc[s] # "done" /\ ThrowStep(s) /\ UNCHANGED <<row, hook, call>>
    BY <1>2 DEF UpdateRefused
  <2> QED BY <2>1, ChainThrows
<1>3. CASE Refuse(s)
  <2>1. RowGoesOn BY <1>3, MarkFailedGoesOn DEF Refuse
  <2>2. Running(s) /\ pc[s] # "done" BY <1>3 DEF Refuse
  <2> QED BY <1>3, <2>1, <2>2, ChainGoto DEF Refuse
<1>4. CASE Reap(s) BY <1>4 DEF Reap, Chain
<1> QED BY <1>1, <1>2, <1>3, <1>4 DEF Worker

\* A hook that goes on, and still is the one that starts, or never was.
LEMMA ChainHook ==
  ASSUME Types, Chain, NEW u \in Uploads, NEW x \in Promoted, HookGoto(u, x), hook[u] \in Promoted,
         x \in Opening => hook[u] \in Opening, TranscodeRegistered => x \notin {"queue", "toSubmit"},
         UNCHANGED <<job, pc, call>>, RowGoesOn
  PROVE  Chain'
<1> USE LinkFacts
<1>0. x \in HookPCs /\ hook'[u] = x /\ \A v \in Uploads \ {u} : hook'[v] = hook[v]
  BY DEF HookGoto, Types, TypeOK, HookPCs, Promoted
<1>1. \A v \in Uploads : /\ hook'[v] \in Promoted => hook[v] \in Promoted
                         /\ hook'[v] \in Opening => hook[v] \in Opening
                         /\ TranscodeRegistered => hook'[v] \notin {"queue", "toSubmit"}
  BY <1>0 DEF Chain
<1>2. \A s \in Slots : (Active(s)' <=> Active(s)) /\ (Running(s)' <=> Running(s)) /\ (Carries(s)' <=> Carries(s))
  BY DEF Active, Running, Carries
<1>3. row'.original \in Originals BY DEF Chain, RowGoesOn
<1>4. row'.status = "uploading" =>
        /\ \A k \in PipelineSlots : ~Active(k)'
        /\ \A v \in Uploads : hook'[v] \notin Promoted
  BY <1>1, <1>2 DEF Chain, RowGoesOn
<1>5. \A s \in Slots : job'[s].state # "abandoned" /\ (~Running(s)' => pc'[s] = "idle")
  BY <1>2 DEF Chain
<1>6. ~TranscodeRegistered => ~Active("transcode")' BY <1>2 DEF Chain
<1>7. \A v, w \in Uploads : hook'[v] \in Promoted /\ hook'[w] \in Promoted => v = w BY <1>1 DEF Chain
<1>8. \A v \in Uploads : hook'[v] \in Opening => \A s \in PipelineSlots : ~Carries(s)' BY <1>1, <1>2 DEF Chain
<1>9. \A s, k \in PipelineSlots : Carries(s)' /\ Carries(k)' => s = k BY <1>2 DEF Chain
<1>10. \A c \in Callers : call'[c].pc \in {"idle", "stopRemote", "cancel", "delete", "toPurge"} BY DEF Chain
<1> QED BY <1>1, <1>3, <1>4, <1>5, <1>6, <1>7, <1>8, <1>9, <1>10 DEF Chain

\* A hook that starts a job.
LEMMA ChainOpens ==
  ASSUME Types, Chain, NEW u \in Uploads, hook[u] \in Opening, NEW x \in {"mark", "off"}, HookGoto(u, x),
         x = "mark" => TranscodeRegistered,
         NEW k \in {"transcode", "submit"}, k = "transcode" => TranscodeRegistered, EnqueueOnce(k),
         UNCHANGED <<row, pc, call>>
  PROVE  Chain'
<1> USE LinkFacts
<1>0. hook'[u] = x /\ \A v \in Uploads \ {u} : hook'[v] = hook[v]
  BY DEF HookGoto, Types, TypeOK
<1>1. hook[u] \in Promoted BY DEF Opening, Promoted
<1>2. x \notin Opening BY DEF Opening, Promoted
<1>3. \A v \in Uploads \ {u} : hook[v] \notin Promoted BY <1>1 DEF Chain
<1>4. Opening \subseteq Promoted BY DEF Opening, Promoted
<1>5. \A v \in Uploads : hook'[v] \notin Opening BY <1>0, <1>2, <1>3, <1>4
<1>6. row.status # "uploading" BY <1>1 DEF Chain
<1>7. \A l \in PipelineSlots \ {k} : ~Carries(l)' BY QueueGains DEF Chain, Carries, Active
<1>8. \A v \in Uploads : hook'[v] \in Promoted => hook[v] \in Promoted BY <1>0, <1>1
<1>9. TranscodeRegistered => \A v \in Uploads : hook'[v] \notin {"queue", "toSubmit"} BY <1>0 DEF Chain
<1> QED BY <1>5, <1>6, <1>7, <1>8, <1>9, ChainPasses

\* Chain under the upload hook: a hook promotes the transcript only while nothing has begun.
LEMMA ChainHooks ==
  ASSUME OneStart, Types, Chain, NEW u \in Uploads, Hook(u) PROVE Chain'
<1> USE SlotFacts, LinkFacts DEF HookAt
<1>0. hook \in [Uploads -> HookPCs] /\ TranscodeRegistered \in BOOLEAN
  BY MediaAssumption DEF Types, TypeOK
<1>a. ASSUME NEW x \in {"off", "abort"}, HookGoto(u, x), UNCHANGED <<job, pc, call>>, RowGoesOn PROVE Chain'
  <2>1. \A v \in Uploads : hook'[v] = hook[v] \/ hook'[v] \in {"abort", "off"} BY <1>a, <1>0 DEF HookGoto
  <2> QED BY <1>a, <2>1, ChainAside DEF Chain
<1>1. CASE HookPromote(u)
  <2>1. CASE Live /\ row.status = "uploading"
    <3>1. /\ hook'[u] = "transcode" /\ \A v \in Uploads \ {u} : hook'[v] = hook[v]
          /\ UNCHANGED <<job, pc, call>>
      BY <1>0, <1>1, <2>1 DEF HookPromote, HookGoto
    <3>2. row'.status = "processing" /\ row'.original = row.original
      BY <1>1, <2>1 DEF HookPromote, Types, TypeOK, Row
    <3>3. /\ \A s \in PipelineSlots : ~Active(s)
          /\ \A v \in Uploads : hook[v] \notin Promoted
      BY <2>1 DEF Chain
    <3>4. \A s \in PipelineSlots : ~Active(s)' /\ ~Carries(s)' BY <3>1, <3>3 DEF Active, Carries
    <3>5. \A v, w \in Uploads : hook'[v] \in Promoted /\ hook'[w] \in Promoted => v = w BY <3>1, <3>3
    <3>6. \A v \in Uploads : hook'[v] \in {"queue", "toSubmit"} => hook[v] \in {"queue", "toSubmit"} BY <3>1
    <3>7. \A s \in Slots : job'[s].state # "abandoned" /\ (~Running(s)' => pc'[s] = "idle")
      BY <3>1 DEF Chain, Running
    <3>8. row'.original \in Originals BY <3>2 DEF Chain
    <3>9. \A c \in Callers : call'[c].pc \in {"idle", "stopRemote", "cancel", "delete", "toPurge"}
      BY <3>1 DEF Chain
    <3>10. TranscodeRegistered => \A v \in Uploads : hook'[v] \notin {"queue", "toSubmit"} BY <3>6 DEF Chain
    <3> QED BY <3>2, <3>4, <3>5, <3>7, <3>8, <3>9, <3>10 DEF Chain
  <2>2. CASE ~(Live /\ row.status = "uploading") BY <1>1, <1>a, <2>2 DEF HookPromote, RowGoesOn
  <2> QED BY <2>1, <2>2
<1>2. CASE HookTranscode(u)
  <2>1. CASE TranscodeRegistered
    <3>1. hook[u] \in Opening BY <1>2 DEF HookTranscode, Opening, Promoted
    <3> QED BY <1>2, <2>1, <3>1, ChainOpens DEF HookTranscode
  <2>2. CASE ~TranscodeRegistered
    BY <1>2, <2>2, ChainHook DEF HookTranscode, Opening, Promoted, RowGoesOn
  <2> QED BY <2>1, <2>2
<1>3. CASE HookMark(u)
  <2>1. RowGoesOn BY <1>3 DEF HookMark, RowGoesOn, Types, TypeOK, Row
  <2> QED BY <1>3, <2>1, ChainHook DEF HookMark, Opening, Promoted
<1>4. CASE HookUnconfigured(u) BY <1>4, <1>a, MarkFailedGoesOn DEF HookUnconfigured
<1>5. CASE HookChoose(u)
  <2> DEFINE kind == SelectTranscriptionInput(AudioDelivery, row.original, {}, TranscodeRegistered)
  <2>1. CASE kind = "original" /\ HookGoto(u, "queue") /\ UNCHANGED row
    <3>1. ~TranscodeRegistered
      <4>1. SUFFICES ASSUME TranscodeRegistered PROVE FALSE OBVIOUS
      <4>2. TranscodeRegistered = TRUE BY <1>0, <4>1
      <4>3. SelectTranscriptionInput(AudioDelivery, row.original, {}, TRUE) = "original" BY <2>1, <4>2
      <4> QED BY <4>1, <4>3 DEF OneStart, Chain
    <3> QED BY <1>5, <2>1, <3>1, ChainHook DEF HookChoose, Opening, Promoted, RowGoesOn
  <2>2. CASE HookGoto(u, "off") /\ (MarkFailed("transcription") \/ row' = [row EXCEPT !.ts = "waiting_input"])
    <3>1. RowGoesOn BY <2>2, MarkFailedGoesOn DEF RowGoesOn, Types, TypeOK, Row
    <3> QED BY <1>5, <2>2, <3>1, <1>a DEF HookChoose
  <2> QED BY <1>5, <2>1, <2>2 DEF HookChoose
<1>6. CASE HookQueue(u)
  <2>1. RowGoesOn BY <1>6 DEF HookQueue, MarkQueued, RowGoesOn, Types, TypeOK, Row
  <2>2. ~TranscodeRegistered BY <1>6 DEF HookQueue, Chain
  <2> QED BY <1>6, <2>1, <2>2, ChainHook DEF HookQueue, Opening, Promoted
<1>7. CASE HookToSubmit(u)
  <2>1. ~TranscodeRegistered BY <1>7 DEF HookToSubmit, Chain
  <2>2. hook[u] \in Opening BY <1>7, <2>1 DEF HookToSubmit, Opening, Promoted
  <2> QED BY <1>7, <2>1, <2>2, ChainOpens DEF HookToSubmit
<1>8. CASE HookAbort(u) BY <1>8, <1>a, MarkFailedGoesOn DEF HookAbort
<1> QED BY <1>1, <1>2, <1>3, <1>4, <1>5, <1>6, <1>7, <1>8 DEF Hook

\* A hook that throws starts nothing any more.
LEMMA ChainHookThrows ==
  ASSUME Types, Chain, NEW u \in Uploads, HookThrows(u) PROVE Chain'
<1>1. \A v \in Uploads : hook'[v] = hook[v] \/ hook'[v] \in {"abort", "off"}
  BY DEF HookThrows, HookGoto, Types, TypeOK
<1> QED BY <1>1, ChainAside DEF HookThrows, RowGoesOn, Chain

\* Chain under the owner's requests, none of which starts a job of the pipeline.
LEMMA ChainCalls ==
  ASSUME OneStart, Types, Chain, NEW c \in Callers, CallBegins(c) \/ CallStep(c) \/ CallThrows(c)
  PROVE  Chain'
<1> USE SlotFacts, LinkFacts
<1> DEFINE Pcs == {"idle", "stopRemote", "cancel", "delete", "toPurge"}
<1>0. call \in [Callers -> Calls] BY DEF Types, TypeOK
<1>b. ASSUME NEW x \in Pcs, CallGoto(c, x) PROVE \A d \in Callers : call'[d].pc \in Pcs
  <2>1. \A d \in Callers \ {c} : call'[d] = call[d] BY <1>0, <1>b DEF CallGoto
  <2>2. call'[c].pc = x BY <1>0, <1>b DEF CallGoto, Calls
  <2> QED BY <2>1, <2>2 DEF Chain
<1>c. CallEnds(c) => \A d \in Callers : call'[d].pc \in Pcs
  <2>1. NoCall.pc = "idle" BY DEF NoCall
  <2>2. HAVE CallEnds(c)
  <2>3. call'[c] = NoCall BY <1>0, <2>2 DEF CallEnds
  <2>4. \A d \in Callers \ {c} : call'[d] = call[d] BY <1>0, <2>2 DEF CallEnds
  <2> QED BY <2>1, <2>3, <2>4 DEF Chain
<1> HIDE DEF Pcs
<1>d. ASSUME \A d \in Callers : call'[d].pc \in Pcs, RowGoesOn, UNCHANGED <<job, pc, hook>> PROVE Chain'
  BY <1>d, ChainAside DEF Pcs
<1>1. CASE CallBegins(c)
  <2>1. ~RetryBegins(c) BY DEF RetryBegins, Begin, OneStart
  <2>2. \E p \in Pcs : \E op : Begin(c, op, p) BY <1>1, <2>1 DEF CallBegins, CancelBegins, RemoveBegins, Pcs
  <2>3. PICK p \in Pcs : \E op : Begin(c, op, p) BY <2>2
  <2>4. UNCHANGED <<row, job, pc, hook>> BY <2>3 DEF Begin
  <2>5. call'[c].pc = p BY <1>0, <2>3 DEF Begin
  <2>6. \A d \in Callers \ {c} : call'[d] = call[d] BY <1>0, <2>3 DEF Begin
  <2>7. \A d \in Callers : call'[d].pc \in Pcs BY <2>5, <2>6 DEF Chain, Pcs
  <2> QED BY <2>4, <2>7, <1>d DEF RowGoesOn
<1>2. CASE RetryReopens(c) \/ RetryResumes(c) \/ RetryPolls(c) \/ RetryClears(c) \/ RetryQueues(c) \/ RetrySubmits(c)
  BY <1>2 DEF Chain, RetryReopens, RetryResumes, RetryPolls, RetryClears, RetryQueues, RetrySubmits, CallAt
<1>3. CASE CancelStopsRemote(c) BY <1>3, <1>b, <1>d DEF CancelStopsRemote, RowGoesOn, Pcs
<1>4. CASE CancelWrites(c)
  <2>1. RowGoesOn BY <1>4 DEF CancelWrites, RowGoesOn, Types, TypeOK, Row
  <2> QED BY <1>4, <2>1, <1>c, <1>d DEF CancelWrites
<1>5. CASE RemoveDeletes(c)
  <2>1. RowGoesOn BY <1>5 DEF RemoveDeletes, RowGoesOn, Types, TypeOK, Row
  <2> QED BY <1>5, <2>1, <1>b, <1>d DEF RemoveDeletes, Pcs
<1>6. CASE RemovePurges(c)
  <2>1. /\ \A l \in PipelineSlots : job'[l] = job[l]
        /\ \/ job'["purge"].state = "pending" /\ ~Active("purge")
           \/ job'["purge"] = job["purge"]
    BY <1>6, QueueGains DEF RemovePurges
  <2>2. UNCHANGED <<row, pc, hook>> /\ \A d \in Callers : call'[d].pc \in Pcs BY <1>6, <1>c DEF RemovePurges
  <2>3. \A s \in PipelineSlots : (Active(s)' <=> Active(s)) /\ (Carries(s)' <=> Carries(s))
    BY <2>1, <2>2 DEF Active, Carries
  <2>4. \A s \in Slots : job'[s].state # "abandoned" /\ (~Running(s)' => pc'[s] = "idle")
    BY <2>1, <2>2 DEF Chain, Running, Active
  <2>5. row'.status = "uploading" =>
          /\ \A k \in PipelineSlots : ~Active(k)'
          /\ \A v \in Uploads : hook'[v] \notin Promoted
    BY <2>2, <2>3 DEF Chain
  <2>6. ~TranscodeRegistered => ~Active("transcode")' BY <2>3 DEF Chain
  <2>7. \A v \in Uploads : hook'[v] \in Opening => \A s \in PipelineSlots : ~Carries(s)' BY <2>2, <2>3 DEF Chain
  <2>8. \A s, k \in PipelineSlots : Carries(s)' /\ Carries(k)' => s = k BY <2>3 DEF Chain
  <2> QED BY <2>2, <2>4, <2>5, <2>6, <2>7, <2>8 DEF Chain, Pcs
<1>7. CASE CallThrows(c) BY <1>7, <1>c, <1>d DEF CallThrows, RowGoesOn
<1> QED BY <1>1, <1>2, <1>3, <1>4, <1>5, <1>6, <1>7 DEF CallStep

\* Chain under the failure listener, which fails a transcript and starts nothing.
LEMMA ChainListener ==
  ASSUME Types, Chain, NEW s \in Slots, Listener(s) \/ ListenerThrows(s) PROVE Chain'
<1>1. UNCHANGED <<job, pc, hook, call>>
  BY DEF Listener, ListenerCheck, ListenerWrite, ListenerVerdict, ListenerBlame, ListenerThrows
<1>2. RowGoesOn
  <2>1. \/ UNCHANGED row \/ MarkPlaybackFailed \/ MarkFailed(Stage(s)) \/ MarkFailed("transcode")
    BY DEF Listener, ListenerCheck, ListenerWrite, ListenerVerdict, ListenerBlame, ListenerThrows
  <2> QED BY <2>1, MarkFailedGoesOn, PlaybackGoesOn DEF RowGoesOn
<1> QED BY <1>1, <1>2, ChainAside DEF Chain

\* Chain under the sweep, which has found nothing yet, the provider and the clock.
LEMMA ChainWorld ==
  ASSUME Types, Chain, sweep = "idle", Sweep \/ SweepThrows \/ RemoteFinishes \/ DeadlinePasses
  PROVE  Chain'
<1>1. UNCHANGED <<job, pc, hook, call>>
  BY DEF Sweep, SweepFinds, SweepChecks, SweepRestarts, SweepThrows, RemoteFinishes, DeadlinePasses
<1>2. RowGoesOn
  <2>1. UNCHANGED row \/ row' = [row EXCEPT !.overdue = TRUE]
    BY DEF Sweep, SweepFinds, SweepChecks, SweepRestarts, SweepThrows, RemoteFinishes, DeadlinePasses
  <2> QED BY <2>1 DEF RowGoesOn, Types, TypeOK, Row
<1> QED BY <1>1, <1>2, ChainAside DEF Chain

\* Chain under thrown errors and 429s.
LEMMA ChainFaults ==
  ASSUME OneStart, Types, Chain, sweep = "idle", Faults, ~Crash PROVE Chain'
<1>1. ASSUME NEW s \in Slots, Throw(s) PROVE Chain' BY <1>1, ChainThrows DEF Throw
<1>2. ASSUME NEW s \in Slots, RateLimited(s) PROVE Chain'
  <2>1. pc[s] # "done" BY <1>2 DEF RateLimited
  <2> QED BY <1>2, <2>1, ChainEnds DEF RateLimited, RowGoesOn
<1> QED BY <1>1, <1>2, ChainListener, ChainHookThrows, ChainCalls, ChainWorld DEF Faults

\* Only a crash is counted as one.
LEMMA CrashCounts ==
  ASSUME Types, Next, used'.crashes = 0 PROVE used.crashes = 0 /\ ~Crash
<1>0. used \in Used BY DEF Types, TypeOK
<1>1. CASE Crash
  <2>1. used'.crashes = used.crashes + 1 BY <1>0, <1>1 DEF Crash, Used
  <2> QED BY <1>0, <2>1 DEF Used
<1>2. ASSUME NEW s \in Slots, Handler(s) PROVE used' = used \/ used' = [used EXCEPT !.faults = @ + 1]
  BY <1>2 DEF Handler, Submit, SubmitLoad, SubmitWaits, SubmitSelects, SubmitAccepted, SubmitAnswerLost,
     SubmitRecord, SubmitFirstPoll, Poll, PollLoad, PollAsk, PollComplete, PollToIngest, PollNote, PollNext,
     Ingest, IngestLoad, IngestFetch, IngestCommit, IngestRelease, IngestNotify, Transcode, TranscodeLoad,
     TranscodeBroken, TranscodeOnNode, TranscodeNodeResult, TranscodeNodeFails, TranscodeAttach,
     TranscodeWake, TranscodeQueue, TranscodeToSubmit, TranscodeGiveUp, TranscodeVerdict, TranscodeBlame,
     TranscodeRethrow, Purge, PurgeLoad, PurgeForgetRemote, PurgeDelete
<1>3. ASSUME NEW s \in Slots, Worker(s) \/ Listener(s) PROVE used' = used
  BY <1>3 DEF Worker, Finish, UpdateRefused, Refuse, Reap, Listener, ListenerCheck, ListenerWrite,
     ListenerVerdict, ListenerBlame
<1>4. ASSUME NEW u \in Uploads, Hook(u) PROVE used' = used
  BY <1>4 DEF Hook, HookPromote, HookTranscode, HookMark, HookUnconfigured, HookChoose, HookQueue,
     HookToSubmit, HookAbort
<1>5. ASSUME NEW c \in Callers, CallBegins(c) \/ CallStep(c)
      PROVE  used' = used \/ used' = [used EXCEPT !.calls = @ + 1]
  BY <1>5 DEF CallBegins, RetryBegins, CancelBegins, RemoveBegins, Begin, CallStep, RetryReopens,
     RetryResumes, RetryPolls, RetryClears, RetryQueues, RetrySubmits, CancelStopsRemote, CancelWrites,
     RemoveDeletes, RemovePurges
<1>6. CASE Sweep \/ RemoteFinishes \/ DeadlinePasses
  <2>1. used' = used \/ used' = [used EXCEPT !.expiries = @ + 1]
    BY <1>6 DEF Sweep, SweepFinds, SweepChecks, SweepRestarts, RemoteFinishes, DeadlinePasses
  <2> QED BY <1>0, <1>1, <2>1 DEF Used
<1>7. CASE Faults /\ ~Crash
  <2>1. used' = used \/ used' = [used EXCEPT !.faults = @ + 1] \/ used' = [used EXCEPT !.limits = @ + 1]
    BY <1>7 DEF Faults, Throw, RateLimited, ListenerThrows, SweepThrows, HookThrows, CallThrows
  <2> QED BY <1>0, <1>1, <2>1 DEF Used
<1> QED BY <1>0, <1>1, <1>2, <1>3, <1>4, <1>5, <1>6, <1>7 DEF Next, Used

\* Nothing has begun.
LEMMA ChainInit == Init => ChainInv
<1> SUFFICES ASSUME Init PROVE Chain BY DEF ChainInv
<1>1. /\ \A s \in Slots : job[s].state = "none" /\ pc[s] = "idle"
      /\ \A u \in Uploads : hook[u] = "event"
      /\ \A c \in Callers : call[c].pc = "idle"
      /\ row.original \in Originals /\ row.status = "uploading"
  BY DEF Init, QueueInit, NoJob, NoCall
<1>2. \A s \in Slots : ~Active(s) /\ ~Carries(s) BY <1>1 DEF Active, Carries
<1>3. "event" \notin Promoted /\ "event" \notin Opening BY DEF Opening, Promoted
<1> QED BY <1>1, <1>2, <1>3, LinkFacts DEF Chain

\* Every step before the first crash keeps the chain.
LEMMA ChainNext ==
  ASSUME OneStart, Types, ChainInv, SweepLate, [Next]_vars PROVE ChainInv'
<1>1. CASE UNCHANGED vars
  BY <1>1 DEF vars, ChainInv, Chain, Active, Running, Carries
<1>2. CASE Next
  <2> SUFFICES ASSUME used'.crashes = 0 PROVE Chain' BY DEF ChainInv
  <2>1. Chain /\ sweep = "idle" /\ ~Crash BY <1>2, CrashCounts DEF ChainInv, SweepLate
  <2>2. ASSUME NEW s \in Slots, Handler(s) PROVE Chain'
    BY <2>1, <2>2, ChainSubmit, ChainPoll, ChainIngest, ChainTranscode, ChainPurge DEF Handler
  <2> QED
    BY <1>2, <2>1, <2>2, ChainWorker, ChainListener, ChainHooks, ChainCalls, ChainWorld, ChainFaults
    DEF Next
<1> QED BY <1>1, <1>2

\* Where only the upload starts the pipeline and nobody retries, and while no process has died,
\* one poll at most is not finishing: `enqueuePoll` skips dedup, so that nothing but the chain
\* itself keeps it single.
THEOREM OnePollChainHolds ==
  ASSUME OneStart
  PROVE  Spec /\ []SweepLate => []OnePollChain
<1>1. Types /\ ChainInv => OnePollChain
  BY LinkFacts DEF ChainInv, Chain, Carries, OnePollChain
<1> QED BY TypesInit, TypesNext, ChainInit, ChainNext, <1>1, PTL DEF Spec

-------------------------------------------------------------------------------
(* A finished transcript stays finished.                                   *)

\* The upload raises one event, the submit is its only consequence, and the owner makes no
\* request meanwhile.
Undisturbed ==
  /\ OwnerCalls = {}
  /\ TranscodeRegistered = FALSE
  /\ \A u, v \in Uploads : u = v

\* Whoever could still fail the transcript has gone before it is ready.
Final ==
  /\ \A c \in Callers : call[c] = NoCall
  /\ ~Active("purge")
  /\ \A u \in Uploads : /\ hook[u] = "event" => row.status = "uploading"
                        /\ hook[u] # "off" => /\ row.status # "ready"
                                              /\ \A s \in PipelineSlots : ~Carries(s)
  /\ \A s \in Slots :
       /\ listener[s] # "none" => /\ \A k \in PipelineSlots : ~Carries(k)
                                  /\ HooksOff
       /\ listener[s] \in {"write", "verdict", "blame"} => row.status # "ready"
  /\ row.status = "ready" =>
       /\ row.version = 1
       /\ \A s \in PipelineSlots :
            Carries(s) => s = "ingest" /\ pc[s] \in {"idle", "release", "notify"}

FinalInv == used.crashes = 0 => Final

\* A ready transcript stays ready in this step.
StaysReady == row.status = "ready" => row'.status = "ready"

\* Next to the job that carries the transcript nobody else does anything.
LEMMA FinalAlone ==
  ASSUME Types, Chain, Final, NEW s \in PipelineSlots, Carries(s)
  PROVE  /\ HooksOff /\ \A k \in Slots : listener[k] = "none"
         /\ \A k \in PipelineSlots \ {s} : ~Carries(k)
         /\ s # "ingest" => row.status # "ready"
BY DEF Chain, Final, HooksOff

\* A step of a carrier other than the ingest.
LEMMA FinalWorks ==
  ASSUME Types, Chain, Final, NEW s \in PipelineSlots, Carries(s), s # "ingest",
         UNCHANGED <<hook, call, listener>>, job'["purge"] = job["purge"],
         row'.status \in {row.status, "failed"}
  PROVE  Final' /\ StaysReady
<1>1. HooksOff /\ HooksOff' /\ \A k \in Slots : listener'[k] = "none" BY FinalAlone DEF HooksOff
<1>2. row.status # "ready" /\ row'.status # "ready" BY FinalAlone
<1>3. ~Active("purge")' BY DEF Final, Active
<1>4. \A c \in Callers : call'[c] = NoCall BY DEF Final
<1>5. \A u \in Uploads : hook'[u] = "off" BY <1>1 DEF HooksOff
<1> QED BY <1>1, <1>2, <1>3, <1>4, <1>5 DEF Final, StaysReady

\* A step of the ingest.
LEMMA FinalIngests ==
  ASSUME Types, Chain, Final, Carries("ingest"),
         UNCHANGED <<hook, call, listener>>,
         \A k \in Slots \ {"ingest"} : job'[k] = job[k] /\ pc'[k] = pc[k],
         StaysReady,
         row'.status = "ready" => row'.version = 1 /\ pc'["ingest"] \in {"idle", "release", "notify", "done"}
  PROVE  Final'
<1> USE LinkFacts, SlotFacts
<1>1. HooksOff /\ HooksOff' /\ \A k \in Slots : listener'[k] = "none" BY FinalAlone DEF HooksOff
<1>2. \A k \in PipelineSlots \ {"ingest"} : ~Carries(k)' BY FinalAlone DEF Carries, Active
<1>3. ~Active("purge")' BY DEF Final, Active
<1>4. \A c \in Callers : call'[c] = NoCall BY DEF Final
<1>5. \A u \in Uploads : hook'[u] = "off" BY <1>1 DEF HooksOff
<1>6. row'.status = "ready" => pc'["ingest"] \in {"idle", "release", "notify"} \/ ~Carries("ingest")'
  BY DEF Carries
<1> QED BY <1>1, <1>2, <1>3, <1>4, <1>5, <1>6 DEF Final

\* A carrier that is put back, or gives up and is heard of.
LEMMA FinalFails ==
  ASSUME Types, Chain, Final, NEW s \in Slots, Running(s), pc[s] # "done",
         Fail(s) \/ Defer(s), Reset(s), HeardBy(s), UNCHANGED <<row, hook, call>>
  PROVE  Final' /\ StaysReady
<1> USE LinkFacts, SlotFacts
<1>1. s \in PipelineSlots /\ s # "purge" BY DEF Final, Active, Running
<1>2. Carries(s) BY DEF Carries, Active, Running
<1>3. /\ \A k \in Slots \ {s} : job'[k] = job[k] /\ pc'[k] = pc[k]
      /\ pc'[s] = "idle"
  BY DEF Fail, Defer, Reset, Goto, Types, TypeOK, JobRow, NoJob
<1>4. /\ HooksOff /\ \A k \in Slots : listener[k] = "none"
      /\ \A k \in PipelineSlots \ {s} : ~Carries(k)
      /\ s # "ingest" => row.status # "ready"
  BY <1>1, <1>2, FinalAlone
<1>5. \A k \in PipelineSlots \ {s} : ~Carries(k)' BY <1>3, <1>4 DEF Carries, Active
<1>6. ~Active("purge")' BY <1>1, <1>3 DEF Final, Active
<1>7. \A c \in Callers : call'[c] = NoCall BY DEF Final
<1>8. HooksOff' /\ \A u \in Uploads : hook'[u] = "off" BY <1>4 DEF HooksOff
<1>9. row'.status = "ready" =>
        /\ row'.version = 1
        /\ \A k \in PipelineSlots :
             Carries(k)' => k = "ingest" /\ pc'[k] \in {"idle", "release", "notify"}
  BY <1>3, <1>4, <1>5 DEF Final
<1>10. StaysReady BY DEF StaysReady
<1>11. \A k \in Slots : /\ listener'[k] \in {"none", "check"}
                        /\ listener'[k] # "none" => job'[s] = NoJob
  BY <1>4 DEF HeardBy, Types, TypeOK
<1>12. job'[s] = NoJob => ~Carries(s)' BY DEF NoJob, Carries, Active
<1>13. \A k \in Slots :
         /\ listener'[k] # "none" => (\A l \in PipelineSlots : ~Carries(l)') /\ HooksOff'
         /\ listener'[k] \notin {"write", "verdict", "blame"}
  BY <1>5, <1>8, <1>11, <1>12
<1> QED BY <1>6, <1>7, <1>8, <1>9, <1>10, <1>13 DEF Final

\* A job that has done its part is over.
LEMMA FinalFinish ==
  ASSUME Types, Chain, Final, NEW s \in Slots, Finish(s)
  PROVE  Final' /\ StaysReady
<1> USE LinkFacts, SlotFacts
<1>1. /\ \A k \in Slots \ {s} : job'[k] = job[k] /\ pc'[k] = pc[k]
      /\ job'[s].state = "none"
  BY DEF Finish, Complete, Reset, Goto, Types, TypeOK, NoJob
<1>2. \A k \in PipelineSlots : Carries(k)' => Carries(k) /\ pc'[k] = pc[k] BY <1>1 DEF Carries, Active
<1>3. ~Active("purge")' BY <1>1 DEF Final, Active
<1>4. UNCHANGED <<row, hook, call, listener>> BY DEF Finish
<1>5. HooksOff' <=> HooksOff BY <1>4 DEF HooksOff
<1> QED BY <1>2, <1>3, <1>4, <1>5 DEF Final, StaysReady

\* A step that touches neither the queue, a handler, a hook nor a listener.
LEMMA FinalAside ==
  ASSUME Types, Final, UNCHANGED <<job, pc, hook, call, listener>>,
         row'.status = row.status, row'.version = row.version
  PROVE  Final' /\ StaysReady
<1>1. \A s \in Slots : (Active(s)' <=> Active(s)) /\ (Carries(s)' <=> Carries(s)) BY DEF Active, Carries
<1>2. HooksOff' <=> HooksOff BY DEF HooksOff
<1> QED BY <1>1, <1>2, LinkFacts, SlotFacts DEF Final, StaysReady

\* A step of the hook.
LEMMA FinalHook ==
  ASSUME Undisturbed, Types, Final, NEW u \in Uploads, hook[u] # "off",
         NEW x \in HookPCs \ {"event"}, HookGoto(u, x),
         x = "off" \/ UNCHANGED <<job, pc>>, job'["purge"] = job["purge"],
         UNCHANGED <<call, listener>>, row'.status # "ready"
  PROVE  Final' /\ StaysReady
<1> USE LinkFacts, SlotFacts
<1>1. \A v \in Uploads : hook'[v] = x BY DEF HookGoto, Types, TypeOK, Undisturbed
<1>2. /\ row.status # "ready" /\ \A s \in PipelineSlots : ~Carries(s)
      /\ \A s \in Slots : listener'[s] = "none"
  BY DEF Final, HooksOff
<1>3. x # "off" => \A s \in PipelineSlots : ~Carries(s)' BY <1>2 DEF Carries, Active
<1>4. ~Active("purge")' BY DEF Final, Active
<1>5. \A c \in Callers : call'[c] = NoCall BY DEF Final
<1> QED BY <1>1, <1>2, <1>3, <1>4, <1>5 DEF Final, StaysReady

\* A step of the listener.
LEMMA FinalListens ==
  ASSUME Types, Final, NEW s \in Slots, listener[s] # "none",
         NEW x \in {"none", "write", "verdict", "blame"}, listener' = [listener EXCEPT ![s] = x],
         x # "none" => row'.status # "ready",
         UNCHANGED <<job, pc, hook, call>>, row'.status \in {row.status, "failed"}, StaysReady,
         row'.version = row.version
  PROVE  Final'
<1> USE LinkFacts, SlotFacts
<1>1. \A k \in Slots : (Active(k)' <=> Active(k)) /\ (Carries(k)' <=> Carries(k)) BY DEF Active, Carries
<1>2. (\A k \in PipelineSlots : ~Carries(k)') /\ HooksOff /\ HooksOff' BY <1>1 DEF Final, HooksOff
<1>3. listener'[s] = x /\ \A k \in Slots \ {s} : listener'[k] = listener[k] BY DEF Types, TypeOK
<1>4. \A u \in Uploads : hook'[u] = "off" BY <1>2 DEF HooksOff
<1>5. \A k \in Slots : listener'[k] \in {"write", "verdict", "blame"} => row'.status # "ready"
  BY <1>3 DEF Final
<1>6. row'.status = "ready" => row'.version = 1 BY DEF Final
<1>7. ~Active("purge")' /\ \A c \in Callers : call'[c] = NoCall BY <1>1 DEF Final
<1> QED BY <1>2, <1>4, <1>5, <1>6, <1>7 DEF Final

\* The job a handler starts on was a carrier, and the claim moves no other.
LEMMA FinalStarts ==
  ASSUME Types, Chain, NEW s \in Slots, NEW p, Starts(s, p)
  PROVE  /\ Carries(s)
         /\ \A k \in Slots \ {s} : job'[k] = job[k] /\ pc'[k] = pc[k]
         /\ pc'[s] = p
<1>1. job[s].state = "pending" BY DEF Starts, ClaimJob
<1>2. pc[s] = "idle" BY <1>1 DEF Chain, Running
<1> QED BY <1>1, <1>2 DEF Starts, ClaimJob, Goto, Types, TypeOK, JobRow, Carries, Active

\* What an enqueue of the pipeline leaves alone.
LEMMA FinalQueues ==
  ASSUME Types, NEW k \in PipelineSlots, EnqueueOnce(k) PROVE job'["purge"] = job["purge"]
BY QueueGains, LinkFacts, SlotFacts

\* A handler that throws.
LEMMA FinalThrows ==
  ASSUME Undisturbed, Types, Chain, Final, NEW s \in Slots, Running(s), pc[s] # "done",
         UNCHANGED <<row, hook, call>>, ThrowStep(s) \/ HandlerThrows(s)
  PROVE  Final' /\ StaysReady
<1>1. ~CaughtAt(s, {"run", "refuse", "wake", "queue", "toSubmit"})
  BY DEF CaughtAt, Undisturbed, Chain, Active, Running
<1> QED BY <1>1, FinalFails DEF ThrowStep, HandlerThrows

\* The ready transcript under transcription.submit,
LEMMA FinalSubmit ==
  ASSUME Types, Chain, Final, Submit PROVE Final' /\ StaysReady
<1> USE SlotFacts, LinkFacts DEF At
<1>a. Running("submit") /\ pc["submit"] # "done" => Carries("submit") BY DEF Carries, Active, Running
<1>1. CASE SubmitLoad
  <2>1. \E p \in PCs : Starts("submit", p) BY <1>1 DEF SubmitLoad, PCs
  <2>2. Carries("submit") /\ job'["purge"] = job["purge"] BY <2>1, FinalStarts
  <2> QED BY <1>1, <2>2, FinalWorks DEF SubmitLoad
<1>2. CASE SubmitWaits
  <2>1. row'.status = row.status BY <1>2 DEF SubmitWaits, Types, TypeOK, Row
  <2> QED BY <1>2, <1>a, <2>1, FinalWorks DEF SubmitWaits
<1>3. CASE SubmitSelects
  <2>1. row'.status = row.status BY <1>3 DEF SubmitSelects, Types, TypeOK, Row
  <2> QED BY <1>3, <1>a, <2>1, FinalWorks DEF SubmitSelects
<1>4. CASE SubmitAccepted BY <1>4, <1>a, FinalWorks DEF SubmitAccepted
<1>5. CASE SubmitAnswerLost BY <1>5, FinalFails DEF SubmitAnswerLost
<1>6. CASE SubmitRecord
  <2>1. row'.status = row.status BY <1>6 DEF SubmitRecord, Types, TypeOK, Row
  <2> QED BY <1>6, <1>a, <2>1, FinalWorks DEF SubmitRecord
<1>7. CASE SubmitFirstPoll
  <2>1. job'["purge"] = job["purge"] BY <1>7, FinalQueues DEF SubmitFirstPoll, EnqueuePoll, EnqueueOnce
  <2> QED BY <1>7, <1>a, <2>1, FinalWorks DEF SubmitFirstPoll
<1> QED BY <1>1, <1>2, <1>3, <1>4, <1>5, <1>6, <1>7 DEF Submit

\* under transcription.poll,
LEMMA FinalPoll ==
  ASSUME Types, Chain, Final, NEW s \in PollSlots, Poll(s) PROVE Final' /\ StaysReady
<1> USE SlotFacts, LinkFacts DEF At
<1>a. Running(s) /\ pc[s] # "done" => Carries(s) BY DEF Carries, Active, Running
<1>b. s # "ingest" /\ s \in PipelineSlots OBVIOUS
<1>1. CASE PollLoad(s)
  <2>1. \E p \in PCs : Starts(s, p) BY <1>1 DEF PollLoad, PCs
  <2>2. Carries(s) /\ job'["purge"] = job["purge"] BY <2>1, FinalStarts
  <2> QED BY <1>1, <1>b, <2>2, FinalWorks DEF PollLoad
<1>2. CASE PollAsk(s) BY <1>2, <1>a, <1>b, FinalWorks DEF PollAsk
<1>3. CASE PollComplete(s)
  <2>1. row'.status = row.status BY <1>3 DEF PollComplete, Types, TypeOK, Row
  <2> QED BY <1>3, <1>a, <1>b, <2>1, FinalWorks DEF PollComplete
<1>4. CASE PollToIngest(s)
  <2>1. job'["purge"] = job["purge"] BY <1>4, FinalQueues DEF PollToIngest
  <2> QED BY <1>4, <1>a, <1>b, <2>1, FinalWorks DEF PollToIngest
<1>5. CASE PollNote(s)
  <2>1. row'.status = row.status BY <1>5 DEF PollNote, Types, TypeOK, Row
  <2> QED BY <1>5, <1>a, <1>b, <2>1, FinalWorks DEF PollNote
<1>6. CASE PollNext(s)
  <2>1. job'["purge"] = job["purge"] BY <1>6, FinalQueues DEF PollNext, EnqueuePoll, EnqueueOnce
  <2> QED BY <1>6, <1>a, <1>b, <2>1, FinalWorks DEF PollNext
<1> QED BY <1>1, <1>2, <1>3, <1>4, <1>5, <1>6 DEF Poll

\* and under transcription.ingest, which is what makes it ready.
LEMMA FinalIngest ==
  ASSUME Undisturbed, Types, Chain, Final, Ingest PROVE Final' /\ StaysReady
<1> USE SlotFacts, LinkFacts DEF At
<1>a. Running("ingest") /\ pc["ingest"] # "done" => Carries("ingest") BY DEF Carries, Active, Running
<1>b. ASSUME NEW p, Goto("ingest", p), UNCHANGED job
      PROVE  pc'["ingest"] = p /\ \A k \in Slots \ {"ingest"} : job'[k] = job[k] /\ pc'[k] = pc[k]
  BY <1>b DEF Goto, Types, TypeOK
<1>c. row.status = "ready" => row.version = 1 BY DEF Final
<1>1. CASE IngestLoad
  <2>1. PICK p \in PCs : Starts("ingest", p) /\ (row.version = 1 => p = "done") BY <1>1 DEF IngestLoad, PCs
  <2>2. /\ Carries("ingest") /\ pc'["ingest"] = p
        /\ \A k \in Slots \ {"ingest"} : job'[k] = job[k] /\ pc'[k] = pc[k]
    BY <2>1, FinalStarts
  <2>3. UNCHANGED <<row, hook, call, listener>> /\ StaysReady BY <1>1 DEF IngestLoad, StaysReady
  <2>4. row'.status = "ready" => row'.version = 1 /\ pc'["ingest"] = "done" BY <1>c, <2>1, <2>2, <2>3
  <2> QED BY <2>2, <2>3, <2>4, FinalIngests
<1>2. CASE IngestFetch
  <2>1. CASE HandlerThrows("ingest") BY <1>2, <2>1, FinalThrows DEF IngestFetch
  <2>2. CASE Goto("ingest", "commit") /\ UNCHANGED <<job, seen, listener, tally>>
    <3>1. Carries("ingest") BY <1>2, <1>a DEF IngestFetch
    <3>2. row.status # "ready" BY <1>2, <3>1 DEF IngestFetch, Final
    <3>3. UNCHANGED <<row, hook, call, listener>> /\ StaysReady BY <1>2, <2>2, <3>2 DEF IngestFetch, StaysReady
    <3> QED BY <1>b, <2>2, <3>1, <3>2, <3>3, FinalIngests
  <2> QED BY <1>2, <2>1, <2>2 DEF IngestFetch
<1>3. CASE IngestCommit
  <2>1. row'.status = "ready" /\ row'.version = 1 BY <1>3 DEF IngestCommit, Types, TypeOK, Row
  <2>2. PICK p \in {"release", "notify"} : Goto("ingest", p) BY <1>3 DEF IngestCommit
  <2>3. Carries("ingest") /\ StaysReady /\ UNCHANGED <<job, hook, call, listener>>
    BY <1>3, <1>a, <2>1 DEF IngestCommit, StaysReady
  <2> QED BY <1>b, <2>1, <2>2, <2>3, FinalIngests
<1>4. CASE IngestRelease \/ IngestNotify
  <2>1. PICK p \in {"notify", "done"} : Goto("ingest", p) BY <1>4 DEF IngestRelease, IngestNotify
  <2>2. Carries("ingest") /\ StaysReady /\ UNCHANGED <<row, job, hook, call, listener>>
    BY <1>4, <1>a DEF IngestRelease, IngestNotify, StaysReady
  <2> QED BY <1>b, <1>c, <2>1, <2>2, FinalIngests
<1> QED BY <1>1, <1>2, <1>3, <1>4 DEF Ingest

\* No rendition is made and nothing is purged.
LEMMA FinalIdle ==
  ASSUME Undisturbed, Chain, Final PROVE ~Transcode /\ ~Purge
<1>1. ~Active("transcode") /\ ~Active("purge") BY DEF Undisturbed, Chain, Final
<1>2. ~Transcode
  BY <1>1 DEF Transcode, TranscodeLoad, TranscodeBroken, TranscodeOnNode, TranscodeNodeResult,
     TranscodeNodeFails, TranscodeAttach, TranscodeWake, TranscodeQueue, TranscodeToSubmit, TranscodeGiveUp,
     TranscodeVerdict, TranscodeBlame, TranscodeRethrow, Starts, ClaimJob, At, Active, Running
<1>3. ~Purge BY <1>1 DEF Purge, PurgeLoad, PurgeForgetRemote, PurgeDelete, Starts, ClaimJob, At, Active, Running
<1> QED BY <1>2, <1>3

\* The ready transcript under the worker,
LEMMA FinalWorker ==
  ASSUME Undisturbed, Types, Chain, Final, NEW s \in Slots, Worker(s) PROVE Final' /\ StaysReady
<1> USE SlotFacts, LinkFacts
<1>1. CASE Finish(s) BY <1>1, FinalFinish
<1>2. CASE UpdateRefused(s)
  <2>1. Running(s) /\ pc[s] # "done" /\ ThrowStep(s) /\ UNCHANGED <<row, hook, call>>
    BY <1>2 DEF UpdateRefused
  <2> QED BY <2>1, FinalThrows
<1>3. CASE Refuse(s)
  <2>1. row'.status \in {row.status, "failed"} BY <1>3, MarkFailedGoesOn DEF Refuse
  <2>2. /\ Running(s) /\ pc[s] \in {"refuse", "select", "deliver", "ask", "fetch"}
        /\ UNCHANGED <<job, hook, call, listener>> /\ Goto(s, "done")
    BY <1>3 DEF Refuse
  <2>3. s \in PipelineSlots /\ Carries(s) BY <2>2 DEF Final, Active, Running, Carries
  <2>4. CASE s = "ingest"
    <3>1. row.status # "ready" BY <2>2, <2>3 DEF Final
    <3>2. row'.status # "ready" BY <2>1, <3>1
    <3>3. \A k \in Slots \ {"ingest"} : job'[k] = job[k] /\ pc'[k] = pc[k]
      BY <2>2, <2>4 DEF Goto, Types, TypeOK
    <3>4. StaysReady BY <3>1 DEF StaysReady
    <3> QED BY <2>2, <2>3, <2>4, <3>2, <3>3, <3>4, FinalIngests
  <2>5. CASE s # "ingest" BY <2>1, <2>2, <2>3, <2>5, FinalWorks
  <2> QED BY <2>4, <2>5
<1>4. CASE Reap(s) BY <1>4 DEF Reap, Chain
<1> QED BY <1>1, <1>2, <1>3, <1>4 DEF Worker

\* under the upload hook,
LEMMA FinalHooks ==
  ASSUME Undisturbed, Types, Chain, Final, NEW u \in Uploads, Hook(u) \/ HookThrows(u)
  PROVE  Final' /\ StaysReady
<1> USE SlotFacts, LinkFacts DEF HookAt
<1>0. /\ hook[u] # "off" => row.status # "ready"
      /\ {"abort", "choose", "mark", "off", "queue", "toSubmit", "transcode"} \subseteq HookPCs \ {"event"}
  BY DEF Final, HookPCs
<1>a. \A stage : MarkFailed(stage) => row'.status \in {row.status, "failed"} BY MarkFailedGoesOn
<1>1. CASE HookPromote(u)
  <2>1. CASE Live /\ row.status = "uploading"
    <3>1. row'.status = "processing" BY <1>1, <2>1 DEF HookPromote, Types, TypeOK, Row
    <3> QED BY <1>0, <1>1, <2>1, <3>1, FinalHook DEF HookPromote
  <2>2. CASE ~(Live /\ row.status = "uploading") BY <1>0, <1>1, <2>2, FinalHook DEF HookPromote
  <2> QED BY <2>1, <2>2
<1>2. CASE HookTranscode(u) BY <1>0, <1>2, FinalHook DEF HookTranscode, Undisturbed
<1>3. CASE HookMark(u)
  <2>1. row'.status = row.status BY <1>3 DEF HookMark, Types, TypeOK, Row
  <2> QED BY <1>0, <1>3, <2>1, FinalHook DEF HookMark
<1>4. CASE HookUnconfigured(u) \/ HookAbort(u)
  <2>1. row'.status \in {row.status, "failed"} BY <1>4, <1>a DEF HookUnconfigured, HookAbort
  <2> QED BY <1>0, <1>4, <2>1, FinalHook DEF HookUnconfigured, HookAbort
<1>5. CASE HookChoose(u)
  <2>1. PICK x \in {"off", "queue"} : HookGoto(u, x) BY <1>5 DEF HookChoose
  <2>2. row'.status \in {row.status, "failed"}
    <3>1. \/ UNCHANGED row \/ MarkFailed("transcription") \/ row' = [row EXCEPT !.ts = "waiting_input"]
      BY <1>5 DEF HookChoose
    <3> QED BY <1>a, <3>1 DEF Types, TypeOK, Row
  <2> QED BY <1>0, <1>5, <2>1, <2>2, FinalHook DEF HookChoose
<1>6. CASE HookQueue(u)
  <2>1. row'.status = row.status BY <1>6 DEF HookQueue, MarkQueued, Types, TypeOK, Row
  <2> QED BY <1>0, <1>6, <2>1, FinalHook DEF HookQueue
<1>7. CASE HookToSubmit(u)
  <2>1. job'["purge"] = job["purge"] BY <1>7, FinalQueues DEF HookToSubmit
  <2> QED BY <1>0, <1>7, <2>1, FinalHook DEF HookToSubmit
<1>8. CASE HookThrows(u)
  <2>1. PICK x \in {"off", "abort"} : HookGoto(u, x) BY <1>8 DEF HookThrows
  <2> QED BY <1>0, <1>8, <2>1, FinalHook DEF HookThrows
<1> QED BY <1>1, <1>2, <1>3, <1>4, <1>5, <1>6, <1>7, <1>8 DEF Hook

\* under the failure listener,
LEMMA FinalListener ==
  ASSUME Types, Final, NEW s \in Slots, Listener(s) \/ ListenerThrows(s) PROVE Final' /\ StaysReady
<1>0. listener[s] \in {"write", "verdict", "blame"} => row.status # "ready" BY DEF Final
<1>a. \A stage : MarkFailed(stage) => row'.status \in {row.status, "failed"} /\ row'.version = row.version
  BY MarkFailedGoesOn
<1>1. CASE ListenerCheck(s) \/ ListenerVerdict(s) \/ ListenerThrows(s)
  <2>1. UNCHANGED <<row, job, pc, hook, call>> /\ listener[s] # "none" /\ StaysReady
    BY <1>1 DEF ListenerCheck, ListenerVerdict, ListenerThrows, StaysReady
  <2>2. PICK x \in {"none", "write", "blame"} :
          listener' = [listener EXCEPT ![s] = x] /\ (x # "none" => row.status # "ready")
    BY <1>0, <1>1 DEF ListenerCheck, ListenerVerdict, ListenerThrows
  <2> QED BY <2>1, <2>2, FinalListens
<1>2. CASE ListenerWrite(s) \/ ListenerBlame(s)
  <2>1. UNCHANGED <<job, pc, hook, call>> /\ listener[s] # "none" /\ row.status # "ready"
    BY <1>0, <1>2 DEF ListenerWrite, ListenerBlame
  <2>2. PICK x \in {"none", "verdict"} : listener' = [listener EXCEPT ![s] = x]
    BY <1>2 DEF ListenerWrite, ListenerBlame
  <2>3. row'.status \in {row.status, "failed"} /\ row'.version = row.version
    BY <1>2, <1>a, PlaybackGoesOn DEF ListenerWrite, ListenerBlame
  <2>4. StaysReady /\ row'.status # "ready" BY <2>1, <2>3 DEF StaysReady
  <2> QED BY <2>1, <2>2, <2>3, <2>4, FinalListens
<1> QED BY <1>1, <1>2 DEF Listener

\* under the owner, who asks for nothing, the sweep, the provider and the clock.
LEMMA FinalWorld ==
  ASSUME Undisturbed, Types, Final, sweep = "idle",
         \/ \E c \in Callers : CallBegins(c) \/ CallStep(c) \/ CallThrows(c)
         \/ Sweep \/ SweepThrows \/ RemoteFinishes \/ DeadlinePasses
  PROVE  Final' /\ StaysReady
<1>1. ASSUME NEW c \in Callers PROVE ~CallBegins(c) /\ ~CallStep(c) /\ ~CallThrows(c)
  <2>1. call[c] = NoCall /\ call[c].pc = "idle" BY DEF Final, NoCall
  <2>2. ~CallBegins(c) BY DEF CallBegins, RetryBegins, CancelBegins, RemoveBegins, Begin, Undisturbed
  <2>3. ~CallStep(c)
    BY <2>1 DEF CallStep, CallAt, RetryReopens, RetryResumes, RetryPolls, RetryClears, RetryQueues,
       RetrySubmits, CancelStopsRemote, CancelWrites, RemoveDeletes, RemovePurges
  <2> QED BY <2>1, <2>2, <2>3 DEF CallThrows
<1>2. UNCHANGED <<job, pc, hook, call, listener>>
  BY <1>1 DEF Sweep, SweepFinds, SweepChecks, SweepRestarts, SweepThrows, RemoteFinishes, DeadlinePasses
<1>3. row'.status = row.status /\ row'.version = row.version
  <2>1. UNCHANGED row \/ row' = [row EXCEPT !.overdue = TRUE]
    BY <1>1 DEF Sweep, SweepFinds, SweepChecks, SweepRestarts, SweepThrows, RemoteFinishes, DeadlinePasses
  <2> QED BY <2>1 DEF Types, TypeOK, Row
<1> QED BY <1>2, <1>3, FinalAside

\* under thrown errors and 429s.
LEMMA FinalFaults ==
  ASSUME Undisturbed, Types, Chain, Final, sweep = "idle", Faults, ~Crash PROVE Final' /\ StaysReady
<1>1. ASSUME NEW s \in Slots, Throw(s) PROVE Final' /\ StaysReady BY <1>1, FinalThrows DEF Throw
<1>2. ASSUME NEW s \in Slots, RateLimited(s) PROVE Final' /\ StaysReady
  <2>1. pc[s] # "done" BY <1>2 DEF RateLimited
  <2> QED BY <1>2, <2>1, FinalFails DEF RateLimited
<1> QED BY <1>1, <1>2, FinalListener, FinalHooks, FinalWorld DEF Faults

\* The hook waits for its event.
LEMMA FinalInit == Init => FinalInv
<1> SUFFICES ASSUME Init PROVE Final BY DEF FinalInv
<1>1. /\ \A s \in Slots : job[s].state = "none" /\ listener[s] = "none"
      /\ \A c \in Callers : call[c] = NoCall
      /\ row.status = "uploading"
  BY DEF Init, QueueInit, NoJob
<1>2. \A s \in Slots : ~Active(s) /\ ~Carries(s) BY <1>1 DEF Active, Carries
<1> QED BY <1>1, <1>2, LinkFacts, SlotFacts DEF Final

\* Before the first crash every step of the system leaves a ready transcript ready.
LEMMA FinalStep ==
  ASSUME Undisturbed, Types, Chain, Final, SweepLate, used.crashes = 0, Next, ~Crash
  PROVE  Final' /\ StaysReady
<1>1. sweep = "idle" BY DEF SweepLate
<1>2. ASSUME NEW s \in Slots, Handler(s) PROVE Final' /\ StaysReady
  BY <1>2, FinalSubmit, FinalPoll, FinalIngest, FinalIdle DEF Handler
<1> QED BY <1>1, <1>2, FinalWorker, FinalListener, FinalHooks, FinalWorld, FinalFaults DEF Next

\* A step of the system or none leaves Final true up to the first crash.
LEMMA FinalNext ==
  ASSUME Undisturbed, Types, ChainInv, FinalInv, SweepLate, [Next]_vars PROVE FinalInv'
<1>1. CASE UNCHANGED vars
  BY <1>1 DEF vars, FinalInv, Final, Active, Carries, HooksOff
<1>2. CASE Next
  <2> SUFFICES ASSUME used'.crashes = 0 PROVE Final' BY DEF FinalInv
  <2>1. Chain /\ Final /\ used.crashes = 0 /\ ~Crash BY <1>2, CrashCounts DEF ChainInv, FinalInv
  <2> QED BY <1>2, <2>1, FinalStep
<1> QED BY <1>1, <1>2

\* A transcript that is uploaded once and left to itself stays ready once it is, whatever is
\* thrown, deferred or late: while no process has died.
THEOREM ReadyIsFinalHolds ==
  ASSUME Undisturbed
  PROVE  Spec /\ []SweepLate => ReadyIsFinal
<1>0. OneStart BY DEF Undisturbed, OneStart
<1>1. ASSUME Types, ChainInv, FinalInv, SweepLate, [Next]_vars
      PROVE  [used.crashes = 0 /\ row.status = "ready" => row'.status \in {"ready", "deleting"}]_vars
  <2>1. CASE Crash BY <2>1 DEF Crash
  <2>2. CASE Next /\ ~Crash BY <1>1, <2>2, FinalStep DEF ChainInv, FinalInv, StaysReady
  <2> QED BY <1>1, <2>1, <2>2
<1> QED BY <1>0, <1>1, TypesInit, TypesNext, ChainInit, ChainNext, FinalInit, FinalNext, PTL DEF Spec, ReadyIsFinal

-------------------------------------------------------------------------------
(* Nothing is left saying it is working.                                   *)

\* No await throws, no process dies, the provider does not push back more often than a row may
\* be deferred, and only the upload starts the pipeline.
Smooth == MaxFaults = 0 /\ MaxCrashes = 0 /\ MaxLimits <= MaxHits /\ OneStart

\* The provider takes the file as it was uploaded.
Direct == AudioDelivery = "presigned_url" /\ Usable(row.original)

\* What a transcript that is uploading or processing looks like, part by part:
\* its row,
Fresh ==
  /\ row.version = 0 /\ ~row.deleted /\ row.ts \notin {"cancelled", "failed"}
  /\ row.handle \in 0..Len(remote)

\* before the first job,
Untouched ==
  \A u \in Uploads :
    /\ hook[u] \in Opening \/ row.status = "uploading" =>
         /\ \A s \in PipelineSlots : ~Active(s)
         /\ \A s \in Slots : listener[s] = "none"
         /\ row.ts # "completed"
    /\ row.status = "uploading" \/ hook[u] = "transcode" =>
         row.ts = "waiting_input" /\ row.playback = "pending"
    /\ ~TranscodeRegistered /\ hook[u] \in {"queue", "toSubmit"} => Direct

\* when a transcode failed on a node,
Heard ==
  \A s \in Slots : listener[s] # "none" =>
    /\ s = "transcode" /\ row.status = "processing" /\ row.ts = "waiting_input"
    /\ \A k \in PipelineSlots : ~Active(k)

\* while a rendition is made,
Rendering ==
  Carries("transcode") =>
    /\ \A k \in PipelineSlots \ {"transcode"} : ~Active(k)
    /\ pc["transcode"] \notin {"rethrow", "deliver", "ask", "fetch"} /\ row.ts # "completed"
    /\ pc["transcode"] # "toSubmit" => row.ts = "waiting_input"
    /\ pc["transcode"] \in {"idle", "node", "run", "attach"} => row.playback # "ready"
    /\ pc["transcode"] \in {"wake", "queue", "toSubmit"} => row.playback = "ready"

\* while it is submitted,
Submitting ==
  Carries("submit") =>
    /\ TranscodeRegistered =>
         row.playback = "ready" /\ (pc["submit"] # "idle" => seen["submit"].playback = "ready")
    /\ ~TranscodeRegistered => Direct
    /\ row.ts # "completed"
    /\ pc["submit"] = "record" => seen["submit"].handle \in 1..Len(remote)
    /\ pc["submit"] = "firstPoll" => row.handle # 0

\* polled
Polling ==
  \A s \in PollSlots : Carries(s) =>
    /\ row.handle # 0
    /\ pc[s] # "toIngest" => row.ts # "completed"
    /\ pc[s] \in {"ask", "complete", "toIngest"} => seen[s].handle = row.handle
    /\ pc[s] \in {"ask", "note"} => seen[s].ts \notin {"completed", "failed", "cancelled"}
    /\ pc[s] \in {"complete", "toIngest"} => remote[row.handle] # "running"

\* and ingested.
Ingesting ==
  Active("ingest") =>
    /\ pc["ingest"] \notin {"done", "release", "notify"}
    /\ row.handle # 0 /\ remote[row.handle] # "running"
    /\ pc["ingest"] = "fetch" => seen["ingest"].handle = row.handle

\* And there is somebody who goes on.
GoesOn ==
  row.status = "processing" =>
    \/ \E s \in PipelineSlots : Carries(s)
    \/ \E u \in Uploads : hook[u] \in Opening
    \/ \E s \in Slots : listener[s] # "none"

Going ==
  row.status \in {"uploading", "processing"} =>
    Fresh /\ Untouched /\ Heard /\ Rendering /\ Submitting /\ Polling /\ Ingesting /\ GoesOn

\* A row is put back no more often than the provider pushed back.
Hits == \A s \in Slots : job[s].hits <= used.limits

\* Next to the job that carries the transcript there is nothing.
LEMMA GoingAlone ==
  ASSUME Types, Chain, Going, row.status \in {"uploading", "processing"},
         NEW s \in PipelineSlots, Carries(s)
  PROVE  /\ row.status = "processing"
         /\ \A u \in Uploads : hook[u] \notin Opening
         /\ \A k \in Slots : listener[k] = "none"
         /\ \A k \in PipelineSlots \ {s} : ~Carries(k)
         /\ s # "ingest" => ~Active("ingest")
<1>1. Active(s) BY DEF Carries
<1>2. row.status = "processing" BY <1>1 DEF Chain
<1>3. Active("ingest") => Carries("ingest") BY DEF Going, Ingesting, Carries
<1> QED BY <1>1, <1>2, <1>3, LinkFacts DEF Chain, Going, Heard

\* A carrier goes on, or hands on to t.
LEMMA GoingWorks ==
  ASSUME Types, Chain, Going, RowGoesOn, NEW s \in PipelineSlots, Carries(s), UNCHANGED <<hook, listener>>,
         row.status = "processing",
         NEW t \in PipelineSlots, Carries(t)', \A k \in PipelineSlots \ {t} : ~Carries(k)',
         t # "ingest" => ~Active("ingest")',
         Fresh',
         t = "transcode" => Rendering', t = "submit" => Submitting',
         t \in PollSlots => Polling', t = "ingest" => Ingesting'
  PROVE  Going'
<1> USE LinkFacts, SlotFacts
<1>1. /\ \A u \in Uploads : hook[u] \notin Opening
      /\ \A k \in Slots : listener[k] = "none"
  BY GoingAlone
<1>2. row'.status # "uploading" BY DEF RowGoesOn
<1>3. {"transcode"} \subseteq Opening /\ (~TranscodeRegistered => {"queue", "toSubmit"} \subseteq Opening)
  BY DEF Opening, Promoted
<1>4. Untouched' BY <1>1, <1>2, <1>3 DEF Untouched
<1>5. Heard' BY <1>1 DEF Heard
<1>6. Rendering' BY DEF Rendering
<1>7. Submitting' BY DEF Submitting
<1>8. Polling'
  <2>1. CASE t \in PollSlots BY <2>1
  <2>2. CASE t \notin PollSlots
    <3>1. \A k \in PollSlots : ~Carries(k)' BY <2>2
    <3> QED BY <3>1 DEF Polling
  <2> QED BY <2>1, <2>2
<1>9. Ingesting' BY DEF Ingesting
<1>10. GoesOn' BY DEF GoesOn
<1> QED BY <1>4, <1>5, <1>6, <1>7, <1>8, <1>9, <1>10 DEF Going

\* A step that nobody in the pipeline takes, and that takes nothing from it.
LEMMA GoingAside ==
  ASSUME Types, Chain, Going, RowGoesOn, UNCHANGED <<hook, listener>>,
         \A s \in PipelineSlots : job'[s] = job[s] /\ pc'[s] = pc[s] /\ seen'[s] = seen[s],
         row'.status \in {"uploading", "processing"} =>
           /\ row'.status = row.status /\ row'.version = row.version /\ row'.deleted = row.deleted
           /\ row'.ts = row.ts /\ row'.handle = row.handle /\ row'.playback = row.playback,
         Len(remote') = Len(remote),
         \A h \in 1..Len(remote) : remote[h] # "running" => remote'[h] # "running"
  PROVE  Going'
<1> USE LinkFacts, SlotFacts
<1>0. SUFFICES ASSUME row'.status \in {"uploading", "processing"}
      PROVE Fresh' /\ Untouched' /\ Heard' /\ Rendering' /\ Submitting' /\ Polling' /\ Ingesting' /\ GoesOn'
  BY DEF Going
<1>1. /\ row'.status = row.status /\ row'.version = row.version /\ row'.deleted = row.deleted
      /\ row'.ts = row.ts /\ row'.handle = row.handle /\ row'.playback = row.playback
      /\ row'.original = row.original
  BY <1>0 DEF RowGoesOn
<1>2. Fresh /\ Untouched /\ Heard /\ Rendering /\ Submitting /\ Polling /\ Ingesting /\ GoesOn
  BY <1>0, <1>1 DEF Going
<1>3. \A s \in PipelineSlots : (Active(s)' <=> Active(s)) /\ (Carries(s)' <=> Carries(s))
  BY DEF Active, Carries
<1>4. Len(remote) \in Nat BY DEF Types, TypeOK
<1>5. row.handle # 0 => (remote[row.handle] # "running" => remote'[row'.handle] # "running")
  BY <1>1, <1>2, <1>4 DEF Fresh
<1>6. Direct' <=> Direct BY <1>1 DEF Direct
<1>7. Fresh' BY <1>1, <1>2 DEF Fresh
<1>8. Untouched' BY <1>1, <1>2, <1>3, <1>6 DEF Untouched
<1>9. Heard' BY <1>1, <1>2, <1>3 DEF Heard
<1>10. Rendering' BY <1>1, <1>2, <1>3 DEF Rendering
<1>11. Submitting' BY <1>1, <1>2, <1>3, <1>6 DEF Submitting
<1>12. Polling' BY <1>1, <1>2, <1>3, <1>5 DEF Polling
<1>13. Ingesting' BY <1>1, <1>2, <1>3, <1>5 DEF Ingesting
<1>14. GoesOn' BY <1>1, <1>2, <1>3 DEF GoesOn
<1> QED BY <1>7, <1>8, <1>9, <1>10, <1>11, <1>12, <1>13, <1>14

\* A job that has done its part is over.
LEMMA GoingFinish ==
  ASSUME Types, Chain, Going, NEW s \in Slots, Finish(s) PROVE Going'
<1> USE LinkFacts, SlotFacts
<1>0. SUFFICES ASSUME row.status \in {"uploading", "processing"}
      PROVE Fresh' /\ Untouched' /\ Heard' /\ Rendering' /\ Submitting' /\ Polling' /\ Ingesting' /\ GoesOn'
  BY DEF Going, Finish
<1>1. /\ \A k \in Slots \ {s} : job'[k] = job[k] /\ pc'[k] = pc[k] /\ seen'[k] = seen[k]
      /\ job'[s].state = "none"
  BY DEF Finish, Complete, Reset, Keep, Goto, Types, TypeOK, NoJob
<1>2. pc[s] = "done" /\ UNCHANGED <<row, remote, hook, listener>> BY DEF Finish
<1>3. \A k \in PipelineSlots : /\ Carries(k)' <=> Carries(k)
                               /\ Carries(k) => pc'[k] = pc[k] /\ seen'[k] = seen[k]
                               /\ Active(k)' => Active(k)
  BY <1>1, <1>2 DEF Carries, Active
<1>4. Fresh /\ Untouched /\ Heard /\ Rendering /\ Submitting /\ Polling /\ Ingesting /\ GoesOn
  BY <1>0 DEF Going
<1>5. Direct' <=> Direct BY <1>2 DEF Direct
<1>7. Fresh' BY <1>2, <1>4 DEF Fresh
<1>8. Untouched' BY <1>2, <1>3, <1>4, <1>5 DEF Untouched
<1>9. Heard' BY <1>2, <1>3, <1>4 DEF Heard
<1>10. Rendering' BY <1>2, <1>3, <1>4 DEF Rendering
<1>11. Submitting' BY <1>2, <1>3, <1>4, <1>5 DEF Submitting
<1>12. Polling' BY <1>2, <1>3, <1>4 DEF Polling
<1>13. Ingesting'
  <2>1. Active("ingest")' => Active("ingest") /\ pc'["ingest"] = pc["ingest"] /\ seen'["ingest"] = seen["ingest"]
    BY <1>1 DEF Active
  <2> QED BY <1>2, <1>4, <2>1 DEF Ingesting
<1>14. GoesOn' BY <1>2, <1>3, <1>4 DEF GoesOn
<1> QED BY <1>7, <1>8, <1>9, <1>10, <1>11, <1>12, <1>13, <1>14

\* A transcript whose work is under way exists and is not removed.
LEMMA GoingLive ==
  ASSUME Types, Going, row.status \in {"uploading", "processing"} PROVE Live
BY DEF Going, Fresh, Live, Exists

\* A carrier that goes on.
LEMMA GoingMoves ==
  ASSUME Types, Chain, Going, RowGoesOn, NEW s \in PipelineSlots, Carries(s), UNCHANGED <<hook, listener>>,
         row.status = "processing",
         \A k \in Slots \ {s} : job'[k] = job[k] /\ pc'[k] = pc[k],
         job'[s].state # "none", pc'[s] # "done",
         Fresh',
         s = "transcode" => Rendering', s = "submit" => Submitting',
         s \in PollSlots => Polling', s = "ingest" => Ingesting'
  PROVE  Going'
<1> USE LinkFacts, SlotFacts
<1>1. Carries(s)' BY DEF Carries, Active
<1>2. \A k \in PipelineSlots \ {s} : ~Carries(k)' BY GoingAlone DEF Carries, Active
<1>3. s # "ingest" => ~Active("ingest")' BY GoingAlone DEF Active
<1> QED BY <1>1, <1>2, <1>3, GoingWorks

\* A carrier that moves within its handler.
LEMMA GoingGoto ==
  ASSUME Types, Chain, Going, RowGoesOn, NEW s \in PipelineSlots, Running(s), pc[s] # "done",
         NEW p, p # "done", Goto(s, p), UNCHANGED <<job, hook, listener>>, row.status = "processing",
         Fresh',
         s = "transcode" => Rendering', s = "submit" => Submitting',
         s \in PollSlots => Polling', s = "ingest" => Ingesting'
  PROVE  Going'
<1>1. /\ \A k \in Slots \ {s} : job'[k] = job[k] /\ pc'[k] = pc[k]
      /\ job'[s].state # "none" /\ pc'[s] = p /\ Carries(s)
  BY LinkFacts DEF Goto, Types, TypeOK, Running, Carries, Active
<1> QED BY <1>1, GoingMoves

\* A carrier that starts.
LEMMA GoingStarts ==
  ASSUME Types, Chain, Going, NEW s \in PipelineSlots, NEW p, p # "done", Starts(s, p),
         UNCHANGED <<row, hook, listener>>, row.status = "processing",
         Fresh',
         s = "transcode" => Rendering', s = "submit" => Submitting',
         s \in PollSlots => Polling', s = "ingest" => Ingesting'
  PROVE  Going'
<1>1. /\ \A k \in Slots \ {s} : job'[k] = job[k] /\ pc'[k] = pc[k]
      /\ pc'[s] = p /\ Carries(s)
  BY FinalStarts, LinkFacts
<1>2. job'[s].state = "running" BY LinkFacts DEF Starts, ClaimJob, Types, TypeOK, JobRow
<1> QED BY <1>1, <1>2, GoingMoves DEF RowGoesOn

\* A carrier that hands on to k, where nothing was.
LEMMA GoingHands ==
  ASSUME Types, Chain, Going, NEW s \in PipelineSlots, Running(s), pc[s] # "done", Goto(s, "done"),
         NEW k \in PipelineSlots \ {s}, ~Active(k), EnqueueOnce(k), UNCHANGED <<row, hook, listener>>,
         row.status = "processing", Fresh',
         k # "transcode", k = "submit" /\ pc'[k] = "idle" => Submitting',
         k \in PollSlots /\ pc'[k] = "idle" => Polling', k = "ingest" /\ pc'[k] = "idle" => Ingesting',
         s # "ingest"
  PROVE  Going'
<1> USE LinkFacts, SlotFacts
<1>1. Carries(s) BY DEF Carries, Active, Running
<1>2. /\ \A l \in Slots \ {k} : job'[l] = job[l]
      /\ job'[k].state = "pending"
  BY QueueGains
<1>3. pc[k] = "idle" BY DEF Chain, Active, Running
<1>4. pc'[s] = "done" /\ \A l \in Slots \ {s} : pc'[l] = pc[l] BY DEF Goto, Types, TypeOK
<1>5. Carries(k)' /\ pc'[k] = "idle" BY <1>2, <1>3, <1>4 DEF Carries, Active
<1>6. ASSUME NEW l \in PipelineSlots \ {k} PROVE ~Carries(l)'
  <2>1. CASE l = s BY <1>4, <2>1 DEF Carries
  <2>2. CASE l # s
    <3>1. ~Carries(l) BY <1>1, <2>2, GoingAlone
    <3> QED BY <1>2, <1>4, <2>2, <3>1 DEF Carries, Active
  <2> QED BY <2>1, <2>2
<1>7. k # "ingest" => ~Active("ingest")' BY <1>1, <1>2, GoingAlone DEF Active
<1> QED BY <1>1, <1>5, <1>6, <1>7, GoingWorks DEF RowGoesOn

\* The status a handler leaves.
LEMMA StatusAfter ==
  ASSUME Types, NEW s \in Slots, Handler(s) \/ Worker(s)
  PROVE  row'.status \in {row.status, "failed", "ready", "gone"}
<1>a. \A stage : MarkFailed(stage) => row'.status \in {row.status, "failed"} BY MarkFailedGoesOn
<1>b. MarkPlaybackFailed => row'.status = row.status BY PlaybackGoesOn
<1>c. row \in Row BY DEF Types, TypeOK
<1>1. Submit => row'.status = row.status
  BY <1>c DEF Submit, SubmitLoad, SubmitWaits, SubmitSelects, SubmitAccepted, SubmitAnswerLost,
     SubmitRecord, SubmitFirstPoll, Row
<1>2. s \in PollSlots /\ Poll(s) => row'.status = row.status
  BY <1>c DEF Poll, PollLoad, PollAsk, PollComplete, PollToIngest, PollNote, PollNext, Row
<1>3. Ingest => row'.status \in {row.status, "ready"}
  BY <1>c DEF Ingest, IngestLoad, IngestFetch, IngestCommit, IngestRelease, IngestNotify, Row
<1>4. Transcode => row'.status \in {row.status, "failed"}
  BY <1>a, <1>b, <1>c DEF Transcode, TranscodeLoad, TranscodeBroken, TranscodeOnNode, TranscodeNodeResult,
     TranscodeNodeFails, TranscodeAttach, TranscodeWake, TranscodeQueue, MarkQueued, TranscodeToSubmit,
     TranscodeGiveUp, TranscodeVerdict, TranscodeBlame, TranscodeRethrow, Row
<1>5. Purge => row'.status \in {row.status, "gone"}
  BY <1>c DEF Purge, PurgeLoad, PurgeForgetRemote, PurgeDelete, Row
<1>6. Worker(s) => row'.status \in {row.status, "failed"}
  BY <1>a DEF Worker, Finish, UpdateRefused, Refuse, Reap
<1> QED BY <1>1, <1>2, <1>3, <1>4, <1>5, <1>6 DEF Handler

\* Under transcription.submit,
LEMMA GoingSubmit ==
  ASSUME Smooth, Types, Chain, Going, row.status = "processing", Submit PROVE Going'
<1> USE SlotFacts, LinkFacts DEF At
<1>l. Live /\ Fresh /\ Submitting BY GoingLive DEF Going
<1>n. Len(remote) \in Nat /\ row \in Row /\ seen \in [Slots -> Snapshots] /\ pc \in [Slots -> PCs]
  BY DEF Types, TypeOK
<1>a. Running("submit") /\ pc["submit"] # "done" => Carries("submit") BY DEF Carries, Active, Running
<1>1. CASE SubmitLoad
  <2>1. /\ Starts("submit", IF row.handle # 0 THEN "firstPoll" ELSE "select")
        /\ Keep("submit", Snapshot) /\ UNCHANGED <<row, remote, hook, listener>>
    BY <1>1, <1>l DEF SubmitLoad, Fresh
  <2>2. PICK p \in {"firstPoll", "select"} :
          Starts("submit", p) /\ (p = "firstPoll" => row.handle # 0)
    BY <2>1
  <2>3. Carries("submit") /\ pc'["submit"] = p BY <2>2, FinalStarts
  <2>4. seen'["submit"].playback = row.playback BY <1>n, <2>1 DEF Keep, Snapshot
  <2>5. Submitting' BY <1>l, <2>1, <2>2, <2>3, <2>4 DEF Submitting, Direct
  <2>6. Fresh' BY <1>l, <2>1 DEF Fresh
  <2> QED BY <2>1, <2>2, <2>5, <2>6, GoingStarts
<1>2. CASE SubmitWaits
  <2>1. Carries("submit") /\ pc["submit"] = "select" BY <1>2, <1>a DEF SubmitWaits
  <2>2. Selection # "wait"
    <3>1. CASE TranscodeRegistered
      <4>1. seen["submit"].playback = "ready" BY <1>l, <2>1, <3>1 DEF Submitting
      <4> QED BY <4>1 DEF Selection, SelectTranscriptionInput
    <3>2. CASE ~TranscodeRegistered
      <4>1. Direct BY <1>l, <2>1, <3>2 DEF Submitting
      <4> QED BY <4>1 DEF Selection, SelectTranscriptionInput, Direct
    <3> QED BY <3>1, <3>2
  <2> QED BY <1>2, <2>2 DEF SubmitWaits
<1>3. CASE SubmitSelects
  <2>1. Carries("submit") /\ pc["submit"] = "select" /\ Goto("submit", "deliver") /\ Running("submit")
    BY <1>3, <1>a DEF SubmitSelects
  <2>2. /\ row'.status = row.status /\ row'.version = row.version /\ row'.deleted = row.deleted
        /\ row'.ts = "submitting" /\ row'.handle = row.handle /\ row'.playback = row.playback
        /\ row'.original = row.original
    BY <1>3, <1>n DEF SubmitSelects, Row
  <2>3. UNCHANGED <<job, seen, remote, hook, listener>> BY <1>3 DEF SubmitSelects
  <2>4. pc'["submit"] = "deliver" BY <1>n, <2>1 DEF Goto
  <2>5. Fresh' BY <1>l, <2>2, <2>3 DEF Fresh
  <2>6. Submitting' BY <1>l, <2>1, <2>2, <2>3, <2>4 DEF Submitting, Direct
  <2>7. RowGoesOn BY <2>2 DEF RowGoesOn
  <2> QED BY <2>1, <2>3, <2>5, <2>6, <2>7, GoingGoto
<1>4. CASE SubmitAccepted
  <2>1. Carries("submit") /\ pc["submit"] = "deliver" /\ Goto("submit", "record") /\ Running("submit")
    BY <1>4, <1>a DEF SubmitAccepted
  <2>2. UNCHANGED <<row, job, hook, listener>> BY <1>4 DEF SubmitAccepted
  <2>3. pc'["submit"] = "record" BY <1>n, <2>1 DEF Goto
  <2>4. seen'["submit"].handle = Len(remote) + 1 /\ seen'["submit"].playback = seen["submit"].playback
    BY <1>4, <1>n DEF SubmitAccepted, Keep, Snapshots
  <2>5. Len(remote') = Len(remote) + 1 BY <1>4 DEF SubmitAccepted, Types, TypeOK
  <2>6. seen'["submit"].handle \in 1..Len(remote') /\ row.handle \in 0..Len(remote')
    BY <1>l, <1>n, <2>4, <2>5 DEF Fresh
  <2>7. Fresh' BY <1>l, <2>2, <2>6 DEF Fresh
  <2>8. Submitting' BY <1>l, <2>1, <2>2, <2>3, <2>4, <2>6 DEF Submitting, Direct
  <2> QED BY <2>1, <2>2, <2>7, <2>8, GoingGoto DEF RowGoesOn
<1>5. CASE SubmitAnswerLost
  BY <1>5 DEF SubmitAnswerLost, Smooth, Types, TypeOK, Used
<1>6. CASE SubmitRecord
  <2>1. Carries("submit") /\ pc["submit"] = "record" /\ Goto("submit", "firstPoll") /\ Running("submit")
    BY <1>6, <1>a DEF SubmitRecord
  <2>2. /\ row'.status = row.status /\ row'.version = row.version /\ row'.deleted = row.deleted
        /\ row'.ts = "submitted" /\ row'.handle = seen["submit"].handle /\ row'.playback = row.playback
        /\ row'.original = row.original
    BY <1>6, <1>n DEF SubmitRecord, Row
  <2>3. UNCHANGED <<job, seen, remote, hook, listener>> BY <1>6 DEF SubmitRecord
  <2>4. pc'["submit"] = "firstPoll" BY <1>n, <2>1 DEF Goto
  <2>5. row'.handle \in 1..Len(remote) BY <1>l, <2>1, <2>2 DEF Submitting
  <2>6. Fresh' BY <1>l, <1>n, <2>2, <2>3, <2>5 DEF Fresh
  <2>7. Submitting' BY <1>l, <1>n, <2>1, <2>2, <2>3, <2>4, <2>5 DEF Submitting, Direct
  <2>8. RowGoesOn BY <2>2 DEF RowGoesOn
  <2> QED BY <2>1, <2>3, <2>6, <2>7, <2>8, GoingGoto
<1>7. CASE SubmitFirstPoll
  <2>1. Carries("submit") /\ pc["submit"] = "firstPoll" /\ Goto("submit", "done") /\ Running("submit")
    BY <1>7, <1>a DEF SubmitFirstPoll
  <2>2. PICK k \in PollSlots : Enqueue(k) BY <1>7 DEF SubmitFirstPoll, EnqueuePoll
  <2>3. ~Active(k) /\ EnqueueOnce(k) /\ k # "submit" /\ k \in PipelineSlots \ {"submit"} /\ k # "transcode"
    BY <2>2 DEF Enqueue, EnqueueOnce
  <2>4. UNCHANGED <<row, remote, hook, listener>> BY <1>7 DEF SubmitFirstPoll
  <2>5. Fresh' BY <1>l, <2>4 DEF Fresh
  <2>6. ASSUME pc'[k] = "idle" PROVE Polling'
    <3>1. \A l \in PollSlots \ {k} : ~Carries(l)'
      <4>1. \A l \in PollSlots \ {k} : ~Carries(l) /\ job'[l] = job[l] /\ pc'[l] = pc[l]
        BY <1>n, <2>1, <2>2, GoingAlone DEF Enqueue, Goto, Types, TypeOK
      <4> QED BY <4>1 DEF Carries, Active
    <3>2. row'.handle # 0 /\ row'.ts # "completed" BY <1>l, <2>1, <2>4 DEF Submitting
    <3> QED BY <2>6, <3>1, <3>2 DEF Polling
  <2> QED BY <2>1, <2>3, <2>4, <2>5, <2>6, GoingHands
<1> QED BY <1>1, <1>2, <1>3, <1>4, <1>5, <1>6, <1>7 DEF Submit

\* Of the other links of the chain none is Polling.
LEMMA OnlyPoll ==
  ASSUME Types, Chain, Going, row.status = "processing", NEW s \in PipelineSlots, Carries(s),
         NEW k \in PollSlots, \A l \in PollSlots \ {k} : l = s \/ (job'[l] = job[l] /\ pc'[l] = pc[l]),
         k = s \/ s \notin PollSlots \/ pc'[s] = "done",
         Carries(k)' =>
           /\ row'.handle # 0
           /\ pc'[k] # "toIngest" => row'.ts # "completed"
           /\ pc'[k] \in {"ask", "complete", "toIngest"} => seen'[k].handle = row'.handle
           /\ pc'[k] \in {"ask", "note"} => seen'[k].ts \notin {"completed", "failed", "cancelled"}
           /\ pc'[k] \in {"complete", "toIngest"} => remote'[row'.handle] # "running"
  PROVE  Polling'
<1>1. \A l \in PollSlots \ {k} : ~Carries(l)'
  <2>1. TAKE l \in PollSlots \ {k}
  <2>2. CASE l = s BY <2>2 DEF Carries
  <2>3. CASE l # s
    <3>1. ~Carries(l) BY <2>3, GoingAlone, LinkFacts
    <3> QED BY <2>3, <3>1 DEF Carries, Active
  <2> QED BY <2>2, <2>3
<1> QED BY <1>1 DEF Polling

\* under transcription.poll,
LEMMA GoingPoll ==
  ASSUME Types, Chain, Going, row.status = "processing", NEW s \in PollSlots, Poll(s) PROVE Going'
<1> USE SlotFacts, LinkFacts DEF At
<1>l. Live /\ Fresh /\ Polling BY GoingLive DEF Going
<1>n. /\ Len(remote) \in Nat /\ row \in Row /\ seen \in [Slots -> Snapshots] /\ pc \in [Slots -> PCs]
      /\ s \in PipelineSlots /\ s \notin {"submit", "ingest", "transcode"}
  BY DEF Types, TypeOK
<1>a. Running(s) /\ pc[s] # "done" => Carries(s) BY DEF Carries, Active, Running
<1>b. ASSUME NEW p, Goto(s, p), UNCHANGED job
      PROVE  pc'[s] = p /\ \A l \in Slots \ {s} : job'[l] = job[l] /\ pc'[l] = pc[l]
  BY <1>b, <1>n DEF Goto
<1>1. CASE PollLoad(s)
  <2>1. Carries(s) /\ pc[s] = "idle"
    <3>1. \E p \in PCs : Starts(s, p) BY <1>1 DEF PollLoad, PCs
    <3>2. job[s].state = "pending" BY <3>1 DEF Starts, ClaimJob
    <3> QED BY <3>1, <3>2, FinalStarts DEF Chain, Running
  <2>2. ~ChainEnded BY <1>l, <2>1 DEF ChainEnded, Fresh, Polling
  <2>3. PICK p \in {"refuse", "ask"} : Starts(s, p) BY <1>1, <2>2 DEF PollLoad
  <2>4. UNCHANGED <<row, remote, hook, listener>> /\ Keep(s, [Snapshot EXCEPT !.playback = "pending"])
    BY <1>1, <2>2 DEF PollLoad
  <2>5. pc'[s] = p /\ \A l \in Slots \ {s} : job'[l] = job[l] /\ pc'[l] = pc[l] BY <2>3, FinalStarts
  <2>6. seen'[s].handle = row.handle /\ seen'[s].ts = row.ts BY <1>n, <2>4 DEF Keep, Snapshot
  <2>7. Fresh' BY <1>l, <2>4 DEF Fresh
  <2>8. row.handle # 0 /\ row.ts \notin {"completed", "failed", "cancelled"}
    BY <1>l, <2>1 DEF Polling, Fresh
  <2>9. Polling' BY <2>1, <2>4, <2>5, <2>6, <2>8, OnlyPoll
  <2> QED BY <1>n, <2>3, <2>4, <2>7, <2>9, GoingStarts
<1>2. CASE PollAsk(s)
  <2>1. Carries(s) /\ Running(s) /\ pc[s] = "ask" BY <1>2, <1>a DEF PollAsk
  <2>2. UNCHANGED <<row, job, remote, hook, listener>> BY <1>2 DEF PollAsk
  <2>3. Fresh' BY <1>l, <2>2 DEF Fresh
  <2>4. row.handle # 0 /\ row.ts # "completed" /\ seen[s].handle = row.handle
        /\ seen[s].ts \notin {"completed", "failed", "cancelled"}
    BY <1>l, <2>1 DEF Polling
  <2>5. CASE remote[seen[s].handle] = "completed" /\ Goto(s, "complete") /\ UNCHANGED seen
    <3>1. Polling' BY <1>b, <2>1, <2>2, <2>4, <2>5, OnlyPoll
    <3> QED BY <1>n, <2>1, <2>2, <2>3, <2>5, <3>1, GoingGoto DEF RowGoesOn
  <2>6. CASE Goto(s, "note") /\ \E ts \in {seen[s].ts, "processing"} : Keep(s, [seen[s] EXCEPT !.ts = ts])
    <3>1. seen'[s].ts \notin {"completed", "failed", "cancelled"}
      BY <1>n, <2>4, <2>6 DEF Keep, Snapshots
    <3>2. Polling' BY <1>b, <2>1, <2>2, <2>4, <2>6, <3>1, OnlyPoll
    <3> QED BY <1>n, <2>1, <2>2, <2>3, <2>6, <3>2, GoingGoto DEF RowGoesOn
  <2> QED BY <1>2, <2>5, <2>6 DEF PollAsk
<1>3. CASE PollComplete(s)
  <2>1. Carries(s) /\ Running(s) /\ pc[s] = "complete" /\ Goto(s, "toIngest") BY <1>3, <1>a DEF PollComplete
  <2>2. UNCHANGED <<job, seen, remote, hook, listener>> BY <1>3 DEF PollComplete
  <2>3. /\ row'.status = row.status /\ row'.version = row.version /\ row'.deleted = row.deleted
        /\ row'.ts = "completed" /\ row'.handle = row.handle /\ row'.original = row.original
    BY <1>3, <1>n DEF PollComplete, Row
  <2>4. Fresh' /\ RowGoesOn BY <1>l, <2>2, <2>3 DEF Fresh, RowGoesOn
  <2>5. row.handle # 0 /\ seen[s].handle = row.handle /\ remote[row.handle] # "running"
    BY <1>l, <2>1 DEF Polling
  <2>6. Polling' BY <1>b, <2>1, <2>2, <2>3, <2>5, OnlyPoll
  <2> QED BY <1>n, <2>1, <2>2, <2>4, <2>6, GoingGoto
<1>4. CASE PollToIngest(s)
  <2>1. Carries(s) /\ Running(s) /\ pc[s] = "toIngest" /\ Goto(s, "done") /\ EnqueueOnce("ingest")
    BY <1>4, <1>a DEF PollToIngest
  <2>2. UNCHANGED <<row, seen, remote, hook, listener>> BY <1>4 DEF PollToIngest
  <2>3. ~Active("ingest") BY <1>n, <2>1, GoingAlone
  <2>4. Fresh' BY <1>l, <2>2 DEF Fresh
  <2>5. row.handle # 0 /\ remote[row.handle] # "running" BY <1>l, <2>1 DEF Polling
  <2>6. pc'["ingest"] = "idle" => Ingesting' BY <2>2, <2>5 DEF Ingesting
  <2> QED BY <1>n, <2>1, <2>2, <2>3, <2>4, <2>6, GoingHands
<1>5. CASE PollNote(s)
  <2>1. Carries(s) /\ Running(s) /\ pc[s] = "note" /\ Goto(s, "next") BY <1>5, <1>a DEF PollNote
  <2>2. UNCHANGED <<job, seen, remote, hook, listener>> BY <1>5 DEF PollNote
  <2>3. /\ row'.status = row.status /\ row'.version = row.version /\ row'.deleted = row.deleted
        /\ row'.ts = seen[s].ts /\ row'.handle = row.handle /\ row'.original = row.original
    BY <1>5, <1>n DEF PollNote, Row
  <2>4. row.handle # 0 /\ seen[s].ts \notin {"completed", "failed", "cancelled"}
    BY <1>l, <2>1 DEF Polling
  <2>5. Fresh' /\ RowGoesOn BY <1>l, <2>2, <2>3, <2>4 DEF Fresh, RowGoesOn
  <2>6. Polling' BY <1>b, <2>1, <2>2, <2>3, <2>4, OnlyPoll
  <2> QED BY <1>n, <2>1, <2>2, <2>5, <2>6, GoingGoto
<1>6. CASE PollNext(s)
  <2>1. Carries(s) /\ Running(s) /\ pc[s] = "next" /\ Goto(s, "done") BY <1>6, <1>a DEF PollNext
  <2>2. PICK k \in PollSlots : Enqueue(k) BY <1>6 DEF PollNext, EnqueuePoll
  <2>3. ~Active(k) /\ EnqueueOnce(k) /\ k \in PipelineSlots \ {s} /\ k \notin {"submit", "transcode", "ingest"}
    BY <2>1, <2>2 DEF Enqueue, EnqueueOnce, Active, Running
  <2>4. UNCHANGED <<row, seen, remote, hook, listener>> BY <1>6 DEF PollNext
  <2>5. Fresh' BY <1>l, <2>4 DEF Fresh
  <2>6. row.handle # 0 /\ row.ts # "completed" BY <1>l, <2>1 DEF Polling
  <2>a. pc'[s] = "done" /\ \A l \in Slots \ {s} : pc'[l] = pc[l] BY <1>n, <2>1 DEF Goto
  <2>b. \A l \in Slots \ {k} : job'[l] = job[l] BY <2>2 DEF Enqueue, Types, TypeOK
  <2>7. /\ pc'[s] = "done"
        /\ \A l \in PollSlots \ {k} : l = s \/ (job'[l] = job[l] /\ pc'[l] = pc[l])
    BY <2>a, <2>b
  <2>8. pc'[k] = "idle" => Polling' BY <1>n, <2>1, <2>4, <2>6, <2>7, OnlyPoll
  <2> QED BY <1>n, <2>1, <2>3, <2>4, <2>5, <2>8, GoingHands
<1> QED BY <1>1, <1>2, <1>3, <1>4, <1>5, <1>6 DEF Poll

\* under transcription.ingest,
LEMMA GoingIngest ==
  ASSUME Types, Chain, Going, row.status = "processing", Ingest PROVE Going'
<1> USE SlotFacts, LinkFacts DEF At
<1>l. Live /\ Fresh /\ Ingesting BY GoingLive DEF Going
<1>n. row \in Row /\ seen \in [Slots -> Snapshots] /\ pc \in [Slots -> PCs] BY DEF Types, TypeOK
<1>1. CASE IngestLoad
  <2>1. /\ Starts("ingest", IF row.handle = 0 THEN "refuse" ELSE "fetch")
        /\ Keep("ingest", [NoSnapshot EXCEPT !.handle = row.handle])
        /\ UNCHANGED <<row, remote, hook, listener>>
    BY <1>1, <1>l DEF IngestLoad, Fresh
  <2>2. PICK p \in {"refuse", "fetch"} : Starts("ingest", p) BY <2>1
  <2>3. Active("ingest") /\ pc'["ingest"] = p BY <2>2, FinalStarts DEF Carries
  <2>4. seen'["ingest"].handle = row.handle BY <1>n, <2>1 DEF Keep, NoSnapshot
  <2>5. Fresh' BY <1>l, <2>1 DEF Fresh
  <2>6. Ingesting' BY <1>l, <2>1, <2>3, <2>4 DEF Ingesting
  <2> QED BY <2>1, <2>2, <2>5, <2>6, GoingStarts
<1>2. CASE IngestFetch
  <2>1. Running("ingest") /\ Active("ingest") /\ pc["ingest"] = "fetch" BY <1>2 DEF IngestFetch, Running, Active
  <2>2. remote[seen["ingest"].handle] # "running" BY <1>l, <2>1 DEF Ingesting
  <2>3. Goto("ingest", "commit") /\ UNCHANGED <<row, job, seen, remote, hook, listener>>
    BY <1>2, <2>2 DEF IngestFetch
  <2>4. pc'["ingest"] = "commit" BY <1>n, <2>3 DEF Goto
  <2>5. Ingesting' BY <1>l, <2>1, <2>3, <2>4 DEF Ingesting, Active
  <2>6. Fresh' BY <1>l, <2>3 DEF Fresh
  <2> QED BY <2>1, <2>3, <2>5, <2>6, GoingGoto DEF RowGoesOn
<1>3. CASE IngestCommit
  <2>1. row'.status = "ready" BY <1>3, <1>n DEF IngestCommit, Row
  <2> QED BY <2>1 DEF Going
<1>4. CASE IngestRelease \/ IngestNotify
  BY <1>4, <1>l DEF IngestRelease, IngestNotify, Ingesting, Running, Active
<1> QED BY <1>1, <1>2, <1>3, <1>4 DEF Ingest

\* A transcode that moves within its handler,
LEMMA RenderingGoes ==
  ASSUME Types, Chain, Going, row.status = "processing", Running("transcode"), pc["transcode"] # "done",
         NEW p, p # "done", Goto("transcode", p), UNCHANGED <<job, seen, remote, hook, listener>>,
         /\ row'.status = row.status /\ row'.version = row.version /\ row'.deleted = row.deleted
         /\ row'.handle = row.handle /\ row'.original = row.original,
         row'.ts \notin {"cancelled", "failed", "completed"},
         p \notin {"rethrow", "deliver", "ask", "fetch"},
         p # "toSubmit" => row'.ts = "waiting_input",
         p \in {"idle", "node", "run", "attach"} => row'.playback # "ready",
         p \in {"wake", "queue", "toSubmit"} => row'.playback = "ready"
  PROVE  Going'
<1> USE SlotFacts, LinkFacts
<1>l. Fresh /\ Rendering BY DEF Going
<1>1. Carries("transcode") BY DEF Carries, Active, Running
<1>2. pc'["transcode"] = p BY DEF Goto, Types, TypeOK
<1>3. \A k \in PipelineSlots \ {"transcode"} : ~Active(k)' BY <1>l, <1>1 DEF Rendering, Active
<1>4. Rendering' BY <1>2, <1>3 DEF Rendering
<1>5. Fresh' BY <1>l DEF Fresh
<1>6. RowGoesOn BY DEF RowGoesOn
<1> QED BY <1>4, <1>5, <1>6, GoingGoto

\* or fails: it is put back, or the listener hears of it.
LEMMA RenderingFails ==
  ASSUME Types, Chain, Going, row.status = "processing", At("transcode", "run") \/ At("transcode", "node"),
         HandlerThrows("transcode"), UNCHANGED <<row, remote, hook>>
  PROVE  Going'
<1> USE SlotFacts, LinkFacts
<1>l. Fresh /\ Heard /\ Rendering BY DEF Going
<1>1. Running("transcode") /\ pc["transcode"] \in {"run", "node"} /\ Carries("transcode")
  BY DEF At, Carries, Active, Running
<1>2. Fail("transcode") /\ Reset("transcode") /\ HeardBy("transcode") BY DEF HandlerThrows
<1>3. /\ \A k \in Slots \ {"transcode"} : job'[k] = job[k] /\ pc'[k] = pc[k]
      /\ pc'["transcode"] = "idle"
      /\ job'["transcode"] = NoJob \/ job'["transcode"].state = "pending"
  BY <1>2 DEF Fail, Reset, Goto, Types, TypeOK, JobRow
<1>4. \A k \in PipelineSlots \ {"transcode"} : ~Active(k) /\ ~Active(k)'
  BY <1>l, <1>1, <1>3 DEF Rendering, Active
<1>5. row.ts = "waiting_input" /\ row.playback # "ready" BY <1>l, <1>1 DEF Rendering
<1>6. Fresh' BY <1>l DEF Fresh
<1>7. CASE job'["transcode"] = NoJob
  <2>1. listener' = [listener EXCEPT !["transcode"] = "check"] BY <1>2, <1>7 DEF HeardBy
  <2>2. \A k \in PipelineSlots : ~Active(k)' BY <1>4, <1>7 DEF Active, NoJob
  <2>3. /\ \A u \in Uploads : hook[u] \notin Opening
        /\ \A k \in Slots : listener[k] = "none"
    BY <1>1, GoingAlone
  <2>4. listener'["transcode"] = "check" /\ \A k \in Slots \ {"transcode"} : listener'[k] = "none"
    BY <2>1, <2>3 DEF Types, TypeOK
  <2>5. {"transcode"} \subseteq Opening /\ (~TranscodeRegistered => {"queue", "toSubmit"} \subseteq Opening)
    BY DEF Opening, Promoted
  <2>6. Untouched' BY <2>3, <2>5 DEF Untouched
  <2>7. Heard' BY <1>5, <2>2, <2>4 DEF Heard
  <2>8. \A k \in PipelineSlots : ~Carries(k)' BY <2>2 DEF Carries
  <2>9. Rendering' /\ Submitting' /\ Polling' /\ Ingesting'
    BY <2>2, <2>8 DEF Rendering, Submitting, Polling, Ingesting
  <2>10. GoesOn' BY <2>4 DEF GoesOn
  <2> QED BY <1>6, <2>6, <2>7, <2>9, <2>10 DEF Going
<1>8. CASE job'["transcode"].state = "pending"
  <2>1. UNCHANGED listener BY <1>2, <1>8 DEF HeardBy, NoJob
  <2>2. Rendering' BY <1>3, <1>4, <1>5 DEF Rendering
  <2> QED BY <1>1, <1>3, <1>6, <1>8, <2>1, <2>2, GoingMoves DEF RowGoesOn
<1> QED BY <1>3, <1>7, <1>8

\* under media.audio.transcode,
LEMMA GoingTranscode ==
  ASSUME Types, Chain, Going, row.status = "processing", Transcode PROVE Going'
<1> USE SlotFacts, LinkFacts DEF At
<1>l. Live /\ Fresh /\ Rendering BY GoingLive DEF Going
<1>n. row \in Row /\ pc \in [Slots -> PCs] /\ Stage("transcode") = "transcription" BY DEF Types, TypeOK, Stage
<1>a. Running("transcode") /\ pc["transcode"] # "done" => Carries("transcode") BY DEF Carries, Active, Running
<1>1. CASE TranscodeLoad \/ TranscodeOnNode
  <2>1. \E p \in PCs : Starts("transcode", p) BY <1>1 DEF TranscodeLoad, TranscodeOnNode, PCs
  <2>2. Carries("transcode") /\ pc["transcode"] = "idle"
    <3>1. job["transcode"].state = "pending" BY <2>1 DEF Starts, ClaimJob
    <3> QED BY <2>1, <3>1, FinalStarts DEF Chain, Running
  <2>3. row.ts = "waiting_input" /\ row.playback # "ready" BY <1>l, <2>2 DEF Rendering
  <2>4. PICK p \in {"run", "node"} : Starts("transcode", p)
    BY <1>1, <1>l, <2>3 DEF TranscodeLoad, TranscodeOnNode
  <2>5. UNCHANGED <<row, seen, remote, hook, listener>> BY <1>1 DEF TranscodeLoad, TranscodeOnNode
  <2>6. pc'["transcode"] = p /\ \A k \in Slots \ {"transcode"} : job'[k] = job[k] BY <2>4, FinalStarts
  <2>7. \A k \in PipelineSlots \ {"transcode"} : ~Active(k)' BY <1>l, <2>2, <2>6 DEF Rendering, Active
  <2>8. Rendering' BY <2>3, <2>5, <2>6, <2>7 DEF Rendering
  <2>9. Fresh' BY <1>l, <2>5 DEF Fresh
  <2> QED BY <2>4, <2>5, <2>8, <2>9, GoingStarts
<1>2. CASE TranscodeBroken
  <2>1. Running("transcode") /\ pc["transcode"] = "run" /\ ThrowStep("transcode") /\ UNCHANGED <<row, remote, hook>>
    BY <1>2 DEF TranscodeBroken
  <2>2. CASE HandlerThrows("transcode") BY <2>1, <2>2, RenderingFails
  <2>3. CASE Goto("transcode", "giveUp") /\ UNCHANGED <<job, seen, listener, tally>>
    <3>1. row.ts = "waiting_input" BY <1>a, <1>l, <2>1 DEF Rendering
    <3> QED BY <2>1, <2>3, <3>1, RenderingGoes
  <2> QED BY <2>1, <2>2, <2>3 DEF ThrowStep
<1>3. CASE TranscodeNodeFails BY <1>3, RenderingFails DEF TranscodeNodeFails
<1>4. CASE TranscodeNodeResult
  <2>1. row.ts = "waiting_input" /\ row.playback # "ready" BY <1>a, <1>l, <1>4 DEF Rendering, TranscodeNodeResult
  <2>2. Goto("transcode", "attach") BY <1>4, <1>l DEF TranscodeNodeResult
  <2> QED BY <1>4, <2>1, <2>2, RenderingGoes DEF TranscodeNodeResult
<1>5. CASE TranscodeAttach
  <2>1. row.ts = "waiting_input" BY <1>a, <1>l, <1>5 DEF Rendering, TranscodeAttach
  <2>2. PICK p \in {"wake", "refuse"} : Goto("transcode", p) BY <1>5 DEF TranscodeAttach
  <2>3. /\ row'.status = row.status /\ row'.version = row.version /\ row'.deleted = row.deleted
        /\ row'.handle = row.handle /\ row'.original = row.original /\ row'.ts = row.ts
        /\ row'.playback = "ready"
    BY <1>5, <1>n DEF TranscodeAttach, Row
  <2>4. Running("transcode") /\ pc["transcode"] # "done" /\ UNCHANGED <<job, seen, remote, hook, listener>>
    BY <1>5 DEF TranscodeAttach
  <2> QED BY <2>1, <2>2, <2>3, <2>4, RenderingGoes
<1>6. CASE TranscodeWake
  <2>1. row.ts = "waiting_input" /\ row.playback = "ready" BY <1>a, <1>l, <1>6 DEF Rendering, TranscodeWake
  <2>2. Goto("transcode", "queue") BY <1>6, <2>1 DEF TranscodeWake
  <2> QED BY <1>6, <2>1, <2>2, RenderingGoes DEF TranscodeWake
<1>7. CASE TranscodeQueue
  <2>1. row.playback = "ready" BY <1>a, <1>l, <1>7 DEF Rendering, TranscodeQueue
  <2>2. /\ row'.status = row.status /\ row'.version = row.version /\ row'.deleted = row.deleted
        /\ row'.handle = row.handle /\ row'.original = row.original /\ row'.ts = "queued"
        /\ row'.playback = row.playback
    BY <1>7, <1>n DEF TranscodeQueue, MarkQueued, Row
  <2> QED BY <1>7, <2>1, <2>2, RenderingGoes DEF TranscodeQueue
<1>8. CASE TranscodeToSubmit
  <2>1. Running("transcode") /\ pc["transcode"] = "toSubmit" /\ Carries("transcode") /\ Active("transcode")
    BY <1>8, <1>a DEF TranscodeToSubmit, Running, Active
  <2>2. row.playback = "ready" /\ row.ts # "completed" /\ ~Active("submit") BY <1>l, <2>1 DEF Rendering
  <2>3. Goto("transcode", "done") /\ EnqueueOnce("submit") /\ UNCHANGED <<row, seen, remote, hook, listener>>
    BY <1>8 DEF TranscodeToSubmit
  <2>4. TranscodeRegistered BY <2>1 DEF Chain
  <2>5. pc'["submit"] = "idle" => Submitting' BY <2>2, <2>3, <2>4 DEF Submitting
  <2>6. Fresh' BY <1>l, <2>3 DEF Fresh
  <2> QED BY <2>1, <2>2, <2>3, <2>5, <2>6, GoingHands
<1>9. CASE TranscodeGiveUp
  <2>1. row.ts = "waiting_input" BY <1>a, <1>l, <1>9 DEF Rendering, TranscodeGiveUp
  <2>2. /\ row'.status = row.status /\ row'.version = row.version /\ row'.deleted = row.deleted
        /\ row'.handle = row.handle /\ row'.original = row.original /\ row'.ts = row.ts
    BY <1>9, <1>n DEF TranscodeGiveUp, MarkPlaybackFailed, Row
  <2> QED BY <1>9, <2>1, <2>2, RenderingGoes DEF TranscodeGiveUp
<1>10. CASE TranscodeVerdict
  <2>1. row.ts = "waiting_input" BY <1>a, <1>l, <1>10 DEF Rendering, TranscodeVerdict
  <2>2. Goto("transcode", "blame") BY <1>10, <2>1 DEF TranscodeVerdict
  <2> QED BY <1>10, <2>1, <2>2, RenderingGoes DEF TranscodeVerdict
<1>11. CASE TranscodeBlame
  <2>1. row'.status = "failed" BY <1>11, <1>l, <1>n DEF TranscodeBlame, MarkFailed, Row
  <2> QED BY <2>1 DEF Going
<1>12. CASE TranscodeRethrow BY <1>12, <1>a, <1>l DEF TranscodeRethrow, Rendering
<1> QED BY <1>1, <1>2, <1>3, <1>4, <1>5, <1>6, <1>7, <1>8, <1>9, <1>10, <1>11, <1>12 DEF Transcode

\* under transcript.purge,
LEMMA GoingPurge ==
  ASSUME Types, Chain, Going, Purge PROVE Going'
<1> USE SlotFacts, LinkFacts DEF At
<1>n. row \in Row /\ remote \in Seq(RemoteStates) /\ pc \in [Slots -> PCs] /\ seen \in [Slots -> Snapshots]
      /\ job \in [Slots -> JobRow]
  BY DEF Types, TypeOK
<1>1. UNCHANGED <<hook, listener>> BY DEF Purge, PurgeLoad, PurgeForgetRemote, PurgeDelete
<1>2. \A s \in PipelineSlots : job'[s] = job[s] /\ pc'[s] = pc[s] /\ seen'[s] = seen[s]
  BY <1>n DEF Purge, PurgeLoad, PurgeForgetRemote, PurgeDelete, Starts, ClaimJob, Goto, Keep
<1>3. UNCHANGED row \/ (row'.status = "gone" /\ row'.original = row.original)
  BY <1>n DEF Purge, PurgeLoad, PurgeForgetRemote, PurgeDelete, Row
<1>4. UNCHANGED remote \/ \E h : remote' = [remote EXCEPT ![h] = "deleted"]
  BY DEF Purge, PurgeLoad, PurgeForgetRemote, PurgeDelete
<1>5. Len(remote') = Len(remote) /\ \A h \in 1..Len(remote) : remote'[h] \in {remote[h], "deleted"}
  BY <1>n, <1>4
<1>6. RowGoesOn BY <1>3 DEF RowGoesOn
<1> QED BY <1>1, <1>2, <1>3, <1>5, <1>6, GoingAside

\* and under the worker.
LEMMA GoingWorker ==
  ASSUME Types, Chain, Going, row.status = "processing", NEW s \in Slots, Worker(s) PROVE Going'
<1>l. Live /\ Fresh /\ row \in Row BY GoingLive DEF Going, Types, TypeOK
<1>1. CASE Finish(s) BY <1>1, GoingFinish
<1>2. CASE UpdateRefused(s) BY <1>2, <1>l DEF UpdateRefused, Live, Fresh
<1>3. CASE Refuse(s)
  <2>1. row'.status = "failed" BY <1>3, <1>l DEF Refuse, MarkFailed, Row
  <2> QED BY <2>1 DEF Going
<1>4. CASE Reap(s) BY <1>4 DEF Reap, Chain
<1> QED BY <1>1, <1>2, <1>3, <1>4 DEF Worker

\* All of these together, whatever the transcript's status.
LEMMA GoingJobs ==
  ASSUME Smooth, Types, Chain, Going, NEW s \in Slots, Handler(s) \/ Worker(s) PROVE Going'
<1> USE SlotFacts, LinkFacts
<1>1. CASE row.status = "processing"
  BY <1>1, GoingSubmit, GoingPoll, GoingIngest, GoingTranscode, GoingPurge, GoingWorker DEF Handler
<1>2. CASE row.status = "uploading"
  <2>1. \A k \in PipelineSlots : ~Active(k) BY <1>2 DEF Chain
  <2>2. s = "purge" \/ ~Active(s) BY <2>1
  <2>3. CASE s = "purge" /\ Purge BY <2>3, GoingPurge
  <2>4. CASE Worker(s)
    <3>1. ~UpdateRefused(s)
      <4>1. Live /\ row.version = 0 BY <1>2, GoingLive DEF Going, Fresh
      <4> QED BY <4>1 DEF UpdateRefused, Live
    <3>2. Refuse(s) => row'.status = "failed"
      <4>1. Live /\ row \in Row BY <1>2, GoingLive DEF Types, TypeOK
      <4> QED BY <1>2, <4>1 DEF Refuse, MarkFailed, Row
    <3>3. ~Reap(s) BY DEF Reap, Chain
    <3> QED BY <2>4, <3>1, <3>2, <3>3, GoingFinish DEF Worker, Going
  <2>5. CASE Handler(s) /\ s # "purge"
    <3>1. ~Active(s) BY <2>2, <2>5
    <3>2. s = "submit" => ~Submit
      BY <3>1 DEF Submit, SubmitLoad, SubmitWaits, SubmitSelects, SubmitAccepted, SubmitAnswerLost,
         SubmitRecord, SubmitFirstPoll, Starts, ClaimJob, At, Active, Running
    <3>3. s \in PollSlots => ~Poll(s)
      BY <3>1 DEF Poll, PollLoad, PollAsk, PollComplete, PollToIngest, PollNote, PollNext, Starts, ClaimJob,
         At, Active, Running
    <3>4. s = "ingest" => ~Ingest
      BY <3>1 DEF Ingest, IngestLoad, IngestFetch, IngestCommit, IngestRelease, IngestNotify, Starts, ClaimJob,
         At, Active, Running
    <3>5. s = "transcode" => ~Transcode
      BY <3>1 DEF Transcode, TranscodeLoad, TranscodeBroken, TranscodeOnNode, TranscodeNodeResult,
         TranscodeNodeFails, TranscodeAttach, TranscodeWake, TranscodeQueue, TranscodeToSubmit, TranscodeGiveUp,
         TranscodeVerdict, TranscodeBlame, TranscodeRethrow, Starts, ClaimJob, At, Active, Running
    <3> QED BY <2>5, <3>2, <3>3, <3>4, <3>5 DEF Handler
  <2> QED BY <2>3, <2>4, <2>5 DEF Handler
<1>3. CASE row.status \notin {"uploading", "processing"}
  <2>1. row'.status \notin {"uploading", "processing"} BY <1>3, StatusAfter
  <2> QED BY <2>1 DEF Going
<1> QED BY <1>1, <1>2, <1>3

\* A hook that starts a job where there was none, and goes on to x.
LEMMA HookStarts ==
  ASSUME Types, Chain, Going, row.status = "processing", NEW u \in Uploads, hook[u] \in Opening,
         NEW x \in {"mark", "off"}, HookGoto(u, x),
         NEW k \in {"transcode", "submit"}, EnqueueOnce(k), UNCHANGED <<row, pc, seen, remote, listener>>,
         x = "mark" => TranscodeRegistered,
         k = "transcode" => hook[u] = "transcode",
         k = "submit" => ~TranscodeRegistered /\ Direct
  PROVE  Going'
<1> USE LinkFacts, SlotFacts
<1>l. Fresh /\ Untouched BY DEF Going
<1>1. /\ \A s \in PipelineSlots : ~Active(s)
      /\ \A s \in Slots : listener[s] = "none"
      /\ row.ts # "completed"
  BY <1>l DEF Untouched
<1>2. hook'[u] = x /\ \A v \in Uploads \ {u} : hook'[v] = hook[v] BY DEF HookGoto, Types, TypeOK
<1>3. \A v \in Uploads : hook'[v] \notin Opening
  <2>1. hook[u] \in Promoted /\ Opening \subseteq Promoted /\ x \notin Opening BY DEF Opening, Promoted
  <2>2. \A v \in Uploads \ {u} : hook[v] \notin Promoted BY <2>1 DEF Chain
  <2> QED BY <1>2, <2>1, <2>2
<1>4. /\ \A l \in Slots \ {k} : job'[l] = job[l]
      /\ job'[k].state = "pending" /\ pc'[k] = "idle"
  <2>1. pc[k] = "idle" BY <1>1 DEF Chain, Active, Running
  <2> QED BY <1>1, <2>1, QueueGains
<1>5. Carries(k)' BY <1>4 DEF Carries, Active
<1>6. \A l \in PipelineSlots \ {k} : ~Active(l)' /\ ~Carries(l)' BY <1>1, <1>4 DEF Carries, Active
<1>7. Fresh' BY <1>l DEF Fresh
<1>8. {"transcode"} \subseteq Opening /\ (~TranscodeRegistered => {"queue", "toSubmit"} \subseteq Opening)
  BY DEF Opening, Promoted
<1>9. Untouched' BY <1>3, <1>8 DEF Untouched
<1>10. Heard' BY <1>1 DEF Heard
<1>11. Rendering'
  <2>1. CASE k = "transcode"
    <3>1. row.ts = "waiting_input" /\ row.playback = "pending" BY <1>l, <2>1 DEF Untouched
    <3> QED BY <1>4, <1>6, <2>1, <3>1 DEF Rendering
  <2>2. CASE k = "submit" BY <1>6, <2>2 DEF Rendering
  <2> QED BY <2>1, <2>2
<1>12. Submitting'
  <2>1. CASE k = "submit"
    <3>1. Direct' BY <2>1 DEF Direct
    <3> QED BY <1>1, <1>4, <2>1, <3>1 DEF Submitting
  <2>2. CASE k = "transcode" BY <1>6, <2>2 DEF Submitting
  <2> QED BY <2>1, <2>2
<1>13. Polling' BY <1>6 DEF Polling
<1>14. Ingesting' BY <1>6 DEF Ingesting
<1>15. GoesOn' BY <1>5 DEF GoesOn
<1> QED BY <1>7, <1>9, <1>10, <1>11, <1>12, <1>13, <1>14, <1>15 DEF Going

\* A hook that only goes on, and still is to start a job if it was.
LEMMA HookMoves ==
  ASSUME Types, Chain, Going, row.status = "processing", NEW u \in Uploads, hook[u] \in Promoted,
         NEW x \in {"choose", "queue", "toSubmit", "off"}, HookGoto(u, x),
         UNCHANGED <<job, pc, seen, remote, listener>>,
         hook[u] \in Opening => x \in Opening, TranscodeRegistered => x \notin {"queue", "toSubmit"},
         /\ row'.status = row.status /\ row'.version = row.version /\ row'.deleted = row.deleted
         /\ row'.handle = row.handle /\ row'.original = row.original,
         row'.ts \in {row.ts, "waiting_input"} \/ (row'.ts = "queued" /\ hook[u] \in Opening),
         row'.playback = "ready" <=> row.playback = "ready",
         x \in {"queue", "toSubmit"} => Direct
  PROVE  Going'
<1> USE LinkFacts, SlotFacts
<1>l. Fresh /\ Untouched /\ Heard /\ Rendering /\ Submitting /\ Polling /\ Ingesting /\ GoesOn BY DEF Going
<1>1. hook'[u] = x /\ \A v \in Uploads \ {u} : hook'[v] = hook[v] BY DEF HookGoto, Types, TypeOK
<1>2. \A v \in Uploads \ {u} : hook[v] \notin Promoted BY DEF Chain
<1>3. \A s \in PipelineSlots : (Active(s)' <=> Active(s)) /\ (Carries(s)' <=> Carries(s))
  BY DEF Active, Carries
<1>4. Opening \subseteq Promoted /\ "transcode" \in Promoted /\ {"queue", "toSubmit"} \subseteq Promoted
  BY DEF Opening, Promoted
<1>5. hook[u] \in Opening =>
        /\ \A s \in PipelineSlots : ~Active(s) /\ ~Carries(s)
        /\ \A s \in Slots : listener[s] = "none"
        /\ row.ts # "completed"
  BY <1>l DEF Untouched, Carries
<1>6. x \in Opening => hook[u] \in Opening BY DEF Opening, Promoted
<1>7. Direct' <=> Direct BY DEF Direct
<1>8. row.ts \notin {"cancelled", "failed"} /\ row'.ts \notin {"cancelled", "failed"} BY <1>l DEF Fresh
<1>9. Fresh' BY <1>l, <1>8 DEF Fresh
<1>10. Untouched'
  <2>1. row'.status # "uploading" OBVIOUS
  <2>2. \A v \in Uploads : hook'[v] # "transcode" BY <1>1, <1>2, <1>4
  <2>3. \A v \in Uploads : ~TranscodeRegistered /\ hook'[v] \in {"queue", "toSubmit"} => Direct'
    BY <1>1, <1>2, <1>4, <1>7
  <2>4. \A v \in Uploads : hook'[v] \in Opening => v = u /\ hook[u] \in Opening BY <1>1, <1>2, <1>4, <1>6
  <2>5. hook[u] \in Opening => row'.ts # "completed" BY <1>5
  <2> QED BY <1>3, <1>5, <2>1, <2>2, <2>3, <2>4, <2>5 DEF Untouched
<1>11. Heard'
  <2>1. ASSUME NEW s \in Slots, listener[s] # "none" PROVE row'.ts = "waiting_input"
    BY <1>l, <1>5, <2>1 DEF Heard
  <2> QED BY <1>l, <1>3, <2>1 DEF Heard
<1>12. (\E s \in PipelineSlots : Carries(s)) => row'.ts \in {row.ts, "waiting_input"} BY <1>5
<1>13. Rendering' BY <1>l, <1>3, <1>12 DEF Rendering
<1>14. Submitting' BY <1>l, <1>3, <1>7, <1>12 DEF Submitting
<1>15. Polling' BY <1>l, <1>3, <1>12 DEF Polling
<1>16. Ingesting' BY <1>l, <1>3 DEF Ingesting
<1>17. GoesOn'
  <2>1. (\E v \in Uploads : hook[v] \in Opening) => hook'[u] \in Opening BY <1>1, <1>2, <1>4
  <2> QED BY <1>l, <1>3, <2>1 DEF GoesOn
<1> QED BY <1>9, <1>10, <1>11, <1>13, <1>14, <1>15, <1>16, <1>17 DEF Going

\* A hook that was of no consequence any more.
LEMMA HookLeaves ==
  ASSUME Types, Chain, Going, NEW u \in Uploads, hook[u] \notin Promoted, HookGoto(u, "off"),
         row.status # "uploading", UNCHANGED <<row, job, pc, seen, remote, listener>>
  PROVE  Going'
<1> USE LinkFacts, SlotFacts
<1>0. SUFFICES ASSUME row.status = "processing"
      PROVE Fresh' /\ Untouched' /\ Heard' /\ Rendering' /\ Submitting' /\ Polling' /\ Ingesting' /\ GoesOn'
  BY DEF Going
<1>l. Fresh /\ Untouched /\ Heard /\ Rendering /\ Submitting /\ Polling /\ Ingesting /\ GoesOn
  BY <1>0 DEF Going
<1>1. hook'[u] = "off" /\ \A v \in Uploads \ {u} : hook'[v] = hook[v] BY DEF HookGoto, Types, TypeOK
<1>2. Opening \subseteq Promoted /\ {"transcode", "queue", "toSubmit"} \subseteq Promoted /\ "off" \notin Promoted
  BY DEF Opening, Promoted
<1>3. \A s \in PipelineSlots : (Active(s)' <=> Active(s)) /\ (Carries(s)' <=> Carries(s))
  BY DEF Active, Carries
<1>4. Direct' <=> Direct BY DEF Direct
<1>5. \A v \in Uploads : hook'[v] = hook[v] \/ (hook'[v] \notin Promoted /\ hook[v] \notin Promoted)
  BY <1>1, <1>2
<1>6. Fresh' BY <1>l DEF Fresh
<1>7. Untouched' BY <1>0, <1>l, <1>2, <1>3, <1>4, <1>5 DEF Untouched
<1>8. Heard' BY <1>l, <1>3 DEF Heard
<1>9. Rendering' BY <1>l, <1>3 DEF Rendering
<1>10. Submitting' BY <1>l, <1>3, <1>4 DEF Submitting
<1>11. Polling' BY <1>l, <1>3 DEF Polling
<1>12. Ingesting' BY <1>l, <1>3 DEF Ingesting
<1>13. GoesOn' BY <1>l, <1>2, <1>3, <1>5 DEF GoesOn
<1> QED BY <1>6, <1>7, <1>8, <1>9, <1>10, <1>11, <1>12, <1>13

\* Under the upload hook,
LEMMA GoingHooks ==
  ASSUME Smooth, Types, Chain, Going, NEW u \in Uploads, Hook(u) PROVE Going'
<1> USE LinkFacts, SlotFacts DEF HookAt
<1>n. row \in Row /\ hook \in [Uploads -> HookPCs] /\ TranscodeRegistered \in BOOLEAN
  BY MediaAssumption DEF Types, TypeOK
<1>f. row.status \in {"uploading", "processing"} => Live BY GoingLive
<1>1. CASE HookPromote(u)
  <2>1. CASE row.status = "uploading"
    <3>l. Fresh /\ Untouched /\ Rendering /\ Submitting /\ Polling /\ Ingesting BY <2>1 DEF Going
    <3>1. /\ row' = [row EXCEPT !.status = "processing"] /\ HookGoto(u, "transcode")
          /\ UNCHANGED <<job, pc, seen, remote, listener>>
      BY <1>1, <1>f, <2>1 DEF HookPromote
    <3>2. /\ row'.status = "processing" /\ row'.version = row.version /\ row'.deleted = row.deleted
          /\ row'.ts = row.ts /\ row'.handle = row.handle /\ row'.playback = row.playback
          /\ row'.original = row.original
      BY <1>n, <3>1 DEF Row
    <3>3. /\ \A s \in PipelineSlots : ~Active(s)
          /\ \A s \in Slots : listener[s] = "none"
          /\ row.ts = "waiting_input" /\ row.playback = "pending"
      BY <2>1, <3>l DEF Untouched
    <3>4. hook'[u] = "transcode" /\ \A v \in Uploads \ {u} : hook'[v] = hook[v] BY <1>n, <3>1 DEF HookGoto
    <3>5. \A v \in Uploads : hook'[v] \notin {"queue", "toSubmit"}
      BY <2>1, <3>4 DEF Chain, Promoted
    <3>6. \A s \in PipelineSlots : ~Active(s)' /\ ~Carries(s)' BY <3>1, <3>3 DEF Active, Carries
    <3>7. Fresh' BY <3>l, <3>1, <3>2 DEF Fresh
    <3>8. Untouched' BY <3>1, <3>2, <3>3, <3>5, <3>6 DEF Untouched
    <3>9. Heard' BY <3>1, <3>3 DEF Heard
    <3>10. Rendering' /\ Submitting' /\ Polling' /\ Ingesting'
      BY <3>6 DEF Rendering, Submitting, Polling, Ingesting
    <3>11. GoesOn' BY <3>4 DEF GoesOn, Opening, Promoted
    <3> QED BY <3>7, <3>8, <3>9, <3>10, <3>11 DEF Going
  <2>2. CASE row.status # "uploading"
    <3>1. hook[u] \notin Promoted BY <1>1 DEF HookPromote, Promoted
    <3> QED BY <1>1, <2>2, <3>1, HookLeaves DEF HookPromote
  <2> QED BY <2>1, <2>2
<1>2. CASE HookUnconfigured(u) \/ HookAbort(u)
  <2>1. row'.status \notin {"uploading", "processing"}
    BY <1>2, <1>n, <1>f DEF HookUnconfigured, HookAbort, MarkFailed, Row
  <2> QED BY <2>1 DEF Going
<1>3. CASE hook[u] \in Promoted /\ row.status # "processing" /\ ~HookUnconfigured(u)
  <2>1. row.status \notin {"uploading", "processing"} BY <1>3 DEF Chain
  <2>2. row'.status \in {row.status, "failed"}
    <3>1. \/ UNCHANGED row \/ MarkFailed("transcription") \/ row' = [row EXCEPT !.ts = "waiting_input"]
          \/ row' = [row EXCEPT !.ts = "queued"] \/ row' = [row EXCEPT !.playback = "processing"]
      BY <1>3 DEF Hook, HookPromote, HookTranscode, HookMark, HookChoose, HookQueue, MarkQueued, HookToSubmit,
         HookAbort, Promoted
    <3> QED BY <1>n, <3>1, MarkFailedGoesOn DEF Row
  <2> QED BY <2>1, <2>2 DEF Going
<1>4. CASE hook[u] \in Promoted /\ row.status = "processing"
  <2>l. Untouched /\ Fresh BY <1>4 DEF Going
  <2>1. CASE HookTranscode(u)
    <3>0. hook[u] = "transcode" /\ hook[u] \in Opening BY <2>1 DEF HookTranscode, Opening, Promoted
    <3>1. CASE TranscodeRegistered BY <1>4, <2>1, <3>0, <3>1, HookStarts DEF HookTranscode
    <3>2. CASE ~TranscodeRegistered
      <4>1. "choose" \in Opening BY <3>2 DEF Opening, Promoted
      <4>2. HookGoto(u, "choose") /\ UNCHANGED <<row, job, pc, seen, remote, listener>>
        BY <2>1, <3>2 DEF HookTranscode
      <4> QED BY <1>4, <4>1, <4>2, HookMoves
    <3> QED BY <3>1, <3>2
  <2>2. CASE HookMark(u)
    <3>1. HookGoto(u, "choose") /\ UNCHANGED <<job, pc, seen, remote, listener>> BY <2>2 DEF HookMark
    <3>2. /\ row'.status = row.status /\ row'.version = row.version /\ row'.deleted = row.deleted
          /\ row'.handle = row.handle /\ row'.original = row.original /\ row'.ts = row.ts
          /\ row'.playback = "ready" <=> row.playback = "ready"
      BY <1>n, <2>2 DEF HookMark, Row
    <3>3. hook[u] \in Opening => "choose" \in Opening BY <2>2 DEF HookMark, Opening, Promoted
    <3> QED BY <1>4, <3>1, <3>2, <3>3, HookMoves
  <2>3. CASE HookChoose(u)
    <3> DEFINE kind == SelectTranscriptionInput(AudioDelivery, row.original, {}, TranscodeRegistered)
    <3>1. CASE kind = "original" /\ HookGoto(u, "queue") /\ UNCHANGED row
      <4>1. Direct BY <3>1 DEF SelectTranscriptionInput, Direct
      <4>2. ~TranscodeRegistered
        <5>1. SUFFICES ASSUME TranscodeRegistered PROVE FALSE OBVIOUS
        <5>2. SelectTranscriptionInput(AudioDelivery, row.original, {}, TRUE) = "original"
          BY <4>1 DEF SelectTranscriptionInput, Direct
        <5> QED BY <5>1, <5>2 DEF Smooth, OneStart, Chain
      <4>3. "queue" \in Opening BY <4>2 DEF Opening, Promoted
      <4> QED BY <1>4, <2>3, <3>1, <4>1, <4>2, <4>3, HookMoves DEF HookChoose
    <3>2. CASE MarkFailed("transcription")
      <4>1. row'.status = "failed" BY <1>4, <1>f, <1>n, <3>2 DEF MarkFailed, Row
      <4> QED BY <4>1 DEF Going
    <3>3. CASE kind = "wait" /\ row' = [row EXCEPT !.ts = "waiting_input"] /\ HookGoto(u, "off")
      <4>1. TranscodeRegistered BY <3>3 DEF SelectTranscriptionInput
      <4>2. hook[u] \notin Opening BY <2>3, <4>1 DEF HookChoose, Opening
      <4>3. /\ row'.status = row.status /\ row'.version = row.version /\ row'.deleted = row.deleted
            /\ row'.handle = row.handle /\ row'.original = row.original /\ row'.ts = "waiting_input"
            /\ row'.playback = row.playback
        BY <1>n, <3>3 DEF Row
      <4>4. UNCHANGED <<job, pc, seen, remote, listener>> BY <2>3 DEF HookChoose
      <4> QED BY <1>4, <3>3, <4>2, <4>3, <4>4, HookMoves
    <3> QED BY <2>3, <3>1, <3>2, <3>3 DEF HookChoose
  <2>4. CASE HookQueue(u)
    <3>1. ~TranscodeRegistered BY <2>4 DEF HookQueue, Chain
    <3>2. hook[u] \in Opening /\ "toSubmit" \in Opening BY <2>4, <3>1 DEF HookQueue, Opening, Promoted
    <3>3. Direct BY <2>4, <2>l, <3>1 DEF HookQueue, Untouched
    <3>4. /\ row'.status = row.status /\ row'.version = row.version /\ row'.deleted = row.deleted
          /\ row'.handle = row.handle /\ row'.original = row.original /\ row'.ts = "queued"
          /\ row'.playback = row.playback
      BY <1>n, <2>4 DEF HookQueue, MarkQueued, Row
    <3>5. HookGoto(u, "toSubmit") /\ UNCHANGED <<job, pc, seen, remote, listener>> BY <2>4 DEF HookQueue
    <3> QED BY <1>4, <3>1, <3>2, <3>3, <3>4, <3>5, HookMoves
  <2>5. CASE HookToSubmit(u)
    <3>1. ~TranscodeRegistered BY <2>5 DEF HookToSubmit, Chain
    <3>2. hook[u] \in Opening BY <2>5, <3>1 DEF HookToSubmit, Opening, Promoted
    <3>3. Direct BY <2>5, <2>l, <3>1 DEF HookToSubmit, Untouched
    <3> QED BY <1>4, <2>5, <3>1, <3>2, <3>3, HookStarts DEF HookToSubmit
  <2> QED BY <1>1, <1>2, <2>1, <2>2, <2>3, <2>4, <2>5 DEF Hook
<1>5. CASE hook[u] \notin Promoted
  BY <1>1, <1>2, <1>5 DEF Hook, HookTranscode, HookMark, HookChoose, HookQueue, HookToSubmit, Promoted
<1> QED BY <1>2, <1>3, <1>4, <1>5

\* under the failure listener,
LEMMA GoingListener ==
  ASSUME Types, Chain, Going, NEW s \in Slots, Listener(s) PROVE Going'
<1> USE LinkFacts, SlotFacts
<1>n. row \in Row /\ listener \in [Slots -> {"none", "check", "write", "verdict", "blame"}]
  BY DEF Types, TypeOK
<1>1. UNCHANGED <<job, pc, seen, remote, hook>> /\ listener[s] # "none"
  BY DEF Listener, ListenerCheck, ListenerWrite, ListenerVerdict, ListenerBlame
<1>2. CASE row.status \in {"uploading", "processing"}
  <2>l. /\ Live /\ Fresh /\ Untouched /\ Heard /\ Rendering /\ Submitting /\ Polling /\ Ingesting
    BY <1>2, GoingLive DEF Going
  <2>1. /\ s = "transcode" /\ row.status = "processing" /\ row.ts = "waiting_input"
        /\ \A k \in PipelineSlots : ~Active(k)
    BY <1>1, <2>l DEF Heard
  <2>2. CASE ListenerBlame(s)
    <3>1. row'.status = "failed" BY <1>n, <2>1, <2>2, <2>l DEF ListenerBlame, MarkFailed, Row
    <3> QED BY <3>1 DEF Going
  <2>3. CASE ~ListenerBlame(s)
    <3>1. PICK x \in {"write", "verdict", "blame"} : listener' = [listener EXCEPT ![s] = x]
      BY <2>1, <2>3, <2>l
      DEF Listener, ListenerCheck, ListenerWrite, ListenerVerdict, OtherPipelineJobActive
    <3>2. /\ row'.status = row.status /\ row'.version = row.version /\ row'.deleted = row.deleted
          /\ row'.ts = row.ts /\ row'.handle = row.handle /\ row'.original = row.original
      BY <1>n, <2>1, <2>3 DEF Listener, ListenerCheck, ListenerWrite, ListenerVerdict, MarkPlaybackFailed, Row
    <3>3. listener'[s] = x /\ \A k \in Slots \ {s} : listener'[k] = listener[k] BY <1>n, <3>1
    <3>4. \A k \in PipelineSlots : ~Active(k)' /\ ~Carries(k)' BY <1>1, <2>1 DEF Active, Carries
    <3>5. \A u \in Uploads : hook'[u] \notin Opening BY <1>1, <2>l DEF Untouched
    <3>6. {"transcode"} \subseteq Opening /\ (~TranscodeRegistered => {"queue", "toSubmit"} \subseteq Opening)
      BY DEF Opening, Promoted
    <3>7. Fresh' BY <1>1, <2>l, <3>2 DEF Fresh
    <3>8. Untouched' BY <2>1, <3>2, <3>5, <3>6 DEF Untouched
    <3>9. Heard' BY <2>1, <2>l, <3>2, <3>3, <3>4 DEF Heard
    <3>10. Rendering' /\ Submitting' /\ Polling' /\ Ingesting'
      BY <3>4 DEF Rendering, Submitting, Polling, Ingesting
    <3>11. GoesOn' BY <3>3 DEF GoesOn
    <3> QED BY <3>7, <3>8, <3>9, <3>10, <3>11 DEF Going
  <2> QED BY <2>2, <2>3
<1>3. CASE row.status \notin {"uploading", "processing"}
  <2>1. row'.status \in {row.status, "failed"}
    BY MarkFailedGoesOn, PlaybackGoesOn
    DEF Listener, ListenerCheck, ListenerWrite, ListenerVerdict, ListenerBlame
  <2> QED BY <1>3, <2>1 DEF Going
<1> QED BY <1>2, <1>3

\* under the owner, the sweep, the provider and the clock.
LEMMA GoingWorld ==
  ASSUME Smooth, Types, Chain, Going, sweep = "idle",
         \/ \E c \in Callers : CallBegins(c) \/ CallStep(c)
         \/ Sweep \/ RemoteFinishes \/ DeadlinePasses
  PROVE  Going'
<1> USE LinkFacts, SlotFacts
<1>n. row \in Row /\ remote \in Seq(RemoteStates) BY DEF Types, TypeOK
<1>1. ASSUME NEW c \in Callers
      PROVE  ~RetryBegins(c) /\ ~RetryReopens(c) /\ ~RetryResumes(c) /\ ~RetryPolls(c) /\ ~RetryClears(c)
             /\ ~RetryQueues(c) /\ ~RetrySubmits(c)
  BY DEF Smooth, OneStart, Chain, RetryBegins, Begin, RetryReopens, RetryResumes, RetryPolls, RetryClears,
     RetryQueues, RetrySubmits, CallAt
<1>2. UNCHANGED <<hook, listener, pc, seen>>
  BY <1>1 DEF CallBegins, CancelBegins, RemoveBegins, Begin, CallStep, CancelStopsRemote, CancelWrites,
     RemoveDeletes, RemovePurges, Sweep, SweepFinds, SweepChecks, SweepRestarts, RemoteFinishes, DeadlinePasses
<1>3. \A s \in PipelineSlots : job'[s] = job[s]
  <2>1. UNCHANGED job \/ EnqueueOnce("purge")
    BY <1>1 DEF CallBegins, CancelBegins, RemoveBegins, Begin, CallStep, CancelStopsRemote, CancelWrites,
       RemoveDeletes, RemovePurges, Sweep, SweepFinds, SweepChecks, SweepRestarts, RemoteFinishes, DeadlinePasses
  <2> QED BY <2>1, QueueGains
<1>4. \/ UNCHANGED row
      \/ row' = [row EXCEPT !.overdue = TRUE]
      \/ row' = [row EXCEPT !.status = "failed", !.ts = "cancelled"]
      \/ row' = [row EXCEPT !.status = "deleting", !.deleted = TRUE]
  BY <1>1 DEF CallBegins, CancelBegins, RemoveBegins, Begin, CallStep, CancelStopsRemote, CancelWrites,
     RemoveDeletes, RemovePurges, Sweep, SweepFinds, SweepChecks, SweepRestarts, RemoteFinishes, DeadlinePasses
<1>5. /\ row'.original = row.original
      /\ row'.status \in {row.status, "failed", "deleting"}
      /\ row'.status \in {"uploading", "processing"} =>
           /\ row'.status = row.status /\ row'.version = row.version /\ row'.deleted = row.deleted
           /\ row'.ts = row.ts /\ row'.handle = row.handle /\ row'.playback = row.playback
  BY <1>n, <1>4 DEF Row
<1>6. \/ UNCHANGED remote
      \/ \E h, x : x # "running" /\ remote' = [remote EXCEPT ![h] = x]
  BY <1>1 DEF CallBegins, CancelBegins, RemoveBegins, Begin, CallStep, CancelStopsRemote, CancelWrites,
     RemoveDeletes, RemovePurges, Sweep, SweepFinds, SweepChecks, SweepRestarts, RemoteFinishes, DeadlinePasses
<1>7. Len(remote') = Len(remote) /\ \A h \in 1..Len(remote) : remote[h] # "running" => remote'[h] # "running"
  BY <1>n, <1>6
<1>8. RowGoesOn BY <1>5 DEF RowGoesOn
<1> QED BY <1>2, <1>3, <1>5, <1>7, <1>8, GoingAside

\* Nothing is thrown, and what the provider pushes back is put back in the queue.
LEMMA GoingFaults ==
  ASSUME Smooth, Types, Chain, Going, Hits, Faults PROVE Going'
<1> USE LinkFacts, SlotFacts
<1>n. /\ row \in Row /\ used \in Used /\ job \in [Slots -> JobRow] /\ pc \in [Slots -> PCs]
      /\ seen \in [Slots -> Snapshots] /\ MaxHits \in Nat /\ MaxLimits \in Nat
  BY QueueAssumption, BoundsAssumption DEF Types, TypeOK
<1>u. ~(used.faults < MaxFaults) /\ ~(used.crashes < MaxCrashes) BY <1>n DEF Smooth, Used
<1>1. ASSUME NEW s \in Slots, RateLimited(s) PROVE Going'
  <2>1. /\ Running(s) /\ pc[s] \in {"deliver", "ask", "fetch"} /\ Defer(s) /\ Reset(s) /\ HeardBy(s)
        /\ UNCHANGED <<row, remote, hook>>
    BY <1>1 DEF RateLimited
  <2>2. job[s].hits < MaxHits
    <3>1. job[s].hits \in Nat /\ used.limits \in Nat BY <1>n DEF JobRow, Used
    <3>2. job[s].hits <= used.limits /\ used.limits < MaxLimits /\ MaxLimits <= MaxHits
      BY <1>1 DEF Hits, RateLimited, Smooth
    <3> QED BY <1>n, <3>1, <3>2
  <2>3. job[s].hits \in Nat BY <1>n DEF JobRow
  <2>4. ~(job[s].hits >= MaxHits) BY <1>n, <2>2, <2>3
  <2>5. /\ job'[s].state = "pending"
        /\ \A k \in Slots \ {s} : job'[k] = job[k]
    BY <1>n, <2>1, <2>4 DEF Defer
  <2>6. /\ pc'[s] = "idle" /\ \A k \in Slots \ {s} : pc'[k] = pc[k] /\ seen'[k] = seen[k]
    BY <1>n, <2>1 DEF Reset, Goto, Keep
  <2>7. UNCHANGED listener BY <2>1, <2>5 DEF HeardBy, NoJob
  <2>8. CASE s = "purge"
    <3>1. \A k \in PipelineSlots : job'[k] = job[k] /\ pc'[k] = pc[k] /\ seen'[k] = seen[k]
      BY <2>5, <2>6, <2>8
    <3> QED BY <2>1, <2>7, <3>1, GoingAside DEF RowGoesOn
  <2>9. CASE s # "purge" /\ row.status \in {"uploading", "processing"}
    <3>1. s \in PipelineSlots /\ Carries(s) BY <2>1, <2>9 DEF Carries, Active, Running
    <3>2. row.status = "processing" BY <2>9, <3>1, GoingAlone
    <3>l. Fresh /\ Rendering /\ Submitting /\ Polling /\ Ingesting BY <2>9 DEF Going
    <3>3. Fresh' BY <2>1, <3>l DEF Fresh
    <3>4. s # "transcode" BY <2>1, <3>1, <3>l DEF Rendering
    <3>5. s = "submit" => Submitting' BY <2>1, <2>6, <3>1, <3>l DEF Submitting, Direct
    <3>6. s \in PollSlots => Polling'
      <4>1. HAVE s \in PollSlots
      <4>2. row.handle # 0 /\ row.ts # "completed" BY <2>1, <3>1, <3>l, <4>1 DEF Polling
      <4> QED BY <2>1, <2>5, <2>6, <3>1, <3>2, <4>1, <4>2, OnlyPoll
    <3>7. s = "ingest" => Ingesting' BY <2>1, <2>6, <3>1, <3>l DEF Ingesting, Carries
    <3> QED BY <2>1, <2>5, <2>6, <2>7, <3>1, <3>2, <3>3, <3>4, <3>5, <3>6, <3>7, GoingMoves DEF RowGoesOn
  <2>10. CASE row.status \notin {"uploading", "processing"} BY <2>1, <2>10 DEF Going
  <2> QED BY <2>8, <2>9, <2>10
<1>2. ASSUME NEW u \in Uploads, HookThrows(u) PROVE Going'
  <2>1. ~Exists /\ UNCHANGED row BY <1>2, <1>u DEF HookThrows
  <2> QED BY <2>1 DEF Going, Exists
<1>3. ASSUME NEW c \in Callers, CallThrows(c) PROVE Going'
  <2>1. ~Exists /\ UNCHANGED row BY <1>3, <1>u DEF CallThrows
  <2> QED BY <2>1 DEF Going, Exists
<1>4. \A s \in Slots : ~Throw(s) /\ ~ListenerThrows(s) BY <1>u DEF Throw, ListenerThrows
<1>5. ~SweepThrows /\ ~Crash BY <1>u DEF SweepThrows, Crash
<1> QED BY <1>1, <1>2, <1>3, <1>4, <1>5 DEF Faults

\* No process has died, and no row was put back too often.
Calm == used.crashes = 0 /\ Hits

\* The queue's operations, but for the deferral of a 429.
QueueMoves ==
  \/ UNCHANGED job
  \/ \E s \in Slots : Enqueue(s) \/ EnqueueOnce(s) \/ ClaimJob(s) \/ Complete(s) \/ Fail(s)

\* What the host counts but for crashes and 429s.
Spends ==
  \/ UNCHANGED used
  \/ used' = [used EXCEPT !.faults = @ + 1]
  \/ used' = [used EXCEPT !.calls = @ + 1]
  \/ used' = [used EXCEPT !.expiries = @ + 1]

\* None of them counts a deferral.
LEMMA QueueHits ==
  ASSUME Types, Calm, QueueMoves, Spends PROVE Calm'
<1>1. used \in Used /\ job \in [Slots -> JobRow] BY DEF Types, TypeOK
<1>2. used'.crashes = used.crashes /\ used'.limits = used.limits BY <1>1 DEF Spends, Used
<1>3. \A s \in Slots : job[s].hits \in Nat BY <1>1 DEF JobRow
<1>4. ASSUME NEW s \in Slots PROVE job'[s].hits = job[s].hits \/ job'[s].hits = 0
  <2>1. CASE UNCHANGED job BY <2>1
  <2>2. ASSUME NEW k \in Slots, Enqueue(k) \/ EnqueueOnce(k) \/ Complete(k)
        PROVE  job'[s].hits = job[s].hits \/ job'[s].hits = 0
    BY <1>1, <2>2 DEF Enqueue, EnqueueOnce, Complete, NoJob, JobRow
  <2>3. ASSUME NEW k \in Slots, ClaimJob(k) PROVE job'[s].hits = job[s].hits
    BY <1>1, <2>3 DEF ClaimJob, JobRow
  <2>4. ASSUME NEW k \in Slots, Fail(k) PROVE job'[s].hits = job[s].hits \/ job'[s].hits = 0
    BY <1>1, <2>4 DEF Fail, NoJob, JobRow
  <2> QED BY <2>1, <2>2, <2>3, <2>4 DEF QueueMoves
<1>5. used.limits \in Nat BY <1>1 DEF Used
<1> QED BY <1>2, <1>3, <1>4, <1>5 DEF Calm, Hits

\* A 429 counts one, on the host and on the row.
LEMMA RateHits ==
  ASSUME Types, Calm, NEW s \in Slots, RateLimited(s) PROVE Calm'
<1>1. used \in Used /\ job \in [Slots -> JobRow] BY DEF Types, TypeOK
<1>2. used'.crashes = used.crashes /\ used'.limits = used.limits + 1 BY <1>1 DEF RateLimited, Used
<1>3. \A k \in Slots : job[k].hits \in Nat BY <1>1 DEF JobRow
<1>4. job'[s].hits = 0 \/ job'[s].hits = job[s].hits + 1 BY <1>1 DEF RateLimited, Defer, NoJob, JobRow
<1>5. \A k \in Slots \ {s} : job'[k].hits = job[k].hits BY <1>1 DEF RateLimited, Defer
<1>6. used.limits \in Nat BY <1>1 DEF Used
<1> QED BY <1>2, <1>3, <1>4, <1>5, <1>6 DEF Calm, Hits

\* Nothing has been counted yet,
LEMMA CalmInit == Init => Calm
<1> SUFFICES ASSUME Init PROVE Calm OBVIOUS
<1>1. used.crashes = 0 /\ used.limits = 0 /\ \A s \in Slots : job[s].hits = 0
  BY DEF Init, QueueInit, NoJob
<1> QED BY <1>1 DEF Calm, Hits

\* and it stays calm where no process may die.
LEMMA CalmNext ==
  ASSUME MaxCrashes = 0, Types, Calm, [Next]_vars PROVE Calm'
<1> USE SlotFacts
<1>1. CASE UNCHANGED vars BY <1>1 DEF vars, Calm, Hits
<1>2. ASSUME NEW s \in Slots, Handler(s) PROVE QueueMoves /\ Spends
  <2>1. QueueMoves
    BY <1>2 DEF QueueMoves, Starts, EnqueuePoll, ThrowStep, HandlerThrows, Handler, Submit, SubmitLoad,
       SubmitWaits, SubmitSelects, SubmitAccepted, SubmitAnswerLost, SubmitRecord, SubmitFirstPoll, Poll,
       PollLoad, PollAsk, PollComplete, PollToIngest, PollNote, PollNext, Ingest, IngestLoad, IngestFetch,
       IngestCommit, IngestRelease, IngestNotify, Transcode, TranscodeLoad, TranscodeBroken,
       TranscodeOnNode, TranscodeNodeResult, TranscodeNodeFails, TranscodeAttach, TranscodeWake,
       TranscodeQueue, TranscodeToSubmit, TranscodeGiveUp, TranscodeVerdict, TranscodeBlame,
       TranscodeRethrow, Purge, PurgeLoad, PurgeForgetRemote, PurgeDelete
  <2>2. Spends
    BY <1>2 DEF Spends, Handler, Submit, SubmitLoad, SubmitWaits, SubmitSelects, SubmitAccepted,
       SubmitAnswerLost, SubmitRecord, SubmitFirstPoll, Poll, PollLoad, PollAsk, PollComplete, PollToIngest,
       PollNote, PollNext, Ingest, IngestLoad, IngestFetch, IngestCommit, IngestRelease, IngestNotify,
       Transcode, TranscodeLoad, TranscodeBroken, TranscodeOnNode, TranscodeNodeResult, TranscodeNodeFails,
       TranscodeAttach, TranscodeWake, TranscodeQueue, TranscodeToSubmit, TranscodeGiveUp,
       TranscodeVerdict, TranscodeBlame, TranscodeRethrow, Purge, PurgeLoad, PurgeForgetRemote, PurgeDelete
  <2> QED BY <2>1, <2>2
<1>3. ASSUME NEW s \in Slots, Worker(s) \/ Listener(s) PROVE QueueMoves /\ Spends
  BY <1>3 DEF QueueMoves, Spends, ThrowStep, HandlerThrows, Worker, Finish, UpdateRefused, Refuse, Reap,
     Listener, ListenerCheck, ListenerWrite, ListenerVerdict, ListenerBlame
<1>4. ASSUME NEW u \in Uploads, Hook(u) PROVE QueueMoves /\ Spends
  BY <1>4 DEF QueueMoves, Spends, Hook, HookPromote, HookTranscode, HookMark, HookUnconfigured, HookChoose,
     HookQueue, HookToSubmit, HookAbort
<1>5. ASSUME NEW c \in Callers, CallBegins(c) \/ CallStep(c) PROVE QueueMoves /\ Spends
  BY <1>5 DEF QueueMoves, Spends, EnqueuePoll, CallBegins, RetryBegins, CancelBegins, RemoveBegins, Begin,
     CallStep, RetryReopens, RetryResumes, RetryPolls, RetryClears, RetryQueues, RetrySubmits,
     CancelStopsRemote, CancelWrites, RemoveDeletes, RemovePurges
<1>6. CASE Sweep \/ RemoteFinishes \/ DeadlinePasses
  <2> QueueMoves /\ Spends
    BY <1>6 DEF QueueMoves, Spends, EnqueuePoll, Sweep, SweepFinds, SweepChecks, SweepRestarts,
       RemoteFinishes, DeadlinePasses
  <2> QED BY QueueHits
<1>7. CASE Faults
  <2>1. ~Crash
    <3>1. used.crashes = 0 BY DEF Calm
    <3> QED BY <3>1 DEF Crash
  <2>2. CASE \E s \in Slots : RateLimited(s) BY <2>2, RateHits
  <2>3. CASE ~\E s \in Slots : RateLimited(s)
    <3>1. QueueMoves /\ Spends
      BY <1>7, <2>1, <2>3 DEF QueueMoves, Spends, ThrowStep, HandlerThrows, Faults, Throw, ListenerThrows,
         SweepThrows, HookThrows, CallThrows
    <3> QED BY <3>1, QueueHits
  <2> QED BY <2>2, <2>3
<1> QED BY <1>1, <1>2, <1>3, <1>4, <1>5, <1>6, <1>7, QueueHits DEF Next

\* A file is on its way, and nothing else has happened.
LEMMA GoingInit == Init => Going
<1> SUFFICES ASSUME Init PROVE Going OBVIOUS
<1>1. /\ \A s \in Slots : job[s].state = "none" /\ listener[s] = "none"
      /\ \A u \in Uploads : hook[u] = "event"
      /\ row.status = "uploading" /\ row.ts = "waiting_input" /\ row.playback = "pending"
      /\ row.handle = 0 /\ row.version = 0 /\ ~row.deleted /\ Len(remote) = 0
  BY DEF Init, QueueInit, NoJob
<1>2. \A s \in Slots : ~Active(s) /\ ~Carries(s) BY <1>1 DEF Active, Carries
<1>3. "event" \notin Opening BY DEF Opening, Promoted
<1>4. Fresh BY <1>1 DEF Fresh
<1>5. Untouched BY <1>1, <1>2, LinkFacts DEF Untouched
<1>6. Heard BY <1>1 DEF Heard
<1>7. Rendering /\ Submitting /\ Polling /\ Ingesting
  BY <1>2, SlotFacts DEF Rendering, Submitting, Polling, Ingesting
<1>8. GoesOn BY <1>1 DEF GoesOn
<1> QED BY <1>4, <1>5, <1>6, <1>7, <1>8 DEF Going

\* Every step leaves somebody who goes on.
LEMMA GoingNext ==
  ASSUME Smooth, Types, ChainInv, Calm, Going, SweepLate, [Next]_vars PROVE Going'
<1>1. Chain /\ Hits /\ sweep = "idle" BY DEF ChainInv, Calm, SweepLate
<1>2. CASE UNCHANGED vars
  <2>1. CASE row.status \in {"uploading", "processing"}
    <3>1. Fresh /\ Untouched /\ Heard /\ Rendering /\ Submitting /\ Polling /\ Ingesting /\ GoesOn
      BY <2>1 DEF Going
    <3>2. UNCHANGED <<row, job, pc, seen, remote, hook, listener>> BY <1>2 DEF vars
    <3>3. Fresh' /\ Heard' BY <3>1, <3>2 DEF Fresh, Heard, Active
    <3>4. Untouched' BY <3>1, <3>2 DEF Untouched, Active, Direct
    <3>5. Rendering' /\ Submitting' BY <3>1, <3>2 DEF Rendering, Submitting, Carries, Active, Direct
    <3>6. Polling' /\ Ingesting' /\ GoesOn' BY <3>1, <3>2 DEF Polling, Ingesting, GoesOn, Carries, Active
    <3> QED BY <3>3, <3>4, <3>5, <3>6 DEF Going
  <2> QED BY <1>2, <2>1 DEF vars, Going
<1>3. CASE Next
  BY <1>1, <1>3, GoingJobs, GoingListener, GoingHooks, GoingWorld, GoingFaults DEF Next
<1> QED BY <1>2, <1>3

\* A transcript that says it is working and that no hook and no listener holds has a job that
\* goes on: whatever file was uploaded, however often, in either build, and whether or not its
\* owner cancels or removes it.
THEOREM NotStrandedHolds ==
  ASSUME Smooth
  PROVE  Spec /\ []SweepLate => []NotStranded
<1>1. OneStart /\ MaxCrashes = 0 BY DEF Smooth
<1>2. Going => NotStranded
  <2> SUFFICES ASSUME Going, row.status = "processing", HooksOff, NothingHeard
               PROVE  OtherPipelineJobActive
    BY DEF NotStranded
  <2>1. "off" \notin Opening BY DEF Opening, Promoted
  <2> QED BY <2>1, LinkFacts DEF Going, GoesOn, HooksOff, NothingHeard, Carries, OtherPipelineJobActive
<1> QED
  BY <1>1, <1>2, TypesInit, TypesNext, ChainInit, ChainNext, CalmInit, CalmNext, GoingInit, GoingNext, PTL
  DEF Spec
===============================================================================
