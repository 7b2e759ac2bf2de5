--------------------------- MODULE TranscriptEditing ---------------------------
(***************************************************************************)
(* The corrections of one transcript: `transcript-editing.service.ts`,     *)
(* `transcript-materialize.service.ts` and the `transcript.snapshot` job.  *)
(*                                                                         *)
(* The live tables hold the current text, the version log what led to it,  *)
(* object storage a snapshot of some versions.  Every writer of the live   *)
(* tables first takes the lock of the transcript's row (the conditional    *)
(* bump, or SELECT FOR UPDATE), so what a transaction does under it is one *)
(* step; everything before it, and everything after its commit, is not.    *)
(***************************************************************************)
EXTENDS TranscriptOps, JobQueue

CONSTANTS Tabs,         \* requests in flight at once
          Workers,      \* runs of the snapshot handler at once, timed-out ones included
          Menus,        \* what the editors of a transcript may do: sets of Kinds
          Retries,      \* VERSION_RACE_RETRIES
          Interval,     \* SNAPSHOT_VERSION_INTERVAL
          MaxRequests,  \* saves and restores asked for, a save sent again counted again
          MaxFaults     \* throws after a commit or in a snapshot job, and its timeouts

Kinds == {"text", "delete", "rename", "unname", "text_rename", "merge", "merge_name", "restore"}

ASSUME EditingBounds ==
  /\ Menus \subseteq SUBSET Kinds
  /\ Retries \in Nat /\ Interval \in Nat \ {0}
  /\ MaxRequests \in Nat /\ MaxFaults \in Nat

VARIABLES
  live,        \* transcript_segments and transcript_speakers
  log,         \* transcript_versions, by number; its length is current_version
  identities,  \* transcripts.speaker_identities
  store,       \* object storage: the body under the key of each version's snapshot
  worker,      \* worker[w]: a run of the snapshot handler, and what it read
  late,        \* versions that a timed-out run of the handler had read, or read after
  client,      \* client[t]: the request in tab t
  menu,        \* what these editors do
  used         \* how much of each bound is spent

vars == <<live, log, identities, store, job, worker, late, client, menu, used>>
requests == <<client, used>>
document == <<live, log, identities>>
runs == <<worker, late>>
snapshots == <<store, job, runs>>

current  == Len(log)
Versions == 1..(1 + MaxRequests)

NoRequest == [pc |-> "idle", batch |-> 0, ops |-> <<>>, version |-> 0, sight |-> <<>>,
              base |-> 0, tries |-> 0, target |-> Gone, answer |-> "none"]

\* A run of the handler; `row` holds the job row it is an attempt of, until it has timed out.
NoRun == [pc |-> "idle", row |-> {}, version |-> 0, body |-> Gone]

\* A row of transcript_versions.  `said`, that no code reads, is for the properties: the lines
\* as this version left them.
Entry(kind, ops, batch, from, doc) ==
  [kind |-> kind, ops |-> ops, batch |-> batch, from |-> from, snapshot |-> FALSE,
   said |-> Lines(doc)]

Goto(t, p)   == client' = [client EXCEPT ![t].pc = p]
Answer(t, a) == client' = [client EXCEPT ![t] = [NoRequest EXCEPT !.answer = a]]

Spend(bound, max) ==
  /\ used[bound] < max
  /\ used' = [used EXCEPT ![bound] = @ + 1]

\* Ingest has queued the first snapshot.
Init ==
  /\ live \in {[e \in Entities |-> IF e \in Speakers THEN Voice(e, 1)
                                   ELSE Line(0, said[e], 1)] :
               said \in [Segments -> Speakers]}
  /\ log = <<Entry("ai_original", <<>>, 0, 0, live)>>
  /\ identities = [s \in Speakers |-> Gone]
  /\ store = [v \in Versions |-> Gone]
  /\ \E s \in Slots :
       job = [r \in Slots |-> IF r = s THEN [NoJob EXCEPT !.state = "pending"] ELSE NoJob]
  /\ worker = [w \in Workers |-> NoRun] /\ late = {}
  /\ client = [t \in Tabs |-> NoRequest]
  /\ menu \in Menus
  /\ used = [requests |-> 0, faults |-> 0]

-------------------------------------------------------------------------------
(* Materialize                                                             *)

Found(doc)    == [how |-> "found", doc |-> doc]
Missing(why)  == [how |-> why, doc |-> Gone]

Replay(base, ops) ==
  IF base.how # "found" THEN base
  ELSE LET applied == ApplyOps(base.doc, ops)
       IN  IF applied.invalid \/ applied.conflict THEN Missing("corrupt")
           ELSE Found(applied.doc)

\* `materializeRaw`: from the nearest snapshot or later restore at or below the version, the
\* ops of every version after it.
Raw ==
  LET raw[v \in 0..Len(log)] ==
        CASE v = 0 -> Missing("unreachable")
          [] v > 0 /\ log[v].snapshot ->
               IF store[v] = Gone THEN Missing("lost") ELSE Found(store[v])
          [] v > 0 /\ ~log[v].snapshot /\ log[v].kind = "restore" -> raw[log[v].from]
          [] OTHER -> Replay(raw[v - 1], log[v].ops)
  IN  raw

\* The names of today over the text of the version; with no snapshot below it, the current one
\* is read from the live tables.
Materialize(v) ==
  LET raw == IF v = current /\ Raw[v].how = "unreachable" THEN Found(live) ELSE Raw[v]
  IN  IF raw.how = "found" THEN Found(ApplyIdentities(raw.doc, identities)) ELSE raw

-------------------------------------------------------------------------------
(* What the browser sends                                                  *)

Present(ids) == {e \in ids : live[e] # Gone}

OpsOf(kind, batch) ==
  CASE kind = "text"   -> {[op |-> "segment.update_text", id |-> s, rev |-> live[s].rev,
                            value |-> batch] : s \in Present(Segments)}
    [] kind = "delete" -> {[op |-> "segment.delete", id |-> s, rev |-> live[s].rev] :
                           s \in Present(Segments)}
    [] kind = "rename" -> {[op |-> "speaker.rename", id |-> s, rev |-> live[s].rev,
                            value |-> n] : s \in Present(Speakers), n \in Names}
    [] kind = "unname" -> {[op |-> "speaker.rename", id |-> s, rev |-> live[s].rev,
                            value |-> s] : s \in Present(Speakers)}
    [] kind \in {"merge", "merge_name"} ->
         {[op |-> "speaker.merge", id |-> p[1], source |-> p[2],
           keepName |-> kind = "merge"] :
          p \in {q \in Present(Speakers) \X Present(Speakers) : q[1] # q[2]}}
    [] OTHER -> {}

\* One correction, or a line corrected and a speaker renamed in one burst.
BatchesOf(batch) ==
  {<<op>> : op \in UNION {OpsOf(kind, batch) : kind \in menu}}
    \cup {<<text, rename>> : text \in {op \in OpsOf("text", batch) : "text_rename" \in menu},
                             rename \in OpsOf("rename", batch)}

\* A person corrects the text in front of them; the save is on its way.
Compose(t) ==
  /\ client[t].pc = "idle"
  /\ Spend("requests", MaxRequests)
  /\ \E ops \in BatchesOf(used.requests + 1) :
       client' = [client EXCEPT ![t] = [NoRequest EXCEPT
                    !.pc = "accepted", !.batch = used.requests + 1, !.ops = ops,
                    !.sight = [i \in DOMAIN ops |-> live[ops[i].id]], !.version = current]]
  /\ UNCHANGED <<document, snapshots, menu>>

\* The same save again: a second tab, or a retry that overlaps the original.
Resend(t) ==
  /\ client[t].pc = "idle"
  /\ Spend("requests", MaxRequests)
  /\ \E sent \in Tabs :
       /\ client[sent].pc # "idle" /\ client[sent].ops # <<>>
       /\ client' = [client EXCEPT ![t] = [client[sent] EXCEPT !.pc = "accepted",
                                           !.base = 0, !.tries = 0]]
  /\ UNCHANGED <<document, snapshots, menu>>

\* A person asks for an older version, naming the one in front of them as the base.
ComposeRestore(t) ==
  /\ client[t].pc = "idle"
  /\ "restore" \in menu
  /\ Spend("requests", MaxRequests)
  /\ \E v \in 1..current :
       client' = [client EXCEPT ![t] = [NoRequest EXCEPT
                    !.pc = "restoring", !.version = v, !.base = current]]
  /\ UNCHANGED <<document, snapshots, menu>>

-------------------------------------------------------------------------------
(* POST operations                                                         *)

\* `findBatch`: a version this batch has already created.
Saved(batch) == \E v \in 1..current : log[v].batch = batch

\* Idempotency first.
Accept(t) ==
  /\ client[t].pc = "accepted"
  /\ IF Saved(client[t].batch) THEN Answer(t, "replayed") ELSE Goto(t, "routed")
  /\ UNCHANGED <<document, snapshots, menu, used>>

\* Identifications take the unversioned path; the live speakers decide, before any lock.
Route(t) ==
  /\ client[t].pc = "routed"
  /\ Goto(t, IF IsIdentificationBatch(live, client[t].ops) THEN "naming" ELSE "saving")
  /\ UNCHANGED <<document, snapshots, menu, used>>

\* Mutant of Named: the rev moves, as it does in every other write.
NamedBumps(row, name) == [row EXCEPT !.name = name, !.rev = @ + 1]

\* A name given beside the log leaves the rev alone.
Named(row, name) == [row EXCEPT !.name = name]

\* `saveIdentifications`, under the row's lock: a rename that is no longer an identification is
\* a conflict.  No version, no rev.
Identify(t) ==
  LET Name(acc, op) ==
        LET kind == ClassifyRename(acc.doc, op)
        IN  IF kind = "noop" THEN acc
            ELSE IF kind # "identification" \/ acc.doc[op.id].rev # op.rev
            THEN [acc EXCEPT !.conflict = TRUE]
            ELSE [acc EXCEPT !.doc[op.id] = Named(@, op.value), !.identities[op.id] = op.value]
      named == Walk(Name, [doc |-> live, identities |-> identities, conflict |-> FALSE],
                    client[t].ops)
  IN  /\ client[t].pc = "naming"
      /\ IF named.conflict
         THEN Answer(t, "conflict") /\ UNCHANGED document
         ELSE /\ live' = named.doc
              /\ identities' = named.identities
              /\ Answer(t, "named")
              /\ UNCHANGED log
      /\ UNCHANGED <<snapshots, menu, used>>

\* `saveBatch` reads the version it will bump from.
SaveReads(t) ==
  /\ client[t].pc = "saving"
  /\ client' = [client EXCEPT ![t].pc = "bumping", ![t].base = current]
  /\ UNCHANGED <<document, snapshots, menu, used>>

\* The entries of speakers that are back on their placeholder.
RetireIdentities(doc) ==
  [s \in Speakers |-> IF IsUnidentified(doc, s) THEN Gone ELSE identities[s]]

\* The bump finds the version it expects: apply, write, append to the log, one transaction.
SaveCommits(t) ==
  LET applied == ApplyOps(live, client[t].ops)
  IN  /\ client[t].pc = "bumping" /\ current = client[t].base
      /\ ~applied.invalid /\ ~applied.conflict
      /\ ~Saved(client[t].batch)
      /\ live' = applied.doc
      /\ identities' = RetireIdentities(applied.doc)
      /\ log' = Append(log, Entry("edit", client[t].ops, client[t].batch, 0, applied.doc))
      /\ Goto(t, "saved")
      /\ UNCHANGED <<snapshots, menu, used>>

\* An op that can never apply: the transaction is rolled back and the batch refused.
SaveInvalid(t) ==
  /\ client[t].pc = "bumping" /\ current = client[t].base
  /\ ApplyOps(live, client[t].ops).invalid
  /\ Answer(t, "invalid")
  /\ UNCHANGED <<document, snapshots, menu, used>>

\* A stale rev, or the unique index on (transcript, batch): rolled back, and looked into.
SaveConflicts(t) ==
  LET applied == ApplyOps(live, client[t].ops)
  IN  /\ client[t].pc = "bumping" /\ current = client[t].base
      /\ ~applied.invalid
      /\ applied.conflict \/ Saved(client[t].batch)
      /\ Goto(t, "conflicted")
      /\ UNCHANGED <<document, snapshots, menu, used>>

\* Another writer bumped first: again from the top, a bounded number of times.
SaveLoses(t) ==
  /\ client[t].pc = "bumping" /\ current # client[t].base
  /\ IF client[t].tries < Retries
     THEN client' = [client EXCEPT ![t].pc = "raced", ![t].tries = @ + 1]
     ELSE Answer(t, "conflict")
  /\ UNCHANGED <<document, snapshots, menu, used>>

\* Before a retry: the winner may have been this very batch.
SaveRetries(t) ==
  /\ client[t].pc = "raced"
  /\ IF Saved(client[t].batch) THEN Answer(t, "replayed") ELSE Goto(t, "saving")
  /\ UNCHANGED <<document, snapshots, menu, used>>

\* Mutant of Conflicted: the conflict is reported without looking for the twin.
ConflictedBlind(t) ==
  /\ client[t].pc = "conflicted"
  /\ Answer(t, "conflict")
  /\ UNCHANGED <<document, snapshots, menu, used>>

\* Before a conflict is reported: it may be this very batch that is in the way.
Conflicted(t) ==
  /\ client[t].pc = "conflicted"
  /\ Answer(t, IF Saved(client[t].batch) THEN "replayed" ELSE "conflict")
  /\ UNCHANGED <<document, snapshots, menu, used>>

Snapshotted == {v \in 1..current : log[v].snapshot}

\* `shouldSnapshot` of an edit by versions; its bytes may call for one at any time.
ShouldSnapshot(version) ==
  \A v \in Snapshotted : v <= version => version - v >= Interval

\* Mutant of EnqueueSnapshot: a row for every call, as with `skipDedup`.
EnqueueAlways == \E s \in Slots : Enqueue(s)

\* `enqueueSnapshot` names type and subject: while a snapshot job of the transcript is pending or
\* running, the call is merged into it.
EnqueueSnapshot ==
  IF \E s \in Slots : Active(s) THEN UNCHANGED job ELSE \E s \in Slots : Enqueue(s)

\* `afterCommit`: the snapshot is queued, or not worth one yet.
AfterCommit(t) ==
  /\ client[t].pc = "saved"
  /\ \/ EnqueueSnapshot
     \/ ~ShouldSnapshot(client[t].base + 1) /\ UNCHANGED job
  /\ Answer(t, "saved")
  /\ UNCHANGED <<document, store, runs, menu, used>>

-------------------------------------------------------------------------------
(* POST versions/:v/restore                                                *)

\* Only from the version the caller was looking at, and only to another one.
RestoreChecks(t) ==
  /\ client[t].pc = "restoring"
  /\ IF client[t].base # current \/ client[t].version = current
     THEN Answer(t, "conflict") ELSE Goto(t, "materializing")
  /\ UNCHANGED <<document, snapshots, menu, used>>

\* Outside the transaction: it may download a snapshot.
RestoreMaterializes(t) ==
  /\ client[t].pc = "materializing"
  /\ LET target == Materialize(client[t].version)
     IN  IF target.how = "found"
         THEN client' = [client EXCEPT ![t].pc = "restores", ![t].target = target.doc]
         ELSE Answer(t, "unavailable")
  /\ UNCHANGED <<document, snapshots, menu, used>>

\* Mutant of Restored: the names are those of the materialization.
RestoredAsRead(t) == client[t].target

\* The names are put over the target again: one may have been given since it was read.
Restored(t) == ApplyIdentities(client[t].target, identities)

\* The bump, the whole text replaced, the revs of the target with it.
RestoreCommits(t) ==
  /\ client[t].pc = "restores"
  /\ IF current # client[t].base
     THEN Answer(t, "conflict") /\ UNCHANGED document
     ELSE /\ live' = Restored(t)
          /\ log' = Append(log, Entry("restore", <<>>, 0, client[t].version, Restored(t)))
          /\ Goto(t, "restored")
          /\ UNCHANGED identities
  /\ UNCHANGED <<snapshots, menu, used>>

\* A restore always asks for a snapshot.
RestoreQueues(t) ==
  /\ client[t].pc = "restored"
  /\ EnqueueSnapshot
  /\ Answer(t, "saved")
  /\ UNCHANGED <<document, store, runs, menu, used>>

\* The enqueue throws after the commit: the request fails, the version stays.
QueueThrows(t) ==
  /\ client[t].pc \in {"saved", "restored"}
  /\ Spend("faults", MaxFaults)
  /\ Answer(t, "error")
  /\ UNCHANGED <<document, snapshots, menu>>

-------------------------------------------------------------------------------
(* The transcript.snapshot job                                             *)

\* A worker claims the row and calls the handler.
SnapshotStarts(w) ==
  /\ worker[w].pc = "idle"
  /\ \E s \in Slots :
       /\ ClaimJob(s)
       /\ worker' = [worker EXCEPT ![w] = [NoRun EXCEPT !.pc = "started", !.row = {s}]]
  /\ UNCHANGED <<document, requests, store, late, menu>>

\* Nothing is left to do but to settle the row.
Return(w) ==
  worker' = [worker EXCEPT ![w] = [NoRun EXCEPT !.pc = "returned", !.row = worker[w].row]]

\* One REPEATABLE READ transaction: the version it sees and that version's text.  Nothing is to
\* be done for a version that has its snapshot.
SnapshotReads(w) ==
  /\ worker[w].pc = "started"
  /\ IF log[current].snapshot
     THEN Return(w) /\ UNCHANGED late
     ELSE /\ worker' = [worker EXCEPT ![w] = [@ EXCEPT !.pc = "read", !.version = current,
                                                      !.body = live]]
          /\ late' = IF worker[w].row = {} THEN late \cup {current} ELSE late
  /\ UNCHANGED <<document, requests, store, job, menu>>

\* Mutant of Body: the text is read again when it is stored.
BodyNow(w) == live

\* The text a snapshot is made of: the one read with the version.
Body(w) == worker[w].body

\* The bytes, then their row, under a key made of the version: a second put of the key
\* overwrites the bytes and answers the row that is there.
SnapshotPuts(w) ==
  /\ worker[w].pc = "read"
  /\ store' = [store EXCEPT ![worker[w].version] = Body(w)]
  /\ worker' = [worker EXCEPT ![w].pc = "put"]
  /\ UNCHANGED <<document, requests, job, late, menu>>

\* Mutant of Claimed: the snapshot is put on the version that is current now.
ClaimedAsCurrent(w) == current

\* The version a snapshot is of: the one its read saw.
Claimed(w) == worker[w].version

\* The conditional write of the link.  A run that comes second deletes its object, which is the
\* object the first one linked: the bytes go, and the row, that the link holds, does not.
SnapshotClaims(w) ==
  /\ worker[w].pc = "put"
  /\ IF log[Claimed(w)].snapshot
     THEN store' = [store EXCEPT ![Claimed(w)] = Gone] /\ UNCHANGED log
     ELSE log' = [log EXCEPT ![Claimed(w)].snapshot = TRUE] /\ UNCHANGED store
  /\ Return(w)
  /\ UNCHANGED <<live, identities, requests, job, late, menu>>

\* The run ends: the row it is still an attempt of is settled so, and a timed-out one settles none.
Ends(w, Settle(_)) ==
  /\ worker' = [worker EXCEPT ![w] = NoRun]
  /\ IF worker[w].row = {} THEN UNCHANGED job ELSE \E s \in worker[w].row : Settle(s)

SnapshotReturns(w) ==
  /\ worker[w].pc = "returned"
  /\ Ends(w, Complete)
  /\ UNCHANGED <<document, requests, store, late, menu>>

\* The handler throws, or its process dies: the row is run again, until its attempts are spent.
SnapshotThrows(w) ==
  /\ worker[w].pc # "idle"
  /\ Spend("faults", MaxFaults)
  /\ Ends(w, Fail)
  /\ UNCHANGED <<document, client, store, late, menu>>

\* The attempt is given up for its time, or for its lease, and its row is run again; the work,
\* which cannot be cancelled, goes on.
SnapshotTimesOut(w) ==
  /\ worker[w].pc \in {"started", "read", "put"}
  /\ Spend("faults", MaxFaults)
  /\ \E s \in worker[w].row : Fail(s)
  /\ worker' = [worker EXCEPT ![w].row = {}]
  /\ late' = IF worker[w].pc = "started" THEN late ELSE late \cup {worker[w].version}
  /\ UNCHANGED <<document, client, store, menu>>

-------------------------------------------------------------------------------

Edit(t) ==
  \/ Accept(t) \/ Route(t) \/ Identify(t) \/ SaveReads(t) \/ SaveCommits(t)
  \/ SaveInvalid(t) \/ SaveConflicts(t) \/ SaveLoses(t) \/ SaveRetries(t)
  \/ Conflicted(t) \/ AfterCommit(t)

Restore(t) ==
  RestoreChecks(t) \/ RestoreMaterializes(t) \/ RestoreCommits(t) \/ RestoreQueues(t)

Snapshot(w) ==
  \/ SnapshotStarts(w) \/ SnapshotReads(w) \/ SnapshotPuts(w) \/ SnapshotClaims(w)
  \/ SnapshotReturns(w) \/ SnapshotThrows(w) \/ SnapshotTimesOut(w)

Next ==
  \/ \E t \in Tabs : Compose(t) \/ Resend(t) \/ ComposeRestore(t)
                     \/ Edit(t) \/ Restore(t) \/ QueueThrows(t)
  \/ \E w \in Workers : Snapshot(w)

Spec == Init /\ [][Next]_vars

-------------------------------------------------------------------------------
(* Properties                                                              *)

Texts == 0..MaxRequests

\* Types.
EditingTypeOK ==
  /\ live \in Document(Texts)
  /\ current \in Versions
  /\ \A v \in 1..current :
       /\ log[v].kind \in {"ai_original", "edit", "restore"}
       /\ log[v].batch \in 0..MaxRequests /\ log[v].from \in 0..(v - 1)
  /\ identities \in [Speakers -> Names \cup {Gone}]
  /\ \A v \in Versions : store[v] = Gone \/ store[v] \in Document(Texts)
  /\ job \in [Slots -> JobRow] /\ late \subseteq Versions
  /\ \A t \in Tabs : client[t].target = Gone \/ client[t].target \in Document(Texts)

\* What the version log says of the current version, names put over it, is what the live tables
\* hold, names and revs included (`transcript-materialize.service.ts`: "materialize(currentVersion) == the live tables").
HistoryIsLive ==
  LET now == Materialize(current) IN now.how = "found" => now.doc = live

\* No version fails to replay: no op of the log names a rev its replay does not produce.
HistoryReplays == LET raw == Raw IN \A v \in 1..current : raw[v].how # "corrupt"

\* The snapshot a version is linked to is in storage, whatever snapshot jobs, throws and
\* timeouts there are; left out is a version that a timed-out run had read.
SnapshotsKept ==
  \A v \in 1..current : log[v].snapshot /\ store[v] = Gone => v \in late

\* The same of every version ("rather than overwriting a link somebody is already
\* materializing from", `transcript-snapshot.handler.ts`): false, see README.
LinksReadable == \A v \in 1..current : log[v].snapshot => store[v] # Gone

\* A version that can be shown says what the transcript said when it was saved: whatever is
\* edited, restored, named or snapshotted later, its lines and their revs do not move.
PastIsFixed ==
  LET raw == Raw
  IN  \A v \in 1..current : raw[v].how = "found" => Lines(raw[v].doc) = log[v].said

\* Whoever is told that a correction of lines or a merge conflicts has not saved it, by this
\* request or by its twin ("a caller their save failed moments after it succeeded").  Left out
\* is the request that has lost its last race: it is told so without another look.
ConflictMeansUnsaved ==
  [][\A t \in Tabs :
       /\ \E i \in DOMAIN client[t].ops : client[t].ops[i].op # "speaker.rename"
       /\ client[t].pc \notin {"idle", "bumping"} /\ client'[t].answer = "conflict"
       => ~Saved(client[t].batch)]_vars

Commits(t) == client[t].pc = "bumping" /\ client'[t].pc = "saved"

RestoredSince(v) == \E w \in (v + 1)..current : log[w].kind = "restore"

\* A save overwrites no line its author has not seen (header of `transcript-editing.service.ts`:
\* a line "that changed in between produces an honest 409 rather than a silent overwrite"),
\* unless a restore has set the revs of its lines back in between.
NoBlindLines ==
  [][\A t \in Tabs :
       Commits(t) /\ ~RestoredSince(client[t].version) =>
         \A i \in DOMAIN client[t].ops :
           LET op == client[t].ops[i]
           IN  op.id \in Segments => live[op.id] = client[t].sight[i]]_vars
===============================================================================
