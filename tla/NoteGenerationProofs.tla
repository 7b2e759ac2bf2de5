-------------------------- MODULE NoteGenerationProofs --------------------------
(***************************************************************************)
(* What holds of NoteGeneration for every number of generations, saves,    *)
(* batches, readers, chunks, deferrals and mishaps.                        *)
(*                                                                         *)
(* Six properties, each from an inductive strengthening that rests on the  *)
(* types of the rows:                                                      *)
(*   HistoryInv  the row's version is the length of its history, and a     *)
(*               commit about to write has read a version that existed:    *)
(*               with it every step is a step of VersionLog;               *)
(*   OutcomeInv  where a handler stands, what its generation's row says    *)
(*               and what the owner was told agree;                        *)
(*   WrittenInv  a generation has a version if and only if it succeeded    *)
(*               before its note was removed;                              *)
(*   WriterInv   a note that is being generated has a job that will end    *)
(*               it, or some handler was cut off;                          *)
(*   GrownInv    the text of a generation that runs for the first time is  *)
(*               how its handler's buffer begins, so that a step extends   *)
(*               the text or leaves it (Grows);                            *)
(*   BriefInv    every run but the first was paid for by a deferral, which *)
(*               bounds the runs, and with BodiesInv the texts;            *)
(*   StreamInv   page, frames and cursor of a reader meet, and             *)
(*   ExactInv    spell out, piece by piece, the text they show.            *)
(***************************************************************************)
EXTENDS NoteGeneration, SequenceTheorems, FiniteSetTheorems, TLAPS

\* What the rows hold.  Texts are not bounded here: how many chunks and runs there are
\* does not matter to a history.
Text    == Seq(Nat)
Body    == {<<>>} \cup ((Gens \cup Batches \cup {NoBatch}) \X Text)
Version == [body : Body, gen : Gens \cup {NoGen}, batch : Batches \cup {NoBatch}, saw : Nat]

NoteStatus == {"draft", "generating", "ready", "failed", "deleting", "gone"}
GenStatus  == {"none", "pending", "streaming", "succeeded", "failed", "gone"}
RunPc == {"idle", "asked", "prepare", "mark", "markNote", "stream", "flush", "commit",
          "commitWrite", "announce", "failGen", "failNote", "return"}
Class == {"none", "refusal", "other"}

Note == [status : NoteStatus, removed : BOOLEAN, version : Nat, body : Body, gen : Gens]
Generation == [status : GenStatus, content : Text, attempt : Nat]
Run == [pc : RunPc, buffer : Text, base : Nat, class : Class]
Request == [pc : {"new", "lookup", "write", "answered"}, batch : Batches \cup {NoBatch},
            body : Body, base : Nat, saw : Nat, status : NoteStatus \cup {"none"},
            answer : {"none", "gone", "generating", "replayed", "stale", "saved", "lost"}]

Rows ==
  /\ note \in Note
  /\ versions \in Seq(Version)
  /\ gens \in [Gens -> Generation]
  /\ run \in [Gens -> Run]
  /\ save \in [Saves -> Request]

HistoryInv ==
  /\ note.version = Len(versions)
  /\ Gone => versions = <<>> /\ note.body = <<>>
  /\ \A g \in Gens : run[g].pc = "commitWrite" /\ ~Gone => run[g].base <= Len(versions)

-------------------------------------------------------------------------------
(* Types.                                                                  *)

\* The empty text is a text, and the body of a note without one.
LEMMA EmptyText == <<>> \in Text /\ <<>> \in Body
BY DEF Text, Body

\* A handler that does not run is well formed.
LEMMA NoRunTyped == NoRun \in Run
BY EmptyText DEF NoRun, Run, RunPc, Class

\* A handler stays well formed: when it starts,
LEMMA StartRunTyped ==
  ASSUME run \in [Gens -> Run], NEW g \in Gens, NEW pc \in RunPc, StartRun(g, pc)
  PROVE  run' \in [Gens -> Run]
BY NoRunTyped DEF StartRun, Run

\* wherever it goes,
LEMMA GotoTyped ==
  ASSUME run \in [Gens -> Run], NEW g \in Gens, NEW pc \in RunPc, Goto(g, pc)
  PROVE  run' \in [Gens -> Run]
BY DEF Goto, Run

\* when it gives up,
LEMMA EscapeTyped ==
  ASSUME run \in [Gens -> Run], NEW g \in Gens, NEW class \in Class, Escape(g, class)
  PROVE  run' \in [Gens -> Run]
<1>1. "failGen" \in RunPc BY DEF RunPc
<1> QED BY <1>1 DEF Escape, Run

\* and when it ends.
LEMMA EndRunTyped ==
  ASSUME run \in [Gens -> Run], NEW g \in Gens, EndRun(g)
  PROVE  run' \in [Gens -> Run]
BY NoRunTyped DEF EndRun

\* Nor does a new status or text spoil a generation.
LEMMA SucceededTyped ==
  ASSUME Rows, NEW g \in Gens PROVE Succeeded(g) \in [Gens -> Generation]
<1>1. "succeeded" \in GenStatus BY DEF GenStatus
<1>2. run[g].buffer \in Text BY DEF Rows, Run
<1> QED BY <1>1, <1>2 DEF Rows, Succeeded, Generation

\* and neither does a status alone.
LEMMA StatusTyped ==
  ASSUME gens \in [Gens -> Generation], NEW g \in Gens, NEW status \in GenStatus,
         gens' = [gens EXCEPT ![g].status = status]
  PROVE  gens' \in [Gens -> Generation]
BY DEF Generation

\* Nor does a new version spoil the note.
LEMMA NoteTyped ==
  ASSUME note \in Note, NEW status \in NoteStatus, NEW v \in Nat, NEW body \in Body,
         note' = [note EXCEPT !.status = status, !.version = v, !.body = body]
  PROVE  note' \in Note
BY DEF Note

\* The rows are typed to begin with,
LEMMA RowsInit == Init => Rows
<1> SUFFICES ASSUME Init PROVE Rows OBVIOUS
<1>1. note \in Note BY EmptyText, NoteAssumption DEF Init, Note, NoteStatus
<1>2. gens \in [Gens -> Generation] BY EmptyText DEF Init, Generation, GenStatus
<1>3. run \in [Gens -> Run] BY NoRunTyped DEF Init
<1>4. NoSave \in Request BY EmptyText DEF NoSave, Request
<1>5. save \in [Saves -> Request] BY <1>4 DEF Init
<1>6. versions \in Seq(Version) BY DEF Init
<1> QED BY <1>1, <1>2, <1>3, <1>5, <1>6 DEF Rows

\* A step that leaves the note, the generations, the handlers and the saves alone.
LEMMA RowsIdle ==
  ASSUME Rows, UNCHANGED <<noteVars, gens, run, save>> PROVE Rows'
BY DEF Rows, noteVars

\* A step of a request that queues a generation, or of the housekeeping of previews.
LEMMA RowsAsk ==
  ASSUME Rows, NEW g \in Gens,
         RegenerateAsk(g) \/ RegenerateQueue(g) \/ PreviewQueue(g) \/ PreviewExpire(g)
  PROVE  Rows'
<1> USE DEF Rows, noteVars, requestVars
<1>1. CASE RegenerateAsk(g)
  <2>1. run' \in [Gens -> Run] BY <1>1, GotoTyped DEF RegenerateAsk, RunPc
  <2> QED BY <1>1, <2>1 DEF RegenerateAsk
<1>2. CASE RegenerateQueue(g)
  <2>1. run' \in [Gens -> Run] BY <1>2, GotoTyped DEF RegenerateQueue, RunPc
  <2>2. CASE Gone /\ UNCHANGED <<gens, note, job>> BY <1>2, <2>1, <2>2 DEF RegenerateQueue
  <2>3. CASE ~Gone /\ gens' = [gens EXCEPT ![g].status = "pending"]
                   /\ note' = [note EXCEPT !.gen = g]
    <3>1. note' \in Note BY <2>3 DEF Note
    <3>2. gens' \in [Gens -> Generation] BY <2>3, StatusTyped DEF GenStatus
    <3> QED BY <1>2, <2>1, <3>1, <3>2 DEF RegenerateQueue
  <2> QED BY <1>2, <2>2, <2>3 DEF RegenerateQueue
<1>3. CASE PreviewQueue(g)
  <2>1. gens' \in [Gens -> Generation] BY <1>3, StatusTyped DEF PreviewQueue, GenStatus
  <2> QED BY <1>3, <2>1 DEF PreviewQueue
<1>4. CASE PreviewExpire(g)
  <2>1. gens' \in [Gens -> Generation] BY <1>4, StatusTyped DEF PreviewExpire, GenStatus
  <2> QED BY <1>4, <2>1 DEF PreviewExpire
<1> QED BY <1>1, <1>2, <1>3, <1>4

\* The commit of a generation.
LEMMA RowsCommitWrite ==
  ASSUME Rows, NEW g \in Gens, CommitWrite(g) PROVE Rows'
<1> DEFINE v == run[g].base + 1
           body == BodyOf(g, run[g].buffer)
<1> USE DEF noteVars, requestVars
<1>0. run[g].base \in Nat /\ run[g].buffer \in Text BY DEF Rows, Run
<1>1. CASE Gone \/ RowGone(g) \/ VersionTaken(v)
  <2>1. run' \in [Gens -> Run] BY <1>1, EscapeTyped DEF CommitWrite, Class, Rows
  <2> QED BY <1>1, <2>1 DEF CommitWrite, Rows
<1>2. CASE ~(Gone \/ RowGone(g) \/ VersionTaken(v))
  <2>1. body \in Body BY <1>0 DEF BodyOf, Body
  <2>2. [body |-> body, gen |-> g, batch |-> NoBatch, saw |-> run[g].base] \in Version
    BY <1>0, <2>1 DEF Version
  <2>3. versions' \in Seq(Version) BY <1>2, <2>2 DEF CommitWrite, Rows
  <2>4. note' \in Note
    <3>1. note' = [note EXCEPT !.status = "ready", !.version = v, !.body = body]
      BY <1>2 DEF CommitWrite
    <3>2. v \in Nat BY <1>0
    <3> HIDE DEF body, v
    <3> QED BY <3>1, <3>2, <2>1, NoteTyped DEF NoteStatus, Rows
  <2>5. gens' \in [Gens -> Generation] BY <1>2, SucceededTyped DEF CommitWrite
  <2>6. run' \in [Gens -> Run] BY <1>2, GotoTyped DEF CommitWrite, RunPc, Rows
  <2> QED BY <2>3, <2>4, <2>5, <2>6 DEF CommitWrite, Rows
<1> QED BY <1>1, <1>2

\* A step of the handler of a generation.
LEMMA RowsHandler ==
  ASSUME Rows, NEW g \in Gens, Handler(g) PROVE Rows'
<1> USE DEF Rows, noteVars, requestVars, handlerVars
<1>1. CASE Load(g)
  <2>1. run' \in [Gens -> Run] BY <1>1, StartRunTyped DEF Load, RunPc
  <2> QED BY <1>1, <2>1 DEF Load
<1>2. CASE Return(g) BY <1>2, EndRunTyped DEF Return
<1>3. CASE Prepare(g)
  <2>1. run' \in [Gens -> Run] BY <1>3, GotoTyped DEF Prepare, RunPc
  <2> QED BY <1>3, <2>1 DEF Prepare
<1>4. CASE Refuse(g)
  <2>1. run' \in [Gens -> Run] BY <1>4, EscapeTyped DEF Refuse, Class
  <2> QED BY <1>4, <2>1 DEF Refuse
<1>5. CASE MarkStreaming(g)
  <2>1. run' \in [Gens -> Run] BY <1>5, GotoTyped DEF MarkStreaming, RunPc
  <2>2. gens' \in [Gens -> Generation] BY <1>5 DEF MarkStreaming, Generation, GenStatus
  <2> QED BY <1>5, <2>1, <2>2 DEF MarkStreaming
<1>6. CASE MarkGenerating(g)
  <2>1. run' \in [Gens -> Run] BY <1>6, GotoTyped DEF MarkGenerating, RunPc
  <2>2. note' \in Note BY <1>6 DEF MarkGenerating, Note, NoteStatus
  <2> QED BY <1>6, <2>1, <2>2 DEF MarkGenerating
<1>7. CASE Chunk(g)
  <2>1. PICK due \in BOOLEAN :
          run' = [run EXCEPT ![g].buffer = Append(@, gens[g].attempt),
                             ![g].pc = IF due THEN "flush" ELSE "stream"]
    BY <1>7 DEF Chunk
  <2>2. Append(run[g].buffer, gens[g].attempt) \in Text BY DEF Text, Run, Generation
  <2>3. run' \in [Gens -> Run] BY <2>1, <2>2 DEF Run, RunPc
  <2> QED BY <1>7, <2>3 DEF Chunk
<1>8. CASE Flush(g)
  <2>1. run' \in [Gens -> Run] BY <1>8, GotoTyped DEF Flush, RunPc
  <2>2. run[g].buffer \in Text BY DEF Run
  <2>3. gens' \in [Gens -> Generation] BY <1>8, <2>2 DEF Flush, Generation
  <2> QED BY <1>8, <2>1, <2>3 DEF Flush
<1>9. CASE RateLimit(g) BY <1>9, EndRunTyped DEF RateLimit
<1>10. CASE StreamEnds(g)
  <2>1. run' \in [Gens -> Run] BY <1>10, GotoTyped, EscapeTyped DEF StreamEnds, RunPc, Class
  <2> QED BY <1>10, <2>1 DEF StreamEnds
<1>11. CASE CommitRead(g)
  <2>1. CASE g \in Previews \/ ~Visible \/ note.status = "deleting"
    <3>1. run' \in [Gens -> Run] BY <1>11, <2>1, GotoTyped DEF CommitRead, RunPc
    <3>2. gens' \in [Gens -> Generation] BY <1>11, <2>1, SucceededTyped DEF CommitRead
    <3> QED BY <1>11, <3>1, <3>2 DEF CommitRead
  <2>2. CASE ~(g \in Previews \/ ~Visible \/ note.status = "deleting")
    <3>1. run' = [run EXCEPT ![g].pc = "commitWrite", ![g].base = note.version] /\ UNCHANGED gens
      BY <1>11, <2>2 DEF CommitRead
    <3>2. note.version \in Nat BY DEF Note
    <3>3. run' \in [Gens -> Run] BY <3>1, <3>2 DEF Run, RunPc
    <3> QED BY <1>11, <3>1, <3>3 DEF CommitRead
  <2> QED BY <2>1, <2>2
<1>12. CASE CommitWrite(g) BY <1>12, RowsCommitWrite
<1>13. CASE Announce(g)
  <2>1. run' \in [Gens -> Run] BY <1>13, GotoTyped DEF Announce, RunPc
  <2> QED BY <1>13, <2>1 DEF Announce
<1>14. CASE Throw(g)
  <2>1. run' \in [Gens -> Run] BY <1>14, EscapeTyped DEF Throw, Class
  <2> QED BY <1>14, <2>1 DEF Throw
<1>15. CASE FailGeneration(g)
  <2>1. run' \in [Gens -> Run] BY <1>15, GotoTyped DEF FailGeneration, RunPc
  <2>2. gens' \in [Gens -> Generation] BY <1>15, StatusTyped DEF FailGeneration, GenStatus
  <2> QED BY <1>15, <2>1, <2>2 DEF FailGeneration
<1>16. CASE FailNote(g)
  <2>1. run' \in [Gens -> Run] BY <1>16, GotoTyped DEF FailNote, RunPc
  <2>2. note' \in Note BY <1>16 DEF FailNote, Note, NoteStatus
  <2> QED BY <1>16, <2>1, <2>2 DEF FailNote
<1>17. CASE FailureUnrecorded(g) BY <1>17, EndRunTyped DEF FailureUnrecorded
<1>18. CASE Reap(g) BY <1>18 DEF Reap
<1> QED
  BY <1>1, <1>2, <1>3, <1>4, <1>5, <1>6, <1>7, <1>8, <1>9, <1>10, <1>11, <1>12, <1>13, <1>14,
     <1>15, <1>16, <1>17, <1>18 DEF Handler

\* An answer is a well formed request.
LEMMA ReplyTyped ==
  ASSUME save \in [Saves -> Request], NEW s \in Saves,
         NEW answer \in {"gone", "generating", "replayed", "stale", "saved", "lost"},
         Reply(s, answer)
  PROVE  save' \in [Saves -> Request]
<1>1. Answered(save[s], answer) \in Request BY EmptyText DEF Answered, NoSave, Request
<1> QED BY <1>1 DEF Reply

\* A step of a save or restore.
LEMMA RowsSave ==
  ASSUME Rows, NEW s \in Saves, SaveStep(s) PROVE Rows'
<1> USE DEF Rows, noteVars, handlerVars
<1>1. CASE SaveRead(s)
  <2> DEFINE req(d) ==
        IF ~Visible \/ note.status = "deleting" THEN Answered(d, "gone")
        ELSE IF note.status = "generating" THEN Answered(d, "generating")
        ELSE [pc |-> "lookup", batch |-> d.batch, base |-> d.base, body |-> SaveBody(d.batch),
              saw |-> note.version, status |-> note.status, answer |-> "none"]
  <2>1. PICK d \in Drafts : save' = [save EXCEPT ![s] = req(d)] BY <1>1 DEF SaveRead
  <2>2. d.batch \in Batches /\ d.base \in Nat BY <2>1 DEF Drafts, Request, Note
  <2>3. SaveBody(d.batch) \in Body BY <2>2, EmptyText DEF SaveBody, Body
  <2>4. req(d) \in Request BY <2>2, <2>3, EmptyText DEF Answered, NoSave, Request, Note
  <2>5. save' \in [Saves -> Request] BY <2>1, <2>4
  <2> QED BY <1>1, <2>5 DEF SaveRead
<1>2. CASE SaveLookup(s)
  <2>1. CASE Reply(s, "replayed") \/ Reply(s, "stale") BY <1>2, <2>1, ReplyTyped DEF SaveLookup
  <2>2. CASE save' = [save EXCEPT ![s].pc = "write"]
    <3>1. save' \in [Saves -> Request] BY <2>2 DEF Request
    <3> QED BY <1>2, <3>1 DEF SaveLookup
  <2> QED BY <1>2, <2>1, <2>2 DEF SaveLookup
<1>3. CASE RestoreRead(s)
  <2> DEFINE req(v) == [NoSave EXCEPT !.pc = "write", !.body = versions[v].body,
                                      !.base = note.version, !.saw = note.version,
                                      !.status = note.status]
  <2>1. PICK v \in 1..(Len(versions) - 1) : save' = [save EXCEPT ![s] = req(v)]
    BY <1>3 DEF RestoreRead
  <2>2. versions[v] \in Version BY <2>1
  <2>3. versions[v].body \in Body BY <2>2 DEF Version
  <2>4. req(v) \in Request BY <2>3 DEF NoSave, Request, Note
  <2>5. save' \in [Saves -> Request] BY <2>1, <2>4
  <2> QED BY <1>3, <2>5 DEF RestoreRead
<1>4. CASE SaveWrite(s)
  <2>1. CASE Visible /\ note.version = save[s].saw
    <3>0. save[s] \in Request OBVIOUS
    <3>1. [body |-> save[s].body, gen |-> NoGen, batch |-> save[s].batch, saw |-> save[s].saw]
            \in Version
      BY <3>0 DEF Version, Request
    <3>2. versions' \in Seq(Version) BY <1>4, <2>1, <3>1 DEF SaveWrite
    <3>3. note' \in Note
      <4>1. note' = [note EXCEPT !.status = IF save[s].status = "failed" THEN "ready" ELSE note.status,
                                 !.version = note.version + 1, !.body = save[s].body]
        BY <1>4, <2>1 DEF SaveWrite, Note
      <4>2. save[s].body \in Body /\ note.version + 1 \in Nat BY <3>0 DEF Request, Note
      <4>3. (IF save[s].status = "failed" THEN "ready" ELSE note.status) \in NoteStatus
        BY DEF Note, NoteStatus
      <4> QED BY <4>1, <4>2, <4>3, NoteTyped
    <3>4. save' \in [Saves -> Request] BY <1>4, <2>1, ReplyTyped DEF SaveWrite
    <3> QED BY <1>4, <3>2, <3>3, <3>4 DEF SaveWrite
  <2>2. CASE ~(Visible /\ note.version = save[s].saw) BY <1>4, <2>2, ReplyTyped DEF SaveWrite
  <2> QED BY <2>1, <2>2
<1> QED BY <1>1, <1>2, <1>3, <1>4 DEF SaveStep

\* and every step keeps them so.
LEMMA RowsNext == Rows /\ [Next]_vars => Rows'
<1> SUFFICES ASSUME Rows, [Next]_vars PROVE Rows' OBVIOUS
<1> USE DEF noteVars, requestVars, handlerVars
<1>1. CASE \E g \in Gens : \/ RegenerateAsk(g) \/ RegenerateQueue(g)
                           \/ PreviewQueue(g) \/ PreviewExpire(g) \/ Handler(g)
  BY <1>1, RowsAsk, RowsHandler
<1>2. CASE \E s \in Saves : SaveStep(s) BY <1>2, RowsSave
<1>3. CASE RemoveAsk BY <1>3, RowsIdle DEF RemoveAsk
<1>4. CASE RemoveMark
  <2>1. note' \in Note BY <1>4 DEF RemoveMark, Rows, Note, NoteStatus
  <2> QED BY <1>4, <2>1 DEF RemoveMark, Rows
<1>5. CASE RemoveEnqueue BY <1>5, RowsIdle DEF RemoveEnqueue
<1>6. CASE PurgeNote
  <2>1. note' \in Note BY <1>6, EmptyText DEF PurgeNote, Rows, Note, NoteStatus
  <2>2. gens' \in [Gens -> Generation] BY <1>6 DEF PurgeNote, Rows, Generation, GenStatus
  <2> QED BY <1>6, <2>1, <2>2 DEF PurgeNote, Rows
<1>7. CASE PurgeClaim \/ PurgeThrows \/ ReapPurge
  BY <1>7, RowsIdle DEF PurgeClaim, PurgeThrows, ReapPurge
<1>8. CASE RequeueStalledPurges BY <1>8, RowsIdle DEF RequeueStalledPurges
<1>9. CASE \E r \in Readers : Reader(r) \/ ReaderSuffers(r)
  BY <1>9, RowsIdle DEF Reader, ReaderSuffers, ReaderConnects, ReaderPolls, ReaderReceives
<1>10. CASE Crash
  <2>1. run' \in [Gens -> Run] BY <1>10, NoRunTyped DEF Crash
  <2>2. \A s \in Saves : Answered(save[s], "lost") \in Request
    BY EmptyText DEF Answered, NoSave, Rows, Request
  <2>3. save' \in [Saves -> Request] BY <1>10, <2>2 DEF Crash, Rows
  <2> QED BY <1>10, <2>1, <2>3 DEF Crash, Rows
<1>11. CASE UNCHANGED vars BY <1>11, RowsIdle DEF vars
<1> QED
  BY <1>1, <1>2, <1>3, <1>4, <1>5, <1>6, <1>7, <1>8, <1>9, <1>10, <1>11 DEF Next, PurgeJob

\* In every reachable state the rows hold only what their columns can.
THEOREM RowsHold == Spec => []Rows
BY RowsInit, RowsNext, PTL DEF Spec

-------------------------------------------------------------------------------
(* The history.                                                            *)

\* What the log sees does not move.
Steady ==
  /\ UNCHANGED <<versions, note.version, note.body>>
  /\ Gone' <=> Gone
  /\ note.removed => note'.removed
  /\ note'.status = "deleting" => note'.removed \/ note.status = "deleting"

\* No handler is about to commit on a version other than the note's, unless it was before.
KeepsBase ==
  \A h \in Gens : run'[h].pc = "commitWrite" =>
    \/ run[h].pc = "commitWrite" /\ run'[h].base = run[h].base
    \/ run'[h].base = note.version

\* A step that leaves the note and its versions leaves the log.
LEMMA NoteGoesOn ==
  ASSUME UNCHANGED noteVars PROVE Steady
BY DEF noteVars, Steady, Gone

\* A step that leaves the handlers leaves their commits,
LEMMA RunsGoOn ==
  ASSUME UNCHANGED run PROVE KeepsBase
BY DEF KeepsBase

\* and so does one that sends a handler anywhere but to the write of its commit.
LEMMA GotoKeeps ==
  ASSUME run \in [Gens -> Run], NEW g \in Gens, NEW pc, pc # "commitWrite",
         Goto(g, pc) \/ StartRun(g, pc) \/ Escape(g, pc) \/ EndRun(g)
  PROVE  KeepsBase
<1>1. CASE Goto(g, pc) BY <1>1 DEF Goto, KeepsBase, Run
<1>2. CASE StartRun(g, pc) BY <1>2 DEF StartRun, KeepsBase, Run, NoRun
<1>3. CASE Escape(g, pc) BY <1>3 DEF Escape, KeepsBase, Run
<1>4. CASE EndRun(g) BY <1>4 DEF EndRun, KeepsBase, Run, NoRun
<1> QED BY <1>1, <1>2, <1>3, <1>4

\* The requests that queue generations leave the log.
LEMMA AskSteady ==
  ASSUME Rows, NEW g \in Gens,
         RegenerateAsk(g) \/ RegenerateQueue(g) \/ PreviewQueue(g) \/ PreviewExpire(g)
  PROVE  Steady /\ KeepsBase
<1> USE DEF Rows
<1>1. CASE RegenerateAsk(g) BY <1>1, NoteGoesOn, GotoKeeps DEF RegenerateAsk
<1>2. CASE RegenerateQueue(g)
  <2>1. KeepsBase BY <1>2, GotoKeeps DEF RegenerateQueue
  <2>2. Steady BY <1>2 DEF RegenerateQueue, Steady, Gone, Note
  <2> QED BY <2>1, <2>2
<1>3. CASE PreviewQueue(g) BY <1>3, NoteGoesOn, RunsGoOn DEF PreviewQueue
<1>4. CASE PreviewExpire(g) BY <1>4, NoteGoesOn, RunsGoOn DEF PreviewExpire
<1> QED BY <1>1, <1>2, <1>3, <1>4

\* Of all the steps of a handler, only the write of its commit moves the log.
LEMMA HandlerSteady ==
  ASSUME Rows, NEW g \in Gens, Handler(g), ~CommitWrite(g)
  PROVE  Steady /\ KeepsBase
<1> USE DEF Rows
<1>1. CASE Load(g) BY <1>1, NoteGoesOn, GotoKeeps DEF Load
<1>2. CASE Return(g) BY <1>2, NoteGoesOn, GotoKeeps DEF Return
<1>3. CASE Prepare(g) BY <1>3, NoteGoesOn, GotoKeeps DEF Prepare
<1>4. CASE Refuse(g) BY <1>4, NoteGoesOn, GotoKeeps DEF Refuse
<1>5. CASE MarkStreaming(g) BY <1>5, NoteGoesOn, GotoKeeps DEF MarkStreaming
<1>6. CASE MarkGenerating(g)
  <2>1. KeepsBase BY <1>6, GotoKeeps DEF MarkGenerating
  <2>2. Steady BY <1>6 DEF MarkGenerating, Steady, Visible, Gone, Note
  <2> QED BY <2>1, <2>2
<1>7. CASE Chunk(g)
  <2>1. KeepsBase BY <1>7 DEF Chunk, KeepsBase, Run
  <2> QED BY <1>7, <2>1, NoteGoesOn DEF Chunk
<1>8. CASE Flush(g) BY <1>8, NoteGoesOn, GotoKeeps DEF Flush
<1>9. CASE RateLimit(g) BY <1>9, NoteGoesOn, GotoKeeps DEF RateLimit
<1>10. CASE StreamEnds(g) BY <1>10, NoteGoesOn, GotoKeeps DEF StreamEnds
<1>11. CASE CommitRead(g)
  <2>1. CASE g \in Previews \/ ~Visible \/ note.status = "deleting"
    BY <1>11, <2>1, NoteGoesOn, GotoKeeps DEF CommitRead
  <2>2. CASE ~(g \in Previews \/ ~Visible \/ note.status = "deleting")
    <3>1. run' = [run EXCEPT ![g].pc = "commitWrite", ![g].base = note.version]
      BY <1>11, <2>2 DEF CommitRead
    <3>2. KeepsBase BY <3>1 DEF KeepsBase, Run
    <3> QED BY <1>11, <3>2, NoteGoesOn DEF CommitRead
  <2> QED BY <2>1, <2>2
<1>12. CASE Announce(g) BY <1>12, NoteGoesOn, GotoKeeps DEF Announce
<1>13. CASE Throw(g) BY <1>13, NoteGoesOn, GotoKeeps DEF Throw
<1>14. CASE FailGeneration(g) BY <1>14, NoteGoesOn, GotoKeeps DEF FailGeneration
<1>15. CASE FailNote(g)
  <2>1. KeepsBase BY <1>15, GotoKeeps DEF FailNote
  <2>2. Steady BY <1>15 DEF FailNote, Steady, Visible, Gone, Note
  <2> QED BY <2>1, <2>2
<1>16. CASE FailureUnrecorded(g) BY <1>16, NoteGoesOn, GotoKeeps DEF FailureUnrecorded
<1>17. CASE Reap(g) BY <1>17, NoteGoesOn, RunsGoOn DEF Reap, handlerVars
<1> QED
  BY <1>1, <1>2, <1>3, <1>4, <1>5, <1>6, <1>7, <1>8, <1>9, <1>10, <1>11, <1>12, <1>13, <1>14,
     <1>15, <1>16, <1>17 DEF Handler

\* Of all the steps of the system, only three move the log.
LEMMA OtherStepsSteady ==
  ASSUME Rows, [Next]_vars,
         \A g \in Gens : ~CommitWrite(g), \A s \in Saves : ~SaveWrite(s), ~PurgeNote
  PROVE  Steady /\ KeepsBase
<1> USE DEF handlerVars
<1>1. CASE \E g \in Gens : \/ RegenerateAsk(g) \/ RegenerateQueue(g)
                           \/ PreviewQueue(g) \/ PreviewExpire(g) \/ Handler(g)
  BY <1>1, AskSteady, HandlerSteady
<1>2. CASE \E s \in Saves : SaveStep(s)
  BY <1>2, NoteGoesOn, RunsGoOn DEF SaveStep, SaveRead, SaveLookup, RestoreRead
<1>3. CASE RemoveAsk BY <1>3, NoteGoesOn, RunsGoOn DEF RemoveAsk
<1>4. CASE RemoveMark BY <1>4, RunsGoOn DEF RemoveMark, Steady, Gone, Rows, Note
<1>5. CASE RemoveEnqueue BY <1>5, NoteGoesOn, RunsGoOn DEF RemoveEnqueue
<1>6. CASE PurgeClaim \/ PurgeThrows \/ ReapPurge
  BY <1>6, NoteGoesOn, RunsGoOn DEF PurgeClaim, PurgeThrows, ReapPurge
<1>7. CASE RequeueStalledPurges BY <1>7, NoteGoesOn, RunsGoOn DEF RequeueStalledPurges
<1>8. CASE \E r \in Readers : Reader(r) \/ ReaderSuffers(r)
  BY <1>8, NoteGoesOn, RunsGoOn
  DEF Reader, ReaderSuffers, ReaderConnects, ReaderPolls, ReaderReceives
<1>9. CASE Crash
  <2>1. KeepsBase BY <1>9 DEF Crash, KeepsBase, NoRun
  <2> QED BY <1>9, <2>1, NoteGoesOn DEF Crash
<1>10. CASE UNCHANGED vars BY <1>10, NoteGoesOn, RunsGoOn DEF vars, noteVars
<1> QED
  BY <1>1, <1>2, <1>3, <1>4, <1>5, <1>6, <1>7, <1>8, <1>9, <1>10 DEF Next, PurgeJob

\* A commit finds the version it has read taken, or appends to the very history it read.
LEMMA CommitAppends ==
  ASSUME Rows, HistoryInv, NEW g \in Gens, CommitWrite(g),
         ~(Gone \/ RowGone(g) \/ VersionTaken(run[g].base + 1))
  PROVE  run[g].base = Len(versions)
<1>1. Len(versions) \in Nat BY LenProperties DEF Rows
<1>2. run[g].base \in Nat BY DEF Rows, Run
<1>3. run[g].base <= Len(versions) BY DEF HistoryInv, CommitWrite
<1>4. ~(run[g].base + 1 <= Len(versions)) BY DEF VersionTaken
<1> QED BY <1>1, <1>2, <1>3, <1>4

\* HistoryInv holds of a note just created, or of none,
LEMMA HistoryInit == Init => HistoryInv
BY EmptySeq DEF Init, HistoryInv, Gone, NoRun

\* and every step keeps it.
LEMMA HistoryNext == Rows /\ HistoryInv /\ [Next]_vars => HistoryInv'
<1> SUFFICES ASSUME Rows, HistoryInv, [Next]_vars PROVE HistoryInv' OBVIOUS
<1>0. Len(versions) \in Nat BY LenProperties DEF Rows
<1>1. ASSUME Steady, KeepsBase PROVE HistoryInv'
  <2>1. note'.version = Len(versions') BY <1>1 DEF HistoryInv, Steady
  <2>2. Gone' => versions' = <<>> /\ note'.body = <<>> BY <1>1 DEF HistoryInv, Steady
  <2>3. ASSUME NEW h \in Gens, run'[h].pc = "commitWrite", ~Gone'
        PROVE  run'[h].base <= Len(versions')
    BY <1>0, <1>1, <2>3 DEF HistoryInv, Steady, KeepsBase
  <2> QED BY <2>1, <2>2, <2>3 DEF HistoryInv, Gone
<1>2. ASSUME NEW g \in Gens, CommitWrite(g) PROVE HistoryInv'
  <2>1. CASE Gone \/ RowGone(g) \/ VersionTaken(run[g].base + 1)
    <3>1. Steady BY <1>2, <2>1, NoteGoesOn DEF CommitWrite
    <3>2. KeepsBase BY <1>2, <2>1, GotoKeeps DEF CommitWrite, Rows
    <3> QED BY <3>1, <3>2, <1>1
  <2>2. CASE ~(Gone \/ RowGone(g) \/ VersionTaken(run[g].base + 1))
    <3>1. run[g].base = Len(versions) BY <1>2, <2>2, CommitAppends
    <3>2. Len(versions') = Len(versions) + 1 BY <1>2, <2>2 DEF CommitWrite, Rows
    <3>3. note'.version = Len(versions) + 1 /\ note'.status = "ready"
      BY <1>2, <2>2, <3>1 DEF CommitWrite, Rows, Note
    <3>4. KeepsBase BY <1>2, <2>2, GotoKeeps DEF CommitWrite, Rows
    <3>5. ASSUME NEW h \in Gens, run'[h].pc = "commitWrite"
          PROVE  run'[h].base <= Len(versions')
      BY <1>0, <2>2, <3>2, <3>4, <3>5 DEF KeepsBase, HistoryInv, Rows, Run
    <3> QED BY <3>2, <3>3, <3>5 DEF HistoryInv, Gone
  <2> QED BY <2>1, <2>2
<1>3. ASSUME NEW s \in Saves, SaveWrite(s) PROVE HistoryInv'
  <2>1. UNCHANGED run BY <1>3 DEF SaveWrite, handlerVars
  <2>2. CASE Visible /\ note.version = save[s].saw
    <3>1. Len(versions') = Len(versions) + 1 BY <1>3, <2>2 DEF SaveWrite, Rows
    <3>2. note'.version = Len(versions) + 1 BY <1>3, <2>2 DEF SaveWrite, Rows, Note, HistoryInv
    <3>3. ~Gone /\ ~Gone' BY <1>3, <2>2 DEF SaveWrite, Rows, Note, Visible, Gone
    <3>4. ASSUME NEW h \in Gens, run'[h].pc = "commitWrite"
          PROVE  run'[h].base <= Len(versions')
      BY <1>0, <2>1, <3>1, <3>3, <3>4 DEF HistoryInv, Rows, Run
    <3> QED BY <3>1, <3>2, <3>3, <3>4 DEF HistoryInv, Gone
  <2>3. CASE ~(Visible /\ note.version = save[s].saw)
    BY <1>1, <1>3, <2>1, <2>3, NoteGoesOn, RunsGoOn DEF SaveWrite
  <2> QED BY <2>2, <2>3
<1>4. CASE PurgeNote BY <1>4, EmptySeq DEF PurgeNote, HistoryInv, Gone, Rows, Note
<1> QED BY <1>1, <1>2, <1>3, <1>4, OtherStepsSteady

-------------------------------------------------------------------------------
(* The refinement.                                                         *)

\* The log's view of a sequence of versions.
LogOf(vs) == [i \in 1..Len(vs) |-> [body |-> vs[i].body, saw |-> vs[i].saw]]

\* No versions, no log.
LEMMA LogOfEmpty == LogOf(<<>>) = <<>>
BY EmptySeq DEF LogOf

\* The log of a history with one more version is the log with one more entry.
LEMMA LogOfAppend ==
  ASSUME NEW vs \in Seq(Version), NEW x \in Version
  PROVE  LogOf(Append(vs, x)) = Append(LogOf(vs), [body |-> x.body, saw |-> x.saw])
<1> DEFINE Entry == [body : Body, saw : Nat]
           y     == [body |-> x.body, saw |-> x.saw]
<1>0. Len(vs) \in Nat BY LenProperties
<1>1. Len(vs) \in Nat /\ \A i \in 1..Len(vs) : vs[i] \in Version BY LenProperties, ElementOfSeq
<1>2. y \in Entry BY DEF Version
<1>3. LogOf(vs) \in Seq(Entry) /\ Len(LogOf(vs)) = Len(vs) BY <1>1 DEF LogOf, Version
<1>4. Append(vs, x) \in Seq(Version) /\ Len(Append(vs, x)) = Len(vs) + 1
  BY <1>1
<1>5. \A i \in 1..(Len(vs) + 1) : Append(vs, x)[i] \in Version
  BY <1>4, ElementOfSeq
<1>6. LogOf(Append(vs, x)) \in Seq(Entry) /\ Len(LogOf(Append(vs, x))) = Len(vs) + 1
  BY <1>1, <1>4, <1>5 DEF LogOf, Version
<1>7. Append(LogOf(vs), y) \in Seq(Entry) /\ Len(Append(LogOf(vs), y)) = Len(vs) + 1
  BY <1>2, <1>3
<1>8. ASSUME NEW i \in 1..(Len(vs) + 1)
      PROVE  LogOf(Append(vs, x))[i] = Append(LogOf(vs), y)[i]
  <2>1. CASE i <= Len(vs)
    <3>1. Append(vs, x)[i] = vs[i] BY <1>1, <2>1
    <3>2. Append(LogOf(vs), y)[i] = LogOf(vs)[i] BY <1>1, <1>2, <1>3, <2>1
    <3> QED BY <1>1, <1>4, <2>1, <3>1, <3>2 DEF LogOf
  <2>2. CASE i = Len(vs) + 1
    <3>1. Append(vs, x)[i] = x BY <1>1, <2>2
    <3>2. Append(LogOf(vs), y)[i] = y BY <1>1, <1>2, <1>3, <2>2
    <3> QED BY <1>1, <1>4, <2>2, <3>1, <3>2 DEF LogOf
  <2>3. i <= Len(vs) \/ i = Len(vs) + 1 BY <1>0
  <2> QED BY <2>1, <2>2, <2>3
<1> HIDE DEF Entry, y
<1>9. LogOf(Append(vs, x)) = Append(LogOf(vs), y) BY <1>6, <1>7, <1>8, SeqEqual
<1> QED BY <1>9 DEF y

\* A new version is a write of the log, if whoever wrote it knew the whole history and the
\* note shows it now.
LEMMA AppendIsWrite ==
  ASSUME versions \in Seq(Version), NEW x \in Version, versions' = Append(versions, x),
         note'.body = x.body, x.saw = Len(versions), ~Gone, ~Gone'
  PROVE  Log!Write
<1>1. LogOf(versions') = Append(LogOf(versions), [body |-> note'.body, saw |-> Len(versions)])
  BY LogOfAppend
<1>2. Len(LogOf(versions)) = Len(versions) BY LenProperties DEF LogOf
<1> QED BY <1>1, <1>2 DEF Log!Write, LogOf

\* A note just created is an empty log,
LEMMA LogInit == Init => Log!Init
BY LogOfEmpty DEF Init, Log!Init, LogOf, Gone

\* and every step is one of the log's, or none.
LEMMA LogNext == Rows /\ HistoryInv /\ [Next]_vars => [Log!Next]_(Log!logVars)
<1> SUFFICES ASSUME Rows, HistoryInv, [Next]_vars PROVE [Log!Next]_(Log!logVars) OBVIOUS
<1>1. ASSUME Steady PROVE UNCHANGED Log!logVars
  BY <1>1 DEF Steady, Log!logVars, Gone
<1>2. ASSUME NEW g \in Gens, CommitWrite(g) PROVE Log!Write \/ UNCHANGED Log!logVars
  <2>1. CASE Gone \/ RowGone(g) \/ VersionTaken(run[g].base + 1)
    BY <1>1, <1>2, <2>1, NoteGoesOn DEF CommitWrite
  <2>2. CASE ~(Gone \/ RowGone(g) \/ VersionTaken(run[g].base + 1))
    <3> DEFINE x == [body |-> BodyOf(g, run[g].buffer), gen |-> g, batch |-> NoBatch,
                     saw |-> run[g].base]
    <3>1. run[g].base \in Nat /\ run[g].buffer \in Text BY DEF Rows, Run
    <3>2. BodyOf(g, run[g].buffer) \in Body BY <3>1 DEF BodyOf, Body
    <3>3. x \in Version BY <3>1, <3>2 DEF Version
    <3>4. versions' = Append(versions, x) BY <1>2, <2>2 DEF CommitWrite
    <3>5. x.saw = Len(versions) BY <1>2, <2>2, CommitAppends
    <3>6. note'.body = x.body /\ ~Gone' BY <1>2, <2>2 DEF CommitWrite, Rows, Note, Gone
    <3> HIDE DEF x
    <3> QED BY <2>2, <3>3, <3>4, <3>5, <3>6, AppendIsWrite DEF Rows
  <2> QED BY <2>1, <2>2
<1>3. ASSUME NEW s \in Saves, SaveWrite(s) PROVE Log!Write \/ UNCHANGED Log!logVars
  <2>1. CASE Visible /\ note.version = save[s].saw
    <3> DEFINE x == [body |-> save[s].body, gen |-> NoGen, batch |-> save[s].batch,
                     saw |-> save[s].saw]
    <3>1. save[s] \in Request BY DEF Rows
    <3>2. x \in Version BY <3>1 DEF Version, Request
    <3>3. versions' = Append(versions, x) BY <1>3, <2>1 DEF SaveWrite
    <3>4. x.saw = Len(versions) BY <2>1 DEF HistoryInv
    <3>5. note'.body = x.body BY <1>3, <2>1 DEF SaveWrite, Rows, Note
    <3>6. ~Gone /\ ~Gone' BY <1>3, <2>1 DEF SaveWrite, Rows, Note, Visible, Gone
    <3> HIDE DEF x
    <3> QED BY <3>2, <3>3, <3>4, <3>5, <3>6, AppendIsWrite DEF Rows
  <2>2. CASE ~(Visible /\ note.version = save[s].saw)
    BY <1>1, <1>3, <2>2, NoteGoesOn DEF SaveWrite
  <2> QED BY <2>1, <2>2
<1>4. CASE PurgeNote
  <2>1. versions' = <<>> /\ note'.body = <<>> /\ Gone'
    BY <1>4 DEF PurgeNote, Rows, Note, Gone
  <2>2. CASE Gone BY <2>1, <2>2 DEF HistoryInv, Log!logVars, Gone
  <2>3. CASE ~Gone
    <3>1. LogOf(versions') = <<>> BY <2>1, LogOfEmpty
    <3> QED BY <2>1, <2>3, <3>1 DEF Log!Next, Log!Erase, LogOf, Gone
  <2> QED BY <2>2, <2>3
<1> QED BY <1>1, <1>2, <1>3, <1>4, OtherStepsSteady DEF Log!Next

\* The history of a note is a version log, whatever its generations, its owner, the removal
\* and the crashes do and in whatever order they interleave: no writer forks it, rewrites it
\* or writes over a version it has not read, and the note shows its last version.
THEOREM HistoryIsALogHolds == Spec => HistoryIsALog
<1>1. Log!Init /\ [][Log!Next]_(Log!logVars) => Log!Spec BY DEF Log!Spec
<1> QED
  BY RowsInit, RowsNext, HistoryInit, HistoryNext, LogInit, LogNext, PTL
  DEF Spec, HistoryIsALog, Log!Spec

-------------------------------------------------------------------------------
(* Commits and notices.                                                    *)

\* A handler that has not committed.
Uncommitted == {"prepare", "mark", "markNote", "stream", "flush", "commit", "commitWrite", "failGen"}

\* Where a generation stands, its handler and what the owner was told of it agree.
Outcome(g) ==
  /\ run[g].pc = "asked" => g \notin Previews /\ gens[g].status = "none"
  /\ run[g].pc \in Uncommitted => gens[g].status # "succeeded"
  /\ run[g].pc = "announce" => gens[g].status \in {"succeeded", "gone"}
  /\ run[g].pc = "failNote" => gens[g].status \in {"failed", "gone"}
  /\ told[g] # <<>> => run[g].pc \in {"idle", "return"}
  /\ \/ told[g] = <<>>
     \/ told[g] = <<"ready">> /\ gens[g].status \in {"succeeded", "gone"}
     \/ told[g] = <<"failed">> /\ gens[g].status \in {"failed", "gone"}

Notices == {<<>>, <<"ready">>, <<"failed">>}

OutcomeInv == told \in [Gens -> Notices] /\ \A g \in Gens : Outcome(g)

\* What a step of g's handler does to another generation: nothing.
Untouched(h) == run'[h] = run[h] /\ told'[h] = told[h] /\ gens'[h] = gens[h]

\* A generation nobody touched keeps its outcome.
LEMMA UntouchedOutcome ==
  ASSUME NEW h \in Gens, Outcome(h), Untouched(h) PROVE Outcome(h)'
BY DEF Outcome, Untouched

\* Nobody has been told anything to begin with.
LEMMA OutcomeInit == Init => OutcomeInv
BY DEF Init, Notices, OutcomeInv, Outcome, NoRun, Uncommitted

\* Where a handler goes, and that the others stay.
LEMMA PcAfter ==
  ASSUME run \in [Gens -> Run], NEW g \in Gens, NEW x
  PROVE  /\ Goto(g, x) => run'[g].pc = x /\ \A h \in Gens \ {g} : run'[h] = run[h]
         /\ StartRun(g, x) => run'[g].pc = x /\ \A h \in Gens \ {g} : run'[h] = run[h]
         /\ Escape(g, x) => run'[g].pc = "failGen" /\ \A h \in Gens \ {g} : run'[h] = run[h]
         /\ EndRun(g) => run'[g].pc = "idle" /\ \A h \in Gens \ {g} : run'[h] = run[h]
<1>1. Goto(g, x) => run'[g].pc = x /\ \A h \in Gens \ {g} : run'[h] = run[h]
  BY DEF Goto, Run
<1>2. StartRun(g, x) => run'[g].pc = x /\ \A h \in Gens \ {g} : run'[h] = run[h]
  BY DEF StartRun, NoRun
<1>3. Escape(g, x) => run'[g].pc = "failGen" /\ \A h \in Gens \ {g} : run'[h] = run[h]
  BY DEF Escape, Run
<1>4. EndRun(g) => run'[g].pc = "idle" /\ \A h \in Gens \ {g} : run'[h] = run[h]
  BY DEF EndRun, NoRun
<1> QED BY <1>1, <1>2, <1>3, <1>4

\* What a generation's new status leaves alone.
LEMMA StatusAfter ==
  ASSUME gens \in [Gens -> Generation], NEW g \in Gens, NEW x
  PROVE  /\ gens' = [gens EXCEPT ![g].status = x]
              => gens'[g].status = x /\ \A h \in Gens \ {g} : gens'[h] = gens[h]
         /\ gens' = Succeeded(g)
              => gens'[g].status = "succeeded" /\ \A h \in Gens \ {g} : gens'[h] = gens[h]
BY DEF Generation, Succeeded

\* A step of g's own moves g's rows only, and keeps its outcome.
LEMMA OutcomeAsk ==
  ASSUME Rows, OutcomeInv, NEW g \in Gens,
         RegenerateAsk(g) \/ RegenerateQueue(g) \/ PreviewQueue(g) \/ PreviewExpire(g)
  PROVE  OutcomeInv'
<1> SUFFICES /\ told' \in [Gens -> Notices] /\ Outcome(g)'
             /\ \A h \in Gens \ {g} : Untouched(h)
  BY UntouchedOutcome DEF OutcomeInv
<1> USE DEF Rows, OutcomeInv
<1>1. CASE RegenerateAsk(g)
  <2>1. run'[g].pc = "asked" /\ \A h \in Gens \ {g} : run'[h] = run[h]
    BY <1>1, PcAfter DEF RegenerateAsk
  <2> QED BY <1>1, <2>1 DEF RegenerateAsk, Outcome, Untouched, Uncommitted
<1>2. CASE RegenerateQueue(g)
  <2>1. run'[g].pc = "idle" /\ \A h \in Gens \ {g} : run'[h] = run[h]
    BY <1>2, PcAfter DEF RegenerateQueue
  <2>2. \/ gens' = [gens EXCEPT ![g].status = "pending"]
        \/ UNCHANGED gens
    BY <1>2 DEF RegenerateQueue
  <2>3. \A h \in Gens \ {g} : gens'[h] = gens[h] BY <2>2, StatusAfter
  <2>4. told[g] = <<>> BY <1>2 DEF RegenerateQueue, Outcome
  <2> QED BY <1>2, <2>1, <2>3, <2>4 DEF RegenerateQueue, Outcome, Untouched, Uncommitted
<1>3. CASE PreviewQueue(g)
  <2>1. gens'[g].status = "pending" /\ \A h \in Gens \ {g} : gens'[h] = gens[h]
    BY <1>3, StatusAfter DEF PreviewQueue
  <2> QED BY <1>3, <2>1 DEF PreviewQueue, Outcome, Untouched, Uncommitted
<1>4. CASE PreviewExpire(g)
  <2>1. gens'[g].status = "gone" /\ \A h \in Gens \ {g} : gens'[h] = gens[h]
    BY <1>4, StatusAfter DEF PreviewExpire
  <2> QED BY <1>4, <2>1 DEF PreviewExpire, Outcome, Untouched, Uncommitted, RowGone
<1> QED BY <1>1, <1>2, <1>3, <1>4
\* The same for every step of the handler.
LEMMA OutcomeHandler ==
  ASSUME Rows, OutcomeInv, NEW g \in Gens, Handler(g)
  PROVE  OutcomeInv'
<1> SUFFICES /\ told' \in [Gens -> Notices] /\ Outcome(g)'
             /\ \A h \in Gens \ {g} : Untouched(h)
  BY UntouchedOutcome DEF OutcomeInv
<1> DEFINE Others == \A h \in Gens \ {g} : run'[h] = run[h]
<1> USE DEF Rows, OutcomeInv
<1>1. CASE Load(g)
  <2>1. Others /\ \/ run'[g].pc = "return"
                  \/ run'[g].pc = "prepare" /\ ~RowGone(g) /\ ~Settled(g)
    BY <1>1, PcAfter DEF Load
  <2> QED BY <1>1, <2>1 DEF Load, Outcome, Untouched, Uncommitted, RowGone, Settled
<1>2. CASE Return(g)
  <2>1. Others /\ run'[g].pc = "idle" BY <1>2, PcAfter DEF Return
  <2> QED BY <1>2, <2>1 DEF Return, Outcome, Untouched, Uncommitted
<1>3. CASE Prepare(g)
  <2>1. Others /\ run'[g].pc = "mark" BY <1>3, PcAfter DEF Prepare
  <2> QED BY <1>3, <2>1 DEF Prepare, Outcome, Untouched, Uncommitted
<1>4. CASE Refuse(g)
  <2>1. Others /\ run'[g].pc = "failGen" BY <1>4, PcAfter DEF Refuse
  <2> QED BY <1>4, <2>1 DEF Refuse, Outcome, Untouched, Uncommitted
<1>5. CASE MarkStreaming(g)
  <2>1. Others /\ run'[g].pc \in {"markNote", "stream"} BY <1>5, PcAfter DEF MarkStreaming
  <2>2. gens'[g].status = "streaming" /\ \A h \in Gens \ {g} : gens'[h] = gens[h]
    BY <1>5 DEF MarkStreaming, Generation
  <2>3. told[g] = <<>> BY <1>5 DEF MarkStreaming, Outcome
  <2> QED BY <1>5, <2>1, <2>2, <2>3 DEF MarkStreaming, Outcome, Untouched, Uncommitted
<1>6. CASE MarkGenerating(g)
  <2>1. Others /\ run'[g].pc = "stream" BY <1>6, PcAfter DEF MarkGenerating
  <2> QED BY <1>6, <2>1 DEF MarkGenerating, Outcome, Untouched, Uncommitted
<1>7. CASE Chunk(g)
  <2>1. Others /\ run'[g].pc \in {"stream", "flush"} BY <1>7 DEF Chunk, Run
  <2> QED BY <1>7, <2>1 DEF Chunk, Outcome, Untouched, Uncommitted
<1>8. CASE Flush(g)
  <2>1. Others /\ run'[g].pc = "stream" BY <1>8, PcAfter DEF Flush
  <2>2. gens'[g].status = gens[g].status /\ \A h \in Gens \ {g} : gens'[h] = gens[h]
    BY <1>8 DEF Flush, Generation
  <2> QED BY <1>8, <2>1, <2>2 DEF Flush, Outcome, Untouched, Uncommitted
<1>9. CASE RateLimit(g)
  <2>1. Others /\ run'[g].pc = "idle" BY <1>9, PcAfter DEF RateLimit
  <2> QED BY <1>9, <2>1 DEF RateLimit, Outcome, Untouched, Uncommitted
<1>10. CASE StreamEnds(g)
  <2>1. Others /\ run'[g].pc \in {"commit", "failGen"} BY <1>10, PcAfter DEF StreamEnds
  <2> QED BY <1>10, <2>1 DEF StreamEnds, Outcome, Untouched, Uncommitted
<1>11. CASE CommitRead(g)
  <2>1. CASE g \in Previews \/ ~Visible \/ note.status = "deleting"
    <3>1. Others /\ run'[g].pc \in {"return", "announce"} BY <1>11, <2>1, PcAfter DEF CommitRead
    <3>2. gens'[g].status = "succeeded" /\ \A h \in Gens \ {g} : gens'[h] = gens[h]
      BY <1>11, <2>1, StatusAfter DEF CommitRead
    <3>3. told[g] = <<>> BY <1>11 DEF CommitRead, Outcome
    <3> QED BY <1>11, <3>1, <3>2, <3>3 DEF CommitRead, Outcome, Untouched, Uncommitted
  <2>2. CASE ~(g \in Previews \/ ~Visible \/ note.status = "deleting")
    <3>1. Others /\ run'[g].pc = "commitWrite" /\ UNCHANGED gens
      BY <1>11, <2>2 DEF CommitRead, Run
    <3> QED BY <1>11, <3>1 DEF CommitRead, Outcome, Untouched, Uncommitted
  <2> QED BY <2>1, <2>2
<1>12. CASE CommitWrite(g)
  <2>1. CASE Gone \/ RowGone(g) \/ VersionTaken(run[g].base + 1)
    <3>1. Others /\ run'[g].pc = "failGen" /\ UNCHANGED gens
      BY <1>12, <2>1, PcAfter DEF CommitWrite
    <3> QED BY <1>12, <3>1 DEF CommitWrite, Outcome, Untouched, Uncommitted
  <2>2. CASE ~(Gone \/ RowGone(g) \/ VersionTaken(run[g].base + 1))
    <3>1. Others /\ run'[g].pc = "announce" BY <1>12, <2>2, PcAfter DEF CommitWrite
    <3>2. gens'[g].status = "succeeded" /\ \A h \in Gens \ {g} : gens'[h] = gens[h]
      BY <1>12, <2>2, StatusAfter DEF CommitWrite
    <3>3. told[g] = <<>> BY <1>12 DEF CommitWrite, Outcome
    <3> QED BY <1>12, <3>1, <3>2, <3>3 DEF CommitWrite, Outcome, Untouched, Uncommitted
  <2> QED BY <2>1, <2>2
<1>13. CASE Announce(g)
  <2>1. Others /\ run'[g].pc = "return" BY <1>13, PcAfter DEF Announce
  <2>2. told[g] = <<>> BY <1>13 DEF Announce, Outcome
  <2>3. Append(told[g], "ready") = <<"ready">> BY <2>2
  <2>4. told' \in [Gens -> Notices] /\ told'[g] = <<"ready">>
    BY <1>13, <2>3 DEF Announce, Notices
  <2> QED BY <1>13, <2>1, <2>4 DEF Announce, Outcome, Untouched, Uncommitted
<1>14. CASE Throw(g)
  <2>1. Others /\ run'[g].pc = "failGen" BY <1>14, PcAfter DEF Throw
  <2> QED BY <1>14, <2>1 DEF Throw, Outcome, Untouched, Uncommitted
<1>15. CASE FailGeneration(g)
  <2>1. Others /\ run'[g].pc \in {"return", "failNote"} BY <1>15, PcAfter DEF FailGeneration
  <2>2. gens'[g].status = "failed" /\ \A h \in Gens \ {g} : gens'[h] = gens[h]
    BY <1>15, StatusAfter DEF FailGeneration
  <2>3. told[g] = <<>> BY <1>15 DEF FailGeneration, Outcome
  <2> QED BY <1>15, <2>1, <2>2, <2>3 DEF FailGeneration, Outcome, Untouched, Uncommitted
<1>16. CASE FailNote(g)
  <2>1. Others /\ run'[g].pc = "return" BY <1>16, PcAfter DEF FailNote
  <2>2. told[g] = <<>> BY <1>16 DEF FailNote, Outcome
  <2>3. CASE UNCHANGED told
    BY <1>16, <2>1, <2>3 DEF FailNote, Outcome, Untouched, Uncommitted
  <2>4. CASE told' = [told EXCEPT ![g] = Append(@, "failed")]
    <3>1. Append(told[g], "failed") = <<"failed">> BY <2>2
    <3>2. told' \in [Gens -> Notices] /\ told'[g] = <<"failed">> BY <2>4, <3>1 DEF Notices
    <3> QED BY <1>16, <2>1, <2>4, <3>2 DEF FailNote, Outcome, Untouched, Uncommitted
  <2> QED BY <1>16, <2>3, <2>4 DEF FailNote
<1>17. CASE FailureUnrecorded(g)
  <2>1. Others /\ run'[g].pc = "idle" BY <1>17, PcAfter DEF FailureUnrecorded
  <2> QED BY <1>17, <2>1 DEF FailureUnrecorded, Outcome, Untouched, Uncommitted
<1>18. CASE Reap(g) BY <1>18 DEF Reap, handlerVars, Outcome, Untouched
<1> QED
  BY <1>1, <1>2, <1>3, <1>4, <1>5, <1>6, <1>7, <1>8, <1>9, <1>10, <1>11, <1>12, <1>13, <1>14,
     <1>15, <1>16, <1>17, <1>18 DEF Handler

\* Every step keeps OutcomeInv.
LEMMA OutcomeNext == Rows /\ OutcomeInv /\ [Next]_vars => OutcomeInv'
<1> SUFFICES ASSUME Rows, OutcomeInv, [Next]_vars PROVE OutcomeInv' OBVIOUS
<1>0. ASSUME UNCHANGED <<gens, run, told>> PROVE OutcomeInv'
  BY <1>0, UntouchedOutcome DEF OutcomeInv, Untouched
<1> USE DEF handlerVars
<1>1. CASE \E g \in Gens : \/ RegenerateAsk(g) \/ RegenerateQueue(g)
                           \/ PreviewQueue(g) \/ PreviewExpire(g) \/ Handler(g)
  BY <1>1, OutcomeAsk, OutcomeHandler
<1>2. CASE \E s \in Saves : SaveStep(s)
  BY <1>0, <1>2 DEF SaveStep, SaveRead, SaveLookup, RestoreRead, SaveWrite
<1>3. CASE RemoveAsk \/ RemoveMark \/ RemoveEnqueue
  BY <1>0, <1>3 DEF RemoveAsk, RemoveMark, RemoveEnqueue
<1>4. CASE PurgeNote
  <2>1. \A h \in Gens : \/ gens'[h] = gens[h]
                        \/ gens'[h].status = "gone" /\ gens[h].status # "none"
    BY <1>4 DEF PurgeNote, Rows, Generation, RowGone
  <2>2. UNCHANGED <<run, told>> BY <1>4 DEF PurgeNote
  <2>3. ASSUME NEW h \in Gens PROVE Outcome(h)'
    BY <2>1, <2>2 DEF OutcomeInv, Outcome, Uncommitted
  <2> QED BY <2>2, <2>3 DEF OutcomeInv
<1>5. CASE PurgeClaim \/ PurgeThrows \/ ReapPurge
  BY <1>0, <1>5 DEF PurgeClaim, PurgeThrows, ReapPurge
<1>6. CASE RequeueStalledPurges BY <1>0, <1>6 DEF RequeueStalledPurges
<1>7. CASE \E r \in Readers : Reader(r) \/ ReaderSuffers(r)
  BY <1>0, <1>7 DEF Reader, ReaderSuffers, ReaderConnects, ReaderPolls, ReaderReceives
<1>8. CASE Crash
  <2>1. \A h \in Gens : run'[h].pc = "idle" BY <1>8 DEF Crash, NoRun
  <2> QED BY <1>8, <2>1 DEF Crash, OutcomeInv, Outcome, Uncommitted
<1>9. CASE UNCHANGED vars BY <1>0, <1>9 DEF vars
<1> QED BY <1>1, <1>2, <1>3, <1>4, <1>5, <1>6, <1>7, <1>8, <1>9 DEF Next, PurgeJob

\* The owner hears of each generation's end once, and of the one its row records, however
\* commits, failures, removals and crashes interleave.
THEOREM ToldOnceHolds == Spec => []ToldOnce
<1>1. \A t \in Notices : Len(t) <= 1
  <2>1. Len(<<>>) <= 1 /\ Len(<<"ready">>) <= 1 /\ Len(<<"failed">>) <= 1 OBVIOUS
  <2> QED BY <2>1 DEF Notices
<1>2. OutcomeInv => ToldOnce BY <1>1 DEF OutcomeInv, Outcome, ToldOnce
<1> QED BY RowsInit, RowsNext, OutcomeInit, OutcomeNext, <1>2, PTL DEF Spec

-------------------------------------------------------------------------------
(* A generation and its version.                                           *)

WrittenAt(g, i) == versions[i].gen = g

Written(g) ==
  /\ \A i \in 1..Len(versions) : WrittenAt(g, i) =>
       gens[g].status = "succeeded" /\ versions[i].body = BodyOf(g, gens[g].content)
  /\ \A i, j \in 1..Len(versions) : WrittenAt(g, i) /\ WrittenAt(g, j) => i = j
  /\ gens[g].status = "succeeded" => note.removed \/ \E i \in 1..Len(versions) : WrittenAt(g, i)
  /\ Gone => gens[g].status \in {"none", "gone"}

WrittenInv ==
  /\ note.status = "deleting" => note.removed
  /\ \A g \in Gens \ Previews : Written(g)

\* What a step that writes no version does to a generation: nothing, or it moves one that
\* has not succeeded, to success only if its note is on its way out.
Moved(g) ==
  \/ gens'[g] = gens[g]
  \/ /\ gens[g].status # "succeeded" /\ ~Gone
     /\ gens'[g].status # "succeeded" \/ note.removed

\* A generation so moved keeps its version, or its lack of one.
LEMMA MovedWritten ==
  ASSUME NEW g \in Gens, Written(g), Steady, Moved(g) PROVE Written(g)'
BY DEF Written, WrittenAt, Steady, Moved

\* No generation is written to begin with.
LEMMA WrittenInit == Init => WrittenInv
<1> SUFFICES ASSUME Init PROVE WrittenInv OBVIOUS
<1>1. versions = <<>> /\ Len(versions) = 0 BY EmptySeq DEF Init
<1>2. note.status # "deleting" BY DEF Init
<1>3. ASSUME NEW g \in Gens \ Previews PROVE Written(g)
  BY <1>1 DEF Init, Written, WrittenAt, Gone
<1> QED BY <1>2, <1>3 DEF WrittenInv

\* A step that leaves the generations moves none wrongly.
LEMMA StaysMoved ==
  ASSUME UNCHANGED gens PROVE \A h \in Gens \ Previews : Moved(h)
BY DEF Moved

\* Of a handler's steps, only the write of its commit is more than such a move,
LEMMA HandlerMoves ==
  ASSUME Rows, OutcomeInv, WrittenInv, NEW g \in Gens, Handler(g), ~CommitWrite(g)
  PROVE  \A h \in Gens \ Previews : Moved(h)
<1> USE DEF Rows
<1>0. ASSUME ~RowGone(g), \A h \in Gens \ {g} : gens'[h] = gens[h],
             run[g].pc \in Uncommitted,
             gens'[g].status # "succeeded" \/ g \in Previews \/ note.removed
      PROVE  \A h \in Gens \ Previews : Moved(h)
  BY <1>0 DEF Moved, OutcomeInv, Outcome, WrittenInv, Written, RowGone
<1>1. CASE MarkStreaming(g)
  <2>1. gens'[g].status = "streaming" /\ \A h \in Gens \ {g} : gens'[h] = gens[h]
    BY <1>1 DEF MarkStreaming, Generation
  <2> QED BY <1>0, <1>1, <2>1 DEF MarkStreaming, Uncommitted
<1>2. CASE Flush(g)
  <2>1. gens'[g].status = gens[g].status /\ \A h \in Gens \ {g} : gens'[h] = gens[h]
    BY <1>2 DEF Flush, Generation
  <2>2. gens[g].status # "succeeded" BY <1>2 DEF Flush, OutcomeInv, Outcome, Uncommitted
  <2> QED BY <1>0, <1>2, <2>1, <2>2 DEF Flush, Uncommitted
<1>3. CASE FailGeneration(g)
  <2>1. gens'[g].status = "failed" /\ \A h \in Gens \ {g} : gens'[h] = gens[h]
    BY <1>3, StatusAfter DEF FailGeneration
  <2> QED BY <1>0, <1>3, <2>1 DEF FailGeneration, Uncommitted
<1>4. CASE CommitRead(g)
  <2>1. CASE g \in Previews \/ ~Visible \/ note.status = "deleting"
    <3>1. \A h \in Gens \ {g} : gens'[h] = gens[h] BY <1>4, <2>1, StatusAfter DEF CommitRead
    <3>2. ~RowGone(g) BY <1>4 DEF CommitRead
    <3>3. g \in Previews \/ note.removed
      BY <2>1, <3>2 DEF Visible, WrittenInv, Written, RowGone
    <3> QED BY <1>0, <1>4, <3>1, <3>2, <3>3 DEF CommitRead, Uncommitted
  <2>2. CASE ~(g \in Previews \/ ~Visible \/ note.status = "deleting")
    BY <1>4, <2>2, StaysMoved DEF CommitRead
  <2> QED BY <2>1, <2>2
<1>5. CASE UNCHANGED gens BY <1>5, StaysMoved
<1> QED
  BY <1>1, <1>2, <1>3, <1>4, <1>5
  DEF Handler, Load, Return, Prepare, Refuse, MarkGenerating, Chunk, RateLimit, StreamEnds,
      Announce, Throw, FailNote, FailureUnrecorded, Reap, handlerVars

\* and of the system's, only that and the purge.
LEMMA OtherStepsMove ==
  ASSUME Rows, OutcomeInv, WrittenInv, [Next]_vars, \A g \in Gens : ~CommitWrite(g), ~PurgeNote
  PROVE  \A h \in Gens \ Previews : Moved(h)
<1>1. ASSUME NEW g \in Gens, Handler(g) PROVE \A h \in Gens \ Previews : Moved(h)
  BY <1>1, HandlerMoves
<1>2. ASSUME NEW g \in Gens, RegenerateQueue(g) PROVE \A h \in Gens \ Previews : Moved(h)
  <2>1. CASE UNCHANGED gens BY <2>1, StaysMoved
  <2>2. CASE ~Gone /\ gens' = [gens EXCEPT ![g].status = "pending"]
    <3>1. gens[g].status = "none" BY <1>2 DEF RegenerateQueue, OutcomeInv, Outcome
    <3>2. gens'[g].status = "pending" /\ \A h \in Gens \ {g} : gens'[h] = gens[h]
      BY <2>2, StatusAfter DEF Rows
    <3> QED BY <2>2, <3>1, <3>2 DEF Moved
  <2> QED BY <1>2, <2>1, <2>2 DEF RegenerateQueue
<1>3. ASSUME NEW g \in Gens, PreviewQueue(g) \/ PreviewExpire(g)
      PROVE  \A h \in Gens \ Previews : Moved(h)
  <2>1. g \in Previews BY <1>3 DEF PreviewQueue, PreviewExpire
  <2>2. \A h \in Gens \ {g} : gens'[h] = gens[h]
    BY <1>3, StatusAfter DEF PreviewQueue, PreviewExpire, Rows
  <2> QED BY <2>1, <2>2 DEF Moved
<1>4. CASE UNCHANGED gens BY <1>4, StaysMoved
<1> QED
  BY <1>1, <1>2, <1>3, <1>4
  DEF Next, vars, handlerVars, RegenerateAsk, SaveStep, SaveRead, SaveLookup, RestoreRead, SaveWrite,
      RemoveAsk, RemoveMark, RemoveEnqueue, PurgeJob, PurgeClaim, PurgeThrows, ReapPurge,
      RequeueStalledPurges, Reader, ReaderSuffers, ReaderConnects, ReaderPolls, ReaderReceives, Crash

\* A version of g's appended to a history that has none of it.
LEMMA WrittenByCommit ==
  ASSUME Rows, WrittenInv, OutcomeInv, NEW g \in Gens, CommitWrite(g), 
         ~(Gone \/ RowGone(g) \/ VersionTaken(run[g].base + 1))
  PROVE  WrittenInv'
<1> DEFINE x == [body |-> BodyOf(g, run[g].buffer), gen |-> g, batch |-> NoBatch,
                 saw |-> run[g].base]
<1>1. PICK n \in Nat : n = Len(versions) BY LenProperties DEF Rows
<1>2. versions' = Append(versions, x) BY DEF CommitWrite
<1>3. /\ Len(versions') = n + 1
      /\ versions'[n + 1] = x
      /\ \A i \in 1..n : versions'[i] = versions[i]
  BY <1>1, <1>2 DEF Rows
<1>4. gens' = Succeeded(g) BY DEF CommitWrite
<1>5. gens'[g].status = "succeeded" /\ gens'[g].content = run[g].buffer
      /\ \A h \in Gens \ {g} : gens'[h] = gens[h]
  BY <1>4 DEF Succeeded, Rows, Generation
<1>6. note'.status = "ready" /\ note'.removed = note.removed
  BY DEF CommitWrite, Rows, Note
<1>7. gens[g].status # "succeeded" BY DEF CommitWrite, OutcomeInv, Outcome, Uncommitted
<1>8. ASSUME g \notin Previews PROVE Written(g)'
  <2>1. \A i \in 1..n : ~WrittenAt(g, i) BY <1>1, <1>7, <1>8 DEF WrittenInv, Written
  <2>2. \A i \in 1..Len(versions') : WrittenAt(g, i)' <=> i = n + 1
    BY <1>1, <1>3, <2>1 DEF WrittenAt
  <2>3. versions'[n + 1].body = BodyOf(g, gens'[g].content) BY <1>3, <1>5
  <2>4. n + 1 \in 1..Len(versions') BY <1>1, <1>3
  <2> HIDE DEF x
  <2> QED BY <1>5, <1>6, <2>2, <2>3, <2>4 DEF Written, Gone, BodyOf
<1>9. ASSUME NEW h \in Gens \ Previews, h # g PROVE Written(h)'
  <2>1. \A i \in 1..n : WrittenAt(h, i)' <=> WrittenAt(h, i) BY <1>3 DEF WrittenAt
  <2>2. ~WrittenAt(h, n + 1)' BY <1>3, <1>9 DEF WrittenAt
  <2>3. \A i \in 1..Len(versions') : i \in 1..n \/ i = n + 1
    BY <1>1, <1>3
  <2>4. n = Len(versions) /\ 1..n \subseteq 1..Len(versions') BY <1>1, <1>3
  <2>5. Written(h) /\ gens'[h] = gens[h] BY <1>5, <1>9 DEF WrittenInv
  <2> HIDE DEF x
  <2> QED BY <1>3, <1>6, <2>1, <2>2, <2>3, <2>4, <2>5 DEF Written, Gone
<1> QED BY <1>6, <1>8, <1>9 DEF WrittenInv

\* A save or a restore is nobody's generation.
LEMMA WrittenBySave ==
  ASSUME Rows, WrittenInv, NEW s \in Saves, SaveWrite(s), Visible, note.version = save[s].saw
  PROVE  WrittenInv'
<1> DEFINE x == [body |-> save[s].body, gen |-> NoGen, batch |-> save[s].batch,
                 saw |-> save[s].saw]
<1>1. PICK n \in Nat : n = Len(versions) BY LenProperties DEF Rows
<1>2. versions' = Append(versions, x) /\ UNCHANGED gens BY DEF SaveWrite, handlerVars
<1>3. /\ Len(versions') = n + 1
      /\ versions'[n + 1] = x
      /\ \A i \in 1..n : versions'[i] = versions[i]
  BY <1>1, <1>2 DEF Rows
<1>4. /\ note'.removed = note.removed /\ note'.status \in {"ready", note.status}
      /\ ~Gone
  BY DEF SaveWrite, Rows, Note, Visible
<1>5. ASSUME NEW h \in Gens \ Previews PROVE Written(h)'
  <2>1. \A i \in 1..n : WrittenAt(h, i)' <=> WrittenAt(h, i) BY <1>3 DEF WrittenAt
  <2>2. ~WrittenAt(h, n + 1)' BY <1>3, NoteAssumption DEF WrittenAt
  <2>3. \A i \in 1..Len(versions') : i \in 1..n \/ i = n + 1
    BY <1>1, <1>3
  <2>4. n = Len(versions) /\ 1..n \subseteq 1..Len(versions') BY <1>1, <1>3
  <2>5. Written(h) /\ gens'[h] = gens[h] BY <1>2 DEF WrittenInv
  <2> HIDE DEF x
  <2> QED BY <1>3, <1>4, <2>1, <2>2, <2>3, <2>4, <2>5 DEF Written, Gone
<1> QED BY <1>4, <1>5 DEF WrittenInv

\* Every step keeps WrittenInv.
LEMMA WrittenNext == Rows /\ OutcomeInv /\ WrittenInv /\ [Next]_vars => WrittenInv'
<1> SUFFICES ASSUME Rows, OutcomeInv, WrittenInv, [Next]_vars PROVE WrittenInv' OBVIOUS
<1>0. ASSUME Steady, \A h \in Gens \ Previews : Moved(h) PROVE WrittenInv'
  BY <1>0, MovedWritten DEF WrittenInv, Steady
<1>1. ASSUME NEW g \in Gens, CommitWrite(g) PROVE WrittenInv'
  <2>1. CASE Gone \/ RowGone(g) \/ VersionTaken(run[g].base + 1)
    BY <1>0, <1>1, <2>1, NoteGoesOn, StaysMoved DEF CommitWrite
  <2>2. CASE ~(Gone \/ RowGone(g) \/ VersionTaken(run[g].base + 1))
    BY <1>1, <2>2, WrittenByCommit
  <2> QED BY <2>1, <2>2
<1>2. ASSUME NEW s \in Saves, SaveWrite(s) PROVE WrittenInv'
  <2>1. CASE Visible /\ note.version = save[s].saw BY <1>2, <2>1, WrittenBySave
  <2>2. CASE ~(Visible /\ note.version = save[s].saw)
    BY <1>0, <1>2, <2>2, NoteGoesOn, StaysMoved DEF SaveWrite, handlerVars
  <2> QED BY <2>1, <2>2
<1>3. CASE PurgeNote
  <2>1. versions' = <<>> /\ Len(versions') = 0 BY <1>3, EmptySeq DEF PurgeNote
  <2>2. note'.status = "gone" BY <1>3 DEF PurgeNote, Rows, Note
  <2>3. \A h \in Gens \ Previews : gens'[h].status \in {"none", "gone"}
    BY <1>3 DEF PurgeNote, RowGone, Rows, Generation
  <2> QED BY <2>1, <2>2, <2>3 DEF WrittenInv, Written
<1> QED BY <1>0, <1>1, <1>2, <1>3, OtherStepsSteady, OtherStepsMove

\* A generation that has succeeded is one version of its note, exactly, or its note was
\* removed first; and no version holds anything but the text of its generation.
THEOREM CommitIsWholeHolds == Spec => []CommitIsWhole
<1>1. ASSUME Rows, WrittenInv PROVE CommitIsWhole
  <2> SUFFICES ASSUME NEW g \in Gens \ Previews
               PROVE  LET written == {i \in 1..Len(versions) : versions[i].gen = g} IN
                        /\ \A i \in written : /\ gens[g].status = "succeeded"
                                              /\ versions[i].body = BodyOf(g, gens[g].content)
                        /\ Cardinality(written) <= 1
                        /\ gens[g].status = "succeeded" => written # {} \/ note.removed
    BY DEF CommitIsWhole
  <2> DEFINE written == {i \in 1..Len(versions) : versions[i].gen = g}
  <2>1. Written(g) BY <1>1 DEF WrittenInv
  <2>2. written = {} \/ \E i \in written : written = {i}
    BY <2>1 DEF Written, WrittenAt
  <2>3. Cardinality(written) <= 1
    <3> HIDE DEF written
    <3>1. Cardinality({}) = 0 /\ \A i : Cardinality({i}) = 1 BY FS_EmptySet, FS_Singleton
    <3> QED BY <2>2, <3>1
  <2> QED BY <2>1, <2>3 DEF Written, WrittenAt
<1> QED
  BY RowsInit, RowsNext, OutcomeInit, OutcomeNext, WrittenInit, WrittenNext, <1>1, PTL DEF Spec

-------------------------------------------------------------------------------
(* Who is writing a note that is being generated.                          *)

\* Attempts may be any integer here: what a deferral gives back is of no matter.
Job == [state : {"none", "pending", "running", "abandoned"}, attempts : Int, hits : Nat]

\* A handler between its first write and its last.
Streaming == {"markNote", "stream", "flush", "commit", "commitWrite"}

Unsettled(g) == gens[g].status \in {"pending", "streaming"}

\* g's job will still write the note, or will say that it cannot.
Writer(g) ==
  \/ Running(g) /\ run[g].pc \in Uncommitted \cup {"failNote"}
  \/ job[g].state = "pending" /\ Unsettled(g)

Working(g) ==
  /\ run[g].pc \notin {"idle", "asked"} => Running(g)
  /\ run[g].pc \in Streaming => gens[g].status \in {"streaming", "gone"}
  /\ run[g].pc = "markNote" => g \notin Previews
  /\ gens[g].status = "gone" => g \in Previews \/ Gone

WriterInv ==
  /\ job \in [Slots -> Job]
  /\ \A g \in Gens : Working(g)
  /\ note.removed \/ note.status = "deleting" => note.status # "generating"
  /\ note.status = "generating" => cutOff # {} \/ \E g \in Gens \ Previews : Writer(g)

\* What each operation of the queue does to the row in slot s, and that it leaves the others.
LEMMA QueueAfter ==
  ASSUME job \in [Slots -> Job], NEW s \in Slots
  PROVE  /\ Enqueue(s) => /\ job' \in [Slots -> Job] /\ job'[s].state = "pending"
                          /\ job[s].state = "none" /\ \A t \in Slots \ {s} : job'[t] = job[t]
         /\ ClaimJob(s) => /\ job' \in [Slots -> Job] /\ job'[s].state = "running"
                           /\ \A t \in Slots \ {s} : job'[t] = job[t]
         /\ Complete(s) => /\ job' \in [Slots -> Job] /\ job'[s].state = "none"
                           /\ \A t \in Slots \ {s} : job'[t] = job[t]
         /\ Fail(s) => /\ job' \in [Slots -> Job] /\ job'[s].state \in {"none", "pending"}
                       /\ job[s].state \in {"running", "abandoned"}
                       /\ \A t \in Slots \ {s} : job'[t] = job[t]
         /\ Defer(s) => /\ job' \in [Slots -> Job]
                        /\ job'[s].state = IF job[s].hits >= MaxHits THEN "none" ELSE "pending"
                        /\ \A t \in Slots \ {s} : job'[t] = job[t]
<1>1. Enqueue(s) => /\ job' \in [Slots -> Job] /\ job'[s].state = "pending"
                    /\ job[s].state = "none" /\ \A t \in Slots \ {s} : job'[t] = job[t]
  BY DEF Enqueue, Active, NoJob, Job
<1>2. ClaimJob(s) => /\ job' \in [Slots -> Job] /\ job'[s].state = "running"
                     /\ \A t \in Slots \ {s} : job'[t] = job[t]
  BY DEF ClaimJob, Job
<1>3. Complete(s) => /\ job' \in [Slots -> Job] /\ job'[s].state = "none"
                     /\ \A t \in Slots \ {s} : job'[t] = job[t]
  BY DEF Complete, NoJob, Job
<1>4. Fail(s) => /\ job' \in [Slots -> Job] /\ job'[s].state \in {"none", "pending"}
                 /\ job[s].state \in {"running", "abandoned"}
                 /\ \A t \in Slots \ {s} : job'[t] = job[t]
  BY DEF Fail, NoJob, Job
<1>5. Defer(s) => /\ job' \in [Slots -> Job]
                  /\ job'[s].state = IF job[s].hits >= MaxHits THEN "none" ELSE "pending"
                  /\ \A t \in Slots \ {s} : job'[t] = job[t]
  <2> SUFFICES ASSUME Defer(s)
               PROVE  /\ job' \in [Slots -> Job]
                      /\ job'[s].state = IF job[s].hits >= MaxHits THEN "none" ELSE "pending"
                      /\ \A t \in Slots \ {s} : job'[t] = job[t]
    OBVIOUS
  <2> DEFINE row == IF job[s].hits >= MaxHits THEN NoJob
                    ELSE [state |-> "pending", attempts |-> job[s].attempts - 1,
                          hits |-> job[s].hits + 1]
  <2>1. job' = [job EXCEPT ![s] = row] BY DEF Defer
  <2>2. row \in Job /\ row.state = IF job[s].hits >= MaxHits THEN "none" ELSE "pending"
    BY DEF NoJob, Job
  <2> HIDE DEF row
  <2> QED BY <2>1, <2>2
<1> QED BY <1>1, <1>2, <1>3, <1>4, <1>5

\* Each generation has a slot of its own, and the purge another.
LEMMA GenSlots == Gens \subseteq Slots /\ Purge \in Slots /\ Purge \notin Gens
BY NoteAssumption

\* Nothing is generating to begin with.
LEMMA WriterInit == Init => WriterInv
<1> SUFFICES ASSUME Init PROVE WriterInv OBVIOUS
<1>1. job \in [Slots -> Job] BY DEF Init, NoJob, Job
<1> QED BY <1>1 DEF Init, WriterInv, Working, Streaming, Writer, Gone, NoRun

\* A step of g's that leaves everybody else's rows: what is to be shown of it.
Alone(g) ==
  /\ job' \in [Slots -> Job]
  /\ \A h \in Gens \ {g} : run'[h] = run[h] /\ gens'[h] = gens[h] /\ job'[h] = job[h]
  /\ Working(g)'
  /\ Gone => Gone'
  /\ cutOff \subseteq cutOff'

\* If g is well and there is still a writer where there was one, WriterInv is kept.
LEMMA WriterStep ==
  ASSUME WriterInv, NEW g \in Gens, Alone(g),
         note'.removed \/ note'.status = "deleting" => note'.status # "generating",
         note'.status = "generating" =>
           \/ note.status = "generating" /\ (Writer(g) => Writer(g)' \/ cutOff' # {})
           \/ g \notin Previews /\ Writer(g)'
  PROVE  WriterInv'
<1>1. ASSUME NEW h \in Gens, h # g PROVE Working(h)' /\ (Writer(h) => Writer(h)')
  BY <1>1 DEF Alone, WriterInv, Working, Writer, Unsettled, Running, Gone
<1>2. note'.status = "generating" => cutOff' # {} \/ \E h \in Gens \ Previews : Writer(h)'
  BY <1>1 DEF Alone, WriterInv
<1> QED BY <1>1, <1>2 DEF Alone, WriterInv

\* The same for a step that leaves the note.
LEMMA WriterStepAside ==
  ASSUME WriterInv, NEW g \in Gens, Alone(g), UNCHANGED note,
         note.status = "generating" /\ g \notin Previews /\ Writer(g) => Writer(g)' \/ cutOff' # {}
  PROVE  WriterInv'
<1>1. ASSUME NEW h \in Gens, h # g PROVE Working(h)' /\ (Writer(h) => Writer(h)')
  BY <1>1 DEF Alone, WriterInv, Working, Writer, Unsettled, Running, Gone
<1>2. note'.status = "generating" => cutOff' # {} \/ \E h \in Gens \ Previews : Writer(h)'
  BY <1>1 DEF Alone, WriterInv
<1> QED BY <1>1, <1>2 DEF Alone, WriterInv

\* Every step of a handler keeps WriterInv,
LEMMA WriterHandler ==
  ASSUME Rows, OutcomeInv, WriterInv, NEW g \in Gens, Handler(g)
  PROVE  WriterInv'
<1> DEFINE Others == \A h \in Gens \ {g} : run'[h] = run[h]
           OtherGens == \A h \in Gens \ {g} : gens'[h] = gens[h]
           OtherJobs == job' \in [Slots -> Job] /\ \A h \in Gens \ {g} : job'[h] = job[h]
<1> USE DEF Rows, noteVars
<1>0. g \in Slots /\ (\A h \in Gens : h \in Slots) /\ job \in [Slots -> Job]
  BY GenSlots DEF WriterInv
<1>j. UNCHANGED job => OtherJobs BY <1>0
<1>w. Working(g) BY DEF WriterInv
<1>1. CASE Load(g)
  <2>1. Others /\ \/ run'[g].pc = "return"
                  \/ run'[g].pc = "prepare"
    BY <1>1, PcAfter DEF Load
  <2>2. OtherJobs /\ Running(g)' BY <1>0, <1>1, QueueAfter DEF Load, Running
  <2>3. Alone(g) BY <1>1, <1>w, <2>1, <2>2 DEF Load, Alone, Working, Streaming, Gone
  <2>4. ASSUME note.status = "generating", g \notin Previews, Writer(g) PROVE Writer(g)'
    <3>1. Unsettled(g) /\ ~Gone BY <1>1, <2>4 DEF Load, ClaimJob, Writer, Running, Gone
    <3>2. ~note.removed /\ note.status # "deleting" BY <2>4 DEF WriterInv
    <3>3. run'[g].pc = "prepare"
      BY <1>1, <3>1, <3>2, PcAfter DEF Load, Unsettled, RowGone, Settled
    <3> QED BY <2>2, <3>3 DEF Writer, Uncommitted
  <2> QED BY <1>1, <2>3, <2>4, WriterStepAside DEF Load
<1>2. CASE Return(g)
  <2>1. Others /\ run'[g].pc = "idle" BY <1>2, PcAfter DEF Return
  <2>2. OtherJobs BY <1>0, <1>2, QueueAfter DEF Return
  <2>3. Alone(g) BY <1>2, <1>w, <2>1, <2>2 DEF Return, Alone, Working, Streaming, Gone
  <2>4. ~Writer(g) BY <1>2, <1>w DEF Return, Writer, Working, Uncommitted, Running
  <2> QED BY <1>2, <2>3, <2>4, WriterStepAside DEF Return
<1>3. CASE Prepare(g) \/ Refuse(g) \/ Throw(g) \/ StreamEnds(g)
  <2>1. Others /\ run'[g].pc \in {"mark", "failGen", "commit"} /\ run[g].pc \in Uncommitted
        /\ (run'[g].pc = "commit" => run[g].pc = "stream")
    BY <1>3, PcAfter DEF Prepare, Refuse, Throw, StreamEnds, Uncommitted
  <2>2. UNCHANGED <<note, gens, job, cutOff>>
    BY <1>3 DEF Prepare, Refuse, Throw, StreamEnds
  <2>3. Running(g) /\ Running(g)' BY <1>w, <2>1, <2>2 DEF Working, Uncommitted, Running
  <2>4. Alone(g)
    BY <1>j, <1>w, <2>1, <2>2, <2>3 DEF Alone, Working, Streaming, Gone
  <2>5. Writer(g)' BY <2>1, <2>3 DEF Writer, Uncommitted
  <2> QED BY <2>2, <2>4, <2>5, WriterStepAside
<1>4. CASE MarkStreaming(g)
  <2>1. Others /\ run'[g].pc = IF g \in Previews THEN "stream" ELSE "markNote"
    BY <1>4, PcAfter DEF MarkStreaming
  <2>2. gens'[g].status = "streaming" /\ OtherGens BY <1>4 DEF MarkStreaming, Generation
  <2>3. UNCHANGED <<note, job, cutOff>> BY <1>4 DEF MarkStreaming
  <2>4. Running(g) /\ Running(g)' BY <1>4, <1>w, <2>3 DEF MarkStreaming, Working, Running
  <2>5. Alone(g) BY <1>j, <2>1, <2>2, <2>3, <2>4 DEF Alone, Working, Streaming, Gone
  <2>6. Writer(g)' BY <2>1, <2>4 DEF Writer, Uncommitted
  <2> QED BY <2>3, <2>5, <2>6, WriterStepAside
<1>5. CASE MarkGenerating(g)
  <2>1. Others /\ run'[g].pc = "stream" BY <1>5, PcAfter DEF MarkGenerating
  <2>2. UNCHANGED <<gens, job, cutOff>> BY <1>5 DEF MarkGenerating
  <2>3. Running(g) /\ Running(g)' /\ g \notin Previews /\ gens[g].status \in {"streaming", "gone"}
    BY <1>5, <1>w, <2>2 DEF MarkGenerating, Working, Running, Streaming
  <2>4. Gone' <=> Gone BY <1>5 DEF MarkGenerating, Visible, Gone, Note
  <2>5. Alone(g) BY <1>j, <1>w, <2>1, <2>2, <2>3, <2>4 DEF Alone, Working, Streaming
  <2>6. Writer(g)' BY <2>1, <2>3 DEF Writer, Uncommitted
  <2>7. note'.removed \/ note'.status = "deleting" => note'.status # "generating"
    BY <1>5 DEF MarkGenerating, Visible, Note, WriterInv
  <2> QED BY <2>3, <2>5, <2>6, <2>7, WriterStep
<1>6. CASE Chunk(g)
  <2>1. Others /\ run'[g].pc \in {"stream", "flush"} BY <1>6 DEF Chunk, Run
  <2>2. UNCHANGED <<note, gens, job, cutOff>> BY <1>6 DEF Chunk
  <2>3. Running(g) /\ Running(g)' BY <1>6, <1>w, <2>2 DEF Chunk, Working, Running
  <2>4. gens[g].status \in {"streaming", "gone"} BY <1>6, <1>w DEF Chunk, Working, Streaming
  <2>5. Alone(g) BY <1>j, <1>w, <2>1, <2>2, <2>3, <2>4 DEF Alone, Working, Streaming, Gone
  <2>6. Writer(g)' BY <2>1, <2>3 DEF Writer, Uncommitted
  <2> QED BY <2>2, <2>5, <2>6, WriterStepAside
<1>7. CASE Flush(g)
  <2>1. Others /\ run'[g].pc = "stream" BY <1>7, PcAfter DEF Flush
  <2>2. UNCHANGED <<note, job, cutOff>> BY <1>7 DEF Flush
  <2>3. gens'[g].status = gens[g].status /\ OtherGens BY <1>7 DEF Flush, Generation
  <2>4. Running(g) /\ Running(g)' BY <1>7, <1>w, <2>2 DEF Flush, Working, Running
  <2>5. gens[g].status \in {"streaming", "gone"} BY <1>7, <1>w DEF Flush, Working, Streaming
  <2>6. Alone(g) BY <1>j, <1>w, <2>1, <2>2, <2>3, <2>4, <2>5 DEF Alone, Working, Streaming, Gone
  <2>7. Writer(g)' BY <2>1, <2>4 DEF Writer, Uncommitted
  <2> QED BY <2>2, <2>6, <2>7, WriterStepAside
<1>8. CASE RateLimit(g)
  <2>1. Others /\ run'[g].pc = "idle" BY <1>8, PcAfter DEF RateLimit
  <2>2. UNCHANGED <<note, gens>> /\ cutOff \subseteq cutOff' BY <1>8 DEF RateLimit
  <2>3. OtherJobs /\ job'[g].state = IF job[g].hits >= MaxHits THEN "none" ELSE "pending"
    BY <1>0, <1>8, QueueAfter DEF RateLimit
  <2>4. Alone(g) BY <1>w, <2>1, <2>2, <2>3 DEF Alone, Working, Streaming, Gone
  <2>5. gens[g].status \in {"streaming", "gone"} BY <1>8, <1>w DEF RateLimit, Working, Streaming
  <2>6. ASSUME note.status = "generating", g \notin Previews PROVE Writer(g)' \/ cutOff' # {}
    <3>1. gens[g].status = "streaming" BY <1>w, <2>5, <2>6 DEF Working, Gone
    <3>2. CASE job[g].hits >= MaxHits BY <1>8, <3>2 DEF RateLimit
    <3>3. CASE ~(job[g].hits >= MaxHits) BY <2>2, <2>3, <3>1, <3>3 DEF Writer, Unsettled
    <3> QED BY <3>2, <3>3
  <2> QED BY <2>2, <2>4, <2>6, WriterStepAside
<1>9. CASE CommitRead(g)
  <2>1. UNCHANGED <<note, job, cutOff>> BY <1>9 DEF CommitRead
  <2>2. Running(g) /\ Running(g)' BY <1>9, <1>w, <2>1 DEF CommitRead, Working, Running
  <2>3. gens[g].status \in {"streaming", "gone"} BY <1>9, <1>w DEF CommitRead, Working, Streaming
  <2>4. CASE g \in Previews \/ ~Visible \/ note.status = "deleting"
    <3>1. Others /\ run'[g].pc \in {"return", "announce"} BY <1>9, <2>4, PcAfter DEF CommitRead
    <3>2. gens'[g].status = "succeeded" /\ OtherGens BY <1>9, <2>4, StatusAfter DEF CommitRead
    <3>3. Alone(g) BY <1>j, <2>1, <2>2, <3>1, <3>2 DEF Alone, Working, Streaming, Gone
    <3>4. g \in Previews \/ note.status # "generating" BY <2>4 DEF Visible, Gone, WriterInv
    <3> QED BY <2>1, <3>3, <3>4, WriterStepAside
  <2>5. CASE ~(g \in Previews \/ ~Visible \/ note.status = "deleting")
    <3>1. Others /\ run'[g].pc = "commitWrite" /\ UNCHANGED gens BY <1>9, <2>5 DEF CommitRead, Run
    <3>2. Alone(g) BY <1>j, <1>w, <2>1, <2>2, <2>3, <3>1 DEF Alone, Working, Streaming, Gone
    <3>3. Writer(g)' BY <2>2, <3>1 DEF Writer, Uncommitted
    <3> QED BY <2>1, <3>2, <3>3, WriterStepAside
  <2> QED BY <2>4, <2>5
<1>10. CASE CommitWrite(g)
  <2>1. UNCHANGED <<job, cutOff>> BY <1>10 DEF CommitWrite
  <2>2. Running(g) /\ Running(g)' BY <1>10, <1>w, <2>1 DEF CommitWrite, Working, Running
  <2>3. CASE Gone \/ RowGone(g) \/ VersionTaken(run[g].base + 1)
    <3>1. Others /\ run'[g].pc = "failGen" /\ UNCHANGED <<gens, note>>
      BY <1>10, <2>3, PcAfter DEF CommitWrite
    <3>2. Alone(g) BY <1>j, <1>w, <2>1, <2>2, <3>1 DEF Alone, Working, Streaming, Gone
    <3>3. Writer(g)' BY <2>2, <3>1 DEF Writer, Uncommitted
    <3> QED BY <3>1, <3>2, <3>3, WriterStepAside
  <2>4. CASE ~(Gone \/ RowGone(g) \/ VersionTaken(run[g].base + 1))
    <3>1. Others /\ run'[g].pc = "announce" BY <1>10, <2>4, PcAfter DEF CommitWrite
    <3>2. gens'[g].status = "succeeded" /\ OtherGens BY <1>10, <2>4, StatusAfter DEF CommitWrite
    <3>3. note'.status = "ready" BY <1>10, <2>4 DEF CommitWrite, Note
    <3>4. Alone(g) BY <1>j, <2>1, <2>2, <2>4, <3>1, <3>2 DEF Alone, Working, Streaming
    <3> QED BY <3>3, <3>4, WriterStep
  <2> QED BY <2>3, <2>4
<1>11. CASE Announce(g)
  <2>1. Others /\ run'[g].pc = "return" BY <1>11, PcAfter DEF Announce
  <2>2. UNCHANGED <<note, gens, job, cutOff>> BY <1>11 DEF Announce
  <2>3. Running(g) /\ Running(g)' BY <1>11, <1>w, <2>2 DEF Announce, Working, Running
  <2>4. Alone(g) BY <1>j, <1>w, <2>1, <2>2, <2>3 DEF Alone, Working, Streaming, Gone
  <2>5. ~Writer(g) BY <1>11, <2>3 DEF Announce, Writer, Uncommitted, Running
  <2> QED BY <2>2, <2>4, <2>5, WriterStepAside
<1>12. CASE FailGeneration(g)
  <2>1. Others /\ run'[g].pc = IF g \in Previews THEN "return" ELSE "failNote"
    BY <1>12, PcAfter DEF FailGeneration
  <2>2. gens'[g].status = "failed" /\ OtherGens BY <1>12, StatusAfter DEF FailGeneration
  <2>3. UNCHANGED <<note, job, cutOff>> BY <1>12 DEF FailGeneration
  <2>4. Running(g) /\ Running(g)' BY <1>12, <1>w, <2>3 DEF FailGeneration, Working, Running
  <2>5. Alone(g) BY <1>j, <2>1, <2>2, <2>3, <2>4 DEF Alone, Working, Streaming, Gone
  <2>6. g \notin Previews => Writer(g)' BY <2>1, <2>4 DEF Writer
  <2> QED BY <2>3, <2>5, <2>6, WriterStepAside
<1>13. CASE FailNote(g)
  <2>1. Others /\ run'[g].pc = "return" BY <1>13, PcAfter DEF FailNote
  <2>2. UNCHANGED <<gens, job, cutOff>> BY <1>13 DEF FailNote
  <2>3. Running(g) /\ Running(g)' BY <1>13, <1>w, <2>2 DEF FailNote, Working, Running
  <2>4. (Gone => Gone') /\ note'.status # "generating"
    BY <1>13 DEF FailNote, Visible, Gone, Note, WriterInv
  <2>5. Alone(g)
    BY <1>13, <1>j, <1>w, <2>1, <2>2, <2>3, <2>4 DEF Alone, Working, Streaming
  <2> QED BY <2>4, <2>5, WriterStep
<1>14. CASE FailureUnrecorded(g)
  <2>1. Others /\ run'[g].pc = "idle" BY <1>14, PcAfter DEF FailureUnrecorded
  <2>2. UNCHANGED <<note, gens>> /\ cutOff' = cutOff \cup {g}
    BY <1>14 DEF FailureUnrecorded
  <2>3. OtherJobs BY <1>0, <1>14, QueueAfter DEF FailureUnrecorded
  <2>4. Alone(g) BY <1>w, <2>1, <2>2, <2>3 DEF Alone, Working, Streaming, Gone
  <2> QED BY <2>2, <2>4, WriterStepAside
<1>15. CASE Reap(g)
  <2>1. UNCHANGED <<note, gens, run, cutOff>> BY <1>15 DEF Reap, handlerVars
  <2>2. OtherJobs BY <1>0, <1>15, QueueAfter DEF Reap
  <2>3. ~Running(g) /\ ~Writer(g) BY <1>15 DEF Reap, Running, Writer
  <2>4. Alone(g) BY <1>w, <2>1, <2>2, <2>3 DEF Alone, Working, Streaming, Gone
  <2> QED BY <2>1, <2>3, <2>4, WriterStepAside
<1> QED
  BY <1>1, <1>2, <1>3, <1>4, <1>5, <1>6, <1>7, <1>8, <1>9, <1>10, <1>11, <1>12, <1>13, <1>14, <1>15
  DEF Handler

\* and every request that queues one,
LEMMA WriterAsk ==
  ASSUME Rows, OutcomeInv, WriterInv, NEW g \in Gens,
         RegenerateAsk(g) \/ RegenerateQueue(g) \/ PreviewQueue(g) \/ PreviewExpire(g)
  PROVE  WriterInv'
<1> USE DEF Rows, noteVars
<1>0. g \in Slots /\ (\A h \in Gens : h \in Slots) /\ job \in [Slots -> Job]
  BY GenSlots DEF WriterInv
<1>w. Working(g) BY DEF WriterInv
<1>1. CASE RegenerateAsk(g)
  <2>1. run'[g].pc = "asked" /\ \A h \in Gens \ {g} : run'[h] = run[h]
    BY <1>1, PcAfter DEF RegenerateAsk
  <2>2. UNCHANGED <<note, gens, job, cutOff>> BY <1>1 DEF RegenerateAsk
  <2>3. Alone(g) BY <1>0, <1>w, <2>1, <2>2 DEF Alone, Working, Streaming, Gone
  <2>4. Writer(g) => Writer(g)'
    BY <1>1, <2>2 DEF RegenerateAsk, Writer, Unsettled, Uncommitted, Running
  <2> QED BY <2>2, <2>3, <2>4, WriterStepAside
<1>2. CASE RegenerateQueue(g)
  <2>1. run'[g].pc = "idle" /\ \A h \in Gens \ {g} : run'[h] = run[h]
    BY <1>2, PcAfter DEF RegenerateQueue
  <2>2. run[g].pc = "asked" /\ gens[g].status = "none" /\ g \notin Previews /\ UNCHANGED cutOff
    BY <1>2 DEF RegenerateQueue, OutcomeInv, Outcome
  <2>3. ~Writer(g) BY <2>2 DEF Writer, Unsettled, Uncommitted
  <2>4. CASE Gone /\ UNCHANGED <<gens, note, job>>
    <3>1. Alone(g) BY <1>0, <1>w, <2>1, <2>2, <2>4 DEF Alone, Working, Streaming, Gone
    <3> QED BY <2>3, <2>4, <3>1, WriterStepAside
  <2>5. CASE /\ ~Gone /\ gens' = [gens EXCEPT ![g].status = "pending"]
             /\ note' = [note EXCEPT !.gen = g] /\ Enqueue(g)
    <3>1. gens'[g].status = "pending" /\ \A h \in Gens \ {g} : gens'[h] = gens[h]
      BY <2>5, StatusAfter
    <3>2. /\ job' \in [Slots -> Job] /\ job'[g].state = "pending"
          /\ \A h \in Gens \ {g} : job'[h] = job[h]
      BY <1>0, <2>5, QueueAfter
    <3>3. note'.status = note.status /\ note'.removed = note.removed BY <2>5 DEF Note
    <3>4. Alone(g) BY <2>1, <2>2, <2>5, <3>1, <3>2 DEF Alone, Working, Streaming
    <3> QED BY <2>3, <3>3, <3>4, WriterStep DEF WriterInv
  <2> QED BY <1>2, <2>4, <2>5 DEF RegenerateQueue
<1>3. CASE PreviewQueue(g)
  <2>1. gens'[g].status = "pending" /\ \A h \in Gens \ {g} : gens'[h] = gens[h]
    BY <1>3, StatusAfter DEF PreviewQueue
  <2>2. /\ job' \in [Slots -> Job] /\ job[g].state = "none"
        /\ \A h \in Gens \ {g} : job'[h] = job[h]
    BY <1>0, <1>3, QueueAfter DEF PreviewQueue
  <2>3. UNCHANGED <<note, run, cutOff>> BY <1>3 DEF PreviewQueue
  <2>4. run'[g].pc \in {"idle", "asked"} BY <1>w, <2>2, <2>3 DEF Working, Running
  <2>5. Alone(g) BY <2>1, <2>2, <2>3, <2>4 DEF Alone, Working, Streaming, Gone
  <2> QED BY <1>3, <2>3, <2>5, WriterStepAside DEF PreviewQueue
<1>4. CASE PreviewExpire(g)
  <2>1. gens'[g].status = "gone" /\ \A h \in Gens \ {g} : gens'[h] = gens[h]
    BY <1>4, StatusAfter DEF PreviewExpire
  <2>2. UNCHANGED <<note, run, job, cutOff>> /\ g \in Previews BY <1>4 DEF PreviewExpire
  <2>3. Alone(g) BY <1>0, <1>w, <2>1, <2>2 DEF Alone, Working, Streaming, Running, Gone
  <2> QED BY <2>2, <2>3, WriterStepAside
<1> QED BY <1>1, <1>2, <1>3, <1>4

\* A step that leaves the generations, their handlers and their jobs alone.
LEMMA WriterAside ==
  ASSUME WriterInv, UNCHANGED <<gens, run, cutOff>>,
         job' \in [Slots -> Job], \A g \in Gens : job'[g] = job[g],
         Gone' <=> Gone,
         note'.status = "generating" => note.status = "generating",
         note'.removed \/ note'.status = "deleting" => note'.status # "generating"
  PROVE  WriterInv'
<1>1. ASSUME NEW h \in Gens PROVE Working(h)' /\ (Writer(h) => Writer(h)')
  BY DEF WriterInv, Working, Writer, Unsettled, Running
<1> QED BY <1>1 DEF WriterInv

\* and every other step.
LEMMA WriterNext == Rows /\ OutcomeInv /\ WriterInv /\ [Next]_vars => WriterInv'
<1> SUFFICES ASSUME Rows, OutcomeInv, WriterInv, [Next]_vars PROVE WriterInv' OBVIOUS
<1> USE DEF noteVars, handlerVars
<1>0. job \in [Slots -> Job] /\ Purge \in Slots /\ \A g \in Gens : g \in Slots \ {Purge}
  BY GenSlots DEF WriterInv
<1>a. ASSUME UNCHANGED <<note, gens, run, cutOff>>,
             job' \in [Slots -> Job], \A g \in Gens : job'[g] = job[g]
      PROVE  WriterInv'
  BY <1>a, WriterAside DEF WriterInv, Gone
<1>1. CASE \E g \in Gens : \/ RegenerateAsk(g) \/ RegenerateQueue(g)
                           \/ PreviewQueue(g) \/ PreviewExpire(g) \/ Handler(g)
  BY <1>1, WriterAsk, WriterHandler
<1>2. ASSUME NEW s \in Saves, SaveRead(s) \/ SaveLookup(s) \/ RestoreRead(s) PROVE WriterInv'
  BY <1>0, <1>2, <1>a DEF SaveRead, SaveLookup, RestoreRead
<1>3. ASSUME NEW s \in Saves, SaveWrite(s) PROVE WriterInv'
  <2>1. UNCHANGED <<gens, run, cutOff, job>> BY <1>3 DEF SaveWrite
  <2>2. /\ note'.removed = note.removed /\ note'.status \in {"ready", note.status}
        /\ note.status = "gone" => note'.status = "gone"
    BY <1>3 DEF SaveWrite, Rows, Note, Visible, Gone
  <2> QED BY <1>0, <2>1, <2>2, WriterAside DEF WriterInv, Gone
<1>4. CASE RemoveAsk BY <1>0, <1>4, <1>a DEF RemoveAsk
<1>5. CASE RemoveMark
  <2>1. UNCHANGED <<gens, run, cutOff, job>> BY <1>5 DEF RemoveMark
  <2>2. CASE Gone BY <1>5, <1>0, <2>1, <2>2, <1>a DEF RemoveMark
  <2>3. CASE ~Gone
    <3>1. note'.status = "deleting" BY <1>5, <2>3 DEF RemoveMark, Rows, Note
    <3> QED BY <1>0, <2>1, <2>3, <3>1, WriterAside DEF Gone
  <2> QED BY <2>2, <2>3
<1>6. CASE RemoveEnqueue
  <2>1. UNCHANGED job \/ Enqueue(Purge) BY <1>6 DEF RemoveEnqueue, EnqueueOnce
  <2>2. job' \in [Slots -> Job] /\ \A g \in Gens : job'[g] = job[g] BY <1>0, <2>1, QueueAfter
  <2> QED BY <1>6, <1>a, <2>2 DEF RemoveEnqueue
<1>7. CASE PurgeNote
  <2>1. job' \in [Slots -> Job] /\ \A g \in Gens : job'[g] = job[g]
    BY <1>0, <1>7, QueueAfter DEF PurgeNote
  <2>2. note'.status = "gone" BY <1>7 DEF PurgeNote, Rows, Note
  <2>3. UNCHANGED <<run, cutOff>> BY <1>7 DEF PurgeNote
  <2>4. ASSUME NEW h \in Gens PROVE Working(h)'
    <3>1. gens'[h] = gens[h] \/ gens'[h].status = "gone"
      BY <1>7 DEF PurgeNote, Rows, Generation
    <3> QED BY <2>1, <2>2, <2>3, <3>1 DEF WriterInv, Working, Running, Gone
  <2> QED BY <2>1, <2>2, <2>4 DEF WriterInv
<1>8. CASE PurgeClaim \/ PurgeThrows \/ ReapPurge \/ RequeueStalledPurges
  <2>1. job' \in [Slots -> Job] /\ \A g \in Gens : job'[g] = job[g]
    BY <1>0, <1>8, QueueAfter DEF PurgeClaim, PurgeThrows, ReapPurge, RequeueStalledPurges
  <2> QED BY <1>8, <1>a, <2>1 DEF PurgeClaim, PurgeThrows, ReapPurge, RequeueStalledPurges
<1>9. CASE \E r \in Readers : Reader(r) \/ ReaderSuffers(r)
  BY <1>0, <1>9, <1>a DEF Reader, ReaderSuffers, ReaderConnects, ReaderPolls, ReaderReceives
<1>10. CASE Crash
  <2>1. UNCHANGED <<note, gens>> /\ \A h \in Gens : run'[h].pc = "idle" BY <1>10 DEF Crash, NoRun
  <2>2. /\ job' \in [Slots -> Job]
        /\ \A h \in Gens : job[h].state = "pending" => job'[h].state = "pending"
    BY <1>0, <1>10 DEF Crash, AbandonAll, Job, Running
  <2>3. cutOff' = cutOff \cup {g \in Gens : run[g].pc \notin {"idle", "asked", "announce", "return"}}
    BY <1>10 DEF Crash
  <2>4. ASSUME NEW h \in Gens, Writer(h) PROVE cutOff' # {} \/ Writer(h)'
    <3>1. CASE run[h].pc \in Uncommitted \cup {"failNote"} BY <2>3, <3>1 DEF Uncommitted
    <3>2. CASE job[h].state = "pending" /\ Unsettled(h)
      BY <2>1, <2>2, <3>2 DEF Writer, Unsettled
    <3> QED BY <2>4, <3>1, <3>2 DEF Writer
  <2>5. ASSUME NEW h \in Gens PROVE Working(h)'
    BY <2>1 DEF WriterInv, Working, Streaming, Gone
  <2>6. note'.status = "generating" => cutOff' # {} \/ \E g \in Gens \ Previews : Writer(g)'
    BY <2>1, <2>3, <2>4 DEF WriterInv
  <2> QED BY <2>1, <2>2, <2>5, <2>6 DEF WriterInv
<1>11. CASE UNCHANGED vars BY <1>0, <1>11, <1>a DEF vars
<1> QED
  BY <1>1, <1>2, <1>3, <1>4, <1>5, <1>6, <1>7, <1>8, <1>9, <1>10, <1>11 DEF Next, SaveStep, PurgeJob

\* A note that says it is being generated has a job that will write it or fail it, unless
\* a handler was cut off: nothing else in the slice leaves it so.
THEOREM GeneratingHasWriterHolds == Spec => []GeneratingHasWriter
<1>1. ASSUME WriterInv PROVE GeneratingHasWriter
  BY <1>1 DEF WriterInv, Writer, GeneratingHasWriter, Running, Active
<1> QED
  BY RowsInit, RowsNext, OutcomeInit, OutcomeNext, WriterInit, WriterNext, <1>1, PTL DEF Spec

-------------------------------------------------------------------------------
(* What is written of a generation only grows.                             *)

\* s is how t begins.
Begins(s, t) == Len(s) <= Len(t) /\ \A i \in 1..Len(s) : s[i] = t[i]

\* Nothing will be written of it any more.
Over(g) == gens[g].status \in {"succeeded", "gone"}

\* The text of a generation that has never run is empty, and that of one that runs for the
\* first time is how its handler's buffer begins.
Grown(g) ==
  /\ gens[g].status = "none" => gens[g].attempt = 0
  /\ gens[g].attempt = 0 => gens[g].content = <<>>
  /\ run[g].pc \in {"prepare", "mark", "markNote"} => run[g].buffer = <<>>
  /\ run[g].pc \in Streaming => gens[g].attempt > 0
  /\ run[g].pc \in Streaming /\ gens[g].attempt = 1 => Begins(gens[g].content, run[g].buffer)

GrownInv == \A g \in Gens : Grown(g)

\* A step leaves g's text alone, or extends the text of a first run that is not over.
Grows(g) ==
  /\ gens[g].attempt <= gens'[g].attempt
  /\ gens'[g].attempt <= 1 =>
       /\ Begins(gens[g].content, gens'[g].content)
       /\ Over(g) => Over(g)' /\ gens'[g].content = gens[g].content

\* A text begins with itself.
LEMMA BeginsSelf == \A s \in Text : Begins(s, s)
BY DEF Begins, Text

\* An empty text begins every text.
LEMMA BeginsEmpty == \A t \in Text : Begins(<<>>, t)
BY DEF Begins, Text

\* A text that has got a chunk more begins with what it was.
LEMMA BeginsAppend ==
  ASSUME NEW s \in Text, NEW t \in Text, NEW x \in Nat, Begins(s, t) PROVE Begins(s, Append(t, x))
BY DEF Begins, Text

\* A step that leaves g's row and handler.
LEMMA GrownAside ==
  ASSUME Rows, NEW g \in Gens, Grown(g), gens'[g] = gens[g], run'[g] = run[g]
  PROVE  Grown(g)' /\ Grows(g)
<1>1. gens[g].content \in Text /\ gens[g].attempt \in Nat BY DEF Rows, Generation
<1> QED BY <1>1, BeginsSelf DEF Grown, Grows, Over

\* A step that leaves g's text and number of runs, and may give its row another status.
LEMMA GrownStatus ==
  ASSUME Rows, NEW g \in Gens, Grown(g),
         gens'[g].content = gens[g].content, gens'[g].attempt = gens[g].attempt,
         gens'[g].status \in {gens[g].status, "gone"} \/ (~Over(g) /\ gens'[g].status # "none"),
         run'[g].pc \in {"prepare", "mark"} => run'[g].buffer = <<>>,
         run'[g].pc \in Streaming => run'[g] = run[g]
  PROVE  Grown(g)' /\ Grows(g)
<1>1. gens[g].content \in Text /\ gens[g].attempt \in Nat BY DEF Rows, Generation
<1>2. run'[g].pc = "markNote" => run'[g].buffer = <<>> BY DEF Grown, Streaming
<1> QED BY <1>1, <1>2, BeginsSelf DEF Grown, Grows, Over

\* To begin with nothing has run.
LEMMA GrownInit == Init => GrownInv
BY DEF Init, GrownInv, Grown, NoRun, Streaming

\* Where a handler goes it takes its buffer, and where it starts or ends it has none.
LEMMA BufferAfter ==
  ASSUME run \in [Gens -> Run], NEW g \in Gens, NEW x
  PROVE  /\ Goto(g, x) => run'[g] = [run[g] EXCEPT !.pc = x]
         /\ StartRun(g, x) => run'[g] = [NoRun EXCEPT !.pc = x]
         /\ Escape(g, x) => run'[g] = [run[g] EXCEPT !.pc = "failGen", !.class = x]
         /\ EndRun(g) => run'[g] = NoRun
BY DEF Goto, StartRun, Escape, EndRun, Run

\* The write of a whole buffer over the text it extends.
LEMMA GrownWrite ==
  ASSUME Rows, NEW g \in Gens, Grown(g), run[g].pc \in Streaming, ~Over(g),
         gens'[g].content = run[g].buffer, gens'[g].attempt = gens[g].attempt,
         gens'[g].status # "none",
         run'[g].pc \in {"stream", "announce", "return"}, run'[g].buffer = run[g].buffer
  PROVE  Grown(g)' /\ Grows(g)
<1>1. /\ gens[g].content \in Text /\ gens[g].attempt \in Nat /\ run[g].buffer \in Text
  BY DEF Rows, Generation, Run
<1> QED BY <1>1, BeginsSelf DEF Grown, Grows, Over, Streaming

\* A step of a request for a generation.
LEMMA GrownAsk ==
  ASSUME Rows, OutcomeInv, GrownInv, NEW g \in Gens,
         RegenerateAsk(g) \/ RegenerateQueue(g) \/ PreviewQueue(g) \/ PreviewExpire(g)
  PROVE  \A h \in Gens : Grown(h)' /\ Grows(h)
<1>r. gens \in [Gens -> Generation] /\ run \in [Gens -> Run] BY DEF Rows
<1> USE <1>r
<1>o. ASSUME NEW h \in Gens \ {g}, gens'[h] = gens[h], run'[h] = run[h]
      PROVE  Grown(h)' /\ Grows(h)
  BY <1>o, GrownAside DEF GrownInv
<1>g. Grown(g) /\ Outcome(g) BY DEF GrownInv, OutcomeInv
<1>1. CASE RegenerateAsk(g)
  <2>1. run'[g].pc = "asked" /\ \A h \in Gens \ {g} : run'[h] = run[h]
    BY <1>1, PcAfter DEF RegenerateAsk
  <2>2. UNCHANGED gens BY <1>1 DEF RegenerateAsk
  <2>3. Grown(g)' /\ Grows(g) BY <1>g, <2>1, <2>2, GrownStatus DEF Streaming
  <2> QED BY <1>o, <2>1, <2>2, <2>3
<1>2. CASE RegenerateQueue(g)
  <2>1. run'[g].pc = "idle" /\ \A h \in Gens \ {g} : run'[h] = run[h]
    BY <1>2, PcAfter DEF RegenerateQueue
  <2>2. gens' = [gens EXCEPT ![g].status = "pending"] \/ UNCHANGED gens
    BY <1>2 DEF RegenerateQueue
  <2>3. \A h \in Gens \ {g} : gens'[h] = gens[h] BY <2>2, StatusAfter
  <2>4. /\ gens'[g].content = gens[g].content /\ gens'[g].attempt = gens[g].attempt
        /\ gens'[g].status \in {gens[g].status, "pending"}
    BY <2>2 DEF Generation
  <2>5. ~Over(g) BY <1>2, <1>g DEF RegenerateQueue, Outcome, Over
  <2>6. Grown(g)' /\ Grows(g) BY <1>g, <2>1, <2>4, <2>5, GrownStatus DEF Streaming
  <2> QED BY <1>o, <2>1, <2>3, <2>6
<1>3. CASE PreviewQueue(g)
  <2>1. gens'[g].status = "pending" /\ \A h \in Gens \ {g} : gens'[h] = gens[h]
    BY <1>3, StatusAfter DEF PreviewQueue
  <2>2. gens'[g].content = gens[g].content /\ gens'[g].attempt = gens[g].attempt
    BY <1>3 DEF PreviewQueue, Generation
  <2>3. UNCHANGED run /\ ~Over(g) BY <1>3 DEF PreviewQueue, Over
  <2>4. Grown(g)' /\ Grows(g) BY <1>g, <2>1, <2>2, <2>3, GrownStatus DEF Grown
  <2> QED BY <1>o, <2>1, <2>3, <2>4
<1>4. CASE PreviewExpire(g)
  <2>1. gens'[g].status = "gone" /\ \A h \in Gens \ {g} : gens'[h] = gens[h]
    BY <1>4, StatusAfter DEF PreviewExpire
  <2>2. gens'[g].content = gens[g].content /\ gens'[g].attempt = gens[g].attempt
    BY <1>4 DEF PreviewExpire, Generation
  <2>3. UNCHANGED run BY <1>4 DEF PreviewExpire
  <2>4. Grown(g)' /\ Grows(g) BY <1>g, <2>1, <2>2, <2>3, GrownStatus DEF Grown
  <2> QED BY <1>o, <2>1, <2>3, <2>4
<1> QED BY <1>1, <1>2, <1>3, <1>4

\* A step of a handler.
LEMMA GrownHandler ==
  ASSUME Rows, OutcomeInv, WriterInv, GrownInv, NEW g \in Gens, Handler(g)
  PROVE  \A h \in Gens : Grown(h)' /\ Grows(h)
<1> DEFINE Others == \A h \in Gens \ {g} : run'[h] = run[h] /\ gens'[h] = gens[h]
<1> SUFFICES Others /\ Grown(g)' /\ Grows(g) BY GrownAside DEF GrownInv
<1>r. gens \in [Gens -> Generation] /\ run \in [Gens -> Run] BY DEF Rows
<1> USE <1>r
<1>g. Grown(g) /\ Outcome(g) /\ Working(g) BY DEF GrownInv, OutcomeInv, WriterInv
<1>t. gens[g].content \in Text /\ gens[g].attempt \in Nat /\ run[g].buffer \in Text
  BY DEF Generation, Run
<1>1. CASE Load(g)
  <2>1. PICK x \in {"return", "prepare"} : StartRun(g, x)
    <3> DEFINE idle == \/ RowGone(g) \/ Settled(g)
                       \/ g \notin Previews /\ (note.removed \/ note.status = "deleting")
    <3>1. StartRun(g, IF idle THEN "return" ELSE "prepare") BY <1>1 DEF Load
    <3>2. CASE idle BY <3>1, <3>2
    <3>3. CASE ~idle BY <3>1, <3>3
    <3> QED BY <3>2, <3>3
  <2>2. run'[g].pc = x /\ run'[g].buffer = <<>>
    <3>1. run'[g] = [NoRun EXCEPT !.pc = x] BY <2>1, BufferAfter
    <3> QED BY <3>1 DEF NoRun
  <2>3. Others BY <1>1, <2>1, PcAfter DEF Load
  <2> QED BY <1>1, <1>g, <2>2, <2>3, GrownStatus DEF Load, Streaming
<1>2. CASE Return(g) \/ RateLimit(g) \/ FailureUnrecorded(g)
  <2>1. run'[g].pc = "idle" /\ Others
    BY <1>2, PcAfter DEF Return, RateLimit, FailureUnrecorded
  <2> QED BY <1>2, <1>g, <2>1, GrownStatus DEF Return, RateLimit, FailureUnrecorded, Streaming
<1>3. CASE Prepare(g)
  <2>1. run'[g] = [run[g] EXCEPT !.pc = "mark"] BY <1>3, BufferAfter DEF Prepare
  <2>2. run'[g].pc = "mark" /\ run'[g].buffer = <<>>
    BY <1>3, <1>g, <2>1 DEF Prepare, Grown, Run
  <2>3. Others BY <1>3, PcAfter DEF Prepare
  <2> QED BY <1>3, <1>g, <2>2, <2>3, GrownStatus DEF Prepare, Streaming
<1>4. CASE Refuse(g) \/ Throw(g)
  <2>1. run'[g].pc = "failGen" /\ Others BY <1>4, PcAfter DEF Refuse, Throw
  <2> QED BY <1>4, <1>g, <2>1, GrownStatus DEF Refuse, Throw, Streaming
<1>5. CASE MarkStreaming(g)
  <2>1. PICK x \in {"stream", "markNote"} : Goto(g, x) BY <1>5 DEF MarkStreaming
  <2>2. run'[g] = [run[g] EXCEPT !.pc = x] BY <2>1, BufferAfter
  <2>3. run'[g].pc = x /\ run'[g].buffer = <<>>
    BY <1>5, <1>g, <2>2 DEF MarkStreaming, Grown, Run
  <2>4. /\ gens'[g].content = gens[g].content /\ gens'[g].attempt = gens[g].attempt + 1
        /\ gens'[g].status = "streaming" /\ \A h \in Gens \ {g} : gens'[h] = gens[h]
    BY <1>5 DEF MarkStreaming, Generation
  <2>5. Others BY <2>1, <2>4, PcAfter
  <2>6. ~Over(g) BY <1>5, <1>g DEF MarkStreaming, Outcome, Over, Uncommitted, RowGone
  <2>7. gens[g].attempt = 0 => gens[g].content = <<>> BY <1>g DEF Grown
  <2>8. Grows(g) BY <1>t, <2>4, <2>6, BeginsSelf DEF Grows
  <2>9. gens'[g].attempt = 1 => Begins(gens'[g].content, run'[g].buffer)
    BY <1>t, <2>3, <2>4, <2>7, BeginsEmpty
  <2>10. Grown(g)' BY <1>t, <2>3, <2>4, <2>9 DEF Grown
  <2> QED BY <2>5, <2>8, <2>10
<1>6. CASE MarkGenerating(g)
  <2>1. run'[g] = [run[g] EXCEPT !.pc = "stream"] BY <1>6, BufferAfter DEF MarkGenerating
  <2>2. run'[g].pc = "stream" /\ run'[g].buffer = run[g].buffer /\ run[g].pc = "markNote"
    BY <1>6, <2>1 DEF MarkGenerating, Run
  <2>3. Others /\ UNCHANGED gens BY <1>6, PcAfter DEF MarkGenerating
  <2>4. Grows(g) BY <1>t, <2>3, BeginsSelf DEF Grows, Over
  <2>5. Grown(g)' BY <1>g, <2>2, <2>3 DEF Grown, Streaming
  <2> QED BY <2>3, <2>4, <2>5
<1>7. CASE Chunk(g)
  <2>1. PICK due \in BOOLEAN :
          run' = [run EXCEPT ![g].buffer = Append(@, gens[g].attempt),
                             ![g].pc = IF due THEN "flush" ELSE "stream"]
    BY <1>7 DEF Chunk
  <2>2. /\ run'[g].buffer = Append(run[g].buffer, gens[g].attempt)
        /\ run'[g].pc \in {"flush", "stream"} /\ run[g].pc = "stream"
        /\ \A h \in Gens \ {g} : run'[h] = run[h]
    BY <1>7, <2>1 DEF Chunk, Run
  <2>3. Others /\ UNCHANGED gens BY <1>7, <2>2 DEF Chunk
  <2>4. Grows(g) BY <1>t, <2>3, BeginsSelf DEF Grows, Over
  <2>5. gens[g].attempt = 1 => Begins(gens[g].content, Append(run[g].buffer, gens[g].attempt))
    BY <1>g, <1>t, <2>2, BeginsAppend DEF Grown, Streaming
  <2>6. Grown(g)' BY <1>g, <2>2, <2>3, <2>5 DEF Grown, Streaming
  <2> QED BY <2>3, <2>4, <2>6
<1>8. CASE Flush(g)
  <2>1. run'[g] = [run[g] EXCEPT !.pc = "stream"] BY <1>8, BufferAfter DEF Flush
  <2>2. run'[g].pc = "stream" /\ run'[g].buffer = run[g].buffer BY <2>1 DEF Run
  <2>3. /\ gens'[g].content = run[g].buffer /\ gens'[g].attempt = gens[g].attempt
        /\ gens'[g].status = gens[g].status /\ \A h \in Gens \ {g} : gens'[h] = gens[h]
    BY <1>8 DEF Flush, Generation
  <2>4. Others BY <1>8, <2>3, PcAfter DEF Flush
  <2>5. run[g].pc \in Streaming /\ ~Over(g) /\ gens[g].status # "none"
    BY <1>8, <1>g DEF Flush, Outcome, Over, Uncommitted, RowGone, Streaming
  <2> QED BY <1>g, <2>2, <2>3, <2>4, <2>5, GrownWrite
<1>9. CASE StreamEnds(g)
  <2>1. CASE run[g].buffer = <<>>
    <3>1. run'[g].pc = "failGen" /\ Others BY <1>9, <2>1, PcAfter DEF StreamEnds
    <3> QED BY <1>9, <1>g, <3>1, GrownStatus DEF StreamEnds, Streaming
  <2>2. CASE run[g].buffer # <<>>
    <3>1. run'[g] = [run[g] EXCEPT !.pc = "commit"] BY <1>9, <2>2, BufferAfter DEF StreamEnds
    <3>2. run'[g].pc = "commit" /\ run'[g].buffer = run[g].buffer /\ run[g].pc = "stream"
      BY <1>9, <3>1 DEF StreamEnds, Run
    <3>3. Others /\ UNCHANGED gens BY <1>9, <2>2, PcAfter DEF StreamEnds
    <3>4. Grows(g) BY <1>t, <3>3, BeginsSelf DEF Grows, Over
    <3>5. Grown(g)' BY <1>g, <3>2, <3>3 DEF Grown, Streaming
    <3> QED BY <3>3, <3>4, <3>5
  <2> QED BY <2>1, <2>2
<1>10. CASE CommitRead(g) \/ CommitWrite(g)
  <2>0. run[g].pc \in {"commit", "commitWrite"} BY <1>10 DEF CommitRead, CommitWrite
  <2>1. CASE gens' = Succeeded(g) /\ ~RowGone(g)
             /\ \E x \in {"announce", "return"} : Goto(g, x)
    <3>1. PICK x \in {"announce", "return"} : Goto(g, x) BY <2>1
    <3>2. run'[g] = [run[g] EXCEPT !.pc = x] BY <3>1, BufferAfter
    <3>3. run'[g].pc = x /\ run'[g].buffer = run[g].buffer BY <3>2 DEF Run
    <3>4. /\ gens'[g].content = run[g].buffer /\ gens'[g].attempt = gens[g].attempt
          /\ gens'[g].status = "succeeded" /\ \A h \in Gens \ {g} : gens'[h] = gens[h]
      BY <2>1 DEF Succeeded, Generation
    <3>5. Others BY <3>1, <3>4, PcAfter
    <3>6. run[g].pc \in Streaming /\ ~Over(g)
      BY <2>0, <2>1, <1>g DEF Outcome, Over, Uncommitted, RowGone, Streaming
    <3> QED BY <1>g, <3>3, <3>4, <3>5, <3>6, GrownWrite
  <2>2. CASE UNCHANGED gens /\ run' = [run EXCEPT ![g].pc = "commitWrite", ![g].base = note.version]
    <3>1. run'[g].pc = "commitWrite" /\ run'[g].buffer = run[g].buffer BY <2>2 DEF Run
    <3>2. Others BY <2>2
    <3>3. Grows(g) BY <1>t, <2>2, BeginsSelf DEF Grows, Over
    <3>4. Grown(g)' BY <1>g, <2>0, <2>2, <3>1 DEF Grown, Streaming
    <3> QED BY <3>2, <3>3, <3>4
  <2>3. CASE UNCHANGED gens /\ Escape(g, "other")
    <3>1. run'[g].pc = "failGen" /\ Others BY <2>3, PcAfter
    <3> QED BY <1>g, <2>3, <3>1, GrownStatus DEF Streaming
  <2> QED BY <1>10, <2>1, <2>2, <2>3 DEF CommitRead, CommitWrite
<1>11. CASE Announce(g) \/ FailNote(g)
  <2>1. run'[g].pc = "return" /\ Others BY <1>11, PcAfter DEF Announce, FailNote
  <2> QED BY <1>11, <1>g, <2>1, GrownStatus DEF Announce, FailNote, Streaming
<1>12. CASE FailGeneration(g)
  <2>1. run'[g].pc \in {"return", "failNote"} /\ \A h \in Gens \ {g} : run'[h] = run[h]
    BY <1>12, PcAfter DEF FailGeneration
  <2>2. gens'[g].status = "failed" /\ \A h \in Gens \ {g} : gens'[h] = gens[h]
    BY <1>12, StatusAfter DEF FailGeneration
  <2>3. gens'[g].content = gens[g].content /\ gens'[g].attempt = gens[g].attempt
    BY <1>12 DEF FailGeneration, Generation
  <2>4. ~Over(g) BY <1>12, <1>g DEF FailGeneration, Outcome, Over, Uncommitted, RowGone
  <2> QED BY <1>g, <2>1, <2>2, <2>3, <2>4, GrownStatus DEF Streaming
<1>13. CASE Reap(g)
  <2>1. UNCHANGED <<gens, run>> BY <1>13 DEF Reap, handlerVars
  <2> QED BY <1>g, <2>1, GrownAside
<1> QED
  BY <1>1, <1>2, <1>3, <1>4, <1>5, <1>6, <1>7, <1>8, <1>9, <1>10, <1>11, <1>12, <1>13 DEF Handler

\* Whatever happens, texts grow.
LEMMA GrownNext ==
  Rows /\ OutcomeInv /\ WriterInv /\ GrownInv /\ [Next]_vars
    => GrownInv' /\ \A g \in Gens : Grows(g)
<1> SUFFICES ASSUME Rows, OutcomeInv, WriterInv, GrownInv, [Next]_vars
             PROVE  \A g \in Gens : Grown(g)' /\ Grows(g)
  BY DEF GrownInv
<1>0. ASSUME UNCHANGED <<gens, run>> PROVE \A g \in Gens : Grown(g)' /\ Grows(g)
  BY <1>0, GrownAside DEF GrownInv
<1> USE DEF handlerVars
<1>1. CASE \E g \in Gens : \/ RegenerateAsk(g) \/ RegenerateQueue(g)
                           \/ PreviewQueue(g) \/ PreviewExpire(g) \/ Handler(g)
  BY <1>1, GrownAsk, GrownHandler
<1>2. CASE \E s \in Saves : SaveStep(s)
  BY <1>0, <1>2 DEF SaveStep, SaveRead, SaveLookup, RestoreRead, SaveWrite
<1>3. CASE RemoveAsk \/ RemoveMark \/ RemoveEnqueue
  BY <1>0, <1>3 DEF RemoveAsk, RemoveMark, RemoveEnqueue
<1>4. CASE PurgeNote
  <2> SUFFICES ASSUME NEW g \in Gens PROVE Grown(g)' /\ Grows(g) OBVIOUS
  <2>1. /\ gens'[g].content = gens[g].content /\ gens'[g].attempt = gens[g].attempt
        /\ gens'[g].status \in {gens[g].status, "gone"}
    BY <1>4 DEF PurgeNote, Rows, Generation
  <2>2. run'[g] = run[g] BY <1>4 DEF PurgeNote
  <2>3. Grown(g) BY DEF GrownInv
  <2> QED BY <2>1, <2>2, <2>3, GrownStatus DEF Grown
<1>5. CASE PurgeClaim \/ PurgeThrows \/ ReapPurge
  BY <1>0, <1>5 DEF PurgeClaim, PurgeThrows, ReapPurge
<1>6. CASE RequeueStalledPurges BY <1>0, <1>6 DEF RequeueStalledPurges
<1>7. CASE \E r \in Readers : Reader(r) \/ ReaderSuffers(r)
  BY <1>0, <1>7 DEF Reader, ReaderSuffers, ReaderConnects, ReaderPolls, ReaderReceives
<1>8. CASE Crash
  <2> SUFFICES ASSUME NEW g \in Gens PROVE Grown(g)' /\ Grows(g) OBVIOUS
  <2>1. UNCHANGED gens /\ run'[g].pc = "idle" BY <1>8 DEF Crash, NoRun
  <2>2. Grown(g) BY DEF GrownInv
  <2> QED BY <2>1, <2>2, GrownStatus DEF Streaming
<1>9. CASE UNCHANGED vars BY <1>0, <1>9 DEF vars
<1> QED BY <1>1, <1>2, <1>3, <1>4, <1>5, <1>6, <1>7, <1>8, <1>9 DEF Next, PurgeJob

-------------------------------------------------------------------------------
(* How long the texts get.                                                 *)

\* A text of at most MaxChunks chunks, each of one of the runs a job may have.
Short == {t \in Seq(1..(MaxHits + 1)) : Len(t) <= MaxChunks}

Bodied(body) == body \in (Gens \cup Batches) \X Short

\* Every run but the first has been paid for by a deferral of the job, and no job is
\* deferred more than MaxHits times.
Brief(g) ==
  /\ gens[g].content \in Short /\ run[g].buffer \in Short
  /\ gens[g].attempt <= MaxHits + 1
  /\ Active(g) => job[g].hits <= MaxHits
  /\ job[g].state = "pending" \/ run[g].pc \in {"prepare", "mark"} => gens[g].attempt <= job[g].hits
  /\ Running(g) => gens[g].attempt <= job[g].hits + 1

\* A row that has been claimed has been charged.
Charged(s) == job[s].state \in {"running", "abandoned"} => job[s].attempts > 0

BriefInv ==
  /\ job \in [Slots -> JobRow]
  /\ \A s \in Slots : Charged(s)
  /\ \A g \in Gens : Brief(g)
  /\ cutOff \subseteq Gens /\ removal \in {"none", "asked", "marked"}

BodiesInv ==
  /\ note.body = <<>> \/ Bodied(note.body)
  /\ \A i \in 1..Len(versions) : Bodied(versions[i].body)
  /\ \A s \in Saves : save[s].pc \in {"lookup", "write"} => Bodied(save[s].body)

\* The empty text is short.
LEMMA EmptyShort == <<>> \in Short
BY NoteAssumption DEF Short

\* A chunk more, where there is room, leaves a text short.
LEMMA AppendShort ==
  ASSUME NEW t \in Short, Len(t) < MaxChunks, NEW x \in 1..(MaxHits + 1)
  PROVE  Append(t, x) \in Short
<1>1. Append(t, x) \in Seq(1..(MaxHits + 1)) /\ Len(Append(t, x)) = Len(t) + 1
  BY AppendProperties DEF Short
<1>2. Len(t) \in Nat BY DEF Short
<1> QED BY <1>1, <1>2, NoteAssumption DEF Short

\* The short texts are the texts of the type invariant.
LEMMA ShortTexts == Short \subseteq Texts
<1> SUFFICES ASSUME NEW t \in Short PROVE t \in Texts OBVIOUS
<1> DEFINE n == Len(t)
<1>1. n \in Nat /\ n <= MaxChunks /\ t \in [1..n -> 1..(MaxHits + 1)]
  BY LenProperties DEF Short
<1>2. n \in 0..MaxChunks BY <1>1, NoteAssumption
<1> HIDE DEF n
<1> QED BY <1>1, <1>2 DEF Texts

\* What each operation of the queue does to the row in slot s, with the counts.
LEMMA CountsAfter ==
  ASSUME job \in [Slots -> JobRow], NEW s \in Slots, Charged(s)
  PROVE  /\ Enqueue(s) => /\ job' \in [Slots -> JobRow] /\ Charged(s)'
                          /\ ~Active(s) /\ job'[s] = [NoJob EXCEPT !.state = "pending"]
                          /\ \A t \in Slots \ {s} : job'[t] = job[t]
         /\ ClaimJob(s) => /\ job' \in [Slots -> JobRow] /\ Charged(s)'
                           /\ job[s].state = "pending" /\ job'[s].state = "running"
                           /\ job'[s].hits = job[s].hits
                           /\ \A t \in Slots \ {s} : job'[t] = job[t]
         /\ Complete(s) => /\ job' \in [Slots -> JobRow] /\ Charged(s)' /\ job'[s] = NoJob
                           /\ \A t \in Slots \ {s} : job'[t] = job[t]
         /\ Fail(s) => /\ job' \in [Slots -> JobRow] /\ Charged(s)'
                       /\ MaxAttempts[s] = 1 => job'[s] = NoJob
                       /\ \A t \in Slots \ {s} : job'[t] = job[t]
         /\ Defer(s) => /\ job' \in [Slots -> JobRow] /\ Charged(s)' /\ Running(s)
                        /\ \/ job'[s] = NoJob
                           \/ /\ job[s].hits < MaxHits
                              /\ job'[s].state = "pending" /\ job'[s].hits = job[s].hits + 1
                        /\ \A t \in Slots \ {s} : job'[t] = job[t]
<1>0. job[s] \in JobRow /\ NoJob \in JobRow BY DEF NoJob, JobRow
<1>1. Enqueue(s) => /\ job' \in [Slots -> JobRow] /\ Charged(s)'
                    /\ ~Active(s) /\ job'[s] = [NoJob EXCEPT !.state = "pending"]
                    /\ \A t \in Slots \ {s} : job'[t] = job[t]
  BY DEF Enqueue, Active, NoJob, JobRow, Charged
<1>2. ClaimJob(s) => /\ job' \in [Slots -> JobRow] /\ Charged(s)'
                     /\ job[s].state = "pending" /\ job'[s].state = "running"
                     /\ job'[s].hits = job[s].hits
                     /\ \A t \in Slots \ {s} : job'[t] = job[t]
  BY DEF ClaimJob, JobRow, Charged
<1>3. Complete(s) => /\ job' \in [Slots -> JobRow] /\ Charged(s)' /\ job'[s] = NoJob
                     /\ \A t \in Slots \ {s} : job'[t] = job[t]
  BY DEF Complete, NoJob, JobRow, Charged
<1>4. Fail(s) => /\ job' \in [Slots -> JobRow] /\ Charged(s)'
                 /\ MaxAttempts[s] = 1 => job'[s] = NoJob
                 /\ \A t \in Slots \ {s} : job'[t] = job[t]
  <2> SUFFICES ASSUME Fail(s)
               PROVE  /\ job' \in [Slots -> JobRow] /\ Charged(s)'
                      /\ MaxAttempts[s] = 1 => job'[s] = NoJob
                      /\ \A t \in Slots \ {s} : job'[t] = job[t]
    OBVIOUS
  <2>1. job[s].attempts > 0 /\ job[s].attempts \in Nat BY <1>0 DEF Fail, Charged, JobRow
  <2> QED BY <1>0, <2>1, QueueAssumption DEF Fail, Exhausted, Charged, NoJob, JobRow
<1>5. Defer(s) => /\ job' \in [Slots -> JobRow] /\ Charged(s)' /\ Running(s)
                  /\ \/ job'[s] = NoJob
                     \/ /\ job[s].hits < MaxHits
                        /\ job'[s].state = "pending" /\ job'[s].hits = job[s].hits + 1
                  /\ \A t \in Slots \ {s} : job'[t] = job[t]
  <2> SUFFICES ASSUME Defer(s)
               PROVE  /\ job' \in [Slots -> JobRow] /\ Charged(s)' /\ Running(s)
                      /\ \/ job'[s] = NoJob
                         \/ /\ job[s].hits < MaxHits
                            /\ job'[s].state = "pending" /\ job'[s].hits = job[s].hits + 1
                      /\ \A t \in Slots \ {s} : job'[t] = job[t]
    OBVIOUS
  <2> DEFINE row == IF job[s].hits >= MaxHits THEN NoJob
                    ELSE [state |-> "pending", attempts |-> job[s].attempts - 1,
                          hits |-> job[s].hits + 1]
  <2>1. job' = [job EXCEPT ![s] = row] /\ Running(s) BY DEF Defer
  <2>2. job[s].attempts > 0 /\ job[s].attempts \in Nat /\ job[s].hits \in Nat
    BY <1>0, <2>1 DEF Running, Charged, JobRow
  <2>3. /\ row \in JobRow /\ row.state \in {"none", "pending"}
        /\ \/ row = NoJob
           \/ job[s].hits < MaxHits /\ row.state = "pending" /\ row.hits = job[s].hits + 1
    BY <2>2, QueueAssumption DEF NoJob, JobRow
  <2> HIDE DEF row
  <2> QED BY <2>1, <2>3 DEF Charged
<1> QED BY <1>1, <1>2, <1>3, <1>4, <1>5

\* A step of g's that leaves the other generations: what is to be shown of it.
Brevity(g) ==
  /\ job' \in [Slots -> JobRow] /\ Charged(g)'
  /\ \A s \in Slots \ {g} : job'[s] = job[s]
  /\ \A h \in Gens \ {g} : run'[h] = run[h] /\ gens'[h] = gens[h]
  /\ Brief(g)'
  /\ cutOff' \subseteq cutOff \cup {g} /\ removal' = removal

\* Then BriefInv is kept.
LEMMA BriefStep == ASSUME BriefInv, NEW g \in Gens, Brevity(g) PROVE BriefInv'
<1>1. ASSUME NEW h \in Gens, h # g PROVE Brief(h)'
  BY <1>1, GenSlots DEF Brevity, BriefInv, Brief, Active, Running
<1>2. ASSUME NEW s \in Slots PROVE Charged(s)' BY DEF Brevity, BriefInv, Charged
<1> QED BY <1>1, <1>2 DEF Brevity, BriefInv

\* Nor does a step that leaves the generations, their handlers and their jobs alone matter.
LEMMA BriefAside ==
  ASSUME BriefInv, UNCHANGED <<gens, run>>, job' \in [Slots -> JobRow], \A s \in Slots : Charged(s)',
         \A g \in Gens : job'[g] = job[g], cutOff' \subseteq Gens,
         removal' \in {"none", "asked", "marked"}
  PROVE  BriefInv'
BY DEF BriefInv, Brief, Active, Running

LEMMA BriefInit == Init => BriefInv
<1> SUFFICES ASSUME Init PROVE BriefInv OBVIOUS
<1>1. job \in [Slots -> JobRow] /\ (\A s \in Slots : Charged(s))
      /\ \A s \in Slots : job[s].hits = 0
  BY DEF Init, NoJob, JobRow, Charged
<1> QED BY <1>1, EmptyShort, GenSlots, QueueAssumption
  DEF Init, BriefInv, Brief, NoRun, Active, Running

\* A step of a request for a generation.
LEMMA BriefAsk ==
  ASSUME Rows, OutcomeInv, WriterInv, GrownInv, BriefInv, NEW g \in Gens,
         RegenerateAsk(g) \/ RegenerateQueue(g) \/ PreviewQueue(g) \/ PreviewExpire(g)
  PROVE  BriefInv'
<1>g. Brief(g) /\ Grown(g) /\ Outcome(g) /\ Working(g)
  BY DEF BriefInv, GrownInv, OutcomeInv, WriterInv
<1>r. gens \in [Gens -> Generation] /\ run \in [Gens -> Run] /\ gens[g].attempt \in Nat
  BY DEF Rows, Generation
<1>j. g \in Slots /\ job \in [Slots -> JobRow] /\ Charged(g) BY GenSlots DEF BriefInv
<1>1. CASE RegenerateAsk(g)
  <2>0. Goto(g, "asked") BY <1>1 DEF RegenerateAsk
  <2>1. run'[g] = [run[g] EXCEPT !.pc = "asked"] /\ \A h \in Gens \ {g} : run'[h] = run[h]
    BY <2>0, <1>r DEF Goto
  <2>2. UNCHANGED <<gens, job, cutOff, removal>> BY <1>1 DEF RegenerateAsk, requestVars
  <2>3. run'[g].buffer = run[g].buffer /\ run'[g].pc = "asked" BY <2>1, <1>r DEF Run
  <2>4. Brief(g)' BY <1>g, <2>2, <2>3 DEF Brief, Active, Running
  <2> QED BY <1>j, <2>1, <2>2, <2>4, BriefStep DEF Brevity, Charged
<1>2. CASE RegenerateQueue(g)
  <2>0. Goto(g, "idle") BY <1>2 DEF RegenerateQueue
  <2>1. run'[g] = [run[g] EXCEPT !.pc = "idle"] /\ \A h \in Gens \ {g} : run'[h] = run[h]
    BY <2>0, <1>r DEF Goto
  <2>2. run'[g].buffer = run[g].buffer /\ run'[g].pc = "idle" BY <2>1, <1>r DEF Run
  <2>3. UNCHANGED <<cutOff, removal>> BY <1>2 DEF RegenerateQueue, requestVars
  <2>4. CASE UNCHANGED <<gens, note, job>>
    <3>1. Brief(g)' BY <1>g, <2>2, <2>4 DEF Brief, Active, Running
    <3> QED BY <1>j, <2>1, <2>3, <2>4, <3>1, BriefStep DEF Brevity, Charged
  <2>5. CASE gens' = [gens EXCEPT ![g].status = "pending"] /\ Enqueue(g)
    <3>1. /\ gens'[g].content = gens[g].content /\ gens'[g].attempt = gens[g].attempt
          /\ \A h \in Gens \ {g} : gens'[h] = gens[h]
      BY <1>r, <2>5 DEF Generation
    <3>2. gens[g].attempt = 0 BY <1>2, <1>g DEF RegenerateQueue, Outcome, Grown
    <3>3. /\ job' \in [Slots -> JobRow] /\ Charged(g)'
          /\ job'[g] = [NoJob EXCEPT !.state = "pending"]
          /\ \A t \in Slots \ {g} : job'[t] = job[t]
      BY <1>j, <2>5, CountsAfter
    <3>4. job'[g].state = "pending" /\ job'[g].hits = 0 BY <3>3 DEF NoJob
    <3>5. Brief(g)'
      BY <1>g, <2>2, <3>1, <3>2, <3>4, QueueAssumption DEF Brief, Active, Running
    <3> QED BY <2>1, <2>3, <3>1, <3>3, <3>5, BriefStep DEF Brevity
  <2> QED BY <1>2, <2>4, <2>5 DEF RegenerateQueue
<1>3. CASE PreviewQueue(g)
  <2>1. /\ gens'[g].content = gens[g].content /\ gens'[g].attempt = gens[g].attempt
        /\ \A h \in Gens \ {g} : gens'[h] = gens[h]
    BY <1>3, <1>r DEF PreviewQueue, Generation
  <2>2. gens[g].attempt = 0 BY <1>3, <1>g DEF PreviewQueue, Grown
  <2>3. /\ job' \in [Slots -> JobRow] /\ Charged(g)' /\ ~Active(g)
        /\ job'[g] = [NoJob EXCEPT !.state = "pending"]
        /\ \A t \in Slots \ {g} : job'[t] = job[t]
    BY <1>3, <1>j, CountsAfter DEF PreviewQueue
  <2>4. job'[g].state = "pending" /\ job'[g].hits = 0 BY <2>3 DEF NoJob
  <2>5. UNCHANGED <<run, cutOff, removal>> BY <1>3 DEF PreviewQueue, requestVars
  <2>6. run[g].pc \in {"idle", "asked"} BY <1>g, <2>3 DEF Working, Running, Active
  <2>7. Brief(g)'
    BY <1>g, <2>1, <2>2, <2>4, <2>5, <2>6, QueueAssumption DEF Brief, Active, Running
  <2> QED BY <2>1, <2>3, <2>5, <2>7, BriefStep DEF Brevity
<1>4. CASE PreviewExpire(g)
  <2>1. /\ gens'[g].content = gens[g].content /\ gens'[g].attempt = gens[g].attempt
        /\ \A h \in Gens \ {g} : gens'[h] = gens[h]
    BY <1>4, <1>r DEF PreviewExpire, Generation
  <2>2. UNCHANGED <<run, job, cutOff, removal>> BY <1>4 DEF PreviewExpire, requestVars
  <2>3. Brief(g)' BY <1>g, <2>1, <2>2 DEF Brief, Active, Running
  <2> QED BY <1>j, <2>1, <2>2, <2>3, BriefStep DEF Brevity, Charged
<1> QED BY <1>1, <1>2, <1>3, <1>4

\* A handler's step that leaves its row and its job, and only moves.
LEMMA BriefMove ==
  ASSUME BriefInv, NEW g \in Gens, UNCHANGED <<gens, job, cutOff, removal>>,
         run'[g].buffer = run[g].buffer,
         run'[g].pc \in {"prepare", "mark"} => run[g].pc \in {"prepare", "mark"},
         \A h \in Gens \ {g} : run'[h] = run[h]
  PROVE  BriefInv'
<1>1. Brief(g) /\ g \in Slots /\ job \in [Slots -> JobRow] /\ Charged(g)
  BY GenSlots DEF BriefInv
<1>2. Brief(g)' BY <1>1 DEF Brief, Active, Running
<1> QED BY <1>1, <1>2, BriefStep DEF Brevity, Charged

\* A handler's step that ends it and its job.
LEMMA BriefEnd ==
  ASSUME Rows, BriefInv, NEW g \in Gens, UNCHANGED <<gens, removal>>, EndRun(g),
         Complete(g) \/ Fail(g), cutOff' \subseteq cutOff \cup {g}
  PROVE  BriefInv'
<1>1. Brief(g) /\ g \in Slots /\ job \in [Slots -> JobRow] /\ Charged(g) /\ MaxAttempts[g] = 1
  BY GenSlots, NoteAssumption DEF BriefInv
<1>2. job' \in [Slots -> JobRow] /\ Charged(g)' /\ job'[g] = NoJob
      /\ \A t \in Slots \ {g} : job'[t] = job[t]
  BY <1>1, CountsAfter
<1>3. run'[g] = NoRun /\ \A h \in Gens \ {g} : run'[h] = run[h]
  BY BufferAfter, PcAfter DEF Rows
<1>4. job'[g].state = "none" /\ run'[g].pc = "idle" /\ run'[g].buffer = <<>>
  BY <1>2, <1>3 DEF NoJob, NoRun
<1>5. Brief(g)' BY <1>1, <1>4, EmptyShort DEF Brief, Active, Running
<1> QED BY <1>2, <1>3, <1>5, BriefStep DEF Brevity

\* A step of a handler.
LEMMA BriefHandler ==
  ASSUME Rows, OutcomeInv, WriterInv, GrownInv, BriefInv, NEW g \in Gens, Handler(g)
  PROVE  BriefInv'
<1>g. Brief(g) /\ Grown(g) /\ Working(g) BY DEF BriefInv, GrownInv, WriterInv
<1>r. /\ gens \in [Gens -> Generation] /\ run \in [Gens -> Run]
      /\ gens[g].attempt \in Nat /\ gens[g] \in Generation /\ run[g] \in Run
  BY DEF Rows, Generation
<1>j. g \in Slots /\ job \in [Slots -> JobRow] /\ Charged(g) /\ job[g].hits \in Nat
  BY GenSlots DEF BriefInv, JobRow
<1>m. \A x : /\ Goto(g, x) => run'[g].pc = x /\ run'[g].buffer = run[g].buffer
             /\ Escape(g, x) => run'[g].pc = "failGen" /\ run'[g].buffer = run[g].buffer
  <2> SUFFICES ASSUME NEW x
               PROVE  /\ Goto(g, x) => run'[g].pc = x /\ run'[g].buffer = run[g].buffer
                      /\ Escape(g, x) => run'[g].pc = "failGen" /\ run'[g].buffer = run[g].buffer
    OBVIOUS
  <2>1. ASSUME Goto(g, x) PROVE run'[g].pc = x /\ run'[g].buffer = run[g].buffer
    <3>1. run'[g] = [run[g] EXCEPT !.pc = x] BY <1>r, <2>1, BufferAfter
    <3> QED BY <1>r, <3>1 DEF Run
  <2>2. ASSUME Escape(g, x) PROVE run'[g].pc = "failGen" /\ run'[g].buffer = run[g].buffer
    <3>1. run'[g] = [run[g] EXCEPT !.pc = "failGen", !.class = x] BY <1>r, <2>2, BufferAfter
    <3> QED BY <1>r, <3>1 DEF Run
  <2> QED BY <2>1, <2>2
<1>o. \A x : Goto(g, x) \/ Escape(g, x) => \A h \in Gens \ {g} : run'[h] = run[h]
  BY <1>r, PcAfter
<1>c. ASSUME UNCHANGED <<job, cutOff, removal>>, gens'[g].content \in Short,
             gens'[g].attempt = gens[g].attempt, \A h \in Gens \ {g} : gens'[h] = gens[h],
             NEW x, x \notin {"prepare", "mark"}, Goto(g, x)
      PROVE  BriefInv'
  <2>1. run'[g].pc = x /\ run'[g].buffer = run[g].buffer BY <1>c, <1>m
  <2>2. Brief(g)' BY <1>c, <1>g, <2>1 DEF Brief, Active, Running
  <2>3. \A h \in Gens \ {g} : run'[h] = run[h] BY <1>c, <1>o
  <2> QED BY <1>c, <1>j, <2>2, <2>3, BriefStep DEF Brevity, Charged
<1>1. CASE Load(g)
  <2>1. PICK x \in {"return", "prepare"} : StartRun(g, x)
    <3> DEFINE idle == \/ RowGone(g) \/ Settled(g)
                       \/ g \notin Previews /\ (note.removed \/ note.status = "deleting")
    <3>1. StartRun(g, IF idle THEN "return" ELSE "prepare") BY <1>1 DEF Load
    <3>2. CASE idle BY <3>1, <3>2
    <3>3. CASE ~idle BY <3>1, <3>3
    <3> QED BY <3>2, <3>3
  <2>2. run'[g].pc = x /\ run'[g].buffer = <<>>
    <3>1. run'[g] = [NoRun EXCEPT !.pc = x] BY <1>r, <2>1, BufferAfter
    <3> QED BY <3>1 DEF NoRun
  <2>3. \A h \in Gens \ {g} : run'[h] = run[h] BY <1>r, <2>1, PcAfter
  <2>4. /\ job' \in [Slots -> JobRow] /\ Charged(g)' /\ job[g].state = "pending"
        /\ job'[g].state = "running" /\ job'[g].hits = job[g].hits
        /\ \A t \in Slots \ {g} : job'[t] = job[t]
    BY <1>1, <1>j, CountsAfter DEF Load
  <2>5. UNCHANGED <<gens, cutOff, removal>> BY <1>1 DEF Load, requestVars
  <2>6. Brief(g)' BY <1>g, <1>j, <1>r, <2>2, <2>4, <2>5, EmptyShort DEF Brief, Active, Running
  <2> QED BY <2>3, <2>4, <2>5, <2>6, BriefStep DEF Brevity
<1>2. CASE Return(g)
  <2>1. Fail(g) \/ Complete(g) BY <1>2 DEF Return
  <2> QED BY <1>2, <2>1, BriefEnd DEF Return, requestVars
<1>3. CASE Prepare(g)
  <2>1. Goto(g, "mark") /\ run[g].pc = "prepare" BY <1>3 DEF Prepare
  <2> QED BY <1>3, <1>m, <1>o, <2>1, BriefMove DEF Prepare, requestVars
<1>4. CASE Refuse(g) \/ Throw(g)
  <2>1. \E x : Escape(g, x) BY <1>4 DEF Refuse, Throw
  <2> QED BY <1>4, <1>m, <1>o, <2>1, BriefMove DEF Refuse, Throw, requestVars
<1>5. CASE MarkStreaming(g)
  <2>1. PICK x \in {"stream", "markNote"} : Goto(g, x) BY <1>5 DEF MarkStreaming
  <2>2. run'[g].pc = x /\ run'[g].buffer = run[g].buffer /\ run[g].pc = "mark"
    BY <1>5, <1>m, <2>1 DEF MarkStreaming
  <2>3. \A h \in Gens \ {g} : run'[h] = run[h] BY <1>o, <2>1
  <2>4. /\ gens'[g].content = gens[g].content /\ gens'[g].attempt = gens[g].attempt + 1
        /\ \A h \in Gens \ {g} : gens'[h] = gens[h]
    BY <1>5, <1>r DEF MarkStreaming, Generation
  <2>5. UNCHANGED <<job, cutOff, removal>> BY <1>5 DEF MarkStreaming, requestVars
  <2>6. Running(g) /\ job[g].hits <= MaxHits BY <1>g, <2>2 DEF Brief, Working, Active, Running
  <2>7. Brief(g)'
    BY <1>g, <1>j, <1>r, <2>2, <2>4, <2>5, <2>6, QueueAssumption DEF Brief, Active, Running
  <2> QED BY <1>j, <2>3, <2>4, <2>5, <2>7, BriefStep DEF Brevity, Charged
<1>6. CASE MarkGenerating(g)
  <2>1. Goto(g, "stream") BY <1>6 DEF MarkGenerating
  <2> QED BY <1>6, <1>m, <1>o, <2>1, BriefMove DEF MarkGenerating, requestVars
<1>7. CASE Chunk(g)
  <2>1. PICK due \in BOOLEAN :
          run' = [run EXCEPT ![g].buffer = Append(@, gens[g].attempt),
                             ![g].pc = IF due THEN "flush" ELSE "stream"]
    BY <1>7 DEF Chunk
  <2>2. /\ run'[g].buffer = Append(run[g].buffer, gens[g].attempt)
        /\ run'[g].pc \in {"flush", "stream"} /\ \A h \in Gens \ {g} : run'[h] = run[h]
    BY <1>r, <2>1 DEF Run
  <2>3. UNCHANGED <<gens, job, cutOff, removal>> BY <1>7 DEF Chunk, requestVars
  <2>4. gens[g].attempt \in 1..(MaxHits + 1)
    BY <1>7, <1>g, <1>r, QueueAssumption DEF Chunk, Grown, Streaming, Brief
  <2>5. Append(run[g].buffer, gens[g].attempt) \in Short
    BY <1>7, <1>g, <2>4, AppendShort DEF Chunk, Brief
  <2>6. Brief(g)' BY <1>g, <2>2, <2>3, <2>5 DEF Brief, Active, Running
  <2> QED BY <1>j, <2>2, <2>3, <2>6, BriefStep DEF Brevity, Charged
<1>8. CASE Flush(g)
  <2>1. /\ gens'[g].content = run[g].buffer /\ gens'[g].attempt = gens[g].attempt
        /\ \A h \in Gens \ {g} : gens'[h] = gens[h]
    BY <1>8, <1>r DEF Flush, Generation
  <2> QED BY <1>8, <1>g, <1>c, <2>1 DEF Flush, requestVars, Brief
<1>9. CASE RateLimit(g)
  <2>1. /\ job' \in [Slots -> JobRow] /\ Charged(g)' /\ Running(g)
        /\ \/ job'[g] = NoJob
           \/ /\ job[g].hits < MaxHits
              /\ job'[g].state = "pending" /\ job'[g].hits = job[g].hits + 1
        /\ \A t \in Slots \ {g} : job'[t] = job[t]
    BY <1>9, <1>j, CountsAfter DEF RateLimit
  <2>2. run'[g] = NoRun /\ \A h \in Gens \ {g} : run'[h] = run[h]
    BY <1>9, <1>r, BufferAfter, PcAfter DEF RateLimit
  <2>3. run'[g].pc = "idle" /\ run'[g].buffer = <<>> BY <2>2 DEF NoRun
  <2>4. UNCHANGED <<gens, removal>> /\ cutOff' \subseteq cutOff \cup {g}
    BY <1>9 DEF RateLimit, requestVars
  <2>5. NoJob.state = "none" BY DEF NoJob
  <2>6. Brief(g)'
    BY <1>g, <1>j, <1>r, <2>1, <2>3, <2>4, <2>5, EmptyShort, QueueAssumption
    DEF Brief, Active, Running
  <2> QED BY <2>1, <2>2, <2>4, <2>6, BriefStep DEF Brevity
<1>10. CASE StreamEnds(g)
  <2>1. \E x : Escape(g, x) \/ (Goto(g, x) /\ x = "commit") BY <1>10 DEF StreamEnds
  <2> QED BY <1>10, <1>m, <1>o, <2>1, BriefMove DEF StreamEnds, requestVars
<1>11. CASE CommitRead(g)
  <2>1. CASE g \in Previews \/ ~Visible \/ note.status = "deleting"
    <3>1. PICK x \in {"announce", "return"} : Goto(g, x) BY <1>11, <2>1 DEF CommitRead
    <3>2. /\ gens'[g].content = run[g].buffer /\ gens'[g].attempt = gens[g].attempt
          /\ \A h \in Gens \ {g} : gens'[h] = gens[h]
      BY <1>11, <2>1, <1>r DEF CommitRead, Succeeded, Generation
    <3> QED BY <1>11, <1>g, <1>c, <3>1, <3>2 DEF CommitRead, requestVars, Brief
  <2>2. CASE ~(g \in Previews \/ ~Visible \/ note.status = "deleting")
    <3>1. run' = [run EXCEPT ![g].pc = "commitWrite", ![g].base = note.version] /\ UNCHANGED gens
      BY <1>11, <2>2 DEF CommitRead
    <3>2. run'[g].pc = "commitWrite" /\ run'[g].buffer = run[g].buffer
          /\ \A h \in Gens \ {g} : run'[h] = run[h]
      BY <1>r, <3>1 DEF Run
    <3> QED BY <1>11, <3>1, <3>2, BriefMove DEF CommitRead, requestVars
  <2> QED BY <2>1, <2>2
<1>12. CASE CommitWrite(g)
  <2>1. CASE Gone \/ RowGone(g) \/ VersionTaken(run[g].base + 1)
    <3>1. Escape(g, "other") /\ UNCHANGED gens BY <1>12, <2>1 DEF CommitWrite
    <3> QED BY <1>12, <1>m, <1>o, <3>1, BriefMove DEF CommitWrite, requestVars
  <2>2. CASE ~(Gone \/ RowGone(g) \/ VersionTaken(run[g].base + 1))
    <3>1. Goto(g, "announce") BY <1>12, <2>2 DEF CommitWrite
    <3>2. /\ gens'[g].content = run[g].buffer /\ gens'[g].attempt = gens[g].attempt
          /\ \A h \in Gens \ {g} : gens'[h] = gens[h]
      BY <1>12, <2>2, <1>r DEF CommitWrite, Succeeded, Generation
    <3> QED BY <1>12, <1>g, <1>c, <3>1, <3>2 DEF CommitWrite, requestVars, Brief
  <2> QED BY <2>1, <2>2
<1>13. CASE Announce(g) \/ FailNote(g)
  <2>1. Goto(g, "return") BY <1>13 DEF Announce, FailNote
  <2> QED BY <1>13, <1>m, <1>o, <2>1, BriefMove DEF Announce, FailNote, requestVars
<1>14. CASE FailGeneration(g)
  <2>1. PICK x \in {"failNote", "return"} : Goto(g, x) BY <1>14 DEF FailGeneration
  <2>2. /\ gens'[g].content = gens[g].content /\ gens'[g].attempt = gens[g].attempt
        /\ \A h \in Gens \ {g} : gens'[h] = gens[h]
    BY <1>14, <1>r DEF FailGeneration, Generation
  <2> QED BY <1>14, <1>g, <1>c, <2>1, <2>2 DEF FailGeneration, requestVars, Brief
<1>15. CASE FailureUnrecorded(g) BY <1>15, BriefEnd DEF FailureUnrecorded, requestVars
<1>16. CASE Reap(g)
  <2>1. UNCHANGED <<gens, run, cutOff, removal>> BY <1>16 DEF Reap, handlerVars, requestVars
  <2>2. /\ job' \in [Slots -> JobRow] /\ Charged(g)' /\ job'[g] = NoJob
        /\ \A t \in Slots \ {g} : job'[t] = job[t]
    BY <1>16, <1>j, CountsAfter, NoteAssumption DEF Reap
  <2>3. job'[g].state = "none" /\ run[g].pc \notin {"prepare", "mark"}
    BY <1>16, <1>g, <2>2 DEF Reap, NoJob, Working, Running
  <2>4. Brief(g)' BY <1>g, <2>1, <2>3 DEF Brief, Active, Running
  <2> QED BY <2>1, <2>2, <2>4, BriefStep DEF Brevity
<1> QED
  BY <1>1, <1>2, <1>3, <1>4, <1>5, <1>6, <1>7, <1>8, <1>9, <1>10, <1>11, <1>12, <1>13, <1>14,
     <1>15, <1>16 DEF Handler

\* Every step keeps BriefInv.
LEMMA BriefNext ==
  Rows /\ OutcomeInv /\ WriterInv /\ GrownInv /\ BriefInv /\ [Next]_vars => BriefInv'
<1> SUFFICES ASSUME Rows, OutcomeInv, WriterInv, GrownInv, BriefInv, [Next]_vars PROVE BriefInv'
  OBVIOUS
<1> USE DEF handlerVars, requestVars
<1>0. /\ job \in [Slots -> JobRow] /\ \A s \in Slots : Charged(s)
      /\ Purge \in Slots /\ Purge \notin Gens /\ Gens \subseteq Slots
      /\ cutOff \subseteq Gens /\ removal \in {"none", "asked", "marked"}
  BY GenSlots DEF BriefInv
<1>a. ASSUME UNCHANGED <<gens, run, job, cutOff>>, removal' \in {"none", "asked", "marked"}
      PROVE  BriefInv'
  BY <1>0, <1>a, BriefAside DEF Charged
<1>b. ASSUME UNCHANGED <<gens, run, cutOff>>, removal' \in {"none", "asked", "marked"},
             job' \in [Slots -> JobRow], Charged(Purge)', \A s \in Slots \ {Purge} : job'[s] = job[s]
      PROVE  BriefInv'
  <2>1. \A s \in Slots : Charged(s)' BY <1>0, <1>b DEF Charged
  <2> QED BY <1>0, <1>b, <2>1, BriefAside
<1>1. CASE \E g \in Gens : \/ RegenerateAsk(g) \/ RegenerateQueue(g)
                           \/ PreviewQueue(g) \/ PreviewExpire(g) \/ Handler(g)
  BY <1>1, BriefAsk, BriefHandler
<1>2. CASE \E s \in Saves : SaveStep(s)
  BY <1>0, <1>a, <1>2 DEF SaveStep, SaveRead, SaveLookup, RestoreRead, SaveWrite
<1>3. CASE RemoveAsk \/ RemoveMark
  BY <1>0, <1>a, <1>3 DEF RemoveAsk, RemoveMark
<1>4. CASE RemoveEnqueue
  <2>1. CASE UNCHANGED job BY <1>a, <1>4, <2>1 DEF RemoveEnqueue
  <2>2. CASE Enqueue(Purge)
    <3>1. job' \in [Slots -> JobRow] /\ Charged(Purge)' /\ \A s \in Slots \ {Purge} : job'[s] = job[s]
      BY <1>0, <2>2, CountsAfter
    <3> QED BY <1>b, <1>4, <3>1 DEF RemoveEnqueue
  <2> QED BY <1>4, <2>1, <2>2 DEF RemoveEnqueue, EnqueueOnce
<1>5. CASE PurgeNote
  <2>1. job' \in [Slots -> JobRow] /\ Charged(Purge)' /\ \A s \in Slots \ {Purge} : job'[s] = job[s]
    BY <1>0, <1>5, CountsAfter DEF PurgeNote
  <2>2. UNCHANGED <<run, cutOff, removal>> BY <1>5 DEF PurgeNote
  <2>3. ASSUME NEW g \in Gens PROVE Brief(g)'
    <3>1. gens'[g].content = gens[g].content /\ gens'[g].attempt = gens[g].attempt
      BY <1>5 DEF PurgeNote, Rows, Generation
    <3>2. job'[g] = job[g] /\ Brief(g) BY <1>0, <2>1 DEF BriefInv
    <3> QED BY <2>2, <3>1, <3>2 DEF Brief, Active, Running
  <2>4. \A s \in Slots : Charged(s)' BY <1>0, <2>1 DEF Charged
  <2> QED BY <1>0, <2>1, <2>2, <2>3, <2>4 DEF BriefInv
<1>6. CASE PurgeClaim \/ PurgeThrows \/ ReapPurge \/ RequeueStalledPurges
  <2>1. ClaimJob(Purge) \/ Fail(Purge) \/ Enqueue(Purge)
    BY <1>6 DEF PurgeClaim, PurgeThrows, ReapPurge, RequeueStalledPurges
  <2>2. job' \in [Slots -> JobRow] /\ Charged(Purge)' /\ \A s \in Slots \ {Purge} : job'[s] = job[s]
    BY <1>0, <2>1, CountsAfter
  <2>3. UNCHANGED <<gens, run, cutOff, removal>>
    BY <1>6 DEF PurgeClaim, PurgeThrows, ReapPurge, RequeueStalledPurges
  <2> QED BY <1>0, <1>b, <2>2, <2>3
<1>7. CASE \E r \in Readers : Reader(r) \/ ReaderSuffers(r)
  BY <1>0, <1>a, <1>7 DEF Reader, ReaderSuffers, ReaderConnects, ReaderPolls, ReaderReceives
<1>8. CASE Crash
  <2>1. /\ job' = [s \in Slots |-> IF Running(s) THEN [job[s] EXCEPT !.state = "abandoned"]
                                   ELSE job[s]]
        /\ UNCHANGED gens /\ removal' = "none" /\ cutOff' \subseteq Gens
        /\ \A g \in Gens : run'[g] = NoRun
    BY <1>0, <1>8 DEF Crash, AbandonAll
  <2>2. ASSUME NEW s \in Slots
        PROVE  /\ job'[s] \in JobRow /\ Charged(s)' /\ job'[s].hits = job[s].hits
               /\ job'[s].state \in {"none", "pending", "abandoned"}
               /\ Active(s)' => Active(s)
               /\ job'[s].state = "pending" => job[s].state = "pending"
    BY <1>0, <2>1 DEF JobRow, Running, Charged, Active
  <2>3. NoRun.pc = "idle" /\ NoRun.buffer = <<>> BY DEF NoRun
  <2>4. ASSUME NEW g \in Gens PROVE Brief(g)'
    <3>1. g \in Slots /\ Brief(g) BY <1>0 DEF BriefInv
    <3>2. /\ job'[g].hits = job[g].hits /\ Active(g)' => Active(g)
          /\ job'[g].state \in {"none", "pending", "abandoned"}
          /\ job'[g].state = "pending" => job[g].state = "pending"
      BY <2>2, <3>1
    <3> QED BY <2>1, <2>3, <3>1, <3>2, EmptyShort DEF Brief, Running
  <2>5. job' \in [Slots -> JobRow] BY <2>1, <2>2
  <2> QED BY <2>1, <2>2, <2>4, <2>5 DEF BriefInv
<1>9. CASE UNCHANGED vars BY <1>0, <1>a, <1>9 DEF vars
<1> QED BY <1>1, <1>2, <1>3, <1>4, <1>5, <1>6, <1>7, <1>8, <1>9 DEF Next, PurgeJob

\* The bodies that are written and saved are texts of somebody's.
LEMMA BodiesInit == Init => BodiesInv
BY DEF Init, BodiesInv, NoSave

\* A step that leaves the note's text and versions, and every save in its place.
LEMMA BodiesAside ==
  ASSUME BodiesInv, note'.body = note.body, UNCHANGED <<versions, save>> PROVE BodiesInv'
BY DEF BodiesInv, Bodied

\* A step that writes a version with the body of somebody's text.
LEMMA BodiesWrite ==
  ASSUME Rows, BodiesInv, NEW v, Bodied(v.body), versions' = Append(versions, v),
         note'.body = v.body, \A s \in Saves : save'[s].pc \in {"lookup", "write"} => save'[s] = save[s]
  PROVE  BodiesInv'
<1>1. versions \in Seq(Version) BY DEF Rows
<1>2. ASSUME NEW i \in 1..Len(versions') PROVE Bodied(versions'[i].body)
  <2>1. versions'[i] = v \/ (i \in 1..Len(versions) /\ versions'[i] = versions[i]) BY <1>1
  <2> QED BY <2>1 DEF BodiesInv
<1> QED BY <1>2 DEF BodiesInv, Bodied

LEMMA BodiesNext == Rows /\ BriefInv /\ BodiesInv /\ [Next]_vars => BodiesInv'
<1> SUFFICES ASSUME Rows, BriefInv, BodiesInv, [Next]_vars PROVE BodiesInv' OBVIOUS
<1> USE DEF noteVars, handlerVars, requestVars
<1>a. ASSUME UNCHANGED <<note, versions, save>> PROVE BodiesInv' BY <1>a, BodiesAside
<1>s. ASSUME NEW s \in Saves, UNCHANGED <<note, versions>>, NEW q, save' = [save EXCEPT ![s] = q],
             q.pc \in {"lookup", "write"} => Bodied(q.body)
      PROVE  BodiesInv'
  BY <1>s DEF BodiesInv, Bodied, Rows
<1>1. ASSUME NEW g \in Gens,
             \/ RegenerateAsk(g) \/ PreviewQueue(g) \/ PreviewExpire(g)
             \/ Load(g) \/ Return(g) \/ Prepare(g) \/ Refuse(g) \/ MarkStreaming(g) \/ Chunk(g)
             \/ Flush(g) \/ RateLimit(g) \/ StreamEnds(g) \/ CommitRead(g) \/ Announce(g)
             \/ Throw(g) \/ FailGeneration(g) \/ FailureUnrecorded(g) \/ Reap(g)
      PROVE  BodiesInv'
  BY <1>a, <1>1 DEF RegenerateAsk, PreviewQueue, PreviewExpire, Load, Return, Prepare, Refuse,
     MarkStreaming, Chunk, Flush, RateLimit, StreamEnds, CommitRead, Announce, Throw,
     FailGeneration, FailureUnrecorded, Reap
<1>2. ASSUME NEW g \in Gens, RegenerateQueue(g) \/ MarkGenerating(g) \/ FailNote(g)
      PROVE  BodiesInv'
  <2>1. note'.body = note.body
    BY <1>2 DEF RegenerateQueue, MarkGenerating, FailNote, Rows, Note
  <2>2. UNCHANGED <<versions, save>> BY <1>2 DEF RegenerateQueue, MarkGenerating, FailNote
  <2> QED BY <2>1, <2>2, BodiesAside
<1>3. ASSUME NEW g \in Gens, CommitWrite(g) PROVE BodiesInv'
  <2>1. CASE Gone \/ RowGone(g) \/ VersionTaken(run[g].base + 1)
    BY <1>3, <1>a, <2>1 DEF CommitWrite
  <2>2. CASE ~(Gone \/ RowGone(g) \/ VersionTaken(run[g].base + 1))
    <3> DEFINE v == [body |-> BodyOf(g, run[g].buffer), gen |-> g, batch |-> NoBatch,
                     saw |-> run[g].base]
    <3>1. Bodied(BodyOf(g, run[g].buffer)) BY DEF BriefInv, Brief, Bodied, BodyOf
    <3>2. versions' = Append(versions, v) /\ UNCHANGED save BY <1>3, <2>2 DEF CommitWrite
    <3>3. note'.body = v.body BY <1>3, <2>2 DEF CommitWrite, Rows, Note
    <3>4. Bodied(v.body) BY <3>1
    <3> HIDE DEF v
    <3> QED BY <3>2, <3>3, <3>4, BodiesWrite
  <2> QED BY <2>1, <2>2
<1>4. ASSUME NEW s \in Saves, SaveStep(s) PROVE BodiesInv'
  <2>0. \A b, a : Answered(b, a).pc = "answered" BY DEF Answered, NoSave
  <2>1. CASE SaveRead(s)
    <3> DEFINE req(d) ==
          IF ~Visible \/ note.status = "deleting" THEN Answered(d, "gone")
          ELSE IF note.status = "generating" THEN Answered(d, "generating")
          ELSE [pc |-> "lookup", batch |-> d.batch, base |-> d.base, body |-> SaveBody(d.batch),
                saw |-> note.version, status |-> note.status, answer |-> "none"]
    <3>1. PICK d \in Drafts : save' = [save EXCEPT ![s] = req(d)] BY <2>1 DEF SaveRead
    <3>2. d.batch \in Batches BY DEF Drafts
    <3>3. Bodied(SaveBody(d.batch)) BY <3>2, EmptyShort DEF SaveBody, Bodied
    <3>4. req(d).pc \in {"lookup", "write"} => Bodied(req(d).body) BY <2>0, <3>3
    <3>5. UNCHANGED <<note, versions>> BY <2>1 DEF SaveRead
    <3> HIDE DEF req
    <3> QED BY <1>s, <3>1, <3>4, <3>5
  <2>2. CASE SaveLookup(s)
    <3>1. UNCHANGED <<note, versions>> /\ save[s].pc = "lookup" BY <2>2 DEF SaveLookup
    <3>2. CASE \E a : Reply(s, a) BY <1>s, <2>0, <3>1, <3>2 DEF Reply
    <3>3. CASE save' = [save EXCEPT ![s].pc = "write"]
      <4>1. Bodied(save[s].body) BY <3>1 DEF BodiesInv
      <4> QED BY <3>1, <3>3, <4>1 DEF BodiesInv, Bodied, Rows, Request
    <3> QED BY <2>2, <3>2, <3>3 DEF SaveLookup
  <2>3. CASE RestoreRead(s)
    <3> DEFINE req(v) == [NoSave EXCEPT !.pc = "write", !.body = versions[v].body,
                                        !.base = note.version, !.saw = note.version,
                                        !.status = note.status]
    <3>1. PICK v \in 1..(Len(versions) - 1) : save' = [save EXCEPT ![s] = req(v)]
      BY <2>3 DEF RestoreRead
    <3>2. v \in 1..Len(versions) BY DEF Rows
    <3>3. Bodied(versions[v].body) BY <3>2 DEF BodiesInv
    <3>4. req(v).body = versions[v].body BY DEF NoSave
    <3>5. UNCHANGED <<note, versions>> BY <2>3 DEF RestoreRead
    <3>6. Bodied(req(v).body) BY <3>3, <3>4
    <3> HIDE DEF req
    <3> QED BY <1>s, <3>1, <3>5, <3>6
  <2>4. CASE SaveWrite(s)
    <3>1. CASE Visible /\ note.version = save[s].saw
      <4> DEFINE v == [body |-> save[s].body, gen |-> NoGen, batch |-> save[s].batch,
                       saw |-> save[s].saw]
      <4>1. versions' = Append(versions, v) /\ Reply(s, "saved") BY <2>4, <3>1 DEF SaveWrite
      <4>2. note'.body = v.body BY <2>4, <3>1 DEF SaveWrite, Rows, Note
      <4>3. Bodied(v.body) BY <2>4 DEF SaveWrite, BodiesInv
      <4>4. \A t \in Saves : save'[t].pc \in {"lookup", "write"} => save'[t] = save[t]
        BY <4>1, <2>0 DEF Reply, Rows
      <4> HIDE DEF v
      <4> QED BY <4>1, <4>2, <4>3, <4>4, BodiesWrite
    <3>2. CASE ~(Visible /\ note.version = save[s].saw)
      <4>1. Reply(s, "stale") /\ UNCHANGED <<note, versions>> BY <2>4, <3>2 DEF SaveWrite
      <4> QED BY <1>s, <2>0, <4>1 DEF Reply
    <3> QED BY <3>1, <3>2
  <2> QED BY <1>4, <2>1, <2>2, <2>3, <2>4 DEF SaveStep
<1>5. CASE RemoveAsk \/ RemoveEnqueue \/ PurgeClaim \/ PurgeThrows \/ ReapPurge \/ RequeueStalledPurges
  BY <1>5, <1>a DEF RemoveAsk, RemoveEnqueue, PurgeClaim, PurgeThrows, ReapPurge, RequeueStalledPurges
<1>6. CASE RemoveMark
  <2>1. note'.body = note.body BY <1>6 DEF RemoveMark, Rows, Note
  <2> QED BY <1>6, <2>1, BodiesAside DEF RemoveMark
<1>7. CASE PurgeNote
  <2>1. note'.body = <<>> /\ versions' = <<>> /\ UNCHANGED save BY <1>7 DEF PurgeNote, Rows, Note
  <2> QED BY <2>1 DEF BodiesInv, Bodied
<1>8. CASE \E r \in Readers : Reader(r) \/ ReaderSuffers(r)
  BY <1>a, <1>8 DEF Reader, ReaderSuffers, ReaderConnects, ReaderPolls, ReaderReceives
<1>9. CASE Crash
  <2>1. UNCHANGED <<note, versions>> BY <1>9 DEF Crash
  <2>2. \A s \in Saves : save'[s].pc \notin {"lookup", "write"} BY <1>9 DEF Crash, Answered, NoSave
  <2> QED BY <2>1, <2>2 DEF BodiesInv, Bodied
<1>10. CASE UNCHANGED vars BY <1>a, <1>10 DEF vars
<1> QED BY <1>1, <1>2, <1>3, <1>4, <1>5, <1>6, <1>7, <1>8, <1>9, <1>10 DEF Next, Handler, PurgeJob

-------------------------------------------------------------------------------
(* The streams.                                                            *)

\* What the server's side of a connection, a frame in flight and a page hold.
Link  == [open : BOOLEAN, offset : 0..MaxChunks, age : 0..CapPolls]
Sent  == [kind : {"delta", "done", "error"}, text : Short, offset : 0..MaxChunks]
Sheet == [state : {"idle", "watching", "done", "error"}, buffer : Short, lastId : 0..MaxChunks]

\* How far a page p will have come when the frames before w[i] have arrived.
Mark(p, w, i) == IF i = 1 THEN p.lastId ELSE w[i - 1].offset

\* Only a terminal frame comes last, and it has closed its connection; each delta starts no
\* later than where the frame before it ended.
Lined(c, p, w) ==
  /\ p.state \in {"idle", "watching"} => p.lastId = Len(p.buffer)
  /\ p.state = "idle" => p.buffer = <<>>
  /\ c.open \/ w # <<>> => p.state = "watching"
  /\ c.open => c.offset <= Mark(p, w, Len(w) + 1)
  /\ \A i \in 1..Len(w) :
       IF w[i].kind = "delta"
       THEN Len(w[i].text) <= w[i].offset /\ w[i].offset - Len(w[i].text) <= Mark(p, w, i)
       ELSE i = Len(w) /\ ~c.open

StreamInv ==
  /\ conn \in [Readers -> Link] /\ wire \in [Readers -> Seq(Sent)] /\ page \in [Readers -> Sheet]
  /\ watching \in [Readers -> Seq(Gens)] /\ route \in [Readers -> Gens \cup {NoGen}]
  /\ faults \in 0..Glitches
  /\ \A r \in Readers : /\ Lined(conn[r], page[r], wire[r])
                        /\ watching[r] = <<>> => page[r].state = "idle"

\* t is what comes in c after `from` and up to `to`.
Piece(t, c, from, to) ==
  /\ to <= Len(c) /\ Len(t) + from = to
  /\ \A j \in 1..Len(t) : t[j] = c[from + j]

\* The page, the frames and the cursor show a text c, which is over or not, without a gap.
Exact(k, p, w, c, over) ==
  /\ Begins(p.buffer, c)
  /\ k.open => k.offset = Mark(p, w, Len(w) + 1)
  /\ \A i \in 1..Len(w) :
       /\ w[i].kind = "delta" => Piece(w[i].text, c, Mark(p, w, i), w[i].offset)
       /\ w[i].kind = "done" => over /\ Mark(p, w, i) = Len(c)
  /\ p.state = "done" => over /\ Len(p.buffer) = Len(c)

\* r has watched g only, and g has not run twice.
Follows(r, g) == watching[r] = <<g>> /\ gens[g].attempt <= 1

ExactInv ==
  \A r \in Readers : \A g \in Gens :
    Follows(r, g) => Exact(conn[r], page[r], wire[r], gens[g].content, Over(g))

\* A frame more, and where the frames before it stand.
LEMMA MarkAppend ==
  ASSUME NEW p, NEW w \in Seq(Sent), NEW f \in Sent
  PROVE  /\ Append(w, f) \in Seq(Sent) /\ Len(Append(w, f)) = Len(w) + 1 /\ Append(w, f) # <<>>
         /\ \A i \in 1..Len(w) : Append(w, f)[i] = w[i] /\ Mark(p, Append(w, f), i) = Mark(p, w, i)
         /\ Append(w, f)[Len(w) + 1] = f
         /\ Mark(p, Append(w, f), Len(w) + 1) = Mark(p, w, Len(w) + 1)
         /\ Mark(p, Append(w, f), Len(w) + 2) = f.offset
BY AppendProperties DEF Mark

\* A frame less, when the page has come as far as it goes.
LEMMA MarkTail ==
  ASSUME NEW p, NEW q, NEW w \in Seq(Sent), w # <<>>, q.lastId = Head(w).offset
  PROVE  /\ Tail(w) \in Seq(Sent) /\ Len(Tail(w)) = Len(w) - 1 /\ Len(Tail(w)) \in Nat
         /\ \A i \in 1..Len(Tail(w)) :
              /\ i + 1 \in 1..Len(w) /\ Tail(w)[i] = w[i + 1]
              /\ Mark(q, Tail(w), i) = Mark(p, w, i + 1)
         /\ Mark(q, Tail(w), Len(Tail(w)) + 1) = Mark(p, w, Len(w) + 1)
<1>1. Tail(w) \in Seq(Sent) /\ Len(Tail(w)) = Len(w) - 1 /\ Len(w) \in Nat /\ Len(w) > 0
  BY HeadTailProperties
<1>2. \A i \in 1..Len(Tail(w)) : Tail(w)[i] = w[i + 1] BY HeadTailProperties
<1>3. Head(w) = w[1] OBVIOUS
<1>4. ASSUME NEW i \in 1..Len(w) PROVE Mark(q, Tail(w), i) = Mark(p, w, i + 1)
  <2>1. CASE i = 1 BY <1>3, <2>1 DEF Mark
  <2>2. CASE i # 1
    <3>1. i - 1 \in 1..Len(Tail(w)) BY <1>1, <2>2
    <3>2. Tail(w)[i - 1] = w[(i - 1) + 1] BY <1>2, <3>1
    <3> QED BY <2>2, <3>2 DEF Mark
  <2> QED BY <2>1, <2>2
<1> QED BY <1>1, <1>2, <1>4

\* The delta a read of the row sends, if it has anything new.
LEMMA AdvanceIs ==
  ASSUME NEW offset \in 0..MaxChunks, NEW c \in Short, Len(c) > offset
  PROVE  \E f \in Sent :
           /\ Advance(offset, c) = <<f>> /\ f.kind = "delta" /\ f.offset = Len(c)
           /\ Piece(f.text, c, offset, Len(c))
<1> DEFINE t == SubSeq(c, offset + 1, Len(c))
           f == Frame("delta", t, Len(c))
<1>1. c \in Seq(1..(MaxHits + 1)) /\ Len(c) \in Nat /\ Len(c) <= MaxChunks /\ offset \in Nat
  BY NoteAssumption DEF Short
<1>2. \A i \in (offset + 1)..Len(c) : c[i] \in 1..(MaxHits + 1)
  <2>1. c \in [1..Len(c) -> 1..(MaxHits + 1)] BY <1>1, LenProperties
  <2> QED BY <1>1, <2>1
<1>3. /\ t \in Seq(1..(MaxHits + 1)) /\ Len(t) = Len(c) - offset
      /\ \A j \in 1..(Len(c) - offset) : t[j] = c[offset + j]
  <2>1. offset + 1 \in Int /\ Len(c) \in Int BY <1>1
  <2>2. /\ t \in Seq(1..(MaxHits + 1))
        /\ Len(t) = IF offset + 1 <= Len(c) THEN Len(c) - (offset + 1) + 1 ELSE 0
        /\ \A j \in 1..(Len(c) - (offset + 1) + 1) : t[j] = c[offset + 1 + j - 1]
    BY <1>2, <2>1, SubSeqProperties
  <2> HIDE DEF t
  <2> QED BY <1>1, <2>2
<1> HIDE DEF t
<1>4. t \in Short /\ Piece(t, c, offset, Len(c)) BY <1>1, <1>3, NoteAssumption DEF Short, Piece
<1>5. f \in Sent /\ f.kind = "delta" /\ f.offset = Len(c) /\ f.text = t
  BY <1>1, <1>4, NoteAssumption DEF Frame, Sent
<1>6. Advance(offset, c) = <<f>> BY <1>1 DEF Advance, t
<1> QED BY <1>4, <1>5, <1>6

\* A delta that starts where the buffer ends, or before, is written where it belongs.
LEMMA ApplyIs ==
  ASSUME NEW b \in Short, NEW f \in Sent, Len(f.text) <= f.offset, f.offset - Len(f.text) <= Len(b)
  PROVE  /\ ApplyDelta(b, f) \in Short /\ Len(ApplyDelta(b, f)) = f.offset
         /\ \A i \in 1..f.offset :
              ApplyDelta(b, f)[i] = IF i <= f.offset - Len(f.text) THEN b[i]
                                    ELSE f.text[i - (f.offset - Len(f.text))]
<1> DEFINE start == f.offset - Len(f.text)
           s == SubSeq(b, 1, start)
           S == 1..(MaxHits + 1)
<1>1. /\ b \in Seq(S) /\ Len(b) \in Nat /\ f.text \in Seq(S) /\ Len(f.text) \in Nat
      /\ f.offset \in Nat /\ f.offset <= MaxChunks
  BY NoteAssumption DEF Short, Sent
<1>2. start \in Nat /\ start <= Len(b) BY <1>1
<1>3. s \in Seq(S) /\ Len(s) = start /\ \A i \in 1..start : s[i] = b[i]
  <2>1. \A i \in 1..start : b[i] \in S
    <3>1. b \in [1..Len(b) -> S] BY <1>1, LenProperties
    <3> QED BY <1>1, <1>2, <3>1
  <2>2. 1 \in Int /\ start \in Int BY <1>2
  <2>3. /\ s \in Seq(S) /\ Len(s) = IF 1 <= start THEN start - 1 + 1 ELSE 0
        /\ \A i \in 1..(start - 1 + 1) : s[i] = b[1 + i - 1]
    BY <2>1, <2>2, SubSeqProperties
  <2> HIDE DEF s, start
  <2> QED BY <1>2, <2>3
<1>4. ApplyDelta(b, f) = s \o f.text
  <2>1. ~(f.offset < Len(f.text) \/ start > Len(b)) BY <1>1, <1>2
  <2> QED BY <2>1 DEF ApplyDelta
<1>5. /\ s \o f.text \in Seq(S) /\ Len(s \o f.text) = Len(s) + Len(f.text)
      /\ \A i \in 1..(Len(s) + Len(f.text)) :
           (s \o f.text)[i] = IF i <= Len(s) THEN s[i] ELSE f.text[i - Len(s)]
  BY <1>1, <1>3, ConcatProperties
<1>6. Len(s) + Len(f.text) = f.offset BY <1>1, <1>3
<1>7. ApplyDelta(b, f) \in Short BY <1>1, <1>4, <1>5, <1>6 DEF Short
<1>8. ASSUME NEW i \in 1..f.offset
      PROVE  ApplyDelta(b, f)[i] = IF i <= start THEN b[i] ELSE f.text[i - start]
  <2>1. (s \o f.text)[i] = IF i <= Len(s) THEN s[i] ELSE f.text[i - Len(s)] BY <1>5, <1>6
  <2>2. i <= start => s[i] = b[i] BY <1>1, <1>2, <1>3
  <2> QED BY <1>3, <1>4, <2>1, <2>2
<1> QED BY <1>4, <1>5, <1>6, <1>7, <1>8

\* A connection that is over is well formed.
LEMMA NoConnTyped == NoConn \in Link /\ ~NoConn.open
BY NoteAssumption, StreamAssumption DEF NoConn, Link

\* What is true of an open connection's frames stays true when one more is sent, if that
\* starts no later than where the frames before it ended.
LEMMA LinedSend ==
  ASSUME NEW k \in Link, NEW p \in Sheet, NEW w \in Seq(Sent), Lined(k, p, w), k.open,
         NEW f \in Sent, NEW l \in Link,
         f.kind = "delta" => Len(f.text) <= f.offset /\ f.offset - Len(f.text) <= Mark(p, w, Len(w) + 1),
         l.open => f.kind = "delta" /\ l.offset <= f.offset
  PROVE  Lined(l, p, Append(w, f))
<1> DEFINE v == Append(w, f)
<1>0. Len(w) \in Nat OBVIOUS
<1>1. /\ Len(v) = Len(w) + 1 /\ v # <<>>
      /\ \A i \in 1..Len(w) : v[i] = w[i] /\ Mark(p, v, i) = Mark(p, w, i)
      /\ v[Len(w) + 1] = f
      /\ Mark(p, v, Len(w) + 1) = Mark(p, w, Len(w) + 1) /\ Mark(p, v, Len(w) + 2) = f.offset
  BY MarkAppend
<1> HIDE DEF v
<1>2. \A i \in 1..Len(w) : w[i].kind = "delta" BY DEF Lined
<1>3. ASSUME NEW i \in 1..Len(v)
      PROVE  IF v[i].kind = "delta"
             THEN Len(v[i].text) <= v[i].offset /\ v[i].offset - Len(v[i].text) <= Mark(p, v, i)
             ELSE i = Len(v) /\ ~l.open
  <2>1. CASE i \in 1..Len(w) BY <1>1, <1>2, <2>1 DEF Lined
  <2>2. CASE i = Len(w) + 1 BY <1>0, <1>1, <2>2
  <2> QED BY <1>0, <1>1, <2>1, <2>2
<1>4. p.state = "watching" BY DEF Lined
<1>5. l.open => l.offset <= Mark(p, v, Len(v) + 1) BY <1>0, <1>1
<1> QED BY <1>1, <1>3, <1>4, <1>5 DEF Lined, v

\* The same for what shows a text without a gap.
LEMMA ExactSend ==
  ASSUME NEW k \in Link, NEW p \in Sheet, NEW w \in Seq(Sent), NEW c \in Short, NEW over \in BOOLEAN,
         Exact(k, p, w, c, over), k.open, NEW f \in Sent, NEW l \in Link,
         f.kind = "delta" => Piece(f.text, c, k.offset, f.offset),
         f.kind = "done" => over /\ k.offset = Len(c),
         l.open => l.offset = f.offset
  PROVE  Exact(l, p, Append(w, f), c, over)
<1> DEFINE v == Append(w, f)
<1>1. /\ Len(v) = Len(w) + 1 /\ Len(w) \in Nat
      /\ \A i \in 1..Len(w) : v[i] = w[i] /\ Mark(p, v, i) = Mark(p, w, i)
      /\ v[Len(w) + 1] = f
      /\ Mark(p, v, Len(w) + 1) = Mark(p, w, Len(w) + 1) /\ Mark(p, v, Len(w) + 2) = f.offset
  BY MarkAppend
<1> HIDE DEF v
<1>2. Mark(p, w, Len(w) + 1) = k.offset BY DEF Exact
<1>3. ASSUME NEW i \in 1..Len(v)
      PROVE  /\ v[i].kind = "delta" => Piece(v[i].text, c, Mark(p, v, i), v[i].offset)
             /\ v[i].kind = "done" => over /\ Mark(p, v, i) = Len(c)
  <2>1. CASE i \in 1..Len(w) BY <1>1, <2>1 DEF Exact
  <2>2. CASE i = Len(w) + 1 BY <1>1, <1>2, <2>2
  <2> QED BY <1>1, <2>1, <2>2
<1>4. l.open => l.offset = Mark(p, v, Len(v) + 1) BY <1>1
<1> QED BY <1>3, <1>4 DEF Exact, v

\* An open connection has sent no more than the text there is.
LEMMA MarkInText ==
  ASSUME NEW k \in Link, NEW p \in Sheet, NEW w \in Seq(Sent), NEW c \in Short, NEW over \in BOOLEAN,
         Lined(k, p, w), Exact(k, p, w, c, over), k.open
  PROVE  k.offset <= Len(c)
<1>0. Len(w) \in Nat /\ k.offset = Mark(p, w, Len(w) + 1) BY DEF Exact
<1>1. CASE Len(w) = 0
  <2>1. k.offset = Len(p.buffer) BY <1>0, <1>1 DEF Mark, Lined
  <2> QED BY <2>1 DEF Exact, Begins
<1>2. CASE Len(w) # 0
  <2>1. Len(w) \in 1..Len(w) /\ k.offset = w[Len(w)].offset BY <1>0, <1>2 DEF Mark
  <2>2. w[Len(w)].kind = "delta" BY <2>1 DEF Lined
  <2> QED BY <2>1, <2>2 DEF Exact, Piece
<1> QED BY <1>1, <1>2

\* A text that goes on growing, or is over and stays, is still shown without a gap.
LEMMA ExactGrows ==
  ASSUME NEW k \in Link, NEW p \in Sheet, NEW w \in Seq(Sent), NEW c \in Short, NEW d \in Short,
         NEW over \in BOOLEAN, NEW done \in BOOLEAN,
         Exact(k, p, w, c, over), Begins(c, d), over => done /\ d = c,
         \A i \in 1..(Len(w) + 1) : Mark(p, w, i) \in Nat
  PROVE  Exact(k, p, w, d, done)
<1>0. Len(c) \in Nat /\ Len(d) \in Nat /\ Len(p.buffer) \in Nat /\ Len(w) \in Nat
  BY DEF Short, Sheet
<1>1. Begins(p.buffer, d) BY <1>0 DEF Exact, Begins
<1>2. ASSUME NEW i \in 1..Len(w), w[i].kind = "delta"
      PROVE  Piece(w[i].text, d, Mark(p, w, i), w[i].offset)
  <2>1. Piece(w[i].text, c, Mark(p, w, i), w[i].offset) BY <1>2 DEF Exact
  <2>2. w[i].offset \in Nat /\ Len(w[i].text) \in Nat /\ Mark(p, w, i) \in Nat
    <3>1. w[i] \in Sent OBVIOUS
    <3>2. w[i].offset \in 0..MaxChunks /\ w[i].text \in Short BY <3>1 DEF Sent
    <3>3. i \in 1..(Len(w) + 1) BY <1>0
    <3> QED BY <3>2, <3>3, NoteAssumption DEF Short
  <2>3. ASSUME NEW j \in 1..Len(w[i].text) PROVE w[i].text[j] = d[Mark(p, w, i) + j]
    <3>1. Mark(p, w, i) + j \in 1..Len(c) BY <1>0, <2>1, <2>2 DEF Piece
    <3> QED BY <2>1, <3>1 DEF Piece, Begins
  <2> QED BY <1>0, <2>1, <2>2, <2>3 DEF Piece, Begins
<1> QED BY <1>0, <1>1, <1>2 DEF Exact

\* What a page has come to is a number.
LEMMA MarkTyped ==
  ASSUME NEW p \in Sheet, NEW w \in Seq(Sent)
  PROVE  \A i \in 1..(Len(w) + 1) : Mark(p, w, i) \in 0..MaxChunks
<1> SUFFICES ASSUME NEW i \in 1..(Len(w) + 1) PROVE Mark(p, w, i) \in 0..MaxChunks OBVIOUS
<1>1. CASE i = 1 BY <1>1 DEF Mark, Sheet
<1>2. CASE i # 1
  <2>1. i - 1 \in 1..Len(w) BY <1>2
  <2>2. w[i - 1] \in Sent BY <2>1
  <2> QED BY <1>2, <2>2 DEF Mark, Sent
<1> QED BY <1>1, <1>2

\* The text a read of the row finds new is sent.
Reads(k, w, m, v, row) ==
  /\ m.open
  /\ \/ row.status = "gone" /\ v = w /\ m.offset = k.offset
     \/ row.status # "gone" /\ v = w /\ m.offset = Len(row.content) /\ Len(row.content) <= k.offset
     \/ /\ row.status # "gone" /\ m.offset = Len(row.content)
        /\ \E f \in Sent : /\ v = Append(w, f) /\ f.kind = "delta" /\ f.offset = Len(row.content)
                           /\ Piece(f.text, row.content, k.offset, Len(row.content))

\* Then the connection goes on, or ends with a terminal frame.
Ends(m, v, l, x, row) ==
  \/ l.open /\ l.offset = m.offset /\ x = v
  \/ /\ ~l.open
     /\ \E f \in Sent : /\ x = Append(v, f) /\ f.kind \in {"done", "error"} /\ f.offset = m.offset
                        /\ f.kind = "done" => row.status = "succeeded"

\* A read of the row is one after the other.
LEMMA PollIs ==
  ASSUME conn \in [Readers -> Link], wire \in [Readers -> Seq(Sent)], NEW r \in Readers, NEW row,
         row.content \in Short, Poll(r, row)
  PROVE  /\ conn[r].open /\ UNCHANGED <<page, faults>>
         /\ \E m \in Link, l \in Link : \E v \in Seq(Sent), x \in Seq(Sent) :
              /\ Reads(conn[r], wire[r], m, v, row) /\ Ends(m, v, l, x, row)
              /\ conn' = [conn EXCEPT ![r] = l] /\ wire' = [wire EXCEPT ![r] = x]
<1> DEFINE k == conn[r]
           w == wire[r]
           n == Len(row.content)
           offset == IF row.status = "gone" THEN k.offset ELSE n
           sent == IF row.status = "gone" THEN <<>> ELSE Advance(k.offset, row.content)
           end  == Ending(row.status, k.age)
           m == [open |-> TRUE, offset |-> offset, age |-> k.age]
           l == IF end # "none" THEN NoConn ELSE [open |-> TRUE, offset |-> n, age |-> Older(k.age)]
           v == w \o sent
           f == Frame(end, <<>>, offset)
           x == v \o (IF end = "none" THEN <<>> ELSE <<f>>)
<1>1. k \in Link /\ w \in Seq(Sent) /\ k.offset \in 0..MaxChunks /\ k.age \in 0..CapPolls
  BY DEF Link
<1>2. n \in 0..MaxChunks /\ n \in Nat BY NoteAssumption DEF Short
<1>3. /\ conn[r].open /\ UNCHANGED <<page, faults>>
      /\ wire' = [wire EXCEPT ![r] = x] /\ conn' = [conn EXCEPT ![r] = l]
  BY DEF Poll
<1>4. end \in {"none", "done", "error"} /\ (end = "done" => row.status = "succeeded")
      /\ (row.status = "gone" => end = "error")
  BY DEF Ending
<1>5. m \in Link BY <1>1, <1>2 DEF Link
<1>6. l \in Link /\ (l.open <=> end = "none") /\ (l.open => l.offset = n)
  BY <1>1, <1>2, NoConnTyped, StreamAssumption DEF Link, Older
<1>7. v \in Seq(Sent) /\ Reads(k, w, m, v, row)
  <2>1. w \o <<>> = w BY <1>1, ConcatEmptySeq
  <2>2. CASE row.status = "gone" BY <1>1, <2>1, <2>2 DEF Reads
  <2>3. CASE row.status # "gone" /\ n <= k.offset
    <3>1. sent = <<>> BY <1>1, <1>2, <2>3 DEF Advance
    <3> QED BY <1>1, <2>1, <2>3, <3>1 DEF Reads
  <2>4. CASE row.status # "gone" /\ n > k.offset
    <3>1. PICK e \in Sent : /\ Advance(k.offset, row.content) = <<e>> /\ e.kind = "delta"
                            /\ e.offset = n /\ Piece(e.text, row.content, k.offset, n)
      BY <1>1, <2>4, AdvanceIs
    <3>2. v = Append(w, e)
      <4>1. Append(w, e) = w \o <<e>> BY <1>1, AppendIsConcat
      <4>2. v = w \o Advance(k.offset, row.content) BY <2>4
      <4> HIDE DEF v
      <4> QED BY <3>1, <4>1, <4>2
    <3>3. Append(w, e) \in Seq(Sent) BY <1>1, AppendProperties
    <3> HIDE DEF v
    <3> QED BY <2>4, <3>1, <3>2, <3>3 DEF Reads
  <2> QED BY <1>1, <1>2, <2>2, <2>3, <2>4
<1>8. x \in Seq(Sent) /\ Ends(m, v, l, x, row)
  <2> HIDE DEF v
  <2>1. CASE end = "none"
    <3>1. x = v BY <1>7, <2>1, ConcatEmptySeq
    <3> QED BY <1>4, <1>6, <1>7, <2>1, <3>1 DEF Ends
  <2>2. CASE end # "none"
    <3>1. f \in Sent /\ f.kind = end /\ f.offset = offset
      BY <1>1, <1>2, <1>4, <2>2, EmptyShort DEF Frame, Sent
    <3> HIDE DEF f
    <3>2. x = Append(v, f) BY <1>7, <2>2, <3>1, AppendIsConcat
    <3>3. x \in Seq(Sent) BY <1>7, <3>1, <3>2, AppendProperties
    <3> QED BY <1>4, <1>6, <2>2, <3>1, <3>2, <3>3 DEF Ends
  <2> QED BY <2>1, <2>2
<1> HIDE DEF k, w, m, v, l, x
<1> QED BY <1>3, <1>5, <1>6, <1>7, <1>8 DEF k, w

\* It keeps the frames in line,
LEMMA LinedPoll ==
  ASSUME NEW k \in Link, NEW p \in Sheet, NEW w \in Seq(Sent), Lined(k, p, w), k.open,
         NEW row, row.content \in Short, NEW m \in Link, NEW l \in Link,
         NEW v \in Seq(Sent), NEW x \in Seq(Sent),
         Reads(k, w, m, v, row), Ends(m, v, l, x, row)
  PROVE  Lined(l, p, x)
<1>0. k.offset \in Nat /\ m.offset \in Nat /\ l.offset \in Nat /\ k.offset <= Mark(p, w, Len(w) + 1)
      /\ Mark(p, w, Len(w) + 1) \in Nat /\ Len(row.content) \in Nat
  <2>1. Len(w) + 1 \in 1..(Len(w) + 1) OBVIOUS
  <2>2. Mark(p, w, Len(w) + 1) \in 0..MaxChunks BY <2>1, MarkTyped
  <2> QED BY <2>2, NoteAssumption DEF Link, Lined, Short
<1>1. Lined(m, p, v)
  <2>1. CASE v = w /\ m.offset <= k.offset BY <1>0, <2>1 DEF Lined
  <2>2. CASE \E f \in Sent : /\ v = Append(w, f) /\ f.kind = "delta" /\ f.offset = Len(row.content)
                             /\ m.offset = Len(row.content)
                             /\ Piece(f.text, row.content, k.offset, Len(row.content))
    <3>1. PICK f \in Sent : /\ v = Append(w, f) /\ f.kind = "delta" /\ f.offset = Len(row.content)
                            /\ m.offset = Len(row.content)
                            /\ Piece(f.text, row.content, k.offset, Len(row.content))
      BY <2>2
    <3>2. Len(f.text) \in Nat BY DEF Sent, Short
    <3>3. Len(f.text) + k.offset = f.offset BY <3>1 DEF Piece
    <3>4. Len(f.text) <= f.offset /\ f.offset - Len(f.text) <= Mark(p, w, Len(w) + 1)
      BY <1>0, <3>2, <3>3
    <3>5. m.offset <= f.offset BY <1>0, <3>1
    <3> QED BY <3>1, <3>4, <3>5, LinedSend
  <2> QED BY <1>0, <2>1, <2>2 DEF Reads
<1>2. CASE l.open /\ l.offset = m.offset /\ x = v BY <1>1, <1>2 DEF Reads, Lined
<1>3. CASE ~l.open /\ \E f \in Sent : x = Append(v, f) /\ f.kind \in {"done", "error"}
  <2>1. PICK f \in Sent : x = Append(v, f) /\ f.kind \in {"done", "error"} BY <1>3
  <2>2. m.open BY DEF Reads
  <2> QED BY <1>1, <1>3, <2>1, <2>2, LinedSend
<1> QED BY <1>2, <1>3 DEF Ends

\* and shows the text it reads without a gap.
LEMMA ExactPoll ==
  ASSUME NEW k \in Link, NEW p \in Sheet, NEW w \in Seq(Sent), Lined(k, p, w), k.open,
         NEW row, row.content \in Short, NEW m \in Link, NEW l \in Link,
         NEW v \in Seq(Sent), NEW x \in Seq(Sent),
         Reads(k, w, m, v, row), Ends(m, v, l, x, row),
         NEW c \in Short, NEW over \in BOOLEAN, Exact(k, p, w, c, over),
         row.status = "gone" \/ row.content = c, row.status = "succeeded" => over
  PROVE  Exact(l, p, x, c, over)
<1>0. k.offset \in Nat /\ m.offset \in Nat /\ l.offset \in Nat /\ Len(c) \in Nat /\ k.offset <= Len(c)
  <2>1. k.offset <= Len(c) BY MarkInText
  <2>2. Len(c) \in Nat BY DEF Short
  <2> QED BY <2>1, <2>2, NoteAssumption DEF Link
<1>1. Exact(m, p, v, c, over) /\ (row.status # "gone" => m.offset = Len(c))
  <2>1. CASE v = w /\ m.offset = k.offset BY <1>0, <2>1 DEF Exact, Reads
  <2>2. CASE \E f \in Sent : /\ v = Append(w, f) /\ f.kind = "delta" /\ f.offset = Len(row.content)
                             /\ m.offset = Len(row.content) /\ row.status # "gone"
                             /\ Piece(f.text, row.content, k.offset, Len(row.content))
    BY <2>2, ExactSend
  <2> QED BY <1>0, <2>1, <2>2 DEF Reads
<1>2. CASE l.open /\ l.offset = m.offset /\ x = v BY <1>1, <1>2 DEF Reads, Exact
<1>3. CASE ~l.open /\ \E f \in Sent : /\ x = Append(v, f) /\ f.kind \in {"done", "error"}
                                      /\ f.kind = "done" => row.status = "succeeded"
  <2>1. PICK f \in Sent : /\ x = Append(v, f) /\ f.kind \in {"done", "error"}
                          /\ f.kind = "done" => row.status = "succeeded"
    BY <1>3
  <2>2. m.open BY DEF Reads
  <2>3. f.kind = "done" => over /\ m.offset = Len(c)
    <3>1. row.status = "succeeded" => row.status # "gone" OBVIOUS
    <3> QED BY <1>1, <2>1, <3>1
  <2> QED BY <1>1, <1>3, <2>1, <2>2, <2>3, ExactSend
<1> QED BY <1>2, <1>3 DEF Ends

\* How a text begins, with the piece that comes next, is how it begins.
LEMMA BeginsPiece ==
  ASSUME NEW s \in Short, NEW c \in Short, Begins(s, c), NEW f \in Sent,
         Piece(f.text, c, Len(s), f.offset), NEW b, Len(b) = f.offset,
         \A i \in 1..f.offset : b[i] = IF i <= f.offset - Len(f.text) THEN s[i]
                                      ELSE f.text[i - (f.offset - Len(f.text))]
  PROVE  Begins(b, c)
<1>1. Len(s) \in Nat /\ Len(c) \in Nat /\ Len(f.text) \in Nat /\ f.offset \in Nat
  BY NoteAssumption DEF Short, Sent
<1>2. f.offset <= Len(c) /\ Len(f.text) + Len(s) = f.offset BY DEF Piece
<1>3. f.offset - Len(f.text) = Len(s) BY <1>1, <1>2
<1>4. ASSUME NEW i \in 1..f.offset PROVE b[i] = c[i]
  <2>1. CASE i <= Len(s)
    <3>1. b[i] = s[i] BY <1>3, <2>1
    <3>2. i \in 1..Len(s) BY <1>1, <2>1
    <3> QED BY <3>1, <3>2 DEF Begins
  <2>2. CASE ~(i <= Len(s))
    <3>1. b[i] = f.text[i - Len(s)] BY <1>3, <2>2
    <3>2. i - Len(s) \in 1..Len(f.text) BY <1>1, <1>2, <2>2
    <3>3. f.text[i - Len(s)] = c[Len(s) + (i - Len(s))] BY <3>2 DEF Piece
    <3>4. Len(s) + (i - Len(s)) = i BY <1>1
    <3> QED BY <3>1, <3>3, <3>4
  <2> QED BY <2>1, <2>2
<1> QED BY <1>2, <1>4 DEF Begins

\* A delta that arrives leaves the others in line and the text without a gap.
LEMMA DeliverDelta ==
  ASSUME NEW k \in Link, NEW p \in Sheet, NEW w \in Seq(Sent), Lined(k, p, w), w # <<>>,
         Head(w).kind = "delta", NEW q, q.state = p.state, q.buffer = ApplyDelta(p.buffer, Head(w)),
         q.lastId = Head(w).offset
  PROVE  /\ q.buffer \in Short /\ q.lastId \in 0..MaxChunks /\ q.state = "watching"
         /\ Tail(w) \in Seq(Sent) /\ Lined(k, q, Tail(w))
         /\ \A c \in Short, over \in BOOLEAN :
              Exact(k, p, w, c, over) => Exact(k, q, Tail(w), c, over)
<1> DEFINE f == Head(w)
           b == ApplyDelta(p.buffer, f)
           v == Tail(w)
<1>1. f \in Sent /\ f = w[1] /\ 1 \in 1..Len(w)
  <2>1. Len(w) \in Nat \ {0} BY EmptySeq
  <2> QED BY <2>1
<1>2. p.state = "watching" /\ p.lastId = Len(p.buffer) /\ Mark(p, w, 1) = p.lastId BY DEF Lined, Mark
<1>3. Len(f.text) <= f.offset /\ f.offset - Len(f.text) <= Len(p.buffer) BY <1>1, <1>2 DEF Lined
<1>4. p.buffer \in Short BY DEF Sheet
<1> HIDE DEF f
<1>5. /\ b \in Short /\ Len(b) = f.offset
      /\ \A i \in 1..f.offset :
           b[i] = IF i <= f.offset - Len(f.text) THEN p.buffer[i]
                  ELSE f.text[i - (f.offset - Len(f.text))]
  BY <1>1, <1>3, <1>4, ApplyIs
<1> HIDE DEF b
<1>6. /\ q.state = "watching" /\ q.buffer = b /\ q.lastId = f.offset
      /\ f.offset \in 0..MaxChunks
  BY <1>1, <1>2 DEF b, f, Sent
<1>7. /\ v \in Seq(Sent) /\ Len(v) = Len(w) - 1 /\ Len(v) \in Nat
      /\ \A i \in 1..Len(v) : /\ i + 1 \in 1..Len(w) /\ v[i] = w[i + 1]
                              /\ Mark(q, v, i) = Mark(p, w, i + 1)
      /\ Mark(q, v, Len(v) + 1) = Mark(p, w, Len(w) + 1)
  BY MarkTail
<1> HIDE DEF v
<1>8. Lined(k, q, v)
  <2>1. ASSUME NEW i \in 1..Len(v)
        PROVE  IF v[i].kind = "delta"
               THEN Len(v[i].text) <= v[i].offset /\ v[i].offset - Len(v[i].text) <= Mark(q, v, i)
               ELSE i = Len(v) /\ ~k.open
    <3>1. /\ i + 1 \in 1..Len(w) /\ v[i] = w[i + 1] /\ Mark(q, v, i) = Mark(p, w, i + 1)
          /\ i + 1 = Len(w) => i = Len(v)
      BY <1>7
    <3>2. IF w[i + 1].kind = "delta"
          THEN Len(w[i + 1].text) <= w[i + 1].offset
               /\ w[i + 1].offset - Len(w[i + 1].text) <= Mark(p, w, i + 1)
          ELSE i + 1 = Len(w) /\ ~k.open
      BY <3>1 DEF Lined
    <3> QED BY <3>1, <3>2
  <2>2. k.open => k.offset <= Mark(q, v, Len(v) + 1) BY <1>7 DEF Lined
  <2> QED BY <1>5, <1>6, <2>1, <2>2 DEF Lined
<1>9. ASSUME NEW c \in Short, NEW over \in BOOLEAN, Exact(k, p, w, c, over)
      PROVE  Exact(k, q, v, c, over)
  <2>1. Piece(f.text, c, Len(p.buffer), f.offset) BY <1>1, <1>2, <1>9 DEF Exact, f
  <2>2. Begins(p.buffer, c) BY <1>9 DEF Exact
  <2>3. f.text \in Short /\ f.offset \in Nat BY <1>1, NoteAssumption DEF Sent
  <2>4. Begins(b, c) BY <1>1, <1>4, <1>5, <2>1, <2>2, BeginsPiece
  <2>5. ASSUME NEW i \in 1..Len(v)
        PROVE  /\ v[i].kind = "delta" => Piece(v[i].text, c, Mark(q, v, i), v[i].offset)
               /\ v[i].kind = "done" => over /\ Mark(q, v, i) = Len(c)
    <3>1. i + 1 \in 1..Len(w) /\ v[i] = w[i + 1] /\ Mark(q, v, i) = Mark(p, w, i + 1) BY <1>7
    <3> QED BY <1>9, <3>1 DEF Exact
  <2>6. k.open => k.offset = Mark(q, v, Len(v) + 1) BY <1>7, <1>9 DEF Exact
  <2>7. Begins(q.buffer, c) BY <1>6, <2>4
  <2>8. q.state # "done" BY <1>6
  <2> QED BY <2>5, <2>6, <2>7, <2>8 DEF Exact
<1> QED BY <1>5, <1>6, <1>7, <1>8, <1>9 DEF v

\* A terminal frame that arrives, when it says that all has been sent, comes when all has.
LEMMA DeliverEnd ==
  ASSUME NEW k \in Link, NEW p \in Sheet, NEW w \in Seq(Sent), Lined(k, p, w), w # <<>>,
         Head(w).kind # "delta", NEW q, q = [p EXCEPT !.state = Head(w).kind, !.lastId = Head(w).offset]
  PROVE  /\ q \in Sheet /\ q.state # "idle" /\ Lined(NoConn, q, <<>>)
         /\ \A c \in Short, over \in BOOLEAN :
              Exact(k, p, w, c, over) => Exact(NoConn, q, <<>>, c, over)
<1>1. Head(w) \in Sent /\ Head(w) = w[1] /\ 1 \in 1..Len(w)
  <2>1. Len(w) \in Nat \ {0} BY EmptySeq
  <2> QED BY <2>1
<1>2. q \in Sheet /\ q.state = Head(w).kind /\ q.state \in {"done", "error"} /\ q.buffer = p.buffer
  BY <1>1 DEF Sent, Sheet
<1>3. Lined(NoConn, q, <<>>) BY <1>2, NoConnTyped DEF Lined
<1>4. ASSUME NEW c \in Short, NEW over \in BOOLEAN, Exact(k, p, w, c, over)
      PROVE  Exact(NoConn, q, <<>>, c, over)
  <2>1. p.lastId = Len(p.buffer) /\ Mark(p, w, 1) = p.lastId BY DEF Lined, Mark
  <2>2. Head(w).kind = "done" => over /\ Len(p.buffer) = Len(c) BY <1>1, <1>4, <2>1 DEF Exact
  <2> QED BY <1>2, <1>4, <2>2, NoConnTyped DEF Exact
<1> QED BY <1>2, <1>3, <1>4

\* A connection that opens starts where the page has come to.
LEMMA ConnectIs ==
  ASSUME NEW k \in Link, NEW p \in Sheet, NEW w \in Seq(Sent), Lined(k, p, w), w = <<>>,
         p.state \in {"idle", "watching"},
         NEW l \in Link, l.open, l.offset = p.lastId,
         NEW q \in Sheet, q.state = "watching", q.buffer = p.buffer, q.lastId = p.lastId
  PROVE  /\ Lined(l, q, w)
         /\ \A c \in Short, over \in BOOLEAN :
              /\ Exact(k, p, w, c, over) => Exact(l, q, w, c, over)
              /\ p.state = "idle" => Exact(l, q, w, c, over)
<1>1. Len(w) = 0 /\ Mark(q, w, Len(w) + 1) = p.lastId BY DEF Mark
<1>2. p.lastId = Len(p.buffer) /\ (p.state = "idle" => p.buffer = <<>>) BY DEF Lined
<1>3. p.lastId \in Nat BY NoteAssumption DEF Sheet
<1>4. Lined(l, q, w) BY <1>1, <1>2, <1>3 DEF Lined
<1>5. ASSUME NEW c \in Short, NEW over \in BOOLEAN
      PROVE  Begins(p.buffer, c) => Exact(l, q, w, c, over)
  BY <1>1 DEF Exact
<1>6. \A c \in Short : p.state = "idle" => Begins(p.buffer, c) BY <1>2 DEF Begins, Short
<1> QED BY <1>4, <1>5, <1>6 DEF Exact

\* A connection that breaks takes its frames with it.
LEMMA BreakIs ==
  ASSUME NEW k \in Link, NEW p \in Sheet, NEW w \in Seq(Sent), Lined(k, p, w)
  PROVE  /\ Lined(NoConn, p, <<>>)
         /\ \A c \in Short, over \in BOOLEAN :
              Exact(k, p, w, c, over) => Exact(NoConn, p, <<>>, c, over)
BY NoConnTyped DEF Lined, Exact

\* To begin with nobody watches.
LEMMA PagesInit == Init => StreamInv /\ ExactInv
<1> SUFFICES ASSUME Init PROVE StreamInv /\ ExactInv OBVIOUS
<1>1. /\ conn = [r \in Readers |-> NoConn] /\ wire = [r \in Readers |-> <<>>]
      /\ page = [r \in Readers |-> NewPage] /\ faults = Glitches
      /\ watching = [r \in Readers |-> <<>>]
  BY DEF Init, StreamInit
<1>2. NewPage \in Sheet /\ NewPage.state = "idle" /\ NewPage.buffer = <<>> /\ NewPage.lastId = 0
  BY EmptyShort, NoteAssumption DEF NewPage, Sheet
<1>3. route \in [Readers -> Gens \cup {NoGen}]
  <2>1. PICK scene \in Scenes : route = scene.route BY DEF Init
  <2>2. scene \in [note : BOOLEAN, route : [Readers -> Gens \cup {NoGen}]] BY NoteAssumption
  <2> QED BY <2>1, <2>2
<1>4. Lined(NoConn, NewPage, <<>>) BY <1>2, NoConnTyped DEF Lined
<1>5. StreamInv
  <2>1. faults \in 0..Glitches BY <1>1, StreamAssumption
  <2>2. <<>> \in Seq(Sent) /\ <<>> \in Seq(Gens) BY EmptySeq
  <2> QED BY <1>1, <1>2, <1>3, <1>4, <2>1, <2>2, NoConnTyped DEF StreamInv
<1>6. ASSUME NEW r \in Readers, NEW g \in Gens PROVE ~Follows(r, g)
  <2>1. Len(<<>>) # Len(<<g>>) OBVIOUS
  <2> QED BY <1>1, <2>1 DEF Follows
<1> QED BY <1>5, <1>6 DEF ExactInv

\* A step of one reader's stream.
LEMMA OneStream ==
  ASSUME StreamInv, ExactInv, NEW r \in Readers,
         NEW k \in Link, NEW p \in Sheet, NEW w \in Seq(Sent), NEW h \in Seq(Gens),
         conn' = [conn EXCEPT ![r] = k], page' = [page EXCEPT ![r] = p],
         wire' = [wire EXCEPT ![r] = w], watching' = [watching EXCEPT ![r] = h],
         UNCHANGED <<gens, route>>, faults' \in 0..Glitches,
         Lined(k, p, w), h = <<>> => p.state = "idle",
         \A g \in Gens : h = <<g>> /\ gens[g].attempt <= 1 => Exact(k, p, w, gens[g].content, Over(g))
  PROVE  StreamInv' /\ ExactInv'
<1>1. \A q \in Readers \ {r} : /\ conn'[q] = conn[q] /\ page'[q] = page[q] /\ wire'[q] = wire[q]
                               /\ watching'[q] = watching[q]
  BY DEF StreamInv
<1>2. conn'[r] = k /\ page'[r] = p /\ wire'[r] = w /\ watching'[r] = h BY DEF StreamInv
<1>3. /\ conn' \in [Readers -> Link] /\ wire' \in [Readers -> Seq(Sent)] /\ page' \in [Readers -> Sheet]
      /\ watching' \in [Readers -> Seq(Gens)] /\ route' \in [Readers -> Gens \cup {NoGen}]
  BY DEF StreamInv
<1>4. ASSUME NEW q \in Readers
      PROVE  Lined(conn'[q], page'[q], wire'[q]) /\ (watching'[q] = <<>> => page'[q].state = "idle")
  BY <1>1, <1>2 DEF StreamInv
<1>5. StreamInv' BY <1>3, <1>4 DEF StreamInv
<1>6. ASSUME NEW q \in Readers, NEW g \in Gens, Follows(q, g)'
      PROVE  Exact(conn'[q], page'[q], wire'[q], gens'[g].content, Over(g)')
  <2>1. gens'[g] = gens[g] /\ (Over(g)' <=> Over(g)) BY DEF Over
  <2>2. CASE q = r BY <1>2, <1>6, <2>1, <2>2 DEF Follows, Over
  <2>3. CASE q # r
    <3>1. Follows(q, g) BY <1>1, <1>6, <2>1, <2>3 DEF Follows
    <3> QED BY <1>1, <2>1, <2>3, <3>1 DEF ExactInv, Over
  <2> QED BY <2>2, <2>3
<1>7. ExactInv' BY <1>6 DEF ExactInv
<1> QED BY <1>5, <1>7

\* A step of somebody else: the text that is being shown may have grown.
LEMMA StreamAside ==
  ASSUME Rows, Rows', BriefInv, BriefInv', StreamInv, ExactInv, \A g \in Gens : Grows(g),
         UNCHANGED readerVars
  PROVE  StreamInv' /\ ExactInv'
<1>1. StreamInv' BY DEF StreamInv, readerVars
<1>2. ASSUME NEW r \in Readers, NEW g \in Gens, Follows(r, g)'
      PROVE  Exact(conn[r], page[r], wire[r], gens'[g].content, Over(g)')
  <2> DEFINE c == gens[g].content
             d == gens'[g].content
  <2>1. gens[g].attempt \in Nat BY DEF Rows, Generation
  <2>2. c \in Short /\ d \in Short /\ gens'[g].attempt <= 1 BY <1>2 DEF BriefInv, Brief, Follows
  <2>3. gens[g].attempt <= gens'[g].attempt /\ gens'[g].attempt \in Nat
    BY DEF Rows, Generation, Grows
  <2>4. Follows(r, g) BY <1>2, <2>1, <2>2, <2>3 DEF Follows, readerVars
  <2>5. Exact(conn[r], page[r], wire[r], c, Over(g)) BY <2>4 DEF ExactInv
  <2>6. Begins(c, d) /\ (Over(g) => Over(g)' /\ d = c) BY <2>2 DEF Grows
  <2>7. conn[r] \in Link /\ page[r] \in Sheet /\ wire[r] \in Seq(Sent) BY DEF StreamInv
  <2>8. \A i \in 1..(Len(wire[r]) + 1) : Mark(page[r], wire[r], i) \in Nat
    BY <2>7, MarkTyped, NoteAssumption
  <2>9. Over(g) \in BOOLEAN /\ Over(g)' \in BOOLEAN BY DEF Over
  <2> HIDE DEF c, d
  <2> QED BY <2>2, <2>5, <2>6, <2>7, <2>8, <2>9, ExactGrows DEF d
<1>3. ExactInv' BY <1>2 DEF ExactInv, readerVars
<1> QED BY <1>1, <1>3

\* A page that connects, to the generation it watches, or to another.
LEMMA ConnectsStep ==
  ASSUME Rows, BriefInv, StreamInv, ExactInv, NEW r \in Readers, ReaderConnects(r)
  PROVE  StreamInv' /\ ExactInv'
<1> DEFINE l == [open |-> TRUE, offset |-> page[r].lastId, age |-> 0]
           q == [page[r] EXCEPT !.state = "watching"]
           h == IF watching[r] # <<>> /\ Latest(r) = Target(r) THEN watching[r]
                ELSE Append(watching[r], Target(r))
<1>1. /\ page[r].state \in {"idle", "watching"} /\ wire[r] = <<>>
      /\ conn' = [conn EXCEPT ![r] = l] /\ page' = [page EXCEPT ![r].state = "watching"]
      /\ UNCHANGED <<wire, faults, gens, route>>
      /\ watching' = [watching EXCEPT ![r] = h]
  BY DEF ReaderConnects, Connect, Latest, handlerVars
<1>2. /\ conn[r] \in Link /\ page[r] \in Sheet /\ wire[r] \in Seq(Sent) /\ Lined(conn[r], page[r], wire[r])
      /\ watching[r] \in Seq(Gens) /\ route[r] \in Gens \cup {NoGen} /\ faults \in 0..Glitches
      /\ watching[r] = <<>> => page[r].state = "idle"
  BY DEF StreamInv
<1>3. Target(r) \in Gens BY <1>2 DEF Target, Rows, Note
<1>4. h \in Seq(Gens) /\ h # <<>> BY <1>2, <1>3, AppendProperties
<1>a. /\ l \in Link /\ l.open /\ l.offset = page[r].lastId
      /\ q \in Sheet /\ q.state = "watching" /\ q.buffer = page[r].buffer /\ q.lastId = page[r].lastId
  BY <1>2, StreamAssumption DEF Link, Sheet
<1>6. page' = [page EXCEPT ![r] = q] /\ wire' = [wire EXCEPT ![r] = wire[r]]
  BY <1>1 DEF StreamInv
<1> HIDE DEF l, q
<1>5. /\ Lined(l, q, wire[r])
      /\ \A c \in Short, over \in BOOLEAN :
           /\ Exact(conn[r], page[r], wire[r], c, over) => Exact(l, q, wire[r], c, over)
           /\ page[r].state = "idle" => Exact(l, q, wire[r], c, over)
  <2>1. /\ conn[r] \in Link /\ page[r] \in Sheet /\ wire[r] \in Seq(Sent)
        /\ Lined(conn[r], page[r], wire[r])
    BY <1>2
  <2>2. wire[r] = <<>> /\ page[r].state \in {"idle", "watching"} BY <1>1
  <2> QED BY <2>1, <2>2, <1>a, ConnectIs
<1>7. ASSUME NEW g \in Gens, h = <<g>>, gens[g].attempt <= 1
      PROVE  Exact(l, q, wire[r], gens[g].content, Over(g))
  <2>1. gens[g].content \in Short /\ Over(g) \in BOOLEAN BY DEF BriefInv, Brief, Over
  <2>2. CASE watching[r] = <<g>>
    <3>1. Exact(conn[r], page[r], wire[r], gens[g].content, Over(g))
      BY <1>7, <2>2 DEF ExactInv, Follows
    <3> QED BY <1>5, <2>1, <3>1
  <2>3. CASE watching[r] # <<g>>
    <3>1. h = Append(watching[r], Target(r)) BY <1>7, <2>3
    <3> HIDE DEF h
    <3>2. Len(watching[r]) + 1 = 1 /\ Len(watching[r]) \in Nat
      <4>1. Len(h) = Len(watching[r]) + 1 BY <1>2, <1>3, <3>1, AppendProperties
      <4>2. Len(<<Target(r)>>) = 1 /\ Len(<<g>>) = 1 OBVIOUS
      <4>3. Len(h) = 1 BY <1>7, <4>2
      <4>4. Len(watching[r]) \in Nat BY <1>2
      <4> QED BY <4>1, <4>3, <4>4
    <3>3. watching[r] = <<>> BY <1>2, <3>2, EmptySeq
    <3> QED BY <1>2, <1>5, <2>1, <3>3
  <2> QED BY <2>2, <2>3
<1> HIDE DEF h
<1> QED BY <1>1, <1>2, <1>4, <1>5, <1>6, <1>7, <1>a, OneStream

\* A page's stream that goes on, and what it shows of a generation with it.
LEMMA StreamStep ==
  ASSUME BriefInv, StreamInv, ExactInv, NEW r \in Readers,
         NEW k \in Link, NEW p \in Sheet, NEW w \in Seq(Sent),
         conn' = [conn EXCEPT ![r] = k], page' = [page EXCEPT ![r] = p], wire' = [wire EXCEPT ![r] = w],
         UNCHANGED <<gens, route, watching>>, faults' \in 0..Glitches,
         Lined(k, p, w), watching[r] = <<>> => p.state = "idle",
         \A c \in Short, over \in BOOLEAN :
           Exact(conn[r], page[r], wire[r], c, over) => Exact(k, p, w, c, over)
  PROVE  StreamInv' /\ ExactInv'
<1>1. watching' = [watching EXCEPT ![r] = watching[r]] /\ watching[r] \in Seq(Gens) BY DEF StreamInv
<1>2. ASSUME NEW g \in Gens, watching[r] = <<g>>, gens[g].attempt <= 1
      PROVE  Exact(k, p, w, gens[g].content, Over(g))
  <2>1. Exact(conn[r], page[r], wire[r], gens[g].content, Over(g)) BY <1>2 DEF ExactInv, Follows
  <2>2. gens[g].content \in Short /\ Over(g) \in BOOLEAN BY DEF BriefInv, Brief, Over
  <2> QED BY <2>1, <2>2
<1> QED BY <1>1, <1>2, OneStream

\* A read of the row a page watches.
LEMMA PollsStep ==
  ASSUME Rows, BriefInv, StreamInv, ExactInv, NEW r \in Readers, ReaderPolls(r)
  PROVE  StreamInv' /\ ExactInv'
<1> DEFINE L == Latest(r)
           row == RowOf(L)
<1>1. watching[r] # <<>> /\ Poll(r, row) /\ UNCHANGED <<gens, route, watching>>
  BY DEF ReaderPolls, handlerVars
<1>2. /\ conn \in [Readers -> Link] /\ page \in [Readers -> Sheet] /\ wire \in [Readers -> Seq(Sent)]
      /\ Lined(conn[r], page[r], wire[r]) /\ watching[r] \in Seq(Gens) /\ faults \in 0..Glitches
  BY DEF StreamInv
<1>3. L \in Gens
  <2>1. Len(watching[r]) \in Nat /\ Len(watching[r]) # 0 BY <1>1, <1>2, EmptySeq
  <2>2. Len(watching[r]) \in 1..Len(watching[r]) BY <2>1
  <2> QED BY <1>2, <2>2 DEF Latest
<1>4. /\ row.content \in Short
      /\ row.status = "gone" \/ row.content = gens[L].content
      /\ row.status = "succeeded" => Over(L)
  BY <1>3, EmptyShort DEF RowOf, NoRow, BriefInv, Brief, Over, RowGone
<1> HIDE DEF row
<1>5. conn[r].open /\ UNCHANGED <<page, faults>> BY <1>1, <1>2, <1>4, PollIs
<1>6. PICK m \in Link, l \in Link, v \in Seq(Sent), x \in Seq(Sent) :
        /\ Reads(conn[r], wire[r], m, v, row) /\ Ends(m, v, l, x, row)
        /\ conn' = [conn EXCEPT ![r] = l] /\ wire' = [wire EXCEPT ![r] = x]
  BY <1>1, <1>2, <1>4, PollIs
<1>7. Lined(l, page[r], x) BY <1>2, <1>4, <1>5, <1>6, LinedPoll
<1>8. ASSUME NEW g \in Gens, watching[r] = <<g>>, gens[g].attempt <= 1
      PROVE  Exact(l, page[r], x, gens[g].content, Over(g))
  <2>1. g = L
    <3>1. Len(<<g>>) = 1 /\ <<g>>[1] = g OBVIOUS
    <3> QED BY <1>8, <3>1 DEF Latest
  <2>2. Exact(conn[r], page[r], wire[r], gens[g].content, Over(g)) BY <1>8 DEF ExactInv, Follows
  <2>3. gens[g].content \in Short /\ Over(g) \in BOOLEAN BY DEF BriefInv, Brief, Over
  <2>4. row.status = "gone" \/ row.content = gens[g].content BY <1>4, <2>1
  <2>5. row.status = "succeeded" => Over(g) BY <1>4, <2>1
  <2>6. conn[r] \in Link /\ page[r] \in Sheet /\ wire[r] \in Seq(Sent) BY <1>2
  <2>7. Lined(conn[r], page[r], wire[r]) /\ conn[r].open /\ row.content \in Short BY <1>2, <1>4, <1>5
  <2>8. Reads(conn[r], wire[r], m, v, row) /\ Ends(m, v, l, x, row) BY <1>6
  <2> HIDE DEF L
  <2> QED BY <2>2, <2>3, <2>4, <2>5, <2>6, <2>7, <2>8, ExactPoll
<1>9. page' = [page EXCEPT ![r] = page[r]] /\ watching' = [watching EXCEPT ![r] = watching[r]]
  BY <1>1, <1>2, <1>5 DEF StreamInv
<1>10. watching[r] = <<>> => page[r].state = "idle" BY DEF StreamInv
<1> QED BY <1>1, <1>2, <1>5, <1>6, <1>7, <1>8, <1>9, <1>10, OneStream

\* A frame that arrives.
LEMMA ReceivesStep ==
  ASSUME BriefInv, StreamInv, ExactInv, NEW r \in Readers, ReaderReceives(r)
  PROVE  StreamInv' /\ ExactInv'
<1> DEFINE k == conn[r]
           p == page[r]
           w == wire[r]
           f == Head(w)
<1>1. Deliver(r) /\ UNCHANGED <<gens, route, watching, faults>>
  BY DEF ReaderReceives, Deliver, handlerVars
<1>2. /\ k \in Link /\ p \in Sheet /\ w \in Seq(Sent) /\ Lined(k, p, w) /\ faults \in 0..Glitches
      /\ watching[r] = <<>> => p.state = "idle"
  BY DEF StreamInv
<1>3. w # <<>> /\ p.state = "watching" BY <1>1 DEF Deliver
<1>4. watching[r] # <<>> BY <1>2, <1>3
<1>5. CASE f.kind = "delta"
  <2> DEFINE q == [p EXCEPT !.buffer = ApplyDelta(p.buffer, f), !.lastId = f.offset]
  <2>1. /\ page' = [page EXCEPT ![r].buffer = ApplyDelta(@, f), ![r].lastId = f.offset]
        /\ wire' = [wire EXCEPT ![r] = Tail(@)] /\ UNCHANGED conn
    BY <1>1, <1>5 DEF Deliver
  <2>2. q.state = p.state /\ q.buffer = ApplyDelta(p.buffer, f) /\ q.lastId = f.offset BY <1>2 DEF Sheet
  <2>3. /\ page' = [page EXCEPT ![r] = q] /\ wire' = [wire EXCEPT ![r] = Tail(w)]
        /\ conn' = [conn EXCEPT ![r] = k]
    BY <2>1 DEF StreamInv
  <2>4. DOMAIN q = DOMAIN p OBVIOUS
  <2>5. q.buffer \in Short /\ q.lastId \in 0..MaxChunks => q \in Sheet BY <1>2 DEF Sheet
  <2> HIDE DEF q
  <2>6. /\ q.buffer \in Short /\ q.lastId \in 0..MaxChunks /\ q.state = "watching"
        /\ Tail(w) \in Seq(Sent) /\ Lined(k, q, Tail(w))
        /\ \A c \in Short, over \in BOOLEAN :
             Exact(k, p, w, c, over) => Exact(k, q, Tail(w), c, over)
    BY <1>2, <1>3, <1>5, <2>2, DeliverDelta
  <2> QED BY <1>1, <1>2, <1>4, <2>3, <2>5, <2>6, StreamStep
<1>6. CASE f.kind # "delta"
  <2> DEFINE q == [p EXCEPT !.state = f.kind, !.lastId = f.offset]
  <2>1. /\ page' = [page EXCEPT ![r].state = f.kind, ![r].lastId = f.offset]
        /\ wire' = [wire EXCEPT ![r] = <<>>] /\ conn' = [conn EXCEPT ![r] = NoConn]
    BY <1>1, <1>6 DEF Deliver
  <2>2. page' = [page EXCEPT ![r] = q] BY <2>1 DEF StreamInv
  <2>3. /\ q \in Sheet /\ Lined(NoConn, q, <<>>)
        /\ \A c \in Short, over \in BOOLEAN :
             Exact(k, p, w, c, over) => Exact(NoConn, q, <<>>, c, over)
    BY <1>2, <1>3, <1>6, DeliverEnd
  <2> HIDE DEF q
  <2>4. <<>> \in Seq(Sent) BY EmptySeq
  <2>5. wire' = [wire EXCEPT ![r] = <<>>] /\ conn' = [conn EXCEPT ![r] = NoConn] BY <2>1
  <2>6. faults' \in 0..Glitches /\ UNCHANGED <<gens, route, watching>> BY <1>1, <1>2
  <2>7. NoConn \in Link BY NoConnTyped
  <2> QED BY <1>4, <2>2, <2>3, <2>4, <2>5, <2>6, <2>7, StreamStep
<1> QED BY <1>5, <1>6

\* A read that fails, or a connection that breaks.
LEMMA SuffersStep ==
  ASSUME BriefInv, StreamInv, ExactInv, NEW r \in Readers, ReaderSuffers(r)
  PROVE  StreamInv' /\ ExactInv'
<1> DEFINE k == conn[r]
           p == page[r]
           w == wire[r]
<1>1. UNCHANGED <<gens, route, watching>> BY DEF ReaderSuffers, handlerVars
<1>2. /\ k \in Link /\ p \in Sheet /\ w \in Seq(Sent) /\ Lined(k, p, w) /\ faults \in 0..Glitches
      /\ watching[r] = <<>> => p.state = "idle"
  BY DEF StreamInv
<1>3. faults > 0 /\ faults' = faults - 1 /\ UNCHANGED page BY DEF ReaderSuffers, PollFails, Drop
<1>4. faults' \in 0..Glitches BY <1>2, <1>3, StreamAssumption
<1>5. page' = [page EXCEPT ![r] = p] BY <1>3 DEF StreamInv
<1>6. CASE PollFails(r)
  <2> DEFINE l == [k EXCEPT !.age = Older(k.age)]
  <2>1. conn' = [conn EXCEPT ![r] = l] /\ wire' = [wire EXCEPT ![r] = w]
    BY <1>6 DEF PollFails, StreamInv
  <2>2. Older(k.age) \in 0..CapPolls BY <1>2, StreamAssumption DEF Older, Link
  <2>3. l \in Link /\ l.open = k.open /\ l.offset = k.offset BY <1>2, <2>2 DEF Link
  <2> HIDE DEF l
  <2>4. Lined(l, p, w) BY <1>2, <2>3 DEF Lined
  <2>5. \A c \in Short, over \in BOOLEAN : Exact(k, p, w, c, over) => Exact(l, p, w, c, over)
    BY <2>3 DEF Exact
  <2>6. watching[r] = <<>> => p.state = "idle" BY <1>2
  <2>7. p \in Sheet /\ w \in Seq(Sent) /\ l \in Link BY <1>2, <2>3
  <2> QED BY <1>1, <1>4, <1>5, <2>1, <2>4, <2>5, <2>6, <2>7, StreamStep
<1>7. CASE Drop(r)
  <2>1. conn' = [conn EXCEPT ![r] = NoConn] /\ wire' = [wire EXCEPT ![r] = <<>>] BY <1>7 DEF Drop
  <2>2. /\ Lined(NoConn, p, <<>>)
        /\ \A c \in Short, over \in BOOLEAN :
             Exact(k, p, w, c, over) => Exact(NoConn, p, <<>>, c, over)
    BY <1>2, BreakIs
  <2>3. <<>> \in Seq(Sent) BY EmptySeq
  <2> QED BY <1>1, <1>2, <1>4, <1>5, <2>1, <2>2, <2>3, NoConnTyped, StreamStep
<1> QED BY <1>6, <1>7 DEF ReaderSuffers

\* The process dies, and with it every connection.
LEMMA CrashStep ==
  ASSUME BriefInv, StreamInv, ExactInv, Crash PROVE StreamInv' /\ ExactInv'
<1>1. /\ conn' = [r \in Readers |-> NoConn] /\ wire' = [r \in Readers |-> <<>>]
      /\ UNCHANGED <<gens, route, watching, page, faults>>
  BY DEF Crash
<1>2. <<>> \in Seq(Sent) BY EmptySeq
<1>3. StreamInv'
  <2>1. /\ conn' \in [Readers -> Link] /\ wire' \in [Readers -> Seq(Sent)]
    BY <1>1, <1>2, NoConnTyped
  <2>2. \A r \in Readers : Lined(conn'[r], page[r], wire'[r]) BY <1>1, BreakIs DEF StreamInv
  <2> QED BY <1>1, <2>1, <2>2 DEF StreamInv
<1>4. ASSUME NEW r \in Readers, NEW g \in Gens, Follows(r, g)'
      PROVE  Exact(conn'[r], page'[r], wire'[r], gens'[g].content, Over(g)')
  <2>1. Follows(r, g) BY <1>1, <1>4 DEF Follows
  <2>2. Exact(conn[r], page[r], wire[r], gens[g].content, Over(g)) BY <2>1 DEF ExactInv
  <2>3. gens[g].content \in Short /\ Over(g) \in BOOLEAN BY DEF BriefInv, Brief, Over
  <2>4. conn[r] \in Link /\ page[r] \in Sheet /\ wire[r] \in Seq(Sent) /\ Lined(conn[r], page[r], wire[r])
    BY DEF StreamInv
  <2>5. Exact(NoConn, page[r], <<>>, gens[g].content, Over(g)) BY <2>2, <2>3, <2>4, BreakIs
  <2> QED BY <1>1, <2>5 DEF Over
<1> QED BY <1>3, <1>4 DEF ExactInv

\* Every step.
LEMMA StreamNext ==
  Rows /\ OutcomeInv /\ WriterInv /\ GrownInv /\ BriefInv /\ StreamInv /\ ExactInv /\ [Next]_vars
    => StreamInv' /\ ExactInv'
<1> SUFFICES ASSUME Rows, OutcomeInv, WriterInv, GrownInv, BriefInv, StreamInv, ExactInv, [Next]_vars
             PROVE  StreamInv' /\ ExactInv'
  OBVIOUS
<1>1. Rows' /\ BriefInv' /\ \A g \in Gens : Grows(g) BY RowsNext, GrownNext, BriefNext
<1>2. ASSUME UNCHANGED readerVars PROVE StreamInv' /\ ExactInv' BY <1>1, <1>2, StreamAside
<1>3. CASE \E g \in Gens : \/ RegenerateAsk(g) \/ RegenerateQueue(g)
                           \/ PreviewQueue(g) \/ PreviewExpire(g) \/ Handler(g)
  <2>1. UNCHANGED readerVars
    BY <1>3 DEF RegenerateAsk, RegenerateQueue, PreviewQueue, PreviewExpire, Handler, Load, Return,
         Prepare, Refuse, MarkStreaming, MarkGenerating, Chunk, Flush, RateLimit, StreamEnds,
         CommitRead, CommitWrite, Announce, Throw, FailGeneration, FailNote, FailureUnrecorded, Reap
  <2> QED BY <2>1, <1>2
<1>4. CASE \E s \in Saves : SaveStep(s)
  BY <1>2, <1>4 DEF SaveStep, SaveRead, SaveLookup, RestoreRead, SaveWrite
<1>5. CASE RemoveAsk \/ RemoveMark \/ RemoveEnqueue \/ PurgeJob \/ RequeueStalledPurges
  BY <1>2, <1>5 DEF RemoveAsk, RemoveMark, RemoveEnqueue, PurgeJob, PurgeClaim, PurgeNote,
       PurgeThrows, ReapPurge, RequeueStalledPurges
<1>6. CASE \E r \in Readers : Reader(r) \/ ReaderSuffers(r)
  BY <1>6, ConnectsStep, PollsStep, ReceivesStep, SuffersStep DEF Reader
<1>7. CASE Crash BY <1>7, CrashStep
<1>8. CASE UNCHANGED vars BY <1>2, <1>8 DEF vars, readerVars
<1> QED BY <1>3, <1>4, <1>5, <1>6, <1>7, <1>8 DEF Next

\* What a page shows of the one generation it watches, if that ran once, is how its row's
\* text begins, and all of it when the page is told that it is done: a late joiner, and one
\* that was dropped and came back, converge on the text that was written.
THEOREM ShownIsWrittenHolds == Spec => []ShownIsWritten
<1>1. ASSUME BriefInv, StreamInv, ExactInv PROVE ShownIsWritten
  <2>1. SUFFICES ASSUME NEW r \in Readers, NEW g \in Gens, watching[r] = <<g>>, gens[g].attempt <= 1
                 PROVE  /\ Len(page[r].buffer) <= Len(gens[g].content)
                        /\ page[r].buffer = SubSeq(gens[g].content, 1, Len(page[r].buffer))
                        /\ page[r].state = "done" => page[r].buffer = gens[g].content
    BY DEF ShownIsWritten
  <2> DEFINE b == page[r].buffer
             c == gens[g].content
             S == 1..(MaxHits + 1)
             t == SubSeq(c, 1, Len(b))
  <2>2. b \in Seq(S) /\ c \in Seq(S) /\ Len(b) \in Nat /\ Len(c) \in Nat
    BY <1>1 DEF StreamInv, Sheet, Short, BriefInv, Brief
  <2>3. /\ Len(b) <= Len(c) /\ \A i \in 1..Len(b) : b[i] = c[i]
        /\ page[r].state = "done" => Len(b) = Len(c)
    BY <1>1, <2>1 DEF ExactInv, Follows, Exact, Begins
  <2> HIDE DEF b, c
  <2>4. t \in Seq(S) /\ Len(t) = Len(b) /\ \A i \in 1..Len(b) : t[i] = c[i]
    <3>1. \A i \in 1..Len(b) : c[i] \in S
      <4>1. c \in [1..Len(c) -> S] BY <2>2, LenProperties
      <4> QED BY <2>2, <2>3, <4>1
    <3>2. 1 \in Int /\ Len(b) \in Int BY <2>2
    <3>3. /\ t \in Seq(S) /\ Len(t) = IF 1 <= Len(b) THEN Len(b) - 1 + 1 ELSE 0
          /\ \A i \in 1..(Len(b) - 1 + 1) : t[i] = c[1 + i - 1]
      BY <3>1, <3>2, SubSeqProperties
    <3> HIDE DEF t
    <3> QED BY <2>2, <3>3
  <2> HIDE DEF t
  <2>5. b = t BY <2>2, <2>3, <2>4, SeqEqual
  <2>6. Len(b) = Len(c) => b = c BY <2>2, <2>3, SeqEqual
  <2> QED BY <2>3, <2>5, <2>6 DEF b, c, t
<1> QED
  BY RowsInit, RowsNext, OutcomeInit, OutcomeNext, WriterInit, WriterNext, GrownInit, GrownNext,
     BriefInit, BriefNext, PagesInit, StreamNext, <1>1, PTL DEF Spec

\* Every row, request and stream holds what its type says: no run of a provider writes more
\* than MaxChunks chunks, no job is deferred more than MaxHits times, and no cursor, frame or
\* page runs ahead of the text.
THEOREM NotesTypeOKHolds == Spec => []NotesTypeOK
<1>1. ASSUME Rows, BriefInv, BodiesInv, StreamInv PROVE NotesTypeOK
  <2>1. /\ note.status \in {"draft", "generating", "ready", "failed", "deleting", "gone"}
        /\ note.removed \in BOOLEAN /\ note.version \in Nat /\ note.gen \in Gens
    BY <1>1 DEF Rows, Note, NoteStatus
  <2>2. \A body : Bodied(body) => body \in Bodies BY ShortTexts DEF Bodied, Bodies
  <2>3. /\ note.body \in Bodies \cup {<<>>}
        /\ \A i \in 1..Len(versions) : versions[i].body \in Bodies
    BY <1>1, <2>2 DEF BodiesInv
  <2>4. \A g \in Gens :
          /\ gens[g].status \in {"none", "pending", "streaming", "succeeded", "failed", "gone"}
          /\ gens[g].content \in Texts /\ gens[g].attempt \in Nat
          /\ run[g].pc \in {"idle", "asked", "prepare", "mark", "markNote", "stream", "flush",
                            "commit", "commitWrite", "announce", "failGen", "failNote", "return"}
          /\ run[g].buffer \in Texts
    BY <1>1, ShortTexts DEF Rows, Generation, GenStatus, Run, RunPc, BriefInv, Brief
  <2>5. \A s \in Saves : save[s].pc \in {"new", "lookup", "write", "answered"}
    BY <1>1 DEF Rows, Request
  <2>6. /\ removal \in {"none", "asked", "marked"} /\ cutOff \subseteq Gens
        /\ job \in [Slots -> JobRow]
    BY <1>1 DEF BriefInv
  <2>7. StreamTypeOK(Texts)
    <3>1. ASSUME NEW r \in Readers, NEW i \in 1..Len(wire[r])
          PROVE  /\ wire[r][i].kind \in {"delta", "done", "error"}
                 /\ wire[r][i].text \in Texts /\ wire[r][i].offset \in Nat
      <4>1. wire[r][i] \in Sent BY <1>1 DEF StreamInv
      <4> QED BY <4>1, ShortTexts, NoteAssumption DEF Sent
    <3> QED BY <1>1, <3>1, ShortTexts, NoteAssumption DEF StreamTypeOK, StreamInv, Link, Sheet
  <2> QED BY <2>1, <2>3, <2>4, <2>5, <2>6, <2>7 DEF NotesTypeOK
<1> QED
  BY RowsInit, RowsNext, OutcomeInit, OutcomeNext, WriterInit, WriterNext, GrownInit, GrownNext,
     BriefInit, BriefNext, BodiesInit, BodiesNext, PagesInit, StreamNext, <1>1, PTL DEF Spec
===============================================================================
