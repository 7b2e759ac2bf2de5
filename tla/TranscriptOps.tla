----------------------------- MODULE TranscriptOps -----------------------------
(***************************************************************************)
(* The text of a transcript and what a correction does to it: the pure     *)
(* reducers of `editing/reducers.ts`, that a live save and a replay of the *)
(* version log both run, and the rules of `editing/speaker-identity.ts`.   *)
(*                                                                         *)
(* A document is a function from the ids of its lines and speakers to      *)
(* their rows, Gone when there is none.  A line's text is a value that     *)
(* tells two corrections apart; times, words, ordinals and alignment are   *)
(* left out, and so are the ops that need them (split, join) and the ones  *)
(* that differ from these only in a column (set_speaker, create).  The     *)
(* placeholder ingest gives a speaker is modelled by the speaker's own id. *)
(***************************************************************************)
EXTENDS Naturals, Sequences

CONSTANTS Segments,  \* the ids of the lines of the provider's transcript
          Speakers,  \* the ids of its speakers
          Names,     \* names a person may give a speaker
          Gone       \* no row

Entities == Segments \cup Speakers

\* What the two tables hold.
LineRow(texts) == [text : texts, speaker : Speakers, rev : Nat \ {0}]
VoiceRow       == [name : Names \cup Speakers, rev : Nat \ {0}]

Document(texts) ==
  {doc \in [Entities -> LineRow(texts) \cup VoiceRow \cup {Gone}] :
     /\ \A s \in Segments : doc[s] \in LineRow(texts) \cup {Gone}
     /\ \A s \in Speakers : doc[s] \in VoiceRow \cup {Gone}}

ASSUME OpsAssumption ==
  /\ Segments \cap Speakers = {} /\ Names \cap Speakers = {}
  /\ Gone \notin Names \cup Speakers
  /\ Gone \notin LineRow(Nat) \cup VoiceRow /\ Gone \notin Document(Nat)

Line(text, speaker, rev) == [text |-> text, speaker |-> speaker, rev |-> rev]
Voice(name, rev)         == [name |-> name, rev |-> rev]

Lines(doc) == [s \in Segments |-> doc[s]]

\* The ops of a batch in their order, each on what the earlier ones left.
Walk(Step(_, _), start, ops) ==
  LET after[i \in 0..Len(ops)] == IF i = 0 THEN start ELSE Step(after[i - 1], ops[i])
  IN  after[Len(ops)]

-------------------------------------------------------------------------------
(* Naming                                                                  *)

\* Still carrying the placeholder: nobody has said who this voice is.
IsUnidentified(doc, s) == doc[s] # Gone /\ doc[s].name = s

\* Mutant of ClassifyRename: a rename that changes nothing is not set apart.
ClassifyAnyRename(doc, op) ==
  IF doc[op.id] # Gone /\ IsUnidentified(doc, op.id) THEN "identification" ELSE "versioned"

\* How a rename relates to the speaker as it stands.
ClassifyRename(doc, op) ==
  IF doc[op.id] = Gone THEN "versioned"
  ELSE IF op.value = doc[op.id].name THEN "noop"
  ELSE IF IsUnidentified(doc, op.id) THEN "identification"
  ELSE "versioned"

\* The names set beside the version log, put over every speaker still unidentified.
ApplyIdentities(doc, identities) ==
  [e \in Entities |->
     IF e \in Speakers /\ IsUnidentified(doc, e) /\ identities[e] # Gone
     THEN [doc[e] EXCEPT !.name = identities[e]] ELSE doc[e]]

\* A batch of renames, each walked over the names the earlier ones gave.
IsIdentificationBatch(doc, ops) ==
  LET Name(acc, op) ==
        [ok  |-> /\ acc.ok
                 /\ op.op = "speaker.rename"
                 /\ ClassifyRename(acc.doc, op) # "versioned",
         doc |-> IF op.op = "speaker.rename" /\ acc.doc[op.id] # Gone
                 THEN [acc.doc EXCEPT ![op.id].name = op.value] ELSE acc.doc]
  IN  Walk(Name, [ok |-> TRUE, doc |-> doc], ops).ok

-------------------------------------------------------------------------------
(* The reducers                                                            *)

\* Mutant of Takes: the rev is not compared.
TakesAny(acc, op) == acc.doc[op.id] # Gone

\* A row may be changed by an op that names its rev, or once this very batch has changed it.
Takes(acc, op) ==
  /\ acc.doc[op.id] # Gone
  /\ acc.doc[op.id].rev = op.rev \/ op.id \in acc.touched

ReduceRow(row, op) ==
  CASE op.op = "segment.update_text" -> [row EXCEPT !.text = op.value, !.rev = @ + 1]
    [] op.op = "speaker.rename"      -> [row EXCEPT !.name = op.value, !.rev = @ + 1]
    [] op.op = "segment.delete"      -> Gone

\* The lines a merge re-points.
SpokenBy(doc, speaker) ==
  {s \in Segments : doc[s] # Gone /\ doc[s].speaker = speaker}

\* A merge names two speakers and no revs; its lines are re-pointed with a rev each.
MergeSpeakers(doc, op) ==
  [e \in Entities |->
     CASE e = op.source -> Gone
       [] e = op.id /\ ~op.keepName ->
            [doc[e] EXCEPT !.name = doc[op.source].name, !.rev = @ + 1]
       [] e \in SpokenBy(doc, op.source) ->
            [doc[e] EXCEPT !.speaker = op.id, !.rev = @ + 1]
       [] OTHER -> doc[e]]

\* One op: a stale row is a conflict and the op is skipped, a merge of speakers that are not
\* there can never apply.
ApplyOne(acc, op) ==
  IF op.op = "speaker.merge"
  THEN IF acc.doc[op.id] = Gone \/ acc.doc[op.source] = Gone
       THEN [acc EXCEPT !.invalid = TRUE]
       ELSE [acc EXCEPT !.doc = MergeSpeakers(@, op),
                        !.touched = @ \cup SpokenBy(acc.doc, op.source)
                                      \cup (IF op.keepName THEN {} ELSE {op.id})]
  ELSE IF Takes(acc, op)
       THEN [acc EXCEPT !.doc[op.id] = ReduceRow(@, op), !.touched = @ \cup {op.id}]
       ELSE [acc EXCEPT !.conflict = TRUE]

ApplyOps(doc, ops) ==
  Walk(ApplyOne,
       [doc |-> doc, touched |-> {}, conflict |-> FALSE, invalid |-> FALSE], ops)

===============================================================================
