--------------------------- MODULE TranscriptOpsProofs ---------------------------
(***************************************************************************)
(* What the reducers of a batch keep, for every document and every batch.  *)
(*                                                                         *)
(* A save and a replay of the version log run the same reducers over       *)
(* documents that may differ in the names of their speakers: names are     *)
(* also given beside the log.  Alike documents are those no op can tell    *)
(* apart but by a name.                                                    *)
(***************************************************************************)
EXTENDS TranscriptOps, SetInduction

\* An op as the browser sends it.
Op(texts) ==
  [op : {"segment.update_text"}, id : Segments, rev : Nat, value : texts]
    \cup [op : {"segment.delete"}, id : Segments, rev : Nat]
    \cup {r \in [op : {"speaker.rename"}, id : Speakers, rev : Nat, value : Names \cup Speakers] :
            r.value \in Names \cup {r.id}}
    \cup {m \in [op : {"speaker.merge"}, id : Speakers, source : Speakers, keepName : BOOLEAN] :
            m.id # m.source}

\* Where a walk over a batch stands.
Progress(texts) ==
  [doc : Document(texts), touched : SUBSET Entities, conflict : BOOLEAN, invalid : BOOLEAN]

Start(doc) == [doc |-> doc, touched |-> {}, conflict |-> FALSE, invalid |-> FALSE]

\* The same lines, the same speakers with the same revs.
Alike(d, e) ==
  /\ \A s \in Segments : d[s] = e[s]
  /\ \A s \in Speakers : (d[s] = Gone <=> e[s] = Gone) /\ (d[s] # Gone => d[s].rev = e[s].rev)

AlikeProgress(a, b) ==
  /\ Alike(a.doc, b.doc)
  /\ a.touched = b.touched /\ a.conflict = b.conflict /\ a.invalid = b.invalid

\* What may have become of a line: nothing, another rev, or it went.
Later(row, then) == then = row \/ then = Gone \/ (row # Gone /\ then.rev > row.rev)

-------------------------------------------------------------------------------
(* Documents.                                                              *)

\* A document is like itself, but for the names or not.
LEMMA AlikeItself == ASSUME NEW d PROVE Alike(d, d)
BY DEF Alike

\* Likeness holds both ways.
LEMMA AlikeBack == ASSUME NEW d, NEW e, Alike(d, e) PROVE Alike(e, d)
BY DEF Alike

\* Likeness carries over.
LEMMA AlikeOnward == ASSUME NEW d, NEW e, NEW f, Alike(d, e), Alike(e, f) PROVE Alike(d, f)
BY DEF Alike

\* Rows are rows, and none is no row.
LEMMA RowsAreRows ==
  ASSUME NEW texts \in SUBSET Nat, NEW doc \in Document(texts)
  PROVE  /\ \A s \in Segments : doc[s] # Gone => doc[s] \in LineRow(texts)
         /\ \A s \in Speakers : doc[s] # Gone => doc[s] \in VoiceRow
BY DEF Document

\* A row that is gone is no row.
LEMMA GoneIsNoRow ==
  ASSUME NEW texts \in SUBSET Nat
  PROVE  Gone \notin LineRow(texts) /\ Gone \notin VoiceRow
BY OpsAssumption DEF LineRow, VoiceRow

\* A function that gives each id a row or none is a document.
LEMMA IsDocument ==
  ASSUME NEW texts, NEW doc, doc = [e \in Entities |-> doc[e]],
         \A s \in Segments : doc[s] \in LineRow(texts) \cup {Gone},
         \A s \in Speakers : doc[s] \in VoiceRow \cup {Gone}
  PROVE  doc \in Document(texts)
BY DEF Document, Entities

\* A row replaced by a row of its kind.
LEMMA DocumentExcept ==
  ASSUME NEW texts, NEW doc \in Document(texts), NEW e \in Entities, NEW row,
         e \in Segments => row \in LineRow(texts) \cup {Gone},
         e \in Speakers => row \in VoiceRow \cup {Gone}
  PROVE  [doc EXCEPT ![e] = row] \in Document(texts)
BY DEF Document, Entities

-------------------------------------------------------------------------------
(* One op.                                                                 *)

\* A row corrected, and its rev with it.
LEMMA BumpedText ==
  ASSUME NEW texts, NEW row \in LineRow(texts), NEW text \in texts
  PROVE  [row EXCEPT !.text = text, !.rev = @ + 1] \in LineRow(texts)
<1>1. row.rev + 1 \in Nat \ {0}
  BY DEF LineRow
<1> QED BY <1>1 DEF LineRow

\* A line given to another speaker is a line.
LEMMA BumpedSpeaker ==
  ASSUME NEW texts, NEW row \in LineRow(texts), NEW speaker \in Speakers
  PROVE  [row EXCEPT !.speaker = speaker, !.rev = @ + 1] \in LineRow(texts)
<1>1. row.rev + 1 \in Nat \ {0}
  BY DEF LineRow
<1> QED BY <1>1 DEF LineRow

\* A speaker given another name is a speaker.
LEMMA BumpedName ==
  ASSUME NEW row \in VoiceRow, NEW name \in Names \cup Speakers
  PROVE  [row EXCEPT !.name = name, !.rev = @ + 1] \in VoiceRow
<1>1. row.rev + 1 \in Nat \ {0}
  BY DEF VoiceRow
<1> QED BY <1>1 DEF VoiceRow

\* What an op makes of the row it names is a row, or gone.
LEMMA ReduceRowTyped ==
  ASSUME NEW texts \in SUBSET Nat, NEW op \in Op(texts), op.op # "speaker.merge", NEW row,
         op.id \in Segments => row \in LineRow(texts),
         op.id \in Speakers => row \in VoiceRow
  PROVE  /\ op.id \in Segments => ReduceRow(row, op) \in LineRow(texts) \cup {Gone}
         /\ op.id \in Speakers => ReduceRow(row, op) \in VoiceRow \cup {Gone}
<1>1. CASE op.op = "segment.update_text"
  <2>1. op.id \in Segments /\ op.id \notin Speakers /\ op.value \in texts
    BY <1>1, OpsAssumption DEF Op
  <2>2. ReduceRow(row, op) = [row EXCEPT !.text = op.value, !.rev = @ + 1]
    BY <1>1 DEF ReduceRow
  <2>3. [row EXCEPT !.text = op.value, !.rev = @ + 1] \in LineRow(texts)
    BY <2>1, BumpedText
  <2> QED BY <2>1, <2>2, <2>3
<1>2. CASE op.op = "segment.delete"
  BY <1>2 DEF ReduceRow
<1>3. CASE op.op = "speaker.rename"
  <2>1. op.id \in Speakers /\ op.id \notin Segments /\ op.value \in Names \cup Speakers
    BY <1>3, OpsAssumption DEF Op
  <2>2. ReduceRow(row, op) = [row EXCEPT !.name = op.value, !.rev = @ + 1]
    BY <1>3 DEF ReduceRow
  <2>3. [row EXCEPT !.name = op.value, !.rev = @ + 1] \in VoiceRow
    BY <2>1, BumpedName
  <2> QED BY <2>1, <2>2, <2>3
<1> QED BY <1>1, <1>2, <1>3 DEF Op

\* What each row of a merge is.
Merged(doc, op, merged) ==
  /\ merged = [e \in Entities |-> merged[e]]
  /\ \A s \in Segments :
       merged[s] = IF s \in SpokenBy(doc, op.source)
                   THEN [doc[s] EXCEPT !.speaker = op.id, !.rev = @ + 1] ELSE doc[s]
  /\ \A s \in Speakers :
       merged[s] = IF s = op.source THEN Gone
                   ELSE IF s = op.id /\ ~op.keepName
                   THEN [doc[s] EXCEPT !.name = doc[op.source].name, !.rev = @ + 1]
                   ELSE doc[s]

\* What a merge of speakers does to each row.
LEMMA MergeRows ==
  ASSUME NEW texts \in SUBSET Nat, NEW doc \in Document(texts),
         NEW op \in Op(texts), op.op = "speaker.merge"
  PROVE  Merged(doc, op, MergeSpeakers(doc, op))
<1>1. op.id \in Speakers /\ op.source \in Speakers /\ op.id # op.source
  BY DEF Op
<1>2. SpokenBy(doc, op.source) \subseteq Segments
  BY DEF SpokenBy
<1> QED BY <1>1, <1>2, OpsAssumption DEF Merged, MergeSpeakers, Entities

\* A merge of speakers makes a document.
LEMMA MergeTyped ==
  ASSUME NEW texts \in SUBSET Nat, NEW doc \in Document(texts),
         NEW op \in Op(texts), op.op = "speaker.merge", doc[op.id] # Gone, doc[op.source] # Gone
  PROVE  MergeSpeakers(doc, op) \in Document(texts)
<1> DEFINE merged == MergeSpeakers(doc, op)
<1>1. op.id \in Speakers /\ op.source \in Speakers
  BY DEF Op
<1>2. Merged(doc, op, merged)
  BY MergeRows
<1> HIDE DEF merged
<1>3. ASSUME NEW s \in Segments PROVE merged[s] \in LineRow(texts) \cup {Gone}
  <2>1. CASE s \in SpokenBy(doc, op.source)
    <3>1. doc[s] \in LineRow(texts)
      BY <2>1, RowsAreRows DEF SpokenBy
    <3>2. [doc[s] EXCEPT !.speaker = op.id, !.rev = @ + 1] \in LineRow(texts)
        BY <3>1, <1>1, BumpedSpeaker
    <3> QED BY <3>2, <2>1, <1>2 DEF Merged
  <2>2. CASE s \notin SpokenBy(doc, op.source)
    <3>1. doc[s] \in LineRow(texts) \cup {Gone}
      BY DEF Document
    <3> QED BY <3>1, <2>2, <1>2 DEF Merged
  <2> QED BY <2>1, <2>2
<1>4. ASSUME NEW s \in Speakers PROVE merged[s] \in VoiceRow \cup {Gone}
  <2>1. doc[op.source] \in VoiceRow /\ doc[op.id] \in VoiceRow /\ doc[s] \in VoiceRow \cup {Gone}
    BY <1>1, RowsAreRows DEF Document
  <2>2. [doc[op.id] EXCEPT !.name = doc[op.source].name, !.rev = @ + 1] \in VoiceRow
    <3>1. doc[op.source].name \in Names \cup Speakers
      BY <2>1 DEF VoiceRow
    <3> QED BY <2>1, <3>1, BumpedName
  <2> QED BY <2>1, <2>2, <1>2 DEF Merged
<1>5. merged \in Document(texts)
  BY <1>2, <1>3, <1>4, IsDocument DEF Merged
<1> QED BY <1>5 DEF merged

\* One op keeps a walk well formed.
LEMMA ApplyOneTyped ==
  ASSUME NEW texts \in SUBSET Nat, NEW acc \in Progress(texts), NEW op \in Op(texts)
  PROVE  ApplyOne(acc, op) \in Progress(texts)
<1>1. CASE op.op = "speaker.merge"
  <2>1. SpokenBy(acc.doc, op.source) \subseteq Entities /\ op.id \in Entities
    BY <1>1 DEF SpokenBy, Op, Entities
  <2>2. CASE acc.doc[op.id] # Gone /\ acc.doc[op.source] # Gone
    <3>1. MergeSpeakers(acc.doc, op) \in Document(texts)
      BY <1>1, <2>2, MergeTyped DEF Progress
    <3> QED BY <1>1, <2>1, <2>2, <3>1 DEF ApplyOne, Progress
  <2> QED BY <1>1, <2>2 DEF ApplyOne, Progress
<1>2. CASE op.op # "speaker.merge"
  <2>1. op.id \in Entities
    BY DEF Op, Entities
  <2>2. CASE Takes(acc, op)
    <3>1. [acc.doc EXCEPT ![op.id] = ReduceRow(acc.doc[op.id], op)] \in Document(texts)
      BY <1>2, <2>1, <2>2, ReduceRowTyped, RowsAreRows, DocumentExcept DEF Takes, Progress
    <3> QED BY <1>2, <2>1, <2>2, <3>1 DEF ApplyOne, Progress
  <2> QED BY <1>2, <2>2 DEF ApplyOne, Progress
<1> QED BY <1>1, <1>2

\* Alike rows take the same op, and are alike after it.
LEMMA ApplyOneAlike ==
  ASSUME NEW texts \in SUBSET Nat, NEW a \in Progress(texts), NEW b \in Progress(texts),
         AlikeProgress(a, b), NEW op \in Op(texts)
  PROVE  AlikeProgress(ApplyOne(a, op), ApplyOne(b, op))
<1>0. a.doc \in Document(texts) /\ b.doc \in Document(texts)
  BY DEF Progress
<1>1. CASE op.op = "speaker.merge"
  <2>1. op.id \in Speakers /\ op.source \in Speakers
    BY <1>1 DEF Op
  <2>2. /\ a.doc[op.id] = Gone <=> b.doc[op.id] = Gone
        /\ a.doc[op.source] = Gone <=> b.doc[op.source] = Gone
    BY <2>1 DEF AlikeProgress, Alike
  <2>3. SpokenBy(a.doc, op.source) = SpokenBy(b.doc, op.source)
    BY DEF AlikeProgress, Alike, SpokenBy
  <2>4. CASE a.doc[op.id] # Gone /\ a.doc[op.source] # Gone
    <3> DEFINE da == MergeSpeakers(a.doc, op)
               db == MergeSpeakers(b.doc, op)
    <3>0. Merged(a.doc, op, da) /\ Merged(b.doc, op, db)
      BY <1>0, <1>1, MergeRows
    <3> HIDE DEF da, db
    <3>1. \A s \in Segments : da[s] = db[s]
      <4> TAKE s \in Segments
      <4>1. a.doc[s] = b.doc[s]
        BY DEF AlikeProgress, Alike
      <4>2. CASE s \in SpokenBy(a.doc, op.source)
        <5>1. /\ da[s] = [a.doc[s] EXCEPT !.speaker = op.id, !.rev = @ + 1]
              /\ db[s] = [b.doc[s] EXCEPT !.speaker = op.id, !.rev = @ + 1]
          BY <2>3, <3>0, <4>2 DEF Merged
        <5> QED BY <4>1, <5>1, Zenon
      <4>3. CASE s \notin SpokenBy(a.doc, op.source)
        BY <2>3, <3>0, <4>1, <4>3 DEF Merged
      <4> QED BY <4>2, <4>3
    <3>2. ASSUME NEW s \in Speakers
          PROVE  (da[s] = Gone <=> db[s] = Gone) /\ (da[s] # Gone => da[s].rev = db[s].rev)
      <4>1. CASE s = op.source
        BY <4>1, <3>0 DEF Merged
      <4>2. CASE s # op.source /\ s = op.id /\ ~op.keepName
        <5>1. a.doc[s] \in VoiceRow /\ b.doc[s] \in VoiceRow /\ a.doc[s].rev = b.doc[s].rev
          BY <4>2, <2>2, <2>4, <1>0, RowsAreRows DEF AlikeProgress, Alike
        <5>2. /\ da[s] = [a.doc[s] EXCEPT !.name = a.doc[op.source].name, !.rev = @ + 1]
              /\ db[s] = [b.doc[s] EXCEPT !.name = b.doc[op.source].name, !.rev = @ + 1]
          BY <4>2, <3>0 DEF Merged
        <5>3. da[s] \in VoiceRow /\ db[s] \in VoiceRow
          <6>1. a.doc[op.source] \in VoiceRow /\ b.doc[op.source] \in VoiceRow
            BY <2>1, <2>2, <2>4, <1>0, RowsAreRows
          <6>2. /\ a.doc[op.source].name \in Names \cup Speakers
                /\ b.doc[op.source].name \in Names \cup Speakers
            BY <6>1 DEF VoiceRow
          <6>3. /\ [a.doc[s] EXCEPT !.name = a.doc[op.source].name, !.rev = @ + 1] \in VoiceRow
                /\ [b.doc[s] EXCEPT !.name = b.doc[op.source].name, !.rev = @ + 1] \in VoiceRow
            BY <5>1, <6>2, BumpedName
          <6> QED BY <5>2, <6>3
        <5>4. da[s].rev = db[s].rev
          <6> QED BY <5>1, <5>2 DEF VoiceRow
        <5> QED BY <5>3, <5>4, GoneIsNoRow
      <4>3. CASE s # op.source /\ ~(s = op.id /\ ~op.keepName)
        <5>1. da[s] = a.doc[s] /\ db[s] = b.doc[s]
          BY <4>3, <3>0 DEF Merged
        <5> QED BY <5>1 DEF AlikeProgress, Alike
      <4> QED BY <4>1, <4>2, <4>3
    <3>3. Alike(da, db)
      BY <3>1, <3>2 DEF Alike
    <3>4. /\ ApplyOne(a, op) = [a EXCEPT !.doc = da,
                                  !.touched = @ \cup SpokenBy(a.doc, op.source)
                                                \cup (IF op.keepName THEN {} ELSE {op.id})]
          /\ ApplyOne(b, op) = [b EXCEPT !.doc = db,
                                  !.touched = @ \cup SpokenBy(b.doc, op.source)
                                                \cup (IF op.keepName THEN {} ELSE {op.id})]
      BY <1>1, <2>2, <2>4 DEF ApplyOne, da, db
    <3> QED BY <2>3, <3>3, <3>4 DEF AlikeProgress, Progress
  <2>5. CASE ~(a.doc[op.id] # Gone /\ a.doc[op.source] # Gone)
    <3>1. ApplyOne(a, op) = [a EXCEPT !.invalid = TRUE] /\ ApplyOne(b, op) = [b EXCEPT !.invalid = TRUE]
      BY <1>1, <2>2, <2>5 DEF ApplyOne
    <3> QED BY <3>1 DEF AlikeProgress, Progress
  <2> QED BY <2>4, <2>5
<1>2. CASE op.op # "speaker.merge"
  <2>1. op.id \in Entities /\ (op.id \in Segments <=> op.id \notin Speakers)
    BY OpsAssumption DEF Op, Entities
  <2>2. /\ a.doc[op.id] = Gone <=> b.doc[op.id] = Gone
        /\ a.doc[op.id] # Gone => a.doc[op.id].rev = b.doc[op.id].rev
        /\ op.id \in Segments => a.doc[op.id] = b.doc[op.id]
    BY <2>1 DEF AlikeProgress, Alike, Entities
  <2>3. Takes(a, op) <=> Takes(b, op)
    BY <2>2 DEF AlikeProgress, Takes
  <2>4. CASE Takes(a, op)
    <3> DEFINE ra == ReduceRow(a.doc[op.id], op)
               rb == ReduceRow(b.doc[op.id], op)
    <3>1. op.id \in Segments => ra = rb
      BY <2>2
    <3>2. op.id \in Speakers => (ra = Gone <=> rb = Gone) /\ (ra # Gone => ra.rev = rb.rev)
      <4> SUFFICES ASSUME op.id \in Speakers
                   PROVE  (ra = Gone <=> rb = Gone) /\ (ra # Gone => ra.rev = rb.rev)
        OBVIOUS
      <4>1. op.op = "speaker.rename" /\ op.value \in Names \cup Speakers
        BY <1>2, <2>1 DEF Op
      <4>2. /\ a.doc[op.id] \in VoiceRow /\ b.doc[op.id] \in VoiceRow
            /\ a.doc[op.id].rev = b.doc[op.id].rev
        BY <2>2, <2>4, <1>0, RowsAreRows DEF Takes
      <4>3. /\ ra = [a.doc[op.id] EXCEPT !.name = op.value, !.rev = @ + 1]
            /\ rb = [b.doc[op.id] EXCEPT !.name = op.value, !.rev = @ + 1]
        BY <4>1 DEF ReduceRow
      <4> HIDE DEF ra, rb
      <4>4. ra \in VoiceRow /\ rb \in VoiceRow
        BY <4>1, <4>2, <4>3, BumpedName
      <4>5. ra.rev = rb.rev
        BY <4>2, <4>3 DEF VoiceRow
      <4> QED BY <4>4, <4>5, GoneIsNoRow
    <3>3. /\ ApplyOne(a, op) = [a EXCEPT !.doc = [a.doc EXCEPT ![op.id] = ra],
                                  !.touched = @ \cup {op.id}]
          /\ ApplyOne(b, op) = [b EXCEPT !.doc = [b.doc EXCEPT ![op.id] = rb],
                                  !.touched = @ \cup {op.id}]
      BY <1>2, <2>3, <2>4 DEF ApplyOne
    <3> HIDE DEF ra, rb
    <3>4. Alike([a.doc EXCEPT ![op.id] = ra], [b.doc EXCEPT ![op.id] = rb])
      <4>1. ASSUME NEW d, NEW x, d \in Document(texts)
            PROVE  \A e \in Entities : [d EXCEPT ![op.id] = x][e] = IF e = op.id THEN x ELSE d[e]
        BY <4>1 DEF Document
      <4>2. \A e \in Entities :
              /\ [a.doc EXCEPT ![op.id] = ra][e] = IF e = op.id THEN ra ELSE a.doc[e]
              /\ [b.doc EXCEPT ![op.id] = rb][e] = IF e = op.id THEN rb ELSE b.doc[e]
        BY <1>0, <4>1
      <4> DEFINE da == [a.doc EXCEPT ![op.id] = ra]
                 db == [b.doc EXCEPT ![op.id] = rb]
      <4> HIDE DEF da, db
      <4>3. \A e \in Entities : /\ da[e] = IF e = op.id THEN ra ELSE a.doc[e]
                                /\ db[e] = IF e = op.id THEN rb ELSE b.doc[e]
        BY <4>2 DEF da, db
      <4>4. Alike(da, db)
        BY <3>1, <3>2, <4>3 DEF Alike, AlikeProgress, Entities
      <4> QED BY <4>4 DEF da, db
    <3> QED BY <3>3, <3>4 DEF AlikeProgress, Progress
  <2>5. CASE ~Takes(a, op)
    <3>1. ApplyOne(a, op) = [a EXCEPT !.conflict = TRUE] /\ ApplyOne(b, op) = [b EXCEPT !.conflict = TRUE]
      BY <1>2, <2>3, <2>5 DEF ApplyOne
    <3> QED BY <3>1 DEF AlikeProgress, Progress
  <2> QED BY <2>4, <2>5
<1> QED BY <1>1, <1>2

\* A line is left alone, gets another rev, or goes.
LEMMA ApplyOneLater ==
  ASSUME NEW texts \in SUBSET Nat, NEW a \in Progress(texts), NEW op \in Op(texts), NEW s \in Segments
  PROVE  Later(a.doc[s], ApplyOne(a, op).doc[s])
<1>0. a.doc \in Document(texts) /\ s \notin Speakers
  BY OpsAssumption DEF Progress
<1>1. CASE op.op = "speaker.merge"
  <2>1. CASE a.doc[op.id] # Gone /\ a.doc[op.source] # Gone
    <3>0. Merged(a.doc, op, MergeSpeakers(a.doc, op))
      BY <1>0, <1>1, MergeRows
    <3>1. ApplyOne(a, op).doc[s] = MergeSpeakers(a.doc, op)[s]
      BY <1>1, <2>1 DEF ApplyOne, Progress
    <3>2. CASE s \in SpokenBy(a.doc, op.source)
      <4>1. a.doc[s] \in LineRow(texts) /\ a.doc[s] # Gone
        BY <3>2, <1>0, RowsAreRows DEF SpokenBy
      <4>2. MergeSpeakers(a.doc, op)[s] = [a.doc[s] EXCEPT !.speaker = op.id, !.rev = @ + 1]
        BY <3>2, <3>0 DEF Merged
      <4>3. MergeSpeakers(a.doc, op)[s].rev = a.doc[s].rev + 1 /\ a.doc[s].rev \in Nat
        BY <4>1, <4>2 DEF LineRow
      <4> QED BY <3>1, <4>1, <4>3 DEF Later
    <3>3. CASE s \notin SpokenBy(a.doc, op.source)
      <4>1. MergeSpeakers(a.doc, op)[s] = a.doc[s]
        BY <3>3, <3>0 DEF Merged
      <4> QED BY <3>1, <4>1 DEF Later
    <3> QED BY <3>2, <3>3
  <2>2. CASE ~(a.doc[op.id] # Gone /\ a.doc[op.source] # Gone)
    BY <1>1, <2>2 DEF ApplyOne, Progress, Later
  <2> QED BY <2>1, <2>2
<1>2. CASE op.op # "speaker.merge"
  <2>1. CASE Takes(a, op) /\ op.id = s
    <3>1. a.doc[s] \in LineRow(texts) /\ a.doc[s] # Gone
      BY <2>1, <1>0, RowsAreRows DEF Takes
    <3>2. ApplyOne(a, op).doc[s] = ReduceRow(a.doc[s], op)
      BY <1>0, <1>2, <2>1 DEF ApplyOne, Progress, Document, Entities
    <3>3. op.op \in {"segment.update_text", "segment.delete"}
      BY <1>0, <1>2, <2>1 DEF Op
    <3>4. CASE op.op = "segment.update_text"
      <4>1. ReduceRow(a.doc[s], op) = [a.doc[s] EXCEPT !.text = op.value, !.rev = @ + 1]
        BY <3>4 DEF ReduceRow
      <4>2. ReduceRow(a.doc[s], op).rev = a.doc[s].rev + 1 /\ a.doc[s].rev \in Nat
        BY <3>1, <4>1 DEF LineRow
      <4> QED BY <3>1, <3>2, <4>2 DEF Later
    <3>5. CASE op.op = "segment.delete"
      BY <3>2, <3>5 DEF ReduceRow, Later
    <3> QED BY <3>3, <3>4, <3>5
  <2>2. CASE Takes(a, op) /\ op.id # s
    <3>1. ApplyOne(a, op).doc[s] = a.doc[s]
      BY <1>0, <1>2, <2>2 DEF ApplyOne, Progress, Document, Entities
    <3> QED BY <3>1 DEF Later
  <2>3. CASE ~Takes(a, op)
    BY <1>2, <2>3 DEF ApplyOne, Progress, Later
  <2> QED BY <2>1, <2>2, <2>3
<1> QED BY <1>1, <1>2
-------------------------------------------------------------------------------
(* A batch.                                                                *)

\* The walk of a batch, op by op.
Runs(doc, ops, at) ==
  /\ at[0] = Start(doc)
  /\ \A i \in 1..Len(ops) : at[i] = ApplyOne(at[i - 1], ops[i])
  /\ ApplyOps(doc, ops) = at[Len(ops)]

\* A batch can be applied op by op: there is a document after each of them.
LEMMA ApplyOpsRuns ==
  ASSUME NEW texts \in SUBSET Nat, NEW doc \in Document(texts), NEW ops \in Seq(Op(texts))
  PROVE  \E at \in [0..Len(ops) -> Progress(texts)] : Runs(doc, ops, at)
<1> DEFINE n    == Len(ops)
           P    == Progress(texts)
           F    == [i \in 1..n |-> [acc \in P |-> ApplyOne(acc, ops[i])]]
           Walked(f) == f = [i \in 0..n |-> IF i = 0 THEN Start(doc)
                                             ELSE ApplyOne(f[i - 1], ops[i])]
           after == CHOOSE f : Walked(f)
<1>0. n \in Nat /\ \A i \in 1..n : ops[i] \in Op(texts)
  OBVIOUS
<1>1. Start(doc) \in P
  BY DEF Start, Progress
<1>2. F \in [1..n -> [P -> P]]
  BY <1>0, ApplyOneTyped
<1>3. PICK g : Iteration(P, n, F, Start(doc), g)
  <2> HIDE DEF F, P, n
  <2> QED BY <1>0, <1>1, <1>2, Iterates, Zenon
<1>4. \A i \in 1..n : g[i] = ApplyOne(g[i - 1], ops[i])
  <2>1. \A i \in 1..n, acc \in P : F[i][acc] = ApplyOne(acc, ops[i])
    OBVIOUS
  <2> HIDE DEF F, P
  <2> QED BY <1>0, <1>3, <2>1 DEF Iteration
<1>5. Walked(g)
  <2> HIDE DEF F, P
  <2> QED BY <1>0, <1>3, <1>4 DEF Iteration
<1>6. Walked(after)
  <2> HIDE DEF Walked
  <2> QED BY <1>5
<1>7. \A i \in 0..n : after[i] = g[i]
  <2> DEFINE S == {i \in 0..n : after[i] = g[i]}
  <2>1. after[0] = Start(doc) /\ \A i \in 1..n : after[i] = ApplyOne(after[i - 1], ops[i])
    <3> HIDE DEF after
    <3> QED BY <1>0, <1>6
  <2> HIDE DEF after, F, P
  <2>2. 0 \in S /\ \A i \in 0..n : i \in S /\ i < n => i + 1 \in S
    BY <1>0, <1>3, <1>4, <2>1 DEF Iteration
  <2> HIDE DEF S, n
  <2>3. \A i \in 0..n : i \in S
    BY <1>0, <2>2, UpTo, Zenon
  <2> QED BY <2>3 DEF S
<1>8. ApplyOps(doc, ops) = after[n]
  BY DEF ApplyOps, Walk, Start
<1> HIDE DEF after, F, P
<1>9. Runs(doc, ops, g)
  BY <1>0, <1>3, <1>4, <1>7, <1>8 DEF Runs, Iteration
<1> QED BY <1>3, <1>9 DEF P, Iteration

\* A batch makes a document of a document.
LEMMA ApplyOpsTyped ==
  ASSUME NEW texts \in SUBSET Nat, NEW doc \in Document(texts), NEW ops \in Seq(Op(texts))
  PROVE  ApplyOps(doc, ops) \in Progress(texts)
<1>1. PICK at \in [0..Len(ops) -> Progress(texts)] : Runs(doc, ops, at)
  BY ApplyOpsRuns
<1>2. Len(ops) \in 0..Len(ops)
  OBVIOUS
<1> QED BY <1>1, <1>2 DEF Runs

\* Alike documents fare alike: the same conflicts, and alike documents after it.
LEMMA ApplyOpsAlike ==
  ASSUME NEW texts \in SUBSET Nat, NEW d \in Document(texts), NEW e \in Document(texts),
         Alike(d, e), NEW ops \in Seq(Op(texts))
  PROVE  AlikeProgress(ApplyOps(d, ops), ApplyOps(e, ops))
<1> DEFINE n == Len(ops)
<1>0. n \in Nat /\ \A i \in 1..n : ops[i] \in Op(texts)
  OBVIOUS
<1>1. PICK a \in [0..n -> Progress(texts)] : Runs(d, ops, a)
  BY ApplyOpsRuns
<1>2. PICK b \in [0..n -> Progress(texts)] : Runs(e, ops, b)
  BY ApplyOpsRuns
<1> DEFINE S == {i \in 0..n : AlikeProgress(a[i], b[i])}
<1>3. AlikeProgress(a[0], b[0])
  BY <1>1, <1>2 DEF Runs, Start, AlikeProgress
<1>4. ASSUME NEW i \in 0..n, AlikeProgress(a[i], b[i]), i < n
      PROVE  AlikeProgress(a[i + 1], b[i + 1])
  <2>1. i + 1 \in 1..n /\ (i + 1) - 1 = i
    BY <1>0, <1>4
  <2>2. a[i + 1] = ApplyOne(a[i], ops[i + 1]) /\ b[i + 1] = ApplyOne(b[i], ops[i + 1])
    BY <1>1, <1>2, <2>1 DEF Runs
  <2>3. a[i] \in Progress(texts) /\ b[i] \in Progress(texts) /\ ops[i + 1] \in Op(texts)
    BY <1>0, <2>1
  <2> QED BY <1>4, <2>2, <2>3, ApplyOneAlike
<1>5. 0 \in S /\ \A i \in 0..n : i \in S /\ i < n => i + 1 \in S
  BY <1>0, <1>3, <1>4
<1> HIDE DEF S
<1>6. \A i \in 0..n : i \in S
  BY <1>0, <1>5, UpTo, Zenon
<1>7. AlikeProgress(a[n], b[n])
  BY <1>0, <1>6 DEF S
<1> QED BY <1>1, <1>2, <1>7 DEF Runs

\* Rows of lines, or none.
IsLine(row) == row # Gone => row.rev \in Nat

\* A typed row says of its line what IsLine asks of it.
LEMMA LineIsLine ==
  ASSUME NEW texts, NEW row \in LineRow(texts) \cup {Gone}
  PROVE  IsLine(row)
BY DEF LineRow, IsLine

\* What is later than a later row is later.
LEMMA LaterOnward ==
  ASSUME NEW a, NEW b, NEW c, IsLine(a), IsLine(b), IsLine(c), Later(a, b), Later(b, c)
  PROVE  Later(a, c)
BY DEF IsLine, Later

\* So does a line in a whole batch.
LEMMA ApplyOpsLater ==
  ASSUME NEW texts \in SUBSET Nat, NEW doc \in Document(texts), NEW ops \in Seq(Op(texts)),
         NEW s \in Segments
  PROVE  Later(doc[s], ApplyOps(doc, ops).doc[s])
<1> DEFINE n == Len(ops)
<1>0. n \in Nat /\ \A i \in 1..n : ops[i] \in Op(texts)
  OBVIOUS
<1>1. PICK a \in [0..n -> Progress(texts)] : Runs(doc, ops, a)
  BY ApplyOpsRuns
<1> DEFINE S == {i \in 0..n : Later(doc[s], a[i].doc[s])}
<1>2. Later(doc[s], a[0].doc[s])
  BY <1>1 DEF Runs, Start, Later
<1>3. ASSUME NEW i \in 0..n, Later(doc[s], a[i].doc[s]), i < n
      PROVE  Later(doc[s], a[i + 1].doc[s])
  <2>1. i + 1 \in 1..n /\ i + 1 \in 0..n /\ (i + 1) - 1 = i
    BY <1>0, <1>3
  <2>2. a[i + 1] = ApplyOne(a[i], ops[i + 1])
    BY <1>1, <2>1 DEF Runs
  <2>3. a[i] \in Progress(texts) /\ a[i + 1] \in Progress(texts) /\ ops[i + 1] \in Op(texts)
    BY <1>0, <2>1
  <2>4. Later(a[i].doc[s], a[i + 1].doc[s])
    BY <2>2, <2>3, ApplyOneLater
  <2>5. IsLine(doc[s]) /\ IsLine(a[i].doc[s]) /\ IsLine(a[i + 1].doc[s])
    BY <2>3, LineIsLine DEF Progress, Document
  <2> QED BY <1>3, <2>4, <2>5, LaterOnward
<1>4. 0 \in S /\ \A i \in 0..n : i \in S /\ i < n => i + 1 \in S
  BY <1>0, <1>2, <1>3
<1> HIDE DEF S
<1>5. \A i \in 0..n : i \in S
  BY <1>0, <1>4, UpTo, Zenon
<1>6. Later(doc[s], a[n].doc[s])
  BY <1>0, <1>5 DEF S
<1> QED BY <1>1, <1>6 DEF Runs

\* A conflict is not forgotten.
LEMMA ApplyOneConflict ==
  ASSUME NEW texts \in SUBSET Nat, NEW a \in Progress(texts), NEW op, a.conflict
  PROVE  ApplyOne(a, op).conflict
BY DEF ApplyOne, Progress

\* The first op of a batch without a conflict names the rev its row has, unless it is a merge.
LEMMA FirstTakes ==
  ASSUME NEW texts \in SUBSET Nat, NEW doc \in Document(texts), NEW ops \in Seq(Op(texts)),
         ops # <<>>, ops[1].op # "speaker.merge", ~ApplyOps(doc, ops).conflict
  PROVE  doc[ops[1].id] # Gone /\ doc[ops[1].id].rev = ops[1].rev
<1> DEFINE n == Len(ops)
<1>0. n \in Nat /\ 1 <= n /\ \A i \in 1..n : ops[i] \in Op(texts)
  OBVIOUS
<1>1. PICK a \in [0..n -> Progress(texts)] : Runs(doc, ops, a)
  BY ApplyOpsRuns
<1> SUFFICES ASSUME ~Takes(Start(doc), ops[1]) PROVE FALSE
  BY DEF Takes, Start
<1>2. a[1] = ApplyOne(Start(doc), ops[1])
  BY <1>0, <1>1 DEF Runs
<1>3. a[1].conflict
  BY <1>2 DEF ApplyOne, Start
<1> DEFINE S == {i \in 0..n : i = 0 \/ a[i].conflict}
<1>4. ASSUME NEW i \in 0..n, i \in S, i < n PROVE i + 1 \in S
  <2>1. CASE i = 0
    BY <1>0, <1>3, <2>1
  <2>2. CASE i # 0
    <3>1. i + 1 \in 1..n /\ i + 1 \in 0..n /\ (i + 1) - 1 = i
      BY <1>0, <1>4
    <3>2. a[i + 1] = ApplyOne(a[i], ops[i + 1])
      BY <1>1, <3>1 DEF Runs
    <3>3. a[i] \in Progress(texts) /\ a[i].conflict
      BY <1>4, <2>2
    <3> QED BY <3>1, <3>2, <3>3, ApplyOneConflict
  <2> QED BY <2>1, <2>2
<1>5. 0 \in S
  BY <1>0
<1> HIDE DEF S
<1>6. \A i \in 0..n : i \in S
  BY <1>0, <1>4, <1>5, UpTo, Zenon
<1>7. a[n].conflict
  BY <1>0, <1>6 DEF S
<1> QED BY <1>1, <1>7 DEF Runs
-------------------------------------------------------------------------------
(* Names.                                                                  *)

\* Names given beside the log.
Given == [Speakers -> Names \cup {Gone}]

\* A row with another name.
LEMMA RenamedRow ==
  ASSUME NEW row \in VoiceRow, NEW name \in Names \cup Speakers
  PROVE  [row EXCEPT !.name = name] \in VoiceRow /\ [row EXCEPT !.name = name].rev = row.rev
BY DEF VoiceRow

\* Names put over a document make one that is alike.
LEMMA NamesPut ==
  ASSUME NEW texts \in SUBSET Nat, NEW doc \in Document(texts), NEW names \in Given
  PROVE  /\ ApplyIdentities(doc, names) \in Document(texts)
         /\ Alike(ApplyIdentities(doc, names), doc)
<1> DEFINE put == ApplyIdentities(doc, names)
<1>1. put = [e \in Entities |-> put[e]]
  BY DEF ApplyIdentities
<1>2. \A s \in Segments : put[s] = doc[s]
  BY OpsAssumption DEF ApplyIdentities, Entities
<1>3. ASSUME NEW s \in Speakers
      PROVE  /\ put[s] \in VoiceRow \cup {Gone}
             /\ put[s] = Gone <=> doc[s] = Gone
             /\ put[s] # Gone => put[s].rev = doc[s].rev
  <2>1. CASE IsUnidentified(doc, s) /\ names[s] # Gone
    <3>1. put[s] = [doc[s] EXCEPT !.name = names[s]]
      BY <2>1 DEF ApplyIdentities, Entities
    <3>2. doc[s] # Gone /\ doc[s] \in VoiceRow /\ names[s] \in Names
      BY <2>1, RowsAreRows DEF IsUnidentified, Given
    <3> HIDE DEF put
    <3> QED BY <3>1, <3>2, RenamedRow, GoneIsNoRow
  <2>2. CASE ~(IsUnidentified(doc, s) /\ names[s] # Gone)
    <3>1. put[s] = doc[s]
      BY <2>2 DEF ApplyIdentities, Entities
    <3>2. doc[s] \in VoiceRow \cup {Gone}
      BY DEF Document
    <3> QED BY <3>1, <3>2
  <2> QED BY <2>1, <2>2
<1>4. \A s \in Segments : put[s] \in LineRow(texts) \cup {Gone}
  BY <1>2 DEF Document
<1> HIDE DEF put
<1>5. put \in Document(texts)
  BY <1>1, <1>3, <1>4, IsDocument
<1>6. Alike(put, doc)
  BY <1>2, <1>3 DEF Alike
<1> QED BY <1>5, <1>6 DEF put

\* The name a speaker has once names are put over a document.
LEMMA NamesPutName ==
  ASSUME NEW texts \in SUBSET Nat, NEW doc \in Document(texts), NEW names \in Given,
         NEW s \in Speakers, doc[s] # Gone
  PROVE  ApplyIdentities(doc, names)[s].name
           = IF doc[s].name = s /\ names[s] # Gone THEN names[s] ELSE doc[s].name
<1>1. doc[s] \in VoiceRow /\ s \in Entities
  BY RowsAreRows DEF Entities
<1>2. CASE IsUnidentified(doc, s) /\ names[s] # Gone
  <2>1. ApplyIdentities(doc, names)[s] = [doc[s] EXCEPT !.name = names[s]]
    BY <1>1, <1>2 DEF ApplyIdentities
  <2> QED BY <1>1, <1>2, <2>1 DEF VoiceRow, IsUnidentified
<1>3. CASE ~(IsUnidentified(doc, s) /\ names[s] # Gone)
  <2>1. ApplyIdentities(doc, names)[s] = doc[s]
    BY <1>1, <1>3 DEF ApplyIdentities
  <2> QED BY <1>3, <2>1 DEF IsUnidentified
<1> QED BY <1>2, <1>3

\* What goes the way of identifications is renames and nothing else.
LEMMA IdentificationsRename ==
  ASSUME NEW texts \in SUBSET Nat, NEW doc \in Document(texts), NEW ops \in Seq(Op(texts)),
         IsIdentificationBatch(doc, ops)
  PROVE  \A i \in 1..Len(ops) : ops[i].op = "speaker.rename"
<1> DEFINE n == Len(ops)
           Name(acc, op) ==
             [ok  |-> /\ acc.ok
                      /\ op.op = "speaker.rename"
                      /\ ClassifyRename(acc.doc, op) # "versioned",
              doc |-> IF op.op = "speaker.rename" /\ acc.doc[op.id] # Gone
                      THEN [acc.doc EXCEPT ![op.id].name = op.value] ELSE acc.doc]
           start == [ok |-> TRUE, doc |-> doc]
           P == [ok : BOOLEAN, doc : Document(texts)]
           F == [i \in 1..n |-> [acc \in P |-> Name(acc, ops[i])]]
           Walked(f) == f = [i \in 0..n |-> IF i = 0 THEN start ELSE Name(f[i - 1], ops[i])]
           after == CHOOSE f : Walked(f)
<1>0. n \in Nat /\ \A i \in 1..n : ops[i] \in Op(texts)
  OBVIOUS
<1>1. start \in P
  OBVIOUS
<1>2. ASSUME NEW acc \in P, NEW op \in Op(texts) PROVE Name(acc, op) \in P
  <2>1. CASE op.op = "speaker.rename" /\ acc.doc[op.id] # Gone
    <3>1. op.id \in Speakers /\ op.id \in Entities /\ op.id \notin Segments
              /\ op.value \in Names \cup Speakers
      BY <2>1, OpsAssumption DEF Op, Entities
    <3>2. acc.doc[op.id] \in VoiceRow
      BY <2>1, <3>1, RowsAreRows
    <3>3. [acc.doc[op.id] EXCEPT !.name = op.value] \in VoiceRow
      BY <3>1, <3>2, RenamedRow
    <3>4. [acc.doc EXCEPT ![op.id].name = op.value] \in Document(texts)
      BY <3>1, <3>3, DocumentExcept
    <3> QED BY <2>1, <3>4
  <2>2. CASE ~(op.op = "speaker.rename" /\ acc.doc[op.id] # Gone)
    BY <2>2
  <2> QED BY <2>1, <2>2
<1>3. F \in [1..n -> [P -> P]]
  <2> HIDE DEF Name, P
  <2> QED BY <1>0, <1>2
<1>4. PICK g : Iteration(P, n, F, start, g)
  <2> HIDE DEF F, P, n, start
  <2> QED BY <1>0, <1>1, <1>3, Iterates, Zenon
<1>5. \A i \in 1..n : g[i] = Name(g[i - 1], ops[i])
  <2>1. \A i \in 1..n, acc \in P : F[i][acc] = Name(acc, ops[i])
    <3> HIDE DEF Name, P
    <3> QED OBVIOUS
  <2> HIDE DEF F, P, Name
  <2> QED BY <1>0, <1>4, <2>1 DEF Iteration
<1>6. Walked(g)
  <2> HIDE DEF F, P, Name, start
  <2> QED BY <1>0, <1>4, <1>5 DEF Iteration
<1>7. Walked(after)
  <2> HIDE DEF Walked
  <2> QED BY <1>6
<1>8. after[0] = start /\ \A i \in 1..n : after[i] = Name(after[i - 1], ops[i])
  <2> HIDE DEF after, Name, start
  <2> QED BY <1>0, <1>7
<1>9. after[n].ok
  BY DEF IsIdentificationBatch, Walk
<1> SUFFICES ASSUME NEW k \in 1..n, ops[k].op # "speaker.rename" PROVE FALSE
  OBVIOUS
<1> HIDE DEF after
<1> DEFINE S == {i \in 0..n : i >= k => ~after[i].ok}
<1>10. ASSUME NEW i \in 0..n, i \in S, i < n PROVE i + 1 \in S
  <2>1. i + 1 \in 1..n /\ i + 1 \in 0..n /\ (i + 1) - 1 = i
    BY <1>0, <1>10
  <2>2. after[i + 1] = Name(after[i], ops[i + 1])
    <3> HIDE DEF Name
    <3> QED BY <1>8, <2>1
  <2>3. after[i + 1].ok => after[i].ok /\ ops[i + 1].op = "speaker.rename"
    BY <2>2
  <2>4. CASE i + 1 = k
    BY <2>1, <2>3, <2>4
  <2>5. CASE i + 1 # k
    BY <1>10, <2>1, <2>3, <2>5
  <2> QED BY <2>4, <2>5
<1>11. 0 \in S
  BY <1>0
<1> HIDE DEF S
<1>12. \A i \in 0..n : i \in S
  BY <1>0, <1>10, <1>11, UpTo, Zenon
<1> QED BY <1>0, <1>9, <1>12 DEF S

\* One op leaves a speaker its name, unless it is the rename that gives it one; of merges, those
\* that keep the name.
LEMMA ApplyOneNames ==
  ASSUME NEW texts \in SUBSET Nat, NEW a \in Progress(texts), NEW op \in Op(texts),
         op.op = "speaker.merge" => op.keepName, NEW s \in Speakers,
         ~ApplyOne(a, op).conflict, ApplyOne(a, op).doc[s] # Gone
  PROVE  /\ a.doc[s] # Gone
         /\ ApplyOne(a, op).doc[s].name
              = IF op.op = "speaker.rename" /\ op.id = s THEN op.value ELSE a.doc[s].name
<1>0. a.doc \in Document(texts) /\ s \notin Segments /\ s \in Entities
  BY OpsAssumption DEF Progress, Entities
<1>1. CASE op.op = "speaker.merge"
  <2>1. CASE a.doc[op.id] # Gone /\ a.doc[op.source] # Gone
    <3> DEFINE merged == MergeSpeakers(a.doc, op)
    <3>1. Merged(a.doc, op, merged)
      BY <1>0, <1>1, MergeRows
    <3>2. ApplyOne(a, op).doc = merged
      BY <1>1, <2>1 DEF ApplyOne, Progress
    <3> HIDE DEF merged
    <3>3. merged[s] = IF s = op.source THEN Gone ELSE a.doc[s]
      BY <1>1, <3>1, Zenon DEF Merged
    <3> QED BY <1>1, <3>2, <3>3
  <2>2. CASE ~(a.doc[op.id] # Gone /\ a.doc[op.source] # Gone)
    BY <1>1, <2>2 DEF ApplyOne, Progress
  <2> QED BY <2>1, <2>2
<1>2. CASE op.op # "speaker.merge"
  <2>1. Takes(a, op)
    BY <1>2 DEF ApplyOne, Progress
  <2>2. ApplyOne(a, op).doc = [a.doc EXCEPT ![op.id] = ReduceRow(a.doc[op.id], op)]
    BY <1>2, <2>1 DEF ApplyOne, Progress
  <2>3. CASE op.id = s
    <3>1. op.op = "speaker.rename"
      BY <1>0, <1>2, <2>3 DEF Op
    <3>2. a.doc[s] # Gone /\ a.doc[s] \in VoiceRow
      BY <1>0, <2>1, <2>3, RowsAreRows DEF Takes
    <3>3. ApplyOne(a, op).doc[s] = [a.doc[s] EXCEPT !.name = op.value, !.rev = @ + 1]
      BY <1>0, <2>2, <2>3, <3>1 DEF ReduceRow, Document
    <3> QED BY <2>3, <3>1, <3>2, <3>3 DEF VoiceRow
  <2>4. CASE op.id # s
    <3>1. ApplyOne(a, op).doc[s] = a.doc[s]
      BY <1>0, <2>2, <2>4 DEF Document
    <3> QED BY <2>4, <3>1
  <2> QED BY <2>3, <2>4
<1> QED BY <1>1, <1>2

\* What renames call the speakers: those still there were there, and have the names given, or the
\* ones they had.
Renamed(doc, then, given) ==
  \A s \in Speakers :
    then[s] # Gone =>
      /\ doc[s] # Gone
      /\ then[s].name = IF given[s] = Gone THEN doc[s].name ELSE given[s]

\* A batch gives the same names to the speakers of every document it does not conflict with.
LEMMA ApplyOpsNames ==
  ASSUME NEW texts \in SUBSET Nat, NEW ops \in Seq(Op(texts)),
         NEW values \in SUBSET (Names \cup Speakers),
         \A i \in 1..Len(ops) : /\ ops[i].op = "speaker.merge" => ops[i].keepName
                                /\ ops[i].op = "speaker.rename" => ops[i].value \in values
  PROVE  \E given \in [Speakers -> values \cup {Gone}] :
           \A doc \in Document(texts) :
             ~ApplyOps(doc, ops).conflict => Renamed(doc, ApplyOps(doc, ops).doc, given)
<1> DEFINE n == Len(ops)
           Says(i, s, x) ==
             \A doc \in Document(texts), a \in [0..n -> Progress(texts)] :
               Runs(doc, ops, a) /\ ~a[i].conflict /\ a[i].doc[s] # Gone =>
                 /\ doc[s] # Gone
                 /\ a[i].doc[s].name = IF x = Gone THEN doc[s].name ELSE x
<1>0. n \in Nat /\ (\A i \in 1..n : ops[i] \in Op(texts)) /\ Gone \notin values
  BY OpsAssumption
<1>1. ASSUME NEW s \in Speakers PROVE \E x \in values \cup {Gone} : Says(n, s, x)
  <2> DEFINE S == {i \in 0..n : \E x \in values \cup {Gone} : Says(i, s, x)}
  <2>1. 0 \in S
    <3>1. Says(0, s, Gone)
      BY DEF Runs, Start
    <3> QED BY <1>0, <3>1
  <2>2. ASSUME NEW i \in 0..n, i \in S, i < n PROVE i + 1 \in S
    <3>0. i + 1 \in 1..n /\ i + 1 \in 0..n /\ (i + 1) - 1 = i
      BY <1>0, <2>2
    <3>1. PICK x \in values \cup {Gone} : Says(i, s, x)
      BY <2>2
    <3> DEFINE op == ops[i + 1]
               y == IF op.op = "speaker.rename" /\ op.id = s THEN op.value ELSE x
    <3>2. op \in Op(texts) /\ (op.op = "speaker.merge" => op.keepName) /\ y \in values \cup {Gone}
            /\ (op.op = "speaker.rename" => op.value # Gone)
      BY <1>0, <3>0
    <3>3. ASSUME NEW doc \in Document(texts), NEW a \in [0..n -> Progress(texts)],
                 Runs(doc, ops, a), ~a[i + 1].conflict, a[i + 1].doc[s] # Gone
          PROVE  doc[s] # Gone /\ a[i + 1].doc[s].name = IF y = Gone THEN doc[s].name ELSE y
      <4>1. a[i + 1] = ApplyOne(a[i], op) /\ a[i] \in Progress(texts)
        BY <3>0, <3>3 DEF Runs
      <4>2. ~a[i].conflict
        BY <3>3, <4>1, ApplyOneConflict
      <4>3. /\ a[i].doc[s] # Gone
            /\ a[i + 1].doc[s].name
                 = IF op.op = "speaker.rename" /\ op.id = s THEN op.value ELSE a[i].doc[s].name
        BY <3>2, <3>3, <4>1, ApplyOneNames
      <4>4. doc[s] # Gone /\ a[i].doc[s].name = IF x = Gone THEN doc[s].name ELSE x
        BY <3>1, <3>3, <4>2, <4>3
      <4> HIDE DEF Says, n, op
      <4> QED BY <3>2, <4>3, <4>4
    <3>4. Says(i + 1, s, y)
      BY <3>3
    <3> HIDE DEF Says, y
    <3> QED BY <3>0, <3>2, <3>4
  <2> HIDE DEF S
  <2>3. \A i \in 0..n : i \in S
    BY <1>0, <2>1, <2>2, UpTo, Zenon
  <2>4. n \in S
    BY <1>0, <2>3
  <2> QED BY <2>4 DEF S
<1> DEFINE given == [s \in Speakers |-> CHOOSE x \in values \cup {Gone} : Says(n, s, x)]
<1>2. \A s \in Speakers : given[s] \in values \cup {Gone} /\ Says(n, s, given[s])
  <2> HIDE DEF Says, n
  <2> QED BY <1>1
<1>3. given \in [Speakers -> values \cup {Gone}]
  <2> HIDE DEF Says, n
  <2> QED BY <1>2
<1> HIDE DEF given
<1>4. ASSUME NEW doc \in Document(texts), ~ApplyOps(doc, ops).conflict
      PROVE  Renamed(doc, ApplyOps(doc, ops).doc, given)
  <2>1. PICK a \in [0..n -> Progress(texts)] : Runs(doc, ops, a)
    BY ApplyOpsRuns
  <2>2. ApplyOps(doc, ops) = a[n]
    BY <2>1 DEF Runs
  <2> QED BY <1>2, <1>4, <2>1, <2>2 DEF Renamed
<1> QED BY <1>3, <1>4
===============================================================================
