-------------------------- MODULE MCTranscriptEditing --------------------------
(***************************************************************************)
(* TranscriptEditing for TLC: what the editors of a transcript do.         *)
(***************************************************************************)
EXTENDS TranscriptEditing, TLC

\* Corrections and merges by several people; naming and going back to an older version; naming,
\* naming in one burst with a correction, taking a name back, merging.
MCMenus == {{"text", "delete", "merge"}, {"text", "rename", "restore"},
            {"rename", "unname", "text_rename", "merge"}}

\* A merge that takes the name of the speaker it removes.
MCMergeName == {{"rename", "merge_name"}}

\* Correcting, naming and going back to an older version.
MCRestores == {{"text", "rename", "restore"}}

\* Corrections alone.
MCTexts == {{"text"}}

\* The profile of transcript.snapshot.
MCMaxAttempts == [s \in Slots |-> 3]

\* One configuration for two requests at once without faults, and for faults beside one request.
\* What an enqueue is merged into does not depend on the faults.
MCTabsOrFaults ==
  used.faults > 0 => /\ menu = {"text", "rename", "restore"}
                     /\ \E t \in Tabs : \A u \in Tabs \ {t} : client[u] = NoRequest

MCSymmetry ==
  Permutations(Tabs) \cup Permutations(Workers) \cup Permutations(Slots) \cup Permutations(Speakers)
===============================================================================
