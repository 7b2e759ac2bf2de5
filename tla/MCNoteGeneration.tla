--------------------------- MODULE MCNoteGeneration ---------------------------
(***************************************************************************)
(* NoteGeneration for TLC: attempt budgets, and who watches what.          *)
(***************************************************************************)
EXTENDS NoteGeneration, TLC

CONSTANTS PurgeAttempts

MCSlots       == Gens \cup {Purge}
MCMaxAttempts == [s \in MCSlots |-> IF s = Purge THEN PurgeAttempts ELSE 1]

Watching(g) == [r \in Readers |-> g]

\* A note, and nobody who watches.
MCNote == {[note |-> TRUE, route |-> Watching(NoGen)]}

\* A note and its page, or a preview and its page.
MCPages == {[note |-> TRUE, route |-> Watching(NoGen)]}
             \cup {[note |-> FALSE, route |-> Watching(g)] : g \in Previews}

MCSymmetry == Permutations(Saves) \cup Permutations(Batches) \cup Permutations(Gens \ ({First} \cup Previews))
===============================================================================
