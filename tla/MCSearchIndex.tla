---------------------------- MODULE MCSearchIndex ----------------------------
(* One document of up to two chunks.                                        *)
EXTENDS SearchIndex, TLC

CONSTANTS a, b

MCSlots       == {Keyed} \cup Reruns
MCMaxAttempts == [s \in MCSlots |-> 2]
MCTexts       == {a, b}
MCContents    == {<<a>>, <<b>>, <<a, b>>, <<b, a>>}

\* Of all that may happen beside a first run, MCEvents things happen; a removal, and two runs
\* at once, are two things each.
CONSTANT MCEvents
MCFewEvents ==
  /\ doc.rev + used.names <= 2
  /\ doc.rev + used.names + used.faults + used.switches + used.presses
       + (IF Live THEN 0 ELSE 2) + (IF past.overlap THEN 2 ELSE 0) <= MCEvents

MCSymmetry == Permutations(MCTexts) \cup Permutations(Reruns) \cup Permutations(Models)
=================================================================================
