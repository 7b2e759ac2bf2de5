-------------------------- MODULE MCTranscriptPipeline --------------------------
(***************************************************************************)
(* TranscriptPipeline for TLC: attempt budgets and files as definitions    *)
(* the configurations substitute.  The queue's own budgets (5 and 3) are   *)
(* cut to MCAttempts, above the number of faults a configuration allows    *)
(* when the question is what happens before a budget is spent.             *)
(***************************************************************************)
EXTENDS TranscriptPipeline, TLC

CONSTANT MCAttempts

MCSlots       == PipelineTypes \cup {"purge"} \cup PollSlots
MCMaxAttempts == [s \in MCSlots |-> MCAttempts]

\* A file the provider takes, and one of a type it does not.
MCUsable   == [accepted |-> TRUE, fits |-> TRUE]
MCUnusable == [accepted |-> FALSE, fits |-> TRUE]
MCUsables  == {MCUsable}
MCFiles    == {MCUsable, MCUnusable}

\* One configuration for a completion event delivered twice without faults, for faults without a
\* crash and for a crash with a single fault.  The sweep passes over rows touched in the last 20
\* minutes: it has something to find only once a process died.
MCFaultsOrCrash ==
  /\ (\A u \in Uploads : hook[u] # "event") => used.faults + used.crashes = 0
  /\ used.crashes = 0 => sweep = "idle"
  /\ used.crashes > 0 => used.faults <= 1 /\ used.limits = 0 /\ used.expiries = 0

\* Poll rows, tabs and events are interchangeable; used only where no liveness property is checked.
MCSymmetry == Permutations(PollSlots) \cup Permutations(Callers) \cup Permutations(Uploads)
===============================================================================
