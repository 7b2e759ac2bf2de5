------------------------------ MODULE VersionLog ------------------------------
(***************************************************************************)
(* What a versioned document promises, however many writers it has: its    *)
(* history only grows, by one version at a time; whoever writes a version  *)
(* knew how many there were; the document shows what was written last; and *)
(* all of it goes at once.                                                 *)
(***************************************************************************)
EXTENDS Naturals, Sequences

CONSTANT Empty  \* what a document shows that has no version

VARIABLES history,  \* every version, as [body, saw]: saw is how many there were for its writer
          shown,    \* what a reader of the document sees
          alive

logVars == <<history, shown, alive>>

Init == history = <<>> /\ shown = Empty /\ alive \in BOOLEAN

\* Any text may be written.
Write ==
  /\ alive
  /\ history' = Append(history, [body |-> shown', saw |-> Len(history)])
  /\ UNCHANGED alive

Erase ==
  /\ alive
  /\ history' = <<>> /\ shown' = Empty /\ alive' = FALSE

Next == Write \/ Erase

Spec == Init /\ [][Next]_logVars
===============================================================================
