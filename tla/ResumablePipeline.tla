------------------------- MODULE ResumablePipeline -------------------------
(***************************************************************************)
(* What the checkpoint file of `cgdevxcli setup` promises, with no cloud,  *)
(* no cluster and no files: N stages are carried out in order, the number  *)
(* of recorded stages only ever covers stages whose effect is in place, a  *)
(* run stops anywhere and resumes after the last recorded stage, and only  *)
(* the user moves the record back, which undoes no effect.                 *)
(***************************************************************************)
EXTENDS Naturals

CONSTANTS
    N,                       \* the number of stages, a natural number
    Early                    \* stages whose effect may come before their turn

VARIABLES
    recorded,                \* stages 1..recorded have a checkpoint
    done                     \* the stages whose effect is in place

vars == <<recorded, done>>

TypeOK ==
    /\ recorded \in 0..N
    /\ done \subseteq 1..N

Init ==
    /\ recorded = 0
    /\ done = {}

\* The effect of a stage comes into being: but for the early ones, never
\* beyond the first stage that is not recorded yet. Recorded stages may be
\* carried out again.
Perform(k) ==
    /\ k <= recorded + 1 \/ k \in Early
    /\ done' = done \cup {k}
    /\ UNCHANGED recorded

\* The next stage is recorded. A stage whose whole effect is a value in the
\* state file takes effect in this very step.
Record ==
    /\ recorded < N
    /\ recorded' = recorded + 1
    /\ done' = done \cup {recorded + 1}

\* `--from-checkpoint`: the record shrinks, the effects stay.
Rewind ==
    /\ \E k \in 0..N : k < recorded /\ recorded' = k
    /\ UNCHANGED done

Next ==
    \/ \E k \in 1..N : Perform(k)
    \/ Record
    \/ Rewind

Spec == Init /\ [][Next]_vars

-----------------------------------------------------------------------------
\* Whatever is recorded has been done: what a resumed run relies on when it
\* skips a stage.
RecordedIsDone == 1..recorded \subseteq done
=============================================================================
