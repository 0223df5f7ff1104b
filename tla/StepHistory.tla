----------------------------- MODULE StepHistory -----------------------------
(***************************************************************************)
(* What undo and redo promise, whatever is executed and however it is      *)
(* stored: a machine that keeps a copy of its whole state for every step.  *)
(***************************************************************************)
EXTENDS Sequences, Naturals

VARIABLES
    past,     \* the states before the steps that can be undone, oldest first
    present,
    future    \* the states after the steps that can be redone, the next last

vars == <<past, present, future>>

\* A step: the present can be returned to, the future cannot.
Do ==
    /\ past' = Append(past, present)
    /\ future' = << >>

Undo ==
    /\ past # << >>
    /\ present' = past[Len(past)]
    /\ past' = SubSeq(past, 1, Len(past) - 1)
    /\ future' = Append(future, present)

Redo ==
    /\ future # << >>
    /\ present' = future[Len(future)]
    /\ future' = SubSeq(future, 1, Len(future) - 1)
    /\ past' = Append(past, present)

\* A machine with nothing to undo or redo is set up anew.
Start ==
    /\ past' = << >>
    /\ future' = << >>

Next == Do \/ Undo \/ Redo \/ Start
==============================================================================
