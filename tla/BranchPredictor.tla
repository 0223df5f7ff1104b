--------------------------- MODULE BranchPredictor ---------------------------
(***************************************************************************)
(* The IBranchPredictor implementations.  A branch history table (bht_) is *)
(* a function of the PC; an absent entry and a 0 entry predict and update  *)
(* alike in both dynamic predictors, so absence is 0.                      *)
(***************************************************************************)
EXTENDS RvIsa

PredictorTypes == {"STATIC_TAKEN", "STATIC_NOT_TAKEN", "DYNAMIC_1BIT",
                   "DYNAMIC_2BIT"}

Bht      == [Word -> 0 .. 3]
EmptyBht == [a \in Word |-> 0]

\* The static predictors answer what static_predictors.h returns: false for
\* StaticTakenPredictor, true for StaticNotTakenPredictor.
getPrediction(type, bht, pc) ==
    CASE type = "STATIC_TAKEN"     -> FALSE
      [] type = "STATIC_NOT_TAKEN" -> TRUE
      [] type = "DYNAMIC_1BIT"     -> bht[pc] = 1
      [] type = "DYNAMIC_2BIT"     -> bht[pc] >= 2

\* Mutant of the next definition: the counter goes on at its ends.
CountsOn(state, taken) == IF taken THEN state + 1 ELSE state - 1

\* The next state of a 2-bit saturating counter.
Saturate(state, taken) ==
    IF taken THEN (IF state = 3 THEN 3 ELSE state + 1)
             ELSE (IF state = 0 THEN 0 ELSE state - 1)

updateState(type, bht, pc, taken) ==
    CASE type = "DYNAMIC_1BIT" -> [bht EXCEPT ![pc] = IF taken THEN 1 ELSE 0]
      [] type = "DYNAMIC_2BIT" -> [bht EXCEPT ![pc] = Saturate(bht[pc], taken)]
      [] OTHER                 -> bht
==============================================================================
