---------------------------- MODULE MCEvaluators ----------------------------
(* The problems and sessions of AmbInputs and LazyInputs, and what is to   *)
(* be answered.                                                            *)
EXTENDS Evaluators, AmbInputs, LazyInputs

Search == INSTANCE AmbSearch
Substituted == INSTANCE Substitution

(* amb prints what depth-first search finds (amb-evaluator.scm).           *)
AnswersInOrder == Search!AnswersInOrder

(* Delaying does not change an answer (partially-lazy-evaluator.scm).      *)
SameAnswer == Substituted!SameAnswer

(* The sessions of exercises 4.27 to 4.31 are answered as the exercises    *)
(* say, whichever operand the underlying Scheme evaluates first.           *)
AsInExercises ==
    \A e \in Exercises : program = e.program /\ IsPrefix(typed, e.inputs) =>
        mode # "error" /\ IsPrefix(answers, e.answers)
=============================================================================
