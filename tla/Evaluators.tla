----------------------------- MODULE Evaluators -----------------------------
(***************************************************************************)
(* The evaluators of src/SICP/chapter4, one of which runs: Amb or one of   *)
(* the two of Lazy.  They share the registers and the frames.              *)
(***************************************************************************)
CONSTANTS
    Problems, MaxInputs,          \* amb
    Expressions, Inputs(_, _)     \* lazy

VARIABLES program, mode, exp, env, val, frames
VARIABLES success, fail, problem, start, printed, ended, inputs
VARIABLES stack, thunks, leftmost, typed, answers, before, assigned, started, reentered

Amb == INSTANCE Amb
Lazy == INSTANCE Lazy

ASSUME LazyGrammar == Lazy!Grammar

registers == <<mode, exp, env, val, frames>>
ambVars == <<success, fail, problem, start, printed, ended, inputs>>
lazyVars == <<stack, thunks, leftmost, typed, answers, before, assigned, started, reentered>>
vars == <<program, registers, ambVars, lazyVars>>

AmbOff == /\ success = <<>> /\ fail = <<>> /\ problem = Amb!None /\ start = <<>>
          /\ printed = <<>> /\ ended = FALSE /\ inputs = 0
LazyOff == /\ stack = <<>> /\ thunks = <<>> /\ leftmost = TRUE /\ typed = <<>>
           /\ answers = <<>> /\ before = <<>> /\ assigned = FALSE
           /\ started = <<>> /\ reentered = {}

Init == \/ program = "amb-evaluator" /\ Amb!Init /\ LazyOff
        \/ Lazy!Init /\ AmbOff

Next == \/ /\ program = "amb-evaluator" /\ Amb!Next
           /\ UNCHANGED <<program, lazyVars>>
        \/ /\ program # "amb-evaluator" /\ Lazy!Next
           /\ UNCHANGED ambVars

Spec == Init /\ [][Next]_vars

-----------------------------------------------------------------------------
(* Memoizing evaluates an argument once (lazy-evaluator.scm).              *)
EvaluatedOnce == Lazy!EvaluatedOnce
=============================================================================
