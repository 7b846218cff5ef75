SPECIFICATION Spec
CONSTANTS
    Problems <- AmbProblems
    MaxInputs = 6
    Expressions <- LazyExpressions
    Inputs <- LazyInput
    MaxUses = 3
CHECK_DEADLOCK FALSE
INVARIANTS AnswersInOrder SameAnswer EvaluatedOnce AsInExercises
