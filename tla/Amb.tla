-------------------------------- MODULE Amb --------------------------------
(***************************************************************************)
(* The evaluator of src/SICP/chapter4/amb-evaluator.scm and its driver     *)
(* loop.  Every procedure that analyze makes takes an environment, what to *)
(* do with its value (success) and what to do when a choice turns out      *)
(* wrong (fail).  Here success is a stack of frames saying what is left to *)
(* do, fail a stack of the choices left open, newest last.                 *)
(*                                                                         *)
(* Expressions, values and environments are those of Scheme.               *)
(***************************************************************************)
EXTENDS Scheme

CONSTANTS
    Problems,   \* what the user may type
    MaxInputs   \* bound on what the user types

VARIABLES
    mode,     \* "prompt", "eval", "return", "fail" or "error"
    exp,      \* the expression being evaluated
    env,      \* in this environment
    val,      \* or the value being returned
    success,  \* what is left to do, innermost last
    fail,     \* the open choices: [choices, env, success]
    frames,   \* the environments' frames; the first is global
    problem,  \* what the current problem is, or None
    start,    \* the global variables when it was typed
    printed,  \* the values printed for it
    ended,    \* there are no more values for it
    inputs    \* how many lines the user has typed

vars == <<mode, exp, env, val, success, fail, frames, problem, start, printed, ended, inputs>>
session == <<problem, start, printed, ended, inputs>>

-----------------------------------------------------------------------------
Primitives == {"+", "-", "<", "="}
Apply(name, a, b) ==
    CASE name = "+" -> Num(a.v + b.v)
      [] name = "-" -> Num(a.v - b.v)
      [] name = "<" -> Bool(a.v < b.v)
      [] name = "=" -> Bool(a.v = b.v)

Initial == Globals(Primitives)

Init ==
    /\ mode = "prompt" /\ exp = None /\ env = Global /\ val = Ok
    /\ success = <<>> /\ fail = <<>>
    /\ frames = <<Initial>>
    /\ problem = None /\ start = Initial /\ printed = <<>> /\ ended = FALSE /\ inputs = 0

Evaluate(e, in) == mode' = "eval" /\ exp' = e /\ env' = in /\ UNCHANGED val
Succeed(v) == mode' = "return" /\ val' = v /\ UNCHANGED <<exp, env>>
Error == mode' = "error" /\ UNCHANGED <<exp, env, val, success, fail, frames>>
Evaluating(op) == mode = "eval" /\ exp.op = op
Then(frame) == success' = Append(success, frame)

-----------------------------------------------------------------------------
(* driver-loop                                                             *)

NewProblem(e) ==
    /\ mode = "prompt" /\ inputs < MaxInputs
    /\ inputs' = inputs + 1
    /\ problem' = e /\ start' = frames[1] /\ printed' = <<>> /\ ended' = FALSE
    /\ Evaluate(e, Global) /\ success' = <<>> /\ fail' = <<>>
    /\ UNCHANGED frames

TryAgain ==
    /\ mode = "prompt" /\ inputs < MaxInputs
    /\ inputs' = inputs + 1
    /\ mode' = IF problem = None \/ ended THEN "prompt" ELSE "fail"
    /\ UNCHANGED <<exp, env, val, success, fail, frames, problem, start, printed, ended>>

Answer ==
    /\ mode = "return" /\ success = <<>>
    /\ mode' = "prompt" /\ printed' = Append(printed, val)
    /\ UNCHANGED <<exp, env, val, success, fail, frames, problem, start, ended, inputs>>

(* The next try-again finds no current problem.                            *)
NoMoreValues ==
    /\ mode = "fail" /\ fail = <<>>
    /\ mode' = "prompt" /\ ended' = TRUE
    /\ UNCHANGED <<exp, env, val, success, fail, frames, problem, start, printed, inputs>>

-----------------------------------------------------------------------------
(* The execution procedures.                                               *)

Constant ==
    /\ Evaluating("num") /\ Succeed(Num(exp.n))
    /\ UNCHANGED <<success, fail, frames, session>>

Variable ==
    /\ Evaluating("var")
    /\ LET f == FrameOf(exp.name, env, frames)
       IN  IF f = 0 THEN Error
           ELSE Succeed(frames[f][exp.name]) /\ UNCHANGED <<success, fail, frames>>
    /\ UNCHANGED session

Lambda ==
    /\ Evaluating("lambda") /\ Succeed(Procedure(env, exp.params, exp.body))
    /\ UNCHANGED <<success, fail, frames, session>>

If ==
    /\ Evaluating("if") /\ Evaluate(exp.test, env)
    /\ Then([op |-> "if", yes |-> exp.yes, no |-> exp.no, env |-> env])
    /\ UNCHANGED <<fail, frames, session>>

Begin ==
    /\ Evaluating("begin") /\ Evaluate(Head(exp.exps), env)
    /\ IF Len(exp.exps) = 1 THEN UNCHANGED success
       ELSE Then([op |-> "begin", exps |-> Tail(exp.exps), env |-> env])
    /\ UNCHANGED <<fail, frames, session>>

Define ==
    /\ Evaluating("define") /\ Evaluate(exp.right, env)
    /\ Then([op |-> "define", name |-> exp.name, env |-> env])
    /\ UNCHANGED <<fail, frames, session>>

Set ==
    /\ Evaluating("set!") /\ Evaluate(exp.right, env)
    /\ Then([op |-> "set!", name |-> exp.name, env |-> env])
    /\ UNCHANGED <<fail, frames, session>>

(* Operator first, then the operands from left to right.                   *)
Application ==
    /\ Evaluating("apply") /\ Evaluate(Head(exp.exps), env)
    /\ Then([op |-> "apply", done |-> <<>>, exps |-> Tail(exp.exps), env |-> env])
    /\ UNCHANGED <<fail, frames, session>>

(* try-next: the first choice, the others being open.                      *)
TryNext(choices, in, then, others) ==
    IF choices = <<>> THEN mode' = "fail" /\ fail' = others /\ UNCHANGED <<exp, env, val, success>>
    ELSE /\ Evaluate(Head(choices), in) /\ success' = then
         /\ fail' = Append(others, [choices |-> Tail(choices), env |-> in, success |-> then])

TryAmb ==
    /\ Evaluating("amb") /\ TryNext(exp.choices, env, success, fail)
    /\ UNCHANGED <<frames, session>>

OldestChoice == 1
NewestChoice == Len(fail)

Fail ==
    /\ mode = "fail" /\ fail # <<>>
    /\ LET k == NewestChoice
       IN  TryNext(fail[k].choices, fail[k].env, fail[k].success, RemoveAt(fail, k))
    /\ UNCHANGED <<frames, session>>

-----------------------------------------------------------------------------
(* What success does with a value.                                         *)
Frame == Last(success)
Returning(op) == mode = "return" /\ success # <<>> /\ Frame.op = op
Drop == success' = Front(success)

Chosen ==
    /\ Returning("if") /\ Drop
    /\ Evaluate(IF IsTrue(val) THEN Frame.yes ELSE Frame.no, Frame.env)
    /\ UNCHANGED <<fail, frames, session>>

Sequenced ==
    /\ Returning("begin") /\ Evaluate(Head(Frame.exps), Frame.env)
    /\ success' = IF Len(Frame.exps) = 1 THEN Front(success)
                  ELSE Append(Front(success), [Frame EXCEPT !.exps = Tail(@)])
    /\ UNCHANGED <<fail, frames, session>>

(* A definition is not undone.                                             *)
Defined ==
    /\ Returning("define") /\ Drop /\ Succeed(Ok)
    /\ frames' = WithBinding(frames, Frame.env, Frame.name, val)
    /\ UNCHANGED <<fail, session>>

(* lookup-variable, which should find the old value, is defined nowhere.   *)
Assigned ==
    /\ Returning("set!") /\ Error
    /\ UNCHANGED session

OperandsLeft ==
    /\ Returning("apply") /\ Frame.exps # <<>>
    /\ Evaluate(Head(Frame.exps), Frame.env)
    /\ success' = Append(Front(success), [Frame EXCEPT !.done = Append(@, val), !.exps = Tail(@)])
    /\ UNCHANGED <<fail, frames, session>>

Arguments == Tail(Append(Frame.done, val))
Operator == Head(Append(Frame.done, val))
Applying(t) == Returning("apply") /\ Frame.exps = <<>> /\ Operator.t = t

ApplyPrimitive ==
    /\ Applying("primitive")
    /\ IF Len(Arguments) = 2 /\ \A i \in 1 .. 2 : Arguments[i].t = "num"
       THEN /\ Drop /\ Succeed(Apply(Operator.v, Arguments[1], Arguments[2]))
            /\ UNCHANGED <<fail, frames>>
       ELSE Error
    /\ UNCHANGED session

(* extend-environment: a frame of its own for every call.                  *)
ApplyCompound ==
    /\ Applying("procedure")
    /\ LET p == Operator.v
       IN  IF Len(p.params) # Len(Arguments) THEN Error
           ELSE /\ Drop /\ Evaluate(p.body, <<Len(frames) + 1>> \o p.env)
                /\ frames' = Append(frames, Bind(p.params, Arguments))
                /\ UNCHANGED fail
    /\ UNCHANGED session

UnknownProcedure ==
    /\ Returning("apply") /\ Frame.exps = <<>> /\ Operator.t \notin {"primitive", "procedure"}
    /\ Error
    /\ UNCHANGED session

-----------------------------------------------------------------------------
Driver == (\E e \in Problems : NewProblem(e)) \/ TryAgain
Execute == \/ Constant \/ Variable \/ Lambda \/ If \/ Begin \/ Define \/ Set
           \/ Application \/ TryAmb \/ Fail
Continue == \/ Chosen \/ Sequenced \/ Defined \/ Assigned \/ OperandsLeft
            \/ ApplyPrimitive \/ ApplyCompound \/ UnknownProcedure

Next == Driver \/ Execute \/ Continue \/ Answer \/ NoMoreValues

Spec == Init /\ [][Next]_vars

=============================================================================
