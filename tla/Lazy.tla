-------------------------------- MODULE Lazy --------------------------------
(***************************************************************************)
(* The evaluators of src/SICP/chapter4/partially-lazy-evaluator.scm, where *)
(* a parameter may be declared lazy or lazy-memo, and lazy-evaluator.scm,  *)
(* where each is lazy-memo.  The argument of such a parameter is delayed   *)
(* as a thunk, forced when its value is needed; forcing a lazy-memo thunk  *)
(* overwrites it with the value.  A stack of what is left to do stands for *)
(* the recursion of eval and apply.  The underlying Scheme may evaluate    *)
(* the operands of cons, and so the arguments that are not delayed, from   *)
(* either end.                                                             *)
(***************************************************************************)
EXTENDS Scheme

CONSTANTS
    Expressions,    \* what can be typed, and its parts
    Inputs(_, _)    \* program, inputs so far -> what is typed next

VARIABLES
    program,  \* "lazy-evaluator" or "partially-lazy-evaluator"
    mode,     \* "prompt", "eval", "return", "apply" or "error"
    exp,      \* the expression being evaluated
    env,      \* in this environment
    val,      \* or the value being returned
    stack,    \* what is left to do, innermost last
    frames,   \* the environments' frames
    thunks,   \* what was delayed: for each call its thunks, [state, exp, env, val]
    leftmost, \* the underlying Scheme evaluates the first operand first
    typed,    \* the inputs so far
    answers,  \* what was printed for them
    before,   \* frames and thunks when the last one was typed
    assigned, \* set! has been executed since
    started,  \* thunk -> how many evaluations of it have begun
    reentered \* thunks that were forced while they were being evaluated

vars == <<program, mode, exp, env, val, stack, frames, thunks, leftmost, typed, answers, before,
          assigned, started, reentered>>
session == <<program, leftmost, typed, answers, before>>
history == <<assigned, started, reentered>>
memory == <<frames, thunks, history>>

Kinds == {"strict", "lazy", "lazy-memo"}

(* A parameter is <<name, kind>>; what is quoted is a list of numbers.     *)
Grammar ==
    \A x \in Expressions :
        /\ x.op = "if" => {x.test, x.yes, x.no} \subseteq Expressions
        /\ x.op \in {"define", "set!"} => x.right \in Expressions
        /\ x.op \in {"begin", "apply"} => x.exps \in Seq(Expressions) \ {<<>>}
        /\ x.op = "quote" => /\ x.items \in Seq(Int)
                            /\ \A i \in DOMAIN x.items : N(x.items[i]) \in Expressions
        /\ x.op = "lambda" => /\ x.params \in Seq(Range(x.params)) /\ x.body \in Expressions
                             /\ \A i \in DOMAIN x.params : x.params[i][2] \in Kinds

-----------------------------------------------------------------------------
Primitives == {"+", "-", "*", "/", "=", "cons", "car", "cdr"}
Unset == [t |-> "unset", v |-> 0]
Nil == [t |-> "nil", v |-> 0]

(* A chain of pairs is the sequence of its elements, followed by its end.  *)
Pair(a, b) == [t |-> "pair", v |-> <<a>> \o (IF b.t = "pair" THEN b.v ELSE <<b>>)]
Rest(p) == IF Len(p.v) = 2 THEN p.v[2] ELSE [t |-> "pair", v |-> Tail(p.v)]
ListOf(items) == IF items = <<>> THEN Nil ELSE [t |-> "pair", v |-> Append(items, Nil)]

(* Only exact quotients are asked for.                                     *)
Accepts(name, args) ==
    CASE name = "cons" -> Len(args) = 2
      [] name \in {"car", "cdr"} -> Len(args) = 1 /\ args[1].t = "pair"
      [] OTHER -> /\ Len(args) = 2 /\ \A i \in 1 .. 2 : args[i].t = "num"
                  /\ name = "/" => args[2].v # 0
Apply(name, args) ==
    CASE name = "+" -> Num(args[1].v + args[2].v)
      [] name = "-" -> Num(args[1].v - args[2].v)
      [] name = "*" -> Num(args[1].v * args[2].v)
      [] name = "/" -> Num(args[1].v \div args[2].v)
      [] name = "=" -> Bool(args[1].v = args[2].v)
      [] name = "cons" -> Pair(args[1], args[2])
      [] name = "car" -> Head(args[1].v)
      [] name = "cdr" -> Rest(args[1])

Init ==
    /\ program \in {"lazy-evaluator", "partially-lazy-evaluator"}
    /\ mode = "prompt" /\ exp = None /\ env = Global /\ val = Ok /\ stack = <<>>
    /\ frames = <<Globals(Primitives)>>
    /\ thunks = <<>> /\ leftmost \in BOOLEAN
    /\ typed = <<>> /\ answers = <<>> /\ before = [frames |-> frames, thunks |-> thunks]
    /\ assigned = FALSE /\ started = <<>> /\ reentered = {}

Force == [op |-> "force"]
Evaluate(e, in) == mode' = "eval" /\ exp' = e /\ env' = in /\ UNCHANGED val
Give(v) == mode' = "return" /\ val' = v /\ UNCHANGED <<exp, env>>
Error == mode' = "error" /\ UNCHANGED <<exp, env, val, stack, memory>>
Evaluating(op) == mode = "eval" /\ exp.op = op
Then(todo) == stack' = stack \o todo

(* delay-it and its memoizing twin.                                        *)
Delay(new) == /\ thunks' = Append(thunks, new)
              /\ started' = Append(started, [i \in DOMAIN new |-> 0])
NewThunk(i) == [t |-> "thunk", v |-> <<Len(thunks) + 1, i>>]
Delayed(kind, e, in) == [state |-> kind, exp |-> e, env |-> in, val |-> Unset]

-----------------------------------------------------------------------------
(* driver-loop: what is typed is evaluated and its value forced.           *)

Read(e) ==
    /\ typed' = Append(typed, e) /\ before' = [frames |-> frames, thunks |-> thunks]
    /\ assigned' = FALSE
    /\ Evaluate(e, Global) /\ stack' = <<Force>>
    /\ UNCHANGED <<program, frames, thunks, leftmost, answers, started, reentered>>

(* lazy-evaluator.scm prints a pair by walking down it, and fails at its   *)
(* end if that is neither the empty list nor a procedure (itself a list).  *)
Prints(v) == program = "lazy-evaluator" /\ v.t = "pair" =>
                Last(v.v).t \in {"nil", "procedure", "primitive"}

Answer ==
    /\ mode = "return" /\ stack = <<>>
    /\ IF Prints(val)
       THEN /\ mode' = "prompt" /\ answers' = Append(answers, val)
            /\ UNCHANGED <<exp, env, val, stack, memory>>
       ELSE Error /\ UNCHANGED answers
    /\ UNCHANGED <<program, leftmost, typed, before>>

-----------------------------------------------------------------------------
(* eval                                                                    *)

Constant ==
    /\ Evaluating("num") /\ Give(Num(exp.n))
    /\ UNCHANGED <<stack, memory, session>>

(* A variable's value may be a thunk, which is not forced here.            *)
Variable ==
    /\ Evaluating("var")
    /\ LET f == FrameOf(exp.name, env, frames)
       IN  IF f = 0 THEN Error
           ELSE Give(frames[f][exp.name]) /\ UNCHANGED <<stack, memory>>
    /\ UNCHANGED session

Lambda ==
    /\ Evaluating("lambda") /\ Give(Procedure(env, exp.params, exp.body))
    /\ UNCHANGED <<stack, memory, session>>

(* list-of-quotation (lazy-evaluator.scm): a thunk for each element.       *)
Quotation ==
    /\ Evaluating("quote")
    /\ IF program = "lazy-evaluator"
       THEN /\ Give(ListOf([i \in DOMAIN exp.items |-> NewThunk(i)]))
            /\ Delay([i \in DOMAIN exp.items |-> Delayed("lazy-memo", N(exp.items[i]), env)])
       ELSE /\ Give(ListOf([i \in DOMAIN exp.items |-> Num(exp.items[i])]))
            /\ UNCHANGED <<thunks, started>>
    /\ UNCHANGED <<stack, frames, assigned, reentered, session>>

IfUnforced ==
    /\ Evaluating("if") /\ Evaluate(exp.test, env)
    /\ Then(<< [op |-> "if", yes |-> exp.yes, no |-> exp.no, env |-> env] >>)
    /\ UNCHANGED <<memory, session>>

If ==
    /\ Evaluating("if") /\ Evaluate(exp.test, env)
    /\ Then(<< [op |-> "if", yes |-> exp.yes, no |-> exp.no, env |-> env], Force >>)
    /\ UNCHANGED <<memory, session>>

(* eval-sequence forces none of its expressions.                           *)
Begin ==
    /\ Evaluating("begin") /\ Evaluate(Head(exp.exps), env)
    /\ IF Len(exp.exps) = 1 THEN UNCHANGED stack
       ELSE Then(<< [op |-> "begin", exps |-> Tail(exp.exps), env |-> env] >>)
    /\ UNCHANGED <<memory, session>>

DefineOrSet ==
    /\ Evaluating("define") \/ Evaluating("set!")
    /\ Evaluate(exp.right, env)
    /\ Then(<< [op |-> exp.op, name |-> exp.name, env |-> env] >>)
    /\ UNCHANGED <<memory, session>>

Application ==
    /\ Evaluating("apply") /\ Evaluate(Head(exp.exps), env)
    /\ Then(<< [op |-> "operator", exps |-> Tail(exp.exps), env |-> env], Force >>)
    /\ UNCHANGED <<memory, session>>

-----------------------------------------------------------------------------
(* What becomes of a value.                                                *)
Top == Last(stack)
Returning(op) == mode = "return" /\ stack # <<>> /\ Top.op = op
Drop == stack' = Front(stack)

(* force-it                                                                *)
Thunk(k) == thunks[k[1]][k[2]]

Forced ==
    /\ Returning("force") /\ Drop
    /\ \/ val.t # "thunk" /\ Give(val)
       \/ /\ val.t = "thunk" /\ Thunk(val.v).state = "evaluated"
          /\ Give(Thunk(val.v).val)
    /\ UNCHANGED <<memory, session>>

UnderWay == {stack[i].thunk : i \in {j \in DOMAIN stack : stack[j].op = "memo"}}

ForceThunk ==
    /\ Returning("force") /\ val.t = "thunk" /\ Thunk(val.v).state # "evaluated"
    /\ LET k == val.v
       IN  /\ Evaluate(Thunk(k).exp, Thunk(k).env)
           /\ stack' = IF Thunk(k).state = "lazy" THEN stack
                       ELSE Front(stack) \o << [op |-> "memo", thunk |-> k], Force >>
           /\ started' = [started EXCEPT ![k[1]][k[2]] = @ + 1]
           /\ reentered' = IF k \in UnderWay THEN reentered \cup {k} ELSE reentered
    /\ UNCHANGED <<frames, thunks, assigned, session>>

KeepThunk(k) == thunks
Evaluated(k) == [thunks EXCEPT ![k[1]][k[2]] =
                    [state |-> "evaluated", exp |-> None, env |-> <<>>, val |-> val]]

Memoize ==
    /\ Returning("memo") /\ Drop /\ Give(val)
    /\ thunks' = Evaluated(Top.thunk)
    /\ UNCHANGED <<frames, history, session>>

Chosen ==
    /\ Returning("if") /\ Drop
    /\ Evaluate(IF IsTrue(val) THEN Top.yes ELSE Top.no, Top.env)
    /\ UNCHANGED <<memory, session>>

Sequenced ==
    /\ Returning("begin") /\ Evaluate(Head(Top.exps), Top.env)
    /\ stack' = IF Len(Top.exps) = 1 THEN Front(stack)
                ELSE Append(Front(stack), [Top EXCEPT !.exps = Tail(@)])
    /\ UNCHANGED <<memory, session>>

Defined ==
    /\ Returning("define") /\ Drop /\ Give(Ok)
    /\ frames' = WithBinding(frames, Top.env, Top.name, val)
    /\ UNCHANGED <<thunks, history, session>>

Assigned ==
    /\ Returning("set!")
    /\ LET f == FrameOf(Top.name, Top.env, frames)
       IN  IF f = 0 THEN Error
           ELSE /\ Drop /\ Give(Ok)
                /\ frames' = [frames EXCEPT ![f][Top.name] = val]
                /\ assigned' = TRUE
                /\ UNCHANGED <<thunks, started, reentered>>
    /\ UNCHANGED session

-----------------------------------------------------------------------------
(* apply                                                                   *)
NameOf(param) == param[1]
AlwaysStrict(p, i) == "strict"
KindOf(p, i) == IF p.t = "procedure" THEN p.v.params[i][2] ELSE "strict"

(* list-of-procedure-args and list-of-arg-values: what is delayed becomes  *)
(* a thunk, the rest is still to be evaluated.                             *)
Arguments ==
    /\ Returning("operator")
    /\ LET exps == Top.exps
           delayed == {i \in DOMAIN exps : KindOf(val, i) # "strict"}
       IN  IF \/ val.t \notin {"procedure", "primitive"}
              \/ val.t = "procedure" /\ Len(val.v.params) # Len(exps)
           THEN Error
           ELSE /\ Delay([i \in delayed |-> Delayed(KindOf(val, i), exps[i], Top.env)])
                /\ mode' = "apply"
                /\ stack' = Append(Front(stack),
                      [op |-> "operands", proc |-> val, exps |-> exps, env |-> Top.env,
                       todo |-> DOMAIN exps \ delayed, at |-> 0,
                       args |-> [i \in DOMAIN exps |->
                                   IF i \in delayed THEN NewThunk(i) ELSE Unset]])
                /\ UNCHANGED <<exp, env, val, frames, assigned, reentered>>
    /\ UNCHANGED session

Operand ==
    /\ mode = "apply"
    /\ \E i \in Top.todo :
          /\ \A j \in Top.todo : IF leftmost THEN i <= j ELSE j <= i
          /\ Evaluate(Top.exps[i], Top.env)
          /\ stack' = Front(stack) \o << [Top EXCEPT !.todo = @ \ {i}, !.at = i], Force >>
    /\ UNCHANGED <<memory, session>>

OperandDone ==
    /\ Returning("operands") /\ mode' = "apply"
    /\ stack' = Append(Front(stack), [Top EXCEPT !.args[Top.at] = val])
    /\ UNCHANGED <<exp, env, val, memory, session>>

Applying(t) == mode = "apply" /\ Top.todo = {} /\ Top.proc.t = t

ApplyPrimitive ==
    /\ Applying("primitive")
    /\ IF Accepts(Top.proc.v, Top.args)
       THEN Drop /\ Give(Apply(Top.proc.v, Top.args)) /\ UNCHANGED memory
       ELSE Error
    /\ UNCHANGED session

ApplyCompound ==
    /\ Applying("procedure") /\ Drop
    /\ LET p == Top.proc.v
           names == [i \in DOMAIN p.params |-> NameOf(p.params[i])]
       IN  /\ Evaluate(p.body, <<Len(frames) + 1>> \o p.env)
           /\ frames' = Append(frames, Bind(names, Top.args))
    /\ UNCHANGED <<thunks, history, session>>

-----------------------------------------------------------------------------
Driver == \/ mode = "prompt" /\ \E e \in Inputs(program, typed) \cap Expressions : Read(e)
          \/ Answer
Eval == \/ Constant \/ Variable \/ Lambda \/ Quotation \/ If \/ Begin \/ DefineOrSet
        \/ Application
Continue == \/ Forced \/ ForceThunk \/ Memoize \/ Chosen \/ Sequenced \/ Defined
            \/ Assigned \/ Arguments \/ Operand \/ OperandDone
            \/ ApplyPrimitive \/ ApplyCompound

Next == Driver \/ Eval \/ Continue

Spec == Init /\ [][Next]_vars

-----------------------------------------------------------------------------
(* A lazy-memo argument is evaluated only once, unless it is forced again  *)
(* by its own evaluation, and when an input has been answered each one is  *)
(* either untouched or has its value.                                      *)
EvaluatedOnce ==
    \A n \in DOMAIN thunks : \A i \in DOMAIN thunks[n] : thunks[n][i].state # "lazy" =>
        /\ started[n][i] > 1 => <<n, i>> \in reentered
        /\ mode = "prompt" => (started[n][i] > 0 <=> thunks[n][i].state = "evaluated")
=============================================================================
