---------------------------- MODULE Substitution ----------------------------
(***************************************************************************)
(* What the lazy evaluators compute, without thunks: the value by          *)
(* substitution.  Every argument is evaluated where, and each time, it is  *)
(* needed, in the memory that the input found.                             *)
(***************************************************************************)
EXTENDS Lazy

RECURSIVE Value(_, _), Needed(_), InTurn(_, _)

AllVars(e) == Visible(e, before.frames)

Needed(v) ==
    CASE v.t = "thunk" -> LET k == before.thunks[v.v[1]][v.v[2]]
                          IN  IF k.state = "evaluated" THEN k.val
                              ELSE Needed(Value(k.exp, AllVars(k.env)))
      [] v.t = "promise" -> Needed(Value(v.v.exp, v.v.env))
      [] OTHER -> v

Promise(e, m) == [t |-> "promise", v |-> [exp |-> e, env |-> m]]
Closure(ps, b, m) == [t |-> "closure", v |-> [params |-> ps, body |-> b, env |-> m]]

InTurn(exps, m) ==
    IF Len(exps) = 1 THEN Value(Head(exps), m)
    ELSE IF Head(exps).op = "define"
         THEN InTurn(Tail(exps), (Head(exps).name :> Value(Head(exps).right, m)) @@ m)
         ELSE InTurn(Tail(exps), m)

Value(x, m) ==
    CASE x.op = "num" -> Num(x.n)
      [] x.op = "var" -> m[x.name]
      [] x.op = "lambda" -> Closure(x.params, x.body, m)
      [] x.op = "quote" -> ListOf([i \in DOMAIN x.items |-> Num(x.items[i])])
      [] x.op = "if" -> Value(IF IsTrue(Needed(Value(x.test, m))) THEN x.yes ELSE x.no, m)
      [] x.op = "begin" -> InTurn(x.exps, m)
      [] x.op = "define" -> Ok
      [] x.op = "apply" ->
            LET p == Needed(Value(Head(x.exps), m))
                args == [i \in 1 .. Len(x.exps) - 1 |-> Promise(x.exps[i + 1], m)]
                names == [i \in DOMAIN args |-> NameOf(p.v.params[i])]
            IN  CASE p.t = "primitive" ->
                        Apply(p.v, [i \in DOMAIN args |-> Needed(args[i])])
                  [] p.t = "closure" -> Value(p.v.body, Bind(names, args) @@ p.v.env)
                  [] p.t = "procedure" -> Value(p.v.body, Bind(names, args) @@ AllVars(p.v.env))

Shown(v) == IF v.t \in {"procedure", "closure", "pair"} THEN v.t # "pair" ELSE v

(* Whatever is delayed, memoized or evaluated at once, and in which order: *)
(* an input that executes no set! is answered with its value by            *)
(* substitution.                                                           *)
SameAnswer ==
    mode = "prompt" /\ typed # <<>> /\ ~assigned =>
        Shown(Last(answers)) = Shown(Needed(Value(Last(typed), AllVars(Global))))
=============================================================================
