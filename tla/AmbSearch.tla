----------------------------- MODULE AmbSearch -----------------------------
(***************************************************************************)
(* What amb means, without continuations: the values of an expression in   *)
(* the order of depth-first search, in an environment that is just a map.  *)
(* A closure is a procedure made here.                                     *)
(***************************************************************************)
EXTENDS Amb

RECURSIVE Results(_, _), Products(_, _), InTurn(_, _)

Flat(s, Op(_)) == FoldLeft(LAMBDA a, x : a \o Op(x), <<>>, s)

Base(p) == IF p.t = "closure" THEN p.v.env ELSE Visible(p.v.env, [frames EXCEPT ![1] = start])

Call(p, args) ==
    CASE p.t = "primitive" -> << Apply(p.v, args[1], args[2]) >>
      [] p.t \in {"procedure", "closure"} ->
            Results(p.v.body, Bind(p.v.params, args) @@ Base(p))

Products(exps, e) ==
    IF exps = <<>> THEN << <<>> >>
    ELSE Flat(Results(Head(exps), e),
              LAMBDA v : Flat(Products(Tail(exps), e), LAMBDA p : << <<v>> \o p >>))

InTurn(exps, e) ==
    IF Len(exps) = 1 THEN Results(Head(exps), e)
    ELSE Flat(Results(Head(exps), e), LAMBDA v : InTurn(Tail(exps), e))

Results(x, e) ==
    CASE x.op = "num" -> << Num(x.n) >>
      [] x.op = "var" -> << e[x.name] >>
      [] x.op = "lambda" -> << [Procedure(e, x.params, x.body) EXCEPT !.t = "closure"] >>
      [] x.op = "if" -> Flat(Results(x.test, e),
                             LAMBDA v : Results(IF IsTrue(v) THEN x.yes ELSE x.no, e))
      [] x.op = "begin" -> InTurn(x.exps, e)
      [] x.op = "define" -> Flat(Results(x.right, e), LAMBDA v : << Ok >>)
      [] x.op = "amb" -> Flat(x.choices, LAMBDA c : Results(c, e))
      [] x.op = "apply" -> Flat(Products(x.exps, e), LAMBDA p : Call(Head(p), Tail(p)))

Shown(v) == IF v.t \in {"procedure", "closure"} THEN "procedure" ELSE v

(* Whenever the user may type again: the values a problem prints are those  *)
(* depth-first search finds, in its order, from its first answer to "no    *)
(* more values", each once.  Failing leaves the global variables as they   *)
(* are: a define keeps what it last assigned.                              *)
AnswersInOrder ==
    (problem # None /\ mode = "prompt") =>
        LET rs == Results(problem, start)
            n == Len(printed)
            x == problem.name
        IN  /\ n <= Len(rs) /\ (ended => n = Len(rs))
            /\ \A i \in 1 .. n : Shown(printed[i]) = Shown(rs[i])
            /\ IF problem.op # "define" \/ n = 0 THEN frames[1] = start
               ELSE /\ \A y \in DOMAIN frames[1] \ {x} : frames[1][y] = start[y]
                    /\ Shown(frames[1][x]) = Shown(Results(problem.right, start)[n])
=============================================================================
