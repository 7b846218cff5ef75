----------------------------- MODULE LazyInputs -----------------------------
(* Sessions for Lazy: those of the exercises, and others with parameters   *)
(* of every kind.                                                          *)
EXTENDS Scheme

CONSTANT MaxUses   \* inputs after the definitions of a free session

Quote(items) == [op |-> "quote", items |-> items]
Kinds == {"strict", "lazy", "lazy-memo"}

\* (define count 0), (define (id (x k)) (set! count (+ count 1)) x)
CountZero == D("count", N(0))
Count == C(<< V("+"), V("count"), N(1) >>)
Id(k) == D("id", L(<< <<"x", k>> >>, B(<< S("count", Count), V("x") >>)))
\* (define (square (x k)) (* x x))
Square(k) == D("square", L(<< <<"x", k>> >>, C(<< V("*"), V("x"), V("x") >>)))
\* (define (pick (a k) (b l)) (if (= a 0) b a))
Pick(k, l) == D("pick", L(<< <<"a", k>>, <<"b", l>> >>,
                          IfElse(C(<< V("="), V("a"), N(0) >>), V("b"), V("a"))))
\* (define s 0), (define (keep (t k)) (set! s t) (+ t t))
Keep(k) == D("keep", L(<< <<"t", k>> >>,
                       B(<< S("s", V("t")), C(<< V("+"), V("t"), V("t") >>) >>)))
IdOf(x) == C(<< V("id"), x >>)

(* The sessions of 4.27, 4.28, 4.29 with and without memoization, 4.30 b   *)
(* and 4.31: the evaluator, the inputs, and the answers written there.     *)
M == "lazy-memo"
Lazily(inputs, out) == [program |-> "lazy-evaluator", inputs |-> inputs, answers |-> out]
Partly(inputs, out) == [program |-> "partially-lazy-evaluator", inputs |-> inputs, answers |-> out]
Exercises == {
    Lazily(<<CountZero, Id(M), D("w", IdOf(IdOf(N(10)))), V("count"), V("w"), V("count")>>,
           <<Ok, Ok, Ok, Num(1), Num(10), Num(2)>>),
    Lazily(<<D("f", L(<< <<"x", M>> >>, V("x"))), D("v", C(<< V("f"), V("f") >>)),
             C(<< V("v"), N(5) >>)>>,
           <<Ok, Ok, Num(5)>>),
    Lazily(<<CountZero, Id(M), Square(M), C(<< V("square"), IdOf(N(10)) >>), V("count")>>,
           <<Ok, Ok, Ok, Num(100), Num(1)>>),
    Partly(<<CountZero, Id("lazy"), Square("lazy"), C(<< V("square"), IdOf(N(10)) >>), V("count")>>,
           <<Ok, Ok, Ok, Num(100), Num(2)>>),
    Lazily(<<D("p2", L(<< <<"x", M>> >>, B(<<
                D("p", L(<< <<"e", M>> >>, B(<< V("e"), V("x") >>))),
                C(<< V("p"), S("x", C(<< V("cons"), V("x"), Quote(<<2>>) >>)) >>) >>))),
             C(<< V("p2"), N(1) >>)>>,
           <<Ok, Num(1)>>),
    Partly(<<D("f", L(<< <<"a", "strict">>, <<"b", "lazy">>, <<"c", "strict">>, <<"d", M>> >>,
                      IfElse(C(<< V("="), V("a"), N(0) >>), V("b"),
                             C(<< V("+"), V("c"), C(<< V("+"), V("d"), V("d") >>) >>)))),
             D("acount", N(0)), D("a", N(1)), D("c", N(10)),
             C(<< V("f"), V("a"), C(<< V("/"), N(1), N(0) >>), V("c"),
                  B(<< S("acount", C(<< V("+"), N(1), V("acount") >>)), N(2) >>) >>),
             V("acount")>>,
           <<Ok, Ok, Ok, Ok, Num(14), Num(1)>>) }

KindsOf(prog) == IF prog = "lazy-evaluator" THEN {M} ELSE Kinds
Definitions(prog) ==
    { <<CountZero, D("s", N(0)), Id(k), Pick(k, l), Keep(l)>> : k, l \in KindsOf(prog) }

Uses == {
    \* (pick (id 0) (id count)), (pick count (/ 1 0))
    C(<< V("pick"), IdOf(N(0)), IdOf(V("count")) >>),
    C(<< V("pick"), V("count"), C(<< V("/"), N(1), N(0) >>) >>),
    \* (define s (id (id 7))), (pick s s)
    D("s", IdOf(IdOf(N(7)))),
    C(<< V("pick"), V("s"), V("s") >>),
    \* (keep (if (= count 0) (begin (set! count 1) (+ s 1)) 5))
    C(<< V("keep"), IfElse(C(<< V("="), V("count"), N(0) >>),
                           B(<< S("count", N(1)), C(<< V("+"), V("s"), N(1) >>) >>), N(5)) >>),
    \* (pick (car '(0 1)) (car (cdr '(2 3))))
    C(<< V("pick"), C(<< V("car"), Quote(<<0, 1>>) >>),
         C(<< V("car"), C(<< V("cdr"), Quote(<<2, 3>>) >>) >>) >>),
    \* ((lambda ((t k)) (if t 1 2)) (= 0 1)), ((lambda ((a k)) (pick (- a 4) a)) 4)
    C(<< L(<< <<"t", M>> >>, IfElse(V("t"), N(1), N(2))), C(<< V("="), N(0), N(1) >>) >>),
    C(<< L(<< <<"a", M>> >>, C(<< V("pick"), C(<< V("-"), V("a"), N(4) >>), V("a") >>)),
         N(4) >>),
    \* (cons 0 s), (cons 0 '(1))
    C(<< V("cons"), N(0), V("s") >>), C(<< V("cons"), N(0), Quote(<<1>>) >>),
    \* (2 3)
    C(<< N(2), N(3) >>) }

Sessions(prog) == Definitions(prog) \cup {e.inputs : e \in {x \in Exercises : x.program = prog}}

LazyInput(prog, so_far) ==
    LET n == Len(so_far)
    IN  {s[n + 1] : s \in {x \in Sessions(prog) : Len(x) > n /\ IsPrefix(so_far, x)}}
        \cup IF n \in 5 .. 4 + MaxUses /\ SubSeq(so_far, 1, 5) \in Definitions(prog)
             THEN Uses ELSE {}

RECURSIVE WithParts(_)
WithParts(x) ==
    {x} \cup UNION {WithParts(y) : y \in
        CASE x.op = "if" -> {x.test, x.yes, x.no}
          [] x.op \in {"define", "set!"} -> {x.right}
          [] x.op \in {"begin", "apply"} -> Range(x.exps)
          [] x.op = "lambda" -> {x.body}
          [] x.op = "quote" -> {N(n) : n \in Range(x.items)}
          [] OTHER -> {}}

LazyExpressions ==
    LET typed == Uses \cup UNION {Range(s) : s \in
                    Sessions("lazy-evaluator") \cup Sessions("partially-lazy-evaluator")}
    IN  UNION {WithParts(x) : x \in typed}
=============================================================================
