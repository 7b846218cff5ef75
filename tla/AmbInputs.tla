----------------------------- MODULE AmbInputs -----------------------------
(* Problems for Amb; the comments show them as they are typed.             *)
EXTENDS Scheme

A(choices) == [op |-> "amb", choices |-> choices]
OneTwo == A(<< N(1), N(2) >>)

AmbProblems == {
    \* (+ (amb 1 2) (amb 10 20)) and a nested amb with a choice that fails
    C(<< V("+"), OneTwo, A(<< N(10), N(20) >>) >>),
    A(<< OneTwo, A(<<>>), N(3) >>),
    \* (begin (amb 1 2) (amb 3 4) 5) and ((amb + -) 5 (amb 1 2))
    B(<< OneTwo, A(<< N(3), N(4) >>), N(5) >>),
    C(<< A(<< V("+"), V("-") >>), N(5), OneTwo >>),
    \* ((lambda (a b) (if (= a b) a (amb))) (amb 1 2) (amb 2 1)), a let
    C(<< L(<<"a", "b">>, IfElse(C(<< V("="), V("a"), V("b") >>), V("a"), A(<<>>))),
         OneTwo, A(<< N(2), N(1) >>) >>),
    \* (define x (amb 1 2)), (define f (lambda (n) (if (< n 1) n (amb n (f (- n 1))))))
    D("x", OneTwo),
    D("f", L(<<"n">>, IfElse(C(<< V("<"), V("n"), N(1) >>), V("n"),
                             A(<< V("n"), C(<< V("f"), C(<< V("-"), V("n"), N(1) >>) >>) >>)))),
    \* (f x), (define x ((lambda (y) (lambda (z) (+ y z))) (amb 1 2))), (x 3)
    C(<< V("f"), V("x") >>),
    D("x", C(<< L(<<"y">>, L(<<"z">>, C(<< V("+"), V("y"), V("z") >>))), OneTwo >>)),
    C(<< V("x"), N(3) >>),
    \* (set! x 1), (x): too few arguments, or not a procedure
    S("x", N(1)),
    C(<< V("x") >>) }
=============================================================================
