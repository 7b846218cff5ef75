------------------------------- MODULE Scheme -------------------------------
(***************************************************************************)
(* What the evaluators of src/SICP/chapter4 have in common: expressions,   *)
(* values and environments.  An expression is a record with an op, a value *)
(* a record [t, v].  A frame gives variables their values; an environment  *)
(* is the list of the numbers of its frames, and frame 1 is the global one.*)
(***************************************************************************)
EXTENDS Integers, Sequences, SequencesExt, FiniteSetsExt, TLC

(* Expressions, as the comments beside the problems show them typed.       *)
N(n) == [op |-> "num", n |-> n]
V(name) == [op |-> "var", name |-> name]
L(params, body) == [op |-> "lambda", params |-> params, body |-> body]
IfElse(test, yes, no) == [op |-> "if", test |-> test, yes |-> yes, no |-> no]
B(exps) == [op |-> "begin", exps |-> exps]
D(name, right) == [op |-> "define", name |-> name, right |-> right]
S(name, right) == [op |-> "set!", name |-> name, right |-> right]
C(exps) == [op |-> "apply", exps |-> exps]

None == [op |-> "none"]

Num(n) == [t |-> "num", v |-> n]
Bool(b) == [t |-> "bool", v |-> b]
Ok == [t |-> "ok", v |-> 0]
Primitive(name) == [t |-> "primitive", v |-> name]
Procedure(e, ps, b) == [t |-> "procedure", v |-> [params |-> ps, body |-> b, env |-> e]]

IsTrue(v) == ~(v.t = "bool" /\ v.v = FALSE)

Global == <<1>>
Globals(primitives) ==
    [n \in primitives \cup {"true", "false"} |->
        IF n \in primitives THEN Primitive(n) ELSE Bool(n = "true")]

(* The nearest frame that has the variable, 0 if there is none.            *)
FrameOf(name, env, frames) ==
    LET places == {i \in DOMAIN env : name \in DOMAIN frames[env[i]]}
    IN  IF places = {} THEN 0 ELSE env[Min(places)]

(* The variables that an environment shows.                                *)
Visible(env, frames) ==
    [n \in UNION {DOMAIN frames[f] : f \in Range(env)} |-> frames[FrameOf(n, env, frames)][n]]

(* define-variable! works on the first frame.                              *)
WithBinding(frames, env, name, val) ==
    [frames EXCEPT ![Head(env)] = [n \in DOMAIN @ \cup {name} |-> IF n = name THEN val ELSE @[n]]]

Bind(params, args) ==
    [n \in Range(params) |-> args[CHOOSE i \in DOMAIN params : params[i] = n]]
=============================================================================
