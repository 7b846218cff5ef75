-------------------------- MODULE EvaluatorsProofs --------------------------
(* A lazy-memo argument is evaluated once, in every session with the lazy  *)
(* evaluators, for every expression of their language.                     *)
EXTENDS Evaluators, Integers, Sequences, WellFoundedInduction, TLAPS

-----------------------------------------------------------------------------
(* Sequences.                                                              *)
LEMMA SeqGrows ==
    ASSUME NEW A, NEW B, A \subseteq B, NEW s \in Seq(A)
    PROVE  s \in Seq(B)
  OBVIOUS

LEMMA Elements ==
    ASSUME NEW A, NEW s \in Seq(A)
    PROVE  /\ \A i \in DOMAIN s : s[i] \in A /\ i \in Nat
           /\ Len(s) = 1 => s[1] \in A
           /\ Len(s) = 2 => s[1] \in A /\ s[2] \in A
  OBVIOUS

LEMMA Replaced ==
    ASSUME NEW A, NEW s \in Seq(A), NEW n, NEW x \in A
    PROVE  /\ [s EXCEPT ![n] = x] \in Seq(A)
           /\ DOMAIN [s EXCEPT ![n] = x] = DOMAIN s
           /\ Len([s EXCEPT ![n] = x]) = Len(s)
           /\ \A j \in DOMAIN s : [s EXCEPT ![n] = x][j] = IF j = n THEN x ELSE s[j]
<1> DEFINE r == [s EXCEPT ![n] = x]
<1>1. Len(s) \in Nat /\ DOMAIN s = 1 .. Len(s) /\ \A j \in DOMAIN s : s[j] \in A
  OBVIOUS
<1>2. r = [j \in DOMAIN s |-> IF j = n THEN x ELSE s[j]]
  OBVIOUS
<1> HIDE DEF r
<1>3. DOMAIN r = DOMAIN s /\ \A j \in DOMAIN s : r[j] = IF j = n THEN x ELSE s[j]
  BY <1>2
<1>4. r \in [1 .. Len(s) -> A]
  BY <1>1, <1>2
<1>5. r \in Seq(A) /\ Len(r) = Len(s)
  BY <1>1, <1>4
<1> QED
  BY <1>3, <1>5 DEF r

LEMMA Pushed ==
    ASSUME NEW A, NEW s \in Seq(A), NEW x \in A, NEW y \in A
    PROVE  /\ s \o <<x>> \in Seq(A) /\ s \o <<x, y>> \in Seq(A) /\ Append(s, x) \in Seq(A)
           /\ s \o <<x>> # <<>> /\ s \o <<x, y>> # <<>> /\ Append(s, x) # <<>>
           /\ Lazy!Last(s \o <<x>>) = x /\ Lazy!Last(s \o <<x, y>>) = y
           /\ Lazy!Last(Append(s, x)) = x
  BY DEF Lazy!Last

LEMMA Put ==
    ASSUME NEW A, NEW s \in Seq(A), NEW x \in A
    PROVE  <<x>> \o s \in Seq(A) /\ <<x>> \o s # <<>>
  OBVIOUS

LEMMA Popped ==
    ASSUME NEW A, NEW s \in Seq(A), s # <<>>
    PROVE  /\ Lazy!Front(s) \in Seq(A) /\ Lazy!Last(s) \in A
           /\ Len(s) \in Nat /\ Len(s) >= 1
           /\ Lazy!Last(s) = s[Len(s)]
           /\ Len(Lazy!Front(s)) = Len(s) - 1
           /\ \A i \in 1 .. Len(s) - 1 : Lazy!Front(s)[i] = s[i]
<1>1. Len(s) \in Nat /\ Len(s) >= 1 /\ \A i \in 1 .. Len(s) : s[i] \in A
  OBVIOUS
<1>2. Lazy!Last(s) = s[Len(s)]
  BY DEF Lazy!Last
<1>3. Lazy!Front(s) = [i \in 1 .. Len(s) - 1 |-> s[i]]
  BY <1>1 DEF Lazy!Front
<1>4. Lazy!Front(s) \in Seq(A) /\ Len(Lazy!Front(s)) = Len(s) - 1
  BY <1>1, <1>3
<1> QED
  BY <1>1, <1>2, <1>3, <1>4

LEMMA Tailed ==
    ASSUME NEW A, NEW s \in Seq(A), s # <<>>
    PROVE  /\ Head(s) \in A /\ Tail(s) \in Seq(A)
           /\ Len(s) \in Nat /\ Len(Tail(s)) = Len(s) - 1
           /\ Len(s) # 1 => Tail(s) # <<>>
<1>1. /\ Head(s) \in A /\ Tail(s) \in Seq(A)
      /\ Len(s) \in Nat /\ Len(Tail(s)) = Len(s) - 1
  OBVIOUS
<1>2. Len(<<>>) = 0
  OBVIOUS
<1> QED
  BY <1>1, <1>2

-----------------------------------------------------------------------------
(* Values are well-formed when all that can be reached from them is: the   *)
(* thunks exist, the environments have their frames, the bodies are        *)
(* expressions.                                                            *)
Envs(m) == Seq(1 .. m) \ {<<>>}
Parameters(ps) == ps \in Seq(Lazy!Range(ps)) /\ \A i \in DOMAIN ps : ps[i][2] \in Lazy!Kinds

Good(w, U, T, m) ==
    /\ w.t = "thunk" => w.v \in T
    /\ w.t = "pair" => w.v \in Seq(U) /\ Len(w.v) >= 2
    /\ w.t = "procedure" => /\ w.v.env \in Envs(m) /\ w.v.body \in Expressions
                            /\ Parameters(w.v.params)
    /\ w.t = "primitive" => w.v \in Lazy!Primitives

OK(v, T, m) == \E U : v \in U /\ \A w \in U : Good(w, U, T, m)

LEMMA EnvsGrow ==
    ASSUME NEW m \in Nat, NEW n \in Nat, m <= n, NEW e \in Envs(m)
    PROVE  e \in Envs(n)
<1>1. 1 .. m \subseteq 1 .. n
  OBVIOUS
<1> QED
  BY <1>1, SeqGrows DEF Envs

LEMMA OKGrows ==
    ASSUME NEW v, NEW T, NEW m \in Nat, OK(v, T, m),
           NEW T2, T \subseteq T2, NEW m2 \in Nat, m <= m2
    PROVE  OK(v, T2, m2)
<1>1. PICK U : v \in U /\ \A w \in U : Good(w, U, T, m)
  BY DEF OK
<1>2. \A w \in U : Good(w, U, T2, m2)
  BY <1>1, EnvsGrow DEF Good
<1> QED
  BY <1>1, <1>2 DEF OK

LEMMA OKPlain ==
    ASSUME NEW v, v.t \notin {"thunk", "pair", "procedure", "primitive"}
    PROVE  \A T, m : OK(v, T, m)
<1> SUFFICES ASSUME NEW T, NEW m PROVE OK(v, T, m)
  OBVIOUS
<1>1. \A w \in {v} : Good(w, {v}, T, m)
  BY DEF Good
<1> QED
  BY <1>1 DEF OK

LEMMA OKThunk ==
    ASSUME NEW T, NEW k \in T, NEW m, NEW v, v.t = "thunk", v.v = k
    PROVE  OK(v, T, m)
<1>1. \A w \in {v} : Good(w, {v}, T, m)
  BY DEF Good
<1> QED
  BY <1>1 DEF OK

LEMMA OKProcedure ==
    ASSUME NEW T, NEW m, NEW e \in Envs(m), NEW b \in Expressions, NEW ps, Parameters(ps)
    PROVE  OK(Lazy!Procedure(e, ps, b), T, m)
<1> DEFINE v == Lazy!Procedure(e, ps, b)
<1>1. v.t = "procedure" /\ v.v.env = e /\ v.v.body = b /\ v.v.params = ps
  BY DEF Lazy!Procedure
<1>2. \A w \in {v} : Good(w, {v}, T, m)
  BY <1>1 DEF Good
<1> QED
  BY <1>2 DEF OK

LEMMA OKPrimitive ==
    ASSUME NEW T, NEW m, NEW name \in Lazy!Primitives
    PROVE  OK(Lazy!Primitive(name), T, m)
<1> DEFINE v == Lazy!Primitive(name)
<1>1. v.t = "primitive" /\ v.v = name
  BY DEF Lazy!Primitive
<1>2. \A w \in {v} : Good(w, {v}, T, m)
  BY <1>1 DEF Good
<1> QED
  BY <1>2 DEF OK

LEMMA OfProcedure ==
    ASSUME NEW v, NEW T, NEW m, OK(v, T, m), v.t = "procedure"
    PROVE  v.v.env \in Envs(m) /\ v.v.body \in Expressions /\ Parameters(v.v.params)
  BY DEF OK, Good

LEMMA OfPrimitive ==
    ASSUME NEW v, NEW T, NEW m, OK(v, T, m), v.t = "primitive"
    PROVE  v.v \in Lazy!Primitives
  BY DEF OK, Good

LEMMA OfThunk ==
    ASSUME NEW v, NEW T, NEW m, OK(v, T, m), v.t = "thunk"
    PROVE  v.v \in T
  BY DEF OK, Good

(* cons, car, cdr and the list of what is quoted.                          *)
LEMMA OKPair ==
    ASSUME NEW a, NEW b, NEW T, NEW m, OK(a, T, m), OK(b, T, m)
    PROVE  OK(Lazy!Pair(a, b), T, m)
<1>1. PICK U : a \in U /\ \A w \in U : Good(w, U, T, m)
  BY DEF OK
<1>2. PICK W : b \in W /\ \A w \in W : Good(w, W, T, m)
  BY DEF OK
<1> DEFINE p == Lazy!Pair(a, b)
           X == U \cup W \cup {p}
           rest == IF b.t = "pair" THEN b.v ELSE <<b>>
<1>3. p.t = "pair" /\ p.v = <<a>> \o rest
  BY DEF Lazy!Pair
<1>4. rest \in Seq(X) /\ Len(rest) >= 1
  <2>1. CASE b.t = "pair"
    <3>1. b.v \in Seq(W) /\ Len(b.v) >= 2
      BY <1>2, <2>1 DEF Good
    <3>2. b.v \in Seq(X)
      BY <3>1, SeqGrows
    <3> QED
      BY <2>1, <3>1, <3>2
  <2>2. CASE b.t # "pair"
    <3>1. b \in X
      BY <1>2
    <3> HIDE DEF X
    <3> QED
      BY <2>2, <3>1
  <2> QED
    BY <2>1, <2>2
<1>5. p.v \in Seq(X) /\ Len(p.v) >= 2
  <2>1. a \in X
    BY <1>1
  <2> HIDE DEF X, p, rest
  <2> QED
    BY <1>3, <1>4, <2>1
<1>6. \A w \in U : Good(w, X, T, m)
  <2> SUFFICES ASSUME NEW w \in U PROVE Good(w, X, T, m)
    OBVIOUS
  <2>1. U \subseteq X
    OBVIOUS
  <2> HIDE DEF X
  <2> QED
    BY <1>1, <2>1, SeqGrows DEF Good
<1>7. \A w \in W : Good(w, X, T, m)
  <2> SUFFICES ASSUME NEW w \in W PROVE Good(w, X, T, m)
    OBVIOUS
  <2>1. W \subseteq X
    OBVIOUS
  <2> HIDE DEF X
  <2> QED
    BY <1>2, <2>1, SeqGrows DEF Good
<1>8. Good(p, X, T, m)
  <2> HIDE DEF p, X
  <2> QED
    BY <1>3, <1>5 DEF Good
<1> QED
  BY <1>6, <1>7, <1>8 DEF OK

LEMMA TailOfMore ==
    ASSUME NEW A, NEW s \in Seq(A), Len(s) >= 2
    PROVE  /\ Head(s) \in A /\ s[2] \in A /\ Tail(s) \in Seq(A)
           /\ Len(s) # 2 => Len(Tail(s)) >= 2
<1>1. PICK n \in Nat : n = Len(s) /\ n >= 2
  OBVIOUS
<1>2. s # <<>>
  BY <1>1
<1>3. Head(s) \in A /\ s[2] \in A /\ Tail(s) \in Seq(A)
  BY <1>1, <1>2
<1>4. Len(Tail(s)) = n - 1
  BY <1>1, <1>2
<1>5. n # 2 => n - 1 >= 2
  BY <1>1
<1> QED
  BY <1>1, <1>3, <1>4, <1>5

LEMMA OfPair ==
    ASSUME NEW p, NEW T, NEW m, OK(p, T, m), p.t = "pair"
    PROVE  OK(Head(p.v), T, m) /\ OK(Lazy!Rest(p), T, m)
<1>1. PICK U : p \in U /\ \A w \in U : Good(w, U, T, m)
  BY DEF OK
<1>2. p.v \in Seq(U) /\ Len(p.v) >= 2
  BY <1>1 DEF Good
<1>3. /\ Head(p.v) \in U /\ p.v[2] \in U /\ Tail(p.v) \in Seq(U)
      /\ Len(p.v) # 2 => Len(Tail(p.v)) >= 2
  BY <1>2, TailOfMore
<1>4. OK(Head(p.v), T, m) /\ OK(p.v[2], T, m)
  BY <1>1, <1>3 DEF OK
<1>5. CASE Len(p.v) = 2
  BY <1>4, <1>5 DEF Lazy!Rest
<1>6. CASE Len(p.v) # 2
  <2> DEFINE q == [t |-> "pair", v |-> Tail(p.v)]
             X == U \cup {q}
  <2>1. Lazy!Rest(p) = q
    BY <1>6 DEF Lazy!Rest
  <2>2. q.t = "pair" /\ q.v = Tail(p.v)
    OBVIOUS
  <2>3. q.v \in Seq(X) /\ Len(q.v) >= 2
    BY <1>3, <1>6, SeqGrows
  <2>4. \A w \in U : Good(w, X, T, m)
    <3> SUFFICES ASSUME NEW w \in U PROVE Good(w, X, T, m)
      OBVIOUS
    <3>1. U \subseteq X
      OBVIOUS
    <3> HIDE DEF X
    <3> QED
      BY <1>1, <3>1, SeqGrows DEF Good
  <2>5. Good(q, X, T, m)
    <3> HIDE DEF q, X
    <3> QED
      BY <2>2, <2>3 DEF Good
  <2> QED
    BY <1>4, <2>1, <2>4, <2>5 DEF OK
<1> QED
  BY <1>5, <1>6

Plain(x, T) == /\ x.t # "pair" /\ x.t # "procedure" /\ x.t # "primitive"
               /\ x.t = "thunk" => x.v \in T

LEMMA PlainGood ==
    ASSUME NEW x, NEW T, Plain(x, T)
    PROVE  \A U, m : Good(x, U, T, m)
  BY DEF Plain, Good

LEMMA OKList ==
    ASSUME NEW T, NEW m, NEW A, NEW items \in Seq(A),
           \A x \in A : Plain(x, T)
    PROVE  OK(Lazy!ListOf(items), T, m)
<1>0. Lazy!Nil.t = "nil"
  BY DEF Lazy!Nil
<1>1. CASE items = <<>>
  BY <1>0, <1>1, OKPlain DEF Lazy!ListOf
<1>2. CASE items # <<>>
  <2> DEFINE p == Lazy!ListOf(items)
             X == A \cup {Lazy!Nil, p}
  <2>1. p.t = "pair" /\ p.v = Append(items, Lazy!Nil)
    BY <1>2 DEF Lazy!ListOf
  <2>2. p.v \in Seq(X) /\ Len(p.v) >= 2
    <3>1. items \in Seq(X) /\ Lazy!Nil \in X
      BY SeqGrows
    <3> HIDE DEF p, X
    <3> QED
      BY <1>2, <2>1, <3>1
  <2>3. \A w \in A \cup {Lazy!Nil} : Good(w, X, T, m)
    <3>1. \A w \in A : Good(w, X, T, m)
      BY PlainGood
    <3>2. Good(Lazy!Nil, X, T, m)
      <4> HIDE DEF X
      <4> QED
        BY <1>0 DEF Good
    <3> QED
      BY <3>1, <3>2
  <2>4. Good(p, X, T, m)
    <3> HIDE DEF p, X
    <3> QED
      BY <2>1, <2>2 DEF Good
  <2> QED
    BY <2>3, <2>4 DEF OK
<1> QED
  BY <1>1, <1>2

(* What a primitive returns.                                               *)
Values(s, T, m) == \E A : s \in Seq(A) /\ \A a \in A : OK(a, T, m)

LEMMA OKApply ==
    ASSUME NEW name \in Lazy!Primitives, NEW args, NEW T, NEW m, Values(args, T, m),
           Lazy!Accepts(name, args)
    PROVE  OK(Lazy!Apply(name, args), T, m)
<1>0. PICK A : args \in Seq(A) /\ \A a \in A : OK(a, T, m)
  BY DEF Values
<1>1. CASE name = "cons"
  <2>1. Len(args) = 2
    BY <1>1 DEF Lazy!Accepts
  <2>2. args[1] \in A /\ args[2] \in A
    BY <1>0, <2>1, Elements, ZenonT(60)
  <2> QED
    BY <1>0, <1>1, <2>2, OKPair DEF Lazy!Apply
<1>2. CASE name \in {"car", "cdr"}
  <2>1. Len(args) = 1 /\ args[1].t = "pair"
    BY <1>2 DEF Lazy!Accepts
  <2>2. args[1] \in A
    BY <1>0, <2>1, Elements, ZenonT(60)
  <2>3. OK(Head(args[1].v), T, m) /\ OK(Lazy!Rest(args[1]), T, m)
    BY <1>0, <2>1, <2>2, OfPair
  <2> QED
    BY <1>2, <2>3 DEF Lazy!Apply
<1>3. CASE name \in {"+", "-", "*", "/", "="}
  <2>1. Lazy!Apply(name, args).t \in {"num", "bool"}
    BY <1>3 DEF Lazy!Apply, Lazy!Num, Lazy!Bool
  <2> QED
    BY <2>1, OKPlain
<1> QED
  BY <1>1, <1>2, <1>3 DEF Lazy!Primitives

-----------------------------------------------------------------------------
(* The nearest frame with a variable.                                      *)
LEMMA LeastOf ==
    ASSUME NEW I, I \subseteq Nat, I # {}
    PROVE  Lazy!Min(I) \in I
<1>1. PICK m \in I : \A k \in I : ~ (<<k, m>> \in OpToRel(<, Nat))
  BY NatLessThanWellFounded, WFMin
<1>2. \A k \in I : m <= k
  <2> SUFFICES ASSUME NEW k \in I PROVE m <= k
    OBVIOUS
  <2>1. k \in Nat /\ m \in Nat
    OBVIOUS
  <2>2. k < m => <<k, m>> \in OpToRel(<, Nat)
    BY <2>1 DEF OpToRel
  <2>3. ~ (k < m)
    BY <1>1, <2>2, ZenonT(60)
  <2> QED
    BY <2>1, <2>3
<1> QED
  BY <1>2 DEF Lazy!Min

LEMMA Nearest ==
    ASSUME NEW m, NEW e \in Envs(m), NEW fs, NEW name
    PROVE  LET f == Lazy!FrameOf(name, e, fs)
           IN  f # 0 => f \in 1 .. m /\ name \in DOMAIN fs[f]
<1> DEFINE places == {i \in DOMAIN e : name \in DOMAIN fs[e[i]]}
<1>1. e \in Seq(1 .. m)
  BY DEF Envs
<1>2. places \subseteq Nat
  BY <1>1
<1>3. CASE places = {}
  BY <1>3 DEF Lazy!FrameOf
<1>4. CASE places # {}
  <2>1. Lazy!Min(places) \in places
    BY <1>2, <1>4, LeastOf
  <2>2. Lazy!FrameOf(name, e, fs) = e[Lazy!Min(places)]
    BY <1>4 DEF Lazy!FrameOf
  <2>3. PICK i \in places : i = Lazy!Min(places)
    BY <2>1
  <2>4. e[i] \in 1 .. m /\ name \in DOMAIN fs[e[i]]
    BY <1>1, Elements
  <2> QED
    BY <2>2, <2>3, <2>4
<1> QED
  BY <1>3, <1>4

-----------------------------------------------------------------------------
(* Memory and what is left to do, when every value in it is well-formed.   *)
Variables(fr, T, m) == \A n \in DOMAIN fr : OK(fr[n], T, m)
FramesOK(fs, T, m) == \E A : fs \in Seq(A) /\ \A fr \in A : Variables(fr, T, m)

ThunkOK(k, T, m) ==
    /\ k.state \in {"lazy", "lazy-memo", "evaluated"}
    /\ k.state = "evaluated" => OK(k.val, T, m)
    /\ k.state # "evaluated" => k.exp \in Expressions /\ k.env \in Envs(m)
Bunch(b, T, m) == \A i \in DOMAIN b : ThunkOK(b[i], T, m)
ThunksOK(ts, T, m) == \E A : ts \in Seq(A) /\ \A b \in A : Bunch(b, T, m)

(* Every thunk there is, as it is referred to.                             *)
Ids(ts) == UNION {{n} \X DOMAIN ts[n] : n \in DOMAIN ts}

Entry(x, T, m) ==
    /\ x.op = "memo" => x.thunk \in T
    /\ x.op = "if" => x.yes \in Expressions /\ x.no \in Expressions
    /\ x.op = "begin" => x.exps \in Seq(Expressions) \ {<<>>} /\ DOMAIN x = {"op", "exps", "env"}
    /\ x.op \in {"operator", "operands"} => x.exps \in Seq(Expressions)
    /\ x.op \in {"if", "begin", "define", "set!", "operator", "operands"} => x.env \in Envs(m)
    /\ x.op = "operands" =>
          /\ DOMAIN x = {"op", "proc", "exps", "env", "todo", "at", "args"}
          /\ OK(x.proc, T, m) /\ Values(x.args, T, m)
          /\ x.todo \subseteq DOMAIN x.exps /\ Len(x.args) = Len(x.exps)
          /\ x.proc.t = "procedure" => Len(x.proc.v.params) = Len(x.exps)
StackOK(st, T, m) == \E A : st \in Seq(A) /\ \A x \in A : Entry(x, T, m)

LEMMA VariablesGrow ==
    ASSUME NEW fr, NEW T, NEW m \in Nat, Variables(fr, T, m),
           NEW T2, T \subseteq T2, NEW m2 \in Nat, m <= m2
    PROVE  Variables(fr, T2, m2)
  BY OKGrows DEF Variables

LEMMA ValuesGrow ==
    ASSUME NEW s, NEW T, NEW m \in Nat, Values(s, T, m),
           NEW T2, T \subseteq T2, NEW m2 \in Nat, m <= m2
    PROVE  Values(s, T2, m2)
  BY OKGrows DEF Values

LEMMA FramesGrow ==
    ASSUME NEW fs, NEW T, NEW m \in Nat, FramesOK(fs, T, m),
           NEW T2, T \subseteq T2, NEW m2 \in Nat, m <= m2
    PROVE  FramesOK(fs, T2, m2)
  BY VariablesGrow DEF FramesOK

LEMMA BunchGrows ==
    ASSUME NEW b, NEW T, NEW m \in Nat, Bunch(b, T, m),
           NEW T2, T \subseteq T2, NEW m2 \in Nat, m <= m2
    PROVE  Bunch(b, T2, m2)
<1> SUFFICES ASSUME NEW i \in DOMAIN b PROVE ThunkOK(b[i], T2, m2)
  BY DEF Bunch
<1>1. ThunkOK(b[i], T, m)
  BY DEF Bunch
<1> QED
  BY <1>1, OKGrows, EnvsGrow DEF ThunkOK

LEMMA ThunksGrow ==
    ASSUME NEW ts, NEW T, NEW m \in Nat, ThunksOK(ts, T, m),
           NEW T2, T \subseteq T2, NEW m2 \in Nat, m <= m2
    PROVE  ThunksOK(ts, T2, m2)
  BY BunchGrows DEF ThunksOK

LEMMA EntryGrows ==
    ASSUME NEW x, NEW T, NEW m \in Nat, Entry(x, T, m),
           NEW T2, T \subseteq T2, NEW m2 \in Nat, m <= m2
    PROVE  Entry(x, T2, m2)
  BY OKGrows, ValuesGrow, EnvsGrow DEF Entry

LEMMA StackGrows ==
    ASSUME NEW st, NEW T, NEW m \in Nat, StackOK(st, T, m),
           NEW T2, T \subseteq T2, NEW m2 \in Nat, m <= m2
    PROVE  StackOK(st, T2, m2)
  BY EntryGrows DEF StackOK

(* Pushing and popping.                                                    *)
LEMMA StackPushed ==
    ASSUME NEW st, NEW T, NEW m, StackOK(st, T, m),
           NEW x, Entry(x, T, m), NEW y, Entry(y, T, m)
    PROVE  /\ StackOK(st \o <<x>>, T, m) /\ StackOK(st \o <<x, y>>, T, m)
           /\ StackOK(Append(st, x), T, m)
<1>1. PICK A : st \in Seq(A) /\ \A z \in A : Entry(z, T, m)
  BY DEF StackOK
<1> DEFINE X == A \cup {x, y}
<1>2. st \in Seq(X) /\ x \in X /\ y \in X
  BY <1>1, SeqGrows
<1>3. \A z \in X : Entry(z, T, m)
  BY <1>1
<1> HIDE DEF X
<1>4. st \o <<x>> \in Seq(X) /\ st \o <<x, y>> \in Seq(X) /\ Append(st, x) \in Seq(X)
  BY <1>2, Pushed
<1> QED
  BY <1>3, <1>4 DEF StackOK

LEMMA OnTop ==
    ASSUME NEW st, NEW T, NEW m, StackOK(st, T, m), NEW x
    PROVE  Append(st, x) # <<>> /\ Lazy!Last(Append(st, x)) = x
<1>1. PICK A : st \in Seq(A)
  BY DEF StackOK
<1>2. PICK X : X = A \cup {x}
  OBVIOUS
<1>3. st \in Seq(X) /\ x \in X
  BY <1>1, <1>2, SeqGrows
<1> QED
  BY <1>3 DEF Lazy!Last

LEMMA StackPopped ==
    ASSUME NEW st, NEW T, NEW m, StackOK(st, T, m), st # <<>>
    PROVE  StackOK(Lazy!Front(st), T, m) /\ Entry(Lazy!Last(st), T, m)
<1>1. PICK A : st \in Seq(A) /\ \A z \in A : Entry(z, T, m)
  BY DEF StackOK
<1>2. Lazy!Front(st) \in Seq(A) /\ Lazy!Last(st) \in A
  BY <1>1, Popped
<1> QED
  BY <1>1, <1>2 DEF StackOK

LEMMA ForceEntry ==
    \A T, m : Entry(Lazy!Force, T, m)
<1>1. Lazy!Force.op = "force"
  BY DEF Lazy!Force
<1> QED
  BY <1>1 DEF Entry

(* New frames, new bindings and new arguments.                             *)
LEMMA FirstFrame ==
    ASSUME NEW T, NEW m, NEW fr, Variables(fr, T, m)
    PROVE  FramesOK(<<fr>>, T, m)
<1>1. PICK A : A = {fr}
  OBVIOUS
<1>2. <<fr>> \in Seq(A) /\ \A z \in A : Variables(z, T, m)
  BY <1>1
<1> QED
  BY <1>2, Zenon DEF FramesOK

LEMMA ValueChanged ==
    ASSUME NEW s, NEW T, NEW m, Values(s, T, m), NEW v, OK(v, T, m), NEW n
    PROVE  Values([s EXCEPT ![n] = v], T, m) /\ Len([s EXCEPT ![n] = v]) = Len(s)
<1>1. PICK A : s \in Seq(A) /\ \A a \in A : OK(a, T, m)
  BY DEF Values
<1> DEFINE X == A \cup {v}
<1>2. s \in Seq(X) /\ v \in X
  BY <1>1, SeqGrows
<1>3. \A a \in X : OK(a, T, m)
  BY <1>1
<1> HIDE DEF X
<1>4. [s EXCEPT ![n] = v] \in Seq(X) /\ Len([s EXCEPT ![n] = v]) = Len(s)
  BY <1>2, Replaced
<1> QED
  BY <1>3, <1>4 DEF Values

LEMMA FramesPushed ==
    ASSUME NEW fs, NEW T, NEW m, FramesOK(fs, T, m), NEW fr, Variables(fr, T, m)
    PROVE  FramesOK(Append(fs, fr), T, m) /\ Len(Append(fs, fr)) = Len(fs) + 1
<1>1. PICK A : fs \in Seq(A) /\ \A z \in A : Variables(z, T, m)
  BY DEF FramesOK
<1> DEFINE X == A \cup {fr}
<1>2. fs \in Seq(X) /\ fr \in X
  BY <1>1, SeqGrows
<1>3. \A z \in X : Variables(z, T, m)
  BY <1>1
<1> HIDE DEF X
<1>4. Append(fs, fr) \in Seq(X) /\ Len(Append(fs, fr)) = Len(fs) + 1
  BY <1>2
<1> QED
  BY <1>3, <1>4 DEF FramesOK

LEMMA FrameChanged ==
    ASSUME NEW fs, NEW T, NEW m, FramesOK(fs, T, m), NEW fr, Variables(fr, T, m), NEW f
    PROVE  /\ FramesOK([fs EXCEPT ![f] = fr], T, m)
           /\ Len([fs EXCEPT ![f] = fr]) = Len(fs)
<1>1. PICK A : fs \in Seq(A) /\ \A z \in A : Variables(z, T, m)
  BY DEF FramesOK
<1> DEFINE X == A \cup {fr}
<1>2. fs \in Seq(X) /\ fr \in X
  BY <1>1, SeqGrows
<1>3. \A z \in X : Variables(z, T, m)
  BY <1>1
<1> HIDE DEF X
<1>4. [fs EXCEPT ![f] = fr] \in Seq(X) /\ Len([fs EXCEPT ![f] = fr]) = Len(fs)
  BY <1>2, Replaced
<1> QED
  BY <1>3, <1>4 DEF FramesOK

LEMMA InFrame ==
    ASSUME NEW fs, NEW T, NEW m, FramesOK(fs, T, m), NEW f \in 1 .. Len(fs)
    PROVE  Variables(fs[f], T, m)
<1>1. PICK A : fs \in Seq(A) /\ \A z \in A : Variables(z, T, m)
  BY DEF FramesOK
<1>2. fs[f] \in A
  BY <1>1
<1> QED
  BY <1>1, <1>2

(* New thunks and new values of thunks.                                    *)
LEMMA ThunksPushed ==
    ASSUME NEW ts, NEW T, NEW m, ThunksOK(ts, T, m), NEW b, Bunch(b, T, m)
    PROVE  /\ ThunksOK(Append(ts, b), T, m)
           /\ Ids(ts) \subseteq Ids(Append(ts, b))
           /\ \A i \in DOMAIN b : <<Len(ts) + 1, i>> \in Ids(Append(ts, b))
<1>1. PICK A : ts \in Seq(A) /\ \A z \in A : Bunch(z, T, m)
  BY DEF ThunksOK
<1> DEFINE X == A \cup {b}
           new == Append(ts, b)
<1>2. ts \in Seq(X) /\ b \in X
  BY <1>1, SeqGrows
<1>3. \A z \in X : Bunch(z, T, m)
  BY <1>1
<1> HIDE DEF X
<1>4. /\ new \in Seq(X) /\ DOMAIN new = DOMAIN ts \cup {Len(ts) + 1}
      /\ \A n \in DOMAIN ts : new[n] = ts[n]
      /\ new[Len(ts) + 1] = b
  BY <1>2
<1> HIDE DEF new
<1>5. ThunksOK(new, T, m)
  BY <1>3, <1>4 DEF ThunksOK
<1>6. Ids(ts) \subseteq Ids(new)
  BY <1>4 DEF Ids
<1>7. \A i \in DOMAIN b : <<Len(ts) + 1, i>> \in Ids(new)
  BY <1>4 DEF Ids
<1> QED
  BY <1>5, <1>6, <1>7 DEF new

LEMMA ThunkChanged ==
    ASSUME NEW ts, NEW T, NEW m, ThunksOK(ts, T, m), NEW th, ThunkOK(th, T, m), NEW k
    PROVE  /\ ThunksOK([ts EXCEPT ![k[1]][k[2]] = th], T, m)
           /\ Ids([ts EXCEPT ![k[1]][k[2]] = th]) = Ids(ts)
<1>1. PICK A : ts \in Seq(A) /\ \A z \in A : Bunch(z, T, m)
  BY DEF ThunksOK
<1> DEFINE n == k[1]
           b == [ts[n] EXCEPT ![k[2]] = th]
           new == [ts EXCEPT ![n] = b]
           X == A \cup {b}
<1>0. [ts EXCEPT ![k[1]][k[2]] = th] = new
  OBVIOUS
<1>2. DOMAIN b = DOMAIN ts[n] /\ \A i \in DOMAIN b : b[i] \in {th, ts[n][i]}
  OBVIOUS
<1>3. CASE n \in DOMAIN ts
  <2>1. ts[n] \in A
    BY <1>1, <1>3
  <2>2. Bunch(b, T, m)
    <3> HIDE DEF b
    <3> QED
      BY <1>1, <1>2, <2>1 DEF Bunch
  <2>3. ts \in Seq(X) /\ b \in X
    BY <1>1, SeqGrows
  <2>4. \A z \in X : Bunch(z, T, m)
    BY <1>1, <2>2
  <2> HIDE DEF X, b, n
  <2>5. /\ new \in Seq(X) /\ DOMAIN new = DOMAIN ts
        /\ \A j \in DOMAIN ts : new[j] = IF j = n THEN b ELSE ts[j]
    BY <2>3, Replaced
  <2> HIDE DEF new
  <2>6. ThunksOK(new, T, m)
    BY <2>4, <2>5 DEF ThunksOK
  <2>7. \A j \in DOMAIN ts : DOMAIN new[j] = DOMAIN ts[j]
    BY <1>2, <2>5
  <2>8. Ids(new) = Ids(ts)
    BY <2>5, <2>7 DEF Ids
  <2> QED
    BY <1>0, <2>6, <2>8
<1>4. CASE n \notin DOMAIN ts
  <2>1. new = ts
    BY <1>1, <1>4
  <2> QED
    BY <1>0, <2>1
<1> QED
  BY <1>3, <1>4

LEMMA OfId ==
    ASSUME NEW ts, NEW T, NEW m, ThunksOK(ts, T, m), NEW k \in Ids(ts)
    PROVE  ThunkOK(ts[k[1]][k[2]], T, m)
<1>1. PICK A : ts \in Seq(A) /\ \A z \in A : Bunch(z, T, m)
  BY DEF ThunksOK
<1>2. k[1] \in DOMAIN ts /\ k[2] \in DOMAIN ts[k[1]]
  BY DEF Ids
<1>3. ts[k[1]] \in A
  BY <1>1, <1>2
<1> QED
  BY <1>1, <1>2, <1>3 DEF Bunch
-----------------------------------------------------------------------------
(* The types of the lazy evaluators: everything in memory, in the registers*)
(* and in what is left to do is well-formed.                               *)
Th == Ids(thunks)
Fr == Len(frames)

Memory == /\ Fr \in Nat /\ Fr >= 1
          /\ FramesOK(frames, Th, Fr) /\ ThunksOK(thunks, Th, Fr)
ValueTyped == OK(val, Th, Fr)
StackTyped == StackOK(stack, Th, Fr)
EvalTyped == mode = "eval" => exp \in Expressions /\ env \in Envs(Fr)
ApplyTyped == mode = "apply" => stack # <<>> /\ Lazy!Top.op = "operands"
PromptTyped == mode = "prompt" => stack = <<>>

Types == /\ Memory /\ ValueTyped /\ StackTyped
         /\ EvalTyped /\ ApplyTyped /\ PromptTyped

LEMMA SameMemory ==
    ASSUME Memory, UNCHANGED <<frames, thunks>>
    PROVE  Memory' /\ Th' = Th /\ Fr' = Fr
  BY DEF Memory, Th, Fr

(* A step that evaluates, one that returns a value and one that fails.     *)
LEMMA Evaluates ==
    ASSUME Memory', ValueTyped', StackTyped', NEW e \in Expressions, NEW in, in \in Envs(Fr)',
           Lazy!Evaluate(e, in)
    PROVE  Types'
  BY DEF Types, EvalTyped, ApplyTyped, PromptTyped, Lazy!Evaluate

LEMMA Gives ==
    ASSUME Memory', StackTyped', NEW v, OK(v, Th', Fr'), Lazy!Give(v)
    PROVE  Types'
  BY DEF Types, ValueTyped, EvalTyped, ApplyTyped, PromptTyped, Lazy!Give

LEMMA Fails ==
    ASSUME Types, Lazy!Error
    PROVE  Types'
<1>1. UNCHANGED <<frames, thunks, val, stack>> /\ mode' = "error"
  BY DEF Lazy!Error, Lazy!memory
<1>2. Memory' /\ Th' = Th /\ Fr' = Fr
  BY <1>1, SameMemory DEF Types
<1> QED
  BY <1>1, <1>2 DEF Types, ValueTyped, StackTyped, EvalTyped, ApplyTyped, PromptTyped

(* What a step of eval, and of its continuations, may use.                 *)
LEMMA InEval ==
    ASSUME Types, NEW op, Lazy!Evaluating(op)
    PROVE  /\ exp \in Expressions /\ env \in Envs(Fr) /\ exp.op = op
           /\ Memory /\ ValueTyped /\ StackTyped
  BY DEF Types, EvalTyped, Lazy!Evaluating

LEMMA InReturn ==
    ASSUME Types, NEW op, Lazy!Returning(op)
    PROVE  /\ Memory /\ OK(val, Th, Fr) /\ stack # <<>>
           /\ Lazy!Top.op = op /\ Entry(Lazy!Top, Th, Fr)
           /\ StackOK(Lazy!Front(stack), Th, Fr) /\ StackTyped
  BY StackPopped DEF Types, Lazy!Returning, Lazy!Top, StackTyped, ValueTyped

LEMMA ReadStep ==
    ASSUME Types, mode = "prompt", NEW e \in Expressions, Lazy!Read(e)
    PROVE  Types'
<1>1. Memory' /\ Th' = Th /\ Fr' = Fr
  BY SameMemory DEF Lazy!Read, Types
<1>2. ValueTyped'
  BY <1>1 DEF Lazy!Read, Lazy!Evaluate, Types, ValueTyped
<1>3. StackTyped'
  <2>1. stack' = <<>> \o <<Lazy!Force>>
    BY DEF Lazy!Read
  <2>2. StackOK(<<>>, Th, Fr)
    BY DEF Types, PromptTyped, StackTyped
  <2> QED
    BY <1>1, <2>1, <2>2, ForceEntry, StackPushed DEF StackTyped
<1>4. Lazy!Global \in Envs(Fr)'
  BY <1>1 DEF Lazy!Global, Envs, Types, Memory
<1> QED
  BY <1>1, <1>2, <1>3, <1>4, Evaluates DEF Lazy!Read

LEMMA AnswerStep ==
    ASSUME Types, Lazy!Answer
    PROVE  Types'
<1>1. CASE Lazy!Prints(val)
  <2>1. UNCHANGED <<frames, thunks, val, stack>> /\ mode' = "prompt" /\ stack = <<>>
    BY <1>1 DEF Lazy!Answer, Lazy!memory
  <2>2. Memory' /\ Th' = Th /\ Fr' = Fr
    BY <2>1, SameMemory DEF Types
  <2> QED
    BY <2>1, <2>2 DEF Types, ValueTyped, StackTyped, EvalTyped, ApplyTyped, PromptTyped
<1>2. CASE ~Lazy!Prints(val)
  BY <1>2, Fails DEF Lazy!Answer
<1> QED
  BY <1>1, <1>2

LEMMA ConstantStep ==
    ASSUME Types, Lazy!Constant
    PROVE  Types'
<1>1. Memory' /\ Th' = Th /\ Fr' = Fr
  BY SameMemory DEF Lazy!Constant, Lazy!memory, Types
<1>2. StackTyped'
  BY <1>1 DEF Lazy!Constant, Types, StackTyped
<1>3. OK(Lazy!Num(exp.n), Th', Fr')
  BY OKPlain DEF Lazy!Num
<1> QED
  BY <1>1, <1>2, <1>3, Gives DEF Lazy!Constant

LEMMA VariableStep ==
    ASSUME Types, Lazy!Variable
    PROVE  Types'
<1> DEFINE f == Lazy!FrameOf(exp.name, env, frames)
<1>1. CASE f = 0
  BY <1>1, Fails DEF Lazy!Variable
<1>2. CASE f # 0
  <2>1. env \in Envs(Fr) /\ FramesOK(frames, Th, Fr)
    BY InEval DEF Lazy!Variable, Memory
  <2>2. f \in 1 .. Fr /\ exp.name \in DOMAIN frames[f]
    BY <1>2, <2>1, Nearest
  <2>3. OK(frames[f][exp.name], Th, Fr)
    BY <2>1, <2>2, InFrame DEF Fr, Variables
  <2>4. Lazy!Give(frames[f][exp.name]) /\ UNCHANGED <<stack, frames, thunks>>
    BY <1>2 DEF Lazy!Variable, Lazy!memory
  <2>5. Memory' /\ Th' = Th /\ Fr' = Fr
    BY <2>4, SameMemory DEF Types
  <2>6. StackTyped'
    BY <2>4, <2>5 DEF Types, StackTyped
  <2> QED
    BY <2>3, <2>4, <2>5, <2>6, Gives
<1> QED
  BY <1>1, <1>2

LEMMA LambdaStep ==
    ASSUME Types, Lazy!Lambda
    PROVE  Types'
<1>1. exp \in Expressions /\ env \in Envs(Fr) /\ exp.op = "lambda"
  BY InEval DEF Lazy!Lambda
<1>2. exp.body \in Expressions /\ Parameters(exp.params)
  BY <1>1, LazyGrammar DEF Lazy!Grammar, Parameters
<1>3. OK(Lazy!Procedure(env, exp.params, exp.body), Th, Fr)
  BY <1>1, <1>2, OKProcedure
<1>4. Memory' /\ Th' = Th /\ Fr' = Fr
  BY SameMemory DEF Lazy!Lambda, Lazy!memory, Types
<1>5. StackTyped'
  BY <1>4 DEF Lazy!Lambda, Types, StackTyped
<1> QED
  BY <1>3, <1>4, <1>5, Gives DEF Lazy!Lambda
(* The same for a step that leaves the memory alone.                       *)
LEMMA EvaluatesOnly ==
    ASSUME Types, UNCHANGED <<frames, thunks>>, NEW e \in Expressions, NEW in \in Envs(Fr),
           Lazy!Evaluate(e, in), StackOK(stack', Th, Fr)
    PROVE  Types'
<1>1. Memory' /\ Th' = Th /\ Fr' = Fr
  BY SameMemory DEF Types
<1>2. StackTyped' /\ ValueTyped' /\ in \in Envs(Fr)'
  BY <1>1 DEF Lazy!Evaluate, Types, StackTyped, ValueTyped
<1> QED
  BY <1>1, <1>2, Evaluates

LEMMA GivesOnly ==
    ASSUME Types, UNCHANGED <<frames, thunks>>, NEW v, OK(v, Th, Fr), Lazy!Give(v),
           StackOK(stack', Th, Fr)
    PROVE  Types'
<1>1. Memory' /\ Th' = Th /\ Fr' = Fr
  BY SameMemory DEF Types
<1>2. StackTyped' /\ OK(v, Th', Fr')
  BY <1>1 DEF StackTyped
<1> QED
  BY <1>1, <1>2, Gives

LEMMA IfStep ==
    ASSUME Types, Lazy!If
    PROVE  Types'
<1>1. exp \in Expressions /\ env \in Envs(Fr) /\ exp.op = "if" /\ StackTyped
  BY InEval DEF Lazy!If
<1>2. exp.test \in Expressions /\ exp.yes \in Expressions /\ exp.no \in Expressions
  BY <1>1, LazyGrammar DEF Lazy!Grammar
<1> DEFINE x == [op |-> "if", yes |-> exp.yes, no |-> exp.no, env |-> env]
<1>3. Entry(x, Th, Fr)
  BY <1>1, <1>2 DEF Entry
<1>4. stack' = stack \o <<x, Lazy!Force>>
  BY DEF Lazy!If, Lazy!Then
<1> HIDE DEF x
<1>5. StackOK(stack', Th, Fr)
  BY <1>1, <1>3, <1>4, ForceEntry, StackPushed DEF StackTyped
<1> QED
  BY <1>1, <1>2, <1>5, EvaluatesOnly DEF Lazy!If, Lazy!memory

LEMMA BeginStep ==
    ASSUME Types, Lazy!Begin
    PROVE  Types'
<1>1. exp \in Expressions /\ env \in Envs(Fr) /\ exp.op = "begin" /\ StackTyped
  BY InEval DEF Lazy!Begin
<1>2. exp.exps \in Seq(Expressions) /\ exp.exps # <<>>
  BY <1>1, LazyGrammar DEF Lazy!Grammar
<1>3. /\ Head(exp.exps) \in Expressions /\ Tail(exp.exps) \in Seq(Expressions)
      /\ Len(exp.exps) # 1 => Tail(exp.exps) # <<>>
  BY <1>2, Tailed
<1>4. StackOK(stack', Th, Fr)
  <2>1. CASE Len(exp.exps) = 1
    BY <1>1, <2>1 DEF Lazy!Begin, StackTyped
  <2>2. CASE Len(exp.exps) # 1
    <3> DEFINE x == [op |-> "begin", exps |-> Tail(exp.exps), env |-> env]
    <3>1. Entry(x, Th, Fr)
      BY <1>1, <1>3, <2>2 DEF Entry
    <3>2. stack' = stack \o <<x>>
      BY <2>2 DEF Lazy!Begin, Lazy!Then
    <3> HIDE DEF x
    <3> QED
      BY <1>1, <3>1, <3>2, StackPushed DEF StackTyped
  <2> QED
    BY <2>1, <2>2
<1> QED
  BY <1>1, <1>3, <1>4, EvaluatesOnly DEF Lazy!Begin, Lazy!memory

LEMMA DefineOrSetStep ==
    ASSUME Types, Lazy!DefineOrSet
    PROVE  Types'
<1>1. exp \in Expressions /\ env \in Envs(Fr) /\ exp.op \in {"define", "set!"} /\ StackTyped
  BY InEval DEF Lazy!DefineOrSet
<1>2. exp.right \in Expressions
  BY <1>1, LazyGrammar DEF Lazy!Grammar
<1> DEFINE x == [op |-> exp.op, name |-> exp.name, env |-> env]
<1>3. Entry(x, Th, Fr)
  BY <1>1 DEF Entry
<1>4. stack' = stack \o <<x>>
  BY DEF Lazy!DefineOrSet, Lazy!Then
<1> HIDE DEF x
<1>5. StackOK(stack', Th, Fr)
  BY <1>1, <1>3, <1>4, StackPushed DEF StackTyped
<1> QED
  BY <1>1, <1>2, <1>5, EvaluatesOnly DEF Lazy!DefineOrSet, Lazy!memory

LEMMA ApplicationStep ==
    ASSUME Types, Lazy!Application
    PROVE  Types'
<1>1. exp \in Expressions /\ env \in Envs(Fr) /\ exp.op = "apply" /\ StackTyped
  BY InEval DEF Lazy!Application
<1>2. exp.exps \in Seq(Expressions) /\ exp.exps # <<>>
  BY <1>1, LazyGrammar DEF Lazy!Grammar
<1>3. Head(exp.exps) \in Expressions /\ Tail(exp.exps) \in Seq(Expressions)
  BY <1>2, Tailed
<1> DEFINE x == [op |-> "operator", exps |-> Tail(exp.exps), env |-> env]
<1>4. Entry(x, Th, Fr)
  BY <1>1, <1>3 DEF Entry
<1>5. stack' = stack \o <<x, Lazy!Force>>
  BY DEF Lazy!Application, Lazy!Then
<1> HIDE DEF x
<1>6. StackOK(stack', Th, Fr)
  BY <1>1, <1>4, <1>5, ForceEntry, StackPushed DEF StackTyped
<1> QED
  BY <1>1, <1>3, <1>6, EvaluatesOnly DEF Lazy!Application, Lazy!memory

LEMMA ForcedStep ==
    ASSUME Types, Lazy!Forced
    PROVE  Types'
<1>1. /\ OK(val, Th, Fr) /\ StackOK(Lazy!Front(stack), Th, Fr)
      /\ ThunksOK(thunks, Th, Fr)
  BY InReturn DEF Lazy!Forced, Memory
<1>2. StackOK(stack', Th, Fr)
  BY <1>1 DEF Lazy!Forced, Lazy!Drop
<1>3. CASE val.t # "thunk" /\ Lazy!Give(val)
  BY <1>1, <1>2, <1>3, GivesOnly DEF Lazy!Forced, Lazy!memory
<1>4. CASE /\ val.t = "thunk" /\ Lazy!Thunk(val.v).state = "evaluated"
           /\ Lazy!Give(Lazy!Thunk(val.v).val)
  <2>1. val.v \in Ids(thunks)
    BY <1>1, <1>4, OfThunk DEF Th
  <2>2. ThunkOK(Lazy!Thunk(val.v), Th, Fr)
    BY <1>1, <2>1, OfId DEF Lazy!Thunk
  <2>3. OK(Lazy!Thunk(val.v).val, Th, Fr)
    BY <1>4, <2>2 DEF ThunkOK
  <2> QED
    BY <1>2, <1>4, <2>3, GivesOnly DEF Lazy!Forced, Lazy!memory
<1> QED
  BY <1>3, <1>4 DEF Lazy!Forced

LEMMA ForceThunkStep ==
    ASSUME Types, Lazy!ForceThunk
    PROVE  Types'
<1>1. /\ OK(val, Th, Fr) /\ StackOK(Lazy!Front(stack), Th, Fr) /\ StackTyped
      /\ ThunksOK(thunks, Th, Fr) /\ val.t = "thunk"
  BY InReturn DEF Lazy!ForceThunk, Memory
<1> DEFINE k == val.v
           th == Lazy!Thunk(k)
           x == [op |-> "memo", thunk |-> k]
<1>2. k \in Th
  BY <1>1, OfThunk
<1>3. ThunkOK(th, Th, Fr)
  BY <1>1, <1>2, OfId DEF Lazy!Thunk, Th
<1>4. th.exp \in Expressions /\ th.env \in Envs(Fr)
  BY <1>3 DEF ThunkOK, Lazy!ForceThunk
<1>5. Entry(x, Th, Fr)
  BY <1>2 DEF Entry
<1>6. stack' = IF th.state = "lazy" THEN stack ELSE Lazy!Front(stack) \o <<x, Lazy!Force>>
  BY DEF Lazy!ForceThunk
<1> HIDE DEF x, th
<1>7. StackOK(stack', Th, Fr)
  BY <1>1, <1>5, <1>6, ForceEntry, StackPushed DEF StackTyped
<1>8. Lazy!Evaluate(th.exp, th.env) /\ UNCHANGED <<frames, thunks>>
  BY DEF Lazy!ForceThunk, th
<1> QED
  BY <1>4, <1>7, <1>8, EvaluatesOnly

LEMMA ChosenStep ==
    ASSUME Types, Lazy!Chosen
    PROVE  Types'
<1>1. /\ Entry(Lazy!Top, Th, Fr) /\ Lazy!Top.op = "if" /\ StackOK(Lazy!Front(stack), Th, Fr)
  BY InReturn DEF Lazy!Chosen
<1>2. Lazy!Top.yes \in Expressions /\ Lazy!Top.no \in Expressions /\ Lazy!Top.env \in Envs(Fr)
  BY <1>1 DEF Entry
<1>3. PICK e \in Expressions : Lazy!Evaluate(e, Lazy!Top.env)
  BY <1>2 DEF Lazy!Chosen
<1>4. StackOK(stack', Th, Fr)
  BY <1>1 DEF Lazy!Chosen, Lazy!Drop
<1> QED
  BY <1>2, <1>3, <1>4, EvaluatesOnly DEF Lazy!Chosen, Lazy!memory

LEMMA SequencedStep ==
    ASSUME Types, Lazy!Sequenced
    PROVE  Types'
<1>1. /\ Entry(Lazy!Top, Th, Fr) /\ Lazy!Top.op = "begin" /\ StackOK(Lazy!Front(stack), Th, Fr)
  BY InReturn DEF Lazy!Sequenced
<1>2. Lazy!Top.exps \in Seq(Expressions) /\ Lazy!Top.exps # <<>> /\ Lazy!Top.env \in Envs(Fr)
  BY <1>1 DEF Entry
<1>3. /\ Head(Lazy!Top.exps) \in Expressions /\ Tail(Lazy!Top.exps) \in Seq(Expressions)
      /\ Len(Lazy!Top.exps) # 1 => Tail(Lazy!Top.exps) # <<>>
  BY <1>2, Tailed
<1>4. StackOK(stack', Th, Fr)
  <2>1. CASE Len(Lazy!Top.exps) = 1
    BY <1>1, <2>1 DEF Lazy!Sequenced
  <2>2. CASE Len(Lazy!Top.exps) # 1
    <3> DEFINE x == [Lazy!Top EXCEPT !.exps = Tail(@)]
    <3>0. DOMAIN Lazy!Top = {"op", "exps", "env"}
      BY <1>1 DEF Entry
    <3>1. /\ x.op = "begin" /\ x.exps = Tail(Lazy!Top.exps) /\ x.env = Lazy!Top.env
          /\ DOMAIN x = {"op", "exps", "env"}
      BY <1>1, <3>0
    <3>2. stack' = Append(Lazy!Front(stack), x)
      BY <2>2 DEF Lazy!Sequenced
    <3> HIDE DEF x
    <3>3. Entry(x, Th, Fr)
      BY <1>2, <1>3, <2>2, <3>1 DEF Entry
    <3> QED
      BY <1>1, <3>2, <3>3, StackPushed
  <2> QED
    BY <2>1, <2>2
<1> QED
  BY <1>2, <1>3, <1>4, EvaluatesOnly DEF Lazy!Sequenced, Lazy!memory
LEMMA DefinedStep ==
    ASSUME Types, Lazy!Defined
    PROVE  Types'
<1>1. /\ Entry(Lazy!Top, Th, Fr) /\ Lazy!Top.op = "define" /\ StackOK(Lazy!Front(stack), Th, Fr)
      /\ Memory /\ OK(val, Th, Fr)
  BY InReturn DEF Lazy!Defined
<1> DEFINE f == Head(Lazy!Top.env)
           name == Lazy!Top.name
           fr == [n \in DOMAIN frames[f] \cup {name} |-> IF n = name THEN val ELSE frames[f][n]]
<1>2. f \in 1 .. Fr
  <2>1. Lazy!Top.env \in Envs(Fr)
    BY <1>1 DEF Entry
  <2> QED
    BY <2>1, Tailed DEF Envs
<1>3. Variables(frames[f], Th, Fr)
  BY <1>1, <1>2, InFrame DEF Memory, Fr
<1>4. Variables(fr, Th, Fr)
  BY <1>1, <1>3 DEF Variables
<1>5. frames' = [frames EXCEPT ![f] = fr] /\ thunks' = thunks /\ Lazy!Give(Lazy!Ok)
  BY DEF Lazy!Defined, Lazy!WithBinding
<1> HIDE DEF fr, f
<1>6. FramesOK(frames', Th, Fr) /\ Len(frames') = Len(frames)
  <2>1. FramesOK(frames, Th, Fr)
    BY <1>1 DEF Memory
  <2>2. /\ FramesOK([frames EXCEPT ![f] = fr], Th, Fr)
        /\ Len([frames EXCEPT ![f] = fr]) = Len(frames)
    BY <1>4, <2>1, FrameChanged, ZenonT(60)
  <2> QED
    BY <1>5, <2>2
<1>7. Memory' /\ Th' = Th /\ Fr' = Fr
  BY <1>1, <1>5, <1>6 DEF Memory, Th, Fr
<1>8. StackTyped'
  BY <1>1, <1>7 DEF Lazy!Defined, Lazy!Drop, StackTyped
<1>9. OK(Lazy!Ok, Th', Fr')
  BY OKPlain DEF Lazy!Ok
<1> QED
  BY <1>5, <1>7, <1>8, <1>9, Gives

LEMMA AssignedStep ==
    ASSUME Types, Lazy!Assigned
    PROVE  Types'
<1>1. /\ Entry(Lazy!Top, Th, Fr) /\ Lazy!Top.op = "set!" /\ StackOK(Lazy!Front(stack), Th, Fr)
      /\ Memory /\ OK(val, Th, Fr)
  BY InReturn DEF Lazy!Assigned
<1> DEFINE name == Lazy!Top.name
           f == Lazy!FrameOf(name, Lazy!Top.env, frames)
           fr == [frames[f] EXCEPT ![name] = val]
<1>2. CASE f = 0
  BY <1>2, Fails DEF Lazy!Assigned
<1>3. CASE f # 0
  <2>1. Lazy!Top.env \in Envs(Fr)
    BY <1>1 DEF Entry
  <2>2. f \in 1 .. Fr
    BY <1>3, <2>1, Nearest
  <2>3. Variables(frames[f], Th, Fr)
    BY <1>1, <2>2, InFrame DEF Memory, Fr
  <2>4. Variables(fr, Th, Fr)
    BY <1>1, <2>3 DEF Variables
  <2>5. frames' = [frames EXCEPT ![f][name] = val] /\ thunks' = thunks /\ Lazy!Give(Lazy!Ok)
        /\ stack' = Lazy!Front(stack)
    BY <1>3 DEF Lazy!Assigned, Lazy!Drop
  <2>6. frames' = [frames EXCEPT ![f] = fr]
    BY <2>5
  <2> HIDE DEF fr, f
  <2>7. FramesOK(frames', Th, Fr) /\ Len(frames') = Len(frames)
    <3>1. FramesOK(frames, Th, Fr)
      BY <1>1 DEF Memory
    <3>2. /\ FramesOK([frames EXCEPT ![f] = fr], Th, Fr)
          /\ Len([frames EXCEPT ![f] = fr]) = Len(frames)
      BY <2>4, <3>1, FrameChanged, ZenonT(60)
    <3> QED
      BY <2>6, <3>2
  <2>8. Memory' /\ Th' = Th /\ Fr' = Fr
    BY <1>1, <2>5, <2>7 DEF Memory, Th, Fr
  <2>9. StackTyped'
    BY <1>1, <2>5, <2>8 DEF StackTyped
  <2>10. OK(Lazy!Ok, Th', Fr')
    BY OKPlain DEF Lazy!Ok
  <2> QED
    BY <2>5, <2>8, <2>9, <2>10, Gives
<1> QED
  BY <1>2, <1>3

LEMMA MemoizeStep ==
    ASSUME Types, Lazy!Memoize
    PROVE  Types'
<1>1. /\ StackOK(Lazy!Front(stack), Th, Fr) /\ Memory /\ OK(val, Th, Fr)
  BY InReturn DEF Lazy!Memoize
<1> DEFINE k == Lazy!Top.thunk
           th == [state |-> "evaluated", exp |-> Lazy!None, env |-> <<>>, val |-> val]
<1>2. ThunkOK(th, Th, Fr)
  BY <1>1 DEF ThunkOK
<1>3. thunks' = [thunks EXCEPT ![k[1]][k[2]] = th] /\ frames' = frames /\ Lazy!Give(val)
  BY DEF Lazy!Memoize, Lazy!Evaluated
<1> HIDE DEF th, k
<1>4. ThunksOK(thunks', Th, Fr) /\ Ids(thunks') = Ids(thunks)
  <2>1. ThunksOK(thunks, Th, Fr)
    BY <1>1 DEF Memory
  <2>2. /\ ThunksOK([thunks EXCEPT ![k[1]][k[2]] = th], Th, Fr)
        /\ Ids([thunks EXCEPT ![k[1]][k[2]] = th]) = Ids(thunks)
    BY <1>2, <2>1, ThunkChanged, ZenonT(60)
  <2> QED
    BY <1>3, <2>2
<1>5. Memory' /\ Th' = Th /\ Fr' = Fr
  BY <1>1, <1>3, <1>4 DEF Memory, Th, Fr
<1>6. StackTyped'
  BY <1>1, <1>5 DEF Lazy!Memoize, Lazy!Drop, StackTyped
<1> QED
  BY <1>1, <1>3, <1>5, <1>6, Gives

LEMMA ApplyCompoundStep ==
    ASSUME Types, Lazy!ApplyCompound
    PROVE  Types'
<1>1. /\ Memory /\ ValueTyped /\ stack # <<>> /\ Lazy!Top.op = "operands"
      /\ Entry(Lazy!Top, Th, Fr) /\ StackOK(Lazy!Front(stack), Th, Fr)
  BY StackPopped DEF Types, ApplyTyped, StackTyped, Lazy!ApplyCompound, Lazy!Applying, Lazy!Top
<1> DEFINE top == Lazy!Top
           p == top.proc.v
           names == [i \in DOMAIN p.params |-> Lazy!NameOf(p.params[i])]
           fr == Lazy!Bind(names, top.args)
           in == <<Len(frames) + 1>> \o p.env
<1>2. /\ OK(top.proc, Th, Fr) /\ Values(top.args, Th, Fr) /\ top.proc.t = "procedure"
      /\ Len(p.params) = Len(top.args)
  BY <1>1 DEF Entry, Lazy!ApplyCompound, Lazy!Applying
<1>3. p.env \in Envs(Fr) /\ p.body \in Expressions /\ Parameters(p.params)
  BY <1>2, OfProcedure
<1>4. PICK A : top.args \in Seq(A) /\ \A a \in A : OK(a, Th, Fr)
  BY <1>2 DEF Values
<1>5. DOMAIN names = DOMAIN top.args
  BY <1>2, <1>3, <1>4 DEF Parameters
<1>6. Variables(fr, Th, Fr)
  <2> SUFFICES ASSUME NEW n \in DOMAIN fr PROVE OK(fr[n], Th, Fr)
    BY DEF Variables
  <2>1. n \in Lazy!Range(names) /\ fr[n] = top.args[CHOOSE i \in DOMAIN names : names[i] = n]
    BY DEF Lazy!Bind
  <2>2. PICK i : i = CHOOSE j \in DOMAIN names : names[j] = n
    OBVIOUS
  <2>3. i \in DOMAIN names
    BY <2>1, <2>2 DEF Lazy!Range
  <2>4. top.args[i] \in A
    BY <1>4, <1>5, <2>3, Elements, ZenonT(60)
  <2> QED
    BY <1>4, <2>1, <2>2, <2>4
<1>7. frames' = Append(frames, fr) /\ thunks' = thunks /\ Lazy!Evaluate(p.body, in)
      /\ stack' = Lazy!Front(stack)
  BY DEF Lazy!ApplyCompound, Lazy!Drop
<1> HIDE DEF fr
<1>8. FramesOK(frames', Th, Fr) /\ Len(frames') = Fr + 1
  BY <1>1, <1>6, <1>7, FramesPushed DEF Memory, Fr
<1>9. Th' = Th /\ Fr' = Fr + 1 /\ Fr \in Nat /\ Fr' \in Nat /\ Fr <= Fr' /\ Fr' >= 1
  BY <1>1, <1>7, <1>8 DEF Memory, Th, Fr
<1>10. FramesOK(frames', Th, Fr') /\ ThunksOK(thunks, Th, Fr')
  BY <1>1, <1>8, <1>9, FramesGrow, ThunksGrow DEF Memory
<1>11. Memory'
  BY <1>7, <1>9, <1>10 DEF Memory
<1>12. ValueTyped'
  <2>1. val' = val
    BY <1>7 DEF Lazy!Evaluate
  <2> QED
    BY <1>1, <1>9, <2>1, OKGrows DEF ValueTyped
<1>13. StackTyped'
  <2>1. StackOK(Lazy!Front(stack), Th, Fr')
    BY <1>1, <1>9, StackGrows
  <2> QED
    BY <1>7, <1>9, <2>1 DEF StackTyped
<1>14. in \in Envs(Fr)'
  <2>1. p.env \in Envs(Fr')
    BY <1>3, <1>9, EnvsGrow
  <2>2. p.env \in Seq(1 .. Fr') /\ Fr + 1 \in 1 .. Fr'
    BY <1>9, <2>1 DEF Envs
  <2>3. <<Fr + 1>> \o p.env \in Seq(1 .. Fr') /\ <<Fr + 1>> \o p.env # <<>>
    BY <2>2, Put
  <2> QED
    BY <2>3 DEF Envs, Fr
<1> QED
  BY <1>3, <1>7, <1>11, <1>12, <1>13, <1>14, Evaluates

LEMMA ApplyPrimitiveStep ==
    ASSUME Types, Lazy!ApplyPrimitive
    PROVE  Types'
<1>1. /\ stack # <<>> /\ Lazy!Top.op = "operands" /\ Lazy!Top.proc.t = "primitive"
      /\ Entry(Lazy!Top, Th, Fr) /\ StackOK(Lazy!Front(stack), Th, Fr)
  BY StackPopped
  DEF Types, ApplyTyped, StackTyped, Lazy!ApplyPrimitive, Lazy!Applying, Lazy!Top
<1> DEFINE name == Lazy!Top.proc.v
           args == Lazy!Top.args
<1>2. CASE Lazy!Accepts(name, args)
  <2>1. Values(args, Th, Fr) /\ OK(Lazy!Top.proc, Th, Fr)
    BY <1>1 DEF Entry
  <2>2. name \in Lazy!Primitives
    BY <1>1, <2>1, OfPrimitive
  <2>3. OK(Lazy!Apply(name, args), Th, Fr)
    BY <1>2, <2>1, <2>2, OKApply
  <2>4. Lazy!Give(Lazy!Apply(name, args)) /\ UNCHANGED <<frames, thunks>>
        /\ stack' = Lazy!Front(stack)
    BY <1>2 DEF Lazy!ApplyPrimitive, Lazy!Drop, Lazy!memory
  <2> QED
    BY <1>1, <2>3, <2>4, GivesOnly
<1>3. CASE ~Lazy!Accepts(name, args)
  BY <1>3, Fails DEF Lazy!ApplyPrimitive
<1> QED
  BY <1>2, <1>3

(* A step that delays something.                                           *)
LEMMA Delays ==
    ASSUME Memory, NEW b, Bunch(b, Th, Fr), Lazy!Delay(b), frames' = frames
    PROVE  /\ Memory' /\ Th \subseteq Th' /\ Fr' = Fr /\ Fr \in Nat
           /\ \A i \in DOMAIN b : Lazy!NewThunk(i).t = "thunk" /\ Lazy!NewThunk(i).v \in Th'
<1>1. thunks' = Append(thunks, b) /\ Fr' = Fr /\ Fr \in Nat
  BY DEF Lazy!Delay, Fr, Memory
<1>2. /\ ThunksOK(thunks', Th, Fr) /\ Th \subseteq Th'
      /\ \A i \in DOMAIN b : <<Len(thunks) + 1, i>> \in Th'
  BY <1>1, ThunksPushed DEF Memory, Th
<1>3. ThunksOK(thunks', Th', Fr) /\ FramesOK(frames', Th', Fr)
  BY <1>1, <1>2, ThunksGrow, FramesGrow DEF Memory
<1>4. Memory'
  BY <1>1, <1>3 DEF Memory, Fr
<1>5. \A i \in DOMAIN b : Lazy!NewThunk(i).t = "thunk" /\ Lazy!NewThunk(i).v \in Th'
  BY <1>2 DEF Lazy!NewThunk
<1> QED
  BY <1>1, <1>2, <1>4, <1>5

LEMMA Mapped ==
    ASSUME NEW A, NEW s \in Seq(A), NEW B, NEW r, DOMAIN r = DOMAIN s,
           r = [i \in DOMAIN s |-> r[i]], \A i \in DOMAIN s : r[i] \in B
    PROVE  r \in Seq(B) /\ Len(r) = Len(s)
  OBVIOUS

LEMMA QuotationStep ==
    ASSUME Types, Lazy!Quotation
    PROVE  Types'
<1>1. exp \in Expressions /\ env \in Envs(Fr) /\ exp.op = "quote" /\ Memory /\ StackTyped
  BY InEval DEF Lazy!Quotation
<1>2. exp.items \in Seq(Int) /\ \A i \in DOMAIN exp.items : Lazy!N(exp.items[i]) \in Expressions
  BY <1>1, LazyGrammar DEF Lazy!Grammar
<1>3. CASE program = "lazy-evaluator"
  <2> DEFINE b == [i \in DOMAIN exp.items |-> Lazy!Delayed("lazy-memo", Lazy!N(exp.items[i]), env)]
             r == [i \in DOMAIN exp.items |-> Lazy!NewThunk(i)]
             A == {Lazy!NewThunk(i) : i \in DOMAIN exp.items}
  <2>1. /\ Lazy!Give(Lazy!ListOf(r)) /\ Lazy!Delay(b) /\ frames' = frames /\ stack' = stack
    BY <1>3 DEF Lazy!Quotation
  <2>2. Bunch(b, Th, Fr)
    <3> SUFFICES ASSUME NEW i \in DOMAIN b PROVE ThunkOK(b[i], Th, Fr)
      BY DEF Bunch
    <3>1. /\ b[i].state = "lazy-memo" /\ b[i].exp = Lazy!N(exp.items[i]) /\ b[i].env = env
      BY DEF Lazy!Delayed
    <3> QED
      BY <1>1, <1>2, <3>1 DEF ThunkOK
  <2>3. /\ Memory' /\ Th \subseteq Th' /\ Fr' = Fr /\ Fr \in Nat
        /\ \A i \in DOMAIN b : Lazy!NewThunk(i).t = "thunk" /\ Lazy!NewThunk(i).v \in Th'
    <3> HIDE DEF b
    <3> QED
      BY <1>1, <2>1, <2>2, Delays
  <2>4. r \in Seq(A)
    <3>1. DOMAIN r = DOMAIN exp.items /\ \A i \in DOMAIN exp.items : r[i] \in A
      OBVIOUS
    <3>2. r = [i \in DOMAIN exp.items |-> r[i]]
      OBVIOUS
    <3> HIDE DEF r, A
    <3> QED
      BY <1>2, <3>1, <3>2, Mapped
  <2>5. \A x \in A : Plain(x, Th')
    BY <2>3 DEF Plain
  <2>6. OK(Lazy!ListOf(r), Th', Fr')
    <3> HIDE DEF r, A
    <3> QED
      BY <2>4, <2>5, OKList
  <2>7. StackTyped'
    <3>1. StackOK(stack, Th', Fr)
      BY <1>1, <2>3, StackGrows DEF StackTyped
    <3> QED
      BY <2>1, <2>3, <3>1 DEF StackTyped
  <2> HIDE DEF r
  <2> QED
    BY <2>1, <2>3, <2>6, <2>7, Gives
<1>4. CASE program # "lazy-evaluator"
  <2> DEFINE r == [i \in DOMAIN exp.items |-> Lazy!Num(exp.items[i])]
             A == {Lazy!Num(n) : n \in Int}
  <2>1. Lazy!Give(Lazy!ListOf(r)) /\ UNCHANGED <<frames, thunks>> /\ stack' = stack
    BY <1>4 DEF Lazy!Quotation
  <2>2. r \in Seq(A)
    <3>1. DOMAIN r = DOMAIN exp.items /\ \A i \in DOMAIN exp.items : r[i] \in A
      BY <1>2, Elements
    <3>2. r = [i \in DOMAIN exp.items |-> r[i]]
      OBVIOUS
    <3> HIDE DEF r, A
    <3> QED
      BY <1>2, <3>1, <3>2, Mapped
  <2>3. \A x \in A : Plain(x, Th)
    BY DEF Plain, Lazy!Num
  <2>4. OK(Lazy!ListOf(r), Th, Fr)
    <3> HIDE DEF r, A
    <3> QED
      BY <2>2, <2>3, OKList
  <2> HIDE DEF r
  <2> QED
    BY <1>1, <2>1, <2>4, GivesOnly DEF StackTyped
<1> QED
  BY <1>3, <1>4

LEMMA ArgumentsStep ==
    ASSUME Types, Lazy!Arguments
    PROVE  Types'
<1>1. /\ Entry(Lazy!Top, Th, Fr) /\ Lazy!Top.op = "operator"
      /\ StackOK(Lazy!Front(stack), Th, Fr) /\ Memory /\ OK(val, Th, Fr)
  BY InReturn DEF Lazy!Arguments
<1> DEFINE exps == Lazy!Top.exps
           in == Lazy!Top.env
           delayed == {i \in DOMAIN exps : Lazy!KindOf(val, i) # "strict"}
           b == [i \in delayed |-> Lazy!Delayed(Lazy!KindOf(val, i), exps[i], in)]
           args == [i \in DOMAIN exps |-> IF i \in delayed THEN Lazy!NewThunk(i) ELSE Lazy!Unset]
           todo == DOMAIN exps \ delayed
           x == [op |-> "operands", proc |-> val, exps |-> exps, env |-> in,
                 todo |-> todo, at |-> 0, args |-> args]
           wrong == \/ val.t \notin {"procedure", "primitive"}
                    \/ val.t = "procedure" /\ Len(val.v.params) # Len(exps)
<1>2. CASE wrong
  BY <1>2, Fails DEF Lazy!Arguments
<1>3. CASE ~wrong
  <2>1. /\ Lazy!Delay(b) /\ mode' = "apply" /\ stack' = Append(Lazy!Front(stack), x)
        /\ val' = val /\ frames' = frames
    BY <1>3 DEF Lazy!Arguments
  <2>2. exps \in Seq(Expressions) /\ in \in Envs(Fr)
    BY <1>1 DEF Entry
  <2>3. \A i \in delayed : exps[i] \in Expressions /\ Lazy!KindOf(val, i) \in {"lazy", "lazy-memo"}
    <3> SUFFICES ASSUME NEW i \in delayed
                 PROVE  exps[i] \in Expressions /\ Lazy!KindOf(val, i) \in {"lazy", "lazy-memo"}
      OBVIOUS
    <3>1. exps[i] \in Expressions /\ i \in DOMAIN exps
      BY <2>2, Elements
    <3>2. val.t = "procedure" /\ Lazy!KindOf(val, i) = val.v.params[i][2]
      BY DEF Lazy!KindOf
    <3>3. Parameters(val.v.params) /\ Len(val.v.params) = Len(exps)
      BY <1>1, <1>3, <3>2, OfProcedure
    <3>4. i \in DOMAIN val.v.params
      <4> HIDE DEF exps, delayed
      <4> QED
        BY <2>2, <3>1, <3>3 DEF Parameters
    <3>5. val.v.params[i][2] \in Lazy!Kinds
      BY <3>3, <3>4 DEF Parameters
    <3> QED
      BY <3>1, <3>2, <3>5 DEF Lazy!Kinds
  <2>4. Bunch(b, Th, Fr)
    <3> SUFFICES ASSUME NEW i \in DOMAIN b PROVE ThunkOK(b[i], Th, Fr)
      BY DEF Bunch
    <3>1. /\ b[i].state = Lazy!KindOf(val, i) /\ b[i].exp = exps[i] /\ b[i].env = in
      BY DEF Lazy!Delayed
    <3> QED
      BY <2>2, <2>3, <3>1 DEF ThunkOK
  <2>5. /\ Memory' /\ Th \subseteq Th' /\ Fr' = Fr /\ Fr \in Nat
        /\ \A i \in delayed : Lazy!NewThunk(i).t = "thunk" /\ Lazy!NewThunk(i).v \in Th'
    <3>1. DOMAIN b = delayed
      OBVIOUS
    <3> HIDE DEF b, delayed
    <3> QED
      BY <1>1, <2>1, <2>4, <3>1, Delays
  <2>6. Values(args, Th', Fr') /\ Len(args) = Len(exps)
    <3> DEFINE A == {Lazy!NewThunk(i) : i \in delayed} \cup {Lazy!Unset}
    <3>1. DOMAIN args = DOMAIN exps /\ \A i \in DOMAIN exps : args[i] \in A
      OBVIOUS
    <3>2. args = [i \in DOMAIN exps |-> args[i]]
      OBVIOUS
    <3>3. \A a \in A : OK(a, Th', Fr')
      <4>1. OK(Lazy!Unset, Th', Fr')
        BY OKPlain DEF Lazy!Unset
      <4>2. \A i \in delayed : OK(Lazy!NewThunk(i), Th', Fr')
        <5> HIDE DEF delayed
        <5> QED
          BY <2>5, OKThunk
      <4> QED
        BY <4>1, <4>2
    <3>4. args \in Seq(A) /\ Len(args) = Len(exps)
      <4>1. exps \in Seq(Expressions)
        BY <2>2
      <4> HIDE DEF args, A, exps, delayed
      <4> QED
        BY <4>1, <3>1, <3>2, Mapped, ZenonT(60)
    <3> HIDE DEF args, A
    <3> QED
      BY <3>3, <3>4 DEF Values
  <2>7. OK(val, Th', Fr') /\ StackOK(Lazy!Front(stack), Th', Fr') /\ in \in Envs(Fr')
    BY <1>1, <2>2, <2>5, OKGrows, StackGrows
  <2>8. Entry(x, Th', Fr')
    <3>1. /\ x.op = "operands" /\ x.proc = val /\ x.exps = exps /\ x.env = in
          /\ x.todo = todo /\ x.args = args
          /\ DOMAIN x = {"op", "proc", "exps", "env", "todo", "at", "args"}
      OBVIOUS
    <3>2. todo \subseteq DOMAIN exps
      OBVIOUS
    <3>3. val.t = "procedure" => Len(val.v.params) = Len(exps)
      BY <1>3
    <3> HIDE DEF x, args, todo
    <3> QED
      BY <2>2, <2>6, <2>7, <3>1, <3>2, <3>3 DEF Entry
  <2>9. StackOK(stack', Th', Fr') /\ stack' # <<>> /\ Lazy!Last(stack') = x /\ x.op = "operands"
    <3>1. x.op = "operands"
      OBVIOUS
    <3> HIDE DEF x
    <3>4. stack' # <<>> /\ Lazy!Last(stack') = x
      BY <1>1, <2>1, OnTop
    <3> QED
      BY <2>1, <2>7, <2>8, <3>1, <3>4, StackPushed
  <2>10. ApplyTyped'
    BY <2>9 DEF ApplyTyped, Lazy!Top
  <2> QED
    BY <2>1, <2>5, <2>7, <2>9, <2>10
    DEF Types, ValueTyped, StackTyped, EvalTyped, PromptTyped
<1> QED
  BY <1>2, <1>3

LEMMA OperandStep ==
    ASSUME Types, Lazy!Operand
    PROVE  Types'
<1>1. /\ stack # <<>> /\ Lazy!Top.op = "operands"
      /\ Entry(Lazy!Top, Th, Fr) /\ StackOK(Lazy!Front(stack), Th, Fr)
  BY StackPopped DEF Types, ApplyTyped, StackTyped, Lazy!Operand, Lazy!Top
<1> DEFINE top == Lazy!Top
<1>2. PICK i \in top.todo :
        /\ Lazy!Evaluate(top.exps[i], top.env)
        /\ stack' = Lazy!Front(stack) \o << [top EXCEPT !.todo = @ \ {i}, !.at = i], Lazy!Force >>
  BY DEF Lazy!Operand
<1>3. top.exps \in Seq(Expressions) /\ i \in DOMAIN top.exps /\ top.env \in Envs(Fr)
  BY <1>1, <1>2 DEF Entry
<1>4. top.exps[i] \in Expressions
  BY <1>3, Elements
<1> DEFINE x == [top EXCEPT !.todo = @ \ {i}, !.at = i]
<1>5. Entry(x, Th, Fr)
  <2>1. DOMAIN top = {"op", "proc", "exps", "env", "todo", "at", "args"}
    BY <1>1 DEF Entry
  <2>2. /\ x.op = "operands" /\ x.proc = top.proc /\ x.exps = top.exps /\ x.env = top.env
        /\ x.todo = top.todo \ {i} /\ x.args = top.args
        /\ DOMAIN x = {"op", "proc", "exps", "env", "todo", "at", "args"}
    BY <1>1, <2>1
  <2> HIDE DEF x
  <2> QED
    BY <1>1, <2>2 DEF Entry
<1> HIDE DEF x
<1>6. StackOK(stack', Th, Fr)
  BY <1>1, <1>2, <1>5, ForceEntry, StackPushed DEF x
<1>7. UNCHANGED <<frames, thunks>>
  BY DEF Lazy!Operand, Lazy!memory
<1> QED
  BY <1>2, <1>3, <1>4, <1>6, <1>7, EvaluatesOnly

LEMMA OperandDoneStep ==
    ASSUME Types, Lazy!OperandDone
    PROVE  Types'
<1>1. /\ Entry(Lazy!Top, Th, Fr) /\ Lazy!Top.op = "operands"
      /\ StackOK(Lazy!Front(stack), Th, Fr) /\ Memory /\ OK(val, Th, Fr)
  BY InReturn DEF Lazy!OperandDone
<1> DEFINE top == Lazy!Top
           args == [top.args EXCEPT ![top.at] = val]
           x == [top EXCEPT !.args[top.at] = val]
<1>2. /\ mode' = "apply" /\ stack' = Append(Lazy!Front(stack), x)
      /\ val' = val /\ frames' = frames /\ thunks' = thunks
  BY DEF Lazy!OperandDone, Lazy!memory
<1>3. Values(args, Th, Fr) /\ Len(args) = Len(top.args)
  <2>1. PICK s, n : s = top.args /\ n = top.at
    OBVIOUS
  <2>2. Values(s, Th, Fr) /\ OK(val, Th, Fr)
    BY <1>1, <2>1 DEF Entry
  <2>3. Values([s EXCEPT ![n] = val], Th, Fr) /\ Len([s EXCEPT ![n] = val]) = Len(s)
    BY <2>2, ValueChanged, ZenonT(60)
  <2> QED
    BY <2>1, <2>3
<1>4. /\ x.op = "operands" /\ x.proc = top.proc /\ x.exps = top.exps /\ x.env = top.env
      /\ x.todo = top.todo /\ x.args = args
      /\ DOMAIN x = {"op", "proc", "exps", "env", "todo", "at", "args"}
  <2>1. DOMAIN top = {"op", "proc", "exps", "env", "todo", "at", "args"}
    BY <1>1 DEF Entry
  <2> QED
    BY <1>1, <2>1
<1> HIDE DEF x, args
<1>5. Entry(x, Th, Fr)
  BY <1>1, <1>3, <1>4 DEF Entry
<1>6. StackOK(stack', Th, Fr) /\ stack' # <<>> /\ Lazy!Last(stack') = x
  <2>1. stack' # <<>> /\ Lazy!Last(stack') = x
    BY <1>1, <1>2, OnTop
  <2> QED
    BY <1>1, <1>2, <1>5, <2>1, StackPushed
<1>7. Memory' /\ Th' = Th /\ Fr' = Fr
  BY <1>1, <1>2, SameMemory
<1>8. ApplyTyped'
  BY <1>4, <1>6 DEF ApplyTyped, Lazy!Top
<1> QED
  BY <1>1, <1>2, <1>6, <1>7, <1>8
  DEF Types, ValueTyped, StackTyped, EvalTyped, PromptTyped

-----------------------------------------------------------------------------
(* Every step of the lazy evaluators keeps all of that.                    *)
LEMMA TypesInit == Lazy!Init => Types
<1> SUFFICES ASSUME Lazy!Init PROVE Types
  OBVIOUS
<1> DEFINE g == Lazy!Globals(Lazy!Primitives)
<1>1. /\ frames = <<g>> /\ thunks = <<>> /\ stack = <<>> /\ mode = "prompt" /\ val = Lazy!Ok
  BY DEF Lazy!Init
<1>2. Fr = 1 /\ Fr \in Nat /\ Fr >= 1
  BY <1>1 DEF Fr
<1>3. Variables(g, Th, Fr)
  <2> SUFFICES ASSUME NEW n \in DOMAIN g PROVE OK(g[n], Th, Fr)
    BY DEF Variables
  <2>1. CASE n \in Lazy!Primitives
    BY <2>1, OKPrimitive DEF Lazy!Globals
  <2>2. CASE n \notin Lazy!Primitives
    <3>1. g[n] = Lazy!Bool(n = "true")
      BY <2>2 DEF Lazy!Globals
    <3>2. Lazy!Bool(n = "true").t = "bool"
      BY DEF Lazy!Bool
    <3> QED
      BY <3>1, <3>2, OKPlain
  <2> QED
    BY <2>1, <2>2
<1>4. FramesOK(frames, Th, Fr)
  <2> HIDE DEF g
  <2> QED
    BY <1>1, <1>3, FirstFrame
<1>5. ThunksOK(thunks, Th, Fr) /\ StackOK(stack, Th, Fr)
  <2> HIDE DEF g
  <2>1. PICK A : A = {}
    OBVIOUS
  <2>2. <<>> \in Seq(A) /\ \A x : x \notin A
    BY <2>1
  <2>3. ThunksOK(<<>>, Th, Fr)
    BY <2>2 DEF ThunksOK
  <2>4. StackOK(<<>>, Th, Fr)
    BY <2>2 DEF StackOK
  <2> QED
    BY <1>1, <2>3, <2>4
<1>6. OK(val, Th, Fr)
  BY <1>1, OKPlain DEF Lazy!Ok
<1> QED
  BY <1>1, <1>2, <1>4, <1>5, <1>6
  DEF Types, Memory, ValueTyped, StackTyped, EvalTyped, ApplyTyped, PromptTyped

LEMMA TypesStep == Types /\ Lazy!Next => Types'
<1> SUFFICES ASSUME Types, Lazy!Next PROVE Types'
  OBVIOUS
<1>1. CASE Lazy!Driver
  BY <1>1, ReadStep, AnswerStep DEF Lazy!Driver
<1>2. CASE Lazy!Eval
  BY <1>2, ConstantStep, VariableStep, LambdaStep, QuotationStep, IfStep, BeginStep,
     DefineOrSetStep, ApplicationStep DEF Lazy!Eval
<1>3. CASE Lazy!Continue
  BY <1>3, ForcedStep, ForceThunkStep, MemoizeStep, ChosenStep, SequencedStep, DefinedStep,
     AssignedStep, ArgumentsStep, OperandStep, OperandDoneStep, ApplyPrimitiveStep,
     ApplyCompoundStep DEF Lazy!Continue
<1> QED
  BY <1>1, <1>2, <1>3 DEF Lazy!Next

-----------------------------------------------------------------------------
(* The thunks whose evaluation is under way.                               *)
Memos(st) == {st[i].thunk : i \in {j \in DOMAIN st : st[j].op = "memo"}}
Memo(x) == IF x.op = "memo" THEN {x.thunk} ELSE {}

LEMMA MemosPushed ==
    ASSUME NEW A, NEW st \in Seq(A), NEW x
    PROVE  Memos(Append(st, x)) = Memos(st) \cup Memo(x)
<1> DEFINE n == Len(st)
           new == Append(st, x)
<1>1. /\ n \in Nat /\ DOMAIN st = 1 .. n /\ DOMAIN new = 1 .. n + 1
      /\ \A i \in 1 .. n : new[i] = st[i]
      /\ new[n + 1] = x
  OBVIOUS
<1>2. DOMAIN new = DOMAIN st \cup {n + 1} /\ \A i \in DOMAIN st : new[i] = st[i]
  BY <1>1
<1> HIDE DEF new
<1>3. Memos(new) = Memos(st) \cup Memo(x)
  BY <1>1, <1>2 DEF Memos, Memo
<1> QED
  BY <1>3 DEF new

Grown(st, x, y) == /\ Memos(st \o <<x>>) = Memos(st) \cup Memo(x)
                   /\ Memos(st \o <<x, y>>) = Memos(st) \cup Memo(x) \cup Memo(y)
LEMMA MemosGrow ==
    ASSUME NEW A, NEW st \in Seq(A), NEW x, NEW y
    PROVE  Grown(st, x, y)
<1> DEFINE X == A \cup {x, y}
<1>1. st \in Seq(X) /\ x \in X /\ y \in X
  BY SeqGrows
<1> HIDE DEF X
<1>2. /\ st \o <<x>> = Append(st, x) /\ Append(st, x) \in Seq(X)
      /\ st \o <<x, y>> = Append(Append(st, x), y)
  BY <1>1
<1>3. /\ Memos(Append(st, x)) = Memos(st) \cup Memo(x)
      /\ Memos(Append(Append(st, x), y)) = Memos(Append(st, x)) \cup Memo(y)
  BY <1>1, <1>2, MemosPushed
<1> QED
  BY <1>2, <1>3 DEF Grown

LEMMA MemosPopped ==
    ASSUME NEW A, NEW st \in Seq(A), st # <<>>
    PROVE  Memos(st) = Memos(Lazy!Front(st)) \cup Memo(Lazy!Last(st))
<1>1. /\ Lazy!Front(st) \in Seq(A) /\ Lazy!Last(st) \in A
      /\ Len(st) \in Nat /\ Len(st) >= 1 /\ Lazy!Last(st) = st[Len(st)]
      /\ Len(Lazy!Front(st)) = Len(st) - 1
      /\ \A i \in 1 .. Len(st) - 1 : Lazy!Front(st)[i] = st[i]
  BY Popped
<1>2. PICK f, x : f = Lazy!Front(st) /\ x = Lazy!Last(st)
  OBVIOUS
<1>3. st = Append(f, x)
  BY <1>1, <1>2
<1> QED
  BY <1>1, <1>2, <1>3, MemosPushed

(* A step that leaves the thunks, their counts and those under way alone.  *)
Quiet == UNCHANGED <<thunks, started, reentered>> /\ Memos(stack') = Memos(stack)

LEMMA QuietPush ==
    ASSUME StackTyped, UNCHANGED <<thunks, started, reentered>>, NEW x, x.op # "memo",
           stack' = stack \o <<x>> \/ stack' = stack \o <<x, Lazy!Force>>
    PROVE  Quiet
<1>1. PICK A : stack \in Seq(A)
  BY DEF StackTyped, StackOK
<1>2. Memo(x) = {} /\ Memo(Lazy!Force) = {}
  BY DEF Memo, Lazy!Force
<1>3. Grown(stack, x, Lazy!Force)
  BY <1>1, MemosGrow, ZenonT(60)
<1>4. /\ Memos(stack \o <<x>>) = Memos(stack)
      /\ Memos(stack \o <<x, Lazy!Force>>) = Memos(stack)
  BY <1>2, <1>3 DEF Grown
<1> QED
  BY <1>4 DEF Quiet

LEMMA QuietPop ==
    ASSUME StackTyped, UNCHANGED <<thunks, started, reentered>>,
           stack # <<>>, Lazy!Top.op # "memo", stack' = Lazy!Front(stack)
    PROVE  Quiet
<1>1. PICK A : stack \in Seq(A)
  BY DEF StackTyped, StackOK
<1>2. Memo(Lazy!Last(stack)) = {}
  BY DEF Memo, Lazy!Top
<1> QED
  BY <1>1, <1>2, MemosPopped DEF Quiet

LEMMA Replacing ==
    ASSUME StackTyped, stack # <<>>, Lazy!Top.op # "memo", NEW x, x.op # "memo",
           \/ stack' = Append(Lazy!Front(stack), x)
           \/ stack' = Lazy!Front(stack) \o <<x, Lazy!Force>>
    PROVE  Memos(stack') = Memos(stack)
<1>1. PICK A : stack \in Seq(A)
  BY DEF StackTyped, StackOK
<1>2. Memo(Lazy!Last(stack)) = {} /\ Memo(x) = {} /\ Memo(Lazy!Force) = {}
  BY DEF Memo, Lazy!Top, Lazy!Force
<1>3. Memos(stack) = Memos(Lazy!Front(stack)) /\ Lazy!Front(stack) \in Seq(A)
  BY <1>1, <1>2, MemosPopped, Popped
<1> DEFINE f == Lazy!Front(stack)
<1>4. Memos(Append(f, x)) = Memos(f) \cup Memo(x) /\ Grown(f, x, Lazy!Force)
  BY <1>3, MemosPushed, MemosGrow, ZenonT(60)
<1>5. Memos(Append(f, x)) = Memos(stack) /\ Memos(f \o <<x, Lazy!Force>>) = Memos(stack)
  BY <1>2, <1>3, <1>4 DEF Grown
<1> QED
  BY <1>5

LEMMA QuietError ==
    ASSUME Lazy!Error
    PROVE  Quiet
  BY DEF Quiet, Lazy!Error, Lazy!memory, Lazy!history

LEMMA DriverQuiet ==
    ASSUME Types, \/ mode = "prompt" /\ \E e \in Expressions : Lazy!Read(e)
                  \/ Lazy!Answer
    PROVE  Quiet
<1>1. ASSUME mode = "prompt", NEW e \in Expressions, Lazy!Read(e) PROVE Quiet
  <2>1. stack = <<>> /\ stack' = <<Lazy!Force>> /\ UNCHANGED <<thunks, started, reentered>>
    BY <1>1 DEF Types, PromptTyped, Lazy!Read
  <2>2. Lazy!Force.op # "memo"
    BY DEF Lazy!Force
  <2>3. stack' = stack \o <<Lazy!Force>>
    BY <2>1
  <2> QED
    BY <2>1, <2>2, <2>3, QuietPush DEF Types
<1>2. CASE Lazy!Answer
  BY <1>2, QuietError DEF Lazy!Answer, Quiet, Lazy!memory, Lazy!history
<1> QED
  BY <1>1, <1>2

LEMMA EvalQuiet ==
    ASSUME Types, \/ Lazy!Constant \/ Lazy!Variable \/ Lazy!Lambda \/ Lazy!If \/ Lazy!Begin
                  \/ Lazy!DefineOrSet \/ Lazy!Application
    PROVE  Quiet
<1>0. StackTyped
  BY DEF Types
<1>1. CASE Lazy!Constant \/ Lazy!Lambda
  BY <1>1 DEF Lazy!Constant, Lazy!Lambda, Quiet, Lazy!memory, Lazy!history
<1>2. CASE Lazy!Variable
  BY <1>2, QuietError DEF Lazy!Variable, Quiet, Lazy!memory, Lazy!history
<1>3. CASE Lazy!If
  <2> DEFINE x == [op |-> "if", yes |-> exp.yes, no |-> exp.no, env |-> env]
  <2>1. /\ x.op # "memo" /\ stack' = stack \o <<x, Lazy!Force>>
        /\ UNCHANGED <<thunks, started, reentered>>
    BY <1>3 DEF Lazy!If, Lazy!Then, Lazy!memory, Lazy!history
  <2> HIDE DEF x
  <2> QED
    BY <1>0, <2>1, QuietPush
<1>4. CASE Lazy!Begin
  <2> DEFINE x == [op |-> "begin", exps |-> Tail(exp.exps), env |-> env]
  <2>1. /\ x.op # "memo" /\ (stack' = stack \/ stack' = stack \o <<x>>)
        /\ UNCHANGED <<thunks, started, reentered>>
    BY <1>4 DEF Lazy!Begin, Lazy!Then, Lazy!memory, Lazy!history
  <2> HIDE DEF x
  <2> QED
    BY <1>0, <2>1, QuietPush DEF Quiet
<1>5. CASE Lazy!DefineOrSet
  <2> DEFINE x == [op |-> exp.op, name |-> exp.name, env |-> env]
  <2>1. /\ x.op # "memo" /\ stack' = stack \o <<x>>
        /\ UNCHANGED <<thunks, started, reentered>>
    BY <1>5 DEF Lazy!DefineOrSet, Lazy!Evaluating, Lazy!Then, Lazy!memory, Lazy!history
  <2> HIDE DEF x
  <2> QED
    BY <1>0, <2>1, QuietPush
<1>6. CASE Lazy!Application
  <2> DEFINE x == [op |-> "operator", exps |-> Tail(exp.exps), env |-> env]
  <2>1. /\ x.op # "memo" /\ stack' = stack \o <<x, Lazy!Force>>
        /\ UNCHANGED <<thunks, started, reentered>>
    BY <1>6 DEF Lazy!Application, Lazy!Then, Lazy!memory, Lazy!history
  <2> HIDE DEF x
  <2> QED
    BY <1>0, <2>1, QuietPush
<1> QED
  BY <1>1, <1>2, <1>3, <1>4, <1>5, <1>6

LEMMA ContinueQuiet ==
    ASSUME Types, \/ Lazy!Forced \/ Lazy!Chosen \/ Lazy!Sequenced \/ Lazy!Defined
                  \/ Lazy!Assigned \/ Lazy!Operand \/ Lazy!OperandDone
                  \/ Lazy!ApplyPrimitive \/ Lazy!ApplyCompound
    PROVE  Quiet
<1>0. StackTyped
  BY DEF Types
<1>1. CASE Lazy!Forced \/ Lazy!Chosen \/ Lazy!Defined
  <2>1. /\ stack # <<>> /\ Lazy!Top.op # "memo" /\ stack' = Lazy!Front(stack)
        /\ UNCHANGED <<thunks, started, reentered>>
    BY <1>1 DEF Lazy!Forced, Lazy!Chosen, Lazy!Defined, Lazy!Returning, Lazy!Drop, Lazy!memory,
                Lazy!history
  <2> QED
    BY <1>0, <2>1, QuietPop
<1>2. CASE Lazy!Sequenced
  <2>1. /\ stack # <<>> /\ Lazy!Top.op = "begin" /\ Entry(Lazy!Top, Th, Fr)
    BY <1>2, InReturn DEF Lazy!Sequenced
  <2> DEFINE x == [Lazy!Top EXCEPT !.exps = Tail(@)]
  <2>2. DOMAIN Lazy!Top = {"op", "exps", "env"}
    BY <2>1 DEF Entry
  <2>3. x.op # "memo"
    BY <2>1, <2>2
  <2>4. /\ UNCHANGED <<thunks, started, reentered>>
        /\ stack' = Lazy!Front(stack) \/ stack' = Append(Lazy!Front(stack), x)
    BY <1>2 DEF Lazy!Sequenced, Lazy!memory, Lazy!history
  <2>5. Lazy!Top.op # "memo"
    BY <2>1
  <2> HIDE DEF x
  <2> QED
    BY <1>0, <2>1, <2>3, <2>4, <2>5, QuietPop, Replacing DEF Quiet
<1>3. CASE Lazy!Assigned
  <2>1. /\ stack # <<>> /\ Lazy!Top.op # "memo"
    BY <1>3 DEF Lazy!Assigned, Lazy!Returning
  <2>2. \/ Lazy!Error
        \/ stack' = Lazy!Front(stack) /\ UNCHANGED <<thunks, started, reentered>>
    BY <1>3 DEF Lazy!Assigned, Lazy!Drop
  <2> QED
    BY <1>0, <2>1, <2>2, QuietPop, QuietError
<1>4. CASE Lazy!Operand
  <2>1. /\ stack # <<>> /\ Lazy!Top.op = "operands" /\ Entry(Lazy!Top, Th, Fr)
    BY <1>4, StackPopped DEF Types, ApplyTyped, StackTyped, Lazy!Operand, Lazy!Top
  <2>2. PICK i : stack' = Lazy!Front(stack)
                    \o << [Lazy!Top EXCEPT !.todo = @ \ {i}, !.at = i], Lazy!Force >>
    BY <1>4 DEF Lazy!Operand
  <2> DEFINE x == [Lazy!Top EXCEPT !.todo = @ \ {i}, !.at = i]
  <2>3. DOMAIN Lazy!Top = {"op", "proc", "exps", "env", "todo", "at", "args"}
    BY <2>1 DEF Entry
  <2>4. x.op # "memo" /\ Lazy!Top.op # "memo"
    BY <2>1, <2>3
  <2>5. UNCHANGED <<thunks, started, reentered>> /\ stack' = Lazy!Front(stack) \o <<x, Lazy!Force>>
    BY <1>4, <2>2 DEF Lazy!Operand, Lazy!memory, Lazy!history
  <2> HIDE DEF x
  <2> QED
    BY <1>0, <2>1, <2>4, <2>5, Replacing DEF Quiet
<1>5. CASE Lazy!OperandDone
  <2>1. /\ stack # <<>> /\ Lazy!Top.op = "operands" /\ Entry(Lazy!Top, Th, Fr)
    BY <1>5, InReturn DEF Lazy!OperandDone
  <2> DEFINE x == [Lazy!Top EXCEPT !.args[Lazy!Top.at] = val]
  <2>2. DOMAIN Lazy!Top = {"op", "proc", "exps", "env", "todo", "at", "args"}
    BY <2>1 DEF Entry
  <2>3. x.op # "memo" /\ Lazy!Top.op # "memo"
    BY <2>1, <2>2
  <2>4. UNCHANGED <<thunks, started, reentered>> /\ stack' = Append(Lazy!Front(stack), x)
    BY <1>5 DEF Lazy!OperandDone, Lazy!memory, Lazy!history
  <2> HIDE DEF x
  <2> QED
    BY <1>0, <2>1, <2>3, <2>4, Replacing DEF Quiet
<1>6. CASE Lazy!ApplyPrimitive \/ Lazy!ApplyCompound
  <2>1. stack # <<>> /\ Lazy!Top.op = "operands"
    BY <1>6 DEF Types, ApplyTyped, Lazy!ApplyPrimitive, Lazy!ApplyCompound, Lazy!Applying
  <2>2. \/ Lazy!Error
        \/ stack' = Lazy!Front(stack) /\ UNCHANGED <<thunks, started, reentered>>
    BY <1>6 DEF Lazy!ApplyPrimitive, Lazy!ApplyCompound, Lazy!Drop, Lazy!memory, Lazy!history
  <2>3. Lazy!Top.op # "memo"
    BY <2>1
  <2> QED
    BY <1>0, <2>1, <2>2, <2>3, QuietPop, QuietError
<1> QED
  BY <1>1, <1>2, <1>3, <1>4, <1>5, <1>6

-----------------------------------------------------------------------------
(* How often each thunk's evaluation has begun.  One that is memoized is   *)
(* untouched, under way or evaluated, and only one that was forced while   *)
(* it was under way has been begun twice.                                  *)
Times(k) == started[k[1]][k[2]]

Counted ==
    /\ \E A : started \in Seq(A)
    /\ Len(started) = Len(thunks)
    /\ \A n \in DOMAIN thunks : DOMAIN started[n] = DOMAIN thunks[n]
    /\ \A k \in Th : Times(k) \in Nat

Begun(k) ==
    /\ Times(k) > 0 => Lazy!Thunk(k).state = "evaluated" \/ k \in Memos(stack)
    /\ Lazy!Thunk(k).state = "evaluated" => Times(k) > 0
    /\ Times(k) > 1 => k \in reentered

Progress ==
    /\ \A k \in Memos(stack) : k \in Th /\ Lazy!Thunk(k).state # "lazy" /\ Times(k) > 0
    /\ \A k \in Th : Lazy!Thunk(k).state # "lazy" => Begun(k)

Counts == Counted /\ Progress

LEMMA CountsInit == Lazy!Init => Counts
<1> SUFFICES ASSUME Lazy!Init PROVE Counts
  OBVIOUS
<1>1. thunks = <<>> /\ started = <<>> /\ stack = <<>>
  BY DEF Lazy!Init
<1>2. Th = {} /\ Memos(stack) = {}
  BY <1>1 DEF Th, Ids, Memos
<1> QED
  BY <1>1, <1>2 DEF Counts, Counted, Progress

LEMMA QuietCounts ==
    ASSUME Counts, Quiet
    PROVE  Counts'
<1>1. Th' = Th /\ (\A k : Times(k)' = Times(k) /\ Lazy!Thunk(k)' = Lazy!Thunk(k))
  BY DEF Quiet, Th, Times, Lazy!Thunk
<1>2. \A k : Begun(k) => Begun(k)'
  BY <1>1 DEF Quiet, Begun
<1> QED
  BY <1>1, <1>2 DEF Counts, Counted, Progress, Quiet

LEMMA Appended ==
    ASSUME NEW A, NEW s \in Seq(A), NEW x
    PROVE  /\ Append(s, x) \in Seq(A \cup {x})
           /\ Len(s) \in Nat /\ Len(Append(s, x)) = Len(s) + 1
           /\ DOMAIN s = 1 .. Len(s) /\ Len(s) + 1 \notin DOMAIN s
           /\ DOMAIN Append(s, x) = DOMAIN s \cup {Len(s) + 1}
           /\ \A i \in DOMAIN s : Append(s, x)[i] = s[i]
           /\ Append(s, x)[Len(s) + 1] = x
<1>1. s \in Seq(A \cup {x})
  BY SeqGrows
<1>2. PICK B : B = A \cup {x}
  OBVIOUS
<1>3. s \in Seq(B) /\ x \in B
  BY <1>1, <1>2
<1>4. PICK n \in Nat : n = Len(s)
  OBVIOUS
<1>5. /\ Append(s, x) \in Seq(B) /\ Len(Append(s, x)) = n + 1
      /\ DOMAIN s = 1 .. n /\ DOMAIN Append(s, x) = 1 .. n + 1
      /\ \A i \in 1 .. n : Append(s, x)[i] = s[i]
      /\ Append(s, x)[n + 1] = x
  BY <1>3, <1>4
<1>6. 1 .. n + 1 = (1 .. n) \cup {n + 1} /\ n + 1 \notin 1 .. n
  OBVIOUS
<1> QED
  BY <1>2, <1>4, <1>5, <1>6

LEMMA DelayCounts ==
    ASSUME Types, Counts, NEW b, Lazy!Delay(b), \A i \in DOMAIN b : b[i].state # "evaluated",
           reentered' = reentered, Memos(stack') = Memos(stack)
    PROVE  Counts'
<1> DEFINE zeros == [i \in DOMAIN b |-> 0]
           n == Len(thunks) + 1
<1>1. thunks' = Append(thunks, b) /\ started' = Append(started, zeros)
  BY DEF Lazy!Delay
<1>2. PICK A : thunks \in Seq(A)
  BY DEF Types, Memory, ThunksOK
<1>3. PICK B : started \in Seq(B)
  BY DEF Counts, Counted
<1>4. DOMAIN zeros = DOMAIN b /\ \A i \in DOMAIN b : zeros[i] = 0
  OBVIOUS
<1> HIDE DEF zeros
<1>5. /\ DOMAIN thunks' = DOMAIN thunks \cup {n} /\ n \notin DOMAIN thunks
      /\ \A i \in DOMAIN thunks : thunks'[i] = thunks[i]
      /\ thunks'[n] = b /\ Len(thunks') = n
  BY <1>1, <1>2, Appended
<1>6. /\ started' \in Seq(B \cup {zeros}) /\ Len(started') = Len(started) + 1
      /\ \A i \in DOMAIN started : started'[i] = started[i]
      /\ DOMAIN started = 1 .. Len(started)
      /\ started'[Len(started) + 1] = zeros
  BY <1>1, <1>3, Appended
<1>7. DOMAIN thunks = 1 .. Len(thunks)
  BY <1>2, Appended
<1>8. /\ Len(started') = n /\ started'[n] = zeros
      /\ \A i \in DOMAIN thunks : started'[i] = started[i]
  BY <1>6, <1>7 DEF Counts, Counted
<1> HIDE DEF n
<1>9. \A k \in Th' : \/ k \in Th /\ Lazy!Thunk(k)' = Lazy!Thunk(k) /\ Times(k)' = Times(k)
                     \/ k \notin Th /\ Lazy!Thunk(k)'.state # "evaluated" /\ Times(k)' = 0
  <2> SUFFICES ASSUME NEW k \in Th'
               PROVE  \/ k \in Th /\ Lazy!Thunk(k)' = Lazy!Thunk(k) /\ Times(k)' = Times(k)
                      \/ k \notin Th /\ Lazy!Thunk(k)'.state # "evaluated" /\ Times(k)' = 0
    OBVIOUS
  <2>0. PICK m \in DOMAIN thunks' : k \in {m} \X DOMAIN thunks'[m]
    BY DEF Th, Ids
  <2>1. PICK i \in DOMAIN thunks'[m] : k = <<m, i>>
    BY <2>0
  <2>2. CASE m = n
    <3>1. Lazy!Thunk(k)' = b[i] /\ Times(k)' = 0 /\ i \in DOMAIN b
      BY <1>4, <1>5, <1>8, <2>1, <2>2 DEF Lazy!Thunk, Times
    <3>2. k \notin Th
      BY <1>5, <2>1, <2>2 DEF Th, Ids
    <3> QED
      BY <3>1, <3>2
  <2>3. CASE m # n
    <3>1. m \in DOMAIN thunks /\ thunks'[m] = thunks[m] /\ started'[m] = started[m]
      BY <1>5, <1>8, <2>3
    <3>2. k \in Th
      BY <2>1, <3>1 DEF Th, Ids
    <3> QED
      BY <2>1, <3>1, <3>2 DEF Lazy!Thunk, Times
  <2> QED
    BY <2>2, <2>3
<1>10. Th \subseteq Th'
  BY <1>5 DEF Th, Ids
<1>11. Counted'
  <2>1. \A m \in DOMAIN thunks' : DOMAIN started'[m] = DOMAIN thunks'[m]
    BY <1>4, <1>5, <1>8 DEF Counts, Counted
  <2>2. \A k \in Th' : Times(k)' \in Nat
    BY <1>9 DEF Counts, Counted
  <2> QED
    BY <1>5, <1>6, <1>8, <2>1, <2>2 DEF Counted
<1>12. Progress'
  <2>1. \A k \in Memos(stack)' : k \in Th' /\ Lazy!Thunk(k)'.state # "lazy" /\ Times(k)' > 0
    <3> SUFFICES ASSUME NEW k \in Memos(stack)'
                 PROVE  k \in Th' /\ Lazy!Thunk(k)'.state # "lazy" /\ Times(k)' > 0
      OBVIOUS
    <3>1. k \in Th /\ Lazy!Thunk(k).state # "lazy" /\ Times(k) > 0
      BY DEF Counts, Progress
    <3> QED
      BY <1>9, <1>10, <3>1
  <2>2. \A k \in Th' : Lazy!Thunk(k)'.state # "lazy" => Begun(k)'
    <3> SUFFICES ASSUME NEW k \in Th', Lazy!Thunk(k)'.state # "lazy" PROVE Begun(k)'
      OBVIOUS
    <3>1. CASE k \in Th
      <4>1. Lazy!Thunk(k)' = Lazy!Thunk(k) /\ Times(k)' = Times(k)
        BY <1>9, <3>1
      <4>2. Begun(k)
        BY <3>1, <4>1 DEF Counts, Progress
      <4> QED
        BY <4>1, <4>2 DEF Begun
    <3>2. CASE k \notin Th
      <4>1. Lazy!Thunk(k)'.state # "evaluated" /\ Times(k)' = 0
        BY <1>9, <3>2
      <4> QED
        BY <4>1 DEF Begun
    <3> QED
      BY <3>1, <3>2
  <2> QED
    BY <2>1, <2>2 DEF Progress
<1> QED
  BY <1>11, <1>12 DEF Counts

LEMMA Changed ==
    ASSUME NEW A, NEW s \in Seq(A), NEW n \in DOMAIN s, NEW i \in DOMAIN s[n], NEW v
    PROVE  LET new == [s EXCEPT ![n][i] = v]
           IN  /\ \E B : new \in Seq(B)
               /\ Len(new) = Len(s) /\ DOMAIN new = DOMAIN s
               /\ \A m \in DOMAIN s : DOMAIN new[m] = DOMAIN s[m]
               /\ new[n][i] = v
               /\ \A m \in DOMAIN s : \A j \in DOMAIN s[m] :
                     <<m, j>> # <<n, i>> => new[m][j] = s[m][j]
<1> DEFINE b == [s[n] EXCEPT ![i] = v]
           new == [s EXCEPT ![n] = b]
           X == A \cup {b}
<1>1. [s EXCEPT ![n][i] = v] = new
  OBVIOUS
<1>2. /\ DOMAIN b = DOMAIN s[n] /\ b[i] = v
      /\ \A j \in DOMAIN s[n] : j # i => b[j] = s[n][j]
  OBVIOUS
<1>3. s \in Seq(X) /\ b \in X
  BY SeqGrows
<1> HIDE DEF X, b
<1>4. /\ new \in Seq(X) /\ DOMAIN new = DOMAIN s /\ Len(new) = Len(s)
      /\ \A j \in DOMAIN s : new[j] = IF j = n THEN b ELSE s[j]
  BY <1>3, Replaced
<1> HIDE DEF new
<1>5. \A m \in DOMAIN s : DOMAIN new[m] = DOMAIN s[m]
  BY <1>2, <1>4
<1>6. \A m \in DOMAIN s : \A j \in DOMAIN s[m] : <<m, j>> # <<n, i>> => new[m][j] = s[m][j]
  BY <1>2, <1>4
<1>7. new[n][i] = v
  BY <1>2, <1>4
<1> QED
  BY <1>1, <1>4, <1>5, <1>6, <1>7

LEMMA PairOf ==
    ASSUME NEW k \in Th
    PROVE  /\ k = <<k[1], k[2]>> /\ k[1] \in DOMAIN thunks /\ k[2] \in DOMAIN thunks[k[1]]
           /\ \A j \in Th : j # k => <<j[1], j[2]>> # <<k[1], k[2]>>
  BY DEF Th, Ids

LEMMA LengthsAgree ==
    ASSUME NEW A, NEW s \in Seq(A), NEW B, NEW r \in Seq(B), Len(s) = Len(r)
    PROVE  DOMAIN s = DOMAIN r
  OBVIOUS

LEMMA ForceThunkCounts ==
    ASSUME Types, Counts, Lazy!ForceThunk
    PROVE  Counts'
<1>0. PICK k : k = val.v
  OBVIOUS
<1> DEFINE new == [started EXCEPT ![k[1]][k[2]] = started[k[1]][k[2]] + 1]
<1>1. /\ stack # <<>> /\ Lazy!Top.op = "force" /\ val.t = "thunk" /\ thunks' = thunks
      /\ Lazy!Thunk(k).state # "evaluated" /\ started' = new
      /\ stack' = IF Lazy!Thunk(k).state = "lazy" THEN stack
                  ELSE Lazy!Front(stack) \o << [op |-> "memo", thunk |-> k], Lazy!Force >>
      /\ reentered' = IF k \in Memos(stack) THEN reentered \cup {k} ELSE reentered
  BY <1>0 DEF Lazy!ForceThunk, Lazy!Returning, Lazy!UnderWay, Memos
<1>2. PICK A : stack \in Seq(A)
  BY DEF Types, StackTyped, StackOK
<1>3. k \in Th
  BY <1>0, <1>1, OfThunk DEF Types, ValueTyped
<1>4. /\ k = <<k[1], k[2]>> /\ k[1] \in DOMAIN thunks /\ k[2] \in DOMAIN thunks[k[1]]
      /\ \A j \in Th : j # k => <<j[1], j[2]>> # <<k[1], k[2]>>
  BY <1>3, PairOf
<1>5. PICK B : started \in Seq(B)
  BY DEF Counts, Counted
<1>6. DOMAIN started = DOMAIN thunks /\ \A n \in DOMAIN thunks : DOMAIN started[n] = DOMAIN thunks[n]
  <2>1. PICK C : thunks \in Seq(C)
    BY DEF Types, Memory, ThunksOK
  <2>2. DOMAIN started = DOMAIN thunks
    BY <1>5, <2>1, LengthsAgree DEF Counts, Counted
  <2> QED
    BY <2>2 DEF Counts, Counted
<1>7. /\ \E X : new \in Seq(X)
      /\ Len(new) = Len(started)
      /\ \A m \in DOMAIN started : DOMAIN new[m] = DOMAIN started[m]
      /\ new[k[1]][k[2]] = started[k[1]][k[2]] + 1
      /\ \A m \in DOMAIN started : \A j \in DOMAIN started[m] :
            <<m, j>> # <<k[1], k[2]>> => new[m][j] = started[m][j]
  BY <1>4, <1>5, <1>6, Changed
<1> HIDE DEF new
<1>8. Th' = Th /\ (\A j : Lazy!Thunk(j)' = Lazy!Thunk(j))
  BY <1>1 DEF Th, Lazy!Thunk
<1>9. Times(k)' = Times(k) + 1 /\ \A j \in Th : j # k => Times(j)' = Times(j)
  <2>1. Times(k)' = Times(k) + 1
    BY <1>1, <1>7 DEF Times
  <2>2. ASSUME NEW j \in Th, j # k PROVE Times(j)' = Times(j)
    <3>1. j[1] \in DOMAIN started /\ j[2] \in DOMAIN started[j[1]]
      BY <1>6, PairOf
    <3> QED
      BY <1>1, <1>4, <1>7, <2>2, <3>1 DEF Times
  <2> QED
    BY <2>1, <2>2
<1>10. \A j \in Th : Times(j) \in Nat
  BY DEF Counts, Counted
<1>11. Memos(stack') = IF Lazy!Thunk(k).state = "lazy" THEN Memos(stack) ELSE Memos(stack) \cup {k}
  <2>1. Memos(stack) = Memos(Lazy!Front(stack)) /\ Lazy!Front(stack) \in Seq(A)
    <3>1. Memo(Lazy!Last(stack)) = {}
      BY <1>1 DEF Memo, Lazy!Top
    <3> QED
      BY <1>1, <1>2, <3>1, MemosPopped, Popped
  <2> DEFINE x == [op |-> "memo", thunk |-> k]
  <2>2. Memo(x) = {k} /\ Memo(Lazy!Force) = {}
    BY DEF Memo, Lazy!Force
  <2>3. stack' = IF Lazy!Thunk(k).state = "lazy" THEN stack
                 ELSE Lazy!Front(stack) \o << x, Lazy!Force >>
    BY <1>1
  <2> HIDE DEF x
  <2>4. Memos(Lazy!Front(stack) \o <<x, Lazy!Force>>) = Memos(stack) \cup {k}
    <3>1. Grown(Lazy!Front(stack), x, Lazy!Force)
      BY <2>1, MemosGrow, ZenonT(60)
    <3> QED
      BY <2>1, <2>2, <3>1 DEF Grown
  <2> QED
    BY <2>3, <2>4
<1>12. Counted'
  <2>1. \A j \in Th : Times(j)' \in Nat
    BY <1>9, <1>10
  <2>2. \A n \in DOMAIN thunks : DOMAIN started'[n] = DOMAIN thunks[n]
    BY <1>1, <1>6, <1>7
  <2> QED
    BY <1>1, <1>7, <1>8, <2>1, <2>2 DEF Counts, Counted
<1>13. \A j \in Memos(stack') : j \in Th /\ Lazy!Thunk(j).state # "lazy" /\ Times(j)' > 0
  <2> SUFFICES ASSUME NEW j \in Memos(stack')
               PROVE  j \in Th /\ Lazy!Thunk(j).state # "lazy" /\ Times(j)' > 0
    OBVIOUS
  <2>1. CASE j = k /\ Lazy!Thunk(k).state # "lazy"
    BY <1>3, <1>9, <1>10, <2>1
  <2>2. CASE ~(j = k /\ Lazy!Thunk(k).state # "lazy")
    <3>1. j \in Memos(stack)
      BY <1>11, <2>2
    <3>2. j \in Th /\ Lazy!Thunk(j).state # "lazy" /\ Times(j) > 0
      BY <3>1 DEF Counts, Progress
    <3> QED
      BY <1>9, <1>10, <2>2, <3>2
  <2> QED
    BY <2>1, <2>2
<1>14. ASSUME NEW j \in Th, Lazy!Thunk(j).state # "lazy"
       PROVE  /\ Times(j)' > 0 => Lazy!Thunk(j).state = "evaluated" \/ j \in Memos(stack')
              /\ Lazy!Thunk(j).state = "evaluated" => Times(j)' > 0
              /\ Times(j)' > 1 => j \in reentered'
  <2>1. Begun(j)
    BY <1>14 DEF Counts, Progress
  <2>2. CASE j = k
    <3>1. j \in Memos(stack') /\ Lazy!Thunk(j).state # "evaluated"
      BY <1>1, <1>11, <1>14, <2>2
    <3>2. Times(j)' > 1 => Times(j) > 0
      BY <1>9, <1>10, <2>2
    <3>3. Times(j) > 0 => j \in Memos(stack)
      BY <2>1, <3>1 DEF Begun
    <3>4. j \in Memos(stack) => j \in reentered'
      BY <1>1, <2>2
    <3> QED
      BY <3>1, <3>2, <3>3, <3>4
  <2>3. CASE j # k
    <3>1. Times(j)' = Times(j)
      BY <1>9, <2>3
    <3>2. Memos(stack) \subseteq Memos(stack') /\ reentered \subseteq reentered'
      BY <1>1, <1>11
    <3> QED
      BY <2>1, <3>1, <3>2 DEF Begun
  <2> QED
    BY <2>2, <2>3
<1>15. Progress'
  BY <1>8, <1>13, <1>14 DEF Progress, Begun
<1> QED
  BY <1>12, <1>15 DEF Counts

LEMMA MemoizeCounts ==
    ASSUME Types, Counts, Lazy!Memoize
    PROVE  Counts'
<1>0. PICK k : k = Lazy!Top.thunk
  OBVIOUS
<1> DEFINE th == [state |-> "evaluated", exp |-> Lazy!None, env |-> <<>>, val |-> val]
           new == [thunks EXCEPT ![k[1]][k[2]] = th]
<1>1. /\ stack # <<>> /\ Lazy!Top.op = "memo" /\ stack' = Lazy!Front(stack)
      /\ thunks' = new /\ UNCHANGED <<started, reentered>>
  BY <1>0 DEF Lazy!Memoize, Lazy!Returning, Lazy!Drop, Lazy!Evaluated, Lazy!history
<1>2. th.state = "evaluated"
  OBVIOUS
<1> HIDE DEF th
<1>3. PICK A : stack \in Seq(A)
  BY DEF Types, StackTyped, StackOK
<1>4. Memos(stack) = Memos(stack') \cup {k}
  <2>1. Memo(Lazy!Last(stack)) = {k}
    BY <1>0, <1>1 DEF Memo, Lazy!Top
  <2> QED
    BY <1>1, <1>3, <2>1, MemosPopped
<1>5. k \in Th /\ Lazy!Thunk(k).state # "lazy" /\ Times(k) > 0
  BY <1>4 DEF Counts, Progress
<1>6. /\ k = <<k[1], k[2]>> /\ k[1] \in DOMAIN thunks /\ k[2] \in DOMAIN thunks[k[1]]
      /\ \A j \in Th : j # k => <<j[1], j[2]>> # <<k[1], k[2]>>
  BY <1>5, PairOf
<1>7. PICK C : thunks \in Seq(C)
  BY DEF Types, Memory, ThunksOK
<1>8. /\ Len(new) = Len(thunks) /\ DOMAIN new = DOMAIN thunks
      /\ \A m \in DOMAIN thunks : DOMAIN new[m] = DOMAIN thunks[m]
      /\ new[k[1]][k[2]] = th
      /\ \A m \in DOMAIN thunks : \A j \in DOMAIN thunks[m] :
            <<m, j>> # <<k[1], k[2]>> => new[m][j] = thunks[m][j]
  BY <1>6, <1>7, Changed
<1> HIDE DEF new
<1>9. Th' = Th
  BY <1>1, <1>8 DEF Th, Ids
<1>10. Lazy!Thunk(k)'.state = "evaluated" /\ \A j \in Th : j # k => Lazy!Thunk(j)' = Lazy!Thunk(j)
  <2>1. Lazy!Thunk(k)'.state = "evaluated"
    BY <1>1, <1>2, <1>8 DEF Lazy!Thunk
  <2>2. ASSUME NEW j \in Th, j # k PROVE Lazy!Thunk(j)' = Lazy!Thunk(j)
    <3>1. j[1] \in DOMAIN thunks /\ j[2] \in DOMAIN thunks[j[1]]
      BY PairOf
    <3> QED
      BY <1>1, <1>6, <1>8, <2>2, <3>1 DEF Lazy!Thunk
  <2> QED
    BY <2>1, <2>2
<1>11. \A j : Times(j)' = Times(j)
  BY <1>1 DEF Times
<1>12. Counted'
  BY <1>1, <1>8, <1>9, <1>11 DEF Counts, Counted
<1>13. \A j \in Memos(stack') : j \in Th /\ Lazy!Thunk(j)'.state # "lazy" /\ Times(j)' > 0
  <2> SUFFICES ASSUME NEW j \in Memos(stack')
               PROVE  j \in Th /\ Lazy!Thunk(j)'.state # "lazy" /\ Times(j)' > 0
    OBVIOUS
  <2>1. j \in Th /\ Lazy!Thunk(j).state # "lazy" /\ Times(j) > 0
    BY <1>4 DEF Counts, Progress
  <2> QED
    BY <1>10, <1>11, <2>1
<1>14. ASSUME NEW j \in Th, Lazy!Thunk(j)'.state # "lazy" PROVE Begun(j)'
  <2>1. Lazy!Thunk(j).state # "lazy"
    BY <1>5, <1>10, <1>14
  <2>2. Begun(j)
    BY <2>1 DEF Counts, Progress
  <2>3. CASE j = k
    <3>1. Lazy!Thunk(j)'.state = "evaluated" /\ Times(j)' > 0
      BY <1>5, <1>10, <1>11, <2>3
    <3>2. Times(j)' > 1 => j \in reentered'
      BY <1>1, <1>11, <2>2 DEF Begun
    <3> QED
      BY <3>1, <3>2 DEF Begun
  <2>4. CASE j # k
    <3>1. Lazy!Thunk(j)' = Lazy!Thunk(j) /\ (j \in Memos(stack) => j \in Memos(stack'))
      BY <1>4, <1>10, <2>4
    <3> QED
      BY <1>1, <1>11, <2>2, <3>1 DEF Begun
  <2> QED
    BY <2>3, <2>4
<1>15. Progress'
  BY <1>9, <1>13, <1>14 DEF Progress
<1> QED
  BY <1>12, <1>15 DEF Counts

LEMMA QuotationCounts ==
    ASSUME Types, Counts, Lazy!Quotation
    PROVE  Counts'
<1>1. stack' = stack /\ reentered' = reentered
  BY DEF Lazy!Quotation
<1>2. CASE program = "lazy-evaluator"
  <2> DEFINE b == [i \in DOMAIN exp.items |-> Lazy!Delayed("lazy-memo", Lazy!N(exp.items[i]), env)]
  <2>1. Lazy!Delay(b)
    BY <1>2 DEF Lazy!Quotation
  <2>2. \A i \in DOMAIN b : b[i].state # "evaluated"
    BY DEF Lazy!Delayed
  <2> HIDE DEF b
  <2> QED
    BY <1>1, <2>1, <2>2, DelayCounts
<1>3. CASE program # "lazy-evaluator"
  BY <1>1, <1>3, QuietCounts DEF Lazy!Quotation, Quiet
<1> QED
  BY <1>2, <1>3

LEMMA ArgumentsCounts ==
    ASSUME Types, Counts, Lazy!Arguments
    PROVE  Counts'
<1>1. /\ Entry(Lazy!Top, Th, Fr) /\ Lazy!Top.op = "operator" /\ stack # <<>>
      /\ OK(val, Th, Fr) /\ StackTyped
  BY InReturn DEF Lazy!Arguments
<1> DEFINE exps == Lazy!Top.exps
           in == Lazy!Top.env
           delayed == {i \in DOMAIN exps : Lazy!KindOf(val, i) # "strict"}
           b == [i \in delayed |-> Lazy!Delayed(Lazy!KindOf(val, i), exps[i], in)]
           args == [i \in DOMAIN exps |-> IF i \in delayed THEN Lazy!NewThunk(i) ELSE Lazy!Unset]
           x == [op |-> "operands", proc |-> val, exps |-> exps, env |-> in,
                 todo |-> DOMAIN exps \ delayed, at |-> 0, args |-> args]
           wrong == \/ val.t \notin {"procedure", "primitive"}
                    \/ val.t = "procedure" /\ Len(val.v.params) # Len(exps)
<1>2. CASE wrong
  BY <1>2, QuietError, QuietCounts DEF Lazy!Arguments
<1>3. CASE ~wrong
  <2>1. /\ Lazy!Delay(b) /\ stack' = Append(Lazy!Front(stack), x) /\ reentered' = reentered
    BY <1>3 DEF Lazy!Arguments
  <2>2. \A i \in DOMAIN b : b[i].state # "evaluated"
    <3> SUFFICES ASSUME NEW i \in delayed PROVE b[i].state # "evaluated"
      OBVIOUS
    <3>1. val.t = "procedure" /\ Lazy!KindOf(val, i) = val.v.params[i][2]
      BY DEF Lazy!KindOf
    <3>2. Parameters(val.v.params) /\ Len(val.v.params) = Len(exps)
      BY <1>1, <1>3, <3>1, OfProcedure
    <3>3. exps \in Seq(Expressions) /\ i \in DOMAIN exps
      BY <1>1 DEF Entry
    <3>4. i \in DOMAIN val.v.params
      <4> HIDE DEF exps, delayed
      <4> QED
        BY <3>2, <3>3 DEF Parameters
    <3>5. val.v.params[i][2] \in Lazy!Kinds
      BY <3>2, <3>4 DEF Parameters
    <3>6. b[i].state = Lazy!KindOf(val, i)
      BY DEF Lazy!Delayed
    <3> QED
      BY <3>1, <3>5, <3>6 DEF Lazy!Kinds
  <2>3. x.op # "memo" /\ Lazy!Top.op # "memo"
    BY <1>1
  <2> HIDE DEF b, x
  <2>4. Memos(stack') = Memos(stack)
    BY <1>1, <2>1, <2>3, Replacing
  <2> QED
    BY <2>1, <2>2, <2>4, DelayCounts
<1> QED
  BY <1>2, <1>3

LEMMA CountsStep == Types /\ Counts /\ Lazy!Next => Counts'
<1> SUFFICES ASSUME Types, Counts, Lazy!Next PROVE Counts'
  OBVIOUS
<1>1. CASE Lazy!Driver
  BY <1>1, DriverQuiet, QuietCounts DEF Lazy!Driver
<1>2. CASE Lazy!Eval
  BY <1>2, EvalQuiet, QuietCounts, QuotationCounts DEF Lazy!Eval
<1>3. CASE Lazy!Continue
  BY <1>3, ContinueQuiet, QuietCounts, ForceThunkCounts, MemoizeCounts, ArgumentsCounts
  DEF Lazy!Continue
<1> QED
  BY <1>1, <1>2, <1>3 DEF Lazy!Next

LEMMA Consequence ==
    ASSUME Types, Counts
    PROVE  Lazy!EvaluatedOnce
<1> SUFFICES ASSUME NEW n \in DOMAIN thunks, NEW i \in DOMAIN thunks[n],
                    thunks[n][i].state # "lazy"
             PROVE  /\ started[n][i] > 1 => <<n, i>> \in reentered
                    /\ mode = "prompt" =>
                          (started[n][i] > 0 <=> thunks[n][i].state = "evaluated")
  BY DEF Lazy!EvaluatedOnce
<1> DEFINE k == <<n, i>>
<1>1. k \in Th /\ Lazy!Thunk(k) = thunks[n][i] /\ Times(k) = started[n][i]
  BY DEF Th, Ids, Lazy!Thunk, Times
<1>2. Begun(k)
  BY <1>1 DEF Counts, Progress
<1>3. mode = "prompt" => Memos(stack) = {}
  BY DEF Types, PromptTyped, Memos
<1> QED
  BY <1>1, <1>2, <1>3 DEF Begun

-----------------------------------------------------------------------------
(* The amb evaluator makes no thunks.                                      *)
IInv == \/ program = "amb-evaluator" /\ thunks = <<>>
        \/ program # "amb-evaluator" /\ Types /\ Counts

LEMMA SameProgram == Lazy!Next => program' = program
  BY DEF Lazy!Next, Lazy!Driver, Lazy!Eval, Lazy!Continue, Lazy!Read, Lazy!Answer,
         Lazy!Constant, Lazy!Variable, Lazy!Lambda, Lazy!Quotation, Lazy!If, Lazy!Begin,
         Lazy!DefineOrSet, Lazy!Application, Lazy!Forced, Lazy!ForceThunk, Lazy!Memoize,
         Lazy!Chosen, Lazy!Sequenced, Lazy!Defined, Lazy!Assigned, Lazy!Arguments,
         Lazy!Operand, Lazy!OperandDone, Lazy!ApplyPrimitive, Lazy!ApplyCompound, Lazy!session

LEMMA InitEstablishes == Init => IInv
<1>1. ASSUME Lazy!Init PROVE IInv
  <2>1. program # "amb-evaluator"
    BY <1>1 DEF Lazy!Init
  <2> QED
    BY <1>1, <2>1, TypesInit, CountsInit DEF IInv
<1>2. ASSUME program = "amb-evaluator", LazyOff PROVE IInv
  BY <1>2 DEF IInv, LazyOff
<1> QED
  BY <1>1, <1>2 DEF Init

LEMMA NextPreserves == IInv /\ [Next]_vars => IInv'
<1> SUFFICES ASSUME IInv, [Next]_vars PROVE IInv'
  OBVIOUS
<1>1. CASE program = "amb-evaluator"
  BY <1>1 DEF IInv, Next, vars, lazyVars
<1>2. CASE program # "amb-evaluator" /\ Lazy!Next
  <2>1. Types /\ Counts /\ program' # "amb-evaluator"
    BY <1>2, SameProgram DEF IInv
  <2> QED
    BY <1>2, <2>1, TypesStep, CountsStep DEF IInv
<1>3. CASE program # "amb-evaluator" /\ UNCHANGED vars
  <2>1. /\ UNCHANGED <<frames, thunks, started, reentered, stack, program, mode, exp, env, val>>
        /\ Types /\ Counts
    BY <1>3 DEF IInv, vars, registers, lazyVars
  <2>2. Memory' /\ Th' = Th /\ Fr' = Fr
    BY <2>1, SameMemory DEF Types
  <2>3. Types'
    <3>1. ValueTyped' /\ StackTyped' /\ EvalTyped'
      BY <2>1, <2>2 DEF Types, ValueTyped, StackTyped, EvalTyped
    <3>2. ApplyTyped' /\ PromptTyped'
      BY <2>1 DEF Types, ApplyTyped, PromptTyped, Lazy!Top
    <3> QED
      BY <2>2, <3>1, <3>2 DEF Types
  <2>4. Counts'
    BY <2>1, QuietCounts DEF Quiet
  <2> QED
    BY <1>3, <2>1, <2>3, <2>4 DEF IInv
<1> QED
  BY <1>1, <1>2, <1>3 DEF Next

(* In every session with the lazy evaluators what is in the registers, the *)
(* stack, the frames and the thunks is well formed, and the evaluations    *)
(* begun, under way and finished add up for each memoized argument.        *)
THEOREM Invariance == Spec => []IInv
<1> QED
  BY InitEstablishes, NextPreserves, PTL DEF Spec

(* In every session, for every grammar-closed set of expressions, a        *)
(* memoized argument is evaluated once, or forced by its own evaluation.   *)
THEOREM MemoizedOnce == Spec => []EvaluatedOnce
<1>1. IInv => EvaluatedOnce
  <2>1. ASSUME thunks = <<>> PROVE Lazy!EvaluatedOnce
    BY <2>1 DEF Lazy!EvaluatedOnce
  <2> QED
    BY <2>1, Consequence DEF IInv, EvaluatedOnce
<1> QED
  BY <1>1, Invariance, PTL
=============================================================================
