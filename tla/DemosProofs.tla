---------------------------- MODULE DemosProofs ----------------------------
(* Tail prints from the right place, for every file, every size of the     *)
(* windows but the smallest, every number of lines and whatever another    *)
(* process appends meanwhile.  setenv and unsetenv act on a map, for every *)
(* list and all strings.  readv gives the bytes of a file to its buffers   *)
(* in order, for all lengths of the buffers.  What the instances of 5_3.c  *)
(* append is kept, for any number of them and any mix of modes.            *)
EXTENDS Demos, FiniteSetTheorems, FunctionTheorems, WellFoundedInduction, TLAPS

-----------------------------------------------------------------------------
(* The library's operators are those of the instances.                     *)
LEMMA TMax == \A S : T!Max(S) = Max(S)
  BY DEF T!Max, Max

LEMMA TMin == \A S : T!Min(S) = Min(S)
  BY DEF T!Min, Min

LEMMA TCardinality == \A S : T!Cardinality(S) = Cardinality(S)
  BY DEF T!Cardinality, Cardinality

-----------------------------------------------------------------------------
(* The longer of two lengths, the shorter, and the ends of a set. *)

LEMMA MaxOfTwo ==
    ASSUME NEW m \in Nat, NEW n \in Nat
    PROVE  Max({m, n}) = IF m >= n THEN m ELSE n
<1> DEFINE k == IF m >= n THEN m ELSE n
<1>1. k \in {m, n} /\ \A y \in {m, n} : k >= y
  OBVIOUS
<1>2. \A x \in {m, n} : (\A y \in {m, n} : x >= y) => x = k
  OBVIOUS
<1> QED
  BY <1>1, <1>2 DEF Max

LEMMA MinOfTwo ==
    ASSUME NEW m \in Nat, NEW n \in Nat
    PROVE  Min({m, n}) = IF m <= n THEN m ELSE n
<1> DEFINE k == IF m <= n THEN m ELSE n
<1>1. k \in {m, n} /\ \A y \in {m, n} : k <= y
  OBVIOUS
<1>2. \A x \in {m, n} : (\A y \in {m, n} : x <= y) => x = k
  OBVIOUS
<1> QED
  BY <1>1, <1>2 DEF Min

LEMMA LeastOf ==
    ASSUME NEW S \in SUBSET Nat, S # {}
    PROVE  Min(S) \in S /\ \A y \in S : Min(S) <= y
<1>1. PICK x \in S : \A y \in S : ~ (<<y, x>> \in OpToRel(<, Nat))
  BY NatLessThanWellFounded, WFMin
<1>2. ASSUME NEW y \in S PROVE x <= y
  <2>1. y < x => <<y, x>> \in OpToRel(<, Nat)
    BY DEF OpToRel
  <2>2. ~ (y < x)
    BY <1>1, <2>1, Zenon
  <2> QED
    BY <2>2
<1> QED
  BY <1>2 DEF Min

LEMMA GreatestOf ==
    ASSUME NEW n \in Nat, NEW S \in SUBSET (0 .. n), S # {}
    PROVE  Max(S) \in S /\ \A y \in S : Max(S) >= y
<1> DEFINE R == {m \in Nat : \E x \in S : m = n - x}
<1>1. R \in SUBSET Nat /\ R # {}
  <2>1. PICK x \in S : TRUE
    OBVIOUS
  <2>2. n - x \in R
    BY <2>1
  <2> QED
    BY <2>2
<1>2. Min(R) \in R /\ \A y \in R : Min(R) <= y
  <2> HIDE DEF R
  <2> QED
    BY <1>1, LeastOf
<1>3. PICK x \in S : Min(R) = n - x
  BY <1>2
<1>4. \A y \in S : x >= y
  <2>1. ASSUME NEW y \in S PROVE x >= y
    <3>1. n - y \in R
      BY <2>1
    <3>2. n - x <= n - y
      BY <1>2, <1>3, <3>1
    <3> QED
      BY <3>2
  <2> QED
    BY <2>1
<1> QED
  BY <1>4 DEF Max

-----------------------------------------------------------------------------
(* Counting newlines *)

(* The newlines of t behind its first a bytes and not behind its first c.  *)
Between(t, a, c) == {i \in a + 1 .. c : t[i] = NL}
Count(t, a, c) == Cardinality(Between(t, a, c))

(* The newlines of a window behind its place i.                            *)
Behind(w, i) == {j \in T!Newlines(w) : j > i}
Shifted(t, o, n, i) == Cardinality(Behind(SubSeq(t, o + 1, o + n), i)) = Count(t, o + i, o + n)

LEMMA CountType ==
    ASSUME NEW t, NEW a \in Nat, NEW c \in Nat
    PROVE  IsFiniteSet(Between(t, a, c)) /\ Count(t, a, c) \in Nat
<1>1. IsFiniteSet(a + 1 .. c)
  BY FS_Interval
<1>2. IsFiniteSet(Between(t, a, c))
  BY <1>1, FS_Subset DEF Between
<1> QED
  BY <1>2, FS_CardinalityType DEF Count

LEMMA CountNothing ==
    ASSUME NEW t, NEW a \in Nat
    PROVE  Count(t, a, a) = 0
<1>1. Between(t, a, a) = {}
  BY DEF Between
<1> QED
  BY <1>1, FS_EmptySet DEF Count

LEMMA CountSplit ==
    ASSUME NEW t, NEW a \in Nat, NEW b \in Nat, NEW c \in Nat, a <= b, b <= c
    PROVE  Count(t, a, c) = Count(t, a, b) + Count(t, b, c)
<1>1. PICK S, R : S = Between(t, a, b) /\ R = Between(t, b, c)
  OBVIOUS
<1>2. IsFiniteSet(S) /\ IsFiniteSet(R)
  BY <1>1, CountType
<1>3. S \cap R = {} /\ S \cup R = Between(t, a, c)
  BY <1>1 DEF Between
<1>4. Cardinality(S \cup R) = Cardinality(S) + Cardinality(R) - Cardinality(S \cap R)
  BY <1>2, FS_Union
<1>5. Cardinality(S \cap R) = 0 /\ Cardinality(S) \in Nat /\ Cardinality(R) \in Nat
  BY <1>2, <1>3, FS_EmptySet, FS_CardinalityType
<1>6. Cardinality(S \cup R) = Cardinality(S) + Cardinality(R)
  BY <1>4, <1>5
<1> QED
  BY <1>1, <1>3, <1>6 DEF Count

(* The newlines behind place i of a part of the file.                      *)
LEMMA CountShift ==
    ASSUME NEW S, NEW t \in Seq(S), NEW o \in Nat, NEW n \in Nat, o + n <= Len(t),
           NEW i \in Nat
    PROVE  Shifted(t, o, n, i)
<1>1. PICK w : w = SubSeq(t, o + 1, o + n)
  OBVIOUS
<1>2. DOMAIN w = 1 .. n /\ \A j \in 1 .. n : w[j] = t[o + j]
  BY <1>1
<1>3. PICK A, B : A = Behind(w, i) /\ B = Between(t, o + i, o + n)
  OBVIOUS
<1>4. \A j : j \in A <=> j \in 1 .. n /\ j > i /\ t[o + j] = NL
  BY <1>2, <1>3 DEF T!Newlines, Behind
<1>5. \A k : k \in B <=> k \in (o + i) + 1 .. o + n /\ t[k] = NL
  BY <1>3 DEF Between
<1> DEFINE f == [k \in B |-> k - o]
<1>6. f \in Bijection(B, A)
  <2>1. ASSUME NEW k \in B PROVE f[k] \in A
    <3>1. k - o \in 1 .. n /\ k - o > i /\ o + (k - o) = k
      BY <1>5
    <3> QED
      BY <1>4, <1>5, <3>1
  <2>2. \A k, l \in B : f[k] = f[l] => k = l
    BY <1>5
  <2>3. ASSUME NEW j \in A PROVE \E k \in B : f[k] = j
    <3>1. o + j \in B /\ (o + j) - o = j
      BY <1>4, <1>5
    <3> QED
      BY <3>1
  <2>4. f \in [B -> A]
    BY <2>1
  <2> HIDE DEF f
  <2> QED
    BY <2>2, <2>3, <2>4, Fun_IsBij
<1>7. ExistsBijection(B, A)
  BY <1>6 DEF ExistsBijection
<1>8. IsFiniteSet(B)
  <2>1. o + i \in Nat /\ o + n \in Nat
    OBVIOUS
  <2> QED
    BY <1>3, <2>1, CountType
<1>9. Cardinality(A) = Cardinality(B)
  BY <1>7, <1>8, FS_Bijection
<1> QED
  BY <1>1, <1>3, <1>9 DEF Count, Shifted

(* From the n-th newline from the end on there are n of them.              *)
LEMMA NthIs ==
    ASSUME NEW s, NEW l \in Nat, DOMAIN s = 1 .. l,
           NEW n \in Nat \ {0}, Cardinality(T!Newlines(s)) >= n
    PROVE  /\ T!Nth(s, n) \in T!Newlines(s)
           /\ Cardinality({j \in T!Newlines(s) : j > T!Nth(s, n)}) = n - 1
<1> DEFINE A(m) == {j \in T!Newlines(s) : j >= m}
<1>1. T!Newlines(s) \subseteq 1 .. l
  BY DEF T!Newlines
<1>2. ASSUME NEW m \in Nat PROVE IsFiniteSet(A(m)) /\ Cardinality(A(m)) \in Nat
  <2>1. IsFiniteSet(1 .. l)
    BY FS_Interval
  <2>2. IsFiniteSet(A(m))
    BY <1>1, <2>1, FS_Subset
  <2> HIDE DEF A
  <2> QED
    BY <2>2, FS_CardinalityType
<1> DEFINE M == {m \in 0 .. l : Cardinality(A(m)) >= n}
<1>3. 0 \in M
  <2>1. A(0) = T!Newlines(s)
    BY <1>1
  <2>2. Cardinality(A(0)) >= n
    BY <2>1
  <2>3. 0 \in 0 .. l
    OBVIOUS
  <2> HIDE DEF A
  <2> QED
    BY <2>2, <2>3
<1>4. PICK g \in 0 .. l : g \in M /\ \A m \in M : g >= m
  <2>1. M \in SUBSET (0 .. l) /\ M # {}
    BY <1>3
  <2> HIDE DEF M
  <2>2. Max(M) \in M /\ \A m \in M : Max(M) >= m
    BY <2>1, GreatestOf
  <2> QED
    BY <2>1, <2>2
<1>5. Cardinality(A(g)) >= n
  BY <1>4 DEF M
<1> HIDE DEF M
<1>6. g + 1 \in Nat /\ Cardinality(A(g + 1)) \in Nat /\ Cardinality(A(g + 1)) < n
  <2>0. g + 1 \in Nat
    OBVIOUS
  <2>3. Cardinality(A(g + 1)) \in Nat
    <3> HIDE DEF A
    <3> QED
      BY <1>2, <2>0
  <2>1. CASE g = l
    <3>1. A(g + 1) = {}
      BY <1>1, <2>1
    <3>2. Cardinality(A(g + 1)) = 0
      BY <3>1, FS_EmptySet
    <3> HIDE DEF A
    <3> QED
      BY <2>0, <3>2
  <2>2. CASE g < l
    <3>1. g + 1 \in 0 .. l /\ g + 1 \notin M
      BY <1>4, <2>2
    <3> HIDE DEF A
    <3> QED
      BY <2>3, <3>1 DEF M
  <2> HIDE DEF A
  <2>4. g = l \/ g < l
    OBVIOUS
  <2> QED
    BY <2>0, <2>1, <2>2, <2>3, <2>4
<1>7. g \in T!Newlines(s)
  <2>1. ASSUME g \notin T!Newlines(s) PROVE FALSE
    <3>1. A(g) = A(g + 1)
      BY <1>1, <2>1
    <3> HIDE DEF A
    <3>2. Cardinality(A(g)) \in Nat
      BY <1>2, SMTT(30)
    <3> QED
      BY <1>5, <1>6, <3>1, <3>2
  <2> QED
    BY <2>1
<1>8. ASSUME NEW i \in T!Newlines(s)
      PROVE  Cardinality(A(i)) = Cardinality(A(i + 1)) + 1
  <2>1. i \in Nat /\ i + 1 \in Nat
    BY <1>1
  <2>2. A(i) = A(i + 1) \cup {i} /\ i \notin A(i + 1)
    BY <1>1
  <2>3. IsFiniteSet(A(i + 1))
    BY <1>2, <2>1
  <2> HIDE DEF A
  <2> QED
    BY <2>2, <2>3, FS_AddElement
<1>9. Cardinality(A(g)) = n
  <2>1. Cardinality(A(g)) = Cardinality(A(g + 1)) + 1
    BY <1>7, <1>8
  <2>2. Cardinality(A(g + 1)) \in Nat
    BY <1>2, <1>6
  <2> HIDE DEF A
  <2> QED
    BY <1>5, <1>6, <2>1, <2>2
<1>10. PICK i \in T!Newlines(s) : i = T!Nth(s, n) /\ Cardinality(A(i)) = n
  BY <1>7, <1>9, TCardinality DEF T!Nth
<1>11. {j \in T!Newlines(s) : j > i} = A(i + 1)
  BY <1>1
<1>12. Cardinality(A(i + 1)) = n - 1
  <2>1. Cardinality(A(i)) = Cardinality(A(i + 1)) + 1
    BY <1>8
  <2>2. i + 1 \in Nat
    BY <1>1
  <2>3. Cardinality(A(i + 1)) \in Nat
    BY <1>2, <2>2
  <2> HIDE DEF A
  <2> QED
    BY <1>10, <2>1, <2>3
<1> QED
  BY <1>10, <1>11, <1>12

-----------------------------------------------------------------------------
(* The inductive invariant *)

TailTypeOK ==
    /\ tstep \in {"idle", "sized", "read", "print", "ok", "failed"}
    /\ lines \in Int /\ asked \in Int
    /\ text \in Seq(T!Letters) /\ shown \in Seq(T!Letters)
    /\ size \in Nat /\ curr_pos \in Nat /\ offset \in Nat /\ bytes_to_read \in Nat

(* An end the file had, from which lines are counted.                      *)
Reach(e) ==
    e \in Nat /\ size <= e /\ e <= Len(text) /\ (e <= size + 1 \/ e <= BUF_SIZE)

(* The first window ends behind the end of the file; what it counts may    *)
(* still grow.  The windows that follow have been counted up to where they *)
(* end.                                                                    *)
First == lines = asked /\ curr_pos = T!FirstWindow(size) /\ bytes_to_read = BUF_SIZE
Later ==
    /\ asked > 0 /\ lines >= 0
    /\ bytes_to_read = BUF_SIZE \/ curr_pos = 0
    /\ \E e : /\ Reach(e) /\ curr_pos + bytes_to_read <= e
              /\ lines = asked - Count(text, curr_pos + bytes_to_read, e)

(* Behind its first p bytes the file has the lines that were asked for.    *)
Good(p) ==
    /\ p = 0 \/ text[p] = NL
    /\ \E e : /\ Reach(e) /\ p <= e
              /\ \/ Count(text, p, e) = asked
                 \/ p = 0 /\ Count(text, p, e) <= asked

(* What has been printed is the file from p to q.                          *)
Printed(p, q) ==
    /\ p \in Nat /\ q \in Nat /\ p <= q /\ q <= Len(text)
    /\ shown = SubSeq(text, p + 1, q)
    /\ asked > 0 => Good(p)

Windows ==
    /\ tstep \in {"sized", "read", "print"} => asked # 0 /\ size <= Len(text)
    /\ tstep = "sized" => lines = asked
    /\ tstep \in {"idle", "sized", "read"} => shown = <<>>
    /\ tstep = "read" => offset = curr_pos /\ (First \/ Later)

Printing ==
    /\ tstep = "print" => \E p : Printed(p, offset)
    /\ tstep = "ok" /\ asked # 0 => \E p : Printed(p, Len(text))

TailInv == TailTypeOK /\ Windows /\ Printing


(* The newlines of a part of the file. *)
LEMMA CountIs ==
    ASSUME NEW S, NEW t \in Seq(S), NEW a \in Nat, NEW c \in Nat, a <= c, c <= Len(t)
    PROVE  Cardinality(T!Newlines(SubSeq(t, a + 1, c))) = Count(t, a, c)
<1>1. PICK n \in Nat : c = a + n
  <2>1. c - a \in Nat /\ c = a + (c - a)
    OBVIOUS
  <2> QED
    BY <2>1
<1>2. PICK w : w = SubSeq(t, a + 1, a + n)
  OBVIOUS
<1>3. DOMAIN w = 1 .. n
  BY <1>1, <1>2
<1>4. Behind(w, 0) = T!Newlines(w)
  BY <1>3 DEF T!Newlines, Behind
<1>5. Cardinality(Behind(SubSeq(t, a + 1, a + n), 0)) = Count(t, a + 0, a + n)
  <2>1. 0 \in Nat /\ a + n <= Len(t)
    BY <1>1
  <2>2. Shifted(t, a, n, 0)
    BY <2>1, CountShift, Zenon
  <2> QED
    BY <2>2 DEF Shifted
<1>6. a + 0 = a
  OBVIOUS
<1> QED
  BY <1>1, <1>2, <1>4, <1>5, <1>6

(* Bytes appended to the file leave what is in front of them as it was.    *)
LEMMA CountKept ==
    ASSUME NEW S, NEW t \in Seq(S), NEW b \in S, NEW a \in Nat, NEW c \in Nat, c <= Len(t)
    PROVE  Count(Append(t, b), a, c) = Count(t, a, c)
<1>1. \A i \in a + 1 .. c : Append(t, b)[i] = t[i]
  OBVIOUS
<1>2. Between(Append(t, b), a, c) = Between(t, a, c)
  BY <1>1 DEF Between
<1> QED
  BY <1>2 DEF Count

LEMMA PartKept ==
    ASSUME NEW S, NEW t \in Seq(S), NEW b \in S, NEW a \in Nat, NEW c \in Nat, c <= Len(t)
    PROVE  SubSeq(Append(t, b), a + 1, c) = SubSeq(t, a + 1, c)
  OBVIOUS

LEMMA PartOfNothing ==
    ASSUME NEW S, NEW t \in Seq(S), NEW a \in Nat
    PROVE  SubSeq(t, a + 1, a) = <<>>
  OBVIOUS

LEMMA PartGrows ==
    ASSUME NEW S, NEW t \in Seq(S), NEW a \in Nat, NEW c \in Nat, a <= c, c < Len(t)
    PROVE  Append(SubSeq(t, a + 1, c), t[c + 1]) = SubSeq(t, a + 1, c + 1)
  OBVIOUS

LEMMA FirstWindowIs ==
    ASSUME NEW s \in Nat, T!TailAssumption
    PROVE  T!FirstWindow(s) = IF s >= BUF_SIZE THEN s - BUF_SIZE + 1 ELSE 0
<1>1. CASE s >= BUF_SIZE
  <2>1. PICK m \in Nat : m = s - BUF_SIZE + 1
    BY <1>1 DEF T!TailAssumption
  <2>2. Max({0, m}) = m
    BY MaxOfTwo
  <2> QED
    BY <1>1, <2>1, <2>2, TMax DEF T!FirstWindow
<1>2. CASE s < BUF_SIZE
  <2> DEFINE m == s - BUF_SIZE + 1
  <2>1. m \in Int /\ m <= 0
    BY <1>2 DEF T!TailAssumption
  <2> HIDE DEF m
  <2>2. 0 \in {0, m} /\ \A y \in {0, m} : 0 >= y
    BY <2>1
  <2>3. \A x \in {0, m} : (\A y \in {0, m} : x >= y) => x = 0
    BY <2>1
  <2>4. Max({0, m}) = 0
    BY <2>2, <2>3 DEF Max
  <2> QED
    BY <1>2, <2>4, TMax DEF T!FirstWindow, m, T!TailAssumption
<1> QED
  BY <1>1, <1>2 DEF T!TailAssumption

LEMMA ShorterIs ==
    ASSUME NEW pos \in Nat, T!TailAssumption
    PROVE  T!Shorter(pos) = IF pos >= BUF_SIZE THEN pos - BUF_SIZE ELSE 0
<1>1. CASE pos >= BUF_SIZE
  <2>1. PICK m \in Nat : m = pos - BUF_SIZE
    BY <1>1 DEF T!TailAssumption
  <2>2. Max({0, m}) = m
    BY MaxOfTwo
  <2> QED
    BY <1>1, <2>1, <2>2, TMax DEF T!Shorter
<1>2. CASE pos < BUF_SIZE
  <2> DEFINE m == pos - BUF_SIZE
  <2>1. m \in Int /\ m <= 0
    BY <1>2 DEF T!TailAssumption
  <2> HIDE DEF m
  <2>2. 0 \in {0, m} /\ \A y \in {0, m} : 0 >= y
    BY <2>1
  <2>3. \A x \in {0, m} : (\A y \in {0, m} : x >= y) => x = 0
    BY <2>1
  <2>4. Max({0, m}) = 0
    BY <2>2, <2>3 DEF Max
  <2> QED
    BY <1>2, <2>4, TMax DEF T!Shorter, m, T!TailAssumption
<1> QED
  BY <1>1, <1>2 DEF T!TailAssumption

-----------------------------------------------------------------------------
(* Reading a window *)

(* Where the window as read ends, and the newlines counted behind it. *)
WindowEnd == Min({offset + bytes_to_read, Len(text)})
CountedTo(e) ==
    /\ Reach(e) /\ WindowEnd <= e
    /\ lines = asked - Count(text, WindowEnd, e)

LEMMA WindowIs ==
    ASSUME TailTypeOK
    PROVE  /\ WindowEnd \in Nat /\ WindowEnd <= Len(text)
           /\ WindowEnd = IF offset + bytes_to_read <= Len(text)
                          THEN offset + bytes_to_read ELSE Len(text)
           /\ T!Window = SubSeq(text, offset + 1, WindowEnd)
           /\ T!Window # <<>> <=> offset < WindowEnd
<1>1. text \in Seq(T!Letters) /\ offset \in Nat /\ bytes_to_read \in Nat
  BY DEF TailTypeOK
<1>2. PICK m \in Nat, n \in Nat : m = offset + bytes_to_read /\ n = Len(text)
  <2>1. offset + bytes_to_read \in Nat /\ Len(text) \in Nat
    BY <1>1
  <2> QED
    BY <2>1, Zenon
<1>3. Min({m, n}) = IF m <= n THEN m ELSE n
  BY MinOfTwo
<1>4. WindowEnd = IF m <= n THEN m ELSE n
  BY <1>2, <1>3 DEF WindowEnd
<1>5. T!Window = SubSeq(text, offset + 1, WindowEnd)
  BY TMin DEF T!Window, WindowEnd
<1>6. PICK w \in Nat : w = WindowEnd
  BY <1>4
<1>7. SubSeq(text, offset + 1, w) # <<>> <=> offset < w
  <2>1. w <= Len(text)
    BY <1>2, <1>4, <1>6
  <2> QED
    BY <1>1, <2>1
<1> QED
  BY <1>2, <1>4, <1>5, <1>6, <1>7

LEMMA FirstReaches ==
    ASSUME T!TailAssumption, TailTypeOK, Windows, tstep = "read", First
    PROVE  Reach(WindowEnd)
<1>1. size \in Nat /\ BUF_SIZE \in Nat /\ BUF_SIZE > 1 /\ size <= Len(text) /\ Len(text) \in Nat
  BY DEF T!TailAssumption, TailTypeOK, Windows
<1>2. offset = T!FirstWindow(size) /\ bytes_to_read = BUF_SIZE
  BY DEF First, Windows
<1>3. offset = IF size >= BUF_SIZE THEN size - BUF_SIZE + 1 ELSE 0
  BY <1>1, <1>2, FirstWindowIs
<1>4. offset + bytes_to_read > size
      /\ (offset + bytes_to_read <= size + 1 \/ offset + bytes_to_read <= BUF_SIZE)
  BY <1>1, <1>2, <1>3
<1>5. WindowEnd \in Nat /\ WindowEnd <= Len(text)
      /\ WindowEnd = IF offset + bytes_to_read <= Len(text)
                     THEN offset + bytes_to_read ELSE Len(text)
  BY WindowIs
<1>6. PICK m \in Nat : m = offset + bytes_to_read
  BY DEF TailTypeOK
<1>7. size <= WindowEnd /\ (WindowEnd <= size + 1 \/ WindowEnd <= BUF_SIZE)
  BY <1>1, <1>4, <1>5, <1>6
<1> QED
  BY <1>5, <1>7 DEF Reach

LEMMA Counted ==
    ASSUME T!TailAssumption, TailTypeOK, Windows, tstep = "read", asked > 0
    PROVE  lines >= 0 /\ \E e : CountedTo(e)
<1>0. WindowEnd \in Nat /\ WindowEnd <= Len(text)
      /\ WindowEnd = IF offset + bytes_to_read <= Len(text)
                     THEN offset + bytes_to_read ELSE Len(text)
  BY WindowIs
<1>1. CASE First
  <2>1. Reach(WindowEnd) /\ WindowEnd \in Nat
    BY <1>0, <1>1, FirstReaches
  <2>2. Count(text, WindowEnd, WindowEnd) = 0
    BY <2>1, CountNothing
  <2>3. lines = asked /\ asked \in Int
    BY <1>1 DEF First, TailTypeOK
  <2>4. CountedTo(WindowEnd)
    BY <2>1, <2>2, <2>3 DEF CountedTo
  <2> QED
    BY <2>3, <2>4
<1>2. CASE Later
  <2>1. lines >= 0 /\ offset = curr_pos
    BY <1>2 DEF Later, Windows
  <2>2. PICK e : /\ Reach(e) /\ curr_pos + bytes_to_read <= e
                 /\ lines = asked - Count(text, curr_pos + bytes_to_read, e)
    BY <1>2 DEF Later
  <2>3. offset + bytes_to_read \in Nat /\ offset + bytes_to_read <= Len(text)
    BY <2>1, <2>2 DEF Reach, TailTypeOK
  <2>4. WindowEnd = curr_pos + bytes_to_read
    BY <1>0, <2>1, <2>3
  <2>5. CountedTo(e)
    BY <2>2, <2>4 DEF CountedTo
  <2> QED
    BY <2>1, <2>5
<1> QED
  BY <1>1, <1>2 DEF Windows


(* The window as read, its newlines and, when they are enough, the one     *)
(* behind which printing starts.                                           *)
LEMMA WindowCount ==
    ASSUME TailTypeOK, offset < WindowEnd
    PROVE  /\ Cardinality(T!Newlines(T!Window)) = Count(text, offset, WindowEnd)
           /\ Count(text, offset, WindowEnd) \in Nat
<1>1. text \in Seq(T!Letters) /\ offset \in Nat
  BY DEF TailTypeOK
<1>2. PICK w \in Nat : w = WindowEnd
  BY WindowIs
<1>3. w <= Len(text) /\ T!Window = SubSeq(text, offset + 1, w)
  BY <1>2, WindowIs
<1>4. offset <= w
  BY <1>1, <1>2
<1>5. Cardinality(T!Newlines(SubSeq(text, offset + 1, w))) = Count(text, offset, w)
  BY <1>1, <1>3, <1>4, CountIs
<1>6. Count(text, offset, w) \in Nat
  BY <1>1, CountType
<1> QED
  BY <1>2, <1>3, <1>5, <1>6

LEMMA NthOfWindow ==
    ASSUME TailTypeOK, offset < WindowEnd, NEW n \in Nat \ {0},
           Cardinality(T!Newlines(T!Window)) >= n
    PROVE  \E k \in Nat : /\ k = T!Nth(T!Window, n)
                          /\ offset + k <= WindowEnd /\ text[offset + k] = NL
                          /\ Count(text, offset + k, WindowEnd) = n - 1
<1>1. text \in Seq(T!Letters) /\ offset \in Nat
  BY DEF TailTypeOK
<1>2. PICK e \in Nat : e = WindowEnd
  BY WindowIs
<1>3. e <= Len(text) /\ T!Window = SubSeq(text, offset + 1, e)
  BY <1>2, WindowIs
<1>4. PICK l \in Nat : e = offset + l
  <2>1. e - offset \in Nat /\ e = offset + (e - offset)
    BY <1>1, <1>2
  <2> QED
    BY <2>1
<1>5. PICK w : w = T!Window
  OBVIOUS
<1>6. DOMAIN w = 1 .. l /\ \A j \in 1 .. l : w[j] = text[offset + j]
  BY <1>1, <1>3, <1>4, <1>5, SMTT(30)
<1>7. Cardinality(T!Newlines(w)) >= n
  BY <1>5
<1>8. PICK k : k = T!Nth(w, n)
  OBVIOUS
<1>9. k \in T!Newlines(w) /\ Cardinality(Behind(w, k)) = n - 1
  BY <1>6, <1>7, <1>8, NthIs DEF Behind
<1>10. k \in Nat /\ k <= l /\ text[offset + k] = NL
  BY <1>6, <1>9 DEF T!Newlines
<1>11. Cardinality(Behind(SubSeq(text, offset + 1, offset + l), k))
         = Count(text, offset + k, offset + l)
  <2>1. PICK t \in Seq(T!Letters), o \in Nat : t = text /\ o = offset
    BY <1>1
  <2>2. o + l <= Len(t) /\ k \in Nat
    BY <1>3, <1>4, <1>10, <2>1
  <2>3. Shifted(t, o, l, k)
    BY <2>2, CountShift, Zenon
  <2> QED
    BY <2>1, <2>3 DEF Shifted
<1>12. w = SubSeq(text, offset + 1, offset + l)
  BY <1>3, <1>4, <1>5
<1>13. Count(text, offset + k, WindowEnd) = n - 1
  BY <1>2, <1>4, <1>9, <1>11, <1>12
<1>14. offset + k <= WindowEnd
  BY <1>1, <1>2, <1>4, <1>10
<1> QED
  BY <1>5, <1>8, <1>10, <1>13, <1>14

LEMMA ReadStep ==
    ASSUME T!TailAssumption, TailInv, T!ReadWindow
    PROVE  TailInv'
<1>1. TailTypeOK /\ Windows /\ tstep = "read" /\ T!Window # <<>>
  BY DEF TailInv, T!ReadWindow
<1>2. asked' = asked /\ text' = text /\ size' = size /\ shown' = shown
  BY DEF T!ReadWindow
<1>3. offset < WindowEnd /\ WindowEnd \in Nat /\ WindowEnd <= Len(text)
  BY <1>1, WindowIs
<1>4. PICK c \in Nat : c = Cardinality(T!Newlines(T!Window)) /\ c = Count(text, offset, WindowEnd)
  BY <1>1, <1>3, WindowCount
<1>5. shown = <<>> /\ asked # 0 /\ size <= Len(text) /\ offset = curr_pos
  BY <1>1 DEF Windows
<1>6. offset \in Nat /\ curr_pos \in Nat /\ size \in Nat /\ asked \in Int /\ lines \in Int
      /\ text \in Seq(T!Letters) /\ bytes_to_read \in Nat
  BY <1>1 DEF TailTypeOK
<1>7. asked < 0 => lines < 0
  BY <1>1, <1>6 DEF Windows, First, Later
<1>8. asked > 0 => lines >= 0
  BY <1>1, Counted
<1>9. T!Passed \in Nat \ {0} /\ (lines >= 0 => T!Passed = lines + 1)
  BY <1>6 DEF T!Passed
<1>10. CASE T!Enough(T!Window) \/ lines < 0
  <2>1. tstep' = "print" /\ lines' = -1 /\ offset' = curr_pos + T!StartOf(T!Window)
        /\ curr_pos' = curr_pos /\ bytes_to_read' = bytes_to_read
    BY <1>10 DEF T!ReadWindow
  <2>2. offset' \in Nat /\ offset' <= Len(text) /\ (asked > 0 => Good(offset'))
    <3>1. CASE T!Enough(T!Window)
      <4>1. Cardinality(T!Newlines(T!Window)) >= T!Passed /\ T!StartOf(T!Window) = T!Nth(T!Window, T!Passed)
        BY <3>1, TCardinality DEF T!Enough, T!StartOf
      <4>2. PICK k \in Nat : /\ k = T!Nth(T!Window, T!Passed)
                             /\ offset + k <= WindowEnd /\ text[offset + k] = NL
                             /\ Count(text, offset + k, WindowEnd) = T!Passed - 1
        BY <1>1, <1>3, <1>9, <4>1, NthOfWindow
      <4>3. offset' = offset + k
        BY <1>5, <2>1, <4>1, <4>2
      <4>4. offset + k \in Nat /\ offset + k <= Len(text)
        BY <1>3, <1>6, <4>2
      <4>5. ASSUME asked > 0 PROVE Good(offset + k)
        <5>1. PICK e : CountedTo(e)
          BY <1>1, <4>5, Counted
        <5>2. Reach(e) /\ e \in Nat /\ WindowEnd <= e
          BY <5>1 DEF CountedTo, Reach
        <5>3. Count(text, offset + k, e)
                = Count(text, offset + k, WindowEnd) + Count(text, WindowEnd, e)
          BY <1>3, <4>2, <4>4, <5>2, CountSplit
        <5>4. Count(text, offset + k, WindowEnd) = lines
          BY <1>6, <1>8, <1>9, <4>2, <4>5
        <5>5. lines = asked - Count(text, WindowEnd, e) /\ Count(text, WindowEnd, e) \in Nat
          BY <1>3, <5>1, <5>2, CountType DEF CountedTo
        <5>6. Count(text, offset + k, e) = asked
          BY <1>6, <5>3, <5>4, <5>5
        <5>7. offset + k <= e
          BY <1>3, <4>2, <4>4, <5>2
        <5> QED
          BY <4>2, <5>2, <5>6, <5>7 DEF Good
      <4> QED
        BY <4>3, <4>4, <4>5
    <3>2. CASE ~ T!Enough(T!Window)
      <4>1. lines < 0 /\ T!StartOf(T!Window) = 0
        BY <1>10, <3>2 DEF T!StartOf
      <4>2. ~ (asked > 0)
        BY <1>6, <1>8, <4>1
      <4>3. offset' = offset
        BY <1>5, <1>6, <2>1, <4>1
      <4>4. offset <= Len(text)
        BY <1>3, <1>6
      <4> QED
        BY <1>6, <4>2, <4>3, <4>4
    <3> QED
      BY <3>1, <3>2
  <2>3. TailTypeOK'
    BY <1>1, <1>2, <2>1, <2>2 DEF TailTypeOK
  <2>4. Windows'
    BY <1>2, <1>5, <2>1 DEF Windows
  <2>5. asked' > 0 => Good(offset)'
    BY <1>2, <2>2 DEF Good, Reach
  <2>6. PICK q \in Nat : q = offset'
    BY <2>2
  <2>7. shown' = SubSeq(text', q + 1, q)
    <3>1. SubSeq(text, q + 1, q) = <<>>
      BY <1>6, PartOfNothing, Zenon
    <3> QED
      BY <1>2, <1>5, <3>1
  <2>8. Printed(offset, offset)'
    <3>1. offset' \in Nat /\ offset' <= offset' /\ offset' <= Len(text')
      BY <1>2, <2>2
    <3> QED
      BY <2>5, <2>6, <2>7, <3>1 DEF Printed
  <2>9. Printing'
    BY <2>1, <2>8 DEF Printing
  <2> QED
    BY <2>3, <2>4, <2>9 DEF TailInv
<1>11. CASE ~ T!Enough(T!Window) /\ lines >= 0
  <2>1. /\ tstep' = "read" /\ lines' = lines - c
        /\ curr_pos' = T!Shorter(curr_pos) /\ offset' = T!Shorter(curr_pos)
        /\ bytes_to_read' = T!NextLength(curr_pos)
    <3>1. ~ (lines < 0)
      BY <1>6, <1>11
    <3> QED
      BY <1>1, <1>4, <1>11, <3>1, TCardinality DEF T!ReadWindow
  <2>2. lines' \in Int /\ lines' >= 0
    <3>0. ~ (Cardinality(T!Newlines(T!Window)) >= T!Passed)
      BY <1>11, TCardinality DEF T!Enough
    <3>1. c < lines + 1
      BY <1>4, <1>6, <1>9, <1>11, <3>0
    <3> QED
      BY <1>6, <2>1, <3>1
  <2>3. BUF_SIZE \in Nat /\ BUF_SIZE > 1
    BY DEF T!TailAssumption
  <2>4. asked > 0
    BY <1>5, <1>6, <1>7, <1>11
  <2>5. T!Shorter(curr_pos) = IF curr_pos >= BUF_SIZE THEN curr_pos - BUF_SIZE ELSE 0
    BY <1>6, ShorterIs
  <2>6. bytes_to_read = BUF_SIZE \/ curr_pos = 0
    BY <1>1 DEF Windows, First, Later
  <2>7. /\ curr_pos' \in Nat /\ bytes_to_read' \in Nat
        /\ curr_pos' + bytes_to_read' = offset
        /\ bytes_to_read' = BUF_SIZE \/ curr_pos' = 0
    BY <1>5, <1>6, <2>1, <2>3, <2>5, <2>6 DEF T!NextLength
  <2>8. PICK e : CountedTo(e)
    BY <1>1, <2>4, Counted
  <2>9. Reach(e) /\ e \in Nat /\ WindowEnd <= e
    BY <2>8 DEF CountedTo, Reach
  <2>10. Count(text, offset, e) = c + Count(text, WindowEnd, e)
    BY <1>3, <1>4, <1>6, <2>9, CountSplit
  <2>11. lines = asked - Count(text, WindowEnd, e) /\ Count(text, WindowEnd, e) \in Nat
    BY <1>3, <2>8, <2>9, CountType DEF CountedTo
  <2>12. lines' = asked - Count(text, offset, e) /\ offset <= e
    BY <1>3, <1>6, <2>1, <2>9, <2>10, <2>11
  <2>13. lines' = asked' - Count(text', curr_pos' + bytes_to_read', e)
         /\ curr_pos' + bytes_to_read' <= e
    BY <1>2, <2>7, <2>12
  <2>14. Reach(e)'
    BY <1>2, <2>9 DEF Reach
  <2>15. Later'
    BY <1>2, <2>2, <2>4, <2>7, <2>13, <2>14 DEF Later
  <2>16. TailTypeOK'
    BY <1>1, <1>2, <2>1, <2>2, <2>7 DEF TailTypeOK
  <2>17. Windows'
    BY <1>2, <1>5, <2>1, <2>15 DEF Windows
  <2>18. Printing'
    BY <2>1 DEF Printing
  <2> QED
    BY <2>16, <2>17, <2>18 DEF TailInv
<1> QED
  BY <1>6, <1>10, <1>11


(* With nothing in the window, printing starts at the start of the file. *)
LEMMA NothingStep ==
    ASSUME T!TailAssumption, TailInv, T!NothingToRead
    PROVE  TailInv'
<1>1. TailTypeOK /\ Windows /\ tstep = "read" /\ T!Window = <<>>
  BY DEF TailInv, T!NothingToRead
<1>2. /\ tstep' = "print" /\ asked' = asked /\ text' = text /\ size' = size
      /\ shown' = shown /\ offset' = offset /\ lines' = lines
      /\ curr_pos' = curr_pos /\ bytes_to_read' = bytes_to_read
  BY DEF T!NothingToRead
<1>3. ~ (offset < WindowEnd) /\ WindowEnd \in Nat /\ WindowEnd <= Len(text)
      /\ WindowEnd = IF offset + bytes_to_read <= Len(text)
                     THEN offset + bytes_to_read ELSE Len(text)
  BY <1>1, WindowIs
<1>4. offset \in Nat /\ curr_pos \in Nat /\ size \in Nat /\ asked \in Int /\ lines \in Int
      /\ text \in Seq(T!Letters) /\ bytes_to_read \in Nat /\ Len(text) \in Nat
  BY <1>1 DEF TailTypeOK
<1>5. shown = <<>> /\ asked # 0 /\ size <= Len(text) /\ offset = curr_pos
  BY <1>1 DEF Windows
<1>6. BUF_SIZE \in Nat /\ BUF_SIZE > 1
  BY DEF T!TailAssumption
<1>7. First \/ Later
  BY <1>1 DEF Windows
<1>8. offset <= Len(text) /\ offset = 0
  <2>1. CASE First
    <3>1. offset = T!FirstWindow(size) /\ bytes_to_read = BUF_SIZE
      BY <1>5, <2>1 DEF First
    <3>2. offset = IF size >= BUF_SIZE THEN size - BUF_SIZE + 1 ELSE 0
      BY <1>4, <3>1, FirstWindowIs
    <3>3. offset <= size
      BY <1>4, <1>6, <3>2
    <3>4. WindowEnd > offset \/ WindowEnd = Len(text)
      BY <1>3, <1>4, <1>6, <3>1
    <3>5. offset = 0
      BY <1>3, <1>4, <1>5, <1>6, <3>2, <3>4
    <3> QED
      BY <1>4, <1>5, <3>5
  <2>2. CASE Later
    <3>1. PICK e : Reach(e) /\ curr_pos + bytes_to_read <= e
      BY <2>2 DEF Later
    <3>2. offset + bytes_to_read <= Len(text)
      BY <1>4, <1>5, <3>1 DEF Reach
    <3>3. bytes_to_read = 0
      BY <1>3, <1>4, <3>2
    <3>4. curr_pos = 0
      BY <1>6, <2>2, <3>3 DEF Later
    <3> QED
      BY <1>4, <1>5, <3>4
  <2> QED
    BY <1>7, <2>1, <2>2
<1>9. ASSUME asked > 0 PROVE Good(0)
  <2>1. lines >= 0
    BY <1>1, <1>9, Counted
  <2>2. PICK e : CountedTo(e)
    BY <1>1, <1>9, Counted
  <2>3. Reach(e) /\ e \in Nat /\ WindowEnd <= e
    BY <2>2 DEF CountedTo, Reach
  <2>4. WindowEnd = 0
    BY <1>3, <1>8
  <2>5. lines = asked - Count(text, 0, e)
    BY <2>2, <2>4 DEF CountedTo
  <2>6. Count(text, 0, e) \in Nat
    BY <2>3, CountType
  <2>7. Count(text, 0, e) <= asked /\ 0 <= e
    BY <1>4, <2>1, <2>3, <2>5, <2>6
  <2> QED
    BY <2>3, <2>7 DEF Good
<1>10. Printed(offset, offset)
  <2>1. SubSeq(text, offset + 1, offset) = <<>>
    BY <1>4, PartOfNothing, Zenon
  <2> QED
    BY <1>4, <1>5, <1>8, <1>9, <2>1 DEF Printed
<1>11. Printed(offset, offset)'
  BY <1>2, <1>10 DEF Printed, Good, Reach
<1>12. TailTypeOK'
  BY <1>1, <1>2 DEF TailTypeOK
<1>13. Windows'
  BY <1>2, <1>5 DEF Windows
<1>14. Printing'
  BY <1>2, <1>11 DEF Printing
<1> QED
  BY <1>12, <1>13, <1>14 DEF TailInv

LEMMA AppendStep ==
    ASSUME T!TailAssumption, TailInv, NEW byte \in {NL, "x"}, T!OtherAppends(byte)
    PROVE  TailInv'
<1>1. /\ TailTypeOK /\ Windows /\ Printing /\ tstep \in {"sized", "read", "print"}
      /\ text \in Seq(T!Letters) /\ byte \in T!Letters
  BY DEF TailInv, T!OtherAppends, TailTypeOK, T!Letters
<1>2. /\ text' = Append(text, byte) /\ tstep' = tstep /\ asked' = asked /\ size' = size
      /\ shown' = shown /\ offset' = offset /\ lines' = lines
      /\ curr_pos' = curr_pos /\ bytes_to_read' = bytes_to_read
  BY DEF T!OtherAppends
<1>3. /\ text' \in Seq(T!Letters) /\ Len(text) \in Nat /\ Len(text') \in Nat
      /\ Len(text) <= Len(text') /\ \A i \in 1 .. Len(text) : text'[i] = text[i]
  BY <1>1, <1>2
<1>4. ASSUME NEW e, Reach(e)
      PROVE  Reach(e)' /\ \A a \in Nat : Count(text', a, e) = Count(text, a, e)
  <2>1. e \in Nat /\ e <= Len(text)
    BY <1>4 DEF Reach
  <2>2. e <= Len(text')
    BY <1>3, <2>1
  <2>3. \A a \in Nat : Count(text', a, e) = Count(text, a, e)
    BY <1>1, <1>2, <2>1, CountKept
  <2> QED
    BY <1>2, <1>4, <2>2, <2>3 DEF Reach
<1>5. ASSUME Later PROVE Later'
  <2>1. PICK e : /\ Reach(e) /\ curr_pos + bytes_to_read <= e
                 /\ lines = asked - Count(text, curr_pos + bytes_to_read, e)
    BY <1>5 DEF Later
  <2>2. curr_pos + bytes_to_read \in Nat
    BY <1>1 DEF TailTypeOK
  <2>3. Reach(e)' /\ lines = asked - Count(text', curr_pos + bytes_to_read, e)
    BY <1>4, <2>1, <2>2
  <2> QED
    BY <1>2, <1>5, <2>1, <2>3 DEF Later
<1>6. ASSUME NEW p \in Nat, p <= Len(text), Good(p) PROVE Good(p)'
  <2>1. PICK e : /\ Reach(e) /\ p <= e
                 /\ \/ Count(text, p, e) = asked
                    \/ p = 0 /\ Count(text, p, e) <= asked
    BY <1>6 DEF Good
  <2>2. Reach(e)' /\ Count(text', p, e) = Count(text, p, e)
    BY <1>4, <2>1
  <2>3. p = 0 \/ text'[p] = NL
    BY <1>3, <1>6 DEF Good
  <2> QED
    BY <1>2, <2>1, <2>2, <2>3 DEF Good
<1>7. TailTypeOK'
  BY <1>1, <1>2, <1>3 DEF TailTypeOK
<1>8. Windows'
  <2>1. size <= Len(text) => size <= Len(text')
    BY <1>1, <1>3 DEF TailTypeOK
  <2>2. First => First'
    BY <1>2 DEF First
  <2> QED
    BY <1>1, <1>2, <1>5, <2>1, <2>2 DEF Windows
<1>9. Printing'
  <2>1. ASSUME tstep = "print" PROVE \E p : Printed(p, offset)'
    <3>1. PICK p : Printed(p, offset)
      BY <1>1, <2>1 DEF Printing
    <3>2. p \in Nat /\ offset \in Nat /\ p <= offset /\ offset <= Len(text)
          /\ shown = SubSeq(text, p + 1, offset) /\ (asked > 0 => Good(p))
      BY <3>1 DEF Printed
    <3>3. SubSeq(text', p + 1, offset) = SubSeq(text, p + 1, offset)
      BY <1>1, <1>2, <3>2, PartKept
    <3>4. asked > 0 => Good(p)'
      <4>1. p <= Len(text)
        BY <1>3, <3>2
      <4> QED
        BY <1>6, <3>2, <4>1
    <3>5. offset <= Len(text')
      BY <1>3, <3>2
    <3>6. Printed(p, offset)'
      BY <1>2, <3>2, <3>3, <3>4, <3>5 DEF Printed
    <3> QED
      BY <3>6
  <2> QED
    BY <1>1, <1>2, <2>1 DEF Printing
<1> QED
  BY <1>7, <1>8, <1>9 DEF TailInv

LEMMA CopyStep ==
    ASSUME T!TailAssumption, TailInv, T!CopyOut
    PROVE  TailInv'
<1>1. TailTypeOK /\ Windows /\ Printing /\ tstep = "print" /\ offset < Len(text)
  BY DEF TailInv, T!CopyOut
<1>2. /\ tstep' = tstep /\ asked' = asked /\ text' = text /\ size' = size
      /\ shown' = Append(shown, text[offset + 1]) /\ offset' = offset + 1 /\ lines' = lines
      /\ curr_pos' = curr_pos /\ bytes_to_read' = bytes_to_read
  BY DEF T!CopyOut
<1>3. PICK p : Printed(p, offset)
  BY <1>1 DEF Printing
<1>4. p \in Nat /\ offset \in Nat /\ p <= offset /\ offset <= Len(text)
      /\ shown = SubSeq(text, p + 1, offset) /\ (asked > 0 => Good(p))
  BY <1>3 DEF Printed
<1>5. text \in Seq(T!Letters) /\ shown \in Seq(T!Letters)
  BY <1>1 DEF TailTypeOK
<1>6. Append(SubSeq(text, p + 1, offset), text[offset + 1]) = SubSeq(text, p + 1, offset + 1)
  BY <1>1, <1>4, <1>5, PartGrows
<1>7. offset + 1 \in Nat /\ p <= offset + 1 /\ offset + 1 <= Len(text)
  BY <1>1, <1>4, <1>5
<1>8. Printed(p, offset)'
  <2>1. asked' > 0 => Good(p)'
    BY <1>2, <1>4 DEF Good, Reach
  <2>2. shown' = SubSeq(text', p + 1, offset + 1)
    BY <1>2, <1>4, <1>6
  <2> QED
    BY <1>2, <1>4, <1>6, <1>7, <2>1, <2>2 DEF Printed
<1>9. TailTypeOK'
  <2>1. text[offset + 1] \in T!Letters
    BY <1>1, <1>4, <1>5
  <2>2. shown' \in Seq(T!Letters)
    BY <1>2, <1>5, <2>1
  <2> QED
    BY <1>1, <1>2, <1>7, <2>2 DEF TailTypeOK
<1>10. Windows'
  BY <1>1, <1>2 DEF Windows
<1>11. Printing'
  BY <1>1, <1>2, <1>8 DEF Printing
<1> QED
  BY <1>9, <1>10, <1>11 DEF TailInv


-----------------------------------------------------------------------------
(* The theorems *)

LEMMA TailInitial ==
    ASSUME T!TailAssumption, T!Init
    PROVE  TailInv
  BY DEF T!Init, TailInv, TailTypeOK, Windows, Printing

LEMMA MainStep ==
    ASSUME T!TailAssumption, TailInv, NEW n \in LineCounts, NEW t \in Contents, T!Main(n, t)
    PROVE  TailInv'
<1>1. TailTypeOK /\ Windows /\ tstep = "idle" /\ shown = <<>>
  BY DEF TailInv, T!Main, Windows
<1>2. n \in Int /\ t \in Seq(T!Letters) /\ Len(t) \in Nat
  BY DEF T!TailAssumption
<1>3. /\ lines' = n /\ asked' = n /\ text' = t
      /\ curr_pos' = curr_pos /\ bytes_to_read' = bytes_to_read
      /\ offset' = offset /\ shown' = shown
      /\ \/ n = 0 /\ tstep' = "ok" /\ size' = size
         \/ n # 0 /\ tstep' = "sized" /\ size' = Len(t)
         \/ tstep' = "failed" /\ size' = size
  BY DEF T!Main
<1>4. TailTypeOK'
  BY <1>1, <1>2, <1>3 DEF TailTypeOK
<1>5. Windows'
  BY <1>1, <1>2, <1>3 DEF Windows
<1>6. Printing'
  BY <1>3 DEF Printing
<1> QED
  BY <1>4, <1>5, <1>6 DEF TailInv

LEMMA FindStep ==
    ASSUME T!TailAssumption, TailInv, T!FindWindow
    PROVE  TailInv'
<1>1. TailTypeOK /\ Windows /\ tstep = "sized"
  BY DEF TailInv, T!FindWindow
<1>2. /\ tstep' = "read" /\ lines' = lines /\ asked' = asked /\ text' = text
      /\ size' = size /\ shown' = shown /\ bytes_to_read' = BUF_SIZE
      /\ curr_pos' = T!FirstWindow(size) /\ offset' = T!FirstWindow(size)
  BY DEF T!FindWindow
<1>3. BUF_SIZE \in Nat /\ T!FirstWindow(size) \in Nat
  <2>1. size \in Nat /\ BUF_SIZE \in Nat
    BY <1>1 DEF TailTypeOK, T!TailAssumption
  <2>2. T!FirstWindow(size) = IF size >= BUF_SIZE THEN size - BUF_SIZE + 1 ELSE 0
    BY <2>1, FirstWindowIs
  <2> QED
    BY <2>1, <2>2
<1>4. TailTypeOK'
  BY <1>1, <1>2, <1>3 DEF TailTypeOK
<1>5. First'
  BY <1>1, <1>2 DEF First, Windows
<1>6. Windows'
  BY <1>1, <1>2, <1>5 DEF Windows
<1>7. Printing'
  BY <1>2 DEF Printing
<1> QED
  BY <1>4, <1>6, <1>7 DEF TailInv

LEMMA EndStep ==
    ASSUME T!TailAssumption, TailInv, T!EndOfText
    PROVE  TailInv'
<1>1. TailTypeOK /\ Windows /\ Printing /\ tstep = "print" /\ offset = Len(text)
  BY DEF TailInv, T!EndOfText
<1>2. /\ tstep' = "ok" /\ asked' = asked /\ text' = text /\ size' = size
      /\ shown' = shown /\ offset' = offset /\ lines' = lines
      /\ curr_pos' = curr_pos /\ bytes_to_read' = bytes_to_read
  BY DEF T!EndOfText
<1>3. PICK p : Printed(p, Len(text))
  BY <1>1 DEF Printing
<1>4. Printed(p, Len(text))'
  BY <1>2, <1>3 DEF Printed, Good, Reach
<1>5. TailTypeOK'
  BY <1>1, <1>2 DEF TailTypeOK
<1>6. Windows'
  BY <1>2 DEF Windows
<1>7. Printing'
  BY <1>2, <1>4 DEF Printing
<1> QED
  BY <1>5, <1>6, <1>7 DEF TailInv

LEMMA FailStep ==
    ASSUME T!TailAssumption, TailInv, T!CallFails
    PROVE  TailInv'
  BY DEF TailInv, T!CallFails, TailTypeOK, Windows, Printing

LEMMA TailStutter ==
    ASSUME TailInv, UNCHANGED T!vars
    PROVE  TailInv'
<1>1. /\ tstep' = tstep /\ asked' = asked /\ text' = text /\ size' = size
      /\ shown' = shown /\ offset' = offset /\ lines' = lines
      /\ curr_pos' = curr_pos /\ bytes_to_read' = bytes_to_read
  BY DEF T!vars
<1>2. TailTypeOK'
  BY <1>1 DEF TailInv, TailTypeOK
<1>3. Windows'
  BY <1>1 DEF TailInv, Windows, First, Later, Reach
<1>4. Printing'
  BY <1>1 DEF TailInv, Printing, Printed, Good, Reach
<1> QED
  BY <1>2, <1>3, <1>4 DEF TailInv

(* The other programs leave tail alone.                                   *)
LEMMA TailStep ==
    ASSUME [Next]_vars
    PROVE  [T!Next]_(T!vars)
<1>1. CASE UNCHANGED vars
  BY <1>1 DEF vars, tailing, T!vars
<1>2. CASE Next
  BY <1>2 DEF Next, OnlyTail, OnlyEnviron, OnlyVectored, OnlyAppenders, OnlyDatagrams, tailing, T!vars
<1> QED
  BY <1>1, <1>2

(* Where the windows are, what has been counted and what has been printed, *)
(* in every state of tail (13.5.c).                                        *)
THEOREM TailInvariance == Spec => []TailInv
<1>1. T!TailAssumption
  BY TailBounds
<1>2. Init => TailInv
  BY <1>1, TailInitial DEF Init
<1>3. ASSUME TailInv, T!Next PROVE TailInv'
  BY <1>1, <1>3, MainStep, FindStep, ReadStep, NothingStep, CopyStep, EndStep, FailStep,
     AppendStep
  DEF T!Next
<1>4. TailInv /\ [T!Next]_(T!vars) => TailInv'
  BY <1>3, TailStutter
<1>5. TailInv /\ [Next]_vars => TailInv'
  BY <1>4, TailStep
<1> QED
  BY <1>2, <1>5, PTL DEF Spec

(* What tail prints (13.5.c) starts with the line that was asked for and   *)
(* ends with the end of the file.                                          *)
THEOREM LinesShown == Spec => []LastLines
<1>1. ASSUME TailInv PROVE LastLines
  <2>1. SUFFICES ASSUME tstep = "ok", asked # 0
                 PROVE  /\ shown = SubSeq(text, Len(text) - Len(shown) + 1, Len(text))
                        /\ asked > 0 =>
                             /\ \/ Len(text) - Len(shown) = 0
                                \/ text[Len(text) - Len(shown)] = NL
                             /\ \E e \in size .. Min({Len(text), Max({size + 1, BUF_SIZE})}) :
                                  LET p == Len(text) - Len(shown)
                                      n == Cardinality(T!Newlines(SubSeq(text, p + 1, e)))
                                  IN  n = asked \/ (p = 0 /\ n <= asked)
    BY TMax, TMin, TCardinality DEF LastLines, T!LastLines
  <2>2. PICK p : Printed(p, Len(text))
    BY <1>1, <2>1 DEF TailInv, Printing
  <2>3. /\ p \in Nat /\ p <= Len(text) /\ shown = SubSeq(text, p + 1, Len(text))
        /\ asked > 0 => Good(p)
    BY <2>2 DEF Printed
  <2>4. text \in Seq(T!Letters) /\ size \in Nat /\ Len(text) \in Nat
    BY <1>1 DEF TailInv, TailTypeOK
  <2>5. Len(text) - Len(shown) = p
    BY <2>3, <2>4
  <2>6. ASSUME asked > 0
        PROVE  \E e \in size .. Min({Len(text), Max({size + 1, BUF_SIZE})}) :
                 LET n == Cardinality(T!Newlines(SubSeq(text, p + 1, e)))
                 IN  n = asked \/ (p = 0 /\ n <= asked)
    <3>1. PICK e : /\ Reach(e) /\ p <= e
                   /\ \/ Count(text, p, e) = asked
                      \/ p = 0 /\ Count(text, p, e) <= asked
      BY <2>3, <2>6 DEF Good
    <3>2. e \in Nat /\ size <= e /\ e <= Len(text) /\ (e <= size + 1 \/ e <= BUF_SIZE)
      BY <3>1 DEF Reach
    <3>3. PICK l \in Nat, m \in Nat : l = Len(text) /\ m = Max({size + 1, BUF_SIZE})
                                      /\ m >= size + 1 /\ m >= BUF_SIZE
      <4>1. size + 1 \in Nat /\ BUF_SIZE \in Nat
        BY <2>4, TailBounds DEF T!TailAssumption
      <4>2. Max({size + 1, BUF_SIZE}) = IF size + 1 >= BUF_SIZE THEN size + 1 ELSE BUF_SIZE
        BY <4>1, MaxOfTwo
      <4>3. PICK m : m = Max({size + 1, BUF_SIZE})
        OBVIOUS
      <4>4. m \in Nat /\ m >= size + 1 /\ m >= BUF_SIZE
        BY <4>1, <4>2, <4>3
      <4> QED
        BY <2>4, <4>3, <4>4
    <3>4. Min({l, m}) = IF l <= m THEN l ELSE m
      BY MinOfTwo
    <3>5. BUF_SIZE \in Nat
      BY TailBounds DEF T!TailAssumption
    <3>6. e \in size .. Min({l, m})
      BY <2>4, <3>2, <3>3, <3>4, <3>5
    <3>7. Cardinality(T!Newlines(SubSeq(text, p + 1, e))) = Count(text, p, e)
      BY <2>3, <2>4, <3>1, <3>2, CountIs
    <3> QED
      BY <3>1, <3>3, <3>6, <3>7
  <2>7. asked > 0 => p = 0 \/ text[p] = NL
    BY <2>3 DEF Good
  <2> QED
    BY <2>3, <2>5, <2>6, <2>7
<1>2. TailInv => LastLines
  BY <1>1
<1> QED
  BY <1>2, TailInvariance, PTL

-----------------------------------------------------------------------------
(* The environment (6.3.c): strings "name=value" in a list.                *)
LEMMA EMin == \A S : E!Min(S) = Min(S)
  BY DEF E!Min, Min

LEMMA ECardinality == \A S : E!Cardinality(S) = Cardinality(S)
  BY DEF E!Cardinality, Cardinality

(* A string has a name when there is an EQ in it.                          *)
Named(s, n) == E!Cut(s) <= Len(s) /\ E!NameOf(s) = n
NoEq(n) == \A i \in DOMAIN n : n[i] # EQ

LEMMA CutIs ==
    ASSUME NEW s \in Seq(Characters)
    PROVE  /\ E!Cut(s) \in 1 .. Len(s) + 1
           /\ \A i \in 1 .. Len(s) : s[i] = EQ => E!Cut(s) <= i
           /\ E!Cut(s) <= Len(s) => s[E!Cut(s)] = EQ
<1>1. PICK A : A = {Len(s) + 1} \cup {i \in DOMAIN s : s[i] = EQ}
  OBVIOUS
<1>2. A \in SUBSET Nat /\ A # {} /\ \A i \in A : i \in 1 .. Len(s) + 1
  BY <1>1
<1>3. Min(A) \in A /\ \A y \in A : Min(A) <= y
  BY <1>2, LeastOf
<1>4. E!Cut(s) = Min(A)
  BY <1>1, EMin DEF E!Cut
<1>5. E!Cut(s) \in A /\ \A y \in A : E!Cut(s) <= y
  BY <1>3, <1>4
<1>6. \A i \in 1 .. Len(s) : s[i] = EQ => i \in A
  BY <1>1
<1>7. E!Cut(s) <= Len(s) => s[E!Cut(s)] = EQ
  BY <1>1, <1>5
<1> QED
  BY <1>2, <1>5, <1>6, <1>7

(* The name and the value of a string that begins with n and an EQ.        *)
LEMMA NameIs ==
    ASSUME NEW s \in Seq(Characters), NEW n \in Seq(Characters), NoEq(n),
           Len(n) < Len(s), s[Len(n) + 1] = EQ, \A i \in 1 .. Len(n) : s[i] = n[i]
    PROVE  E!Cut(s) = Len(n) + 1 /\ Named(s, n)
<1>1. PICK c : c = E!Cut(s)
  OBVIOUS
<1>2. /\ c \in 1 .. Len(s) + 1
      /\ \A i \in 1 .. Len(s) : s[i] = EQ => c <= i
      /\ c <= Len(s) => s[c] = EQ
  BY <1>1, CutIs
<1>3. PICK k \in Nat, l \in Nat : k = Len(n) /\ l = Len(s)
  OBVIOUS
<1>4. c <= k + 1
  BY <1>2, <1>3
<1>5. ~ (c <= k)
  <2>1. ASSUME c <= k PROVE FALSE
    <3>1. c \in DOMAIN n /\ s[c] = n[c] /\ s[c] = EQ
      BY <1>2, <1>3, <2>1
    <3> QED
      BY <3>1 DEF NoEq
  <2> QED
    BY <2>1
<1>6. c = k + 1
  BY <1>2, <1>3, <1>4, <1>5
<1>7. SubSeq(s, 1, k) = n
  BY <1>3
<1>8. c <= Len(s) /\ E!NameOf(s) = n
  BY <1>1, <1>3, <1>6, <1>7 DEF E!NameOf
<1> QED
  BY <1>1, <1>3, <1>6, <1>8 DEF Named

LEMMA NameHas ==
    ASSUME NEW s \in Seq(Characters), NEW n, Named(s, n)
    PROVE  /\ n \in Seq(Characters) /\ NoEq(n) /\ Len(n) + 1 <= Len(s)
           /\ s[Len(n) + 1] = EQ /\ \A i \in 1 .. Len(n) : s[i] = n[i]
<1>1. PICK c : c = E!Cut(s)
  OBVIOUS
<1>2. /\ c \in 1 .. Len(s) + 1
      /\ \A i \in 1 .. Len(s) : s[i] = EQ => c <= i
      /\ c <= Len(s) => s[c] = EQ
  BY <1>1, CutIs
<1>3. c <= Len(s) /\ n = SubSeq(s, 1, c - 1)
  BY <1>1 DEF Named, E!NameOf
<1>4. PICK k \in Nat : c = k + 1
  BY <1>2
<1>5. n = SubSeq(s, 1, k) /\ k + 1 <= Len(s)
  BY <1>3, <1>4
<1>6. n \in Seq(Characters) /\ Len(n) = k /\ \A i \in 1 .. k : n[i] = s[i]
  BY <1>5
<1>7. NoEq(n)
  <2> SUFFICES ASSUME NEW i \in DOMAIN n PROVE n[i] # EQ
    BY DEF NoEq
  <2>1. i \in 1 .. k
    BY <1>6
  <2>2. n[i] = s[i] /\ i \in 1 .. Len(s) /\ ~(c <= i)
    BY <1>4, <1>5, <1>6, <2>1
  <2> QED
    BY <1>2, <2>2
<1> QED
  BY <1>2, <1>4, <1>5, <1>6, <1>7

(* getenv's comparison finds the strings of a name.                        *)
LEMMA PrefixIs ==
    ASSUME NEW s \in Seq(Characters), NEW n \in Seq(Characters), NoEq(n),
           E!EnvironAssumption
    PROVE  E!IsPrefix(n \o <<EQ>>, s) <=> Named(s, n)
<1>1. PICK k \in Nat, l \in Nat : k = Len(n) /\ l = Len(s)
  OBVIOUS
<1>2. PICK p : p = n \o <<EQ>>
  OBVIOUS
<1>3. /\ p \in Seq(Characters) /\ Len(p) = k + 1 /\ p[k + 1] = EQ
      /\ \A i \in 1 .. k : p[i] = n[i]
  BY <1>1, <1>2 DEF E!EnvironAssumption
<1>4. E!IsPrefix(p, s) <=> k + 1 <= l /\ SubSeq(p, 1, k + 1) = SubSeq(s, 1, k + 1)
  BY <1>1, <1>3 DEF E!IsPrefix
<1>5. ASSUME k + 1 <= l, SubSeq(p, 1, k + 1) = SubSeq(s, 1, k + 1)
      PROVE  Named(s, n)
  <2>1. \A i \in 1 .. k + 1 : SubSeq(p, 1, k + 1)[i] = p[i] /\ SubSeq(s, 1, k + 1)[i] = s[i]
    BY <1>1, <1>3, <1>5
  <2>2. \A i \in 1 .. k + 1 : p[i] = s[i]
    BY <1>5, <2>1
  <2>3. k + 1 \in 1 .. k + 1 /\ \A i \in 1 .. k : i \in 1 .. k + 1
    OBVIOUS
  <2>4. s[Len(n) + 1] = EQ /\ \A i \in 1 .. Len(n) : s[i] = n[i]
    BY <1>1, <1>3, <2>2, <2>3
  <2> QED
    BY <1>1, <1>5, <2>4, NameIs
<1>6. ASSUME Named(s, n)
      PROVE  k + 1 <= l /\ SubSeq(p, 1, k + 1) = SubSeq(s, 1, k + 1)
  <2>1. k + 1 <= l /\ s[k + 1] = EQ /\ \A i \in 1 .. k : s[i] = n[i]
    BY <1>1, <1>6, NameHas
  <2>2. \A i \in 1 .. k + 1 : p[i] = s[i]
    BY <1>3, <2>1
  <2> QED
    BY <1>1, <1>3, <2>1, <2>2
<1> QED
  BY <1>2, <1>4, <1>5, <1>6

LEMMA OneName ==
    ASSUME NEW s, NEW m, NEW n, Named(s, m), Named(s, n)
    PROVE  m = n
  BY DEF Named

(* The string that c_setenv makes.                                         *)
LEMMA MadeOf ==
    ASSUME NEW n \in Seq(Characters), NoEq(n), NEW v \in Seq(Characters),
           E!EnvironAssumption
    PROVE  /\ n \o <<EQ>> \o v \in Seq(Characters)
           /\ Named(n \o <<EQ>> \o v, n)
           /\ E!ValueOf(n \o <<EQ>> \o v) = v
<1>1. PICK k \in Nat, m \in Nat : k = Len(n) /\ m = Len(v)
  OBVIOUS
<1>2. PICK s : s = n \o <<EQ>> \o v
  OBVIOUS
<1>3. /\ s \in Seq(Characters) /\ Len(s) = k + 1 + m /\ s[k + 1] = EQ
      /\ \A i \in 1 .. k : s[i] = n[i]
      /\ \A i \in 1 .. m : s[k + 1 + i] = v[i]
  BY <1>1, <1>2, SMTT(30) DEF E!EnvironAssumption
<1>4. E!Cut(s) = k + 1 /\ Named(s, n)
  <2>1. Len(n) < Len(s) /\ s[Len(n) + 1] = EQ /\ \A i \in 1 .. Len(n) : s[i] = n[i]
    BY <1>1, <1>3
  <2> QED
    BY <1>1, <1>3, <2>1, NameIs
<1>5. SubSeq(s, (k + 1) + 1, k + 1 + m) = v
  <2>1. PICK u : u = SubSeq(s, (k + 1) + 1, k + 1 + m)
    OBVIOUS
  <2>2. u \in Seq(Characters) /\ Len(u) = m /\ \A i \in 1 .. m : u[i] = s[k + 1 + i]
    BY <1>1, <1>3, <2>1
  <2>3. u = v
    BY <1>1, <1>3, <2>2, SMTT(30)
  <2> QED
    BY <2>1, <2>3
<1>6. E!ValueOf(s) = v
  BY <1>3, <1>4, <1>5 DEF E!ValueOf
<1> QED
  BY <1>2, <1>3, <1>4, <1>6

-----------------------------------------------------------------------------
(* The members of a set of places, in order.                               *)
UpTo(K, m) == {j \in K : j <= m}

LEMMA UpToIs ==
    ASSUME NEW N \in Nat, NEW K \in SUBSET (1 .. N)
    PROVE  /\ IsFiniteSet(K) /\ Cardinality(K) \in Nat
           /\ \A m \in Nat : /\ Cardinality(UpTo(K, m)) \in Nat
                             /\ Cardinality(UpTo(K, m)) <= Cardinality(K)
           /\ \A m, o \in Nat : m <= o => Cardinality(UpTo(K, m)) <= Cardinality(UpTo(K, o))
           /\ \A m \in Nat : m + 1 \in K =>
                 Cardinality(UpTo(K, m + 1)) = Cardinality(UpTo(K, m)) + 1
<1>0. \A j \in K : j \in Nat /\ j \in 1 .. N
  OBVIOUS
<1>1. IsFiniteSet(K) /\ Cardinality(K) \in Nat
  <2>1. IsFiniteSet(1 .. N)
    BY FS_Interval
  <2>2. IsFiniteSet(K)
    BY <2>1, FS_Subset
  <2> QED
    BY <2>2, FS_CardinalityType
<1>2. ASSUME NEW m \in Nat
      PROVE  /\ IsFiniteSet(UpTo(K, m)) /\ Cardinality(UpTo(K, m)) \in Nat
             /\ Cardinality(UpTo(K, m)) <= Cardinality(K)
  <2>1. UpTo(K, m) \subseteq K
    BY DEF UpTo
  <2>2. IsFiniteSet(UpTo(K, m)) /\ Cardinality(UpTo(K, m)) <= Cardinality(K)
    BY <1>1, <2>1, FS_Subset
  <2> QED
    BY <2>2, FS_CardinalityType
<1>3. ASSUME NEW m \in Nat, NEW o \in Nat, m <= o
      PROVE  Cardinality(UpTo(K, m)) <= Cardinality(UpTo(K, o))
  <2>0. \A j \in K : j <= m => j <= o
    BY <1>0, <1>3
  <2>1. UpTo(K, m) \subseteq UpTo(K, o)
    BY <2>0 DEF UpTo
  <2> QED
    BY <1>2, <2>1, FS_Subset
<1>4. ASSUME NEW m \in Nat, m + 1 \in K
      PROVE  Cardinality(UpTo(K, m + 1)) = Cardinality(UpTo(K, m)) + 1
  <2>0. (\A j \in K : j <= m + 1 <=> j <= m \/ j = m + 1) /\ ~ (m + 1 <= m)
    BY <1>0
  <2>1. UpTo(K, m + 1) = UpTo(K, m) \cup {m + 1} /\ m + 1 \notin UpTo(K, m)
    BY <1>4, <2>0 DEF UpTo
  <2>2. IsFiniteSet(UpTo(K, m))
    BY <1>2
  <2> QED
    BY <2>1, <2>2, FS_AddElement
<1> QED
  BY <1>1, <1>2, <1>3, <1>4

LEMMA UpToOrder ==
    ASSUME NEW N \in Nat, NEW K \in SUBSET (1 .. N), NEW p \in K, NEW q \in K, p < q
    PROVE  Cardinality(UpTo(K, p)) < Cardinality(UpTo(K, q))
<1>1. PICK r \in Nat : q = r + 1
  <2>1. q - 1 \in Nat /\ q = (q - 1) + 1
    OBVIOUS
  <2> QED
    BY <2>1
<1>2. p \in Nat /\ p <= r
  BY <1>1
<1>3. Cardinality(UpTo(K, p)) <= Cardinality(UpTo(K, r))
  BY <1>1, <1>2, UpToIs
<1>4. Cardinality(UpTo(K, r + 1)) = Cardinality(UpTo(K, r)) + 1
  BY <1>1, UpToIs
<1>5. Cardinality(UpTo(K, r)) \in Nat /\ Cardinality(UpTo(K, p)) \in Nat
  BY <1>1, <1>2, UpToIs
<1> QED
  BY <1>1, <1>3, <1>4, <1>5

(* There is a k-th member of the set, and with it k of them.               *)
LEMMA KthIs ==
    ASSUME NEW N \in Nat, NEW K \in SUBSET (1 .. N), NEW k \in 1 .. Cardinality(K)
    PROVE  E!Kth(K, k) \in K /\ Cardinality(UpTo(K, E!Kth(K, k))) = k
<1>11. Cardinality(K) \in Nat
  BY UpToIs
<1>0. Cardinality(K) \in Nat /\ k \in Nat /\ 1 <= k /\ k <= Cardinality(K)
  BY <1>11
<1>10. \A j \in K : j \in Nat /\ 1 <= j /\ j <= N
  OBVIOUS
<1> DEFINE M == {m \in 0 .. N : Cardinality(UpTo(K, m)) >= k}
<1>1. N \in M
  <2>1. UpTo(K, N) = K
    BY <1>10 DEF UpTo
  <2> QED
    BY <1>0, <2>1
<1>2. M \in SUBSET Nat /\ M # {}
  BY <1>1
<1> HIDE DEF M
<1>3. PICK g : g \in M /\ \A m \in M : g <= m
  BY <1>2, LeastOf
<1>4. g \in 0 .. N /\ Cardinality(UpTo(K, g)) >= k
  BY <1>3 DEF M
<1>5. g # 0
  <2>0. \A j \in K : ~ (j <= 0)
    BY <1>10
  <2>1. UpTo(K, 0) = {}
    BY <2>0 DEF UpTo
  <2>2. Cardinality(UpTo(K, 0)) = 0
    BY <2>1, FS_EmptySet
  <2> QED
    BY <1>0, <1>4, <2>2
<1>6. PICK h \in Nat : g = h + 1
  <2>1. g - 1 \in Nat /\ g = (g - 1) + 1
    BY <1>4, <1>5
  <2> QED
    BY <2>1
<1>7. Cardinality(UpTo(K, h)) \in Nat /\ Cardinality(UpTo(K, h)) < k
  <2>1. h \in 0 .. N /\ h \notin M
    BY <1>3, <1>4, <1>6
  <2>2. Cardinality(UpTo(K, h)) \in Nat
    BY <1>6, UpToIs
  <2> QED
    BY <1>0, <2>1, <2>2 DEF M
<1>8. g \in K
  <2>1. ASSUME g \notin K PROVE FALSE
    <3>0. \A j \in K : j <= g <=> j <= h
      BY <1>6, <1>10, <2>1
    <3>1. UpTo(K, g) = UpTo(K, h)
      BY <3>0 DEF UpTo
    <3> QED
      BY <1>0, <1>4, <1>7, <3>1
  <2> QED
    BY <2>1
<1>9. Cardinality(UpTo(K, g)) = k
  <2>1. Cardinality(UpTo(K, h + 1)) = Cardinality(UpTo(K, h)) + 1
    BY <1>6, <1>8, UpToIs
  <2> QED
    BY <1>0, <1>4, <1>6, <1>7, <2>1
<1> QED
  BY <1>8, <1>9, ECardinality DEF E!Kth, UpTo

LEMMA KthOf ==
    ASSUME NEW N \in Nat, NEW K \in SUBSET (1 .. N), NEW p \in K
    PROVE  \E k \in 1 .. Cardinality(K) : E!Kth(K, k) = p
<1>1. PICK k : k = Cardinality(UpTo(K, p))
  OBVIOUS
<1>2. k \in Nat /\ k <= Cardinality(K) /\ Cardinality(K) \in Nat
  <2>1. p \in Nat
    OBVIOUS
  <2> QED
    BY <1>1, <2>1, UpToIs
<1>3. k # 0
  <2>1. PICK r \in Nat : p = r + 1
    <3>1. p - 1 \in Nat /\ p = (p - 1) + 1
      OBVIOUS
    <3> QED
      BY <3>1
  <2>2. Cardinality(UpTo(K, r + 1)) = Cardinality(UpTo(K, r)) + 1
    BY <2>1, UpToIs
  <2>3. Cardinality(UpTo(K, r)) \in Nat
    BY UpToIs
  <2> QED
    BY <1>1, <2>1, <2>2, <2>3
<1>4. k \in 1 .. Cardinality(K)
  BY <1>2, <1>3
<1>5. PICK q : q = E!Kth(K, k)
  OBVIOUS
<1>6. q \in K /\ Cardinality(UpTo(K, q)) = k
  BY <1>4, <1>5, KthIs
<1>7. ~ (p < q) /\ ~ (q < p)
  BY <1>1, <1>2, <1>6, UpToOrder, SMTT(30)
<1>8. q = p
  BY <1>6, <1>7
<1> QED
  BY <1>4, <1>5, <1>8

LEMMA KthOrder ==
    ASSUME NEW N \in Nat, NEW K \in SUBSET (1 .. N),
           NEW k \in 1 .. Cardinality(K), NEW l \in 1 .. Cardinality(K), k < l
    PROVE  E!Kth(K, k) < E!Kth(K, l)
<1>1. PICK q, r : q = E!Kth(K, k) /\ r = E!Kth(K, l)
  OBVIOUS
<1>2. /\ q \in K /\ Cardinality(UpTo(K, q)) = k
      /\ r \in K /\ Cardinality(UpTo(K, r)) = l
  BY <1>1, KthIs
<1>3. q \in Nat /\ r \in Nat
  BY <1>2
<1>4. r <= q => l <= k
  BY <1>2, <1>3, UpToIs
<1> QED
  BY <1>1, <1>3, <1>4

-----------------------------------------------------------------------------
(* The entries of a name, and the first of them.                           *)
List == Seq(Seq(Characters))
At(e, n) == {i \in DOMAIN e : Named(e[i], n)}
FirstOf(e, n) == Min(At(e, n))

LEMMA LeastIs ==
    ASSUME NEW S \in SUBSET Nat, NEW x \in S, \A y \in S : x <= y
    PROVE  Min(S) = x
<1>1. PICK k : k = Min(S)
  OBVIOUS
<1>2. k \in S /\ \A y \in S : k <= y
  BY <1>1, LeastOf
<1>3. k \in Nat /\ x \in Nat /\ k <= x /\ x <= k
  BY <1>2
<1> QED
  BY <1>1, <1>3

LEMMA AtIs ==
    ASSUME NEW e \in List, NEW n
    PROVE  /\ At(e, n) \in SUBSET Nat
           /\ \A i \in At(e, n) : i \in 1 .. Len(e) /\ e[i] \in Seq(Characters) /\ Named(e[i], n)
           /\ \A i \in 1 .. Len(e) : Named(e[i], n) => i \in At(e, n)
           /\ n \in E!NamesOf(e) <=> At(e, n) # {}
           /\ At(e, n) # {} => FirstOf(e, n) \in At(e, n) /\ \A i \in At(e, n) : FirstOf(e, n) <= i
<1>1. DOMAIN e = 1 .. Len(e) /\ \A i \in 1 .. Len(e) : e[i] \in Seq(Characters)
  BY DEF List
<1>2. At(e, n) \in SUBSET Nat
  BY <1>1 DEF At
<1>3. At(e, n) # {} => FirstOf(e, n) \in At(e, n) /\ \A i \in At(e, n) : FirstOf(e, n) <= i
  BY <1>2, LeastOf DEF FirstOf
<1>4. n \in E!NamesOf(e) <=> At(e, n) # {}
  BY DEF At, E!NamesOf, Named
<1> QED
  BY <1>1, <1>2, <1>3, <1>4 DEF At

(* What getenv shows of a name is the value of its first entry.            *)
LEMMA ShownIs ==
    ASSUME E!EnvironAssumption, NEW e \in List
    PROVE  E!ShownBy(e) = [n \in E!NamesOf(e) |-> E!ValueOf(e[FirstOf(e, n)])]
<1>1. ASSUME NEW n \in E!NamesOf(e)
      PROVE  E!Min({i \in DOMAIN e : E!IsPrefix(n \o <<EQ>>, e[i])}) = FirstOf(e, n)
  <2>1. PICK j \in At(e, n) : TRUE
    BY AtIs
  <2>2. n \in Seq(Characters) /\ NoEq(n)
    <3>1. e[j] \in Seq(Characters) /\ Named(e[j], n)
      BY AtIs
    <3> QED
      BY <3>1, NameHas
  <2>3. \A i \in DOMAIN e : e[i] \in Seq(Characters)
    BY DEF List
  <2>4. \A i \in DOMAIN e : E!IsPrefix(n \o <<EQ>>, e[i]) <=> Named(e[i], n)
    BY <2>2, <2>3, PrefixIs
  <2>5. {i \in DOMAIN e : E!IsPrefix(n \o <<EQ>>, e[i])} = At(e, n)
    BY <2>4 DEF At
  <2> QED
    BY <2>5, EMin DEF FirstOf
<1> QED
  BY <1>1 DEF E!ShownBy

(* The list f shows v for n and is like e otherwise.                       *)
Updated(e, f, n, v) ==
    /\ f \in List
    /\ E!ShownBy(f) = [m \in DOMAIN E!ShownBy(e) \cup {n} |->
                         IF m = n THEN v ELSE E!ShownBy(e)[m]]

(* An entry in the place of the first of its name, or at the end.          *)
LEMMA ReplacedIs ==
    ASSUME E!EnvironAssumption, NEW e \in List, NEW n, At(e, n) # {},
           NEW s \in Seq(Characters), Named(s, n),
           NEW f, f = [e EXCEPT ![FirstOf(e, n)] = s]
    PROVE  Updated(e, f, n, E!ValueOf(s))
<1>1. PICK p : p = FirstOf(e, n)
  OBVIOUS
<1>2. p \in 1 .. Len(e) /\ Named(e[p], n)
  BY <1>1, AtIs
<1>3. /\ f \in List /\ DOMAIN f = DOMAIN e /\ f[p] = s
      /\ \A i \in DOMAIN e : i # p => f[i] = e[i]
  BY <1>1, <1>2 DEF List
<1>4. ASSUME NEW m PROVE At(f, m) = At(e, m)
  <2>1. Named(e[p], m) <=> Named(f[p], m)
    BY <1>2, <1>3, OneName
  <2> QED
    BY <1>3, <2>1 DEF At
<1>5. \A m : FirstOf(f, m) = FirstOf(e, m)
  BY <1>4 DEF FirstOf
<1>6. E!NamesOf(f) = E!NamesOf(e) \cup {n}
  <2>1. \A m : m \in E!NamesOf(f) <=> m \in E!NamesOf(e)
    BY <1>3, <1>4, AtIs
  <2> QED
    BY <2>1, AtIs
<1>7. ASSUME NEW m \in E!NamesOf(e), m # n
      PROVE  f[FirstOf(f, m)] = e[FirstOf(e, m)]
  <2>1. FirstOf(e, m) \in DOMAIN e /\ Named(e[FirstOf(e, m)], m)
    BY AtIs
  <2>2. FirstOf(e, m) # p
    BY <1>2, <1>7, <2>1, OneName
  <2> QED
    BY <1>3, <1>5, <2>1, <2>2
<1>8. f[FirstOf(f, n)] = s
  BY <1>1, <1>3, <1>5
<1>9. /\ E!ShownBy(e) = [m \in E!NamesOf(e) |-> E!ValueOf(e[FirstOf(e, m)])]
      /\ E!ShownBy(f) = [m \in E!NamesOf(e) \cup {n} |-> E!ValueOf(f[FirstOf(f, m)])]
  BY <1>3, <1>6, ShownIs
<1>10. \A m \in E!NamesOf(e) \cup {n} :
          E!ValueOf(f[FirstOf(f, m)]) = IF m = n THEN E!ValueOf(s) ELSE E!ShownBy(e)[m]
  BY <1>7, <1>8, <1>9, ZenonT(60)
<1>11. DOMAIN E!ShownBy(e) = E!NamesOf(e)
  BY <1>9
<1>12. E!ShownBy(f) = [m \in E!NamesOf(e) \cup {n} |->
                         IF m = n THEN E!ValueOf(s) ELSE E!ShownBy(e)[m]]
  BY <1>9, <1>10, ZenonT(60)
<1> QED
  BY <1>3, <1>11, <1>12, Zenon DEF Updated

LEMMA AppendedIs ==
    ASSUME E!EnvironAssumption, NEW e \in List, NEW n, At(e, n) = {},
           NEW s \in Seq(Characters), Named(s, n),
           NEW f, f = Append(e, s)
    PROVE  Updated(e, f, n, E!ValueOf(s))
<1>1. PICK p \in Nat : p = Len(e) + 1
  BY DEF List
<1>2. /\ f \in List /\ DOMAIN f = DOMAIN e \cup {p} /\ f[p] = s /\ p \notin DOMAIN e
      /\ \A i \in DOMAIN e : f[i] = e[i]
  BY <1>1 DEF List
<1>3. ASSUME NEW m, m # n PROVE At(f, m) = At(e, m)
  <2>1. ~ Named(f[p], m)
    BY <1>2, <1>3, OneName
  <2> QED
    BY <1>2, <2>1 DEF At
<1>4. \A m : m # n => FirstOf(f, m) = FirstOf(e, m)
  BY <1>3 DEF FirstOf
<1>5. At(f, n) = {p}
  <2>1. \A i \in DOMAIN e : ~ Named(e[i], n)
    BY DEF At
  <2> QED
    BY <1>2, <2>1 DEF At
<1>6. FirstOf(f, n) = p
  BY <1>5, LeastIs DEF FirstOf
<1>7. E!NamesOf(f) = E!NamesOf(e) \cup {n}
  <2>1. \A m : m \in E!NamesOf(f) <=> m \in E!NamesOf(e) \/ m = n
    BY <1>2, <1>3, <1>5, AtIs
  <2> QED
    BY <2>1
<1>8. ASSUME NEW m \in E!NamesOf(e), m # n
      PROVE  f[FirstOf(f, m)] = e[FirstOf(e, m)]
  <2>1. FirstOf(e, m) \in DOMAIN e
    BY AtIs
  <2> QED
    BY <1>2, <1>4, <1>8, <2>1
<1>9. /\ E!ShownBy(e) = [m \in E!NamesOf(e) |-> E!ValueOf(e[FirstOf(e, m)])]
      /\ E!ShownBy(f) = [m \in E!NamesOf(e) \cup {n} |-> E!ValueOf(f[FirstOf(f, m)])]
  BY <1>2, <1>7, ShownIs
<1>10. \A m \in E!NamesOf(e) \cup {n} :
          E!ValueOf(f[FirstOf(f, m)]) = IF m = n THEN E!ValueOf(s) ELSE E!ShownBy(e)[m]
  BY <1>2, <1>6, <1>8, <1>9, ZenonT(60)
<1>11. DOMAIN E!ShownBy(e) = E!NamesOf(e)
  BY <1>9
<1>12. E!ShownBy(f) = [m \in E!NamesOf(e) \cup {n} |->
                         IF m = n THEN E!ValueOf(s) ELSE E!ShownBy(e)[m]]
  BY <1>9, <1>10
<1> QED
  BY <1>2, <1>11, <1>12, Zenon DEF Updated

LEMMA SequenceOf ==
    ASSUME NEW S, NEW n \in Nat, NEW f, f = [k \in 1 .. n |-> f[k]],
           \A k \in 1 .. n : f[k] \in S
    PROVE  f \in Seq(S) /\ DOMAIN f = 1 .. n
  OBVIOUS

(* The list without the entries of a name.                                 *)
Others(e, n) == DOMAIN e \ At(e, n)
Rest(e, K) == [k \in 1 .. Cardinality(K) |-> e[E!Kth(K, k)]]

LEMMA RestList ==
    ASSUME NEW e \in List, NEW K \in SUBSET (1 .. Len(e))
    PROVE  /\ Rest(e, K) \in List /\ DOMAIN Rest(e, K) = 1 .. Cardinality(K)
           /\ \A k \in 1 .. Cardinality(K) :
                 E!Kth(K, k) \in K /\ Rest(e, K)[k] = e[E!Kth(K, k)]
<1>1. Len(e) \in Nat
  BY DEF List
<1>2. PICK c \in Nat : c = Cardinality(K)
  BY <1>1, UpToIs
<1>3. \A k \in 1 .. c : E!Kth(K, k) \in K
  BY <1>1, <1>2, KthIs
<1>4. PICK f : f = Rest(e, K)
  OBVIOUS
<1>5. PICK S : S = Seq(Characters) /\ \A i \in 1 .. Len(e) : e[i] \in S
  BY DEF List
<1>6. /\ f = [k \in 1 .. c |-> f[k]]
      /\ \A k \in 1 .. c : f[k] = e[E!Kth(K, k)]
  BY <1>2, <1>4 DEF Rest
<1>7. \A k \in 1 .. c : f[k] \in S
  BY <1>3, <1>5, <1>6
<1>8. f \in Seq(S) /\ DOMAIN f = 1 .. c
  BY <1>6, <1>7, SequenceOf
<1> QED
  BY <1>2, <1>3, <1>4, <1>5, <1>6, <1>8 DEF List

LEMMA RestIs ==
    ASSUME E!EnvironAssumption, NEW e \in List, NEW n
    PROVE  /\ Rest(e, Others(e, n)) \in List /\ At(Rest(e, Others(e, n)), n) = {}
           /\ E!ShownBy(Rest(e, Others(e, n)))
                = [m \in DOMAIN E!ShownBy(e) \ {n} |-> E!ShownBy(e)[m]]
<1>0. PICK K, f : K = Others(e, n) /\ f = Rest(e, K)
  OBVIOUS
<1>1. PICK N \in Nat : N = Len(e) /\ DOMAIN e = 1 .. N
  BY DEF List
<1>2. K \in SUBSET (1 .. N)
  BY <1>0, <1>1 DEF Others
<1>3. PICK c \in Nat : c = Cardinality(K)
  BY <1>1, <1>2, UpToIs
<1>4. /\ f \in List /\ DOMAIN f = 1 .. c
      /\ \A k \in 1 .. c : E!Kth(K, k) \in K /\ f[k] = e[E!Kth(K, k)]
  BY <1>0, <1>1, <1>2, <1>3, RestList
<1>5. ASSUME NEW k \in 1 .. c
      PROVE  E!Kth(K, k) \in K /\ E!Kth(K, k) \in 1 .. N /\ f[k] = e[E!Kth(K, k)]
  BY <1>2, <1>4
<1>6. ASSUME NEW i \in K PROVE \E k \in 1 .. c : E!Kth(K, k) = i /\ f[k] = e[i]
  <2>1. PICK k \in 1 .. c : E!Kth(K, k) = i
    BY <1>1, <1>2, <1>3, KthOf
  <2> QED
    BY <1>5, <2>1
<1>7. At(f, n) = {}
  <2>1. ASSUME NEW k \in 1 .. c PROVE ~ Named(f[k], n)
    <3>1. E!Kth(K, k) \in DOMAIN e /\ E!Kth(K, k) \notin At(e, n)
      BY <1>0, <1>5 DEF Others
    <3> QED
      BY <1>5, <3>1 DEF At
  <2> QED
    BY <1>4, <2>1 DEF At
<1>8. ASSUME NEW m, m # n
      PROVE  /\ At(f, m) # {} <=> At(e, m) # {}
             /\ At(e, m) # {} => f[FirstOf(f, m)] = e[FirstOf(e, m)]
  <2>1. ASSUME NEW i \in At(e, m) PROVE i \in K
    <3>1. i \in DOMAIN e /\ Named(e[i], m) /\ ~ Named(e[i], n)
      BY <1>8, OneName DEF At
    <3> QED
      BY <1>0, <3>1 DEF At, Others
  <2>2. ASSUME NEW k \in At(f, m) PROVE k \in 1 .. c /\ E!Kth(K, k) \in At(e, m)
    <3>1. k \in 1 .. c /\ Named(f[k], m)
      BY <1>4 DEF At
    <3> QED
      BY <1>1, <1>5, <3>1 DEF At
  <2>3. ASSUME At(e, m) # {}
        PROVE  At(f, m) # {} /\ f[FirstOf(f, m)] = e[FirstOf(e, m)]
    <3>1. PICK p : p = FirstOf(e, m)
      OBVIOUS
    <3>2. p \in At(e, m) /\ \A i \in At(e, m) : p <= i
      BY <2>3, <3>1, AtIs
    <3>3. p \in K /\ Named(e[p], m)
      BY <2>1, <3>2 DEF At
    <3>4. PICK k \in 1 .. c : E!Kth(K, k) = p /\ f[k] = e[p]
      BY <1>6, <3>3
    <3>5. k \in At(f, m)
      BY <1>4, <3>3, <3>4 DEF At
    <3>6. ASSUME NEW l \in At(f, m) PROVE k <= l
      <4>1. l \in 1 .. c /\ p <= E!Kth(K, l) /\ E!Kth(K, l) \in 1 .. N
        BY <1>5, <2>2, <3>2
      <4>2. ASSUME l < k PROVE FALSE
        <5>1. E!Kth(K, l) < p
          BY <1>1, <1>2, <1>3, <3>4, <4>1, <4>2, KthOrder
        <5> QED
          BY <1>2, <3>3, <4>1, <5>1
      <4> QED
        BY <4>1, <4>2
    <3>7. At(f, m) \in SUBSET Nat
      BY <1>4, AtIs
    <3>8. FirstOf(f, m) = k
      BY <3>5, <3>6, <3>7, LeastIs DEF FirstOf
    <3> QED
      BY <3>1, <3>4, <3>5, <3>8
  <2> QED
    BY <2>2, <2>3
<1>9. E!NamesOf(f) = E!NamesOf(e) \ {n}
  <2>1. \A m : m \in E!NamesOf(f) <=> m \in E!NamesOf(e) /\ m # n
    BY <1>4, <1>7, <1>8, AtIs
  <2> QED
    BY <2>1
<1>10. /\ E!ShownBy(e) = [m \in E!NamesOf(e) |-> E!ValueOf(e[FirstOf(e, m)])]
       /\ E!ShownBy(f) = [m \in E!NamesOf(e) \ {n} |-> E!ValueOf(f[FirstOf(f, m)])]
  BY <1>4, <1>9, ShownIs
<1>11. ASSUME NEW m \in E!NamesOf(e) \ {n}
       PROVE  E!ValueOf(f[FirstOf(f, m)]) = E!ShownBy(e)[m]
  <2>1. m # n /\ At(e, m) # {} /\ m \in E!NamesOf(e)
    BY AtIs
  <2>2. f[FirstOf(f, m)] = e[FirstOf(e, m)]
    BY <1>8, <2>1
  <2> QED
    BY <1>10, <2>1, <2>2
<1>12. DOMAIN E!ShownBy(e) = E!NamesOf(e)
  BY <1>10
<1>13. E!ShownBy(f) = [m \in E!NamesOf(e) \ {n} |-> E!ShownBy(e)[m]]
  BY <1>10, <1>11
<1> QED
  BY <1>0, <1>4, <1>7, <1>12, <1>13, Zenon

-----------------------------------------------------------------------------
(* While c_unsetenv walks over the list, no entry of the name lies before  *)
(* its place.                                                              *)
EnvironInv ==
    /\ estep \in {"idle", "main", "walk"}
    /\ environ \in List /\ name \in Seq(Characters) /\ c_environ \in Nat
    /\ estep = "walk" => \A i \in At(environ, name) : c_environ <= i

Doing == IF estep = "walk" THEN name ELSE <<EQ>>

(* A step that callers do not notice.                                      *)
Unnoticed ==
    /\ (estep # "idle")' = (estep # "idle")
    /\ E!ShownBy(environ)' = E!ShownBy(environ)
    /\ Doing' = Doing /\ called' = called

LEMMA PlacesAre ==
    ASSUME NEW n
    PROVE  E!Places(n) = At(environ, n)
  BY DEF E!Places, At, Named

LEMMA StartStep ==
    ASSUME E!EnvironAssumption, EnvironInv, NEW e \in Environs, E!Start(e)
    PROVE  EnvironInv' /\ E!E!Next
<1>1. /\ estep = "idle" /\ estep' = "main" /\ environ' = e
      /\ name' = name /\ c_environ' = c_environ /\ called' = called
  BY DEF E!Start
<1>2. environ' \in List
  BY <1>1 DEF E!EnvironAssumption, List
<1>3. EnvironInv'
  BY <1>1, <1>2 DEF EnvironInv
<1>4. E!E!Start
  BY <1>1 DEF E!E!Start
<1> QED
  BY <1>3, <1>4 DEF E!E!Next

(* putenv's list.                                                          *)
LEMMA PutStep ==
    ASSUME E!EnvironAssumption, environ \in List,
           NEW n \in Seq(Characters), NoEq(n), NEW v \in Seq(Characters),
           environ' = E!Putenv(n \o <<EQ>> \o v)
    PROVE  Updated(environ, environ', n, v)
<1>1. PICK s : s = n \o <<EQ>> \o v
  OBVIOUS
<1>2. s \in Seq(Characters) /\ Named(s, n) /\ E!ValueOf(s) = v /\ E!NameOf(s) = n
  BY <1>1, MadeOf DEF Named
<1>3. PICK e, f : e = environ /\ f = environ'
  OBVIOUS
<1>4. f = IF At(e, n) # {} THEN [e EXCEPT ![FirstOf(e, n)] = s] ELSE Append(e, s)
  BY <1>1, <1>2, <1>3, PlacesAre, EMin DEF E!Putenv, E!IsSet, FirstOf
<1>5. CASE At(e, n) # {}
  <2>1. e \in List /\ f = [e EXCEPT ![FirstOf(e, n)] = s]
    BY <1>3, <1>4, <1>5
  <2>2. Updated(e, f, n, E!ValueOf(s))
    BY <1>2, <1>5, <2>1, ReplacedIs, Zenon
  <2> QED
    BY <1>2, <1>3, <2>2
<1>6. CASE At(e, n) = {}
  <2>1. e \in List /\ f = Append(e, s)
    BY <1>3, <1>4, <1>6
  <2>2. Updated(e, f, n, E!ValueOf(s))
    BY <1>2, <1>6, <2>1, AppendedIs, Zenon
  <2> QED
    BY <1>2, <1>3, <2>2
<1> QED
  BY <1>5, <1>6

(* getenv's answer.                                                        *)
LEMMA ShownHas ==
    ASSUME E!EnvironAssumption, environ \in List, NEW n
    PROVE  E!IsSet(n) <=> n \in DOMAIN E!ShownBy(environ)
<1>1. E!IsSet(n) <=> At(environ, n) # {}
  BY PlacesAre DEF E!IsSet
<1>2. DOMAIN E!ShownBy(environ) = E!NamesOf(environ)
  BY DEF E!ShownBy
<1>3. n \in E!NamesOf(environ) <=> At(environ, n) # {}
  BY AtIs
<1> QED
  BY <1>1, <1>2, <1>3

LEMMA SetenvStep ==
    ASSUME E!EnvironAssumption, EnvironInv,
           NEW n \in Strings, NEW v \in Strings, NEW overwrite \in BOOLEAN,
           E!c_setenv(n, v, overwrite)
    PROVE  EnvironInv' /\ E!E!Next
<1>1. /\ estep = "main" /\ estep' = "main" /\ called' = <<n, v, overwrite>>
      /\ name' = name /\ c_environ' = c_environ
  BY DEF E!c_setenv
<1>2. E!E!Stored(n, v, overwrite) <=> E!Accepts(n) /\ E!Accepts(v) /\ E!Stores(n, overwrite)
  BY ShownHas DEF EnvironInv, E!E!Stored, E!Stores
<1>3. CASE ~ E!E!Stored(n, v, overwrite)
  <2>1. environ' = environ
    BY <1>2, <1>3 DEF E!c_setenv
  <2>2. E!E!Set(n, v, overwrite)
    BY <1>1, <1>3, <2>1 DEF E!E!Set
  <2> QED
    BY <1>1, <2>1, <2>2 DEF EnvironInv, E!E!Next
<1>4. CASE E!E!Stored(n, v, overwrite)
  <2>1. E!Accepts(n) /\ environ' = E!Putenv(n \o <<EQ>> \o v)
    BY <1>2, <1>4 DEF E!c_setenv
  <2>2. n \in Seq(Characters) /\ v \in Seq(Characters)
    BY DEF E!EnvironAssumption
  <2>3. NoEq(n)
    BY <2>1 DEF E!Accepts, E!Range, NoEq
  <2>4. /\ environ' \in List
        /\ E!ShownBy(environ') = [m \in DOMAIN E!ShownBy(environ) \cup {n} |->
                                    IF m = n THEN v ELSE E!ShownBy(environ)[m]]
    BY <2>1, <2>2, <2>3, PutStep DEF EnvironInv, Updated
  <2>5. E!E!Set(n, v, overwrite)
    BY <1>1, <1>4, <2>4 DEF E!E!Set
  <2>6. EnvironInv'
    BY <1>1, <2>4 DEF EnvironInv
  <2> QED
    BY <2>5, <2>6 DEF E!E!Next
<1> QED
  BY <1>3, <1>4

LEMMA UnsetenvStep ==
    ASSUME E!EnvironAssumption, EnvironInv, NEW n \in Strings, E!c_unsetenv(n)
    PROVE  EnvironInv' /\ E!E!Next
<1>1. /\ estep = "main" /\ estep' = IF n = <<>> THEN "main" ELSE "walk"
      /\ environ' = environ /\ name' = n /\ c_environ' = 1 /\ called' = <<n>>
  BY DEF E!c_unsetenv, E!FirstPlace
<1>2. EnvironInv'
  <2>1. \A i \in At(environ, n) : 1 <= i
    BY AtIs DEF EnvironInv
  <2>2. At(environ, name)' = At(environ, n)
    BY <1>1 DEF At
  <2>3. n \in Seq(Characters)
    BY DEF E!EnvironAssumption
  <2> QED
    BY <1>1, <2>1, <2>2, <2>3 DEF EnvironInv
<1>3. n = <<>> => n \notin {s \in Strings : E!Accepts(s)}
  BY DEF E!Accepts
<1>4. E!ShownBy(environ)' = E!ShownBy(environ)
  BY <1>1
<1>5. E!E!BeginUnset(n)
  BY <1>1, <1>3, <1>4 DEF E!E!BeginUnset
<1> QED
  BY <1>2, <1>5 DEF E!E!Next

LEMMA WalkStep ==
    ASSUME E!EnvironAssumption, EnvironInv, E!Walk
    PROVE  EnvironInv' /\ (E!E!Next \/ Unnoticed)
<1>1. /\ estep = "walk" /\ estep' = "walk" /\ name' = name /\ called' = called
      /\ c_environ' = c_environ + 1 /\ c_environ <= Len(environ) /\ Len(environ) \in Nat
      /\ environ' = IF E!Matches(environ[c_environ]) THEN E!Unsetenv(name) ELSE environ
  BY DEF E!Walk, EnvironInv, List
<1>2. PICK e, n, c : e = environ /\ n = name /\ c = c_environ
  OBVIOUS
<1>3. /\ e \in List /\ n \in Seq(Characters) /\ c \in Nat /\ c <= Len(e) /\ Len(e) \in Nat
      /\ \A i \in At(e, n) : c <= i
  BY <1>1, <1>2 DEF EnvironInv
<1>4. CASE E!Matches(e[c]) 
  <2>1. NoEq(n)
    BY <1>2, <1>4 DEF E!Matches, E!Range, NoEq
  <2>2. n # <<EQ>>
    <3>1. ASSUME n = <<EQ>> PROVE FALSE
      <4>1. 1 \in DOMAIN n /\ n[1] = EQ
        BY <3>1
      <4> QED
        BY <2>1, <4>1 DEF NoEq
    <3> QED
      BY <3>1
  <2>3. environ' = Rest(e, Others(e, n))
    BY <1>1, <1>2, <1>4, PlacesAre, ECardinality DEF E!Unsetenv, Rest, Others
  <2>4. PICK f : f = environ'
    OBVIOUS
  <2>5. /\ f \in List /\ At(f, n) = {}
        /\ E!ShownBy(f) = [m \in DOMAIN E!ShownBy(e) \ {n} |-> E!ShownBy(e)[m]]
    BY <1>3, <2>3, <2>4, RestIs
  <2>6. EnvironInv'
    <3>1. At(environ', name') = {}
      BY <1>1, <1>2, <2>4, <2>5
    <3> QED
      BY <1>1, <1>2, <1>3, <2>4, <2>5, <3>1 DEF EnvironInv
  <2>7. E!E!Unset
    BY <1>1, <1>2, <2>2, <2>4, <2>5 DEF E!E!Unset
  <2> QED
    BY <2>6, <2>7 DEF E!E!Next
<1>5. CASE ~ E!Matches(e[c])
  <2>1. environ' = environ
    BY <1>1, <1>2, <1>5
  <2>2. ASSUME NEW i \in At(e, n) PROVE c + 1 <= i
    <3>1. i \in Nat /\ c <= i /\ e[i] \in Seq(Characters) /\ Named(e[i], n)
      BY <1>3, AtIs
    <3>2. ASSUME i = c PROVE FALSE
      <4>1. NoEq(n)
        BY <3>1, NameHas
      <4>2. E!IsPrefix(n \o <<EQ>>, e[c])
        BY <1>3, <3>1, <3>2, <4>1, PrefixIs
      <4> QED
        BY <1>2, <1>5, <4>1, <4>2 DEF E!Matches, E!Range, NoEq
    <3> QED
      BY <1>3, <3>1, <3>2
  <2>3. EnvironInv'
    BY <1>1, <1>2, <1>3, <2>1, <2>2 DEF EnvironInv
  <2>4. Unnoticed
    BY <1>1, <2>1 DEF Unnoticed, Doing
  <2> QED
    BY <2>3, <2>4
<1> QED
  BY <1>4, <1>5

LEMMA WalkedStep ==
    ASSUME E!EnvironAssumption, EnvironInv, E!Walked
    PROVE  EnvironInv' /\ E!E!Next
<1>1. /\ estep = "walk" /\ estep' = "main" /\ name' = name /\ environ' = environ
      /\ called' = called /\ c_environ' = c_environ /\ c_environ > Len(environ)
  BY DEF E!Walked
<1>2. name \notin E!NamesOf(environ)
  <2>1. ASSUME NEW i \in At(environ, name) PROVE FALSE
    <3>1. i \in 1 .. Len(environ) /\ c_environ <= i /\ c_environ \in Nat /\ Len(environ) \in Nat
      BY <1>1, AtIs DEF EnvironInv, List
    <3> QED
      BY <1>1, <3>1
  <2> QED
    BY <2>1, AtIs DEF EnvironInv
<1>3. name \notin DOMAIN E!ShownBy(environ)
  BY <1>2 DEF E!ShownBy
<1>4. E!E!EndUnset
  BY <1>1, <1>3 DEF E!E!EndUnset
<1> QED
  BY <1>1, <1>4 DEF EnvironInv, E!E!Next

(* The other programs leave the environment alone.                         *)
LEMMA EnvironStep ==
    ASSUME EnvironInv, [Next]_vars
    PROVE  EnvironInv' /\ (E!E!Next \/ Unnoticed)
<1>0. E!EnvironAssumption
  BY EnvironStrings
<1>1. ASSUME UNCHANGED setting
      PROVE  EnvironInv' /\ Unnoticed
  <2>1. /\ estep' = estep /\ environ' = environ /\ name' = name
        /\ c_environ' = c_environ /\ called' = called
    BY <1>1 DEF setting
  <2> QED
    BY <2>1 DEF EnvironInv, Unnoticed, Doing
<1>2. UNCHANGED setting \/ E!Next
  BY DEF vars, Next, OnlyTail, OnlyEnviron, OnlyVectored, OnlyAppenders, OnlyDatagrams
<1>3. ASSUME E!Next
      PROVE  EnvironInv' /\ (E!E!Next \/ Unnoticed)
  BY <1>0, <1>3, StartStep, SetenvStep, UnsetenvStep, WalkStep, WalkedStep DEF E!Next
<1> QED
  BY <1>1, <1>2, <1>3

(* To their callers c_setenv and c_unsetenv (6.3.c) set and unset the name *)
(* they are called with in a map, c_setenv to the value it is called with  *)
(* and only if it has none or overwrite is not 0, and after c_unsetenv the *)
(* name is gone however often it was in the list.                          *)
THEOREM EnvironRefinement == Spec => ImplementsEnvMap
<1>1. Init => EnvironInv /\ E!E!Init
  <2>1. ASSUME Init PROVE EnvironInv /\ E!E!Init
    <3>1. estep = "idle" /\ environ = <<>> /\ name = <<>> /\ c_environ = 1
      BY <2>1 DEF Init, E!Init
    <3>2. E!E!Init
      BY <2>1 DEF Init, E!Init, E!E!Init, E!ShownBy, E!NamesOf
    <3> QED
      BY <3>1, <3>2 DEF EnvironInv, List
  <2> QED
    BY <2>1
<1>2. EnvironInv /\ [Next]_vars
        => EnvironInv' /\ [E!E!Next]_<<estep # "idle", E!ShownBy(environ), Doing, called>>
  <2>1. Unnoticed => UNCHANGED <<estep # "idle", E!ShownBy(environ), Doing, called>>
    BY Zenon DEF Unnoticed
  <2> QED
    BY <2>1, EnvironStep
<1>3. Spec => E!E!Init /\ [][E!E!Next]_<<estep # "idle", E!ShownBy(environ), Doing, called>>
  BY <1>1, <1>2, PTL DEF Spec
<1>4. ImplementsEnvMap
        <=> E!E!Init /\ [][E!E!Next]_<<estep # "idle", E!ShownBy(environ), Doing, called>>
  BY DEF ImplementsEnvMap, E!ImplementsEnvMap, E!E!Spec, Doing
<1> QED
  BY <1>3, <1>4, PTL

-----------------------------------------------------------------------------
(* Vectored I/O *)

LEMMA VMin == \A S : V!Min(S) = Min(S)
  BY DEF V!Min, Min

Marks == Nat \X Nat
Sorted(s) == \A j, l \in 1 .. Len(s) : j < l => V!Earlier(s[j], s[l])

(* s is the first a buffers, one behind the other; st says where each of   *)
(* them starts.                                                            *)
Laid(s, st, a) ==
    /\ s \in Seq(Marks) /\ st \in [1 .. a + 1 -> Nat]
    /\ st[1] = 0 /\ st[a + 1] = Len(s)
    /\ \A i \in 1 .. a : st[i + 1] = st[i] + lengths[i] /\ st[i + 1] <= Len(s)
    /\ \A i \in 1 .. a : \A k \in 1 .. lengths[i] : s[st[i] + k] = <<i, k>>
    /\ \A j \in 1 .. Len(s) : \E i \in 1 .. a : \E k \in 1 .. lengths[i] : s[j] = <<i, k>>
    /\ Sorted(s)
    /\ (\A i \in 1 .. a : lengths[i] <= Word) => Len(s) <= Word * a

(* u is s with t behind it.                                                *)
Joined(s, t, u) ==
    /\ Len(u) = Len(s) + Len(t)
    /\ \A i \in 1 .. Len(s) : u[i] = s[i]
    /\ \A i \in 1 .. Len(t) : u[Len(s) + i] = t[i]

LEMMA JoinIs ==
    ASSUME NEW S, NEW s \in Seq(S), NEW t \in Seq(S)
    PROVE  s \o t \in Seq(S) /\ Joined(s, t, s \o t)
  BY DEF Joined

LEMMA LaidNext ==
    ASSUME lengths \in Seq(Nat), Word \in Nat,
           NEW s, NEW st, NEW a \in Nat, Laid(s, st, a), a < Len(lengths)
    PROVE  \E new : Laid(s \o V!Buffer(a + 1), new, a + 1)
<1>0. \A i \in 1 .. a + 1 : lengths[i] \in Nat
  OBVIOUS
<1>1. PICK m \in Nat : m = lengths[a + 1]
  OBVIOUS
<1>2. PICK n \in Nat : n = Len(s)
  BY DEF Laid
<1>3. PICK b : b = V!Buffer(a + 1)
  OBVIOUS
<1>4. b \in Seq(Marks) /\ Len(b) = m /\ \A k \in 1 .. m : b[k] = <<a + 1, k>>
  <2>1. b = [k \in 1 .. m |-> <<a + 1, k>>]
    BY <1>1, <1>3 DEF V!Buffer
  <2>2. \A k \in 1 .. m : <<a + 1, k>> \in Marks
    BY DEF Marks
  <2> QED
    BY <2>1, <2>2
<1>5. PICK t : t = s \o b
  OBVIOUS
<1>6. s \in Seq(Marks)
  BY DEF Laid
<1>7. /\ t \in Seq(Marks) /\ Len(t) = n + m
      /\ \A j \in 1 .. n : t[j] = s[j]
      /\ \A k \in 1 .. m : t[n + k] = <<a + 1, k>>
  <2>1. b \in Seq(Marks) /\ Len(b) = m
    BY <1>4
  <2>2. t \in Seq(Marks) /\ Joined(s, b, t)
    <3>1. s \o b \in Seq(Marks) /\ Joined(s, b, s \o b)
      BY <1>6, <2>1, JoinIs, Zenon
    <3> QED
      BY <1>5, <3>1
  <2> QED
    BY <1>2, <1>4, <2>1, <2>2 DEF Joined
<1>8. PICK new : new = [i \in 1 .. a + 2 |-> IF i <= a + 1 THEN st[i] ELSE n + m]
  OBVIOUS
<1>9. /\ st \in [1 .. a + 1 -> Nat] /\ st[1] = 0 /\ st[a + 1] = n
      /\ \A i \in 1 .. a : st[i + 1] = st[i] + lengths[i] /\ st[i + 1] <= n
  BY <1>2 DEF Laid
<1>10. /\ new \in [1 .. (a + 1) + 1 -> Nat] /\ new[1] = 0 /\ new[(a + 1) + 1] = n + m
       /\ \A i \in 1 .. a + 1 : new[i] = st[i]
  BY <1>8, <1>9
<1>11. \A i \in 1 .. a + 1 : new[i + 1] = new[i] + lengths[i] /\ new[i + 1] <= n + m
  <2>1. ASSUME NEW i \in 1 .. a
        PROVE  new[i + 1] = new[i] + lengths[i] /\ new[i + 1] <= n + m
    <3>1. i + 1 \in 1 .. a + 1 /\ i \in 1 .. a + 1
      OBVIOUS
    <3>2. new[i + 1] = st[i + 1] /\ new[i] = st[i]
      BY <1>10, <3>1
    <3>3. st[i + 1] = st[i] + lengths[i] /\ st[i + 1] <= n /\ st[i + 1] \in Nat
      BY <1>9, <3>1
    <3> QED
      BY <3>2, <3>3
  <2>2. new[(a + 1) + 1] = new[a + 1] + lengths[a + 1]
    BY <1>1, <1>9, <1>10
  <2>3. \A i \in 1 .. a + 1 : i \in 1 .. a \/ i = a + 1
    OBVIOUS
  <2>4. new[(a + 1) + 1] <= n + m
    BY <1>10
  <2> QED
    BY <2>1, <2>2, <2>3, <2>4
<1>12. \A i \in 1 .. a + 1 : \A k \in 1 .. lengths[i] : t[new[i] + k] = <<i, k>>
  <2>1. ASSUME NEW i \in 1 .. a, NEW k \in 1 .. lengths[i]
        PROVE  t[new[i] + k] = <<i, k>>
    <3>0. i \in 1 .. a + 1
      OBVIOUS
    <3>1. lengths[i] \in Nat /\ st[i] \in Nat /\ st[i] + lengths[i] <= n
      BY <1>0, <1>9, <3>0
    <3>2. st[i] + k \in 1 .. n
      <4>1. PICK x \in Nat, y \in Nat : x = st[i] /\ y = lengths[i] /\ x + y <= n
        BY <3>1
      <4>2. k \in 1 .. y /\ n \in Nat
        BY <4>1
      <4>3. x + k \in 1 .. n
        BY <4>1, <4>2, SMTT(30)
      <4> QED
        BY <4>1, <4>3
    <3>3. s[st[i] + k] = <<i, k>>
      BY DEF Laid
    <3>4. new[i] = st[i]
      BY <1>10, <3>0
    <3> QED
      BY <1>7, <3>2, <3>3, <3>4
  <2>2. ASSUME NEW k \in 1 .. lengths[a + 1]
        PROVE  t[new[a + 1] + k] = <<a + 1, k>>
    <3>1. new[a + 1] = n
      BY <1>9, <1>10
    <3> QED
      BY <1>1, <1>7, <3>1
  <2>3. \A i \in 1 .. a + 1 : i \in 1 .. a \/ i = a + 1
    OBVIOUS
  <2> QED
    BY <2>1, <2>2, <2>3
<1>13. \A j \in 1 .. n + m : \E i \in 1 .. a + 1 : \E k \in 1 .. lengths[i] : t[j] = <<i, k>>
  <2>1. ASSUME NEW j \in 1 .. n
        PROVE  \E i \in 1 .. a : \E k \in 1 .. lengths[i] : t[j] = <<i, k>>
    BY <1>2, <1>7 DEF Laid
  <2>2. ASSUME NEW j \in 1 .. n + m, j > n
        PROVE  \E k \in 1 .. lengths[a + 1] : t[j] = <<a + 1, k>>
    <3>1. j - n \in 1 .. m /\ n + (j - n) = j
      BY <2>2
    <3> QED
      BY <1>1, <1>7, <3>1
  <2>3. \A j \in 1 .. n + m : j \in 1 .. n \/ j > n
    OBVIOUS
  <2>4. a + 1 \in 1 .. a + 1 /\ \A i \in 1 .. a : i \in 1 .. a + 1
    OBVIOUS
  <2> QED
    BY <2>1, <2>2, <2>3, <2>4
<1>14. Sorted(t)
  <2>1. ASSUME NEW j \in 1 .. n + m, NEW l \in 1 .. n + m, j < l
        PROVE  V!Earlier(t[j], t[l])
    <3>1. CASE l <= n
      <4>1. j \in 1 .. n /\ l \in 1 .. n
        BY <2>1, <3>1
      <4> QED
        BY <1>2, <1>7, <2>1, <4>1 DEF Laid, Sorted
    <3>2. CASE j <= n /\ l > n
      <4>1. j \in 1 .. Len(s)
        BY <1>2, <3>2
      <4>2. PICK i \in 1 .. a : \E k \in 1 .. lengths[i] : s[j] = <<i, k>>
        BY <4>1, Zenon DEF Laid
      <4>3. PICK k \in 1 .. lengths[i] : s[j] = <<i, k>>
        BY <4>2
      <4>4. l - n \in 1 .. m /\ n + (l - n) = l
        BY <3>2
      <4>5. t[l] = <<a + 1, l - n>>
        BY <1>7, <4>4
      <4>6. t[j] = <<i, k>> /\ i < a + 1
        <5>1. j \in 1 .. n
          BY <3>2
        <5> QED
          BY <1>7, <4>3, <5>1
      <4> QED
        BY <4>5, <4>6 DEF V!Earlier
    <3>3. CASE j > n
      <4>1. j - n \in 1 .. m /\ n + (j - n) = j /\ l - n \in 1 .. m /\ n + (l - n) = l
        BY <2>1, <3>3
      <4>2. t[j] = <<a + 1, j - n>> /\ t[l] = <<a + 1, l - n>> /\ j - n < l - n
        BY <1>7, <2>1, <4>1
      <4> QED
        BY <4>2 DEF V!Earlier
    <3> QED
      BY <3>1, <3>2, <3>3
  <2> QED
    BY <1>7, <2>1 DEF Sorted
<1>15. (\A i \in 1 .. a + 1 : lengths[i] <= Word) => n + m <= Word * (a + 1)
  <2>1. ASSUME \A i \in 1 .. a + 1 : lengths[i] <= Word
        PROVE  n + m <= Word * (a + 1)
    <3>1. n <= Word * a
      BY <1>2, <2>1 DEF Laid
    <3>2. m <= Word
      BY <1>1, <2>1
    <3>3. Word * (a + 1) = Word * a + Word
      OBVIOUS
    <3>4. PICK p \in Int : p = Word * a
      OBVIOUS
    <3> QED
      BY <3>1, <3>2, <3>3, <3>4
  <2> QED
    BY <2>1
<1>16. Laid(t, new, a + 1)
  BY <1>7, <1>10, <1>11, <1>12, <1>13, <1>14, <1>15, ZenonT(60) DEF Laid
<1> QED
  BY <1>3, <1>5, <1>16

(* All of the buffers have been laid out, and the file is what has been    *)
(* written of them.                                                        *)
Written(s, st) ==
    /\ Laid(s, st, Len(lengths))
    /\ \E n \in 0 .. Len(s) : data = SubSeq(s, 1, n)

LEMMA WrittenIs ==
    ASSUME lengths \in Seq(Nat), NEW s, NEW st, Written(s, st)
    PROVE  /\ data \in Seq(Marks) /\ Sorted(data)
           /\ V!Whole => data = s
<1>1. PICK n \in 0 .. Len(s) : data = SubSeq(s, 1, n)
  BY DEF Written
<1>2. s \in Seq(Marks) /\ Sorted(s)
  BY DEF Written, Laid
<1>3. /\ data \in Seq(Marks) /\ Len(data) = n
      /\ \A j \in 1 .. n : data[j] = s[j]
  BY <1>1, <1>2
<1>4. Sorted(data)
  <2>1. \A j \in 1 .. n : j \in 1 .. Len(s)
    BY <1>2
  <2> QED
    BY <1>2, <1>3, <2>1 DEF Sorted
<1>5. ASSUME V!Whole PROVE n = Len(s)
  <2>1. SUFFICES ASSUME n # Len(s) PROVE FALSE
    OBVIOUS
  <2>2. n + 1 \in 1 .. Len(s)
    BY <1>2, <2>1
  <2>3. PICK i \in 1 .. Len(lengths) : \E k \in 1 .. lengths[i] : s[n + 1] = <<i, k>>
    BY <2>2 DEF Written, Laid
  <2>4. PICK k \in 1 .. lengths[i] : s[n + 1] = <<i, k>>
    BY <2>3
  <2>5. <<i, k>> \in V!Range(V!Buffer(i))
    <3>1. V!Buffer(i)[k] = <<i, k>> /\ k \in DOMAIN V!Buffer(i)
      BY DEF V!Buffer
    <3> QED
      BY <3>1 DEF V!Range
  <2>6. <<i, k>> \in V!Range(data)
    BY <1>5, <2>5 DEF V!Whole
  <2>7. PICK j \in 1 .. n : data[j] = <<i, k>>
    <3>1. PICK j \in DOMAIN data : data[j] = <<i, k>>
      BY <2>6, Zenon DEF V!Range
    <3>2. DOMAIN data = 1 .. n
      BY <1>3
    <3> QED
      BY <3>1, <3>2
  <2>8. s[j] = s[n + 1] /\ j < n + 1 /\ j \in 1 .. Len(s)
    BY <1>3, <2>2, <2>4, <2>7
  <2>9. V!Earlier(s[j], s[n + 1])
    BY <1>2, <2>2, <2>8 DEF Sorted
  <2>10. s[j] = <<i, k>> /\ s[n + 1] = <<i, k>>
    BY <2>4, <2>8
  <2>11. V!Earlier(<<i, k>>, <<i, k>>)
    BY <2>9, <2>10
  <2>12. i \in Int /\ k \in Int
    OBVIOUS
  <2> QED
    BY <2>11, <2>12 DEF V!Earlier
<1>6. V!Whole => data = s
  BY <1>1, <1>2, <1>5
<1> QED
  BY <1>3, <1>4, <1>6

(* The c buffers f hold the first n bytes of d, in the order of d.         *)
Held(f, c, d, n) ==
    /\ \A i \in 1 .. c : \A k \in 1 .. Len(f[i]) : \E j \in 1 .. n : f[i][k] = d[j]
    /\ \A j \in 1 .. n : \E i \in 1 .. c : \E k \in 1 .. Len(f[i]) : f[i][k] = d[j]
    /\ \A i \in 1 .. c : \A j \in 1 .. c :
          \A k \in 1 .. Len(f[i]) : \A l \in 1 .. Len(f[j]) :
             V!Earlier(<<i, k>>, <<j, l>>) => V!Earlier(f[i][k], f[j][l])

(* The buffer i of c, which nothing has been read into, gets the m bytes   *)
(* of d behind the first r; g are the buffers then.                        *)
Filling(f, g, c, i, d, r, m) ==
    /\ f \in [1 .. c -> Seq(Marks)] /\ g \in [1 .. c -> Seq(Marks)]
    /\ \A j \in 1 .. c : j >= i => f[j] = <<>>
    /\ \A j \in 1 .. c : j # i => g[j] = f[j]
    /\ d \in Seq(Marks) /\ r + m <= Len(d)
    /\ Len(g[i]) = m /\ \A k \in 1 .. m : g[i][k] = d[r + k]

LEMMA HeldNext ==
    ASSUME NEW d, Sorted(d), NEW f, NEW g, NEW c \in Nat, NEW i \in 1 .. c,
           NEW r \in Nat, NEW m \in Nat, Filling(f, g, c, i, d, r, m), Held(f, c, d, r)
    PROVE  Held(g, c, d, r + m)
<1>1. PICK n \in Nat : n = Len(d) /\ r + m <= n
  BY DEF Filling
<1>2. /\ \A j \in 1 .. c : j >= i => f[j] = <<>>
      /\ \A j \in 1 .. c : j # i => g[j] = f[j]
  BY DEF Filling
<1>3. Len(g[i]) = m /\ \A k \in 1 .. m : g[i][k] = d[r + k]
  BY DEF Filling
<1>4. \A j \in 1 .. c : \A k \in 1 .. Len(g[j]) : j <= i
  <2>1. ASSUME NEW j \in 1 .. c, NEW k \in 1 .. Len(g[j]), j > i PROVE FALSE
    <3>1. g[j] = <<>>
      BY <1>2, <2>1
    <3> QED
      BY <3>1
  <2> QED
    BY <2>1
<1>5. \A j \in 1 .. c : j < i => g[j] = f[j]
  BY <1>2
<1>6. \A j \in 1 .. c : \A k \in 1 .. Len(f[j]) : j < i
  <2>1. ASSUME NEW j \in 1 .. c, NEW k \in 1 .. Len(f[j]), j >= i PROVE FALSE
    <3>1. f[j] = <<>>
      BY <1>2, <2>1
    <3> QED
      BY <3>1
  <2> QED
    BY <2>1
<1>7. ASSUME NEW j \in 1 .. c, NEW k \in 1 .. Len(g[j])
      PROVE  \E p \in 1 .. r + m : g[j][k] = d[p]
  <2>1. CASE j = i
    <3>1. k \in 1 .. m /\ g[j][k] = d[r + k]
      BY <1>3, <2>1
    <3>2. r + k \in 1 .. r + m
      BY <3>1
    <3> QED
      BY <3>1, <3>2
  <2>2. CASE j # i
    <3>1. k \in 1 .. Len(f[j]) /\ g[j] = f[j]
      BY <1>2, <2>2
    <3>2. PICK p \in 1 .. r : f[j][k] = d[p]
      BY <3>1 DEF Held
    <3> QED
      BY <3>1, <3>2
  <2> QED
    BY <2>1, <2>2
<1>8. ASSUME NEW p \in 1 .. r + m
      PROVE  \E j \in 1 .. c : \E k \in 1 .. Len(g[j]) : g[j][k] = d[p]
  <2>1. CASE p <= r
    <3>0. p \in 1 .. r
      BY <2>1
    <3>1. PICK j \in 1 .. c : \E k \in 1 .. Len(f[j]) : f[j][k] = d[p]
      BY <3>0 DEF Held
    <3>2. PICK k \in 1 .. Len(f[j]) : f[j][k] = d[p]
      BY <3>1
    <3>3. g[j] = f[j]
      BY <1>5, <1>6, <3>2
    <3> QED
      BY <3>2, <3>3
  <2>2. CASE p > r
    <3>1. p - r \in 1 .. m /\ r + (p - r) = p
      BY <2>2
    <3>2. g[i][p - r] = d[p] /\ p - r \in 1 .. Len(g[i])
      BY <1>3, <3>1
    <3> QED
      BY <3>2
  <2> QED
    BY <2>1, <2>2
<1>9. ASSUME NEW j \in 1 .. c, NEW h \in 1 .. c, NEW k \in 1 .. Len(g[j]), NEW l \in 1 .. Len(g[h]),
             V!Earlier(<<j, k>>, <<h, l>>)
      PROVE  V!Earlier(g[j][k], g[h][l])
  <2>1. j < h \/ (j = h /\ k < l)
    BY <1>9 DEF V!Earlier
  <2>2. j <= i /\ h <= i
    BY <1>4
  <2>3. CASE h < i
    <3>1. g[j] = f[j] /\ g[h] = f[h]
      BY <1>5, <2>1, <2>2, <2>3
    <3>2. k \in 1 .. Len(f[j]) /\ l \in 1 .. Len(f[h])
      BY <3>1
    <3>3. V!Earlier(f[j][k], f[h][l])
      BY <1>9, <3>2 DEF Held
    <3> QED
      BY <3>1, <3>3
  <2>4. CASE h = i /\ j < i
    <3>1. g[j] = f[j] /\ k \in 1 .. Len(f[j])
      BY <1>5, <2>4
    <3>2. PICK p \in 1 .. r : f[j][k] = d[p]
      BY <3>1 DEF Held
    <3>3. l \in 1 .. m /\ g[h][l] = d[r + l]
      BY <1>3, <2>4
    <3>4. p \in 1 .. n /\ r + l \in 1 .. n /\ p < r + l
      BY <1>1, <3>3
    <3>5. V!Earlier(d[p], d[r + l])
      BY <1>1, <3>4 DEF Sorted
    <3> QED
      BY <3>1, <3>2, <3>3, <3>5
  <2>5. CASE h = i /\ j = i
    <3>1. k \in 1 .. m /\ l \in 1 .. m /\ k < l
      BY <1>3, <2>1, <2>5
    <3>2. g[j][k] = d[r + k] /\ g[h][l] = d[r + l]
      BY <1>3, <2>5, <3>1
    <3>3. r + k \in 1 .. n /\ r + l \in 1 .. n /\ r + k < r + l
      BY <1>1, <3>1
    <3> QED
      BY <1>1, <3>2, <3>3 DEF Sorted
  <2> QED
    BY <2>1, <2>2, <2>3, <2>4, <2>5
<1> QED
  BY <1>7, <1>8, <1>9 DEF Held

(* What was written whole from buffers no longer than a word is read into  *)
(* buffers of the same lengths.                                            *)
Alike ==
    /\ V!Whole /\ targets = lengths
    /\ \A i \in DOMAIN lengths : lengths[i] \in 1 .. Word

(* readv has given away the first r bytes: to full buffers, unless none is *)
(* left.                                                                   *)
Scattered(st, r) ==
    /\ targets \in Seq(Nat) /\ round <= Len(targets)
    /\ filled \in [1 .. Len(targets) -> Seq(Marks)]
    /\ \A i \in 1 .. Len(targets) : i > round => filled[i] = <<>>
    /\ total \in Nat /\ r <= total /\ total <= Len(data)
    /\ raw_buffer = SubSeq(data, r + 1, total)
    /\ Held(filled, Len(targets), data, r)
    /\ raw_buffer # <<>> => \A i \in 1 .. round : Len(filled[i]) = targets[i]
    /\ Alike => /\ total = Len(data) /\ r = st[round + 1]
                /\ \A i \in 1 .. round : filled[i] = V!Buffer(i)

(* What RoundTrip says of the buffers when readv has returned.             *)
Returned ==
    /\ \E n \in 0 .. total :
          /\ V!Holds(n)
          /\ n = total \/ 0 \in V!Range(targets)
                \/ \A i \in DOMAIN targets : Len(filled[i]) = targets[i]
    /\ Alike => \A i \in DOMAIN lengths : filled[i] = V!Buffer(i)

VectoredInv ==
    /\ lengths \in Seq(Nat) /\ round \in Nat
    /\ vstep = "idle" => data = <<>> /\ raw_buffer = <<>> /\ round = 0
    /\ vstep = "write" => round <= Len(lengths) /\ \E st : Laid(data, st, round)
    /\ vstep = "gather" => round <= Len(lengths) /\ \E st : Laid(raw_buffer, st, round)
    /\ vstep \in {"seek", "readv", "scatter"} => \E s, st : Written(s, st)
    /\ vstep = "readv" => targets \in Seq(Nat) /\ filled = [i \in DOMAIN targets |-> <<>>]
    /\ vstep = "scatter" => \E s, st : Written(s, st) /\ \E r \in Nat : Scattered(st, r)
    /\ vstep = "ok" => Returned

LEMMA MainWrites ==
    ASSUME V!VectoredAssumption, VectoredInv, NEW ls \in Arrays, V!Main(ls)
    PROVE  VectoredInv'
<1>1. /\ vstep = "idle" /\ vstep' \in {"write", "gather"} /\ lengths' = ls
      /\ data' = data /\ raw_buffer' = raw_buffer /\ round' = round
  BY DEF V!Main
<1>2. data' = <<>> /\ raw_buffer' = <<>> /\ round' = 0
  BY <1>1 DEF VectoredInv
<1>3. lengths' \in Seq(Nat) /\ Word \in Nat
  BY <1>1 DEF V!VectoredAssumption
<1>4. \E st : Laid(<<>>, st, 0)'
  <2>1. PICK st : st = [i \in 1 .. 1 |-> 0]
    OBVIOUS
  <2>2. Laid(<<>>, st, 0)'
    BY <1>3, <2>1 DEF Laid, Sorted
  <2> QED
    BY <2>2
<1> QED
  BY <1>1, <1>2, <1>3, <1>4 DEF VectoredInv

LEMMA WriteStep ==
    ASSUME V!VectoredAssumption, VectoredInv, V!WriteToFile
    PROVE  VectoredInv'
<1>1. vstep = "write" /\ round < Len(lengths) /\ lengths' = lengths
  BY DEF V!WriteToFile
<1>2. CASE vstep' = "failed"
  BY <1>1, <1>2 DEF VectoredInv, V!WriteToFile
<1>3. CASE data' = data \o V!Buffer(round + 1) /\ round' = round + 1 /\ vstep' = vstep
  <2>1. PICK st : Laid(data, st, round)
    BY <1>1 DEF VectoredInv
  <2>2. lengths \in Seq(Nat) /\ round \in Nat /\ Word \in Nat
    BY DEF VectoredInv, V!VectoredAssumption
  <2>3. \E new : Laid(data \o V!Buffer(round + 1), new, round + 1)
    BY <1>1, <2>1, <2>2, LaidNext, Zenon
  <2>4. PICK new : Laid(data \o V!Buffer(round + 1), new, round + 1)
    BY <2>3
  <2>5. Laid(data, new, round)'
    BY <1>1, <1>3, <2>4 DEF Laid
  <2>6. round' \in Nat /\ round' <= Len(lengths')
    BY <1>1, <1>3, <2>2
  <2> QED
    BY <1>1, <1>3, <2>2, <2>5, <2>6 DEF VectoredInv
<1> QED
  BY <1>2, <1>3 DEF V!WriteToFile

LEMMA GatherStep ==
    ASSUME V!VectoredAssumption, VectoredInv, V!Gather
    PROVE  VectoredInv'
<1>1. /\ vstep = "gather" /\ round < Len(lengths) /\ lengths' = lengths
      /\ raw_buffer' = raw_buffer \o V!Buffer(round + 1) /\ round' = round + 1
      /\ vstep' \in {"gather", "overrun"}
  BY DEF V!Gather
<1>2. PICK st : Laid(raw_buffer, st, round)
  BY <1>1 DEF VectoredInv
<1>3. lengths \in Seq(Nat) /\ round \in Nat /\ Word \in Nat
  BY DEF VectoredInv, V!VectoredAssumption
<1>4. \E new : Laid(raw_buffer \o V!Buffer(round + 1), new, round + 1)
  BY <1>1, <1>2, <1>3, LaidNext, Zenon
<1>5. PICK new : Laid(raw_buffer \o V!Buffer(round + 1), new, round + 1)
  BY <1>4
<1>6. Laid(raw_buffer, new, round)'
  BY <1>1, <1>5 DEF Laid
<1>7. round' \in Nat /\ round' <= Len(lengths')
  BY <1>1, <1>3
<1> QED
  BY <1>1, <1>3, <1>6, <1>7 DEF VectoredInv

LEMMA WritevStep ==
    ASSUME VectoredInv, V!Writev
    PROVE  VectoredInv'
<1>1. /\ vstep = "gather" /\ round = Len(lengths) /\ vstep' = "seek" /\ lengths' = lengths
      /\ round' = round
      /\ \E n \in 0 .. Len(raw_buffer) : data' = SubSeq(raw_buffer, 1, n)
  BY DEF V!Writev
<1>2. PICK s, st : s = raw_buffer /\ Laid(s, st, Len(lengths))
  BY <1>1 DEF VectoredInv
<1>3. Laid(s, st, Len(lengths))'
  BY <1>1, <1>2 DEF Laid
<1>4. Written(s, st)'
  BY <1>1, <1>2, <1>3 DEF Written
<1> QED
  BY <1>1, <1>4 DEF VectoredInv

LEMMA SeekStep ==
    ASSUME V!VectoredAssumption, VectoredInv, NEW ls \in Arrays, V!Seek(ls)
    PROVE  VectoredInv'
<1>1. /\ vstep = "seek" \/ (vstep = "write" /\ round = Len(lengths))
      /\ vstep' = "readv" /\ targets' = ls /\ filled' = [i \in DOMAIN ls |-> <<>>]
      /\ lengths' = lengths /\ data' = data /\ round' = round
  BY DEF V!Seek
<1>2. \E s, st : Written(s, st)
  <2>1. CASE vstep = "write" /\ round = Len(lengths)
    <3>1. PICK st : Laid(data, st, Len(lengths))
      BY <2>1 DEF VectoredInv
    <3>2. data \in Seq(Marks)
      BY <3>1 DEF Laid
    <3>3. Len(data) \in 0 .. Len(data) /\ data = SubSeq(data, 1, Len(data))
      BY <3>2, SMTT(30)
    <3>4. Written(data, st)
      BY <3>1, <3>3 DEF Written
    <3> QED
      BY <3>4
  <2> QED
    BY <1>1, <2>1 DEF VectoredInv
<1>3. PICK s, st : Written(s, st)
  BY <1>2
<1>4. Written(s, st)'
  BY <1>1, <1>3 DEF Written, Laid
<1>5. targets' \in Seq(Nat)
  BY <1>1 DEF V!VectoredAssumption
<1> QED
  BY <1>1, <1>4, <1>5 DEF VectoredInv

LEMMA ReadvStep ==
    ASSUME V!VectoredAssumption, VectoredInv, V!Readv
    PROVE  VectoredInv'
<1>1. /\ vstep = "readv" /\ vstep' = "scatter" /\ round' = 0
      /\ total' = V!Min({Len(data), Word * Len(targets)})
      /\ raw_buffer' = SubSeq(data, 1, total')
      /\ lengths' = lengths /\ data' = data /\ targets' = targets /\ filled' = filled
  BY DEF V!Readv, V!RawSize
<1>2. PICK s, st : Written(s, st)
  BY <1>1 DEF VectoredInv
<1>3. Written(s, st)'
  BY <1>1, <1>2 DEF Written, Laid
<1>4. lengths \in Seq(Nat) /\ targets \in Seq(Nat) /\ Word \in Nat
  BY <1>1 DEF VectoredInv, V!VectoredAssumption
<1>5. data \in Seq(Marks) /\ (V!Whole => data = s)
  BY <1>2, <1>4, WrittenIs
<1>6. PICK n \in Nat, z \in Nat : n = Len(data) /\ z = Word * Len(targets)
  BY <1>4, <1>5
<1>7. total' = IF n <= z THEN n ELSE z
  BY <1>1, <1>6, VMin, MinOfTwo
<1>8. filled' = [i \in 1 .. Len(targets) |-> <<>>]
  BY <1>1, <1>4 DEF VectoredInv
<1>9. Held(filled', Len(targets), data, 0)
  BY <1>8 DEF Held
<1>10. ASSUME Alike PROVE total' = n /\ 0 = st[1]
  <2>1. data = s /\ targets = lengths /\ \A i \in 1 .. Len(lengths) : lengths[i] <= Word
    BY <1>4, <1>5, <1>10 DEF Alike
  <2>2. Len(s) <= Word * Len(lengths) /\ st[1] = 0
    BY <1>2, <2>1 DEF Written, Laid
  <2>3. n <= z
    BY <1>6, <2>1, <2>2
  <2> QED
    BY <1>7, <2>2, <2>3
<1>11. Alike' => Alike
  BY <1>1 DEF Alike, V!Whole, V!Buffer
<1>12. Scattered(st, 0)'
  <2>1. targets' \in Seq(Nat) /\ round' <= Len(targets')
    BY <1>1, <1>4
  <2>2. /\ filled' \in [1 .. Len(targets') -> Seq(Marks)]
        /\ \A i \in 1 .. Len(targets') : filled'[i] = <<>>
    BY <1>1, <1>8
  <2>3. total' \in Nat /\ 0 <= total' /\ total' <= Len(data')
    BY <1>1, <1>6, <1>7
  <2>4. raw_buffer' = SubSeq(data', 0 + 1, total')
    BY <1>1
  <2>5. Held(filled', Len(targets'), data', 0)
    BY <1>1, <1>9
  <2>6. \A i \in 1 .. round' : FALSE
    BY <1>1
  <2>7. Alike' => total' = Len(data') /\ 0 = st[round' + 1]
    BY <1>1, <1>6, <1>10, <1>11
  <2> QED
    BY <2>1, <2>2, <2>3, <2>4, <2>5, <2>6, <2>7 DEF Scattered
<1>13. lengths' \in Seq(Nat) /\ round' \in Nat
  BY <1>1, <1>4
<1> QED
  BY <1>1, <1>3, <1>12, <1>13 DEF VectoredInv

(* u is the n bytes of d behind the first r.                               *)
Segment(u, d, r, n) == Len(u) = n /\ \A k \in 1 .. n : u[k] = d[r + k]

LEMMA SegmentIs ==
    ASSUME NEW S, NEW d \in Seq(S), NEW r \in Nat, NEW n \in Nat, r + n <= Len(d)
    PROVE  /\ SubSeq(d, r + 1, r + n) \in Seq(S)
           /\ Segment(SubSeq(d, r + 1, r + n), d, r, n)
  BY DEF Segment

LEMMA SegmentsAgree ==
    ASSUME NEW S, NEW u \in Seq(S), NEW v \in Seq(S), NEW d, NEW r, NEW n,
           Segment(u, d, r, n), Segment(v, d, r, n)
    PROVE  u = v
  BY DEF Segment

(* The bytes a buffer gets, and those left behind them.                    *)
Parted(w, d, r, t, m) ==
    /\ Len(w) = t - r
    /\ Segment(SubSeq(w, 1, m), d, r, m)
    /\ SubSeq(w, m + 1, Len(w)) = SubSeq(d, (r + m) + 1, t)

LEMMA PartOfRest ==
    ASSUME NEW S, NEW d \in Seq(S), NEW r \in Nat, NEW t \in Nat, r <= t, t <= Len(d),
           NEW m \in Nat, m <= t - r, NEW w, w = SubSeq(d, r + 1, t)
    PROVE  w \in Seq(S) /\ SubSeq(w, 1, m) \in Seq(S) /\ Parted(w, d, r, t, m)
<1>1. PICK l \in Nat : t = r + l /\ r + l <= Len(d)
  <2>1. t - r \in Nat /\ t = r + (t - r)
    OBVIOUS
  <2> QED
    BY <2>1
<1>2. PICK h \in Nat : l = m + h /\ t = (r + m) + h
  <2>1. l - m \in Nat /\ l = m + (l - m) /\ t = (r + m) + (l - m)
    BY <1>1
  <2> QED
    BY <2>1
<1>3. w \in Seq(S) /\ Segment(w, d, r, l)
  BY <1>1, SegmentIs
<1>4. Len(w) = l /\ \A k \in 1 .. l : w[k] = d[r + k]
  BY <1>3 DEF Segment
<1>5. PICK u : u = SubSeq(w, 1, m)
  OBVIOUS
<1>6. u \in Seq(S) /\ Segment(u, w, 0, m)
  <2>1. 0 + m <= Len(w) /\ 0 + 1 = 1 /\ 0 + m = m
    BY <1>2, <1>4, SMTT(40)
  <2> QED
    BY <1>3, <1>5, <2>1, SegmentIs
<1>7. Segment(u, d, r, m)
  <2>1. Len(u) = m /\ \A k \in 1 .. m : u[k] = w[0 + k]
    BY <1>6 DEF Segment
  <2>2. \A k \in 1 .. m : 0 + k = k /\ k \in 1 .. l
    BY <1>2
  <2> QED
    BY <1>4, <2>1, <2>2 DEF Segment
<1>8. PICK v : v = SubSeq(w, m + 1, l)
  OBVIOUS
<1>9. v \in Seq(S) /\ Segment(v, w, m, h)
  <2>1. m + h <= Len(w) /\ v = SubSeq(w, m + 1, m + h)
    BY <1>2, <1>4, <1>8
  <2>2. PICK q \in Seq(S) : q = w
    BY <1>3
  <2>3. m + h <= Len(q)
    BY <2>1, <2>2
  <2>4. SubSeq(q, m + 1, m + h) \in Seq(S) /\ Segment(SubSeq(q, m + 1, m + h), q, m, h)
    BY <2>3, SegmentIs, Zenon
  <2> QED
    BY <2>1, <2>2, <2>4
<1>10. Segment(v, d, r + m, h)
  <2>1. Len(v) = h /\ \A k \in 1 .. h : v[k] = w[m + k]
    BY <1>9 DEF Segment
  <2>2. \A k \in 1 .. h : m + k \in 1 .. l /\ r + (m + k) = (r + m) + k
    BY <1>2
  <2>3. ASSUME NEW k \in 1 .. h PROVE v[k] = d[(r + m) + k]
    <3>1. v[k] = w[m + k] /\ w[m + k] = d[r + (m + k)]
      BY <1>4, <2>1, <2>2
    <3>2. r + (m + k) = (r + m) + k
      BY <2>2
    <3> QED
      BY <3>1, <3>2, Zenon
  <2> QED
    BY <2>1, <2>3 DEF Segment
<1>11. PICK x : x = SubSeq(d, (r + m) + 1, t)
  OBVIOUS
<1>12. x \in Seq(S) /\ Segment(x, d, r + m, h)
  <2>1. r + m \in Nat /\ (r + m) + h <= Len(d)
    BY <1>2
  <2> QED
    BY <1>2, <1>11, <2>1, SegmentIs
<1>13. v = x
  BY <1>9, <1>10, <1>12, SegmentsAgree, Zenon
<1>14. l = t - r
  BY <1>1
<1> QED
  BY <1>3, <1>4, <1>5, <1>6, <1>7, <1>8, <1>11, <1>13, <1>14 DEF Parted

LEMMA ScatterStep ==
    ASSUME VectoredInv, V!Scatter
    PROVE  VectoredInv'
<1>1. PICK m : m = V!bytes_to_read
  OBVIOUS
<1>2. /\ vstep = "scatter" /\ m > 0
      /\ filled' = [filled EXCEPT ![round + 1] = SubSeq(raw_buffer, 1, m)]
      /\ raw_buffer' = SubSeq(raw_buffer, m + 1, Len(raw_buffer)) /\ round' = round + 1
      /\ vstep' = vstep /\ lengths' = lengths /\ data' = data /\ targets' = targets
      /\ total' = total
  BY <1>1 DEF V!Scatter, V!Behind
<1>3. PICK s, st : Written(s, st) /\ \E r \in Nat : Scattered(st, r)
  BY <1>2 DEF VectoredInv
<1>4. PICK r \in Nat : Scattered(st, r)
  BY <1>3
<1>5. lengths \in Seq(Nat) /\ round \in Nat
  BY DEF VectoredInv
<1>6. data \in Seq(Marks) /\ Sorted(data) /\ (V!Whole => data = s)
  BY <1>3, <1>5, WrittenIs
<1>7. /\ targets \in Seq(Nat) /\ round <= Len(targets)
      /\ filled \in [1 .. Len(targets) -> Seq(Marks)]
      /\ \A i \in 1 .. Len(targets) : i > round => filled[i] = <<>>
      /\ total \in Nat /\ r <= total /\ total <= Len(data)
      /\ raw_buffer = SubSeq(data, r + 1, total)
      /\ Held(filled, Len(targets), data, r)
      /\ raw_buffer # <<>> => \A i \in 1 .. round : Len(filled[i]) = targets[i]
  BY <1>4 DEF Scattered
<1>8. raw_buffer \in Seq(Marks) /\ Len(raw_buffer) = total - r
  <2>1. 0 \in Nat /\ 0 <= total - r
    BY <1>7
  <2>2. raw_buffer \in Seq(Marks) /\ Parted(raw_buffer, data, r, total, 0)
    BY <1>4, <1>6, <1>7, <2>1, PartOfRest, Zenon
  <2> QED
    BY <2>2 DEF Parted
<1>9. PICK c \in Nat : c = Len(targets)
  BY <1>7
<1>10. round < c
  BY <1>1, <1>2, <1>5, <1>7, <1>9 DEF V!bytes_to_read
<1>11. PICK i \in 1 .. c : i = round + 1
  BY <1>5, <1>9, <1>10
<1>12. targets[i] \in Nat /\ m = IF targets[i] <= Len(raw_buffer) THEN targets[i] ELSE Len(raw_buffer)
  <2>1. targets[i] \in Nat /\ Len(raw_buffer) \in Nat
    BY <1>7, <1>8, <1>9
  <2>2. m = V!Min({targets[i], Len(raw_buffer)})
    BY <1>1, <1>9, <1>10, <1>11 DEF V!bytes_to_read
  <2> QED
    BY <2>1, <2>2, VMin, MinOfTwo
<1>13. m \in Nat /\ m <= total - r
  BY <1>8, <1>12
<1>14. PICK b : b = SubSeq(raw_buffer, 1, m)
  OBVIOUS
<1>15. /\ b \in Seq(Marks) /\ Len(b) = m /\ \A k \in 1 .. m : b[k] = data[r + k]
       /\ raw_buffer' = SubSeq(data, (r + m) + 1, total)
  <2>1. b \in Seq(Marks) /\ Parted(raw_buffer, data, r, total, m)
    BY <1>4, <1>6, <1>7, <1>13, <1>14, PartOfRest, Zenon
  <2> QED
    BY <1>2, <1>14, <2>1 DEF Parted, Segment
<1>16. /\ filled' \in [1 .. c -> Seq(Marks)] /\ filled'[i] = b
       /\ \A j \in 1 .. c : j # i => filled'[j] = filled[j]
  BY <1>2, <1>7, <1>9, <1>11, <1>14, <1>15
<1>17. Held(filled', c, data, r + m)
  <2>1. \A j \in 1 .. c : j >= i => filled[j] = <<>>
    BY <1>5, <1>7, <1>9, <1>11
  <2>2. r + m <= Len(data)
    BY <1>7, <1>13
  <2>3. Filling(filled, filled', c, i, data, r, m)
    BY <1>6, <1>7, <1>9, <1>15, <1>16, <2>1, <2>2 DEF Filling
  <2>4. Held(filled, c, data, r)
    BY <1>7, <1>9
  <2> QED
    BY <1>6, <1>13, <2>3, <2>4, HeldNext, Zenon
<1>18. raw_buffer' # <<>> => m = targets[i]
  <2>1. SUFFICES ASSUME m # targets[i] PROVE raw_buffer' = <<>>
    OBVIOUS
  <2>2. m = total - r
    BY <1>8, <1>12, <2>1
  <2>3. (r + m) + 1 > total
    BY <1>7, <2>2
  <2> QED
    BY <1>6, <1>7, <1>13, <1>15, <2>3
<1>19. raw_buffer' # <<>> => \A j \in 1 .. round' : Len(filled'[j]) = targets[j]
  <2>1. ASSUME raw_buffer' # <<>>, NEW j \in 1 .. round'
        PROVE  Len(filled'[j]) = targets[j]
    <3>1. CASE j = i
      BY <1>15, <1>16, <1>18, <2>1, <3>1
    <3>2. CASE j # i
      <4>1. j \in 1 .. round /\ j \in 1 .. c
        BY <1>2, <1>5, <1>10, <1>11, <3>2
      <4>2. raw_buffer # <<>>
        BY <1>2, <1>8, <1>12
      <4> QED
        BY <1>7, <1>16, <3>2, <4>1, <4>2
    <3> QED
      BY <3>1, <3>2
  <2> QED
    BY <2>1
<1>20. Alike' => Alike
  BY <1>2 DEF Alike, V!Whole, V!Buffer
<1>21. ASSUME Alike
       PROVE  /\ total = Len(data) /\ r + m = st[(round + 1) + 1]
              /\ \A j \in 1 .. round + 1 : filled'[j] = V!Buffer(j)
  <2>1. /\ total = Len(data) /\ r = st[round + 1] /\ data = s
        /\ \A j \in 1 .. round : filled[j] = V!Buffer(j)
    BY <1>4, <1>6, <1>21 DEF Alike, Scattered
  <2>2. targets = lengths /\ i \in 1 .. Len(lengths)
    BY <1>9, <1>11, <1>21 DEF Alike
  <2>3. /\ st[i + 1] = st[i] + lengths[i] /\ st[i + 1] <= Len(s)
        /\ \A k \in 1 .. lengths[i] : s[st[i] + k] = <<i, k>>
    BY <1>3, <2>2 DEF Written, Laid
  <2>4. st[i] = r /\ lengths[i] <= total - r
    <3>1. st[i] = r /\ lengths[i] \in Nat
      BY <1>11, <1>12, <2>1, <2>2
    <3>2. r + lengths[i] <= total
      BY <2>1, <2>3, <3>1
    <3> QED
      BY <1>7, <3>1, <3>2
  <2>5. m = lengths[i]
    BY <1>8, <1>12, <2>2, <2>4
  <2>6. filled'[i] = V!Buffer(i)
    <3>1. b = [k \in 1 .. m |-> <<i, k>>]
      <4>1. \A k \in 1 .. m : b[k] = <<i, k>>
        BY <1>15, <2>1, <2>3, <2>4, <2>5
      <4>2. b = [k \in 1 .. m |-> b[k]]
        BY <1>15
      <4> QED
        BY <4>1, <4>2
    <3> QED
      BY <1>16, <2>5, <3>1 DEF V!Buffer
  <2>7. ASSUME NEW j \in 1 .. round PROVE filled'[j] = V!Buffer(j)
    <3>1. j \in 1 .. c /\ j # i
      BY <1>5, <1>10, <1>11
    <3> QED
      BY <1>16, <2>1, <3>1
  <2>8. \A j \in 1 .. round + 1 : j \in 1 .. round \/ j = i
    BY <1>5, <1>11
  <2>9. r + m = st[(round + 1) + 1]
    BY <1>11, <2>3, <2>4, <2>5
  <2> QED
    BY <2>1, <2>6, <2>7, <2>8, <2>9
<1>22. Scattered(st, r + m)'
  <2>1. targets' \in Seq(Nat) /\ round' <= Len(targets')
    BY <1>2, <1>5, <1>7, <1>9, <1>10
  <2>2. /\ filled' \in [1 .. Len(targets') -> Seq(Marks)]
        /\ Held(filled', Len(targets'), data', r + m)
    BY <1>2, <1>9, <1>16, <1>17
  <2>3. \A j \in 1 .. Len(targets') : j > round' => filled'[j] = <<>>
    BY <1>2, <1>5, <1>7, <1>9, <1>11, <1>16
  <2>4. total' \in Nat /\ r + m <= total' /\ total' <= Len(data')
    BY <1>2, <1>7, <1>13
  <2>5. raw_buffer' = SubSeq(data', (r + m) + 1, total')
    BY <1>2, <1>15
  <2>6. raw_buffer' # <<>> => \A j \in 1 .. round' : Len(filled'[j]) = targets'[j]
    BY <1>2, <1>19
  <2>7. Alike' => /\ total' = Len(data') /\ r + m = st[round' + 1]
                  /\ \A j \in 1 .. round' : filled'[j] = V!Buffer(j)'
    BY <1>2, <1>20, <1>21 DEF V!Buffer
  <2> QED
    BY <2>1, <2>2, <2>3, <2>4, <2>5, <2>6, <2>7 DEF Scattered
<1>23. Written(s, st)' /\ r + m \in Nat
  <2>1. Written(s, st)'
    BY <1>2, <1>3 DEF Written, Laid
  <2> QED
    BY <1>13, <2>1
<1>24. lengths' \in Seq(Nat) /\ round' \in Nat
  BY <1>2, <1>5
<1> QED
  BY <1>2, <1>22, <1>23, <1>24 DEF VectoredInv

LEMMA ReturnStep ==
    ASSUME VectoredInv, V!ReadvReturns
    PROVE  VectoredInv'
<1>1. PICK m : m = V!bytes_to_read
  OBVIOUS
<1>2. /\ vstep = "scatter" /\ m <= 0 /\ vstep' = "ok"
      /\ UNCHANGED <<lengths, data, targets, filled, raw_buffer, round, total>>
  BY <1>1 DEF V!ReadvReturns
<1>3. PICK s, st : Written(s, st) /\ \E r \in Nat : Scattered(st, r)
  BY <1>2 DEF VectoredInv
<1>4. PICK r \in Nat : Scattered(st, r)
  BY <1>3
<1>5. lengths \in Seq(Nat) /\ round \in Nat
  BY DEF VectoredInv
<1>6. data \in Seq(Marks) /\ (V!Whole => data = s)
  BY <1>3, <1>5, WrittenIs
<1>7. /\ targets \in Seq(Nat) /\ round <= Len(targets)
      /\ filled \in [1 .. Len(targets) -> Seq(Marks)]
      /\ total \in Nat /\ r <= total /\ total <= Len(data)
      /\ raw_buffer = SubSeq(data, r + 1, total)
      /\ Held(filled, Len(targets), data, r)
      /\ raw_buffer # <<>> => \A i \in 1 .. round : Len(filled[i]) = targets[i]
  BY <1>4 DEF Scattered
<1>8. raw_buffer \in Seq(Marks) /\ Len(raw_buffer) = total - r
  <2>1. 0 \in Nat /\ 0 <= total - r
    BY <1>7
  <2>2. raw_buffer \in Seq(Marks) /\ Parted(raw_buffer, data, r, total, 0)
    BY <1>4, <1>6, <1>7, <2>1, PartOfRest, Zenon
  <2> QED
    BY <2>2 DEF Parted
<1>9. round = Len(targets) \/ r = total \/ (round + 1 \in DOMAIN targets /\ targets[round + 1] = 0)
  <2>1. SUFFICES ASSUME round < Len(targets)
                 PROVE  r = total \/ (round + 1 \in DOMAIN targets /\ targets[round + 1] = 0)
    BY <1>5, <1>7
  <2>2. round + 1 \in DOMAIN targets /\ targets[round + 1] \in Nat /\ Len(raw_buffer) \in Nat
    <3>1. PICK i \in 1 .. Len(targets) : i = round + 1
      BY <1>5, <1>7, <2>1
    <3>2. targets[i] \in Nat /\ i \in DOMAIN targets
      BY <1>7, SMTT(30)
    <3> QED
      BY <1>7, <1>8, <3>1, <3>2
  <2>3. m = V!Min({targets[round + 1], Len(raw_buffer)})
    BY <1>1, <2>1 DEF V!bytes_to_read
  <2>4. m = IF targets[round + 1] <= Len(raw_buffer) THEN targets[round + 1] ELSE Len(raw_buffer)
    BY <2>2, <2>3, VMin, MinOfTwo
  <2> QED
    BY <1>2, <1>7, <1>8, <2>2, <2>4
<1>10. r = total \/ 0 \in V!Range(targets) \/ \A i \in DOMAIN targets : Len(filled[i]) = targets[i]
  <2>1. CASE round + 1 \in DOMAIN targets /\ targets[round + 1] = 0
    BY <2>1 DEF V!Range
  <2>2. CASE round = Len(targets) /\ r # total
    <3>1. raw_buffer # <<>>
      BY <1>7, <1>8, <2>2
    <3>2. DOMAIN targets = 1 .. round
      BY <1>7, <2>2
    <3> QED
      BY <1>7, <3>1, <3>2
  <2> QED
    BY <1>9, <2>1, <2>2
<1>11. V!Holds(r)
  <2>1. PICK c \in Nat : c = Len(targets)
    BY <1>7
  <2>2. DOMAIN filled = 1 .. c /\ \A i \in 1 .. c : DOMAIN filled[i] = 1 .. Len(filled[i])
    BY <1>7, <2>1
  <2>3. UNION {V!Range(filled[i]) : i \in DOMAIN filled} = {data[j] : j \in 1 .. r}
    <3>1. ASSUME NEW i \in DOMAIN filled, NEW x \in V!Range(filled[i])
          PROVE  x \in {data[j] : j \in 1 .. r}
      <4>1. PICK k \in 1 .. Len(filled[i]) : x = filled[i][k]
        BY <2>2 DEF V!Range
      <4> QED
        <5>1. i \in 1 .. c
          BY <2>2
        <5>2. PICK j \in 1 .. r : filled[i][k] = data[j]
          BY <1>7, <2>1, <5>1, Zenon DEF Held
        <5> QED
          BY <4>1, <5>2
    <3>2. ASSUME NEW j \in 1 .. r
          PROVE  \E i \in DOMAIN filled : data[j] \in V!Range(filled[i])
      <4>1. PICK i \in 1 .. c : \E k \in 1 .. Len(filled[i]) : filled[i][k] = data[j]
        BY <1>7, <2>1 DEF Held
      <4> QED
        BY <2>2, <4>1 DEF V!Range
    <3> QED
      BY <3>1, <3>2
  <2>4. \A i, j \in DOMAIN filled : \A k \in DOMAIN filled[i], l \in DOMAIN filled[j] :
          V!Earlier(<<i, k>>, <<j, l>>) => V!Earlier(filled[i][k], filled[j][l])
    <3>1. \A i \in 1 .. c : \A j \in 1 .. c :
            \A k \in 1 .. Len(filled[i]) : \A l \in 1 .. Len(filled[j]) :
               V!Earlier(<<i, k>>, <<j, l>>) => V!Earlier(filled[i][k], filled[j][l])
      BY <1>7, <2>1, Zenon DEF Held
    <3> QED
      BY <2>2, <3>1
  <2> QED
    BY <2>3, <2>4 DEF V!Holds
<1>12. ASSUME Alike PROVE \A i \in DOMAIN lengths : filled[i] = V!Buffer(i)
  <2>1. /\ total = Len(data) /\ r = st[round + 1] /\ data = s /\ targets = lengths
        /\ \A i \in 1 .. round : filled[i] = V!Buffer(i)
    BY <1>4, <1>6, <1>12 DEF Alike, Scattered
  <2>2. round = Len(lengths)
    <3>1. SUFFICES ASSUME round < Len(lengths) PROVE FALSE
      BY <1>5, <1>7, <2>1
    <3>2. PICK i \in 1 .. Len(lengths) : i = round + 1
      BY <1>5, <3>1
    <3>3. st[i + 1] = st[i] + lengths[i] /\ st[i + 1] <= Len(s)
      BY <1>3, <3>2 DEF Written, Laid
    <3>4. lengths[i] > 0 /\ lengths[i] \in Nat
      BY <1>5, <1>12 DEF Alike
    <3>5. r < total
      <4>1. r = st[i] /\ total = Len(s)
        BY <2>1, <3>2
      <4> QED
        BY <1>7, <3>3, <3>4, <4>1
    <3> QED
      BY <1>9, <2>1, <3>1, <3>2, <3>4, <3>5
  <2> QED
    BY <1>5, <2>1, <2>2
<1>13. Returned
  <2>1. r \in 0 .. total
    BY <1>7
  <2> QED
    BY <1>10, <1>11, <1>12, <2>1 DEF Returned
<1>14. Returned'
  BY <1>2, <1>13 DEF Returned, Alike, V!Holds, V!Whole, V!Buffer
<1> QED
  BY <1>2, <1>5, <1>14 DEF VectoredInv

LEMMA VectoredFails ==
    ASSUME VectoredInv, V!ReadvFails
    PROVE  VectoredInv'
  BY DEF VectoredInv, V!ReadvFails

LEMMA VectoredStutter ==
    ASSUME VectoredInv, UNCHANGED reading
    PROVE  VectoredInv'
<1>1. /\ vstep' = vstep /\ lengths' = lengths /\ data' = data /\ targets' = targets
      /\ filled' = filled /\ raw_buffer' = raw_buffer /\ round' = round /\ total' = total
  BY DEF reading
<1>2. \A s, st, a : /\ Laid(s, st, a)' <=> Laid(s, st, a)
                    /\ Written(s, st)' <=> Written(s, st)
                    /\ Scattered(st, a)' <=> Scattered(st, a)
  BY <1>1 DEF Laid, Written, Scattered, Alike, V!Whole, V!Buffer
<1>3. Returned' <=> Returned
  BY <1>1 DEF Returned, Alike, V!Holds, V!Whole, V!Buffer
<1> QED
  BY <1>1, <1>2, <1>3 DEF VectoredInv

(* The other programs leave the buffers alone.                             *)
LEMMA VectoredStep ==
    ASSUME VectoredInv, [Next]_vars
    PROVE  VectoredInv'
<1>1. V!VectoredAssumption
  BY VectoredArrays
<1>2. UNCHANGED reading \/ V!Next
  BY DEF vars, Next, OnlyTail, OnlyEnviron, OnlyVectored, OnlyAppenders, OnlyDatagrams
<1>3. CASE V!Next
  BY <1>1, <1>3, MainWrites, WriteStep, GatherStep, WritevStep, SeekStep, ReadvStep,
     ScatterStep, ReturnStep, VectoredFails
  DEF V!Next
<1> QED
  BY <1>2, <1>3, VectoredStutter

(* readv of 5_7.c gives the bytes of the file to its buffers from the      *)
(* front and in order, loses them only behind a buffer of length 0 or the  *)
(* last one, and gives back what was written whole from buffers of the     *)
(* same lengths that are no longer than a word.                            *)
THEOREM BuffersBack == Spec => []RoundTrip
<1>1. Init => VectoredInv
  <2>1. ASSUME Init PROVE VectoredInv
    <3>1. vstep = "idle" /\ lengths = <<>> /\ data = <<>> /\ raw_buffer = <<>> /\ round = 0
      BY <2>1 DEF Init, V!Init
    <3> QED
      BY <3>1 DEF VectoredInv
  <2> QED
    BY <2>1
<1>2. VectoredInv /\ [Next]_vars => VectoredInv'
  BY VectoredStep
<1>3. VectoredInv => RoundTrip
  BY DEF VectoredInv, Returned, Alike, RoundTrip, V!RoundTrip
<1> QED
  BY <1>1, <1>2, <1>3, PTL DEF Spec

-----------------------------------------------------------------------------
(* Instances that append to one file (5_3.c).                             *)

(* Writing one byte inside a file or right at its end.                     *)
LEMMA WithByteIs ==
    ASSUME NEW S, NEW f \in Seq(S), NEW byte \in S, NEW at \in Nat, at <= Len(f)
    PROVE  /\ App!WithByte(f, at, byte) \in Seq(S)
           /\ Len(App!WithByte(f, at, byte)) = IF at < Len(f) THEN Len(f) ELSE at + 1
           /\ at + 1 \in DOMAIN App!WithByte(f, at, byte)
           /\ App!WithByte(f, at, byte)[at + 1] = byte
           /\ \A i \in DOMAIN App!WithByte(f, at, byte) :
                 i # at + 1 => i \in DOMAIN f /\ App!WithByte(f, at, byte)[i] = f[i]
           /\ \A i \in DOMAIN f : i \in DOMAIN App!WithByte(f, at, byte)
<1> DEFINE n == IF at < Len(f) THEN Len(f) ELSE at + 1
           g == App!WithByte(f, at, byte)
<1>1. n \in Nat /\ Len(f) \in Nat /\ DOMAIN f = 1 .. Len(f)
  OBVIOUS
<1>2. g = [i \in 1 .. n |-> IF i = at + 1 THEN byte
                            ELSE IF i <= Len(f) THEN f[i] ELSE HOLE]
  BY DEF App!WithByte
<1>3. \A i \in 1 .. n : i # at + 1 => i \in 1 .. Len(f)
  BY <1>1
<1>4. \A i \in 1 .. n : g[i] \in S
  BY <1>1, <1>2, <1>3
<1>5. g \in Seq(S) /\ Len(g) = n /\ DOMAIN g = 1 .. n
  BY <1>1, <1>2, <1>4
<1> QED
  BY <1>1, <1>2, <1>3, <1>5

(* An offset obtained with SEEK_END may be stale, but lies between all the *)
(* bytes its owner has written and the end of the file.                    *)
OffsetBounds ==
    \A p \in Instances : pc[p] = "write" =>
        /\ ~atomic[p]
        /\ Len(initial) + written[p] <= offsets[p]
        /\ offsets[p] <= Len(file)
        /\ \A i \in DOMAIN file : i > Len(initial) /\ file[i][1] = p => i <= offsets[p]

(* Every byte behind the initial ones is one that an instance has written. *)
Attributed ==
    \A i \in DOMAIN file : i > Len(initial) =>
        file[i][1] \in Instances /\ file[i][2] <= written[file[i][1]]

Unstarted == \A p \in Instances : pc[p] = "idle" => written[p] = 0

(* The inductive invariant: OffsetBounds says where the next write of a    *)
(* seeking instance goes, Attributed that a new byte has the highest       *)
(* number of its writer.                                                   *)
AppendersInv ==
    /\ App!TypeOK /\ Unstarted /\ OffsetBounds /\ Attributed
    /\ App!OldKept /\ App!NoSelfLoss /\ App!AppendsKept

LEMMA FilesAre ==
    /\ MaxBytes \in Nat /\ Old \notin Instances /\ HOLE \notin App!Byte
    /\ Files \subseteq Seq({Old} \X (Nat \ {0}))
  BY AppendersFiles DEF App!AppendersAssumption

LEMMA OldBytes ==
    ASSUME NEW f \in Files \cup {<<>>}
    PROVE  f \in Seq(App!Byte) /\ Len(f) \in Nat /\ DOMAIN f = 1 .. Len(f)
<1>1. {Old} \X (Nat \ {0}) \subseteq App!Byte
  BY DEF App!Byte
<1>2. PICK X, Y : X = {Old} \X (Nat \ {0}) /\ Y = App!Byte
  OBVIOUS
<1>3. f \in Seq(X) /\ X \subseteq Y
  <2>1. Files \subseteq Seq(X) /\ X \subseteq Y
    BY <1>1, <1>2, FilesAre
  <2>2. <<>> \in Seq(X)
    OBVIOUS
  <2> QED
    BY <2>1, <2>2
<1>4. f \in Seq(Y) /\ Len(f) \in Nat /\ DOMAIN f = 1 .. Len(f)
  BY <1>3
<1> QED
  BY <1>2, <1>4

(* The invariant before the instances are started, and when they are.      *)
LEMMA AppendersInit == App!Init => AppendersInv
<1> SUFFICES ASSUME App!Init PROVE AppendersInv
  OBVIOUS
<1>1. /\ file = initial /\ initial = <<>>
      /\ \A p \in Instances : written[p] = 0 /\ pc[p] = "idle"
  BY DEF App!Init
<1>2. App!TypeOK
  BY <1>1, OldBytes, FilesAre DEF App!Init, App!TypeOK
<1>3. initial \in Seq(App!Byte) /\ Len(initial) \in Nat /\ DOMAIN initial = 1 .. Len(initial)
  BY <1>1, OldBytes
<1>4. OffsetBounds /\ App!NoSelfLoss /\ App!OldKept /\ Attributed /\ App!AppendsKept
  BY <1>1, <1>3 DEF OffsetBounds, App!NoSelfLoss, App!OldKept, Attributed, App!AppendsKept,
     App!InOrder
<1> QED
  BY <1>1, <1>2, <1>4 DEF AppendersInv, Unstarted

LEMMA AppendersStart ==
    ASSUME AppendersInv, App!Start
    PROVE  AppendersInv'
<1>1. /\ file' = initial' /\ initial' \in Files
      /\ \A p \in Instances : written'[p] = 0 /\ pc'[p] # "write"
  BY DEF App!Start, App!Idle, AppendersInv, Unstarted
<1>2. App!TypeOK'
  BY <1>1, OldBytes DEF App!Start, App!TypeOK, AppendersInv
<1>3. initial' \in Seq(App!Byte) /\ Len(initial') \in Nat /\ DOMAIN initial' = 1 .. Len(initial')
  BY <1>1, OldBytes
<1>4. (OffsetBounds /\ App!NoSelfLoss /\ App!OldKept /\ Attributed /\ App!AppendsKept)'
  BY <1>1, <1>3 DEF OffsetBounds, App!NoSelfLoss, App!OldKept, Attributed, App!AppendsKept,
     App!InOrder
<1> QED
  BY <1>1, <1>2, <1>4 DEF AppendersInv, Unstarted

(* A write keeps the invariant.                                            *)
LEMMA ByteWritten ==
    ASSUME AppendersInv, NEW p \in Instances, App!Write(p)
    PROVE  AppendersInv'
<1> DEFINE at == App!WriteAt(p)
           byte == <<p, written[p] + 1>>
<1>1. /\ file \in Seq(App!Byte) /\ Len(file) \in Nat /\ DOMAIN file = 1 .. Len(file)
      /\ initial \in Seq(App!Byte) /\ Len(initial) \in Nat
      /\ DOMAIN initial = 1 .. Len(initial)
      /\ \A q \in Instances : written[q] \in Nat /\ offsets[q] \in Nat
      /\ byte \in App!Byte
  <2>1. initial \in Files \cup {<<>>} /\ file \in Seq(App!Byte)
        /\ written \in [Instances -> Nat] /\ offsets \in [Instances -> Nat]
    BY DEF AppendersInv, App!TypeOK
  <2>2. byte \in App!Byte
    BY <2>1 DEF App!Byte
  <2>3. Len(file) \in Nat /\ DOMAIN file = 1 .. Len(file)
    BY <2>1
  <2> HIDE DEF byte
  <2> QED
    BY <2>1, <2>2, <2>3, OldBytes
<1>2. /\ file' = App!WithByte(file, at, byte)
      /\ initial' = initial /\ atomic' = atomic
      /\ offsets' = [offsets EXCEPT ![p] = at + 1]
      /\ written' = [written EXCEPT ![p] = @ + 1]
      /\ nbytes' = [nbytes EXCEPT ![p] = @ - 1]
      /\ pc' = [pc EXCEPT ![p] = "loop"]
      /\ nbytes[p] > 0
  BY DEF App!Write
<1>3. at \in Nat /\ Len(initial) + written[p] <= at /\ at <= Len(file)
  <2>1. CASE atomic[p]
    BY <1>1, <2>1 DEF App!WriteAt, AppendersInv, App!NoSelfLoss
  <2>2. CASE ~atomic[p]
    BY <1>1, <2>2 DEF App!WriteAt, App!Write, AppendersInv, OffsetBounds
  <2> QED
    BY <2>1, <2>2
<1>4. /\ file' \in Seq(App!Byte) /\ Len(file') \in Nat /\ DOMAIN file' = 1 .. Len(file')
      /\ Len(file') = IF at < Len(file) THEN Len(file) ELSE at + 1
      /\ at + 1 \in DOMAIN file' /\ file'[at + 1] = byte
      /\ \A i \in DOMAIN file' : i # at + 1 => i \in DOMAIN file /\ file'[i] = file[i]
      /\ \A i \in DOMAIN file : i \in DOMAIN file'
  <2> DEFINE g == App!WithByte(file, at, byte)
  <2>1. /\ g \in Seq(App!Byte)
        /\ Len(g) = IF at < Len(file) THEN Len(file) ELSE at + 1
        /\ at + 1 \in DOMAIN g /\ g[at + 1] = byte
        /\ \A i \in DOMAIN g : i # at + 1 => i \in DOMAIN file /\ g[i] = file[i]
        /\ \A i \in DOMAIN file : i \in DOMAIN g
    <3> HIDE DEF at, byte
    <3> QED
      BY <1>1, <1>3, WithByteIs
  <2>2. file' = g
    BY <1>2
  <2> HIDE DEF g
  <2>3. Len(g) \in Nat /\ DOMAIN g = 1 .. Len(g)
    BY <2>1
  <2> QED
    BY <2>1, <2>2, <2>3
<1>5. /\ written'[p] = written[p] + 1
      /\ \A q \in Instances : q # p => written'[q] = written[q]
      /\ \A q \in Instances : written'[q] \in Nat
  BY <1>1, <1>2 DEF AppendersInv, App!TypeOK
<1>6. Len(file') >= Len(file)
  BY <1>1, <1>3, <1>4
<1>7. App!TypeOK'
  <2>1. nbytes' \in [Instances -> 0 .. MaxBytes]
    BY <1>2, FilesAre DEF AppendersInv, App!TypeOK
  <2>2. written' \in [Instances -> Nat] /\ offsets' \in [Instances -> Nat]
    BY <1>1, <1>2, <1>3 DEF AppendersInv, App!TypeOK
  <2> QED
    BY <1>2, <1>4, <2>1, <2>2 DEF AppendersInv, App!TypeOK
<1>8. OffsetBounds'
  <2> SUFFICES ASSUME NEW q \in Instances, pc'[q] = "write"
               PROVE  /\ ~atomic'[q]
                      /\ Len(initial') + written'[q] <= offsets'[q]
                      /\ offsets'[q] <= Len(file')
                      /\ \A i \in DOMAIN file' :
                            i > Len(initial') /\ file'[i][1] = q => i <= offsets'[q]
    BY DEF OffsetBounds
  <2>1. q # p /\ pc[q] = "write" /\ offsets'[q] = offsets[q] /\ written'[q] = written[q]
    BY <1>2, <1>5 DEF AppendersInv, App!TypeOK
  <2>2. ASSUME NEW i \in DOMAIN file', i > Len(initial'), file'[i][1] = q
        PROVE  i <= offsets[q]
    <3>1. i # at + 1
      BY <1>4, <2>1, <2>2
    <3>2. i \in DOMAIN file /\ file'[i] = file[i]
      BY <1>4, <3>1
    <3> QED
      BY <1>2, <2>1, <2>2, <3>2 DEF AppendersInv, OffsetBounds
  <2>3. ~atomic[q] /\ Len(initial) + written[q] <= offsets[q] /\ offsets[q] <= Len(file)
    BY <2>1 DEF AppendersInv, OffsetBounds
  <2>4. offsets[q] <= Len(file')
    BY <1>1, <1>4, <1>6, <2>3
  <2> QED
    BY <1>2, <2>1, <2>2, <2>3, <2>4
<1>9. Attributed'
  <2> SUFFICES ASSUME NEW i \in DOMAIN file', i > Len(initial')
               PROVE  file'[i][1] \in Instances /\ file'[i][2] <= written'[file'[i][1]]
    BY DEF Attributed
  <2>1. CASE i = at + 1
    BY <1>1, <1>4, <1>5, <2>1
  <2>2. CASE i # at + 1
    <3>1. i \in DOMAIN file /\ file'[i] = file[i]
      BY <1>4, <2>2
    <3>2. file[i][1] \in Instances /\ file[i][2] <= written[file[i][1]]
      BY <1>2, <3>1 DEF AppendersInv, Attributed
    <3>3. file[i][2] \in Nat
      BY <1>1, <3>1 DEF App!Byte
    <3> QED
      BY <1>1, <1>5, <3>1, <3>2, <3>3, SMTT(40)
  <2> QED
    BY <2>1, <2>2
<1>10. App!OldKept'
  <2>1. Len(file) >= Len(initial) /\ \A i \in DOMAIN initial : file[i] = initial[i]
    BY DEF AppendersInv, App!OldKept
  <2>2. \A i \in DOMAIN initial : i # at + 1 /\ i \in DOMAIN file
    BY <1>1, <1>3, <2>1
  <2>3. \A i \in DOMAIN initial : file'[i] = initial[i]
    BY <1>4, <2>1, <2>2
  <2>4. Len(file') >= Len(initial)
    BY <1>1, <1>4, <1>6, <2>1
  <2> QED
    BY <1>2, <2>3, <2>4 DEF App!OldKept
<1>14. App!InOrder'
  <2> SUFFICES ASSUME NEW i \in DOMAIN file', NEW j \in DOMAIN file',
                      Len(initial) < i, i < j, file'[i][1] = file'[j][1]
               PROVE  file'[i][2] < file'[j][2]
    BY <1>2 DEF App!InOrder
  <2>1. CASE j = at + 1
    <3>1. i \in DOMAIN file /\ file'[i] = file[i]
      BY <1>1, <1>4, <2>1
    <3>2. file[i][1] = p /\ file[i][2] <= written[p]
      BY <1>4, <2>1, <3>1 DEF AppendersInv, Attributed
    <3>3. file[i][2] \in Nat
      BY <1>1, <3>1 DEF App!Byte
    <3> QED
      BY <1>1, <1>4, <2>1, <3>1, <3>2, <3>3
  <2>2. CASE i = at + 1
    <3>1. j \in DOMAIN file /\ file[j][1] = p /\ j > Len(initial) /\ j > at
      BY <1>1, <1>3, <1>4, <2>2
    <3>2. CASE atomic[p]
      BY <1>1, <3>1, <3>2 DEF App!WriteAt
    <3>3. CASE ~atomic[p]
      <4>1. pc[p] = "write" /\ at = offsets[p]
        BY <3>3 DEF App!Write, App!WriteAt
      <4>2. j <= offsets[p]
        BY <3>1, <4>1 DEF AppendersInv, OffsetBounds
      <4> QED
        BY <1>1, <1>3, <3>1, <4>1, <4>2
    <3> QED
      BY <3>2, <3>3
  <2>3. CASE i # at + 1 /\ j # at + 1
    <3>1. /\ i \in DOMAIN file /\ file'[i] = file[i]
          /\ j \in DOMAIN file /\ file'[j] = file[j]
      BY <1>4, <2>3
    <3>2. App!InOrder
      BY DEF AppendersInv, App!NoSelfLoss
    <3> QED
      BY <3>1, <3>2 DEF App!InOrder
  <2> QED
    BY <2>1, <2>2, <2>3
<1>11. App!NoSelfLoss'
  <2>1. Len(file') >= Len(initial) + written'[p]
    BY <1>1, <1>3, <1>4, <1>5
  <2>2. \A q \in Instances : q # p => Len(file') >= Len(initial) + written'[q]
    BY <1>1, <1>4, <1>5, <1>6 DEF AppendersInv, App!NoSelfLoss
  <2> QED
    BY <1>2, <1>14, <2>1, <2>2 DEF App!NoSelfLoss
<1>12. App!AppendsKept'
  <2> SUFFICES ASSUME \A q \in Instances : atomic[q]
               PROVE  /\ \A q \in Instances : \A k \in 1 .. written'[q] :
                            \E i \in DOMAIN file' : i > Len(initial) /\ file'[i] = <<q, k>>
                      /\ App!InOrder'
    BY <1>2 DEF App!AppendsKept
  <2>1. /\ at = Len(file)
        /\ \A i \in DOMAIN file : file'[i] = file[i]
        /\ \A i \in DOMAIN file' : i <= at + 1
    BY <1>1, <1>4 DEF App!WriteAt
  <2>2. ASSUME NEW q \in Instances, NEW k \in 1 .. written'[q]
        PROVE  \E i \in DOMAIN file' : i > Len(initial) /\ file'[i] = <<q, k>>
    <3>1. CASE q = p /\ k = written[p] + 1
      <4>1. at + 1 > Len(initial)
        BY <1>1, <1>3
      <4> QED
        BY <1>4, <3>1, <4>1
    <3>2. CASE ~(q = p /\ k = written[p] + 1)
      <4>1. k \in 1 .. written[q]
        BY <1>1, <1>5, <3>2
      <4>2. PICK i \in DOMAIN file : i > Len(initial) /\ file[i] = <<q, k>>
        BY <4>1 DEF AppendersInv, App!AppendsKept
      <4> QED
        BY <1>4, <2>1, <4>2
    <3> QED
      BY <3>1, <3>2
  <2> QED
    BY <1>14, <2>2
<1>13. Unstarted'
  BY <1>2, <1>5 DEF AppendersInv, App!TypeOK, Unstarted
<1> QED
  BY <1>7, <1>8, <1>9, <1>10, <1>11, <1>12, <1>13 DEF AppendersInv

(* A step that writes nothing keeps the invariant; the only one that gives *)
(* an offset is App!Seek, and it gives the end of the file.                    *)
LEMMA NothingWritten ==
    ASSUME AppendersInv, NEW p \in Instances, UNCHANGED <<file, initial, atomic, nbytes, written>>,
           NEW at \in Nat, NEW to \in {"open", "loop", "write", "done", "failed"},
           offsets' = [offsets EXCEPT ![p] = at], pc' = [pc EXCEPT ![p] = to],
           to = "write" => at = Len(file) /\ ~atomic[p]
    PROVE  AppendersInv'
<1>1. App!TypeOK'
  BY DEF AppendersInv, App!TypeOK
<1>2. OffsetBounds'
  <2> SUFFICES ASSUME NEW q \in Instances, pc'[q] = "write"
               PROVE  /\ ~atomic[q]
                      /\ Len(initial) + written[q] <= offsets'[q]
                      /\ offsets'[q] <= Len(file)
                      /\ \A i \in DOMAIN file :
                            i > Len(initial) /\ file[i][1] = q => i <= offsets'[q]
    BY DEF OffsetBounds
  <2>1. CASE q = p
    <3>1. /\ to = "write" /\ offsets'[q] = Len(file) /\ Len(file) \in Nat
          /\ DOMAIN file = 1 .. Len(file)
      BY <2>1 DEF AppendersInv, App!TypeOK
    <3> QED
      BY <2>1, <3>1 DEF AppendersInv, App!NoSelfLoss
  <2>2. CASE q # p
    <3>1. offsets'[q] = offsets[q] /\ pc[q] = "write"
      BY <2>2 DEF AppendersInv, App!TypeOK
    <3> QED
      BY <3>1 DEF AppendersInv, OffsetBounds
  <2> QED
    BY <2>1, <2>2
<1>3. Attributed' /\ App!OldKept' /\ App!NoSelfLoss' /\ App!AppendsKept'
  BY DEF AppendersInv, Attributed, App!OldKept, App!NoSelfLoss, App!AppendsKept, App!InOrder
<1>4. Unstarted'
  BY DEF AppendersInv, App!TypeOK, Unstarted
<1> QED
  BY <1>1, <1>2, <1>3, <1>4 DEF AppendersInv

LEMMA AppendersNext ==
    ASSUME AppendersInv, App!Next
    PROVE  AppendersInv'
<1>1. ASSUME NEW p \in Instances, App!Write(p) PROVE AppendersInv'
  BY <1>1, ByteWritten
<1>2. ASSUME NEW p \in Instances, App!Seek(p) PROVE AppendersInv'
  <2>1. Len(file) \in Nat
    BY DEF AppendersInv, App!TypeOK
  <2> QED
    BY <1>2, <2>1, NothingWritten DEF App!Seek, App!SeekEnd
<1>3. ASSUME NEW p \in Instances, App!Open(p) \/ App!OpenFails(p) \/ App!Close(p) \/ App!Fail(p)
      PROVE  AppendersInv'
  <2>1. offsets[p] \in Nat /\ offsets' = [offsets EXCEPT ![p] = offsets[p]]
    BY <1>3 DEF AppendersInv, App!TypeOK, App!Open, App!OpenFails, App!Close, App!Fail
  <2>2. /\ UNCHANGED <<file, initial, atomic, nbytes, written>>
        /\ \E to \in {"loop", "done", "failed"} : pc' = [pc EXCEPT ![p] = to]
    BY <1>3 DEF App!Open, App!OpenFails, App!Close, App!Fail
  <2> QED
    BY <2>1, <2>2, NothingWritten
<1>4. ASSUME NEW p \in Instances, App!Step(p) PROVE AppendersInv'
  BY <1>1, <1>2, <1>3, <1>4 DEF App!Step
<1>5. App!Start \/ \E p \in Instances : App!Step(p)
  BY DEF App!Next
<1> QED
  BY <1>4, <1>5, AppendersStart

LEMMA AppendersStutter ==
    ASSUME AppendersInv, UNCHANGED appending
    PROVE  AppendersInv'
<1>1. /\ file' = file /\ initial' = initial /\ atomic' = atomic /\ nbytes' = nbytes
      /\ written' = written /\ offsets' = offsets /\ pc' = pc
  BY DEF appending
<1>2. App!TypeOK' /\ Unstarted' /\ OffsetBounds' /\ Attributed'
  BY <1>1 DEF AppendersInv, App!TypeOK, Unstarted, OffsetBounds, Attributed
<1>3. App!OldKept' /\ App!NoSelfLoss' /\ App!AppendsKept'
  BY <1>1 DEF AppendersInv, App!OldKept, App!NoSelfLoss, App!AppendsKept, App!InOrder
<1> QED
  BY <1>2, <1>3 DEF AppendersInv

(* In every state of 5_3.c's instances the bounds of the offsets hold, and *)
(* so does what they promise.                                              *)
THEOREM AppendersInvariance == Spec => []AppendersInv
<1>1. Init => AppendersInv
  BY AppendersInit DEF Init
<1>2. AppendersInv /\ [Next]_vars => AppendersInv'
  <2>1. [Next]_vars => UNCHANGED appending \/ App!Next
    BY DEF vars, Next, OnlyTail, OnlyEnviron, OnlyVectored, OnlyAppenders, OnlyDatagrams
  <2> QED
    BY <2>1, AppendersNext, AppendersStutter
<1> QED
  BY <1>1, <1>2, PTL DEF Spec

(* No instance writes behind the end of the file: there are never holes.   *)
THEOREM NoGaps == Spec => []NoHoles
<1>1. AppendersInv => NoHoles
  BY FilesAre DEF AppendersInv, App!TypeOK, NoHoles, App!NoHoles
<1> QED
  BY <1>1, AppendersInvariance, PTL

(* No instance, in either mode, touches what the file held before.         *)
THEOREM OldBytesKept == Spec => []OldKept
<1>1. AppendersInv => OldKept
  BY DEF AppendersInv, OldKept
<1> QED
  BY <1>1, AppendersInvariance, PTL

(* With O_APPEND everywhere no write is lost and nobody's are reordered.   *)
THEOREM NothingLost == Spec => []AppendsKept
<1>1. AppendersInv => AppendsKept
  BY DEF AppendersInv, AppendsKept
<1> QED
  BY <1>1, AppendersInvariance, PTL

(* Even with lseek and write an instance never overwrites itself: its      *)
(* bytes stay in order and the file grows by as many as it writes.         *)
THEOREM SelfSafe == Spec => []NoSelfLoss
<1>1. AppendersInv => NoSelfLoss
  BY DEF AppendersInv, NoSelfLoss
<1> QED
  BY <1>1, AppendersInvariance, PTL
=============================================================================
