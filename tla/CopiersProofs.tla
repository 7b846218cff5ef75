--------------------------- MODULE CopiersProofs ---------------------------
(* What the copiers leave in the target, for every source, target, buffer  *)
(* size and cutting of the source into buffers and runs.                   *)
EXTENDS Copiers, WellFoundedInduction, TLAPS

-----------------------------------------------------------------------------
(* The longer of two lengths, the shorter, and the ends of a run. *)

LEMMA MaxOfTwo ==
    ASSUME NEW m \in Nat, NEW n \in Nat
    PROVE  Max({m, n}) = IF m >= n THEN m ELSE n
<1> DEFINE k == IF m >= n THEN m ELSE n
<1>1. k \in {m, n} /\ \A y \in {m, n} : k >= y
  OBVIOUS
<1>2. \A x \in {m, n} : (\A y \in {m, n} : x >= y) => x = k
  OBVIOUS
<1> QED
  BY <1>1, <1>2 DEF Max

LEMMA MinOfTwo ==
    ASSUME NEW m \in Nat, NEW n \in Nat
    PROVE  Min({m, n}) = IF m <= n THEN m ELSE n
<1> DEFINE k == IF m <= n THEN m ELSE n
<1>1. k \in {m, n} /\ \A y \in {m, n} : k <= y
  OBVIOUS
<1>2. \A x \in {m, n} : (\A y \in {m, n} : x <= y) => x = k
  OBVIOUS
<1> QED
  BY <1>1, <1>2 DEF Min

LEMMA LeastOf ==
    ASSUME NEW S \in SUBSET Nat, S # {}
    PROVE  Min(S) \in S /\ \A y \in S : Min(S) <= y
<1>1. PICK x \in S : \A y \in S : ~ (<<y, x>> \in OpToRel(<, Nat))
  BY NatLessThanWellFounded, WFMin
<1>2. ASSUME NEW y \in S PROVE x <= y
  <2>1. y < x => <<y, x>> \in OpToRel(<, Nat)
    BY DEF OpToRel
  <2>2. ~ (y < x)
    BY <1>1, <2>1, Zenon
  <2> QED
    BY <2>2
<1> QED
  BY <1>2 DEF Min

LEMMA GreatestOf ==
    ASSUME NEW n \in Nat, NEW S \in SUBSET (0 .. n), S # {}
    PROVE  Max(S) \in S /\ \A y \in S : Max(S) >= y
<1> DEFINE R == {m \in Nat : \E x \in S : m = n - x}
<1>1. R \in SUBSET Nat /\ R # {}
  <2>1. PICK x \in S : TRUE
    OBVIOUS
  <2>2. n - x \in R
    BY <2>1
  <2> QED
    BY <2>2
<1>2. Min(R) \in R /\ \A y \in R : Min(R) <= y
  <2> HIDE DEF R
  <2> QED
    BY <1>1, LeastOf
<1>3. PICK x \in S : Min(R) = n - x
  BY <1>2
<1>4. \A y \in S : x >= y
  <2>1. ASSUME NEW y \in S PROVE x >= y
    <3>1. n - y \in R
      BY <2>1
    <3>2. n - x <= n - y
      BY <1>2, <1>3, <3>1
    <3> QED
      BY <3>2
  <2> QED
    BY <2>1
<1> QED
  BY <1>4 DEF Max

-----------------------------------------------------------------------------
(* Writing into a file *)

(* The file w is f with b written behind the first at bytes.               *)
IsWritten(w, f, at, b) ==
    /\ w \in Seq(Bytes)
    /\ Len(w) = IF b = <<>> \/ at + Len(b) <= Len(f) THEN Len(f) ELSE at + Len(b)
    /\ \A i \in 1 .. Len(w) :
          w[i] = IF i \in at + 1 .. at + Len(b) THEN b[i - at]
                 ELSE IF i <= Len(f) THEN f[i] ELSE NUL

(* What WithBytes makes of a file, byte by byte.                           *)
LEMMA WithBytesIs ==
    ASSUME NEW f \in Seq(Bytes), NEW at \in Nat, NEW b \in Seq(Bytes)
    PROVE  IsWritten(WithBytes(f, at, b), f, at, b)
<1>1. CASE b = <<>>
  <2>1. WithBytes(f, at, b) = f /\ Len(b) = 0
    BY <1>1 DEF WithBytes
  <2>2. \A i \in 1 .. Len(f) : i \notin at + 1 .. at + Len(b) /\ i <= Len(f)
    BY <2>1
  <2> QED
    BY <1>1, <2>1, <2>2 DEF IsWritten
<1>2. CASE b # <<>>
  <2> DEFINE n == Max({Len(f), at + Len(b)})
  <2> DEFINE w == [i \in 1 .. n |->
                     IF i \in at + 1 .. at + Len(b) THEN b[i - at]
                     ELSE IF i <= Len(f) THEN f[i] ELSE NUL]
  <2>1. WithBytes(f, at, b) = w
    BY <1>2 DEF WithBytes
  <2>2. n = (IF at + Len(b) <= Len(f) THEN Len(f) ELSE at + Len(b)) /\ n \in Nat
    BY MaxOfTwo
  <2>3. \A i \in 1 .. n : w[i] \in Bytes
    <3>1. ASSUME NEW i \in 1 .. n PROVE w[i] \in Bytes
      <4>1. i \in at + 1 .. at + Len(b) => b[i - at] \in Bytes
        OBVIOUS
      <4>2. i <= Len(f) => f[i] \in Bytes
        BY <2>2
      <4> HIDE DEF n
      <4> QED
        BY <4>1, <4>2, FilesAssumption
    <3> QED
      BY <3>1
  <2>4. w \in Seq(Bytes) /\ Len(w) = n
    <3> HIDE DEF n
    <3>1. w \in [1 .. n -> Bytes]
      BY <2>3
    <3> QED
      BY <2>2, <3>1
  <2> HIDE DEF n
  <2> QED
    BY <1>2, <2>1, <2>2, <2>4 DEF IsWritten
<1> QED
  BY <1>1, <1>2

(* Two files with the same bytes are the same.                             *)
LEMMA SameFile ==
    ASSUME NEW f \in Seq(Bytes), NEW g \in Seq(Bytes), Len(f) = Len(g),
           \A i \in 1 .. Len(f) : f[i] = g[i]
    PROVE  f = g
OBVIOUS

(* A part of a file.                                                       *)
LEMMA Part ==
    ASSUME NEW f \in Seq(Bytes), NEW m \in Nat, NEW n \in Nat, m + n <= Len(f)
    PROVE  LET p == SubSeq(f, m + 1, m + n)
           IN  /\ p \in Seq(Bytes) /\ Len(p) = n
               /\ \A i \in 1 .. n : p[i] = f[m + i]
BY SMTT(30)

(* Writing what is there changes nothing.                                  *)
LEMMA Overwrite ==
    ASSUME NEW f \in Seq(Bytes), NEW m \in Nat, NEW n \in Nat, m + n <= Len(f)
    PROVE  WithBytes(f, m, SubSeq(f, m + 1, m + n)) = f
<1> DEFINE b == SubSeq(f, m + 1, m + n)
<1> DEFINE w == WithBytes(f, m, b)
<1>1. b \in Seq(Bytes) /\ Len(b) = n /\ \A i \in 1 .. n : b[i] = f[m + i]
  BY Part
<1> HIDE DEF b
<1>2. /\ w \in Seq(Bytes)
      /\ Len(w) = Len(f)
      /\ \A i \in 1 .. Len(w) :
            w[i] = IF i \in m + 1 .. m + Len(b) THEN b[i - m]
                   ELSE IF i <= Len(f) THEN f[i] ELSE NUL
  <2>1. IsWritten(w, f, m, b)
    BY <1>1, WithBytesIs, Zenon
  <2> HIDE DEF w
  <2>2. m + Len(b) <= Len(f)
    BY <1>1
  <2> QED
    BY <2>1, <2>2 DEF IsWritten
<1> HIDE DEF w
<1>3. \A i \in 1 .. Len(w) : w[i] = f[i]
  BY <1>1, <1>2
<1>4. w = f
  BY <1>2, <1>3, SameFile
<1> QED
  BY <1>4 DEF w, b

(* Writing the next bytes of a file behind the first ones.                 *)
LEMMA Continue ==
    ASSUME NEW f \in Seq(Bytes), NEW t \in Seq(Bytes), NEW at \in Nat,
           NEW m \in Nat, NEW k \in Nat, k # 0, m + k <= Len(f)
    PROVE  WithBytes(WithBytes(t, at, SubSeq(f, 1, m)), at + m, SubSeq(f, m + 1, m + k))
             = WithBytes(t, at, SubSeq(f, 1, m + k))
<1> DEFINE a == SubSeq(f, 1, m)
<1> DEFINE b == SubSeq(f, m + 1, m + k)
<1> DEFINE c == SubSeq(f, 1, m + k)
<1> DEFINE u == WithBytes(t, at, a)
<1> DEFINE v == WithBytes(u, at + m, b)
<1> DEFINE w == WithBytes(t, at, c)
<1>1. /\ a \in Seq(Bytes) /\ Len(a) = m /\ \A i \in 1 .. m : a[i] = f[i]
      /\ b \in Seq(Bytes) /\ Len(b) = k /\ \A i \in 1 .. k : b[i] = f[m + i]
      /\ c \in Seq(Bytes) /\ Len(c) = m + k /\ \A i \in 1 .. m + k : c[i] = f[i]
  <2>1. a = SubSeq(f, 0 + 1, 0 + m) /\ c = SubSeq(f, 0 + 1, 0 + (m + k))
    OBVIOUS
  <2> HIDE DEF a, b, c
  <2>2. a \in Seq(Bytes) /\ Len(a) = m /\ \A i \in 1 .. m : a[i] = f[0 + i]
    BY <2>1, Part
  <2>3. b \in Seq(Bytes) /\ Len(b) = k /\ \A i \in 1 .. k : b[i] = f[m + i]
    BY Part DEF b
  <2>4. c \in Seq(Bytes) /\ Len(c) = m + k /\ \A i \in 1 .. m + k : c[i] = f[0 + i]
    BY <2>1, Part
  <2> QED
    BY <2>2, <2>3, <2>4
<1>2. a = <<>> <=> m = 0
  BY <1>1
<1>3. b # <<>> /\ c # <<>>
  BY <1>1, SMTT(30)
<1> HIDE DEF a, b, c
<1>4. /\ u \in Seq(Bytes)
      /\ Len(u) = IF m = 0 \/ at + m <= Len(t) THEN Len(t) ELSE at + m
      /\ \A i \in 1 .. Len(u) :
            u[i] = IF i \in at + 1 .. at + m THEN a[i - at]
                   ELSE IF i <= Len(t) THEN t[i] ELSE NUL
  <2>1. IsWritten(u, t, at, a)
    BY <1>1, WithBytesIs, Zenon
  <2> HIDE DEF u
  <2> QED
    BY <1>1, <1>2, <2>1 DEF IsWritten
<1> HIDE DEF u
<1>5. /\ v \in Seq(Bytes)
      /\ Len(v) = IF at + m + k <= Len(u) THEN Len(u) ELSE at + m + k
      /\ \A i \in 1 .. Len(v) :
            v[i] = IF i \in at + m + 1 .. at + m + k THEN b[i - (at + m)]
                   ELSE IF i <= Len(u) THEN u[i] ELSE NUL
  <2>1. at + m \in Nat
    OBVIOUS
  <2>2. IsWritten(v, u, at + m, b)
    BY <1>1, <1>4, <2>1, WithBytesIs, Zenon
  <2> HIDE DEF v
  <2> QED
    BY <1>1, <1>3, <2>2 DEF IsWritten
<1>6. /\ w \in Seq(Bytes)
      /\ Len(w) = IF at + m + k <= Len(t) THEN Len(t) ELSE at + m + k
      /\ \A i \in 1 .. Len(w) :
            w[i] = IF i \in at + 1 .. at + m + k THEN c[i - at]
                   ELSE IF i <= Len(t) THEN t[i] ELSE NUL
  <2>1. IsWritten(w, t, at, c)
    BY <1>1, WithBytesIs, Zenon
  <2> HIDE DEF w
  <2>2. at + Len(c) = at + m + k
    BY <1>1
  <2> QED
    BY <1>3, <2>1, <2>2 DEF IsWritten
<1> HIDE DEF v, w
<1>7. Len(v) = Len(w)
  BY <1>4, <1>5, <1>6
<1>8. ASSUME NEW i \in 1 .. Len(v) PROVE v[i] = w[i]
  <2>1. CASE i \in at + m + 1 .. at + m + k
    <3>1. v[i] = f[m + (i - (at + m))] /\ w[i] = f[i - at]
      BY <1>1, <1>5, <1>6, <1>7, <2>1, SMTT(30)
    <3>2. m + (i - (at + m)) = i - at
      OBVIOUS
    <3> QED
      BY <3>1, <3>2
  <2>2. CASE i \in at + 1 .. at + m
    <3>1. i \in 1 .. Len(u) /\ i \notin at + m + 1 .. at + m + k
      BY <1>4, <2>2
    <3>2. i \in 1 .. Len(w) /\ i \in at + 1 .. at + m + k
      BY <1>7, <2>2
    <3>3. i - at \in 1 .. m /\ i - at \in 1 .. m + k /\ i <= Len(u)
      BY <2>2, <3>1
    <3>4. v[i] = u[i] /\ u[i] = a[i - at] /\ w[i] = c[i - at]
      BY <1>4, <1>5, <1>6, <2>2, <3>1, <3>2, <3>3, Zenon
    <3>5. a[i - at] = f[i - at] /\ c[i - at] = f[i - at]
      BY <1>1, <3>3
    <3> QED
      BY <3>4, <3>5
  <2>3. CASE i \notin at + 1 .. at + m + k
    <3>1. w[i] = IF i <= Len(t) THEN t[i] ELSE NUL
      BY <1>6, <1>7, <2>3
    <3>2. v[i] = IF i <= Len(u) THEN u[i] ELSE NUL
      BY <1>5, <2>3
    <3>3. CASE i <= Len(u)
      <4>1. u[i] = IF i <= Len(t) THEN t[i] ELSE NUL
        BY <1>4, <2>3, <3>3, SMTT(30)
      <4> QED
        BY <3>1, <3>2, <3>3, <4>1
    <3>4. CASE i > Len(u)
      BY <1>4, <3>1, <3>2, <3>4
    <3> QED
      BY <1>4, <3>3, <3>4
  <2> QED
    BY <2>1, <2>2, <2>3
<1>9. v = w
  BY <1>5, <1>6, <1>7, <1>8, SameFile
<1> QED
  BY <1>9 DEF v, u, w, a, b, c

(* A file written from its beginning to an empty one.                      *)
LEMMA Fresh ==
    ASSUME NEW b \in Seq(Bytes)
    PROVE  WithBytes(<<>>, 0, b) = b
<1>1. PICK e \in Seq(Bytes) : e = <<>> /\ Len(e) = 0
  <2>1. <<>> \in Seq(Bytes) /\ Len(<<>>) = 0
    OBVIOUS
  <2> QED
    BY <2>1, Zenon
<1> DEFINE w == WithBytes(e, 0, b)
<1>2. /\ w \in Seq(Bytes)
      /\ Len(w) = IF b = <<>> \/ 0 + Len(b) <= Len(e) THEN Len(e) ELSE 0 + Len(b)
      /\ \A i \in 1 .. Len(w) :
            w[i] = IF i \in 0 + 1 .. 0 + Len(b) THEN b[i - 0]
                   ELSE IF i <= Len(e) THEN e[i] ELSE NUL
  <2>1. IsWritten(w, e, 0, b)
    BY WithBytesIs
  <2> QED
    BY <2>1, Zenon DEF IsWritten
<1> HIDE DEF w
<1>3. Len(w) = Len(b) /\ \A i \in 1 .. Len(w) : w[i] = b[i]
  BY <1>1, <1>2
<1>4. w = b
  BY <1>2, <1>3, SameFile
<1> QED
  BY <1>1, <1>4 DEF w

(* Two files of the same length.                                           *)
LEMMA WholeWritten ==
    ASSUME NEW f \in Seq(Bytes), NEW b \in Seq(Bytes), Len(f) = Len(b)
    PROVE  WithBytes(f, 0, b) = b
<1>1. PICK w : w = WithBytes(f, 0, b)
  OBVIOUS
<1>2. IsWritten(w, f, 0, b)
  BY <1>1, WithBytesIs
<1>3. w \in Seq(Bytes) /\ Len(w) = Len(b) /\ \A i \in 1 .. Len(w) : w[i] = b[i]
  BY <1>2 DEF IsWritten
<1>4. w = b
  BY <1>3, SameFile
<1> QED
  BY <1>1, <1>4

LEMMA Unresized ==
    ASSUME NEW f \in Seq(Bytes)
    PROVE  Resized(f, Len(f)) = f
BY DEF Resized

LEMMA Joined ==
    ASSUME NEW f \in Seq(Bytes), NEW m \in Nat, NEW k \in Nat, m + k <= Len(f)
    PROVE  SubSeq(f, 1, m) \o SubSeq(f, m + 1, m + k) = SubSeq(f, 1, m + k)
OBVIOUS

(* The file w is s over t, with p the place of the last byte of s that is  *)
(* not null.                                                               *)
IsShown(w, s, t, p) ==
    /\ p \in 0 .. Len(s)
    /\ p # 0 => s[p] # NUL
    /\ \A i \in p + 1 .. Len(s) : s[i] = NUL
    /\ w \in Seq(Bytes)
    /\ Len(w) = IF p <= Len(t) THEN Len(t) ELSE p
    /\ \A i \in 1 .. Len(w) :
          w[i] = IF i <= Len(s) /\ s[i] # NUL THEN s[i]
                 ELSE IF i <= Len(t) THEN t[i] ELSE NUL

LEMMA ShownIs ==
    ASSUME NEW s \in Seq(Bytes), NEW t \in Seq(Bytes)
    PROVE  \E p : IsShown(Shown(s, t), s, t, p)
<1>1. Len(s) \in Nat /\ DOMAIN s = 1 .. Len(s) /\ Len(t) \in Nat
  OBVIOUS
<1> DEFINE L == {0} \cup {i \in DOMAIN s : s[i] # NUL}
<1>2. L \in SUBSET (0 .. Len(s)) /\ L # {}
  BY <1>1
<1>3. Max(L) \in L /\ \A y \in L : Max(L) >= y
  <2> HIDE DEF L
  <2> QED
    BY <1>1, <1>2, GreatestOf
<1>4. PICK p \in L : p = Max(L)
  BY <1>3
<1>5. /\ p \in 0 .. Len(s) /\ (p # 0 => s[p] # NUL)
      /\ \A i \in p + 1 .. Len(s) : s[i] = NUL
  <2>1. ASSUME NEW i \in p + 1 .. Len(s), s[i] # NUL PROVE FALSE
    <3>1. p \in 0 .. Len(s)
      BY <1>2
    <3>2. i \in L /\ ~ (p >= i)
      BY <1>1, <2>1, <3>1
    <3> QED
      BY <1>3, <1>4, <3>2
  <2> QED
    BY <1>2, <2>1
<1> DEFINE n == IF p <= Len(t) THEN Len(t) ELSE p
<1> DEFINE w == [i \in 1 .. n |-> IF i <= Len(s) /\ s[i] # NUL THEN s[i]
                                 ELSE IF i <= Len(t) THEN t[i] ELSE NUL]
<1>6. Shown(s, t) = w
  <2>1. Max({Max(L), Len(t)}) = n
    BY <1>1, <1>4, <1>5, MaxOfTwo, SMTT(40)
  <2> HIDE DEF n
  <2> QED
    BY <2>1 DEF Shown
<1>7. n \in Nat
  BY <1>1, <1>5
<1>8. w \in [1 .. n -> Bytes]
  <2>1. ASSUME NEW i \in 1 .. n PROVE w[i] \in Bytes
    <3>1. i <= Len(s) => s[i] \in Bytes
      BY <1>7
    <3>2. i <= Len(t) => t[i] \in Bytes
      BY <1>7
    <3> HIDE DEF n
    <3> QED
      BY <3>1, <3>2, FilesAssumption
  <2> QED
    BY <2>1
<1>9. w \in Seq(Bytes) /\ Len(w) = n
  <2> HIDE DEF n
  <2>1. w \in [1 .. n -> Bytes] => w \in Seq(Bytes) /\ Len(w) = n
    BY <1>7
  <2> QED
    BY <1>8, <2>1
<1>10. \A i \in 1 .. n : w[i] = IF i <= Len(s) /\ s[i] # NUL THEN s[i]
                               ELSE IF i <= Len(t) THEN t[i] ELSE NUL
  <2> HIDE DEF n
  <2> QED
    OBVIOUS
<1>11. IsShown(w, s, t, p)
  <2> HIDE DEF w
  <2>1. Len(w) = IF p <= Len(t) THEN Len(t) ELSE p
    BY <1>9
  <2> HIDE DEF n
  <2> QED
    BY <1>5, <1>9, <1>10, <2>1 DEF IsShown
<1> QED
  BY <1>6, <1>11

(* Nothing hides nothing.                                                  *)
LEMMA ShownNothing ==
    ASSUME NEW t \in Seq(Bytes)
    PROVE  Shown(<<>>, t) = t
<1>1. <<>> \in Seq(Bytes) /\ Len(<<>>) = 0
  OBVIOUS
<1>2. PICK e \in Seq(Bytes) : e = <<>> /\ Len(e) = 0
  BY <1>1, Zenon
<1>3. PICK p : IsShown(Shown(e, t), e, t, p)
  BY ShownIs
<1>4. PICK w : w = Shown(e, t)
  OBVIOUS
<1>5. w \in Seq(Bytes) /\ Len(w) = Len(t) /\ \A i \in 1 .. Len(w) : w[i] = t[i]
  BY <1>2, <1>3, <1>4 DEF IsShown
<1>6. w = t
  BY <1>5, SameFile
<1> QED
  BY <1>2, <1>4, <1>6

(* A run of bytes that are not null is written over what is shown so far,  *)
(* and the null bytes behind it are skipped.                               *)
LEMMA ShownStep ==
    ASSUME NEW f \in Seq(Bytes), NEW t \in Seq(Bytes),
           NEW m \in Nat, NEW d \in m .. Len(f), NEW n \in d .. Len(f),
           \A j \in m + 1 .. d : f[j] # NUL, \A j \in d + 1 .. n : f[j] = NUL
    PROVE  WithBytes(Shown(SubSeq(f, 1, m), t), m, SubSeq(f, m + 1, d))
             = Shown(SubSeq(f, 1, n), t)
<1>1. PICK a, b, c :
         /\ a = SubSeq(f, 1, m) /\ b = SubSeq(f, m + 1, d) /\ c = SubSeq(f, 1, n)
  OBVIOUS
<1>2. /\ a \in Seq(Bytes) /\ Len(a) = m /\ \A i \in 1 .. m : a[i] = f[i]
      /\ b \in Seq(Bytes) /\ Len(b) = d - m /\ \A i \in 1 .. d - m : b[i] = f[m + i]
      /\ c \in Seq(Bytes) /\ Len(c) = n /\ \A i \in 1 .. n : c[i] = f[i]
  <2>1. a \in Seq(Bytes) /\ Len(a) = m /\ \A i \in 1 .. m : a[i] = f[i]
    BY <1>1
  <2>2. b \in Seq(Bytes) /\ Len(b) = d - m /\ \A i \in 1 .. d - m : b[i] = f[m + i]
    BY <1>1
  <2>3. c \in Seq(Bytes) /\ Len(c) = n /\ \A i \in 1 .. n : c[i] = f[i]
    BY <1>1
  <2> QED
    BY <2>1, <2>2, <2>3
<1>3. PICK p : IsShown(Shown(a, t), a, t, p)
  BY <1>2, ShownIs
<1>4. PICK q : IsShown(Shown(c, t), c, t, q)
  BY <1>2, ShownIs
<1>5. PICK u, v, w :
         u = Shown(a, t) /\ v = WithBytes(u, m, b) /\ w = Shown(c, t)
  OBVIOUS
<1>6. IsShown(u, a, t, p) /\ IsShown(w, c, t, q)
  BY <1>3, <1>4, <1>5
<1>7. IsWritten(v, u, m, b)
  <2>1. u \in Seq(Bytes)
    BY <1>6 DEF IsShown
  <2> QED
    BY <1>2, <1>5, <2>1, WithBytesIs, Zenon
<1>8. p \in 0 .. m /\ q \in 0 .. n /\ Len(t) \in Nat
  BY <1>2, <1>6 DEF IsShown
<1>9. q = IF d > m THEN d ELSE p
  <2>1. CASE d > m
    <3>1. c[d] # NUL
      <4>1. d \in m + 1 .. d /\ d \in 1 .. n
        BY <2>1
      <4> QED
        BY <1>2, <4>1
    <3>2. ~ (q < d)
      BY <1>2, <1>6, <1>8, <2>1, <3>1 DEF IsShown
    <3>3. ~ (q > d)
      BY <1>2, <1>6, <1>8, <2>1 DEF IsShown
    <3> QED
      BY <1>8, <2>1, <3>2, <3>3
  <2>2. CASE d = m
    <3>1. ~ (q > m)
      BY <1>2, <1>6, <1>8, <2>2 DEF IsShown
    <3>2. ~ (q < p)
      BY <1>2, <1>6, <1>8, <2>2 DEF IsShown
    <3>3. ~ (q > p)
      BY <1>2, <1>6, <1>8, <2>2, <3>1 DEF IsShown
    <3> QED
      BY <1>8, <2>2, <3>2, <3>3
  <2> QED
    BY <2>1, <2>2
<1>10. v \in Seq(Bytes) /\ w \in Seq(Bytes)
  BY <1>6, <1>7 DEF IsShown, IsWritten
<1>11. Len(v) = Len(w)
  <2>1. b = <<>> <=> d = m
    BY <1>2
  <2>2. Len(u) = (IF p <= Len(t) THEN Len(t) ELSE p) /\ Len(w) = (IF q <= Len(t) THEN Len(t) ELSE q)
    BY <1>6 DEF IsShown
  <2>3. Len(v) = IF d = m \/ d <= Len(u) THEN Len(u) ELSE d
    BY <1>2, <1>7, <2>1 DEF IsWritten
  <2> QED
    BY <1>8, <1>9, <2>2, <2>3
<1>12. ASSUME NEW i \in 1 .. Len(v) PROVE v[i] = w[i]
  <2>1. CASE i \in m + 1 .. d
    <3>1. v[i] = b[i - m] /\ b[i - m] = f[m + (i - m)] /\ m + (i - m) = i
      BY <1>2, <1>7, <2>1 DEF IsWritten
    <3>2. w[i] = c[i]
      BY <1>2, <1>6, <1>11, <2>1 DEF IsShown
    <3> QED
      BY <1>2, <2>1, <3>1, <3>2, SMTT(40)
  <2>2. CASE i \in 1 .. m
    <3>1. i \notin m + 1 .. m + Len(b) /\ i <= n
      BY <1>2, <2>2
    <3>2. v[i] = IF i <= Len(u) THEN u[i] ELSE NUL
      BY <1>7, <3>1 DEF IsWritten
    <3>3. w[i] = IF f[i] # NUL THEN f[i] ELSE IF i <= Len(t) THEN t[i] ELSE NUL
      BY <1>2, <1>6, <1>11, <2>2, <3>1 DEF IsShown
    <3>4. CASE i <= Len(u)
      <4>1. u[i] = IF f[i] # NUL THEN f[i] ELSE IF i <= Len(t) THEN t[i] ELSE NUL
        BY <1>2, <1>6, <2>2, <3>4 DEF IsShown
      <4> QED
        BY <3>2, <3>3, <3>4, <4>1
    <3>5. CASE i > Len(u)
      <4>1. i > p /\ i > Len(t)
        BY <1>6, <1>8, <3>5 DEF IsShown
      <4>2. f[i] = NUL
        BY <1>2, <1>6, <1>8, <2>2, <4>1 DEF IsShown
      <4> QED
        BY <1>6, <1>8, <3>2, <3>3, <3>5, <4>1, <4>2 DEF IsShown
    <3>6. Len(u) \in Nat
      BY <1>6, <1>8 DEF IsShown
    <3> QED
      BY <3>4, <3>5, <3>6
  <2>3. CASE i > d
    <3>1. i \notin m + 1 .. m + Len(b) /\ ~ (i <= Len(a))
      BY <1>2, <2>3
    <3>2. v[i] = IF i <= Len(u) THEN u[i] ELSE NUL
      BY <1>7, <3>1 DEF IsWritten
    <3>3. w[i] = IF i <= Len(t) THEN t[i] ELSE NUL
      <4>1. i <= n => f[i] = NUL
        BY <2>3
      <4>2. ~ (i <= Len(c) /\ c[i] # NUL)
        BY <1>2, <4>1
      <4> QED
        BY <1>6, <1>11, <4>2 DEF IsShown
    <3>4. Len(t) <= Len(u) /\ Len(u) \in Nat
      BY <1>6, <1>8 DEF IsShown
    <3>5. i <= Len(u) => u[i] = IF i <= Len(t) THEN t[i] ELSE NUL
      BY <1>6, <3>1 DEF IsShown
    <3> QED
      BY <1>8, <3>2, <3>3, <3>4, <3>5
  <2>4. Len(v) \in Nat
    BY <1>10
  <2> QED
    BY <2>1, <2>2, <2>3, <2>4
<1>13. v = w
  BY <1>10, <1>11, <1>12, SameFile
<1> QED
  BY <1>1, <1>5, <1>13

-----------------------------------------------------------------------------
(* The inductive invariant *)

Files == {"in", "out"}
Steps == {"open", "read", "write", "stdout", "finish", "ok", "failed"}

TypeOK ==
    /\ program \in Programs /\ target \in Files
    /\ original \in [Files -> Seq(Bytes)] /\ file \in [Files -> Seq(Bytes)]
    /\ opened \in BOOLEAN
    /\ roff \in Nat /\ woff \in Nat /\ index \in Nat
    /\ buffer \in Seq(Bytes) /\ output \in Seq(Bytes)
    /\ unnoticed \subseteq {"read", "write"}
    /\ step \in Steps

(* Which programs get where, and what they have failed to notice by then.  *)
Course ==
    /\ program = "write_bytes" => ToOther
    /\ step = "open" => /\ ~opened /\ roff = 0 /\ woff = 0
                        /\ output = <<>> /\ unnoticed = {}
    /\ ~opened => file = original
    /\ ~opened /\ step \notin {"open", "failed"} => program \in {"ccp"} \cup Tees
    /\ step = "ok" /\ program = "ccp" => opened
    /\ step = "stdout" => program \in Tees /\ opened
    /\ program = "mmap" => step \notin {"read", "stdout"}
    /\ program \in Tees /\ step \in {"finish", "ok"} => "read" \in unnoticed
    /\ program \notin {"cp"} \cup Tees => "read" \notin unnoticed
    /\ program \in {"copy", "write_bytes", "mmap"} => "write" \notin unnoticed
    /\ program # "cp" => index = 0
    /\ step \in {"write", "stdout"} /\ program # "mmap" => index < Len(buffer)

(* The source changes only when a program truncates it or a write to it    *)
(* goes wrong, or when it grows by itself.                                 *)
Stable == ToOther \/ (program \in {"cp", "tee"} /\ "write" \notin unnoticed)

(* The buffer is the part of the source that ends at the offset in it.     *)
Buffered ==
    Stable /\ program # "mmap" =>
        /\ source = original["in"]
        /\ roff <= Len(source)
        /\ step \in {"finish", "ok"} /\ "read" \notin unnoticed => roff = Len(source)
        /\ step \in {"write", "stdout"} =>
              /\ Len(buffer) <= roff
              /\ buffer = SubSeq(source, (roff - Len(buffer)) + 1, roff)

(* The offset in the target is that of the byte of the source it belongs to. *)
AtOwn == Stable /\ opened /\ program \notin {"tee -a", "mmap"} /\ "write" \notin unnoticed

InStep ==
    AtOwn =>
        /\ step \in {"read", "stdout"} => woff = roff
        /\ step = "write" => woff = (roff - Len(buffer)) + index

(* What the target had in it when the copy began, where the copy begins,   *)
(* and how much of the source is there.                                    *)
Base == IF Truncates THEN <<>> ELSE original["out"]
At == IF program = "tee -a" THEN Len(Base) ELSE 0
Copied(m) ==
    m <= Len(source) /\ file["out"] = WithBytes(Base, At, SubSeq(source, 1, m))

Linear == program \notin {"cp", "mmap"} /\ ToOther /\ opened /\ "write" \notin unnoticed

Copying ==
    Linear =>
        /\ step \in {"read", "stdout", "finish", "ok"} => Copied(roff)
        /\ step = "write" => Copied(roff - Len(buffer))
        /\ step = "failed" =>
              \E m \in Nat : /\ Copied(m)
                             /\ program \in Tees =>
                                   m \in {Len(output), Len(output) + Len(buffer)}

(* tee's standard output lags behind the target by the buffer at most.     *)
Echoing ==
    Linear /\ program \in Tees =>
        /\ Len(output) <= Len(source) /\ output = SubSeq(source, 1, Len(output))
        /\ step \in {"read", "finish", "ok"} => Len(output) = roff
        /\ step \in {"write", "stdout"} => Len(output) + Len(buffer) = roff

(* cp has dealt with the source up to the offset in the target.            *)
Sparse ==
    program = "cp" /\ ToOther /\ "write" \notin unnoticed =>
        /\ step \in {"open", "read", "finish", "ok"} =>
              file["out"] = Shown(SubSeq(source, 1, roff), original["out"])
        /\ step = "write" =>
              file["out"] = Shown(SubSeq(source, 1, woff), original["out"])

(* 49.1.c copies the mapping to one of the same size.                      *)
Mapped ==
    program = "mmap" =>
        /\ source = original["in"]
        /\ ToOther /\ step = "write" => Len(file["out"]) = Len(source)
        /\ ToOther /\ step \in {"finish", "ok"} => file["out"] = source

(* ccp's target is as long as the offset in it, which a write that was     *)
(* short leaves behind the one in the source for good.                     *)
Behind(m) == woff <= m /\ ("write" \in unnoticed => woff < m)
Shorter ==
    program = "ccp" /\ ToOther /\ opened =>
        /\ Len(file["out"]) = woff
        /\ step \in {"read", "finish", "ok"} => Behind(roff)
        /\ step = "write" => Behind(roff - Len(buffer))

(* tee's line stays in stdio's buffer until the first flush, which comes   *)
(* with the first block.                                                   *)
Lined ==
    /\ lineAt \in Nat /\ Len(buffer) <= Batch
    /\ line = "held" => output = <<>> /\ step \notin {"ok", "failed"}
    /\ line = "out" => lineAt <= Batch /\ lineAt <= Len(output)

IInv == /\ TypeOK /\ Course /\ Buffered /\ InStep /\ Copying /\ Echoing
        /\ Sparse /\ Mapped /\ Shorter /\ Lined

(* What the type invariant says of the files and the buffer.               *)
LEMMA Facts ==
    ASSUME TypeOK
    PROVE  /\ source \in Seq(Bytes) /\ Len(source) \in Nat
           /\ file["out"] \in Seq(Bytes) /\ file[target] \in Seq(Bytes)
           /\ original["in"] \in Seq(Bytes) /\ original["out"] \in Seq(Bytes)
           /\ Len(file[target]) \in Nat
           /\ Len(buffer) \in Nat /\ DOMAIN buffer = 1 .. Len(buffer)
           /\ Len(output) \in Nat
           /\ <<>> \in Seq(Bytes)
<1>1. /\ source \in Seq(Bytes) /\ file["out"] \in Seq(Bytes) /\ file[target] \in Seq(Bytes)
      /\ original["in"] \in Seq(Bytes) /\ original["out"] \in Seq(Bytes)
      /\ buffer \in Seq(Bytes) /\ output \in Seq(Bytes)
  BY DEF TypeOK, Files, source
<1>2. \A f \in Seq(Bytes) : Len(f) \in Nat /\ DOMAIN f = 1 .. Len(f)
  OBVIOUS
<1>3. <<>> \in Seq(Bytes)
  OBVIOUS
<1> QED
  BY <1>1, <1>2, <1>3

(* A run of bytes that are not null, and a run of null bytes behind it.    *)
LEMMA RunEnds ==
    ASSUME buffer \in Seq(Bytes), NEW i \in Nat, i <= Len(buffer)
    PROVE  LET d == DataEnd(i)
               e == NullEnd(d)
           IN  /\ d \in i .. Len(buffer) /\ e \in d .. Len(buffer)
               /\ \A j \in i + 1 .. d : buffer[j] # NUL
               /\ \A j \in d + 1 .. e : buffer[j] = NUL
<1>1. Len(buffer) \in Nat
  OBVIOUS
<1> DEFINE D == {j \in i .. Len(buffer) : j = Len(buffer) \/ buffer[j + 1] = NUL}
<1>2. DataEnd(i) \in i .. Len(buffer) /\ \A j \in D : DataEnd(i) <= j
  <2>1. Len(buffer) \in D /\ D \in SUBSET Nat
    BY <1>1
  <2>2. Min(D) \in D /\ \A j \in D : Min(D) <= j
    <3> HIDE DEF D
    <3> QED
      BY <2>1, LeastOf
  <2> QED
    BY <2>2 DEF DataEnd
<1>3. PICK d \in i .. Len(buffer) : d = DataEnd(i)
  BY <1>2
<1> DEFINE E == {j \in d .. Len(buffer) : j = Len(buffer) \/ buffer[j + 1] # NUL}
<1>4. NullEnd(d) \in d .. Len(buffer) /\ \A j \in E : NullEnd(d) <= j
  <2>1. Len(buffer) \in E /\ E \in SUBSET Nat
    BY <1>1
  <2>2. Min(E) \in E /\ \A j \in E : Min(E) <= j
    <3> HIDE DEF E
    <3> QED
      BY <2>1, LeastOf
  <2> QED
    BY <2>2 DEF NullEnd
<1>5. ASSUME NEW j \in i + 1 .. d PROVE buffer[j] # NUL
  <2>1. j - 1 \in i .. Len(buffer) /\ ~ (d <= j - 1)
    BY <1>1
  <2>2. j - 1 \notin D
    BY <1>2, <1>3, <2>1
  <2>3. buffer[(j - 1) + 1] # NUL
    BY <2>1, <2>2
  <2> QED
    BY <2>3
<1>6. ASSUME NEW j \in d + 1 .. NullEnd(d) PROVE buffer[j] = NUL
  <2>1. j - 1 \in d .. Len(buffer) /\ ~ (NullEnd(d) <= j - 1)
    BY <1>1, <1>4
  <2>2. j - 1 \notin E
    BY <1>4, <2>1
  <2>3. buffer[(j - 1) + 1] = NUL
    BY <2>1, <2>2
  <2> QED
    BY <2>3
<1> QED
  BY <1>3, <1>4, <1>5, <1>6

LEMMA WrittenType ==
    ASSUME NEW f \in Seq(Bytes), NEW at \in Nat, NEW b \in Seq(Bytes)
    PROVE  WithBytes(f, at, b) \in Seq(Bytes)
BY WithBytesIs DEF IsWritten

LEMMA ResizedType ==
    ASSUME NEW f \in Seq(Bytes), NEW n \in Nat
    PROVE  Resized(f, n) \in Seq(Bytes) /\ Len(Resized(f, n)) = n
<1> DEFINE w == [i \in 1 .. n |-> IF i <= Len(f) THEN f[i] ELSE NUL]
<1>1. w \in [1 .. n -> Bytes]
  BY FilesAssumption
<1>2. Resized(f, n) = w
  BY DEF Resized
<1> HIDE DEF w
<1> QED
  BY <1>1, <1>2

LEMMA InitEstablishes == Init => IInv
<1> SUFFICES ASSUME Init PROVE IInv
  OBVIOUS
<1>1. TypeOK
  <2>1. PICK f \in Sources, g \in Targets : original = [in |-> f, out |-> g]
    BY DEF Init
  <2>2. f \in Seq(Bytes) /\ g \in Seq(Bytes)
    BY FilesAssumption
  <2>3. original \in [Files -> Seq(Bytes)]
    BY <2>1, <2>2 DEF Files
  <2>4. <<>> \in Seq(Bytes) /\ target \in Files /\ step \in Steps
    BY DEF Init, Files, Steps
  <2> QED
    BY <2>3, <2>4 DEF Init, TypeOK
<1>2. Course
  BY DEF Init, Course, ToOther, Programs, Tees
<1>3. Buffered
  <2>1. source = original["in"] /\ roff = 0 /\ step = "open"
    BY DEF Init, source
  <2>2. Len(source) \in Nat
    BY <1>1, Facts
  <2> QED
    BY <2>1, <2>2 DEF Buffered
<1>4. InStep /\ Copying /\ Echoing
  <2>1. ~ opened
    BY DEF Init
  <2> QED
    BY <2>1 DEF InStep, AtOwn, Copying, Echoing, Linear
<1>5. Mapped
  BY DEF Init, Mapped, source
<1>6. Sparse
  <2>1. SubSeq(source, 1, 0) = <<>>
    OBVIOUS
  <2>2. Shown(<<>>, original["out"]) = original["out"]
    BY <1>1, Facts, ShownNothing
  <2> QED
    BY <2>1, <2>2 DEF Init, Sparse
<1>7. Shorter /\ Lined
  BY BatchAssumption DEF Init, Shorter, Lined
<1> QED
  BY <1>1, <1>2, <1>3, <1>4, <1>5, <1>6, <1>7 DEF IInv

-----------------------------------------------------------------------------
(* The steps *)

(* The steps that only decide how it goes on.                              *)
Quiet == OpenFails \/ ReadNothing \/ ReadFails \/ WriteFails \/ Finish
            \/ FinishFails \/ Refused

LEMMA NextIs ==
    Next => \/ Open \/ Read \/ Write \/ TeeStdout \/ WriteSegment
            \/ MapFiles \/ MapCopy \/ Quiet
BY Zenon DEF Next, Work, Failures, Quiet

LEMMA QuietIs ==
    ASSUME Quiet
    PROVE  /\ UNCHANGED <<inputs, file, opened, roff, woff, buffer, index, output>>
           /\ unnoticed' \in {unnoticed, unnoticed \cup {"read"}}
           /\ step' \in Steps \ {"write", "stdout"}
BY DEF Quiet, OpenFails, ReadNothing, ReadFails, WriteFails, Finish, FinishFails,
       Refused, Fail, Steps

(* What a step never does.                                                 *)
LEMMA Fixed ==
    ASSUME Next
    PROVE  /\ UNCHANGED <<program, target, original>>
           /\ unnoticed \subseteq unnoticed'
           /\ opened => opened'
<1>1. CASE Quiet
  BY <1>1, QuietIs DEF inputs
<1>2. CASE Open \/ Read \/ MapFiles \/ MapCopy
  BY <1>2 DEF Open, Read, MapFiles, MapCopy, inputs
<1>3. CASE Write \/ TeeStdout \/ WriteSegment
  BY <1>3 DEF Write, TeeStdout, WriteSegment, inputs
<1> QED
  BY <1>1, <1>2, <1>3, NextIs

LEMMA ReadIs ==
    ASSUME TypeOK, Read
    PROVE  \E k \in Nat \ {0} :
              /\ buffer' = SubSeq(source, roff + 1, roff + k)
              /\ buffer' \in Seq(Bytes) /\ Len(buffer') = k /\ 0 < Len(buffer')
              /\ roff' = roff + k /\ roff + k <= Len(source)
              /\ k <= Batch
<1>1. Len(source) - roff \in Nat /\ Batch \in Nat
  BY Facts, BatchAssumption DEF Read, TypeOK
<1>2. /\ Min({Batch, Len(source) - roff}) \in 0 .. Len(source) - roff
      /\ Min({Batch, Len(source) - roff}) <= Batch
  BY <1>1, MinOfTwo
<1>3. PICK k \in 1 .. Min({Batch, Len(source) - roff}) :
         buffer' = SubSeq(source, roff + 1, roff + k) /\ roff' = roff + k
  BY DEF Read
<1>4. k \in Nat \ {0} /\ roff + k <= Len(source) /\ k <= Batch
  BY <1>1, <1>2, <1>3, Facts DEF TypeOK
<1>5. buffer' \in Seq(Bytes) /\ Len(buffer') = k /\ 0 < Len(buffer')
  BY <1>3, <1>4, Facts, Part DEF TypeOK
<1> QED
  BY <1>3, <1>4, <1>5

(* A run of d - index bytes that are not null, of which k are written, and *)
(* of e - d that are.                                                      *)
Run(d, e, k) ==
    /\ d \in index .. Len(buffer) /\ e \in d .. Len(buffer)
    /\ \A j \in index + 1 .. d : buffer[j] # NUL
    /\ \A j \in d + 1 .. e : buffer[j] = NUL
    /\ k \in 0 .. d - index
    /\ SubSeq(buffer, index + 1, index + k) \in Seq(Bytes)
    /\ file' = [file EXCEPT ![target] =
                   WithBytes(file[target], woff, SubSeq(buffer, index + 1, index + k))]
    /\ woff' = woff + k + (e - d)
    /\ unnoticed' = IF k < d - index THEN unnoticed \cup {"write"} ELSE unnoticed
    /\ index' = e
    /\ step' = IF e < Len(buffer) THEN "write" ELSE "read"

LEMMA SegmentIs ==
    ASSUME TypeOK, Course, WriteSegment
    PROVE  \E d, e, k : Run(d, e, k)
<1>1. PICK d, e : d = DataEnd(index) /\ e = NullEnd(d)
  OBVIOUS
<1>2. index \in Nat /\ Len(buffer) \in Nat /\ index <= Len(buffer)
  BY Facts DEF WriteSegment, Course, TypeOK
<1>3. /\ d \in index .. Len(buffer) /\ e \in d .. Len(buffer)
      /\ \A j \in index + 1 .. d : buffer[j] # NUL
      /\ \A j \in d + 1 .. e : buffer[j] = NUL
  BY <1>1, <1>2, RunEnds DEF TypeOK
<1>4. /\ index' = e
      /\ step' = IF e < Len(buffer) THEN "write" ELSE "read"
  BY <1>1, Zenon DEF WriteSegment
<1>5. PICK k \in 0 .. d - index :
         /\ file' = [file EXCEPT ![target] =
                       WithBytes(file[target], woff, SubSeq(buffer, index + 1, index + k))]
         /\ woff' = woff + k + (e - d)
         /\ unnoticed' = IF k < d - index THEN unnoticed \cup {"write"} ELSE unnoticed
  BY <1>1 DEF WriteSegment
<1>6. SubSeq(buffer, index + 1, index + k) \in Seq(Bytes)
  BY <1>2, <1>3 DEF TypeOK
<1>7. Run(d, e, k)
  BY <1>3, <1>4, <1>5, <1>6, Zenon DEF Run
<1> QED
  BY <1>7

LEMMA TypeStep ==
    ASSUME TypeOK, Course, Next
    PROVE  TypeOK'
<1> DEFINE Names == /\ program' \in Programs /\ target' \in Files
                    /\ original' \in [Files -> Seq(Bytes)]
<1>1. Names
  BY Fixed DEF TypeOK
<1>2. ASSUME NEW g \in Seq(Bytes), file' = [file EXCEPT ![target] = g]
      PROVE  file' \in [Files -> Seq(Bytes)]
  BY <1>2 DEF TypeOK
<1> HIDE DEF Names
<1>3. CASE Quiet
  <2>1. unnoticed' \subseteq {"read", "write"} /\ step' \in Steps
    BY <1>3, QuietIs DEF TypeOK
  <2> QED
    BY <1>1, <1>3, <2>1, QuietIs DEF TypeOK, Names
<1>4. CASE Open
  <2>1. file' \in [Files -> Seq(Bytes)]
    BY <1>2, <1>4, Facts DEF Open, TypeOK
  <2> QED
    BY <1>1, <1>4, <2>1 DEF Open, TypeOK, Names, Steps
<1>5. CASE Read
  <2>1. buffer' \in Seq(Bytes) /\ roff' \in Nat
    <3>1. PICK k \in Nat : roff' = roff + k /\ buffer' \in Seq(Bytes)
      BY <1>5, ReadIs
    <3> QED
      BY <3>1 DEF TypeOK
  <2> QED
    BY <1>1, <1>5, <2>1 DEF Read, TypeOK, Names, Steps
<1>6. CASE Write
  <2>1. PICK k \in 1 .. Len(buffer) :
           /\ file' = [file EXCEPT ![target] =
                         WithBytes(file[target], WriteAt, SubSeq(buffer, 1, k))]
           /\ woff' = WriteAt + k
    BY <1>6 DEF Write
  <2>2. WriteAt \in Nat
    BY Facts DEF WriteAt, TypeOK
  <2>3. SubSeq(buffer, 1, k) \in Seq(Bytes)
    BY Facts DEF TypeOK
  <2>4. file' \in [Files -> Seq(Bytes)]
    BY <1>2, <2>1, <2>2, <2>3, Facts, WrittenType
  <2>5. woff' \in Nat
    BY <2>1, <2>2, Facts
  <2>6. step' \in Steps /\ unnoticed' \subseteq {"read", "write"}
    BY <1>6 DEF Write, Fail, Steps, TypeOK
  <2> QED
    BY <1>1, <1>6, <2>4, <2>5, <2>6 DEF Write, TypeOK, Names
<1>7. CASE TeeStdout
  <2>1. PICK k \in 1 .. Len(buffer) : output' = output \o SubSeq(buffer, 1, k)
    BY <1>7 DEF TeeStdout
  <2>2. SubSeq(buffer, 1, k) \in Seq(Bytes)
    BY Facts DEF TypeOK
  <2>3. output' \in Seq(Bytes)
    BY <2>1, <2>2 DEF TypeOK
  <2>4. step' \in Steps /\ unnoticed' \subseteq {"read", "write"}
    BY <1>7 DEF TeeStdout, Steps, TypeOK
  <2> QED
    BY <1>1, <1>7, <2>3, <2>4 DEF TeeStdout, TypeOK, Names
<1>8. CASE WriteSegment
  <2>1. PICK d, e, k : Run(d, e, k)
    BY <1>8, SegmentIs
  <2>2. file' \in [Files -> Seq(Bytes)]
    BY <1>2, <2>1, Facts, WrittenType DEF TypeOK, Run
  <2>3. woff' \in Nat /\ index' \in Nat
    BY <2>1, Facts DEF Run, TypeOK
  <2>4. step' \in Steps /\ unnoticed' \subseteq {"read", "write"}
    BY <2>1 DEF Run, Steps, TypeOK
  <2> QED
    BY <1>1, <1>8, <2>2, <2>3, <2>4 DEF WriteSegment, TypeOK, Names
<1>9. CASE MapFiles
  <2>1. file' \in [Files -> Seq(Bytes)]
    BY <1>2, <1>9, Facts, ResizedType DEF MapFiles
  <2> QED
    BY <1>1, <1>9, <2>1 DEF MapFiles, TypeOK, Names, Steps
<1>10. CASE MapCopy
  <2>1. file' \in [Files -> Seq(Bytes)]
    <3>1. 0 \in Nat
      OBVIOUS
    <3>2. WithBytes(file[target], 0, source) \in Seq(Bytes)
      BY <3>1, Facts, WrittenType
    <3> QED
      BY <1>2, <1>10, <3>2 DEF MapCopy
  <2> QED
    BY <1>1, <1>10, <2>1 DEF MapCopy, TypeOK, Names, Steps
<1> QED
  BY <1>3, <1>4, <1>5, <1>6, <1>7, <1>8, <1>9, <1>10, NextIs

LEMMA CourseStep ==
    ASSUME TypeOK, Course, Next
    PROVE  Course'
<1> USE DEF Course, ToOther, Tees
<1>1. UNCHANGED <<program, target, original>>
  BY Fixed
<1>2. CASE Quiet
  <2> SUFFICES ASSUME Quiet PROVE Course'
    BY <1>2
  <2>1. CASE OpenFails
    BY <1>1, <2>1 DEF OpenFails, Fail
  <2>2. CASE ReadNothing
    BY <1>1, <2>2 DEF ReadNothing, Fail, EndsAtEnd
  <2>3. CASE ReadFails
    BY <1>1, <2>3 DEF ReadFails, Fail
  <2>4. CASE WriteFails \/ Finish \/ FinishFails \/ Refused
    BY <1>1, <2>4 DEF WriteFails, Finish, FinishFails, Refused, Fail
  <2> QED
    BY <2>1, <2>2, <2>3, <2>4 DEF Quiet
<1>3. CASE Open
  BY <1>1, <1>3 DEF Open, Truncates
<1>4. CASE Read
  <2>1. 0 < Len(buffer')
    BY <1>4, ReadIs, Zenon
  <2>2. /\ step = "read" /\ step' = "write" /\ index' = 0
        /\ UNCHANGED <<file, opened, woff, output, unnoticed>>
    BY <1>4 DEF Read
  <2>3. index' < Len(buffer')
    BY <2>1, <2>2
  <2> QED
    BY <1>1, <2>2, <2>3
<1>5. CASE Write
  BY <1>1, <1>5 DEF Write, Fail, GivesUp
<1>6. CASE TeeStdout
  BY <1>1, <1>6 DEF TeeStdout
<1>7. CASE WriteSegment
  <2>1. index' < Len(buffer') \/ step' = "read"
    <3>1. PICK d, e, k : Run(d, e, k)
      BY <1>7, SegmentIs
    <3> QED
      BY <1>7, <3>1 DEF Run, WriteSegment
  <2>2. step' \in {"read", "write"}
    BY <1>7 DEF WriteSegment
  <2> QED
    BY <1>1, <1>7, <2>1, <2>2 DEF WriteSegment
<1>8. CASE MapFiles
  BY <1>1, <1>8 DEF MapFiles
<1>9. CASE MapCopy
  BY <1>1, <1>9 DEF MapCopy
<1> QED
  BY <1>2, <1>3, <1>4, <1>5, <1>6, <1>7, <1>8, <1>9, NextIs

LEMMA PartOfPart ==
    ASSUME NEW f \in Seq(Bytes), NEW m \in Nat, NEW l \in Nat, m + l <= Len(f),
           NEW i \in Nat, NEW k \in Nat, i + k <= l
    PROVE  SubSeq(SubSeq(f, m + 1, m + l), i + 1, i + k)
             = SubSeq(f, (m + i) + 1, (m + i) + k)
<1>1. PICK p : p = SubSeq(f, m + 1, m + l)
  OBVIOUS
<1>2. p \in Seq(Bytes) /\ Len(p) = l /\ \A j \in 1 .. l : p[j] = f[m + j]
  BY <1>1, Part
<1>3. PICK g, h : g = SubSeq(p, i + 1, i + k) /\ h = SubSeq(f, (m + i) + 1, (m + i) + k)
  OBVIOUS
<1>4. g \in Seq(Bytes) /\ Len(g) = k /\ \A j \in 1 .. k : g[j] = p[i + j]
  BY <1>2, <1>3, Part
<1>5. h \in Seq(Bytes) /\ Len(h) = k /\ \A j \in 1 .. k : h[j] = f[(m + i) + j]
  <2>1. m + i \in Nat /\ (m + i) + k <= Len(f)
    OBVIOUS
  <2> QED
    BY <1>3, <2>1, Part
<1>6. ASSUME NEW j \in 1 .. k PROVE g[j] = h[j]
  <2>1. i + j \in 1 .. l /\ m + (i + j) = (m + i) + j
    OBVIOUS
  <2>2. g[j] = p[i + j] /\ h[j] = f[(m + i) + j] /\ p[i + j] = f[m + (i + j)]
    BY <1>2, <1>4, <1>5, <2>1
  <2> QED
    BY <2>1, <2>2
<1>7. g = h
  BY <1>4, <1>5, <1>6, SameFile
<1> QED
  BY <1>1, <1>3, <1>7

(* Where the bytes that are written come from.                             *)
LEMMA FromSource ==
    ASSUME TypeOK, Buffered, Stable, program # "mmap", step \in {"write", "stdout"},
           NEW i \in Nat, NEW k \in Nat, i + k <= Len(buffer)
    PROVE  LET m == (roff - Len(buffer)) + i
           IN  /\ m \in Nat /\ m + k <= Len(source) /\ m + k <= roff
               /\ SubSeq(buffer, i + 1, i + k) = SubSeq(source, m + 1, m + k)
<1>1. /\ roff <= Len(source) /\ Len(buffer) <= roff
      /\ buffer = SubSeq(source, (roff - Len(buffer)) + 1, roff)
  BY DEF Buffered
<1>2. Len(buffer) \in Nat /\ source \in Seq(Bytes) /\ roff \in Nat /\ Len(source) \in Nat
  BY Facts DEF TypeOK
<1>3. PICK s, b, l, n : s = source /\ b = buffer /\ l = Len(buffer) /\ n = roff - Len(buffer)
  OBVIOUS
<1>4. s \in Seq(Bytes) /\ n \in Nat /\ l \in Nat /\ n + l <= Len(s) /\ n + l = roff
  BY <1>1, <1>2, <1>3
<1>5. b = SubSeq(s, n + 1, n + l)
  BY <1>1, <1>3, <1>4
<1>6. SubSeq(b, i + 1, i + k) = SubSeq(s, (n + i) + 1, (n + i) + k)
  <2>1. i + k <= l
    BY <1>3
  <2>2. SubSeq(SubSeq(s, n + 1, n + l), i + 1, i + k) = SubSeq(s, (n + i) + 1, (n + i) + k)
    BY <1>4, <2>1, PartOfPart
  <2> QED
    BY <1>5, <2>2
<1>7. n + i \in Nat /\ (n + i) + k <= Len(s) /\ (n + i) + k <= roff
  BY <1>3, <1>4, SMTT(40)
<1> QED
  BY <1>3, <1>6, <1>7

LEMMA WholeBuffer ==
    ASSUME TypeOK
    PROVE  SubSeq(buffer, 1, Len(buffer)) = buffer
<1>1. buffer \in Seq(Bytes)
  BY DEF TypeOK
<1>2. \A f \in Seq(Bytes) : SubSeq(f, 1, Len(f)) = f
  OBVIOUS
<1> QED
  BY <1>1, <1>2

LEMMA StableBefore ==
    ASSUME Next, Stable'
    PROVE  Stable
BY Fixed DEF Stable, ToOther

(* As long as the source is stable no step changes it.                     *)
LEMMA SourceKept ==
    ASSUME TypeOK, Course, Buffered, InStep, Next, Stable', program # "mmap"
    PROVE  source' = source
<1>1. Stable
  BY StableBefore
<1>2. CASE ToOther
  <2>1. \A g : [file EXCEPT ![target] = g]["in"] = file["in"]
    BY <1>2 DEF TypeOK, Files, ToOther
  <2>2. file' = file \/ \E g : file' = [file EXCEPT ![target] = g]
    <3>1. CASE Quiet
      BY <3>1, QuietIs
    <3>2. CASE Write
      BY <3>2 DEF Write
    <3>3. CASE WriteSegment
      <4>1. PICK d, e, k : Run(d, e, k)
        BY <3>3, SegmentIs
      <4> QED
        BY <4>1 DEF Run
    <3> QED
      BY <3>1, <3>2, <3>3, NextIs, Zenon DEF Open, Read, TeeStdout, MapFiles, MapCopy
  <2> QED
    BY <2>1, <2>2 DEF source
<1>3. CASE ~ToOther
  <2>1. target = "in" /\ program \in {"cp", "tee"} /\ "write" \notin unnoticed'
    BY <1>3, Fixed DEF TypeOK, Files, ToOther, Stable
  <2>2. "write" \notin unnoticed
    BY <2>1, Fixed
  <2>3. file[target] = source /\ file \in [Files -> Seq(Bytes)] /\ "in" \in Files
    BY <2>1 DEF source, TypeOK, Files
  <2>4. CASE Write
    <3>1. program = "tee" /\ step = "write" /\ opened
      BY <2>1, <2>4 DEF Write
    <3>2. index = 0 /\ woff = (roff - Len(buffer)) + index
      BY <1>1, <2>2, <3>1 DEF Course, InStep, AtOwn
    <3>3. PICK k \in 1 .. Len(buffer) :
             /\ file' = [file EXCEPT ![target] =
                            WithBytes(file[target], WriteAt, SubSeq(buffer, 1, k))]
             /\ k = Len(buffer)
      <4>1. PICK k \in 1 .. Len(buffer) :
               /\ file' = [file EXCEPT ![target] =
                              WithBytes(file[target], WriteAt, SubSeq(buffer, 1, k))]
               /\ k < Len(buffer) => unnoticed' = unnoticed \cup {"write"}
        BY <2>4, <3>1 DEF Write, GivesUp
      <4>2. ~ (k < Len(buffer))
        BY <2>1, <4>1
      <4>3. k = Len(buffer)
        <5>1. Len(buffer) \in Nat
          BY Facts
        <5> QED
          BY <4>2, <5>1
      <4> QED
        BY <4>1, <4>3
    <3>4. Len(buffer) \in Nat
      BY Facts
    <3>5. /\ woff \in Nat /\ woff + Len(buffer) <= Len(source)
          /\ SubSeq(buffer, 0 + 1, 0 + Len(buffer))
               = SubSeq(source, woff + 1, woff + Len(buffer))
      <4>1. 0 \in Nat /\ 0 + Len(buffer) <= Len(buffer)
        BY <3>4
      <4> QED
        BY <1>1, <3>1, <3>2, <3>4, <4>1, FromSource
    <3>6. WithBytes(source, woff, SubSeq(source, woff + 1, woff + Len(buffer))) = source
      BY <3>4, <3>5, Facts, Overwrite
    <3>7. WriteAt = woff
      BY <3>1 DEF WriteAt
    <3>8. file' = [file EXCEPT ![target] = source]
      <4>1. SubSeq(buffer, 1, Len(buffer)) = SubSeq(source, woff + 1, woff + Len(buffer))
        BY <3>4, <3>5
      <4> QED
        BY <2>3, <3>3, <3>6, <3>7, <4>1
    <3> QED
      BY <2>1, <2>3, <3>8 DEF source
  <2>5. CASE WriteSegment
    <3>1. program = "cp" /\ step = "write"
      BY <2>5 DEF WriteSegment
    <3>2. woff = (roff - Len(buffer)) + index
      BY <1>1, <2>2, <3>1 DEF Course, InStep, AtOwn, Tees
    <3>3. PICK d, e, k : Run(d, e, k)
      BY <2>5, SegmentIs
    <3>4. k = d - index
      BY <2>1, <3>3 DEF Run, TypeOK
    <3>5. k \in Nat /\ index \in Nat /\ index + k <= Len(buffer)
      BY <3>3, <3>4, Facts DEF Run, TypeOK
    <3>6. /\ woff \in Nat /\ woff + k <= Len(source)
          /\ SubSeq(buffer, index + 1, index + k) = SubSeq(source, woff + 1, woff + k)
      BY <1>1, <3>1, <3>2, <3>5, FromSource
    <3>7. WithBytes(source, woff, SubSeq(source, woff + 1, woff + k)) = source
      BY <3>5, <3>6, Facts, Overwrite
    <3>8. file' = [file EXCEPT ![target] = source]
      BY <2>3, <3>3, <3>6, <3>7 DEF Run
    <3> QED
      BY <2>1, <2>3, <3>8 DEF source
  <2>6. CASE Quiet
    BY <2>6, QuietIs DEF source
  <2> QED
    BY <2>1, <2>4, <2>5, <2>6, NextIs
    DEF Open, Read, TeeStdout, MapFiles, MapCopy, Truncates, source
<1> QED
  BY <1>2, <1>3

LEMMA BufferedStep ==
    ASSUME TypeOK, Course, Buffered, InStep, Next
    PROVE  Buffered'
<1> SUFFICES ASSUME Stable', program # "mmap"
             PROVE  /\ source' = original["in"]
                    /\ roff' <= Len(source)
                    /\ step' \in {"finish", "ok"} /\ "read" \notin unnoticed'
                          => roff' = Len(source)
                    /\ step' \in {"write", "stdout"} =>
                          /\ Len(buffer') <= roff'
                          /\ buffer' = SubSeq(source, (roff' - Len(buffer')) + 1, roff')
  BY Fixed, SourceKept DEF Buffered
<1>1. Stable /\ source' = source
  BY StableBefore, SourceKept
<1>2. source = original["in"] /\ roff <= Len(source)
  BY <1>1 DEF Buffered
<1>3. roff \in Nat /\ Len(source) \in Nat
  BY Facts DEF TypeOK
<1>4. CASE Quiet
  <2>1. roff' = roff /\ step' \notin {"write", "stdout"}
    BY <1>4, QuietIs
  <2>2. ASSUME step' \in {"finish", "ok"}, "read" \notin unnoticed'
        PROVE  roff = Len(source)
    <3>1. \/ step = "read" /\ roff >= Len(source)
          \/ step = "finish" /\ "read" \notin unnoticed
      BY <1>4, <2>2
      DEF Quiet, OpenFails, ReadNothing, ReadFails, WriteFails, Finish, FinishFails,
          Refused, Fail
    <3> QED
      BY <1>1, <1>2, <1>3, <3>1 DEF Buffered
  <2> QED
    BY <1>1, <1>2, <2>1, <2>2
<1>5. CASE Read
  <2>1. PICK k \in Nat \ {0} :
           /\ buffer' = SubSeq(source, roff + 1, roff + k)
           /\ Len(buffer') = k
           /\ roff' = roff + k /\ roff + k <= Len(source)
    BY <1>5, ReadIs
  <2>2. roff' - Len(buffer') = roff /\ Len(buffer') <= roff'
    BY <1>3, <2>1
  <2>3. step' = "write"
    BY <1>5 DEF Read
  <2> QED
    BY <1>1, <1>2, <2>1, <2>2, <2>3
<1>6. CASE Open
  BY <1>1, <1>2, <1>6 DEF Open
<1>7. CASE Write \/ TeeStdout
  <2>1. /\ UNCHANGED <<roff, buffer>>
        /\ step \in {"write", "stdout"} /\ step' \in {"stdout", "read", "failed"}
    BY <1>7 DEF Write, TeeStdout, Fail
  <2> QED
    BY <1>1, <1>2, <2>1 DEF Buffered
<1>8. CASE WriteSegment
  <2>1. UNCHANGED <<roff, buffer>> /\ step = "write" /\ step' \in {"write", "read"}
    BY <1>8 DEF WriteSegment
  <2> QED
    BY <1>1, <1>2, <2>1 DEF Buffered
<1> QED
  BY <1>4, <1>5, <1>6, <1>7, <1>8, NextIs DEF MapFiles, MapCopy

LEMMA InStepStep ==
    ASSUME TypeOK, Course, Buffered, InStep, Next
    PROVE  InStep'
<1> SUFFICES ASSUME AtOwn'
             PROVE  /\ step' \in {"read", "stdout"} => woff' = roff'
                    /\ step' = "write" => woff' = (roff' - Len(buffer')) + index'
  BY DEF InStep
<1>0. /\ Stable' /\ opened' /\ program \notin {"tee -a", "mmap"}
      /\ "write" \notin unnoticed'
  BY Fixed DEF AtOwn
<1>1. Stable /\ "write" \notin unnoticed
  BY <1>0, StableBefore, Fixed
<1>2. roff \in Nat /\ woff \in Nat /\ index \in Nat /\ Len(buffer) \in Nat
  BY Facts DEF TypeOK
<1>3. opened => /\ step \in {"read", "stdout"} => woff = roff
                /\ step = "write" => woff = (roff - Len(buffer)) + index
  BY <1>0, <1>1 DEF InStep, AtOwn
<1>4. CASE Quiet
  <2>1. opened
    BY <1>0, <1>4, QuietIs
  <2>2. step' = "read" => step = "read"
    BY <1>4, <2>1
    DEF Quiet, OpenFails, ReadNothing, ReadFails, WriteFails, Finish, FinishFails,
        Refused, Fail, Course
  <2> QED
    BY <1>3, <1>4, <2>1, <2>2, QuietIs
<1>5. CASE Open
  BY <1>5 DEF Open, Course
<1>6. CASE Read
  <2>1. step = "read" /\ step' = "write" /\ index' = 0 /\ woff' = woff /\ opened
    BY <1>0, <1>6 DEF Read
  <2>2. PICK k \in Nat : Len(buffer') = k /\ roff' = roff + k
    BY <1>6, ReadIs
  <2>3. woff = (roff' - Len(buffer')) + 0
    BY <1>2, <1>3, <2>1, <2>2
  <2> QED
    BY <2>1, <2>3
<1>7. CASE Write
  <2>1. step = "write" /\ opened /\ WriteAt = woff /\ program # "cp"
    BY <1>0, <1>7 DEF Write, WriteAt
  <2>2. woff = (roff - Len(buffer)) + index /\ index = 0
    BY <1>3, <2>1 DEF Course
  <2>3. PICK k \in 1 .. Len(buffer) :
           /\ woff' = WriteAt + k
           /\ step' = "failed" \/ (step' \in {"read", "stdout"} /\
                (k < Len(buffer) => unnoticed' = unnoticed \cup {"write"}))
    BY <1>7 DEF Write, Fail
  <2>4. step' # "failed" => ~ (k < Len(buffer))
    BY <1>0, <2>3
  <2>5. roff' = roff
    BY <1>7 DEF Write
  <2>6. woff + Len(buffer) = roff
    BY <1>2, <2>2
  <2> QED
    <3>1. CASE step' = "failed"
      BY <3>1
    <3>2. CASE step' # "failed"
      <4>1. k = Len(buffer)
        BY <1>2, <2>4, <3>2
      <4>2. woff' = roff
        BY <2>1, <2>3, <2>6, <4>1
      <4>3. step' # "write"
        BY <2>3, <3>2
      <4> QED
        BY <2>5, <4>2, <4>3
    <3> QED
      BY <3>1, <3>2
<1>8. CASE TeeStdout
  BY <1>0, <1>3, <1>8 DEF TeeStdout
<1>9. CASE WriteSegment
  <2>1. PICK d, e, k : Run(d, e, k)
    BY <1>9, SegmentIs
  <2>2. k = d - index
    <3>1. ~ (k < d - index)
      BY <1>0, <2>1 DEF Run
    <3>2. k \in 0 .. d - index /\ d \in index .. Len(buffer)
      BY <2>1 DEF Run
    <3> QED
      BY <1>2, <3>1, <3>2
  <2>3. woff' = woff + (e - index) /\ index' = e /\ e \in 0 .. Len(buffer)
    BY <1>2, <2>1, <2>2 DEF Run
  <2>4. woff = (roff - Len(buffer)) + index /\ UNCHANGED <<roff, buffer>>
    BY <1>0, <1>3, <1>9 DEF WriteSegment
  <2>5. woff' = (roff - Len(buffer)) + e
    BY <1>2, <2>3, <2>4
  <2>6. step' = IF e < Len(buffer) THEN "write" ELSE "read"
    BY <2>1 DEF Run
  <2>7. e = Len(buffer) => woff' = roff
    BY <1>2, <2>5
  <2>8. e < Len(buffer) \/ e = Len(buffer)
    BY <1>2, <2>3
  <2> QED
    BY <2>3, <2>4, <2>5, <2>6, <2>7, <2>8
<1> QED
  BY <1>0, <1>4, <1>5, <1>6, <1>7, <1>8, <1>9, NextIs DEF MapFiles, MapCopy

LEMMA BaseType ==
    ASSUME TypeOK
    PROVE  Base \in Seq(Bytes) /\ At \in Nat /\ Len(Base) \in Nat
<1>1. Base \in Seq(Bytes)
  BY Facts DEF Base
<1>2. Len(Base) \in Nat
  BY <1>1
<1> QED
  BY <1>1, <1>2 DEF At

(* A copy does not change the source, the old content or the place.        *)
LEMMA LinearStep ==
    ASSUME TypeOK, Course, Buffered, InStep, Next, Linear'
    PROVE  /\ Stable /\ source' = source /\ Base' = Base /\ At' = At
           /\ program \notin {"cp", "mmap"} /\ target = "out"
           /\ opened' /\ "write" \notin unnoticed' /\ "write" \notin unnoticed
           /\ opened => Linear
<1>1. /\ program \notin {"cp", "mmap"} /\ target = "out" /\ Stable'
      /\ opened' /\ "write" \notin unnoticed' /\ "write" \notin unnoticed
  BY Fixed DEF Linear, Stable, ToOther
<1>2. Stable /\ source' = source
  BY <1>1, StableBefore, SourceKept
<1>3. Base' = Base /\ At' = At
  BY Fixed DEF Base, At, Truncates
<1> QED
  BY <1>1, <1>2, <1>3 DEF Linear, ToOther

(* The place the next bytes go to is behind those copied so far.           *)
LEMMA PlaceIs ==
    ASSUME TypeOK, Course, Buffered, InStep, Copying, Linear, Stable, step = "write"
    PROVE  LET m == roff - Len(buffer)
           IN  m \in Nat /\ WriteAt = At + m /\ Copied(m)
<1>0. program \notin {"cp", "mmap"} /\ target = "out" /\ opened /\ "write" \notin unnoticed
  BY DEF Linear, ToOther
<1>1. PICK m : m = roff - Len(buffer)
  OBVIOUS
<1>2. m \in Nat /\ m <= Len(source) /\ Copied(m)
  <2>1. Len(buffer) <= roff /\ roff <= Len(source)
    BY <1>0 DEF Buffered
  <2>2. Len(buffer) \in Nat /\ roff \in Nat /\ Len(source) \in Nat
    BY Facts DEF TypeOK
  <2> QED
    BY <1>1, <2>1, <2>2 DEF Copying
<1>3. CASE program = "tee -a"
  <2>1. file["out"] = WithBytes(Base, Len(Base), SubSeq(source, 1, m)) /\ At = Len(Base)
    BY <1>2, <1>3 DEF Copied, At
  <2>2. PICK g : g = SubSeq(source, 1, m)
    OBVIOUS
  <2>3. g \in Seq(Bytes) /\ Len(g) = m
    BY <1>2, <2>2, Facts
  <2>4. IsWritten(file["out"], Base, Len(Base), g)
    BY <2>1, <2>2, <2>3, BaseType, WithBytesIs
  <2>5. Len(file["out"]) = Len(Base) + m
    <3>1. g = <<>> => m = 0
      BY <2>3
    <3> QED
      BY <1>2, <2>3, <2>4, <3>1, BaseType DEF IsWritten
  <2> QED
    BY <1>0, <1>1, <1>2, <1>3, <2>1, <2>5 DEF WriteAt
<1>4. CASE program # "tee -a"
  <2>1. woff = (roff - Len(buffer)) + index /\ index = 0
    BY <1>0, <1>4 DEF InStep, AtOwn, Course
  <2>2. woff = m
    BY <1>1, <1>2, <2>1
  <2>3. WriteAt = woff /\ At = 0
    BY <1>4 DEF WriteAt, At
  <2> QED
    BY <1>1, <1>2, <2>2, <2>3
<1> QED
  BY <1>3, <1>4

LEMMA Proceed ==
    ASSUME TypeOK, NEW m \in Nat, NEW k \in Nat, k # 0, m + k <= Len(source)
    PROVE  WithBytes(WithBytes(Base, At, SubSeq(source, 1, m)), At + m,
                     SubSeq(source, m + 1, m + k))
             = WithBytes(Base, At, SubSeq(source, 1, m + k))
<1>1. source \in Seq(Bytes) /\ Base \in Seq(Bytes) /\ At \in Nat
  BY Facts, BaseType
<1> QED
  BY <1>1, Continue, ZenonT(150)

LEMMA CopyingStep ==
    ASSUME TypeOK, Course, Buffered, InStep, Copying, Echoing, Next
    PROVE  Copying'
<1> DEFINE InHand(m) == program \in Tees => m \in {Len(output), Len(output) + Len(buffer)}
<1> SUFFICES ASSUME Linear'
             PROVE  /\ step' \in {"read", "stdout", "finish", "ok"} => Copied(roff)'
                    /\ step' = "write" => Copied(roff - Len(buffer))'
                    /\ step' = "failed" =>
                          \E m \in Nat : Copied(m)' /\ InHand(m)'
  BY DEF Copying
<1>0. /\ Stable /\ source' = source /\ Base' = Base /\ At' = At
      /\ program \notin {"cp", "mmap"} /\ target = "out"
      /\ opened' /\ "write" \notin unnoticed' /\ "write" \notin unnoticed
      /\ opened => Linear
  BY LinearStep, Zenon
<1>1. ASSUME NEW m, Copied(m), file' = file PROVE Copied(m)'
  BY <1>0, <1>1 DEF Copied
<1>2. roff \in Nat /\ Len(buffer) \in Nat /\ Len(output) \in Nat /\ Len(source) \in Nat
  BY Facts DEF TypeOK
<1>3. CASE Quiet
  <2>1. UNCHANGED <<file, opened, roff, buffer, output, program>> /\ opened /\ Linear
    BY <1>0, <1>3, QuietIs DEF inputs
  <2>2. /\ step' = "failed" => step \in {"read", "write", "stdout", "finish"}
        /\ step' = "failed" /\ program \in Tees => step \in {"write", "stdout"}
        /\ step' \in {"read", "finish", "ok"} => step \in {"read", "finish"}
        /\ step' \notin {"write", "stdout"}
    <3>1. step # "open"
      BY <2>1 DEF Course
    <3> QED
      BY <1>3, <2>1, <3>1
      DEF Quiet, OpenFails, ReadNothing, ReadFails, WriteFails, Finish, FinishFails,
          Refused, Fail, EndsAtEnd
  <2>3. CASE step \in {"read", "stdout", "finish"}
    <3>1. Copied(roff) /\ Copied(roff)'
      BY <1>1, <2>1, <2>3 DEF Copying
    <3>2. step = "stdout" /\ program \in Tees => Len(output) + Len(buffer) = roff
      BY <2>1 DEF Echoing
    <3> QED
      BY <1>2, <2>1, <2>2, <2>3, <3>1, <3>2
  <2>4. CASE step = "write"
    <3>1. PICK m : m = roff - Len(buffer)
      OBVIOUS
    <3>2. m \in Nat /\ Copied(m)'
      BY <1>0, <1>1, <2>1, <2>4, <3>1, PlaceIs
    <3>3. program \in Tees => m = Len(output)
      <4>1. program \in Tees => Len(output) + Len(buffer) = roff
        BY <2>1, <2>4 DEF Echoing
      <4> QED
        BY <1>2, <3>1, <4>1
    <3> QED
      BY <2>1, <2>2, <2>4, <3>2, <3>3
  <2> QED
    BY <2>2, <2>3, <2>4
<1>4. CASE Open
  <2>1. roff' = 0 /\ step' = "read"
    BY <1>4 DEF Open, Course
  <2>2. file'["out"] = Base
    BY <1>0, <1>4 DEF Open, Course, Base, TypeOK, Files
  <2>3. WithBytes(Base, At, SubSeq(source, 1, 0)) = Base
    BY DEF WithBytes
  <2>4. Copied(0)'
    BY <1>0, <1>2, <2>2, <2>3 DEF Copied
  <2> QED
    BY <2>1, <2>4
<1>5. CASE Read
  <2>1. PICK k \in Nat \ {0} : Len(buffer') = k /\ roff' = roff + k
    BY <1>5, ReadIs
  <2>2. step = "read" /\ step' = "write" /\ file' = file /\ opened
    BY <1>0, <1>5 DEF Read
  <2>3. Copied(roff)
    BY <1>0, <2>2 DEF Copying
  <2>4. roff' - Len(buffer') = roff
    BY <1>2, <2>1
  <2> QED
    BY <1>1, <2>2, <2>3, <2>4
<1>6. CASE Write
  <2>1. step = "write" /\ opened /\ Linear
    BY <1>0, <1>6 DEF Write
  <2>2. PICK m : m = roff - Len(buffer)
    OBVIOUS
  <2>3. m \in Nat /\ WriteAt = At + m /\ Copied(m)
    BY <1>0, <2>1, <2>2, PlaceIs
  <2>4. PICK k \in 1 .. Len(buffer) :
           /\ file' = [file EXCEPT ![target] =
                          WithBytes(file[target], WriteAt, SubSeq(buffer, 1, k))]
           /\ IF k < Len(buffer) /\ GivesUp THEN step' = "failed"
              ELSE /\ step' = IF program \in Tees THEN "stdout" ELSE "read"
                   /\ k < Len(buffer) => unnoticed' = unnoticed \cup {"write"}
    BY <1>6 DEF Write, Fail
  <2>5. /\ m + k <= Len(source)
        /\ SubSeq(buffer, 1, k) = SubSeq(source, m + 1, m + k)
    <3>1. 0 \in Nat /\ k \in Nat /\ 0 + k <= Len(buffer)
      BY <1>2
    <3>2. /\ ((roff - Len(buffer)) + 0) + k <= Len(source)
          /\ SubSeq(buffer, 0 + 1, 0 + k)
               = SubSeq(source, ((roff - Len(buffer)) + 0) + 1, ((roff - Len(buffer)) + 0) + k)
      BY <1>0, <2>1, <3>1, FromSource
    <3>3. (roff - Len(buffer)) + 0 = m
      BY <2>2, <2>3
    <3>4. 0 + 1 = 1 /\ 0 + k = k
      BY <3>1
    <3> QED
      BY <3>2, <3>3, <3>4, Zenon
  <2>6. file'["out"] = WithBytes(file["out"], At + m, SubSeq(source, m + 1, m + k))
    BY <1>0, <2>3, <2>4, <2>5 DEF TypeOK, Files
  <2>7. file'["out"] = WithBytes(Base, At, SubSeq(source, 1, m + k))
    <3>1. file["out"] = WithBytes(Base, At, SubSeq(source, 1, m))
      BY <2>3 DEF Copied
    <3>2. k \in Nat /\ k # 0
      BY <1>2
    <3>3. WithBytes(WithBytes(Base, At, SubSeq(source, 1, m)), At + m,
                    SubSeq(source, m + 1, m + k))
            = WithBytes(Base, At, SubSeq(source, 1, m + k))
      BY <2>3, <2>5, <3>2, Proceed, Zenon
    <3> QED
      BY <2>6, <3>1, <3>3
  <2>8. Copied(m + k)'
    BY <1>0, <2>5, <2>7 DEF Copied
  <2>9. CASE step' = "failed"
    <3>1. program \notin Tees
      BY <2>4, <2>9 DEF GivesUp, Tees
    <3>2. m + k \in Nat /\ program' \notin Tees
      BY <2>3, <3>1, Fixed
    <3> QED
      BY <2>8, <2>9, <3>2
  <2>10. CASE step' # "failed"
    <3>1. step' \in {"stdout", "read"} /\ ~ (k < Len(buffer))
      BY <1>0, <2>4, <2>10
    <3>2. k = Len(buffer)
      BY <1>2, <3>1
    <3>3. m + k = roff /\ roff' = roff
      BY <1>2, <1>6, <2>2, <3>2 DEF Write
    <3> QED
      BY <2>8, <3>1, <3>3
  <2> QED
    BY <2>9, <2>10
<1>7. CASE TeeStdout
  BY <1>0, <1>1, <1>7 DEF TeeStdout, Copying
<1> QED
  BY <1>0, <1>3, <1>4, <1>5, <1>6, <1>7, NextIs DEF WriteSegment, MapFiles, MapCopy

LEMMA EchoingStep ==
    ASSUME TypeOK, Course, Buffered, InStep, Echoing, Next
    PROVE  Echoing'
<1> SUFFICES ASSUME Linear', program \in Tees
             PROVE  /\ Len(output') <= Len(source)
                    /\ output' = SubSeq(source, 1, Len(output'))
                    /\ step' \in {"read", "finish", "ok"} => Len(output') = roff'
                    /\ step' \in {"write", "stdout"} =>
                          Len(output') + Len(buffer') = roff'
  BY Fixed, LinearStep DEF Echoing
<1>0. /\ Stable /\ source' = source /\ program # "mmap"
      /\ opened' /\ "write" \notin unnoticed' /\ (opened => Linear)
  BY LinearStep
<1>1. opened => /\ Len(output) <= Len(source) /\ output = SubSeq(source, 1, Len(output))
                /\ step \in {"read", "finish", "ok"} => Len(output) = roff
                /\ step \in {"write", "stdout"} => Len(output) + Len(buffer) = roff
  BY <1>0 DEF Echoing
<1>2. roff \in Nat /\ Len(buffer) \in Nat /\ Len(output) \in Nat /\ Len(source) \in Nat
  BY Facts DEF TypeOK
<1>3. CASE Quiet
  <2>1. UNCHANGED <<roff, buffer, output>> /\ opened /\ step' \notin {"write", "stdout"}
    BY <1>0, <1>3, QuietIs
  <2>2. step' \in {"read", "finish", "ok"} => step \in {"read", "finish"}
    <3>1. step # "open"
      BY <2>1 DEF Course
    <3> QED
      BY <1>3, <3>1
      DEF Quiet, OpenFails, ReadNothing, ReadFails, WriteFails, Finish, FinishFails,
          Refused, Fail
  <2> QED
    BY <1>1, <2>1, <2>2
<1>4. CASE Open
  <2>1. output' = <<>> /\ roff' = 0 /\ step' = "read"
    BY <1>4 DEF Open, Course
  <2>2. Len(<<>>) = 0 /\ SubSeq(source, 1, 0) = <<>>
    OBVIOUS
  <2> QED
    BY <1>2, <2>1, <2>2
<1>5. CASE Read
  <2>1. PICK k \in Nat \ {0} : Len(buffer') = k /\ roff' = roff + k
    BY <1>5, ReadIs
  <2>2. step = "read" /\ step' = "write" /\ output' = output /\ opened
    BY <1>0, <1>5 DEF Read
  <2> QED
    BY <1>1, <2>1, <2>2
<1>6. CASE Write
  <2>1. UNCHANGED <<roff, buffer, output>> /\ step = "write" /\ opened
        /\ step' \in {"stdout", "failed"}
    BY <1>6 DEF Write, Fail
  <2> QED
    BY <1>1, <2>1
<1>7. CASE TeeStdout
  <2>1. step = "stdout" /\ step' = "read" /\ roff' = roff /\ opened
    BY <1>0, <1>7 DEF TeeStdout
  <2>2. PICK k \in 1 .. Len(buffer) :
           /\ output' = output \o SubSeq(buffer, 1, k)
           /\ k < Len(buffer) => unnoticed' = unnoticed \cup {"write"}
    BY <1>7 DEF TeeStdout
  <2>3. k = Len(buffer)
    <3>1. ~ (k < Len(buffer))
      BY <1>0, <2>2
    <3> QED
      BY <1>2, <3>1
  <2>4. PICK o : o = Len(output)
    OBVIOUS
  <2>5. /\ o \in Nat /\ o + k = roff /\ k \in Nat
        /\ o + k <= Len(source) /\ output = SubSeq(source, 1, o)
    <3>1. roff <= Len(source)
      BY <1>0 DEF Buffered
    <3> QED
      BY <1>1, <1>2, <2>1, <2>3, <2>4, <3>1
  <2>6. SubSeq(buffer, 1, k) = SubSeq(source, o + 1, o + k)
    <3>1. SubSeq(buffer, 1, k) = buffer
      BY <2>3, WholeBuffer
    <3>2. roff - Len(buffer) = o
      BY <1>2, <2>3, <2>5
    <3> QED
      BY <1>0, <2>1, <2>5, <3>1, <3>2 DEF Buffered
  <2>7. SubSeq(source, 1, o) \o SubSeq(source, o + 1, o + k) = SubSeq(source, 1, o + k)
    <3>1. PICK s : s = source
      OBVIOUS
    <3>2. s \in Seq(Bytes) /\ o + k <= Len(s)
      BY <2>5, <3>1, Facts
    <3>3. SubSeq(s, 1, o) \o SubSeq(s, o + 1, o + k) = SubSeq(s, 1, o + k)
      BY <2>5, <3>2, Joined
    <3> QED
      BY <3>1, <3>3
  <2>8. output' = SubSeq(source, 1, roff)
    BY <2>2, <2>5, <2>6, <2>7
  <2>9. Len(output') = roff
    BY <2>5, <2>8, Facts
  <2> QED
    BY <2>1, <2>5, <2>8, <2>9
<1> QED
  BY <1>0, <1>3, <1>4, <1>5, <1>6, <1>7, NextIs
  DEF WriteSegment, MapFiles, MapCopy, Tees

LEMMA SparseStep ==
    ASSUME TypeOK, Course, Buffered, InStep, Sparse, Next
    PROVE  Sparse'
<1> DEFINE Seen(n) == file["out"] = Shown(SubSeq(source, 1, n), original["out"])
<1> SUFFICES ASSUME program = "cp", target = "out", "write" \notin unnoticed'
             PROVE  /\ step' \in {"open", "read", "finish", "ok"} => Seen(roff)'
                    /\ step' = "write" => Seen(woff)'
  BY Fixed DEF Sparse, ToOther
<1>0. Stable /\ source' = source /\ original' = original /\ "write" \notin unnoticed
  <2>1. Stable'
    BY Fixed DEF Stable, ToOther
  <2> QED
    BY <2>1, Fixed, StableBefore, SourceKept
<1>1. /\ step \in {"open", "read", "finish", "ok"} => Seen(roff)
      /\ step = "write" => Seen(woff)
  BY <1>0 DEF Sparse, ToOther
<1>2. ASSUME NEW n, Seen(n), file' = file PROVE Seen(n)'
  BY <1>0, <1>2
<1>3. /\ roff \in Nat /\ woff \in Nat /\ index \in Nat
      /\ Len(buffer) \in Nat /\ Len(source) \in Nat
  BY Facts DEF TypeOK
<1>4. step \in {"read", "write"} => opened
  BY DEF Course, Tees
<1>5. /\ step = "read" => woff = roff
      /\ step = "write" => woff = (roff - Len(buffer)) + index
  BY <1>0, <1>4 DEF InStep, AtOwn
<1> HIDE DEF Seen
<1>6. CASE Quiet
  <2>1. UNCHANGED <<file, roff>>
    BY <1>6, QuietIs
  <2>2. /\ step' \in {"open", "read", "finish", "ok"} => step \in {"read", "finish"}
        /\ step' # "write"
    BY <1>6
    DEF Quiet, OpenFails, ReadNothing, ReadFails, WriteFails, Finish, FinishFails,
        Refused, Fail, Tees, EndsAtEnd
  <2> QED
    BY <1>1, <1>2, <2>1, <2>2
<1>7. CASE Open
  <2>1. file' = file /\ roff' = roff /\ step = "open" /\ step' = "read"
    BY <1>7 DEF Open, Truncates
  <2> QED
    BY <1>1, <1>2, <2>1
<1>8. CASE Read
  <2>1. file' = file /\ woff' = woff /\ step = "read" /\ step' = "write"
    BY <1>8 DEF Read
  <2> QED
    BY <1>1, <1>2, <1>5, <2>1
<1>9. CASE WriteSegment
  <2>1. step = "write" /\ roff' = roff
    BY <1>9 DEF WriteSegment
  <2>2. PICK d, e, k : Run(d, e, k)
    BY <1>9, SegmentIs
  <2>3. /\ k = d - index /\ k \in Nat /\ d \in Nat /\ e \in Nat
        /\ index + k = d /\ index <= d /\ d <= e /\ e <= Len(buffer)
    <3>1. ~ (k < d - index) /\ d \in index .. Len(buffer) /\ e \in d .. Len(buffer)
          /\ k \in 0 .. d - index
      BY <2>2 DEF Run
    <3> QED
      BY <1>3, <3>1
  <2>4. PICK l, m, n :
           l = roff - Len(buffer) /\ m = woff + k /\ n = woff + (e - index)
    OBVIOUS
  <2>5. /\ l \in Nat /\ l + Len(buffer) = roff /\ roff <= Len(source)
        /\ woff = l + index /\ m = l + d /\ n = l + e
    <3>1. Len(buffer) <= roff /\ roff <= Len(source)
      BY <1>0, <2>1 DEF Buffered
    <3> QED
      BY <1>3, <1>5, <2>1, <2>3, <2>4, <3>1
  <2>6. /\ m \in woff .. Len(source) /\ n \in m .. Len(source)
        /\ woff' = n
    <3>1. woff' = woff + k + (e - d)
      BY <2>2 DEF Run
    <3> QED
      BY <1>3, <2>3, <2>5, <3>1
  <2>7. step' = "write" \/ (step' = "read" /\ roff = n)
    <3>1. step' = IF e < Len(buffer) THEN "write" ELSE "read"
      BY <2>2 DEF Run
    <3>2. e < Len(buffer) \/ e = Len(buffer)
      BY <1>3, <2>3
    <3>3. e = Len(buffer) => roff = n
      BY <2>5
    <3> QED
      BY <3>1, <3>2, <3>3
  <2>8. \A x \in 1 .. Len(buffer) : buffer[x] = source[l + x]
    <3>1. buffer = SubSeq(source, l + 1, l + Len(buffer))
      BY <1>0, <2>1, <2>4, <2>5 DEF Buffered
    <3>2. PICK s : s = source
      OBVIOUS
    <3>3. PICK b : b = Len(buffer)
      OBVIOUS
    <3>4. s \in Seq(Bytes) /\ b \in Nat /\ l + b <= Len(s)
      BY <1>3, <2>5, <3>2, <3>3, Facts
    <3>5. \A x \in 1 .. b : SubSeq(s, l + 1, l + b)[x] = s[l + x]
      BY <2>5, <3>4, Part
    <3> QED
      BY <3>1, <3>2, <3>3, <3>5
  <2>9. \A j \in woff + 1 .. m : source[j] # NUL
    <3> SUFFICES ASSUME NEW j \in woff + 1 .. m PROVE source[j] # NUL
      OBVIOUS
    <3>1. j - l \in index + 1 .. d /\ j - l \in 1 .. Len(buffer) /\ l + (j - l) = j
      BY <1>3, <2>3, <2>5
    <3>2. buffer[j - l] # NUL
      BY <2>2, <3>1 DEF Run
    <3> QED
      BY <2>8, <3>1, <3>2
  <2>10. \A j \in m + 1 .. n : source[j] = NUL
    <3> SUFFICES ASSUME NEW j \in m + 1 .. n PROVE source[j] = NUL
      OBVIOUS
    <3>1. j - l \in d + 1 .. e /\ j - l \in 1 .. Len(buffer) /\ l + (j - l) = j
      BY <1>3, <2>3, <2>5
    <3>2. buffer[j - l] = NUL
      BY <2>2, <3>1 DEF Run
    <3> QED
      BY <2>8, <3>1, <3>2
  <2>11. file'["out"] = WithBytes(file["out"], woff, SubSeq(source, woff + 1, m))
    <3>1. index + k <= Len(buffer)
      BY <2>3
    <3>2. SubSeq(buffer, index + 1, index + k)
            = SubSeq(source, ((roff - Len(buffer)) + index) + 1,
                             ((roff - Len(buffer)) + index) + k)
      BY <1>0, <1>3, <2>1, <2>3, <3>1, FromSource
    <3>3. (roff - Len(buffer)) + index = woff
      BY <1>5, <2>1
    <3>4. SubSeq(buffer, index + 1, index + k) = SubSeq(source, woff + 1, m)
      BY <2>4, <3>2, <3>3, Zenon
    <3>5. file' = [file EXCEPT !["out"] =
                      WithBytes(file["out"], woff, SubSeq(buffer, index + 1, index + k))]
      BY <2>2 DEF Run
    <3> QED
      BY <3>4, <3>5 DEF TypeOK, Files
  <2>12. WithBytes(Shown(SubSeq(source, 1, woff), original["out"]), woff,
                   SubSeq(source, woff + 1, m))
           = Shown(SubSeq(source, 1, n), original["out"])
    <3>1. PICK s, t, w : s = source /\ t = original["out"] /\ w = woff
      OBVIOUS
    <3>2. /\ s \in Seq(Bytes) /\ t \in Seq(Bytes) /\ w \in Nat
          /\ m \in w .. Len(s) /\ n \in m .. Len(s)
          /\ \A j \in w + 1 .. m : s[j] # NUL
          /\ \A j \in m + 1 .. n : s[j] = NUL
      BY <1>3, <2>6, <2>9, <2>10, <3>1, Facts
    <3>3. WithBytes(Shown(SubSeq(s, 1, w), t), w, SubSeq(s, w + 1, m))
            = Shown(SubSeq(s, 1, n), t)
      BY <3>2, ShownStep, ZenonT(60)
    <3> QED
      BY <3>1, <3>3, Zenon
  <2>13. Seen(n)'
    BY <1>0, <1>1, <2>1, <2>11, <2>12 DEF Seen
  <2> QED
    BY <2>1, <2>6, <2>7, <2>13 DEF Seen
<1> QED
  BY <1>6, <1>7, <1>8, <1>9, NextIs DEF Write, TeeStdout, MapFiles, MapCopy, Course, Tees

LEMMA MappedStep ==
    ASSUME TypeOK, Course, Mapped, Next
    PROVE  Mapped'
<1> SUFFICES ASSUME program = "mmap"
             PROVE  /\ source' = original["in"]
                    /\ target = "out" /\ step' = "write" => Len(file'["out"]) = Len(source)
                    /\ target = "out" /\ step' \in {"finish", "ok"} => file'["out"] = source
                    /\ source' = source
  BY Fixed DEF Mapped, ToOther
<1>1. /\ source = original["in"]
      /\ target = "out" /\ step = "write" => Len(file["out"]) = Len(source)
      /\ target = "out" /\ step \in {"finish", "ok"} => file["out"] = source
  BY DEF Mapped, ToOther
<1>2. ASSUME NEW g, file' = [file EXCEPT ![target] = g], target = "in" => g = source
      PROVE  source' = source /\ (target = "out" => file'["out"] = g)
  BY <1>2 DEF TypeOK, Files, source
<1>3. CASE Quiet
  <2>1. file' = file
    BY <1>3, QuietIs
  <2>2. step' \in {"finish", "ok"} => step = "finish"
    BY <1>3
    DEF Quiet, OpenFails, ReadNothing, ReadFails, WriteFails, Finish, FinishFails,
        Refused, Fail, Tees, Course
  <2> QED
    BY <1>1, <1>3, <2>1, <2>2, QuietIs DEF source
<1>4. CASE MapFiles
  <2>1. file' = [file EXCEPT ![target] = Resized(file[target], Len(source))]
        /\ step' = "write"
    BY <1>4 DEF MapFiles
  <2>2. Resized(source, Len(source)) = source
    BY Facts, Unresized
  <2>3. Len(Resized(file[target], Len(source))) = Len(source)
    BY Facts, ResizedType
  <2>4. target = "in" => file[target] = source
    BY DEF source
  <2> QED
    BY <1>1, <1>2, <2>1, <2>2, <2>3, <2>4
<1>5. CASE MapCopy
  <2>1. file' = [file EXCEPT ![target] = WithBytes(file[target], 0, source)]
        /\ step = "write" /\ step' = "finish"
    BY <1>5 DEF MapCopy
  <2>2. Len(file[target]) = Len(source)
    BY <1>1, <2>1 DEF TypeOK, Files, source
  <2>3. WithBytes(file[target], 0, source) = source
    BY <2>2, Facts, WholeWritten
  <2> QED
    BY <1>1, <1>2, <2>1, <2>3
<1> QED
  BY <1>3, <1>4, <1>5, NextIs
  DEF Open, Read, Write, TeeStdout, WriteSegment, Course, Tees

-----------------------------------------------------------------------------
(* The theorems *)

(* A write of ccp's makes its target longer by what is written.            *)
LEMMA ShorterStep ==
    ASSUME TypeOK, Course, Shorter, Next
    PROVE  Shorter'
<1> SUFFICES ASSUME program' = "ccp", ToOther', opened'
             PROVE  /\ Len(file'["out"]) = woff'
                    /\ step' \in {"read", "finish", "ok"} => Behind(roff)'
                    /\ step' = "write" => Behind(roff - Len(buffer))'
  BY DEF Shorter
<1>1. /\ program = "ccp" /\ ToOther /\ target = "out" /\ target \in Files
      /\ UNCHANGED <<program, target>>
  BY Fixed DEF ToOther, TypeOK
<1>2. roff \in Nat /\ woff \in Nat /\ Len(buffer) \in Nat
  BY Facts DEF TypeOK
<1>3. CASE Quiet
  <2>1. /\ UNCHANGED <<file, opened, roff, woff, buffer>> /\ opened
        /\ "write" \in unnoticed' => "write" \in unnoticed
    BY <1>3, QuietIs
  <2>2. /\ step' \in {"finish", "ok", "failed"} \/ (step' = "read" /\ step = "read")
        /\ step' \in {"finish", "ok"} => step \in {"read", "finish"}
    BY <1>1, <1>3, <2>1
    DEF Quiet, OpenFails, ReadNothing, ReadFails, WriteFails, Finish, FinishFails,
        Refused, Fail, Course, Tees
  <2> QED
    BY <1>1, <2>1, <2>2 DEF Shorter, Behind
<1>4. CASE Open
  <2>1. /\ file' = [file EXCEPT !["out"] = <<>>] /\ step' = "read"
        /\ UNCHANGED <<roff, woff, unnoticed>> /\ roff = 0 /\ woff = 0 /\ unnoticed = {}
    BY <1>1, <1>4 DEF Open, Truncates, Course
  <2>2. file'["out"] = <<>>
    BY <2>1 DEF TypeOK, Files
  <2> QED
    BY <2>1, <2>2 DEF Behind
<1>5. CASE Read
  <2>1. step = "read" /\ step' = "write" /\ UNCHANGED <<file, opened, woff, unnoticed>> /\ opened
    BY <1>5 DEF Read
  <2>2. roff' - Len(buffer') = roff
    <3>1. PICK k \in Nat : Len(buffer') = k /\ roff' = roff + k
      BY <1>5, ReadIs
    <3> QED
      BY <1>2, <3>1
  <2> QED
    BY <1>1, <2>1, <2>2 DEF Shorter, Behind
<1>6. CASE Write
  <2>1. PICK k \in 1 .. Len(buffer) :
           /\ file' = [file EXCEPT !["out"] = WithBytes(file["out"], woff, SubSeq(buffer, 1, k))]
           /\ woff' = woff + k
           /\ step' = "read"
           /\ unnoticed' = IF k < Len(buffer) THEN unnoticed \cup {"write"} ELSE unnoticed
    BY <1>1, <1>6 DEF Write, WriteAt, GivesUp, Tees
  <2>2. step = "write" /\ opened /\ roff' = roff
    BY <1>6 DEF Write
  <2>3. Len(file["out"]) = woff /\ Behind(roff - Len(buffer))
    BY <1>1, <2>2 DEF Shorter
  <2>4. SubSeq(buffer, 1, k) \in Seq(Bytes) /\ Len(SubSeq(buffer, 1, k)) = k
    BY DEF TypeOK
  <2>5. Len(file'["out"]) = woff + k
    <3>1. PICK b : b = SubSeq(buffer, 1, k)
      OBVIOUS
    <3>2. b \in Seq(Bytes) /\ Len(b) = k /\ b # <<>>
      BY <2>4, <3>1
    <3>3. file'["out"] = WithBytes(file["out"], woff, b)
      BY <2>1, <3>1 DEF TypeOK, Files
    <3>4. IsWritten(WithBytes(file["out"], woff, b), file["out"], woff, b)
      BY <1>2, <3>2, Facts, WithBytesIs
    <3> QED
      BY <1>2, <2>3, <3>2, <3>3, <3>4 DEF IsWritten
  <2>6. Behind(roff)'
    BY <1>2, <2>1, <2>2, <2>3 DEF Behind
  <2> QED
    BY <2>1, <2>5, <2>6
<1> QED
  BY <1>1, <1>3, <1>4, <1>5, <1>6, NextIs
  DEF TeeStdout, WriteSegment, MapFiles, MapCopy, Course, Tees

(* The line goes out with the first flush, when at most one block is out.  *)
LEMMA LinedStep ==
    ASSUME TypeOK, Course, Lined, Next
    PROVE  Lined'
<1>1. /\ Len(buffer) \in Nat /\ Len(output) \in Nat /\ Batch \in Nat
      /\ lineAt \in Nat /\ Len(buffer) <= Batch
  BY Facts, BatchAssumption DEF Lined
<1>2. Line
  BY DEF Next, Work, Failures
<1>3. Len(output') \in Nat
  BY TypeStep, Facts DEF TypeOK
<1>4. Len(buffer') <= Batch
  <2>1. CASE Read
    BY <2>1, ReadIs
  <2>2. CASE ~ Read
    <3>1. buffer' = buffer
      BY <2>2, NextIs, QuietIs DEF Open, Write, TeeStdout, WriteSegment, MapFiles, MapCopy
    <3> QED
      BY <1>1, <3>1
  <2> QED
    BY <2>1, <2>2
<1>5. CASE TeeStdout
  <2>1. step = "stdout" /\ step' = "read"
    BY <1>5 DEF TeeStdout
  <2>2. PICK k \in 1 .. Len(buffer) : output' = output \o SubSeq(buffer, 1, k)
    BY <1>5 DEF TeeStdout
  <2>3. Len(output') = Len(output) + k
    <3>1. SubSeq(buffer, 1, k) \in Seq(Bytes) /\ Len(SubSeq(buffer, 1, k)) = k
      BY DEF TypeOK
    <3> QED
      BY <2>2, <3>1 DEF TypeOK
  <2>4. CASE line = "held"
    <3>1. Len(output) = 0 /\ Len(output') <= Batch
      BY <1>1, <2>3, <2>4 DEF Lined
    <3>2. \/ line' = "out" /\ lineAt' = Len(output')
          \/ line' = "lost" /\ lineAt' = lineAt
      BY <1>2, <2>1, <2>4 DEF Line, Flushes
    <3> QED
      BY <1>1, <1>3, <1>4, <3>1, <3>2 DEF Lined
  <2>5. CASE line # "held"
    <3>1. UNCHANGED <<line, lineAt>> /\ Len(output) <= Len(output')
      BY <1>1, <1>2, <2>3, <2>5 DEF Line
    <3> QED
      BY <1>1, <1>3, <1>4, <2>5, <3>1 DEF Lined
  <2> QED
    BY <2>4, <2>5
<1>6. CASE ~ TeeStdout
  <2>1. output' = output
    BY <1>6, NextIs, QuietIs DEF Open, Read, Write, WriteSegment, MapFiles, MapCopy
  <2>2. CASE line = "held" /\ Flushes
    <3>1. Len(output') = 0
      BY <2>1, <2>2 DEF Lined
    <3>2. \/ line' = "out" /\ lineAt' = Len(output')
          \/ line' = "lost" /\ lineAt' = lineAt
      BY <1>2, <2>2 DEF Line
    <3> QED
      BY <1>1, <1>4, <3>1, <3>2 DEF Lined
  <2>3. CASE ~ (line = "held" /\ Flushes)
    <3>1. UNCHANGED <<line, lineAt>>
      BY <1>2, <2>3 DEF Line
    <3>2. line = "held" => step' \notin {"ok", "failed"}
      BY <2>3 DEF Flushes
    <3> QED
      BY <1>1, <1>4, <2>1, <3>1, <3>2 DEF Lined
  <2> QED
    BY <2>2, <2>3
<1> QED
  BY <1>5, <1>6

LEMMA NextStep ==
    ASSUME IInv, [Next]_vars
    PROVE  IInv'
<1>1. CASE Next
  BY <1>1, TypeStep, CourseStep, BufferedStep, InStepStep, CopyingStep, EchoingStep,
     SparseStep, MappedStep, ShorterStep, LinedStep DEF IInv
<1>2. CASE UNCHANGED vars
  <2> USE <1>2 DEF vars, inputs
  <2>1. TypeOK' /\ Course' /\ Mapped'
    BY DEF IInv, TypeOK, Course, Mapped, ToOther, source
  <2>2. Buffered'
    BY DEF IInv, Buffered, Stable, ToOther, source
  <2>3. InStep'
    BY DEF IInv, InStep, AtOwn, Stable, ToOther
  <2>4. UNCHANGED <<Base, At>> /\ Linear' = Linear /\ \A m : Copied(m)' = Copied(m)
    BY DEF Base, At, Truncates, Linear, ToOther, Copied, source
  <2>5. Copying' /\ Echoing'
    BY <2>4 DEF IInv, Copying, Echoing, source
  <2>6. Sparse'
    BY DEF IInv, Sparse, ToOther, source
  <2>7. Shorter' /\ Lined'
    BY DEF IInv, Shorter, Behind, Lined, ToOther
  <2> QED
    BY <2>1, <2>2, <2>3, <2>5, <2>6, <2>7 DEF IInv
<1> QED
  BY <1>1, <1>2

THEOREM Invariance == Spec => []IInv
<1>1. Init => IInv
  BY InitEstablishes
<1>2. IInv /\ [Next]_vars => IInv'
  BY NextStep
<1> QED
  BY <1>1, <1>2, PTL DEF Spec

LEMMA WholeSource ==
    ASSUME IInv, ToOther, program # "mmap", step \in {"finish", "ok"},
           "read" \notin unnoticed
    PROVE  roff = Len(source) /\ SubSeq(source, 1, roff) = source
<1>1. roff = Len(source)
  BY DEF IInv, Buffered, Stable
<1>2. source \in Seq(Bytes)
  BY Facts DEF IInv
<1>3. \A f \in Seq(Bytes) : SubSeq(f, 1, Len(f)) = f
  OBVIOUS
<1> QED
  BY <1>1, <1>2, <1>3

(* When a copier succeeds, and has not overlooked a short write, the       *)
(* target is the source; that of 13.2.c begins with it, and that of ccp    *)
(* is shorter after a short write.                                         *)
THEOREM Exact == Spec => []ExactCopy
<1>1. ASSUME IInv, program \in {"copy", "mmap", "ccp"}, ToOther, Completed
      PROVE  file["out"] = source
  <2>1. CASE program = "mmap"
    BY <1>1, <2>1 DEF IInv, Mapped, Completed
  <2>2. CASE program # "mmap"
    <3>1. opened /\ Linear
      BY <1>1, <2>2 DEF IInv, Course, Completed, Linear, Tees
    <3>2. Copied(roff)
      BY <1>1, <3>1 DEF IInv, Copying, Completed
    <3>3. SubSeq(source, 1, roff) = source
      BY <1>1, <2>2, WholeSource DEF Completed
    <3>4. Base = <<>> /\ At = 0
      BY <1>1, <2>2 DEF Base, At, Truncates
    <3>5. source \in Seq(Bytes)
      BY <1>1, Facts DEF IInv
    <3>6. file["out"] = WithBytes(<<>>, 0, source)
      BY <3>2, <3>3, <3>4 DEF Copied
    <3> QED
      BY <3>5, <3>6, Fresh
  <2> QED
    BY <2>1, <2>2
<1>2. ASSUME IInv, program = "write_bytes", step = "ok"
      PROVE  file["out"] = WithBytes(original["out"], 0, source)
  <2>1. ToOther /\ opened /\ "read" \notin unnoticed /\ "write" \notin unnoticed
    BY <1>2 DEF IInv, Course, Tees
  <2>2. Linear
    BY <1>2, <2>1 DEF Linear
  <2>3. Copied(roff)
    BY <1>2, <2>2 DEF IInv, Copying
  <2>4. SubSeq(source, 1, roff) = source
    BY <1>2, <2>1, WholeSource
  <2>5. Base = original["out"] /\ At = 0
    BY <1>2 DEF Base, At, Truncates
  <2> QED
    BY <2>3, <2>4, <2>5 DEF Copied
<1>3. ASSUME IInv, program = "ccp", ToOther, step = "ok"
      PROVE  file["out"] = source \/ Len(file["out"]) < Len(source)
  <2>1. /\ opened /\ "read" \notin unnoticed /\ unnoticed \subseteq {"read", "write"}
        /\ roff \in Nat /\ woff \in Nat /\ Len(source) \in Nat
    BY <1>3, Facts DEF IInv, Course, Tees, TypeOK
  <2>2. CASE "write" \notin unnoticed
    BY <1>1, <1>3, <2>1, <2>2 DEF Completed
  <2>3. CASE "write" \in unnoticed
    <3>1. Len(file["out"]) = woff /\ woff < roff
      BY <1>3, <2>1, <2>3 DEF IInv, Shorter, Behind
    <3>2. roff <= Len(source)
      BY <1>3 DEF IInv, Buffered, Stable
    <3> QED
      BY <2>1, <3>1, <3>2
  <2> QED
    BY <2>2, <2>3
<1>4. IInv => ExactCopy
  BY <1>1, <1>2, <1>3 DEF ExactCopy
<1> QED
  BY Invariance, <1>4, PTL

(* While a copier that truncates is at work, and when it has failed, the   *)
(* target holds a beginning of the source or has not been touched.         *)
THEOREM Prefix == Spec => []PrefixOnly
<1>1. ASSUME IInv, program \in {"copy", "ccp"}, ToOther, "write" \notin unnoticed, opened
      PROVE  IsPrefix(file["out"], source)
  <2>1. Linear
    BY <1>1 DEF Linear
  <2>2. Base = <<>> /\ At = 0
    BY <1>1 DEF Base, At, Truncates
  <2>3. roff \in Nat /\ Len(buffer) \in Nat /\ step \in Steps \ {"open"}
    BY <1>1, Facts DEF IInv, TypeOK, Course
  <2>4. \E m \in Nat : Copied(m)
    <3>1. CASE step \in {"read", "stdout", "finish", "ok"}
      BY <1>1, <2>1, <2>3, <3>1 DEF IInv, Copying
    <3>2. CASE step = "write"
      <4>1. Len(buffer) <= roff
        BY <1>1, <3>2 DEF IInv, Buffered, Stable
      <4>2. roff - Len(buffer) \in Nat
        BY <2>3, <4>1
      <4>3. Copied(roff - Len(buffer))
        BY <1>1, <2>1, <3>2 DEF IInv, Copying
      <4> QED
        BY <4>2, <4>3
    <3>3. CASE step = "failed"
      BY <1>1, <2>1, <3>3 DEF IInv, Copying
    <3> QED
      BY <2>3, <3>1, <3>2, <3>3 DEF Steps
  <2>5. PICK m \in Nat : Copied(m)
    BY <2>4
  <2>6. PICK s, p : s = source /\ p = SubSeq(s, 1, m)
    OBVIOUS
  <2>7. s \in Seq(Bytes) /\ m <= Len(s)
    BY <1>1, <2>5, <2>6, Facts DEF IInv, Copied
  <2>8. p \in Seq(Bytes) /\ Len(p) = m
    BY <2>6, <2>7
  <2>9. file["out"] = p
    <3>1. file["out"] = WithBytes(<<>>, 0, p)
      BY <2>2, <2>5, <2>6 DEF Copied
    <3> QED
      BY <2>8, <3>1, Fresh
  <2>10. IsPrefix(p, s)
    BY <2>6, <2>7, <2>8 DEF IsPrefix
  <2> QED
    BY <2>6, <2>9, <2>10
<1>2. ASSUME IInv, ~opened PROVE file = original
  BY <1>2 DEF IInv, Course
<1>3. IInv => PrefixOnly
  BY <1>1, <1>2 DEF PrefixOnly
<1> QED
  BY Invariance, <1>3, PTL

(* However cp cuts the source into buffers and runs, its bytes that are    *)
(* not null are where they were, over what the target held.                *)
THEOREM SparseCopied == Spec => []SparseCopy
<1>1. ASSUME IInv, program = "cp", ToOther, Completed
      PROVE  file["out"] = Shown(source, original["out"])
  <2>1. file["out"] = Shown(SubSeq(source, 1, roff), original["out"])
    BY <1>1 DEF IInv, Sparse, Completed
  <2>2. SubSeq(source, 1, roff) = source
    BY <1>1, WholeSource DEF Completed
  <2> QED
    BY <2>1, <2>2
<1>2. IInv => SparseCopy
  BY <1>1 DEF SparseCopy
<1> QED
  BY Invariance, <1>2, PTL

(* A file copied to itself by a program that does not truncate stays what  *)
(* it was, unless a write is short or fails.                               *)
THEOREM SelfCopy == Spec => []SelfCopyHarmless
<1>1. IInv => SelfCopyHarmless
  BY DEF IInv, Buffered, Mapped, Stable, SelfCopyHarmless
<1> QED
  BY Invariance, <1>1, PTL

(* tee's output is a beginning of its input, cut in two by main's line     *)
(* behind one block at most; its file is the same and at most one buffer   *)
(* more; it ends well only after a read has failed.                        *)
THEOREM Tee == Spec => []TeeInStep
<1>1. ASSUME IInv, program \in Tees, ToOther, opened, "write" \notin unnoticed
      PROVE  /\ IsPrefix(output, source)
             /\ step \notin {"write", "stdout", "failed"} => Len(output) = roff
             /\ \E m \in {Len(output), Len(output) + Len(buffer)} : Copied(m)
  <2>1. Linear
    BY <1>1 DEF Linear, Tees
  <2>2. /\ roff \in Nat /\ Len(buffer) \in Nat /\ Len(output) \in Nat
        /\ step \in Steps \ {"open"}
    BY <1>1, Facts DEF IInv, TypeOK, Course
  <2>3. Len(output) <= Len(source) /\ output = SubSeq(source, 1, Len(output))
    BY <1>1, <2>1 DEF IInv, Echoing
  <2>4. IsPrefix(output, source)
    <3>1. PICK s, n : s = source /\ n = Len(output)
      OBVIOUS
    <3>2. s \in Seq(Bytes) /\ n \in Nat /\ n <= Len(s)
      BY <1>1, <2>2, <2>3, <3>1, Facts DEF IInv
    <3>3. IsPrefix(SubSeq(s, 1, n), s)
      BY <3>2 DEF IsPrefix
    <3> QED
      BY <2>3, <3>1, <3>3
  <2>5. step \in {"read", "finish", "ok"} => Len(output) = roff
    BY <1>1, <2>1 DEF IInv, Echoing
  <2>6. step \in {"write", "stdout"} => Len(output) + Len(buffer) = roff
    BY <1>1, <2>1 DEF IInv, Echoing
  <2>7. \E m \in {Len(output), Len(output) + Len(buffer)} : Copied(m)
    <3>1. CASE step \in {"read", "finish", "ok"}
      BY <1>1, <2>1, <2>5, <3>1 DEF IInv, Copying
    <3>2. CASE step = "stdout"
      BY <1>1, <2>1, <2>6, <3>2 DEF IInv, Copying
    <3>3. CASE step = "write"
      <4>1. Copied(roff - Len(buffer))
        BY <1>1, <2>1, <3>3 DEF IInv, Copying
      <4>2. roff - Len(buffer) = Len(output)
        BY <2>2, <2>6, <3>3
      <4> QED
        BY <4>1, <4>2
    <3>4. CASE step = "failed"
      BY <1>1, <2>1, <3>4 DEF IInv, Copying
    <3> QED
      BY <2>2, <3>1, <3>2, <3>3, <3>4 DEF Steps
  <2> QED
    BY <2>2, <2>4, <2>5, <2>7 DEF Steps
<1>2. ASSUME program \in Tees, NEW m, Copied(m)
      PROVE  /\ m <= Len(source)
             /\ file["out"] = LET t == original["out"]
                              IN  WithBytes(t, IF program = "tee -a" THEN Len(t) ELSE 0,
                                            SubSeq(source, 1, m))
  BY <1>2 DEF Copied, Base, At, Truncates, Tees
<1>3. ASSUME IInv, program \in Tees, step = "ok" PROVE "read" \in unnoticed
  BY <1>3 DEF IInv, Course
<1>4. IInv => TeeInStep
  BY <1>1, <1>2, <1>3 DEF TeeInStep, IInv, Lined
<1> QED
  BY Invariance, <1>4, PTL

=============================================================================
