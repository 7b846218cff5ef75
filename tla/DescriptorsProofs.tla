-------------------------- MODULE DescriptorsProofs --------------------------
(* What dup2_fd of 5_4.c does to the descriptors, for every limit on them   *)
(* and whatever another thread opens and closes between its steps.          *)
EXTENDS Descriptors, WellFoundedInduction, TLAPS

(* F_DUPFD finds a free descriptor that is not below the one asked for.     *)
LEMMA LowestFree ==
    ASSUME NEW n, FreeFrom(n) # {}
    PROVE  Min(FreeFrom(n)) \in Fds /\ table[Min(FreeFrom(n))] = Free
<1> DEFINE S == FreeFrom(n)
<1>1. S \subseteq Nat /\ S # {}
  BY DescriptorsAssumption DEF FreeFrom, Fds
<1>2. PICK m \in S : \A k \in S : ~ (<<k, m>> \in OpToRel(<, Nat))
  <2> HIDE DEF S
  <2> QED
    BY <1>1, NatLessThanWellFounded, WFMin
<1>3. \A k \in S : m <= k
  <2> SUFFICES ASSUME NEW k \in S PROVE m <= k
    OBVIOUS
  <2> HIDE DEF S
  <2>1. k \in Nat /\ m \in Nat
    BY <1>1
  <2>2. k < m => <<k, m>> \in OpToRel(<, Nat)
    BY <2>1 DEF OpToRel
  <2>3. ~ (k < m)
    BY <1>2, <2>2, Zenon
  <2> QED
    BY <2>1, <2>3
<1>4. Min(S) \in S
  <2> HIDE DEF S
  <2> QED
    BY <1>3 DEF Min
<1> QED
  BY <1>4 DEF FreeFrom

(* One descriptor changes, and main's view of it.                           *)
LEMMA MineExcept ==
    ASSUME NEW t, t = [f \in Fds |-> t[f]], NEW fd \in Fds, NEW k
    PROVE  Mine([t EXCEPT ![fd] = k]) = [Mine(t) EXCEPT ![fd] = IF k = Foreign THEN Free ELSE k]
  BY DEF Mine

(* The tables are functions on the descriptors, and the other thread's are  *)
(* marked as such.                                                          *)
Tables ==
    /\ table = [f \in Fds |-> table[f]]
    /\ before = [f \in Fds |-> before[f]]
    /\ others \subseteq {f \in Fds : table[f] = Foreign}

(* The descriptors main had, with newfd referring to k.                     *)
Asked(k) == [Mine(before) EXCEPT ![Fd(3)] = k]

(* How far dup2_fd has come: main's descriptors are those it had when the   *)
(* call began, but for newfd, and for the duplicate before it is tested.    *)
Progress ==
    /\ at \in {"bad", "same", "close"} => Mine(table) = Mine(before)
    /\ at \in {"close", "dup", "status"} => Fd(2) \in Fds /\ Fd(2) # Fd(3)
    /\ at \in {"dup", "lost"} => Mine(table) = Asked(Free)
    /\ at = "status" =>
          /\ status \in Fds \ others /\ table[status] # Free
          /\ Asked(Free)[status] = Free
          /\ Mine(table) = [Asked(Free) EXCEPT ![status] = Mine(before)[Fd(2)]]
    /\ at = "done" => Mine(table) = Asked(Mine(before)[Fd(2)])

IInv == Tables /\ Progress

LEMMA InitEstablishes == Init => IInv
  BY DEF Init, IInv, Tables, Progress

(* A call that is not dup2 keeps the tables; nothing is asked of it else.   *)
LEMMA OtherCalls ==
    ASSUME IInv,
           Open \/ Close \/ Dup \/ Write \/ SeekStart \/ Compare \/ CallFails \/ Duplicate2
    PROVE  IInv'
<1>1. at' \in {"call", "mismatch", "failed"}
  BY DEF Open, Close, Dup, Write, SeekStart, Compare, CallFails, Duplicate2, Done, Call
<1>2. Progress'
  BY <1>1 DEF Progress
<1>3. CASE Open
  <2> DEFINE fd == Min(FreeFrom(0))
             k == Len(descs) + 1
  <2>1. fd \in Fds /\ table[fd] = Free
    BY <1>3, LowestFree DEF Open
  <2>2. table' = [table EXCEPT ![fd] = k] /\ others' = others /\ before' = before
    BY <1>3 DEF Open, thread
  <2> HIDE DEF fd, k
  <2>3. Tables'
    BY <2>1, <2>2 DEF IInv, Tables, Foreign, Free
  <2> QED
    BY <1>2, <2>3 DEF IInv
<1>4. CASE Dup
  <2> DEFINE fd == Min(FreeFrom(DupFrom))
  <2>1. fd \in Fds /\ table[fd] = Free
    BY <1>4, LowestFree DEF Dup
  <2>2. table' = [table EXCEPT ![fd] = table[Fd(3)]] /\ others' = others /\ before' = before
    BY <1>4 DEF Dup, thread
  <2> HIDE DEF fd
  <2>3. Tables'
    BY <2>1, <2>2 DEF IInv, Tables, Foreign, Free
  <2> QED
    BY <1>2, <2>3 DEF IInv
<1>5. CASE Close
  BY <1>2, <1>5 DEF Close, IInv, Tables
<1>6. CASE Write \/ SeekStart \/ Compare \/ CallFails \/ Duplicate2
  BY <1>2, <1>6 DEF Write, SeekStart, Compare, CallFails, Duplicate2, IInv, Tables, kernel, thread
<1> QED
  BY <1>3, <1>4, <1>5, <1>6

LEMMA Dup2Step ==
    ASSUME IInv, Dup2Check \/ Dup2Close \/ Dup2Dup \/ Dup2Busy \/ Dup2Done
    PROVE  IInv'
<1> DEFINE a == Fd(2)
           b == Fd(3)
<1>0. /\ a' = a /\ b' = b
      /\ calls' = calls /\ var' = var
  BY DEF Dup2Check, Dup2Close, Dup2Dup, Dup2Busy, Dup2Done, Fd, Arg
<1>1. CASE Dup2Check
  <2>1. table' = table /\ before' = table /\ others' = others
        /\ at' \in {"bad", "same", "close"} /\ (at' = "close" => a \in Fds /\ a # b)
    BY <1>1 DEF Dup2Check, IsOpen, kernel, thread
  <2> HIDE DEF a, b
  <2>2. Tables'
    BY <2>1 DEF IInv, Tables
  <2>3. Progress'
    BY <1>0, <2>1 DEF Progress, a, b, Mine
  <2> QED
    BY <2>2, <2>3 DEF IInv
<1>2. CASE Dup2Close
  <2>1. /\ at = "close" /\ at' = "dup" /\ before' = before
        /\ table' = [table EXCEPT ![b] = Free] /\ others' = others \ {b}
        /\ a \in Fds /\ a # b /\ Mine(table) = Mine(before)
    BY <1>2 DEF Dup2Close, IInv, Progress
  <2>2. Tables'
    BY <2>1 DEF IInv, Tables
  <2>3. Mine(table)' = [Mine(table) EXCEPT ![b] = Free]
    <3>1. CASE b \in Fds
      BY <2>1, <3>1, MineExcept DEF IInv, Tables, Foreign, Free
    <3>2. CASE b \notin Fds
      BY <2>1, <3>2 DEF IInv, Tables, Mine
    <3> QED
      BY <3>1, <3>2
  <2>4. Mine(table)' = Asked(Free)'
    BY <1>0, <2>1, <2>3 DEF Asked, Mine
  <2>5. Progress'
    BY <1>0, <2>1, <2>4 DEF Progress
  <2> QED
    BY <2>2, <2>5 DEF IInv
<1>3. CASE Dup2Dup
  <2>1. at = "dup" /\ before' = before /\ others' = others
        /\ a \in Fds /\ a # b /\ Mine(table) = Asked(Free)
    BY <1>3 DEF Dup2Dup, IInv, Progress, thread
  <2>2. CASE at' = "lost" /\ table' = table
    BY <1>0, <2>1, <2>2, ZenonT(60) DEF IInv, Tables, Progress, Asked, Mine
  <2>3. CASE IsOpen(a) /\ FreeFrom(b) # {} /\ at' = "status" /\ status' = Min(FreeFrom(b))
             /\ table' = [table EXCEPT ![status'] = table[a]]
    <3>1. status' \in Fds /\ table[status'] = Free
      BY <2>3, LowestFree
    <3>2. Tables' /\ status' \notin others /\ table'[status'] # Free
      BY <2>1, <2>3, <3>1 DEF IInv, Tables, IsOpen, Foreign, Free
    <3>3. Asked(Free)' = Asked(Free) /\ Asked(Free)[status'] = Free
      <4>1. Mine(table)[status'] = Free
        BY <3>1 DEF Mine
      <4> QED
        BY <1>0, <2>1, <4>1 DEF Asked, Mine
    <3>4. Mine(before)[a] = IF table[a] = Foreign THEN Free ELSE table[a]
      <4>1. Mine(before)[a] = Asked(Free)[a]
        BY <2>1 DEF Asked, Mine
      <4>2. Mine(table)[a] = IF table[a] = Foreign THEN Free ELSE table[a]
        BY <2>1 DEF Mine
      <4> QED
        BY <2>1, <4>1, <4>2
    <3>5. Mine(table') = [Mine(table) EXCEPT ![status'] = Mine(before)[a]]
      BY <2>3, <3>1, <3>4, MineExcept DEF IInv, Tables
    <3>6. Mine(before)' = Mine(before)
      BY <2>1 DEF Mine
    <3>7. Progress'
      BY <1>0, <2>1, <2>3, <3>1, <3>2, <3>3, <3>5, <3>6 DEF Progress
    <3> QED
      BY <3>2, <3>7 DEF IInv
  <2> QED
    BY <1>3, <2>2, <2>3 DEF Dup2Dup
<1>4. CASE Dup2Busy
  <2>1. /\ at = "status" /\ at' = "lost" /\ before' = before /\ others' = others
        /\ table' = [table EXCEPT ![status] = Free]
        /\ status \in Fds \ others /\ Asked(Free)[status] = Free
        /\ Mine(table) = [Asked(Free) EXCEPT ![status] = Mine(before)[a]]
    BY <1>4 DEF Dup2Busy, CloseStatus, IInv, Progress, thread
  <2>2. Tables'
    BY <2>1 DEF IInv, Tables
  <2>3. Mine(table') = [Mine(table) EXCEPT ![status] = Free]
    BY <2>1, MineExcept DEF IInv, Tables, Foreign, Free
  <2>4. Mine(table') = Asked(Free) /\ Asked(Free)' = Asked(Free)
    <3> DEFINE g == Asked(Free)
    <3>1. g = [f \in Fds |-> g[f]] /\ Asked(Free)' = g /\ g[status] = Free
      BY <1>0, <2>1 DEF Asked, Mine
    <3>2. Mine(table') = [[g EXCEPT ![status] = Mine(before)[a]] EXCEPT ![status] = Free]
      BY <2>1, <2>3
    <3> HIDE DEF g
    <3>3. Mine(table') = g
      BY <2>1, <3>1, <3>2
    <3> QED
      BY <3>1, <3>3 DEF g
  <2>5. Progress'
    BY <2>1, <2>4 DEF Progress
  <2> QED
    BY <2>2, <2>5 DEF IInv
<1>5. CASE Dup2Done
  <2>1. /\ at = "status" /\ at' = "done" /\ before' = before /\ others' = others
        /\ table' = table /\ status = b
        /\ Mine(table) = [Asked(Free) EXCEPT ![status] = Mine(before)[a]]
    BY <1>5 DEF Dup2Done, IInv, Progress, kernel, thread
  <2>2. Tables'
    BY <2>1 DEF IInv, Tables
  <2>3. Mine(table)' = Asked(Mine(before)[a])'
    <3>1. Asked(Mine(before)[a])' = [Mine(before) EXCEPT ![b] = Mine(before)[a]]
      BY <1>0, <2>1 DEF Asked, Mine
    <3>2. Mine(table)' = [[Mine(before) EXCEPT ![b] = Free] EXCEPT ![b] = Mine(before)[a]]
      BY <2>1 DEF Asked, Mine
    <3> DEFINE m == Mine(before)
    <3>3. m = [f \in Fds |-> m[f]]
      BY DEF Mine
    <3> HIDE DEF m
    <3>4. [[m EXCEPT ![b] = Free] EXCEPT ![b] = m[a]] = [m EXCEPT ![b] = m[a]]
      BY <3>3
    <3> QED
      BY <3>1, <3>2, <3>4 DEF m
  <2>4. Progress'
    BY <1>0, <2>1, <2>3 DEF Progress
  <2> QED
    BY <2>2, <2>4 DEF IInv
<1> QED
  BY <1>1, <1>2, <1>3, <1>4, <1>5

(* The other thread only touches descriptors that main sees as free.        *)
LEMMA OtherStep ==
    ASSUME IInv, NEW fd \in Contested, OtherOpens(fd) \/ OtherCloses(fd)
    PROVE  IInv'
<1>1. /\ fd \in Fds
      /\ before' = before /\ calls' = calls /\ var' = var /\ at' = at /\ status' = status
  BY DescriptorsAssumption DEF OtherOpens, OtherCloses, Fds
<1>2. Tables' /\ Mine(table)' = Mine(table) /\ (at = "status" => status \notin others')
  <2>1. CASE OtherOpens(fd)
    <3>1. /\ table[fd] = Free /\ table' = [table EXCEPT ![fd] = Foreign]
          /\ others' = others \cup {fd}
      BY <2>1 DEF OtherOpens
    <3>2. Mine(table)' = Mine(table)
      BY <1>1, <3>1 DEF Mine, IInv, Tables, Free, Foreign
    <3> QED
      BY <1>1, <3>1, <3>2 DEF IInv, Tables, Progress
  <2>2. CASE OtherCloses(fd)
    <3>1. /\ table[fd] = Foreign /\ table' = [table EXCEPT ![fd] = Free]
          /\ others' = others \ {fd}
      BY <2>2 DEF OtherCloses, IInv, Tables
    <3>2. Mine(table)' = Mine(table)
      BY <1>1, <3>1 DEF Mine, IInv, Tables
    <3> QED
      BY <1>1, <3>1, <3>2 DEF IInv, Tables, Progress
  <2> QED
    BY <2>1, <2>2
<1>3. /\ Fd(2)' = Fd(2) /\ Fd(3)' = Fd(3) /\ Mine(before)' = Mine(before)
      /\ Asked(Free)' = Asked(Free)
      /\ Asked(Mine(before)[Fd(2)])' = Asked(Mine(before)[Fd(2)])
  BY <1>1 DEF Asked, Mine, Fd, Arg
<1>4. at = "status" => status # fd /\ table'[status] = table[status]
  BY <1>1 DEF OtherOpens, OtherCloses, IInv, Progress, Tables
<1>5. Progress'
  BY <1>1, <1>2, <1>3, <1>4 DEF Progress, IInv
<1> QED
  BY <1>2, <1>5 DEF IInv

LEMMA Inductive == IInv /\ [Next]_vars => IInv'
<1> SUFFICES ASSUME IInv, [Next]_vars PROVE IInv'
  OBVIOUS
<1>1. CASE UNCHANGED vars
  BY <1>1 DEF vars, IInv, Tables, Progress, Asked, Mine, Fd, Arg
<1> QED
  BY <1>1, OtherCalls, Dup2Step, OtherStep DEF Next, Main

(* dup2_fd makes newfd refer to what oldfd refers to, or leaves main's      *)
(* descriptors alone, or closes newfd: for every limit, every set of        *)
(* descriptors the other thread may get and any number of its files.        *)
THEOREM Dup2Correct == Spec => []Dup2Exact
<1>1. IInv => Dup2Exact
  BY DEF IInv, Progress, Dup2Exact, Asked
<1> QED
  BY <1>1, InitEstablishes, Inductive, PTL DEF Spec

-----------------------------------------------------------------------------
(* What the programs that write leave behind: the calls made so far         *)
(* determine the descriptions, the offsets and the bytes.                   *)

LEMMA MaxOfTwo ==
    ASSUME NEW m \in Nat, NEW n \in Nat
    PROVE  Max({m, n}) = IF m >= n THEN m ELSE n
<1> DEFINE k == IF m >= n THEN m ELSE n
<1>1. k \in {m, n} /\ \A y \in {m, n} : k >= y
  OBVIOUS
<1>2. \A x \in {m, n} : (\A y \in {m, n} : x >= y) => x = k
  OBVIOUS
<1> QED
  BY <1>1, <1>2 DEF Max

LEMMA AsFunction ==
    ASSUME NEW S, NEW u \in Seq(S), NEW n \in Nat, Len(u) = n
    PROVE  u = [i \in 1 .. n |-> u[i]]
  OBVIOUS

(* n bytes of one write, and m of another behind them.                      *)
Pair(n, x, m, y) == Times(n, x) \o Times(m, y)

LEMMA PairIs ==
    ASSUME NEW n \in Nat, NEW m \in Nat, NEW x, NEW y
    PROVE  Pair(n, x, m, y) = [i \in 1 .. n + m |-> IF i <= n THEN x ELSE y]
<1>1. PICK s, t : s = Times(n, x) /\ t = Times(m, y)
  OBVIOUS
<1>2. s \in Seq({x, y}) /\ Len(s) = n /\ \A i \in 1 .. n : s[i] = x
  BY <1>1 DEF Times
<1>3. t \in Seq({x, y}) /\ Len(t) = m /\ \A i \in 1 .. m : t[i] = y
  BY <1>1 DEF Times
<1>4. /\ s \o t \in Seq({x, y}) /\ Len(s \o t) = n + m
      /\ \A i \in 1 .. n + m : (s \o t)[i] = IF i <= n THEN x ELSE y
  BY <1>2, <1>3
<1>5. s \o t = [i \in 1 .. n + m |-> IF i <= n THEN x ELSE y]
  <2>1. n + m \in Nat
    OBVIOUS
  <2>2. s \o t = [i \in 1 .. n + m |-> (s \o t)[i]]
    BY <1>4, <2>1, AsFunction
  <2>3. PICK u : u = s \o t
    OBVIOUS
  <2>4. u = [i \in 1 .. n + m |-> u[i]]
        /\ \A i \in 1 .. n + m : u[i] = IF i <= n THEN x ELSE y
    BY <1>4, <2>2, <2>3
  <2>5. u = [i \in 1 .. n + m |-> IF i <= n THEN x ELSE y]
    BY <2>4
  <2> QED
    BY <2>3, <2>5
<1> QED
  BY <1>1, <1>5 DEF Pair

LEMMA FirstBytes ==
    ASSUME NEW n \in Nat, NEW x
    PROVE  Overlay(<<>>, 0, n, x) = Times(n, x)
<1>1. Len(<<>>) = 0 /\ 0 + n = n
  OBVIOUS
<1>2. Max({0, n}) = n
  BY MaxOfTwo
<1>3. Overlay(<<>>, 0, n, x) = [i \in 1 .. n |-> IF i \in 1 .. n THEN x ELSE <<>>[i]]
  BY <1>1, <1>2 DEF Overlay
<1> QED
  BY <1>3 DEF Times

LEMMA BytesBehind ==
    ASSUME NEW n \in Nat, NEW m \in Nat, NEW x, NEW y
    PROVE  Overlay(Times(n, x), n, m, y) = Pair(n, x, m, y)
<1>1. Len(Times(n, x)) = n /\ \A i \in 1 .. n : Times(n, x)[i] = x
  BY DEF Times
<1>2. Max({n, n + m}) = n + m
  BY MaxOfTwo
<1>3. Overlay(Times(n, x), n, m, y)
        = [i \in 1 .. n + m |-> IF i \in n + 1 .. n + m THEN y ELSE Times(n, x)[i]]
  BY <1>1, <1>2 DEF Overlay
<1>4. \A i \in 1 .. n + m : (IF i \in n + 1 .. n + m THEN y ELSE Times(n, x)[i])
                              = IF i <= n THEN x ELSE y
  BY <1>1
<1> QED
  BY <1>3, <1>4, PairIs

LEMMA BytesInFront ==
    ASSUME NEW n \in Nat, NEW m \in Nat, NEW x, NEW y, NEW z
    PROVE  Overlay(Pair(n, x, m, y), 0, n, z) = Pair(n, z, m, y)
<1>1. PICK p : p = Pair(n, x, m, y)
  OBVIOUS
<1>2. p = [i \in 1 .. n + m |-> IF i <= n THEN x ELSE y]
  BY <1>1, PairIs
<1>3. Len(p) = n + m /\ \A i \in 1 .. n + m : p[i] = IF i <= n THEN x ELSE y
  BY <1>2
<1>4. Max({n + m, n}) = n + m
  BY MaxOfTwo
<1>5. Overlay(p, 0, n, z) = [i \in 1 .. n + m |-> IF i \in 1 .. n THEN z ELSE p[i]]
  BY <1>3, <1>4 DEF Overlay
<1>6. \A i \in 1 .. n + m : (IF i \in 1 .. n THEN z ELSE p[i]) = IF i <= n THEN z ELSE y
  BY <1>3
<1> QED
  BY <1>1, <1>5, <1>6, PairIs

(* The k calls of a program that have been made are not there any more.     *)
Made(p, k) == calls = SubSeq(p, k + 1, Len(p))

LEMMA NextCall ==
    ASSUME NEW S, NEW p \in Seq(S), NEW k \in Nat, k < Len(p), Made(p, k)
    PROVE  /\ calls # <<>> /\ Head(calls) = p[k + 1]
           /\ Tail(calls) = SubSeq(p, (k + 1) + 1, Len(p))
<1>0. PICK c : c = calls
  OBVIOUS
<1>1. PICK l \in Nat : l = Len(p) - k
  OBVIOUS
<1>2. c = SubSeq(p, k + 1, Len(p))
  BY <1>0 DEF Made
<1>3. c \in Seq(S) /\ Len(c) = l /\ \A i \in 1 .. l : c[i] = p[k + i]
  BY <1>1, <1>2
<1>4. l >= 1
  BY <1>1
<1>5. c # <<>> /\ Head(c) = p[k + 1]
  BY <1>3, <1>4
<1>6. Tail(c) \in Seq(S) /\ Len(Tail(c)) = l - 1
      /\ \A i \in 1 .. l - 1 : Tail(c)[i] = p[k + (i + 1)]
  BY <1>3, <1>4
<1>7. PICK d : d = SubSeq(p, (k + 1) + 1, Len(p))
  OBVIOUS
<1>8. d \in Seq(S) /\ Len(d) = l - 1 /\ \A i \in 1 .. l - 1 : d[i] = p[k + (i + 1)]
  BY <1>1, <1>4, <1>7
<1>9. Tail(c) = d
  BY <1>4, <1>6, <1>8, SMTT(40)
<1> QED
  BY <1>0, <1>5, <1>7, <1>9

LEMMA NoCallLeft ==
    ASSUME NEW S, NEW p \in Seq(S), Made(p, Len(p))
    PROVE  calls = <<>>
  BY DEF Made

-----------------------------------------------------------------------------
(* One call *)

Handles == Variables \cup DOMAIN Literals
Description(f, o, a) == [file |-> f, offset |-> o, append |-> a]

Steady ==
    /\ table = [f \in Fds |-> table[f]]
    /\ var = [v \in Handles |-> var[v]]
    /\ content = [f \in Files |-> content[f]]
    /\ descs \in Seq([file : Files, offset : Nat, append : BOOLEAN])

(* Descriptor v of the program refers to the k-th description.              *)
Refers(v, k) == v \in Handles /\ var[v] \in Fds /\ table[var[v]] = k

MovedTo(n, p) == [descs EXCEPT ![n].offset = p]
Replaced(n, d) == [descs EXCEPT ![n] = d]

LEMMA Moved ==
    ASSUME NEW f, NEW o, NEW a, NEW p, NEW n, descs[n] = Description(f, o, a)
    PROVE  MovedTo(n, p) = Replaced(n, Description(f, p, a))
<1>1. [Description(f, o, a) EXCEPT !.offset = p] = Description(f, p, a)
  BY DEF Description
<1>2. [descs[n] EXCEPT !.offset = p] = Description(f, p, a)
  BY <1>1
<1>3. MovedTo(n, p) = Replaced(n, [descs[n] EXCEPT !.offset = p])
  BY DEF MovedTo, Replaced
<1> QED
  BY <1>2, <1>3

LEMMA ChangedOne ==
    ASSUME NEW S, NEW s \in Seq(S), NEW n \in 1 .. Len(s), NEW x \in S
    PROVE  [s EXCEPT ![n] = x] \in Seq(S)
  OBVIOUS

(* n descriptions there are, and what the n-th of them is.                  *)
Opened(n) == Len(descs) = n
Known(n, f, o, a) == n \in 1 .. Len(descs) /\ descs[n] = Description(f, o, a)

(* A call leaves the bytes alone, and what a descriptor refers to.          *)
KeepsBytes == content' = content /\ writes' = writes
KeepsRefers == \A v, k : Refers(v, k) => Refers(v, k)'
KeepsOthers == program' = program /\ oldLen' = oldLen /\ others' = others
KeepsKnown == \A n, f, o, a : Known(n, f, o, a) => Known(n, f, o, a)'
KeepsKnownBut(m) == \A n, f, o, a : n # m /\ Known(n, f, o, a) => Known(n, f, o, a)'

(* A free descriptor is not one of those that refer to something.           *)
LEMMA OpenIs ==
    ASSUME Steady, Open, NEW v \in Handles, Arg(2) = v,
           NEW f \in Files, Arg(3) = f, NEW a \in BOOLEAN, Arg(4) = a,
           NEW n \in Nat, Opened(n), NEW m, m = n + 1
    PROVE  /\ Steady' /\ Done /\ KeepsBytes /\ KeepsOthers
           /\ Opened(m)' /\ Known(m, f, 0, a)' /\ KeepsKnown
           /\ Refers(v, m)'
           /\ \A u, k : u # v /\ k # Free /\ Refers(u, k) => Refers(u, k)'
<1>1. PICK fd : fd = Min(FreeFrom(0))
  OBVIOUS
<1>2. fd \in Fds /\ table[fd] = Free
  BY <1>1, LowestFree DEF Open
<1>3. PICK d : d = Description(f, 0, a)
  OBVIOUS
<1>4. Len(descs) + 1 = m
  BY DEF Opened
<1>5. /\ table' = [table EXCEPT ![fd] = m] /\ var' = [var EXCEPT ![v] = fd] /\ Done
      /\ descs' = Append(descs, d) /\ KeepsBytes /\ KeepsOthers
  BY <1>1, <1>3, <1>4 DEF Open, Description, thread, KeepsBytes, KeepsOthers
<1>6. d \in [file : Files, offset : Nat, append : BOOLEAN]
  BY <1>3 DEF Description
<1>7. /\ descs' \in Seq([file : Files, offset : Nat, append : BOOLEAN])
      /\ Len(descs') = m /\ descs'[m] = d
      /\ \A i \in 1 .. n : descs'[i] = descs[i]
  BY <1>5, <1>6 DEF Steady, Opened
<1>8. Steady'
  BY <1>2, <1>5, <1>7 DEF Steady, KeepsBytes
<1>9. Refers(v, m)'
  BY <1>2, <1>5 DEF Steady, Refers
<1>10. ASSUME NEW u, NEW k, u # v, k # Free, Refers(u, k)
       PROVE  Refers(u, k)'
  BY <1>2, <1>5, <1>10 DEF Steady, Refers
<1>11. Opened(m)' /\ Known(m, f, 0, a)'
  BY <1>3, <1>7 DEF Opened, Known
<1>12. KeepsKnown
  BY <1>7 DEF KeepsKnown, Known, Opened
<1> QED
  BY <1>5, <1>8, <1>9, <1>10, <1>11, <1>12

LEMMA DupIs ==
    ASSUME Steady, Dup, NEW v \in Handles, Arg(2) = v,
           NEW n, n # Free, Refers(Arg(3), n)
    PROVE  /\ Steady' /\ Done /\ KeepsBytes /\ KeepsOthers /\ KeepsKnown
           /\ \A m : Opened(m) => Opened(m)'
           /\ Refers(v, n)'
           /\ \A u, k : u # v /\ k # Free /\ Refers(u, k) => Refers(u, k)'
<1>1. PICK fd : fd = Min(FreeFrom(DupFrom))
  OBVIOUS
<1>2. fd \in Fds /\ table[fd] = Free
  BY <1>1, LowestFree DEF Dup
<1>3. /\ table' = [table EXCEPT ![fd] = n] /\ var' = [var EXCEPT ![v] = fd] /\ Done
      /\ descs' = descs /\ KeepsBytes /\ KeepsOthers
  BY <1>1 DEF Dup, Refers, Fd, thread, KeepsBytes, KeepsOthers
<1>4. Steady'
  BY <1>2, <1>3 DEF Steady, KeepsBytes
<1>5. Refers(v, n)'
  BY <1>2, <1>3 DEF Steady, Refers
<1>6. ASSUME NEW u, NEW k, u # v, k # Free, Refers(u, k)
      PROVE  Refers(u, k)'
  BY <1>2, <1>3, <1>6 DEF Steady, Refers
<1> QED
  BY <1>3, <1>4, <1>5, <1>6 DEF KeepsKnown, Known, Opened

LEMMA CloseIs ==
    ASSUME Steady, Close
    PROVE  /\ Steady' /\ Done /\ KeepsBytes /\ KeepsKnown /\ program' = program
           /\ oldLen' = oldLen
           /\ \A m : Opened(m) => Opened(m)'
           /\ others' \subseteq others
<1>1. PICK fd : fd = Fd(2)
  OBVIOUS
<1>2. /\ table' = [table EXCEPT ![fd] = Free] \/ table' = table
      /\ var' = var /\ descs' = descs /\ Done /\ others' = others \ {fd}
      /\ KeepsBytes /\ program' = program /\ oldLen' = oldLen
  BY <1>1 DEF Close, KeepsBytes
<1>3. Steady'
  BY <1>2 DEF Steady, KeepsBytes
<1> QED
  BY <1>2, <1>3 DEF KeepsKnown, Known, Opened

(* The offset of the n-th description changes, and nothing else in it.      *)
LEMMA MovedIs ==
    ASSUME Steady, NEW n, NEW f, NEW o, NEW a, Known(n, f, o, a),
           NEW p \in Nat, descs' = MovedTo(n, p)
    PROVE  /\ descs' \in Seq([file : Files, offset : Nat, append : BOOLEAN])
           /\ Known(n, f, p, a)' /\ KeepsKnownBut(n)
           /\ \A m : Opened(m) => Opened(m)'
<1>1. PICK d : d = Description(f, p, a)
  OBVIOUS
<1>2. descs[n] = Description(f, o, a) /\ n \in 1 .. Len(descs)
  BY DEF Known
<1>3. MovedTo(n, p) = Replaced(n, Description(f, p, a))
  BY <1>2, Moved, Zenon
<1>4. descs' = [descs EXCEPT ![n] = d]
  BY <1>1, <1>3 DEF Replaced
<1>5. descs \in Seq([file : Files, offset : Nat, append : BOOLEAN])
  BY DEF Steady
<1>6. d \in [file : Files, offset : Nat, append : BOOLEAN]
  BY <1>1, <1>2, <1>5 DEF Description
<1>7. descs' \in Seq([file : Files, offset : Nat, append : BOOLEAN])
  BY <1>2, <1>4, <1>5, <1>6, ChangedOne
<1>8. Len(descs') = Len(descs) /\ descs'[n] = d
      /\ \A i \in 1 .. Len(descs) : i # n => descs'[i] = descs[i]
  BY <1>2, <1>4, <1>5
<1> QED
  BY <1>1, <1>2, <1>7, <1>8 DEF Known, KeepsKnownBut, Opened

LEMMA SeekIs ==
    ASSUME Steady, SeekStart, NEW n, Refers(Arg(2), n),
           NEW f, NEW o, NEW a, Known(n, f, o, a)
    PROVE  /\ Steady' /\ Done /\ KeepsBytes /\ KeepsOthers /\ KeepsRefers
           /\ Known(n, f, 0, a)' /\ KeepsKnownBut(n)
           /\ \A m : Opened(m) => Opened(m)'
<1>1. /\ table' = table /\ var' = var /\ Done /\ descs' = MovedTo(n, 0)
      /\ KeepsBytes /\ KeepsOthers
  BY DEF SeekStart, Refers, Fd, thread, MovedTo, KeepsBytes, KeepsOthers
<1>2. /\ descs' \in Seq([file : Files, offset : Nat, append : BOOLEAN])
      /\ Known(n, f, 0, a)' /\ KeepsKnownBut(n) /\ \A m : Opened(m) => Opened(m)'
  BY <1>1, MovedIs
<1>3. Steady'
  BY <1>1, <1>2 DEF Steady, KeepsBytes
<1> QED
  BY <1>1, <1>2, <1>3 DEF Refers, KeepsRefers

(* What a write does without and with O_APPEND.                             *)
LEMMA WriteIs ==
    ASSUME Steady, Write, NEW n, Refers(Arg(2), n), NEW l \in Nat, Arg(3) = l,
           NEW f, NEW o, NEW a \in BOOLEAN, Known(n, f, o, a),
           NEW from \in Nat, from = IF a THEN Len(content[f]) ELSE o
    PROVE  /\ Steady' /\ Done /\ KeepsOthers /\ KeepsRefers
           /\ Known(n, f, from + l, a)' /\ KeepsKnownBut(n)
           /\ \A m : Opened(m) => Opened(m)'
           /\ content'[f] = Overlay(content[f], from, l, writes + 1)
           /\ writes' = writes + 1
<1>1. descs[n] = Description(f, o, a) /\ n \in 1 .. Len(descs)
  BY DEF Known
<1>2. /\ table' = table /\ var' = var /\ Done /\ descs' = MovedTo(n, from + l)
      /\ content' = [content EXCEPT ![f] = Overlay(content[f], from, l, writes + 1)]
      /\ writes' = writes + 1 /\ KeepsOthers
  <2>1. PICK d : d = descs[n]
    OBVIOUS
  <2>2. d.file = f /\ d.offset = o /\ d.append = a
    BY <1>1, <2>1 DEF Description
  <2>3. from = IF d.append THEN Len(content[d.file]) ELSE d.offset
    BY <2>2
  <2>4. table[Fd(2)] = n
    BY DEF Refers, Fd
  <2>5. /\ content' = [content EXCEPT ![d.file] = Overlay(content[d.file], from, l, writes + 1)]
        /\ descs' = [descs EXCEPT ![n].offset = from + l]
    BY <2>1, <2>3, <2>4 DEF Write
  <2>6. table' = table /\ var' = var /\ Done /\ writes' = writes + 1 /\ KeepsOthers
    BY DEF Write, thread, KeepsOthers
  <2> QED
    BY <2>2, <2>5, <2>6 DEF MovedTo
<1>3. PICK q \in Nat : q = from + l
  OBVIOUS
<1>4. descs' = MovedTo(n, q)
  BY <1>2, <1>3
<1>5. /\ descs' \in Seq([file : Files, offset : Nat, append : BOOLEAN])
      /\ Known(n, f, q, a)' /\ KeepsKnownBut(n) /\ \A m : Opened(m) => Opened(m)'
  BY <1>4, MovedIs
<1>6. Steady'
  BY <1>2, <1>5 DEF Steady
<1>7. f \in Files
  BY <1>1 DEF Steady, Description
<1>8. content'[f] = Overlay(content[f], from, l, writes + 1)
  BY <1>2, <1>7 DEF Steady
<1> QED
  BY <1>2, <1>3, <1>5, <1>6, <1>8 DEF Refers, KeepsRefers

-----------------------------------------------------------------------------
(* Which call is next *)

Rests == /\ at' = "failed"
         /\ UNCHANGED <<program, oldLen, calls, var, kernel, others>>

LEMMA Kinds ==
    ASSUME Main, at \in {"call", "failed"}
    PROVE  /\ at = "call"
           /\ \/ Open \/ Close \/ Dup \/ Write \/ SeekStart \/ Compare \/ Dup2Check
              \/ Rests
  BY DEF Main, Open, Close, Dup, Write, SeekStart, Compare, Dup2Check, CallFails, Rests, thread,
         Dup2Close, Dup2Dup, Dup2Busy, Dup2Done, Duplicate2, Call

(* The action is that of the call.                                          *)
LEMMA OneKind ==
    ASSUME Main, at \in {"call", "failed"}, NEW c, Head(calls)[1] = c
    PROVE  \/ Rests
           \/ c = "open" /\ Open
           \/ c = "close" /\ Close
           \/ c = "dup" /\ Dup
           \/ c = "write" /\ Write
           \/ c = "seek" /\ SeekStart
           \/ c = "same" /\ Compare
           \/ c = "dup2" /\ Dup2Check
<1>1. \/ Open \/ Close \/ Dup \/ Write \/ SeekStart \/ Compare \/ Dup2Check
      \/ Rests
  BY Kinds
<1> QED
  BY <1>1 DEF Open, Close, Dup, Write, SeekStart, Compare, Dup2Check, Call

LEMMA Onward ==
    ASSUME NEW S, NEW p \in Seq(S), NEW k \in Nat, k < Len(p), Made(p, k), Done
    PROVE  Made(p, k + 1)' /\ at' = "call"
<1>1. Tail(calls) = SubSeq(p, (k + 1) + 1, Len(p))
  BY NextCall
<1> QED
  BY <1>1 DEF Made, Done

LEMMA FourOf ==
    ASSUME NEW a, NEW b, NEW c, NEW d, Head(calls) = <<a, b, c, d>>
    PROVE  Head(calls)[1] = a /\ Arg(2) = b /\ Arg(3) = c /\ Arg(4) = d
  BY DEF Arg

LEMMA ThreeOf ==
    ASSUME NEW a, NEW b, NEW c, Head(calls) = <<a, b, c>>
    PROVE  Head(calls)[1] = a /\ Arg(2) = b /\ Arg(3) = c
  BY DEF Arg

LEMMA TwoOf ==
    ASSUME NEW a, NEW b, Head(calls) = <<a, b>>
    PROVE  Head(calls)[1] = a /\ Arg(2) = b
  BY DEF Arg

LEMMA CallsLeft ==
    ASSUME Open \/ Close \/ Dup \/ Write \/ SeekStart \/ Compare \/ Dup2Check
    PROVE  calls # <<>>
  BY DEF Open, Close, Dup, Write, SeekStart, Compare, Dup2Check, Call

LEMMA RestsIs ==
    ASSUME Steady, Rests
    PROVE  /\ Steady' /\ KeepsBytes /\ KeepsOthers /\ KeepsRefers /\ KeepsKnown
           /\ (\A m : Opened(m) => Opened(m)') /\ calls' = calls /\ at' = "failed"
  BY DEF Rests, Steady, kernel, KeepsBytes, KeepsOthers, KeepsRefers, KeepsKnown, Refers, Known, Opened

-----------------------------------------------------------------------------
(* The calls of 5_6.md on three descriptors of a file: how many were made,  *)
(* how many of them wrote, and the bytes.                                   *)

LEMMA ThreeCalls ==
    /\ ThreeDescriptors \in Seq({ThreeDescriptors[i] : i \in 1 .. 8})
    /\ Len(ThreeDescriptors) = 8
    /\ ThreeDescriptors[1] = <<"open", "fd1", "file", FALSE>>
    /\ ThreeDescriptors[2] = <<"dup", "fd2", "fd1">>
    /\ ThreeDescriptors[3] = <<"open", "fd3", "file", FALSE>>
    /\ ThreeDescriptors[4] = <<"write", "fd1", 6>>
    /\ ThreeDescriptors[5] = <<"write", "fd2", 6>>
    /\ ThreeDescriptors[6] = <<"seek", "fd2">>
    /\ ThreeDescriptors[7] = <<"write", "fd1", 6>>
    /\ ThreeDescriptors[8] = <<"write", "fd3", 6>>
<1> DEFINE p == ThreeDescriptors
<1>1. Len(p) = 8 /\ DOMAIN p = 1 .. 8
  BY DEF ThreeDescriptors
<1>2. p = [i \in 1 .. 8 |-> p[i]]
  BY DEF ThreeDescriptors
<1>3. p \in Seq({p[i] : i \in 1 .. 8})
  <2> HIDE DEF p
  <2> QED
    BY <1>1, <1>2
<1>4. p[1] = <<"open", "fd1", "file", FALSE>> /\ p[2] = <<"dup", "fd2", "fd1">>
  BY DEF ThreeDescriptors
<1>5. p[3] = <<"open", "fd3", "file", FALSE>> /\ p[4] = <<"write", "fd1", 6>>
  BY DEF ThreeDescriptors
<1>6. p[5] = <<"write", "fd2", 6>> /\ p[6] = <<"seek", "fd2">>
  BY DEF ThreeDescriptors
<1>7. p[7] = <<"write", "fd1", 6>> /\ p[8] = <<"write", "fd3", 6>>
  BY DEF ThreeDescriptors
<1> QED
  BY <1>1, <1>3, <1>4, <1>5, <1>6, <1>7

Stage(p, k, f, w, bytes) == Made(p, k) /\ content[f] = bytes /\ writes = w

AllThree(o1, o2) ==
    /\ Opened(2) /\ Refers("fd1", 1) /\ Refers("fd2", 1) /\ Refers("fd3", 2)
    /\ Known(1, "file", o1, FALSE) /\ Known(2, "file", o2, FALSE)

Three(k, w, bytes) == Stage(ThreeDescriptors, k, "file", w, bytes)
Three0 == Three(0, 0, <<>>) /\ Opened(0)
Three1 == Three(1, 0, <<>>) /\ Opened(1) /\ Refers("fd1", 1) /\ Known(1, "file", 0, FALSE)
Three2 == /\ Three(2, 0, <<>>) /\ Opened(1) /\ Refers("fd1", 1) /\ Refers("fd2", 1)
          /\ Known(1, "file", 0, FALSE)
Three3 == Three(3, 0, <<>>) /\ AllThree(0, 0)
Three4 == Three(4, 1, Times(6, 1)) /\ AllThree(6, 0)
Three5 == Three(5, 2, Pair(6, 1, 6, 2)) /\ AllThree(12, 0)
Three6 == Three(6, 2, Pair(6, 1, 6, 2)) /\ AllThree(0, 0)
Three7 == Three(7, 3, Pair(6, 3, 6, 2)) /\ AllThree(6, 0)
Three8 == Three(8, 4, Pair(6, 4, 6, 2))
ThreeStage ==
    Three0 \/ Three1 \/ Three2 \/ Three3 \/ Three4 \/ Three5 \/ Three6 \/ Three7 \/ Three8

(* A call of it at stage k.                                                 *)
LEMMA ThreeNext ==
    ASSUME NEW k \in 0 .. 7, NEW w, NEW bytes, Three(k, w, bytes)
    PROVE  /\ Head(calls) = ThreeDescriptors[k + 1]
           /\ Done => Made(ThreeDescriptors, k + 1)' /\ at' = "call"
<1>1. /\ ThreeDescriptors \in Seq({ThreeDescriptors[i] : i \in 1 .. 8})
      /\ k \in Nat /\ k < Len(ThreeDescriptors) /\ Made(ThreeDescriptors, k)
  BY ThreeCalls DEF Three, Stage
<1>2. Head(calls) = ThreeDescriptors[k + 1]
  BY <1>1, NextCall
<1>3. Done => Made(ThreeDescriptors, k + 1)' /\ at' = "call"
  BY <1>1, Onward
<1> QED
  BY <1>2, <1>3

Goes == /\ Steady' /\ program' = program /\ others' \subseteq others
        /\ at' \in {"call", "failed"}

LEMMA ThreeRests ==
    ASSUME Steady, ThreeStage, Rests
    PROVE  Goes /\ ThreeStage'
<1>1. /\ Steady' /\ KeepsBytes /\ KeepsOthers /\ KeepsRefers /\ KeepsKnown
      /\ (\A m : Opened(m) => Opened(m)') /\ calls' = calls /\ at' = "failed"
  BY RestsIs
<1>2. \A k, w, bytes : Three(k, w, bytes) => Three(k, w, bytes)'
  BY <1>1 DEF Three, Stage, Made, KeepsBytes
<1>3. \A m, n : AllThree(m, n) => AllThree(m, n)'
  BY <1>1 DEF AllThree, KeepsRefers, KeepsKnown
<1>4. ThreeStage'
  BY <1>1, <1>2, <1>3 DEF ThreeStage, Three0, Three1, Three2, Three3, Three4, Three5, Three6,
     Three7, Three8, KeepsRefers, KeepsKnown
<1> QED
  BY <1>1, <1>4 DEF Goes, KeepsOthers

LEMMA Three0Step ==
    ASSUME Steady, Three0, Main, at \in {"call", "failed"}, ~ Rests
    PROVE  Goes /\ Three1'
<1>1. Head(calls) = <<"open", "fd1", "file", FALSE>>
      /\ (Done => Made(ThreeDescriptors, 1)' /\ at' = "call")
  <2>1. 0 \in 0 .. 7 /\ Three(0, 0, <<>>) /\ 0 + 1 = 1
    BY DEF Three0
  <2> QED
    BY <2>1, ThreeNext, ThreeCalls
<1>2. Arg(2) = "fd1" /\ Arg(3) = "file" /\ Head(calls)[1] = "open" /\ Arg(4) = FALSE
  BY <1>1, FourOf, Zenon
<1>3. Open
  BY <1>2, OneKind
<1>4. "fd1" \in Handles /\ "file" \in Files /\ FALSE \in BOOLEAN /\ 0 \in Nat /\ Opened(0) /\ 1 = 0 + 1
  BY DEF Handles, Variables, Files, Three0
<1>5. /\ Steady' /\ Done /\ KeepsBytes /\ KeepsOthers
      /\ Opened(1)' /\ Known(1, "file", 0, FALSE)' /\ Refers("fd1", 1)'
  BY <1>2, <1>3, <1>4, OpenIs
<1>6. Three(1, 0, <<>>)'
  BY <1>1, <1>5 DEF Three0, Three, Stage, KeepsBytes
<1>7. Three1'
  BY <1>5, <1>6 DEF Three1
<1> QED
  BY <1>1, <1>5, <1>7 DEF Goes, KeepsOthers

LEMMA Three1Step ==
    ASSUME Steady, Three1, Main, at \in {"call", "failed"}, ~ Rests
    PROVE  Goes /\ Three2'
<1>1. Head(calls) = <<"dup", "fd2", "fd1">>
      /\ (Done => Made(ThreeDescriptors, 2)' /\ at' = "call")
  <2>1. 1 \in 0 .. 7 /\ (\E w, bytes : Three(1, w, bytes)) /\ 1 + 1 = 2
    BY DEF Three1
  <2> QED
    BY <2>1, ThreeNext, ThreeCalls
<1>2. Arg(2) = "fd2" /\ Arg(3) = "fd1" /\ Head(calls)[1] = "dup"
  BY <1>1, ThreeOf, Zenon
<1>3. Dup
  BY <1>2, OneKind
<1>4. "fd2" \in Handles /\ 1 # Free /\ Refers(Arg(3), 1)
  BY <1>2 DEF Handles, Variables, Free, Three1
<1>5. /\ Steady' /\ Done /\ KeepsBytes /\ KeepsOthers /\ KeepsKnown
      /\ (\A m : Opened(m) => Opened(m)') /\ Refers("fd2", 1)'
      /\ \A u, k : u # "fd2" /\ k # Free /\ Refers(u, k) => Refers(u, k)'
  BY <1>2, <1>3, <1>4, DupIs
<1>6. Three(2, 0, <<>>)'
  BY <1>1, <1>5 DEF Three1, Three, Stage, KeepsBytes
<1>7. Refers("fd1", 1)'
  BY <1>4, <1>5 DEF Three1
<1>8. Three2'
  BY <1>5, <1>6, <1>7 DEF Three1, Three2, KeepsKnown
<1> QED
  BY <1>1, <1>5, <1>8 DEF Goes, KeepsOthers

LEMMA Three2Step ==
    ASSUME Steady, Three2, Main, at \in {"call", "failed"}, ~ Rests
    PROVE  Goes /\ Three3'
<1>1. Head(calls) = <<"open", "fd3", "file", FALSE>>
      /\ (Done => Made(ThreeDescriptors, 3)' /\ at' = "call")
  <2>1. 2 \in 0 .. 7 /\ (\E w, bytes : Three(2, w, bytes)) /\ 2 + 1 = 3
    BY DEF Three2
  <2> QED
    BY <2>1, ThreeNext, ThreeCalls
<1>2. Arg(2) = "fd3" /\ Arg(3) = "file" /\ Head(calls)[1] = "open" /\ Arg(4) = FALSE
  BY <1>1, FourOf, Zenon
<1>3. Open
  BY <1>2, OneKind
<1>4. "fd3" \in Handles /\ "file" \in Files /\ FALSE \in BOOLEAN /\ 1 \in Nat /\ Opened(1) /\ 2 = 1 + 1
  BY DEF Handles, Variables, Files, Three2
<1>5. /\ Steady' /\ Done /\ KeepsBytes /\ KeepsOthers /\ KeepsKnown
      /\ Opened(2)' /\ Known(2, "file", 0, FALSE)' /\ Refers("fd3", 2)'
      /\ \A u, k : u # "fd3" /\ k # Free /\ Refers(u, k) => Refers(u, k)'
  BY <1>2, <1>3, <1>4, OpenIs
<1>6. Three(3, 0, <<>>)'
  BY <1>1, <1>5 DEF Three2, Three, Stage, KeepsBytes
<1>7. Refers("fd1", 1)' /\ Refers("fd2", 1)'
  <2>1. 1 # Free
    BY DEF Free
  <2> QED
    BY <1>5, <2>1 DEF Three2
<1>8. AllThree(0, 0)'
  BY <1>5, <1>7 DEF Three2, AllThree, KeepsKnown
<1>9. Three3'
  BY <1>6, <1>8 DEF Three3
<1> QED
  BY <1>1, <1>5, <1>9 DEF Goes, KeepsOthers

LEMMA Three3Step ==
    ASSUME Steady, Three3, Main, at \in {"call", "failed"}, ~ Rests
    PROVE  Goes /\ Three4'
<1>1. Head(calls) = <<"write", "fd1", 6>>
      /\ (Done => Made(ThreeDescriptors, 4)' /\ at' = "call")
  <2>1. 3 \in 0 .. 7 /\ (\E w, bytes : Three(3, w, bytes)) /\ 3 + 1 = 4
    BY DEF Three3
  <2> QED
    BY <2>1, ThreeNext, ThreeCalls
<1>2. Arg(2) = "fd1" /\ Arg(3) = 6 /\ Head(calls)[1] = "write"
  BY <1>1, ThreeOf
<1>3. Write
  BY <1>2, OneKind
<1>4. Refers(Arg(2), 1) /\ Known(1, "file", 0, FALSE)
  BY <1>2 DEF Three3, AllThree
<1>5. /\ Steady' /\ Done /\ KeepsOthers /\ KeepsRefers
      /\ Known(1, "file", 0 + 6, FALSE)' /\ KeepsKnownBut(1)
      /\ (\A m : Opened(m) => Opened(m)')
      /\ content'["file"] = Overlay(content["file"], 0, 6, writes + 1)
      /\ writes' = writes + 1
  <2>1. 6 \in Nat /\ 0 \in Nat /\ FALSE \in BOOLEAN
        /\ 0 = IF FALSE THEN Len(content["file"]) ELSE 0
    OBVIOUS
  <2> QED
    BY <1>2, <1>3, <1>4, <2>1, WriteIs
<1>6. 0 + 6 = 6 /\ 0 + 1 = 1 /\ 1 # 2
  OBVIOUS
<1>7. writes' = 1 /\ content'["file"] = Times(6, 1)
  <2>1. writes = 0 /\ content["file"] = <<>>
    BY DEF Three3, Three, Stage
  <2>2. Overlay(<<>>, 0, 6, 1) = Times(6, 1)
    BY FirstBytes
  <2> QED
    BY <1>5, <1>6, <2>1, <2>2
<1>8. Three(4, 1, Times(6, 1))'
  BY <1>1, <1>5, <1>7 DEF Three, Stage
<1>9. AllThree(6, 0)'
  BY <1>5, <1>6 DEF Three3, AllThree, KeepsRefers, KeepsKnownBut
<1> QED
  BY <1>1, <1>5, <1>8, <1>9 DEF Goes, KeepsOthers, Three4

LEMMA Three4Step ==
    ASSUME Steady, Three4, Main, at \in {"call", "failed"}, ~ Rests
    PROVE  Goes /\ Three5'
<1>1. Head(calls) = <<"write", "fd2", 6>>
      /\ (Done => Made(ThreeDescriptors, 5)' /\ at' = "call")
  <2>1. 4 \in 0 .. 7 /\ (\E w, bytes : Three(4, w, bytes)) /\ 4 + 1 = 5
    BY DEF Three4
  <2> QED
    BY <2>1, ThreeNext, ThreeCalls
<1>2. Arg(2) = "fd2" /\ Arg(3) = 6 /\ Head(calls)[1] = "write"
  BY <1>1, ThreeOf
<1>3. Write
  BY <1>2, OneKind
<1>4. Refers(Arg(2), 1) /\ Known(1, "file", 6, FALSE)
  BY <1>2 DEF Three4, AllThree
<1>5. /\ Steady' /\ Done /\ KeepsOthers /\ KeepsRefers
      /\ Known(1, "file", 6 + 6, FALSE)' /\ KeepsKnownBut(1)
      /\ (\A m : Opened(m) => Opened(m)')
      /\ content'["file"] = Overlay(content["file"], 6, 6, writes + 1)
      /\ writes' = writes + 1
  <2>1. 6 \in Nat /\ 6 \in Nat /\ FALSE \in BOOLEAN
        /\ 6 = IF FALSE THEN Len(content["file"]) ELSE 6
    OBVIOUS
  <2> QED
    BY <1>2, <1>3, <1>4, <2>1, WriteIs
<1>6. 6 + 6 = 12 /\ 1 + 1 = 2 /\ 1 # 2
  OBVIOUS
<1>7. writes' = 2 /\ content'["file"] = Pair(6, 1, 6, 2)
  <2>1. writes = 1 /\ content["file"] = Times(6, 1)
    BY DEF Three4, Three, Stage
  <2>2. Overlay(Times(6, 1), 6, 6, 2) = Pair(6, 1, 6, 2)
    BY BytesBehind
  <2> QED
    BY <1>5, <1>6, <2>1, <2>2
<1>8. Three(5, 2, Pair(6, 1, 6, 2))'
  BY <1>1, <1>5, <1>7 DEF Three, Stage
<1>9. AllThree(12, 0)'
  BY <1>5, <1>6 DEF Three4, AllThree, KeepsRefers, KeepsKnownBut
<1> QED
  BY <1>1, <1>5, <1>8, <1>9 DEF Goes, KeepsOthers, Three5

LEMMA Three5Step ==
    ASSUME Steady, Three5, Main, at \in {"call", "failed"}, ~ Rests
    PROVE  Goes /\ Three6'
<1>1. Head(calls) = <<"seek", "fd2">>
      /\ (Done => Made(ThreeDescriptors, 6)' /\ at' = "call")
  <2>1. 5 \in 0 .. 7 /\ (\E w, bytes : Three(5, w, bytes)) /\ 5 + 1 = 6
    BY DEF Three5
  <2> QED
    BY <2>1, ThreeNext, ThreeCalls
<1>2. Arg(2) = "fd2" /\ Head(calls)[1] = "seek"
  BY <1>1, TwoOf, Zenon
<1>3. SeekStart
  BY <1>2, OneKind
<1>4. Refers(Arg(2), 1) /\ Known(1, "file", 12, FALSE)
  BY <1>2 DEF Three5, AllThree
<1>5. /\ Steady' /\ Done /\ KeepsBytes /\ KeepsOthers /\ KeepsRefers
      /\ Known(1, "file", 0, FALSE)' /\ KeepsKnownBut(1)
      /\ (\A m : Opened(m) => Opened(m)')
  BY <1>3, <1>4, SeekIs
<1>6. Three(6, 2, Pair(6, 1, 6, 2))'
  BY <1>1, <1>5 DEF Three5, Three, Stage, KeepsBytes
<1>7. AllThree(0, 0)'
  <2>1. 1 # 2
    OBVIOUS
  <2> QED
    BY <1>5, <2>1 DEF Three5, AllThree, KeepsRefers, KeepsKnownBut
<1> QED
  BY <1>1, <1>5, <1>6, <1>7 DEF Goes, KeepsOthers, Three6

LEMMA Three6Step ==
    ASSUME Steady, Three6, Main, at \in {"call", "failed"}, ~ Rests
    PROVE  Goes /\ Three7'
<1>1. Head(calls) = <<"write", "fd1", 6>>
      /\ (Done => Made(ThreeDescriptors, 7)' /\ at' = "call")
  <2>1. 6 \in 0 .. 7 /\ (\E w, bytes : Three(6, w, bytes)) /\ 6 + 1 = 7
    BY DEF Three6
  <2> QED
    BY <2>1, ThreeNext, ThreeCalls
<1>2. Arg(2) = "fd1" /\ Arg(3) = 6 /\ Head(calls)[1] = "write"
  BY <1>1, ThreeOf
<1>3. Write
  BY <1>2, OneKind
<1>4. Refers(Arg(2), 1) /\ Known(1, "file", 0, FALSE)
  BY <1>2 DEF Three6, AllThree
<1>5. /\ Steady' /\ Done /\ KeepsOthers /\ KeepsRefers
      /\ Known(1, "file", 0 + 6, FALSE)' /\ KeepsKnownBut(1)
      /\ (\A m : Opened(m) => Opened(m)')
      /\ content'["file"] = Overlay(content["file"], 0, 6, writes + 1)
      /\ writes' = writes + 1
  <2>1. 6 \in Nat /\ 0 \in Nat /\ FALSE \in BOOLEAN
        /\ 0 = IF FALSE THEN Len(content["file"]) ELSE 0
    OBVIOUS
  <2> QED
    BY <1>2, <1>3, <1>4, <2>1, WriteIs
<1>6. 0 + 6 = 6 /\ 2 + 1 = 3 /\ 1 # 2
  OBVIOUS
<1>7. writes' = 3 /\ content'["file"] = Pair(6, 3, 6, 2)
  <2>1. writes = 2 /\ content["file"] = Pair(6, 1, 6, 2)
    BY DEF Three6, Three, Stage
  <2>2. Overlay(Pair(6, 1, 6, 2), 0, 6, 3) = Pair(6, 3, 6, 2)
    BY BytesInFront
  <2> QED
    BY <1>5, <1>6, <2>1, <2>2
<1>8. Three(7, 3, Pair(6, 3, 6, 2))'
  BY <1>1, <1>5, <1>7 DEF Three, Stage
<1>9. AllThree(6, 0)'
  BY <1>5, <1>6 DEF Three6, AllThree, KeepsRefers, KeepsKnownBut
<1> QED
  BY <1>1, <1>5, <1>8, <1>9 DEF Goes, KeepsOthers, Three7

LEMMA Three7Step ==
    ASSUME Steady, Three7, Main, at \in {"call", "failed"}, ~ Rests
    PROVE  Goes /\ Three8'
<1>1. Head(calls) = <<"write", "fd3", 6>>
      /\ (Done => Made(ThreeDescriptors, 8)' /\ at' = "call")
  <2>1. 7 \in 0 .. 7 /\ (\E w, bytes : Three(7, w, bytes)) /\ 7 + 1 = 8
    BY DEF Three7
  <2> QED
    BY <2>1, ThreeNext, ThreeCalls
<1>2. Arg(2) = "fd3" /\ Arg(3) = 6 /\ Head(calls)[1] = "write"
  BY <1>1, ThreeOf
<1>3. Write
  BY <1>2, OneKind
<1>4. Refers(Arg(2), 2) /\ Known(2, "file", 0, FALSE)
  BY <1>2 DEF Three7, AllThree
<1>5. /\ Steady' /\ Done /\ KeepsOthers /\ KeepsRefers
      /\ Known(2, "file", 0 + 6, FALSE)' /\ KeepsKnownBut(2)
      /\ (\A m : Opened(m) => Opened(m)')
      /\ content'["file"] = Overlay(content["file"], 0, 6, writes + 1)
      /\ writes' = writes + 1
  <2>1. 6 \in Nat /\ 0 \in Nat /\ FALSE \in BOOLEAN
        /\ 0 = IF FALSE THEN Len(content["file"]) ELSE 0
    OBVIOUS
  <2> QED
    BY <1>2, <1>3, <1>4, <2>1, WriteIs
<1>6. 0 + 6 = 6 /\ 3 + 1 = 4 /\ 1 # 2
  OBVIOUS
<1>7. writes' = 4 /\ content'["file"] = Pair(6, 4, 6, 2)
  <2>1. writes = 3 /\ content["file"] = Pair(6, 3, 6, 2)
    BY DEF Three7, Three, Stage
  <2>2. Overlay(Pair(6, 3, 6, 2), 0, 6, 4) = Pair(6, 4, 6, 2)
    BY BytesInFront
  <2> QED
    BY <1>5, <1>6, <2>1, <2>2
<1>8. Three(8, 4, Pair(6, 4, 6, 2))'
  BY <1>1, <1>5, <1>7 DEF Three, Stage
<1> QED
  BY <1>1, <1>5, <1>8 DEF Goes, KeepsOthers, Three8

LEMMA ThreeStep ==
    ASSUME Steady, ThreeStage, Main, at \in {"call", "failed"}
    PROVE  Goes /\ ThreeStage'
<1>1. CASE Rests
  BY <1>1, ThreeRests
<1>2. CASE ~ Rests
  <2>1. ~ Three8
    <3>1. ASSUME Three8 PROVE FALSE
      <4>1. Made(ThreeDescriptors, Len(ThreeDescriptors))
        BY <3>1, ThreeCalls DEF Three8, Three, Stage
      <4>2. calls = <<>>
        BY <4>1, ThreeCalls, NoCallLeft
      <4> QED
        BY <1>2, <4>2, Kinds, CallsLeft
    <3> QED
      BY <3>1
  <2>2. \/ Three0 \/ Three1 \/ Three2 \/ Three3 \/ Three4 \/ Three5 \/ Three6 \/ Three7
    BY <2>1 DEF ThreeStage
  <2>3. Goes /\ (Three1' \/ Three2' \/ Three3' \/ Three4' \/ Three5' \/ Three6' \/ Three7' \/ Three8')
    BY <1>2, <2>2, Three0Step, Three1Step, Three2Step, Three3Step, Three4Step, Three5Step,
       Three6Step, Three7Step
  <2> QED
    BY <2>3 DEF ThreeStage
<1> QED
  BY <1>1, <1>2

-----------------------------------------------------------------------------
(* 5_2.c with O_APPEND *)

LEMMA AppendCalls ==
    /\ Append5_2 \in Seq({Append5_2[i] : i \in 1 .. 7})
    /\ Len(Append5_2) = 7
    /\ Append5_2[1] = <<"open", "expf", "tmp.out", FALSE>>
    /\ Append5_2[2] = <<"write", "expf", 5>>
    /\ Append5_2[3] = <<"close", "expf">>
    /\ Append5_2[4] = <<"open", "expf", "tmp.out", TRUE>>
    /\ Append5_2[5] = <<"seek", "expf">>
    /\ Append5_2[6] = <<"write", "expf", 2>>
    /\ Append5_2[7] = <<"close", "expf">>
<1> DEFINE p == Append5_2
<1> USE DEF Append5_2, AppendAfterSeek
<1>1. Len(p) = 7 /\ DOMAIN p = 1 .. 7
  OBVIOUS
<1>2. p = [i \in 1 .. 7 |-> p[i]]
  OBVIOUS
<1>3. p \in Seq({p[i] : i \in 1 .. 7})
  <2> HIDE DEF p
  <2> QED
    BY <1>1, <1>2
<1>4. p[1] = <<"open", "expf", "tmp.out", FALSE>> /\ p[2] = <<"write", "expf", 5>>
  OBVIOUS
<1>5. p[3] = <<"close", "expf">> /\ p[4] = <<"open", "expf", "tmp.out", TRUE>>
  OBVIOUS
<1>6. p[5] = <<"seek", "expf">> /\ p[6] = <<"write", "expf", 2>>
  OBVIOUS
<1>7. p[7] = <<"close", "expf">>
  OBVIOUS
<1> HIDE DEF Append5_2
<1> QED
  BY <1>1, <1>3, <1>4, <1>5, <1>6, <1>7

(* The bytes before, behind the first write and behind the second one.       *)
Had == Times(oldLen, 0)
Has == Pair(5, 1, Surplus, 0)
HasAll == Has \o Times(2, 2)

Appended(k, w, bytes) == oldLen \in Nat /\ Stage(Append5_2, k, "tmp.out", w, bytes)
Append0 == Appended(0, 0, Had) /\ Opened(0)
Append1 == Appended(1, 0, Had) /\ Opened(1) /\ Refers("expf", 1) /\ Known(1, "tmp.out", 0, FALSE)
Append2 == Appended(2, 1, Has) /\ Opened(1)
Append3 == Appended(3, 1, Has) /\ Opened(1)
Append4 == Appended(4, 1, Has) /\ Refers("expf", 2) /\ Known(2, "tmp.out", 0, TRUE)
Append5 == Appended(5, 1, Has) /\ Refers("expf", 2) /\ Known(2, "tmp.out", 0, TRUE)
Append6 == Appended(6, 2, HasAll)
Append7 == Appended(7, 2, HasAll)
AppendStage ==
    Append0 \/ Append1 \/ Append2 \/ Append3 \/ Append4 \/ Append5 \/ Append6 \/ Append7

LEMMA SameBytes ==
    ASSUME oldLen' = oldLen
    PROVE  Had' = Had /\ Has' = Has /\ HasAll' = HasAll
  BY DEF Had, Has, HasAll, Surplus

(* What the first write leaves of the old bytes, and the second one adds.    *)
LEMMA FirstWrite ==
    ASSUME oldLen \in Nat
    PROVE  Overlay(Had, 0, 5, 1) = Has
<1>1. PICK h : h = Had
  OBVIOUS
<1>2. PICK k \in Nat : k = Surplus
  BY DEF Surplus
<1>3. Len(h) = oldLen /\ \A i \in 1 .. oldLen : h[i] = 0
  BY <1>1 DEF Had, Times
<1>4. Max({Len(h), 0 + 5}) = 5 + k
  BY <1>2, <1>3, MaxOfTwo DEF Surplus
<1>5. Overlay(h, 0, 5, 1) = [i \in 1 .. 5 + k |-> IF i \in 0 + 1 .. 0 + 5 THEN 1 ELSE h[i]]
  BY <1>4 DEF Overlay
<1>6. \A i \in 1 .. 5 + k : (IF i \in 0 + 1 .. 0 + 5 THEN 1 ELSE h[i]) = IF i <= 5 THEN 1 ELSE 0
  BY <1>2, <1>3 DEF Surplus
<1>7. Overlay(h, 0, 5, 1) = [i \in 1 .. 5 + k |-> IF i <= 5 THEN 1 ELSE 0]
  BY <1>5, <1>6
<1>8. Overlay(h, 0, 5, 1) = Pair(5, 1, k, 0)
  BY <1>7, PairIs
<1> QED
  BY <1>1, <1>2, <1>8 DEF Has

LEMMA WriteAtEnd ==
    ASSUME NEW S, NEW s \in Seq(S), NEW m \in Nat, NEW y
    PROVE  Overlay(s, Len(s), m, y) = s \o Times(m, y)
<1>1. PICK n \in Nat : n = Len(s)
  OBVIOUS
<1>2. PICK t : t = Times(m, y)
  OBVIOUS
<1>3. t \in Seq({y}) /\ Len(t) = m /\ \A i \in 1 .. m : t[i] = y
  BY <1>2 DEF Times
<1>4. Max({n, n + m}) = n + m
  BY MaxOfTwo
<1>5. Overlay(s, n, m, y) = [i \in 1 .. n + m |-> IF i \in n + 1 .. n + m THEN y ELSE s[i]]
  BY <1>1, <1>4 DEF Overlay
<1>6. s \in Seq(S \cup {y}) /\ t \in Seq(S \cup {y})
  BY <1>3
<1>7. PICK u : u = s \o t
  OBVIOUS
<1>8. u \in Seq(S \cup {y}) /\ Len(u) = n + m
      /\ \A i \in 1 .. n + m : u[i] = IF i <= n THEN s[i] ELSE t[i - n]
  <2>1. PICK T : T = S \cup {y}
    OBVIOUS
  <2>2. s \in Seq(T) /\ t \in Seq(T)
    BY <1>6, <2>1
  <2>3. u \in Seq(T) /\ Len(u) = n + m
    <3>1. s \o t \in Seq(T) /\ Len(s \o t) = Len(s) + Len(t)
      BY <2>2
    <3> QED
      BY <1>1, <1>3, <1>7, <3>1
  <2>4. \A i \in 1 .. n + m : u[i] = IF i <= n THEN s[i] ELSE t[i - n]
    BY <1>1, <1>3, <1>7, <2>2
  <2> QED
    BY <2>1, <2>3, <2>4
<1>9. u = [i \in 1 .. n + m |-> u[i]]
  BY <1>8, AsFunction
<1>10. \A i \in 1 .. n + m : u[i] = IF i \in n + 1 .. n + m THEN y ELSE s[i]
  BY <1>3, <1>8
<1>11. u = [i \in 1 .. n + m |-> IF i \in n + 1 .. n + m THEN y ELSE s[i]]
  BY <1>9, <1>10
<1> QED
  BY <1>1, <1>2, <1>5, <1>7, <1>11

LEMMA SecondWrite ==
    ASSUME oldLen \in Nat
    PROVE  Len(Has) \in Nat /\ Overlay(Has, Len(Has), 2, 2) = HasAll
<1>1. PICK h : h = Has
  OBVIOUS
<1>2. PICK k \in Nat : k = Surplus
  BY DEF Surplus
<1>3. h = [i \in 1 .. 5 + k |-> IF i <= 5 THEN 1 ELSE 0]
  BY <1>1, <1>2, PairIs DEF Has
<1>4. h \in Seq({0, 1})
  BY <1>3
<1>5. Overlay(h, Len(h), 2, 2) = h \o Times(2, 2)
  BY <1>4, WriteAtEnd
<1> QED
  BY <1>1, <1>4, <1>5 DEF HasAll

LEMMA AppendNext ==
    ASSUME NEW k \in 0 .. 6, NEW w, NEW bytes, Appended(k, w, bytes)
    PROVE  /\ Head(calls) = Append5_2[k + 1]
           /\ Done => Made(Append5_2, k + 1)' /\ at' = "call"
<1>1. /\ Append5_2 \in Seq({Append5_2[i] : i \in 1 .. 7})
      /\ k \in Nat /\ k < Len(Append5_2) /\ Made(Append5_2, k)
  BY AppendCalls DEF Appended, Stage
<1>2. Head(calls) = Append5_2[k + 1]
  BY <1>1, NextCall
<1>3. Done => Made(Append5_2, k + 1)' /\ at' = "call"
  BY <1>1, Onward
<1> QED
  BY <1>2, <1>3

LEMMA AppendRests ==
    ASSUME Steady, AppendStage, Rests
    PROVE  Goes /\ AppendStage'
<1>0. Had' = Had /\ Has' = Has /\ HasAll' = HasAll /\ oldLen' = oldLen
  BY SameBytes DEF Rests
<1>1. /\ Steady' /\ KeepsBytes /\ KeepsOthers /\ KeepsRefers /\ KeepsKnown
      /\ (\A m : Opened(m) => Opened(m)') /\ calls' = calls /\ at' = "failed"
  BY RestsIs
<1>2. \A k, w, bytes : Appended(k, w, bytes) => Appended(k, w, bytes)'
  BY <1>0, <1>1 DEF Appended, Stage, Made, KeepsBytes
<1>3. AppendStage'
  BY <1>0, <1>1, <1>2 DEF AppendStage, Append0, Append1, Append2, Append3, Append4, Append5, Append6,
     Append7, KeepsRefers, KeepsKnown
<1> QED
  BY <1>1, <1>3 DEF Goes, KeepsOthers

LEMMA Append0Step ==
    ASSUME Steady, Append0, Main, at \in {"call", "failed"}, ~ Rests
    PROVE  Goes /\ Append1'
<1>1. Head(calls) = <<"open", "expf", "tmp.out", FALSE>>
      /\ (Done => Made(Append5_2, 1)' /\ at' = "call")
  <2>1. 0 \in 0 .. 6 /\ (\E w, bytes : Appended(0, w, bytes)) /\ 0 + 1 = 1
    BY DEF Append0
  <2> QED
    BY <2>1, AppendNext, AppendCalls
<1>2. Arg(2) = "expf" /\ Arg(3) = "tmp.out" /\ Head(calls)[1] = "open" /\ Arg(4) = FALSE
  BY <1>1, FourOf, Zenon
<1>3. Open
  BY <1>2, OneKind
<1>4. /\ "expf" \in Handles /\ "tmp.out" \in Files /\ FALSE \in BOOLEAN
      /\ 0 \in Nat /\ Opened(0) /\ 1 = 0 + 1
  BY DEF Handles, Variables, Files, Append0
<1>5. /\ Steady' /\ Done /\ KeepsBytes /\ KeepsOthers
      /\ Opened(1)' /\ Known(1, "tmp.out", 0, FALSE)' /\ Refers("expf", 1)'
  BY <1>2, <1>3, <1>4, OpenIs
<1>6. Appended(1, 0, Had)'
  <2>1. oldLen' = oldLen /\ Had' = Had /\ Has' = Has /\ HasAll' = HasAll
    BY <1>5, SameBytes DEF KeepsOthers
  <2> QED
    BY <1>1, <1>5, <2>1 DEF Append0, Appended, Stage, KeepsBytes
<1> QED
  BY <1>1, <1>5, <1>6 DEF Goes, KeepsOthers, Append1

LEMMA Append1Step ==
    ASSUME Steady, Append1, Main, at \in {"call", "failed"}, ~ Rests
    PROVE  Goes /\ Append2'
<1>1. Head(calls) = <<"write", "expf", 5>>
      /\ (Done => Made(Append5_2, 2)' /\ at' = "call")
  <2>1. 1 \in 0 .. 6 /\ (\E w, bytes : Appended(1, w, bytes)) /\ 1 + 1 = 2
    BY DEF Append1
  <2> QED
    BY <2>1, AppendNext, AppendCalls
<1>2. Arg(2) = "expf" /\ Arg(3) = 5 /\ Head(calls)[1] = "write"
  BY <1>1, ThreeOf
<1>3. Write
  BY <1>2, OneKind
<1>4. Refers(Arg(2), 1) /\ Known(1, "tmp.out", 0, FALSE)
  BY <1>2 DEF Append1
<1>5. writes = 0 /\ content["tmp.out"] = Had /\ oldLen \in Nat
  BY DEF Append1, Appended, Stage
<1>6. /\ Steady' /\ Done /\ KeepsOthers /\ KeepsRefers
      /\ Known(1, "tmp.out", 0 + 5, FALSE)' /\ KeepsKnownBut(1)
      /\ (\A m : Opened(m) => Opened(m)')
      /\ content'["tmp.out"] = Overlay(content["tmp.out"], 0, 5, writes + 1)
      /\ writes' = writes + 1
  <2>1. 5 \in Nat /\ 0 \in Nat /\ FALSE \in BOOLEAN
    OBVIOUS
  <2>2. 0 = IF FALSE THEN Len(content["tmp.out"]) ELSE 0
    OBVIOUS
  <2> QED
    BY <1>2, <1>3, <1>4, <2>1, <2>2, WriteIs
<1>7. writes' = 1 /\ content'["tmp.out"] = Has
  <2>1. Overlay(Had, 0, 5, 1) = Has
    BY <1>5, FirstWrite
  <2>2. 0 + 1 = 1
    OBVIOUS
  <2> QED
    BY <1>5, <1>6, <2>1, <2>2
<1>8. Appended(2, 1, Has)'
  <2>1. oldLen' = oldLen /\ Had' = Had /\ Has' = Has /\ HasAll' = HasAll
    BY <1>6, SameBytes DEF KeepsOthers
  <2> QED
    BY <1>1, <1>5, <1>6, <1>7, <2>1 DEF Appended, Stage
<1> QED
  BY <1>1, <1>6, <1>8 DEF Goes, KeepsOthers, Append1, Append2

LEMMA Append2Step ==
    ASSUME Steady, Append2, Main, at \in {"call", "failed"}, ~ Rests
    PROVE  Goes /\ Append3'
<1>1. Head(calls) = <<"close", "expf">>
      /\ (Done => Made(Append5_2, 3)' /\ at' = "call")
  <2>1. 2 \in 0 .. 6 /\ (\E w, bytes : Appended(2, w, bytes)) /\ 2 + 1 = 3
    BY DEF Append2
  <2> QED
    BY <2>1, AppendNext, AppendCalls
<1>2. Head(calls)[1] = "close"
  BY <1>1, TwoOf, Zenon
<1>3. Close
  BY <1>2, OneKind
<1>4. /\ Steady' /\ Done /\ KeepsBytes /\ program' = program /\ oldLen' = oldLen
      /\ others' \subseteq others
      /\ \A m : Opened(m) => Opened(m)'
  BY <1>3, CloseIs
<1>6. Appended(3, 1, Has)'
  <2>1. oldLen' = oldLen /\ Had' = Had /\ Has' = Has /\ HasAll' = HasAll
    BY <1>4, SameBytes DEF KeepsOthers
  <2> QED
    BY <1>1, <1>4, <2>1 DEF Append2, Appended, Stage, KeepsBytes
<1> QED
  BY <1>1, <1>4, <1>6 DEF Goes, KeepsOthers, Append2, Append3

LEMMA Append3Step ==
    ASSUME Steady, Append3, Main, at \in {"call", "failed"}, ~ Rests
    PROVE  Goes /\ Append4'
<1>1. Head(calls) = <<"open", "expf", "tmp.out", TRUE>>
      /\ (Done => Made(Append5_2, 4)' /\ at' = "call")
  <2>1. 3 \in 0 .. 6 /\ (\E w, bytes : Appended(3, w, bytes)) /\ 3 + 1 = 4
    BY DEF Append3
  <2> QED
    BY <2>1, AppendNext, AppendCalls
<1>2. Arg(2) = "expf" /\ Arg(3) = "tmp.out" /\ Head(calls)[1] = "open" /\ Arg(4) = TRUE
  BY <1>1, FourOf, Zenon
<1>3. Open
  BY <1>2, OneKind
<1>4. /\ "expf" \in Handles /\ "tmp.out" \in Files /\ TRUE \in BOOLEAN
      /\ 1 \in Nat /\ Opened(1) /\ 2 = 1 + 1
  BY DEF Handles, Variables, Files, Append3
<1>5. /\ Steady' /\ Done /\ KeepsBytes /\ KeepsOthers
      /\ Opened(2)' /\ Known(2, "tmp.out", 0, TRUE)' /\ Refers("expf", 2)'
  BY <1>2, <1>3, <1>4, OpenIs
<1>6. Appended(4, 1, Has)'
  <2>1. oldLen' = oldLen /\ Had' = Had /\ Has' = Has /\ HasAll' = HasAll
    BY <1>5, SameBytes DEF KeepsOthers
  <2> QED
    BY <1>1, <1>5, <2>1 DEF Append3, Appended, Stage, KeepsBytes
<1> QED
  BY <1>1, <1>5, <1>6 DEF Goes, KeepsOthers, Append4

LEMMA Append4Step ==
    ASSUME Steady, Append4, Main, at \in {"call", "failed"}, ~ Rests
    PROVE  Goes /\ Append5'
<1>1. Head(calls) = <<"seek", "expf">>
      /\ (Done => Made(Append5_2, 5)' /\ at' = "call")
  <2>1. 4 \in 0 .. 6 /\ (\E w, bytes : Appended(4, w, bytes)) /\ 4 + 1 = 5
    BY DEF Append4
  <2> QED
    BY <2>1, AppendNext, AppendCalls
<1>2. Arg(2) = "expf" /\ Head(calls)[1] = "seek"
  BY <1>1, TwoOf, Zenon
<1>3. SeekStart
  BY <1>2, OneKind
<1>4. Refers(Arg(2), 2) /\ Known(2, "tmp.out", 0, TRUE)
  BY <1>2 DEF Append4
<1>5. /\ Steady' /\ Done /\ KeepsBytes /\ KeepsOthers /\ KeepsRefers
      /\ Known(2, "tmp.out", 0, TRUE)'
  BY <1>3, <1>4, SeekIs
<1>6. Appended(5, 1, Has)'
  <2>1. oldLen' = oldLen /\ Had' = Had /\ Has' = Has /\ HasAll' = HasAll
    BY <1>5, SameBytes DEF KeepsOthers
  <2> QED
    BY <1>1, <1>5, <2>1 DEF Append4, Appended, Stage, KeepsBytes
<1> QED
  BY <1>1, <1>5, <1>6 DEF Goes, KeepsOthers, Append4, Append5, KeepsRefers

LEMMA Append5Step ==
    ASSUME Steady, Append5, Main, at \in {"call", "failed"}, ~ Rests
    PROVE  Goes /\ Append6'
<1>1. Head(calls) = <<"write", "expf", 2>>
      /\ (Done => Made(Append5_2, 6)' /\ at' = "call")
  <2>1. 5 \in 0 .. 6 /\ (\E w, bytes : Appended(5, w, bytes)) /\ 5 + 1 = 6
    BY DEF Append5
  <2> QED
    BY <2>1, AppendNext, AppendCalls
<1>2. Arg(2) = "expf" /\ Arg(3) = 2 /\ Head(calls)[1] = "write"
  BY <1>1, ThreeOf
<1>3. Write
  BY <1>2, OneKind
<1>4. Refers(Arg(2), 2) /\ Known(2, "tmp.out", 0, TRUE)
  BY <1>2 DEF Append5
<1>5. writes = 1 /\ content["tmp.out"] = Has /\ oldLen \in Nat
  BY DEF Append5, Appended, Stage
<1>6. /\ Steady' /\ Done /\ KeepsOthers
      /\ (\A m : Opened(m) => Opened(m)')
      /\ content'["tmp.out"] = Overlay(content["tmp.out"], Len(Has), 2, writes + 1)
      /\ writes' = writes + 1
  <2>1. 2 \in Nat /\ Len(Has) \in Nat /\ TRUE \in BOOLEAN
    BY <1>5, SecondWrite
  <2>2. Len(Has) = IF TRUE THEN Len(content["tmp.out"]) ELSE 0
    BY <1>5
  <2>3. PICK l \in Nat : l = Len(Has)
    BY <2>1
  <2>4. l = IF TRUE THEN Len(content["tmp.out"]) ELSE 0
    BY <2>2, <2>3
  <2>5. /\ Steady' /\ Done /\ KeepsOthers /\ KeepsRefers
        /\ Known(2, "tmp.out", l + 2, TRUE)' /\ KeepsKnownBut(2)
        /\ (\A m : Opened(m) => Opened(m)')
        /\ content'["tmp.out"] = Overlay(content["tmp.out"], l, 2, writes + 1)
        /\ writes' = writes + 1
    BY <1>2, <1>3, <1>4, <2>1, <2>3, <2>4, WriteIs, ZenonT(60)
  <2> QED
    BY <2>3, <2>5
<1>7. writes' = 2 /\ content'["tmp.out"] = HasAll
  <2>1. Overlay(Has, Len(Has), 2, 2) = HasAll
    BY <1>5, SecondWrite
  <2>2. 1 + 1 = 2
    OBVIOUS
  <2> QED
    BY <1>5, <1>6, <2>1, <2>2
<1>8. Appended(6, 2, HasAll)'
  <2>1. oldLen' = oldLen /\ Had' = Had /\ Has' = Has /\ HasAll' = HasAll
    BY <1>6, SameBytes DEF KeepsOthers
  <2> QED
    BY <1>1, <1>5, <1>6, <1>7, <2>1 DEF Appended, Stage
<1> QED
  BY <1>1, <1>6, <1>8 DEF Goes, KeepsOthers, Append5, Append6

LEMMA Append6Step ==
    ASSUME Steady, Append6, Main, at \in {"call", "failed"}, ~ Rests
    PROVE  Goes /\ Append7'
<1>1. Head(calls) = <<"close", "expf">>
      /\ (Done => Made(Append5_2, 7)' /\ at' = "call")
  <2>1. 6 \in 0 .. 6 /\ (\E w, bytes : Appended(6, w, bytes)) /\ 6 + 1 = 7
    BY DEF Append6
  <2> QED
    BY <2>1, AppendNext, AppendCalls
<1>2. Head(calls)[1] = "close"
  BY <1>1, TwoOf, Zenon
<1>3. Close
  BY <1>2, OneKind
<1>4. /\ Steady' /\ Done /\ KeepsBytes /\ program' = program /\ oldLen' = oldLen
      /\ others' \subseteq others
      /\ \A m : Opened(m) => Opened(m)'
  BY <1>3, CloseIs
<1>6. Appended(7, 2, HasAll)'
  <2>1. oldLen' = oldLen /\ Had' = Had /\ Has' = Has /\ HasAll' = HasAll
    BY <1>4, SameBytes DEF KeepsOthers
  <2> QED
    BY <1>1, <1>4, <2>1 DEF Append6, Appended, Stage, KeepsBytes
<1> QED
  BY <1>1, <1>4, <1>6 DEF Goes, KeepsOthers, Append6, Append7

LEMMA AppendStep ==
    ASSUME Steady, AppendStage, Main, at \in {"call", "failed"}
    PROVE  Goes /\ AppendStage'
<1>1. CASE Rests
  BY <1>1, AppendRests
<1>2. CASE ~ Rests
  <2>1. ~ Append7
    <3>1. ASSUME Append7 PROVE FALSE
      <4>1. Made(Append5_2, Len(Append5_2))
        BY <3>1, AppendCalls DEF Append7, Appended, Stage
      <4>2. calls = <<>>
        BY <4>1, AppendCalls, NoCallLeft
      <4> QED
        BY <1>2, <4>2, Kinds, CallsLeft
    <3> QED
      BY <3>1
  <2>2. Append0 \/ Append1 \/ Append2 \/ Append3 \/ Append4 \/ Append5 \/ Append6
    BY <2>1 DEF AppendStage
  <2>3. Goes /\ (Append1' \/ Append2' \/ Append3' \/ Append4' \/ Append5' \/ Append6' \/ Append7')
    BY <1>2, <2>2, Append0Step, Append1Step, Append2Step, Append3Step, Append4Step, Append5Step,
       Append6Step
  <2> QED
    BY <2>3 DEF AppendStage
<1> QED
  BY <1>1, <1>2

-----------------------------------------------------------------------------
(* 5_5.c: both descriptors refer to the description that open made.         *)

LEMMA SharedCalls ==
    /\ SharedOffset \in Seq({SharedOffset[i] : i \in 1 .. 7})
    /\ Len(SharedOffset) = 7
    /\ SharedOffset[1] = <<"open", "fd", "hellow", FALSE>>
    /\ SharedOffset[2] = <<"dup", "dfd", "fd">>
    /\ SharedOffset[3] = <<"same", "fd", "dfd">>
    /\ SharedOffset[4] = <<"write", "fd", 5>>
    /\ SharedOffset[5] = <<"same", "fd", "dfd">>
    /\ SharedOffset[6] = <<"write", "dfd", 3>>
    /\ SharedOffset[7] = <<"same", "fd", "dfd">>
<1> DEFINE p == SharedOffset
<1> USE DEF SharedOffset
<1>1. Len(p) = 7 /\ DOMAIN p = 1 .. 7
  OBVIOUS
<1>2. p = [i \in 1 .. 7 |-> p[i]]
  OBVIOUS
<1>3. p \in Seq({p[i] : i \in 1 .. 7})
  <2> HIDE DEF p
  <2> QED
    BY <1>1, <1>2
<1>4. p[1] = <<"open", "fd", "hellow", FALSE>> /\ p[2] = <<"dup", "dfd", "fd">>
  OBVIOUS
<1>5. p[3] = <<"same", "fd", "dfd">> /\ p[4] = <<"write", "fd", 5>>
  OBVIOUS
<1>6. p[5] = <<"same", "fd", "dfd">> /\ p[6] = <<"write", "dfd", 3>>
  OBVIOUS
<1>7. p[7] = <<"same", "fd", "dfd">>
  OBVIOUS
<1> HIDE DEF SharedOffset
<1> QED
  BY <1>1, <1>3, <1>4, <1>5, <1>6, <1>7

Shares(o) == o \in Nat /\ Refers("fd", 1) /\ Refers("dfd", 1) /\ Known(1, "hellow", o, FALSE)
Shared0 == Made(SharedOffset, 0) /\ Opened(0)
Shared1 == Made(SharedOffset, 1) /\ Refers("fd", 1) /\ Known(1, "hellow", 0, FALSE)
SharedAt(k) == Made(SharedOffset, k) /\ \E o : Shares(o)
SharedStage == Shared0 \/ Shared1 \/ \E k \in 2 .. 7 : SharedAt(k)

LEMMA SharedNext ==
    ASSUME NEW k \in 0 .. 6, Made(SharedOffset, k)
    PROVE  /\ Head(calls) = SharedOffset[k + 1]
           /\ Done => Made(SharedOffset, k + 1)' /\ at' = "call"
<1>1. /\ SharedOffset \in Seq({SharedOffset[i] : i \in 1 .. 7})
      /\ k \in Nat /\ k < Len(SharedOffset)
  BY SharedCalls
<1>2. Head(calls) = SharedOffset[k + 1]
  BY <1>1, NextCall
<1>3. Done => Made(SharedOffset, k + 1)' /\ at' = "call"
  BY <1>1, Onward
<1> QED
  BY <1>2, <1>3

LEMMA SharedRests ==
    ASSUME Steady, SharedStage, Rests
    PROVE  Goes /\ SharedStage'
<1>1. /\ Steady' /\ KeepsBytes /\ KeepsOthers /\ KeepsRefers /\ KeepsKnown
      /\ (\A m : Opened(m) => Opened(m)') /\ calls' = calls /\ at' = "failed"
  BY RestsIs
<1>2. \A k : Made(SharedOffset, k) => Made(SharedOffset, k)'
  BY <1>1 DEF Made
<1>3. \A o : Shares(o) => Shares(o)'
  BY <1>1 DEF Shares, KeepsRefers, KeepsKnown
<1>4. SharedStage'
  BY <1>1, <1>2, <1>3 DEF SharedStage, Shared0, Shared1, SharedAt, KeepsRefers, KeepsKnown
<1> QED
  BY <1>1, <1>4 DEF Goes, KeepsOthers

LEMMA Shared0Step ==
    ASSUME Steady, Shared0, Main, at \in {"call", "failed"}, ~ Rests
    PROVE  Goes /\ Shared1'
<1>1. Head(calls) = <<"open", "fd", "hellow", FALSE>>
      /\ (Done => Made(SharedOffset, 1)' /\ at' = "call")
  <2>1. 0 \in 0 .. 6 /\ Made(SharedOffset, 0) /\ 0 + 1 = 1
    BY DEF Shared0
  <2> QED
    BY <2>1, SharedNext, SharedCalls
<1>2. Arg(2) = "fd" /\ Arg(3) = "hellow" /\ Head(calls)[1] = "open" /\ Arg(4) = FALSE
  BY <1>1, FourOf, Zenon
<1>3. Open
  BY <1>2, OneKind
<1>4. /\ "fd" \in Handles /\ "hellow" \in Files /\ FALSE \in BOOLEAN
      /\ 0 \in Nat /\ Opened(0) /\ 1 = 0 + 1
  BY DEF Handles, Variables, Files, Shared0
<1>5. /\ Steady' /\ Done /\ KeepsBytes /\ KeepsOthers
      /\ Opened(1)' /\ Known(1, "hellow", 0, FALSE)' /\ Refers("fd", 1)'
  BY <1>2, <1>3, <1>4, OpenIs
<1> QED
  BY <1>1, <1>5 DEF Goes, KeepsOthers, Shared1

LEMMA Shared1Step ==
    ASSUME Steady, Shared1, Main, at \in {"call", "failed"}, ~ Rests
    PROVE  Goes /\ SharedAt(2)'
<1>1. Head(calls) = <<"dup", "dfd", "fd">>
      /\ (Done => Made(SharedOffset, 2)' /\ at' = "call")
  <2>1. 1 \in 0 .. 6 /\ Made(SharedOffset, 1) /\ 1 + 1 = 2
    BY DEF Shared1
  <2> QED
    BY <2>1, SharedNext, SharedCalls
<1>2. Arg(2) = "dfd" /\ Arg(3) = "fd" /\ Head(calls)[1] = "dup"
  BY <1>1, ThreeOf, Zenon
<1>3. Dup
  BY <1>2, OneKind
<1>4. "dfd" \in Handles /\ 1 # Free /\ Refers(Arg(3), 1)
  BY <1>2 DEF Handles, Variables, Free, Shared1
<1>5. /\ Steady' /\ Done /\ KeepsBytes /\ KeepsOthers /\ KeepsKnown
      /\ (\A m : Opened(m) => Opened(m)') /\ Refers("dfd", 1)'
      /\ \A u, k : u # "dfd" /\ k # Free /\ Refers(u, k) => Refers(u, k)'
  BY <1>2, <1>3, <1>4, DupIs
<1>6. Shares(0)'
  <2>1. Refers("fd", 1)'
    BY <1>4, <1>5 DEF Shared1
  <2> QED
    BY <1>5, <2>1 DEF Shares, Shared1, KeepsKnown
<1> QED
  BY <1>1, <1>5, <1>6 DEF Goes, KeepsOthers, SharedAt

(* The comparison finds one description.                                    *)
LEMMA CompareIs ==
    ASSUME Steady, Compare, NEW n, Refers(Arg(2), n), Refers(Arg(3), n)
    PROVE  /\ Steady' /\ Done /\ KeepsBytes /\ KeepsOthers /\ KeepsRefers /\ KeepsKnown
<1>1. table[Fd(2)] = n /\ table[Fd(3)] = n
  BY DEF Refers, Fd
<1>2. Done
  BY <1>1 DEF Compare, Agree
<1>3. table' = table /\ var' = var /\ descs' = descs /\ KeepsBytes /\ KeepsOthers
  BY DEF Compare, kernel, thread, KeepsBytes, KeepsOthers
<1> QED
  BY <1>2, <1>3 DEF Steady, KeepsBytes, KeepsRefers, KeepsKnown, Refers, Known

LEMMA SharedCompare ==
    ASSUME Steady, NEW k \in {2, 4, 6}, SharedAt(k), Main, at \in {"call", "failed"}, ~ Rests
    PROVE  Goes /\ SharedAt(k + 1)'
<1>1. Head(calls) = <<"same", "fd", "dfd">>
      /\ (Done => Made(SharedOffset, k + 1)' /\ at' = "call")
  <2>1. k \in 0 .. 6 /\ Made(SharedOffset, k)
    BY DEF SharedAt
  <2>2. SharedOffset[k + 1] = <<"same", "fd", "dfd">>
    BY SharedCalls
  <2> QED
    BY <2>1, <2>2, SharedNext
<1>2. Arg(2) = "fd" /\ Arg(3) = "dfd" /\ Head(calls)[1] = "same"
  BY <1>1, ThreeOf, Zenon
<1>3. Compare
  BY <1>2, OneKind
<1>4. PICK o : Shares(o)
  BY DEF SharedAt
<1>5. /\ Steady' /\ Done /\ KeepsBytes /\ KeepsOthers /\ KeepsRefers /\ KeepsKnown
  <2>1. Refers(Arg(2), 1) /\ Refers(Arg(3), 1)
    BY <1>2, <1>4 DEF Shares
  <2> QED
    BY <1>3, <2>1, CompareIs
<1>6. Shares(o)'
  BY <1>4, <1>5 DEF Shares, KeepsRefers, KeepsKnown
<1>7. Made(SharedOffset, k + 1)'
  BY <1>1, <1>5
<1> QED
  BY <1>1, <1>5, <1>6, <1>7 DEF Goes, KeepsOthers, SharedAt

LEMMA SharedWrite ==
    ASSUME Steady, NEW k \in {3, 5}, SharedAt(k), Main, at \in {"call", "failed"}, ~ Rests
    PROVE  Goes /\ SharedAt(k + 1)'
<1>1. PICK v \in {"fd", "dfd"}, l \in Nat : Head(calls) = <<"write", v, l>>
  <2>1. k \in 0 .. 6 /\ Made(SharedOffset, k)
    BY DEF SharedAt
  <2>2. Head(calls) = SharedOffset[k + 1]
    BY <2>1, SharedNext
  <2>3. CASE k = 3
    <3>1. Head(calls) = <<"write", "fd", 5>> /\ 5 \in Nat
      BY <2>2, <2>3, SharedCalls
    <3> QED
      BY <3>1
  <2>4. CASE k = 5
    <3>1. Head(calls) = <<"write", "dfd", 3>> /\ 3 \in Nat
      BY <2>2, <2>4, SharedCalls
    <3> QED
      BY <3>1
  <2> QED
    BY <2>3, <2>4
<1>2. Done => Made(SharedOffset, k + 1)' /\ at' = "call"
  <2>1. k \in 0 .. 6 /\ Made(SharedOffset, k)
    BY DEF SharedAt
  <2> QED
    BY <2>1, SharedNext
<1>3. Arg(2) = v /\ Arg(3) = l /\ Head(calls)[1] = "write"
  BY <1>1, ThreeOf
<1>4. Write
  BY <1>3, OneKind
<1>5. PICK o : Shares(o)
  BY DEF SharedAt
<1>6. /\ Steady' /\ Done /\ KeepsOthers /\ KeepsRefers
      /\ Known(1, "hellow", o + l, FALSE)' /\ KeepsKnownBut(1)
      /\ (\A m : Opened(m) => Opened(m)')
      /\ content'["hellow"] = Overlay(content["hellow"], o, l, writes + 1)
      /\ writes' = writes + 1
  <2>1. Refers(Arg(2), 1) /\ o \in Nat /\ Known(1, "hellow", o, FALSE)
    BY <1>3, <1>5 DEF Shares
  <2>2. PICK a \in BOOLEAN : a = FALSE
    OBVIOUS
  <2>3. o = (IF a THEN Len(content["hellow"]) ELSE o) /\ Known(1, "hellow", o, a)
    BY <2>1, <2>2
  <2>4. /\ Steady' /\ Done /\ KeepsOthers /\ KeepsRefers
        /\ Known(1, "hellow", o + l, a)' /\ KeepsKnownBut(1)
        /\ (\A m : Opened(m) => Opened(m)')
        /\ content'["hellow"] = Overlay(content["hellow"], o, l, writes + 1)
        /\ writes' = writes + 1
    BY <1>3, <1>4, <2>1, <2>3, WriteIs
  <2> QED
    BY <2>2, <2>4
<1>7. Shares(o + l)'
  <2>1. PICK q \in Nat : q = o + l
    BY <1>5 DEF Shares
  <2>2. Refers("fd", 1)' /\ Refers("dfd", 1)'
    BY <1>5, <1>6 DEF Shares, KeepsRefers
  <2>3. Shares(q)'
    BY <1>6, <2>1, <2>2 DEF Shares
  <2> QED
    BY <2>1, <2>3
<1>8. Made(SharedOffset, k + 1)'
  BY <1>2, <1>6
<1> QED
  BY <1>2, <1>6, <1>7, <1>8 DEF Goes, KeepsOthers, SharedAt

LEMMA SharedStep ==
    ASSUME Steady, SharedStage, Main, at \in {"call", "failed"}
    PROVE  Goes /\ SharedStage'
<1>1. CASE Rests
  BY <1>1, SharedRests
<1>2. CASE ~ Rests /\ Shared0
  BY <1>2, Shared0Step DEF SharedStage
<1>3. CASE ~ Rests /\ Shared1
  <2>1. 2 \in 2 .. 7
    OBVIOUS
  <2> QED
    BY <1>3, <2>1, Shared1Step DEF SharedStage
<1>4. CASE ~ Rests /\ \E k \in 2 .. 7 : SharedAt(k)
  <2>1. PICK k \in 2 .. 7 : SharedAt(k)
    BY <1>4
  <2>2. k # 7
    <3>1. ASSUME k = 7 PROVE FALSE
      <4>1. Made(SharedOffset, Len(SharedOffset))
        BY <2>1, <3>1, SharedCalls DEF SharedAt
      <4>2. calls = <<>>
        BY <4>1, SharedCalls, NoCallLeft
      <4> QED
        BY <1>4, <4>2, Kinds, CallsLeft
    <3> QED
      BY <3>1
  <2>3. k + 1 \in 2 .. 7 /\ (k \in {2, 4, 6} \/ k \in {3, 5})
    BY <2>2
  <2>4. Goes /\ SharedAt(k + 1)'
    BY <1>4, <2>1, <2>3, SharedCompare, SharedWrite
  <2>5. \E n \in 2 .. 7 : SharedAt(n)'
    BY <2>3, <2>4
  <2> QED
    BY <2>4, <2>5 DEF SharedStage
<1> QED
  BY <1>1, <1>2, <1>3, <1>4 DEF SharedStage

-----------------------------------------------------------------------------
(* The programs that only open, duplicate and close compare nothing.        *)

NothingToCompare == \E S : calls \in Seq(S) /\ \A c \in S : c[1] # "same"

(* Every program is where its calls have brought it; those that write are   *)
(* alone.                                                                   *)
Writing == program \in {"three", "append", "shared"}
Course ==
    /\ program = "three" => ThreeStage
    /\ program = "append" => AppendStage
    /\ program = "shared" => SharedStage
    /\ Writing => Steady /\ at \in {"call", "failed"} /\ others = {}
    /\ ~ Writing => NothingToCompare /\ at # "mismatch"
    /\ at \notin {"call", "failed", "mismatch"} => calls # <<>>

LEMMA MadeNone ==
    ASSUME NEW S, NEW p \in Seq(S), calls = p
    PROVE  Made(p, 0)
<1>1. p = SubSeq(p, 1, Len(p))
  OBVIOUS
<1>2. 0 + 1 = 1
  OBVIOUS
<1> QED
  BY <1>1, <1>2 DEF Made

LEMMA NoneSame ==
    ASSUME NEW n \in Nat, NEW p, p = [i \in 1 .. n |-> p[i]], calls = p,
           \A i \in 1 .. n : p[i][1] # "same"
    PROVE  NothingToCompare
<1>1. PICK S : S = {p[i] : i \in 1 .. n}
  OBVIOUS
<1>2. p \in Seq(S)
  BY <1>1
<1>3. \A c \in S : c[1] # "same"
  BY <1>1
<1> QED
  BY <1>2, <1>3 DEF NothingToCompare

LEMMA CourseInit == ASSUME Init PROVE Course
<1>1. /\ calls \in Programs[program] /\ at = "call" /\ others = {} /\ writes = 0 /\ descs = <<>>
      /\ content = [f \in Files |-> Leftover(f)]
  BY DEF Init
<1>2. Steady
  <2>1. var = [v \in Variables \cup DOMAIN Literals |->
                 IF v \in Variables THEN -1 ELSE Literals[v]]
        /\ table = [f \in Fds |-> IF f < 3 THEN Foreign ELSE Free]
    BY DEF Init
  <2>2. var = [v \in Handles |-> var[v]]
    <3> HIDE DEF Handles
    <3>1. PICK H : H = Handles
      OBVIOUS
    <3>2. var = [v \in H |-> IF v \in Variables THEN -1 ELSE Literals[v]]
      BY <2>1, <3>1 DEF Handles
    <3>3. var = [v \in H |-> var[v]]
      BY <3>2
    <3> QED
      BY <3>1, <3>3
  <2>3. table = [f \in Fds |-> table[f]]
    BY <2>1
  <2>4. content = [f \in Files |-> content[f]]
    BY <1>1
  <2>5. descs \in Seq([file : Files, offset : Nat, append : BOOLEAN])
    BY <1>1
  <2> QED
    BY <2>2, <2>3, <2>4, <2>5 DEF Steady
<1>3. Opened(0)
  BY <1>1 DEF Opened
<1>4. program \in {"using_dup", "using_dup2", "append", "shared", "three", "dup2_fd"}
  BY DEF Init, Programs
<1>5. CASE program = "three"
  <2>1. calls = ThreeDescriptors
    BY <1>1, <1>5 DEF Programs
  <2>2. Made(ThreeDescriptors, 0)
    BY <2>1, ThreeCalls, MadeNone
  <2>3. content["file"] = <<>>
    BY <1>1 DEF Files, Leftover
  <2>4. Three0
    BY <1>1, <1>3, <2>2, <2>3 DEF Three0, Three, Stage
  <2> QED
    BY <1>1, <1>2, <1>5, <2>4 DEF Course, ThreeStage, Writing
<1>6. CASE program = "append"
  <2>1. calls = Append5_2
    BY <1>1, <1>6 DEF Programs
  <2>2. Made(Append5_2, 0)
    BY <2>1, AppendCalls, MadeNone
  <2>3. content["tmp.out"] = Had /\ oldLen \in Nat
    <3>1. oldLen \in OldLengths
      BY <1>6 DEF Init
    <3> QED
      BY <1>1, <3>1, DescriptorsAssumption DEF Files, Leftover, Had
  <2>4. Append0
    BY <1>1, <1>3, <2>2, <2>3 DEF Append0, Appended, Stage
  <2> QED
    BY <1>1, <1>2, <1>6, <2>4 DEF Course, AppendStage, Writing
<1>7. CASE program = "shared"
  <2>1. calls = SharedOffset
    BY <1>1, <1>7 DEF Programs
  <2>2. Made(SharedOffset, 0)
    BY <2>1, SharedCalls, MadeNone
  <2>3. Shared0
    BY <1>3, <2>2 DEF Shared0
  <2> QED
    BY <1>1, <1>2, <1>7, <2>3 DEF Course, SharedStage, Writing
<1>8. CASE program \in {"using_dup", "using_dup2", "dup2_fd"}
  <2>1. NothingToCompare
    <3>1. CASE program = "using_dup"
      <4>1. calls = UsingDup
        BY <1>1, <3>1 DEF Programs
      <4>2. UsingDup = [i \in 1 .. 7 |-> UsingDup[i]]
        BY DEF UsingDup
      <4>3. \A i \in 1 .. 7 : UsingDup[i][1] # "same"
        <5>1. UsingDup[1][1] = "open" /\ UsingDup[2][1] = "dup" /\ UsingDup[3][1] = "dup"
          BY DEF UsingDup
        <5>2. UsingDup[4][1] = "open" /\ UsingDup[5][1] = "close" /\ UsingDup[6][1] = "dup"
          BY DEF UsingDup
        <5>3. UsingDup[7][1] = "close"
          BY DEF UsingDup
        <5> QED
          BY <5>1, <5>2, <5>3
      <4> QED
        BY <4>1, <4>2, <4>3, NoneSame, Zenon
    <3>2. CASE program = "using_dup2"
      <4>1. calls = UsingDup2
        BY <1>1, <3>2 DEF Programs
      <4>2. UsingDup2 = [i \in 1 .. 5 |-> UsingDup2[i]]
        BY DEF UsingDup2
      <4>3. \A i \in 1 .. 5 : UsingDup2[i][1] # "same"
        <5>1. UsingDup2[1][1] = "open" /\ UsingDup2[2][1] = "dup2" /\ UsingDup2[3][1] = "dup2"
          BY DEF UsingDup2
        <5>2. UsingDup2[4][1] = "close" /\ UsingDup2[5][1] = "dup2"
          BY DEF UsingDup2
        <5> QED
          BY <5>1, <5>2
      <4> QED
        BY <4>1, <4>2, <4>3, NoneSame
    <3>3. CASE program = "dup2_fd"
      <4>1. PICK a \in Names, b \in Names, c \in Names, d \in Names : calls = TwoCalls(a, b, c, d)
        BY <1>1, <3>3 DEF Programs
      <4>2. PICK p : p = TwoCalls(a, b, c, d)
        OBVIOUS
      <4>3. p = [i \in 1 .. 4 |-> p[i]]
        BY <4>2 DEF TwoCalls
      <4>4. p[1][1] = "open" /\ p[2][1] = "open" /\ p[3][1] = "dup2" /\ p[4][1] = "dup2"
        BY <4>2 DEF TwoCalls
      <4>5. \A i \in 1 .. 4 : p[i][1] # "same"
        BY <4>4
      <4>6. calls = p /\ 4 \in Nat
        BY <4>1, <4>2
      <4> QED
        BY <4>3, <4>5, <4>6, NoneSame, Zenon
    <3> QED
      BY <1>8, <3>1, <3>2, <3>3
  <2> QED
    BY <1>1, <1>8, <2>1 DEF Course, Writing
<1> QED
  BY <1>4, <1>5, <1>6, <1>7, <1>8

LEMMA WritingStep ==
    ASSUME Course, Writing, Main
    PROVE  Course'
<1>1. Steady /\ at \in {"call", "failed"} /\ others = {}
  BY DEF Course
<1>2. CASE program = "three"
  <2>1. Goes /\ ThreeStage'
    BY <1>1, <1>2, ThreeStep DEF Course
  <2> QED
    BY <1>1, <1>2, <2>1 DEF Course, Goes, Writing
<1>3. CASE program = "append"
  <2>1. Goes /\ AppendStage'
    BY <1>1, <1>3, AppendStep DEF Course
  <2> QED
    BY <1>1, <1>3, <2>1 DEF Course, Goes, Writing
<1>4. CASE program = "shared"
  <2>1. Goes /\ SharedStage'
    BY <1>1, <1>4, SharedStep DEF Course
  <2> QED
    BY <1>1, <1>4, <2>1 DEF Course, Goes, Writing
<1> QED
  BY <1>2, <1>3, <1>4 DEF Writing

LEMMA DuplicatingStep ==
    ASSUME Course, ~ Writing, Next
    PROVE  Course'
<1>1. PICK S : calls \in Seq(S) /\ \A c \in S : c[1] # "same"
  BY DEF Course, NothingToCompare
<1>2. program' = program /\ (calls' = calls \/ (calls # <<>> /\ Done))
  <2>1. program' = program
    BY DEF Next, Main, Open, Close, Dup, Write, SeekStart, Compare, CallFails, Dup2Check,
       Dup2Close, Dup2Dup, Dup2Busy, Dup2Done, Duplicate2, OtherOpens, OtherCloses
  <2>2. CASE Open \/ Close \/ Dup \/ Write \/ SeekStart \/ Compare
    <3>1. calls # <<>>
      BY <2>2, CallsLeft
    <3> QED
      BY <2>1, <2>2, <3>1 DEF Open, Close, Dup, Write, SeekStart, Compare
  <2>3. CASE CallFails \/ Dup2Check \/ Dup2Close \/ Dup2Dup \/ Dup2Busy \/ Dup2Done
    BY <2>1, <2>3 DEF CallFails, Dup2Check, Dup2Close, Dup2Dup, Dup2Busy, Dup2Done
  <2>4. CASE Duplicate2
    <3>1. at \in {"done", "same", "bad", "lost"}
      BY <2>4 DEF Duplicate2
    <3>2. calls # <<>>
      BY <3>1 DEF Course
    <3> QED
      BY <2>1, <2>4, <3>2 DEF Duplicate2
  <2>5. CASE \E fd \in Contested : OtherOpens(fd) \/ OtherCloses(fd)
    BY <2>1, <2>5 DEF OtherOpens, OtherCloses
  <2> QED
    BY <2>2, <2>3, <2>4, <2>5 DEF Next, Main
<1>3. NothingToCompare'
  <2>1. calls # <<>> => Tail(calls) \in Seq(S)
    BY <1>1
  <2>2. calls' \in Seq(S)
    BY <1>1, <1>2, <2>1 DEF Done
  <2> QED
    BY <1>1, <2>2 DEF NothingToCompare
<1>4. ~ Compare
  <2>1. calls # <<>> => Head(calls) \in S
    BY <1>1
  <2> QED
    BY <1>1, <2>1 DEF Compare, Call
<1>5. at' # "mismatch" /\ (at' \notin {"call", "failed", "mismatch"} => calls' # <<>>)
  <2>1. CASE Open \/ Close \/ Dup \/ Write \/ SeekStart \/ CallFails \/ Duplicate2
    <3>1. at' \in {"call", "failed"}
      BY <2>1 DEF Open, Close, Dup, Write, SeekStart, CallFails, Duplicate2, Done
    <3> QED
      BY <3>1
  <2>2. CASE Dup2Check
    <3>1. calls # <<>> /\ calls' = calls /\ at' # "mismatch"
      BY <2>2 DEF Dup2Check, Call
    <3> QED
      BY <3>1
  <2>3. CASE Dup2Close \/ Dup2Dup \/ Dup2Busy \/ Dup2Done
    <3>1. /\ at \in {"close", "dup", "status"} /\ calls' = calls
          /\ at' \in {"dup", "status", "lost", "done"}
      BY <2>3 DEF Dup2Close, Dup2Dup, Dup2Busy, Dup2Done
    <3> QED
      BY <3>1 DEF Course
  <2>4. CASE \E fd \in Contested : OtherOpens(fd) \/ OtherCloses(fd)
    <3>1. at' = at /\ calls' = calls
      BY <2>4 DEF OtherOpens, OtherCloses
    <3> QED
      BY <3>1 DEF Course
  <2> QED
    BY <1>4, <2>1, <2>2, <2>3, <2>4 DEF Next, Main
<1> QED
  BY <1>2, <1>3, <1>5 DEF Course, Writing

LEMMA CourseKept == Course /\ [Next]_vars => Course'
<1> SUFFICES ASSUME Course, [Next]_vars PROVE Course'
  OBVIOUS
<1>1. CASE UNCHANGED vars
  <2>1. /\ program' = program /\ calls' = calls /\ at' = at /\ others' = others
        /\ var' = var /\ table' = table /\ descs' = descs /\ content' = content
        /\ writes' = writes
    BY <1>1 DEF vars
  <2>0. oldLen' = oldLen /\ Had' = Had /\ Has' = Has /\ HasAll' = HasAll
    BY <1>1, SameBytes DEF vars
  <2>2. /\ \A p, k : Made(p, k) => Made(p, k)'
        /\ \A v, k : Refers(v, k) => Refers(v, k)'
        /\ \A n, f, o, a : Known(n, f, o, a) => Known(n, f, o, a)'
        /\ \A n : Opened(n) => Opened(n)'
    BY <2>1 DEF Made, Refers, Known, Opened
  <2>3. \A p, k, f, w, bytes : Stage(p, k, f, w, bytes) => Stage(p, k, f, w, bytes)'
    BY <2>1, <2>2 DEF Stage
  <2>4. ThreeStage => ThreeStage'
    BY <2>2, <2>3 DEF ThreeStage, Three0, Three1, Three2, Three3, Three4, Three5, Three6,
       Three7, Three8, Three, AllThree
  <2>5. AppendStage => AppendStage'
    BY <2>0, <2>2, <2>3 DEF AppendStage, Append0, Append1, Append2, Append3, Append4, Append5,
       Append6, Append7, Appended
  <2>6. SharedStage => SharedStage'
    BY <2>2 DEF SharedStage, Shared0, Shared1, SharedAt, Shares
  <2>7. Steady => Steady'
    BY <2>1 DEF Steady
  <2>8. NothingToCompare => NothingToCompare'
    BY <2>1 DEF NothingToCompare
  <2> QED
    BY <2>1, <2>4, <2>5, <2>6, <2>7, <2>8 DEF Course, Writing
<1>2. CASE Writing /\ Next
  <2>1. ~ \E fd \in Contested : OtherOpens(fd) \/ OtherCloses(fd)
    BY <1>2 DEF OtherOpens, OtherCloses, Threaded, Course, Writing
  <2>2. Main
    BY <1>2, <2>1 DEF Next
  <2> QED
    BY <1>2, <2>2, WritingStep
<1>3. CASE ~ Writing /\ Next
  BY <1>3, DuplicatingStep
<1> QED
  BY <1>1, <1>2, <1>3

(* After each call of 5_6.md the file is what is written next to it, what   *)
(* 5_2.c writes with O_APPEND is all there, behind whatever tmp.out held    *)
(* before, and 5_5.c finds no difference.                                   *)
THEOREM ContentCorrect == Spec => []ContentAsDocumented
<1>1. ASSUME Course PROVE ContentAsDocumented
  <2>1. program = "three" => content["file"] =
          CASE writes = 0 -> <<>>
            [] writes = 1 -> Times(6, 1)
            [] writes = 2 -> Times(6, 1) \o Times(6, 2)
            [] OTHER -> Times(6, writes) \o Times(6, 2)
    <3>1. ASSUME ThreeStage
          PROVE  \/ writes = 0 /\ content["file"] = <<>>
                 \/ writes = 1 /\ content["file"] = Times(6, 1)
                 \/ writes = 2 /\ content["file"] = Pair(6, 1, 6, 2)
                 \/ writes \in {3, 4} /\ content["file"] = Pair(6, writes, 6, 2)
      BY <3>1 DEF ThreeStage, Three0, Three1, Three2, Three3, Three4, Three5, Three6, Three7,
         Three8, Three, Stage
    <3>2. \A x : Pair(6, x, 6, 2) = Times(6, x) \o Times(6, 2)
      BY DEF Pair
    <3>3. PICK w, b : w = writes /\ b = content["file"]
      OBVIOUS
    <3>4. ThreeStage => b =
            CASE w = 0 -> <<>>
              [] w = 1 -> Times(6, 1)
              [] w = 2 -> Times(6, 1) \o Times(6, 2)
              [] OTHER -> Times(6, w) \o Times(6, 2)
      <4>1. CASE w = 0 /\ b = <<>>
        BY <4>1
      <4>2. CASE w = 1 /\ b = Times(6, 1)
        BY <4>2
      <4>3. CASE w = 2 /\ b = Times(6, 1) \o Times(6, 2)
        BY <4>3
      <4>4. CASE w \in {3, 4} /\ b = Times(6, w) \o Times(6, 2)
        <5>1. w # 0 /\ w # 1 /\ w # 2
          BY <4>4
        <5> QED
          BY <4>4, <5>1
      <4>5. ThreeStage => \/ w = 0 /\ b = <<>>
                          \/ w = 1 /\ b = Times(6, 1)
                          \/ w = 2 /\ b = Times(6, 1) \o Times(6, 2)
                          \/ w \in {3, 4} /\ b = Times(6, w) \o Times(6, 2)
        BY <3>1, <3>2, <3>3
      <4> QED
        BY <4>1, <4>2, <4>3, <4>4, <4>5
    <3> QED
      BY <1>1, <3>3, <3>4 DEF Course
  <2>2. ASSUME program = "append", calls = <<>>
        PROVE  content["tmp.out"] = Times(5, 1) \o Times(Surplus, 0) \o Times(2, 2)
    <3>1. AppendStage
      BY <1>1, <2>2 DEF Course
    <3>2. ASSUME NEW k \in 0 .. 6, Made(Append5_2, k) PROVE FALSE
      <4>1. k \in Nat /\ k < Len(Append5_2)
        BY AppendCalls
      <4> QED
        BY <2>2, <3>2, <4>1, AppendCalls, NextCall
    <3>3. Append6 \/ Append7
      <4>1. ASSUME NEW k, NEW w, NEW bytes, Appended(k, w, bytes) PROVE k \notin 0 .. 6
        BY <3>2, <4>1 DEF Appended, Stage
      <4>2. 0 \in 0 .. 6 /\ 1 \in 0 .. 6 /\ 2 \in 0 .. 6 /\ 3 \in 0 .. 6 /\ 4 \in 0 .. 6 /\ 5 \in 0 .. 6
        OBVIOUS
      <4> QED
        BY <3>1, <4>1, <4>2, Zenon DEF AppendStage, Append0, Append1, Append2, Append3, Append4,
           Append5
    <3> QED
      BY <3>3 DEF Append6, Append7, Appended, Stage, HasAll, Has, Pair
  <2>3. at # "mismatch"
    BY <1>1 DEF Course
  <2> QED
    BY <2>1, <2>2, <2>3 DEF ContentAsDocumented
<1>2. Course => ContentAsDocumented
  BY <1>1
<1> QED
  BY <1>2, CourseInit, CourseKept, PTL DEF Spec
=============================================================================
