-------------------------- MODULE ErrorExitsProofs --------------------------
(* What the error functions keep, for any program, any number of children, *)
(* any size of stdio's buffer and any number of texts and calls.           *)
EXTENDS ErrorExits, SequenceTheorems, TLAPS

(* Facts about texts and messages.                                         *)
LEMMA TextEntry ==
    ASSUME NEW t \in TextType
    PROVE  Text(t) \in Entries /\ Text(t).fn = "printf"
           /\ Text(t).by = t[1] /\ Text(t).what = t[2]
  BY ErrorExitsAssumption DEF TextType, Text, Entries

LEMMA TextInjective ==
    ASSUME NEW t \in TextType, NEW u \in TextType, Text(t) = Text(u)
    PROVE  t = u
<1>1. t[1] = u[1] /\ t[2] = u[2]
  BY DEF Text
<1> QED
  BY <1>1 DEF TextType

LEMMA TextsEntries ==
    ASSUME NEW s \in Seq(TextType)
    PROVE  /\ Texts(s) \in Seq(Entries) /\ Len(Texts(s)) = Len(s)
           /\ DOMAIN s = 1 .. Len(s) /\ DOMAIN Texts(s) = 1 .. Len(s) /\ Len(s) \in Nat
           /\ \A i \in 1 .. Len(s) : Texts(s)[i] = Text(s[i]) /\ s[i] \in TextType
<1>1. DOMAIN s = 1 .. Len(s) /\ Len(s) \in Nat /\ \A i \in 1 .. Len(s) : s[i] \in TextType
  OBVIOUS
<1>2. Texts(s) = [i \in 1 .. Len(s) |-> Text(s[i])]
  BY <1>1 DEF Texts
<1>3. \A i \in 1 .. Len(s) : Text(s[i]) \in Entries
  BY <1>1, TextEntry
<1> QED
  BY <1>1, <1>2, <1>3

(* What stays and what is new when a sequence is put behind another.       *)
LEMMA Behind ==
    ASSUME NEW t \in Seq(Entries), NEW s \in Seq(Entries)
    PROVE  /\ t \o s \in Seq(Entries)
           /\ DOMAIN t = 1 .. Len(t) /\ DOMAIN s = 1 .. Len(s)
           /\ Len(t) \in Nat /\ Len(s) \in Nat
           /\ DOMAIN (t \o s) = 1 .. (Len(t) + Len(s))
           /\ \A i \in DOMAIN t : i \in DOMAIN (t \o s) /\ (t \o s)[i] = t[i]
           /\ \A i \in DOMAIN s : Len(t) + i \in DOMAIN (t \o s) /\ (t \o s)[Len(t) + i] = s[i]
           /\ \A i \in DOMAIN (t \o s) : i \notin DOMAIN t =>
                 i - Len(t) \in DOMAIN s /\ (t \o s)[i] = s[i - Len(t)]
<1>1. /\ DOMAIN t = 1 .. Len(t) /\ DOMAIN s = 1 .. Len(s)
      /\ Len(t) \in Nat /\ Len(s) \in Nat
  OBVIOUS
<1>2. /\ t \o s \in Seq(Entries) /\ Len(t \o s) = Len(t) + Len(s)
      /\ \A i \in 1 .. Len(t) + Len(s) :
            (t \o s)[i] = IF i <= Len(t) THEN t[i] ELSE s[i - Len(t)]
  BY ConcatProperties
<1>3. DOMAIN (t \o s) = 1 .. (Len(t) + Len(s))
  BY <1>2
<1> HIDE DEF Entries
<1> QED
  BY <1>1, <1>2, <1>3

LEMMA MessageEntry ==
    ASSUME TypeOK, NEW p \in Processes, step[p] # "main"
    PROVE  /\ Message(p) \in Entries /\ Message(p).fn = call[p].fn
           /\ call[p].fn \in Functions /\ Message(p).fn # "printf"
           /\ Message(p).by = p /\ Message(p).after = printed[p]
<1>1. call[p] \in [fn : Functions, err : Errnos \cup {0}] /\ printed[p] \in 0 .. MaxTexts
  BY DEF TypeOK, CallTypes
<1>2. call[p].fn \in Functions /\ call[p].err \in Nat
  BY <1>1, ErrorExitsAssumption
<1>3. "printf" \notin Functions
  BY DEF Functions
<1>4. Message(p) \in Entries
  BY <1>1, <1>2 DEF Message, Entries
<1> QED
  BY <1>2, <1>3, <1>4 DEF Message

-----------------------------------------------------------------------------
(* Types.                                                                  *)

LEMMA InitTypes == Init => TypeOK
<1> SUFFICES ASSUME Init PROVE TypeOK
  OBVIOUS
<1>1. \A p \in Processes : Len(stdout[p]) < BufSize
  BY ErrorExitsAssumption DEF Init
<1>2. stdout \in [Processes -> Seq(TextType)] /\ calls \in [Processes -> Seq(Functions)]
  BY DEF Init
<1>3. call \in [Processes -> CallTypes] /\ step \in [Processes -> {"main"}]
  BY DEF Init, CallTypes
<1> QED
  BY <1>1, <1>2, <1>3, ErrorExitsAssumption DEF Init, TypeOK

(* exit writes the buffer out and empties it.                              *)
LEMMA ExitTypes ==
    ASSUME TypeOK, NEW p \in Processes, Exit(p)
    PROVE  /\ status' \in [Processes -> {"none", "running", "exited", "quit", "aborted"}]
           /\ cleaned' \subseteq Processes /\ terminal' \in Seq(Entries)
           /\ stdout' \in [Processes -> Seq(TextType)]
           /\ \A q \in Processes : Len(stdout'[q]) < BufSize
<1>1. stdout[p] \in Seq(TextType) /\ terminal \in Seq(Entries)
  BY DEF TypeOK
<1>2. Texts(stdout[p]) \in Seq(Entries)
  BY <1>1, TextsEntries
<1>3. terminal' \in Seq(Entries)
  BY <1>1, <1>2, Behind DEF Exit
<1>4. stdout' \in [Processes -> Seq(TextType)] /\ \A q \in Processes : Len(stdout'[q]) < BufSize
  BY ErrorExitsAssumption DEF Exit, TypeOK
<1> QED
  BY <1>3, <1>4 DEF Exit, TypeOK

LEMMA TypeStep == TypeOK /\ [Next]_vars => TypeOK'
<1> SUFFICES ASSUME TypeOK, [Next]_vars PROVE TypeOK'
  OBVIOUS
<1>1. ASSUME NEW p \in Processes, Printf(p) PROVE TypeOK'
  <2> DEFINE held == Append(stdout[p], <<p, printed[p] + 1>>)
  <2>1. stdout[p] \in Seq(TextType) /\ Len(stdout[p]) < BufSize /\ terminal \in Seq(Entries)
        /\ printed[p] \in 0 .. MaxTexts /\ printed[p] < MaxTexts
    BY <1>1 DEF TypeOK, Printf
  <2>2. <<p, printed[p] + 1>> \in TextType /\ printed[p] + 1 \in 0 .. MaxTexts
    BY <2>1, ErrorExitsAssumption DEF TextType
  <2>3. held \in Seq(TextType) /\ Len(held) = Len(stdout[p]) + 1
    <3> HIDE DEF TextType
    <3> QED
      BY <2>1, <2>2
  <2>4. Texts(held) \in Seq(Entries)
    BY <2>3, TextsEntries
  <2>5. terminal' \in Seq(Entries)
    BY <1>1, <2>1, <2>4, Behind DEF Printf
  <2>6. stdout' \in [Processes -> Seq(TextType)] /\ \A q \in Processes : Len(stdout'[q]) < BufSize
    <3>1. stdout' = [stdout EXCEPT ![p] = IF Full(held) THEN <<>> ELSE held]
      BY <1>1 DEF Printf
    <3>2. Len(<<>>) < BufSize /\ (~Full(held) => Len(held) < BufSize)
      BY <2>1, <2>3, ErrorExitsAssumption DEF Full
    <3> HIDE DEF held
    <3> QED
      BY <2>1, <2>3, <3>1, <3>2 DEF TypeOK
  <2> QED
    BY <1>1, <2>1, <2>2, <2>5, <2>6 DEF TypeOK, Printf
<1>2. ASSUME NEW p \in Processes, EndNormally(p) PROVE TypeOK'
  BY <1>2, ExitTypes DEF EndNormally, TypeOK
<1>3. ASSUME NEW p \in Processes, NEW e \in Errnos, Fail(p, e) PROVE TypeOK'
  BY <1>3 DEF Fail, TypeOK
<1>4. ASSUME NEW p \in Processes, NEW fn \in Functions, NEW n \in Errnos \cup {0}, Enter(p, fn, n)
      PROVE  TypeOK'
  <2> DEFINE c == [fn |-> fn, err |-> Named(fn, errno[p], n)]
  <2>1. Named(fn, errno[p], n) \in Errnos \cup {0}
    BY DEF TypeOK, Named
  <2>2. c \in CallTypes /\ c # NoCall
    BY <2>1 DEF CallTypes, NoCall, Functions
  <2>3. call' = [call EXCEPT ![p] = c]
        /\ step' = [step EXCEPT ![p] = IF FlushStdout(fn) THEN "flush" ELSE "message"]
        /\ calls' = [calls EXCEPT ![p] = Append(@, fn)]
    BY <1>4 DEF Enter, GoTo
  <2>4. calls' \in [Processes -> Seq(Functions)]
    BY <2>3 DEF TypeOK
  <2> HIDE DEF c
  <2>5. call' \in [Processes -> CallTypes]
        /\ \A q \in Processes : step'[q] = "main" <=> call'[q] = NoCall
    BY <2>2, <2>3 DEF TypeOK
  <2> QED
    BY <1>4, <2>3, <2>4, <2>5 DEF Enter, TypeOK
<1>5. ASSUME NEW p \in Processes, Flush(p) PROVE TypeOK'
  <2>1. stdout[p] \in Seq(TextType) /\ terminal \in Seq(Entries)
    BY DEF TypeOK
  <2>2. terminal' \in Seq(Entries)
    BY <1>5, <2>1, TextsEntries, Behind DEF Flush
  <2>3. stdout' \in [Processes -> Seq(TextType)] /\ \A q \in Processes : Len(stdout'[q]) < BufSize
    BY <1>5, ErrorExitsAssumption DEF Flush, TypeOK
  <2> QED
    BY <1>5, <2>2, <2>3 DEF Flush, TypeOK, At, GoTo
<1>6. ASSUME NEW p \in Processes, Show(p) \/ ShowUsage(p) PROVE TypeOK'
  <2>1. Message(p) \in Entries
    BY <1>6, MessageEntry DEF Show, ShowUsage, At
  <2>2. terminal' = Append(terminal, Message(p))
    BY <1>6 DEF Show, ShowUsage
  <2>3. terminal' \in Seq(Entries)
    BY <2>1, <2>2 DEF TypeOK
  <2> QED
    BY <1>6, <2>3 DEF Show, ShowUsage, TypeOK, At, GoTo
<1>7. ASSUME NEW p \in Processes, Return(p) PROVE TypeOK'
  <2>1. call[p] \in [fn : Functions, err : Errnos \cup {0}]
    BY <1>7 DEF Return, At, TypeOK, CallTypes
  <2>2. RestoreErrno(p) \in Errnos \cup {0} /\ NoCall \in CallTypes
    BY <2>1 DEF RestoreErrno, CallTypes
  <2> QED
    BY <1>7, <2>2 DEF Return, TypeOK, GoTo
<1>8. ASSUME NEW p \in Processes, Terminate(p) PROVE TypeOK'
  <2>1. CASE Exit(p)
    BY <1>8, <2>1, ExitTypes DEF Terminate, TypeOK
  <2>2. CASE ~Exit(p)
    BY <1>8, <2>2 DEF Terminate, TypeOK
  <2> QED
    BY <2>1, <2>2
<1>9. ASSUME NEW c \in Children, Fork(c) PROVE TypeOK'
  <2>1. c \in Processes /\ Caller \in Processes
    BY DEF Processes
  <2> QED
    BY <1>9, <2>1 DEF Fork, TypeOK
<1>10. CASE UNCHANGED vars
  BY <1>10 DEF vars, TypeOK
<1> QED
  BY <1>1, <1>2, <1>3, <1>4, <1>5, <1>6, <1>7, <1>8, <1>9, <1>10 DEF Next, Program, Function

(* The variables always have their types, for every value of the constants. *)
THEOREM TypeCorrect == Spec => []TypeOK
  BY InitTypes, TypeStep, PTL DEF Spec

-----------------------------------------------------------------------------
(* The strengthening.                                                      *)

(* A process that is not there yet has done nothing.                       *)
NotYet ==
    \A p \in Processes : status[p] = "none" =>
        step[p] = "main" /\ stdout[p] = <<>> /\ printed[p] = 0

(* Behind its flush a function leaves nothing in the buffer, nor does exit. *)
Flushed ==
    \A p \in Processes :
        /\ step[p] \in {"message", "usage", "end"} /\ call[p].fn # "err_exit" => stdout[p] = <<>>
        /\ status[p] = "exited" => stdout[p] = <<>>
        /\ status[p] = "aborted" => step[p] = "end"

OnTerminal(p, n) == \E i \in DOMAIN terminal : terminal[i] = Text(<<p, n>>)
Held(p, n) == \E i \in DOMAIN stdout[p] : stdout[p][i] = <<p, n>>

(* What a process has printed is on the terminal or still in its buffer.   *)
Accounted ==
    \A p \in Processes : \A n \in 1 .. printed[p] : OnTerminal(p, n) \/ Held(p, n)

(* What a message says its process had printed stands before it.           *)
After ==
    \A k \in DOMAIN terminal : terminal[k].fn \notin {"printf", "err_exit"} =>
        \A n \in 1 .. terminal[k].after :
            \E i \in 1 .. k : terminal[i] = Text(<<terminal[k].by, n>>)

(* err_exit is the last call of its process, and does not end with exit.   *)
LastCall ==
    \A p \in Processes :
        /\ calls[p] = <<>> => step[p] = "main"
        /\ calls[p] = <<"err_exit">> =>
              step[p] \notin {"main", "flush"} /\ call[p].fn = "err_exit"
        /\ status[p] = "exited" => call[p].fn # "err_exit"

(* The caller's texts are on the terminal or in its buffer once each.      *)
Clean(t, held, n) ==
    /\ \A i \in DOMAIN t : t[i].fn = "printf" => t[i].by = Caller /\ t[i].what <= n
    /\ \A i, j \in DOMAIN t : t[i].fn = "printf" /\ t[i] = t[j] => i = j
    /\ \A i \in DOMAIN held : held[i][1] = Caller /\ held[i][2] <= n
    /\ \A i, j \in DOMAIN held : held[i] = held[j] => i = j
    /\ \A i \in DOMAIN t, j \in DOMAIN held : t[i] # Text(held[j])

AllDiscreet == \A c \in Children : Discreet(c)

Once == AllDiscreet =>
    Clean(terminal, stdout[Caller], printed[Caller]) /\ cleaned \subseteq {Caller}

IInv == /\ TypeOK
        /\ ErrnoTransparent
        /\ NotYet
        /\ Flushed
        /\ Accounted
        /\ After
        /\ LastCall
        /\ Once

LEMMA InitEstablishes == Init => IInv
<1> SUFFICES ASSUME Init PROVE IInv
  OBVIOUS
<1>1. TypeOK
  BY InitTypes
<1>2. /\ terminal = <<>> /\ cleaned = {} /\ Caller \in Processes
      /\ \A p \in Processes :
            /\ stdout[p] = <<>> /\ printed[p] = 0 /\ step[p] = "main" /\ calls[p] = <<>>
            /\ call[p] = NoCall /\ errno[p] = 0 /\ cause[p] = 0
            /\ status[p] \in {"none", "running"}
  BY DEF Init, Processes
<1>3. \A p \in Processes : call[p].fn = "none"
  BY <1>2 DEF NoCall
<1>4. ErrnoTransparent /\ NotYet /\ Flushed
  BY <1>2, <1>3 DEF ErrnoTransparent, NotYet, Flushed
<1>5. Accounted /\ After /\ LastCall
  BY <1>2, <1>3 DEF Accounted, After, LastCall
<1>6. Once
  BY <1>2 DEF Once, Clean
<1> QED
  BY <1>1, <1>4, <1>5, <1>6 DEF IInv

-----------------------------------------------------------------------------
(* Error numbers.                                                          *)

LEMMA ErrnoStep == TypeOK /\ NotYet /\ ErrnoTransparent /\ [Next]_vars => ErrnoTransparent'
<1> SUFFICES ASSUME TypeOK, NotYet, ErrnoTransparent, [Next]_vars PROVE ErrnoTransparent'
  OBVIOUS
<1> DEFINE Naming == {"errMsg", "errExit", "err_exit"}
<1>0. \A p \in Processes : step[p] = "main" => errno[p] = cause[p] /\ call[p].fn \notin Naming
  BY DEF TypeOK, ErrnoTransparent, NoCall
<1>1. ASSUME NEW p \in Processes, Printf(p) \/ EndNormally(p) \/ Show(p) \/ ShowUsage(p) \/ Terminate(p)
      PROVE  ErrnoTransparent'
  <2>1. errno' = errno /\ cause' = cause /\ call' = call
    BY <1>1 DEF Printf, EndNormally, Show, ShowUsage, Terminate
  <2>2. \A q \in Processes : step'[q] = "main" => step[q] = "main"
    BY <1>1 DEF Printf, EndNormally, Show, ShowUsage, Terminate, GoTo, TypeOK
  <2> QED
    BY <2>1, <2>2 DEF ErrnoTransparent
<1>2. ASSUME NEW p \in Processes, NEW e \in Errnos, Fail(p, e) PROVE ErrnoTransparent'
  BY <1>2, <1>0 DEF Fail, InMain, TypeOK, ErrnoTransparent
<1>3. ASSUME NEW p \in Processes, NEW fn \in Functions, NEW n \in Errnos \cup {0}, Enter(p, fn, n)
      PROVE  ErrnoTransparent'
  <2>1. fn \in Naming => Named(fn, errno[p], n) = cause[p]
    BY <1>3, <1>0 DEF Enter, InMain, Named
  <2>2. step'[p] # "main"
    BY <1>3 DEF Enter, GoTo, TypeOK
  <2> QED
    BY <1>3, <2>1, <2>2 DEF Enter, GoTo, TypeOK, ErrnoTransparent
<1>4. ASSUME NEW p \in Processes, Flush(p) PROVE ErrnoTransparent'
  BY <1>4 DEF Flush, At, GoTo, TypeOK, ErrnoTransparent
<1>5. ASSUME NEW p \in Processes, Return(p) PROVE ErrnoTransparent'
  <2>1. RestoreErrno(p) = cause[p]
    BY <1>5 DEF Return, Returns, RestoreErrno, ErrnoTransparent
  <2> QED
    BY <1>5, <2>1 DEF Return, GoTo, TypeOK, NoCall, ErrnoTransparent
<1>6. ASSUME NEW c \in Children, Fork(c) PROVE ErrnoTransparent'
  <2>1. c \in Processes /\ Caller \in Processes /\ step[c] = "main"
    BY <1>6 DEF Processes, Fork, NotYet
  <2> QED
    BY <1>6, <2>1, <1>0 DEF Fork, TypeOK, ErrnoTransparent
<1>7. CASE UNCHANGED vars
  BY <1>7 DEF vars, ErrnoTransparent
<1> QED
  BY <1>1, <1>2, <1>3, <1>4, <1>5, <1>6, <1>7 DEF Next, Program, Function

-----------------------------------------------------------------------------
(* Processes in and behind their functions.                                *)

Places == NotYet /\ Flushed /\ LastCall

LEMMA PlacesStep == TypeOK /\ Places /\ [Next]_vars => Places'
<1> SUFFICES ASSUME TypeOK, Places, [Next]_vars PROVE Places'
  OBVIOUS
<1> USE DEF Places, NotYet, Flushed, LastCall
<1>0. \A p \in Processes : step[p] = "main" => call[p].fn = "none"
  BY DEF TypeOK, NoCall
<1>1. ASSUME NEW p \in Processes, Printf(p) PROVE Places'
  BY <1>1 DEF Printf, InMain, TypeOK
<1>2. ASSUME NEW p \in Processes, EndNormally(p) PROVE Places'
  BY <1>2, <1>0 DEF EndNormally, Exit, InMain, TypeOK
<1>3. ASSUME NEW p \in Processes, NEW e \in Errnos, Fail(p, e) PROVE Places'
  BY <1>3 DEF Fail, InMain, TypeOK
<1>4. ASSUME NEW p \in Processes, NEW fn \in Functions, NEW n \in Errnos \cup {0}, Enter(p, fn, n)
      PROVE  Places'
  <2>1. /\ status' = status /\ stdout' = stdout /\ printed' = printed
        /\ call'[p].fn = fn /\ \A q \in Processes : q # p => call'[q] = call[q]
        /\ step'[p] = (IF fn = "err_exit" THEN "message" ELSE "flush")
        /\ \A q \in Processes : q # p => step'[q] = step[q]
        /\ calls'[p] = Append(calls[p], fn) /\ calls[p] \in Seq(Functions)
        /\ \A q \in Processes : q # p => calls'[q] = calls[q]
        /\ status[p] = "running" /\ step[p] = "main"
    BY <1>4 DEF Enter, GoTo, InMain, FlushStdout, TypeOK
  <2>2. calls'[p] # <<>> /\ (calls'[p] = <<"err_exit">> => fn = "err_exit")
    <3> DEFINE s == calls[p]
    <3>1. s \in Seq(Functions) /\ Append(s, fn) = calls'[p]
      BY <2>1
    <3> HIDE DEF s, Functions
    <3>2. Len(Append(s, fn)) = Len(s) + 1 /\ Append(s, fn)[Len(s) + 1] = fn /\ Len(s) \in Nat
      BY <3>1
    <3>3. Append(s, fn) = <<"err_exit">> => fn = "err_exit"
      <4> SUFFICES ASSUME Append(s, fn) = <<"err_exit">> PROVE fn = "err_exit"
        OBVIOUS
      <4>1. Len(s) + 1 = 1
        BY <3>2
      <4> QED
        BY <4>1, <3>2
    <3>4. Append(s, fn) # <<>>
      BY <3>2
    <3> QED
      BY <3>1, <3>3, <3>4
  <2>3. NotYet' /\ Flushed'
    BY <2>1
  <2>4. ASSUME NEW q \in Processes
        PROVE  /\ calls'[q] = <<>> => step'[q] = "main"
               /\ calls'[q] = <<"err_exit">> =>
                     step'[q] \notin {"main", "flush"} /\ call'[q].fn = "err_exit"
               /\ status'[q] = "exited" => call'[q].fn # "err_exit"
    <3>1. CASE q = p
      BY <2>1, <2>2, <3>1
    <3>2. CASE q # p
      <4>1. calls'[q] = calls[q] /\ step'[q] = step[q] /\ call'[q] = call[q] /\ status' = status
        BY <2>1, <3>2
      <4> QED
        BY <4>1
    <3> QED
      BY <3>1, <3>2
  <2>5. LastCall'
    BY <2>4, Zenon
  <2> QED
    BY <2>3, <2>5, Zenon
<1>5. ASSUME NEW p \in Processes, Flush(p) PROVE Places'
  BY <1>5 DEF Flush, At, GoTo, TypeOK
<1>6. ASSUME NEW p \in Processes, Show(p) \/ ShowUsage(p) PROVE Places'
  <2>1. /\ status' = status /\ stdout' = stdout /\ call' = call /\ calls' = calls
        /\ printed' = printed /\ status[p] = "running"
        /\ step[p] \in {"message", "usage"} /\ step'[p] \in {"usage", "end"}
        /\ \A q \in Processes : q # p => step'[q] = step[q]
    BY <1>6 DEF Show, ShowUsage, At, GoTo, TypeOK
  <2> QED
    BY <2>1
<1>7. ASSUME NEW p \in Processes, Return(p) PROVE Places'
  BY <1>7 DEF Return, Returns, At, GoTo, TypeOK
<1>8. ASSUME NEW p \in Processes, Terminate(p) PROVE Places'
  <2>1. /\ step' = step /\ call' = call /\ calls' = calls /\ printed' = printed
        /\ step[p] = "end" /\ status[p] = "running"
        /\ \A q \in Processes : q # p => status'[q] = status[q] /\ stdout'[q] = stdout[q]
    BY <1>8 DEF Terminate, Exit, At, TypeOK
  <2>2. \/ status'[p] = "exited" /\ stdout'[p] = <<>> /\ call[p].fn # "err_exit"
        \/ status'[p] \in {"aborted", "quit"} /\ stdout'[p] = stdout[p]
    BY <1>8 DEF Terminate, Exit, UseExit3, TypeOK
  <2> QED
    BY <2>1, <2>2
<1>9. ASSUME NEW c \in Children, Fork(c) PROVE Places'
  <2>1. c \in Processes /\ Caller \in Processes
    BY DEF Processes
  <2> QED
    BY <1>9, <2>1 DEF Fork, TypeOK
<1>10. CASE UNCHANGED vars
  BY <1>10 DEF vars
<1> QED
  BY <1>1, <1>2, <1>3, <1>4, <1>5, <1>6, <1>7, <1>8, <1>9, <1>10 DEF Next, Program, Function

-----------------------------------------------------------------------------
(* What has been printed.                                                  *)

LEMMA Grown ==
    ASSUME TypeOK, NEW s \in Seq(Entries), terminal' = terminal \o s
    PROVE  /\ \A p, n : OnTerminal(p, n) => OnTerminal(p, n)'
           /\ \A i \in DOMAIN s : \E j \in DOMAIN terminal' : terminal'[j] = s[i]
           /\ After /\ (\A i \in DOMAIN s : s[i].fn \in {"printf", "err_exit"}) => After'
<1> HIDE DEF Entries
<1>1. terminal \in Seq(Entries)
  BY DEF TypeOK
<1>2. /\ DOMAIN terminal = 1 .. Len(terminal) /\ Len(terminal) \in Nat
      /\ \A i \in DOMAIN terminal : i \in DOMAIN terminal' /\ terminal'[i] = terminal[i]
      /\ \A i \in DOMAIN s : Len(terminal) + i \in DOMAIN terminal' /\ terminal'[Len(terminal) + i] = s[i]
      /\ \A i \in DOMAIN terminal' : i \notin DOMAIN terminal =>
            i - Len(terminal) \in DOMAIN s /\ terminal'[i] = s[i - Len(terminal)]
  BY <1>1, Behind
<1>3. ASSUME After, \A i \in DOMAIN s : s[i].fn \in {"printf", "err_exit"}
      PROVE  After'
  <2> SUFFICES ASSUME NEW k \in DOMAIN terminal', terminal'[k].fn \notin {"printf", "err_exit"},
                      NEW n \in 1 .. terminal'[k].after
               PROVE  \E i \in 1 .. k : terminal'[i] = Text(<<terminal'[k].by, n>>)
    BY DEF After
  <2>1. k \in DOMAIN terminal /\ terminal'[k] = terminal[k]
    BY <1>2, <1>3
  <2>2. PICK i \in 1 .. k : terminal[i] = Text(<<terminal[k].by, n>>)
    BY <1>3, <2>1 DEF After
  <2>3. i \in DOMAIN terminal
    BY <1>2, <2>1
  <2> QED
    BY <1>2, <2>1, <2>2, <2>3
<1> QED
  BY <1>2, <1>3 DEF OnTerminal

LEMMA WrittenOut ==
    ASSUME TypeOK, NEW h \in Seq(TextType), terminal' = terminal \o Texts(h)
    PROVE  /\ \A p, n : OnTerminal(p, n) => OnTerminal(p, n)'
           /\ \A p, n : \A i \in DOMAIN h : h[i] = <<p, n>> => OnTerminal(p, n)'
           /\ After => After'
<1>1. /\ Texts(h) \in Seq(Entries) /\ DOMAIN Texts(h) = DOMAIN h
      /\ \A i \in DOMAIN h : Texts(h)[i] = Text(h[i]) /\ Texts(h)[i].fn = "printf"
  BY TextsEntries, TextEntry
<1>2. \A i \in DOMAIN h : \E j \in DOMAIN terminal' : terminal'[j] = Text(h[i])
  <2> SUFFICES ASSUME NEW i \in DOMAIN h
               PROVE  \E j \in DOMAIN terminal' : terminal'[j] = Text(h[i])
    OBVIOUS
  <2> DEFINE s == Texts(h)
  <2>1. s \in Seq(Entries) /\ i \in DOMAIN s /\ s[i] = Text(h[i]) /\ terminal' = terminal \o s
    BY <1>1
  <2> HIDE DEF s
  <2>2. \A k \in DOMAIN s : \E j \in DOMAIN terminal' : terminal'[j] = s[k]
    BY <2>1, Grown
  <2> QED
    BY <2>1, <2>2
<1> QED
  BY <1>1, <1>2, Grown DEF OnTerminal

LEMMA Announced ==
    ASSUME TypeOK, NEW p \in Processes, step[p] # "main", terminal' = Append(terminal, Message(p))
    PROVE  /\ Message(p) \in Entries
           /\ terminal' = terminal \o <<Message(p)>>
           /\ \A q, n : OnTerminal(q, n) => OnTerminal(q, n)'
<1>1. Message(p) \in Entries /\ terminal \in Seq(Entries)
  BY MessageEntry DEF TypeOK
<1> HIDE DEF Entries
<1>2. <<Message(p)>> \in Seq(Entries)
  BY <1>1
<1>3. terminal' = terminal \o <<Message(p)>>
  BY <1>1, AppendIsConcat
<1> QED
  BY <1>1, <1>2, <1>3, Grown

LEMMA OutputStep == TypeOK /\ Places /\ Accounted /\ After /\ [Next]_vars => Accounted' /\ After'
<1> SUFFICES ASSUME TypeOK, Places, Accounted, After, [Next]_vars PROVE Accounted' /\ After'
  OBVIOUS
(* It is enough that nothing disappears from the terminal, and that what a *)
(* buffer loses, or printf adds, is on the terminal or in the buffer.      *)
<1>0. ASSUME \A p, n : OnTerminal(p, n) => OnTerminal(p, n)',
             \A q \in Processes : \A n \in 1 .. printed'[q] :
                 (n \in 1 .. printed[q] /\ ~Held(q, n)) \/ OnTerminal(q, n)' \/ Held(q, n)'
      PROVE  Accounted'
  BY <1>0 DEF Accounted
<1>1. ASSUME NEW p \in Processes, Printf(p) PROVE Accounted' /\ After'
  <2> DEFINE h == stdout[p]
             new == <<p, printed[p] + 1>>
             held == Append(h, new)
  <2>1. h \in Seq(TextType) /\ printed[p] \in 0 .. MaxTexts /\ printed[p] < MaxTexts
    BY <1>1 DEF TypeOK, Printf
  <2>2. new \in TextType
    BY <2>1, ErrorExitsAssumption DEF TextType
  <2>3. /\ held \in Seq(TextType)
        /\ \A i \in DOMAIN h : i \in DOMAIN held /\ held[i] = h[i]
        /\ \E i \in DOMAIN held : held[i] = new
    <3> HIDE DEF TextType, h, new
    <3>1. /\ held \in Seq(TextType) /\ Len(held) = Len(h) + 1 /\ Len(h) \in Nat
          /\ \A i \in 1 .. Len(h) : held[i] = h[i]
          /\ held[Len(h) + 1] = new
          /\ DOMAIN h = 1 .. Len(h) /\ DOMAIN held = 1 .. Len(held)
      BY <2>1, <2>2
    <3> HIDE DEF held
    <3> QED
      BY <3>1
  <2>4. /\ printed'[p] = printed[p] + 1
        /\ \A q \in Processes : q # p => printed'[q] = printed[q] /\ stdout'[q] = stdout[q]
        /\ stdout'[p] = IF Full(held) THEN <<>> ELSE held
        /\ terminal' = IF Full(held) THEN terminal \o Texts(held) ELSE terminal
    BY <1>1 DEF Printf, TypeOK
  <2> HIDE DEF h, held, new
  <2>5. /\ \A q, n : OnTerminal(q, n) => OnTerminal(q, n)'
        /\ After'
        /\ \A n : \A i \in DOMAIN held : held[i] = <<p, n>> => OnTerminal(p, n)' \/ Held(p, n)'
    <3>1. CASE Full(held)
      BY <2>3, <2>4, <3>1, WrittenOut
    <3>2. CASE ~Full(held)
      BY <2>4, <3>2 DEF OnTerminal, After, Held
    <3> QED
      BY <3>1, <3>2
  <2>6. ASSUME NEW q \in Processes, NEW n \in 1 .. printed'[q]
        PROVE  (n \in 1 .. printed[q] /\ ~Held(q, n)) \/ OnTerminal(q, n)' \/ Held(q, n)'
    <3>1. CASE q # p
      BY <2>4, <3>1 DEF Held
    <3>2. CASE q = p /\ n \in 1 .. printed[p]
      BY <2>3, <2>5, <3>2 DEF Held, h
    <3>3. CASE q = p /\ n = printed[p] + 1
      BY <2>3, <2>5, <3>3 DEF new
    <3> QED
      BY <2>1, <2>4, <3>1, <3>2, <3>3
  <2> QED
    BY <1>0, <2>5, <2>6
<1>2. ASSUME NEW p \in Processes, terminal' = terminal \o Texts(stdout[p]),
             stdout' = [stdout EXCEPT ![p] = <<>>], printed' = printed
      PROVE  Accounted' /\ After'
  <2>1. stdout[p] \in Seq(TextType) /\ stdout \in [Processes -> Seq(TextType)]
    BY DEF TypeOK
  <2>2. /\ \A q, n : OnTerminal(q, n) => OnTerminal(q, n)'
        /\ \A n : Held(p, n) => OnTerminal(p, n)'
        /\ After'
    BY <1>2, <2>1, WrittenOut DEF Held
  <2>3. \A q \in Processes : q # p => stdout'[q] = stdout[q]
    BY <1>2, <2>1
  <2> QED
    BY <1>0, <1>2, <2>2, <2>3 DEF Held
<1>3. ASSUME terminal' = terminal, stdout' = stdout, printed' = printed
      PROVE  Accounted' /\ After'
  BY <1>3 DEF Accounted, After, OnTerminal, Held
<1>4. ASSUME NEW p \in Processes, Show(p) \/ ShowUsage(p) PROVE Accounted' /\ After'
  <2>1. /\ step[p] \in {"message", "usage"} /\ stdout' = stdout /\ printed' = printed
        /\ terminal' = Append(terminal, Message(p)) /\ terminal \in Seq(Entries)
    BY <1>4 DEF Show, ShowUsage, At, TypeOK
  <2> DEFINE m == Message(p)
  <2>2. /\ m \in Entries /\ m.fn = call[p].fn /\ m.by = p /\ m.after = printed[p]
        /\ \A q, n : OnTerminal(q, n) => OnTerminal(q, n)'
    BY <2>1, MessageEntry, Announced
  <2>3. Accounted'
    BY <1>0, <2>1, <2>2 DEF Held
  <2>4. After'
    <3> HIDE DEF m, Entries
    <3>1. /\ DOMAIN terminal = 1 .. Len(terminal) /\ Len(terminal) \in Nat
          /\ DOMAIN terminal' = 1 .. Len(terminal) + 1
          /\ \A i \in DOMAIN terminal : terminal'[i] = terminal[i]
          /\ terminal'[Len(terminal) + 1] = m
      BY <2>1, <2>2 DEF m
    <3>2. SUFFICES ASSUME NEW k \in DOMAIN terminal', terminal'[k].fn \notin {"printf", "err_exit"},
                          NEW n \in 1 .. terminal'[k].after
                   PROVE  \E i \in 1 .. k : terminal'[i] = Text(<<terminal'[k].by, n>>)
      BY DEF After
    <3>3. CASE k \in DOMAIN terminal
      <4>1. PICK i \in 1 .. k : terminal[i] = Text(<<terminal[k].by, n>>)
        BY <3>1, <3>2, <3>3 DEF After
      <4> QED
        BY <3>1, <3>3, <4>1
    <3>4. CASE k = Len(terminal) + 1
      <4>1. terminal'[k] = m /\ n \in 1 .. printed[p] /\ call[p].fn # "err_exit"
        BY <2>2, <3>1, <3>2, <3>4
      <4>2. stdout[p] = <<>>
        BY <2>1, <4>1 DEF Places, Flushed
      <4>3. OnTerminal(p, n)
        BY <4>1, <4>2 DEF Accounted, Held
      <4>4. PICK i \in DOMAIN terminal : terminal[i] = Text(<<p, n>>)
        BY <4>3 DEF OnTerminal
      <4> QED
        BY <2>2, <3>1, <3>4, <4>1, <4>4
    <3> QED
      BY <3>1, <3>3, <3>4
  <2> QED
    BY <2>3, <2>4
<1>5. ASSUME NEW c \in Children, Fork(c) PROVE Accounted' /\ After'
  <2>1. /\ c \in Processes /\ terminal' = terminal /\ printed' = printed
        /\ printed[c] = 0
        /\ \A q \in Processes : q # c => stdout'[q] = stdout[q]
    BY <1>5 DEF Fork, Processes, TypeOK, Places, NotYet
  <2> QED
    BY <1>0, <2>1 DEF Held, OnTerminal, After
<1>6. ASSUME NEW p \in Processes, EndNormally(p) \/ Flush(p) \/ Terminate(p)
      PROVE  Accounted' /\ After'
  <2>1. \/ terminal' = terminal \o Texts(stdout[p]) /\ stdout' = [stdout EXCEPT ![p] = <<>>]
        \/ terminal' = terminal /\ stdout' = stdout
    BY <1>6 DEF EndNormally, Flush, Terminate, Exit
  <2>2. printed' = printed
    BY <1>6 DEF EndNormally, Flush, Terminate
  <2> QED
    BY <1>2, <1>3, <2>1, <2>2
<1>7. ASSUME NEW p \in Processes,
             \/ \E e \in Errnos : Fail(p, e)
             \/ \E fn \in Functions, n \in Errnos \cup {0} : Enter(p, fn, n)
             \/ Return(p)
      PROVE  Accounted' /\ After'
  BY <1>3, <1>7 DEF Fail, Enter, Return
<1>8. CASE UNCHANGED vars
  BY <1>3, <1>8 DEF vars
<1> QED
  BY <1>1, <1>4, <1>5, <1>6, <1>7, <1>8 DEF Next, Program, Function

-----------------------------------------------------------------------------
(* Each text once.                                                         *)

LEMMA CleanOut ==
    ASSUME NEW t \in Seq(Entries), NEW h \in Seq(TextType), NEW n \in Nat, Clean(t, h, n)
    PROVE  Clean(t \o Texts(h), <<>>, n)
<1> DEFINE s == Texts(h)
           u == t \o s
<1>1. /\ s \in Seq(Entries) /\ DOMAIN s = DOMAIN h
      /\ \A i \in DOMAIN h : h[i] \in TextType /\ s[i] = Text(h[i])
  BY TextsEntries
<1>2. \A i \in DOMAIN h : s[i].fn = "printf" /\ s[i].by = h[i][1] /\ s[i].what = h[i][2]
  BY <1>1, TextEntry
<1> HIDE DEF s
<1>3. /\ DOMAIN t = 1 .. Len(t) /\ DOMAIN s = 1 .. Len(s) /\ Len(t) \in Nat /\ Len(s) \in Nat
      /\ DOMAIN u = 1 .. (Len(t) + Len(s))
      /\ \A i \in DOMAIN t : u[i] = t[i]
      /\ \A i \in DOMAIN u : i \notin DOMAIN t => i - Len(t) \in DOMAIN s /\ u[i] = s[i - Len(t)]
  BY <1>1, Behind
<1> HIDE DEF u
<1>4. \A i \in DOMAIN u : u[i].fn = "printf" => u[i].by = Caller /\ u[i].what <= n
  <2> SUFFICES ASSUME NEW i \in DOMAIN u, u[i].fn = "printf"
               PROVE  u[i].by = Caller /\ u[i].what <= n
    OBVIOUS
  <2>1. CASE i \in DOMAIN t
    BY <1>3, <2>1 DEF Clean
  <2>2. CASE i \notin DOMAIN t
    <3> DEFINE k == i - Len(t)
    <3>1. k \in DOMAIN h /\ u[i] = s[k]
      BY <1>1, <1>3, <2>2
    <3>2. h[k][1] = Caller /\ h[k][2] <= n
      BY <3>1 DEF Clean
    <3> QED
      BY <1>2, <3>1, <3>2
  <2> QED
    BY <2>1, <2>2
<1>5. \A i, j \in DOMAIN s : s[i] = s[j] => i = j
  BY <1>1, TextInjective DEF Clean
<1>6. \A i \in DOMAIN t, j \in DOMAIN s : t[i] # s[j]
  BY <1>1 DEF Clean
<1>7. ASSUME NEW i \in DOMAIN u, NEW j \in DOMAIN u, u[i].fn = "printf", u[i] = u[j]
      PROVE  i = j
  <2>1. CASE i \in DOMAIN t /\ j \in DOMAIN t
    BY <1>3, <1>7, <2>1 DEF Clean
  <2>2. CASE i \in DOMAIN t /\ j \notin DOMAIN t
    BY <1>3, <1>6, <1>7, <2>2
  <2>3. CASE i \notin DOMAIN t /\ j \in DOMAIN t
    BY <1>3, <1>6, <1>7, <2>3
  <2>4. CASE i \notin DOMAIN t /\ j \notin DOMAIN t
    <3>1. /\ i - Len(t) \in DOMAIN s /\ u[i] = s[i - Len(t)]
          /\ j - Len(t) \in DOMAIN s /\ u[j] = s[j - Len(t)]
      BY <1>3, <2>4
    <3>2. i - Len(t) = j - Len(t)
      BY <1>5, <1>7, <3>1
    <3> QED
      BY <1>3, <3>2
  <2> QED
    BY <2>1, <2>2, <2>3, <2>4
<1>8. Clean(u, <<>>, n)
  BY <1>4, <1>7 DEF Clean
<1> QED
  BY <1>8 DEF u, s

LEMMA CleanHold ==
    ASSUME NEW t \in Seq(Entries), NEW h \in Seq(TextType), NEW n \in 0 .. MaxTexts, n < MaxTexts,
           Clean(t, h, n)
    PROVE  Clean(t, Append(h, <<Caller, n + 1>>), n + 1)
<1> DEFINE new == <<Caller, n + 1>>
           g == Append(h, new)
<1>1. new \in TextType /\ n \in Nat
  BY ErrorExitsAssumption DEF TextType, Processes
<1>2. /\ new[1] = Caller /\ new[2] = n + 1
      /\ Text(new).fn = "printf" /\ Text(new).what = n + 1
  BY <1>1, TextEntry
<1> HIDE DEF new, TextType
<1>3. /\ DOMAIN h = 1 .. Len(h) /\ Len(h) \in Nat /\ DOMAIN g = 1 .. Len(h) + 1
      /\ \A i \in DOMAIN h : g[i] = h[i] /\ h[i] \in TextType
      /\ g[Len(h) + 1] = new
  BY <1>1
<1> HIDE DEF g
<1>4. \A i \in DOMAIN h : h[i][2] \in Nat
  BY <1>3, ErrorExitsAssumption DEF TextType
<1>5. \A i \in DOMAIN t : t[i] \in Entries
  OBVIOUS
<1>6. \A i \in DOMAIN t : t[i].what \in Nat
  BY <1>5 DEF Entries
<1>7. \A i \in DOMAIN t : t[i].fn = "printf" => t[i].by = Caller /\ t[i].what <= n + 1
  BY <1>1, <1>6 DEF Clean
<1>8. \A i \in DOMAIN g : g[i][1] = Caller /\ g[i][2] <= n + 1
  BY <1>1, <1>2, <1>3, <1>4 DEF Clean
<1>9. \A i \in DOMAIN h : h[i] # new
  BY <1>1, <1>2, <1>4 DEF Clean
<1>10. \A i, j \in DOMAIN g : g[i] = g[j] => i = j
  BY <1>3, <1>9 DEF Clean
<1>11. \A i \in DOMAIN t : t[i] # Text(new)
  BY <1>1, <1>2, <1>6 DEF Clean
<1>12. \A i \in DOMAIN t, j \in DOMAIN g : t[i] # Text(g[j])
  BY <1>3, <1>11 DEF Clean
<1>13. Clean(t, g, n + 1)
  BY <1>7, <1>8, <1>10, <1>12 DEF Clean
<1> QED
  BY <1>13 DEF g, new

LEMMA CleanMessage ==
    ASSUME NEW t \in Seq(Entries), NEW h \in Seq(TextType), NEW n \in Nat, Clean(t, h, n),
           NEW m \in Entries, m.fn # "printf"
    PROVE  Clean(Append(t, m), h, n)
<1> DEFINE u == Append(t, m)
<1> HIDE DEF Entries
<1>1. /\ DOMAIN t = 1 .. Len(t) /\ Len(t) \in Nat /\ DOMAIN u = 1 .. Len(t) + 1
      /\ \A i \in DOMAIN t : u[i] = t[i]
      /\ u[Len(t) + 1] = m
  OBVIOUS
<1>2. \A j \in DOMAIN h : Text(h[j]).fn = "printf"
  BY TextsEntries, TextEntry
<1> HIDE DEF u
<1>3. \A i \in DOMAIN u : u[i].fn = "printf" => i \in DOMAIN t
  BY <1>1
<1>4. \A i \in DOMAIN u : u[i].fn = "printf" => u[i].by = Caller /\ u[i].what <= n
  BY <1>1, <1>3 DEF Clean
<1>5. \A i, j \in DOMAIN u : u[i].fn = "printf" /\ u[i] = u[j] => i = j
  BY <1>1, <1>3 DEF Clean
<1>6. \A i \in DOMAIN u, j \in DOMAIN h : u[i] # Text(h[j])
  BY <1>1, <1>2, <1>3 DEF Clean
<1>7. Clean(u, h, n)
  BY <1>4, <1>5, <1>6 DEF Clean
<1> QED
  BY <1>7 DEF u

(* A child that is discreet after a step was discreet before it.           *)
LEMMA DiscreetBefore ==
    ASSUME TypeOK, Places, [Next]_vars, NEW c \in Children, Discreet(c)'
    PROVE  Discreet(c)
<1>0. c \in Processes /\ Caller \in Processes /\ c # Caller
  BY ErrorExitsAssumption DEF Processes
<1>1. CASE printed'[c] = printed[c] /\ calls'[c] = calls[c] /\ (status[c] = "exited" => status'[c] = "exited")
  BY <1>1 DEF Discreet
<1>2. ASSUME NEW p \in Processes, Printf(p) PROVE Discreet(c)
  <2>1. p # c
    <3>1. SUFFICES ASSUME p = c PROVE FALSE
      OBVIOUS
    <3>2. printed'[c] = printed[c] + 1 /\ printed[c] \in Nat
      BY <1>2, <3>1, ErrorExitsAssumption DEF Printf, TypeOK
    <3> QED
      BY <3>2 DEF Discreet
  <2> QED
    BY <1>1, <1>2, <2>1 DEF Printf, TypeOK
<1>3. ASSUME NEW p \in Processes, NEW fn \in Functions, NEW n \in Errnos \cup {0}, Enter(p, fn, n)
      PROVE  Discreet(c)
  <2>1. CASE p # c
    BY <1>1, <1>3, <2>1 DEF Enter, TypeOK
  <2>2. CASE p = c
    <3>1. /\ calls'[c] = Append(calls[c], fn) /\ calls[c] \in Seq(Functions)
          /\ printed' = printed /\ status[c] = "running"
      BY <1>3, <2>2 DEF Enter, InMain, TypeOK
    <3>2. calls[c] = <<>>
      <4> DEFINE s == calls[c]
      <4>1. Append(s, fn) \in {<<>>, <<"err_exit">>} /\ s \in Seq(Functions)
        BY <3>1 DEF Discreet
      <4> HIDE DEF s, Functions
      <4>2. Len(Append(s, fn)) = Len(s) + 1 /\ Len(s) \in Nat
        BY <4>1
      <4>3. Len(Append(s, fn)) \in {0, 1}
        BY <4>1
      <4>4. s = <<>>
        BY <4>1, <4>2, <4>3
      <4> QED
        BY <4>4 DEF s
    <3> QED
      BY <3>1, <3>2 DEF Discreet
  <2> QED
    BY <2>1, <2>2
<1>4. ASSUME NEW p \in Processes,
             \/ EndNormally(p) \/ Flush(p) \/ Show(p) \/ ShowUsage(p) \/ Return(p) \/ Terminate(p)
             \/ \E e \in Errnos : Fail(p, e)
      PROVE  Discreet(c)
  <2>1. printed' = printed /\ calls' = calls
    BY <1>4 DEF EndNormally, Flush, Show, ShowUsage, Return, Terminate, Fail
  <2>2. status[c] = "exited" => status'[c] = "exited"
    <3>1. CASE EndNormally(p)
      BY <1>0, <3>1 DEF EndNormally, Exit, TypeOK
    <3>2. CASE Terminate(p)
      BY <1>0, <3>2 DEF Terminate, Exit, At, TypeOK
    <3>3. CASE status' = status
      BY <3>3
    <3> QED
      BY <1>4, <3>1, <3>2, <3>3 DEF Flush, Show, ShowUsage, Return, Fail
  <2> QED
    BY <1>1, <2>1, <2>2
<1>5. ASSUME NEW d \in Children, Fork(d) PROVE Discreet(c)
  <2>1. status[c] = "exited" => status'[c] = "exited"
    BY <1>0, <1>5 DEF Fork, TypeOK
  <2> QED
    BY <1>1, <1>5, <2>1 DEF Fork
<1>6. CASE UNCHANGED vars
  BY <1>1, <1>6 DEF vars
<1> QED
  BY <1>2, <1>3, <1>4, <1>5, <1>6 DEF Next, Program, Function

LEMMA OnceStep == TypeOK /\ Places /\ Once /\ [Next]_vars => Once'
<1> SUFFICES ASSUME TypeOK, Places, Once, [Next]_vars, AllDiscreet'
             PROVE  Clean(terminal, stdout[Caller], printed[Caller])' /\ cleaned' \subseteq {Caller}
  BY DEF Once
<1> DEFINE h == stdout[Caller]
           n == printed[Caller]
           Goal == Clean(terminal', h', n') /\ cleaned' \subseteq {Caller}
<1>0. /\ Caller \in Processes /\ Caller \notin Children
      /\ \A c \in Processes : c # Caller => c \in Children
      /\ terminal \in Seq(Entries) /\ h \in Seq(TextType) /\ n \in 0 .. MaxTexts /\ n \in Nat
  BY ErrorExitsAssumption DEF Processes, TypeOK
<1>1. \A c \in Children : Discreet(c) /\ Discreet(c)'
  BY DiscreetBefore DEF AllDiscreet
<1>2. Clean(terminal, h, n) /\ cleaned \subseteq {Caller}
  BY <1>1 DEF Once, AllDiscreet
(* Where a discreet child is.                                              *)
<1>3. \A c \in Children : /\ step[c] # "main" => call[c].fn = "err_exit" /\ step[c] # "flush"
                          /\ printed'[c] = 0 /\ status'[c] # "exited"
  <2> SUFFICES ASSUME NEW c \in Children
               PROVE  /\ step[c] # "main" => call[c].fn = "err_exit" /\ step[c] # "flush"
                      /\ printed'[c] = 0 /\ status'[c] # "exited"
    OBVIOUS
  <2>1. Discreet(c) /\ Discreet(c)' /\ c \in Processes
    BY <1>1 DEF Processes
  <2>2. Places'
    BY PlacesStep
  <2>3. step[c] # "main" => call[c].fn = "err_exit" /\ step[c] # "flush"
    BY <2>1 DEF Places, LastCall, Discreet
  <2>4. status'[c] = "exited" => FALSE
    BY <2>1, <2>2 DEF Places, LastCall, Discreet
  <2> QED
    BY <2>1, <2>3, <2>4 DEF Discreet
<1>4. ASSUME NEW p \in Processes, Printf(p) PROVE Goal
  <2>1. p = Caller
    <3> SUFFICES ASSUME p \in Children PROVE FALSE
      BY <1>0
    <3> QED
      <4>1. printed'[p] = printed[p] + 1 /\ printed[p] \in Nat
        BY <1>4, ErrorExitsAssumption DEF Printf, TypeOK
      <4> QED
        BY <1>3, <4>1
  <2> DEFINE held == Append(h, <<Caller, n + 1>>)
  <2>2. /\ n < MaxTexts /\ n' = n + 1 /\ cleaned' = cleaned
        /\ h' = IF Full(held) THEN <<>> ELSE held
        /\ terminal' = IF Full(held) THEN terminal \o Texts(held) ELSE terminal
    BY <1>0, <1>4, <2>1 DEF Printf, TypeOK
  <2>3. Clean(terminal, held, n + 1)
    BY <1>0, <1>2, <2>2, CleanHold
  <2>4. held \in Seq(TextType) /\ n + 1 \in Nat
    BY <1>0, <2>2, ErrorExitsAssumption DEF TextType
  <2> HIDE DEF held, h, n
  <2>5. CASE Full(held)
    BY <1>0, <1>2, <2>2, <2>3, <2>4, <2>5, CleanOut
  <2>6. CASE ~Full(held)
    BY <1>2, <2>2, <2>3, <2>6
  <2> QED
    BY <2>5, <2>6
<1>5. ASSUME NEW p \in Processes, EndNormally(p) \/ Flush(p) \/ Terminate(p) PROVE Goal
  <2>1. printed' = printed
    BY <1>5 DEF EndNormally, Flush, Terminate
  <2>2. CASE terminal' = terminal /\ stdout' = stdout /\ cleaned' = cleaned
    BY <1>2, <2>1, <2>2
  <2>3. CASE /\ Exit(p) \/ Flush(p)
             /\ terminal' = terminal \o Texts(stdout[p]) /\ stdout' = [stdout EXCEPT ![p] = <<>>]
             /\ cleaned' \subseteq cleaned \cup {p}
    <3>1. p = Caller
      <4> SUFFICES ASSUME p \in Children PROVE FALSE
        BY <1>0
      <4>1. ~Flush(p)
        BY <1>3 DEF Flush, At
      <4>2. ~Exit(p)
        <5>1. Exit(p) => status'[p] = "exited"
          BY DEF Exit, TypeOK
        <5> QED
          BY <1>3, <5>1
      <4> QED
        BY <2>3, <4>1, <4>2
    <3>2. Clean(terminal \o Texts(h), <<>>, n)
      BY <1>0, <1>2, CleanOut
    <3>3. h' = <<>> /\ n' = n
      BY <1>0, <2>1, <2>3, <3>1 DEF TypeOK
    <3> QED
      BY <1>2, <2>3, <3>1, <3>2, <3>3
  <2> QED
    BY <1>5, <2>2, <2>3 DEF EndNormally, Flush, Terminate, Exit
<1>6. ASSUME NEW p \in Processes, Show(p) \/ ShowUsage(p) PROVE Goal
  <2>1. /\ step[p] # "main" /\ terminal' = Append(terminal, Message(p))
        /\ stdout' = stdout /\ printed' = printed /\ cleaned' = cleaned
    BY <1>6 DEF Show, ShowUsage, At
  <2>2. Message(p) \in Entries /\ Message(p).fn # "printf"
    BY <2>1, MessageEntry
  <2>3. Clean(Append(terminal, Message(p)), h, n)
    BY <1>0, <1>2, <2>2, CleanMessage
  <2> QED
    BY <1>2, <2>1, <2>3
<1>7. ASSUME NEW c \in Children, Fork(c) PROVE Goal
  <2>1. terminal' = terminal /\ printed' = printed /\ cleaned' = cleaned /\ h' = h
    BY <1>0, <1>7 DEF Fork, TypeOK
  <2> QED
    BY <1>2, <2>1
<1>8. ASSUME terminal' = terminal, stdout' = stdout, printed' = printed, cleaned' = cleaned
      PROVE  Goal
  BY <1>2, <1>8
<1>9. ASSUME NEW p \in Processes,
             \/ \E e \in Errnos : Fail(p, e)
             \/ \E fn \in Functions, m \in Errnos \cup {0} : Enter(p, fn, m)
             \/ Return(p)
      PROVE  Goal
  BY <1>8, <1>9 DEF Fail, Enter, Return
<1>10. CASE UNCHANGED vars
  BY <1>8, <1>10 DEF vars
<1>11. Goal
  BY <1>4, <1>5, <1>6, <1>7, <1>9, <1>10 DEF Next, Program, Function
<1> QED
  BY <1>11

-----------------------------------------------------------------------------
(* The theorems.                                                           *)

LEMMA Inductive == IInv /\ [Next]_vars => IInv'
<1> SUFFICES ASSUME IInv, [Next]_vars PROVE IInv'
  OBVIOUS
<1>1. TypeOK /\ Places
  BY DEF IInv, Places
<1>2. TypeOK' /\ ErrnoTransparent' /\ Places' /\ Accounted' /\ After' /\ Once'
  BY <1>1, TypeStep, ErrnoStep, PlacesStep, OutputStep, OnceStep DEF IInv
<1> QED
  BY <1>2 DEF IInv, Places

LEMMA Always == Spec => []IInv
  BY InitEstablishes, Inductive, PTL DEF Spec

(* What a process has printed and what its messages say of it.             *)
LEMMA Ordered == IInv => OutputBeforeError
<1> SUFFICES ASSUME IInv PROVE OutputBeforeError
  OBVIOUS
<1>1. ASSUME NEW p \in Processes, status[p] \in {"exited", "aborted"}, call[p].fn # "err_exit",
             NEW n \in 1 .. printed[p]
      PROVE  \E i \in DOMAIN terminal : terminal[i] = Text(<<p, n>>)
  <2>1. stdout[p] = <<>>
    BY <1>1 DEF IInv, Flushed
  <2> QED
    BY <1>1, <2>1 DEF IInv, Accounted, Held, OnTerminal
<1> QED
  BY <1>1 DEF IInv, After, OutputBeforeError

(* errMsg leaves errno alone, and messages name the error that was there.  *)
THEOREM ErrnoKept == Spec => []ErrnoTransparent
<1>1. IInv => ErrnoTransparent
  BY DEF IInv
<1> QED
  BY <1>1, Always, PTL

(* Except for err_exit, no message overtakes a text, and no text is lost.  *)
THEOREM NothingOvertaken == Spec => []OutputBeforeError
  BY Ordered, Always, PTL

(* Children that end with err_exit alone repeat nothing of their parent's. *)
THEOREM NothingRepeated == Spec => []CallersTextOnce
<1>1. IInv => CallersTextOnce
  <2> SUFFICES ASSUME IInv, AllDiscreet PROVE CallersTextOnce
    BY DEF AllDiscreet, CallersTextOnce
  <2> QED
    BY DEF IInv, Once, Clean, CallersTextOnce
<1> QED
  BY <1>1, Always, PTL
=============================================================================
