----------------------------- MODULE ErrorExits -----------------------------
(***************************************************************************)
(* The error functions of src/tlpi/lib/error_functions.c, called by a      *)
(* program and by the children it forks (as src/tlpi/c57 does).  Standard  *)
(* output is buffered in each process, a child starts with a copy of its   *)
(* parent's buffer and exit handlers, and standard error goes straight to  *)
(* the terminal both share.  Texts are pairs <<process, number>>.          *)
(***************************************************************************)
EXTENDS Naturals, Sequences, FiniteSetsExt

CONSTANTS
    Caller,    \* the process that runs first
    Children,  \* those it may fork
    BufSize,   \* texts stdio's buffer holds before it is written out
    Errnos,    \* error numbers; 0 is none of them
    MaxTexts,  \* bound on the texts a process prints
    MaxCalls   \* bound on the calls of error functions, all processes together

ASSUME ErrorExitsAssumption ==
    /\ Caller \notin Children /\ BufSize \in Nat \ {0}
    /\ Errnos \subseteq Nat \ {0} /\ Errnos # {}
    /\ MaxTexts \in Nat /\ MaxCalls \in Nat

Processes == {Caller} \cup Children

VARIABLES
    status,    \* "none", "running", "exited" (exit), "quit" (_exit) or "aborted"
    dumpcore,  \* EF_DUMPCORE is set and not empty
    errno,
    stdout,    \* what stdio has not written yet
    terminal,  \* texts and error messages, as they appear
    cleaned,   \* processes that ran the caller's exit handlers
    step,      \* "main", or where the process is in an error function
    call,      \* the call in progress: [fn, err], err the error it reports
    printed,   \* how many texts the process has printed
    calls,     \* the error functions it has called, in order
    cause      \* the error the process's own last failure has left in errno

vars == <<status, dumpcore, errno, stdout, terminal, cleaned, step, call,
          printed, calls, cause>>

-----------------------------------------------------------------------------
Functions == {"errMsg", "errExit", "err_exit", "errExitEN", "fatal", "usageErr", "cmdLineErr"}
Returns == {"errMsg"}
Usage == {"usageErr", "cmdLineErr"}

(* Arguments the functions give outputError and terminate.                 *)
FlushNever(fn) == FALSE
FlushAlways(fn) == TRUE
FlushStdout(fn) == fn # "err_exit"
UseExit3(fn) == fn # "err_exit"

(* Which error number the message names.                                   *)
Named(fn, current, given) ==
    CASE fn = "errExitEN" -> given
      [] fn \in {"fatal", "usageErr", "cmdLineErr"} -> 0
      [] OTHER -> current

NoCall == [fn |-> "none", err |-> 0]
CallTypes == [fn : Functions, err : Errnos \cup {0}] \cup {NoCall}

Text(t) == [by |-> t[1], fn |-> "printf", what |-> t[2], after |-> 0]
Texts(s) == [i \in DOMAIN s |-> Text(s[i])]

(* A message carries the number of texts its process had printed before.   *)
Message(p) == [by |-> p, fn |-> call[p].fn, what |-> call[p].err, after |-> printed[p]]

Init ==
    /\ status = [p \in Processes |-> IF p = Caller THEN "running" ELSE "none"]
    /\ dumpcore \in BOOLEAN
    /\ errno = [p \in Processes |-> 0] /\ cause = [p \in Processes |-> 0]
    /\ stdout = [p \in Processes |-> <<>>]
    /\ terminal = <<>> /\ cleaned = {}
    /\ step = [p \in Processes |-> "main"]
    /\ call = [p \in Processes |-> NoCall]
    /\ printed = [p \in Processes |-> 0]
    /\ calls = [p \in Processes |-> <<>>]

InMain(p) == status[p] = "running" /\ step[p] = "main"
At(p, where) == status[p] = "running" /\ step[p] = where
GoTo(p, where) == step' = [step EXCEPT ![p] = where]

-----------------------------------------------------------------------------
(* The programs that use the functions.                                    *)

FullLate(held) == Len(held) > BufSize
Full(held) == Len(held) = BufSize

(* printf; a full buffer is written at once.                               *)
Printf(p) ==
    /\ InMain(p) /\ printed[p] < MaxTexts
    /\ LET held == Append(stdout[p], <<p, printed[p] + 1>>)
           full == Full(held)
       IN  /\ stdout' = [stdout EXCEPT ![p] = IF full THEN <<>> ELSE held]
           /\ terminal' = IF full THEN terminal \o Texts(held) ELSE terminal
    /\ printed' = [printed EXCEPT ![p] = @ + 1]
    /\ UNCHANGED <<status, dumpcore, errno, cleaned, step, call, calls, cause>>

(* The child has copies of the buffer and of errno.                        *)
Fork(c) ==
    /\ InMain(Caller) /\ status[c] = "none"
    /\ status' = [status EXCEPT ![c] = "running"]
    /\ stdout' = [stdout EXCEPT ![c] = stdout[Caller]]
    /\ errno' = [errno EXCEPT ![c] = errno[Caller]]
    /\ cause' = [cause EXCEPT ![c] = errno[Caller]]
    /\ UNCHANGED <<dumpcore, terminal, cleaned, step, call, printed, calls>>

(* Some call of the program's own fails.                                   *)
Fail(p, e) ==
    /\ InMain(p) /\ cause[p] # e
    /\ errno' = [errno EXCEPT ![p] = e]
    /\ cause' = [cause EXCEPT ![p] = e]
    /\ UNCHANGED <<status, dumpcore, stdout, terminal, cleaned, step, call, printed, calls>>

(* exit runs the handlers and writes the buffer; _exit and abort do not.   *)
Exit(p) ==
    /\ status' = [status EXCEPT ![p] = "exited"]
    /\ cleaned' = cleaned \cup {p}
    /\ terminal' = terminal \o Texts(stdout[p])
    /\ stdout' = [stdout EXCEPT ![p] = <<>>]

EndNormally(p) ==
    /\ InMain(p)
    /\ Exit(p)
    /\ UNCHANGED <<dumpcore, errno, step, call, printed, calls, cause>>

-----------------------------------------------------------------------------
(* The functions.                                                          *)

CallsMade == MapThenSumSet(LAMBDA q : Len(calls[q]), Processes)

Enter(p, fn, errnum) ==
    /\ InMain(p) /\ CallsMade < MaxCalls
    /\ errnum # 0 <=> fn = "errExitEN"
    /\ call' = [call EXCEPT ![p] = [fn |-> fn, err |-> Named(fn, errno[p], errnum)]]
    /\ calls' = [calls EXCEPT ![p] = Append(@, fn)]
    /\ GoTo(p, IF FlushStdout(fn) THEN "flush" ELSE "message")
    /\ UNCHANGED <<status, dumpcore, errno, stdout, terminal, cleaned, printed, cause>>

(* fflush(stdout), which may leave any error number behind.                *)
Flush(p) ==
    /\ At(p, "flush")
    /\ terminal' = terminal \o Texts(stdout[p])
    /\ stdout' = [stdout EXCEPT ![p] = <<>>]
    /\ \E e \in Errnos \cup {errno[p]} : errno' = [errno EXCEPT ![p] = e]
    /\ GoTo(p, "message")
    /\ UNCHANGED <<status, dumpcore, cleaned, call, printed, calls, cause>>

(* fputs(buf, stderr); a usage message is written in two pieces, first the *)
(* word that announces it.                                                 *)
Show(p) ==
    /\ At(p, "message")
    /\ terminal' = Append(terminal, Message(p))
    /\ GoTo(p, IF call[p].fn \in Usage THEN "usage" ELSE "end")
    /\ UNCHANGED <<status, dumpcore, errno, stdout, cleaned, call, printed, calls, cause>>

ShowUsage(p) ==
    /\ At(p, "usage")
    /\ terminal' = Append(terminal, Message(p))
    /\ GoTo(p, "end")
    /\ UNCHANGED <<status, dumpcore, errno, stdout, cleaned, call, printed, calls, cause>>

KeepErrno(p) == errno[p]
RestoreErrno(p) == call[p].err

(* errMsg goes back to its caller.                                         *)
Return(p) ==
    /\ At(p, "end") /\ call[p].fn \in Returns
    /\ errno' = [errno EXCEPT ![p] = RestoreErrno(p)]
    /\ call' = [call EXCEPT ![p] = NoCall]
    /\ GoTo(p, "main")
    /\ UNCHANGED <<status, dumpcore, stdout, terminal, cleaned, printed, calls, cause>>

(* terminate; usageErr and cmdLineErr call exit themselves.                *)
Dumps(p) == dumpcore /\ call[p].fn \notin Usage

Terminate(p) ==
    /\ At(p, "end") /\ call[p].fn \notin Returns
    /\ IF ~Dumps(p) /\ UseExit3(call[p].fn)
       THEN Exit(p)
       ELSE /\ status' = [status EXCEPT ![p] = IF Dumps(p) THEN "aborted" ELSE "quit"]
            /\ UNCHANGED <<cleaned, terminal, stdout>>
    /\ UNCHANGED <<dumpcore, errno, step, call, printed, calls, cause>>

-----------------------------------------------------------------------------
Program(p) == \/ Printf(p) \/ EndNormally(p)
              \/ \E e \in Errnos : Fail(p, e)
Function(p) == \/ \E fn \in Functions, n \in Errnos \cup {0} : Enter(p, fn, n)
               \/ Flush(p) \/ Show(p) \/ ShowUsage(p) \/ Return(p) \/ Terminate(p)

Next == \/ \E p \in Processes : Program(p) \/ Function(p)
        \/ \E c \in Children : Fork(c)

Spec == Init /\ [][Next]_vars

-----------------------------------------------------------------------------
TextType == Processes \X (1 .. MaxTexts)
Entries == [by : Processes, fn : Functions \cup {"printf"}, what : Nat, after : 0 .. MaxTexts]

(* The variables have their types; no buffer is left full, and only a      *)
(* process in an error function has a call.                                *)
TypeOK ==
    /\ status \in [Processes -> {"none", "running", "exited", "quit", "aborted"}]
    /\ dumpcore \in BOOLEAN
    /\ errno \in [Processes -> Errnos \cup {0}] /\ cause \in [Processes -> Errnos \cup {0}]
    /\ stdout \in [Processes -> Seq(TextType)]
    /\ \A p \in Processes : Len(stdout[p]) < BufSize
    /\ terminal \in Seq(Entries)
    /\ cleaned \subseteq Processes
    /\ step \in [Processes -> {"main", "flush", "message", "usage", "end"}]
    /\ call \in [Processes -> CallTypes]
    /\ \A p \in Processes : step[p] = "main" <=> call[p] = NoCall
    /\ printed \in [Processes -> 0 .. MaxTexts]
    /\ calls \in [Processes -> Seq(Functions)]

(* The process has printed nothing of its own and called only err_exit, as *)
(* the comment at error_functions.c:107 wants it of a library's child.     *)
Discreet(c) ==
    /\ printed[c] = 0 /\ calls[c] \in {<<>>, <<"err_exit">>}
    /\ status[c] # "exited" \/ calls[c] # <<>>

(* When every child is discreet, nothing the caller had in its buffer at   *)
(* a fork appears twice on the terminal, and only the caller runs its      *)
(* exit handlers.                                                          *)
CallersTextOnce ==
    (\A c \in Children : Discreet(c)) =>
        /\ \A i, j \in DOMAIN terminal :
              terminal[i].fn = "printf" /\ terminal[i] = terminal[j] => i = j
        /\ cleaned \subseteq {Caller}

(* A message of a function other than err_exit comes after everything its  *)
(* process has printed before, also when the process then aborts; so what  *)
(* a process printed is lost only through err_exit.                        *)
OutputBeforeError ==
    /\ \A k \in DOMAIN terminal : terminal[k].fn \notin {"printf", "err_exit"} =>
          \A n \in 1 .. terminal[k].after :
              \E i \in 1 .. k : terminal[i] = Text(<<terminal[k].by, n>>)
    /\ \A p \in Processes : status[p] \in {"exited", "aborted"} /\ call[p].fn # "err_exit" =>
          \A n \in 1 .. printed[p] : \E i \in DOMAIN terminal : terminal[i] = Text(<<p, n>>)

(* The program never sees an error number its own calls have not set, and  *)
(* errMsg, errExit and err_exit name the one it had when it called them,   *)
(* whatever writing the messages did to errno.                             *)
ErrnoTransparent ==
    \A p \in Processes :
        /\ step[p] = "main" => errno[p] = cause[p]
        /\ call[p].fn \in {"errMsg", "errExit", "err_exit"} => call[p].err = cause[p]
=============================================================================
