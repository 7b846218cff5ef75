-------------------------------- MODULE Tail --------------------------------
(***************************************************************************)
(* src/tlpi/c13/13.5.c, tail [-n lines] file: windows of the file are read *)
(* backwards from its end and their newlines counted, then everything from *)
(* the place found is copied to standard output.  Another process may      *)
(* append to the file at any time.  Positions count from 0, as lseek does. *)
(***************************************************************************)
EXTENDS Integers, Sequences, FiniteSetsExt

CONSTANTS
    BUF_SIZE,    \* bytes of a window
    Contents,    \* what the file may hold at first: sequences of NL and letters
    NL,          \* the newline
    LineCounts,  \* arguments of -n
    MaxGrowth    \* bound on the bytes appended meanwhile

Letters == {NL, "x"} \cup UNION {{t[i] : i \in DOMAIN t} : t \in Contents}

(* With windows of one byte the first would lie behind the end.            *)
TailAssumption ==
    /\ BUF_SIZE \in Nat /\ BUF_SIZE > 1
    /\ LineCounts \subseteq Int
    /\ Contents \subseteq Seq(Letters)

VARIABLES
    tstep,     \* "idle", "sized", "read", "print", "ok" or "failed"
    lines,     \* the newlines still to find; counts down below 0
    asked,     \* the argument
    text,      \* the file
    size,      \* its length when lseek found its end
    curr_pos,  \* where the window starts
    bytes_to_read,
    offset,    \* the descriptor's
    shown      \* what has been printed

vars == <<tstep, lines, asked, text, size, curr_pos, bytes_to_read, offset, shown>>

Init ==
    /\ tstep = "idle" /\ lines = 0 /\ asked = 0
    /\ text = <<>> /\ size = 0
    /\ curr_pos = 0 /\ bytes_to_read = 0 /\ offset = 0 /\ shown = <<>>

(* Nothing is read, not even opened, for no lines; a file that cannot be   *)
(* opened ends the program, as a usage error does.                         *)
Main(n, t) ==
    /\ tstep = "idle"
    /\ lines' = n /\ asked' = n /\ text' = t
    /\ \/ n = 0 /\ tstep' = "ok" /\ UNCHANGED size
       \/ n # 0 /\ tstep' = "sized" /\ size' = Len(t)
       \/ tstep' = "failed" /\ UNCHANGED size
    /\ UNCHANGED <<curr_pos, bytes_to_read, offset, shown>>

FirstWindow(s) == Max({0, s - BUF_SIZE + 1})

FindWindow ==
    /\ tstep = "sized" /\ tstep' = "read"
    /\ curr_pos' = FirstWindow(size) /\ offset' = FirstWindow(size)
    /\ bytes_to_read' = BUF_SIZE
    /\ UNCHANGED <<lines, asked, text, size, shown>>

(* The window as read, and its newlines from the last one back.            *)
Window == SubSeq(text, offset + 1, Min({offset + bytes_to_read, Len(text)}))
Newlines(s) == {i \in DOMAIN s : s[i] = NL}
Nth(s, n) == CHOOSE i \in Newlines(s) : Cardinality({j \in Newlines(s) : j >= i}) = n

(* The newline that brings lines below 0, or the window's first byte when  *)
(* lines was negative from the start.                                      *)
Passed == IF lines < 0 THEN 1 ELSE lines + 1
Enough(s) == Cardinality(Newlines(s)) >= Passed
StartOf(s) == IF Enough(s) THEN Nth(s, Passed) ELSE 0

Shorter(pos) == Max({0, pos - BUF_SIZE})
WholeWindow(pos) == BUF_SIZE
NextLength(pos) == IF pos >= BUF_SIZE THEN bytes_to_read ELSE pos

ReadWindow ==
    /\ tstep = "read" /\ Window # <<>>
    /\ IF Enough(Window) \/ lines < 0
       THEN /\ tstep' = "print" /\ lines' = -1
            /\ offset' = curr_pos + StartOf(Window)
            /\ UNCHANGED <<curr_pos, bytes_to_read>>
       ELSE /\ lines' = lines - Cardinality(Newlines(Window))
            /\ curr_pos' = Shorter(curr_pos) /\ offset' = Shorter(curr_pos)
            /\ bytes_to_read' = NextLength(curr_pos)
            /\ UNCHANGED tstep
    /\ UNCHANGED <<asked, text, size, shown>>

NothingToRead ==
    /\ tstep = "read" /\ Window = <<>> /\ tstep' = "print"
    /\ UNCHANGED <<lines, asked, text, size, curr_pos, bytes_to_read, offset, shown>>

CopyOut ==
    /\ tstep = "print" /\ offset < Len(text)
    /\ shown' = Append(shown, text[offset + 1]) /\ offset' = offset + 1
    /\ UNCHANGED <<tstep, lines, asked, text, size, curr_pos, bytes_to_read>>

EndOfText ==
    /\ tstep = "print" /\ offset = Len(text) /\ tstep' = "ok"
    /\ UNCHANGED <<lines, asked, text, size, curr_pos, bytes_to_read, offset, shown>>

CallFails ==
    /\ tstep \in {"sized", "read", "print"} /\ tstep' = "failed"
    /\ UNCHANGED <<lines, asked, text, size, curr_pos, bytes_to_read, offset, shown>>

OtherAppends(byte) ==
    /\ tstep \in {"sized", "read", "print"} /\ Len(text) < size + MaxGrowth
    /\ text' = Append(text, byte)
    /\ UNCHANGED <<tstep, lines, asked, size, curr_pos, bytes_to_read, offset, shown>>

Next ==
    \/ \E n \in LineCounts, t \in Contents : Main(n, t)
    \/ FindWindow \/ ReadWindow \/ NothingToRead \/ CopyOut \/ EndOfText \/ CallFails
    \/ \E byte \in {NL, "x"} : OtherAppends(byte)

(* However the windows fall: what is printed is the file from some point   *)
(* to its end, and for a number of lines n the point is the file's start   *)
(* or just behind a newline, with n newlines (at the start: at most n)     *)
(* between it and the end the file had when it was opened or, if the first *)
(* window caught bytes appended since, a later one.                        *)
LastLines ==
    tstep = "ok" /\ asked # 0 =>
        LET p == Len(text) - Len(shown)
            between(e) == Cardinality(Newlines(SubSeq(text, p + 1, e)))
        IN  /\ shown = SubSeq(text, p + 1, Len(text))
            /\ asked > 0 => /\ p = 0 \/ text[p] = NL
                            /\ \E e \in size .. Min({Len(text), Max({size + 1, BUF_SIZE})}) :
                                  between(e) = asked \/ (p = 0 /\ between(e) <= asked)
=============================================================================
