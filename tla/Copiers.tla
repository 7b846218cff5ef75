------------------------------ MODULE Copiers ------------------------------
(***************************************************************************)
(* The programs of src/tlpi that copy one file to another: c4/ccp.c,       *)
(* c13/13.1.c ("copy"), c4/cp.c (leaves holes for null bytes), c4/tee.c,   *)
(* c13/13.2.c ("write_bytes", whose source is its own buffer, again and    *)
(* again) and c49/49.1.c ("mmap").  They differ in whether an existing     *)
(* target is truncated and in which failures and short writes they notice. *)
(* The target may be the source itself.                                    *)
(*                                                                         *)
(* tee.c:25 stores a byte behind a full buffer; the store is left out.     *)
(***************************************************************************)
EXTENDS Naturals, Sequences, SequencesExt, FiniteSetsExt

CONSTANTS
    Bytes,             \* the values of a byte
    NUL,               \* the null byte
    Sources, Targets,  \* what the two files may hold at the start
    Batch,             \* BUFSIZ, BUF_SIZE, BATCH_SIZE, MAX_BYTES, bufSize
    MaxLen             \* bound on a file that tee -a appends to itself

ASSUME BatchAssumption == Batch \in Nat \ {0}

ASSUME FilesAssumption == NUL \in Bytes /\ Sources \cup Targets \subseteq Seq(Bytes)

Tees == {"tee", "tee -a"}
Programs == {"ccp", "copy", "cp", "write_bytes", "mmap"} \cup Tees

VARIABLES
    program,   \* the one that runs
    target,    \* "out", or "in" when the target is the source
    file,      \* "in", "out" -> bytes
    original,  \* file, at the start
    opened,    \* open gave a descriptor for the target
    roff,      \* offset in the source
    woff,      \* offset in the target
    buffer,    \* the bytes read last
    index,     \* how many of them cp has dealt with
    output,    \* what tee has written of its input to standard output
    line,      \* what tee's main prints there: "held" by stdio, "out" or
               \* "lost" because a write failed; "none" with the others
    lineAt,    \* how many bytes of output came before it
    unnoticed, \* what went wrong and did not end the program: "read", "write"
    step       \* "open", "read", "write", "stdout", "finish", "ok", "failed"

inputs == <<program, target, original>>
vars == <<inputs, file, opened, roff, woff, buffer, index, output, line, lineAt,
          unnoticed, step>>

source == file["in"]

(* numBytes bytes from a buffer that is written over and over.             *)
Periodic(s) == s # <<>> /\ \A i \in DOMAIN s : i > Batch => s[i] = s[i - Batch]

(* On a terminal tee's line is out (or lost) before the copy begins.       *)
Init == /\ program \in Programs
        /\ target \in {"in", "out"}
        /\ \E s \in Sources, t \in Targets : original = [in |-> s, out |-> t]
        /\ program = "write_bytes" => Periodic(original["in"]) /\ target = "out"
        /\ file = original
        /\ opened = FALSE
        /\ roff = 0 /\ woff = 0
        /\ buffer = <<>> /\ index = 0
        /\ output = <<>> /\ unnoticed = {}
        /\ line \in IF program \in Tees THEN {"held", "out", "lost"} ELSE {"none"}
        /\ lineAt = 0
        /\ step = "open"

Fail == step' = "failed"

-----------------------------------------------------------------------------
(* Opening *)

TruncatesNone == program \in {"copy"}
TruncatesAll == program \notin {"mmap", "tee -a"}
Truncates == program \in {"ccp", "copy"}

Open ==
    /\ step = "open" /\ program # "mmap"
    /\ file' = IF Truncates THEN [file EXCEPT ![target] = <<>>] ELSE file
    /\ opened' = TRUE
    /\ step' = "read"
    /\ UNCHANGED <<inputs, roff, woff, buffer, index, output, unnoticed>>

(* ccp and tee do not look at the descriptor of the target; tee opens no   *)
(* source.                                                                 *)
OpenFails ==
    /\ step = "open"
    /\ \/ program \notin Tees /\ Fail
       \/ program \in {"ccp"} \cup Tees /\ step' = "read"
    /\ UNCHANGED <<inputs, file, opened, roff, woff, buffer, index, output, unnoticed>>

-----------------------------------------------------------------------------
(* Reading *)

Read ==
    /\ step = "read" /\ roff < Len(source)
    /\ LET most == Min({Batch, Len(source) - roff})
       IN  \E k \in 1 .. most :
              /\ program = "write_bytes" => k = most
              /\ buffer' = SubSeq(source, roff + 1, roff + k)
              /\ roff' = roff + k
    /\ index' = 0
    /\ step' = "write"
    /\ UNCHANGED <<inputs, file, opened, woff, output, unnoticed>>

EndsNever == FALSE
EndsAtEnd == program \notin Tees

(* 0 bytes at the end: tee writes them, to both, and reads again.          *)
ReadNothing ==
    /\ step = "read" /\ roff >= Len(source)
    /\ IF EndsAtEnd THEN step' = "finish"
       ELSE IF opened THEN UNCHANGED step ELSE Fail
    /\ UNCHANGED <<inputs, file, opened, roff, woff, buffer, index, output, unnoticed>>

(* To cp and tee a failing read is the end of the file.                    *)
ReadFails ==
    /\ step = "read" /\ program # "write_bytes"
    /\ IF program \in {"cp"} \cup Tees
       THEN step' = "finish" /\ unnoticed' = unnoticed \cup {"read"}
       ELSE Fail /\ UNCHANGED unnoticed
    /\ UNCHANGED <<inputs, file, opened, roff, woff, buffer, index, output>>

-----------------------------------------------------------------------------
(* Writing *)

(* f with bytes written behind the first at ones.                          *)
WithBytes(f, at, bytes) ==
    IF bytes = <<>> THEN f
    ELSE [i \in 1 .. Max({Len(f), at + Len(bytes)}) |->
            IF i \in at + 1 .. at + Len(bytes) THEN bytes[i - at]
            ELSE IF i <= Len(f) THEN f[i] ELSE NUL]

WriteAtOwn == woff
WriteAt == IF program = "tee -a" THEN Len(file[target]) ELSE woff

GivesUp == program \in {"copy", "write_bytes"}

(* The kernel may take fewer bytes than it is given: 13.1.c and 13.2.c     *)
(* give up, the others do not look.                                        *)
Write ==
    /\ step = "write" /\ opened /\ program \notin {"cp", "mmap"}
    /\ WriteAt < MaxLen
    /\ \E k \in 1 .. Len(buffer) :
          /\ file' = [file EXCEPT ![target] = WithBytes(@, WriteAt, SubSeq(buffer, 1, k))]
          /\ woff' = WriteAt + k
          /\ IF k < Len(buffer) /\ GivesUp
             THEN Fail /\ UNCHANGED unnoticed
             ELSE /\ step' = IF program \in Tees THEN "stdout" ELSE "read"
                  /\ unnoticed' = IF k < Len(buffer) THEN unnoticed \cup {"write"}
                                  ELSE unnoticed
    /\ UNCHANGED <<inputs, opened, roff, buffer, index, output>>

TeeStdout ==
    /\ step = "stdout"
    /\ \E k \in 1 .. Len(buffer) :
          /\ output' = output \o SubSeq(buffer, 1, k)
          /\ unnoticed' = IF k < Len(buffer) THEN unnoticed \cup {"write"} ELSE unnoticed
    /\ step' = "read"
    /\ UNCHANGED <<inputs, file, opened, roff, woff, buffer, index>>

WriteFails ==
    /\ step \in {"write", "stdout"} /\ program # "cp"
    /\ Fail
    /\ UNCHANGED <<inputs, file, opened, roff, woff, buffer, index, output, unnoticed>>

(* Where the run that starts behind position i of the buffer ends.         *)
DataEnd(i) == Min({j \in i .. Len(buffer) : j = Len(buffer) \/ buffer[j + 1] = NUL})
NullEndLate(i) == Len(buffer)
NullEnd(i) == Min({j \in i .. Len(buffer) : j = Len(buffer) \/ buffer[j + 1] # NUL})

(* cp: the non-null bytes are written, the null bytes skipped.  A write    *)
(* that fails or is short is reported and forgotten.                       *)
WriteSegment ==
    /\ step = "write" /\ program = "cp"
    /\ LET d == DataEnd(index)
           e == NullEnd(d)
       IN  /\ \E k \in 0 .. d - index :
                 /\ file' = [file EXCEPT ![target] =
                                WithBytes(@, woff, SubSeq(buffer, index + 1, index + k))]
                 /\ woff' = woff + k + (e - d)
                 /\ unnoticed' = IF k < d - index THEN unnoticed \cup {"write"}
                                 ELSE unnoticed
           /\ index' = e
           /\ step' = IF e < Len(buffer) THEN "write" ELSE "read"
    /\ UNCHANGED <<inputs, opened, roff, buffer, output>>

-----------------------------------------------------------------------------
(* 49.1.c maps both files; a mapping must not be empty. *)

NotResized(f, n) == f
Resized(f, n) == [i \in 1 .. n |-> IF i <= Len(f) THEN f[i] ELSE NUL]

MapFiles ==
    /\ step = "open" /\ program = "mmap" /\ source # <<>>
    /\ file' = [file EXCEPT ![target] = Resized(@, Len(source))]
    /\ opened' = TRUE
    /\ step' = "write"
    /\ UNCHANGED <<inputs, roff, woff, buffer, index, output, unnoticed>>

MapCopy ==
    /\ step = "write" /\ program = "mmap"
    /\ file' = [file EXCEPT ![target] = WithBytes(@, 0, source)]
    /\ step' = "finish"
    /\ UNCHANGED <<inputs, opened, roff, woff, buffer, index, output, unnoticed>>

-----------------------------------------------------------------------------
(* fsync, close and munmap; cp and tee do not look at their results. *)

Finish ==
    /\ step = "finish" /\ (program = "ccp" => opened)
    /\ step' = "ok"
    /\ UNCHANGED <<inputs, file, opened, roff, woff, buffer, index, output, unnoticed>>

FinishFails ==
    /\ step = "finish" /\ program \notin {"cp"} \cup Tees
    /\ Fail
    /\ UNCHANGED <<inputs, file, opened, roff, woff, buffer, index, output, unnoticed>>

(* Calls that cannot succeed: mapping nothing, and using a descriptor that *)
(* open did not give.                                                      *)
Refused ==
    /\ \/ step = "open" /\ program = "mmap" /\ source = <<>>
       \/ step = "write" /\ ~opened
       \/ step = "finish" /\ program = "ccp" /\ ~opened
    /\ Fail
    /\ UNCHANGED <<inputs, file, opened, roff, woff, buffer, index, output, unnoticed>>

(* Part of every step: fflush at the end of tee's loop body, exit and      *)
(* errExit put out what stdio holds; nobody looks whether that fails.      *)
Flushes == \/ step = "stdout" \/ (step = "read" /\ step' = "read")
           \/ step' \in {"ok", "failed"}

Line == IF line = "held" /\ Flushes
        THEN \/ line' = "out" /\ lineAt' = Len(output')
             \/ line' = "lost" /\ UNCHANGED lineAt
        ELSE UNCHANGED <<line, lineAt>>

Work == /\ \/ Open \/ Read \/ ReadNothing \/ Write \/ TeeStdout \/ WriteSegment
           \/ MapFiles \/ MapCopy \/ Finish \/ Refused
        /\ Line
Failures == /\ OpenFails \/ ReadFails \/ WriteFails \/ FinishFails
            /\ Line

Next == Work \/ Failures

Spec == Init /\ [][Next]_vars

(* Nobody else is involved: the program goes on until it ends.  No call    *)
(* has to fail.                                                            *)
FairSpec == Spec /\ WF_vars(Work)

-----------------------------------------------------------------------------
Completed == step = "ok" /\ unnoticed = {}
ToOther == target = "out"

(* What is left in the target is all of the source and nothing of what it  *)
(* held before: with 13.1.c and 49.1.c whenever they succeed, with ccp.c   *)
(* unless a write was short, which always shows in the length.  13.2.c     *)
(* succeeds only when the file has all numBytes bytes; what it held behind *)
(* them stays.                                                             *)
ExactCopy ==
    /\ (program \in {"copy", "mmap", "ccp"} /\ ToOther /\ Completed)
          => file["out"] = source
    /\ (program = "ccp" /\ ToOther /\ step = "ok")
          => file["out"] = source \/ Len(file["out"]) < Len(source)
    /\ (program = "write_bytes" /\ step = "ok")
          => file["out"] = WithBytes(original["out"], 0, source)

(* A copy that fails half way leaves a prefix of the source or, if it has  *)
(* not begun, what was there; 13.1.c also after a short write.             *)
PrefixOnly ==
    (program \in {"copy", "ccp"} /\ ToOther /\ "write" \notin unnoticed)
        => file["out"] = original["out"] \/ IsPrefix(file["out"], source)

(* s over t, with the null bytes of s leaving what t has, and those at its *)
(* end nothing.                                                            *)
Shown(s, t) ==
    LET last == Max({0} \cup {i \in DOMAIN s : s[i] # NUL})
    IN  [i \in 1 .. Max({last, Len(t)}) |->
            IF i <= Len(s) /\ s[i] # NUL THEN s[i]
            ELSE IF i <= Len(t) THEN t[i] ELSE NUL]

(* cp.c, however the source is cut into buffers and runs: every byte that  *)
(* is not null is where it was in the source.  An existing target shows    *)
(* through the holes and behind the end, and null bytes at the end are not *)
(* copied.                                                                 *)
SparseCopy ==
    (program = "cp" /\ ToOther /\ Completed) => file["out"] = Shown(source, original["out"])

(* Programs that do not truncate leave a file copied to itself as it is,   *)
(* at every step, as long as no write fails or is short.                   *)
SelfCopyHarmless ==
    (program \in {"cp", "tee", "mmap"} /\ target = "in" /\ "write" \notin unnoticed)
        => source = original["in"]

(* What tee has put out of its input is the beginning of it, and the file  *)
(* holds that and at most one buffer more, after or over its old content.  *)
(* The line that main prints cuts that output in two: it comes first on a  *)
(* terminal, and otherwise behind one block at most; it is not held any    *)
(* longer, nor when tee has ended.  The end of tee's input is not the end  *)
(* of its work: it ends normally only after a read has failed.             *)
TeeInStep ==
  /\ line = "held" => output = <<>> /\ step \notin {"ok", "failed"}
  /\ line = "out" => lineAt <= Batch /\ lineAt <= Len(output)
  /\ (program \in Tees /\ step = "ok") => "read" \in unnoticed
  /\ (program \in Tees /\ ToOther /\ opened /\ "write" \notin unnoticed) =>
        /\ IsPrefix(output, source)
        /\ step \notin {"write", "stdout", "failed"} => Len(output) = roff
        /\ \E m \in {Len(output), Len(output) + Len(buffer)} :
              /\ m <= Len(source)
              /\ file["out"] = LET t == original["out"]
                               IN  WithBytes(t, IF program = "tee -a" THEN Len(t) ELSE 0,
                                             SubSeq(source, 1, m))

(* Every program but tee comes to an end.                                  *)
Ends == program \notin Tees ~> step \in {"ok", "failed"}

(* cp.c:48 says it writes the null bytes: a copy to a new file would be as *)
(* long as the source.                                                     *)
NullBytesWritten ==
    (program = "cp" /\ ToOther /\ Completed /\ original["out"] = <<>>)
        => Len(file["out"]) = Len(source)
=============================================================================
