----------------------------- MODULE Appenders -----------------------------
(***************************************************************************)
(* Several instances of src/tlpi/c5/5_3.c adding bytes to one file.        *)
(* Without the argument "x" an instance opens the file with O_APPEND and   *)
(* each write lands at the end of the file, whoever moved it there; with   *)
(* "x" it seeks to the end and then writes, two system calls that other    *)
(* instances may come between.                                             *)
(*                                                                         *)
(* The program writes the character 1 every time; here a byte is named by  *)
(* the instance that wrote it and by its number, so that a lost byte shows.*)
(***************************************************************************)
EXTENDS Naturals, Sequences

CONSTANTS
    Instances,  \* the running instances
    MaxBytes,   \* the largest nbytes argument
    Files,      \* what the file may hold before the first instance
    Old,        \* the writer of those bytes
    HOLE        \* a byte nobody wrote, left by a write past the end

Byte == (Instances \cup {Old}) \X (Nat \ {0})

AppendersAssumption ==
    /\ MaxBytes \in Nat
    /\ Old \notin Instances
    /\ HOLE \notin Byte
    /\ Files \subseteq Seq({Old} \X (Nat \ {0}))

VARIABLES
    file,      \* the bytes of the file
    initial,   \* what the file held at the start
    atomic,    \* instance -> whether it was started without "x"
    nbytes,    \* instance -> how many bytes it still has to write
    written,   \* instance -> how many writes of its have succeeded
    offsets,   \* instance -> the offset of its own open file description
    pc         \* instance -> "idle", "open", "loop", "write", "done" or "failed"

vars == <<file, initial, atomic, nbytes, written, offsets, pc>>

Init == /\ file = <<>> /\ initial = <<>>
        /\ atomic = [p \in Instances |-> TRUE]
        /\ nbytes = [p \in Instances |-> 0]
        /\ written = [p \in Instances |-> 0]
        /\ offsets = [p \in Instances |-> 0]
        /\ pc = [p \in Instances |-> "idle"]

Idle == \A p \in Instances : pc[p] = "idle"

(* The instances are started, each with arguments of its own.              *)
Start ==
    /\ Idle /\ pc' = [p \in Instances |-> "open"]
    /\ \E f \in Files : file' = f /\ initial' = f
    /\ atomic' \in [Instances -> BOOLEAN]
    /\ nbytes' \in [Instances -> 0 .. MaxBytes]
    /\ UNCHANGED <<written, offsets>>

(* No O_TRUNC: what the file held stays.                                   *)
Open(p) ==
    /\ pc[p] = "open"
    /\ pc' = [pc EXCEPT ![p] = "loop"]
    /\ UNCHANGED <<file, initial, atomic, nbytes, written, offsets>>

(* The result of open is not tested: with -1 the first lseek or write      *)
(* fails, and an instance with nothing to write ends normally.             *)
OpenFails(p) ==
    /\ pc[p] = "open"
    /\ pc' = [pc EXCEPT ![p] = IF nbytes[p] = 0 THEN "done" ELSE "failed"]
    /\ UNCHANGED <<file, initial, atomic, nbytes, written, offsets>>

SeekSet(p) == 0
SeekSkipped(p) == offsets[p]
SeekPastEnd(p) == Len(file) + 1
SeekEnd(p) == Len(file)

Seek(p) ==
    /\ pc[p] = "loop" /\ nbytes[p] > 0
    /\ ~atomic[p]
    /\ offsets' = [offsets EXCEPT ![p] = SeekEnd(p)]
    /\ pc' = [pc EXCEPT ![p] = "write"]
    /\ UNCHANGED <<file, initial, atomic, nbytes, written>>

OwnOffset(p) == offsets[p]
WriteAt(p) == IF atomic[p] THEN Len(file) ELSE offsets[p]

(* f with one byte written at offset at; a write past the end leaves a     *)
(* hole.                                                                   *)
WithByte(f, at, byte) ==
    [i \in 1 .. (IF at < Len(f) THEN Len(f) ELSE at + 1) |->
        IF i = at + 1 THEN byte ELSE IF i <= Len(f) THEN f[i] ELSE HOLE]

Write(p) ==
    /\ nbytes[p] > 0
    /\ IF atomic[p] THEN pc[p] = "loop" ELSE pc[p] = "write"
    /\ file' = WithByte(file, WriteAt(p), <<p, written[p] + 1>>)
    /\ offsets' = [offsets EXCEPT ![p] = WriteAt(p) + 1]
    /\ written' = [written EXCEPT ![p] = @ + 1]
    /\ nbytes' = [nbytes EXCEPT ![p] = @ - 1]
    /\ pc' = [pc EXCEPT ![p] = "loop"]
    /\ UNCHANGED <<initial, atomic>>

Close(p) ==
    /\ pc[p] = "loop" /\ nbytes[p] = 0
    /\ pc' = [pc EXCEPT ![p] = "done"]
    /\ UNCHANGED <<file, initial, atomic, nbytes, written, offsets>>

(* lseek or write fails and errExit ends the instance, or it is killed.    *)
Fail(p) ==
    /\ pc[p] \in {"loop", "write"}
    /\ pc' = [pc EXCEPT ![p] = "failed"]
    /\ UNCHANGED <<file, initial, atomic, nbytes, written, offsets>>

Step(p) == Open(p) \/ OpenFails(p) \/ Seek(p) \/ Write(p) \/ Close(p) \/ Fail(p)

Next == Start \/ \E p \in Instances : Step(p)

-----------------------------------------------------------------------------
(* No instance ever writes past the end, however old its offset is.        *)
NoHoles == \A i \in DOMAIN file : file[i] # HOLE

(* The variables have their types.                                         *)
TypeOK ==
    /\ file \in Seq(Byte) /\ initial \in Files \cup {<<>>}
    /\ atomic \in [Instances -> BOOLEAN]
    /\ nbytes \in [Instances -> 0 .. MaxBytes]
    /\ written \in [Instances -> Nat]
    /\ offsets \in [Instances -> Nat]
    /\ pc \in [Instances -> {"idle", "open", "loop", "write", "done", "failed"}]

(* Nothing that was in the file before is lost, in either mode: an offset  *)
(* taken with SEEK_END may be stale when used but never lies before the    *)
(* end that the file had at the start.                                     *)
OldKept ==
    /\ Len(file) >= Len(initial)
    /\ \A i \in DOMAIN initial : file[i] = initial[i]

(* What is left of each instance's bytes is in the order they were written.*)
InOrder ==
    \A i, j \in DOMAIN file :
        (Len(initial) < i /\ i < j /\ file[i][1] = file[j][1]) => file[i][2] < file[j][2]

(* When every instance opened the file with O_APPEND, every byte that any  *)
(* of them wrote is in the file, and each one's bytes are in the order     *)
(* they were written in.                                                   *)
AppendsKept ==
    (\A p \in Instances : atomic[p]) =>
        /\ \A p \in Instances : \A k \in 1 .. written[p] :
              \E i \in DOMAIN file : i > Len(initial) /\ file[i] = <<p, k>>
        /\ InOrder

(* No instance overwrites a byte of its own, although lseek and write are  *)
(* two calls and others may write between them: what is left of its bytes  *)
(* is in the order they were written in, and the file has grown at least   *)
(* by what it has written.                                                 *)
NoSelfLoss ==
    /\ \A p \in Instances : Len(file) >= Len(initial) + written[p]
    /\ InOrder
=============================================================================
