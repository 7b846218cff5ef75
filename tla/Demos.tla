------------------------------- MODULE Demos -------------------------------
(***************************************************************************)
(* Five small programs of src/tlpi, one of which runs: tail (13.5.c), the  *)
(* environment (6.3.c), vectored I/O (5_7.c), instances that append to one *)
(* file (5_3.c) and datagrams (c57).  They share nothing, so the others    *)
(* are still to be started.                                                *)
(***************************************************************************)
EXTENDS Integers, Sequences, SequencesExt, FiniteSetsExt

CONSTANTS
    BUF_SIZE, Contents, NL, LineCounts, MaxGrowth,               \* tail
    Characters, EQ, Strings, Environs, MaxEntries, MaxEnvCalls,  \* setenv, unsetenv
    Word, Arrays,                                                \* writev, readv
    Instances, MaxBytes, Files, Old, HOLE,                       \* appenders
    QueueLength, Size, MaxDatagrams                              \* datagrams

VARIABLES tstep, lines, asked, text, size, curr_pos, bytes_to_read, offset, shown
VARIABLES environ, estep, called, name, c_environ, envcalls
VARIABLES vstep, lengths, data, targets, filled, raw_buffer, round, total
VARIABLES file, initial, atomic, nbytes, written, offsets, pc
VARIABLES demo, made, bound, peer, dgrams, proc, sends, received

T == INSTANCE Tail
E == INSTANCE Environ
V == INSTANCE Vectored
App == INSTANCE Appenders
D == INSTANCE Datagrams

ASSUME TailBounds == T!TailAssumption
ASSUME EnvironStrings == E!EnvironAssumption
ASSUME VectoredArrays == V!VectoredAssumption
ASSUME AppendersFiles == App!AppendersAssumption

Init == T!Init /\ E!Init /\ V!Init /\ App!Init /\ D!Init

tailing == <<tstep, lines, asked, text, size, curr_pos, bytes_to_read, offset, shown>>
setting == <<environ, estep, called, name, c_environ, envcalls>>
reading == <<vstep, lengths, data, targets, filled, raw_buffer, round, total>>
appending == <<file, initial, atomic, nbytes, written, offsets, pc>>
sending == <<demo, made, bound, peer, dgrams, proc, sends, received>>
vars == <<tailing, setting, reading, appending, sending>>

TailIdle == tstep = "idle"
EnvironIdle == estep = "idle"
VectoredIdle == vstep = "idle"
DatagramsIdle == demo = "idle"

OnlyTail == /\ EnvironIdle /\ VectoredIdle /\ App!Idle /\ DatagramsIdle
            /\ UNCHANGED <<setting, reading, appending, sending>>
OnlyEnviron == /\ TailIdle /\ VectoredIdle /\ App!Idle /\ DatagramsIdle
               /\ UNCHANGED <<tailing, reading, appending, sending>>
OnlyVectored == /\ TailIdle /\ EnvironIdle /\ App!Idle /\ DatagramsIdle
                /\ UNCHANGED <<tailing, setting, appending, sending>>
OnlyAppenders == /\ TailIdle /\ EnvironIdle /\ VectoredIdle /\ DatagramsIdle
                 /\ UNCHANGED <<tailing, setting, reading, sending>>
OnlyDatagrams == /\ TailIdle /\ EnvironIdle /\ VectoredIdle /\ App!Idle
                 /\ UNCHANGED <<tailing, setting, reading, appending>>

Next == \/ OnlyTail /\ T!Next
        \/ OnlyEnviron /\ E!Next
        \/ OnlyVectored /\ V!Next
        \/ OnlyAppenders /\ App!Next
        \/ OnlyDatagrams /\ D!Next

Spec == Init /\ [][Next]_vars

(* Every process of the datagram programs goes on unless it is killed.     *)
FairSpec ==
    /\ Spec
    /\ WF_vars(OnlyDatagrams /\ D!Sender)
    /\ WF_vars(OnlyDatagrams /\ (D!Receiver \/ D!Awake))
    /\ WF_vars(OnlyDatagrams /\ D!ChildB)
    /\ WF_vars(OnlyDatagrams /\ D!ChildC)
    /\ WF_vars(OnlyDatagrams /\ D!Parent)

-----------------------------------------------------------------------------
(* tail prints from the right place to the end (13.5.c).                   *)
LastLines == T!LastLines

(* setenv and unsetenv act on a map (6.3.c).                               *)
ImplementsEnvMap == E!ImplementsEnvMap

(* readv gives back what writev was given (5_7.c).                         *)
RoundTrip == V!RoundTrip

(* Appending and seeking to the end lose nothing they should not (5_3.c).  *)
NoHoles == App!NoHoles
OldKept == App!OldKept
AppendsKept == App!AppendsKept
NoSelfLoss == App!NoSelfLoss

(* Datagrams arrive (c57).                                                 *)
Delivered == D!Delivered
=============================================================================
