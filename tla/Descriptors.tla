---------------------------- MODULE Descriptors ----------------------------
(***************************************************************************)
(* Descriptors, open file descriptions and the programs of src/tlpi/c5     *)
(* that show how they hang together: 5_2.c (O_APPEND), 5_4.c (dup and dup2 *)
(* made of fcntl), 5_5.c (what duplicates share) and the calls of 5_6.md.  *)
(* A program is the list of calls its main makes.  dup2_fd is not one call *)
(* of the kernel: another thread may open files between its steps.         *)
(***************************************************************************)
EXTENDS Integers, Sequences, FiniteSetsExt

CONSTANTS
    FdLimit,     \* descriptors are 0 .. FdLimit - 1
    Contested,   \* numbers the other thread may get
    MaxOthers,   \* bound on the files the other thread opens
    OldLengths   \* bytes that tmp.out may have when 5_2.c starts

ASSUME DescriptorsAssumption ==
    /\ FdLimit \in Nat /\ FdLimit > 25
    /\ Contested \subseteq 3 .. FdLimit - 1 /\ MaxOthers \in Nat
    /\ OldLengths \subseteq Nat

Fds == 0 .. FdLimit - 1
Free == 0
Foreign == -1    \* whatever the other thread, or the shell, has opened

VARIABLES
    program,
    oldLen,     \* how many bytes tmp.out had when the program started
    calls,      \* the calls still to make
    var,        \* the program's variables and literals that are descriptors
    table,      \* descriptor -> the description it refers to, or Free
    descs,      \* open file descriptions: [file, offset, append]
    content,    \* file -> its bytes, each the number of the write it is from
    writes,     \* how many writes there have been
    at,         \* where main is: "call", inside dup2_fd, or ended
    status,     \* dup2_fd's variable of that name
    before,     \* the table when dup2_fd was called
    others,     \* the other thread's descriptors
    opened      \* how many files the other thread has opened

vars == <<program, oldLen, calls, var, table, descs, content, writes, at, status, before, others,
          opened>>
kernel == <<table, descs, content, writes>>
thread == <<others, opened>>

-----------------------------------------------------------------------------
(* <<call, descriptor, arguments>>; open and dup set the first.            *)
UsingDup == <<
    <<"open", "tfd", "hello", FALSE>>, <<"dup", "tfd_d1", "tfd">>, <<"dup", "tfd_d1", "tfd">>,
    <<"open", "tfd2", "hello2", FALSE>>, <<"close", "tfd">>, <<"dup", "tfd_d1", "tfd2">>,
    <<"close", "tfd2">> >>
UsingDup2 == <<
    <<"open", "tfd", "hello", FALSE>>, <<"dup2", "tfd", "10">>, <<"dup2", "10", "20">>,
    <<"close", "20">>, <<"dup2", "20", "25">> >>
AppendAfterSeek(flag) == <<
    <<"open", "expf", "tmp.out", FALSE>>, <<"write", "expf", 5>>, <<"close", "expf">>,
    <<"open", "expf", "tmp.out", flag>>, <<"seek", "expf">>, <<"write", "expf", 2>>,
    <<"close", "expf">> >>
NoAppend == AppendAfterSeek(FALSE)
Append5_2 == AppendAfterSeek(TRUE)
SharedOffset == <<
    <<"open", "fd", "hellow", FALSE>>, <<"dup", "dfd", "fd">>, <<"same", "fd", "dfd">>,
    <<"write", "fd", 5>>, <<"same", "fd", "dfd">>, <<"write", "dfd", 3>>, <<"same", "fd", "dfd">> >>
ThreeDescriptors == <<
    <<"open", "fd1", "file", FALSE>>, <<"dup", "fd2", "fd1">>, <<"open", "fd3", "file", FALSE>>,
    <<"write", "fd1", 6>>, <<"write", "fd2", 6>>, <<"seek", "fd2">>,
    <<"write", "fd1", 6>>, <<"write", "fd3", 6>> >>
(* dup2_fd from and to descriptors that are open, closed or the same.      *)
TwoCalls(a, b, c, d) == <<
    <<"open", "tfd", "hello", FALSE>>, <<"open", "tfd2", "hello2", FALSE>>,
    <<"dup2", a, b>>, <<"dup2", c, d>> >>

Names == {"tfd", "tfd2", "10"}
Programs ==
    [using_dup |-> {UsingDup}, using_dup2 |-> {UsingDup2}, append |-> {Append5_2},
     shared |-> {SharedOffset}, three |-> {ThreeDescriptors},
     dup2_fd |-> {TwoCalls(a, b, c, d) : a \in Names, b \in Names, c \in Names, d \in Names}]

Variables == {"tfd", "tfd2", "tfd_d1", "expf", "fd", "dfd", "fd1", "fd2", "fd3"}
Literals == [l \in {"10", "20", "25"} |-> IF l = "10" THEN 10 ELSE IF l = "20" THEN 20 ELSE 25]
Files == {"hello", "hello2", "tmp.out", "hellow", "file"}

Times(n, byte) == [i \in 1 .. n |-> byte]

(* tmp.out is opened without O_TRUNC and not removed, so that it may hold  *)
(* bytes of an earlier run, 0 here.  hello and hello2 may too, but nothing *)
(* reads or writes them; hellow has to be new (O_EXCL) and file is         *)
(* truncated (5_6.md).                                                     *)
Leftover(f) == IF f = "tmp.out" THEN Times(oldLen, 0) ELSE <<>>

Init ==
    /\ program \in DOMAIN Programs /\ calls \in Programs[program]
    /\ oldLen \in IF program = "append" THEN OldLengths ELSE {0}
    /\ var = [v \in Variables \cup DOMAIN Literals |->
                 IF v \in Variables THEN -1 ELSE Literals[v]]
    /\ table = [f \in Fds |-> IF f < 3 THEN Foreign ELSE Free]
    /\ descs = <<>>
    /\ content = [f \in Files |-> Leftover(f)] /\ writes = 0
    /\ at = "call" /\ status = -1 /\ before = table
    /\ others = {} /\ opened = 0

Call(c) == at = "call" /\ calls # <<>> /\ Head(calls)[1] = c
Arg(i) == Head(calls)[i]
Fd(i) == var[Arg(i)]
IsOpen(fd) == fd \in Fds /\ table[fd] # Free
FreeFrom(n) == {f \in Fds : f >= n /\ table[f] = Free}
Done == calls' = Tail(calls) /\ at' = "call"

-----------------------------------------------------------------------------
Open ==
    /\ Call("open") /\ FreeFrom(0) # {}
    /\ LET fd == Min(FreeFrom(0))
       IN  /\ table' = [table EXCEPT ![fd] = Len(descs) + 1]
           /\ var' = [var EXCEPT ![Arg(2)] = fd]
    /\ descs' = Append(descs, [file |-> Arg(3), offset |-> 0, append |-> Arg(4)])
    /\ Done
    /\ UNCHANGED <<program, oldLen, content, writes, status, before, thread>>

Close ==
    /\ Call("close")
    /\ table' = IF IsOpen(Fd(2)) THEN [table EXCEPT ![Fd(2)] = Free] ELSE table
    /\ others' = others \ {Fd(2)}
    /\ Done
    /\ UNCHANGED <<program, oldLen, var, descs, content, writes, status, before, opened>>

(* dup and dup_fd: the lowest free descriptor, with the same description.  *)
DupFrom == 0
Dup ==
    /\ Call("dup") /\ IsOpen(Fd(3)) /\ FreeFrom(DupFrom) # {}
    /\ LET fd == Min(FreeFrom(DupFrom))
       IN  /\ table' = [table EXCEPT ![fd] = table[Fd(3)]]
           /\ var' = [var EXCEPT ![Arg(2)] = fd]
    /\ Done
    /\ UNCHANGED <<program, oldLen, descs, content, writes, status, before, thread>>

Overlay(old, from, n, byte) ==
    [i \in 1 .. Max({Len(old), from + n}) |-> IF i \in from + 1 .. from + n THEN byte ELSE old[i]]

Write ==
    /\ Call("write") /\ IsOpen(Fd(2)) /\ table[Fd(2)] # Foreign
    /\ LET k == table[Fd(2)]
           d == descs[k]
           from == IF d.append THEN Len(content[d.file]) ELSE d.offset
       IN  /\ content' = [content EXCEPT ![d.file] = Overlay(@, from, Arg(3), writes + 1)]
           /\ descs' = [descs EXCEPT ![k].offset = from + Arg(3)]
    /\ writes' = writes + 1
    /\ Done
    /\ UNCHANGED <<program, oldLen, var, table, status, before, thread>>

SeekStart ==
    /\ Call("seek") /\ IsOpen(Fd(2)) /\ table[Fd(2)] # Foreign
    /\ descs' = [descs EXCEPT ![table[Fd(2)]].offset = 0]
    /\ Done
    /\ UNCHANGED <<program, oldLen, var, table, content, writes, status, before, thread>>

(* The status flags and the offsets of the two descriptors are the same,   *)
(* or the program ends.                                                    *)
Agree == descs[table[Fd(2)]] = descs[table[Fd(3)]]
Compare ==
    /\ Call("same")
    /\ IF Agree THEN Done ELSE at' = "mismatch" /\ UNCHANGED calls
    /\ UNCHANGED <<program, oldLen, var, kernel, status, before, thread>>

(* open, dup or write fails for a reason of its own: errExit.              *)
CallFails ==
    /\ at = "call" /\ calls # <<>> /\ Head(calls)[1] \in {"open", "dup", "write"}
    /\ at' = "failed"
    /\ UNCHANGED <<program, oldLen, calls, var, kernel, status, before, thread>>

-----------------------------------------------------------------------------
(* dup2_fd.                                                                *)

(* Its result, when it is -1, makes duplicate2 end the program.            *)
Dup2Check ==
    /\ Call("dup2")
    /\ before' = table
    /\ at' = IF ~IsOpen(Fd(2)) THEN "bad" ELSE IF Fd(2) = Fd(3) THEN "same" ELSE "close"
    /\ UNCHANGED <<program, oldLen, calls, var, kernel, status, thread>>

Dup2Close ==
    /\ at = "close" /\ at' = "dup"
    /\ table' = [table EXCEPT ![Fd(3)] = Free]
    /\ others' = others \ {Fd(3)}
    /\ UNCHANGED <<program, oldLen, calls, var, descs, content, writes, status, before, opened>>

Dup2Dup ==
    /\ at = "dup"
    /\ IF IsOpen(Fd(2)) /\ FreeFrom(Fd(3)) # {}
       THEN LET fd == Min(FreeFrom(Fd(3)))
            IN  /\ table' = [table EXCEPT ![fd] = table[Fd(2)]]
                /\ status' = fd /\ at' = "status"
       ELSE status' = -1 /\ at' = "lost" /\ UNCHANGED table
    /\ UNCHANGED <<program, oldLen, calls, var, descs, content, writes, before, thread>>

LeaveDuplicate(t) == t
CloseStatus(t) == [t EXCEPT ![status] = Free]

(* Another descriptor than the one asked for is given back: EBUSY.         *)
Dup2Busy ==
    /\ at = "status" /\ status # Fd(3)
    /\ table' = CloseStatus(table)
    /\ at' = "lost"
    /\ UNCHANGED <<program, oldLen, calls, var, descs, content, writes, status, before, thread>>

Dup2Done ==
    /\ at = "status" /\ status = Fd(3)
    /\ at' = "done"
    /\ UNCHANGED <<program, oldLen, calls, var, kernel, status, before, thread>>

(* There is no return statement behind the last test, so that the caller   *)
(* of a dup2_fd that has worked may see any value, -1 too.                 *)
Duplicate2 ==
    \/ /\ at \in {"done", "same"} /\ Done
       /\ UNCHANGED <<program, oldLen, var, kernel, status, before, thread>>
    \/ /\ at \in {"done", "bad", "lost"} /\ at' = "failed"
       /\ UNCHANGED <<program, oldLen, calls, var, kernel, status, before, thread>>

-----------------------------------------------------------------------------
(* The other thread, next to the programs that use dup2_fd.                *)
Threaded == program \in {"using_dup2", "dup2_fd"}

OtherOpens(fd) ==
    /\ Threaded /\ opened < MaxOthers /\ table[fd] = Free
    /\ at \notin {"failed", "mismatch"}
    /\ table' = [table EXCEPT ![fd] = Foreign]
    /\ others' = others \cup {fd} /\ opened' = opened + 1
    /\ UNCHANGED <<program, oldLen, calls, var, descs, content, writes, at, status, before>>

OtherCloses(fd) ==
    /\ fd \in others
    /\ at \notin {"failed", "mismatch"}
    /\ table' = [table EXCEPT ![fd] = Free]
    /\ others' = others \ {fd}
    /\ UNCHANGED <<program, oldLen, calls, var, descs, content, writes, at, status, before, opened>>

Main == \/ Open \/ Close \/ Dup \/ Write \/ SeekStart \/ Compare \/ CallFails
        \/ Dup2Check \/ Dup2Close \/ Dup2Dup \/ Dup2Busy \/ Dup2Done \/ Duplicate2

Next == Main \/ \E fd \in Contested : OtherOpens(fd) \/ OtherCloses(fd)

Spec == Init /\ [][Next]_vars

-----------------------------------------------------------------------------
(* The descriptors main has opened and what they refer to.                 *)
Mine(t) == [f \in Fds |-> IF t[f] = Foreign THEN Free ELSE t[f]]

(* Whatever the other thread opens and closes meanwhile: a dup2_fd that    *)
(* works has made newfd refer to what oldfd referred to, one that refuses  *)
(* has changed nothing, one that fails half way has closed newfd, and none *)
(* leaves any other descriptor open, closed or changed.                    *)
Dup2Exact ==
    LET asked(fd) == [Mine(before) EXCEPT ![Fd(3)] = fd]
    IN  /\ at = "done" => Mine(table) = asked(Mine(before)[Fd(2)])
        /\ at \in {"bad", "same"} => Mine(table) = Mine(before)
        /\ at = "lost" => Mine(table) = asked(Free)

(* The old bytes that the first write of 5_2.c does not reach.             *)
Surplus == IF oldLen > 5 THEN oldLen - 5 ELSE 0

(* The file after each call is what 5_6.md writes next to it, 5_2.c leaves *)
(* both of its writes (with O_APPEND write goes to the end, whatever lseek *)
(* did) and, between them, the rest of what tmp.out held before, and 5_5.c *)
(* never finds a difference between its two descriptors.                   *)
ContentAsDocumented ==
    /\ program = "three" => content["file"] =
          CASE writes = 0 -> <<>>
            [] writes = 1 -> Times(6, 1)
            [] writes = 2 -> Times(6, 1) \o Times(6, 2)
            [] OTHER -> Times(6, writes) \o Times(6, 2)
    /\ program = "append" /\ calls = <<>> =>
          content["tmp.out"] = Times(5, 1) \o Times(Surplus, 0) \o Times(2, 2)
    /\ at # "mismatch"
=============================================================================
