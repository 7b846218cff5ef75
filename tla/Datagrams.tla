----------------------------- MODULE Datagrams -----------------------------
(***************************************************************************)
(* The datagram programs of src/tlpi/c57.  unix_domain_datagram_sock.c: a  *)
(* sender without end and a slow receiver that takes one byte of each      *)
(* datagram.  57.4.c: three sockets bound to names; one child connects b   *)
(* to b itself, another sends from c to a, and the parent waits for it on  *)
(* a.  Each process has all the descriptors, so that no socket goes away   *)
(* before the last of them.                                                *)
(***************************************************************************)
EXTENDS Integers, Sequences, FiniteSetsExt

CONSTANTS
    QueueLength,  \* datagrams a socket holds
    Size,         \* bytes of a datagram
    MaxDatagrams  \* bound on the datagrams sent

VARIABLES
    demo,     \* "idle", "pair" (the socket pair) or "connect" (57.4.c)
    made,     \* the sockets that exist
    bound,    \* names that bind has given to their sockets
    peer,     \* socket -> the one it is connected to, or "none"
    dgrams,   \* socket -> the datagrams waiting there: [from, no]
    proc,     \* process -> what it is doing
    sends,    \* datagrams sent by the sender
    received  \* what the readers have got: [no, bytes]

Sockets == {"fds0", "fds1", "a", "b", "c"}
Procs == {"parent", "child", "child_c"}

Init ==
    /\ demo = "idle" /\ made = {} /\ bound = {}
    /\ peer = [s \in Sockets |-> "none"]
    /\ dgrams = [s \in Sockets |-> <<>>]
    /\ proc = [p \in Procs |-> "absent"]
    /\ sends = 0 /\ received = <<>>

Put(s, from, no) == dgrams' = [dgrams EXCEPT ![s] = Append(@, [from |-> from, no |-> no])]
Full(s) == Len(dgrams[s]) >= QueueLength
Go(p, where) == proc' = [proc EXCEPT ![p] = where]

(* recvfrom: a datagram longer than the buffer is cut, its rest is gone.   *)
Take(s, size) ==
    /\ dgrams[s] # <<>>
    /\ dgrams' = [dgrams EXCEPT ![s] = Tail(@)]
    /\ received' = Append(received, [no |-> Head(dgrams[s]).no, bytes |-> Min({size, Size})])

-----------------------------------------------------------------------------
(* unix_domain_datagram_sock.c.  A failed socketpair ends it, a failed     *)
(* fork does not: the parent takes the sender's part as always.            *)
SocketPair(child) ==
    /\ demo = "idle" /\ demo' = "pair" /\ made' = {"fds0", "fds1"}
    /\ peer' = [peer EXCEPT !["fds0"] = "fds1", !["fds1"] = "fds0"]
    /\ proc' = [proc EXCEPT !["parent"] = "send",
                            !["child"] = IF child THEN "receive" ELSE "absent"]
    /\ UNCHANGED <<bound, dgrams, sends, received>>

NoPair ==
    /\ demo = "idle" /\ demo' = "pair" /\ Go("parent", "failed")
    /\ UNCHANGED <<made, bound, peer, dgrams, sends, received>>

Sender ==
    /\ proc["parent"] = "send" /\ sends < MaxDatagrams /\ ~Full("fds1")
    /\ Put("fds1", "fds0", sends + 1) /\ sends' = sends + 1
    /\ UNCHANGED <<demo, made, bound, peer, proc, received>>

Receiver ==
    /\ proc["child"] = "receive"
    /\ Take("fds1", 1) /\ Go("child", "sleep")
    /\ UNCHANGED <<demo, made, bound, peer, sends>>

Awake ==
    /\ proc["child"] = "sleep" /\ demo = "pair" /\ Go("child", "receive")
    /\ UNCHANGED <<demo, made, bound, peer, dgrams, sends, received>>

-----------------------------------------------------------------------------
(* 57.4.c.  The results of socket, bind and fork are not tested: without a *)
(* socket there is nothing to bind, and with a failed fork the child's     *)
(* part is left out.                                                       *)
Bind(sockets, names, child, child_c) ==
    /\ demo = "idle" /\ demo' = "connect"
    /\ made' = sockets /\ bound' = names
    /\ proc' = [p \in Procs |-> CASE p = "parent" -> "receive"
                                  [] p = "child" -> IF child THEN "connect" ELSE "absent"
                                  [] OTHER -> IF child_c THEN "sleep" ELSE "absent"]
    /\ UNCHANGED <<peer, dgrams, sends, received>>

ConnectedA == "a"
Connected == "b"

ChildB ==
    /\ proc["child"] = "connect"
    /\ IF "b" \in bound THEN peer' = [peer EXCEPT ![Connected] = "b"] /\ Go("child", "done")
       ELSE Go("child", "failed") /\ UNCHANGED peer
    /\ UNCHANGED <<demo, made, bound, dgrams, sends, received>>

(* sendto fails without a socket to send from, without one of that name,   *)
(* and when that one is connected to another.                              *)
ChildC ==
    /\ proc["child_c"] = "sleep"
    /\ IF "c" \in made /\ "a" \in bound /\ peer["a"] \in {"none", "c"}
       THEN Put("a", "c", 1) /\ sends' = 1 /\ Go("child_c", "done")
       ELSE Go("child_c", "failed") /\ UNCHANGED <<dgrams, sends>>
    /\ UNCHANGED <<demo, made, bound, peer, received>>

Parent ==
    /\ proc["parent"] = "receive" /\ demo = "connect"
    /\ IF "a" \in made THEN Take("a", Size) /\ Go("parent", "done")
       ELSE Go("parent", "failed") /\ UNCHANGED <<dgrams, received>>
    /\ UNCHANGED <<demo, made, bound, peer, sends>>

(* A process is killed, or ends in errExit because a call of its failed    *)
(* for a reason outside of these programs, as want of memory.              *)
Dies(p) ==
    /\ proc[p] \notin {"absent", "done", "failed", "killed"} /\ Go(p, "killed")
    /\ UNCHANGED <<demo, made, bound, peer, dgrams, sends, received>>

-----------------------------------------------------------------------------
Work == Sender \/ Receiver \/ Awake \/ ChildB \/ ChildC \/ Parent

Next == \/ \E child \in BOOLEAN : SocketPair(child)
        \/ NoPair
        \/ \E sockets \in SUBSET {"a", "b", "c"} :
              \E names \in SUBSET sockets, x, y \in BOOLEAN : Bind(sockets, names, x, y)
        \/ Work
        \/ \E p \in Procs : Dies(p)

(* No process was killed: all have ended as their programs have them end.  *)
Unharmed == \A p \in Procs : proc[p] # "killed"

(* Every datagram sent on the pair is received, also those the sender had  *)
(* to wait with, if fork has made a receiver.  In 57.4.c the parent gets   *)
(* the message of child c, if child c exists and has a socket, and a has   *)
(* its name, whichever of the children is first: that b is connected, and  *)
(* to itself, does not matter to it, nor whether b and c have names.       *)
Delivered ==
    /\ \A n \in 1 .. MaxDatagrams :
          (proc["child"] = "receive" /\ sends >= n) ~> (Len(received) >= n \/ ~Unharmed)
    /\ (proc["child_c"] = "sleep" /\ "c" \in made /\ "a" \in bound)
          ~> (proc["parent"] = "done" \/ ~Unharmed)
=============================================================================
