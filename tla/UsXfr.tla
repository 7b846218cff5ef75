------------------------------- MODULE UsXfr -------------------------------
(***************************************************************************)
(* The UNIX stream server and its clients: src/tlpi/c57/us_xfr_sv.c and    *)
(* us_xfr_cl.c.  A client copies its stdin to a connection; the server     *)
(* takes one connection at a time and copies it to its stdout until end of *)
(* file.  The socket name is an abstract one (it starts at sun_path[1]),   *)
(* so it is free again as soon as the server that bound it is gone.        *)
(*                                                                         *)
(* The kernel's part is modelled from the calls the programs make: a queue *)
(* of connections a client may join and write to before it is accepted, a  *)
(* bounded stream per connection, end of file when the client has closed   *)
(* and everything is read, and a reset when the server dies.               *)
(***************************************************************************)
EXTENDS Naturals, Sequences, SequencesExt, FiniteSetsExt

CONSTANTS
    Servers,    \* processes running us_xfr_sv
    Clients,    \* processes running us_xfr_cl
    Inputs,     \* the lengths of the clients' stdins, in bytes
    MaxInput,   \* a bound on them
    BACKLOG,    \* the argument of listen
    BUF_SIZE,   \* the size of both programs' buffers
    Capacity,   \* what a connection holds
    None

ASSUME UsXfrAssumption ==
    /\ MaxInput \in Nat /\ Inputs \subseteq 0 .. MaxInput /\ BACKLOG \in Nat
    /\ BUF_SIZE \in Nat \ {0} /\ Capacity \in Nat /\ BUF_SIZE <= Capacity
    /\ None \notin Clients

VARIABLES
    spc,      \* server -> "start", "bound", "accept", "read", "write", "dead"
    cur,      \* server -> the client of cfd, or None
    sbuf,     \* server -> the bytes read and not yet written
    out,      \* server -> its stdout
    queue,    \* the connections waiting for accept
    cpc,      \* client -> "start", "read", "write", "done", "failed"
    input,    \* client -> how many bytes its stdin has
    left,     \* client -> how many of them it has not read yet
    cbuf,     \* client -> the bytes read and not yet written
    link,     \* client -> "none", "open", "closed" by the server, "reset"
    stream,   \* client -> the bytes written and not yet read by the server
    written   \* client -> how many bytes it has written

serverVars == <<spc, cur, sbuf, out>>
clientVars == <<cpc, input, left, cbuf, written>>
vars == <<serverVars, clientVars, queue, link, stream>>

Bytes(c, from, to) == [i \in 1 .. to - from + 1 |-> <<c, from + i - 1>>]
Smaller(a, b) == IF a < b THEN a ELSE b
DropOneLess(s, n) == SubSeq(s, n, Len(s))
Drop(s, n) == SubSeq(s, n + 1, Len(s))

Init == /\ spc = [v \in Servers |-> "start"]
        /\ cur = [v \in Servers |-> None]
        /\ sbuf = [v \in Servers |-> <<>>]
        /\ out = [v \in Servers |-> <<>>]
        /\ queue = <<>>
        /\ cpc = [c \in Clients |-> "start"]
        /\ input \in [Clients -> Inputs]
        /\ left = input
        /\ cbuf = [c \in Clients |-> <<>>]
        /\ link = [c \in Clients |-> "none"]
        /\ stream = [c \in Clients |-> <<>>]
        /\ written = [c \in Clients |-> 0]

-----------------------------------------------------------------------------
(* Server *)

Bound(v) == spc[v] \in {"bound", "accept", "read", "write"}
Listening(v) == spc[v] \in {"accept", "read", "write"}

NameFree(v) == \A w \in Servers : ~Bound(w)

(* bind fails with EADDRINUSE while another server has the name.           *)
Bind(v) ==
    /\ spc[v] = "start"
    /\ spc' = [spc EXCEPT ![v] = IF NameFree(v) THEN "bound" ELSE "dead"]
    /\ UNCHANGED <<cur, sbuf, out, clientVars, queue, link, stream>>

Listen(v) ==
    /\ spc[v] = "bound"
    /\ spc' = [spc EXCEPT ![v] = "accept"]
    /\ UNCHANGED <<cur, sbuf, out, clientVars, queue, link, stream>>

Accept(v) ==
    /\ spc[v] = "accept" /\ queue # <<>>
    /\ cur' = [cur EXCEPT ![v] = Head(queue)]
    /\ queue' = Tail(queue)
    /\ spc' = [spc EXCEPT ![v] = "read"]
    /\ UNCHANGED <<sbuf, out, clientVars, link, stream>>

ServerRead(v) ==
    /\ spc[v] = "read" /\ stream[cur[v]] # <<>>
    /\ LET n == Smaller(BUF_SIZE, Len(stream[cur[v]]))
       IN  /\ sbuf' = [sbuf EXCEPT ![v] = SubSeq(stream[cur[v]], 1, n)]
           /\ stream' = [stream EXCEPT ![cur[v]] = Drop(@, n)]
    /\ spc' = [spc EXCEPT ![v] = "write"]
    /\ UNCHANGED <<cur, out, clientVars, queue, link>>

WriteFirstByte(v) == SubSeq(sbuf[v], 1, 1)
WriteAll(v) == sbuf[v]

ServerWrite(v) ==
    /\ spc[v] = "write"
    /\ out' = [out EXCEPT ![v] = @ \o WriteAll(v)]
    /\ sbuf' = [sbuf EXCEPT ![v] = <<>>]
    /\ spc' = [spc EXCEPT ![v] = "read"]
    /\ UNCHANGED <<cur, clientVars, queue, link, stream>>

NeverEof(c) == FALSE
EndOfFile(c) == stream[c] = <<>> /\ cpc[c] \in {"done", "failed"}

(* read returns 0: close the connection and go on to the next.             *)
ServerClose(v) ==
    /\ spc[v] = "read" /\ EndOfFile(cur[v])
    /\ link' = [link EXCEPT ![cur[v]] = "closed"]
    /\ cur' = [cur EXCEPT ![v] = None]
    /\ spc' = [spc EXCEPT ![v] = "accept"]
    /\ UNCHANGED <<sbuf, out, clientVars, queue, stream>>

(* errExit or fatal, or a kill.  Of the bytes in the buffer any number may *)
(* have been written (fatal("partial/failed write")); the connections, the *)
(* waiting ones included, are reset and what they hold is lost.            *)
ServerDies(v) ==
    /\ Bound(v)
    /\ \E n \in 0 .. Len(sbuf[v]) :
          out' = [out EXCEPT ![v] = @ \o SubSeq(sbuf[v], 1, n)]
    /\ spc' = [spc EXCEPT ![v] = "dead"]
    /\ cur' = [cur EXCEPT ![v] = None]
    /\ sbuf' = [sbuf EXCEPT ![v] = <<>>]
    /\ queue' = <<>>
    /\ link' = [c \in Clients |-> IF link[c] = "open" THEN "reset" ELSE link[c]]
    /\ stream' = [c \in Clients |-> IF link[c] = "open" THEN <<>> ELSE stream[c]]
    /\ UNCHANGED clientVars

-----------------------------------------------------------------------------
(* Client *)

NoLimit == TRUE
QueueHasRoom == Len(queue) <= BACKLOG

(* connect joins the queue of a listening server; it waits while the queue *)
(* is full (Linux lets BACKLOG + 1 connections wait).                      *)
Connect(c) ==
    /\ cpc[c] = "start"
    /\ \E v \in Servers : Listening(v)
    /\ QueueHasRoom
    /\ queue' = Append(queue, c)
    /\ link' = [link EXCEPT ![c] = "open"]
    /\ cpc' = [cpc EXCEPT ![c] = "read"]
    /\ UNCHANGED <<serverVars, input, left, cbuf, written, stream>>

ConnectRefused(c) ==
    /\ cpc[c] = "start"
    /\ \A v \in Servers : ~Listening(v)
    /\ cpc' = [cpc EXCEPT ![c] = "failed"]
    /\ UNCHANGED <<serverVars, input, left, cbuf, written, queue, link, stream>>

(* read(STDIN_FILENO) may return less than asked for.                      *)
ClientRead(c) ==
    /\ cpc[c] = "read" /\ left[c] > 0
    /\ \E n \in 1 .. Smaller(BUF_SIZE, left[c]) :
          /\ cbuf' = [cbuf EXCEPT ![c] = Bytes(c, written[c] + 1, written[c] + n)]
          /\ left' = [left EXCEPT ![c] = @ - n]
    /\ cpc' = [cpc EXCEPT ![c] = "write"]
    /\ UNCHANGED <<serverVars, input, written, queue, link, stream>>

(* End of stdin: exit closes the socket.                                   *)
ClientExit(c) ==
    /\ cpc[c] = "read" /\ left[c] = 0
    /\ cpc' = [cpc EXCEPT ![c] = "done"]
    /\ UNCHANGED <<serverVars, input, left, cbuf, written, queue, link, stream>>

(* write waits until the connection has room for the whole buffer.         *)
ClientWrite(c) ==
    /\ cpc[c] = "write" /\ link[c] = "open"
    /\ Len(stream[c]) + Len(cbuf[c]) <= Capacity
    /\ stream' = [stream EXCEPT ![c] = @ \o cbuf[c]]
    /\ written' = [written EXCEPT ![c] = @ + Len(cbuf[c])]
    /\ cbuf' = [cbuf EXCEPT ![c] = <<>>]
    /\ cpc' = [cpc EXCEPT ![c] = "read"]
    /\ UNCHANGED <<serverVars, input, left, queue, link>>

(* EPIPE: the server is gone.                                              *)
ClientReset(c) ==
    /\ cpc[c] = "write" /\ link[c] = "reset"
    /\ cpc' = [cpc EXCEPT ![c] = "failed"]
    /\ UNCHANGED <<serverVars, input, left, cbuf, written, queue, link, stream>>

(* A read error, a partial write or a kill: the part of the buffer that    *)
(* was written stays in the connection, which the exit closes.             *)
ClientDies(c) ==
    /\ cpc[c] \in {"read", "write"} /\ link[c] = "open"
    /\ \E n \in 0 .. Smaller(Len(cbuf[c]), Capacity - Len(stream[c])) :
          /\ stream' = [stream EXCEPT ![c] = @ \o SubSeq(cbuf[c], 1, n)]
          /\ written' = [written EXCEPT ![c] = @ + n]
    /\ cbuf' = [cbuf EXCEPT ![c] = <<>>]
    /\ cpc' = [cpc EXCEPT ![c] = "failed"]
    /\ UNCHANGED <<serverVars, input, left, queue, link>>

-----------------------------------------------------------------------------
ServerStep(v) == \/ Bind(v) \/ Listen(v) \/ Accept(v)
                 \/ ServerRead(v) \/ ServerWrite(v) \/ ServerClose(v)
ClientStep(c) == \/ Connect(c) \/ ConnectRefused(c)
                 \/ ClientRead(c) \/ ClientExit(c) \/ ClientWrite(c) \/ ClientReset(c)

Next == \/ \E v \in Servers : ServerStep(v) \/ ServerDies(v)
        \/ \E c \in Clients : ClientStep(c) \/ ClientDies(c)

Spec == Init /\ [][Next]_vars

(* Every process is scheduled and every stdin goes on until it ends.       *)
FairSpec == /\ Spec
            /\ \A v \in Servers : WF_vars(ServerStep(v))
            /\ \A c \in Clients : WF_vars(ClientStep(c))

-----------------------------------------------------------------------------
(* The variables have their types; no connection holds more than the       *)
(* kernel lets it, nor the queue.                                          *)
TypeOK ==
    LET ByteSeq == Seq(Clients \X (1 .. MaxInput))
    IN  /\ spc \in [Servers -> {"start", "bound", "accept", "read", "write", "dead"}]
        /\ cur \in [Servers -> Clients \cup {None}]
        /\ sbuf \in [Servers -> ByteSeq] /\ out \in [Servers -> ByteSeq]
        /\ queue \in Seq(Clients) /\ Len(queue) <= BACKLOG + 1
        /\ cpc \in [Clients -> {"start", "read", "write", "done", "failed"}]
        /\ input \in [Clients -> Inputs] /\ left \in [Clients -> 0 .. MaxInput]
        /\ written \in [Clients -> 0 .. MaxInput]
        /\ cbuf \in [Clients -> ByteSeq] /\ stream \in [Clients -> ByteSeq]
        /\ link \in [Clients -> {"none", "open", "closed", "reset"}]
        /\ \A c \in Clients : Len(stream[c]) <= Capacity
        /\ \A v \in Servers : Len(sbuf[v]) <= BUF_SIZE

(* What a server has printed from a client's first byte to its last, with  *)
(* whatever may have got in between.                                       *)
Places(c, v) == {i \in DOMAIN out[v] : out[v][i][1] = c}
Printers(c) == {v \in Servers : Places(c, v) # {}}
PrintedOf(c) ==
    IF Printers(c) = {} THEN <<>>
    ELSE LET v == CHOOSE v \in Printers(c) : TRUE
         IN  SubSeq(out[v], Min(Places(c, v)), Max(Places(c, v)))
HeldOf(c) == IF \E v \in Servers : cur[v] = c
             THEN sbuf[CHOOSE v \in Servers : cur[v] = c] ELSE <<>>

(* A client's bytes are printed by one server only, in order and with no   *)
(* other's among them; while its connection lasts none is lost, and once   *)
(* the server has closed it all of them are printed.  A reset loses an end *)
(* of them, never a middle part.  The server lets go of a connection only  *)
(* when its client has ended, and of a client that ended normally          *)
(* everything from stdin has been printed.                                 *)
NoByteLost ==
    \A c \in Clients :
        /\ \A v, w \in Printers(c) : v = w
        /\ link[c] = "open" =>
              PrintedOf(c) \o HeldOf(c) \o stream[c] = Bytes(c, 1, written[c])
        /\ link[c] = "closed" =>
              /\ PrintedOf(c) = Bytes(c, 1, written[c])
              /\ cpc[c] \in {"done", "failed"}
              /\ cpc[c] = "done" => Len(PrintedOf(c)) = input[c]
        /\ IsPrefix(PrintedOf(c), Bytes(c, 1, written[c]))

(* A client that ended normally gets everything printed, however many were *)
(* waiting before it, unless the server dies.                              *)
Served ==
    \A c \in Clients :
        cpc[c] = "done" ~> (Len(PrintedOf(c)) = input[c] \/ link[c] = "reset")

(* Which client a server is printing, and which have had their turn.       *)
T == INSTANCE Transfer WITH
        turn <- cur,
        taken <- {c \in Clients : link[c] # "none" /\ \A i \in DOMAIN queue : queue[i] # c}

(* Each server process prints its clients one after the other.             *)
OneAtATime == T!Spec
=============================================================================
