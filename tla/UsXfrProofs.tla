---------------------------- MODULE UsXfrProofs ----------------------------
(* The stream server and its clients, for any number of them, any inputs,  *)
(* buffers and capacities: no byte is lost or mixed with another client's, *)
(* and each server process takes its clients one after the other.          *)
EXTENDS UsXfr, TLAPS

Byte == Clients \X (1 .. MaxInput)

(* One server has the name; it holds a connection while it reads and       *)
(* writes and bytes while it writes; nobody queues where nobody listens.   *)
OneServer ==
    /\ \A v, w \in Servers : Bound(v) /\ Bound(w) => v = w
    /\ \A v \in Servers : cur[v] # None <=> spc[v] \in {"read", "write"}
    /\ \A v \in Servers : sbuf[v] # <<>> <=> spc[v] = "write"
    /\ queue # <<>> => \E v \in Servers : Listening(v)

InQueue(c) == \E i \in DOMAIN queue : queue[i] = c

(* An open connection is in the queue once or is the one being served.     *)
Connections ==
    /\ \A i, j \in DOMAIN queue : queue[i] = queue[j] => i = j
    /\ \A i \in DOMAIN queue :
          link[queue[i]] = "open" /\ \A v \in Servers : cur[v] # queue[i]
    /\ \A v \in Servers : cur[v] # None => link[cur[v]] = "open"
    /\ \A c \in Clients : link[c] = "open" => InQueue(c) \/ \E v \in Servers : cur[v] = c

(* How far a client is: what it has written, has in its buffer and has     *)
(* still to read add up to its input, unless it failed.                    *)
Progress(c) ==
    /\ cpc[c] = "start" => link[c] = "none"
    /\ link[c] = "none" => cpc[c] \in {"start", "failed"} /\ written[c] = 0
    /\ link[c] = "closed" => cpc[c] \in {"done", "failed"}
    /\ link[c] # "open" => stream[c] = <<>>
    /\ cpc[c] # "write" /\ cpc[c] # "failed" => cbuf[c] = <<>>
    /\ cpc[c] = "done" => left[c] = 0
    /\ cpc[c] # "failed" => left[c] + Len(cbuf[c]) + written[c] = input[c]
    /\ left[c] + Len(cbuf[c]) + written[c] <= input[c]
    /\ \A i \in DOMAIN cbuf[c] : cbuf[c][i] = <<c, written[c] + i>>

(* The sequence o has bytes 1 to k of c behind its first a bytes, and no   *)
(* others of c.                                                            *)
Segment(c, o, a, k) ==
    /\ a + k <= Len(o)
    /\ \A i \in DOMAIN o : o[i][1] = c => i \in a + 1 .. a + k
    /\ \A i \in 1 .. k : o[a + i] = <<c, i>>

(* How many bytes of c server v has printed while it serves c: those that  *)
(* are neither in its buffer nor in the connection.                        *)
Out(c, v) == written[c] - (Len(sbuf[v]) + Len(stream[c]))

(* The bytes of a client that waits are in its connection; those of the    *)
(* client being served are, in order, at the end of the output, in the     *)
(* buffer and in the connection.                                           *)
Waiting(c) ==
    InQueue(c) => /\ Len(stream[c]) = written[c]
                  /\ \A i \in DOMAIN stream[c] : stream[c][i] = <<c, i>>

Serving(v) ==
    LET c == cur[v]
        n == Out(c, v)
    IN  c # None =>
          /\ n \in 0 .. Len(out[v])
          /\ Segment(c, out[v], Len(out[v]) - n, n)
          /\ \A i \in DOMAIN sbuf[v] : sbuf[v][i] = <<c, n + i>>
          /\ \A i \in DOMAIN stream[c] : stream[c][i] = <<c, n + Len(sbuf[v]) + i>>

Taken(c) == link[c] # "none" /\ ~InQueue(c)

(* What has been printed of c: an initial part of what it has written, by  *)
(* one server; nothing before its turn, everything after it, unless the    *)
(* server has died.                                                        *)
Printing(c) ==
    /\ ~Taken(c) => \A v \in Servers : Places(c, v) = {}
    /\ \A v, w \in Servers : Places(c, v) # {} /\ Places(c, w) # {} => v = w
    /\ \A v, w \in Servers : cur[v] = c /\ Places(c, w) # {} => v = w
    /\ \A v \in Servers : \E a \in Nat, k \in 0 .. written[c] : Segment(c, out[v], a, k)
    /\ link[c] = "closed" =>
          \E v \in Servers : \E a \in Nat : Segment(c, out[v], a, written[c])

IInv == /\ TypeOK
        /\ OneServer
        /\ Connections
        /\ \A c \in Clients : Progress(c) /\ Waiting(c) /\ Printing(c)
        /\ \A v \in Servers : Serving(v)

(* What the type invariant says of one server and of one client.           *)
LEMMA Facts ==
    ASSUME TypeOK
    PROVE  /\ \A v \in Servers :
                 /\ spc[v] \in {"start", "bound", "accept", "read", "write", "dead"}
                 /\ cur[v] \in Clients \cup {None}
                 /\ sbuf[v] \in Seq(Byte) /\ Len(sbuf[v]) \in Nat
                 /\ DOMAIN sbuf[v] = 1 .. Len(sbuf[v])
                 /\ out[v] \in Seq(Byte) /\ Len(out[v]) \in Nat
                 /\ DOMAIN out[v] = 1 .. Len(out[v])
           /\ \A c \in Clients :
                 /\ cpc[c] \in {"start", "read", "write", "done", "failed"}
                 /\ link[c] \in {"none", "open", "closed", "reset"}
                 /\ input[c] \in 0 .. MaxInput
                 /\ left[c] \in 0 .. MaxInput /\ written[c] \in 0 .. MaxInput
                 /\ cbuf[c] \in Seq(Byte) /\ Len(cbuf[c]) \in Nat
                 /\ DOMAIN cbuf[c] = 1 .. Len(cbuf[c])
                 /\ stream[c] \in Seq(Byte) /\ Len(stream[c]) \in Nat
                 /\ DOMAIN stream[c] = 1 .. Len(stream[c])
                 /\ Len(stream[c]) <= Capacity
           /\ queue \in Seq(Clients) /\ Len(queue) \in Nat
           /\ DOMAIN queue = 1 .. Len(queue)
           /\ None \notin Clients
           /\ MaxInput \in Nat
           /\ BUF_SIZE \in Nat \ {0} /\ Capacity \in Nat /\ BACKLOG \in Nat
<1>1. /\ None \notin Clients /\ MaxInput \in Nat /\ Inputs \subseteq 0 .. MaxInput
      /\ BUF_SIZE \in Nat \ {0} /\ Capacity \in Nat /\ BACKLOG \in Nat
  BY UsXfrAssumption
<1>2. ASSUME NEW v \in Servers
      PROVE  /\ spc[v] \in {"start", "bound", "accept", "read", "write", "dead"}
             /\ cur[v] \in Clients \cup {None}
             /\ sbuf[v] \in Seq(Byte) /\ Len(sbuf[v]) \in Nat
             /\ DOMAIN sbuf[v] = 1 .. Len(sbuf[v])
             /\ out[v] \in Seq(Byte) /\ Len(out[v]) \in Nat
             /\ DOMAIN out[v] = 1 .. Len(out[v])
  <2>1. sbuf[v] \in Seq(Byte) /\ out[v] \in Seq(Byte)
    BY DEF TypeOK, Byte
  <2> QED
    BY <2>1 DEF TypeOK
<1>3. ASSUME NEW c \in Clients
      PROVE  /\ cpc[c] \in {"start", "read", "write", "done", "failed"}
             /\ link[c] \in {"none", "open", "closed", "reset"}
             /\ input[c] \in 0 .. MaxInput
             /\ left[c] \in 0 .. MaxInput /\ written[c] \in 0 .. MaxInput
             /\ cbuf[c] \in Seq(Byte) /\ Len(cbuf[c]) \in Nat
             /\ DOMAIN cbuf[c] = 1 .. Len(cbuf[c])
             /\ stream[c] \in Seq(Byte) /\ Len(stream[c]) \in Nat
             /\ DOMAIN stream[c] = 1 .. Len(stream[c])
             /\ Len(stream[c]) <= Capacity
  <2>1. cbuf[c] \in Seq(Byte) /\ stream[c] \in Seq(Byte)
    BY DEF TypeOK, Byte
  <2>2. input[c] \in 0 .. MaxInput
    BY <1>1 DEF TypeOK
  <2> QED
    BY <2>1, <2>2 DEF TypeOK
<1>4. /\ queue \in Seq(Clients) /\ Len(queue) \in Nat
      /\ DOMAIN queue = 1 .. Len(queue)
  BY DEF TypeOK
<1> QED
  BY <1>1, <1>2, <1>3, <1>4

LEMMA InitEstablishes == Init => IInv
<1> SUFFICES ASSUME Init PROVE IInv
  OBVIOUS
<1>1. /\ \A v \in Servers : spc[v] = "start" /\ cur[v] = None /\ sbuf[v] = <<>> /\ out[v] = <<>>
      /\ \A c \in Clients : /\ cpc[c] = "start" /\ left[c] = input[c] /\ cbuf[c] = <<>>
                            /\ link[c] = "none" /\ stream[c] = <<>> /\ written[c] = 0
                            /\ input[c] \in Inputs
      /\ queue = <<>>
  BY DEF Init
<1>2. TypeOK
  <2>1. /\ 0 \in 0 .. MaxInput /\ Inputs \subseteq 0 .. MaxInput
        /\ BACKLOG \in Nat /\ BUF_SIZE \in Nat /\ Capacity \in Nat
    BY UsXfrAssumption
  <2>2. input \in [Clients -> Inputs] /\ left \in [Clients -> 0 .. MaxInput]
    BY <2>1 DEF Init
  <2>3. queue \in Seq(Clients) /\ Len(queue) <= BACKLOG + 1
    BY <1>1, <2>1
  <2>4. \A S : <<>> \in Seq(S) /\ Len(<<>>) = 0
    OBVIOUS
  <2> QED
    BY <1>1, <2>1, <2>2, <2>3, <2>4 DEF Init, TypeOK
<1>3. OneServer /\ Connections
  BY <1>1 DEF OneServer, Connections, Bound
<1>4. ASSUME NEW c \in Clients
      PROVE  Progress(c) /\ Waiting(c) /\ Printing(c)
  <2>1. input[c] \in Nat
    <3>1. MaxInput \in Nat /\ Inputs \subseteq 0 .. MaxInput
      BY UsXfrAssumption
    <3>2. input[c] \in 0 .. MaxInput
      BY <1>1, <3>1
    <3> QED
      BY <3>1, <3>2
  <2>2. Progress(c) /\ Waiting(c)
    BY <1>1, <2>1 DEF Progress, Waiting, InQueue
  <2>3. ASSUME NEW v \in Servers PROVE Places(c, v) = {} /\ Segment(c, out[v], 0, 0)
    BY <1>1 DEF Places, Segment
  <2>4. Printing(c)
    BY <1>1, <2>3 DEF Printing
  <2> QED
    BY <2>2, <2>4
<1>5. \A v \in Servers : Serving(v)
  BY <1>1 DEF Serving
<1> QED
  BY <1>2, <1>3, <1>4, <1>5 DEF IInv

(* What a concatenation holds where.                                       *)
LEMMA Concat ==
    ASSUME NEW S, NEW s \in Seq(S), NEW t \in Seq(S)
    PROVE  /\ Len(s) \in Nat /\ Len(t) \in Nat
           /\ s \o t \in Seq(S) /\ Len(s \o t) = Len(s) + Len(t)
           /\ DOMAIN (s \o t) = 1 .. Len(s) + Len(t)
           /\ \A i \in 1 .. Len(s) : (s \o t)[i] = s[i]
           /\ \A i \in Len(s) + 1 .. Len(s) + Len(t) :
                 i - Len(s) \in 1 .. Len(t) /\ (s \o t)[i] = t[i - Len(s)]
  OBVIOUS

(* Steps that leave the connections and the output alone.                  *)
LEMMA QuietStep ==
    ASSUME IInv, TypeOK', OneServer', \A c \in Clients : Progress(c)',
           UNCHANGED <<cur, sbuf, out, queue, link, stream, written>>
    PROVE  IInv'
<1>1. Connections'
  BY DEF IInv, Connections, InQueue
<1>2. \A c \in Clients : Waiting(c)'
  BY DEF IInv, Waiting, InQueue
<1>3. ASSUME NEW c \in Clients PROVE Printing(c)'
  <2>1. Taken(c)' <=> Taken(c)
    BY DEF Taken, InQueue
  <2>2. \A v \in Servers : Places(c, v)' = Places(c, v)
    BY DEF Places
  <2>3. \A v \in Servers : out'[v] = out[v]
    OBVIOUS
  <2>4. Printing(c)
    BY DEF IInv
  <2> QED
    BY <2>1, <2>2, <2>3, <2>4 DEF Printing
<1>4. \A v \in Servers : Serving(v)'
  BY DEF IInv, Serving, Out
<1> QED
  BY <1>1, <1>2, <1>3, <1>4 DEF IInv

LEMMA BindStep ==
    ASSUME IInv, NEW v \in Servers, Bind(v)
    PROVE  IInv'
<1>1. /\ spc[v] = "start" /\ spc' = [spc EXCEPT ![v] = IF NameFree(v) THEN "bound" ELSE "dead"]
      /\ UNCHANGED <<cur, sbuf, out, clientVars, queue, link, stream>>
      /\ UNCHANGED <<cpc, input, left, cbuf, written>>
  BY DEF Bind, clientVars
<1>2. spc \in [Servers -> {"start", "bound", "accept", "read", "write", "dead"}]
  BY DEF IInv, TypeOK
<1>3. TypeOK'
  BY <1>1, <1>2 DEF IInv, TypeOK
<1>4. OneServer'
  <2>1. OneServer
    BY DEF IInv
  <2>2. spc'[v] \in {"bound", "dead"} /\ \A w \in Servers : w # v => spc'[w] = spc[w]
    BY <1>1, <1>2
  <2>3. spc'[v] = "bound" => \A w \in Servers : ~ Bound(w)
    BY <1>1, <1>2 DEF NameFree
  <2>4. \A w, u \in Servers : Bound(w)' /\ Bound(u)' => w = u
    BY <2>1, <2>2, <2>3 DEF OneServer, Bound
  <2>5. \A w \in Servers : /\ cur'[w] # None <=> spc'[w] \in {"read", "write"}
                           /\ sbuf'[w] # <<>> <=> spc'[w] = "write"
    BY <1>1, <2>1, <2>2 DEF OneServer
  <2>6. queue' # <<>> => \E w \in Servers : Listening(w)'
    BY <1>1, <2>1, <2>2 DEF OneServer, Listening
  <2> QED
    BY <2>4, <2>5, <2>6 DEF OneServer
<1>5. \A c \in Clients : Progress(c)'
  BY <1>1 DEF IInv, Progress
<1> QED
  BY <1>1, <1>3, <1>4, <1>5, QuietStep

LEMMA ListenStep ==
    ASSUME IInv, NEW v \in Servers, Listen(v)
    PROVE  IInv'
<1>1. /\ spc[v] = "bound" /\ spc' = [spc EXCEPT ![v] = "accept"]
      /\ UNCHANGED <<cur, sbuf, out, clientVars, queue, link, stream>>
      /\ UNCHANGED <<cpc, input, left, cbuf, written>>
  BY DEF Listen, clientVars
<1>2. spc \in [Servers -> {"start", "bound", "accept", "read", "write", "dead"}]
  BY DEF IInv, TypeOK
<1>3. TypeOK'
  BY <1>1, <1>2 DEF IInv, TypeOK
<1>4. OneServer'
  <2>1. OneServer
    BY DEF IInv
  <2>2. spc'[v] = "accept" /\ \A w \in Servers : w # v => spc'[w] = spc[w]
    BY <1>1, <1>2
  <2> QED
    BY <1>1, <2>1, <2>2 DEF OneServer, Bound, Listening
<1>5. \A c \in Clients : Progress(c)'
  BY <1>1 DEF IInv, Progress
<1> QED
  BY <1>1, <1>3, <1>4, <1>5, QuietStep

(* A client's steps that do not touch its connection: what they do to the  *)
(* client.                                                                 *)
LEMMA QuietClientStep ==
    ASSUME IInv, NEW c \in Clients,
           ConnectRefused(c) \/ ClientRead(c) \/ ClientExit(c) \/ ClientReset(c)
    PROVE  IInv'
<1>1. /\ UNCHANGED <<spc, cur, sbuf, out, queue, link, stream, written, input>>
      /\ \A d \in Clients : d # c => cpc'[d] = cpc[d] /\ left'[d] = left[d] /\ cbuf'[d] = cbuf[d]
  BY DEF ConnectRefused, ClientRead, ClientExit, ClientReset, serverVars, IInv, TypeOK
<1>2. Progress(c)
  BY DEF IInv
<1>3. /\ cpc[c] \in {"start", "read", "write", "done", "failed"}
      /\ link[c] \in {"none", "open", "closed", "reset"}
      /\ input[c] \in 0 .. MaxInput /\ MaxInput \in Nat
      /\ left[c] \in 0 .. MaxInput /\ written[c] \in 0 .. MaxInput
      /\ Len(cbuf[c]) \in Nat /\ BUF_SIZE \in Nat
  BY Facts DEF IInv
<1>4. /\ cpc' \in [Clients -> {"start", "read", "write", "done", "failed"}]
      /\ left' \in [Clients -> 0 .. MaxInput] /\ cbuf' \in [Clients -> Seq(Byte)]
      /\ Progress(c)'
  <2>1. /\ cpc \in [Clients -> {"start", "read", "write", "done", "failed"}]
        /\ left \in [Clients -> 0 .. MaxInput] /\ cbuf \in [Clients -> Seq(Byte)]
    BY DEF IInv, TypeOK, Byte
  <2>2. CASE ConnectRefused(c) \/ ClientReset(c)
    <3>1. /\ cpc' = [cpc EXCEPT ![c] = "failed"] /\ UNCHANGED <<left, cbuf>>
          /\ cpc[c] = "start" \/ link[c] = "reset"
      BY <2>2 DEF ConnectRefused, ClientReset
    <3> QED
      BY <1>1, <1>2, <1>3, <2>1, <3>1 DEF Progress
  <2>3. CASE ClientExit(c)
    <3>1. /\ cpc' = [cpc EXCEPT ![c] = "done"] /\ UNCHANGED <<left, cbuf>>
          /\ cpc[c] = "read" /\ left[c] = 0
      BY <2>3 DEF ClientExit
    <3> QED
      BY <1>1, <1>2, <1>3, <2>1, <3>1 DEF Progress
  <2>4. CASE ClientRead(c)
    <3>1. PICK k \in 1 .. Smaller(BUF_SIZE, left[c]) :
             /\ cbuf' = [cbuf EXCEPT ![c] = Bytes(c, written[c] + 1, written[c] + k)]
             /\ left' = [left EXCEPT ![c] = @ - k]
      BY <2>4 DEF ClientRead
    <3>2. cpc[c] = "read" /\ left[c] > 0 /\ cpc' = [cpc EXCEPT ![c] = "write"]
      BY <2>4 DEF ClientRead
    <3>3. k \in Nat /\ k >= 1 /\ k <= left[c]
      BY <1>3 DEF Smaller
    <3>4. cbuf[c] = <<>> /\ left[c] + written[c] = input[c]
      <4>1. cbuf[c] = <<>> /\ left[c] + Len(cbuf[c]) + written[c] = input[c]
        BY <1>2, <3>2 DEF Progress
      <4> QED
        BY <1>3, <4>1
    <3> DEFINE b == Bytes(c, written[c] + 1, written[c] + k)
    <3>5. b = [i \in 1 .. k |-> <<c, written[c] + i>>]
      <4>1. (written[c] + k) - (written[c] + 1) + 1 = k
        BY <1>3, <3>3
      <4>2. \A i \in 1 .. k : (written[c] + 1) + i - 1 = written[c] + i
        BY <1>3, <3>3
      <4> QED
        BY <4>1, <4>2 DEF Bytes
    <3>6. b \in Seq(Byte) /\ Len(b) = k /\ DOMAIN b = 1 .. k
      <4>1. \A i \in 1 .. k : <<c, written[c] + i>> \in Byte
        BY <1>3, <3>3, <3>4 DEF Byte
      <4> QED
        BY <3>3, <3>5, <4>1
    <3>7. /\ cbuf'[c] = b /\ left'[c] = left[c] - k /\ cpc'[c] = "write"
          /\ cbuf' \in [Clients -> Seq(Byte)]
          /\ left' \in [Clients -> 0 .. MaxInput]
          /\ cpc' \in [Clients -> {"start", "read", "write", "done", "failed"}]
      <4>1. left[c] - k \in 0 .. MaxInput
        BY <1>3, <3>3
      <4> HIDE DEF b
      <4> QED
        BY <2>1, <3>1, <3>2, <3>6, <4>1 DEF b
    <3>8. Progress(c)'
      <4>1. left'[c] + Len(cbuf'[c]) + written[c] = input[c]
        BY <1>3, <3>3, <3>4, <3>6, <3>7
      <4>2. \A i \in DOMAIN cbuf'[c] : cbuf'[c][i] = <<c, written[c] + i>>
        BY <3>5, <3>6, <3>7
      <4>3. link[c] # "none" /\ link[c] # "closed" /\ (link[c] # "open" => stream[c] = <<>>)
        BY <1>2, <3>2 DEF Progress
      <4> QED
        BY <1>1, <1>3, <3>7, <4>1, <4>2, <4>3, SMTT(30) DEF Progress
    <3> QED
      BY <3>7, <3>8
  <2> QED
    BY <2>2, <2>3, <2>4
<1>5. TypeOK'
  BY <1>1, <1>4 DEF IInv, TypeOK, Byte
<1>6. OneServer'
  BY <1>1 DEF IInv, OneServer, Bound, Listening
<1>7. ASSUME NEW d \in Clients PROVE Progress(d)'
  <2>1. CASE d = c
    BY <1>4, <2>1
  <2>2. CASE d # c
    BY <1>1, <2>2 DEF IInv, Progress
  <2> QED
    BY <2>1, <2>2
<1> QED
  BY <1>1, <1>5, <1>6, <1>7, QuietStep

(* A client adds the first k bytes of its buffer to its connection.        *)
Sends(c, k) ==
    /\ link[c] = "open" /\ k <= Len(cbuf[c]) /\ Len(stream[c]) + k <= Capacity
    /\ stream' = [stream EXCEPT ![c] = @ \o SubSeq(cbuf[c], 1, k)]
    /\ written' = [written EXCEPT ![c] = @ + k]
    /\ cbuf' = [cbuf EXCEPT ![c] = <<>>]
    /\ \/ cpc' = [cpc EXCEPT ![c] = "failed"]
       \/ cpc[c] = "write" /\ k = Len(cbuf[c]) /\ cpc' = [cpc EXCEPT ![c] = "read"]
    /\ UNCHANGED <<spc, cur, sbuf, out, input, left, queue, link>>

LEMMA SendStep ==
    ASSUME IInv, NEW c \in Clients, NEW k \in Nat, Sends(c, k)
    PROVE  IInv'
<1> DEFINE t == SubSeq(cbuf[c], 1, k)
<1>1. /\ input[c] \in 0 .. MaxInput /\ MaxInput \in Nat
      /\ left[c] \in 0 .. MaxInput /\ written[c] \in 0 .. MaxInput
      /\ cbuf[c] \in Seq(Byte) /\ Len(cbuf[c]) \in Nat /\ DOMAIN cbuf[c] = 1 .. Len(cbuf[c])
      /\ stream[c] \in Seq(Byte) /\ Len(stream[c]) \in Nat
      /\ DOMAIN stream[c] = 1 .. Len(stream[c])
      /\ k <= Len(cbuf[c])
  BY Facts DEF IInv, Sends
<1>2. Progress(c)
  BY DEF IInv
<1>3. t \in Seq(Byte) /\ Len(t) = k /\ DOMAIN t = 1 .. k /\ \A i \in 1 .. k : t[i] = <<c, written[c] + i>>
  <2>1. t \in Seq(Byte) /\ Len(t) = k /\ DOMAIN t = 1 .. k /\ \A i \in 1 .. k : t[i] = cbuf[c][i]
    BY <1>1
  <2>2. \A i \in 1 .. k : i \in DOMAIN cbuf[c]
    BY <1>1
  <2> QED
    BY <1>2, <2>1, <2>2 DEF Progress
<1> HIDE DEF t
<1>4. /\ stream'[c] = stream[c] \o t /\ written'[c] = written[c] + k /\ cbuf'[c] = <<>>
      /\ \A d \in Clients : d # c =>
            stream'[d] = stream[d] /\ written'[d] = written[d] /\ cbuf'[d] = cbuf[d]
            /\ cpc'[d] = cpc[d]
      /\ \/ cpc'[c] = "failed"
         \/ cpc[c] = "write" /\ k = Len(cbuf[c]) /\ cpc'[c] = "read"
      /\ link[c] = "open" /\ Len(stream[c]) + k <= Capacity
      /\ UNCHANGED <<spc, cur, sbuf, out, input, left, queue, link>>
  BY DEF IInv, TypeOK, t, Sends
<1>5. /\ stream'[c] \in Seq(Byte) /\ Len(stream'[c]) = Len(stream[c]) + k
      /\ DOMAIN stream'[c] = 1 .. Len(stream[c]) + k
      /\ \A i \in 1 .. Len(stream[c]) : stream'[c][i] = stream[c][i]
      /\ \A i \in Len(stream[c]) + 1 .. Len(stream[c]) + k :
            stream'[c][i] = <<c, written[c] + (i - Len(stream[c]))>>
  <2>1. /\ stream'[c] \in Seq(Byte) /\ Len(stream'[c]) = Len(stream[c]) + k
        /\ DOMAIN stream'[c] = 1 .. Len(stream[c]) + k
        /\ \A i \in 1 .. Len(stream[c]) : stream'[c][i] = stream[c][i]
        /\ \A i \in Len(stream[c]) + 1 .. Len(stream[c]) + k :
              stream'[c][i] = t[i - Len(stream[c])]
    <3> DEFINE u == stream[c]
    <3>1. u \in Seq(Byte)
      BY <1>1
    <3> HIDE DEF u
    <3>2. /\ u \o t \in Seq(Byte) /\ Len(u \o t) = Len(u) + Len(t)
          /\ DOMAIN (u \o t) = 1 .. Len(u) + Len(t)
          /\ \A i \in 1 .. Len(u) : (u \o t)[i] = u[i]
          /\ \A i \in Len(u) + 1 .. Len(u) + Len(t) : (u \o t)[i] = t[i - Len(u)]
      BY <1>3, <3>1, Concat, ZenonT(60)
    <3> QED
      BY <1>3, <1>4, <3>2 DEF u
  <2>2. \A i \in Len(stream[c]) + 1 .. Len(stream[c]) + k : i - Len(stream[c]) \in 1 .. k
    BY <1>1
  <2> QED
    BY <1>3, <2>1, <2>2
<1>0. /\ left[c] \in Nat /\ written[c] \in Nat /\ input[c] \in Nat
      /\ Len(cbuf[c]) \in Nat /\ Len(stream[c]) \in Nat /\ k <= Len(cbuf[c])
      /\ \A v \in Servers : Len(sbuf[v]) \in Nat
  BY <1>1, Facts DEF IInv
<1>6. left[c] + Len(cbuf[c]) + written[c] <= input[c] /\ written[c] + k \in 0 .. MaxInput
  BY <1>1, <1>2, SMTT(30) DEF Progress
<1>7. TypeOK'
  <2>1. stream' \in [Clients -> Seq(Byte)] /\ cbuf' \in [Clients -> Seq(Byte)]
    <3>1. stream \in [Clients -> Seq(Byte)] /\ cbuf \in [Clients -> Seq(Byte)]
      BY DEF IInv, TypeOK, Byte
    <3>2. stream[c] \o t \in Seq(Byte) /\ stream' = [stream EXCEPT ![c] = stream[c] \o t]
      BY <1>4, <1>5 DEF t, Sends
    <3>3. <<>> \in Seq(Byte)
      OBVIOUS
    <3> QED
      BY <3>1, <3>2, <3>3 DEF Sends
  <2>2. written' \in [Clients -> 0 .. MaxInput]
    BY <1>6 DEF IInv, TypeOK, Sends
  <2>3. cpc' \in [Clients -> {"start", "read", "write", "done", "failed"}]
    BY DEF IInv, TypeOK, Sends
  <2>4. ASSUME NEW d \in Clients PROVE Len(stream'[d]) <= Capacity
    BY <1>4, <1>5 DEF IInv, TypeOK
  <2>5. TypeOK
    BY DEF IInv
  <2> QED
    BY <1>4, <2>1, <2>2, <2>3, <2>4, <2>5 DEF TypeOK, Byte
<1>8. OneServer' /\ Connections'
  BY <1>4 DEF IInv, OneServer, Bound, Listening, Connections, InQueue
<1>9. ASSUME NEW d \in Clients PROVE Progress(d)'
  <2>1. CASE d = c
    <3>1. link[c] # "none" /\ cpc[c] # "start"
      BY <1>2, <1>4 DEF Progress
    <3>2. Len(cbuf'[c]) = 0 /\ DOMAIN cbuf'[c] = {}
      BY <1>4
    <3>3. left[c] + 0 + (written[c] + k) <= input[c]
      <4>1. PICK l, w, m, n : l = left[c] /\ w = written[c] /\ m = Len(cbuf[c]) /\ n = input[c]
        OBVIOUS
      <4>2. l \in Nat /\ w \in Nat /\ m \in Nat /\ n \in Nat /\ k <= m /\ l + m + w <= n
        BY <1>0, <1>6, <4>1
      <4>3. l + 0 + (w + k) <= n
        BY <4>2
      <4> QED
        BY <4>1, <4>3
    <3>4. cpc'[c] # "failed" => left[c] + 0 + (written[c] + k) = input[c]
      BY <1>1, <1>2, <1>4 DEF Progress
    <3> QED
      BY <1>4, <2>1, <3>1, <3>2, <3>3, <3>4 DEF Progress
  <2>2. CASE d # c
    BY <1>4, <2>2 DEF IInv, Progress
  <2> QED
    BY <2>1, <2>2
<1>10. ASSUME NEW d \in Clients PROVE Waiting(d)'
  <2>1. CASE d = c
    <3> SUFFICES ASSUME InQueue(c)
                 PROVE  /\ Len(stream'[c]) = written'[c]
                        /\ \A i \in DOMAIN stream'[c] : stream'[c][i] = <<c, i>>
      BY <1>4, <2>1 DEF Waiting, InQueue
    <3>1. Len(stream[c]) = written[c] /\ \A i \in DOMAIN stream[c] : stream[c][i] = <<c, i>>
      BY DEF IInv, Waiting
    <3>2. \A i \in Len(stream[c]) + 1 .. Len(stream[c]) + k : written[c] + (i - Len(stream[c])) = i
      BY <1>0, <3>1
    <3>3. ASSUME NEW i \in DOMAIN stream'[c] PROVE stream'[c][i] = <<c, i>>
      <4>1. CASE i \in 1 .. Len(stream[c])
        BY <1>1, <1>5, <3>1, <4>1
      <4>2. CASE i \in Len(stream[c]) + 1 .. Len(stream[c]) + k
        BY <1>5, <3>2, <4>2
      <4> QED
        BY <1>0, <1>5, <4>1, <4>2
    <3> QED
      BY <1>0, <1>4, <1>5, <3>1, <3>3
  <2>2. CASE d # c
    BY <1>4, <2>2 DEF IInv, Waiting, InQueue
  <2> QED
    BY <2>1, <2>2
<1>11. ASSUME NEW d \in Clients PROVE Printing(d)'
  <2>1. Taken(d)' <=> Taken(d)
    BY <1>4 DEF Taken, InQueue
  <2>2. \A v \in Servers : Places(d, v)' = Places(d, v) /\ out'[v] = out[v]
    BY <1>4 DEF Places
  <2>3. Printing(d)
    BY DEF IInv
  <2>4. \A j \in 0 .. written[d] : j \in 0 .. written'[d]
    BY <1>1, <1>4
  <2>5. link' = link /\ cur' = cur /\ (link'[d] = "closed" => written'[d] = written[d])
    BY <1>4
  <2> QED
    BY <2>1, <2>2, <2>3, <2>4, <2>5 DEF Printing
<1>12. ASSUME NEW v \in Servers PROVE Serving(v)'
  <2>1. CASE cur[v] = c
    <3> DEFINE n == Out(c, v)
    <3>1. /\ n \in 0 .. Len(out[v]) /\ Segment(c, out[v], Len(out[v]) - n, n)
          /\ \A i \in DOMAIN sbuf[v] : sbuf[v][i] = <<c, n + i>>
          /\ \A i \in DOMAIN stream[c] : stream[c][i] = <<c, n + Len(sbuf[v]) + i>>
      BY <2>1, Facts DEF IInv, Serving
    <3>2. Len(sbuf[v]) \in Nat
      BY Facts DEF IInv
    <3>3. Out(c, v)' = n
      <4> DEFINE w == written[c]
                 x == Len(sbuf[v])
                 y == Len(stream[c])
      <4>1. w \in Nat /\ x \in Nat /\ y \in Nat
        BY <1>0, <3>2
      <4>2. Out(c, v)' = (w + k) - (x + (y + k)) /\ n = w - (x + y)
        BY <1>4, <1>5 DEF Out
      <4> HIDE DEF n, w, x, y
      <4> QED
        BY <4>1, <4>2
    <3>4. ASSUME NEW i \in DOMAIN stream'[c]
          PROVE  stream'[c][i] = <<c, n + Len(sbuf[v]) + i>>
      <4>1. CASE i \in 1 .. Len(stream[c])
        BY <1>1, <1>5, <3>1, <4>1
      <4>2. CASE i \in Len(stream[c]) + 1 .. Len(stream[c]) + k
        <5>1. written[c] + (i - Len(stream[c])) = n + Len(sbuf[v]) + i
          <6> DEFINE w == written[c]
                     x == Len(sbuf[v])
                     y == Len(stream[c])
          <6>1. w \in Nat /\ x \in Nat /\ y \in Nat /\ i \in Int /\ n = w - (x + y)
            BY <1>0, <3>2, <4>2 DEF Out
          <6> HIDE DEF n, w, x, y
          <6>2. w + (i - y) = n + x + i
            BY <6>1
          <6> QED
            BY <6>2 DEF w, x, y
        <5> HIDE DEF n
        <5> QED
          BY <1>5, <4>2, <5>1
      <4> HIDE DEF n
      <4> QED
        BY <1>0, <1>5, <4>1, <4>2
    <3> QED
      BY <1>4, <2>1, <3>1, <3>3, <3>4, ZenonT(60) DEF Serving
  <2>2. CASE cur[v] # c
    <3>1. cur[v] # None => cur[v] \in Clients
      BY Facts DEF IInv
    <3> QED
      BY <1>4, <2>2, <3>1 DEF IInv, Serving, Out
  <2> QED
    BY <2>1, <2>2
<1> QED
  BY <1>7, <1>8, <1>9, <1>10, <1>11, <1>12 DEF IInv

LEMMA ClientWriteStep ==
    ASSUME IInv, NEW c \in Clients, ClientWrite(c)
    PROVE  IInv'
<1>1. cbuf[c] \in Seq(Byte) /\ Len(cbuf[c]) \in Nat
  BY Facts DEF IInv
<1>2. SubSeq(cbuf[c], 1, Len(cbuf[c])) = cbuf[c]
  BY <1>1
<1>3. Sends(c, Len(cbuf[c]))
  <2>1. stream' = [stream EXCEPT ![c] = @ \o SubSeq(cbuf[c], 1, Len(cbuf[c]))]
    <3>1. stream' = [stream EXCEPT ![c] = @ \o cbuf[c]]
      BY DEF ClientWrite
    <3> QED
      BY <1>2, <3>1, Zenon
  <2>2. /\ cpc[c] = "write" /\ link[c] = "open" /\ Len(stream[c]) + Len(cbuf[c]) <= Capacity
        /\ written' = [written EXCEPT ![c] = @ + Len(cbuf[c])]
        /\ cbuf' = [cbuf EXCEPT ![c] = <<>>] /\ cpc' = [cpc EXCEPT ![c] = "read"]
        /\ UNCHANGED <<spc, cur, sbuf, out, input, left, queue, link>>
    BY DEF ClientWrite, serverVars
  <2>3. Len(cbuf[c]) <= Len(cbuf[c])
    BY <1>1
  <2> QED
    BY <2>1, <2>2, <2>3, Zenon DEF Sends
<1> QED
  BY <1>1, <1>3, SendStep

LEMMA ClientDiesStep ==
    ASSUME IInv, NEW c \in Clients, ClientDies(c)
    PROVE  IInv'
<1>1. /\ Len(cbuf[c]) \in Nat /\ Len(stream[c]) \in Nat /\ Capacity \in Nat
      /\ Len(stream[c]) <= Capacity
  BY Facts DEF IInv
<1>2. PICK k \in 0 .. Smaller(Len(cbuf[c]), Capacity - Len(stream[c])) :
         /\ stream' = [stream EXCEPT ![c] = @ \o SubSeq(cbuf[c], 1, k)]
         /\ written' = [written EXCEPT ![c] = @ + k]
  BY DEF ClientDies
<1>3. k \in Nat /\ k <= Len(cbuf[c]) /\ Len(stream[c]) + k <= Capacity
  <2> DEFINE x == Len(cbuf[c])
             y == Len(stream[c])
  <2>1. x \in Nat /\ y \in Nat /\ Capacity \in Nat /\ y <= Capacity
        /\ k \in 0 .. (IF x < Capacity - y THEN x ELSE Capacity - y)
    BY <1>1 DEF Smaller
  <2> HIDE DEF x, y
  <2>2. k \in Nat /\ k <= x /\ y + k <= Capacity
    BY <2>1
  <2> QED
    BY <2>2 DEF x, y
<1>4. Sends(c, k)
  BY <1>2, <1>3 DEF ClientDies, Sends, serverVars
<1> QED
  BY <1>3, <1>4, SendStep

LEMMA ConnectStep ==
    ASSUME IInv, NEW c \in Clients, Connect(c)
    PROVE  IInv'
<1>1. /\ cpc[c] = "start" /\ Len(queue) <= BACKLOG
      /\ \E v \in Servers : Listening(v)
      /\ queue' = Append(queue, c)
      /\ link' = [link EXCEPT ![c] = "open"] /\ cpc' = [cpc EXCEPT ![c] = "read"]
      /\ UNCHANGED <<spc, cur, sbuf, out, input, left, cbuf, written, stream>>
  BY DEF Connect, QueueHasRoom, serverVars
<1>2. TypeOK /\ OneServer /\ Connections /\ Progress(c)
  BY DEF IInv
<1>3. queue \in Seq(Clients) /\ Len(queue) \in Nat /\ DOMAIN queue = 1 .. Len(queue) /\ BACKLOG \in Nat
  BY <1>2, Facts
<1>4. /\ queue' \in Seq(Clients) /\ Len(queue') = Len(queue) + 1
      /\ DOMAIN queue' = 1 .. Len(queue) + 1
      /\ \A i \in DOMAIN queue : queue'[i] = queue[i]
      /\ queue'[Len(queue) + 1] = c
  BY <1>1, <1>3
<1>5. /\ link[c] = "none" /\ cbuf[c] = <<>> /\ written[c] = 0 /\ stream[c] = <<>>
      /\ ~ InQueue(c) /\ \A v \in Servers : cur[v] # c
  <2>1. link[c] = "none" /\ cbuf[c] = <<>> /\ written[c] = 0 /\ stream[c] = <<>>
    BY <1>1, <1>2 DEF Progress
  <2>2. c # None
    BY UsXfrAssumption
  <2> QED
    BY <1>2, <2>1, <2>2 DEF Connections, InQueue
<1>6. /\ link'[c] = "open" /\ cpc'[c] = "read"
      /\ \A d \in Clients : d # c => link'[d] = link[d] /\ cpc'[d] = cpc[d]
      /\ link' \in [Clients -> {"none", "open", "closed", "reset"}]
      /\ cpc' \in [Clients -> {"start", "read", "write", "done", "failed"}]
  BY <1>1, <1>2 DEF TypeOK
<1>7. InQueue(c)' /\ \A d \in Clients : d # c => (InQueue(d)' <=> InQueue(d))
  BY <1>3, <1>4 DEF InQueue
<1>8. TypeOK'
  <2>1. Len(queue') <= BACKLOG + 1
    BY <1>1, <1>3, <1>4
  <2> QED
    BY <1>1, <1>2, <1>4, <1>6, <2>1 DEF TypeOK
<1>9. OneServer'
  BY <1>1, <1>2 DEF OneServer, Bound, Listening
<1>10. Connections'
  <2>1. \A i, j \in DOMAIN queue' : queue'[i] = queue'[j] => i = j
    BY <1>2, <1>3, <1>4, <1>5 DEF Connections, InQueue
  <2>2. ASSUME NEW i \in DOMAIN queue'
        PROVE  link'[queue'[i]] = "open" /\ \A v \in Servers : cur'[v] # queue'[i]
    <3>1. CASE i \in DOMAIN queue
      <4>1. queue[i] \in Clients /\ queue'[i] = queue[i] /\ link[queue[i]] = "open"
            /\ \A v \in Servers : cur[v] # queue[i]
        BY <1>2, <1>3, <1>4, <3>1 DEF Connections
      <4> QED
        BY <1>1, <1>6, <4>1
    <3>2. CASE i = Len(queue) + 1
      BY <1>1, <1>4, <1>5, <1>6, <3>2
    <3> QED
      BY <1>3, <1>4, <3>1, <3>2
  <2>3. ASSUME NEW v \in Servers, cur'[v] # None PROVE link'[cur'[v]] = "open"
    <3>1. cur[v] \in Clients /\ link[cur[v]] = "open"
      BY <1>1, <1>2, <2>3, Facts DEF Connections
    <3> QED
      BY <1>1, <1>6, <3>1
  <2>4. ASSUME NEW d \in Clients, link'[d] = "open"
        PROVE  InQueue(d)' \/ \E v \in Servers : cur'[v] = d
    BY <1>1, <1>2, <1>6, <1>7, <2>4 DEF Connections
  <2> QED
    BY <2>1, <2>2, <2>3, <2>4 DEF Connections
<1>11. ASSUME NEW d \in Clients PROVE Progress(d)' /\ Waiting(d)'
  <2>1. Progress(d) /\ Waiting(d)
    BY DEF IInv
  <2>2. CASE d = c
    <3>1. Progress(c)'
      BY <1>1, <1>2, <1>5, <1>6 DEF Progress
    <3>2. Waiting(c)'
      BY <1>1, <1>5 DEF Waiting
    <3> QED
      BY <2>2, <3>1, <3>2
  <2>3. CASE d # c
    <3>1. Progress(d)'
      BY <1>1, <1>6, <2>1, <2>3 DEF Progress
    <3>2. Waiting(d)'
      BY <1>1, <1>7, <2>1, <2>3 DEF Waiting
    <3> QED
      BY <3>1, <3>2
  <2> QED
    BY <2>2, <2>3
<1>12. ASSUME NEW d \in Clients PROVE Printing(d)'
  <2>1. Printing(d)
    BY DEF IInv
  <2>2. Taken(d)' <=> Taken(d)
    BY <1>5, <1>6, <1>7 DEF Taken
  <2>3. \A v \in Servers : Places(d, v)' = Places(d, v)
    BY <1>1 DEF Places
  <2>4. link'[d] = "closed" => link[d] = "closed"
    BY <1>6
  <2> QED
    BY <1>1, <2>1, <2>2, <2>3, <2>4 DEF Printing
<1>13. ASSUME NEW v \in Servers PROVE Serving(v)'
  BY <1>1 DEF IInv, Serving, Out
<1> QED
  BY <1>8, <1>9, <1>10, <1>11, <1>12, <1>13 DEF IInv

LEMMA AcceptStep ==
    ASSUME IInv, NEW v \in Servers, Accept(v)
    PROVE  IInv'
<1>0. Head(queue) \in Clients
  <2>1. queue \in Seq(Clients) /\ queue # <<>>
    BY Facts DEF IInv, Accept
  <2> QED
    BY <2>1
<1> PICK c \in Clients : c = Head(queue)
  BY <1>0
<1>1. /\ spc[v] = "accept" /\ queue # <<>>
      /\ cur' = [cur EXCEPT ![v] = c] /\ queue' = Tail(queue)
      /\ spc' = [spc EXCEPT ![v] = "read"]
      /\ UNCHANGED <<sbuf, out, cpc, input, left, cbuf, written, link, stream>>
  BY DEF Accept, clientVars
<1>2. TypeOK /\ OneServer /\ Connections
  BY DEF IInv
<1>3. queue \in Seq(Clients) /\ Len(queue) \in Nat /\ DOMAIN queue = 1 .. Len(queue) /\ None \notin Clients
  BY <1>2, Facts
<1>4. /\ c = queue[1] /\ 1 \in DOMAIN queue /\ c \in Clients
      /\ queue' \in Seq(Clients) /\ Len(queue') = Len(queue) - 1
      /\ Len(queue') \in Nat /\ DOMAIN queue' = 1 .. Len(queue')
      /\ \A i \in DOMAIN queue' : i + 1 \in DOMAIN queue /\ queue'[i] = queue[i + 1]
  BY <1>1, <1>3
<1>5. /\ cur[v] = None /\ sbuf[v] = <<>> /\ InQueue(c) /\ link[c] = "open"
      /\ \A w \in Servers : cur[w] # c
  BY <1>1, <1>2, <1>4 DEF OneServer, Connections, InQueue
<1>6. /\ cur'[v] = c /\ spc'[v] = "read"
      /\ \A w \in Servers : w # v => cur'[w] = cur[w] /\ spc'[w] = spc[w]
      /\ cur' \in [Servers -> Clients \cup {None}]
      /\ spc' \in [Servers -> {"start", "bound", "accept", "read", "write", "dead"}]
  BY <1>1, <1>2, <1>4 DEF TypeOK
<1>7. /\ ~ InQueue(c)'
      /\ \A d \in Clients : d # c => (InQueue(d)' <=> InQueue(d))
  <2>1. \A i, j \in DOMAIN queue : queue[i] = queue[j] => i = j
    BY <1>2 DEF Connections
  <2>2. ~ InQueue(c)'
    <3> SUFFICES ASSUME NEW i \in DOMAIN queue', queue'[i] = c PROVE FALSE
      BY DEF InQueue
    <3>1. i + 1 = 1 /\ i \in Nat /\ i >= 1
      BY <1>4, <2>1
    <3> QED
      BY <3>1
  <2>3. ASSUME NEW d \in Clients, d # c, InQueue(d) PROVE InQueue(d)'
    <3>1. PICK i \in DOMAIN queue : queue[i] = d
      BY <2>3 DEF InQueue
    <3>2. i # 1 /\ i \in 1 .. Len(queue)
      BY <1>3, <1>4, <2>3, <3>1
    <3>3. i - 1 \in DOMAIN queue' /\ (i - 1) + 1 = i
      BY <1>3, <1>4, <3>2
    <3>4. queue'[i - 1] = d
      BY <1>4, <3>1, <3>3
    <3> QED
      BY <3>3, <3>4 DEF InQueue
  <2>4. ASSUME NEW d \in Clients, InQueue(d)' PROVE InQueue(d)
    BY <1>4, <2>4 DEF InQueue
  <2> QED
    BY <2>2, <2>3, <2>4
<1>8. TypeOK'
  <2>1. Len(queue') <= BACKLOG + 1
    <3>1. Len(queue) <= BACKLOG + 1 /\ BACKLOG \in Nat
      BY <1>2, Facts DEF TypeOK
    <3> QED
      BY <1>3, <1>4, <3>1
  <2> QED
    BY <1>1, <1>2, <1>4, <1>6, <2>1 DEF TypeOK
<1>9. OneServer'
  <2>1. \A w \in Servers : Bound(w)' <=> Bound(w)
    BY <1>1, <1>6 DEF Bound
  <2>2. \A w \in Servers : /\ cur'[w] # None <=> spc'[w] \in {"read", "write"}
                           /\ sbuf'[w] # <<>> <=> spc'[w] = "write"
    BY <1>1, <1>2, <1>3, <1>4, <1>5, <1>6 DEF OneServer
  <2>3. Listening(v)'
    BY <1>6 DEF Listening
  <2> QED
    BY <1>2, <2>1, <2>2, <2>3 DEF OneServer
<1>10. Connections'
  <2>1. \A i, j \in DOMAIN queue' : queue'[i] = queue'[j] => i = j
    <3> SUFFICES ASSUME NEW i \in DOMAIN queue', NEW j \in DOMAIN queue', queue'[i] = queue'[j]
                 PROVE  i = j
      OBVIOUS
    <3>1. i + 1 = j + 1 /\ i \in Nat /\ j \in Nat
      BY <1>2, <1>4 DEF Connections
    <3> QED
      BY <3>1
  <2>2. ASSUME NEW i \in DOMAIN queue'
        PROVE  link'[queue'[i]] = "open" /\ \A w \in Servers : cur'[w] # queue'[i]
    <3>1. link[queue'[i]] = "open" /\ \A w \in Servers : cur[w] # queue'[i]
      BY <1>2, <1>4 DEF Connections
    <3>2. queue'[i] # c
      BY <1>7 DEF InQueue
    <3> QED
      BY <1>1, <1>6, <3>1, <3>2
  <2>3. \A w \in Servers : cur'[w] # None => link'[cur'[w]] = "open"
    BY <1>1, <1>2, <1>5, <1>6 DEF Connections
  <2>4. ASSUME NEW d \in Clients, link'[d] = "open"
        PROVE  InQueue(d)' \/ \E w \in Servers : cur'[w] = d
    <3>1. CASE d = c
      BY <1>6, <3>1
    <3>2. CASE d # c
      <4>1. InQueue(d) \/ \E w \in Servers : cur[w] = d
        BY <1>1, <1>2, <2>4 DEF Connections
      <4> QED
        BY <1>3, <1>5, <1>6, <1>7, <3>2, <4>1
    <3> QED
      BY <3>1, <3>2
  <2> QED
    BY <2>1, <2>2, <2>3, <2>4 DEF Connections
<1>11. ASSUME NEW d \in Clients PROVE Progress(d)' /\ Waiting(d)'
  <2>1. Progress(d) /\ Waiting(d)
    BY DEF IInv
  <2>2. Progress(d)'
    BY <1>1, <2>1 DEF Progress
  <2>3. Waiting(d)'
    BY <1>1, <1>7, <2>1 DEF Waiting
  <2> QED
    BY <2>2, <2>3
<1>12. ~ Taken(c) /\ \A w \in Servers : Places(c, w) = {}
  BY <1>4, <1>5 DEF IInv, Printing, Taken
<1>13. ASSUME NEW d \in Clients PROVE Printing(d)'
  <2>1. Printing(d)
    BY DEF IInv
  <2>2. Taken(d)' <=> Taken(d) \/ d = c
    BY <1>1, <1>4, <1>5, <1>7 DEF Taken
  <2>3. \A w \in Servers : Places(d, w)' = Places(d, w)
    BY <1>1 DEF Places
  <2>4. \A w \in Servers : cur'[w] = d => cur[w] = d \/ d = c
    BY <1>6
  <2> QED
    BY <1>1, <1>12, <2>1, <2>2, <2>3, <2>4 DEF Printing
<1>14. ASSUME NEW w \in Servers PROVE Serving(w)'
  <2>1. CASE w = v
    <3>1. /\ out[v] \in Seq(Byte) /\ Len(out[v]) \in Nat /\ DOMAIN out[v] = 1 .. Len(out[v])
          /\ written[c] \in Nat
      BY <1>2, <1>4, Facts
    <3>2. /\ Len(stream[c]) = written[c]
          /\ \A i \in DOMAIN stream[c] : stream[c][i] = <<c, i>>
          /\ DOMAIN stream[c] = 1 .. Len(stream[c])
      BY <1>2, <1>4, <1>5, Facts DEF IInv, Waiting
    <3>3. Out(c, v)' = 0
      BY <1>1, <1>5, <3>1, <3>2 DEF Out
    <3>4. Segment(c, out[v], Len(out[v]), 0)
      BY <1>12, <3>1 DEF Segment, Places
    <3>5. \A i \in DOMAIN stream[c] : stream[c][i] = <<c, 0 + 0 + i>>
      BY <3>1, <3>2
    <3>6. Len(sbuf[v]) = 0 /\ DOMAIN sbuf[v] = {} /\ Len(out[v]) - 0 = Len(out[v])
      BY <1>5, <3>1
    <3> QED
      BY <1>1, <1>6, <2>1, <3>3, <3>4, <3>5, <3>6 DEF Serving
  <2>2. CASE w # v
    BY <1>1, <1>6, <2>2, ZenonT(60) DEF IInv, Serving, Out
  <2> QED
    BY <2>1, <2>2
<1> QED
  BY <1>8, <1>9, <1>10, <1>11, <1>13, <1>14 DEF IInv

(* What a longer sequence keeps of a segment.                              *)
LEMMA SegmentOther ==
    ASSUME NEW o \in Seq(Byte), NEW s \in Seq(Byte), NEW d, NEW a \in Nat, NEW k \in Nat,
           Segment(d, o, a, k), \A i \in DOMAIN s : s[i][1] # d
    PROVE  Segment(d, o \o s, a, k)
<1> DEFINE u == o \o s
<1>1. /\ Len(o) \in Nat /\ Len(s) \in Nat /\ DOMAIN o = 1 .. Len(o) /\ DOMAIN s = 1 .. Len(s)
      /\ Len(u) = Len(o) + Len(s) /\ DOMAIN u = 1 .. Len(o) + Len(s)
      /\ \A i \in 1 .. Len(o) : u[i] = o[i]
      /\ \A i \in Len(o) + 1 .. Len(o) + Len(s) : i - Len(o) \in 1 .. Len(s) /\ u[i] = s[i - Len(o)]
  BY Concat
<1> HIDE DEF u
<1>2. a + k <= Len(u)
  BY <1>1 DEF Segment
<1>3. ASSUME NEW i \in DOMAIN u, u[i][1] = d PROVE i \in a + 1 .. a + k
  <2>1. CASE i \in 1 .. Len(o)
    BY <1>1, <1>3, <2>1 DEF Segment
  <2>2. CASE i \in Len(o) + 1 .. Len(o) + Len(s)
    BY <1>1, <1>3, <2>2
  <2> QED
    BY <1>1, <2>1, <2>2
<1>4. ASSUME NEW i \in 1 .. k PROVE u[a + i] = <<d, i>>
  <2>1. o[a + i] = <<d, i>>
    BY DEF Segment
  <2>2. a + k <= Len(o)
    BY DEF Segment
  <2>3. a + i \in 1 .. Len(o)
    BY <1>1, <2>2
  <2> QED
    BY <1>1, <2>1, <2>3
<1>5. Segment(d, u, a, k)
  BY <1>2, <1>3, <1>4 DEF Segment
<1> QED
  BY <1>5 DEF u

LEMMA SegmentAppend ==
    ASSUME NEW o \in Seq(Byte), NEW s \in Seq(Byte), NEW c, NEW n \in 0 .. Len(o),
           Segment(c, o, Len(o) - n, n), \A i \in DOMAIN s : s[i] = <<c, n + i>>
    PROVE  Segment(c, o \o s, Len(o) - n, n + Len(s))
<1> DEFINE u == o \o s
<1>1. /\ Len(o) \in Nat /\ Len(s) \in Nat /\ DOMAIN o = 1 .. Len(o) /\ DOMAIN s = 1 .. Len(s)
      /\ Len(u) = Len(o) + Len(s) /\ DOMAIN u = 1 .. Len(o) + Len(s)
      /\ \A i \in 1 .. Len(o) : u[i] = o[i]
      /\ \A i \in Len(o) + 1 .. Len(o) + Len(s) : i - Len(o) \in 1 .. Len(s) /\ u[i] = s[i - Len(o)]
  BY Concat
<1> HIDE DEF u
<1> DEFINE a == Len(o) - n
<1>2. a \in Nat /\ a + n = Len(o) /\ n \in Nat
  BY <1>1
<1>3. /\ \A i \in DOMAIN o : o[i][1] = c => i \in a + 1 .. a + n
      /\ \A i \in 1 .. n : o[a + i] = <<c, i>>
  BY DEF Segment
<1> HIDE DEF a
<1>4. a + (n + Len(s)) <= Len(u)
  BY <1>1, <1>2
<1>5. ASSUME NEW i \in DOMAIN u, u[i][1] = c PROVE i \in a + 1 .. a + (n + Len(s))
  <2>1. CASE i \in 1 .. Len(o)
    <3>1. i \in a + 1 .. a + n
      BY <1>1, <1>3, <1>5, <2>1
    <3> QED
      BY <1>1, <1>2, <3>1
  <2>2. CASE i \in Len(o) + 1 .. Len(o) + Len(s)
    BY <1>1, <1>2, <2>2
  <2> QED
    BY <1>1, <2>1, <2>2
<1>6. ASSUME NEW i \in 1 .. n + Len(s) PROVE u[a + i] = <<c, i>>
  <2>1. CASE i <= n
    <3>1. i \in 1 .. n /\ a + i \in 1 .. Len(o)
      BY <1>1, <1>2, <2>1
    <3> QED
      BY <1>1, <1>3, <3>1
  <2>2. CASE i > n
    <3>1. /\ a + i \in Len(o) + 1 .. Len(o) + Len(s)
          /\ (a + i) - Len(o) = i - n /\ n + (i - n) = i /\ i - n \in 1 .. Len(s)
      <4> DEFINE x == Len(o)
                 y == Len(s)
      <4>1. x \in Nat /\ y \in Nat /\ i \in 1 .. n + y /\ a + n = x
        BY <1>1, <1>2
      <4> HIDE DEF x, y
      <4>2. /\ a + i \in x + 1 .. x + y
            /\ (a + i) - x = i - n /\ n + (i - n) = i /\ i - n \in 1 .. y
        BY <1>2, <2>2, <4>1
      <4> QED
        BY <4>2 DEF x, y
    <3>2. u[a + i] = s[(a + i) - Len(o)]
      BY <1>1, <3>1
    <3>3. s[i - n] = <<c, n + (i - n)>>
      BY <1>1, <3>1
    <3> QED
      BY <3>1, <3>2, <3>3
  <2> QED
    BY <1>1, <1>2, <2>1, <2>2
<1>7. Segment(c, u, a, n + Len(s))
  BY <1>4, <1>5, <1>6 DEF Segment
<1> QED
  BY <1>7 DEF u, a

(* A server that serves c prints the first k bytes of its buffer.          *)
Prints(v, k) ==
    /\ k <= Len(sbuf[v])
    /\ out' = [out EXCEPT ![v] = @ \o SubSeq(sbuf[v], 1, k)]

LEMMA PrintStep ==
    ASSUME IInv, NEW v \in Servers, NEW k \in Nat, Prints(v, k),
           NEW c \in Clients, cur[v] = c, NEW n, n = Out(c, v)
    PROVE  /\ out' \in [Servers -> Seq(Byte)]
           /\ Len(out'[v]) = Len(out[v]) + k
           /\ n \in 0 .. Len(out[v]) /\ n + k \in 0 .. written[c]
           /\ Segment(c, out'[v], Len(out[v]) - n, n + k)
           /\ \A d \in Clients : d # c =>
                 \A w \in Servers : Places(d, w)' = Places(d, w)
           /\ \A w \in Servers : Places(c, w)' # {} => w = v
           /\ \A d \in Clients : \A w, u \in Servers :
                 Places(d, w)' # {} /\ Places(d, u)' # {} => w = u
           /\ \A d \in Clients : \A w \in Servers :
                 \E a \in Nat, j \in 0 .. written[d] : Segment(d, out'[w], a, j)
           /\ \A d \in Clients : link[d] = "closed" =>
                 \E w \in Servers : \E a \in Nat : Segment(d, out'[w], a, written[d])
<1> DEFINE t == SubSeq(sbuf[v], 1, k)
<1>1. /\ sbuf[v] \in Seq(Byte) /\ Len(sbuf[v]) \in Nat /\ DOMAIN sbuf[v] = 1 .. Len(sbuf[v])
      /\ out[v] \in Seq(Byte) /\ Len(out[v]) \in Nat /\ DOMAIN out[v] = 1 .. Len(out[v])
      /\ Len(stream[c]) \in Nat /\ written[c] \in Nat /\ c # None
  BY Facts DEF IInv
<1>2. /\ n \in 0 .. Len(out[v]) /\ Segment(c, out[v], Len(out[v]) - n, n)
      /\ \A i \in DOMAIN sbuf[v] : sbuf[v][i] = <<c, n + i>>
  BY <1>1 DEF IInv, Serving
<1>3. /\ t \in Seq(Byte) /\ Len(t) = k /\ DOMAIN t = 1 .. k /\ k <= Len(sbuf[v])
      /\ \A i \in 1 .. k : t[i] = sbuf[v][i]
  BY <1>1 DEF Prints
<1>4. \A i \in DOMAIN t : t[i] = <<c, n + i>>
  <2>1. \A i \in 1 .. k : i \in DOMAIN sbuf[v]
    BY <1>1, <1>3
  <2> QED
    BY <1>2, <1>3, <2>1
<1> HIDE DEF t
<1>5. /\ out' \in [Servers -> Seq(Byte)] /\ out'[v] = out[v] \o t
      /\ \A w \in Servers : w # v => out'[w] = out[w]
  <2>1. out \in [Servers -> Seq(Byte)] /\ out' = [out EXCEPT ![v] = @ \o t]
    BY DEF IInv, TypeOK, Byte, Prints, t
  <2>2. out[v] \o t \in Seq(Byte)
    BY <1>1, <1>3
  <2> QED
    BY <2>1, <2>2
<1>6. /\ Len(out'[v]) = Len(out[v]) + k /\ DOMAIN out'[v] = 1 .. Len(out[v]) + k
      /\ \A i \in 1 .. Len(out[v]) : out'[v][i] = out[v][i]
      /\ \A i \in Len(out[v]) + 1 .. Len(out[v]) + k :
            i - Len(out[v]) \in 1 .. k /\ out'[v][i] = t[i - Len(out[v])]
  <2> DEFINE o == out[v]
  <2>1. o \in Seq(Byte) /\ out'[v] = o \o t
    BY <1>1, <1>5
  <2>0. t \in Seq(Byte) /\ o \in Seq(Byte)
    BY <1>3, <2>1
  <2> HIDE DEF o
  <2> DEFINE u == o \o t
  <2>2. /\ Len(u) = Len(o) + Len(t) /\ DOMAIN u = 1 .. Len(o) + Len(t)
        /\ \A i \in 1 .. Len(o) : u[i] = o[i]
        /\ \A i \in Len(o) + 1 .. Len(o) + Len(t) :
              i - Len(o) \in 1 .. Len(t) /\ u[i] = t[i - Len(o)]
    BY <2>0, Concat, ZenonT(60)
  <2> HIDE DEF u
  <2>3. out'[v] = u
    BY <2>1 DEF u
  <2> QED
    BY <1>3, <2>2, <2>3 DEF o
<1>7. n + k \in 0 .. written[c]
  <2> DEFINE w == written[c]
             x == Len(sbuf[v])
             y == Len(stream[c])
             z == Len(out[v])
  <2>1. w \in Nat /\ x \in Nat /\ y \in Nat /\ n = w - (x + y) /\ k <= x /\ n \in 0 .. z /\ z \in Nat
    BY <1>1, <1>2, <1>3 DEF Out
  <2> HIDE DEF w, x, y, z
  <2>2. n + k \in 0 .. w
    BY <2>1
  <2> QED
    BY <2>2 DEF w
<1>8. Segment(c, out'[v], Len(out[v]) - n, n + k)
  BY <1>1, <1>2, <1>3, <1>4, <1>5, SegmentAppend
<1>9. ASSUME NEW d \in Clients, d # c, NEW w \in Servers
      PROVE  Places(d, w)' = Places(d, w)
  <2>1. CASE w = v
    <3>1. ASSUME NEW i \in DOMAIN out'[v], out'[v][i][1] = d
          PROVE  i \in DOMAIN out[v] /\ out[v][i][1] = d
      <4>1. CASE i \in 1 .. Len(out[v])
        BY <1>1, <1>6, <3>1, <4>1
      <4>2. CASE i \in Len(out[v]) + 1 .. Len(out[v]) + k
        <5>1. out'[v][i] = <<c, n + (i - Len(out[v]))>>
          BY <1>3, <1>4, <1>6, <4>2
        <5> QED
          BY <1>9, <3>1, <5>1
      <4> QED
        BY <1>1, <1>6, <4>1, <4>2
    <3>2. \A i \in DOMAIN out[v] : i \in DOMAIN out'[v] /\ out'[v][i] = out[v][i]
      BY <1>1, <1>6
    <3> QED
      BY <2>1, <3>1, <3>2 DEF Places
  <2>2. CASE w # v
    BY <1>5, <2>2 DEF Places
  <2> QED
    BY <2>1, <2>2
<1>10. ASSUME NEW w \in Servers, w # v
       PROVE  Places(c, w)' = {} /\ Segment(c, out'[w], 0, 0)
  <2>1. Places(c, w) = {}
    BY <1>10 DEF IInv, Printing
  <2>2. out'[w] = out[w] /\ Len(out[w]) \in Nat
    BY <1>5, <1>10, Facts DEF IInv
  <2> QED
    BY <2>1, <2>2 DEF Places, Segment
<1>11. ASSUME NEW d \in Clients, d # c, NEW w \in Servers, NEW a \in Nat, NEW j \in Nat,
              Segment(d, out[w], a, j)
       PROVE  Segment(d, out'[w], a, j)
  <2>1. CASE w = v
    <3>1. \A i \in DOMAIN t : t[i][1] # d
      BY <1>4, <1>11
    <3>2. Segment(d, out[v], a, j)
      BY <1>11, <2>1
    <3>3. Segment(d, out[v] \o t, a, j)
      BY <1>1, <1>3, <3>1, <3>2, SegmentOther
    <3> QED
      BY <1>5, <2>1, <3>3
  <2>2. CASE w # v
    BY <1>5, <1>11, <2>2
  <2> QED
    BY <2>1, <2>2
<1>12. ASSUME NEW d \in Clients, NEW w \in Servers, NEW u \in Servers,
              Places(d, w)' # {}, Places(d, u)' # {}
       PROVE  w = u
  <2>1. CASE d = c
    BY <1>10, <1>12, <2>1
  <2>2. CASE d # c
    BY <1>9, <1>12, <2>2 DEF IInv, Printing
  <2> QED
    BY <2>1, <2>2
<1>13. ASSUME NEW d \in Clients, NEW w \in Servers
       PROVE  \E a \in Nat, j \in 0 .. written[d] : Segment(d, out'[w], a, j)
  <2>0. written[d] \in Nat
    BY Facts DEF IInv
  <2>1. CASE d # c
    <3>1. PICK a \in Nat, j \in 0 .. written[d] : Segment(d, out[w], a, j)
      BY DEF IInv, Printing
    <3> QED
      BY <1>11, <2>0, <2>1, <3>1
  <2>2. CASE d = c /\ w # v
    <3>1. 0 \in 0 .. written[d]
      BY <2>0
    <3> QED
      BY <1>10, <2>2, <3>1
  <2>3. CASE d = c /\ w = v
    <3>1. Len(out[v]) - n \in Nat
      BY <1>1, <1>2
    <3> QED
      BY <1>7, <1>8, <2>3, <3>1
  <2> QED
    BY <2>1, <2>2, <2>3
<1>14. ASSUME NEW d \in Clients, link[d] = "closed"
       PROVE  \E w \in Servers : \E a \in Nat : Segment(d, out'[w], a, written[d])
  <2>1. d # c
    BY <1>1, <1>14 DEF IInv, Connections
  <2>2. PICK w \in Servers, a \in Nat : Segment(d, out[w], a, written[d])
    BY <1>14 DEF IInv, Printing
  <2>3. written[d] \in Nat
    BY Facts DEF IInv
  <2> QED
    BY <1>11, <2>1, <2>2, <2>3
<1> QED
  BY <1>2, <1>5, <1>6, <1>7, <1>8, <1>9, <1>10, <1>12, <1>13, <1>14

LEMMA ServerWriteStep ==
    ASSUME IInv, NEW v \in Servers, ServerWrite(v)
    PROVE  IInv'
<1>0. cur[v] \in Clients
  BY Facts DEF IInv, OneServer, ServerWrite
<1> PICK c \in Clients : c = cur[v]
  BY <1>0
<1>n. PICK n : n = Out(c, v)
  OBVIOUS
<1>k. PICK k : k = Len(sbuf[v])
  OBVIOUS
<1>1. /\ spc[v] = "write" /\ out' = [out EXCEPT ![v] = @ \o sbuf[v]]
      /\ sbuf' = [sbuf EXCEPT ![v] = <<>>]
      /\ spc' = [spc EXCEPT ![v] = "read"]
      /\ UNCHANGED <<cur, cpc, input, left, cbuf, written, queue, link, stream>>
  BY DEF ServerWrite, WriteAll, clientVars
<1>2. TypeOK /\ OneServer /\ Connections /\ Serving(v)
  BY DEF IInv
<1>3. /\ sbuf[v] \in Seq(Byte) /\ k \in Nat /\ c # None
      /\ Len(stream[c]) \in Nat /\ written[c] \in Nat /\ Len(out[v]) \in Nat
  BY <1>2, <1>k, Facts
<1>4. Prints(v, k)
  <2>1. SubSeq(sbuf[v], 1, k) = sbuf[v]
    BY <1>3, <1>k
  <2>2. out' = [out EXCEPT ![v] = @ \o SubSeq(sbuf[v], 1, k)]
    BY <1>1, <2>1, Zenon
  <2> QED
    BY <1>3, <1>k, <2>2 DEF Prints
<1>5. /\ out' \in [Servers -> Seq(Byte)]
      /\ Len(out'[v]) = Len(out[v]) + k
      /\ n \in 0 .. Len(out[v]) /\ n + k \in 0 .. written[c]
      /\ Segment(c, out'[v], Len(out[v]) - n, n + k)
      /\ \A d \in Clients : d # c => \A w \in Servers : Places(d, w)' = Places(d, w)
      /\ \A w \in Servers : Places(c, w)' # {} => w = v
      /\ \A d \in Clients : \A w, u \in Servers :
            Places(d, w)' # {} /\ Places(d, u)' # {} => w = u
      /\ \A d \in Clients : \A w \in Servers :
            \E a \in Nat, j \in 0 .. written[d] : Segment(d, out'[w], a, j)
      /\ \A d \in Clients : link[d] = "closed" =>
            \E w \in Servers : \E a \in Nat : Segment(d, out'[w], a, written[d])
  <2>1. cur[v] = c /\ n = Out(c, v) /\ k \in Nat
    BY <1>3, <1>n
  <2> QED
    BY <1>4, <2>1, PrintStep, ZenonT(60)
<1>6. /\ spc'[v] = "read" /\ sbuf'[v] = <<>>
      /\ \A w \in Servers : w # v => spc'[w] = spc[w] /\ sbuf'[w] = sbuf[w] /\ out'[w] = out[w]
      /\ spc' \in [Servers -> {"start", "bound", "accept", "read", "write", "dead"}]
      /\ sbuf' \in [Servers -> Seq(Byte)]
  <2>1. <<>> \in Seq(Byte)
    OBVIOUS
  <2> QED
    BY <1>1, <1>2, <2>1 DEF TypeOK, Byte
<1>7. TypeOK'
  <2>1. \A w \in Servers : Len(sbuf'[w]) <= BUF_SIZE
    <3>1. Len(<<>>) <= BUF_SIZE
      BY Facts DEF IInv
    <3> QED
      BY <1>2, <1>6, <3>1 DEF TypeOK
  <2> QED
    BY <1>1, <1>2, <1>5, <1>6, <2>1 DEF TypeOK, Byte
<1>8. OneServer'
  <2>1. \A w \in Servers : (Bound(w)' <=> Bound(w)) /\ (Listening(w)' <=> Listening(w))
    BY <1>1, <1>6 DEF Bound, Listening
  <2>2. \A w \in Servers : /\ cur'[w] # None <=> spc'[w] \in {"read", "write"}
                           /\ sbuf'[w] # <<>> <=> spc'[w] = "write"
    BY <1>1, <1>2, <1>6 DEF OneServer
  <2> QED
    BY <1>1, <1>2, <2>1, <2>2 DEF OneServer
<1>9. Connections'
  BY <1>1, <1>2 DEF Connections, InQueue
<1>10. ASSUME NEW d \in Clients PROVE Progress(d)' /\ Waiting(d)'
  BY <1>1 DEF IInv, Progress, Waiting, InQueue
<1>11. ASSUME NEW d \in Clients PROVE Printing(d)'
  <2>1. Printing(d)
    BY DEF IInv
  <2>2. /\ Taken(d)' <=> Taken(d)
        /\ Taken(c)
    BY <1>1, <1>2, <1>3 DEF Taken, InQueue, Connections
  <2>3. ~ Taken(d)' => \A w \in Servers : Places(d, w)' = {}
    BY <1>5, <2>1, <2>2, ZenonT(60) DEF Printing
  <2>4. \A w, u \in Servers : cur'[w] = d /\ Places(d, u)' # {} => w = u
    <3>1. \A w \in Servers : cur[w] = c => w = v
      BY <1>2, <1>3 DEF OneServer, Bound
    <3>2. CASE d = c
      BY <1>1, <1>5, <3>1, <3>2
    <3>3. CASE d # c
      BY <1>1, <1>5, <2>1, <3>3, ZenonT(60) DEF Printing
    <3> QED
      BY <3>2, <3>3
  <2> QED
    BY <1>1, <1>5, <2>3, <2>4 DEF Printing
<1>12. ASSUME NEW w \in Servers PROVE Serving(w)'
  <2>1. CASE w = v
    <3>1. Out(c, v)' = n + k /\ Len(out'[v]) - (n + k) = Len(out[v]) - n /\ n + k \in 0 .. Len(out'[v])
      <4>1. /\ k \in Nat /\ written[c] \in Nat /\ Len(stream[c]) \in Nat
            /\ Len(out[v]) \in Nat /\ n \in 0 .. Len(out[v])
        BY <1>3, <1>5
      <4>2. n = written[c] - (k + Len(stream[c]))
        BY <1>n, <1>k DEF Out
      <4>3. Out(c, v)' = written[c] - (0 + Len(stream[c]))
        BY <1>1, <1>6 DEF Out
      <4>4. Len(out'[v]) = Len(out[v]) + k
        BY <1>5
      <4>5. written[c] - (0 + Len(stream[c])) = n + k
        BY <4>1, <4>2
      <4>6. (Len(out[v]) + k) - (n + k) = Len(out[v]) - n
        BY <4>1
      <4>7. n + k \in 0 .. (Len(out[v]) + k)
        BY <4>1
      <4> QED
        BY <4>3, <4>4, <4>5, <4>6, <4>7, Zenon
    <3>2. Segment(c, out'[v], Len(out'[v]) - (n + k), n + k)
      BY <1>5, <3>1
    <3>3. \A i \in DOMAIN stream[c] : stream[c][i] = <<c, n + k + i>>
      BY <1>2, <1>3, <1>n, <1>k DEF Serving
    <3>4. \A i \in DOMAIN stream'[c] : stream'[c][i] = <<c, (n + k) + 0 + i>>
      <4>1. (n + k) + 0 = n + k
        BY <1>5
      <4> QED
        BY <1>1, <3>3, <4>1
    <3>5. Len(sbuf'[v]) = 0 /\ DOMAIN sbuf'[v] = {} /\ cur'[v] = c
      BY <1>1, <1>6
    <3> QED
      BY <2>1, <3>1, <3>2, <3>4, <3>5 DEF Serving
  <2>2. CASE w # v
    BY <1>1, <1>6, <2>2, ZenonT(60) DEF IInv, Serving, Out
  <2> QED
    BY <2>1, <2>2
<1> QED
  BY <1>7, <1>8, <1>9, <1>10, <1>11, <1>12 DEF IInv

LEMMA ServerReadStep ==
    ASSUME IInv, NEW v \in Servers, ServerRead(v)
    PROVE  IInv'
<1>0. cur[v] \in Clients
  BY Facts DEF IInv, OneServer, ServerRead
<1> PICK c \in Clients : c = cur[v]
  BY <1>0
<1>m. PICK m : m = Smaller(BUF_SIZE, Len(stream[c]))
  OBVIOUS
<1>1. /\ spc[v] = "read" /\ stream[c] # <<>>
      /\ sbuf' = [sbuf EXCEPT ![v] = SubSeq(stream[c], 1, m)]
      /\ stream' = [stream EXCEPT ![c] = Drop(@, m)]
      /\ spc' = [spc EXCEPT ![v] = "write"]
      /\ UNCHANGED <<cur, out, cpc, input, left, cbuf, written, queue, link>>
  BY <1>m DEF ServerRead, clientVars
<1>2. TypeOK /\ OneServer /\ Connections /\ Serving(v)
  BY DEF IInv
<1>3. /\ stream[c] \in Seq(Byte) /\ Len(stream[c]) \in Nat /\ DOMAIN stream[c] = 1 .. Len(stream[c])
      /\ Len(stream[c]) <= Capacity /\ Capacity \in Nat
      /\ c # None /\ written[c] \in Nat /\ BUF_SIZE \in Nat \ {0} /\ Len(out[v]) \in Nat
      /\ sbuf[v] = <<>>
  BY <1>1, <1>2, Facts DEF OneServer
<1>4. m \in Nat /\ m >= 1 /\ m <= Len(stream[c]) /\ m <= BUF_SIZE
  <2>1. Len(stream[c]) # 0
    BY <1>1, <1>3
  <2> QED
    BY <1>m, <1>3, <2>1 DEF Smaller
<1>5. /\ SubSeq(stream[c], 1, m) \in Seq(Byte) /\ Len(SubSeq(stream[c], 1, m)) = m
      /\ \A i \in 1 .. m : SubSeq(stream[c], 1, m)[i] = stream[c][i]
  BY <1>3, <1>4
<1>6. /\ Drop(stream[c], m) \in Seq(Byte) /\ Len(Drop(stream[c], m)) = Len(stream[c]) - m
      /\ \A i \in 1 .. Len(stream[c]) - m : Drop(stream[c], m)[i] = stream[c][m + i]
  BY <1>3, <1>4 DEF Drop
<1>7. /\ spc'[v] = "write" /\ sbuf'[v] = SubSeq(stream[c], 1, m)
      /\ stream'[c] = Drop(stream[c], m)
      /\ \A w \in Servers : w # v => spc'[w] = spc[w] /\ sbuf'[w] = sbuf[w]
      /\ \A d \in Clients : d # c => stream'[d] = stream[d]
      /\ spc' \in [Servers -> {"start", "bound", "accept", "read", "write", "dead"}]
      /\ sbuf' \in [Servers -> Seq(Byte)] /\ stream' \in [Clients -> Seq(Byte)]
  BY <1>1, <1>2, <1>5, <1>6 DEF TypeOK, Byte
<1>8. /\ Len(sbuf'[v]) = m /\ DOMAIN sbuf'[v] = 1 .. m
      /\ Len(stream'[c]) = Len(stream[c]) - m /\ DOMAIN stream'[c] = 1 .. Len(stream[c]) - m
      /\ \A i \in 1 .. m : sbuf'[v][i] = stream[c][i]
      /\ \A i \in 1 .. Len(stream[c]) - m : stream'[c][i] = stream[c][m + i]
  <2>1. sbuf'[v] \in Seq(Byte) /\ stream'[c] \in Seq(Byte)
    BY <1>7
  <2>2. /\ Len(sbuf'[v]) = m /\ Len(stream'[c]) = Len(stream[c]) - m
        /\ \A i \in 1 .. m : sbuf'[v][i] = stream[c][i]
        /\ \A i \in 1 .. Len(stream[c]) - m : stream'[c][i] = stream[c][m + i]
    BY <1>5, <1>6, <1>7, Zenon
  <2>3. DOMAIN sbuf'[v] = 1 .. Len(sbuf'[v]) /\ DOMAIN stream'[c] = 1 .. Len(stream'[c])
    BY <2>1
  <2> QED
    BY <2>2, <2>3, Zenon
<1>9. TypeOK'
  <2>1. \A w \in Servers : Len(sbuf'[w]) <= BUF_SIZE
    BY <1>2, <1>4, <1>7, <1>8 DEF TypeOK
  <2>2. ASSUME NEW d \in Clients PROVE Len(stream'[d]) <= Capacity
    <3>1. Len(stream[c]) - m <= Capacity
      BY <1>3, <1>4
    <3> QED
      BY <1>2, <1>7, <1>8, <3>1 DEF TypeOK
  <2> QED
    BY <1>1, <1>2, <1>7, <2>1, <2>2 DEF TypeOK, Byte
<1>10. OneServer'
  <2>1. \A w \in Servers : (Bound(w)' <=> Bound(w)) /\ (Listening(w)' <=> Listening(w))
    BY <1>1, <1>7 DEF Bound, Listening
  <2>2. sbuf'[v] # <<>>
    BY <1>4, <1>8
  <2>3. \A w \in Servers : /\ cur'[w] # None <=> spc'[w] \in {"read", "write"}
                           /\ sbuf'[w] # <<>> <=> spc'[w] = "write"
    BY <1>1, <1>2, <1>7, <2>2 DEF OneServer
  <2> QED
    BY <1>1, <1>2, <2>1, <2>3 DEF OneServer
<1>11. Connections'
  BY <1>1, <1>2 DEF Connections, InQueue
<1>12. ASSUME NEW d \in Clients PROVE Progress(d)' /\ Waiting(d)'
  <2>1. CASE d = c
    <3>1. link[c] = "open" /\ ~ InQueue(c)
      BY <1>2, <1>3 DEF Connections, InQueue
    <3>2. Waiting(c)'
      BY <1>1, <3>1 DEF Waiting, InQueue
    <3>3. Progress(c)'
      BY <1>1, <3>1 DEF IInv, Progress
    <3> QED
      BY <2>1, <3>2, <3>3
  <2>2. CASE d # c
    BY <1>1, <1>7, <2>2 DEF IInv, Progress, Waiting, InQueue
  <2> QED
    BY <2>1, <2>2
<1>13. ASSUME NEW d \in Clients PROVE Printing(d)'
  <2>1. Printing(d)
    BY DEF IInv
  <2>2. Taken(d)' <=> Taken(d)
    BY <1>1 DEF Taken, InQueue
  <2>3. \A w \in Servers : Places(d, w)' = Places(d, w) /\ out'[w] = out[w]
    BY <1>1 DEF Places
  <2> QED
    BY <1>1, <2>1, <2>2, <2>3 DEF Printing
<1>14. ASSUME NEW w \in Servers PROVE Serving(w)'
  <2>1. CASE w = v
    <3>n. PICK n : n = Out(c, v)
      OBVIOUS
    <3>1. /\ n \in 0 .. Len(out[v]) /\ Segment(c, out[v], Len(out[v]) - n, n)
          /\ \A i \in DOMAIN stream[c] : stream[c][i] = <<c, n + Len(sbuf[v]) + i>>
      BY <1>2, <1>3, <3>n DEF Serving
    <3>2. Len(sbuf[v]) = 0 /\ n \in Nat
      BY <1>3, <3>1
    <3>3. \A i \in DOMAIN stream[c] : stream[c][i] = <<c, n + i>>
      <4>1. n + Len(sbuf[v]) = n
        BY <3>2
      <4> QED
        BY <3>1, <4>1
    <3>4. Out(c, v)' = n
      <4>1. n = written[c] - (0 + Len(stream[c]))
        BY <3>n, <3>2 DEF Out
      <4>2. Out(c, v)' = written[c] - (m + (Len(stream[c]) - m))
        BY <1>1, <1>8 DEF Out
      <4>3. m + (Len(stream[c]) - m) = 0 + Len(stream[c])
        BY <1>3, <1>4
      <4> QED
        BY <4>1, <4>2, <4>3
    <3>5. \A i \in DOMAIN sbuf'[v] : sbuf'[v][i] = <<c, n + i>>
      <4>1. \A i \in 1 .. m : i \in DOMAIN stream[c]
        BY <1>3, <1>4
      <4> QED
        BY <1>8, <3>3, <4>1
    <3>6. ASSUME NEW i \in DOMAIN stream'[c]
          PROVE  stream'[c][i] = <<c, n + Len(sbuf'[v]) + i>>
      <4>1. m + i \in DOMAIN stream[c] /\ n + (m + i) = n + m + i
        BY <1>3, <1>4, <1>8, <3>2
      <4>2. stream'[c][i] = <<c, n + (m + i)>>
        BY <1>8, <3>3, <4>1
      <4> QED
        BY <1>8, <4>1, <4>2
    <3>7. cur'[v] = c /\ out'[v] = out[v]
      BY <1>1
    <3> QED
      BY <2>1, <3>1, <3>4, <3>5, <3>6, <3>7 DEF Serving
  <2>2. CASE w # v
    <3>1. cur[w] # c
      <4>1. spc[w] \notin {"read", "write"}
        BY <1>1, <1>2, <2>2 DEF OneServer, Bound
      <4> QED
        BY <1>2, <1>3, <4>1 DEF OneServer
    <3>2. cur[w] # None => cur[w] \in Clients
      BY Facts DEF IInv
    <3>3. Serving(w)
      BY DEF IInv
    <3> QED
      BY <1>1, <1>7, <2>2, <3>1, <3>2, <3>3 DEF Serving, Out
  <2> QED
    BY <2>1, <2>2
<1> QED
  BY <1>9, <1>10, <1>11, <1>12, <1>13, <1>14 DEF IInv

LEMMA ServerCloseStep ==
    ASSUME IInv, NEW v \in Servers, ServerClose(v)
    PROVE  IInv'
<1>0. cur[v] \in Clients
  BY Facts DEF IInv, OneServer, ServerClose
<1> PICK c \in Clients : c = cur[v]
  BY <1>0
<1>1. /\ spc[v] = "read" /\ stream[c] = <<>> /\ cpc[c] \in {"done", "failed"}
      /\ link' = [link EXCEPT ![c] = "closed"]
      /\ cur' = [cur EXCEPT ![v] = None]
      /\ spc' = [spc EXCEPT ![v] = "accept"]
      /\ UNCHANGED <<sbuf, out, cpc, input, left, cbuf, written, queue, stream>>
  BY DEF ServerClose, EndOfFile, clientVars
<1>2. TypeOK /\ OneServer /\ Connections /\ Serving(v)
  BY DEF IInv
<1>3. /\ c # None /\ written[c] \in Nat /\ Len(out[v]) \in Nat /\ sbuf[v] = <<>>
  BY <1>1, <1>2, Facts DEF OneServer
<1>4. /\ cur'[v] = None /\ spc'[v] = "accept" /\ link'[c] = "closed"
      /\ \A w \in Servers : w # v => cur'[w] = cur[w] /\ spc'[w] = spc[w]
      /\ \A d \in Clients : d # c => link'[d] = link[d]
      /\ spc' \in [Servers -> {"start", "bound", "accept", "read", "write", "dead"}]
      /\ cur' \in [Servers -> Clients \cup {None}]
      /\ link' \in [Clients -> {"none", "open", "closed", "reset"}]
  BY <1>1, <1>2 DEF TypeOK
<1>5. /\ link[c] = "open" /\ ~ InQueue(c) /\ Taken(c) /\ Taken(c)'
      /\ \A w \in Servers : cur[w] = c => w = v
  <2>1. link[c] = "open" /\ ~ InQueue(c)
    BY <1>2, <1>3 DEF Connections, InQueue
  <2>2. \A w \in Servers : cur[w] = c => w = v
    BY <1>1, <1>2, <1>3 DEF OneServer, Bound
  <2> QED
    BY <1>1, <1>4, <2>1, <2>2 DEF Taken, InQueue
<1>6. TypeOK'
  BY <1>1, <1>2, <1>4 DEF TypeOK
<1>7. OneServer'
  <2>1. \A w \in Servers : (Bound(w)' <=> Bound(w)) /\ (Listening(w)' <=> Listening(w))
    BY <1>1, <1>4 DEF Bound, Listening
  <2>2. \A w \in Servers : /\ cur'[w] # None <=> spc'[w] \in {"read", "write"}
                           /\ sbuf'[w] # <<>> <=> spc'[w] = "write"
    BY <1>1, <1>2, <1>3, <1>4 DEF OneServer
  <2> QED
    BY <1>1, <1>2, <2>1, <2>2 DEF OneServer
<1>8. Connections'
  <2>1. ASSUME NEW i \in DOMAIN queue'
        PROVE  link'[queue'[i]] = "open" /\ \A w \in Servers : cur'[w] # queue'[i]
    <3>1. link[queue[i]] = "open" /\ \A w \in Servers : cur[w] # queue[i]
      BY <1>1, <1>2 DEF Connections
    <3>2. queue[i] \in Clients /\ None \notin Clients /\ queue' = queue /\ queue[i] # c
      BY <1>1, <1>2, <3>1, Facts
    <3> QED
      BY <1>4, <3>1, <3>2
  <2>2. ASSUME NEW w \in Servers, cur'[w] # None PROVE link'[cur'[w]] = "open"
    <3>1. w # v /\ cur'[w] = cur[w] /\ cur[w] # c /\ cur[w] \in Clients
      BY <1>2, <1>4, <1>5, <2>2, Facts
    <3>2. link[cur[w]] = "open"
      BY <1>2, <2>2, <3>1 DEF Connections
    <3> QED
      BY <1>4, <3>1, <3>2
  <2>3. ASSUME NEW d \in Clients, link'[d] = "open"
        PROVE  InQueue(d)' \/ \E w \in Servers : cur'[w] = d
    <3>1. d # c /\ link[d] = "open"
      BY <1>4, <2>3
    <3>2. InQueue(d) \/ \E w \in Servers : cur[w] = d
      BY <1>2, <3>1 DEF Connections
    <3> QED
      BY <1>1, <1>4, <3>1, <3>2 DEF InQueue
  <2>4. \A i, j \in DOMAIN queue' : queue'[i] = queue'[j] => i = j
    BY <1>1, <1>2 DEF Connections
  <2> QED
    BY <2>1, <2>2, <2>3, <2>4 DEF Connections
<1>9. ASSUME NEW d \in Clients PROVE Progress(d)' /\ Waiting(d)'
  <2>1. Progress(d) /\ Waiting(d)
    BY DEF IInv
  <2>2. Waiting(d)'
    BY <1>1, <2>1 DEF Waiting, InQueue
  <2>3. Progress(d)'
    BY <1>1, <1>4, <1>5, <2>1 DEF Progress
  <2> QED
    BY <2>2, <2>3
<1>10. \E a \in Nat : Segment(c, out[v], a, written[c])
  <2>n. PICK n : n = Out(c, v)
    OBVIOUS
  <2>1. n \in 0 .. Len(out[v]) /\ Segment(c, out[v], Len(out[v]) - n, n)
    BY <1>2, <1>3, <2>n DEF Serving
  <2>2. n = written[c]
    BY <1>1, <1>3, <2>n DEF Out
  <2>3. Len(out[v]) - n \in Nat
    BY <1>3, <2>1
  <2> QED
    BY <2>1, <2>2, <2>3
<1>11. ASSUME NEW d \in Clients PROVE Printing(d)'
  <2>1. Printing(d)
    BY DEF IInv
  <2>2. Taken(d)' <=> Taken(d)
    BY <1>1, <1>4, <1>5 DEF Taken, InQueue
  <2>3. \A w \in Servers : Places(d, w)' = Places(d, w) /\ out'[w] = out[w]
    BY <1>1 DEF Places
  <2>4. \A w \in Servers : cur'[w] = d => cur[w] = d
    BY <1>3, <1>4, Facts, <1>2
  <2>5. link'[d] = "closed" =>
          \E w \in Servers : \E a \in Nat : Segment(d, out'[w], a, written'[d])
    <3>1. CASE d = c
      BY <1>1, <1>10, <3>1
    <3>2. CASE d # c
      BY <1>1, <1>4, <2>1, <3>2 DEF Printing
    <3> QED
      BY <3>1, <3>2
  <2> QED
    BY <1>1, <2>1, <2>2, <2>3, <2>4, <2>5 DEF Printing
<1>12. ASSUME NEW w \in Servers PROVE Serving(w)'
  <2>1. CASE w = v
    BY <1>4, <2>1 DEF Serving
  <2>2. CASE w # v
    <3>1. Serving(w) /\ cur'[w] = cur[w]
      BY <1>4, <2>2 DEF IInv
    <3> QED
      BY <1>1, <3>1 DEF Serving, Out
  <2> QED
    BY <2>1, <2>2
<1> QED
  BY <1>6, <1>7, <1>8, <1>9, <1>11, <1>12 DEF IInv

LEMMA ServerDiesStep ==
    ASSUME IInv, NEW v \in Servers, ServerDies(v)
    PROVE  IInv'
<1>1. /\ Bound(v)
      /\ spc' = [spc EXCEPT ![v] = "dead"]
      /\ cur' = [cur EXCEPT ![v] = None]
      /\ sbuf' = [sbuf EXCEPT ![v] = <<>>]
      /\ queue' = <<>>
      /\ link' = [d \in Clients |-> IF link[d] = "open" THEN "reset" ELSE link[d]]
      /\ stream' = [d \in Clients |-> IF link[d] = "open" THEN <<>> ELSE stream[d]]
      /\ UNCHANGED <<cpc, input, left, cbuf, written>>
  BY DEF ServerDies, clientVars
<1>2. TypeOK /\ OneServer /\ Connections
  BY DEF IInv
<1>3. /\ spc'[v] = "dead" /\ cur'[v] = None /\ sbuf'[v] = <<>>
      /\ \A w \in Servers : w # v => spc'[w] = spc[w] /\ cur'[w] = cur[w] /\ sbuf'[w] = sbuf[w]
      /\ spc' \in [Servers -> {"start", "bound", "accept", "read", "write", "dead"}]
      /\ cur' \in [Servers -> Clients \cup {None}]
      /\ sbuf' \in [Servers -> Seq(Byte)]
  <2>1. <<>> \in Seq(Byte)
    OBVIOUS
  <2> QED
    BY <1>1, <1>2, <2>1 DEF TypeOK, Byte
<1>4. \A w \in Servers : cur'[w] = None
  <2>1. ASSUME NEW w \in Servers, w # v PROVE cur'[w] = None
    <3>1. spc[w] \notin {"read", "write"}
      BY <1>1, <1>2, <2>1 DEF OneServer, Bound
    <3> QED
      BY <1>2, <1>3, <2>1, <3>1 DEF OneServer
  <2> QED
    BY <1>3, <2>1
<1>5. /\ \A d \in Clients : /\ link'[d] # "open" /\ (link'[d] = "none" <=> link[d] = "none")
                            /\ (link'[d] = "closed" <=> link[d] = "closed")
                            /\ stream'[d] = <<>>
      /\ link' \in [Clients -> {"none", "open", "closed", "reset"}]
      /\ stream' \in [Clients -> Seq(Byte)]
  <2>1. \A d \in Clients : link[d] # "open" => stream[d] = <<>>
    BY DEF IInv, Progress
  <2>2. <<>> \in Seq(Byte) /\ \A d \in Clients : link[d] \in {"none", "open", "closed", "reset"}
    BY <1>2, Facts
  <2> QED
    BY <1>1, <2>1, <2>2
<1>6. /\ out' \in [Servers -> Seq(Byte)]
      /\ \A d \in Clients : \A w, u \in Servers :
            Places(d, w)' # {} /\ Places(d, u)' # {} => w = u
      /\ \A d \in Clients : \A w \in Servers :
            \E a \in Nat, j \in 0 .. written[d] : Segment(d, out'[w], a, j)
      /\ \A d \in Clients : link[d] = "closed" =>
            \E w \in Servers : \E a \in Nat : Segment(d, out'[w], a, written[d])
      /\ \A d \in Clients : link[d] = "none" => \A w \in Servers : Places(d, w)' = {}
  <2>1. PICK k \in 0 .. Len(sbuf[v]) : out' = [out EXCEPT ![v] = @ \o SubSeq(sbuf[v], 1, k)]
    BY DEF ServerDies
  <2>2. k \in Nat /\ Prints(v, k) /\ cur[v] \in Clients \cup {None}
        /\ Len(sbuf[v]) \in Nat /\ sbuf[v] \in Seq(Byte) /\ out[v] \in Seq(Byte)
    BY <1>2, <2>1, Facts DEF Prints
  <2>3. \A d \in Clients : link[d] = "none" => \A w \in Servers : Places(d, w) = {}
    BY DEF IInv, Printing, Taken
  <2>4. CASE cur[v] \in Clients
    <3>1. PICK c \in Clients : cur[v] = c
      BY <2>4
    <3>2. PICK n : n = Out(c, v)
      OBVIOUS
    <3>3. /\ out' \in [Servers -> Seq(Byte)]
          /\ \A d \in Clients : \A w, u \in Servers :
                Places(d, w)' # {} /\ Places(d, u)' # {} => w = u
          /\ \A d \in Clients : \A w \in Servers :
                \E a \in Nat, j \in 0 .. written[d] : Segment(d, out'[w], a, j)
          /\ \A d \in Clients : link[d] = "closed" =>
                \E w \in Servers : \E a \in Nat : Segment(d, out'[w], a, written[d])
          /\ \A d \in Clients : d # c => \A w \in Servers : Places(d, w)' = Places(d, w)
      BY <2>2, <3>1, <3>2, PrintStep, ZenonT(60)
    <3>4. link[c] = "open"
      BY <1>2, <3>1, Facts DEF Connections
    <3>5. \A d \in Clients : link[d] = "none" => \A w \in Servers : Places(d, w)' = {}
      <4>1. \A d \in Clients : link[d] = "none" => d # c
        BY <3>4
      <4>2. \A d \in Clients : d # c => \A w \in Servers : Places(d, w)' = Places(d, w)
        BY <3>3, Zenon
      <4> QED
        BY <2>3, <4>1, <4>2, SMT
    <3> QED
      BY <3>3, <3>5, Zenon
  <2>5. CASE cur[v] = None
    <3>1. sbuf[v] = <<>>
      BY <1>2, <2>5 DEF OneServer
    <3>2. k = 0
      BY <2>1, <3>1
    <3>3. out[v] \o SubSeq(sbuf[v], 1, k) = out[v]
      BY <2>2, <3>1, <3>2
    <3>4. out' = out
      BY <1>2, <2>1, <3>3 DEF TypeOK
    <3>5. out \in [Servers -> Seq(Byte)]
      BY <1>2 DEF TypeOK, Byte
    <3>6. \A d \in Clients : \A w \in Servers : Places(d, w)' = Places(d, w)
      BY <3>4 DEF Places
    <3>7. \A d \in Clients : Printing(d)
      BY DEF IInv
    <3>8. \A d \in Clients : link[d] = "none" => \A w \in Servers : Places(d, w)' = {}
      BY <2>3, <3>6
    <3>9. \A d \in Clients : \A w, u \in Servers :
             Places(d, w)' # {} /\ Places(d, u)' # {} => w = u
      BY <3>6, <3>7 DEF Printing
    <3>10. /\ \A d \in Clients : \A w \in Servers :
                  \E a \in Nat, j \in 0 .. written[d] : Segment(d, out'[w], a, j)
           /\ \A d \in Clients : link[d] = "closed" =>
                  \E w \in Servers : \E a \in Nat : Segment(d, out'[w], a, written[d])
      BY <3>4, <3>7 DEF Printing
    <3> QED
      BY <3>4, <3>5, <3>8, <3>9, <3>10
  <2> QED
    BY <2>2, <2>4, <2>5
<1>7. TypeOK'
  <2>1. Len(<<>>) = 0 /\ <<>> \in Seq(Clients)
    OBVIOUS
  <2>2. Len(queue') <= BACKLOG + 1 /\ queue' \in Seq(Clients)
    BY <1>1, <2>1, UsXfrAssumption
  <2>3. \A w \in Servers : Len(sbuf'[w]) <= BUF_SIZE
    <3>1. Len(sbuf'[v]) <= BUF_SIZE
      BY <1>3, <2>1, UsXfrAssumption
    <3> QED
      BY <1>2, <1>3, <3>1 DEF TypeOK
  <2>4. \A d \in Clients : Len(stream'[d]) <= Capacity
    BY <1>5, <2>1, UsXfrAssumption
  <2> QED
    BY <1>1, <1>2, <1>3, <1>5, <1>6, <2>2, <2>3, <2>4 DEF TypeOK, Byte
<1>8. OneServer'
  <2>1. \A w \in Servers : Bound(w)' => Bound(w)
    BY <1>1, <1>3 DEF Bound
  <2>2. \A w \in Servers : spc'[w] \notin {"read", "write"}
    BY <1>1, <1>2, <1>3 DEF OneServer, Bound
  <2>3. \A w \in Servers : sbuf'[w] = <<>>
    BY <1>2, <1>3, <2>2 DEF OneServer
  <2> QED
    BY <1>1, <1>2, <1>4, <2>1, <2>2, <2>3 DEF OneServer
<1>9. Connections'
  BY <1>1, <1>4, <1>5 DEF Connections
<1>10. ASSUME NEW d \in Clients PROVE Progress(d)' /\ Waiting(d)' /\ Printing(d)'
  <2>1. Progress(d) /\ Printing(d)
    BY DEF IInv
  <2>2. ~ InQueue(d)'
    BY <1>1 DEF InQueue
  <2>3. Progress(d)'
    BY <1>1, <1>5, <2>1 DEF Progress
  <2>4. Waiting(d)'
    BY <2>2 DEF Waiting
  <2>5. Taken(d)' <=> link[d] # "none"
    BY <1>5, <2>2 DEF Taken
  <2>6. \A w, u \in Servers : cur'[w] # d
    BY <1>4, UsXfrAssumption
  <2>7. Printing(d)'
    BY <1>1, <1>5, <1>6, <2>5, <2>6 DEF Printing
  <2> QED
    BY <2>3, <2>4, <2>7
<1>11. \A w \in Servers : Serving(w)'
  BY <1>4 DEF Serving
<1> QED
  BY <1>7, <1>8, <1>9, <1>10, <1>11 DEF IInv

LEMMA NextStep == IInv /\ [Next]_vars => IInv'
<1> SUFFICES ASSUME IInv, [Next]_vars PROVE IInv'
  OBVIOUS
<1>1. ASSUME NEW v \in Servers, ServerStep(v) \/ ServerDies(v) PROVE IInv'
  BY <1>1, BindStep, ListenStep, AcceptStep, ServerReadStep, ServerWriteStep,
     ServerCloseStep, ServerDiesStep DEF ServerStep
<1>2. ASSUME NEW c \in Clients, ClientStep(c) \/ ClientDies(c) PROVE IInv'
  BY <1>2, ConnectStep, QuietClientStep, ClientWriteStep, ClientDiesStep DEF ClientStep
<1>3. CASE UNCHANGED vars
  <2>1. /\ UNCHANGED <<spc, cur, sbuf, out, queue, cpc, input, left, cbuf, link, stream, written>>
    BY <1>3 DEF vars, serverVars, clientVars
  <2>2. TypeOK' /\ OneServer'
    BY <2>1 DEF IInv, TypeOK, OneServer, Bound, Listening
  <2>3. \A c \in Clients : Progress(c)'
    BY <2>1 DEF IInv, Progress
  <2> QED
    BY <2>1, <2>2, <2>3, QuietStep
<1> QED
  BY <1>1, <1>2, <1>3 DEF Next

THEOREM Invariance == Spec => []IInv
  BY InitEstablishes, NextStep, PTL DEF Spec

(* The variables keep their types, and no connection, buffer or queue      *)
(* grows beyond what the kernel and the programs let it.                   *)
THEOREM TypeCorrect == Spec => []TypeOK
<1>1. IInv => TypeOK
  BY DEF IInv
<1> QED
  BY <1>1, Invariance, PTL

-----------------------------------------------------------------------------
(* What is printed of a client.                                            *)
LEMMA SegmentPlaces ==
    ASSUME NEW c \in Clients, NEW v \in Servers, out[v] \in Seq(Byte),
           NEW a \in Nat, NEW k \in Nat, Segment(c, out[v], a, k)
    PROVE  Places(c, v) = a + 1 .. a + k
<1>1. Len(out[v]) \in Nat /\ DOMAIN out[v] = 1 .. Len(out[v])
  OBVIOUS
<1>2. ASSUME NEW i \in a + 1 .. a + k PROVE i \in Places(c, v)
  <2>1. i - a \in 1 .. k /\ a + (i - a) = i
    OBVIOUS
  <2>2. out[v][i] = <<c, i - a>>
    BY <2>1 DEF Segment
  <2>3. a + k <= Len(out[v])
    BY DEF Segment
  <2>4. i \in 1 .. Len(out[v])
    BY <1>1, <2>3
  <2> QED
    BY <1>1, <2>2, <2>4 DEF Places
<1> QED
  BY <1>2 DEF Places, Segment

LEMMA BytesFromOne ==
    ASSUME NEW c, NEW k \in Nat
    PROVE  Bytes(c, 1, k) = [i \in 1 .. k |-> <<c, i>>]
<1>1. k - 1 + 1 = k /\ \A i \in 1 .. k : 1 + i - 1 = i
  OBVIOUS
<1> QED
  BY <1>1 DEF Bytes

LEMMA PrintedSegment ==
    ASSUME NEW c \in Clients, NEW v \in Servers, out[v] \in Seq(Byte),
           NEW a \in Nat, NEW k \in Nat, Segment(c, out[v], a, k),
           \A w \in Servers : Places(c, w) # {} => w = v
    PROVE  PrintedOf(c) = Bytes(c, 1, k)
<1>1. Places(c, v) = a + 1 .. a + k
  BY SegmentPlaces
<1>2. Bytes(c, 1, k) = [i \in 1 .. k |-> <<c, i>>]
  BY BytesFromOne
<1>3. CASE k = 0
  <2>1. Printers(c) = {}
    BY <1>1, <1>3 DEF Printers
  <2> QED
    BY <1>2, <1>3, <2>1 DEF PrintedOf
<1>4. CASE k # 0
  <2>1. Printers(c) = {v}
    <3>1. a + 1 \in a + 1 .. a + k
      BY <1>4
    <3>2. Places(c, v) # {}
      BY <1>1, <3>1
    <3> QED
      BY <3>2 DEF Printers
  <2>2. PrintedOf(c) = SubSeq(out[v], Min(Places(c, v)), Max(Places(c, v)))
    BY <2>1 DEF PrintedOf
  <2>3. Min(Places(c, v)) = a + 1 /\ Max(Places(c, v)) = a + k
    BY <1>1, <1>4 DEF Min, Max
  <2>4. a + k <= Len(out[v]) /\ \A i \in 1 .. k : out[v][a + i] = <<c, i>>
    BY DEF Segment
  <2> DEFINE s == SubSeq(out[v], a + 1, a + k)
  <2>5. s \in Seq(Byte) /\ Len(s) = k /\ \A i \in 1 .. k : s[i] = out[v][a + i]
    BY <2>4
  <2> HIDE DEF s
  <2>6. s \in [1 .. k -> Byte]
    BY <2>5
  <2>7. \A i \in 1 .. k : s[i] = <<c, i>>
    BY <2>4, <2>5, Zenon
  <2>8. s = [i \in 1 .. k |-> <<c, i>>]
    BY <2>6, <2>7
  <2> QED
    BY <1>2, <2>2, <2>3, <2>8 DEF s
<1> QED
  BY <1>3, <1>4

(* The sequence s is the bytes of c behind its first m.                    *)
Stretch(c, s, m) == \A i \in DOMAIN s : s[i] = <<c, m + i>>

LEMMA Glue ==
    ASSUME NEW p \in Seq(Byte), NEW q \in Seq(Byte), NEW c,
           Stretch(c, p, 0), Stretch(c, q, Len(p))
    PROVE  /\ p \o q \in Seq(Byte) /\ Len(p \o q) = Len(p) + Len(q)
           /\ Stretch(c, p \o q, 0)
<1> DEFINE u == p \o q
<1>1. /\ Len(p) \in Nat /\ Len(q) \in Nat /\ DOMAIN p = 1 .. Len(p) /\ DOMAIN q = 1 .. Len(q)
      /\ u \in Seq(Byte) /\ Len(u) = Len(p) + Len(q) /\ DOMAIN u = 1 .. Len(p) + Len(q)
      /\ \A i \in 1 .. Len(p) : u[i] = p[i]
      /\ \A i \in Len(p) + 1 .. Len(p) + Len(q) : i - Len(p) \in 1 .. Len(q) /\ u[i] = q[i - Len(p)]
  BY Concat
<1> HIDE DEF u
<1>2. ASSUME NEW i \in DOMAIN u PROVE u[i] = <<c, 0 + i>>
  <2>1. CASE i \in 1 .. Len(p)
    BY <1>1, <2>1 DEF Stretch
  <2>2. CASE i \in Len(p) + 1 .. Len(p) + Len(q)
    <3>1. u[i] = <<c, Len(p) + (i - Len(p))>>
      BY <1>1, <2>2 DEF Stretch
    <3>2. Len(p) + (i - Len(p)) = 0 + i
      BY <1>1, <2>2
    <3> QED
      BY <3>1, <3>2
  <2> QED
    BY <1>1, <2>1, <2>2
<1> QED
  BY <1>1, <1>2 DEF u, Stretch

LEMMA GlueThree ==
    ASSUME NEW p \in Seq(Byte), NEW q \in Seq(Byte), NEW r \in Seq(Byte), NEW c,
           Stretch(c, p, 0), Stretch(c, q, Len(p)), Stretch(c, r, Len(p) + Len(q))
    PROVE  p \o q \o r = Bytes(c, 1, Len(p) + Len(q) + Len(r))
<1>1. PICK s : s = p \o q
  OBVIOUS
<1>2. s \in Seq(Byte) /\ Len(s) = Len(p) + Len(q) /\ Stretch(c, s, 0)
  BY <1>1, Glue
<1>3. PICK t : t = s \o r
  OBVIOUS
<1>4. t \in Seq(Byte) /\ Len(t) = Len(s) + Len(r) /\ Stretch(c, t, 0)
  <2>1. Stretch(c, r, Len(s))
    BY <1>2
  <2> QED
    BY <1>2, <1>3, <2>1, Glue
<1>5. t \in [1 .. Len(t) -> Byte] /\ DOMAIN t = 1 .. Len(t)
  BY <1>4
<1>6. t = [i \in 1 .. Len(t) |-> <<c, i>>]
  <2>1. \A i \in 1 .. Len(t) : t[i] = <<c, 0 + i>>
    BY <1>4, <1>5 DEF Stretch
  <2>2. \A i \in 1 .. Len(t) : 0 + i = i
    OBVIOUS
  <2>3. \A i \in 1 .. Len(t) : t[i] = <<c, i>>
    BY <2>1, <2>2
  <2> QED
    BY <1>5, <2>3
<1>7. Len(t) = Len(p) + Len(q) + Len(r) /\ Len(t) \in Nat
  BY <1>2, <1>4
<1>8. t = Bytes(c, 1, Len(t))
  BY <1>6, <1>7, BytesFromOne
<1> QED
  BY <1>1, <1>3, <1>7, <1>8

(* What a client wrote is what was printed, what its server holds and what *)
(* is still in the connection.                                             *)
LEMMA OpenConnection ==
    ASSUME IInv, NEW c \in Clients, link[c] = "open"
    PROVE  PrintedOf(c) \o HeldOf(c) \o stream[c] = Bytes(c, 1, written[c])
<1>1. /\ stream[c] \in Seq(Byte) /\ Len(stream[c]) \in Nat
      /\ DOMAIN stream[c] = 1 .. Len(stream[c]) /\ written[c] \in 0 .. MaxInput
      /\ MaxInput \in Nat /\ c # None
  BY Facts DEF IInv
<1>2. Bytes(c, 1, written[c]) = [i \in 1 .. written[c] |-> <<c, i>>]
  <2>1. written[c] \in Nat
    BY <1>1
  <2> QED
    BY <2>1, BytesFromOne, Zenon
<1>3. CASE InQueue(c)
  <2>1. Printers(c) = {}
    BY <1>3 DEF IInv, Printing, Taken, Printers
  <2>2. ~ \E v \in Servers : cur[v] = c
    BY <1>3 DEF IInv, Connections, InQueue
  <2>3. PrintedOf(c) \o HeldOf(c) \o stream[c] = stream[c]
    <3>1. PrintedOf(c) = <<>> /\ HeldOf(c) = <<>>
      BY <2>1, <2>2 DEF PrintedOf, HeldOf
    <3>2. <<>> \o <<>> \o stream[c] = stream[c]
      BY <1>1
    <3> QED
      BY <3>1, <3>2
  <2>4. Len(stream[c]) = written[c] /\ \A i \in DOMAIN stream[c] : stream[c][i] = <<c, i>>
    BY <1>3 DEF IInv, Waiting
  <2>5. stream[c] \in [1 .. written[c] -> Byte]
    BY <1>1, <2>4
  <2>6. stream[c] = [i \in 1 .. written[c] |-> <<c, i>>]
    BY <1>1, <2>4, <2>5
  <2> QED
    BY <1>2, <2>3, <2>6
<1>4. CASE ~ InQueue(c)
  <2>1. PICK v \in Servers : cur[v] = c
    BY <1>4 DEF IInv, Connections
  <2>2. HeldOf(c) = sbuf[v]
    <3>1. \A w \in Servers : cur[w] = c => w = v
      BY <1>1, <2>1 DEF IInv, OneServer, Bound
    <3> QED
      BY <2>1, <3>1 DEF HeldOf
  <2>n. PICK n : n = Out(c, v)
    OBVIOUS
  <2>3. /\ n \in 0 .. Len(out[v]) /\ Segment(c, out[v], Len(out[v]) - n, n)
        /\ \A i \in DOMAIN sbuf[v] : sbuf[v][i] = <<c, n + i>>
        /\ \A i \in DOMAIN stream[c] : stream[c][i] = <<c, n + Len(sbuf[v]) + i>>
    BY <1>1, <2>1, <2>n DEF IInv, Serving
  <2>4. /\ out[v] \in Seq(Byte) /\ Len(out[v]) \in Nat
        /\ sbuf[v] \in Seq(Byte) /\ Len(sbuf[v]) \in Nat
    BY Facts DEF IInv
  <2>5. /\ n \in Nat /\ Len(out[v]) - n \in Nat
        /\ n + Len(sbuf[v]) + Len(stream[c]) = written[c] /\ n <= written[c]
    <3>1. n = written[c] - (Len(sbuf[v]) + Len(stream[c]))
      BY <2>n DEF Out
    <3>2. n \in Nat /\ Len(out[v]) - n \in Nat
      BY <2>3, <2>4
    <3>3. written[c] \in Nat /\ Len(sbuf[v]) \in Nat /\ Len(stream[c]) \in Nat
      BY <1>1, <2>4
    <3>4. n + Len(sbuf[v]) + Len(stream[c]) = written[c] /\ n <= written[c]
      <4> DEFINE w == written[c]
                 x == Len(sbuf[v])
                 y == Len(stream[c])
      <4>1. w \in Nat /\ x \in Nat /\ y \in Nat /\ n = w - (x + y)
        BY <3>1, <3>3
      <4> HIDE DEF w, x, y
      <4>2. n + x + y = w
        BY <4>1
      <4>3. n <= w
        BY <4>1
      <4> QED
        BY <4>2, <4>3 DEF w, x, y
    <3> QED
      BY <3>2, <3>4
  <2>6. PrintedOf(c) = [i \in 1 .. n |-> <<c, i>>]
    <3>1. \A w \in Servers : Places(c, w) # {} => w = v
      BY <2>1 DEF IInv, Printing
    <3> QED
      BY <2>3, <2>4, <2>5, <3>1, PrintedSegment, BytesFromOne
  <2>7. PrintedOf(c) \in Seq(Byte) /\ Len(PrintedOf(c)) = n /\ Stretch(c, PrintedOf(c), 0)
    <3>1. n <= MaxInput
      BY <1>1, <2>5
    <3>2. \A i \in 1 .. n : <<c, i>> \in Byte /\ 0 + i = i
      BY <1>1, <2>5, <3>1 DEF Byte
    <3> QED
      BY <2>5, <2>6, <3>2 DEF Stretch
  <2>8. Stretch(c, sbuf[v], n) /\ Stretch(c, stream[c], n + Len(sbuf[v]))
    BY <2>3 DEF Stretch
  <2>9. PrintedOf(c) \o sbuf[v] \o stream[c]
          = Bytes(c, 1, n + Len(sbuf[v]) + Len(stream[c]))
    <3>p. PICK p : p = PrintedOf(c)
      OBVIOUS
    <3>q. PICK q, r : q = sbuf[v] /\ r = stream[c]
      OBVIOUS
    <3>1. p \in Seq(Byte) /\ q \in Seq(Byte) /\ r \in Seq(Byte)
      BY <1>1, <2>4, <2>7, <3>p, <3>q
    <3>2. Stretch(c, p, 0) /\ Stretch(c, q, Len(p)) /\ Stretch(c, r, Len(p) + Len(q))
      BY <2>7, <2>8, <3>p, <3>q
    <3>3. p \o q \o r = Bytes(c, 1, Len(p) + Len(q) + Len(r))
      BY <3>1, <3>2, GlueThree
    <3> QED
      BY <2>7, <3>3, <3>p, <3>q
  <2> QED
    BY <2>2, <2>5, <2>9
<1> QED
  BY <1>3, <1>4

(* Of a client the server closed everything has been printed.              *)
LEMMA ClosedConnection ==
    ASSUME IInv, NEW c \in Clients, link[c] = "closed"
    PROVE  /\ PrintedOf(c) = Bytes(c, 1, written[c])
           /\ cpc[c] \in {"done", "failed"}
           /\ cpc[c] = "done" => Len(PrintedOf(c)) = input[c]
<1>1. written[c] \in Nat /\ Len(cbuf[c]) \in Nat /\ left[c] \in Nat /\ input[c] \in Nat
  BY Facts DEF IInv
<1>2. PICK v \in Servers, a \in Nat : Segment(c, out[v], a, written[c])
  BY DEF IInv, Printing
<1>3. out[v] \in Seq(Byte)
  BY Facts DEF IInv
<1>4. \A w \in Servers : Places(c, w) # {} => w = v
  <2>1. CASE written[c] = 0
    <3> SUFFICES ASSUME NEW w \in Servers PROVE Places(c, w) = {}
      OBVIOUS
    <3>1. PICK b \in Nat, k \in 0 .. written[c] : Segment(c, out[w], b, k)
      BY DEF IInv, Printing
    <3>2. k = 0 /\ k \in Nat /\ out[w] \in Seq(Byte)
      BY <2>1, <3>1, Facts DEF IInv
    <3>3. Places(c, w) = b + 1 .. b + k
      <4>1. Segment(c, out[w], b, k)
        BY <3>1
      <4> QED
        BY <3>2, <4>1, SegmentPlaces
    <3> QED
      BY <3>2, <3>3
  <2>2. CASE written[c] # 0
    <3>1. Places(c, v) = a + 1 .. a + written[c]
      BY <1>1, <1>2, <1>3, SegmentPlaces
    <3>2. a + 1 \in a + 1 .. a + written[c]
      BY <1>1, <2>2
    <3>3. Places(c, v) # {}
      BY <3>1, <3>2
    <3> QED
      BY <3>3 DEF IInv, Printing
  <2> QED
    BY <2>1, <2>2
<1>5. PrintedOf(c) = Bytes(c, 1, written[c])
  BY <1>1, <1>2, <1>3, <1>4, PrintedSegment
<1>6. cpc[c] \in {"done", "failed"}
  BY DEF IInv, Progress
<1>7. ASSUME cpc[c] = "done" PROVE Len(PrintedOf(c)) = input[c]
  <2>1. left[c] = 0 /\ cbuf[c] = <<>> /\ left[c] + Len(cbuf[c]) + written[c] = input[c]
    BY <1>7 DEF IInv, Progress
  <2>2. written[c] = input[c]
    BY <1>1, <2>1
  <2>3. Len(Bytes(c, 1, written[c])) = written[c]
    BY <1>1, BytesFromOne
  <2> QED
    BY <1>5, <2>2, <2>3
<1> QED
  BY <1>5, <1>6, <1>7

LEMMA PrintedIsPrefix ==
    ASSUME IInv, NEW c \in Clients
    PROVE  IsPrefix(PrintedOf(c), Bytes(c, 1, written[c]))
<1>1. written[c] \in Nat
  BY Facts DEF IInv
<1>2. PICK k \in 0 .. written[c] : PrintedOf(c) = Bytes(c, 1, k)
  <2>1. CASE Printers(c) = {}
    <3>1. Bytes(c, 1, 0) = <<>>
      BY BytesFromOne
    <3>2. 0 \in 0 .. written[c]
      BY <1>1
    <3> QED
      BY <2>1, <3>1, <3>2 DEF PrintedOf
  <2>2. CASE Printers(c) # {}
    <3>1. PICK v \in Servers : Places(c, v) # {}
      BY <2>2 DEF Printers
    <3>2. \A w \in Servers : Places(c, w) # {} => w = v
      BY <3>1 DEF IInv, Printing
    <3>3. PICK a \in Nat, k \in 0 .. written[c] : Segment(c, out[v], a, k)
      BY DEF IInv, Printing
    <3>4. out[v] \in Seq(Byte) /\ k \in Nat
      BY <3>3, Facts DEF IInv
    <3>5. PrintedOf(c) = Bytes(c, 1, k)
      BY <3>2, <3>3, <3>4, PrintedSegment
    <3> QED
      BY <3>5
  <2> QED
    BY <2>1, <2>2
<1>3. k \in Nat /\ k <= written[c]
  BY <1>1
<1> DEFINE s == [i \in 1 .. k |-> <<c, i>>]
           t == [i \in 1 .. written[c] |-> <<c, i>>]
<1>4. PrintedOf(c) = s /\ Bytes(c, 1, written[c]) = t
  BY <1>1, <1>2, <1>3, BytesFromOne
<1>5. Len(s) = k /\ Len(t) = written[c]
  BY <1>1, <1>3
<1>6. SubSeq(s, 1, k) = SubSeq(t, 1, k)
  BY <1>1, <1>3
<1> QED
  BY <1>3, <1>4, <1>5, <1>6 DEF IsPrefix

(* No byte is lost, doubled or mixed with another client's; of a client    *)
(* that ended everything is printed, of a reset one an initial part: the   *)
(* writes of us_xfr_cl.c:36-38 reach the stdout of us_xfr_sv.c:57-59.      *)
THEOREM NothingLost == Spec => []NoByteLost
<1>1. ASSUME IInv PROVE NoByteLost
  <2> SUFFICES ASSUME NEW c \in Clients
               PROVE  /\ \A v, w \in Printers(c) : v = w
                      /\ link[c] = "open" =>
                            PrintedOf(c) \o HeldOf(c) \o stream[c] = Bytes(c, 1, written[c])
                      /\ link[c] = "closed" =>
                            /\ PrintedOf(c) = Bytes(c, 1, written[c])
                            /\ cpc[c] \in {"done", "failed"}
                            /\ cpc[c] = "done" => Len(PrintedOf(c)) = input[c]
                      /\ IsPrefix(PrintedOf(c), Bytes(c, 1, written[c]))
    BY DEF NoByteLost
  <2>1. \A v, w \in Printers(c) : v = w
    BY <1>1 DEF IInv, Printing, Printers
  <2>2. link[c] = "open" =>
           PrintedOf(c) \o HeldOf(c) \o stream[c] = Bytes(c, 1, written[c])
    BY <1>1, OpenConnection
  <2>3. link[c] = "closed" =>
           /\ PrintedOf(c) = Bytes(c, 1, written[c])
           /\ cpc[c] \in {"done", "failed"}
           /\ cpc[c] = "done" => Len(PrintedOf(c)) = input[c]
    BY <1>1, ClosedConnection
  <2>4. IsPrefix(PrintedOf(c), Bytes(c, 1, written[c]))
    BY <1>1, PrintedIsPrefix
  <2> QED
    BY <2>1, <2>2, <2>3, <2>4
<1> QED
  BY <1>1, Invariance, PTL

-----------------------------------------------------------------------------
(* Refinement: the clients that have had their turn or were turned away.   *)
TakenSet == {c \in Clients : link[c] # "none" /\ \A i \in DOMAIN queue : queue[i] # c}

(* What a server prints of its buffer are the bytes that come next.        *)
LEMMA PrintsNext ==
    ASSUME IInv, NEW v \in Servers, NEW c \in Clients, cur[v] = c,
           NEW k \in 0 .. Len(sbuf[v])
    PROVE  /\ k \in 0 .. MaxInput
           /\ SubSeq(sbuf[v], 1, k) = [i \in 1 .. k |-> <<c, T!NextByte(v, c) + i - 1>>]
<1>n. PICK n : n = Out(c, v)
  OBVIOUS
<1>1. /\ sbuf[v] \in Seq(Byte) /\ Len(sbuf[v]) \in Nat /\ DOMAIN sbuf[v] = 1 .. Len(sbuf[v])
      /\ out[v] \in Seq(Byte) /\ Len(out[v]) \in Nat /\ DOMAIN out[v] = 1 .. Len(out[v])
      /\ Len(stream[c]) \in Nat /\ written[c] \in 0 .. MaxInput /\ MaxInput \in Nat /\ c # None
  BY Facts DEF IInv
<1>2. /\ n \in 0 .. Len(out[v]) /\ Segment(c, out[v], Len(out[v]) - n, n)
      /\ \A i \in DOMAIN sbuf[v] : sbuf[v][i] = <<c, n + i>>
  BY <1>1, <1>n DEF IInv, Serving
<1>3. k \in 0 .. MaxInput
  <2> DEFINE w == written[c]
             x == Len(sbuf[v])
             y == Len(stream[c])
  <2>1. /\ w \in 0 .. MaxInput /\ MaxInput \in Nat /\ x \in Nat /\ y \in Nat /\ k \in 0 .. x
        /\ n = w - (x + y)
    BY <1>1, <1>n DEF Out
  <2>2. n >= 0
    BY <1>1, <1>2
  <2> HIDE DEF w, x, y
  <2>3. k \in 0 .. MaxInput
    BY <2>1, <2>2
  <2> QED
    BY <2>3
<1>4. T!NextByte(v, c) = n + 1
  <2>1. CASE n = 0
    <3>1. \A i \in DOMAIN out[v] : out[v][i][1] # c
      <4>1. \A i \in DOMAIN out[v] : out[v][i][1] = c =>
               i \in (Len(out[v]) - n) + 1 .. (Len(out[v]) - n) + n
        BY <1>2 DEF Segment
      <4> QED
        BY <1>1, <2>1, <4>1
    <3>2. out[v] # <<>> => Len(out[v]) \in DOMAIN out[v]
      BY <1>1
    <3> QED
      BY <2>1, <3>1, <3>2 DEF T!NextByte
  <2>2. CASE n # 0
    <3>1. n \in 1 .. n /\ (Len(out[v]) - n) + n = Len(out[v]) /\ Len(out[v]) # 0
      BY <1>1, <1>2, <2>2
    <3>2. out[v][(Len(out[v]) - n) + n] = <<c, n>>
      BY <1>2, <3>1 DEF Segment
    <3>3. out[v][Len(out[v])] = <<c, n>> /\ out[v] # <<>>
      BY <3>1, <3>2
    <3> QED
      BY <3>3 DEF T!NextByte
  <2> QED
    BY <2>1, <2>2
<1>5. SubSeq(sbuf[v], 1, k) = [i \in 1 .. k |-> <<c, n + i>>]
  <2> DEFINE s == SubSeq(sbuf[v], 1, k)
  <2>1. s \in [1 .. k -> Byte] /\ \A i \in 1 .. k : s[i] = sbuf[v][i]
    <3>1. k \in Nat /\ k <= Len(sbuf[v])
      BY <1>1
    <3>2. s \in Seq(Byte) /\ Len(s) = k /\ \A i \in 1 .. k : s[i] = sbuf[v][i]
      BY <1>1, <3>1
    <3> HIDE DEF s
    <3> QED
      BY <3>1, <3>2
  <2>2. \A i \in 1 .. k : i \in DOMAIN sbuf[v]
    BY <1>1
  <2> HIDE DEF s
  <2>3. s = [i \in 1 .. k |-> <<c, n + i>>]
    BY <1>2, <2>1, <2>2
  <2> QED
    BY <2>3 DEF s
<1>6. \A i \in 1 .. k : (n + 1) + i - 1 = n + i
  BY <1>1, <1>2
<1> QED
  BY <1>3, <1>4, <1>5, <1>6

(* Leaving the queue is all that accept does to the others.                *)
LEMMA HeadLeaves ==
    ASSUME NEW q \in Seq(Clients), q # <<>>, NEW d, d # Head(q)
    PROVE  (\A i \in DOMAIN q : q[i] # d) <=> (\A i \in DOMAIN Tail(q) : Tail(q)[i] # d)
<1>1. /\ Head(q) = q[1] /\ Len(q) \in Nat /\ DOMAIN q = 1 .. Len(q)
      /\ DOMAIN Tail(q) = 1 .. Len(q) - 1
      /\ \A i \in 1 .. Len(q) - 1 : Tail(q)[i] = q[i + 1]
  OBVIOUS
<1>2. ASSUME \A i \in DOMAIN Tail(q) : Tail(q)[i] # d, NEW i \in DOMAIN q PROVE q[i] # d
  <2>1. CASE i = 1
    BY <1>1, <2>1
  <2>2. CASE i # 1
    <3>1. i - 1 \in 1 .. Len(q) - 1 /\ (i - 1) + 1 = i
      BY <1>1, <2>2
    <3> QED
      BY <1>1, <1>2, <3>1
  <2> QED
    BY <2>1, <2>2
<1>3. ASSUME \A i \in DOMAIN q : q[i] # d, NEW i \in DOMAIN Tail(q) PROVE Tail(q)[i] # d
  <2>1. i + 1 \in DOMAIN q
    BY <1>1
  <2> QED
    BY <1>1, <1>3, <2>1
<1> QED
  BY <1>2, <1>3

LEMMA ServerRefines ==
    ASSUME IInv, IInv', NEW v \in Servers, ServerStep(v) \/ ServerDies(v)
    PROVE  T!Next \/ UNCHANGED <<cur, out, TakenSet>>
<1>1. /\ cur[v] \in Clients \cup {None} /\ None \notin Clients
      /\ queue \in Seq(Clients) /\ DOMAIN queue = 1 .. Len(queue) /\ Len(queue) \in Nat
      /\ sbuf[v] \in Seq(Byte) /\ out[v] \in Seq(Byte) /\ Len(sbuf[v]) \in Nat
  BY Facts DEF IInv
<1>2. /\ cur \in [Servers -> Clients \cup {None}] /\ out \in [Servers -> Seq(Byte)]
      /\ link \in [Clients -> {"none", "open", "closed", "reset"}]
  BY DEF IInv, TypeOK, Byte
<1>3. CASE Bind(v) \/ Listen(v) \/ ServerRead(v)
  BY <1>3 DEF Bind, Listen, ServerRead, TakenSet
<1>4. CASE Accept(v)
  <2>1. Head(queue) \in Clients /\ queue # <<>>
    BY <1>1, <1>4 DEF Accept
  <2>2. PICK c \in Clients : c = Head(queue)
    BY <2>1
  <2>3. /\ cur' = [cur EXCEPT ![v] = c] /\ queue' = Tail(queue)
        /\ spc[v] = "accept" /\ UNCHANGED <<out, link>>
    BY <1>4, <2>2 DEF Accept
  <2>4. cur[v] = None /\ c = queue[1] /\ 1 \in DOMAIN queue
    BY <1>1, <2>1, <2>2, <2>3 DEF IInv, OneServer
  <2>5. c \notin TakenSet /\ link[c] = "open"
    BY <2>4 DEF IInv, Connections, TakenSet
  <2>6. \A i \in DOMAIN queue' : queue'[i] # c
    BY <1>2, <2>3 DEF IInv, Connections
  <2>7. TakenSet' = TakenSet \cup {c}
    <3>1. ASSUME NEW d \in Clients PROVE d \in TakenSet' <=> d \in TakenSet \/ d = c
      <4>1. CASE d = c
        BY <2>3, <2>5, <2>6, <4>1 DEF TakenSet
      <4>2. CASE d # c
        BY <1>1, <2>1, <2>2, <2>3, <4>2, HeadLeaves DEF TakenSet
      <4> QED
        BY <4>1, <4>2
    <3>2. TakenSet \subseteq Clients /\ TakenSet' \subseteq Clients
      BY DEF TakenSet
    <3> QED
      BY <3>1, <3>2
  <2>8. T!Begin(v, c)
    BY <2>3, <2>4, <2>5, <2>7 DEF T!Begin, TakenSet
  <2> QED
    BY <2>8 DEF T!Next
<1>5. CASE ServerWrite(v)
  <2>1. /\ spc[v] = "write" /\ out' = [out EXCEPT ![v] = @ \o sbuf[v]]
        /\ UNCHANGED <<cur, queue, link>>
    BY <1>5 DEF ServerWrite, WriteAll
  <2>2. PICK c \in Clients : cur[v] = c
    BY <1>1, <2>1 DEF IInv, OneServer
  <2>3. PICK k : k = Len(sbuf[v])
    OBVIOUS
  <2>4. k \in 0 .. Len(sbuf[v]) /\ k # 0 /\ SubSeq(sbuf[v], 1, k) = sbuf[v]
    BY <1>1, <2>1, <2>3 DEF IInv, OneServer
  <2>5. /\ k \in 0 .. MaxInput
        /\ SubSeq(sbuf[v], 1, k) = [i \in 1 .. k |-> <<c, T!NextByte(v, c) + i - 1>>]
    BY <2>2, <2>4, PrintsNext
  <2>6. k \in 1 .. MaxInput
    BY <2>4, <2>5
  <2>7. T!Printed(v, c, k)
    BY <2>1, <2>4, <2>5 DEF T!Printed
  <2>8. TakenSet' = TakenSet
    BY <2>1 DEF TakenSet
  <2>9. T!Emit(v, c)
    BY <2>1, <2>2, <2>6, <2>7, <2>8 DEF T!Emit, TakenSet
  <2> QED
    BY <2>9 DEF T!Next
<1>6. CASE ServerClose(v)
  <2>1. PICK c \in Clients : cur[v] = c
    BY <1>1, <1>6 DEF IInv, OneServer, ServerClose
  <2>2. /\ cur' = [cur EXCEPT ![v] = None] /\ link' = [link EXCEPT ![c] = "closed"]
        /\ UNCHANGED <<out, queue>>
    BY <1>6, <2>1 DEF ServerClose
  <2>3. link[c] = "open"
    BY <1>1, <2>1 DEF IInv, Connections
  <2>4. TakenSet' = TakenSet
    BY <1>2, <2>2, <2>3 DEF TakenSet
  <2>5. T!Printed(v, c, 0)
    <3>1. [i \in 1 .. 0 |-> <<c, T!NextByte(v, c) + i - 1>>] = <<>>
      OBVIOUS
    <3>2. out[v] \o <<>> = out[v]
      BY <1>1
    <3>3. out' = [out EXCEPT ![v] = @ \o <<>>]
      BY <1>2, <2>2, <3>2
    <3> QED
      BY <3>1, <3>3 DEF T!Printed
  <2>6. T!TurnAway
    <3>1. TakenSet' = TakenSet \cup {} /\ {} \in SUBSET Clients
      BY <2>4
    <3> QED
      BY <3>1 DEF T!TurnAway, TakenSet
  <2>7. 0 \in 0 .. MaxInput
    BY UsXfrAssumption
  <2>8. T!End(v, c)
    BY <2>1, <2>2, <2>5, <2>6, <2>7 DEF T!End
  <2> QED
    BY <2>8 DEF T!Next
<1>7. CASE ServerDies(v)
  <2>1. /\ cur' = [cur EXCEPT ![v] = None] /\ queue' = <<>>
        /\ link' = [c \in Clients |-> IF link[c] = "open" THEN "reset" ELSE link[c]]
    BY <1>7 DEF ServerDies
  <2>2. PICK k \in 0 .. Len(sbuf[v]) : out' = [out EXCEPT ![v] = @ \o SubSeq(sbuf[v], 1, k)]
    BY <1>7 DEF ServerDies
  <2>3. T!TurnAway
    <3> DEFINE S == {c \in Clients : InQueue(c)}
    <3>1. ASSUME NEW c \in Clients PROVE c \in TakenSet' <=> c \in TakenSet \/ c \in S
      <4>1. c \in TakenSet' <=> link'[c] # "none"
        BY <2>1 DEF TakenSet
      <4>2. link'[c] # "none" <=> link[c] # "none"
        BY <2>1
      <4>3. InQueue(c) => link[c] = "open"
        BY DEF IInv, Connections, InQueue
      <4> QED
        BY <4>1, <4>2, <4>3 DEF TakenSet, InQueue
    <3>2. TakenSet \subseteq Clients /\ TakenSet' \subseteq Clients
      BY DEF TakenSet
    <3>3. TakenSet' = TakenSet \cup S /\ S \in SUBSET Clients
      BY <3>1, <3>2
    <3> QED
      BY <3>3 DEF T!TurnAway, TakenSet
  <2>4. CASE cur[v] = None
    <3>1. sbuf[v] = <<>>
      BY <2>4 DEF IInv, OneServer
    <3>2. out[v] \o SubSeq(sbuf[v], 1, k) = out[v]
      <4>1. k = 0
        BY <3>1
      <4> QED
        BY <1>1, <3>1, <4>1
    <3>3. out' = out /\ cur' = cur
      BY <1>2, <2>1, <2>2, <2>4, <3>2
    <3> QED
      BY <2>3, <3>3 DEF T!Next
  <2>5. CASE cur[v] # None
    <3>1. PICK c \in Clients : cur[v] = c
      BY <1>1, <2>5
    <3>2. /\ k \in 0 .. MaxInput
          /\ SubSeq(sbuf[v], 1, k) = [i \in 1 .. k |-> <<c, T!NextByte(v, c) + i - 1>>]
      BY <3>1, PrintsNext
    <3>3. T!Printed(v, c, k)
      BY <2>2, <3>2 DEF T!Printed
    <3>4. T!End(v, c)
      BY <2>1, <2>3, <3>1, <3>2, <3>3 DEF T!End
    <3> QED
      BY <3>4 DEF T!Next
  <2> QED
    BY <2>4, <2>5
<1> QED
  BY <1>3, <1>4, <1>5, <1>6, <1>7 DEF ServerStep

LEMMA ClientRefines ==
    ASSUME IInv, NEW c \in Clients, ClientStep(c) \/ ClientDies(c)
    PROVE  UNCHANGED <<cur, out, TakenSet>>
<1>1. CASE Connect(c)
  <2>1. /\ queue' = Append(queue, c) /\ link' = [link EXCEPT ![c] = "open"]
        /\ cpc[c] = "start" /\ UNCHANGED <<cur, out>>
    BY <1>1 DEF Connect, serverVars
  <2>2. /\ link[c] = "none" /\ link \in [Clients -> {"none", "open", "closed", "reset"}]
        /\ queue \in Seq(Clients)
    BY <2>1 DEF IInv, Progress, TypeOK
  <2>3. /\ Len(queue) \in Nat /\ DOMAIN queue = 1 .. Len(queue)
        /\ DOMAIN queue' = 1 .. Len(queue) + 1
        /\ \A i \in 1 .. Len(queue) : queue'[i] = queue[i]
        /\ queue'[Len(queue) + 1] = c
    BY <2>1, <2>2
  <2>4. ASSUME NEW d \in Clients PROVE d \in TakenSet' <=> d \in TakenSet
    <3>1. CASE d = c
      <4>1. Len(queue) + 1 \in DOMAIN queue' /\ queue'[Len(queue) + 1] = c
        BY <2>3
      <4> QED
        BY <2>2, <3>1, <4>1 DEF TakenSet
    <3>2. CASE d # c
      <4>1. (\A i \in DOMAIN queue : queue[i] # d) <=> (\A i \in DOMAIN queue' : queue'[i] # d)
        BY <2>3, <3>2
      <4> QED
        BY <2>1, <2>2, <3>2, <4>1 DEF TakenSet
    <3> QED
      BY <3>1, <3>2
  <2>5. TakenSet' = TakenSet
    BY <2>4 DEF TakenSet
  <2> QED
    BY <2>1, <2>5
<1>2. CASE ~ Connect(c)
  <2>1. UNCHANGED <<cur, out, link, queue>>
    BY <1>2 DEF ClientStep, ConnectRefused, ClientRead, ClientExit, ClientWrite, ClientReset,
                ClientDies, serverVars
  <2> QED
    BY <2>1 DEF TakenSet
<1> QED
  BY <1>1, <1>2

(* The servers implement Transfer: each process begins with a client only  *)
(* when it is done with the one before, prints that client's bytes in      *)
(* order and without a gap, and never takes a client twice                 *)
(* (us_xfr_sv.c:45-67).                                                    *)
THEOREM Refinement == Spec => OneAtATime
<1>1. Init => T!Init
  BY DEF Init, T!Init
<1>2. IInv /\ IInv' /\ [Next]_vars => [T!Next]_<<cur, out, TakenSet>>
  <2> SUFFICES ASSUME IInv, IInv', [Next]_vars
               PROVE  T!Next \/ UNCHANGED <<cur, out, TakenSet>>
    OBVIOUS
  <2>1. CASE UNCHANGED vars
    BY <2>1 DEF vars, serverVars, TakenSet
  <2>2. CASE Next
    BY <2>2, ServerRefines, ClientRefines DEF Next
  <2> QED
    BY <2>1, <2>2
<1>3. IInv /\ IInv' /\ [Next]_vars => [T!Next]_<<cur, out, {c \in Clients : link[c] # "none" /\ \A i \in DOMAIN queue : queue[i] # c}>>
  BY <1>2 DEF TakenSet
<1> QED
  BY <1>1, <1>3, Invariance, PTL DEF Spec, OneAtATime, T!Spec
=============================================================================
