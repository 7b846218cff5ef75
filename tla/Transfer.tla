------------------------------ MODULE Transfer ------------------------------
(***************************************************************************)
(* What the stream server of src/tlpi/c57 promises its clients: a server   *)
(* process takes one client at a time and prints that client's bytes, in   *)
(* order and without a gap, until it is done with it; no client is taken   *)
(* twice.                                                                  *)
(***************************************************************************)
EXTENDS Naturals, Sequences

CONSTANTS Servers, Clients, MaxInput, None

VARIABLES turn,    \* server -> the client it is printing, or None
          out,     \* server -> the bytes it has printed, as <<client, number>>
          taken    \* the clients that have had their turn or were turned away

Init == /\ turn = [v \in Servers |-> None]
        /\ out = [v \in Servers |-> <<>>]
        /\ taken = {}

Begin(v, c) ==
    /\ turn[v] = None /\ c \notin taken
    /\ turn' = [turn EXCEPT ![v] = c]
    /\ taken' = taken \cup {c}
    /\ UNCHANGED out

(* The number of the client's byte that comes next.                        *)
NextByte(v, c) ==
    IF out[v] # <<>> /\ out[v][Len(out[v])][1] = c
    THEN out[v][Len(out[v])][2] + 1 ELSE 1

Printed(v, c, n) ==
    out' = [out EXCEPT ![v] = @ \o [i \in 1 .. n |-> <<c, NextByte(v, c) + i - 1>>]]

Emit(v, c) ==
    /\ turn[v] = c
    /\ \E n \in 1 .. MaxInput : Printed(v, c, n)
    /\ UNCHANGED <<turn, taken>>

TurnAway == \E S \in SUBSET Clients : taken' = taken \cup S

(* The turn ends; a server that dies may have printed some more, and takes *)
(* the clients that wait for it with it.                                   *)
End(v, c) ==
    /\ turn[v] = c
    /\ \E n \in 0 .. MaxInput : Printed(v, c, n)
    /\ turn' = [turn EXCEPT ![v] = None]
    /\ TurnAway

Next == \/ \E v \in Servers, c \in Clients : Begin(v, c) \/ Emit(v, c) \/ End(v, c)
        \/ TurnAway /\ UNCHANGED <<turn, out>>

Spec == Init /\ [][Next]_<<turn, out, taken>>
=============================================================================
