------------------------------- MODULE Pauser -------------------------------
(***************************************************************************)
(* src/tlpi/c20/20.2.c: main catches every signal, pauses in a loop that   *)
(* is meant to see three of them, and then ignores SIGUSR1.                *)
(***************************************************************************)
EXTENDS Signals

CONSTANT SIGUSR1   \* an ordinary signal that can be caught

VARIABLES
    pc,     \* main: "install", "loop", "pause", "ignore", "rest"
    i,      \* its loop counter
    seen    \* the signals caught when pause was called

vars == <<signalVars, pc, i, seen>>

Total == MapThenSumSet(LAMBDA s : caught[s], SignalNumbers)

Init == /\ SignalsInit
        /\ pc = "install" /\ i = 1 /\ seen = 0

(* The handler prints the number and returns.                              *)
Handler == /\ Running /\ frames # <<>>
           /\ frames' = SubSeq(frames, 1, Len(frames) - 1)
           /\ UNCHANGED <<disposition, mask, pending, alive, stopped, sent, caught,
                          pc, i, seen>>

Install ==
    /\ pc = "install"
    /\ IF i < NSIG
       THEN SigAction(i, "handler") /\ i' = i + 1 /\ pc' = pc
       ELSE i' = 3 /\ pc' = "loop" /\ UNCHANGED <<disposition, pending>>
    /\ UNCHANGED seen

(* while (--i) pause(): the signals caught until pause is called do not    *)
(* end it.                                                                 *)
Loop ==
    /\ pc = "loop"
    /\ i' = i - 1
    /\ pc' = IF i' = 0 THEN "ignore" ELSE "pause"
    /\ seen' = Total
    /\ UNCHANGED <<disposition, pending>>

PauseReturns ==
    /\ pc = "pause" /\ Total > seen
    /\ pc' = "loop"
    /\ UNCHANGED <<i, seen, disposition, pending>>

Ignore ==
    /\ pc = "ignore"
    /\ SigAction(SIGUSR1, "ignore")
    /\ pc' = "rest"
    /\ UNCHANGED <<i, seen>>

Main == /\ MainRuns
        /\ Install \/ Loop \/ PauseReturns \/ Ignore
        /\ UNCHANGED <<mask, frames, alive, stopped, sent, caught>>

Next == \/ Main
        \/ Handler
        \/ \E s \in SignalNumbers : Deliver(s) /\ UNCHANGED <<pc, i, seen>>
        \/ \E s \in SignalNumbers : Send(s) /\ UNCHANGED <<pc, i, seen>>

Spec == Init /\ [][Next]_vars

(* Lines 24-25: "pausing to receive 3 signals", "after that, the SIGUSR1   *)
(* is ignored": three signals have been received by then.                  *)
IgnoresAfterThree == pc = "rest" => Total >= 3
=============================================================================
