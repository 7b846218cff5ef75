---------------------------- MODULE SigReceiver ----------------------------
(***************************************************************************)
(* src/tlpi/c20/20.1.c: one handler for every signal counts deliveries,    *)
(* main optionally blocks everything for a while, shows what is pending,   *)
(* unblocks, loops until SIGINT has been caught and reports the counts.    *)
(* sigCnt[sig]++ is a load and a store that another signal may come        *)
(* between.                                                                *)
(***************************************************************************)
EXTENDS Signals

CONSTANT SIGINT

ASSUME SigIntAssumption ==
    SIGINT \in SignalNumbers \ (RealTime \cup Uncatchable \cup Stop \cup Harmless)

VARIABLES
    pc,         \* main: "install", "arg", "block", "sleep", "unblock",
                \* "unblocking", "spin", "report", "exit"
    n,          \* its loop counter
    arg,        \* the block-time argument: "none", "valid" or "invalid"
    gotSigint,
    sigCnt,
    shown,      \* the signals displayed as pending
    reported,   \* signal -> the count displayed for it
    atLoopEnd,  \* signal -> caught, when the loop on gotSigint ended
    owed        \* signals sent once they are main's to catch, not caught since

mainVars == <<pc, n, arg, shown, reported, atLoopEnd>>
vars == <<signalVars, mainVars, gotSigint, sigCnt, owed>>

Zero == [s \in SignalNumbers |-> 0]

Init == /\ SignalsInit
        /\ pc = "install" /\ n = 1
        /\ arg \in {"none", "valid", "invalid"}
        /\ gotSigint = FALSE
        /\ sigCnt = Zero /\ reported = Zero /\ atLoopEnd = Zero
        /\ shown = {} /\ owed = {}

-----------------------------------------------------------------------------
(* The handler: a step of the innermost one. *)

Top == frames[Len(frames)]
WithTop(f) == [frames EXCEPT ![Len(frames)] = f]

Flag == /\ Top.at = "entry" /\ Top.sig = SIGINT
        /\ gotSigint' = TRUE
        /\ frames' = WithTop([Top EXCEPT !.at = "return"])
        /\ UNCHANGED sigCnt

Load == /\ Top.at = "entry" /\ Top.sig # SIGINT
        /\ frames' = WithTop([Top EXCEPT !.at = "store", !.tmp = sigCnt[Top.sig]])
        /\ UNCHANGED <<gotSigint, sigCnt>>

Store == /\ Top.at = "store"
         /\ sigCnt' = [sigCnt EXCEPT ![Top.sig] = Top.tmp + 1]
         /\ frames' = WithTop([Top EXCEPT !.at = "return"])
         /\ UNCHANGED gotSigint

Return == /\ Top.at = "return"
          /\ frames' = SubSeq(frames, 1, Len(frames) - 1)
          /\ UNCHANGED <<gotSigint, sigCnt>>

Handler == /\ Running /\ frames # <<>>
           /\ Flag \/ Load \/ Store \/ Return
           /\ UNCHANGED <<disposition, mask, pending, alive, stopped, sent, caught,
                          mainVars, owed>>

-----------------------------------------------------------------------------
(* main *)

InstallsLast == n + 1 < NSIG
Installs == n < NSIG

Install ==
    /\ pc = "install"
    /\ IF Installs
       THEN SigAction(n, "handler") /\ n' = n + 1 /\ pc' = pc
       ELSE pc' = "arg" /\ UNCHANGED <<n, disposition, pending>>
    /\ UNCHANGED <<mask, shown, reported, atLoopEnd>>

(* getInt ends the program for an argument that is not a positive number.  *)
ReadArg ==
    /\ pc = "arg"
    /\ pc' = CASE arg = "none" -> "spin" [] arg = "valid" -> "block" [] OTHER -> "exit"
    /\ UNCHANGED <<n, disposition, mask, pending, shown, reported, atLoopEnd>>

Block ==
    /\ pc = "block"
    /\ mask' = SignalNumbers \ Uncatchable
    /\ pc' = "sleep"
    /\ UNCHANGED <<n, disposition, pending, shown, reported, atLoopEnd>>

(* The sleep is over; sigpending and printSigset.                          *)
SleepAndShow ==
    /\ pc = "sleep"
    /\ shown' = {s \in SignalNumbers : pending[s] > 0 /\ s \notin Uncatchable}
    /\ pc' = "unblock"
    /\ UNCHANGED <<n, disposition, mask, pending, reported, atLoopEnd>>

SigintStillBlocked == {SIGINT}
EmptyMask == {}
Unblock ==
    /\ pc = "unblock"
    /\ mask' = EmptyMask
    /\ pc' = "unblocking"
    /\ UNCHANGED <<n, disposition, pending, shown, reported, atLoopEnd>>

NoneDeliverable == \A s \in SignalNumbers : ~Deliverable(s)

(* sigprocmask delivers what it unblocked before it returns.               *)
Unblocked ==
    /\ pc = "unblocking"
    /\ NoneDeliverable
    /\ pc' = "spin"
    /\ UNCHANGED <<n, disposition, mask, pending, shown, reported, atLoopEnd>>

LoopsOnSigint == ~gotSigint
LoopEnds == gotSigint

SpinEnds ==
    /\ pc = "spin" /\ LoopEnds
    /\ atLoopEnd' = caught
    /\ pc' = "report" /\ n' = 1
    /\ UNCHANGED <<disposition, mask, pending, shown, reported>>

(* Signals still arrive while the counts are displayed.                    *)
Report ==
    /\ pc = "report"
    /\ IF n < NSIG
       THEN /\ reported' = [reported EXCEPT ![n] = sigCnt[n]]
            /\ n' = n + 1 /\ pc' = pc
       ELSE pc' = "exit" /\ UNCHANGED <<n, reported>>
    /\ UNCHANGED <<disposition, mask, pending, shown, atLoopEnd>>

Main == /\ MainRuns
        /\ \/ Install \/ ReadArg \/ Block \/ SleepAndShow \/ Unblock
           \/ Unblocked \/ SpinEnds \/ Report
        /\ UNCHANGED <<frames, alive, stopped, sent, caught, arg, gotSigint, sigCnt, owed>>

Kernel == /\ pc # "exit"
          /\ \E s \in SignalNumbers :
                /\ Deliver(s)
                /\ owed' = IF caught' = caught THEN owed ELSE owed \ {s}
          /\ UNCHANGED <<mainVars, gotSigint, sigCnt>>

(* Main has dealt with s, or s would have ended the process before.        *)
Expected(s) ==
    s \notin Uncatchable /\ (pc # "install" \/ s < n \/ EndsByDefault(s))

Senders == /\ pc # "exit"
           /\ \E s \in SignalNumbers :
                /\ Send(s)
                /\ owed' = {t \in owed : ~ Cancels(s, t)} \cup {t \in {s} : Expected(t)}
           /\ UNCHANGED <<mainVars, gotSigint, sigCnt>>

Next == Main \/ Handler \/ Kernel \/ Senders

Spec == Init /\ [][Next]_vars

(* The process is scheduled and the kernel delivers; nobody has to send.   *)
FairSpec == Spec /\ WF_vars(Main) /\ WF_vars(Handler) /\ WF_vars(Kernel)

-----------------------------------------------------------------------------
(* The variables of the program have their types.                          *)
MainTypeOK ==
    /\ pc \in {"install", "arg", "block", "sleep", "unblock", "unblocking",
               "spin", "report", "exit"}
    /\ n \in 1 .. NSIG
    /\ arg \in {"none", "valid", "invalid"}
    /\ gotSigint \in BOOLEAN
    /\ sigCnt \in [SignalNumbers -> Nat]
    /\ shown \subseteq SignalNumbers
    /\ reported \in [SignalNumbers -> Nat]
    /\ atLoopEnd \in [SignalNumbers -> Nat]
    /\ owed \subseteq SignalNumbers

(* A signal has one pending instance at most unless it queues.             *)
PendingOnce == \A s \in SignalNumbers \ RealTime : pending[s] <= 1

(* All variables have their types.                                         *)
TypeOK == SignalsTypeOK /\ PendingOnce /\ MainTypeOK

InFlight(s) == \E i \in DOMAIN frames : frames[i].sig = s /\ frames[i].at # "return"

(* Although the increment of line 33 is not atomic and handlers nest, no   *)
(* delivery goes uncounted: each count is the number of times the handler  *)
(* was started for its signal, less the one that is not that far yet.      *)
CountExact ==
    \A s \in SignalNumbers \ {SIGINT} :
        caught[s] = sigCnt[s] + (IF InFlight(s) THEN 1 ELSE 0)

(* No signal vanishes that was sent when main had come past its number in  *)
(* the loop of lines 46-53, nor, while the process lives, one sent before  *)
(* that would have ended it: it is pending until its handler starts, and   *)
(* if it queues there are as many starts as sends.  Only a stop signal and *)
(* SIGCONT do away with one another.  (What is sent before that and does   *)
(* not end the process by default is dropped or stops it.)                 *)
NoSignalVanishes ==
    alive => /\ \A s \in owed : pending[s] > 0
             /\ \A s \in RealTime : sent[s] = caught[s] + pending[s]
             /\ \A s \in SignalNumbers : caught[s] + pending[s] <= sent[s]

(* Nothing is caught while main sleeps with everything blocked; what line  *)
(* 73 then displays as pending has been caught by the time main gets to    *)
(* its loop, except where a stop signal and SIGCONT met in between.  The   *)
(* report comes after a SIGINT and leaves out no signal that was caught    *)
(* before the loop on gotSigint ended.                                     *)
ReportComplete ==
    /\ pc \in {"sleep", "unblock"} => frames = <<>>
    /\ alive /\ pc \in {"spin", "report", "exit"} =>
          \A s \in shown \ (Stop \cup {SIGCONT}) : caught[s] > 0
    /\ pc \in {"report", "exit"} /\ arg # "invalid" =>
          /\ caught[SIGINT] > 0
          /\ \A s \in SignalNumbers \ {SIGINT} :
                (s < n \/ pc = "exit") => reported[s] >= atLoopEnd[s]

(* A SIGINT ends the program, whether main was blocking it at the time,    *)
(* was not ready for it yet or was looping, unless the program is stopped; *)
(* and if it is continued, a SIGINT that came before still ends it.        *)
SigintEnds == sent[SIGINT] > 0 /\ ~ stopped ~> (pc = "exit" \/ ~ alive \/ stopped)
=============================================================================
