------------------------------ MODULE Signals ------------------------------
(***************************************************************************)
(* Signals as the programs of src/tlpi/c20 use them: dispositions with     *)
(* their default actions, the process signal mask, pending signals, the    *)
(* handlers that are running, innermost last, and whether the process is   *)
(* stopped.  All of it is the kernel's work; a program module extends this *)
(* one, says what its handler and its main do, and joins Send and Deliver  *)
(* to its next-state relation.                                             *)
(***************************************************************************)
EXTENDS Naturals, Sequences, SequencesExt, FiniteSetsExt

CONSTANTS
    NSIG,         \* signals are numbered 1 .. NSIG - 1
    RealTime,     \* those that queue; the others are pending at most once
    Uncatchable,  \* SIGKILL, SIGSTOP and the like
    Stop,         \* those that stop the process by default: SIGTSTP, SIGSTOP, ...
    Harmless,     \* those ignored by default: SIGCHLD, SIGURG, SIGWINCH, SIGCONT
    SIGCONT,      \* the one that continues a stopped process
    MaxSent       \* bound on the signals other processes send

SignalNumbers == 1 .. NSIG - 1

ASSUME SignalsAssumption ==
    /\ NSIG \in Nat \ {0} /\ MaxSent \in Nat
    /\ RealTime \subseteq SignalNumbers /\ Uncatchable \subseteq SignalNumbers
    /\ Stop \subseteq SignalNumbers /\ Harmless \subseteq SignalNumbers
    /\ SIGCONT \in Harmless
    /\ RealTime \cap (Uncatchable \cup Stop \cup Harmless) = {}
    /\ Harmless \cap (Uncatchable \cup Stop) = {}

VARIABLES
    disposition,  \* signal -> "default", "handler" or "ignore"
    mask,         \* the signals main has blocked
    pending,      \* signal -> how many are waiting
    frames,       \* the running handlers: [sig, at, tmp]
    alive,        \* no signal has ended the process
    stopped,      \* a signal has stopped it and none has continued it
    sent,         \* signal -> how many have been sent
    caught        \* signal -> how many times its handler has started

signalVars == <<disposition, mask, pending, frames, alive, stopped, sent, caught>>

Frames == [sig : SignalNumbers, at : {"entry", "store", "return"}, tmp : Nat]

SignalsInit ==
    /\ disposition = [s \in SignalNumbers |-> "default"]
    /\ mask = {}
    /\ pending = [s \in SignalNumbers |-> 0]
    /\ frames = <<>>
    /\ alive = TRUE /\ stopped = FALSE
    /\ sent = [s \in SignalNumbers |-> 0]
    /\ caught = [s \in SignalNumbers |-> 0]

(* Without SA_NODEFER a signal is blocked while its own handler runs.      *)
InHandlerNoDefer == {}
InHandler == {frames[i].sig : i \in DOMAIN frames}

Blocked == (mask \cup InHandler) \ Uncatchable

(* The default action is to end the process unless it is another.          *)
EndsByDefault(s) == s \notin Stop \cup Harmless

(* Nothing reaches a stopped process but what cannot be caught and ends it. *)
Deliverable(s) ==
    /\ pending[s] > 0 /\ s \notin Blocked
    /\ stopped => s \in Uncatchable \ Stop

(* A signal that would be ignored is dropped when it is sent.              *)
Dropped(s) ==
    /\ disposition[s] = "ignore" \/ (disposition[s] = "default" /\ s \in Harmless)
    /\ s \notin Blocked

(* A signal that stops the process and the one that continues it drop      *)
(* what is pending of the other.                                           *)
Cancels(s, t) == \/ s \in Stop /\ t = SIGCONT
                 \/ s = SIGCONT /\ t \in Stop

QueueAll(s) == pending[s] + 1
Queue(s) == IF s \in RealTime THEN pending[s] + 1 ELSE 1

Send(s) ==
    /\ alive
    /\ MapThenSumSet(LAMBDA t : sent[t], SignalNumbers) < MaxSent
    /\ sent' = [sent EXCEPT ![s] = @ + 1]
    /\ pending' = [t \in SignalNumbers |->
                      IF t = s /\ ~ Dropped(s) THEN Queue(s)
                      ELSE IF Cancels(s, t) THEN 0 ELSE pending[t]]
    /\ stopped' = (stopped /\ s # SIGCONT)
    /\ UNCHANGED <<disposition, mask, frames, alive, caught>>

Deliver(s) ==
    /\ alive /\ Deliverable(s)
    /\ pending' = [pending EXCEPT ![s] = @ - 1]
    /\ IF disposition[s] = "handler"
       THEN /\ frames' = Append(frames, [sig |-> s, at |-> "entry", tmp |-> 0])
            /\ caught' = [caught EXCEPT ![s] = @ + 1]
       ELSE UNCHANGED <<frames, caught>>
    /\ alive' = ~ (disposition[s] = "default" /\ EndsByDefault(s))
    /\ stopped' = (stopped \/ (disposition[s] = "default" /\ s \in Stop))
    /\ UNCHANGED <<disposition, mask, sent>>

(* sigaction: refused for the uncatchable signals; ignoring a signal       *)
(* discards the pending ones.                                              *)
SigAction(s, d) ==
    /\ disposition' = IF s \in Uncatchable THEN disposition
                      ELSE [disposition EXCEPT ![s] = d]
    /\ pending' = IF d = "ignore" /\ s \notin Uncatchable
                  THEN [pending EXCEPT ![s] = 0] ELSE pending

Running == alive /\ ~ stopped

(* The program's main runs only while no handler does.                     *)
MainRuns == Running /\ frames = <<>>

SignalsTypeOK ==
    /\ disposition \in [SignalNumbers -> {"default", "handler", "ignore"}]
    /\ mask \subseteq SignalNumbers
    /\ pending \in [SignalNumbers -> Nat]
    /\ frames \in Seq(Frames)
    /\ alive \in BOOLEAN /\ stopped \in BOOLEAN
    /\ sent \in [SignalNumbers -> Nat]
    /\ caught \in [SignalNumbers -> Nat]
=============================================================================
