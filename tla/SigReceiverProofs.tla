------------------------- MODULE SigReceiverProofs -------------------------
(* The counts of sig_receiver, for every number of signals and of sends.   *)
EXTENDS SigReceiver, TLAPS

(* Signals that cannot be caught keep their default action, no signal is   *)
(* ever ignored, and the others are handled when main has come past their  *)
(* number: so the next delivery of a signal that is owed starts its        *)
(* handler or ends the process.                                            *)
Dispositions ==
    /\ \A s \in SignalNumbers : disposition[s] # "ignore"
    /\ \A s \in Uncatchable : disposition[s] = "default"
    /\ \A s \in SignalNumbers \ Uncatchable :
          pc # "install" \/ s < n => disposition[s] = "handler"
    /\ \A s \in owed : s \notin Uncatchable /\ (disposition[s] = "handler" \/ EndsByDefault(s))

(* The handlers that are running are for different signals, all of which   *)
(* can be caught, and the value a handler has loaded is still the current  *)
(* one: this is what makes the increment safe.                             *)
HandlersApart ==
    /\ \A i, j \in DOMAIN frames : frames[i].sig = frames[j].sig => i = j
    /\ \A i \in DOMAIN frames : frames[i].sig \notin Uncatchable
    /\ \A i \in DOMAIN frames : frames[i].at = "store" =>
          frames[i].sig # SIGINT /\ frames[i].tmp = sigCnt[frames[i].sig]

IInv == /\ TypeOK
        /\ Dispositions
        /\ HandlersApart
        /\ CountExact
        /\ NoSignalVanishes

LEMMA InitEstablishes == Init => IInv
<1> SUFFICES ASSUME Init PROVE IInv
  OBVIOUS
<1>1. 1 \in 1 .. NSIG /\ frames = <<>> /\ frames \in Seq(Frames)
  BY SignalsAssumption DEF Init, SignalsInit
<1>2. TypeOK
  <2>1. SignalsTypeOK
    BY <1>1 DEF Init, SignalsInit, SignalsTypeOK
  <2>2. PendingOnce
    BY DEF Init, SignalsInit, PendingOnce
  <2>3. MainTypeOK
    BY <1>1 DEF Init, MainTypeOK, Zero
  <2> QED
    BY <2>1, <2>2, <2>3 DEF TypeOK
<1>3. Dispositions /\ HandlersApart
  BY <1>1, SignalsAssumption DEF Init, SignalsInit, Dispositions, HandlersApart
<1>4. CountExact /\ NoSignalVanishes
  BY <1>1, SignalsAssumption
     DEF Init, SignalsInit, Zero, CountExact, NoSignalVanishes, InFlight
<1> QED
  BY <1>2, <1>3, <1>4 DEF IInv

(* Sending changes what was sent, what is pending and owed, and may        *)
(* continue the process.  What is owed is not dropped.                     *)
LEMMA SendStep ==
    ASSUME IInv, NEW s \in SignalNumbers, Send(s), UNCHANGED <<mainVars, gotSigint, sigCnt>>,
           owed' = {t \in owed : ~ Cancels(s, t)} \cup {t \in {s} : Expected(t)}
    PROVE  IInv'
<1>1. /\ pending \in [SignalNumbers -> Nat] /\ sent \in [SignalNumbers -> Nat]
      /\ caught \in [SignalNumbers -> Nat] /\ stopped \in BOOLEAN
      /\ owed \subseteq SignalNumbers
      /\ disposition \in [SignalNumbers -> {"default", "handler", "ignore"}]
  BY DEF IInv, TypeOK, SignalsTypeOK, MainTypeOK
<1>2. /\ sent' = [sent EXCEPT ![s] = @ + 1]
      /\ UNCHANGED <<disposition, mask, frames, alive, caught, pc, n>>
      /\ stopped' \in BOOLEAN
      /\ alive
  BY <1>1 DEF Send, mainVars
<1>3. \A t \in SignalNumbers :
         /\ t = s /\ ~ Dropped(s) => pending'[t] = IF s \in RealTime THEN pending[s] + 1 ELSE 1
         /\ ~ (t = s /\ ~ Dropped(s)) =>
               pending'[t] = IF Cancels(s, t) THEN 0 ELSE pending[t]
  BY DEF Send, Queue
<1>4. pending' \in [SignalNumbers -> Nat]
  <2>1. DOMAIN pending' = SignalNumbers /\ pending' = [t \in SignalNumbers |-> pending'[t]]
    BY DEF Send
  <2>2. \A t \in SignalNumbers : pending'[t] \in Nat
    BY <1>1, <1>3
  <2> QED
    BY <2>1, <2>2
<1>5. Dispositions
  BY DEF IInv
<1>6. \A t \in owed' : (t \in owed /\ ~ Cancels(s, t)) \/ (t = s /\ Expected(s))
  OBVIOUS
<1>7. Expected(s) => s \notin Uncatchable /\ (disposition[s] = "handler" \/ EndsByDefault(s))
  BY <1>5 DEF Expected, Dispositions
<1>8. ~ Cancels(s, s) /\ (s \in RealTime => EndsByDefault(s))
  BY SignalsAssumption DEF Cancels, EndsByDefault
<1>9. EndsByDefault(s) \/ disposition[s] = "handler" => ~ Dropped(s)
  BY <1>5 DEF Dropped, EndsByDefault, Dispositions
<1>10. TypeOK'
  <2>1. SignalsTypeOK'
    <3>1. sent' \in [SignalNumbers -> Nat]
      BY <1>1, <1>2
    <3>2. SignalsTypeOK
      BY DEF IInv, TypeOK
    <3> QED
      BY <1>2, <1>4, <3>1, <3>2 DEF SignalsTypeOK
  <2>2. PendingOnce'
    BY <1>1, <1>3 DEF IInv, TypeOK, PendingOnce
  <2>3. MainTypeOK'
    BY <1>1 DEF IInv, TypeOK, MainTypeOK, mainVars
  <2> QED
    BY <2>1, <2>2, <2>3 DEF TypeOK
<1>11. Dispositions'
  BY <1>2, <1>5, <1>6, <1>7 DEF Dispositions
<1>12. HandlersApart' /\ CountExact'
  BY <1>2 DEF IInv, HandlersApart, CountExact, InFlight
<1>13. NoSignalVanishes'
  <2>1. /\ \A t \in owed : pending[t] > 0
        /\ \A t \in RealTime : sent[t] = caught[t] + pending[t]
        /\ \A t \in SignalNumbers : caught[t] + pending[t] <= sent[t]
    BY <1>2 DEF IInv, NoSignalVanishes
  <2>2. ASSUME NEW t \in owed' PROVE pending'[t] > 0
    <3>1. CASE t = s
      <4>1. EndsByDefault(s) \/ disposition[s] = "handler"
        BY <1>5, <1>6, <1>7, <3>1 DEF Dispositions
      <4> QED
        BY <1>1, <1>3, <1>9, <3>1, <4>1
    <3>2. CASE t # s
      BY <1>1, <1>3, <1>6, <2>1, <3>2
    <3> QED
      BY <3>1, <3>2
  <2>3. ASSUME NEW t \in RealTime PROVE sent'[t] = caught[t] + pending'[t]
    <3>1. t \in SignalNumbers /\ ~ Cancels(s, t)
      BY SignalsAssumption DEF Cancels
    <3> QED
      BY <1>1, <1>2, <1>3, <1>8, <1>9, <2>1, <3>1
  <2>4. ASSUME NEW t \in SignalNumbers PROVE caught[t] + pending'[t] <= sent'[t]
    <3>1. caught[t] + pending[t] <= sent[t]
      BY <2>1
    <3>2. pending'[t] <= pending[t] \/ (t = s /\ pending'[t] <= pending[t] + 1)
      BY <1>1, <1>3
    <3>3. pending'[t] \in Nat /\ sent'[t] = IF t = s THEN sent[t] + 1 ELSE sent[t]
      BY <1>1, <1>2, <1>4
    <3> QED
      BY <1>1, <3>1, <3>2, <3>3
  <2> QED
    BY <1>2, <2>2, <2>3, <2>4 DEF NoSignalVanishes
<1> QED
  BY <1>10, <1>11, <1>12, <1>13 DEF IInv

(* A delivery starts a handler that is not running yet, ends the process   *)
(* or is of a signal that nobody counts on.                                *)
LEMMA DeliverStep ==
    ASSUME IInv, NEW s \in SignalNumbers, Deliver(s), UNCHANGED <<mainVars, gotSigint, sigCnt>>,
           owed' = IF caught' = caught THEN owed ELSE owed \ {s}
    PROVE  IInv'
<1> DEFINE f == [sig |-> s, at |-> "entry", tmp |-> 0]
<1>1. /\ pending \in [SignalNumbers -> Nat] /\ sent \in [SignalNumbers -> Nat]
      /\ caught \in [SignalNumbers -> Nat] /\ sigCnt \in [SignalNumbers -> Nat]
      /\ frames \in Seq(Frames) /\ pending[s] > 0
      /\ pending' = [pending EXCEPT ![s] = @ - 1]
      /\ UNCHANGED <<disposition, mask, sent, sigCnt, pc, n>>
      /\ alive' = ~ (disposition[s] = "default" /\ EndsByDefault(s))
      /\ alive' \in BOOLEAN /\ stopped' \in BOOLEAN /\ alive
      /\ owed \subseteq SignalNumbers
  BY DEF IInv, TypeOK, SignalsTypeOK, MainTypeOK, Deliver, Deliverable, mainVars
<1>5. owed' \subseteq owed
  OBVIOUS
<1>6. Dispositions'
  BY <1>1, <1>5 DEF IInv, Dispositions
<1>4. PendingOnce' /\ MainTypeOK'
  <2>1. PendingOnce'
    BY <1>1 DEF IInv, TypeOK, PendingOnce
  <2>2. MainTypeOK'
    BY <1>1, <1>5 DEF IInv, TypeOK, MainTypeOK, mainVars
  <2> QED
    BY <2>1, <2>2
<1>2. CASE disposition[s] = "handler"
  <2>1. s \notin Uncatchable /\ s \notin InHandler
    BY <1>2 DEF IInv, Dispositions, Deliver, Deliverable, Blocked
  <2>2. /\ frames' = Append(frames, f) /\ f \in Frames
        /\ caught' = [caught EXCEPT ![s] = @ + 1]
    BY <1>2 DEF Deliver, Frames
  <2>3. /\ frames' \in Seq(Frames)
        /\ DOMAIN frames' = DOMAIN frames \cup {Len(frames) + 1}
        /\ Len(frames) + 1 \notin DOMAIN frames
        /\ frames'[Len(frames) + 1] = f
        /\ \A i \in DOMAIN frames : frames'[i] = frames[i]
    BY <1>1, <2>2
  <2>4. \A i \in DOMAIN frames : frames[i].sig # s
    BY <2>1 DEF InHandler
  <2>5. TypeOK'
    <3>1. SignalsTypeOK'
      BY <1>1, <2>2, <2>3 DEF IInv, TypeOK, SignalsTypeOK
    <3> QED
      BY <1>4, <3>1 DEF TypeOK
  <2>6. HandlersApart'
    BY <1>1, <2>1, <2>3, <2>4, SMTT(40) DEF IInv, HandlersApart
  <2>7. CountExact'
    <3> SUFFICES ASSUME NEW t \in SignalNumbers \ {SIGINT}
                 PROVE  caught'[t] = sigCnt[t] + (IF InFlight(t)' THEN 1 ELSE 0)
      BY <1>1 DEF CountExact
    <3>1. caught[t] = sigCnt[t] + (IF InFlight(t) THEN 1 ELSE 0)
      BY DEF IInv, CountExact
    <3>2. CASE t = s
      <4>1. ~InFlight(t) /\ InFlight(t)'
        BY <2>3, <2>4, <3>2 DEF InFlight
      <4> QED
        BY <1>1, <2>2, <3>1, <3>2, <4>1
    <3>3. CASE t # s
      <4>1. InFlight(t)' <=> InFlight(t)
        BY <2>3, <3>3 DEF InFlight
      <4> QED
        BY <1>1, <2>2, <3>1, <3>3, <4>1
    <3> QED
      BY <3>2, <3>3
  <2>8. NoSignalVanishes'
    <3>1. \A t \in SignalNumbers : caught'[t] + pending'[t] = caught[t] + pending[t]
      BY <1>1, <2>2
    <3>2. caught'[s] # caught[s]
      BY <1>1, <2>2
    <3>3. \A t \in owed' : t \in owed /\ t # s /\ t \in SignalNumbers
      BY <1>1, <3>2
    <3>4. \A t \in owed' : pending'[t] = pending[t]
      BY <1>1, <3>3
    <3>5. RealTime \subseteq SignalNumbers
      BY SignalsAssumption
    <3> QED
      BY <1>1, <3>1, <3>3, <3>4, <3>5 DEF IInv, NoSignalVanishes
  <2> QED
    BY <1>6, <2>5, <2>6, <2>7, <2>8 DEF IInv
<1>3. CASE disposition[s] # "handler"
  <2>1. UNCHANGED <<frames, caught>>
    BY <1>3 DEF Deliver
  <2>2. disposition[s] = "default"
    BY <1>3 DEF IInv, Dispositions, TypeOK, SignalsTypeOK
  <2>3. TypeOK'
    <3>1. SignalsTypeOK'
      BY <1>1, <2>1 DEF IInv, TypeOK, SignalsTypeOK
    <3> QED
      BY <1>4, <3>1 DEF TypeOK
  <2>4. NoSignalVanishes'
    <3> SUFFICES ASSUME alive' PROVE NoSignalVanishes'
      BY DEF NoSignalVanishes
    <3>1. ~ EndsByDefault(s)
      BY <1>1, <2>2
    <3>2. s \notin owed /\ s \notin RealTime /\ RealTime \subseteq SignalNumbers
      BY <1>3, <3>1, SignalsAssumption DEF IInv, Dispositions, EndsByDefault
    <3>3. \A t \in SignalNumbers : pending'[t] <= pending[t] /\ (t # s => pending'[t] = pending[t])
      BY <1>1
    <3>4. \A t \in owed : pending'[t] > 0
      BY <1>1, <3>2, <3>3 DEF IInv, NoSignalVanishes
    <3>5. \A t \in RealTime : sent[t] = caught[t] + pending'[t]
      BY <1>1, <3>2, <3>3 DEF IInv, NoSignalVanishes
    <3>6. ASSUME NEW t \in SignalNumbers PROVE caught[t] + pending'[t] <= sent[t]
      <4>1. caught[t] + pending[t] <= sent[t] /\ pending'[t] <= pending[t]
        BY <1>1, <3>3 DEF IInv, NoSignalVanishes
      <4>2. caught[t] \in Nat /\ pending[t] \in Nat /\ sent[t] \in Nat /\ pending'[t] \in Int
        BY <1>1
      <4> QED
        BY <4>1, <4>2
    <3> QED
      BY <1>1, <1>5, <2>1, <3>4, <3>5, <3>6 DEF NoSignalVanishes
  <2> QED
    BY <1>1, <1>6, <2>1, <2>3, <2>4
       DEF IInv, HandlersApart, CountExact, InFlight
<1> QED
  BY <1>2, <1>3

(* What a handler does with its own frame leaves the others alone.         *)
LEMMA TopReplaced ==
    ASSUME frames \in Seq(Frames), frames # <<>>, NEW g \in Frames, frames' = WithTop(g)
    PROVE  /\ Len(frames) \in DOMAIN frames /\ Top \in Frames
           /\ frames' \in Seq(Frames) /\ DOMAIN frames' = DOMAIN frames
           /\ frames'[Len(frames)] = g
           /\ \A i \in DOMAIN frames : i # Len(frames) => frames'[i] = frames[i]
BY DEF WithTop, Top

(* A handler counts its own signal, once, and nobody else's.               *)
LEMMA HandlerStep ==
    ASSUME IInv, Handler
    PROVE  IInv'
<1> DEFINE L == Len(frames)
<1>1. /\ frames \in Seq(Frames) /\ frames # <<>>
      /\ sigCnt \in [SignalNumbers -> Nat] /\ caught \in [SignalNumbers -> Nat]
      /\ gotSigint \in BOOLEAN
      /\ UNCHANGED <<disposition, mask, pending, alive, stopped, sent, caught, mainVars, owed>>
  BY DEF IInv, TypeOK, SignalsTypeOK, MainTypeOK, Handler
<1>2. /\ L \in DOMAIN frames /\ Top = frames[L] /\ Top \in Frames
      /\ DOMAIN frames = 1 .. L /\ L \in Nat \ {0}
  BY <1>1 DEF Top
<1>3. HandlersApart /\ CountExact
  BY DEF IInv
<1>4. Top.sig \in SignalNumbers /\ Top.tmp \in Nat
  BY <1>2 DEF Frames
<1>5. ASSUME frames' \in Seq(Frames), sigCnt' \in [SignalNumbers -> Nat], gotSigint' \in BOOLEAN
      PROVE  TypeOK' /\ Dispositions' /\ NoSignalVanishes'
  <2>1. SignalsTypeOK'
    BY <1>1, <1>5 DEF IInv, TypeOK, SignalsTypeOK
  <2>2. PendingOnce'
    BY <1>1 DEF IInv, TypeOK, PendingOnce
  <2>3. MainTypeOK'
    BY <1>1, <1>5 DEF IInv, TypeOK, MainTypeOK, mainVars
  <2>4. Dispositions' /\ NoSignalVanishes'
    BY <1>1 DEF IInv, Dispositions, NoSignalVanishes, mainVars
  <2> QED
    BY <2>1, <2>2, <2>3, <2>4 DEF TypeOK
<1>6. CASE Flag
  <2> DEFINE g == [Top EXCEPT !.at = "return"]
  <2>1. /\ Top.sig = SIGINT /\ gotSigint' = TRUE /\ sigCnt' = sigCnt /\ frames' = WithTop(g)
    BY <1>6 DEF Flag
  <2>2. g \in Frames /\ g.sig = SIGINT /\ g.at = "return"
    BY <1>2, <2>1 DEF Frames
  <2>3. /\ frames' \in Seq(Frames) /\ DOMAIN frames' = DOMAIN frames /\ frames'[L] = g
        /\ \A i \in DOMAIN frames : i # L => frames'[i] = frames[i]
    <3> HIDE DEF g
    <3> QED
      BY <1>1, <2>1, <2>2, TopReplaced
  <2> HIDE DEF g
  <2>4. HandlersApart'
    BY <1>2, <1>3, <2>1, <2>2, <2>3 DEF HandlersApart
  <2>5. CountExact'
    <3>1. \A t \in SignalNumbers \ {SIGINT} : InFlight(t)' <=> InFlight(t)
      BY <1>2, <2>1, <2>2, <2>3 DEF InFlight
    <3> QED
      BY <1>1, <1>3, <2>1, <3>1 DEF CountExact
  <2> QED
    BY <1>1, <1>5, <2>1, <2>3, <2>4, <2>5 DEF IInv
<1>7. CASE Load
  <2> DEFINE g == [Top EXCEPT !.at = "store", !.tmp = sigCnt[Top.sig]]
  <2>1. /\ Top.sig # SIGINT /\ Top.at = "entry" /\ gotSigint' = gotSigint
        /\ sigCnt' = sigCnt /\ frames' = WithTop(g)
    BY <1>7 DEF Load
  <2>2. g \in Frames /\ g.sig = Top.sig /\ g.at = "store" /\ g.tmp = sigCnt[Top.sig]
    BY <1>1, <1>2, <1>4, <2>1 DEF Frames
  <2>3. /\ frames' \in Seq(Frames) /\ DOMAIN frames' = DOMAIN frames /\ frames'[L] = g
        /\ \A i \in DOMAIN frames : i # L => frames'[i] = frames[i]
    <3> HIDE DEF g
    <3> QED
      BY <1>1, <2>1, <2>2, TopReplaced
  <2> HIDE DEF g
  <2>4. HandlersApart'
    BY <1>2, <1>3, <2>1, <2>2, <2>3 DEF HandlersApart
  <2>5. CountExact'
    <3>1. \A t \in SignalNumbers \ {SIGINT} : InFlight(t)' <=> InFlight(t)
      BY <1>2, <2>1, <2>2, <2>3 DEF InFlight
    <3> QED
      BY <1>1, <1>3, <2>1, <3>1 DEF CountExact
  <2> QED
    BY <1>1, <1>5, <2>1, <2>3, <2>4, <2>5 DEF IInv
<1>8. CASE Store
  <2> DEFINE g == [Top EXCEPT !.at = "return"]
  <2>1. /\ Top.at = "store" /\ gotSigint' = gotSigint /\ frames' = WithTop(g)
        /\ sigCnt' = [sigCnt EXCEPT ![Top.sig] = Top.tmp + 1]
    BY <1>8 DEF Store
  <2>2. g \in Frames /\ g.sig = Top.sig /\ g.at = "return"
    BY <1>2 DEF Frames
  <2>3. /\ frames' \in Seq(Frames) /\ DOMAIN frames' = DOMAIN frames /\ frames'[L] = g
        /\ \A i \in DOMAIN frames : i # L => frames'[i] = frames[i]
    <3> HIDE DEF g
    <3> QED
      BY <1>1, <2>1, <2>2, TopReplaced
  <2> HIDE DEF g
  <2>4. /\ Top.sig # SIGINT /\ Top.tmp = sigCnt[Top.sig]
        /\ \A i \in DOMAIN frames : i # L => frames[i].sig # Top.sig
    BY <1>2, <1>3, <2>1 DEF HandlersApart
  <2>5. /\ sigCnt' \in [SignalNumbers -> Nat] /\ sigCnt'[Top.sig] = sigCnt[Top.sig] + 1
        /\ \A t \in SignalNumbers : t # Top.sig => sigCnt'[t] = sigCnt[t]
    BY <1>1, <1>4, <2>1, <2>4
  <2>6. HandlersApart'
    <3>1. \A i \in DOMAIN frames : frames[i] \in Frames
      BY <1>1
    <3>2. \A i \in DOMAIN frames : frames[i].sig \in SignalNumbers
      BY <3>1 DEF Frames
    <3> QED
      BY <1>2, <1>3, <2>2, <2>3, <2>4, <2>5, <3>2 DEF HandlersApart
  <2>7. CountExact'
    <3> SUFFICES ASSUME NEW t \in SignalNumbers \ {SIGINT}
                 PROVE  caught[t] = sigCnt'[t] + (IF InFlight(t)' THEN 1 ELSE 0)
      BY <1>1 DEF CountExact
    <3>1. caught[t] = sigCnt[t] + (IF InFlight(t) THEN 1 ELSE 0)
      BY <1>3 DEF CountExact
    <3>2. CASE t = Top.sig
      <4>1. InFlight(t)
        BY <1>2, <2>1, <3>2 DEF InFlight
      <4>2. ~InFlight(t)'
        BY <1>2, <2>2, <2>3, <2>4, <3>2 DEF InFlight
      <4> QED
        BY <1>1, <2>5, <3>1, <3>2, <4>1, <4>2
    <3>3. CASE t # Top.sig
      <4>1. InFlight(t)' <=> InFlight(t)
        BY <1>2, <2>2, <2>3, <3>3 DEF InFlight
      <4> QED
        BY <1>1, <2>5, <3>1, <3>3, <4>1
    <3> QED
      BY <3>2, <3>3
  <2> QED
    BY <1>1, <1>5, <2>1, <2>3, <2>5, <2>6, <2>7 DEF IInv
<1>9. CASE Return
  <2>1. /\ Top.at = "return" /\ gotSigint' = gotSigint /\ sigCnt' = sigCnt
        /\ frames' = SubSeq(frames, 1, L - 1)
    BY <1>9 DEF Return
  <2>2. /\ frames' \in Seq(Frames) /\ DOMAIN frames' = 1 .. L - 1
        /\ \A i \in 1 .. L - 1 : frames'[i] = frames[i]
    BY <1>1, <1>2, <2>1
  <2>3. HandlersApart'
    BY <1>2, <1>3, <2>1, <2>2 DEF HandlersApart
  <2>4. CountExact'
    <3>1. \A t \in SignalNumbers \ {SIGINT} : InFlight(t)' <=> InFlight(t)
      <4> SUFFICES ASSUME NEW t \in SignalNumbers \ {SIGINT}
                   PROVE  InFlight(t)' <=> InFlight(t)
        OBVIOUS
      <4>1. \A i \in 1 .. L : i = L \/ i \in 1 .. L - 1
        <5>1. L \in Nat \ {0}
          BY <1>2
        <5> HIDE DEF L
        <5> QED
          BY <5>1
      <4>2. 1 .. L - 1 \subseteq 1 .. L
        BY <1>2
      <4>3. InFlight(t) => InFlight(t)'
        BY <1>2, <2>1, <2>2, <4>1 DEF InFlight
      <4>4. InFlight(t)' => InFlight(t)
        BY <1>2, <2>2, <4>2 DEF InFlight
      <4> QED
        BY <4>3, <4>4
    <3> QED
      BY <1>1, <1>3, <2>1, <3>1 DEF CountExact
  <2> QED
    BY <1>1, <1>5, <2>1, <2>2, <2>3, <2>4 DEF IInv
<1> QED
  BY <1>6, <1>7, <1>8, <1>9 DEF Handler

(* main never touches the counts or the handlers; installing the handler   *)
(* is all it does to a disposition.                                        *)
LEMMA MainStep ==
    ASSUME IInv, Main
    PROVE  IInv'
<1>1. /\ UNCHANGED <<frames, alive, stopped, sent, caught, arg, gotSigint, sigCnt, owed>>
      /\ disposition \in [SignalNumbers -> {"default", "handler", "ignore"}]
      /\ pending \in [SignalNumbers -> Nat] /\ mask \subseteq SignalNumbers
      /\ n \in 1 .. NSIG /\ sigCnt \in [SignalNumbers -> Nat]
      /\ shown \subseteq SignalNumbers
      /\ reported \in [SignalNumbers -> Nat] /\ caught \in [SignalNumbers -> Nat]
      /\ atLoopEnd \in [SignalNumbers -> Nat]
  BY DEF IInv, TypeOK, SignalsTypeOK, MainTypeOK, Main
<1>2. HandlersApart' /\ CountExact'
  BY <1>1 DEF IInv, HandlersApart, CountExact, InFlight
<1>3. \A i \in 1 .. NSIG : i < NSIG => i \in SignalNumbers /\ i + 1 \in 1 .. NSIG
  BY SignalsAssumption DEF SignalNumbers
<1>4. 1 \in 1 .. NSIG
  BY SignalsAssumption
<1>5. ASSUME UNCHANGED <<disposition, pending>>, mask' \subseteq SignalNumbers, MainTypeOK',
             pc' # "install" /\ (pc = "install" => ~ (n < NSIG))
      PROVE  IInv'
  <2>1. SignalsTypeOK' /\ PendingOnce'
    BY <1>1, <1>5 DEF IInv, TypeOK, SignalsTypeOK, PendingOnce
  <2>2. NoSignalVanishes'
    BY <1>1, <1>5 DEF IInv, NoSignalVanishes
  <2>3. \A s \in SignalNumbers \ Uncatchable : disposition[s] = "handler"
    <3>1. \A s \in SignalNumbers : s < NSIG /\ s \in Nat
      BY SignalsAssumption DEF SignalNumbers
    <3>2. pc = "install" => \A s \in SignalNumbers : s < n
      BY <1>1, <1>5, <3>1, SignalsAssumption
    <3> QED
      BY <3>2 DEF IInv, Dispositions
  <2>4. Dispositions'
    BY <1>1, <1>5, <2>3 DEF IInv, Dispositions
  <2> QED
    BY <1>2, <1>5, <2>1, <2>2, <2>4 DEF IInv, TypeOK
<1>6. MainTypeOK
  BY DEF IInv, TypeOK
<1>7. CASE Install
  <2>1. CASE n < NSIG
    <3>1. /\ n \in SignalNumbers /\ n + 1 \in 1 .. NSIG
          /\ n' = n + 1 /\ UNCHANGED <<pc, mask, shown, reported, atLoopEnd>>
          /\ pending' = pending
          /\ disposition' = IF n \in Uncatchable THEN disposition
                            ELSE [disposition EXCEPT ![n] = "handler"]
      BY <1>1, <1>3, <1>7, <2>1 DEF Install, Installs, SigAction
    <3>2. /\ disposition' \in [SignalNumbers -> {"default", "handler", "ignore"}]
          /\ Dispositions'
      <4>1. disposition' \in [SignalNumbers -> {"default", "handler", "ignore"}]
        BY <1>1, <3>1
      <4>2. \A s \in SignalNumbers :
               /\ disposition'[s] = disposition[s] \/ disposition'[s] = "handler"
               /\ s \in Uncatchable => disposition'[s] = disposition[s]
               /\ s = n /\ s \notin Uncatchable => disposition'[s] = "handler"
        BY <1>1, <3>1
      <4>3. \A s \in SignalNumbers : s < n' => s < n \/ s = n
        BY <1>1, <3>1, SignalsAssumption DEF SignalNumbers
      <4>4. owed \subseteq SignalNumbers /\ Uncatchable \subseteq SignalNumbers
        BY SignalsAssumption DEF IInv, TypeOK, MainTypeOK
      <4>5. pc = "install" /\ pc' = pc /\ owed' = owed
        BY <1>1, <1>7, <3>1 DEF Install
      <4> QED
        BY <4>1, <4>2, <4>3, <4>4, <4>5 DEF IInv, Dispositions
    <3>3. SignalsTypeOK' /\ PendingOnce' /\ NoSignalVanishes'
      BY <1>1, <3>1, <3>2 DEF IInv, TypeOK, SignalsTypeOK, PendingOnce, NoSignalVanishes
    <3>4. MainTypeOK'
      BY <1>1, <1>6, <3>1 DEF MainTypeOK
    <3> QED
      BY <1>2, <3>2, <3>3, <3>4 DEF IInv, TypeOK
  <2>2. CASE ~(n < NSIG)
    <3>1. /\ pc' = "arg"
          /\ UNCHANGED <<n, disposition, pending, mask, shown, reported, atLoopEnd>>
      BY <1>7, <2>2 DEF Install, Installs
    <3> QED
      BY <1>1, <1>5, <1>6, <2>2, <3>1 DEF MainTypeOK
  <2> QED
    BY <2>1, <2>2
<1>8. CASE ReadArg
  BY <1>1, <1>5, <1>6, <1>8 DEF ReadArg, MainTypeOK
<1>9. CASE Block
  BY <1>1, <1>5, <1>6, <1>9 DEF Block, MainTypeOK
<1>10. CASE SleepAndShow
  BY <1>1, <1>5, <1>6, <1>10 DEF SleepAndShow, MainTypeOK
<1>11. CASE Unblock
  BY <1>1, <1>5, <1>6, <1>11 DEF Unblock, EmptyMask, MainTypeOK
<1>12. CASE Unblocked
  BY <1>1, <1>5, <1>6, <1>12 DEF Unblocked, MainTypeOK
<1>13. CASE SpinEnds
  BY <1>1, <1>4, <1>5, <1>6, <1>13 DEF SpinEnds, MainTypeOK
<1>14. CASE Report
  <2>3. pc = "report"
    BY <1>14 DEF Report
  <2>1. CASE n < NSIG
    <3>1. /\ n \in SignalNumbers /\ n + 1 \in 1 .. NSIG /\ n' = n + 1
          /\ reported' = [reported EXCEPT ![n] = sigCnt[n]]
          /\ UNCHANGED <<pc, disposition, mask, pending, shown, atLoopEnd>>
      BY <1>1, <1>3, <1>14, <2>1 DEF Report
    <3>2. reported' \in [SignalNumbers -> Nat]
      BY <1>1, <3>1
    <3> QED
      BY <1>1, <1>5, <1>6, <2>3, <3>1, <3>2 DEF MainTypeOK
  <2>2. CASE ~(n < NSIG)
    <3>1. /\ pc' = "exit"
          /\ UNCHANGED <<n, reported, disposition, mask, pending, shown, atLoopEnd>>
      BY <1>14, <2>2 DEF Report
    <3> QED
      BY <1>1, <1>5, <1>6, <2>3, <3>1 DEF MainTypeOK
  <2> QED
    BY <2>1, <2>2
<1> QED
  BY <1>7, <1>8, <1>9, <1>10, <1>11, <1>12, <1>13, <1>14 DEF Main

LEMMA NextPreserves ==
    ASSUME IInv, [Next]_vars
    PROVE  IInv'
<1>1. CASE Main
  BY <1>1, MainStep
<1>2. CASE Handler
  BY <1>2, HandlerStep
<1>3. CASE Kernel
  BY <1>3, DeliverStep DEF Kernel
<1>4. CASE Senders
  BY <1>4, SendStep DEF Senders
<1>5. CASE UNCHANGED vars
  BY <1>5 DEF vars, signalVars, mainVars, IInv, TypeOK, SignalsTypeOK, PendingOnce,
              MainTypeOK, Dispositions, HandlersApart, CountExact, InFlight,
              NoSignalVanishes
<1> QED
  BY <1>1, <1>2, <1>3, <1>4, <1>5 DEF Next

(* The inductive invariant.                                                *)
THEOREM Invariance == Spec => []IInv
BY InitEstablishes, NextPreserves, PTL DEF Spec

(* The variables have their types, and an ordinary signal is pending once  *)
(* at most.                                                                *)
THEOREM TypeCorrect == Spec => []TypeOK
<1>1. IInv => TypeOK
  BY DEF IInv
<1> QED
  BY Invariance, <1>1, PTL

(* The counts are exact for any number of signals, sent in any order and   *)
(* caught in the middle of each other's handlers.                          *)
THEOREM CountsExact == Spec => []CountExact
<1>1. IInv => CountExact
  BY DEF IInv
<1> QED
  BY Invariance, <1>1, PTL

(* What is sent when main has come past its number in the loop of lines    *)
(* 46-53, or before if it would end the process, is pending until its      *)
(* handler starts; what queues is caught as often as it is sent.           *)
THEOREM NothingVanishes == Spec => []NoSignalVanishes
<1>1. IInv => NoSignalVanishes
  BY DEF IInv
<1> QED
  BY Invariance, <1>1, PTL

-----------------------------------------------------------------------------
(* What is shown and reported.  A signal that is shown is pending or       *)
(* caught, unless a stop signal and SIGCONT met; a handler that runs and   *)
(* the flag it sets stand for a signal that was caught; no later catch is  *)
(* taken for one before the loop ended.                                    *)
Reporting ==
    /\ pc \in {"install", "arg", "block", "sleep"} => shown = {}
    /\ pc \in {"sleep", "unblock"} => mask = SignalNumbers \ Uncatchable
    /\ pc = "unblocking" => mask = {}
    /\ shown \cap Uncatchable = {}
    /\ \A s \in shown \ (Stop \cup {SIGCONT}) : caught[s] + pending[s] > 0
    /\ gotSigint => caught[SIGINT] > 0
    /\ \A i \in DOMAIN frames : caught[frames[i].sig] > 0
    /\ pc \in {"report", "exit"} /\ arg # "invalid" => gotSigint
    /\ \A s \in SignalNumbers : atLoopEnd[s] <= caught[s]
    /\ ReportComplete

LEMMA ReportingInit == Init => Reporting
<1> SUFFICES ASSUME Init PROVE Reporting
  OBVIOUS
<1>1. /\ pc = "install" /\ shown = {} /\ gotSigint = FALSE /\ frames = <<>>
      /\ \A s \in SignalNumbers : atLoopEnd[s] = 0 /\ caught[s] = 0
  BY DEF Init, SignalsInit, Zero
<1> QED
  BY <1>1 DEF Reporting, ReportComplete

(* Steps of others than main: signals are only sent and caught, none is    *)
(* caught while main has blocked them, and one that is shown stays pending *)
(* until it is caught.                                                     *)
LEMMA ReportingOthers ==
    ASSUME IInv, Reporting, UNCHANGED <<mainVars, mask>>,
           alive' => alive,
           \A s \in SignalNumbers : caught[s] <= caught'[s] /\ caught'[s] \in Nat,
           \A s \in shown \ (Stop \cup {SIGCONT}) : caught'[s] + pending'[s] > 0,
           gotSigint => gotSigint',
           gotSigint' => caught'[SIGINT] > 0,
           \A i \in DOMAIN frames' : caught'[frames'[i].sig] > 0,
           pc \in {"sleep", "unblock"} => frames' = <<>>
    PROVE  Reporting'
<1>1. /\ caught \in [SignalNumbers -> Nat]
      /\ atLoopEnd \in [SignalNumbers -> Nat] /\ shown \subseteq SignalNumbers
  BY DEF IInv, TypeOK, SignalsTypeOK, MainTypeOK
<1>2. UNCHANGED <<pc, n, arg, shown, reported, atLoopEnd, mask>>
  BY DEF mainVars
<1>4. \A s \in SignalNumbers : atLoopEnd'[s] <= caught'[s]
  BY <1>1, <1>2 DEF Reporting
<1>5. ReportComplete'
  <2>1. SIGINT \in SignalNumbers
    BY SigIntAssumption
  <2>2. alive' /\ pc' \in {"spin", "report", "exit"} =>
           \A s \in shown' \ (Stop \cup {SIGCONT}) : caught'[s] > 0
    <3> SUFFICES ASSUME alive', pc' \in {"spin", "report", "exit"},
                        NEW s \in shown' \ (Stop \cup {SIGCONT})
                 PROVE  caught'[s] > 0
      OBVIOUS
    <3>1. caught[s] > 0 /\ s \in SignalNumbers
      BY <1>1, <1>2 DEF Reporting, ReportComplete
    <3> QED
      BY <1>1, <3>1
  <2>3. pc' \in {"report", "exit"} /\ arg' # "invalid" =>
           /\ caught'[SIGINT] > 0
           /\ \A s \in SignalNumbers \ {SIGINT} :
                 (s < n' \/ pc' = "exit") => reported'[s] >= atLoopEnd'[s]
    BY <1>2 DEF Reporting, ReportComplete
  <2> QED
    BY <1>2, <2>2, <2>3 DEF ReportComplete
<1> QED
  BY <1>2, <1>4, <1>5 DEF Reporting

LEMMA ReportingStep ==
    ASSUME IInv, Reporting, Handler \/ Kernel \/ Senders
    PROVE  Reporting'
<1>1. /\ caught \in [SignalNumbers -> Nat] /\ pending \in [SignalNumbers -> Nat]
      /\ frames \in Seq(Frames) /\ SIGINT \in SignalNumbers /\ shown \subseteq SignalNumbers
  BY SigIntAssumption DEF IInv, TypeOK, SignalsTypeOK, MainTypeOK
<1>2. /\ gotSigint => caught[SIGINT] > 0
      /\ \A i \in DOMAIN frames : caught[frames[i].sig] > 0
      /\ pc \in {"sleep", "unblock"} => frames = <<>> /\ mask = SignalNumbers \ Uncatchable
      /\ \A s \in shown \ (Stop \cup {SIGCONT}) : caught[s] + pending[s] > 0
      /\ \A s \in shown : s \notin Uncatchable /\ disposition[s] = "handler"
  BY <1>1 DEF Reporting, ReportComplete, IInv, Dispositions
<1>3. \A i \in DOMAIN frames : frames[i].sig \in SignalNumbers
  <2>1. \A i \in DOMAIN frames : frames[i] \in Frames
    BY <1>1
  <2> QED
    BY <2>1 DEF Frames
<1>4. CASE Senders
  <2>1. PICK s \in SignalNumbers : Send(s)
    BY <1>4 DEF Senders
  <2>2. UNCHANGED <<mainVars, gotSigint, mask, frames, alive, caught>>
    BY <1>4, <2>1 DEF Senders, Send
  <2>3. \A t \in shown \ (Stop \cup {SIGCONT}) : caught'[t] + pending'[t] > 0
    <3> SUFFICES ASSUME NEW t \in shown \ (Stop \cup {SIGCONT})
                 PROVE  caught[t] + pending'[t] > 0
      BY <2>2
    <3>1. t \in SignalNumbers /\ ~ Cancels(s, t)
      BY <1>1 DEF Cancels
    <3>2. pending'[t] = pending[t] \/ pending'[t] = pending[t] + 1 \/ pending'[t] = 1
      <4>1. pending'[t] = IF t = s /\ ~ Dropped(s) THEN Queue(s)
                          ELSE IF Cancels(s, t) THEN 0 ELSE pending[t]
        BY <2>1, <3>1 DEF Send
      <4> QED
        BY <3>1, <4>1 DEF Queue
    <3>3. caught[t] + pending[t] > 0 /\ caught[t] \in Nat /\ pending[t] \in Nat
      BY <1>1, <1>2, <3>1
    <3> QED
      BY <3>2, <3>3
  <2>4. \A t \in SignalNumbers : caught[t] <= caught'[t] /\ caught'[t] \in Nat
    BY <1>1, <2>2
  <2> QED
    BY <1>2, <2>2, <2>3, <2>4, ReportingOthers
<1>5. CASE Kernel
  <2>1. PICK s \in SignalNumbers : Deliver(s)
    BY <1>5 DEF Kernel
  <2>2. /\ UNCHANGED <<mainVars, gotSigint, mask>> /\ alive
        /\ \/ UNCHANGED <<frames, caught>>
           \/ /\ disposition[s] = "handler"
              /\ frames' = Append(frames, [sig |-> s, at |-> "entry", tmp |-> 0])
              /\ caught' = [caught EXCEPT ![s] = @ + 1]
    BY <1>5, <2>1 DEF Kernel, Deliver
  <2>3. \A t \in SignalNumbers : caught[t] <= caught'[t] /\ caught'[t] \in Nat
    BY <1>1, <2>2
  <2>4. \A t \in shown \ (Stop \cup {SIGCONT}) : caught'[t] + pending'[t] > 0
    <3> SUFFICES ASSUME NEW t \in shown \ (Stop \cup {SIGCONT})
                 PROVE  caught'[t] + pending'[t] > 0
      OBVIOUS
    <3>1. /\ t \in SignalNumbers /\ disposition[t] = "handler"
          /\ caught[t] + pending[t] > 0 /\ pending[t] \in Nat
      BY <1>1, <1>2
    <3>2. pending' = [pending EXCEPT ![s] = @ - 1] /\ pending[s] > 0
      BY <2>1 DEF Deliver, Deliverable
    <3>3. CASE t = s
      <4>1. caught' = [caught EXCEPT ![s] = @ + 1]
        BY <2>1, <3>1, <3>3 DEF Deliver
      <4> QED
        BY <1>1, <3>1, <3>2, <3>3, <4>1
    <3>4. CASE t # s
      BY <1>1, <2>3, <3>1, <3>2, <3>4
    <3> QED
      BY <3>3, <3>4
  <2>5. pc \in {"sleep", "unblock"} => frames' = <<>>
    <3> SUFFICES ASSUME pc \in {"sleep", "unblock"} PROVE UNCHANGED frames
      BY <1>2
    <3>1. s \in Uncatchable
      BY <1>2, <2>1 DEF Deliver, Deliverable, Blocked, InHandler
    <3>2. disposition[s] # "handler"
      BY <3>1 DEF IInv, Dispositions
    <3> QED
      BY <2>2, <3>2
  <2>6. \A i \in DOMAIN frames' : caught'[frames'[i].sig] > 0
    <3>1. CASE UNCHANGED <<frames, caught>>
      BY <1>2, <3>1
    <3>2. CASE /\ frames' = Append(frames, [sig |-> s, at |-> "entry", tmp |-> 0])
               /\ caught' = [caught EXCEPT ![s] = @ + 1]
      <4>1. caught'[s] > 0 /\ \A t \in SignalNumbers : caught[t] > 0 => caught'[t] > 0
        BY <1>1, <3>2
      <4>2. /\ DOMAIN frames' = DOMAIN frames \cup {Len(frames) + 1}
            /\ frames'[Len(frames) + 1].sig = s
            /\ \A i \in DOMAIN frames : frames'[i] = frames[i]
        BY <1>1, <3>2
      <4> QED
        BY <1>2, <1>3, <4>1, <4>2
    <3> QED
      BY <2>2, <3>1, <3>2
  <2>7. gotSigint' => caught'[SIGINT] > 0
    BY <1>1, <1>2, <2>2, <2>3
  <2> QED
    BY <2>2, <2>3, <2>4, <2>5, <2>6, <2>7, ReportingOthers
<1>6. CASE Handler
  <2> DEFINE L == Len(frames)
  <2>1. /\ frames # <<>> /\ UNCHANGED <<mainVars, mask, alive, pending, caught>>
        /\ Flag \/ Load \/ Store \/ Return
    BY <1>6 DEF Handler
  <2>2. L \in DOMAIN frames /\ Top = frames[L] /\ Top \in Frames /\ DOMAIN frames = 1 .. L /\ L \in Nat \ {0}
    BY <1>1, <2>1 DEF Top
  <2>3. \A t \in SignalNumbers :
           caught[t] <= caught'[t] /\ caught'[t] \in Nat
    BY <1>1, <2>1
  <2>7. \A t \in shown \ (Stop \cup {SIGCONT}) : caught'[t] + pending'[t] > 0
    BY <1>2, <2>1
  <2>4. (gotSigint => gotSigint') /\ (gotSigint' => caught'[SIGINT] > 0)
    BY <1>2, <2>1, <2>2 DEF Flag, Load, Store, Return
  <2>5. \A i \in DOMAIN frames' : caught'[frames'[i].sig] > 0
    <3>1. CASE Return
      <4>1. DOMAIN frames' = 1 .. L - 1 /\ \A i \in 1 .. L - 1 : frames'[i] = frames[i]
        BY <1>1, <2>2, <3>1 DEF Return
      <4>2. \A i \in 1 .. L - 1 : i \in DOMAIN frames
        BY <2>2
      <4> QED
        BY <1>2, <2>1, <4>1, <4>2
    <3>2. CASE Flag \/ Load \/ Store
      <4>1. PICK g : frames' = [frames EXCEPT ![L] = g] /\ g.sig = Top.sig
        <5>1. [Top EXCEPT !.at = "return"].sig = Top.sig
          BY <2>2 DEF Frames
        <5>2. [Top EXCEPT !.at = "store", !.tmp = sigCnt[Top.sig]].sig = Top.sig
          BY <2>2 DEF Frames
        <5> QED
          BY <3>2, <5>1, <5>2 DEF Flag, Load, Store, WithTop
      <4>2. /\ DOMAIN frames' = DOMAIN frames
            /\ \A i \in DOMAIN frames : frames'[i].sig = frames[i].sig
        BY <1>1, <2>2, <4>1
      <4> QED
        BY <1>2, <2>1, <4>2
    <3> QED
      BY <2>1, <3>1, <3>2
  <2>6. pc \notin {"sleep", "unblock"}
    BY <1>2, <2>1
  <2> QED
    BY <2>1, <2>3, <2>4, <2>5, <2>6, <2>7, ReportingOthers
<1> QED
  BY <1>4, <1>5, <1>6

LEMMA ReportingMain ==
    ASSUME IInv, Reporting, Main
    PROVE  Reporting'
<1>1. /\ UNCHANGED <<frames, alive, caught, arg, gotSigint, sigCnt>>
      /\ alive /\ ~ stopped /\ frames = <<>>
      /\ pending \in [SignalNumbers -> Nat]
      /\ caught \in [SignalNumbers -> Nat] /\ atLoopEnd \in [SignalNumbers -> Nat]
      /\ sigCnt \in [SignalNumbers -> Nat] /\ reported \in [SignalNumbers -> Nat]
      /\ n \in 1 .. NSIG /\ NSIG \in Nat \ {0} /\ shown \subseteq SignalNumbers
      /\ arg \in {"none", "valid", "invalid"}
      /\ SIGINT \in SignalNumbers
  BY SignalsAssumption, SigIntAssumption
     DEF IInv, TypeOK, SignalsTypeOK, MainTypeOK, Main, MainRuns, Running
<1>2. /\ pc \in {"install", "arg", "block", "sleep"} => shown = {}
      /\ pc \in {"sleep", "unblock"} => mask = SignalNumbers \ Uncatchable
      /\ pc = "unblocking" => mask = {}
      /\ shown \cap Uncatchable = {}
      /\ \A s \in shown \ (Stop \cup {SIGCONT}) : caught[s] + pending[s] > 0
      /\ gotSigint => caught[SIGINT] > 0
      /\ pc \in {"report", "exit"} /\ arg # "invalid" => gotSigint
      /\ \A s \in SignalNumbers : atLoopEnd[s] <= caught[s]
  BY DEF Reporting
<1>3. /\ pc \in {"spin", "report", "exit"} =>
            \A s \in shown \ (Stop \cup {SIGCONT}) : caught[s] > 0
      /\ pc \in {"report", "exit"} /\ arg # "invalid" =>
            /\ caught[SIGINT] > 0
            /\ \A s \in SignalNumbers \ {SIGINT} :
                  (s < n \/ pc = "exit") => reported[s] >= atLoopEnd[s]
  BY <1>1 DEF Reporting, ReportComplete
<1>4. CASE Install
  <2>1. /\ pc = "install" /\ pc' \in {"install", "arg"}
        /\ UNCHANGED <<mask, shown, reported, atLoopEnd>>
    BY <1>4 DEF Install
  <2> QED
    BY <1>1, <1>2, <2>1 DEF Reporting, ReportComplete
<1>5. CASE ReadArg
  <2>1. /\ pc = "arg" /\ UNCHANGED <<n, mask, shown, reported, atLoopEnd>>
        /\ pc' \in {"spin", "block", "exit"} /\ (pc' = "exit" => arg = "invalid")
    BY <1>1, <1>5 DEF ReadArg
  <2> QED
    BY <1>1, <1>2, <2>1 DEF Reporting, ReportComplete
<1>6. CASE Block
  <2>1. /\ pc = "block" /\ pc' = "sleep" /\ mask' = SignalNumbers \ Uncatchable
        /\ UNCHANGED <<n, shown, reported, atLoopEnd>>
    BY <1>6 DEF Block
  <2> QED
    BY <1>1, <1>2, <2>1 DEF Reporting, ReportComplete
<1>7. CASE SleepAndShow
  <2>1. /\ pc = "sleep" /\ pc' = "unblock" /\ UNCHANGED <<n, mask, reported, atLoopEnd>>
        /\ shown' = {s \in SignalNumbers : pending[s] > 0 /\ s \notin Uncatchable}
    BY <1>7 DEF SleepAndShow
  <2>2. \A s \in SignalNumbers : pending[s] > 0 => caught[s] + pending[s] > 0
    BY <1>1
  <2>3. pending' = pending
    BY <1>7 DEF SleepAndShow
  <2> QED
    BY <1>1, <1>2, <2>1, <2>2, <2>3 DEF Reporting, ReportComplete
<1>8. CASE Unblock
  <2>1. /\ pc = "unblock" /\ pc' = "unblocking" /\ mask' = {}
        /\ UNCHANGED <<n, pending, shown, reported, atLoopEnd>>
    BY <1>8 DEF Unblock, EmptyMask
  <2> QED
    BY <1>1, <1>2, <2>1 DEF Reporting, ReportComplete
<1>9. CASE Unblocked
  <2>1. /\ pc = "unblocking" /\ NoneDeliverable /\ pc' = "spin"
        /\ UNCHANGED <<n, mask, shown, reported, atLoopEnd>>
    BY <1>9 DEF Unblocked
  <2>2. ASSUME NEW s \in shown \ (Stop \cup {SIGCONT}) PROVE caught[s] > 0
    <3>1. s \in SignalNumbers /\ s \notin Blocked
      BY <1>1, <1>2, <2>1 DEF Blocked, InHandler
    <3>2. ~ (pending[s] > 0)
      BY <1>1, <2>1, <3>1 DEF NoneDeliverable, Deliverable
    <3>3. caught[s] + pending[s] > 0
      BY <1>2
    <3> QED
      BY <1>1, <3>1, <3>2, <3>3
  <2>3. pending' = pending
    BY <1>9 DEF Unblocked
  <2> QED
    BY <1>1, <1>2, <2>1, <2>2, <2>3 DEF Reporting, ReportComplete
<1>10. CASE SpinEnds
  <2>1. /\ pc = "spin" /\ gotSigint /\ atLoopEnd' = caught /\ pc' = "report" /\ n' = 1
        /\ UNCHANGED <<pending, mask, shown, reported>>
    BY <1>10 DEF SpinEnds, LoopEnds
  <2>2. \A s \in SignalNumbers : ~ (s < n') /\ atLoopEnd'[s] <= caught[s]
    BY <1>1, <2>1 DEF SignalNumbers
  <2> QED
    BY <1>1, <1>2, <1>3, <2>1, <2>2 DEF Reporting, ReportComplete
<1>11. CASE Report
  <2>1. pc = "report" /\ UNCHANGED <<pending, mask, shown, atLoopEnd>> /\ pc' \in {"report", "exit"}
    BY <1>11 DEF Report
  <2>2. ASSUME arg # "invalid", NEW s \in SignalNumbers \ {SIGINT}, s < n' \/ pc' = "exit"
        PROVE  reported'[s] >= atLoopEnd[s]
    <3>1. s \in Nat /\ s < NSIG /\ n \in Nat /\ n <= NSIG
      BY <1>1 DEF SignalNumbers
    <3>2. CASE n < NSIG
      <4>1. /\ reported' = [reported EXCEPT ![n] = sigCnt[n]] /\ n' = n + 1 /\ pc' = pc
            /\ n \in SignalNumbers
        BY <1>1, <1>11, <3>2 DEF Report, SignalNumbers
      <4>2. CASE s = n
        <5>1. ~ InFlight(s)
          BY <1>1 DEF InFlight
        <5>2. caught[s] = sigCnt[s] + 0
          BY <5>1 DEF IInv, CountExact
        <5>3. reported'[s] = sigCnt[s] /\ atLoopEnd[s] <= caught[s]
          BY <1>1, <1>2, <4>1, <4>2
        <5> QED
          BY <1>1, <5>2, <5>3
      <4>3. CASE s # n
        <5>1. s < n /\ reported'[s] = reported[s]
          BY <1>1, <2>1, <2>2, <3>1, <4>1, <4>3
        <5> QED
          BY <1>3, <2>1, <2>2, <5>1
      <4> QED
        BY <4>2, <4>3
    <3>3. CASE ~ (n < NSIG)
      <4>1. reported' = reported
        BY <1>11, <3>3 DEF Report
      <4>2. s < n
        BY <1>1, <3>1, <3>3
      <4> QED
        BY <1>3, <2>1, <2>2, <4>1, <4>2
    <3> QED
      BY <3>2, <3>3
  <2> QED
    BY <1>1, <1>2, <1>3, <2>1, <2>2 DEF Reporting, ReportComplete
<1> QED
  BY <1>4, <1>5, <1>6, <1>7, <1>8, <1>9, <1>10, <1>11 DEF Main

(* What main displays as pending while it blocks everything is caught      *)
(* before it loops, and its report leaves out nothing that was caught      *)
(* before SIGINT let it out of the loop (20.1.c:63-101).                   *)
THEOREM ReportIsComplete == Spec => []ReportComplete
<1>1. IInv /\ Reporting /\ [Next]_vars => Reporting'
  <2> SUFFICES ASSUME IInv, Reporting, [Next]_vars PROVE Reporting'
    OBVIOUS
  <2>1. CASE UNCHANGED vars
    BY <2>1 DEF vars, signalVars, mainVars, Reporting, ReportComplete
  <2> QED
    BY <2>1, ReportingStep, ReportingMain DEF Next
<1>2. Reporting => ReportComplete
  BY DEF Reporting
<1> QED
  BY <1>1, <1>2, Invariance, ReportingInit, PTL DEF Spec
=============================================================================
