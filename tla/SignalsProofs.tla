--------------------------- MODULE SignalsProofs ---------------------------
(***************************************************************************)
(* Proofs about Signals, for any signals, dispositions and depth of        *)
(* nested ticks: masks come back as the program set them, and no handler   *)
(* starts while its signal is blocked.                                     *)
(***************************************************************************)
EXTENDS Signals, SequenceTheorems, TLAPS

Frame == [at : {"clear", "start", "handler", "back"}, sig : Sig \cup {0}, saved : SUBSET Sig]

\* what the types of the stack and the mask rest on
FramesOK ==
  /\ ticks \in Seq(Frame)
  /\ \A i \in DOMAIN ticks : ticks[i].at # "back" => ticks[i].sig \in Sig
  /\ blocked \subseteq Sig /\ pending \subseteq Sig
  /\ act \in [Sig -> Sigaction]

\* A delivery on its way to its handler
Taking(i) == ticks[i].at \in {"clear", "start"}

\* What is blocked once everything above tick i on the stack has returned is
\* saved in the lowest handler above it; a signal a tick is taking is not
\* blocked then.
TakenUnblocked ==
  \A i \in DOMAIN ticks : Taking(i) =>
    /\ (\A j \in DOMAIN ticks : j > i => ~Handling(j)) => ticks[i].sig \notin blocked
    /\ \A j \in DOMAIN ticks :
         j > i /\ Handling(j) /\ (\A k \in DOMAIN ticks : i < k /\ k < j => ~Handling(k))
           => ticks[i].sig \notin ticks[j].saved

SigInv == FramesOK /\ MaskRestored /\ TakenUnblocked

-----------------------------------------------------------------------------
(* The stack *)

LEMMA Pushed ==
  ASSUME FramesOK, NEW f \in Frame, ticks' = Append(ticks, f)
  PROVE  /\ ticks' \in Seq(Frame) /\ Len(ticks') = Len(ticks) + 1
         /\ DOMAIN ticks = 1 .. Len(ticks) /\ DOMAIN ticks' = 1 .. Len(ticks) + 1
         /\ Len(ticks) \in Nat
         /\ ticks'[Len(ticks) + 1] = f
         /\ \A i \in DOMAIN ticks : ticks'[i] = ticks[i]
BY DEF FramesOK

LEMMA Replaced ==
  ASSUME FramesOK, ticks # <<>>, NEW f \in Frame, Advance(f)
  PROVE  /\ ticks' \in Seq(Frame) /\ Len(ticks') = Len(ticks)
         /\ DOMAIN ticks = 1 .. Len(ticks) /\ DOMAIN ticks' = 1 .. Len(ticks)
         /\ Len(ticks) \in Nat \ {0}
         /\ ticks'[Len(ticks)] = f
         /\ \A i \in DOMAIN ticks : i # Len(ticks) => ticks'[i] = ticks[i]
BY DEF FramesOK, Advance

LEMMA Popped ==
  ASSUME FramesOK, ticks # <<>>, ticks' = Front(ticks)
  PROVE  /\ ticks' \in Seq(Frame) /\ Len(ticks') = Len(ticks) - 1
         /\ DOMAIN ticks = 1 .. Len(ticks) /\ DOMAIN ticks' = 1 .. Len(ticks) - 1
         /\ Len(ticks) \in Nat \ {0}
         /\ \A i \in DOMAIN ticks' : ticks'[i] = ticks[i]
<1>1. Len(ticks) \in Nat \ {0} /\ DOMAIN ticks = 1 .. Len(ticks)
  BY DEF FramesOK
<1>2. ticks' = [i \in 1 .. Len(ticks) - 1 |-> ticks[i]]
  <2>1. SubSeq(ticks, 1, Len(ticks) - 1) = [i \in 1 .. Len(ticks) - 1 |-> ticks[i]]
    <3>1. Len(ticks) - 1 \in Nat /\ \A i \in 1 .. Len(ticks) - 1 : 1 <= i /\ i <= Len(ticks)
      BY <1>1
    <3> QED BY <1>1, <3>1, SubSeqProperties DEF FramesOK
  <2> QED BY <2>1 DEF Front
<1>3. \A i \in 1 .. Len(ticks) - 1 : ticks[i] \in Frame
  BY <1>1 DEF FramesOK
<1>4. ticks' \in Seq(Frame) /\ Len(ticks') = Len(ticks) - 1
  BY <1>1, <1>2, <1>3
<1> QED BY <1>1, <1>2, <1>4

LEMMA TopFrame ==
  ASSUME FramesOK, ticks # <<>>
  PROVE  /\ Len(ticks) \in DOMAIN ticks
         /\ Last(ticks) = ticks[Len(ticks)]
         /\ Last(ticks) \in Frame
         /\ Last(ticks).at # "back" => Last(ticks).sig \in Sig
BY DEF FramesOK, Last

-----------------------------------------------------------------------------
(* The steps *)

LEMMA SigInit == Init => SigInv
BY DEF Init, SigInv, FramesOK, MaskRestored, TakenUnblocked, Handling, Default, Sigaction,
       SaFlags

\* Calls leave the stack alone, and the mask changes only in the program's
\* own code or in the innermost handler.
LEMMA CallStep ==
  ASSUME SigInv, Call \/ Sleeping \/ ScanTimeouts \/ (\E g \in Sig : RaisedByOther(g))
  PROVE  SigInv'
<1> USE DEF SigInv
<1>1. CASE UNCHANGED <<ticks, blocked, asked>> /\ FramesOK'
  BY <1>1 DEF MaskRestored, TakenUnblocked, Taking, Handling
<1>2. ASSUME NEW g \in Sig, NEW d \in Dispositions[g], RtSigaction(g, d)
      PROVE  SigInv'
  <2>1. d \in Sigaction
    BY DispositionAssumption
  <2>2. FramesOK'
    BY <1>2, <2>1 DEF RtSigaction, FramesOK
  <2> QED BY <1>1, <1>2, <2>2 DEF RtSigaction
<1>3. ASSUME NEW how \in {"block", "unblock", "setmask"}, NEW set \in SUBSET Sig,
             RtSigprocmask(how, set)
      PROVE  SigInv'
  <2>1. ticks' = ticks /\ FramesOK'
    BY <1>3 DEF RtSigprocmask, Blockable, FramesOK
  <2>2. CASE InHandler
    <3>1. ticks # <<>> /\ Len(ticks) \in DOMAIN ticks /\ Handling(Len(ticks))
      BY <2>2, TopFrame DEF InHandler, Handling
    <3>2. asked' = asked
      BY <1>3, <2>2 DEF RtSigprocmask
    <3>3. MaskRestored'
      BY <2>1, <3>1, <3>2 DEF MaskRestored, Handling
    <3>4. \A i \in DOMAIN ticks : Taking(i) => i < Len(ticks)
      BY <3>1 DEF FramesOK, Taking, Handling
    <3>5. TakenUnblocked'
      BY <2>1, <3>1, <3>4 DEF TakenUnblocked, Taking, Handling
    <3> QED BY <2>1, <3>3, <3>5
  <2>3. CASE ~InHandler
    <3>1. ticks = <<>> /\ asked' = blocked'
      BY <1>3, <2>3 DEF RtSigprocmask, Program, Own
    <3> QED BY <2>1, <3>1 DEF MaskRestored, TakenUnblocked
  <2> QED BY <2>2, <2>3
<1>4. ASSUME NEW g \in Sig, RaiseSelf(g) \/ RaisedByOther(g)
      PROVE  SigInv'
  <2>1. FramesOK'
    BY <1>4 DEF RaiseSelf, RaisedByOther, FramesOK
  <2> QED BY <1>1, <1>4, <2>1 DEF RaiseSelf, RaisedByOther
<1>5. CASE CallSleep \/ Sleeping \/ ScanTimeouts
  <2>1. UNCHANGED <<ticks, blocked, asked, act, pending>>
    BY <1>5 DEF CallSleep, Sleeping, SleepTest, SleepPark, Unpark, ScanTimeouts, Goto
  <2> QED BY <1>1, <2>1 DEF FramesOK
<1> QED BY <1>2, <1>3, <1>4, <1>5 DEF Call

\* What a tick that arrives puts on the stack
LEMMA TickPushes ==
  ASSUME FramesOK, Tick
  PROVE  \E f \in Frame :
           /\ ticks' = Append(ticks, f)
           /\ \/ f.at = "clear" /\ f.sig \in pending /\ f.sig \notin blocked /\ f.sig \in Sig
              \/ f.at = "back"
<1> DEFINE clear(g) == [at |-> "clear", sig |-> g, saved |-> {}]
           back == [at |-> "back", sig |-> 0, saved |-> {}]
<1>1. ASSUME NEW g \in Lowest
      PROVE  clear(g) \in Frame /\ g \in pending /\ g \notin blocked /\ g \in Sig
  BY DEF Lowest, Deliverable, Frame, FramesOK
<1>2. back \in Frame
  BY DEF Frame
<1> QED BY <1>1, <1>2 DEF Tick

LEMMA TickStep ==
  ASSUME SigInv, Tick
  PROVE  SigInv'
<1> USE DEF SigInv
<1>1. PICK f \in Frame :
        /\ ticks' = Append(ticks, f)
        /\ \/ f.at = "clear" /\ f.sig \in Sig /\ f.sig \notin blocked
           \/ f.at = "back"
  BY TickPushes
<1>2. UNCHANGED <<blocked, asked, pending, act>>
  BY DEF Tick
<1>3. /\ ticks' \in Seq(Frame)
      /\ DOMAIN ticks = 1 .. Len(ticks) /\ DOMAIN ticks' = 1 .. Len(ticks) + 1
      /\ Len(ticks) \in Nat /\ ticks'[Len(ticks) + 1] = f
      /\ \A i \in DOMAIN ticks : ticks'[i] = ticks[i]
  BY <1>1, Pushed
<1>4. FramesOK'
  BY <1>1, <1>2, <1>3 DEF FramesOK
<1>5. MaskRestored'
  BY <1>1, <1>2, <1>3 DEF MaskRestored, Handling
<1>6. TakenUnblocked'
  BY <1>1, <1>2, <1>3 DEF TakenUnblocked, Taking, Handling
<1> QED BY <1>4, <1>5, <1>6

LEMMA ClearStep ==
  ASSUME SigInv, Clear
  PROVE  SigInv'
<1> USE DEF SigInv
<1> DEFINE f == [Last(ticks) EXCEPT !.at = "start"]
<1>1. /\ ticks # <<>> /\ Last(ticks).at = "clear" /\ Advance(f)
      /\ UNCHANGED <<blocked, asked, act>> /\ pending' \subseteq Sig
  BY DEF Clear, Taken, FramesOK
<1>2. f \in Frame /\ f.at = "start" /\ f.sig = Last(ticks).sig /\ f.sig \in Sig
  BY <1>1, TopFrame DEF Frame
<1> HIDE DEF f
<1>3. /\ ticks' \in Seq(Frame)
      /\ DOMAIN ticks = 1 .. Len(ticks) /\ DOMAIN ticks' = 1 .. Len(ticks)
      /\ Len(ticks) \in Nat \ {0} /\ ticks'[Len(ticks)] = f
      /\ \A i \in DOMAIN ticks : i # Len(ticks) => ticks'[i] = ticks[i]
  BY <1>1, <1>2, Replaced
<1>4. ticks[Len(ticks)].at = "clear" /\ ticks[Len(ticks)].sig = f.sig
  BY <1>1, <1>2, TopFrame
<1>5. FramesOK'
  BY <1>1, <1>2, <1>3 DEF FramesOK
<1>6. MaskRestored'
  BY <1>1, <1>2, <1>3, <1>4 DEF MaskRestored, Handling
<1>7. TakenUnblocked'
  BY <1>1, <1>2, <1>3, <1>4 DEF TakenUnblocked, Taking, Handling
<1> QED BY <1>5, <1>6, <1>7

LEMMA DeliverStep ==
  ASSUME SigInv, Deliver
  PROVE  SigInv'
<1> USE DEF SigInv
<1> DEFINE t == Last(ticks)
<1>1. /\ ticks # <<>> /\ t.at = "start" /\ t \in Frame /\ t.sig \in Sig
      /\ Len(ticks) \in DOMAIN ticks /\ ticks[Len(ticks)] = t
      /\ UNCHANGED <<pending, asked, act>>
  BY TopFrame DEF Deliver
<1>2. CASE UNCHANGED <<ticks, blocked>>
  BY <1>1, <1>2 DEF FramesOK, MaskRestored, TakenUnblocked, Taking, Handling
<1>3. CASE Advance([t EXCEPT !.at = "back"]) /\ blocked' = blocked
  <2> DEFINE f == [t EXCEPT !.at = "back"]
  <2>1. f \in Frame /\ f.at = "back"
    BY <1>1 DEF Frame
  <2> HIDE DEF f
  <2>2. /\ ticks' \in Seq(Frame)
        /\ DOMAIN ticks = 1 .. Len(ticks) /\ DOMAIN ticks' = 1 .. Len(ticks)
        /\ Len(ticks) \in Nat \ {0} /\ ticks'[Len(ticks)] = f
        /\ \A i \in DOMAIN ticks : i # Len(ticks) => ticks'[i] = ticks[i]
    BY <1>1, <1>3, <2>1, Replaced DEF f
  <2>3. FramesOK'
    BY <1>1, <1>3, <2>1, <2>2 DEF FramesOK
  <2>4. MaskRestored'
    BY <1>1, <1>3, <2>1, <2>2 DEF MaskRestored, Handling
  <2>5. TakenUnblocked'
    BY <1>1, <1>3, <2>1, <2>2 DEF TakenUnblocked, Taking, Handling
  <2> QED BY <2>3, <2>4, <2>5
<1>4. CASE /\ Advance([t EXCEPT !.at = "handler", !.saved = blocked])
           /\ blocked' = blocked \cup HandlerMask(t.sig)
  <2> DEFINE f == [t EXCEPT !.at = "handler", !.saved = blocked]
  <2>1. f \in Frame /\ f.at = "handler" /\ f.sig = t.sig /\ f.saved = blocked
    BY <1>1 DEF Frame, FramesOK
  <2> HIDE DEF f
  <2>2. /\ ticks' \in Seq(Frame)
        /\ DOMAIN ticks = 1 .. Len(ticks) /\ DOMAIN ticks' = 1 .. Len(ticks)
        /\ Len(ticks) \in Nat \ {0} /\ ticks'[Len(ticks)] = f
        /\ \A i \in DOMAIN ticks : i # Len(ticks) => ticks'[i] = ticks[i]
    BY <1>1, <1>4, <2>1, Replaced DEF f
  <2>3. HandlerMask(t.sig) \subseteq Sig
    BY <1>1 DEF HandlerMask, FramesOK, Sigaction
  <2>4. FramesOK'
    BY <1>1, <1>4, <2>1, <2>2, <2>3 DEF FramesOK
  <2>5. MaskRestored'
    BY <1>1, <2>1, <2>2 DEF MaskRestored, Handling
  <2>6. TakenUnblocked'
    BY <1>1, <2>1, <2>2 DEF TakenUnblocked, Taking, Handling
  <2> QED BY <2>4, <2>5, <2>6
<1> QED BY <1>2, <1>3, <1>4 DEF Deliver

LEMMA HandlerReturnsStep ==
  ASSUME SigInv, HandlerReturns
  PROVE  SigInv'
<1> USE DEF SigInv
<1> DEFINE t == Last(ticks)
           f == [t EXCEPT !.at = "back"]
<1>1. /\ ticks # <<>> /\ t.at = "handler" /\ t \in Frame /\ t.sig \in Sig
      /\ Len(ticks) \in DOMAIN ticks /\ ticks[Len(ticks)] = t
      /\ Advance(f) /\ blocked' = t.saved
      /\ UNCHANGED <<pending, asked>>
  BY TopFrame DEF HandlerReturns, InHandler, Restored
<1>2. f \in Frame /\ f.at = "back"
  BY <1>1 DEF Frame
<1>3. act' \in [Sig -> Sigaction]
  BY <1>1 DEF HandlerReturns, AfterHandler, FramesOK, Sigaction, SaFlags
<1> HIDE DEF f
<1>4. /\ ticks' \in Seq(Frame)
      /\ DOMAIN ticks = 1 .. Len(ticks) /\ DOMAIN ticks' = 1 .. Len(ticks)
      /\ Len(ticks) \in Nat \ {0} /\ ticks'[Len(ticks)] = f
      /\ \A i \in DOMAIN ticks : i # Len(ticks) => ticks'[i] = ticks[i]
  BY <1>1, <1>2, Replaced
<1>5. FramesOK'
  BY <1>1, <1>2, <1>3, <1>4 DEF FramesOK, Frame
<1>6. MaskRestored'
  BY <1>1, <1>2, <1>4 DEF MaskRestored, Handling
<1>7. TakenUnblocked'
  BY <1>1, <1>2, <1>4 DEF TakenUnblocked, Taking, Handling
<1> QED BY <1>5, <1>6, <1>7

LEMMA TickReturnsStep ==
  ASSUME SigInv, TickReturns
  PROVE  SigInv'
<1> USE DEF SigInv
<1>1. /\ ticks # <<>> /\ ticks[Len(ticks)].at = "back" /\ ticks' = Front(ticks)
      /\ UNCHANGED <<blocked, asked, pending, act>>
  BY TopFrame DEF TickReturns
<1>2. /\ ticks' \in Seq(Frame)
      /\ DOMAIN ticks = 1 .. Len(ticks) /\ DOMAIN ticks' = 1 .. Len(ticks) - 1
      /\ Len(ticks) \in Nat \ {0}
      /\ \A i \in DOMAIN ticks' : ticks'[i] = ticks[i]
  BY <1>1, Popped
<1>3. FramesOK'
  BY <1>1, <1>2 DEF FramesOK
<1>4. MaskRestored'
  BY <1>1, <1>2 DEF MaskRestored, Handling
<1>5. TakenUnblocked'
  BY <1>1, <1>2 DEF TakenUnblocked, Taking, Handling
<1> QED BY <1>3, <1>4, <1>5

LEMMA SigStep ==
  ASSUME SigInv, [Next]_vars
  PROVE  SigInv'
<1>1. CASE UNCHANGED vars
  BY <1>1 DEF vars, SigInv, FramesOK, MaskRestored, TakenUnblocked, Taking, Handling
<1> QED BY <1>1, CallStep, TickStep, ClearStep, DeliverStep, HandlerReturnsStep,
           TickReturnsStep DEF Next, Delivery

-----------------------------------------------------------------------------
(* The theorems *)

LEMMA Inductive == Spec => []SigInv
<1>1. SigInv /\ [Next]_vars => SigInv'
  BY SigStep
<1> QED BY SigInit, <1>1, PTL DEF Spec

\* However deep ticks nest, and whatever handlers do to the mask, the mask is
\* what the program asked for once the handlers have returned.
THEOREM MaskComesBack == Spec => []MaskRestored
<1>1. SigInv => MaskRestored
  BY DEF SigInv
<1> QED BY Inductive, <1>1, PTL

\* No handler starts while its signal is blocked, although the mask was looked
\* at with interrupts on and other deliveries may have come in between.
THEOREM NoneHandledBlocked == Spec => BlockedNotHandled
<1>1. ASSUME SigInv, [Next]_vars, NEW g \in Sig, Starts(g)
      PROVE  g \notin blocked
  <2>1. ~UNCHANGED ticks /\ Len(ticks') = Len(ticks) /\ ticks # <<>> /\ Last(ticks).at = "start"
    BY <1>1 DEF Starts, Last
  <2>2. Deliver
    <3>1. Next
      BY <1>1, <2>1 DEF vars
    <3>2. ~Tick /\ ~TickReturns
      <4>1. Tick => Len(ticks') = Len(ticks) + 1
        BY <1>1, TickPushes, Pushed DEF SigInv
      <4>2. TickReturns => Len(ticks') = Len(ticks) - 1
        BY <1>1, Popped DEF SigInv, TickReturns
      <4>3. Len(ticks) \in Nat
        BY <1>1 DEF SigInv, FramesOK
      <4> QED BY <2>1, <4>1, <4>2, <4>3
    <3>3. ~Clear /\ ~HandlerReturns
      BY <2>1 DEF Clear, HandlerReturns, InHandler
    <3>4. ~Call /\ ~Sleeping /\ ~ScanTimeouts /\ \A h \in Sig : ~RaisedByOther(h)
      BY <2>1 DEF Call, RtSigaction, RtSigprocmask, RaiseSelf, CallSleep, Sleeping, SleepTest,
                  SleepPark, Unpark, ScanTimeouts, RaisedByOther, Goto
    <3> QED BY <3>1, <3>2, <3>3, <3>4 DEF Next, Delivery
  <2>3. Last(ticks).sig = g
    <3>1. /\ Len(ticks) \in DOMAIN ticks /\ Last(ticks) \in Frame
          /\ Last(ticks') = ticks'[Len(ticks)] /\ Last(ticks').sig = g
      BY <1>1, <2>1, TopFrame DEF SigInv, Last, Starts
    <3>2. ticks'[Len(ticks)].sig = Last(ticks).sig
      BY <2>1, <2>2, <3>1 DEF Deliver, Advance, Frame
    <3> QED BY <3>1, <3>2
  <2>4. TakenUnblocked /\ Taking(Len(ticks)) /\ Len(ticks) \in DOMAIN ticks
        /\ ticks[Len(ticks)].sig = g
    BY <1>1, <2>1, <2>3, TopFrame DEF SigInv, Taking
  <2> QED BY <1>1, <2>4 DEF TakenUnblocked, SigInv, FramesOK
<1>2. SigInv /\ [Next]_vars => [\A g \in Sig : Starts(g) => g \notin blocked]_vars
  BY <1>1
<1> QED BY Inductive, <1>2, PTL DEF Spec, BlockedNotHandled

=============================================================================
