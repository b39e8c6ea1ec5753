--------------------------- MODULE PipelineProofs ---------------------------
(***************************************************************************)
(* Proofs about Pipeline for every number of load balancers and fast path  *)
(* threads, every capacity of their queues, every hash and every capture:  *)
(* first the threads and the queues, then the packets that pass them.      *)
(***************************************************************************)
EXTENDS Pipeline, Functions, CountingProofs, TLAPS

(* The assumptions on the constants in the form the steps use. *)
LEMMA ConstantFacts ==
    /\ NumLBs \in Nat /\ FPsPerLB \in Nat /\ NumFPs \in Nat
    /\ LBCap \in Nat \ {0} /\ FPCap \in Nat \ {0} /\ OutCap \in Nat \ {0}
    /\ Captures \subseteq Seq(Flows \cup {Junk})
BY LayoutAssumption, CapAssumption, CaptureAssumption DEF NumFPs

(* A queue that admits a push has its type and its bound afterwards. *)
LEMMA PushKeepsBound ==
    ASSUME NEW q \in Seq(Nat), NEW cap \in Nat, NEW shut \in BOOLEAN, NEW p \in Nat,
           Len(q) <= cap, PushReturns(q, cap, shut)
    PROVE  Pushed(q, shut, p) \in Seq(Nat) /\ Len(Pushed(q, shut, p)) <= cap
BY DEF PushReturns, Pushed

-----------------------------------------------------------------------------
(* Type correctness *)

(* The state in which main() starts the threads has its types. *)
LEMMA InitType == Init => TypeOK
<1> SUFFICES ASSUME Init PROVE TypeOK
  OBVIOUS
<1>1. MainTypes
  <2>1. capture \in Captures /\ capture \in Seq(Flows \cup {Junk})
    BY ConstantFacts DEF Init
  <2>2. 0 \in 0..Len(capture)
    BY <2>1
  <2> QED
    BY <2>1, <2>2 DEF Init, MainTypes
<1>2. LBTypes
  BY ConstantFacts DEF Init, LBTypes
<1>3. FPTypes
  BY ConstantFacts DEF Init, FPTypes
<1>4. OutTypes
  <2>1. <<>> \in Seq(Nat) /\ Len(<<>>) <= OutCap
    BY ConstantFacts
  <2> QED
    BY <2>1 DEF Init, OutTypes
<1> QED
  BY <1>1, <1>2, <1>3, <1>4 DEF TypeOK

(* Variables that stay as they are keep their types. *)
LEMMA MainFrame == MainTypes /\ UNCHANGED mainVars => MainTypes'
BY DEF MainTypes, mainVars
(* The three parts of the type invariant depend on their stage alone. *)
LEMMA LBFrame == LBTypes /\ UNCHANGED lbVars => LBTypes'
BY DEF LBTypes, lbVars
LEMMA FPFrame == FPTypes /\ UNCHANGED fpVars => FPTypes'
BY DEF FPTypes, fpVars
LEMMA OutFrame == OutTypes /\ UNCHANGED outVars => OutTypes'
BY DEF OutTypes, outVars

(* Each step of the main thread keeps its own variables' types. *)
LEMMA MainKeepsMain == TypeOK /\ (MainStep \/ DrainTimeout) => MainTypes'
<1> SUFFICES ASSUME MainTypes, MainStep \/ DrainTimeout PROVE MainTypes'
  BY DEF TypeOK
<1>0. NumLBs \in Nat /\ NumFPs \in Nat
  BY ConstantFacts
<1> USE DEF MainTypes
<1>1. CASE ReadPacket
  <2>1. capture \in Seq(Flows \cup {Junk})
    BY ConstantFacts
  <2> QED
    BY <1>1, <2>1 DEF ReadPacket
<1>2. CASE PushToLB \/ EndOfFile
  BY <1>2 DEF PushToLB, EndOfFile
<1>3. CASE DrainLBs \/ DrainFPs
  BY <1>3 DEF DrainLBs, DrainFPs, Goto
<1>4. CASE StopLB \/ ShutLB \/ JoinLB
  BY <1>0, <1>4 DEF StopLB, ShutLB, JoinLB, Goto, LBs
<1>5. CASE StopFP \/ ShutFP \/ JoinFP
  BY <1>0, <1>5 DEF StopFP, ShutFP, JoinFP, Goto, FPs
<1>6. CASE StopOutput \/ ShutOutput \/ JoinOutput
  BY <1>6 DEF StopOutput, ShutOutput, JoinOutput, Goto
<1>7. CASE DrainTimeout
  BY <1>7 DEF DrainTimeout
<1> QED
  BY <1>1, <1>2, <1>3, <1>4, <1>5, <1>6, <1>7 DEF MainStep

(* It keeps the types of the other threads' variables: it fills the LB     *)
(* queues and sets the flags that stop the threads.                        *)
LEMMA MainKeepsOthers ==
    TypeOK /\ (MainStep \/ DrainTimeout) => LBTypes' /\ FPTypes' /\ OutTypes'
<1> SUFFICES ASSUME MainTypes, LBTypes, FPTypes, OutTypes, MainStep \/ DrainTimeout
             PROVE  LBTypes' /\ FPTypes' /\ OutTypes'
  BY DEF TypeOK
<1>1. CASE PushToLB
  <2> DEFINE l == LBOf(pos)
  <2>1. pos \in Nat
    <3>1. capture \in Seq(Flows \cup {Junk})
      BY ConstantFacts DEF MainTypes
    <3> QED
      BY <3>1 DEF MainTypes
  <2>2. l \in LBs => /\ Pushed(lbq[l], lbshut[l], pos) \in Seq(Nat)
                     /\ Len(Pushed(lbq[l], lbshut[l], pos)) <= LBCap
    BY <1>1, <2>1, PushKeepsBound, ConstantFacts DEF PushToLB, LBTypes
  <2>3. lbq' \in [LBs -> Seq(Nat)] /\ \A k \in LBs : Len(lbq'[k]) <= LBCap
    BY <1>1, <2>2 DEF PushToLB, LBTypes
  <2>4. LBTypes'
    BY <1>1, <2>3 DEF PushToLB, LBTypes
  <2> QED
    BY <1>1, <2>4, FPFrame, OutFrame DEF PushToLB
<1>2. CASE ReadPacket \/ EndOfFile \/ DrainTimeout
  BY <1>2, LBFrame, FPFrame, OutFrame DEF ReadPacket, EndOfFile, DrainTimeout
<1>3. CASE DrainLBs \/ DrainFPs \/ JoinLB \/ JoinFP \/ JoinOutput
  BY <1>3, LBFrame, FPFrame, OutFrame DEF DrainLBs, DrainFPs, JoinLB, JoinFP, JoinOutput
<1>4. CASE StopLB \/ ShutLB
  <2>1. LBTypes'
    BY <1>4 DEF StopLB, ShutLB, LBTypes
  <2> QED
    BY <1>4, <2>1, FPFrame, OutFrame DEF StopLB, ShutLB
<1>5. CASE StopFP \/ ShutFP
  <2>1. FPTypes'
    BY <1>5 DEF StopFP, ShutFP, FPTypes
  <2> QED
    BY <1>5, <2>1, LBFrame, OutFrame DEF StopFP, ShutFP
<1>6. CASE StopOutput \/ ShutOutput
  <2>1. OutTypes'
    BY <1>6 DEF StopOutput, ShutOutput, OutTypes
  <2> QED
    BY <1>6, <2>1, LBFrame, FPFrame DEF StopOutput, ShutOutput
<1> QED
  BY <1>1, <1>2, <1>3, <1>4, <1>5, <1>6 DEF MainStep

(* Each step of a load balancer keeps the types. *)
LEMMA LBKeepsTypes == ASSUME TypeOK, NEW l \in LBs, LBStep(l) PROVE TypeOK'
<1> SUFFICES LBTypes' /\ FPTypes'
  BY MainFrame, OutFrame DEF TypeOK, LBStep, LBCheck, LBPop, LBNoJob, LBPush
<1> USE DEF TypeOK
<1>1. CASE LBCheck(l) \/ LBNoJob(l)
  <2>1. LBTypes'
    BY <1>1 DEF LBCheck, LBNoJob, LBTypes
  <2> QED
    BY <1>1, <2>1, FPFrame DEF LBCheck, LBNoJob
<1>2. CASE LBPop(l)
  <2>1. /\ Head(lbq[l]) \in Nat /\ Tail(lbq[l]) \in Seq(Nat)
        /\ Len(Tail(lbq[l])) <= LBCap
    BY <1>2, ConstantFacts DEF LBPop, LBTypes
  <2>2. lbq' \in [LBs -> Seq(Nat)] /\ \A k \in LBs : Len(lbq'[k]) <= LBCap
    BY <1>2, <2>1 DEF LBPop, LBTypes
  <2>3. LBTypes'
    BY <1>2, <2>1, <2>2 DEF LBPop, LBTypes
  <2> QED
    BY <1>2, <2>3, FPFrame DEF LBPop
<1>3. CASE LBPush(l)
  <2> DEFINE f == SelectFP(l, ljob[l])
  <2>1. f \in FPs => /\ Pushed(fpq[f], fpshut[f], ljob[l]) \in Seq(Nat)
                     /\ Len(Pushed(fpq[f], fpshut[f], ljob[l])) <= FPCap
    BY <1>3, PushKeepsBound, ConstantFacts DEF LBPush, LBTypes, FPTypes
  <2>2. fpq' \in [FPs -> Seq(Nat)] /\ \A g \in FPs : Len(fpq'[g]) <= FPCap
    BY <1>3, <2>1 DEF LBPush, FPTypes
  <2>3. FPTypes'
    BY <1>3, <2>2 DEF LBPush, FPTypes
  <2>4. LBTypes'
    BY <1>3 DEF LBPush, LBTypes
  <2> QED
    BY <2>3, <2>4
<1> QED
  BY <1>1, <1>2, <1>3 DEF LBStep

(* Each step of a fast path thread keeps the types. *)
LEMMA FPKeepsTypes == ASSUME TypeOK, NEW f \in FPs, FPStep(f) PROVE TypeOK'
<1> SUFFICES FPTypes' /\ OutTypes'
  BY MainFrame, LBFrame DEF TypeOK, FPStep, FPCheck, FPPop, FPNoJob, FPDrop, FPForward, FPEmit
<1> USE DEF TypeOK
<1>1. CASE FPCheck(f) \/ FPNoJob(f) \/ FPForward(f)
  <2>1. CASE FPCheck(f) \/ FPNoJob(f)
    BY <1>1, <2>1, OutFrame DEF FPCheck, FPNoJob, FPTypes
  <2>2. CASE FPForward(f)
    BY <1>1, <2>2, OutFrame DEF FPForward, FPTypes
  <2> QED
    BY <1>1, <2>1, <2>2
<1>4. CASE FPDrop(f)
  <2>1. dropped' \subseteq Nat
    BY <1>4 DEF FPDrop, FPTypes
  <2>2. FPTypes'
    BY <1>4, <2>1 DEF FPDrop, FPTypes
  <2> QED
    BY <1>4, <2>2, OutFrame DEF FPDrop
<1>2. CASE FPPop(f)
  <2>1. /\ Head(fpq[f]) \in Nat /\ Tail(fpq[f]) \in Seq(Nat)
        /\ Len(Tail(fpq[f])) <= FPCap
    BY <1>2, ConstantFacts DEF FPPop, FPTypes
  <2>2. fpq' \in [FPs -> Seq(Nat)] /\ \A g \in FPs : Len(fpq'[g]) <= FPCap
    BY <1>2, <2>1 DEF FPPop, FPTypes
  <2>3. FPTypes'
    BY <1>2, <2>1, <2>2 DEF FPPop, FPTypes
  <2> QED
    BY <1>2, <2>3, OutFrame DEF FPPop
<1>3. CASE FPEmit(f)
  <2>1. outq' \in Seq(Nat) /\ Len(outq') <= OutCap
    BY <1>3, PushKeepsBound, ConstantFacts DEF FPEmit, FPTypes, OutTypes
  <2>2. OutTypes'
    BY <1>3, <2>1 DEF FPEmit, OutTypes
  <2>3. FPTypes'
    BY <1>3 DEF FPEmit, FPTypes
  <2> QED
    BY <2>2, <2>3
<1> QED
  BY <1>1, <1>2, <1>3, <1>4 DEF FPStep

(* Each step of the output thread keeps the types. *)
LEMMA OutKeepsTypes == TypeOK /\ OutStep => TypeOK'
<1> SUFFICES ASSUME TypeOK, OutStep PROVE OutTypes'
  BY MainFrame, LBFrame, FPFrame DEF TypeOK, OutStep, OutCheck, OutPop, OutNoJob, OutWrite
<1> USE DEF TypeOK, OutTypes
<1>1. CASE OutCheck \/ OutNoJob
  BY <1>1 DEF OutCheck, OutNoJob
<1>3. CASE OutWrite
  <2>1. written' \in Seq(Nat)
    BY <1>3 DEF OutWrite
  <2> QED
    BY <1>3, <2>1 DEF OutWrite
<1>2. CASE OutPop
  <2>1. Head(outq) \in Nat /\ Tail(outq) \in Seq(Nat) /\ Len(Tail(outq)) <= OutCap
    BY <1>2, ConstantFacts DEF OutPop
  <2> QED
    BY <1>2, <2>1 DEF OutPop
<1> QED
  BY <1>1, <1>2, <1>3 DEF OutStep

(* Every step keeps the types. *)
LEMMA NextType == TypeOK /\ [Next]_vars => TypeOK'
<1> SUFFICES ASSUME TypeOK, [Next]_vars PROVE TypeOK'
  OBVIOUS
<1>1. CASE UNCHANGED vars
  BY <1>1, MainFrame, LBFrame, FPFrame, OutFrame DEF vars, TypeOK
<1>2. CASE MainStep \/ DrainTimeout
  BY <1>2, MainKeepsMain, MainKeepsOthers DEF TypeOK
<1> QED
  BY <1>1, <1>2, LBKeepsTypes, FPKeepsTypes, OutKeepsTypes DEF Next, Finished

(* In every behaviour of the engine the variables keep their types and no  *)
(* queue grows beyond its max_size.                                        *)
THEOREM TypeCorrect == Spec => []TypeOK
BY InitType, NextType, PTL DEF Spec

-----------------------------------------------------------------------------
(* The order of the shutdown *)

(* Where main() stands after the LBs, after the FPs were stopped. *)
AfterLBs == {"drainFP", "stopFP", "shutFP", "joinFP", "stopOut", "shutOut", "joinOut", "done"}
AfterFPs == {"stopOut", "shutOut", "joinOut", "done"}

(* What main() has established at each of its steps.  NoPushIntoShutQueue  *)
(* alone is not inductive: it does not say that the loops that stop the    *)
(* threads go through all of them before the next stage is touched.        *)
StopOrder ==
    /\ \A l \in LBs : lbshut[l] => mpc \notin {"read", "push", "drainLB"}
    /\ mpc \in {"stopLB", "shutLB", "joinLB"} => \A l \in LBs : l < mi => lpc[l] = "exit"
    /\ mpc \in AfterLBs => \A l \in LBs : lpc[l] = "exit"
    /\ \A f \in FPs : fpshut[f] => mpc \in AfterLBs
    /\ mpc \in {"stopFP", "shutFP", "joinFP"} => \A f \in FPs : f < mi => fpc[f] = "exit"
    /\ mpc \in AfterFPs => \A f \in FPs : fpc[f] = "exit"
    /\ outshut => mpc \in AfterFPs

(* The main thread advances only as the order says. *)
LEMMA MainKeepsOrder == TypeOK /\ StopOrder /\ (MainStep \/ DrainTimeout) => StopOrder'
<1> SUFFICES ASSUME MainTypes, LBTypes, FPTypes, StopOrder, MainStep \/ DrainTimeout
             PROVE  StopOrder'
  BY DEF TypeOK
<1>0. NumLBs \in Nat /\ NumFPs \in Nat
  BY ConstantFacts
<1> USE DEF StopOrder, AfterLBs, AfterFPs
<1>1. CASE ReadPacket \/ PushToLB \/ EndOfFile
  BY <1>1 DEF ReadPacket, PushToLB, EndOfFile, lbVars, fpVars, outVars
<1>2. CASE DrainLBs \/ DrainTimeout
  BY <1>2 DEF DrainLBs, DrainTimeout, Goto, lbVars, fpVars, outVars, MainTypes, LBs
<1>3. CASE StopLB
  BY <1>0, <1>3 DEF StopLB, Goto, fpVars, outVars, MainTypes, LBs
<1>4. CASE ShutLB
  BY <1>4 DEF ShutLB, Goto, fpVars, outVars, MainTypes
<1>5. CASE JoinLB
  BY <1>5 DEF JoinLB, Goto, lbVars, fpVars, outVars, MainTypes, LBs
<1>6. CASE DrainFPs
  BY <1>6 DEF DrainFPs, Goto, lbVars, fpVars, outVars, FPs
<1>7. CASE StopFP
  BY <1>0, <1>7 DEF StopFP, Goto, lbVars, outVars, MainTypes, FPs
<1>8. CASE ShutFP
  BY <1>8 DEF ShutFP, Goto, lbVars, outVars, MainTypes
<1>9. CASE JoinFP
  BY <1>9 DEF JoinFP, Goto, lbVars, fpVars, outVars, MainTypes, FPs
<1>10. CASE StopOutput \/ ShutOutput \/ JoinOutput
  BY <1>10 DEF StopOutput, ShutOutput, JoinOutput, Goto, lbVars, fpVars, outVars
<1> QED
  BY <1>1, <1>2, <1>3, <1>4, <1>5, <1>6, <1>7, <1>8, <1>9, <1>10 DEF MainStep

(* A worker that has ended stays ended, and no worker shuts a queue. *)
LEMMA WorkersKeepOrder ==
    ASSUME TypeOK, StopOrder,
           (\E l \in LBs : LBStep(l)) \/ (\E f \in FPs : FPStep(f)) \/ OutStep
    PROVE  StopOrder'
<1>1. /\ mpc' = mpc /\ mi' = mi /\ lbshut' = lbshut /\ fpshut' = fpshut /\ outshut' = outshut
      /\ \A l \in LBs : lpc[l] = "exit" => lpc'[l] = "exit"
      /\ \A f \in FPs : fpc[f] = "exit" => fpc'[f] = "exit"
  <2>1. CASE \E l \in LBs : LBStep(l)
    BY <2>1 DEF TypeOK, LBTypes, LBStep, LBCheck, LBPop, LBNoJob, LBPush, mainVars, fpVars, outVars
  <2>2. CASE \E f \in FPs : FPStep(f)
    BY <2>2 DEF TypeOK, FPTypes, FPStep, FPCheck, FPPop, FPNoJob, FPDrop, FPForward, FPEmit,
                mainVars, lbVars, outVars
  <2>3. CASE OutStep
    BY <2>3 DEF OutStep, OutCheck, OutPop, OutNoJob, OutWrite, mainVars, lbVars, fpVars
  <2> QED
    BY <2>1, <2>2, <2>3
<1> QED
  BY <1>1 DEF StopOrder

(* Every step keeps the order of the shutdown. *)
LEMMA NextOrder == TypeOK /\ StopOrder /\ [Next]_vars => StopOrder'
<1> SUFFICES ASSUME TypeOK, StopOrder, [Next]_vars PROVE StopOrder'
  OBVIOUS
<1>1. CASE UNCHANGED vars
  BY <1>1 DEF vars, mainVars, lbVars, fpVars, outVars, StopOrder
<1> QED
  BY <1>1, MainKeepsOrder, WorkersKeepOrder DEF Next, Finished

(* For any number of threads on each stage: no thread ever pushes into a   *)
(* queue that was shut down, so push() never leaves a packet out.          *)
THEOREM NoPushIsRefused == Spec => []NoPushIntoShutQueue
<1>1. Init => StopOrder
  BY DEF Init, StopOrder, AfterLBs, AfterFPs
<1>2. TypeOK /\ StopOrder => NoPushIntoShutQueue
  BY DEF TypeOK, MainTypes, StopOrder, AfterLBs, AfterFPs, NoPushIntoShutQueue
<1> QED
  BY <1>1, <1>2, TypeCorrect, NextOrder, PTL DEF Spec

-----------------------------------------------------------------------------
(* The packets: where they are, in which order, and what becomes of them.  *)

(* The packets at each place.  A hand is a job a thread has popped.        *)
AtReader == {p \in {pos} : mpc = "push"}
InLBs    == UNION {Range(lbq[l]) : l \in LBs}
LBHands  == {ljob[l] : l \in {k \in LBs : lpc[k] = "push"}}
InFPs    == UNION {Range(fpq[f]) : f \in FPs}
FPHands  == {fjob[f] : f \in {g \in FPs : fpc[g] \in {"process", "emit"}}}
Emitting == {fjob[f] : f \in {g \in FPs : fpc[g] = "emit"}}
InOut    == Range(outq)
OutHand  == {p \in {ojob} : opc = "write"}
InFile   == Range(written)

(* The packets that have come at least so far. *)
Taken     == InFile \cup OutHand
Sent      == Taken \cup InOut
Forwarded == Sent \cup Emitting
Processed == Sent \cup dropped
Popped    == Processed \cup FPHands
Delivered == Popped \cup InFPs
Routed    == Delivered \cup LBHands
Queued    == Routed \cup InLBs

(* The FP that handles a packet. *)
FPOf == [p \in DOMAIN capture |-> SelectFP(LBOf(p), p)]

(* In q the packets of one FP are in the order of the capture. *)
SortedBy(q, fp) == \A i, j \in DOMAIN q : i < j /\ fp[q[i]] = fp[q[j]] => q[i] < q[j]

(* Of the packets in U, none is left behind by a later one of the same FP. *)
Closed(S, U, fp) == \A p \in S, q \in U : q < p /\ fp[q] = fp[p] => q \in S

(* Each thread holds packets of its own only, in order. *)
LBOwns == \A l \in LBs :
             /\ SortedBy(lbq[l], FPOf)
             /\ \A p \in Range(lbq[l]) : LBOf(p) = l
             /\ IF lpc[l] = "push" THEN LBOf(ljob[l]) = l ELSE ljob[l] = 0
FPOwns == \A f \in FPs :
             /\ SortedBy(fpq[f], FPOf)
             /\ \A p \in Range(fpq[f]) : FPOf[p] = f
             /\ IF fpc[f] \in {"process", "emit"} THEN FPOf[fjob[f]] = f ELSE fjob[f] = 0
OutOwns == /\ SortedBy(outq, FPOf)
           /\ \A i, j \in DOMAIN written : written[i] = written[j] => i = j
           /\ IF opc = "write" THEN TRUE ELSE ojob = 0

(* Every packet is somewhere, and no place has one that is further on.     *)
Everywhere == Accepted = Queued \cup AtReader
Apart == /\ AtReader \cap Queued = {}
         /\ InLBs \cap Routed = {}
         /\ LBHands \cap Delivered = {}
         /\ InFPs \cap Popped = {}
         /\ FPHands \cap Processed = {}
         /\ dropped \cap Sent = {}
         /\ InOut \cap Taken = {}
         /\ OutHand \cap InFile = {}

(* No packet is overtaken by one of its own FP. *)
InOrder == /\ Closed(Queued, Accepted, FPOf) /\ Closed(Routed, Accepted, FPOf)
           /\ Closed(Delivered, Accepted, FPOf) /\ Closed(Popped, Accepted, FPOf)
           /\ Closed(Processed, Accepted, FPOf)
           /\ Closed(Sent, Forwarded, FPOf) /\ Closed(Taken, Forwarded, FPOf)
           /\ Closed(InFile, Forwarded, FPOf)

PacketInv == LBOwns /\ FPOwns /\ OutOwns /\ Everywhere /\ Apart /\ InOrder

-----------------------------------------------------------------------------
(* Queues *)

(* What an appended sequence holds. *)
LEMMA AppendRange ==
    ASSUME NEW q \in Seq(Nat), NEW p \in Nat
    PROVE  Range(Append(q, p)) = Range(q) \cup {p}
<1>1. \A x : x \in Range(Append(q, p)) <=> x \in Range(q) \cup {p}
  <2> TAKE x
  <2>1. ASSUME NEW i \in 1..(Len(q) + 1), x = Append(q, p)[i] PROVE x \in Range(q) \cup {p}
    BY <2>1 DEF Range
  <2>2. ASSUME NEW i \in 1..Len(q), x = q[i] PROVE x \in Range(Append(q, p))
    <3>1. i \in DOMAIN Append(q, p) /\ Append(q, p)[i] = x
      BY <2>2
    <3> QED
      BY <3>1 DEF Range
  <2>3. p \in Range(Append(q, p))
    <3>1. Len(q) + 1 \in DOMAIN Append(q, p) /\ Append(q, p)[Len(q) + 1] = p
      OBVIOUS
    <3> QED
      BY <3>1 DEF Range
  <2> QED
    BY <2>1, <2>2, <2>3 DEF Range
<1> QED
  BY <1>1

(* Append keeps the order when p comes after all of its FP. *)
LEMMA AppendSorted ==
    ASSUME NEW q \in Seq(Nat), NEW p \in Nat, NEW fp, SortedBy(q, fp),
           \A x \in Range(q) : fp[x] = fp[p] => x < p
    PROVE  SortedBy(Append(q, p), fp)
<1>1. \A i \in 1..Len(q) : q[i] \in Range(q) /\ Append(q, p)[i] = q[i]
  BY DEF Range
<1>2. DOMAIN Append(q, p) = 1..(Len(q) + 1) /\ Append(q, p)[Len(q) + 1] = p
  OBVIOUS
<1> SUFFICES ASSUME NEW i \in 1..(Len(q) + 1), NEW j \in 1..(Len(q) + 1), i < j,
                    fp[Append(q, p)[i]] = fp[Append(q, p)[j]]
             PROVE  Append(q, p)[i] < Append(q, p)[j]
  BY <1>2 DEF SortedBy
<1>3. i \in 1..Len(q)
  OBVIOUS
<1>4. CASE j \in 1..Len(q)
  BY <1>1, <1>3, <1>4 DEF SortedBy
<1>5. CASE j = Len(q) + 1
  BY <1>1, <1>2, <1>3, <1>5
<1> QED
  BY <1>4, <1>5

(* Taking the head leaves the others, still in order; of its FP the head   *)
(* is the first.                                                           *)
LEMMA PopResult ==
    ASSUME NEW q \in Seq(Nat), q # <<>>, NEW fp, SortedBy(q, fp)
    PROVE  /\ Head(q) \in Range(q)
           /\ Range(Tail(q)) = Range(q) \ {Head(q)}
           /\ \A x \in Range(Tail(q)) : fp[x] = fp[Head(q)] => Head(q) < x
           /\ SortedBy(Tail(q), fp)
<1> DEFINE t == Tail(q)
<1>1. /\ Len(q) \in Nat /\ Len(q) > 0 /\ DOMAIN q = 1..Len(q)
      /\ Head(q) = q[1] /\ 1 \in DOMAIN q /\ \A i \in DOMAIN q : q[i] \in Nat
      /\ DOMAIN t = 1..(Len(q) - 1)
      /\ \A i \in 1..(Len(q) - 1) : t[i] = q[i + 1]
  OBVIOUS
<1> HIDE DEF t
<1>2. Head(q) \in Range(q)
  BY <1>1 DEF Range
<1>3. ASSUME NEW x \in Range(t)
      PROVE  x \in Range(q) /\ x # Head(q) /\ (fp[x] = fp[Head(q)] => Head(q) < x)
  <2>1. PICK i \in 1..(Len(q) - 1) : x = q[i + 1]
    BY <1>1 DEF Range
  <2>2. i + 1 \in 1..Len(q) /\ 1 \in 1..Len(q) /\ 1 < i + 1
    BY <1>1
  <2>3. fp[x] = fp[Head(q)] => Head(q) < x
    BY <1>1, <2>1, <2>2 DEF SortedBy
  <2>4. x \in Range(q) /\ x \in Nat /\ Head(q) \in Nat
    BY <1>1, <2>1, <2>2 DEF Range
  <2>5. ~(Head(q) < Head(q))
    BY <2>4
  <2> QED
    BY <2>3, <2>4, <2>5
<1>4. ASSUME NEW x \in Range(q), x # Head(q) PROVE x \in Range(t)
  <2>1. PICK j \in 1..Len(q) : x = q[j]
    BY <1>1 DEF Range
  <2>2. j - 1 \in 1..(Len(q) - 1) /\ t[j - 1] = x
    BY <1>1, <1>4, <2>1
  <2> QED
    BY <1>1, <2>2 DEF Range
<1>5. SortedBy(t, fp)
  <2>1. ASSUME NEW i \in DOMAIN t, NEW j \in DOMAIN t, i < j, fp[t[i]] = fp[t[j]]
        PROVE  t[i] < t[j]
    <3>1. t[i] = q[i + 1] /\ t[j] = q[j + 1]
      BY <1>1
    <3>2. i + 1 \in DOMAIN q /\ j + 1 \in DOMAIN q /\ i + 1 < j + 1
      BY <1>1, <2>1
    <3> QED
      BY <2>1, <3>1, <3>2 DEF SortedBy
  <2> QED
    BY <2>1 DEF SortedBy
<1>6. Range(t) = Range(q) \ {Head(q)}
  BY <1>3, <1>4
<1> QED
  BY <1>2, <1>3, <1>5, <1>6 DEF t

-----------------------------------------------------------------------------
(* The dispatch *)

(* The slices of the FP queues that LBManager hands out do not overlap:    *)
(* slice a ends before slice b begins.                                     *)
LEMMA SlicesApart ==
    ASSUME NEW n \in Nat, NEW a \in Nat, NEW b \in Nat, a < b
    PROVE  a * n + n <= b * n
<1>1. PICK d \in Nat : b = a + 1 + d
  <2>1. b - a - 1 \in Nat /\ b = a + 1 + (b - a - 1)
    OBVIOUS
  <2> QED
    BY <2>1
<1>2. b * n = a * n + n + d * n
  BY <1>1
<1>3. d * n \in Nat /\ a * n \in Nat
  OBVIOUS
<1> QED
  BY <1>2, <1>3

(* Every packet the reader accepts has a load balancer and, in its slice,  *)
(* a fast path thread; the thread determines the load balancer.            *)
LEMMA Dispatch ==
    ASSUME TypeOK
    PROVE  /\ Accepted \subseteq Nat \ {0} /\ Accepted \subseteq DOMAIN capture
           /\ \A p \in Accepted : LBOf(p) \in LBs /\ FPOf[p] \in FPs
           /\ \A p \in Accepted : FPOf[p] = SelectFP(LBOf(p), p)
           /\ \A p, q \in Accepted : FPOf[p] = FPOf[q] => LBOf(p) = LBOf(q)
<1> USE DEF TypeOK
<1>1. capture \in Seq(Flows \cup {Junk}) /\ pos \in 0..Len(capture)
  BY ConstantFacts DEF MainTypes
<1>2. Accepted \subseteq Nat \ {0} /\ Accepted \subseteq DOMAIN capture
  BY <1>1 DEF Accepted
<1>3. ASSUME NEW p \in Accepted
      PROVE  /\ LBOf(p) \in Nat /\ LBOf(p) < NumLBs
             /\ \E r \in Nat : r < FPsPerLB /\ FPOf[p] = LBOf(p) * FPsPerLB + r
  <2>1. Hash[capture[p]] \in Nat
    BY <1>1, <1>2, HashAssumption DEF Accepted
  <2>2. /\ LBOf(p) \in Nat /\ LBOf(p) < NumLBs
        /\ Hash[capture[p]] % FPsPerLB \in Nat /\ Hash[capture[p]] % FPsPerLB < FPsPerLB
    BY <2>1, LayoutAssumption DEF LBOf
  <2>3. FPOf[p] = LBOf(p) * FPsPerLB + (Hash[capture[p]] % FPsPerLB)
    BY <1>2 DEF FPOf, SelectFP
  <2> QED
    BY <2>2, <2>3
<1>4. ASSUME NEW p \in Accepted PROVE LBOf(p) \in LBs /\ FPOf[p] \in FPs
  <2>1. PICK r \in Nat : r < FPsPerLB /\ FPOf[p] = LBOf(p) * FPsPerLB + r
    BY <1>3
  <2>2. LBOf(p) * FPsPerLB + FPsPerLB <= NumLBs * FPsPerLB
    BY <1>3, SlicesApart, LayoutAssumption
  <2>3. LBOf(p) * FPsPerLB \in Nat /\ NumFPs \in Nat /\ NumFPs = NumLBs * FPsPerLB
    BY <1>3, LayoutAssumption DEF NumFPs
  <2>4. FPOf[p] \in FPs
    BY <2>1, <2>2, <2>3, LayoutAssumption DEF FPs
  <2> QED
    BY <1>3, <2>4, LayoutAssumption DEF LBs
<1>5. ASSUME NEW p \in Accepted, NEW q \in Accepted, FPOf[p] = FPOf[q]
      PROVE  ~(LBOf(p) < LBOf(q))
  <2> DEFINE x == LBOf(p) * FPsPerLB
             y == LBOf(q) * FPsPerLB
  <2>1. PICK r \in Nat : r < FPsPerLB /\ FPOf[p] = x + r
    BY <1>3
  <2>2. PICK s \in Nat : FPOf[q] = y + s
    BY <1>3
  <2>3. x \in Nat /\ y \in Nat /\ FPsPerLB \in Nat
    BY <1>3, LayoutAssumption
  <2>4. LBOf(p) < LBOf(q) => x + FPsPerLB <= y
    BY <1>3, SlicesApart, LayoutAssumption
  <2>5. x + r = y + s
    BY <1>5, <2>1, <2>2
  <2> HIDE DEF x, y
  <2> QED
    BY <2>1, <2>3, <2>4, <2>5
<1>6. \A p, q \in Accepted : FPOf[p] = FPOf[q] => LBOf(p) = LBOf(q)
  BY <1>3, <1>5
<1>7. \A p \in Accepted : FPOf[p] = SelectFP(LBOf(p), p)
  BY <1>2 DEF FPOf
<1> QED
  BY <1>2, <1>4, <1>6, <1>7

-----------------------------------------------------------------------------
(* The steps that move no packet *)

(* A packet in a queue or in a hand is one the reader accepted. *)
LEMMA Placed ==
    ASSUME PacketInv
    PROVE  /\ Queued \subseteq Accepted /\ Routed \subseteq Queued
           /\ Delivered \subseteq Routed /\ Popped \subseteq Delivered
           /\ Processed \subseteq Popped /\ Sent \subseteq Processed
           /\ Taken \subseteq Sent /\ InFile \subseteq Taken
           /\ \A l \in LBs : Range(lbq[l]) \subseteq Accepted
           /\ \A f \in FPs : Range(fpq[f]) \subseteq Accepted
           /\ \A l \in LBs : lpc[l] = "push" => ljob[l] \in LBHands /\ ljob[l] \in Accepted
           /\ \A f \in FPs : fpc[f] \in {"process", "emit"}
                               => fjob[f] \in FPHands /\ fjob[f] \in Accepted
           /\ opc = "write" => ojob \in OutHand /\ ojob \in Accepted
           /\ mpc = "push" => AtReader = {pos} /\ pos \in Accepted
           /\ mpc # "push" => AtReader = {}
<1>1. /\ Queued \subseteq Accepted /\ Routed \subseteq Queued
      /\ Delivered \subseteq Routed /\ Popped \subseteq Delivered
      /\ Processed \subseteq Popped /\ Sent \subseteq Processed
      /\ Taken \subseteq Sent /\ InFile \subseteq Taken /\ AtReader \subseteq Accepted
      /\ InLBs \subseteq Queued /\ LBHands \subseteq Queued /\ InFPs \subseteq Queued
      /\ FPHands \subseteq Queued /\ OutHand \subseteq Queued
  BY DEF PacketInv, Everywhere, Queued, Routed, Delivered, Popped, Processed, Sent, Taken
<1>2. /\ \A l \in LBs : Range(lbq[l]) \subseteq InLBs
      /\ \A f \in FPs : Range(fpq[f]) \subseteq InFPs
  BY DEF InLBs, InFPs
<1>3. /\ \A l \in LBs : lpc[l] = "push" => ljob[l] \in LBHands
      /\ \A f \in FPs : fpc[f] \in {"process", "emit"} => fjob[f] \in FPHands
      /\ opc = "write" => ojob \in OutHand
      /\ mpc = "push" => AtReader = {pos}
      /\ mpc # "push" => AtReader = {}
  BY DEF LBHands, FPHands, OutHand, AtReader
<1> QED
  BY <1>1, <1>2, <1>3

(* The class functions depend on the capture alone. *)
LEMMA SameDispatch == UNCHANGED capture => FPOf' = FPOf /\ \A p : LBOf(p)' = LBOf(p)
BY DEF FPOf, LBOf, SelectFP

(* No packet is moved and no hand changes. *)
Unmoved == /\ UNCHANGED <<capture, pos, lbq, ljob, fpq, fjob, dropped, outq, ojob, written>>
           /\ mpc' = "push" <=> mpc = "push"
           /\ \A l \in LBs : lpc'[l] = "push" <=> lpc[l] = "push"
           /\ \A f \in FPs : (fpc'[f] = "process" <=> fpc[f] = "process")
                          /\ (fpc'[f] = "emit" <=> fpc[f] = "emit")
           /\ opc' = "write" <=> opc = "write"

(* A step that moves no packet and changes no hand keeps the invariant,    *)
(* and what was forwarded.                                                 *)
LEMMA SamePlaces ==
    ASSUME PacketInv, Unmoved
    PROVE  PacketInv' /\ UNCHANGED Forwarded
<1> USE DEF Unmoved
<1>1. FPOf' = FPOf /\ (\A p : LBOf(p)' = LBOf(p)) /\ Accepted' = Accepted
  BY SameDispatch DEF Accepted
<1>2. /\ AtReader' = AtReader /\ InLBs' = InLBs /\ LBHands' = LBHands /\ InFPs' = InFPs
      /\ FPHands' = FPHands /\ Emitting' = Emitting /\ InOut' = InOut /\ OutHand' = OutHand
      /\ InFile' = InFile
  BY DEF AtReader, InLBs, LBHands, InFPs, FPHands, Emitting, InOut, OutHand, InFile
<1>3. LBOwns' /\ FPOwns' /\ OutOwns'
  BY <1>1 DEF PacketInv, LBOwns, FPOwns, OutOwns
<1>4. /\ Taken' = Taken /\ Sent' = Sent /\ Forwarded' = Forwarded /\ Processed' = Processed
      /\ Popped' = Popped /\ Delivered' = Delivered /\ Routed' = Routed /\ Queued' = Queued
  BY <1>2 DEF Taken, Sent, Forwarded, Processed, Popped, Delivered, Routed, Queued
<1>5. Everywhere' /\ Apart' /\ InOrder'
  BY <1>1, <1>2, <1>4 DEF PacketInv, Everywhere, Apart, InOrder
<1> QED
  BY <1>3, <1>4, <1>5 DEF PacketInv

-----------------------------------------------------------------------------
(* The steps that move a packet on *)

(* The reader accepts the next frame of the capture, or skips it. *)
LEMMA ReadKeepsPackets ==
    ASSUME TypeOK, PacketInv, ReadPacket
    PROVE  PacketInv' /\ UNCHANGED Forwarded
<1> DEFINE p == pos + 1
<1>1. /\ capture \in Seq(Flows \cup {Junk}) /\ pos \in 0..Len(capture) /\ AtReader = {}
      /\ \A x \in Accepted : x \in Nat /\ x < p
  BY ConstantFacts, Placed DEF ReadPacket, TypeOK, MainTypes, Accepted
<1>2. /\ UNCHANGED <<capture, lbVars, fpVars, outVars>> /\ pos' = p
      /\ mpc' = IF capture[p] = Junk THEN "read" ELSE "push"
  BY DEF ReadPacket
<1>3. FPOf' = FPOf /\ \A x : LBOf(x)' = LBOf(x)
  BY <1>2, SameDispatch
<1>4. LBOwns' /\ FPOwns' /\ OutOwns'
  BY <1>2, <1>3 DEF PacketInv, LBOwns, FPOwns, OutOwns, lbVars, fpVars, outVars
<1>5. /\ InLBs' = InLBs /\ LBHands' = LBHands /\ InFPs' = InFPs /\ FPHands' = FPHands
      /\ Emitting' = Emitting /\ dropped' = dropped /\ InOut' = InOut /\ OutHand' = OutHand
      /\ InFile' = InFile
  BY <1>2 DEF lbVars, fpVars, outVars, InLBs, LBHands, InFPs, FPHands, Emitting, InOut,
              OutHand, InFile
<1>6. /\ Taken' = Taken /\ Sent' = Sent /\ Forwarded' = Forwarded /\ Processed' = Processed
      /\ Popped' = Popped /\ Delivered' = Delivered /\ Routed' = Routed /\ Queued' = Queued
  BY <1>5 DEF Taken, Sent, Forwarded, Processed, Popped, Delivered, Routed, Queued
<1>7. Accepted' = Accepted \cup AtReader' /\ AtReader' \subseteq {p}
  BY <1>1, <1>2 DEF Accepted, AtReader
<1>8. Everywhere' /\ Apart'
  <2>1. \A x \in Queued : x # p
    BY <1>1, Placed
  <2> QED
    BY <1>1, <1>5, <1>6, <1>7, <2>1 DEF PacketInv, Everywhere, Apart
<1>9. InOrder'
  <2>1. ASSUME NEW S \in SUBSET Accepted, Closed(S, Accepted, FPOf)
        PROVE  Closed(S, Accepted', FPOf)
    <3>1. \A x \in S : ~(p < x)
      BY <1>1
    <3> QED
      BY <1>7, <2>1, <3>1 DEF Closed
  <2> QED
    BY <1>3, <1>5, <1>6, <2>1, Placed DEF PacketInv, InOrder
<1> QED
  BY <1>4, <1>6, <1>8, <1>9 DEF PacketInv

(* The reader's push: the packet goes to the end of its LB's queue. *)
LEMMA PushToLBKeepsPackets ==
    ASSUME TypeOK, StopOrder, PacketInv, PushToLB
    PROVE  PacketInv' /\ UNCHANGED Forwarded
<1> DEFINE l == LBOf(pos)
<1>1. AtReader = {pos} /\ pos \in Accepted /\ pos \in Nat /\ l \in LBs /\ lbq[l] \in Seq(Nat)
  BY Placed, Dispatch DEF PushToLB, TypeOK, LBTypes
<1>2. /\ UNCHANGED <<capture, pos, lpc, ljob, fpVars, outVars>> /\ mpc' = "read"
      /\ lbq' = [lbq EXCEPT ![l] = Append(@, pos)]
  <2>1. ~lbshut[l]
    BY <1>1 DEF PushToLB, StopOrder
  <2> QED
    BY <2>1 DEF PushToLB, Pushed
<1>3. FPOf' = FPOf /\ (\A x : LBOf(x)' = LBOf(x)) /\ Accepted' = Accepted
  BY <1>2, SameDispatch DEF Accepted
<1>4. /\ lbq'[l] = Append(lbq[l], pos) /\ Range(lbq'[l]) = Range(lbq[l]) \cup {pos}
      /\ \A k \in LBs : k # l => lbq'[k] = lbq[k]
  BY <1>1, <1>2, AppendRange DEF TypeOK, LBTypes
<1>5. /\ AtReader' = {} /\ InLBs' = InLBs \cup {pos}
      /\ LBHands' = LBHands /\ InFPs' = InFPs /\ FPHands' = FPHands
      /\ Emitting' = Emitting /\ dropped' = dropped /\ InOut' = InOut /\ OutHand' = OutHand
      /\ InFile' = InFile
  <2>1. InLBs' = InLBs \cup {pos}
    BY <1>1, <1>4 DEF InLBs
  <2> QED
    BY <1>2, <2>1 DEF fpVars, outVars, AtReader, LBHands, InFPs, FPHands, Emitting, InOut,
                      OutHand, InFile
<1>6. /\ Taken' = Taken /\ Sent' = Sent /\ Forwarded' = Forwarded /\ Processed' = Processed
      /\ Popped' = Popped /\ Delivered' = Delivered /\ Routed' = Routed
      /\ Queued' = Queued \cup {pos}
  BY <1>5 DEF Taken, Sent, Forwarded, Processed, Popped, Delivered, Routed, Queued
<1>7. LBOwns' /\ FPOwns' /\ OutOwns'
  <2>1. SortedBy(lbq'[l], FPOf)
    <3>1. \A x \in Range(lbq[l]) : x \in Accepted /\ x # pos
      BY <1>1, Placed DEF PacketInv, Apart, InLBs, Queued
    <3>2. \A x \in Range(lbq[l]) : x < pos
      BY <1>1, <3>1 DEF Accepted
    <3> QED
      BY <1>1, <1>4, <3>2, AppendSorted DEF PacketInv, LBOwns
  <2>2. LBOwns'
    BY <1>2, <1>3, <1>4, <2>1 DEF PacketInv, LBOwns
  <2> QED
    BY <1>2, <1>3, <2>2 DEF PacketInv, FPOwns, OutOwns, fpVars, outVars
<1>8. Everywhere' /\ Apart'
  BY <1>1, <1>3, <1>5, <1>6, Placed DEF PacketInv, Everywhere, Apart
<1>9. InOrder'
  <2>1. Closed(Queued', Accepted, FPOf)
    BY <1>1, <1>6 DEF PacketInv, Everywhere, InOrder, Closed
  <2> QED
    BY <1>3, <1>5, <1>6, <2>1 DEF PacketInv, InOrder
<1> QED
  BY <1>6, <1>7, <1>8, <1>9 DEF PacketInv

(* A load balancer's pop: the packet goes from its queue into its hand.    *)
LEMMA LBPopKeepsPackets ==
    ASSUME TypeOK, PacketInv, NEW l \in LBs, LBPop(l)
    PROVE  PacketInv' /\ UNCHANGED Forwarded
<1> DEFINE p == Head(lbq[l])
<1>1. /\ lbq[l] \in Seq(Nat) /\ lbq[l] # <<>> /\ lpc[l] = "pop"
      /\ UNCHANGED <<mainVars, fpVars, outVars>>
      /\ lbq' = [lbq EXCEPT ![l] = Tail(@)] /\ ljob' = [ljob EXCEPT ![l] = p]
      /\ lpc' = [lpc EXCEPT ![l] = "push"]
  BY DEF LBPop, TypeOK, LBTypes
<1>2. /\ FPOf' = FPOf /\ (\A x : LBOf(x)' = LBOf(x)) /\ Accepted' = Accepted
      /\ AtReader' = AtReader
  BY <1>1, SameDispatch DEF mainVars, Accepted, AtReader
<1>3. SortedBy(lbq[l], FPOf)
  BY DEF PacketInv, LBOwns
<1>4. /\ p \in Range(lbq[l]) /\ Range(Tail(lbq[l])) = Range(lbq[l]) \ {p}
      /\ \A x \in Range(Tail(lbq[l])) : FPOf[x] = FPOf[p] => p < x
      /\ SortedBy(Tail(lbq[l]), FPOf)
  BY <1>1, <1>3, PopResult
<1>5. /\ lbq'[l] = Tail(lbq[l]) /\ ljob'[l] = p /\ lpc'[l] = "push"
      /\ \A k \in LBs : k # l => lbq'[k] = lbq[k] /\ ljob'[k] = ljob[k] /\ lpc'[k] = lpc[k]
  BY <1>1 DEF TypeOK, LBTypes
<1>6. p \in Accepted /\ LBOf(p) = l /\ p \in InLBs /\ Accepted \subseteq Nat
  BY <1>4, Placed, Dispatch DEF PacketInv, LBOwns, InLBs
<1> HIDE DEF p
<1>7. /\ InLBs' = InLBs \ {p} /\ LBHands' = LBHands \cup {p}
      /\ InFPs' = InFPs /\ FPHands' = FPHands
      /\ Emitting' = Emitting /\ dropped' = dropped /\ InOut' = InOut /\ OutHand' = OutHand
      /\ InFile' = InFile
  <2>1. InLBs' = InLBs \ {p}
    <3>1. \A k \in LBs : k # l => p \notin Range(lbq[k])
      BY <1>6 DEF PacketInv, LBOwns
    <3> QED
      BY <1>4, <1>5, <3>1 DEF InLBs
  <2>2. LBHands' = LBHands \cup {p}
    BY <1>1, <1>5 DEF LBHands
  <2> QED
    BY <1>1, <2>1, <2>2 DEF fpVars, outVars, InFPs, FPHands, Emitting, InOut, OutHand, InFile
<1>8. /\ Taken' = Taken /\ Sent' = Sent /\ Forwarded' = Forwarded /\ Processed' = Processed
      /\ Popped' = Popped /\ Delivered' = Delivered /\ Routed' = Routed \cup {p}
      /\ Queued' = Queued
  BY <1>6, <1>7 DEF Taken, Sent, Forwarded, Processed, Popped, Delivered, Routed, Queued
<1>9. LBOwns' /\ FPOwns' /\ OutOwns'
  <2>1. LBOwns'
    BY <1>2, <1>4, <1>5, <1>6 DEF PacketInv, LBOwns
  <2> QED
    BY <1>1, <1>2, <2>1 DEF PacketInv, FPOwns, OutOwns, fpVars, outVars
<1>10. Everywhere' /\ Apart'
  BY <1>2, <1>6, <1>7, <1>8 DEF PacketInv, Everywhere, Apart, Routed
<1>11. InOrder'
  <2>1. ASSUME NEW q \in Accepted, q < p, FPOf[q] = FPOf[p] PROVE q \in Routed
    <3>0. q \in Queued /\ LBOf(q) = LBOf(p)
      BY <1>6, <2>1, Dispatch DEF PacketInv, InOrder, Closed, Queued
    <3>1. q \in Queued /\ LBOf(q) = l /\ q # p /\ ~(p < q)
      BY <1>6, <2>1, <3>0
    <3>2. q \notin Range(lbq[l])
      BY <1>4, <2>1, <3>1
    <3> QED
      BY <3>1, <3>2 DEF PacketInv, LBOwns, InLBs, Queued
  <2>2. Closed(Routed', Accepted, FPOf)
    BY <1>8, <2>1 DEF PacketInv, InOrder, Closed
  <2> QED
    BY <1>2, <1>7, <1>8, <2>2 DEF PacketInv, InOrder
<1> QED
  BY <1>8, <1>9, <1>10, <1>11 DEF PacketInv

(* A load balancer's push: the packet goes to the end of the queue of the  *)
(* thread selectFP() names.                                                *)
LEMMA LBPushKeepsPackets ==
    ASSUME TypeOK, StopOrder, PacketInv, NEW l \in LBs, LBPush(l)
    PROVE  PacketInv' /\ UNCHANGED Forwarded
<1> DEFINE p == ljob[l]
           to == SelectFP(l, p)
<1>1. /\ lpc[l] = "push" /\ p \in LBHands /\ p \in Accepted /\ LBOf(p) = l
      /\ to = FPOf[p] /\ to \in FPs /\ p \in Nat /\ fpq[to] \in Seq(Nat)
      /\ Accepted \subseteq Nat
  BY Placed, Dispatch DEF LBPush, TypeOK, LBTypes, FPTypes, PacketInv, LBOwns
<1>2. /\ UNCHANGED <<mainVars, lbq, fpc, fjob, dropped, outVars>>
      /\ fpq' = [fpq EXCEPT ![to] = Append(@, p)] /\ ljob' = [ljob EXCEPT ![l] = 0]
      /\ lpc' = [lpc EXCEPT ![l] = "check"]
  <2>1. ~fpshut[to]
    BY <1>1 DEF StopOrder, TypeOK, MainTypes
  <2> QED
    BY <2>1 DEF LBPush, Pushed
<1> HIDE DEF to
<1>3. /\ FPOf' = FPOf /\ (\A x : LBOf(x)' = LBOf(x)) /\ Accepted' = Accepted
      /\ AtReader' = AtReader
  BY <1>2, SameDispatch DEF mainVars, Accepted, AtReader
<1>4. /\ fpq'[to] = Append(fpq[to], p) /\ Range(fpq'[to]) = Range(fpq[to]) \cup {p}
      /\ \A g \in FPs : g # to => fpq'[g] = fpq[g]
      /\ ljob'[l] = 0 /\ lpc'[l] = "check"
      /\ \A k \in LBs : k # l => ljob'[k] = ljob[k] /\ lpc'[k] = lpc[k]
  BY <1>1, <1>2, AppendRange DEF TypeOK, LBTypes, FPTypes
<1> HIDE DEF p
<1>5. /\ InLBs' = InLBs /\ LBHands' = LBHands \ {p}
      /\ InFPs' = InFPs \cup {p} /\ FPHands' = FPHands
      /\ Emitting' = Emitting /\ dropped' = dropped /\ InOut' = InOut /\ OutHand' = OutHand
      /\ InFile' = InFile
  <2>1. LBHands' = LBHands \ {p}
    <3>1. ljob[l] = p /\ \A k \in LBs : k # l /\ lpc[k] = "push" => ljob[k] # p
      BY <1>1 DEF p, PacketInv, LBOwns
    <3> QED
      BY <1>1, <1>4, <3>1 DEF LBHands
  <2>2. InFPs' = InFPs \cup {p}
    <3>1. ASSUME NEW x
          PROVE  (\E g \in FPs : x \in Range(fpq'[g]))
                   <=> (\E g \in FPs : x \in Range(fpq[g])) \/ x = p
      BY <1>1, <1>4
    <3> QED
      BY <3>1 DEF InFPs
  <2> QED
    BY <1>2, <2>1, <2>2 DEF outVars, InLBs, FPHands, Emitting, InOut, OutHand, InFile
<1>6. /\ Taken' = Taken /\ Sent' = Sent /\ Forwarded' = Forwarded /\ Processed' = Processed
      /\ Popped' = Popped /\ Delivered' = Delivered \cup {p} /\ Routed' = Routed
      /\ Queued' = Queued
  BY <1>1, <1>5 DEF Taken, Sent, Forwarded, Processed, Popped, Delivered, Routed, Queued
<1>7. ASSUME NEW q \in Accepted, FPOf[q] = FPOf[p], q \in Delivered PROVE q < p
  <2>1. p \notin Delivered
    BY <1>1 DEF PacketInv, Apart
  <2>2. ~(p < q)
    BY <1>1, <1>7, <2>1 DEF PacketInv, InOrder, Closed
  <2> QED
    BY <1>1, <1>7, <2>1, <2>2
<1>8. LBOwns' /\ FPOwns' /\ OutOwns'
  <2>1. SortedBy(fpq'[to], FPOf)
    <3>1. \A x \in Range(fpq[to]) : FPOf[x] = FPOf[p] => x < p
      BY <1>1, <1>7, Placed DEF InFPs, Delivered
    <3> QED
      BY <1>1, <1>4, <3>1, AppendSorted DEF PacketInv, FPOwns
  <2>2. FPOwns'
    BY <1>1, <1>2, <1>3, <1>4, <2>1 DEF PacketInv, FPOwns
  <2>3. LBOwns'
    BY <1>2, <1>3, <1>4 DEF PacketInv, LBOwns
  <2> QED
    BY <1>2, <1>3, <2>2, <2>3 DEF PacketInv, OutOwns, outVars
<1>9. Everywhere' /\ Apart'
  BY <1>1, <1>3, <1>5, <1>6 DEF PacketInv, Everywhere, Apart, Delivered
<1>10. InOrder'
  <2>1. ASSUME NEW q \in Accepted, q < p, FPOf[q] = FPOf[p] PROVE q \in Delivered
    <3>1. q \in Routed /\ LBOf(q) = l /\ q # p
      BY <1>1, <2>1, Dispatch DEF PacketInv, InOrder, Closed, Routed
    <3> QED
      BY <3>1 DEF p, PacketInv, LBOwns, LBHands, Routed
  <2>2. Closed(Delivered', Accepted, FPOf)
    BY <1>6, <2>1 DEF PacketInv, InOrder, Closed
  <2> QED
    BY <1>3, <1>5, <1>6, <2>2 DEF PacketInv, InOrder
<1> QED
  BY <1>6, <1>8, <1>9, <1>10 DEF PacketInv

(* A fast path thread's pop: the packet goes from its queue into its hand. *)
LEMMA FPPopKeepsPackets ==
    ASSUME TypeOK, PacketInv, NEW f \in FPs, FPPop(f)
    PROVE  PacketInv' /\ UNCHANGED Forwarded
<1> DEFINE p == Head(fpq[f])
<1>1. /\ fpq[f] \in Seq(Nat) /\ fpq[f] # <<>> /\ fpc[f] = "pop"
      /\ UNCHANGED <<mainVars, lbVars, dropped, outVars>>
      /\ fpq' = [fpq EXCEPT ![f] = Tail(@)] /\ fjob' = [fjob EXCEPT ![f] = p]
      /\ fpc' = [fpc EXCEPT ![f] = "process"]
  BY DEF FPPop, TypeOK, FPTypes
<1>2. /\ FPOf' = FPOf /\ (\A x : LBOf(x)' = LBOf(x)) /\ Accepted' = Accepted
      /\ AtReader' = AtReader
  BY <1>1, SameDispatch DEF mainVars, Accepted, AtReader
<1>3. SortedBy(fpq[f], FPOf)
  BY DEF PacketInv, FPOwns
<1>4. /\ p \in Range(fpq[f]) /\ Range(Tail(fpq[f])) = Range(fpq[f]) \ {p}
      /\ \A x \in Range(Tail(fpq[f])) : FPOf[x] = FPOf[p] => p < x
      /\ SortedBy(Tail(fpq[f]), FPOf)
  BY <1>1, <1>3, PopResult
<1>5. /\ fpq'[f] = Tail(fpq[f]) /\ fjob'[f] = p /\ fpc'[f] = "process"
      /\ \A g \in FPs : g # f => fpq'[g] = fpq[g] /\ fjob'[g] = fjob[g] /\ fpc'[g] = fpc[g]
  BY <1>1 DEF TypeOK, FPTypes
<1>6. p \in Accepted /\ FPOf[p] = f /\ p \in InFPs /\ Accepted \subseteq Nat
  BY <1>4, Placed, Dispatch DEF PacketInv, FPOwns, InFPs
<1> HIDE DEF p
<1>7. /\ InLBs' = InLBs /\ LBHands' = LBHands
      /\ InFPs' = InFPs \ {p} /\ FPHands' = FPHands \cup {p}
      /\ Emitting' = Emitting /\ dropped' = dropped /\ InOut' = InOut /\ OutHand' = OutHand
      /\ InFile' = InFile
  <2>1. InFPs' = InFPs \ {p}
    <3>1. \A g \in FPs : g # f => p \notin Range(fpq[g])
      BY <1>6 DEF PacketInv, FPOwns
    <3> QED
      BY <1>4, <1>5, <3>1 DEF InFPs
  <2>2. FPHands' = FPHands \cup {p} /\ Emitting' = Emitting
    BY <1>1, <1>5 DEF FPHands, Emitting
  <2> QED
    BY <1>1, <2>1, <2>2 DEF lbVars, outVars, InLBs, LBHands, InOut, OutHand, InFile
<1>8. /\ Taken' = Taken /\ Sent' = Sent /\ Forwarded' = Forwarded /\ Processed' = Processed
      /\ Popped' = Popped \cup {p} /\ Delivered' = Delivered /\ Routed' = Routed
      /\ Queued' = Queued
  BY <1>6, <1>7 DEF Taken, Sent, Forwarded, Processed, Popped, Delivered, Routed, Queued
<1>9. LBOwns' /\ FPOwns' /\ OutOwns'
  <2>1. FPOwns'
    BY <1>2, <1>4, <1>5, <1>6 DEF PacketInv, FPOwns
  <2> QED
    BY <1>1, <1>2, <2>1 DEF PacketInv, LBOwns, OutOwns, lbVars, outVars
<1>10. Everywhere' /\ Apart'
  BY <1>2, <1>6, <1>7, <1>8 DEF PacketInv, Everywhere, Apart, Popped
<1>11. InOrder'
  <2>1. ASSUME NEW q \in Accepted, q < p, FPOf[q] = FPOf[p] PROVE q \in Popped
    <3>1. q \in Delivered
      BY <1>6, <2>1 DEF PacketInv, InOrder, Closed, Delivered
    <3>2. FPOf[q] = f /\ q # p /\ ~(p < q)
      BY <1>6, <2>1
    <3>3. q \notin Range(fpq[f])
      BY <1>4, <2>1, <3>2
    <3> QED
      BY <3>1, <3>2, <3>3 DEF PacketInv, FPOwns, InFPs, Delivered
  <2>2. Closed(Popped', Accepted, FPOf)
    BY <1>8, <2>1 DEF PacketInv, InOrder, Closed
  <2> QED
    BY <1>2, <1>7, <1>8, <2>2 DEF PacketInv, InOrder
<1> QED
  BY <1>8, <1>9, <1>10, <1>11 DEF PacketInv

(* No thread but f has a packet of f in its hand, and f has one only.      *)
LEMMA OneHand ==
    ASSUME PacketInv, NEW f \in FPs, fpc[f] \in {"process", "emit"}
    PROVE  /\ FPOf[fjob[f]] = f
           /\ \A q \in FPHands : FPOf[q] = f => q = fjob[f]
BY DEF PacketInv, FPOwns, FPHands

(* A DROP: the packet leaves its thread's hand for good.                   *)
LEMMA FPDropKeepsPackets ==
    ASSUME TypeOK, PacketInv, NEW f \in FPs, FPDrop(f)
    PROVE  PacketInv' /\ UNCHANGED Forwarded
<1> DEFINE p == fjob[f]
<1>1. /\ fpc[f] = "process" /\ p \in FPHands /\ p \in Accepted /\ FPOf[p] = f
      /\ Accepted \subseteq Nat /\ \A q \in FPHands : FPOf[q] = f => q = p
      /\ \A g \in FPs : g # f /\ fpc[g] \in {"process", "emit"} => fjob[g] # p
  BY Placed, Dispatch, OneHand DEF FPDrop, PacketInv, FPOwns
<1>2. /\ UNCHANGED <<mainVars, lbVars, fpq, outVars>>
      /\ dropped' = dropped \cup {p} /\ fjob' = [fjob EXCEPT ![f] = 0]
      /\ fpc' = [fpc EXCEPT ![f] = "check"]
  BY DEF FPDrop
<1>3. /\ FPOf' = FPOf /\ (\A x : LBOf(x)' = LBOf(x)) /\ Accepted' = Accepted
      /\ AtReader' = AtReader
  BY <1>2, SameDispatch DEF mainVars, Accepted, AtReader
<1>4. /\ fjob[f] = p /\ fjob'[f] = 0 /\ fpc'[f] = "check"
      /\ \A g \in FPs : g # f => fjob'[g] = fjob[g] /\ fpc'[g] = fpc[g]
  BY <1>2 DEF TypeOK, FPTypes
<1> HIDE DEF p
<1>5. /\ InLBs' = InLBs /\ LBHands' = LBHands
      /\ InFPs' = InFPs /\ FPHands' = FPHands \ {p}
      /\ Emitting' = Emitting /\ InOut' = InOut /\ OutHand' = OutHand
      /\ InFile' = InFile
  <2>1. FPHands' = FPHands \ {p} /\ Emitting' = Emitting
    BY <1>1, <1>4 DEF FPHands, Emitting
  <2> QED
    BY <1>2, <2>1 DEF lbVars, outVars, InLBs, LBHands, InFPs, InOut, OutHand, InFile
<1>6. /\ Taken' = Taken /\ Sent' = Sent /\ Forwarded' = Forwarded
      /\ Processed' = Processed \cup {p} /\ Popped' = Popped /\ Delivered' = Delivered
      /\ Routed' = Routed /\ Queued' = Queued
  BY <1>1, <1>2, <1>5 DEF Taken, Sent, Forwarded, Processed, Popped, Delivered, Routed, Queued
<1>7. LBOwns' /\ FPOwns' /\ OutOwns'
  <2>1. FPOwns'
    BY <1>2, <1>3, <1>4 DEF PacketInv, FPOwns
  <2> QED
    BY <1>2, <1>3, <2>1 DEF PacketInv, LBOwns, OutOwns, lbVars, outVars
<1>8. Everywhere' /\ Apart'
  BY <1>1, <1>2, <1>3, <1>5, <1>6 DEF PacketInv, Everywhere, Apart, Processed
<1>9. InOrder'
  <2>1. ASSUME NEW q \in Accepted, q < p, FPOf[q] = FPOf[p] PROVE q \in Processed
    <3>1. q \in Popped /\ q # p
      BY <1>1, <2>1 DEF PacketInv, InOrder, Closed, Popped
    <3> QED
      BY <1>1, <2>1, <3>1 DEF Popped
  <2>2. Closed(Processed', Accepted, FPOf)
    BY <1>6, <2>1 DEF PacketInv, InOrder, Closed
  <2> QED
    BY <1>3, <1>5, <1>6, <2>2 DEF PacketInv, InOrder
<1> QED
  BY <1>6, <1>7, <1>8, <1>9 DEF PacketInv

(* A FORWARD: the packet stays in its thread's hand, decided.  None of its *)
(* FP was forwarded after it, since none of its FP was processed after it. *)
LEMMA FPForwardKeepsPackets ==
    ASSUME TypeOK, PacketInv, NEW f \in FPs, FPForward(f)
    PROVE  PacketInv' /\ Forwarded' = Forwarded \cup {fjob[f]}
<1> DEFINE p == fjob[f]
<1>1. fpc[f] = "process" /\ p \in FPHands /\ p \in Accepted /\ FPOf[p] = f
  BY Placed, OneHand DEF FPForward
<1>2. /\ UNCHANGED <<mainVars, lbVars, fpq, fjob, dropped, outVars>>
      /\ fpc' = [fpc EXCEPT ![f] = "emit"]
  BY DEF FPForward
<1>3. /\ FPOf' = FPOf /\ (\A x : LBOf(x)' = LBOf(x)) /\ Accepted' = Accepted
      /\ AtReader' = AtReader
  BY <1>2, SameDispatch DEF mainVars, Accepted, AtReader
<1>4. fjob[f] = p /\ fpc'[f] = "emit" /\ \A g \in FPs : g # f => fpc'[g] = fpc[g]
  BY <1>2 DEF TypeOK, FPTypes
<1> HIDE DEF p
<1>5. /\ InLBs' = InLBs /\ LBHands' = LBHands
      /\ InFPs' = InFPs /\ FPHands' = FPHands
      /\ Emitting' = Emitting \cup {p} /\ dropped' = dropped
      /\ InOut' = InOut /\ OutHand' = OutHand /\ InFile' = InFile
  <2>1. FPHands' = FPHands
    BY <1>1, <1>2, <1>4 DEF FPHands
  <2>2. Emitting' = Emitting \cup {p}
    BY <1>1, <1>2, <1>4 DEF Emitting
  <2> QED
    BY <1>2, <2>1, <2>2 DEF lbVars, outVars, InLBs, LBHands, InFPs, InOut, OutHand, InFile
<1>6. /\ Taken' = Taken /\ Sent' = Sent /\ Forwarded' = Forwarded \cup {p}
      /\ Processed' = Processed /\ Popped' = Popped /\ Delivered' = Delivered
      /\ Routed' = Routed /\ Queued' = Queued
  BY <1>5 DEF Taken, Sent, Forwarded, Processed, Popped, Delivered, Routed, Queued
<1>7. LBOwns' /\ FPOwns' /\ OutOwns'
  <2>1. FPOwns'
    BY <1>1, <1>2, <1>3, <1>4 DEF PacketInv, FPOwns
  <2> QED
    BY <1>2, <1>3, <2>1 DEF PacketInv, LBOwns, OutOwns, lbVars, outVars
<1>8. Everywhere' /\ Apart'
  BY <1>3, <1>5, <1>6 DEF PacketInv, Everywhere, Apart
<1>9. InOrder'
  <2>1. ASSUME NEW S \in SUBSET Processed, Closed(S, Forwarded, FPOf)
        PROVE  Closed(S, Forwarded', FPOf)
    <3>1. p \notin Processed
      BY <1>1 DEF PacketInv, Apart
    <3>2. \A s \in S : p < s => FPOf[p] # FPOf[s]
      BY <1>1, <3>1, Placed DEF PacketInv, InOrder, Closed
    <3> QED
      BY <1>6, <2>1, <3>2 DEF Closed
  <2>2. Sent \subseteq Processed /\ Taken \subseteq Processed /\ InFile \subseteq Processed
    BY Placed
  <2> QED
    BY <1>3, <1>5, <1>6, <2>1, <2>2 DEF PacketInv, InOrder
<1> QED
  BY <1>6, <1>7, <1>8, <1>9 DEF PacketInv, p

(* The output callback's push: the packet goes to the end of the output    *)
(* queue.                                                                  *)
LEMMA FPEmitKeepsPackets ==
    ASSUME TypeOK, StopOrder, PacketInv, NEW f \in FPs, FPEmit(f)
    PROVE  PacketInv' /\ UNCHANGED Forwarded
<1> DEFINE p == fjob[f]
<1>1. /\ fpc[f] = "emit" /\ p \in FPHands /\ p \in Accepted /\ FPOf[p] = f /\ p \in Emitting
      /\ Accepted \subseteq Nat /\ \A q \in FPHands : FPOf[q] = f => q = p
      /\ \A g \in FPs : g # f /\ fpc[g] \in {"process", "emit"} => fjob[g] # p
  BY Placed, Dispatch, OneHand DEF FPEmit, PacketInv, FPOwns, Emitting
<1>2. /\ UNCHANGED <<mainVars, lbVars, fpq, dropped, opc, ojob, written>>
      /\ outq' = Append(outq, p) /\ fjob' = [fjob EXCEPT ![f] = 0]
      /\ fpc' = [fpc EXCEPT ![f] = "check"]
  <2>1. ~outshut
    BY <1>1 DEF StopOrder, AfterFPs
  <2> QED
    BY <2>1 DEF FPEmit, Pushed
<1>3. /\ FPOf' = FPOf /\ (\A x : LBOf(x)' = LBOf(x)) /\ Accepted' = Accepted
      /\ AtReader' = AtReader
  BY <1>2, SameDispatch DEF mainVars, Accepted, AtReader
<1>4. /\ fjob[f] = p /\ fjob'[f] = 0 /\ fpc'[f] = "check"
      /\ \A g \in FPs : g # f => fjob'[g] = fjob[g] /\ fpc'[g] = fpc[g]
      /\ Range(outq') = Range(outq) \cup {p} /\ outq \in Seq(Nat) /\ p \in Nat
  BY <1>2, AppendRange DEF TypeOK, FPTypes, OutTypes
<1> HIDE DEF p
<1>5. /\ InLBs' = InLBs /\ LBHands' = LBHands
      /\ InFPs' = InFPs /\ FPHands' = FPHands \ {p}
      /\ Emitting' = Emitting \ {p} /\ InOut' = InOut \cup {p} /\ OutHand' = OutHand
      /\ InFile' = InFile
  <2>1. FPHands' = FPHands \ {p}
    BY <1>1, <1>4 DEF FPHands
  <2>2. Emitting' = Emitting \ {p}
    BY <1>1, <1>4 DEF Emitting
  <2>3. InOut' = InOut \cup {p}
    BY <1>4 DEF InOut
  <2> QED
    BY <1>2, <2>1, <2>2, <2>3 DEF lbVars, InLBs, LBHands, InFPs, OutHand, InFile
<1>6. /\ Taken' = Taken /\ Sent' = Sent \cup {p} /\ Forwarded' = Forwarded
      /\ Processed' = Processed \cup {p} /\ Popped' = Popped /\ Delivered' = Delivered
      /\ Routed' = Routed /\ Queued' = Queued
  BY <1>1, <1>2, <1>5
     DEF Taken, Sent, Forwarded, Processed, Popped, Delivered, Routed, Queued
<1>7. p \notin Processed /\ Emitting \subseteq FPHands
  BY <1>1 DEF PacketInv, Apart, Emitting, FPHands
<1>8. LBOwns' /\ FPOwns' /\ OutOwns'
  <2>1. FPOwns'
    BY <1>2, <1>3, <1>4 DEF PacketInv, FPOwns
  <2>2. SortedBy(outq', FPOf)
    <3>1. \A q \in Sent : FPOf[q] = FPOf[p] => ~(p < q) /\ q # p /\ q \in Nat
      BY <1>1, <1>7, Placed DEF PacketInv, InOrder, Closed
    <3>2. \A x \in Range(outq) : FPOf[x] = FPOf[p] => x < p
      BY <1>4, <3>1 DEF InOut, Sent
    <3> QED
      BY <1>2, <1>4, <3>2, AppendSorted DEF PacketInv, OutOwns
  <2> QED
    BY <1>2, <1>3, <2>1, <2>2 DEF PacketInv, LBOwns, OutOwns, lbVars
<1>9. Everywhere' /\ Apart'
  BY <1>1, <1>2, <1>3, <1>5, <1>6, <1>7, Placed DEF PacketInv, Everywhere, Apart, Processed, Sent
<1>10. InOrder'
  <2>1. Closed(Sent', Forwarded, FPOf)
    <3>1. ASSUME NEW q \in Forwarded, q < p, FPOf[q] = FPOf[p] PROVE q \in Sent
      <4>1. q # p
        BY <1>1, <3>1
      <4>2. q \notin Emitting
        BY <1>1, <1>7, <3>1, <4>1
      <4> QED
        BY <4>2 DEF Forwarded
    <3> QED
      BY <1>6, <3>1 DEF PacketInv, InOrder, Closed
  <2>2. Closed(Processed', Accepted, FPOf)
    <3>1. ASSUME NEW q \in Accepted, q < p, FPOf[q] = FPOf[p] PROVE q \in Processed
      <4>1. q \in Popped /\ q # p
        BY <1>1, <3>1 DEF PacketInv, InOrder, Closed, Popped
      <4> QED
        BY <1>1, <3>1, <4>1 DEF Popped
    <3> QED
      BY <1>6, <3>1 DEF PacketInv, InOrder, Closed
  <2> QED
    BY <1>3, <1>5, <1>6, <2>1, <2>2 DEF PacketInv, InOrder
<1> QED
  BY <1>6, <1>8, <1>9, <1>10 DEF PacketInv

(* The output thread's pop: the packet goes into its hand. *)
LEMMA OutPopKeepsPackets ==
    ASSUME TypeOK, PacketInv, OutPop
    PROVE  PacketInv' /\ UNCHANGED Forwarded
<1> DEFINE p == Head(outq)
<1>1. /\ outq \in Seq(Nat) /\ outq # <<>> /\ opc = "pop" /\ SortedBy(outq, FPOf)
      /\ UNCHANGED <<mainVars, lbVars, fpVars, written>>
      /\ outq' = Tail(outq) /\ ojob' = p /\ opc' = "write"
  BY DEF OutPop, TypeOK, OutTypes, PacketInv, OutOwns
<1>2. /\ FPOf' = FPOf /\ (\A x : LBOf(x)' = LBOf(x)) /\ Accepted' = Accepted
      /\ AtReader' = AtReader
  BY <1>1, SameDispatch DEF mainVars, Accepted, AtReader
<1>3. /\ p \in Range(outq) /\ Range(outq') = Range(outq) \ {p}
      /\ \A x \in Range(outq') : FPOf[x] = FPOf[p] => p < x
      /\ SortedBy(outq', FPOf)
  BY <1>1, PopResult
<1>4. ojob' = p
  BY <1>1
<1> HIDE DEF p
<1>5. /\ InLBs' = InLBs /\ LBHands' = LBHands /\ InFPs' = InFPs /\ FPHands' = FPHands
      /\ Emitting' = Emitting /\ dropped' = dropped
      /\ InOut' = InOut \ {p} /\ OutHand' = OutHand \cup {p} /\ InFile' = InFile
      /\ p \in InOut
  BY <1>1, <1>3, <1>4 DEF lbVars, fpVars, InLBs, LBHands, InFPs, FPHands, Emitting, InOut,
                          OutHand, InFile
<1>6. /\ Taken' = Taken \cup {p} /\ Sent' = Sent /\ Forwarded' = Forwarded
      /\ Processed' = Processed /\ Popped' = Popped /\ Delivered' = Delivered
      /\ Routed' = Routed /\ Queued' = Queued
  BY <1>5 DEF Taken, Sent, Forwarded, Processed, Popped, Delivered, Routed, Queued
<1>7. p \in Accepted /\ Accepted \subseteq Nat /\ p \in Sent /\ Sent \subseteq Accepted
  BY <1>5, Placed, Dispatch DEF Sent
<1>8. LBOwns' /\ FPOwns' /\ OutOwns'
  BY <1>1, <1>2, <1>3 DEF PacketInv, LBOwns, FPOwns, OutOwns, lbVars, fpVars
<1>9. Everywhere' /\ Apart'
  BY <1>2, <1>5, <1>6 DEF PacketInv, Everywhere, Apart, Taken
<1>10. InOrder'
  <2>1. ASSUME NEW q \in Forwarded, q < p, FPOf[q] = FPOf[p] PROVE q \in Taken
    <3>1. q \in Sent
      BY <1>7, <2>1 DEF PacketInv, InOrder, Closed
    <3>2. q # p /\ ~(p < q)
      BY <1>7, <2>1, <3>1
    <3>3. q \notin Range(outq)
      BY <1>3, <2>1, <3>2
    <3> QED
      BY <3>1, <3>3 DEF Sent, InOut
  <2>2. Closed(Taken', Forwarded, FPOf)
    BY <1>6, <2>1 DEF PacketInv, InOrder, Closed
  <2> QED
    BY <1>2, <1>5, <1>6, <2>2 DEF PacketInv, InOrder
<1> QED
  BY <1>6, <1>8, <1>9, <1>10 DEF PacketInv

(* The output thread's write: the packet is in the file. *)
LEMMA OutWriteKeepsPackets ==
    ASSUME TypeOK, PacketInv, OutWrite
    PROVE  PacketInv' /\ UNCHANGED Forwarded
<1> DEFINE p == ojob
<1>1. /\ OutHand = {p} /\ p \notin InFile /\ p \in Accepted /\ Accepted \subseteq Nat
      /\ UNCHANGED <<mainVars, lbVars, fpVars, outq>>
      /\ written' = Append(written, p) /\ ojob' = 0 /\ opc' = "check" /\ written \in Seq(Nat)
  BY Placed, Dispatch DEF OutWrite, OutHand, PacketInv, Apart, TypeOK, OutTypes
<1>2. /\ FPOf' = FPOf /\ (\A x : LBOf(x)' = LBOf(x)) /\ Accepted' = Accepted
      /\ AtReader' = AtReader
  BY <1>1, SameDispatch DEF mainVars, Accepted, AtReader
<1>3. Range(written') = Range(written) \cup {p}
  BY <1>1, AppendRange
<1> HIDE DEF p
<1>5. /\ InLBs' = InLBs /\ LBHands' = LBHands /\ InFPs' = InFPs /\ FPHands' = FPHands
      /\ Emitting' = Emitting /\ dropped' = dropped
      /\ InOut' = InOut /\ OutHand' = {} /\ InFile' = InFile \cup {p}
  BY <1>1, <1>3 DEF lbVars, fpVars, InLBs, LBHands, InFPs, FPHands, Emitting, InOut,
                    OutHand, InFile
<1>6. /\ Taken' = Taken /\ Sent' = Sent /\ Forwarded' = Forwarded
      /\ Processed' = Processed /\ Popped' = Popped /\ Delivered' = Delivered
      /\ Routed' = Routed /\ Queued' = Queued
  BY <1>1, <1>5 DEF Taken, Sent, Forwarded, Processed, Popped, Delivered, Routed, Queued
<1>7. LBOwns' /\ FPOwns' /\ OutOwns'
  <2>1. ASSUME NEW i \in DOMAIN written', NEW j \in DOMAIN written', written'[i] = written'[j]
        PROVE  i = j
    <3>1. \A k \in DOMAIN written : written[k] # p
      BY <1>1 DEF InFile, Range
    <3>2. /\ DOMAIN written' = 1..(Len(written) + 1) /\ written'[Len(written) + 1] = p
          /\ \A k \in 1..Len(written) : written'[k] = written[k]
          /\ DOMAIN written = 1..Len(written) /\ Len(written) \in Nat
      BY <1>1
    <3> QED
      BY <2>1, <3>1, <3>2 DEF PacketInv, OutOwns
  <2> QED
    BY <1>1, <1>2, <2>1 DEF PacketInv, LBOwns, FPOwns, OutOwns, lbVars, fpVars
<1>8. Everywhere' /\ Apart'
  BY <1>1, <1>2, <1>5, <1>6 DEF PacketInv, Everywhere, Apart
<1>9. InOrder'
  <2>1. ASSUME NEW q \in Forwarded, q < p, FPOf[q] = FPOf[p] PROVE q \in InFile
    <3>1. q \in Taken /\ q # p
      BY <1>1, <2>1 DEF PacketInv, InOrder, Closed, Taken
    <3> QED
      BY <1>1, <3>1 DEF Taken
  <2>2. Closed(InFile', Forwarded, FPOf)
    BY <1>5, <2>1 DEF PacketInv, InOrder, Closed
  <2> QED
    BY <1>2, <1>5, <1>6, <2>2 DEF PacketInv, InOrder
<1> QED
  BY <1>6, <1>7, <1>8, <1>9 DEF PacketInv

-----------------------------------------------------------------------------
(* The theorems *)

(* Before the reader starts no packet is anywhere. *)
LEMMA InitPackets == Init => PacketInv
<1> SUFFICES ASSUME Init PROVE PacketInv
  OBVIOUS
<1>1. /\ \A l \in LBs : lbq[l] = <<>> /\ ljob[l] = 0 /\ lpc[l] = "check"
      /\ \A f \in FPs : fpq[f] = <<>> /\ fjob[f] = 0 /\ fpc[f] = "check"
      /\ outq = <<>> /\ ojob = 0 /\ opc = "check" /\ written = <<>> /\ dropped = {}
      /\ mpc = "read" /\ pos = 0
  BY DEF Init
<1>2. Range(<<>>) = {} /\ DOMAIN <<>> = {}
  BY DEF Range
<1>3. /\ AtReader = {} /\ InLBs = {} /\ LBHands = {} /\ InFPs = {} /\ FPHands = {}
      /\ Emitting = {} /\ InOut = {} /\ OutHand = {} /\ InFile = {}
  BY <1>1, <1>2 DEF AtReader, InLBs, LBHands, InFPs, FPHands, Emitting, InOut, OutHand, InFile
<1>4. /\ Taken = {} /\ Sent = {} /\ Forwarded = {} /\ Processed = {} /\ Popped = {}
      /\ Delivered = {} /\ Routed = {} /\ Queued = {}
  BY <1>1, <1>3 DEF Taken, Sent, Forwarded, Processed, Popped, Delivered, Routed, Queued
<1>5. Accepted = {}
  BY <1>1 DEF Accepted
<1>6. LBOwns /\ FPOwns /\ OutOwns
  BY <1>1, <1>2 DEF LBOwns, FPOwns, OutOwns, SortedBy
<1>7. Everywhere /\ Apart /\ InOrder
  BY <1>1, <1>3, <1>4, <1>5 DEF Everywhere, Apart, InOrder, Closed
<1> QED
  BY <1>6, <1>7 DEF PacketInv

(* The steps of the shutdown and of idle workers move nothing. *)
LEMMA MainMovesNothing ==
    ASSUME \/ EndOfFile \/ DrainLBs \/ StopLB \/ ShutLB \/ JoinLB \/ DrainFPs \/ StopFP
           \/ ShutFP \/ JoinFP \/ StopOutput \/ ShutOutput \/ JoinOutput \/ DrainTimeout
    PROVE  Unmoved
BY DEF EndOfFile, DrainLBs, StopLB, ShutLB, JoinLB, DrainFPs, StopFP, ShutFP, JoinFP,
       StopOutput, ShutOutput, JoinOutput, DrainTimeout, Goto, lbVars, fpVars, outVars, Unmoved

(* The steps of a load balancer that touch no packet. *)
LEMMA LBMovesNothing ==
    ASSUME TypeOK, NEW l \in LBs, LBCheck(l) \/ LBNoJob(l) PROVE Unmoved
BY DEF LBCheck, LBNoJob, mainVars, fpVars, outVars, TypeOK, LBTypes, Unmoved

(* The steps of a fast path thread that touch no packet. *)
LEMMA FPMovesNothing ==
    ASSUME TypeOK, NEW f \in FPs, FPCheck(f) \/ FPNoJob(f) PROVE Unmoved
BY DEF FPCheck, FPNoJob, mainVars, lbVars, outVars, TypeOK, FPTypes, Unmoved

(* The steps of the output thread that touch no packet. *)
LEMMA OutMovesNothing == ASSUME OutCheck \/ OutNoJob PROVE Unmoved
BY DEF OutCheck, OutNoJob, mainVars, lbVars, fpVars, Unmoved

(* Every step keeps the packets in their places and in order. *)
LEMMA NextPackets == TypeOK /\ StopOrder /\ PacketInv /\ [Next]_vars => PacketInv'
<1> SUFFICES ASSUME TypeOK, StopOrder, PacketInv, [Next]_vars PROVE PacketInv'
  OBVIOUS
<1>1. CASE UNCHANGED vars
  BY <1>1, SamePlaces DEF vars, mainVars, lbVars, fpVars, outVars, Unmoved
<1>2. CASE MainStep \/ DrainTimeout
  <2>1. CASE ReadPacket
    BY <2>1, ReadKeepsPackets
  <2>2. CASE PushToLB
    BY <2>2, PushToLBKeepsPackets
  <2>3. CASE \/ EndOfFile \/ DrainLBs \/ StopLB \/ ShutLB \/ JoinLB \/ DrainFPs \/ StopFP
             \/ ShutFP \/ JoinFP \/ StopOutput \/ ShutOutput \/ JoinOutput \/ DrainTimeout
    BY <2>3, MainMovesNothing, SamePlaces
  <2> QED
    BY <1>2, <2>1, <2>2, <2>3 DEF MainStep
<1>3. ASSUME NEW l \in LBs, LBStep(l) PROVE PacketInv'
  <2>1. CASE LBCheck(l) \/ LBNoJob(l)
    BY <2>1, LBMovesNothing, SamePlaces
  <2> QED
    BY <1>3, <2>1, LBPopKeepsPackets, LBPushKeepsPackets DEF LBStep
<1>4. ASSUME NEW f \in FPs, FPStep(f) PROVE PacketInv'
  <2>1. CASE FPCheck(f) \/ FPNoJob(f)
    BY <2>1, FPMovesNothing, SamePlaces
  <2> QED
    BY <1>4, <2>1, FPPopKeepsPackets, FPDropKeepsPackets, FPForwardKeepsPackets,
       FPEmitKeepsPackets DEF FPStep
<1>5. CASE OutStep
  <2>1. CASE OutCheck \/ OutNoJob
    BY <2>1, OutMovesNothing, SamePlaces
  <2> QED
    BY <1>5, <2>1, OutPopKeepsPackets, OutWriteKeepsPackets DEF OutStep
<1> QED
  BY <1>1, <1>2, <1>3, <1>4, <1>5 DEF Next, Finished

(* No packet is twice in a queue that is in order. *)
LEMMA OneIndex ==
    ASSUME NEW q \in Seq(Nat), NEW cap \in Nat, Len(q) <= cap, NEW fp, SortedBy(q, fp),
           NEW p \in Range(q)
    PROVE  \E i \in 1..cap : /\ i \in DOMAIN q /\ q[i] = p
                             /\ \A j \in DOMAIN q : q[j] = p => j = i
<1>1. PICK i \in DOMAIN q : q[i] = p
  BY DEF Range
<1>2. i \in 1..Len(q) /\ i \in 1..cap /\ p \in Nat
  BY <1>1
<1>3. ASSUME NEW j \in DOMAIN q, q[j] = p PROVE j = i
  <2>1. ~(p < p) /\ j \in Nat
    BY <1>2
  <2> QED
    BY <1>1, <1>2, <1>3, <2>1 DEF SortedBy
<1> QED
  BY <1>1, <1>2, <1>3

(* Where packet p is, stage by stage: the parts of Places. *)
ReaderPlaces(p) == {x \in {<<"reader", 0, 0>>} : mpc = "push" /\ pos = p}
LBQueuePlaces(p) == {x \in {"lbq"} \X LBs \X (1..LBCap) :
                       x[3] \in DOMAIN lbq[x[2]] /\ lbq[x[2]][x[3]] = p}
LBHandPlaces(p) == {x \in {"ljob"} \X LBs \X {0} : ljob[x[2]] = p}
FPQueuePlaces(p) == {x \in {"fpq"} \X FPs \X (1..FPCap) :
                       x[3] \in DOMAIN fpq[x[2]] /\ fpq[x[2]][x[3]] = p}
FPHandPlaces(p) == {x \in {"fjob"} \X FPs \X {0} : fjob[x[2]] = p}
DroppedPlaces(p) == {x \in {<<"dropped", 0, 0>>} : p \in dropped}
OutQueuePlaces(p) == {x \in {"outq"} \X {0} \X (1..OutCap) :
                        x[3] \in DOMAIN outq /\ outq[x[3]] = p}
OutHandPlaces(p) == {x \in {<<"ojob", 0, 0>>} : ojob = p}
FilePlaces(p) == {x \in {"written"} \X {0} \X DOMAIN written : written[x[3]] = p}

(* S, the places of p at a stage, is one place if p is in X, else none. *)
OneIf(S, p, X) == IF p \in X THEN \E x : S = {x} ELSE S = {}

(* A packet is in one place at most at each stage. *)
LEMMA StagePlaces ==
    ASSUME TypeOK, PacketInv, NEW p \in Accepted
    PROVE  /\ OneIf(ReaderPlaces(p), p, AtReader)
           /\ OneIf(LBQueuePlaces(p), p, InLBs)
           /\ OneIf(LBHandPlaces(p), p, LBHands)
           /\ OneIf(FPQueuePlaces(p), p, InFPs)
           /\ OneIf(FPHandPlaces(p), p, FPHands)
           /\ OneIf(DroppedPlaces(p), p, dropped)
           /\ OneIf(OutQueuePlaces(p), p, InOut)
           /\ OneIf(OutHandPlaces(p), p, OutHand)
           /\ OneIf(FilePlaces(p), p, InFile)
<1>0. p \in Nat \ {0} /\ LBOf(p) \in LBs /\ FPOf[p] \in FPs
  BY Dispatch
<1>1. OneIf(ReaderPlaces(p), p, AtReader)
  BY DEF OneIf, ReaderPlaces, AtReader
<1>2. OneIf(LBQueuePlaces(p), p, InLBs)
  <2> DEFINE l == LBOf(p)
  <2>1. CASE p \in InLBs
    <3>1. p \in Range(lbq[l]) /\ \A k \in LBs : k # l => p \notin Range(lbq[k])
      BY <2>1 DEF InLBs, PacketInv, LBOwns
    <3>2. PICK i \in 1..LBCap : /\ i \in DOMAIN lbq[l] /\ lbq[l][i] = p
                                /\ \A j \in DOMAIN lbq[l] : lbq[l][j] = p => j = i
      BY <1>0, <3>1, OneIndex, ConstantFacts DEF TypeOK, LBTypes, PacketInv, LBOwns
    <3>3. LBQueuePlaces(p) = {<<"lbq", l, i>>}
      BY <1>0, <3>1, <3>2 DEF LBQueuePlaces, Range
    <3> QED
      BY <2>1, <3>3 DEF OneIf
  <2>2. CASE p \notin InLBs
    <3>1. LBQueuePlaces(p) = {}
      BY <2>2 DEF LBQueuePlaces, InLBs, Range
    <3> QED
      BY <2>2, <3>1 DEF OneIf
  <2> QED
    BY <2>1, <2>2
<1>3. OneIf(LBHandPlaces(p), p, LBHands)
  <2>1. \A k \in LBs : ljob[k] = p <=> k = LBOf(p) /\ p \in LBHands
    BY <1>0 DEF LBHands, PacketInv, LBOwns
  <2>2. CASE p \in LBHands
    <3>1. LBHandPlaces(p) = {<<"ljob", LBOf(p), 0>>}
      BY <1>0, <2>1, <2>2 DEF LBHandPlaces
    <3> QED
      BY <2>2, <3>1 DEF OneIf
  <2>3. CASE p \notin LBHands
    <3>1. LBHandPlaces(p) = {}
      BY <2>1, <2>3 DEF LBHandPlaces
    <3> QED
      BY <2>3, <3>1 DEF OneIf
  <2> QED
    BY <2>2, <2>3
<1>4. OneIf(FPQueuePlaces(p), p, InFPs)
  <2> DEFINE f == FPOf[p]
  <2>1. CASE p \in InFPs
    <3>1. p \in Range(fpq[f]) /\ \A g \in FPs : g # f => p \notin Range(fpq[g])
      BY <2>1 DEF InFPs, PacketInv, FPOwns
    <3>2. PICK i \in 1..FPCap : /\ i \in DOMAIN fpq[f] /\ fpq[f][i] = p
                                /\ \A j \in DOMAIN fpq[f] : fpq[f][j] = p => j = i
      BY <1>0, <3>1, OneIndex, ConstantFacts DEF TypeOK, FPTypes, PacketInv, FPOwns
    <3>3. FPQueuePlaces(p) = {<<"fpq", f, i>>}
      BY <1>0, <3>1, <3>2 DEF FPQueuePlaces, Range
    <3> QED
      BY <2>1, <3>3 DEF OneIf
  <2>2. CASE p \notin InFPs
    <3>1. FPQueuePlaces(p) = {}
      BY <2>2 DEF FPQueuePlaces, InFPs, Range
    <3> QED
      BY <2>2, <3>1 DEF OneIf
  <2> QED
    BY <2>1, <2>2
<1>5. OneIf(FPHandPlaces(p), p, FPHands)
  <2>1. \A g \in FPs : fjob[g] = p <=> g = FPOf[p] /\ p \in FPHands
    BY <1>0 DEF FPHands, PacketInv, FPOwns
  <2>2. CASE p \in FPHands
    <3>1. FPHandPlaces(p) = {<<"fjob", FPOf[p], 0>>}
      BY <1>0, <2>1, <2>2 DEF FPHandPlaces
    <3> QED
      BY <2>2, <3>1 DEF OneIf
  <2>3. CASE p \notin FPHands
    <3>1. FPHandPlaces(p) = {}
      BY <2>1, <2>3 DEF FPHandPlaces
    <3> QED
      BY <2>3, <3>1 DEF OneIf
  <2> QED
    BY <2>2, <2>3
<1>6. OneIf(DroppedPlaces(p), p, dropped)
  BY DEF OneIf, DroppedPlaces
<1>7. OneIf(OutQueuePlaces(p), p, InOut)
  <2>1. CASE p \in InOut
    <3>1. PICK i \in 1..OutCap : /\ i \in DOMAIN outq /\ outq[i] = p
                                 /\ \A j \in DOMAIN outq : outq[j] = p => j = i
      BY <2>1, OneIndex, ConstantFacts DEF InOut, TypeOK, OutTypes, PacketInv, OutOwns
    <3>2. OutQueuePlaces(p) = {<<"outq", 0, i>>}
      BY <3>1 DEF OutQueuePlaces
    <3> QED
      BY <2>1, <3>2 DEF OneIf
  <2>2. CASE p \notin InOut
    <3>1. OutQueuePlaces(p) = {}
      BY <2>2 DEF OutQueuePlaces, InOut, Range
    <3> QED
      BY <2>2, <3>1 DEF OneIf
  <2> QED
    BY <2>1, <2>2
<1>8. OneIf(OutHandPlaces(p), p, OutHand)
  BY <1>0 DEF OneIf, OutHandPlaces, OutHand, PacketInv, OutOwns
<1>9. OneIf(FilePlaces(p), p, InFile)
  <2>1. CASE p \in InFile
    <3>1. PICK i \in DOMAIN written : /\ written[i] = p
                                      /\ \A j \in DOMAIN written : written[j] = p => j = i
      BY <2>1 DEF InFile, Range, PacketInv, OutOwns
    <3>2. FilePlaces(p) = {<<"written", 0, i>>}
      BY <3>1 DEF FilePlaces
    <3> QED
      BY <2>1, <3>2 DEF OneIf
  <2>2. CASE p \notin InFile
    <3>1. FilePlaces(p) = {}
      BY <2>2 DEF FilePlaces, InFile, Range
    <3> QED
      BY <2>2, <3>1 DEF OneIf
  <2> QED
    BY <2>1, <2>2
<1> QED
  BY <1>1, <1>2, <1>3, <1>4, <1>5, <1>6, <1>7, <1>8, <1>9

(* Two stages that do not share a packet have together at most one place.  *)
LEMMA OneOfTwo ==
    ASSUME NEW S, NEW T, NEW p, NEW X, NEW Y, OneIf(S, p, X), OneIf(T, p, Y), Y \cap X = {}
    PROVE  OneIf(S \cup T, p, X \cup Y)
<1>1. CASE p \in X
  <2>1. S \cup T = S
    BY <1>1 DEF OneIf
  <2> QED
    BY <1>1, <2>1 DEF OneIf
<1>2. CASE p \notin X
  <2>1. S \cup T = T
    BY <1>2 DEF OneIf
  <2> QED
    BY <1>2, <2>1 DEF OneIf
<1> QED
  BY <1>1, <1>2

(* From the file back to the reader: each further stage adds one place for *)
(* the packets it adds.                                                    *)
LEMMA OnePlace == TypeOK /\ PacketInv => Conservation
<1> SUFFICES ASSUME TypeOK, PacketInv, NEW p \in Accepted
             PROVE  Cardinality(Places(p)) = 1
  BY DEF Conservation
<1> DEFINE T == FilePlaces(p) \cup OutHandPlaces(p)
           S == T \cup OutQueuePlaces(p)
           P == S \cup DroppedPlaces(p)
           O == P \cup FPHandPlaces(p)
           D == O \cup FPQueuePlaces(p)
           R == D \cup LBHandPlaces(p)
           Q == R \cup LBQueuePlaces(p)
<1>1. Places(p) = Q \cup ReaderPlaces(p)
  BY DEF Places, ReaderPlaces, LBQueuePlaces, LBHandPlaces, FPQueuePlaces, FPHandPlaces,
         DroppedPlaces, OutQueuePlaces, OutHandPlaces, FilePlaces
<1> HIDE DEF T, S, P, O, D, R, Q
<1>2. OneIf(T, p, Taken)
  BY OneOfTwo, StagePlaces DEF T, Taken, PacketInv, Apart
<1>3. OneIf(S, p, Sent)
  BY <1>2, OneOfTwo, StagePlaces DEF S, Sent, PacketInv, Apart
<1>4. OneIf(P, p, Processed)
  BY <1>3, OneOfTwo, StagePlaces DEF P, Processed, PacketInv, Apart
<1>5. OneIf(O, p, Popped)
  BY <1>4, OneOfTwo, StagePlaces DEF O, Popped, PacketInv, Apart
<1>6. OneIf(D, p, Delivered)
  BY <1>5, OneOfTwo, StagePlaces DEF D, Delivered, PacketInv, Apart
<1>7. OneIf(R, p, Routed)
  BY <1>6, OneOfTwo, StagePlaces DEF R, Routed, PacketInv, Apart
<1>8. OneIf(Q, p, Queued)
  BY <1>7, OneOfTwo, StagePlaces DEF Q, Queued, PacketInv, Apart
<1>9. OneIf(Q \cup ReaderPlaces(p), p, Accepted)
  BY <1>8, OneOfTwo, StagePlaces DEF Everywhere, PacketInv, Apart
<1>10. \E x : Places(p) = {x}
  BY <1>1, <1>9 DEF OneIf
<1> QED
  BY <1>10, FS_Singleton

(* For any layout of the threads, any hash and any capture: from the       *)
(* moment it is read every accepted packet is in exactly one place,        *)
(* through every push, pop and shutdown.                                   *)
THEOREM NoPacketIsLost == Spec => []Conservation
<1>1. Init => StopOrder
  BY DEF Init, StopOrder, AfterLBs, AfterFPs
<1> QED
  BY <1>1, InitPackets, NextPackets, NextOrder, TypeCorrect, OnePlace, PTL DEF Spec

-----------------------------------------------------------------------------
(* The refinement of PacketFilter *)

(* In the terms of PacketFilter: a packet is decided FORWARD from the      *)
(* moment its thread is about to emit it.                                  *)
LEMMA ForwardedIsDecided == TypeOK /\ PacketInv => ForwardDecided = Forwarded
<1> SUFFICES ASSUME TypeOK, PacketInv PROVE ForwardDecided = Forwarded
  OBVIOUS
<1>1. Forwarded \subseteq Accepted /\ Accepted \subseteq Nat \ {0}
  <2>1. Emitting \subseteq FPHands /\ FPHands \subseteq Popped
    BY DEF Emitting, FPHands, Popped
  <2> QED
    BY <2>1, Placed, Dispatch DEF Forwarded
<1>2. ASSUME NEW p \in Accepted
      PROVE  /\ Holds(outq, p) <=> p \in InOut
             /\ Holds(written, p) <=> p \in InFile
             /\ ojob = p <=> p \in OutHand
             /\ (\E f \in FPs : fpc[f] = "emit" /\ fjob[f] = p) <=> p \in Emitting
  <2>1. p # 0
    BY <1>1
  <2>2. (Holds(outq, p) <=> p \in InOut) /\ (Holds(written, p) <=> p \in InFile)
    BY DEF Holds, InOut, InFile, Range
  <2>3. ojob = p <=> p \in OutHand
    BY <2>1 DEF OutHand, PacketInv, OutOwns
  <2> QED
    BY <2>2, <2>3 DEF Emitting
<1>3. ForwardDecided = {p \in Accepted : p \in Emitting \/ p \in InOut \/ p \in OutHand
                                         \/ p \in InFile}
  BY <1>2 DEF ForwardDecided
<1> QED
  BY <1>1, <1>3 DEF Forwarded, Sent, Taken

(* The packets of p's flow before p take p's thread, and are before p.     *)
LEMMA EarlierPackets ==
    ASSUME TypeOK, NEW p \in Accepted, NEW q \in Filter!Earlier(p)
    PROVE  q \in Accepted /\ q < p /\ FPOf[q] = FPOf[p]
<1>1. p \in 1..pos /\ q \in 1..(p - 1) /\ capture[q] = capture[p] /\ capture[p] # Junk
  BY DEF Accepted, Filter!Earlier
<1>2. pos \in Nat
  BY ConstantFacts DEF TypeOK, MainTypes
<1>3. q \in Accepted /\ q < p
  BY <1>1, <1>2 DEF Accepted
<1>4. FPOf[q] = FPOf[p]
  BY <1>1, <1>3, Dispatch DEF SelectFP, LBOf
<1> QED
  BY <1>3, <1>4

(* When a thread is about to decide a packet, the packets of its flow that *)
(* came before are decided.                                                *)
LEMMA ProcessedInOrder ==
    ASSUME TypeOK, PacketInv, NEW f \in FPs, fpc[f] = "process"
    PROVE  /\ fjob[f] \in Accepted \ (Forwarded \cup dropped)
           /\ Filter!Earlier(fjob[f]) \subseteq Forwarded \cup dropped
<1> DEFINE p == fjob[f]
<1>1. /\ p \in Accepted /\ p \in FPHands /\ FPOf[p] = f
      /\ \A q \in FPHands : FPOf[q] = f => q = p
  BY Placed, OneHand
<1>2. p \notin Processed /\ p \notin Emitting
  <2>1. p \notin Processed
    BY <1>1 DEF PacketInv, Apart
  <2>2. p \notin Emitting
    BY <1>1 DEF PacketInv, FPOwns, Emitting
  <2> QED
    BY <2>1, <2>2
<1> HIDE DEF p
<1>3. ASSUME NEW q \in Filter!Earlier(p) PROVE q \in Processed
  <2>1. q \in Accepted /\ q < p /\ FPOf[q] = FPOf[p] /\ p \in Nat
    BY <1>1, EarlierPackets, Dispatch
  <2>2. q \in Popped /\ q # p
    BY <1>1, <2>1 DEF PacketInv, InOrder, Closed, Popped
  <2> QED
    BY <1>1, <2>1, <2>2 DEF Popped
<1> QED
  BY <1>1, <1>2, <1>3 DEF Processed, Forwarded, p

(* When the output thread is about to write a packet, the packets of its   *)
(* flow that came before and were forwarded are written.                   *)
LEMMA WrittenInOrder ==
    ASSUME TypeOK, PacketInv, opc = "write"
    PROVE  /\ ojob \in Forwarded \cap Accepted /\ ~Filter!IsWritten(ojob)
           /\ \A q \in Filter!Earlier(ojob) \cap Forwarded : Filter!IsWritten(q)
<1>1. ojob \in Accepted /\ OutHand = {ojob} /\ ojob \notin InFile /\ ojob \in Taken
  BY Placed DEF OutHand, PacketInv, Apart, Taken
<1>2. \A q : Filter!IsWritten(q) <=> q \in InFile
  BY DEF Filter!IsWritten, InFile, Range
<1>3. ASSUME NEW q \in Filter!Earlier(ojob) \cap Forwarded PROVE q \in InFile
  <2>1. q \in Accepted /\ q < ojob /\ FPOf[q] = FPOf[ojob] /\ ojob \in Nat
    BY <1>1, EarlierPackets, Dispatch
  <2>2. q \in Taken /\ q # ojob
    BY <1>1, <1>3, <2>1 DEF PacketInv, InOrder, Closed
  <2> QED
    BY <1>1, <2>2 DEF Taken
<1> QED
  BY <1>1, <1>2, <1>3, Placed DEF Forwarded

(* A step that reads no frame, decides nothing and writes nothing is one   *)
(* PacketFilter does not see.                                              *)
LEMMA Unseen ==
    ASSUME ForwardDecided = Forwarded, ForwardDecided' = Forwarded',
           UNCHANGED <<capture, pos, Forwarded, dropped, written>>
    PROVE  UNCHANGED Filter!filterVars
BY DEF Filter!filterVars

(* Every step of the engine is a step of PacketFilter or one it does not   *)
(* see.                                                                    *)
LEMMA StepRefines ==
    ASSUME TypeOK, StopOrder, PacketInv, [Next]_vars,
           ForwardDecided = Forwarded, ForwardDecided' = Forwarded'
    PROVE  [Filter!Next]_(Filter!filterVars)
<1>2. CASE ReadPacket
  <2>1. UNCHANGED Forwarded
    BY <1>2, ReadKeepsPackets
  <2>2. Filter!Arrive
    BY <1>2, <2>1 DEF ReadPacket, fpVars, outVars, Filter!Arrive
  <2> QED
    BY <2>2 DEF Filter!Next
<1>3. ASSUME NEW f \in FPs, FPDrop(f) \/ FPForward(f)
      PROVE  Filter!Next
  <2> DEFINE p == fjob[f]
  <2>1. fpc[f] = "process" /\ UNCHANGED <<capture, pos, written>>
    BY <1>3 DEF FPDrop, FPForward, mainVars, outVars
  <2>2. /\ p \in Accepted \ (Forwarded \cup dropped)
        /\ Filter!Earlier(p) \subseteq Forwarded \cup dropped
    BY <2>1, ProcessedInOrder
  <2>3. \/ Forwarded' = Forwarded \cup {p} /\ UNCHANGED dropped
        \/ dropped' = dropped \cup {p} /\ UNCHANGED Forwarded
    BY <1>3, FPDropKeepsPackets, FPForwardKeepsPackets DEF FPDrop, FPForward
  <2>4. p \in 1..pos /\ capture[p] # Junk
    BY <2>2 DEF Accepted
  <2> HIDE DEF p
  <2>5. Filter!Decide(p)
    BY <2>1, <2>2, <2>3, <2>4 DEF Filter!Decide
  <2> QED
    BY <2>4, <2>5 DEF Filter!Next
<1>4. CASE OutWrite
  <2>1. opc = "write" /\ UNCHANGED <<capture, pos, dropped>> /\ written' = Append(written, ojob)
    BY <1>4 DEF OutWrite, mainVars, fpVars
  <2>2. UNCHANGED Forwarded
    BY <1>4, OutWriteKeepsPackets
  <2>3. Filter!Write(ojob)
    BY <2>1, <2>2, WrittenInOrder DEF Filter!Write
  <2>4. ojob \in 1..pos
    BY <2>1, WrittenInOrder DEF Accepted
  <2> QED
    BY <2>3, <2>4 DEF Filter!Next
<1>5. CASE UNCHANGED vars
  BY <1>5, SamePlaces, Unseen DEF vars, mainVars, lbVars, fpVars, outVars, Unmoved
<1>6. CASE MainStep \/ DrainTimeout
  <2>1. CASE PushToLB
    BY <2>1, PushToLBKeepsPackets, Unseen DEF PushToLB, fpVars, outVars
  <2>2. CASE \/ EndOfFile \/ DrainLBs \/ StopLB \/ ShutLB \/ JoinLB \/ DrainFPs \/ StopFP
             \/ ShutFP \/ JoinFP \/ StopOutput \/ ShutOutput \/ JoinOutput \/ DrainTimeout
    BY <2>2, MainMovesNothing, SamePlaces, Unseen DEF Unmoved
  <2> QED
    BY <1>2, <1>6, <2>1, <2>2 DEF MainStep
<1>7. ASSUME NEW l \in LBs, LBStep(l) PROVE UNCHANGED Filter!filterVars
  <2>1. UNCHANGED <<capture, pos, dropped, written>>
    BY <1>7 DEF LBStep, LBCheck, LBPop, LBNoJob, LBPush, mainVars, fpVars, outVars
  <2>2. CASE LBCheck(l) \/ LBNoJob(l)
    BY <2>2, LBMovesNothing, SamePlaces, Unseen DEF Unmoved
  <2>3. CASE LBPop(l)
    BY <2>1, <2>3, LBPopKeepsPackets, Unseen
  <2>4. CASE LBPush(l)
    BY <2>1, <2>4, LBPushKeepsPackets, Unseen
  <2> QED
    BY <1>7, <2>2, <2>3, <2>4 DEF LBStep
<1>8. ASSUME NEW f \in FPs, FPStep(f) PROVE Filter!Next \/ UNCHANGED Filter!filterVars
  <2>1. CASE FPCheck(f) \/ FPNoJob(f)
    BY <2>1, FPMovesNothing, SamePlaces, Unseen DEF Unmoved
  <2>2. CASE FPPop(f)
    BY <2>2, FPPopKeepsPackets, Unseen DEF FPPop, mainVars, outVars
  <2>3. CASE FPEmit(f)
    BY <2>3, FPEmitKeepsPackets, Unseen DEF FPEmit, mainVars
  <2> QED
    BY <1>3, <1>8, <2>1, <2>2, <2>3 DEF FPStep
<1>9. CASE OutStep
  <2>1. CASE OutCheck \/ OutNoJob
    BY <2>1, OutMovesNothing, SamePlaces, Unseen DEF Unmoved
  <2>2. CASE OutPop
    BY <2>2, OutPopKeepsPackets, Unseen DEF OutPop, mainVars, fpVars
  <2> QED
    BY <1>4, <1>9, <2>1, <2>2 DEF OutStep
<1> QED
  BY <1>5, <1>6, <1>7, <1>8, <1>9 DEF Next, Finished

(* For any layout, hash and capture the engine implements PacketFilter:    *)
(* each flow is decided and written in the order of the capture, and no    *)
(* packet is written twice or unless it was forwarded.                     *)
THEOREM EngineImplementsFilter == Spec => ImplementsPacketFilter
<1>1. Init => StopOrder /\ Filter!Init
  <2>1. Init => StopOrder
    BY DEF Init, StopOrder, AfterLBs, AfterFPs
  <2>2. ASSUME Init PROVE ForwardDecided = {}
    BY <2>2 DEF Init, ForwardDecided, Accepted
  <2> QED
    BY <2>1, <2>2 DEF Init, Filter!Init
<1> DEFINE Decided == ForwardDecided = Forwarded
<1>2. TypeOK /\ PacketInv => Decided
  BY ForwardedIsDecided
<1>3. TypeOK /\ StopOrder /\ PacketInv /\ Decided /\ Decided' /\ [Next]_vars
        => [Filter!Next]_(Filter!filterVars)
  BY StepRefines
<1> HIDE DEF Decided
<1> QED
  BY <1>1, <1>2, <1>3, InitPackets, NextPackets, NextOrder, TypeCorrect, PTL
     DEF Spec, ImplementsPacketFilter, Filter!Spec

-----------------------------------------------------------------------------
(* What a run without a timed-out drain leaves behind *)

BeforeDrainFP == {"stopLB", "shutLB", "joinLB"}
AfterDrainFP  == {"stopFP", "shutFP", "joinFP"} \cup AfterFPs

(* What main() knows at each of its steps of the queues it waited for, and *)
(* of the output thread, which ends once its queue is empty.               *)
LBsDrained == /\ mpc = "drainLB" => \A l \in LBs : l < mi => lbq[l] = <<>>
              /\ mpc \in BeforeDrainFP \cup AfterLBs => \A l \in LBs : lbq[l] = <<>>
FPsDrained == /\ mpc = "drainFP" => \A f \in FPs : f < mi => fpq[f] = <<>>
              /\ mpc \in AfterDrainFP => \A f \in FPs : fpq[f] = <<>>
OutputEnds == /\ ~outrun => mpc \in {"shutOut", "joinOut", "done"}
              /\ opc = "exit" => ~outrun /\ outq = <<>>
              /\ mpc = "done" => opc = "exit"
DrainOrder == (~drainTimedOut => LBsDrained /\ FPsDrained) /\ OutputEnds

(* The main thread goes on when a queue is empty or its drain gave up.     *)
LEMMA MainKeepsDrain ==
    ASSUME TypeOK, DrainOrder, MainStep \/ DrainTimeout
    PROVE  DrainOrder'
<1>0. NumLBs \in Nat /\ NumFPs \in Nat /\ mi \in Nat
  BY ConstantFacts DEF TypeOK, MainTypes
<1> USE DEF DrainOrder, LBsDrained, FPsDrained, OutputEnds, AfterLBs, AfterFPs, BeforeDrainFP,
            AfterDrainFP
<1>1. CASE ReadPacket \/ EndOfFile
  BY <1>0, <1>1 DEF ReadPacket, EndOfFile, lbVars, fpVars, outVars, LBs
<1>2. CASE PushToLB
  BY <1>2 DEF PushToLB, fpVars, outVars
<1>3. CASE DrainLBs
  BY <1>0, <1>3 DEF DrainLBs, Goto, lbVars, fpVars, outVars, LBs
<1>4. CASE DrainTimeout
  BY <1>4 DEF DrainTimeout, lbVars, fpVars, outVars
<1>5. CASE StopLB \/ ShutLB \/ JoinLB
  BY <1>0, <1>5 DEF StopLB, ShutLB, JoinLB, Goto, lbVars, fpVars, outVars, FPs
<1>6. CASE DrainFPs
  BY <1>0, <1>6 DEF DrainFPs, Goto, lbVars, fpVars, outVars, FPs
<1>7. CASE StopFP \/ ShutFP \/ JoinFP
  BY <1>7 DEF StopFP, ShutFP, JoinFP, Goto, lbVars, fpVars, outVars
<1>8. CASE StopOutput \/ ShutOutput \/ JoinOutput
  BY <1>8 DEF StopOutput, ShutOutput, JoinOutput, Goto, lbVars, fpVars, outVars
<1> QED
  BY <1>1, <1>2, <1>3, <1>4, <1>5, <1>6, <1>7, <1>8 DEF MainStep

(* No worker fills a queue that main() found empty, since those that feed  *)
(* it have ended.                                                          *)
LEMMA WorkersKeepDrain ==
    ASSUME TypeOK, StopOrder, DrainOrder,
           (\E l \in LBs : LBStep(l)) \/ (\E f \in FPs : FPStep(f)) \/ OutStep
    PROVE  DrainOrder'
<1> USE DEF DrainOrder, LBsDrained, FPsDrained, OutputEnds, AfterLBs, AfterFPs, BeforeDrainFP,
            AfterDrainFP
<1>1. ASSUME NEW l \in LBs, LBStep(l) PROVE DrainOrder'
  <2>1. CASE LBCheck(l) \/ LBNoJob(l)
    BY <2>1 DEF LBCheck, LBNoJob, mainVars, fpVars, outVars
  <2>2. CASE LBPop(l)
    BY <2>2 DEF LBPop, mainVars, fpVars, outVars, TypeOK, LBTypes
  <2>3. CASE LBPush(l)
    BY <2>3 DEF LBPush, mainVars, outVars, StopOrder
  <2> QED
    BY <1>1, <2>1, <2>2, <2>3 DEF LBStep
<1>2. ASSUME NEW f \in FPs, FPStep(f) PROVE DrainOrder'
  <2>1. CASE FPCheck(f) \/ FPNoJob(f) \/ FPDrop(f) \/ FPForward(f)
    BY <2>1 DEF FPCheck, FPNoJob, FPDrop, FPForward, mainVars, lbVars, outVars
  <2>2. CASE FPPop(f)
    BY <2>2 DEF FPPop, mainVars, lbVars, outVars, TypeOK, FPTypes
  <2>3. CASE FPEmit(f)
    BY <2>3 DEF FPEmit, mainVars, lbVars, StopOrder
  <2> QED
    BY <1>2, <2>1, <2>2, <2>3 DEF FPStep
<1>3. CASE OutStep
  BY <1>3 DEF OutStep, OutCheck, OutPop, OutNoJob, OutWrite, mainVars, lbVars, fpVars
<1> QED
  BY <1>1, <1>2, <1>3

(* Every step keeps what main() knows of the queues. *)
LEMMA NextDrain == TypeOK /\ StopOrder /\ DrainOrder /\ [Next]_vars => DrainOrder'
<1> SUFFICES ASSUME TypeOK, StopOrder, DrainOrder, [Next]_vars PROVE DrainOrder'
  OBVIOUS
<1>1. CASE UNCHANGED vars
  BY <1>1 DEF vars, mainVars, lbVars, fpVars, outVars, DrainOrder, LBsDrained, FPsDrained,
              OutputEnds
<1> QED
  BY <1>1, MainKeepsDrain, WorkersKeepDrain DEF Next, Finished

(* At the end nobody holds a packet, and unless a drain gave up no queue   *)
(* but the output file has one.                                            *)
LEMMA EndState == TypeOK /\ StopOrder /\ DrainOrder /\ PacketInv => LossOnlyByTimeout
<1> SUFFICES ASSUME TypeOK, StopOrder, DrainOrder, PacketInv, mpc = "done", ~drainTimedOut,
                    NEW p \in Accepted
             PROVE  p \in dropped \/ Holds(written, p)
  BY DEF LossOnlyByTimeout
<1>1. /\ \A l \in LBs : lbq[l] = <<>> /\ lpc[l] = "exit"
      /\ \A f \in FPs : fpq[f] = <<>> /\ fpc[f] = "exit"
      /\ outq = <<>> /\ opc = "exit"
  BY DEF DrainOrder, LBsDrained, FPsDrained, OutputEnds, StopOrder, AfterLBs, AfterFPs,
         AfterDrainFP
<1>2. Range(<<>>) = {}
  BY DEF Range
<1>3. /\ AtReader = {} /\ InLBs = {} /\ LBHands = {} /\ InFPs = {} /\ FPHands = {}
      /\ InOut = {} /\ OutHand = {}
  BY <1>1, <1>2 DEF AtReader, InLBs, LBHands, InFPs, FPHands, InOut, OutHand
<1>4. Accepted = InFile \cup dropped
  BY <1>3 DEF PacketInv, Everywhere, Queued, Routed, Delivered, Popped, Processed, Sent, Taken
<1> QED
  BY <1>4 DEF InFile, Range, Holds

(* For any layout and capture: unless a drain gave up, every packet that   *)
(* was read is decided when main() returns, and a forwarded one is in the  *)
(* output file.                                                            *)
THEOREM OnlyTimeoutsLose == Spec => []LossOnlyByTimeout
<1>1. Init => StopOrder
  BY DEF Init, StopOrder, AfterLBs, AfterFPs
<1>2. Init => DrainOrder
  BY DEF Init, DrainOrder, LBsDrained, FPsDrained, OutputEnds, AfterLBs, AfterFPs,
         BeforeDrainFP, AfterDrainFP
<1> QED
  BY <1>1, <1>2, InitPackets, NextPackets, NextOrder, NextDrain, TypeCorrect, EndState, PTL
     DEF Spec

-----------------------------------------------------------------------------
(* The counters of the report *)

Emitters == {f \in FPs : fpc[f] = "emit"}
Deciding == {f \in FPs : fpc[f] = "process"}
Waiting  == [f \in FPs |-> Len(fpq[f])]

(* The counters while packets are on their way: what is in a hand is       *)
(* counted on one side of the hand-over only.                              *)
SentCounts == /\ totalForwarded = Total(fpForwarded) + Cardinality(Emitters)
              /\ Total(fpForwarded) = Len(written) + Len(outq) + (IF opc = "write" THEN 1 ELSE 0)
DropCounts == /\ totalDropped = Total(fpDropped)
              /\ IsFiniteSet(dropped) /\ totalDropped = Cardinality(dropped)
LBCounts   == \A l \in LBs : received[l] = dispatched[l] + (IF lpc[l] = "push" THEN 1 ELSE 0)
FPCounts   == Total(dispatched) = totalForwarded + totalDropped + Total(Waiting)
                                  + Cardinality(Deciding)
Tallied == SentCounts /\ DropCounts /\ LBCounts /\ FPCounts

(* The sums are over finitely many threads. *)
LEMMA Tallies ==
    ASSUME TypeOK
    PROVE  /\ IsTally(fpForwarded) /\ IsTally(fpDropped) /\ IsTally(dispatched)
           /\ IsTally(Waiting)
           /\ Total(fpForwarded) \in Nat /\ Total(fpDropped) \in Nat
           /\ Total(dispatched) \in Nat /\ Total(Waiting) \in Nat
           /\ IsFiniteSet(Emitters) /\ Cardinality(Emitters) \in Nat
           /\ IsFiniteSet(Deciding) /\ Cardinality(Deciding) \in Nat
<1>1. IsFiniteSet(LBs) /\ IsFiniteSet(FPs)
  <2>1. 0 \in Int /\ NumLBs - 1 \in Int /\ NumFPs - 1 \in Int
    BY ConstantFacts
  <2> QED
    BY <2>1, FS_Interval DEF LBs, FPs
<1>2. /\ IsTally(fpForwarded) /\ IsTally(fpDropped) /\ IsTally(dispatched)
      /\ IsTally(Waiting)
  <2>1. Waiting \in [FPs -> Nat]
    BY DEF Waiting, TypeOK, FPTypes
  <2> QED
    BY <1>1, <2>1 DEF IsTally, TypeOK, LBTypes, FPTypes
<1>3. IsFiniteSet(Emitters) /\ IsFiniteSet(Deciding)
  <2>1. Emitters \in SUBSET FPs /\ Deciding \in SUBSET FPs
    BY DEF Emitters, Deciding
  <2> QED
    BY <1>1, <2>1, FS_Subset
<1> QED
  BY <1>2, <1>3, TotalIsNat, FS_CardinalityType

(* Steps that touch no counter, queue or hand keep the counts. *)
LEMMA TallySame ==
    ASSUME Tallied,
           UNCHANGED <<totalForwarded, totalDropped, fpForwarded, fpDropped, dropped, received,
                       dispatched, fpq, outq, written>>,
           \A l \in LBs : lpc'[l] = "push" <=> lpc[l] = "push",
           \A f \in FPs : (fpc'[f] = "process" <=> fpc[f] = "process")
                       /\ (fpc'[f] = "emit" <=> fpc[f] = "emit"),
           opc' = "write" <=> opc = "write"
    PROVE  Tallied'
<1>1. Emitters' = Emitters /\ Deciding' = Deciding /\ Waiting' = Waiting
  BY DEF Emitters, Deciding, Waiting
<1> QED
  BY <1>1 DEF Tallied, SentCounts, DropCounts, LBCounts, FPCounts

(* packets_received_ is bumped at the pop. *)
LEMMA LBPopTallies ==
    ASSUME TypeOK, Tallied, NEW l \in LBs, LBPop(l)
    PROVE  Tallied'
<1>1. /\ UNCHANGED <<fpVars, outVars, dispatched>> /\ lpc[l] # "push"
      /\ received' = [received EXCEPT ![l] = @ + 1] /\ lpc' = [lpc EXCEPT ![l] = "push"]
      /\ received \in [LBs -> Nat] /\ dispatched \in [LBs -> Nat]
      /\ lpc \in [LBs -> {"check", "pop", "push", "exit"}]
  BY DEF LBPop, TypeOK, LBTypes
<1>2. LBCounts'
  BY <1>1 DEF Tallied, LBCounts
<1>3. Emitters' = Emitters /\ Deciding' = Deciding /\ Waiting' = Waiting
  BY <1>1 DEF fpVars, Emitters, Deciding, Waiting
<1> QED
  BY <1>1, <1>2, <1>3 DEF fpVars, outVars, Tallied, SentCounts, DropCounts, FPCounts

(* packets_dispatched_ is bumped when the packet is in the FP's queue.     *)
LEMMA LBPushTallies ==
    ASSUME TypeOK, StopOrder, PacketInv, Tallied, NEW l \in LBs, LBPush(l)
    PROVE  Tallied'
<1> DEFINE p == ljob[l]
           to == SelectFP(l, p)
<1>1. lpc[l] = "push" /\ to \in FPs
  <2>1. p \in Accepted /\ LBOf(p) = l
    BY Placed DEF LBPush, PacketInv, LBOwns
  <2> QED
    BY <2>1, Dispatch DEF LBPush
<1>2. /\ UNCHANGED <<received, fpc, dropped, fpForwarded, fpDropped, totalForwarded,
                     totalDropped, outVars>>
      /\ fpq' = [fpq EXCEPT ![to] = Append(@, p)] /\ lpc' = [lpc EXCEPT ![l] = "check"]
      /\ dispatched' = [dispatched EXCEPT ![l] = @ + 1]
  <2>1. ~fpshut[to]
    BY <1>1 DEF StopOrder, TypeOK, MainTypes
  <2> QED
    BY <2>1 DEF LBPush, Pushed
<1>3. received \in [LBs -> Nat] /\ dispatched \in [LBs -> Nat]
      /\ lpc \in [LBs -> {"check", "pop", "push", "exit"}] /\ fpq \in [FPs -> Seq(Nat)]
      /\ p \in Nat
  BY DEF TypeOK, LBTypes, FPTypes
<1> HIDE DEF p, to
<1>4. LBCounts'
  BY <1>1, <1>2, <1>3 DEF Tallied, LBCounts
<1>5. Total(dispatched') = Total(dispatched) + 1
  <2>1. IsOneMore(dispatched', dispatched, l)
    BY <1>2, <1>3 DEF IsOneMore
  <2> QED
    BY <2>1, Tallies, TotalOfOneMore
<1>6. Total(Waiting') = Total(Waiting) + 1
  <2>1. fpq'[to] = Append(fpq[to], p) /\ \A g \in FPs : g # to => fpq'[g] = fpq[g]
    BY <1>1, <1>2, <1>3
  <2>2. Len(fpq'[to]) = Len(fpq[to]) + 1
    BY <1>1, <1>3, <2>1
  <2>3. IsOneMore(Waiting', Waiting, to)
    BY <1>1, <2>1, <2>2 DEF IsOneMore, Waiting
  <2> QED
    BY <2>3, Tallies, TotalOfOneMore
<1>7. Emitters' = Emitters /\ Deciding' = Deciding
  BY <1>2 DEF Emitters, Deciding
<1>8. FPCounts'
  BY <1>2, <1>5, <1>6, <1>7, Tallies DEF Tallied, FPCounts, TypeOK, FPTypes
<1> QED
  BY <1>2, <1>4, <1>7, <1>8 DEF outVars, Tallied, SentCounts, DropCounts

(* A thread that takes a packet decides it. *)
LEMMA FPPopTallies ==
    ASSUME TypeOK, Tallied, NEW f \in FPs, FPPop(f)
    PROVE  Tallied'
<1>1. /\ UNCHANGED <<lbVars, dropped, fpForwarded, fpDropped, totalForwarded, totalDropped,
                     outVars>>
      /\ fpc[f] = "pop" /\ fpq[f] # <<>>
      /\ fpq' = [fpq EXCEPT ![f] = Tail(@)] /\ fpc' = [fpc EXCEPT ![f] = "process"]
      /\ fpq \in [FPs -> Seq(Nat)] /\ fpc \in [FPs -> {"check", "pop", "process", "emit", "exit"}]
  BY DEF FPPop, TypeOK, FPTypes
<1>2. Total(Waiting) = Total(Waiting') + 1 /\ Total(Waiting') \in Nat
  <2>1. /\ fpq'[f] = Tail(fpq[f]) /\ Tail(fpq[f]) \in Seq(Nat)
        /\ Len(Tail(fpq[f])) = Len(fpq[f]) - 1
        /\ \A g \in FPs : g # f => fpq'[g] = fpq[g]
    BY <1>1
  <2>2. IsOneMore(Waiting, Waiting', f) /\ Waiting' \in [FPs -> Nat]
    BY <1>1, <2>1 DEF IsOneMore, Waiting
  <2>3. IsTally(Waiting')
    BY <2>2, Tallies DEF IsTally, Waiting
  <2> QED
    BY <2>2, <2>3, TotalOfOneMore, TotalIsNat
<1>3. Cardinality(Deciding') = Cardinality(Deciding) + 1
  <2>1. Deciding' = Deciding \cup {f} /\ f \notin Deciding
    BY <1>1 DEF Deciding
  <2> QED
    BY <2>1, Tallies, FS_AddElement
<1>4. Emitters' = Emitters
  BY <1>1 DEF Emitters
<1>5. FPCounts'
  <2>1. dispatched' = dispatched
    BY <1>1 DEF lbVars
  <2>2. totalForwarded \in Nat /\ totalDropped \in Nat
    BY DEF TypeOK, FPTypes
  <2> QED
    BY <1>1, <1>2, <1>3, <2>1, <2>2, Tallies DEF Tallied, FPCounts
<1> QED
  BY <1>1, <1>4, <1>5 DEF lbVars, outVars, Tallied, SentCounts, DropCounts, LBCounts

(* The callback and the thread count a DROP before the next packet.        *)
LEMMA FPDropTallies ==
    ASSUME TypeOK, PacketInv, Tallied, NEW f \in FPs, FPDrop(f)
    PROVE  Tallied'
<1>1. /\ UNCHANGED <<lbVars, fpq, fpForwarded, totalForwarded, outVars>>
      /\ fpc[f] = "process"
      /\ dropped' = dropped \cup {fjob[f]} /\ totalDropped' = totalDropped + 1
      /\ fpDropped' = [fpDropped EXCEPT ![f] = @ + 1] /\ fpc' = [fpc EXCEPT ![f] = "check"]
      /\ fpc \in [FPs -> {"check", "pop", "process", "emit", "exit"}]
      /\ fpDropped \in [FPs -> Nat]
  BY DEF FPDrop, TypeOK, FPTypes
<1>2. Total(fpDropped') = Total(fpDropped) + 1
  <2>1. IsOneMore(fpDropped', fpDropped, f)
    BY <1>1 DEF IsOneMore
  <2> QED
    BY <2>1, Tallies, TotalOfOneMore
<1>3. IsFiniteSet(dropped') /\ Cardinality(dropped') = Cardinality(dropped) + 1
  <2>1. fjob[f] \notin dropped
    BY <1>1, Placed DEF PacketInv, Apart, Processed
  <2> QED
    BY <1>1, <2>1, FS_AddElement DEF Tallied, DropCounts
<1>4. Cardinality(Deciding) = Cardinality(Deciding') + 1 /\ Cardinality(Deciding') \in Nat
  <2>1. Deciding' = Deciding \ {f} /\ f \in Deciding
    BY <1>1 DEF Deciding
  <2>2. IsFiniteSet(Deciding') /\ Cardinality(Deciding') = Cardinality(Deciding) - 1
    BY <2>1, Tallies, FS_RemoveElement
  <2> QED
    BY <2>2, Tallies, FS_CardinalityType
<1>5. Emitters' = Emitters /\ Waiting' = Waiting
  BY <1>1 DEF Emitters, Waiting
<1>6. FPCounts'
  <2>1. dispatched' = dispatched
    BY <1>1 DEF lbVars
  <2>2. totalForwarded \in Nat /\ totalDropped \in Nat
    BY DEF TypeOK, FPTypes
  <2> QED
    BY <1>1, <1>4, <1>5, <2>1, <2>2, Tallies DEF Tallied, FPCounts
<1>7. DropCounts'
  BY <1>1, <1>2, <1>3 DEF Tallied, DropCounts
<1> QED
  BY <1>1, <1>5, <1>6, <1>7 DEF lbVars, outVars, Tallied, SentCounts, LBCounts

(* The callback counts a FORWARD before it pushes. *)
LEMMA FPForwardTallies ==
    ASSUME TypeOK, Tallied, NEW f \in FPs, FPForward(f)
    PROVE  Tallied'
<1>1. /\ UNCHANGED <<lbVars, fpq, dropped, fpForwarded, fpDropped, totalDropped, outVars>>
      /\ fpc[f] = "process" /\ totalForwarded' = totalForwarded + 1
      /\ fpc' = [fpc EXCEPT ![f] = "emit"]
      /\ fpc \in [FPs -> {"check", "pop", "process", "emit", "exit"}]
  BY DEF FPForward, TypeOK, FPTypes
<1>2. Cardinality(Deciding) = Cardinality(Deciding') + 1 /\ Cardinality(Deciding') \in Nat
  <2>1. Deciding' = Deciding \ {f} /\ f \in Deciding
    BY <1>1 DEF Deciding
  <2>2. IsFiniteSet(Deciding') /\ Cardinality(Deciding') = Cardinality(Deciding) - 1
    BY <2>1, Tallies, FS_RemoveElement
  <2> QED
    BY <2>2, Tallies, FS_CardinalityType
<1>3. Cardinality(Emitters') = Cardinality(Emitters) + 1
  <2>1. Emitters' = Emitters \cup {f} /\ f \notin Emitters
    BY <1>1 DEF Emitters
  <2> QED
    BY <2>1, Tallies, FS_AddElement
<1>4. Waiting' = Waiting
  BY <1>1 DEF Waiting
<1>5. FPCounts'
  <2>1. dispatched' = dispatched
    BY <1>1 DEF lbVars
  <2>2. totalForwarded \in Nat /\ totalDropped \in Nat
    BY DEF TypeOK, FPTypes
  <2> QED
    BY <1>1, <1>2, <1>4, <2>1, <2>2, Tallies DEF Tallied, FPCounts
<1>6. SentCounts'
  BY <1>1, <1>3, Tallies DEF outVars, Tallied, SentCounts
<1> QED
  BY <1>1, <1>5, <1>6 DEF lbVars, Tallied, DropCounts, LBCounts

(* The thread counts a FORWARD after the push. *)
LEMMA FPEmitTallies ==
    ASSUME TypeOK, StopOrder, Tallied, NEW f \in FPs, FPEmit(f)
    PROVE  Tallied'
<1>1. /\ UNCHANGED <<lbVars, fpq, dropped, fpDropped, totalForwarded, totalDropped, opc,
                     written>>
      /\ fpc[f] = "emit" /\ fpForwarded' = [fpForwarded EXCEPT ![f] = @ + 1]
      /\ fpc' = [fpc EXCEPT ![f] = "check"] /\ outq' = Append(outq, fjob[f])
  <2>1. ~outshut
    BY DEF StopOrder, AfterFPs, FPEmit
  <2> QED
    BY <2>1 DEF FPEmit, Pushed
<1>2. /\ fpc \in [FPs -> {"check", "pop", "process", "emit", "exit"}]
      /\ fpForwarded \in [FPs -> Nat] /\ outq \in Seq(Nat) /\ fjob[f] \in Nat
      /\ Len(written) \in Nat
  BY DEF TypeOK, FPTypes, OutTypes
<1>3. Total(fpForwarded') = Total(fpForwarded) + 1
  <2>1. IsOneMore(fpForwarded', fpForwarded, f)
    BY <1>1, <1>2 DEF IsOneMore
  <2> QED
    BY <2>1, Tallies, TotalOfOneMore
<1>4. Cardinality(Emitters) = Cardinality(Emitters') + 1 /\ Cardinality(Emitters') \in Nat
  <2>1. Emitters' = Emitters \ {f} /\ f \in Emitters
    BY <1>1, <1>2 DEF Emitters
  <2>2. IsFiniteSet(Emitters') /\ Cardinality(Emitters') = Cardinality(Emitters) - 1
    BY <2>1, Tallies, FS_RemoveElement
  <2> QED
    BY <2>2, Tallies, FS_CardinalityType
<1>5. Len(outq') = Len(outq) + 1 /\ Len(outq) \in Nat
  BY <1>1, <1>2
<1>6. Deciding' = Deciding /\ Waiting' = Waiting
  BY <1>1, <1>2 DEF Deciding, Waiting
<1>7. SentCounts'
  BY <1>1, <1>2, <1>3, <1>4, <1>5, Tallies DEF Tallied, SentCounts
<1> QED
  BY <1>1, <1>6, <1>7 DEF lbVars, Tallied, DropCounts, LBCounts, FPCounts

(* From the output queue through the thread's hand into the file.          *)
LEMMA OutputTallies ==
    ASSUME TypeOK, Tallied, OutPop \/ OutWrite
    PROVE  Tallied'
<1>1. Emitters' = Emitters /\ Deciding' = Deciding /\ Waiting' = Waiting
  BY DEF OutPop, OutWrite, fpVars, Emitters, Deciding, Waiting
<1>2. outq \in Seq(Nat) /\ written \in Seq(Nat) /\ ojob \in Nat
  BY DEF TypeOK, OutTypes
<1>3. Len(written') + Len(outq') + (IF opc' = "write" THEN 1 ELSE 0)
        = Len(written) + Len(outq) + (IF opc = "write" THEN 1 ELSE 0)
  <2>1. CASE OutPop
    BY <1>2, <2>1 DEF OutPop
  <2>2. CASE OutWrite
    BY <1>2, <2>2 DEF OutWrite
  <2> QED
    BY <2>1, <2>2
<1>4. UNCHANGED <<lbVars, fpVars>>
  BY DEF OutPop, OutWrite
<1> QED
  BY <1>1, <1>3, <1>4 DEF lbVars, fpVars, Tallied, SentCounts, DropCounts, LBCounts, FPCounts

(* The main thread counts nothing. *)
LEMMA MainTallies ==
    ASSUME Tallied, MainStep \/ DrainTimeout
    PROVE  Tallied'
<1>1. UNCHANGED <<received, dispatched, lpc, fpc, fpq, dropped, fpForwarded, fpDropped,
                  totalForwarded, totalDropped, outq, opc, written>>
  <2>1. CASE ReadPacket \/ EndOfFile \/ PushToLB
    BY <2>1 DEF ReadPacket, EndOfFile, PushToLB, lbVars, fpVars, outVars
  <2>2. CASE DrainLBs \/ DrainTimeout \/ StopLB \/ ShutLB \/ JoinLB
    BY <2>2 DEF DrainLBs, DrainTimeout, StopLB, ShutLB, JoinLB, lbVars, fpVars, outVars
  <2>3. CASE DrainFPs \/ StopFP \/ ShutFP \/ JoinFP
    BY <2>3 DEF DrainFPs, StopFP, ShutFP, JoinFP, lbVars, fpVars, outVars
  <2>4. CASE StopOutput \/ ShutOutput \/ JoinOutput
    BY <2>4 DEF StopOutput, ShutOutput, JoinOutput, lbVars, fpVars, outVars
  <2> QED
    BY <2>1, <2>2, <2>3, <2>4 DEF MainStep
<1> QED
  BY <1>1, TallySame

(* Nor does a thread that checks its flag or finds no packet. *)
LEMMA IdleTallies ==
    ASSUME TypeOK, Tallied,
           \/ \E l \in LBs : LBCheck(l) \/ LBNoJob(l)
           \/ \E f \in FPs : FPCheck(f) \/ FPNoJob(f)
           \/ OutCheck \/ OutNoJob
    PROVE  Tallied'
<1>1. Unmoved
  BY LBMovesNothing, FPMovesNothing, OutMovesNothing
<1>2. UNCHANGED <<received, dispatched, fpForwarded, fpDropped, totalForwarded, totalDropped>>
  <2>1. ASSUME NEW l \in LBs, LBCheck(l) \/ LBNoJob(l)
        PROVE  UNCHANGED <<received, dispatched, fpVars>>
    BY <2>1 DEF LBCheck, LBNoJob
  <2>2. ASSUME NEW f \in FPs, FPCheck(f) \/ FPNoJob(f)
        PROVE  UNCHANGED <<lbVars, fpForwarded, fpDropped, totalForwarded, totalDropped>>
    BY <2>2 DEF FPCheck, FPNoJob
  <2>3. CASE OutCheck \/ OutNoJob
    BY <2>3 DEF OutCheck, OutNoJob, lbVars, fpVars
  <2> QED
    BY <2>1, <2>2, <2>3 DEF lbVars, fpVars
<1> QED
  BY <1>1, <1>2, TallySame DEF Unmoved

(* Every step keeps the counters in agreement. *)
LEMMA NextTallies == TypeOK /\ StopOrder /\ PacketInv /\ Tallied /\ [Next]_vars => Tallied'
<1> SUFFICES ASSUME TypeOK, StopOrder, PacketInv, Tallied, [Next]_vars PROVE Tallied'
  OBVIOUS
<1>1. CASE UNCHANGED vars
  BY <1>1, TallySame DEF vars, lbVars, fpVars, outVars
<1>2. CASE MainStep \/ DrainTimeout
  BY <1>2, MainTallies
<1>3. ASSUME NEW l \in LBs, LBStep(l) PROVE Tallied'
  BY <1>3, IdleTallies, LBPopTallies, LBPushTallies DEF LBStep
<1>4. ASSUME NEW f \in FPs, FPStep(f) PROVE Tallied'
  BY <1>4, IdleTallies, FPPopTallies, FPDropTallies, FPForwardTallies, FPEmitTallies DEF FPStep
<1>5. CASE OutStep
  BY <1>5, IdleTallies, OutputTallies DEF OutStep
<1> QED
  BY <1>1, <1>2, <1>3, <1>4, <1>5 DEF Next, Finished

(* Nothing is counted before the threads start. *)
LEMMA InitTallies == Init => Tallied
<1> SUFFICES ASSUME Init PROVE Tallied
  OBVIOUS
<1>1. /\ fpForwarded = [f \in FPs |-> 0] /\ fpDropped = [f \in FPs |-> 0]
      /\ dispatched = [l \in LBs |-> 0] /\ received = [l \in LBs |-> 0]
      /\ totalForwarded = 0 /\ totalDropped = 0 /\ dropped = {} /\ written = <<>> /\ outq = <<>>
      /\ opc = "check" /\ (\A l \in LBs : lpc[l] = "check")
      /\ \A f \in FPs : fpc[f] = "check" /\ fpq[f] = <<>>
  BY DEF Init
<1>2. Emitters = {} /\ Deciding = {} /\ \A f \in FPs : Waiting[f] = 0
  BY <1>1 DEF Emitters, Deciding, Waiting
<1>3. /\ Total(fpForwarded) = 0 /\ Total(fpDropped) = 0 /\ Total(dispatched) = 0
      /\ Total(Waiting) = 0
  <2>1. DOMAIN Waiting = FPs
    BY DEF Waiting
  <2> QED
    BY <1>1, <1>2, <2>1, TotalOfZeros
<1>4. IsFiniteSet({}) /\ Cardinality({}) = 0
  BY FS_EmptySet
<1>5. SentCounts /\ DropCounts
  BY <1>1, <1>2, <1>3, <1>4 DEF SentCounts, DropCounts
<1>6. LBCounts /\ FPCounts
  BY <1>1, <1>2, <1>3, <1>4 DEF LBCounts, FPCounts
<1> QED
  BY <1>5, <1>6 DEF Tallied

(* When every thread has ended no hand holds a packet and the counters are *)
(* those of the report.                                                    *)
LEMMA EndTallies == TypeOK /\ StopOrder /\ OutputEnds /\ Tallied => ReportConsistent
<1> SUFFICES ASSUME TypeOK, StopOrder, OutputEnds, Tallied, mpc = "done"
             PROVE  /\ totalForwarded = Len(written) /\ totalForwarded = Total(fpForwarded)
                    /\ totalDropped = Cardinality(dropped) /\ totalDropped = Total(fpDropped)
                    /\ received = dispatched
                    /\ Total(dispatched) = totalForwarded + totalDropped + Total(Waiting)
  BY DEF ReportConsistent, Waiting
<1>1. /\ \A l \in LBs : lpc[l] = "exit"
      /\ \A f \in FPs : fpc[f] = "exit"
      /\ outq = <<>> /\ opc = "exit"
  BY DEF OutputEnds, StopOrder, AfterLBs, AfterFPs
<1>2. Emitters = {} /\ Deciding = {} /\ Cardinality({}) = 0
  BY <1>1, FS_EmptySet DEF Emitters, Deciding
<1>3. /\ totalForwarded \in Nat /\ totalDropped \in Nat /\ Len(written) \in Nat
      /\ received \in [LBs -> Nat] /\ dispatched \in [LBs -> Nat]
  BY DEF TypeOK, LBTypes, FPTypes, OutTypes
<1>4. totalForwarded = Total(fpForwarded) /\ Total(fpForwarded) = Len(written)
  BY <1>1, <1>2, <1>3, Tallies DEF Tallied, SentCounts
<1>5. received = dispatched
  <2>1. \A l \in LBs : received[l] = dispatched[l]
    BY <1>1, <1>3 DEF Tallied, LBCounts
  <2> QED
    BY <1>3, <2>1
<1>6. Total(dispatched) = totalForwarded + totalDropped + Total(Waiting)
  BY <1>2, <1>3, Tallies DEF Tallied, FPCounts
<1> QED
  BY <1>4, <1>5, <1>6 DEF Tallied, DropCounts

(* For any layout and capture, and whatever drain gives up: the counters   *)
(* of the report agree with each other and with the output file.           *)
THEOREM ReportAgrees == Spec => []ReportConsistent
<1>1. Init => StopOrder
  BY DEF Init, StopOrder, AfterLBs, AfterFPs
<1>2. Init => DrainOrder
  BY DEF Init, DrainOrder, LBsDrained, FPsDrained, OutputEnds, AfterLBs, AfterFPs,
         BeforeDrainFP, AfterDrainFP
<1>3. DrainOrder => OutputEnds
  BY DEF DrainOrder
<1> QED
  BY <1>1, <1>2, <1>3, InitPackets, NextPackets, NextOrder, NextDrain, InitTallies,
     NextTallies, EndTallies, TypeCorrect, PTL DEF Spec
=============================================================================
