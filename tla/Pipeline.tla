------------------------------ MODULE Pipeline ------------------------------
(***************************************************************************)
(* The multi-threaded engine of src/dpi_mt.cpp: the reader on the main     *)
(* thread, the load balancers, the fast path threads and the output        *)
(* thread, the queues between them and the ordered shutdown.               *)
(*                                                                         *)
(* A queue operation takes effect in one step, as ThreadSafeQueue is       *)
(* shown to implement it; a push into a full queue waits.  A packet is its *)
(* position in the capture; what the fast path decides about it is left    *)
(* open here.  Times are left out: popWithTimeout() may report a timeout   *)
(* whenever its queue is empty and a drain may give up whenever its queue  *)
(* is not.                                                                 *)
(***************************************************************************)
EXTENDS Counting, Sequences

CONSTANTS
    NumLBs,      \* --lbs
    FPsPerLB,    \* --fps
    Flows,       \* the five-tuples
    Hash,        \* FiveTupleHash
    Junk,        \* a frame the reader skips: malformed, or not TCP or UDP
    Captures,    \* the input files, each the sequence of its frames' flows
    LBCap, FPCap, OutCap   \* max_size of the LB, FP and output queues

ASSUME LayoutAssumption == NumLBs \in Nat \ {0} /\ FPsPerLB \in Nat \ {0}
ASSUME HashAssumption == Hash \in [Flows -> Nat]
ASSUME CapAssumption == {LBCap, FPCap, OutCap} \subseteq Nat \ {0}
ASSUME CaptureAssumption == Junk \notin Flows /\ Captures \subseteq Seq(Flows \cup {Junk})

NumFPs == NumLBs * FPsPerLB       \* total_fps
LBs == 0..(NumLBs - 1)
FPs == 0..(NumFPs - 1)

VARIABLES
    capture,         \* the input file
    pos,             \* how many of its frames the reader has read
    mpc, mi,         \* the main thread: its next step, its loop index
    drainTimedOut,   \* a waitForQueueDrain() gave up (history)
    lbq, lbshut, lbrun, lpc, ljob,     \* LBs: queue, its shutdown_, running_, step, job
    fpq, fpshut, fprun, fpc, fjob,     \* FPs: the same
    outq, outshut, outrun, opc, ojob,  \* output thread: the same, output_running
    written,         \* the output file
    dropped,         \* packets the fast path dropped (history)
    received, dispatched,              \* per LB: packets_received_, packets_dispatched_
    fpForwarded, fpDropped,            \* per FP: packets_forwarded_, packets_dropped_
    totalForwarded, totalDropped       \* counters of the output callback

mainVars == <<capture, pos, mpc, mi, drainTimedOut>>
lbVars   == <<lbq, lbshut, lbrun, lpc, ljob, received, dispatched>>
fpVars   == <<fpq, fpshut, fprun, fpc, fjob, dropped, fpForwarded, fpDropped,
              totalForwarded, totalDropped>>
outVars  == <<outq, outshut, outrun, opc, ojob, written>>
vars     == <<mainVars, lbVars, fpVars, outVars>>

(* The threads are started before the first frame is read.                 *)
Init == /\ capture \in Captures
        /\ pos = 0 /\ mpc = "read" /\ mi = 0 /\ drainTimedOut = FALSE
        /\ lbq = [l \in LBs |-> <<>>] /\ lbshut = [l \in LBs |-> FALSE]
        /\ lbrun = [l \in LBs |-> TRUE]
        /\ lpc = [l \in LBs |-> "check"] /\ ljob = [l \in LBs |-> 0]
        /\ fpq = [f \in FPs |-> <<>>] /\ fpshut = [f \in FPs |-> FALSE]
        /\ fprun = [f \in FPs |-> TRUE]
        /\ fpc = [f \in FPs |-> "check"] /\ fjob = [f \in FPs |-> 0]
        /\ outq = <<>> /\ outshut = FALSE /\ outrun = TRUE
        /\ opc = "check" /\ ojob = 0
        /\ written = <<>> /\ dropped = {}
        /\ received = [l \in LBs |-> 0] /\ dispatched = [l \in LBs |-> 0]
        /\ fpForwarded = [f \in FPs |-> 0] /\ fpDropped = [f \in FPs |-> 0]
        /\ totalForwarded = 0 /\ totalDropped = 0

(* push() returns once there is room or the queue is shut down; it adds    *)
(* the job only to a queue that is not.                                    *)
PushReturns(q, cap, shut) == Len(q) < cap \/ shut
Pushed(q, shut, p) == IF shut THEN q ELSE Append(q, p)

(* getLBForPacket() *)
LBOf(p) == Hash[capture[p]] % NumLBs

(* Fault: the packets of a flow are spread over the FPs of their LB. *)
SelectFP_RoundRobin(l, p) == l * FPsPerLB + (p % FPsPerLB)

(* selectFP() of LB l, as an index into all FPs: LBManager gave LB l the   *)
(* slice of FPsPerLB queues that starts at l * FPsPerLB.                   *)
SelectFP(l, p) == l * FPsPerLB + (Hash[capture[p]] % FPsPerLB)

-----------------------------------------------------------------------------
(* Main thread: the reader loop *)

ReadPacket == /\ mpc = "read" /\ pos < Len(capture)
              /\ pos' = pos + 1
              /\ mpc' = IF capture[pos + 1] = Junk THEN "read" ELSE "push"
              /\ UNCHANGED <<capture, mi, drainTimedOut, lbVars, fpVars, outVars>>

(* Fault: the reader does not wait for room. *)
PushToLB_NoBackpressure ==
    LET l == LBOf(pos)
    IN /\ mpc = "push"
       /\ lbq' = [lbq EXCEPT ![l] = Pushed(@, lbshut[l], pos)]
       /\ mpc' = "read"
       /\ UNCHANGED <<capture, pos, mi, drainTimedOut, lbshut, lbrun, lpc, ljob,
                      received, dispatched, fpVars, outVars>>

PushToLB == LET l == LBOf(pos)
            IN /\ mpc = "push"
               /\ PushReturns(lbq[l], LBCap, lbshut[l])
               /\ lbq' = [lbq EXCEPT ![l] = Pushed(@, lbshut[l], pos)]
               /\ mpc' = "read"
               /\ UNCHANGED <<capture, pos, mi, drainTimedOut, lbshut, lbrun, lpc, ljob,
                              received, dispatched, fpVars, outVars>>

EndOfFile == /\ mpc = "read" /\ pos = Len(capture)
             /\ mpc' = "drainLB" /\ mi' = 0
             /\ UNCHANGED <<capture, pos, drainTimedOut, lbVars, fpVars, outVars>>

-----------------------------------------------------------------------------
(* Main thread: the ordered shutdown *)

(* The main thread goes on to step pc with loop index i. *)
Goto(pc, i) == /\ mpc' = pc /\ mi' = i
               /\ UNCHANGED <<capture, pos, drainTimedOut>>

(* Fault: the LB queues are not drained. *)
DrainLBs_NoWait == /\ mpc = "drainLB"
                   /\ IF mi < NumLBs THEN Goto("drainLB", mi + 1) ELSE Goto("stopLB", 0)
                   /\ UNCHANGED <<lbVars, fpVars, outVars>>

DrainLBs == /\ mpc = "drainLB"
            /\ IF mi < NumLBs THEN lbq[mi] = <<>> /\ Goto("drainLB", mi + 1)
                              ELSE Goto("stopLB", 0)
            /\ UNCHANGED <<lbVars, fpVars, outVars>>

(* waitForQueueDrain() gives up after two seconds.  Giving up on a queue    *)
(* that has just become empty is DrainLBs or DrainFPs.                     *)
DrainTimeout == /\ \/ mpc = "drainLB" /\ mi < NumLBs /\ lbq[mi] # <<>>
                   \/ mpc = "drainFP" /\ mi < NumFPs /\ fpq[mi] # <<>>
                /\ mi' = mi + 1 /\ drainTimedOut' = TRUE
                /\ UNCHANGED <<capture, pos, mpc, lbVars, fpVars, outVars>>

(* LoadBalancer::stop() for each LB in turn: running_, the queue, join().  *)
StopLB == /\ mpc = "stopLB"
          /\ IF mi < NumLBs THEN lbrun' = [lbrun EXCEPT ![mi] = FALSE] /\ Goto("shutLB", mi)
                            ELSE Goto("drainFP", 0) /\ UNCHANGED lbrun
          /\ UNCHANGED <<lbq, lbshut, lpc, ljob, received, dispatched, fpVars, outVars>>

ShutLB == /\ mpc = "shutLB"
          /\ lbshut' = [lbshut EXCEPT ![mi] = TRUE]
          /\ Goto("joinLB", mi)
          /\ UNCHANGED <<lbq, lbrun, lpc, ljob, received, dispatched, fpVars, outVars>>

(* Fault: the LB threads are not joined before the FPs are stopped. *)
JoinLB_Detached == /\ mpc = "joinLB"
                   /\ Goto("stopLB", mi + 1)
                   /\ UNCHANGED <<lbVars, fpVars, outVars>>

JoinLB == /\ mpc = "joinLB" /\ lpc[mi] = "exit"
          /\ Goto("stopLB", mi + 1)
          /\ UNCHANGED <<lbVars, fpVars, outVars>>

DrainFPs == /\ mpc = "drainFP"
            /\ IF mi < NumFPs THEN fpq[mi] = <<>> /\ Goto("drainFP", mi + 1)
                              ELSE Goto("stopFP", 0)
            /\ UNCHANGED <<lbVars, fpVars, outVars>>

(* FastPathProcessor::stop() for each FP in turn. *)
StopFP == /\ mpc = "stopFP"
          /\ IF mi < NumFPs THEN fprun' = [fprun EXCEPT ![mi] = FALSE] /\ Goto("shutFP", mi)
                            ELSE Goto("stopOut", 0) /\ UNCHANGED fprun
          /\ UNCHANGED <<lbVars, fpq, fpshut, fpc, fjob, dropped, fpForwarded, fpDropped,
                         totalForwarded, totalDropped, outVars>>

ShutFP == /\ mpc = "shutFP"
          /\ fpshut' = [fpshut EXCEPT ![mi] = TRUE]
          /\ Goto("joinFP", mi)
          /\ UNCHANGED <<lbVars, fpq, fprun, fpc, fjob, dropped, fpForwarded, fpDropped,
                         totalForwarded, totalDropped, outVars>>

(* Fault: the FP threads are not joined before the output queue is shut. *)
JoinFP_Detached == /\ mpc = "joinFP"
                   /\ Goto("stopFP", mi + 1)
                   /\ UNCHANGED <<lbVars, fpVars, outVars>>

JoinFP == /\ mpc = "joinFP" /\ fpc[mi] = "exit"
          /\ Goto("stopFP", mi + 1)
          /\ UNCHANGED <<lbVars, fpVars, outVars>>

StopOutput == /\ mpc = "stopOut"
              /\ outrun' = FALSE
              /\ Goto("shutOut", 0)
              /\ UNCHANGED <<lbVars, fpVars, outq, outshut, opc, ojob, written>>

ShutOutput == /\ mpc = "shutOut"
              /\ outshut' = TRUE
              /\ Goto("joinOut", 0)
              /\ UNCHANGED <<lbVars, fpVars, outq, outrun, opc, ojob, written>>

(* The report is printed from the counters as they are now. *)
JoinOutput == /\ mpc = "joinOut" /\ opc = "exit"
              /\ Goto("done", 0)
              /\ UNCHANGED <<lbVars, fpVars, outVars>>

-----------------------------------------------------------------------------
(* LoadBalancer::run() *)

LBCheck(l) == /\ lpc[l] = "check"
              /\ lpc' = [lpc EXCEPT ![l] = IF lbrun[l] THEN "pop" ELSE "exit"]
              /\ UNCHANGED <<mainVars, lbq, lbshut, lbrun, ljob, received, dispatched,
                             fpVars, outVars>>

LBPop(l) == /\ lpc[l] = "pop" /\ lbq[l] # <<>>
            /\ ljob' = [ljob EXCEPT ![l] = Head(lbq[l])]
            /\ lbq' = [lbq EXCEPT ![l] = Tail(@)]
            /\ received' = [received EXCEPT ![l] = @ + 1]
            /\ lpc' = [lpc EXCEPT ![l] = "push"]
            /\ UNCHANGED <<mainVars, lbshut, lbrun, dispatched, fpVars, outVars>>

(* Fault: the worker leaves its loop when a pop times out. *)
LBNoJob_Leaves(l) == /\ lpc[l] = "pop" /\ lbq[l] = <<>>
                     /\ lpc' = [lpc EXCEPT ![l] = "exit"]
                     /\ UNCHANGED <<mainVars, lbq, lbshut, lbrun, ljob, received, dispatched,
                                    fpVars, outVars>>

LBNoJob(l) == /\ lpc[l] = "pop" /\ lbq[l] = <<>>
              /\ lpc' = [lpc EXCEPT ![l] = "check"]
              /\ UNCHANGED <<mainVars, lbq, lbshut, lbrun, ljob, received, dispatched,
                             fpVars, outVars>>

LBPush(l) == LET f == SelectFP(l, ljob[l])
             IN /\ lpc[l] = "push"
                /\ PushReturns(fpq[f], FPCap, fpshut[f])
                /\ fpq' = [fpq EXCEPT ![f] = Pushed(@, fpshut[f], ljob[l])]
                /\ ljob' = [ljob EXCEPT ![l] = 0]
                /\ dispatched' = [dispatched EXCEPT ![l] = @ + 1]
                /\ lpc' = [lpc EXCEPT ![l] = "check"]
                /\ UNCHANGED <<mainVars, lbq, lbshut, lbrun, received, fpshut, fprun, fpc,
                               fjob, dropped, fpForwarded, fpDropped, totalForwarded,
                               totalDropped, outVars>>

-----------------------------------------------------------------------------
(* FastPathProcessor::run() and the output callback *)

FPCheck(f) == /\ fpc[f] = "check"
              /\ fpc' = [fpc EXCEPT ![f] = IF fprun[f] THEN "pop" ELSE "exit"]
              /\ UNCHANGED <<mainVars, lbVars, fpq, fpshut, fprun, fjob, dropped,
                             fpForwarded, fpDropped, totalForwarded, totalDropped, outVars>>

FPPop(f) == /\ fpc[f] = "pop" /\ fpq[f] # <<>>
            /\ fjob' = [fjob EXCEPT ![f] = Head(fpq[f])]
            /\ fpq' = [fpq EXCEPT ![f] = Tail(@)]
            /\ fpc' = [fpc EXCEPT ![f] = "process"]
            /\ UNCHANGED <<mainVars, lbVars, fpshut, fprun, dropped, fpForwarded, fpDropped,
                           totalForwarded, totalDropped, outVars>>

FPNoJob(f) == /\ fpc[f] = "pop" /\ fpq[f] = <<>>
              /\ fpc' = [fpc EXCEPT ![f] = "check"]
              /\ UNCHANGED <<mainVars, lbVars, fpq, fpshut, fprun, fjob, dropped,
                             fpForwarded, fpDropped, totalForwarded, totalDropped, outVars>>

(* processPacket() says DROP; the callback only counts. *)
FPDrop(f) == /\ fpc[f] = "process"
             /\ dropped' = dropped \cup {fjob[f]}
             /\ totalDropped' = totalDropped + 1
             /\ fpDropped' = [fpDropped EXCEPT ![f] = @ + 1]
             /\ fjob' = [fjob EXCEPT ![f] = 0]
             /\ fpc' = [fpc EXCEPT ![f] = "check"]
             /\ UNCHANGED <<mainVars, lbVars, fpq, fpshut, fprun, fpForwarded,
                            totalForwarded, outVars>>

(* processPacket() says FORWARD; the callback counts, then pushes. *)
FPForward(f) == /\ fpc[f] = "process"
                /\ totalForwarded' = totalForwarded + 1
                /\ fpc' = [fpc EXCEPT ![f] = "emit"]
                /\ UNCHANGED <<mainVars, lbVars, fpq, fpshut, fprun, fjob, dropped,
                               fpForwarded, fpDropped, totalDropped, outVars>>

FPEmit(f) == /\ fpc[f] = "emit"
             /\ PushReturns(outq, OutCap, outshut)
             /\ outq' = Pushed(outq, outshut, fjob[f])
             /\ fpForwarded' = [fpForwarded EXCEPT ![f] = @ + 1]
             /\ fjob' = [fjob EXCEPT ![f] = 0]
             /\ fpc' = [fpc EXCEPT ![f] = "check"]
             /\ UNCHANGED <<mainVars, lbVars, fpq, fpshut, fprun, dropped, fpDropped,
                            totalForwarded, totalDropped, outshut, outrun, opc, ojob, written>>

-----------------------------------------------------------------------------
(* The output thread *)

(* Fault: the output thread stops as soon as it is told to. *)
OutCheck_FlagOnly == /\ opc = "check"
                     /\ opc' = IF outrun THEN "pop" ELSE "exit"
                     /\ UNCHANGED <<mainVars, lbVars, fpVars, outq, outshut, outrun, ojob,
                                    written>>

OutCheck == /\ opc = "check"
            /\ opc' = IF outrun \/ outq # <<>> THEN "pop" ELSE "exit"
            /\ UNCHANGED <<mainVars, lbVars, fpVars, outq, outshut, outrun, ojob, written>>

OutPop == /\ opc = "pop" /\ outq # <<>>
          /\ ojob' = Head(outq)
          /\ outq' = Tail(outq)
          /\ opc' = "write"
          /\ UNCHANGED <<mainVars, lbVars, fpVars, outshut, outrun, written>>

OutNoJob == /\ opc = "pop" /\ outq = <<>>
            /\ opc' = "check"
            /\ UNCHANGED <<mainVars, lbVars, fpVars, outq, outshut, outrun, ojob, written>>

OutWrite == /\ opc = "write"
            /\ written' = Append(written, ojob)
            /\ ojob' = 0
            /\ opc' = "check"
            /\ UNCHANGED <<mainVars, lbVars, fpVars, outq, outshut, outrun>>

-----------------------------------------------------------------------------
MainStep == \/ ReadPacket \/ PushToLB \/ EndOfFile
            \/ DrainLBs \/ StopLB \/ ShutLB \/ JoinLB
            \/ DrainFPs \/ StopFP \/ ShutFP \/ JoinFP
            \/ StopOutput \/ ShutOutput \/ JoinOutput
LBStep(l) == LBCheck(l) \/ LBPop(l) \/ LBNoJob(l) \/ LBPush(l)
FPStep(f) == FPCheck(f) \/ FPPop(f) \/ FPNoJob(f) \/ FPDrop(f) \/ FPForward(f) \/ FPEmit(f)
OutStep   == OutCheck \/ OutPop \/ OutNoJob \/ OutWrite

(* main() returned. *)
Finished == mpc = "done" /\ UNCHANGED vars

Next == \/ MainStep \/ DrainTimeout
        \/ \E l \in LBs : LBStep(l)
        \/ \E f \in FPs : FPStep(f)
        \/ OutStep
        \/ Finished

Spec == Init /\ [][Next]_vars

(* The operating system runs every thread that can run.  No fairness for   *)
(* DrainTimeout: nothing may depend on giving up.                          *)
FairSpec == /\ Spec
            /\ WF_vars(MainStep)
            /\ \A l \in LBs : WF_vars(LBStep(l))
            /\ \A f \in FPs : WF_vars(FPStep(f))
            /\ WF_vars(OutStep)

-----------------------------------------------------------------------------
MainTypes ==
    /\ capture \in Captures /\ pos \in 0..Len(capture)
    /\ mpc \in {"read", "push", "drainLB", "stopLB", "shutLB", "joinLB", "drainFP", "stopFP",
                "shutFP", "joinFP", "stopOut", "shutOut", "joinOut", "done"}
    /\ mpc = "push" => pos > 0 /\ capture[pos] # Junk
    /\ mi \in Nat /\ drainTimedOut \in BOOLEAN
    /\ mpc \in {"shutLB", "joinLB"} => mi \in LBs
    /\ mpc \in {"shutFP", "joinFP"} => mi \in FPs
LBTypes ==
    /\ lbq \in [LBs -> Seq(Nat)] /\ \A l \in LBs : Len(lbq[l]) <= LBCap
    /\ lbshut \in [LBs -> BOOLEAN] /\ lbrun \in [LBs -> BOOLEAN]
    /\ lpc \in [LBs -> {"check", "pop", "push", "exit"}] /\ ljob \in [LBs -> Nat]
    /\ received \in [LBs -> Nat] /\ dispatched \in [LBs -> Nat]
FPTypes ==
    /\ fpq \in [FPs -> Seq(Nat)] /\ \A f \in FPs : Len(fpq[f]) <= FPCap
    /\ fpshut \in [FPs -> BOOLEAN] /\ fprun \in [FPs -> BOOLEAN]
    /\ fpc \in [FPs -> {"check", "pop", "process", "emit", "exit"}] /\ fjob \in [FPs -> Nat]
    /\ dropped \subseteq Nat
    /\ fpForwarded \in [FPs -> Nat] /\ fpDropped \in [FPs -> Nat]
    /\ totalForwarded \in Nat /\ totalDropped \in Nat
OutTypes ==
    /\ outq \in Seq(Nat) /\ Len(outq) <= OutCap
    /\ outshut \in BOOLEAN /\ outrun \in BOOLEAN
    /\ opc \in {"check", "pop", "write", "exit"} /\ ojob \in Nat
    /\ written \in Seq(Nat)

(* Every variable has its type and no queue grows beyond its max_size. *)
TypeOK == MainTypes /\ LBTypes /\ FPTypes /\ OutTypes

Accepted == {p \in 1..pos : capture[p] # Junk}
Holds(q, p) == \E i \in DOMAIN q : q[i] = p

(* Where packet p is; in a queue or in the output file also at which index. *)
Places(p) ==
    {x \in {<<"reader", 0, 0>>} : mpc = "push" /\ pos = p}
    \cup {x \in {"lbq"} \X LBs \X (1..LBCap) : x[3] \in DOMAIN lbq[x[2]] /\ lbq[x[2]][x[3]] = p}
    \cup {x \in {"ljob"} \X LBs \X {0} : ljob[x[2]] = p}
    \cup {x \in {"fpq"} \X FPs \X (1..FPCap) : x[3] \in DOMAIN fpq[x[2]] /\ fpq[x[2]][x[3]] = p}
    \cup {x \in {"fjob"} \X FPs \X {0} : fjob[x[2]] = p}
    \cup {x \in {<<"dropped", 0, 0>>} : p \in dropped}
    \cup {x \in {"outq"} \X {0} \X (1..OutCap) : x[3] \in DOMAIN outq /\ outq[x[3]] = p}
    \cup {x \in {<<"ojob", 0, 0>>} : ojob = p}
    \cup {x \in {"written"} \X {0} \X DOMAIN written : written[x[3]] = p}

(* From the moment it is read every accepted packet is in exactly one      *)
(* place, through the moves between threads and the shutdown of every      *)
(* stage: none vanishes in a queue that refuses it and none is duplicated. *)
Conservation == \A p \in Accepted : Cardinality(Places(p)) = 1

(* No thread is ever about to push into a queue that was shut down, where  *)
(* push() would silently leave the packet out: each stage is stopped only  *)
(* after every thread that feeds it has ended.                             *)
NoPushIntoShutQueue ==
    /\ mpc \in {"read", "push"} => \A l \in LBs : ~lbshut[l]
    /\ \A l \in LBs : lpc[l] # "exit" => \A f \in FPs : ~fpshut[f]
    /\ \A f \in FPs : fpc[f] # "exit" => ~outshut

(* dpi_mt.cpp:481 and :489 as they hold: unless a drain gave up, every     *)
(* packet read was decided, and was written if it was forwarded.           *)
LossOnlyByTimeout ==
    mpc = "done" /\ ~drainTimedOut => \A p \in Accepted : p \in dropped \/ Holds(written, p)

(* The report adds up at the time it is printed, even after a drain gave   *)
(* up: "Forwarded" is what the output file holds (README.md:987), the FP   *)
(* threads and the callback agree, and what the LBs dispatched was         *)
(* processed or still sits in an FP queue.                                 *)
ReportConsistent ==
    mpc = "done" =>
        /\ totalForwarded = Len(written) /\ totalForwarded = Total(fpForwarded)
        /\ totalDropped = Cardinality(dropped) /\ totalDropped = Total(fpDropped)
        /\ received = dispatched
        /\ Total(dispatched) = totalForwarded + totalDropped
                                + Total([f \in FPs |-> Len(fpq[f])])

(* The packets decided FORWARD: on their way to the output file or in it.  *)
ForwardDecided == {p \in Accepted : \/ \E f \in FPs : fpc[f] = "emit" /\ fjob[f] = p
                                   \/ Holds(outq, p) \/ ojob = p \/ Holds(written, p)}

(* Although three stages of threads run side by side, each flow is handled *)
(* in the order of the capture, as PacketFilter says: the same flow always *)
(* takes the same LB and the same FP.                                      *)
Filter == INSTANCE PacketFilter WITH arrived <- pos, forwarded <- ForwardDecided
ImplementsPacketFilter == Filter!Spec

(* The run ends: neither full queues nor the joins of the shutdown leave   *)
(* the threads waiting for each other, and no drain needs to give up.      *)
Termination == <>(mpc = "done")

(* README.md:437 has the load balancers "distribute work across FPs": a    *)
(* run over flows of every hash value should leave no FP thread idle.      *)
NoIdleFP == mpc = "done" /\ ~drainTimedOut => \A f \in FPs : fpForwarded[f] + fpDropped[f] > 0
=============================================================================
