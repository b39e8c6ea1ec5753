-------------------------- MODULE ThreadSafeQueue --------------------------
(***************************************************************************)
(* ThreadSafeQueue<T> of include/thread_safe_queue.h: a bounded queue over *)
(* one mutex and two condition variables.  A critical section is one step; *)
(* what the mutex does not make atomic is kept apart: a thread asleep on a *)
(* condition variable, the same thread awake but not yet holding the mutex *)
(* again, a wait whose deadline passed, and the two notify_all() calls     *)
(* shutdown() makes after it released the mutex.                           *)
(***************************************************************************)
EXTENDS Naturals, Sequences, FiniteSets

CONSTANTS
    Producers,   \* threads that call push() and tryPush()
    Consumers,   \* threads that call pop() and popWithTimeout()
    Closers,     \* threads that call shutdown()
    Items,       \* the values of T
    MaxSize,     \* max_size_
    NullOpt      \* std::nullopt

ASSUME ThreadsAssumption == /\ IsFiniteSet(Producers)
                            /\ IsFiniteSet(Consumers)
ASSUME MaxSizeAssumption == MaxSize \in Nat \ {0}
ASSUME NullOptAssumption == NullOpt \notin Items

VARIABLES
    queue_,      \* the storage
    shutdown_,   \* the flag
    ppc,         \* where each producer is: "out" of the queue, asleep in
                 \* not_full_.wait ("wait"), or awake and after the mutex ("wake")
    arg,         \* the item a producer inside push() holds
    cpc,         \* the same for consumers and not_empty_; "expired" when the
                 \* deadline of wait_for passed
    timed,       \* TRUE while a consumer is inside popWithTimeout()
    kpc,         \* a closer's next step inside shutdown()
    pushed,      \* what a producer's last call did: "put" or "refused"
    popped       \* what a consumer's last call returned

vars == <<queue_, shutdown_, ppc, arg, cpc, timed, kpc, pushed, popped>>

Init == /\ queue_ = <<>>
        /\ shutdown_ = FALSE
        /\ ppc = [p \in Producers |-> "out"]
        /\ arg = [p \in Producers |-> NullOpt]
        /\ cpc = [c \in Consumers |-> "out"]
        /\ timed = [c \in Consumers |-> FALSE]
        /\ kpc = [k \in Closers |-> "out"]
        /\ pushed = [p \in Producers |-> "none"]
        /\ popped = [c \in Consumers |-> NullOpt]

(* The threads of pcs asleep on, or back from, a condition variable.       *)
Asleep(pcs) == {t \in DOMAIN pcs : pcs[t] = "wait"}
Awake(pcs)  == {t \in DOMAIN pcs : pcs[t] \in {"wake", "expired"}}

(* The outcomes of notify_one(): one sleeper, any of them, wakes up; the   *)
(* call is lost when nobody sleeps.                                        *)
NotifyOne(pcs) == IF Asleep(pcs) = {} THEN {pcs}
                  ELSE {[pcs EXCEPT ![t] = "wake"] : t \in Asleep(pcs)}
(* Fault: notify_one() where shutdown() needs notify_all(). *)
NotifyAll_OneOnly(pcs) == IF Asleep(pcs) = {} THEN pcs
                          ELSE [pcs EXCEPT ![CHOOSE t \in Asleep(pcs) : TRUE] = "wake"]
NotifyAll(pcs) == [t \in DOMAIN pcs |-> IF pcs[t] = "wait" THEN "wake" ELSE pcs[t]]

-----------------------------------------------------------------------------
(* Producers *)

(* Fault: the bound is off by one. *)
NotFull_OffByOne == Len(queue_) <= MaxSize
NotFull == Len(queue_) < MaxSize

(* push() finds its predicate false and sleeps on not_full_. *)
PushWaits(p, x) == /\ ~NotFull /\ ~shutdown_
                   /\ ppc' = [ppc EXCEPT ![p] = "wait"]
                   /\ arg' = [arg EXCEPT ![p] = x]
                   /\ UNCHANGED <<queue_, shutdown_, cpc, timed, kpc, pushed, popped>>

(* push() returns without adding its item, tryPush() returns false. *)
Refused(p) == /\ ppc' = [ppc EXCEPT ![p] = "out"]
              /\ arg' = [arg EXCEPT ![p] = NullOpt]
              /\ pushed' = [pushed EXCEPT ![p] = "refused"]
              /\ UNCHANGED <<queue_, shutdown_, cpc, timed, kpc, popped>>

(* Fault: consumers are notified only when the queue was empty. *)
Put_NotifyIfWasEmpty(p, x) ==
    /\ queue_' = Append(queue_, x)
    /\ cpc' \in IF queue_ = <<>> THEN NotifyOne(cpc) ELSE {cpc}
    /\ ppc' = [ppc EXCEPT ![p] = "out"]
    /\ arg' = [arg EXCEPT ![p] = NullOpt]
    /\ pushed' = [pushed EXCEPT ![p] = "put"]
    /\ UNCHANGED <<shutdown_, timed, kpc, popped>>

Put(p, x) == /\ queue_' = Append(queue_, x)
             /\ cpc' \in NotifyOne(cpc)
             /\ ppc' = [ppc EXCEPT ![p] = "out"]
             /\ arg' = [arg EXCEPT ![p] = NullOpt]
             /\ pushed' = [pushed EXCEPT ![p] = "put"]
             /\ UNCHANGED <<shutdown_, timed, kpc, popped>>

(* The body of push() from the evaluation of the predicate on. *)
PushBody(p, x) == \/ PushWaits(p, x)
                  \/ shutdown_ /\ Refused(p)
                  \/ ~shutdown_ /\ NotFull /\ Put(p, x)

Push(p, x) == ppc[p] = "out" /\ PushBody(p, x)

PushResume(p) == ppc[p] = "wake" /\ PushBody(p, arg[p])

TryPush(p, x) == /\ ppc[p] = "out"
                 /\ \/ (~NotFull \/ shutdown_) /\ Refused(p)
                    \/ NotFull /\ ~shutdown_ /\ Put(p, x)

(* A condition variable may wake a thread nobody notified. *)
SpuriousPushWake(p) == /\ ppc[p] = "wait"
                       /\ ppc' = [ppc EXCEPT ![p] = "wake"]
                       /\ UNCHANGED <<queue_, shutdown_, arg, cpc, timed, kpc, pushed, popped>>

-----------------------------------------------------------------------------
(* Consumers *)

(* Fault: the predicate of the wait forgets "|| shutdown_". *)
PopWaits_IgnoresShutdown(c, tm) ==
    /\ queue_ = <<>>
    /\ cpc' = [cpc EXCEPT ![c] = "wait"]
    /\ timed' = [timed EXCEPT ![c] = tm]
    /\ UNCHANGED <<queue_, shutdown_, ppc, arg, kpc, pushed, popped>>

PopWaits(c, tm) == /\ queue_ = <<>> /\ ~shutdown_
                   /\ cpc' = [cpc EXCEPT ![c] = "wait"]
                   /\ timed' = [timed EXCEPT ![c] = tm]
                   /\ UNCHANGED <<queue_, shutdown_, ppc, arg, kpc, pushed, popped>>

(* Fault: no notify_one() on not_full_. *)
Take_NoNotify(c) ==
    /\ queue_ # <<>>
    /\ popped' = [popped EXCEPT ![c] = Head(queue_)]
    /\ queue_' = Tail(queue_)
    /\ cpc' = [cpc EXCEPT ![c] = "out"]
    /\ timed' = [timed EXCEPT ![c] = FALSE]
    /\ UNCHANGED <<shutdown_, ppc, arg, kpc, pushed>>

Take(c) == /\ queue_ # <<>>
           /\ popped' = [popped EXCEPT ![c] = Head(queue_)]
           /\ queue_' = Tail(queue_)
           /\ ppc' \in NotifyOne(ppc)
           /\ cpc' = [cpc EXCEPT ![c] = "out"]
           /\ timed' = [timed EXCEPT ![c] = FALSE]
           /\ UNCHANGED <<shutdown_, arg, kpc, pushed>>

(* The call returns nullopt. *)
Miss(c) == /\ queue_ = <<>>
           /\ popped' = [popped EXCEPT ![c] = NullOpt]
           /\ cpc' = [cpc EXCEPT ![c] = "out"]
           /\ timed' = [timed EXCEPT ![c] = FALSE]
           /\ UNCHANGED <<queue_, shutdown_, ppc, arg, kpc, pushed>>

PopBody(c, tm) == \/ PopWaits(c, tm)
                  \/ Take(c)
                  \/ shutdown_ /\ Miss(c)

(* pop() when tm is FALSE, popWithTimeout() when it is TRUE. *)
Pop(c, tm) == cpc[c] = "out" /\ PopBody(c, tm)

(* Fault: a wait_for that timed out reports nullopt without a last look at *)
(* the queue.                                                              *)
PopResume_TrustsTimeout(c) ==
    \/ cpc[c] = "wake" /\ PopBody(c, timed[c])
    \/ /\ cpc[c] = "expired"
       /\ popped' = [popped EXCEPT ![c] = NullOpt]
       /\ cpc' = [cpc EXCEPT ![c] = "out"]
       /\ timed' = [timed EXCEPT ![c] = FALSE]
       /\ UNCHANGED <<queue_, shutdown_, ppc, arg, kpc, pushed>>

(* Fault: wait_for in a loop that starts over after every timeout. *)
PopResume_Rearms(c) == cpc[c] \in {"wake", "expired"} /\ PopBody(c, timed[c])

(* Back from the wait with the mutex held: a woken call looks at its       *)
(* predicate again and may sleep again; wait_for past its deadline         *)
(* evaluates the predicate a last time and the call returns either way.    *)
PopResume(c) == \/ cpc[c] = "wake" /\ PopBody(c, timed[c])
                \/ cpc[c] = "expired" /\ (Take(c) \/ Miss(c))

Timeout(c) == /\ cpc[c] = "wait" /\ timed[c]
              /\ cpc' = [cpc EXCEPT ![c] = "expired"]
              /\ UNCHANGED <<queue_, shutdown_, ppc, arg, timed, kpc, pushed, popped>>

SpuriousPopWake(c) == /\ cpc[c] = "wait"
                      /\ cpc' = [cpc EXCEPT ![c] = "wake"]
                      /\ UNCHANGED <<queue_, shutdown_, ppc, arg, timed, kpc, pushed, popped>>

-----------------------------------------------------------------------------
(* shutdown(): the flag under the mutex, then both notify_all() without it *)

Shutdown(k) == /\ kpc[k] = "out"
               /\ shutdown_' = TRUE
               /\ kpc' = [kpc EXCEPT ![k] = "notifyEmpty"]
               /\ UNCHANGED <<queue_, ppc, arg, cpc, timed, pushed, popped>>

NotifyAllEmpty(k) == /\ kpc[k] = "notifyEmpty"
                     /\ cpc' = NotifyAll(cpc)
                     /\ kpc' = [kpc EXCEPT ![k] = "notifyFull"]
                     /\ UNCHANGED <<queue_, shutdown_, ppc, arg, timed, pushed, popped>>

NotifyAllFull(k) == /\ kpc[k] = "notifyFull"
                    /\ ppc' = NotifyAll(ppc)
                    /\ kpc' = [kpc EXCEPT ![k] = "out"]
                    /\ UNCHANGED <<queue_, shutdown_, arg, cpc, timed, pushed, popped>>

-----------------------------------------------------------------------------
Next == \/ \E p \in Producers : \/ \E x \in Items : Push(p, x) \/ TryPush(p, x)
                                \/ PushResume(p)
                                \/ SpuriousPushWake(p)
        \/ \E c \in Consumers : \/ \E tm \in BOOLEAN : Pop(c, tm)
                                \/ PopResume(c)
                                \/ Timeout(c)
                                \/ SpuriousPopWake(c)
        \/ \E k \in Closers : Shutdown(k) \/ NotifyAllEmpty(k) \/ NotifyAllFull(k)

Spec == Init /\ [][Next]_vars

(* A runnable thread gets the mutex and goes on.  The deadline of wait_for *)
(* is a point in time, so a call that is woken and sleeps again does not   *)
(* push it back: strong fairness for Timeout.                              *)
Fairness == /\ \A p \in Producers : WF_vars(PushResume(p))
            /\ \A c \in Consumers : WF_vars(PopResume(c)) /\ SF_vars(Timeout(c))
            /\ \A k \in Closers : WF_vars(NotifyAllEmpty(k)) /\ WF_vars(NotifyAllFull(k))

FairSpec == Spec /\ Fairness

(* The worker threads call popWithTimeout() again and again. *)
WorkerSpec == FairSpec /\ \A c \in Consumers : WF_vars(Pop(c, TRUE))

-----------------------------------------------------------------------------
(* Every variable has its type and push() never goes beyond max_size_. *)
TypeOK == /\ queue_ \in Seq(Items) /\ Len(queue_) <= MaxSize
          /\ shutdown_ \in BOOLEAN
          /\ ppc \in [Producers -> {"out", "wait", "wake"}]
          /\ arg \in [Producers -> Items \cup {NullOpt}]
          /\ \A p \in Producers : ppc[p] # "out" => arg[p] \in Items
          /\ cpc \in [Consumers -> {"out", "wait", "wake", "expired"}]
          /\ timed \in [Consumers -> BOOLEAN]
          /\ kpc \in [Closers -> {"out", "notifyEmpty", "notifyFull"}]
          /\ pushed \in [Producers -> {"none", "put", "refused"}]
          /\ popped \in [Consumers -> Items \cup {NullOpt}]

(* No wakeup is lost although push() and pop() notify ONE thread and other *)
(* threads may take the mutex first: while a consumer sleeps, every queued *)
(* item has an awake consumer of its own coming for it; while a producer   *)
(* sleeps, every free slot has an awake producer of its own.               *)
NoLostWakeup ==
    /\ Asleep(cpc) # {} => Len(queue_) <= Cardinality(Awake(cpc))
    /\ Asleep(ppc) # {} /\ ~shutdown_ => MaxSize - Len(queue_) <= Cardinality(Awake(ppc))

(* shutdown() notifies without the mutex.  Still nobody can fall asleep    *)
(* behind its back: a thread asleep while the flag is up is one that a     *)
(* running shutdown() has yet to notify.                                   *)
ShutdownReachesWaiters ==
    shutdown_ =>
        /\ Asleep(cpc) # {} => \E k \in Closers : kpc[k] = "notifyEmpty"
        /\ Asleep(ppc) # {} => \E k \in Closers : kpc[k] \in {"notifyEmpty", "notifyFull"}

(* The queue implements the FIFO its callers rely on: items leave in the   *)
(* order they came, nullopt means empty (also when the deadline and a push *)
(* race), and an item is left out only by a full or closed queue.  What a  *)
(* closed queue still holds is handed out by both kinds of pop: the output *)
(* thread relies on it, thread_safe_queue.h:193 says otherwise of          *)
(* popWithTimeout().                                                       *)
Fifo == INSTANCE BoundedFifo WITH fifo <- queue_, closed <- shutdown_
ImplementsBoundedFifo == Fifo!Spec

(* Once shutdown() was called, every call inside the queue returns and no  *)
(* later call blocks: what the join() in every stop() relies on.           *)
ShutdownReleasesEveryone ==
    shutdown_ ~> [](Asleep(cpc) \cup Awake(cpc) \cup Asleep(ppc) \cup Awake(ppc) = {})

(* popWithTimeout() returns, whatever the other consumers take away from   *)
(* it: the running_ checks of the worker loops rely on it.                 *)
TimedPopReturns == \A c \in Consumers : (timed[c] ~> ~timed[c])

(* A push() that blocks on a full queue returns as long as workers pop,    *)
(* unless other threads push for ever, each time in front of it: on the    *)
(* queues with one producer it always returns, and in the output queue,    *)
(* which all the fast path threads fill, once the others pause.            *)
BlockedPushReturns ==
    \A p \in Producers :
        <>[](ppc[p] # "out") => []<><<Len(queue_') > Len(queue_)>>_vars
=============================================================================
