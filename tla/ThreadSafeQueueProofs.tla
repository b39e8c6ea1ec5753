----------------------- MODULE ThreadSafeQueueProofs -----------------------
(***************************************************************************)
(* Proofs about ThreadSafeQueue for every number of threads, every item    *)
(* type and every max_size.                                                *)
(***************************************************************************)
EXTENDS ThreadSafeQueue, FiniteSetTheorems, TLAPS

PcStates == {"out", "wait", "wake", "expired"}

-----------------------------------------------------------------------------
(* Type correctness *)

(* Whatever notify_one() does, the program counters keep their type. *)
LEMMA NotifyOneType ==
    ASSUME NEW S, NEW T, "wake" \in T, NEW pcs \in [S -> T], NEW q \in NotifyOne(pcs)
    PROVE  q \in [S -> T]
BY DEF NotifyOne, Asleep

(* The initial state of the queue has its types. *)
LEMMA InitType == Init => TypeOK
<1> SUFFICES ASSUME Init PROVE TypeOK
  OBVIOUS
<1>1. queue_ \in Seq(Items) /\ Len(queue_) <= MaxSize
  BY MaxSizeAssumption DEF Init
<1>2. ppc \in [Producers -> {"out", "wait", "wake"}] /\ \A p \in Producers : ppc[p] = "out"
  BY DEF Init
<1> QED
  BY <1>1, <1>2 DEF Init, TypeOK

(* Every step of push(), pop() and shutdown() keeps the types and the      *)
(* bound max_size_.                                                        *)
LEMMA NextType == TypeOK /\ [Next]_vars => TypeOK'
<1> SUFFICES ASSUME TypeOK, [Next]_vars PROVE TypeOK'
  OBVIOUS
<1> USE MaxSizeAssumption DEF TypeOK
<1>0. CASE UNCHANGED vars
  BY <1>0 DEF vars
<1>1. ASSUME NEW p \in Producers, NEW x \in Items, PushBody(p, x) \/ Push(p, x) \/ TryPush(p, x)
      PROVE  TypeOK'
  <2>1. CASE PushWaits(p, x)
    BY <2>1 DEF PushWaits
  <2>2. CASE Refused(p)
    BY <2>2 DEF Refused
  <2>3. CASE NotFull /\ Put(p, x)
    <3>1. cpc' \in [Consumers -> {"out", "wait", "wake", "expired"}]
      BY <2>3, NotifyOneType DEF Put
    <3>2. queue_' \in Seq(Items) /\ Len(queue_') <= MaxSize
      BY <2>3 DEF Put, NotFull
    <3> QED
      BY <2>3, <3>1, <3>2 DEF Put
  <2> QED
    BY <1>1, <2>1, <2>2, <2>3 DEF Push, TryPush, PushBody
<1>2. ASSUME NEW p \in Producers, PushResume(p)
      PROVE  TypeOK'
  BY <1>1, <1>2 DEF PushResume
<1>3. ASSUME NEW p \in Producers, SpuriousPushWake(p)
      PROVE  TypeOK'
  BY <1>3 DEF SpuriousPushWake
<1>4. ASSUME NEW c \in Consumers, Take(c)
      PROVE  TypeOK'
  <2>1. ppc' \in [Producers -> {"out", "wait", "wake"}]
    BY <1>4, NotifyOneType DEF Take
  <2>2. \A p \in Producers : ppc'[p] # "out" => ppc[p] # "out"
    BY <1>4 DEF Take, NotifyOne, Asleep
  <2>3. queue_' \in Seq(Items) /\ Len(queue_') <= MaxSize /\ Head(queue_) \in Items
    BY <1>4 DEF Take
  <2> QED
    BY <1>4, <2>1, <2>2, <2>3 DEF Take
<1>5. ASSUME NEW c \in Consumers, NEW tm \in BOOLEAN, PopBody(c, tm) \/ Miss(c)
      PROVE  TypeOK'
  BY <1>4, <1>5 DEF PopBody, PopWaits, Miss
<1>6. ASSUME NEW c \in Consumers, Timeout(c) \/ SpuriousPopWake(c)
      PROVE  TypeOK'
  BY <1>6 DEF Timeout, SpuriousPopWake
<1>7. ASSUME NEW k \in Closers, Shutdown(k) \/ NotifyAllEmpty(k) \/ NotifyAllFull(k)
      PROVE  TypeOK'
  <2>1. CASE Shutdown(k)
    BY <2>1 DEF Shutdown
  <2>2. CASE NotifyAllEmpty(k)
    BY <2>2 DEF NotifyAllEmpty, NotifyAll
  <2>3. CASE NotifyAllFull(k)
    <3>1. ppc' \in [Producers -> {"out", "wait", "wake"}]
      BY <2>3 DEF NotifyAllFull, NotifyAll
    <3>2. \A p \in Producers : ppc'[p] # "out" => ppc[p] # "out"
      BY <2>3 DEF NotifyAllFull, NotifyAll
    <3> QED
      BY <2>3, <3>1, <3>2 DEF NotifyAllFull
  <2> QED
    BY <1>7, <2>1, <2>2, <2>3
<1> QED
  BY <1>0, <1>1, <1>2, <1>3, <1>4, <1>5, <1>6, <1>7 DEF Next, Pop, PopResume

(* In every behaviour of the queue its variables keep their types and the  *)
(* storage never holds more than max_size_ items.                          *)
THEOREM TypeCorrect == Spec => []TypeOK
BY InitType, NextType, PTL DEF Spec

-----------------------------------------------------------------------------
(* Program counters and the sizes of their sets *)

(* The awake threads of a finite set of threads can be counted. *)
LEMMA AwakeFinite ==
    ASSUME NEW S, IsFiniteSet(S), NEW pcs \in [S -> PcStates]
    PROVE  IsFiniteSet(Awake(pcs)) /\ Cardinality(Awake(pcs)) \in Nat
BY FS_Subset, FS_CardinalityType DEF Awake

(* notify_one() turns one sleeper into an awake thread when there is a     *)
(* sleeper.                                                                *)
LEMMA NotifyOneWakes ==
    ASSUME NEW S, IsFiniteSet(S), NEW pcs \in [S -> PcStates], NEW q \in NotifyOne(pcs)
    PROVE  /\ Asleep(q) \subseteq Asleep(pcs)
           /\ Asleep(pcs) # {} => Cardinality(Awake(q)) = Cardinality(Awake(pcs)) + 1
<1>1. CASE Asleep(pcs) = {}
  BY <1>1 DEF NotifyOne
<1>2. CASE Asleep(pcs) # {}
  <2>1. PICK t \in Asleep(pcs) : q = [pcs EXCEPT ![t] = "wake"]
    BY <1>2 DEF NotifyOne
  <2>2. t \in S /\ t \notin Awake(pcs)
    BY <2>1 DEF Asleep, Awake
  <2>3. Awake(q) = Awake(pcs) \cup {t} /\ Asleep(q) \subseteq Asleep(pcs)
    BY <2>1, <2>2 DEF Asleep, Awake, PcStates
  <2> QED
    BY <2>2, <2>3, AwakeFinite, FS_AddElement
<1> QED
  BY <1>1, <1>2

(* A thread that was not asleep and returns from its call leaves at most   *)
(* one awake thread less, and none less if it had not waited at all.       *)
LEMMA ReturnCounts ==
    ASSUME NEW S, IsFiniteSet(S), NEW pcs \in [S -> PcStates],
           NEW t \in S, pcs[t] # "wait",
           NEW q, q = [pcs EXCEPT ![t] = "out"]
    PROVE  /\ Asleep(q) = Asleep(pcs)
           /\ Cardinality(Awake(q)) >= Cardinality(Awake(pcs)) - 1
           /\ pcs[t] = "out" => Cardinality(Awake(q)) = Cardinality(Awake(pcs))
<1>1. Asleep(q) = Asleep(pcs) /\ Awake(q) = Awake(pcs) \ {t}
  BY DEF Asleep, Awake
<1>2. pcs[t] = "out" => t \notin Awake(pcs)
  BY DEF Awake
<1>3. IsFiniteSet(Awake(pcs)) /\ Cardinality(Awake(pcs)) \in Nat
  BY AwakeFinite
<1>4. Cardinality(Awake(pcs) \ {t}) =
        IF t \in Awake(pcs) THEN Cardinality(Awake(pcs)) - 1 ELSE Cardinality(Awake(pcs))
  BY <1>3, FS_RemoveElement
<1>5. Cardinality(Awake(q)) = Cardinality(Awake(pcs) \ {t})
  BY <1>1, Zenon
<1> QED
  BY <1>1, <1>2, <1>3, <1>4, <1>5

(* A sleeper that wakes up by itself adds to the awake threads. *)
LEMMA WakeCounts ==
    ASSUME NEW S, IsFiniteSet(S), NEW pcs \in [S -> PcStates],
           NEW t \in S, NEW st \in {"wake", "expired"},
           NEW q, q = [pcs EXCEPT ![t] = st]
    PROVE  /\ Asleep(q) \subseteq Asleep(pcs)
           /\ Cardinality(Awake(q)) >= Cardinality(Awake(pcs))
<1>1. Asleep(q) \subseteq Asleep(pcs) /\ Awake(q) = Awake(pcs) \cup {t}
  BY DEF Asleep, Awake, PcStates
<1>2. IsFiniteSet(Awake(pcs)) /\ Cardinality(Awake(pcs)) \in Nat
  BY AwakeFinite
<1>3. Cardinality(Awake(pcs) \cup {t}) =
        IF t \in Awake(pcs) THEN Cardinality(Awake(pcs)) ELSE Cardinality(Awake(pcs)) + 1
  BY <1>2, FS_AddElement
<1>4. Cardinality(Awake(q)) = Cardinality(Awake(pcs) \cup {t})
  BY <1>1, Zenon
<1>5. Cardinality(Awake(q)) >= Cardinality(Awake(pcs))
  BY <1>2, <1>3, <1>4
<1> QED
  BY <1>1, <1>5

(* Nobody sleeps after notify_all(). *)
LEMMA NotifyAllWakes ==
    ASSUME NEW S, NEW pcs \in [S -> PcStates]
    PROVE  Asleep(NotifyAll(pcs)) = {}
BY DEF Asleep, NotifyAll

-----------------------------------------------------------------------------
(* No lost wakeup *)

ConsumersCovered == Asleep(cpc) # {} => Len(queue_) <= Cardinality(Awake(cpc))
ProducersCovered == Asleep(ppc) # {} /\ ~shutdown_ =>
                        MaxSize - Len(queue_) <= Cardinality(Awake(ppc))

(* The counting facts hold of the queue's own program counters. *)
LEMMA PcFacts ==
    TypeOK => /\ cpc \in [Consumers -> PcStates]
              /\ ppc \in [Producers -> PcStates]
              /\ Len(queue_) \in Nat
              /\ Cardinality(Awake(cpc)) \in Nat
              /\ Cardinality(Awake(ppc)) \in Nat
<1> SUFFICES ASSUME TypeOK PROVE /\ cpc \in [Consumers -> PcStates]
                                 /\ ppc \in [Producers -> PcStates]
                                 /\ Len(queue_) \in Nat
                                 /\ Cardinality(Awake(cpc)) \in Nat
                                 /\ Cardinality(Awake(ppc)) \in Nat
  OBVIOUS
<1>1. cpc \in [Consumers -> PcStates] /\ ppc \in [Producers -> PcStates] /\ Len(queue_) \in Nat
  BY DEF TypeOK, PcStates
<1> QED
  BY <1>1, AwakeFinite, ThreadsAssumption

(* Adding an item keeps both sides covered: its notify_one() wakes a       *)
(* consumer for it, and the producer that fills the slot was the awake     *)
(* one that came for it.                                                   *)
LEMMA PutCovers ==
    ASSUME TypeOK, NoLostWakeup, NEW p \in Producers, NEW x \in Items,
           ppc[p] # "wait", NotFull, Put(p, x)
    PROVE  NoLostWakeup'
<1>1. Len(queue_') = Len(queue_) + 1
  BY DEF Put, TypeOK
<1>2. ConsumersCovered'
  <2>1. /\ Asleep(cpc') \subseteq Asleep(cpc)
        /\ Asleep(cpc) # {} => Cardinality(Awake(cpc')) = Cardinality(Awake(cpc)) + 1
    BY PcFacts, NotifyOneWakes, ThreadsAssumption DEF Put
  <2> QED
    BY <1>1, <2>1, PcFacts DEF ConsumersCovered, NoLostWakeup
<1>3. ProducersCovered'
  <2>1. /\ Asleep(ppc') = Asleep(ppc)
        /\ Cardinality(Awake(ppc')) >= Cardinality(Awake(ppc)) - 1
        /\ ppc[p] = "out" => Cardinality(Awake(ppc')) = Cardinality(Awake(ppc))
    BY PcFacts, ReturnCounts, ThreadsAssumption DEF Put
  <2>2. Cardinality(Awake(ppc')) \in Nat
    <3>1. ppc' \in [Producers -> PcStates]
      BY PcFacts DEF Put, PcStates
    <3> QED
      BY <3>1, AwakeFinite, ThreadsAssumption
  <2>3. shutdown_' = shutdown_
    BY DEF Put
  <2> QED
    BY <1>1, <2>1, <2>2, <2>3, PcFacts, MaxSizeAssumption DEF ProducersCovered, NoLostWakeup
<1> QED
  BY <1>2, <1>3 DEF ConsumersCovered, ProducersCovered, NoLostWakeup

(* Taking an item keeps both sides covered, for the mirrored reasons. *)
LEMMA TakeCovers ==
    ASSUME TypeOK, NoLostWakeup, NEW c \in Consumers, cpc[c] # "wait", Take(c)
    PROVE  NoLostWakeup'
<1>1. Len(queue_') = Len(queue_) - 1
  BY DEF Take, TypeOK
<1>2. ConsumersCovered'
  <2>1. /\ Asleep(cpc') = Asleep(cpc)
        /\ Cardinality(Awake(cpc')) >= Cardinality(Awake(cpc)) - 1
    BY PcFacts, ReturnCounts, ThreadsAssumption DEF Take
  <2>2. Cardinality(Awake(cpc')) \in Nat
    <3>1. cpc' \in [Consumers -> PcStates]
      BY PcFacts DEF Take, PcStates
    <3> QED
      BY <3>1, AwakeFinite, ThreadsAssumption
  <2> QED
    BY <1>1, <2>1, <2>2, PcFacts DEF ConsumersCovered, NoLostWakeup
<1>3. ProducersCovered'
  <2>1. /\ Asleep(ppc') \subseteq Asleep(ppc)
        /\ Asleep(ppc) # {} => Cardinality(Awake(ppc')) = Cardinality(Awake(ppc)) + 1
    BY PcFacts, NotifyOneWakes, ThreadsAssumption DEF Take
  <2>2. shutdown_' = shutdown_
    BY DEF Take
  <2> QED
    BY <1>1, <2>1, <2>2, PcFacts, MaxSizeAssumption DEF ProducersCovered, NoLostWakeup
<1> QED
  BY <1>2, <1>3 DEF ConsumersCovered, ProducersCovered, NoLostWakeup

(* Every step keeps both sides covered. *)
LEMMA NextCovers == TypeOK /\ NoLostWakeup /\ [Next]_vars => NoLostWakeup'
<1> SUFFICES ASSUME TypeOK, NoLostWakeup, [Next]_vars PROVE NoLostWakeup'
  OBVIOUS
<1> USE ThreadsAssumption, MaxSizeAssumption
<1>0. CASE UNCHANGED vars
  BY <1>0 DEF vars, NoLostWakeup, Asleep, Awake
<1>1. ASSUME NEW p \in Producers, NEW x \in Items, ppc[p] # "wait", PushWaits(p, x)
      PROVE  NoLostWakeup'
  (* A full queue has no free slot to cover. *)
  <2>1. ppc' \in [Producers -> PcStates] /\ MaxSize - Len(queue_') <= 0
    BY <1>1, PcFacts DEF PushWaits, NotFull, PcStates, TypeOK
  <2>2. ProducersCovered'
    BY <2>1, AwakeFinite DEF ProducersCovered
  <2> QED
    BY <1>1, <2>2 DEF PushWaits, NoLostWakeup, ProducersCovered, Asleep, Awake
<1>2. ASSUME NEW p \in Producers, ppc[p] # "wait", Refused(p), shutdown_ \/ ppc[p] = "out"
      PROVE  NoLostWakeup'
  <2>1. CASE shutdown_
    BY <1>2, <2>1 DEF Refused, NoLostWakeup, Asleep, Awake
  <2>2. CASE ppc[p] = "out"
    <3>1. ppc' = ppc
      BY <1>2, <2>2 DEF Refused, TypeOK
    <3> QED
      BY <1>2, <3>1 DEF Refused, NoLostWakeup, Asleep, Awake
  <2> QED
    BY <1>2, <2>1, <2>2
<1>3. ASSUME NEW p \in Producers, SpuriousPushWake(p)
      PROVE  NoLostWakeup'
  <2>1. /\ Asleep(ppc') \subseteq Asleep(ppc)
        /\ Cardinality(Awake(ppc')) >= Cardinality(Awake(ppc))
    BY <1>3, PcFacts, WakeCounts DEF SpuriousPushWake
  <2>2. ppc' \in [Producers -> PcStates]
    BY <1>3, PcFacts DEF SpuriousPushWake, PcStates
  <2>3. Cardinality(Awake(ppc')) \in Nat
    BY <2>2, AwakeFinite
  <2>4. ProducersCovered'
    <3>1. queue_' = queue_ /\ shutdown_' = shutdown_ /\ ProducersCovered
      BY <1>3 DEF SpuriousPushWake, NoLostWakeup, ProducersCovered
    <3> QED
      BY <2>1, <2>3, <3>1, PcFacts DEF ProducersCovered
  <2> QED
    BY <1>3, <2>4 DEF SpuriousPushWake, NoLostWakeup, ProducersCovered, Asleep, Awake
<1>4. ASSUME NEW c \in Consumers, NEW tm \in BOOLEAN, PopWaits(c, tm) \/ Miss(c)
      PROVE  NoLostWakeup'
  (* An empty queue has no item to cover. *)
  <2>1. cpc' \in [Consumers -> PcStates] /\ Len(queue_') = 0
    BY <1>4, PcFacts DEF PopWaits, Miss, PcStates
  <2>2. ConsumersCovered'
    BY <2>1, AwakeFinite DEF ConsumersCovered
  <2> QED
    BY <1>4, <2>2 DEF PopWaits, Miss, NoLostWakeup, ConsumersCovered, Asleep, Awake
<1>5. ASSUME NEW c \in Consumers, Timeout(c) \/ SpuriousPopWake(c)
      PROVE  NoLostWakeup'
  <2>1. PICK st \in {"wake", "expired"} : cpc' = [cpc EXCEPT ![c] = st]
    BY <1>5 DEF Timeout, SpuriousPopWake
  <2>2. /\ Asleep(cpc') \subseteq Asleep(cpc)
        /\ Cardinality(Awake(cpc')) >= Cardinality(Awake(cpc))
    BY <2>1, PcFacts, WakeCounts
  <2>3. cpc' \in [Consumers -> PcStates]
    BY <2>1, PcFacts DEF PcStates
  <2>4. Cardinality(Awake(cpc')) \in Nat
    BY <2>3, AwakeFinite
  <2>5. ConsumersCovered'
    BY <1>5, <2>2, <2>4, PcFacts DEF ConsumersCovered, NoLostWakeup, Timeout, SpuriousPopWake
  <2> QED
    BY <1>5, <2>5 DEF Timeout, SpuriousPopWake, NoLostWakeup, ConsumersCovered, Asleep, Awake
<1>6. ASSUME NEW k \in Closers, Shutdown(k) \/ NotifyAllEmpty(k) \/ NotifyAllFull(k)
      PROVE  NoLostWakeup'
  <2>1. CASE Shutdown(k)
    BY <2>1 DEF Shutdown, NoLostWakeup, Asleep, Awake
  <2>2. CASE NotifyAllEmpty(k)
    <3>1. Asleep(cpc') = {}
      BY <2>2, PcFacts, NotifyAllWakes DEF NotifyAllEmpty
    <3> QED
      BY <2>2, <3>1 DEF NotifyAllEmpty, NoLostWakeup, Asleep, Awake
  <2>3. CASE NotifyAllFull(k)
    <3>1. Asleep(ppc') = {}
      BY <2>3, PcFacts, NotifyAllWakes DEF NotifyAllFull
    <3> QED
      BY <2>3, <3>1 DEF NotifyAllFull, NoLostWakeup, Asleep, Awake
  <2> QED
    BY <1>6, <2>1, <2>2, <2>3
<1>7. ASSUME NEW p \in Producers,
             \/ \E x \in Items : Push(p, x) \/ TryPush(p, x)
             \/ PushResume(p)
      PROVE  NoLostWakeup'
  <2>1. ppc[p] # "wait"
    BY <1>7 DEF Push, TryPush, PushResume
  <2>2. \/ \E x \in Items : PushWaits(p, x)
        \/ Refused(p) /\ (shutdown_ \/ ppc[p] = "out")
        \/ NotFull /\ \E x \in Items : Put(p, x)
    <3>1. PushResume(p) => arg[p] \in Items
      BY DEF PushResume, TypeOK
    <3> QED
      BY <1>7, <3>1 DEF Push, TryPush, PushResume, PushBody
  <2> QED
    BY <1>1, <1>2, <2>1, <2>2, PutCovers
<1>8. ASSUME NEW c \in Consumers, (\E tm \in BOOLEAN : Pop(c, tm)) \/ PopResume(c)
      PROVE  NoLostWakeup'
  <2>1. cpc[c] # "wait"
    BY <1>8 DEF Pop, PopResume
  <2>2. Take(c) \/ \E tm \in BOOLEAN : PopWaits(c, tm) \/ Miss(c)
    BY <1>8 DEF Pop, PopResume, PopBody, TypeOK
  <2> QED
    BY <1>4, <2>1, <2>2, TakeCovers
<1> QED
  BY <1>0, <1>3, <1>5, <1>6, <1>7, <1>8 DEF Next

(* push() and pop() notify one thread each and any thread may take the     *)
(* mutex first; still, for any number of producers and consumers, no queued *)
(* item and no free slot is left to threads that all sleep.                *)
THEOREM WakeupsSuffice == Spec => []NoLostWakeup
<1>1. Init => NoLostWakeup
  BY DEF Init, NoLostWakeup, Asleep
<1> QED
  BY <1>1, TypeCorrect, NextCovers, PTL DEF Spec

-----------------------------------------------------------------------------
(* shutdown() *)

(* Every step keeps each sleeper behind a raised flag in front of a closer *)
(* that has yet to notify it: after the flag nobody falls asleep, and only *)
(* the notifying step itself ends a closer's duty.                         *)
LEMMA NextReaches ==
    TypeOK /\ ShutdownReachesWaiters /\ [Next]_vars => ShutdownReachesWaiters'
<1> SUFFICES ASSUME TypeOK, ShutdownReachesWaiters, [Next]_vars
             PROVE  ShutdownReachesWaiters'
  OBVIOUS
<1>0. CASE UNCHANGED vars
  BY <1>0 DEF vars, ShutdownReachesWaiters, Asleep
<1>1. ASSUME /\ UNCHANGED <<shutdown_, kpc>>
             /\ shutdown_ => Asleep(cpc') \subseteq Asleep(cpc)
             /\ shutdown_ => Asleep(ppc') \subseteq Asleep(ppc)
      PROVE  ShutdownReachesWaiters'
  BY <1>1 DEF ShutdownReachesWaiters
<1>2. ASSUME NEW pcs, NEW q \in NotifyOne(pcs)
      PROVE  Asleep(q) \subseteq Asleep(pcs)
  BY <1>2 DEF NotifyOne, Asleep
<1>3. ASSUME NEW p \in Producers,
             \/ \E x \in Items : Push(p, x) \/ TryPush(p, x)
             \/ PushResume(p)
             \/ SpuriousPushWake(p)
      PROVE  ShutdownReachesWaiters'
  <2>1. \/ \E x : PushWaits(p, x) \/ Put(p, x)
        \/ Refused(p)
        \/ SpuriousPushWake(p)
    BY <1>3 DEF Push, TryPush, PushResume, PushBody
  <2>2. CASE \E x : PushWaits(p, x)
    BY <1>1, <2>2 DEF PushWaits
  <2>3. CASE \E x : Put(p, x)
    BY <1>1, <1>2, <2>3 DEF Put, Asleep
  <2>4. CASE Refused(p) \/ SpuriousPushWake(p)
    BY <1>1, <2>4 DEF Refused, SpuriousPushWake, Asleep
  <2> QED
    BY <2>1, <2>2, <2>3, <2>4
<1>4. ASSUME NEW c \in Consumers,
             \/ \E tm \in BOOLEAN : Pop(c, tm)
             \/ PopResume(c)
             \/ Timeout(c)
             \/ SpuriousPopWake(c)
      PROVE  ShutdownReachesWaiters'
  <2>1. \/ \E tm : PopWaits(c, tm)
        \/ Take(c)
        \/ Miss(c) \/ Timeout(c) \/ SpuriousPopWake(c)
    BY <1>4 DEF Pop, PopResume, PopBody
  <2>2. CASE \E tm : PopWaits(c, tm)
    BY <1>1, <2>2 DEF PopWaits
  <2>3. CASE Take(c)
    BY <1>1, <1>2, <2>3 DEF Take, Asleep
  <2>4. CASE Miss(c) \/ Timeout(c) \/ SpuriousPopWake(c)
    BY <1>1, <2>4 DEF Miss, Timeout, SpuriousPopWake, Asleep
  <2> QED
    BY <2>1, <2>2, <2>3, <2>4
<1>5. ASSUME NEW k \in Closers, Shutdown(k)
      PROVE  ShutdownReachesWaiters'
  BY <1>5 DEF Shutdown, ShutdownReachesWaiters, TypeOK
<1>6. ASSUME NEW k \in Closers, NotifyAllEmpty(k)
      PROVE  ShutdownReachesWaiters'
  <2>1. Asleep(cpc') = {} /\ kpc'[k] = "notifyFull"
    BY <1>6, NotifyAllWakes, PcFacts DEF NotifyAllEmpty, TypeOK
  <2> QED
    BY <1>6, <2>1 DEF NotifyAllEmpty, ShutdownReachesWaiters, Asleep
<1>7. ASSUME NEW k \in Closers, NotifyAllFull(k)
      PROVE  ShutdownReachesWaiters'
  <2>1. Asleep(ppc') = {}
    BY <1>7, NotifyAllWakes, PcFacts DEF NotifyAllFull
  <2>2. \A j \in Closers : kpc[j] = "notifyEmpty" => kpc'[j] = "notifyEmpty"
    BY <1>7 DEF NotifyAllFull, TypeOK
  <2> QED
    BY <1>7, <2>1, <2>2 DEF NotifyAllFull, ShutdownReachesWaiters, Asleep
<1> QED
  BY <1>0, <1>3, <1>4, <1>5, <1>6, <1>7 DEF Next

(* Whoever sleeps on the queue after shutdown() raised the flag is about to *)
(* be notified by it, however many threads call into the queue meanwhile.  *)
THEOREM ShutdownFindsEveryone == Spec => []ShutdownReachesWaiters
<1>1. Init => ShutdownReachesWaiters
  BY DEF Init, ShutdownReachesWaiters
<1> QED
  BY <1>1, TypeCorrect, NextReaches, PTL DEF Spec

-----------------------------------------------------------------------------
(* Refinement of BoundedFifo *)

(* The queue starts as the empty, open FIFO. *)
LEMMA InitRefines == Init => Fifo!Init
BY DEF Init, Fifo!Init

(* Every step of the queue is a step of the FIFO or leaves it as it is:    *)
(* going to sleep, waking up and notifying are stutters, and a miss can    *)
(* only be reported with the mutex held and the queue empty.               *)
LEMMA NextRefines == TypeOK /\ [Next]_vars => [Fifo!Next]_(Fifo!abstractVars)
<1> SUFFICES ASSUME TypeOK, [Next]_vars PROVE [Fifo!Next]_(Fifo!abstractVars)
  OBVIOUS
<1>0. ASSUME UNCHANGED <<queue_, shutdown_, pushed, popped>>
      PROVE  [Fifo!Next]_(Fifo!abstractVars)
  BY <1>0 DEF Fifo!abstractVars
<1>1. CASE UNCHANGED vars
  BY <1>0, <1>1 DEF vars
<1>2. ASSUME NEW p \in Producers, NEW x \in Items, ~shutdown_, NotFull, Put(p, x)
      PROVE  Fifo!Next
  <2>1. Fifo!Accept(p, x)
    BY <1>2 DEF Put, NotFull, Fifo!Accept
  <2> QED
    BY <2>1 DEF Fifo!Next
<1>3. ASSUME NEW p \in Producers, shutdown_ \/ ~NotFull, Refused(p)
      PROVE  Fifo!Next
  <2>1. shutdown_ \/ Len(queue_) = MaxSize
    BY <1>3, MaxSizeAssumption DEF NotFull, TypeOK
  <2>2. Fifo!Refuse(p)
    BY <1>3, <2>1 DEF Refused, Fifo!Refuse
  <2> QED
    BY <2>2 DEF Fifo!Next
<1>4. ASSUME NEW c \in Consumers, Take(c)
      PROVE  Fifo!Next
  <2>1. Fifo!Deliver(c)
    BY <1>4 DEF Take, Fifo!Deliver
  <2> QED
    BY <2>1 DEF Fifo!Next
<1>5. ASSUME NEW c \in Consumers, Miss(c)
      PROVE  Fifo!Next
  <2>1. Fifo!ReportEmpty(c)
    BY <1>5 DEF Miss, Fifo!ReportEmpty
  <2> QED
    BY <2>1 DEF Fifo!Next
<1>6. ASSUME NEW p \in Producers,
             \/ \E x \in Items : Push(p, x) \/ TryPush(p, x)
             \/ PushResume(p)
             \/ SpuriousPushWake(p)
      PROVE  [Fifo!Next]_(Fifo!abstractVars)
  <2>1. PushResume(p) => arg[p] \in Items
    BY DEF PushResume, TypeOK
  <2>2. CASE \E x \in Items : PushWaits(p, x)
    BY <1>0, <2>2 DEF PushWaits
  <2>3. CASE SpuriousPushWake(p)
    BY <1>0, <2>3 DEF SpuriousPushWake
  <2> QED
    BY <1>2, <1>3, <1>6, <2>1, <2>2, <2>3 DEF Push, TryPush, PushResume, PushBody
<1>7. ASSUME NEW c \in Consumers,
             \/ \E tm \in BOOLEAN : Pop(c, tm)
             \/ PopResume(c)
             \/ Timeout(c)
             \/ SpuriousPopWake(c)
      PROVE  [Fifo!Next]_(Fifo!abstractVars)
  <2>1. CASE \E tm : PopWaits(c, tm)
    BY <1>0, <2>1 DEF PopWaits
  <2>2. CASE Timeout(c) \/ SpuriousPopWake(c)
    BY <1>0, <2>2 DEF Timeout, SpuriousPopWake
  <2> QED
    BY <1>4, <1>5, <1>7, <2>1, <2>2 DEF Pop, PopResume, PopBody
<1>8. ASSUME NEW k \in Closers, Shutdown(k) \/ NotifyAllEmpty(k) \/ NotifyAllFull(k)
      PROVE  [Fifo!Next]_(Fifo!abstractVars)
  <2>1. CASE Shutdown(k)
    <3>1. Fifo!Close
      BY <2>1 DEF Shutdown, Fifo!Close
    <3> QED
      BY <3>1 DEF Fifo!Next
  <2>2. CASE NotifyAllEmpty(k) \/ NotifyAllFull(k)
    BY <1>0, <2>2 DEF NotifyAllEmpty, NotifyAllFull
  <2> QED
    BY <1>8, <2>1, <2>2
<1> QED
  BY <1>1, <1>6, <1>7, <1>8 DEF Next

(* The queue of mutex, condition variables and sleeping threads behaves    *)
(* towards its callers as the atomic FIFO that can be closed.              *)
THEOREM QueueImplementsFifo == Spec => ImplementsBoundedFifo
BY TypeCorrect, InitRefines, NextRefines, PTL DEF Spec, ImplementsBoundedFifo, Fifo!Spec
=============================================================================
