---------------------------- MODULE BoundedFifo ----------------------------
(***************************************************************************)
(* What ThreadSafeQueue<T> promises its callers, without the mutex, the    *)
(* condition variables and the threads asleep on them: a FIFO of at most   *)
(* MaxSize items that can be closed once.  Every call takes effect in one  *)
(* step.  A pop that reports nullopt found the FIFO empty; a push that     *)
(* leaves its item out found the FIFO full or closed.  A closed FIFO still *)
(* delivers what it holds: so does the code in pop() and popWithTimeout(), *)
(* although thread_safe_queue.h:193 says otherwise of the latter.          *)
(***************************************************************************)
EXTENDS Naturals, Sequences

CONSTANTS Producers, Consumers, Items, MaxSize, NullOpt

VARIABLES
    fifo,      \* the items in order of arrival
    closed,    \* TRUE once the queue was shut down
    pushed,    \* outcome of each producer's last call
    popped     \* outcome of each consumer's last call

abstractVars == <<fifo, closed, pushed, popped>>

Init == /\ fifo = <<>>
        /\ closed = FALSE
        /\ pushed = [p \in Producers |-> "none"]
        /\ popped = [c \in Consumers |-> NullOpt]

Accept(p, x) == /\ ~closed
                /\ Len(fifo) < MaxSize
                /\ fifo' = Append(fifo, x)
                /\ pushed' = [pushed EXCEPT ![p] = "put"]
                /\ UNCHANGED <<closed, popped>>

Refuse(p) == /\ closed \/ Len(fifo) = MaxSize
             /\ pushed' = [pushed EXCEPT ![p] = "refused"]
             /\ UNCHANGED <<fifo, closed, popped>>

Deliver(c) == /\ fifo # <<>>
              /\ popped' = [popped EXCEPT ![c] = Head(fifo)]
              /\ fifo' = Tail(fifo)
              /\ UNCHANGED <<closed, pushed>>

ReportEmpty(c) == /\ fifo = <<>>
                  /\ popped' = [popped EXCEPT ![c] = NullOpt]
                  /\ UNCHANGED <<fifo, closed, pushed>>

Close == /\ closed' = TRUE
         /\ UNCHANGED <<fifo, pushed, popped>>

Next == \/ \E p \in Producers : Refuse(p) \/ \E x \in Items : Accept(p, x)
        \/ \E c \in Consumers : Deliver(c) \/ ReportEmpty(c)
        \/ Close

Spec == Init /\ [][Next]_abstractVars
=============================================================================
