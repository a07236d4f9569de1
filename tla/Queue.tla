------------------------------- MODULE Queue --------------------------------
(***************************************************************************)
(* MicroKernel/queue.cpp: the ring buffer that holds the run queue and the *)
(* senders of each thread. One slot is always left free, so that a full    *)
(* queue and an empty one differ; a full queue is copied to a buffer twice *)
(* as large. The kernel keeps pointers in it, never a null one.            *)
(***************************************************************************)
EXTENDS Integers, Sequences

CONSTANTS Elements,      \* the pointers that are enqueued
          NoElement,     \* the null pointer
          Garbage,       \* what new[] leaves in a slot
          InitialCount,  \* the size a queue is created with: 5 or 64
          MaxElements    \* bound: how many elements the queue may hold

ASSUME QueueAssumption ==
  /\ NoElement \notin Elements
  /\ InitialCount \in Nat \ {0}
  /\ MaxElements \in Nat

VARIABLES MaxCount,  \* the number of slots of data
          front,     \* the slot of the first element
          end,       \* the slot after the last one's
          data,
          returned   \* what the last Dequeue or Front returned

vars == <<MaxCount, front, end, data, returned>>

Init ==
  /\ MaxCount = InitialCount
  /\ front    = 0
  /\ end      = 0
  /\ data     = [i \in 0 .. InitialCount - 1 |-> Garbage]
  /\ returned = NoElement

\* How many times Next() moves an iterator from front until HasMore() is false.
Length == (end - front) % MaxCount

\* The slot an iterator stands at after i calls of Next().
Slot(i) == (front + i) % MaxCount

\* Mutant: the index of the last slot is followed by itself plus one.
AfterUnwrapped(i) == i + 1

After(i) == (i + 1) % MaxCount

\* Mutant: the slots are copied in the order of the old buffer.
EnlargedInPlace ==
  [i \in 0 .. 2 * MaxCount - 1 |-> IF i < Length THEN data[i] ELSE Garbage]

\* The buffer twice as large, to whose start the elements are copied.
Enlarged ==
  [i \in 0 .. 2 * MaxCount - 1 |-> IF i < Length THEN data[Slot(i)] ELSE Garbage]

Enqueue(v) ==
  /\ Length < MaxElements
  /\ \/ /\ After(end) # front
        /\ data' = [data EXCEPT ![end] = v]
        /\ end'  = After(end)
        /\ UNCHANGED <<MaxCount, front>>
     \/ /\ After(end) = front
        /\ data'     = [Enlarged EXCEPT ![Length] = v]
        /\ front'    = 0
        /\ MaxCount' = 2 * MaxCount
        /\ end'      = (Length + 1) % (2 * MaxCount)
  /\ UNCHANGED returned

Dequeue ==
  /\ \/ front = end /\ returned' = NoElement /\ UNCHANGED front
     \/ front # end /\ returned' = data[front] /\ front' = After(front)
  /\ UNCHANGED <<MaxCount, end, data>>

Front ==
  /\ \/ front = end /\ returned' = NoElement
     \/ front # end /\ returned' = data[front]
  /\ UNCHANGED <<MaxCount, front, end, data>>

Next == (\E v \in Elements : Enqueue(v)) \/ Dequeue \/ Front

Spec == Init /\ [][Next]_vars

-----------------------------------------------------------------------------
(* Properties.                                                             *)

\* The indexes stay inside the buffer, however often it wraps round and grows.
IndexesOK ==
  /\ MaxCount \in Nat \ {0}
  /\ front \in 0 .. MaxCount - 1
  /\ end \in 0 .. MaxCount - 1
  /\ data \in [0 .. MaxCount - 1 -> Elements \union {Garbage}]

\* ... and no operation returns a slot that nobody wrote.
TypeOK == IndexesOK /\ returned \in Elements \union {NoElement}

\* What an iterator shows: the elements from front to end.
Contents == [i \in 1 .. Length |-> data[Slot(i - 1)]]

Promise == INSTANCE Fifo WITH items <- Contents

\* The queue is first in, first out: growing while it is wrapped round, it loses no
\* element, shows none twice, returns no slot nobody wrote, and keeps their order.
IsFifo == Promise!Spec

=============================================================================
