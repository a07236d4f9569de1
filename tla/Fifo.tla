-------------------------------- MODULE Fifo --------------------------------
(***************************************************************************)
(* What the kernel relies on a Queue for: a sequence without a limit,      *)
(* whose operations return the first element or nothing.                   *)
(***************************************************************************)
EXTENDS Sequences

CONSTANTS Elements, NoElement

VARIABLES items,    \* the elements, the oldest first
          returned  \* what the last Dequeue or Front returned

vars == <<items, returned>>

Init == items = <<>> /\ returned = NoElement

Enqueue(v) == items' = Append(items, v) /\ UNCHANGED returned

Dequeue ==
  \/ items = <<>> /\ returned' = NoElement /\ UNCHANGED items
  \/ items # <<>> /\ returned' = Head(items) /\ items' = Tail(items)

Front ==
  /\ \/ items = <<>> /\ returned' = NoElement
     \/ items # <<>> /\ returned' = Head(items)
  /\ UNCHANGED items

Next == (\E v \in Elements : Enqueue(v)) \/ Dequeue \/ Front

Spec == Init /\ [][Next]_vars

=============================================================================
