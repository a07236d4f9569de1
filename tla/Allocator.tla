------------------------------ MODULE Allocator ------------------------------
(***************************************************************************)
(* What new and delete promise the kernel: a piece of memory that is long  *)
(* enough, inside the heap, shared with no piece in use, and that stays    *)
(* where it is until it is given back.                                     *)
(***************************************************************************)
EXTENDS Integers

CONSTANTS Lowest, Beyond,   \* the heap is the addresses Lowest .. Beyond - 1
          Amounts           \* how much may be asked for

VARIABLES pieces,   \* the pieces in use: where they start and end
          hung      \* memory ran out; the kernel spins for ever

vars == <<pieces, hung>>

Piece == [from : Lowest .. Beyond, to : Lowest .. Beyond]

Init == pieces = {} /\ hung = FALSE

\* The new piece is any free one; the step itself says which.
Allocate(amount) ==
  /\ ~hung
  /\ \E p \in pieces' \ pieces :
       /\ p \in Piece /\ p.to - p.from >= amount
       /\ \A q \in pieces : p.to <= q.from \/ q.to <= p.from
       /\ pieces' = pieces \union {p}
  /\ UNCHANGED hung

Release(p) ==
  /\ ~hung
  /\ pieces' = pieces \ {p}
  /\ UNCHANGED hung

GiveUp == ~hung /\ hung' = TRUE /\ UNCHANGED pieces

Next ==
  \/ \E amount \in Amounts : Allocate(amount)
  \/ \E p \in pieces : Release(p)
  \/ GiveUp

Spec == Init /\ [][Next]_vars

=============================================================================
