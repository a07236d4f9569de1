-------------------------------- MODULE Heap --------------------------------
(***************************************************************************)
(* The kernel's heap (MicroKernel/mKMM.cpp) with its list of holes         *)
(* (SortedList.cpp), behind new and delete (memory.cpp).                   *)
(*                                                                         *)
(* A block is a header, the memory given out and a footer. Only headers    *)
(* and footers of present blocks are modelled: the bytes of former ones    *)
(* lie inside of other blocks, and the code reaches blocks only from       *)
(* their neighbours. The kernel runs with interrupts disabled, so the      *)
(* functions are atomic.                                                   *)
(***************************************************************************)
EXTENDS Integers, Sequences, SequencesExt

CONSTANTS realInit, endAddress,   \* the blocks lie between these addresses
          maxLength,              \* of the list of holes
          Amounts                 \* bytes asked for

\* sizeof(block_header) and sizeof(block_footer).
HeaderSize == 12
FooterSize == 8

ASSUME HeapAssumption ==
  /\ realInit \in Nat /\ endAddress \in Nat
  /\ realInit + HeaderSize + FooterSize < endAddress
  /\ maxLength \in Nat \ {0}
  /\ Amounts \subseteq Nat

VARIABLES header,   \* of each block, by its address: size, hole
          footer,   \* of each block, by the address after it: myHeader
          list,     \* the holes that can be given out
          full,     \* a hole did not fit in the list since the heap was whole
          hung      \* KERNEL OUT OF MEMORY

vars == <<header, footer, list, full, hung>>

Blocks == DOMAIN header
Size(h) == header[h].size
End(h) == h + Size(h)
BlockSize(h) == Size(h) - FooterSize - HeaderSize

\* CreateHeap.
Init ==
  /\ header = [h \in {realInit} |-> [size |-> endAddress - realInit, hole |-> TRUE]]
  /\ footer = [e \in {endAddress} |-> realInit]
  /\ list   = <<realInit>>
  /\ full   = FALSE
  /\ hung   = FALSE

-----------------------------------------------------------------------------
(* The sorted list. Its comparator returns a bool but is called as if it   *)
(* returned a pointer ("OJO"): false may be taken for true, as the upper   *)
(* bytes of the register hold what was there. So a value comes to lie      *)
(* before some value that is not smaller, or at the end.                   *)

Places(l, heads, value) ==
  {i \in 1 .. Len(l) : heads[l[i]].size >= heads[value].size} \union {Len(l) + 1}

AddToList(l, heads, value) ==
  IF Len(l) < maxLength
  THEN {InsertAt(l, i, value) : i \in Places(l, heads, value)}
  ELSE {l}

\* Mutant: the entry stays when it is not the last one.
RemovedLast(l, value) == IF l # <<>> /\ Last(l) = value THEN Front(l) ELSE l

\* RemoveFromListAt(IndexOf(value)): nothing if it is not there.
Removed(l, value) == RemoveFirst(l, value)

-----------------------------------------------------------------------------

\* A remainder too small for a block of its own stays with the block.
MinRemainder == FooterSize + HeaderSize + 4

\* Mutant: the room for header and footer is not subtracted.
FirstFitUnpadded(amount) ==
  {i \in DOMAIN list : /\ Size(list[i]) > amount
                       /\ \A k \in 1 .. i - 1 : Size(list[k]) <= amount}

\* The first hole in the list with more bytes than asked for.
FirstFit(amount) ==
  {i \in DOMAIN list : /\ BlockSize(list[i]) > amount
                       /\ \A k \in 1 .. i - 1 : BlockSize(list[k]) <= amount}

Taken(h, size) == [size |-> size, hole |-> FALSE]

\* Mutant: the footer of the remainder still names the block it was cut from.
SplitOldFooter(h, amount) ==
  LET kept == amount + HeaderSize + FooterSize
      next == h + kept
  IN  /\ header' = [b \in Blocks \union {next} |->
                      CASE b = h    -> Taken(h, kept)
                        [] b = next -> [size |-> Size(h) - kept, hole |-> TRUE]
                        [] OTHER    -> header[b]]
      /\ footer' = [e \in DOMAIN footer \union {next} |->
                      IF e = next THEN h ELSE footer[e]]
      /\ list' \in AddToList(Removed(list, h), header', next)

Split(h, amount) ==
  LET kept == amount + HeaderSize + FooterSize
      next == h + kept
  IN  /\ header' = [b \in Blocks \union {next} |->
                      CASE b = h    -> Taken(h, kept)
                        [] b = next -> [size |-> Size(h) - kept, hole |-> TRUE]
                        [] OTHER    -> header[b]]
      /\ footer' = [e \in DOMAIN footer \union {next} |->
                      CASE e = next   -> h
                        [] e = End(h) -> next
                        [] OTHER      -> footer[e]]
      /\ list' \in AddToList(Removed(list, h), header', next)

TakeWhole(h) ==
  /\ header' = [header EXCEPT ![h].hole = FALSE]
  /\ list' = Removed(list, h)
  /\ UNCHANGED footer

kmalloc(amount) ==
  /\ ~hung
  /\ \E i \in FirstFit(amount) :
       IF BlockSize(list[i]) - amount > MinRemainder
       THEN Split(list[i], amount)
       ELSE TakeWhole(list[i])
  /\ UNCHANGED <<full, hung>>

OutOfMemory(amount) ==
  /\ ~hung
  /\ FirstFit(amount) = {}
  /\ hung' = TRUE
  /\ UNCHANGED <<header, footer, list, full>>

\* The holes before and after an address, if it has any.
HoleBefore(h) == {b \in Blocks : h \in DOMAIN footer /\ b = footer[h] /\ header[b].hole}
HoleAfter(h)  == {b \in Blocks : b = End(h) /\ header[b].hole}

\* Mutant: the hole on the left is not looked at.
NeighboursRight(h) == HoleAfter(h)

Neighbours(h) == HoleBefore(h) \union HoleAfter(h)

\* A block is joined with the hole after it, then with the one before it, which leave
\* the list if they are in it (the block itself is not); what comes out is listed if
\* there is room ("si ocurre, nada").
kfree(h) ==
  /\ ~hung
  /\ ~header[h].hole
  /\ LET all    == {h} \union Neighbours(h)
         first  == CHOOSE b \in all : \A c \in all : b <= c
         last   == CHOOSE b \in all : \A c \in all : c <= b
         others == Removed(Removed(list, last), first)
     IN  /\ header' = [b \in (Blocks \ all) \union {first} |->
                         IF b = first THEN [size |-> End(last) - first, hole |-> TRUE]
                         ELSE header[b]]
         /\ footer' = [e \in DOMAIN footer \ (all \ {first}) |->
                         IF e = End(last) THEN first ELSE footer[e]]
         /\ list' \in AddToList(others, header', first)
         /\ full' = (Blocks \ all # {} /\ (full \/ Len(others) = maxLength))
  /\ UNCHANGED hung

Next ==
  \/ \E amount \in Amounts : kmalloc(amount) \/ OutOfMemory(amount)
  \/ \E h \in Blocks : kfree(h)

Spec == Init /\ [][Next]_vars

-----------------------------------------------------------------------------
(* Properties.                                                             *)

\* The variables have their types, and headers and footers agree.
TypeOK ==
  /\ \A h \in Blocks :
       /\ h \in realInit .. endAddress - 1
       /\ Size(h) \in HeaderSize + FooterSize .. endAddress - realInit
       /\ End(h) \in Blocks \union {endAddress}
       /\ End(h) \in DOMAIN footer /\ footer[End(h)] = h
  /\ DOMAIN footer = {End(h) : h \in Blocks}
  /\ list \in Seq(Blocks) /\ Len(list) <= maxLength
  /\ full \in BOOLEAN /\ hung \in BOOLEAN

\* kmalloc finds the holes, each once and nothing else, unless the list was full when
\* one was freed: the remainder of a block is always listed ("siempre que se hace esta
\* llamada ocurrio previamente un Remove, por tanto hay espacio").
HolesAreListed ==
  /\ IsInjective(list)
  /\ \A i \in DOMAIN list : header[list[i]].hole
  /\ ~full => \A h \in Blocks : header[h].hole => \E i \in DOMAIN list : list[i] = h

\* When everything has been given back the heap is as it was in the beginning: no byte
\* is lost, no two holes stay apart, and a hole that did not fit in the list is back.
WholeAgain ==
  (\A h \in Blocks : header[h].hole) =>
    /\ Blocks = {realInit} /\ Size(realInit) = endAddress - realInit
    /\ list = <<realInit>>

\* The pieces in use.
Pieces == {[from |-> h + HeaderSize, to |-> End(h) - FooterSize] :
             h \in {b \in Blocks : ~header[b].hole}}

Promise == INSTANCE Allocator WITH
  Lowest <- realInit, Beyond <- endAddress, pieces <- Pieces

\* new and delete keep their promise: what is given out is long enough for what was
\* asked and shared with no piece in use, and only what is freed goes.
KeepsPromise ==
  /\ Promise!Spec
  /\ [][\A amount \in Amounts : kmalloc(amount) => Promise!Allocate(amount)]_vars

=============================================================================
