-------------------------- MODULE KernelRefinement --------------------------
(***************************************************************************)
(* Kernel implements Rendezvous: whom a blocked sender sends to is the     *)
(* thread in whose queue it is.                                            *)
(***************************************************************************)
EXTENDS Kernel

StateOf(st) ==
  CASE st = THREAD_READY             -> "running"
    [] st = THREAD_RECEIVING         -> "receiving"
    [] st = THREAD_SENDING           -> "sending"
    [] st = THREAD_SENDING_RECEIVING -> "calling"

AbstractState(t) == IF t >= idCounter THEN "absent" ELSE StateOf(status[t])

AbstractPeer(t) ==
  IF IsSending(t)
  THEN CHOOSE r \in Tids : t \in Range(wanToSendMe[r])
  ELSE waitingFor[t]

Promise == INSTANCE Rendezvous WITH
  Threads  <- Tids,
  Nobody   <- FREE_THREAD_ENTRY,
  Hardware <- HARDWARE_SOURCE,
  Anybody  <- ANY_SOURCE,
  Deferred <- DeferredNumber,
  Empty    <- 0,
  state    <- [t \in Tids |-> AbstractState(t)],
  peer     <- [t \in Tids |-> AbstractPeer(t)],
  box      <- utcb,
  pending  <- interrupted,
  handler  <- ids,
  stopped  <- halted

\* Every step of the kernel is a step the promise allows, or changes nothing that
\* a thread can see.
KeepsPromise == Promise!Spec

=============================================================================
