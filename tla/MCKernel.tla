------------------------------ MODULE MCKernel ------------------------------
(***************************************************************************)
(* Small instances of Kernel for TLC.                                      *)
(***************************************************************************)
EXTENDS KernelRefinement

\* IRQ0_VECTOR + CLOCK_IRQ, and the vector of the keyboard.
MCClock     == 48
MCClockOnly == {48}
MCVectors   == {48, 49}

-----------------------------------------------------------------------------
(* The liveness run restricts the threads to what the operating system's   *)
(* own servers and their clients do: they create threads, register for an  *)
(* interrupt, receive from anybody or from the hardware, call a server and *)
(* answer a caller, and name only threads that exist.                      *)

ServersNext ==
  \/ CreateThread
  \/ \E v \in Vectors : RegistreThreadToInterrupt(v)
  \/ \E to \in Created, w \in Words :
       \/ SendNow(to, w)
       \/ SendLater(to, w)
       \/ SendReceiveNow(to, w)
       \/ SendReceiveLater(to, w)
  \/ ReceiveAny
  \/ ReceiveHardware
  \/ ClockInterrupt

ServersSpec == Init /\ [][ServersNext]_vars /\ WF_vars(ClockInterrupt)

=============================================================================
