------------------------------- MODULE Kernel -------------------------------
(***************************************************************************)
(* The thread table, the scheduler, the synchronous IPC and the interrupt  *)
(* delivery of the microkernel: MicroKernel/ThreadControl.cpp, with its    *)
(* two entry points handlers.cpp (system calls, device interrupts) and     *)
(* clock.cpp (the clock interrupt).                                        *)
(*                                                                         *)
(* The kernel runs with interrupts disabled from an interrupt gate to its  *)
(* iret, so a handler is one atomic step. The thread that makes a system   *)
(* call is the active one; its arguments are arbitrary, since the kernel   *)
(* does not know which program runs in a thread.                           *)
(*                                                                         *)
(* A UTCB (64 words shared by a thread and the kernel) is abstracted to    *)
(* the sender word and the words of the message. A thread fills its UTCB   *)
(* before it sends; before it receives it leaves there words that nobody   *)
(* reads again, which are modelled as cleared.                             *)
(***************************************************************************)
EXTENDS Integers, Sequences, Functions

CONSTANTS MaxThreads,    \* bound: threads ever created, the root included
          Vectors,       \* interrupt vectors that may be raised
          ClockVector,   \* IRQ0_VECTOR + CLOCK_IRQ
          Words          \* what a thread may write in its UTCB

ASSUME KernelAssumption ==
  /\ MaxThreads \in Nat \ {0}
  /\ Vectors \subseteq 0 .. 255
  /\ ClockVector \in Vectors

THREAD_READY             == "READY"
THREAD_RECEIVING         == "RECEIVING"
THREAD_SENDING           == "SENDING"
THREAD_SENDING_RECEIVING == "SENDING_RECEIVING"

FREE_THREAD_ENTRY == 0
HARDWARE_SOURCE   == 1
ANY_SOURCE        == 2
FIRST_THREAD_ID   == 3

\* The tid of idle_thread, which is not in the list of threads.
IdleThread == FIRST_THREAD_ID - 1

Tids == FIRST_THREAD_ID .. FIRST_THREAD_ID + MaxThreads - 1

Statuses == {THREAD_READY, THREAD_RECEIVING, THREAD_SENDING,
             THREAD_SENDING_RECEIVING}

\* What an ipc call may name as its partner.
Names == {FREE_THREAD_ENTRY, HARDWARE_SOURCE, ANY_SOURCE} \union Tids

\* The number a deferred interrupt is reported with, whatever its vector.
DeferredNumber == 1

Cleared == [src |-> FREE_THREAD_ENTRY, words |-> 0]

Messages == [src   : {FREE_THREAD_ENTRY, HARDWARE_SOURCE} \union Tids,
             words : Words \union Vectors \union {0, DeferredNumber}]

VARIABLES threads,       \* the list of all threads, the run queue
          activeThread,  \* the tid of the thread that owns the processor
          idCounter,     \* the tid of the next thread
          status,        \* of each thread
          waitingFor,    \* from whom a thread receives
          wanToSendMe,   \* the threads queued to send to a thread
          interrupted,   \* a hardware interrupt is pending for a thread
          utcb,          \* the UTCB of each thread
          ids,           \* _ids: the thread that handles each vector
          halted         \* the kernel spins forever in a handler

vars == <<threads, activeThread, idCounter, status, waitingFor, wanToSendMe,
          interrupted, utcb, ids, halted>>

Created == Range(threads)

-----------------------------------------------------------------------------
(* The scheduler.                                                          *)

\* k times: dequeue the first element and enqueue it again.
Rotate(s, k) ==
  [i \in 1 .. Len(s) |-> IF i + k <= Len(s) THEN s[i + k] ELSE s[i + k - Len(s)]]

\* Mutants: the running thread is dequeued and not enqueued again; it stays first.
RequeuedDropped(list, active) == IF active = IdleThread THEN list ELSE Tail(list)
RequeuedNever(list, active)   == list

\* The list shedule() searches: a running thread goes to the back first.
Requeued(list, active) ==
  IF active = IdleThread THEN list ELSE Rotate(list, 1)

\* Mutant: the first thread gets the processor whatever its status.
SheduledBlindly(list, active, st) ==
  LET r == Requeued(list, active) IN {[threads |-> r, active |-> Head(r)]}

\* What shedule() and dispatch() make of a list, an active thread and the statuses:
\* the set holds their one outcome, the rotation that brings the first ready thread
\* to the front, or the idle thread when the search comes round.
Sheduled(list, active, st) ==
  LET r     == Requeued(list, active)
      ready == {i \in DOMAIN r : st[r[i]] = THREAD_READY}
  IN  IF ready = {}
      THEN {[threads |-> r, active |-> IdleThread]}
      ELSE {[threads |-> Rotate(r, k - 1), active |-> r[k]] :
              k \in {i \in ready : \A j \in ready : i <= j}}

Become(outcomes) ==
  \E run \in outcomes : threads' = run.threads /\ activeThread' = run.active

Shedule == Become(Sheduled(threads, activeThread, status'))

Continue == UNCHANGED <<threads, activeThread>>

-----------------------------------------------------------------------------
(* Initially the root server, created by the loader, is the only thread.   *)

Init ==
  /\ threads      = <<FIRST_THREAD_ID>>
  /\ activeThread = FIRST_THREAD_ID
  /\ idCounter    = FIRST_THREAD_ID + 1
  /\ status       = [t \in Tids |-> THREAD_READY]
  /\ waitingFor   = [t \in Tids |-> FREE_THREAD_ENTRY]
  /\ wanToSendMe  = [t \in Tids |-> <<>>]
  /\ interrupted  = [t \in Tids |-> FALSE]
  /\ utcb         = [t \in Tids |-> Cleared]
  /\ ids          = [v \in Vectors |-> 0]
  /\ halted       = FALSE

-----------------------------------------------------------------------------
(* System calls, made by the active thread.                                *)

Calling == ~halted /\ activeThread # IdleThread

me == activeThread

\* THREAD_CONTROL. The new thread is ready and last in the list; the caller
\* goes on, as there is another thread already.
CreateThread ==
  /\ Calling
  /\ idCounter \in Tids
  /\ threads'   = Append(threads, idCounter)
  /\ idCounter' = idCounter + 1
  /\ UNCHANGED <<activeThread, status, waitingFor, wanToSendMe, interrupted,
                 utcb, ids, halted>>

\* INTERRUPT_CONTROL. The last thread that registers for a vector has it.
RegistreThreadToInterrupt(v) ==
  /\ Calling
  /\ ids' = [ids EXCEPT ![v] = me]
  /\ UNCHANGED <<threads, activeThread, idCounter, status, waitingFor,
                 wanToSendMe, interrupted, utcb, halted>>

\* Mutants: a receiver from anybody is not recognised; any receiver will do.
ExpectsNamed(who, src)   == status[who] = THREAD_RECEIVING /\ waitingFor[who] = src
ExpectsAnyhow(who, src)  == status[who] = THREAD_RECEIVING

\* `who` waits for a message of `src`.
Expects(who, src) ==
  /\ status[who] = THREAD_RECEIVING
  /\ waitingFor[who] \in {src, ANY_SOURCE}

FilledWith(w) == [src |-> FREE_THREAD_ENTRY, words |-> w]

\* What CopyMessage leaves in the receiver.
CopyOf(src, words) == [src |-> src, words |-> words]

\* Mutant: the source and the number in each other's place.
HardwareMessageSwapped(n) == [src |-> n, words |-> HARDWARE_SOURCE]

HardwareMessage(n) == [src |-> HARDWARE_SOURCE, words |-> n]

\* THREAD_SEND or THREAD_SND_RCV to a thread that does not exist.
SendToNobody(to, w) ==
  /\ Calling
  /\ to \notin Created
  /\ utcb' = [utcb EXCEPT ![me] = FilledWith(w)]
  /\ UNCHANGED <<threads, activeThread, idCounter, status, waitingFor,
                 wanToSendMe, interrupted, ids, halted>>

\* THREAD_SEND to a thread that expects it: the sender goes on.
SendNow(to, w) ==
  /\ Calling
  /\ to \in Created
  /\ Expects(to, me)
  /\ utcb'       = [utcb EXCEPT ![me] = FilledWith(w), ![to] = CopyOf(me, w)]
  /\ status'     = [status EXCEPT ![to] = THREAD_READY]
  /\ waitingFor' = [waitingFor EXCEPT ![to] = FREE_THREAD_ENTRY]
  /\ Continue
  /\ UNCHANGED <<idCounter, wanToSendMe, interrupted, ids, halted>>

\* THREAD_SEND to a thread that does not: the sender is queued and blocks.
SendLater(to, w) ==
  /\ Calling
  /\ to \in Created
  /\ ~Expects(to, me)
  /\ utcb'        = [utcb EXCEPT ![me] = FilledWith(w)]
  /\ status'      = [status EXCEPT ![me] = THREAD_SENDING]
  /\ wanToSendMe' = [wanToSendMe EXCEPT ![to] = Append(@, me)]
  /\ Shedule
  /\ UNCHANGED <<idCounter, waitingFor, interrupted, ids, halted>>

\* THREAD_SND_RCV to a thread that expects it: the caller waits for the answer.
SendReceiveNow(to, w) ==
  /\ Calling
  /\ to \in Created
  /\ Expects(to, me)
  /\ utcb'       = [utcb EXCEPT ![me] = FilledWith(w), ![to] = CopyOf(me, w)]
  /\ status'     = [status EXCEPT ![to] = THREAD_READY, ![me] = THREAD_RECEIVING]
  /\ waitingFor' = [waitingFor EXCEPT ![to] = FREE_THREAD_ENTRY, ![me] = to]
  /\ Shedule
  /\ UNCHANGED <<idCounter, wanToSendMe, interrupted, ids, halted>>

\* THREAD_SND_RCV to a thread that does not: the caller is queued and blocks.
SendReceiveLater(to, w) ==
  /\ Calling
  /\ to \in Created
  /\ ~Expects(to, me)
  /\ utcb'        = [utcb EXCEPT ![me] = FilledWith(w)]
  /\ status'      = [status EXCEPT ![me] = THREAD_SENDING_RECEIVING]
  /\ wanToSendMe' = [wanToSendMe EXCEPT ![to] = Append(@, me)]
  /\ waitingFor'  = [waitingFor EXCEPT ![me] = to]
  /\ Shedule
  /\ UNCHANGED <<idCounter, interrupted, ids, halted>>

\* Mutant: a caller does not stay for the answer.
AfterSendingReady(st) == THREAD_READY

\* The status of a queued sender once its message has been taken.
AfterSending(st) == IF st = THREAD_SENDING THEN THREAD_READY ELSE THREAD_RECEIVING

\* Mutant: the first sender is dequeued in place of the k-th.
TakeMessageFirst(k) ==
  LET who == wanToSendMe[me][k]
  IN  /\ utcb'        = [utcb EXCEPT ![me] = CopyOf(who, utcb[who].words)]
      /\ status'      = [status EXCEPT ![who] = AfterSending(@)]
      /\ wanToSendMe' = [wanToSendMe EXCEPT ![me] = Tail(@)]
      /\ Continue
      /\ UNCHANGED <<idCounter, waitingFor, interrupted, ids, halted>>

\* A receiver takes the message of the k-th thread queued to send to it. The
\* threads before that one are dequeued and enqueued again.
TakeMessage(k) ==
  LET queue == wanToSendMe[me]
      who   == queue[k]
  IN  /\ utcb'        = [utcb EXCEPT ![me] = CopyOf(who, utcb[who].words)]
      /\ status'      = [status EXCEPT ![who] = AfterSending(@)]
      /\ wanToSendMe' = [wanToSendMe EXCEPT ![me] = Tail(Rotate(queue, k - 1))]
      /\ Continue
      /\ UNCHANGED <<idCounter, waitingFor, interrupted, ids, halted>>

\* Mutant: the pending interrupt is forgotten and nothing is written.
TakeInterruptSilently ==
  /\ interrupted' = [interrupted EXCEPT ![me] = FALSE]
  /\ Continue
  /\ UNCHANGED <<idCounter, status, wanToSendMe, utcb, ids, halted>>

\* A receiver takes the interrupt that was left pending for it.
TakeInterrupt ==
  /\ utcb'        = [utcb EXCEPT ![me] = HardwareMessage(DeferredNumber)]
  /\ interrupted' = [interrupted EXCEPT ![me] = FALSE]
  /\ Continue
  /\ UNCHANGED <<idCounter, status, wanToSendMe, ids, halted>>

\* A receiver that finds nothing blocks.
Wait(src) ==
  /\ utcb'       = [utcb EXCEPT ![me] = Cleared]
  /\ status'     = [status EXCEPT ![me] = THREAD_RECEIVING]
  /\ waitingFor' = [waitingFor EXCEPT ![me] = src]
  /\ Shedule
  /\ UNCHANGED <<idCounter, wanToSendMe, interrupted, ids, halted>>

\* THREAD_RECEIVE from ANY_SOURCE: an interrupt goes before a message.
ReceiveAny ==
  /\ Calling
  /\ \/ interrupted[me] /\ TakeInterrupt /\ UNCHANGED waitingFor
     \/ ~interrupted[me] /\ wanToSendMe[me] # <<>> /\ TakeMessage(1)
     \/ ~interrupted[me] /\ wanToSendMe[me] = <<>> /\ Wait(ANY_SOURCE)

\* THREAD_RECEIVE from HARDWARE_SOURCE.
ReceiveHardware ==
  /\ Calling
  /\ \/ /\ interrupted[me]
        /\ TakeInterrupt
        /\ waitingFor' = [waitingFor EXCEPT ![me] = FREE_THREAD_ENTRY]
     \/ ~interrupted[me] /\ Wait(HARDWARE_SOURCE)

\* THREAD_RECEIVE from one thread, which may not exist.
ReceiveFrom(src) ==
  /\ Calling
  /\ \/ \E k \in DOMAIN wanToSendMe[me] :
          wanToSendMe[me][k] = src /\ TakeMessage(k)
     \/ src \notin Range(wanToSendMe[me]) /\ Wait(src)

-----------------------------------------------------------------------------
(* Interrupts, raised while a thread or the idle thread runs.              *)

\* `t` waits for an interrupt.
ExpectsHardware(t) ==
  /\ status[t] = THREAD_RECEIVING
  /\ waitingFor[t] \in {HARDWARE_SOURCE, ANY_SOURCE}

\* The thread gets the interrupt now, or finds it at its next receive.
SendHardwareIPC(t, v) ==
  IF ExpectsHardware(t)
  THEN /\ status'      = [status EXCEPT ![t] = THREAD_READY]
       /\ waitingFor'  = [waitingFor EXCEPT ![t] = FREE_THREAD_ENTRY]
       /\ interrupted' = [interrupted EXCEPT ![t] = FALSE]
       /\ utcb'        = [utcb EXCEPT ![t] = HardwareMessage(v)]
  ELSE /\ interrupted' = [interrupted EXCEPT ![t] = TRUE]
       /\ UNCHANGED <<status, waitingFor, utcb>>

\* Mutant: the processor stays idle.
AfterHardwareIPCIdle(t) == {[threads |-> threads, active |-> activeThread]}

\* ... and shedule() is called only if it found the processor idle.
AfterHardwareIPC(t) ==
  IF ExpectsHardware(t) /\ activeThread = IdleThread
  THEN Sheduled(threads, activeThread, status')
  ELSE {[threads |-> threads, active |-> activeThread]}

\* An interrupt other than the clock's. The kernel stops the machine if nobody
\* has registered for it.
Interrupt(v) ==
  /\ ~halted
  /\ v # ClockVector
  /\ \/ /\ ids[v] \in Created
        /\ SendHardwareIPC(ids[v], v)
        /\ Become(AfterHardwareIPC(ids[v]))
        /\ UNCHANGED <<idCounter, wanToSendMe, ids, halted>>
     \/ /\ ids[v] \notin Created
        /\ ids'    = [ids EXCEPT ![v] = 0]
        /\ halted' = TRUE
        /\ UNCHANGED <<threads, activeThread, idCounter, status, waitingFor,
                       wanToSendMe, interrupted, utcb>>

\* The clock interrupt: its thread is told, and then shedule() runs, for the
\* second time when the interrupt ended an idle period.
ClockInterrupt ==
  /\ ~halted
  /\ \/ /\ ids[ClockVector] \in Created
        /\ SendHardwareIPC(ids[ClockVector], ClockVector)
        /\ \E told \in AfterHardwareIPC(ids[ClockVector]) :
             Become(Sheduled(told.threads, told.active, status'))
        /\ UNCHANGED ids
     \/ /\ ids[ClockVector] \notin Created
        /\ ids' = [ids EXCEPT ![ClockVector] = 0]
        /\ UNCHANGED <<status, waitingFor, interrupted, utcb>>
        /\ Shedule
  /\ UNCHANGED <<idCounter, wanToSendMe, halted>>

-----------------------------------------------------------------------------

Next ==
  \/ CreateThread
  \/ \E v \in Vectors : RegistreThreadToInterrupt(v) \/ Interrupt(v)
  \/ \E to \in Names, w \in Words :
       \/ SendToNobody(to, w)
       \/ SendNow(to, w)
       \/ SendLater(to, w)
       \/ SendReceiveNow(to, w)
       \/ SendReceiveLater(to, w)
  \/ ReceiveAny
  \/ ReceiveHardware
  \/ \E src \in {FREE_THREAD_ENTRY} \union Tids : ReceiveFrom(src)
  \/ ClockInterrupt

Spec == Init /\ [][Next]_vars

-----------------------------------------------------------------------------
(* Properties.                                                             *)

\* Every variable of ThreadControlSystem and of its threads has its type.
TypeOK ==
  /\ threads \in Seq(Tids)
  /\ activeThread \in Tids \union {IdleThread}
  /\ idCounter \in Tids \union {FIRST_THREAD_ID + MaxThreads}
  /\ status \in [Tids -> Statuses]
  /\ waitingFor \in [Tids -> Names]
  /\ wanToSendMe \in [Tids -> Seq(Tids)]
  /\ interrupted \in [Tids -> BOOLEAN]
  /\ utcb \in [Tids -> Messages]
  /\ ids \in [Vectors -> {0} \union Tids]
  /\ halted \in BOOLEAN

\* However often shedule() rotates it, the list holds every thread created, once:
\* no thread drops out of the scheduling for good, and Locate() finds each of them.
NoThreadLost ==
  /\ Created = FIRST_THREAD_ID .. idCounter - 1
  /\ IsInjective(threads)

\* "el hilo activo es el que esta al frente de la cola": the running thread is
\* ready and first in the list, which shedule() relies on when it sends the first
\* thread to the back. The processor idles only when no thread is ready.
RunsAReadyThread ==
  IF activeThread = IdleThread
  THEN \A t \in Created : status[t] # THREAD_READY
  ELSE activeThread = Head(threads) /\ status[activeThread] = THREAD_READY

IsSending(t) == status[t] \in {THREAD_SENDING, THREAD_SENDING_RECEIVING}

\* A thread blocked to send is in the queue of one thread, at one place; no other
\* thread is in a queue; one that will receive the answer has named that thread.
\* A queue entry too many would deliver a message twice, one too few would leave
\* the sender blocked for ever.
SendersQueuedOnce ==
  /\ \A r \in Tids : IsInjective(wanToSendMe[r])
  /\ \A r \in Tids : \A t \in Range(wanToSendMe[r]) :
       /\ IsSending(t)
       /\ status[t] = THREAD_SENDING_RECEIVING => waitingFor[t] = r
       /\ \A s \in Tids \ {r} : t \notin Range(wanToSendMe[s])
  /\ \A t \in Tids : IsSending(t) => \E r \in Tids : t \in Range(wanToSendMe[r])

\* A thread never sleeps in a receive that an event already there could end: a
\* queued sender it would accept, or an interrupt left pending for it.
NoMissedRendezvous ==
  \A r \in Tids : status[r] = THREAD_RECEIVING =>
    /\ waitingFor[r] = ANY_SOURCE => wanToSendMe[r] = <<>>
    /\ waitingFor[r] \notin Range(wanToSendMe[r])
    /\ waitingFor[r] \in {ANY_SOURCE, HARDWARE_SOURCE} => ~interrupted[r]

\* A pending interrupt is forgotten only in the step that hands it to its thread:
\* interrupts that find the thread busy are coalesced, never lost altogether.
InterruptsAreDelivered ==
  [][\A t \in Tids : interrupted[t] /\ ~interrupted'[t] =>
       utcb'[t].src = HARDWARE_SOURCE]_vars

\* `t` could run and another thread does, or none.
Waits(t) == t \in Created /\ status[t] = THREAD_READY /\ activeThread # t

PlaceIn(list, t) == CHOOSE i \in DOMAIN list : list[i] = t

Place(t) == PlaceIn(threads, t)

\* shedule() is round robin: no step puts a thread that waits for the processor
\* further back in the list, and each clock interrupt that does not run it brings
\* it forward. A ready thread so waits for fewer ticks than there are threads.
RoundRobin ==
  [][\A t \in Tids : Waits(t) /\ Waits(t)' =>
       /\ Place(t)' <= Place(t)
       /\ ClockInterrupt => Place(t)' < Place(t)]_vars

\* A ready thread gets the processor sooner or later, whatever the others do, as
\* long as the clock ticks and the machine is not stopped.
ReadyThreadsRun ==
  \A t \in Tids :
    (t \in Created /\ status[t] = THREAD_READY) ~> (activeThread = t \/ halted)

=============================================================================
