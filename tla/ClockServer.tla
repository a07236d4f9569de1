----------------------------- MODULE ClockServer -----------------------------
(***************************************************************************)
(* The clock server (Kernel/OSInit.c), the root server that starts it and  *)
(* the threads that sleep (libc/calls.c), on top of the kernel's IPC.      *)
(*                                                                         *)
(* Between two system calls a thread touches only its UTCB and variables   *)
(* of its own, so what it computes is part of the step of the call that    *)
(* follows. Time is counted in whole ticks, from a call that may come at   *)
(* the start or in the middle of one.                                      *)
(***************************************************************************)
EXTENDS Integers, Sequences, FiniteSets

CONSTANTS Root,         \* the thread the loader starts
          Clock,        \* the tid of the clock server: the code writes 4
          Sleepers,     \* the threads created after it
          MaxEntries,   \* entries of `cuantos`
          HalfRange,    \* an int is in -HalfRange .. HalfRange - 1
          Requests,     \* the milliseconds each thread asks for, unsigned
          ClockVector

ASSUME ClockServerAssumption ==
  /\ MaxEntries \in Nat \ {0}
  /\ HalfRange \in Nat \ {0}
  /\ Requests \in [Sleepers -> SUBSET (0 .. 2 * HalfRange - 1)]
  /\ Root \in Nat /\ Clock \in Nat /\ Sleepers \subseteq Nat
  /\ 2 < Root /\ Root < Clock
  /\ \A t \in Sleepers : Clock < t

Threads == {Root, Clock} \union Sleepers

NOBODY          == 0
HARDWARE_SOURCE == 1
ANY_SOURCE      == 2

\* Milliseconds from a tick to the next, and how many of them have passed when a
\* thread calls.
TickLength == 50
Passed     == {0, TickLength \div 2}

VARIABLES state, peer, box, pending, handler, stopped,   \* see Rendezvous
          control,   \* what each thread does next when it runs
          cuantos,   \* the entries in use: who sleeps, for how long still
          i, j,      \* the entry a tick is applied to; how many were kept
          asked,     \* the milliseconds of each thread's call
          elapsed    \* how many it has slept at the last tick, up to those

ipc  == <<state, peer, box, pending, handler, stopped>>
time == <<asked, elapsed>>
vars == <<ipc, control, cuantos, i, j, time>>

IPC == INSTANCE Rendezvous WITH
         Vectors <- {ClockVector}, Words <- UNION {Requests[t] : t \in Sleepers},
         Nobody <- NOBODY, Hardware <- HARDWARE_SOURCE, Anybody <- ANY_SOURCE,
         Deferred <- 1, Empty <- 0

Init ==
  /\ IPC!Init
  /\ state[Root] = "running"
  /\ control = [t \in Threads |->
                  CASE t = Root  -> "creating"
                    [] t = Clock -> "registering"
                    [] OTHER     -> "sleep"]
  /\ cuantos = <<>>
  /\ i = 1 /\ j = 0
  /\ asked   = [t \in Sleepers |-> 0]
  /\ elapsed = [t \in Sleepers |-> 0]

\* Thread t runs and stands before statement `at`.
At(t, at) == IPC!Running(t) /\ control[t] = at

Goto(t, to) == control' = [control EXCEPT ![t] = to]

-----------------------------------------------------------------------------
(* OSInit: the root creates the clock server first, since its tid is fixed *)
(* in sleep(), then the others, then it receives from the clock for ever.  *)

CreateThread ==
  /\ At(Root, "creating")
  /\ \E t \in Threads :
       /\ \A u \in Threads : u < t => IPC!Present(u)
       /\ IPC!Spawn(t)
  /\ UNCHANGED <<control, cuantos, i, j, time>>

RootReceives ==
  /\ At(Root, "creating")
  /\ \A t \in Threads : IPC!Present(t)
  /\ IPC!Receive(Root, Clock)
  /\ UNCHANGED <<control, cuantos, i, j, time>>

-----------------------------------------------------------------------------
(* HiloDelReloj.                                                           *)

InterruptControl ==
  /\ At(Clock, "registering")
  /\ IPC!Claim(Clock, ClockVector)
  /\ Goto(Clock, "listening")
  /\ UNCHANGED <<cuantos, i, j, time>>

\* Mutant: the last free entry is not counted.
SourceOffByOne(used) == IF used <= MaxEntries THEN ANY_SOURCE ELSE HARDWARE_SOURCE

\* From anybody while there is a free entry, else from the hardware only.
Source(used) == IF used < MaxEntries THEN ANY_SOURCE ELSE HARDWARE_SOURCE

\* The top of the loop, with the entries the statements before it leave.
Listen(entries) ==
  /\ cuantos' = entries
  /\ IPC!Receive(Clock, Source(Len(entries)))
  /\ i' = 1 /\ j' = 0
  /\ Goto(Clock, "received")
  /\ UNCHANGED time

FirstListen == At(Clock, "listening") /\ Listen(cuantos)

\* `value <= 2`: the source of the message is the hardware.
FromHardware == box[Clock].src <= 2

\* amount is an int, the argument of sleep() unsigned.
ToInt(ms) == IF ms < HalfRange THEN ms ELSE ms - 2 * HalfRange

\* Mutant: the entry overwrites the last one.
InsertOver ==
  /\ At(Clock, "received") /\ ~FromHardware
  /\ Listen(Append(IF cuantos = <<>> THEN <<>> ELSE Tail(cuantos),
                   [id |-> box[Clock].src, amount |-> ToInt(box[Clock].words)]))

Insert ==
  /\ At(Clock, "received") /\ ~FromHardware
  /\ Listen(Append(cuantos, [id |-> box[Clock].src, amount |-> ToInt(box[Clock].words)]))

\* amount - 50, which overflows (undefined) for the lowest values.
Remainders(amount) ==
  IF amount - TickLength >= -HalfRange
  THEN {amount - TickLength}
  ELSE {amount - TickLength, amount - TickLength + 2 * HalfRange}

Scanning == At(Clock, "received") /\ FromHardware /\ i <= Len(cuantos)

\* Mutant: the entry stays where it was.
KeepEntryInPlace ==
  /\ Scanning
  /\ \E rest \in Remainders(cuantos[i].amount) :
       /\ rest > 0
       /\ cuantos' = [cuantos EXCEPT ![i].amount = rest]
  /\ i' = i + 1 /\ j' = j + 1
  /\ UNCHANGED <<ipc, control, time>>

\* An entry with time left moves down over those of the threads woken.
KeepEntry ==
  /\ Scanning
  /\ \E rest \in Remainders(cuantos[i].amount) :
       /\ rest > 0
       /\ cuantos' = [cuantos EXCEPT ![j + 1] = [id |-> cuantos[i].id, amount |-> rest]]
  /\ i' = i + 1 /\ j' = j + 1
  /\ UNCHANGED <<ipc, control, time>>

\* The send blocks unless the sleeper waits for it, which it does.
WakeEntry ==
  /\ Scanning
  /\ \E rest \in Remainders(cuantos[i].amount) : rest <= 0
  /\ IPC!Send(Clock, cuantos[i].id, 0)
  /\ i' = i + 1
  /\ asked'   = [asked EXCEPT ![cuantos[i].id] = 0]
  /\ elapsed' = [elapsed EXCEPT ![cuantos[i].id] = 0]
  /\ UNCHANGED <<control, cuantos, j>>

EndScan ==
  /\ At(Clock, "received") /\ FromHardware /\ i > Len(cuantos)
  /\ Listen(SubSeq(cuantos, 1, j))

-----------------------------------------------------------------------------
(* sleep(). It returns when the thread runs again; the result is not used. *)

\* Mutant: the answer is not waited for in the same call.
SleepSending(t, ms) ==
  /\ At(t, "sleep")
  /\ IPC!Send(t, Clock, ms)
  /\ asked'   = [asked EXCEPT ![t] = ms]
  /\ \E p \in Passed : elapsed' = [elapsed EXCEPT ![t] = -p]
  /\ UNCHANGED <<control, cuantos, i, j>>

Sleep(t, ms) ==
  /\ At(t, "sleep")
  /\ IPC!Call(t, Clock, ms)
  /\ asked'   = [asked EXCEPT ![t] = ms]
  /\ \E p \in Passed : elapsed' = [elapsed EXCEPT ![t] = -p]
  /\ UNCHANGED <<control, cuantos, i, j>>

-----------------------------------------------------------------------------
(* The timer. Before the server has registered, the kernel finds nobody to *)
(* tell (high_level_clock_handler does not look at the result).            *)

Tick ==
  /\ IF handler[ClockVector] \in Threads
     THEN IPC!Signal(ClockVector)
     ELSE UNCHANGED ipc
  /\ elapsed' = [t \in Sleepers |-> IF elapsed[t] + TickLength > asked[t]
                                    THEN asked[t] ELSE elapsed[t] + TickLength]
  /\ UNCHANGED <<control, cuantos, i, j, asked>>

-----------------------------------------------------------------------------

RootStep == CreateThread \/ RootReceives

ClockStep == \/ InterruptControl \/ FirstListen
             \/ Insert \/ KeepEntry \/ WakeEntry \/ EndScan

Next ==
  \/ RootStep
  \/ ClockStep
  \/ \E t \in Sleepers : \E ms \in Requests[t] : Sleep(t, ms)
  \/ Tick

\* Threads take turns and the timer does not stop. Handling a message takes far
\* less than a tick, and the kernel's queue of senders is first in, first out: a
\* sender whose turn comes again and again is received.
Fairness ==
  /\ WF_vars(RootStep)
  /\ WF_vars(ClockStep)
  /\ \A t \in Sleepers : SF_vars(ClockStep /\ box'[Clock].src = t)
  /\ WF_vars(Tick)

Spec == Init /\ [][Next]_vars

FairSpec == Spec /\ Fairness

-----------------------------------------------------------------------------
(* Properties.                                                             *)

Entry == [id : Sleepers, amount : -HalfRange .. HalfRange - 1]

\* The variables have their types. In particular no message is entered beyond the last
\* entry of the table, though the server takes messages in the order they come and
\* looks only before at the room it has.
TypeOK ==
  /\ control \in [Threads -> {"creating", "registering", "listening", "received",
                              "sleep"}]
  /\ cuantos \in Seq(Entry) /\ Len(cuantos) <= MaxEntries
  /\ i \in 1 .. MaxEntries + 1 /\ j \in 0 .. MaxEntries
  /\ \A t \in Sleepers : asked[t] \in Requests[t] \union {0}
  /\ \A t \in Sleepers : elapsed[t] \in -TickLength .. asked[t]

\* The entries that stand for sleepers: those kept and those not looked at yet.
Live == {k \in DOMAIN cuantos : k <= j \/ k >= i}

\* How often the server knows of a sleeper.
Known(t) == Cardinality({k \in Live : cuantos[k].id = t})
            + (IF control[Clock] = "received" /\ state[Clock] = "running"
                  /\ box[Clock].src = t THEN 1 ELSE 0)

\* No sleeper is lost or entered twice: a thread in sleep() either still waits to
\* be received, or the server knows of it exactly once, or it has been woken.
SleepersAccounted ==
  \A t \in Sleepers : Known(t) = (IF state[t] = "receiving" THEN 1 ELSE 0)

\* The server never blocks in an answer, which would stop the clock for all: whoever it
\* wakes is in the receive of its own call, from the moment its message was taken.
AnswersNeverBlock == state[Clock] # "sending"

Woken(t) == state[t] = "receiving" /\ state'[t] = "running"

\* A thread is woken by the ticks that came after its call, less than one tick
\* early, whatever else the server had to do (the first tick may come at once).
\* Only a number of milliseconds that is negative as an int wakes it sooner.
AtMostOneTickEarly ==
  [][\A t \in Sleepers :
       Woken(t) /\ asked[t] < HalfRange => elapsed[t] + TickLength > asked[t]]_vars

\* sleep(): "El hilo que realiza la llamada espera al menos la cantidad de
\* milisegundos indicada" (libc/calls.h).
SleepsAtLeast ==
  [][\A t \in Sleepers : Woken(t) => elapsed[t] >= asked[t]]_vars

\* Every thread that calls sleep() runs again, also when the table is full.
EverySleeperWakes == \A t \in Sleepers : IPC!Present(t) ~> IPC!Running(t)

=============================================================================
