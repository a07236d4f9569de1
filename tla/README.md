# A TLA+ model of the playing_with_qemu microkernel

`src/src` is a small x86 operating system: a boot loader (`MyLoader/`), a
microkernel with preemptive threads and synchronous IPC (`MicroKernel/`), a C
library (`libc/`), and an operating system made of threads that serve each other
by messages (`Kernel/`): a clock, a file server, a console and a test client.
This directory holds TLA+ modules that model it, TLC configurations that check
them on small instances and proofs for every instance. Every module is
translated from the code; where a comment of the code says something else, the
code was followed.

## The system

| Component | State | Operations | Interacts with |
|---|---|---|---|
| Threads, scheduler, IPC (`ThreadControl.cpp`) | the list of threads (also the run queue), the active thread, per thread a status, `waitingFor`, `wanToSendMe`, `interrupted` and a UTCB | `CreateThread`, `shedule`, `dispatch`, `SendHardwareIPC`, `ipc` (send, receive, send and receive) | called by the two below; allocates from the heap; keeps its lists in queues |
| System calls and interrupts (`handlers.cpp`, `clock.cpp`) | `_ids`, the thread registered for each vector | `microkernel_syscall`, `RegistreThreadToInterrupt`, `DoThreadInterrupt`, `high_level_handler`, `high_level_clock_handler` | entered from the assembly gates, with interrupts disabled |
| Queue (`queue.cpp`) | a ring buffer and its indexes | `Enqueue` (grows when full), `Dequeue`, `Front`, iterator | holds the threads and the senders |
| Context switch (`interrupt_handlers.s`) | registers saved in each thread | `_save`, `_restore`, `FastSysCall` | before and after every handler |
| Kernel heap (`mKMM.cpp`, `SortedList.cpp`) | blocks with headers and footers, sorted list of holes | `kmalloc`, `kfree` | `new` and `delete` of the kernel |
| Paging, ELF, loader (`MyLoader/main.cpp`, `memory.cpp`, `elfLoader.cpp`) | page directories, where the modules lie, the stack of free pages | `MoveModule`, `LoadMicrokernel`, `InitMemory`, `AllocPage`, `LoadRootServer` | once, before the first thread |
| Machine (`BasicMachine.cpp`, `pci.cpp`, `video.cpp`) | descriptor tables, PIC masks, the kernel's cursor | initialisation, `enable_irq`, `set_utcb_area`, `printf` | `dispatch` points the UTCB segment at the active thread; the screen is shared with the console |
| C library (`calls.c`, `system_calls.c`, `StoreAndLoad.s`) | the caller's UTCB | `sleep`, `read`, `write`, `error`, `success`, `NewCharacterDeviceInSystem` | messages to threads 4 (clock) and 5 (files) |
| Clock server, root (`OSInit.c`) | ten entries of sleepers | wake the sleepers at each tick, enter a new one | interrupt 0x30; sleepers call it |
| File server (`fs_task.c`) | forty device entries | register, write, read | forwards to the console and waits for it |
| Console (`console.c`) | keyboard ring, modifier keys, one pending read, end of line flag, cursor | write, read, keyboard interrupt | interrupt 0x31; sends the end of interrupt itself |
| Disk driver (`ata_device_task.c`), test thread | four devices, a buffer | look for the drives, read a block by polling | sleeps at the clock server; the driver is never started |
| Host tools, GRUB, `intr.lst` | - | - | not part of the running system |

What is hard in it: a thread is preempted between any two system calls; sender
and receiver come in any order, with other senders and interrupts between them;
one bit stands for any number of interrupts that found a thread busy; the tick
that wakes a thread from an idle processor runs the scheduler twice; the run
queue and the lists of senders are rotated in place and grow by copying; the
servers answer with blocking sends and call each other; a table of sleepers is
compacted while its owner blocks in sends; one flag stands for all the lines
typed ahead; the loader overwrites memory that still holds what it has to load.
What makes each component correct:

- *scheduler*: no thread drops out of the list; the running thread is ready and
  first; the processor idles only if nobody is ready; ready threads take turns.
- *IPC*: a blocked sender is queued exactly once; nobody sleeps in a receive
  that something already there could end; messages carry the sender's words; a
  pending interrupt is never forgotten.
- *queue*: first in, first out, across wrapping and growth.
- *heap*: blocks tile the memory, holes are listed and joined, what is given
  out is long enough and nobody else's.
- *boot*: what GRUB loaded is seen where the first thread looks for it, what the
  kernel keeps is not written over, no access faults.
- *clock*: no sleeper is lost, entered twice or woken too early, and each wakes; the
  server never blocks in an answer.
- *file server and console*: every call returns and tells the truth; no circle of
  blocked threads; one read at a time reaches the console; characters are read in
  the order typed, and Enter ends a read; the screen shows the last lines printed;
  the keyboard does not go dead.
- *disk*: the block asked for, from the disk asked for, and no endless wait.
- *context switch* (not modelled): a thread resumes with the registers it had.

## Modules

| Module | What it is |
|---|---|
| `Kernel` | threads, scheduler, IPC and interrupt delivery, with their properties |
| `Rendezvous` | the abstract IPC: no run queue, no sender queues, no processor; a matching send and receive meet in one step, others block |
| `KernelRefinement` | the mapping under which `Kernel` implements `Rendezvous` |
| `MCKernel` | instances of `Kernel` for TLC, and the specification with fairness |
| `KernelProofs` | proofs about `Kernel`, the refinement of `Rendezvous` included |
| `Queue`, `Fifo`, `QueueProofs` | the ring buffer, with its mapping to the abstract queue, a sequence; proofs |
| `ClockServer`, `MCClockServer`, `ClockServerProofs` | the clock server, the root and the threads that sleep, composed with `Rendezvous`; proofs |
| `FileService`, `MCFileService`, `FileServiceProofs` | root, file server, console thread and clients, composed with `Rendezvous` and `Keyboard`; proofs |
| `Keyboard`, `KeyboardProofs` | scan codes, modifiers, the ring and the pending read, as operators; lemmas about them |
| `Screen` | the console's and the kernel's way of writing to the screen, as operators, and what a terminal shows |
| `Terminal`, `MCTerminal`, `TerminalProofs` | keyboard and screen as the user meets them, composed of the two above; proofs about both |
| `Heap`, `Allocator`, `HeapProofs` | the kernel's heap, with its mapping to what `new` and `delete` promise; proofs |
| `Boot`, `MCBoot` | from GRUB to the first thread |
| `Disk`, `MCDisk` | the ATA driver, against the drives of two channels |
| `MachineProofs` | proofs about `Boot` and `Disk`, each for its own specification |

### Kernel and the code

A variable has the name of the field it models: `threads`, `activeThread`,
`id_counter` (`idCounter`), and per thread `status`, `waitingFor`, `wanToSendMe`,
`interrupted` and the UTCB; `ids` is `_ids`; `halted` is true once
`high_level_handler` spins. `threads` and `wanToSendMe` are sequences, which
`Queue` justifies. Names of operators keep the code's spelling (`Shedule`).

One action is one entry into the kernel and its whole handler: `CreateThread`
(THREAD_CONTROL), `RegistreThreadToInterrupt` (INTERRUPT_CONTROL), the cases of
`ipc` (`SendToNobody`, `SendNow`, `SendLater`, `SendReceiveNow`,
`SendReceiveLater`, `ReceiveAny`, `ReceiveHardware`, `ReceiveFrom`), `Interrupt`
and `ClockInterrupt`. The call to `shedule()` at the end of a handler is part of
its action (`Shedule`), and the tick that wakes a thread from an idle processor
runs it twice. Handlers are atomic because every gate is an interrupt gate:
interrupts stay disabled until the `iret`.

Abstractions, and why they are sound for the properties:

- The program that runs in a thread is not known to the kernel, so the active
  thread makes any call with any argument, a thread that does not exist, itself
  and FREE_THREAD_ENTRY included. A computation between two calls is no step.
- A UTCB is its sender word and one value for the words. A thread fills it just
  before it sends. Before it receives, whatever it leaves there is overwritten or
  never read as a message; this is modelled as cleared (`Cleared`). The length
  word is not modelled, so the overrun of CopyMessage is out of this model.
- `ipc` from a thread that does not exist: `Locate` returns NULL and
  `EstaEnviando` reads the tid at a small address when the queue is not empty.
  That word is part of the BIOS interrupt table, never a small number, so the
  comparison fails as if the thread were not found.
- An interrupt may come at any moment between two handlers, which allows more
  behaviours than the interrupt controller does.
- Values of system calls, the fault handler (it prints and spins), call 43
  (it prints) and the tick counter (never read) are left out.

`Queue` has the fields of the class as variables; the slots of a new buffer hold
`Garbage` until they are written. `Contents` is what an iterator visits.

### The servers and the code

`ClockServer` and `FileService` are threads on top of `Rendezvous`: what the run
`kernel` shows `Kernel` to implement is what they are built on. The two share no
message, so they are two modules. `control` says before which statement a thread
stands; a step is one system call with the computation that precedes or follows
it, which touches the thread's UTCB and its own variables only.

`ClockServer`: `cuantos` is the table (`cantidad` is its length), `i` and `j` the
variables of the loop. An entry is looked at in a step of its own, because the
answer to a sleeper is a send, between two of which ticks and other calls come in.
The lowest ints, from which 50 cannot be subtracted, give either outcome.
`asked` and `elapsed` are history: milliseconds at ticks, from a call that
comes at the start or in the middle of a period. `elapsed` stops at what was
asked.

`FileService`: a message is virtual register 2, one number and its characters.
`devices`, `from` are the server's; a driver that does not exist makes the call
return at once, as `ipc` does. The console's variables are those of `Keyboard`;
`scancode` and `irq` are the keyboard controller and its line, held from the
interrupt to the `out_byte(0x20,0x20)` of the console. What a client writes is
its own name, so that `written` can say whose text reached the console. The
characters on the screen are in `Terminal`.

`Keyboard` has the fields of `keyboard`, `eofFile`, `pendingRequest` and the
request in one record. A scan code beyond the table of 84 rows reads any
character. The freed slots of the ring are shown as `NUL`, which nobody reads.
`Screen` has the two writers, of `console.c` and `video.cpp`, with the cursors
they keep; a tab is one blank of the console and seven of the kernel. `Terminal` lets kernel and console print, and a user press and
release keys, in any order; `paper` is the reference, the lines printed.

### Heap, Boot, Disk and the code

`Heap` is exact to the byte: `header` and `footer` are functions from the
addresses of present blocks. The comparator of the sorted list returns a bool and
is called as if it returned a pointer, so false may read as true: a hole is put
before some hole that is not smaller, or at the end (`Places`).

`Boot` counts memory in MB; the two bytes between modules are rounded up to one.
A page directory is a function from present entries to the MB they map; a file
is one segment, whose MB are numbered so that a copy over itself shows. A loader
that reads a broken image is a `Fault`. GRUB's outcome is any arrangement of
three modules that do not overlap, of which the microkernel takes less than 1 MB: its
heap begins behind it and ends 1 MB after its address (`InitMemory`), and the loader,
whose comment asks for less than 4 MB, checks neither. The page tables take as many MB from 5 on as the
memory needs (`Tables`).

`Disk` has a register of the selected drive per channel and a state per drive;
a drive that is absent answers 0 beside another one, and anything if its channel
is empty. `ReadBlock` may be asked for any device and block, where `at_thread`
reads the first thousand of device 0.

## Runs

| Run | Instance | Shows |
|---|---|---|
| `kernel` | 3 threads, the clock's vector, one content of messages | all safety properties, `RoundRobin` and the refinement `KeepsPromise` under every sequence of calls |
| `kernel_interrupts` | 2 threads, the vectors of clock and keyboard, two contents | `InterruptsAreDelivered` and `KeepsPromise` for interrupts that do not reschedule, and for what messages carry; the machine may stop (no deadlock check) |
| `kernel_live` | 3 threads, the clock's vector | `ReadyThreadsRun` under a fair clock |
| `queue` | a buffer of 2 slots, up to 4 elements of 2 values | `TypeOK` and `IsFifo`, through two enlargements |
| `clock_server` | 3 sleepers, 2 entries, requests of 40 and 60 ms and of the lowest int | the sleepers' safety, and that each wakes |
| `sleep_minimum` | 1 sleeper of 100 ms | *violated*: `SleepsAtLeast` |
| `terminal` | 2 by 2 screen, ring of 3, three keys and three modifiers | screen and keyboard |
| `file_service` | 2 clients that read and write, ring of 2, keys Enter and a letter | the servers' safety, and that calls return |
| `fs_unregistered` | the same | *violated*: `ReadTellsTheTruth` |
| `heap` | 152 bytes, pieces of 0 and 9 bytes, 2 listed holes | tiling, holes, the refinement of `Allocator`; memory runs out (no deadlock check) |
| `boot` | 28 or 33 MB, modules of 1 or 2 MB at ten places | boot; it ends (no deadlock check) |
| `disk` | any four drives, of which 3 are read, 4 blocks | the driver; it may hang on a block beyond 28 bits (no deadlock check) |

The properties, by what they say of the code:

- `NoThreadLost`, `RunsAReadyThread`: the assumption `shedule()` makes when it
  dequeues the first thread ("el hilo activo es el que esta al frente de la
  cola") holds at every entry, and no path leaves the processor idle with a
  thread ready.
- `RoundRobin`: no step moves a thread that waits for the processor further back,
  each tick moves it forward.
- `SendersQueuedOnce`: the two representations of "blocked", the status and the
  queue, agree.
- `NoMissedRendezvous`: no lost wakeup, for messages and for interrupts.
- `InterruptsAreDelivered`: the bit `interrupted` is cleared only by the step that
  writes the interrupt into the thread's UTCB.
- `KeepsPromise` (kernel): the kernel implements `Rendezvous`, so a program may be
  reasoned about without queues and scheduling.
- `SleepersAccounted`: a thread in `sleep()` is in the kernel's queue, in the
  server's hands or in the table, and in one place only, also while the table is
  being compacted; `AtMostOneTickEarly`: it is woken by the ticks after its call,
  although they are merged, late or counted from the middle of a period;
  `EverySleeperWakes`: also the one that finds the table full. `AnswersNeverBlock`:
  whoever the server answers is in the receive of its `sleep()`, so no sleeper can
  stop the clock for the others; a program that sends to the server by itself, without
  `sleep()`, is not modelled.
- `ShowsLastLines`: after any text the video memory holds the last lines printed,
  against a definition that knows no cursor and has one blank for a tab of the console.
  `TypedInOrder`: the ring loses nothing it has taken. `NoReadForgotten`: the answer is
  tried after each read and each key, by the console's own end of line flag; it does
  not say that a read gets what is there, since that flag forgets an Enter that was
  typed ahead when another key follows. `EnterEndsTheRead`: an Enter that is struck
  while a read waits ends it, also when the ring is full and drops the character.
  `AltGrIsRightAlt`: the translation of scan codes keeps up with the keys.
- `KeyboardLives`: the interrupt line is not lost between controller, pending bit
  and end of interrupt, from the start of the machine on. `NoCircle`: no deadlock
  among servers. `WriteTellsTheTruth`, `ReadTellsTheTruthLater`: a result is
  about what the console did, not about the request's words.
  `CallsReturn`: also a read of more than is typed, and one behind another.
  `OneReadAtATime`: the console has one place for a read that waits, and the file
  server, which waits inside each read, never gives it a second.
- `HolesAreListed`, `WholeAgain`: nothing is lost though a hole that finds the
  list full is dropped from it; the comment that the remainder always has room is
  true. `KeepsPromise` (heap): an allocation is long enough, and disjoint.
- `RootFindsItsFiles`, `NoFault`, `KernelStays`: wherever GRUB has put the modules,
  unless it is where the loader writes before it moves them (`Spared`) or memory is
  too small (`Room`); the loader checks neither, and without the two conditions
  the first two properties are false. Memory from 3 GB on is left out
  (`BelowKernel`): the loader maps the kernel over it. `KernelStays` names what the
  kernel keeps and nothing is written over: its image, the page tables and the
  root server's page directory, and the numbers of the free pages for a root server
  of 1 MB at most; for a larger one see below.
- `ReadsTheBlockAsked`, `ReadsReturn`: for blocks below 2^28; above, the block
  number selects the drive.

What the code's own comments say and the code does not do:

- `sleep` "espera al menos la cantidad de milisegundos indicada" (`calls.h:49`). The
  first tick may come right after the call, and counts for 50 ms
  (`sleep_minimum`). What holds is `AtMostOneTickEarly`.
- `read` returns "Cantidad de bytes leidos, negativo en caso de error"
  (`calls.h:70`). A read before the console has registered is forwarded to thread
  0, returns at once and reports 2, the code of the operation, as the number of
  characters (`fs_unregistered`).
- A tab: "mostrar 4 espacios en blanco" (`console.c:207`, `console.c:289`). Both places
  write one blank; the kernel's `printf` writes seven. `ShowsLastLines` counts what is
  written (`Glyph`, `Untabbed`), and so passes on a text with a tab.
- `MICROKERNEL_HEAP2` is at "9 mb" and the users' memory begins at 12 (`memory.h:20`,
  `memory.h:21`). The loader maps 3 GB to 4 MB, so the kernel's free pages lie from 13 MB
  to 16 MB, inside the users' memory, and a root server that reaches beyond 13 MB is
  written over their numbers, as in the run `boot` with two MB. What keeps this without effect: a page is
  asked for once, before that, and its address, from which `LoadRootServer` takes
  `MICROKERNEL_ADDRESS` without adding `MICROKERNEL_BASE_ADDRESS`, comes to 9 MB, where
  the root server's directory is then written, in no page of the allocator.

### Bounds

In `Kernel`, `MaxThreads` bounds the threads ever created (the code has no end but
the memory). Two threads make every pair of calls; the third is needed for two
senders in one queue, for a receive from one of them that passes over the other,
for a chain of blocked threads and for a rotation that is not a swap. Messages
of one content are enough where only who meets whom matters; `kernel_interrupts`
has two, and a second vector for the interrupt that does not reschedule and for
the one that nobody registered. In `queue`, 2 slots and 4 elements enlarge the
buffer twice, from every position of its indexes.

In `clock_server` three sleepers share two entries, so that the table is full and
a third waits in the kernel; requests of two ticks let an entry be kept while
another is removed. `HalfRange` makes an int small; 64 is where the overflow
happens. `terminal` has the smallest screen on which wrapping, scrolling and the
last cell differ, and a ring that fills up; the reads ask for none, some and more
than it holds (`MaxWanted`). In `file_service` both clients write and read, so that a
read comes behind one that waits, and one of them asks for more than the ring holds. In `heap` seven blocks of the least size fit (a piece of
no bytes is a header and a footer); with two listed holes the list overflows and
recovers. `boot` has places before, on and behind every address the
loader writes to, and a memory whose last entry is cut off. `disk` has every
combination of drives, and blocks at the bounds of each register.

### Fairness

- `kernel_live`: only `ClockInterrupt` is fair: the timer is periodic hardware whose
  end of interrupt the kernel sends itself (`low_level_clock_handler`), and threads
  run with interrupts enabled. A thread may mask interrupts with `cli`; no program
  of this system does so but the console, for five instructions. Threads are not
  assumed to make calls. The calls are limited to the kinds the system's own
  threads make, to keep the graph within reach of a liveness check.
- `clock_server`, `file_service`: each server is weakly fair, which `RoundRobin` and
  `ReadyThreadsRun` justify, and a sender whose turn comes again and again is
  received (strong fairness per sender), since the kernel's queue of senders is
  first in, first out and a server leaves its interrupts time: handling a message
  takes far less than a tick, and the keyboard is slower than the console. Ticks go
  on, and a user presses Enter now and then: without it a read waits for ever, as
  it should. Nobody else is assumed to call.
- `disk`: the driver's thread runs and a drive ends what it has begun.

## Proofs

The theorems hold for every value of the constants that satisfies the module's
assumptions: any number of threads, clients, sleepers and devices, any set of
vectors, any contents of messages, a table, a ring, a buffer and a heap of any size.
The assumptions say what the code has by its declarations: the order of the tids, sizes
that are not zero, tables of characters with 84 rows, keys whose codes fit in a byte,
texts made of characters.
Each proof has the same parts: lemmas on the operators; an inductive invariant `IInv`
with one lemma for each kind of step (`InitEstablishes`, `NextKeeps`); `Invariance`
by temporal reasoning; and then what follows from it. Action properties are proved
from the invariant, one action after another.

`KernelProofs`: each of the kernel's safety properties and `RoundRobin`
(`TypeCorrect`, `ThreadsAreKept`, `ProcessorIsUsed`, `SendersAreQueuedOnce`,
`RendezvousAreNotMissed`, `InterruptsAreHandedOver`,
`ThreadsTakeTurns`).

- `Rotate` permutes a sequence; removing an element from a sequence without
  repetitions and appending a new one keep it so; `SheduledProperties` says that the
  list `shedule()` leaves is a rotation of the one it found and that it picks a
  ready thread if there is one.
- None of the properties is inductive alone. That the run queue is right needs that
  only threads that exist are queued or registered; that no rendezvous is missed
  needs that a receiver names somebody only while it waits and that queues hold
  blocked senders only; each of these needs that the active thread is ready.
- `KernelKeepsPromise`: the kernel implements `Rendezvous`, every handler as the step
  of the promise that bears its name, a bare `shedule()` as none. A blocked sender's
  peer in the promise is found by the queue it is in, of which there is one
  (`SendersQueuedOnce`); that a thread which is registered for an interrupt exists
  is proved first, since the promise stops the machine for the others only.

`QueueProofs`: a buffer of any initial size implements `Fifo` (`QueueIsFifo`). The
remainders of the code are first turned into case distinctions (`Remainders`), so
that the indexes stay inside the buffer (`IndexesFit`); then each operation is shown
to append, take the head or change nothing. That no operation returns a slot nobody
wrote (`TypeCorrect`) does not follow from the indexes alone: it uses the refinement.

`ClockServerProofs`: `TypeCorrect`, `SleepersAreAccounted`, `SleepersWakeOnTime`,
`AnswersAreTaken`.
The invariant says, of each sleeper, where it is (`Accounts`: the entries that count
are those before `j` and from `i` on, and the server never has a message in its
hands while the table is full) and how much of its time is left (`Times`: what has
passed and what stands in the entry make up what was asked, but for half a tick, and
for the ticks that are pending or not yet subtracted from this entry, `Due`). That
the table never overflows is `Table` together with `Source`: a full table receives
from the hardware only. That no answer blocks is part of the invariant (`Types`): who is
in the table, or in the server's hands, has been in its receive since it was taken.

`FileServiceProofs`: `TypeCorrect`, `KeyboardGoesOn`, `NobodyWaitsInACircle`,
`OneReadReachesTheConsole`, `WritesTellTheTruth`, `ReadsTellTheTruth`. The invariant says which thread waits for
which, and what the words between them are: the file server serves one caller
(`Caller`), every other client is running or in its queue, and while it waits for the
console the console holds its words (`Handling`) or a read waits for keys, and never
both (`ReadWaits`). From this
no send of an answer blocks, only the file server ever calls the console, and it
does so only after the console's own call has been answered, so that there is no
circle. `Answered` says that what the file server is about to pass on is true;
`Returns`, that a client's call comes back from no other step. `Interrupts` follows
the keyboard's interrupt from the controller to the console.

`KeyboardProofs` has lemmas about the ring, for both modules that use `Keyboard`: the
operators keep `end` as many places after `front` as there are characters, a key adds
one at most, and an answer takes what it says from the front. `TerminalProofs` proves
from them that the answer is tried after each read and key (`ReadsAreAnswered`), that
Enter ends the read that waits (`EnterEndsReads`), that characters
are read in the order typed (`CharactersKeepTheirOrder`), and that the AltGr level
follows the right Alt key (`AltGrFollowsTheKey`), for which the invariant looks into the
codes that are still to arrive.

The screen is the other half of `TerminalProofs`: `TypeCorrect` and `ScreenShowsThePaper`,
from `ScreenIInv`. A text is written by a fold over its characters, so each of the two
writers gets a lemma for one character (a line feed, a tab, a character in the last
column, one in the last row) and one for a text, by induction on its length. What holds
before and after each character is that the video memory is the last rows of the paper
and the cursor is where the paper ends. The paper of one writer says nothing once the
other has printed, so that the invariant keeps, in that case, no more than that both
cursors are on the screen, which is what `ShowsLastLines` and `TypeOK` claim.

`HeapProofs`: `TypeCorrect`, `HolesStayListed`, `HeapIsWholeAgain`, `HeapKeepsPromise`.
The invariant is that blocks tile the memory (`Tiled`), that no two holes touch
(`HolesApart`) and that the list has each of them once unless it was full when one
was freed (`Listed`). That the heap is whole again when everything is given back,
its one hole in the list, needs all three: with no block in use two holes would
touch. The proof showed that the
smallest block is a bare header and footer, from `new` of no bytes; the run has
pieces of that size.

`MachineProofs`, the boot: `NothingFaults`, `RootStartsWhole`, `KernelSurvives`. The
invariant follows each file: whole where GRUB has put it until it is moved, whole where it
was moved from then on (`ModulesOK`), with the order of the steps and the loader's page
directory (`OrderOK`). `Maps` says what the directory maps, `CopiedIs` what a copy leaves:
it changes nothing outside its destination, and the destination gets what the source
*had*, unless the copy, which goes upwards, starts inside what it has still to read;
`Spared` excludes that. Nothing is assumed for the kernel's own part (`KernelOK`): with
too little memory something faults before the microkernel could be written over. The
numbers of the free pages, in the fourteenth MB, are in it under the one condition that
the root server ends before (`KernelSurvives`).
A destination at 3 GB or above would be the kernel's memory under another address; it is
never reached because module 2 lies below it and must be mapped before module 3 is moved.

`MachineProofs`, the disk: `BlockAskedIsRead`. While the driver polls, the drive that is
selected is the one it was asked for, and is at work on that block (`Asked`): below 2^28
the block number leaves the drive's bit alone.

Texts and copies are data of any length, so their lemmas need induction. It is taken from
the library's theorem that the order of the natural numbers is well-founded, in the form
that every set of numbers has a smallest one (`Smallest`); `Induction` is then about sets,
and the statement to be proved is turned into the set of the numbers for which it holds.

Only model-checked:

- liveness (`ReadyThreadsRun`, `EverySleeperWakes`, `CallsReturn`, `ReadsReturn`), which
  is out of the prover's reach under fairness;
- the runs that are violated, which are counterexamples.

## Plan

1. *Done*: `Kernel`, `Rendezvous`, their runs and proofs; `Queue`, `Fifo`.
2. *Done*: the servers on top of `Rendezvous`; `Keyboard`, `Screen`, `Terminal`;
   `Heap` with `Allocator`; `Boot`; `Disk`.
3. *Done*: proofs that the kernel implements `Rendezvous`, and of the safety of clock
   server, file server, keyboard, heap and disk.
4. *Done*: proofs about the screen and the boot, with which every safety property that a
   passing run checks is a theorem.
5. `ContextSwitch`: `_save` and `_restore` for the kinds of frame, and
   FastSysCall with interrupts enabled.
6. The layout of messages in bytes, and the results of system calls.

## Not modelled

- The context switch: assembly whose correctness is about registers and stacks,
  none of which the rest of the model has. `Kernel` takes handlers as atomic.
- Descriptor tables, the programming of the PIC and of the timer, the enumeration of
  PCI devices: straight-line port output whose only effect, that vectors arrive,
  the models assume.
- `printf` of kernel and library: the laying out of numbers. `Terminal` takes the text.
- The host tools, GRUB's files, the Makefiles and listings are not part of the
  running system; the RAM disk is read by nobody.
- `DeallocPage`: it has no caller.
