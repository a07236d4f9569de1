----------------------------- MODULE FileService -----------------------------
(***************************************************************************)
(* The file server (Kernel/fs_task.c), the console thread                  *)
(* (Kernel/console.c), the threads that read and write through them        *)
(* (libc/calls.c) and the root that creates them, on top of the kernel's   *)
(* IPC. The clock server and those who sleep share nothing with them and   *)
(* are in ClockServer.                                                     *)
(*                                                                         *)
(* A message is its virtual register 2 (operation or result), a number     *)
(* (permissions, how many characters to read) and its characters. What a   *)
(* thread computes between two system calls touches only its own variables *)
(* and is part of the step of one of them.                                 *)
(***************************************************************************)
EXTENDS Integers, Sequences, FiniteSets

CONSTANTS Root,              \* the thread the loader starts
          FS,                \* the tid of the file server: the code writes 5
          Console,           \* the thread created after it
          Clients,           \* the threads created after the console
          MAX_DEVICE_COUNT,
          Counts,            \* how many characters each client may ask for
          SIZE_BUFFER_TECLADO, tecladoEsp, Chars, Keys,   \* see Keyboard
          KeyboardVector

ASSUME FileServiceAssumption ==
  /\ MAX_DEVICE_COUNT \in Nat \ {0}
  /\ Root \in Nat /\ FS \in Nat /\ Console \in Nat /\ Clients \subseteq Nat
  /\ 2 < Root /\ Root < FS /\ FS < Console
  /\ \A t \in Clients : Console < t
  /\ Counts \in [Clients -> SUBSET (0 .. 240)]

Threads == {Root, FS, Console} \union Clients

NOBODY          == 0
HARDWARE_SOURCE == 1
ANY_SOURCE      == 2

OS_OK   == 0
OS_FAIL == 1

DEVICE_INITIALITED == 0
READ_CHARACTERS    == 2
WRITE_CHARACTERS   == 3

VARIABLES state, peer, box, pending, handler, stopped,   \* see Rendezvous
          control,    \* what each thread does next when it runs
          devices,    \* _characterDevices
          from,       \* the file server's local: whom it serves
          keyboard,   \* the console's variables for the keyboard
          scancode,   \* the scan codes the keyboard controller holds, one at most
          irq,        \* the keyboard's line: masked, ready, or being served
          request,    \* what each client is waiting for
          written     \* the clients whose text the console has written

ipc     == <<state, peer, box, pending, handler, stopped>>
device  == <<keyboard, scancode, irq>>
history == <<request, written>>
vars    == <<ipc, control, devices, from, device, history>>

Message(vr2, number, text) == [vr2 |-> vr2, number |-> number, text |-> text]

\* What the console gets as the interrupt; it does not look at the number.
KeyboardInterrupted == Message(KeyboardVector, 0, <<>>)

IPC == INSTANCE Rendezvous WITH
         Vectors <- {KeyboardInterrupted}, Words <- {},
         Nobody <- NOBODY, Hardware <- HARDWARE_SOURCE, Anybody <- ANY_SOURCE,
         Deferred <- KeyboardInterrupted, Empty <- Message(0, 0, <<>>)

KB == INSTANCE Keyboard

ASSUME ConsoleAssumption ==
  /\ SIZE_BUFFER_TECLADO \in Nat \ {0, 1}
  /\ {KB!NUL, KB!NL} \subseteq Chars
  /\ tecladoEsp \in KB!Tables
  /\ Keys \subseteq 0 .. 255

\* Static data is zero until fs_thread marks every entry as free.
Init ==
  /\ IPC!Init
  /\ state[Root] = "running"
  /\ control  = [t \in Threads |->
                   CASE t = Root    -> "creating"
                     [] t = FS      -> "starting"
                     [] t = Console -> "registering"
                     [] OTHER       -> "client"]
  /\ devices  = [d \in 0 .. MAX_DEVICE_COUNT - 1 |-> [freeEntry |-> FALSE, idDriver |-> 0]]
  /\ from     = 0
  /\ keyboard = KB!InitializeKeyboard
  /\ scancode = {}
  /\ irq      = "masked"
  /\ request  = [c \in Clients |-> "none"]
  /\ written  = {}

At(t, at) == IPC!Running(t) /\ control[t] = at

Goto(t, to) == control' = [control EXCEPT ![t] = to]

Received(t) == box[t].words

-----------------------------------------------------------------------------
(* The root creates the servers and then the others.                       *)

CreateThread ==
  /\ At(Root, "creating")
  /\ \E t \in Threads :
       /\ \A u \in Threads : u < t => IPC!Present(u)
       /\ IPC!Spawn(t)
  /\ UNCHANGED <<control, devices, from, device, history>>

-----------------------------------------------------------------------------
(* fs_thread.                                                              *)

Serve(clean) ==
  /\ devices' = clean
  /\ IPC!Receive(FS, ANY_SOURCE)
  /\ Goto(FS, "received")
  /\ UNCHANGED <<from, device, history>>

FSStarts ==
  /\ At(FS, "starting")
  /\ Serve([d \in DOMAIN devices |-> [devices[d] EXCEPT !.freeEntry = TRUE]])

FSListens == At(FS, "listening") /\ Serve(devices)

\* success() and error(), after which the server listens again.
AnswerCaller(caller, vr2) ==
  /\ IPC!Send(FS, caller, Message(vr2, 0, <<>>))
  /\ Goto(FS, "listening")

Registered(d, driver) ==
  [devices EXCEPT ![d] = [freeEntry |-> FALSE, idDriver |-> driver]]

\* The first free entry is taken; permissions are stored and never looked at.
RegisterDevice ==
  /\ At(FS, "received") /\ Received(FS).vr2 = DEVICE_INITIALITED
  /\ LET free == {d \in DOMAIN devices : devices[d].freeEntry}
     IN  IF free = {}
         THEN AnswerCaller(box[FS].src, OS_FAIL) /\ UNCHANGED devices
         ELSE /\ \E d \in free :
                   /\ \A e \in free : d <= e
                   /\ devices' = Registered(d, box[FS].src)
              /\ AnswerCaller(box[FS].src, OS_OK)
  /\ UNCHANGED <<from, device, history>>

\* Reads and writes go to the driver of the first entry, taken or not. Where there
\* is no such thread the call returns at once and the registers are as they were.
Forward(then) ==
  /\ IF IPC!Present(devices[0].idDriver)
     THEN IPC!Call(FS, devices[0].idDriver, Received(FS))
     ELSE IPC!Send(FS, devices[0].idDriver, Received(FS))
  /\ from' = box[FS].src
  /\ Goto(FS, then)
  /\ UNCHANGED <<devices, device, history>>

ForwardWrite ==
  At(FS, "received") /\ Received(FS).vr2 = WRITE_CHARACTERS /\ Forward("written")

\* Mutant: "SEND solamente, pues muchos hilos quieren trabajar a la vez" (a TODO in
\* do_read).
ForwardReadSending ==
  /\ At(FS, "received") /\ Received(FS).vr2 = READ_CHARACTERS
  /\ IPC!Send(FS, devices[0].idDriver, Received(FS))
  /\ from' = box[FS].src
  /\ Goto(FS, "listening")
  /\ UNCHANGED <<devices, device, history>>

ForwardRead ==
  At(FS, "received") /\ Received(FS).vr2 = READ_CHARACTERS /\ Forward("read")

\* Mutant: whatever the driver says.
WriteAlwaysDone ==
  /\ At(FS, "written")
  /\ AnswerCaller(from, OS_OK)
  /\ from' = 0
  /\ UNCHANGED <<devices, device, history>>

WriteDone ==
  /\ At(FS, "written")
  /\ AnswerCaller(from, IF Received(FS).vr2 = OS_OK THEN OS_OK ELSE OS_FAIL)
  /\ from' = 0
  /\ UNCHANGED <<devices, device, history>>

\* Mutant: the operation is still in the register of the result.
ReadDoneUncounted ==
  /\ At(FS, "read")
  /\ IPC!Send(FS, from, [Received(FS) EXCEPT !.vr2 = READ_CHARACTERS])
  /\ Goto(FS, "listening")
  /\ from' = 0
  /\ UNCHANGED <<devices, device, history>>

\* The driver's answer goes on as it is.
ReadDone ==
  /\ At(FS, "read")
  /\ IPC!Send(FS, from, Received(FS))
  /\ Goto(FS, "listening")
  /\ from' = 0
  /\ UNCHANGED <<devices, device, history>>

FSStep == \/ FSStarts \/ FSListens \/ RegisterDevice
          \/ ForwardWrite \/ ForwardRead \/ WriteDone \/ ReadDone

-----------------------------------------------------------------------------
(* Console_Thread. It does not look at the answer to its registration.     *)

RegisterConsole ==
  /\ At(Console, "registering")
  /\ IPC!Call(Console, FS, Message(DEVICE_INITIALITED, 3, <<>>))
  /\ Goto(Console, "claiming")
  /\ UNCHANGED <<devices, from, device, history>>

\* Waiting for the keyboard's acknowledgements, it drops what was typed before.
InitializeKeyboard ==
  /\ At(Console, "claiming")
  /\ IPC!Claim(Console, KeyboardInterrupted)
  /\ keyboard' = KB!InitializeKeyboard
  /\ scancode' = {}
  /\ Goto(Console, "unmasking")
  /\ UNCHANGED <<devices, from, irq, history>>

\* Between cli and sti.
Unmask ==
  /\ At(Console, "unmasking")
  /\ irq' = "ready"
  /\ Goto(Console, "listening")
  /\ UNCHANGED <<ipc, devices, from, keyboard, scancode, history>>

ConsoleListens ==
  /\ At(Console, "listening")
  /\ IPC!Receive(Console, ANY_SOURCE)
  /\ Goto(Console, "received")
  /\ UNCHANGED <<devices, from, device, history>>

\* TryAnswerRequest. The request is always the file server's.
Settle(k) ==
  /\ keyboard' = KB!TryAnswerRequest(k)
  /\ IF KB!CanAnswer(k)
     THEN IPC!Send(Console, FS, Message(KB!Taken(k), 0, KB!Answer(k)))
     ELSE UNCHANGED ipc
  /\ Goto(Console, "listening")

\* Mutant: the end of interrupt is forgotten.
AcknowledgeNever == UNCHANGED irq

Acknowledge == irq' = "ready"

\* Mutant: a read is looked at again only when the next read comes.
HandleKeyOnly ==
  /\ At(Console, "received") /\ box[Console].src = HARDWARE_SOURCE
  /\ \E code \in scancode : \E t \in KB!readKeyboard(keyboard, code) : keyboard' = t.keyboard
  /\ Goto(Console, "listening")
  /\ scancode' = {}
  /\ Acknowledge
  /\ UNCHANGED <<ipc, devices, from, history>>

\* Mutant: the echo is printed with write(), through the file server.
HandleKeyWriting ==
  /\ At(Console, "received") /\ box[Console].src = HARDWARE_SOURCE
  /\ \E code \in scancode : \E t \in KB!readKeyboard(keyboard, code) : keyboard' = t.keyboard
  /\ IPC!Call(Console, FS, Message(WRITE_CHARACTERS, 1, <<>>))
  /\ Goto(Console, "listening")
  /\ scancode' = {}
  /\ Acknowledge
  /\ UNCHANGED <<devices, from, history>>

HandleKey ==
  /\ At(Console, "received") /\ box[Console].src = HARDWARE_SOURCE
  /\ \E code \in scancode :
       \E t \in KB!readKeyboard(keyboard, code) : Settle(t.keyboard)
  /\ scancode' = {}
  /\ Acknowledge
  /\ UNCHANGED <<devices, from, history>>

HandleWrite ==
  /\ At(Console, "received") /\ box[Console].src # HARDWARE_SOURCE
  /\ Received(Console).vr2 = WRITE_CHARACTERS
  /\ written' = written \union {c \in Clients : Received(Console).text = <<c>>}
  /\ IPC!Send(Console, box[Console].src, Message(OS_OK, 0, <<>>))
  /\ Goto(Console, "listening")
  /\ UNCHANGED <<devices, from, device, request>>

HandleRead ==
  /\ At(Console, "received") /\ box[Console].src # HARDWARE_SOURCE
  /\ Received(Console).vr2 = READ_CHARACTERS
  /\ Settle(KB!Request(keyboard, Received(Console).number))
  /\ UNCHANGED <<devices, from, scancode, irq, history>>

ConsoleStep == \/ RegisterConsole \/ InitializeKeyboard \/ Unmask
               \/ ConsoleListens \/ HandleKey \/ HandleWrite \/ HandleRead

-----------------------------------------------------------------------------
(* The keyboard controller: the next code comes when the last was read, and *)
(* interrupts when the line is neither masked nor being served.            *)

KeyTyped(code) ==
  /\ scancode = {}
  /\ scancode' = {code}
  /\ UNCHANGED <<ipc, control, devices, from, keyboard, irq, history>>

KeyboardInterrupt ==
  /\ scancode # {} /\ irq = "ready"
  /\ irq' = "serving"
  /\ IPC!Signal(KeyboardInterrupted)
  /\ UNCHANGED <<control, devices, from, keyboard, scancode, history>>

-----------------------------------------------------------------------------
(* write() and read(); the result is what comes back in register 2. The    *)
(* text a client writes tells who wrote it.                                *)

CallWrite(c) ==
  /\ At(c, "client")
  /\ IPC!Call(c, FS, Message(WRITE_CHARACTERS, 1, <<c>>))
  /\ request' = [request EXCEPT ![c] = "write"]
  /\ written' = written \ {c}
  /\ UNCHANGED <<control, devices, from, device>>

CallRead(c, count) ==
  /\ At(c, "client")
  /\ IPC!Call(c, FS, Message(READ_CHARACTERS, count, <<>>))
  /\ request' = [request EXCEPT ![c] = "read"]
  /\ UNCHANGED <<control, devices, from, device, written>>

ClientStep(c) == CallWrite(c) \/ \E count \in Counts[c] : CallRead(c, count)

-----------------------------------------------------------------------------

Next ==
  \/ CreateThread
  \/ FSStep
  \/ ConsoleStep
  \/ \E code \in Keys : KeyTyped(code)
  \/ KeyboardInterrupt
  \/ \E c \in Clients : ClientStep(c)

\* Threads take turns, the keyboard's line works, a user presses Enter now and then,
\* and the kernel's queue of senders is first in, first out.
Fairness ==
  /\ WF_vars(CreateThread) /\ WF_vars(FSStep) /\ WF_vars(ConsoleStep)
  /\ WF_vars(KeyboardInterrupt)
  /\ SF_vars(\E code \in Keys : KB!Letters(keyboard, code) = {KB!NL} /\ KeyTyped(code))
  /\ \A c \in Clients : SF_vars(FSListens /\ box'[FS].src = c)
  /\ SF_vars(ConsoleListens /\ box'[Console].src = FS)

Spec == Init /\ [][Next]_vars

FairSpec == Spec /\ Fairness

-----------------------------------------------------------------------------
(* Properties.                                                             *)

\* The variables have their types.
TypeOK ==
  /\ control \in [Threads -> {"creating", "starting", "registering", "client",
                              "listening", "received", "written", "read", "claiming",
                              "unmasking"}]
  /\ \A d \in DOMAIN devices : devices[d].idDriver \in {0, Console}
  /\ from \in Clients \union {0}
  /\ keyboard.count \in 0 .. SIZE_BUFFER_TECLADO - 1
  /\ scancode \subseteq Keys /\ Cardinality(scancode) <= 1
  /\ irq \in {"masked", "ready", "serving"}
  /\ written \subseteq Clients

\* The keyboard never goes dead: the machine is not stopped by a key nobody is
\* registered for, and while its line is being served the console has the interrupt
\* in hand or will get it, with the code still there to be read.
KeyboardLives ==
  /\ ~stopped
  /\ irq = "serving" =>
       /\ scancode # {}
       /\ pending[Console]
          \/ (box[Console].src = HARDWARE_SOURCE /\ At(Console, "received"))

\* No threads wait for each other in a circle, though servers send to servers with
\* calls that block and the console registers with the server that will call it.
NoCircle ==
  \A circle \in SUBSET Threads :
    (\A t \in circle : IPC!Present(t) /\ ~IPC!Running(t) /\ peer[t] \in circle)
      => circle = {}

\* The console has one place for a read that waits ("esto no es valido si varios pueden
\* pedir a la vez", Read in console.c), and no second read ever reaches it before the
\* first is answered, however many threads read.
OneReadAtATime ==
  At(Console, "received") /\ box[Console].src # HARDWARE_SOURCE
    /\ Received(Console).vr2 = READ_CHARACTERS => ~keyboard.pendingRequest

Returned(c) == state[c] = "receiving" /\ state'[c] = "running"

\* A write succeeds exactly if the console has written that thread's text.
WriteTellsTheTruth ==
  [][\A c \in Clients : Returned(c) /\ request[c] = "write" =>
       (box'[c].words.vr2 = OS_OK <=> c \in written)]_vars

\* read(): "Cantidad de bytes leidos, negativo en caso de error" (libc/calls.h).
ReadTellsTheTruth ==
  [][\A c \in Clients : Returned(c) /\ request[c] = "read" =>
       \/ box'[c].words.vr2 < 0
       \/ box'[c].words.vr2 = Len(box'[c].words.text)]_vars

\* The same once the console is registered.
ReadTellsTheTruthLater ==
  [][\A c \in Clients : Returned(c) /\ request[c] = "read" /\ devices[0].idDriver # 0 =>
       box'[c].words.vr2 = Len(box'[c].words.text)]_vars

\* Every call of read() and write() returns, also a read of more than is typed, and
\* one behind a read of another thread.
CallsReturn == \A c \in Clients : IPC!Present(c) ~> IPC!Running(c)

=============================================================================
