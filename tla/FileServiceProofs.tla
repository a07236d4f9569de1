-------------------------- MODULE FileServiceProofs --------------------------
(***************************************************************************)
(* The file server, the console and their clients do not block each other, *)
(* the keyboard lives, and what a read or a write returns is true, for any *)
(* number of clients and devices and a ring of any size.                   *)
(***************************************************************************)
EXTENDS FileService, FiniteSetTheorems, TLAPS

KP == INSTANCE KeyboardProofs

\* The kernel's part: no send is blocked, as whoever is answered waits for the answer.
IpcShape ==
  /\ state \in [Threads -> {"absent", "running", "receiving", "calling"}]
  /\ peer \in [Threads -> Int]
  /\ DOMAIN box = Threads
  /\ DOMAIN handler = {KeyboardInterrupted}
  /\ pending \in [Threads -> BOOLEAN]
  /\ ~stopped

Controls == {"creating", "starting", "registering", "client", "listening", "received",
             "written", "read", "claiming", "unmasking"}

Shapes ==
  /\ IpcShape
  /\ control \in [Threads -> Controls]
  /\ DOMAIN request = Clients
  /\ written \subseteq Clients
  /\ KP!Ring(keyboard)

Idle(t) == state[t] = "running" /\ peer[t] = NOBODY

BlockedOn(t, what, whom) == state[t] = what /\ peer[t] = whom

\* The words of a client that waits for its answer.
Asks(c, words) ==
  \/ words = Message(WRITE_CHARACTERS, 1, <<c>>) /\ request[c] = "write" /\ c \notin written
  \/ \E count \in Nat : words = Message(READ_CHARACTERS, count, <<>>) /\ request[c] = "read"

\* The thread whose message the file server has taken and not answered.
Caller == IF control[FS] \in {"written", "read"} THEN from
          ELSE IF control[FS] = "received" /\ state[FS] = "running" THEN box[FS].src
          ELSE NOBODY

RootOK == control[Root] = "creating" /\ Idle(Root)

ClientOK(c) ==
  /\ control[c] = "client"
  /\ \/ state[c] \in {"absent", "running"} /\ peer[c] = NOBODY
     \/ BlockedOn(c, "calling", FS) /\ Asks(c, box[c].words)
     \/ BlockedOn(c, "receiving", FS) /\ c = Caller

\* The console has been answered by the file server.
HasRegistered ==
  \/ control[Console] \in {"unmasking", "listening", "received"}
  \/ control[Console] = "claiming" /\ state[Console] = "running"

\* The console holds the words that the file server forwarded.
Handling ==
  /\ control[Console] = "received" /\ state[Console] = "running"
  /\ box[Console].src = FS

ConsoleOK ==
  \/ control[Console] = "registering" /\ state[Console] \in {"absent", "running"} /\ peer[Console] = NOBODY
  \/ /\ control[Console] = "claiming" /\ BlockedOn(Console, "calling", FS)
     /\ box[Console].words = Message(DEVICE_INITIALITED, 3, <<>>)
  \/ control[Console] = "claiming" /\ BlockedOn(Console, "receiving", FS) /\ Caller = Console
  \/ control[Console] \in {"claiming", "unmasking", "listening"} /\ Idle(Console)
  \/ control[Console] = "received" /\ BlockedOn(Console, "receiving", ANY_SOURCE)
  \/ /\ control[Console] = "received" /\ Idle(Console)
     /\ \/ box[Console].src = HARDWARE_SOURCE /\ irq = "serving"
        \/ /\ box[Console].src = FS
           /\ BlockedOn(FS, "receiving", Console)
           /\ Asks(from, box[Console].words)

\* The file server serves one caller at a time, that waits for it.
Serving(caller) == BlockedOn(caller, "receiving", FS)

FSOK ==
  \/ control[FS] = "starting" /\ state[FS] \in {"absent", "running"} /\ peer[FS] = NOBODY /\ from = 0
  \/ control[FS] = "listening" /\ Idle(FS) /\ from = 0
  \/ control[FS] = "received" /\ BlockedOn(FS, "receiving", ANY_SOURCE) /\ from = 0
  \/ /\ control[FS] = "received" /\ Idle(FS) /\ from = 0
     /\ Serving(box[FS].src)
     /\ \/ box[FS].src = Console /\ box[FS].words = Message(DEVICE_INITIALITED, 3, <<>>)
        \/ box[FS].src \in Clients /\ Asks(box[FS].src, box[FS].words)
  \/ /\ control[FS] \in {"written", "read"} /\ from \in Clients
     /\ Serving(from)
     /\ request[from] = IF control[FS] = "written" THEN "write" ELSE "read"
     /\ \/ Idle(FS)
        \/ BlockedOn(FS, "calling", Console) /\ HasRegistered /\ Asks(from, box[FS].words)
        \/ BlockedOn(FS, "receiving", Console) /\ HasRegistered /\ (Handling \/ keyboard.pendingRequest)

\* What the file server passes on as the answer tells the truth.
Answered ==
  state[FS] = "running" =>
    /\ control[FS] = "written" => (box[FS].words.vr2 = OS_OK <=> from \in written)
    /\ control[FS] = "read" /\ devices[0].idDriver # 0 =>
         box[FS].words.vr2 = Len(box[FS].words.text)

\* A read that waits for keys is the one the file server waits for.
ReadWaits ==
  keyboard.pendingRequest =>
    /\ control[FS] = "read" /\ BlockedOn(FS, "receiving", Console) /\ ~Handling
    /\ control[Console] \in {"listening", "received"}

Tables == [0 .. MAX_DEVICE_COUNT - 1 -> [freeEntry : BOOLEAN, idDriver : Int]]

\* The console has the first entry once it is registered.
Devices ==
  /\ devices \in Tables
  /\ \A d \in DOMAIN devices :
       devices[d].idDriver = IF HasRegistered /\ d = 0 THEN Console ELSE 0
  /\ ~HasRegistered /\ control[FS] # "starting" => \A d \in DOMAIN devices : devices[d].freeEntry

\* The keyboard interrupts the console when its line is ready, and only then.
Interrupts ==
  /\ irq \in {"masked", "ready", "serving"}
  /\ scancode = {} \/ \E code \in Keys : scancode = {code}
  /\ irq # "masked" => control[Console] \in {"listening", "received"}
  /\ control[Console] \in {"unmasking", "listening", "received"} =>
       handler[KeyboardInterrupted] = Console
  /\ \A t \in Threads : pending[t] =>
       /\ t = Console /\ irq = "serving"
       /\ ~(box[Console].src = HARDWARE_SOURCE /\ At(Console, "received"))
  /\ irq = "serving" =>
       /\ scancode # {}
       /\ pending[Console] \/ (box[Console].src = HARDWARE_SOURCE /\ At(Console, "received"))

IInv ==
  /\ Shapes /\ RootOK /\ (\A c \in Clients : ClientOK(c)) /\ FSOK /\ ConsoleOK
  /\ Answered /\ ReadWaits /\ Devices /\ Interrupts

-----------------------------------------------------------------------------
(* Threads and messages.                                                   *)

LEMMA Ids ==
  /\ Root \in Threads /\ FS \in Threads /\ Console \in Threads /\ Clients \subseteq Threads
  /\ Threads = {Root, FS, Console} \union Clients
  /\ Root # FS /\ Root # Console /\ FS # Console
  /\ Root \notin Clients /\ FS \notin Clients /\ Console \notin Clients
  /\ \A t \in Threads : t \in Int /\ t # 0 /\ t # 1 /\ t # 2
  /\ NOBODY = 0 /\ HARDWARE_SOURCE = 1 /\ ANY_SOURCE = 2
BY FileServiceAssumption DEF Threads, NOBODY, HARDWARE_SOURCE, ANY_SOURCE

LEMMA Fields ==
  ASSUME NEW vr2, NEW number, NEW text
  PROVE  /\ Message(vr2, number, text).vr2 = vr2
         /\ Message(vr2, number, text).number = number
         /\ Message(vr2, number, text).text = text
BY DEF Message

\* The operations differ, and a text tells who wrote it.
LEMMA Operations ==
  ASSUME NEW c, NEW words, Asks(c, words)
  PROVE  \/ /\ words.vr2 = WRITE_CHARACTERS /\ request[c] = "write" /\ c \notin written
            /\ words.text = <<c>>
         \/ /\ words.vr2 = READ_CHARACTERS /\ request[c] = "read" /\ words.number \in Nat
<1>1. CASE words = Message(WRITE_CHARACTERS, 1, <<c>>) /\ request[c] = "write" /\ c \notin written
  BY <1>1, Fields
<1>2. CASE \E count \in Nat : words = Message(READ_CHARACTERS, count, <<>>) /\ request[c] = "read"
  BY <1>2, Fields
<1> QED BY <1>1, <1>2 DEF Asks

LEMMA Numbers ==
  /\ WRITE_CHARACTERS = 3 /\ READ_CHARACTERS = 2 /\ DEVICE_INITIALITED = 0
  /\ OS_OK = 0 /\ OS_FAIL = 1
BY DEF WRITE_CHARACTERS, READ_CHARACTERS, DEVICE_INITIALITED, OS_OK, OS_FAIL

-----------------------------------------------------------------------------
(* What the operations of the kernel do to the threads.                    *)

Others(S) ==
  \A u \in Threads \ S : /\ state'[u] = state[u] /\ peer'[u] = peer[u]
                         /\ box'[u] = box[u] /\ pending'[u] = pending[u]

LEMMA GiveEffect ==
  ASSUME IpcShape, NEW t \in Threads, NEW to \in Threads, t # to, NEW words,
         NEW after \in {"running", "receiving"}, IPC!Give(t, to, words, after),
         UNCHANGED <<pending, handler, stopped>>
  PROVE  /\ state[to] = "receiving" /\ peer[to] \in {t, ANY_SOURCE}
         /\ state'[to] = "running" /\ peer'[to] = NOBODY
         /\ box'[to].src = t /\ box'[to].words = words
         /\ state'[t] = after /\ peer'[t] = IF after = "receiving" THEN to ELSE NOBODY
         /\ box'[t].src = NOBODY /\ box'[t].words = words
         /\ Others({t, to}) /\ IpcShape'
<1>1. /\ state[to] = "receiving" /\ peer[to] \in {t, ANY_SOURCE}
      /\ box' = [box EXCEPT ![t] = [src |-> NOBODY, words |-> words],
                            ![to] = [src |-> t, words |-> words]]
      /\ state' = [state EXCEPT ![to] = "running", ![t] = after]
      /\ peer'  = [peer EXCEPT ![to] = NOBODY,
                               ![t] = IF after = "receiving" THEN to ELSE NOBODY]
  BY DEF IPC!Give, IPC!WaitsFor
<1>2. DOMAIN box = Threads /\ DOMAIN box' = Threads
  BY <1>1 DEF IpcShape
<1>3. /\ box'[to] = [src |-> t, words |-> words] /\ box'[t] = [src |-> NOBODY, words |-> words]
      /\ \A u \in Threads \ {t, to} : box'[u] = box[u]
  BY <1>1, <1>2
<1>4. state' \in [Threads -> {"absent", "running", "receiving", "calling"}] /\ peer' \in [Threads -> Int]
  BY <1>1, Ids DEF IpcShape
<1>5. /\ state'[to] = "running" /\ state'[t] = after
      /\ \A u \in Threads \ {t, to} : state'[u] = state[u] /\ peer'[u] = peer[u]
      /\ peer'[to] = NOBODY /\ peer'[t] = IF after = "receiving" THEN to ELSE NOBODY
  BY <1>1 DEF IpcShape
<1> QED BY <1>1, <1>2, <1>3, <1>4, <1>5 DEF IpcShape, Others

LEMMA OfferEffect ==
  ASSUME IpcShape, NEW t \in Threads, NEW to \in Threads, NEW words,
         IPC!Offer(t, to, words, "calling"), UNCHANGED <<pending, handler, stopped>>
  PROVE  /\ ~(state[to] = "receiving" /\ peer[to] \in {t, ANY_SOURCE})
         /\ state'[t] = "calling" /\ peer'[t] = to
         /\ box'[t].src = NOBODY /\ box'[t].words = words
         /\ Others({t}) /\ IpcShape'
<1>1. /\ ~(state[to] = "receiving" /\ peer[to] \in {t, ANY_SOURCE})
      /\ box' = [box EXCEPT ![t] = [src |-> NOBODY, words |-> words]]
      /\ state' = [state EXCEPT ![t] = "calling"]
      /\ peer'  = [peer EXCEPT ![t] = to]
  BY DEF IPC!Offer, IPC!WaitsFor
<1>2. DOMAIN box = Threads /\ DOMAIN box' = Threads
  BY <1>1 DEF IpcShape
<1>3. /\ box'[t] = [src |-> NOBODY, words |-> words]
      /\ \A u \in Threads \ {t} : box'[u] = box[u]
  BY <1>1, <1>2
<1>4. state' \in [Threads -> {"absent", "running", "receiving", "calling"}] /\ peer' \in [Threads -> Int]
  BY <1>1, Ids DEF IpcShape
<1>5. /\ state'[t] = "calling" /\ peer'[t] = to
      /\ \A u \in Threads \ {t} : state'[u] = state[u] /\ peer'[u] = peer[u]
  BY <1>1 DEF IpcShape
<1> QED BY <1>1, <1>2, <1>3, <1>4, <1>5 DEF IpcShape, Others

\* A call meets its partner or blocks; nothing blocks a send to a thread that waits.
LEMMA CallEffect ==
  ASSUME IpcShape, NEW t \in Threads, NEW to \in Threads, t # to, NEW words, IPC!Call(t, to, words)
  PROVE  /\ UNCHANGED <<pending, handler, stopped>>
         /\ \/ IPC!Give(t, to, words, "receiving")
            \/ IPC!Offer(t, to, words, "calling")
BY DEF IPC!Call

LEMMA SendEffect ==
  ASSUME IpcShape, NEW t \in Threads, NEW to \in Threads, t # to, NEW words, IPC!Send(t, to, words),
         BlockedOn(to, "receiving", t)
  PROVE  /\ UNCHANGED <<pending, handler, stopped>>
         /\ IPC!Give(t, to, words, "running")
BY DEF IPC!Send, IPC!Offer, IPC!WaitsFor, IPC!Present, BlockedOn

LEMMA ReceiveEffect ==
  ASSUME IpcShape, NEW t \in Threads, IPC!Receive(t, ANY_SOURCE)
  PROVE  /\ IpcShape' /\ handler' = handler
         /\ \/ \E s \in Threads :
                 /\ BlockedOn(s, "calling", t)
                 /\ box'[t].src = s /\ box'[t].words = box[s].words
                 /\ t # s => /\ state'[s] = "receiving" /\ peer'[s] = t /\ box'[s] = box[s]
                             /\ state'[t] = state[t] /\ peer'[t] = peer[t]
                             /\ pending'[t] = pending[t] /\ pending'[s] = pending[s]
                             /\ ~pending[t]
                 /\ Others({t, s})
            \/ /\ pending[t] /\ ~pending'[t]
               /\ box'[t].src = HARDWARE_SOURCE
               /\ state'[t] = state[t] /\ peer'[t] = peer[t]
               /\ Others({t})
            \/ /\ ~pending[t] /\ pending'[t] = pending[t]
               /\ state'[t] = "receiving" /\ peer'[t] = ANY_SOURCE /\ box'[t].src = NOBODY
               /\ Others({t})
<1>0. handler' = handler /\ stopped' = stopped
  BY DEF IPC!Receive
<1>1. ASSUME NEW s \in Threads, IPC!Take(t, s), ~pending[t] \/ s = ANY_SOURCE
      PROVE  /\ IpcShape'
             /\ BlockedOn(s, "calling", t)
             /\ box'[t].src = s /\ box'[t].words = box[s].words
             /\ t # s => /\ state'[s] = "receiving" /\ peer'[s] = t /\ box'[s] = box[s]
                         /\ state'[t] = state[t] /\ peer'[t] = peer[t]
                         /\ pending'[t] = pending[t] /\ pending'[s] = pending[s]
                         /\ ~pending[t]
             /\ Others({t, s})
  <2>1. /\ state[s] = "calling" /\ peer[s] = t
        /\ box' = [box EXCEPT ![t] = [src |-> s, words |-> box[s].words]]
        /\ state' = [state EXCEPT ![s] = "receiving"]
        /\ peer' = [peer EXCEPT ![s] = t]
        /\ pending' = pending
    BY <1>1 DEF IPC!Take, IPC!SendsTo, IpcShape
  <2>2. DOMAIN box = Threads /\ DOMAIN box' = Threads
    BY <2>1 DEF IpcShape
  <2>3. /\ box'[t] = [src |-> s, words |-> box[s].words]
        /\ \A u \in Threads \ {t} : box'[u] = box[u]
    BY <2>1, <2>2
  <2>4. state' \in [Threads -> {"absent", "running", "receiving", "calling"}] /\ peer' \in [Threads -> Int]
    BY <2>1, Ids DEF IpcShape
  <2>5. /\ state'[s] = "receiving" /\ peer'[s] = t
        /\ \A u \in Threads \ {s} : state'[u] = state[u] /\ peer'[u] = peer[u]
    BY <2>1 DEF IpcShape
  <2>6. ~pending[t]
    BY <1>1, Ids
  <2> QED BY <1>0, <2>1, <2>2, <2>3, <2>4, <2>5, <2>6 DEF IpcShape, Others, BlockedOn
<1>2. ASSUME IPC!TakeInterrupt(t)
      PROVE  /\ IpcShape'
             /\ pending[t] /\ ~pending'[t]
             /\ box'[t].src = HARDWARE_SOURCE
             /\ state'[t] = state[t] /\ peer'[t] = peer[t]
             /\ Others({t})
  <2>1. PICK n : box' = [box EXCEPT ![t] = [src |-> HARDWARE_SOURCE, words |-> n]]
    BY <1>2 DEF IPC!TakeInterrupt
  <2>2. pending[t] /\ pending' = [pending EXCEPT ![t] = FALSE] /\ UNCHANGED <<state, peer>>
    BY <1>2 DEF IPC!TakeInterrupt
  <2>3. DOMAIN box = Threads /\ DOMAIN box' = Threads
    BY <2>1 DEF IpcShape
  <2>4. /\ box'[t] = [src |-> HARDWARE_SOURCE, words |-> n]
        /\ \A u \in Threads \ {t} : box'[u] = box[u]
    BY <2>1, <2>3
  <2>5. /\ pending' \in [Threads -> BOOLEAN] /\ ~pending'[t]
        /\ \A u \in Threads \ {t} : pending'[u] = pending[u]
    BY <2>2 DEF IpcShape
  <2> QED BY <1>0, <2>2, <2>3, <2>4, <2>5 DEF IpcShape, Others
<1>3. ASSUME IPC!Block(t, ANY_SOURCE)
      PROVE  /\ IpcShape'
             /\ ~pending[t] /\ pending'[t] = pending[t]
             /\ state'[t] = "receiving" /\ peer'[t] = ANY_SOURCE /\ box'[t].src = NOBODY
             /\ Others({t})
  <2>1. PICK n : box' = [box EXCEPT ![t] = [src |-> NOBODY, words |-> n]]
    BY <1>3 DEF IPC!Block
  <2>2. /\ ~pending[t] /\ pending' = pending
        /\ state' = [state EXCEPT ![t] = "receiving"] /\ peer' = [peer EXCEPT ![t] = ANY_SOURCE]
    BY <1>3 DEF IPC!Block
  <2>3. DOMAIN box = Threads /\ DOMAIN box' = Threads
    BY <2>1 DEF IpcShape
  <2>4. /\ box'[t] = [src |-> NOBODY, words |-> n]
        /\ \A u \in Threads \ {t} : box'[u] = box[u]
    BY <2>1, <2>3
  <2>5. state' \in [Threads -> {"absent", "running", "receiving", "calling"}] /\ peer' \in [Threads -> Int]
    BY <2>2, Ids DEF IpcShape
  <2>6. /\ state'[t] = "receiving" /\ peer'[t] = ANY_SOURCE
        /\ \A u \in Threads \ {t} : state'[u] = state[u] /\ peer'[u] = peer[u]
    BY <2>2 DEF IpcShape
  <2> QED BY <1>0, <2>2, <2>3, <2>4, <2>5, <2>6 DEF IpcShape, Others
<1>4. \/ \E s \in Threads : /\ ANY_SOURCE = s \/ ~pending[t]
                            /\ IPC!Take(t, s)
      \/ IPC!TakeInterrupt(t)
      \/ IPC!Block(t, ANY_SOURCE)
  BY DEF IPC!Receive
<1>5. CASE \E s \in Threads : (ANY_SOURCE = s \/ ~pending[t]) /\ IPC!Take(t, s)
  BY <1>0, <1>1, <1>5
<1> QED BY <1>0, <1>2, <1>3, <1>4, <1>5

-----------------------------------------------------------------------------
(* What the console's half of the keyboard does.                           *)

LEMMA KeyboardIs ==
  /\ SIZE_BUFFER_TECLADO \in Nat \ {0, 1}
  /\ {KP!NUL, KP!NL} \subseteq Chars
  /\ tecladoEsp \in KP!Tables
BY ConsoleAssumption DEF KB!NUL, KB!NL, KP!NUL, KP!NL, KB!Tables, KP!Tables

LEMMA SameStart == KB!InitializeKeyboard = KP!InitializeKeyboard
BY DEF KB!InitializeKeyboard, KP!InitializeKeyboard, KB!Slots, KP!Slots, KB!NUL, KP!NUL

LEMMA SameRead == ASSUME NEW k, NEW code PROVE KB!readKeyboard(k, code) = KP!readKeyboard(k, code)
<1>1. KB!Translated(k, code) = KP!Translated(k, code)
  BY Zenon DEF KB!Translated, KP!Translated, KB!Quietly, KP!Quietly, KB!Store, KP!Store,
    KB!HasRoom, KP!HasRoom, KB!Letters, KP!Letters, KB!Level, KP!Level, KB!NL, KP!NL,
    KB!Released, KP!Released, KB!Shifts, KP!Shifts, KB!Special, KP!Special, KB!Alt, KP!Alt,
    KB!CapsLock, KP!CapsLock, KB!Control, KP!Control
<1>2. \A j : KB!Plain(j, code) = KP!Plain(j, code)
  BY DEF KB!Plain, KP!Plain, KB!Special, KP!Special
<1> QED BY <1>1, <1>2, Zenon DEF KB!readKeyboard, KP!readKeyboard

LEMMA SameAnswer ==
  ASSUME NEW k
  PROVE  /\ KB!CanAnswer(k) <=> KP!CanAnswer(k)
         /\ KB!Taken(k) = KP!Taken(k) /\ KB!Answer(k) = KP!Answer(k)
         /\ KB!TryAnswerRequest(k) = KP!TryAnswerRequest(k)
<1>1. KB!CanAnswer(k) <=> KP!CanAnswer(k)
  BY DEF KB!CanAnswer, KP!CanAnswer
<1>2. KB!Taken(k) = KP!Taken(k) /\ KB!Answer(k) = KP!Answer(k)
  BY DEF KB!Taken, KP!Taken, KB!Answer, KP!Answer, KB!Contents, KP!Contents
<1>3. KB!TryAnswerRequest(k) = KP!TryAnswerRequest(k)
  BY DEF KB!TryAnswerRequest, KP!TryAnswerRequest, KB!CanAnswer, KP!CanAnswer,
    KB!Answered, KP!Answered, KB!Taken, KP!Taken, KB!Freed, KP!Freed, KB!Slots, KP!Slots, KB!NUL, KP!NUL
<1> QED BY <1>1, <1>2, <1>3

LEMMA Started == KP!Ring(KB!InitializeKeyboard) /\ ~KB!InitializeKeyboard.pendingRequest
<1> DEFINE k == KP!InitializeKeyboard
<1>1. k \in KP!Keyboards
  BY KeyboardIs DEF KP!InitializeKeyboard, KP!Keyboards, KP!Slots
<1>2. k.front = 0 /\ k.end = 0 /\ k.count = 0 /\ ~k.pendingRequest
  BY DEF KP!InitializeKeyboard
<1>3. (0 + 0) % SIZE_BUFFER_TECLADO = 0
  BY KeyboardIs
<1> QED BY <1>1, <1>2, <1>3, SameStart DEF KP!Ring

LEMMA KeyReadKeeps ==
  ASSUME NEW k, KP!Ring(k), NEW code \in Nat, NEW t \in KB!readKeyboard(k, code)
  PROVE  KP!Ring(t.keyboard) /\ t.keyboard.pendingRequest = k.pendingRequest
<1>1. t \in KP!readKeyboard(k, code)
  BY SameRead
<1> QED BY <1>1, KP!KeyRead, KeyboardIs

LEMMA Requested ==
  ASSUME NEW k, KP!Ring(k), NEW n \in Nat
  PROVE  KP!Ring(KB!Request(k, n)) /\ KB!Request(k, n).pendingRequest
BY DEF KB!Request, KP!Ring, KP!Keyboards

\* Settle changes the keyboard as this says, and sends if k can be answered.
LEMMA Tried ==
  ASSUME NEW k, KP!Ring(k)
  PROVE  /\ KP!Ring(KB!TryAnswerRequest(k))
         /\ KB!CanAnswer(k) => k.pendingRequest /\ ~KB!TryAnswerRequest(k).pendingRequest
         /\ ~KB!CanAnswer(k) => KB!TryAnswerRequest(k) = k
         /\ Len(KB!Answer(k)) = KB!Taken(k)
<1>1. /\ KP!Ring(KP!TryAnswerRequest(k))
      /\ KP!CanAnswer(k) => ~KP!TryAnswerRequest(k).pendingRequest
      /\ Len(KP!Answer(k)) = KP!Taken(k)
  BY KP!ReadTried, KeyboardIs
<1>2. KB!CanAnswer(k) => k.pendingRequest
  BY DEF KB!CanAnswer
<1>3. ~KB!CanAnswer(k) => KB!TryAnswerRequest(k) = k
  BY DEF KB!TryAnswerRequest
<1> QED BY <1>1, <1>2, <1>3, SameAnswer

-----------------------------------------------------------------------------
(* The steps.                                                              *)

LEMMA InitEstablishes == ASSUME Init PROVE IInv
<1>1. PICK root \in Threads :
        /\ state   = [t \in Threads |-> IF t = root THEN "running" ELSE "absent"]
        /\ peer    = [t \in Threads |-> NOBODY]
        /\ DOMAIN box = Threads
        /\ pending = [t \in Threads |-> FALSE]
        /\ DOMAIN handler = {KeyboardInterrupted}
        /\ stopped = FALSE
  BY DEF Init, IPC!Init
<1>2. root = Root
  BY <1>1, Ids DEF Init
<1>3. IpcShape
  BY <1>1, Ids DEF IpcShape
<1>4. control \in [Threads -> Controls]
  <2>1. control = [t \in Threads |->
                   CASE t = Root    -> "creating"
                     [] t = FS      -> "starting"
                     [] t = Console -> "registering"
                     [] OTHER       -> "client"]
    BY DEF Init
  <2>2. \A t \in Threads : control[t] \in Controls
    BY <2>1, Zenon DEF Controls
  <2> QED BY <2>1, <2>2
<1>5. /\ control[Root] = "creating" /\ control[FS] = "starting" /\ control[Console] = "registering"
      /\ \A c \in Clients : control[c] = "client"
  <2>1. control = [t \in Threads |->
                   CASE t = Root    -> "creating"
                     [] t = FS      -> "starting"
                     [] t = Console -> "registering"
                     [] OTHER       -> "client"]
    BY DEF Init
  <2>2. /\ FS # Root /\ Console # Root /\ Console # FS
        /\ \A c \in Clients : c # Root /\ c # FS /\ c # Console /\ c \in Threads
    BY Ids
  <2> QED BY <2>1, <2>2, Ids, Zenon
<1>6. /\ state[Root] = "running" /\ \A t \in Threads : peer[t] = NOBODY /\ ~pending[t]
      /\ \A t \in Threads \ {Root} : state[t] = "absent"
  BY <1>1, <1>2, Ids
<1>7. Shapes
  BY <1>3, <1>4, Started DEF Init, Shapes
<1>8. RootOK /\ (\A c \in Clients : ClientOK(c)) /\ FSOK /\ ConsoleOK
  BY <1>5, <1>6, Ids DEF Init, RootOK, Idle, ClientOK, FSOK, ConsoleOK
<1>9. Answered /\ ReadWaits
  BY <1>5, <1>6, Ids, Started DEF Init, Answered, ReadWaits
<1>10. ~HasRegistered
  BY <1>5 DEF HasRegistered
<1>11. Devices
  BY <1>5, <1>10 DEF Init, Devices, Tables
<1>12. Interrupts
  BY <1>5, <1>6, Ids DEF Init, Interrupts
<1> QED BY <1>7, <1>8, <1>9, <1>11, <1>12 DEF IInv

\* A thread that appears.
LEMMA CreateThreadStep == ASSUME IInv, CreateThread PROVE IInv'
<1>1. PICK t \in Threads : IPC!Spawn(t)
  BY DEF CreateThread
<1>2. /\ state[t] = "absent" /\ state' = [state EXCEPT ![t] = "running"]
      /\ UNCHANGED <<peer, box, pending, handler, stopped>>
      /\ UNCHANGED <<control, devices, from, keyboard, scancode, irq, request, written>>
  BY <1>1 DEF IPC!Spawn, CreateThread, device, history
<1>3. /\ state'[t] = "running" /\ \A u \in Threads \ {t} : state'[u] = state[u]
      /\ state' \in [Threads -> {"absent", "running", "receiving", "calling"}]
  BY <1>2 DEF IInv, Shapes, IpcShape
<1>4. Shapes'
  BY <1>2, <1>3 DEF IInv, Shapes, IpcShape
<1>5. peer[t] = NOBODY /\ t # Root
  BY <1>2, Ids DEF IInv, RootOK, Idle, ClientOK, FSOK, ConsoleOK, BlockedOn
<1>6. Caller' = Caller
  BY <1>2, <1>3, Ids DEF IInv, FSOK, Caller, Idle, BlockedOn
<1>7. RootOK'
  BY <1>2, <1>3, <1>5, Ids DEF IInv, RootOK, Idle
<1>8. ASSUME NEW c \in Clients PROVE ClientOK(c)'
  BY <1>2, <1>3, <1>5, <1>6, Ids DEF IInv, ClientOK, BlockedOn, Asks
<1>9. ConsoleOK'
  BY <1>2, <1>3, <1>6, Ids DEF IInv, ConsoleOK, FSOK, Idle, BlockedOn, Asks
<1>10. HasRegistered' = HasRegistered /\ Handling' = Handling
  BY <1>2, <1>3, Ids DEF IInv, ConsoleOK, Idle, BlockedOn, HasRegistered, Handling
<1>11. FSOK'
  BY <1>2, <1>3, <1>10, Ids DEF IInv, FSOK, Idle, BlockedOn, Serving, Asks
<1>12. Answered' /\ ReadWaits'
  BY <1>2, <1>3, <1>10, Ids DEF IInv, FSOK, Idle, BlockedOn, Answered, ReadWaits
<1>13. Devices'
  BY <1>2, <1>10 DEF IInv, Devices
<1>14. Interrupts'
  BY <1>2, <1>3, Ids DEF IInv, Interrupts, At, IPC!Running, ConsoleOK, Idle, BlockedOn
<1> QED BY <1>4, <1>7, <1>8, <1>9, <1>11, <1>12, <1>13, <1>14 DEF IInv

LEMMA GotoEffect ==
  ASSUME Shapes, NEW t \in Threads, NEW to \in Controls, Goto(t, to)
  PROVE  /\ control' \in [Threads -> Controls] /\ control'[t] = to
         /\ \A u \in Threads \ {t} : control'[u] = control[u]
BY DEF Goto, Shapes

\* Steps that do not concern the console leave it its interrupts.
LEMMA InterruptsKept ==
  ASSUME IInv, UNCHANGED <<irq, scancode, handler, stopped>>,
         \A u \in Threads : pending'[u] = pending[u],
         control'[Console] = control[Console], state'[Console] = state[Console],
         box'[Console] = box[Console]
  PROVE  Interrupts'
BY Ids DEF IInv, Interrupts, At, IPC!Running

\* Nobody is served while the file server does not work.
LEMMA NobodyServed ==
  ASSUME IInv, control[FS] \in {"starting", "listening"} \/ BlockedOn(FS, "receiving", ANY_SOURCE)
  PROVE  /\ Caller = NOBODY /\ from = 0
         /\ \A c \in Clients : ~BlockedOn(c, "receiving", FS)
         /\ ~BlockedOn(Console, "receiving", FS)
         /\ ~Handling /\ ~keyboard.pendingRequest
<1>1. Caller = NOBODY /\ from = 0
  BY Ids DEF IInv, FSOK, Caller, Idle, BlockedOn
<1>2. \A c \in Clients : ~BlockedOn(c, "receiving", FS)
  BY <1>1, Ids DEF IInv, ClientOK, BlockedOn
<1>3. ~BlockedOn(Console, "receiving", FS)
  BY <1>1, Ids DEF IInv, ConsoleOK, Idle, BlockedOn
<1>4. ~Handling /\ ~keyboard.pendingRequest
  BY Ids DEF IInv, FSOK, ConsoleOK, Handling, ReadWaits, Idle, BlockedOn
<1> QED BY <1>1, <1>2, <1>3, <1>4

\* The file server turns to its callers.
LEMMA ServeStep ==
  ASSUME IInv, NEW clean, Serve(clean), control[FS] \in {"starting", "listening"},
         state[FS] = "running", clean \in Tables,
         \A d \in DOMAIN devices : clean[d].idDriver = devices[d].idDriver,
         (clean = devices /\ control[FS] # "starting") \/ \A d \in DOMAIN devices : clean[d].freeEntry
  PROVE  IInv'
<1>1. /\ devices' = clean /\ IPC!Receive(FS, ANY_SOURCE) /\ Goto(FS, "received")
      /\ UNCHANGED <<from, keyboard, scancode, irq, request, written>>
  BY DEF Serve, device, history
<1>2. /\ control' \in [Threads -> Controls] /\ control'[FS] = "received"
      /\ \A u \in Threads \ {FS} : control'[u] = control[u]
  BY <1>1, Ids, GotoEffect DEF Controls, IInv
<1>3. IpcShape /\ Shapes
  BY DEF IInv, Shapes
<1>4. ~pending[FS]
  BY Ids DEF IInv, Interrupts
<1>5. /\ Caller = NOBODY /\ from = 0
      /\ \A c \in Clients : ~BlockedOn(c, "receiving", FS)
      /\ ~BlockedOn(Console, "receiving", FS)
      /\ ~Handling /\ ~keyboard.pendingRequest
  BY NobodyServed
<1>6. peer[FS] = NOBODY
  BY Ids DEF IInv, FSOK, Idle, BlockedOn
<1>7. stopped' = stopped
  BY <1>1 DEF IPC!Receive
<1>8. CASE \E s \in Threads :
                 /\ BlockedOn(s, "calling", FS)
                 /\ box'[FS].src = s /\ box'[FS].words = box[s].words
                 /\ FS # s => /\ state'[s] = "receiving" /\ peer'[s] = FS /\ box'[s] = box[s]
                              /\ state'[FS] = state[FS] /\ peer'[FS] = peer[FS]
                              /\ pending'[FS] = pending[FS] /\ pending'[s] = pending[s]
                              /\ ~pending[FS]
                 /\ Others({FS, s}) /\ IpcShape' /\ handler' = handler
  <2>1. PICK s \in Threads :
                 /\ BlockedOn(s, "calling", FS)
                 /\ box'[FS].src = s /\ box'[FS].words = box[s].words
                 /\ FS # s => /\ state'[s] = "receiving" /\ peer'[s] = FS /\ box'[s] = box[s]
                              /\ state'[FS] = state[FS] /\ peer'[FS] = peer[FS]
                              /\ pending'[FS] = pending[FS] /\ pending'[s] = pending[s]
                              /\ ~pending[FS]
                 /\ Others({FS, s}) /\ IpcShape' /\ handler' = handler
    BY <1>8
  <2>2. s # FS /\ s # Root
    BY <2>1, Ids DEF BlockedOn, IInv, RootOK, Idle
  <2>3. /\ state'[FS] = "running" /\ peer'[FS] = NOBODY
        /\ state'[s] = "receiving" /\ peer'[s] = FS /\ state[s] = "calling" /\ peer[s] = FS
        /\ \A u \in Threads \ {FS, s} : state'[u] = state[u] /\ peer'[u] = peer[u]
        /\ \A u \in Threads \ {FS} : box'[u] = box[u]
        /\ \A u \in Threads : pending'[u] = pending[u]
    BY <1>6, <2>1, <2>2 DEF Others, BlockedOn
  <2>4. Shapes'
    BY <1>1, <1>2, <1>3, <2>1 DEF Shapes
  <2>5. Caller' = s
    BY <1>2, <2>1, <2>3 DEF Caller
  <2>6. RootOK'
    BY <1>2, <2>2, <2>3, Ids DEF IInv, RootOK, Idle
  <2>7. ASSUME NEW c \in Clients PROVE ClientOK(c)'
    BY <1>1, <1>2, <1>5, <2>3, <2>5, Ids DEF IInv, ClientOK, BlockedOn, Asks
  <2>8. \/ s = Console /\ control[Console] = "claiming" /\ box[s].words = Message(DEVICE_INITIALITED, 3, <<>>)
        \/ s \in Clients /\ Asks(s, box[s].words)
    BY <2>2, <2>3, Ids DEF IInv, ClientOK, ConsoleOK, Idle, BlockedOn
  <2>9. ConsoleOK'
    BY <1>1, <1>2, <1>5, <2>3, <2>5, Ids DEF IInv, ConsoleOK, Idle, BlockedOn, Asks
  <2>10. HasRegistered' = HasRegistered /\ ~Handling'
    BY <1>2, <1>5, <2>3, Ids DEF IInv, ConsoleOK, Idle, BlockedOn, HasRegistered, Handling
  <2>11. FSOK'
    BY <1>1, <1>2, <1>5, <2>1, <2>3, <2>8, Ids DEF FSOK, Idle, BlockedOn, Serving, Asks
  <2>12. Answered' /\ ReadWaits'
    BY <1>1, <1>2, <1>5 DEF Answered, ReadWaits
  <2>13. Devices'
    BY <1>1, <1>2, <2>10 DEF IInv, Devices, Tables
  <2>14. Interrupts'
    <3>1. (state'[Console] = "receiving" /\ state[Console] # "running") \/ state'[Console] = state[Console]
      BY <2>3, Ids
    <3> QED BY <1>1, <1>2, <1>7, <2>1, <2>3, <3>1, Ids DEF IInv, Interrupts, At, IPC!Running
  <2> QED BY <2>4, <2>6, <2>7, <2>9, <2>11, <2>12, <2>13, <2>14 DEF IInv
<1>9. CASE /\ ~pending[FS] /\ pending'[FS] = pending[FS]
           /\ state'[FS] = "receiving" /\ peer'[FS] = ANY_SOURCE /\ box'[FS].src = NOBODY
           /\ Others({FS}) /\ IpcShape' /\ handler' = handler
  <2>3. /\ \A u \in Threads \ {FS} : state'[u] = state[u] /\ peer'[u] = peer[u] /\ box'[u] = box[u]
        /\ \A u \in Threads : pending'[u] = pending[u]
    BY <1>9, Ids DEF Others, IpcShape
  <2>4. Shapes'
    BY <1>1, <1>2, <1>3, <1>9 DEF Shapes
  <2>5. Caller' = NOBODY
    BY <1>2, <1>9 DEF Caller
  <2>6. RootOK'
    BY <1>2, <2>3, Ids DEF IInv, RootOK, Idle
  <2>7. ASSUME NEW c \in Clients PROVE ClientOK(c)'
    BY <1>1, <1>2, <1>5, <2>3, <2>5, Ids DEF IInv, ClientOK, BlockedOn, Asks
  <2>9. ConsoleOK'
    BY <1>1, <1>2, <1>5, <2>3, <2>5, Ids DEF IInv, ConsoleOK, Idle, BlockedOn, Asks, Handling
  <2>10. HasRegistered' = HasRegistered /\ ~Handling'
    BY <1>2, <1>5, <2>3, Ids DEF HasRegistered, Handling
  <2>11. FSOK'
    BY <1>1, <1>2, <1>5, <1>9 DEF FSOK, BlockedOn
  <2>12. Answered' /\ ReadWaits'
    BY <1>1, <1>2, <1>5 DEF Answered, ReadWaits
  <2>13. Devices'
    BY <1>1, <1>2, <2>10 DEF IInv, Devices, Tables
  <2>14. Interrupts'
    BY <1>1, <1>2, <1>7, <1>9, <2>3, Ids, InterruptsKept
  <2> QED BY <2>4, <2>6, <2>7, <2>9, <2>11, <2>12, <2>13, <2>14 DEF IInv
<1> QED BY <1>1, <1>3, <1>4, <1>8, <1>9, Ids, ReceiveEffect


\* The thread that is served waits for it.
LEMMA CallerWaits ==
  ASSUME IInv, state[FS] = "running", control[FS] \in {"received", "written", "read"}
  PROVE  /\ Caller \in {Console} \union Clients /\ Caller \in Threads /\ Caller # FS /\ Caller # Root
         /\ BlockedOn(Caller, "receiving", FS)
         /\ peer[FS] = NOBODY /\ ~Handling /\ ~keyboard.pendingRequest /\ ~pending[FS]
         /\ control[FS] = "received" => Caller = box[FS].src
         /\ control[FS] \in {"written", "read"} => Caller = from /\ from \in Clients
         /\ Caller = Console => control[Console] = "claiming" /\ ~HasRegistered
<1>1. /\ control[FS] = "received" => Caller = box[FS].src
      /\ control[FS] \in {"written", "read"} => Caller = from
  BY DEF Caller
<1>2. /\ Caller \in {Console} \union Clients /\ BlockedOn(Caller, "receiving", FS)
      /\ peer[FS] = NOBODY
      /\ control[FS] \in {"written", "read"} => from \in Clients
  BY <1>1, Ids DEF IInv, FSOK, Idle, BlockedOn, Serving
<1>3. Caller \in Threads /\ Caller # FS /\ Caller # Root
  BY <1>2, Ids
<1>4. ~Handling /\ ~keyboard.pendingRequest
  BY Ids DEF IInv, ConsoleOK, Handling, ReadWaits, Idle, BlockedOn
<1>5. ~pending[FS]
  BY Ids DEF IInv, Interrupts
<1>6. Caller = Console => control[Console] = "claiming" /\ ~HasRegistered
  BY <1>2, Ids DEF IInv, ConsoleOK, HasRegistered, Idle, BlockedOn
<1> QED BY <1>1, <1>2, <1>3, <1>4, <1>5, <1>6

\* The file server answers it and listens again.
LEMMA AnswerStep ==
  ASSUME IInv, state[FS] = "running", control[FS] \in {"received", "written", "read"},
         NEW words, IPC!Send(FS, Caller, words), Goto(FS, "listening"),
         from' = 0, UNCHANGED <<device, history>>,
         \/ Caller # Console /\ devices' = devices
         \/ /\ Caller = Console /\ devices' \in Tables
            /\ \A d \in DOMAIN devices : devices'[d].idDriver = IF d = 0 THEN Console ELSE 0
  PROVE  IInv'
<1>0. PICK c0 : c0 = Caller
  OBVIOUS
<1>1. /\ c0 \in {Console} \union Clients /\ c0 \in Threads /\ c0 # FS /\ c0 # Root
      /\ BlockedOn(c0, "receiving", FS)
      /\ peer[FS] = NOBODY /\ ~Handling /\ ~keyboard.pendingRequest /\ ~pending[FS]
      /\ c0 = Console => control[Console] = "claiming" /\ ~HasRegistered
  BY <1>0, CallerWaits
<1>2. IpcShape /\ Shapes
  BY DEF IInv, Shapes
<1>3. UNCHANGED <<pending, handler, stopped>> /\ IPC!Give(FS, c0, words, "running")
  BY <1>0, <1>1, <1>2, Ids, SendEffect
<1>4. /\ state'[c0] = "running" /\ peer'[c0] = NOBODY
      /\ state'[FS] = "running" /\ peer'[FS] = NOBODY
      /\ \A u \in Threads \ {FS, c0} : state'[u] = state[u] /\ peer'[u] = peer[u] /\ box'[u] = box[u]
      /\ IpcShape'
  BY <1>1, <1>2, <1>3, Ids, GiveEffect DEF Others
<1>5. /\ control' \in [Threads -> Controls] /\ control'[FS] = "listening"
      /\ \A u \in Threads \ {FS} : control'[u] = control[u]
  BY <1>2, Ids, GotoEffect DEF Controls
<1>6. UNCHANGED <<keyboard, scancode, irq, request, written>>
  BY DEF device, history
<1>7. Shapes'
  BY <1>2, <1>4, <1>5, <1>6 DEF Shapes
<1>8. RootOK'
  BY <1>1, <1>4, <1>5, Ids DEF IInv, RootOK, Idle
<1>9. ASSUME NEW c \in Clients PROVE ClientOK(c)'
  <2>1. CASE c = c0
    BY <1>4, <1>5, <2>1, Ids DEF IInv, ClientOK
  <2>2. CASE c # c0
    <3>1. state'[c] = state[c] /\ peer'[c] = peer[c] /\ box'[c] = box[c] /\ control'[c] = control[c]
      BY <1>4, <1>5, <2>2, Ids
    <3> QED BY <1>0, <1>6, <2>2, <3>1 DEF IInv, ClientOK, BlockedOn, Asks
  <2> QED BY <2>1, <2>2
<1>10. FSOK'
  BY <1>4, <1>5 DEF FSOK, Idle
<1>11. ConsoleOK'
  <2>1. CASE c0 = Console
    BY <1>1, <1>4, <1>5, <2>1, Ids DEF ConsoleOK, Idle
  <2>2. CASE c0 # Console
    <3>1. /\ state'[Console] = state[Console] /\ peer'[Console] = peer[Console]
          /\ box'[Console] = box[Console] /\ control'[Console] = control[Console]
      BY <1>4, <1>5, <2>2, Ids
    <3> QED BY <1>0, <1>1, <1>6, <2>2, <3>1, Ids DEF IInv, ConsoleOK, Idle, BlockedOn
  <2> QED BY <2>1, <2>2
<1>12. /\ control'[Console] = control[Console]
       /\ state'[Console] = IF c0 = Console THEN "running" ELSE state[Console]
  BY <1>4, <1>5, Ids
<1>13. HasRegistered' <=> (HasRegistered \/ c0 = Console)
  BY <1>1, <1>12 DEF HasRegistered
<1>14. Answered' /\ ReadWaits'
  BY <1>1, <1>5, <1>6 DEF Answered, ReadWaits
<1>15. Devices'
  BY <1>0, <1>5, <1>13, <1>1 DEF IInv, Devices, Tables
<1>16. Interrupts'
  <2>1. CASE c0 = Console
    <3>1. irq = "masked"
      BY <1>1, <2>1 DEF IInv, Interrupts
    <3> QED BY <1>1, <1>3, <1>6, <1>12, <2>1, <3>1, Ids DEF IInv, Interrupts
  <2>2. CASE c0 # Console
    <3>1. box'[Console] = box[Console]
      BY <1>4, <2>2, Ids
    <3> QED BY <1>3, <1>6, <1>12, <2>2, <3>1, InterruptsKept
  <2> QED BY <2>1, <2>2
<1> QED BY <1>7, <1>8, <1>9, <1>10, <1>11, <1>14, <1>15, <1>16 DEF IInv


\* The console's registration takes the first entry.
LEMMA RegisterDeviceStep == ASSUME IInv, RegisterDevice PROVE IInv' /\ box[FS].src = Console
<1> DEFINE free == {d \in DOMAIN devices : devices[d].freeEntry}
<1>1. /\ state[FS] = "running" /\ control[FS] = "received" /\ box[FS].words.vr2 = DEVICE_INITIALITED
      /\ UNCHANGED <<from, device, history>>
  BY DEF RegisterDevice, At, IPC!Running, Received
<1>2. Caller = box[FS].src /\ from = 0
  BY <1>1, CallerWaits, Ids DEF IInv, FSOK, BlockedOn
<1>3. Caller = Console
  <2>1. ASSUME box[FS].src \in Clients PROVE FALSE
    <3>1. Asks(box[FS].src, box[FS].words)
      BY <1>1, <2>1, Ids DEF IInv, FSOK, BlockedOn, Idle
    <3> QED BY <1>1, <3>1, Operations, Numbers
  <2> QED BY <1>1, <1>2, <2>1, CallerWaits
<1>4. ~HasRegistered
  BY <1>1, <1>3, CallerWaits
<1>5. DOMAIN devices = 0 .. MAX_DEVICE_COUNT - 1 /\ 0 \in DOMAIN devices
  BY FileServiceAssumption DEF IInv, Devices, Tables
<1>6. \A d \in DOMAIN devices : devices[d].freeEntry /\ devices[d].idDriver = 0
  BY <1>1, <1>4 DEF IInv, Devices
<1>7. 0 \in free
  BY <1>5, <1>6
<1>8. /\ \E d \in free : /\ \A e \in free : d <= e
                         /\ devices' = Registered(d, box[FS].src)
      /\ AnswerCaller(box[FS].src, OS_OK)
  BY <1>7, Zenon DEF RegisterDevice
<1>9. PICK d \in free : (\A e \in free : d <= e) /\ devices' = Registered(d, box[FS].src)
  BY <1>8
<1>10. d = 0
  BY <1>5, <1>7, <1>9
<1>11. devices' = [devices EXCEPT ![0] = [freeEntry |-> FALSE, idDriver |-> Console]]
  BY <1>2, <1>3, <1>9, <1>10 DEF Registered
<1>12. /\ devices' \in Tables
       /\ \A e \in DOMAIN devices : devices'[e].idDriver = IF e = 0 THEN Console ELSE 0
  <2>1. devices \in Tables
    BY DEF IInv, Devices
  <2> QED BY <1>5, <1>6, <1>11, <2>1, Ids DEF Tables
<1>13. IPC!Send(FS, Caller, Message(OS_OK, 0, <<>>)) /\ Goto(FS, "listening")
  BY <1>2, <1>8 DEF AnswerCaller
<1>14. from' = 0
  BY <1>1, <1>2
<1>15. IInv'
  BY <1>1, <1>3, <1>12, <1>13, <1>14, AnswerStep
<1> QED BY <1>2, <1>3, <1>15

\* A write is answered with what became of it, a read with the driver's answer.
LEMMA DoneStep ==
  ASSUME IInv, WriteDone \/ ReadDone
  PROVE  /\ IInv'
         /\ state[FS] = "running" /\ control[FS] \in {"written", "read"}
         /\ Caller = from /\ Caller # Console
         /\ BlockedOn(from, "receiving", FS) /\ from \in Clients
<1>1. /\ state[FS] = "running" /\ control[FS] \in {"written", "read"}
      /\ from' = 0 /\ UNCHANGED <<devices, device, history>>
  BY DEF WriteDone, ReadDone, At, IPC!Running
<1>2. Caller = from /\ from \in Clients /\ BlockedOn(from, "receiving", FS)
  BY <1>1, CallerWaits
<1>3. PICK words : IPC!Send(FS, from, words) /\ Goto(FS, "listening")
  BY DEF WriteDone, ReadDone, AnswerCaller
<1>4. Caller # Console
  BY <1>2, Ids
<1>5. IPC!Send(FS, Caller, words)
  BY <1>2, <1>3
<1>6. IInv'
  BY <1>1, <1>3, <1>4, <1>5, AnswerStep
<1> QED BY <1>1, <1>2, <1>4, <1>6


\* A read or a write goes on to the driver, or nowhere as long as there is none.
LEMMA ForwardStep ==
  ASSUME IInv, ForwardWrite \/ ForwardRead
  PROVE  IInv'
<1>1. PICK then : /\ Forward(then) /\ At(FS, "received")
                  /\ \/ then = "written" /\ Received(FS).vr2 = WRITE_CHARACTERS
                     \/ then = "read" /\ Received(FS).vr2 = READ_CHARACTERS
  BY DEF ForwardWrite, ForwardRead
<1>2. /\ state[FS] = "running" /\ control[FS] = "received"
      /\ from' = box[FS].src /\ Goto(FS, then) /\ then \in Controls
      /\ UNCHANGED <<devices, keyboard, scancode, irq, request, written>>
  BY <1>1 DEF At, IPC!Running, Forward, device, history, Controls
<1>3. PICK c0, words : c0 = box[FS].src /\ words = box[FS].words
  OBVIOUS
<1>4. /\ Caller = c0 /\ c0 \in Threads /\ c0 # FS /\ c0 # Root /\ BlockedOn(c0, "receiving", FS)
      /\ peer[FS] = NOBODY /\ ~Handling /\ ~keyboard.pendingRequest /\ ~pending[FS]
  BY <1>2, <1>3, CallerWaits
<1>5. words.vr2 \in {WRITE_CHARACTERS, READ_CHARACTERS}
  BY <1>1, <1>3 DEF Received
<1>6. c0 \in Clients /\ Asks(c0, words)
  <2>1. words # Message(DEVICE_INITIALITED, 3, <<>>)
    BY <1>5, Fields, Numbers
  <2> QED BY <1>2, <1>3, <2>1, Ids DEF IInv, FSOK, BlockedOn
<1>7. /\ request[c0] = IF then = "written" THEN "write" ELSE "read"
      /\ then = "written" => words.vr2 # OS_OK /\ c0 \notin written
      /\ then \in {"written", "read"}
  BY <1>1, <1>3, <1>6, Operations, Numbers DEF Received
<1>8. IpcShape /\ Shapes
  BY DEF IInv, Shapes
<1>9. /\ control' \in [Threads -> Controls] /\ control'[FS] = then
      /\ \A u \in Threads \ {FS} : control'[u] = control[u]
  BY <1>2, <1>8, Ids, GotoEffect
<1>10. devices[0].idDriver = IF HasRegistered THEN Console ELSE 0
  BY FileServiceAssumption DEF IInv, Devices, Tables
<1>11. Caller' = c0
  BY <1>2, <1>3, <1>7, <1>9 DEF Caller
<1>12. CASE ~HasRegistered
  <2>1. ~IPC!Present(devices[0].idDriver)
    BY <1>10, <1>12, Ids DEF IPC!Present
  <2>2. IPC!Send(FS, devices[0].idDriver, words)
    BY <1>1, <1>3, <2>1 DEF Forward, Received
  <2>3. /\ box' = [box EXCEPT ![FS] = [src |-> NOBODY, words |-> words]]
        /\ UNCHANGED <<state, peer, pending, handler, stopped>>
    BY <2>1, <2>2 DEF IPC!Send
  <2>4. DOMAIN box = Threads /\ DOMAIN box' = Threads
    BY <1>8, <2>3 DEF IpcShape
  <2>5. box'[FS].words = words /\ \A u \in Threads \ {FS} : box'[u] = box[u]
    BY <2>3, <2>4, Ids
  <2>6. Shapes'
    BY <1>2, <1>8, <1>9, <2>3, <2>4 DEF Shapes, IpcShape
  <2>7. RootOK'
    BY <1>9, <2>3, Ids DEF IInv, RootOK, Idle
  <2>8. ASSUME NEW c \in Clients PROVE ClientOK(c)'
    <3>1. box'[c] = box[c] /\ control'[c] = control[c]
      BY <1>9, <2>5, Ids
    <3> QED BY <1>2, <1>4, <1>11, <2>3, <3>1 DEF IInv, ClientOK, BlockedOn, Asks
  <2>9. FSOK'
    BY <1>2, <1>3, <1>4, <1>6, <1>7, <1>9, <2>3 DEF FSOK, Idle, Serving, BlockedOn
  <2>10. control'[Console] = control[Console] /\ box'[Console] = box[Console]
    BY <1>9, <2>5, Ids
  <2>11. ConsoleOK'
    BY <1>2, <1>4, <1>11, <2>3, <2>10, Ids DEF IInv, ConsoleOK, Idle, BlockedOn
  <2>12. ~HasRegistered'
    BY <1>12, <2>3, <2>10 DEF HasRegistered
  <2>13. Answered'
    BY <1>2, <1>3, <1>7, <1>9, <1>10, <1>12, <2>5 DEF Answered
  <2>14. ReadWaits'
    BY <1>2, <1>4 DEF ReadWaits
  <2>15. Devices'
    BY <1>2, <1>12, <2>12 DEF IInv, Devices
  <2>16. Interrupts'
    BY <1>2, <2>3, <2>10, InterruptsKept
  <2> QED BY <2>6, <2>7, <2>8, <2>9, <2>11, <2>13, <2>14, <2>15, <2>16 DEF IInv
<1>13. CASE HasRegistered
  <2>1. state[Console] # "absent" /\ (state[Console] = "receiving" => peer[Console] = ANY_SOURCE)
    BY <1>13, Ids DEF IInv, ConsoleOK, HasRegistered, Idle, BlockedOn
  <2>2. devices[0].idDriver = Console /\ IPC!Present(Console)
    BY <1>10, <1>13, <2>1, Ids DEF IPC!Present
  <2>3. IPC!Call(FS, Console, words)
    BY <1>1, <1>3, <2>2 DEF Forward, Received
  <2>4. /\ UNCHANGED <<pending, handler, stopped>>
        /\ \/ IPC!Give(FS, Console, words, "receiving")
           \/ IPC!Offer(FS, Console, words, "calling")
    BY <1>8, <2>3, Ids, CallEffect
  <2>5. CASE IPC!Give(FS, Console, words, "receiving")
    <3>1. /\ state[Console] = "receiving" /\ peer[Console] \in {FS, ANY_SOURCE}
          /\ state'[Console] = "running" /\ peer'[Console] = NOBODY
          /\ box'[Console].src = FS /\ box'[Console].words = words
          /\ state'[FS] = "receiving" /\ peer'[FS] = Console
          /\ Others({FS, Console}) /\ IpcShape'
      <4>1. FS \in Threads /\ Console \in Threads /\ FS # Console /\ IpcShape
        BY <1>8, Ids
      <4> QED BY <2>4, <2>5, <4>1, GiveEffect, SMTT(30)
    <3>2. \A u \in Threads \ {FS, Console} :
            state'[u] = state[u] /\ peer'[u] = peer[u] /\ box'[u] = box[u]
      BY <3>1 DEF Others
    <3>3. control[Console] = "received" /\ control'[Console] = "received"
      BY <1>9, <1>13, <2>1, <3>1, Ids DEF IInv, ConsoleOK, HasRegistered, Idle, BlockedOn
    <3>4. HasRegistered' /\ Handling'
      BY <3>1, <3>3 DEF HasRegistered, Handling
    <3>5. Shapes'
      BY <1>2, <1>8, <1>9, <3>1 DEF Shapes
    <3>6. RootOK'
      BY <1>9, <3>2, Ids DEF IInv, RootOK, Idle
    <3>7. ASSUME NEW c \in Clients PROVE ClientOK(c)'
      <4>1. box'[c] = box[c] /\ control'[c] = control[c] /\ state'[c] = state[c] /\ peer'[c] = peer[c]
        BY <1>9, <3>2, Ids
      <4> QED BY <1>2, <1>4, <1>11, <4>1 DEF IInv, ClientOK, BlockedOn, Asks
    <3>8. Serving(c0)'
      BY <1>4, <1>6, <3>2, Ids DEF Serving, BlockedOn
    <3>9. FSOK'
      BY <1>2, <1>3, <1>6, <1>7, <1>9, <3>1, <3>4, <3>8 DEF FSOK, BlockedOn, Serving
    <3>10. ConsoleOK'
      BY <1>2, <1>3, <1>6, <3>1, <3>3 DEF ConsoleOK, Idle, BlockedOn, Asks
    <3>11. Answered' /\ ReadWaits'
      BY <1>2, <1>4, <3>1 DEF Answered, ReadWaits
    <3>12. Devices'
      BY <1>2, <1>13, <3>4 DEF IInv, Devices
    <3>13. Interrupts'
      <4>1. ~At(Console, "received")
        BY <3>1 DEF At, IPC!Running
      <4>2. box'[Console].src # HARDWARE_SOURCE
        BY <3>1, Ids
      <4> QED BY <1>2, <2>4, <3>3, <4>1, <4>2 DEF IInv, Interrupts
    <3> QED BY <3>5, <3>6, <3>7, <3>9, <3>10, <3>11, <3>12, <3>13 DEF IInv
  <2>6. CASE IPC!Offer(FS, Console, words, "calling")
    <3>1. /\ state'[FS] = "calling" /\ peer'[FS] = Console
          /\ box'[FS].words = words
          /\ Others({FS}) /\ IpcShape'
      <4>1. FS \in Threads /\ Console \in Threads /\ IpcShape
        BY <1>8, Ids
      <4> QED BY <2>4, <2>6, <4>1, OfferEffect, SMTT(30)
    <3>2. \A u \in Threads \ {FS} :
            state'[u] = state[u] /\ peer'[u] = peer[u] /\ box'[u] = box[u]
      BY <3>1 DEF Others
    <3>3. /\ control'[Console] = control[Console] /\ box'[Console] = box[Console]
          /\ state'[Console] = state[Console] /\ peer'[Console] = peer[Console]
      BY <1>9, <3>2, Ids
    <3>4. HasRegistered'
      BY <1>13, <3>3 DEF HasRegistered
    <3>5. Shapes'
      BY <1>2, <1>8, <1>9, <3>1 DEF Shapes
    <3>6. RootOK'
      BY <1>9, <3>2, Ids DEF IInv, RootOK, Idle
    <3>7. ASSUME NEW c \in Clients PROVE ClientOK(c)'
      <4>1. box'[c] = box[c] /\ control'[c] = control[c] /\ state'[c] = state[c] /\ peer'[c] = peer[c]
        BY <1>9, <3>2, Ids
      <4> QED BY <1>2, <1>4, <1>11, <4>1 DEF IInv, ClientOK, BlockedOn, Asks
    <3>8. Serving(c0)'
      BY <1>4, <1>6, <3>2, Ids DEF Serving, BlockedOn
    <3>9. Asks(c0, words)'
      BY <1>2, <1>3, <1>6 DEF Asks
    <3>10. FSOK'
      BY <1>2, <1>3, <1>6, <1>7, <1>9, <3>1, <3>4, <3>8, <3>9 DEF FSOK, BlockedOn, Serving
    <3>11. ConsoleOK'
      BY <1>2, <1>4, <1>11, <3>3, Ids DEF IInv, ConsoleOK, Idle, BlockedOn
    <3>12. Answered' /\ ReadWaits'
      BY <1>2, <1>4, <3>1 DEF Answered, ReadWaits
    <3>13. Devices'
      BY <1>2, <1>13, <3>4 DEF IInv, Devices
    <3>14. Interrupts'
      BY <1>2, <2>4, <3>3, InterruptsKept
    <3> QED BY <3>5, <3>6, <3>7, <3>10, <3>11, <3>12, <3>13, <3>14 DEF IInv
  <2> QED BY <2>4, <2>5, <2>6
<1> QED BY <1>12, <1>13


\* The console or a client calls the file server, which takes it at once if it was
\* waiting for anybody.
LEMMA CallStep ==
  ASSUME IInv, NEW t \in {Console} \union Clients, NEW words, IPC!Call(t, FS, words), state[t] = "running",
         UNCHANGED <<devices, from, device>>,
         DOMAIN request' = Clients, written' \subseteq Clients,
         \A c \in Clients \ {t} : request'[c] = request[c] /\ (c \in written' <=> c \in written),
         \/ /\ t = Console /\ control[Console] = "registering" /\ Goto(Console, "claiming")
            /\ words = Message(DEVICE_INITIALITED, 3, <<>>)
         \/ t \in Clients /\ UNCHANGED control /\ Asks(t, words)'
  PROVE  IInv'
<1>1. /\ t \in Threads /\ FS \in Threads /\ t # FS /\ t # Root
      /\ t = Console \/ t \in Clients
  BY Ids
<1>2. IpcShape /\ Shapes
  BY DEF IInv, Shapes
<1>3. UNCHANGED <<keyboard, scancode, irq>>
  BY DEF device
<1>4. /\ UNCHANGED <<pending, handler, stopped>>
      /\ \/ IPC!Give(t, FS, words, "receiving")
         \/ IPC!Offer(t, FS, words, "calling")
  BY <1>1, <1>2, CallEffect
<1>5. /\ control' \in [Threads -> Controls]
      /\ \A u \in Threads \ {Console} : control'[u] = control[u]
      /\ t = Console => control[Console] = "registering" /\ control'[Console] = "claiming"
      /\ t # Console => control'[Console] = control[Console]
  <2>1. CASE t = Console
    <3>1. Goto(Console, "claiming") /\ control[Console] = "registering"
      BY <2>1, Ids
    <3> QED BY <1>2, <2>1, <3>1, Ids, GotoEffect DEF Controls
  <2>2. CASE t # Console
    BY <1>2, <2>2 DEF Shapes
  <2> QED BY <2>1, <2>2
<1>6. /\ t = Console => words = Message(DEVICE_INITIALITED, 3, <<>>)
      /\ t # Console => Asks(t, words)'
  BY <1>1, Ids
<1>7. ASSUME NEW c \in Clients, c # t, NEW w
      PROVE  /\ request'[c] = request[c]
             /\ Asks(c, w) => Asks(c, w)'
  BY <1>7 DEF Asks
<1>8. t = Console => ~HasRegistered /\ irq = "masked"
  BY <1>5 DEF HasRegistered, IInv, Interrupts
<1>9. CASE IPC!Give(t, FS, words, "receiving")
  <2>1. /\ state[FS] = "receiving" /\ peer[FS] \in {t, ANY_SOURCE}
        /\ state'[FS] = "running" /\ peer'[FS] = NOBODY
        /\ box'[FS].src = t /\ box'[FS].words = words
        /\ state'[t] = "receiving" /\ peer'[t] = FS
        /\ Others({t, FS}) /\ IpcShape'
    <3>1. t \in Threads /\ FS \in Threads /\ t # FS /\ IpcShape
      BY <1>1, <1>2
    <3> QED BY <1>4, <1>9, <3>1, GiveEffect, SMTT(30)
  <2>2. \A u \in Threads \ {t, FS} :
          state'[u] = state[u] /\ peer'[u] = peer[u] /\ box'[u] = box[u]
    BY <2>1 DEF Others
  <2>3. BlockedOn(FS, "receiving", ANY_SOURCE) /\ control[FS] = "received" /\ from = 0
    BY <1>1, <1>8, <2>1, Ids DEF IInv, FSOK, BlockedOn, Idle
  <2>4. /\ \A c \in Clients : ~BlockedOn(c, "receiving", FS)
        /\ ~BlockedOn(Console, "receiving", FS)
        /\ ~Handling /\ ~keyboard.pendingRequest
    BY <2>3, NobodyServed
  <2>5. control'[FS] = "received" /\ control'[Root] = control[Root]
    BY <1>5, <2>3, Ids
  <2>6. Caller' = t
    BY <2>1, <2>5 DEF Caller
  <2>7. Shapes'
    BY <1>2, <1>3, <1>5, <2>1 DEF Shapes
  <2>8. RootOK'
    BY <1>1, <2>2, <2>5, Ids DEF IInv, RootOK, Idle
  <2>9. ASSUME NEW c \in Clients PROVE ClientOK(c)'
    <3>1. control'[c] = "client"
      BY <1>5, Ids DEF IInv, ClientOK
    <3>2. CASE c = t
      BY <2>1, <2>6, <3>1, <3>2 DEF ClientOK, BlockedOn
    <3>3. CASE c # t
      <4>1. state'[c] = state[c] /\ peer'[c] = peer[c] /\ box'[c] = box[c]
        BY <2>2, <3>3, Ids
      <4>2. PICK w : w = box[c].words
        OBVIOUS
      <4>3. Asks(c, w) => Asks(c, w)'
        BY <3>3, <1>7
      <4> QED BY <2>4, <3>1, <4>1, <4>2, <4>3 DEF IInv, ClientOK, BlockedOn, Asks
    <3> QED BY <3>2, <3>3
  <2>10. FSOK'
    BY <1>1, <1>6, <2>1, <2>3, <2>5, Ids DEF FSOK, Idle, Serving, BlockedOn, Asks
  <2>11. ConsoleOK'
    <3>1. CASE t = Console
      BY <1>5, <2>1, <2>6, <3>1 DEF ConsoleOK, BlockedOn
    <3>2. CASE t # Console
      <4>1. /\ state'[Console] = state[Console] /\ peer'[Console] = peer[Console]
            /\ box'[Console] = box[Console] /\ control'[Console] = control[Console]
        BY <1>5, <2>2, <3>2, Ids
      <4> QED BY <1>3, <2>3, <2>4, <4>1, Ids DEF IInv, ConsoleOK, Idle, BlockedOn
    <3> QED BY <3>1, <3>2
  <2>12. HasRegistered' <=> HasRegistered
    <3>1. CASE t = Console
      BY <1>5, <1>8, <2>1, <3>1 DEF HasRegistered
    <3>2. CASE t # Console
      BY <1>5, <2>2, <3>2, Ids DEF HasRegistered
    <3> QED BY <3>1, <3>2
  <2>13. Answered' /\ ReadWaits'
    BY <1>3, <2>4, <2>5 DEF Answered, ReadWaits
  <2>14. Devices'
    BY <2>3, <2>5, <2>12 DEF IInv, Devices
  <2>15. Interrupts'
    <3>1. CASE t = Console
      BY <1>3, <1>4, <1>5, <1>8, <3>1, Ids DEF IInv, Interrupts
    <3>2. CASE t # Console
      BY <1>3, <1>4, <1>5, <2>2, <3>2, Ids, InterruptsKept
    <3> QED BY <3>1, <3>2
  <2> QED BY <2>7, <2>8, <2>9, <2>10, <2>11, <2>13, <2>14, <2>15 DEF IInv
<1>10. CASE IPC!Offer(t, FS, words, "calling")
  <2>1. /\ ~(state[FS] = "receiving" /\ peer[FS] \in {t, ANY_SOURCE})
        /\ state'[t] = "calling" /\ peer'[t] = FS
        /\ box'[t].src = NOBODY /\ box'[t].words = words
        /\ Others({t}) /\ IpcShape'
    <3>1. t \in Threads /\ FS \in Threads /\ IpcShape
      BY <1>1, <1>2
    <3>2. UNCHANGED <<pending, handler, stopped>>
      BY <1>4
    <3> QED BY <1>10, <3>1, <3>2, OfferEffect
  <2>2. \A u \in Threads \ {t} :
          state'[u] = state[u] /\ peer'[u] = peer[u] /\ box'[u] = box[u]
    BY <2>1 DEF Others
  <2>3. /\ control'[FS] = control[FS] /\ control'[Root] = control[Root]
        /\ state'[FS] = state[FS] /\ peer'[FS] = peer[FS] /\ box'[FS] = box[FS]
    BY <1>1, <1>5, <2>2, Ids
  <2>4. Caller' = Caller
    BY <2>3 DEF Caller
  <2>5. Shapes'
    BY <1>2, <1>3, <1>5, <2>1 DEF Shapes
  <2>6. RootOK'
    BY <1>1, <2>2, <2>3, Ids DEF IInv, RootOK, Idle
  <2>7. ASSUME NEW c \in Clients PROVE ClientOK(c)'
    <3>1. control'[c] = "client"
      BY <1>5, Ids DEF IInv, ClientOK
    <3>2. CASE c = t
      <4>1. Asks(c, box[c].words)'
        BY <1>6, <2>1, <3>2, Ids DEF Asks
      <4> QED BY <2>1, <3>1, <3>2, <4>1 DEF ClientOK, BlockedOn
    <3>3. CASE c # t
      <4>1. state'[c] = state[c] /\ peer'[c] = peer[c] /\ box'[c] = box[c]
        BY <2>2, <3>3, Ids
      <4>2. PICK w : w = box[c].words
        OBVIOUS
      <4>3. Asks(c, w) => Asks(c, w)'
        BY <3>3, <1>7
      <4> QED BY <2>4, <3>1, <4>1, <4>2, <4>3 DEF IInv, ClientOK, BlockedOn, Asks
    <3> QED BY <3>2, <3>3
  <2>8. ASSUME NEW u \in Threads, Serving(u)
        PROVE  Serving(u)' /\ u # t
    BY <2>2, <2>8 DEF Serving, BlockedOn
  <2>9. ASSUME NEW u \in Clients, Serving(u), NEW w
        PROVE  Asks(u, w) => Asks(u, w)'
    <3>1. u # t
      BY <2>8, <2>9, Ids
    <3> QED BY <1>7, <3>1
  <2>10. CASE t = Console
    <3>1. control'[Console] = "claiming" /\ state'[Console] = "calling" /\ peer'[Console] = FS
      BY <1>5, <2>1, <2>10
    <3>2. ConsoleOK'
      BY <1>6, <2>1, <2>10, <3>1 DEF ConsoleOK, BlockedOn
    <3>3. ~HasRegistered' /\ ~HasRegistered
      BY <1>8, <2>10, <3>1 DEF HasRegistered
    <3>5. \/ control[FS] = "starting" /\ state[FS] \in {"absent", "running"} /\ peer[FS] = NOBODY /\ from = 0
          \/ control[FS] = "listening" /\ Idle(FS) /\ from = 0
          \/ control[FS] = "received" /\ BlockedOn(FS, "receiving", ANY_SOURCE) /\ from = 0
          \/ /\ control[FS] = "received" /\ Idle(FS) /\ from = 0
             /\ Serving(box[FS].src)
             /\ \/ box[FS].src = Console /\ box[FS].words = Message(DEVICE_INITIALITED, 3, <<>>)
                \/ box[FS].src \in Clients /\ Asks(box[FS].src, box[FS].words)
          \/ /\ control[FS] \in {"written", "read"} /\ from \in Clients
             /\ Serving(from) /\ Idle(FS)
             /\ request[from] = IF control[FS] = "written" THEN "write" ELSE "read"
      BY <2>10, <3>3 DEF IInv, FSOK
    <3>6. FSOK'
      <4>1. CASE control[FS] = "starting" /\ state[FS] \in {"absent", "running"} /\ peer[FS] = NOBODY /\ from = 0
        BY <2>3, <4>1 DEF FSOK
      <4>2. CASE control[FS] = "listening" /\ Idle(FS) /\ from = 0
        BY <2>3, <4>2 DEF FSOK, Idle
      <4>3. CASE control[FS] = "received" /\ BlockedOn(FS, "receiving", ANY_SOURCE) /\ from = 0
        BY <2>3, <4>3 DEF FSOK, BlockedOn
      <4>4. CASE /\ control[FS] = "received" /\ Idle(FS) /\ from = 0
                 /\ Serving(box[FS].src)
                 /\ \/ box[FS].src = Console /\ box[FS].words = Message(DEVICE_INITIALITED, 3, <<>>)
                    \/ box[FS].src \in Clients /\ Asks(box[FS].src, box[FS].words)
        <5>1. PICK u, w : u = box[FS].src /\ w = box[FS].words
          OBVIOUS
        <5>2. u \in Clients /\ Serving(u) /\ Serving(u)' /\ Asks(u, w)'
          BY <2>8, <2>9, <2>10, <4>4, <5>1, Ids
        <5> QED BY <2>3, <4>4, <5>1, <5>2 DEF FSOK, Idle, Serving, BlockedOn, Asks
      <4>5. CASE /\ control[FS] \in {"written", "read"} /\ from \in Clients
                 /\ Serving(from) /\ Idle(FS)
                 /\ request[from] = IF control[FS] = "written" THEN "write" ELSE "read"
        <5>1. PICK u : u = from
          OBVIOUS
        <5>2. Serving(u)' /\ request'[u] = request[u]
          BY <2>8, <2>10, <4>5, <5>1, Ids
        <5> QED BY <2>3, <4>5, <5>1, <5>2 DEF FSOK, Idle, Serving, BlockedOn
      <4> QED BY <3>5, <4>1, <4>2, <4>3, <4>4, <4>5
    <3>7. Answered'
      <4>1. control[FS] = "written" \/ control[FS] = "read" => from \in Clients
        BY <3>5
      <4> QED BY <2>3, <2>10, <4>1, Ids DEF IInv, Answered
    <3>8. ReadWaits'
      <4>1. ~keyboard.pendingRequest
        BY <3>5, Ids DEF IInv, ReadWaits, BlockedOn, Idle
      <4> QED BY <1>3, <4>1 DEF ReadWaits
    <3>9. Devices'
      BY <2>3, <3>3 DEF IInv, Devices
    <3>10. Interrupts'
      BY <1>3, <1>4, <1>5, <1>8, <2>10, Ids DEF IInv, Interrupts
    <3> QED BY <2>5, <2>6, <2>7, <3>2, <3>6, <3>7, <3>8, <3>9, <3>10 DEF IInv
  <2>11. CASE t # Console
    <3>1. /\ control'[Console] = control[Console] /\ state'[Console] = state[Console]
          /\ peer'[Console] = peer[Console] /\ box'[Console] = box[Console]
      BY <1>5, <2>2, <2>11, Ids
    <3>2. HasRegistered' = HasRegistered /\ Handling' = Handling
      BY <3>1 DEF HasRegistered, Handling
    <3>3. FSOK'
      <4>1. CASE control[FS] = "received" /\ state[FS] = "running"
        <5>1. PICK u, w : u = box[FS].src /\ w = box[FS].words
          OBVIOUS
        <5>2. /\ Idle(FS) /\ from = 0 /\ u \in Threads /\ Serving(u)
              /\ \/ u = Console /\ w = Message(DEVICE_INITIALITED, 3, <<>>)
                 \/ u \in Clients /\ Asks(u, w)
          BY <4>1, <5>1, Ids DEF IInv, FSOK, BlockedOn
        <5>3. Serving(u)' /\ (u \in Clients /\ Asks(u, w) => Asks(u, w)')
          BY <2>8, <2>9, <5>2
        <5> QED BY <2>3, <4>1, <5>1, <5>2, <5>3 DEF FSOK, Idle, Serving, BlockedOn, Asks
      <4>2. CASE control[FS] \in {"written", "read"}
        <5>1. PICK u, w : u = from /\ w = box[FS].words
          OBVIOUS
        <5>2. /\ u \in Clients /\ Serving(u)
              /\ request[u] = IF control[FS] = "written" THEN "write" ELSE "read"
              /\ \/ Idle(FS)
                 \/ BlockedOn(FS, "calling", Console) /\ HasRegistered /\ Asks(u, w)
                 \/ BlockedOn(FS, "receiving", Console) /\ HasRegistered /\ (Handling \/ keyboard.pendingRequest)
          BY <4>2, <5>1 DEF IInv, FSOK
        <5>3. Serving(u)' /\ (Asks(u, w) => Asks(u, w)') /\ request'[u] = request[u]
          BY <2>8, <2>9, <1>7, <5>2, Ids
        <5> QED BY <1>3, <2>3, <3>2, <4>2, <5>1, <5>2, <5>3 DEF FSOK, Idle, Serving, BlockedOn, Asks
      <4>3. CASE ~(control[FS] = "received" /\ state[FS] = "running") /\ control[FS] \notin {"written", "read"}
        BY <2>3, <4>3 DEF IInv, FSOK, Idle, BlockedOn
      <4> QED BY <4>1, <4>2, <4>3
    <3>4. ConsoleOK'
      <4>1. CASE Handling
        <5>1. PICK u, w : u = from /\ w = box[Console].words
          OBVIOUS
        <5>2. BlockedOn(FS, "receiving", Console) /\ Asks(u, w) /\ Idle(Console)
          BY <4>1, <5>1, Ids DEF IInv, ConsoleOK, Handling, BlockedOn, Idle
        <5>3. u \in Clients /\ Serving(u)
          BY <5>1, <5>2, Ids DEF IInv, FSOK, BlockedOn, Idle
        <5>4. Asks(u, w)'
          BY <2>9, <5>2, <5>3
        <5> QED BY <2>3, <3>1, <4>1, <5>1, <5>2, <5>4 DEF ConsoleOK, Idle, Handling, BlockedOn, Asks
      <4>2. CASE ~Handling
        BY <1>3, <2>4, <3>1, <4>2, Ids DEF IInv, ConsoleOK, Idle, BlockedOn, Handling
      <4> QED BY <4>1, <4>2
    <3>5. Answered'
      <4>1. CASE control[FS] \in {"written", "read"}
        <5>1. from \in Clients /\ Serving(from) /\ from # t
          BY <2>8, <4>1, Ids DEF IInv, FSOK
        <5> QED BY <2>3, <5>1 DEF IInv, Answered
      <4>2. CASE control[FS] \notin {"written", "read"}
        BY <2>3, <4>2 DEF Answered
      <4> QED BY <4>1, <4>2
    <3>6. ReadWaits'
      BY <1>3, <2>3, <3>1, <3>2 DEF IInv, ReadWaits, BlockedOn
    <3>7. Devices'
      BY <2>3, <3>2 DEF IInv, Devices
    <3>8. Interrupts'
      BY <1>3, <1>4, <3>1, Ids DEF IInv, Interrupts, At, IPC!Running
    <3> QED BY <2>5, <2>6, <2>7, <3>3, <3>4, <3>5, <3>6, <3>7, <3>8 DEF IInv
  <2> QED BY <2>10, <2>11
<1> QED BY <1>4, <1>9, <1>10


LEMMA RegisterConsoleStep == ASSUME IInv, RegisterConsole PROVE IInv'
<1>1. /\ state[Console] = "running" /\ control[Console] = "registering"
      /\ IPC!Call(Console, FS, Message(DEVICE_INITIALITED, 3, <<>>))
      /\ Goto(Console, "claiming")
      /\ UNCHANGED <<devices, from, device, history>>
  BY DEF RegisterConsole, At, IPC!Running
<1>2. DOMAIN request' = Clients /\ written' \subseteq Clients /\ request' = request /\ written' = written
  BY <1>1 DEF history, IInv, Shapes
<1> QED BY <1>1, <1>2, CallStep

LEMMA ClientCalls == ASSUME IInv, NEW c \in Clients, ClientStep(c) PROVE IInv'
<1>1. state[c] = "running" /\ UNCHANGED <<control, devices, from, device>>
  BY DEF ClientStep, CallWrite, CallRead, At, IPC!Running
<1>2. DOMAIN request = Clients /\ written \subseteq Clients
  BY DEF IInv, Shapes
<1>3. CASE CallWrite(c)
  <2>1. /\ IPC!Call(c, FS, Message(WRITE_CHARACTERS, 1, <<c>>))
        /\ request' = [request EXCEPT ![c] = "write"] /\ written' = written \ {c}
    BY <1>3 DEF CallWrite
  <2>2. Asks(c, Message(WRITE_CHARACTERS, 1, <<c>>))'
    BY <1>2, <2>1 DEF Asks
  <2>3. /\ DOMAIN request' = Clients /\ written' \subseteq Clients
        /\ \A b \in Clients \ {c} : request'[b] = request[b] /\ (b \in written' <=> b \in written)
    BY <1>2, <2>1
  <2> QED BY <1>1, <2>1, <2>2, <2>3, CallStep
<1>4. CASE \E count \in Counts[c] : CallRead(c, count)
  <2>1. PICK count \in Counts[c] : CallRead(c, count)
    BY <1>4
  <2>2. count \in Nat
    BY FileServiceAssumption
  <2>3. /\ IPC!Call(c, FS, Message(READ_CHARACTERS, count, <<>>))
        /\ request' = [request EXCEPT ![c] = "read"] /\ written' = written
    BY <2>1 DEF CallRead
  <2>4. Asks(c, Message(READ_CHARACTERS, count, <<>>))'
    BY <1>2, <2>2, <2>3 DEF Asks
  <2>5. /\ DOMAIN request' = Clients /\ written' \subseteq Clients
        /\ \A b \in Clients \ {c} : request'[b] = request[b] /\ (b \in written' <=> b \in written)
    BY <1>2, <2>3
  <2> QED BY <1>1, <2>3, <2>4, <2>5, CallStep
<1> QED BY <1>3, <1>4 DEF ClientStep

\* What only the console's variables see leaves the clients alone.
LEMMA ClientsKept ==
  ASSUME IInv, UNCHANGED <<state, peer, box, request, written>>,
         \A t \in Threads \ {Console} : control'[t] = control[t], Caller' = Caller
  PROVE  RootOK' /\ \A c \in Clients : ClientOK(c)'
<1>1. RootOK'
  BY Ids DEF IInv, RootOK, Idle
<1>2. ASSUME NEW c \in Clients PROVE ClientOK(c)'
  <2>1. control'[c] = control[c]
    BY Ids
  <2> QED BY <2>1 DEF IInv, ClientOK, BlockedOn, Asks
<1> QED BY <1>1, <1>2

LEMMA InitializeKeyboardStep == ASSUME IInv, InitializeKeyboard PROVE IInv'
<1>1. /\ state[Console] = "running" /\ control[Console] = "claiming"
      /\ IPC!Claim(Console, KeyboardInterrupted)
      /\ keyboard' = KB!InitializeKeyboard /\ scancode' = {} /\ Goto(Console, "unmasking")
      /\ UNCHANGED <<devices, from, irq, request, written>>
  BY DEF InitializeKeyboard, At, IPC!Running, history
<1>2. IpcShape /\ Shapes
  BY DEF IInv, Shapes
<1>3. /\ handler' = [handler EXCEPT ![KeyboardInterrupted] = Console]
      /\ UNCHANGED <<state, peer, box, pending, stopped>>
  BY <1>1 DEF IPC!Claim
<1>4. handler'[KeyboardInterrupted] = Console /\ DOMAIN handler' = {KeyboardInterrupted}
  BY <1>2, <1>3 DEF IpcShape
<1>5. /\ control' \in [Threads -> Controls] /\ control'[Console] = "unmasking"
      /\ \A u \in Threads \ {Console} : control'[u] = control[u]
  BY <1>1, <1>2, Ids, GotoEffect DEF Controls
<1>6. control'[FS] = control[FS]
  BY <1>5, Ids
<1>7. Caller' = Caller
  BY <1>1, <1>3, <1>6 DEF Caller
<1>8. Shapes'
  BY <1>1, <1>2, <1>3, <1>4, <1>5, Started DEF Shapes, IpcShape
<1>9. RootOK' /\ \A c \in Clients : ClientOK(c)'
  BY <1>1, <1>3, <1>5, <1>7, ClientsKept
<1>10. Idle(Console) /\ HasRegistered /\ ~Handling /\ ~keyboard.pendingRequest
  BY <1>1, Ids DEF IInv, ConsoleOK, HasRegistered, Handling, ReadWaits, Idle, BlockedOn
<1>11. HasRegistered' /\ ~Handling' /\ ~keyboard'.pendingRequest
  BY <1>1, <1>5, Started DEF HasRegistered, Handling
<1>12. ConsoleOK'
  BY <1>3, <1>5, <1>10 DEF ConsoleOK, Idle
<1>13. FSOK'
  BY <1>1, <1>3, <1>6, <1>10, <1>11 DEF IInv, FSOK, Idle, BlockedOn, Serving, Asks
<1>14. Answered' /\ ReadWaits'
  BY <1>1, <1>3, <1>6, <1>11 DEF IInv, Answered, ReadWaits
<1>15. Devices'
  BY <1>1, <1>6, <1>10, <1>11 DEF IInv, Devices
<1>16. Interrupts'
  <2>1. irq = "masked"
    BY <1>1 DEF IInv, Interrupts
  <2> QED BY <1>1, <1>3, <1>4, <1>5, <2>1 DEF IInv, Interrupts
<1> QED BY <1>8, <1>9, <1>12, <1>13, <1>14, <1>15, <1>16 DEF IInv

LEMMA UnmaskStep == ASSUME IInv, Unmask PROVE IInv'
<1>1. /\ state[Console] = "running" /\ control[Console] = "unmasking"
      /\ irq' = "ready" /\ Goto(Console, "listening")
      /\ UNCHANGED <<state, peer, box, pending, handler, stopped>>
      /\ UNCHANGED <<devices, from, keyboard, scancode, request, written>>
  BY DEF Unmask, At, IPC!Running, history, ipc
<1>2. IpcShape /\ Shapes
  BY DEF IInv, Shapes
<1>5. /\ control' \in [Threads -> Controls] /\ control'[Console] = "listening"
      /\ \A u \in Threads \ {Console} : control'[u] = control[u]
  BY <1>1, <1>2, Ids, GotoEffect DEF Controls
<1>6. control'[FS] = control[FS]
  BY <1>5, Ids
<1>7. Caller' = Caller
  BY <1>1, <1>6 DEF Caller
<1>8. Shapes'
  BY <1>1, <1>2, <1>5 DEF Shapes, IpcShape
<1>9. RootOK' /\ \A c \in Clients : ClientOK(c)'
  BY <1>1, <1>5, <1>7, ClientsKept
<1>10. Idle(Console) /\ HasRegistered /\ ~Handling /\ ~keyboard.pendingRequest
  BY <1>1, Ids DEF IInv, ConsoleOK, HasRegistered, Handling, ReadWaits, Idle, BlockedOn
<1>11. HasRegistered' /\ ~Handling' /\ ~keyboard'.pendingRequest
  BY <1>1, <1>5, <1>10 DEF HasRegistered, Handling
<1>12. ConsoleOK'
  BY <1>1, <1>5, <1>10 DEF ConsoleOK, Idle
<1>13. FSOK'
  BY <1>1, <1>6, <1>10, <1>11 DEF IInv, FSOK, Idle, BlockedOn, Serving, Asks
<1>14. Answered' /\ ReadWaits'
  BY <1>1, <1>6, <1>11 DEF IInv, Answered, ReadWaits
<1>15. Devices'
  BY <1>1, <1>6, <1>10, <1>11 DEF IInv, Devices
<1>16. Interrupts'
  <2>1. irq = "masked" /\ \A t \in Threads : ~pending[t]
    BY <1>1 DEF IInv, Interrupts
  <2> QED BY <1>1, <1>5, <2>1 DEF IInv, Interrupts
<1> QED BY <1>8, <1>9, <1>12, <1>13, <1>14, <1>15, <1>16 DEF IInv


\* Only the file server calls the console.
LEMMA ConsoleListensStep == ASSUME IInv, ConsoleListens PROVE IInv'
<1>1. /\ state[Console] = "running" /\ control[Console] = "listening"
      /\ IPC!Receive(Console, ANY_SOURCE) /\ Goto(Console, "received")
      /\ UNCHANGED <<devices, from, keyboard, scancode, irq, request, written>>
  BY DEF ConsoleListens, At, IPC!Running, device, history
<1>2. IpcShape /\ Shapes
  BY DEF IInv, Shapes
<1>3. stopped' = stopped /\ handler' = handler
  BY <1>1 DEF IPC!Receive
<1>4. /\ control' \in [Threads -> Controls] /\ control'[Console] = "received"
      /\ \A u \in Threads \ {Console} : control'[u] = control[u]
  BY <1>1, <1>2, Ids, GotoEffect DEF Controls
<1>5. control'[FS] = control[FS] /\ control'[Root] = control[Root]
  BY <1>4, Ids
<1>6. Idle(Console) /\ HasRegistered /\ ~Handling
  BY <1>1, Ids DEF IInv, ConsoleOK, HasRegistered, Handling, Idle, BlockedOn
<1>7. HasRegistered'
  BY <1>4 DEF HasRegistered
<1>8. irq = "serving" <=> pending[Console]
  BY <1>1, Ids DEF IInv, Interrupts, At
<1>9. Devices'
  BY <1>1, <1>5, <1>6, <1>7 DEF IInv, Devices
<1>10. handler[KeyboardInterrupted] = Console
  BY <1>1 DEF IInv, Interrupts
<1>11. Console \in Threads
  BY Ids
<1>12. \/ \E s \in Threads :
                 /\ BlockedOn(s, "calling", Console)
                 /\ box'[Console].src = s /\ box'[Console].words = box[s].words
                 /\ Console # s => /\ state'[s] = "receiving" /\ peer'[s] = Console /\ box'[s] = box[s]
                             /\ state'[Console] = state[Console] /\ peer'[Console] = peer[Console]
                             /\ pending'[Console] = pending[Console] /\ pending'[s] = pending[s]
                             /\ ~pending[Console]
                 /\ Others({Console, s})
       \/ /\ pending[Console] /\ ~pending'[Console]
          /\ box'[Console].src = HARDWARE_SOURCE
          /\ state'[Console] = state[Console] /\ peer'[Console] = peer[Console]
          /\ Others({Console})
       \/ /\ ~pending[Console] /\ pending'[Console] = pending[Console]
          /\ state'[Console] = "receiving" /\ peer'[Console] = ANY_SOURCE /\ box'[Console].src = NOBODY
          /\ Others({Console})
  BY <1>1, <1>2, <1>11, ReceiveEffect
<1>13. IpcShape'
  BY <1>1, <1>2, <1>11, ReceiveEffect
<1>14. Shapes'
  BY <1>1, <1>2, <1>4, <1>13 DEF Shapes
<1>15. CASE \E s \in Threads :
                 /\ BlockedOn(s, "calling", Console)
                 /\ box'[Console].src = s /\ box'[Console].words = box[s].words
                 /\ Console # s => /\ state'[s] = "receiving" /\ peer'[s] = Console /\ box'[s] = box[s]
                             /\ state'[Console] = state[Console] /\ peer'[Console] = peer[Console]
                             /\ pending'[Console] = pending[Console] /\ pending'[s] = pending[s]
                             /\ ~pending[Console]
                 /\ Others({Console, s})
  <2>1. PICK s \in Threads :
                 /\ BlockedOn(s, "calling", Console)
                 /\ box'[Console].src = s /\ box'[Console].words = box[s].words
                 /\ Console # s => /\ state'[s] = "receiving" /\ peer'[s] = Console /\ box'[s] = box[s]
                             /\ state'[Console] = state[Console] /\ peer'[Console] = peer[Console]
                             /\ pending'[Console] = pending[Console] /\ pending'[s] = pending[s]
                             /\ ~pending[Console]
                 /\ Others({Console, s})
    BY <1>15
  <2>2. s = FS
    <3>1. s # Console /\ s # Root
      BY <1>6, <2>1, Ids DEF BlockedOn, IInv, RootOK, Idle
    <3>2. s \notin Clients
      BY <2>1, Ids DEF BlockedOn, IInv, ClientOK
    <3> QED BY <3>1, <3>2, Ids
  <2>3. /\ BlockedOn(FS, "calling", Console)
        /\ state'[FS] = "receiving" /\ peer'[FS] = Console
        /\ state'[Console] = "running" /\ peer'[Console] = NOBODY
        /\ box'[Console].src = FS /\ box'[Console].words = box[FS].words
        /\ box'[FS] = box[FS] /\ ~pending[Console]
    BY <1>1, <1>6, <2>1, <2>2, Ids DEF Idle
  <2>4. /\ \A u \in Threads \ {FS, Console} : state'[u] = state[u] /\ peer'[u] = peer[u] /\ box'[u] = box[u]
        /\ \A u \in Threads : pending'[u] = pending[u]
    BY <2>1, <2>2, Ids DEF Others
  <2>5. control[FS] \in {"written", "read"} /\ Caller = from /\ Caller' = from
    BY <1>1, <1>5, <2>3, Ids DEF IInv, FSOK, BlockedOn, Idle, Caller
  <2>6. /\ from \in Clients /\ Serving(from) /\ Asks(from, box[FS].words)
        /\ request[from] = IF control[FS] = "written" THEN "write" ELSE "read"
    BY <2>3, <2>5, Ids DEF IInv, FSOK, BlockedOn, Idle
  <2>7. RootOK'
    BY <1>5, <2>4, Ids DEF IInv, RootOK, Idle
  <2>8. ASSUME NEW c \in Clients PROVE ClientOK(c)'
    <3>1. state'[c] = state[c] /\ peer'[c] = peer[c] /\ box'[c] = box[c] /\ control'[c] = control[c]
      BY <1>4, <2>4, Ids
    <3> QED BY <1>1, <2>5, <3>1 DEF IInv, ClientOK, BlockedOn, Asks
  <2>9. Serving(from)'
    <3>1. PICK c : c = from
      OBVIOUS
    <3>2. c \in Threads \ {FS, Console} /\ Serving(c)
      BY <2>6, <3>1, Ids
    <3> QED BY <1>1, <2>4, <3>1, <3>2 DEF Serving, BlockedOn
  <2>10. Handling'
    BY <1>4, <2>3 DEF Handling
  <2>11. FSOK'
    BY <1>1, <1>5, <1>7, <2>3, <2>5, <2>6, <2>9, <2>10 DEF FSOK, BlockedOn
  <2>12. ConsoleOK'
    BY <1>1, <1>4, <2>3, <2>6 DEF ConsoleOK, Idle, BlockedOn, Asks
  <2>13. Answered' /\ ReadWaits'
    BY <1>1, <2>3 DEF IInv, Answered, ReadWaits, BlockedOn
  <2>14. Interrupts'
    BY <1>1, <1>3, <1>4, <1>8, <1>10, <2>3, <2>4 DEF IInv, Interrupts
  <2> QED BY <1>9, <1>14, <2>7, <2>8, <2>11, <2>12, <2>13, <2>14 DEF IInv
<1>16. CASE /\ Others({Console})
            /\ \/ /\ pending[Console] /\ ~pending'[Console]
                  /\ box'[Console].src = HARDWARE_SOURCE
                  /\ state'[Console] = state[Console] /\ peer'[Console] = peer[Console]
               \/ /\ ~pending[Console] /\ pending'[Console] = pending[Console]
                  /\ state'[Console] = "receiving" /\ peer'[Console] = ANY_SOURCE
                  /\ box'[Console].src = NOBODY
  <2>1. \A u \in Threads \ {Console} : /\ state'[u] = state[u] /\ peer'[u] = peer[u]
                                       /\ box'[u] = box[u]
    BY <1>16 DEF Others
  <2>2. \A u \in Threads \ {Console} : pending'[u] = pending[u]
    BY <1>16 DEF Others
  <2>3. state'[FS] = state[FS] /\ peer'[FS] = peer[FS] /\ box'[FS] = box[FS]
    BY <2>1, Ids
  <2>4. Caller' = Caller
    BY <1>1, <1>5, <2>3 DEF Caller
  <2>5. RootOK'
    BY <1>5, <2>1, Ids DEF IInv, RootOK, Idle
  <2>6. ASSUME NEW c \in Clients PROVE ClientOK(c)'
    <3>1. state'[c] = state[c] /\ peer'[c] = peer[c] /\ box'[c] = box[c] /\ control'[c] = control[c]
      BY <1>4, <2>1, Ids
    <3> QED BY <1>1, <2>4, <3>1 DEF IInv, ClientOK, BlockedOn, Asks
  <2>7. ~Handling'
    BY <1>16, Ids DEF Handling
  <2>8. ASSUME NEW u \in Clients PROVE Serving(u)' <=> Serving(u)
    BY <2>1, Ids DEF Serving, BlockedOn
  <2>10. FSOK'
    <3>1. CASE control[FS] = "received" /\ state[FS] = "running"
      <4>1. PICK u, w : u = box[FS].src /\ w = box[FS].words
        OBVIOUS
      <4>2. Idle(FS) /\ from = 0 /\ Serving(u) /\ u \in Clients /\ Asks(u, w)
        BY <1>6, <3>1, <4>1, Ids DEF IInv, FSOK, BlockedOn, Serving, Idle
      <4>3. Serving(u)'
        BY <2>8, <4>2
      <4> QED BY <1>1, <1>5, <2>3, <3>1, <4>1, <4>2, <4>3 DEF FSOK, Idle, Serving, BlockedOn, Asks
    <3>2. CASE control[FS] \in {"written", "read"}
      <4>1. PICK u : u = from
        OBVIOUS
      <4>2. u \in Clients /\ Serving(u)
        BY <3>2, <4>1 DEF IInv, FSOK
      <4>3. Serving(u)'
        BY <2>8, <4>2
      <4> QED BY <1>1, <1>5, <1>6, <1>7, <2>3, <3>2, <4>1, <4>2, <4>3 DEF IInv, FSOK, Idle, Serving, BlockedOn, Asks
    <3>3. CASE ~(control[FS] = "received" /\ state[FS] = "running") /\ control[FS] \notin {"written", "read"}
      BY <1>1, <1>5, <2>3, <3>3 DEF IInv, FSOK, Idle, BlockedOn
    <3> QED BY <3>1, <3>2, <3>3
  <2>11. ConsoleOK'
    BY <1>1, <1>4, <1>6, <1>8, <1>16 DEF ConsoleOK, Idle, BlockedOn
  <2>12. Answered'
    BY <1>1, <1>5, <2>3 DEF IInv, Answered
  <2>13. ReadWaits'
    BY <1>1, <1>4, <1>5, <2>3, <2>7 DEF IInv, ReadWaits, BlockedOn
  <2>14. Interrupts'
    <3>1. \A t \in Threads : t # Console => ~pending'[t]
      BY <2>2 DEF IInv, Interrupts
    <3>2. CASE pending[Console] /\ ~pending'[Console] /\ box'[Console].src = HARDWARE_SOURCE
                 /\ state'[Console] = state[Console]
      <4>1. At(Console, "received")' /\ box'[Console].src = HARDWARE_SOURCE /\ irq = "serving"
        BY <1>1, <1>2, <1>3, <1>4, <1>8, <3>2 DEF At, IPC!Running, IpcShape
      <4> QED BY <1>1, <1>3, <1>4, <1>8, <1>10, <3>1, <3>2, <4>1 DEF IInv, Interrupts
    <3>3. CASE ~pending[Console] /\ pending'[Console] = pending[Console]
      BY <1>1, <1>3, <1>4, <1>8, <1>10, <3>1, <3>3 DEF IInv, Interrupts
    <3> QED BY <1>16, <3>2, <3>3
  <2> QED BY <1>9, <1>14, <2>5, <2>6, <2>10, <2>11, <2>12, <2>13, <2>14 DEF IInv
<1> QED BY <1>12, <1>15, <1>16


\* What the console has in hand: a key, or what the file server forwarded.
LEMMA InHand ==
  ASSUME IInv, state[Console] = "running", control[Console] = "received"
  PROVE  /\ Idle(Console) /\ HasRegistered /\ handler[KeyboardInterrupted] = Console
         /\ \A t \in Threads \ {Console} : ~pending[t]
         /\ box[Console].src = HARDWARE_SOURCE => irq = "serving" /\ ~pending[Console] /\ ~Handling
         /\ box[Console].src # HARDWARE_SOURCE =>
              /\ irq = "serving" <=> pending[Console]
              /\ Handling /\ ~keyboard.pendingRequest /\ box[Console].src = FS
              /\ BlockedOn(FS, "receiving", Console) /\ Asks(from, box[Console].words)
<1>1. Idle(Console) /\ HasRegistered /\ At(Console, "received")
  BY Ids DEF IInv, ConsoleOK, HasRegistered, Idle, BlockedOn, At, IPC!Running, Shapes, IpcShape
<1>2. /\ handler[KeyboardInterrupted] = Console
      /\ \A t \in Threads \ {Console} : ~pending[t]
  BY DEF IInv, Interrupts
<1>3. CASE box[Console].src = HARDWARE_SOURCE
  <2>1. irq = "serving" /\ ~Handling
    BY <1>3, Ids DEF IInv, ConsoleOK, BlockedOn, Handling
  <2>2. ~pending[Console]
    BY <1>1, <1>3, Ids DEF IInv, Interrupts
  <2> QED BY <1>1, <1>2, <1>3, <2>1, <2>2
<1>4. CASE box[Console].src # HARDWARE_SOURCE
  <2>1. /\ box[Console].src = FS /\ BlockedOn(FS, "receiving", Console)
        /\ Asks(from, box[Console].words)
    BY <1>4, Ids DEF IInv, ConsoleOK, BlockedOn
  <2>2. Handling /\ ~keyboard.pendingRequest
    BY <2>1 DEF Handling, IInv, ReadWaits
  <2>3. irq = "serving" <=> pending[Console]
    BY <1>4, Ids DEF IInv, Interrupts
  <2> QED BY <1>1, <1>2, <1>4, <2>1, <2>2, <2>3
<1> QED BY <1>3, <1>4

\* The keyboard may interrupt again when the console has seen to its key.
Acknowledged ==
  \/ UNCHANGED <<irq, scancode>> /\ box[Console].src # HARDWARE_SOURCE
  \/ irq' = "ready" /\ scancode' = {} /\ box[Console].src = HARDWARE_SOURCE

LEMMA InterruptsLater ==
  ASSUME IInv, state[Console] = "running", control[Console] = "received",
         control'[Console] = "listening", UNCHANGED <<pending, handler>>, Acknowledged
  PROVE  Interrupts'
<1>1. /\ handler[KeyboardInterrupted] = Console
      /\ \A t \in Threads \ {Console} : ~pending[t]
      /\ box[Console].src = HARDWARE_SOURCE => ~pending[Console]
      /\ box[Console].src # HARDWARE_SOURCE => (irq = "serving" <=> pending[Console])
  BY InHand
<1>2. CASE UNCHANGED <<irq, scancode>> /\ box[Console].src # HARDWARE_SOURCE
  BY <1>1, <1>2 DEF IInv, Interrupts, At
<1>3. CASE irq' = "ready" /\ scancode' = {} /\ box[Console].src = HARDWARE_SOURCE
  BY <1>1, <1>3 DEF IInv, Interrupts, At
<1> QED BY <1>2, <1>3 DEF Acknowledged

\* The console answers the file server, which waits for it alone.
LEMMA ConsoleAnswers ==
  ASSUME IInv, state[Console] = "running", control[Console] = "received",
         BlockedOn(FS, "receiving", Console), NEW words, IPC!Send(Console, FS, words),
         Goto(Console, "listening"), Acknowledged, UNCHANGED <<devices, from, request>>,
         KP!Ring(keyboard'), ~keyboard'.pendingRequest, written' \subseteq Clients,
         \A c \in Clients \ {from} : c \in written' <=> c \in written,
         control[FS] = "written" => (words.vr2 = OS_OK <=> from \in written'),
         control[FS] = "read" => words.vr2 = Len(words.text)
  PROVE  IInv'
<1>1. Idle(Console) /\ HasRegistered
  BY InHand
<1>2. IpcShape /\ Shapes
  BY DEF IInv, Shapes
<1>3. /\ control' \in [Threads -> Controls] /\ control'[Console] = "listening"
      /\ \A u \in Threads \ {Console} : control'[u] = control[u]
  BY <1>2, Ids, GotoEffect DEF Controls
<1>4. control'[FS] = control[FS] /\ control'[Root] = control[Root]
  BY <1>3, Ids
<1>5. FS \in Threads /\ Console \in Threads /\ Console # FS
  BY Ids
<1>6. UNCHANGED <<pending, handler, stopped>> /\ IPC!Give(Console, FS, words, "running")
  BY <1>2, <1>5, SendEffect
<1>7. /\ state'[FS] = "running" /\ peer'[FS] = NOBODY /\ box'[FS].words = words
      /\ state'[Console] = "running" /\ peer'[Console] = NOBODY
      /\ \A u \in Threads \ {FS, Console} : state'[u] = state[u] /\ peer'[u] = peer[u] /\ box'[u] = box[u]
      /\ IpcShape'
  BY <1>2, <1>5, <1>6, GiveEffect DEF Others
<1>8. control[FS] \in {"written", "read"} /\ Caller = from /\ Caller' = from
  BY <1>4, Ids DEF IInv, FSOK, BlockedOn, Idle, Caller
<1>9. /\ from \in Clients /\ Serving(from)
      /\ request[from] = IF control[FS] = "written" THEN "write" ELSE "read"
  BY <1>8 DEF IInv, FSOK
<1>10. HasRegistered' /\ ~Handling'
  BY <1>3 DEF HasRegistered, Handling
<1>11. Shapes'
  BY <1>2, <1>3, <1>7 DEF Shapes
<1>12. RootOK'
  BY <1>4, <1>7, Ids DEF IInv, RootOK, Idle
<1>13. ASSUME NEW c \in Clients PROVE ClientOK(c)'
  <2>1. state'[c] = state[c] /\ peer'[c] = peer[c] /\ box'[c] = box[c] /\ control'[c] = control[c]
    BY <1>3, <1>7, Ids
  <2>2. CASE c = from
    BY <1>8, <1>9, <2>1, <2>2 DEF IInv, ClientOK, Serving, BlockedOn
  <2>3. CASE c # from
    BY <1>8, <2>1, <2>3 DEF IInv, ClientOK, BlockedOn, Asks
  <2> QED BY <2>2, <2>3
<1>14. Serving(from)'
  <2>1. PICK c : c = from
    OBVIOUS
  <2>2. c \in Threads \ {FS, Console} /\ Serving(c)
    BY <1>9, <2>1, Ids
  <2> QED BY <1>7, <2>1, <2>2 DEF Serving, BlockedOn
<1>15. FSOK'
  BY <1>4, <1>7, <1>8, <1>9, <1>14 DEF FSOK, Idle
<1>16. ConsoleOK'
  BY <1>3, <1>7 DEF ConsoleOK, Idle
<1>17. Answered' /\ ReadWaits'
  BY <1>4, <1>7 DEF Answered, ReadWaits
<1>18. Devices'
  BY <1>1, <1>4, <1>10 DEF IInv, Devices
<1>19. Interrupts'
  BY <1>3, <1>6, InterruptsLater
<1> QED BY <1>11, <1>12, <1>13, <1>15, <1>16, <1>17, <1>18, <1>19 DEF IInv

\* The console has nothing to say yet.
LEMMA ConsoleGoesOn ==
  ASSUME IInv, state[Console] = "running", control[Console] = "received",
         UNCHANGED ipc, Goto(Console, "listening"), Acknowledged, UNCHANGED <<devices, from, history>>,
         KP!Ring(keyboard'),
         keyboard'.pendingRequest => control[FS] = "read" /\ BlockedOn(FS, "receiving", Console),
         BlockedOn(FS, "receiving", Console) => keyboard'.pendingRequest
  PROVE  IInv'
<1>1. Idle(Console) /\ HasRegistered
  BY InHand
<1>2. IpcShape /\ Shapes /\ UNCHANGED <<state, peer, box, pending, handler, stopped, request, written>>
  BY DEF IInv, Shapes, ipc, history
<1>3. /\ control' \in [Threads -> Controls] /\ control'[Console] = "listening"
      /\ \A u \in Threads \ {Console} : control'[u] = control[u]
  BY <1>2, Ids, GotoEffect DEF Controls
<1>4. control'[FS] = control[FS]
  BY <1>3, Ids
<1>5. Caller' = Caller
  BY <1>2, <1>4 DEF Caller
<1>6. HasRegistered' /\ ~Handling'
  BY <1>3 DEF HasRegistered, Handling
<1>7. Shapes'
  BY <1>2, <1>3 DEF Shapes, IpcShape
<1>8. RootOK' /\ \A c \in Clients : ClientOK(c)'
  BY <1>2, <1>3, <1>5, ClientsKept
<1>9. FSOK'
  BY <1>2, <1>4, <1>6 DEF IInv, FSOK, Idle, BlockedOn, Serving, Asks
<1>10. ConsoleOK'
  BY <1>1, <1>2, <1>3 DEF ConsoleOK, Idle
<1>11. Answered' /\ ReadWaits'
  BY <1>2, <1>3, <1>4, <1>6 DEF IInv, Answered, ReadWaits, BlockedOn
<1>12. Devices'
  BY <1>1, <1>4, <1>6 DEF IInv, Devices
<1>13. Interrupts'
  BY <1>2, <1>3, InterruptsLater
<1> QED BY <1>7, <1>8, <1>9, <1>10, <1>11, <1>12, <1>13 DEF IInv

\* A read is answered as soon as it can be.
LEMMA Settled ==
  ASSUME IInv, state[Console] = "running", control[Console] = "received",
         Acknowledged, UNCHANGED <<devices, from, history>>,
         NEW k, KP!Ring(k), Settle(k),
         k.pendingRequest => control[FS] = "read" /\ BlockedOn(FS, "receiving", Console),
         BlockedOn(FS, "receiving", Console) => k.pendingRequest
  PROVE  IInv'
<1>1. keyboard' = KB!TryAnswerRequest(k) /\ Goto(Console, "listening")
  BY DEF Settle
<1>2. /\ KP!Ring(KB!TryAnswerRequest(k))
      /\ KB!CanAnswer(k) => k.pendingRequest /\ ~KB!TryAnswerRequest(k).pendingRequest
      /\ ~KB!CanAnswer(k) => KB!TryAnswerRequest(k) = k
      /\ Len(KB!Answer(k)) = KB!Taken(k)
  BY Tried
<1>3. CASE KB!CanAnswer(k)
  <2>1. IPC!Send(Console, FS, Message(KB!Taken(k), 0, KB!Answer(k)))
    BY <1>3 DEF Settle
  <2>2. Message(KB!Taken(k), 0, KB!Answer(k)).vr2 = Len(Message(KB!Taken(k), 0, KB!Answer(k)).text)
    BY <1>2, Fields
  <2>3. /\ request' = request /\ written' = written /\ written \subseteq Clients
        /\ UNCHANGED <<devices, from, request>>
    BY DEF history, IInv, Shapes
  <2>4. control[FS] = "read" /\ BlockedOn(FS, "receiving", Console)
    BY <1>2, <1>3
  <2> QED BY <1>1, <1>2, <1>3, <2>1, <2>2, <2>3, <2>4, ConsoleAnswers
<1>4. CASE ~KB!CanAnswer(k)
  <2>1. UNCHANGED ipc
    BY <1>4 DEF Settle
  <2>2. keyboard' = k
    BY <1>1, <1>2, <1>4
  <2> QED BY <1>1, <2>1, <2>2, ConsoleGoesOn
<1> QED BY <1>3, <1>4

LEMMA HandleKeyStep == ASSUME IInv, HandleKey PROVE IInv'
<1>1. /\ state[Console] = "running" /\ control[Console] = "received"
      /\ box[Console].src = HARDWARE_SOURCE
      /\ scancode' = {} /\ irq' = "ready" /\ UNCHANGED <<devices, from, history>>
  BY DEF HandleKey, At, IPC!Running, Acknowledge
<1>2. PICK code \in scancode : \E t \in KB!readKeyboard(keyboard, code) : Settle(t.keyboard)
  BY DEF HandleKey
<1>3. PICK t \in KB!readKeyboard(keyboard, code) : Settle(t.keyboard)
  BY <1>2
<1>4. KP!Ring(keyboard) /\ code \in Nat
  BY ConsoleAssumption DEF IInv, Shapes, Interrupts
<1>5. PICK k : k = t.keyboard
  OBVIOUS
<1>6. KP!Ring(k) /\ k.pendingRequest = keyboard.pendingRequest /\ Settle(k)
  BY <1>3, <1>4, <1>5, KeyReadKeeps
<1>7. Acknowledged
  BY <1>1 DEF Acknowledged
<1>8. ~Handling
  BY <1>1, InHand
<1>9. keyboard.pendingRequest => control[FS] = "read" /\ BlockedOn(FS, "receiving", Console)
  BY DEF IInv, ReadWaits
<1>10. BlockedOn(FS, "receiving", Console) => keyboard.pendingRequest
  BY <1>8, Ids DEF IInv, FSOK, BlockedOn, Idle
<1>11. k.pendingRequest <=> keyboard.pendingRequest
  BY <1>6
<1> QED BY <1>1, <1>6, <1>7, <1>9, <1>10, <1>11, Settled

LEMMA HandleReadStep == ASSUME IInv, HandleRead PROVE IInv'
<1>1. /\ state[Console] = "running" /\ control[Console] = "received"
      /\ box[Console].src # HARDWARE_SOURCE /\ box[Console].words.vr2 = READ_CHARACTERS
      /\ Settle(KB!Request(keyboard, box[Console].words.number))
      /\ UNCHANGED <<devices, from, scancode, irq, history>>
  BY DEF HandleRead, At, IPC!Running, Received
<1>2. BlockedOn(FS, "receiving", Console) /\ Asks(from, box[Console].words)
  BY <1>1, InHand
<1>3. PICK c, words : c = from /\ words = box[Console].words
  OBVIOUS
<1>4. request[from] = "read" /\ box[Console].words.number \in Nat
  BY <1>1, <1>2, <1>3, Operations, Numbers
<1>5. control[FS] = "read"
  BY <1>2, <1>4, Ids DEF IInv, FSOK, BlockedOn, Idle
<1>6. PICK k : k = KB!Request(keyboard, box[Console].words.number)
  OBVIOUS
<1>7. KP!Ring(k) /\ k.pendingRequest /\ Settle(k)
  BY <1>1, <1>4, <1>6, Requested DEF IInv, Shapes
<1>8. Acknowledged
  BY <1>1 DEF Acknowledged
<1>9. UNCHANGED <<devices, from, history>>
  BY <1>1
<1> QED BY <1>1, <1>2, <1>5, <1>7, <1>8, <1>9, Settled

LEMMA HandleWriteStep == ASSUME IInv, HandleWrite PROVE IInv'
<1>1. /\ state[Console] = "running" /\ control[Console] = "received"
      /\ box[Console].src # HARDWARE_SOURCE /\ box[Console].words.vr2 = WRITE_CHARACTERS
      /\ written' = written \union {c \in Clients : box[Console].words.text = <<c>>}
      /\ IPC!Send(Console, box[Console].src, Message(OS_OK, 0, <<>>))
      /\ Goto(Console, "listening")
      /\ UNCHANGED <<devices, from, keyboard, scancode, irq, request>>
  BY DEF HandleWrite, At, IPC!Running, Received, device
<1>2. /\ BlockedOn(FS, "receiving", Console) /\ Asks(from, box[Console].words)
      /\ box[Console].src = FS /\ ~keyboard.pendingRequest
  BY <1>1, InHand
<1>3. box[Console].words.text = <<from>> /\ request[from] = "write"
  <2>1. PICK c, words : c = from /\ words = box[Console].words
    OBVIOUS
  <2> QED BY <1>1, <1>2, <2>1, Operations, Numbers
<1>4. control[FS] = "written" /\ from \in Clients
  BY <1>2, <1>3, Ids DEF IInv, FSOK, BlockedOn, Idle
<1>5. ASSUME NEW c PROVE <<c>> = <<from>> <=> c = from
  OBVIOUS
<1>6. written' = written \union {from}
  BY <1>1, <1>3, <1>4, <1>5
<1>7. Message(OS_OK, 0, <<>>).vr2 = OS_OK
  BY Fields
<1>8. KP!Ring(keyboard) /\ written \subseteq Clients
  BY DEF IInv, Shapes
<1>9. Acknowledged
  BY <1>1 DEF Acknowledged
<1>10. IPC!Send(Console, FS, Message(OS_OK, 0, <<>>))
  BY <1>1, <1>2
<1>11. /\ KP!Ring(keyboard') /\ ~keyboard'.pendingRequest
       /\ written' \subseteq Clients /\ UNCHANGED <<devices, from, request>>
       /\ \A c \in Clients \ {from} : c \in written' <=> c \in written
       /\ from \in written'
  BY <1>1, <1>2, <1>4, <1>6, <1>8
<1> QED BY <1>1, <1>2, <1>4, <1>7, <1>9, <1>10, <1>11, ConsoleAnswers


\* What the keyboard controller does is no thread's business yet.
LEMMA ThreadsKept ==
  ASSUME IInv, UNCHANGED <<state, peer, box, stopped, handler, control, devices, from,
                           keyboard, request, written>>,
         pending' \in [Threads -> BOOLEAN], irq' = irq \/ irq' = "serving", Interrupts'
  PROVE  IInv'
<1>1. Caller' = Caller /\ HasRegistered' = HasRegistered /\ Handling' = Handling
  BY DEF Caller, HasRegistered, Handling
<1>2. Shapes'
  BY DEF IInv, Shapes, IpcShape
<1>3. RootOK' /\ \A c \in Clients : ClientOK(c)'
  BY <1>1, ClientsKept
<1>4. FSOK'
  BY <1>1 DEF IInv, FSOK, Idle, BlockedOn, Serving, Asks
<1>5. ConsoleOK'
  BY <1>1 DEF IInv, ConsoleOK, Idle, BlockedOn, Asks
<1>6. Answered' /\ ReadWaits'
  BY <1>1 DEF IInv, Answered, ReadWaits, BlockedOn
<1>7. Devices'
  BY <1>1 DEF IInv, Devices
<1> QED BY <1>2, <1>3, <1>4, <1>5, <1>6, <1>7 DEF IInv

LEMMA StutterStep == ASSUME IInv, UNCHANGED vars PROVE IInv'
<1>1. /\ UNCHANGED <<state, peer, box, stopped, handler, control, devices, from,
                     keyboard, request, written>>
      /\ UNCHANGED <<pending, irq, scancode>>
  BY DEF vars, ipc, device, history
<1>2. pending' \in [Threads -> BOOLEAN]
  BY <1>1 DEF IInv, Shapes, IpcShape
<1>3. Interrupts'
  BY <1>1, InterruptsKept
<1> QED BY <1>1, <1>2, <1>3, ThreadsKept

LEMMA KeyTypedStep == ASSUME IInv, NEW code \in Keys, KeyTyped(code) PROVE IInv'
<1>1. /\ UNCHANGED <<state, peer, box, stopped, handler, control, devices, from,
                     keyboard, request, written>>
      /\ UNCHANGED <<pending, irq>> /\ scancode = {} /\ scancode' = {code}
  BY DEF KeyTyped, ipc, history
<1>2. pending' \in [Threads -> BOOLEAN]
  BY <1>1 DEF IInv, Shapes, IpcShape
<1>3. Interrupts'
  <2>1. irq # "serving" /\ \A t \in Threads : ~pending[t]
    BY <1>1 DEF IInv, Interrupts
  <2> QED BY <1>1, <2>1 DEF IInv, Interrupts
<1> QED BY <1>1, <1>2, <1>3, ThreadsKept

\* The interrupt wakes the console or stays pending for it; the machine goes on.
LEMMA KeyboardInterruptStep == ASSUME IInv, KeyboardInterrupt PROVE IInv'
<1>1. /\ scancode # {} /\ irq = "ready" /\ irq' = "serving"
      /\ IPC!Signal(KeyboardInterrupted)
      /\ UNCHANGED <<control, devices, from, keyboard, scancode, request, written>>
  BY DEF KeyboardInterrupt, history
<1>2. /\ control[Console] \in {"listening", "received"} /\ handler[KeyboardInterrupted] = Console
      /\ \A t \in Threads : ~pending[t]
  BY <1>1 DEF IInv, Interrupts
<1>3. IpcShape /\ Shapes
  BY DEF IInv, Shapes
<1>4. ASSUME state[Console] = "running", control[Console] = "received" PROVE box[Console].src # HARDWARE_SOURCE
  BY <1>1, <1>4, InHand
<1>5. /\ IF state[Console] = "receiving" /\ peer[Console] \in {HARDWARE_SOURCE, ANY_SOURCE}
         THEN /\ state' = [state EXCEPT ![Console] = "running"]
              /\ peer'  = [peer EXCEPT ![Console] = NOBODY]
              /\ box'   = [box EXCEPT ![Console] = [src |-> HARDWARE_SOURCE, words |-> KeyboardInterrupted]]
              /\ UNCHANGED pending
         ELSE /\ pending' = [pending EXCEPT ![Console] = TRUE]
              /\ UNCHANGED <<state, peer, box>>
      /\ UNCHANGED <<handler, stopped>>
  BY <1>1, <1>2, Ids DEF IPC!Signal
<1>6. CASE ~(state[Console] = "receiving" /\ peer[Console] \in {HARDWARE_SOURCE, ANY_SOURCE})
  <2>1. /\ pending' = [pending EXCEPT ![Console] = TRUE]
        /\ UNCHANGED <<state, peer, box, handler, stopped>>
    BY <1>5, <1>6
  <2>2. /\ pending' \in [Threads -> BOOLEAN] /\ pending'[Console]
        /\ \A t \in Threads \ {Console} : ~pending'[t]
    BY <1>2, <1>3, <2>1, Ids DEF IpcShape
  <2>3. ~(box'[Console].src = HARDWARE_SOURCE /\ At(Console, "received")')
    BY <1>1, <1>4, <2>1 DEF At, IPC!Running
  <2>4. Interrupts'
    BY <1>1, <1>2, <2>1, <2>2, <2>3 DEF IInv, Interrupts
  <2> QED BY <1>1, <2>1, <2>2, <2>4, ThreadsKept
<1>7. CASE state[Console] = "receiving" /\ peer[Console] \in {HARDWARE_SOURCE, ANY_SOURCE}
  <2>1. /\ state' = [state EXCEPT ![Console] = "running"]
        /\ peer'  = [peer EXCEPT ![Console] = NOBODY]
        /\ box'   = [box EXCEPT ![Console] = [src |-> HARDWARE_SOURCE, words |-> KeyboardInterrupted]]
        /\ UNCHANGED <<pending, handler, stopped>>
    BY <1>5, <1>7
  <2>2. DOMAIN box = Threads /\ DOMAIN box' = Threads
    BY <1>3, <2>1 DEF IpcShape
  <2>3. box'[Console].src = HARDWARE_SOURCE /\ \A u \in Threads \ {Console} : box'[u] = box[u]
    BY <2>1, <2>2, Ids
  <2>4. /\ state'[Console] = "running" /\ peer'[Console] = NOBODY
        /\ \A u \in Threads \ {Console} : state'[u] = state[u] /\ peer'[u] = peer[u]
        /\ state' \in [Threads -> {"absent", "running", "receiving", "calling"}] /\ peer' \in [Threads -> Int]
    BY <1>3, <2>1, Ids DEF IpcShape
  <2>5. control[Console] = "received" /\ HasRegistered /\ ~Handling
    BY <1>2, <1>7, Ids DEF IInv, ConsoleOK, Idle, BlockedOn, HasRegistered, Handling
  <2>6. HasRegistered' /\ ~Handling'
    BY <1>1, <2>3, <2>5, Ids DEF HasRegistered, Handling
  <2>7. state'[FS] = state[FS] /\ peer'[FS] = peer[FS] /\ box'[FS] = box[FS]
    BY <2>3, <2>4, Ids
  <2>8. Caller' = Caller
    BY <1>1, <2>7 DEF Caller
  <2>9. Shapes'
    BY <1>1, <1>3, <2>1, <2>2, <2>4 DEF Shapes, IpcShape
  <2>10. RootOK'
    BY <1>1, <2>4, Ids DEF IInv, RootOK, Idle
  <2>11. ASSUME NEW c \in Clients PROVE ClientOK(c)'
    <3>1. state'[c] = state[c] /\ peer'[c] = peer[c] /\ box'[c] = box[c]
      BY <2>3, <2>4, Ids
    <3> QED BY <1>1, <2>8, <3>1 DEF IInv, ClientOK, BlockedOn, Asks
  <2>12. ASSUME NEW u \in Clients, Serving(u) PROVE Serving(u)'
    BY <2>4, <2>12, Ids DEF Serving, BlockedOn
  <2>13. FSOK'
    <3>1. CASE control[FS] = "received" /\ state[FS] = "running"
      <4>1. PICK u, w : u = box[FS].src /\ w = box[FS].words
        OBVIOUS
      <4>2. Idle(FS) /\ from = 0 /\ Serving(u) /\ u \in Clients /\ Asks(u, w)
        BY <2>5, <3>1, <4>1, Ids, CallerWaits DEF IInv, FSOK, BlockedOn
      <4>3. Serving(u)'
        BY <2>12, <4>2
      <4> QED BY <1>1, <2>7, <3>1, <4>1, <4>2, <4>3 DEF FSOK, Idle, Serving, BlockedOn, Asks
    <3>2. CASE control[FS] \in {"written", "read"}
      <4>1. PICK u : u = from
        OBVIOUS
      <4>2. u \in Clients /\ Serving(u)
        BY <3>2, <4>1 DEF IInv, FSOK
      <4>3. Serving(u)'
        BY <2>12, <4>2
      <4> QED BY <1>1, <2>5, <2>6, <2>7, <3>2, <4>1, <4>2, <4>3 DEF IInv, FSOK, Idle, Serving, BlockedOn, Asks
    <3>3. CASE ~(control[FS] = "received" /\ state[FS] = "running") /\ control[FS] \notin {"written", "read"}
      BY <1>1, <2>7, <3>3 DEF IInv, FSOK, Idle, BlockedOn
    <3> QED BY <3>1, <3>2, <3>3
  <2>14. ConsoleOK'
    BY <1>1, <2>3, <2>4, <2>5 DEF ConsoleOK, Idle
  <2>15. Answered'
    BY <1>1, <2>7 DEF IInv, Answered
  <2>16. ReadWaits'
    BY <1>1, <2>6, <2>7 DEF IInv, ReadWaits, BlockedOn
  <2>17. Devices'
    BY <1>1, <2>5, <2>6 DEF IInv, Devices
  <2>18. Interrupts'
    <3>1. At(Console, "received")'
      BY <1>1, <1>3, <2>1, <2>4, <2>5 DEF At, IPC!Running, IpcShape
    <3> QED BY <1>1, <1>2, <2>1, <2>3, <3>1 DEF IInv, Interrupts
  <2> QED BY <2>9, <2>10, <2>11, <2>13, <2>14, <2>15, <2>16, <2>17, <2>18 DEF IInv
<1> QED BY <1>6, <1>7

LEMMA FSStepKeeps == ASSUME IInv, FSStep PROVE IInv'
<1>1. CASE FSStarts
  <2>1. PICK clean : clean = [d \in DOMAIN devices |-> [devices[d] EXCEPT !.freeEntry = TRUE]]
    OBVIOUS
  <2>2. /\ Serve(clean) /\ control[FS] = "starting" /\ state[FS] = "running"
    BY <1>1, <2>1 DEF FSStarts, At, IPC!Running
  <2>3. devices \in Tables
    BY DEF IInv, Devices
  <2>4. /\ clean \in Tables
        /\ \A d \in DOMAIN devices : clean[d].idDriver = devices[d].idDriver /\ clean[d].freeEntry
    <3>1. ASSUME NEW d \in DOMAIN devices
          PROVE  /\ clean[d] \in [freeEntry : BOOLEAN, idDriver : Int]
                 /\ clean[d].idDriver = devices[d].idDriver /\ clean[d].freeEntry
      BY <2>1, <2>3 DEF Tables
    <3> QED BY <2>1, <2>3, <3>1 DEF Tables
  <2> QED BY <2>2, <2>3, <2>4, ServeStep
<1>2. CASE FSListens
  <2>1. /\ Serve(devices) /\ control[FS] = "listening" /\ state[FS] = "running"
    BY <1>2 DEF FSListens, At, IPC!Running
  <2>2. PICK clean : clean = devices
    OBVIOUS
  <2>3. clean \in Tables
    BY <2>2 DEF IInv, Devices
  <2> QED BY <2>1, <2>2, <2>3, ServeStep
<1> QED BY <1>1, <1>2, RegisterDeviceStep, ForwardStep, DoneStep DEF FSStep

LEMMA ConsoleStepKeeps == ASSUME IInv, ConsoleStep PROVE IInv'
BY RegisterConsoleStep, InitializeKeyboardStep, UnmaskStep, ConsoleListensStep,
   HandleKeyStep, HandleWriteStep, HandleReadStep DEF ConsoleStep

LEMMA NextKeeps == ASSUME IInv, [Next]_vars PROVE IInv'
BY CreateThreadStep, FSStepKeeps, ConsoleStepKeeps, KeyTypedStep, KeyboardInterruptStep,
   ClientCalls, StutterStep DEF Next

\* Whatever the threads do in whatever order, each is where the others think it is.
THEOREM Invariance == Spec => []IInv
<1>1. Init => IInv
  BY InitEstablishes
<1>2. IInv /\ [Next]_vars => IInv'
  BY NextKeeps
<1> QED BY <1>1, <1>2, PTL DEF Spec


-----------------------------------------------------------------------------
(* What follows.                                                           *)

\* The variables keep their types.
THEOREM TypeCorrect == Spec => []TypeOK
<1>1. ASSUME IInv PROVE TypeOK
  <2>1. control \in [Threads -> Controls] /\ written \subseteq Clients
    BY <1>1 DEF IInv, Shapes
  <2>2. \A d \in DOMAIN devices : devices[d].idDriver \in {0, Console}
    BY <1>1 DEF IInv, Devices
  <2>3. from \in Clients \union {0}
    BY <1>1 DEF IInv, FSOK
  <2>4. keyboard.count \in 0 .. SIZE_BUFFER_TECLADO - 1
    BY <1>1 DEF IInv, Shapes, KP!Ring, KP!Keyboards
  <2>5. irq \in {"masked", "ready", "serving"} /\ (scancode = {} \/ \E code \in Keys : scancode = {code})
    BY <1>1 DEF IInv, Interrupts
  <2>6. scancode \subseteq Keys /\ Cardinality(scancode) <= 1
    <3>1. CASE scancode = {}
      BY <3>1, FS_EmptySet
    <3>2. CASE \E code \in Keys : scancode = {code}
      <4>1. PICK code \in Keys : scancode = {code}
        BY <3>2
      <4>2. Cardinality(scancode) = 1
        BY <4>1, FS_Singleton
      <4> QED BY <4>1, <4>2
    <3> QED BY <2>5, <3>1, <3>2
  <2> QED BY <2>1, <2>2, <2>3, <2>4, <2>5, <2>6 DEF TypeOK, Controls
<1> QED BY <1>1, Invariance, PTL

\* The machine is never stopped by a key, and the keyboard's line is being served
\* only while the console has the interrupt in hand or coming to it.
THEOREM KeyboardGoesOn == Spec => []KeyboardLives
<1>1. ASSUME IInv PROVE KeyboardLives
  BY <1>1 DEF IInv, Shapes, IpcShape, Interrupts, KeyboardLives
<1> QED BY <1>1, Invariance, PTL

\* Whoever is blocked waits in the end for a thread that is not, or for anybody.
THEOREM NobodyWaitsInACircle == Spec => []NoCircle
<1>1. ASSUME IInv, NEW circle \in SUBSET Threads,
             \A t \in circle : IPC!Present(t) /\ ~IPC!Running(t) /\ peer[t] \in circle
      PROVE  circle = {}
  <2>1. \A t \in circle : /\ t \in Threads /\ state[t] \notin {"absent", "running"}
                          /\ peer[t] \in circle /\ peer[t] \in Threads
    BY <1>1 DEF IPC!Present, IPC!Running, IInv, Shapes, IpcShape
  <2>2. Root \notin circle
    BY <1>1, <2>1 DEF IInv, RootOK, Idle
  <2>3. \A c \in Clients : c \in circle => FS \in circle
    BY <1>1, <2>1 DEF IInv, ClientOK, BlockedOn
  <2>4. Console \in circle => FS \in circle /\ ~HasRegistered
    BY <1>1, <2>1, Ids DEF IInv, ConsoleOK, Idle, BlockedOn, HasRegistered
  <2>5. FS \in circle => Console \in circle /\ HasRegistered
    BY <1>1, <2>1, Ids DEF IInv, FSOK, Idle, BlockedOn
  <2> QED BY <2>1, <2>2, <2>3, <2>4, <2>5, Ids
<1>2. IInv => NoCircle
  BY <1>1 DEF NoCircle
<1> QED BY <1>2, Invariance, PTL

\* However many clients read, the console is given a read only when none waits: the file
\* server forwards the next one after it has been answered.
THEOREM OneReadReachesTheConsole == Spec => []OneReadAtATime
<1>1. IInv => OneReadAtATime
  <2> SUFFICES ASSUME IInv, At(Console, "received"), box[Console].src # HARDWARE_SOURCE
               PROVE  ~keyboard.pendingRequest
    BY DEF OneReadAtATime
  <2>1. control[Console] = "received" /\ state[Console] = "running"
    BY DEF At, IPC!Running
  <2>2. box[Console].src = FS
    BY <2>1 DEF IInv, ConsoleOK, Idle, BlockedOn
  <2>3. Handling
    BY <2>1, <2>2 DEF Handling
  <2> QED BY <2>3 DEF IInv, ReadWaits
<1> QED BY <1>1, Invariance, PTL

\* Of the threads that wait for a message, a send or a call releases the one it goes
\* to, and a receive releases none.
LEMMA SendReleases ==
  ASSUME IpcShape, NEW t \in Threads, NEW to, NEW words, NEW c \in Threads,
         IPC!Send(t, to, words) \/ IPC!Call(t, to, words),
         state[t] = "running", state[c] = "receiving", state'[c] = "running"
  PROVE  c = to
<1>1. \/ state' = state
      \/ state' = [state EXCEPT ![to] = "running", ![t] = "running"]
      \/ state' = [state EXCEPT ![to] = "running", ![t] = "receiving"]
      \/ state' = [state EXCEPT ![t] = "sending"]
      \/ state' = [state EXCEPT ![t] = "calling"]
  BY DEF IPC!Send, IPC!Call, IPC!Give, IPC!Offer
<1> QED BY <1>1 DEF IpcShape

LEMMA ReceiveReleases ==
  ASSUME IpcShape, NEW t \in Threads, NEW c \in Threads, IPC!Receive(t, ANY_SOURCE),
         state[t] = "running", state[c] = "receiving"
  PROVE  state'[c] # "running"
<1>1. \/ \E s \in Threads : state[s] = "calling" /\ state' = [state EXCEPT ![s] = "receiving"]
      \/ state' = state
      \/ state' = [state EXCEPT ![t] = "receiving"]
  BY DEF IPC!Receive, IPC!Take, IPC!TakeInterrupt, IPC!Block, IPC!SendsTo, IpcShape
<1> QED BY <1>1 DEF IpcShape

\* A client's call returns when the file server is done with it.
LEMMA Returns ==
  ASSUME IInv, [Next]_vars, NEW c \in Clients, Returned(c)
  PROVE  WriteDone \/ ReadDone
<1>1. /\ IpcShape /\ state[c] = "receiving" /\ state'[c] = "running" /\ c \in Threads
      /\ c # FS /\ c # Console
  BY Ids DEF IInv, Shapes, Returned
<1>2. /\ FS \in Threads /\ Console \in Threads
  BY Ids
<1>3. CASE CreateThread
  BY <1>1, <1>3 DEF CreateThread, IPC!Spawn, IpcShape
<1>4. CASE FSStarts \/ FSListens
  <2>1. IPC!Receive(FS, ANY_SOURCE) /\ state[FS] = "running"
    BY <1>4 DEF FSStarts, FSListens, Serve, At, IPC!Running
  <2> QED BY <1>1, <1>2, <2>1, ReceiveReleases
<1>5. CASE RegisterDevice
  <2>1. state[FS] = "running" /\ \E words : IPC!Send(FS, box[FS].src, words)
    BY <1>5 DEF RegisterDevice, AnswerCaller, At, IPC!Running
  <2>2. box[FS].src = Console
    BY <1>5, RegisterDeviceStep
  <2> QED BY <1>1, <1>2, <2>1, <2>2, SendReleases
<1>6. CASE ForwardWrite \/ ForwardRead
  <2>1. PICK to, words : /\ to = devices[0].idDriver /\ state[FS] = "running"
                         /\ IPC!Send(FS, to, words) \/ IPC!Call(FS, to, words)
    BY <1>6 DEF ForwardWrite, ForwardRead, Forward, At, IPC!Running
  <2>2. to \in {0, Console}
    BY <2>1, FileServiceAssumption DEF IInv, Devices, Tables
  <2>3. c = to
    BY <1>1, <1>2, <2>1, SendReleases
  <2> QED BY <1>1, <2>2, <2>3, Ids
<1>7. CASE RegisterConsole
  <2>1. state[Console] = "running" /\ \E words : IPC!Call(Console, FS, words)
    BY <1>7 DEF RegisterConsole, At, IPC!Running
  <2> QED BY <1>1, <1>2, <2>1, SendReleases
<1>8. CASE InitializeKeyboard \/ Unmask
  BY <1>1, <1>8 DEF InitializeKeyboard, Unmask, IPC!Claim, ipc
<1>9. CASE ConsoleListens
  <2>1. IPC!Receive(Console, ANY_SOURCE) /\ state[Console] = "running"
    BY <1>9 DEF ConsoleListens, At, IPC!Running
  <2> QED BY <1>1, <1>2, <2>1, ReceiveReleases
<1>10. CASE HandleKey \/ HandleRead
  <2>1. state[Console] = "running" /\ \E k : Settle(k)
    BY <1>10 DEF HandleKey, HandleRead, At, IPC!Running
  <2>2. state' = state \/ \E words : IPC!Send(Console, FS, words)
    BY <2>1 DEF Settle, ipc
  <2> QED BY <1>1, <1>2, <2>1, <2>2, SendReleases
<1>11. CASE HandleWrite
  <2>1. /\ state[Console] = "running" /\ control[Console] = "received"
        /\ box[Console].src # HARDWARE_SOURCE
        /\ \E words : IPC!Send(Console, box[Console].src, words)
    BY <1>11 DEF HandleWrite, At, IPC!Running
  <2>2. box[Console].src = FS
    BY <2>1, InHand
  <2> QED BY <1>1, <1>2, <2>1, <2>2, SendReleases
<1>12. CASE \E code \in Keys : KeyTyped(code)
  BY <1>1, <1>12 DEF KeyTyped, ipc
<1>13. CASE KeyboardInterrupt
  <2>1. irq = "ready" /\ IPC!Signal(KeyboardInterrupted)
    BY <1>13 DEF KeyboardInterrupt
  <2>2. handler[KeyboardInterrupted] = Console
    BY <2>1 DEF IInv, Interrupts
  <2>3. state' = state \/ state' = [state EXCEPT ![Console] = "running"]
    BY <2>1, <2>2 DEF IPC!Signal
  <2> QED BY <1>1, <2>3 DEF IpcShape
<1>14. CASE \E b \in Clients : ClientStep(b)
  <2>1. PICK b \in Clients : ClientStep(b)
    BY <1>14
  <2>2. state[b] = "running" /\ \E words : IPC!Call(b, FS, words)
    BY <2>1 DEF ClientStep, CallWrite, CallRead, At, IPC!Running
  <2>3. b \in Threads
    BY Ids
  <2> QED BY <1>1, <2>2, <2>3, SendReleases
<1>15. CASE UNCHANGED vars
  BY <1>1, <1>15 DEF vars, ipc
<1> QED BY <1>3, <1>4, <1>5, <1>6, <1>7, <1>8, <1>9, <1>10, <1>11, <1>12, <1>13, <1>14, <1>15
        DEF Next, FSStep, ConsoleStep

\* ... with what the console has said of it.
LEMMA ReturnsTheTruth ==
  ASSUME IInv, [Next]_vars, NEW c \in Clients, Returned(c)
  PROVE  /\ request[c] = "write" => (box'[c].words.vr2 = OS_OK <=> c \in written)
         /\ request[c] = "read" /\ devices[0].idDriver # 0 =>
              box'[c].words.vr2 = Len(box'[c].words.text)
<1>1. WriteDone \/ ReadDone
  BY Returns
<1>2. /\ state[FS] = "running" /\ control[FS] \in {"written", "read"}
      /\ BlockedOn(from, "receiving", FS) /\ from \in Clients
  BY <1>1, DoneStep
<1>3. PICK b : b = from
  OBVIOUS
<1>4. /\ IpcShape /\ FS \in Threads /\ b \in Threads /\ b # FS /\ c \in Threads
      /\ state[c] = "receiving" /\ state'[c] = "running"
  BY <1>2, <1>3, Ids DEF IInv, Shapes, Returned
<1>5. PICK words :
        /\ IPC!Send(FS, b, words)
        /\ \/ /\ control[FS] = "written"
              /\ words = Message(IF box[FS].words.vr2 = OS_OK THEN OS_OK ELSE OS_FAIL, 0, <<>>)
           \/ control[FS] = "read" /\ words = box[FS].words
  BY <1>1, <1>3 DEF WriteDone, ReadDone, AnswerCaller, Received, At
<1>6. c = b
  BY <1>2, <1>4, <1>5, SendReleases
<1>7. UNCHANGED <<pending, handler, stopped>> /\ IPC!Give(FS, b, words, "running")
  BY <1>2, <1>3, <1>4, <1>5, SendEffect
<1>8. box'[b].words = words
  <2>1. /\ state[b] = "receiving" /\ peer[b] \in {FS, ANY_SOURCE}
        /\ state'[b] = "running" /\ peer'[b] = NOBODY
        /\ box'[b].src = FS /\ box'[b].words = words
        /\ state'[FS] = "running" /\ peer'[FS] = IF "running" = "receiving" THEN b ELSE NOBODY
        /\ box'[FS].src = NOBODY /\ box'[FS].words = words
        /\ Others({FS, b}) /\ IpcShape'
    BY <1>4, <1>7, GiveEffect
  <2> QED BY <2>1
<1>9. request[c] = IF control[FS] = "written" THEN "write" ELSE "read"
  BY <1>2, <1>3, <1>6 DEF IInv, FSOK
<1>10. CASE control[FS] = "written"
  <2>1. words = Message(IF box[FS].words.vr2 = OS_OK THEN OS_OK ELSE OS_FAIL, 0, <<>>)
    BY <1>5, <1>10
  <2>2. words.vr2 = IF box[FS].words.vr2 = OS_OK THEN OS_OK ELSE OS_FAIL
    BY <2>1, Fields
  <2>3. box[FS].words.vr2 = OS_OK <=> from \in written
    BY <1>2, <1>10 DEF IInv, Answered
  <2>4. words.vr2 = OS_OK <=> box[FS].words.vr2 = OS_OK
    BY <2>2, Numbers
  <2> QED BY <1>3, <1>6, <1>8, <1>9, <1>10, <2>3, <2>4
<1>11. CASE control[FS] = "read"
  <2>1. words = box[FS].words
    BY <1>5, <1>11
  <2>2. devices[0].idDriver # 0 => words.vr2 = Len(words.text)
    BY <1>2, <1>11, <2>1 DEF IInv, Answered
  <2> QED BY <1>6, <1>8, <1>9, <1>11, <2>2
<1> QED BY <1>2, <1>10, <1>11

\* A write that succeeds has been written, and one that fails has not.
THEOREM WritesTellTheTruth == Spec => WriteTellsTheTruth
<1>1. IInv /\ [Next]_vars =>
        [\A c \in Clients : Returned(c) /\ request[c] = "write" =>
           (box'[c].words.vr2 = OS_OK <=> c \in written)]_vars
  BY ReturnsTheTruth
<1> QED BY <1>1, Invariance, PTL DEF Spec, WriteTellsTheTruth

\* A read returns as many characters as it says, once the console is registered.
THEOREM ReadsTellTheTruth == Spec => ReadTellsTheTruthLater
<1>1. IInv /\ [Next]_vars =>
        [\A c \in Clients : Returned(c) /\ request[c] = "read" /\ devices[0].idDriver # 0 =>
           box'[c].words.vr2 = Len(box'[c].words.text)]_vars
  BY ReturnsTheTruth
<1> QED BY <1>1, Invariance, PTL DEF Spec, ReadTellsTheTruthLater

=============================================================================
