-------------------------- MODULE ClockServerProofs --------------------------
(***************************************************************************)
(* Theorems about the clock server, for every number of sleepers, every    *)
(* size of its table, every width of an int and every request.             *)
(***************************************************************************)
EXTENDS ClockServer, FiniteSetTheorems, TLAPS

States == {"absent", "running", "receiving", "calling"}
Texts  == {0, 1, ClockVector} \union UNION {Requests[t] : t \in Sleepers}
Boxes  == [src : {NOBODY, HARDWARE_SOURCE} \union Threads, words : Texts]

\* The variables of the threads and of the kernel. Nobody but the clock server is
\* registered for the timer, so nobody else has an interrupt pending.
Types ==
  /\ state \in [Threads -> States]
  /\ peer \in [Threads -> IPC!Sources]
  /\ box \in [Threads -> Boxes]
  /\ box[Clock].src \in {NOBODY, HARDWARE_SOURCE} \union Sleepers
  /\ pending \in [Threads -> BOOLEAN]
  /\ handler \in [{ClockVector} -> {0, Clock}]
  /\ stopped = FALSE
  /\ \A t \in Threads : pending[t] => t = Clock
  /\ control \in [Threads -> {"creating", "registering", "listening", "received", "sleep"}]
  /\ asked \in [Sleepers -> Int] /\ elapsed \in [Sleepers -> Int]

\* Whom each thread may wait for: the root and the sleepers for the clock server
\* only, and the server for no one it has to answer.
Waiting ==
  /\ control[Root] = "creating" /\ state[Root] \in {"running", "receiving"}
  /\ \A t \in Sleepers :
       /\ control[t] = "sleep"
       /\ state[t] \in {"receiving", "calling"} => peer[t] = Clock
  /\ control[Clock] \in {"registering", "listening", "received"}
  /\ state[Clock] # "calling"
  /\ state[Clock] = "absent" => control[Clock] = "registering"
  /\ state[Clock] = "receiving" =>
       /\ control[Clock] = "received"
       /\ peer[Clock] = Source(Len(cuantos))
       /\ ~pending[Clock]

\* The server applies a tick to the table; it has a sleeper's message in its hands.
Scans    == control[Clock] = "received" /\ state[Clock] = "running" /\ FromHardware
Holds(t) == control[Clock] = "received" /\ state[Clock] = "running" /\ box[Clock].src = t

\* The table, and the bounds of the loop.
Table ==
  /\ cuantos \in Seq(Entry) /\ Len(cuantos) <= MaxEntries
  /\ control[Clock] # "received" => cuantos = <<>>
  /\ i \in Nat /\ j \in Nat /\ j < i /\ i <= Len(cuantos) + 1
  /\ ~Scans => i = 1 /\ j = 0
  /\ \A t \in Sleepers : Holds(t) => Len(cuantos) < MaxEntries

\* A sleeper is in the table once, or in the server's hands, if and only if it waits
\* for an answer.
Accounts ==
  /\ \A k, l \in Live : cuantos[k].id = cuantos[l].id => k = l
  /\ \A k \in Live : state[cuantos[k].id] = "receiving"
  /\ \A t \in Sleepers : Holds(t) =>
       state[t] = "receiving" /\ \A k \in Live : cuantos[k].id # t
  /\ \A t \in Sleepers : state[t] = "receiving" =>
       Holds(t) \/ \E k \in Live : cuantos[k].id = t

\* The ticks that have come and are still to be subtracted from an entry.
One(b) == IF b THEN 1 ELSE 0
Due(k) == One(pending[Clock]) + One(Scans /\ k >= i)

\* What has been subtracted from an entry, and what is still to be, has passed: but
\* for the first, partial tick.
Times ==
  /\ \A t \in Sleepers :
       /\ asked[t] \in Requests[t] \union {0}
       /\ elapsed[t] >= -25 /\ elapsed[t] <= asked[t]
       /\ state[t] = "calling" => box[t].words = asked[t]
       /\ Holds(t) =>
            /\ box[Clock].words = asked[t]
            /\ elapsed[t] = asked[t] \/ elapsed[t] >= TickLength * One(pending[Clock]) - 25
  /\ \A k \in Live :
       LET t == cuantos[k].id
       IN  asked[t] < HalfRange =>
             \/ elapsed[t] = asked[t]
             \/ elapsed[t] + cuantos[k].amount >= asked[t] + TickLength * Due(k) - 25

IInv == Types /\ Waiting /\ Table /\ Accounts /\ Times

-----------------------------------------------------------------------------

\* The tids are numbers of their own, apart from those that are not threads.
LEMMA Tids ==
  /\ Root \in Threads /\ Clock \in Threads /\ Sleepers \subseteq Threads
  /\ Threads = {Root, Clock} \union Sleepers
  /\ Root # Clock /\ Root \notin Sleepers /\ Clock \notin Sleepers
  /\ \A t \in Threads : t \in Nat /\ t > 2
  /\ NOBODY = 0 /\ HARDWARE_SOURCE = 1 /\ ANY_SOURCE = 2
  /\ IPC!Sources = {0, 1, 2} \union Threads
BY ClockServerAssumption DEF Threads, NOBODY, HARDWARE_SOURCE, ANY_SOURCE, IPC!Sources

LEMMA Numbers ==
  /\ MaxEntries \in Nat /\ MaxEntries >= 1 /\ HalfRange \in Nat /\ HalfRange >= 1
  /\ TickLength = 50
  /\ \A t \in Sleepers : \A ms \in Requests[t] : ms \in Nat /\ ms < 2 * HalfRange
BY ClockServerAssumption DEF TickLength

\* A number of milliseconds as an int is an amount of the table.
LEMMA AmountsFit ==
  ASSUME NEW ms \in Nat, ms < 2 * HalfRange
  PROVE  /\ ToInt(ms) \in -HalfRange .. HalfRange - 1
         /\ ms < HalfRange => ToInt(ms) = ms
BY Numbers DEF ToInt

-----------------------------------------------------------------------------
(* What the calls of the server do.                                        *)

\* A receive takes the call of a sleeper, if there is room and no tick is pending,
\* or the pending tick, or blocks.
LEMMA ServerReceives ==
  ASSUME Types, Waiting, state[Clock] = "running",
         NEW src \in {HARDWARE_SOURCE, ANY_SOURCE}, IPC!Receive(Clock, src)
  PROVE  /\ handler' = handler /\ stopped' = stopped
         /\ \/ /\ src = ANY_SOURCE /\ ~pending[Clock] /\ pending' = pending /\ peer' = peer
               /\ \E s \in Sleepers :
                    /\ state[s] = "calling"
                    /\ state' = [state EXCEPT ![s] = "receiving"]
                    /\ box' = [box EXCEPT ![Clock] = [src |-> s, words |-> box[s].words]]
            \/ /\ pending[Clock] /\ pending' = [pending EXCEPT ![Clock] = FALSE]
               /\ state' = state /\ peer' = peer
               /\ \E n \in {ClockVector, 1} :
                    box' = [box EXCEPT ![Clock] = [src |-> HARDWARE_SOURCE, words |-> n]]
            \/ /\ ~pending[Clock] /\ pending' = pending
               /\ state' = [state EXCEPT ![Clock] = "receiving"]
               /\ peer' = [peer EXCEPT ![Clock] = src]
               /\ box' = [box EXCEPT ![Clock] = [src |-> NOBODY, words |-> 0]]
<1>1. handler' = handler /\ stopped' = stopped
  BY DEF IPC!Receive
<1>2. ASSUME NEW s \in Threads, src = s \/ (src = ANY_SOURCE /\ ~pending[Clock]),
             IPC!Take(Clock, s)
      PROVE  /\ src = ANY_SOURCE /\ ~pending[Clock] /\ pending' = pending /\ peer' = peer
             /\ s \in Sleepers /\ state[s] = "calling"
             /\ state' = [state EXCEPT ![s] = "receiving"]
             /\ box' = [box EXCEPT ![Clock] = [src |-> s, words |-> box[s].words]]
  <2>1. src # s
    BY Tids
  <2>2. state[s] = "calling"
    BY <1>2 DEF IPC!Take, IPC!SendsTo, Types, States
  <2>3. s \in Sleepers
    BY <1>2, <2>2, Tids DEF Waiting
  <2>4. peer' = peer
    BY <1>2, <2>2 DEF IPC!Take, Types
  <2>5. state' = [state EXCEPT ![s] = "receiving"]
    BY <1>2, <2>2 DEF IPC!Take, Types
  <2> QED BY <1>2, <2>1, <2>2, <2>3, <2>4, <2>5 DEF IPC!Take
<1>3. ASSUME IPC!TakeInterrupt(Clock)
      PROVE  /\ pending[Clock] /\ pending' = [pending EXCEPT ![Clock] = FALSE]
             /\ state' = state /\ peer' = peer
             /\ \E n \in {ClockVector, 1} :
                  box' = [box EXCEPT ![Clock] = [src |-> HARDWARE_SOURCE, words |-> n]]
  BY <1>3 DEF IPC!TakeInterrupt
<1>4. ASSUME IPC!Block(Clock, src)
      PROVE  /\ ~pending[Clock] /\ pending' = pending
             /\ state' = [state EXCEPT ![Clock] = "receiving"]
             /\ peer' = [peer EXCEPT ![Clock] = src]
             /\ box' = [box EXCEPT ![Clock] = [src |-> NOBODY, words |-> 0]]
  BY <1>4 DEF IPC!Block
<1> QED BY <1>1, <1>2, <1>3, <1>4 DEF IPC!Receive

\* The statements before a receive leave a table that accounts for every sleeper who
\* waits and is not at fault by more than the first tick.
Settled(entries) ==
  /\ entries \in Seq(Entry) /\ Len(entries) <= MaxEntries
  /\ \A k, l \in DOMAIN entries : entries[k].id = entries[l].id => k = l
  /\ \A k \in DOMAIN entries : state[entries[k].id] = "receiving"
  /\ \A t \in Sleepers : state[t] = "receiving" => \E k \in DOMAIN entries : entries[k].id = t
  /\ \A k \in DOMAIN entries :
       LET t == entries[k].id
       IN  asked[t] < HalfRange =>
             \/ elapsed[t] = asked[t]
             \/ elapsed[t] + entries[k].amount >= asked[t] + TickLength * One(pending[Clock]) - 25

LEMMA ListenStep ==
  ASSUME IInv, state[Clock] = "running", NEW entries, Settled(entries), Listen(entries)
  PROVE  IInv'
<1>1. /\ cuantos' = entries /\ i' = 1 /\ j' = 0
      /\ control' = [control EXCEPT ![Clock] = "received"]
      /\ asked' = asked /\ elapsed' = elapsed
      /\ IPC!Receive(Clock, Source(Len(entries)))
  BY DEF Listen, Goto, time
<1>2. Source(Len(entries)) \in {HARDWARE_SOURCE, ANY_SOURCE}
  BY DEF Source
<1>3. control'[Clock] = "received" /\ control' \in [Threads -> {"creating", "registering", "listening", "received", "sleep"}]
      /\ \A t \in Threads \ {Clock} : control'[t] = control[t]
  BY <1>1, Tids DEF IInv, Types
<1>4. /\ entries \in Seq(Entry) /\ Len(entries) \in Nat /\ DOMAIN entries = 1 .. Len(entries)
      /\ Live' = DOMAIN entries
  <2>1. /\ entries \in Seq(Entry) /\ Len(entries) \in Nat
        /\ DOMAIN entries = 1 .. Len(entries)
    BY DEF Settled
  <2>2. Live' = {k \in DOMAIN entries : k <= 0 \/ k >= 1}
    BY <1>1 DEF Live
  <2> QED BY <2>1, <2>2
<1>5. \A k \in DOMAIN entries : entries[k].id \in Sleepers /\ entries[k].amount \in Int
  <2>1. \A k \in DOMAIN entries : entries[k] \in Entry
    BY <1>4
  <2> QED BY <2>1, Numbers DEF Entry
<1> DEFINE Rest == Waiting' /\ Table' /\ Accounts' /\ Times'
<1>6. ASSUME Source(Len(entries)) = ANY_SOURCE, ~pending[Clock], pending' = pending, peer' = peer,
             NEW s \in Sleepers, state[s] = "calling",
             state' = [state EXCEPT ![s] = "receiving"],
             box' = [box EXCEPT ![Clock] = [src |-> s, words |-> box[s].words]],
             handler' = handler, stopped' = stopped
      PROVE  IInv'
  <2>1. /\ s \in Threads /\ s # Clock /\ s # Root /\ s > 2 /\ box[s].words \in Texts
        /\ state'[s] = "receiving" /\ state'[Clock] = "running"
        /\ \A t \in Threads \ {s} : state'[t] = state[t]
        /\ box'[Clock].src = s /\ box'[Clock].words = box[s].words
        /\ \A t \in Threads \ {Clock} : box'[t] = box[t]
    BY <1>6, Tids DEF IInv, Types, Boxes
  <2>2. Types'
    BY <1>1, <1>3, <1>6, <2>1, Tids DEF IInv, Types, States, Boxes
  <2>3. Waiting'
    BY <1>1, <1>3, <1>6, <2>1, Tids DEF IInv, Waiting
  <2>4. \A t \in Sleepers : Holds(t)' <=> t = s
    BY <1>3, <2>1 DEF Holds
  <2>5. ~Scans'
    BY <2>1, Tids DEF Scans, FromHardware
  <2>6. Table'
    BY <1>1, <1>3, <1>4, <1>6, <2>5, Tids, Numbers DEF Table, Settled, Source
  <2>7. Accounts'
    <3>1. \A k \in DOMAIN entries : state[entries[k].id] = "receiving" /\ entries[k].id # s
      BY <1>6 DEF Settled
    <3>2. \A k \in Live' : state'[cuantos'[k].id] = "receiving" /\ cuantos'[k].id # s
      BY <1>1, <1>4, <1>5, <2>1, <3>1, Tids
    <3>3. \A k, l \in Live' : cuantos'[k].id = cuantos'[l].id => k = l
      BY <1>1, <1>4 DEF Settled
    <3>4. \A t \in Sleepers : state'[t] = "receiving" =>
            t = s \/ \E k \in Live' : cuantos'[k].id = t
      BY <1>1, <1>4, <2>1, Tids DEF Settled
    <3> QED BY <2>1, <2>4, <3>2, <3>3, <3>4 DEF Accounts
  <2>8. Times'
    <3>1. \A k \in DOMAIN entries : Due(k)' = 0
      BY <1>6, <2>5 DEF Due, One
    <3>2. One(pending[Clock]) = 0 /\ One(pending'[Clock]) = 0
      BY <1>6 DEF One
    <3> QED BY <1>1, <1>4, <1>5, <1>6, <2>1, <2>4, <3>1, <3>2, Tids, Numbers
            DEF Times, IInv, Settled
  <2> QED BY <2>2, <2>3, <2>6, <2>7, <2>8 DEF IInv
<1>7. ASSUME pending[Clock], pending' = [pending EXCEPT ![Clock] = FALSE],
             state' = state, peer' = peer, NEW n \in {ClockVector, 1},
             box' = [box EXCEPT ![Clock] = [src |-> HARDWARE_SOURCE, words |-> n]],
             handler' = handler, stopped' = stopped
      PROVE  IInv'
  <2>1. /\ box'[Clock].src = 1 /\ \A t \in Threads \ {Clock} : box'[t] = box[t]
        /\ ~pending'[Clock] /\ \A t \in Threads \ {Clock} : pending'[t] = pending[t]
    BY <1>7, Tids DEF IInv, Types
  <2>2. Types'
    BY <1>1, <1>3, <1>7, <2>1, Tids DEF IInv, Types, Boxes, Texts
  <2>3. Waiting'
    BY <1>1, <1>3, <1>7, <2>1, Tids DEF IInv, Waiting
  <2>4. \A t \in Sleepers : ~Holds(t)'
    BY <2>1, Tids DEF Holds
  <2>5. Scans'
    BY <1>3, <1>7, <2>1 DEF Scans, FromHardware
  <2>6. Table'
    BY <1>1, <1>3, <1>4, <2>4, <2>5, Numbers DEF Table, Settled
  <2>7. Accounts'
    BY <1>1, <1>4, <1>5, <1>7, <2>4, Tids DEF Accounts, Settled
  <2>8. Times'
    <3>1. \A k \in DOMAIN entries : Due(k)' = 1
      BY <1>1, <1>4, <2>1, <2>5 DEF Due, One
    <3>2. One(pending[Clock]) = 1
      BY <1>7 DEF One
    <3>3. \A k \in Live' :
            LET t == cuantos'[k].id
            IN  asked'[t] < HalfRange =>
                  \/ elapsed'[t] = asked'[t]
                  \/ elapsed'[t] + cuantos'[k].amount >= asked'[t] + TickLength * Due(k)' - 25
      BY <1>1, <1>4, <3>1, <3>2 DEF Settled
    <3>4. \A t \in Sleepers :
            /\ asked'[t] \in Requests[t] \union {0}
            /\ elapsed'[t] >= -25 /\ elapsed'[t] <= asked'[t]
            /\ state'[t] = "calling" => box'[t].words = asked'[t]
      BY <1>1, <1>7, <2>1, Tids DEF Times, IInv
    <3> QED BY <2>4, <3>3, <3>4 DEF Times
  <2> QED BY <2>2, <2>3, <2>6, <2>7, <2>8 DEF IInv
<1>8. ASSUME ~pending[Clock], pending' = pending,
             state' = [state EXCEPT ![Clock] = "receiving"],
             peer' = [peer EXCEPT ![Clock] = Source(Len(entries))],
             box' = [box EXCEPT ![Clock] = [src |-> NOBODY, words |-> 0]],
             handler' = handler, stopped' = stopped
      PROVE  IInv'
  <2>1. /\ \A t \in Threads \ {Clock} : box'[t] = box[t] /\ state'[t] = state[t] /\ peer'[t] = peer[t]
        /\ state'[Clock] = "receiving" /\ peer'[Clock] = Source(Len(entries))
    BY <1>8, Tids DEF IInv, Types
  <2>2. Types'
    BY <1>1, <1>2, <1>3, <1>8, <2>1, Tids DEF IInv, Types, Boxes, Texts, States
  <2>3. Waiting'
    BY <1>1, <1>3, <1>8, <2>1, Tids DEF IInv, Waiting
  <2>4. (\A t \in Sleepers : ~Holds(t)') /\ ~Scans'
    BY <2>1 DEF Holds, Scans
  <2>6. Table'
    BY <1>1, <1>3, <1>4, <2>4, Numbers DEF Table, Settled
  <2>7. Accounts'
    BY <1>1, <1>4, <1>5, <2>1, <2>4, Tids DEF Accounts, Settled
  <2>8. Times'
    <3>1. \A k \in DOMAIN entries : Due(k)' = 0
      BY <1>8, <2>4 DEF Due, One
    <3>2. One(pending[Clock]) = 0
      BY <1>8 DEF One
    <3> QED BY <1>1, <1>4, <1>5, <1>8, <2>1, <2>4, <3>1, <3>2, Tids, Numbers
            DEF Times, IInv, Settled
  <2> QED BY <2>2, <2>3, <2>6, <2>7, <2>8 DEF IInv
<1> QED BY <1>1, <1>2, <1>6, <1>7, <1>8, ServerReceives DEF IInv

-----------------------------------------------------------------------------
(* The server's steps.                                                     *)

LEMMA FirstListenStep == ASSUME IInv, FirstListen PROVE IInv'
<1>1. /\ control[Clock] = "listening" /\ state[Clock] = "running" /\ Listen(cuantos)
      /\ cuantos = <<>>
  BY DEF FirstListen, At, IPC!Running, IInv, Table
<1>2. Settled(cuantos)
  <2>1. Live = {} /\ \A t \in Sleepers : ~Holds(t)
    BY <1>1 DEF Holds, Live
  <2>2. \A t \in Sleepers : state[t] # "receiving"
    BY <2>1 DEF IInv, Accounts
  <2> QED BY <1>1, <2>2, Numbers DEF Settled
<1> QED BY <1>1, <1>2, ListenStep

LEMMA InsertStep == ASSUME IInv, Insert PROVE IInv'
<1> DEFINE s == box[Clock].src
           e == [id |-> s, amount |-> ToInt(box[Clock].words)]
<1>1. /\ control[Clock] = "received" /\ state[Clock] = "running" /\ ~FromHardware
      /\ Listen(Append(cuantos, e))
  BY DEF Insert, At, IPC!Running
<1>2. s \in Sleepers
  BY <1>1, Tids DEF IInv, Types, FromHardware
<1>3. Holds(s) /\ ~Scans
  BY <1>1 DEF Holds, Scans
<1>4. /\ box[Clock].words = asked[s] /\ asked[s] \in Nat /\ asked[s] < 2 * HalfRange
      /\ elapsed[s] \in Int
      /\ elapsed[s] = asked[s] \/ elapsed[s] >= TickLength * One(pending[Clock]) - 25
  BY <1>2, <1>3, Numbers DEF IInv, Times, Types
<1>5. /\ e \in Entry
      /\ asked[s] < HalfRange => e.amount = asked[s]
  BY <1>2, <1>4, AmountsFit DEF Entry
<1>6. /\ cuantos \in Seq(Entry) /\ Len(cuantos) < MaxEntries /\ Live = DOMAIN cuantos
  <2>1. cuantos \in Seq(Entry) /\ Len(cuantos) < MaxEntries /\ i = 1 /\ j = 0
    BY <1>2, <1>3 DEF IInv, Table
  <2>2. Live = {k \in DOMAIN cuantos : k <= 0 \/ k >= 1}
    BY <2>1 DEF Live
  <2>3. DOMAIN cuantos = 1 .. Len(cuantos) /\ Len(cuantos) \in Nat
    BY <2>1
  <2>4. \A k \in DOMAIN cuantos : k >= 1
    BY <2>3
  <2> QED BY <2>1, <2>2, <2>4
<1> DEFINE new == Append(cuantos, e)
<1> HIDE DEF s, e
<1>7. /\ new \in Seq(Entry) /\ Len(new) = Len(cuantos) + 1 /\ Len(new) <= MaxEntries
      /\ DOMAIN new = 1 .. Len(cuantos) + 1 /\ DOMAIN cuantos = 1 .. Len(cuantos)
      /\ new[Len(cuantos) + 1] = e
      /\ \A k \in DOMAIN cuantos : new[k] = cuantos[k]
      /\ Len(cuantos) \in Nat
  <2>1. cuantos \in Seq(Entry) /\ e \in Entry /\ Len(cuantos) \in Nat
    BY <1>5, <1>6
  <2>2. new \in Seq(Entry) /\ Len(new) = Len(cuantos) + 1
    BY <2>1
  <2>3. DOMAIN new = 1 .. Len(cuantos) + 1 /\ DOMAIN cuantos = 1 .. Len(cuantos)
    BY <2>1, <2>2
  <2>4. new[Len(cuantos) + 1] = e /\ \A k \in DOMAIN cuantos : new[k] = cuantos[k]
    BY <2>1, <2>3
  <2> QED BY <1>6, <2>1, <2>2, <2>3, <2>4, Numbers
<1>8. e.id = s
  BY DEF e
<1> HIDE DEF new
<1>9. Settled(new)
  <2>1. \A k, l \in DOMAIN new : new[k].id = new[l].id => k = l
    BY <1>2, <1>3, <1>6, <1>7, <1>8 DEF IInv, Accounts
  <2>2. \A k \in DOMAIN new : state[new[k].id] = "receiving"
    BY <1>2, <1>3, <1>6, <1>7, <1>8 DEF IInv, Accounts
  <2>3. \A t \in Sleepers : state[t] = "receiving" => \E k \in DOMAIN new : new[k].id = t
    <3> SUFFICES ASSUME NEW t \in Sleepers, state[t] = "receiving"
                 PROVE  \E k \in DOMAIN new : new[k].id = t
      OBVIOUS
    <3>1. Holds(t) => t = s
      BY DEF Holds, s
    <3> QED BY <1>6, <1>7, <1>8, <3>1 DEF IInv, Accounts
  <2>4. ASSUME NEW k \in DOMAIN cuantos, asked[cuantos[k].id] < HalfRange
        PROVE  LET t == cuantos[k].id
               IN  \/ elapsed[t] = asked[t]
                   \/ elapsed[t] + cuantos[k].amount >= asked[t] + TickLength * One(pending[Clock]) - 25
    <3>1. Due(k) = One(pending[Clock])
      BY <1>3 DEF Due, One
    <3> QED BY <1>6, <2>4, <3>1 DEF IInv, Times
  <2>5. asked[s] < HalfRange =>
             \/ elapsed[s] = asked[s]
             \/ elapsed[s] + e.amount >= asked[s] + TickLength * One(pending[Clock]) - 25
    BY <1>4, <1>5, Numbers DEF One
  <2>6. ASSUME NEW k \in DOMAIN new, asked[new[k].id] < HalfRange
        PROVE  LET t == new[k].id
               IN  \/ elapsed[t] = asked[t]
                   \/ elapsed[t] + new[k].amount >= asked[t] + TickLength * One(pending[Clock]) - 25
    <3>1. CASE k = Len(cuantos) + 1
      BY <1>7, <1>8, <2>5, <2>6, <3>1
    <3>2. CASE k \in DOMAIN cuantos
      BY <1>7, <2>4, <2>6, <3>2
    <3> QED BY <1>7, <3>1, <3>2
  <2> QED BY <1>7, <2>1, <2>2, <2>3, <2>6 DEF Settled
<1> QED BY <1>1, <1>9, ListenStep DEF new

LEMMA EndScanStep == ASSUME IInv, EndScan PROVE IInv'
<1>1. /\ control[Clock] = "received" /\ state[Clock] = "running" /\ FromHardware
      /\ i > Len(cuantos) /\ Listen(SubSeq(cuantos, 1, j))
  BY DEF EndScan, At, IPC!Running
<1>2. /\ cuantos \in Seq(Entry) /\ Len(cuantos) <= MaxEntries /\ Len(cuantos) \in Nat
      /\ i \in Nat /\ j \in Nat /\ j < i /\ i = Len(cuantos) + 1
  BY <1>1 DEF IInv, Table
<1> DEFINE new == SubSeq(cuantos, 1, j)
<1>3. /\ new \in Seq(Entry) /\ Len(new) = j /\ Len(new) <= MaxEntries /\ DOMAIN new = 1 .. j
      /\ \A k \in 1 .. j : new[k] = cuantos[k]
  BY <1>2, Numbers
<1>4. Live = 1 .. j
  BY <1>2 DEF Live
<1>5. \A t \in Sleepers : ~Holds(t)
  BY <1>1, Tids DEF Holds, FromHardware
<1> HIDE DEF new
<1>6. Settled(new)
  <2>1. \A k, l \in DOMAIN new : new[k].id = new[l].id => k = l
    BY <1>3, <1>4 DEF IInv, Accounts
  <2>2. \A k \in DOMAIN new : state[new[k].id] = "receiving"
    BY <1>3, <1>4 DEF IInv, Accounts
  <2>3. \A t \in Sleepers : state[t] = "receiving" => \E k \in DOMAIN new : new[k].id = t
    BY <1>3, <1>4, <1>5 DEF IInv, Accounts
  <2>4. ASSUME NEW k \in 1 .. j, asked[cuantos[k].id] < HalfRange
        PROVE  LET t == cuantos[k].id
               IN  \/ elapsed[t] = asked[t]
                   \/ elapsed[t] + cuantos[k].amount >= asked[t] + TickLength * One(pending[Clock]) - 25
    <3>1. Due(k) = One(pending[Clock])
      BY <1>2 DEF Due, One
    <3> QED BY <1>4, <2>4, <3>1 DEF IInv, Times
  <2> QED BY <1>3, <2>1, <2>2, <2>3, <2>4 DEF Settled
<1> QED BY <1>1, <1>6, ListenStep DEF new

\* What the subtraction of a tick leaves is an int, and for an entry that stays no
\* less than the difference.
LEMMA RemaindersFit ==
  ASSUME NEW amount \in -HalfRange .. HalfRange - 1, NEW rest \in Remainders(amount)
  PROVE  /\ rest \in Int
         /\ rest > 0 => rest \in -HalfRange .. HalfRange - 1
         /\ rest = amount - TickLength \/ rest = amount - TickLength + 2 * HalfRange
BY Numbers DEF Remainders

LEMMA KeepEntryStep == ASSUME IInv, KeepEntry PROVE IInv'
<1>1. /\ control[Clock] = "received" /\ state[Clock] = "running" /\ FromHardware
      /\ i <= Len(cuantos)
  BY DEF KeepEntry, Scanning, At, IPC!Running
<1>2. /\ cuantos \in Seq(Entry) /\ Len(cuantos) <= MaxEntries /\ Len(cuantos) \in Nat
      /\ DOMAIN cuantos = 1 .. Len(cuantos)
      /\ i \in Nat /\ j \in Nat /\ j < i
  BY DEF IInv, Table
<1>3. i \in DOMAIN cuantos /\ j + 1 \in DOMAIN cuantos /\ i \in Live
  BY <1>1, <1>2 DEF Live
<1>4. cuantos[i] \in Entry /\ cuantos[i].id \in Sleepers
      /\ cuantos[i].amount \in -HalfRange .. HalfRange - 1
  <2>1. cuantos[i] \in Entry
    BY <1>2, <1>3
  <2> QED BY <2>1 DEF Entry
<1>5. PICK rest \in Remainders(cuantos[i].amount) :
        /\ rest > 0
        /\ cuantos' = [cuantos EXCEPT ![j + 1] = [id |-> cuantos[i].id, amount |-> rest]]
  BY DEF KeepEntry
<1>6. /\ i' = i + 1 /\ j' = j + 1 /\ control' = control /\ asked' = asked /\ elapsed' = elapsed
      /\ state' = state /\ peer' = peer /\ box' = box /\ pending' = pending
      /\ handler' = handler /\ stopped' = stopped
  BY DEF KeepEntry, ipc, time
<1> DEFINE e == [id |-> cuantos[i].id, amount |-> rest]
<1>7. e \in Entry /\ e.id = cuantos[i].id /\ e.amount = rest
  BY <1>4, <1>5, RemaindersFit DEF Entry
<1>8. cuantos' = [cuantos EXCEPT ![j + 1] = e]
  BY <1>5
<1> HIDE DEF e
<1>9. /\ cuantos' \in Seq(Entry) /\ Len(cuantos') = Len(cuantos)
      /\ DOMAIN cuantos' = 1 .. Len(cuantos)
      /\ cuantos'[j + 1] = e
      /\ \A k \in DOMAIN cuantos : k # j + 1 => cuantos'[k] = cuantos[k]
  BY <1>2, <1>3, <1>7, <1>8
<1> DEFINE From(k) == IF k = j + 1 THEN i ELSE k
<1>10. Live' = {k \in 1 .. Len(cuantos) : k <= j + 1 \/ k >= i + 1}
  BY <1>6, <1>9 DEF Live
<1>11. \A k \in Live' :
         /\ k \in DOMAIN cuantos /\ From(k) \in Live /\ cuantos'[k].id = cuantos[From(k)].id
         /\ k # j + 1 => cuantos'[k] = cuantos[k]
  BY <1>2, <1>3, <1>7, <1>9, <1>10 DEF Live
<1>12. /\ Scans /\ Scans' /\ FromHardware'
       /\ \A t \in Sleepers : ~Holds(t) /\ ~Holds(t)'
  BY <1>1, <1>6, Tids DEF Scans, Holds, FromHardware
<1>13. Types'
  BY <1>6 DEF IInv, Types
<1>14. Waiting'
  BY <1>6, <1>9 DEF IInv, Waiting
<1>15. Table'
  BY <1>1, <1>2, <1>6, <1>9, <1>12 DEF IInv, Table
<1>16. Accounts'
  <2>1. \A k, l \in Live' : cuantos'[k].id = cuantos'[l].id => k = l
    <3> SUFFICES ASSUME NEW k \in Live', NEW l \in Live', cuantos'[k].id = cuantos'[l].id
                 PROVE  k = l
      OBVIOUS
    <3>1. From(k) = From(l)
      BY <1>11 DEF IInv, Accounts
    <3> QED BY <1>2, <1>10, <3>1
  <2>2. \A k \in Live' : state'[cuantos'[k].id] = "receiving"
    BY <1>6, <1>11 DEF IInv, Accounts
  <2>3. ASSUME NEW t \in Sleepers, state'[t] = "receiving"
        PROVE  \E k \in Live' : cuantos'[k].id = t
    <3>1. PICK k \in Live : cuantos[k].id = t
      BY <1>6, <1>12, <2>3 DEF IInv, Accounts
    <3>2. CASE k = i
      BY <1>3, <1>7, <1>9, <1>10, <3>1, <3>2, <1>2
    <3>3. CASE k # i
      <4>1. k \in 1 .. Len(cuantos) /\ (k <= j \/ k >= i + 1)
        BY <1>2, <3>3 DEF Live
      <4>2. k \in Live' /\ cuantos'[k] = cuantos[k]
        BY <1>2, <1>9, <1>10, <4>1
      <4> QED BY <3>1, <4>2
    <3> QED BY <3>2, <3>3
  <2> QED BY <1>12, <2>1, <2>2, <2>3 DEF Accounts
<1>17. Times'
  <2>1. ASSUME NEW k \in Live', asked'[cuantos'[k].id] < HalfRange
        PROVE  LET t == cuantos'[k].id
               IN  \/ elapsed'[t] = asked'[t]
                   \/ elapsed'[t] + cuantos'[k].amount >= asked'[t] + TickLength * Due(k)' - 25
    <3>1. CASE k = j + 1
      <4>1. Due(i) = One(pending[Clock]) + 1 /\ Due(k)' = One(pending[Clock])
        BY <1>2, <1>6, <1>12, <3>1 DEF Due, One
      <4>2. rest >= cuantos[i].amount - TickLength
        BY <1>4, <1>5, RemaindersFit, Numbers
      <4>3. /\ cuantos'[k].id = cuantos[i].id /\ cuantos'[k].amount = rest
            /\ cuantos[i].id \in Sleepers /\ cuantos[i].amount \in Int
            /\ rest \in Int
        BY <1>4, <1>5, <1>7, <1>9, <3>1, RemaindersFit, Numbers
      <4>4. LET t == cuantos[i].id
            IN  \/ elapsed[t] = asked[t]
                \/ elapsed[t] + cuantos[i].amount >= asked[t] + TickLength * Due(i) - 25
        BY <1>3, <1>6, <2>1, <4>3 DEF IInv, Times
      <4>5. elapsed[cuantos[i].id] \in Int /\ asked[cuantos[i].id] \in Int
        BY <4>3 DEF IInv, Types
      <4>6. One(pending[Clock]) \in Int
        BY DEF One
      <4> QED BY <1>6, <4>1, <4>2, <4>3, <4>4, <4>5, <4>6, Numbers
    <3>2. CASE k # j + 1
      <4>1. k \in Live /\ cuantos'[k] = cuantos[k]
        BY <1>11, <3>2
      <4>2. Due(k)' = Due(k)
        BY <1>2, <1>6, <1>10, <1>12, <3>2 DEF Due
      <4> QED BY <1>6, <2>1, <4>1, <4>2 DEF IInv, Times
    <3> QED BY <3>1, <3>2
  <2>2. \A t \in Sleepers :
          /\ asked'[t] \in Requests[t] \union {0}
          /\ elapsed'[t] >= -25 /\ elapsed'[t] <= asked'[t]
          /\ state'[t] = "calling" => box'[t].words = asked'[t]
    BY <1>6 DEF IInv, Times
  <2> QED BY <1>12, <2>1, <2>2 DEF Times
<1> QED BY <1>13, <1>14, <1>15, <1>16, <1>17 DEF IInv

\* The thread woken waits for the server, so that the send does not block.
LEMMA WakeEntryStep ==
  ASSUME IInv, WakeEntry
  PROVE  /\ IInv'
         /\ i \in Live /\ Due(i) >= 1
         /\ \E rest \in Remainders(cuantos[i].amount) : rest <= 0
         /\ state' = [state EXCEPT ![cuantos[i].id] = "running"]
<1> DEFINE s == cuantos[i].id
<1>1. /\ control[Clock] = "received" /\ state[Clock] = "running" /\ FromHardware
      /\ i <= Len(cuantos)
  BY DEF WakeEntry, Scanning, At, IPC!Running
<1>2. /\ cuantos \in Seq(Entry) /\ Len(cuantos) <= MaxEntries /\ Len(cuantos) \in Nat
      /\ DOMAIN cuantos = 1 .. Len(cuantos)
      /\ i \in Nat /\ j \in Nat /\ j < i
  BY DEF IInv, Table
<1>3. i \in DOMAIN cuantos /\ i \in Live
  BY <1>1, <1>2 DEF Live
<1>4. s \in Sleepers /\ state[s] = "receiving" /\ peer[s] = Clock
  <2>1. cuantos[i] \in Entry
    BY <1>2, <1>3
  <2>2. s \in Sleepers
    BY <2>1 DEF Entry
  <2> QED BY <1>3, <2>2 DEF IInv, Accounts, Waiting
<1>5. s \in Threads /\ s # Clock /\ s # Root
  BY <1>4, Tids
<1> HIDE DEF s
<1>6. /\ i' = i + 1 /\ j' = j /\ control' = control /\ cuantos' = cuantos
      /\ asked' = [asked EXCEPT ![s] = 0] /\ elapsed' = [elapsed EXCEPT ![s] = 0]
      /\ IPC!Send(Clock, s, 0)
  BY DEF WakeEntry, s
<1>7. IPC!Present(s) /\ IPC!WaitsFor(s, Clock)
  BY <1>4, <1>5 DEF IPC!Present, IPC!WaitsFor
<1>8. /\ IPC!Give(Clock, s, 0, "running")
      /\ pending' = pending /\ handler' = handler /\ stopped' = stopped
  BY <1>6, <1>7 DEF IPC!Send, IPC!Offer
<1>9. /\ state' = [state EXCEPT ![s] = "running"]
      /\ peer' = [peer EXCEPT ![s] = 0, ![Clock] = 0]
      /\ box' = [box EXCEPT ![Clock] = [src |-> NOBODY, words |-> 0],
                            ![s] = [src |-> Clock, words |-> 0]]
  BY <1>1, <1>5, <1>8 DEF IPC!Give, IInv, Types, NOBODY
<1>10. /\ \A t \in Threads \ {s} : state'[t] = state[t]
       /\ state'[s] = "running"
       /\ \A t \in Threads \ {s, Clock} : box'[t] = box[t] /\ peer'[t] = peer[t]
       /\ box'[Clock].src = 0
       /\ \A t \in Sleepers \ {s} : asked'[t] = asked[t] /\ elapsed'[t] = elapsed[t]
       /\ asked'[s] = 0 /\ elapsed'[s] = 0
  BY <1>4, <1>5, <1>6, <1>9, Tids DEF IInv, Types
<1>11. Types'
  BY <1>4, <1>5, <1>6, <1>8, <1>9, <1>10, Tids DEF IInv, Types, Boxes, Texts, States
<1>12. Waiting'
  BY <1>1, <1>4, <1>5, <1>6, <1>10, Tids DEF IInv, Waiting
<1>13. /\ Scans /\ Scans'
       /\ \A t \in Sleepers : ~Holds(t) /\ ~Holds(t)'
  BY <1>1, <1>5, <1>6, <1>10, Tids DEF Scans, Holds, FromHardware
<1>14. Table'
  BY <1>1, <1>2, <1>6, <1>13 DEF IInv, Table
<1>15. \A k \in Live' : k \in Live /\ k # i /\ cuantos[k].id \in Sleepers \ {s}
  <2>1. Live' = {k \in DOMAIN cuantos : k <= j \/ k >= i + 1}
    BY <1>6 DEF Live
  <2>2. \A k \in Live' : k \in Live /\ k # i /\ cuantos[k] \in Entry
    BY <1>2, <2>1 DEF Live
  <2> QED BY <1>3, <2>2 DEF IInv, Accounts, Entry, s
<1>16. Accounts'
  <2>1. \A t \in Sleepers : state'[t] = "receiving" => \E k \in Live' : cuantos'[k].id = t
    <3> SUFFICES ASSUME NEW t \in Sleepers, state'[t] = "receiving"
                 PROVE  \E k \in Live' : cuantos'[k].id = t
      OBVIOUS
    <3>1. t # s /\ state[t] = "receiving"
      BY <1>10, Tids
    <3>2. PICK k \in Live : cuantos[k].id = t
      BY <1>13, <3>1 DEF IInv, Accounts
    <3>3. k # i
      BY <3>1, <3>2 DEF s
    <3>4. k \in Live'
      BY <1>2, <1>6, <3>3 DEF Live
    <3> QED BY <1>6, <3>2, <3>4
  <2> QED BY <1>6, <1>10, <1>13, <1>15, <2>1, Tids DEF IInv, Accounts
<1>17. Times'
  <2>1. ASSUME NEW k \in Live', asked'[cuantos'[k].id] < HalfRange
        PROVE  LET t == cuantos'[k].id
               IN  \/ elapsed'[t] = asked'[t]
                   \/ elapsed'[t] + cuantos'[k].amount >= asked'[t] + TickLength * Due(k)' - 25
    <3>1. k \in Live /\ k \in Nat /\ k # i
      BY <1>2, <1>15 DEF Live
    <3>2. Due(k)' = Due(k)
      BY <1>2, <1>6, <1>8, <1>13, <3>1 DEF Due
    <3> QED BY <1>6, <1>10, <1>15, <2>1, <3>1, <3>2 DEF IInv, Times
  <2>2. \A t \in Sleepers :
          /\ asked'[t] \in Requests[t] \union {0}
          /\ elapsed'[t] >= -25 /\ elapsed'[t] <= asked'[t]
          /\ state'[t] = "calling" => box'[t].words = asked'[t]
    BY <1>5, <1>10, Tids DEF IInv, Times
  <2> QED BY <1>13, <2>1, <2>2 DEF Times
<1>18. Due(i) >= 1
  BY <1>2, <1>13 DEF Due, One
<1> QED BY <1>3, <1>9, <1>11, <1>12, <1>14, <1>16, <1>17, <1>18 DEF IInv, WakeEntry, s

-----------------------------------------------------------------------------
(* The other steps.                                                        *)

\* A step that leaves the table, the messages and the server's state alone, and the
\* sleepers who wait, keeps what the server knows.
LEMMA KnowledgeKept ==
  ASSUME IInv,
         UNCHANGED <<cuantos, i, j, time, box, pending>>,
         control'[Clock] = control[Clock] \/ (control[Clock] # "received" /\ control'[Clock] # "received"),
         state'[Clock] = state[Clock] \/ control[Clock] # "received",
         \A t \in Sleepers : state'[t] = state[t] \/ (state[t] = "absent" /\ state'[t] = "running")
  PROVE  Table' /\ Accounts' /\ Times'
<1>1. /\ cuantos' = cuantos /\ i' = i /\ j' = j /\ asked' = asked /\ elapsed' = elapsed
      /\ box' = box /\ pending' = pending
  BY DEF time
<1>2. /\ Scans' = Scans /\ (\A t \in Sleepers : Holds(t)' = Holds(t)) /\ Live' = Live
  BY <1>1 DEF Scans, Holds, FromHardware, Live
<1>3. \A k \in Live : cuantos[k].id \in Sleepers
  <2>1. \A k \in Live : cuantos[k] \in Entry
    BY DEF IInv, Table, Live
  <2> QED BY <2>1 DEF Entry
<1>4. Table'
  BY <1>1, <1>2 DEF IInv, Table
<1>5. Accounts'
  BY <1>1, <1>2, <1>3 DEF IInv, Accounts
<1>6. Times'
  <2>1. \A k \in Live : Due(k)' = Due(k)
    BY <1>1, <1>2 DEF Due
  <2> QED BY <1>1, <1>2, <1>3, <2>1 DEF IInv, Times
<1> QED BY <1>4, <1>5, <1>6

LEMMA InterruptControlStep == ASSUME IInv, InterruptControl PROVE IInv'
<1>1. /\ control[Clock] = "registering" /\ state[Clock] = "running"
      /\ control' = [control EXCEPT ![Clock] = "listening"]
      /\ handler' = [handler EXCEPT ![ClockVector] = Clock]
      /\ UNCHANGED <<state, peer, box, pending, stopped, cuantos, i, j, time>>
  BY DEF InterruptControl, At, IPC!Running, IPC!Claim, Goto
<1>2. Table' /\ Accounts' /\ Times'
  BY <1>1, KnowledgeKept, Tids DEF IInv, Types
<1>3. Types'
  BY <1>1, Tids DEF IInv, Types, time
<1>4. Waiting'
  BY <1>1, Tids DEF IInv, Waiting, Types
<1> QED BY <1>2, <1>3, <1>4 DEF IInv

LEMMA CreateThreadStep ==
  ASSUME IInv, CreateThread
  PROVE  IInv' /\ \A t \in Sleepers : state[t] = "receiving" => state'[t] # "running"
<1>1. PICK t \in Threads :
        /\ state[t] = "absent" /\ state' = [state EXCEPT ![t] = "running"]
        /\ UNCHANGED <<peer, box, pending, handler, stopped, control, cuantos, i, j, time>>
  BY DEF CreateThread, IPC!Spawn
<1>2. Table' /\ Accounts' /\ Times'
  BY <1>1, KnowledgeKept, Tids DEF IInv, Types, Waiting
<1>3. Types'
  BY <1>1, Tids DEF IInv, Types, time, States
<1>4. Waiting'
  BY <1>1, Tids DEF IInv, Waiting, Types
<1> QED BY <1>1, <1>2, <1>3, <1>4, Tids DEF IInv, Types

LEMMA RootReceivesStep ==
  ASSUME IInv, RootReceives
  PROVE  IInv' /\ \A t \in Sleepers : state'[t] = state[t]
<1>1. /\ state[Root] = "running" /\ IPC!Receive(Root, Clock)
      /\ UNCHANGED <<control, cuantos, i, j, time>>
  BY DEF RootReceives, At, IPC!Running
<1>2. ~IPC!Take(Root, Clock)
  <2>1. state[Clock] \notin {"sending", "calling"}
    BY Tids DEF IInv, Waiting, Types, States
  <2> QED BY <2>1 DEF IPC!Take, IPC!SendsTo
<1>3. IPC!Block(Root, Clock) /\ UNCHANGED <<handler, stopped>>
  BY <1>1, <1>2, Tids DEF IPC!Receive
<1>4. /\ state' = [state EXCEPT ![Root] = "receiving"]
      /\ peer' = [peer EXCEPT ![Root] = Clock]
      /\ box' = [box EXCEPT ![Root] = [src |-> NOBODY, words |-> 0]]
      /\ pending' = pending
  BY <1>3 DEF IPC!Block
<1>5. /\ \A t \in Threads \ {Root} : state'[t] = state[t] /\ peer'[t] = peer[t] /\ box'[t] = box[t]
      /\ state'[Root] = "receiving"
  BY <1>4, Tids DEF IInv, Types
<1>6. Types'
  BY <1>1, <1>3, <1>4, <1>5, Tids DEF IInv, Types, time, States, Boxes, Texts
<1>7. Waiting'
  BY <1>1, <1>4, <1>5, Tids DEF IInv, Waiting
<1>8. /\ cuantos' = cuantos /\ i' = i /\ j' = j /\ asked' = asked /\ elapsed' = elapsed
      /\ control' = control
  BY <1>1 DEF time
<1>9. /\ Scans' = Scans /\ (\A t \in Sleepers : Holds(t)' = Holds(t)) /\ Live' = Live
  BY <1>5, <1>8, Tids DEF Scans, Holds, FromHardware, Live
<1>10. \A k \in Live : cuantos[k].id \in Sleepers
  <2>1. \A k \in Live : cuantos[k] \in Entry
    BY DEF IInv, Table, Live
  <2> QED BY <2>1 DEF Entry
<1>11. Table'
  BY <1>8, <1>9 DEF IInv, Table
<1>12. Accounts'
  BY <1>5, <1>8, <1>9, <1>10, Tids DEF IInv, Accounts
<1>13. Times'
  <2>1. \A k \in Live : Due(k)' = Due(k)
    BY <1>4, <1>8, <1>9 DEF Due
  <2> QED BY <1>4, <1>5, <1>8, <1>9, <1>10, <2>1, Tids DEF IInv, Times
<1> QED BY <1>5, <1>6, <1>7, <1>11, <1>12, <1>13, Tids DEF IInv

LEMMA SleepStep ==
  ASSUME IInv, NEW t \in Sleepers, NEW ms \in Requests[t], Sleep(t, ms)
  PROVE  IInv' /\ \A u \in Sleepers : state[u] = "receiving" => state'[u] = "receiving"
<1>1. /\ state[t] = "running" /\ IPC!Call(t, Clock, ms)
      /\ asked' = [asked EXCEPT ![t] = ms]
      /\ UNCHANGED <<control, cuantos, i, j, pending, handler, stopped>>
  BY DEF Sleep, At, IPC!Running, IPC!Call
<1>2. PICK p \in {0, 25} : elapsed' = [elapsed EXCEPT ![t] = -p]
  <2>1. Passed = {0, 25}
    BY DEF Passed, TickLength
  <2> QED BY <2>1 DEF Sleep
<1>3. t \in Threads /\ t # Clock /\ t # Root /\ t > 2 /\ ms \in Nat /\ ms \in Texts
  BY Tids, Numbers DEF Texts
<1>4. /\ \A u \in Sleepers \ {t} : asked'[u] = asked[u] /\ elapsed'[u] = elapsed[u]
      /\ asked'[t] = ms /\ elapsed'[t] = -p
      /\ asked' \in [Sleepers -> Int] /\ elapsed' \in [Sleepers -> Int]
  BY <1>1, <1>2, <1>3 DEF IInv, Types
<1>5. \A k \in Live : cuantos[k].id \in Sleepers \ {t}
  <2>1. \A k \in Live : cuantos[k] \in Entry
    BY DEF IInv, Table, Live
  <2> QED BY <1>1, <2>1 DEF Entry, IInv, Accounts
<1>6. Live' = Live
  BY <1>1 DEF Live
<1>7. CASE IPC!Give(t, Clock, ms, "receiving")
  <2>1. /\ state[Clock] = "receiving"
        /\ state' = [state EXCEPT ![Clock] = "running", ![t] = "receiving"]
        /\ peer' = [peer EXCEPT ![Clock] = 0, ![t] = Clock]
        /\ box' = [box EXCEPT ![t] = [src |-> NOBODY, words |-> ms],
                              ![Clock] = [src |-> t, words |-> ms]]
        /\ peer[Clock] \in {t, ANY_SOURCE}
    BY <1>7 DEF IPC!Give, IPC!WaitsFor, NOBODY
  <2>2. /\ control[Clock] = "received" /\ peer[Clock] = Source(Len(cuantos)) /\ ~pending[Clock]
        /\ i = 1 /\ j = 0
    BY <2>1 DEF IInv, Waiting, Table, Scans
  <2>3. Len(cuantos) < MaxEntries
    BY <1>3, <2>1, <2>2, Tids DEF Source
  <2>4. /\ state'[t] = "receiving" /\ state'[Clock] = "running"
        /\ \A u \in Threads \ {t, Clock} : state'[u] = state[u] /\ peer'[u] = peer[u] /\ box'[u] = box[u]
        /\ peer'[t] = Clock /\ box'[Clock].src = t /\ box'[Clock].words = ms
    BY <1>3, <2>1, Tids DEF IInv, Types
  <2>5. Types'
    BY <1>1, <1>3, <1>4, <2>1, <2>4, Tids DEF IInv, Types, Boxes, Texts, States
  <2>6. Waiting'
    BY <1>1, <1>3, <2>2, <2>4, Tids DEF IInv, Waiting
  <2>7. /\ ~Scans' /\ \A u \in Sleepers : Holds(u)' <=> u = t
    BY <1>1, <1>3, <2>2, <2>4, Tids DEF Scans, Holds, FromHardware
  <2>8. ~Scans /\ \A u \in Sleepers : ~Holds(u)
    BY <2>1 DEF Scans, Holds
  <2>9. Table'
    BY <1>1, <2>2, <2>3, <2>7 DEF IInv, Table
  <2>10. Accounts'
    BY <1>1, <1>3, <1>5, <1>6, <2>4, <2>7, <2>8, Tids DEF IInv, Accounts
  <2>11. Times'
    <3>1. \A k \in Live : Due(k)' = Due(k)
      BY <1>1, <2>7, <2>8 DEF Due
    <3>2. One(pending[Clock]) = 0 /\ One(pending'[Clock]) = 0
      BY <1>1, <2>2 DEF One
    <3>3. \A u \in Sleepers :
            /\ asked'[u] \in Requests[u] \union {0}
            /\ elapsed'[u] >= -25 /\ elapsed'[u] <= asked'[u]
            /\ state'[u] = "calling" => box'[u].words = asked'[u]
      BY <1>3, <1>4, <2>4, Tids DEF IInv, Times
    <3>4. \A u \in Sleepers : Holds(u)' =>
            /\ box'[Clock].words = asked'[u]
            /\ elapsed'[u] >= TickLength * One(pending'[Clock]) - 25
      BY <1>4, <2>4, <2>7, <3>2, Numbers
    <3>5. \A k \in Live' :
            LET u == cuantos'[k].id
            IN  asked'[u] < HalfRange =>
                  \/ elapsed'[u] = asked'[u]
                  \/ elapsed'[u] + cuantos'[k].amount >= asked'[u] + TickLength * Due(k)' - 25
      BY <1>1, <1>4, <1>5, <1>6, <3>1 DEF IInv, Times
    <3> QED BY <3>3, <3>4, <3>5 DEF Times
  <2> QED BY <2>4, <2>5, <2>6, <2>9, <2>10, <2>11, Tids DEF IInv
<1>8. CASE IPC!Offer(t, Clock, ms, "calling")
  <2>1. /\ state' = [state EXCEPT ![t] = "calling"]
        /\ peer' = [peer EXCEPT ![t] = Clock]
        /\ box' = [box EXCEPT ![t] = [src |-> NOBODY, words |-> ms]]
    BY <1>8 DEF IPC!Offer, NOBODY
  <2>2. /\ state'[t] = "calling" /\ peer'[t] = Clock /\ box'[t].words = ms
        /\ \A u \in Threads \ {t} : state'[u] = state[u] /\ peer'[u] = peer[u] /\ box'[u] = box[u]
    BY <1>3, <2>1, Tids DEF IInv, Types
  <2>3. Types'
    BY <1>1, <1>3, <1>4, <2>1, <2>2, Tids DEF IInv, Types, Boxes, Texts, States
  <2>4. Waiting'
    BY <1>1, <1>3, <2>2, Tids DEF IInv, Waiting
  <2>5. Scans' = Scans /\ \A u \in Sleepers : Holds(u)' = Holds(u)
    BY <1>1, <1>3, <2>2, Tids DEF Scans, Holds, FromHardware
  <2>6. ~Holds(t)
    BY <1>1 DEF IInv, Accounts
  <2>7. Table'
    BY <1>1, <2>5 DEF IInv, Table
  <2>8. Accounts'
    BY <1>1, <1>3, <1>5, <1>6, <2>2, <2>5, <2>6, Tids DEF IInv, Accounts
  <2>9. Times'
    <3>1. \A k \in Live : Due(k)' = Due(k)
      BY <1>1, <2>5 DEF Due
    <3>2. \A u \in Sleepers :
            /\ asked'[u] \in Requests[u] \union {0}
            /\ elapsed'[u] >= -25 /\ elapsed'[u] <= asked'[u]
            /\ state'[u] = "calling" => box'[u].words = asked'[u]
      BY <1>3, <1>4, <2>2, Tids DEF IInv, Times
    <3>3. \A u \in Sleepers : Holds(u)' =>
            /\ box'[Clock].words = asked'[u]
            /\ elapsed'[u] = asked'[u] \/ elapsed'[u] >= TickLength * One(pending'[Clock]) - 25
      BY <1>1, <1>3, <1>4, <2>2, <2>5, <2>6, Tids DEF IInv, Times
    <3>4. \A k \in Live' :
            LET u == cuantos'[k].id
            IN  asked'[u] < HalfRange =>
                  \/ elapsed'[u] = asked'[u]
                  \/ elapsed'[u] + cuantos'[k].amount >= asked'[u] + TickLength * Due(k)' - 25
      BY <1>1, <1>4, <1>5, <1>6, <3>1 DEF IInv, Times
    <3> QED BY <3>2, <3>3, <3>4 DEF Times
  <2> QED BY <1>1, <2>2, <2>3, <2>4, <2>7, <2>8, <2>9, Tids DEF IInv
<1> QED BY <1>1, <1>7, <1>8 DEF IPC!Call

LEMMA TickStep ==
  ASSUME IInv, Tick
  PROVE  IInv' /\ \A t \in Sleepers : state'[t] = state[t]
<1>1. /\ UNCHANGED <<control, cuantos, i, j, asked>>
      /\ elapsed' = [t \in Sleepers |-> IF elapsed[t] + TickLength > asked[t]
                                        THEN asked[t] ELSE elapsed[t] + TickLength]
  BY DEF Tick
<1>2. \A t \in Sleepers :
        /\ asked[t] \in Int /\ elapsed[t] \in Int
        /\ elapsed'[t] \in Int /\ elapsed'[t] >= -25 /\ elapsed'[t] <= asked'[t]
        /\ elapsed'[t] = asked'[t] \/ elapsed'[t] = elapsed[t] + TickLength
        /\ elapsed[t] = asked[t] => elapsed'[t] = asked'[t]
  BY <1>1, Numbers DEF IInv, Types, Times
<1>3. elapsed' \in [Sleepers -> Int]
  BY <1>1, <1>2
<1>4. \A k \in Live : cuantos[k].id \in Sleepers /\ cuantos[k].amount \in Int
  <2>1. \A k \in Live : cuantos[k] \in Entry
    BY DEF IInv, Table, Live
  <2> QED BY <2>1, Numbers DEF Entry
<1>5. Live' = Live
  BY <1>1 DEF Live
\* It is enough that at most one tick more is due than before.
<1>6. ASSUME Types', Waiting',
             \A t \in Sleepers : state'[t] = state[t] /\ box'[t] = box[t],
             ~Scans' => i = 1 /\ j = 0,
             \A t \in Sleepers : Holds(t)' = Holds(t),
             \A t \in Sleepers : Holds(t) => box'[Clock] = box[Clock],
             \A k \in Live : Due(k)' \in Int /\ Due(k) \in Int /\ Due(k)' <= Due(k) + 1
      PROVE  IInv'
  <2>1. Table'
    BY <1>1, <1>6 DEF IInv, Table
  <2>2. Accounts'
    BY <1>1, <1>4, <1>5, <1>6 DEF IInv, Accounts
  <2>3. Times'
    <3>1. \A t \in Sleepers :
            /\ asked'[t] \in Requests[t] \union {0}
            /\ elapsed'[t] >= -25 /\ elapsed'[t] <= asked'[t]
            /\ state'[t] = "calling" => box'[t].words = asked'[t]
      BY <1>1, <1>2, <1>6 DEF IInv, Times
    <3>2. \A t \in Sleepers : Holds(t)' =>
            /\ box'[Clock].words = asked'[t]
            /\ elapsed'[t] = asked'[t] \/ elapsed'[t] >= TickLength * One(pending'[Clock]) - 25
      <4>1. One(pending'[Clock]) \in {0, 1}
        BY DEF One
      <4> QED BY <1>1, <1>2, <1>6, <4>1, Numbers DEF IInv, Times
    <3>3. ASSUME NEW k \in Live, asked[cuantos[k].id] < HalfRange
          PROVE  LET t == cuantos[k].id
                 IN  \/ elapsed'[t] = asked'[t]
                     \/ elapsed'[t] + cuantos[k].amount >= asked'[t] + TickLength * Due(k)' - 25
      <4> DEFINE t == cuantos[k].id
                 a == cuantos[k].amount
                 d == Due(k)
                 e == Due(k)'
      <4>1. elapsed[t] = asked[t] \/ elapsed[t] + a >= asked[t] + 50 * d - 25
        BY <3>3, Numbers DEF IInv, Times
      <4>2. /\ t \in Sleepers /\ a \in Int /\ d \in Int /\ e \in Int /\ e <= d + 1
            /\ asked' = asked
        BY <1>1, <1>4, <1>6
      <4> HIDE DEF t, a, d, e
      <4>3. elapsed'[t] = asked'[t] \/ elapsed'[t] + a >= asked'[t] + 50 * e - 25
        BY <1>2, <4>1, <4>2, Numbers
      <4> QED BY <4>3, Numbers DEF t, a, e
    <3> QED BY <1>1, <1>5, <3>1, <3>2, <3>3 DEF Times
  <2> QED BY <1>6, <2>1, <2>2, <2>3 DEF IInv
<1>7. ASSUME NEW k \in Live
      PROVE  Due(k) \in Int /\ Due(k)' \in Int
  BY DEF Due, One
<1>8. CASE handler[ClockVector] \notin Threads
  <2>1. UNCHANGED <<state, peer, box, pending, handler, stopped>>
    BY <1>8 DEF Tick, ipc
  <2>2. Types'
    BY <1>1, <1>3, <2>1 DEF IInv, Types
  <2>3. Waiting'
    BY <1>1, <2>1 DEF IInv, Waiting
  <2>4. Scans' = Scans /\ \A t \in Sleepers : Holds(t)' = Holds(t)
    BY <1>1, <2>1 DEF Scans, Holds, FromHardware
  <2>5. \A k \in Live : Due(k)' = Due(k)
    BY <1>1, <2>1, <2>4 DEF Due
  <2>6. ~Scans => i = 1 /\ j = 0
    BY DEF IInv, Table
  <2> QED BY <1>6, <1>7, <2>1, <2>2, <2>3, <2>4, <2>5, <2>6
<1>9. CASE handler[ClockVector] \in Threads
  <2>1. /\ handler[ClockVector] = Clock /\ handler' = handler /\ stopped' = stopped
        /\ IF state[Clock] = "receiving" /\ peer[Clock] \in {HARDWARE_SOURCE, ANY_SOURCE}
           THEN /\ state' = [state EXCEPT ![Clock] = "running"]
                /\ peer'  = [peer EXCEPT ![Clock] = NOBODY]
                /\ box'   = [box EXCEPT ![Clock] = [src |-> HARDWARE_SOURCE, words |-> ClockVector]]
                /\ UNCHANGED pending
           ELSE /\ pending' = [pending EXCEPT ![Clock] = TRUE]
                /\ UNCHANGED <<state, peer, box>>
    <3>1. IPC!Signal(ClockVector)
      BY <1>9 DEF Tick
    <3>2. handler[ClockVector] = Clock
      BY <1>9, Tids DEF IInv, Types
    <3> QED BY <3>1, <3>2, Tids DEF IPC!Signal
  <2>2. CASE state[Clock] = "receiving"
    <3>1. /\ control[Clock] = "received" /\ peer[Clock] \in {HARDWARE_SOURCE, ANY_SOURCE}
          /\ ~pending[Clock]
      BY <2>2 DEF IInv, Waiting, Source
    <3>2. /\ state' = [state EXCEPT ![Clock] = "running"]
          /\ peer'  = [peer EXCEPT ![Clock] = NOBODY]
          /\ box'   = [box EXCEPT ![Clock] = [src |-> HARDWARE_SOURCE, words |-> ClockVector]]
          /\ pending' = pending
      BY <2>1, <2>2, <3>1
    <3>3. /\ \A t \in Threads \ {Clock} : state'[t] = state[t] /\ peer'[t] = peer[t] /\ box'[t] = box[t]
          /\ state'[Clock] = "running" /\ box'[Clock].src = 1
      BY <3>2, Tids DEF IInv, Types
    <3>4. Types'
      BY <1>1, <1>3, <2>1, <3>2, <3>3, Tids DEF IInv, Types, Boxes, Texts, States
    <3>5. Waiting'
      BY <1>1, <3>1, <3>3, Tids DEF IInv, Waiting
    <3>6. ~Scans /\ Scans' /\ \A t \in Sleepers : ~Holds(t) /\ ~Holds(t)'
      BY <1>1, <2>2, <3>1, <3>3, Tids DEF Scans, Holds, FromHardware
    <3>7. \A k \in Live : Due(k) = 0 /\ Due(k)' \in {0, 1}
      BY <3>1, <3>2, <3>6 DEF Due, One
    <3>8. \A t \in Sleepers : state'[t] = state[t] /\ box'[t] = box[t]
      BY <3>3, Tids
    <3>9. \A k \in Live : Due(k)' <= Due(k) + 1
      BY <3>7
    <3>10. \A t \in Sleepers : Holds(t)' = Holds(t)
      BY <3>6 DEF Holds
    <3> QED BY <1>6, <1>7, <3>4, <3>5, <3>6, <3>8, <3>9, <3>10
  <2>3. CASE state[Clock] # "receiving"
    <3>1. pending' = [pending EXCEPT ![Clock] = TRUE] /\ UNCHANGED <<state, peer, box>>
      BY <2>1, <2>3
    <3>2. Types'
      BY <1>1, <1>3, <2>1, <3>1, Tids DEF IInv, Types
    <3>3. Waiting'
      BY <1>1, <2>3, <3>1, Tids DEF IInv, Waiting
    <3>4. Scans' = Scans /\ \A t \in Sleepers : Holds(t)' = Holds(t)
      BY <1>1, <3>1 DEF Scans, Holds, FromHardware
    <3>5. \A k \in Live : One(Scans /\ k >= i)' = One(Scans /\ k >= i)
      BY <1>1, <3>4 DEF One
    <3>6. One(pending[Clock]) \in {0, 1} /\ One(pending[Clock])' \in {0, 1}
      BY DEF One
    <3>7. \A k \in Live : One(Scans /\ k >= i) \in {0, 1}
      BY DEF One
    <3>8. \A k \in Live : Due(k)' <= Due(k) + 1
      BY <3>5, <3>6, <3>7 DEF Due
    <3>9. ~Scans => i = 1 /\ j = 0
      BY DEF IInv, Table
    <3> QED BY <1>6, <1>7, <3>1, <3>2, <3>3, <3>4, <3>8, <3>9
  <2> QED BY <2>2, <2>3
<1> QED BY <1>8, <1>9

-----------------------------------------------------------------------------
(* The theorems.                                                           *)

\* At the start the root runs, the others do not exist, and the table is empty.
LEMMA InitEstablishes == ASSUME Init PROVE IInv
<1>1. /\ state = [t \in Threads |-> IF t = Root THEN "running" ELSE "absent"]
      /\ peer = [t \in Threads |-> NOBODY]
      /\ box = [t \in Threads |-> [src |-> NOBODY, words |-> 0]]
      /\ pending = [t \in Threads |-> FALSE]
      /\ handler = [v \in {ClockVector} |-> 0]
      /\ stopped = FALSE
  BY Tids DEF Init, IPC!Init
<1>2. /\ control[Root] = "creating" /\ control[Clock] = "registering"
      /\ \A t \in Sleepers : control[t] = "sleep"
      /\ control \in [Threads -> {"creating", "registering", "listening", "received", "sleep"}]
  <2> DEFINE First(t) == CASE t = Root  -> "creating"
                           [] t = Clock -> "registering"
                           [] OTHER     -> "sleep"
  <2>1. First(Root) = "creating" /\ First(Clock) = "registering"
        /\ \A t \in Sleepers : First(t) = "sleep"
    BY Tids
  <2>2. control = [t \in Threads |-> First(t)]
    BY DEF Init
  <2> HIDE DEF First
  <2> QED BY <2>1, <2>2, Tids
<1>3. /\ cuantos = <<>> /\ i = 1 /\ j = 0
      /\ asked = [t \in Sleepers |-> 0] /\ elapsed = [t \in Sleepers |-> 0]
  BY DEF Init
<1>4. Types
  BY <1>1, <1>2, <1>3, Tids DEF Types, States, Boxes, Texts
<1>5. Waiting
  BY <1>1, <1>2, Tids DEF Waiting
<1>6. ~Scans /\ (\A t \in Sleepers : ~Holds(t)) /\ Live = {}
  BY <1>2, <1>3 DEF Scans, Holds, Live
<1>7. Table
  BY <1>2, <1>3, <1>6, Numbers DEF Table
<1>8. Accounts
  BY <1>1, <1>6, Tids DEF Accounts
<1>9. Times
  BY <1>1, <1>3, <1>6, Tids DEF Times
<1> QED BY <1>4, <1>5, <1>7, <1>8, <1>9 DEF IInv

LEMMA UnchangedStep == ASSUME IInv, UNCHANGED vars PROVE IInv'
<1>1. /\ UNCHANGED <<state, peer, box, pending, handler, stopped, control, cuantos, i, j, time>>
      /\ asked' = asked /\ elapsed' = elapsed
  BY DEF vars, ipc, time
<1>2. Table' /\ Accounts' /\ Times'
  BY <1>1, KnowledgeKept
<1>3. Types' /\ Waiting'
  BY <1>1 DEF IInv, Types, Waiting
<1> QED BY <1>2, <1>3 DEF IInv

LEMMA NextKeeps == ASSUME IInv, [Next]_vars PROVE IInv'
<1>1. CASE RootStep
  BY <1>1, CreateThreadStep, RootReceivesStep DEF RootStep
<1>2. CASE ClockStep
  BY <1>2, InterruptControlStep, FirstListenStep, InsertStep, KeepEntryStep, WakeEntryStep,
     EndScanStep DEF ClockStep
<1>3. ASSUME NEW t \in Sleepers, NEW ms \in Requests[t], Sleep(t, ms)
      PROVE  IInv'
  BY <1>3, SleepStep
<1>4. CASE Tick
  BY <1>4, TickStep
<1>5. CASE UNCHANGED vars
  BY <1>5, UnchangedStep
<1> QED BY <1>1, <1>2, <1>3, <1>4, <1>5 DEF Next

\* The parts of the invariant hold in every reachable state.
THEOREM Invariance == Spec => []IInv
<1>1. Init => IInv
  BY InitEstablishes
<1>2. IInv /\ [Next]_vars => IInv'
  BY NextKeeps
<1> QED BY <1>1, <1>2, PTL DEF Spec

\* The variables have their types: no message is entered beyond the last entry of the
\* table, and the loop stays inside it.
THEOREM TypeCorrect == Spec => []TypeOK
<1>1. IInv => TypeOK
  <2> SUFFICES ASSUME IInv PROVE TypeOK
    OBVIOUS
  <2>1. /\ cuantos \in Seq(Entry) /\ Len(cuantos) \in Nat /\ Len(cuantos) <= MaxEntries
        /\ i \in 1 .. MaxEntries + 1 /\ j \in 0 .. MaxEntries
    BY Numbers DEF IInv, Table
  <2>2. \A t \in Sleepers : asked[t] \in Requests[t] \union {0}
                            /\ elapsed[t] \in -TickLength .. asked[t]
    BY Numbers DEF IInv, Types, Times
  <2> QED BY <2>1, <2>2 DEF IInv, Types, TypeOK
<1> QED BY <1>1, Invariance, PTL

\* No sleeper is lost or entered twice, however the calls, the ticks and the scans of
\* the table follow each other.
THEOREM SleepersAreAccounted == Spec => []SleepersAccounted
<1>1. IInv => SleepersAccounted
  <2> SUFFICES ASSUME IInv, NEW t \in Sleepers
               PROVE  Known(t) = IF state[t] = "receiving" THEN 1 ELSE 0
    BY DEF SleepersAccounted
  <2> DEFINE Entered == {k \in Live : cuantos[k].id = t}
  <2>1. Known(t) = Cardinality(Entered) + (IF Holds(t) THEN 1 ELSE 0)
    BY DEF Known, Holds
  <2>2. CASE Entered = {}
    <3>1. Cardinality(Entered) = 0
      BY <2>2, FS_EmptySet
    <3>2. Holds(t) <=> state[t] = "receiving"
      BY <2>2 DEF IInv, Accounts
    <3> HIDE DEF Entered
    <3> QED BY <2>1, <3>1, <3>2
  <2>3. ASSUME NEW k \in Entered PROVE Known(t) = IF state[t] = "receiving" THEN 1 ELSE 0
    <3>1. Entered = {k} /\ state[t] = "receiving" /\ ~Holds(t)
      BY <2>3 DEF IInv, Accounts
    <3>2. Cardinality(Entered) = 1
      BY <3>1, FS_Singleton
    <3> HIDE DEF Entered
    <3> QED BY <2>1, <3>1, <3>2
  <2> QED BY <2>2, <2>3
<1> QED BY <1>1, Invariance, PTL

\* Whoever the server answers takes the answer at once, so the server never blocks in
\* it, for every number of sleepers.
THEOREM AnswersAreTaken == Spec => []AnswersNeverBlock
<1>1. IInv => AnswersNeverBlock
  BY Tids DEF IInv, Types, States, AnswersNeverBlock
<1> QED BY <1>1, Invariance, PTL

\* Only the server, when it finds an entry used up, lets a sleeper run again.
LEMMA OnlyTheServerWakes ==
  ASSUME IInv, [Next]_vars, NEW t \in Sleepers, Woken(t)
  PROVE  WakeEntry /\ cuantos[i].id = t
<1>1. state[t] = "receiving" /\ state'[t] = "running" /\ state \in [Threads -> States] /\ t \in Threads
      /\ t # Clock
  BY Tids DEF Woken, IInv, Types
<1>2. CASE RootStep
  BY <1>1, <1>2, CreateThreadStep, RootReceivesStep DEF RootStep
<1>3. CASE ClockStep
  <2>1. ASSUME NEW entries, state[Clock] = "running", Listen(entries) PROVE FALSE
    <3>1. IPC!Receive(Clock, Source(Len(entries))) /\ Source(Len(entries)) \in {HARDWARE_SOURCE, ANY_SOURCE}
      BY <2>1 DEF Listen, Source
    <3> QED BY <1>1, <2>1, <3>1, ServerReceives DEF IInv
  <2>2. ~FirstListen /\ ~Insert /\ ~EndScan
    BY <2>1 DEF FirstListen, Insert, EndScan, At, IPC!Running
  <2>3. ~InterruptControl /\ ~KeepEntry
    BY <1>1 DEF InterruptControl, IPC!Claim, KeepEntry, ipc
  <2>4. WakeEntry
    BY <1>3, <2>2, <2>3 DEF ClockStep
  <2>5. state' = [state EXCEPT ![cuantos[i].id] = "running"]
    BY <2>4, WakeEntryStep
  <2> QED BY <1>1, <2>4, <2>5
<1>4. ASSUME NEW u \in Sleepers, NEW ms \in Requests[u], Sleep(u, ms) PROVE FALSE
  BY <1>1, <1>4, SleepStep
<1>5. CASE Tick
  BY <1>1, <1>5, TickStep
<1>6. CASE UNCHANGED vars
  BY <1>1, <1>6 DEF vars, ipc
<1> QED BY <1>2, <1>3, <1>4, <1>5, <1>6 DEF Next

\* No sleeper wakes a whole tick early, whatever the server had to do in between,
\* unless it asked for a number that is negative as an int.
THEOREM SleepersWakeOnTime == Spec => AtMostOneTickEarly
<1>1. ASSUME IInv, [Next]_vars
      PROVE  \A t \in Sleepers :
               Woken(t) /\ asked[t] < HalfRange => elapsed[t] + TickLength > asked[t]
  <2> SUFFICES ASSUME NEW t \in Sleepers, Woken(t), asked[t] < HalfRange
               PROVE  elapsed[t] + TickLength > asked[t]
    OBVIOUS
  <2>1. WakeEntry /\ cuantos[i].id = t
    BY <1>1, OnlyTheServerWakes
  <2>2. i \in Live /\ Due(i) >= 1
    BY <1>1, <2>1, WakeEntryStep
  <2>3. PICK rest \in Remainders(cuantos[i].amount) : rest <= 0
    BY <1>1, <2>1, WakeEntryStep
  <2>4. cuantos[i].amount \in -HalfRange .. HalfRange - 1
    <3>1. cuantos[i] \in Entry
      BY <1>1, <2>2 DEF IInv, Table, Live
    <3> QED BY <3>1 DEF Entry
  <2>5. rest = cuantos[i].amount - TickLength \/ rest = cuantos[i].amount - TickLength + 2 * HalfRange
    BY <2>4, RemaindersFit
  <2>6. cuantos[i].amount <= TickLength
    BY <2>3, <2>4, <2>5, Numbers
  <2>7. elapsed[t] = asked[t] \/ elapsed[t] + cuantos[i].amount >= asked[t] + TickLength * Due(i) - 25
    BY <1>1, <2>1, <2>2 DEF IInv, Times
  <2>8. elapsed[t] \in Int /\ asked[t] \in Int /\ Due(i) \in {0, 1, 2}
    BY <1>1 DEF IInv, Types, Due, One
  <2> DEFINE d == Due(i)
             a == cuantos[i].amount
  <2>9. elapsed[t] = asked[t] \/ elapsed[t] + a >= asked[t] + 50 * d - 25
    BY <2>7, Numbers
  <2>10. a \in Int /\ a <= 50 /\ d \in {1, 2}
    BY <2>2, <2>4, <2>6, <2>8, Numbers
  <2> HIDE DEF a, d
  <2> QED BY <2>8, <2>9, <2>10, Numbers
<1>2. IInv /\ [Next]_vars =>
        [\A t \in Sleepers :
           Woken(t) /\ asked[t] < HalfRange => elapsed[t] + TickLength > asked[t]]_vars
  BY <1>1
<1> QED BY <1>2, Invariance, PTL DEF Spec, AtMostOneTickEarly
=============================================================================
