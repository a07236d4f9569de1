----------------------------- MODULE Rendezvous -----------------------------
(***************************************************************************)
(* What the microkernel's IPC promises to threads, without the run queue,  *)
(* the queues of senders and the processor: any running thread may call at *)
(* any time. A send and a receive that match meet in one step, in which    *)
(* the words pass from one box to the other; a call that finds no partner  *)
(* blocks until a partner comes, and nothing else releases it.             *)
(***************************************************************************)
EXTENDS Integers

CONSTANTS Threads, Vectors, Words, Nobody, Hardware, Anybody,
          Deferred,   \* what a pending interrupt is reported as
          Empty       \* the words of a box without a message

VARIABLES state,     \* what each thread is doing
          peer,      \* whom a blocked thread sends to or receives from
          box,       \* the last message each thread wrote or received
          pending,   \* an interrupt has not been received yet
          handler,   \* the thread that gets each vector
          stopped    \* the machine is stopped

vars == <<state, peer, box, pending, handler, stopped>>

Sources == {Nobody, Hardware, Anybody} \union Threads

Init ==
  \E root \in Threads :
    /\ state   = [t \in Threads |-> IF t = root THEN "running" ELSE "absent"]
    /\ peer    = [t \in Threads |-> Nobody]
    /\ box     = [t \in Threads |-> [src |-> Nobody, words |-> Empty]]
    /\ pending = [t \in Threads |-> FALSE]
    /\ handler = [v \in Vectors |-> 0]
    /\ stopped = FALSE

Running(t) == ~stopped /\ state[t] = "running"

Present(t) == t \in Threads /\ state[t] # "absent"

WaitsFor(r, src) == state[r] = "receiving" /\ peer[r] \in {src, Anybody}

SendsTo(s, r) == state[s] \in {"sending", "calling"} /\ peer[s] = r

-----------------------------------------------------------------------------

Spawn(t) ==
  /\ state[t] = "absent"
  /\ state' = [state EXCEPT ![t] = "running"]
  /\ UNCHANGED <<peer, box, pending, handler, stopped>>

Claim(t, v) ==
  /\ handler' = [handler EXCEPT ![v] = t]
  /\ UNCHANGED <<state, peer, box, pending, stopped>>

\* `after` is what the sender does next: "running" or, for an answer, "receiving".
Give(t, to, w, after) ==
  /\ WaitsFor(to, t)
  /\ box'   = [box EXCEPT ![t] = [src |-> Nobody, words |-> w],
                          ![to] = [src |-> t, words |-> w]]
  /\ state' = [state EXCEPT ![to] = "running", ![t] = after]
  /\ peer'  = [peer EXCEPT ![to] = Nobody,
                           ![t] = IF after = "receiving" THEN to ELSE Nobody]

Offer(t, to, w, op) ==
  /\ ~WaitsFor(to, t)
  /\ box'   = [box EXCEPT ![t] = [src |-> Nobody, words |-> w]]
  /\ state' = [state EXCEPT ![t] = op]
  /\ peer'  = [peer EXCEPT ![t] = to]

Send(t, to, w) ==
  /\ \/ Present(to) /\ (Give(t, to, w, "running") \/ Offer(t, to, w, "sending"))
     \/ /\ ~Present(to)
        /\ box' = [box EXCEPT ![t] = [src |-> Nobody, words |-> w]]
        /\ UNCHANGED <<state, peer>>
  /\ UNCHANGED <<pending, handler, stopped>>

\* A send together with the receive of the answer.
Call(t, to, w) ==
  /\ Present(to)
  /\ Give(t, to, w, "receiving") \/ Offer(t, to, w, "calling")
  /\ UNCHANGED <<pending, handler, stopped>>

\* A receive meets any sender that matches it, whichever came first, but a receive
\* from anybody meets a pending interrupt before any sender.
Take(t, s) ==
  /\ SendsTo(s, t)
  /\ box'   = [box EXCEPT ![t] = [src |-> s, words |-> box[s].words]]
  /\ state' = [state EXCEPT ![s] = IF @ = "sending" THEN "running" ELSE "receiving"]
  /\ peer'  = [peer EXCEPT ![s] = IF state[s] = "sending" THEN Nobody ELSE @]
  /\ UNCHANGED pending

TakeInterrupt(t) ==
  /\ pending[t]
  /\ \E n \in Vectors \union {Deferred} :
       box' = [box EXCEPT ![t] = [src |-> Hardware, words |-> n]]
  /\ pending' = [pending EXCEPT ![t] = FALSE]
  /\ UNCHANGED <<state, peer>>

\* ... and blocks only when there is no such sender and no such interrupt.
Block(t, src) ==
  /\ \A s \in Threads : SendsTo(s, t) => src \notin {s, Anybody}
  /\ pending[t] => src \notin {Hardware, Anybody}
  /\ box'   = [box EXCEPT ![t] = [src |-> Nobody, words |-> Empty]]
  /\ state' = [state EXCEPT ![t] = "receiving"]
  /\ peer'  = [peer EXCEPT ![t] = src]
  /\ UNCHANGED pending

\* Mutant: senders before interrupts.
ReceiveSenderFirst(t, src) ==
  /\ \/ \E s \in Threads : src \in {s, Anybody} /\ Take(t, s)
     \/ src \in {Hardware, Anybody} /\ TakeInterrupt(t)
     \/ Block(t, src)
  /\ UNCHANGED <<handler, stopped>>

Receive(t, src) ==
  /\ \/ \E s \in Threads :
          /\ src = s \/ (src = Anybody /\ ~pending[t])
          /\ Take(t, s)
     \/ src \in {Hardware, Anybody} /\ TakeInterrupt(t)
     \/ Block(t, src)
  /\ UNCHANGED <<handler, stopped>>

\* An interrupt wakes its thread or stays pending for it. One that nobody claimed
\* may stop the machine; nothing else happens then.
Signal(v) ==
  /\ ~stopped
  /\ \/ \E t \in Threads :
          /\ t = handler[v]
          /\ IF state[t] = "receiving" /\ peer[t] \in {Hardware, Anybody}
             THEN /\ state' = [state EXCEPT ![t] = "running"]
                  /\ peer'  = [peer EXCEPT ![t] = Nobody]
                  /\ box'   = [box EXCEPT ![t] = [src |-> Hardware, words |-> v]]
                  /\ UNCHANGED pending
             ELSE /\ pending' = [pending EXCEPT ![t] = TRUE]
                  /\ UNCHANGED <<state, peer, box>>
          /\ UNCHANGED <<handler, stopped>>
     \/ /\ handler[v] \notin Threads
        /\ stopped' = TRUE
        /\ UNCHANGED <<state, peer, box, pending, handler>>

\* What a running thread may do.
Step(t) ==
  \/ \E to \in Sources, w \in Words : Send(t, to, w) \/ Call(t, to, w)
  \/ \E src \in Sources : Receive(t, src)
  \/ \E v \in Vectors : Claim(t, v)
  \/ \E child \in Threads : Spawn(child)

Next ==
  \/ \E t \in Threads : Running(t) /\ Step(t)
  \/ \E v \in Vectors : Signal(v)

Spec == Init /\ [][Next]_vars

=============================================================================
