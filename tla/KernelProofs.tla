---------------------------- MODULE KernelProofs ----------------------------
(***************************************************************************)
(* Theorems about Kernel, for every number of threads, set of vectors and  *)
(* set of words, the last of them that it implements Rendezvous.           *)
(***************************************************************************)
EXTENDS KernelRefinement, TLAPS

-----------------------------------------------------------------------------
(* Lemmas about the lists of threads.                                      *)

\* Sending the first k elements to the back keeps the elements and moves the next
\* one to the front.
LEMMA RotateProperties ==
  ASSUME NEW T, NEW s \in Seq(T), NEW k \in 0 .. Len(s)
  PROVE  /\ Rotate(s, k) \in Seq(T)
         /\ Len(Rotate(s, k)) = Len(s)
         /\ Range(Rotate(s, k)) = Range(s)
         /\ IsInjective(s) => IsInjective(Rotate(s, k))
         /\ k < Len(s) => Rotate(s, k)[1] = s[k + 1]
<1> DEFINE r == Rotate(s, k)
<1>1. /\ r \in Seq(T)
      /\ DOMAIN r = 1 .. Len(s)
      /\ Len(r) = Len(s)
  BY DEF Rotate
<1>2. \A i \in 1 .. Len(s) :
         r[i] = IF i + k <= Len(s) THEN s[i + k] ELSE s[i + k - Len(s)]
  BY DEF Rotate
<1>3. DOMAIN s = 1 .. Len(s)
  OBVIOUS
<1> HIDE DEF r
<1>4. Range(r) = Range(s)
  <2>1. ASSUME NEW x \in Range(r) PROVE x \in Range(s)
    <3>1. PICK i \in 1 .. Len(s) : x = r[i]
      BY <1>1 DEF Range
    <3>2. CASE i + k <= Len(s)
      <4>1. i + k \in 1 .. Len(s) /\ r[i] = s[i + k]
        BY <1>2, <3>2
      <4> QED BY <4>1, <3>1, <1>3 DEF Range
    <3>3. CASE i + k > Len(s)
      <4>1. i + k - Len(s) \in 1 .. Len(s) /\ r[i] = s[i + k - Len(s)]
        BY <1>2, <3>3
      <4> QED BY <4>1, <3>1, <1>3 DEF Range
    <3> QED BY <3>2, <3>3
  <2>2. ASSUME NEW x \in Range(s) PROVE x \in Range(r)
    <3>1. PICK j \in 1 .. Len(s) : x = s[j]
      BY <1>3 DEF Range
    <3>2. CASE j > k
      <4>1. j - k \in 1 .. Len(s) /\ r[j - k] = s[j]
        BY <1>2, <3>2
      <4> QED BY <4>1, <3>1, <1>1 DEF Range
    <3>3. CASE j <= k
      <4>1. j - k + Len(s) \in 1 .. Len(s) /\ r[j - k + Len(s)] = s[j]
        BY <1>2, <3>3
      <4> QED BY <4>1, <3>1, <1>1 DEF Range
    <3> QED BY <3>2, <3>3
  <2> QED BY <2>1, <2>2
<1>5. ASSUME IsInjective(s) PROVE IsInjective(r)
  <2>1. \A i, j \in 1 .. Len(s) : s[i] = s[j] => i = j
    BY <1>5, <1>3 DEF IsInjective
  <2>2. ASSUME NEW i \in 1 .. Len(s), NEW j \in 1 .. Len(s), r[i] = r[j]
        PROVE  i = j
    <3> DEFINE at(n) == IF n + k <= Len(s) THEN n + k ELSE n + k - Len(s)
    <3>1. at(i) \in 1 .. Len(s) /\ at(j) \in 1 .. Len(s)
      OBVIOUS
    <3>2. s[at(i)] = s[at(j)]
      BY <1>2, <2>2
    <3>3. at(i) = at(j)
      BY <3>1, <3>2, <2>1
    <3> QED BY <3>3
  <2> QED BY <2>2, <1>1 DEF IsInjective
<1>6. ASSUME k < Len(s) PROVE r[1] = s[k + 1]
  BY <1>2, <1>6
<1> QED BY <1>1, <1>4, <1>5, <1>6 DEF r

\* Removing the k-th element of a list after a rotation removes that element only.
LEMMA RemoveProperties ==
  ASSUME NEW T, NEW s \in Seq(T), IsInjective(s), NEW k \in DOMAIN s
  PROVE  /\ Tail(Rotate(s, k - 1)) \in Seq(T)
         /\ Range(Tail(Rotate(s, k - 1))) = Range(s) \ {s[k]}
         /\ IsInjective(Tail(Rotate(s, k - 1)))
<1> DEFINE r == Rotate(s, k - 1)
           q == Tail(r)
<1>0. k \in 1 .. Len(s) /\ k - 1 \in 0 .. Len(s) /\ k - 1 < Len(s)
  OBVIOUS
<1>1. /\ r \in Seq(T)
      /\ Len(r) = Len(s)
      /\ Range(r) = Range(s)
      /\ IsInjective(r)
      /\ r[1] = s[k]
  BY <1>0, RotateProperties
<1> HIDE DEF r
<1>2. /\ q \in Seq(T)
      /\ DOMAIN q = 1 .. Len(r) - 1
      /\ \A i \in 1 .. Len(r) - 1 : q[i] = r[i + 1]
  BY <1>0, <1>1
<1>3. DOMAIN r = 1 .. Len(r) /\ Len(r) \in Nat \ {0}
  BY <1>0, <1>1
<1>4. \A i, j \in 1 .. Len(r) : r[i] = r[j] => i = j
  BY <1>1, <1>3 DEF IsInjective
<1>5. IsInjective(q)
  <2>1. ASSUME NEW i \in 1 .. Len(r) - 1, NEW j \in 1 .. Len(r) - 1, q[i] = q[j]
        PROVE  i = j
    <3>1. i + 1 \in 1 .. Len(r) /\ j + 1 \in 1 .. Len(r) /\ r[i + 1] = r[j + 1]
      BY <1>2, <1>3, <2>1
    <3> QED BY <3>1, <1>4
  <2> QED BY <2>1, <1>2 DEF IsInjective
<1>6. ASSUME NEW x \in Range(q) PROVE x \in Range(r) /\ x # r[1]
  <2>1. PICK i \in 1 .. Len(r) - 1 : x = r[i + 1]
    BY <1>2 DEF Range
  <2>2. i + 1 \in 1 .. Len(r) /\ 1 \in 1 .. Len(r) /\ i + 1 # 1
    BY <1>3
  <2> QED BY <2>1, <2>2, <1>3, <1>4 DEF Range
<1>7. ASSUME NEW x \in Range(r), x # r[1] PROVE x \in Range(q)
  <2>1. PICK j \in 1 .. Len(r) : x = r[j]
    BY <1>3 DEF Range
  <2>2. j - 1 \in 1 .. Len(r) - 1 /\ q[j - 1] = r[j]
    BY <1>2, <1>3, <1>7, <2>1
  <2> QED BY <2>1, <2>2, <1>2 DEF Range
<1>8. Range(q) = Range(s) \ {s[k]}
  BY <1>1, <1>6, <1>7
<1> QED BY <1>2, <1>5, <1>8 DEF r

\* Appending a new element adds it and no other.
LEMMA AppendProperties ==
  ASSUME NEW T, NEW s \in Seq(T), NEW x \in T
  PROVE  /\ Append(s, x) \in Seq(T)
         /\ Range(Append(s, x)) = Range(s) \union {x}
         /\ IsInjective(s) /\ x \notin Range(s) => IsInjective(Append(s, x))
<1> DEFINE a == Append(s, x)
<1>1. /\ a \in Seq(T)
      /\ DOMAIN a = 1 .. Len(s) + 1
      /\ \A i \in 1 .. Len(s) : a[i] = s[i]
      /\ a[Len(s) + 1] = x
      /\ DOMAIN s = 1 .. Len(s) /\ Len(s) \in Nat
  OBVIOUS
<1> HIDE DEF a
<1>2. Range(a) = Range(s) \union {x}
  BY <1>1 DEF Range
<1>3. ASSUME IsInjective(s), x \notin Range(s) PROVE IsInjective(a)
  BY <1>1, <1>3 DEF IsInjective, Range
<1> QED BY <1>1, <1>2, <1>3 DEF a

\* Whoever shedule() picks is ready and first in a list of the same threads; it
\* picks the idle thread only when nobody is ready.
LEMMA SheduledProperties ==
  ASSUME NEW list \in Seq(Tids), list # <<>>, IsInjective(list),
         NEW active \in Tids \union {IdleThread},
         NEW st \in [Tids -> Statuses],
         NEW run \in Sheduled(list, active, st)
  PROVE  /\ run.threads \in Seq(Tids)
         /\ run.threads # <<>>
         /\ IsInjective(run.threads)
         /\ Range(run.threads) = Range(list)
         /\ run.active \in Tids \union {IdleThread}
         /\ IF run.active = IdleThread
            THEN \A t \in Range(list) : st[t] # THREAD_READY
            ELSE run.active = Head(run.threads) /\ st[run.active] = THREAD_READY
<1> DEFINE r     == Requeued(list, active)
           ready == {i \in DOMAIN r : st[r[i]] = THREAD_READY}
<1>0. Len(list) \in Nat \ {0}
  OBVIOUS
<1>1. /\ r \in Seq(Tids)
      /\ Len(r) = Len(list)
      /\ IsInjective(r)
      /\ Range(r) = Range(list)
  <2>1. 1 \in 0 .. Len(list)
    BY <1>0
  <2> QED BY <2>1, RotateProperties DEF Requeued
<1> HIDE DEF r
<1>2. CASE ready = {}
  <2>1. run = [threads |-> r, active |-> IdleThread]
    BY <1>2 DEF Sheduled, r
  <2>2. \A t \in Range(list) : st[t] # THREAD_READY
    BY <1>1, <1>2 DEF Range
  <2> QED BY <2>1, <2>2, <1>0, <1>1
<1>3. CASE ready # {}
  <2>1. PICK k \in ready : run = [threads |-> Rotate(r, k - 1), active |-> r[k]]
    BY <1>3 DEF Sheduled, r
  <2>2. k \in 1 .. Len(r) /\ k - 1 \in 0 .. Len(r) /\ k - 1 < Len(r) /\ r[k] \in Tids
    BY <1>1
  <2>3. /\ Rotate(r, k - 1) \in Seq(Tids)
        /\ Len(Rotate(r, k - 1)) = Len(r)
        /\ IsInjective(Rotate(r, k - 1))
        /\ Range(Rotate(r, k - 1)) = Range(r)
        /\ Rotate(r, k - 1)[1] = r[k]
    BY <2>2, <1>1, RotateProperties
  <2>4. Head(Rotate(r, k - 1)) = r[k] /\ Rotate(r, k - 1) # <<>>
    BY <2>3, <1>0, <1>1
  <2>5. r[k] # IdleThread /\ st[r[k]] = THREAD_READY
    BY <2>2, KernelAssumption DEF IdleThread, Tids, FIRST_THREAD_ID
  <2> QED BY <2>1, <2>2, <2>3, <2>4, <2>5, <1>1
<1> QED BY <1>2, <1>3

-----------------------------------------------------------------------------
(* The inductive invariant.                                                *)

\* The root server exists, so the list is never empty.
RootExists == FIRST_THREAD_ID \in Created

\* A thread that is not waiting names nobody, because whoever ends its wait clears
\* the field.
WaitingForIsFresh ==
  \A t \in Tids : status[t] \in {THREAD_READY, THREAD_SENDING} =>
                   waitingFor[t] = FREE_THREAD_ENTRY

\* The entry of a thread not created yet is as the constructor of Thread leaves it.
NewThreadsAreFresh ==
  \A t \in Tids \ Created :
    /\ status[t] = THREAD_READY
    /\ waitingFor[t] = FREE_THREAD_ENTRY
    /\ wanToSendMe[t] = <<>>

\* What the scheduler needs, and what the queues of senders need.
ScheduleInv == NoThreadLost /\ RootExists /\ RunsAReadyThread
QueueInv == /\ SendersQueuedOnce
            /\ NoMissedRendezvous
            /\ WaitingForIsFresh
            /\ NewThreadsAreFresh

IInv == TypeOK /\ ScheduleInv /\ QueueInv

LEMMA Constants ==
  /\ IdleThread \notin Tids
  /\ FIRST_THREAD_ID \in Tids
  /\ {FREE_THREAD_ENTRY, HARDWARE_SOURCE, ANY_SOURCE} \cap Tids = {}
  /\ FREE_THREAD_ENTRY \notin {HARDWARE_SOURCE, ANY_SOURCE}
  /\ Tids \subseteq Names
BY KernelAssumption DEF IdleThread, FIRST_THREAD_ID, Tids, Names,
   FREE_THREAD_ENTRY, HARDWARE_SOURCE, ANY_SOURCE

LEMMA StatusesDiffer ==
  /\ Statuses = {THREAD_READY, THREAD_RECEIVING, THREAD_SENDING,
                 THREAD_SENDING_RECEIVING}
  /\ THREAD_READY \notin {THREAD_RECEIVING, THREAD_SENDING, THREAD_SENDING_RECEIVING}
  /\ THREAD_RECEIVING \notin {THREAD_SENDING, THREAD_SENDING_RECEIVING}
  /\ THREAD_SENDING # THREAD_SENDING_RECEIVING
BY DEF Statuses, THREAD_READY, THREAD_RECEIVING, THREAD_SENDING,
   THREAD_SENDING_RECEIVING

LEMMA MessagesAreTyped ==
  /\ Cleared \in Messages
  /\ \A w \in Words : FilledWith(w) \in Messages
  /\ \A t \in Tids, w \in Words \union Vectors \union {0, DeferredNumber} :
       CopyOf(t, w) \in Messages
  /\ \A n \in Vectors \union {DeferredNumber} : HardwareMessage(n) \in Messages
BY DEF Cleared, Messages, FilledWith, CopyOf, HardwareMessage

\* The caller of a system call is a ready thread that is in no queue.
LEMMA CallerIsReady ==
  ASSUME IInv, Calling
  PROVE  /\ me \in Tids /\ me \in Created
         /\ threads # <<>> /\ me = threads[1]
         /\ status[me] = THREAD_READY
         /\ waitingFor[me] = FREE_THREAD_ENTRY
         /\ ~IsSending(me)
         /\ \A r \in Tids : me \notin Range(wanToSendMe[r])
<1>1. me \in Tids /\ me = Head(threads) /\ status[me] = THREAD_READY
  BY DEF IInv, TypeOK, ScheduleInv, RunsAReadyThread, Calling, me
<1>2. threads # <<>> /\ threads \in Seq(Tids)
  BY DEF IInv, TypeOK, ScheduleInv, RootExists, Created, Range
<1>3. me = threads[1] /\ me \in Created
  BY <1>1, <1>2 DEF Created, Range
<1>4. ~IsSending(me) /\ waitingFor[me] = FREE_THREAD_ENTRY
  BY <1>1, StatusesDiffer DEF IsSending, IInv, QueueInv, WaitingForIsFresh
<1> QED
  BY <1>1, <1>2, <1>3, <1>4 DEF IInv, QueueInv, SendersQueuedOnce

\* The invariant of the scheduler after a call of shedule().
LEMMA SheduleKeeps ==
  ASSUME TypeOK, ScheduleInv, idCounter' = idCounter, status' \in [Tids -> Statuses],
         NEW list \in Seq(Tids), list # <<>>, IsInjective(list), Range(list) = Created,
         NEW active \in Tids \union {IdleThread},
         Become(Sheduled(list, active, status'))
  PROVE  /\ threads' \in Seq(Tids)
         /\ activeThread' \in Tids \union {IdleThread}
         /\ Created' = Created
         /\ ScheduleInv'
<1>1. PICK run \in Sheduled(list, active, status') :
         threads' = run.threads /\ activeThread' = run.active
  BY DEF Become
<1>2. /\ threads' \in Seq(Tids)
      /\ threads' # <<>>
      /\ IsInjective(threads')
      /\ Range(threads') = Range(list)
      /\ activeThread' \in Tids \union {IdleThread}
      /\ IF activeThread' = IdleThread
         THEN \A t \in Range(list) : status'[t] # THREAD_READY
         ELSE activeThread' = Head(threads') /\ status'[activeThread'] = THREAD_READY
  BY <1>1, SheduledProperties
<1>3. Created' = Created
  BY <1>2 DEF Created
<1>4. NoThreadLost' /\ RootExists'
  BY <1>2, <1>3 DEF ScheduleInv, NoThreadLost, RootExists
<1>5. RunsAReadyThread'
  BY <1>2, <1>3 DEF RunsAReadyThread
<1> QED BY <1>2, <1>3, <1>4, <1>5 DEF ScheduleInv

\* ... called from a system call.
LEMMA CallShedules ==
  ASSUME IInv, Calling, Shedule, idCounter' = idCounter, status' \in [Tids -> Statuses]
  PROVE  /\ threads' \in Seq(Tids)
         /\ activeThread' \in Tids \union {IdleThread}
         /\ Created' = Created
         /\ ScheduleInv'
<1>1. threads \in Seq(Tids) /\ threads # <<>> /\ IsInjective(threads)
  BY CallerIsReady DEF IInv, TypeOK, ScheduleInv, NoThreadLost
<1>2. activeThread \in Tids \union {IdleThread}
  BY DEF IInv, TypeOK
<1> QED BY <1>1, <1>2, SheduleKeeps DEF Shedule, IInv, Created

\* ... and after a system call that does not call it.
LEMMA CallContinues ==
  ASSUME IInv, Calling, Continue, idCounter' = idCounter,
         status'[me] = THREAD_READY
  PROVE  /\ threads' \in Seq(Tids)
         /\ activeThread' \in Tids \union {IdleThread}
         /\ Created' = Created
         /\ ScheduleInv'
<1>1. threads' = threads /\ activeThread' = activeThread /\ Created' = Created
  BY DEF Continue, Created
<1> QED BY <1>1 DEF IInv, TypeOK, ScheduleInv, NoThreadLost, RootExists,
           RunsAReadyThread, Calling, me

-----------------------------------------------------------------------------
(* Every step keeps the invariant, one lemma for each action.              *)

\* The queues after the caller has joined the queue of `to`.
LEMMA CallerJoins ==
  ASSUME IInv, Calling, NEW to \in Tids,
         wanToSendMe' = [wanToSendMe EXCEPT ![to] = Append(@, me)]
  PROVE  /\ wanToSendMe' \in [Tids -> Seq(Tids)]
         /\ \A r \in Tids : IsInjective(wanToSendMe'[r])
         /\ \A r \in Tids \ {to} : wanToSendMe'[r] = wanToSendMe[r]
         /\ Range(wanToSendMe'[to]) = Range(wanToSendMe[to]) \union {me}
<1>1. me \in Tids /\ me \notin Range(wanToSendMe[to])
  BY CallerIsReady
<1>2. wanToSendMe \in [Tids -> Seq(Tids)] /\ \A r \in Tids : IsInjective(wanToSendMe[r])
  BY DEF IInv, TypeOK, QueueInv, SendersQueuedOnce
<1>3. /\ Append(wanToSendMe[to], me) \in Seq(Tids)
      /\ Range(Append(wanToSendMe[to], me)) = Range(wanToSendMe[to]) \union {me}
      /\ IsInjective(Append(wanToSendMe[to], me))
  BY <1>1, <1>2, AppendProperties
<1>4. wanToSendMe'[to] = Append(wanToSendMe[to], me)
  BY <1>2
<1>5. \A r \in Tids \ {to} : wanToSendMe'[r] = wanToSendMe[r]
  BY <1>2
<1>6. wanToSendMe' \in [Tids -> Seq(Tids)]
  BY <1>2, <1>3
<1> QED BY <1>2, <1>3, <1>4, <1>5, <1>6

LEMMA SendLaterStep ==
  ASSUME IInv, NEW to \in Names, NEW w \in Words, SendLater(to, w)
  PROVE  IInv'
<1>1. /\ me \in Tids /\ me \in Created
      /\ status[me] = THREAD_READY
      /\ waitingFor[me] = FREE_THREAD_ENTRY
      /\ \A r \in Tids : me \notin Range(wanToSendMe[r])
  BY CallerIsReady DEF SendLater
<1>2. to \in Tids /\ to \in Created
  BY DEF SendLater, IInv, TypeOK, Created, Range
<1>3. /\ status \in [Tids -> Statuses]
      /\ waitingFor \in [Tids -> Names] /\ waitingFor' = waitingFor
      /\ interrupted' = interrupted
      /\ status' = [status EXCEPT ![me] = THREAD_SENDING]
      /\ idCounter' = idCounter
  BY DEF SendLater, IInv, TypeOK
<1>4. /\ status' \in [Tids -> Statuses]
      /\ status'[me] = THREAD_SENDING
      /\ \A t \in Tids \ {me} : status'[t] = status[t]
  BY <1>1, <1>3, StatusesDiffer
<1>5. /\ threads' \in Seq(Tids)
      /\ activeThread' \in Tids \union {IdleThread}
      /\ Created' = Created
      /\ ScheduleInv'
  BY <1>3, <1>4, CallShedules DEF SendLater
<1>6. /\ wanToSendMe' \in [Tids -> Seq(Tids)]
      /\ \A r \in Tids : IsInjective(wanToSendMe'[r])
      /\ \A r \in Tids \ {to} : wanToSendMe'[r] = wanToSendMe[r]
      /\ Range(wanToSendMe'[to]) = Range(wanToSendMe[to]) \union {me}
  BY <1>2, CallerJoins DEF SendLater
<1>7. TypeOK'
  BY <1>3, <1>4, <1>5, <1>6 DEF SendLater, IInv, TypeOK, Messages, FilledWith
<1>8. SendersQueuedOnce'
  <2>1. \A r \in Tids : \A t \in Range(wanToSendMe'[r]) :
          \/ t \in Range(wanToSendMe[r]) /\ t # me
          \/ t = me /\ r = to
    BY <1>1, <1>6
  <2>2. \A r \in Tids : \A t \in Range(wanToSendMe[r]) : t \in Range(wanToSendMe'[r])
    BY <1>6
  <2>3. \A r \in Tids : \A t \in Range(wanToSendMe'[r]) : t \in Tids
    BY <1>6 DEF Range
  <2> QED BY <1>1, <1>2, <1>3, <1>4, <1>6, <2>1, <2>2, <2>3, StatusesDiffer
          DEF IInv, QueueInv, SendersQueuedOnce, IsSending
<1>9. NoMissedRendezvous'
  <2>1. ~(status[to] = THREAD_RECEIVING /\ waitingFor[to] \in {me, ANY_SOURCE})
    BY DEF SendLater, Expects
  <2> QED BY <1>1, <1>2, <1>3, <1>4, <1>6, <2>1, StatusesDiffer
          DEF IInv, QueueInv, NoMissedRendezvous
<1>10. WaitingForIsFresh'
  BY <1>1, <1>3, <1>4, StatusesDiffer DEF IInv, QueueInv, WaitingForIsFresh
<1>11. NewThreadsAreFresh'
  BY <1>1, <1>2, <1>3, <1>4, <1>5, <1>6 DEF IInv, QueueInv, NewThreadsAreFresh
<1> QED BY <1>5, <1>7, <1>8, <1>9, <1>10, <1>11 DEF IInv, QueueInv

LEMMA SendReceiveLaterStep ==
  ASSUME IInv, NEW to \in Names, NEW w \in Words, SendReceiveLater(to, w)
  PROVE  IInv'
<1>1. /\ me \in Tids /\ me \in Created
      /\ status[me] = THREAD_READY
      /\ \A r \in Tids : me \notin Range(wanToSendMe[r])
  BY CallerIsReady DEF SendReceiveLater
<1>2. to \in Tids /\ to \in Created
  BY DEF SendReceiveLater, IInv, TypeOK, Created, Range
<1>3. /\ status \in [Tids -> Statuses] /\ waitingFor \in [Tids -> Names]
      /\ status' = [status EXCEPT ![me] = THREAD_SENDING_RECEIVING]
      /\ waitingFor' = [waitingFor EXCEPT ![me] = to]
      /\ interrupted' = interrupted
      /\ idCounter' = idCounter
  BY DEF SendReceiveLater, IInv, TypeOK
<1>4. /\ status' \in [Tids -> Statuses] /\ waitingFor' \in [Tids -> Names]
      /\ status'[me] = THREAD_SENDING_RECEIVING /\ waitingFor'[me] = to
      /\ \A t \in Tids \ {me} : status'[t] = status[t] /\ waitingFor'[t] = waitingFor[t]
  BY <1>1, <1>3, StatusesDiffer
<1>5. /\ threads' \in Seq(Tids)
      /\ activeThread' \in Tids \union {IdleThread}
      /\ Created' = Created
      /\ ScheduleInv'
  BY <1>3, <1>4, CallShedules DEF SendReceiveLater
<1>6. /\ wanToSendMe' \in [Tids -> Seq(Tids)]
      /\ \A r \in Tids : IsInjective(wanToSendMe'[r])
      /\ \A r \in Tids \ {to} : wanToSendMe'[r] = wanToSendMe[r]
      /\ Range(wanToSendMe'[to]) = Range(wanToSendMe[to]) \union {me}
  BY <1>2, CallerJoins DEF SendReceiveLater
<1>7. TypeOK'
  BY <1>3, <1>4, <1>5, <1>6 DEF SendReceiveLater, IInv, TypeOK, Messages, FilledWith
<1>8. SendersQueuedOnce'
  <2>1. \A r \in Tids : \A t \in Range(wanToSendMe'[r]) :
          \/ t \in Range(wanToSendMe[r]) /\ t # me
          \/ t = me /\ r = to
    BY <1>1, <1>6
  <2>2. \A r \in Tids : \A t \in Range(wanToSendMe[r]) : t \in Range(wanToSendMe'[r])
    BY <1>6
  <2>3. \A r \in Tids : \A t \in Range(wanToSendMe'[r]) : t \in Tids
    BY <1>6 DEF Range
  <2> QED BY <1>1, <1>2, <1>4, <1>6, <2>1, <2>2, <2>3, StatusesDiffer
          DEF IInv, QueueInv, SendersQueuedOnce, IsSending
<1>9. NoMissedRendezvous'
  <2>1. ~(status[to] = THREAD_RECEIVING /\ waitingFor[to] \in {me, ANY_SOURCE})
    BY DEF SendReceiveLater, Expects
  <2>2. ASSUME NEW r \in Tids, status'[r] = THREAD_RECEIVING
        PROVE  /\ waitingFor'[r] = ANY_SOURCE => wanToSendMe'[r] = <<>>
               /\ waitingFor'[r] \notin Range(wanToSendMe'[r])
               /\ waitingFor'[r] \in {ANY_SOURCE, HARDWARE_SOURCE} => ~interrupted[r]
    <3>1. r # me
      BY <1>4, <2>2, StatusesDiffer
    <3>2. status[r] = THREAD_RECEIVING /\ waitingFor'[r] = waitingFor[r]
      BY <1>4, <2>2, <3>1
    <3> QED BY <1>6, <2>1, <3>2 DEF IInv, QueueInv, NoMissedRendezvous
  <2> QED BY <1>3, <2>2 DEF NoMissedRendezvous
<1>10. WaitingForIsFresh'
  BY <1>1, <1>4, StatusesDiffer DEF IInv, QueueInv, WaitingForIsFresh
<1>11. NewThreadsAreFresh'
  BY <1>1, <1>2, <1>4, <1>5, <1>6 DEF IInv, QueueInv, NewThreadsAreFresh
<1> QED BY <1>5, <1>7, <1>8, <1>9, <1>10, <1>11 DEF IInv, QueueInv

LEMMA SendNowStep ==
  ASSUME IInv, NEW to \in Names, NEW w \in Words, SendNow(to, w)
  PROVE  IInv'
<1>1. /\ me \in Tids /\ me \in Created
      /\ status[me] = THREAD_READY
  BY CallerIsReady DEF SendNow
<1>2. to \in Tids /\ to \in Created /\ status[to] = THREAD_RECEIVING
  BY DEF SendNow, Expects, IInv, TypeOK, Created, Range
<1>3. /\ status \in [Tids -> Statuses] /\ waitingFor \in [Tids -> Names]
      /\ status' = [status EXCEPT ![to] = THREAD_READY]
      /\ waitingFor' = [waitingFor EXCEPT ![to] = FREE_THREAD_ENTRY]
      /\ interrupted' = interrupted /\ wanToSendMe' = wanToSendMe
      /\ idCounter' = idCounter
  BY DEF SendNow, IInv, TypeOK
<1>4. /\ status' \in [Tids -> Statuses] /\ waitingFor' \in [Tids -> Names]
      /\ status'[to] = THREAD_READY /\ waitingFor'[to] = FREE_THREAD_ENTRY
      /\ \A t \in Tids \ {to} : status'[t] = status[t] /\ waitingFor'[t] = waitingFor[t]
  BY <1>2, <1>3, StatusesDiffer DEF Names
<1>5. /\ threads' \in Seq(Tids)
      /\ activeThread' \in Tids \union {IdleThread}
      /\ Created' = Created
      /\ ScheduleInv'
  BY <1>1, <1>3, <1>4, CallContinues DEF SendNow
<1>6. TypeOK'
  <2>1. utcb' \in [Tids -> Messages]
    BY <1>1, <1>2, MessagesAreTyped DEF SendNow, IInv, TypeOK
  <2>2. UNCHANGED <<idCounter, wanToSendMe, interrupted, ids, halted>>
    BY DEF SendNow
  <2> QED BY <1>4, <1>5, <2>1, <2>2 DEF IInv, TypeOK
<1>7. SendersQueuedOnce'
  <2>1. \A r \in Tids : \A t \in Range(wanToSendMe[r]) : t \in Tids
    BY DEF IInv, TypeOK, Range
  <2>2. \A r \in Tids : to \notin Range(wanToSendMe[r])
    BY <1>2, StatusesDiffer DEF IInv, QueueInv, SendersQueuedOnce, IsSending
  <2> QED BY <1>2, <1>3, <1>4, <2>1, <2>2, StatusesDiffer
          DEF IInv, QueueInv, SendersQueuedOnce, IsSending
<1>8. NoMissedRendezvous'
  BY <1>2, <1>3, <1>4, StatusesDiffer DEF IInv, QueueInv, NoMissedRendezvous
<1>9. WaitingForIsFresh'
  BY <1>2, <1>4 DEF IInv, QueueInv, WaitingForIsFresh
<1>10. NewThreadsAreFresh'
  BY <1>2, <1>3, <1>4, <1>5 DEF IInv, QueueInv, NewThreadsAreFresh
<1> QED BY <1>5, <1>6, <1>7, <1>8, <1>9, <1>10 DEF IInv, QueueInv

LEMMA SendReceiveNowStep ==
  ASSUME IInv, NEW to \in Names, NEW w \in Words, SendReceiveNow(to, w)
  PROVE  IInv'
<1>1. /\ me \in Tids /\ me \in Created
      /\ status[me] = THREAD_READY
      /\ \A r \in Tids : me \notin Range(wanToSendMe[r])
  BY CallerIsReady DEF SendReceiveNow
<1>2. to \in Tids /\ to \in Created /\ status[to] = THREAD_RECEIVING /\ to # me
  BY <1>1, StatusesDiffer DEF SendReceiveNow, Expects, IInv, TypeOK, Created, Range
<1>3. /\ status \in [Tids -> Statuses] /\ waitingFor \in [Tids -> Names]
      /\ status' = [status EXCEPT ![to] = THREAD_READY, ![me] = THREAD_RECEIVING]
      /\ waitingFor' = [waitingFor EXCEPT ![to] = FREE_THREAD_ENTRY, ![me] = to]
      /\ interrupted' = interrupted /\ wanToSendMe' = wanToSendMe
      /\ idCounter' = idCounter
  BY DEF SendReceiveNow, IInv, TypeOK
<1>4. /\ status' \in [Tids -> Statuses] /\ waitingFor' \in [Tids -> Names]
      /\ status'[to] = THREAD_READY /\ waitingFor'[to] = FREE_THREAD_ENTRY
      /\ status'[me] = THREAD_RECEIVING /\ waitingFor'[me] = to
      /\ \A t \in Tids \ {to, me} :
           status'[t] = status[t] /\ waitingFor'[t] = waitingFor[t]
  BY <1>1, <1>2, <1>3, StatusesDiffer DEF Names
<1>5. /\ threads' \in Seq(Tids)
      /\ activeThread' \in Tids \union {IdleThread}
      /\ Created' = Created
      /\ ScheduleInv'
  BY <1>3, <1>4, CallShedules DEF SendReceiveNow
<1>6. TypeOK'
  <2>1. utcb' \in [Tids -> Messages]
    BY <1>1, <1>2, MessagesAreTyped DEF SendReceiveNow, IInv, TypeOK
  <2>2. UNCHANGED <<idCounter, wanToSendMe, interrupted, ids, halted>>
    BY DEF SendReceiveNow
  <2> QED BY <1>4, <1>5, <2>1, <2>2 DEF IInv, TypeOK
<1>7. /\ \A r \in Tids : \A t \in Range(wanToSendMe[r]) : t \in Tids
      /\ \A r \in Tids : to \notin Range(wanToSendMe[r])
  <2>1. \A r \in Tids : \A t \in Range(wanToSendMe[r]) : t \in Tids
    BY DEF IInv, TypeOK, Range
  <2> QED BY <1>2, <2>1, StatusesDiffer
          DEF IInv, QueueInv, SendersQueuedOnce, IsSending
<1>8. SendersQueuedOnce'
  BY <1>1, <1>2, <1>3, <1>4, <1>7, StatusesDiffer
     DEF IInv, QueueInv, SendersQueuedOnce, IsSending
<1>9. NoMissedRendezvous'
  <2>1. to \notin {ANY_SOURCE, HARDWARE_SOURCE}
    BY <1>2, Constants
  <2>2. ASSUME NEW r \in Tids, status'[r] = THREAD_RECEIVING
        PROVE  /\ waitingFor'[r] = ANY_SOURCE => wanToSendMe[r] = <<>>
               /\ waitingFor'[r] \notin Range(wanToSendMe[r])
               /\ waitingFor'[r] \in {ANY_SOURCE, HARDWARE_SOURCE} => ~interrupted[r]
    <3>1. CASE r = me
      BY <1>4, <1>7, <2>1, <3>1
    <3>2. CASE r # me
      <4>1. r # to
        BY <1>4, <2>2, StatusesDiffer
      <4> QED BY <1>4, <2>2, <3>2, <4>1 DEF IInv, QueueInv, NoMissedRendezvous
    <3> QED BY <3>1, <3>2
  <2> QED BY <1>3, <2>2 DEF NoMissedRendezvous
<1>10. WaitingForIsFresh'
  BY <1>2, <1>4, StatusesDiffer DEF IInv, QueueInv, WaitingForIsFresh
<1>11. NewThreadsAreFresh'
  BY <1>1, <1>2, <1>3, <1>4, <1>5 DEF IInv, QueueInv, NewThreadsAreFresh
<1> QED BY <1>5, <1>6, <1>8, <1>9, <1>10, <1>11 DEF IInv, QueueInv

LEMMA TakeMessageStep ==
  ASSUME IInv, Calling, NEW k \in DOMAIN wanToSendMe[me], TakeMessage(k)
  PROVE  IInv'
<1> DEFINE queue == wanToSendMe[me]
           who   == queue[k]
<1>1. /\ me \in Tids /\ me \in Created
      /\ status[me] = THREAD_READY
      /\ ~IsSending(me)
      /\ \A r \in Tids : me \notin Range(wanToSendMe[r])
  BY CallerIsReady
<1>2. /\ queue \in Seq(Tids) /\ IsInjective(queue)
      /\ who \in Tids /\ who \in Range(queue) /\ who # me
      /\ IsSending(who)
      /\ status[who] = THREAD_SENDING_RECEIVING => waitingFor[who] = me
      /\ \A r \in Tids \ {me} : who \notin Range(wanToSendMe[r])
  <2>1. queue \in Seq(Tids) /\ IsInjective(queue)
    BY <1>1 DEF IInv, TypeOK, QueueInv, SendersQueuedOnce
  <2>2. who \in Tids /\ who \in Range(queue)
    BY <2>1 DEF Range
  <2> QED BY <1>1, <2>1, <2>2 DEF IInv, QueueInv, SendersQueuedOnce
<1>3. /\ wanToSendMe' = [wanToSendMe EXCEPT ![me] = Tail(Rotate(queue, k - 1))]
      /\ status' = [status EXCEPT ![who] = AfterSending(@)]
      /\ utcb' = [utcb EXCEPT ![me] = CopyOf(who, utcb[who].words)]
      /\ Continue
      /\ UNCHANGED <<idCounter, waitingFor, interrupted, ids, halted>>
  BY DEF TakeMessage
<1> HIDE DEF queue
<1>4. /\ wanToSendMe' \in [Tids -> Seq(Tids)]
      /\ IsInjective(wanToSendMe'[me])
      /\ Range(wanToSendMe'[me]) = Range(queue) \ {who}
      /\ \A r \in Tids \ {me} : wanToSendMe'[r] = wanToSendMe[r]
  <2>1. /\ Tail(Rotate(queue, k - 1)) \in Seq(Tids)
        /\ Range(Tail(Rotate(queue, k - 1))) = Range(queue) \ {who}
        /\ IsInjective(Tail(Rotate(queue, k - 1)))
    BY <1>2, RemoveProperties DEF queue
  <2>2. wanToSendMe \in [Tids -> Seq(Tids)]
    BY DEF IInv, TypeOK
  <2> QED BY <1>1, <1>3, <2>1, <2>2
<1> HIDE DEF who
<1>5. /\ status' \in [Tids -> Statuses]
      /\ \/ status[who] = THREAD_SENDING /\ status'[who] = THREAD_READY
         \/ status[who] = THREAD_SENDING_RECEIVING /\ status'[who] = THREAD_RECEIVING
      /\ \A t \in Tids \ {who} : status'[t] = status[t]
  BY <1>2, <1>3, StatusesDiffer DEF AfterSending, IsSending, IInv, TypeOK
<1>6. /\ threads' \in Seq(Tids)
      /\ activeThread' \in Tids \union {IdleThread}
      /\ Created' = Created
      /\ ScheduleInv'
  BY <1>1, <1>2, <1>3, <1>5, CallContinues
<1>7. TypeOK'
  <2>1. utcb' \in [Tids -> Messages]
    <3>1. utcb \in [Tids -> Messages]
      BY DEF IInv, TypeOK
    <3>2. utcb[who].words \in Words \union Vectors \union {0, DeferredNumber}
      BY <3>1, <1>2 DEF Messages
    <3>3. CopyOf(who, utcb[who].words) \in Messages
      BY <1>2, <3>2, MessagesAreTyped
    <3> QED BY <1>3, <3>1, <3>3
  <2> QED BY <1>3, <1>4, <1>5, <1>6, <2>1 DEF IInv, TypeOK
<1>8. SendersQueuedOnce'
  <2>1. \A r \in Tids : \A t \in Range(wanToSendMe'[r]) :
          t \in Tids /\ t \in Range(wanToSendMe[r]) /\ t # who
    <3>1. \A r \in Tids : \A t \in Range(wanToSendMe[r]) : t \in Tids
      BY DEF IInv, TypeOK, Range
    <3> QED BY <1>2, <1>4, <3>1 DEF queue
  <2>2. \A r \in Tids : \A t \in Range(wanToSendMe[r]) \ {who} : t \in Range(wanToSendMe'[r])
    BY <1>4 DEF queue
  <2>3. \A r \in Tids : IsInjective(wanToSendMe'[r])
    BY <1>4 DEF IInv, QueueInv, SendersQueuedOnce
  <2>4. \A t \in Tids \ {who} : /\ IsSending(t)' <=> IsSending(t)
                               /\ status'[t] = status[t] /\ waitingFor'[t] = waitingFor[t]
    BY <1>3, <1>5 DEF IsSending
  <2>5. status'[who] \notin {THREAD_SENDING, THREAD_SENDING_RECEIVING}
    BY <1>5, StatusesDiffer
  <2>6. SendersQueuedOnce
    BY DEF IInv, QueueInv
  <2>7. ASSUME NEW r \in Tids, NEW t \in Range(wanToSendMe'[r])
        PROVE  /\ IsSending(t)'
               /\ status'[t] = THREAD_SENDING_RECEIVING => waitingFor'[t] = r
               /\ \A s \in Tids \ {r} : t \notin Range(wanToSendMe'[s])
    <3>1. t \in Tids \ {who} /\ t \in Range(wanToSendMe[r])
      BY <2>1
    <3>2. \A s \in Tids \ {r} : t \notin Range(wanToSendMe'[s])
      BY <2>1, <2>6, <3>1 DEF SendersQueuedOnce
    <3> QED BY <2>4, <2>6, <3>1, <3>2 DEF SendersQueuedOnce
  <2>8. ASSUME NEW t \in Tids, IsSending(t)'
        PROVE  \E r \in Tids : t \in Range(wanToSendMe'[r])
    <3>1. t # who
      BY <2>5, <2>8 DEF IsSending
    <3>2. PICK r \in Tids : t \in Range(wanToSendMe[r])
      BY <2>4, <2>6, <2>8, <3>1 DEF SendersQueuedOnce
    <3> QED BY <2>2, <3>1, <3>2
  <2> QED BY <2>3, <2>7, <2>8 DEF SendersQueuedOnce
<1>9. NoMissedRendezvous'
  <2>1. ASSUME NEW r \in Tids, status'[r] = THREAD_RECEIVING
        PROVE  /\ waitingFor[r] = ANY_SOURCE => wanToSendMe'[r] = <<>>
               /\ waitingFor[r] \notin Range(wanToSendMe'[r])
               /\ waitingFor[r] \in {ANY_SOURCE, HARDWARE_SOURCE} => ~interrupted[r]
    <3>1. CASE r = who
      <4>1. waitingFor[r] = me /\ me \notin {ANY_SOURCE, HARDWARE_SOURCE}
        BY <1>1, <1>2, <1>5, <2>1, <3>1, Constants, StatusesDiffer
      <4>2. wanToSendMe'[r] = wanToSendMe[r]
        BY <1>2, <1>4, <3>1
      <4> QED BY <1>1, <4>1, <4>2
    <3>2. CASE r # who
      <4>1. r # me /\ status[r] = THREAD_RECEIVING
        BY <1>1, <1>5, <2>1, <3>2, StatusesDiffer
      <4> QED BY <1>4, <4>1 DEF IInv, QueueInv, NoMissedRendezvous
    <3> QED BY <3>1, <3>2
  <2> QED BY <1>3, <2>1 DEF NoMissedRendezvous
<1>10. WaitingForIsFresh'
  BY <1>2, <1>3, <1>5, StatusesDiffer DEF IInv, QueueInv, WaitingForIsFresh
<1>11. NewThreadsAreFresh'
  BY <1>1, <1>2, <1>3, <1>4, <1>5, <1>6, StatusesDiffer
     DEF IInv, QueueInv, NewThreadsAreFresh, IsSending
<1> QED BY <1>6, <1>7, <1>8, <1>9, <1>10, <1>11 DEF IInv, QueueInv

LEMMA TakeInterruptStep ==
  ASSUME IInv, Calling, TakeInterrupt,
         \/ waitingFor' = waitingFor
         \/ waitingFor' = [waitingFor EXCEPT ![me] = FREE_THREAD_ENTRY]
  PROVE  IInv'
<1>1. me \in Tids /\ status[me] = THREAD_READY /\ waitingFor[me] = FREE_THREAD_ENTRY
  BY CallerIsReady
<1>2. /\ UNCHANGED <<idCounter, status, wanToSendMe, ids, halted>>
      /\ utcb' = [utcb EXCEPT ![me] = HardwareMessage(DeferredNumber)]
      /\ interrupted' = [interrupted EXCEPT ![me] = FALSE]
      /\ Continue
  BY DEF TakeInterrupt
<1>3. waitingFor' = waitingFor
  BY <1>1 DEF IInv, TypeOK
<1>4. /\ threads' \in Seq(Tids)
      /\ activeThread' \in Tids \union {IdleThread}
      /\ Created' = Created
      /\ ScheduleInv'
  BY <1>1, <1>2, CallContinues
<1>5. TypeOK'
  <2>1. utcb' \in [Tids -> Messages]
    BY <1>1, <1>2, MessagesAreTyped DEF IInv, TypeOK
  <2> QED BY <1>2, <1>3, <1>4, <2>1 DEF IInv, TypeOK
<1>6. SendersQueuedOnce'
  BY <1>2, <1>3 DEF IInv, QueueInv, SendersQueuedOnce, IsSending
<1>7. NoMissedRendezvous'
  <2>1. \A r \in Tids : interrupted'[r] => interrupted[r]
    BY <1>1, <1>2 DEF IInv, TypeOK
  <2> QED BY <1>2, <1>3, <2>1 DEF IInv, QueueInv, NoMissedRendezvous
<1>8. WaitingForIsFresh'
  BY <1>2, <1>3 DEF IInv, QueueInv, WaitingForIsFresh
<1>9. NewThreadsAreFresh'
  BY <1>2, <1>3, <1>4 DEF IInv, QueueInv, NewThreadsAreFresh
<1> QED BY <1>4, <1>5, <1>6, <1>7, <1>8, <1>9 DEF IInv, QueueInv

\* A receiver blocks only if nothing is there that it would accept.
LEMMA WaitStep ==
  ASSUME IInv, Calling, NEW src \in Names, Wait(src),
         src = ANY_SOURCE => wanToSendMe[me] = <<>>,
         src \notin Range(wanToSendMe[me]),
         src \in {ANY_SOURCE, HARDWARE_SOURCE} => ~interrupted[me]
  PROVE  IInv'
<1>1. /\ me \in Tids /\ me \in Created
      /\ status[me] = THREAD_READY
      /\ ~IsSending(me)
      /\ \A r \in Tids : me \notin Range(wanToSendMe[r])
  BY CallerIsReady
<1>2. /\ UNCHANGED <<idCounter, wanToSendMe, interrupted, ids, halted>>
      /\ status' = [status EXCEPT ![me] = THREAD_RECEIVING]
      /\ waitingFor' = [waitingFor EXCEPT ![me] = src]
      /\ utcb' = [utcb EXCEPT ![me] = Cleared]
      /\ Shedule
  BY DEF Wait
<1>3. /\ status' \in [Tids -> Statuses] /\ waitingFor' \in [Tids -> Names]
      /\ status'[me] = THREAD_RECEIVING /\ waitingFor'[me] = src
      /\ \A t \in Tids \ {me} : status'[t] = status[t] /\ waitingFor'[t] = waitingFor[t]
  BY <1>1, <1>2, StatusesDiffer DEF IInv, TypeOK
<1>4. /\ threads' \in Seq(Tids)
      /\ activeThread' \in Tids \union {IdleThread}
      /\ Created' = Created
      /\ ScheduleInv'
  BY <1>2, <1>3, CallShedules
<1>5. TypeOK'
  <2>1. utcb' \in [Tids -> Messages]
    BY <1>1, <1>2, MessagesAreTyped DEF IInv, TypeOK
  <2> QED BY <1>2, <1>3, <1>4, <2>1 DEF IInv, TypeOK
<1>6. SendersQueuedOnce'
  <2>1. \A r \in Tids : \A t \in Range(wanToSendMe[r]) : t \in Tids
    BY DEF IInv, TypeOK, Range
  <2> QED BY <1>1, <1>2, <1>3, <2>1, StatusesDiffer
          DEF IInv, QueueInv, SendersQueuedOnce, IsSending
<1>7. NoMissedRendezvous'
  BY <1>1, <1>2, <1>3 DEF IInv, QueueInv, NoMissedRendezvous
<1>8. WaitingForIsFresh'
  BY <1>3, StatusesDiffer DEF IInv, QueueInv, WaitingForIsFresh
<1>9. NewThreadsAreFresh'
  BY <1>1, <1>2, <1>3, <1>4 DEF IInv, QueueInv, NewThreadsAreFresh
<1> QED BY <1>4, <1>5, <1>6, <1>7, <1>8, <1>9 DEF IInv, QueueInv

LEMMA ReceiveAnyStep == ASSUME IInv, ReceiveAny PROVE IInv'
<1>1. Calling /\ me \in Tids
  BY CallerIsReady DEF ReceiveAny
<1>2. CASE TakeInterrupt /\ UNCHANGED waitingFor
  BY <1>1, <1>2, TakeInterruptStep
<1>3. CASE wanToSendMe[me] # <<>> /\ TakeMessage(1)
  <2>1. 1 \in DOMAIN wanToSendMe[me]
    BY <1>1, <1>3 DEF IInv, TypeOK
  <2> QED BY <1>1, <1>3, <2>1, TakeMessageStep
<1>4. CASE ~interrupted[me] /\ wanToSendMe[me] = <<>> /\ Wait(ANY_SOURCE)
  <2>1. ANY_SOURCE \in Names /\ ANY_SOURCE \notin Range(wanToSendMe[me])
    BY <1>4 DEF Names, Range
  <2> QED BY <1>1, <1>4, <2>1, WaitStep
<1> QED BY <1>2, <1>3, <1>4 DEF ReceiveAny

LEMMA ReceiveHardwareStep == ASSUME IInv, ReceiveHardware PROVE IInv'
<1>1. Calling /\ me \in Tids
  BY CallerIsReady DEF ReceiveHardware
<1>2. CASE TakeInterrupt /\ waitingFor' = [waitingFor EXCEPT ![me] = FREE_THREAD_ENTRY]
  BY <1>1, <1>2, TakeInterruptStep
<1>3. CASE ~interrupted[me] /\ Wait(HARDWARE_SOURCE)
  <2>1. HARDWARE_SOURCE \in Names /\ HARDWARE_SOURCE # ANY_SOURCE
    BY DEF Names, HARDWARE_SOURCE, ANY_SOURCE
  <2>2. HARDWARE_SOURCE \notin Range(wanToSendMe[me])
    BY <1>1, Constants DEF IInv, TypeOK, Range
  <2> QED BY <1>1, <1>3, <2>1, <2>2, WaitStep
<1> QED BY <1>2, <1>3 DEF ReceiveHardware

LEMMA ReceiveFromStep ==
  ASSUME IInv, NEW src \in {FREE_THREAD_ENTRY} \union Tids, ReceiveFrom(src)
  PROVE  IInv'
<1>1. Calling
  BY DEF ReceiveFrom
<1>2. ASSUME NEW k \in DOMAIN wanToSendMe[me], TakeMessage(k) PROVE IInv'
  BY <1>1, <1>2, TakeMessageStep
<1>3. CASE src \notin Range(wanToSendMe[me]) /\ Wait(src)
  <2>1. src \in Names /\ src \notin {ANY_SOURCE, HARDWARE_SOURCE}
    BY Constants DEF Names
  <2> QED BY <1>1, <1>3, <2>1, WaitStep
<1> QED BY <1>2, <1>3 DEF ReceiveFrom

\* What an interrupt does to its thread keeps the queues as they must be.
LEMMA HardwareKeepsQueues ==
  ASSUME IInv, NEW t \in Created, NEW v \in Vectors, SendHardwareIPC(t, v),
         UNCHANGED <<idCounter, wanToSendMe>>
  PROVE  /\ status' \in [Tids -> Statuses]
         /\ waitingFor' \in [Tids -> Names]
         /\ interrupted' \in [Tids -> BOOLEAN]
         /\ utcb' \in [Tids -> Messages]
         /\ Created' = Created => QueueInv'
<1>1. t \in Tids
  BY DEF IInv, TypeOK, Created, Range
<1>2. CASE ExpectsHardware(t)
  <2>1. /\ status' = [status EXCEPT ![t] = THREAD_READY]
        /\ waitingFor' = [waitingFor EXCEPT ![t] = FREE_THREAD_ENTRY]
        /\ interrupted' = [interrupted EXCEPT ![t] = FALSE]
        /\ utcb' = [utcb EXCEPT ![t] = HardwareMessage(v)]
        /\ status[t] = THREAD_RECEIVING
    BY <1>2 DEF SendHardwareIPC, ExpectsHardware
  <2>2. /\ status' \in [Tids -> Statuses] /\ waitingFor' \in [Tids -> Names]
        /\ interrupted' \in [Tids -> BOOLEAN] /\ utcb' \in [Tids -> Messages]
        /\ status'[t] = THREAD_READY /\ waitingFor'[t] = FREE_THREAD_ENTRY
        /\ \A u \in Tids \ {t} : /\ status'[u] = status[u]
                                 /\ waitingFor'[u] = waitingFor[u]
                                 /\ interrupted'[u] = interrupted[u]
    BY <1>1, <2>1, StatusesDiffer, MessagesAreTyped DEF IInv, TypeOK, Names
  <2>3. SendersQueuedOnce'
    <3>1. \A r \in Tids : \A u \in Range(wanToSendMe[r]) : u \in Tids
      BY DEF IInv, TypeOK, Range
    <3>2. \A r \in Tids : t \notin Range(wanToSendMe[r])
      BY <2>1, StatusesDiffer DEF IInv, QueueInv, SendersQueuedOnce, IsSending
    <3> QED BY <2>1, <2>2, <3>1, <3>2, StatusesDiffer
            DEF IInv, QueueInv, SendersQueuedOnce, IsSending
  <2>4. NoMissedRendezvous'
    BY <2>2, StatusesDiffer DEF IInv, QueueInv, NoMissedRendezvous
  <2>5. WaitingForIsFresh'
    BY <2>2 DEF IInv, QueueInv, WaitingForIsFresh
  <2>6. Created' = Created => NewThreadsAreFresh'
    BY <2>2 DEF IInv, QueueInv, NewThreadsAreFresh
  <2> QED BY <2>2, <2>3, <2>4, <2>5, <2>6 DEF QueueInv
<1>3. CASE ~ExpectsHardware(t)
  <2>1. /\ interrupted' = [interrupted EXCEPT ![t] = TRUE]
        /\ UNCHANGED <<status, waitingFor, utcb>>
    BY <1>3 DEF SendHardwareIPC
  <2>2. NoMissedRendezvous'
    BY <1>1, <1>3, <2>1 DEF ExpectsHardware, IInv, TypeOK, QueueInv, NoMissedRendezvous
  <2>3. SendersQueuedOnce' /\ WaitingForIsFresh' /\ (Created' = Created => NewThreadsAreFresh')
    BY <2>1 DEF IInv, QueueInv, SendersQueuedOnce, IsSending, WaitingForIsFresh,
                NewThreadsAreFresh
  <2> QED BY <1>1, <2>1, <2>2, <2>3 DEF IInv, TypeOK, QueueInv
<1> QED BY <1>2, <1>3

\* ... and leaves the list and the processor as they must be.
LEMMA AfterHardwareKeeps ==
  ASSUME IInv, NEW t \in Created, NEW v \in Vectors, SendHardwareIPC(t, v),
         idCounter' = idCounter, status' \in [Tids -> Statuses],
         NEW run \in AfterHardwareIPC(t)
  PROVE  /\ run.threads \in Seq(Tids) /\ run.threads # <<>>
         /\ IsInjective(run.threads)
         /\ Range(run.threads) = Created
         /\ run.active \in Tids \union {IdleThread}
         /\ IF run.active = IdleThread
            THEN \A u \in Created : status'[u] # THREAD_READY
            ELSE run.active = Head(run.threads) /\ status'[run.active] = THREAD_READY
<1>1. /\ threads \in Seq(Tids) /\ threads # <<>> /\ IsInjective(threads)
      /\ activeThread \in Tids \union {IdleThread}
      /\ Created = Range(threads)
  BY DEF IInv, TypeOK, ScheduleInv, NoThreadLost, RootExists, Created, Range
<1>2. CASE ExpectsHardware(t) /\ activeThread = IdleThread
  BY <1>1, <1>2, SheduledProperties DEF AfterHardwareIPC
<1>3. CASE ~(ExpectsHardware(t) /\ activeThread = IdleThread)
  <2>1. run = [threads |-> threads, active |-> activeThread]
    BY <1>3 DEF AfterHardwareIPC
  <2>2. CASE ~ExpectsHardware(t)
    BY <1>1, <2>1, <2>2 DEF SendHardwareIPC, IInv, ScheduleInv, RunsAReadyThread
  <2>3. CASE ExpectsHardware(t) /\ activeThread # IdleThread
    <3>1. status' = [status EXCEPT ![t] = THREAD_READY] /\ status \in [Tids -> Statuses]
      BY <2>3 DEF SendHardwareIPC, IInv, TypeOK
    <3>2. activeThread = Head(threads) /\ status[activeThread] = THREAD_READY
      BY <2>3 DEF IInv, ScheduleInv, RunsAReadyThread
    <3>3. status'[activeThread] = THREAD_READY
      BY <1>1, <2>3, <3>1, <3>2
    <3> QED BY <1>1, <2>1, <2>3, <3>2, <3>3
  <2> QED BY <1>3, <2>2, <2>3
<1> QED BY <1>2, <1>3

LEMMA InterruptStep == ASSUME IInv, NEW v \in Vectors, Interrupt(v) PROVE IInv'
<1>1. CASE ids[v] \in Created
  <2> DEFINE t == ids[v]
  <2>1. /\ SendHardwareIPC(t, v)
        /\ Become(AfterHardwareIPC(t))
        /\ UNCHANGED <<idCounter, wanToSendMe, ids, halted>>
    BY <1>1 DEF Interrupt
  <2>2. /\ status' \in [Tids -> Statuses]
        /\ waitingFor' \in [Tids -> Names]
        /\ interrupted' \in [Tids -> BOOLEAN]
        /\ utcb' \in [Tids -> Messages]
        /\ Created' = Created => QueueInv'
    BY <1>1, <2>1, HardwareKeepsQueues
  <2>3. PICK run \in AfterHardwareIPC(t) :
           threads' = run.threads /\ activeThread' = run.active
    BY <2>1 DEF Become
  <2>4. /\ threads' \in Seq(Tids) /\ IsInjective(threads')
        /\ Range(threads') = Created
        /\ activeThread' \in Tids \union {IdleThread}
        /\ IF activeThread' = IdleThread
           THEN \A u \in Created : status'[u] # THREAD_READY
           ELSE activeThread' = Head(threads') /\ status'[activeThread'] = THREAD_READY
    BY <1>1, <2>1, <2>2, <2>3, AfterHardwareKeeps
  <2>5. Created' = Created
    BY <2>4 DEF Created
  <2>6. ScheduleInv'
    BY <2>1, <2>4, <2>5
       DEF IInv, ScheduleInv, NoThreadLost, RootExists, RunsAReadyThread
  <2>7. TypeOK'
    BY <2>1, <2>2, <2>4 DEF IInv, TypeOK
  <2> QED BY <2>2, <2>5, <2>6, <2>7 DEF IInv
<1>2. CASE ids[v] \notin Created
  <2>1. /\ ids' = [ids EXCEPT ![v] = 0]
        /\ halted' = TRUE
        /\ UNCHANGED <<threads, activeThread, idCounter, status, waitingFor,
                       wanToSendMe, interrupted, utcb>>
    BY <1>2 DEF Interrupt
  <2>2. TypeOK'
    BY <2>1 DEF IInv, TypeOK
  <2>3. ScheduleInv' /\ QueueInv'
    BY <2>1 DEF IInv, ScheduleInv, NoThreadLost, RootExists, RunsAReadyThread,
       QueueInv, SendersQueuedOnce, IsSending, NoMissedRendezvous, WaitingForIsFresh,
       NewThreadsAreFresh, Created
  <2> QED BY <2>2, <2>3 DEF IInv
<1> QED BY <1>1, <1>2

LEMMA ClockInterruptStep == ASSUME IInv, ClockInterrupt PROVE IInv'
<1>0. /\ UNCHANGED <<idCounter, wanToSendMe, halted>>
      /\ ClockVector \in Vectors
  BY KernelAssumption DEF ClockInterrupt
<1>1. CASE ids[ClockVector] \in Created
  <2> DEFINE t == ids[ClockVector]
  <2>1. /\ SendHardwareIPC(t, ClockVector)
        /\ \E told \in AfterHardwareIPC(t) :
             Become(Sheduled(told.threads, told.active, status'))
        /\ UNCHANGED ids
    BY <1>1 DEF ClockInterrupt
  <2>2. /\ status' \in [Tids -> Statuses]
        /\ waitingFor' \in [Tids -> Names]
        /\ interrupted' \in [Tids -> BOOLEAN]
        /\ utcb' \in [Tids -> Messages]
        /\ Created' = Created => QueueInv'
    BY <1>0, <1>1, <2>1, HardwareKeepsQueues
  <2>3. PICK told \in AfterHardwareIPC(t) :
           Become(Sheduled(told.threads, told.active, status'))
    BY <2>1
  <2>4. /\ told.threads \in Seq(Tids) /\ told.threads # <<>>
        /\ IsInjective(told.threads)
        /\ Range(told.threads) = Created
        /\ told.active \in Tids \union {IdleThread}
    BY <1>0, <1>1, <2>1, <2>2, AfterHardwareKeeps
  <2>5. /\ threads' \in Seq(Tids)
        /\ activeThread' \in Tids \union {IdleThread}
        /\ Created' = Created
        /\ ScheduleInv'
    BY <1>0, <2>2, <2>3, <2>4, SheduleKeeps DEF IInv
  <2>6. TypeOK'
    BY <1>0, <2>1, <2>2, <2>5 DEF IInv, TypeOK
  <2> QED BY <2>2, <2>5, <2>6 DEF IInv
<1>2. CASE ids[ClockVector] \notin Created
  <2>1. /\ ids' = [ids EXCEPT ![ClockVector] = 0]
        /\ UNCHANGED <<status, waitingFor, interrupted, utcb>>
        /\ Become(Sheduled(threads, activeThread, status'))
    BY <1>2 DEF ClockInterrupt, Shedule
  <2>2. /\ threads \in Seq(Tids) /\ threads # <<>> /\ IsInjective(threads)
        /\ activeThread \in Tids \union {IdleThread}
        /\ status' \in [Tids -> Statuses]
    BY <2>1 DEF IInv, TypeOK, ScheduleInv, NoThreadLost, RootExists, Created, Range
  <2>3. /\ threads' \in Seq(Tids)
        /\ activeThread' \in Tids \union {IdleThread}
        /\ Created' = Created
        /\ ScheduleInv'
    BY <1>0, <2>1, <2>2, SheduleKeeps DEF IInv, Created
  <2>4. TypeOK'
    BY <1>0, <2>1, <2>3 DEF IInv, TypeOK
  <2>5. QueueInv'
    BY <1>0, <2>1, <2>3 DEF IInv, QueueInv, SendersQueuedOnce, IsSending,
       NoMissedRendezvous, WaitingForIsFresh, NewThreadsAreFresh
  <2> QED BY <2>3, <2>4, <2>5 DEF IInv
<1> QED BY <1>1, <1>2

LEMMA CreateThreadStep == ASSUME IInv, CreateThread PROVE IInv'
<1>1. /\ idCounter \in Tids
      /\ threads' = Append(threads, idCounter)
      /\ idCounter' = idCounter + 1
      /\ UNCHANGED <<activeThread, status, waitingFor, wanToSendMe, interrupted,
                     utcb, ids, halted>>
  BY DEF CreateThread
<1>2. /\ threads \in Seq(Tids) /\ threads # <<>> /\ IsInjective(threads)
      /\ Created = FIRST_THREAD_ID .. idCounter - 1
      /\ activeThread # IdleThread
      /\ activeThread = Head(threads) /\ status[activeThread] = THREAD_READY
  BY CallerIsReady
     DEF CreateThread, Calling, IInv, TypeOK, ScheduleInv, NoThreadLost, RunsAReadyThread
<1>3. idCounter \in Int /\ FIRST_THREAD_ID \in Int /\ idCounter >= FIRST_THREAD_ID
  BY <1>1, KernelAssumption DEF Tids, FIRST_THREAD_ID
<1>4. idCounter \notin Created
  BY <1>2, <1>3
<1>5. /\ threads' \in Seq(Tids)
      /\ Created' = Created \union {idCounter}
      /\ IsInjective(threads')
  BY <1>1, <1>2, <1>4, AppendProperties DEF Created
<1>6. Created' = FIRST_THREAD_ID .. idCounter' - 1
  BY <1>1, <1>2, <1>3, <1>5
<1>7. Head(threads') = Head(threads)
  BY <1>1, <1>2
<1>8. ScheduleInv'
  BY <1>1, <1>2, <1>5, <1>6, <1>7
     DEF IInv, ScheduleInv, NoThreadLost, RootExists, RunsAReadyThread
<1>9. idCounter' \in Tids \union {FIRST_THREAD_ID + MaxThreads}
  BY <1>1, KernelAssumption DEF Tids, FIRST_THREAD_ID
<1>10. TypeOK'
  BY <1>1, <1>5, <1>9 DEF IInv, TypeOK
<1>11. QueueInv'
  BY <1>1, <1>5 DEF IInv, QueueInv, SendersQueuedOnce, IsSending,
     NoMissedRendezvous, WaitingForIsFresh, NewThreadsAreFresh
<1> QED BY <1>8, <1>10, <1>11 DEF IInv

\* Steps that touch neither the queues nor the processor.
LEMMA OtherCallStep ==
  ASSUME IInv,
         \/ \E v \in Vectors : RegistreThreadToInterrupt(v)
         \/ \E to \in Names, w \in Words : SendToNobody(to, w)
         \/ UNCHANGED vars
  PROVE  IInv'
<1>1. UNCHANGED <<threads, activeThread, idCounter, status, waitingFor, wanToSendMe,
                  interrupted, halted>>
  BY DEF RegistreThreadToInterrupt, SendToNobody, vars
<1>2. utcb' \in [Tids -> Messages] /\ ids' \in [Vectors -> {0} \union Tids]
  <2>1. utcb \in [Tids -> Messages] /\ ids \in [Vectors -> {0} \union Tids]
    BY DEF IInv, TypeOK
  <2>2. CASE \E v \in Vectors : RegistreThreadToInterrupt(v)
    BY <2>1, <2>2, CallerIsReady DEF RegistreThreadToInterrupt
  <2>3. CASE \E to \in Names, w \in Words : SendToNobody(to, w)
    BY <2>1, <2>3, CallerIsReady, MessagesAreTyped DEF SendToNobody
  <2>4. CASE UNCHANGED vars
    BY <2>1, <2>4 DEF vars
  <2> QED BY <2>2, <2>3, <2>4
<1>3. TypeOK'
  BY <1>1, <1>2 DEF IInv, TypeOK
<1> QED
  BY <1>1, <1>3 DEF IInv, ScheduleInv, NoThreadLost, RootExists, RunsAReadyThread,
     QueueInv, SendersQueuedOnce, IsSending, NoMissedRendezvous, WaitingForIsFresh,
     NewThreadsAreFresh, Created

-----------------------------------------------------------------------------
(* The invariance theorems.                                                *)

LEMMA InitEstablishes == Init => IInv
<1> SUFFICES ASSUME Init PROVE IInv
  OBVIOUS
<1>1. /\ threads = <<FIRST_THREAD_ID>>
      /\ threads \in Seq(Tids) /\ DOMAIN threads = {1}
      /\ Created = {FIRST_THREAD_ID}
      /\ IsInjective(threads)
  BY Constants DEF Init, Created, Range, IsInjective
<1>2. TypeOK
  <2>1. 4 \in Tids \union {FIRST_THREAD_ID + MaxThreads}
    BY KernelAssumption DEF Tids, FIRST_THREAD_ID
  <2>2. wanToSendMe \in [Tids -> Seq(Tids)]
    BY DEF Init
  <2>3. status \in [Tids -> Statuses] /\ waitingFor \in [Tids -> Names]
    BY StatusesDiffer DEF Init, Names
  <2>4. /\ interrupted \in [Tids -> BOOLEAN] /\ utcb \in [Tids -> Messages]
        /\ ids \in [Vectors -> {0} \union Tids] /\ halted \in BOOLEAN
    BY MessagesAreTyped DEF Init
  <2>5. activeThread \in Tids \union {IdleThread}
    BY Constants DEF Init
  <2>6. idCounter = 4
    BY DEF Init, FIRST_THREAD_ID
  <2> QED BY <1>1, <2>1, <2>2, <2>3, <2>4, <2>5, <2>6 DEF TypeOK
<1>3. ScheduleInv
  <2>1. FIRST_THREAD_ID .. idCounter - 1 = {FIRST_THREAD_ID}
    BY DEF Init, FIRST_THREAD_ID
  <2>2. RunsAReadyThread
    BY <1>1, Constants DEF Init, RunsAReadyThread
  <2> QED BY <1>1, <2>1, <2>2 DEF ScheduleInv, NoThreadLost, RootExists
<1>4. QueueInv
  <2>1. \A r \in Tids : wanToSendMe[r] = <<>> /\ Range(wanToSendMe[r]) = {}
                        /\ IsInjective(wanToSendMe[r])
    BY DEF Init, Range, IsInjective
  <2> QED BY <2>1, StatusesDiffer
          DEF Init, QueueInv, SendersQueuedOnce, IsSending, NoMissedRendezvous,
              WaitingForIsFresh, NewThreadsAreFresh
<1> QED BY <1>2, <1>3, <1>4 DEF IInv

LEMMA NextKeeps == IInv /\ [Next]_vars => IInv'
<1> SUFFICES ASSUME IInv, [Next]_vars PROVE IInv'
  OBVIOUS
<1>1. CASE CreateThread
  BY <1>1, CreateThreadStep
<1>2. ASSUME NEW v \in Vectors, RegistreThreadToInterrupt(v) PROVE IInv'
  BY <1>2, OtherCallStep
<1>3. ASSUME NEW v \in Vectors, Interrupt(v) PROVE IInv'
  BY <1>3, InterruptStep
<1>4. ASSUME NEW to \in Names, NEW w \in Words, SendToNobody(to, w) PROVE IInv'
  BY <1>4, OtherCallStep
<1>5. ASSUME NEW to \in Names, NEW w \in Words, SendNow(to, w) PROVE IInv'
  BY <1>5, SendNowStep
<1>6. ASSUME NEW to \in Names, NEW w \in Words, SendLater(to, w) PROVE IInv'
  BY <1>6, SendLaterStep
<1>7. ASSUME NEW to \in Names, NEW w \in Words, SendReceiveNow(to, w) PROVE IInv'
  BY <1>7, SendReceiveNowStep
<1>8. ASSUME NEW to \in Names, NEW w \in Words, SendReceiveLater(to, w) PROVE IInv'
  BY <1>8, SendReceiveLaterStep
<1>9. CASE ReceiveAny
  BY <1>9, ReceiveAnyStep
<1>10. CASE ReceiveHardware
  BY <1>10, ReceiveHardwareStep
<1>11. ASSUME NEW src \in {FREE_THREAD_ENTRY} \union Tids, ReceiveFrom(src) PROVE IInv'
  BY <1>11, ReceiveFromStep
<1>12. CASE ClockInterrupt
  BY <1>12, ClockInterruptStep
<1>13. CASE UNCHANGED vars
  BY <1>13, OtherCallStep
<1> QED BY <1>1, <1>2, <1>3, <1>4, <1>5, <1>6, <1>7, <1>8, <1>9, <1>10, <1>11,
           <1>12, <1>13 DEF Next

\* The inductive invariant holds in every reachable state.
THEOREM Invariance == Spec => []IInv
  BY InitEstablishes, NextKeeps, PTL DEF Spec

\* Every variable keeps its type.
THEOREM TypeCorrect == Spec => []TypeOK
<1>1. IInv => TypeOK
  BY DEF IInv
<1> QED BY <1>1, Invariance, PTL
\* However often shedule() rotates the list, it holds every thread created, once.
THEOREM ThreadsAreKept == Spec => []NoThreadLost
<1>1. IInv => NoThreadLost
  BY DEF IInv, ScheduleInv
<1> QED BY <1>1, Invariance, PTL

\* A ready thread runs, the first in the list; the processor idles only when no
\* thread is ready.
THEOREM ProcessorIsUsed == Spec => []RunsAReadyThread
<1>1. IInv => RunsAReadyThread
  BY DEF IInv, ScheduleInv
<1> QED BY <1>1, Invariance, PTL

\* A thread blocked to send is in the queue of one thread, at one place.
THEOREM SendersAreQueuedOnce == Spec => []SendersQueuedOnce
<1>1. IInv => SendersQueuedOnce
  BY DEF IInv, QueueInv
<1> QED BY <1>1, Invariance, PTL

\* No thread sleeps in a receive that a queued sender or a pending interrupt could
\* end.
THEOREM RendezvousAreNotMissed == Spec => []NoMissedRendezvous
<1>1. IInv => NoMissedRendezvous
  BY DEF IInv, QueueInv
<1> QED BY <1>1, Invariance, PTL

-----------------------------------------------------------------------------
(* Action properties.                                                      *)

\* A pending interrupt is forgotten only in the step that hands it over.
THEOREM InterruptsAreHandedOver == Spec => InterruptsAreDelivered
<1> DEFINE A == \A t \in Tids : interrupted[t] /\ ~interrupted'[t] =>
                                  utcb'[t].src = HARDWARE_SOURCE
<1>1. ASSUME TypeOK, [Next]_vars PROVE A
  <2>1. ASSUME NEW t \in Tids, interrupted[t], ~interrupted'[t]
        PROVE  utcb'[t].src = HARDWARE_SOURCE
    <3>1. interrupted \in [Tids -> BOOLEAN] /\ utcb \in [Tids -> Messages]
      BY <1>1 DEF TypeOK
    <3>2. interrupted' # interrupted
      BY <2>1
    <3>3. CASE TakeInterrupt
      <4>1. /\ interrupted' = [interrupted EXCEPT ![me] = FALSE]
            /\ utcb' = [utcb EXCEPT ![me] = HardwareMessage(DeferredNumber)]
        BY <3>3 DEF TakeInterrupt
      <4>2. t = me
        BY <2>1, <3>1, <4>1
      <4> QED BY <3>1, <4>1, <4>2 DEF HardwareMessage
    <3>4. ASSUME NEW u, NEW v, SendHardwareIPC(u, v)
          PROVE  utcb'[t].src = HARDWARE_SOURCE
      <4>1. CASE ExpectsHardware(u)
        <5>1. /\ interrupted' = [interrupted EXCEPT ![u] = FALSE]
              /\ utcb' = [utcb EXCEPT ![u] = HardwareMessage(v)]
          BY <3>4, <4>1 DEF SendHardwareIPC
        <5>2. t = u
          BY <2>1, <3>1, <5>1
        <5> QED BY <3>1, <5>1, <5>2 DEF HardwareMessage
      <4>2. CASE ~ExpectsHardware(u)
        BY <2>1, <3>1, <3>4, <4>2 DEF SendHardwareIPC
      <4> QED BY <4>1, <4>2
    <3>5. TakeInterrupt \/ \E u \in Tids \union {0}, v \in Vectors : SendHardwareIPC(u, v)
      <4>1. CASE ReceiveAny \/ ReceiveHardware
        BY <3>2, <4>1 DEF ReceiveAny, ReceiveHardware, TakeMessage, Wait
      <4>2. CASE ClockInterrupt
        BY <1>1, <3>2, <4>2, KernelAssumption DEF ClockInterrupt, TypeOK
      <4>3. ASSUME NEW v \in Vectors, Interrupt(v)
            PROVE  \E u \in Tids \union {0} : SendHardwareIPC(u, v)
        BY <1>1, <3>2, <4>3 DEF Interrupt, TypeOK
      <4>4. CASE \/ CreateThread
                 \/ \E v \in Vectors : RegistreThreadToInterrupt(v)
                 \/ \E to \in Names, w \in Words :
                      \/ SendToNobody(to, w)
                      \/ SendNow(to, w)
                      \/ SendLater(to, w)
                      \/ SendReceiveNow(to, w)
                      \/ SendReceiveLater(to, w)
                 \/ \E src \in {FREE_THREAD_ENTRY} \union Tids : ReceiveFrom(src)
                 \/ UNCHANGED vars
        BY <3>2, <4>4
           DEF CreateThread, RegistreThreadToInterrupt, SendToNobody, SendNow, SendLater,
               SendReceiveNow, SendReceiveLater, ReceiveFrom, TakeMessage, Wait, vars
      <4> QED BY <1>1, <4>1, <4>2, <4>3, <4>4 DEF Next
    <3> QED BY <3>3, <3>4, <3>5
  <2> QED BY <2>1
<1> QED BY <1>1, TypeCorrect, PTL DEF Spec, InterruptsAreDelivered

\* In a list without repetitions a thread has one place.
LEMMA PlaceIsUnique ==
  ASSUME NEW T, NEW list \in Seq(T), IsInjective(list), NEW i \in DOMAIN list
  PROVE  PlaceIn(list, list[i]) = i
BY DEF PlaceIn, IsInjective

\* A ready thread that shedule() does not pick is not moved back, and it is moved
\* forward if another thread had the processor.
LEMMA SheduledBringsForward ==
  ASSUME NEW list \in Seq(Tids), IsInjective(list),
         NEW active \in Tids \union {IdleThread},
         NEW st \in [Tids -> Statuses],
         NEW run \in Sheduled(list, active, st),
         NEW t \in Range(list), st[t] = THREAD_READY, run.active # t
  PROVE  /\ active = IdleThread => PlaceIn(run.threads, t) <= PlaceIn(list, t)
         /\ active # IdleThread /\ t # Head(list) =>
              PlaceIn(run.threads, t) < PlaceIn(list, t)
<1> DEFINE r     == Requeued(list, active)
           ready == {i \in DOMAIN r : st[r[i]] = THREAD_READY}
<1>1. PICK i \in 1 .. Len(list) : list[i] = t
  BY DEF Range
<1>2. PlaceIn(list, t) = i
  BY <1>1, PlaceIsUnique
<1>3. SUFFICES ASSUME active # IdleThread => t # Head(list)
               PROVE  IF active = IdleThread THEN PlaceIn(run.threads, t) <= i
                                             ELSE PlaceIn(run.threads, t) < i
  BY <1>2
<1>4. /\ r \in Seq(Tids) /\ Len(r) = Len(list) /\ IsInjective(r)
  <2>1. 1 \in 0 .. Len(list)
    BY <1>1
  <2> QED BY <2>1, RotateProperties DEF Requeued
<1>5. PICK p \in 1 .. Len(r) :
         r[p] = t /\ p = (IF active = IdleThread THEN i ELSE i - 1)
  <2>1. CASE active = IdleThread
    BY <1>1, <2>1 DEF Requeued
  <2>2. CASE active # IdleThread
    <3>1. i # 1
      BY <1>1, <1>3, <2>2
    <3>2. i - 1 \in 1 .. Len(list) /\ r[i - 1] = list[i]
      BY <1>1, <2>2, <3>1 DEF Requeued, Rotate
    <3> QED BY <1>1, <1>4, <2>2, <3>2
  <2> QED BY <2>1, <2>2
<1> HIDE DEF r
<1>6. p \in ready
  BY <1>4, <1>5
<1>7. PICK k \in ready : /\ \A j \in ready : k <= j
                         /\ run = [threads |-> Rotate(r, k - 1), active |-> r[k]]
  BY <1>6 DEF Sheduled, r
<1>8. k \in 1 .. Len(r) /\ k <= p /\ k # p
  BY <1>4, <1>5, <1>6, <1>7
<1>9. /\ run.threads \in Seq(Tids) /\ IsInjective(run.threads)
      /\ Len(run.threads) = Len(r)
  <2>1. k - 1 \in 0 .. Len(r)
    BY <1>8
  <2> QED BY <1>4, <1>7, <2>1, RotateProperties
<1>10. p - k + 1 \in DOMAIN run.threads /\ run.threads[p - k + 1] = t
  <2> DEFINE j == p - k + 1
  <2>1. j \in 1 .. Len(r) /\ j + (k - 1) = p /\ p <= Len(r)
    BY <1>5, <1>8
  <2>2. run.threads = Rotate(r, k - 1)
    BY <1>7
  <2> HIDE DEF j
  <2>3. Rotate(r, k - 1)[j] = r[p]
    BY <2>1 DEF Rotate
  <2>4. j \in DOMAIN run.threads
    BY <1>9, <2>1
  <2> QED BY <1>5, <2>2, <2>3, <2>4 DEF j
<1>11. PlaceIn(run.threads, t) = p - k + 1
  BY <1>9, <1>10, PlaceIsUnique
<1> QED BY <1>5, <1>8, <1>11

\* The rotation of the list is round robin.
THEOREM ThreadsTakeTurns == Spec => RoundRobin
<1> DEFINE A == \A t \in Tids : Waits(t) /\ Waits(t)' =>
                  /\ Place(t)' <= Place(t)
                  /\ ClockInterrupt => Place(t)' < Place(t)
<1>1. ASSUME IInv, IInv', [Next]_vars PROVE A
  <2>0. SUFFICES ASSUME NEW t \in Tids, Waits(t), Waits(t)'
                 PROVE  /\ Place(t)' <= Place(t)
                        /\ ClockInterrupt => Place(t)' < Place(t)
    OBVIOUS
  <2>1. /\ threads \in Seq(Tids) /\ IsInjective(threads)
        /\ t \in Range(threads) /\ status[t] = THREAD_READY /\ activeThread # t
        /\ status' \in [Tids -> Statuses]
        /\ status'[t] = THREAD_READY /\ activeThread' # t
    BY <1>1, <2>0 DEF IInv, TypeOK, ScheduleInv, NoThreadLost, Waits, Created
  \* The processor is not idle, for t is ready.
  <2>2. /\ activeThread # IdleThread /\ activeThread \in Tids
        /\ activeThread = Head(threads)
    BY <1>1, <2>1 DEF IInv, TypeOK, ScheduleInv, RunsAReadyThread, Created
  <2>3. PICK i \in DOMAIN threads : threads[i] = t /\ Place(t) = i
    BY <2>1, PlaceIsUnique DEF Range, Place
  <2>4. i \in Nat
    BY <2>1, <2>3
  <2>5. ASSUME Become(Sheduled(threads, activeThread, status'))
        PROVE  Place(t)' < Place(t)
    BY <2>1, <2>2, <2>5, SheduledBringsForward DEF Become, Place
  <2>6. ASSUME NEW u
        PROVE  AfterHardwareIPC(u) = {[threads |-> threads, active |-> activeThread]}
    BY <2>2 DEF AfterHardwareIPC
  <2>7. ASSUME ClockInterrupt PROVE Place(t)' < Place(t)
    <3>1. Become(Sheduled(threads, activeThread, status'))
      BY <2>6, <2>7 DEF ClockInterrupt, Shedule
    <3> QED BY <2>5, <3>1
  <2>8. ASSUME threads' = threads PROVE Place(t)' = Place(t)
    BY <2>8 DEF Place
  <2>9. threads' \in Seq(Tids) /\ IsInjective(threads') /\ t \in Range(threads')
    BY <1>1, <2>0 DEF IInv, TypeOK, ScheduleInv, NoThreadLost, Waits, Created
  <2>10. ASSUME CreateThread PROVE Place(t)' = Place(t)
    <3>1. threads' = Append(threads, idCounter) /\ idCounter \in Tids
      BY <2>10 DEF CreateThread
    <3>2. i \in DOMAIN threads' /\ threads'[i] = t
      BY <2>1, <2>3, <3>1
    <3>3. PlaceIn(threads', t) = i
      BY <2>9, <3>2, PlaceIsUnique
    <3> QED BY <2>3, <3>3 DEF Place
  <2>11. ASSUME NEW v \in Vectors, Interrupt(v) PROVE Place(t)' = Place(t)
    BY <2>6, <2>8, <2>11 DEF Interrupt, Become
  <2>12. ASSUME \/ \E v \in Vectors : RegistreThreadToInterrupt(v)
                \/ \E to \in Names, w \in Words : SendToNobody(to, w) \/ SendNow(to, w)
                \/ UNCHANGED vars
         PROVE  Place(t)' = Place(t)
    BY <2>8, <2>12
       DEF RegistreThreadToInterrupt, SendToNobody, SendNow, Continue, vars
  <2>13. ASSUME \/ \E to \in Names, w \in Words :
                      \/ SendLater(to, w)
                      \/ SendReceiveNow(to, w)
                      \/ SendReceiveLater(to, w)
                \/ ReceiveAny
                \/ ReceiveHardware
                \/ \E src \in {FREE_THREAD_ENTRY} \union Tids : ReceiveFrom(src)
         PROVE  Place(t)' = Place(t) \/ Place(t)' < Place(t)
    <3>1. threads' = threads \/ Become(Sheduled(threads, activeThread, status'))
      BY <2>13 DEF SendLater, SendReceiveNow, SendReceiveLater, ReceiveAny,
         ReceiveHardware, ReceiveFrom, TakeMessage, TakeInterrupt, Wait, Continue, Shedule
    <3> QED BY <2>5, <2>8, <3>1
  <2>14. Place(t)' = Place(t) \/ Place(t)' < Place(t)
    BY <1>1, <2>7, <2>10, <2>11, <2>12, <2>13 DEF Next
  <2>15. Place(t)' <= Place(t)
    <3>1. PICK j \in DOMAIN threads' : threads'[j] = t
      BY <2>9 DEF Range
    <3>2. Place(t)' = j
      <4>1. PlaceIn(threads', t) = j
        BY <2>9, <3>1, PlaceIsUnique
      <4> QED BY <4>1 DEF Place
    <3>3. j \in Nat
      BY <2>9, <3>1
    <3> QED BY <2>3, <2>4, <2>14, <3>2, <3>3
  <2> QED BY <2>7, <2>15
<1> QED BY <1>1, Invariance, PTL DEF Spec, RoundRobin

-----------------------------------------------------------------------------
(* Kernel implements Rendezvous.                                           *)

\* Only threads that exist are registered for an interrupt, so that the kernel stops
\* for a vector exactly if nobody has registered for it.
RegisteredExist == \A v \in Vectors : ids[v] \in {0} \union Created

LEMMA OnlyTheRegisteredGrow ==
  ASSUME IInv, [Next]_vars
  PROVE  /\ idCounter' = idCounter \/ idCounter' = idCounter + 1
         /\ \/ ids' = ids
            \/ Calling /\ \E v \in Vectors : ids' = [ids EXCEPT ![v] = me]
            \/ \E v \in Vectors : ids' = [ids EXCEPT ![v] = 0]
<1>1. CASE \/ CreateThread \/ ReceiveAny \/ ReceiveHardware \/ UNCHANGED vars
           \/ \E src \in {FREE_THREAD_ENTRY} \union Tids : ReceiveFrom(src)
  BY <1>1 DEF CreateThread, ReceiveAny, ReceiveHardware, ReceiveFrom, TakeMessage,
              TakeInterrupt, Wait, vars
<1>2. CASE \E to \in Names, w \in Words :
             \/ SendToNobody(to, w) \/ SendNow(to, w) \/ SendLater(to, w)
             \/ SendReceiveNow(to, w) \/ SendReceiveLater(to, w)
  BY <1>2 DEF SendToNobody, SendNow, SendLater, SendReceiveNow, SendReceiveLater
<1>3. CASE \E v \in Vectors : RegistreThreadToInterrupt(v)
  BY <1>3 DEF RegistreThreadToInterrupt
<1>4. CASE \E v \in Vectors : Interrupt(v)
  BY <1>4 DEF Interrupt
<1>5. CASE ClockInterrupt
  BY <1>5, KernelAssumption DEF ClockInterrupt
<1> QED BY <1>1, <1>2, <1>3, <1>4, <1>5 DEF Next

LEMMA RegisteredInvariance == Spec => []RegisteredExist
<1>1. Init => RegisteredExist
  BY DEF Init, RegisteredExist
<1>2. ASSUME IInv, IInv', RegisteredExist, [Next]_vars PROVE RegisteredExist'
  <2>1. Created \subseteq Created'
    <3>1. idCounter \in Int /\ (idCounter' = idCounter \/ idCounter' = idCounter + 1)
      BY <1>2, OnlyTheRegisteredGrow, KernelAssumption
         DEF IInv, TypeOK, Tids, FIRST_THREAD_ID
    <3>2. NoThreadLost /\ NoThreadLost'
      BY <1>2 DEF IInv, ScheduleInv
    <3>3. Created = 3 .. idCounter - 1 /\ Created' = 3 .. idCounter' - 1
      BY <3>2 DEF NoThreadLost, FIRST_THREAD_ID
    <3> QED BY <3>1, <3>3
  <2>2. ids \in [Vectors -> {0} \union Tids]
    BY <1>2 DEF IInv, TypeOK
  <2>3. CASE ids' = ids
    BY <1>2, <2>1, <2>3 DEF RegisteredExist
  <2>4. ASSUME Calling, NEW v \in Vectors, ids' = [ids EXCEPT ![v] = me]
        PROVE  RegisteredExist'
    <3>1. me \in Created'
      BY <1>2, <2>1, <2>4, CallerIsReady
    <3> QED BY <1>2, <2>1, <2>2, <2>4, <3>1 DEF RegisteredExist
  <2>5. ASSUME NEW v \in Vectors, ids' = [ids EXCEPT ![v] = 0] PROVE RegisteredExist'
    BY <1>2, <2>1, <2>2, <2>5 DEF RegisteredExist
  <2> QED BY <1>2, <2>3, <2>4, <2>5, OnlyTheRegisteredGrow
<1> QED BY <1>1, <1>2, Invariance, PTL DEF Spec

-----------------------------------------------------------------------------
(* What the mapping makes of the state.                                    *)

\* How the promise sees a thread.
Seen(t) ==
  IF t \in Created THEN AbstractState(t) = StateOf(status[t])
                   ELSE AbstractState(t) = "absent"

\* The words for the statuses differ as the statuses do.
LEMMA StatesDiffer ==
  /\ StateOf(THREAD_READY) = "running"
  /\ StateOf(THREAD_RECEIVING) = "receiving"
  /\ StateOf(THREAD_SENDING) = "sending"
  /\ StateOf(THREAD_SENDING_RECEIVING) = "calling"
BY StatusesDiffer DEF StateOf

LEMMA ThreadsAreSeen == IInv => \A t \in Tids : Seen(t)
<1> SUFFICES ASSUME IInv, NEW t \in Tids PROVE Seen(t)
  OBVIOUS
<1>1. t \in Created <=> t < idCounter
  BY KernelAssumption DEF IInv, TypeOK, ScheduleInv, NoThreadLost, Tids, FIRST_THREAD_ID
<1>2. t < idCounter <=> ~(t >= idCounter)
  BY KernelAssumption DEF IInv, TypeOK, Tids, FIRST_THREAD_ID
<1> QED BY <1>1, <1>2 DEF Seen, AbstractState

LEMMA ThreadsWillBeSeen == IInv' => \A t \in Tids : Seen(t)'
<1>1. IInv' => (\A t \in Tids : Seen(t))'
  BY ThreadsAreSeen, PTL
<1> QED BY <1>1

LEMMA StateMeans ==
  ASSUME IInv, NEW t \in Tids
  PROVE  /\ t \notin Created => AbstractState(t) = "absent"
         /\ t \in Created =>
              /\ AbstractState(t) # "absent"
              /\ AbstractState(t) = "running"   <=> status[t] = THREAD_READY
              /\ AbstractState(t) = "receiving" <=> status[t] = THREAD_RECEIVING
              /\ AbstractState(t) = "sending"   <=> status[t] = THREAD_SENDING
              /\ AbstractState(t) = "calling"   <=> status[t] = THREAD_SENDING_RECEIVING
<1>1. status[t] \in Statuses /\ Seen(t)
  BY ThreadsAreSeen DEF IInv, TypeOK
<1> QED BY <1>1, StatesDiffer, StatusesDiffer DEF Seen

\* A queued sender is sending to the thread in whose queue it is.
LEMMA PeerOfSender ==
  ASSUME IInv, NEW r \in Tids, NEW t \in Range(wanToSendMe[r])
  PROVE  /\ t \in Tids /\ t \in Created /\ IsSending(t)
         /\ AbstractPeer(t) = r
<1>1. wanToSendMe[r] \in Seq(Tids)
  BY DEF IInv, TypeOK
<1>2. t \in Tids
  BY <1>1 DEF Range
<1>3. IsSending(t) /\ \A s \in Tids \ {r} : t \notin Range(wanToSendMe[s])
  BY DEF IInv, QueueInv, SendersQueuedOnce
<1>4. t \in Created
  BY <1>2, <1>3, StatusesDiffer DEF IInv, QueueInv, NewThreadsAreFresh, IsSending
<1>5. AbstractPeer(t) = r
  BY <1>3 DEF AbstractPeer
<1> QED BY <1>2, <1>3, <1>4, <1>5

LEMMA PeerOfSenderNext ==
  ASSUME IInv', NEW r \in Tids, NEW t \in Range(wanToSendMe'[r])
  PROVE  AbstractPeer(t)' = r
<1>1. /\ IsSending(t)'
      /\ \A s \in Tids \ {r} : t \notin Range(wanToSendMe'[s])
  BY DEF IInv, QueueInv, SendersQueuedOnce
<1> QED BY <1>1 DEF AbstractPeer

LEMMA PeerOfOthers ==
  ASSUME NEW t \in Tids, ~IsSending(t)
  PROVE  AbstractPeer(t) = waitingFor[t]
BY DEF AbstractPeer

\* The conditions of the promise are those of the kernel.
LEMMA ConditionsMatch ==
  ASSUME IInv
  PROVE  /\ \A t : Promise!Present(t) <=> t \in Created
         /\ \A r \in Tids : \A src : Promise!WaitsFor(r, src) <=> r \in Created /\ Expects(r, src)
         /\ \A s, r \in Tids : Promise!SendsTo(s, r) <=> s \in Range(wanToSendMe[r])
<1>1. ASSUME NEW t PROVE Promise!Present(t) <=> t \in Created
  <2>1. Created \subseteq Tids
    BY DEF IInv, TypeOK, Created, Range
  <2> QED BY <2>1, StateMeans DEF Promise!Present
<1>2. ASSUME NEW r \in Tids, NEW src
      PROVE  Promise!WaitsFor(r, src) <=> r \in Created /\ Expects(r, src)
  <2>1. AbstractState(r) = "receiving" <=> r \in Created /\ status[r] = THREAD_RECEIVING
    BY StateMeans
  <2>2. status[r] = THREAD_RECEIVING => AbstractPeer(r) = waitingFor[r]
    BY StatusesDiffer, PeerOfOthers DEF IsSending
  <2> QED BY <2>1, <2>2 DEF Promise!WaitsFor, Expects
<1>3. ASSUME NEW s \in Tids, NEW r \in Tids
      PROVE  Promise!SendsTo(s, r) <=> s \in Range(wanToSendMe[r])
  <2>1. ASSUME s \in Range(wanToSendMe[r]) PROVE Promise!SendsTo(s, r)
    <3>1. s \in Created /\ IsSending(s) /\ AbstractPeer(s) = r
      BY <2>1, PeerOfSender
    <3> QED BY <3>1, StateMeans DEF Promise!SendsTo, IsSending
  <2>2. ASSUME Promise!SendsTo(s, r) PROVE s \in Range(wanToSendMe[r])
    <3>1. AbstractState(s) \in {"sending", "calling"} /\ AbstractPeer(s) = r
      BY <2>2 DEF Promise!SendsTo
    <3>2. IsSending(s)
      BY <3>1, StateMeans DEF IsSending
    <3>3. PICK q \in Tids : s \in Range(wanToSendMe[q])
      BY <3>2 DEF IInv, QueueInv, SendersQueuedOnce
    <3>4. AbstractPeer(s) = q
      BY <3>3, PeerOfSender
    <3> QED BY <3>1, <3>3, <3>4
  <2> QED BY <2>1, <2>2
<1> QED BY <1>1, <1>2, <1>3

-----------------------------------------------------------------------------
(* Every step is one of the promise, one lemma for each kind.              *)

LEMMA SameThreads ==
  ASSUME IInv, IInv', idCounter' = idCounter
  PROVE  Created' = Created
<1>1. NoThreadLost /\ NoThreadLost'
  BY DEF IInv, ScheduleInv
<1> QED BY <1>1 DEF NoThreadLost

\* What the caller of a system call is to the promise.
LEMMA CallerMeans ==
  ASSUME IInv, Calling
  PROVE  /\ me \in Tids /\ me \in Created
         /\ Promise!Running(me)
         /\ AbstractState(me) = "running"
         /\ AbstractPeer(me) = FREE_THREAD_ENTRY
<1>1. /\ me \in Tids /\ me \in Created /\ status[me] = THREAD_READY
      /\ waitingFor[me] = FREE_THREAD_ENTRY /\ ~IsSending(me)
  BY CallerIsReady
<1>2. AbstractState(me) = "running"
  BY <1>1, StateMeans
<1>3. ~halted
  BY DEF Calling
<1> QED BY <1>1, <1>2, <1>3, PeerOfOthers DEF Promise!Running

\* Where neither the status nor the thread named change, the promise sees the same.
LEMMA Unseen ==
  ASSUME IInv, IInv', Created' = Created, NEW t \in Tids,
         status'[t] = status[t], waitingFor'[t] = waitingFor[t],
         \A r \in Tids : t \in Range(wanToSendMe[r]) => t \in Range(wanToSendMe'[r])
  PROVE  AbstractState(t)' = AbstractState(t) /\ AbstractPeer(t)' = AbstractPeer(t)
<1>1. AbstractState(t)' = AbstractState(t)
  BY ThreadsAreSeen, ThreadsWillBeSeen DEF Seen
<1>2. CASE IsSending(t)
  <2>1. PICK r \in Tids : t \in Range(wanToSendMe[r])
    BY <1>2 DEF IInv, QueueInv, SendersQueuedOnce
  <2>2. AbstractPeer(t) = r
    BY <2>1, PeerOfSender
  <2>3. t \in Range(wanToSendMe'[r])
    BY <2>1
  <2>4. AbstractPeer(t)' = r
    BY <2>3, PeerOfSenderNext
  <2> QED BY <1>1, <2>2, <2>4
<1>3. CASE ~IsSending(t)
  <2>1. ~IsSending(t)'
    BY <1>3 DEF IsSending
  <2> QED BY <1>1, <1>3, <2>1 DEF AbstractPeer
<1> QED BY <1>2, <1>3

\* A message to a thread that does not exist.
LEMMA SendToNobodyIsSend ==
  ASSUME IInv, IInv', NEW to \in Names, NEW w \in Words, SendToNobody(to, w)
  PROVE  Promise!Send(me, to, w)
<1>1. /\ to \notin Created /\ Created' = Created
      /\ utcb' = [utcb EXCEPT ![me] = FilledWith(w)]
      /\ UNCHANGED <<status, waitingFor, wanToSendMe, interrupted, ids, halted>>
  BY DEF SendToNobody, Created
<1>2. \A t \in Tids : AbstractState(t)' = AbstractState(t) /\ AbstractPeer(t)' = AbstractPeer(t)
  BY <1>1, Unseen
<1>3. ~Promise!Present(to)
  BY <1>1, ConditionsMatch
<1> QED BY <1>1, <1>2, <1>3 DEF Promise!Send, FilledWith

\* A message to a thread that waits for it: what is left to show is what the sender
\* does next.
LEMMA GiveStep ==
  ASSUME IInv, IInv', Calling, Created' = Created,
         NEW to \in Created, NEW w \in Words, Expects(to, me),
         NEW after \in {THREAD_READY, THREAD_RECEIVING}, NEW name,
         name = (IF after = THREAD_RECEIVING THEN to ELSE FREE_THREAD_ENTRY),
         utcb' = [utcb EXCEPT ![me] = FilledWith(w), ![to] = CopyOf(me, w)],
         status' = [status EXCEPT ![to] = THREAD_READY, ![me] = after],
         waitingFor' = [waitingFor EXCEPT ![to] = FREE_THREAD_ENTRY, ![me] = name],
         wanToSendMe' = wanToSendMe
  PROVE  Promise!Give(me, to, w, StateOf(after))
<1>1. /\ me \in Tids /\ me \in Created /\ to \in Tids /\ to # me
      /\ status \in [Tids -> Statuses] /\ waitingFor \in [Tids -> Names]
  BY CallerIsReady, StatusesDiffer DEF IInv, TypeOK, Created, Range, Expects
<1>2. /\ status'[to] = THREAD_READY /\ status'[me] = after
      /\ waitingFor'[to] = FREE_THREAD_ENTRY /\ waitingFor'[me] = name
      /\ \A t \in Tids \ {me, to} : status'[t] = status[t] /\ waitingFor'[t] = waitingFor[t]
  BY <1>1
<1>3. \A t \in Tids \ {me, to} :
        AbstractState(t)' = AbstractState(t) /\ AbstractPeer(t)' = AbstractPeer(t)
  BY <1>2, Unseen
<1>m. PICK m \in Tids : m = me
  BY <1>1
<1>4. AbstractState(to)' = "running" /\ AbstractState(m)' = StateOf(after)
  BY <1>1, <1>2, <1>m, ThreadsWillBeSeen, StatesDiffer DEF Seen
<1>5. AbstractPeer(to)' = FREE_THREAD_ENTRY /\ AbstractPeer(m)' = name
  BY <1>1, <1>2, <1>m, StatusesDiffer DEF AbstractPeer, IsSending
<1>6. Promise!WaitsFor(to, me)
  BY <1>1, ConditionsMatch
<1>7. name = IF StateOf(after) = "receiving" THEN to ELSE FREE_THREAD_ENTRY
  BY StatesDiffer, StatusesDiffer
<1> QED BY <1>1, <1>m, <1>3, <1>4, <1>5, <1>6, <1>7 DEF Promise!Give, FilledWith, CopyOf

\* A message to a thread that does not wait for it.
LEMMA OfferStep ==
  ASSUME IInv, IInv', Calling, Created' = Created,
         NEW to \in Created, NEW w \in Words, ~Expects(to, me),
         NEW op \in {THREAD_SENDING, THREAD_SENDING_RECEIVING},
         utcb' = [utcb EXCEPT ![me] = FilledWith(w)],
         status' = [status EXCEPT ![me] = op],
         wanToSendMe' = [wanToSendMe EXCEPT ![to] = Append(@, me)],
         \A t \in Tids \ {me} : waitingFor'[t] = waitingFor[t]
  PROVE  Promise!Offer(me, to, w, StateOf(op))
<1>1. /\ me \in Tids /\ me \in Created /\ to \in Tids
      /\ status \in [Tids -> Statuses]
  BY CallerIsReady DEF IInv, TypeOK, Created, Range
<1>2. /\ \A r \in Tids \ {to} : wanToSendMe'[r] = wanToSendMe[r]
      /\ Range(wanToSendMe'[to]) = Range(wanToSendMe[to]) \union {me}
  BY <1>1, CallerJoins
<1>3. \A t \in Tids \ {me} :
        AbstractState(t)' = AbstractState(t) /\ AbstractPeer(t)' = AbstractPeer(t)
  <2> TAKE t \in Tids \ {me}
  <2>1. status'[t] = status[t] /\ waitingFor'[t] = waitingFor[t]
    BY <1>1
  <2>2. \A r \in Tids : t \in Range(wanToSendMe[r]) => t \in Range(wanToSendMe'[r])
    BY <1>2
  <2> QED BY <2>1, <2>2, Unseen
<1>m. PICK m \in Tids : m = me
  BY <1>1
<1>4. AbstractState(m)' = StateOf(op)
  BY <1>1, <1>m, ThreadsWillBeSeen DEF Seen
<1>5. AbstractPeer(m)' = to
  BY <1>1, <1>m, <1>2, PeerOfSenderNext
<1>6. ~Promise!WaitsFor(to, me)
  BY <1>1, ConditionsMatch
<1> QED BY <1>1, <1>m, <1>3, <1>4, <1>5, <1>6 DEF Promise!Offer, FilledWith

LEMMA SendIsSend ==
  ASSUME IInv, IInv', NEW to \in Names, NEW w \in Words, SendNow(to, w) \/ SendLater(to, w)
  PROVE  Promise!Send(me, to, w)
<1>1. /\ Calling /\ to \in Created /\ Promise!Present(to)
      /\ UNCHANGED <<interrupted, ids, halted>>
  BY ConditionsMatch DEF SendNow, SendLater
<1>2. CASE SendNow(to, w)
  <2>1. status[me] = THREAD_READY /\ waitingFor[me] = FREE_THREAD_ENTRY /\ me \in Tids
    BY <1>1, CallerIsReady
  <2>2. /\ Expects(to, me)
        /\ utcb' = [utcb EXCEPT ![me] = FilledWith(w), ![to] = CopyOf(me, w)]
        /\ status' = [status EXCEPT ![to] = THREAD_READY]
        /\ waitingFor' = [waitingFor EXCEPT ![to] = FREE_THREAD_ENTRY]
        /\ wanToSendMe' = wanToSendMe
        /\ Created' = Created
    BY <1>2 DEF SendNow, Continue, Created
  <2>3. /\ status' = [status EXCEPT ![to] = THREAD_READY, ![me] = THREAD_READY]
        /\ waitingFor' = [waitingFor EXCEPT ![to] = FREE_THREAD_ENTRY,
                                            ![me] = FREE_THREAD_ENTRY]
    BY <2>1, <2>2 DEF IInv, TypeOK
  <2>4. Promise!Give(me, to, w, StateOf(THREAD_READY))
    BY <1>1, <2>2, <2>3, GiveStep, StatusesDiffer
  <2> QED BY <1>1, <2>4, StatesDiffer DEF Promise!Send
<1>3. CASE SendLater(to, w)
  <2>1. /\ ~Expects(to, me)
        /\ utcb' = [utcb EXCEPT ![me] = FilledWith(w)]
        /\ status' = [status EXCEPT ![me] = THREAD_SENDING]
        /\ wanToSendMe' = [wanToSendMe EXCEPT ![to] = Append(@, me)]
        /\ waitingFor' = waitingFor /\ idCounter' = idCounter
    BY <1>3 DEF SendLater
  <2>2. Created' = Created
    BY <2>1, SameThreads
  <2>3. Promise!Offer(me, to, w, StateOf(THREAD_SENDING))
    BY <1>1, <2>1, <2>2, OfferStep
  <2> QED BY <1>1, <2>3, StatesDiffer DEF Promise!Send
<1> QED BY <1>2, <1>3

LEMMA SendReceiveIsCall ==
  ASSUME IInv, IInv', NEW to \in Names, NEW w \in Words,
         SendReceiveNow(to, w) \/ SendReceiveLater(to, w)
  PROVE  Promise!Call(me, to, w)
<1>1. /\ Calling /\ to \in Created /\ Promise!Present(to)
      /\ UNCHANGED <<interrupted, ids, halted>>
      /\ idCounter' = idCounter
  BY ConditionsMatch DEF SendReceiveNow, SendReceiveLater
<1>2. Created' = Created
  BY <1>1, SameThreads
<1>3. CASE SendReceiveNow(to, w)
  <2>1. Promise!Give(me, to, w, StateOf(THREAD_RECEIVING))
    BY <1>1, <1>2, <1>3, GiveStep DEF SendReceiveNow
  <2> QED BY <1>1, <2>1, StatesDiffer DEF Promise!Call
<1>4. CASE SendReceiveLater(to, w)
  <2>1. \A t \in Tids \ {me} : waitingFor'[t] = waitingFor[t]
    BY <1>4 DEF SendReceiveLater, IInv, TypeOK
  <2>2. Promise!Offer(me, to, w, StateOf(THREAD_SENDING_RECEIVING))
    BY <1>1, <1>2, <1>4, <2>1, OfferStep DEF SendReceiveLater
  <2> QED BY <1>1, <2>2, StatesDiffer DEF Promise!Call
<1> QED BY <1>3, <1>4

\* The message of the k-th queued sender, from anybody or from that one.
LEMMA TakeMessageIsTake ==
  ASSUME IInv, IInv', Calling, NEW k \in DOMAIN wanToSendMe[me], TakeMessage(k)
  PROVE  wanToSendMe[me][k] \in Tids /\ Promise!Take(me, wanToSendMe[me][k])
<1>1. PICK m \in Tids : m = me
  BY CallerIsReady
<1>2. PICK who \in Range(wanToSendMe[m]) : who = wanToSendMe[m][k]
  BY <1>1 DEF Range
<1>3. /\ who \in Tids /\ who \in Created /\ IsSending(who) /\ AbstractPeer(who) = m
      /\ who # m
  BY <1>1, PeerOfSender, CallerIsReady
<1>4. /\ utcb' = [utcb EXCEPT ![m] = CopyOf(who, utcb[who].words)]
      /\ status' = [status EXCEPT ![who] = AfterSending(@)]
      /\ wanToSendMe' = [wanToSendMe EXCEPT ![m] = Tail(Rotate(@, k - 1))]
      /\ UNCHANGED <<idCounter, waitingFor, interrupted, ids, halted>>
  BY <1>1, <1>2 DEF TakeMessage
<1>5. Created' = Created
  BY <1>4, SameThreads
<1>6. /\ \A r \in Tids \ {m} : wanToSendMe'[r] = wanToSendMe[r]
      /\ Range(wanToSendMe'[m]) = Range(wanToSendMe[m]) \ {who}
  BY <1>1, <1>2, <1>4, RemoveProperties DEF IInv, TypeOK, QueueInv, SendersQueuedOnce
<1>7. \A t \in Tids \ {who} :
        AbstractState(t)' = AbstractState(t) /\ AbstractPeer(t)' = AbstractPeer(t)
  <2> TAKE t \in Tids \ {who}
  <2>1. status'[t] = status[t] /\ waitingFor'[t] = waitingFor[t]
    BY <1>4 DEF IInv, TypeOK
  <2>2. \A r \in Tids : t \in Range(wanToSendMe[r]) => t \in Range(wanToSendMe'[r])
    BY <1>6
  <2> QED BY <1>5, <2>1, <2>2, Unseen
<1>8. status'[who] = AfterSending(status[who])
  BY <1>3, <1>4 DEF IInv, TypeOK
<1>9. AbstractState(who)' = IF AbstractState(who) = "sending" THEN "running" ELSE "receiving"
  <2>1. AbstractState(who)' = StateOf(status'[who])
    BY <1>3, <1>5, ThreadsWillBeSeen DEF Seen
  <2> QED BY <1>3, <1>8, <2>1, StateMeans, StatesDiffer, StatusesDiffer DEF AfterSending, IsSending
<1>10. AbstractPeer(who)' = IF AbstractState(who) = "sending" THEN FREE_THREAD_ENTRY
                            ELSE AbstractPeer(who)
  <2>1. AbstractPeer(who)' = waitingFor[who]
    BY <1>3, <1>4, <1>8, StatusesDiffer DEF AbstractPeer, AfterSending, IsSending
  <2>2. CASE status[who] = THREAD_SENDING
    BY <1>3, <2>1, <2>2, StateMeans DEF IInv, QueueInv, WaitingForIsFresh
  <2>3. CASE status[who] = THREAD_SENDING_RECEIVING
    <3>1. waitingFor[who] = m
      BY <1>2, <2>3 DEF IInv, QueueInv, SendersQueuedOnce
    <3> QED BY <1>3, <2>1, <2>3, <3>1, StateMeans, StatusesDiffer
  <2> QED BY <1>3, <2>2, <2>3 DEF IsSending
<1>11. Promise!SendsTo(who, m)
  BY <1>2, <1>3, ConditionsMatch
<1>12. Promise!Take(m, who)
  BY <1>3, <1>4, <1>7, <1>9, <1>10, <1>11 DEF Promise!Take, CopyOf
<1> QED BY <1>1, <1>2, <1>3, <1>12

LEMMA TakeInterruptIsTake ==
  ASSUME IInv, IInv', Calling, interrupted[me], TakeInterrupt,
         \/ waitingFor' = waitingFor
         \/ waitingFor' = [waitingFor EXCEPT ![me] = FREE_THREAD_ENTRY]
  PROVE  Promise!TakeInterrupt(me) /\ UNCHANGED <<ids, halted>>
<1>1. /\ utcb' = [utcb EXCEPT ![me] = HardwareMessage(DeferredNumber)]
      /\ interrupted' = [interrupted EXCEPT ![me] = FALSE]
      /\ UNCHANGED <<idCounter, status, wanToSendMe, ids, halted>>
  BY DEF TakeInterrupt
<1>2. waitingFor' = waitingFor
  BY CallerIsReady DEF IInv, TypeOK
<1>3. Created' = Created
  BY <1>1, SameThreads
<1>4. \A t \in Tids : AbstractState(t)' = AbstractState(t) /\ AbstractPeer(t)' = AbstractPeer(t)
  BY <1>1, <1>2, <1>3, Unseen
<1> QED BY <1>1, <1>4 DEF Promise!TakeInterrupt, HardwareMessage

\* A receive that finds nothing.
LEMMA WaitIsBlock ==
  ASSUME IInv, IInv', Calling, NEW src \in Names, Wait(src),
         \A s \in Range(wanToSendMe[me]) : src \notin {s, ANY_SOURCE},
         interrupted[me] => src \notin {HARDWARE_SOURCE, ANY_SOURCE}
  PROVE  Promise!Block(me, src) /\ UNCHANGED <<ids, halted>>
<1>1. PICK m \in Tids : m = me
  BY CallerIsReady
<1>2. /\ utcb' = [utcb EXCEPT ![m] = Cleared]
      /\ status' = [status EXCEPT ![m] = THREAD_RECEIVING]
      /\ waitingFor' = [waitingFor EXCEPT ![m] = src]
      /\ UNCHANGED <<idCounter, wanToSendMe, interrupted, ids, halted>>
  BY <1>1 DEF Wait
<1>3. Created' = Created /\ m \in Created
  BY <1>1, <1>2, SameThreads, CallerIsReady
<1>4. /\ status'[m] = THREAD_RECEIVING /\ waitingFor'[m] = src
      /\ \A t \in Tids \ {m} : status'[t] = status[t] /\ waitingFor'[t] = waitingFor[t]
  BY <1>2 DEF IInv, TypeOK
<1>5. \A t \in Tids \ {m} :
        AbstractState(t)' = AbstractState(t) /\ AbstractPeer(t)' = AbstractPeer(t)
  BY <1>2, <1>3, <1>4, Unseen
<1>6. AbstractState(m)' = "receiving"
  BY <1>3, <1>4, ThreadsWillBeSeen, StatesDiffer DEF Seen
<1>7. AbstractPeer(m)' = src
  BY <1>4, StatusesDiffer DEF AbstractPeer, IsSending
<1>8. \A s \in Tids : Promise!SendsTo(s, m) => src \notin {s, ANY_SOURCE}
  BY <1>1, ConditionsMatch
<1> QED BY <1>1, <1>2, <1>5, <1>6, <1>7, <1>8 DEF Promise!Block, Cleared

LEMMA ReceiveIsReceive ==
  ASSUME IInv, IInv',
         \/ ReceiveAny \/ ReceiveHardware
         \/ \E src \in {FREE_THREAD_ENTRY} \union Tids : ReceiveFrom(src)
  PROVE  Calling /\ \E src \in Names : Promise!Receive(me, src)
<1>1. Calling
  BY DEF ReceiveAny, ReceiveHardware, ReceiveFrom
<1>2. me \in Tids /\ wanToSendMe[me] \in Seq(Tids) /\ interrupted[me] \in BOOLEAN
      /\ {FREE_THREAD_ENTRY, HARDWARE_SOURCE, ANY_SOURCE} \subseteq Names /\ Tids \subseteq Names
  BY <1>1, CallerIsReady, Constants DEF IInv, TypeOK, Names
<1>3. CASE ReceiveAny
  <2>1. CASE interrupted[me] /\ TakeInterrupt /\ UNCHANGED waitingFor
    BY <1>1, <1>2, <2>1, TakeInterruptIsTake DEF Promise!Receive
  <2>2. CASE ~interrupted[me] /\ wanToSendMe[me] # <<>> /\ TakeMessage(1)
    <3>1. 1 \in DOMAIN wanToSendMe[me]
      BY <1>2, <2>2
    <3>2. wanToSendMe[me][1] \in Tids /\ Promise!Take(me, wanToSendMe[me][1])
      BY <1>1, <2>2, <3>1, TakeMessageIsTake
    <3>3. UNCHANGED <<ids, halted>>
      BY <2>2 DEF TakeMessage
    <3> QED BY <1>1, <1>2, <2>2, <3>2, <3>3 DEF Promise!Receive
  <2>3. CASE ~interrupted[me] /\ wanToSendMe[me] = <<>> /\ Wait(ANY_SOURCE)
    <3>1. Range(wanToSendMe[me]) = {}
      BY <2>3 DEF Range
    <3>2. Promise!Block(me, ANY_SOURCE) /\ UNCHANGED <<ids, halted>>
      BY <1>1, <1>2, <2>3, <3>1, WaitIsBlock
    <3> QED BY <1>1, <1>2, <3>2 DEF Promise!Receive
  <2> QED BY <1>1, <1>3, <2>1, <2>2, <2>3 DEF ReceiveAny
<1>4. CASE ReceiveHardware
  <2>1. CASE /\ interrupted[me]
             /\ TakeInterrupt
             /\ waitingFor' = [waitingFor EXCEPT ![me] = FREE_THREAD_ENTRY]
    BY <1>1, <1>2, <2>1, TakeInterruptIsTake DEF Promise!Receive
  <2>2. CASE ~interrupted[me] /\ Wait(HARDWARE_SOURCE)
    <3>1. \A s \in Range(wanToSendMe[me]) : HARDWARE_SOURCE \notin {s, ANY_SOURCE}
      BY <1>2, Constants DEF Range, HARDWARE_SOURCE, ANY_SOURCE
    <3>2. Promise!Block(me, HARDWARE_SOURCE) /\ UNCHANGED <<ids, halted>>
      BY <1>1, <1>2, <2>2, <3>1, WaitIsBlock
    <3> QED BY <1>1, <1>2, <3>2 DEF Promise!Receive
  <2> QED BY <1>1, <1>4, <2>1, <2>2 DEF ReceiveHardware
<1>5. ASSUME NEW src \in {FREE_THREAD_ENTRY} \union Tids, ReceiveFrom(src)
      PROVE  Promise!Receive(me, src)
  <2>1. ASSUME NEW k \in DOMAIN wanToSendMe[me], wanToSendMe[me][k] = src, TakeMessage(k)
        PROVE  Promise!Receive(me, src)
    <3>1. src \in Tids /\ Promise!Take(me, src)
      BY <1>1, <2>1, TakeMessageIsTake
    <3>2. UNCHANGED <<ids, halted>>
      BY <2>1 DEF TakeMessage
    <3> QED BY <3>1, <3>2 DEF Promise!Receive
  <2>2. CASE src \notin Range(wanToSendMe[me]) /\ Wait(src)
    <3>1. src \notin {HARDWARE_SOURCE, ANY_SOURCE} /\ src \in Names
      BY Constants, <1>2
    <3>2. Promise!Block(me, src) /\ UNCHANGED <<ids, halted>>
      BY <1>1, <1>2, <2>2, <3>1, WaitIsBlock
    <3> QED BY <3>2 DEF Promise!Receive
  <2> QED BY <1>5, <2>1, <2>2 DEF ReceiveFrom
<1> QED BY <1>1, <1>2, <1>3, <1>4, <1>5

\* An interrupt for a thread that is registered.
LEMMA SendHardwareIsSignal ==
  ASSUME IInv, IInv', ~halted, NEW v \in Vectors, ids[v] \in Created,
         SendHardwareIPC(ids[v], v),
         UNCHANGED <<idCounter, wanToSendMe, ids, halted>>
  PROVE  Promise!Signal(v)
<1>1. PICK t \in Tids : t = ids[v] /\ t \in Created
  BY DEF IInv, TypeOK, Created, Range
<1>2. Created' = Created
  BY SameThreads
<1>3. /\ interrupted \in [Tids -> BOOLEAN] /\ status \in [Tids -> Statuses]
      /\ waitingFor \in [Tids -> Names]
  BY DEF IInv, TypeOK
<1>4. (AbstractState(t) = "receiving" /\ AbstractPeer(t) \in {HARDWARE_SOURCE, ANY_SOURCE})
        <=> ExpectsHardware(t)
  <2>1. AbstractState(t) = "receiving" <=> status[t] = THREAD_RECEIVING
    BY <1>1, StateMeans
  <2>2. status[t] = THREAD_RECEIVING => AbstractPeer(t) = waitingFor[t]
    BY PeerOfOthers, StatusesDiffer DEF IsSending
  <2> QED BY <2>1, <2>2 DEF ExpectsHardware
<1>5. CASE ExpectsHardware(t)
  <2>1. /\ status' = [status EXCEPT ![t] = THREAD_READY]
        /\ waitingFor' = [waitingFor EXCEPT ![t] = FREE_THREAD_ENTRY]
        /\ interrupted' = [interrupted EXCEPT ![t] = FALSE]
        /\ utcb' = [utcb EXCEPT ![t] = HardwareMessage(v)]
    BY <1>1, <1>5 DEF SendHardwareIPC
  <2>2. ~interrupted[t]
    BY <1>5 DEF ExpectsHardware, IInv, QueueInv, NoMissedRendezvous
  <2>3. interrupted' = interrupted
    BY <1>3, <2>1, <2>2
  <2>4. \A u \in Tids \ {t} :
          AbstractState(u)' = AbstractState(u) /\ AbstractPeer(u)' = AbstractPeer(u)
    BY <1>2, <1>3, <2>1, Unseen
  <2>5. status'[t] = THREAD_READY /\ waitingFor'[t] = FREE_THREAD_ENTRY
    BY <1>3, <2>1
  <2>6. AbstractState(t)' = "running"
    BY <1>1, <1>2, <2>5, ThreadsWillBeSeen, StatesDiffer DEF Seen
  <2>7. AbstractPeer(t)' = FREE_THREAD_ENTRY
    BY <2>5, StatusesDiffer DEF AbstractPeer, IsSending
  <2> QED BY <1>1, <1>4, <1>5, <2>1, <2>3, <2>4, <2>6, <2>7
          DEF Promise!Signal, HardwareMessage
<1>6. CASE ~ExpectsHardware(t)
  <2>1. /\ interrupted' = [interrupted EXCEPT ![t] = TRUE]
        /\ UNCHANGED <<status, waitingFor, utcb>>
    BY <1>1, <1>6 DEF SendHardwareIPC
  <2>2. \A u \in Tids : AbstractState(u)' = AbstractState(u) /\ AbstractPeer(u)' = AbstractPeer(u)
    BY <1>2, <2>1, Unseen
  <2> QED BY <1>1, <1>4, <1>6, <2>1, <2>2 DEF Promise!Signal
<1> QED BY <1>5, <1>6

\* What only the scheduler does is not seen.
LEMMA SchedulingIsUnseen ==
  ASSUME IInv, IInv',
         UNCHANGED <<idCounter, status, waitingFor, wanToSendMe, interrupted, utcb, ids, halted>>
  PROVE  UNCHANGED Promise!vars
<1>1. Created' = Created
  BY SameThreads
<1>2. \A t \in Tids : AbstractState(t)' = AbstractState(t) /\ AbstractPeer(t)' = AbstractPeer(t)
  BY <1>1, Unseen
<1> QED BY <1>2 DEF Promise!vars

LEMMA InterruptIsSignal ==
  ASSUME IInv, IInv', RegisteredExist, NEW v \in Vectors, Interrupt(v)
  PROVE  Promise!Signal(v)
<1>1. ~halted /\ ids \in [Vectors -> {0} \union Tids]
  BY DEF Interrupt, IInv, TypeOK
<1>2. CASE ids[v] \in Created
  BY <1>1, <1>2, SendHardwareIsSignal DEF Interrupt
<1>3. CASE ids[v] \notin Created
  <2>1. ids' = [ids EXCEPT ![v] = 0] /\ halted' = TRUE
        /\ UNCHANGED <<idCounter, status, waitingFor, wanToSendMe, interrupted, utcb>>
    BY <1>3 DEF Interrupt
  <2>2. ids[v] = 0 /\ ids' = ids
    BY <1>1, <1>3, <2>1 DEF RegisteredExist
  <2>3. ids[v] \notin Tids
    BY <2>2, Constants DEF FREE_THREAD_ENTRY
  <2>4. Created' = Created
    BY <2>1, SameThreads
  <2>5. \A t \in Tids : AbstractState(t)' = AbstractState(t) /\ AbstractPeer(t)' = AbstractPeer(t)
    BY <2>1, <2>4, Unseen
  <2> QED BY <1>1, <2>1, <2>2, <2>3, <2>5 DEF Promise!Signal
<1> QED BY <1>2, <1>3

\* A tick that nobody has registered for does nothing that a thread sees.
LEMMA ClockInterruptIsSignal ==
  ASSUME IInv, IInv', RegisteredExist, ClockInterrupt
  PROVE  Promise!Signal(ClockVector) \/ UNCHANGED Promise!vars
<1>1. /\ ~halted /\ ids \in [Vectors -> {0} \union Tids] /\ ClockVector \in Vectors
      /\ UNCHANGED <<idCounter, wanToSendMe, halted>>
  BY KernelAssumption DEF ClockInterrupt, IInv, TypeOK
<1>2. CASE ids[ClockVector] \in Created
  BY <1>1, <1>2, SendHardwareIsSignal DEF ClockInterrupt
<1>3. CASE ids[ClockVector] \notin Created
  <2>1. /\ ids' = [ids EXCEPT ![ClockVector] = 0]
        /\ UNCHANGED <<status, waitingFor, interrupted, utcb>>
    BY <1>3 DEF ClockInterrupt
  <2>2. ids' = ids
    BY <1>1, <1>3, <2>1 DEF RegisteredExist
  <2> QED BY <1>1, <2>1, <2>2, SchedulingIsUnseen
<1> QED BY <1>2, <1>3

LEMMA CreateThreadIsSpawn ==
  ASSUME IInv, IInv', CreateThread
  PROVE  Calling /\ \E child \in Tids : Promise!Spawn(child)
<1>1. PICK child \in Tids : child = idCounter
  BY DEF CreateThread
<1>2. /\ Calling /\ threads' = Append(threads, child) /\ threads \in Seq(Tids)
      /\ UNCHANGED <<status, waitingFor, wanToSendMe, interrupted, utcb, ids, halted>>
  BY <1>1 DEF CreateThread, IInv, TypeOK
<1>3. Created' = Created \union {child} /\ child \notin Created
  <2>1. Created' = Created \union {child}
    BY <1>2, AppendProperties DEF Created
  <2>2. child \notin Created
    BY <1>1, KernelAssumption DEF IInv, ScheduleInv, NoThreadLost, Tids, FIRST_THREAD_ID
  <2> QED BY <2>1, <2>2
<1>4. \A t \in Tids \ {child} : AbstractState(t)' = AbstractState(t)
  BY <1>2, <1>3, ThreadsAreSeen, ThreadsWillBeSeen DEF Seen
<1>5. AbstractState(child) = "absent" /\ AbstractState(child)' = "running"
  <2>1. status[child] = THREAD_READY
    BY <1>3 DEF IInv, QueueInv, NewThreadsAreFresh
  <2> QED BY <1>2, <1>3, <2>1, ThreadsAreSeen, ThreadsWillBeSeen, StatesDiffer DEF Seen
<1>6. \A t \in Tids : AbstractPeer(t)' = AbstractPeer(t)
  BY <1>2 DEF AbstractPeer, IsSending
<1> QED BY <1>2, <1>4, <1>5, <1>6 DEF Promise!Spawn

LEMMA RegisterIsClaim ==
  ASSUME IInv, IInv', NEW v \in Vectors, RegistreThreadToInterrupt(v)
  PROVE  Calling /\ Promise!Claim(me, v)
<1>1. /\ Calling /\ ids' = [ids EXCEPT ![v] = me]
      /\ UNCHANGED <<idCounter, status, waitingFor, wanToSendMe, interrupted, utcb, halted>>
  BY DEF RegistreThreadToInterrupt
<1>2. Created' = Created
  BY <1>1, SameThreads
<1>3. \A t \in Tids : AbstractState(t)' = AbstractState(t) /\ AbstractPeer(t)' = AbstractPeer(t)
  BY <1>1, <1>2, Unseen
<1> QED BY <1>1, <1>3 DEF Promise!Claim

LEMMA StepKeepsPromise ==
  ASSUME IInv, IInv', RegisteredExist, [Next]_vars
  PROVE  [Promise!Next]_Promise!vars
<1> USE DEF Promise!Sources, Names
<1>1. ASSUME Calling, Promise!Step(me) PROVE Promise!Next
  BY <1>1, CallerMeans DEF Promise!Next
<1>2. CASE CreateThread
  BY <1>1, <1>2, CreateThreadIsSpawn DEF Promise!Step
<1>3. ASSUME NEW v \in Vectors, RegistreThreadToInterrupt(v) PROVE Promise!Next
  BY <1>1, <1>3, RegisterIsClaim DEF Promise!Step
<1>4. ASSUME NEW v \in Vectors, Interrupt(v) PROVE Promise!Next
  BY <1>4, InterruptIsSignal DEF Promise!Next
<1>5. ASSUME NEW to \in Names, NEW w \in Words,
             \/ SendToNobody(to, w) \/ SendNow(to, w) \/ SendLater(to, w)
             \/ SendReceiveNow(to, w) \/ SendReceiveLater(to, w)
      PROVE  Promise!Next
  <2>1. Calling
    BY <1>5 DEF SendToNobody, SendNow, SendLater, SendReceiveNow, SendReceiveLater
  <2>2. Promise!Send(me, to, w) \/ Promise!Call(me, to, w)
    BY <1>5, SendToNobodyIsSend, SendIsSend, SendReceiveIsCall
  <2> QED BY <1>1, <2>1, <2>2 DEF Promise!Step
<1>6. CASE \/ ReceiveAny \/ ReceiveHardware
           \/ \E src \in {FREE_THREAD_ENTRY} \union Tids : ReceiveFrom(src)
  <2>1. Calling /\ \E src \in Names : Promise!Receive(me, src)
    BY <1>6, ReceiveIsReceive
  <2> QED BY <1>1, <2>1 DEF Promise!Step
<1>7. CASE ClockInterrupt
  BY <1>7, ClockInterruptIsSignal, KernelAssumption DEF Promise!Next
<1>8. CASE UNCHANGED vars
  BY <1>8, SchedulingIsUnseen DEF vars
<1> QED BY <1>2, <1>3, <1>4, <1>5, <1>6, <1>7, <1>8 DEF Next

LEMMA InitKeepsPromise == Init => Promise!Init
<1> SUFFICES ASSUME Init PROVE Promise!Init
  OBVIOUS
<1>1. IInv
  BY InitEstablishes
<1>2. Created = {FIRST_THREAD_ID}
  BY DEF Init, Created, Range
<1>3. \A t \in Tids : AbstractState(t) = IF t = FIRST_THREAD_ID THEN "running" ELSE "absent"
  BY <1>1, <1>2, ThreadsAreSeen, StatesDiffer DEF Init, Seen
<1>4. \A t \in Tids : AbstractPeer(t) = FREE_THREAD_ENTRY
  BY StatusesDiffer DEF Init, AbstractPeer, IsSending
<1> QED BY <1>3, <1>4, Constants DEF Init, Promise!Init, Cleared

\* The kernel implements the rendezvous: run queue, queues of senders, the flag of a
\* pending interrupt and the two sides of a blocked thread's state, through every
\* handler, add up to sends and receives that meet in one step.
THEOREM KernelKeepsPromise == Spec => KeepsPromise
<1>1. IInv /\ IInv' /\ RegisteredExist /\ [Next]_vars => [Promise!Next]_Promise!vars
  BY StepKeepsPromise
<1> QED BY <1>1, InitKeepsPromise, Invariance, RegisteredInvariance, PTL
        DEF Spec, KeepsPromise, Promise!Spec

=============================================================================
