---------------------------- MODULE QueueProofs -----------------------------
(***************************************************************************)
(* A Queue of any size is first in, first out: the ring buffer of          *)
(* queue.cpp implements Fifo.                                              *)
(***************************************************************************)
EXTENDS Queue, SequenceTheorems, TLAPS

\* Indexes and lengths are remainders of numbers between -m and 2m.
LEMMA Remainders ==
  ASSUME NEW m \in Nat \ {0}, NEW a \in Int, -m <= a, a < 2 * m
  PROVE  a % m = IF a < 0 THEN a + m ELSE IF a < m THEN a ELSE a - m
<1>1. CASE a < 0
  BY <1>1
<1>2. CASE 0 <= a /\ a < m
  BY <1>2
<1>3. CASE m <= a
  BY <1>3
<1> QED BY <1>1, <1>2, <1>3

\* An iterator meets end after at most MaxCount - 1 steps.
LEMMA LengthIs ==
  ASSUME NEW m \in Nat \ {0}, NEW f \in 0 .. m - 1, NEW e \in 0 .. m - 1
  PROVE  (e - f) % m = IF f <= e THEN e - f ELSE e - f + m
<1>1. e - f \in Int /\ -m <= e - f /\ e - f < 2 * m
  OBVIOUS
<1>2. (e - f) % m = IF e - f < 0 THEN (e - f) + m ELSE IF e - f < m THEN e - f ELSE (e - f) - m
  BY <1>1, Remainders
<1> QED BY <1>2

\* The slot i places after slot f, in a buffer of m slots.
LEMMA SlotIs ==
  ASSUME NEW m \in Nat \ {0}, NEW f \in 0 .. m - 1, NEW i \in 0 .. m
  PROVE  (f + i) % m = IF f + i < m THEN f + i ELSE f + i - m
<1>1. f + i \in Int /\ -m <= f + i /\ f + i < 2 * m
  OBVIOUS
<1>2. (f + i) % m = IF f + i < 0 THEN (f + i) + m ELSE IF f + i < m THEN f + i ELSE (f + i) - m
  BY <1>1, Remainders
<1> QED BY <1>2

\* The elements of a buffer d of m slots, from slot f to the slot before e.
Elems(m, f, e, d) == [i \in 1 .. (e - f) % m |-> d[(f + (i - 1)) % m]]

LEMMA ContentsIs == Contents = Elems(MaxCount, front, end, data)
BY DEF Contents, Length, Slot, Elems

\* The index in the buffer of the i-th element of a queue.
At(m, f, i) == IF f + (i - 1) < m THEN f + (i - 1) ELSE f + (i - 1) - m

\* The elements one by one.
LEMMA ElemsAre ==
  ASSUME NEW m \in Nat \ {0}, NEW f \in 0 .. m - 1, NEW e \in 0 .. m - 1, NEW d
  PROVE  Elems(m, f, e, d) =
           [i \in 1 .. (IF f <= e THEN e - f ELSE e - f + m) |-> d[At(m, f, i)]]
<1> DEFINE n == IF f <= e THEN e - f ELSE e - f + m
<1>1. (e - f) % m = n
  BY LengthIs
<1>2. n \in 0 .. m - 1
  OBVIOUS
<1>3. ASSUME NEW i \in 1 .. n PROVE (f + (i - 1)) % m = At(m, f, i)
  <2>1. i - 1 \in 0 .. m
    BY <1>2
  <2> QED BY <2>1, SlotIs DEF At
<1> HIDE DEF n
<1>4. Elems(m, f, e, d) = [i \in 1 .. n |-> d[(f + (i - 1)) % m]]
  BY <1>1 DEF Elems
<1>5. Elems(m, f, e, d) = [i \in 1 .. n |-> d[At(m, f, i)]]
  BY <1>3, <1>4
<1> QED BY <1>5 DEF n

\* The slot after slot i.
LEMMA AfterIs ==
  ASSUME IndexesOK, NEW i \in 0 .. MaxCount - 1
  PROVE  /\ After(i) = IF i + 1 = MaxCount THEN 0 ELSE i + 1
         /\ After(i) \in 0 .. MaxCount - 1
<1>1. MaxCount \in Nat \ {0} /\ 1 \in 0 .. MaxCount
  BY DEF IndexesOK
<1>2. (i + 1) % MaxCount = IF i + 1 < MaxCount THEN i + 1 ELSE i + 1 - MaxCount
  BY <1>1, SlotIs
<1> QED BY <1>1, <1>2 DEF After

\* The number of elements, and where the enlarged buffer ends.
LEMMA LengthFits ==
  ASSUME IndexesOK
  PROVE  /\ Length = IF front <= end THEN end - front ELSE end - front + MaxCount
         /\ Length \in 0 .. MaxCount - 1
         /\ (Length + 1) % (2 * MaxCount) =
              IF Length + 1 = 2 * MaxCount THEN 0 ELSE Length + 1
<1>1. /\ MaxCount \in Nat \ {0}
      /\ front \in 0 .. MaxCount - 1 /\ end \in 0 .. MaxCount - 1
  BY DEF IndexesOK
<1>2. Length = IF front <= end THEN end - front ELSE end - front + MaxCount
  BY <1>1, LengthIs DEF Length
<1>3. Length \in 0 .. MaxCount - 1
  BY <1>1, <1>2
<1> DEFINE m == 2 * MaxCount
           n == Length
<1>4. /\ m \in Nat \ {0} /\ n \in 0 .. m - 1 /\ 1 \in 0 .. m
  BY <1>1, <1>3
<1> HIDE DEF m, n
<1>5. (n + 1) % m = IF n + 1 < m THEN n + 1 ELSE n + 1 - m
  BY <1>4, SlotIs
<1>6. (n + 1) % m = IF n + 1 = m THEN 0 ELSE n + 1
  BY <1>4, <1>5
<1> QED BY <1>2, <1>3, <1>6 DEF m, n

\* What the copy of a full buffer holds.
LEMMA EnlargedIs ==
  ASSUME IndexesOK
  PROVE  /\ Enlarged \in [0 .. 2 * MaxCount - 1 -> Elements \union {Garbage}]
         /\ Enlarged = [i \in 0 .. 2 * MaxCount - 1 |->
              IF i < Length
              THEN data[IF front + i < MaxCount THEN front + i ELSE front + i - MaxCount]
              ELSE Garbage]
<1>1. /\ MaxCount \in Nat \ {0} /\ front \in 0 .. MaxCount - 1
      /\ Length \in 0 .. MaxCount - 1
      /\ data \in [0 .. MaxCount - 1 -> Elements \union {Garbage}]
  BY LengthFits DEF IndexesOK
<1>2. ASSUME NEW i \in 0 .. 2 * MaxCount - 1, i < Length
      PROVE  Slot(i) = IF front + i < MaxCount THEN front + i ELSE front + i - MaxCount
  <2>1. i \in 0 .. MaxCount
    BY <1>1, <1>2
  <2> QED BY <1>1, <2>1, SlotIs DEF Slot
<1>3. Enlarged = [i \in 0 .. 2 * MaxCount - 1 |->
         IF i < Length
         THEN data[IF front + i < MaxCount THEN front + i ELSE front + i - MaxCount]
         ELSE Garbage]
  BY <1>2 DEF Enlarged
<1>4. ASSUME NEW i \in 0 .. 2 * MaxCount - 1, i < Length
      PROVE  (IF front + i < MaxCount THEN front + i ELSE front + i - MaxCount)
               \in 0 .. MaxCount - 1
  BY <1>1, <1>4
<1> QED BY <1>1, <1>3, <1>4

\* The indexes stay inside the buffer, whatever the operations.
THEOREM IndexesFit == Spec => []IndexesOK
<1>1. Init => IndexesOK
  BY QueueAssumption DEF Init, IndexesOK
<1>2. ASSUME IndexesOK, [Next]_vars PROVE IndexesOK'
  <2>1. ASSUME NEW v \in Elements, Enqueue(v) PROVE IndexesOK'
    <3>1. CASE After(end) # front
      BY <1>2, <2>1, <3>1, AfterIs DEF Enqueue, IndexesOK
    <3>2. CASE After(end) = front
      <4>1. /\ MaxCount' = 2 * MaxCount /\ front' = 0
            /\ data' = [Enlarged EXCEPT ![Length] = v]
            /\ end' = (Length + 1) % (2 * MaxCount)
            /\ returned' = returned
        BY <2>1, <3>2 DEF Enqueue
      <4>2. MaxCount' \in Nat \ {0} /\ front' \in 0 .. MaxCount' - 1
        BY <1>2, <4>1 DEF IndexesOK
      <4>3. end' \in 0 .. MaxCount' - 1
        BY <1>2, <4>1, LengthFits DEF IndexesOK
      <4>4. data' \in [0 .. MaxCount' - 1 -> Elements \union {Garbage}]
        BY <1>2, <4>1, EnlargedIs
      <4> QED BY <1>2, <4>1, <4>2, <4>3, <4>4 DEF IndexesOK
    <3> QED BY <3>1, <3>2
  <2>2. CASE Dequeue
    BY <1>2, <2>2, AfterIs DEF Dequeue, IndexesOK
  <2>3. CASE Front
    BY <1>2, <2>3 DEF Front, IndexesOK
  <2>4. CASE UNCHANGED vars
    BY <1>2, <2>4 DEF vars, IndexesOK
  <2> QED BY <1>2, <2>1, <2>2, <2>3, <2>4 DEF Next
<1> QED BY <1>1, <1>2, PTL DEF Spec

\* How to recognise a sequence with one element more, and one with one less.
LEMMA IsAppend ==
  ASSUME NEW T, NEW s \in Seq(T), NEW v \in T,
         NEW u \in [1 .. Len(s) + 1 -> T],
         \A i \in 1 .. Len(s) : u[i] = s[i],
         u[Len(s) + 1] = v
  PROVE  u = Append(s, v)
<1>1. \A i \in 1 .. Len(s) + 1 : u[i] = Append(s, v)[i]
  OBVIOUS
<1>2. Append(s, v) \in Seq(T) /\ Len(Append(s, v)) = Len(s) + 1
  OBVIOUS
<1>3. Append(s, v) \in [1 .. Len(s) + 1 -> T]
  BY <1>2, LenProperties
<1> QED BY <1>1, <1>3

LEMMA IsTail ==
  ASSUME NEW T, NEW s \in Seq(T), s # <<>>, NEW u,
         u = [i \in 1 .. Len(s) - 1 |-> s[i + 1]]
  PROVE  u = Tail(s)
<1>1. Tail(s) \in Seq(T) /\ Len(Tail(s)) = Len(s) - 1
  OBVIOUS
<1>2. Tail(s) \in [1 .. Len(s) - 1 -> T]
  BY <1>1, LenProperties
<1>3. \A i \in 1 .. Len(s) - 1 : Tail(s)[i] = s[i + 1]
  OBVIOUS
<1> QED BY <1>2, <1>3

\* What the contents of a queue are.
LEMMA ContentsAre ==
  ASSUME IndexesOK
  PROVE  /\ Contents = [i \in 1 .. Length |-> data[At(MaxCount, front, i)]]
         /\ Contents \in Seq(Elements \union {Garbage})
         /\ Len(Contents) = Length
<1>1. /\ MaxCount \in Nat \ {0} /\ front \in 0 .. MaxCount - 1
      /\ end \in 0 .. MaxCount - 1 /\ Length \in 0 .. MaxCount - 1
      /\ Length = IF front <= end THEN end - front ELSE end - front + MaxCount
      /\ data \in [0 .. MaxCount - 1 -> Elements \union {Garbage}]
  BY LengthFits DEF IndexesOK
<1>2. Contents = [i \in 1 .. Length |-> data[At(MaxCount, front, i)]]
  BY <1>1, ContentsIs, ElemsAre
<1>3. ASSUME NEW i \in 1 .. Length PROVE At(MaxCount, front, i) \in 0 .. MaxCount - 1
  BY <1>1 DEF At
<1> QED BY <1>1, <1>2, <1>3

\* The same of the contents after a step.
LEMMA ContentsWillBe ==
  ASSUME IndexesOK'
  PROVE  Contents' =
           [i \in 1 .. (IF front' <= end' THEN end' - front' ELSE end' - front' + MaxCount')
              |-> data'[At(MaxCount', front', i)]]
<1>1. /\ MaxCount' \in Nat \ {0}
      /\ front' \in 0 .. MaxCount' - 1 /\ end' \in 0 .. MaxCount' - 1
  BY DEF IndexesOK
<1>2. ASSUME NEW m \in Nat \ {0}, NEW f \in 0 .. m - 1, NEW e \in 0 .. m - 1, NEW d,
             MaxCount' = m, front' = f, end' = e, data' = d
      PROVE  Contents' = [i \in 1 .. (IF f <= e THEN e - f ELSE e - f + m) |-> d[At(m, f, i)]]
  <2>1. Contents' = Elems(m, f, e, d)
    BY <1>2 DEF Contents, Length, Slot, Elems
  <2> QED BY <2>1, ElemsAre
<1> QED BY <1>1, <1>2

\* Enqueue appends: in the slot at end, or at the end of the enlarged buffer.
LEMMA EnqueueAppends ==
  ASSUME IndexesOK, IndexesOK', NEW v \in Elements, Enqueue(v)
  PROVE  Contents' = Append(Contents, v)
<1> DEFINE n == Length
<1>1. /\ MaxCount \in Nat \ {0} /\ front \in 0 .. MaxCount - 1
      /\ end \in 0 .. MaxCount - 1 /\ n \in 0 .. MaxCount - 1
      /\ n = IF front <= end THEN end - front ELSE end - front + MaxCount
      /\ data \in [0 .. MaxCount - 1 -> Elements \union {Garbage}]
  BY LengthFits DEF IndexesOK
<1>2. /\ Contents = [i \in 1 .. n |-> data[At(MaxCount, front, i)]]
      /\ Contents \in Seq(Elements \union {Garbage}) /\ Len(Contents) = n
  BY ContentsAre
<1>3. After(end) = IF end + 1 = MaxCount THEN 0 ELSE end + 1
  BY <1>1, AfterIs
<1>4. CASE After(end) # front
  <2>1. /\ MaxCount' = MaxCount /\ front' = front /\ end' = After(end)
        /\ data' = [data EXCEPT ![end] = v]
    BY <1>4 DEF Enqueue
  <2> HIDE DEF n
  <2>2. (IF front' <= end' THEN end' - front' ELSE end' - front' + MaxCount') = n + 1
    BY <1>1, <1>3, <1>4, <2>1
  <2>3. Contents' = [i \in 1 .. n + 1 |-> data'[At(MaxCount, front, i)]]
    BY <2>1, <2>2, ContentsWillBe
  <2>4. ASSUME NEW i \in 1 .. n
        PROVE  At(MaxCount, front, i) # end /\ At(MaxCount, front, i) \in 0 .. MaxCount - 1
    BY <1>1 DEF At
  <2>5. At(MaxCount, front, n + 1) = end
    BY <1>1 DEF At
  <2>6. \A i \in 1 .. n : Contents'[i] = Contents[i]
    BY <1>1, <1>2, <2>1, <2>3, <2>4
  <2>7. Contents'[n + 1] = v /\ Contents' = [i \in 1 .. n + 1 |-> Contents'[i]]
    BY <1>1, <2>1, <2>3, <2>5
  <2>8. ASSUME NEW s, NEW u, Contents = s, Contents' = u PROVE u = Append(s, v)
    <3>1. s \in Seq(Elements \union {Garbage}) /\ Len(s) = n /\ n \in Nat
      BY <1>1, <1>2, <2>8
    <3>2. u \in [1 .. n + 1 -> Elements \union {Garbage}]
      BY <3>1, <2>6, <2>7, <2>8
    <3> QED BY <2>6, <2>7, <2>8, <3>1, <3>2, IsAppend
  <2> QED BY <2>8
<1>5. CASE After(end) = front
  <2>1. /\ MaxCount' = 2 * MaxCount /\ front' = 0
        /\ data' = [Enlarged EXCEPT ![n] = v]
        /\ end' = (n + 1) % (2 * MaxCount)
    BY <1>5 DEF Enqueue
  <2>2. (n + 1) % (2 * MaxCount) = IF n + 1 = 2 * MaxCount THEN 0 ELSE n + 1
    BY LengthFits
  <2>3. /\ Enlarged \in [0 .. 2 * MaxCount - 1 -> Elements \union {Garbage}]
        /\ \A i \in 1 .. n : Enlarged[i - 1] = data[At(MaxCount, front, i)]
    BY <1>1, EnlargedIs DEF At
  <2> HIDE DEF n
  <2>4. end' = n + 1
    BY <1>1, <1>3, <1>5, <2>1, <2>2
  <2>5. Contents' = [i \in 1 .. n + 1 |-> data'[i - 1]]
    <3>1. (IF front' <= end' THEN end' - front' ELSE end' - front' + MaxCount') = n + 1
      BY <1>1, <2>1, <2>4
    <3>2. ASSUME NEW i \in 1 .. n + 1 PROVE At(MaxCount', front', i) = i - 1
      BY <1>1, <1>3, <1>5, <2>1, <3>2 DEF At
    <3> QED BY <3>1, <3>2, ContentsWillBe
  <2>6. data'[n] = v /\ \A i \in 1 .. n : data'[i - 1] = Enlarged[i - 1]
    BY <1>1, <2>1, <2>3
  <2>7. \A i \in 1 .. n : Contents'[i] = Contents[i]
    BY <1>1, <1>2, <2>3, <2>5, <2>6
  <2>8. Contents'[n + 1] = v /\ Contents' = [i \in 1 .. n + 1 |-> Contents'[i]]
    BY <1>1, <2>5, <2>6
  <2>9. ASSUME NEW s, NEW u, Contents = s, Contents' = u PROVE u = Append(s, v)
    <3>1. s \in Seq(Elements \union {Garbage}) /\ Len(s) = n /\ n \in Nat
      BY <1>1, <1>2, <2>9
    <3>2. u \in [1 .. n + 1 -> Elements \union {Garbage}]
      BY <3>1, <2>7, <2>8, <2>9
    <3> QED BY <2>7, <2>8, <2>9, <3>1, <3>2, IsAppend
  <2> QED BY <2>9
<1> QED BY <1>4, <1>5

\* Dequeue takes the first element.
LEMMA DequeueTakesHead ==
  ASSUME IndexesOK, IndexesOK', Dequeue, front # end
  PROVE  Contents # <<>> /\ returned' = Head(Contents) /\ Contents' = Tail(Contents)
<1> DEFINE n == Length
<1>1. /\ MaxCount \in Nat \ {0} /\ front \in 0 .. MaxCount - 1
      /\ end \in 0 .. MaxCount - 1 /\ n \in 0 .. MaxCount - 1
      /\ n = IF front <= end THEN end - front ELSE end - front + MaxCount
  BY LengthFits DEF IndexesOK
<1>2. /\ Contents = [i \in 1 .. n |-> data[At(MaxCount, front, i)]]
      /\ Contents \in Seq(Elements \union {Garbage}) /\ Len(Contents) = n
  BY ContentsAre
<1>3. /\ MaxCount' = MaxCount /\ end' = end /\ data' = data
      /\ front' = (IF front + 1 = MaxCount THEN 0 ELSE front + 1)
      /\ returned' = data[front]
  BY <1>1, AfterIs DEF Dequeue
<1> HIDE DEF n
<1>4. n >= 1 /\ At(MaxCount, front, 1) = front
  BY <1>1 DEF At
<1>5. Contents # <<>> /\ returned' = Head(Contents)
  BY <1>1, <1>2, <1>3, <1>4
<1>6. (IF front' <= end' THEN end' - front' ELSE end' - front' + MaxCount') = n - 1
  BY <1>1, <1>3
<1>7. ASSUME NEW i \in 1 .. n - 1
      PROVE  At(MaxCount', front', i) = At(MaxCount, front, i + 1)
  BY <1>1, <1>3, <1>7 DEF At
<1>8. Contents' = [i \in 1 .. n - 1 |-> data[At(MaxCount, front, i + 1)]]
  BY <1>3, <1>6, <1>7, ContentsWillBe
<1>9. \A i \in 1 .. n - 1 : data[At(MaxCount, front, i + 1)] = Contents[i + 1]
  BY <1>1, <1>2
<1>10. Contents' = [i \in 1 .. n - 1 |-> Contents[i + 1]]
  BY <1>8, <1>9
<1>11. Contents' = [i \in 1 .. Len(Contents) - 1 |-> Contents[i + 1]]
  BY <1>2, <1>10
<1>12. ASSUME NEW s, NEW u, Contents = s, Contents' = u PROVE u = Tail(s)
  BY <1>2, <1>5, <1>11, <1>12, IsTail
<1> QED BY <1>5, <1>12

\* A queue is empty when its indexes meet; Front shows the element Dequeue takes.
LEMMA FrontIsHead ==
  ASSUME IndexesOK
  PROVE  /\ front = end => Contents = <<>>
         /\ front # end => Contents # <<>> /\ Head(Contents) = data[front]
<1>1. /\ MaxCount \in Nat \ {0} /\ front \in 0 .. MaxCount - 1
      /\ end \in 0 .. MaxCount - 1
      /\ Length = IF front <= end THEN end - front ELSE end - front + MaxCount
  BY LengthFits DEF IndexesOK
<1>2. At(MaxCount, front, 1) = front
  BY <1>1 DEF At
<1> QED BY <1>1, <1>2, ContentsAre

\* Every step of the queue is one of Fifo, or none.
LEMMA StepIsFifo ==
  ASSUME IndexesOK, IndexesOK', [Next]_vars
  PROVE  [Promise!Next]_Promise!vars
<1>1. ASSUME NEW v \in Elements, Enqueue(v) PROVE Promise!Enqueue(v)
  BY <1>1, EnqueueAppends DEF Enqueue, Promise!Enqueue
<1>2. ASSUME UNCHANGED <<MaxCount, front, end, data>> PROVE Contents' = Contents
  BY <1>2 DEF Contents, Length, Slot
<1>3. ASSUME Dequeue PROVE Promise!Dequeue
  <2>1. CASE front = end
    BY <1>2, <1>3, <2>1, FrontIsHead DEF Dequeue, Promise!Dequeue
  <2>2. CASE front # end
    BY <1>3, <2>2, DequeueTakesHead DEF Promise!Dequeue
  <2> QED BY <2>1, <2>2
<1>4. ASSUME Front PROVE Promise!Front
  BY <1>2, <1>4, FrontIsHead DEF Front, Promise!Front
<1>5. CASE UNCHANGED vars
  BY <1>2, <1>5 DEF vars, Promise!vars
<1> QED BY <1>1, <1>3, <1>4, <1>5 DEF Next, Promise!Next

\* A queue is created empty.
LEMMA InitIsFifo ==
  ASSUME Init
  PROVE  IndexesOK /\ Contents = <<>> /\ Promise!Init
<1>1. IndexesOK
  BY QueueAssumption DEF Init, IndexesOK
<1>2. Contents = <<>>
  BY <1>1, FrontIsHead DEF Init
<1> QED BY <1>1, <1>2 DEF Init, Promise!Init

\* The queue implements Fifo: its elements, in the order an iterator shows them,
\* are the items of a sequence that grows at one end and shrinks at the other.
THEOREM QueueIsFifo == Spec => IsFifo
<1>1. Init => Promise!Init
  BY InitIsFifo
<1>2. IndexesOK /\ IndexesOK' /\ [Next]_vars => [Promise!Next]_Promise!vars
  BY StepIsFifo
<1> QED BY <1>1, <1>2, IndexesFit, PTL DEF Spec, IsFifo, Promise!Spec

\* No operation returns what is not an element. The indexes alone do not show it:
\* it takes that every slot between front and end has been written.
THEOREM TypeCorrect == Spec => []TypeOK
<1> DEFINE Written == Contents \in Seq(Elements)
           IInv    == TypeOK /\ Written
<1>1. Init => IInv
  <2> SUFFICES ASSUME Init PROVE IInv
    OBVIOUS
  <2>1. Contents \in Seq(Elements)
    BY InitIsFifo
  <2> QED BY <2>1, InitIsFifo DEF Init, TypeOK
<1>2. ASSUME IInv, IndexesOK', [Next]_vars PROVE IInv'
  <2>1. /\ IndexesOK /\ Contents \in Seq(Elements)
        /\ returned \in Elements \union {NoElement}
    BY <1>2 DEF TypeOK
  <2>2. [Promise!Next]_Promise!vars
    BY <1>2, <2>1, StepIsFifo
  <2> DEFINE Goal == (Contents \in Seq(Elements))' /\ returned' \in Elements \union {NoElement}
  <2>3. ASSUME NEW v \in Elements, Promise!Enqueue(v) PROVE Goal
    BY <2>1, <2>3 DEF Promise!Enqueue
  <2>4. ASSUME Promise!Dequeue PROVE Goal
    BY <2>1, <2>4 DEF Promise!Dequeue
  <2>5. ASSUME Promise!Front PROVE Goal
    BY <2>1, <2>5 DEF Promise!Front
  <2>6. ASSUME UNCHANGED Promise!vars PROVE Goal
    BY <2>1, <2>6 DEF Promise!vars
  <2>7. Goal
    BY <2>2, <2>3, <2>4, <2>5, <2>6 DEF Promise!Next
  <2> QED BY <1>2, <2>7 DEF TypeOK
<1>3. IInv => TypeOK
  OBVIOUS
<1> QED BY <1>1, <1>2, <1>3, IndexesFit, PTL DEF Spec

=============================================================================
