--------------------------- MODULE KeyboardProofs ---------------------------
(***************************************************************************)
(* Lemmas about the console's half of the keyboard: the ring of characters *)
(* typed ahead and the read that waits for them.                           *)
(***************************************************************************)
EXTENDS Keyboard, SequenceTheorems, TLAPS

\* The console's variables for the keyboard.
Keyboards ==
  [shiftPressed : BOOLEAN, altGRPressed : BOOLEAN, capsOn : BOOLEAN, unaEspecial : BOOLEAN,
   front : Slots, end : Slots, count : 0 .. SIZE_BUFFER_TECLADO - 1,
   cola : [Slots -> Chars],
   eofFile : BOOLEAN, pendingRequest : BOOLEAN, wanted : Nat]

\* The characters lie between front and end.
Ring(k) == k \in Keyboards /\ k.end = (k.front + k.count) % SIZE_BUFFER_TECLADO

\* A read that waits cannot be answered yet.
Waits(k) == k.pendingRequest => k.count < k.wanted /\ ~k.eofFile

-----------------------------------------------------------------------------
(* The ring.                                                               *)

\* The slot i places after another one, and the way back.
LEMMA SlotIs ==
  ASSUME NEW m \in Nat \ {0}, NEW f \in 0 .. m - 1, NEW i \in 0 .. m
  PROVE  (f + i) % m = IF f + i < m THEN f + i ELSE f + i - m
<1>1. CASE f + i < m
  BY <1>1
<1>2. CASE m <= f + i
  BY <1>2
<1> QED BY <1>1, <1>2

LEMMA PlaceIs ==
  ASSUME NEW m \in Nat \ {0}, NEW f \in 0 .. m - 1, NEW s \in 0 .. m - 1
  PROVE  (s - f) % m = IF f <= s THEN s - f ELSE s - f + m
<1>1. CASE f <= s
  BY <1>1
<1>2. CASE s < f
  BY <1>2
<1> QED BY <1>1, <1>2

\* The index of the n-th character.
At(f, n) == IF f + (n - 1) < SIZE_BUFFER_TECLADO THEN f + (n - 1)
            ELSE f + (n - 1) - SIZE_BUFFER_TECLADO

LEMMA Size == SIZE_BUFFER_TECLADO \in Nat /\ SIZE_BUFFER_TECLADO >= 2
BY KeyboardAssumption

LEMMA AtIs ==
  ASSUME NEW f \in Slots, NEW n \in 1 .. SIZE_BUFFER_TECLADO
  PROVE  (f + n - 1) % SIZE_BUFFER_TECLADO = At(f, n) /\ At(f, n) \in Slots
<1>1. /\ SIZE_BUFFER_TECLADO \in Nat \ {0} /\ f \in 0 .. SIZE_BUFFER_TECLADO - 1
      /\ n - 1 \in 0 .. SIZE_BUFFER_TECLADO
  BY Size DEF Slots
<1>2. (f + (n - 1)) % SIZE_BUFFER_TECLADO = At(f, n)
  BY <1>1, SlotIs DEF At
<1>3. f + n - 1 = f + (n - 1)
  BY <1>1
<1>4. At(f, n) \in Slots
  BY <1>1 DEF At, Slots
<1> QED BY <1>2, <1>3, <1>4

LEMMA ContentsAre ==
  ASSUME NEW k \in Keyboards
  PROVE  /\ Contents(k) = [n \in 1 .. k.count |-> k.cola[At(k.front, n)]]
         /\ k.count \in Nat /\ Len(Contents(k)) = k.count /\ Contents(k) \in Seq(Chars)
<1>1. k.count \in Nat /\ k.count < SIZE_BUFFER_TECLADO /\ k.front \in Slots /\ k.cola \in [Slots -> Chars]
  BY Size DEF Keyboards
<1>2. ASSUME NEW n \in 1 .. k.count
      PROVE  (k.front + n - 1) % SIZE_BUFFER_TECLADO = At(k.front, n) /\ At(k.front, n) \in Slots
  <2>1. n \in 1 .. SIZE_BUFFER_TECLADO
    BY <1>1, Size
  <2> QED BY <1>1, <2>1, AtIs
<1>3. Contents(k) = [n \in 1 .. k.count |-> k.cola[At(k.front, n)]]
  BY <1>2 DEF Contents
<1>4. Contents(k) \in [1 .. k.count -> Chars]
  BY <1>1, <1>2, <1>3
<1> QED BY <1>1, <1>3, <1>4

\* What the arithmetic of a ring comes to.
LEMMA RingIs ==
  ASSUME NEW k, Ring(k)
  PROVE  /\ k \in Keyboards
         /\ k.front \in Slots /\ k.end \in Slots /\ k.cola \in [Slots -> Chars]
         /\ k.count \in Nat /\ k.count < SIZE_BUFFER_TECLADO
         /\ k.end = At(k.front, k.count + 1)
         /\ HasRoom(k) <=> k.count < SIZE_BUFFER_TECLADO - 1
         /\ (k.end + 1) % SIZE_BUFFER_TECLADO \in Slots
         /\ HasRoom(k) =>
              (k.end + 1) % SIZE_BUFFER_TECLADO = (k.front + (k.count + 1)) % SIZE_BUFFER_TECLADO
<1> DEFINE m == SIZE_BUFFER_TECLADO
           f == k.front
           e == k.end
           c == k.count
<1>1. m \in Nat \ {0} /\ m >= 2
  BY Size
<1>2. /\ k \in Keyboards /\ f \in 0 .. m - 1 /\ e \in 0 .. m - 1 /\ c \in 0 .. m - 1
      /\ e = (f + c) % m
  BY DEF Ring, Keyboards, Slots
<1>3. k.cola \in [Slots -> Chars] /\ Slots = 0 .. m - 1
  BY DEF Ring, Keyboards, Slots
<1>4. HasRoom(k) <=> (e + 1) % m # f
  BY DEF HasRoom
<1>5. At(f, c + 1) = IF f + c < m THEN f + c ELSE f + c - m
  BY <1>1, <1>2 DEF At
<1> HIDE DEF m, f, e, c
<1>6. c \in 0 .. m /\ 1 \in 0 .. m /\ c + 1 \in 0 .. m
  BY <1>1, <1>2
<1>7. e = IF f + c < m THEN f + c ELSE f + c - m
  <2>1. (f + c) % m = IF f + c < m THEN f + c ELSE f + c - m
    BY <1>1, <1>2, <1>6, SlotIs
  <2> QED BY <1>2, <2>1
<1>8. (e + 1) % m = IF e + 1 < m THEN e + 1 ELSE e + 1 - m
  BY <1>1, <1>2, <1>6, SlotIs
<1>9. (f + (c + 1)) % m = IF f + (c + 1) < m THEN f + (c + 1) ELSE f + (c + 1) - m
  BY <1>1, <1>2, <1>6, SlotIs
<1>10. (e + 1) % m \in 0 .. m - 1
  BY <1>1, <1>2, <1>8
<1>11. (e + 1) % m # f <=> c < m - 1
  BY <1>1, <1>2, <1>7, <1>8
<1>12. c < m - 1 => (e + 1) % m = (f + (c + 1)) % m
  BY <1>1, <1>2, <1>7, <1>8, <1>9
<1>13. c \in Nat /\ c < m
  BY <1>1, <1>2
<1>14. e = At(f, c + 1)
  BY <1>5, <1>7
<1> QED BY <1>2, <1>3, <1>4, <1>10, <1>11, <1>12, <1>13, <1>14 DEF m, f, e, c

\* Different characters lie in different slots, and the way from front to a character's
\* slot is its place.
LEMMA Places ==
  ASSUME NEW f \in Slots, NEW n \in 1 .. SIZE_BUFFER_TECLADO
  PROVE  /\ (At(f, n) - f) % SIZE_BUFFER_TECLADO = n - 1
         /\ \A i \in 1 .. SIZE_BUFFER_TECLADO : At(f, i) = At(f, n) => i = n
<1> DEFINE m == SIZE_BUFFER_TECLADO
           s == At(f, n)
<1>1. m \in Nat \ {0} /\ f \in 0 .. m - 1 /\ n \in 1 .. m
  BY Size DEF Slots
<1>2. s = IF f + (n - 1) < m THEN f + (n - 1) ELSE f + (n - 1) - m
  BY DEF At
<1>3. \A i \in 1 .. m : At(f, i) = IF f + (i - 1) < m THEN f + (i - 1) ELSE f + (i - 1) - m
  BY DEF At
<1> HIDE DEF m, s
<1>4. s \in 0 .. m - 1
  BY <1>1, <1>2
<1>5. (s - f) % m = IF f <= s THEN s - f ELSE s - f + m
  BY <1>1, <1>4, PlaceIs
<1>6. (s - f) % m = n - 1
  BY <1>1, <1>2, <1>5
<1>7. ASSUME NEW i \in 1 .. m, At(f, i) = s PROVE i = n
  BY <1>1, <1>2, <1>3, <1>7
<1> QED BY <1>6, <1>7 DEF m, s


\* A character is stored behind the others, or dropped.
LEMMA Stored ==
  ASSUME NEW k, Ring(k), NEW letra \in Chars
  PROVE  /\ Ring(Store(k, letra))
         /\ Contents(Store(k, letra)) = IF HasRoom(k) THEN Append(Contents(k), letra) ELSE Contents(k)
<1> DEFINE r == Store(k, letra)
           m == SIZE_BUFFER_TECLADO
<1>1. (letra = NL) \in BOOLEAN
  OBVIOUS
<1>2. CASE ~HasRoom(k)
  <2>1. r = [k EXCEPT !.eofFile = (letra = NL)]
    BY <1>2 DEF Store
  <2>2. r \in Keyboards /\ r.front = k.front /\ r.end = k.end /\ r.count = k.count /\ r.cola = k.cola
    BY <1>1, <2>1 DEF Ring, Keyboards
  <2> HIDE DEF r
  <2>3. Contents(r) = Contents(k)
    BY <2>2 DEF Contents
  <2> QED BY <1>2, <2>2, <2>3 DEF Ring, r
<1>3. CASE HasRoom(k)
  <2>1. /\ k \in Keyboards
        /\ k.front \in Slots /\ k.end \in Slots /\ k.cola \in [Slots -> Chars]
        /\ k.count \in Nat /\ k.count < m - 1
        /\ k.end = At(k.front, k.count + 1)
        /\ (k.end + 1) % m \in Slots
        /\ (k.end + 1) % m = (k.front + (k.count + 1)) % m
    BY <1>3, RingIs
  <2>2. m \in Nat /\ m >= 2
    BY Size
  <2> HIDE DEF m
  <2>3. k.count + 1 \in 0 .. m - 1
    BY <2>1, <2>2
  <2>4. /\ r \in Keyboards
        /\ r.front = k.front /\ r.end = (k.end + 1) % m /\ r.count = k.count + 1
        /\ r.cola = [k.cola EXCEPT ![k.end] = letra]
    <3>1. r = [k EXCEPT !.eofFile = (letra = NL), !.cola = [k.cola EXCEPT ![k.end] = letra],
                        !.end = (k.end + 1) % m, !.count = k.count + 1]
      BY <1>3 DEF Store, Keyboards, m
    <3>2. [k.cola EXCEPT ![k.end] = letra] \in [Slots -> Chars]
      BY <2>1
    <3> HIDE DEF r
    <3> QED BY <1>1, <2>1, <2>3, <3>1, <3>2 DEF Keyboards, m
  <2> HIDE DEF r
  <2>5. Ring(r)
    BY <2>1, <2>4 DEF Ring, m
  <2>6. /\ Contents(k) = [n \in 1 .. k.count |-> k.cola[At(k.front, n)]]
        /\ Len(Contents(k)) = k.count /\ Contents(k) \in Seq(Chars)
    BY <2>1, ContentsAre
  <2>7. /\ Contents(r) = [n \in 1 .. k.count + 1 |-> r.cola[At(k.front, n)]]
        /\ Contents(r) \in Seq(Chars) /\ Len(Contents(r)) = k.count + 1
    BY <2>4, ContentsAre
  <2>8. Contents(r)[k.count + 1] = letra
    BY <2>1, <2>4, <2>7
  <2>9. ASSUME NEW n \in 1 .. k.count PROVE Contents(r)[n] = Contents(k)[n]
    <3>1. n \in 1 .. m /\ k.count + 1 \in 1 .. m /\ n # k.count + 1 /\ n \in 1 .. k.count + 1
      BY <2>1, <2>2
    <3>2. At(k.front, n) # k.end
      BY <2>1, <3>1, Places DEF m
    <3>3. At(k.front, n) \in Slots
      BY <2>1, <3>1, AtIs DEF m
    <3> QED BY <2>1, <2>4, <2>6, <2>7, <3>1, <3>2, <3>3
  <2>10. Contents(r) = Append(Contents(k), letra)
    <3> DEFINE a == Contents(r)
               b == Contents(k)
               d == k.count
    <3>1. /\ a \in Seq(Chars) /\ b \in Seq(Chars) /\ d \in Nat /\ Len(b) = d /\ Len(a) = d + 1
          /\ a[d + 1] = letra /\ \A n \in 1 .. d : a[n] = b[n]
      BY <2>1, <2>6, <2>7, <2>8, <2>9
    <3> HIDE DEF a, b, d
    <3>2. Append(b, letra) \in Seq(Chars) /\ Len(Append(b, letra)) = d + 1
      BY <3>1
    <3>3. \A n \in 1 .. d + 1 : a[n] = Append(b, letra)[n]
      BY <3>1
    <3>4. a = Append(b, letra)
      BY <3>1, <3>2, <3>3, SeqEqual
    <3> QED BY <3>4 DEF a, b
  <2> QED BY <1>3, <2>5, <2>10 DEF r
<1> QED BY <1>2, <1>3

\* What is taken leaves from the front.
LEMMA AnswerTakes ==
  ASSUME NEW k, Ring(k)
  PROVE  /\ Ring(Answered(k)) /\ Taken(k) \in 0 .. k.count
         /\ Contents(Answered(k)) = SubSeq(Contents(k), Taken(k) + 1, k.count)
<1> DEFINE r == Answered(k)
           m == SIZE_BUFFER_TECLADO
           t == Taken(k)
           f == k.front
           c == k.count
           g == (f + t) % m
<1>1. /\ k \in Keyboards /\ f \in 0 .. m - 1 /\ f \in Slots /\ k.cola \in [Slots -> Chars]
      /\ c \in Nat /\ c < m /\ k.end \in Slots /\ k.end = (f + c) % m
      /\ m \in Nat \ {0} /\ m >= 2 /\ k.wanted \in Nat /\ Slots = 0 .. m - 1
  BY RingIs, Size DEF Ring, Slots, Keyboards
<1>2. t \in 0 .. c
  BY <1>1 DEF Taken
<1>3. Freed(k, t) \in [Slots -> Chars]
  BY <1>1, KeyboardAssumption DEF Freed
<1>4. Freed(k, t) = [s \in Slots |-> IF (s - f) % m < t THEN NUL ELSE k.cola[s]]
  BY DEF Freed
<1>5. r = [k EXCEPT !.front = g, !.cola = Freed(k, t), !.count = c - t,
                    !.pendingRequest = FALSE, !.wanted = 0, !.eofFile = FALSE]
  BY DEF Answered
<1> HIDE DEF r, m, t, f, c
<1>6. g = IF f + t < m THEN f + t ELSE f + t - m
  <2>1. t \in 0 .. m
    BY <1>1, <1>2
  <2> QED BY <1>1, <2>1, SlotIs
<1> HIDE DEF g
<1>7. g \in Slots /\ c - t \in 0 .. m - 1
  BY <1>1, <1>2, <1>6
<1>8. /\ r \in Keyboards
      /\ r.front = g /\ r.end = k.end /\ r.count = c - t /\ r.cola = Freed(k, t)
  BY <1>1, <1>3, <1>5, <1>7 DEF Keyboards, m
<1>9. k.end = (g + (c - t)) % m
  <2>1. c \in 0 .. m /\ c - t \in 0 .. m /\ g \in 0 .. m - 1
    BY <1>1, <1>2, <1>7
  <2>2. (f + c) % m = IF f + c < m THEN f + c ELSE f + c - m
    BY <1>1, <2>1, SlotIs
  <2>3. (g + (c - t)) % m = IF g + (c - t) < m THEN g + (c - t) ELSE g + (c - t) - m
    BY <1>1, <2>1, SlotIs
  <2>4. (f + c) % m = (g + (c - t)) % m
    BY <1>1, <1>2, <1>6, <2>2, <2>3
  <2> QED BY <1>1, <2>4
<1>10. Ring(r)
  BY <1>8, <1>9 DEF Ring, m
<1>11. /\ Contents(k) = [n \in 1 .. c |-> k.cola[At(f, n)]]
       /\ Len(Contents(k)) = c /\ Contents(k) \in Seq(Chars)
  BY <1>1, ContentsAre DEF c, f
<1>12. /\ Contents(r) = [n \in 1 .. c - t |-> r.cola[At(g, n)]]
       /\ Contents(r) \in Seq(Chars) /\ Len(Contents(r)) = c - t
  BY <1>8, ContentsAre
<1>13. ASSUME NEW n \in 1 .. c - t PROVE Contents(r)[n] = Contents(k)[t + n]
  <2>1. t + n \in 1 .. m /\ n \in 1 .. m /\ t + n \in 1 .. c
    BY <1>1, <1>2
  <2>2. At(g, n) = At(f, t + n)
    <3>1. At(g, n) = IF g + (n - 1) < m THEN g + (n - 1) ELSE g + (n - 1) - m
      BY DEF At, m
    <3>2. At(f, t + n) = IF f + (t + n - 1) < m THEN f + (t + n - 1) ELSE f + (t + n - 1) - m
      <4>1. PICK i \in 1 .. m : i = t + n
        BY <2>1
      <4>2. At(f, i) = IF f + (i - 1) < m THEN f + (i - 1) ELSE f + (i - 1) - m
        BY DEF At, m
      <4> QED BY <1>1, <1>2, <4>1, <4>2
    <3> QED BY <1>1, <1>2, <1>6, <2>1, <3>1, <3>2
  <2>3. At(f, t + n) \in Slots /\ (At(f, t + n) - f) % m = (t + n) - 1
    BY <1>1, <2>1, AtIs, Places DEF m
  <2>4. ~((At(f, t + n) - f) % m < t)
    BY <1>2, <2>3
  <2>5. r.cola[At(f, t + n)] = k.cola[At(f, t + n)]
    BY <1>4, <1>8, <2>3, <2>4
  <2> QED BY <1>11, <1>12, <2>1, <2>2, <2>5
<1>14. Contents(r) = SubSeq(Contents(k), t + 1, c)
  <2> DEFINE a == Contents(r)
             b == Contents(k)
  <2>1. /\ a \in Seq(Chars) /\ Len(a) = c - t /\ b \in Seq(Chars) /\ Len(b) = c
        /\ \A n \in 1 .. c - t : a[n] = b[t + n]
    BY <1>11, <1>12, <1>13
  <2> HIDE DEF a, b
  <2>2. t + 1 \in 1 .. c + 1 /\ c \in t .. Len(b)
    BY <1>1, <1>2, <2>1
  <2>3. /\ SubSeq(b, t + 1, c) \in Seq(Chars) /\ Len(SubSeq(b, t + 1, c)) = c - t
        /\ \A n \in 1 .. c - t : SubSeq(b, t + 1, c)[n] = b[t + n]
    BY <1>1, <1>2, <2>1, <2>2
  <2>4. a = SubSeq(b, t + 1, c)
    BY <2>1, <2>3, SeqEqual
  <2> QED BY <2>4 DEF a, b
<1> QED BY <1>2, <1>10, <1>14 DEF r, t, c

-----------------------------------------------------------------------------
(* Scan codes and reads.                                                   *)

\* What one scan code may do to the console's variables, but for the mark.
LEMMA Outcomes ==
  ASSUME NEW k, NEW code \in Nat, NEW t \in Translated(k, code)
  PROVE  /\ \/ code = Special /\ t.keyboard = [k EXCEPT !.unaEspecial = TRUE]
            \/ code = Alt /\ t.keyboard = [k EXCEPT !.altGRPressed = @ \/ k.unaEspecial]
            \/ code = Released(Alt) /\ t.keyboard = [k EXCEPT !.altGRPressed = @ /\ ~k.unaEspecial]
            \/ /\ code \notin {Special, Alt, Released(Alt)}
               /\ \/ \E b \in BOOLEAN : t.keyboard = [k EXCEPT !.shiftPressed = b]
                  \/ t.keyboard = [k EXCEPT !.capsOn = ~@]
                  \/ t.keyboard = k
                  \/ \E letra \in Chars : t.keyboard = Store(k, letra)
         /\ t = [keyboard |-> t.keyboard, echo |-> t.echo]
<1> DEFINE Press   == code \in Shifts
           Release == code - 128 \in Shifts
           Plainly == code \in 0 .. 128 \ (Shifts \union {Alt, Control})
           Letter  == {[keyboard |-> Store(k, letra),
                        echo |-> IF HasRoom(k) THEN <<letra>> ELSE <<>>] : letra \in Letters(k, code)}
           a == Quietly([k EXCEPT !.shiftPressed = TRUE])
           b == Quietly([k EXCEPT !.shiftPressed = FALSE])
           c == Quietly([k EXCEPT !.unaEspecial = TRUE])
           d == Quietly([k EXCEPT !.altGRPressed = @ \/ k.unaEspecial])
           e == Quietly([k EXCEPT !.altGRPressed = @ /\ ~k.unaEspecial])
           f == Quietly([k EXCEPT !.capsOn = ~@])
           g == Quietly(k)
           Special1 == code = Special
           Alt1 == code = Alt
           Alt2 == code = Released(Alt)
           Caps == code = Released(CapsLock)
           Ctrl == code = Control
<1>1. Translated(k, code) =
        CASE Press -> a [] Release -> b [] Special1 -> c [] Alt1 -> d [] Alt2 -> e
          [] Caps -> f [] Ctrl -> g [] Plainly -> Letter [] OTHER -> g
  BY DEF Translated
<1>2. /\ Press => code \notin {Special, Alt, Released(Alt)}
      /\ Release => code \notin {Special, Alt, Released(Alt)}
      /\ Caps => code \notin {Special, Alt, Released(Alt)}
      /\ Ctrl => code \notin {Special, Alt, Released(Alt)}
      /\ Plainly => code \notin {Special, Alt, Released(Alt)}
  BY DEF Shifts, Special, Alt, Released, CapsLock, Control
<1>3. ASSUME NEW q, NEW u, u \in Quietly(q) PROVE u.keyboard = q
  BY <1>3 DEF Quietly
<1>4. t \in a => \E x \in BOOLEAN : t.keyboard = [k EXCEPT !.shiftPressed = x]
  BY <1>3
<1>5. t \in b => \E x \in BOOLEAN : t.keyboard = [k EXCEPT !.shiftPressed = x]
  BY <1>3
<1>6. t \in Letter => \E letra \in Chars : t.keyboard = Store(k, letra)
  <2>1. Letters(k, code) \subseteq Chars
    BY KeyboardAssumption DEF Letters, Tables, Level
  <2> QED BY <2>1
<1>7. /\ t \in c => t.keyboard = [k EXCEPT !.unaEspecial = TRUE]
      /\ t \in d => t.keyboard = [k EXCEPT !.altGRPressed = @ \/ k.unaEspecial]
      /\ t \in e => t.keyboard = [k EXCEPT !.altGRPressed = @ /\ ~k.unaEspecial]
      /\ t \in f => t.keyboard = [k EXCEPT !.capsOn = ~@]
      /\ t \in g => t.keyboard = k
  BY <1>3
<1> HIDE DEF Press, Release, Plainly, Letter, a, b, c, d, e, f, g, Caps, Ctrl, Special1, Alt1, Alt2
<1>8. \/ Press /\ t \in a
      \/ Release /\ t \in b
      \/ Special1 /\ t \in c
      \/ Alt1 /\ t \in d
      \/ Alt2 /\ t \in e
      \/ Caps /\ t \in f
      \/ Ctrl /\ t \in g
      \/ Plainly /\ t \in Letter
      \/ ~Special1 /\ ~Alt1 /\ ~Alt2 /\ t \in g
  BY <1>1, Zenon
<1>9. ASSUME t \in a \/ t \in b \/ t \in c \/ t \in d \/ t \in e \/ t \in f \/ t \in g \/ t \in Letter
      PROVE  t = [keyboard |-> t.keyboard, echo |-> t.echo]
  <2>1. ASSUME NEW q, t \in Quietly(q) PROVE t = [keyboard |-> t.keyboard, echo |-> t.echo]
    BY <2>1 DEF Quietly
  <2>2. t \in Letter => t = [keyboard |-> t.keyboard, echo |-> t.echo]
    BY DEF Letter
  <2> QED BY <1>9, <2>1, <2>2 DEF a, b, c, d, e, f, g
<1>10. t = [keyboard |-> t.keyboard, echo |-> t.echo]
  BY <1>8, <1>9
<1>11. /\ \/ code = Special /\ t.keyboard = [k EXCEPT !.unaEspecial = TRUE]
          \/ code = Alt /\ t.keyboard = [k EXCEPT !.altGRPressed = @ \/ k.unaEspecial]
          \/ code = Released(Alt) /\ t.keyboard = [k EXCEPT !.altGRPressed = @ /\ ~k.unaEspecial]
          \/ /\ code \notin {Special, Alt, Released(Alt)}
             /\ \/ \E x \in BOOLEAN : t.keyboard = [k EXCEPT !.shiftPressed = x]
                \/ t.keyboard = [k EXCEPT !.capsOn = ~@]
                \/ t.keyboard = k
                \/ \E letra \in Chars : t.keyboard = Store(k, letra)
  BY <1>2, <1>4, <1>5, <1>6, <1>7, <1>8 DEF Special1, Alt1, Alt2
<1> QED BY <1>10, <1>11

\* A scan code that is read leaves the ring whole, with at most one character more.
LEMMA KeyRead ==
  ASSUME NEW k, Ring(k), NEW code \in Nat, NEW t \in readKeyboard(k, code)
  PROVE  /\ Ring(t.keyboard)
         /\ \E typed \in {<<>>} \union {<<c>> : c \in Chars} :
              Contents(t.keyboard) = Contents(k) \o typed
         /\ code = Special => t.keyboard.unaEspecial
         /\ code # Special => ~t.keyboard.unaEspecial
         /\ t.keyboard.altGRPressed =
              IF code = Alt THEN k.altGRPressed \/ k.unaEspecial
              ELSE IF code = Released(Alt) THEN k.altGRPressed /\ ~k.unaEspecial
              ELSE k.altGRPressed
         /\ t.keyboard.pendingRequest = k.pendingRequest
<1>1. PICK u \in Translated(k, code) : t = [u EXCEPT !.keyboard = Plain(@, code)]
  BY DEF readKeyboard
<1>2. PICK j : j = u.keyboard
  OBVIOUS
<1>3. k \in Keyboards /\ k.unaEspecial \in BOOLEAN /\ k.altGRPressed \in BOOLEAN
  BY DEF Ring, Keyboards
<1>4. Special # Alt /\ Special # Released(Alt) /\ Alt # Released(Alt)
  BY DEF Special, Alt, Released
<1>5. \/ code = Special /\ j = [k EXCEPT !.unaEspecial = TRUE]
      \/ code = Alt /\ j = [k EXCEPT !.altGRPressed = k.altGRPressed \/ k.unaEspecial]
      \/ code = Released(Alt) /\ j = [k EXCEPT !.altGRPressed = k.altGRPressed /\ ~k.unaEspecial]
      \/ /\ code \notin {Special, Alt, Released(Alt)}
         /\ \/ \E b \in BOOLEAN : j = [k EXCEPT !.shiftPressed = b]
            \/ j = [k EXCEPT !.capsOn = ~k.capsOn]
            \/ j = k
            \/ \E letra \in Chars : j = Store(k, letra)
  BY <1>2, Outcomes
<1> DEFINE Unmoved == /\ Ring(j) /\ Contents(j) = Contents(k)
<1>6. ASSUME j \in Keyboards, j.front = k.front, j.end = k.end, j.count = k.count, j.cola = k.cola
      PROVE  Unmoved
  BY <1>6 DEF Ring, Contents
<1>7. /\ Ring(j)
      /\ \E typed \in {<<>>} \union {<<c>> : c \in Chars} : Contents(j) = Contents(k) \o typed
  <2>1. CASE Unmoved
    <3>1. Contents(k) \in Seq(Chars)
      BY <1>3, ContentsAre
    <3>2. Contents(k) \o <<>> = Contents(k)
      BY <3>1
    <3> QED BY <2>1, <3>2
  <2>2. CASE \E letra \in Chars : j = Store(k, letra)
    <3>1. PICK letra \in Chars : j = Store(k, letra)
      BY <2>2
    <3>2. Ring(j) /\ Contents(j) = IF HasRoom(k) THEN Append(Contents(k), letra) ELSE Contents(k)
      BY <3>1, Stored
    <3>3. Contents(k) \in Seq(Chars)
      BY <1>3, ContentsAre
    <3>4. Contents(k) \o <<>> = Contents(k) /\ Append(Contents(k), letra) = Contents(k) \o <<letra>>
      BY <3>3
    <3> QED BY <3>2, <3>4
  <2>3. CASE j = k
    BY <2>1, <2>3
  <2> DEFINE x == k.altGRPressed \/ k.unaEspecial
             y == k.altGRPressed /\ ~k.unaEspecial
             z == ~k.capsOn
  <2>4. x \in BOOLEAN /\ y \in BOOLEAN /\ z \in BOOLEAN
    OBVIOUS
  <2> HIDE DEF Unmoved
  <2>5. CASE code = Special /\ j = [k EXCEPT !.unaEspecial = TRUE]
    <3>1. j \in Keyboards /\ j.front = k.front /\ j.end = k.end /\ j.count = k.count /\ j.cola = k.cola
      BY <1>3, <2>5 DEF Keyboards
    <3> QED BY <1>6, <2>1, <3>1
  <2> HIDE DEF x, y, z
  <2>6. ASSUME NEW b \in BOOLEAN,
               \/ j = [k EXCEPT !.altGRPressed = b]
               \/ j = [k EXCEPT !.capsOn = b]
               \/ j = [k EXCEPT !.shiftPressed = b]
        PROVE  Unmoved
    <3>1. j \in Keyboards /\ j.front = k.front /\ j.end = k.end /\ j.count = k.count /\ j.cola = k.cola
      BY <1>3, <2>6 DEF Keyboards
    <3> QED BY <1>6, <3>1
  <2>7. CASE j = [k EXCEPT !.altGRPressed = x] \/ j = [k EXCEPT !.altGRPressed = y]
             \/ j = [k EXCEPT !.capsOn = z] \/ \E b \in BOOLEAN : j = [k EXCEPT !.shiftPressed = b]
    BY <2>1, <2>4, <2>6, <2>7
  <2> QED BY <1>5, <2>2, <2>3, <2>5, <2>7 DEF x, y, z
<1>8. /\ j \in Keyboards
      /\ code # Special => j.unaEspecial \in BOOLEAN
      /\ code = Special => j.unaEspecial
      /\ j.altGRPressed =
              IF code = Alt THEN k.altGRPressed \/ k.unaEspecial
              ELSE IF code = Released(Alt) THEN k.altGRPressed /\ ~k.unaEspecial
              ELSE k.altGRPressed
  <2>1. j \in Keyboards /\ j.unaEspecial \in BOOLEAN
    BY <1>7 DEF Ring, Keyboards
  <2>2. CASE code = Special /\ j = [k EXCEPT !.unaEspecial = TRUE]
    BY <1>3, <1>4, <2>1, <2>2 DEF Keyboards
  <2>3. CASE code = Alt /\ j = [k EXCEPT !.altGRPressed = k.altGRPressed \/ k.unaEspecial]
    BY <1>3, <1>4, <2>1, <2>3 DEF Keyboards
  <2>4. CASE code = Released(Alt) /\ j = [k EXCEPT !.altGRPressed = k.altGRPressed /\ ~k.unaEspecial]
    BY <1>3, <1>4, <2>1, <2>4 DEF Keyboards
  <2>5. CASE code \notin {Special, Alt, Released(Alt)}
    <3>1. j.altGRPressed = k.altGRPressed
      <4>1. ASSUME NEW letra \in Chars, j = Store(k, letra) PROVE j.altGRPressed = k.altGRPressed
        BY <1>3, <4>1 DEF Store, Keyboards
      <4> QED BY <1>3, <1>5, <2>5, <4>1 DEF Keyboards
    <3> QED BY <2>1, <2>5, <3>1
  <2> QED BY <1>5, <2>2, <2>3, <2>4, <2>5
<1>9. j.pendingRequest = k.pendingRequest
  <2>1. ASSUME NEW letra \in Chars, j = Store(k, letra) PROVE j.pendingRequest = k.pendingRequest
    BY <1>3, <2>1 DEF Store, Keyboards
  <2> QED BY <1>3, <1>5, <2>1 DEF Keyboards
<1>10. /\ t.keyboard = Plain(j, code)
  <2>1. u = [keyboard |-> u.keyboard, echo |-> u.echo]
    BY Outcomes
  <2> QED BY <1>1, <1>2, <2>1
<1>11. CASE code = Special
  BY <1>7, <1>8, <1>10, <1>11, <1>9 DEF Plain
<1>12. CASE code # Special
  <2>1. t.keyboard = [j EXCEPT !.unaEspecial = FALSE]
    BY <1>10, <1>12 DEF Plain
  <2>2. /\ t.keyboard \in Keyboards /\ ~t.keyboard.unaEspecial
        /\ t.keyboard.front = j.front /\ t.keyboard.end = j.end /\ t.keyboard.count = j.count
        /\ t.keyboard.cola = j.cola /\ t.keyboard.altGRPressed = j.altGRPressed
        /\ t.keyboard.pendingRequest = j.pendingRequest
    BY <1>8, <2>1 DEF Keyboards
  <2>3. Ring(t.keyboard) /\ Contents(t.keyboard) = Contents(j)
    BY <1>7, <2>2 DEF Ring, Contents
  <2> QED BY <1>7, <1>8, <1>12, <1>9, <2>2, <2>3
<1> QED BY <1>11, <1>12

\* A read that can be answered is; the mark and the level are left alone.
LEMMA ReadTried ==
  ASSUME NEW k, Ring(k)
  PROVE  /\ Ring(TryAnswerRequest(k)) /\ Waits(TryAnswerRequest(k))
         /\ TryAnswerRequest(k).unaEspecial = k.unaEspecial
         /\ TryAnswerRequest(k).altGRPressed = k.altGRPressed
         /\ \E n \in 0 .. k.count :
              Contents(TryAnswerRequest(k)) = SubSeq(Contents(k), n + 1, k.count)
         /\ CanAnswer(k) => ~TryAnswerRequest(k).pendingRequest
         /\ Len(Answer(k)) = Taken(k)
<1>1. /\ k \in Keyboards /\ k.count \in Nat /\ k.wanted \in Nat
      /\ Contents(k) \in Seq(Chars) /\ Len(Contents(k)) = k.count
  BY ContentsAre DEF Ring, Keyboards
<1>2. Len(Answer(k)) = Taken(k)
  <2> DEFINE b == Contents(k)
             t == Taken(k)
  <2>1. b \in Seq(Chars) /\ Len(b) = k.count /\ t \in 0 .. k.count /\ k.count \in Nat
    BY <1>1, AnswerTakes
  <2> HIDE DEF b, t
  <2>2. \A i \in 1 .. t : b[i] \in Chars
    BY <2>1
  <2>3. Len(SubSeq(b, 1, t)) = t
    BY <2>1, <2>2
  <2> QED BY <2>3 DEF Answer, b, t
<1>3. CASE CanAnswer(k)
  <2>1. TryAnswerRequest(k) = Answered(k)
    BY <1>3 DEF TryAnswerRequest
  <2>2. /\ ~Answered(k).pendingRequest
        /\ Answered(k).unaEspecial = k.unaEspecial
        /\ Answered(k).altGRPressed = k.altGRPressed
    BY <1>1 DEF Answered, Keyboards
  <2> QED BY <1>3, <1>2, <2>1, <2>2, AnswerTakes DEF Waits
<1>4. CASE ~CanAnswer(k)
  <2>1. TryAnswerRequest(k) = k
    BY <1>4 DEF TryAnswerRequest
  <2>2. Waits(k)
    BY <1>1, <1>4 DEF CanAnswer, Waits
  <2>3. Contents(k) = SubSeq(Contents(k), 0 + 1, k.count)
    <3> DEFINE b == Contents(k)
               c == k.count
    <3>1. b \in Seq(Chars) /\ Len(b) = c /\ c \in Nat
      BY <1>1
    <3> HIDE DEF b, c
    <3>2. b = SubSeq(b, 1, c)
      BY <3>1
    <3> QED BY <3>2 DEF b, c
  <2>4. 0 \in 0 .. k.count
    BY <1>1
  <2> QED BY <1>4, <1>2, <2>1, <2>2, <2>3, <2>4
<1> QED BY <1>3, <1>4

=============================================================================
