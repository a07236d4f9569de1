------------------------------ MODULE HeapProofs ------------------------------
(***************************************************************************)
(* Theorems about the kernel's heap, for every size of the heap and of the *)
(* list of holes, and every sequence of calls.                             *)
(***************************************************************************)
EXTENDS Heap, SequenceTheorems, TLAPS

Footprint == HeaderSize + FooterSize

\* The blocks lie one behind the other from realInit to endAddress, and each footer
\* names the header it belongs to.
Tiled ==
  /\ header \in [Blocks -> [size : Nat, hole : BOOLEAN]]
  /\ Blocks \subseteq Nat /\ realInit \in Blocks
  /\ \A h \in Blocks :
       /\ h >= realInit /\ Size(h) >= Footprint /\ End(h) <= endAddress
       /\ End(h) \in Blocks \union {endAddress}
       /\ h = realInit \/ h \in DOMAIN footer
       /\ footer[End(h)] = h
  /\ DOMAIN footer = {End(h) : h \in Blocks}
  /\ \A b, c \in Blocks : b < c => End(b) <= c

\* Two holes side by side have been joined.
HolesApart ==
  \A h \in Blocks : header[h].hole /\ End(h) \in Blocks => ~header[End(h)].hole

\* What a list holds.
Elements(l) == {l[k] : k \in DOMAIN l}

\* The list has the holes, each once. The heap was found to have a hole too many only
\* while it is in pieces.
Listed ==
  /\ list \in Seq(Blocks) /\ Len(list) <= maxLength /\ IsInjective(list)
  /\ \A h \in Elements(list) : header[h].hole
  /\ ~full => \A h \in Blocks : header[h].hole => h \in Elements(list)
  /\ full => Blocks # {realInit}
  /\ full \in BOOLEAN /\ hung \in BOOLEAN

IInv == Tiled /\ HolesApart /\ Listed

-----------------------------------------------------------------------------
(* The sorted list.                                                        *)

LEMMA Numbers ==
  /\ realInit \in Nat /\ endAddress \in Nat /\ realInit + 20 < endAddress
  /\ maxLength \in Nat /\ maxLength >= 1
  /\ HeaderSize = 12 /\ FooterSize = 8 /\ Footprint = 20 /\ MinRemainder = 24
BY HeapAssumption DEF HeaderSize, FooterSize, Footprint, MinRemainder

\* A value that is listed once is found, and what is left is in the same order.
LEMMA RemovedAt ==
  ASSUME NEW S, NEW l \in Seq(S), IsInjective(l), NEW i \in DOMAIN l
  PROVE  Removed(l, l[i]) = SubSeq(l, 1, i - 1) \o SubSeq(l, i + 1, Len(l))
<1>1. {k \in 1 .. Len(l) : l[k] = l[i]} = {i}
  BY DEF IsInjective
<1>2. SelectInSeq(l, LAMBDA v : v = l[i]) = Min({i})
  BY <1>1 DEF SelectInSeq
<1>3. Min({i}) = i
  BY DEF Min
<1>4. \E k \in 1 .. Len(l) : l[k] = l[i]
  OBVIOUS
<1>5. RemoveFirst(l, l[i]) = RemoveAt(l, i)
  BY <1>2, <1>3, <1>4 DEF RemoveFirst
<1> QED BY <1>5 DEF Removed, RemoveAt

\* Removing takes a value out of the list, if it is there, and nothing else.
LEMMA RemovedElements ==
  ASSUME NEW S, NEW l \in Seq(S), IsInjective(l), NEW value
  PROVE  /\ Removed(l, value) \in Seq(S) /\ IsInjective(Removed(l, value))
         /\ Elements(Removed(l, value)) = Elements(l) \ {value}
         /\ Len(Removed(l, value)) <= Len(l)
         /\ value \in Elements(l) => Len(Removed(l, value)) = Len(l) - 1
<1>1. Len(l) \in Nat
  OBVIOUS
<1>0. DOMAIN l = 1 .. Len(l)
  OBVIOUS
<1>2. CASE value \notin Elements(l)
  <2>1. Removed(l, value) = l
    BY <1>2 DEF Removed, RemoveFirst, Elements
  <2>2. Elements(l) = Elements(l) \ {value}
    BY <1>2
  <2>3. Elements(Removed(l, value)) = Elements(l) \ {value}
    BY <2>1, <2>2
  <2>4. Len(Removed(l, value)) <= Len(l)
    BY <1>1, <2>1
  <2> QED BY <1>2, <2>1, <2>3, <2>4
<1>3. CASE value \in Elements(l)
  <2> DEFINE r == Removed(l, value)
  <2>1. PICK i \in 1 .. Len(l) : value = l[i]
    BY <1>0, <1>3 DEF Elements
  <2> DEFINE a == SubSeq(l, 1, i - 1)
             b == SubSeq(l, i + 1, Len(l))
  <2>2. r = a \o b
    <3>1. i \in DOMAIN l
      BY <1>0, <2>1
    <3> QED BY <2>1, <3>1, RemovedAt
  <2>3. a \in Seq(S) /\ Len(a) = i - 1 /\ \A k \in 1 .. i - 1 : a[k] = l[k]
    BY <1>1, <2>1
  <2>4. b \in Seq(S) /\ Len(b) = Len(l) - i /\ \A k \in 1 .. Len(l) - i : b[k] = l[i + k]
    <3>1. i + 1 \in 1 .. Len(l) + 1 /\ i \in Nat
      BY <1>1, <2>1
    <3>2. b \in Seq(S)
      BY <1>1, <3>1
    <3>3. Len(b) = Len(l) - i
      BY <1>1, <3>1
    <3>4. \A k \in 1 .. Len(l) - i : b[k] = l[i + 1 + k - 1] /\ i + 1 + k - 1 = i + k
      BY <1>1, <3>1
    <3> QED BY <3>2, <3>3, <3>4
  <2> HIDE DEF a, b, r
  <2>5. /\ r \in Seq(S) /\ Len(r) = Len(a) + Len(b)
        /\ \A k \in 1 .. Len(a) + Len(b) :
             r[k] = IF k <= Len(a) THEN a[k] ELSE b[k - Len(a)]
    BY <2>2, <2>3, <2>4, ConcatProperties
  <2>6. Len(r) = Len(l) - 1
    BY <1>1, <2>1, <2>3, <2>4, <2>5
  <2>7. DOMAIN r = 1 .. Len(l) - 1
    BY <2>5, <2>6
  <2>8. ASSUME NEW k \in 1 .. i - 1 PROVE r[k] = l[k]
    <3>1. k <= Len(a) /\ k \in 1 .. Len(a) + Len(b)
      BY <1>1, <2>1, <2>3, <2>4
    <3> QED BY <2>3, <2>5, <3>1
  <2>9. ASSUME NEW k \in i .. Len(l) - 1 PROVE r[k] = l[k + 1]
    <3>1. k - (i - 1) \in 1 .. Len(l) - i /\ i + (k - (i - 1)) = k + 1
      BY <1>1, <2>1
    <3>2. ~(k <= Len(a)) /\ k \in 1 .. Len(a) + Len(b) /\ k - Len(a) = k - (i - 1)
      BY <1>1, <2>1, <2>3, <2>4
    <3>3. r[k] = b[k - (i - 1)]
      BY <2>5, <3>2
    <3> QED BY <2>4, <3>1, <3>3
  <2>10. \A k \in 1 .. Len(l) - 1 :
           \E m \in DOMAIN l : m # i /\ r[k] = l[m] /\ m = IF k < i THEN k ELSE k + 1
    BY <1>0, <1>1, <2>1, <2>8, <2>9
  <2>11. IsInjective(r)
    <3> SUFFICES ASSUME NEW k \in 1 .. Len(l) - 1, NEW m \in 1 .. Len(l) - 1, r[k] = r[m]
                 PROVE  k = m
      BY <2>7 DEF IsInjective
    <3>1. (IF k < i THEN k ELSE k + 1) = (IF m < i THEN m ELSE m + 1)
      BY <2>10 DEF IsInjective
    <3> QED BY <2>1, <3>1
  <2>12. \A k \in DOMAIN r : r[k] \in Elements(l) \ {value}
    BY <1>0, <2>1, <2>7, <2>10 DEF IsInjective, Elements
  <2>13. ASSUME NEW k \in 1 .. Len(l), l[k] # value
         PROVE  l[k] \in Elements(r)
    <3>1. CASE k < i
      BY <2>1, <2>7, <2>8, <3>1 DEF Elements
    <3>2. CASE k > i
      <4>1. k - 1 \in i .. Len(l) - 1 /\ (k - 1) + 1 = k /\ k - 1 \in 1 .. Len(l) - 1
        BY <1>1, <2>1, <3>2
      <4>2. r[k - 1] = l[k]
        BY <2>9, <4>1
      <4> QED BY <2>7, <4>1, <4>2 DEF Elements
    <3> QED BY <2>1, <2>13, <3>1, <3>2
  <2>14. Elements(r) = Elements(l) \ {value}
    BY <1>0, <2>12, <2>13 DEF Elements
  <2>15. Len(r) <= Len(l)
    BY <1>1, <2>6
  <2> QED BY <2>5, <2>6, <2>11, <2>14, <2>15 DEF r
<1> QED BY <1>2, <1>3

\* Wherever the comparator places it, adding puts the value in the list if there is
\* room, and nothing else changes.
LEMMA AddedElements ==
  ASSUME NEW S, NEW l \in Seq(S), IsInjective(l), NEW heads, NEW value \in S,
         value \notin Elements(l), Len(l) <= maxLength, NEW r \in AddToList(l, heads, value)
  PROVE  /\ r \in Seq(S) /\ IsInjective(r) /\ Len(r) <= maxLength
         /\ Len(l) < maxLength => Elements(r) = Elements(l) \union {value}
         /\ Len(l) = maxLength => r = l
<1>1. Len(l) \in Nat /\ maxLength \in Nat
  BY Numbers
<1>0. DOMAIN l = 1 .. Len(l)
  OBVIOUS
<1>2. CASE Len(l) < maxLength
  <2>1. PICK i \in 1 .. Len(l) + 1 : r = InsertAt(l, i, value)
    <3>1. r \in {InsertAt(l, i, value) : i \in Places(l, heads, value)}
      BY <1>2 DEF AddToList
    <3>2. Places(l, heads, value) \subseteq 1 .. Len(l) + 1
      BY <1>1 DEF Places
    <3> QED BY <3>1, <3>2
  <2> DEFINE a == SubSeq(l, 1, i - 1)
             b == SubSeq(l, i, Len(l))
             c == <<value>>
             d == a \o c
  <2>2. r = d \o b
    BY <2>1 DEF InsertAt
  <2>3. a \in Seq(S) /\ Len(a) = i - 1 /\ \A k \in 1 .. i - 1 : a[k] = l[k]
    BY <1>1
  <2>4. b \in Seq(S) /\ Len(b) = Len(l) - i + 1
        /\ \A k \in 1 .. Len(l) - i + 1 : b[k] = l[i + k - 1]
    BY <1>1
  <2>5. c \in Seq(S) /\ Len(c) = 1 /\ c[1] = value
    OBVIOUS
  <2> HIDE DEF a, b, c
  <2>6. /\ d \in Seq(S) /\ Len(d) = Len(a) + Len(c)
        /\ \A k \in 1 .. Len(a) + Len(c) :
             d[k] = IF k <= Len(a) THEN a[k] ELSE c[k - Len(a)]
    BY <2>3, <2>5, ConcatProperties
  <2> HIDE DEF d
  <2>7. Len(d) = i /\ d[i] = value /\ \A k \in 1 .. i - 1 : d[k] = l[k]
    BY <1>1, <2>3, <2>5, <2>6
  <2>8. /\ r \in Seq(S) /\ Len(r) = Len(d) + Len(b)
        /\ \A k \in 1 .. Len(d) + Len(b) :
             r[k] = IF k <= Len(d) THEN d[k] ELSE b[k - Len(d)]
    BY <2>2, <2>4, <2>6, ConcatProperties
  <2>9. Len(r) = Len(l) + 1
    BY <1>1, <2>4, <2>7, <2>8
  <2>10. DOMAIN r = 1 .. Len(l) + 1
    BY <2>8, <2>9
  <2>11. r[i] = value /\ \A k \in 1 .. i - 1 : r[k] = l[k]
    BY <1>1, <2>4, <2>7, <2>8
  <2>12. ASSUME NEW k \in i + 1 .. Len(l) + 1 PROVE r[k] = l[k - 1]
    <3>1. k - i \in 1 .. Len(l) - i + 1 /\ i + (k - i) - 1 = k - 1
      BY <1>1
    <3>2. r[k] = b[k - i]
      BY <1>1, <2>4, <2>7, <2>8
    <3> QED BY <2>4, <3>1, <3>2
  <2>13. \A k \in 1 .. Len(l) + 1 : k # i =>
           \E m \in DOMAIN l : r[k] = l[m] /\ m = IF k < i THEN k ELSE k - 1
    BY <1>0, <1>1, <2>11, <2>12
  <2>14. \A k \in DOMAIN l : l[k] # value
    BY DEF Elements
  <2>15. IsInjective(r)
    <3> SUFFICES ASSUME NEW k \in 1 .. Len(l) + 1, NEW m \in 1 .. Len(l) + 1, r[k] = r[m]
                 PROVE  k = m
      BY <2>10 DEF IsInjective
    <3>1. k = i <=> m = i
      BY <2>11, <2>13, <2>14
    <3>2. k # i => (IF k < i THEN k ELSE k - 1) = (IF m < i THEN m ELSE m - 1)
      BY <2>13, <3>1 DEF IsInjective
    <3> QED BY <3>1, <3>2
  <2>16. \A k \in DOMAIN r : r[k] \in Elements(l) \union {value}
    BY <2>10, <2>11, <2>13 DEF Elements
  <2>17. value \in Elements(r)
    BY <1>1, <2>10, <2>11 DEF Elements
  <2>18. ASSUME NEW k \in 1 .. Len(l) PROVE l[k] \in Elements(r)
    <3>1. CASE k < i
      BY <1>1, <2>10, <2>11, <3>1 DEF Elements
    <3>2. CASE k >= i
      <4>1. k + 1 \in i + 1 .. Len(l) + 1 /\ (k + 1) - 1 = k /\ k + 1 \in 1 .. Len(l) + 1
        BY <1>1, <3>2
      <4>2. r[k + 1] = l[k]
        BY <2>12, <4>1
      <4> QED BY <2>10, <4>1, <4>2 DEF Elements
    <3> QED BY <3>1, <3>2
  <2>19. Elements(r) = Elements(l) \union {value}
    BY <1>0, <2>16, <2>17, <2>18 DEF Elements
  <2>20. Len(r) <= maxLength /\ Len(l) # maxLength
    BY <1>1, <1>2, <2>9
  <2> QED BY <2>8, <2>15, <2>19, <2>20
<1>3. CASE Len(l) = maxLength
  <2>1. r = l
    BY <1>1, <1>3 DEF AddToList
  <2>2. Len(r) <= maxLength /\ ~(Len(l) < maxLength)
    BY <1>1, <1>3, <2>1
  <2> QED BY <2>1, <2>2
<1>4. Len(l) < maxLength \/ Len(l) = maxLength
  BY <1>1
<1> QED BY <1>2, <1>3, <1>4

-----------------------------------------------------------------------------
(* The blocks.                                                             *)

\* Blocks and their ends are numbers, and no two blocks end at one address.
LEMMA BlockFacts ==
  ASSUME Tiled
  PROVE  /\ \A b \in Blocks :
              /\ b \in Nat /\ Size(b) \in Nat /\ End(b) \in Nat /\ header[b].hole \in BOOLEAN
              /\ realInit <= b /\ b + 20 <= End(b) /\ End(b) <= endAddress
              /\ End(b) = b + Size(b)
         /\ \A b, c \in Blocks : b = c \/ End(b) <= c \/ End(c) <= b
         /\ \A b, c \in Blocks : End(b) = End(c) => b = c
         /\ endAddress \notin Blocks
<1>1. \A b \in Blocks :
        /\ b \in Nat /\ Size(b) \in Nat /\ header[b].hole \in BOOLEAN
        /\ End(b) = b + Size(b)
        /\ realInit <= b /\ Size(b) >= 20 /\ End(b) <= endAddress
  BY Numbers DEF Tiled, Size, End
<1>2. \A b \in Blocks : End(b) \in Nat /\ b + 20 <= End(b)
  BY <1>1
<1>3. \A b, c \in Blocks : b = c \/ End(b) <= c \/ End(c) <= b
  <2> SUFFICES ASSUME NEW b \in Blocks, NEW c \in Blocks, b # c
               PROVE  End(b) <= c \/ End(c) <= b
    OBVIOUS
  <2>1. b < c \/ c < b
    BY <1>1
  <2> QED BY <2>1 DEF Tiled
<1>4. \A b, c \in Blocks : End(b) = End(c) => b = c
  BY <1>1, <1>2, <1>3
<1>5. endAddress \notin Blocks
  BY <1>1, <1>2, Numbers
<1> QED BY <1>1, <1>2, <1>3, <1>4, <1>5

\* The footer before a block names the block that ends there.
LEMMA Predecessor ==
  ASSUME Tiled, NEW a \in DOMAIN footer
  PROVE  footer[a] \in Blocks /\ End(footer[a]) = a
BY DEF Tiled

\* A listed hole is given out whole, or cut in two of which the second is listed.
LEMMA TakeWholeStep ==
  ASSUME IInv, NEW h \in Elements(list), TakeWhole(h), UNCHANGED <<full, hung>>
  PROVE  IInv'
<1>1. h \in Blocks
  BY DEF IInv, Listed, Elements
<1>2. /\ header' = [header EXCEPT ![h].hole = FALSE] /\ footer' = footer
      /\ list' = Removed(list, h) /\ full' = full /\ hung' = hung
  BY DEF TakeWhole
<1>3. /\ Blocks' = Blocks /\ header' \in [Blocks -> [size : Nat, hole : BOOLEAN]]
      /\ ~header'[h].hole
      /\ \A b \in Blocks : b # h => header'[b] = header[b]
      /\ \A b \in Blocks : header'[b].size = header[b].size
  <2>1. Blocks' = Blocks
    BY <1>2 DEF Blocks
  <2>2. header \in [Blocks -> [size : Nat, hole : BOOLEAN]]
    BY DEF IInv, Tiled
  <2> QED BY <1>1, <1>2, <2>1, <2>2
<1>4. \A b \in Blocks : Size(b)' = Size(b) /\ End(b)' = End(b)
  BY <1>3 DEF Size, End
<1>5. Tiled'
  <2>1. {End(b) : b \in Blocks}' = {End(b) : b \in Blocks}
    BY <1>3, <1>4
  <2> QED BY <1>2, <1>3, <1>4, <2>1 DEF IInv, Tiled
<1>6. HolesApart'
  BY <1>3, <1>4 DEF IInv, HolesApart
<1>7. /\ list' \in Seq(Blocks) /\ IsInjective(list') /\ Len(list') <= Len(list)
      /\ Elements(list') = Elements(list) \ {h}
  BY <1>2, RemovedElements DEF IInv, Listed
<1>8. Len(list') <= maxLength
  BY <1>7, Numbers DEF IInv, Listed
<1>9. Listed'
  BY <1>1, <1>2, <1>3, <1>7, <1>8 DEF IInv, Listed
<1> QED BY <1>5, <1>6, <1>9 DEF IInv

\* What Split does to the blocks.
LEMMA SplitEffect ==
  ASSUME IInv, NEW h \in Elements(list), NEW amount \in Nat,
         BlockSize(h) - amount > MinRemainder, Split(h, amount), NEW next,
         next = h + amount + 20
  PROVE  /\ h \in Blocks /\ header[h].hole
         /\ h < next /\ next + 20 < End(h) /\ next \in Nat
         /\ next \notin Blocks /\ next \notin DOMAIN footer /\ next # End(h)
         /\ Blocks' = Blocks \union {next}
         /\ header'[h] = [size |-> amount + 20, hole |-> FALSE]
         /\ header'[next] = [size |-> Size(h) - (amount + 20), hole |-> TRUE]
         /\ \A b \in Blocks \ {h} : header'[b] = header[b]
         /\ header' \in [Blocks' -> [size : Nat, hole : BOOLEAN]]
         /\ DOMAIN footer' = DOMAIN footer \union {next}
         /\ footer'[next] = h /\ footer'[End(h)] = next
         /\ \A e \in DOMAIN footer \ {End(h)} : footer'[e] = footer[e]
         /\ list' \in AddToList(Removed(list, h), header', next)
<1>1. h \in Blocks /\ header[h].hole
  BY DEF IInv, Listed, Elements
<1>2. h \in Nat /\ Size(h) \in Nat /\ End(h) = h + Size(h) /\ End(h) \in DOMAIN footer
  BY <1>1, BlockFacts DEF IInv, Tiled
<1>3. Size(h) - 20 - amount > 24
  BY <1>2, Numbers DEF BlockSize
<1>4. h < next /\ next + 20 < End(h) /\ next \in Nat /\ next # End(h) /\ next # h
  BY <1>2, <1>3
<1>5. next \notin Blocks
  BY <1>1, <1>2, <1>4, BlockFacts DEF IInv
<1>6. next \notin DOMAIN footer
  <2> SUFFICES ASSUME next \in DOMAIN footer PROVE FALSE
    OBVIOUS
  <2>1. PICK b \in Blocks : End(b) = next
    BY Predecessor DEF IInv
  <2> QED BY <1>1, <1>2, <1>4, <2>1, BlockFacts DEF IInv
<1> DEFINE kept == amount + HeaderSize + FooterSize
           NewHead(b) == CASE b = h        -> Taken(h, kept)
                           [] b = h + kept -> [size |-> Size(h) - kept, hole |-> TRUE]
                           [] OTHER        -> header[b]
           NewFoot(e) == CASE e = h + kept -> h
                           [] e = End(h)   -> h + kept
                           [] OTHER        -> footer[e]
<1>7. /\ header' = [b \in Blocks \union {h + kept} |-> NewHead(b)]
      /\ footer' = [e \in DOMAIN footer \union {h + kept} |-> NewFoot(e)]
      /\ list' \in AddToList(Removed(list, h), header', h + kept)
  BY Zenon DEF Split
<1>8. kept = amount + 20 /\ h + kept = next
  BY <1>2, Numbers
<1> HIDE DEF kept
<1>9. /\ header' = [b \in Blocks \union {next} |-> NewHead(b)]
      /\ footer' = [e \in DOMAIN footer \union {next} |-> NewFoot(e)]
      /\ list' \in AddToList(Removed(list, h), header', next)
  <2> HIDE DEF NewHead, NewFoot
  <2> QED BY <1>7, <1>8
<1>10. /\ NewHead(h) = [size |-> amount + 20, hole |-> FALSE]
       /\ NewHead(next) = [size |-> Size(h) - (amount + 20), hole |-> TRUE]
       /\ \A b \in Blocks \ {h} : NewHead(b) = header[b]
  BY <1>4, <1>5, <1>8, Zenon DEF Taken
<1>11. /\ NewFoot(next) = h /\ NewFoot(End(h)) = next
       /\ \A e \in DOMAIN footer \ {End(h)} : NewFoot(e) = footer[e]
  BY <1>4, <1>6, <1>8, Zenon
<1> HIDE DEF NewHead, NewFoot
<1>12. Blocks' = Blocks \union {next} /\ DOMAIN footer' = DOMAIN footer \union {next}
  BY <1>9 DEF Blocks
<1>13. /\ header'[h] = [size |-> amount + 20, hole |-> FALSE]
       /\ header'[next] = [size |-> Size(h) - (amount + 20), hole |-> TRUE]
       /\ \A b \in Blocks \ {h} : header'[b] = header[b]
  BY <1>1, <1>9, <1>10
<1>14. header' \in [Blocks' -> [size : Nat, hole : BOOLEAN]]
  <2>1. amount + 20 \in Nat /\ Size(h) - (amount + 20) \in Nat
    BY <1>2, <1>3
  <2>2. \A b \in Blocks \union {next} : header'[b] \in [size : Nat, hole : BOOLEAN]
    <3>1. /\ header'[h] \in [size : Nat, hole : BOOLEAN]
          /\ header'[next] \in [size : Nat, hole : BOOLEAN]
      BY <1>13, <2>1
    <3>2. header \in [Blocks -> [size : Nat, hole : BOOLEAN]]
      BY DEF IInv, Tiled
    <3> QED BY <1>13, <3>1, <3>2
  <2> QED BY <1>9, <1>12, <2>2
<1>15. /\ footer'[next] = h /\ footer'[End(h)] = next
       /\ \A e \in DOMAIN footer \ {End(h)} : footer'[e] = footer[e]
  BY <1>2, <1>9, <1>11
<1> QED BY <1>1, <1>4, <1>5, <1>6, <1>9, <1>12, <1>13, <1>14, <1>15

LEMMA SplitStep ==
  ASSUME IInv, NEW h \in Elements(list), NEW amount \in Nat,
         BlockSize(h) - amount > MinRemainder, Split(h, amount), UNCHANGED <<full, hung>>
  PROVE  IInv'
<1> DEFINE next == h + amount + 20
<1>1. /\ h \in Blocks /\ header[h].hole
      /\ h < next /\ next + 20 < End(h) /\ next \in Nat
      /\ next \notin Blocks /\ next \notin DOMAIN footer /\ next # End(h)
      /\ Blocks' = Blocks \union {next}
      /\ header'[h] = [size |-> amount + 20, hole |-> FALSE]
      /\ header'[next] = [size |-> Size(h) - (amount + 20), hole |-> TRUE]
      /\ \A b \in Blocks \ {h} : header'[b] = header[b]
      /\ header' \in [Blocks' -> [size : Nat, hole : BOOLEAN]]
      /\ DOMAIN footer' = DOMAIN footer \union {next}
      /\ footer'[next] = h /\ footer'[End(h)] = next
      /\ \A e \in DOMAIN footer \ {End(h)} : footer'[e] = footer[e]
      /\ list' \in AddToList(Removed(list, h), header', next)
  BY SplitEffect
<1>2. h \in Nat /\ Size(h) \in Nat /\ End(h) = h + Size(h)
  BY <1>1, BlockFacts DEF IInv
<1>3. /\ Size(h)' = amount + 20 /\ End(h)' = next
      /\ Size(next)' = Size(h) - (amount + 20) /\ End(next)' = End(h)
      /\ \A b \in Blocks \ {h} : Size(b)' = Size(b) /\ End(b)' = End(b)
  BY <1>1, <1>2 DEF Size, End
<1> HIDE DEF next
<1>4. Tiled'
  <2>1. Blocks' \subseteq Nat /\ realInit \in Blocks'
    BY <1>1 DEF IInv, Tiled
  <2>2. ASSUME NEW b \in Blocks'
        PROVE  /\ b >= realInit /\ Size(b)' >= Footprint /\ End(b)' <= endAddress
               /\ End(b)' \in Blocks' \union {endAddress}
               /\ b = realInit \/ b \in DOMAIN footer'
               /\ footer'[End(b)'] = b
    <3>1. CASE b = h
      BY <1>1, <1>2, <1>3, <3>1, BlockFacts, Numbers DEF IInv, Tiled
    <3>2. CASE b = next
      <4>1. b >= realInit /\ Size(b)' >= Footprint /\ End(b)' <= endAddress
        <5>1. realInit <= h /\ End(h) <= endAddress
          BY <1>1, BlockFacts DEF IInv
        <5>2. Size(next)' >= 20
          BY <1>2, <1>3, <1>1 DEF next
        <5> QED BY <1>1, <1>2, <1>3, <3>2, <5>1, <5>2, Numbers
      <4>2. End(b)' \in Blocks' \union {endAddress}
        BY <1>1, <1>3, <3>2 DEF IInv, Tiled
      <4> QED BY <1>1, <1>3, <3>2, <4>1, <4>2
    <3>3. CASE b \in Blocks \ {h}
      <4>1. End(b) # End(h) /\ End(b) \in DOMAIN footer
        BY <1>1, <3>3, BlockFacts DEF IInv, Tiled
      <4> QED BY <1>1, <1>3, <3>3, <4>1 DEF IInv, Tiled
    <3> QED BY <1>1, <3>1, <3>2, <3>3
  <2>3. DOMAIN footer' = {End(b) : b \in Blocks}'
    <3>1. ASSUME NEW e \in DOMAIN footer' PROVE \E b \in Blocks' : e = End(b)'
      <4>1. CASE e = next
        BY <1>1, <1>3, <4>1
      <4>2. CASE e = End(h)
        BY <1>1, <1>3, <4>2
      <4>3. CASE e \in DOMAIN footer \ {End(h)}
        BY <1>1, <1>3, <4>3 DEF IInv, Tiled
      <4> QED BY <1>1, <4>1, <4>2, <4>3
    <3>2. ASSUME NEW b \in Blocks' PROVE End(b)' \in DOMAIN footer'
      BY <1>1, <1>3 DEF IInv, Tiled
    <3> QED BY <3>1, <3>2
  <2>4. \A b, c \in Blocks' : b < c => End(b)' <= c
    <3> SUFFICES ASSUME NEW b \in Blocks', NEW c \in Blocks', b < c PROVE End(b)' <= c
      OBVIOUS
    <3>1. CASE b \in Blocks \ {h} /\ c \in Blocks
      BY <1>3, <3>1 DEF IInv, Tiled
    <3>2. CASE b = h /\ c \in Blocks
      <4>1. End(h) <= c /\ c \in Nat
        BY <1>1, <3>2, BlockFacts DEF IInv, Tiled
      <4> QED BY <1>1, <1>2, <1>3, <3>2, <4>1
    <3>3. CASE b = next /\ c \in Blocks
      <4>1. h < c /\ c \in Nat
        <5>1. c \in Nat
          BY <3>3, BlockFacts DEF IInv
        <5> QED BY <1>1, <1>2, <3>3, <5>1
      <4>2. End(h) <= c
        BY <1>1, <3>3, <4>1 DEF IInv, Tiled
      <4> QED BY <1>3, <3>3, <4>2
    <3>4. CASE b \in Blocks /\ c = next
      <4>1. CASE b = h
        BY <1>1, <1>2, <1>3, <3>4, <4>1
      <4>2. CASE b # h
        <5>1. End(b) <= h \/ End(h) <= b
          BY <1>1, <3>4, <4>2, BlockFacts DEF IInv
        <5>2. b \in Nat /\ End(b) \in Nat /\ End(b)' = End(b)
          BY <1>1, <1>3, <3>4, <4>2, BlockFacts DEF IInv
        <5> QED BY <1>1, <1>2, <3>4, <5>1, <5>2
      <4> QED BY <4>1, <4>2
    <3> QED BY <1>1, <3>1, <3>2, <3>3, <3>4
  <2> QED BY <1>1, <2>1, <2>2, <2>3, <2>4 DEF Tiled
<1>5. HolesApart'
  <2> SUFFICES ASSUME NEW b \in Blocks', header'[b].hole, End(b)' \in Blocks'
               PROVE  ~header'[End(b)'].hole
    BY DEF HolesApart
  <2>1. b # h
    BY <1>1
  <2>2. CASE b = next
    <3>1. End(h) \in Blocks /\ End(h) # h
      BY <1>1, <1>2, <1>3, <2>2
    <3> QED BY <1>1, <1>3, <2>2, <3>1 DEF IInv, HolesApart
  <2>3. CASE b \in Blocks \ {h}
    <3>1. End(b) \in Blocks
      BY <1>1, <1>3, <2>3 DEF IInv, Tiled
    <3> QED BY <1>1, <1>3, <2>3, <3>1 DEF IInv, HolesApart
  <2> QED BY <1>1, <2>1, <2>2, <2>3
<1>6. Listed'
  <2> DEFINE l == Removed(list, h)
  <2>1. /\ l \in Seq(Blocks) /\ IsInjective(l) /\ Elements(l) = Elements(list) \ {h}
        /\ Len(l) = Len(list) - 1
    BY RemovedElements DEF IInv, Listed
  <2>2. Len(l) < maxLength /\ Len(l) <= maxLength
    BY <2>1, Numbers DEF IInv, Listed
  <2>3. Elements(list) \subseteq Blocks
    BY DEF IInv, Listed, Elements
  <2>4. l \in Seq(Blocks') /\ next \in Blocks' /\ next \notin Elements(l)
    BY <1>1, <2>1, <2>3
  <2>5. list' \in AddToList(l, header', next)
    BY <1>1
  <2> HIDE DEF l
  <2>6. /\ list' \in Seq(Blocks') /\ IsInjective(list') /\ Len(list') <= maxLength
        /\ Elements(list') = (Elements(list) \ {h}) \union {next}
    BY <2>1, <2>2, <2>4, <2>5, AddedElements
  <2>7. \A b \in Elements(list') : header'[b].hole
    BY <1>1, <2>3, <2>6 DEF IInv, Listed
  <2>8. ~full' => \A b \in Blocks' : header'[b].hole => b \in Elements(list')
    <3> SUFFICES ASSUME ~full, NEW b \in Blocks', header'[b].hole
                 PROVE  b \in (Elements(list) \ {h}) \union {next}
      BY <2>6
    <3>1. b # h
      BY <1>1
    <3>2. b # next => b \in Blocks /\ header[b].hole
      BY <1>1, <3>1
    <3> QED BY <3>1, <3>2 DEF IInv, Listed
  <2>9. full' => Blocks' # {realInit}
    BY <1>1 DEF IInv, Listed, Tiled
  <2> QED BY <2>6, <2>7, <2>8, <2>9 DEF IInv, Listed
<1> QED BY <1>4, <1>5, <1>6 DEF IInv

\* The blocks that a free joins lie one behind the other, from the hole before the
\* block, if there is one, to the hole after it; and no hole touches them outside.
LEMMA Joined ==
  ASSUME Tiled, HolesApart, NEW h \in Blocks, ~header[h].hole
  PROVE  \E first, last \in Blocks :
           /\ {h} \union Neighbours(h) = {first, h, last}
           /\ first = CHOOSE b \in {h} \union Neighbours(h) : \A c \in {h} \union Neighbours(h) : b <= c
           /\ last  = CHOOSE b \in {h} \union Neighbours(h) : \A c \in {h} \union Neighbours(h) : c <= b
           /\ first = h \/ (header[first].hole /\ End(first) = h)
           /\ last = h \/ (header[last].hole /\ End(h) = last)
           /\ first <= h /\ h <= last /\ End(first) <= End(last)
           /\ \A c \in Blocks : End(c) = first => ~header[c].hole
           /\ End(last) \in Blocks => ~header[End(last)].hole
<1> DEFINE all == {h} \union Neighbours(h)
<1>1. \A b \in HoleBefore(h) : b \in Blocks /\ header[b].hole /\ End(b) = h
  BY Predecessor DEF HoleBefore
<1>2. \A b \in HoleAfter(h) : b \in Blocks /\ header[b].hole /\ End(h) = b
  BY DEF HoleAfter
<1>3. \A b \in Blocks : header[b].hole /\ End(b) = h => b \in HoleBefore(h)
  BY BlockFacts DEF Tiled, HoleBefore
<1>4. \A b \in Blocks : header[b].hole /\ End(h) = b => b \in HoleAfter(h)
  BY DEF HoleAfter
<1>5. PICK first \in Blocks :
        /\ first = h \/ first \in HoleBefore(h)
        /\ \A b \in HoleBefore(h) : b = first
  <2>1. CASE HoleBefore(h) = {}
    BY <2>1
  <2>2. ASSUME NEW b \in HoleBefore(h)
        PROVE  b \in Blocks /\ \A c \in HoleBefore(h) : c = b
    BY <1>1, BlockFacts
  <2> QED BY <2>1, <2>2
<1>6. PICK last \in Blocks :
        /\ last = h \/ last \in HoleAfter(h)
        /\ \A b \in HoleAfter(h) : b = last
  <2>1. CASE HoleAfter(h) = {}
    BY <2>1
  <2>2. ASSUME NEW b \in HoleAfter(h)
        PROVE  b \in Blocks /\ \A c \in HoleAfter(h) : c = b
    BY <1>2
  <2> QED BY <2>1, <2>2
<1>7. first = h \/ (header[first].hole /\ End(first) = h)
  BY <1>1, <1>5
<1>8. last = h \/ (header[last].hole /\ End(h) = last)
  BY <1>2, <1>6
<1>9. all = {first, h, last}
  BY <1>5, <1>6 DEF Neighbours
<1>10. h \in Nat /\ first \in Nat /\ last \in Nat
       /\ End(h) \in Nat /\ End(first) \in Nat /\ End(last) \in Nat
       /\ h < End(h) /\ first < End(first) /\ last < End(last)
  BY <1>5, <1>6, BlockFacts
<1>11. first <= h /\ h <= last /\ End(first) <= End(last)
  BY <1>7, <1>8, <1>10
<1> HIDE DEF all
<1>12. first = CHOOSE b \in all : \A c \in all : b <= c
  <2>1. \A b \in all : (\A c \in all : b <= c) <=> b = first
    BY <1>9, <1>10, <1>11
  <2>2. first \in all
    BY <1>9
  <2> DEFINE least == CHOOSE b \in all : \A c \in all : b <= c
  <2>3. least \in all /\ \A c \in all : least <= c
    BY <2>1, <2>2
  <2> HIDE DEF least
  <2>4. least = first
    BY <2>1, <2>3
  <2> QED BY <2>4 DEF least
<1>13. last = CHOOSE b \in all : \A c \in all : c <= b
  <2>1. \A b \in all : (\A c \in all : c <= b) <=> b = last
    BY <1>9, <1>10, <1>11
  <2>2. last \in all
    BY <1>9
  <2> DEFINE most == CHOOSE b \in all : \A c \in all : c <= b
  <2>3. most \in all /\ \A c \in all : c <= most
    BY <2>1, <2>2
  <2> HIDE DEF most
  <2>4. most = last
    BY <2>1, <2>3
  <2> QED BY <2>4 DEF most
<1>14. \A c \in Blocks : End(c) = first => ~header[c].hole
  <2> SUFFICES ASSUME NEW c \in Blocks, End(c) = first, header[c].hole PROVE FALSE
    OBVIOUS
  <2>1. CASE first = h
    <3>1. c \in HoleBefore(h)
      BY <1>3, <2>1
    <3>2. c = first
      BY <1>5, <3>1
    <3> QED BY <1>10, <3>2
  <2>2. CASE header[first].hole /\ End(first) = h
    BY <1>5, <2>2 DEF HolesApart
  <2> QED BY <1>7, <2>1, <2>2
<1>15. End(last) \in Blocks => ~header[End(last)].hole
  <2> SUFFICES ASSUME End(last) \in Blocks, header[End(last)].hole PROVE FALSE
    OBVIOUS
  <2>1. CASE last = h
    <3>1. End(h) \in HoleAfter(h)
      BY <1>4, <2>1
    <3>2. End(h) = last
      BY <1>6, <3>1
    <3> QED BY <1>10, <2>1, <3>2
  <2>2. CASE header[last].hole /\ End(h) = last
    BY <1>6, <2>2 DEF HolesApart
  <2> QED BY <1>8, <2>1, <2>2
<1> QED BY <1>5, <1>6, <1>7, <1>8, <1>9, <1>11, <1>12, <1>13, <1>14, <1>15 DEF all

\* What kfree does to the blocks and to the list.
LEMMA FreeEffect ==
  ASSUME IInv, NEW h \in Blocks, kfree(h)
  PROVE  /\ ~header[h].hole /\ hung' = hung /\ ~hung
         /\ \E first, last \in Blocks :
              LET all    == {first, h, last}
                  others == Removed(Removed(list, last), first)
              IN  /\ first = h \/ (header[first].hole /\ End(first) = h)
                  /\ last = h \/ (header[last].hole /\ End(h) = last)
                  /\ first <= h /\ h <= last /\ End(first) <= End(last)
                  /\ \A c \in Blocks : End(c) = first => ~header[c].hole
                  /\ End(last) \in Blocks => ~header[End(last)].hole
                  /\ header' = [b \in (Blocks \ all) \union {first} |->
                                  IF b = first THEN [size |-> End(last) - first, hole |-> TRUE]
                                  ELSE header[b]]
                  /\ footer' = [e \in DOMAIN footer \ (all \ {first}) |->
                                  IF e = End(last) THEN first ELSE footer[e]]
                  /\ list' \in AddToList(others, header', first)
                  /\ full' = (Blocks \ all # {} /\ (full \/ Len(others) = maxLength))
<1>1. ~header[h].hole /\ hung' = hung /\ ~hung
  BY DEF kfree
<1>2. PICK first, last \in Blocks :
           /\ {h} \union Neighbours(h) = {first, h, last}
           /\ first = CHOOSE b \in {h} \union Neighbours(h) : \A c \in {h} \union Neighbours(h) : b <= c
           /\ last  = CHOOSE b \in {h} \union Neighbours(h) : \A c \in {h} \union Neighbours(h) : c <= b
           /\ first = h \/ (header[first].hole /\ End(first) = h)
           /\ last = h \/ (header[last].hole /\ End(h) = last)
           /\ first <= h /\ h <= last /\ End(first) <= End(last)
           /\ \A c \in Blocks : End(c) = first => ~header[c].hole
           /\ End(last) \in Blocks => ~header[End(last)].hole
  BY <1>1, Joined DEF IInv
<1> DEFINE all == {h} \union Neighbours(h)
           first2 == CHOOSE b \in all : \A c \in all : b <= c
           last2  == CHOOSE b \in all : \A c \in all : c <= b
           others == Removed(Removed(list, last2), first2)
<1>3. /\ header' = [b \in (Blocks \ all) \union {first2} |->
                      IF b = first2 THEN [size |-> End(last2) - first2, hole |-> TRUE]
                      ELSE header[b]]
      /\ footer' = [e \in DOMAIN footer \ (all \ {first2}) |->
                      IF e = End(last2) THEN first2 ELSE footer[e]]
      /\ list' \in AddToList(others, header', first2)
      /\ full' = (Blocks \ all # {} /\ (full \/ Len(others) = maxLength))
  BY Zenon DEF kfree
<1>4. first2 = first /\ last2 = last /\ all = {first, h, last}
  BY <1>2
<1>5. others = Removed(Removed(list, last), first)
  BY <1>4
<1> HIDE DEF all, first2, last2, others
<1>6. /\ header' = [b \in (Blocks \ {first, h, last}) \union {first} |->
                      IF b = first THEN [size |-> End(last) - first, hole |-> TRUE]
                      ELSE header[b]]
      /\ footer' = [e \in DOMAIN footer \ ({first, h, last} \ {first}) |->
                      IF e = End(last) THEN first ELSE footer[e]]
      /\ list' \in AddToList(Removed(Removed(list, last), first), header', first)
      /\ full' = (Blocks \ {first, h, last} # {}
                   /\ (full \/ Len(Removed(Removed(list, last), first)) = maxLength))
  BY <1>3, <1>4, <1>5
<1> QED BY <1>1, <1>2, <1>6, Zenon

LEMMA FreeStep ==
  ASSUME IInv, NEW h \in Blocks, kfree(h)
  PROVE  IInv'
<1>1. PICK first, last \in Blocks :
        LET all    == {first, h, last}
            others == Removed(Removed(list, last), first)
        IN  /\ first = h \/ (header[first].hole /\ End(first) = h)
            /\ last = h \/ (header[last].hole /\ End(h) = last)
            /\ first <= h /\ h <= last /\ End(first) <= End(last)
            /\ \A c \in Blocks : End(c) = first => ~header[c].hole
            /\ End(last) \in Blocks => ~header[End(last)].hole
            /\ header' = [b \in (Blocks \ all) \union {first} |->
                            IF b = first THEN [size |-> End(last) - first, hole |-> TRUE]
                            ELSE header[b]]
            /\ footer' = [e \in DOMAIN footer \ (all \ {first}) |->
                            IF e = End(last) THEN first ELSE footer[e]]
            /\ list' \in AddToList(others, header', first)
            /\ full' = (Blocks \ all # {} /\ (full \/ Len(others) = maxLength))
  BY FreeEffect
<1>2. ~header[h].hole /\ hung' = hung
  BY FreeEffect
<1> DEFINE all  == {first, h, last}
           Kept == Blocks \ all
<1>3. /\ h \in Nat /\ first \in Nat /\ last \in Nat
      /\ End(h) \in Nat /\ End(first) \in Nat /\ End(last) \in Nat
      /\ h + 20 <= End(h) /\ first + 20 <= End(first) /\ last + 20 <= End(last)
      /\ realInit <= first /\ End(last) <= endAddress
  BY <1>1, BlockFacts DEF IInv
<1>4. /\ first <= h /\ h <= last /\ End(first) <= End(last)
      /\ first = h \/ End(first) = h
      /\ last = h \/ End(h) = last
  BY <1>1
<1>5. /\ Blocks' = Kept \union {first}
      /\ header'[first] = [size |-> End(last) - first, hole |-> TRUE]
      /\ \A c \in Kept : header'[c] = header[c]
  <2>1. header' = [b \in Kept \union {first} |->
                     IF b = first THEN [size |-> End(last) - first, hole |-> TRUE]
                     ELSE header[b]]
    BY <1>1
  <2>2. first \notin Kept
    OBVIOUS
  <2> QED BY <2>1, <2>2 DEF Blocks
<1>6. /\ DOMAIN footer' = DOMAIN footer \ (all \ {first})
      /\ \A e \in DOMAIN footer' : footer'[e] = IF e = End(last) THEN first ELSE footer[e]
  BY <1>1
<1>7. End(last) \notin all /\ End(last) > first
  BY <1>3, <1>4
<1>8. ASSUME NEW c \in Kept
      PROVE  /\ c \in Blocks /\ c \in Nat /\ End(c) \in Nat /\ c + 20 <= End(c)
             /\ c # first /\ c # h /\ c # last
             /\ End(c) <= first \/ End(last) <= c
             /\ End(c) # End(last)
             /\ End(c) \notin all \ {first}
  <2>1. c \in Blocks /\ c \in Nat /\ End(c) \in Nat /\ c + 20 <= End(c)
    BY BlockFacts DEF IInv
  <2>2. c # first /\ c # h /\ c # last
    OBVIOUS
  <2>3. /\ End(c) <= first \/ End(first) <= c
        /\ End(c) <= h \/ End(h) <= c
        /\ End(c) <= last \/ End(last) <= c
    BY <1>1, <2>1, <2>2, BlockFacts DEF IInv
  <2>4. End(c) <= first \/ End(last) <= c
    BY <1>3, <1>4, <2>1, <2>3
  <2>5. End(c) # End(last) /\ End(c) # End(first) /\ End(c) # End(h)
    BY <1>1, <2>1, <2>2, BlockFacts DEF IInv
  <2>6. End(c) \notin all \ {first}
    BY <1>4, <2>5
  <2> QED BY <2>1, <2>2, <2>4, <2>5, <2>6
<1> HIDE DEF all
<1>9. /\ Size(first)' = End(last) - first /\ End(first)' = End(last)
      /\ \A c \in Kept : Size(c)' = Size(c) /\ End(c)' = End(c)
  BY <1>3, <1>5 DEF Size, End
<1>10. all \subseteq Blocks /\ first \in all /\ last \in all /\ h \in all
       /\ \A b \in Blocks : b \in Kept \/ b = first \/ b = h \/ b = last
  BY <1>1 DEF all
<1> HIDE DEF Kept
<1>11. header' \in [Blocks' -> [size : Nat, hole : BOOLEAN]]
  <2>1. \A b \in Blocks' : header'[b] \in [size : Nat, hole : BOOLEAN]
    <3>1. header \in [Blocks -> [size : Nat, hole : BOOLEAN]]
      BY DEF IInv, Tiled
    <3>2. \A c \in Kept : header[c] \in [size : Nat, hole : BOOLEAN]
      BY <1>8, <3>1
    <3>3. End(last) - first \in Nat
      BY <1>3, <1>7
    <3>4. header'[first] \in [size : Nat, hole : BOOLEAN]
      BY <1>5, <3>3
    <3>5. \A c \in Kept : header'[c] \in [size : Nat, hole : BOOLEAN]
      BY <1>5, <3>2
    <3> QED BY <1>5, <3>4, <3>5
  <2>2. DOMAIN header' = Blocks' /\ header' = [b \in DOMAIN header' |-> header'[b]]
    BY <1>1 DEF Blocks
  <2> QED BY <2>1, <2>2
<1>12. Tiled'
  <2>1. Blocks' \subseteq Nat
    BY <1>3, <1>5, <1>8
  <2>2. realInit \in Blocks'
    <3>1. realInit \in Blocks /\ realInit \in Nat
      BY Numbers DEF IInv, Tiled
    <3>2. CASE realInit \in Kept
      BY <1>5, <3>2
    <3>3. CASE realInit \in {first, h, last}
      <4>1. realInit = first
        BY <1>3, <1>4, <3>1, <3>3
      <4> QED BY <1>5, <4>1
    <3> QED BY <1>10, <3>1, <3>2, <3>3
  <2>3. ASSUME NEW c \in Kept
        PROVE  /\ End(c) \in Blocks' \union {endAddress}
               /\ End(c) \in DOMAIN footer' /\ footer'[End(c)] = c
               /\ c = realInit \/ c \in DOMAIN footer'
               /\ c >= realInit /\ Size(c) >= Footprint /\ End(c) <= endAddress
    <3>1. /\ End(c) \in Blocks \union {endAddress}
          /\ c = realInit \/ c \in DOMAIN footer
          /\ End(c) \in DOMAIN footer /\ footer[End(c)] = c
          /\ c >= realInit /\ Size(c) >= Footprint /\ End(c) <= endAddress
      BY <1>8 DEF IInv, Tiled
    <3>2. End(c) \in Blocks' \union {endAddress}
      BY <1>5, <1>8, <1>10, <3>1
    <3>3. End(c) \in DOMAIN footer' /\ footer'[End(c)] = c
      BY <1>6, <1>8, <3>1
    <3>4. c \notin all
      BY DEF Kept
    <3> QED BY <1>6, <3>1, <3>2, <3>3, <3>4
  <2>4. /\ End(last) \in Blocks' \union {endAddress}
        /\ End(last) \in DOMAIN footer' /\ footer'[End(last)] = first
        /\ first = realInit \/ first \in DOMAIN footer'
    <3>1. /\ End(last) \in Blocks \union {endAddress} /\ End(last) \in DOMAIN footer
          /\ first = realInit \/ first \in DOMAIN footer
      BY <1>1 DEF IInv, Tiled
    <3>2. End(last) \in Blocks' \union {endAddress}
      BY <1>5, <1>7, <1>10, <3>1
    <3>3. End(last) \in DOMAIN footer' /\ footer'[End(last)] = first
      BY <1>6, <1>7, <3>1
    <3> QED BY <1>6, <3>1, <3>2, <3>3
  <2>5. ASSUME NEW b \in Blocks'
        PROVE  /\ b >= realInit /\ Size(b)' >= Footprint /\ End(b)' <= endAddress
               /\ End(b)' \in Blocks' \union {endAddress}
               /\ b = realInit \/ b \in DOMAIN footer'
               /\ footer'[End(b)'] = b
               /\ End(b)' \in DOMAIN footer'
    <3>1. CASE b = first
      <4>1. Size(b)' >= Footprint
        BY <1>3, <1>4, <1>9, <3>1, Numbers
      <4> QED BY <1>3, <1>9, <2>4, <3>1, <4>1, Numbers
    <3>2. CASE b \in Kept
      BY <1>9, <2>3, <3>2
    <3> QED BY <1>5, <3>1, <3>2
  <2>6. DOMAIN footer' = {End(b) : b \in Blocks}'
    <3>1. ASSUME NEW e \in DOMAIN footer' PROVE \E b \in Blocks' : e = End(b)'
      <4>1. PICK b \in Blocks : e = End(b)
        BY <1>6 DEF IInv, Tiled
      <4>2. CASE b \in Kept
        BY <1>5, <1>9, <4>1, <4>2
      <4>3. CASE b = last
        BY <1>5, <1>9, <4>1, <4>3
      <4>4. e \notin all \ {first}
        BY <1>6
      <4>5. CASE b = h
        <5>1. last = h
          BY <1>3, <1>4, <1>10, <4>1, <4>4, <4>5
        <5> QED BY <4>3, <4>5, <5>1
      <4>6. CASE b = first
        <5>1. first = h
          BY <1>3, <1>4, <1>10, <4>1, <4>4, <4>6
        <5> QED BY <4>5, <4>6, <5>1
      <4> QED BY <1>10, <4>2, <4>3, <4>5, <4>6
    <3> QED BY <2>5, <3>1
  <2>7. \A b, c \in Blocks' : b < c => End(b)' <= c
    <3> SUFFICES ASSUME NEW b \in Blocks', NEW c \in Blocks', b < c PROVE End(b)' <= c
      OBVIOUS
    <3>1. CASE b \in Kept /\ c \in Kept
      BY <1>8, <1>9, <3>1 DEF IInv, Tiled
    <3>2. CASE b = first /\ c \in Kept
      BY <1>3, <1>8, <1>9, <3>2
    <3>3. CASE b \in Kept /\ c = first
      BY <1>3, <1>7, <1>8, <1>9, <3>3
    <3>4. CASE b = first /\ c = first
      BY <1>3, <3>4
    <3> QED BY <1>5, <3>1, <3>2, <3>3, <3>4
  <2> QED BY <1>11, <2>1, <2>2, <2>5, <2>6, <2>7 DEF Tiled
<1>13. HolesApart'
  <2> SUFFICES ASSUME NEW b \in Blocks', header'[b].hole, End(b)' \in Blocks'
               PROVE  ~header'[End(b)'].hole
    BY DEF HolesApart
  <2>1. CASE b = first
    <3>1. End(last) \in Kept /\ End(last) \in Blocks
      <4>1. End(last) \in Blocks' /\ End(last) # first
        BY <1>3, <1>7, <1>9, <2>1
      <4> QED BY <1>5, <1>8, <4>1
    <3> QED BY <1>1, <1>5, <1>9, <2>1, <3>1
  <2>2. CASE b \in Kept
    <3>1. header[b].hole /\ b \in Blocks /\ End(b)' = End(b)
      BY <1>5, <1>8, <1>9, <2>2
    <3>2. End(b) # first
      BY <1>1, <3>1
    <3>3. End(b) \in Kept
      BY <1>5, <3>1, <3>2
    <3> QED BY <1>5, <1>8, <3>1, <3>3 DEF IInv, HolesApart
  <2> QED BY <1>5, <2>1, <2>2
<1>14. Listed'
  <2> DEFINE l == Removed(Removed(list, last), first)
  <2>1. /\ Removed(list, last) \in Seq(Blocks) /\ IsInjective(Removed(list, last))
        /\ Elements(Removed(list, last)) = Elements(list) \ {last}
        /\ Len(Removed(list, last)) <= Len(list)
    BY RemovedElements DEF IInv, Listed
  <2>2. /\ l \in Seq(Blocks) /\ IsInjective(l) /\ Elements(l) = Elements(list) \ {last, first}
        /\ Len(l) <= Len(Removed(list, last))
    <3>1. Elements(l) = Elements(Removed(list, last)) \ {first}
      BY <2>1, RemovedElements
    <3> QED BY <2>1, <3>1, RemovedElements
  <2>3. l \in Seq(Blocks) /\ Len(l) \in Nat /\ Len(Removed(list, last)) \in Nat
        /\ Len(list) \in Nat /\ Len(list) <= maxLength
    BY <2>1, <2>2 DEF IInv, Listed
  <2>4. Len(l) <= maxLength
    BY <2>1, <2>2, <2>3, Numbers
  <2>5. Elements(list) \subseteq Blocks /\ \A b \in Elements(list) : header[b].hole
    BY DEF IInv, Listed, Elements
  <2>6. Elements(l) \subseteq Kept
    BY <1>2, <1>10, <2>2, <2>5
  <2>7. l \in Seq(Blocks')
    <3>1. \A k \in 1 .. Len(l) : l[k] \in Elements(l)
      BY <2>2 DEF Elements
    <3>2. \A k \in 1 .. Len(l) : l[k] \in Blocks'
      BY <1>5, <2>6, <3>1
    <3> QED BY <2>2, <3>2
  <2>8. first \in Blocks' /\ first \notin Elements(l)
    BY <1>5, <2>2
  <2>9. list' \in AddToList(l, header', first)
    BY <1>1
  <2>10. full' = (Kept # {} /\ (full \/ Len(l) = maxLength))
    BY <1>1 DEF Kept, all
  <2> HIDE DEF l
  <2>11. /\ list' \in Seq(Blocks') /\ IsInjective(list') /\ Len(list') <= maxLength
         /\ Len(l) < maxLength => Elements(list') = Elements(l) \union {first}
         /\ Len(l) = maxLength => list' = l
    BY <2>2, <2>4, <2>7, <2>8, <2>9, AddedElements
  <2>12. Elements(list') \subseteq Elements(l) \union {first}
    <3>1. Len(l) < maxLength \/ Len(l) = maxLength
      BY <2>3, <2>4, Numbers
    <3> QED BY <2>11, <3>1
  <2>13. \A b \in Elements(list') : header'[b].hole
    <3>1. \A b \in Elements(l) : header'[b] = header[b] /\ header[b].hole
      BY <1>5, <2>2, <2>5, <2>6
    <3>2. header'[first].hole
      BY <1>5
    <3> QED BY <2>12, <3>1, <3>2
  <2>14. ASSUME ~full', NEW b \in Blocks', header'[b].hole
         PROVE  b \in Elements(list')
    <3>1. CASE Kept = {}
      <4>1. Elements(l) = {}
        BY <2>6, <3>1
      <4>2. Len(l) = 0
        <5>1. \A k \in 1 .. Len(l) : l[k] \in Elements(l)
          BY <2>3 DEF Elements
        <5>2. 1 \notin 1 .. Len(l)
          BY <4>1, <5>1
        <5> QED BY <2>3, <5>2
      <4>3. Len(l) < maxLength
        BY <4>2, Numbers
      <4> QED BY <1>5, <2>11, <2>14, <3>1, <4>3
    <3>2. CASE Kept # {}
      <4>1. ~full /\ Len(l) # maxLength
        BY <2>10, <2>14, <3>2
      <4>2. Len(l) < maxLength
        BY <2>3, <2>4, <4>1, Numbers
      <4>3. b # first => b \in Elements(l)
        <5>1. b # first => b \in Kept /\ header[b].hole /\ b \in Blocks /\ b # last
          BY <1>5, <1>8, <2>14
        <5> QED BY <2>2, <4>1, <5>1 DEF IInv, Listed
      <4> QED BY <2>11, <4>2, <4>3
    <3> QED BY <3>1, <3>2
  <2>15. full' => Blocks' # {realInit}
    <3> SUFFICES ASSUME Kept # {} PROVE Blocks' # {realInit}
      BY <2>10
    <3>1. PICK b \in Kept : TRUE
      OBVIOUS
    <3> QED BY <1>5, <1>8, <3>1
  <2>16. full' \in BOOLEAN /\ hung' \in BOOLEAN
    BY <1>2, <2>10 DEF IInv, Listed
  <2> QED BY <2>11, <2>13, <2>14, <2>15, <2>16 DEF Listed
<1> QED BY <1>12, <1>13, <1>14 DEF IInv

-----------------------------------------------------------------------------
(* The theorems.                                                           *)

\* The heap starts as one hole.
LEMMA InitEstablishes == ASSUME Init PROVE IInv
<1>1. /\ header = [h \in {realInit} |-> [size |-> endAddress - realInit, hole |-> TRUE]]
      /\ footer = [e \in {endAddress} |-> realInit]
      /\ list = <<realInit>> /\ full = FALSE /\ hung = FALSE
  BY DEF Init
<1>2. Blocks = {realInit}
  BY <1>1 DEF Blocks
<1>3. header[realInit] = [size |-> endAddress - realInit, hole |-> TRUE]
  BY <1>1
<1>4. endAddress - realInit \in Nat /\ Size(realInit) = endAddress - realInit /\ End(realInit) = endAddress
  BY <1>3, Numbers DEF Size, End
<1>5. header \in [Blocks -> [size : Nat, hole : BOOLEAN]]
  BY <1>1, <1>2, <1>4
<1>6. Tiled
  BY <1>1, <1>2, <1>4, <1>5, Numbers DEF Tiled
<1>7. HolesApart
  BY <1>2, <1>4, Numbers DEF HolesApart
<1>8. /\ list \in Seq(Blocks) /\ Len(list) = 1 /\ IsInjective(list) /\ Elements(list) = {realInit}
  BY <1>1, <1>2 DEF IsInjective, Elements
<1>9. Len(list) <= maxLength
  BY <1>8, Numbers
<1>10. Listed
  BY <1>1, <1>2, <1>3, <1>8, <1>9 DEF Listed
<1> QED BY <1>6, <1>7, <1>10 DEF IInv

\* What the search of kmalloc finds is a listed hole with more bytes than asked for.
LEMMA Fits ==
  ASSUME IInv, NEW amount, NEW i \in FirstFit(amount)
  PROVE  list[i] \in Elements(list) /\ BlockSize(list[i]) > amount
BY DEF FirstFit, Elements

LEMMA NextKeeps == ASSUME IInv, [Next]_vars PROVE IInv'
<1>1. ASSUME NEW amount \in Amounts, kmalloc(amount) PROVE IInv'
  <2>1. PICK i \in FirstFit(amount) :
          IF BlockSize(list[i]) - amount > MinRemainder
          THEN Split(list[i], amount)
          ELSE TakeWhole(list[i])
    BY <1>1 DEF kmalloc
  <2>2. UNCHANGED <<full, hung>> /\ list[i] \in Elements(list) /\ amount \in Nat
    BY <1>1, Fits, HeapAssumption DEF kmalloc
  <2> QED BY <2>1, <2>2, SplitStep, TakeWholeStep
<1>2. ASSUME UNCHANGED <<header, footer, list, full>>, hung' \in BOOLEAN PROVE IInv'
  <2>1. Blocks' = Blocks /\ \A h : Size(h)' = Size(h) /\ End(h)' = End(h)
    BY <1>2 DEF Blocks, Size, End
  <2>2. Tiled'
    BY <1>2, <2>1 DEF IInv, Tiled
  <2>3. HolesApart' /\ Listed'
    BY <1>2, <2>1 DEF IInv, HolesApart, Listed
  <2> QED BY <2>2, <2>3 DEF IInv
<1>3. ASSUME NEW amount \in Amounts, OutOfMemory(amount) PROVE IInv'
  BY <1>2, <1>3 DEF OutOfMemory
<1>4. ASSUME NEW h \in Blocks, kfree(h) PROVE IInv'
  BY <1>4, FreeStep
<1>5. CASE UNCHANGED vars
  BY <1>2, <1>5 DEF vars, IInv, Listed
<1> QED BY <1>1, <1>3, <1>4, <1>5 DEF Next

\* The parts of the invariant hold in every reachable state.
THEOREM Invariance == Spec => []IInv
<1>1. Init => IInv
  BY InitEstablishes
<1>2. IInv /\ [Next]_vars => IInv'
  BY NextKeeps
<1> QED BY <1>1, <1>2, PTL DEF Spec

\* Headers and footers agree in every reachable state, and the list is never longer than
\* its room.
THEOREM TypeCorrect == Spec => []TypeOK
<1>1. IInv => TypeOK
  <2> SUFFICES ASSUME IInv PROVE TypeOK
    OBVIOUS
  <2>1. ASSUME NEW h \in Blocks
        PROVE  /\ h \in realInit .. endAddress - 1
               /\ Size(h) \in HeaderSize + FooterSize .. endAddress - realInit
               /\ End(h) \in Blocks \union {endAddress}
               /\ End(h) \in DOMAIN footer /\ footer[End(h)] = h
    <3>1. /\ h \in Nat /\ Size(h) \in Nat /\ End(h) = h + Size(h)
          /\ realInit <= h /\ h + 20 <= End(h) /\ End(h) <= endAddress
      BY BlockFacts DEF IInv
    <3>2. /\ h \in realInit .. endAddress - 1
          /\ Size(h) \in HeaderSize + FooterSize .. endAddress - realInit
      BY <3>1, Numbers
    <3> QED BY <3>2 DEF IInv, Tiled
  <2> QED BY <2>1 DEF TypeOK, IInv, Tiled, Listed
<1> QED BY <1>1, Invariance, PTL

\* kmalloc finds every hole, once, as long as the list was long enough.
THEOREM HolesStayListed == Spec => []HolesAreListed
<1>1. IInv => HolesAreListed
  BY DEF IInv, Listed, HolesAreListed, Elements
<1> QED BY <1>1, Invariance, PTL

\* A heap that is all holes is one hole, and that hole is listed: nothing is lost in any
\* sequence of calls that gives back what it took.
THEOREM HeapIsWholeAgain == Spec => []WholeAgain
<1>1. IInv => WholeAgain
  <2> SUFFICES ASSUME IInv, \A h \in Blocks : header[h].hole
               PROVE  /\ Blocks = {realInit} /\ Size(realInit) = endAddress - realInit
                      /\ list = <<realInit>>
    BY DEF WholeAgain
  <2>1. realInit \in Blocks /\ End(realInit) \in Blocks \union {endAddress}
    BY DEF IInv, Tiled
  <2>2. End(realInit) = endAddress
    BY <2>1 DEF IInv, HolesApart
  <2>3. Blocks = {realInit}
    <3> SUFFICES ASSUME NEW b \in Blocks, b # realInit PROVE FALSE
      BY <2>1
    <3>1. /\ b \in Nat /\ End(b) \in Nat /\ realInit <= b /\ b < End(b) /\ End(b) <= endAddress
      BY BlockFacts DEF IInv
    <3>2. End(realInit) <= b \/ End(b) <= realInit
      BY <2>1, BlockFacts DEF IInv
    <3> QED BY <2>2, <3>1, <3>2, Numbers
  <2>4. Size(realInit) = endAddress - realInit
    <3>1. Size(realInit) \in Nat /\ endAddress = realInit + Size(realInit)
      BY <2>1, <2>2, BlockFacts DEF IInv
    <3> QED BY <3>1, Numbers
  <2>5. /\ list \in Seq({realInit}) /\ IsInjective(list)
        /\ realInit \in Elements(list)
    BY <2>1, <2>3 DEF IInv, Listed
  <2>6. Len(list) = 1
    <3>1. Len(list) \in Nat
      BY <2>5
    <3>2. Len(list) < 2
      <4>1. \A k \in 1 .. Len(list) : list[k] = realInit
        BY <2>5
      <4>2. \A k, m \in 1 .. Len(list) : k = m
        BY <2>5, <4>1 DEF IsInjective
      <4>3. ~(1 \in 1 .. Len(list) /\ 2 \in 1 .. Len(list))
        BY <4>2
      <4> QED BY <3>1, <4>3
    <3>3. Len(list) # 0
      <4>1. PICK k \in 1 .. Len(list) : list[k] = realInit
        BY <2>5 DEF Elements
      <4> QED BY <3>1, <4>1
    <3> DEFINE n == Len(list)
    <3>4. n \in Nat /\ n < 2 /\ n # 0
      BY <3>1, <3>2, <3>3
    <3> HIDE DEF n
    <3>5. n = 1
      BY <3>4
    <3> QED BY <3>5 DEF n
  <2>7. list = <<realInit>>
    BY <2>5, <2>6
  <2> QED BY <2>3, <2>4, <2>7
<1> QED BY <1>1, Invariance, PTL

-----------------------------------------------------------------------------
(* The heap implements the allocator.                                      *)

InUse == {b \in Blocks : ~header[b].hole}

PieceOf(h) == [from |-> h + HeaderSize, to |-> End(h) - FooterSize]

LEMMA PiecesInUse == Pieces = {PieceOf(h) : h \in InUse}
BY DEF Pieces, InUse, PieceOf

\* A hole that is put to use, whole or in part, becomes a piece that the allocator
\* allows.
LEMMA Granted ==
  ASSUME IInv, ~hung, hung' = hung, NEW amount \in Nat,
         NEW h \in Blocks, header[h].hole,
         InUse' = InUse \union {h}, \A b \in InUse : End(b)' = End(b),
         End(h)' \in Nat, End(h)' <= End(h), End(h)' >= h + amount + 20
  PROVE  Promise!Allocate(amount)
<1> DEFINE p == PieceOf(h)'
<1>1. /\ h \in Nat /\ realInit <= h /\ End(h) \in Nat /\ End(h) <= endAddress
      /\ h \notin InUse
  BY BlockFacts DEF IInv, InUse
<1>2. p = [from |-> h + 12, to |-> End(h)' - 8]
  BY Numbers DEF PieceOf
<1>3. \A b \in InUse :
        /\ PieceOf(b)' = PieceOf(b)
        /\ b \in Nat /\ b # h /\ End(b) \in Nat
        /\ PieceOf(b) = [from |-> b + 12, to |-> End(b) - 8]
        /\ End(b) <= h \/ End(h) <= b
  <2> SUFFICES ASSUME NEW b \in InUse
               PROVE  /\ PieceOf(b)' = PieceOf(b)
                      /\ b \in Nat /\ b # h /\ End(b) \in Nat
                      /\ PieceOf(b) = [from |-> b + 12, to |-> End(b) - 8]
                      /\ End(b) <= h \/ End(h) <= b
    OBVIOUS
  <2>1. b \in Blocks /\ b # h
    BY <1>1 DEF InUse
  <2>2. End(b)' = End(b)
    OBVIOUS
  <2> QED BY <2>1, <2>2, BlockFacts, Numbers DEF IInv, PieceOf
<1>4. Pieces' = Pieces \union {p}
  <2>1. Pieces' = {PieceOf(b)' : b \in InUse \union {h}}
    BY DEF Pieces, InUse, PieceOf
  <2> QED BY <1>3, <2>1, PiecesInUse
<1>5. p \notin Pieces
  <2> SUFFICES ASSUME NEW b \in InUse, p = PieceOf(b) PROVE FALSE
    BY PiecesInUse
  <2>1. [from |-> h + 12, to |-> End(h)' - 8].from = [from |-> b + 12, to |-> End(b) - 8].from
    BY <1>2, <1>3
  <2>2. h + 12 = b + 12
    BY <2>1
  <2> QED BY <1>1, <1>3, <2>2
<1>6. p \in Promise!Piece /\ p.to - p.from >= amount
  <2>1. /\ h + 12 \in realInit .. endAddress /\ End(h)' - 8 \in realInit .. endAddress
        /\ (End(h)' - 8) - (h + 12) >= amount
    BY <1>1, Numbers
  <2> QED BY <1>2, <2>1 DEF Promise!Piece
<1>7. \A q \in Pieces : p.to <= q.from \/ q.to <= p.from
  <2> SUFFICES ASSUME NEW b \in InUse
               PROVE  p.to <= PieceOf(b).from \/ PieceOf(b).to <= p.from
    BY PiecesInUse
  <2>1. End(h)' - 8 <= b + 12 \/ End(b) - 8 <= h + 12
    BY <1>1, <1>3
  <2> QED BY <1>2, <1>3, <2>1
<1> HIDE DEF p
<1>8. p \in Pieces' \ Pieces
  BY <1>4, <1>5
<1> QED BY <1>4, <1>6, <1>7, <1>8 DEF Promise!Allocate

LEMMA MallocAllocates ==
  ASSUME IInv, NEW amount \in Amounts, kmalloc(amount)
  PROVE  Promise!Allocate(amount)
<1>1. PICK i \in FirstFit(amount) :
        IF BlockSize(list[i]) - amount > MinRemainder
        THEN Split(list[i], amount)
        ELSE TakeWhole(list[i])
  BY DEF kmalloc
<1>0. PICK h : h = list[i]
  OBVIOUS
<1>2. /\ ~hung /\ hung' = hung /\ amount \in Nat
      /\ h \in Elements(list) /\ BlockSize(h) > amount
  BY <1>0, Fits, HeapAssumption DEF kmalloc
<1>3. h \in Blocks /\ header[h].hole
  BY <1>2 DEF IInv, Listed, Elements
<1>4. /\ h \in Nat /\ Size(h) \in Nat /\ End(h) = h + Size(h) /\ End(h) \in Nat
      /\ End(h) >= h + amount + 20
  <2>1. h \in Nat /\ Size(h) \in Nat /\ End(h) = h + Size(h)
    BY <1>3, BlockFacts DEF IInv
  <2>2. Size(h) - 20 > amount
    BY <1>2, <2>1, Numbers DEF BlockSize
  <2> QED BY <1>2, <2>1, <2>2
<1>5. CASE BlockSize(h) - amount > MinRemainder
  <2>1. Split(h, amount)
    BY <1>0, <1>1, <1>5
  <2>0. PICK next : next = h + amount + 20
    OBVIOUS
  <2>2. /\ next + 20 < End(h) /\ next \in Nat
        /\ Blocks' = Blocks \union {next}
        /\ header'[h] = [size |-> amount + 20, hole |-> FALSE]
        /\ header'[next] = [size |-> Size(h) - (amount + 20), hole |-> TRUE]
        /\ \A b \in Blocks \ {h} : header'[b] = header[b]
    <3>1. h \in Elements(list) /\ amount \in Nat
      BY <1>2
    <3>2. /\ h \in Blocks /\ header[h].hole
          /\ h < next /\ next + 20 < End(h) /\ next \in Nat
          /\ next \notin Blocks /\ next \notin DOMAIN footer /\ next # End(h)
          /\ Blocks' = Blocks \union {next}
          /\ header'[h] = [size |-> amount + 20, hole |-> FALSE]
          /\ header'[next] = [size |-> Size(h) - (amount + 20), hole |-> TRUE]
          /\ \A b \in Blocks \ {h} : header'[b] = header[b]
          /\ header' \in [Blocks' -> [size : Nat, hole : BOOLEAN]]
          /\ DOMAIN footer' = DOMAIN footer \union {next}
          /\ footer'[next] = h /\ footer'[End(h)] = next
          /\ \A e \in DOMAIN footer \ {End(h)} : footer'[e] = footer[e]
      BY <1>5, <2>0, <2>1, <3>1, SplitEffect
    <3> QED BY <3>2
  <2>3. End(h)' = next
    <3>1. Size(h)' = amount + 20
      BY <2>2 DEF Size
    <3>2. End(h)' = h + (amount + 20)
      BY <3>1 DEF End
    <3> QED BY <1>2, <1>4, <2>0, <3>2
  <2>4. InUse' = InUse \union {h}
    BY <1>3, <2>2 DEF InUse
  <2>5. \A b \in InUse : End(b)' = End(b)
    BY <1>3, <2>2 DEF InUse, End, Size
  <2>6. End(h)' \in Nat /\ End(h)' <= End(h) /\ End(h)' >= h + amount + 20
    BY <1>2, <1>4, <2>0, <2>2, <2>3
  <2>7. ~hung /\ hung' = hung /\ amount \in Nat
    BY <1>2
  <2> QED BY <1>3, <2>4, <2>5, <2>6, <2>7, Granted
<1>6. CASE ~(BlockSize(h) - amount > MinRemainder)
  <2>1. header' = [header EXCEPT ![h].hole = FALSE]
    BY <1>0, <1>1, <1>6 DEF TakeWhole
  <2>2. /\ Blocks' = Blocks /\ ~header'[h].hole /\ header'[h].size = header[h].size
        /\ \A b \in Blocks \ {h} : header'[b] = header[b]
    <3>1. Blocks' = Blocks
      BY <2>1 DEF Blocks
    <3>2. header \in [Blocks -> [size : Nat, hole : BOOLEAN]]
      BY DEF IInv, Tiled
    <3> QED BY <1>3, <2>1, <3>1, <3>2
  <2>3. End(h)' = End(h)
    <3>1. Size(h)' = Size(h)
      BY <2>2 DEF Size
    <3> QED BY <3>1 DEF End
  <2>4. InUse' = InUse \union {h}
    BY <1>3, <2>2 DEF InUse
  <2>5. \A b \in InUse : End(b)' = End(b)
    BY <1>3, <2>2 DEF InUse, End, Size
  <2>6. End(h)' \in Nat /\ End(h)' <= End(h) /\ End(h)' >= h + amount + 20
    BY <1>4, <2>3
  <2>7. ~hung /\ hung' = hung /\ amount \in Nat
    BY <1>2
  <2> QED BY <1>3, <2>4, <2>5, <2>6, <2>7, Granted
<1> QED BY <1>5, <1>6

LEMMA FreeReleases ==
  ASSUME IInv, NEW h \in Blocks, kfree(h)
  PROVE  PieceOf(h) \in Pieces /\ Promise!Release(PieceOf(h))
<1>1. PICK first, last \in Blocks :
        LET all    == {first, h, last}
            others == Removed(Removed(list, last), first)
        IN  /\ first = h \/ (header[first].hole /\ End(first) = h)
            /\ last = h \/ (header[last].hole /\ End(h) = last)
            /\ first <= h /\ h <= last /\ End(first) <= End(last)
            /\ \A c \in Blocks : End(c) = first => ~header[c].hole
            /\ End(last) \in Blocks => ~header[End(last)].hole
            /\ header' = [b \in (Blocks \ all) \union {first} |->
                            IF b = first THEN [size |-> End(last) - first, hole |-> TRUE]
                            ELSE header[b]]
            /\ footer' = [e \in DOMAIN footer \ (all \ {first}) |->
                            IF e = End(last) THEN first ELSE footer[e]]
            /\ list' \in AddToList(others, header', first)
            /\ full' = (Blocks \ all # {} /\ (full \/ Len(others) = maxLength))
  BY FreeEffect
<1>2. ~header[h].hole /\ hung' = hung /\ ~hung
  BY FreeEffect
<1>3. InUse' = InUse \ {h}
  BY <1>1, <1>2 DEF InUse, Blocks
<1>4. \A b \in InUse \ {h} : End(b)' = End(b) /\ PieceOf(b)' = PieceOf(b)
  BY <1>1, <1>2 DEF InUse, End, Size, PieceOf
<1>5. \A b \in InUse \ {h} : PieceOf(b) # PieceOf(h)
  <2> SUFFICES ASSUME NEW b \in InUse \ {h}, PieceOf(b) = PieceOf(h) PROVE FALSE
    OBVIOUS
  <2>1. b \in Nat /\ h \in Nat
    BY BlockFacts DEF InUse, IInv
  <2>2. b + 12 = h + 12
    BY Numbers DEF PieceOf
  <2> QED BY <2>1, <2>2
<1>6. h \in InUse
  BY <1>2 DEF InUse
<1>7. Pieces' = {PieceOf(b)' : b \in InUse'}
  BY DEF Pieces, InUse, PieceOf
<1>8. Pieces' = Pieces \ {PieceOf(h)}
  BY <1>3, <1>4, <1>5, <1>6, <1>7, PiecesInUse
<1> QED BY <1>2, <1>6, <1>8, PiecesInUse DEF Promise!Release

\* Every step of the heap is a step of the allocator, or of the list of holes only.
LEMMA StepImplements ==
  ASSUME IInv, [Next]_vars
  PROVE  [Promise!Next]_Promise!vars
<1>1. ASSUME NEW amount \in Amounts, kmalloc(amount) PROVE Promise!Next
  BY <1>1, MallocAllocates DEF Promise!Next
<1>2. ASSUME header' = header PROVE Pieces' = Pieces
  BY <1>2 DEF Pieces, Blocks, End, Size
<1>3. ASSUME NEW amount \in Amounts, OutOfMemory(amount) PROVE Promise!Next
  BY <1>2, <1>3 DEF OutOfMemory, Promise!Next, Promise!GiveUp
<1>4. ASSUME NEW h \in Blocks, kfree(h) PROVE Promise!Next
  BY <1>4, FreeReleases DEF Promise!Next
<1>5. CASE UNCHANGED vars
  BY <1>2, <1>5 DEF vars, Promise!vars
<1> QED BY <1>1, <1>3, <1>4, <1>5 DEF Next

\* new and delete keep their promise in every sequence of calls: a piece is long enough,
\* lies in the heap, is shared with no other in use, and stays until it is freed.
THEOREM HeapKeepsPromise == Spec => KeepsPromise
<1>1. ASSUME Init PROVE Promise!Init
  <2>1. header[realInit].hole /\ Blocks = {realInit} /\ hung = FALSE
    BY <1>1 DEF Init, Blocks
  <2> QED BY <2>1 DEF Promise!Init, Pieces
<1>2. ASSUME IInv, [Next]_vars
      PROVE  /\ [Promise!Next]_Promise!vars
             /\ \A amount \in Amounts : kmalloc(amount) => Promise!Allocate(amount)
  BY <1>2, StepImplements, MallocAllocates
<1>3. IInv /\ [Next]_vars => [Promise!Next]_Promise!vars
  BY <1>2
<1>4. IInv /\ [Next]_vars => [\A amount \in Amounts : kmalloc(amount) => Promise!Allocate(amount)]_vars
  BY <1>2
<1>5. Init => Promise!Init
  BY <1>1
<1>6. Spec => Promise!Spec
  BY <1>3, <1>5, Invariance, PTL DEF Spec, Promise!Spec
<1>7. Spec => [][\A amount \in Amounts : kmalloc(amount) => Promise!Allocate(amount)]_vars
  BY <1>4, Invariance, PTL DEF Spec
<1> QED BY <1>6, <1>7 DEF KeepsPromise
=============================================================================
