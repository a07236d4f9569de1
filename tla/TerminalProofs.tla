--------------------------- MODULE TerminalProofs ---------------------------
(***************************************************************************)
(* The terminal: its screen, as kernel and console print on it, and its    *)
(* keyboard: the ring of characters typed ahead, the read that waits for   *)
(* them, and the key AltGr. A text is printed by a fold; what a fold       *)
(* computes is proved by induction on the characters printed, which the    *)
(* well-founded order of the natural numbers gives.                        *)
(***************************************************************************)
EXTENDS Terminal, KeyboardProofs, WellFoundedInduction

-----------------------------------------------------------------------------
(* Rows and columns.                                                       *)

Spot(r, c) == r * Cols + c

\* The screen has at least one row and one column.
LEMMA Sizes == Rows \in Nat \ {0} /\ Cols \in Nat \ {0}
BY ScreenAssumption

\* Multiples of m are at least m apart.
LEMMA Grows ==
  ASSUME NEW a \in Nat, NEW b \in Nat, NEW m \in Nat, a < b
  PROVE  (a + 1) * m <= b * m /\ a * m + m = (a + 1) * m
<1>1. PICK d \in Nat : b = (a + 1) + d
  <2>1. b - (a + 1) \in Nat /\ b = (a + 1) + (b - (a + 1))
    OBVIOUS
  <2> QED BY <2>1
<1>2. b * m = (a + 1) * m + d * m /\ d * m \in Nat /\ (a + 1) * m \in Nat
  BY <1>1
<1>3. a * m + m = (a + 1) * m
  OBVIOUS
<1> QED BY <1>2, <1>3

\* A place is known by its row and column.
LEMMA SpotIs ==
  ASSUME NEW r \in 0 .. Rows - 1, NEW c \in 0 .. Cols - 1
  PROVE  /\ Spot(r, c) \in Positions
         /\ Spot(r, c) \div Cols = r
         /\ Spot(r, c) % Cols = c
<1>1. r \in Nat /\ c \in Nat /\ r < Rows /\ c < Cols /\ Rows \in Nat /\ Cols \in Nat \ {0}
  BY Sizes
<1> DEFINE m == Cols
           p == r * m + c
           q == p \div m
           t == p % m
<1>2. p \in Nat /\ q \in Nat /\ t \in 0 .. m - 1 /\ p = m * q + t
  BY <1>1
<1>3. q = r /\ t = c
  <2> HIDE DEF q, t
  <2>1. CASE q < r
    <3>1. (q + 1) * m <= r * m /\ q * m + m = (q + 1) * m
      BY <1>1, <1>2, <2>1, Grows
    <3> QED BY <1>1, <1>2, <3>1
  <2>2. CASE r < q
    <3>1. (r + 1) * m <= q * m /\ r * m + m = (r + 1) * m
      BY <1>1, <1>2, <2>2, Grows
    <3> QED BY <1>1, <1>2, <3>1
  <2>3. q = r
    BY <1>1, <1>2, <2>1, <2>2
  <2> QED BY <1>1, <1>2, <2>3
<1>4. p < Rows * m
  <2>1. (r + 1) * m <= Rows * m /\ r * m + m = (r + 1) * m
    BY <1>1, Grows
  <2> QED BY <1>1, <2>1
<1> QED BY <1>1, <1>2, <1>3, <1>4 DEF Spot, Positions

\* ... and every position is a place.
LEMMA PositionIs ==
  ASSUME NEW p \in Positions
  PROVE  /\ p \div Cols \in 0 .. Rows - 1 /\ p % Cols \in 0 .. Cols - 1
         /\ Spot(p \div Cols, p % Cols) = p
<1>1. p \in Nat /\ p < Rows * Cols /\ Rows \in Nat \ {0} /\ Cols \in Nat \ {0}
  BY Sizes DEF Positions
<1> DEFINE m == Cols
           q == p \div m
           t == p % m
<1>2. q \in Nat /\ t \in 0 .. m - 1 /\ p = m * q + t
  BY <1>1
<1>3. q < Rows
  <2> HIDE DEF q, t
  <2>1. ASSUME Rows <= q PROVE FALSE
    <3>1. CASE Rows = q
      BY <1>1, <1>2, <3>1
    <3>2. CASE Rows < q
      <4>1. (Rows + 1) * m <= q * m /\ Rows * m + m = (Rows + 1) * m
        BY <1>1, <1>2, <3>2, Grows
      <4> QED BY <1>1, <1>2, <4>1
    <3> QED BY <1>1, <1>2, <2>1, <3>1, <3>2
  <2> QED BY <1>1, <1>2, <2>1
<1> QED BY <1>1, <1>2, <1>3 DEF Spot

\* The next place, the place below, and the last row.
LEMMA SpotNext ==
  ASSUME NEW r \in 0 .. Rows - 1, NEW c \in 0 .. Cols - 1
  PROVE  /\ Spot(r, c) + Cols = Spot(r + 1, c)
         /\ Spot(r, c) + 1 = IF c + 1 < Cols THEN Spot(r, c + 1) ELSE Spot(r + 1, 0)
         /\ Spot(r, c) < (Rows - 1) * Cols <=> r < Rows - 1
         /\ Spot(r, c) + 1 >= Rows * Cols <=> r = Rows - 1 /\ c = Cols - 1
         /\ (Spot(r, c) + 1) \div Cols = IF c + 1 < Cols THEN r ELSE r + 1
         /\ (Spot(r, c) + 1) % Cols = IF c + 1 < Cols THEN c + 1 ELSE 0
<1>1. r \in Nat /\ c \in Nat /\ r < Rows /\ c < Cols /\ Rows \in Nat /\ Cols \in Nat \ {0}
  BY Sizes
<1>2. r * Cols + Cols = (r + 1) * Cols
  BY <1>1
<1>3. r < Rows - 1 => (r + 1) * Cols <= (Rows - 1) * Cols
  BY <1>1, Grows
<1>4. (Rows - 1) * Cols + Cols = Rows * Cols
  BY <1>1
<1>5. Spot(r, c) + 1 = IF c + 1 < Cols THEN Spot(r, c + 1) ELSE Spot(r + 1, 0)
  BY <1>1, <1>2 DEF Spot
<1>6. Spot(r, c) < (Rows - 1) * Cols <=> r < Rows - 1
  <2>1. r = Rows - 1 => ~(Spot(r, c) < (Rows - 1) * Cols)
    BY <1>1 DEF Spot
  <2>2. r < Rows - 1 => Spot(r, c) < (Rows - 1) * Cols
    BY <1>1, <1>2, <1>3 DEF Spot
  <2> QED BY <1>1, <2>1, <2>2
<1>7. Spot(r, c) + 1 >= Rows * Cols <=> r = Rows - 1 /\ c = Cols - 1
  <2>1. r = Rows - 1 => (Spot(r, c) + 1 >= Rows * Cols <=> c = Cols - 1)
    BY <1>1, <1>4 DEF Spot
  <2>2. r < Rows - 1 => Spot(r, c) + 1 < Rows * Cols
    BY <1>1, <1>2, <1>3, <1>4 DEF Spot
  <2>3. Spot(r, c) + 1 \in Nat /\ Rows * Cols \in Nat
    BY <1>1 DEF Spot
  <2> QED BY <1>1, <2>1, <2>2, <2>3
<1>8. CASE c + 1 < Cols
  <2>1. Spot(r, c + 1) \div Cols = r /\ Spot(r, c + 1) % Cols = c + 1
    BY <1>1, <1>8, SpotIs
  <2> QED BY <1>1, <1>2, <1>5, <1>6, <1>7, <1>8, <2>1 DEF Spot
<1>9. CASE ~(c + 1 < Cols)
  <2>1. Spot(r, c) + 1 = (r + 1) * Cols
    BY <1>1, <1>2, <1>9 DEF Spot
  <2>2. ((r + 1) * Cols) \div Cols = r + 1 /\ ((r + 1) * Cols) % Cols = 0
    <3> DEFINE m == Cols
               p == (r + 1) * m
               q == p \div m
               t == p % m
    <3>1. p \in Nat /\ q \in Nat /\ t \in 0 .. m - 1 /\ p = m * q + t
      BY <1>1
    <3> HIDE DEF q, t
    <3>2. CASE q < r + 1
      <4>1. (q + 1) * m <= (r + 1) * m /\ q * m + m = (q + 1) * m
        BY <1>1, <3>1, <3>2, Grows
      <4> QED BY <1>1, <3>1, <4>1
    <3>3. CASE r + 1 < q
      <4>1. (r + 1 + 1) * m <= q * m /\ (r + 1) * m + m = (r + 1 + 1) * m
        BY <1>1, <3>1, <3>3, Grows
      <4> QED BY <1>1, <3>1, <4>1
    <3>4. q = r + 1
      BY <1>1, <3>1, <3>2, <3>3
    <3> QED BY <1>1, <3>1, <3>4 DEF q, t
  <2> QED BY <1>1, <1>2, <1>5, <1>6, <1>7, <1>9, <2>1, <2>2 DEF Spot
<1> QED BY <1>8, <1>9

\* Two screens are the same if they are so at every place.
IsAScreen(pic) == pic = [p \in Positions |-> pic[p]]

LEMMA SameScreen ==
  ASSUME NEW pic, NEW other, IsAScreen(pic), IsAScreen(other),
         \A r \in 0 .. Rows - 1, c \in 0 .. Cols - 1 : pic[Spot(r, c)] = other[Spot(r, c)]
  PROVE  pic = other
<1>1. ASSUME NEW p \in Positions PROVE pic[p] = other[p]
  BY PositionIs
<1> QED BY <1>1 DEF IsAScreen

\* What a screen is made of is a screen.
LEMMA Screens ==
  /\ \A sheet : IsAScreen(Shown(sheet))
  /\ \A pic : IsAScreen(ScrolledUp(pic))
  /\ \A pic, p, c : IsAScreen(pic) => IsAScreen([pic EXCEPT ![p] = c])
<1>1. ASSUME NEW sheet PROVE IsAScreen(Shown(sheet))
  BY DEF Shown, IsAScreen
<1>2. ASSUME NEW pic PROVE IsAScreen(ScrolledUp(pic))
  BY DEF ScrolledUp, IsAScreen
<1>3. ASSUME NEW pic, NEW p, NEW c, IsAScreen(pic) PROVE IsAScreen([pic EXCEPT ![p] = c])
  BY <1>3 DEF IsAScreen
<1> QED BY <1>1, <1>2, <1>3

-----------------------------------------------------------------------------
(* Paper.                                                                  *)

\* What a printed line may hold, and what a place of the screen may.
Papers(G) == {p \in Seq(Seq(G)) : Len(p) \in 1 .. Rows /\ \A n \in 1 .. Len(p) : Len(p[n]) <= Cols}

\* What Front and Append do, element by element.
LEMMA FrontIs ==
  ASSUME NEW T, NEW s \in Seq(T), Len(s) >= 1
  PROVE  /\ Front(s) \in Seq(T) /\ Len(Front(s)) = Len(s) - 1
         /\ \A i \in 1 .. Len(s) - 1 : Front(s)[i] = s[i]
<1>1. Len(s) \in Nat /\ \A i \in 1 .. Len(s) - 1 : s[i] \in T
  OBVIOUS
<1>2. PICK d \in Nat : d = Len(s) - 1
  <2>1. Len(s) - 1 \in Nat
    BY <1>1
  <2> QED BY <2>1
<1>3. 1 \in 1 .. Len(s) + 1 /\ d \in 1 - 1 .. Len(s) /\ d - 1 + 1 = d
  BY <1>1, <1>2
<1>4. Front(s) = SubSeq(s, 1, d)
  BY <1>2 DEF Front
<1>5. /\ SubSeq(s, 1, d) \in Seq(T) /\ Len(SubSeq(s, 1, d)) = d
      /\ \A i \in 1 .. d : SubSeq(s, 1, d)[i] = s[i]
  BY <1>1, <1>2, <1>3, SubSeqProperties
<1> QED BY <1>2, <1>4, <1>5

LEMMA AppendIs ==
  ASSUME NEW T, NEW s \in Seq(T), NEW x \in T
  PROVE  /\ Append(s, x) \in Seq(T) /\ Len(Append(s, x)) = Len(s) + 1
         /\ Append(s, x)[Len(s) + 1] = x /\ Len(s) \in Nat
         /\ \A i \in 1 .. Len(s) : Append(s, x)[i] = s[i]
OBVIOUS

\* The character of a sheet in a row and a column.
Cell(sheet, r, c) ==
  IF r < Len(sheet) /\ c < Len(sheet[r + 1]) THEN sheet[r + 1][c + 1] ELSE Blank

\* The screen shows a character of the paper where it is on paper.
LEMMA ShownAt ==
  ASSUME NEW sheet, NEW r \in 0 .. Rows - 1, NEW c \in 0 .. Cols - 1, Len(sheet) \in Nat
  PROVE  Shown(sheet)[Spot(r, c)] = Cell(sheet, r, c)
<1>1. PICK p \in Positions : p = Spot(r, c)
  BY SpotIs
<1>2. p \div Cols = r /\ p % Cols = c
  BY <1>1, SpotIs
<1>3. r \in Nat /\ c \in Nat
  BY Sizes
<1>4. Shown(sheet)[p] =
        IF r + 1 <= Len(sheet) /\ c + 1 <= Len(sheet[r + 1]) THEN sheet[r + 1][c + 1] ELSE Blank
  BY <1>2 DEF Shown
<1>5. r + 1 <= Len(sheet) <=> r < Len(sheet)
  BY <1>3
<1>6. c + 1 <= Len(sheet[r + 1]) <=> c < Len(sheet[r + 1])
  BY <1>3
<1> QED BY <1>1, <1>4, <1>5, <1>6 DEF Cell

\* A character is added to the last line.
Extended(sheet, g) == [sheet EXCEPT ![Len(sheet)] = Append(sheet[Len(sheet)], g)]

\* A line is begun; the first one leaves when there are too many.
Fed(sheet) == IF Len(sheet) < Rows THEN Append(sheet, <<>>) ELSE Append(Tail(sheet), <<>>)

\* One character more on the last line changes that place only.
LEMMA ExtendedIs ==
  ASSUME NEW G, NEW sheet \in Papers(G), NEW g \in G, Len(sheet[Len(sheet)]) < Cols
  PROVE  /\ Extended(sheet, g) \in Papers(G)
         /\ Len(Extended(sheet, g)) = Len(sheet)
         /\ Len(Extended(sheet, g)[Len(sheet)]) = Len(sheet[Len(sheet)]) + 1
         /\ Append(Front(sheet), Append(Last(sheet), g)) = Extended(sheet, g)
         /\ \A r \in 0 .. Rows - 1, c \in 0 .. Cols - 1 :
              Cell(Extended(sheet, g), r, c) =
                IF r = Len(sheet) - 1 /\ c = Len(sheet[Len(sheet)]) THEN g ELSE Cell(sheet, r, c)
<1> DEFINE n == Len(sheet)
           line == sheet[n]
           longer == Append(line, g)
           e == Extended(sheet, g)
<1>1. /\ sheet \in Seq(Seq(G)) /\ n \in Nat /\ n >= 1 /\ n <= Rows /\ Rows \in Nat /\ Cols \in Nat
      /\ \A i \in 1 .. n : sheet[i] \in Seq(G) /\ Len(sheet[i]) <= Cols
  BY Sizes DEF Papers
<1>2. /\ line \in Seq(G) /\ longer \in Seq(G) /\ Len(longer) = Len(line) + 1
      /\ longer[Len(line) + 1] = g /\ \A i \in 1 .. Len(line) : longer[i] = line[i]
  BY <1>1
<1>3. /\ e \in Seq(Seq(G)) /\ Len(e) = n /\ e[n] = longer
      /\ \A i \in 1 .. n : i # n => e[i] = sheet[i]
  BY <1>1, <1>2, ExceptSeq DEF Extended
<1> HIDE DEF e, longer
<1>4. e \in Papers(G)
  BY <1>1, <1>2, <1>3 DEF Papers
<1>5. Append(Front(sheet), longer) = e
  <2>1. /\ Front(sheet) \in Seq(Seq(G)) /\ Len(Front(sheet)) = n - 1
        /\ \A i \in 1 .. n - 1 : Front(sheet)[i] = sheet[i]
    BY <1>1, FrontIs
  <2> DEFINE a == Append(Front(sheet), longer)
  <2>2. /\ a \in Seq(Seq(G)) /\ Len(a) = n /\ a[n] = longer
        /\ \A i \in 1 .. n - 1 : a[i] = sheet[i]
    <3>1. PICK s \in Seq(Seq(G)) : s = Front(sheet)
      BY <2>1
    <3>2. /\ Append(s, longer) \in Seq(Seq(G)) /\ Len(Append(s, longer)) = Len(s) + 1
          /\ Append(s, longer)[Len(s) + 1] = longer
          /\ \A i \in 1 .. Len(s) : Append(s, longer)[i] = s[i]
      BY <1>2, AppendIs
    <3> QED BY <1>1, <2>1, <3>1, <3>2
  <2> HIDE DEF a
  <2>3. a = e
    <3>1. ASSUME NEW i \in 1 .. n PROVE a[i] = e[i]
      <4>1. CASE i = n
        BY <1>3, <2>2, <4>1
      <4>2. CASE i # n
        <5>1. i \in 1 .. n - 1
          BY <1>1, <4>2
        <5> QED BY <1>3, <2>2, <4>2, <5>1
      <4> QED BY <4>1, <4>2
    <3> QED BY <1>3, <2>2, <3>1, SeqEqual
  <2> QED BY <2>3 DEF a
<1>6. ASSUME NEW r \in 0 .. Rows - 1, NEW c \in 0 .. Cols - 1
      PROVE  Cell(e, r, c) = IF r = n - 1 /\ c = Len(line) THEN g ELSE Cell(sheet, r, c)
  <2>1. r \in Nat /\ c \in Nat
    BY <1>1
  <2>2. CASE r = n - 1
    <3>1. r + 1 = n /\ r < n
      BY <1>1, <2>2
    <3>2. /\ Cell(e, r, c) = IF c < Len(longer) THEN longer[c + 1] ELSE Blank
          /\ Cell(sheet, r, c) = IF c < Len(line) THEN line[c + 1] ELSE Blank
      BY <1>3, <3>1 DEF Cell
    <3>3. /\ c < Len(line) => c + 1 \in 1 .. Len(line) /\ c < Len(longer)
          /\ c > Len(line) => ~(c < Len(longer))
      BY <1>2, <2>1
    <3> HIDE DEF line
    <3> QED BY <1>2, <2>1, <2>2, <3>2, <3>3
  <2>3. CASE r # n - 1
    <3>1. r < n => r + 1 \in 1 .. n /\ r + 1 # n
      BY <1>1, <2>1, <2>3
    <3>2. r < n => e[r + 1] = sheet[r + 1]
      BY <1>3, <3>1
    <3> QED BY <1>3, <2>3, <3>2 DEF Cell
  <2> QED BY <2>2, <2>3
<1> QED BY <1>2, <1>3, <1>4, <1>5, <1>6 DEF e, longer, Last

\* One line more moves the others up when there are too many.
LEMMA FedIs ==
  ASSUME NEW G, NEW sheet \in Papers(G)
  PROVE  /\ Fed(sheet) \in Papers(G)
         /\ Len(Fed(sheet)) = IF Len(sheet) < Rows THEN Len(sheet) + 1 ELSE Rows
         /\ Fed(sheet)[Len(Fed(sheet))] = <<>>
         /\ Fed(sheet) = IF Len(Append(sheet, <<>>)) > Rows THEN Tail(Append(sheet, <<>>))
                         ELSE Append(sheet, <<>>)
         /\ \A r \in 0 .. Rows - 1, c \in 0 .. Cols - 1 :
              Cell(Fed(sheet), r, c) =
                IF Len(sheet) < Rows THEN Cell(sheet, r, c)
                ELSE IF r < Rows - 1 THEN Cell(sheet, r + 1, c) ELSE Blank
<1> DEFINE n == Len(sheet)
           f == Fed(sheet)
<1>1. /\ sheet \in Seq(Seq(G)) /\ n \in Nat /\ n >= 1 /\ n <= Rows /\ Rows \in Nat /\ Cols \in Nat
      /\ \A i \in 1 .. n : sheet[i] \in Seq(G) /\ Len(sheet[i]) <= Cols
  BY Sizes DEF Papers
<1>2. <<>> \in Seq(G) /\ Len(<<>>) = 0
  OBVIOUS
<1>3. /\ Append(sheet, <<>>) \in Seq(Seq(G)) /\ Len(Append(sheet, <<>>)) = n + 1
      /\ Append(sheet, <<>>)[n + 1] = <<>>
      /\ \A i \in 1 .. n : Append(sheet, <<>>)[i] = sheet[i]
  BY <1>1, <1>2, AppendProperties
<1>4. CASE n < Rows
  <2>1. f = Append(sheet, <<>>)
    BY <1>4 DEF Fed
  <2> HIDE DEF f
  <2>2. f \in Papers(G) /\ Len(f) = n + 1 /\ f[n + 1] = <<>>
    <3>1. \A i \in 1 .. n + 1 : i = n + 1 \/ i \in 1 .. n
      BY <1>1
    <3>2. ASSUME NEW i \in 1 .. n + 1 PROVE Len(f[i]) <= Cols
      <4>1. CASE i = n + 1
        BY <1>1, <1>2, <1>3, <2>1, <4>1
      <4>2. CASE i \in 1 .. n
        <5>1. f[i] = sheet[i]
          BY <1>3, <2>1, <4>2
        <5> QED BY <1>1, <4>2, <5>1
      <4> QED BY <3>1, <4>1, <4>2
    <3>3. f \in Seq(Seq(G)) /\ Len(f) = n + 1 /\ n + 1 \in 1 .. Rows
      BY <1>1, <1>3, <1>4, <2>1
    <3> QED BY <1>3, <2>1, <3>2, <3>3 DEF Papers
  <2>3. ASSUME NEW r \in 0 .. Rows - 1, NEW c \in 0 .. Cols - 1
        PROVE  Cell(f, r, c) = Cell(sheet, r, c)
    <3>1. r \in Nat /\ c \in Nat
      BY <1>1
    <3>2. CASE r < n
      BY <1>1, <1>3, <2>1, <3>1, <3>2 DEF Cell
    <3>3. CASE r >= n
      BY <1>1, <1>2, <1>3, <2>1, <3>1, <3>3 DEF Cell
    <3> QED BY <1>1, <3>1, <3>2, <3>3
  <2> QED BY <1>1, <1>3, <1>4, <2>1, <2>2, <2>3 DEF f
<1>5. CASE n = Rows
  <2>1. f = Append(Tail(sheet), <<>>)
    BY <1>1, <1>5 DEF Fed
  <2>2. /\ Tail(sheet) \in Seq(Seq(G)) /\ Len(Tail(sheet)) = n - 1
        /\ \A i \in 1 .. n - 1 : Tail(sheet)[i] = sheet[i + 1]
    BY <1>1
  <2> HIDE DEF f
  <2>3. /\ f \in Seq(Seq(G)) /\ Len(f) = n /\ f[n] = <<>>
        /\ \A i \in 1 .. n - 1 : f[i] = sheet[i + 1]
    BY <1>1, <1>2, <2>1, <2>2, AppendProperties
  <2>4. f \in Papers(G)
    <3>1. ASSUME NEW i \in 1 .. n PROVE Len(f[i]) <= Cols
      <4>1. CASE i = n
        BY <1>1, <1>2, <2>3, <4>1
      <4>2. CASE i # n
        <5>1. i \in 1 .. n - 1 /\ i + 1 \in 1 .. n
          BY <1>1, <4>2
        <5>2. f[i] = sheet[i + 1]
          BY <2>3, <5>1
        <5> QED BY <1>1, <5>1, <5>2
      <4> QED BY <4>1, <4>2
    <3> QED BY <1>1, <2>3, <3>1 DEF Papers
  <2>5. f = Tail(Append(sheet, <<>>))
    <3> DEFINE a == Append(sheet, <<>>)
               t == Tail(a)
    <3>0. a \in Seq(Seq(G)) /\ Len(a) = n + 1 /\ a # <<>>
      BY <1>1, <1>3
    <3> HIDE DEF a
    <3>1. /\ t \in Seq(Seq(G)) /\ Len(t) = n
          /\ \A i \in 1 .. n : t[i] = a[i + 1]
      <4>1. Len(t) = n /\ t \in Seq(Seq(G))
        BY <1>1, <3>0, HeadTailProperties
      <4> QED BY <1>1, <3>0, <4>1, HeadTailProperties
    <3> HIDE DEF t
    <3>2. ASSUME NEW i \in 1 .. n PROVE t[i] = f[i]
      <4>1. t[i] = a[i + 1]
        BY <3>1
      <4>2. CASE i = n
        BY <1>3, <2>3, <4>1, <4>2 DEF a
      <4>3. CASE i # n
        <5>1. i \in 1 .. n - 1 /\ i + 1 \in 1 .. n
          BY <1>1, <4>3
        <5> QED BY <1>3, <2>3, <4>1, <5>1 DEF a
      <4> QED BY <4>2, <4>3
    <3>3. t = f
      BY <2>3, <3>1, <3>2, SeqEqual
    <3> QED BY <3>3 DEF t, a
  <2>6. ASSUME NEW r \in 0 .. Rows - 1, NEW c \in 0 .. Cols - 1
        PROVE  Cell(f, r, c) = IF r < Rows - 1 THEN Cell(sheet, r + 1, c) ELSE Blank
    <3>1. r \in Nat /\ c \in Nat
      BY <1>1
    <3>2. CASE r < Rows - 1
      <4>1. r < n /\ r + 1 < n /\ r + 1 \in 1 .. n - 1
        BY <1>1, <1>5, <3>1, <3>2
      <4>2. f[r + 1] = sheet[(r + 1) + 1]
        BY <2>3, <4>1
      <4> QED BY <2>3, <3>2, <4>1, <4>2 DEF Cell
    <3>3. CASE r = Rows - 1
      BY <1>1, <1>2, <1>5, <2>3, <3>1, <3>3 DEF Cell
    <3> QED BY <1>1, <3>1, <3>2, <3>3
  <2> QED BY <1>1, <1>3, <1>5, <2>3, <2>4, <2>5, <2>6 DEF f
<1> QED BY <1>1, <1>4, <1>5

\* Scrolling shows at a place what was a row below.
LEMMA ScrolledAt ==
  ASSUME NEW pic, NEW r \in 0 .. Rows - 1, NEW c \in 0 .. Cols - 1
  PROVE  ScrolledUp(pic)[Spot(r, c)] = IF r < Rows - 1 THEN pic[Spot(r + 1, c)] ELSE Blank
<1>1. PICK p \in Positions : p = Spot(r, c)
  BY SpotIs
<1>2. ScrolledUp(pic)[p] = IF p < (Rows - 1) * Cols THEN pic[p + Cols] ELSE Blank
  BY DEF ScrolledUp
<1>3. (p < (Rows - 1) * Cols <=> r < Rows - 1) /\ p + Cols = Spot(r + 1, c)
  BY <1>1, SpotNext
<1> QED BY <1>1, <1>2, <1>3

\* A new line on paper is a line feed on the screen.
LEMMA ShownFed ==
  ASSUME NEW G, NEW sheet \in Papers(G)
  PROVE  Shown(Fed(sheet)) = IF Len(sheet) < Rows THEN Shown(sheet) ELSE ScrolledUp(Shown(sheet))
<1> DEFINE pic == Shown(Fed(sheet))
           other == IF Len(sheet) < Rows THEN Shown(sheet) ELSE ScrolledUp(Shown(sheet))
<1>1. IsAScreen(pic) /\ IsAScreen(other)
  BY Screens
<1>2. ASSUME NEW r \in 0 .. Rows - 1, NEW c \in 0 .. Cols - 1
      PROVE  pic[Spot(r, c)] = other[Spot(r, c)]
  <2>1. /\ Len(Fed(sheet)) \in Nat /\ Len(sheet) \in Nat
        /\ Cell(Fed(sheet), r, c) =
             IF Len(sheet) < Rows THEN Cell(sheet, r, c)
             ELSE IF r < Rows - 1 THEN Cell(sheet, r + 1, c) ELSE Blank
    BY FedIs DEF Papers
  <2>2. pic[Spot(r, c)] = Cell(Fed(sheet), r, c)
    BY <2>1, ShownAt
  <2>3. CASE Len(sheet) < Rows
    BY <2>1, <2>2, <2>3, ShownAt
  <2>4. CASE ~(Len(sheet) < Rows)
    <3>1. other[Spot(r, c)] = IF r < Rows - 1 THEN Shown(sheet)[Spot(r + 1, c)] ELSE Blank
      BY <2>4, ScrolledAt
    <3>2. r < Rows - 1 => r + 1 \in 0 .. Rows - 1
      BY Sizes
    <3>3. r < Rows - 1 => Shown(sheet)[Spot(r + 1, c)] = Cell(sheet, r + 1, c)
      BY <2>1, <3>2, ShownAt
    <3> QED BY <2>1, <2>2, <2>4, <3>1, <3>3
  <2> QED BY <2>3, <2>4
<1> HIDE DEF pic, other
<1>3. pic = other
  BY <1>1, <1>2, SameScreen
<1> QED BY <1>3 DEF pic, other

\* A character on paper is one behind the last on the screen.
LEMMA ShownExtended ==
  ASSUME NEW G, NEW sheet \in Papers(G), NEW g \in G, Len(sheet[Len(sheet)]) < Cols
  PROVE  Shown(Extended(sheet, g)) =
           [Shown(sheet) EXCEPT ![Spot(Len(sheet) - 1, Len(sheet[Len(sheet)]))] = g]
<1> DEFINE pic == Shown(Extended(sheet, g))
           i == Len(sheet) - 1
           j == Len(sheet[Len(sheet)])
           other == [Shown(sheet) EXCEPT ![Spot(i, j)] = g]
<1>1. IsAScreen(pic) /\ IsAScreen(other)
  BY Screens
<1>2. i \in 0 .. Rows - 1 /\ j \in 0 .. Cols - 1
  <2>1. /\ Len(sheet) \in 1 .. Rows /\ sheet[Len(sheet)] \in Seq(G) /\ Rows \in Nat /\ Cols \in Nat
    BY Sizes DEF Papers
  <2> QED BY <2>1
<1> HIDE DEF i, j
<1>3. ASSUME NEW r \in 0 .. Rows - 1, NEW c \in 0 .. Cols - 1
      PROVE  pic[Spot(r, c)] = other[Spot(r, c)]
  <2>1. /\ Len(Extended(sheet, g)) \in Nat /\ Len(sheet) \in Nat
        /\ Cell(Extended(sheet, g), r, c) = IF r = i /\ c = j THEN g ELSE Cell(sheet, r, c)
    <3>1. Len(sheet) \in Nat
      BY Sizes DEF Papers
    <3>2. /\ Len(Extended(sheet, g)) = Len(sheet)
          /\ Cell(Extended(sheet, g), r, c) =
                IF r = Len(sheet) - 1 /\ c = Len(sheet[Len(sheet)]) THEN g ELSE Cell(sheet, r, c)
      BY ExtendedIs
    <3> QED BY <3>1, <3>2 DEF i, j
  <2>2. pic[Spot(r, c)] = Cell(Extended(sheet, g), r, c)
    BY <2>1, ShownAt
  <2>3. Shown(sheet)[Spot(r, c)] = Cell(sheet, r, c)
    BY <2>1, ShownAt
  <2>4. Spot(r, c) \in Positions /\ DOMAIN Shown(sheet) = Positions
    BY SpotIs DEF Shown
  <2>5. Spot(r, c) = Spot(i, j) <=> r = i /\ c = j
    BY <1>2, SpotIs
  <2> QED BY <2>1, <2>2, <2>3, <2>4, <2>5
<1> HIDE DEF pic, other
<1>4. pic = other
  BY <1>1, <1>3, SameScreen
<1> QED BY <1>4 DEF pic, other, i, j

-----------------------------------------------------------------------------
(* One character.                                                          *)

\* Paper whose last line is not full, and the screen that shows it.
Sheets(G) == {p \in Papers(G) : Len(p[Len(p)]) < Cols}

Displayed(sheet) ==
  [mem |-> Shown(sheet), cursorRow |-> Len(sheet) - 1, cursorCol |-> Len(sheet[Len(sheet)])]

\* The kernel prints on the screen what would have been put on paper.
LEMMA PrintedOnPaper ==
  ASSUME NEW G, NEW sheet \in Sheets(G), NEW c, c = NewLine \/ Glyph(c) \in G
  PROVE  /\ PaperPut(sheet, c) \in Sheets(G)
         /\ KernelPrintChar(Displayed(sheet), c) = Displayed(PaperPut(sheet, c))
<1> DEFINE n == Len(sheet)
           k == Len(sheet[n])
           s == Displayed(sheet)
<1>1. /\ sheet \in Papers(G) /\ n \in 1 .. Rows /\ sheet[n] \in Seq(G) /\ k \in Nat /\ k < Cols
      /\ Rows \in Nat \ {0} /\ Cols \in Nat \ {0}
      /\ n - 1 \in 0 .. Rows - 1 /\ k \in 0 .. Cols - 1
  BY Sizes DEF Sheets, Papers
<1>2. s = [mem |-> Shown(sheet), cursorRow |-> n - 1, cursorCol |-> k]
  BY DEF Displayed
<1> HIDE DEF s
<1>3. CASE c = NewLine
  <2>1. PaperPut(sheet, c) = Fed(sheet)
    <3>1. PaperPut(sheet, c) = IF Len(Append(sheet, <<>>)) > Rows THEN Tail(Append(sheet, <<>>))
                               ELSE Append(sheet, <<>>)
      BY <1>3 DEF PaperPut
    <3> QED BY <1>1, <3>1, FedIs
  <2>2. /\ Fed(sheet) \in Papers(G) /\ Len(Fed(sheet)) = IF n < Rows THEN n + 1 ELSE Rows
        /\ Fed(sheet)[Len(Fed(sheet))] = <<>>
    BY <1>1, FedIs
  <2>3. Fed(sheet) \in Sheets(G)
    BY <1>1, <2>2 DEF Sheets
  <2>4. Displayed(Fed(sheet)) = [mem |-> IF n < Rows THEN Shown(sheet) ELSE ScrolledUp(Shown(sheet)),
                                 cursorRow |-> (IF n < Rows THEN n + 1 ELSE Rows) - 1,
                                 cursorCol |-> 0]
    BY <1>1, <2>2, ShownFed DEF Displayed
  <2>5. KernelPrintChar(s, c) = KernelLineFeed(s)
    BY <1>3 DEF KernelPrintChar
  <2>6. KernelLineFeed(s) =
          [mem |-> IF n - 1 < Rows - 1 THEN Shown(sheet) ELSE ScrolledUp(Shown(sheet)),
           cursorRow |-> IF n - 1 < Rows - 1 THEN n - 1 + 1 ELSE n - 1,
           cursorCol |-> 0]
    BY <1>2 DEF KernelLineFeed
  <2>7. /\ n - 1 < Rows - 1 <=> n < Rows
        /\ (IF n - 1 < Rows - 1 THEN n - 1 + 1 ELSE n - 1) = (IF n < Rows THEN n + 1 ELSE Rows) - 1
    BY <1>1
  <2>8. KernelLineFeed(s) = Displayed(Fed(sheet))
    BY <2>4, <2>6, <2>7
  <2> QED BY <2>1, <2>3, <2>5, <2>8 DEF s
<1>4. CASE c # NewLine
  <2> DEFINE g == Glyph(c)
             e == Extended(sheet, g)
             p == (n - 1) * Cols + k
             pic == [Shown(sheet) EXCEPT ![Spot(n - 1, k)] = g]
  <2>1. g \in G
    BY <1>4
  <2>2. /\ e \in Papers(G) /\ Len(e) = n /\ Len(e[n]) = k + 1
        /\ Append(Front(sheet), Append(Last(sheet), g)) = e
    BY <1>1, <2>1, ExtendedIs
  <2>3. Shown(e) = pic
    BY <1>1, <2>1, ShownExtended
  <2>4. Poke(Shown(sheet), p, c) = pic
    <3>1. p = Spot(n - 1, k) /\ Spot(n - 1, k) \in Positions
      BY <1>1, SpotIs DEF Spot
    <3> QED BY <3>1 DEF Poke
  <2>5. /\ p + 1 >= Rows * Cols <=> n - 1 = Rows - 1 /\ k = Cols - 1
        /\ (p + 1) \div Cols = IF k + 1 < Cols THEN n - 1 ELSE n - 1 + 1
        /\ (p + 1) % Cols = IF k + 1 < Cols THEN k + 1 ELSE 0
    <3>1. PICK i \in 0 .. Rows - 1, j \in 0 .. Cols - 1 : i = n - 1 /\ j = k
      BY <1>1
    <3>2. p = Spot(i, j)
      BY <3>1 DEF Spot
    <3> HIDE DEF p
    <3> QED BY <3>1, <3>2, SpotNext
  <2>6. KernelPrintChar(s, c) =
          IF p + 1 >= Rows * Cols
          THEN [mem |-> ScrolledUp(pic), cursorRow |-> Rows - 1, cursorCol |-> 0]
          ELSE [mem |-> pic, cursorRow |-> (p + 1) \div Cols, cursorCol |-> (p + 1) % Cols]
    BY <1>2, <1>4, <2>4 DEF KernelPrintChar, KernelPut
  <2>7. Len(Append(Last(sheet), g)) = k + 1
    BY <1>1, <2>1 DEF Last
  <2> HIDE DEF g, e, p, pic
  <2>8. CASE k + 1 < Cols
    <3>1. PaperPut(sheet, c) = e
      <4>1. PaperPut(sheet, c) = IF Len(e) > Rows THEN Tail(e) ELSE e
        BY <1>4, <2>2, <2>7, <2>8 DEF PaperPut, g
      <4> QED BY <1>1, <2>2, <4>1
    <3>2. e \in Sheets(G)
      BY <2>2, <2>8 DEF Sheets
    <3>3. Displayed(e) = [mem |-> pic, cursorRow |-> n - 1, cursorCol |-> k + 1]
      BY <2>2, <2>3 DEF Displayed
    <3>4. KernelPrintChar(s, c) = [mem |-> pic, cursorRow |-> n - 1, cursorCol |-> k + 1]
      BY <1>1, <2>5, <2>6, <2>8
    <3> QED BY <3>1, <3>2, <3>3, <3>4 DEF s
  <2>9. CASE ~(k + 1 < Cols)
    <3>1. PaperPut(sheet, c) = Fed(e)
      <4>1. e \o << <<>> >> = Append(e, <<>>)
        BY <2>2 DEF Papers
      <4>2. PaperPut(sheet, c) =
              IF Len(Append(e, <<>>)) > Rows THEN Tail(Append(e, <<>>)) ELSE Append(e, <<>>)
        BY <1>4, <2>2, <2>7, <2>9, <4>1 DEF PaperPut, g
      <4> QED BY <2>2, <4>2, FedIs
    <3>2. /\ Fed(e) \in Papers(G) /\ Len(Fed(e)) = IF n < Rows THEN n + 1 ELSE Rows
          /\ Fed(e)[Len(Fed(e))] = <<>>
      BY <2>2, FedIs
    <3>3. Fed(e) \in Sheets(G)
      BY <1>1, <3>2 DEF Sheets
    <3>4. Displayed(Fed(e)) = [mem |-> IF n < Rows THEN pic ELSE ScrolledUp(pic),
                               cursorRow |-> (IF n < Rows THEN n + 1 ELSE Rows) - 1, cursorCol |-> 0]
      BY <1>1, <2>2, <2>3, <3>2, ShownFed DEF Displayed
    <3>5. k = Cols - 1 /\ (n - 1 = Rows - 1 <=> ~(n < Rows)) /\ n - 1 + 1 = n
      BY <1>1, <2>9
    <3>6. CASE n < Rows
      BY <1>1, <2>5, <2>6, <2>9, <3>1, <3>3, <3>4, <3>5, <3>6 DEF s
    <3>7. CASE ~(n < Rows)
      BY <1>1, <2>5, <2>6, <2>9, <3>1, <3>3, <3>4, <3>5, <3>7 DEF s
    <3> QED BY <3>6, <3>7
  <2> QED BY <2>8, <2>9
<1> QED BY <1>3, <1>4

-----------------------------------------------------------------------------
(* Induction, from the well-founded order of the natural numbers.          *)

\* A set of natural numbers has a smallest one.
LEMMA Smallest ==
  ASSUME NEW T \in SUBSET Nat, T # {}
  PROVE  \E n \in T : \A m \in T : n <= m
<1>1. \E n \in T : \A m \in T : ~(<<m, n>> \in OpToRel(<,Nat))
  BY NatLessThanWellFounded, WFMin
<1>2. PICK n \in T : \A m \in T : ~(<<m, n>> \in OpToRel(<,Nat))
  BY <1>1
<1>3. ASSUME NEW m \in T, m < n PROVE FALSE
  <2>1. <<m, n>> \in Nat \X Nat /\ <<m, n>>[1] < <<m, n>>[2]
    BY <1>3
  <2>2. <<m, n>> \in OpToRel(<, Nat)
    BY <2>1 DEF OpToRel
  <2> QED BY <1>2, <2>2
<1>4. \A m \in T : n <= m
  <2> TAKE m \in T
  <2>1. m \in Nat /\ n \in Nat
    OBVIOUS
  <2> QED BY <2>1, <1>3
<1> QED BY <1>4

\* What holds of 0 and of each next number holds of every natural number.
LEMMA Induction ==
  ASSUME NEW S \in SUBSET Nat, 0 \in S, \A n \in S : n + 1 \in S
  PROVE  S = Nat
<1> SUFFICES ASSUME S # Nat PROVE FALSE
  OBVIOUS
<1>1. PICK n \in Nat \ S : \A m \in Nat \ S : n <= m
  BY Smallest
<1>2. n # 0 /\ n - 1 \in Nat /\ n - 1 \in S
  BY <1>1
<1> QED BY <1>1, <1>2

-----------------------------------------------------------------------------
(* Texts: what is printed character by character is the fold of one of     *)
(* three steps.                                                            *)

Step(by, s, c) ==
  CASE by = "console" -> printChar(s, c)
    [] by = "kernel"  -> KernelPrintChar(s, c)
    [] OTHER          -> PaperPut(s, c)

\* The index a fold takes from a set of them.
Top(u) == CHOOSE x \in u : \A y \in u : x >= y

\* The function that a fold defines by recursion on sets of indices.
Folds(by, s, text, n, f) ==
  f = [u \in SUBSET (1 .. n) |->
         IF u = {} THEN s ELSE Step(by, f[u \ {Top(u)}], text[Top(u)])]

\* The last index is the one the fold takes first.
LEMMA TopIs ==
  ASSUME NEW n \in Nat, NEW u \in SUBSET (1 .. n + 1), n + 1 \in u
  PROVE  Top(u) = n + 1
<1>1. \A y \in u : y \in 1 .. n + 1 /\ n + 1 >= y
  OBVIOUS
<1>2. ASSUME NEW x \in u, \A y \in u : x >= y PROVE x = n + 1
  <2>1. x \in 1 .. n + 1 /\ x >= n + 1
    BY <1>2
  <2> QED BY <2>1
<1> QED BY <1>1, <1>2 DEF Top

\* Such a function exists for every length.
LEMMA FoldExists ==
  ASSUME NEW by, NEW s, NEW text, NEW n \in Nat
  PROVE  \E f : Folds(by, s, text, n, f)
<1> DEFINE S == {k \in Nat : \E f : Folds(by, s, text, k, f)}
<1>1. 0 \in S
  <2>1. SUBSET (1 .. 0) = {{}}
    OBVIOUS
  <2> DEFINE f == [u \in SUBSET (1 .. 0) |-> s]
  <2>2. Folds(by, s, text, 0, f)
    BY <2>1 DEF Folds
  <2> QED BY <2>2
<1>2. ASSUME NEW k \in S PROVE k + 1 \in S
  <2>1. PICK f : Folds(by, s, text, k, f)
    BY <1>2
  <2>2. f = [u \in SUBSET (1 .. k) |->
               IF u = {} THEN s ELSE Step(by, f[u \ {Top(u)}], text[Top(u)])]
    BY <2>1 DEF Folds
  <2> DEFINE g == [u \in SUBSET (1 .. k + 1) |->
                     IF k + 1 \in u THEN Step(by, f[u \ {k + 1}], text[k + 1]) ELSE f[u]]
  <2>3. ASSUME NEW u \in SUBSET (1 .. k + 1)
        PROVE  g[u] = IF u = {} THEN s ELSE Step(by, g[u \ {Top(u)}], text[Top(u)])
    <3>1. \A v \in SUBSET (1 .. k + 1) : k + 1 \notin v => v \in SUBSET (1 .. k) /\ g[v] = f[v]
      OBVIOUS
    <3>2. CASE k + 1 \in u
      <4>1. Top(u) = k + 1
        BY <1>2, <3>2, TopIs
      <4>2. g[u] = Step(by, f[u \ {k + 1}], text[k + 1])
        BY <3>2
      <4>3. g[u \ {k + 1}] = f[u \ {k + 1}]
        BY <3>1
      <4> HIDE DEF g
      <4> QED BY <3>2, <4>1, <4>2, <4>3
    <3>3. CASE k + 1 \notin u
      <4>1. u \in SUBSET (1 .. k) /\ g[u] = f[u]
        BY <3>1, <3>3
      <4>2. g[u \ {Top(u)}] = f[u \ {Top(u)}]
        BY <3>1, <3>3
      <4>3. f[u] = IF u = {} THEN s ELSE Step(by, f[u \ {Top(u)}], text[Top(u)])
        BY <2>2, <4>1
      <4> HIDE DEF g
      <4> QED BY <4>1, <4>2, <4>3
    <3> QED BY <3>2, <3>3
  <2>4. Folds(by, s, text, k + 1, g)
    <3>1. g = [u \in SUBSET (1 .. k + 1) |-> g[u]]
      OBVIOUS
    <3> HIDE DEF g
    <3> QED BY <2>3, <3>1 DEF Folds
  <2> QED BY <1>2, <2>4
<1> HIDE DEF S
<1>3. S = Nat
  BY <1>1, <1>2, Induction DEF S
<1> QED BY <1>3 DEF S

\* A text is printed one character after the other.
Traces(by, s, text, g) ==
  /\ g[0] = s
  /\ \A k \in 0 .. Len(text) - 1 : g[k + 1] = Step(by, g[k], text[k + 1])

\* The recursive function passes through the states of the trace.
LEMMA FoldTraces ==
  ASSUME NEW by, NEW s, NEW text, Len(text) \in Nat, NEW f, Folds(by, s, text, Len(text), f)
  PROVE  \E g : Traces(by, s, text, g) /\ g[Len(text)] = f[1 .. Len(text)]
<1> DEFINE n == Len(text)
           g == [k \in 0 .. n |-> f[1 .. k]]
<1>1. f = [u \in SUBSET (1 .. n) |->
             IF u = {} THEN s ELSE Step(by, f[u \ {Top(u)}], text[Top(u)])]
  BY DEF Folds
<1>2. g[0] = s
  <2>1. 1 .. 0 = {}
    OBVIOUS
  <2> QED BY <1>1, <2>1
<1>3. ASSUME NEW k \in 0 .. n - 1 PROVE g[k + 1] = Step(by, g[k], text[k + 1])
  <2>1. k \in Nat /\ k + 1 \in 0 .. n /\ k \in 0 .. n
    OBVIOUS
  <2>2. 1 .. k + 1 \in SUBSET (1 .. n) /\ k + 1 \in 1 .. k + 1 /\ (1 .. k + 1) \ {k + 1} = 1 .. k
    BY <2>1
  <2>3. Top(1 .. k + 1) = k + 1
    BY <2>1, <2>2, TopIs
  <2>4. f[1 .. k + 1] = Step(by, f[1 .. k], text[k + 1])
    BY <1>1, <2>2, <2>3
  <2> QED BY <2>1, <2>4
<1>4. g[n] = f[1 .. n]
  OBVIOUS
<1> HIDE DEF g
<1> QED BY <1>2, <1>3, <1>4 DEF Traces

\* Write prints its text so, ...
LEMMA WriteTraces ==
  ASSUME NEW T, NEW s, NEW text \in Seq(T)
  PROVE  \E g : Traces("console", s, text, g) /\ g[Len(text)] = Write(s, text)
<1> DEFINE n == Len(text)
<1>1. n \in Nat /\ DOMAIN text = 1 .. n
  OBVIOUS
<1> DEFINE Is(f) == f = [u \in SUBSET (DOMAIN text) |->
                           IF u = {} THEN s
                           ELSE printChar(f[u \ {CHOOSE x \in u : \A y \in u : x >= y}],
                                          text[CHOOSE x \in u : \A y \in u : x >= y])]
<1>2. \A f : Is(f) <=> Folds("console", s, text, n, f)
  BY <1>1 DEF Folds, Step, Top
<1>3. \E f : Is(f)
  <2>1. \E f : Folds("console", s, text, n, f)
    BY <1>1, FoldExists
  <2> HIDE DEF Is
  <2> QED BY <1>2, <2>1
<1>4. Write(s, text) = (CHOOSE f : Is(f))[DOMAIN text]
  BY DEF Write, FoldLeft, MapThenFoldSet, Max
<1>5. PICK f : f = CHOOSE h : Is(h)
  OBVIOUS
<1>6. Folds("console", s, text, n, f) /\ Write(s, text) = f[1 .. n]
  <2> HIDE DEF Is
  <2> QED BY <1>1, <1>2, <1>3, <1>4, <1>5
<1> QED BY <1>1, <1>6, FoldTraces

\* ... the kernel prints so, ...
LEMMA KernelTraces ==
  ASSUME NEW T, NEW s, NEW text \in Seq(T)
  PROVE  \E g : Traces("kernel", s, text, g) /\ g[Len(text)] = FoldLeft(KernelPrintChar, s, text)
<1> DEFINE n == Len(text)
<1>1. n \in Nat /\ DOMAIN text = 1 .. n
  OBVIOUS
<1> DEFINE Is(f) == f = [u \in SUBSET (DOMAIN text) |->
                           IF u = {} THEN s
                           ELSE KernelPrintChar(f[u \ {CHOOSE x \in u : \A y \in u : x >= y}],
                                          text[CHOOSE x \in u : \A y \in u : x >= y])]
<1>2. \A f : Is(f) <=> Folds("kernel", s, text, n, f)
  BY <1>1 DEF Folds, Step, Top
<1>3. \E f : Is(f)
  <2>1. \E f : Folds("kernel", s, text, n, f)
    BY <1>1, FoldExists
  <2> HIDE DEF Is
  <2> QED BY <1>2, <2>1
<1>4. FoldLeft(KernelPrintChar, s, text) = (CHOOSE f : Is(f))[DOMAIN text]
  BY DEF FoldLeft, MapThenFoldSet, Max
<1>5. PICK f : f = CHOOSE h : Is(h)
  OBVIOUS
<1>6. Folds("kernel", s, text, n, f) /\ FoldLeft(KernelPrintChar, s, text) = f[1 .. n]
  <2> HIDE DEF Is
  <2> QED BY <1>1, <1>2, <1>3, <1>4, <1>5
<1> QED BY <1>1, <1>6, FoldTraces

\* ... and so does paper.
LEMMA PaperTraces ==
  ASSUME NEW T, NEW s, NEW text \in Seq(T)
  PROVE  \E g : Traces("paper", s, text, g) /\ g[Len(text)] = PaperPrint(s, text)
<1> DEFINE n == Len(text)
<1>1. n \in Nat /\ DOMAIN text = 1 .. n
  OBVIOUS
<1> DEFINE Is(f) == f = [u \in SUBSET (DOMAIN text) |->
                           IF u = {} THEN s
                           ELSE PaperPut(f[u \ {CHOOSE x \in u : \A y \in u : x >= y}],
                                          text[CHOOSE x \in u : \A y \in u : x >= y])]
<1>2. \A f : Is(f) <=> Folds("paper", s, text, n, f)
  BY <1>1 DEF Folds, Step, Top
<1>3. \E f : Is(f)
  <2>1. \E f : Folds("paper", s, text, n, f)
    BY <1>1, FoldExists
  <2> HIDE DEF Is
  <2> QED BY <1>2, <2>1
<1>4. PaperPrint(s, text) = (CHOOSE f : Is(f))[DOMAIN text]
  BY DEF PaperPrint, FoldLeft, MapThenFoldSet, Max
<1>5. PICK f : f = CHOOSE h : Is(h)
  OBVIOUS
<1>6. Folds("paper", s, text, n, f) /\ PaperPrint(s, text) = f[1 .. n]
  <2> HIDE DEF Is
  <2> QED BY <1>1, <1>2, <1>3, <1>4, <1>5
<1> QED BY <1>1, <1>6, FoldTraces

-----------------------------------------------------------------------------
(* A cursor and a screen.                                                  *)

Pages(G) ==
  [mem : [Positions -> G], cursorRow : 0 .. Rows - 1, cursorCol : 0 .. Cols - 1]

\* The console has the offset of its cursor instead of the column.
Console(s) ==
  [mem |-> s.mem, cursorRow |-> s.cursorRow, offset |-> Spot(s.cursorRow, s.cursorCol)]

Printable(G, c) == c = NewLine \/ Glyph(c) \in G

\* The steps of the console, field by field.
LEMMA LineFeedIs ==
  ASSUME NEW m, NEW a, NEW o, NEW s, s = [mem |-> m, cursorRow |-> a, offset |-> o]
  PROVE  LineFeed(s) =
           IF a < Rows - 1
           THEN [mem |-> m, cursorRow |-> a + 1, offset |-> (a + 1) * Cols]
           ELSE [mem |-> ScrolledUp(m), cursorRow |-> Rows - 1, offset |-> (Rows - 1) * Cols]
<1>1. CASE a < Rows - 1
  <2>1. PICK down : down = [mem |-> m, cursorRow |-> a + 1, offset |-> o]
    OBVIOUS
  <2>2. [s EXCEPT !.cursorRow = s.cursorRow + 1] = down /\ s.cursorRow = a
    BY <2>1
  <2>3. LineFeed(s) = [down EXCEPT !.offset = down.cursorRow * Cols]
    BY <1>1, <2>2 DEF LineFeed
  <2>4. [down EXCEPT !.offset = down.cursorRow * Cols] =
          [mem |-> m, cursorRow |-> a + 1, offset |-> (a + 1) * Cols]
    BY <2>1
  <2> QED BY <1>1, <2>3, <2>4
<1>2. CASE ~(a < Rows - 1)
  <2>1. PICK down : down = [mem |-> ScrolledUp(m), offset |-> (Rows - 1) * Cols, cursorRow |-> Rows - 1]
    OBVIOUS
  <2>2. scroll(s) = down /\ s.cursorRow = a
    BY <2>1 DEF scroll
  <2>3. LineFeed(s) = [down EXCEPT !.offset = down.cursorRow * Cols]
    BY <1>2, <2>2 DEF LineFeed
  <2>4. [down EXCEPT !.offset = down.cursorRow * Cols] =
          [mem |-> ScrolledUp(m), cursorRow |-> Rows - 1, offset |-> (Rows - 1) * Cols]
    BY <2>1
  <2> QED BY <1>2, <2>3, <2>4
<1> QED BY <1>1, <1>2

LEMMA AdvanceIs ==
  ASSUME NEW m, NEW a, NEW o, NEW s, s = [mem |-> m, cursorRow |-> a, offset |-> o]
  PROVE  Advance(s) =
           IF o >= Rows * Cols
           THEN [mem |-> ScrolledUp(m), cursorRow |-> Rows - 1, offset |-> (Rows - 1) * Cols]
           ELSE [mem |-> m, cursorRow |-> o \div Cols, offset |-> o]
<1>1. [s EXCEPT !.cursorRow = s.offset \div Cols] =
        [mem |-> m, cursorRow |-> o \div Cols, offset |-> o]
  OBVIOUS
<1> QED BY <1>1 DEF Advance, scroll

LEMMA PrintIs ==
  ASSUME NEW m, NEW a, NEW o, NEW s, s = [mem |-> m, cursorRow |-> a, offset |-> o],
         NEW c, c # NewLine
  PROVE  printChar(s, c) = Advance([mem |-> Poke(m, o, c), cursorRow |-> a, offset |-> o + 1])
<1>1. ASSUME NEW x, NEW y
      PROVE  [s EXCEPT !.mem = x, !.offset = y] = [mem |-> x, cursorRow |-> a, offset |-> y]
  <2>1. PICK d : d = [s EXCEPT !.mem = x]
    OBVIOUS
  <2>2. d = [mem |-> x, cursorRow |-> a, offset |-> o]
    BY <2>1
  <2>3. [d EXCEPT !.offset = y] = [mem |-> x, cursorRow |-> a, offset |-> y]
    BY <2>2
  <2>4. [s EXCEPT !.mem = x, !.offset = y] = [d EXCEPT !.offset = y]
    BY <2>1
  <2> QED BY <2>3, <2>4
<1>2. s.mem = m /\ s.offset = o
  OBVIOUS
<1>3. [s EXCEPT !.mem = Poke(s.mem, s.offset, c), !.offset = s.offset + 1] =
        [mem |-> Poke(m, o, c), cursorRow |-> a, offset |-> o + 1]
  BY <1>1, <1>2
<1> QED BY <1>3 DEF printChar

\* A character keeps the screen a screen and the cursor on it, and is printed alike by
\* the kernel, with rows and columns, and by the console, with offsets.
LEMMA PrintsKeep ==
  ASSUME NEW G, Blank \in G, NEW s \in Pages(G), NEW c, Printable(G, c)
  PROVE  /\ KernelPrintChar(s, c) \in Pages(G)
         /\ printChar(Console(s), c) = Console(KernelPrintChar(s, c))
<1> DEFINE r == s.cursorRow
           k == s.cursorCol
           p == r * Cols + k
           pic == Poke(s.mem, p, c)
<1>1. /\ r \in 0 .. Rows - 1 /\ k \in 0 .. Cols - 1 /\ s.mem \in [Positions -> G]
      /\ Rows \in Nat \ {0} /\ Cols \in Nat \ {0}
      /\ s = [mem |-> s.mem, cursorRow |-> r, cursorCol |-> k]
  BY Sizes DEF Pages
<1>2. ASSUME NEW m \in [Positions -> G] PROVE ScrolledUp(m) \in [Positions -> G]
  <2>1. ASSUME NEW q \in Positions, q < (Rows - 1) * Cols PROVE q + Cols \in Positions
    <3>1. q \in Nat /\ (Rows - 1) * Cols + Cols = Rows * Cols /\ (Rows - 1) * Cols \in Nat
      BY <1>1 DEF Positions
    <3> QED BY <1>1, <2>1, <3>1 DEF Positions
  <2> QED BY <1>2, <2>1 DEF ScrolledUp
<1>3. p \in Positions /\ p = Spot(r, k)
  BY <1>1, SpotIs DEF Spot
<1>4. Console(s) = [mem |-> s.mem, cursorRow |-> r, offset |-> p]
  BY <1>3 DEF Console
<1>5. 0 \in 0 .. Cols - 1 /\ Rows - 1 \in 0 .. Rows - 1
  BY <1>1
<1>6. CASE c = NewLine
  <2>1. KernelPrintChar(s, c) =
          [mem |-> IF r < Rows - 1 THEN s.mem ELSE ScrolledUp(s.mem),
           cursorRow |-> IF r < Rows - 1 THEN r + 1 ELSE r,
           cursorCol |-> 0]
    BY <1>6 DEF KernelPrintChar, KernelLineFeed
  <2>2. (IF r < Rows - 1 THEN r + 1 ELSE r) \in 0 .. Rows - 1 /\ (~(r < Rows - 1) => r = Rows - 1)
    BY <1>1
  <2>3. KernelPrintChar(s, c) \in Pages(G)
    BY <1>1, <1>2, <1>5, <2>1, <2>2 DEF Pages
  <2>4. /\ printChar(Console(s), c) = LineFeed(Console(s))
        /\ LineFeed(Console(s)) =
             IF r < Rows - 1
             THEN [mem |-> s.mem, cursorRow |-> r + 1, offset |-> (r + 1) * Cols]
             ELSE [mem |-> ScrolledUp(s.mem), cursorRow |-> Rows - 1, offset |-> (Rows - 1) * Cols]
    <3> HIDE DEF p, r
    <3>1. printChar(Console(s), c) = LineFeed(Console(s))
      BY <1>6 DEF printChar
    <3>2. PICK t : t = Console(s)
      OBVIOUS
    <3>3. LineFeed(t) =
             IF r < Rows - 1
             THEN [mem |-> s.mem, cursorRow |-> r + 1, offset |-> (r + 1) * Cols]
             ELSE [mem |-> ScrolledUp(s.mem), cursorRow |-> Rows - 1, offset |-> (Rows - 1) * Cols]
      BY <1>4, <3>2, LineFeedIs
    <3> QED BY <3>1, <3>2, <3>3
  <2> HIDE DEF r, p, k
  <2>5. CASE r < Rows - 1
    <3>1. Spot(r + 1, 0) = (r + 1) * Cols
      BY <1>1 DEF Spot
    <3> QED BY <2>1, <2>3, <2>4, <2>5, <3>1 DEF Console
  <2>6. CASE ~(r < Rows - 1)
    <3>1. Spot(Rows - 1, 0) = (Rows - 1) * Cols
      BY <1>1 DEF Spot
    <3> QED BY <2>1, <2>2, <2>3, <2>4, <2>6, <3>1 DEF Console
  <2> QED BY <2>5, <2>6
<1>7. CASE c # NewLine
  <2>1. pic \in [Positions -> G]
    BY <1>1, <1>7 DEF Poke, Printable
  <2>2. KernelPrintChar(s, c) =
          IF p + 1 >= Rows * Cols
          THEN [mem |-> ScrolledUp(pic), cursorRow |-> Rows - 1, cursorCol |-> 0]
          ELSE [mem |-> pic, cursorRow |-> (p + 1) \div Cols, cursorCol |-> (p + 1) % Cols]
    BY <1>7 DEF KernelPrintChar, KernelPut
  <2>3. printChar(Console(s), c) = Advance([mem |-> pic, cursorRow |-> r, offset |-> p + 1])
    <3>1. printChar(Console(s), c) =
            Advance([mem |-> Poke(s.mem, p, c), cursorRow |-> r, offset |-> p + 1])
      <4> HIDE DEF p, r
      <4> QED BY <1>4, <1>7, PrintIs
    <3> QED BY <3>1
  <2>4. Advance([mem |-> pic, cursorRow |-> r, offset |-> p + 1]) =
          IF p + 1 >= Rows * Cols
          THEN [mem |-> ScrolledUp(pic), cursorRow |-> Rows - 1, offset |-> (Rows - 1) * Cols]
          ELSE [mem |-> pic, cursorRow |-> (p + 1) \div Cols, offset |-> p + 1]
    <3> HIDE DEF p, r, pic
    <3>1. PICK t : t = [mem |-> pic, cursorRow |-> r, offset |-> p + 1]
      OBVIOUS
    <3>2. Advance(t) =
            IF p + 1 >= Rows * Cols
            THEN [mem |-> ScrolledUp(pic), cursorRow |-> Rows - 1, offset |-> (Rows - 1) * Cols]
            ELSE [mem |-> pic, cursorRow |-> (p + 1) \div Cols, offset |-> p + 1]
      BY <3>1, AdvanceIs
    <3> QED BY <3>1, <3>2
  <2> HIDE DEF r, p, k, pic
  <2>5. CASE p + 1 >= Rows * Cols
    <3>1. Spot(Rows - 1, 0) = (Rows - 1) * Cols
      BY <1>1 DEF Spot
    <3>2. [mem |-> ScrolledUp(pic), cursorRow |-> Rows - 1, cursorCol |-> 0] \in Pages(G)
      BY <1>2, <1>5, <2>1 DEF Pages
    <3> QED BY <2>2, <2>3, <2>4, <2>5, <3>1, <3>2 DEF Console
  <2>6. CASE ~(p + 1 >= Rows * Cols)
    <3>1. p + 1 \in Positions
      BY <1>1, <1>3, <2>6 DEF Positions
    <3>2. PICK q \in Positions : q = p + 1
      BY <3>1
    <3>3. q \div Cols \in 0 .. Rows - 1 /\ q % Cols \in 0 .. Cols - 1 /\ Spot(q \div Cols, q % Cols) = q
      BY PositionIs
    <3>4. KernelPrintChar(s, c) = [mem |-> pic, cursorRow |-> q \div Cols, cursorCol |-> q % Cols]
      BY <2>2, <2>6, <3>2
    <3>5. KernelPrintChar(s, c) \in Pages(G)
      BY <2>1, <3>3, <3>4 DEF Pages
    <3>6. printChar(Console(s), c) = [mem |-> pic, cursorRow |-> q \div Cols, offset |-> q]
      BY <2>3, <2>4, <2>6, <3>2
    <3> QED BY <3>3, <3>4, <3>5, <3>6 DEF Console
  <2> QED BY <2>5, <2>6
<1> QED BY <1>6, <1>7

-----------------------------------------------------------------------------
(* Texts.                                                                  *)

\* The kernel and the console leave a screen with the cursor on it, and the same one.
LEMMA TextsPrinted ==
  ASSUME NEW G, Blank \in G, NEW s \in Pages(G),
         NEW T, NEW text \in Seq(T), \A c \in T : Printable(G, c)
  PROVE  /\ FoldLeft(KernelPrintChar, s, text) \in Pages(G)
         /\ Write(Console(s), text) = Console(FoldLeft(KernelPrintChar, s, text))
<1>1. PICK w : Traces("console", Console(s), text, w) /\ w[Len(text)] = Write(Console(s), text)
  BY WriteTraces
<1>2. PICK g : Traces("kernel", s, text, g) /\ g[Len(text)] = FoldLeft(KernelPrintChar, s, text)
  BY KernelTraces
<1> DEFINE S == {k \in Nat : k <= Len(text) => g[k] \in Pages(G) /\ w[k] = Console(g[k])}
<1>3. Len(text) \in Nat /\ \A k \in 1 .. Len(text) : text[k] \in T
  OBVIOUS
<1>4. 0 \in S
  BY <1>1, <1>2 DEF Traces
<1>5. ASSUME NEW k \in S PROVE k + 1 \in S
  <2> SUFFICES ASSUME k + 1 <= Len(text)
               PROVE  g[k + 1] \in Pages(G) /\ w[k + 1] = Console(g[k + 1])
    BY <1>5
  <2>1. k \in Nat /\ k \in 0 .. Len(text) - 1 /\ k + 1 \in 1 .. Len(text)
    BY <1>3, <1>5
  <2>2. g[k] \in Pages(G) /\ w[k] = Console(g[k])
    BY <1>3, <1>5, <2>1
  <2>3. /\ g[k + 1] = KernelPrintChar(g[k], text[k + 1])
        /\ w[k + 1] = printChar(w[k], text[k + 1])
    BY <1>1, <1>2, <2>1 DEF Traces, Step
  <2>4. Printable(G, text[k + 1])
    BY <1>3, <2>1
  <2> QED BY <2>2, <2>3, <2>4, PrintsKeep
<1>6. S = Nat
  <2> HIDE DEF S
  <2>1. S \in SUBSET Nat
    BY DEF S
  <2> QED BY <1>4, <1>5, <2>1, Induction
<1>7. g[Len(text)] \in Pages(G) /\ w[Len(text)] = Console(g[Len(text)])
  BY <1>3, <1>6
<1> QED BY <1>1, <1>2, <1>7

\* What the kernel prints on a screen that shows a sheet is what is printed on paper.
LEMMA TextsOnPaper ==
  ASSUME NEW G, NEW sheet \in Sheets(G),
         NEW T, NEW text \in Seq(T), \A c \in T : Printable(G, c)
  PROVE  /\ PaperPrint(sheet, text) \in Sheets(G)
         /\ FoldLeft(KernelPrintChar, Displayed(sheet), text) = Displayed(PaperPrint(sheet, text))
<1>1. PICK w : Traces("paper", sheet, text, w) /\ w[Len(text)] = PaperPrint(sheet, text)
  BY PaperTraces
<1>2. PICK g : /\ Traces("kernel", Displayed(sheet), text, g)
               /\ g[Len(text)] = FoldLeft(KernelPrintChar, Displayed(sheet), text)
  BY KernelTraces
<1> DEFINE S == {k \in Nat : k <= Len(text) => w[k] \in Sheets(G) /\ g[k] = Displayed(w[k])}
<1>3. Len(text) \in Nat /\ \A k \in 1 .. Len(text) : text[k] \in T
  OBVIOUS
<1>4. 0 \in S
  BY <1>1, <1>2 DEF Traces
<1>5. ASSUME NEW k \in S PROVE k + 1 \in S
  <2> SUFFICES ASSUME k + 1 <= Len(text)
               PROVE  w[k + 1] \in Sheets(G) /\ g[k + 1] = Displayed(w[k + 1])
    BY <1>5
  <2>1. k \in Nat /\ k \in 0 .. Len(text) - 1 /\ k + 1 \in 1 .. Len(text)
    BY <1>3, <1>5
  <2>2. w[k] \in Sheets(G) /\ g[k] = Displayed(w[k])
    BY <1>3, <1>5, <2>1
  <2>3. /\ g[k + 1] = KernelPrintChar(g[k], text[k + 1])
        /\ w[k + 1] = PaperPut(w[k], text[k + 1])
    BY <1>1, <1>2, <2>1 DEF Traces, Step
  <2>4. text[k + 1] = NewLine \/ Glyph(text[k + 1]) \in G
    BY <1>3, <2>1 DEF Printable
  <2> QED BY <2>2, <2>3, <2>4, PrintedOnPaper
<1>6. S = Nat
  <2> HIDE DEF S
  <2>1. S \in SUBSET Nat
    BY DEF S
  <2> QED BY <1>4, <1>5, <2>1, Induction
<1>7. w[Len(text)] \in Sheets(G) /\ g[Len(text)] = Displayed(w[Len(text)])
  BY <1>3, <1>6
<1> QED BY <1>1, <1>2, <1>7

\* Tabs printed by the kernel become blanks.
LEMMA UntabbedIs ==
  ASSUME NEW T, Blank \in T, NEW text \in Seq(T)
  PROVE  Untabbed(text) \in Seq(T)
<1> DEFINE n == Len(text)
           seqs == [i \in DOMAIN text |->
                      IF text[i] = Tab THEN [b \in 1 .. 7 |-> Blank] ELSE <<text[i]>>]
           Is(m, f) == f = [i \in 1 .. m |-> IF i = 1 THEN seqs[i] ELSE f[i - 1] \o seqs[i]]
<1>1. n \in Nat /\ DOMAIN text = 1 .. n /\ \A i \in 1 .. n : text[i] \in T
  OBVIOUS
<1>2. seqs \in [1 .. n -> Seq(T)] /\ Len(seqs) = n
  <2>1. [b \in 1 .. 7 |-> Blank] \in Seq(T)
    <3>1. [b \in 1 .. 7 |-> Blank] \in [1 .. 7 -> T]
      OBVIOUS
    <3> QED BY <3>1, SeqDef
  <2>2. \A i \in 1 .. n : seqs[i] \in Seq(T)
    BY <1>1, <2>1
  <2>3. seqs \in [1 .. n -> Seq(T)]
    BY <1>1, <2>2
  <2> HIDE DEF seqs
  <2> QED BY <1>1, <2>3, LenProperties, SeqDef
<1> HIDE DEF seqs
<1> DEFINE S == {m \in Nat : m <= n => \E f \in [1 .. m -> Seq(T)] : Is(m, f)}
<1>3. 0 \in S
  <2>1. 1 .. 0 = {}
    OBVIOUS
  <2> DEFINE f == [i \in 1 .. 0 |-> seqs[i]]
  <2>2. f \in [1 .. 0 -> Seq(T)] /\ Is(0, f)
    BY <2>1
  <2> QED BY <2>2
<1>4. ASSUME NEW m \in S PROVE m + 1 \in S
  <2> SUFFICES ASSUME m + 1 <= n
               PROVE  \E f \in [1 .. m + 1 -> Seq(T)] : Is(m + 1, f)
    <3> HIDE DEF Is
    <3> QED BY <1>4
  <2>1. m \in Nat /\ m <= n /\ m + 1 \in 1 .. n
    BY <1>1, <1>4
  <2>2. PICK f \in [1 .. m -> Seq(T)] : Is(m, f)
    BY <1>4, <2>1
  <2> DEFINE next == IF m + 1 = 1 THEN seqs[m + 1] ELSE f[m] \o seqs[m + 1]
             g == [i \in 1 .. m + 1 |-> IF i = m + 1 THEN next ELSE f[i]]
  <2>3. next \in Seq(T)
    <3>1. seqs[m + 1] \in Seq(T)
      BY <1>2, <2>1
    <3>2. m + 1 # 1 => f[m] \in Seq(T)
      BY <2>1
    <3> QED BY <3>1, <3>2
  <2> HIDE DEF next
  <2>4. g \in [1 .. m + 1 -> Seq(T)]
    <3>1. ASSUME NEW i \in 1 .. m + 1, i # m + 1 PROVE f[i] \in Seq(T)
      <4>1. i \in 1 .. m
        BY <2>1, <3>1
      <4> QED BY <4>1
    <3> QED BY <2>3, <3>1
  <2>5. ASSUME NEW i \in 1 .. m + 1
        PROVE  g[i] = IF i = 1 THEN seqs[i] ELSE g[i - 1] \o seqs[i]
    <3>1. CASE i = m + 1
      <4>1. g[i] = next /\ (i # 1 => g[i - 1] = f[m])
        BY <2>1, <3>1
      <4> QED BY <2>1, <3>1, <4>1 DEF next
    <3>2. CASE i # m + 1
      <4>1. i \in 1 .. m /\ g[i] = f[i] /\ (i # 1 => g[i - 1] = f[i - 1])
        BY <2>1, <3>2
      <4>2. f[i] = IF i = 1 THEN seqs[i] ELSE f[i - 1] \o seqs[i]
        BY <2>2, <4>1
      <4> QED BY <4>1, <4>2
    <3> QED BY <3>1, <3>2
  <2>6. Is(m + 1, g)
    <3>1. g = [i \in 1 .. m + 1 |-> g[i]]
      OBVIOUS
    <3> HIDE DEF g
    <3> QED BY <2>5, <3>1
  <2> HIDE DEF g, Is
  <2> QED BY <2>4, <2>6
<1>5. S = Nat
  <2> HIDE DEF S
  <2>1. S \in SUBSET Nat
    BY DEF S
  <2> QED BY <1>3, <1>4, <2>1, Induction
<1>6. \E f : Is(n, f)
  <2>1. n \in S /\ n <= n
    <3> HIDE DEF S
    <3> QED BY <1>1, <1>5
  <2> HIDE DEF Is
  <2>2. \E f \in [1 .. n -> Seq(T)] : Is(n, f)
    BY <2>1
  <2> QED BY <2>2
<1>7. PICK f : f = CHOOSE h : Is(n, h)
  OBVIOUS
<1>8. Is(n, f)
  <2> HIDE DEF Is
  <2> QED BY <1>6, <1>7
<1>9. Untabbed(text) = IF n = 0 THEN seqs ELSE f[n]
  <2>1. Untabbed(text) = FlattenSeq(seqs)
    BY DEF Untabbed, seqs
  <2>2. FlattenSeq(seqs) = IF Len(seqs) = 0 THEN seqs
                           ELSE (CHOOSE h : h = [i \in 1 .. Len(seqs) |->
                                   IF i = 1 THEN seqs[i] ELSE h[i - 1] \o seqs[i]])[Len(seqs)]
    BY DEF FlattenSeq
  <2> QED BY <1>2, <1>7, <2>1, <2>2
<1>10. CASE n = 0
  <2>1. seqs \in [1 .. 0 -> T]
    BY <1>2, <1>10
  <2>2. seqs \in Seq(T)
    BY <2>1, SeqDef
  <2> QED BY <1>9, <1>10, <2>2
<1>11. CASE n # 0
  <2> DEFINE R == {m \in Nat : m + 1 <= n => f[m + 1] \in Seq(T)}
  <2>1. ASSUME NEW i \in 1 .. n
        PROVE  f[i] = IF i = 1 THEN seqs[i] ELSE f[i - 1] \o seqs[i]
    BY <1>8
  <2>2. 0 \in R
    BY <1>2, <1>1, <2>1
  <2>3. ASSUME NEW m \in R PROVE m + 1 \in R
    <3> SUFFICES ASSUME m + 1 + 1 <= n PROVE f[m + 1 + 1] \in Seq(T)
      BY <2>3
    <3>1. m \in Nat /\ m + 1 + 1 \in 1 .. n /\ m + 1 + 1 # 1 /\ m + 1 + 1 - 1 = m + 1
      BY <1>1, <2>3
    <3>2. f[m + 1] \in Seq(T) /\ seqs[m + 1 + 1] \in Seq(T)
      BY <1>1, <1>2, <2>3, <3>1
    <3>3. f[m + 1 + 1] = f[m + 1] \o seqs[m + 1 + 1]
      <4>1. PICK i \in 1 .. n : i = m + 1 + 1
        BY <3>1
      <4>2. f[i] = f[i - 1] \o seqs[i]
        BY <2>1, <3>1, <4>1
      <4>3. i - 1 = m + 1
        BY <3>1, <4>1
      <4> HIDE DEF n
      <4> QED BY <4>1, <4>2, <4>3
    <3> QED BY <3>2, <3>3
  <2>4. R = Nat
    <3> HIDE DEF R
    <3>1. R \in SUBSET Nat
      BY DEF R
    <3> QED BY <2>2, <2>3, <3>1, Induction
  <2>5. n - 1 \in Nat /\ n - 1 + 1 = n /\ n <= n
    BY <1>1, <1>11
  <2>6. f[n] \in Seq(T)
    <3>1. n - 1 \in R
      BY <2>4, <2>5
    <3> QED BY <2>5, <3>1
  <2> QED BY <1>9, <1>11, <2>6
<1> QED BY <1>10, <1>11

-----------------------------------------------------------------------------
(* The inductive invariant.                                                *)

\* Nothing but the code of the right Alt key is marked as special, and the console
\* knows of every change of that key but the one whose codes it has not read.
AltGr ==
  LET right == "RightAlt" \in held
  IN  \/ /\ ~keyboard.unaEspecial /\ (keyboard.altGRPressed <=> right)
         /\ arriving = <<>> \/ \E code \in 0 .. 255 \ {Special} : arriving = <<code>>
      \/ /\ right
         /\ \/ arriving = <<Special, Alt>> /\ ~keyboard.unaEspecial
            \/ arriving = <<Alt>> /\ keyboard.unaEspecial
      \/ /\ ~right
         /\ \/ arriving = <<Special, Released(Alt)>> /\ ~keyboard.unaEspecial
            \/ arriving = <<Released(Alt)>> /\ keyboard.unaEspecial

IInv ==
  /\ Ring(keyboard)
  /\ Waits(keyboard)
  /\ AltGr
  /\ held \subseteq Modifiers

\* What the screen may show, and what is printed on it.
Glyphs  == (Chars \ {NUL, NL, Tab}) \union {Blank}
Printed == Chars \union {Tab, Blank}

\* The screen with the cursor of the console, and with that of the kernel.
ConsoleScreen ==
  [mem |-> mem, cursorRow |-> console.cursorRow, offset |-> console.offset]

KernelScreen ==
  [mem |-> mem, cursorRow |-> kernel.cursorRow, cursorCol |-> kernel.cursorCol]

\* The cursors are on the screen, the row and the offset of the console agree, and the
\* screen is what it would be on paper as long as one of the two prints alone: until the
\* console starts it is the kernel, and the console's cursor has not moved.
ScreenIInv ==
  /\ KernelScreen \in Pages(Glyphs)
  /\ \E page \in Pages(Glyphs) : ConsoleScreen = Console(page)
  /\ kernel = [cursorRow |-> kernel.cursorRow, cursorCol |-> kernel.cursorCol]
  /\ console = [cursorRow |-> console.cursorRow, offset |-> console.offset]
  /\ ~started => alone /\ console = [cursorRow |-> 0, offset |-> 0]
  /\ alone => /\ paper \in Sheets(Glyphs)
              /\ started  => ConsoleScreen = Console(Displayed(paper))
              /\ ~started => KernelScreen = Displayed(paper)

\* What is typed comes last, what is read comes first.
InOrder(j, k) ==
  \E typed \in {<<>>} \union {<<c>> : c \in Chars} :
    LET line == Contents(j) \o typed
    IN  \E n \in 0 .. Len(line) : Contents(k) = SubSeq(line, n + 1, Len(line))

-----------------------------------------------------------------------------
(* The steps.                                                              *)

LEMMA InitEstablishes == ASSUME Init PROVE IInv
<1>1. keyboard = InitializeKeyboard /\ held = {} /\ arriving = <<>>
  BY DEF Init
<1>2. keyboard \in Keyboards
  BY <1>1, Size, KeyboardAssumption DEF InitializeKeyboard, Keyboards, Slots
<1>3. /\ keyboard.front = 0 /\ keyboard.end = 0 /\ keyboard.count = 0
      /\ ~keyboard.pendingRequest /\ ~keyboard.unaEspecial /\ ~keyboard.altGRPressed
  BY <1>1 DEF InitializeKeyboard
<1>4. (0 + 0) % SIZE_BUFFER_TECLADO = 0
  BY Size
<1> QED BY <1>1, <1>2, <1>3, <1>4 DEF IInv, Ring, Waits, AltGr

-----------------------------------------------------------------------------
(* What is printed.                                                        *)

\* Everything that is printed is a text of printable characters.
LEMMA PrintedIs ==
  /\ Blank \in Glyphs /\ Blank \in Printed
  /\ \A c \in Printed : Printable(Glyphs, c)
  /\ \A text \in Texts \union Messages : text \in Seq(Printed)
  /\ \A c \in Chars : <<c>> \in Seq(Printed)
<1>1. ASSUME NEW c \in Printed PROVE Printable(Glyphs, c)
  BY DEF Printed, Glyphs, Printable, Glyph, NL, NUL, NewLine
<1>2. ASSUME NEW text \in Texts \union Messages PROVE text \in Seq(Printed)
  <2>1. text \in Seq(Chars \union {Tab})
    BY TerminalAssumption
  <2>2. Chars \union {Tab} \subseteq Printed
    BY DEF Printed
  <2> QED BY <2>1, <2>2
<1>3. ASSUME NEW c \in Chars PROVE <<c>> \in Seq(Printed)
  <2>1. c \in Printed
    BY DEF Printed
  <2> QED BY <2>1
<1>4. Blank \in Glyphs /\ Blank \in Printed
  BY DEF Glyphs, Printed
<1> QED BY <1>1, <1>2, <1>3, <1>4

\* A sheet that fits is a page.
LEMMA DisplayedIs ==
  ASSUME NEW sheet \in Sheets(Glyphs), NEW page \in Pages(Glyphs),
         \/ Console(page) = Console(Displayed(sheet))
         \/ page = Displayed(sheet)
  PROVE  page = Displayed(sheet)
<1>1. CASE page = Displayed(sheet)
  BY <1>1
<1>2. CASE Console(page) = Console(Displayed(sheet))
  <2> DEFINE shown == Displayed(sheet)
             r == Len(sheet) - 1
             k == Len(sheet[Len(sheet)])
  <2>1. shown = [mem |-> Shown(sheet), cursorRow |-> r, cursorCol |-> k]
    BY DEF Displayed
  <2>2. r \in 0 .. Rows - 1 /\ k \in 0 .. Cols - 1
    <3>1. /\ Len(sheet) \in 1 .. Rows /\ sheet[Len(sheet)] \in Seq(Glyphs)
          /\ Len(sheet[Len(sheet)]) < Cols /\ Rows \in Nat /\ Cols \in Nat
      BY Sizes DEF Sheets, Papers
    <3> QED BY <3>1
  <2>3. PICK i \in 0 .. Rows - 1, j \in 0 .. Cols - 1, m \in [Positions -> Glyphs] :
          page = [mem |-> m, cursorRow |-> i, cursorCol |-> j]
    BY DEF Pages
  <2> HIDE DEF r, k
  <2>4. m = Shown(sheet) /\ i = r /\ Spot(i, j) = Spot(r, k)
    BY <1>2, <2>1, <2>3 DEF Console
  <2>5. i = r /\ j = k
    BY <2>2, <2>4, SpotIs
  <2> QED BY <2>1, <2>3, <2>4, <2>5
<1> QED BY <1>1, <1>2

\* The paper that has nothing on it.
LEMMA EmptySheet ==
  /\ << <<>> >> \in Sheets(Glyphs)
  /\ Displayed(<< <<>> >>) = [mem |-> Clear, cursorRow |-> 0, cursorCol |-> 0]
<1> DEFINE sheet == << <<>> >>
<1>1. /\ Rows \in Nat \ {0} /\ Cols \in Nat \ {0}
      /\ sheet \in Seq(Seq(Glyphs)) /\ Len(sheet) = 1 /\ sheet[1] = <<>> /\ Len(<<>>) = 0
  BY Sizes
<1> HIDE DEF sheet
<1>2. sheet \in Sheets(Glyphs)
  <2>1. Len(sheet) \in 1 .. Rows /\ Len(sheet[Len(sheet)]) < Cols
    BY <1>1
  <2>2. ASSUME NEW n \in 1 .. Len(sheet) PROVE Len(sheet[n]) <= Cols
    <3>1. n = 1
      BY <1>1
    <3> QED BY <1>1, <3>1
  <2> QED BY <1>1, <2>1, <2>2 DEF Sheets, Papers
<1>3. ASSUME NEW r \in 0 .. Rows - 1, NEW c \in 0 .. Cols - 1
      PROVE  Shown(sheet)[Spot(r, c)] = Clear[Spot(r, c)]
  <2>1. Shown(sheet)[Spot(r, c)] = Cell(sheet, r, c)
    BY <1>1, ShownAt
  <2>2. Cell(sheet, r, c) = Blank
    <3>1. r \in Nat /\ c \in Nat /\ (r < 1 => r + 1 = 1)
      BY <1>1
    <3> QED BY <1>1, <3>1 DEF Cell
  <2>3. Spot(r, c) \in Positions
    BY SpotIs
  <2> QED BY <2>1, <2>2, <2>3 DEF Clear
<1>4. IsAScreen(Clear) /\ IsAScreen(Shown(sheet))
  BY Screens DEF IsAScreen, Clear
<1>5. Shown(sheet) = Clear
  BY <1>3, <1>4, SameScreen
<1>6. Displayed(sheet) = [mem |-> Clear, cursorRow |-> 0, cursorCol |-> 0]
  BY <1>1, <1>5 DEF Displayed
<1> QED BY <1>2, <1>6 DEF sheet

\* The screen is clear and both cursors are at its top.
LEMMA ScreenInit == ASSUME Init PROVE ScreenIInv
<1>1. /\ mem = Clear /\ console = [cursorRow |-> 0, offset |-> 0]
      /\ kernel = [cursorRow |-> 0, cursorCol |-> 0]
      /\ ~started /\ alone /\ paper = << <<>> >>
  BY DEF Init
<1>2. /\ Rows \in Nat \ {0} /\ Cols \in Nat \ {0} /\ 0 \in 0 .. Rows - 1 /\ 0 \in 0 .. Cols - 1
      /\ Blank \in Glyphs
  BY Sizes DEF Glyphs
<1>3. KernelScreen = [mem |-> Clear, cursorRow |-> 0, cursorCol |-> 0]
  BY <1>1 DEF KernelScreen
<1>4. KernelScreen \in Pages(Glyphs)
  BY <1>2, <1>3 DEF Pages, Clear
<1>5. ConsoleScreen = Console(KernelScreen)
  <2>1. Spot(0, 0) = 0
    BY <1>2 DEF Spot
  <2> QED BY <1>1, <1>3, <2>1 DEF ConsoleScreen, Console
<1>6. paper \in Sheets(Glyphs) /\ KernelScreen = Displayed(paper)
  BY <1>1, <1>3, EmptySheet
<1> QED BY <1>1, <1>4, <1>5, <1>6 DEF ScreenIInv

\* The console puts a text on the screen.
LEMMA PutStep ==
  ASSUME ScreenIInv, started, NEW text \in Seq(Printed), Put(text)
  PROVE  ScreenIInv'
<1>1. PICK page \in Pages(Glyphs) : ConsoleScreen = Console(page)
  BY DEF ScreenIInv
<1> DEFINE next == FoldLeft(KernelPrintChar, page, text)
<1>2. next \in Pages(Glyphs) /\ Write(ConsoleScreen, text) = Console(next)
  BY <1>1, PrintedIs, TextsPrinted
<1>3. /\ mem' = Console(next).mem
      /\ console' = [cursorRow |-> Console(next).cursorRow, offset |-> Console(next).offset]
      /\ paper' = IF alone THEN PaperPrint(paper, text) ELSE << <<>> >>
      /\ UNCHANGED <<kernel, started, alone>>
  BY <1>2 DEF Put, ConsoleScreen
<1>4. alone => paper \in Sheets(Glyphs) /\ page = Displayed(paper)
  BY <1>1, DisplayedIs DEF ScreenIInv
<1>5. alone => paper' \in Sheets(Glyphs) /\ next = Displayed(paper')
  <2> SUFFICES ASSUME alone
               PROVE  paper' \in Sheets(Glyphs) /\ next = Displayed(paper')
    OBVIOUS
  <2>1. /\ PaperPrint(paper, text) \in Sheets(Glyphs)
        /\ FoldLeft(KernelPrintChar, Displayed(paper), text) = Displayed(PaperPrint(paper, text))
    BY <1>4, PrintedIs, TextsOnPaper
  <2> QED BY <1>3, <1>4, <2>1
<1> HIDE DEF next
<1>6. ConsoleScreen' = Console(next)
  BY <1>3 DEF ConsoleScreen, Console
<1>7. KernelScreen' \in Pages(Glyphs)
  <2>1. mem' \in [Positions -> Glyphs]
    BY <1>2, <1>3 DEF Pages, Console
  <2>2. kernel.cursorRow \in 0 .. Rows - 1 /\ kernel.cursorCol \in 0 .. Cols - 1
    BY DEF ScreenIInv, KernelScreen, Pages
  <2> QED BY <1>3, <2>1, <2>2 DEF KernelScreen, Pages
<1>8. console' = [cursorRow |-> console'.cursorRow, offset |-> console'.offset]
  BY <1>3
<1> QED BY <1>2, <1>3, <1>5, <1>6, <1>7, <1>8 DEF ScreenIInv

\* The kernel prints a text.
LEMMA KernelPrintsStep ==
  ASSUME ScreenIInv, NEW text \in Seq(Printed), KernelPrints(text)
  PROVE  ScreenIInv'
<1> DEFINE plain == Untabbed(text)
           next == FoldLeft(KernelPrintChar, KernelScreen, plain)
<1>1. plain \in Seq(Printed)
  BY PrintedIs, UntabbedIs
<1>2. next \in Pages(Glyphs)
  <2> HIDE DEF plain
  <2> QED BY <1>1, PrintedIs, TextsPrinted DEF ScreenIInv
<1>3. /\ mem' = next.mem
      /\ kernel' = [cursorRow |-> next.cursorRow, cursorCol |-> next.cursorCol]
      /\ paper' = IF started THEN << <<>> >> ELSE PaperPrint(paper, plain)
      /\ alone' = ~started
      /\ console' = console /\ started' = started
  BY DEF KernelPrints, KernelPrint, KernelScreen
<1>4. ~started => paper' \in Sheets(Glyphs) /\ next = Displayed(paper')
  <2> SUFFICES ASSUME ~started
               PROVE  paper' \in Sheets(Glyphs) /\ next = Displayed(paper')
    OBVIOUS
  <2>1. paper \in Sheets(Glyphs) /\ KernelScreen = Displayed(paper)
    BY DEF ScreenIInv
  <2> HIDE DEF plain
  <2>2. /\ PaperPrint(paper, plain) \in Sheets(Glyphs)
        /\ FoldLeft(KernelPrintChar, Displayed(paper), plain) = Displayed(PaperPrint(paper, plain))
    BY <1>1, <2>1, PrintedIs, TextsOnPaper
  <2> QED BY <1>3, <2>1, <2>2
<1> HIDE DEF next
<1>5. KernelScreen' = next
  BY <1>2, <1>3 DEF KernelScreen, Pages
<1>6. \E page \in Pages(Glyphs) : ConsoleScreen' = Console(page)
  <2>1. PICK page \in Pages(Glyphs) : ConsoleScreen = Console(page)
    BY DEF ScreenIInv
  <2> DEFINE new == [mem |-> next.mem, cursorRow |-> page.cursorRow, cursorCol |-> page.cursorCol]
  <2>2. new \in Pages(Glyphs)
    BY <1>2 DEF Pages
  <2>3. console.cursorRow = page.cursorRow /\ console.offset = Spot(page.cursorRow, page.cursorCol)
    BY <2>1 DEF ConsoleScreen, Console
  <2>4. ConsoleScreen' = Console(new)
    BY <1>3, <2>3 DEF ConsoleScreen, Console
  <2> QED BY <2>2, <2>4
<1>7. kernel' = [cursorRow |-> kernel'.cursorRow, cursorCol |-> kernel'.cursorCol]
  BY <1>3
<1> QED BY <1>2, <1>3, <1>4, <1>5, <1>6, <1>7 DEF ScreenIInv

\* The console clears the screen, with its cursor still at the top.
LEMMA ClearStep ==
  ASSUME ScreenIInv, InitializeVGA
  PROVE  ScreenIInv'
<1>1. /\ ~started /\ started' = TRUE /\ mem' = Clear /\ paper' = << <<>> >>
      /\ console' = console /\ kernel' = kernel /\ alone' = alone
      /\ alone /\ console = [cursorRow |-> 0, offset |-> 0]
  BY DEF InitializeVGA, ScreenIInv
<1>2. /\ Rows \in Nat \ {0} /\ Cols \in Nat \ {0} /\ 0 \in 0 .. Rows - 1 /\ 0 \in 0 .. Cols - 1
      /\ Clear \in [Positions -> Glyphs]
  BY Sizes, PrintedIs DEF Clear
<1> DEFINE page == [mem |-> Clear, cursorRow |-> 0, cursorCol |-> 0]
<1>3. page \in Pages(Glyphs)
  BY <1>2 DEF Pages
<1>4. ConsoleScreen' = Console(page)
  <2>1. Spot(0, 0) = 0
    BY <1>2 DEF Spot
  <2> QED BY <1>1, <2>1 DEF ConsoleScreen, Console
<1>5. paper' \in Sheets(Glyphs) /\ page = Displayed(paper')
  BY <1>1, EmptySheet
<1>6. KernelScreen' \in Pages(Glyphs)
  <2>1. kernel.cursorRow \in 0 .. Rows - 1 /\ kernel.cursorCol \in 0 .. Cols - 1
    BY DEF ScreenIInv, KernelScreen, Pages
  <2> QED BY <1>1, <1>2, <2>1 DEF KernelScreen, Pages
<1> HIDE DEF page
<1> QED BY <1>1, <1>3, <1>4, <1>5, <1>6 DEF ScreenIInv

\* What is echoed is the character of a table, or one that is read beyond its end.
LEMMA EchoIs ==
  ASSUME NEW k, NEW code, NEW t \in readKeyboard(k, code)
  PROVE  t.echo \in Seq(Printed)
<1> DEFINE Letter == {[keyboard |-> Store(k, letra),
                       echo |-> IF HasRoom(k) THEN <<letra>> ELSE <<>>] : letra \in Letters(k, code)}
<1>1. PICK u \in Translated(k, code) : t = [u EXCEPT !.keyboard = Plain(@, code)]
  BY DEF readKeyboard
<1>2. (\E j : u \in Quietly(j)) \/ u \in Letter
  <2> HIDE DEF Letter
  <2>1. \/ u \in Quietly([k EXCEPT !.shiftPressed = TRUE])
        \/ u \in Quietly([k EXCEPT !.shiftPressed = FALSE])
        \/ u \in Quietly([k EXCEPT !.unaEspecial = TRUE])
        \/ u \in Quietly([k EXCEPT !.altGRPressed = @ \/ k.unaEspecial])
        \/ u \in Quietly([k EXCEPT !.altGRPressed = @ /\ ~k.unaEspecial])
        \/ u \in Quietly([k EXCEPT !.capsOn = ~@])
        \/ u \in Quietly(k)
        \/ u \in Letter
    BY Zenon DEF Translated, Letter
  <2> QED BY <2>1
<1>3. CASE \E j : u \in Quietly(j)
  <2>1. PICK j : u = [keyboard |-> j, echo |-> <<>>]
    BY <1>3 DEF Quietly
  <2>2. t.echo = <<>>
    BY <1>1, <2>1
  <2> QED BY <2>2
<1>4. CASE u \in Letter
  <2>1. PICK letra \in Letters(k, code) :
          u = [keyboard |-> Store(k, letra), echo |-> IF HasRoom(k) THEN <<letra>> ELSE <<>>]
    BY <1>4
  <2>2. letra \in Chars
    <3>1. Level(k) \in 0 .. 2
      BY DEF Level
    <3>2. CASE code \in DOMAIN tecladoEsp
      <4>1. tecladoEsp \in [0 .. 83 -> [0 .. 2 -> Chars]] /\ letra = tecladoEsp[code][Level(k)]
        BY <2>1, <3>2, KeyboardAssumption DEF Letters, Tables
      <4> QED BY <3>1, <3>2, <4>1
    <3>3. CASE code \notin DOMAIN tecladoEsp
      BY <2>1, <3>3 DEF Letters
    <3> QED BY <3>2, <3>3
  <2>3. t.echo = <<letra>> \/ t.echo = <<>>
    BY <1>1, <2>1
  <2>4. <<letra>> \in Seq(Printed)
    BY <2>2, PrintedIs
  <2>5. <<>> \in Seq(Printed)
    OBVIOUS
  <2>6. CASE t.echo = <<letra>>
    BY <2>4, <2>6
  <2>7. CASE t.echo = <<>>
    BY <2>5, <2>7
  <2> QED BY <2>3, <2>6, <2>7
<1> QED BY <1>2, <1>3, <1>4

\* Every step keeps the screen as it is on paper.
LEMMA ScreenKeeps ==
  ASSUME ScreenIInv, [Next]_vars
  PROVE  ScreenIInv'
<1>1. ASSUME UNCHANGED screen PROVE ScreenIInv'
  <2>1. KernelScreen' = KernelScreen /\ ConsoleScreen' = ConsoleScreen
    BY <1>1 DEF screen, KernelScreen, ConsoleScreen
  <2> QED BY <1>1, <2>1 DEF screen, ScreenIInv
<1>2. CASE \E text \in Messages : KernelPrints(text)
  BY <1>2, PrintedIs, KernelPrintsStep
<1>3. CASE InitializeVGA
  BY <1>3, ClearStep
<1>4. CASE \E text \in Texts : WriteText(text)
  <2>1. PICK text \in Texts : started /\ Put(text)
    BY <1>4 DEF WriteText
  <2> QED BY <2>1, PrintedIs, PutStep
<1>5. CASE Interrupt
  <2>1. PICK t \in readKeyboard(keyboard, Head(arriving)) : started /\ Put(t.echo)
    BY <1>5 DEF Interrupt
  <2>2. t.echo \in Seq(Printed)
    BY EchoIs
  <2> QED BY <2>1, <2>2, PutStep
<1>6. CASE \/ \E wanted \in 0 .. MaxWanted : Read(wanted)
           \/ PressKey \/ ReleaseKey \/ UNCHANGED vars
  <2>1. UNCHANGED screen
    BY <1>6 DEF Read, PressKey, ReleaseKey, vars, screen
  <2> QED BY <1>1, <2>1
<1> QED BY <1>2, <1>3, <1>4, <1>5, <1>6 DEF Next

-----------------------------------------------------------------------------
(* The keyboard.                                                           *)

LEMMA ReadStep ==
  ASSUME IInv, NEW wanted \in Nat, Read(wanted)
  PROVE  IInv' /\ InOrder(keyboard, keyboard')
<1> DEFINE k == Request(keyboard, wanted)
<1>1. keyboard' = TryAnswerRequest(k) /\ UNCHANGED <<held, arriving>>
  BY DEF Read, keys
<1>2. /\ k \in Keyboards /\ k.front = keyboard.front /\ k.end = keyboard.end
      /\ k.count = keyboard.count /\ k.cola = keyboard.cola
      /\ k.unaEspecial = keyboard.unaEspecial /\ k.altGRPressed = keyboard.altGRPressed
      /\ keyboard \in Keyboards
  BY DEF IInv, Ring, Keyboards, Request
<1> HIDE DEF k
<1>3. Ring(k) /\ Contents(k) = Contents(keyboard)
  BY <1>2 DEF IInv, Ring, Contents
<1>4. PICK j : j = keyboard'
  OBVIOUS
<1>5. /\ Ring(j) /\ Waits(j)
      /\ j.unaEspecial = keyboard.unaEspecial /\ j.altGRPressed = keyboard.altGRPressed
      /\ \E n \in 0 .. k.count : Contents(j) = SubSeq(Contents(k), n + 1, k.count)
  BY <1>1, <1>2, <1>3, <1>4, ReadTried
<1>6. Ring(keyboard)' /\ Waits(keyboard)'
  BY <1>4, <1>5 DEF Ring, Waits
<1>7. AltGr'
  BY <1>1, <1>4, <1>5 DEF IInv, AltGr
<1>8. InOrder(keyboard, j)
  <2>1. Contents(keyboard) \o <<>> = Contents(keyboard) /\ Len(Contents(keyboard)) = k.count
    BY <1>2, ContentsAre
  <2> QED BY <1>3, <1>5, <2>1 DEF InOrder
<1>9. held' \subseteq Modifiers
  BY <1>1 DEF IInv
<1> QED BY <1>4, <1>6, <1>7, <1>8, <1>9 DEF IInv

LEMMA InterruptStep ==
  ASSUME IInv, Interrupt
  PROVE  IInv' /\ InOrder(keyboard, keyboard')
<1>1. PICK t \in readKeyboard(keyboard, Head(arriving)) :
        keyboard' = TryAnswerRequest(t.keyboard)
  BY DEF Interrupt
<1>2. arriving # <<>> /\ arriving' = Tail(arriving) /\ held' = held
  BY DEF Interrupt
<1>3. PICK k : k = t.keyboard
  OBVIOUS
<1>4. PICK code : code = Head(arriving)
  OBVIOUS
<1>5. PICK j : j = keyboard'
  OBVIOUS
<1>6. /\ keyboard \in Keyboards /\ keyboard.unaEspecial \in BOOLEAN /\ keyboard.altGRPressed \in BOOLEAN
      /\ Alt = 56 /\ Special = 224 /\ Released(Alt) = 184
  BY DEF IInv, Ring, Keyboards, Alt, Special, Released
<1>7. code \in Nat
  <2>1. CASE \E c \in 0 .. 255 \ {Special} : arriving = <<c>>
    BY <1>4, <1>6, <2>1
  <2>2. CASE \/ arriving = <<Special, Alt>> \/ arriving = <<Alt>>
             \/ arriving = <<Special, Released(Alt)>> \/ arriving = <<Released(Alt)>>
    <3>1. code \in {Special, Alt, Released(Alt)}
      BY <1>4, <2>2
    <3> QED BY <1>6, <3>1
  <2> QED BY <1>2, <2>1, <2>2 DEF IInv, AltGr
<1>8. /\ Ring(k)
      /\ \E typed \in {<<>>} \union {<<c>> : c \in Chars} :
           Contents(k) = Contents(keyboard) \o typed
      /\ code = Special => k.unaEspecial
      /\ code # Special => ~k.unaEspecial
      /\ k.altGRPressed =
              IF code = Alt THEN keyboard.altGRPressed \/ keyboard.unaEspecial
              ELSE IF code = Released(Alt) THEN keyboard.altGRPressed /\ ~keyboard.unaEspecial
              ELSE keyboard.altGRPressed
  BY <1>1, <1>3, <1>4, <1>7, KeyRead DEF IInv
<1>9. /\ Ring(j) /\ Waits(j)
      /\ j.unaEspecial = k.unaEspecial /\ j.altGRPressed = k.altGRPressed
      /\ \E n \in 0 .. k.count : Contents(j) = SubSeq(Contents(k), n + 1, k.count)
  BY <1>1, <1>3, <1>5, <1>8, ReadTried
<1>10. Ring(keyboard)' /\ Waits(keyboard)'
  BY <1>5, <1>9 DEF Ring, Waits
<1>11. AltGr'
  <2> DEFINE right == "RightAlt" \in held
  <2>1. CASE /\ ~keyboard.unaEspecial /\ (keyboard.altGRPressed <=> right)
             /\ \E c \in 0 .. 255 \ {Special} : arriving = <<c>>
    <3>1. arriving = <<code>> /\ code # Special /\ arriving' = <<>>
      BY <1>2, <1>4, <2>1
    <3>2. ~j.unaEspecial /\ (j.altGRPressed <=> right)
      BY <1>6, <1>8, <1>9, <2>1, <3>1
    <3> QED BY <1>2, <1>5, <3>1, <3>2 DEF AltGr
  <2>2. CASE right /\ arriving = <<Special, Alt>> /\ ~keyboard.unaEspecial
    <3>1. code = Special /\ arriving' = <<Alt>>
      BY <1>2, <1>4, <2>2
    <3>2. j.unaEspecial
      BY <1>8, <1>9, <3>1
    <3> QED BY <1>2, <1>5, <2>2, <3>1, <3>2 DEF AltGr
  <2>3. CASE right /\ arriving = <<Alt>> /\ keyboard.unaEspecial
    <3>1. code = Alt /\ arriving' = <<>>
      BY <1>2, <1>4, <2>3
    <3>2. j.altGRPressed = (keyboard.altGRPressed \/ keyboard.unaEspecial)
      BY <1>8, <1>9, <3>1
    <3>3. ~j.unaEspecial /\ j.altGRPressed
      <4>1. ~j.unaEspecial
        BY <1>6, <1>8, <1>9, <3>1
      <4> QED BY <2>3, <3>2, <4>1, Zenon
    <3> QED BY <1>2, <1>5, <2>3, <3>1, <3>3 DEF AltGr
  <2>4. CASE ~right /\ arriving = <<Special, Released(Alt)>> /\ ~keyboard.unaEspecial
    <3>1. code = Special /\ arriving' = <<Released(Alt)>>
      BY <1>2, <1>4, <2>4
    <3>2. j.unaEspecial
      BY <1>8, <1>9, <3>1
    <3> QED BY <1>2, <1>5, <2>4, <3>1, <3>2 DEF AltGr
  <2>5. CASE ~right /\ arriving = <<Released(Alt)>> /\ keyboard.unaEspecial
    <3>1. code = Released(Alt) /\ arriving' = <<>>
      BY <1>2, <1>4, <2>5
    <3>2. j.altGRPressed = (keyboard.altGRPressed /\ ~keyboard.unaEspecial)
      BY <1>6, <1>8, <1>9, <3>1
    <3>3. ~j.unaEspecial /\ ~j.altGRPressed
      <4>1. ~j.unaEspecial
        BY <1>6, <1>8, <1>9, <3>1
      <4> QED BY <2>5, <3>2, <4>1, Zenon
    <3> QED BY <1>2, <1>5, <2>5, <3>1, <3>3 DEF AltGr
  <2> QED BY <1>2, <2>1, <2>2, <2>3, <2>4, <2>5 DEF IInv, AltGr
<1>12. InOrder(keyboard, j)
  <2>1. PICK typed \in {<<>>} \union {<<c>> : c \in Chars} :
          Contents(k) = Contents(keyboard) \o typed
    BY <1>8
  <2>2. Len(Contents(k)) = k.count
    BY <1>8, ContentsAre DEF Ring
  <2> QED BY <1>9, <2>1, <2>2 DEF InOrder
<1>13. held' \subseteq Modifiers
  BY <1>2 DEF IInv
<1> QED BY <1>5, <1>10, <1>11, <1>12, <1>13 DEF IInv

\* A key sends its codes when the console has read those of the key before.
LEMMA KeyStep ==
  ASSUME IInv, PressKey \/ ReleaseKey
  PROVE  IInv' /\ keyboard' = keyboard
<1>1. arriving = <<>> /\ keyboard' = keyboard
  BY DEF PressKey, ReleaseKey
<1>2. /\ Alt = 56 /\ Special = 224 /\ Released(Alt) = 184 /\ CapsLock = 58 /\ Released(CapsLock) = 186
      /\ Released(42) = 170
  BY DEF Alt, Special, Released, CapsLock
<1>3. Modifiers \subseteq ModifierKeys /\ Keys \subseteq 0 .. 127
  BY TerminalAssumption
<1>4. ~keyboard.unaEspecial /\ (keyboard.altGRPressed <=> "RightAlt" \in held)
  BY <1>1, <1>2 DEF IInv, AltGr
<1>5. ASSUME NEW key \in ModifierKeys, NEW down \in BOOLEAN, arriving' = ScanCodes(key, down),
             held' = IF down THEN held \union {key} ELSE held \ {key}
      PROVE  AltGr'
  <2>1. CASE key = "RightAlt"
    <3>1. arriving' = IF down THEN <<Special, Alt>> ELSE <<Special, Released(Alt)>>
      BY <1>5, <2>1 DEF ScanCodes
    <3>2. "RightAlt" \in held' <=> down
      BY <1>5, <2>1
    <3> QED BY <1>1, <1>4, <3>1, <3>2 DEF AltGr
  <2>2. CASE key # "RightAlt"
    <3>1. PICK base \in {42, CapsLock, Alt} : arriving' = IF down THEN <<base>> ELSE <<Released(base)>>
      BY <1>5, <2>2 DEF ScanCodes, ModifierKeys
    <3>2. \E c \in 0 .. 255 \ {Special} : arriving' = <<c>>
      BY <1>2, <3>1
    <3>3. "RightAlt" \in held' <=> "RightAlt" \in held
      BY <1>5, <2>2
    <3> QED BY <1>1, <1>4, <3>2, <3>3 DEF AltGr
  <2> QED BY <2>1, <2>2
<1>6. CASE \E code \in Keys : arriving' = <<code>> /\ UNCHANGED held
  <2>1. \E c \in 0 .. 255 \ {Special} : arriving' = <<c>>
    BY <1>2, <1>3, <1>6
  <2>2. AltGr'
    BY <1>1, <1>4, <1>6, <2>1 DEF AltGr
  <2> QED BY <1>1, <1>6, <2>2 DEF IInv
<1>7. CASE \E key \in Modifiers \ held :
             arriving' = ScanCodes(key, TRUE) /\ held' = held \union {key}
  <2>1. AltGr'
    BY <1>3, <1>5, <1>7
  <2>2. held' \subseteq Modifiers
    BY <1>7 DEF IInv
  <2> QED BY <1>1, <2>1, <2>2 DEF IInv
<1>8. CASE ReleaseKey
  <2>1. PICK key \in held : arriving' = ScanCodes(key, FALSE) /\ held' = held \ {key}
    BY <1>8 DEF ReleaseKey
  <2>2. AltGr'
    BY <1>3, <1>5, <2>1 DEF IInv
  <2>3. held' \subseteq Modifiers
    BY <2>1 DEF IInv
  <2> QED BY <1>1, <2>2, <2>3 DEF IInv
<1> QED BY <1>1, <1>6, <1>7, <1>8 DEF PressKey

LEMMA NextKeeps ==
  ASSUME IInv, [Next]_vars
  PROVE  IInv' /\ (keyboard' = keyboard \/ InOrder(keyboard, keyboard'))
<1>1. ASSUME keyboard' = keyboard, UNCHANGED <<held, arriving>>
      PROVE  IInv'
  BY <1>1 DEF IInv, AltGr
<1>2. ASSUME NEW text, KernelPrints(text) \/ WriteText(text)
      PROVE  keyboard' = keyboard /\ UNCHANGED <<held, arriving>>
  BY <1>2 DEF KernelPrints, WriteText, keys
<1>3. ASSUME InitializeVGA
      PROVE  keyboard' = keyboard /\ UNCHANGED <<held, arriving>>
  BY <1>3 DEF InitializeVGA, keys
<1>4. ASSUME NEW wanted \in 0 .. MaxWanted, Read(wanted)
      PROVE  IInv' /\ InOrder(keyboard, keyboard')
  <2>1. wanted \in Nat
    BY TerminalAssumption
  <2> QED BY <1>4, <2>1, ReadStep
<1>5. CASE UNCHANGED vars
  BY <1>1, <1>5 DEF vars
<1>6. CASE PressKey \/ ReleaseKey
  BY <1>6, KeyStep
<1>7. CASE Interrupt
  BY <1>7, InterruptStep
<1> QED BY <1>1, <1>2, <1>3, <1>4, <1>5, <1>6, <1>7 DEF Next

-----------------------------------------------------------------------------
(* The theorems.                                                           *)

\* The parts of the invariant hold in every reachable state: the ring is whole and the
\* variables of the console have their types.
THEOREM Invariance == Spec => []IInv
<1>1. Init => IInv
  BY InitEstablishes
<1>2. IInv /\ [Next]_vars => IInv'
  BY NextKeeps
<1> QED BY <1>1, <1>2, PTL DEF Spec

\* The screen and its two cursors are as the inductive invariant says.
THEOREM ScreenInvariance == Spec => []ScreenIInv
<1>1. Init => ScreenIInv
  BY ScreenInit
<1>2. ScreenIInv /\ [Next]_vars => ScreenIInv'
  BY ScreenKeeps
<1> QED BY <1>1, <1>2, PTL DEF Spec

\* Every variable has its type, and neither cursor ever leaves the screen, whatever is
\* printed on a screen of any size, by the two in any order.
THEOREM TypeCorrect == Spec => []TypeOK
<1>1. IInv /\ ScreenIInv => TypeOK
  <2> SUFFICES ASSUME IInv, ScreenIInv PROVE TypeOK
    OBVIOUS
  <2>1. /\ mem \in [Positions -> Glyphs]
        /\ kernel.cursorRow \in 0 .. Rows - 1 /\ kernel.cursorCol \in 0 .. Cols - 1
    BY DEF ScreenIInv, KernelScreen, Pages
  <2>2. console.cursorRow \in 0 .. Rows - 1 /\ console.offset \in Positions
    <3>1. PICK page \in Pages(Glyphs) : ConsoleScreen = Console(page)
      BY DEF ScreenIInv
    <3>2. page.cursorRow \in 0 .. Rows - 1 /\ page.cursorCol \in 0 .. Cols - 1
      BY DEF Pages
    <3>3. /\ console.cursorRow = page.cursorRow
          /\ console.offset = Spot(page.cursorRow, page.cursorCol)
      BY <3>1 DEF ConsoleScreen, Console
    <3> QED BY <3>2, <3>3, SpotIs
  <2>3. /\ keyboard.front \in Slots /\ keyboard.end \in Slots
        /\ keyboard.count \in 0 .. SIZE_BUFFER_TECLADO - 1
        /\ keyboard.cola \in [Slots -> Chars]
        /\ held \subseteq Modifiers
    BY DEF IInv, Ring, Keyboards
  <2> QED BY <2>1, <2>2, <2>3 DEF TypeOK, Glyphs
<1> QED BY <1>1, Invariance, ScreenInvariance, PTL

\* Wrapping, line feeds, tabs and scrolling, done with offsets into the video memory by
\* the console and with rows and columns by the kernel, show what a roll of paper would,
\* as long as one of the two prints alone.
THEOREM ScreenShowsThePaper == Spec => []ShowsLastLines
<1>1. ScreenIInv => ShowsLastLines
  <2> SUFFICES ASSUME ScreenIInv, alone PROVE mem = Shown(paper)
    BY DEF ShowsLastLines
  <2>1. CASE started
    <3>1. ConsoleScreen.mem = Console(Displayed(paper)).mem
      BY <2>1 DEF ScreenIInv
    <3> QED BY <3>1 DEF ConsoleScreen, Console, Displayed
  <2>2. CASE ~started
    <3>1. KernelScreen.mem = Displayed(paper).mem
      BY <2>2 DEF ScreenIInv
    <3> QED BY <3>1 DEF KernelScreen, Displayed
  <2> QED BY <2>1, <2>2
<1> QED BY <1>1, ScreenInvariance, PTL

\* After each read and each key the console tries to answer, however long the ring.
THEOREM ReadsAreAnswered == Spec => []NoReadForgotten
<1>1. IInv => NoReadForgotten
  BY DEF IInv, Waits, NoReadForgotten
<1> QED BY <1>1, Invariance, PTL

\* An end of line that is typed sets the flag, stored or not, and the answer is tried.
LEMMA EnterAnswers ==
  ASSUME IInv, Interrupt, keyboard.pendingRequest, IsEnter(Head(arriving))
  PROVE  ~keyboard'.pendingRequest
<1>1. PICK code : code = Head(arriving)
  OBVIOUS
<1>2. PICK t \in readKeyboard(keyboard, code) : keyboard' = TryAnswerRequest(t.keyboard)
  BY <1>1 DEF Interrupt
<1>3. PICK u \in Translated(keyboard, code) : t = [u EXCEPT !.keyboard = Plain(@, code)]
  BY <1>2 DEF readKeyboard
<1>4. /\ code \in 0 .. 127 /\ code \notin Shifts \union {Alt, Control}
      /\ Letters(keyboard, code) = {NL}
  BY <1>1 DEF IsEnter
<1>5. code \in Nat /\ code # Special /\ code - 128 \notin Shifts
      /\ code # Released(Alt) /\ code # Released(CapsLock)
  BY <1>4 DEF Special, Shifts, Released, Alt, CapsLock
<1>6. PICK e : u = [keyboard |-> Store(keyboard, NL), echo |-> e]
  <2>1. code \in 0 .. 128 \ (Shifts \union {Alt, Control})
    BY <1>4
  <2>2. Translated(keyboard, code) =
          {[keyboard |-> Store(keyboard, letra),
            echo     |-> IF HasRoom(keyboard) THEN <<letra>> ELSE <<>>] :
             letra \in Letters(keyboard, code)}
    BY <1>4, <1>5, <2>1, Zenon DEF Translated
  <2> QED BY <1>4, <2>2
<1>7. PICK k : k = Store(keyboard, NL)
  OBVIOUS
<1>8. k.pendingRequest /\ k.eofFile
  <2>1. keyboard \in Keyboards
    BY DEF IInv, Ring
  <2> QED BY <1>7, <2>1 DEF Store, Keyboards
<1>9. t.keyboard = [k EXCEPT !.unaEspecial = FALSE]
  BY <1>3, <1>5, <1>6, <1>7 DEF Plain
<1>10. CanAnswer(t.keyboard)
  BY <1>8, <1>9 DEF CanAnswer
<1>11. Ring(t.keyboard)
  BY <1>2, <1>5, KeyRead DEF IInv
<1> QED BY <1>2, <1>10, <1>11, ReadTried

\* Enter ends a read that waits, however long the ring, full or not.
THEOREM EnterEndsReads == Spec => EnterEndsTheRead
<1>1. ASSUME IInv, [Next]_vars, arriving # <<>>, arriving' = Tail(arriving)
      PROVE  Interrupt
  <2>1. arriving' # arriving
    <3>1. \/ \E a : arriving = <<a>>
          \/ \E a, b : arriving = <<a, b>>
      BY <1>1 DEF IInv, AltGr
    <3>2. \A a : Tail(<<a>>) # <<a>>
      OBVIOUS
    <3>3. \A a, b : Tail(<<a, b>>) # <<a, b>>
      OBVIOUS
    <3> QED BY <1>1, <3>1, <3>2, <3>3
  <2>2. ~UNCHANGED vars
    BY <2>1 DEF vars
  <2>3. \A text : ~KernelPrints(text) /\ ~WriteText(text)
    BY <2>1 DEF KernelPrints, WriteText, keys
  <2>4. ~InitializeVGA /\ \A wanted : ~Read(wanted)
    BY <2>1 DEF InitializeVGA, Read, keys
  <2>5. ~PressKey /\ ~ReleaseKey
    BY <1>1 DEF PressKey, ReleaseKey
  <2> QED BY <1>1, <2>2, <2>3, <2>4, <2>5 DEF Next
<1>2. IInv /\ [Next]_vars =>
        [keyboard.pendingRequest /\ arriving # <<>> /\ arriving' = Tail(arriving)
           /\ IsEnter(Head(arriving)) => ~keyboard'.pendingRequest]_vars
  BY <1>1, EnterAnswers
<1> QED BY <1>2, Invariance, PTL DEF Spec, EnterEndsTheRead

\* The console takes AltGr for pressed exactly while the right Alt key is down.
THEOREM AltGrFollowsTheKey == Spec => []AltGrIsRightAlt
<1>1. IInv => AltGrIsRightAlt
  <2> SUFFICES ASSUME IInv, arriving = <<>>
               PROVE  keyboard.altGRPressed <=> "RightAlt" \in held
    BY DEF AltGrIsRightAlt
  <2>1. \A code, other : <<>> # <<code>> /\ <<>> # <<code, other>>
    OBVIOUS
  <2> QED BY <2>1 DEF IInv, AltGr
<1> QED BY <1>1, Invariance, PTL

\* Characters are read in the order they were typed, through every turn of the ring.
THEOREM CharactersKeepTheirOrder == Spec => TypedInOrder
<1>1. IInv /\ [Next]_vars =>
        [\E typed \in {<<>>} \union {<<c>> : c \in Chars} :
           LET line == Contents(keyboard) \o typed
           IN  \E n \in 0 .. Len(line) :
                 Contents(keyboard') = SubSeq(line, n + 1, Len(line))]_keyboard
  BY NextKeeps DEF InOrder
<1> QED BY <1>1, Invariance, PTL DEF Spec, TypedInOrder

=============================================================================
