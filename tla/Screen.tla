------------------------------- MODULE Screen -------------------------------
(***************************************************************************)
(* The two programs that write to the screen, each with a cursor of its    *)
(* own: the kernel's printf (MicroKernel/video.cpp) and the console        *)
(* (Kernel/console.c). Operators on the video memory, a function from      *)
(* positions to characters, and on a record of cursor and memory; colours  *)
(* are left out, and the character NUL shows as a blank.                   *)
(***************************************************************************)
EXTENDS Integers, Sequences, SequencesExt

CONSTANTS Rows, Cols      \* 25 and 80 in the code

ASSUME ScreenAssumption == Rows \in Nat \ {0} /\ Cols \in Nat \ {0}

Blank   == " "
NewLine == "NL"
Tab     == "TAB"

Positions == 0 .. Rows * Cols - 1

\* What a character looks like. The code writes a tab as one blank; the comments beside
\* say four (console.c 207 and 289).
Glyph(c) == IF c \in {"NUL", Tab} THEN Blank ELSE c

Clear == [p \in Positions |-> Blank]

\* Every line moves up, the last one becomes blank.
ScrolledUp(mem) ==
  [p \in Positions |-> IF p < (Rows - 1) * Cols THEN mem[p + Cols] ELSE Blank]

\* Writing outside of the memory of the screen is not written to the screen.
Poke(mem, p, c) == IF p \in Positions THEN [mem EXCEPT ![p] = Glyph(c)] ELSE mem

-----------------------------------------------------------------------------
(* console.c: s is [mem, cursorRow, offset].                               *)

scroll(s) == [mem       |-> ScrolledUp(s.mem),
              offset    |-> (Rows - 1) * Cols,
              cursorRow |-> Rows - 1]

\* Mutant: the screen scrolls one character late.
AdvanceLate(s) ==
  LET moved == [s EXCEPT !.cursorRow = s.offset \div Cols]
  IN  IF s.offset > Rows * Cols THEN scroll(moved) ELSE moved

\* `cursorRow = offset / 80; if (offset >= 2000) scroll();`
Advance(s) ==
  LET moved == [s EXCEPT !.cursorRow = s.offset \div Cols]
  IN  IF s.offset >= Rows * Cols THEN scroll(moved) ELSE moved

\* Mutant: a line feed does not return to the first column.
LineFeedOnly(s) ==
  LET down == IF s.cursorRow < Rows - 1
              THEN [s EXCEPT !.cursorRow = @ + 1, !.offset = @ + Cols] ELSE scroll(s)
  IN  down

LineFeed(s) ==
  LET down == IF s.cursorRow < Rows - 1 THEN [s EXCEPT !.cursorRow = @ + 1] ELSE scroll(s)
  IN  [down EXCEPT !.offset = down.cursorRow * Cols]

\* A tab is one blank (Glyph).
printChar(s, c) ==
  IF c = NewLine
  THEN LineFeed(s)
  ELSE Advance([s EXCEPT !.mem = Poke(s.mem, s.offset, c), !.offset = @ + 1])

Write(s, text) == FoldLeft(printChar, s, text)

-----------------------------------------------------------------------------
(* video.cpp: s is [mem, cursorRow, cursorCol].                            *)

KernelLineFeed(s) ==
  [mem       |-> IF s.cursorRow < Rows - 1 THEN s.mem ELSE ScrolledUp(s.mem),
   cursorRow |-> IF s.cursorRow < Rows - 1 THEN s.cursorRow + 1 ELSE s.cursorRow,
   cursorCol |-> 0]

KernelPut(s, c) ==
  LET p   == s.cursorRow * Cols + s.cursorCol
      mem == Poke(s.mem, p, c)
  IN  IF p + 1 >= Rows * Cols
      THEN [mem |-> ScrolledUp(mem), cursorRow |-> Rows - 1, cursorCol |-> 0]
      ELSE [mem |-> mem, cursorRow |-> (p + 1) \div Cols, cursorCol |-> (p + 1) % Cols]

KernelPrintChar(s, c) == IF c = NewLine THEN KernelLineFeed(s) ELSE KernelPut(s, c)

\* A tab is seven blanks.
Untabbed(text) ==
  FlattenSeq([n \in DOMAIN text |->
                IF text[n] = Tab THEN [b \in 1 .. 7 |-> Blank] ELSE <<text[n]>>])

KernelPrint(s, text) == FoldLeft(KernelPrintChar, s, Untabbed(text))

-----------------------------------------------------------------------------
(* What a terminal shows: the last lines of what was printed, as far as    *)
(* they fit. A line that is full ends by itself.                           *)

PaperPut(paper, c) ==
  LET line == Append(Last(paper), Glyph(c))
      grown == IF c = NewLine THEN Append(paper, <<>>)
               ELSE IF Len(line) < Cols THEN Append(Front(paper), line)
               ELSE Append(Front(paper), line) \o << <<>> >>
  IN  IF Len(grown) > Rows THEN Tail(grown) ELSE grown

PaperPrint(paper, text) == FoldLeft(PaperPut, paper, text)

Shown(paper) ==
  [p \in Positions |->
     LET line == (p \div Cols) + 1
         col  == (p % Cols) + 1
     IN  IF line <= Len(paper) /\ col <= Len(paper[line]) THEN paper[line][col] ELSE Blank]

=============================================================================
