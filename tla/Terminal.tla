------------------------------ MODULE Terminal ------------------------------
(***************************************************************************)
(* What a user sees and types: the keyboard and the screen as the console  *)
(* thread drives them, one message or one scan code at a time, and the     *)
(* kernel's own messages on the same screen.                               *)
(***************************************************************************)
EXTENDS Keyboard, Screen, FiniteSets

CONSTANTS Keys,       \* scan codes of the plain keys that are pressed
          Texts,      \* what threads write, at most 240 characters each
          Messages,   \* what the kernel prints
          Modifiers,  \* the modifier keys the user may press
          MaxWanted   \* bound: characters asked for in one read

ModifierKeys == {"LeftShift", "LeftAlt", "RightAlt", "CapsLock"}

\* A key that goes down sends a code without bit 7; texts are made of characters.
ASSUME TerminalAssumption ==
  /\ Modifiers \subseteq ModifierKeys
  /\ Keys \subseteq 0 .. 127 \ {Alt}
  /\ Texts \union Messages \subseteq Seq(Chars \union {Tab})
  /\ MaxWanted \in Nat

VARIABLES mem,           \* the video memory
          console,       \* the console's cursor: cursorRow, offset
          kernel,        \* the kernel's cursor: cursorRow, cursorCol
          keyboard,      \* the console's variables for the keyboard
          started,       \* the console has cleared the screen
          paper,         \* the last lines printed since the screen was cleared
          alone,         \* ... all of them by one of the two
          held,          \* the modifier keys that are down
          arriving       \* scan codes of a key not read yet

vars == <<mem, console, kernel, keyboard, started, paper, alone, held, arriving>>

screen == <<mem, console, kernel, started, paper, alone>>
keys   == <<held, arriving>>

Init ==
  /\ mem      = Clear
  /\ console  = [cursorRow |-> 0, offset |-> 0]
  /\ kernel   = [cursorRow |-> 0, cursorCol |-> 0]
  /\ keyboard = InitializeKeyboard
  /\ started  = FALSE
  /\ paper    = << <<>> >>
  /\ alone    = TRUE
  /\ held     = {}
  /\ arriving = <<>>

\* The console prints.
Put(text) ==
  LET s == Write([mem |-> mem, cursorRow |-> console.cursorRow, offset |-> console.offset], text)
  IN  /\ mem' = s.mem
      /\ console' = [cursorRow |-> s.cursorRow, offset |-> s.offset]
      /\ paper' = IF alone THEN PaperPrint(paper, text) ELSE << <<>> >>
      /\ UNCHANGED <<kernel, started, alone>>

-----------------------------------------------------------------------------

\* printf of the kernel, at any time: at boot, at each PassToKernelMode later.
KernelPrints(text) ==
  LET s == KernelPrint([mem |-> mem, cursorRow |-> kernel.cursorRow, cursorCol |-> kernel.cursorCol],
                       text)
  IN  /\ mem' = s.mem
      /\ kernel' = [cursorRow |-> s.cursorRow, cursorCol |-> s.cursorCol]
      /\ paper' = IF started THEN << <<>> >> ELSE PaperPrint(paper, Untabbed(text))
      /\ alone' = ~started
      /\ UNCHANGED <<console, keyboard, started, keys>>

\* The console does not move its cursor, which has not moved yet.
InitializeVGA ==
  /\ ~started
  /\ started' = TRUE
  /\ mem' = Clear
  /\ paper' = << <<>> >>
  /\ UNCHANGED <<console, kernel, keyboard, alone, keys>>

\* A thread's text, forwarded by the file server.
WriteText(text) ==
  /\ started
  /\ Put(text)
  /\ UNCHANGED <<keyboard, keys>>

\* A thread's read, forwarded by the file server, which waits for the answer.
Read(wanted) ==
  /\ started /\ ~keyboard.pendingRequest
  /\ keyboard' = TryAnswerRequest(Request(keyboard, wanted))
  /\ UNCHANGED <<screen, keys>>

\* A scan code is read, its character echoed, a read that waits for it answered.
Interrupt ==
  /\ started /\ arriving # <<>>
  /\ \E t \in readKeyboard(keyboard, Head(arriving)) :
       /\ keyboard' = TryAnswerRequest(t.keyboard)
       /\ Put(t.echo)
  /\ arriving' = Tail(arriving)
  /\ UNCHANGED held

-----------------------------------------------------------------------------
(* The keyboard: a modifier goes down and up; the right Alt key is AltGr   *)
(* and sends Special first, the left one does not; other keys send a code  *)
(* when pressed (releases are not read by anybody).                        *)

ScanCodes(key, down) ==
  LET base == CASE key = "LeftShift" -> 42 [] key = "CapsLock" -> CapsLock [] OTHER -> Alt
      code == IF down THEN base ELSE Released(base)
  IN  IF key = "RightAlt" THEN <<Special, code>> ELSE <<code>>

PressKey ==
  /\ started /\ arriving = <<>>
  /\ \/ \E code \in Keys : arriving' = <<code>> /\ UNCHANGED held
     \/ \E key \in Modifiers \ held :
          arriving' = ScanCodes(key, TRUE) /\ held' = held \union {key}
  /\ UNCHANGED <<screen, keyboard>>

ReleaseKey ==
  /\ started /\ arriving = <<>>
  /\ \E key \in held : arriving' = ScanCodes(key, FALSE) /\ held' = held \ {key}
  /\ UNCHANGED <<screen, keyboard>>

-----------------------------------------------------------------------------

Next ==
  \/ \E text \in Messages : KernelPrints(text)
  \/ InitializeVGA
  \/ \E text \in Texts : WriteText(text)
  \/ \E wanted \in 0 .. MaxWanted : Read(wanted)
  \/ Interrupt
  \/ PressKey
  \/ ReleaseKey

Spec == Init /\ [][Next]_vars

-----------------------------------------------------------------------------
(* Properties.                                                             *)

\* The variables have their types, and no cursor leaves the screen.
TypeOK ==
  /\ mem \in [Positions -> (Chars \ {NUL, NL, Tab}) \union {Blank}]
  /\ console.cursorRow \in 0 .. Rows - 1 /\ console.offset \in Positions
  /\ kernel.cursorRow \in 0 .. Rows - 1 /\ kernel.cursorCol \in 0 .. Cols - 1
  /\ keyboard.front \in Slots /\ keyboard.end \in Slots
  /\ keyboard.count \in 0 .. SIZE_BUFFER_TECLADO - 1
  /\ keyboard.cola \in [Slots -> Chars]
  /\ held \subseteq Modifiers

\* The screen shows the last lines that were printed, through wrapping, line feeds
\* and scrolling, as long as only one of kernel and console prints on it. The lines
\* have a tab of the console as the one blank that it writes, and not as the four that
\* its comments say ("mostrar 4 espacios en blanco").
ShowsLastLines == alone => mem = Shown(paper)

\* Characters are read in the order they were typed, none twice, none skipped: a
\* step puts at most one behind those typed ahead, then takes some from the front.
TypedInOrder ==
  [][\E typed \in {<<>>} \union {<<c>> : c \in Chars} :
       LET line == Contents(keyboard) \o typed
       IN  \E n \in 0 .. Len(line) :
             Contents(keyboard') = SubSeq(line, n + 1, Len(line))]_keyboard

\* After each read and each key the answer is tried: a read waits only while there are
\* fewer characters than it asks for and the last key was no Enter, or was there before
\* an earlier answer.
NoReadForgotten ==
  keyboard.pendingRequest => keyboard.count < keyboard.wanted /\ ~keyboard.eofFile

\* The character that a scan code stands for is an end of line.
IsEnter(code) ==
  /\ code \in 0 .. 127 \ (Shifts \union {Alt, Control})
  /\ Letters(keyboard, code) = {NL}

\* Enter ends the read that waits, also a read of more characters than the ring holds,
\* and also when the ring is full and drops the end of line itself.
EnterEndsTheRead ==
  [][keyboard.pendingRequest /\ arriving # <<>> /\ arriving' = Tail(arriving)
       /\ IsEnter(Head(arriving)) => ~keyboard'.pendingRequest]_vars

\* The level AltGr is chosen exactly while the right Alt key is down, whatever is
\* done with the left one, whose code is the same but for the mark before it.
AltGrIsRightAlt ==
  arriving = <<>> => (keyboard.altGRPressed <=> "RightAlt" \in held)

=============================================================================
