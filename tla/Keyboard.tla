------------------------------ MODULE Keyboard ------------------------------
(***************************************************************************)
(* The keyboard half of the console driver (Kernel/console.c): scan codes, *)
(* the modifier keys, the ring of characters typed ahead, and the one read *)
(* that may wait for them. Operators on the record `keyboard`, to which    *)
(* the other static variables of the driver are added; the modules of the  *)
(* threads and of the screen use them.                                     *)
(***************************************************************************)
EXTENDS Integers, Sequences

CONSTANTS SIZE_BUFFER_TECLADO,   \* slots of the ring, one of them never used
          tecladoEsp,            \* a character for each scan code and level
          Chars                  \* all characters

NUL    == "NUL"
NL     == "NL"

\* 84 rows of 3 levels.
Tables == [0 .. 83 -> [0 .. 2 -> Chars]]

ASSUME KeyboardAssumption ==
  /\ SIZE_BUFFER_TECLADO \in Nat \ {0, 1}
  /\ {NUL, NL} \subseteq Chars
  /\ tecladoEsp \in Tables

\* Scan codes with a meaning of their own; a key that is released sends its code
\* with bit 7 set, and some keys send Special first.
Shifts   == {42, 54}
Alt      == 56
CapsLock == 58
Control  == 29
Special  == 224
Released(code) == code + 128

Slots == 0 .. SIZE_BUFFER_TECLADO - 1

InitializeKeyboard ==
  [shiftPressed |-> FALSE, altGRPressed |-> FALSE, capsOn |-> FALSE,
   unaEspecial |-> FALSE, front |-> 0, end |-> 0, count |-> 0,
   cola |-> [s \in Slots |-> NUL],
   eofFile |-> FALSE, pendingRequest |-> FALSE, wanted |-> 0]

Contents(k) ==
  [n \in 1 .. k.count |-> k.cola[(k.front + n - 1) % SIZE_BUFFER_TECLADO]]

-----------------------------------------------------------------------------

\* Shift and caps lock cancel each other; AltGr wins.
Level(k) == IF k.altGRPressed THEN 2
            ELSE IF k.shiftPressed # k.capsOn THEN 1 ELSE 0

\* The table ends before the codes that are looked up in it do: what is read
\* beyond its end is whatever follows it.
Letters(k, code) ==
  IF code \in DOMAIN tecladoEsp THEN {tecladoEsp[code][Level(k)]} ELSE Chars

\* Mutant: a full ring is written to as well.
HasRoomAlways(k) == TRUE

HasRoom(k) == (k.end + 1) % SIZE_BUFFER_TECLADO # k.front

\* Mutant: the flag follows the last key that is stored.
StoreAndFlag(k, letra) ==
  IF HasRoom(k)
  THEN [k EXCEPT !.eofFile = (letra = NL),
                 !.cola[k.end] = letra,
                 !.end = (k.end + 1) % SIZE_BUFFER_TECLADO,
                 !.count = k.count + 1]
  ELSE k

\* The flag follows the last key, also one that is not stored.
Store(k, letra) ==
  LET seen == [k EXCEPT !.eofFile = (letra = NL)]
  IN  IF HasRoom(k)
      THEN [seen EXCEPT !.cola[k.end] = letra,
                        !.end = (k.end + 1) % SIZE_BUFFER_TECLADO,
                        !.count = k.count + 1]
      ELSE seen

\* Mutant: the mark of a special key stays until the next special key.
PlainAlways(k, code) == k

\* `if (code != 0xe0) keyboard.unaEspecial = 0`, at the end.
Plain(k, code) == IF code = Special THEN k ELSE [k EXCEPT !.unaEspecial = FALSE]

\* The state and the character to echo that one scan code may lead to.
Quietly(k) == {[keyboard |-> k, echo |-> <<>>]}

Translated(k, code) ==
  CASE code \in Shifts -> Quietly([k EXCEPT !.shiftPressed = TRUE])
    [] code - 128 \in Shifts -> Quietly([k EXCEPT !.shiftPressed = FALSE])
    [] code = Special -> Quietly([k EXCEPT !.unaEspecial = TRUE])
    [] code = Alt -> Quietly([k EXCEPT !.altGRPressed = @ \/ k.unaEspecial])
    [] code = Released(Alt) -> Quietly([k EXCEPT !.altGRPressed = @ /\ ~k.unaEspecial])
    [] code = Released(CapsLock) -> Quietly([k EXCEPT !.capsOn = ~@])
    [] code = Control -> Quietly(k)
    [] code \in 0 .. 128 \ (Shifts \union {Alt, Control}) ->
         {[keyboard |-> Store(k, letra),
           echo     |-> IF HasRoom(k) THEN <<letra>> ELSE <<>>] : letra \in Letters(k, code)}
    [] OTHER -> Quietly(k)

readKeyboard(k, code) ==
  {[t EXCEPT !.keyboard = Plain(@, code)] : t \in Translated(k, code)}

-----------------------------------------------------------------------------
(* A read takes what it asks for, or what there is when Enter was the last *)
(* key.                                                                    *)

Request(k, wanted) == [k EXCEPT !.pendingRequest = TRUE, !.wanted = wanted]

\* Mutant: as if a read never took less than it asks for.
CanAnswerFull(k) == k.pendingRequest /\ k.wanted <= k.count

CanAnswer(k) == k.pendingRequest /\ (k.wanted <= k.count \/ k.eofFile)

Taken(k) == IF k.wanted < k.count THEN k.wanted ELSE k.count

Answer(k) == SubSeq(Contents(k), 1, Taken(k))

\* The slots that are free again show NUL here; nobody reads them before they are
\* written.
Freed(k, n) ==
  [s \in Slots |-> IF (s - k.front) % SIZE_BUFFER_TECLADO < n THEN NUL ELSE k.cola[s]]

Answered(k) ==
  [k EXCEPT !.front = (k.front + Taken(k)) % SIZE_BUFFER_TECLADO,
            !.cola = Freed(k, Taken(k)),
            !.count = k.count - Taken(k),
            !.pendingRequest = FALSE,
            !.wanted = 0,
            !.eofFile = FALSE]

\* TryAnswerRequest, but for the message.
TryAnswerRequest(k) == IF CanAnswer(k) THEN Answered(k) ELSE k

=============================================================================
