------------------------------ MODULE MCTerminal ------------------------------
(***************************************************************************)
(* Small instances of Terminal for TLC.                                    *)
(***************************************************************************)
EXTENDS Terminal

MCChars == {NUL, NL, "a"}

\* A letter on the key 30, Enter on 28, nothing on the other keys.
MCTecladoEsp ==
  [code \in 0 .. 83 |->
     [level \in 0 .. 2 |->
        CASE code = 28 -> NL
          [] code = 30 /\ level = 0 -> "a"
          [] OTHER -> NUL]]

\* ... and F12, which is not in the table.
MCKeys      == {28, 30, 88}
MCModifiers == {"LeftAlt", "RightAlt", "CapsLock"}
MCTexts     == {<<"a", NL>>, <<"a", Tab>>}
MCMessages  == {<<"a", Tab, NL>>}

=============================================================================
