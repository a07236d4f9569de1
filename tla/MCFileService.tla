---------------------------- MODULE MCFileService ----------------------------
(***************************************************************************)
(* Small instances of FileService for TLC.                                 *)
(***************************************************************************)
EXTENDS FileService, TLC

MCClients == {7, 8}

\* Both write and read, one of them more than the ring holds.
MCCounts == (7 :> {1}) @@ (8 :> {2})

MCChars   == {"NUL", "NL", "a"}

\* Enter on the key 28, a letter on the others.
MCTecladoEsp ==
  [code \in 0 .. 83 |-> [level \in 0 .. 2 |-> IF code = 28 THEN "NL" ELSE "a"]]

MCKeys == {28, 30}

=============================================================================
