---------------------------- MODULE MCClockServer ----------------------------
(***************************************************************************)
(* Small instances of ClockServer for TLC.                                 *)
(***************************************************************************)
EXTENDS ClockServer, TLC

\* More sleepers than entries.
MCSleepers == {5, 6, 7}

\* Two ticks, of which one may be partial; the lowest int, as an unsigned number,
\* from which 50 cannot be taken; and one tick.
MCRequests == (5 :> {60}) @@ (6 :> {64}) @@ (7 :> {40})

\* One thread that asks for two whole ticks.
MCOneSleeper == {5}
MCTwoTicks   == (5 :> {100})

=============================================================================
