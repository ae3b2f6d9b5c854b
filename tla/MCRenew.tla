------------------------------ MODULE MCRenew -------------------------------
(***************************************************************************)
(* Instances of Renew for TLC.  Timely: the threshold covers the time to   *)
(* the next check (an interval, or a command that outlasts it) and a run,  *)
(* and no more; a new certificate lives longer than it.                    *)
(***************************************************************************)
EXTENDS Renew

Longest(a, b)   == IF a > b THEN a ELSE b
TimelyThreshold == Longest(Interval, CommandTicks) + RunTicks
TimelyLifetimes == {TimelyThreshold + 1, TimelyThreshold + 3}
TimelyGiven     == RunTicks + 1 .. TimelyThreshold + 3
AllFaults       == {"error", "command", "signal", "crash"}
=============================================================================
