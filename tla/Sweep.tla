-------------------------------- MODULE Sweep --------------------------------
(***************************************************************************)
(* What garbage-collect promises, without saying how: it looks at all the  *)
(* objects at once, removes one at a time objects that qualified as it saw *)
(* them (those objects, and not what has taken their name since), and      *)
(* reports success only when it has removed all those that qualified when  *)
(* it looked.  Nobody else deletes or replaces an object here; what others *)
(* create and change is left open.                                         *)
(***************************************************************************)
EXTENDS CSRApi

CONSTANT Qualifies(_, _)   \* the object qualifies at the time

VARIABLES
  seen,     \* name -> the object as last looked at, or NoCSR
  at,       \* when that was
  outcome   \* how the last pass ended

sweepVars == <<apiVars, seen, at, outcome>>

Nothing == [n \in Names |-> NoCSR]

SweepInit ==
  /\ ApiInit
  /\ seen = Nothing /\ at = 0
  /\ outcome = "none"

Look ==
  /\ seen' = store /\ at' = now
  /\ UNCHANGED <<apiVars, outcome>>

(* The pass is over, and what it saw is forgotten.                         *)
Over(how) ==
  /\ seen' = Nothing /\ at' = 0
  /\ outcome' = how

Remove(n) ==
  /\ seen[n] # NoCSR /\ Qualifies(seen[n], now)
  /\ Exists(n) /\ store[n].uid = seen[n].uid
  /\ DeleteCSR(n)
  /\ Over("error") \/ UNCHANGED <<seen, at, outcome>>

Gone(n) == store[n] = NoCSR \/ store[n].uid # seen[n].uid

Finish ==
  /\ \A n \in Names : seen[n] # NoCSR /\ Qualifies(seen[n], at) => Gone(n)
  /\ Over("ok")
  /\ UNCHANGED apiVars

Abort == Over("error") /\ UNCHANGED apiVars

OthersAct ==
  /\ \A n \in Names : Exists(n) => store'[n] # NoCSR /\ store'[n].uid = store[n].uid
  /\ UNCHANGED <<seen, at, outcome>>

SweepNext == Look \/ (\E n \in Names : Remove(n)) \/ Finish \/ Abort \/ OthersAct

SweepSpec == SweepInit /\ [][SweepNext]_sweepVars

=============================================================================
