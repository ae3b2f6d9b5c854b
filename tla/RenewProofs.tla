----------------------------- MODULE RenewProofs -----------------------------
(***************************************************************************)
(* Theorems about Renew, for any threshold, interval, faults and bounds on *)
(* the time a run or a command takes.                                      *)
(***************************************************************************)
EXTENDS Renew, TLAPS

(* The variables ToLoop and RunError determine keep their types.           *)
LoopTypes ==
  /\ rpc \in {"check", "run", "select", "exec"} \cup Ended
  /\ first \in BOOLEAN
  /\ tick \in 0 .. 1
  /\ untilTick \in 1 .. Interval

LEMMA ToLoopType ==
  ASSUME RenewTypeOK, ToLoop
  PROVE  LoopTypes'
<1>1. CASE first
  <2>1. rpc' = "select" /\ first' = FALSE /\ tick' = 0 /\ untilTick' = Interval
    BY <1>1 DEF ToLoop
  <2>2. Interval \in 1 .. Interval
    BY RenewAssumption
  <2>3. tick' \in 0 .. 1 /\ untilTick' \in 1 .. Interval
    BY <2>1, <2>2
  <2>4. rpc' \in {"check", "run", "select", "exec"} \cup Ended
          /\ first' \in BOOLEAN
    BY <2>1
  <2> QED BY <2>3, <2>4 DEF LoopTypes
<1>2. CASE ~first
  BY <1>2 DEF ToLoop, LoopTypes, RenewTypeOK
<1> QED BY <1>1, <1>2

LEMMA RunErrorType ==
  ASSUME RenewTypeOK, RunError
  PROVE  LoopTypes'
<1>1. CASE ToLoop
  BY <1>1, ToLoopType
<1>2. CASE rpc' = "failed" /\ UNCHANGED <<first, tick, untilTick>>
  BY <1>2 DEF LoopTypes, RenewTypeOK, Ended
<1> QED BY <1>1, <1>2 DEF RunError

(* What a run does to its variables keeps their types.                     *)
RunTypes ==
  /\ stage \in {"off", "before", "writing", "after", "done"}
  /\ file \in {"empty", "whole"} /\ match \in BOOLEAN

LEMMA RunType ==
  ASSUME RenewTypeOK, [Run!Next]_runVars
  PROVE  RunTypes'
BY DEF RunTypes, RenewTypeOK, runVars, Run!Next, Run!Begin, Run!Rekey, Run!Truncate,
       Run!Write, Run!Finish, Run!Break

LEMMA RenewTypeInit ==
  ASSUME Init
  PROVE  RenewTypeOK
<1>1. stage = "off" /\ file = "whole" /\ match \in {FALSE, file = "whole"}
  BY DEF Init, Run!Init
<1>2. match \in BOOLEAN
  BY <1>1
<1>3. /\ rpc = "check" /\ first = TRUE /\ left \in Given /\ tick = 0
      /\ untilTick = Interval /\ renewed = 0 /\ age = 0 /\ faults = 0
  BY DEF Init
<1> QED BY <1>1, <1>2, <1>3, RenewAssumption DEF RenewTypeOK, Ended

(* Type correctness: in particular the channels hold one item at most.     *)
THEOREM RenewTypeCorrect == Spec => []RenewTypeOK
<1>1. Init => RenewTypeOK
  BY RenewTypeInit
<1>2. RenewTypeOK /\ [Next]_renewVars => RenewTypeOK'
  <2> SUFFICES ASSUME RenewTypeOK, [Next]_renewVars PROVE RenewTypeOK'
    OBVIOUS
  <2>0. RunTypes'
    <3>1. [Run!Next]_runVars
      BY DEF Next, Renewer, Check, Rekey, Truncate, WriteCert, Finish, Send, TakeTick,
             TakeRenewed, CommandDone, RunFails, CommandFails, Signal, Crash, Dies, Restart,
             TimePasses, renewVars, Run!Next
    <3> QED BY <3>1, RunType
  <2>1. CASE Check
    <3>1. LoopTypes'
      <4>1. CASE RunError \/ ToLoop
        BY <4>1, RunErrorType, ToLoopType
      <4>2. CASE rpc' = "run" /\ UNCHANGED <<first, tick, untilTick>>
        BY <4>2 DEF LoopTypes, RenewTypeOK
      <4> QED BY <2>1, <4>1, <4>2 DEF Check
    <3>2. age' \in Nat /\ UNCHANGED <<left, renewed, faults>>
      BY <2>1 DEF Check, RenewTypeOK
    <3> QED BY <2>0, <3>1, <3>2 DEF LoopTypes, RunTypes, RenewTypeOK
  <2>2. CASE Rekey \/ Truncate \/ WriteCert \/ Finish
    BY <2>0, <2>2, RenewAssumption
    DEF Rekey, Truncate, WriteCert, Finish, RunTypes, RenewTypeOK
  <2>3. CASE Send
    BY <2>0, <2>3, ToLoopType DEF Send, LoopTypes, RunTypes, RenewTypeOK
  <2>4. CASE TakeTick \/ TakeRenewed \/ CommandDone
    BY <2>0, <2>4
    DEF TakeTick, TakeRenewed, CommandDone, AfterCommand, RunTypes, RenewTypeOK, Ended
  <2>5. CASE RunFails
    <3>1. faults' \in Nat /\ UNCHANGED <<left, renewed, age>>
      BY <2>5 DEF RunFails, Fault, RenewTypeOK
    <3>2. LoopTypes'
      BY <2>5, RunErrorType DEF RunFails
    <3> QED BY <2>0, <3>1, <3>2 DEF LoopTypes, RunTypes, RenewTypeOK
  <2>6. CASE CommandFails \/ Crash
    BY <2>0, <2>6 DEF CommandFails, Crash, Dies, Fault, RunTypes, RenewTypeOK, Ended
  <2>7. CASE Signal
    <3>1. faults' \in Nat /\ UNCHANGED <<left, renewed, age>>
      BY <2>7 DEF Signal, Fault, RenewTypeOK
    <3>2. LoopTypes'
      <4>1. CASE RunError
        BY <4>1, RunErrorType
      <4>2. CASE rpc' \in {rpc, "failed", "exited"} /\ UNCHANGED <<first, tick, untilTick>>
        BY <4>2 DEF LoopTypes, RenewTypeOK, Ended
      <4> QED BY <2>7, <4>1, <4>2 DEF Signal, Dies
    <3> QED BY <2>0, <3>1, <3>2 DEF LoopTypes, RunTypes, RenewTypeOK
  <2>8. CASE Restart
    BY <2>0, <2>8, RenewAssumption DEF Restart, RunTypes, RenewTypeOK, Ended
  <2>9. CASE TimePasses
    BY <2>0, <2>9, RenewAssumption DEF TimePasses, Fired, RunTypes, RenewTypeOK
  <2>10. CASE UNCHANGED renewVars
    BY <2>10 DEF renewVars, runVars, RenewTypeOK
  <2> QED BY <2>1, <2>2, <2>3, <2>4, <2>5, <2>6, <2>7, <2>8, <2>9, <2>10 DEF Next, Renewer
<1> QED BY <1>1, <1>2, PTL DEF Spec

-----------------------------------------------------------------------------
(* New certificates live longer than the threshold.                        *)
OutlivesThreshold == \A l \in Lifetimes : l > Threshold

(* A renewal that waits in the channel is of a certificate not yet due: no *)
(* time passes in the select while there is something to receive, and a    *)
(* check of such a certificate starts no run.                              *)
FreshInv ==
  /\ RenewTypeOK
  /\ renewed = 1 => rpc \in {"select", "check"} \cup Ended
  /\ renewed = 1 /\ rpc \notin Ended => file = "whole" /\ left > Threshold
  /\ rpc = "run" /\ stage \in {"after", "done"} => file = "whole" /\ left > Threshold
  /\ rpc = "run" => stage # "off"
  /\ rpc # "run" => stage \in {"off", "done"}

LEMMA FreshInvariant ==
  ASSUME OutlivesThreshold
  PROVE  Spec => []FreshInv
<1>1. Init => FreshInv
  <2> SUFFICES ASSUME Init PROVE FreshInv
    OBVIOUS
  <2>1. rpc = "check" /\ renewed = 0 /\ file = "whole"
    BY DEF Init
  <2>2. stage = "off"
    BY DEF Init, Run!Init
  <2> QED BY <2>1, <2>2, RenewTypeInit DEF FreshInv
<1>2. FreshInv /\ RenewTypeOK' /\ [Next]_renewVars => FreshInv'
  <2> SUFFICES ASSUME FreshInv, RenewTypeOK', [Next]_renewVars PROVE FreshInv'
    OBVIOUS
  <2>0. left \in Nat /\ Threshold \in Nat /\ renewed \in 0 .. 1 /\ renewed' \in 0 .. 1
    BY RenewAssumption DEF FreshInv, RenewTypeOK
  <2>1. CASE Check
    BY <2>0, <2>1 DEF Check, ShouldRenew, RunError, ToLoop, runVars, Run!Begin, FreshInv, Ended
  <2>2. CASE Rekey \/ Truncate \/ Finish
    BY <2>2 DEF Rekey, Truncate, Finish, Run!Rekey, Run!Truncate, Run!Finish, FreshInv, Ended
  <2>3. CASE WriteCert
    BY <2>3, OutlivesThreshold
    DEF WriteCert, Run!Write, OutlivesThreshold, FreshInv, Ended
  <2>4. CASE Send
    BY <2>4 DEF Send, Sending, ToLoop, runVars, FreshInv, Ended
  <2>5. CASE TakeTick \/ TakeRenewed \/ CommandDone
    BY <2>5 DEF TakeTick, TakeRenewed, CommandDone, AfterCommand, runVars, FreshInv, Ended
  <2>6. CASE RunFails
    BY <2>6 DEF RunFails, RunError, ToLoop, Run!Break, FreshInv, Ended
  <2>7. CASE CommandFails \/ Crash
    BY <2>7 DEF CommandFails, Crash, Dies, Run!Break, runVars, FreshInv, Ended
  <2>8. CASE Signal
    BY <2>8 DEF Signal, Dies, RunError, ToLoop, Run!Break, runVars, FreshInv, Ended
  <2>9. CASE Restart
    BY <2>9 DEF Restart, runVars, FreshInv, Ended
  <2>10. CASE TimePasses
    BY <2>0, <2>10 DEF TimePasses, Waits, Sending, runVars, FreshInv, Ended
  <2>11. CASE UNCHANGED renewVars
    BY <2>11 DEF renewVars, runVars, FreshInv
  <2> QED BY <2>1, <2>2, <2>3, <2>4, <2>5, <2>6, <2>7, <2>8, <2>9, <2>10, <2>11
      DEF Next, Renewer
<1> QED BY <1>1, <1>2, RenewTypeCorrect, PTL DEF Spec

(* The loop never sends to a full channel, when new certificates outlive   *)
(* the threshold.                                                          *)
THEOREM RenewNeverBlocks ==
  ASSUME OutlivesThreshold
  PROVE  Spec => []SendNeverBlocks
<1>1. FreshInv => SendNeverBlocks
  BY DEF FreshInv, RenewTypeOK, SendNeverBlocks, Sending, Ended
<1> QED BY <1>1, FreshInvariant, PTL

-----------------------------------------------------------------------------
(* What NeverExpires asks of the configuration: the threshold covers the   *)
(* time to the next check (an interval, or a command that outlasts it) and *)
(* the run, what was found at the start lasts as long as the run, and the  *)
(* process does not end with the first renewal.                            *)
Timely ==
  /\ Interval + RunTicks <= Threshold /\ CommandTicks + RunTicks <= Threshold
  /\ OutlivesThreshold
  /\ \A g \in Given : g > RunTicks
  /\ ~ExitOnRenew

(* The time until the loop, waiting, comes to its next check.              *)
TillCheck == IF tick = 1 THEN 0 ELSE untilTick

(* The time left on the certificate covers what lies ahead of the place    *)
(* the loop stands at, until the file has a new one.  A command that has   *)
(* run for age has not let a tick pass that it does not leave behind.      *)
Covered ==
  /\ rpc \notin Ended
  /\ file = "whole" \/ (rpc = "run" /\ stage = "writing")
  /\ rpc \in {"select", "exec"} => ~first
  /\ rpc = "check" => left > RunTicks
  /\ rpc = "run" /\ stage = "before" => age <= RunTicks /\ left + age > RunTicks
  /\ rpc = "run" /\ stage = "writing" => left > 0
  /\ rpc = "select" => left > RunTicks + TillCheck
  /\ rpc = "exec" => /\ age <= CommandTicks
                     /\ left + age > Threshold
                     /\ TillCheck # 0 => TillCheck + age <= Interval

OnTimeInv == faults = 0 => Covered

(* A loop that waits, with a certificate that is not due, is in time.      *)
LEMMA NotDueCovers ==
  ASSUME Timely, FreshInv', rpc' = "select", ~first', file' = "whole", left' > Threshold
  PROVE  Covered'
<1>1. PICK l \in Nat, u \in 0 .. Interval : l = left' /\ u = TillCheck'
  <2>1. left' \in Nat /\ TillCheck' \in 0 .. Interval
    BY RenewAssumption DEF FreshInv, RenewTypeOK, TillCheck
  <2> QED BY <2>1
<1>2. l > RunTicks + u
  <2>1. l > Threshold
    BY <1>1
  <2>2. Interval + RunTicks <= Threshold
    BY DEF Timely
  <2>3. Interval \in Nat /\ RunTicks \in Nat /\ Threshold \in Nat
    BY RenewAssumption
  <2> QED BY <2>1, <2>2, <2>3
<1>3. left' > RunTicks + TillCheck'
  BY <1>1, <1>2
<1> QED BY <1>3 DEF Covered, Ended

(* How time passes while a step waits.                                     *)
LEMMA TimeStep ==
  ASSUME RenewTypeOK, TimePasses, ~first, tick = 0 \/ rpc = "exec"
  PROVE  /\ left' + 1 >= left
         /\ TillCheck' = (IF TillCheck = 0 THEN 0 ELSE TillCheck - 1)
<1>1. left' + 1 >= left
  BY DEF TimePasses, RenewTypeOK
<1>2. /\ tick \in 0 .. 1 /\ untilTick \in 1 .. Interval /\ Interval \in Nat
      /\ untilTick' = IF untilTick = 1 THEN Interval ELSE untilTick - 1
      /\ tick' = IF untilTick = 1 THEN 1 ELSE tick
  BY RenewAssumption DEF TimePasses, RenewTypeOK, Fired
<1>3. TillCheck' = (IF TillCheck = 0 THEN 0 ELSE TillCheck - 1)
  <2>1. CASE tick = 1
    BY <1>2, <2>1 DEF TillCheck
  <2>2. CASE tick = 0 /\ untilTick = 1
    BY <1>2, <2>2 DEF TillCheck
  <2>3. CASE tick = 0 /\ untilTick # 1
    BY <1>2, <2>3 DEF TillCheck
  <2> QED BY <1>2, <2>1, <2>2, <2>3
<1> QED BY <1>1, <1>3

LEMMA OnTimeStep ==
  ASSUME Timely, FreshInv, OnTimeInv, RenewTypeOK', FreshInv', [Next]_renewVars
  PROVE  OnTimeInv'
<1> SUFFICES ASSUME faults' = 0 PROVE Covered'
  BY DEF OnTimeInv
<1>1. /\ left \in Nat /\ age \in Nat /\ faults \in Nat
      /\ first \in BOOLEAN
      /\ TillCheck \in Nat
      /\ Interval \in Nat /\ Threshold \in Nat /\ RunTicks \in Nat /\ CommandTicks \in Nat
  BY RenewAssumption DEF FreshInv, RenewTypeOK, TillCheck
<1>2. /\ Interval + RunTicks <= Threshold /\ CommandTicks + RunTicks <= Threshold
      /\ ~ExitOnRenew
  BY DEF Timely
\* A step that fails nothing.
<1>3. ASSUME \E f \in {"error", "command", "signal", "crash"} : Fault(f) PROVE FALSE
  BY <1>1, <1>3 DEF Fault
<1>4. faults = 0
  BY <1>3 DEF Next, Renewer, Check, Rekey, Truncate, WriteCert, Finish, Send, TakeTick,
              TakeRenewed, CommandDone, RunFails, CommandFails, Signal, Crash, Restart,
              TimePasses, renewVars
<1>5. Covered
  BY <1>4 DEF OnTimeInv
<1>6. CASE Check
  <2>1. /\ file = "whole" /\ file' = file /\ left' = left /\ left > RunTicks
        /\ stage \in {"off", "done"}
    BY <1>5, <1>6 DEF Check, Covered, FreshInv, runVars, Run!Begin
  <2>2. CASE left > Threshold /\ ToLoop
    BY <2>1, <2>2, NotDueCovers DEF ToLoop
  <2>3. CASE rpc' = "run" /\ stage' = "before" /\ age' = 0
    BY <1>1, <2>1, <2>3 DEF Covered, Ended
  <2> QED BY <1>1, <1>6, <2>1, <2>2, <2>3 DEF Check, ShouldRenew, Run!Begin
<1>7. CASE Rekey \/ Truncate
  <2>1. /\ left' = left /\ age' = age /\ age <= RunTicks /\ left + age > RunTicks
        /\ rpc' = "run"
    BY <1>5, <1>7 DEF Rekey, Truncate, Run!Rekey, Run!Truncate, Covered
  <2>2. (stage' = "before" /\ file' = "whole") \/ stage' = "writing"
    BY <1>5, <1>7 DEF Rekey, Truncate, Run!Rekey, Run!Truncate, Covered
  <2> QED BY <1>1, <2>1, <2>2 DEF Covered, Ended
<1>8. CASE WriteCert \/ Finish
  BY <1>5, <1>8 DEF WriteCert, Finish, Run!Write, Run!Finish, Covered, Ended
<1>9. CASE Send
  BY <1>9, NotDueCovers DEF Send, Sending, ToLoop, runVars, FreshInv
<1>10. CASE TakeTick
  <2>1. /\ rpc' = "check" /\ file = "whole" /\ file' = file
        /\ left' = left /\ left > RunTicks + TillCheck
    BY <1>5, <1>10 DEF TakeTick, runVars, Covered
  <2> QED BY <1>1, <1>5, <1>10, <2>1 DEF TakeTick, Covered, Ended
<1>11. CASE TakeRenewed
  <2>1. /\ file' = "whole" /\ left' = left /\ left > Threshold /\ ~first' /\ age' = 0
        /\ TillCheck' = TillCheck
    BY <1>5, <1>11 DEF TakeRenewed, runVars, FreshInv, Covered, Ended, TillCheck
  <2>2. TillCheck <= Interval
    BY RenewAssumption DEF FreshInv, RenewTypeOK, TillCheck
  <2>3. CASE rpc' = "select"
    BY <2>1, <2>3, NotDueCovers
  <2>4. CASE rpc' = "exec"
    BY <1>1, <2>1, <2>2, <2>4 DEF Covered, Ended
  <2> QED BY <1>2, <1>11, <2>3, <2>4 DEF TakeRenewed, AfterCommand
<1>12. CASE CommandDone
  <2>1. /\ age <= CommandTicks /\ left + age > Threshold
        /\ TillCheck # 0 => TillCheck + age <= Interval
    BY <1>5, <1>12 DEF CommandDone, Covered
  <2>2. left > RunTicks + TillCheck
    BY <1>1, <1>2, <2>1
  <2>3. /\ rpc' = "select" /\ file' = "whole" /\ ~first' /\ left' = left
        /\ TillCheck' = TillCheck
    BY <1>2, <1>5, <1>12 DEF CommandDone, AfterCommand, runVars, Covered, TillCheck
  <2> QED BY <2>2, <2>3 DEF Covered, Ended
<1>13. CASE RunFails \/ CommandFails \/ Signal \/ Crash
  BY <1>3, <1>13 DEF RunFails, CommandFails, Signal, Crash
<1>14. CASE Restart
  BY <1>5, <1>14 DEF Restart, Covered
<1>15. CASE TimePasses
  <2>1. rpc' = rpc /\ file' = file /\ stage' = stage /\ first' = first
    BY <1>15 DEF TimePasses, runVars
  <2>2. left' = (IF left = 0 THEN 0 ELSE left - 1)
    BY <1>15 DEF TimePasses
  <2>3. CASE rpc = "select"
    <3>1. tick = 0 /\ ~first /\ left > RunTicks + TillCheck /\ TillCheck # 0
      BY <1>5, <1>15, <2>3 DEF TimePasses, Waits, Sending, FreshInv, RenewTypeOK, Covered, Ended, TillCheck
    <3>2. TillCheck' = TillCheck - 1
      BY <1>15, <3>1, TimeStep DEF FreshInv
    <3>3. left' > RunTicks + TillCheck'
      BY <1>1, <2>2, <3>1, <3>2
    <3> QED BY <1>5, <2>1, <2>3, <3>3 DEF Covered, Ended
  <2>4. CASE rpc = "run"
    <3>0. stage = "before"
      BY <1>5, <1>15, <2>4 DEF TimePasses, Waits, Sending, FreshInv, Ended
    <3>1. age < RunTicks /\ age' = age + 1 /\ left + age > RunTicks
      BY <1>5, <1>15, <2>4, <3>0 DEF TimePasses, Waits, Sending, Covered, Ended
    <3>2. age' <= RunTicks /\ left' + age' > RunTicks
      BY <1>1, <2>2, <3>1
    <3> QED BY <1>5, <2>1, <2>4, <3>0, <3>2 DEF Covered, Ended
  <2>5. CASE rpc = "exec"
    <3>1. /\ age < CommandTicks /\ age' = age + 1 /\ left + age > Threshold
          /\ TillCheck # 0 => TillCheck + age <= Interval
      BY <1>5, <1>15, <2>5 DEF TimePasses, Waits, Sending, Covered, Ended
    <3>2. TillCheck' = (IF TillCheck = 0 THEN 0 ELSE TillCheck - 1)
      BY <1>5, <1>15, <2>5, TimeStep DEF FreshInv, Covered
    <3>3. age' <= CommandTicks /\ left' + age' > Threshold
      BY <1>1, <1>2, <2>2, <3>1
    <3>4. TillCheck' # 0 => TillCheck' + age' <= Interval
      BY <1>1, <3>1, <3>2
    <3> QED BY <1>5, <2>1, <2>5, <3>3, <3>4 DEF Covered, Ended
  <2>6. rpc # "check" /\ rpc \notin Ended
    BY <1>5, <1>15 DEF TimePasses, Waits, Sending, Covered, Ended
  <2> QED BY <2>3, <2>4, <2>5, <2>6 DEF FreshInv, RenewTypeOK
<1>16. CASE UNCHANGED renewVars
  BY <1>5, <1>16 DEF renewVars, runVars, Covered, TillCheck
<1> QED BY <1>6, <1>7, <1>8, <1>9, <1>10, <1>11, <1>12, <1>13, <1>14, <1>15, <1>16
    DEF Next, Renewer

(* As long as nothing has failed, the certificate the workload reads has   *)
(* not expired, for every interval, duration of a run and of a command     *)
(* that the threshold covers.                                              *)
THEOREM RenewNeverExpires ==
  ASSUME Timely
  PROVE  Spec => []NeverExpires
<1>1. Init => OnTimeInv
  BY DEF Timely, Init, Run!Init, OnTimeInv, Covered, Ended
<1>2. FreshInv /\ OnTimeInv => NeverExpires
  <2> SUFFICES ASSUME FreshInv, Covered, file = "whole" PROVE left > 0
    BY DEF OnTimeInv, NeverExpires
  <2>1. left \in Nat /\ age \in Nat /\ untilTick \in Nat /\ RunTicks \in Nat
          /\ Threshold \in Nat /\ CommandTicks \in Nat
    BY RenewAssumption DEF FreshInv, RenewTypeOK
  <2>2. CommandTicks + RunTicks <= Threshold
    BY DEF Timely
  <2>3. TillCheck \in Nat
    BY <2>1 DEF TillCheck
  <2>4. CASE rpc \in {"check", "select", "exec"}
    BY <2>1, <2>2, <2>3, <2>4 DEF Covered
  <2>5. CASE rpc = "run" /\ stage \in {"before", "writing"}
    BY <2>1, <2>5 DEF Covered
  <2>6. CASE rpc = "run" /\ stage \in {"after", "done"}
    BY <2>1, <2>6 DEF FreshInv
  <2> QED BY <2>4, <2>5, <2>6 DEF FreshInv, RenewTypeOK, Covered
<1>3. Spec => []FreshInv
  BY FreshInvariant DEF Timely
<1> QED BY <1>1, <1>2, <1>3, OnTimeStep, RenewTypeCorrect, PTL DEF Spec

=============================================================================
