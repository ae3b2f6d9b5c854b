-------------------------------- MODULE Renew --------------------------------
(***************************************************************************)
(* kube-csr issue --renew: a process beside the workload that checks the   *)
(* certificate file at every tick and runs the operations of issue when    *)
(* its expiry comes near, then the --renew-command.                        *)
(*                                                                         *)
(* The loop selects on three channels: signals (no buffer), successful     *)
(* renewals (room for one) and ticks (room for one, further ticks are      *)
(* dropped).  A run is any behaviour of RunContract: its steps are the     *)
(* actions of that module, all of them.  Issue has the steps of the code,  *)
(* and keeps the contract.                                                 *)
(*                                                                         *)
(* Time is relative: how long the certificate is still good for, and until *)
(* the next tick.  It passes where the code waits.                         *)
(***************************************************************************)
EXTENDS Naturals

CONSTANTS
  Threshold,     \* --renew-threshold
  Interval,      \* --renew-check-interval
  Lifetimes,     \* time left on a certificate just written
  Given,         \* time left on the certificate found at the start
  HasCommand,    \* a --renew-command is given
  ExitOnRenew,   \* --renew-exit
  Faults,        \* subset of {"error", "command", "signal", "crash"}
  RunTicks,      \* bound on the time a run takes
  CommandTicks,  \* bound on the time the command takes
  MaxFaults      \* bound on the faults

VARIABLES
  rpc,        \* where Renew stands
  first,      \* TRUE until the first processRenew is over
  stage,      \* of the current or last run, as RunContract has it
  file,       \* the certificate file: "whole" or "empty"
  match,      \* the certificate is for the key on disk
  left,       \* time left on the certificate last written, 0 once expired
  tick,       \* ticks waiting in the ticker's channel
  untilTick,  \* time until the next tick
  renewed,    \* renewals waiting in renewedCh
  age,        \* time spent in the current run or command
  faults      \* faults so far

runVars   == <<stage, file, match>>
renewVars == <<rpc, first, runVars, left, tick, untilTick, renewed, age, faults>>

Run == INSTANCE RunContract

ASSUME RenewAssumption ==
  /\ Threshold \in Nat
  /\ Interval \in Nat \ {0}
  /\ Lifetimes \subseteq Nat /\ Given \subseteq Nat
  /\ HasCommand \in BOOLEAN /\ ExitOnRenew \in BOOLEAN
  /\ Faults \subseteq {"error", "command", "signal", "crash"}
  /\ RunTicks \in Nat /\ CommandTicks \in Nat /\ MaxFaults \in Nat

Ended == {"exited", "failed"}

Init ==
  /\ Run!Init /\ file = "whole"
  /\ rpc = "check" /\ first = TRUE
  /\ left \in Given
  /\ tick = 0 /\ untilTick = Interval
  /\ renewed = 0
  /\ age = 0 /\ faults = 0

(* Into the loop; the ticker is made when the first processRenew is over.  *)
ToLoop ==
  /\ rpc' = "select"
  /\ first' = FALSE
  /\ IF first THEN tick' = 0 /\ untilTick' = Interval
              ELSE UNCHANGED <<tick, untilTick>>

(* processRenew returns an error: the first time Renew returns it, later   *)
(* it is counted.                                                          *)
RunError ==
  \/ first /\ rpc' = "failed" /\ UNCHANGED <<first, tick, untilTick>>
  \/ ~first /\ ToLoop

-----------------------------------------------------------------------------
(* Mutants: the threshold is forgotten; an expired certificate is no       *)
(* longer renewed.                                                         *)
ShouldRenew_NoThreshold == left = 0
ShouldRenew_OnlyValid   == left > 0 /\ left <= Threshold
ShouldRenew             == left <= Threshold

Check ==
  /\ rpc = "check"
  /\ \/ file # "whole" /\ RunError /\ UNCHANGED <<runVars, age>>
     \/ file = "whole" /\ ~ShouldRenew /\ ToLoop /\ UNCHANGED <<runVars, age>>
     \/ /\ file = "whole" /\ ShouldRenew
        /\ Run!Begin
        /\ rpc' = "run" /\ age' = 0
        /\ UNCHANGED <<first, tick, untilTick>>
  /\ UNCHANGED <<left, renewed, faults>>

(* The run replaces the key, truncates the certificate file, writes it,    *)
(* and ends.                                                               *)
Rekey ==
  /\ rpc = "run" /\ Run!Rekey
  /\ UNCHANGED <<rpc, first, left, tick, untilTick, renewed, age, faults>>

Truncate ==
  /\ rpc = "run" /\ Run!Truncate
  /\ UNCHANGED <<rpc, first, left, tick, untilTick, renewed, age, faults>>

(* Mutant: what is fetched is the certificate of the previous run.         *)
WriteCert_Previous ==
  /\ rpc = "run" /\ Run!Write
  /\ UNCHANGED <<rpc, first, left, tick, untilTick, renewed, age, faults>>
WriteCert ==
  /\ rpc = "run" /\ Run!Write
  /\ left' \in Lifetimes
  /\ UNCHANGED <<rpc, first, tick, untilTick, renewed, age, faults>>

Finish ==
  /\ rpc = "run" /\ Run!Finish
  /\ UNCHANGED <<rpc, first, left, tick, untilTick, renewed, age, faults>>

(* renewedCh <- struct{}{}: waits while the channel is full.  Mutant: sent *)
(* only to a receiver that waits, and nobody does.                         *)
Sending == rpc = "run" /\ stage = "done"

Send_ToReceiver ==
  /\ Sending
  /\ ToLoop
  /\ UNCHANGED <<runVars, left, renewed, age, faults>>
Send ==
  /\ Sending
  /\ renewed = 0
  /\ renewed' = 1
  /\ ToLoop
  /\ UNCHANGED <<runVars, left, age, faults>>

TakeTick ==
  /\ rpc = "select" /\ tick = 1
  /\ tick' = 0
  /\ rpc' = "check"
  /\ UNCHANGED <<first, runVars, left, untilTick, renewed, age, faults>>

AfterCommand == IF ExitOnRenew THEN "exited" ELSE "select"

TakeRenewed ==
  /\ rpc = "select" /\ renewed = 1
  /\ renewed' = 0
  /\ rpc' = IF HasCommand THEN "exec" ELSE AfterCommand
  /\ age' = 0
  /\ UNCHANGED <<first, runVars, left, tick, untilTick, faults>>

CommandDone ==
  /\ rpc = "exec"
  /\ rpc' = AfterCommand
  /\ UNCHANGED <<first, runVars, left, tick, untilTick, renewed, age, faults>>

-----------------------------------------------------------------------------
Fault(f) ==
  /\ f \in Faults
  /\ faults < MaxFaults
  /\ faults' = faults + 1

(* A step of the run returns an error, wherever the run stands: also the   *)
(* flush of a certificate file it has truncated.                           *)
RunFails ==
  /\ Fault("error")
  /\ rpc = "run" /\ Run!Break
  /\ RunError
  /\ UNCHANGED <<left, renewed, age>>

CommandFails ==
  /\ Fault("command")
  /\ rpc = "exec"
  /\ rpc' = "failed"
  /\ UNCHANGED <<first, runVars, left, tick, untilTick, renewed, age>>

(* The process dies, and its run with it.                                  *)
Dies == rpc' = "failed" /\ (Run!Break \/ (stage \in {"off", "done"} /\ UNCHANGED runVars))

(* SIGINT, SIGTERM.  Fetch has a handler of its own, and makes an error of *)
(* the signal where it waits; the loop hears it where it selects.  Where   *)
(* nobody receives, an installed handler drops it: Fetch's until the file  *)
(* is written, the loop's from the end of the first processRenew on.       *)
(* Without a handler it kills the process.                                 *)
Handled == ~first \/ stage \in {"before", "writing"}

Signal ==
  /\ Fault("signal")
  /\ \/ rpc = "run" /\ stage = "before" /\ Run!Break /\ RunError
     \/ /\ rpc = "select" /\ rpc' = "exited"
        /\ UNCHANGED <<first, runVars, tick, untilTick>>
     \/ /\ rpc \notin {"select"} \cup Ended /\ Handled
        /\ UNCHANGED <<rpc, first, runVars, tick, untilTick>>
     \/ /\ rpc \notin Ended /\ first /\ stage # "writing"
        /\ Dies
        /\ UNCHANGED <<first, tick, untilTick>>
  /\ UNCHANGED <<left, renewed, age>>

Crash ==
  /\ Fault("crash")
  /\ rpc \notin Ended
  /\ Dies
  /\ UNCHANGED <<first, left, tick, untilTick, renewed, age>>

(* The container is started again.                                         *)
Restart ==
  /\ rpc \in Ended
  /\ rpc' = "check" /\ first' = TRUE
  /\ tick' = 0 /\ untilTick' = Interval
  /\ renewed' = 0
  /\ UNCHANGED <<runVars, left, age, faults>>

-----------------------------------------------------------------------------
(* Where time passes: in the select with nothing to receive, in a run that *)
(* waits for its certificate, in a command, in a send to a full channel,   *)
(* and between two runs of the container.                                  *)
Waits ==
  \/ rpc = "select" /\ tick = 0 /\ renewed = 0
  \/ rpc = "run" /\ stage = "before" /\ age < RunTicks
  \/ rpc = "exec" /\ age < CommandTicks
  \/ Sending /\ renewed = 1
  \/ rpc \in Ended

(* The ticker's channel once untilTick has passed.  Mutant: ticks queue.   *)
Fired_Queued == tick + 1
Fired        == 1

TimePasses ==
  /\ Waits
  /\ left' = IF left = 0 THEN 0 ELSE left - 1
  /\ age' = IF (rpc = "run" /\ stage = "before") \/ rpc = "exec" THEN age + 1 ELSE age
  /\ IF first
       THEN UNCHANGED <<tick, untilTick>>
       ELSE /\ untilTick' = IF untilTick = 1 THEN Interval ELSE untilTick - 1
            /\ tick' = IF untilTick = 1 THEN Fired ELSE tick
  /\ UNCHANGED <<rpc, first, runVars, renewed, faults>>

Renewer ==
  \/ Check \/ Rekey \/ Truncate \/ WriteCert \/ Finish \/ Send
  \/ TakeTick \/ TakeRenewed \/ CommandDone

Next ==
  \/ Renewer \/ RunFails \/ CommandFails \/ Signal \/ Crash \/ Restart
  \/ TimePasses

Spec == Init /\ [][Next]_renewVars

(* Every wait of a run is bounded, time goes on, the container restarts,   *)
(* and select picks among ready channels at random.                        *)
FairSpec ==
  /\ Spec
  /\ WF_renewVars(Renewer) /\ WF_renewVars(TimePasses) /\ WF_renewVars(Restart)
  /\ SF_renewVars(TakeRenewed)

-----------------------------------------------------------------------------
(* Every variable keeps its type: neither channel ever holds two items.    *)
RenewTypeOK ==
  /\ rpc \in {"check", "run", "select", "exec"} \cup Ended
  /\ first \in BOOLEAN
  /\ stage \in {"off", "before", "writing", "after", "done"}
  /\ file \in {"empty", "whole"} /\ match \in BOOLEAN
  /\ left \in Nat
  /\ tick \in 0 .. 1 /\ renewed \in 0 .. 1
  /\ untilTick \in 1 .. Interval
  /\ age \in Nat /\ faults \in Nat

(* The loop, which is the only receiver of renewedCh, never sends to it    *)
(* while it is full: that send could never end.                            *)
SendNeverBlocks == Sending => renewed = 0

(* As long as nothing has failed, the certificate the workload reads has   *)
(* not expired: the threshold covers the time to the next check (an        *)
(* interval, or a command that outlasts it) and the run.                   *)
NeverExpires == file = "whole" /\ faults = 0 => left > 0

(* "Command to execute after a successful renew".                          *)
CommandFollowsRenew == Sending ~> rpc = "exec" \/ rpc \in Ended

(* The run broke between the truncation of the certificate file and its    *)
(* write, because the process died there or because the write erred: every *)
(* later check errs on the empty file, and nothing is ever renewed.        *)
Lost == stage = "off" /\ file = "empty"

(* A certificate that comes near its expiry is replaced in the end,        *)
(* whatever goes wrong on the way, unless the file is lost.                *)
RenewedInTheEnd == left <= Threshold ~> left > Threshold \/ Lost

(* "A sidecar to proceed to a periodic renew" (README), without exception. *)
RenewsPeriodically == left <= Threshold ~> left > Threshold

(* A new key on disk without its certificate (the run failed after it      *)
(* generated) gets one in the end, with the same exception.                *)
PairedInTheEnd == ~match ~> match \/ Lost

=============================================================================
