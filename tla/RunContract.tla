----------------------------- MODULE RunContract -----------------------------
(***************************************************************************)
(* What a run of Operation.Run that fetches may do to the certificate file *)
(* and to the key that goes with it, as seen by whoever started it.  Issue *)
(* has the steps that keep this contract; in Renew a run is any run that   *)
(* the contract allows.                                                    *)
(*                                                                         *)
(* Files change only while a run is on.  Until it has the certificate, the *)
(* run leaves the file as it was, but it may replace the key.  Then it     *)
(* truncates the file, and writes what goes with the key.  It may stop at  *)
(* any point: before the truncation it leaves the old certificate, between *)
(* the truncation and the write (the process dies, or the write errs) an   *)
(* empty file.                                                             *)
(***************************************************************************)
VARIABLES
  stage,  \* of the run: "before" the file is opened, "writing" it, "after";
          \* or "done": it returned nil; "off": none yet, it erred or it died
  file,   \* "absent", "empty" or "whole"
  match   \* the certificate in the file is for the key

contractVars == <<stage, file, match>>

Init ==
  /\ stage = "off"
  /\ file \in {"absent", "empty", "whole"}
  /\ match \in {FALSE, file = "whole"}

Begin ==
  /\ stage \in {"off", "done"} /\ stage' = "before"
  /\ UNCHANGED <<file, match>>

Rekey ==
  /\ stage = "before" /\ match' = FALSE
  /\ UNCHANGED <<stage, file>>

Truncate ==
  /\ stage = "before" /\ stage' = "writing"
  /\ file' = "empty" /\ match' = FALSE

(* Nothing may be left to do.                                              *)
Write ==
  /\ stage = "writing" /\ stage' \in {"after", "done"}
  /\ file' = "whole" /\ match' = TRUE

Finish ==
  /\ stage = "after" /\ stage' = "done"
  /\ UNCHANGED <<file, match>>

(* An error, or the death of the process.                                  *)
Break ==
  /\ stage \in {"before", "writing", "after"} /\ stage' = "off"
  /\ UNCHANGED <<file, match>>

Next == Begin \/ Rekey \/ Truncate \/ Write \/ Finish \/ Break

Spec == Init /\ [][Next]_contractVars

=============================================================================
