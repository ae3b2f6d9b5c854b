------------------------------ MODULE Operation ------------------------------
(***************************************************************************)
(* The order of the steps of Operation.Run, for a process that has the     *)
(* operations c: Issue takes them as single calls, Cmd as wholes.          *)
(***************************************************************************)

(* Operation.Run: the step that follows each phase under flags c.          *)
(* Mutant: after a submit, the object to approve is read again by name.    *)
AfterFetch(c)    == IF "delete" \in c THEN "delete" ELSE "done"
AfterApprove(c)  == IF "fetch" \in c THEN "poll" ELSE AfterFetch(c)
AfterSubmit_ByName(c) == IF "approve" \in c THEN "get" ELSE AfterApprove(c)
AfterSubmit(c)   == IF "approve" \in c THEN "approve" ELSE AfterApprove(c)
AfterGenerate(c) == IF "submit" \in c THEN "create"
                    ELSE IF "approve" \in c THEN "get" ELSE AfterApprove(c)
AfterQuery(c)    == IF "generate" \in c THEN "generate" ELSE AfterGenerate(c)
FirstStep(c)     == IF "query" \in c THEN "query" ELSE AfterQuery(c)

=============================================================================
