------------------------------ MODULE MCIssue -------------------------------
(***************************************************************************)
(* Instances of Issue for TLC: the command lines of the documentation, the *)
(* examples and the end-to-end test, as configurations.                    *)
(***************************************************************************)
EXTENDS Issue, TLC

CONSTANTS i1, i2, n1, n2, k1, k2, k3, k4

(* -gsaf, the same with a loaded key, and with the approval left to others *)
Issue_gsaf == {"generate", "submit", "approve", "fetch", "annotate"}
Issue_load == Issue_gsaf \cup {"load"}
Issue_gsf  == Issue_gsaf \ {"approve"}
Issue_q    == Issue_gsaf \cup {"query"}

On(n, flagSets) == [name : {n}, flags : flagSets]
Override(S)     == S \cup {"override"}

(* One issuer that always runs all steps, in every variant.                *)
OneIssuer == {i1}
OneName   == {n1}
WholeRuns ==
  [i \in OneIssuer |->
     On(n1, {Override(Issue_gsaf), Override(Issue_load), Override(Issue_gsf),
             Override(Issue_q), Issue_gsaf})]

(* One issuer under a restart policy.                                      *)
RestartedRuns == [i \in OneIssuer |-> On(n1, {Override(Issue_gsaf)})]

(* Two issuers that share a CSR name: one runs all steps, the other runs   *)
(* all, only approves and fetches, or only deletes.                        *)
TwoIssuers == {i1, i2}
SharedName ==
  [i \in TwoIssuers |->
     IF i = i1 THEN On(n1, {Override(Issue_gsaf)})
     ELSE On(n1, {Override(Issue_gsaf), {"delete"},
                  Override({"approve", "fetch", "annotate"})})]

FourKeys  == {k1, k2, k3, k4}
ThreeKeys == {k1, k2, k3}
KeySymmetry == Permutations(FourKeys) \cup Permutations(ThreeKeys)
=============================================================================
