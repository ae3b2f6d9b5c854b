----------------------------- MODULE IssueProofs -----------------------------
(***************************************************************************)
(* Theorems about Issue, for any number of issuers, names, keys, faults    *)
(* and runs.                                                               *)
(***************************************************************************)
EXTENDS Issue, CSRApiProofs, TLAPS

(* The steps at which a run holds a key, and an object.                    *)
HoldsKey  == {"open_csr", "flush_csr", "open_key", "flush_key",
              "replace_delete", "replace_create"}
HoldsCert == {"annotate", "open_cert", "flush_cert"}
HoldsObj  == HoldsCert \cup {"approve"}

(* What a process holds when it stands at a step.                          *)
Held(step, k, r) ==
  /\ step \in Steps
  /\ k \in Keys \cup {NoKey}
  /\ r \in CSR \cup {NoCSR}
  /\ step \in HoldsKey => k \in Keys
  /\ step \in HoldsObj => r \in CSR
  /\ step \in HoldsCert => r.cert # NoCert

(* TypeOK is not inductive: a file gets a key only because the run holds   *)
(* one, a certificate only because its object has one.                     *)
TypeInv == TypeOK /\ \A i \in Issuers : Held(pc[i], mem[i], obj[i])

-----------------------------------------------------------------------------
(* The order of the phases: which steps may follow.                        *)
LEMMA PhaseSteps ==
  ASSUME NEW c
  PROVE  /\ AfterFetch(c) \in {"delete", "done"}
         /\ AfterApprove(c) \in {"poll", "delete", "done"}
         /\ AfterSubmit(c) \in {"approve", "poll", "delete", "done"}
         /\ AfterGenerate(c) \in {"create", "get", "poll", "delete", "done"}
         /\ AfterQuery(c) \in {"generate", "create", "get", "poll", "delete", "done"}
         /\ FirstStep(c) \in {"query", "generate", "create", "get", "poll",
                              "delete", "done"}
BY DEF AfterFetch, AfterApprove, AfterSubmit, AfterGenerate, AfterQuery, FirstStep

(* A process that moves to a step holding what the step needs keeps the    *)
(* types of pc, mem and obj.                                               *)
LEMMA GotoHeld ==
  ASSUME TypeInv, NEW i \in Issuers, NEW step, NEW k, NEW r,
         Held(step, k, r), Goto(i, step, k, r)
  PROVE  /\ pc'  \in [Issuers -> Steps]
         /\ mem' \in [Issuers -> Keys \cup {NoKey}]
         /\ obj' \in [Issuers -> CSR \cup {NoCSR}]
         /\ \A j \in Issuers : Held(pc'[j], mem'[j], obj'[j])
BY DEF TypeInv, TypeOK, Held, Goto

-----------------------------------------------------------------------------
(* A failed run holds nothing.                                             *)
LEMMA FailHeld ==
  ASSUME TypeInv, NEW i \in Issuers, Fail(i)
  PROVE  /\ pc'  \in [Issuers -> Steps]
         /\ mem' \in [Issuers -> Keys \cup {NoKey}]
         /\ obj' \in [Issuers -> CSR \cup {NoCSR}]
         /\ \A j \in Issuers : Held(pc'[j], mem'[j], obj'[j])
<1>1. Held("failed", NoKey, NoCSR)
  BY DEF Held, Steps, Resting, HoldsKey, HoldsObj, HoldsCert
<1> QED BY <1>1, GotoHeld DEF Fail

(* The same for a call that was answered, or whose answer was lost.        *)
LEMMA ReplyHeld ==
  ASSUME TypeInv, NEW i \in Issuers, NEW step, NEW k, NEW r,
         Held(step, k, r), Reply(i, step, k, r)
  PROVE  /\ pc'  \in [Issuers -> Steps]
         /\ mem' \in [Issuers -> Keys \cup {NoKey}]
         /\ obj' \in [Issuers -> CSR \cup {NoCSR}]
         /\ \A j \in Issuers : Held(pc'[j], mem'[j], obj'[j])
BY GotoHeld, FailHeld DEF Reply

(* Every step of a run keeps the types.                                    *)
LEMMA IssuerType ==
  ASSUME TypeInv, NEW i \in Issuers, IssuerStep(i)
  PROVE  TypeInv'
<1> USE DEF TypeInv
<1> DEFINE HeldType ==
      /\ pc'  \in [Issuers -> Steps]
      /\ mem' \in [Issuers -> Keys \cup {NoKey}]
      /\ obj' \in [Issuers -> CSR \cup {NoCSR}]
      /\ \A j \in Issuers : Held(pc'[j], mem'[j], obj'[j])
<1>a. \A step \in Steps \ (HoldsKey \cup HoldsObj) : Held(step, NoKey, NoCSR)
  BY DEF Held, HoldsKey, HoldsObj, HoldsCert
<1>b. {"idle", "done", "failed", "query", "generate", "create", "get", "poll", "delete"}
        \subseteq Steps \ (HoldsKey \cup HoldsObj)
  BY DEF Steps, Resting, ApiCalls, HoldsKey, HoldsObj, HoldsCert
<1>c. HoldsKey \cup HoldsObj \subseteq Steps
  BY DEF Steps, ApiCalls, HoldsKey, HoldsObj, HoldsCert, Opening, Flushing, Files
<1>d. Name(i) \in Names
  BY DEF TypeOK, Config, Name, IssueAssumption
<1>e. Held(pc[i], mem[i], obj[i])
  OBVIOUS
<1>f. ASSUME HeldType, UNCHANGED <<conf, files, minted, runs, delivered>>, ApiTypeOK'
      PROVE  TypeInv'
  BY <1>f DEF TypeOK
<1>g. ApiTypeOK /\ (UNCHANGED apiVars => ApiTypeOK')
  BY DEF TypeOK, ApiTypeOK, apiVars
<1>1. CASE Start(i)
  <2>1. PICK c \in Configs[i] : /\ conf' = [conf EXCEPT ![i] = c]
                               /\ Goto(i, FirstStep(c.flags), NoKey, NoCSR)
    BY <1>1 DEF Start
  <2>2. HeldType
    BY <2>1, <1>a, <1>b, PhaseSteps, GotoHeld
  <2>3. conf' \in [Issuers -> Config] /\ \A j \in Issuers : conf'[j] \in Configs[j]
    BY <2>1, IssueAssumption DEF TypeOK
  <2> QED BY <1>1, <1>g, <2>2, <2>3 DEF Start, TypeOK
<1>2. CASE Query(i)
  BY <1>2, <1>a, <1>b, <1>f, <1>g, PhaseSteps, GotoHeld, FailHeld DEF Query
<1>3. CASE Generate(i)
  <2>1. KeyChoices(i) \subseteq Keys
    BY DEF KeyChoices
  <2>2. ASSUME NEW k \in KeyChoices(i), minted' = minted \cup {k},
               Goto(i, "open_csr", k, NoCSR)
        PROVE  HeldType /\ minted' \in SUBSET Keys
    <3>1. Held("open_csr", k, NoCSR)
      BY <2>1, <2>2, <1>c DEF Held, HoldsKey, HoldsObj, HoldsCert
    <3> QED BY <3>1, <2>1, <2>2, GotoHeld DEF TypeOK
  <2>3. ASSUME Fail(i), UNCHANGED minted PROVE HeldType /\ minted' \in SUBSET Keys
    BY <2>3, FailHeld DEF TypeOK
  <2> QED BY <1>3, <1>g, <2>2, <2>3 DEF Generate, TypeOK
<1>4. ASSUME NEW f \in Files, OpenFile(i, f) PROVE TypeInv'
  <2>1. CASE Fail(i) /\ UNCHANGED files
    BY <2>1, <1>4, <1>f, <1>g, FailHeld DEF OpenFile
  <2>2. CASE /\ files' = [files EXCEPT ![i][f] = Truncated]
             /\ Goto(i, Flushing[f], mem[i], obj[i])
    <3>1. Held(Flushing[f], mem[i], obj[i])
      BY <1>4, <1>c, <1>e
      DEF OpenFile, Opening, Flushing, Files, Held, HoldsKey, HoldsObj, HoldsCert
    <3>2. HeldType
      BY <3>1, <2>2, GotoHeld
    <3>3. files' \in [Issuers -> [Files -> Keys \cup {Absent, Truncated}]]
      BY <2>2 DEF TypeOK
    <3> QED BY <1>4, <1>g, <3>2, <3>3 DEF OpenFile, TypeOK
  <2> QED BY <1>4, <2>1, <2>2 DEF OpenFile
<1>5. CASE FlushCSR(i) \/ FlushKey(i)
  <2>1. mem[i] \in Keys
    BY <1>5, <1>e DEF FlushCSR, FlushKey, Flushing, Held, HoldsKey
  <2>2. Held("open_key", mem[i], NoCSR)
    BY <2>1, <1>c DEF Held, HoldsKey, HoldsObj, HoldsCert
  <2>3. Held(AfterGenerate(conf[i].flags), NoKey, NoCSR)
    BY <1>a, <1>b, PhaseSteps
  <2>4. HeldType
    BY <1>5, <2>2, <2>3, GotoHeld DEF FlushCSR, FlushKey
  <2>5. files' \in [Issuers -> [Files -> Keys \cup {Absent, Truncated}]]
    <3>1. PICK f \in Files : files' = [files EXCEPT ![i][f] = mem[i]]
      BY <1>5 DEF FlushCSR, FlushKey, Files
    <3> QED BY <2>1, <3>1 DEF TypeOK
  <2> QED BY <1>5, <1>g, <2>4, <2>5 DEF FlushCSR, FlushKey, TypeOK
<1>6. CASE FlushCert(i)
  <2>1. obj[i] \in CSR /\ obj[i].cert # NoCert
    BY <1>6, <1>e DEF FlushCert, Flushing, Held, HoldsObj, HoldsCert
  <2>2. obj[i].cert.key \in Keys /\ obj[i].uid \in Nat
    BY <2>1 DEF CSR, Certificate
  <2>3. HeldType
    BY <1>6, <1>a, <1>b, PhaseSteps, GotoHeld DEF FlushCert
  <2>4. files' \in [Issuers -> [Files -> Keys \cup {Absent, Truncated}]]
    BY <1>6, <2>2 DEF FlushCert, TypeOK
  <2>5. delivered' \in SUBSET (Nat \X Issuers \X Nat)
    BY <1>6, <2>2 DEF FlushCert, TypeOK
  <2> QED BY <1>6, <1>g, <2>3, <2>4, <2>5 DEF FlushCert, TypeOK
<1>7. CASE SubmitCreate(i)
  <2>1. CASE Fail(i) /\ UNCHANGED apiVars
    BY <2>1, <1>7, <1>f, <1>g, FailHeld DEF SubmitCreate
  <2>2. CASE /\ files[i]["csr"] \in Keys
             /\ CreateCSR(Name(i), files[i]["csr"])
             /\ Reply(i, AfterSubmit(conf[i].flags), NoKey, NewCSR(files[i]["csr"]))
    <3>1. Held(AfterSubmit(conf[i].flags), NoKey, NewCSR(files[i]["csr"]))
      BY <2>2, <1>b, <1>c, <1>g, PhaseSteps, NewCSRType
      DEF Held, HoldsKey, HoldsObj, HoldsCert
    <3> QED BY <3>1, <2>2, <1>7, <1>d, <1>f, <1>g, ReplyHeld, CreateType DEF SubmitCreate
  <2>3. CASE /\ files[i]["csr"] \in Keys
             /\ Goto(i, "replace_delete", files[i]["csr"], NoCSR)
             /\ UNCHANGED apiVars
    <3>1. Held("replace_delete", files[i]["csr"], NoCSR)
      BY <2>3, <1>c DEF Held, HoldsKey, HoldsObj, HoldsCert
    <3> QED BY <3>1, <2>3, <1>7, <1>f, <1>g, GotoHeld DEF SubmitCreate
  <2> QED BY <1>7, <2>1, <2>2, <2>3 DEF SubmitCreate
<1>8. CASE ReplaceDelete(i)
  <2>1. Held("replace_create", mem[i], NoCSR)
    BY <1>8, <1>c, <1>e DEF ReplaceDelete, Held, HoldsKey, HoldsObj, HoldsCert
  <2> QED BY <2>1, <1>8, <1>d, <1>f, <1>g, ReplyHeld, FailHeld, DeleteType DEF ReplaceDelete
<1>9. CASE ReplaceCreate(i)
  <2>1. mem[i] \in Keys
    BY <1>9, <1>e DEF ReplaceCreate, Held, HoldsKey
  <2>2. Held(AfterSubmit(conf[i].flags), NoKey, NewCSR(mem[i]))
    BY <2>1, <1>b, <1>c, <1>g, PhaseSteps, NewCSRType
    DEF Held, HoldsKey, HoldsObj, HoldsCert
  <2> QED BY <2>1, <2>2, <1>9, <1>d, <1>f, <1>g, ReplyHeld, FailHeld, CreateType
      DEF ReplaceCreate
<1>10. CASE GetCSR(i)
  <2>1. ASSUME Exists(Name(i)) PROVE Held("approve", NoKey, store[Name(i)])
    BY <2>1, <1>c, <1>d, <1>g DEF Held, Exists, ApiTypeOK, HoldsKey, HoldsObj, HoldsCert
  <2> QED BY <2>1, <1>10, <1>f, <1>g, GotoHeld, FailHeld DEF GetCSR
<1>11. CASE ApproveCSR(i)
  <2>1. WithCondition(obj[i], "Approved", 0) \in CSR
    BY <1>11, <1>e, ConditionType DEF ApproveCSR, Held, HoldsObj
  <2>2. Held(AfterApprove(conf[i].flags), NoKey, NoCSR)
    BY <1>a, <1>b, PhaseSteps
  <2> QED BY <2>1, <2>2, <1>11, <1>d, <1>f, <1>g, ReplyHeld, FailHeld, UpdateType
      DEF ApproveCSR
<1>12. CASE FetchTick(i)
  <2>1. ASSUME NEW step \in {"annotate", "open_cert"},
               store[Name(i)] # NoCSR, store[Name(i)].cert # NoCert
        PROVE  Held(step, NoKey, store[Name(i)])
    BY <2>1, <1>c, <1>d, <1>g DEF Held, ApiTypeOK, HoldsKey, HoldsObj, HoldsCert
  <2>2. Held("poll", NoKey, NoCSR)
    BY <1>a, <1>b
  <2>3. HeldType
    BY <2>1, <2>2, <1>12, GotoHeld, FailHeld DEF FetchTick
  <2> QED BY <2>3, <1>12, <1>f, <1>g DEF FetchTick
<1>13. CASE FetchTimeout(i) \/ FetchSignal(i) \/ TransportError(i) \/ DiskError(i) \/ Crash(i)
  BY <1>13, <1>f, <1>g, FailHeld DEF FetchTimeout, FetchSignal, TransportError, DiskError, Crash
<1>14. CASE UpdateAnnotations(i)
  <2>1. obj[i] \in CSR /\ Held("open_cert", NoKey, obj[i])
    BY <1>14, <1>c, <1>e DEF UpdateAnnotations, Held, HoldsKey, HoldsObj, HoldsCert
  <2>2. [obj[i] EXCEPT !.fetches = obj[i].fetches + 1, !.fetchedAt = now] \in CSR
    <3>1. obj[i].fetches + 1 \in Nat /\ now \in Nat
      BY <2>1, <1>g DEF CSR, ApiTypeOK
    <3>2. [obj[i] EXCEPT !.fetches = obj[i].fetches + 1] \in CSR
      BY <2>1, <3>1 DEF CSR
    <3>3. [[obj[i] EXCEPT !.fetches = obj[i].fetches + 1] EXCEPT !.fetchedAt = now] \in CSR
      BY <3>1, <3>2 DEF CSR
    <3> QED BY <2>1, <3>3 DEF CSR
  <2> QED BY <2>1, <2>2, <1>14, <1>d, <1>f, <1>g, ReplyHeld, FailHeld, UpdateType
      DEF UpdateAnnotations
<1>15. CASE Delete(i)
  BY <1>15, <1>a, <1>b, <1>d, <1>f, <1>g, ReplyHeld, FailHeld, DeleteType DEF Delete
<1> QED BY <1>1, <1>2, <1>3, <1>4, <1>5, <1>6, <1>7, <1>8, <1>9, <1>10, <1>11, <1>12,
          <1>13, <1>14, <1>15 DEF IssuerStep, Work

(* A step of one issuer touches nothing another issuer owns.               *)
LEMMA OthersUntouched ==
  ASSUME TypeInv, NEW i \in Issuers, IssuerStep(i), NEW j \in Issuers, j # i
  PROVE  /\ pc'[j] = pc[j] /\ mem'[j] = mem[j] /\ obj'[j] = obj[j]
         /\ files'[j] = files[j] /\ conf'[j] = conf[j]
<1>1. /\ pc \in [Issuers -> Steps] /\ mem \in [Issuers -> Keys \cup {NoKey}]
      /\ obj \in [Issuers -> CSR \cup {NoCSR}] /\ conf \in [Issuers -> Config]
      /\ files \in [Issuers -> [Files -> Keys \cup {Absent, Truncated}]]
  BY DEF TypeInv, TypeOK
<1>2. ASSUME NEW step, NEW k, NEW r, Goto(i, step, k, r)
      PROVE  pc'[j] = pc[j] /\ mem'[j] = mem[j] /\ obj'[j] = obj[j]
  BY <1>1, <1>2 DEF Goto
<1>3. pc'[j] = pc[j] /\ mem'[j] = mem[j] /\ obj'[j] = obj[j]
  BY <1>2
  DEF IssuerStep, Work, Start, Query, Generate, OpenFile, FlushCSR, FlushKey, FlushCert,
      SubmitCreate, ReplaceDelete, ReplaceCreate, GetCSR, ApproveCSR, FetchTick,
      FetchTimeout, FetchSignal, UpdateAnnotations, Delete, TransportError, DiskError, Crash,
      Reply, Fail
<1>4. files'[j] = files[j] /\ conf'[j] = conf[j]
  BY <1>1
  DEF IssuerStep, Work, Start, Query, Generate, OpenFile, FlushCSR, FlushKey, FlushCert,
      SubmitCreate, ReplaceDelete, ReplaceCreate, GetCSR, ApproveCSR, FetchTick,
      FetchTimeout, FetchSignal, UpdateAnnotations, Delete, TransportError, DiskError, Crash
<1> QED BY <1>3, <1>4

(* Every variable keeps its type, whatever the configurations and faults.  *)
THEOREM TypeCorrect == Spec => []TypeOK
<1>1. Init => TypeInv
  BY IssueAssumption, ApiAssumption
  DEF Init, ApiInit, TypeInv, TypeOK, ApiTypeOK, Held, HoldsKey, HoldsObj, HoldsCert,
      Steps, Resting
<1>2. TypeInv /\ [Next]_vars => TypeInv'
  <2>1. ASSUME TypeInv, Environment PROVE TypeInv'
    BY <2>1, ClusterType DEF Environment, TypeInv, TypeOK
  <2>2. ASSUME TypeInv, UNCHANGED vars PROVE TypeInv'
    BY <2>2 DEF vars, apiVars, TypeInv, TypeOK, ApiTypeOK
  <2> QED BY <2>1, <2>2, IssuerType DEF Next
<1>3. TypeInv => TypeOK
  BY DEF TypeInv
<1> QED BY <1>1, <1>2, <1>3, PTL DEF Spec

=============================================================================
