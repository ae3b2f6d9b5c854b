------------------------- MODULE IssueApprovalProofs ------------------------
(***************************************************************************)
(* A run that submits approves its own request and nothing else, however   *)
(* many issuers share the name of its CSR and whatever administrators do.  *)
(***************************************************************************)
EXTENDS IssueProofs

(* An object held in memory is of the past or is what the server has: the  *)
(* versions of an incarnation only grow, and no incarnation comes back.    *)
Snapshot(r, st, next) ==
  /\ r.uid < next
  /\ st # NoCSR /\ st.uid = r.uid => r.rv <= st.rv /\ (r.rv = st.rv => r = st)

(* What a run that submits knows of the object it is to approve.           *)
Submits(i) ==
  Has(i, "submit") =>
    /\ pc[i] # "get"
    /\ pc[i] \in {"replace_delete", "replace_create"} => mem[i] = files[i]["csr"]
    /\ pc[i] = "approve" => obj[i].request = files[i]["csr"] /\ obj[i].conds = << >>

SnapInv ==
  /\ TypeInv
  /\ \A n \in Names : Exists(n) => store[n].uid < nextUid
  /\ \A i \in Issuers : pc[i] \in HoldsObj => Snapshot(obj[i], store[Name(i)], nextUid)
  /\ \A i \in Issuers : Submits(i)

-----------------------------------------------------------------------------
(* Every step of an issuer evolves: it writes back an object only when the *)
(* server still has it.                                                    *)
LEMMA IssuerEvolves ==
  ASSUME TypeInv, NEW i \in Issuers, IssuerStep(i)
  PROVE  Evolves
<1>1. ApiTypeOK /\ Name(i) \in Names /\ Held(pc[i], mem[i], obj[i])
  BY DEF TypeInv, TypeOK, Config, Name
<1>2. UNCHANGED apiVars => Evolves
  BY <1>1, EvolvesBySame DEF apiVars
<1>3. CASE SubmitCreate(i)
  BY <1>1, <1>2, <1>3, EvolvesByCreate DEF SubmitCreate
<1>4. CASE ReplaceDelete(i) \/ Delete(i)
  BY <1>1, <1>2, <1>4, EvolvesByDelete DEF ReplaceDelete, Delete
<1>5. CASE ReplaceCreate(i)
  <2>1. mem[i] \in Keys
    BY <1>1, <1>5 DEF ReplaceCreate, Held, HoldsKey
  <2> QED BY <2>1, <1>1, <1>2, <1>5, EvolvesByCreate DEF ReplaceCreate
<1>6. ASSUME NEW r \in CSR, obj[i] \in CSR, Current(Name(i), obj[i]),
             r.uid = obj[i].uid, r.rv = obj[i].rv, UpdateCSR(Name(i), r)
      PROVE  Evolves
  BY <1>1, <1>6, EvolvesByUpdate DEF Current, Exists, ApiTypeOK
<1>7. CASE ApproveCSR(i)
  <2>1. obj[i] \in CSR
    BY <1>1, <1>7 DEF ApproveCSR, Held, HoldsObj
  <2> QED BY <2>1, <1>2, <1>6, <1>7, ConditionKeeps DEF ApproveCSR
<1>8. CASE UpdateAnnotations(i)
  <2>1. obj[i] \in CSR /\ now \in Nat
    BY <1>1, <1>8 DEF UpdateAnnotations, Held, HoldsObj, HoldsCert, ApiTypeOK
  <2> DEFINE s == [obj[i] EXCEPT !.fetches = obj[i].fetches + 1]
             r == [obj[i] EXCEPT !.fetches = obj[i].fetches + 1, !.fetchedAt = now]
  <2>2. s \in CSR
    BY <2>1 DEF CSR
  <2>3. [s EXCEPT !.fetchedAt = now] \in CSR
    BY <2>1, <2>2 DEF CSR
  <2>4. r \in CSR /\ r.uid = obj[i].uid /\ r.rv = obj[i].rv
    BY <2>1, <2>3 DEF CSR
  <2> HIDE DEF r, s
  <2> QED BY <2>1, <2>4, <1>2, <1>6, <1>8 DEF UpdateAnnotations, r
<1> QED BY <1>2, <1>3, <1>4, <1>5, <1>7, <1>8
    DEF IssuerStep, Work, Start, Query, Generate, OpenFile, FlushCSR, FlushKey, FlushCert,
        GetCSR, FetchTick, FetchTimeout, FetchSignal, TransportError, DiskError, Crash

(* Evolution keeps a snapshot a snapshot.                                  *)
LEMMA SnapshotKept ==
  ASSUME ApiTypeOK, Evolves, NEW n \in Names, NEW r \in CSR, Snapshot(r, store[n], nextUid)
  PROVE  Snapshot(r, store'[n], nextUid')
<1>1. r.uid \in Nat /\ r.rv \in Nat /\ nextUid \in Nat /\ nextUid' \in Nat
  BY DEF CSR, ApiTypeOK, Evolves
<1>2. r.uid < nextUid'
  BY <1>1 DEF Snapshot, Evolves
<1>3. CASE store'[n] = store[n] \/ store'[n] = NoCSR
  BY <1>2, <1>3 DEF Snapshot
<1>4. CASE store'[n] \in CSR /\ store'[n].uid = nextUid
  BY <1>1, <1>2, <1>4 DEF Snapshot
<1>5. CASE /\ store[n] \in CSR /\ store'[n] \in CSR
           /\ store'[n].uid = store[n].uid /\ store'[n].rv = store[n].rv + 1
  <2>1. store[n] # NoCSR /\ store[n].rv \in Nat
    BY <1>5, ApiAssumption DEF CSR
  <2> QED BY <1>1, <1>2, <1>5, <2>1 DEF Snapshot
<1> QED BY <1>3, <1>4, <1>5 DEF Evolves

-----------------------------------------------------------------------------
(* What one step does to the object an issuer holds: it keeps it, or it    *)
(* takes the server's.                                                     *)
LEMMA ObjStep ==
  ASSUME TypeInv, NEW i \in Issuers, IssuerStep(i), pc'[i] \in HoldsObj
  PROVE  \/ pc[i] \in HoldsObj /\ obj'[i] = obj[i] /\ Name(i)' = Name(i)
         \/ obj'[i] = store'[Name(i)'] /\ store'[Name(i)'] # NoCSR
<1>1. TypeInv'
  BY IssuerType
<1>2. /\ Name(i) \in Names /\ ApiTypeOK
      /\ pc \in [Issuers -> Steps] /\ obj \in [Issuers -> CSR \cup {NoCSR}]
  BY DEF TypeInv, TypeOK, Config, Name
<1>3. ASSUME NEW step, NEW k, NEW r, Goto(i, step, k, r) PROVE pc'[i] = step /\ obj'[i] = r
  BY <1>2, <1>3 DEF Goto
<1>4. ~Fail(i)
  BY <1>3 DEF Fail, HoldsObj, HoldsCert
<1>5. conf' = conf => Name(i)' = Name(i)
  BY DEF Name
<1>6. CASE Start(i)
  BY <1>3, <1>6, PhaseSteps DEF Start, HoldsObj, HoldsCert
<1>7. CASE Query(i) \/ Generate(i) \/ FlushCSR(i) \/ FlushKey(i) \/ FlushCert(i)
  BY <1>3, <1>4, <1>7, PhaseSteps
  DEF Query, Generate, FlushCSR, FlushKey, FlushCert, HoldsObj, HoldsCert
<1>8. ASSUME NEW f \in Files, OpenFile(i, f)
      PROVE  pc[i] \in HoldsObj /\ obj'[i] = obj[i] /\ Name(i)' = Name(i)
  BY <1>3, <1>4, <1>5, <1>8 DEF OpenFile, Opening, Flushing, Files, HoldsObj, HoldsCert
<1>9. ASSUME NEW k \in Keys, CreateCSR(Name(i), k), conf' = conf,
             Reply(i, AfterSubmit(conf[i].flags), NoKey, NewCSR(k))
      PROVE  obj'[i] = store'[Name(i)'] /\ store'[Name(i)'] # NoCSR
  <2>1. store'[Name(i)] = NewCSR(k) /\ NewCSR(k) # NoCSR
    BY <1>2, <1>9, EvolvesByCreate, NewCSRType, ApiAssumption
  <2> QED BY <2>1, <1>3, <1>4, <1>5, <1>9 DEF Reply
<1>10. CASE SubmitCreate(i)
  BY <1>3, <1>4, <1>9, <1>10 DEF SubmitCreate, HoldsObj, HoldsCert
<1>11. CASE ReplaceDelete(i) \/ Delete(i)
  BY <1>3, <1>4, <1>11 DEF ReplaceDelete, Delete, Reply, HoldsObj, HoldsCert
<1>12. CASE ReplaceCreate(i)
  <2>1. mem[i] \in Keys
    BY <1>12 DEF ReplaceCreate, TypeInv, Held, HoldsKey
  <2> QED BY <2>1, <1>4, <1>9, <1>12 DEF ReplaceCreate
<1>13. CASE GetCSR(i) \/ FetchTick(i)
  BY <1>3, <1>4, <1>5, <1>13 DEF GetCSR, FetchTick, Exists, apiVars, HoldsObj, HoldsCert
<1>14. CASE ApproveCSR(i)
  BY <1>3, <1>4, <1>14, PhaseSteps DEF ApproveCSR, Reply, HoldsObj, HoldsCert
<1>15. CASE UpdateAnnotations(i)
  BY <1>3, <1>4, <1>5, <1>15 DEF UpdateAnnotations, Reply, HoldsObj, HoldsCert
<1>16. CASE FetchTimeout(i) \/ FetchSignal(i) \/ TransportError(i) \/ DiskError(i) \/ Crash(i)
  BY <1>4, <1>16 DEF FetchTimeout, FetchSignal, TransportError, DiskError, Crash
<1> QED BY <1>6, <1>7, <1>8, <1>10, <1>11, <1>12, <1>13, <1>14, <1>15, <1>16
    DEF IssuerStep, Work

(* A run that submits comes to its approval by its own submission.         *)
LEMMA SubmitsStep ==
  ASSUME TypeInv, NEW i \in Issuers, IssuerStep(i), Submits(i)
  PROVE  Submits(i)'
<1> DEFINE Marked == {"get", "replace_delete", "replace_create", "approve"}
<1>1. /\ pc \in [Issuers -> Steps] /\ mem \in [Issuers -> Keys \cup {NoKey}]
      /\ obj \in [Issuers -> CSR \cup {NoCSR}] /\ conf \in [Issuers -> Config]
      /\ Name(i) \in Names /\ ApiTypeOK
  BY DEF TypeInv, TypeOK, Config, Name
<1>2. ASSUME NEW step, NEW k, NEW r, Goto(i, step, k, r)
      PROVE  pc'[i] = step /\ mem'[i] = k /\ obj'[i] = r
  BY <1>1, <1>2 DEF Goto
<1>3. ASSUME pc'[i] \notin Marked PROVE Submits(i)'
  BY <1>3 DEF Submits
<1>4. ASSUME Fail(i) PROVE Submits(i)'
  BY <1>2, <1>3, <1>4 DEF Fail
<1>5. ASSUME conf' = conf, ~Has(i, "submit") PROVE Submits(i)'
  BY <1>5 DEF Submits, Has
<1>6. ASSUME Has(i, "submit") PROVE AfterGenerate(conf[i].flags) = "create"
  BY <1>6 DEF Has, AfterGenerate
<1>7. CASE Start(i)
  <2>1. PICK c \in Configs[i] : /\ conf' = [conf EXCEPT ![i] = c]
                                /\ Goto(i, FirstStep(c.flags), NoKey, NoCSR)
    BY <1>7 DEF Start
  <2>2. conf'[i] = c /\ pc'[i] = FirstStep(c.flags)
    BY <2>1, <1>1, <1>2
  <2>3. "submit" \in c.flags => FirstStep(c.flags) \in {"query", "generate", "create"}
    BY DEF FirstStep, AfterQuery, AfterGenerate
  <2>4. pc'[i] \notin {"replace_delete", "replace_create", "approve"}
    BY <2>2, PhaseSteps
  <2> QED BY <2>2, <2>3, <2>4 DEF Submits, Has
<1>8. CASE Query(i)
  <2>1. Has(i, "submit") => AfterQuery(conf[i].flags) \in {"generate", "create"}
    BY DEF AfterQuery, AfterGenerate, Has
  <2> QED BY <2>1, <1>2, <1>3, <1>4, <1>5, <1>8 DEF Query
<1>9. CASE Generate(i)
  BY <1>2, <1>3, <1>4, <1>9 DEF Generate
<1>10. ASSUME NEW f \in Files, OpenFile(i, f) PROVE Submits(i)'
  BY <1>2, <1>3, <1>4, <1>10 DEF OpenFile, Flushing, Files
<1>11. CASE FlushCSR(i) \/ FlushKey(i)
  BY <1>2, <1>3, <1>5, <1>6, <1>11 DEF FlushCSR, FlushKey
<1>12. CASE FlushCert(i)
  BY <1>2, <1>3, <1>12, PhaseSteps DEF FlushCert
<1>13. ASSUME NEW k, k = files[i]["csr"], Reply(i, AfterSubmit(conf[i].flags), NoKey, NewCSR(k)),
              UNCHANGED <<conf, files>>
       PROVE  Submits(i)'
  <2>1. CASE Goto(i, AfterSubmit(conf[i].flags), NoKey, NewCSR(k))
    <3>1. pc'[i] \in {"approve", "poll", "delete", "done"} /\ obj'[i] = NewCSR(k)
      BY <1>2, <2>1, PhaseSteps
    <3> QED BY <3>1, <1>13 DEF Submits, NewCSR, Has
  <2> QED BY <2>1, <1>4, <1>13 DEF Reply
<1>14. CASE SubmitCreate(i)
  <2>1. ASSUME Goto(i, "replace_delete", files[i]["csr"], NoCSR), UNCHANGED <<conf, files>>
        PROVE  Submits(i)'
    BY <2>1, <1>2 DEF Submits, Has
  <2> QED BY <2>1, <1>4, <1>13, <1>14 DEF SubmitCreate
<1>15. CASE ReplaceDelete(i)
  <2>1. ASSUME Goto(i, "replace_create", mem[i], NoCSR), UNCHANGED <<conf, files>>
        PROVE  Submits(i)'
    BY <2>1, <1>2, <1>15 DEF ReplaceDelete, Submits, Has
  <2> QED BY <2>1, <1>4, <1>15 DEF ReplaceDelete, Reply
<1>16. CASE ReplaceCreate(i)
  <2>1. CASE Has(i, "submit")
    BY <2>1, <1>4, <1>13, <1>16 DEF ReplaceCreate, Submits
  <2>2. CASE ~Has(i, "submit")
    BY <2>2, <1>5, <1>16 DEF ReplaceCreate
  <2> QED BY <2>1, <2>2
<1>17. CASE GetCSR(i)
  BY <1>5, <1>17 DEF GetCSR, Submits
<1>18. CASE ApproveCSR(i)
  BY <1>2, <1>3, <1>4, <1>18, PhaseSteps DEF ApproveCSR, Reply
<1>19. CASE FetchTick(i)
  BY <1>2, <1>3, <1>4, <1>19 DEF FetchTick
<1>20. CASE UpdateAnnotations(i)
  BY <1>2, <1>3, <1>4, <1>20 DEF UpdateAnnotations, Reply
<1>21. CASE Delete(i)
  BY <1>2, <1>3, <1>4, <1>21 DEF Delete, Reply
<1>22. CASE FetchTimeout(i) \/ FetchSignal(i) \/ TransportError(i) \/ DiskError(i) \/ Crash(i)
  BY <1>4, <1>22 DEF FetchTimeout, FetchSignal, TransportError, DiskError, Crash
<1> QED BY <1>7, <1>8, <1>9, <1>10, <1>11, <1>12, <1>14, <1>15, <1>16, <1>17, <1>18,
          <1>19, <1>20, <1>21, <1>22 DEF IssuerStep, Work

-----------------------------------------------------------------------------
LEMMA SnapIssuer ==
  ASSUME SnapInv, NEW i \in Issuers, IssuerStep(i)
  PROVE  SnapInv'
<1>1. TypeInv /\ TypeInv' /\ Evolves /\ ApiTypeOK
  BY IssuerType, IssuerEvolves DEF SnapInv, TypeInv, TypeOK
<1>2. ASSUME NEW j \in Issuers, j # i
      PROVE  /\ pc'[j] = pc[j] /\ mem'[j] = mem[j] /\ obj'[j] = obj[j]
             /\ files'[j] = files[j] /\ conf'[j] = conf[j]
  BY <1>1, <1>2, OthersUntouched
<1>3. \A n \in Names : store'[n] # NoCSR => store'[n].uid < nextUid'
  BY <1>1, UidsBelow DEF SnapInv
<1>4. ASSUME NEW j \in Issuers, pc'[j] \in HoldsObj
      PROVE  Snapshot(obj'[j], store'[Name(j)'], nextUid')
  <2>1. Name(j) \in Names /\ Name(j)' \in Names
    BY <1>1 DEF TypeInv, TypeOK, Config, Name
  <2>2. CASE pc[j] \in HoldsObj /\ obj'[j] = obj[j] /\ Name(j)' = Name(j)
    <3>1. obj[j] \in CSR /\ Snapshot(obj[j], store[Name(j)], nextUid)
      BY <1>1, <2>2 DEF SnapInv, TypeInv, Held
    <3> QED BY <1>1, <2>1, <2>2, <3>1, SnapshotKept
  <2>3. CASE obj'[j] = store'[Name(j)'] /\ store'[Name(j)'] # NoCSR
    <3>1. store'[Name(j)'] \in CSR
      BY <1>1, <2>1, <2>3 DEF TypeInv, TypeOK, ApiTypeOK
    <3> QED BY <1>3, <2>1, <2>3, <3>1 DEF Snapshot, CSR
  <2>4. j # i => Name(j)' = Name(j)
    BY <1>2 DEF Name
  <2> QED BY <1>1, <1>2, <1>4, <2>2, <2>3, <2>4, ObjStep
<1>5. ASSUME NEW j \in Issuers PROVE Submits(j)'
  <2>1. CASE j = i
    BY <1>1, <2>1, SubmitsStep DEF SnapInv
  <2>2. CASE j # i
    BY <1>2, <2>2 DEF SnapInv, Submits, Has
  <2> QED BY <2>1, <2>2
<1> QED BY <1>1, <1>3, <1>4, <1>5 DEF SnapInv, Exists

LEMMA SnapEnvironment ==
  ASSUME SnapInv, Environment
  PROVE  SnapInv'
<1>1. TypeInv /\ Evolves /\ ApiTypeOK /\ TypeInv'
  BY EnvironmentEvolves, ClusterType DEF Environment, SnapInv, TypeInv, TypeOK
<1>2. \A n \in Names : store'[n] # NoCSR => store'[n].uid < nextUid'
  BY <1>1, UidsBelow DEF SnapInv
<1>3. ASSUME NEW j \in Issuers, pc[j] \in HoldsObj
      PROVE  Snapshot(obj[j], store'[Name(j)], nextUid')
  <2>1. Name(j) \in Names /\ obj[j] \in CSR /\ Snapshot(obj[j], store[Name(j)], nextUid)
    BY <1>1, <1>3 DEF SnapInv, TypeInv, TypeOK, Config, Name, Held
  <2> QED BY <1>1, <2>1, SnapshotKept
<1> QED BY <1>1, <1>2, <1>3 DEF SnapInv, Environment, Name, Exists, Submits, Has

LEMMA SnapInvariant == Spec => []SnapInv
<1>1. Init => SnapInv
  <2>1. ASSUME Init PROVE TypeInv
    BY <2>1, IssueAssumption, ApiAssumption
    DEF Init, ApiInit, TypeInv, TypeOK, ApiTypeOK, Held, HoldsKey, HoldsObj, HoldsCert,
        Steps, Resting
  <2> QED BY <2>1 DEF Init, ApiInit, SnapInv, Exists, Submits, HoldsObj, HoldsCert
<1>2. SnapInv /\ [Next]_vars => SnapInv'
  <2>1. ASSUME SnapInv, UNCHANGED vars PROVE SnapInv'
    BY <2>1 DEF vars, apiVars, SnapInv, TypeInv, TypeOK, ApiTypeOK, Name, Has, Submits, Exists
  <2> QED BY <2>1, SnapIssuer, SnapEnvironment DEF Next
<1> QED BY <1>1, <1>2, PTL DEF Spec

(* Only the approval itself, of the object submitted and untouched since,  *)
(* changes the server while a run leaves its approve step.                 *)
LEMMA ApproveStep ==
  ASSUME SnapInv, NEW i \in Issuers, IssuerStep(i),
         pc[i] = "approve", Has(i, "submit"), store' # store
  PROVE  store[Name(i)].request = files[i]["csr"] /\ store[Name(i)].conds = << >>
<1>1. ApproveCSR(i) /\ Current(Name(i), obj[i])
  BY DEF IssuerStep, Work, Start, Running, Resting, Query, Generate, OpenFile, FlushCSR,
         FlushKey, FlushCert, SubmitCreate, ReplaceDelete, ReplaceCreate, GetCSR,
         ApproveCSR, FetchTick, FetchTimeout, FetchSignal, UpdateAnnotations, Delete,
         TransportError, DiskError, Crash, apiVars, Opening, Flushing, Files
<1>2. Snapshot(obj[i], store[Name(i)], nextUid)
  BY DEF SnapInv, HoldsObj
<1>3. store[Name(i)] = obj[i]
  BY <1>1, <1>2 DEF Snapshot, Current, Exists
<1>4. obj[i].request = files[i]["csr"] /\ obj[i].conds = << >>
  BY DEF SnapInv, Submits
<1> QED BY <1>3, <1>4

(* A run that submits adds the Approved condition only to an object with   *)
(* the request of its CSR file and no condition: no sharing of names makes *)
(* it approve another request, and a denial is never overruled.            *)
THEOREM ApprovalCorrect == Spec => ApprovesWhatItSubmitted
<1> DEFINE Right(i) == store[Name(i)].request = files[i]["csr"] /\ store[Name(i)].conds = << >>
           Approving(i) == pc[i] = "approve" /\ Has(i, "submit") /\ pc'[i] # pc[i] /\ store' # store
<1>1. SnapInv /\ [Next]_vars =>
        [\A i \in Issuers :
           pc[i] = "approve" /\ Has(i, "submit") /\ pc'[i] # pc[i] /\ store' # store =>
             /\ store[Name(i)].request = files[i]["csr"]
             /\ store[Name(i)].conds = << >>]_vars
  <2>1. ASSUME SnapInv, Next, NEW i \in Issuers, Approving(i) PROVE Right(i)
    <3>1. CASE Environment
      BY <2>1, <3>1 DEF Environment
    <3>2. ASSUME NEW j \in Issuers, IssuerStep(j), j # i PROVE FALSE
      <4>1. TypeInv
        BY <2>1 DEF SnapInv
      <4>2. pc'[i] = pc[i]
        BY <3>2, <4>1, OthersUntouched
      <4> QED BY <2>1, <4>2
    <3>3. CASE IssuerStep(i)
      BY <2>1, <3>3, ApproveStep
    <3> QED BY <2>1, <3>1, <3>2, <3>3 DEF Next
  <2> QED BY <2>1
<1> QED BY <1>1, SnapInvariant, PTL DEF Spec, ApprovesWhatItSubmitted

=============================================================================
