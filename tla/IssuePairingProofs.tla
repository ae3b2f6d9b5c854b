------------------------- MODULE IssuePairingProofs -------------------------
(***************************************************************************)
(* Where CSR names are not shared and every run generates, submits and     *)
(* fetches, a run that reports success leaves files that belong together,  *)
(* and every step of a run keeps the contract of RunContract, from whose   *)
(* actions the runs in Renew are made.  This holds whatever crashes, lost  *)
(* answers, timeouts and administrators do.                                *)
(***************************************************************************)
EXTENDS IssueProofs

OwnNames ==
  \A i, j \in Issuers : i # j =>
    \A c \in Configs[i], d \in Configs[j] : c.name # d.name

OnlyWholeRuns ==
  \A i \in Issuers : \A c \in Configs[i] : {"generate", "submit", "fetch"} \subseteq c.flags

Generated == {"create", "replace_delete", "replace_create", "poll", "delete", "done"}
               \cup HoldsObj
Submitted == {"poll"} \cup HoldsObj

(* How the key k in memory, the object r in memory, the files fs and the   *)
(* object st of the server agree when a run stands at a step.              *)
Agree(step, k, r, fs, st, load) ==
  /\ step # "get"
  /\ step \in {"open_csr", "flush_csr"} /\ load => fs["key"] = k
  /\ step \in {"open_key", "flush_key"} => fs["csr"] = k
  /\ step \in Generated => fs["csr"] \in Keys /\ fs["key"] = fs["csr"]
  /\ step \in {"replace_delete", "replace_create"} => k = fs["csr"]
  /\ step \in Submitted /\ st # NoCSR => st.request = fs["csr"]
  /\ step \in HoldsObj =>
       r.request = fs["csr"] /\ (r.cert # NoCert => r.cert.key = r.request)
  /\ step \in {"delete", "done"} => fs["cert"] = fs["key"]

(* A certificate is for the request of its object.                         *)
SignedRight(st) == st # NoCSR /\ st.cert # NoCert => st.cert.key = st.request

PairInv ==
  /\ TypeInv
  /\ \A n \in Names : SignedRight(store[n])
  /\ \A i \in Issuers :
       Agree(pc[i], mem[i], obj[i], files[i], store[Name(i)], Has(i, "load"))

-----------------------------------------------------------------------------
(* The phases a run that generates, submits and fetches goes through.      *)
LEMMA WholePhases ==
  ASSUME NEW c, {"generate", "submit", "fetch"} \subseteq c
  PROVE  /\ AfterApprove(c) = "poll"
         /\ AfterSubmit(c) \in {"approve", "poll"}
         /\ AfterGenerate(c) = "create"
         /\ AfterQuery(c) = "generate"
         /\ FirstStep(c) \in {"query", "generate"}
BY DEF AfterApprove, AfterSubmit, AfterGenerate, AfterQuery, FirstStep

LEMMA PairIssuer ==
  ASSUME OwnNames, OnlyWholeRuns, PairInv, NEW i \in Issuers, IssuerStep(i)
  PROVE  PairInv'
<1> DEFINE c == conf[i].flags
           st == store[Name(i)]
           load == Has(i, "load")
<1>1. TypeInv /\ TypeInv'
  BY IssuerType DEF PairInv
<1>2. Agree(pc[i], mem[i], obj[i], files[i], st, load) /\ Held(pc[i], mem[i], obj[i])
  BY <1>1 DEF PairInv, TypeInv
<1>3. Name(i) \in Names /\ SignedRight(st)
  BY <1>1 DEF TypeInv, TypeOK, Config, Name, PairInv
<1>4. /\ {"generate", "submit", "fetch"} \subseteq c
      /\ \A j \in Issuers : j # i => Name(j) # Name(i)
  BY <1>1 DEF TypeInv, TypeOK, OnlyWholeRuns, OwnNames, Name
<1>5. files \in [Issuers -> [Files -> Keys \cup {Absent, Truncated}]]
  BY <1>1 DEF TypeInv, TypeOK
\* It is enough that the issuer's own parts agree after the step.
<1>6. ASSUME NEW step, NEW k, NEW r, NEW fs, NEW st1,
             Goto(i, step, k, r), conf' = conf,
             files'[i] = fs, \A j \in Issuers : j # i => files'[j] = files[j],
             store'[Name(i)] = st1, \A n \in Names : n # Name(i) => store'[n] = store[n],
             SignedRight(st1), Agree(step, k, r, fs, st1, load)
      PROVE  PairInv'
  <2>1. \A n \in Names : SignedRight(store'[n])
    BY <1>6 DEF PairInv
  <2>2. pc'[i] = step /\ mem'[i] = k /\ obj'[i] = r
    BY <1>1, <1>6 DEF Goto, TypeInv, TypeOK
  <2>3. ASSUME NEW j \in Issuers, j # i
        PROVE  /\ pc'[j] = pc[j] /\ mem'[j] = mem[j] /\ obj'[j] = obj[j]
               /\ files'[j] = files[j] /\ store'[Name(j)] = store[Name(j)]
    <3>1. Name(j) \in Names
      BY <1>1 DEF TypeInv, TypeOK, Config, Name
    <3> QED BY <1>1, <1>4, <1>6, <2>3, <3>1 DEF Goto, TypeInv, TypeOK
  <2>4. \A j \in Issuers :
          Agree(pc'[j], mem'[j], obj'[j], files'[j], store'[Name(j)], Has(j, "load"))
    BY <1>6, <2>2, <2>3 DEF PairInv
  <2>5. \A j \in Issuers : Name(j)' = Name(j) /\ Has(j, "load")' = Has(j, "load")
    BY <1>6 DEF Name, Has
  <2> QED BY <1>1, <2>1, <2>4, <2>5 DEF PairInv
\* A failed run promises nothing.
<1>7. ASSUME NEW st1, Fail(i), conf' = conf, files' = files,
             store'[Name(i)] = st1, \A n \in Names : n # Name(i) => store'[n] = store[n],
             SignedRight(st1)
      PROVE  PairInv'
  <2>1. Agree("failed", NoKey, NoCSR, files[i], st1, load)
    BY DEF Agree, Generated, Submitted, HoldsObj, HoldsCert
  <2> QED BY <1>6, <1>7, <2>1 DEF Fail
<1>8. ASSUME Fail(i), UNCHANGED <<apiVars, conf, files>> PROVE PairInv'
  BY <1>3, <1>7, <1>8 DEF apiVars
\* A step that leaves the files and the server alone.
<1>9. ASSUME NEW step, NEW k, NEW r, Goto(i, step, k, r),
             UNCHANGED <<apiVars, conf, files>>, Agree(step, k, r, files[i], st, load)
      PROVE  PairInv'
  BY <1>3, <1>6, <1>9 DEF apiVars
<1>10. CASE Start(i)
  <2>1. PICK d \in Configs[i] : /\ conf' = [conf EXCEPT ![i] = d]
                                /\ Goto(i, FirstStep(d.flags), NoKey, NoCSR)
    BY <1>10 DEF Start
  <2>2. FirstStep(d.flags) \in {"query", "generate"}
    BY WholePhases DEF OnlyWholeRuns
  <2>3. ASSUME NEW x, NEW b
        PROVE  Agree(FirstStep(d.flags), NoKey, NoCSR, files[i], x, b)
    BY <2>2 DEF Agree, Generated, Submitted, HoldsObj, HoldsCert
  <2>4. ASSUME NEW j \in Issuers
        PROVE  Agree(pc'[j], mem'[j], obj'[j], files'[j], store'[Name(j)'], Has(j, "load")')
    <3>1. CASE j = i
      BY <1>1, <1>10, <2>1, <2>3, <3>1 DEF Start, Goto, TypeInv, TypeOK
    <3>2. CASE j # i
      BY <1>1, <1>10, <2>1, <3>2
      DEF Start, Goto, TypeInv, TypeOK, PairInv, Name, Has, apiVars
    <3> QED BY <3>1, <3>2
  <2> QED BY <1>1, <1>10, <2>4 DEF Start, PairInv, apiVars
<1>11. CASE Query(i)
  <2>1. Agree(AfterQuery(c), NoKey, NoCSR, files[i], st, load)
    BY <1>4, WholePhases DEF Agree, Generated, Submitted, HoldsObj, HoldsCert
  <2> QED BY <1>8, <1>9, <1>11, <2>1 DEF Query
<1>12. CASE Generate(i)
  <2>1. ASSUME NEW k \in KeyChoices(i)
        PROVE  Agree("open_csr", k, NoCSR, files[i], st, load)
    BY DEF KeyChoices, Agree, Generated, Submitted, HoldsObj, HoldsCert
  <2> QED BY <1>8, <1>9, <1>12, <2>1 DEF Generate
<1>13. ASSUME NEW f \in Files, OpenFile(i, f) PROVE PairInv'
  <2>1. CASE Fail(i) /\ UNCHANGED files
    BY <1>8, <1>13, <2>1 DEF OpenFile
  <2>2. CASE /\ files' = [files EXCEPT ![i][f] = Truncated]
             /\ Goto(i, Flushing[f], mem[i], obj[i])
    <3>1. Agree(Flushing[f], mem[i], obj[i], [files[i] EXCEPT ![f] = Truncated], st, load)
      BY <1>2, <1>5, <1>13
      DEF OpenFile, Opening, Flushing, Files, Agree, Generated, Submitted, HoldsObj, HoldsCert
    <3>2. /\ files'[i] = [files[i] EXCEPT ![f] = Truncated]
          /\ \A j \in Issuers : j # i => files'[j] = files[j]
      BY <1>5, <2>2
    <3> QED BY <1>3, <1>6, <1>13, <2>2, <3>1, <3>2 DEF OpenFile, apiVars
  <2> QED BY <1>13, <2>1, <2>2 DEF OpenFile
<1>14. CASE FlushCSR(i)
  <2>1. mem[i] \in Keys /\ (load => files[i]["key"] = mem[i])
    BY <1>2, <1>14 DEF FlushCSR, Flushing, Held, HoldsKey, Agree
  <2>2. /\ files'[i] = [files[i] EXCEPT !["csr"] = mem[i]]
        /\ \A j \in Issuers : j # i => files'[j] = files[j]
    BY <1>5, <1>14 DEF FlushCSR
  <2>3. files'[i]["csr"] = mem[i] /\ files'[i]["key"] = files[i]["key"]
    BY <1>5, <2>2 DEF Files
  <2>4. load => Agree("create", NoKey, NoCSR, files'[i], st, load)
    BY <2>1, <2>3 DEF Agree, Generated, Submitted, HoldsObj, HoldsCert
  <2>5. Agree("open_key", mem[i], NoCSR, files'[i], st, load)
    BY <2>3 DEF Agree, Generated, Submitted, HoldsObj, HoldsCert
  <2> QED BY <1>3, <1>4, <1>6, <1>14, <2>2, <2>4, <2>5, WholePhases DEF FlushCSR, apiVars
<1>15. CASE FlushKey(i)
  <2>1. mem[i] \in Keys /\ files[i]["csr"] = mem[i]
    BY <1>2, <1>15 DEF FlushKey, Flushing, Held, HoldsKey, Agree
  <2>2. /\ files'[i] = [files[i] EXCEPT !["key"] = mem[i]]
        /\ \A j \in Issuers : j # i => files'[j] = files[j]
    BY <1>5, <1>15 DEF FlushKey
  <2>3. files'[i]["key"] = mem[i] /\ files'[i]["csr"] = files[i]["csr"]
    BY <1>5, <2>2 DEF Files
  <2>4. Agree("create", NoKey, NoCSR, files'[i], st, load)
    BY <2>1, <2>3 DEF Agree, Generated, Submitted, HoldsObj, HoldsCert
  <2> QED BY <1>3, <1>4, <1>6, <1>15, <2>2, <2>4, WholePhases DEF FlushKey, apiVars
<1>16. CASE FlushCert(i)
  <2>1. /\ files[i]["csr"] \in Keys /\ files[i]["key"] = files[i]["csr"]
        /\ obj[i].cert.key = files[i]["csr"]
    BY <1>2, <1>16
    DEF FlushCert, Flushing, Agree, Held, Generated, HoldsObj, HoldsCert
  <2>2. /\ files'[i] = [files[i] EXCEPT !["cert"] = obj[i].cert.key]
        /\ \A j \in Issuers : j # i => files'[j] = files[j]
    BY <1>5, <1>16 DEF FlushCert
  <2>3. /\ files'[i]["cert"] = obj[i].cert.key
        /\ files'[i]["key"] = files[i]["key"] /\ files'[i]["csr"] = files[i]["csr"]
    BY <1>5, <2>2 DEF Files
  <2>4. Agree(AfterFetch(c), NoKey, NoCSR, files'[i], st, load)
    BY <2>1, <2>3, PhaseSteps DEF Agree, Generated, Submitted, HoldsObj, HoldsCert
  <2> QED BY <1>3, <1>6, <1>16, <2>2, <2>4 DEF FlushCert, apiVars
\* A call that created an object for the CSR file, answered or not.
<1>17. ASSUME NEW k, k = files[i]["csr"], k \in Keys, files[i]["key"] = k,
              CreateCSR(Name(i), k), Reply(i, AfterSubmit(c), NoKey, NewCSR(k)),
              UNCHANGED <<conf, files>>
       PROVE  PairInv'
  <2>1. /\ store'[Name(i)] = NewCSR(k)
        /\ \A n \in Names : n # Name(i) => store'[n] = store[n]
    BY <1>1, <1>3, <1>17 DEF CreateCSR, TypeInv, TypeOK, ApiTypeOK
  <2>2. SignedRight(NewCSR(k))
    BY DEF SignedRight, NewCSR
  <2>3. Agree(AfterSubmit(c), NoKey, NewCSR(k), files[i], NewCSR(k), load)
    BY <1>4, <1>17, WholePhases
    DEF Agree, NewCSR, Generated, Submitted, HoldsObj, HoldsCert
  <2> QED BY <1>6, <1>7, <1>17, <2>1, <2>2, <2>3 DEF Reply
<1>18. CASE SubmitCreate(i)
  <2>1. files[i]["csr"] \in Keys /\ files[i]["key"] = files[i]["csr"]
    BY <1>2, <1>18 DEF SubmitCreate, Agree, Generated
  <2>2. Agree("replace_delete", files[i]["csr"], NoCSR, files[i], st, load)
    BY <2>1 DEF Agree, Generated, Submitted, HoldsObj, HoldsCert
  <2> QED BY <1>8, <1>9, <1>17, <1>18, <2>1, <2>2 DEF SubmitCreate
\* A call that deleted the object, answered or not.
<1>19. ASSUME NEW step, NEW k, DeleteCSR(Name(i)), Reply(i, step, k, NoCSR),
              UNCHANGED <<conf, files>>, Agree(step, k, NoCSR, files[i], NoCSR, load)
       PROVE  PairInv'
  <2>1. /\ store'[Name(i)] = NoCSR
        /\ \A n \in Names : n # Name(i) => store'[n] = store[n]
    BY <1>1, <1>3, <1>19 DEF DeleteCSR, TypeInv, TypeOK, ApiTypeOK
  <2>2. SignedRight(NoCSR)
    BY DEF SignedRight
  <2> QED BY <1>6, <1>7, <1>19, <2>1, <2>2 DEF Reply
<1>20. CASE ReplaceDelete(i)
  <2>1. Agree("replace_create", mem[i], NoCSR, files[i], NoCSR, load)
    BY <1>2, <1>20 DEF ReplaceDelete, Agree, Generated, Submitted, HoldsObj, HoldsCert
  <2> QED BY <1>8, <1>19, <1>20, <2>1 DEF ReplaceDelete
<1>21. CASE ReplaceCreate(i)
  <2>1. mem[i] = files[i]["csr"] /\ mem[i] \in Keys /\ files[i]["key"] = mem[i]
    BY <1>2, <1>21 DEF ReplaceCreate, Agree, Generated
  <2> QED BY <1>8, <1>17, <1>21, <2>1 DEF ReplaceCreate
<1>22. CASE GetCSR(i)
  BY <1>2, <1>22 DEF GetCSR, Agree
\* A write of an object r that the run held, changed elsewhere than in its
\* request and certificate.
<1>23. ASSUME NEW r, NEW r1, NEW step, r \in CSR, r1 \in CSR,
              r.request = files[i]["csr"], r.cert # NoCert => r.cert.key = r.request,
              r1.request = r.request, r1.cert = r.cert,
              UpdateCSR(Name(i), r1), UNCHANGED <<conf, files>>,
              NEW r2, Reply(i, step, NoKey, r2),
              \A x : x # NoCSR => (x.request = files[i]["csr"] =>
                       Agree(step, NoKey, r2, files[i], x, load))
       PROVE  PairInv'
  <2> DEFINE w == [r1 EXCEPT !.rv = r1.rv + 1]
  <2>1. /\ store'[Name(i)] = w
        /\ \A n \in Names : n # Name(i) => store'[n] = store[n]
    BY <1>1, <1>3, <1>23 DEF UpdateCSR, TypeInv, TypeOK, ApiTypeOK
  <2>2. w \in CSR /\ w.request = r.request /\ w.cert = r.cert
    <3>1. r1.rv + 1 \in Nat
      BY <1>23 DEF CSR
    <3>2. w \in CSR
      BY <1>23, <3>1 DEF CSR
    <3>3. w.request = r1.request /\ w.cert = r1.cert
      BY <1>23 DEF CSR
    <3> QED BY <1>23, <3>2, <3>3
  <2>3. w # NoCSR
    BY <2>2, ApiAssumption
  <2> HIDE DEF w
  <2>4. SignedRight(w)
    BY <1>23, <2>2 DEF SignedRight
  <2>5. Agree(step, NoKey, r2, files[i], w, load)
    BY <1>23, <2>2, <2>3
  <2> QED BY <1>6, <1>7, <1>23, <2>1, <2>4, <2>5 DEF Reply
<1>24. CASE ApproveCSR(i)
  <2>1. CASE Fail(i) /\ UNCHANGED apiVars
    BY <1>8, <1>24, <2>1 DEF ApproveCSR
  <2>2. CASE /\ UpdateCSR(Name(i), WithCondition(obj[i], "Approved", 0))
             /\ Reply(i, AfterApprove(c), NoKey, NoCSR)
    <3>1. /\ obj[i] \in CSR /\ obj[i].request = files[i]["csr"]
          /\ obj[i].cert # NoCert => obj[i].cert.key = obj[i].request
          /\ files[i]["csr"] \in Keys /\ files[i]["key"] = files[i]["csr"]
      BY <1>2, <1>24 DEF ApproveCSR, Held, Agree, Generated, HoldsObj
    <3>2. WithCondition(obj[i], "Approved", 0) \in CSR
      BY <3>1, ConditionType
    <3>3. /\ WithCondition(obj[i], "Approved", 0).request = obj[i].request
          /\ WithCondition(obj[i], "Approved", 0).cert = obj[i].cert
      BY <3>1 DEF WithCondition, CSR
    <3>4. ASSUME NEW x, x # NoCSR, x.request = files[i]["csr"]
          PROVE  Agree(AfterApprove(c), NoKey, NoCSR, files[i], x, load)
      BY <1>4, <3>1, <3>4, WholePhases
      DEF Agree, Generated, Submitted, HoldsObj, HoldsCert
    <3> QED BY <1>23, <1>24, <2>2, <3>1, <3>2, <3>3, <3>4 DEF ApproveCSR
  <2> QED BY <1>24, <2>1, <2>2 DEF ApproveCSR
<1>25. CASE FetchTick(i)
  <2>1. files[i]["csr"] \in Keys /\ files[i]["key"] = files[i]["csr"]
    BY <1>2, <1>25 DEF FetchTick, Agree, Generated
  <2>2. st # NoCSR => st.request = files[i]["csr"]
    BY <1>2, <1>25 DEF FetchTick, Agree, Submitted
  <2>3. ASSUME st # NoCSR, st.cert # NoCert, NEW step \in {"annotate", "open_cert"}
        PROVE  Agree(step, NoKey, st, files[i], st, load)
    BY <1>3, <2>1, <2>2, <2>3
    DEF Agree, Generated, Submitted, HoldsObj, HoldsCert, SignedRight
  <2>4. Agree("poll", NoKey, NoCSR, files[i], st, load)
    BY <2>1, <2>2 DEF Agree, Generated, Submitted, HoldsObj, HoldsCert
  <2> QED BY <1>8, <1>9, <1>25, <2>3, <2>4 DEF FetchTick
<1>26. CASE FetchTimeout(i) \/ FetchSignal(i) \/ TransportError(i) \/ DiskError(i) \/ Crash(i)
  BY <1>8, <1>26 DEF FetchTimeout, FetchSignal, TransportError, DiskError, Crash
<1>27. CASE UpdateAnnotations(i)
  <2>1. CASE Fail(i) /\ UNCHANGED apiVars
    BY <1>8, <1>27, <2>1 DEF UpdateAnnotations
  <2> DEFINE r1 == [obj[i] EXCEPT !.fetches = obj[i].fetches + 1, !.fetchedAt = now]
  <2>2. CASE UpdateCSR(Name(i), r1) /\ Reply(i, "open_cert", NoKey, obj[i])
    <3>1. /\ obj[i] \in CSR /\ obj[i].request = files[i]["csr"]
          /\ obj[i].cert # NoCert => obj[i].cert.key = obj[i].request
          /\ files[i]["csr"] \in Keys /\ files[i]["key"] = files[i]["csr"]
      BY <1>2, <1>27 DEF UpdateAnnotations, Held, Agree, Generated, HoldsObj, HoldsCert
    <3>2. now \in Nat
      BY <1>1 DEF TypeInv, TypeOK, ApiTypeOK
    <3>3. r1 \in CSR
      <4>1. [obj[i] EXCEPT !.fetches = obj[i].fetches + 1] \in CSR
        BY <3>1 DEF CSR
      <4>2. [[obj[i] EXCEPT !.fetches = obj[i].fetches + 1] EXCEPT !.fetchedAt = now] \in CSR
        BY <3>2, <4>1 DEF CSR
      <4> QED BY <3>1, <4>2 DEF CSR
    <3>4. r1.request = obj[i].request /\ r1.cert = obj[i].cert
      BY <3>1 DEF CSR
    <3>5. ASSUME NEW x, x # NoCSR, x.request = files[i]["csr"]
          PROVE  Agree("open_cert", NoKey, obj[i], files[i], x, load)
      BY <3>1, <3>5 DEF Agree, Generated, Submitted, HoldsObj, HoldsCert
    <3> HIDE DEF r1
    <3> QED BY <1>23, <1>27, <2>2, <3>1, <3>3, <3>4, <3>5 DEF UpdateAnnotations
  <2> QED BY <1>27, <2>1, <2>2 DEF UpdateAnnotations
<1>28. CASE Delete(i)
  <2>1. Agree("done", NoKey, NoCSR, files[i], NoCSR, load)
    BY <1>2, <1>28 DEF Delete, Agree, Generated, Submitted, HoldsObj, HoldsCert
  <2> QED BY <1>8, <1>19, <1>28, <2>1 DEF Delete
<1> QED BY <1>10, <1>11, <1>12, <1>13, <1>14, <1>15, <1>16, <1>18, <1>20, <1>21, <1>22,
          <1>24, <1>25, <1>26, <1>27, <1>28 DEF IssuerStep, Work

(* The signer and the administrators change no request, and sign what was  *)
(* requested.                                                              *)
LEMMA PairEnvironment ==
  ASSUME PairInv, Environment
  PROVE  PairInv'
<1>1. TypeInv /\ ApiTypeOK
  BY DEF PairInv, TypeInv, TypeOK
<1>2. TypeInv'
  BY <1>1, ClusterType DEF Environment, TypeInv, TypeOK
<1>3. \A n \in Names : SignedRight(store'[n]) /\
        (store'[n] # NoCSR => store[n] # NoCSR /\ store'[n].request = store[n].request)
  <2>1. ASSUME NEW n \in Names, Sign(n) PROVE <1>3
    <3>1. PICK life \in Lifetimes :
            UpdateCSR(n, [store[n] EXCEPT !.cert =
                            [key |-> store[n].request, notAfter |-> now + life]])
      BY <2>1 DEF Sign
    <3>2. store[n] \in CSR
      BY <1>1, <2>1 DEF Sign, Exists, ApiTypeOK
    <3>3. store'[n].request = store[n].request /\ store'[n].cert.key = store[n].request
      BY <1>1, <3>1, <3>2 DEF UpdateCSR, ApiTypeOK, CSR
    <3>4. \A m \in Names : m # n => store'[m] = store[m]
      BY <1>1, <3>1 DEF UpdateCSR, ApiTypeOK
    <3> QED BY <2>1, <3>3, <3>4 DEF PairInv, SignedRight, Sign, Exists
  <2>2. ASSUME NEW n \in Names, AdminApprove(n) \/ AdminDeny(n) PROVE <1>3
    <3>1. PICK t \in {"Approved", "Denied"} :
            Exists(n) /\ UpdateCSR(n, WithCondition(store[n], t, now))
      BY <2>2 DEF AdminApprove, AdminDeny, AdminCondition
    <3>2. store[n] \in CSR
      BY <1>1, <3>1 DEF Exists, ApiTypeOK
    <3>3. store'[n].request = store[n].request /\ store'[n].cert = store[n].cert
      BY <1>1, <3>1, <3>2 DEF UpdateCSR, WithCondition, ApiTypeOK, CSR
    <3>4. \A m \in Names : m # n => store'[m] = store[m]
      BY <1>1, <3>1 DEF UpdateCSR, ApiTypeOK
    <3> QED BY <3>1, <3>3, <3>4 DEF PairInv, SignedRight, Exists
  <2>3. ASSUME NEW n \in Names, AdminDelete(n) PROVE <1>3
    BY <1>1, <2>3 DEF AdminDelete, DeleteCSR, ApiTypeOK, PairInv, SignedRight
  <2>4. CASE ClockTick
    BY <2>4 DEF ClockTick, PairInv
  <2> QED BY <2>1, <2>2, <2>3, <2>4 DEF Environment, Cluster
<1>4. ASSUME NEW j \in Issuers
      PROVE  Agree(pc[j], mem[j], obj[j], files[j], store'[Name(j)], Has(j, "load"))
  <2>1. Name(j) \in Names
    BY <1>1 DEF TypeInv, TypeOK, Config, Name
  <2> QED BY <1>3, <2>1 DEF PairInv, Agree
<1> QED BY <1>2, <1>3, <1>4 DEF PairInv, Environment, Name, Has

LEMMA PairInvariant ==
  ASSUME OwnNames, OnlyWholeRuns
  PROVE  Spec => []PairInv
<1>1. Init => PairInv
  <2>1. ASSUME Init PROVE TypeInv
    BY <2>1, IssueAssumption, ApiAssumption
    DEF Init, ApiInit, TypeInv, TypeOK, ApiTypeOK, Held, HoldsKey, HoldsObj, HoldsCert,
        Steps, Resting
  <2> QED BY <2>1 DEF Init, ApiInit, PairInv, SignedRight, Agree, Generated, Submitted,
                    HoldsObj, HoldsCert, TypeInv, TypeOK, Config, Name
<1>2. PairInv /\ [Next]_vars => PairInv'
  <2>1. ASSUME PairInv, UNCHANGED vars PROVE PairInv'
    BY <2>1 DEF vars, apiVars, PairInv, TypeInv, TypeOK, ApiTypeOK, Name, Has
  <2> QED BY <2>1, PairIssuer, PairEnvironment DEF Next
<1> QED BY <1>1, <1>2, PTL DEF Spec

(* A run that generates, submits and fetches under a name of its own and   *)
(* reports success leaves a key, a CSR and a certificate that belong       *)
(* together.                                                               *)
THEOREM PairingCorrect ==
  ASSUME OwnNames, OnlyWholeRuns
  PROVE  Spec => []DoneMeansPaired
<1>1. PairInv => DoneMeansPaired
  BY DEF PairInv, DoneMeansPaired, Agree, Generated
<1> QED BY <1>1, PairInvariant, PTL

-----------------------------------------------------------------------------
(* The keys that are in use: a new key is none of them.  So a run that has *)
(* made one does not have a certificate for it on disk already, and the    *)
(* match of key and certificate can only be broken while it writes both.   *)
Spare(step, k, fs, used, load) ==
  /\ \A f \in Files : fs[f] \in Keys => fs[f] \in used
  /\ k \in Keys => k \in used
  /\ step \in {"open_csr", "flush_csr", "open_key", "flush_key"} /\ ~load => fs["cert"] # k
  /\ step \in {"open_key", "flush_key"} => ~load

SpareInv == \A i \in Issuers : Spare(pc[i], mem[i], files[i], minted, Has(i, "load"))

(* Where the contract sees a run that fetches when it stands at a step.    *)
StageOf(step) == IF step = "done" THEN "done"
                 ELSE IF step \in Resting THEN "off"
                 ELSE IF step = "flush_cert" THEN "writing"
                 ELSE IF step = "delete" THEN "after" ELSE "before"

-----------------------------------------------------------------------------
(* A step of the contract, or none, from what changes of the three.        *)
Kept(i) == [Contract(i)!Next]_(Contract(i)!contractVars)

LEMMA Stutters ==
  ASSUME NEW i \in Issuers,
         Stage(i)' = Stage(i), CertFile(i)' = CertFile(i), Matches(i)' = Matches(i)
  PROVE  Kept(i)
BY DEF Kept, Contract!contractVars

LEMMA Begins ==
  ASSUME NEW i \in Issuers, Stage(i) \in {"off", "done"}, Stage(i)' = "before",
         CertFile(i)' = CertFile(i), Matches(i)' = Matches(i)
  PROVE  Kept(i)
BY DEF Kept, Contract!Next, Contract!Begin, Contract!contractVars

LEMMA Ends ==
  ASSUME NEW i \in Issuers,
         \/ Stage(i) \in {"before", "writing", "after"} /\ Stage(i)' = "off"
         \/ Stage(i) = "after" /\ Stage(i)' = "done",
         CertFile(i)' = CertFile(i), Matches(i)' = Matches(i)
  PROVE  Kept(i)
BY DEF Kept, Contract!Next, Contract!Finish, Contract!Break, Contract!contractVars

LEMMA Rekeys ==
  ASSUME NEW i \in Issuers, Stage(i) = "before", Stage(i)' = "before",
         CertFile(i)' = CertFile(i), ~Matches(i)'
  PROVE  Kept(i)
<1>1. Matches(i)' = FALSE
  OBVIOUS
<1> QED BY <1>1 DEF Kept, Contract!Next, Contract!Rekey, Contract!contractVars

LEMMA Truncates ==
  ASSUME NEW i \in Issuers, Stage(i) = "before", Stage(i)' = "writing",
         CertFile(i)' = "empty", ~Matches(i)'
  PROVE  Kept(i)
<1>1. Matches(i)' = FALSE
  OBVIOUS
<1> QED BY <1>1 DEF Kept, Contract!Next, Contract!Truncate, Contract!contractVars

LEMMA Writes ==
  ASSUME NEW i \in Issuers, Stage(i) = "writing", Stage(i)' \in {"after", "done"},
         CertFile(i)' = "whole", Matches(i)'
  PROVE  Kept(i)
<1>1. Matches(i)' = TRUE
  BY DEF Matches
<1> QED BY <1>1 DEF Kept, Contract!Next, Contract!Write, Contract!contractVars

(* Without a change of its files, a run moves on, starts or ends.          *)
MovesOn(s, t) ==
  \/ StageOf(s) = StageOf(t)
  \/ StageOf(s) \in {"off", "done"} /\ StageOf(t) = "before"
  \/ StageOf(s) \in {"before", "writing", "after"} /\ StageOf(t) = "off"
  \/ StageOf(s) = "after" /\ StageOf(t) = "done"

LEMMA Moves ==
  ASSUME NEW i \in Issuers, NEW s, NEW t, Stage(i) = StageOf(s), Stage(i)' = StageOf(t),
         files'[i] = files[i],
         MovesOn(s, t)
  PROVE  Kept(i)
<1>1. CertFile(i)' = CertFile(i) /\ Matches(i)' = Matches(i)
  BY DEF CertFile, Matches
<1> QED BY <1>1, Stutters, Begins, Ends DEF MovesOn

-----------------------------------------------------------------------------
(* A step of a run keeps the contract of that run.                         *)
LEMMA IssuerKeeps ==
  ASSUME OwnNames, OnlyWholeRuns, PairInv, PairInv', NEW i \in Issuers, IssuerStep(i),
         Spare(pc[i], mem[i], files[i], minted, Has(i, "load"))
  PROVE  /\ Spare(pc'[i], mem'[i], files'[i], minted', Has(i, "load")')
         /\ Kept(i)
<1> DEFINE Goal == /\ Spare(pc'[i], mem'[i], files'[i], minted', Has(i, "load")')
                   /\ Kept(i)
           c == conf[i].flags
           load == Has(i, "load")
           Writing == {"open_csr", "flush_csr", "open_key", "flush_key"}
<1>1. /\ pc \in [Issuers -> Steps] /\ mem \in [Issuers -> Keys \cup {NoKey}]
      /\ obj \in [Issuers -> CSR \cup {NoCSR}] /\ conf \in [Issuers -> Config]
      /\ files \in [Issuers -> [Files -> Keys \cup {Absent, Truncated}]]
      /\ pc[i] \in Steps /\ mem[i] \in Keys \cup {NoKey}
      /\ NoKey \notin Keys /\ Absent \notin Keys /\ Truncated \notin Keys /\ Absent # Truncated
  BY IssueAssumption DEF PairInv, TypeInv, TypeOK
<1>2. /\ {"generate", "submit", "fetch"} \subseteq c /\ Has(i, "fetch")
      /\ conf'[i] \in Config /\ Has(i, "fetch")'
  BY DEF PairInv, TypeInv, TypeOK, OnlyWholeRuns, Has
<1>3. /\ Stage(i) = StageOf(pc[i]) /\ Stage(i)' = StageOf(pc'[i])
  BY <1>2 DEF Stage, StageOf, Running, Flushing
<1>4. Agree(pc[i], mem[i], obj[i], files[i], store[Name(i)], load) /\ Held(pc[i], mem[i], obj[i])
  BY DEF PairInv, TypeInv
<1>5. ASSUME NEW step, NEW k, NEW r, Goto(i, step, k, r)
      PROVE  pc'[i] = step /\ mem'[i] = k
  BY <1>1, <1>5 DEF Goto
\* A step that leaves the files alone and does not set out to write them.
<1>6. ASSUME NEW step, NEW k, NEW r, Goto(i, step, k, r), files' = files,
             minted \subseteq minted', k \in Keys => k \in minted', step \notin Writing,
             MovesOn(pc[i], step)
      PROVE  Goal
  <2>1. pc'[i] = step /\ mem'[i] = k
    BY <1>5, <1>6
  <2>2. Kept(i)
    BY <1>3, <1>6, <2>1, Moves
  <2>3. \A f \in Files : files'[i][f] \in Keys => files'[i][f] \in minted'
    BY <1>6 DEF Spare
  <2> QED BY <1>6, <2>1, <2>2, <2>3 DEF Spare
<1>7. ASSUME Fail(i), files' = files, minted' = minted PROVE Goal
  <2>1. ~Start(i)
    <3>1. pc'[i] = "failed"
      BY <1>5, <1>7 DEF Fail
    <3>2. ASSUME NEW d \in Configs[i], Goto(i, FirstStep(d.flags), NoKey, NoCSR) PROVE FALSE
      BY <1>5, <3>1, <3>2, WholePhases DEF OnlyWholeRuns
    <3> QED BY <3>2 DEF Start
  <2>2. Running(i)
    BY <2>1 DEF IssuerStep, Work, Query, Generate, OpenFile, FlushCSR, FlushKey, FlushCert,
                SubmitCreate, ReplaceDelete, ReplaceCreate, GetCSR, ApproveCSR, FetchTick,
                FetchTimeout, FetchSignal, UpdateAnnotations, Delete, TransportError,
                DiskError, Crash, Running, Resting, ApiCalls, Files, Opening, Flushing
  <2>3. MovesOn(pc[i], "failed")
    BY <2>2 DEF MovesOn, StageOf, Running, Resting
  <2> QED BY <1>1, <1>6, <1>7, <2>3 DEF Fail
\* Within the part of a run that comes before the certificate file.
<1>8. ASSUME NEW step, step \in {"query", "generate", "create", "approve", "poll",
                                 "replace_delete", "replace_create", "annotate", "open_cert"}
      PROVE  StageOf(step) = "before" /\ step \notin Writing
  BY <1>8 DEF StageOf, Resting
<1>9. ASSUME NEW step, NEW k, NEW r, Reply(i, step, k, r), files' = files, minted' = minted,
             k = NoKey \/ k \in minted, StageOf(pc[i]) = "before",
             step \in {"create", "approve", "poll", "replace_create", "open_cert"}
      PROVE  Goal
  BY <1>1, <1>6, <1>7, <1>8, <1>9 DEF Reply, MovesOn
<1>10. CASE Start(i)
  <2>1. PICK d \in Configs[i] : Goto(i, FirstStep(d.flags), NoKey, NoCSR)
    BY <1>10 DEF Start
  <2>2. FirstStep(d.flags) \in {"query", "generate"}
    BY WholePhases DEF OnlyWholeRuns
  <2>3. StageOf(pc[i]) \in {"off", "done"}
    BY <1>10 DEF Start, Running, StageOf
  <2> QED BY <1>1, <1>6, <1>8, <1>10, <2>1, <2>2, <2>3 DEF Start, MovesOn
<1>11. CASE Query(i)
  <2>1. StageOf(pc[i]) = "before" /\ AfterQuery(c) = "generate"
    BY <1>2, <1>8, <1>11, WholePhases DEF Query
  <2> QED BY <1>1, <1>6, <1>7, <1>8, <1>11, <2>1 DEF Query, MovesOn
<1>12. CASE Generate(i)
  <2>1. CASE Fail(i) /\ UNCHANGED minted
    BY <1>7, <1>12, <2>1 DEF Generate
  <2>2. ASSUME NEW k \in KeyChoices(i), minted' = minted \cup {k}, Goto(i, "open_csr", k, NoCSR)
        PROVE  Goal
    <3>1. pc'[i] = "open_csr" /\ mem'[i] = k /\ files' = files /\ conf' = conf
      BY <1>5, <1>12, <2>2 DEF Generate
    <3>2. Kept(i)
      BY <1>3, <1>8, <1>12, <3>1, Moves DEF Generate, StageOf, Resting, MovesOn
    <3>3. \A f \in Files : files'[i][f] \in Keys => files'[i][f] \in minted'
      BY <2>2, <3>1 DEF Spare
    <3>4. ~load => files[i]["cert"] # k
      BY <2>2 DEF KeyChoices, Spare, Files
    <3>5. Has(i, "load")' = load
      BY <3>1 DEF Has
    <3> QED BY <2>2, <3>1, <3>2, <3>3, <3>4, <3>5 DEF Spare
  <2> QED BY <1>12, <2>1, <2>2 DEF Generate
\* A step that changes one file.
<1>13. ASSUME NEW f \in Files, NEW x, files' = [files EXCEPT ![i][f] = x]
       PROVE  files'[i][f] = x /\ \A g \in Files \ {f} : files'[i][g] = files[i][g]
  BY <1>1, <1>13
<1>14. ASSUME NEW f \in Files, OpenFile(i, f) PROVE Goal
  <2>1. CASE Fail(i) /\ UNCHANGED files
    BY <1>7, <1>14, <2>1 DEF OpenFile
  <2>2. CASE /\ files' = [files EXCEPT ![i][f] = Truncated]
             /\ Goto(i, Flushing[f], mem[i], obj[i])
    <3>1. /\ pc[i] = Opening[f] /\ pc'[i] = Flushing[f] /\ mem'[i] = mem[i]
          /\ minted' = minted /\ Has(i, "load")' = load
      BY <1>5, <1>14, <2>2 DEF OpenFile, Has
    <3>2. /\ files'[i][f] = Truncated
          /\ \A g \in Files \ {f} : files'[i][g] = files[i][g]
      BY <1>13, <2>2
    <3>3. CASE f = "csr"
      <4>1. Spare(pc'[i], mem'[i], files'[i], minted', load)
        BY <1>1, <3>1, <3>2, <3>3 DEF Spare, Files, Opening, Flushing
      <4>2. CertFile(i)' = CertFile(i) /\ Matches(i)' = Matches(i)
        BY <3>2, <3>3 DEF CertFile, Matches, Files
      <4>3. Stage(i)' = Stage(i)
        BY <1>3, <3>1, <3>3 DEF StageOf, Resting, Opening, Flushing, Files
      <4> QED BY <3>1, <4>1, <4>2, <4>3, Stutters
    <3>4. CASE f = "key"
      <4>1. Spare(pc'[i], mem'[i], files'[i], minted', load)
        BY <1>1, <3>1, <3>2, <3>4 DEF Spare, Files, Opening, Flushing
      <4>2. CertFile(i)' = CertFile(i) /\ ~Matches(i)'
        BY <1>1, <3>2, <3>4 DEF CertFile, Matches, Files
      <4>3. Stage(i) = "before" /\ Stage(i)' = "before"
        BY <1>3, <3>1, <3>4 DEF StageOf, Resting, Opening, Flushing, Files
      <4> QED BY <3>1, <4>1, <4>2, <4>3, Rekeys
    <3>5. CASE f = "cert"
      <4>1. Spare(pc'[i], mem'[i], files'[i], minted', load)
        BY <1>1, <3>1, <3>2, <3>5 DEF Spare, Files, Opening, Flushing
      <4>2. CertFile(i)' = "empty" /\ ~Matches(i)'
        BY <1>1, <3>2, <3>5 DEF CertFile, Matches, Files
      <4>3. Stage(i) = "before" /\ Stage(i)' = "writing"
        BY <1>3, <3>1, <3>5 DEF StageOf, Resting, Opening, Flushing, Files
      <4> QED BY <3>1, <4>1, <4>2, <4>3, Truncates
    <3> QED BY <3>3, <3>4, <3>5 DEF Files
  <2> QED BY <1>14, <2>1, <2>2 DEF OpenFile
<1>15. CASE FlushCSR(i)
  <2>1. /\ pc[i] = "flush_csr" /\ mem[i] \in Keys /\ mem[i] \in minted
        /\ minted' = minted /\ Has(i, "load")' = load
    BY <1>4, <1>15 DEF FlushCSR, Flushing, Held, HoldsKey, Spare, Has
  <2>2. files'[i]["csr"] = mem[i] /\ \A g \in Files \ {"csr"} : files'[i][g] = files[i][g]
    BY <1>13, <1>15 DEF FlushCSR, Files
  <2>3. IF load THEN pc'[i] = "create" /\ mem'[i] = NoKey
                ELSE pc'[i] = "open_key" /\ mem'[i] = mem[i]
    BY <1>2, <1>5, <1>15, WholePhases DEF FlushCSR
  <2>4. Spare(pc'[i], mem'[i], files'[i], minted', load)
    BY <1>1, <2>1, <2>2, <2>3 DEF Spare, Files
  <2>5. CertFile(i)' = CertFile(i) /\ Matches(i)' = Matches(i)
    BY <2>2 DEF CertFile, Matches, Files
  <2>6. Stage(i)' = Stage(i)
    BY <1>3, <2>1, <2>3 DEF StageOf, Resting
  <2> QED BY <2>1, <2>4, <2>5, <2>6, Stutters
<1>16. CASE FlushKey(i)
  <2>1. /\ pc[i] = "flush_key" /\ mem[i] \in Keys /\ mem[i] \in minted
        /\ minted' = minted /\ files[i]["cert"] # mem[i]
    BY <1>4, <1>16 DEF FlushKey, Flushing, Held, HoldsKey, Spare
  <2>2. files'[i]["key"] = mem[i] /\ \A g \in Files \ {"key"} : files'[i][g] = files[i][g]
    BY <1>13, <1>16 DEF FlushKey, Files
  <2>3. pc'[i] = "create" /\ mem'[i] = NoKey
    BY <1>2, <1>5, <1>16, WholePhases DEF FlushKey
  <2>4. Spare(pc'[i], mem'[i], files'[i], minted', Has(i, "load")')
    BY <1>1, <2>1, <2>2, <2>3 DEF Spare, Files
  <2>5. CertFile(i)' = CertFile(i) /\ ~Matches(i)'
    BY <2>1, <2>2 DEF CertFile, Matches, Files
  <2>6. Stage(i) = "before" /\ Stage(i)' = "before"
    BY <1>3, <2>1, <2>3 DEF StageOf, Resting
  <2> QED BY <2>4, <2>5, <2>6, Rekeys
<1>17. CASE FlushCert(i)
  <2>1. /\ pc[i] = "flush_cert" /\ minted' = minted
        /\ files[i]["csr"] \in Keys /\ files[i]["key"] = files[i]["csr"]
        /\ obj[i].cert.key = files[i]["csr"]
    BY <1>4, <1>17 DEF FlushCert, Flushing, Agree, Held, Generated, HoldsObj, HoldsCert
  <2>2. /\ files'[i]["cert"] = files[i]["csr"]
        /\ \A g \in Files \ {"cert"} : files'[i][g] = files[i][g]
    BY <1>13, <1>17, <2>1 DEF FlushCert, Files
  <2>3. pc'[i] \in {"delete", "done"} /\ mem'[i] = NoKey
    BY <1>5, <1>17, PhaseSteps DEF FlushCert
  <2>4. Spare(pc'[i], mem'[i], files'[i], minted', Has(i, "load")')
    BY <1>1, <2>1, <2>2, <2>3 DEF Spare, Files
  <2>5. CertFile(i)' = "whole" /\ Matches(i)'
    BY <1>1, <2>1, <2>2 DEF CertFile, Matches, Files
  <2>6. Stage(i) = "writing" /\ Stage(i)' \in {"after", "done"}
    BY <1>3, <2>1, <2>3 DEF StageOf, Resting
  <2> QED BY <2>4, <2>5, <2>6, Writes
<1>18. /\ AfterSubmit(c) \in {"approve", "poll"} /\ AfterApprove(c) = "poll"
       /\ files[i]["csr"] \in Keys => files[i]["csr"] \in minted
       /\ mem[i] \in Keys => mem[i] \in minted
  BY <1>2, WholePhases DEF Spare, Files
<1>19. CASE SubmitCreate(i)
  <2>1. StageOf(pc[i]) = "before"
    BY <1>8, <1>19 DEF SubmitCreate
  <2>2. CASE Fail(i)
    BY <1>7, <1>19, <2>2 DEF SubmitCreate
  <2>3. CASE Reply(i, AfterSubmit(c), NoKey, NewCSR(files[i]["csr"]))
    BY <1>9, <1>18, <1>19, <2>1, <2>3 DEF SubmitCreate
  <2>4. CASE files[i]["csr"] \in Keys /\ Goto(i, "replace_delete", files[i]["csr"], NoCSR)
    BY <1>6, <1>8, <1>18, <1>19, <2>1, <2>4 DEF SubmitCreate, MovesOn
  <2> QED BY <1>19, <2>2, <2>3, <2>4 DEF SubmitCreate
<1>20. CASE ReplaceDelete(i)
  <2>1. StageOf(pc[i]) = "before" /\ mem[i] \in minted
    BY <1>4, <1>8, <1>18, <1>20 DEF ReplaceDelete, Held, HoldsKey
  <2> QED BY <1>7, <1>9, <1>20, <2>1 DEF ReplaceDelete
<1>21. CASE ReplaceCreate(i)
  <2>1. StageOf(pc[i]) = "before"
    BY <1>8, <1>21 DEF ReplaceCreate
  <2> QED BY <1>7, <1>9, <1>18, <1>21, <2>1 DEF ReplaceCreate
<1>22. CASE GetCSR(i)
  BY <1>4, <1>22 DEF GetCSR, Agree
<1>23. CASE ApproveCSR(i)
  <2>1. StageOf(pc[i]) = "before"
    BY <1>8, <1>23 DEF ApproveCSR
  <2> QED BY <1>7, <1>9, <1>18, <1>23, <2>1 DEF ApproveCSR
<1>24. CASE FetchTick(i)
  <2>1. StageOf(pc[i]) = "before"
    BY <1>8, <1>24 DEF FetchTick
  <2>2. CASE Fail(i)
    BY <1>7, <1>24, <2>2 DEF FetchTick
  <2>3. ASSUME NEW step \in {"annotate", "open_cert", "poll"}, NEW r, Goto(i, step, NoKey, r)
        PROVE  Goal
    BY <1>1, <1>6, <1>8, <1>24, <2>1, <2>3 DEF FetchTick, MovesOn
  <2> QED BY <1>24, <2>2, <2>3 DEF FetchTick
<1>25. CASE UpdateAnnotations(i)
  <2>1. StageOf(pc[i]) = "before"
    BY <1>8, <1>25 DEF UpdateAnnotations
  <2> QED BY <1>7, <1>9, <1>25, <2>1 DEF UpdateAnnotations
<1>26. CASE Delete(i)
  <2>1. ASSUME Goto(i, "done", NoKey, NoCSR) PROVE Goal
    BY <1>1, <1>6, <1>26, <2>1 DEF Delete, StageOf, Resting, MovesOn
  <2> QED BY <1>7, <1>26, <2>1 DEF Delete, Reply
<1>27. CASE FetchTimeout(i) \/ FetchSignal(i) \/ TransportError(i) \/ DiskError(i) \/ Crash(i)
  BY <1>7, <1>27 DEF FetchTimeout, FetchSignal, TransportError, DiskError, Crash
<1> QED BY <1>10, <1>11, <1>12, <1>14, <1>15, <1>16, <1>17, <1>19, <1>20, <1>21, <1>22,
          <1>23, <1>24, <1>25, <1>26, <1>27 DEF IssuerStep, Work

(* A step of another run, or of the cluster, is none of this run's.        *)
LEMMA OthersKeep ==
  ASSUME PairInv, SpareInv, NEW i \in Issuers, minted \subseteq minted',
         pc'[i] = pc[i], mem'[i] = mem[i], files'[i] = files[i], conf'[i] = conf[i]
  PROVE  /\ Spare(pc'[i], mem'[i], files'[i], minted', Has(i, "load")')
         /\ Kept(i)
<1>1. Spare(pc'[i], mem'[i], files'[i], minted', Has(i, "load")')
  BY DEF SpareInv, Spare, Has
<1>2. Stage(i)' = Stage(i) /\ CertFile(i)' = CertFile(i) /\ Matches(i)' = Matches(i)
  BY DEF Stage, Running, Has, CertFile, Matches
<1> QED BY <1>1, <1>2, Stutters

LEMMA EveryRunKeeps ==
  ASSUME OwnNames, OnlyWholeRuns, PairInv, PairInv', SpareInv, [Next]_vars
  PROVE  SpareInv' /\ \A i \in Issuers : Kept(i)
<1>1. ASSUME NEW i \in Issuers
      PROVE  /\ Spare(pc'[i], mem'[i], files'[i], minted', Has(i, "load")')
             /\ Kept(i)
  <2>1. CASE UNCHANGED vars \/ Environment
    BY <2>1, OthersKeep DEF vars, Environment
  <2>2. CASE IssuerStep(i)
    BY <2>2, IssuerKeeps DEF SpareInv
  <2>3. ASSUME NEW j \in Issuers, j # i, IssuerStep(j)
        PROVE  <1>1!2
    <3>1. minted \subseteq minted'
      BY <2>3 DEF IssuerStep, Work, Start, Query, Generate, OpenFile, FlushCSR, FlushKey,
                  FlushCert, SubmitCreate, ReplaceDelete, ReplaceCreate, GetCSR, ApproveCSR,
                  FetchTick, FetchTimeout, FetchSignal, UpdateAnnotations, Delete,
                  TransportError, DiskError, Crash
    <3>2. TypeInv
      BY DEF PairInv
    <3> QED BY <2>3, <3>1, <3>2, OthersUntouched, OthersKeep
  <2> QED BY <2>1, <2>2, <2>3 DEF Next
<1> QED BY <1>1 DEF SpareInv

(* A run that generates, submits and fetches under a name of its own keeps *)
(* the contract that stands for a run in Renew, at every step and whatever *)
(* fails.                                                                  *)
THEOREM IssueKeepsContract ==
  ASSUME OwnNames, OnlyWholeRuns
  PROVE  Spec => KeepsContract
<1>1. Init => SpareInv
  BY IssueAssumption DEF Init, SpareInv, Spare, Files
<1>2. Init => \A i \in Issuers : Contract(i)!Init
  BY IssueAssumption
  DEF Init, Contract!Init, Stage, Running, Resting, CertFile, Matches, Files
<1>3. PairInv /\ PairInv' /\ SpareInv /\ [Next]_vars => SpareInv'
  BY EveryRunKeeps
<1>4. PairInv /\ PairInv' /\ SpareInv /\ [Next]_vars =>
        [\A i \in Issuers : [Contract(i)!Next]_(Contract(i)!contractVars)]_vars
  BY EveryRunKeeps DEF Kept
<1> QED BY <1>1, <1>2, <1>3, <1>4, PairInvariant, PTL DEF Spec, KeepsContract

=============================================================================
