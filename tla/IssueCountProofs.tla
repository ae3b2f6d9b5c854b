-------------------------- MODULE IssueCountProofs --------------------------
(***************************************************************************)
(* The fetchCount annotation, however many issuers work on one object:     *)
(* concurrent updates lose no count, because the server refuses an object  *)
(* that is not what it has, and what is counted twice has been written     *)
(* twice.                                                                  *)
(***************************************************************************)
EXTENDS IssueApprovalProofs, FiniteSetTheorems

(* Every fetch counts itself.                                              *)
AnnotatesAll ==
  \A i \in Issuers : \A c \in Configs[i] : "fetch" \in c.flags => "annotate" \in c.flags

(* Nothing comes between the count and the write: no process dies, no      *)
(* answer is lost, the disk takes what is written and may be overwritten.  *)
Reliable ==
  /\ Faults \subseteq {"timeout", "signal"}
  /\ \A i \in Issuers : \A c \in Configs[i] : "fetch" \in c.flags => "override" \in c.flags

Counts(a, b) == a >= b /\ (Reliable => a = b)

(* The steps from which a run may still write its certificate.             *)
Working(step) == step \notin Resting \cup {"delete"}

Delivered(u) == {d \in delivered : d[1] = u}

(* A run writes one certificate, so each of them is a new item of          *)
(* delivered; a uid is of one object; a run that fetches is told to.       *)
CountInv ==
  /\ \A i \in Issuers : pc[i] \in {"poll"} \cup HoldsCert => Has(i, "fetch")
  /\ \A d \in delivered : d[1] < nextUid
  /\ \A i \in Issuers : \A d \in delivered :
       d[2] = i => d[3] <= runs[i] /\ (Working(pc[i]) => d[3] < runs[i])
  /\ \A m, n \in Names : Exists(m) /\ Exists(n) /\ store[m].uid = store[n].uid => m = n
  /\ IsFiniteSet(delivered)
  /\ \A u \in Nat : IsFiniteSet(BeingWritten(u))
  /\ \A n \in Names : Exists(n) => Counts(store[n].fetches, Deliveries(store[n].uid))

(* Every object has the count it had; a new one has none.                  *)
SameCounts ==
  \A n \in Names : store'[n] # NoCSR =>
    \/ store[n] # NoCSR /\ store'[n].uid = store[n].uid /\ store'[n].fetches = store[n].fetches
    \/ store'[n].uid = nextUid /\ store'[n].fetches = 0

LEMMA SameByUpdate ==
  ASSUME ApiTypeOK, NEW n \in Names, store[n] \in CSR, NEW r \in CSR, UpdateCSR(n, r),
         r.uid = store[n].uid, r.fetches = store[n].fetches
  PROVE  SameCounts
<1> DEFINE w == [r EXCEPT !.rv = r.rv + 1]
<1>1. w.uid = r.uid /\ w.fetches = r.fetches
  BY DEF CSR
<1>2. store'[n] = w /\ \A m \in Names : m # n => store'[m] = store[m]
  BY DEF UpdateCSR, ApiTypeOK
<1> HIDE DEF w
<1> QED BY <1>1, <1>2, ApiAssumption DEF SameCounts

LEMMA SameByCreate ==
  ASSUME ApiTypeOK, NEW n \in Names, NEW k, CreateCSR(n, k)
  PROVE  SameCounts
BY DEF SameCounts, CreateCSR, NewCSR, ApiTypeOK

LEMMA SameByDelete ==
  ASSUME ApiTypeOK, NEW n \in Names, DeleteCSR(n)
  PROVE  SameCounts
BY DEF SameCounts, DeleteCSR, ApiTypeOK

LEMMA EnvironmentCounts ==
  ASSUME ApiTypeOK, Cluster
  PROVE  SameCounts
<1>1. ASSUME NEW n \in Names, Sign(n) PROVE SameCounts
  <2>1. PICK life \in Lifetimes :
          UpdateCSR(n, [store[n] EXCEPT !.cert =
                          [key |-> store[n].request, notAfter |-> now + life]])
    BY <1>1 DEF Sign
  <2>2. store[n] \in CSR
    BY <1>1 DEF Sign, Exists, ApiTypeOK
  <2>3. [key |-> store[n].request, notAfter |-> now + life] \in Certificate
    BY <2>2, ApiAssumption DEF CSR, Certificate, ApiTypeOK
  <2> DEFINE s == [store[n] EXCEPT !.cert =
                     [key |-> store[n].request, notAfter |-> now + life]]
  <2>4. s \in CSR /\ s.uid = store[n].uid /\ s.fetches = store[n].fetches
    BY <2>2, <2>3 DEF CSR
  <2> HIDE DEF s
  <2> QED BY <2>1, <2>2, <2>4, SameByUpdate DEF s
<1>2. ASSUME NEW n \in Names, AdminApprove(n) \/ AdminDeny(n) PROVE SameCounts
  <2>1. PICK t \in {"Approved", "Denied"} :
          Exists(n) /\ UpdateCSR(n, WithCondition(store[n], t, now))
    BY <1>2 DEF AdminApprove, AdminDeny, AdminCondition
  <2>2. store[n] \in CSR /\ now \in Nat
    BY <2>1 DEF Exists, ApiTypeOK
  <2>3. WithCondition(store[n], t, now).fetches = store[n].fetches
    BY <2>2 DEF WithCondition, CSR
  <2> QED BY <2>1, <2>2, <2>3, ConditionKeeps, SameByUpdate
<1>3. ASSUME NEW n \in Names, AdminDelete(n) PROVE SameCounts
  BY <1>3, SameByDelete DEF AdminDelete
<1>4. CASE ClockTick
  BY <1>4 DEF ClockTick, SameCounts
<1> QED BY <1>1, <1>2, <1>3, <1>4 DEF Cluster

(* So do the steps of a run, the annotation apart: what it sends back with *)
(* the approval has the count of what it replaces.                         *)
LEMMA IssuerCounts ==
  ASSUME SnapInv, NEW i \in Issuers, IssuerStep(i), pc[i] # "annotate"
  PROVE  SameCounts
<1>1. ApiTypeOK /\ Name(i) \in Names /\ Held(pc[i], mem[i], obj[i])
  BY DEF SnapInv, TypeInv, TypeOK, Config, Name
<1>2. UNCHANGED apiVars => SameCounts
  BY DEF apiVars, SameCounts
<1>3. CASE SubmitCreate(i) \/ ReplaceCreate(i)
  BY <1>1, <1>2, <1>3, SameByCreate DEF SubmitCreate, ReplaceCreate
<1>4. CASE ReplaceDelete(i) \/ Delete(i)
  BY <1>1, <1>2, <1>4, SameByDelete DEF ReplaceDelete, Delete
<1>5. CASE ApproveCSR(i)
  <2>1. obj[i] \in CSR /\ Snapshot(obj[i], store[Name(i)], nextUid)
    BY <1>1, <1>5 DEF ApproveCSR, Held, HoldsObj, SnapInv
  <2>2. ASSUME Current(Name(i), obj[i]) PROVE store[Name(i)] = obj[i]
    BY <2>1, <2>2 DEF Snapshot, Current, Exists
  <2>3. WithCondition(obj[i], "Approved", 0).fetches = obj[i].fetches
    BY <2>1 DEF WithCondition, CSR
  <2> QED BY <1>1, <1>2, <1>5, <2>1, <2>2, <2>3, ConditionKeeps, SameByUpdate DEF ApproveCSR
<1> QED BY <1>2, <1>3, <1>4, <1>5
    DEF IssuerStep, Work, Start, Query, Generate, OpenFile, FlushCSR, FlushKey, FlushCert,
        GetCSR, FetchTick, FetchTimeout, FetchSignal, TransportError, DiskError, Crash,
        UpdateAnnotations

-----------------------------------------------------------------------------
(* A run that has counted its fetch and not written the certificate yet.   *)
Writing(i, u) ==
  pc[i] \in {"open_cert", "flush_cert"} /\ Has(i, "annotate") /\ obj[i].uid = u

LEMMA WritingSet ==
  ASSUME NEW u
  PROVE  /\ BeingWritten(u) = {i \in Issuers : Writing(i, u)}
         /\ BeingWritten(u)' = {i \in Issuers : Writing(i, u)'}
BY DEF BeingWritten, Writing, Opening, Flushing, Files, Has

(* What a step of a run does to the counts, to the certificates written    *)
(* and to those being written: nothing; it gives up one being written,     *)
(* writes one, or counts one that it is about to write.                    *)
Quiet(i) ==
  /\ delivered' = delivered /\ SameCounts
  /\ \A u : Writing(i, u)' <=> Writing(i, u)

GivesUp(i) ==
  /\ delivered' = delivered /\ SameCounts
  /\ ~Reliable /\ \A u : ~Writing(i, u)'

Writes(i) ==
  /\ Writing(i, obj[i].uid) /\ \A u : ~Writing(i, u)'
  /\ delivered' = delivered \cup {<<obj[i].uid, i, runs[i]>>}
  /\ UNCHANGED apiVars

Counted(i) ==
  /\ delivered' = delivered
  /\ obj[i] \in CSR /\ store[Name(i)] = obj[i]
  /\ UpdateCSR(Name(i), [obj[i] EXCEPT !.fetches = obj[i].fetches + 1, !.fetchedAt = now])
  /\ \A u : ~Writing(i, u)
  /\ \/ \A u : Writing(i, u)' <=> u = obj[i].uid
     \/ ~Reliable /\ \A u : ~Writing(i, u)'

LEMMA WritingStep ==
  ASSUME AnnotatesAll, SnapInv, NEW i \in Issuers, IssuerStep(i),
         pc[i] \in {"poll"} \cup HoldsCert => Has(i, "fetch")
  PROVE  Quiet(i) \/ GivesUp(i) \/ Writes(i) \/ Counted(i)
<1>1. /\ pc \in [Issuers -> Steps] /\ obj \in [Issuers -> CSR \cup {NoCSR}]
      /\ conf[i] \in Configs[i]
      /\ Held(pc[i], mem[i], obj[i])
      /\ pc[i] \in HoldsObj => Snapshot(obj[i], store[Name(i)], nextUid)
  BY DEF SnapInv, TypeInv, TypeOK
<1>2. pc[i] \in {"poll"} \cup HoldsCert => Has(i, "annotate")
  BY <1>1 DEF AnnotatesAll, Has
<1>3. ASSUME NEW step, NEW k, NEW r, Goto(i, step, k, r)
      PROVE  pc'[i] = step /\ obj'[i] = r
  BY <1>1, <1>3 DEF Goto
<1>4. pc[i] # "annotate" => SameCounts
  BY IssuerCounts
\* A step between two places at which nothing is being written.
<1>5. ASSUME delivered' = delivered, SameCounts,
             pc[i] \notin {"open_cert", "flush_cert"}, pc'[i] \notin {"open_cert", "flush_cert"}
      PROVE  Quiet(i)
  BY <1>5 DEF Quiet, Writing
<1>6. ASSUME Fail(i) PROVE pc'[i] = "failed"
  BY <1>3, <1>6 DEF Fail
<1>7. CASE Start(i)
  <2>1. pc[i] \notin {"open_cert", "flush_cert", "annotate"}
    BY <1>7 DEF Start, Running, Resting
  <2>2. PICK c \in Configs[i] : Goto(i, FirstStep(c.flags), NoKey, NoCSR)
    BY <1>7 DEF Start
  <2>3. pc'[i] \notin {"open_cert", "flush_cert"}
    BY <1>3, <2>2, PhaseSteps
  <2> QED BY <1>4, <1>5, <1>7, <2>1, <2>3 DEF Start
<1>8. CASE Query(i) \/ Generate(i) \/ FlushCSR(i) \/ FlushKey(i)
  <2>1. pc[i] \in {"query", "generate", "flush_csr", "flush_key"} /\ delivered' = delivered
    BY <1>8 DEF Query, Generate, FlushCSR, FlushKey, Flushing
  <2>2. pc'[i] \notin {"open_cert", "flush_cert"}
    BY <1>3, <1>6, <1>8, PhaseSteps DEF Query, Generate, FlushCSR, FlushKey
  <2> QED BY <1>4, <1>5, <2>1, <2>2
<1>9. ASSUME NEW f \in Files, OpenFile(i, f)
      PROVE  Quiet(i) \/ GivesUp(i)
  <2>1. pc[i] = Opening[f] /\ pc[i] # "annotate" /\ delivered' = delivered /\ conf' = conf
    BY <1>9 DEF OpenFile, Opening, Files
  <2>2. CASE f # "cert"
    <3>1. pc[i] \notin {"open_cert", "flush_cert"} /\ pc'[i] \notin {"open_cert", "flush_cert"}
      BY <1>3, <1>6, <1>9, <2>1, <2>2 DEF OpenFile, Opening, Flushing, Files
    <3> QED BY <1>4, <1>5, <2>1, <3>1
  <2>3. CASE f = "cert" /\ MayWrite(i, f)
    <3>1. pc[i] = "open_cert" /\ pc'[i] = "flush_cert" /\ obj'[i] = obj[i]
      BY <1>3, <1>9, <2>1, <2>3 DEF OpenFile, Opening, Flushing, Files
    <3> QED BY <1>4, <2>1, <3>1 DEF Quiet, Writing, Has
  <2>4. CASE f = "cert" /\ ~MayWrite(i, f)
    <3>1. pc[i] = "open_cert" /\ pc'[i] = "failed"
      BY <1>6, <1>9, <2>1, <2>4 DEF OpenFile, Opening, Files
    <3>2. ~Reliable
      BY <1>1, <2>4, <3>1 DEF Reliable, MayWrite, Has, HoldsCert
    <3> QED BY <1>4, <2>1, <3>1, <3>2 DEF GivesUp, Writing
  <2> QED BY <2>2, <2>3, <2>4
<1>10. CASE FlushCert(i)
  <2>1. pc[i] = "flush_cert" /\ pc'[i] \in {"delete", "done"}
    BY <1>3, <1>10, PhaseSteps DEF FlushCert, Flushing, Files
  <2> QED BY <1>2, <1>10, <2>1 DEF FlushCert, Writes, Writing, HoldsCert
<1>11. CASE SubmitCreate(i) \/ ReplaceDelete(i) \/ ReplaceCreate(i) \/ GetCSR(i)
              \/ ApproveCSR(i) \/ Delete(i) \/ FetchTimeout(i) \/ FetchSignal(i)
  <2>1. /\ pc[i] \in {"create", "replace_delete", "replace_create", "get", "approve",
                      "delete", "poll"}
        /\ delivered' = delivered
    BY <1>11 DEF SubmitCreate, ReplaceDelete, ReplaceCreate, GetCSR, ApproveCSR, Delete,
                 FetchTimeout, FetchSignal
  <2>2. pc'[i] \notin {"open_cert", "flush_cert"}
    BY <1>3, <1>6, <1>11, PhaseSteps
    DEF SubmitCreate, ReplaceDelete, ReplaceCreate, GetCSR, ApproveCSR, Delete,
        FetchTimeout, FetchSignal, Reply
  <2> QED BY <1>4, <1>5, <2>1, <2>2
<1>12. CASE FetchTick(i)
  <2>1. pc[i] = "poll" /\ delivered' = delivered
    BY <1>12 DEF FetchTick
  <2>2. pc'[i] \in {"annotate", "poll", "failed"}
    BY <1>2, <1>3, <1>6, <1>12, <2>1 DEF FetchTick
  <2> QED BY <1>4, <1>5, <2>1, <2>2
<1>13. CASE UpdateAnnotations(i)
  <2>1. /\ pc[i] = "annotate" /\ delivered' = delivered /\ conf' = conf /\ Has(i, "annotate")
        /\ obj[i] \in CSR /\ Snapshot(obj[i], store[Name(i)], nextUid)
    BY <1>1, <1>2, <1>13 DEF UpdateAnnotations, HoldsCert, HoldsObj, Held
  <2>2. CASE Fail(i) /\ UNCHANGED apiVars
    BY <1>5, <1>6, <2>1, <2>2 DEF SameCounts, apiVars
  <2>3. CASE /\ Current(Name(i), obj[i])
             /\ UpdateCSR(Name(i), [obj[i] EXCEPT !.fetches = obj[i].fetches + 1,
                                                  !.fetchedAt = now])
             /\ Reply(i, "open_cert", NoKey, obj[i])
    <3>1. store[Name(i)] = obj[i]
      BY <2>1, <2>3 DEF Snapshot, Current, Exists
    <3>2. \A u : ~Writing(i, u)
      BY <2>1 DEF Writing
    <3>3. CASE Goto(i, "open_cert", NoKey, obj[i])
      <4>1. \A u : Writing(i, u)' <=> u = obj[i].uid
        BY <1>3, <2>1, <3>3 DEF Writing, Has
      <4> QED BY <2>1, <2>3, <3>1, <3>2, <4>1 DEF Counted
    <3>4. CASE "transport" \in Faults /\ Fail(i)
      <4>1. ~Reliable
        BY <3>4 DEF Reliable
      <4>2. \A u : ~Writing(i, u)'
        BY <1>6, <3>4 DEF Writing
      <4> QED BY <2>1, <2>3, <3>1, <3>2, <4>1, <4>2 DEF Counted
    <3> QED BY <2>3, <3>3, <3>4 DEF Reply
  <2> QED BY <1>13, <2>2, <2>3 DEF UpdateAnnotations
<1>14. CASE TransportError(i)
  <2>1. /\ pc[i] \in ApiCalls /\ delivered' = delivered
        /\ pc[i] \notin {"open_cert", "flush_cert"} /\ pc'[i] = "failed"
    BY <1>6, <1>14 DEF TransportError, ApiCalls
  <2>2. SameCounts
    BY <1>14 DEF TransportError, SameCounts, apiVars
  <2> QED BY <1>5, <2>1, <2>2
<1>15. CASE DiskError(i) \/ Crash(i)
  <2>1. ~Reliable /\ pc'[i] = "failed" /\ delivered' = delivered
    BY <1>6, <1>15 DEF DiskError, Crash, Reliable
  <2>2. SameCounts
    BY <1>15 DEF DiskError, Crash, SameCounts, apiVars
  <2> QED BY <2>1, <2>2 DEF GivesUp, Writing
<1> QED BY <1>7, <1>8, <1>9, <1>10, <1>11, <1>12, <1>13, <1>14, <1>15 DEF IssuerStep, Work

-----------------------------------------------------------------------------
LEMMA DeliveriesType ==
  ASSUME IsFiniteSet(delivered), NEW u, IsFiniteSet(BeingWritten(u))
  PROVE  /\ IsFiniteSet(Delivered(u))
         /\ Cardinality(Delivered(u)) \in Nat /\ Cardinality(BeingWritten(u)) \in Nat
         /\ Deliveries(u) = Cardinality(Delivered(u)) + Cardinality(BeingWritten(u))
<1>1. Delivered(u) \in SUBSET delivered
  BY DEF Delivered
<1>2. IsFiniteSet(Delivered(u))
  BY <1>1, FS_Subset
<1> QED BY <1>2, FS_CardinalityType DEF Deliveries, Delivered

(* Another run goes on writing what it writes.                             *)
LEMMA OthersWrite ==
  ASSUME TypeInv, NEW i \in Issuers, IssuerStep(i), NEW u
  PROVE  BeingWritten(u)' \ {i} = BeingWritten(u) \ {i}
<1>1. ASSUME NEW j \in Issuers, j # i PROVE Writing(j, u)' <=> Writing(j, u)
  BY <1>1, OthersUntouched DEF Writing, Has
<1> QED BY <1>1, WritingSet

(* What the step of a run does to the number of the certificates of u.     *)
LEMMA DeliveriesStep ==
  ASSUME TypeInv, NEW i \in Issuers, IssuerStep(i), NEW u,
         IsFiniteSet(delivered), IsFiniteSet(BeingWritten(u)),
         Writes(i) => <<obj[i].uid, i, runs[i]>> \notin delivered,
         Quiet(i) \/ GivesUp(i) \/ Writes(i) \/ Counted(i)
  PROVE  /\ IsFiniteSet(delivered') /\ IsFiniteSet(BeingWritten(u)')
         /\ Quiet(i) \/ Writes(i) => Deliveries(u)' = Deliveries(u)
         /\ GivesUp(i) => Deliveries(u)' <= Deliveries(u)
         /\ Counted(i) => /\ u # obj[i].uid => Deliveries(u)' = Deliveries(u)
                          /\ Deliveries(u)' <= Deliveries(u) + 1
                          /\ Reliable /\ u = obj[i].uid => Deliveries(u)' = Deliveries(u) + 1
<1> DEFINE B == BeingWritten(u)
           B1 == BeingWritten(u)'
           D == Delivered(u)
           D1 == Delivered(u)'
<1>1. B1 \ {i} = B \ {i} /\ (i \in B <=> Writing(i, u)) /\ (i \in B1 <=> Writing(i, u)')
  BY OthersWrite, WritingSet
<1>2. /\ IsFiniteSet(D) /\ Cardinality(D) \in Nat /\ Cardinality(B) \in Nat
      /\ Deliveries(u) = Cardinality(D) + Cardinality(B)
  BY DeliveriesType
<1>3. /\ IsFiniteSet(B \cup {i}) /\ (i \notin B => Cardinality(B \cup {i}) = Cardinality(B) + 1)
      /\ IsFiniteSet(B \ {i}) /\ (i \in B => Cardinality(B \ {i}) = Cardinality(B) - 1)
  BY FS_AddElement, FS_RemoveElement
<1>4. B1 \in {B, B \cup {i}, B \ {i}}
  BY <1>1
<1>5. IsFiniteSet(B1)
  BY <1>3, <1>4
<1>6. IsFiniteSet(delivered')
  BY FS_AddElement DEF Quiet, GivesUp, Writes, Counted
<1>7. Deliveries(u)' = Cardinality(D1) + Cardinality(B1)
  BY DEF Deliveries, Delivered
<1> HIDE DEF B, B1, D, D1
<1>8. ASSUME delivered' = delivered PROVE D1 = D
  BY <1>8 DEF Delivered, D, D1
<1>9. ASSUME Quiet(i) PROVE Deliveries(u)' = Deliveries(u)
  <2>1. B1 = B /\ D1 = D
    BY <1>1, <1>8, <1>9 DEF Quiet
  <2> QED BY <1>2, <1>7, <2>1
<1>10. ASSUME Writes(i) PROVE Deliveries(u)' = Deliveries(u)
  <2> DEFINE d == <<obj[i].uid, i, runs[i]>>
  <2>1. delivered' = delivered \cup {d} /\ d \notin delivered /\ d[1] = obj[i].uid
    BY <1>10 DEF Writes
  <2> HIDE DEF d
  <2>2. CASE u = obj[i].uid
    <3>1. D1 = D \cup {d} /\ d \notin D
      BY <2>1, <2>2 DEF Delivered, D, D1
    <3>2. Cardinality(D1) = Cardinality(D) + 1
      BY <1>2, <3>1, FS_AddElement
    <3>3. i \in B /\ B1 = B \ {i}
      BY <1>1, <1>10, <2>2 DEF Writes
    <3>4. Cardinality(B1) = Cardinality(B) - 1
      BY <1>3, <3>3
    <3> QED BY <1>2, <1>7, <3>2, <3>4
  <2>3. CASE u # obj[i].uid
    <3>1. D1 = D
      BY <2>1, <2>3 DEF Delivered, D, D1
    <3>2. B1 = B
      BY <1>1, <1>10, <2>3 DEF Writes, Writing
    <3> QED BY <1>2, <1>7, <3>1, <3>2
  <2> QED BY <2>2, <2>3
<1>11. ASSUME GivesUp(i) PROVE Deliveries(u)' <= Deliveries(u)
  <2>1. D1 = D /\ B1 = B \ {i}
    BY <1>1, <1>8, <1>11 DEF GivesUp
  <2>2. CASE i \in B
    BY <1>2, <1>3, <1>7, <2>1, <2>2
  <2>3. CASE i \notin B
    <3>1. B1 = B /\ D1 = D
      BY <2>1, <2>3
    <3>2. Deliveries(u)' = Deliveries(u)
      BY <1>2, <1>7, <3>1
    <3> QED BY <1>2, <3>2
  <2> QED BY <2>2, <2>3
<1>12. ASSUME Counted(i)
       PROVE  /\ u # obj[i].uid => Deliveries(u)' = Deliveries(u)
              /\ Deliveries(u)' <= Deliveries(u) + 1
              /\ Reliable /\ u = obj[i].uid => Deliveries(u)' = Deliveries(u) + 1
  <2>1. D1 = D /\ i \notin B
    BY <1>1, <1>8, <1>12 DEF Counted
  <2>2. CASE u = obj[i].uid /\ B1 = B \cup {i}
    <3>1. Cardinality(B1) = Cardinality(B) + 1
      BY <1>3, <2>1, <2>2
    <3> QED BY <1>2, <1>7, <2>1, <2>2, <3>1
  <2>3. CASE B1 = B /\ (u = obj[i].uid => ~Reliable)
    BY <1>2, <1>7, <2>1, <2>3
  <2> QED BY <1>1, <1>12, <2>1, <2>2, <2>3 DEF Counted
<1> QED BY <1>5, <1>6, <1>9, <1>10, <1>11, <1>12 DEF B, B1

-----------------------------------------------------------------------------
(* A run comes to its fetch only when it was told to fetch.                *)
LEMMA FetchStep ==
  ASSUME TypeInv, NEW i \in Issuers, IssuerStep(i), pc'[i] \in {"poll"} \cup HoldsCert,
         pc[i] \in {"poll"} \cup HoldsCert => Has(i, "fetch")
  PROVE  Has(i, "fetch")'
<1>1. /\ pc \in [Issuers -> Steps] /\ conf \in [Issuers -> Config]
  BY DEF TypeInv, TypeOK
<1>2. ASSUME NEW step, NEW k, NEW r, Goto(i, step, k, r) PROVE pc'[i] = step
  BY <1>1, <1>2 DEF Goto
<1>3. ~Fail(i)
  BY <1>2 DEF Fail, HoldsCert
<1>4. ASSUME NEW c, NEW step, step \in {"poll"} \cup HoldsCert,
             step \in {AfterFetch(c), AfterApprove(c), AfterSubmit(c), AfterGenerate(c),
                       AfterQuery(c), FirstStep(c)}
      PROVE  "fetch" \in c
  BY <1>4 DEF AfterFetch, AfterApprove, AfterSubmit, AfterGenerate, AfterQuery, FirstStep,
              HoldsCert
<1>5. CASE Start(i)
  <2>1. PICK c \in Configs[i] : /\ conf' = [conf EXCEPT ![i] = c]
                                /\ Goto(i, FirstStep(c.flags), NoKey, NoCSR)
    BY <1>5 DEF Start
  <2>2. pc'[i] = FirstStep(c.flags) /\ conf'[i] = c
    BY <1>1, <1>2, <2>1
  <2> QED BY <1>4, <2>2 DEF Has
<1>6. ASSUME conf' = conf, Has(i, "fetch") PROVE Has(i, "fetch")'
  BY <1>6 DEF Has
<1>7. CASE Query(i) \/ FlushCSR(i) \/ FlushKey(i) \/ FlushCert(i) \/ SubmitCreate(i)
             \/ ReplaceCreate(i) \/ ApproveCSR(i)
  <2>1. pc'[i] \in {AfterFetch(conf[i].flags), AfterApprove(conf[i].flags),
                    AfterSubmit(conf[i].flags), AfterGenerate(conf[i].flags),
                    AfterQuery(conf[i].flags), "open_key", "replace_delete"}
    BY <1>2, <1>3, <1>7
    DEF Query, FlushCSR, FlushKey, FlushCert, SubmitCreate, ReplaceCreate, ApproveCSR, Reply
  <2>2. Has(i, "fetch")
    BY <1>4, <2>1 DEF Has, HoldsCert
  <2>3. conf' = conf
    BY <1>7
    DEF Query, FlushCSR, FlushKey, FlushCert, SubmitCreate, ReplaceCreate, ApproveCSR
  <2> QED BY <1>6, <2>2, <2>3
<1>8. CASE Generate(i) \/ ReplaceDelete(i) \/ GetCSR(i) \/ Delete(i)
  BY <1>2, <1>3, <1>8 DEF Generate, ReplaceDelete, GetCSR, Delete, Reply, HoldsCert
<1>9. ASSUME NEW f \in Files, OpenFile(i, f) PROVE Has(i, "fetch")'
  BY <1>2, <1>3, <1>6, <1>9 DEF OpenFile, Opening, Flushing, Files, HoldsCert
<1>10. CASE FetchTick(i) \/ UpdateAnnotations(i)
  BY <1>6, <1>10 DEF FetchTick, UpdateAnnotations, HoldsCert
<1>11. CASE FetchTimeout(i) \/ FetchSignal(i) \/ TransportError(i) \/ DiskError(i) \/ Crash(i)
  BY <1>3, <1>11 DEF FetchTimeout, FetchSignal, TransportError, DiskError, Crash
<1> QED BY <1>5, <1>7, <1>8, <1>9, <1>10, <1>11 DEF IssuerStep, Work

(* A run that has written its certificate has nothing left to write.       *)
LEMMA WorkingStep ==
  ASSUME TypeInv, NEW i \in Issuers, IssuerStep(i), ~Start(i)
  PROVE  /\ runs' = runs
         /\ Working(pc'[i]) => Working(pc[i])
         /\ \/ delivered' = delivered
            \/ /\ delivered' = delivered \cup {<<obj[i].uid, i, runs[i]>>}
               /\ Working(pc[i]) /\ ~Working(pc'[i])
               /\ pc[i] \in HoldsObj
<1>1. pc \in [Issuers -> Steps]
  BY DEF TypeInv, TypeOK
<1>2. ASSUME NEW step, NEW k, NEW r, Goto(i, step, k, r) PROVE pc'[i] = step
  BY <1>1, <1>2 DEF Goto
<1>3. ASSUME Fail(i) PROVE ~Working(pc'[i])
  BY <1>2, <1>3 DEF Fail, Working, Resting
<1>4. CASE FlushCert(i)
  <2>1. pc[i] = "flush_cert" /\ pc'[i] \in {"delete", "done"}
    BY <1>2, <1>4, PhaseSteps DEF FlushCert, Flushing, Files
  <2> QED BY <1>4, <2>1 DEF FlushCert, Working, Resting, HoldsObj, HoldsCert
<1>5. CASE Delete(i)
  <2>1. ~Working(pc'[i])
    BY <1>2, <1>3, <1>5 DEF Delete, Reply, Working, Resting
  <2> QED BY <1>5, <2>1 DEF Delete
<1>6. CASE FetchSignal(i) \/ TransportError(i) \/ DiskError(i) \/ Crash(i)
  BY <1>3, <1>6 DEF FetchSignal, TransportError, DiskError, Crash
<1>7. CASE Query(i) \/ Generate(i) \/ FlushCSR(i) \/ FlushKey(i) \/ SubmitCreate(i)
             \/ ReplaceDelete(i) \/ ReplaceCreate(i) \/ GetCSR(i) \/ ApproveCSR(i)
             \/ FetchTick(i) \/ FetchTimeout(i) \/ UpdateAnnotations(i)
  BY <1>7
  DEF Query, Generate, FlushCSR, FlushKey, SubmitCreate, ReplaceDelete, ReplaceCreate,
      GetCSR, ApproveCSR, FetchTick, FetchTimeout, UpdateAnnotations, Flushing, Working,
      Resting
<1>8. ASSUME NEW f \in Files, OpenFile(i, f) PROVE Working(pc[i]) /\ UNCHANGED <<runs, delivered>>
  BY <1>8 DEF OpenFile, Opening, Files, Working, Resting
<1> QED BY <1>4, <1>5, <1>6, <1>7, <1>8 DEF IssuerStep, Work

(* The step of a run keeps what is known of the certificates written.      *)
LEMMA PastStep ==
  ASSUME SnapInv, CountInv, NEW i \in Issuers, IssuerStep(i)
  PROVE  /\ \A d \in delivered' : d[1] < nextUid'
         /\ \A j \in Issuers : \A d \in delivered' :
              d[2] = j => d[3] <= runs'[j] /\ (Working(pc'[j]) => d[3] < runs'[j])
<1>1. /\ TypeInv /\ Evolves /\ nextUid \in Nat /\ runs \in [Issuers -> Nat]
      /\ delivered \subseteq Nat \X Issuers \X Nat
      /\ obj \in [Issuers -> CSR \cup {NoCSR}]
  BY IssuerEvolves DEF SnapInv, TypeInv, TypeOK, ApiTypeOK
<1>2. nextUid' \in Nat /\ nextUid <= nextUid'
  BY <1>1 DEF Evolves
<1>3. \A d \in delivered : d[1] < nextUid' /\ d[1] \in Nat /\ d[3] \in Nat
  <2>1. \A d \in delivered : d[1] < nextUid /\ d[1] \in Nat /\ d[3] \in Nat
    BY <1>1 DEF CountInv
  <2> QED BY <1>1, <1>2, <2>1
<1>4. \A j \in Issuers : \A d \in delivered :
        d[2] = j => d[3] <= runs[j] /\ (Working(pc[j]) => d[3] < runs[j])
  BY DEF CountInv
<1>5. \A j \in Issuers : j # i => pc'[j] = pc[j]
  BY <1>1, OthersUntouched
<1>6. CASE Start(i)
  <2>1. delivered' = delivered /\ runs'[i] = runs[i] + 1
          /\ \A j \in Issuers : j # i => runs'[j] = runs[j]
    BY <1>1, <1>6 DEF Start
  <2>2. ASSUME NEW d \in delivered, d[2] = i PROVE d[3] < runs'[i]
    <3>1. d[3] <= runs[i] /\ d[3] \in Nat /\ runs[i] \in Nat
      BY <1>1, <1>3, <1>4, <2>2
    <3> QED BY <2>1, <3>1
  <2>3. \A d \in delivered : d[2] = i => d[3] <= runs'[i] /\ d[3] < runs'[i]
    BY <1>1, <1>3, <2>1, <2>2
  <2> QED BY <1>3, <1>4, <1>5, <2>1, <2>3
<1>7. CASE ~Start(i)
  <2>1. /\ runs' = runs /\ (Working(pc'[i]) => Working(pc[i]))
        /\ \/ delivered' = delivered
           \/ /\ delivered' = delivered \cup {<<obj[i].uid, i, runs[i]>>}
              /\ ~Working(pc'[i]) /\ pc[i] \in HoldsObj
    BY <1>1, <1>7, WorkingStep
  <2>2. CASE delivered' = delivered
    BY <1>3, <1>4, <1>5, <2>1, <2>2
  <2>3. CASE /\ delivered' = delivered \cup {<<obj[i].uid, i, runs[i]>>}
             /\ ~Working(pc'[i]) /\ pc[i] \in HoldsObj
    <3>1. obj[i].uid < nextUid /\ obj[i].uid \in Nat
      BY <2>3 DEF SnapInv, Snapshot, TypeInv, Held, CSR
    <3>2. obj[i].uid < nextUid'
      BY <1>1, <1>2, <3>1
    <3>3. runs[i] <= runs[i]
      BY <1>1
    <3> QED BY <1>3, <1>4, <1>5, <2>1, <2>3, <3>2, <3>3
  <2> QED BY <2>1, <2>2, <2>3
<1> QED BY <1>6, <1>7

-----------------------------------------------------------------------------
(* Of an object that is yet to be created nothing has been delivered.      *)
LEMMA NothingOfNew ==
  ASSUME SnapInv, CountInv
  PROVE  Deliveries(nextUid) = 0
<1>1. delivered \subseteq Nat \X Issuers \X Nat /\ nextUid \in Nat
  BY DEF SnapInv, TypeInv, TypeOK, ApiTypeOK
<1>2. {d \in delivered : d[1] = nextUid} = {}
  BY <1>1 DEF CountInv
<1>3. ASSUME NEW i \in Issuers, Writing(i, nextUid) PROVE FALSE
  <2>1. pc[i] \in HoldsObj
    BY <1>3 DEF Writing, HoldsObj, HoldsCert
  <2>2. obj[i].uid < nextUid
    BY <2>1 DEF SnapInv, Snapshot
  <2> QED BY <1>1, <1>3, <2>2 DEF Writing
<1>4. BeingWritten(nextUid) = {}
  BY <1>3, WritingSet
<1> QED BY <1>2, <1>4, FS_EmptySet DEF Deliveries

(* No uid comes back, and no two objects share one.                        *)
LEMMA UidsStep ==
  ASSUME SnapInv, CountInv, Evolves
  PROVE  \A m, n \in Names :
           store'[m] # NoCSR /\ store'[n] # NoCSR /\ store'[m].uid = store'[n].uid => m = n
<1> SUFFICES ASSUME NEW m \in Names, NEW n \in Names, store'[m] # NoCSR, store'[n] # NoCSR,
                    store'[m].uid = store'[n].uid, m # n
             PROVE  FALSE
  OBVIOUS
<1>1. /\ nextUid \in Nat
      /\ \A x \in Names : store[x] # NoCSR => store[x].uid < nextUid
      /\ \A x, y \in Names : store[x] # NoCSR /\ store[y] # NoCSR /\ store[x].uid = store[y].uid
                               => x = y
  BY DEF SnapInv, CountInv, TypeInv, TypeOK, ApiTypeOK, Exists
<1>2. store'[m] = store[m] \/ store'[n] = store[n]
  BY DEF Evolves
<1>3. ASSUME NEW x \in Names, store'[x] # NoCSR
      PROVE  \/ store[x] # NoCSR /\ store'[x].uid = store[x].uid
             \/ store'[x].uid = nextUid /\ store'[x] # store[x]
  BY <1>1, <1>3, ApiAssumption DEF Evolves
<1> QED BY <1>1, <1>2, <1>3

LEMMA CountIssuer ==
  ASSUME AnnotatesAll, SnapInv, CountInv, SnapInv', NEW i \in Issuers, IssuerStep(i)
  PROVE  CountInv'
<1>1. /\ TypeInv /\ TypeInv' /\ Evolves /\ nextUid \in Nat
      /\ runs \in [Issuers -> Nat] /\ runs[i] \in Nat
  BY IssuerEvolves DEF SnapInv, TypeInv, TypeOK, ApiTypeOK
<1>2. Quiet(i) \/ GivesUp(i) \/ Writes(i) \/ Counted(i)
  BY WritingStep DEF CountInv
<1>3. ASSUME Writes(i) PROVE <<obj[i].uid, i, runs[i]>> \notin delivered
  <2>1. Working(pc[i])
    BY <1>3 DEF Writes, Writing, Working, Resting
  <2>2. \A d \in delivered : d[2] = i => d[3] < runs[i]
    BY <2>1 DEF CountInv
  <2> QED BY <1>1, <2>2
<1>4. ASSUME NEW j \in Issuers, pc'[j] \in {"poll"} \cup HoldsCert PROVE Has(j, "fetch")'
  <2>1. CASE j = i
    BY <1>1, <1>4, <2>1, FetchStep DEF CountInv
  <2>2. CASE j # i
    BY <1>1, <1>4, <2>2, OthersUntouched DEF CountInv, Has
  <2> QED BY <2>1, <2>2
<1>5. ASSUME NEW u \in Nat
      PROVE  /\ IsFiniteSet(delivered') /\ IsFiniteSet(BeingWritten(u)')
             /\ Deliveries(u) \in Nat /\ Deliveries(u)' \in Nat
             /\ Quiet(i) \/ Writes(i) => Deliveries(u)' = Deliveries(u)
             /\ GivesUp(i) => Deliveries(u)' <= Deliveries(u)
             /\ Counted(i) => /\ u # obj[i].uid => Deliveries(u)' = Deliveries(u)
                              /\ Deliveries(u)' <= Deliveries(u) + 1
                              /\ Reliable /\ u = obj[i].uid =>
                                   Deliveries(u)' = Deliveries(u) + 1
  <2>1. IsFiniteSet(delivered) /\ IsFiniteSet(BeingWritten(u))
    BY DEF CountInv
  <2>2. Deliveries(u) \in Nat
    BY <2>1, DeliveriesType
  <2>3. IsFiniteSet(delivered') /\ IsFiniteSet(BeingWritten(u)')
    BY <1>1, <1>2, <1>3, <2>1, DeliveriesStep
  <2>4. Deliveries(u)' \in Nat
    <3>1. {d \in delivered' : d[1] = u} \in SUBSET delivered'
      OBVIOUS
    <3>2. IsFiniteSet({d \in delivered' : d[1] = u})
      BY <2>3, <3>1, FS_Subset
    <3>3. Cardinality({d \in delivered' : d[1] = u}) \in Nat
            /\ Cardinality(BeingWritten(u)') \in Nat
      BY <2>3, <3>2, FS_CardinalityType
    <3> QED BY <3>3 DEF Deliveries
  <2> QED BY <1>1, <1>2, <1>3, <2>1, <2>2, <2>3, <2>4, DeliveriesStep
<1>6. ASSUME NEW n \in Names, store[n] # NoCSR
      PROVE  /\ store[n].uid \in Nat /\ store[n].fetches \in Nat
             /\ Counts(store[n].fetches, Deliveries(store[n].uid))
  BY <1>1, <1>6 DEF TypeInv, TypeOK, ApiTypeOK, CSR, CountInv, Exists
<1>7. ASSUME NEW n \in Names, store'[n] # NoCSR, NEW u, u = store'[n].uid
      PROVE  Counts(store'[n].fetches, Deliveries(u)')
  <2>1. u \in Nat
    BY <1>1, <1>7 DEF TypeInv, TypeOK, ApiTypeOK, CSR
  <2>2. CASE Counted(i)
    <3>1. Name(i) \in Names /\ store \in [Names -> CSR \cup {NoCSR}]
      BY <1>1 DEF TypeInv, TypeOK, ApiTypeOK, Config, Name
    <3>2. CASE n = Name(i)
      <4>1. /\ obj[i] \in CSR /\ store[n] = obj[i] /\ store[n] # NoCSR
        BY <2>2, <3>2, ApiAssumption DEF Counted
      <4>2. store'[n].fetches = store[n].fetches + 1 /\ u = store[n].uid
        BY <1>7, <2>2, <3>1, <3>2, <4>1 DEF Counted, UpdateCSR, CSR
      <4>3. /\ Deliveries(u) \in Nat /\ Deliveries(u)' \in Nat
            /\ Deliveries(u)' <= Deliveries(u) + 1
            /\ Reliable => Deliveries(u)' = Deliveries(u) + 1
        BY <1>5, <2>1, <2>2, <4>1, <4>2
      <4>4. store[n].fetches \in Nat /\ Counts(store[n].fetches, Deliveries(u))
        BY <1>6, <4>1, <4>2
      <4> QED BY <4>2, <4>3, <4>4 DEF Counts
    <3>3. CASE n # Name(i)
      <4>1. store'[n] = store[n] /\ store[n] # NoCSR
        BY <1>7, <2>2, <3>1, <3>3 DEF Counted, UpdateCSR
      <4>2. u # obj[i].uid
        BY <1>7, <2>2, <3>1, <3>3, <4>1, ApiAssumption DEF Counted, CountInv, Exists
      <4>3. Deliveries(u)' = Deliveries(u)
        BY <1>5, <2>1, <2>2, <4>2
      <4> QED BY <1>6, <1>7, <4>1, <4>3
    <3> QED BY <3>2, <3>3
  <2>3. CASE Quiet(i) \/ GivesUp(i) \/ Writes(i)
    <3>1. SameCounts
      BY <2>3 DEF Quiet, GivesUp, Writes, SameCounts, apiVars
    <3>2. CASE store[n] # NoCSR /\ u = store[n].uid /\ store'[n].fetches = store[n].fetches
      <4>1. store[n].fetches \in Nat /\ Counts(store[n].fetches, Deliveries(u))
        BY <1>6, <3>2
      <4>2. /\ Deliveries(u) \in Nat /\ Deliveries(u)' \in Nat
            /\ Deliveries(u)' <= Deliveries(u)
            /\ Reliable => Deliveries(u)' = Deliveries(u)
        BY <1>5, <2>1, <2>3 DEF GivesUp
      <4> QED BY <3>2, <4>1, <4>2 DEF Counts
    <3>3. CASE u = nextUid /\ store'[n].fetches = 0
      <4>1. Deliveries(u) = 0
        BY <3>3, NothingOfNew
      <4>2. Deliveries(u)' \in Nat /\ Deliveries(u)' <= Deliveries(u)
        BY <1>5, <2>1, <2>3
      <4>3. Deliveries(u)' = 0
        BY <4>1, <4>2
      <4> QED BY <3>3, <4>3 DEF Counts
    <3> QED BY <1>7, <3>1, <3>2, <3>3 DEF SameCounts
  <2> QED BY <1>2, <2>2, <2>3
<1>8. ASSUME NEW n \in Names, store'[n] # NoCSR
      PROVE  Counts(store'[n].fetches, Deliveries(store[n].uid)')
  <2>1. PICK u : u = store'[n].uid
    OBVIOUS
  <2>2. Deliveries(store[n].uid)' = Deliveries(u)'
    BY <2>1 DEF Deliveries, BeingWritten
  <2>3. Counts(store'[n].fetches, Deliveries(u)')
    BY <1>7, <1>8, <2>1
  <2> QED BY <2>2, <2>3
<1>9. IsFiniteSet(delivered') /\ \A u \in Nat : IsFiniteSet(BeingWritten(u)')
  BY <1>5
<1>10. \A m, n \in Names : Exists(m)' /\ Exists(n)' /\ store'[m].uid = store'[n].uid => m = n
  BY <1>1, UidsStep DEF Exists
<1>11. /\ \A d \in delivered' : d[1] < nextUid'
       /\ \A j \in Issuers : \A d \in delivered' :
            d[2] = j => d[3] <= runs'[j] /\ (Working(pc'[j]) => d[3] < runs'[j])
  BY PastStep
<1>12. \A n \in Names : Exists(n)' => Counts(store'[n].fetches, Deliveries(store[n].uid)')
  BY <1>8 DEF Exists
<1> QED BY <1>4, <1>9, <1>10, <1>11, <1>12 DEF CountInv

(* The cluster writes no certificate to a file, and changes no count.      *)
LEMMA CountEnvironment ==
  ASSUME SnapInv, CountInv, Environment
  PROVE  CountInv'
<1>1. /\ ApiTypeOK /\ Evolves /\ SameCounts /\ nextUid \in Nat
      /\ delivered \subseteq Nat \X Issuers \X Nat
      /\ UNCHANGED <<conf, pc, mem, obj, files, minted, runs, delivered>>
  BY EnvironmentEvolves, EnvironmentCounts
  DEF Environment, SnapInv, TypeInv, TypeOK, ApiTypeOK
<1>2. \A u : Deliveries(u)' = Deliveries(u) /\ BeingWritten(u)' = BeingWritten(u)
  BY <1>1 DEF Deliveries, BeingWritten, Has
<1>3. ASSUME NEW n \in Names, store'[n] # NoCSR
      PROVE  Counts(store'[n].fetches, Deliveries(store[n].uid)')
  <2>1. Deliveries(store[n].uid)' = Deliveries(store'[n].uid)
    BY <1>1 DEF Deliveries, BeingWritten, Has
  <2>2. CASE /\ store[n] # NoCSR /\ store'[n].uid = store[n].uid
             /\ store'[n].fetches = store[n].fetches
    BY <2>1, <2>2 DEF CountInv, Exists
  <2>3. CASE store'[n].uid = nextUid /\ store'[n].fetches = 0
    <3>1. Deliveries(store[n].uid)' = 0
      BY <2>1, <2>3, NothingOfNew
    <3> QED BY <2>3, <3>1 DEF Counts
  <2> QED BY <1>1, <1>3, <2>2, <2>3 DEF SameCounts
<1>4. \A d \in delivered : d[1] < nextUid'
  <2>1. nextUid' \in Nat /\ nextUid <= nextUid'
    BY <1>1 DEF Evolves
  <2>2. \A d \in delivered : d[1] \in Nat /\ d[1] < nextUid
    BY <1>1 DEF CountInv
  <2> QED BY <1>1, <2>1, <2>2
<1>5. \A m, n \in Names : Exists(m)' /\ Exists(n)' /\ store'[m].uid = store'[n].uid => m = n
  BY <1>1, UidsStep DEF Exists
<1> QED BY <1>1, <1>2, <1>3, <1>4, <1>5 DEF CountInv, Has, Exists

LEMMA CountInvariant ==
  ASSUME AnnotatesAll
  PROVE  Spec => []CountInv
<1>1. Init => CountInv
  <2> SUFFICES ASSUME Init PROVE CountInv
    OBVIOUS
  <2>1. \A u : BeingWritten(u) = {}
    BY DEF Init, BeingWritten, Opening, Flushing, Files
  <2>2. IsFiniteSet({}) /\ delivered = {}
    BY FS_EmptySet DEF Init
  <2>3. /\ \A i \in Issuers : pc[i] = "idle"
        /\ \A n \in Names : ~Exists(n)
    BY DEF Init, ApiInit, Exists
  <2> QED BY <2>1, <2>2, <2>3 DEF CountInv, HoldsCert
<1>2. SnapInv /\ CountInv /\ SnapInv' /\ [Next]_vars => CountInv'
  <2>1. ASSUME CountInv, UNCHANGED vars PROVE CountInv'
    BY <2>1 DEF vars, apiVars, CountInv, Has, Exists, Deliveries, BeingWritten
  <2> QED BY <2>1, CountIssuer, CountEnvironment DEF Next
<1> QED BY <1>1, <1>2, SnapInvariant, PTL DEF Spec

(* However many runs share an object, and whatever crashes, is lost or     *)
(* fails: no certificate is written from it that its fetchCount does not   *)
(* count.                                                                  *)
THEOREM CountCoversDeliveries ==
  ASSUME AnnotatesAll
  PROVE  Spec => []CountNeverLags
<1>1. CountInv => CountNeverLags
  BY DEF CountInv, CountNeverLags, Counts
<1> QED BY <1>1, CountInvariant, PTL

(* Where nothing comes between the count and the write, the fetchCount of  *)
(* an object is exact: concurrent updates lose no count and add none.      *)
THEOREM CountExact ==
  ASSUME AnnotatesAll, Reliable
  PROVE  Spec => []CountIsDeliveries
<1>1. CountInv => CountIsDeliveries
  BY DEF CountInv, CountIsDeliveries, Counts
<1> QED BY <1>1, CountInvariant, PTL

=============================================================================
