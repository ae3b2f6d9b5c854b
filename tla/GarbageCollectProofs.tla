------------------------ MODULE GarbageCollectProofs ------------------------
(***************************************************************************)
(* Theorems about GarbageCollect, for any set of names, predicates, grace  *)
(* period, mode and faults.                                                *)
(***************************************************************************)
EXTENDS GarbageCollect, CSRApiProofs, TLAPS

(* What the collector knows of its list: every item still to come was      *)
(* listed, and what is about to be deleted met its predicate; between the  *)
(* passes there is no item.                                                *)
ScanInv ==
  /\ GcTypeOK
  /\ \A n \in todo \cup ({cur} \cap Names) : snap[n] # NoCSR
  /\ gpc \in {"waiting", "list"} => cur = NoItem
  /\ gpc = "delete" =>
       /\ cur \in Names /\ k \in DOMAIN ShouldGC
       /\ Meets(ShouldGC[k], snap[cur], now)

(* Time does not make an object ineligible.                                *)
LEMMA MeetsLasts ==
  ASSUME NEW p, NEW r \in CSR, NEW t \in Nat, NEW u \in Nat, t <= u, Meets(p, r, t)
  PROVE  Meets(p, r, u)
<1>1. ASSUME NEW a \in Nat, Since(a, t) PROVE Since(a, u)
  BY <1>1, GcAssumption DEF Since
<1>2. /\ r.fetchedAt \in Nat
      /\ r.conds # << >> => r.conds[1].at \in Nat
      /\ r.cert # NoCert => r.cert.notAfter \in Nat
  <2>1. /\ r.fetchedAt \in Nat
        /\ r.conds \in Seq(Condition)
        /\ r.cert \in Certificate \cup {NoCert}
    BY DEF CSR
  <2>2. ASSUME r.conds # << >> PROVE r.conds[1].at \in Nat
    <3>1. r.conds[1] \in Condition
      BY <2>1, <2>2
    <3> QED BY <3>1 DEF Condition
  <2>3. ASSUME r.cert # NoCert PROVE r.cert.notAfter \in Nat
    BY <2>1, <2>3 DEF Certificate
  <2> QED BY <2>1, <2>2, <2>3
<1> QED BY <1>1, <1>2 DEF Meets, IsConditionDenied, IsAnnotationFetched, IsCertificateExpired

(* A predicate that holds is one of the chosen requirements.               *)
LEMMA MeetsRequired ==
  ASSUME NEW j \in DOMAIN ShouldGC, NEW r \in CSR, NEW t \in Nat, Meets(ShouldGC[j], r, t)
  PROVE  Required(r, t)
<1>1. Chosen(ShouldGC[j])
  BY DEF Chosen
<1>2. CASE ShouldGC[j] = "denied" /\ IsConditionDenied(r, t)
  <2>1. 1 \in DOMAIN r.conds
    BY <1>2 DEF IsConditionDenied, CSR
  <2> QED BY <1>1, <1>2, <2>1 DEF Required, IsConditionDenied, Since
<1>3. CASE ShouldGC[j] = "fetched" /\ IsAnnotationFetched(r, t)
  BY <1>1, <1>3 DEF Required, IsAnnotationFetched, Since, CSR
<1>4. CASE ShouldGC[j] = "expired" /\ IsCertificateExpired(r, t)
  BY <1>1, <1>4 DEF Required, IsCertificateExpired, Since
<1> QED BY <1>2, <1>3, <1>4 DEF Meets

LEMMA ScanCollector ==
  ASSUME ScanInv, Collector \/ DeleteReplyLost \/ CallError \/ Signal
  PROVE  ScanInv'
<1>1. /\ ApiTypeOK /\ Len(ShouldGC) \in Nat /\ DOMAIN ShouldGC = 1 .. Len(ShouldGC)
      /\ NoItem \notin Names /\ now \in Nat
  BY GcAssumption DEF ScanInv, GcTypeOK, ApiTypeOK
<1>2. UNCHANGED apiVars => ApiTypeOK'
  BY <1>1 DEF apiVars, ApiTypeOK
<1>3. ASSUME NEW r \in {"ok", "error"}, EndPass(r), ApiTypeOK', errors' \in Nat, UNCHANGED signals
      PROVE  ScanInv'
  BY <1>1, <1>3 DEF EndPass, Drop, NoPass, ScanInv, GcTypeOK
<1>4. CASE Tick
  BY <1>1, <1>2, <1>4 DEF Tick, ScanInv, GcTypeOK
<1>5. CASE List
  <2>1. /\ gpc' = "scan" /\ snap' = store /\ todo' = {n \in Names : Exists(n)}
        /\ listedAt' = now /\ UNCHANGED <<apiVars, cur, k, result, signals, errors>>
    BY <1>5 DEF List
  <2>2. GcTypeOK'
    BY <1>1, <1>2, <2>1 DEF ScanInv, GcTypeOK, ApiTypeOK
  <2>3. \A n \in todo' : snap'[n] # NoCSR
    BY <2>1 DEF Exists
  <2>4. cur' = NoItem
    BY <1>5, <2>1 DEF List, ScanInv
  <2> QED BY <1>1, <2>1, <2>2, <2>3, <2>4 DEF ScanInv
<1>6. CASE NextItem
  BY <1>1, <1>2, <1>6 DEF NextItem, ScanInv, GcTypeOK
<1>7. CASE Examine
  <2>1. cur \in Names /\ k \in 1 .. Len(ShouldGC)
    BY <1>1, <1>7 DEF Examine, ItemDone, ScanInv, GcTypeOK
  <2> QED BY <2>1, <1>1, <1>2, <1>7 DEF Examine, ScanInv, GcTypeOK, apiVars
<1>8. CASE DeleteItem
  <2>1. cur \in Names /\ k \in 1 .. Len(ShouldGC)
    BY <1>1, <1>8 DEF DeleteItem, ScanInv
  <2>2. CASE DeleteCSR(cur) /\ gpc' = "scan"
    BY <1>1, <1>8, <2>1, <2>2, DeleteType DEF DeleteItem, EndPass, ScanInv, GcTypeOK
  <2>3. CASE EndPass("error") /\ UNCHANGED apiVars
    BY <1>2, <1>3, <1>8, <2>3 DEF DeleteItem, ScanInv, GcTypeOK
  <2> QED BY <1>8, <2>2, <2>3 DEF DeleteItem
<1>9. CASE DeleteReplyLost
  <2>1. cur \in Names
    BY <1>9 DEF DeleteReplyLost, Failing, ScanInv
  <2> QED BY <1>1, <1>3, <1>9, <2>1, DeleteType DEF DeleteReplyLost, Failing, ScanInv, GcTypeOK
<1>10. CASE CallError
  BY <1>2, <1>3, <1>10 DEF CallError, Failing, ScanInv, GcTypeOK
<1>11. CASE PassDone
  BY <1>2, <1>3, <1>11 DEF PassDone, ScanInv, GcTypeOK
<1>12. CASE Signal
  BY <1>1, <1>2, <1>12 DEF Signal, ScanInv, GcTypeOK, apiVars
<1> QED BY <1>4, <1>5, <1>6, <1>7, <1>8, <1>9, <1>10, <1>11, <1>12 DEF Collector

LEMMA ScanOthers ==
  ASSUME ScanInv, Others
  PROVE  ScanInv'
<1>1. ApiTypeOK /\ now \in Nat
  BY DEF ScanInv, GcTypeOK, ApiTypeOK
<1>2. ApiTypeOK'
  <2>1. ASSUME NEW n \in Names, ClientCreate(n) PROVE ApiTypeOK'
    BY <1>1, <2>1, CreateType DEF ClientCreate
  <2>2. ASSUME NEW n \in Names, ClientFetch(n) PROVE ApiTypeOK'
    <3>1. store[n] \in CSR
      BY <1>1, <2>2 DEF ClientFetch, Exists, ApiTypeOK
    <3>2. [store[n] EXCEPT !.fetches = store[n].fetches + 1] \in CSR
      BY <3>1 DEF CSR
    <3>3. [[store[n] EXCEPT !.fetches = store[n].fetches + 1] EXCEPT !.fetchedAt = now] \in CSR
      BY <1>1, <3>2 DEF CSR
    <3>4. [store[n] EXCEPT !.fetches = store[n].fetches + 1, !.fetchedAt = now] \in CSR
      BY <3>1, <3>3 DEF CSR
    <3> QED BY <1>1, <2>2, <3>4, UpdateType DEF ClientFetch
  <2> QED BY <1>1, <2>1, <2>2, ClusterType DEF Others
<1>3. now' = now \/ now' = now + 1
  BY DEF Others, Cluster, Sign, AdminApprove, AdminDeny, AdminCondition, AdminDelete,
         UpdateCSR, DeleteCSR, ClockTick, ClientCreate, CreateCSR, ClientFetch
<1>4. gpc = "delete" => Meets(ShouldGC[k], snap[cur], now')
  <2>1. gpc = "delete" => snap[cur] \in CSR /\ Meets(ShouldGC[k], snap[cur], now)
    BY DEF ScanInv, GcTypeOK
  <2>2. now' \in Nat /\ now <= now'
    BY <1>1, <1>3
  <2> QED BY <1>1, <2>1, <2>2, MeetsLasts
<1> QED BY <1>2, <1>4 DEF Others, gcVars, ScanInv, GcTypeOK

LEMMA ScanInvariant == GcSpec => []ScanInv
<1>1. GcInit => ScanInv
  BY GcAssumption, ApiAssumption
  DEF GcInit, Entry, ApiInit, NoPass, ScanInv, GcTypeOK, ApiTypeOK
<1>2. ScanInv /\ [GcNext]_allVars => ScanInv'
  <2>1. ASSUME ScanInv, UNCHANGED allVars PROVE ScanInv'
    BY <2>1 DEF allVars, apiVars, gcVars, ScanInv, GcTypeOK, ApiTypeOK
  <2> QED BY <2>1, ScanCollector, ScanOthers DEF GcNext
<1> QED BY <1>1, <1>2, PTL DEF GcSpec

(* Every variable of the collector keeps its type.                         *)
THEOREM GcTypeCorrect == GcSpec => []GcTypeOK
<1>1. ScanInv => GcTypeOK
  BY DEF ScanInv
<1> QED BY <1>1, ScanInvariant, PTL

(* An object deleted as it was listed meets a requirement of the README.   *)
THEOREM CollectsOnlyRequired == GcSpec => DeletesOnlyRequired
<1>1. ScanInv /\ [GcNext]_allVars =>
        [\A n \in Names : Deletes(n) /\ store[n] = snap[n] => Required(store[n], now)]_allVars
  <2>1. ASSUME ScanInv, NEW n \in Names, Deletes(n), store[n] = snap[n]
        PROVE  Required(store[n], now)
    <3>1. /\ n = cur /\ k \in DOMAIN ShouldGC /\ Meets(ShouldGC[k], snap[cur], now)
          /\ store[n] \in CSR /\ now \in Nat
      BY <2>1 DEF Deletes, ScanInv, GcTypeOK, ApiTypeOK
    <3> QED BY <2>1, <3>1, MeetsRequired
  <2> QED BY <2>1
<1> QED BY <1>1, ScanInvariant, PTL DEF GcSpec, DeletesOnlyRequired

-----------------------------------------------------------------------------
(* What a pass has done so far: an item it is done with, and that was      *)
(* eligible when it was listed, is gone, and so is the current item if one *)
(* of the predicates already tried held of it then.                        *)
DoneWith(n) == n \notin todo /\ n # cur /\ snap[n] # NoCSR

PassInv ==
  /\ ScanInv
  /\ listedAt <= now
  /\ \A n \in Names : Exists(n) => store[n].uid < nextUid
  /\ \A n \in Names : snap[n] # NoCSR => snap[n].uid < nextUid
  /\ \A n \in Names : DoneWith(n) /\ Eligible(snap[n], listedAt) => ~Survives(n)
  /\ cur # NoItem => \A j \in DOMAIN ShouldGC :
       j < k /\ Meets(ShouldGC[j], snap[cur], listedAt) => ~Survives(cur)

(* Every step of the other actors, and every write of the collector, makes *)
(* the store evolve.                                                       *)
LEMMA StoreEvolves ==
  ASSUME ScanInv, GcNext
  PROVE  Evolves /\ (Others /\ "delete" \notin AdminActions => Keeps)
<1>1. ApiTypeOK /\ now \in Nat
  BY DEF ScanInv, GcTypeOK, ApiTypeOK
<1>2. UNCHANGED apiVars => Evolves /\ Keeps
  BY <1>1, EvolvesBySame DEF apiVars
<1>3. ASSUME DeleteItem \/ DeleteReplyLost PROVE Evolves
  <2>1. cur \in Names
    BY <1>3 DEF DeleteItem, DeleteReplyLost, Failing, ScanInv
  <2> QED BY <1>1, <1>2, <1>3, <2>1, EvolvesByDelete DEF DeleteItem, DeleteReplyLost
<1>4. ASSUME NEW n \in Names, ClientCreate(n) PROVE Evolves /\ Keeps
  BY <1>1, <1>4, EvolvesByCreate DEF ClientCreate
<1>5. ASSUME NEW n \in Names, ClientFetch(n) PROVE Evolves /\ Keeps
  <2> DEFINE s == [store[n] EXCEPT !.fetches = store[n].fetches + 1]
             r == [store[n] EXCEPT !.fetches = store[n].fetches + 1, !.fetchedAt = now]
  <2>1. store[n] \in CSR
    BY <1>1, <1>5 DEF ClientFetch, Exists, ApiTypeOK
  <2>2. s \in CSR
    BY <2>1 DEF CSR
  <2>3. [s EXCEPT !.fetchedAt = now] \in CSR
    BY <1>1, <2>2 DEF CSR
  <2>4. r \in CSR /\ r.uid = store[n].uid /\ r.rv = store[n].rv
    BY <2>1, <2>3 DEF CSR
  <2> HIDE DEF r, s
  <2> QED BY <1>1, <1>5, <2>1, <2>4, EvolvesByUpdate DEF ClientFetch, r
<1>6. ASSUME Others PROVE Evolves /\ ("delete" \notin AdminActions => Keeps)
  BY <1>1, <1>4, <1>5, <1>6, EnvironmentEvolves DEF Others
<1> QED BY <1>2, <1>3, <1>6
    DEF GcNext, Collector, Tick, List, Examine, NextItem, PassDone, CallError, Signal

(* An object that is gone does not come back.                              *)
LEMMA GoneForGood ==
  ASSUME PassInv, Evolves, UNCHANGED snap, NEW n \in Names, snap[n] # NoCSR, ~Survives(n)
  PROVE  ~Survives(n)'
<1>1. /\ snap[n] \in CSR /\ snap[n].uid < nextUid /\ nextUid \in Nat
      /\ snap[n].uid \in Nat
  BY DEF PassInv, ScanInv, GcTypeOK, ApiTypeOK, CSR
<1>2. CASE store'[n] = store[n] \/ store'[n] = NoCSR
  BY <1>2 DEF Survives, Exists
<1>3. CASE store'[n].uid = nextUid
  BY <1>1, <1>3 DEF Survives
<1>4. CASE store[n] \in CSR /\ store'[n].uid = store[n].uid
  BY <1>4, ApiAssumption DEF Survives, Exists
<1> QED BY <1>2, <1>3, <1>4 DEF Evolves

(* What holds in all steps: uids and time only grow.                       *)
LEMMA PassBasics ==
  ASSUME PassInv, GcNext
  PROVE  /\ ScanInv' /\ Evolves /\ now' \in Nat /\ now \in Nat /\ listedAt \in Nat
         /\ now <= now'
         /\ \A n \in Names : store'[n] # NoCSR => store'[n].uid < nextUid'
         /\ UNCHANGED snap => \A n \in Names : snap'[n] # NoCSR => snap'[n].uid < nextUid'
<1>1. ScanInv /\ ApiTypeOK /\ now \in Nat /\ listedAt \in Nat
  BY DEF PassInv, ScanInv, GcTypeOK, ApiTypeOK
<1>2. ScanInv'
  BY <1>1, ScanCollector, ScanOthers DEF GcNext
<1>3. Evolves
  BY <1>1, StoreEvolves
<1>4. now' = now \/ now' = now + 1
  BY DEF GcNext, Collector, Tick, List, Examine, NextItem, DeleteItem, PassDone, Signal,
         DeleteReplyLost, CallError, apiVars,
         Others, Cluster, Sign, AdminApprove, AdminDeny, AdminCondition, AdminDelete,
         UpdateCSR, DeleteCSR, ClockTick, ClientCreate, CreateCSR, ClientFetch
<1>5. \A n \in Names : store'[n] # NoCSR => store'[n].uid < nextUid'
  BY <1>1, <1>3, UidsBelow DEF PassInv
<1>6. ASSUME UNCHANGED snap, NEW n \in Names, snap'[n] # NoCSR PROVE snap'[n].uid < nextUid'
  <2>1. snap[n] \in CSR /\ snap[n].uid < nextUid /\ nextUid \in Nat
    BY <1>6 DEF PassInv, ScanInv, GcTypeOK, ApiTypeOK
  <2>2. snap[n].uid \in Nat
    BY <2>1 DEF CSR
  <2> QED BY <1>3, <1>6, <2>1, <2>2 DEF Evolves
<1> QED BY <1>1, <1>2, <1>3, <1>4, <1>5, <1>6

(* The end of a pass forgets everything.                                   *)
LEMMA PassEnds ==
  ASSUME PassInv, GcNext, NEW r \in {"ok", "error"}, EndPass(r)
  PROVE  PassInv'
<1>1. /\ snap' = NoPass /\ cur' = NoItem /\ listedAt' = 0
  BY DEF EndPass, Drop
<1>2. \A n \in Names : snap'[n] = NoCSR
  BY <1>1 DEF NoPass
<1> QED BY <1>1, <1>2, PassBasics DEF PassInv, DoneWith, Exists

(* Where the list, the current item and the index stay.                    *)
LEMMA PassStays ==
  ASSUME PassInv, GcNext, UNCHANGED <<snap, todo, cur, k, listedAt>>
  PROVE  PassInv'
<1>1. \A n \in Names : snap[n] # NoCSR /\ ~Survives(n) => ~Survives(n)'
  BY PassBasics, GoneForGood
<1>2. listedAt' <= now'
  BY PassBasics DEF PassInv
<1>3. ASSUME NEW n \in Names, DoneWith(n)', Eligible(snap[n], listedAt)' PROVE ~Survives(n)'
  <2>1. DoneWith(n) /\ Eligible(snap[n], listedAt)
    BY <1>3 DEF DoneWith, Eligible
  <2> QED BY <1>1, <2>1 DEF PassInv, DoneWith
<1>4. ASSUME cur' # NoItem, NEW j \in DOMAIN ShouldGC, j < k',
             Meets(ShouldGC[j], snap'[cur'], listedAt')
      PROVE  ~Survives(cur)'
  <2>1. cur \in Names /\ snap[cur] # NoCSR
    BY <1>4 DEF PassInv, ScanInv, GcTypeOK
  <2> QED BY <1>1, <1>4, <2>1 DEF PassInv
<1> QED BY <1>2, <1>3, <1>4, PassBasics DEF PassInv, Exists

LEMMA PassStep ==
  ASSUME PassInv, GcNext
  PROVE  PassInv'
<1> USE DEF Exists
<1>1. /\ ScanInv /\ GcTypeOK /\ ApiTypeOK /\ Len(ShouldGC) \in Nat
      /\ DOMAIN ShouldGC = 1 .. Len(ShouldGC) /\ NoItem \notin Names
      /\ k \in Nat
  BY GcAssumption DEF PassInv, ScanInv, GcTypeOK
<1>2. UNCHANGED snap => \A n \in Names : snap[n] # NoCSR /\ ~Survives(n) => ~Survives(n)'
  BY PassBasics, GoneForGood
<1>3. CASE List
  <2>1. /\ snap' = store /\ todo' = {n \in Names : Exists(n)} /\ listedAt' = now /\ now' = now
        /\ cur' = NoItem /\ nextUid' = nextUid
    BY <1>3 DEF List, PassInv, ScanInv, apiVars
  <2>2. \A n \in Names : ~DoneWith(n)'
    BY <2>1 DEF DoneWith
  <2>3. \A n \in Names : snap'[n] # NoCSR => snap'[n].uid < nextUid'
    BY <2>1 DEF PassInv
  <2>4. listedAt' <= now'
    BY <2>1, PassBasics
  <2> QED BY <2>1, <2>2, <2>3, <2>4, PassBasics DEF PassInv
<1>4. CASE NextItem
  <2>1. /\ UNCHANGED <<snap, listedAt, apiVars>> /\ k' = 1 /\ ItemDone
        /\ cur' \in todo /\ todo' = todo \ {cur'}
    BY <1>4 DEF NextItem
  <2>2. cur # NoItem => k > Len(ShouldGC)
    BY <2>1 DEF ItemDone
  <2>3. ASSUME NEW n \in Names, DoneWith(n)', Eligible(snap[n], listedAt)' PROVE ~Survives(n)'
    <3>1. n \notin todo /\ snap[n] # NoCSR /\ Eligible(snap[n], listedAt)
      BY <2>1, <2>3 DEF DoneWith, Eligible
    <3>2. CASE n # cur
      BY <1>2, <2>1, <3>1, <3>2 DEF PassInv, DoneWith
    <3>3. CASE n = cur
      <4>1. PICK j \in DOMAIN ShouldGC : Meets(ShouldGC[j], snap[n], listedAt)
        BY <3>1 DEF Eligible
      <4>2. j < k
        BY <1>1, <2>2, <3>3
      <4> QED BY <1>1, <1>2, <2>1, <3>1, <3>3, <4>1, <4>2 DEF PassInv
    <3> QED BY <3>2, <3>3
  <2>4. \A j \in DOMAIN ShouldGC : ~(j < k')
    BY <1>1, <2>1
  <2>5. listedAt' <= now'
    BY <2>1 DEF PassInv, apiVars
  <2> QED BY <2>1, <2>3, <2>4, <2>5, PassBasics DEF PassInv
<1>5. CASE Examine
  <2>1. /\ UNCHANGED <<snap, listedAt, todo, cur, apiVars>> /\ cur # NoItem
        /\ cur \in Names /\ snap[cur] \in CSR /\ snap[cur] # NoCSR
        /\ k \in DOMAIN ShouldGC
    BY <1>1, <1>5 DEF Examine, ItemDone, GcTypeOK, ScanInv
  <2>2. CASE k' = k
    BY <1>5, <2>1, <2>2, PassStays
  <2>3. CASE k' = k + 1 /\ ~Meets(ShouldGC[k], snap[cur], now)
    <3>1. ~Meets(ShouldGC[k], snap[cur], listedAt)
      BY <2>1, <2>3, MeetsLasts, PassBasics DEF PassInv
    <3>2. \A j \in DOMAIN ShouldGC : j < k' => j < k \/ j = k
      BY <1>1, <2>3
    <3>3. ASSUME NEW j \in DOMAIN ShouldGC, j < k', Meets(ShouldGC[j], snap'[cur'], listedAt')
          PROVE  ~Survives(cur)'
      BY <1>2, <2>1, <3>1, <3>2, <3>3 DEF PassInv
    <3>4. ASSUME NEW n \in Names, DoneWith(n)', Eligible(snap[n], listedAt)' PROVE ~Survives(n)'
      <4>1. DoneWith(n) /\ Eligible(snap[n], listedAt)
        BY <2>1, <3>4 DEF DoneWith, Eligible
      <4> QED BY <1>2, <2>1, <4>1 DEF PassInv, DoneWith
    <3>5. listedAt' <= now'
      BY <2>1 DEF PassInv, apiVars
    <3> QED BY <3>3, <3>4, <3>5, <2>1, PassBasics DEF PassInv
  <2> QED BY <1>5, <2>2, <2>3 DEF Examine
<1>6. CASE DeleteItem /\ DeleteCSR(cur) /\ gpc' = "scan" /\ k' = k + 1
           /\ UNCHANGED <<snap, todo, cur, result, listedAt>>
  <2>1. cur \in Names /\ store'[cur] = NoCSR
    BY <1>1, <1>6 DEF DeleteItem, DeleteCSR, ScanInv, ApiTypeOK
  <2>2. ~Survives(cur)'
    BY <1>6, <2>1 DEF Survives
  <2>3. ASSUME NEW n \in Names, DoneWith(n)', Eligible(snap[n], listedAt)' PROVE ~Survives(n)'
    <3>1. DoneWith(n) /\ Eligible(snap[n], listedAt)
      BY <1>6, <2>3 DEF DoneWith, Eligible
    <3> QED BY <1>2, <1>6, <3>1 DEF PassInv, DoneWith
  <2>4. listedAt' <= now'
    BY <1>6, PassBasics DEF PassInv
  <2> QED BY <1>6, <2>2, <2>3, <2>4, PassBasics DEF PassInv
<1>7. CASE DeleteItem \/ DeleteReplyLost \/ CallError \/ PassDone
  BY <1>6, <1>7, PassEnds DEF DeleteItem, DeleteReplyLost, CallError, PassDone
<1>8. CASE Tick \/ Signal \/ Others
  BY <1>8, PassStays DEF Tick, Signal, Others, gcVars
<1> QED BY <1>3, <1>4, <1>5, <1>7, <1>8 DEF GcNext, Collector

LEMMA PassInvariant == GcSpec => []PassInv
<1>1. GcInit => PassInv
  <2> SUFFICES ASSUME GcInit PROVE PassInv
    OBVIOUS
  <2>1. ScanInv
    BY GcAssumption, ApiAssumption
    DEF GcInit, Entry, ApiInit, NoPass, ScanInv, GcTypeOK, ApiTypeOK
  <2>2. /\ \A n \in Names : store[n] = NoCSR /\ snap[n] = NoCSR
        /\ listedAt = 0 /\ now = 1 /\ cur = NoItem
    BY DEF GcInit, ApiInit, NoPass
  <2> QED BY <2>1, <2>2 DEF PassInv, DoneWith, Exists
<1>2. PassInv /\ [GcNext]_allVars => PassInv'
  <2>1. ASSUME PassInv, UNCHANGED allVars PROVE PassInv'
    BY <2>1 DEF allVars, apiVars, gcVars, PassInv, ScanInv, GcTypeOK, ApiTypeOK, DoneWith,
                Survives, Exists
  <2> QED BY <2>1, PassStep
<1> QED BY <1>1, <1>2, PTL DEF GcSpec

LEMMA EligibleGone ==
  ASSUME PassInv
  PROVE  PassCollectsEligible
<1> SUFFICES ASSUME PassInv, Scanned, NEW n \in Listed, Eligible(snap[n], listedAt)
             PROVE  ~Survives(n)
  BY DEF PassCollectsEligible
<1>1. CASE n # cur
  BY <1>1 DEF PassInv, DoneWith, Scanned, Listed
<1>2. CASE n = cur
  <2>1. PICK j \in DOMAIN ShouldGC : Meets(ShouldGC[j], snap[n], listedAt)
    BY DEF Eligible
  <2>2. cur # NoItem /\ k > Len(ShouldGC) /\ k \in Nat /\ j \in 1 .. Len(ShouldGC)
        /\ Len(ShouldGC) \in Nat
    BY <1>2, GcAssumption DEF Scanned, ItemDone, Listed, PassInv, ScanInv, GcTypeOK
  <2> QED BY <1>2, <2>1, <2>2 DEF PassInv
<1> QED BY <1>1, <1>2

(* A pass that ends without an error has collected everything that was     *)
(* eligible when it listed, whatever happened to the objects meanwhile.    *)
THEOREM CollectsAllEligible == GcSpec => []PassCollectsEligible
BY EligibleGone, PassInvariant, PTL

-----------------------------------------------------------------------------
(* No object meets two of the predicates: at most one of them, besides     *)
(* "denied".                                                               *)
Exclusive ==
  \A i, j \in DOMAIN ShouldGC : i # j =>
    ShouldGC[i] # ShouldGC[j] /\ "denied" \in {ShouldGC[i], ShouldGC[j]}

(* A certificate is only ever fetched once signed, and signed once the     *)
(* request was approved, before any denial.                                *)
Orderly(r) ==
  /\ r.fetches # 0 => r.cert # NoCert
  /\ r.cert # NoCert => r.conds # << >> /\ r.conds[1].type = "Approved"

(* Of the objects listed, only those the pass has deleted have gone: none  *)
(* of the items to come, and the current item only by a predicate already  *)
(* tried.                                                                  *)
SeenInv ==
  /\ PassInv
  /\ \A n \in Names : store[n] # NoCSR => Orderly(store[n])
  /\ \A n \in Names : snap[n] # NoCSR => Orderly(snap[n])
  /\ cur \notin todo
  /\ \A n \in Names : snap[n] # NoCSR /\ ~Survives(n) =>
       /\ n \notin todo
       /\ n = cur => \E j \in DOMAIN ShouldGC : j < k /\ Meets(ShouldGC[j], snap[n], now)

LEMMA MeetsOne ==
  ASSUME Exclusive, NEW r \in CSR, Orderly(r), NEW t \in Nat,
         NEW i \in DOMAIN ShouldGC, NEW j \in DOMAIN ShouldGC,
         Meets(ShouldGC[i], r, t), Meets(ShouldGC[j], r, t)
  PROVE  i = j
<1> SUFFICES ASSUME i # j PROVE FALSE
  OBVIOUS
<1>1. IsConditionDenied(r, t) => ~IsAnnotationFetched(r, t) /\ ~IsCertificateExpired(r, t)
  BY DEF Orderly, IsConditionDenied, IsAnnotationFetched, IsCertificateExpired
<1>2. /\ ShouldGC[i] # ShouldGC[j]
      /\ ShouldGC[i] = "denied" \/ ShouldGC[j] = "denied"
  BY DEF Exclusive
<1> QED BY <1>1, <1>2 DEF Meets

LEMMA OrderlyStore ==
  ASSUME SeenInv, GcNext
  PROVE  \A n \in Names : store'[n] # NoCSR => Orderly(store'[n])
<1> DEFINE Fine == \A n \in Names : store[n] # NoCSR => Orderly(store[n])
<1>1. ApiTypeOK /\ now \in Nat /\ Fine
  BY DEF SeenInv, PassInv, ScanInv, GcTypeOK, ApiTypeOK
<1>2. ASSUME UNCHANGED store PROVE Fine'
  BY <1>1, <1>2
<1>3. ASSUME NEW n \in Names, DeleteCSR(n) PROVE Fine'
  BY <1>1, <1>3 DEF DeleteCSR, ApiTypeOK
<1>4. ASSUME NEW n \in Names, NEW key \in Keys, CreateCSR(n, key) PROVE Fine'
  <2>1. Orderly(NewCSR(key))
    BY DEF Orderly, NewCSR
  <2> QED BY <1>1, <1>4, <2>1 DEF CreateCSR, ApiTypeOK
<1>5. ASSUME NEW n \in Names, NEW r \in CSR, Orderly(r), UpdateCSR(n, r) PROVE Fine'
  <2>1. Orderly([r EXCEPT !.rv = r.rv + 1])
    BY <1>5 DEF Orderly, CSR
  <2> QED BY <1>1, <1>5, <2>1 DEF UpdateCSR, ApiTypeOK
<1>6. ASSUME NEW n \in Names, ClientFetch(n) PROVE Fine'
  <2> DEFINE s == [store[n] EXCEPT !.fetches = store[n].fetches + 1]
             r == [store[n] EXCEPT !.fetches = store[n].fetches + 1, !.fetchedAt = now]
  <2>1. store[n] \in CSR /\ Orderly(store[n]) /\ store[n].cert # NoCert
    BY <1>1, <1>6 DEF ClientFetch, Exists, ApiTypeOK
  <2>2. s \in CSR
    BY <2>1 DEF CSR
  <2>3. [s EXCEPT !.fetchedAt = now] \in CSR
    BY <1>1, <2>2 DEF CSR
  <2>4. r \in CSR /\ r.cert = store[n].cert /\ r.conds = store[n].conds
    BY <2>1, <2>3 DEF CSR
  <2>5. Orderly(r)
    BY <2>1, <2>4 DEF Orderly
  <2>6. UpdateCSR(n, r)
    BY <1>6 DEF ClientFetch
  <2> HIDE DEF r, s
  <2> QED BY <1>5, <2>4, <2>5, <2>6
<1>7. ASSUME NEW n \in Names, Sign(n) PROVE Fine'
  <2>1. PICK life \in Lifetimes :
          UpdateCSR(n, [store[n] EXCEPT !.cert =
                          [key |-> store[n].request, notAfter |-> now + life]])
    BY <1>7 DEF Sign
  <2> DEFINE c == [key |-> store[n].request, notAfter |-> now + life]
             r == [store[n] EXCEPT !.cert = c]
  <2>2. /\ store[n] \in CSR /\ Orderly(store[n])
        /\ HasCondition(store[n], "Approved") /\ ~HasCondition(store[n], "Denied")
    BY <1>1, <1>7 DEF Sign, Exists, ApiTypeOK
  <2>3. c \in Certificate
    BY <1>1, <2>2, ApiAssumption DEF CSR, Certificate
  <2>4. store[n].conds # << >> /\ store[n].conds[1].type = "Approved"
    <3>1. store[n].conds \in Seq(Condition)
      BY <2>2 DEF CSR
    <3>2. PICK j \in DOMAIN store[n].conds : store[n].conds[j].type = "Approved"
      BY <2>2 DEF HasCondition
    <3>3. 1 \in DOMAIN store[n].conds
      BY <3>1, <3>2
    <3>4. store[n].conds[1] \in Condition
      BY <3>1, <3>3
    <3>5. store[n].conds[1].type \in {"Approved", "Denied"}
      BY <3>4 DEF Condition
    <3> QED BY <2>2, <3>1, <3>3, <3>5 DEF HasCondition
  <2>5. r \in CSR /\ r.conds = store[n].conds /\ r.cert = c
    BY <2>2, <2>3 DEF CSR
  <2>6. Orderly(r)
    BY <2>3, <2>4, <2>5, ApiAssumption DEF Orderly
  <2>7. UpdateCSR(n, r)
    BY <2>1
  <2> HIDE DEF r, c
  <2> QED BY <1>5, <2>5, <2>6, <2>7
<1>8. ASSUME NEW n \in Names, AdminApprove(n) \/ AdminDeny(n) PROVE Fine'
  <2>1. PICK t \in {"Approved", "Denied"} :
          Exists(n) /\ UpdateCSR(n, WithCondition(store[n], t, now))
    BY <1>8 DEF AdminApprove, AdminDeny, AdminCondition
  <2>2. store[n] \in CSR /\ Orderly(store[n])
    BY <1>1, <2>1 DEF Exists, ApiTypeOK
  <2> DEFINE r == WithCondition(store[n], t, now)
  <2>3. r \in CSR
    BY <1>1, <2>2, ConditionKeeps
  <2>4. /\ r.cert = store[n].cert /\ r.fetches = store[n].fetches
        /\ r.conds = Append(store[n].conds, [type |-> t, at |-> now])
    BY <2>2 DEF WithCondition, CSR
  <2>5. store[n].conds # << >> => r.conds # << >> /\ r.conds[1] = store[n].conds[1]
    <3>1. store[n].conds \in Seq(Condition) /\ [type |-> t, at |-> now] \in Condition
      BY <1>1, <2>2 DEF CSR, Condition
    <3> QED BY <2>4, <3>1
  <2>6. Orderly(r)
    BY <2>2, <2>4, <2>5 DEF Orderly
  <2>7. UpdateCSR(n, r)
    BY <2>1
  <2> HIDE DEF r
  <2> QED BY <1>5, <2>3, <2>6, <2>7
<1>9. CASE Others
  BY <1>2, <1>3, <1>4, <1>6, <1>7, <1>8, <1>9
  DEF Others, Cluster, AdminDelete, ClockTick, ClientCreate
<1>10. CASE DeleteItem \/ DeleteReplyLost
  <2>1. cur \in Names
    BY <1>10 DEF DeleteItem, DeleteReplyLost, Failing, SeenInv, PassInv, ScanInv
  <2> QED BY <1>2, <1>3, <1>10, <2>1 DEF DeleteItem, DeleteReplyLost, apiVars
<1> QED BY <1>2, <1>9, <1>10
    DEF GcNext, Collector, Tick, List, Examine, NextItem, PassDone, CallError, Signal, apiVars

LEMMA SeenStep ==
  ASSUME "delete" \notin AdminActions, SeenInv, GcNext
  PROVE  SeenInv'
<1>1. PassInv' /\ \A n \in Names : store'[n] # NoCSR => Orderly(store'[n])
  BY PassStep, OrderlyStore DEF SeenInv
<1>2. /\ PassInv /\ ScanInv /\ now \in Nat /\ now' \in Nat /\ now <= now'
      /\ k \in Nat /\ NoItem \notin Names /\ todo \subseteq Names
  BY PassBasics, GcAssumption DEF SeenInv, PassInv, ScanInv, GcTypeOK
<1>3. ASSUME NEW r \in {"ok", "error"}, EndPass(r) PROVE SeenInv'
  <2>1. cur' = NoItem /\ todo' = {} /\ \A n \in Names : snap'[n] = NoCSR
    BY <1>3 DEF EndPass, Drop, NoPass
  <2> QED BY <1>1, <2>1 DEF SeenInv
<1>4. CASE List
  <2>1. /\ snap' = store /\ store' = store /\ cur' = NoItem
        /\ todo' = {n \in Names : Exists(n)}
    BY <1>4 DEF List, apiVars, SeenInv, PassInv, ScanInv
  <2>2. \A n \in Names : snap'[n] # NoCSR => Survives(n)'
    BY <2>1 DEF Survives, Exists
  <2> QED BY <1>1, <1>2, <2>1, <2>2 DEF SeenInv
<1>5. CASE NextItem
  <2>1. /\ UNCHANGED <<snap, store>> /\ cur' \in todo /\ todo' = todo \ {cur'}
    BY <1>5 DEF NextItem, apiVars
  <2>2. \A n \in Names : Survives(n)' <=> Survives(n)
    BY <2>1 DEF Survives, Exists
  <2> QED BY <1>1, <2>1, <2>2 DEF SeenInv
<1>6. CASE Examine \/ Tick \/ Signal
  <2>1. UNCHANGED <<snap, store, now, todo, cur>> /\ k' \in {k, k + 1}
    BY <1>6 DEF Examine, Tick, Signal, apiVars
  <2>2. \A n \in Names : Survives(n)' <=> Survives(n)
    BY <2>1 DEF Survives, Exists
  <2>3. \A j \in DOMAIN ShouldGC : j < k => j < k'
    BY <1>2, <2>1, GcAssumption
  <2> QED BY <1>1, <2>1, <2>2, <2>3 DEF SeenInv
<1>7. CASE DeleteItem /\ DeleteCSR(cur) /\ k' = k + 1
           /\ UNCHANGED <<snap, todo, cur, result, listedAt>>
  <2>1. /\ cur \in Names /\ k \in DOMAIN ShouldGC
        /\ Meets(ShouldGC[k], snap[cur], now) /\ now' = now
    BY <1>2, <1>7 DEF DeleteItem, DeleteCSR, ScanInv
  <2>2. \A n \in Names : n # cur => (Survives(n)' <=> Survives(n))
    BY <1>2, <1>7 DEF DeleteCSR, Survives, Exists, ScanInv, GcTypeOK, ApiTypeOK
  <2>3. \A j \in DOMAIN ShouldGC : j < k => j < k'
    BY <1>2, <1>7, GcAssumption
  <2>4. k < k'
    BY <1>2, <1>7
  <2> QED BY <1>1, <1>7, <2>1, <2>2, <2>3, <2>4 DEF SeenInv
<1>8. CASE DeleteItem \/ DeleteReplyLost \/ CallError \/ PassDone
  BY <1>3, <1>7, <1>8 DEF DeleteItem, DeleteReplyLost, CallError, PassDone
<1>9. CASE Others
  <2>1. UNCHANGED <<snap, todo, cur, k>> /\ Keeps
    BY <1>2, <1>9, StoreEvolves DEF Others, gcVars
  <2>2. ASSUME NEW n \in Names, snap'[n] # NoCSR, ~Survives(n)' PROVE ~Survives(n)
    BY <2>1, <2>2 DEF Keeps, Survives, Exists
  <2>3. ASSUME NEW n \in Names, snap[n] # NoCSR, NEW j \in DOMAIN ShouldGC,
               Meets(ShouldGC[j], snap[n], now)
        PROVE  Meets(ShouldGC[j], snap[n], now')
    <3>1. snap[n] \in CSR
      BY <2>3, <1>2 DEF ScanInv, GcTypeOK
    <3> QED BY <1>2, <2>3, <3>1, MeetsLasts
  <2> QED BY <1>1, <2>1, <2>2, <2>3 DEF SeenInv
<1> QED BY <1>4, <1>5, <1>6, <1>8, <1>9 DEF GcNext, Collector

LEMMA SeenInvariant ==
  ASSUME "delete" \notin AdminActions
  PROVE  GcSpec => []SeenInv
<1>1. GcInit /\ PassInv => SeenInv
  BY DEF GcInit, ApiInit, NoPass, SeenInv
<1>2. SeenInv /\ [GcNext]_allVars => SeenInv'
  <2>1. ASSUME SeenInv, UNCHANGED allVars, PassInv' PROVE SeenInv'
    BY <2>1 DEF allVars, apiVars, gcVars, SeenInv, Survives, Exists
  <2>2. ASSUME SeenInv, UNCHANGED allVars PROVE PassInv'
    BY <2>2 DEF allVars, apiVars, gcVars, SeenInv, PassInv, ScanInv, GcTypeOK, ApiTypeOK,
                DoneWith, Survives, Exists
  <2> QED BY <2>1, <2>2, SeenStep
<1> QED BY <1>1, <1>2, PassInvariant, PTL DEF GcSpec

-----------------------------------------------------------------------------
(* Every step of the collector and of the others is a step of a sweep, or  *)
(* leaves it where it is.                                                  *)
LEMMA StepSweeps ==
  ASSUME "delete" \notin AdminActions, Exclusive, SeenInv, GcNext
  PROVE  Sweeper!SweepNext \/ UNCHANGED Sweeper!sweepVars
<1>1. PassInv /\ ScanInv /\ ApiTypeOK /\ now \in Nat /\ k \in Nat
  BY GcAssumption DEF SeenInv, PassInv, ScanInv, GcTypeOK, ApiTypeOK
<1>2. ASSUME NEW r, EndPass(r) PROVE Sweeper!Over(r)
  BY <1>2 DEF EndPass, Drop, Sweeper!Over, Sweeper!Nothing, NoPass
<1>3. CASE List
  BY <1>3 DEF List, Sweeper!SweepNext, Sweeper!Look, apiVars, Sweeper!apiVars
<1>4. ASSUME NEW n \in {cur}, DeleteItem \/ DeleteReplyLost, Exists(n), DeleteCSR(n),
             EndPass("error") \/ UNCHANGED <<snap, listedAt, result>>
      PROVE  Sweeper!SweepNext
  <2>1. /\ n \in Names /\ k \in DOMAIN ShouldGC
        /\ Meets(ShouldGC[k], snap[n], now)
        /\ snap[n] # NoCSR
    BY <1>1, <1>4 DEF DeleteItem, DeleteReplyLost, Failing, ScanInv
  <2>2. Eligible(snap[n], now)
    BY <2>1 DEF Eligible
  <2>3. Sweeper!Exists(n) /\ Sweeper!DeleteCSR(n)
    BY <1>4 DEF Exists, DeleteCSR, Sweeper!Exists, Sweeper!DeleteCSR
  <2>4. store[n].uid = snap[n].uid
    <3> SUFFICES ASSUME ~Survives(n) PROVE FALSE
      BY DEF Survives
    <3>1. PICK j \in DOMAIN ShouldGC : j < k /\ Meets(ShouldGC[j], snap[n], now)
      BY <2>1 DEF SeenInv
    <3>2. snap[n] \in CSR /\ Orderly(snap[n])
      BY <1>1, <2>1 DEF SeenInv, ScanInv, GcTypeOK
    <3>3. j = k
      BY <1>1, <2>1, <3>1, <3>2, MeetsOne
    <3> QED BY <1>1, <3>1, <3>3
  <2>5. Sweeper!Remove(n)
    BY <1>2, <1>4, <2>1, <2>2, <2>3, <2>4 DEF Sweeper!Remove
  <2> QED BY <2>1, <2>5 DEF Sweeper!SweepNext
<1>5. ASSUME EndPass("error"), UNCHANGED apiVars PROVE Sweeper!SweepNext
  BY <1>2, <1>5 DEF Sweeper!SweepNext, Sweeper!Abort, apiVars, Sweeper!apiVars
<1>6. CASE DeleteItem \/ DeleteReplyLost \/ CallError
  BY <1>4, <1>5, <1>6 DEF DeleteItem, DeleteReplyLost, CallError
<1>7. CASE PassDone
  <2>1. \A n \in Names : snap[n] # NoCSR /\ Eligible(snap[n], listedAt) => ~Survives(n)
    <3>1. Scanned
      BY <1>7 DEF PassDone, Scanned
    <3> QED BY <1>1, <3>1, EligibleGone DEF PassCollectsEligible, Listed
  <2>2. \A n \in Names : snap[n] # NoCSR /\ ~Survives(n) => Sweeper!Gone(n)
    BY DEF Survives, Exists, Sweeper!Gone
  <2>3. Sweeper!Over("ok") /\ UNCHANGED Sweeper!apiVars
    BY <1>2, <1>7 DEF PassDone, apiVars, Sweeper!apiVars
  <2> QED BY <2>1, <2>2, <2>3 DEF Sweeper!SweepNext, Sweeper!Finish
<1>8. CASE Others
  <2>1. \A n \in Names :
          store[n] # NoCSR => store'[n] # NoCSR /\ store'[n].uid = store[n].uid
    BY <1>1, <1>8, StoreEvolves DEF Keeps
  <2> QED BY <1>8, <2>1 DEF Others, gcVars, Sweeper!SweepNext, Sweeper!OthersAct, Sweeper!Exists
<1>9. CASE Tick \/ NextItem \/ Examine \/ Signal
  BY <1>9 DEF Tick, NextItem, Examine, Signal, apiVars, Sweeper!sweepVars, Sweeper!apiVars
<1> QED BY <1>3, <1>6, <1>7, <1>8, <1>9 DEF GcNext, Collector

(* The collector implements the sweep, as long as nobody else deletes and  *)
(* no object meets two of the predicates: what is then deleted under a     *)
(* name is the very object that was listed.  For any set of names, grace   *)
(* period, mode and faults.                                                *)
THEOREM GcImplementsSweep ==
  ASSUME "delete" \notin AdminActions, Exclusive
  PROVE  GcSpec => ImplementsSweep
<1>1. GcInit => Sweeper!SweepInit
  BY DEF GcInit, ApiInit, NoPass, Sweeper!SweepInit, Sweeper!ApiInit, Sweeper!Nothing
<1>2. SeenInv /\ [GcNext]_allVars => [Sweeper!SweepNext]_(Sweeper!sweepVars)
  <2>1. UNCHANGED allVars => UNCHANGED Sweeper!sweepVars
    BY DEF allVars, apiVars, gcVars, Sweeper!sweepVars, Sweeper!apiVars
  <2> QED BY <2>1, StepSweeps
<1> QED BY <1>1, <1>2, SeenInvariant, PTL DEF GcSpec, ImplementsSweep, Sweeper!SweepSpec

=============================================================================
