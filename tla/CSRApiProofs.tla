---------------------------- MODULE CSRApiProofs ----------------------------
(***************************************************************************)
(* Lemmas about the API server's operations, for the proofs about the      *)
(* modules that use them.                                                  *)
(***************************************************************************)
EXTENDS CSRApi, TLAPS

(* The types of the API server's state survive each of its writes.         *)
LEMMA CreateType ==
  ASSUME ApiTypeOK, NEW n \in Names, NEW k \in Keys, CreateCSR(n, k)
  PROVE  ApiTypeOK'
BY ApiAssumption DEF ApiTypeOK, CreateCSR, NewCSR, CSR

LEMMA NewCSRType ==
  ASSUME ApiTypeOK, NEW k \in Keys
  PROVE  NewCSR(k) \in CSR
BY DEF ApiTypeOK, NewCSR, CSR

LEMMA DeleteType ==
  ASSUME ApiTypeOK, NEW n \in Names, DeleteCSR(n)
  PROVE  ApiTypeOK'
BY DEF ApiTypeOK, DeleteCSR

LEMMA UpdateType ==
  ASSUME ApiTypeOK, NEW n \in Names, NEW r \in CSR, UpdateCSR(n, r)
  PROVE  ApiTypeOK'
<1>1. [r EXCEPT !.rv = r.rv + 1] \in CSR
  BY DEF CSR
<1> QED BY <1>1 DEF ApiTypeOK, UpdateCSR

LEMMA ConditionType ==
  ASSUME NEW r \in CSR, NEW t \in {"Approved", "Denied"}, NEW at \in Nat
  PROVE  WithCondition(r, t, at) \in CSR
<1>1. [type |-> t, at |-> at] \in Condition
  BY DEF Condition
<1>2. Append(r.conds, [type |-> t, at |-> at]) \in Seq(Condition)
  BY <1>1 DEF CSR
<1> QED BY <1>2 DEF WithCondition, CSR

(* What the signer and the administrators do keeps the types.              *)
LEMMA ClusterType ==
  ASSUME ApiTypeOK, Cluster
  PROVE  ApiTypeOK'
<1>1. ASSUME NEW n \in Names, Sign(n) PROVE ApiTypeOK'
  <2>1. PICK life \in Lifetimes :
          UpdateCSR(n, [store[n] EXCEPT !.cert =
                          [key |-> store[n].request, notAfter |-> now + life]])
    BY <1>1 DEF Sign
  <2>2. store[n] \in CSR
    BY <1>1 DEF Sign, Exists, ApiTypeOK
  <2>3. [key |-> store[n].request, notAfter |-> now + life] \in Certificate
    BY <2>2, ApiAssumption DEF CSR, Certificate, ApiTypeOK
  <2>4. [store[n] EXCEPT !.cert =
          [key |-> store[n].request, notAfter |-> now + life]] \in CSR
    BY <2>2, <2>3 DEF CSR
  <2> QED BY <2>1, <2>4, UpdateType
<1>2. ASSUME NEW n \in Names, AdminApprove(n) \/ AdminDeny(n) PROVE ApiTypeOK'
  <2>1. PICK t \in {"Approved", "Denied"} :
          Exists(n) /\ UpdateCSR(n, WithCondition(store[n], t, now))
    BY <1>2 DEF AdminApprove, AdminDeny, AdminCondition
  <2>2. WithCondition(store[n], t, now) \in CSR
    BY <2>1, ConditionType DEF Exists, ApiTypeOK
  <2> QED BY <2>1, <2>2, UpdateType
<1>3. ASSUME NEW n \in Names, AdminDelete(n) PROVE ApiTypeOK'
  BY <1>3, DeleteType DEF AdminDelete
<1>4. CASE ClockTick
  BY <1>4 DEF ClockTick, ApiTypeOK
<1> QED BY <1>1, <1>2, <1>3, <1>4 DEF Cluster

(* What the server's objects may become in one step: one changes at most.  *)
Evolves ==
  /\ nextUid' \in Nat /\ nextUid <= nextUid'
  /\ \A n \in Names :
       \/ store'[n] = store[n]
       \/ store'[n] = NoCSR
       \/ store'[n] \in CSR /\ store'[n].uid = nextUid /\ nextUid < nextUid'
       \/ /\ store[n] \in CSR /\ store'[n] \in CSR
          /\ store'[n].uid = store[n].uid /\ store'[n].rv = store[n].rv + 1
  /\ \A m, n \in Names : store'[m] # store[m] /\ store'[n] # store[n] => m = n

(* No object vanishes, and none is replaced.                               *)
Keeps == \A n \in Names :
  store[n] # NoCSR => store'[n] # NoCSR /\ store'[n].uid = store[n].uid

LEMMA EvolvesByCreate ==
  ASSUME ApiTypeOK, NEW n \in Names, NEW k \in Keys, CreateCSR(n, k)
  PROVE  /\ Evolves /\ store'[n] = NewCSR(k)
         /\ ~Exists(n) => Keeps
<1>1. NewCSR(k) \in CSR /\ NewCSR(k).uid = nextUid
  BY NewCSRType DEF NewCSR
<1> QED BY <1>1, ApiAssumption DEF ApiTypeOK, CreateCSR, Evolves, Keeps, Exists

LEMMA EvolvesByDelete ==
  ASSUME ApiTypeOK, NEW n \in Names, DeleteCSR(n)
  PROVE  Evolves
BY DEF ApiTypeOK, DeleteCSR, Evolves

LEMMA EvolvesByUpdate ==
  ASSUME ApiTypeOK, NEW n \in Names, store[n] \in CSR, NEW r \in CSR,
         r.uid = store[n].uid, r.rv = store[n].rv, UpdateCSR(n, r)
  PROVE  Evolves /\ Keeps
<1> DEFINE w == [r EXCEPT !.rv = r.rv + 1]
<1>1. w \in CSR /\ w.uid = r.uid /\ w.rv = r.rv + 1
  BY DEF CSR
<1>2. store'[n] = w /\ \A m \in Names : m # n => store'[m] = store[m]
  BY DEF UpdateCSR, ApiTypeOK
<1> HIDE DEF w
<1> QED BY <1>1, <1>2, ApiAssumption DEF Evolves, Keeps, UpdateCSR, ApiTypeOK

LEMMA EvolvesBySame ==
  ASSUME ApiTypeOK, UNCHANGED <<store, nextUid>>
  PROVE  Evolves /\ Keeps
BY DEF ApiTypeOK, Evolves, Keeps

LEMMA ConditionKeeps ==
  ASSUME NEW r \in CSR, NEW t \in {"Approved", "Denied"}, NEW at \in Nat
  PROVE  /\ WithCondition(r, t, at) \in CSR
         /\ WithCondition(r, t, at).uid = r.uid
         /\ WithCondition(r, t, at).rv = r.rv
BY ConditionType DEF WithCondition, CSR

(* Every step of the signer, the administrators and the clock evolves.     *)
LEMMA EnvironmentEvolves ==
  ASSUME ApiTypeOK, Cluster
  PROVE  Evolves /\ ("delete" \notin AdminActions => Keeps)
<1>1. ASSUME NEW n \in Names, Sign(n) PROVE Evolves /\ Keeps
  <2>1. PICK life \in Lifetimes :
          UpdateCSR(n, [store[n] EXCEPT !.cert =
                          [key |-> store[n].request, notAfter |-> now + life]])
    BY <1>1 DEF Sign
  <2>2. store[n] \in CSR
    BY <1>1 DEF Sign, Exists, ApiTypeOK
  <2>3. [key |-> store[n].request, notAfter |-> now + life] \in Certificate
    BY <2>2, ApiAssumption DEF CSR, Certificate, ApiTypeOK
  <2> DEFINE s == [store[n] EXCEPT !.cert =
                     [key |-> store[n].request, notAfter |-> now + life]]
  <2>4. s \in CSR /\ s.uid = store[n].uid /\ s.rv = store[n].rv
    BY <2>2, <2>3 DEF CSR
  <2> HIDE DEF s
  <2> QED BY <2>1, <2>2, <2>4, EvolvesByUpdate DEF s
<1>2. ASSUME NEW n \in Names, AdminApprove(n) \/ AdminDeny(n) PROVE Evolves /\ Keeps
  <2>1. PICK t \in {"Approved", "Denied"} :
          Exists(n) /\ UpdateCSR(n, WithCondition(store[n], t, now))
    BY <1>2 DEF AdminApprove, AdminDeny, AdminCondition
  <2>2. store[n] \in CSR /\ now \in Nat
    BY <2>1 DEF Exists, ApiTypeOK
  <2> QED BY <2>1, <2>2, ConditionKeeps, EvolvesByUpdate
<1>3. ASSUME NEW n \in Names, AdminDelete(n) PROVE Evolves
  BY <1>3, EvolvesByDelete DEF AdminDelete
<1>4. CASE ClockTick
  BY <1>4, EvolvesBySame DEF ClockTick
<1> QED BY <1>1, <1>2, <1>3, <1>4 DEF Cluster, AdminDelete

(* Evolution keeps the uids below the next one.                            *)
LEMMA UidsBelow ==
  ASSUME ApiTypeOK, Evolves, \A n \in Names : Exists(n) => store[n].uid < nextUid
  PROVE  \A n \in Names : store'[n] # NoCSR => store'[n].uid < nextUid'
<1> SUFFICES ASSUME NEW n \in Names, store'[n] # NoCSR
             PROVE  store'[n].uid < nextUid'
  OBVIOUS
<1>1. nextUid \in Nat /\ nextUid' \in Nat /\ nextUid <= nextUid'
  BY DEF ApiTypeOK, Evolves
<1>2. CASE store'[n] = store[n]
  <2>1. store[n] \in CSR
    BY <1>2 DEF ApiTypeOK
  <2> QED BY <1>1, <1>2, <2>1 DEF CSR, Exists
<1>3. CASE store'[n].uid = nextUid /\ nextUid < nextUid'
  BY <1>3
<1>4. CASE store[n] \in CSR /\ store'[n].uid = store[n].uid
  BY <1>1, <1>4, ApiAssumption DEF CSR, Exists
<1> QED BY <1>2, <1>3, <1>4 DEF Evolves

=============================================================================
