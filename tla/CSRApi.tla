------------------------------- MODULE CSRApi -------------------------------
(***************************************************************************)
(* The certificatesigningrequests resource of certificates.k8s.io/v1beta1, *)
(* as the client-go calls of pkg/operation use it, and the cluster actors  *)
(* that work on the same objects: the signer of the controller-manager,    *)
(* and administrators with kubectl.  All of it is external to the          *)
(* repository; every behaviour here is one the repository's calls rely on. *)
(*                                                                         *)
(* An object has an incarnation (uid) and a version (rv).  A write that    *)
(* carries an object read earlier is refused with a Conflict when either   *)
(* has moved on; a Delete names the object only.  A public key stands for  *)
(* the whole signing request: two requests are the same exactly when they  *)
(* are for the same key.                                                   *)
(***************************************************************************)
EXTENDS Naturals, Sequences

CONSTANTS
  Names,         \* names of CSR objects
  Keys,          \* key pairs that may be generated
  NoCSR,         \* no object (a Get that answers NotFound)
  NoCert,        \* .Status.Certificate is nil
  Lifetimes,     \* how long a signed certificate may live
  AdminActions,  \* what administrators do: "approve", "deny", "delete"
  MaxClock       \* bound on the clock

VARIABLES
  store,    \* name -> the object stored under it, or NoCSR
  nextUid,  \* the uid of the next object created
  now       \* the clock all actors read

apiVars == <<store, nextUid, now>>

Condition   == [type : {"Approved", "Denied"}, at : Nat]
Certificate == [key : Keys, notAfter : Nat]

(* fetches and fetchedAt are the annotations alpha.kube-csr/fetchCount and *)
(* lastFetchTime; 0 stands for an absent annotation.                       *)
CSR == [uid : Nat, rv : Nat, request : Keys, conds : Seq(Condition),
        cert : Certificate \cup {NoCert}, fetches : Nat, fetchedAt : Nat]

ASSUME ApiAssumption ==
  /\ NoCSR \notin CSR
  /\ NoCert \notin Certificate
  /\ Lifetimes \subseteq Nat
  /\ MaxClock \in Nat

ApiTypeOK ==
  /\ store \in [Names -> CSR \cup {NoCSR}]
  /\ nextUid \in Nat
  /\ now \in Nat

ApiInit ==
  /\ store = [n \in Names |-> NoCSR]
  /\ nextUid = 1
  /\ now = 1

-----------------------------------------------------------------------------
Exists(n) == store[n] # NoCSR

HasCondition(r, t) == \E k \in DOMAIN r.conds : r.conds[k].type = t

(* The object r a client holds is still what the server stores.            *)
Current(n, r) == Exists(n) /\ store[n].uid = r.uid /\ store[n].rv = r.rv

NewCSR(k) == [uid |-> nextUid, rv |-> 0, request |-> k, conds |-> << >>,
              cert |-> NoCert, fetches |-> 0, fetchedAt |-> 0]

(* The effects of the calls the server accepts.                            *)
CreateCSR(n, k) ==
  /\ store' = [store EXCEPT ![n] = NewCSR(k)]
  /\ nextUid' = nextUid + 1
  /\ UNCHANGED now

DeleteCSR(n) ==
  /\ store' = [store EXCEPT ![n] = NoCSR]
  /\ UNCHANGED <<nextUid, now>>

UpdateCSR(n, r) ==
  /\ store' = [store EXCEPT ![n] = [r EXCEPT !.rv = r.rv + 1]]
  /\ UNCHANGED <<nextUid, now>>

WithCondition(r, t, at) ==
  [r EXCEPT !.conds = Append(r.conds, [type |-> t, at |-> at])]

-----------------------------------------------------------------------------
(* The signer issues a certificate for a request that is approved and not  *)
(* denied.                                                                 *)
Sign(n) ==
  /\ Exists(n)
  /\ HasCondition(store[n], "Approved")
  /\ ~HasCondition(store[n], "Denied")
  /\ store[n].cert = NoCert
  /\ \E life \in Lifetimes :
       UpdateCSR(n, [store[n] EXCEPT !.cert =
                       [key |-> store[n].request, notAfter |-> now + life]])

(* kubectl certificate approve | deny: adds the condition once.            *)
AdminCondition(n, op, t) ==
  /\ op \in AdminActions
  /\ Exists(n)
  /\ ~HasCondition(store[n], t)
  /\ UpdateCSR(n, WithCondition(store[n], t, now))

AdminApprove(n) == AdminCondition(n, "approve", "Approved")
AdminDeny(n)    == AdminCondition(n, "deny", "Denied")

AdminDelete(n) ==
  /\ "delete" \in AdminActions
  /\ Exists(n)
  /\ DeleteCSR(n)

ClockTick ==
  /\ now < MaxClock
  /\ now' = now + 1
  /\ UNCHANGED <<store, nextUid>>

Cluster ==
  \/ \E n \in Names : Sign(n) \/ AdminApprove(n) \/ AdminDeny(n) \/ AdminDelete(n)
  \/ ClockTick

=============================================================================
