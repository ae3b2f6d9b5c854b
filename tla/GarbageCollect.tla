--------------------------- MODULE GarbageCollect ---------------------------
(***************************************************************************)
(* kube-csr garbage-collect: one pass, or a pass per tick (--daemon), over *)
(* the CSR objects of the API server.  A pass lists the objects once, then *)
(* examines what the list returned, item by item and predicate by          *)
(* predicate, and deletes by name; issuers, administrators and the signer  *)
(* go on working meanwhile.                                                *)
(***************************************************************************)
EXTENDS CSRApi, FiniteSets

CONSTANTS
  NoItem,       \* no item of the list is current
  ShouldGC,     \* the chosen predicates, in the order they are tried
  GracePeriod,
  Daemon,       \* TRUE: GarbageCollectLoop, FALSE: one GarbageCollect
  GcFaults,     \* subset of {"transport", "signal"}
  MaxObjects,   \* bound on the objects ever created
  MaxFetches,   \* bound on the fetches of one object
  MaxErrors     \* bound on the calls that fail

VARIABLES
  gpc,       \* where the collector stands
  snap,      \* name -> the object the last List returned, or NoCSR
  todo,      \* names of the items of the list still to come
  cur,       \* name of the current item, or NoItem
  k,         \* index of the predicate to try next on it
  result,    \* how the last pass ended
  listedAt,  \* history: time of the last List
  signals,   \* SIGINT, SIGTERM received
  errors     \* calls that failed

gcVars  == <<gpc, snap, todo, cur, k, result, listedAt, signals, errors>>
allVars == <<apiVars, gcVars>>

ASSUME GcAssumption ==
  /\ IsFiniteSet(Names)
  /\ NoItem \notin Names
  /\ ShouldGC \in Seq({"denied", "fetched", "expired"})
  /\ GracePeriod \in Nat
  /\ Daemon \in BOOLEAN
  /\ GcFaults \subseteq {"transport", "signal"}
  /\ MaxErrors \in Nat

-----------------------------------------------------------------------------
(* The predicates, on an object r at time t.  Mutant: the grace period is  *)
(* not waited for.                                                         *)
Since(at, t) == at + GracePeriod <= t

IsConditionDenied_NoGrace(r, t) == r.conds # << >> /\ r.conds[1].type = "Denied"
IsConditionDenied(r, t) ==
  r.conds # << >> /\ r.conds[1].type = "Denied" /\ Since(r.conds[1].at, t)

IsAnnotationFetched(r, t) ==
  r.fetches # 0 /\ r.fetchedAt # 0 /\ Since(r.fetchedAt, t)

IsCertificateExpired(r, t) == r.cert # NoCert /\ Since(r.cert.notAfter, t)

Meets(p, r, t) ==
  \/ p = "denied"  /\ IsConditionDenied(r, t)
  \/ p = "fetched" /\ IsAnnotationFetched(r, t)
  \/ p = "expired" /\ IsCertificateExpired(r, t)

Eligible(r, t) == \E j \in DOMAIN ShouldGC : Meets(ShouldGC[j], r, t)

-----------------------------------------------------------------------------
(* newGarbageCollector: the order of the predicates is not that of the     *)
(* flags.                                                                  *)
InOrder(flags) == SelectSeq(<<"denied", "fetched", "expired">>, LAMBDA p : p \in flags)

NoPass == [n \in Names |-> NoCSR]

(* --daemon or not.                                                        *)
Entry == IF Daemon THEN "waiting" ELSE "list"

GcInit ==
  /\ ApiInit
  /\ gpc = Entry
  /\ snap = NoPass
  /\ todo = {}
  /\ cur = NoItem
  /\ k = 1
  /\ result = "none"
  /\ listedAt = 0
  /\ signals = 0 /\ errors = 0

(* The ticker of the loop.                                                 *)
Tick ==
  /\ gpc = "waiting"
  /\ gpc' = "list"
  /\ UNCHANGED <<apiVars, snap, todo, cur, k, result, listedAt, signals, errors>>

(* The end of a pass: what it listed is dropped; the loop counts an error  *)
(* and waits for the next tick.                                            *)
Drop ==
  /\ snap' = NoPass /\ todo' = {} /\ cur' = NoItem /\ k' = 1
  /\ listedAt' = 0

EndPass(r) ==
  /\ gpc' = IF Daemon THEN "waiting" ELSE "stopped"
  /\ result' = r
  /\ Drop

Listed   == {n \in Names : snap[n] # NoCSR}
ItemDone == cur = NoItem \/ k > Len(ShouldGC)

List ==
  /\ gpc = "list"
  /\ gpc' = "scan"
  /\ snap' = store
  /\ todo' = {n \in Names : Exists(n)}
  /\ listedAt' = now
  /\ UNCHANGED <<apiVars, cur, k, result, signals, errors>>

(* The next item; the order of the list is left open.  Mutant: the index   *)
(* of the predicates is not set back.                                      *)
NextItem_KeepsIndex ==
  /\ gpc = "scan" /\ ItemDone
  /\ \E n \in todo : cur' = n /\ todo' = todo \ {n}
  /\ UNCHANGED <<apiVars, gpc, snap, k, result, listedAt, signals, errors>>
NextItem ==
  /\ gpc = "scan" /\ ItemDone
  /\ \E n \in todo : cur' = n /\ todo' = todo \ {n}
  /\ k' = 1
  /\ UNCHANGED <<apiVars, gpc, snap, result, listedAt, signals, errors>>

(* The predicate k on the current item: as the list returned it, now.      *)
(* Mutant: the index moves on before the delete as well as after it.       *)
Examine_MovesOn ==
  /\ gpc = "scan" /\ ~ItemDone
  /\ k' = k + 1
  /\ gpc' = IF Meets(ShouldGC[k], snap[cur], now) THEN "delete" ELSE gpc
  /\ UNCHANGED <<apiVars, snap, todo, cur, result, listedAt, signals, errors>>
Examine ==
  /\ gpc = "scan" /\ ~ItemDone
  /\ IF Meets(ShouldGC[k], snap[cur], now)
       THEN gpc' = "delete" /\ UNCHANGED k
       ELSE k' = k + 1 /\ UNCHANGED gpc
  /\ UNCHANGED <<apiVars, snap, todo, cur, result, listedAt, signals, errors>>

(* Delete, by name; the next predicate is tried on the same item.  The     *)
(* first error, of an object that is gone too, ends the pass.  Mutant: the *)
(* delete is repeated until it succeeds.                                   *)
DeleteItem_Retries ==
  /\ gpc = "delete"
  /\ Exists(cur)
  /\ DeleteCSR(cur)
  /\ gpc' = "scan" /\ k' = k + 1
  /\ UNCHANGED <<snap, todo, cur, result, listedAt, signals, errors>>
DeleteItem ==
  /\ gpc = "delete"
  /\ \/ /\ Exists(cur)
        /\ DeleteCSR(cur)
        /\ gpc' = "scan" /\ k' = k + 1
        /\ UNCHANGED <<snap, todo, cur, result, listedAt>>
     \/ /\ ~Exists(cur)
        /\ EndPass("error")
        /\ UNCHANGED apiVars
  /\ UNCHANGED <<signals, errors>>

(* A call fails: the delete is applied and its answer is lost, or nothing  *)
(* has happened.  Mutant: an error ends the pass as if it were complete.   *)
Failing ==
  /\ "transport" \in GcFaults
  /\ errors < MaxErrors
  /\ errors' = errors + 1

DeleteReplyLost ==
  /\ Failing
  /\ gpc = "delete" /\ Exists(cur)
  /\ DeleteCSR(cur)
  /\ EndPass("error")
  /\ UNCHANGED signals

CallError_Swallowed ==
  /\ Failing
  /\ gpc \in {"list", "delete"}
  /\ EndPass("ok")
  /\ UNCHANGED <<apiVars, signals>>
CallError ==
  /\ Failing
  /\ gpc \in {"list", "delete"}
  /\ EndPass("error")
  /\ UNCHANGED <<apiVars, signals>>

PassDone ==
  /\ gpc = "scan" /\ ItemDone /\ todo = {}
  /\ EndPass("ok")
  /\ UNCHANGED <<apiVars, signals, errors>>

(* SIGINT, SIGTERM.  The loop hears it only where it waits (its channel    *)
(* has no buffer); a single pass has no handler, and dies.                 *)
Signal ==
  /\ "signal" \in GcFaults
  /\ gpc # "stopped"
  /\ signals = 0                      \* bound: one signal
  /\ signals' = 1
  /\ gpc' = IF Daemon /\ gpc # "waiting" THEN gpc ELSE "stopped"
  /\ UNCHANGED <<apiVars, snap, todo, cur, k, result, listedAt, errors>>

Collector == Tick \/ List \/ Examine \/ NextItem \/ DeleteItem \/ PassDone

-----------------------------------------------------------------------------
(* What issue runs do to the objects meanwhile.                            *)
ClientCreate(n) ==
  /\ nextUid <= MaxObjects
  /\ ~Exists(n)
  /\ \E key \in Keys : CreateCSR(n, key)

ClientFetch(n) ==
  /\ Exists(n)
  /\ store[n].cert # NoCert
  /\ store[n].fetches < MaxFetches
  /\ UpdateCSR(n, [store[n] EXCEPT !.fetches = store[n].fetches + 1, !.fetchedAt = now])

Others ==
  /\ Cluster \/ \E n \in Names : ClientCreate(n) \/ ClientFetch(n)
  /\ UNCHANGED gcVars

GcNext == Collector \/ DeleteReplyLost \/ CallError \/ Signal \/ Others

GcSpec == GcInit /\ [][GcNext]_allVars

(* The ticker fires and every call returns; the clock goes on.             *)
GcFairSpec == GcSpec /\ WF_allVars(Collector) /\ WF_allVars(ClockTick /\ UNCHANGED gcVars)

-----------------------------------------------------------------------------
GcTypeOK ==
  /\ ApiTypeOK
  /\ gpc \in {"waiting", "list", "scan", "delete", "stopped"}
  /\ snap \in [Names -> CSR \cup {NoCSR}]
  /\ todo \in SUBSET Names
  /\ cur \in Names \cup {NoItem}
  /\ k \in 1 .. Len(ShouldGC) + 1
  /\ result \in {"none", "ok", "error"}
  /\ listedAt \in Nat
  /\ signals \in 0 .. 1
  /\ errors \in Nat

(* The requirements of the README, independent of the predicates: an       *)
(* object denied, fetched, or with an expired certificate, and the grace   *)
(* period over.                                                            *)
Chosen(p) == \E j \in DOMAIN ShouldGC : ShouldGC[j] = p

Required(r, t) ==
  \/ Chosen("denied") /\ \E j \in DOMAIN r.conds :
       r.conds[j].type = "Denied" /\ r.conds[j].at + GracePeriod <= t
  \/ Chosen("fetched") /\ r.fetches > 0 /\ r.fetchedAt + GracePeriod <= t
  \/ Chosen("expired") /\ r.cert # NoCert /\ r.cert.notAfter + GracePeriod <= t

Deletes(n) == gpc = "delete" /\ n = cur /\ store[n] # NoCSR /\ store'[n] = NoCSR
                /\ gpc' # "delete"

(* An object the collector deletes while it is still as the list returned  *)
(* it meets a chosen requirement, its grace period included, at the moment *)
(* it is deleted: not only the predicates, but the way they are applied to *)
(* the items of the list.                                                  *)
DeletesOnlyRequired ==
  [][\A n \in Names : Deletes(n) /\ store[n] = snap[n] => Required(store[n], now)]_allVars

(* "Delete any Kubernetes csr resources who meets the chosen requirements" *)
(* (README): whatever the collector deletes meets one, as it is then.      *)
DeletesOnlyNeeded ==
  [][\A n \in Names : Deletes(n) => Required(store[n], now)]_allVars

(* A pass that comes to its end has collected every object that was       *)
(* eligible when it listed them.                                           *)
Scanned == gpc = "scan" /\ ItemDone /\ todo = {}
Survives(n) == Exists(n) /\ store[n].uid = snap[n].uid

PassCollectsEligible ==
  Scanned => \A n \in Listed : Eligible(snap[n], listedAt) => ~Survives(n)

(* A pass, however it interleaves with the other actors, is a sweep: the   *)
(* list is one look at the store, each delete removes a listed object, the *)
(* same incarnation, that qualified as listed, and a pass without an error *)
(* has left none.  It is one as long as nobody replaces what is listed:    *)
(* nobody else deletes, and no object meets two of the predicates.         *)
Sweeper == INSTANCE Sweep WITH
             Qualifies <- Eligible, seen <- snap, at <- listedAt, outcome <- result

ImplementsSweep == Sweeper!SweepSpec

(* The loop "returns on error or SIGINT/TERM": where there have been both, *)
(* it ends, be it for the one or for the other.                            *)
LoopEnds == result = "error" /\ signals = 1 ~> gpc = "stopped"

(* The daemon collects every eligible object in the end, unless a signal   *)
(* stops it, in spite of the passes that end with an error on the way (a   *)
(* call that failed, an item two requirements hold of).                    *)
Due(n) == Exists(n) /\ Eligible(store[n], now)

EventuallyCollected ==
  \A n \in Names : Due(n) ~> ~Due(n) \/ (gpc = "stopped" /\ signals = 1)

=============================================================================
