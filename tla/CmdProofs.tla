------------------------------ MODULE CmdProofs ------------------------------
(***************************************************************************)
(* What Cmd keeps, for every set of command lines, every list of services, *)
(* every specification they may have and any number of processes and runs: *)
(* its types, that a renewer and --override are never refused, and that a  *)
(* request names all the addresses found unless a query has failed.        *)
(***************************************************************************)
EXTENDS Cmd, FiniteSetTheorems, TLAPS

-----------------------------------------------------------------------------
(* The sequences of hosts.                                                 *)

(* What the query appends is added, and nothing is lost.                   *)
LEMMA Appended ==
  ASSUME NEW a \in Seq(Nat), NEW b \in Seq(Nat)
  PROVE  /\ a \o b \in Seq(Nat)
         /\ ToSet(a \o b) = ToSet(a) \cup ToSet(b)
<1>1. /\ a \o b \in Seq(Nat)
      /\ DOMAIN (a \o b) = 1 .. Len(a) + Len(b)
      /\ DOMAIN a = 1 .. Len(a) /\ DOMAIN b = 1 .. Len(b)
      /\ Len(a) \in Nat /\ Len(b) \in Nat
  OBVIOUS
<1>2. \A i \in DOMAIN a : i \in DOMAIN (a \o b) /\ (a \o b)[i] = a[i]
  OBVIOUS
<1>3. \A i \in DOMAIN b : Len(a) + i \in DOMAIN (a \o b) /\ (a \o b)[Len(a) + i] = b[i]
  OBVIOUS
<1>4. \A i \in DOMAIN (a \o b) :
        i \notin DOMAIN a => i - Len(a) \in DOMAIN b /\ (a \o b)[i] = b[i - Len(a)]
  OBVIOUS
<1>5. ASSUME NEW x \in ToSet(a \o b) PROVE x \in ToSet(a) \cup ToSet(b)
  <2>1. PICK i \in DOMAIN (a \o b) : x = (a \o b)[i]
    BY <1>5 DEF ToSet
  <2>2. CASE i \in DOMAIN a
    BY <2>1, <2>2, <1>2 DEF ToSet
  <2>3. CASE i \notin DOMAIN a
    BY <2>1, <2>3, <1>4 DEF ToSet
  <2> QED BY <2>2, <2>3
<1>6. ASSUME NEW x \in ToSet(a) PROVE x \in ToSet(a \o b)
  <2>1. PICK i \in DOMAIN a : x = a[i]
    BY <1>6 DEF ToSet
  <2> QED BY <2>1, <1>2 DEF ToSet
<1>7. ASSUME NEW x \in ToSet(b) PROVE x \in ToSet(a \o b)
  <2>1. PICK i \in DOMAIN b : x = b[i]
    BY <1>7 DEF ToSet
  <2> QED BY <2>1, <1>3 DEF ToSet
<1> QED BY <1>1, <1>5, <1>6, <1>7

LEMMA HostsOfSeq ==
  ASSUME NEW a \in Seq(Nat)
  PROVE  ToSet(a) \subseteq Nat /\ IsFiniteSet(ToSet(a))
<1>1. DOMAIN a = 1 .. Len(a) /\ Len(a) \in Nat /\ \A i \in DOMAIN a : a[i] \in Nat
  OBVIOUS
<1>2. ToSet(a) \subseteq Nat
  BY <1>1 DEF ToSet
<1>3. IsFiniteSet(DOMAIN a)
  BY <1>1, FS_Interval
<1>4. [i \in DOMAIN a |-> a[i]] \in Surjection(DOMAIN a, ToSet(a))
  BY DEF ToSet, Surjection
<1> QED BY <1>2, <1>3, <1>4, FS_Surjection

LEMMA SeqOfMore ==
  ASSUME NEW S, NEW T, S \subseteq T, NEW s \in Seq(S)
  PROVE  s \in Seq(T)
<1>1. s \in [1 .. Len(s) -> T] /\ Len(s) \in Nat
  OBVIOUS
<1> QED BY <1>1

(* Ordered by ranks that differ, a finite set is enumerated whole, without *)
(* repetition, and as its ranks go.                                        *)
LEMMA OrderedWhole ==
  ASSUME NEW S, IsFiniteSet(S), NEW rank,
         \A h \in S : rank[h] \in Nat,
         \A g, h \in S : rank[g] = rank[h] => g = h
  PROVE  /\ InOrder(S, rank) \in Seq(S)
         /\ Len(InOrder(S, rank)) = Cardinality(S)
         /\ ToSet(InOrder(S, rank)) = S
         /\ \A i, j \in 1 .. Cardinality(S) :
              i < j => rank[InOrder(S, rank)[i]] < rank[InOrder(S, rank)[j]]
<1> DEFINE n == Cardinality(S)
           Below(h) == {g \in S : rank[g] < rank[h]}
           place == [h \in S |-> Cardinality(Below(h))]
<1>1. n \in Nat /\ IsFiniteSet(0 .. n - 1) /\ Cardinality(0 .. n - 1) = n
  <2>1. n \in Nat
    BY FS_CardinalityType
  <2> QED BY <2>1, FS_Interval
<1>2. ASSUME NEW h \in S
      PROVE  /\ IsFiniteSet(Below(h)) /\ Cardinality(Below(h)) \in Nat
             /\ Cardinality(Below(h)) \in 0 .. n - 1
  <2>1. Below(h) \in SUBSET S /\ h \notin Below(h)
    OBVIOUS
  <2>2. IsFiniteSet(Below(h)) /\ Cardinality(Below(h)) <= n /\ Cardinality(Below(h)) # n
    BY <2>1, FS_Subset
  <2>3. Cardinality(Below(h)) \in Nat
    BY <2>2, FS_CardinalityType
  <2> QED BY <2>2, <2>3, <1>1
<1>3. ASSUME NEW g \in S, NEW h \in S, rank[g] < rank[h]
      PROVE  Cardinality(Below(g)) < Cardinality(Below(h))
  <2>1. Below(g) \in SUBSET Below(h) /\ g \in Below(h) /\ g \notin Below(g)
    BY <1>3
  <2>2. Below(g) # Below(h) /\ IsFiniteSet(Below(h))
    BY <2>1, <1>2
  <2>3. /\ Cardinality(Below(g)) <= Cardinality(Below(h))
        /\ Cardinality(Below(g)) # Cardinality(Below(h))
    BY <2>1, <2>2, FS_Subset
  <2>4. Cardinality(Below(g)) \in Nat /\ Cardinality(Below(h)) \in Nat
    BY <1>2
  <2> HIDE DEF Below
  <2> QED BY <2>3, <2>4
<1>4. place \in Injection(S, 0 .. n - 1)
  <2>1. place \in [S -> 0 .. n - 1]
    BY <1>2
  <2>2. ASSUME NEW g \in S, NEW h \in S, place[g] = place[h] PROVE g = h
    <3>1. Cardinality(Below(g)) = Cardinality(Below(h)) /\ Cardinality(Below(g)) \in Nat
      BY <2>2, <1>2
    <3>2. ~(rank[g] < rank[h]) /\ ~(rank[h] < rank[g])
      <4>1. ~(Cardinality(Below(g)) < Cardinality(Below(h)))
        <5> HIDE DEF Below
        <5> QED BY <3>1
      <4>2. ~(Cardinality(Below(h)) < Cardinality(Below(g)))
        <5> HIDE DEF Below
        <5> QED BY <3>1
      <4> QED BY <4>1, <4>2, <1>3
    <3>3. rank[g] = rank[h]
      BY <3>2
    <3> QED BY <3>3
  <2> QED BY <2>1, <2>2 DEF Injection, IsInjective
<1>5. place \in Surjection(S, 0 .. n - 1)
  BY <1>1, <1>4, FS_Injection
<1>6. ASSUME NEW i \in 1 .. n
      PROVE  /\ InOrder(S, rank)[i] \in S
             /\ place[InOrder(S, rank)[i]] = i - 1
  <2>1. i - 1 \in 0 .. n - 1
    BY <1>1
  <2>2. \E h \in S : place[h] = i - 1
    BY <2>1, <1>5 DEF Surjection
  <2>3. \E h \in S : Cardinality({g \in S : rank[g] < rank[h]}) = i - 1
    BY <2>2
  <2>4. InOrder(S, rank)[i] = CHOOSE h \in S : Cardinality({g \in S : rank[g] < rank[h]}) = i - 1
    BY DEF InOrder
  <2> QED BY <2>3, <2>4
<1>7. InOrder(S, rank) \in [1 .. n -> S]
  BY <1>6 DEF InOrder
<1>8. InOrder(S, rank) \in Seq(S) /\ Len(InOrder(S, rank)) = n
  BY <1>1, <1>7
<1>9. ASSUME NEW h \in S PROVE \E i \in 1 .. n : InOrder(S, rank)[i] = h
  <2>1. place[h] \in 0 .. n - 1
    BY <1>2
  <2>2. place[h] + 1 \in 1 .. n /\ (place[h] + 1) - 1 = place[h]
    BY <2>1, <1>1
  <2>3. place[InOrder(S, rank)[place[h] + 1]] = place[h] /\ InOrder(S, rank)[place[h] + 1] \in S
    BY <2>2, <1>6
  <2> QED BY <2>2, <2>3, <1>4 DEF Injection, IsInjective
<1>10. ASSUME NEW i \in 1 .. n, NEW j \in 1 .. n, i < j
       PROVE  rank[InOrder(S, rank)[i]] < rank[InOrder(S, rank)[j]]
  <2> DEFINE g == InOrder(S, rank)[i]
             h == InOrder(S, rank)[j]
  <2>1. g \in S /\ h \in S /\ place[g] = i - 1 /\ place[h] = j - 1
    BY <1>6
  <2>2. Cardinality(Below(g)) = i - 1 /\ Cardinality(Below(h)) = j - 1
    BY <2>1
  <2>3. ~(rank[h] < rank[g])
    <3>1. ~(j - 1 < i - 1)
      BY <1>1, <1>10
    <3> QED BY <3>1, <2>1, <2>2, <1>3
  <2>4. rank[g] # rank[h]
    <3>1. i - 1 # j - 1
      BY <1>1, <1>10
    <3> QED BY <3>1, <2>1
  <2>5. \A x, y \in Nat : ~(y < x) /\ x # y => x < y
    OBVIOUS
  <2>6. rank[g] \in Nat /\ rank[h] \in Nat
    BY <2>1
  <2> QED BY <2>3, <2>4, <2>5, <2>6, Zenon
<1>11. ToSet(InOrder(S, rank)) = S
  BY <1>7, <1>9 DEF ToSet
<1> QED BY <1>8, <1>10, <1>11

(* Two hosts do not come first at the same place.                          *)
LEMMA FirstPlaces ==
  ASSUME NEW a \in Seq(Nat)
  PROVE  /\ \A h \in ToSet(a) : FirstPlace(a)[h] \in Nat
         /\ \A g, h \in ToSet(a) : FirstPlace(a)[g] = FirstPlace(a)[h] => g = h
<1>1. ASSUME NEW h \in ToSet(a)
      PROVE  FirstPlace(a)[h] \in Nat /\ a[FirstPlace(a)[h]] = h
  <2> DEFINE P == {i \in DOMAIN a : a[i] = h}
  <2>1. P \subseteq Nat /\ P # {}
    BY DEF ToSet
  <2>2. \E i \in P : \A j \in P : <<j, i>> \notin OpToRel(<, Nat)
    BY <2>1, NatLessThanWellFounded, WFMin
  <2>3. \E i \in P : \A j \in P : ~(j < i)
    BY <2>1, <2>2 DEF OpToRel
  <2>4. PICK i \in P : \A j \in P : ~(j < i)
    BY <2>3
  <2>5. i \in DOMAIN a /\ a[i] = h /\ \A j \in 1 .. i - 1 : a[j] # h
    <3>1. i \in DOMAIN a /\ a[i] = h /\ i \in 1 .. Len(a) /\ DOMAIN a = 1 .. Len(a) /\ Len(a) \in Nat
      OBVIOUS
    <3>2. ASSUME NEW j \in 1 .. i - 1 PROVE a[j] # h
      <4>1. j \in DOMAIN a /\ j < i
        BY <3>1
      <4> QED BY <4>1, <2>4
    <3> QED BY <3>1, <3>2
  <2>6. FirstPlace(a)[h] = CHOOSE k \in DOMAIN a : a[k] = h /\ \A j \in 1 .. k - 1 : a[j] # h
    BY DEF FirstPlace
  <2>7. FirstPlace(a)[h] \in DOMAIN a /\ a[FirstPlace(a)[h]] = h
    BY <2>5, <2>6
  <2> QED BY <2>7
<1> QED BY <1>1

(* The request made of some hosts names them, each of them once.           *)
LEMMA RequestOfHosts ==
  ASSUME NEW a \in Seq(Nat)
  PROVE  /\ CategorizeHosts(a) \in [dns : Seq(Nat \ IPs), ips : Seq(IPs)]
         /\ NamesExactly(CategorizeHosts(a), ToSet(a))
<1> DEFINE D == ToSet(a) \ IPs
           I == ToSet(a) \cap IPs
           dns == InOrder(D, Alphabet(a))
           ips == InOrder(I, FirstPlace(a))
<1>1. IsFiniteSet(ToSet(a)) /\ D \in SUBSET ToSet(a) /\ I \in SUBSET ToSet(a)
  BY HostsOfSeq
<1>2. IsFiniteSet(D) /\ IsFiniteSet(I)
  BY <1>1, FS_Subset
<1>3. dns \in Seq(D) /\ Len(dns) = Cardinality(D) /\ ToSet(dns) = D
  <2>1. /\ \A h \in D : Alphabet(a)[h] \in Nat
        /\ \A g, h \in D : Alphabet(a)[g] = Alphabet(a)[h] => g = h
    BY HostsOfSeq DEF Alphabet
  <2> QED BY <2>1, <1>2, OrderedWhole
<1>4. ips \in Seq(I) /\ Len(ips) = Cardinality(I) /\ ToSet(ips) = I
  <2>1. /\ \A h \in I : FirstPlace(a)[h] \in Nat
        /\ \A g, h \in I : FirstPlace(a)[g] = FirstPlace(a)[h] => g = h
    BY FirstPlaces
  <2> QED BY <2>1, <1>2, OrderedWhole
<1>5. CategorizeHosts(a) = [dns |-> dns, ips |-> ips]
  BY DEF CategorizeHosts
<1>6. dns \in Seq(Nat \ IPs) /\ ips \in Seq(IPs)
  <2>1. D \subseteq Nat \ IPs /\ I \subseteq IPs
    BY HostsOfSeq
  <2> QED BY <1>3, <1>4, <2>1, SeqOfMore
<1>7. Cardinality(D) + Cardinality(I) = Cardinality(ToSet(a))
  <2>1. D \cup I = ToSet(a) /\ D \cap I = {}
    OBVIOUS
  <2>2. Cardinality(D) \in Nat /\ Cardinality(I) \in Nat
    BY <1>2, FS_CardinalityType
  <2>3. Cardinality(D \cup I) = Cardinality(D) + Cardinality(I) - Cardinality(D \cap I)
    BY <1>2, FS_Union
  <2>4. Cardinality(D \cap I) = 0
    BY <2>1, FS_EmptySet
  <2>5. Cardinality(ToSet(a)) = Cardinality(D) + Cardinality(I) - 0
    BY <2>1, <2>3, <2>4
  <2> QED
    <3> HIDE DEF D, I
    <3> QED BY <2>2, <2>5
<1>8. ToSet(dns) \cup ToSet(ips) = ToSet(a)
  BY <1>3, <1>4
<1> HIDE DEF dns, ips
<1>9. CategorizeHosts(a) \in [dns : Seq(Nat \ IPs), ips : Seq(IPs)]
  BY <1>5, <1>6
<1>10. /\ CategorizeHosts(a).dns = dns /\ CategorizeHosts(a).ips = ips
       /\ Named(CategorizeHosts(a)) = ToSet(a)
  BY <1>5, <1>8 DEF Named
<1>11. Len(dns) + Len(ips) = Cardinality(ToSet(a))
  BY <1>3, <1>4, <1>7
<1> QED BY <1>9, <1>10, <1>11 DEF NamesExactly

-----------------------------------------------------------------------------
(* The steps of a run, in their order; --delete is not among them, because *)
(* the process does not come to its operations.                            *)
LEMMA StepOrder ==
  ASSUME NEW l
  PROVE  LET c == Operations(l) IN
         /\ FirstStep(c) \in Steps
         /\ AfterQuery(c) \in Steps \ {"query"}
         /\ AfterGenerate(c) \in Steps \ {"query", "generate"}
         /\ AfterSubmit(c) \in {"approve", "poll", "done"}
         /\ AfterApprove(c) \in {"poll", "done"}
         /\ AfterFetch(c) = "done"
         /\ FirstStep(c) = "query" <=> "query" \in l
         /\ "generate" \in l /\ FirstStep(c) # "query" => FirstStep(c) = "generate"
         /\ "generate" \in l => AfterQuery(c) = "generate"
<1> DEFINE c == Operations(l)
<1>1. /\ "delete" \notin c
      /\ "query" \in c <=> "query" \in l
      /\ "generate" \in c <=> "generate" \in l
  BY DEF Operations
<1> HIDE DEF c
<1>2. AfterFetch(c) = "done"
  BY <1>1 DEF AfterFetch
<1>3. AfterApprove(c) \in {"poll", "done"}
  BY <1>2 DEF AfterApprove
<1>4. AfterSubmit(c) \in {"approve", "poll", "done"}
  BY <1>3 DEF AfterSubmit
<1>5. AfterGenerate(c) \in {"create", "get", "poll", "done"}
  BY <1>3 DEF AfterGenerate
<1>6. /\ AfterQuery(c) \in {"generate", "create", "get", "poll", "done"}
      /\ "generate" \in l => AfterQuery(c) = "generate"
  BY <1>1, <1>5 DEF AfterQuery
<1>7. /\ FirstStep(c) \in {"query", "generate", "create", "get", "poll", "done"}
      /\ FirstStep(c) = "query" <=> "query" \in l
      /\ "generate" \in l /\ FirstStep(c) # "query" => FirstStep(c) = "generate"
  BY <1>1, <1>6 DEF FirstStep
<1> QED BY <1>2, <1>3, <1>4, <1>5, <1>6, <1>7 DEF Steps, c

(* Where a process enters: not in a run if it renews.                      *)
LEMMA EntryOf ==
  ASSUME NEW l
  PROVE  /\ Entry(l) \in Ended \cup Steps \cup {"check"}
         /\ "renew" \in l => Entry(l) \in {"exit1", "panic", "check"}
         /\ "renew" \notin l => Entry(l) \in {"exit1", "panic", FirstStep(Operations(l))}
BY StepOrder DEF Entry, Ended

(* A run goes on, ends or fails within the places there are.               *)
LEMMA Going ==
  ASSUME first \in BOOLEAN, NEW step \in Steps, Goto(step) \/ RunError
  PROVE  /\ at' \in {"exit0", "exit2", "loop"} \cup ({step} \ {"done"})
         /\ at' \in Ended \cup Steps \cup {"check", "loop"}
         /\ first' \in BOOLEAN
BY DEF Goto, RunOver, RunError, Ended, Steps

-----------------------------------------------------------------------------
(* The type invariant is inductive once a made-up name is known to cost a  *)
(* run.                                                                    *)
TypeInv == CmdTypeOK /\ used <= runs

LEMMA ServicesGiven ==
  /\ Len(Services) \in Nat
  /\ \A e \in Elts : Services[e] \in ToSet(Services)
<1>1. Len(Services) \in Nat /\ DOMAIN Services = 1 .. Len(Services)
  BY QueryAssumption
<1> QED BY <1>1 DEF ToSet, Elts

(* What a service has, the query can append.                               *)
LEMMA AddressesGiven ==
  ASSUME NEW s \in Specs
  PROVE  Addresses(s) \in Seq(Nat)
<1>1. /\ s.cluster \in Seq(Nat) /\ s.external \in Seq(Nat)
      /\ s.balancer \in Seq(Nat) /\ s.name \in Seq(Nat)
  BY QueryAssumption
<1> QED BY <1>1, Appended DEF Addresses

LEMMA TypeInit == Init => TypeInv
<1> SUFFICES ASSUME Init PROVE TypeInv
  OBVIOUS
<1>1. QueryTypeOK
  BY ServicesGiven DEF Init, QueryInit, QueryTypeOK, Elts
<1>2. NoRequest \in [dns : Seq(Nat \ IPs), ips : Seq(IPs)]
  BY DEF NoRequest
<1>3. /\ name \in 0 .. used /\ used \in 0 .. MaxRuns /\ objects \subseteq 0 .. used
      /\ runs \in 0 .. MaxRuns /\ starts \in 0 .. MaxStarts /\ used <= runs
  BY CmdAssumption DEF Init
<1>4. /\ line \in SUBSET Flags /\ hosts \in Seq(Nat) /\ present \subseteq Files
      /\ at \in Ended \cup Steps \cup {"check", "loop"}
      /\ first \in BOOLEAN /\ lost \in BOOLEAN /\ refused \in BOOLEAN
  BY CmdAssumption DEF Init, Ended
<1>5. request = NoRequest
  BY DEF Init
<1> QED BY <1>1, <1>2, <1>3, <1>4, <1>5 DEF TypeInv, CmdTypeOK

Places == Ended \cup Steps \cup {"check", "loop"}

ControlTypes ==
  /\ line \in SUBSET Flags /\ at \in Places
  /\ first \in BOOLEAN /\ lost \in BOOLEAN /\ refused \in BOOLEAN
CountTypes ==
  /\ name \in 0 .. used /\ used \in 0 .. MaxRuns /\ objects \subseteq 0 .. used
  /\ runs \in 0 .. MaxRuns /\ starts \in 0 .. MaxStarts /\ used <= runs
HostTypes ==
  /\ hosts \in Seq(Nat)
  /\ request \in [dns : Seq(Nat \ IPs), ips : Seq(IPs)]
  /\ present \subseteq Files

LEMMA TypesInParts ==
  TypeInv <=> QueryTypeOK /\ ControlTypes /\ CountTypes /\ HostTypes
BY DEF TypeInv, CmdTypeOK, ControlTypes, CountTypes, HostTypes, Places

LEMMA QueryTypesNext ==
  ASSUME QueryTypeOK, Next
  PROVE  QueryTypeOK'
<1>1. CASE ServiceChanges
  <2>1. cluster' \in [ToSet(Services) -> Specs \cup {NoService}]
    BY <1>1 DEF ServiceChanges, QueryTypeOK
  <2> QED BY <1>1, <2>1 DEF ServiceChanges, QueryTypeOK
<1>2. CASE NewQuery \/ Call \/ Tick \/ TryAgain
  <2>1. ok' \subseteq Elts /\ found' \in [Elts -> Specs \cup {NoService}]
        /\ UNCHANGED cluster
    BY <1>2 DEF NewQuery, Call, Tick, TryAgain, QueryTypeOK
  <2>2. sans' \in Seq(Nat)
    <3>1. sans' = << >> \/ sans' = sans
      BY <1>2 DEF NewQuery, Call, Tick, TryAgain
    <3>2. << >> \in Seq(Nat)
      OBVIOUS
    <3> QED BY <3>1, <3>2 DEF QueryTypeOK
  <2>3. turn' \in {0, 1}
    BY <1>2 DEF NewQuery, Call, Tick, TryAgain
  <2>4. turn' \in 0 .. Len(Services) + 1
    BY <2>3, ServicesGiven
  <2> QED BY <2>1, <2>2, <2>4 DEF QueryTypeOK
<1>3. CASE Get
  <2> DEFINE s == cluster[Services[turn]]
  <2>1. turn \in Elts /\ turn' = turn + 1 /\ UNCHANGED cluster
    BY <1>3 DEF Get
  <2>2. turn' \in 0 .. Len(Services) + 1
    BY <2>1, ServicesGiven DEF Elts
  <2>3. CASE turn \in ok \/ s = NoService
    <3>1. UNCHANGED <<ok, sans, found>>
      BY <1>3, <2>3 DEF Get
    <3> QED BY <3>1, <2>1, <2>2 DEF QueryTypeOK
  <2>4. CASE ~(turn \in ok \/ s = NoService)
    <3>1. /\ ok' = ok \cup {turn}
          /\ found' = [found EXCEPT ![turn] = s]
          /\ sans' = sans \o Addresses(s)
      BY <1>3, <2>4 DEF Get
    <3>2. s \in Specs
      BY <2>1, <2>4, ServicesGiven DEF QueryTypeOK
    <3>3. sans' \in Seq(Nat)
      BY <3>1, <3>2, AddressesGiven, Appended DEF QueryTypeOK
    <3>4. ok' \subseteq Elts /\ found' \in [Elts -> Specs \cup {NoService}]
      BY <3>1, <3>2, <2>1 DEF QueryTypeOK
    <3> QED BY <3>3, <3>4, <2>1, <2>2 DEF QueryTypeOK
  <2> QED BY <2>3, <2>4
<1>4. CASE UNCHANGED queryVars
  BY <1>4 DEF queryVars, QueryTypeOK
<1>5. \/ ServiceChanges \/ NewQuery \/ Call \/ Tick \/ TryAgain \/ Get
      \/ UNCHANGED queryVars
  BY DEF Next, Process, Environment, Start, Check, Loop, QueryStep, QueryDone,
         QueryFails, QueryTimeout, QueryError, Generate, Submit, Approve, Fetch,
         StepFails, Killed, ObjectDeleted, queryVars
<1> QED BY <1>1, <1>2, <1>3, <1>4, <1>5

LEMMA ControlTypesNext ==
  ASSUME ControlTypes, Next
  PROVE  ControlTypes'
<1>1. CASE Start
  <2>1. PICK l \in Lines : line' = l /\ at' = Entry(l)
    BY <1>1 DEF Start
  <2>2. at' \in Places
    BY <2>1, EntryOf DEF Places
  <2>3. first' \in BOOLEAN /\ lost' \in BOOLEAN /\ refused' \in BOOLEAN
    BY <1>1 DEF Start
  <2> QED BY <2>1, <2>2, <2>3, CmdAssumption DEF ControlTypes
<1>2. CASE Check
  BY <1>2, StepOrder DEF Check, ControlTypes, source, Places
<1>3. CASE Loop \/ Killed \/ ObjectDeleted \/ Environment \/ QueryStep
  BY <1>3 DEF Loop, Killed, ObjectDeleted, Environment, QueryStep, ControlTypes,
              source, Places, Ended, cmdVars
<1>4. CASE QueryDone \/ Generate \/ Submit \/ Approve \/ Fetch \/ QueryTimeout
           \/ QueryError \/ StepFails
  <2>1. PICK step \in Steps : Goto(step) \/ RunError
    <3>1. "done" \in Steps
      BY DEF Steps
    <3> QED
      BY <1>4, <3>1, StepOrder DEF QueryDone, Generate, Submit, Approve, Fetch,
         QueryTimeout, QueryError, QueryFails, StepFails, Steps
  <2>2. at' \in Places /\ first' \in BOOLEAN
    BY <2>1, Going DEF ControlTypes, Places
  <2>3. /\ UNCHANGED line
        /\ lost' \in {lost, TRUE} /\ refused' \in {refused, TRUE}
    BY <1>4 DEF QueryDone, Generate, Submit, Approve, Fetch, QueryTimeout,
         QueryError, QueryFails, StepFails, source
  <2> QED BY <2>2, <2>3 DEF ControlTypes
<1> QED BY <1>1, <1>2, <1>3, <1>4 DEF Next, Process

LEMMA CountTypesNext ==
  ASSUME CountTypes, Next
  PROVE  CountTypes'
<1>1. CASE Start
  <2>1. UNCHANGED <<objects, used>> /\ name' = 0
    BY <1>1 DEF Start, left
  <2>2. /\ starts' = starts + 1 /\ starts < MaxStarts /\ runs < MaxRuns
        /\ runs' = runs \/ runs' = runs + 1
    BY <1>1 DEF Start
  <2>3. PICK r \in Nat, s \in Nat, u \in Nat : r = runs /\ s = starts /\ u = used
    BY DEF CountTypes
  <2>4. /\ starts' \in 0 .. MaxStarts /\ runs' \in 0 .. MaxRuns
        /\ used' <= runs' /\ 0 \in 0 .. used'
    BY <2>1, <2>2, <2>3, CmdAssumption DEF CountTypes
  <2> QED BY <2>1, <2>4 DEF CountTypes
<1>2. CASE Check
  <2>1. UNCHANGED <<objects, starts>>
    BY <1>2 DEF Check, left
  <2>2. CASE UNCHANGED <<name, used, runs>>
    BY <2>1, <2>2 DEF CountTypes
  <2>3. CASE runs < MaxRuns /\ runs' = runs + 1 /\ UNCHANGED <<name, used>>
    BY <2>1, <2>3, CmdAssumption DEF CountTypes
  <2>4. CASE runs < MaxRuns /\ runs' = runs + 1 /\ name' = used + 1 /\ used' = used + 1
    <3>1. PICK r \in Nat, u \in Nat : r = runs /\ u = used
      BY DEF CountTypes
    <3>2. /\ u <= r /\ r < MaxRuns /\ MaxRuns \in Nat
          /\ runs' = r + 1 /\ used' = u + 1 /\ name' = u + 1
      BY <2>4, <3>1, CmdAssumption DEF CountTypes
    <3>3. /\ runs' \in 0 .. MaxRuns /\ used' \in 0 .. MaxRuns /\ name' \in 0 .. used'
          /\ used' <= runs' /\ 0 .. u \subseteq 0 .. used'
      BY <3>2
    <3> QED BY <2>1, <3>1, <3>3 DEF CountTypes
  <2> QED BY <1>2, <2>2, <2>3, <2>4 DEF Check
<1>3. CASE objects' \subseteq objects \cup {name} /\ UNCHANGED <<name, used, runs, starts>>
  BY <1>3 DEF CountTypes
<1>4. CASE ~(Start \/ Check)
  <2>1. /\ objects' \subseteq objects \cup {name}
        /\ UNCHANGED <<name, used, runs, starts>>
    BY <1>4 DEF Next, Process, Environment, Loop, QueryStep, QueryDone,
         QueryFails, QueryTimeout, QueryError, Generate, Submit, Approve, Fetch,
         StepFails, Killed, ObjectDeleted, cmdVars, source, counts, left
  <2> QED BY <2>1, <1>3
<1> QED BY <1>1, <1>2, <1>4

LEMMA HostTypesNext ==
  ASSUME QueryTypeOK, HostTypes, Next
  PROVE  HostTypes'
<1>1. CASE Start
  <2>1. hosts' = Args /\ UNCHANGED <<request, present>>
    BY <1>1 DEF Start, left
  <2> QED BY <2>1, CmdAssumption DEF HostTypes
<1>2. CASE QueryDone
  <2>1. hosts' = hosts \o sans /\ UNCHANGED <<request, present>>
    BY <1>2 DEF QueryDone, left
  <2> QED BY <2>1, Appended DEF QueryTypeOK, HostTypes
<1>3. CASE Generate
  <2>1. /\ request' \in {request, CategorizeHosts(hosts)}
        /\ present' \subseteq present \cup {"csr", "key"} /\ UNCHANGED hosts
    BY <1>3 DEF Generate, source
  <2>2. request' \in [dns : Seq(Nat \ IPs), ips : Seq(IPs)]
    BY <2>1, RequestOfHosts DEF HostTypes
  <2> QED BY <2>1, <2>2 DEF HostTypes, Files
<1>4. CASE Fetch
  <2>1. present' \subseteq present \cup {"cert"} /\ UNCHANGED <<hosts, request>>
    BY <1>4 DEF Fetch, source
  <2> QED BY <2>1 DEF HostTypes, Files
<1>5. CASE ~(Start \/ QueryDone \/ Generate \/ Fetch)
  <2>1. UNCHANGED <<hosts, request, present>>
    BY <1>5 DEF Next, Process, Environment, Check, Loop, QueryStep, QueryFails,
         QueryTimeout, QueryError, Submit, Approve, StepFails, Killed,
         ObjectDeleted, cmdVars, source, left
  <2> QED BY <2>1 DEF HostTypes
<1> QED BY <1>1, <1>2, <1>3, <1>4, <1>5

LEMMA TypeInvariant == Spec => []TypeInv
<1>1. TypeInv /\ [Next]_vars => TypeInv'
  <2> SUFFICES ASSUME TypeInv, [Next]_vars PROVE TypeInv'
    OBVIOUS
  <2>1. CASE Next
    BY <2>1, TypesInParts, QueryTypesNext, ControlTypesNext,
       CountTypesNext, HostTypesNext
       DEF TypeInv, CmdTypeOK, ControlTypes, CountTypes, HostTypes, Places
  <2>2. CASE UNCHANGED vars
    BY <2>2 DEF vars, queryVars, cmdVars, source, left, counts, TypeInv,
         CmdTypeOK, QueryTypeOK
  <2> QED BY <2>1, <2>2
<1> QED BY TypeInit, <1>1, PTL DEF Spec

(* The state has its types: a request holds names and addresses apart, and *)
(* no file but those of the configuration is written.                      *)
THEOREM CmdTypeCorrect == Spec => []CmdTypeOK
<1>1. TypeInv => CmdTypeOK
  BY DEF TypeInv
<1> QED BY TypeInvariant, <1>1, PTL

-----------------------------------------------------------------------------
(* NeverRefused is not inductive: Submit refuses a name it finds on the    *)
(* server.  A renewer that does not override objects submits under the     *)
(* name made up for the run, larger than all before, until it has used it. *)
NameStillNew ==
  at \in {"query", "generate", "create"} /\ Given("renew") /\ FreshNames =>
    name \notin objects
RefusedInv == NeverRefused /\ NameStillNew

LEMMA RefusedNext ==
  ASSUME TypeInv, RefusedInv, Next
  PROVE  RefusedInv'
<1>1. CASE Start
  <2>1. PICK l \in Lines : line' = l /\ at' = Entry(l)
    BY <1>1 DEF Start
  <2>2. ~refused'
    BY <1>1 DEF Start
  <2>3. Given("renew")' => at' \in {"exit1", "panic", "check"}
    BY <2>1, EntryOf DEF Given
  <2> QED BY <2>2, <2>3 DEF RefusedInv, NeverRefused, NameStillNew
<1>2. CASE Check
  <2>1. UNCHANGED <<line, objects, refused>>
    BY <1>2 DEF Check, left
  <2>2. FreshNames => name' = used + 1 \/ at' = "loop"
    BY <1>2 DEF Check
  <2>3. used + 1 \notin objects
    <3>1. PICK u \in Nat : u = used
      BY DEF TypeInv, CmdTypeOK
    <3>2. objects \subseteq 0 .. u
      BY <3>1 DEF TypeInv, CmdTypeOK
    <3> QED BY <3>1, <3>2
  <2> QED BY <2>1, <2>2, <2>3
             DEF RefusedInv, NeverRefused, NameStillNew, FreshNames, Given
<1>3. CASE Generate
  <2>1. UNCHANGED <<line, name, objects>> /\ at = "generate"
    BY <1>3 DEF Generate, source
  <2>2. refused' => refused \/ ~OverridesFiles
    BY <1>3 DEF Generate, MayWrite
  <2> QED BY <2>1, <2>2 DEF RefusedInv, NeverRefused, NameStillNew, FreshNames,
             Given, OverridesFiles
<1>4. CASE Submit
  <2>1. UNCHANGED line /\ at = "create"
    BY <1>4 DEF Submit, source
  <2>2. refused' => refused \/ (name \in objects /\ ~OverridesObject)
    BY <1>4 DEF Submit
  <2>3. at' \notin {"query", "generate", "create"}
    <3>1. PICK step \in {"approve", "poll", "done"} : Goto(step) \/ RunError
      BY <1>4, StepOrder DEF Submit
    <3> QED BY <3>1 DEF Goto, RunOver, RunError
  <2> QED BY <2>1, <2>2, <2>3 DEF RefusedInv, NeverRefused, NameStillNew, FreshNames,
             Given, OverridesObject
<1>5. CASE Fetch
  <2>1. UNCHANGED <<line, name, objects>>
    BY <1>5 DEF Fetch, source
  <2>2. refused' => refused \/ ~OverridesFiles
    BY <1>5 DEF Fetch, MayWrite
  <2>3. at' \notin {"query", "generate", "create"}
    <3>1. Goto("done") \/ RunError
      BY <1>5, StepOrder DEF Fetch
    <3> QED BY <3>1 DEF Goto, RunOver, RunError
  <2> QED BY <2>1, <2>2, <2>3 DEF RefusedInv, NeverRefused, NameStillNew, FreshNames,
             Given, OverridesFiles
<1>6. CASE QueryDone
  <2>1. UNCHANGED <<line, name, objects, refused>> /\ at = "query"
    BY <1>6 DEF QueryDone, left
  <2> QED BY <2>1 DEF RefusedInv, NeverRefused, NameStillNew, FreshNames, Given
<1>7. CASE QueryStep \/ Environment \/ ObjectDeleted
  <2>1. UNCHANGED <<line, name, refused, at>> /\ objects' \subseteq objects
    BY <1>7 DEF QueryStep, Environment, ObjectDeleted, cmdVars, source, left
  <2> QED BY <2>1 DEF RefusedInv, NeverRefused, NameStillNew, FreshNames, Given
<1>8. CASE Loop \/ Approve \/ QueryTimeout \/ QueryError \/ StepFails \/ Killed
  <2>1. UNCHANGED <<line, refused>>
    BY <1>8 DEF Loop, Approve, QueryTimeout, QueryError, QueryFails, StepFails,
         Killed, source
  <2>2. at' \notin {"query", "generate", "create"}
    <3>1. at' \in {"check", "killed"} \/ Goto("poll") \/ Goto("done") \/ RunError
      BY <1>8, StepOrder DEF Loop, Approve, QueryTimeout, QueryError, QueryFails,
         StepFails, Killed
    <3> QED BY <3>1 DEF Goto, RunOver, RunError
  <2> QED BY <2>1, <2>2 DEF RefusedInv, NeverRefused, NameStillNew, Given
<1> QED BY <1>1, <1>2, <1>3, <1>4, <1>5, <1>6, <1>7, <1>8 DEF Next, Process

(* --override, and the override a renewer sets for its files with the new  *)
(* name of each run, reach every place where something found there would   *)
(* stop a run: whatever earlier processes left, killed at any step, and    *)
(* whatever is deleted meanwhile.                                          *)
THEOREM RenewerNeverRefused == Spec => []NeverRefused
<1>1. Init => RefusedInv
  BY DEF Init, RefusedInv, NeverRefused, NameStillNew
<1>2. TypeInv /\ RefusedInv /\ [Next]_vars => RefusedInv'
  <2> SUFFICES ASSUME TypeInv, RefusedInv, [Next]_vars PROVE RefusedInv'
    OBVIOUS
  <2>1. CASE UNCHANGED vars
    BY <2>1 DEF vars, cmdVars, source, left, RefusedInv, NeverRefused,
         NameStillNew, FreshNames, Given
  <2> QED BY <2>1, RefusedNext
<1>3. RefusedInv => NeverRefused
  BY DEF RefusedInv
<1> QED BY TypeInvariant, <1>1, <1>2, <1>3, PTL DEF Spec

-----------------------------------------------------------------------------
(* What a process has found, and what its answers should have put in the   *)
(* hosts: those of the services that have answered.                        *)
Answers == ToSet(Args) \cup UNION {ToSet(Addresses(found[e])) : e \in ok}

FoundInv ==
  /\ \A e \in Elts : e \in ok <=> found[e] # NoService
  /\ at = "query" => Given("query")
  /\ ~Given("query") => ok = {}
  /\ at \in Steps \ {"query"} /\ Given("query") => ok = Elts
AnswersInv ==
  ~lost =>
    /\ at = "query" => ToSet(hosts) \cup ToSet(sans) = Answers
    /\ at \in Places \ (Ended \cup {"query"}) => ToSet(hosts) = Answers
RequestInv == Generated => request = CategorizeHosts(hosts)
KeepsInv == FoundInv /\ AnswersInv /\ RequestInv

(* A service that answers is one more that has, and adds its hosts.        *)
LEMMA GetAnswers ==
  ASSUME TypeInv, FoundInv, Get
  PROVE  \/ UNCHANGED <<ok, sans, found>>
         \/ /\ ok' \subseteq Elts
            /\ \A e \in Elts : e \in ok' <=> found'[e] # NoService
            /\ \E new : /\ ToSet(sans') = ToSet(sans) \cup new
                        /\ Answers' = Answers \cup new
<1> DEFINE s == cluster[Services[turn]]
<1>1. CASE turn \in ok \/ s = NoService
  BY <1>1 DEF Get
<1>2. CASE ~(turn \in ok \/ s = NoService)
  <2>1. /\ turn \in Elts /\ turn \notin ok /\ ok \subseteq Elts
        /\ ok' = ok \cup {turn}
        /\ found' = [found EXCEPT ![turn] = s]
        /\ sans' = sans \o Addresses(s)
    BY <1>2 DEF Get, TypeInv, CmdTypeOK, QueryTypeOK
  <2>2. s \in Specs
    BY <1>2, <2>1, ServicesGiven DEF TypeInv, CmdTypeOK, QueryTypeOK
  <2>3. /\ found'[turn] = s /\ s # NoService
        /\ \A e \in Elts \ {turn} : found'[e] = found[e]
    BY <1>2, <2>1 DEF TypeInv, CmdTypeOK, QueryTypeOK
  <2>4. ToSet(sans') = ToSet(sans) \cup ToSet(Addresses(s))
    BY <2>1, <2>2, AddressesGiven, Appended DEF TypeInv, CmdTypeOK, QueryTypeOK
  <2>5. ASSUME NEW x
        PROVE  (\E e \in ok' : x \in ToSet(Addresses(found'[e])))
                 <=> (\E e \in ok : x \in ToSet(Addresses(found[e])))
                       \/ x \in ToSet(Addresses(s))
    BY <2>1, <2>3
  <2>6. Answers' = Answers \cup ToSet(Addresses(s))
    BY <2>5 DEF Answers
  <2>7. \A e \in Elts : e \in ok' <=> found'[e] # NoService
    BY <2>1, <2>3 DEF FoundInv
  <2> QED BY <2>1, <2>4, <2>6, <2>7
<1> QED BY <1>1, <1>2

LEMMA FoundNext ==
  ASSUME TypeInv, FoundInv, Next
  PROVE  FoundInv'
<1>1. CASE Start
  <2>1. PICK l \in Lines : line' = l /\ at' = Entry(l)
    BY <1>1 DEF Start
  <2>2. ok' = {} /\ found' = [e \in Elts |-> NoService]
    BY <1>1 DEF Start, NewQuery
  <2>3. at' \in Steps => at' = FirstStep(Operations(l))
    BY <2>1, EntryOf DEF Steps
  <2> QED BY <2>1, <2>2, <2>3, StepOrder DEF FoundInv, Given, Steps
<1>2. CASE Check
  <2>1. UNCHANGED <<line, ok, found>> /\ at' \in {"loop", FirstStep(Operations(line))}
    BY <1>2 DEF Check, Call, queryVars
  <2> QED BY <2>1, StepOrder DEF FoundInv, Given, Steps
<1>3. CASE QueryStep
  <2>1. UNCHANGED <<line, at>> /\ at = "query"
    BY <1>3 DEF QueryStep, cmdVars, source
  <2>2. UNCHANGED <<ok, found>> \/ \A e \in Elts : e \in ok' <=> found'[e] # NoService
    BY <1>3, GetAnswers DEF QueryStep, Tick, TryAgain
  <2> QED BY <2>1, <2>2 DEF FoundInv, Given
<1>4. CASE QueryDone
  <2>1. UNCHANGED <<line, ok, found>> /\ at = "query" /\ ok = Elts
    BY <1>4 DEF QueryDone, AllAnswered, queryVars
  <2>2. at' # "query"
    <3>1. PICK step \in Steps \ {"query"} : Goto(step)
      BY <1>4, StepOrder DEF QueryDone
    <3> QED BY <3>1 DEF Goto, RunOver
  <2> QED BY <2>1, <2>2 DEF FoundInv, Given
<1>5. CASE Generate \/ Submit \/ Approve \/ Fetch \/ StepFails \/ QueryTimeout \/ QueryError
  <2>1. UNCHANGED <<line, ok, found>>
    BY <1>5 DEF Generate, Submit, Approve, Fetch, StepFails, QueryTimeout,
         QueryError, QueryFails, queryVars, source
  <2>2. at' # "query" /\ (at' \in Steps => at \in Steps \ {"query"})
    <3>1. PICK step \in Steps \ {"query"} :
               (Goto(step) /\ at \in Steps \ {"query"}) \/ RunError
      BY <1>5, StepOrder DEF Generate, Submit, Approve, Fetch, StepFails,
         QueryTimeout, QueryError, QueryFails, Steps
    <3> QED BY <3>1 DEF Goto, RunOver, RunError, Steps
  <2> QED BY <2>1, <2>2 DEF FoundInv, Given
<1>6. CASE Loop \/ Killed \/ ObjectDeleted \/ Environment
  <2>1. UNCHANGED <<line, ok, found>> /\ (at' = at \/ at' \in {"check", "killed"})
    BY <1>6 DEF Loop, Killed, ObjectDeleted, Environment, ServiceChanges, cmdVars,
         queryVars, source
  <2> QED BY <2>1 DEF FoundInv, Given, Steps
<1> QED BY <1>1, <1>2, <1>3, <1>4, <1>5, <1>6 DEF Next, Process

LEMMA AnswersNext ==
  ASSUME TypeInv, FoundInv, AnswersInv, Next
  PROVE  AnswersInv'
<1> USE DEF Places, Ended, Steps
<1>0. ToSet(<< >>) = {}
  BY DEF ToSet
<1>1. CASE Start
  <2>1. ok' = {} /\ sans' = << >> /\ hosts' = Args
    BY <1>1 DEF Start, NewQuery
  <2>2. Answers' = ToSet(Args)
    BY <2>1 DEF Answers
  <2> QED BY <1>0, <2>1, <2>2 DEF AnswersInv
<1>2. CASE Check
  <2>1. UNCHANGED <<hosts, ok, found, lost>> /\ at = "check"
    BY <1>2 DEF Check, Call, queryVars
  <2>2. Answers' = Answers
    BY <2>1 DEF Answers
  <2>3. at' = "query" => sans' = << >>
    BY <1>2 DEF Check, Call
  <2> QED BY <1>0, <2>1, <2>2, <2>3 DEF AnswersInv
<1>3. CASE QueryStep
  <2>1. UNCHANGED <<hosts, at, lost>> /\ at = "query"
    BY <1>3 DEF QueryStep, cmdVars, source
  <2>2. CASE UNCHANGED <<ok, sans, found>>
    <3>1. Answers' = Answers
      BY <2>2 DEF Answers
    <3> QED BY <2>1, <2>2, <3>1 DEF AnswersInv
  <2>3. CASE \E new : ToSet(sans') = ToSet(sans) \cup new /\ Answers' = Answers \cup new
    BY <2>1, <2>3 DEF AnswersInv
  <2> QED BY <1>3, <2>2, <2>3, GetAnswers DEF QueryStep, Tick, TryAgain
<1>4. CASE QueryDone
  <2>1. /\ UNCHANGED <<ok, found, lost>> /\ at = "query"
        /\ hosts' = hosts \o sans
    BY <1>4 DEF QueryDone, queryVars
  <2>2. ToSet(hosts') = ToSet(hosts) \cup ToSet(sans)
    BY <2>1, Appended DEF TypeInv, CmdTypeOK, QueryTypeOK
  <2>3. Answers' = Answers
    BY <2>1 DEF Answers
  <2>4. at' # "query"
    <3>1. PICK step \in Steps \ {"query"} : Goto(step)
      BY <1>4, StepOrder DEF QueryDone
    <3> QED BY <3>1 DEF Goto, RunOver
  <2> QED BY <2>1, <2>2, <2>3, <2>4 DEF AnswersInv
<1>5. CASE QueryTimeout \/ QueryError
  BY <1>5 DEF QueryTimeout, QueryError, QueryFails, AnswersInv
<1>6. CASE Generate \/ Submit \/ Approve \/ Fetch \/ StepFails
  <2>1. UNCHANGED <<hosts, ok, found, lost>> /\ at \in Steps \ {"query"}
    BY <1>6 DEF Generate, Submit, Approve, Fetch, StepFails, queryVars, source
  <2>2. at' # "query"
    <3>1. PICK step \in Steps \ {"query"} : Goto(step) \/ RunError
      BY <1>6, StepOrder DEF Generate, Submit, Approve, Fetch, StepFails
    <3> QED BY <3>1 DEF Goto, RunOver, RunError
  <2>3. Answers' = Answers
    BY <2>1 DEF Answers
  <2> QED BY <2>1, <2>2, <2>3 DEF AnswersInv
<1>7. CASE Loop \/ Killed \/ ObjectDeleted \/ Environment
  <2>1. /\ UNCHANGED <<hosts, ok, found, sans, lost>>
        /\ at' = at \/ at' = "killed" \/ (at = "loop" /\ at' = "check")
    BY <1>7 DEF Loop, Killed, ObjectDeleted, Environment, ServiceChanges, cmdVars,
         queryVars, source
  <2>2. Answers' = Answers
    BY <2>1 DEF Answers
  <2> QED BY <2>1, <2>2 DEF AnswersInv
<1> QED BY <1>1, <1>2, <1>3, <1>4, <1>5, <1>6, <1>7 DEF Next, Process

LEMMA RequestNext ==
  ASSUME TypeInv, FoundInv, RequestInv, Next
  PROVE  RequestInv'
<1>1. CASE Start
  <2>1. PICK l \in Lines : line' = l /\ at' = Entry(l)
    BY <1>1 DEF Start
  <2>2. at' \in {"exit1", "panic", "check", FirstStep(Operations(l))}
    BY <2>1, EntryOf
  <2> QED BY <2>1, <2>2, StepOrder DEF RequestInv, Generated, Given
<1>2. CASE Check
  <2>1. UNCHANGED line /\ at' \in {"loop", FirstStep(Operations(line))}
    BY <1>2 DEF Check
  <2> QED BY <2>1, StepOrder DEF RequestInv, Generated, Given
<1>3. CASE QueryDone
  <2>1. UNCHANGED line /\ (at' = AfterQuery(Operations(line)) \/ at' \in {"exit0", "loop"})
    BY <1>3 DEF QueryDone, Goto, RunOver
  <2> QED BY <2>1, StepOrder DEF RequestInv, Generated, Given
<1>4. CASE Generate
  <2>1. UNCHANGED hosts
    BY <1>4 DEF Generate, source
  <2>2. CASE MayWrite("csr")
    BY <1>4, <2>1, <2>2 DEF Generate, RequestInv
  <2>3. CASE ~MayWrite("csr")
    BY <1>4, <2>3 DEF Generate, RunError, RequestInv, Generated
  <2> QED BY <2>2, <2>3
<1>5. CASE Submit \/ Approve \/ Fetch
  <2>1. /\ UNCHANGED <<line, hosts, request>>
        /\ at \in {"create", "get", "approve", "poll"}
    BY <1>5 DEF Submit, Approve, Fetch, source, left
  <2> QED BY <2>1 DEF RequestInv, Generated, Given
<1>6. CASE StepFails \/ QueryTimeout \/ QueryError
  <2>1. at' \in {"exit2", "loop"}
    BY <1>6 DEF StepFails, QueryTimeout, QueryError, QueryFails, RunError
  <2> QED BY <2>1 DEF RequestInv, Generated
<1>7. CASE Loop \/ Killed \/ ObjectDeleted \/ Environment \/ QueryStep
  <2>1. /\ UNCHANGED <<line, hosts, request>>
        /\ at' = at \/ at' \in {"killed", "check"}
    BY <1>7 DEF Loop, Killed, ObjectDeleted, Environment, QueryStep, cmdVars,
         source, left
  <2> QED BY <2>1 DEF RequestInv, Generated, Given
<1> QED BY <1>1, <1>2, <1>3, <1>4, <1>5, <1>6, <1>7 DEF Next, Process

LEMMA KeepsInvariant == Spec => []KeepsInv
<1>1. Init => KeepsInv
  <2> SUFFICES ASSUME Init PROVE KeepsInv
    OBVIOUS
  <2>1. FoundInv
    BY DEF Init, QueryInit, FoundInv, Steps, Given
  <2>2. AnswersInv /\ RequestInv
    BY DEF Init, AnswersInv, RequestInv, Generated, Ended
  <2> QED BY <2>1, <2>2 DEF KeepsInv
<1>2. TypeInv /\ KeepsInv /\ [Next]_vars => KeepsInv'
  <2> SUFFICES ASSUME TypeInv, KeepsInv, [Next]_vars PROVE KeepsInv'
    OBVIOUS
  <2>1. CASE Next
    BY <2>1, FoundNext, AnswersNext, RequestNext DEF KeepsInv
  <2>2. CASE UNCHANGED vars
    BY <2>2 DEF vars, queryVars, cmdVars, source, left, KeepsInv, FoundInv,
         AnswersInv, RequestInv, Answers, Generated, Given
  <2> QED BY <2>1, <2>2
<1> QED BY TypeInvariant, <1>1, <1>2, PTL DEF Spec

(* As long as no query of the process has failed, every request it makes   *)
(* names the hosts it was given and every address the services had when    *)
(* they answered, each once, whatever runs came before it: those that the  *)
(* hosts named twice and those that failed after their query included.     *)
THEOREM AnswersKept == Spec => []KeepsAnswers
<1>1. TypeInv /\ KeepsInv => KeepsAnswers
  <2> SUFFICES ASSUME TypeInv, KeepsInv, ~lost, Generated
               PROVE  /\ Given("query") => AllFound
                      /\ NamesExactly(request, ToSet(Args) \cup
                           (IF Given("query") THEN FoundHosts ELSE {}))
    BY DEF KeepsAnswers, RequestNamesAll
  <2>1. at \in {"create", "get", "approve", "poll"}
    BY DEF Generated
  <2>2. ToSet(hosts) = Answers
    BY <2>1 DEF KeepsInv, AnswersInv, Places, Steps, Ended
  <2>3. NamesExactly(request, Answers)
    BY <2>2, RequestOfHosts DEF KeepsInv, RequestInv, TypeInv, CmdTypeOK
  <2>4. CASE Given("query")
    <3>1. ok = Elts
      BY <2>1, <2>4 DEF KeepsInv, FoundInv, Steps
    <3>2. AllFound /\ Answers = ToSet(Args) \cup FoundHosts
      BY <3>1 DEF KeepsInv, FoundInv, AllFound, FoundHosts, Answers
    <3> QED BY <2>3, <2>4, <3>2
  <2>5. CASE ~Given("query")
    <3>1. Answers = ToSet(Args) \cup {}
      BY <2>5 DEF KeepsInv, FoundInv, Answers
    <3> QED BY <2>3, <2>5, <3>1
  <2> QED BY <2>4, <2>5
<1> QED BY TypeInvariant, KeepsInvariant, <1>1, PTL
=============================================================================
