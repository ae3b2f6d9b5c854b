-------------------------------- MODULE Query --------------------------------
(***************************************************************************)
(* The query of the services' addresses: a call that polls until each      *)
(* service has answered once, while services come, go and change.  Which   *)
(* services have answered outlives the call, what they answered does not:  *)
(* the caller appends what a call returns to its hosts.                    *)
(***************************************************************************)
EXTENDS Hosts

CONSTANTS
  Services,   \* --query-svc, in order
  Specs,      \* the specifications a service may have
  NoService   \* there is no such service

VARIABLES
  cluster,    \* service -> its specification or NoService
  ok,         \* the services that have answered this process (elt.ok)
  sans,       \* what the current call has collected
  turn,       \* service to get next; 0 while the call waits in its select
  found       \* history: service -> the answer this process got

queryVars == <<cluster, ok, sans, turn, found>>

Elts == 1 .. Len(Services)

ASSUME QueryAssumption ==
  /\ Services \in Seq(STRING)
  /\ Specs \subseteq [cluster : Seq(Nat), external : Seq(Nat),
                      balancer : Seq(Nat), name : Seq(Nat)]
  /\ NoService \notin Specs

(* The fields of a specification, each a sequence of hosts: empty if the   *)
(* field is.                                                               *)
Addresses(s) == s.cluster \o s.external \o s.balancer \o s.name

QueryInit ==
  /\ cluster \in [ToSet(Services) -> Specs \cup {NoService}]
  /\ ok = {} /\ sans = << >> /\ turn = 0
  /\ found = [e \in Elts |-> NoService]

NewQuery ==
  /\ ok' = {} /\ sans' = << >> /\ turn' = 0
  /\ found' = [e \in Elts |-> NoService]
  /\ UNCHANGED cluster

Call ==
  /\ sans' = << >> /\ turn' = 0
  /\ UNCHANGED <<cluster, ok, found>>

Tick ==
  /\ turn = 0
  /\ turn' = 1
  /\ UNCHANGED <<cluster, ok, sans, found>>

(* One service: skipped, not found, or its addresses are collected.        *)
Get ==
  LET s == cluster[Services[turn]] IN
  /\ turn \in Elts
  /\ turn' = turn + 1
  /\ IF turn \in ok \/ s = NoService
       THEN UNCHANGED <<ok, sans, found>>
       ELSE /\ ok' = ok \cup {turn}
            /\ found' = [found EXCEPT ![turn] = s]
            /\ sans' = sans \o Addresses(s)
  /\ UNCHANGED cluster

PassOver == turn = Len(Services) + 1

AllAnswered == PassOver /\ ok = Elts

TryAgain ==
  /\ PassOver /\ ok # Elts
  /\ turn' = 0
  /\ UNCHANGED <<cluster, ok, sans, found>>

(* A service is created, changed or deleted.                               *)
ServiceChanges ==
  /\ \E n \in ToSet(Services), s \in Specs \cup {NoService} :
       cluster' = [cluster EXCEPT ![n] = s]
  /\ UNCHANGED <<ok, sans, turn, found>>

QueryTypeOK ==
  /\ cluster \in [ToSet(Services) -> Specs \cup {NoService}]
  /\ ok \subseteq Elts
  /\ sans \in Seq(Nat)
  /\ turn \in 0 .. Len(Services) + 1
  /\ found \in [Elts -> Specs \cup {NoService}]

(* What a process must name that has the answers of all its services.      *)
AllFound   == \A e \in Elts : found[e] # NoService
FoundHosts == UNION {ToSet(Addresses(found[e])) : e \in Elts}

=============================================================================
