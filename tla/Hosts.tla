-------------------------------- MODULE Hosts --------------------------------
(***************************************************************************)
(* The names and addresses of a certificate request.  A host is a number,  *)
(* ordered as its string is.                                               *)
(***************************************************************************)
EXTENDS Naturals, Sequences, SequencesExt

CONSTANT IPs   \* the hosts that net.ParseIP takes

ASSUME HostsAssumption == IPs \subseteq Nat

NoRequest == [dns |-> << >>, ips |-> << >>]

(* The hosts of S, each of them once, in the order of their ranks.         *)
InOrder(S, rank) ==
  [i \in 1 .. Cardinality(S) |->
     CHOOSE h \in S : Cardinality({g \in S : rank[g] < rank[h]}) = i - 1]

Alphabet(hosts)   == [h \in ToSet(hosts) |-> h]
FirstPlace(hosts) ==
  [h \in ToSet(hosts) |->
     CHOOSE i \in DOMAIN hosts : hosts[i] = h /\ \A j \in 1 .. i - 1 : hosts[j] # h]

(* categorizeHosts: names sorted; addresses as they came, because the      *)
(* comparator compares an address with itself (up to twelve of them: the   *)
(* library sorts so few by insertion).  Mutant: an address is a name too.  *)
CategorizeHosts_AsNames(hosts) ==
  [dns |-> InOrder(ToSet(hosts), Alphabet(hosts)), ips |-> << >>]
CategorizeHosts(hosts) ==
  [dns |-> InOrder(ToSet(hosts) \ IPs, Alphabet(hosts)),
   ips |-> InOrder(ToSet(hosts) \cap IPs, FirstPlace(hosts))]

Named(request) == ToSet(request.dns) \cup ToSet(request.ips)

(* The request names these hosts, each of them once.                       *)
NamesExactly(request, hosts) ==
  /\ Named(request) = hosts
  /\ Len(request.dns) + Len(request.ips) = Cardinality(hosts)

=============================================================================
