-------------------------------- MODULE MCCmd --------------------------------
(***************************************************************************)
(* Instances of Cmd for TLC: the command lines of a Pod as in the examples *)
(* (an init container that issues, a sidecar that renews), two services.   *)
(* Hosts 1 to 9 are names, 10 to 19 addresses.                             *)
(***************************************************************************)
EXTENDS Cmd

Issue   == {"query", "generate", "submit", "approve", "fetch"}
Sidecar == {"approve", "renew"}
Renewer == {"query", "generate", "approve", "renew"}

PodLines == {Issue, Sidecar, Renewer, Renewer \cup {"override"},
             {"approve", "fetch"}, {"query"}, Issue \cup {"delete"}}
RenewLines == {Issue, Renewer}

Addresses10 == 10 .. 19
TwoServices == <<"etcd", "web">>
Internal == [cluster |-> <<11>>, external |-> <<13, 12>>, balancer |-> << >>, name |-> << >>]
External == [cluster |-> << >>, external |-> << >>, balancer |-> <<14>>, name |-> <<3>>]
TwoSpecs == {Internal, External}
Duplicates == <<2, 12, 1, 2>>
=============================================================================
