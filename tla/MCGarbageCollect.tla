-------------------------- MODULE MCGarbageCollect --------------------------
(***************************************************************************)
(* Instances of GarbageCollect for TLC.                                    *)
(***************************************************************************)
EXTENDS GarbageCollect

CONSTANTS n1, n2, key

GcNames      == {n1, n2}
OneGcName    == {n1}
GcKeys       == {key}
DeniedOrFetched  == InOrder({"fetched", "denied"})
FetchedOrExpired == InOrder({"expired", "fetched"})
AllChosen        == InOrder({"expired", "fetched", "denied"})
=============================================================================
