-------------------------- MODULE MCConnectionPool --------------------------
(***************************************************************************)
(* A small instance of ConnectionPool: a process with three connections; a *)
(* pane edit that is sent twice, a document edit that is not permitted,    *)
(* with equal lock keys; and a visitor that nests.                         *)
(***************************************************************************)
EXTENDS ConnectionPool, MCSubmitOperation

DeniedEdit == Op("s2", "carol", "d1", "d1", {"denied"})
PoolOperation == {AlicePaneEdit, DeniedEdit}
PoolCarries == <<AlicePaneEdit, AlicePaneEdit, DeniedEdit>>
PoolServerOf == <<"A", "A", "A">>

\* Visitor 11.
PoolVisitorAt == [v \in {11} |-> "A"]
=============================================================================
