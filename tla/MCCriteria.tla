------------------------------- MODULE MCCriteria -------------------------------
(***************************************************************************)
(* An instance of Criteria: a dataset that grows by a query and by a       *)
(* session while its sidecar is filled.                                    *)
(***************************************************************************)
EXTENDS Criteria

CONSTANTS q1, q2, q3

Small   == <<<<q1>>>>
Grown   == <<<<q1, q2>>, <<q3>>>>

GrowingFrom == {Small}
Growing     == (Small :> {Grown}) @@ (Grown :> {})
=================================================================================
