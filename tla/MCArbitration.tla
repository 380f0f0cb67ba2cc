---------------------------- MODULE MCArbitration ----------------------------
(***************************************************************************)
(* Small instances of Arbitration.  Two tenants share port p0, one of them *)
(* with the larger weight; a third is alone on p1.                         *)
(***************************************************************************)
EXTENDS Arbitration, TLC

CONSTANTS p0, p1, tA, tB, tC, a1, b1, c1

MCPort == {p0, p1}
MCTenant == {tA, tB, tC}
MCSq == {a1, b1, c1}
MCPortOf == (tA :> p0) @@ (tB :> p0) @@ (tC :> p1)
MCTenantOf == (a1 :> tA) @@ (b1 :> tB) @@ (c1 :> tC)
MCPortOrder == <<p0, p1>>
MCTenantOrder == (p0 :> <<tA, tA, tB>>) @@ (p1 :> <<tC>>)
MCSqOrder == (tA :> <<a1>>) @@ (tB :> <<b1>>) @@ (tC :> <<c1>>)

TwoShared == [s \in MCSq |-> IF s = c1 THEN 0 ELSE 1]
BurstLoad == [s \in MCSq |-> CASE s = a1 -> 2 [] s = b1 -> 1 [] s = c1 -> 0]

==============================================================================
