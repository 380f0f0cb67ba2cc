---------------------------- MODULE MCCompletion ----------------------------
(***************************************************************************)
(* Small instances of Completion: two tenants, of which t2 is not in the   *)
(* constructor's weights and joins the order when its first command does.  *)
(***************************************************************************)
EXTENDS Completion, TLC

CONSTANTS t1, t2

\* Two read axes: operations and bandwidth.  BULK takes all the bandwidth.
MCAxis == {"read", "read_bw"}
MCKind == {"READ", "BULK", "FLUSH"}
MCCost == [READ |-> [read |-> 1, read_bw |-> 1], BULK |-> [read |-> 1, read_bw |-> 2], FLUSH |-> <<>>]

\* A command is the n-th of its tenant's script.
Script == (t1 :> <<"READ", "BULK", "READ">>) @@ (t2 :> <<"FLUSH">>)
MCCommand == UNION { { <<t, n>> : n \in DOMAIN Script[t] } : t \in {t1, t2} }
MCTenantOf == [c \in MCCommand |-> c[1]]
MCKindOf == [c \in MCCommand |-> Script[c[1]][c[2]]]
MCNextCommand(done) ==
  { c \in MCCommand :
      /\ \A i \in DOMAIN done : done[i] # c
      /\ \A n \in 1 .. c[2] - 1 : \E i \in DOMAIN done : done[i] = <<c[1], n>> }

MCInitialOrder == <<t1>>
MCInitialTokens == [t \in {t1, t2} |-> [a \in MCAxis |-> 2]]
BaseOfOne == [t \in {t1, t2} |-> [a \in MCAxis |-> 1]]

=============================================================================
