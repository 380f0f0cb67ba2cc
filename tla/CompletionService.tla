-------------------------- MODULE CompletionService --------------------------
(***************************************************************************)
(* What the Completion IP promises its producer, without its tokens, its   *)
(* eligible set and its pointer: commands are accepted in the order they   *)
(* are submitted, wait in order behind their tenant's other commands, and  *)
(* are completed one at a time.                                            *)
(***************************************************************************)
EXTENDS Naturals, Sequences

CONSTANTS Tenant, Command, TenantOf, Depth, None

VARIABLES
  inbox,      \* submitted, not yet accepted
  pending,    \* accepted, by tenant
  serving,    \* the command on its way out, or None
  completed

vars == <<inbox, pending, serving, completed>>

Init ==
  /\ inbox = <<>>
  /\ pending = [t \in Tenant |-> <<>>]
  /\ serving = None
  /\ completed = <<>>

Submit(c) ==
  /\ inbox' = Append(inbox, c)
  /\ UNCHANGED <<pending, serving, completed>>

\* The producer is acknowledged here.
Accept ==
  /\ inbox # <<>>
  /\ LET t == TenantOf[Head(inbox)] IN
     /\ Depth # None => Len(pending[t]) < Depth
     /\ pending' = [pending EXCEPT ![t] = Append(@, Head(inbox))]
  /\ inbox' = Tail(inbox)
  /\ UNCHANGED <<serving, completed>>

Begin(t) ==
  /\ serving = None /\ pending[t] # <<>>
  /\ serving' = Head(pending[t])
  /\ pending' = [pending EXCEPT ![t] = Tail(@)]
  /\ UNCHANGED <<inbox, completed>>

Finish ==
  /\ serving # None
  /\ completed' = Append(completed, serving)
  /\ serving' = None
  /\ UNCHANGED <<inbox, pending>>

Next ==
  \/ \E c \in Command : Submit(c)
  \/ Accept
  \/ \E t \in Tenant : Begin(t)
  \/ Finish

Spec == Init /\ [][Next]_vars

==============================================================================
