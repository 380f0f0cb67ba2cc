---------------------------- MODULE GrantedQueues ----------------------------
(***************************************************************************)
(* What the Arbitration IP promises the host and the downstream, without   *)
(* its scans, stores and pointers: commands wait in order on their queue;  *)
(* a queue with work is granted to at most one selection; a grant issues   *)
(* exactly one non-empty batch, from the head of the queue, and ends.      *)
(***************************************************************************)
EXTENDS Naturals, Sequences

CONSTANTS Sq, Workload

VARIABLES
  enqueued,   \* how many commands each queue was given
  queue,      \* the waiting ones, by number
  issued,     \* what was issued, in order
  stage       \* of each queue: no grant, granted, or its batch is issued

vars == <<enqueued, queue, issued, stage>>

Init ==
  /\ enqueued = [s \in Sq |-> 0]
  /\ queue = [s \in Sq |-> <<>>]
  /\ issued = <<>>
  /\ stage = [s \in Sq |-> "none"]

Enqueue(s) ==
  /\ enqueued[s] < Workload[s]
  /\ enqueued' = [enqueued EXCEPT ![s] = @ + 1]
  /\ queue' = [queue EXCEPT ![s] = Append(@, enqueued[s] + 1)]
  /\ UNCHANGED <<issued, stage>>

Grant(s) ==
  /\ stage[s] = "none" /\ queue[s] # <<>>
  /\ stage' = [stage EXCEPT ![s] = "granted"]
  /\ UNCHANGED <<enqueued, queue, issued>>

IssueBatch(s, n) ==
  /\ stage[s] = "granted"
  /\ issued' = issued \o [i \in 1 .. n |-> [sq |-> s, n |-> queue[s][i]]]
  /\ queue' = [queue EXCEPT ![s] = SubSeq(@, n + 1, Len(@))]
  /\ stage' = [stage EXCEPT ![s] = "issued"]
  /\ UNCHANGED enqueued

EndGrant(s) ==
  /\ stage[s] = "issued"
  /\ stage' = [stage EXCEPT ![s] = "none"]
  /\ UNCHANGED <<enqueued, queue, issued>>

Next ==
  \E s \in Sq :
    \/ Enqueue(s) \/ Grant(s) \/ EndGrant(s)
    \/ \E n \in 1 .. Len(queue[s]) : IssueBatch(s, n)

Spec == Init /\ [][Next]_vars

==============================================================================
