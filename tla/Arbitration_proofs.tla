-------------------------- MODULE Arbitration_proofs --------------------------
(***************************************************************************)
(* Theorems about Arbitration, for every topology, weighted order,         *)
(* workload and host behaviour its constants allow.                        *)
(***************************************************************************)
EXTENDS Arbitration, SequenceTheorems, TLAPS

-----------------------------------------------------------------------------
(* Facts about the operators of the model.                                  *)

\* A scan returns one of its candidates (common.py, scan).
LEMMA FirstOfIsCandidate ==
  ASSUME NEW order, NEW index, NEW candidates
  PROVE  FirstOf(order, index, candidates) \subseteq candidates
  BY DEF FirstOf

\* advance_to_after leaves a place of the order, or the index it found.
LEMMA AdvanceToAfterIsNat ==
  ASSUME NEW Name, NEW order \in Seq(Name), NEW index \in Nat, NEW selected
  PROVE  AdvanceToAfter(order, index, selected) \in Nat
<1>1. AfterFirst(order, index, selected) \subseteq Nat
  <2>1. Len(order) \in Nat
    OBVIOUS
  <2>2. ASSUME NEW k \in Offsets(order)
        PROVE  ((index + k) % Len(order)) + 1 \in Nat
    <3>1. Len(order) > 0 /\ k \in Nat
      BY <2>1, <2>2 DEF Offsets
    <3>2. (index + k) % Len(order) \in Nat
      BY <2>1, <3>1
    <3> QED
      BY <3>2
  <2> QED
    BY <2>2 DEF AfterFirst
<1>2. CASE AfterFirst(order, index, selected) = {}
  BY <1>2 DEF AdvanceToAfter
<1>3. CASE AfterFirst(order, index, selected) # {}
  BY <1>1, <1>3 DEF AdvanceToAfter
<1> QED
  BY <1>2, <1>3

\* The minimum _issue_count takes is one of its four operands and is at most
\* each of them.
LEMMA LeastOfFour ==
  ASSUME NEW a \in Int, NEW b \in Int, NEW c \in Int, NEW d \in Int
  PROVE  /\ Least({a, b, c, d}) \in {a, b, c, d}
         /\ Least({a, b, c, d}) <= a /\ Least({a, b, c, d}) <= b
         /\ Least({a, b, c, d}) <= c /\ Least({a, b, c, d}) <= d
<1>1. \E x \in {a, b, c, d} : \A y \in {a, b, c, d} : x <= y
  <2>1. CASE a <= b /\ a <= c /\ a <= d
    BY <2>1
  <2>2. CASE b <= a /\ b <= c /\ b <= d
    BY <2>2
  <2>3. CASE c <= a /\ c <= b /\ c <= d
    BY <2>3
  <2>4. CASE d <= a /\ d <= b /\ d <= c
    BY <2>4
  <2> QED
    BY <2>1, <2>2, <2>3, <2>4
<1>2. /\ Least({a, b, c, d}) \in {a, b, c, d}
      /\ \A y \in {a, b, c, d} : Least({a, b, c, d}) <= y
  BY <1>1 DEF Least
<1> QED
  BY <1>2

-----------------------------------------------------------------------------
(* Type correctness.  The trace grows by commands read from the queue by      *)
(* position, so its type rests on the count of the request being backed by    *)
(* commands that are still queued.                                            *)

CountIsBacked ==
  pipePc \in {"ACQUIRE_SLOT", "ISSUE_REQUEST"} =>
    issueCount > 0 /\ issueCount <= Len(queue[pipeSq])

TypeInv == TypeOK /\ CountIsBacked

LEMMA InitTypeInv == Init => TypeInv
<1> SUFFICES ASSUME Init PROVE TypeInv
  OBVIOUS
<1> USE DEF Init
<1>1. QueueTypes
  BY DEF QueueTypes
<1>2. ClaimTypes
  BY DEF ClaimTypes
<1>3. BurstTypes /\ TenantTypes
  BY HostAssumption DEF BurstTypes, TenantTypes
<1>4. ArbiterTypes
  BY TopologyAssumption DEF ArbiterTypes, ArbPcs
<1>5. PipeTypes /\ CountIsBacked
  BY TopologyAssumption DEF PipeTypes, PipePcs, CountIsBacked
<1>6. PolicyTypes
  BY DEF PolicyTypes
<1> QED
  BY <1>1, <1>2, <1>3, <1>4, <1>5, <1>6 DEF TypeInv, TypeOK

LEMMA HostTypeInv == TypeInv /\ Host => TypeInv'
<1> SUFFICES ASSUME TypeInv, Host PROVE TypeInv'
  OBVIOUS
<1> USE DEF TypeInv, TypeOK, hostVars, burstVars, scanVars, arbiterVars, pipeVars, policyVars
<1>1. ASSUME NEW s \in Sq, Enqueue(s)
      PROVE  TypeInv'
  <2> USE <1>1 DEF Enqueue
  <2>1. QueueTypes'
    BY DEF QueueTypes
  <2>2. ArbiterTypes'
    BY DEF ArbiterTypes, Wake
  <2>3. CountIsBacked'
    BY DEF CountIsBacked, QueueTypes, PipeTypes
  <2>4. ClaimTypes' /\ BurstTypes' /\ TenantTypes' /\ PipeTypes' /\ PolicyTypes'
    BY DEF ClaimTypes, BurstTypes, TenantTypes, PipeTypes, PolicyTypes
  <2> QED
    BY <2>1, <2>2, <2>3, <2>4
<1>2. ASSUME NEW s \in BurstHost, NEW d \in BurstUpdate \cup {deviceBurst},
             NEW bt \in BurstUpdate \cup {tenantBurst[TenantOf[s]]},
             NEW bs \in BurstUpdate \cup {sqBurst[s]}, ConfigureBurst(s, d, bt, bs)
      PROVE  TypeInv'
  <2> USE <1>2 DEF ConfigureBurst
  <2>1. BurstTypes'
    <3>1. s \in Sq /\ TenantOf[s] \in Tenant /\ BurstUpdate \subseteq Int
      BY HostAssumption, TopologyAssumption
    <3>2. d \in Int /\ bt \in Int /\ bs \in Int
      BY <3>1 DEF BurstTypes
    <3> QED
      BY <3>1, <3>2 DEF BurstTypes
  <2>2. QueueTypes' /\ ClaimTypes' /\ TenantTypes'
    BY DEF QueueTypes, ClaimTypes, TenantTypes
  <2>3. ArbiterTypes' /\ PipeTypes' /\ PolicyTypes' /\ CountIsBacked'
    BY DEF ArbiterTypes, PipeTypes, PolicyTypes, CountIsBacked
  <2> QED
    BY <2>1, <2>2, <2>3
<1>3. ASSUME NEW t \in CreditHost, NEW isAlive \in BOOLEAN, NEW hasCredit \in BOOLEAN,
             SetTenantCredit(t, isAlive, hasCredit)
      PROVE  TypeInv'
  <2> USE <1>3 DEF SetTenantCredit
  <2>1. TenantTypes'
    BY DEF TenantTypes
  <2>2. ArbiterTypes'
    BY DEF ArbiterTypes, Wake
  <2>3. QueueTypes' /\ ClaimTypes' /\ BurstTypes'
    BY DEF QueueTypes, ClaimTypes, BurstTypes
  <2>4. PipeTypes' /\ PolicyTypes' /\ CountIsBacked'
    BY DEF PipeTypes, PolicyTypes, CountIsBacked
  <2> QED
    BY <2>1, <2>2, <2>3, <2>4
<1>4. ASSUME SetIssueReady
      PROVE  TypeInv'
  <2> USE <1>4 DEF SetIssueReady
  <2>1. TenantTypes'
    BY DEF TenantTypes
  <2>2. QueueTypes' /\ ClaimTypes' /\ BurstTypes' /\ ArbiterTypes'
    BY DEF QueueTypes, ClaimTypes, BurstTypes, ArbiterTypes
  <2>3. PipeTypes' /\ PolicyTypes' /\ CountIsBacked'
    BY DEF PipeTypes, PolicyTypes, CountIsBacked
  <2> QED
    BY <2>1, <2>2, <2>3
<1>5. ASSUME QueryPendingBitmaps
      PROVE  TypeInv'
  <2> USE <1>5 DEF QueryPendingBitmaps
  <2>1. ClaimTypes'
    BY DEF ClaimTypes, RefreshedBitmap
  <2>2. QueueTypes' /\ BurstTypes' /\ TenantTypes' /\ ArbiterTypes'
    BY DEF QueueTypes, BurstTypes, TenantTypes, ArbiterTypes
  <2>3. PipeTypes' /\ PolicyTypes' /\ CountIsBacked'
    BY DEF PipeTypes, PolicyTypes, CountIsBacked
  <2> QED
    BY <2>1, <2>2, <2>3
<1> QED
  BY <1>1, <1>2, <1>3, <1>4, <1>5 DEF Host

\* Where the arbiter goes after its test for work is one of its places, and
\* never one that a selection or a scan is held at.
LEMMA IdleOutcomeIsPlace ==
  ASSUME NEW stale, NEW bits, NEW q, NEW live, NEW claims
  PROVE  IdleOutcome(stale, bits, q, live, claims) \in {"BITMAP", "PORT_SCAN", "ASLEEP"}
  BY DEF IdleOutcome

LEMMA ArbiterTypeInv == TypeInv /\ ArbiterMain => TypeInv'
<1> SUFFICES ASSUME TypeInv, ArbiterMain PROVE TypeInv'
  OBVIOUS
<1> USE DEF TypeInv, TypeOK, burstVars, pipeVars, policyVars, scanVars
<1>1. ASSUME UpdateBitmaps
      PROVE  TypeInv'
  <2> USE <1>1 DEF UpdateBitmaps, ArbiterFrame, QueuesFrame, ClaimFrame
  <2>1. ArbiterTypes'
    BY IdleOutcomeIsPlace DEF ArbiterTypes, ArbPcs, IdleOutcome
  <2>2. ClaimTypes'
    BY DEF ClaimTypes, RefreshedBitmap
  <2>3. QueueTypes' /\ BurstTypes' /\ TenantTypes'
    BY DEF QueueTypes, BurstTypes, TenantTypes
  <2>4. PipeTypes' /\ PolicyTypes' /\ CountIsBacked'
    BY DEF PipeTypes, PolicyTypes, CountIsBacked
  <2> QED
    BY <2>1, <2>2, <2>3, <2>4
<1>2. ASSUME WakeUp
      PROVE  TypeInv'
  <2> USE <1>2 DEF WakeUp, ArbiterFrame, QueuesFrame, ClaimFrame
  <2>1. ArbiterTypes'
    BY IdleOutcomeIsPlace DEF ArbiterTypes, ArbPcs, EnterIdle
  <2>2. QueueTypes' /\ ClaimTypes' /\ BurstTypes' /\ TenantTypes'
    BY DEF QueueTypes, ClaimTypes, BurstTypes, TenantTypes
  <2>3. PipeTypes' /\ PolicyTypes' /\ CountIsBacked'
    BY DEF PipeTypes, PolicyTypes, CountIsBacked
  <2> QED
    BY <2>1, <2>2, <2>3
<1>3. ASSUME PortScan
      PROVE  TypeInv'
  <2> USE <1>3 DEF PortScan, ArbiterFrame, QueuesFrame, ClaimFrame
  <2>1. ArbiterTypes'
    <3>1. /\ arbPc = "PORT_SCAN" /\ arbPc' \in {"TENANT_SCAN", "STALL"}
          /\ arbPc' = "TENANT_SCAN" => scanPort' \in ActivePort /\ scanPort' # None
          /\ arbPc' = "STALL" => scanPort' = scanPort
      BY TopologyAssumption, FirstOfIsCandidate DEF PendingPorts
    <3>2. triedPorts' \subseteq Port /\ triedTenants' \subseteq Tenant
      BY DEF ArbiterTypes
    <3>3. UNCHANGED <<woken, scanTenant, granted, exhausted, afterRefill>>
      OBVIOUS
    <3>4. ArbiterTypes
      OBVIOUS
    <3> HIDE <1>3 DEF PortScan, ArbiterFrame, QueuesFrame, ClaimFrame
    <3> QED
      BY <3>1, <3>2, <3>3, <3>4 DEF ArbiterTypes, ArbPcs
  <2>2. QueueTypes' /\ ClaimTypes' /\ BurstTypes' /\ TenantTypes'
    BY DEF QueueTypes, ClaimTypes, BurstTypes, TenantTypes
  <2>3. PipeTypes' /\ PolicyTypes' /\ CountIsBacked'
    BY DEF PipeTypes, PolicyTypes, CountIsBacked
  <2> QED
    BY <2>1, <2>2, <2>3
<1>4. ASSUME SelectTenant
      PROVE  TypeInv'
  <2> USE <1>4 DEF SelectTenant, ArbiterFrame, QueuesFrame, ClaimFrame
  <2>1. ArbiterTypes'
    BY TopologyAssumption, FirstOfIsCandidate DEF ArbiterTypes, ArbPcs, TenantsFound, Candidates
  <2>2. QueueTypes' /\ ClaimTypes' /\ BurstTypes' /\ TenantTypes'
    BY DEF QueueTypes, ClaimTypes, BurstTypes, TenantTypes
  <2>3. PipeTypes' /\ PolicyTypes' /\ CountIsBacked'
    BY DEF PipeTypes, PolicyTypes, CountIsBacked
  <2> QED
    BY <2>1, <2>2, <2>3
<1>5. ASSUME NoTenant
      PROVE  TypeInv'
  <2> USE <1>5 DEF NoTenant, ArbiterFrame, QueuesFrame, ClaimFrame
  <2>1. ArbiterTypes'
    BY TopologyAssumption DEF ArbiterTypes, ArbPcs, Exhausted
  <2>2. QueueTypes' /\ ClaimTypes' /\ BurstTypes' /\ TenantTypes'
    BY DEF QueueTypes, ClaimTypes, BurstTypes, TenantTypes
  <2>3. PipeTypes' /\ PolicyTypes' /\ CountIsBacked'
    BY DEF PipeTypes, PolicyTypes, CountIsBacked
  <2> QED
    BY <2>1, <2>2, <2>3
<1>6. ASSUME RefillCredit
      PROVE  TypeInv'
  <2> USE <1>6 DEF RefillCredit, ArbiterFrame, QueuesFrame, ClaimFrame
  <2>1. ArbiterTypes'
    BY DEF ArbiterTypes, ArbPcs
  <2>2. TenantTypes'
    BY DEF TenantTypes
  <2>3. QueueTypes' /\ ClaimTypes' /\ BurstTypes'
    BY DEF QueueTypes, ClaimTypes, BurstTypes
  <2>4. PipeTypes' /\ PolicyTypes' /\ CountIsBacked'
    BY DEF PipeTypes, PolicyTypes, CountIsBacked
  <2> QED
    BY <2>1, <2>2, <2>3, <2>4
<1>7. ASSUME CommitSelection
      PROVE  TypeInv'
  <2> USE <1>7 DEF CommitSelection, ArbiterFrame, QueuesFrame, ClaimFrame
  <2>1. ArbiterTypes'
    BY TopologyAssumption, FirstOfIsCandidate DEF ArbiterTypes, ArbPcs, ClaimTypes, SqsFound
  <2>2. ClaimTypes'
    BY FirstOfIsCandidate DEF ClaimTypes, SqsFound
  <2>3. QueueTypes' /\ BurstTypes' /\ TenantTypes'
    BY DEF QueueTypes, BurstTypes, TenantTypes
  <2>4. PipeTypes' /\ PolicyTypes' /\ CountIsBacked'
    BY DEF PipeTypes, PolicyTypes, CountIsBacked
  <2> QED
    BY <2>1, <2>2, <2>3, <2>4
<1>8. ASSUME NoSq
      PROVE  TypeInv'
  <2> USE <1>8 DEF NoSq, ArbiterFrame, QueuesFrame, ClaimFrame
  <2>1. ArbiterTypes'
    BY TopologyAssumption DEF ArbiterTypes, ArbPcs
  <2>2. QueueTypes' /\ ClaimTypes' /\ BurstTypes' /\ TenantTypes'
    BY DEF QueueTypes, ClaimTypes, BurstTypes, TenantTypes
  <2>3. PipeTypes' /\ PolicyTypes' /\ CountIsBacked'
    BY DEF PipeTypes, PolicyTypes, CountIsBacked
  <2> QED
    BY <2>1, <2>2, <2>3
<1>9. ASSUME StallRetry
      PROVE  TypeInv'
  <2> USE <1>9 DEF StallRetry, ArbiterFrame, QueuesFrame, ClaimFrame
  <2>1. ArbiterTypes'
    BY IdleOutcomeIsPlace DEF ArbiterTypes, ArbPcs, EnterIdle
  <2>2. QueueTypes' /\ ClaimTypes' /\ BurstTypes' /\ TenantTypes'
    BY DEF QueueTypes, ClaimTypes, BurstTypes, TenantTypes
  <2>3. PipeTypes' /\ PolicyTypes' /\ CountIsBacked'
    BY DEF PipeTypes, PolicyTypes, CountIsBacked
  <2> QED
    BY <2>1, <2>2, <2>3
<1>10. ASSUME PutSelection
      PROVE  TypeInv'
  <2> USE <1>10 DEF PutSelection, ArbiterFrame, QueuesFrame, ClaimFrame
  <2>1. ArbiterTypes'
    BY DEF ArbiterTypes, ArbPcs
  <2>2. QueueTypes'
    BY DEF QueueTypes, ArbiterTypes
  <2>3. ClaimTypes' /\ BurstTypes' /\ TenantTypes'
    BY DEF ClaimTypes, BurstTypes, TenantTypes
  <2>4. PipeTypes' /\ PolicyTypes' /\ CountIsBacked'
    BY DEF PipeTypes, PolicyTypes, CountIsBacked
  <2> QED
    BY <2>1, <2>2, <2>3, <2>4
<1>11. ASSUME PutPolicy
      PROVE  TypeInv'
  <2> USE <1>11 DEF PutPolicy, ArbiterFrame, QueuesFrame, ClaimFrame
  <2>1. ArbiterTypes'
    BY TopologyAssumption DEF ArbiterTypes, ArbPcs
  <2>2. PolicyTypes'
    BY DEF PolicyTypes, ArbiterTypes
  <2>3. QueueTypes' /\ ClaimTypes' /\ BurstTypes'
    BY DEF QueueTypes, ClaimTypes, BurstTypes
  <2>4. TenantTypes' /\ PipeTypes' /\ CountIsBacked'
    BY DEF TenantTypes, PipeTypes, CountIsBacked
  <2> QED
    BY <2>1, <2>2, <2>3, <2>4
<1>12. ASSUME GrantDone
      PROVE  TypeInv'
  <2> USE <1>12 DEF GrantDone, ArbiterFrame, QueuesFrame, ClaimFrame
  <2>1. ArbiterTypes'
    BY IdleOutcomeIsPlace DEF ArbiterTypes, ArbPcs, EnterIdle
  <2>2. QueueTypes' /\ ClaimTypes' /\ BurstTypes' /\ TenantTypes'
    BY DEF QueueTypes, ClaimTypes, BurstTypes, TenantTypes
  <2>3. PipeTypes' /\ PolicyTypes' /\ CountIsBacked'
    BY DEF PipeTypes, PolicyTypes, CountIsBacked
  <2> QED
    BY <2>1, <2>2, <2>3
<1> QED
  BY <1>1, <1>2, <1>3, <1>4, <1>5, <1>6, <1>7, <1>8, <1>9, <1>10, <1>11, <1>12 DEF ArbiterMain

\* The count _issue_count returns is backed by the queue and by the three
\* counters it was read from.
LEMMA IssuableCountIsCovered ==
  ASSUME QueueTypes, BurstTypes, NEW s \in Sq
  PROVE  /\ IssuableCount(s) \in Int
         /\ IssuableCount(s) <= Len(queue[s])
         /\ IssuableCount(s) <= deviceBurst
         /\ IssuableCount(s) <= tenantBurst[TenantOf[s]]
         /\ IssuableCount(s) <= sqBurst[s]
<1>1. /\ Len(queue[s]) \in Int /\ deviceBurst \in Int
      /\ tenantBurst[TenantOf[s]] \in Int /\ sqBurst[s] \in Int
  BY TopologyAssumption DEF QueueTypes, BurstTypes
<1> DEFINE operands == {Len(queue[s]), deviceBurst, tenantBurst[TenantOf[s]], sqBurst[s]}
<1>2. Least(operands) \in operands
  BY <1>1, LeastOfFour
<1>3. /\ Least(operands) <= Len(queue[s]) /\ Least(operands) <= deviceBurst
      /\ Least(operands) <= tenantBurst[TenantOf[s]] /\ Least(operands) <= sqBurst[s]
  BY <1>1, LeastOfFour
<1> QED
  BY <1>1, <1>2, <1>3 DEF IssuableCount

LEMMA PipeTypeInv == TypeInv /\ (IssuePipeline \/ ReleaseSlot) => TypeInv'
<1> SUFFICES ASSUME TypeInv, IssuePipeline \/ ReleaseSlot PROVE TypeInv'
  OBVIOUS
<1> USE DEF TypeInv, TypeOK, PipeFrame, ClaimFrame, burstVars, arbiterVars, scanVars, policyVars
<1>1. ASSUME TakeSelection
      PROVE  TypeInv'
  <2> USE <1>1 DEF TakeSelection
  <2>1. QueueTypes'
    BY DEF QueueTypes
  <2>2. PipeTypes'
    BY TopologyAssumption DEF PipeTypes, PipePcs, QueueTypes
  <2>3. CountIsBacked'
    BY DEF CountIsBacked
  <2>4. ClaimTypes' /\ BurstTypes' /\ TenantTypes'
    BY DEF ClaimTypes, BurstTypes, TenantTypes
  <2>5. ArbiterTypes' /\ PolicyTypes'
    BY DEF ArbiterTypes, PolicyTypes
  <2> QED
    BY <2>1, <2>2, <2>3, <2>4, <2>5
<1>2. ASSUME ReadPendingCount
      PROVE  TypeInv'
  <2> USE <1>2 DEF ReadPendingCount
  <2>1. PipeTypes'
    BY DEF PipeTypes, PipePcs, QueueTypes
  <2>2. CountIsBacked'
    BY DEF CountIsBacked
  <2>3. QueueTypes' /\ ClaimTypes' /\ BurstTypes'
    BY DEF QueueTypes, ClaimTypes, BurstTypes
  <2>4. TenantTypes' /\ ArbiterTypes' /\ PolicyTypes'
    BY DEF TenantTypes, ArbiterTypes, PolicyTypes
  <2> QED
    BY <2>1, <2>2, <2>3, <2>4
<1>3. ASSUME CalcIssueCount
      PROVE  TypeInv'
  <2> USE <1>3 DEF CalcIssueCount
  <2>1. PipeTypes' /\ CountIsBacked'
    <3>1. pipeSq \in Sq
      BY DEF PipeTypes
    <3>2. IssuableCount(pipeSq) \in Int /\ IssuableCount(pipeSq) <= Len(queue[pipeSq])
      BY <3>1, IssuableCountIsCovered
    <3>3. PipeTypes'
      BY <3>2 DEF PipeTypes, PipePcs
    <3>4. CountIsBacked'
      BY <3>2 DEF CountIsBacked
    <3> QED
      BY <3>3, <3>4
  <2>2. QueueTypes' /\ ClaimTypes' /\ BurstTypes'
    BY DEF QueueTypes, ClaimTypes, BurstTypes
  <2>3. TenantTypes' /\ ArbiterTypes' /\ PolicyTypes'
    BY DEF TenantTypes, ArbiterTypes, PolicyTypes
  <2> QED
    BY <2>1, <2>2, <2>3
<1>4. ASSUME StallOver
      PROVE  TypeInv'
  <2> USE <1>4 DEF StallOver
  <2>1. PipeTypes'
    BY DEF PipeTypes, PipePcs
  <2>2. CountIsBacked'
    BY DEF CountIsBacked
  <2>3. QueueTypes' /\ ClaimTypes' /\ BurstTypes'
    BY DEF QueueTypes, ClaimTypes, BurstTypes
  <2>4. TenantTypes' /\ ArbiterTypes' /\ PolicyTypes'
    BY DEF TenantTypes, ArbiterTypes, PolicyTypes
  <2> QED
    BY <2>1, <2>2, <2>3, <2>4
<1>5. ASSUME AcquireSlot
      PROVE  TypeInv'
  <2> USE <1>5 DEF AcquireSlot
  <2>1. PipeTypes'
    BY DEF PipeTypes, PipePcs
  <2>2. CountIsBacked'
    BY DEF CountIsBacked
  <2>3. QueueTypes' /\ ClaimTypes' /\ BurstTypes'
    BY DEF QueueTypes, ClaimTypes, BurstTypes
  <2>4. TenantTypes' /\ ArbiterTypes' /\ PolicyTypes'
    BY DEF TenantTypes, ArbiterTypes, PolicyTypes
  <2> QED
    BY <2>1, <2>2, <2>3, <2>4
<1>6. ASSUME Issue
      PROVE  TypeInv'
  <2> USE <1>6 DEF Issue
  <2>1. QueueTypes'
    <3>1. /\ pipeSq \in Sq /\ issueCount \in Nat /\ queue[pipeSq] \in Seq(Nat)
          /\ issueCount <= Len(queue[pipeSq])
      BY DEF PipeTypes, QueueTypes, CountIsBacked
    <3>2. queue' \in [Sq -> Seq(Nat)]
      <4>1. SubSeq(queue[pipeSq], issueCount + 1, Len(queue[pipeSq])) \in Seq(Nat)
        BY <3>1
      <4> QED
        BY <4>1 DEF QueueTypes
    <3>3. issued' \in Seq(Command)
      <4> DEFINE batch == [i \in 1 .. issueCount |-> [sq |-> pipeSq, n |-> queue[pipeSq][i]]]
      <4>1. ASSUME NEW i \in 1 .. issueCount
            PROVE  [sq |-> pipeSq, n |-> queue[pipeSq][i]] \in Command
        BY <3>1 DEF Command
      <4>2. batch \in Seq(Command)
        BY <3>1, <4>1
      <4> HIDE DEF batch
      <4>3. issued \o batch \in Seq(Command)
        BY <4>2 DEF QueueTypes
      <4> QED
        BY <4>3 DEF batch
    <3> QED
      BY <3>2, <3>3 DEF QueueTypes
  <2>2. BurstTypes'
    <3>1. pipeSq \in Sq /\ TenantOf[pipeSq] \in Tenant /\ issueCount \in Int
      BY TopologyAssumption DEF PipeTypes
    <3>2. /\ deviceBurst - issueCount \in Int
          /\ tenantBurst[TenantOf[pipeSq]] - issueCount \in Int
          /\ sqBurst[pipeSq] - issueCount \in Int
      BY <3>1 DEF BurstTypes
    <3> QED
      BY <3>1, <3>2 DEF BurstTypes, DebitBursts
  <2>3. PipeTypes'
    BY DEF PipeTypes, PipePcs
  <2>4. CountIsBacked'
    BY DEF CountIsBacked
  <2>5. ClaimTypes' /\ TenantTypes'
    BY DEF ClaimTypes, TenantTypes
  <2>6. ArbiterTypes' /\ PolicyTypes'
    BY DEF ArbiterTypes, PolicyTypes
  <2> QED
    BY <2>1, <2>2, <2>3, <2>4, <2>5, <2>6
<1>7. ASSUME RejectedRequest
      PROVE  TypeInv'
  <2> USE <1>7 DEF RejectedRequest
  <2>1. PipeTypes'
    BY DEF PipeTypes, PipePcs
  <2>2. CountIsBacked'
    BY DEF CountIsBacked
  <2>3. QueueTypes' /\ ClaimTypes' /\ BurstTypes'
    BY DEF QueueTypes, ClaimTypes, BurstTypes
  <2>4. TenantTypes' /\ ArbiterTypes' /\ PolicyTypes'
    BY DEF TenantTypes, ArbiterTypes, PolicyTypes
  <2> QED
    BY <2>1, <2>2, <2>3, <2>4
<1>8. ASSUME ReleaseClaim
      PROVE  TypeInv'
  <2> USE <1>8 DEF ReleaseClaim
  <2>1. ClaimTypes'
    BY DEF ClaimTypes, RefreshedBitmap
  <2>2. ArbiterTypes'
    BY DEF ArbiterTypes, Wake
  <2>3. PipeTypes'
    BY TopologyAssumption DEF PipeTypes, PipePcs
  <2>4. CountIsBacked'
    BY DEF CountIsBacked
  <2>5. QueueTypes' /\ BurstTypes'
    BY DEF QueueTypes, BurstTypes
  <2>6. TenantTypes' /\ PolicyTypes'
    BY DEF TenantTypes, PolicyTypes
  <2> QED
    BY <2>1, <2>2, <2>3, <2>4, <2>5, <2>6
<1>9. ASSUME ReleaseSlot
      PROVE  TypeInv'
  <2> USE <1>9 DEF ReleaseSlot
  <2>1. PipeTypes'
    BY DEF PipeTypes, PipePcs
  <2>2. CountIsBacked'
    BY DEF CountIsBacked
  <2>3. QueueTypes' /\ ClaimTypes' /\ BurstTypes'
    BY DEF QueueTypes, ClaimTypes, BurstTypes
  <2>4. TenantTypes' /\ ArbiterTypes' /\ PolicyTypes'
    BY DEF TenantTypes, ArbiterTypes, PolicyTypes
  <2> QED
    BY <2>1, <2>2, <2>3, <2>4
<1> QED
  BY <1>1, <1>2, <1>3, <1>4, <1>5, <1>6, <1>7, <1>8, <1>9 DEF IssuePipeline

LEMMA PolicyTypeInv == TypeInv /\ PolicyUpdate => TypeInv'
<1> SUFFICES ASSUME TypeInv, PolicyUpdate PROVE TypeInv'
  OBVIOUS
<1> USE DEF TypeInv, TypeOK, PolicyFrame, hostVars, burstVars, arbiterVars, scanVars, pipeVars
<1>1. PolicyFrame
  BY DEF PolicyUpdate, TakePolicy, AdvancePointers
<1>2. QueueTypes' /\ ClaimTypes' /\ BurstTypes' /\ TenantTypes'
  BY <1>1 DEF QueueTypes, ClaimTypes, BurstTypes, TenantTypes
<1>3. ArbiterTypes' /\ PipeTypes' /\ CountIsBacked'
  BY <1>1 DEF ArbiterTypes, PipeTypes, CountIsBacked
<1>4. ASSUME TakePolicy
      PROVE  PolicyTypes'
  BY <1>4 DEF TakePolicy, PolicyTypes
<1>5. ASSUME AdvancePointers
      PROVE  PolicyTypes'
  <2> USE <1>5 DEF AdvancePointers, PolicyTypes
  <2> DEFINE t == TenantOf[policySq]
             p == PortOf[t]
  <2>1. policySq \in Sq /\ t \in Tenant /\ p \in Port
    BY TopologyAssumption
  <2>2. portIndex' \in Nat
    BY OrderAssumption, AdvanceToAfterIsNat
  <2>3. tenantIndex' \in [ActivePort -> Nat]
    <3>1. CASE p \in ActivePort
      <4>1. AdvanceToAfter(TenantOrder[p], tenantIndex[p], t) \in Nat
        BY <3>1, OrderAssumption, AdvanceToAfterIsNat
      <4> QED
        BY <4>1
    <3>2. CASE p \notin ActivePort
      BY <3>2
    <3> QED
      BY <3>1, <3>2
  <2>4. sqIndex' \in [Tenant -> Nat]
    <3>1. AdvanceToAfter(SqOrder[t], sqIndex[t], policySq) \in Nat
      BY <2>1, OrderAssumption, AdvanceToAfterIsNat
    <3> QED
      BY <3>1
  <2> QED
    BY <2>2, <2>3, <2>4
<1> QED
  BY <1>2, <1>3, <1>4, <1>5 DEF PolicyUpdate

LEMMA StutterTypeInv == TypeInv /\ UNCHANGED vars => TypeInv'
<1> SUFFICES ASSUME TypeInv, UNCHANGED vars PROVE TypeInv'
  OBVIOUS
<1> USE DEF TypeInv, TypeOK, vars, hostVars, burstVars, arbiterVars, scanVars, pipeVars, policyVars
<1>1. QueueTypes' /\ ClaimTypes' /\ BurstTypes' /\ TenantTypes'
  BY DEF QueueTypes, ClaimTypes, BurstTypes, TenantTypes
<1>2. ArbiterTypes' /\ PipeTypes' /\ PolicyTypes' /\ CountIsBacked'
  BY DEF ArbiterTypes, PipeTypes, PolicyTypes, CountIsBacked
<1> QED
  BY <1>1, <1>2

LEMMA TypeInvariant == Spec => []TypeInv
<1>1. TypeInv /\ [Next]_vars => TypeInv'
  BY HostTypeInv, ArbiterTypeInv, PipeTypeInv, PolicyTypeInv, StutterTypeInv DEF Next
<1> QED
  BY InitTypeInv, <1>1, PTL DEF Spec

\* The three processes keep every variable in its type, whatever the topology,
\* the orders and the host do (arbitration_ip.py, all of it).
THEOREM TypeCorrect == Spec => []TypeOK
<1>1. TypeInv => TypeOK
  BY DEF TypeInv
<1> QED
  BY TypeInvariant, <1>1, PTL

-----------------------------------------------------------------------------
(* The claims.                                                               *)

\* What the claims and the selections are read from.
claimVars == <<arbPc, granted, handoff, pipeSq, inflight>>

LEMMA HandoffHoldsOne ==
  ASSUME QueueTypes, handoff # <<>>
  PROVE  /\ handoff[1] \in Sq /\ DOMAIN handoff = {1}
         /\ Head(handoff) = handoff[1] /\ DOMAIN Tail(handoff) = {}
<1>1. handoff \in Seq(Sq) /\ Len(handoff) <= 1
  BY DEF QueueTypes
<1>2. Len(handoff) \in Nat \ {0} /\ DOMAIN handoff = 1 .. Len(handoff)
  BY <1>1, EmptySeq, LenProperties
<1>3. Len(handoff) = 1
  BY <1>1, <1>2
<1>4. Head(handoff) = handoff[1] /\ handoff[1] \in Sq
  BY <1>1, <1>3, ElementOfSeq
<1>5. Tail(handoff) \in Seq(Sq) /\ Len(Tail(handoff)) = 0
  BY <1>1, <1>3, HeadTailProperties
<1>6. DOMAIN handoff = {1}
  BY <1>2, <1>3
<1>7. DOMAIN Tail(handoff) = {}
  <2>1. DOMAIN Tail(handoff) = 1 .. 0
    BY <1>5, LenProperties
  <2> QED
    BY <2>1
<1> QED
  BY <1>4, <1>6, <1>7

LEMMA ClaimsStep == TypeInv /\ ClaimsAreExclusive /\ [Next]_vars => ClaimsAreExclusive'
<1> SUFFICES ASSUME TypeInv, ClaimsAreExclusive, [Next]_vars PROVE ClaimsAreExclusive'
  OBVIOUS
<1> USE DEF ClaimsAreExclusive, Granting, HandedOff, Issuing
<1>1. CASE UNCHANGED claimVars
  BY <1>1 DEF claimVars
<1>2. CASE Host
  <2>1. UNCHANGED claimVars
    BY <1>2 DEF Host, Enqueue, ConfigureBurst, SetTenantCredit, SetIssueReady, QueryPendingBitmaps,
                claimVars, hostVars, arbiterVars, scanVars, pipeVars
  <2> QED
    BY <2>1, <1>1
<1>3. CASE UpdateBitmaps \/ WakeUp \/ StallRetry \/ GrantDone
  <2>1. arbPc # "GRANT" /\ arbPc' # "GRANT"
    BY <1>3, IdleOutcomeIsPlace
       DEF UpdateBitmaps, WakeUp, StallRetry, GrantDone, EnterIdle, IdleOutcome
  <2>2. UNCHANGED <<handoff, pipeSq, inflight>>
    BY <1>3 DEF UpdateBitmaps, WakeUp, StallRetry, GrantDone, ArbiterFrame, QueuesFrame, ClaimFrame,
                pipeVars
  <2> QED
    BY <2>1, <2>2
<1>4. CASE PortScan \/ SelectTenant \/ NoTenant \/ RefillCredit \/ NoSq
  <2>1. arbPc # "GRANT" /\ arbPc' # "GRANT"
    BY <1>4 DEF PortScan, SelectTenant, NoTenant, RefillCredit, NoSq
  <2>2. UNCHANGED <<handoff, pipeSq, inflight>>
    BY <1>4 DEF PortScan, SelectTenant, NoTenant, RefillCredit, NoSq, ArbiterFrame, QueuesFrame,
                ClaimFrame, pipeVars
  <2> QED
    BY <2>1, <2>2
<1>5. CASE CommitSelection
  <2>1. PICK s \in pending \ inflight : granted' = s /\ inflight' = inflight \cup {s}
    BY <1>5, FirstOfIsCandidate DEF CommitSelection, SqsFound
  <2>2. arbPc = "SQ_SCAN" /\ arbPc' = "GRANT" /\ UNCHANGED <<handoff, pipeSq>>
    BY <1>5 DEF CommitSelection, ArbiterFrame, QueuesFrame, pipeVars
  <2> QED
    BY <2>1, <2>2
<1>6. CASE PutSelection
  <2>1. /\ arbPc = "GRANT" /\ arbPc' = "PUT_POLICY"
        /\ handoff = <<>> /\ handoff' = <<granted>> /\ UNCHANGED <<pipeSq, inflight>>
    BY <1>6 DEF PutSelection, ArbiterFrame, ClaimFrame, pipeVars
  <2> QED
    BY <2>1
<1>7. CASE PutPolicy
  BY <1>7 DEF PutPolicy, ArbiterFrame, ClaimFrame, pipeVars
<1>8. CASE TakeSelection
  <2>1. /\ pipePc = "WAIT_SELECTION" /\ handoff # <<>>
        /\ pipeSq' = Head(handoff) /\ handoff' = Tail(handoff)
        /\ UNCHANGED <<arbPc, granted, inflight>>
    BY <1>8 DEF TakeSelection, PipeFrame, ClaimFrame, arbiterVars, scanVars
  <2>2. /\ handoff[1] \in Sq /\ DOMAIN handoff = {1}
        /\ Head(handoff) = handoff[1] /\ DOMAIN Tail(handoff) = {}
    BY <2>1, HandoffHoldsOne DEF TypeInv, TypeOK
  <2>3. pipeSq = None
    BY <2>1 DEF TypeInv, TypeOK, PipeTypes
  <2>4. HandedOff = {handoff[1]} /\ HandedOff' = {}
    BY <2>1, <2>2
  <2>5. Issuing = {} /\ Issuing' = {handoff[1]} /\ Granting' = Granting
    BY <2>1, <2>2, <2>3, TopologyAssumption
  <2> HIDE DEF HandedOff, Issuing, Granting
  <2> QED
    BY <2>1, <2>4, <2>5
<1>9. CASE ReadPendingCount \/ CalcIssueCount \/ StallOver \/ AcquireSlot \/ Issue \/ RejectedRequest
  <2>1. UNCHANGED claimVars
    BY <1>9 DEF ReadPendingCount, CalcIssueCount, StallOver, AcquireSlot, Issue, RejectedRequest,
                PipeFrame, ClaimFrame, claimVars, arbiterVars, scanVars
  <2> QED
    BY <2>1, <1>1
<1>10. CASE ReleaseClaim
  <2>1. /\ pipeSq' = None /\ inflight' = inflight \ {pipeSq}
        /\ pipeSq # None /\ UNCHANGED <<arbPc, granted, handoff>>
    BY <1>10 DEF ReleaseClaim, TypeInv, TypeOK, PipeTypes, PipeFrame, arbiterVars, scanVars
  <2> QED
    BY <2>1
<1>11. CASE ReleaseSlot \/ PolicyUpdate \/ UNCHANGED vars
  <2>1. UNCHANGED claimVars
    BY <1>11 DEF ReleaseSlot, PolicyUpdate, TakePolicy, AdvancePointers, PolicyFrame, PipeFrame,
                 ClaimFrame, vars, claimVars, arbiterVars, scanVars, pipeVars
  <2> QED
    BY <2>1, <1>1
<1> QED
  BY <1>2, <1>3, <1>4, <1>5, <1>6, <1>7, <1>8, <1>9, <1>10, <1>11
     DEF Next, ArbiterMain, IssuePipeline

\* inflight_sqs is at every moment exactly the selections that the arbiter is
\* granting, the hand-off store holds or the pipeline is issuing, and no queue
\* is selected twice (_commit_selection, issue_pipeline).
THEOREM ClaimsExclusive == Spec => []ClaimsAreExclusive
<1>1. Init => ClaimsAreExclusive
  BY DEF Init, ClaimsAreExclusive, Granting, HandedOff, Issuing
<1>2. TypeInv /\ ClaimsAreExclusive /\ [Next]_vars => ClaimsAreExclusive'
  BY ClaimsStep
<1> QED
  BY <1>1, <1>2, TypeInvariant, PTL DEF Spec

-----------------------------------------------------------------------------
(* The bitmap.  A bit may be stale only while its queue is claimed: then the  *)
(* pipeline is draining the queue, and refreshes the bitmap before it lets    *)
(* the claim go.  This is what makes a grant's queue non-empty.               *)

BitsAreBacked == \A s \in pending \ inflight : queue[s] # <<>>

GrantInv == TypeInv /\ ClaimsAreExclusive /\ GrantsHaveWork /\ BitsAreBacked

\* What the two invariants are read from.
bitmapVars == <<pending, inflight, queue, pipePc, pipeSq>>

LEMMA RefreshedBitsAreBacked ==
  ASSUME NEW q, NEW s \in RefreshedBitmap(q)
  PROVE  q[s] # <<>>
  BY DEF RefreshedBitmap

LEMMA GrantStep == GrantInv /\ [Next]_vars => (GrantsHaveWork /\ BitsAreBacked)'
<1> SUFFICES ASSUME GrantInv, [Next]_vars PROVE GrantsHaveWork' /\ BitsAreBacked'
  BY DEF BitsAreBacked, GrantsHaveWork
<1>0. GrantsHaveWork /\ BitsAreBacked /\ pending \subseteq Sq /\ inflight \subseteq Sq
  BY DEF GrantInv, TypeInv, TypeOK, ClaimTypes
<1> USE <1>0 DEF GrantsHaveWork, BitsAreBacked
<1>1. CASE UNCHANGED bitmapVars
  BY <1>1 DEF bitmapVars
<1>2. ASSUME NEW s \in Sq, Enqueue(s)
      PROVE  GrantsHaveWork' /\ BitsAreBacked'
  <2>1. UNCHANGED <<pending, inflight, pipePc, pipeSq>>
    BY <1>2 DEF Enqueue, pipeVars
  <2>2. ASSUME NEW r \in Sq
        PROVE  queue'[r] # <<>> \/ queue'[r] = queue[r]
    <3>1. queue \in [Sq -> Seq(Nat)] /\ queue[s] \in Seq(Nat) /\ enqueued[s] + 1 \in Nat
      BY DEF GrantInv, TypeInv, TypeOK, QueueTypes
    <3>2. Append(queue[s], enqueued[s] + 1) # <<>>
      BY <3>1, AppendProperties, ZenonT(30)
    <3> QED
      BY <1>2, <3>1, <3>2 DEF Enqueue
  <2> QED
    BY <2>1, <2>2
<1>3. ASSUME NEW s \in BurstHost, NEW d \in BurstUpdate \cup {deviceBurst},
             NEW bt \in BurstUpdate \cup {tenantBurst[TenantOf[s]]},
             NEW bs \in BurstUpdate \cup {sqBurst[s]}, ConfigureBurst(s, d, bt, bs)
      PROVE  UNCHANGED bitmapVars
  BY <1>3 DEF ConfigureBurst, bitmapVars, pipeVars
<1>4. ASSUME NEW t \in CreditHost, NEW isAlive \in BOOLEAN, NEW hasCredit \in BOOLEAN,
             SetTenantCredit(t, isAlive, hasCredit)
      PROVE  UNCHANGED bitmapVars
  BY <1>4 DEF SetTenantCredit, bitmapVars, pipeVars
<1>5. CASE SetIssueReady
  BY <1>1, <1>5 DEF SetIssueReady, bitmapVars, pipeVars
<1>6. CASE QueryPendingBitmaps \/ UpdateBitmaps
  <2>1. pending' = RefreshedBitmap(queue) /\ UNCHANGED <<inflight, queue, pipePc, pipeSq>>
    BY <1>6 DEF QueryPendingBitmaps, UpdateBitmaps, ArbiterFrame, pipeVars
  <2> QED
    BY <2>1, RefreshedBitsAreBacked
<1>7. CASE WakeUp \/ PortScan \/ SelectTenant \/ NoTenant \/ RefillCredit \/ NoSq
  <2>1. UNCHANGED bitmapVars
    BY <1>7 DEF WakeUp, PortScan, SelectTenant, NoTenant, RefillCredit, NoSq, ArbiterFrame,
                ClaimFrame, bitmapVars, pipeVars
  <2> QED
    BY <2>1, <1>1
<1>8. CASE CommitSelection
  <2>1. PICK s \in pending \ inflight : inflight' = inflight \cup {s}
    BY <1>8, FirstOfIsCandidate DEF CommitSelection, SqsFound
  <2>2. UNCHANGED <<pending, queue, pipePc, pipeSq>>
    BY <1>8 DEF CommitSelection, ArbiterFrame, pipeVars
  <2> QED
    BY <2>1, <2>2
<1>9. CASE StallRetry \/ PutSelection \/ PutPolicy \/ GrantDone
  <2>1. UNCHANGED bitmapVars
    BY <1>9 DEF StallRetry, PutSelection, PutPolicy, GrantDone, ArbiterFrame, ClaimFrame,
                bitmapVars, pipeVars
  <2> QED
    BY <2>1, <1>1
<1>10. CASE TakeSelection
  <2>1. pipePc' # "UPDATE_BURST" /\ pipePc # "UPDATE_BURST" /\ UNCHANGED <<pending, inflight, queue>>
    BY <1>10 DEF TakeSelection, ClaimFrame
  <2> QED
    BY <2>1
<1>11. CASE ReadPendingCount \/ CalcIssueCount \/ StallOver \/ AcquireSlot \/ RejectedRequest
  <2>1. pipePc # "UPDATE_BURST" /\ UNCHANGED <<pending, inflight, queue, pipeSq>>
    BY <1>11 DEF ReadPendingCount, CalcIssueCount, StallOver, AcquireSlot, RejectedRequest, ClaimFrame
  <2> QED
    BY <2>1
<1>12. CASE Issue
  <2>1. /\ UNCHANGED <<pending, inflight, pipeSq>> /\ pipePc = "ISSUE_REQUEST"
        /\ pipePc' = "UPDATE_BURST" /\ pipeSq \in inflight
    BY <1>12 DEF Issue, ClaimFrame, GrantInv, ClaimsAreExclusive, Issuing, TypeInv, TypeOK, PipeTypes
  <2>2. \A r \in Sq : r # pipeSq => queue'[r] = queue[r]
    BY <1>12 DEF Issue, GrantInv, TypeInv, TypeOK, QueueTypes
  <2> QED
    BY <2>1, <2>2
<1>13. CASE ReleaseClaim
  <2>1. /\ pending' = RefreshedBitmap(queue) /\ inflight' = inflight \ {pipeSq}
        /\ UNCHANGED queue /\ pipePc = "UPDATE_BURST"
    BY <1>13 DEF ReleaseClaim
  <2> QED
    BY <2>1, RefreshedBitsAreBacked
<1>14. CASE ReleaseSlot \/ PolicyUpdate \/ UNCHANGED vars
  <2>1. UNCHANGED bitmapVars
    BY <1>14 DEF ReleaseSlot, PolicyUpdate, TakePolicy, AdvancePointers, PolicyFrame, ClaimFrame,
                 vars, bitmapVars, pipeVars
  <2> QED
    BY <2>1, <1>1
<1> QED
  BY <1>1, <1>2, <1>3, <1>4, <1>5, <1>6, <1>7, <1>8, <1>9, <1>10, <1>11, <1>12, <1>13, <1>14
     DEF Next, Host, ArbiterMain, IssuePipeline

LEMMA GrantInvariant == Spec => []GrantInv
<1>1. Init => ClaimsAreExclusive /\ GrantsHaveWork /\ BitsAreBacked
  BY DEF Init, ClaimsAreExclusive, Granting, HandedOff, Issuing, GrantsHaveWork, BitsAreBacked
<1>2. GrantInv /\ [Next]_vars /\ TypeInv' => GrantInv'
  BY ClaimsStep, GrantStep DEF GrantInv
<1>3. Init => GrantInv
  BY <1>1, InitTypeInv DEF GrantInv
<1> QED
  BY <1>2, <1>3, TypeInvariant, PTL DEF Spec

\* A selection is made only of a queue that holds a command, and the queue
\* holds one until the pipeline has issued it (_select_sq, issue_pipeline).
THEOREM GrantsFindWork == Spec => []GrantsHaveWork
<1>1. GrantInv => GrantsHaveWork
  BY DEF GrantInv
<1> QED
  BY GrantInvariant, <1>1, PTL

-----------------------------------------------------------------------------
(* Wake-ups.  The arbiter sleeps only on a bitmap that misses no work, and whoever *)
(* adds work, or lets a claim on some go, triggers the event it sleeps on.    *)

CleanBitmapIsComplete ==
  ~dirty => \A s \in Sq : PortOf[TenantOf[s]] \in ActivePort /\ queue[s] # <<>> => s \in pending

SleepsOnCleanBitmap == arbPc = "ASLEEP" /\ ~woken => ~dirty

WakeInv == CleanBitmapIsComplete /\ SleepsOnCleanBitmap /\ NoLostWakeUp

\* What the three invariants are read from.
wakeVars == <<arbPc, woken, dirty, pending, queue, alive, inflight>>

\* The test for work misses nothing when the bitmap it starts from is complete.
LEMMA SleepFindsNothing ==
  ASSUME NEW stale, NEW bits, NEW q, NEW live, NEW claims,
         \A s \in Sq : PortOf[TenantOf[s]] \in ActivePort /\ q[s] # <<>> => s \in bits,
         IdleOutcome(stale, bits, q, live, claims) = "ASLEEP"
  PROVE  \A s \in Sq : ~ ( /\ PortOf[TenantOf[s]] \in ActivePort /\ live[TenantOf[s]]
                           /\ q[s] # <<>> /\ s \notin claims )
  BY DEF IdleOutcome, Actionable

LEMMA IdleTestIsSafe ==
  ASSUME WakeInv, EnterIdle, UNCHANGED <<dirty, pending, queue, alive, inflight>>
  PROVE  WakeInv'
<1> USE DEF WakeInv, CleanBitmapIsComplete, SleepsOnCleanBitmap, NoLostWakeUp, Work
<1>1. CleanBitmapIsComplete'
  OBVIOUS
<1>2. CASE arbPc' # "ASLEEP"
  BY <1>1, <1>2
<1>3. CASE arbPc' = "ASLEEP"
  <2>1. ~dirty /\ IdleOutcome(dirty, pending, queue, alive, inflight) = "ASLEEP"
    BY <1>3 DEF EnterIdle, IdleOutcome
  <2>2. \A s \in Sq : ~Work(s)
    BY <2>1, SleepFindsNothing
  <2> QED
    BY <1>1, <2>1, <2>2
<1> QED
  BY <1>2, <1>3

LEMMA WakeStep == GrantInv /\ WakeInv /\ [Next]_vars => WakeInv'
<1> SUFFICES ASSUME GrantInv, WakeInv, [Next]_vars PROVE WakeInv'
  OBVIOUS
<1> USE DEF WakeInv, CleanBitmapIsComplete, SleepsOnCleanBitmap, NoLostWakeUp, Work
<1>1. CASE UNCHANGED wakeVars
  BY <1>1 DEF wakeVars
<1>2. ASSUME NEW s \in Sq, Enqueue(s)
      PROVE  WakeInv'
  BY <1>2 DEF Enqueue, Wake, arbiterVars
<1>3. ASSUME NEW s \in BurstHost, NEW d \in BurstUpdate \cup {deviceBurst},
             NEW bt \in BurstUpdate \cup {tenantBurst[TenantOf[s]]},
             NEW bs \in BurstUpdate \cup {sqBurst[s]}, ConfigureBurst(s, d, bt, bs)
      PROVE  UNCHANGED wakeVars
  BY <1>3 DEF ConfigureBurst, wakeVars, hostVars, arbiterVars
<1>4. ASSUME NEW t \in CreditHost, NEW isAlive \in BOOLEAN, NEW hasCredit \in BOOLEAN,
             SetTenantCredit(t, isAlive, hasCredit)
      PROVE  WakeInv'
  BY <1>4 DEF SetTenantCredit, Wake, arbiterVars
<1>5. CASE SetIssueReady
  BY <1>1, <1>5 DEF SetIssueReady, wakeVars, arbiterVars
<1>6. CASE QueryPendingBitmaps
  BY <1>6 DEF QueryPendingBitmaps, RefreshedBitmap, hostVars, arbiterVars
<1>7. CASE UpdateBitmaps
  <2>1. /\ pending' = RefreshedBitmap(queue) /\ dirty' = FALSE
        /\ arbPc' = IdleOutcome(FALSE, RefreshedBitmap(queue), queue, alive, inflight)
        /\ UNCHANGED <<queue, alive, inflight>>
    BY <1>7 DEF UpdateBitmaps, ArbiterFrame
  <2>2. \A s \in Sq : PortOf[TenantOf[s]] \in ActivePort /\ queue[s] # <<>>
                        => s \in RefreshedBitmap(queue)
    BY DEF RefreshedBitmap
  <2>3. arbPc' = "ASLEEP" => \A s \in Sq : ~Work(s)
    BY <2>1, <2>2, SleepFindsNothing
  <2> QED
    BY <2>1, <2>2, <2>3
<1>8. CASE WakeUp \/ StallRetry \/ GrantDone
  <2>1. EnterIdle /\ UNCHANGED <<dirty, pending, queue, alive, inflight>>
    BY <1>8 DEF WakeUp, StallRetry, GrantDone, ArbiterFrame, ClaimFrame
  <2> QED
    BY <2>1, IdleTestIsSafe
<1>9. CASE PortScan \/ SelectTenant \/ NoTenant \/ RefillCredit \/ NoSq \/ PutSelection \/ PutPolicy
  <2>1. arbPc' # "ASLEEP" /\ UNCHANGED <<dirty, pending, queue>>
    BY <1>9 DEF PortScan, SelectTenant, NoTenant, RefillCredit, NoSq, PutSelection, PutPolicy,
                ArbiterFrame, ClaimFrame
  <2> QED
    BY <2>1
<1>10. CASE CommitSelection
  BY <1>10 DEF CommitSelection, ArbiterFrame
<1>11. CASE TakeSelection \/ ReadPendingCount \/ CalcIssueCount
  <2>1. UNCHANGED wakeVars
    BY <1>11 DEF TakeSelection, ReadPendingCount, CalcIssueCount, PipeFrame, ClaimFrame, arbiterVars,
                 wakeVars
  <2> QED
    BY <2>1, <1>1
<1>12. CASE StallOver \/ AcquireSlot \/ RejectedRequest \/ ReleaseSlot
  <2>1. UNCHANGED wakeVars
    BY <1>12 DEF StallOver, AcquireSlot, RejectedRequest, ReleaseSlot, PipeFrame, ClaimFrame,
                 arbiterVars, wakeVars
  <2> QED
    BY <2>1, <1>1
<1>13. CASE Issue
  <2>1. /\ pipePc = "ISSUE_REQUEST"
        /\ UNCHANGED <<arbPc, woken, dirty, pending, alive, inflight>>
    BY <1>13 DEF Issue, PipeFrame, ClaimFrame, arbiterVars
  <2>2. pipeSq \in inflight /\ queue[pipeSq] # <<>>
    BY <2>1 DEF GrantInv, GrantsHaveWork, ClaimsAreExclusive, Issuing, TypeInv, TypeOK, PipeTypes
  <2>3. \A r \in Sq : r # pipeSq => queue'[r] = queue[r]
    BY <1>13 DEF Issue, GrantInv, TypeInv, TypeOK, QueueTypes
  <2> QED
    BY <2>1, <2>2, <2>3
<1>14. CASE ReleaseClaim
  <2>1. /\ pending' = RefreshedBitmap(queue) /\ dirty' = FALSE /\ Wake
        /\ UNCHANGED <<arbPc, queue, alive>>
    BY <1>14 DEF ReleaseClaim, PipeFrame, arbiterVars
  <2> QED
    BY <2>1 DEF Wake, RefreshedBitmap
<1>15. CASE PolicyUpdate \/ UNCHANGED vars
  <2>1. UNCHANGED wakeVars
    BY <1>15 DEF PolicyUpdate, TakePolicy, AdvancePointers, PolicyFrame, vars, hostVars, arbiterVars,
                 wakeVars
  <2> QED
    BY <2>1, <1>1
<1> QED
  BY <1>1, <1>2, <1>3, <1>4, <1>5, <1>6, <1>7, <1>8, <1>9, <1>10, <1>11, <1>12, <1>13, <1>14, <1>15
     DEF Next, Host, ArbiterMain, IssuePipeline

\* An arbiter asleep with no wake-up on its way leaves no live tenant's
\* unclaimed command behind (_has_actionable_work, _wake_arbiter).
THEOREM WakeUpsAreNotLost == Spec => []NoLostWakeUp
<1>1. Init => WakeInv
  BY DEF Init, WakeInv, CleanBitmapIsComplete, SleepsOnCleanBitmap, NoLostWakeUp
<1>2. GrantInv /\ WakeInv /\ [Next]_vars => WakeInv'
  BY WakeStep
<1>3. WakeInv => NoLostWakeUp
  BY DEF WakeInv
<1> QED
  BY <1>1, <1>2, <1>3, GrantInvariant, PTL DEF Spec

-----------------------------------------------------------------------------
(* The bursts.  As long as no call of the host lowers a counter, what a request *)
(* was counted from still covers it when it is accepted: the pipeline alone    *)
(* spends, and the queue of a claim grows only.                                *)

BurstInv == RequestIsCovered /\ BurstNeverOverspent

\* What the two invariants are read from.
requestVars == <<pipePc, pipeSq, issueCount, queue, burstVars>>

LEMMA BurstStep ==
  ASSUME ~LowersBurst
  PROVE  TypeInv /\ BurstInv /\ [Next]_vars => BurstInv'
<1> SUFFICES ASSUME TypeInv, BurstInv, [Next]_vars PROVE BurstInv'
  OBVIOUS
<1>0. QueueTypes /\ BurstTypes /\ PipeTypes
  BY DEF TypeInv, TypeOK
<1> USE DEF BurstInv, RequestIsCovered, BurstNeverOverspent
<1>1. CASE UNCHANGED requestVars
  BY <1>1 DEF requestVars, burstVars
<1>2. ASSUME NEW s \in Sq, Enqueue(s)
      PROVE  BurstInv'
  <2>1. /\ UNCHANGED <<pipePc, pipeSq, issueCount, burstVars>>
        /\ queue' = [queue EXCEPT ![s] = Append(@, enqueued[s] + 1)]
    BY <1>2 DEF Enqueue, pipeVars
  <2>2. \A r \in Sq : Len(queue'[r]) >= Len(queue[r])
    BY <2>1, <1>0 DEF QueueTypes
  <2>3. pipePc \in {"ACQUIRE_SLOT", "ISSUE_REQUEST"} =>
          /\ pipeSq \in Sq /\ Len(queue[pipeSq]) \in Nat /\ Len(queue'[pipeSq]) \in Nat
          /\ issueCount \in Nat
    BY <2>1, <1>0 DEF PipeTypes, QueueTypes
  <2> QED
    BY <2>1, <2>2, <2>3 DEF burstVars
<1>3. ASSUME NEW s \in BurstHost, NEW d \in BurstUpdate \cup {deviceBurst},
             NEW bt \in BurstUpdate \cup {tenantBurst[TenantOf[s]]},
             NEW bs \in BurstUpdate \cup {sqBurst[s]}, ConfigureBurst(s, d, bt, bs)
      PROVE  BurstInv'
  <2>1. s \in Sq /\ TenantOf[s] \in Tenant /\ BurstUpdate \subseteq Int
    BY HostAssumption, TopologyAssumption
  <2>2. d \in Int /\ bt \in Int /\ bs \in Int
    BY <2>1, <1>0 DEF BurstTypes
  <2>3. /\ deviceBurst' \in Int /\ deviceBurst' >= deviceBurst
        /\ \A t \in Tenant : tenantBurst'[t] \in Int /\ tenantBurst'[t] >= tenantBurst[t]
        /\ \A r \in Sq : sqBurst'[r] \in Int /\ sqBurst'[r] >= sqBurst[r]
    BY <1>3, <2>1, <2>2, <1>0 DEF ConfigureBurst, BurstTypes
  <2>4. UNCHANGED <<pipePc, pipeSq, issueCount, queue>>
    BY <1>3 DEF ConfigureBurst, pipeVars
  <2>5. BurstNeverOverspent'
    BY <2>3, <1>0 DEF BurstTypes
  <2>6. ASSUME pipePc \in {"ACQUIRE_SLOT", "ISSUE_REQUEST"}
        PROVE  /\ issueCount <= deviceBurst' /\ issueCount <= tenantBurst'[TenantOf[pipeSq]]
               /\ issueCount <= sqBurst'[pipeSq]
    <3>1. pipeSq \in Sq /\ TenantOf[pipeSq] \in Tenant /\ issueCount \in Nat
      BY <2>6, <1>0, TopologyAssumption DEF PipeTypes
    <3> QED
      BY <2>3, <2>6, <3>1, <1>0 DEF BurstTypes
  <2> QED
    BY <2>4, <2>5, <2>6
<1>4. ASSUME NEW t \in CreditHost, NEW isAlive \in BOOLEAN, NEW hasCredit \in BOOLEAN,
             SetTenantCredit(t, isAlive, hasCredit)
      PROVE  UNCHANGED requestVars
  BY <1>4 DEF SetTenantCredit, requestVars, pipeVars
<1>5. CASE SetIssueReady \/ QueryPendingBitmaps
  <2>1. UNCHANGED requestVars
    BY <1>5 DEF SetIssueReady, QueryPendingBitmaps, requestVars, pipeVars
  <2> QED
    BY <2>1, <1>1
<1>6. CASE ArbiterMain
  <2>1. ArbiterFrame
    BY <1>6 DEF ArbiterMain, UpdateBitmaps, WakeUp, PortScan, SelectTenant, NoTenant, RefillCredit,
                CommitSelection, NoSq, StallRetry, PutSelection, PutPolicy, GrantDone
  <2>2. UNCHANGED requestVars
    BY <2>1 DEF ArbiterFrame, requestVars, pipeVars
  <2> QED
    BY <2>2, <1>1
<1>7. CASE TakeSelection \/ ReadPendingCount \/ StallOver \/ RejectedRequest \/ ReleaseClaim
  <2>1. pipePc' \notin {"ACQUIRE_SLOT", "ISSUE_REQUEST"} /\ UNCHANGED burstVars
    BY <1>7 DEF TakeSelection, ReadPendingCount, StallOver, RejectedRequest, ReleaseClaim
  <2> QED
    BY <2>1 DEF burstVars
<1>8. CASE CalcIssueCount
  <2>1. UNCHANGED <<pipeSq, queue, burstVars>> /\ pipeSq \in Sq
    BY <1>8, <1>0 DEF CalcIssueCount, PipeTypes
  <2>2. CASE pipePc' = "ACQUIRE_SLOT"
    <3>1. issueCount' = IssuableCount(pipeSq) /\ issueCount' > 0
      BY <1>8, <2>2 DEF CalcIssueCount
    <3>2. RequestIsCovered'
      BY <3>1, <2>1, <1>0, IssuableCountIsCovered DEF burstVars
    <3> QED
      BY <3>2, <2>1 DEF burstVars
  <2>3. CASE pipePc' = "BURST_STALL"
    BY <2>1, <2>3 DEF burstVars
  <2> QED
    BY <1>8, <2>2, <2>3 DEF CalcIssueCount
<1>9. CASE AcquireSlot
  BY <1>9 DEF AcquireSlot, burstVars
<1>10. CASE Issue
  <2>1. /\ pipePc = "ISSUE_REQUEST" /\ pipePc' = "UPDATE_BURST" /\ DebitBursts
    BY <1>10 DEF Issue
  <2>2. pipeSq \in Sq /\ TenantOf[pipeSq] \in Tenant /\ issueCount \in Nat
    BY <2>1, <1>0, TopologyAssumption DEF PipeTypes
  <2>3. /\ issueCount <= deviceBurst /\ issueCount <= tenantBurst[TenantOf[pipeSq]]
        /\ issueCount <= sqBurst[pipeSq]
    BY <2>1
  <2>4. deviceBurst' >= 0
    BY <2>1, <2>2, <2>3, <1>0 DEF DebitBursts, BurstTypes
  <2>5. \A t \in Tenant : tenantBurst'[t] >= 0
    BY <2>1, <2>2, <2>3, <1>0 DEF DebitBursts, BurstTypes
  <2>6. \A r \in Sq : sqBurst'[r] >= 0
    BY <2>1, <2>2, <2>3, <1>0 DEF DebitBursts, BurstTypes
  <2> QED
    BY <2>1, <2>4, <2>5, <2>6
<1>11. CASE ReleaseSlot \/ PolicyUpdate \/ UNCHANGED vars
  <2>1. UNCHANGED requestVars
    BY <1>11 DEF ReleaseSlot, PolicyUpdate, TakePolicy, AdvancePointers, PolicyFrame, vars,
                 requestVars, pipeVars
  <2> QED
    BY <2>1, <1>1
<1> QED
  BY <1>1, <1>2, <1>3, <1>4, <1>5, <1>6, <1>7, <1>8, <1>9, <1>10, <1>11
     DEF Next, Host, IssuePipeline

LEMMA BurstInvariant ==
  ASSUME ~LowersBurst
  PROVE  Spec => []BurstInv
<1>1. Init => BurstInv
  BY HostAssumption DEF Init, BurstInv, RequestIsCovered, BurstNeverOverspent
<1>2. TypeInv /\ BurstInv /\ [Next]_vars => BurstInv'
  BY BurstStep
<1> QED
  BY <1>1, <1>2, TypeInvariant, PTL DEF Spec

\* Unless the host lowers a counter while a request is under way, the request is
\* covered by the queue and by the three counters until it is accepted
\* (CALC_ISSUE_COUNT to the debit in issue_pipeline).
THEOREM RequestsAreCovered ==
  ASSUME ~LowersBurst
  PROVE  Spec => []RequestIsCovered
<1>1. BurstInv => RequestIsCovered
  BY DEF BurstInv
<1> QED
  BY BurstInvariant, <1>1, PTL

\* Under the same condition no counter is ever overspent.
THEOREM BurstsAreNotOverspent ==
  ASSUME ~LowersBurst
  PROVE  Spec => []BurstNeverOverspent
<1>1. BurstInv => BurstNeverOverspent
  BY DEF BurstInv
<1> QED
  BY BurstInvariant, <1>1, PTL

-----------------------------------------------------------------------------
(* The queues.  Only an enqueue and an issue touch them: one adds the next number  *)
(* at the young end, the other takes what it was counted for at the old end.   *)

\* Every step but an enqueue and an issue leaves both ends of the queues alone.
LEMMA QueueSteps ==
  ASSUME [Next]_vars
  PROVE  \/ \E s \in Sq : Enqueue(s)
         \/ Issue
         \/ UNCHANGED <<enqueued, queue, issued>>
<1>1. CASE Host
  <2>1. ASSUME NEW s \in BurstHost, NEW d \in BurstUpdate \cup {deviceBurst},
               NEW bt \in BurstUpdate \cup {tenantBurst[TenantOf[s]]},
               NEW bs \in BurstUpdate \cup {sqBurst[s]}, ConfigureBurst(s, d, bt, bs)
        PROVE  UNCHANGED <<enqueued, queue, issued>>
    BY <2>1 DEF ConfigureBurst, hostVars
  <2>2. ASSUME NEW t \in CreditHost, NEW isAlive \in BOOLEAN, NEW hasCredit \in BOOLEAN,
               SetTenantCredit(t, isAlive, hasCredit)
        PROVE  UNCHANGED <<enqueued, queue, issued>>
    BY <2>2 DEF SetTenantCredit
  <2>3. ASSUME SetIssueReady \/ QueryPendingBitmaps
        PROVE  UNCHANGED <<enqueued, queue, issued>>
    BY <2>3 DEF SetIssueReady, QueryPendingBitmaps, hostVars
  <2> QED
    BY <1>1, <2>1, <2>2, <2>3 DEF Host
<1>2. CASE ArbiterMain
  <2>1. ArbiterFrame
    BY <1>2 DEF ArbiterMain, UpdateBitmaps, WakeUp, PortScan, SelectTenant, NoTenant, RefillCredit,
                CommitSelection, NoSq, StallRetry, PutSelection, PutPolicy, GrantDone
  <2> QED
    BY <2>1 DEF ArbiterFrame
<1>3. CASE (IssuePipeline /\ ~Issue) \/ ReleaseSlot
  BY <1>3 DEF IssuePipeline, TakeSelection, ReadPendingCount, CalcIssueCount, StallOver, AcquireSlot,
              RejectedRequest, ReleaseClaim, ReleaseSlot, PipeFrame
<1>4. CASE PolicyUpdate \/ UNCHANGED vars
  BY <1>4 DEF PolicyUpdate, TakePolicy, AdvancePointers, PolicyFrame, hostVars, vars
<1> QED
  BY <1>1, <1>2, <1>3, <1>4 DEF Next

\* What is left of a sequence once its first k elements are taken.
LEMMA DropFirst ==
  ASSUME NEW X, NEW q \in Seq(X), NEW k \in Nat, k <= Len(q)
  PROVE  /\ SubSeq(q, k + 1, Len(q)) \in Seq(X)
         /\ Len(SubSeq(q, k + 1, Len(q))) = Len(q) - k
         /\ DOMAIN SubSeq(q, k + 1, Len(q)) = 1 .. Len(q) - k
         /\ \A i \in 1 .. Len(q) - k : SubSeq(q, k + 1, Len(q))[i] = q[k + i]
<1>1. Len(q) \in Nat /\ \A i \in k + 1 .. Len(q) : q[i] \in X
  BY LenProperties, ElementOfSeq
<1> DEFINE rest == SubSeq(q, k + 1, Len(q))
<1>2. /\ rest \in Seq(X)
      /\ Len(rest) = IF k + 1 <= Len(q) THEN Len(q) - (k + 1) + 1 ELSE 0
      /\ \A i \in 1 .. Len(q) - (k + 1) + 1 : rest[i] = q[k + 1 + i - 1]
  BY <1>1, SubSeqProperties
<1> HIDE DEF rest
<1>3. Len(rest) = Len(q) - k
  BY <1>1, <1>2
<1>4. ASSUME NEW i \in 1 .. Len(q) - k
      PROVE  rest[i] = q[k + i]
  <2>1. i \in 1 .. Len(q) - (k + 1) + 1 /\ k + 1 + i - 1 = k + i
    BY <1>1
  <2> QED
    BY <1>2, <2>1
<1>5. DOMAIN rest = 1 .. Len(q) - k
  BY <1>2, <1>3, LenProperties
<1> QED
  BY <1>2, <1>3, <1>4, <1>5 DEF rest

LEMMA SuffixStep == TypeInv /\ QueueIsSuffix /\ [Next]_vars => QueueIsSuffix'
<1> SUFFICES ASSUME TypeInv, QueueIsSuffix, [Next]_vars, NEW s \in Sq
             PROVE  /\ Len(queue'[s]) <= enqueued'[s]
                    /\ \A i \in DOMAIN queue'[s] :
                         queue'[s][i] = enqueued'[s] - Len(queue'[s]) + i
  BY DEF QueueIsSuffix
<1>0. /\ queue \in [Sq -> Seq(Nat)] /\ queue[s] \in Seq(Nat)
      /\ enqueued \in [Sq -> Nat] /\ enqueued[s] \in Nat
      /\ Len(queue[s]) \in Nat /\ DOMAIN queue[s] = 1 .. Len(queue[s])
  BY LenProperties DEF TypeInv, TypeOK, QueueTypes
<1>1. /\ Len(queue[s]) <= enqueued[s]
      /\ \A i \in 1 .. Len(queue[s]) : queue[s][i] = enqueued[s] - Len(queue[s]) + i
  BY <1>0 DEF QueueIsSuffix
<1>2. CASE UNCHANGED <<enqueued, queue>>
  BY <1>0, <1>1, <1>2
<1>3. ASSUME NEW r \in Sq, Enqueue(r), r # s
      PROVE  enqueued'[s] = enqueued[s] /\ queue'[s] = queue[s]
  BY <1>0, <1>3 DEF Enqueue
<1>4. CASE Enqueue(s)
  <2>1. queue'[s] = Append(queue[s], enqueued[s] + 1) /\ enqueued'[s] = enqueued[s] + 1
    BY <1>0, <1>4 DEF Enqueue
  <2>2. /\ queue'[s] \in Seq(Nat) /\ Len(queue'[s]) = Len(queue[s]) + 1
        /\ \A i \in 1 .. Len(queue[s]) : queue'[s][i] = queue[s][i]
        /\ queue'[s][Len(queue[s]) + 1] = enqueued[s] + 1
    BY <1>0, <2>1, AppendProperties
  <2>3. DOMAIN queue'[s] = 1 .. Len(queue[s]) + 1
    BY <2>2, LenProperties
  <2> QED
    BY <1>0, <1>1, <2>1, <2>2, <2>3
<1>5. CASE Issue /\ s # pipeSq
  <2>1. queue'[s] = queue[s] /\ enqueued'[s] = enqueued[s]
    BY <1>0, <1>5 DEF Issue, PipeFrame
  <2> QED
    BY <1>0, <1>1, <2>1
<1>6. CASE Issue /\ s = pipeSq
  <2>1. issueCount \in Nat /\ issueCount <= Len(queue[s])
    BY <1>6 DEF Issue, TypeInv, TypeOK, PipeTypes, CountIsBacked
  <2>2. queue'[s] = SubSeq(queue[s], issueCount + 1, Len(queue[s])) /\ enqueued'[s] = enqueued[s]
    BY <1>0, <1>6 DEF Issue, PipeFrame
  <2>3. /\ Len(queue'[s]) = Len(queue[s]) - issueCount
        /\ DOMAIN queue'[s] = 1 .. Len(queue[s]) - issueCount
        /\ \A i \in 1 .. Len(queue[s]) - issueCount : queue'[s][i] = queue[s][issueCount + i]
    <3>1. queue[s] \in Seq(Nat)
      BY <1>0
    <3>2. LET rest == SubSeq(queue[s], issueCount + 1, Len(queue[s])) IN
          /\ Len(rest) = Len(queue[s]) - issueCount
          /\ DOMAIN rest = 1 .. Len(queue[s]) - issueCount
          /\ \A i \in 1 .. Len(queue[s]) - issueCount : rest[i] = queue[s][issueCount + i]
      BY <2>1, <3>1, DropFirst, SMTT(20)
    <3> QED
      BY <2>2, <3>2
  <2>4. ASSUME NEW i \in 1 .. Len(queue[s]) - issueCount
        PROVE  queue'[s][i] = enqueued[s] - (Len(queue[s]) - issueCount) + i
    <3>1. issueCount + i \in 1 .. Len(queue[s])
      BY <1>0, <2>1
    <3>2. queue[s][issueCount + i] = enqueued[s] - Len(queue[s]) + (issueCount + i)
      BY <1>1, <3>1
    <3>3. queue'[s][i] = queue[s][issueCount + i]
      BY <2>3
    <3>4. enqueued[s] - Len(queue[s]) + (issueCount + i)
            = enqueued[s] - (Len(queue[s]) - issueCount) + i
      BY <1>0, <2>1
    <3> QED
      BY <3>2, <3>3, <3>4
  <2>5. Len(queue'[s]) <= enqueued'[s]
    <3>1. Len(queue[s]) \in Nat /\ enqueued[s] \in Nat /\ Len(queue[s]) <= enqueued[s]
      BY <1>0, <1>1
    <3>2. Len(queue[s]) - issueCount <= enqueued[s]
      BY <2>1, <3>1
    <3> QED
      BY <2>2, <2>3, <3>2
  <2> QED
    BY <2>2, <2>3, <2>4, <2>5
<1> QED
  BY <1>0, <1>1, <1>2, <1>3, <1>4, <1>5, <1>6, QueueSteps

\* A queue holds, in order, the youngest commands enqueued on it: none is lost,
\* repeated or overtaken before it is issued (enqueue, the pop in issue_pipeline).
THEOREM QueuesKeepOrder == Spec => []QueueIsSuffix
<1>1. Init => QueueIsSuffix
  BY DEF Init, QueueIsSuffix
<1>2. TypeInv /\ QueueIsSuffix /\ [Next]_vars => QueueIsSuffix'
  BY SuffixStep
<1> QED
  BY <1>1, <1>2, TypeInvariant, PTL DEF Spec

-----------------------------------------------------------------------------
(* The promise.  Arbitration implements GrantedQueues.                             *)

\* What the stage of a queue is read from.
stageVars == <<inflight, pipePc, pipeSq>>

\* A step that leaves the queues alone and no queue's stage changes in is a
\* stutter of GrantedQueues.
LEMMA PromiseStutters ==
  ASSUME UNCHANGED <<enqueued, queue, issued>>, \A s \in Sq : Stage(s)' = Stage(s)
  PROVE  UNCHANGED Promise!vars
<1>1. [s \in Sq |-> Stage(s)]' = [s \in Sq |-> Stage(s)]
  OBVIOUS
<1> QED
  BY <1>1 DEF Promise!vars

LEMMA PromiseStep == GrantInv /\ [Next]_vars => [Promise!Next]_(Promise!vars)
<1> SUFFICES ASSUME GrantInv, [Next]_vars PROVE [Promise!Next]_(Promise!vars)
  OBVIOUS
<1>0. /\ TypeInv /\ ClaimsAreExclusive /\ GrantsHaveWork /\ BitsAreBacked
      /\ QueueTypes /\ PipeTypes /\ ClaimTypes
  BY DEF GrantInv, TypeInv, TypeOK
<1>1. CASE UNCHANGED <<enqueued, queue, issued, stageVars>>
  <2>1. \A s \in Sq : Stage(s)' = Stage(s)
    BY <1>1 DEF Stage, stageVars
  <2> QED
    BY <1>1, <2>1, PromiseStutters
<1>2. ASSUME NEW s \in Sq, Enqueue(s)
      PROVE  Promise!Next
  <2>1. \A r \in Sq : Stage(r)' = Stage(r)
    BY <1>2 DEF Enqueue, Stage, pipeVars
  <2>2. Promise!Enqueue(s)
    BY <1>2, <2>1 DEF Enqueue, Promise!Enqueue
  <2> QED
    BY <2>2 DEF Promise!Next
<1>3. CASE Host /\ ~(\E s \in Sq : Enqueue(s))
  <2>1. ASSUME NEW s \in BurstHost, NEW d \in BurstUpdate \cup {deviceBurst},
               NEW bt \in BurstUpdate \cup {tenantBurst[TenantOf[s]]},
               NEW bs \in BurstUpdate \cup {sqBurst[s]}, ConfigureBurst(s, d, bt, bs)
        PROVE  UNCHANGED <<enqueued, queue, issued, stageVars>>
    BY <2>1 DEF ConfigureBurst, hostVars, pipeVars, stageVars
  <2>2. ASSUME NEW t \in CreditHost, NEW isAlive \in BOOLEAN, NEW hasCredit \in BOOLEAN,
               SetTenantCredit(t, isAlive, hasCredit)
        PROVE  UNCHANGED <<enqueued, queue, issued, stageVars>>
    BY <2>2 DEF SetTenantCredit, pipeVars, stageVars
  <2>3. ASSUME SetIssueReady \/ QueryPendingBitmaps
        PROVE  UNCHANGED <<enqueued, queue, issued, stageVars>>
    BY <2>3 DEF SetIssueReady, QueryPendingBitmaps, hostVars, pipeVars, stageVars
  <2> QED
    BY <1>3, <2>1, <2>2, <2>3, <1>1 DEF Host
<1>4. CASE ArbiterMain /\ ~CommitSelection
  <2>1. ArbiterFrame /\ UNCHANGED inflight
    BY <1>4 DEF ArbiterMain, UpdateBitmaps, WakeUp, PortScan, SelectTenant, NoTenant, RefillCredit,
                NoSq, StallRetry, PutSelection, PutPolicy, GrantDone, ClaimFrame
  <2> QED
    BY <2>1, <1>1 DEF ArbiterFrame, pipeVars, stageVars
<1>5. CASE CommitSelection
  <2>1. PICK s \in pending \ inflight : inflight' = inflight \cup {s}
    BY <1>5, FirstOfIsCandidate DEF CommitSelection, SqsFound
  <2>2. UNCHANGED <<enqueued, queue, issued, pipePc, pipeSq>>
    BY <1>5 DEF CommitSelection, ArbiterFrame, pipeVars
  <2>3. s \in Sq /\ queue[s] # <<>> /\ pipeSq # s
    BY <1>0, <2>1, TopologyAssumption
       DEF ClaimTypes, BitsAreBacked, ClaimsAreExclusive, Issuing, PipeTypes
  <2>4. /\ Stage(s) = "none" /\ Stage(s)' = "granted"
        /\ \A r \in Sq : r # s => Stage(r)' = Stage(r)
    BY <2>1, <2>2, <2>3 DEF Stage
  <2>5. Promise!Grant(s)
    BY <2>2, <2>3, <2>4 DEF Promise!Grant
  <2> QED
    BY <2>3, <2>5 DEF Promise!Next
<1>6. CASE Issue
  <2>1. /\ pipePc = "ISSUE_REQUEST" /\ pipePc' = "UPDATE_BURST"
        /\ UNCHANGED <<inflight, pipeSq, enqueued>>
    BY <1>6 DEF Issue, ClaimFrame, PipeFrame
  <2>2. pipeSq \in Sq /\ pipeSq \in inflight
    BY <1>0, <2>1 DEF PipeTypes, ClaimsAreExclusive, Issuing
  <2>3. /\ Stage(pipeSq) = "granted" /\ Stage(pipeSq)' = "issued"
        /\ \A r \in Sq : r # pipeSq => Stage(r)' = Stage(r)
    BY <2>1, <2>2 DEF Stage
  <2>4. issueCount \in 1 .. Len(queue[pipeSq])
    BY <1>0, <2>1, <2>2, LenProperties DEF TypeInv, CountIsBacked, PipeTypes, QueueTypes
  <2>5. Promise!IssueBatch(pipeSq, issueCount)
    <3>1. [s \in Sq |-> Stage(s)]'
            = [[s \in Sq |-> Stage(s)] EXCEPT ![pipeSq] = "issued"]
      BY <2>1, <2>2, <2>3 DEF Stage
    <3> QED
      BY <1>6, <2>1, <2>2, <2>3, <3>1 DEF Issue, Promise!IssueBatch
  <2> QED
    BY <2>2, <2>4, <2>5 DEF Promise!Next
<1>7. CASE ReleaseClaim
  <2>1. /\ pipePc = "UPDATE_BURST" /\ inflight' = inflight \ {pipeSq} /\ pipeSq' = None
        /\ pipePc' = "WAIT_SELECTION" /\ UNCHANGED <<enqueued, queue, issued>>
    BY <1>7 DEF ReleaseClaim, PipeFrame
  <2>2. pipeSq \in Sq /\ pipeSq \in inflight
    BY <1>0, <2>1 DEF PipeTypes, ClaimsAreExclusive, Issuing
  <2>3. /\ Stage(pipeSq) = "issued" /\ \A r \in Sq : r # pipeSq => Stage(r)' = Stage(r)
    BY <2>1, <2>2 DEF Stage
  <2>4. [s \in Sq |-> Stage(s)]' = [[s \in Sq |-> Stage(s)] EXCEPT ![pipeSq] = "none"]
    BY <2>1, <2>2, <2>3 DEF Stage
  <2>5. Promise!EndGrant(pipeSq)
    BY <2>1, <2>2, <2>3, <2>4 DEF Promise!EndGrant
  <2> QED
    BY <2>2, <2>5 DEF Promise!Next
<1>8. CASE TakeSelection \/ ReadPendingCount \/ CalcIssueCount \/ StallOver \/ AcquireSlot
           \/ RejectedRequest
  <2>1. /\ pipePc # "UPDATE_BURST" /\ pipePc' # "UPDATE_BURST"
        /\ UNCHANGED <<inflight, enqueued, queue, issued>>
    BY <1>8 DEF TakeSelection, ReadPendingCount, CalcIssueCount, StallOver, AcquireSlot,
                RejectedRequest, ClaimFrame, PipeFrame
  <2>2. \A s \in Sq : Stage(s)' = Stage(s)
    BY <2>1 DEF Stage
  <2> QED
    BY <2>1, <2>2, PromiseStutters
<1>9. CASE ReleaseSlot \/ PolicyUpdate \/ UNCHANGED vars
  <2>1. UNCHANGED <<enqueued, queue, issued, stageVars>>
    BY <1>9 DEF ReleaseSlot, PolicyUpdate, TakePolicy, AdvancePointers, PolicyFrame, PipeFrame,
                ClaimFrame, vars, hostVars, pipeVars, stageVars
  <2> QED
    BY <2>1, <1>1
<1> QED
  BY <1>2, <1>3, <1>4, <1>5, <1>6, <1>7, <1>8, <1>9 DEF Next, IssuePipeline

\* Seen through its claims, the Arbitration IP implements GrantedQueues: scans,
\* refills, hand-offs and retries are steps it does not see.
THEOREM PromiseIsKept == Spec => PromiseKept
<1>1. Init => Promise!Init
  <2>1. ASSUME Init
        PROVE  [s \in Sq |-> Stage(s)] = [s \in Sq |-> "none"]
    BY <2>1 DEF Init, Stage
  <2> QED
    BY <2>1 DEF Init, Promise!Init
<1>2. GrantInv /\ [Next]_vars => [Promise!Next]_(Promise!vars)
  BY PromiseStep
<1> QED
  BY <1>1, <1>2, GrantInvariant, PTL DEF Spec, PromiseKept, Promise!Spec

-----------------------------------------------------------------------------
(* The issued trace.  A batch carries on where the trace of its queue ends, since    *)
(* the queue holds the youngest commands and the trace all the others.         *)

\* How many commands of a queue have left it, and the entries of the trace they
\* are at.
Gone(s) == enqueued[s] - Len(queue[s])
EntriesOf(s) == { k \in DOMAIN issued : issued[k].sq = s }

\* What an accepted request appends to the trace.
LEMMA IssueAppends ==
  ASSUME TypeInv, QueueIsSuffix, Issue
  PROVE  /\ pipeSq \in Sq /\ issueCount \in Nat /\ Gone(pipeSq) \in Nat
         /\ Len(issued) \in Nat /\ DOMAIN issued = 1 .. Len(issued)
         /\ DOMAIN issued' = 1 .. Len(issued) + issueCount
         /\ \A i \in 1 .. Len(issued) : issued'[i] = issued[i]
         /\ \A i \in 1 .. issueCount :
              /\ issued'[Len(issued) + i].sq = pipeSq
              /\ issued'[Len(issued) + i].n = Gone(pipeSq) + i
         /\ Gone(pipeSq)' = Gone(pipeSq) + issueCount
         /\ \A s \in Sq : s # pipeSq => Gone(s)' = Gone(s)
<1> DEFINE batch == [i \in 1 .. issueCount |-> [sq |-> pipeSq, n |-> queue[pipeSq][i]]]
<1>1. /\ pipeSq \in Sq /\ issueCount \in Nat /\ issueCount <= Len(queue[pipeSq])
      /\ queue \in [Sq -> Seq(Nat)] /\ queue[pipeSq] \in Seq(Nat) /\ issued \in Seq(Command)
      /\ enqueued \in [Sq -> Nat] /\ UNCHANGED <<enqueued, pipeSq>>
      /\ issued' = issued \o batch
  BY DEF Issue, PipeFrame, TypeInv, TypeOK, QueueTypes, PipeTypes, CountIsBacked
<1>2. Len(queue[pipeSq]) \in Nat /\ enqueued[pipeSq] \in Nat /\ Gone(pipeSq) \in Nat
  BY <1>1, LenProperties DEF QueueIsSuffix, Gone
<1>3. batch \in Seq(Command) /\ Len(batch) = issueCount
  <2>1. \A i \in 1 .. issueCount : [sq |-> pipeSq, n |-> queue[pipeSq][i]] \in Command
    BY <1>1, <1>2, ElementOfSeq DEF Command
  <2> QED
    BY <1>1, <2>1
<1>4. \A i \in 1 .. issueCount : batch[i].sq = pipeSq /\ batch[i].n = queue[pipeSq][i]
  OBVIOUS
<1>5. \A i \in 1 .. issueCount : queue[pipeSq][i] = Gone(pipeSq) + i
  BY <1>1, <1>2, LenProperties DEF QueueIsSuffix, Gone
<1> HIDE DEF batch
<1>6. Len(issued) \in Nat /\ DOMAIN issued = 1 .. Len(issued)
  BY <1>1, LenProperties
<1>7. /\ issued' \in Seq(Command) /\ Len(issued') = Len(issued) + issueCount
      /\ \A i \in 1 .. Len(issued) + issueCount :
           issued'[i] = IF i <= Len(issued) THEN issued[i] ELSE batch[i - Len(issued)]
  BY <1>1, <1>3, ConcatProperties, ZenonT(30)
<1>8. DOMAIN issued' = 1 .. Len(issued) + issueCount
  BY <1>7, LenProperties
<1>9. \A i \in 1 .. Len(issued) : issued'[i] = issued[i]
  BY <1>1, <1>6, <1>7
<1>10. ASSUME NEW i \in 1 .. issueCount
       PROVE  issued'[Len(issued) + i] = batch[i]
  <2>1. Len(issued) + i \in 1 .. Len(issued) + issueCount /\ ~(Len(issued) + i <= Len(issued))
    BY <1>1, <1>6
  <2>2. (Len(issued) + i) - Len(issued) = i
    BY <1>6
  <2> QED
    BY <1>7, <2>1, <2>2
<1>11. Gone(pipeSq)' = Gone(pipeSq) + issueCount
  <2>1. queue'[pipeSq] = SubSeq(queue[pipeSq], issueCount + 1, Len(queue[pipeSq]))
    BY <1>1 DEF Issue
  <2>2. Len(queue'[pipeSq]) = Len(queue[pipeSq]) - issueCount
    BY <1>1, <2>1, DropFirst
  <2> QED
    BY <1>1, <1>2, <2>2 DEF Gone
<1>12. \A s \in Sq : s # pipeSq => Gone(s)' = Gone(s)
  BY <1>1 DEF Issue, Gone
<1> QED
  BY <1>1, <1>2, <1>4, <1>5, <1>6, <1>8, <1>9, <1>10, <1>11, <1>12

LEMMA IssuedStep == TypeInv /\ QueueIsSuffix /\ IssuedInOrder /\ [Next]_vars => IssuedInOrder'
<1> SUFFICES ASSUME TypeInv, QueueIsSuffix, IssuedInOrder, [Next]_vars PROVE IssuedInOrder'
  OBVIOUS
<1>1. CASE UNCHANGED <<enqueued, queue, issued>>
  BY <1>1 DEF IssuedInOrder
<1>2. ASSUME NEW s \in Sq, Enqueue(s)
      PROVE  IssuedInOrder'
  <2>1. UNCHANGED issued
    BY <1>2 DEF Enqueue
  <2>2. ASSUME NEW r \in Sq
        PROVE  enqueued'[r] - Len(queue'[r]) = enqueued[r] - Len(queue[r])
    <3>1. /\ queue \in [Sq -> Seq(Nat)] /\ queue[s] \in Seq(Nat) /\ Len(queue[s]) \in Nat
          /\ enqueued \in [Sq -> Nat] /\ enqueued[s] + 1 \in Nat
      BY LenProperties DEF TypeInv, TypeOK, QueueTypes
    <3>2. Len(Append(queue[s], enqueued[s] + 1)) = Len(queue[s]) + 1
      BY <3>1, AppendProperties
    <3>3. enqueued[s] + 1 - (Len(queue[s]) + 1) = enqueued[s] - Len(queue[s])
      BY <3>1
    <3> QED
      BY <1>2, <3>1, <3>2, <3>3 DEF Enqueue
  <2> QED
    BY <2>1, <2>2 DEF IssuedInOrder
<1>3. CASE Issue
  <2> DEFINE L == Len(issued)
             k == issueCount
             p == pipeSq
  <2>1. /\ p \in Sq /\ k \in Nat /\ Gone(p) \in Nat
        /\ L \in Nat /\ DOMAIN issued = 1 .. L /\ DOMAIN issued' = 1 .. L + k
        /\ \A i \in 1 .. L : issued'[i] = issued[i]
        /\ \A i \in 1 .. k : issued'[L + i].sq = p /\ issued'[L + i].n = Gone(p) + i
        /\ Gone(p)' = Gone(p) + k
        /\ \A s \in Sq : s # p => Gone(s)' = Gone(s)
    BY <1>3, IssueAppends
  <2>2. /\ \A i, j \in 1 .. L : i < j /\ issued[i].sq = issued[j].sq => issued[i].n < issued[j].n
        /\ \A s \in Sq : { issued[i].n : i \in EntriesOf(s) } = 1 .. Gone(s)
    BY <2>1 DEF IssuedInOrder, EntriesOf, Gone
  <2> HIDE DEF L, k, p
  <2>3. ASSUME NEW i \in 1 .. L + k, i \notin 1 .. L
        PROVE  /\ i - L \in 1 .. k /\ i = L + (i - L)
               /\ issued'[i].sq = p /\ issued'[i].n = Gone(p) + (i - L)
    <3>1. i - L \in 1 .. k /\ i = L + (i - L)
      BY <2>1, <2>3
    <3> QED
      BY <2>1, <3>1
  <2>4. ASSUME NEW i \in 1 .. L, issued[i].sq = p
        PROVE  issued[i].n \in 1 .. Gone(p)
    BY <2>1, <2>2, <2>4 DEF EntriesOf
  <2>5. ASSUME NEW i \in 1 .. L + k, NEW j \in 1 .. L + k, i < j, issued'[i].sq = issued'[j].sq
        PROVE  issued'[i].n < issued'[j].n
    <3>1. CASE j \in 1 .. L
      <4>1. i \in 1 .. L
        BY <2>1, <2>5, <3>1
      <4> QED
        BY <2>1, <2>2, <2>5, <3>1, <4>1
    <3>2. CASE j \notin 1 .. L /\ i \in 1 .. L
      <4>1. issued[i].n \in 1 .. Gone(p) /\ issued'[i] = issued[i]
        BY <2>1, <2>3, <2>4, <2>5, <3>2
      <4>2. issued'[j].n = Gone(p) + (j - L) /\ j - L \in 1 .. k
        BY <2>3, <3>2
      <4> QED
        BY <2>1, <4>1, <4>2
    <3>3. CASE j \notin 1 .. L /\ i \notin 1 .. L
      <4>1. issued'[i].n = Gone(p) + (i - L) /\ issued'[j].n = Gone(p) + (j - L)
        BY <2>3, <3>3
      <4> QED
        BY <2>1, <2>5, <4>1
    <3> QED
      BY <3>1, <3>2, <3>3
  <2>6. ASSUME NEW s \in Sq, s # p
        PROVE  { issued'[i].n : i \in EntriesOf(s)' } = 1 .. Gone(s)'
    <3>1. EntriesOf(s)' = EntriesOf(s)
      BY <2>1, <2>3, <2>6 DEF EntriesOf
    <3>2. \A i \in EntriesOf(s) : issued'[i] = issued[i]
      BY <2>1 DEF EntriesOf
    <3> QED
      BY <2>1, <2>2, <2>6, <3>1, <3>2
  <2>7. { issued'[i].n : i \in { m \in 1 .. L + k : issued'[m].sq = p } } = 1 .. Gone(p) + k
    <3>1. ASSUME NEW m \in 1 .. L + k, issued'[m].sq = p
          PROVE  issued'[m].n \in 1 .. Gone(p) + k
      <4>1. CASE m \in 1 .. L
        <5>1. issued'[m].n \in 1 .. Gone(p)
          BY <2>1, <2>4, <3>1, <4>1
        <5> QED
          BY <2>1, <5>1
      <4>2. CASE m \notin 1 .. L
        BY <2>1, <2>3, <4>2
      <4> QED
        BY <4>1, <4>2
    <3>2. ASSUME NEW n \in 1 .. Gone(p) + k
          PROVE  \E m \in 1 .. L + k : issued'[m].sq = p /\ issued'[m].n = n
      <4>1. CASE n \in 1 .. Gone(p)
        <5>0. n \in { issued[i].n : i \in EntriesOf(p) }
          BY <2>1, <2>2, <4>1
        <5>1. PICK m \in 1 .. L : issued[m].sq = p /\ issued[m].n = n
          BY <2>1, <5>0 DEF EntriesOf
        <5>2. m \in 1 .. L + k /\ issued'[m] = issued[m]
          BY <2>1
        <5> QED
          BY <5>1, <5>2
      <4>2. CASE n \notin 1 .. Gone(p)
        <5>1. n - Gone(p) \in 1 .. k /\ Gone(p) + (n - Gone(p)) = n
          BY <2>1, <4>2
        <5>2. L + (n - Gone(p)) \in 1 .. L + k
          BY <2>1, <5>1
        <5>3. issued'[L + (n - Gone(p))].sq = p /\ issued'[L + (n - Gone(p))].n = n
          BY <2>1, <5>1
        <5> QED
          BY <5>2, <5>3
      <4> QED
        BY <4>1, <4>2
    <3> QED
      BY <3>1, <3>2
  <2>8. \A s \in Sq : { issued'[i].n : i \in EntriesOf(s)' } = 1 .. Gone(s)'
    <3>1. ASSUME NEW s \in Sq, s = p
          PROVE  { issued'[i].n : i \in EntriesOf(s)' } = 1 .. Gone(s)'
      <4>1. EntriesOf(s)' = { m \in 1 .. L + k : issued'[m].sq = p }
        BY <2>1, <3>1 DEF EntriesOf
      <4>2. Gone(s)' = Gone(p) + k
        BY <1>3, <2>1, <3>1 DEF Issue, p, Gone
      <4> QED
        BY <2>7, <4>1, <4>2
    <3> QED
      BY <2>6, <3>1
  <2> QED
    BY <2>1, <2>5, <2>8 DEF IssuedInOrder, EntriesOf, Gone
<1> QED
  BY <1>1, <1>2, <1>3, QueueSteps

\* The trace holds, per queue in order, exactly the commands that left the
\* queue: each one issued once, in the order it was enqueued.
THEOREM IssuesKeepOrder == Spec => []IssuedInOrder
<1>1. Init => IssuedInOrder
  <2>1. ASSUME Init
        PROVE  /\ DOMAIN issued = {}
               /\ \A s \in Sq : enqueued[s] - Len(queue[s]) = 0
    BY <2>1, EmptySeq DEF Init
  <2>2. 1 .. 0 = {}
    OBVIOUS
  <2> QED
    BY <2>1, <2>2 DEF IssuedInOrder
<1>2. TypeInv /\ QueueIsSuffix /\ IssuedInOrder /\ [Next]_vars => IssuedInOrder'
  BY IssuedStep
<1> QED
  BY <1>1, <1>2, TypeInvariant, QueuesKeepOrder, PTL DEF Spec

==============================================================================
