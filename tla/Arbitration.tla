----------------------------- MODULE Arbitration -----------------------------
(***************************************************************************)
(* The Arbitration IP: src/ip_model_automation/arbitration_ip.py.          *)
(*                                                                         *)
(* Three simulation processes share the queues, the pending bitmap, the    *)
(* claims (inflight_sqs) and the burst counters: arbiter_main selects a    *)
(* port, a tenant and a submission queue and grants it, issue_pipeline     *)
(* issues a batch of the granted queue downstream, policy_update advances  *)
(* the weighted pointers.  The host enqueues commands and drives burst,    *)
(* credit and issue readiness.                                             *)
(*                                                                         *)
(* A process runs alone from one yield to the next, so an action is the    *)
(* code between two yields and a program counter names the yield it is     *)
(* suspended at.  Every latency is a parameter of the constructor; a step  *)
(* may therefore be delayed by any amount against the other processes'.    *)
(* An Sq stands for the pair (tenant_id, sq_id); a command is the n-th     *)
(* one enqueued on its Sq.                                                 *)
(***************************************************************************)
EXTENDS WeightedOrder, Integers, FiniteSets

CONSTANTS
  Port, Tenant, Sq,      \* the topology's names
  PortOf,                \* the port a tenant is linked to
  TenantOf,              \* the tenant a submission queue belongs to
  ActivePort,            \* every port, or port0 alone when port_mode is single
  PortOrder,             \* the weighted orders: of the ports,
  TenantOrder,           \*   of the tenants of each port,
  SqOrder,               \*   of the queues of each tenant
  InitialBurst,          \* what each burst counter starts from
  Workload,              \* how many commands the host enqueues on each queue
  BurstUpdate,           \* values the host may set a burst counter to
  LowersBurst,           \* whether such an update may lower a counter
  BurstHost,             \* the queues whose counters the host drives
  CreditHost,            \* tenants whose credit status the host drives
  ReadyHost,             \* whether the host drives issue_ready
  None

ASSUME TopologyAssumption ==
  /\ PortOf \in [Tenant -> Port]
  /\ TenantOf \in [Sq -> Tenant]
  /\ ActivePort \subseteq Port
  /\ None \notin Port \cup Tenant \cup Sq

ASSUME OrderAssumption ==
  /\ PortOrder \in Seq(ActivePort)
  /\ TenantOrder \in [ActivePort -> Seq(Tenant)]
  /\ \A p \in ActivePort : \A i \in DOMAIN TenantOrder[p] : PortOf[TenantOrder[p][i]] = p
  /\ SqOrder \in [Tenant -> Seq(Sq)]
  /\ \A t \in Tenant : \A i \in DOMAIN SqOrder[t] : TenantOf[SqOrder[t][i]] = t

ASSUME HostAssumption ==
  /\ InitialBurst \in Nat
  /\ Workload \in [Sq -> Nat]
  /\ BurstUpdate \subseteq Nat
  /\ LowersBurst \in BOOLEAN
  /\ BurstHost \subseteq Sq
  /\ CreditHost \subseteq Tenant
  /\ ReadyHost \in BOOLEAN

VARIABLES
  enqueued,        \* how many commands the host has enqueued on each queue
  queue,           \* queues: the numbers of the pending commands, oldest first
  issued,          \* the issued trace
  pending,         \* the bitmaps: the queues whose sq_pending_bitmap bit is set
  dirty,           \* bitmap_dirty
  inflight,        \* inflight_sqs
  deviceBurst, tenantBurst, sqBurst,
  alive, credit,   \* tenant_credit: tenant_alive, and all four credit axes
  outputReady,
  arbPc,           \* arbiter_main: where it is suspended,
  woken,           \*   whether _arbiter_wake has been triggered,
  scanPort,        \*   port_id, tenant_id and the selection of the pass,
  scanTenant,
  granted,
  triedPorts, triedTenants,
  exhausted,       \*   the tenants a refill under way will restore,
  afterRefill,     \*   whether the scan under way is the one after a refill
  handoff,         \* selected_sq_q, a store of capacity 1
  pipePc,          \* issue_pipeline: where it is suspended,
  pipeSq,          \*   its selection,
  pendingCount,    \*   pending_count and issue_count
  issueCount,
  slot,            \* issue_slots: free, held, or held until the latency elapses
  policyQueue,     \* policy_update_q
  policySq,        \* the selection policy_update is advancing the pointers for
  portIndex, tenantIndex, sqIndex

hostVars    == <<enqueued, alive, credit, outputReady>>
burstVars   == <<deviceBurst, tenantBurst, sqBurst>>
scanVars    == <<scanPort, scanTenant, granted, triedPorts, triedTenants, exhausted, afterRefill>>
arbiterVars == <<arbPc, scanVars>>
pipeVars    == <<pipePc, pipeSq, pendingCount, issueCount, slot>>
policyVars  == <<policySq, portIndex, tenantIndex, sqIndex>>
vars == <<hostVars, queue, issued, pending, dirty, inflight, burstVars, arbiterVars,
          woken, handoff, pipeVars, policyQueue, policyVars>>

Command == [sq : Sq, n : Nat]
SqsOf(t) == { s \in Sq : TenantOf[s] = t }
Least(S) == CHOOSE x \in S : \A y \in S : x <= y

-----------------------------------------------------------------------------
(* The predicates the three processes decide by.                            *)

\* update_pending_bitmaps: the bits after it, every active port's recomputed.
RefreshedBitmap(q) == { s \in Sq : PortOf[TenantOf[s]] \in ActivePort /\ q[s] # <<>> }

TenantPending(t) == \E s \in SqsOf(t) : s \in pending
PendingPorts ==
  { p \in ActivePort : /\ \E i \in DOMAIN PortOrder : PortOrder[i] = p
                       /\ \E t \in Tenant : PortOf[t] = p /\ TenantPending(t) }

Eligible(t) == alive[t] /\ credit[t]

\* Fault: the test for work forgets the claims (what M36 removed).
ActionableClaimed(bits, q, live, claims) ==
  \E s \in Sq :
    /\ PortOf[TenantOf[s]] \in ActivePort
    /\ \E b \in bits : PortOf[TenantOf[b]] = PortOf[TenantOf[s]]
    /\ live[TenantOf[s]]
    /\ q[s] # <<>>

\* _has_actionable_work on given bitmap, queues, liveness and claims: some
\* queue of a bitmap-pending port, of a live tenant, holds unclaimed work.
Actionable(bits, q, live, claims) ==
  \E s \in Sq :
    /\ PortOf[TenantOf[s]] \in ActivePort
    /\ \E b \in bits : PortOf[TenantOf[b]] = PortOf[TenantOf[s]]
    /\ live[TenantOf[s]]
    /\ q[s] # <<>>
    /\ s \notin claims

\* Where the test at the head of the loop leaves arbiter_main: it pays for a
\* stale bitmap, goes to scan, or arms its wake event and sleeps.
IdleOutcome(stale, bits, q, live, claims) ==
  IF stale THEN "BITMAP"
  ELSE IF Actionable(bits, q, live, claims) THEN "PORT_SCAN" ELSE "ASLEEP"

EnterIdle == arbPc' = IdleOutcome(dirty, pending, queue, alive, inflight)

\* _wake_arbiter: only an armed wake event can be triggered.
Wake == woken' = (woken \/ arbPc = "ASLEEP")

\* The tenants a scan of port p may select.
Candidates(p, excluded) ==
  { t \in Tenant : PortOf[t] = p /\ t \notin excluded /\ TenantPending(t) /\ Eligible(t) }

\* Tenants with pending traffic and a live status, over the pending ports.
Exhausted ==
  { t \in Tenant : /\ PortOf[t] \in PendingPorts
                   /\ \E i \in DOMAIN TenantOrder[PortOf[t]] : TenantOrder[PortOf[t]][i] = t
                   /\ TenantPending(t)
                   /\ alive[t]
                   /\ ~Eligible(t) }

\* Fault: the device's burst is left out of the minimum.
IssuableCountNoDevice(s) == Least({Len(queue[s]), tenantBurst[TenantOf[s]], sqBurst[s]})

IssuableCount(s) == Least({Len(queue[s]), deviceBurst, tenantBurst[TenantOf[s]], sqBurst[s]})

-----------------------------------------------------------------------------
Init ==
  /\ enqueued = [s \in Sq |-> 0]
  /\ queue = [s \in Sq |-> <<>>]
  /\ issued = <<>>
  /\ pending = {} /\ dirty = FALSE
  /\ inflight = {}
  /\ deviceBurst = InitialBurst
  /\ tenantBurst = [t \in Tenant |-> InitialBurst]
  /\ sqBurst = [s \in Sq |-> InitialBurst]
  /\ alive = [t \in Tenant |-> TRUE] /\ credit = [t \in Tenant |-> TRUE]
  /\ outputReady = TRUE
  /\ arbPc = "RESET" /\ woken = FALSE
  /\ scanPort = None /\ scanTenant = None /\ granted = None
  /\ triedPorts = {} /\ triedTenants = {}
  /\ exhausted = {} /\ afterRefill = FALSE
  /\ handoff = <<>>
  /\ pipePc = "WAIT_SELECTION" /\ pipeSq = None
  /\ pendingCount = 0 /\ issueCount = 0
  /\ slot = "free"
  /\ policyQueue = <<>> /\ policySq = None
  /\ portIndex = 0
  /\ tenantIndex = [p \in ActivePort |-> 0]
  /\ sqIndex = [t \in Tenant |-> 0]

-----------------------------------------------------------------------------
(* The host's calls.                                                        *)

Enqueue(s) ==
  /\ enqueued[s] < Workload[s]
  /\ enqueued' = [enqueued EXCEPT ![s] = @ + 1]
  /\ queue' = [queue EXCEPT ![s] = Append(@, enqueued[s] + 1)]
  /\ dirty' = TRUE
  /\ Wake
  /\ UNCHANGED <<issued, pending, inflight, burstVars, alive, credit, outputReady,
                 arbiterVars, handoff, pipeVars, policyQueue, policyVars>>

\* configure_burst: each argument the call leaves out keeps its value.
ConfigureBurst(s, device, ofTenant, ofSq) ==
  LET t == TenantOf[s] IN
  /\ LowersBurst \/ (device >= deviceBurst /\ ofTenant >= tenantBurst[t] /\ ofSq >= sqBurst[s])
  /\ deviceBurst' = device
  /\ tenantBurst' = [tenantBurst EXCEPT ![t] = ofTenant]
  /\ sqBurst' = [sqBurst EXCEPT ![s] = ofSq]
  /\ UNCHANGED <<hostVars, queue, issued, pending, dirty, inflight, arbiterVars,
                 woken, handoff, pipeVars, policyQueue, policyVars>>

\* Fault: a revived tenant's traffic does not wake the arbiter (M40 undone).
SetTenantCreditNoWake(t, isAlive, hasCredit) ==
  /\ alive' = [alive EXCEPT ![t] = isAlive]
  /\ credit' = [credit EXCEPT ![t] = hasCredit]
  /\ UNCHANGED <<enqueued, outputReady, queue, issued, pending, dirty, inflight, burstVars,
                 arbiterVars, woken, handoff, pipeVars, policyQueue, policyVars>>

SetTenantCredit(t, isAlive, hasCredit) ==
  /\ alive' = [alive EXCEPT ![t] = isAlive]
  /\ credit' = [credit EXCEPT ![t] = hasCredit]
  /\ Wake
  /\ UNCHANGED <<enqueued, outputReady, queue, issued, pending, dirty, inflight, burstVars,
                 arbiterVars, handoff, pipeVars, policyQueue, policyVars>>

SetIssueReady ==
  /\ ReadyHost
  /\ outputReady' = ~outputReady
  /\ UNCHANGED <<enqueued, alive, credit, queue, issued, pending, dirty, inflight, burstVars,
                 arbiterVars, woken, handoff, pipeVars, policyQueue, policyVars>>

\* query_pending_bitmaps refreshes a stale bitmap before it answers.
QueryPendingBitmaps ==
  /\ dirty
  /\ pending' = RefreshedBitmap(queue)
  /\ dirty' = FALSE
  /\ UNCHANGED <<hostVars, queue, issued, inflight, burstVars, arbiterVars, woken,
                 handoff, pipeVars, policyQueue, policyVars>>

-----------------------------------------------------------------------------
(* arbiter_main                                                             *)

\* What no step of the arbiter but the ones that say so touches.
ArbiterFrame ==
  UNCHANGED <<enqueued, alive, outputReady, queue, issued, burstVars, pipeVars, policyVars>>
QueuesFrame  == UNCHANGED <<handoff, policyQueue>>
ClaimFrame   == UNCHANGED <<pending, dirty, inflight>>

\* The reset dwell and the bitmap dwell both end in update_pending_bitmaps,
\* after which the loop tests for work.
UpdateBitmaps ==
  /\ arbPc \in {"RESET", "BITMAP"}
  /\ pending' = RefreshedBitmap(queue)
  /\ dirty' = FALSE
  /\ arbPc' = IdleOutcome(FALSE, pending', queue, alive, inflight)
  /\ UNCHANGED <<inflight, credit, woken, scanVars>>
  /\ QueuesFrame /\ ArbiterFrame

\* The wake event: a fresh look at every port and tenant.
WakeUp ==
  /\ arbPc = "ASLEEP" /\ woken
  /\ woken' = FALSE
  /\ triedPorts' = {} /\ triedTenants' = {}
  /\ EnterIdle
  /\ UNCHANGED <<scanPort, scanTenant, granted, exhausted, afterRefill, credit>>
  /\ ClaimFrame /\ QueuesFrame /\ ArbiterFrame

\* PORT_SCAN: the first pending port this sweep has not tried; without one the
\* sweep is over.
PortScan ==
  /\ arbPc = "PORT_SCAN"
  /\ LET found == FirstOf(PortOrder, portIndex, PendingPorts \ triedPorts) IN
     \/ \E p \in found :
          /\ arbPc' = "TENANT_SCAN" /\ scanPort' = p
          /\ UNCHANGED <<triedPorts, triedTenants>>
     \/ /\ found = {}
        /\ arbPc' = "STALL" /\ triedPorts' = {} /\ triedTenants' = {}
        /\ UNCHANGED scanPort
  /\ UNCHANGED <<scanTenant, granted, exhausted, afterRefill, woken, credit>>
  /\ ClaimFrame /\ QueuesFrame /\ ArbiterFrame

TenantsFound ==
  FirstOf(TenantOrder[scanPort], tenantIndex[scanPort],
          Candidates(scanPort, IF afterRefill THEN {} ELSE triedTenants))

\* TENANT_SCAN with an eligible tenant.
SelectTenant ==
  /\ arbPc = "TENANT_SCAN"
  /\ \E t \in TenantsFound : scanTenant' = t
  /\ arbPc' = "SQ_SCAN" /\ afterRefill' = FALSE
  /\ UNCHANGED <<scanPort, granted, triedPorts, triedTenants, exhausted, woken, credit>>
  /\ ClaimFrame /\ QueuesFrame /\ ArbiterFrame

\* TENANT_SCAN without one.  The port is given up for this sweep; when it was
\* the last one and a live tenant is short of credit, the arbiter refills
\* before it stalls.  The scan after a refill ends the sweep instead.
NoTenant ==
  /\ arbPc = "TENANT_SCAN" /\ TenantsFound = {}
  /\ \/ /\ afterRefill
        /\ triedPorts' = {} /\ triedTenants' = {}
        /\ arbPc' = "STALL" /\ scanPort' = None /\ exhausted' = {}
     \/ /\ ~afterRefill
        /\ triedPorts' = triedPorts \cup {scanPort} /\ UNCHANGED triedTenants
        /\ \/ /\ PendingPorts \subseteq triedPorts' /\ Exhausted # {}
              /\ arbPc' = "CREDIT_REFILL" /\ exhausted' = Exhausted /\ UNCHANGED scanPort
           \/ /\ ~(PendingPorts \subseteq triedPorts' /\ Exhausted # {})
              /\ arbPc' = "STALL" /\ exhausted' = {} /\ scanPort' = None
  /\ afterRefill' = FALSE
  /\ UNCHANGED <<scanTenant, granted, woken, credit>>
  /\ ClaimFrame /\ QueuesFrame /\ ArbiterFrame

\* Fault: the refill pays its dwell and restores nothing.
RefillCreditNothing ==
  /\ arbPc = "CREDIT_REFILL"
  /\ arbPc' = "TENANT_SCAN" /\ exhausted' = {} /\ afterRefill' = TRUE
  /\ UNCHANGED <<scanPort, scanTenant, granted, triedPorts, triedTenants, woken, credit>>
  /\ ClaimFrame /\ QueuesFrame /\ ArbiterFrame

\* CREDIT_REFILL restores the credit of the tenants found exhausted before its
\* dwell, and scans the same port again.
RefillCredit ==
  /\ arbPc = "CREDIT_REFILL"
  /\ credit' = [t \in Tenant |-> credit[t] \/ t \in exhausted]
  /\ arbPc' = "TENANT_SCAN" /\ exhausted' = {} /\ afterRefill' = TRUE
  /\ UNCHANGED <<scanPort, scanTenant, granted, triedPorts, triedTenants, woken>>
  /\ ClaimFrame /\ QueuesFrame /\ ArbiterFrame

\* Fault: the scan of the queues looks at the bitmap alone.
SqsFoundClaimed == FirstOf(SqOrder[scanTenant], sqIndex[scanTenant], pending)

SqsFound == FirstOf(SqOrder[scanTenant], sqIndex[scanTenant], pending \ inflight)

\* SQ_SCAN with an unclaimed pending queue: it is claimed at once, before the
\* grant is paid for.
CommitSelection ==
  /\ arbPc = "SQ_SCAN"
  /\ \E s \in SqsFound : granted' = s /\ inflight' = inflight \cup {s}
  /\ arbPc' = "GRANT" /\ scanPort' = None /\ scanTenant' = None
  /\ UNCHANGED <<triedPorts, triedTenants, exhausted, afterRefill, woken, credit, pending, dirty>>
  /\ QueuesFrame /\ ArbiterFrame

\* Fault: the tenant is not excluded from the rest of the sweep (M41 undone).
NoSqRetried ==
  /\ arbPc = "SQ_SCAN" /\ SqsFound = {}
  /\ arbPc' = "STALL" /\ scanPort' = None /\ scanTenant' = None
  /\ UNCHANGED <<triedPorts, triedTenants, granted, exhausted, afterRefill, woken, credit>>
  /\ ClaimFrame /\ QueuesFrame /\ ArbiterFrame

\* SQ_SCAN without one excludes the tenant, not its port, from this sweep.
NoSq ==
  /\ arbPc = "SQ_SCAN" /\ SqsFound = {}
  /\ triedTenants' = triedTenants \cup {scanTenant}
  /\ arbPc' = "STALL" /\ scanPort' = None /\ scanTenant' = None
  /\ UNCHANGED <<triedPorts, granted, exhausted, afterRefill, woken, credit>>
  /\ ClaimFrame /\ QueuesFrame /\ ArbiterFrame

StallRetry ==
  /\ arbPc = "STALL"
  /\ EnterIdle
  /\ UNCHANGED <<scanVars, woken, credit>>
  /\ ClaimFrame /\ QueuesFrame /\ ArbiterFrame

\* The put into the full hand-off store blocks; the one into the unbounded
\* policy queue does not.
PutSelection ==
  /\ arbPc = "GRANT" /\ handoff = <<>>
  /\ handoff' = <<granted>>
  /\ arbPc' = "PUT_POLICY"
  /\ UNCHANGED <<policyQueue, scanVars, woken, credit>> /\ ClaimFrame /\ ArbiterFrame

PutPolicy ==
  /\ arbPc = "PUT_POLICY"
  /\ policyQueue' = Append(policyQueue, granted)
  /\ arbPc' = "GRANTED" /\ granted' = None
  /\ UNCHANGED <<handoff, scanPort, scanTenant, triedPorts, triedTenants, exhausted,
                 afterRefill, woken, credit>>
  /\ ClaimFrame /\ ArbiterFrame

GrantDone ==
  /\ arbPc = "GRANTED"
  /\ triedPorts' = {} /\ triedTenants' = {}
  /\ EnterIdle
  /\ UNCHANGED <<scanPort, scanTenant, granted, exhausted, afterRefill, woken, credit>>
  /\ ClaimFrame /\ QueuesFrame /\ ArbiterFrame

ArbiterMain ==
  \/ UpdateBitmaps \/ WakeUp \/ PortScan \/ SelectTenant \/ NoTenant \/ RefillCredit
  \/ CommitSelection \/ NoSq \/ StallRetry \/ PutSelection \/ PutPolicy \/ GrantDone

-----------------------------------------------------------------------------
(* issue_pipeline                                                           *)

PipeFrame == UNCHANGED <<enqueued, alive, credit, outputReady, arbiterVars, policyQueue, policyVars>>

TakeSelection ==
  /\ pipePc = "WAIT_SELECTION" /\ handoff # <<>>
  /\ pipeSq' = Head(handoff) /\ handoff' = Tail(handoff)
  /\ pipePc' = "READ_PENDING_COUNT"
  /\ UNCHANGED <<pendingCount, issueCount, slot, queue, issued, burstVars, woken>>
  /\ ClaimFrame /\ PipeFrame

\* READ_PENDING_COUNT samples the count; READ_BURST after it reads nothing.
ReadPendingCount ==
  /\ pipePc = "READ_PENDING_COUNT"
  /\ pendingCount' = Len(queue[pipeSq])
  /\ pipePc' = "CALC_ISSUE_COUNT"
  /\ UNCHANGED <<pipeSq, issueCount, slot, queue, issued, burstVars, woken, handoff>>
  /\ ClaimFrame /\ PipeFrame

\* CALC_ISSUE_COUNT reads the queue and the counters afresh.  With nothing to
\* issue the selection stays claimed and the reads are retried.
CalcIssueCount ==
  /\ pipePc = "CALC_ISSUE_COUNT"
  /\ \/ /\ IssuableCount(pipeSq) > 0
        /\ issueCount' = IssuableCount(pipeSq)
        /\ pipePc' = "ACQUIRE_SLOT"
     \/ /\ IssuableCount(pipeSq) <= 0
        /\ UNCHANGED issueCount
        /\ pipePc' = "BURST_STALL"
  /\ UNCHANGED <<pipeSq, pendingCount, slot, queue, issued, burstVars, woken, handoff>>
  /\ ClaimFrame /\ PipeFrame

\* ISSUE_STALL: one cycle after a zero count, and after a rejected request for
\* as long as issue_ready is low.
StallOver ==
  /\ \/ pipePc = "BURST_STALL"
     \/ pipePc = "OUTPUT_STALL" /\ outputReady
  /\ pipePc' = "READ_PENDING_COUNT"
  /\ UNCHANGED <<pipeSq, pendingCount, issueCount, slot, queue, issued, burstVars, woken, handoff>>
  /\ ClaimFrame /\ PipeFrame

AcquireSlot ==
  /\ pipePc = "ACQUIRE_SLOT" /\ slot = "free"
  /\ slot' = "held"
  /\ pipePc' = "ISSUE_REQUEST"
  /\ UNCHANGED <<pipeSq, pendingCount, issueCount, queue, issued, burstVars, woken, handoff>>
  /\ ClaimFrame /\ PipeFrame

DebitBursts ==
  /\ deviceBurst' = deviceBurst - issueCount
  /\ tenantBurst' = [tenantBurst EXCEPT ![TenantOf[pipeSq]] = @ - issueCount]
  /\ sqBurst' = [sqBurst EXCEPT ![pipeSq] = @ - issueCount]

\* Fault: the batch is popped from the young end of the queue.
IssueFromTail ==
  /\ pipePc = "ISSUE_REQUEST" /\ outputReady
  /\ queue' = [queue EXCEPT ![pipeSq] = SubSeq(@, 1, Len(@) - issueCount)]
  /\ issued' = issued \o [i \in 1 .. issueCount |-> [sq |-> pipeSq, n |-> queue[pipeSq][i]]]
  /\ slot' = "releasing"
  /\ DebitBursts
  /\ pipePc' = "UPDATE_BURST"
  /\ UNCHANGED <<pipeSq, pendingCount, issueCount, woken, handoff>>
  /\ ClaimFrame /\ PipeFrame

\* An accepted request pops the batch and debits the three counters; the slot
\* stays busy until the background release.
Issue ==
  /\ pipePc = "ISSUE_REQUEST" /\ outputReady
  /\ queue' = [queue EXCEPT ![pipeSq] = SubSeq(@, issueCount + 1, Len(@))]
  /\ issued' = issued \o [i \in 1 .. issueCount |-> [sq |-> pipeSq, n |-> queue[pipeSq][i]]]
  /\ slot' = "releasing"
  /\ DebitBursts
  /\ pipePc' = "UPDATE_BURST"
  /\ UNCHANGED <<pipeSq, pendingCount, issueCount, woken, handoff>>
  /\ ClaimFrame /\ PipeFrame

\* Fault: a rejected request gives its claim up.
RejectedRequestUnclaims ==
  /\ pipePc = "ISSUE_REQUEST" /\ ~outputReady
  /\ slot' = "free"
  /\ pipePc' = "OUTPUT_STALL"
  /\ inflight' = inflight \ {pipeSq}
  /\ UNCHANGED <<pipeSq, pendingCount, issueCount, queue, issued, burstVars, woken, handoff,
                 pending, dirty>>
  /\ PipeFrame

RejectedRequest ==
  /\ pipePc = "ISSUE_REQUEST" /\ ~outputReady
  /\ slot' = "free"
  /\ pipePc' = "OUTPUT_STALL"
  /\ UNCHANGED <<pipeSq, pendingCount, issueCount, queue, issued, burstVars, woken, handoff>>
  /\ ClaimFrame /\ PipeFrame

\* Fault: the bitmap is not refreshed once the batch is out.
ReleaseClaimStale ==
  /\ pipePc = "UPDATE_BURST"
  /\ inflight' = inflight \ {pipeSq}
  /\ Wake
  /\ pipePc' = "WAIT_SELECTION"
  /\ pipeSq' = None /\ pendingCount' = 0 /\ issueCount' = 0
  /\ UNCHANGED <<slot, queue, issued, burstVars, handoff, pending, dirty>> /\ PipeFrame

\* UPDATE_BURST ends: the claim is dropped, the bitmap refreshed, the arbiter
\* woken for what a short burst left behind.
ReleaseClaim ==
  /\ pipePc = "UPDATE_BURST"
  /\ inflight' = inflight \ {pipeSq}
  /\ pending' = RefreshedBitmap(queue)
  /\ dirty' = FALSE
  /\ Wake
  /\ pipePc' = "WAIT_SELECTION"
  /\ pipeSq' = None /\ pendingCount' = 0 /\ issueCount' = 0
  /\ UNCHANGED <<slot, queue, issued, burstVars, handoff>> /\ PipeFrame

\* _release_issue_slot, a process of its own.
ReleaseSlot ==
  /\ slot = "releasing"
  /\ slot' = "free"
  /\ UNCHANGED <<pipePc, pipeSq, pendingCount, issueCount, queue, issued, burstVars, woken, handoff>>
  /\ ClaimFrame /\ PipeFrame

IssuePipeline ==
  \/ TakeSelection \/ ReadPendingCount \/ CalcIssueCount \/ StallOver
  \/ AcquireSlot \/ Issue \/ RejectedRequest \/ ReleaseClaim

-----------------------------------------------------------------------------
(* policy_update                                                            *)

PolicyFrame ==
  UNCHANGED <<hostVars, queue, issued, pending, dirty, inflight, burstVars, arbiterVars,
              woken, handoff, pipeVars>>

TakePolicy ==
  /\ policySq = None /\ policyQueue # <<>>
  /\ policySq' = Head(policyQueue) /\ policyQueue' = Tail(policyQueue)
  /\ UNCHANGED <<portIndex, tenantIndex, sqIndex>> /\ PolicyFrame

\* The rebuild dwell that follows reads and writes nothing.
AdvancePointers ==
  /\ policySq # None
  /\ LET t == TenantOf[policySq]
         p == PortOf[t] IN
     /\ portIndex' = AdvanceToAfter(PortOrder, portIndex, p)
     /\ tenantIndex' = [tenantIndex EXCEPT ![p] = AdvanceToAfter(TenantOrder[p], @, t)]
     /\ sqIndex' = [sqIndex EXCEPT ![t] = AdvanceToAfter(SqOrder[t], @, policySq)]
  /\ policySq' = None
  /\ UNCHANGED policyQueue /\ PolicyFrame

PolicyUpdate == TakePolicy \/ AdvancePointers

-----------------------------------------------------------------------------
Host ==
  \/ \E s \in Sq : Enqueue(s)
  \/ \E s \in BurstHost, d \in BurstUpdate \cup {deviceBurst} :
       \E bt \in BurstUpdate \cup {tenantBurst[TenantOf[s]]}, bs \in BurstUpdate \cup {sqBurst[s]} :
         ConfigureBurst(s, d, bt, bs)
  \/ \E t \in CreditHost, isAlive, hasCredit \in BOOLEAN : SetTenantCredit(t, isAlive, hasCredit)
  \/ SetIssueReady
  \/ QueryPendingBitmaps

Next == Host \/ ArbiterMain \/ IssuePipeline \/ ReleaseSlot \/ PolicyUpdate

Spec == Init /\ [][Next]_vars

\* The simulation runs every event it has scheduled: no process that can take
\* its next step is left waiting for ever.  The host owes nothing.
Fairness ==
  /\ WF_vars(ArbiterMain)
  /\ WF_vars(IssuePipeline)
  /\ WF_vars(ReleaseSlot)
  /\ WF_vars(PolicyUpdate)

FairSpec == Spec /\ Fairness

-----------------------------------------------------------------------------
(* What the component promises.                                             *)

ArbPcs  == {"RESET", "BITMAP", "ASLEEP", "PORT_SCAN", "TENANT_SCAN", "SQ_SCAN",
            "CREDIT_REFILL", "STALL", "GRANT", "PUT_POLICY", "GRANTED"}
PipePcs == {"WAIT_SELECTION", "READ_PENDING_COUNT", "CALC_ISSUE_COUNT", "BURST_STALL",
            "ACQUIRE_SLOT", "ISSUE_REQUEST", "OUTPUT_STALL", "UPDATE_BURST"}

QueueTypes ==
  /\ enqueued \in [Sq -> Nat]
  /\ queue \in [Sq -> Seq(Nat)]
  /\ issued \in Seq(Command)
  /\ handoff \in Seq(Sq) /\ Len(handoff) <= 1
ClaimTypes ==
  /\ pending \subseteq Sq /\ dirty \in BOOLEAN
  /\ inflight \subseteq Sq
BurstTypes == deviceBurst \in Int /\ tenantBurst \in [Tenant -> Int] /\ sqBurst \in [Sq -> Int]
TenantTypes ==
  /\ alive \in [Tenant -> BOOLEAN] /\ credit \in [Tenant -> BOOLEAN]
  /\ outputReady \in BOOLEAN
ArbiterTypes ==
  /\ arbPc \in ArbPcs
  /\ woken \in BOOLEAN /\ (woken => arbPc = "ASLEEP")
  /\ scanPort \in ActivePort \cup {None}
  /\ arbPc \in {"TENANT_SCAN", "SQ_SCAN", "CREDIT_REFILL"} => scanPort # None
  /\ scanTenant \in Tenant \cup {None} /\ (arbPc = "SQ_SCAN" => scanTenant # None)
  /\ granted \in Sq \cup {None} /\ (granted # None <=> arbPc \in {"GRANT", "PUT_POLICY"})
  /\ triedPorts \subseteq Port /\ triedTenants \subseteq Tenant
  /\ exhausted \subseteq Tenant /\ afterRefill \in BOOLEAN
PipeTypes ==
  /\ pipePc \in PipePcs
  /\ pipeSq \in Sq \cup {None} /\ (pipeSq = None <=> pipePc = "WAIT_SELECTION")
  /\ pendingCount \in Nat /\ issueCount \in Nat
  /\ slot \in {"free", "held", "releasing"} /\ (pipePc = "ISSUE_REQUEST" => slot = "held")
PolicyTypes ==
  /\ policyQueue \in Seq(Sq) /\ policySq \in Sq \cup {None}
  /\ portIndex \in Nat /\ tenantIndex \in [ActivePort -> Nat] /\ sqIndex \in [Tenant -> Nat]

\* Every variable keeps its type, and the program counters determine which
\* locals of the processes are in use.
TypeOK ==
  /\ QueueTypes /\ ClaimTypes /\ BurstTypes /\ TenantTypes
  /\ ArbiterTypes /\ PipeTypes /\ PolicyTypes

\* The selections under way, by where they are held.
Granting  == IF arbPc = "GRANT" THEN {granted} ELSE {}
HandedOff == { handoff[i] : i \in DOMAIN handoff }
Issuing   == { pipeSq } \ {None}

\* inflight_sqs (M31-M33) is exactly the selections between the arbiter's
\* commit and the pipeline's discard, and no queue is selected twice: two
\* processes and a store pass each claim on and nobody else may hold it.
ClaimsAreExclusive ==
  /\ inflight = Granting \cup HandedOff \cup Issuing
  /\ Granting \cap HandedOff = {} /\ Granting \cap Issuing = {} /\ HandedOff \cap Issuing = {}

\* No grant is made on a bitmap bit that outlived its commands: a selection
\* finds a command to issue until it has issued one.  An empty one would be
\* retried for ever (CALC_ISSUE_COUNT never discards a selection), and every
\* other queue would wait behind it.
GrantsHaveWork ==
  \A s \in inflight : queue[s] # <<>> \/ (pipePc = "UPDATE_BURST" /\ pipeSq = s)

Work(s) ==
  /\ PortOf[TenantOf[s]] \in ActivePort
  /\ alive[TenantOf[s]]
  /\ queue[s] # <<>>
  /\ s \notin inflight

\* No lost wake-up (M36, M40): an arbiter asleep in IDLE, with no wake event
\* triggered, leaves no live tenant's unclaimed command behind, whoever
\* enqueued it, revived the tenant or released the claim meanwhile.
NoLostWakeUp == arbPc = "ASLEEP" /\ ~woken => \A s \in Sq : ~Work(s)

\* A queue holds, in order, the youngest commands enqueued on it: none is
\* lost, repeated or overtaken between enqueue and issue.
QueueIsSuffix ==
  \A s \in Sq :
    /\ Len(queue[s]) <= enqueued[s]
    /\ \A i \in DOMAIN queue[s] : queue[s][i] = enqueued[s] - Len(queue[s]) + i

\* The issued trace holds, per queue in order, exactly the commands that left
\* the queue.
IssuedInOrder ==
  /\ \A i, j \in DOMAIN issued :
       i < j /\ issued[i].sq = issued[j].sq => issued[i].n < issued[j].n
  /\ \A s \in Sq : { issued[i].n : i \in { k \in DOMAIN issued : issued[k].sq = s } }
                     = 1 .. enqueued[s] - Len(queue[s])

\* The count a request was built with stays covered until the request is
\* accepted: the pop loop never runs dry and no counter goes below zero.
RequestIsCovered ==
  pipePc \in {"ACQUIRE_SLOT", "ISSUE_REQUEST"} =>
    /\ issueCount > 0 /\ issueCount <= Len(queue[pipeSq])
    /\ issueCount <= deviceBurst
    /\ issueCount <= tenantBurst[TenantOf[pipeSq]]
    /\ issueCount <= sqBurst[pipeSq]

\* No counter is overspent, whatever the order of issues and replenishments.
BurstNeverOverspent ==
  /\ deviceBurst >= 0
  /\ \A t \in Tenant : tenantBurst[t] >= 0
  /\ \A s \in Sq : sqBurst[s] >= 0

\* How far the grant of a queue is.
Stage(s) ==
  IF s \notin inflight THEN "none"
  ELSE IF pipePc = "UPDATE_BURST" /\ pipeSq = s THEN "issued" ELSE "granted"

\* The component implements GrantedQueues: a queue is granted while it is in
\* inflight_sqs, and its batch is issued once the pipeline debits the bursts.
Promise == INSTANCE GrantedQueues WITH stage <- [s \in Sq |-> Stage(s)]
PromiseKept == Promise!Spec

-----------------------------------------------------------------------------
(* Liveness, once the host leaves the credit status alone.                  *)

CreditSettles == <>[][credit' # credit => arbPc = "CREDIT_REFILL"]_credit
AliveSettles  == \A t \in Tenant : <>[]alive[t] \/ <>[]~alive[t]

\* Nothing grantable is searched for in vain (M41, and the refill of M31): a
\* sweep that meets claimed queues, tenants out of credit or dead ones still
\* ends in a grant as long as a live tenant has unclaimed work.
SearchSucceeds ==
  CreditSettles /\ AliveSettles =>
    []<>(arbPc = "GRANT" \/ handoff # <<>> \/ \A s \in Sq : ~Work(s))

\* With the downstream ready and the tenants alive, every command is issued.
EventuallyIssued ==
  CreditSettles /\ <>[](outputReady /\ \A t \in Tenant : alive[t]) =>
    \A s \in Sq : []<>(queue[s] = <<>>)

\* An arbiter with nothing it may grant stops scanning (M36): it sleeps, or
\* waits to hand over the selection it has.
IdleIsQuiet ==
  <>[](\A s \in Sq : ~Work(s)) => <>[](arbPc \in {"ASLEEP", "GRANT"})

=============================================================================
