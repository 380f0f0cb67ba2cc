---------------------------- MODULE StoragePipeline ----------------------------
(***************************************************************************)
(* The storage pipeline: storage_pipeline_subsystem.py.                    *)
(*                                                                         *)
(* Its two members appear as what they promise (GrantedQueues and          *)
(* CompletionService, which Arbitration and Completion implement); the     *)
(* three glue processes are modelled in full.  intake_bridge takes what    *)
(* the host submits to the member it is for, dispatch_bridge follows the   *)
(* issued trace with a cursor and submits each command to the Completion   *)
(* IP, backpressure_monitor samples the pending backlog and, a cycle       *)
(* later, sets issue_ready.                                                *)
(***************************************************************************)
EXTENDS Naturals, Sequences, FiniteSets, SequencesExt

CONSTANTS
  Tenant, Sq,
  TenantOf,       \* the tenant of a submission queue
  Workload,       \* how many commands the host submits to each queue
  QosRequests,    \* how many QoS configurations it submits,
  QosHost,        \*   and for which tenants
  Limit,          \* completion_backlog_limit
  Depth,          \* the Completion IP's pending_depth
  ReadyHost,      \* whether the host moves the Completion IP's readiness
  None

ASSUME StorageAssumption ==
  /\ TenantOf \in [Sq -> Tenant]
  /\ Workload \in [Sq -> Nat] /\ QosRequests \in Nat /\ QosHost \subseteq Tenant
  /\ ReadyHost \in BOOLEAN /\ Limit \in Nat \ {0} /\ Depth \in (Nat \ {0}) \cup {None}

VARIABLES
  submitted,      \* how many commands the host submitted to each queue
  configured,     \* how many QoS configurations it submitted
  intake,         \* intake_queue
  intakePc, taken,            \* intake_bridge, and the entry it has taken
  enqueued, queue, issued, stage,          \* the Arbitration IP
  issueReady,                              \* its output_ready
  dispatchPc, carried, issuedSeen,         \* dispatch_bridge
  inbox, pending, serving, completed,      \* the Completion IP
  willing,        \* the tenants it serves: alive, with a budget for their head
  outputReady,    \* its output_ready
  monitorPc, backlogged, issueThrottled    \* backpressure_monitor

Command == [sq : Sq, n : Nat]
CommandTenant == [c \in Command |-> TenantOf[c.sq]]

Arb == INSTANCE GrantedQueues
Service == INSTANCE CompletionService WITH TenantOf <- CommandTenant

hostVars     == <<submitted, configured>>
intakeVars   == <<intake, intakePc, taken>>
dispatchVars == <<dispatchPc, carried, issuedSeen>>
monitorVars  == <<monitorPc, backlogged, issueThrottled, issueReady>>
memberVars   == <<willing, outputReady>>
arbVars      == <<enqueued, queue, issued, stage>>
serviceVars  == <<inbox, pending, serving, completed>>
vars == <<hostVars, intakeVars, arbVars, dispatchVars, serviceVars, memberVars, monitorVars>>

Entry == [kind : {"command"}, sq : Sq, n : Nat \ {0}]
           \cup [kind : {"qos_config"}, tenant : Tenant, enough : BOOLEAN]

ASSUME EmptyHandAssumption == None \notin Command \cup Entry

-----------------------------------------------------------------------------
Init ==
  /\ submitted = [s \in Sq |-> 0] /\ configured = 0
  /\ intake = <<>> /\ intakePc = "IDLE" /\ taken = None
  /\ Arb!Init
  /\ dispatchPc = "POLL_ISSUED" /\ carried = None /\ issuedSeen = 0
  /\ Service!Init
  /\ willing = [t \in Tenant |-> TRUE] /\ outputReady = TRUE
  /\ monitorPc = "SAMPLE_BACKLOG" /\ backlogged = FALSE
  /\ issueThrottled = FALSE /\ issueReady = TRUE

-----------------------------------------------------------------------------
(* The host: the subsystem's own calls, and those of its members.           *)

Submit(s) ==
  /\ submitted[s] < Workload[s]
  /\ submitted' = [submitted EXCEPT ![s] = @ + 1]
  /\ intake' = Append(intake, [kind |-> "command", sq |-> s, n |-> submitted[s] + 1])
  /\ UNCHANGED <<configured, intakePc, taken, arbVars, dispatchVars, serviceVars, memberVars, monitorVars>>

ConfigureQos(t, enough) ==
  /\ configured < QosRequests
  /\ configured' = configured + 1
  /\ intake' = Append(intake, [kind |-> "qos_config", tenant |-> t, enough |-> enough])
  /\ UNCHANGED <<submitted, intakePc, taken, arbVars, dispatchVars, serviceVars, memberVars, monitorVars>>

\* set_completion_ready, on the member.
SetCompletionReady ==
  /\ ReadyHost /\ outputReady' = ~outputReady
  /\ UNCHANGED <<hostVars, intakeVars, arbVars, dispatchVars, serviceVars, willing, monitorVars>>

-----------------------------------------------------------------------------
(* intake_bridge                                                            *)

IntakeFrame == UNCHANGED <<hostVars, dispatchVars, serviceVars, outputReady, monitorVars>>

TakeEntry ==
  /\ intakePc = "IDLE" /\ intake # <<>>
  /\ taken' = Head(intake) /\ intake' = Tail(intake)
  /\ intakePc' = IF taken'.kind = "command" THEN "FORWARD_TO_ARBITRATION" ELSE "APPLY_QOS_CONFIG"
  /\ UNCHANGED <<arbVars, willing>> /\ IntakeFrame

\* The two dwells of either path end in the call on the member; the host is
\* acknowledged in the same step.
ForwardToArbitration ==
  /\ intakePc = "FORWARD_TO_ARBITRATION"
  /\ Arb!Enqueue(taken.sq)
  /\ intakePc' = "RETURN_TO_IDLE" /\ taken' = None
  /\ UNCHANGED <<intake, willing>> /\ IntakeFrame

\* configure_tenant replaces the budget and leaves the tenant alive.
ApplyQosConfig ==
  /\ intakePc = "APPLY_QOS_CONFIG"
  /\ willing' = [willing EXCEPT ![taken.tenant] = taken.enough]
  /\ intakePc' = "RETURN_TO_IDLE" /\ taken' = None
  /\ UNCHANGED <<intake, arbVars>> /\ IntakeFrame

ReturnToIdle ==
  /\ intakePc = "RETURN_TO_IDLE" /\ intakePc' = "IDLE"
  /\ UNCHANGED <<intake, taken, arbVars, willing>> /\ IntakeFrame

IntakeBridge == TakeEntry \/ ForwardToArbitration \/ ApplyQosConfig \/ ReturnToIdle

-----------------------------------------------------------------------------
(* The Arbitration IP.  It issues only what its issue_ready lets through.   *)

ArbFrame == UNCHANGED <<hostVars, intakeVars, dispatchVars, serviceVars, memberVars, monitorVars>>

ArbGrant(s) == Arb!Grant(s) /\ ArbFrame
ArbIssue(s) == issueReady /\ (\E n \in 1 .. Len(queue[s]) : Arb!IssueBatch(s, n)) /\ ArbFrame
ArbEndGrant(s) == Arb!EndGrant(s) /\ ArbFrame

-----------------------------------------------------------------------------
(* dispatch_bridge                                                          *)

DispatchFrame == UNCHANGED <<hostVars, intakeVars, arbVars, memberVars, monitorVars>>

\* Fault: the cursor is moved to the end of the trace it polled.
PollIssuedToEnd ==
  /\ dispatchPc = "POLL_ISSUED" /\ issuedSeen < Len(issued)
  /\ carried' = issued[issuedSeen + 1]
  /\ issuedSeen' = Len(issued)
  /\ dispatchPc' = "FORWARD_TO_COMPLETION"
  /\ UNCHANGED serviceVars /\ DispatchFrame

PollIssued ==
  /\ dispatchPc = "POLL_ISSUED" /\ issuedSeen < Len(issued)
  /\ carried' = issued[issuedSeen + 1]
  /\ issuedSeen' = issuedSeen + 1
  /\ dispatchPc' = "FORWARD_TO_COMPLETION"
  /\ UNCHANGED serviceVars /\ DispatchFrame

ForwardToCompletion ==
  /\ dispatchPc = "FORWARD_TO_COMPLETION"
  /\ Service!Submit(carried)
  /\ dispatchPc' = "WAIT_ACCEPT" /\ carried' = None
  /\ UNCHANGED issuedSeen /\ DispatchFrame

\* The accept of the one command it has outstanding.
ForwardAccepted ==
  /\ dispatchPc = "WAIT_ACCEPT" /\ inbox = <<>>
  /\ dispatchPc' = "POLL_ISSUED"
  /\ UNCHANGED <<carried, issuedSeen, serviceVars>> /\ DispatchFrame

DispatchBridge == PollIssued \/ ForwardToCompletion \/ ForwardAccepted

-----------------------------------------------------------------------------
(* The Completion IP.                                                       *)

CplFrame == UNCHANGED <<hostVars, intakeVars, arbVars, dispatchVars, memberVars, monitorVars>>

CplAccept == Service!Accept /\ CplFrame
CplBegin(t) == Service!Begin(t) /\ CplFrame
CplFinish == Service!Finish /\ CplFrame

-----------------------------------------------------------------------------
(* backpressure_monitor                                                     *)

MonitorFrame ==
  UNCHANGED <<hostVars, intakeVars, arbVars, dispatchVars, serviceVars, memberVars>>

Backlog == Cardinality(UNION { {t} \X DOMAIN pending[t] : t \in Tenant })

\* Fault: the monitor looks for an excess only.
SampleExcess ==
  /\ monitorPc = "SAMPLE_BACKLOG"
  /\ Backlog >= Limit /\ ~issueThrottled
  /\ backlogged' = TRUE
  /\ monitorPc' = "APPLY_THROTTLE"
  /\ UNCHANGED <<issueThrottled, issueReady>> /\ MonitorFrame

\* A sample that agrees with the throttle is followed by the next sample.
SampleBacklog ==
  /\ monitorPc = "SAMPLE_BACKLOG"
  /\ (Backlog >= Limit) # issueThrottled
  /\ backlogged' = (Backlog >= Limit)
  /\ monitorPc' = "APPLY_THROTTLE"
  /\ UNCHANGED <<issueThrottled, issueReady>> /\ MonitorFrame

ApplyThrottle ==
  /\ monitorPc = "APPLY_THROTTLE"
  /\ issueThrottled' = backlogged /\ issueReady' = ~backlogged
  /\ monitorPc' = "SAMPLE_BACKLOG"
  /\ UNCHANGED backlogged /\ MonitorFrame

BackpressureMonitor == SampleBacklog \/ ApplyThrottle

-----------------------------------------------------------------------------
Host ==
  \/ \E s \in Sq : Submit(s)
  \/ \E t \in QosHost, enough \in BOOLEAN : ConfigureQos(t, enough)
  \/ SetCompletionReady

Next ==
  \/ Host \/ IntakeBridge \/ DispatchBridge \/ BackpressureMonitor
  \/ \E s \in Sq : ArbGrant(s) \/ ArbIssue(s) \/ ArbEndGrant(s)
  \/ CplAccept \/ CplFinish \/ \E t \in Tenant : CplBegin(t)

Spec == Init /\ [][Next]_vars

\* The glue processes run on the simulation's clock.  Of the members it asks
\* what their own liveness properties give: the Arbitration IP grants and
\* issues while its bursts cover the traffic, the Completion IP serves the
\* tenants it is willing to while its output is ready.
Fairness ==
  /\ WF_vars(IntakeBridge) /\ WF_vars(DispatchBridge) /\ WF_vars(BackpressureMonitor)
  /\ \A s \in Sq : WF_vars(ArbGrant(s)) /\ SF_vars(ArbIssue(s)) /\ WF_vars(ArbEndGrant(s))
  /\ WF_vars(CplAccept) /\ WF_vars(CplFinish)
  /\ \A t \in Tenant : SF_vars(willing[t] /\ outputReady /\ CplBegin(t))

FairSpec == Spec /\ Fairness

-----------------------------------------------------------------------------
(* What the subsystem promises.                                             *)

\* Every variable keeps its type, and the glue processes hold what their states
\* say, and nothing in the others.
TypeOK ==
  /\ submitted \in [Sq -> Nat] /\ configured \in Nat
  /\ intake \in Seq(Entry)
  /\ intakePc \in {"IDLE", "FORWARD_TO_ARBITRATION", "APPLY_QOS_CONFIG", "RETURN_TO_IDLE"}
  /\ taken \in Entry \cup {None}
  /\ taken # None <=> intakePc \in {"FORWARD_TO_ARBITRATION", "APPLY_QOS_CONFIG"}
  /\ intakePc = "FORWARD_TO_ARBITRATION" => taken.kind = "command"
  /\ intakePc = "APPLY_QOS_CONFIG" => taken.kind = "qos_config"
  /\ issued \in Seq(Command) /\ issuedSeen \in 0 .. Len(issued)
  /\ dispatchPc \in {"POLL_ISSUED", "FORWARD_TO_COMPLETION", "WAIT_ACCEPT"}
  /\ carried \in Command \cup {None}
  /\ carried # None <=> dispatchPc = "FORWARD_TO_COMPLETION"
  /\ inbox \in Seq(Command) /\ pending \in [Tenant -> Seq(Command)]
  /\ serving \in Command \cup {None} /\ completed \in Seq(Command)
  /\ willing \in [Tenant -> BOOLEAN] /\ outputReady \in BOOLEAN
  /\ monitorPc \in {"SAMPLE_BACKLOG", "APPLY_THROTTLE"} /\ backlogged \in BOOLEAN
  /\ issueThrottled \in BOOLEAN /\ issueReady = ~issueThrottled

One(c) == IF c = None THEN <<>> ELSE <<c>>

\* What one station of the way holds of queue s: its commands' numbers where they
\* stand, and 0 where another's stand.
Own(s, commands) == [i \in DOMAIN commands |-> IF commands[i].sq = s THEN commands[i].n ELSE 0]
Submissions(s, entries) ==
  [i \in DOMAIN entries |-> IF entries[i].kind = "command" /\ entries[i].sq = s THEN entries[i].n ELSE 0]

\* The way of the commands of s, from where they end to where they begin.
Stations(s) ==
  << Own(s, completed), Own(s, One(serving)), Own(s, pending[TenantOf[s]]), Own(s, inbox),
     Own(s, One(carried)), Own(s, SubSeq(issued, issuedSeen + 1, Len(issued))),
     queue[s], Submissions(s, One(taken)), Submissions(s, intake) >>

Numbers(station) == Range(station) \ {0}
Ascending(station) ==
  \A i, j \in DOMAIN station : i < j /\ station[i] # 0 /\ station[j] # 0 => station[i] < station[j]

\* Each number up to last stands on the way once, and no number behind a greater.
InOrder(way, last) ==
  /\ UNION { Numbers(way[k]) : k \in DOMAIN way } = 1 .. last
  /\ \A k \in DOMAIN way : Ascending(way[k])
  /\ \A k, l \in DOMAIN way : k < l => \A m \in Numbers(way[k]), n \in Numbers(way[l]) : m < n

\* From the host's submit to its completion no command of a queue is lost,
\* repeated or overtaken by a later one of the same queue, through two stores,
\* a trace read by cursor, two members and three hands.  Every variable keeps its
\* type.
NothingLostOrOvertaken == TypeOK /\ \A s \in Sq : InOrder(Stations(s), submitted[s])

AllServed == outputReady /\ \A t \in Tenant : willing[t]
AllCompleted == \A s \in Sq : Len(SelectSeq(completed, LAMBDA c : c.sq = s)) = submitted[s]

\* Back-pressure never becomes a deadlock: once the Completion IP serves every
\* tenant, all that was submitted completes and issue readiness comes back,
\* whatever the monitor sampled on the way.
PipelineDrains == <>[]AllServed => []<>(AllCompleted /\ issueReady)

=============================================================================
