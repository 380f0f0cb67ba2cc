----------------------------- MODULE Completion -----------------------------
(***************************************************************************)
(* The Completion IP: src/ip_model_automation/completion_ip.py.            *)
(*                                                                         *)
(* accept_process moves commands from the input store to their tenant's    *)
(* pending queue and acknowledges them there; completion_scheduler picks   *)
(* an eligible tenant, checks and debits its tokens and emits its head     *)
(* command; the refill restores base tokens.  The host submits, configures *)
(* tenants, adjusts liveness and tokens, and drives completion_ready.      *)
(* As in Arbitration an action is the code between two yields.             *)
(***************************************************************************)
EXTENDS WeightedOrder, Integers, FiniteSets

CONSTANTS
  Tenant, Axis, Kind,
  Cost,            \* _costs: for each kind, the axes it is charged on and how much
  Command, TenantOf, KindOf,
  NextCommand(_),  \* the commands a host that submitted these may submit next
  InitialOrder,    \* the weighted order of the constructor's tenant_weights
  InitialTokens,   \* tokens and base tokens each tenant is configured with
  Depth,           \* pending_depth; None stands for unbounded
  Grants,          \* the token values the host's calls may set an axis to
  ShortGrants,     \* whether such a call, or a refill after it, may lower tokens
  LiveHost,        \* tenants whose liveness the host drives
  ReadyHost,       \* whether the host drives completion_ready
  None

ASSUME CompletionAssumption ==
  /\ DOMAIN Cost = Kind
  /\ \A k \in Kind : DOMAIN Cost[k] \subseteq Axis /\ \A a \in DOMAIN Cost[k] : Cost[k][a] \in Nat
  /\ TenantOf \in [Command -> Tenant] /\ KindOf \in [Command -> Kind]
  /\ InitialOrder \in Seq(Tenant)
  /\ InitialTokens \in [Tenant -> [Axis -> Nat]]
  /\ Depth \in Nat \cup {None}
  /\ Grants \subseteq Nat /\ ShortGrants \in BOOLEAN
  /\ LiveHost \subseteq Tenant /\ ReadyHost \in BOOLEAN
  /\ None \notin Command \cup Tenant \cup Nat

VARIABLES
  submitted,    \* the commands the host has offered, in order
  inputQ,       \* input_q
  acceptPc,     \* accept_process, and the command it is accepting
  accepting,
  pending,      \* the tenants' pending queues
  order, index, \* tenant_order
  tokens, baseTokens,
  alive,
  outputReady,
  eligible,     \* eligible_tenants
  schedPc,      \* completion_scheduler,
  woken,        \*   whether _scheduler_wake has been triggered,
  schedTenant,  \*   the tenant and the command it is serving
  command,
  port,         \* completion_output_port
  completed

acceptVars == <<inputQ, acceptPc, accepting>>
orderVars  == <<order, index>>
tokenVars  == <<tokens, baseTokens>>
schedVars  == <<schedTenant, command, port, completed>>
vars == <<submitted, acceptVars, pending, orderVars, tokenVars, alive, outputReady,
          eligible, schedPc, woken, schedVars>>

-----------------------------------------------------------------------------
Charged(c) == DOMAIN Cost[KindOf[c]]

\* _tenant_eligible: a live tenant with traffic, holding some tokens on every
\* axis its head command is charged on.
TenantEligible(t, live, queues, purse) ==
  /\ live[t]
  /\ queues[t] # <<>>
  /\ \A a \in Charged(Head(queues[t])) : purse[t][a] > 0

\* _refresh_eligibility of the tenants T, on the state after the call: one that
\* is eligible enters the set and wakes a sleeping scheduler, another leaves it.
Refresh(T) ==
  LET now == { t \in T : TenantEligible(t, alive', pending', tokens') } IN
  /\ eligible' = (eligible \ T) \cup now
  /\ woken' = (woken \/ (now # {} /\ schedPc = "ASLEEP"))

\* Fault: the check of the tokens is the one eligibility makes.
CanPaySome(t, c) == \A a \in Charged(c) : tokens[t][a] > 0

CanPay(t, c) == \A a \in Charged(c) : tokens[t][a] >= Cost[KindOf[c]][a]

Debited(t, c) ==
  [tokens EXCEPT ![t] = [a \in Axis |-> @[a] - (IF a \in Charged(c) THEN Cost[KindOf[c]][a] ELSE 0)]]

Full(t) == Depth # None /\ Len(pending[t]) >= Depth

\* Fault: a new tenant is configured but joins no scan.
EnsureTenantUnlisted(t, weight) == UNCHANGED orderVars

\* _ensure_tenant: a new tenant joins at the end and the scan starts over.
EnsureTenant(t, weight) ==
  IF \E i \in DOMAIN order : order[i] = t
  THEN UNCHANGED orderVars
  ELSE order' = order \o [i \in 1 .. weight |-> t] /\ index' = 0

-----------------------------------------------------------------------------
Init ==
  /\ submitted = <<>>
  /\ inputQ = <<>> /\ acceptPc = "RESET" /\ accepting = None
  /\ pending = [t \in Tenant |-> <<>>]
  /\ order = InitialOrder /\ index = 0
  /\ tokens = InitialTokens /\ baseTokens = InitialTokens
  /\ alive = [t \in Tenant |-> TRUE]
  /\ outputReady = TRUE
  /\ eligible = {}
  /\ schedPc = "ASLEEP" /\ woken = FALSE
  /\ schedTenant = None /\ command = None
  /\ port = "free"
  /\ completed = <<>>

-----------------------------------------------------------------------------
(* The host's calls.                                                        *)

Submit(c) ==
  /\ submitted' = Append(submitted, c)
  /\ inputQ' = Append(inputQ, c)
  /\ EnsureTenant(TenantOf[c], 1)
  /\ UNCHANGED <<acceptPc, accepting, pending, tokenVars, alive, outputReady, eligible,
                 schedPc, woken, schedVars>>

\* configure_tenant sets the tokens, the base tokens and the liveness at once.
ConfigureTenant(t, amount, isAlive, weight) ==
  /\ ShortGrants \/ \A a \in Axis : amount >= baseTokens[t][a]
  /\ EnsureTenant(t, weight)
  /\ tokens' = [tokens EXCEPT ![t] = [a \in Axis |-> amount]]
  /\ baseTokens' = [baseTokens EXCEPT ![t] = [a \in Axis |-> amount]]
  /\ alive' = [alive EXCEPT ![t] = isAlive]
  /\ UNCHANGED <<submitted, acceptVars, pending, outputReady, schedPc, schedVars>>
  /\ Refresh({t})

\* Fault: a change of liveness leaves the eligible set alone.
SetTenantAliveUnnoticed(t, isAlive) ==
  /\ alive' = [alive EXCEPT ![t] = isAlive]
  /\ UNCHANGED <<submitted, acceptVars, pending, orderVars, tokenVars, outputReady, schedPc, schedVars,
                 eligible, woken>>

SetTenantAlive(t, isAlive) ==
  /\ alive' = [alive EXCEPT ![t] = isAlive]
  /\ UNCHANGED <<submitted, acceptVars, pending, orderVars, tokenVars, outputReady, schedPc, schedVars>>
  /\ Refresh({t})

\* credit_tokens; a grant above the base is what a later refill takes back.
CreditTokens(t, a, amount) ==
  /\ ShortGrants \/ (amount >= tokens[t][a] /\ amount <= baseTokens[t][a])
  /\ tokens' = [tokens EXCEPT ![t][a] = amount]
  /\ UNCHANGED <<submitted, acceptVars, pending, orderVars, baseTokens, alive, outputReady,
                 schedPc, schedVars>>
  /\ Refresh({t})

SetCompletionReady ==
  /\ ReadyHost
  /\ outputReady' = ~outputReady
  /\ UNCHANGED <<submitted, acceptVars, pending, orderVars, tokenVars, alive, eligible,
                 schedPc, woken, schedVars>>

-----------------------------------------------------------------------------
(* accept_process                                                           *)

AcceptFrame == UNCHANGED <<submitted, orderVars, tokenVars, alive, outputReady, schedPc>>

\* RESET ends in clear_state: everything but the configuration starts over.
ResetDone ==
  /\ acceptPc = "RESET"
  /\ acceptPc' = "READY"
  /\ pending' = [t \in Tenant |-> <<>>]
  /\ completed' = <<>>
  /\ UNCHANGED <<inputQ, accepting, schedTenant, command, port>> /\ AcceptFrame
  /\ Refresh(Tenant)

TakeCommand ==
  /\ acceptPc = "READY" /\ inputQ # <<>>
  /\ accepting' = Head(inputQ) /\ inputQ' = Tail(inputQ)
  /\ acceptPc' = IF Full(TenantOf[accepting']) THEN "BACKPRESSURE" ELSE "ENQUEUE"
  /\ UNCHANGED <<pending, eligible, woken, schedVars>> /\ AcceptFrame

SpaceAvailable ==
  /\ acceptPc = "BACKPRESSURE" /\ ~Full(TenantOf[accepting])
  /\ acceptPc' = "ENQUEUE"
  /\ UNCHANGED <<inputQ, accepting, pending, eligible, woken, schedVars>> /\ AcceptFrame

\* Fault: the command joins its queue at the head.
EnqueueAtHead ==
  /\ acceptPc = "ENQUEUE"
  /\ pending' = [pending EXCEPT ![TenantOf[accepting]] = <<accepting>> \o @]
  /\ accepting' = None /\ acceptPc' = "READY"
  /\ UNCHANGED <<inputQ, schedVars>> /\ AcceptFrame
  /\ Refresh({TenantOf[accepting]})

\* ENQUEUE ends: the command is pending, and its producer acknowledged.
EnqueueDone ==
  /\ acceptPc = "ENQUEUE"
  /\ pending' = [pending EXCEPT ![TenantOf[accepting]] = Append(@, accepting)]
  /\ accepting' = None /\ acceptPc' = "READY"
  /\ UNCHANGED <<inputQ, schedVars>> /\ AcceptFrame
  /\ Refresh({TenantOf[accepting]})

AcceptProcess == ResetDone \/ TakeCommand \/ SpaceAvailable \/ EnqueueDone

-----------------------------------------------------------------------------
(* completion_scheduler                                                     *)

SchedFrame == UNCHANGED <<submitted, acceptVars, baseTokens, alive, outputReady, order>>

\* The test at the head of the loop.
IdleOutcome(candidates) == IF candidates = {} THEN "ASLEEP" ELSE "SELECT_TENANT"

LeaveIdle ==
  /\ \/ schedPc = "ASLEEP" /\ woken
     \/ schedPc = "LOST_CANDIDATE"
  /\ schedPc' = IdleOutcome(eligible)
  /\ woken' = FALSE
  /\ UNCHANGED <<pending, index, tokens, eligible, schedVars>> /\ SchedFrame

Selectable == { t \in Tenant : pending[t] # <<>> /\ alive[t] /\ t \in eligible }

\* _select_tenant(skip_inactive): the scan advances the pointer itself.  Every
\* tenant with traffic is in the order, submit having put it there.
SelectTenant ==
  /\ schedPc = "SELECT_TENANT"
  /\ LET found == FirstOf(order, index, Selectable) IN
     \/ \E t \in found :
          /\ schedTenant' = t /\ command' = Head(pending[t])
          /\ index' = AdvanceToAfter(order, index, t)
          /\ schedPc' = "CHECK_TOKENS"
     \/ /\ found = {}
        /\ schedPc' = "LOST_CANDIDATE"
        /\ UNCHANGED <<schedTenant, command, index>>
  /\ UNCHANGED <<pending, tokens, eligible, woken, port, completed>> /\ SchedFrame

\* The debit and the pop, in the step that found the output ready.
PayAndTake ==
  /\ tokens' = Debited(schedTenant, command)
  /\ pending' = [pending EXCEPT ![schedTenant] = Tail(@)]
  /\ schedPc' = "ACQUIRE_PORT"

\* Fault: the tokens are debited as soon as they are checked, and again after
\* a stall for the output.
CheckTokensPaysTwice ==
  /\ schedPc = "CHECK_TOKENS"
  /\ \/ /\ CanPay(schedTenant, command) /\ outputReady
        /\ PayAndTake
     \/ /\ CanPay(schedTenant, command) /\ ~outputReady
        /\ schedPc' = "STALL_OUTPUT" /\ tokens' = Debited(schedTenant, command) /\ UNCHANGED pending
     \/ /\ ~CanPay(schedTenant, command)
        /\ schedPc' = "WAIT_TOKENS" /\ UNCHANGED <<tokens, pending>>
  /\ UNCHANGED <<index, eligible, woken, schedVars>> /\ SchedFrame

CheckTokens ==
  /\ schedPc = "CHECK_TOKENS"
  /\ \/ /\ CanPay(schedTenant, command) /\ outputReady
        /\ PayAndTake
     \/ /\ CanPay(schedTenant, command) /\ ~outputReady
        /\ schedPc' = "STALL_OUTPUT" /\ UNCHANGED <<tokens, pending>>
     \/ /\ ~CanPay(schedTenant, command)
        /\ schedPc' = "WAIT_TOKENS" /\ UNCHANGED <<tokens, pending>>
  /\ UNCHANGED <<index, eligible, woken, schedVars>> /\ SchedFrame

\* The retry after a stall for the output does not look at the tokens again.
OutputReadyAgain ==
  /\ schedPc = "STALL_OUTPUT" /\ outputReady
  /\ PayAndTake
  /\ UNCHANGED <<index, eligible, woken, schedVars>> /\ SchedFrame

RetryTokens ==
  /\ schedPc = "WAIT_TOKENS"
  /\ schedPc' = "SELECT_TENANT" /\ schedTenant' = None /\ command' = None
  /\ UNCHANGED <<pending, index, tokens, eligible, woken, port, completed>> /\ SchedFrame

AcquirePort ==
  /\ schedPc = "ACQUIRE_PORT" /\ port = "free"
  /\ port' = "held" /\ schedPc' = "EMIT"
  /\ UNCHANGED <<pending, index, tokens, eligible, woken, schedTenant, command, completed>> /\ SchedFrame

\* Fault: a tenant that died while the port was awaited loses the command
\* that was popped and paid for.
EmitUnlessDead ==
  /\ schedPc = "EMIT"
  /\ completed' = IF alive[schedTenant] THEN Append(completed, command) ELSE completed
  /\ port' = "releasing"
  /\ UNCHANGED <<pending, index, tokens>> /\ SchedFrame
  /\ Refresh({schedTenant})
  /\ schedPc' = IdleOutcome(eligible')
  /\ schedTenant' = None /\ command' = None

Emit ==
  /\ schedPc = "EMIT"
  /\ completed' = Append(completed, command)
  /\ port' = "releasing"
  /\ UNCHANGED <<pending, index, tokens>> /\ SchedFrame
  /\ Refresh({schedTenant})
  /\ schedPc' = IdleOutcome(eligible')
  /\ schedTenant' = None /\ command' = None

CompletionScheduler ==
  \/ LeaveIdle \/ SelectTenant \/ CheckTokens \/ OutputReadyAgain
  \/ RetryTokens \/ AcquirePort \/ Emit

ReleasePort ==
  /\ port = "releasing" /\ port' = "free"
  /\ UNCHANGED <<submitted, acceptVars, pending, orderVars, tokenVars, alive, outputReady,
                 eligible, schedPc, woken, schedTenant, command, completed>>

\* Fault: a refill makes tenants eligible and does not wake the scheduler.
RestoreBaseTokensNoWake ==
  /\ tokens' = baseTokens
  /\ UNCHANGED <<submitted, acceptVars, pending, orderVars, baseTokens, alive, outputReady,
                 schedPc, schedVars, woken>>
  /\ eligible' = { t \in Tenant : TenantEligible(t, alive, pending, tokens') }

\* A refill window: of its three phases only the restore touches shared state.
RestoreBaseTokens ==
  /\ tokens' = baseTokens
  /\ UNCHANGED <<submitted, acceptVars, pending, orderVars, baseTokens, alive, outputReady,
                 schedPc, schedVars>>
  /\ Refresh(Tenant)

-----------------------------------------------------------------------------
Host ==
  \/ \E c \in Command : c \in NextCommand(submitted) /\ Submit(c)
  \/ \E t \in Tenant, amount \in Grants, isAlive \in BOOLEAN :
       t \in LiveHost /\ ConfigureTenant(t, amount, isAlive, 1)
  \/ \E t \in LiveHost, isAlive \in BOOLEAN : SetTenantAlive(t, isAlive)
  \/ \E t \in Tenant, a \in Axis, amount \in Grants : CreditTokens(t, a, amount)
  \/ SetCompletionReady

Next == Host \/ AcceptProcess \/ CompletionScheduler \/ ReleasePort \/ RestoreBaseTokens

Spec == Init /\ [][Next]_vars

\* Every scheduled event runs; the refill process reaches its window again and
\* again when the constructor starts it.
Fairness ==
  /\ WF_vars(AcceptProcess) /\ WF_vars(CompletionScheduler)
  /\ WF_vars(ReleasePort) /\ WF_vars(RestoreBaseTokens)

FairSpec == Spec /\ Fairness

-----------------------------------------------------------------------------
(* What the component promises.                                             *)

Serving == schedPc \in {"CHECK_TOKENS", "WAIT_TOKENS", "STALL_OUTPUT"}
Emitting == schedPc \in {"ACQUIRE_PORT", "EMIT"}

HostTypes ==
  /\ submitted \in Seq(Command)
  /\ alive \in [Tenant -> BOOLEAN] /\ outputReady \in BOOLEAN
  /\ order \in Seq(Tenant) /\ index \in Nat

AcceptTypes ==
  /\ inputQ \in Seq(Command)
  /\ acceptPc \in {"RESET", "READY", "BACKPRESSURE", "ENQUEUE"}
  /\ accepting \in Command \cup {None}
  /\ accepting # None <=> acceptPc \in {"BACKPRESSURE", "ENQUEUE"}

TenantTypes ==
  /\ pending \in [Tenant -> Seq(Command)]
  /\ tokens \in [Tenant -> [Axis -> Int]] /\ baseTokens \in [Tenant -> [Axis -> Nat]]
  /\ eligible \subseteq Tenant

SchedTypes ==
  /\ schedPc \in {"ASLEEP", "LOST_CANDIDATE", "SELECT_TENANT", "CHECK_TOKENS", "WAIT_TOKENS",
                  "STALL_OUTPUT", "ACQUIRE_PORT", "EMIT"}
  /\ woken \in BOOLEAN /\ (woken => schedPc = "ASLEEP")
  /\ schedTenant \in Tenant \cup {None} /\ command \in Command \cup {None}
  /\ (schedTenant # None <=> Serving \/ Emitting) /\ (command # None <=> Serving \/ Emitting)
  /\ port \in {"free", "held", "releasing"} /\ (schedPc = "EMIT" => port = "held")
  /\ completed \in Seq(Command)

\* Every variable keeps its type, and the program counters determine which
\* locals of the processes are in use.
TypeOK == HostTypes /\ AcceptTypes /\ TenantTypes /\ SchedTypes

\* The eligible set, kept incrementally by five callers, is what a rescan
\* would compute; only the tenant whose command is on its way out, between its
\* debit and the end of its emit, is allowed to be behind.
EligibleSetIsCurrent ==
  \A t \in Tenant :
    \/ Emitting /\ schedTenant = t
    \/ (t \in eligible <=> TenantEligible(t, alive, pending, tokens))

\* No lost wake-up: a scheduler asleep with no wake event triggered leaves no
\* tenant that could be served.
NoLostWakeUp ==
  schedPc = "ASLEEP" /\ ~woken => \A t \in Tenant : ~TenantEligible(t, alive, pending, tokens)

\* The command read at SELECT_TENANT is still the head of its tenant's queue
\* when it is debited and popped, however long the output stalls.  (Here and in
\* the other components one invariant takes the type invariant along.)
SelectedHeadIsStable ==
  /\ TypeOK
  /\ Serving => pending[schedTenant] # <<>> /\ Head(pending[schedTenant]) = command

\* Emitted means paid for: no debit overdraws a tenant.
TokensNeverNegative == \A t \in Tenant, a \in Axis : tokens[t][a] >= 0

\* What a tenant has in hand and what its emissions cost add up: between two
\* grants or refills, tokens change by a debit alone, and a debit comes with
\* the pop of the command it pays for.
SpendsOnlyWhatItPops ==
  [][ \A t \in Tenant :
        (\E a \in Axis : tokens'[t][a] < tokens[t][a]) =>
          /\ pending[t] # <<>> /\ pending'[t] = Tail(pending[t])
          /\ \A a \in Axis : tokens[t][a] - tokens'[t][a]
                 = IF a \in Charged(Head(pending[t])) THEN Cost[KindOf[Head(pending[t])]][a] ELSE 0
    ]_<<tokens, pending>>

\* The component implements CompletionService: a command is being served from
\* its debit to its emission.
Service == INSTANCE CompletionService WITH
  inbox <- (IF accepting = None THEN <<>> ELSE <<accepting>>) \o inputQ,
  serving <- IF Emitting THEN command ELSE None
ServiceKept == Service!Spec

-----------------------------------------------------------------------------
(* Liveness.                                                                *)

Holds(s, c) == \E i \in DOMAIN s : s[i] = c
Affordable(c) == \A a \in Charged(c) : Cost[KindOf[c]][a] <= baseTokens[TenantOf[c]][a]

\* Once the output stays ready and the tenants alive, every submitted command
\* that its base tokens cover completes: neither a token stall, nor a full
\* queue, nor a tenant ahead of it keeps it back for ever.
EventuallyCompletes ==
  <>[](outputReady /\ \A t \in Tenant : alive[t]) /\ (\A c \in Command : []Affordable(c)) =>
    []<>(\A c \in Command : Holds(submitted, c) => Holds(completed, c))

=============================================================================
