-------------------------- MODULE Completion_proofs --------------------------
(***************************************************************************)
(* Proofs about the Completion IP: for any tenants, axes, costs, weights,  *)
(* depth and host, what its scheduler may rely on between its steps.       *)
(***************************************************************************)
EXTENDS Completion, SequenceTheorems, WellFoundedInduction, TLAPS

-----------------------------------------------------------------------------
(* What a scan of the weighted order returns.                               *)

\* A scan returns one of its candidates (common.py, scan).
LEMMA FirstOfIsCandidate ==
  ASSUME NEW turns, NEW place, NEW candidates
  PROVE  FirstOf(turns, place, candidates) \subseteq candidates
  BY DEF FirstOf

\* advance_to_after leaves a place of the order, or the index it found.
LEMMA AdvanceToAfterIsNat ==
  ASSUME NEW Name, NEW turns \in Seq(Name), NEW place \in Nat, NEW selected
  PROVE  AdvanceToAfter(turns, place, selected) \in Nat
<1>1. AfterFirst(turns, place, selected) \subseteq Nat
  <2>1. Len(turns) \in Nat
    OBVIOUS
  <2>2. ASSUME NEW k \in Offsets(turns)
        PROVE  ((place + k) % Len(turns)) + 1 \in Nat
    <3>1. Len(turns) > 0 /\ k \in Nat
      BY <2>1, <2>2 DEF Offsets
    <3>2. (place + k) % Len(turns) \in Nat
      BY <2>1, <3>1
    <3> QED
      BY <3>2
  <2> QED
    BY <2>2 DEF AfterFirst
<1>2. CASE AfterFirst(turns, place, selected) = {}
  BY <1>2 DEF AdvanceToAfter
<1>3. CASE AfterFirst(turns, place, selected) # {}
  BY <1>1, <1>3 DEF AdvanceToAfter
<1> QED
  BY <1>2, <1>3

\* There is a least natural number in every set of them that is not empty.
LEMMA LeastNat ==
  ASSUME NEW T, T \subseteq Nat, T # {}
  PROVE  \E n \in T : \A m \in T : n <= m
<1>1. PICK n \in T : \A m \in T : ~ (<<m, n>> \in OpToRel(<, Nat))
  BY NatLessThanWellFounded, WFMin
<1>2. ASSUME NEW m \in T
      PROVE  n <= m
  <2>1. <<m, n>> \notin OpToRel(<, Nat)
    BY <1>1
  <2>2. ~ (m < n)
    BY <2>1 DEF OpToRel
  <2>3. QED
    BY <2>2
<1>3. QED
  BY <1>2

LEMMA ModOnce ==
  ASSUME NEW L \in Nat, L > 0, NEW a \in Nat, a < 2 * L
  PROVE  a % L = IF a < L THEN a ELSE a - L
<1>1. CASE a < L
   BY <1>1
<1>2. CASE a >= L
   BY <1>2
<1>3. QED
   BY <1>1, <1>2

\* One turn over the order meets every place of it once.
LEMMA TurnMeetsAll ==
  ASSUME NEW Name, NEW turns \in Seq(Name), NEW place \in 0 .. Len(turns), NEW i \in 1 .. Len(turns)
  PROVE  \E k \in Offsets(turns) : Slot(turns, place, k) = turns[i]
<1> DEFINE L == Len(turns)
<1>1. L \in Nat /\ L > 0
  OBVIOUS
<1> HIDE DEF L
<1>2. PICK k \in 0 .. L - 1 : \/ place + k = i - 1 \/ place + k = i - 1 + L
  <2>1. CASE i - 1 >= place
    <3>1. i - 1 - place \in 0 .. L - 1 /\ place + (i - 1 - place) = i - 1
      BY <1>1, <2>1 DEF L
    <3>2. QED
      BY <3>1
  <2>2. CASE i - 1 < place
    <3>1. i - 1 + L - place \in 0 .. L - 1 /\ place + (i - 1 + L - place) = i - 1 + L
      BY <1>1, <2>2 DEF L
    <3>2. QED
      BY <3>1
  <2>3. QED
    BY <2>1, <2>2 DEF L
<1>3. place + k \in Nat /\ place + k < 2 * L /\ place \in Nat /\ i \in Nat /\ i - 1 < L /\ i - 1 >= 0
  BY <1>1 DEF L
<1>4. (place + k) % L = i - 1
  BY <1>1, <1>2, <1>3, ModOnce
<1>5. ((place + k) % L) + 1 = i
  BY <1>3, <1>4
<1>6. QED
  BY <1>5 DEF L, Offsets, Slot

\* The first of the places a turn meets that satisfy a condition, given as the
\* set of their distances.
LEMMA NearestPlace ==
  ASSUME NEW Name, NEW turns \in Seq(Name), NEW place \in 0 .. Len(turns), NEW candidates,
         NEW i \in 1 .. Len(turns), turns[i] \in candidates
  PROVE  \E k \in Offsets(turns) :
           /\ Slot(turns, place, k) \in candidates
           /\ \A j \in 0 .. k - 1 : Slot(turns, place, j) \notin candidates
<1> DEFINE met == { k \in Offsets(turns) : Slot(turns, place, k) \in candidates }
<1>1. met \subseteq Nat /\ met # {}
  <2>1. PICK k \in Offsets(turns) : Slot(turns, place, k) = turns[i]
    BY TurnMeetsAll
  <2>2. k \in met
    BY <2>1
  <2>3. met \subseteq Nat
    BY DEF Offsets
  <2>4. QED
    BY <2>2, <2>3
<1>2. PICK k \in met : \A j \in met : k <= j
  BY <1>1, LeastNat
<1>3. ASSUME NEW j \in 0 .. k - 1
      PROVE  Slot(turns, place, j) \notin candidates
  <2>1. j \in Offsets(turns) /\ ~ (k <= j)
    BY <1>1, <1>2, <1>3 DEF Offsets
  <2>2. QED
    BY <1>2, <2>1
<1>4. QED
  BY <1>2, <1>3

\* A scan returns the candidate whose next turn is nearest, and returns none only
\* if none of the candidates is in the order (common.py, scan).
LEMMA ScanFindsTheNearest ==
  ASSUME NEW Name, NEW turns \in Seq(Name), NEW place \in 0 .. Len(turns), NEW candidates,
         NEW k \in Offsets(turns), Slot(turns, place, k) \in candidates,
         \A j \in 0 .. k - 1 : Slot(turns, place, j) \notin candidates
  PROVE  FirstOf(turns, place, candidates) = {Slot(turns, place, k)}
<1>1. Slot(turns, place, k) \in FirstOf(turns, place, candidates)
  BY DEF FirstOf
<1>2. ASSUME NEW name \in FirstOf(turns, place, candidates)
      PROVE  name = Slot(turns, place, k)
  <2>1. PICK l \in Offsets(turns) : /\ Slot(turns, place, l) = name
                                    /\ \A j \in 0 .. l - 1 : Slot(turns, place, j) \notin candidates
    BY DEF FirstOf
  <2>2. name \in candidates /\ k \in Nat /\ l \in Nat
    BY DEF FirstOf, Offsets
  <2>3. ~ (l < k) /\ ~ (k < l)
    BY <2>1, <2>2
  <2>4. k = l
    BY <2>2, <2>3
  <2>5. QED
    BY <2>1, <2>4
<1>3. QED
  BY <1>1, <1>2

\* advance_to_after leaves the index behind the nearest turn of the name.
LEMMA AdvanceLeavesTheNearest ==
  ASSUME NEW Name, NEW turns \in Seq(Name), NEW place \in 0 .. Len(turns), NEW k \in Offsets(turns),
         \A j \in 0 .. k - 1 : Slot(turns, place, j) # Slot(turns, place, k)
  PROVE  AdvanceToAfter(turns, place, Slot(turns, place, k)) = ((place + k) % Len(turns)) + 1
<1> DEFINE name == Slot(turns, place, k)
<1>1. ((place + k) % Len(turns)) + 1 \in AfterFirst(turns, place, name)
  BY DEF AfterFirst
<1>2. ASSUME NEW i \in AfterFirst(turns, place, name)
      PROVE  i = ((place + k) % Len(turns)) + 1
  <2>1. PICK l \in Offsets(turns) : /\ i = ((place + l) % Len(turns)) + 1
                                    /\ Slot(turns, place, l) = name
                                    /\ \A j \in 0 .. l - 1 : Slot(turns, place, j) # name
    BY DEF AfterFirst
  <2>2. k \in Nat /\ l \in Nat
    BY DEF Offsets
  <2>3. ~ (l < k) /\ ~ (k < l)
    BY <2>1, <2>2
  <2>4. k = l
    BY <2>2, <2>3
  <2>5. QED
    BY <2>1, <2>4
<1>3. AfterFirst(turns, place, name) = {((place + k) % Len(turns)) + 1}
  BY <1>1, <1>2
<1>4. QED
  BY <1>3 DEF AdvanceToAfter
-----------------------------------------------------------------------------
(* Types, and the command the scheduler holds.                              *)

HeadIsStable == Serving => pending[schedTenant] # <<>> /\ Head(pending[schedTenant]) = command

\* The scheduler finds nothing to serve before RESET has cleared the queues.
ResetIsEmpty == acceptPc = "RESET" => \A t \in Tenant : pending[t] = <<>>

HeadInv == TypeOK /\ HeadIsStable /\ ResetIsEmpty

LEMMA HeadInit == Init => HeadInv
<1> SUFFICES ASSUME Init PROVE HeadInv
  OBVIOUS
<1> USE CompletionAssumption DEF Init
<1>1. HostTypes
  BY DEF HostTypes
<1>2. AcceptTypes
  BY DEF AcceptTypes
<1>3. InitialTokens \in [Tenant -> [Axis -> Int]]
  OBVIOUS
<1>4. TenantTypes
  BY <1>3 DEF TenantTypes
<1>5. SchedTypes
  <2>1. schedPc = "ASLEEP" /\ schedTenant = None /\ command = None /\ port = "free"
    OBVIOUS
  <2>2. ~Serving /\ ~Emitting
    BY <2>1 DEF Serving, Emitting
  <2>3. woken \in BOOLEAN /\ ~woken
    OBVIOUS
  <2>4. completed \in Seq(Command)
    OBVIOUS
  <2> QED BY <2>1, <2>2, <2>3, <2>4 DEF SchedTypes
<1>6. HeadIsStable /\ ResetIsEmpty
  BY DEF HeadIsStable, ResetIsEmpty, Serving
<1> QED BY <1>1, <1>2, <1>4, <1>5, <1>6 DEF HeadInv, TypeOK

LEMMA SeqHeadTail ==
  ASSUME NEW S, NEW s \in Seq(S), s # <<>>
  PROVE  Head(s) \in S /\ Tail(s) \in Seq(S)
OBVIOUS

\* The set and the wake-up a refresh leaves.
LEMMA RefreshTypes ==
  ASSUME NEW T \in SUBSET Tenant, eligible \subseteq Tenant, woken \in BOOLEAN, Refresh(T)
  PROVE  eligible' \subseteq Tenant /\ woken' \in BOOLEAN /\ (woken' => woken \/ schedPc = "ASLEEP")
BY DEF Refresh

LEMMA EnsureTenantTypes ==
  ASSUME order \in Seq(Tenant), index \in Nat, NEW t \in Tenant, NEW weight \in Nat,
         EnsureTenant(t, weight)
  PROVE  order' \in Seq(Tenant) /\ index' \in Nat
<1>1. [i \in 1 .. weight |-> t] \in Seq(Tenant)
  OBVIOUS
<1>2. order \o [i \in 1 .. weight |-> t] \in Seq(Tenant)
  BY <1>1
<1>3. CASE UNCHANGED orderVars
  BY <1>3 DEF orderVars
<1>4. CASE order' = order \o [i \in 1 .. weight |-> t] /\ index' = 0
  BY <1>2, <1>4
<1> QED BY <1>3, <1>4 DEF EnsureTenant

\* A step that keeps the scheduler's locals and place.
LEMMA SchedStays ==
  ASSUME SchedTypes, UNCHANGED schedVars, schedPc' = schedPc,
         woken' \in BOOLEAN, woken' => woken \/ schedPc = "ASLEEP"
  PROVE  SchedTypes'
BY DEF SchedTypes, schedVars, Serving, Emitting

\* The host's calls keep the types; they touch no queue.
LEMMA HostNext ==
  ASSUME TypeOK, Host
  PROVE  TypeOK' /\ pending' = pending /\ acceptPc' = acceptPc /\ UNCHANGED schedVars
         /\ schedPc' = schedPc
<1> USE DEF TypeOK
<1>1. ASSUME NEW c \in Command, Submit(c)
      PROVE  TypeOK' /\ pending' = pending /\ acceptPc' = acceptPc /\ UNCHANGED schedVars
             /\ schedPc' = schedPc
  <2>1. TenantOf[c] \in Tenant
    BY CompletionAssumption
  <2>2. order' \in Seq(Tenant) /\ index' \in Nat
    BY <1>1, <2>1, EnsureTenantTypes DEF Submit, HostTypes
  <2>3. submitted' \in Seq(Command) /\ inputQ' \in Seq(Command)
    BY <1>1 DEF Submit, HostTypes, AcceptTypes
  <2>4. HostTypes' /\ AcceptTypes'
    BY <1>1, <2>2, <2>3 DEF Submit, HostTypes, AcceptTypes
  <2>5. TenantTypes'
    BY <1>1 DEF Submit, TenantTypes, tokenVars
  <2>6. SchedTypes'
    BY <1>1, SchedStays DEF Submit, SchedTypes
  <2> QED BY <1>1, <2>4, <2>5, <2>6 DEF Submit
<1>2. ASSUME NEW t \in Tenant, NEW amount \in Grants, NEW isAlive \in BOOLEAN,
             ConfigureTenant(t, amount, isAlive, 1)
      PROVE  TypeOK' /\ pending' = pending /\ acceptPc' = acceptPc /\ UNCHANGED schedVars
             /\ schedPc' = schedPc
  <2>1. order' \in Seq(Tenant) /\ index' \in Nat
    BY <1>2, EnsureTenantTypes DEF ConfigureTenant, HostTypes
  <2>2. alive' \in [Tenant -> BOOLEAN]
    BY <1>2 DEF ConfigureTenant, HostTypes
  <2>3. amount \in Nat
    BY CompletionAssumption
  <2>4. tokens' \in [Tenant -> [Axis -> Int]] /\ baseTokens' \in [Tenant -> [Axis -> Nat]]
    BY <1>2, <2>3 DEF ConfigureTenant, TenantTypes
  <2>5. eligible' \subseteq Tenant /\ woken' \in BOOLEAN /\ (woken' => woken \/ schedPc = "ASLEEP")
    BY <1>2, RefreshTypes DEF ConfigureTenant, TenantTypes, SchedTypes
  <2>6. HostTypes' /\ AcceptTypes'
    BY <1>2, <2>1, <2>2 DEF ConfigureTenant, HostTypes, AcceptTypes, acceptVars
  <2>7. TenantTypes'
    BY <1>2, <2>4, <2>5 DEF ConfigureTenant, TenantTypes
  <2>8. SchedTypes'
    BY <1>2, <2>5, SchedStays DEF ConfigureTenant
  <2> QED BY <1>2, <2>6, <2>7, <2>8 DEF ConfigureTenant, acceptVars
<1>3. ASSUME NEW t \in LiveHost, NEW isAlive \in BOOLEAN, SetTenantAlive(t, isAlive)
      PROVE  TypeOK' /\ pending' = pending /\ acceptPc' = acceptPc /\ UNCHANGED schedVars
             /\ schedPc' = schedPc
  <2>1. t \in Tenant
    BY CompletionAssumption
  <2>2. alive' \in [Tenant -> BOOLEAN]
    BY <1>3, <2>1 DEF SetTenantAlive, HostTypes
  <2>3. eligible' \subseteq Tenant /\ woken' \in BOOLEAN /\ (woken' => woken \/ schedPc = "ASLEEP")
    BY <1>3, <2>1, RefreshTypes DEF SetTenantAlive, TenantTypes, SchedTypes
  <2>4. HostTypes' /\ AcceptTypes' /\ TenantTypes'
    BY <1>3, <2>2, <2>3
    DEF SetTenantAlive, HostTypes, AcceptTypes, TenantTypes, acceptVars, tokenVars, orderVars
  <2>5. SchedTypes'
    BY <1>3, <2>3, SchedStays DEF SetTenantAlive
  <2> QED BY <1>3, <2>4, <2>5 DEF SetTenantAlive, acceptVars
<1>4. ASSUME NEW t \in Tenant, NEW a \in Axis, NEW amount \in Grants, CreditTokens(t, a, amount)
      PROVE  TypeOK' /\ pending' = pending /\ acceptPc' = acceptPc /\ UNCHANGED schedVars
             /\ schedPc' = schedPc
  <2>1. amount \in Int
    BY CompletionAssumption
  <2>2. tokens' \in [Tenant -> [Axis -> Int]]
    BY <1>4, <2>1 DEF CreditTokens, TenantTypes
  <2>3. eligible' \subseteq Tenant /\ woken' \in BOOLEAN /\ (woken' => woken \/ schedPc = "ASLEEP")
    BY <1>4, RefreshTypes DEF CreditTokens, TenantTypes, SchedTypes
  <2>4. HostTypes' /\ AcceptTypes' /\ TenantTypes'
    BY <1>4, <2>2, <2>3
    DEF CreditTokens, HostTypes, AcceptTypes, TenantTypes, acceptVars, orderVars
  <2>5. SchedTypes'
    BY <1>4, <2>3, SchedStays DEF CreditTokens
  <2> QED BY <1>4, <2>4, <2>5 DEF CreditTokens, acceptVars
<1>5. ASSUME SetCompletionReady
      PROVE  TypeOK' /\ pending' = pending /\ acceptPc' = acceptPc /\ UNCHANGED schedVars
             /\ schedPc' = schedPc
  <2>1. outputReady' \in BOOLEAN
    BY <1>5 DEF SetCompletionReady
  <2>2. HostTypes' /\ AcceptTypes' /\ TenantTypes'
    BY <1>5, <2>1
    DEF SetCompletionReady, HostTypes, AcceptTypes, TenantTypes, acceptVars, orderVars, tokenVars
  <2>3. SchedTypes'
    BY <1>5, SchedStays DEF SetCompletionReady, SchedTypes
  <2> QED BY <1>5, <2>2, <2>3 DEF SetCompletionReady, acceptVars
<1> QED BY <1>1, <1>2, <1>3, <1>4, <1>5 DEF Host

\* accept_process moves a command to the end of its queue.
LEMMA AcceptNext ==
  ASSUME HeadInv, AcceptProcess
  PROVE  HeadInv'
<1> USE DEF HeadInv, TypeOK, AcceptFrame
<1>1. CASE ResetDone
  <2>1. ~Serving
    BY <1>1 DEF ResetDone, HeadIsStable, ResetIsEmpty, SchedTypes, Serving, Emitting
  <2>2. pending' = [t \in Tenant |-> <<>>] /\ completed' = <<>> /\ acceptPc' = "READY"
        /\ accepting' = accepting /\ inputQ' = inputQ /\ UNCHANGED <<schedTenant, command, port, schedPc>>
        /\ UNCHANGED <<submitted, orderVars, tokenVars, alive, outputReady>>
    BY <1>1 DEF ResetDone
  <2>3. eligible' \subseteq Tenant /\ woken' \in BOOLEAN /\ (woken' => woken \/ schedPc = "ASLEEP")
    BY <1>1, RefreshTypes DEF ResetDone, TenantTypes, SchedTypes
  <2>4. HostTypes' /\ AcceptTypes'
    BY <1>1, <2>2 DEF ResetDone, HostTypes, AcceptTypes, orderVars
  <2>5. TenantTypes'
    BY <2>2, <2>3 DEF TenantTypes, tokenVars
  <2>6. SchedTypes'
    BY <2>2, <2>3 DEF SchedTypes, Serving, Emitting
  <2>7. HeadIsStable' /\ ResetIsEmpty'
    BY <2>1, <2>2 DEF HeadIsStable, ResetIsEmpty, Serving
  <2> QED BY <2>4, <2>5, <2>6, <2>7
<1>2. CASE TakeCommand
  <2>1. accepting' \in Command /\ inputQ' \in Seq(Command) /\ acceptPc = "READY"
        /\ acceptPc' \in {"BACKPRESSURE", "ENQUEUE"}
    BY <1>2, SeqHeadTail DEF TakeCommand, AcceptTypes
  <2>2. /\ UNCHANGED <<pending, eligible, woken, schedVars, schedPc>>
        /\ UNCHANGED <<submitted, orderVars, tokenVars, alive, outputReady>>
    BY <1>2 DEF TakeCommand
  <2>3. AcceptTypes'
    BY <2>1, CompletionAssumption DEF AcceptTypes
  <2>4. HostTypes' /\ TenantTypes'
    BY <2>2 DEF HostTypes, TenantTypes, orderVars, tokenVars
  <2>5. SchedTypes'
    BY <2>2, SchedStays DEF SchedTypes
  <2>6. HeadIsStable' /\ ResetIsEmpty'
    BY <2>1, <2>2 DEF HeadIsStable, ResetIsEmpty, Serving, schedVars
  <2> QED BY <2>3, <2>4, <2>5, <2>6
<1>3. CASE SpaceAvailable
  <2>1. acceptPc = "BACKPRESSURE" /\ acceptPc' = "ENQUEUE" /\ accepting' = accepting
        /\ inputQ' = inputQ
    BY <1>3 DEF SpaceAvailable
  <2>2. /\ UNCHANGED <<pending, eligible, woken, schedVars, schedPc>>
        /\ UNCHANGED <<submitted, orderVars, tokenVars, alive, outputReady>>
    BY <1>3 DEF SpaceAvailable
  <2>3. AcceptTypes'
    BY <2>1 DEF AcceptTypes
  <2>4. HostTypes' /\ TenantTypes'
    BY <2>2 DEF HostTypes, TenantTypes, orderVars, tokenVars
  <2>5. SchedTypes'
    BY <2>2, SchedStays DEF SchedTypes
  <2>6. HeadIsStable' /\ ResetIsEmpty'
    BY <2>1, <2>2 DEF HeadIsStable, ResetIsEmpty, Serving, schedVars
  <2> QED BY <2>3, <2>4, <2>5, <2>6
<1>4. CASE EnqueueDone
  <2> DEFINE t == TenantOf[accepting]
  <2>1. accepting \in Command /\ t \in Tenant
    BY <1>4, CompletionAssumption DEF EnqueueDone, AcceptTypes
  <2>2. /\ pending' = [pending EXCEPT ![t] = Append(@, accepting)]
        /\ accepting' = None /\ acceptPc' = "READY" /\ inputQ' = inputQ
        /\ UNCHANGED <<schedVars, schedPc>>
        /\ UNCHANGED <<submitted, orderVars, tokenVars, alive, outputReady>>
    BY <1>4 DEF EnqueueDone
  <2>3. eligible' \subseteq Tenant /\ woken' \in BOOLEAN /\ (woken' => woken \/ schedPc = "ASLEEP")
    BY <1>4, <2>1, RefreshTypes DEF EnqueueDone, TenantTypes, SchedTypes
  <2>4. pending' \in [Tenant -> Seq(Command)]
    BY <2>1, <2>2 DEF TenantTypes
  <2>5. HostTypes' /\ AcceptTypes' /\ TenantTypes'
    BY <2>2, <2>3, <2>4 DEF HostTypes, AcceptTypes, TenantTypes, orderVars, tokenVars
  <2>6. SchedTypes'
    BY <2>2, <2>3, SchedStays DEF SchedTypes
  <2>7. ASSUME NEW u \in Tenant, pending[u] # <<>>
        PROVE  pending'[u] # <<>> /\ Head(pending'[u]) = Head(pending[u])
    <3>1. CASE u = t
      <4>1. pending'[u] = Append(pending[u], accepting) /\ pending[u] \in Seq(Command)
        BY <2>2, <3>1 DEF TenantTypes
      <4> QED BY <2>1, <2>7, <4>1
    <3>2. CASE u # t
      BY <2>2, <2>7, <3>2 DEF TenantTypes
    <3> QED BY <3>1, <3>2
  <2>8. HeadIsStable'
    BY <2>2, <2>7 DEF HeadIsStable, SchedTypes, Serving, Emitting, schedVars
  <2>9. ResetIsEmpty'
    BY <2>2 DEF ResetIsEmpty
  <2> QED BY <2>5, <2>6, <2>8, <2>9
<1> QED BY <1>1, <1>2, <1>3, <1>4 DEF AcceptProcess

\* What the debit and the pop of the command in hand leave.
LEMMA PayAndTakeTypes ==
  ASSUME HeadInv, Serving, PayAndTake
  PROVE  /\ pending' \in [Tenant -> Seq(Command)] /\ tokens' \in [Tenant -> [Axis -> Int]]
         /\ acceptPc # "RESET" /\ schedTenant \in Tenant /\ command \in Command
<1> USE DEF HeadInv, TypeOK
<1>1. schedTenant \in Tenant /\ command \in Command
  BY DEF SchedTypes
<1>2. Tail(pending[schedTenant]) \in Seq(Command)
  BY <1>1, SeqHeadTail DEF HeadIsStable, TenantTypes
<1>3. pending' \in [Tenant -> Seq(Command)]
  BY <1>1, <1>2 DEF PayAndTake, TenantTypes
<1>4. \A a \in Charged(command) : Cost[KindOf[command]][a] \in Nat
  BY <1>1, CompletionAssumption DEF Charged
<1>5. [a \in Axis |-> tokens[schedTenant][a]
         - (IF a \in Charged(command) THEN Cost[KindOf[command]][a] ELSE 0)] \in [Axis -> Int]
  BY <1>1, <1>4 DEF TenantTypes
<1>6. tokens' \in [Tenant -> [Axis -> Int]]
  BY <1>1, <1>5 DEF PayAndTake, Debited, TenantTypes
<1>7. acceptPc # "RESET"
  BY <1>1 DEF HeadIsStable, ResetIsEmpty
<1> QED BY <1>1, <1>3, <1>6, <1>7

\* A scheduler's step leaves the host's and accept_process's state alone.
LEMMA SchedFrameTypes ==
  ASSUME HeadInv, SchedFrame, index' \in Nat, eligible' \subseteq Tenant,
         pending' \in [Tenant -> Seq(Command)], tokens' \in [Tenant -> [Axis -> Int]]
  PROVE  HostTypes' /\ AcceptTypes' /\ TenantTypes' /\ acceptPc' = acceptPc
BY DEF HeadInv, TypeOK, SchedFrame, acceptVars, HostTypes, AcceptTypes, TenantTypes

\* The scheduler's steps: it keeps a tenant and its head from the selection to
\* the debit, and nobody else pops.
LEMMA SchedNext ==
  ASSUME HeadInv, CompletionScheduler
  PROVE  HeadInv'
<1> USE DEF HeadInv
<1>t. /\ index \in Nat /\ order \in Seq(Tenant) /\ eligible \subseteq Tenant
      /\ pending \in [Tenant -> Seq(Command)] /\ tokens \in [Tenant -> [Axis -> Int]]
      /\ completed \in Seq(Command) /\ None \notin Command /\ None \notin Tenant
  BY CompletionAssumption DEF TypeOK, HostTypes, TenantTypes, SchedTypes
<1>1. CASE LeaveIdle
  <2>1. /\ schedPc \in {"ASLEEP", "LOST_CANDIDATE"} /\ schedPc' \in {"ASLEEP", "SELECT_TENANT"}
        /\ ~woken' /\ woken' \in BOOLEAN
        /\ UNCHANGED <<pending, index, tokens, eligible, schedTenant, command, port, completed>>
    BY <1>1 DEF LeaveIdle, IdleOutcome, schedVars
  <2>2. HostTypes' /\ AcceptTypes' /\ TenantTypes' /\ acceptPc' = acceptPc
    BY <1>1, <1>t, <2>1, SchedFrameTypes DEF LeaveIdle
  <2>3. SchedTypes'
    BY <2>1 DEF TypeOK, SchedTypes, Serving, Emitting
  <2>4. HeadIsStable' /\ ResetIsEmpty'
    BY <2>1, <2>2 DEF HeadIsStable, ResetIsEmpty, Serving
  <2> QED BY <2>2, <2>3, <2>4 DEF TypeOK
<1>2. CASE SelectTenant
  <2> DEFINE found == FirstOf(order, index, Selectable)
  <2>1. CASE found = {}
    <3>1. /\ schedPc = "SELECT_TENANT" /\ schedPc' = "LOST_CANDIDATE"
          /\ UNCHANGED <<pending, index, tokens, eligible, woken, schedTenant, command, port, completed>>
      BY <1>2, <2>1 DEF SelectTenant
    <3>2. HostTypes' /\ AcceptTypes' /\ TenantTypes' /\ acceptPc' = acceptPc
      BY <1>2, <1>t, <3>1, SchedFrameTypes DEF SelectTenant
    <3>3. SchedTypes'
      BY <3>1 DEF TypeOK, SchedTypes, Serving, Emitting
    <3>4. HeadIsStable' /\ ResetIsEmpty'
      BY <3>1, <3>2 DEF HeadIsStable, ResetIsEmpty, Serving
    <3> QED BY <3>2, <3>3, <3>4 DEF TypeOK
  <2>2. CASE found # {}
    <3>1. PICK t \in found : /\ schedTenant' = t /\ command' = Head(pending[t])
                             /\ index' = AdvanceToAfter(order, index, t)
                             /\ schedPc' = "CHECK_TOKENS"
      BY <1>2, <2>2 DEF SelectTenant
    <3>2. t \in Tenant /\ pending[t] # <<>>
      BY FirstOfIsCandidate DEF Selectable
    <3>3. Head(pending[t]) \in Command
      BY <1>t, <3>2, SeqHeadTail
    <3>4. index' \in Nat
      BY <1>t, <3>1, AdvanceToAfterIsNat
    <3>5. schedPc = "SELECT_TENANT" /\ UNCHANGED <<pending, tokens, eligible, woken, port, completed>>
      BY <1>2 DEF SelectTenant
    <3>6. HostTypes' /\ AcceptTypes' /\ TenantTypes' /\ acceptPc' = acceptPc
      BY <1>2, <1>t, <3>4, <3>5, SchedFrameTypes DEF SelectTenant
    <3>7. SchedTypes'
      BY <1>t, <3>1, <3>2, <3>3, <3>5 DEF TypeOK, SchedTypes, Serving, Emitting
    <3>8. HeadIsStable' /\ ResetIsEmpty'
      BY <3>1, <3>2, <3>5, <3>6 DEF HeadIsStable, ResetIsEmpty
    <3> QED BY <3>6, <3>7, <3>8 DEF TypeOK
  <2> QED BY <2>1, <2>2
<1>3. ASSUME PayAndTake, Serving, SchedFrame, UNCHANGED <<index, eligible, woken, schedVars>>
      PROVE  HeadInv'
  <2>1. /\ pending' \in [Tenant -> Seq(Command)] /\ tokens' \in [Tenant -> [Axis -> Int]]
        /\ acceptPc # "RESET"
    BY <1>3, PayAndTakeTypes
  <2>2. HostTypes' /\ AcceptTypes' /\ TenantTypes' /\ acceptPc' = acceptPc
    BY <1>3, <1>t, <2>1, SchedFrameTypes
  <2>3. schedPc' = "ACQUIRE_PORT" /\ UNCHANGED <<woken, schedTenant, command, port, completed>>
    BY <1>3 DEF PayAndTake, schedVars
  <2>4. SchedTypes'
    BY <1>3, <2>3 DEF TypeOK, SchedTypes, Serving, Emitting
  <2>5. HeadIsStable' /\ ResetIsEmpty'
    BY <2>1, <2>2, <2>3 DEF HeadIsStable, ResetIsEmpty, Serving
  <2> QED BY <2>2, <2>4, <2>5 DEF TypeOK
<1>4. CASE CheckTokens
  <2>1. CASE PayAndTake
    BY <1>3, <1>4, <2>1 DEF CheckTokens, Serving
  <2>2. CASE schedPc' \in {"STALL_OUTPUT", "WAIT_TOKENS"} /\ UNCHANGED <<tokens, pending>>
    <3>1. schedPc = "CHECK_TOKENS"
          /\ UNCHANGED <<index, eligible, woken, schedTenant, command, port, completed>>
      BY <1>4 DEF CheckTokens, schedVars
    <3>2. HostTypes' /\ AcceptTypes' /\ TenantTypes' /\ acceptPc' = acceptPc
      BY <1>4, <1>t, <2>2, <3>1, SchedFrameTypes DEF CheckTokens
    <3>3. SchedTypes'
      BY <2>2, <3>1 DEF TypeOK, SchedTypes, Serving, Emitting
    <3>4. HeadIsStable' /\ ResetIsEmpty'
      BY <2>2, <3>1, <3>2 DEF HeadIsStable, ResetIsEmpty, Serving
    <3> QED BY <3>2, <3>3, <3>4 DEF TypeOK
  <2> QED BY <1>4, <2>1, <2>2 DEF CheckTokens
<1>5. CASE OutputReadyAgain
  BY <1>3, <1>5 DEF OutputReadyAgain, Serving
<1>6. CASE RetryTokens
  <2>1. /\ schedPc = "WAIT_TOKENS" /\ schedPc' = "SELECT_TENANT" /\ schedTenant' = None
        /\ command' = None /\ UNCHANGED <<pending, index, tokens, eligible, woken, port, completed>>
    BY <1>6 DEF RetryTokens
  <2>2. HostTypes' /\ AcceptTypes' /\ TenantTypes' /\ acceptPc' = acceptPc
    BY <1>6, <1>t, <2>1, SchedFrameTypes DEF RetryTokens
  <2>3. SchedTypes'
    BY <2>1 DEF TypeOK, SchedTypes, Serving, Emitting
  <2>4. HeadIsStable' /\ ResetIsEmpty'
    BY <2>1, <2>2 DEF HeadIsStable, ResetIsEmpty, Serving
  <2> QED BY <2>2, <2>3, <2>4 DEF TypeOK
<1>7. CASE AcquirePort
  <2>1. /\ schedPc = "ACQUIRE_PORT" /\ schedPc' = "EMIT" /\ port' = "held"
        /\ UNCHANGED <<pending, index, tokens, eligible, woken, schedTenant, command, completed>>
    BY <1>7 DEF AcquirePort
  <2>2. HostTypes' /\ AcceptTypes' /\ TenantTypes' /\ acceptPc' = acceptPc
    BY <1>7, <1>t, <2>1, SchedFrameTypes DEF AcquirePort
  <2>3. SchedTypes'
    BY <2>1 DEF TypeOK, SchedTypes, Serving, Emitting
  <2>4. HeadIsStable' /\ ResetIsEmpty'
    BY <2>1, <2>2 DEF HeadIsStable, ResetIsEmpty, Serving
  <2> QED BY <2>2, <2>3, <2>4 DEF TypeOK
<1>8. CASE Emit
  <2>1. schedTenant \in Tenant /\ command \in Command /\ ~woken
    BY <1>8 DEF Emit, TypeOK, SchedTypes, Serving, Emitting
  <2>2. eligible' \subseteq Tenant /\ woken' \in BOOLEAN /\ ~woken'
    BY <1>8, <1>t, <2>1, RefreshTypes DEF Emit, TypeOK, SchedTypes
  <2>3. /\ completed' \in Seq(Command) /\ port' = "releasing" /\ schedTenant' = None
        /\ command' = None /\ schedPc' \in {"ASLEEP", "SELECT_TENANT"}
        /\ UNCHANGED <<pending, index, tokens>>
    BY <1>8, <1>t, <2>1 DEF Emit, IdleOutcome
  <2>4. HostTypes' /\ AcceptTypes' /\ TenantTypes' /\ acceptPc' = acceptPc
    BY <1>8, <1>t, <2>2, <2>3, SchedFrameTypes DEF Emit
  <2>5. SchedTypes'
    BY <2>2, <2>3 DEF SchedTypes, Serving, Emitting
  <2>6. HeadIsStable' /\ ResetIsEmpty'
    BY <2>3, <2>4 DEF HeadIsStable, ResetIsEmpty, Serving
  <2> QED BY <2>4, <2>5, <2>6 DEF TypeOK
<1> QED BY <1>1, <1>2, <1>4, <1>5, <1>6, <1>7, <1>8 DEF CompletionScheduler

LEMMA HeadNext == HeadInv /\ [Next]_vars => HeadInv'
<1> SUFFICES ASSUME HeadInv, [Next]_vars PROVE HeadInv'
  OBVIOUS
<1>1. CASE Host
  <2>1. TypeOK' /\ pending' = pending /\ acceptPc' = acceptPc /\ UNCHANGED schedVars
        /\ schedPc' = schedPc
    BY <1>1, HostNext DEF HeadInv
  <2> QED BY <2>1 DEF HeadInv, HeadIsStable, ResetIsEmpty, Serving, schedVars
<1>2. CASE AcceptProcess
  BY <1>2, AcceptNext
<1>3. CASE CompletionScheduler
  BY <1>3, SchedNext
<1>4. CASE ReleasePort
  <2>1. port = "releasing" /\ port' = "free" /\ UNCHANGED <<schedTenant, command, completed, schedPc>>
        /\ UNCHANGED <<submitted, acceptVars, pending, orderVars, tokenVars, alive, outputReady,
                       eligible, woken>>
    BY <1>4 DEF ReleasePort
  <2>2. SchedTypes'
    BY <2>1 DEF HeadInv, TypeOK, SchedTypes, Serving, Emitting
  <2>3. HostTypes' /\ AcceptTypes' /\ TenantTypes'
    BY <2>1 DEF HeadInv, TypeOK, HostTypes, AcceptTypes, TenantTypes, acceptVars, orderVars, tokenVars
  <2>4. HeadIsStable' /\ ResetIsEmpty'
    BY <2>1 DEF HeadInv, HeadIsStable, ResetIsEmpty, Serving, acceptVars
  <2> QED BY <2>2, <2>3, <2>4 DEF HeadInv, TypeOK
<1>5. CASE RestoreBaseTokens
  <2>1. eligible' \subseteq Tenant /\ woken' \in BOOLEAN /\ (woken' => woken \/ schedPc = "ASLEEP")
    BY <1>5, RefreshTypes DEF RestoreBaseTokens, HeadInv, TypeOK, TenantTypes, SchedTypes
  <2>2. tokens' \in [Tenant -> [Axis -> Int]]
    <3>1. baseTokens \in [Tenant -> [Axis -> Int]]
      BY DEF HeadInv, TypeOK, TenantTypes
    <3> QED BY <1>5, <3>1 DEF RestoreBaseTokens
  <2>3. HostTypes' /\ AcceptTypes' /\ TenantTypes'
    BY <1>5, <2>1, <2>2
    DEF RestoreBaseTokens, HeadInv, TypeOK, HostTypes, AcceptTypes, TenantTypes, acceptVars, orderVars
  <2>4. SchedTypes'
    BY <1>5, <2>1, SchedStays DEF RestoreBaseTokens, HeadInv, TypeOK
  <2>5. HeadIsStable' /\ ResetIsEmpty'
    BY <1>5 DEF RestoreBaseTokens, HeadInv, HeadIsStable, ResetIsEmpty, Serving, acceptVars, schedVars
  <2> QED BY <2>3, <2>4, <2>5 DEF HeadInv, TypeOK
<1>6. CASE UNCHANGED vars
  BY <1>6 DEF vars, acceptVars, orderVars, tokenVars, schedVars, HeadInv, TypeOK, HostTypes,
              AcceptTypes, TenantTypes, SchedTypes, HeadIsStable, ResetIsEmpty, Serving, Emitting
<1> QED BY <1>1, <1>2, <1>3, <1>4, <1>5, <1>6 DEF Next

\* The command read at SELECT_TENANT is still its queue's head when it is popped,
\* across the checks and the stall for the output.
THEOREM SelectionStands == Spec => []SelectedHeadIsStable
<1>1. HeadInv => SelectedHeadIsStable
  BY DEF HeadInv, HeadIsStable, SelectedHeadIsStable
<1> QED BY <1>1, HeadInit, HeadNext, PTL DEF Spec

-----------------------------------------------------------------------------
(* The eligible set, and the wake-up.                                       *)

\* A tenant the eligible set may be behind on, and only while its command is on
\* its way out.
Away(t) == Emitting /\ schedTenant = t

\* A refresh makes the set current for its tenants; the others are as before.
LEMMA RefreshKeepsCurrent ==
  ASSUME EligibleSetIsCurrent, NEW T \in SUBSET Tenant, Refresh(T),
         \A t \in Tenant \ T :
           /\ alive'[t] = alive[t] /\ pending'[t] = pending[t] /\ tokens'[t] = tokens[t]
           /\ Away(t) => Away(t)'
  PROVE  EligibleSetIsCurrent'
<1> SUFFICES ASSUME NEW t \in Tenant
             PROVE  Away(t)' \/ (t \in eligible' <=> TenantEligible(t, alive', pending', tokens'))
  BY DEF EligibleSetIsCurrent, Away
<1>1. eligible' = (eligible \ T) \cup { u \in T : TenantEligible(u, alive', pending', tokens') }
  BY DEF Refresh
<1>2. CASE t \in T
  BY <1>1, <1>2
<1>3. CASE t \notin T
  <2>1. Away(t) \/ (t \in eligible <=> TenantEligible(t, alive, pending, tokens))
    BY DEF EligibleSetIsCurrent, Away
  <2>2. TenantEligible(t, alive', pending', tokens') <=> TenantEligible(t, alive, pending, tokens)
    BY <1>3 DEF TenantEligible
  <2>3. t \in eligible' <=> t \in eligible
    BY <1>1, <1>3
  <2> QED BY <1>3, <2>1, <2>2, <2>3
<1> QED BY <1>2, <1>3

\* A step without a refresh changes none of what eligibility depends on, but
\* for a tenant that is away after it.
LEMMA KeepsCurrent ==
  ASSUME EligibleSetIsCurrent, eligible' = eligible,
         \A t \in Tenant :
           \/ Away(t)'
           \/ /\ alive'[t] = alive[t] /\ pending'[t] = pending[t] /\ tokens'[t] = tokens[t]
              /\ Away(t) => Away(t)'
  PROVE  EligibleSetIsCurrent'
<1> SUFFICES ASSUME NEW t \in Tenant, ~Away(t)'
             PROVE  t \in eligible' <=> TenantEligible(t, alive', pending', tokens')
  BY DEF EligibleSetIsCurrent, Away
<1>1. t \in eligible <=> TenantEligible(t, alive, pending, tokens)
  BY DEF EligibleSetIsCurrent, Away
<1> QED BY <1>1 DEF TenantEligible

\* Every caller that changes what eligibility depends on refreshes the tenants
\* it touches.
LEMMA CurrentNext == HeadInv /\ EligibleSetIsCurrent /\ [Next]_vars => EligibleSetIsCurrent'
<1> SUFFICES ASSUME HeadInv, EligibleSetIsCurrent, [Next]_vars PROVE EligibleSetIsCurrent'
  OBVIOUS
<1>t. /\ alive \in [Tenant -> BOOLEAN] /\ pending \in [Tenant -> Seq(Command)]
      /\ tokens \in [Tenant -> [Axis -> Int]] /\ LiveHost \subseteq Tenant
      /\ schedTenant # None <=> Serving \/ Emitting
      /\ schedTenant \in Tenant \cup {None} /\ None \notin Tenant
      /\ accepting \in Command \cup {None}
      /\ accepting # None <=> acceptPc \in {"BACKPRESSURE", "ENQUEUE"}
  BY CompletionAssumption DEF HeadInv, TypeOK, HostTypes, AcceptTypes, TenantTypes, SchedTypes
<1> USE DEF AcceptFrame, SchedFrame, acceptVars, orderVars, tokenVars, schedVars
<1>1. ASSUME NEW c \in Command, Submit(c) PROVE EligibleSetIsCurrent'
  BY <1>1, KeepsCurrent DEF Submit, Away, Emitting
<1>2. ASSUME NEW t \in Tenant, NEW amount \in Grants, NEW isAlive \in BOOLEAN,
             ConfigureTenant(t, amount, isAlive, 1)
      PROVE  EligibleSetIsCurrent'
  <2>1. Refresh({t}) /\ UNCHANGED <<pending, schedPc, schedTenant>>
    BY <1>2 DEF ConfigureTenant
  <2>2. \A u \in Tenant \ {t} : alive'[u] = alive[u] /\ tokens'[u] = tokens[u]
    BY <1>2, <1>t DEF ConfigureTenant
  <2> QED BY <2>1, <2>2, RefreshKeepsCurrent DEF Away, Emitting
<1>3. ASSUME NEW t \in LiveHost, NEW isAlive \in BOOLEAN, SetTenantAlive(t, isAlive)
      PROVE  EligibleSetIsCurrent'
  <2>1. Refresh({t}) /\ UNCHANGED <<pending, tokens, schedPc, schedTenant>>
    BY <1>3 DEF SetTenantAlive
  <2>2. \A u \in Tenant \ {t} : alive'[u] = alive[u]
    BY <1>3, <1>t DEF SetTenantAlive
  <2> QED BY <1>t, <2>1, <2>2, RefreshKeepsCurrent DEF Away, Emitting
<1>4. ASSUME NEW t \in Tenant, NEW a \in Axis, NEW amount \in Grants, CreditTokens(t, a, amount)
      PROVE  EligibleSetIsCurrent'
  <2>1. Refresh({t}) /\ UNCHANGED <<pending, alive, schedPc, schedTenant>>
    BY <1>4 DEF CreditTokens
  <2>2. \A u \in Tenant \ {t} : tokens'[u] = tokens[u]
    BY <1>4, <1>t DEF CreditTokens
  <2> QED BY <2>1, <2>2, RefreshKeepsCurrent DEF Away, Emitting
<1>5. CASE SetCompletionReady
  BY <1>5, KeepsCurrent DEF SetCompletionReady, Away, Emitting
<1>6. CASE ResetDone
  <2>1. Refresh(Tenant)
    BY <1>6 DEF ResetDone
  <2> QED BY <2>1, RefreshKeepsCurrent
<1>7. CASE TakeCommand \/ SpaceAvailable
  BY <1>7, KeepsCurrent DEF TakeCommand, SpaceAvailable, Away, Emitting
<1>8. CASE EnqueueDone
  <2> DEFINE t == TenantOf[accepting]
  <2>1. t \in Tenant
    BY <1>8, <1>t, CompletionAssumption DEF EnqueueDone
  <2>2. Refresh({t}) /\ UNCHANGED <<alive, tokens, schedPc, schedTenant>>
    BY <1>8 DEF EnqueueDone
  <2>3. \A u \in Tenant \ {t} : pending'[u] = pending[u]
    BY <1>8, <1>t DEF EnqueueDone
  <2> QED BY <2>1, <2>2, <2>3, RefreshKeepsCurrent DEF Away, Emitting
<1>9. CASE LeaveIdle
  <2>1. ~Emitting /\ UNCHANGED <<pending, alive, tokens, eligible>>
    BY <1>9 DEF LeaveIdle, Emitting
  <2> QED BY <2>1, KeepsCurrent DEF Away
<1>10. CASE SelectTenant
  <2>1. ~Emitting /\ UNCHANGED <<pending, alive, tokens, eligible>>
    BY <1>10 DEF SelectTenant, Emitting
  <2> QED BY <2>1, KeepsCurrent DEF Away
<1>11. ASSUME PayAndTake, Serving, alive' = alive, eligible' = eligible, schedTenant' = schedTenant
       PROVE  EligibleSetIsCurrent'
  <2>1. schedTenant \in Tenant /\ ~Emitting /\ Away(schedTenant)'
    BY <1>11, <1>t DEF PayAndTake, Serving, Emitting, Away
  <2>2. \A u \in Tenant : u # schedTenant => pending'[u] = pending[u] /\ tokens'[u] = tokens[u]
    BY <1>11, <1>t DEF PayAndTake, Debited
  <2>3. \A u \in Tenant : Away(u)' \/ (/\ alive'[u] = alive[u] /\ pending'[u] = pending[u]
                                      /\ tokens'[u] = tokens[u] /\ (Away(u) => Away(u)'))
    BY <1>11, <2>1, <2>2 DEF Away
  <2> QED BY <1>11, <2>3, KeepsCurrent
<1>12. CASE CheckTokens
  <2>1. CASE PayAndTake
    BY <1>11, <1>12, <2>1 DEF CheckTokens, Serving
  <2>2. CASE UNCHANGED <<tokens, pending>>
    <3>1. ~Emitting /\ UNCHANGED <<alive, eligible>>
      BY <1>12 DEF CheckTokens, Emitting
    <3> QED BY <2>2, <3>1, KeepsCurrent DEF Away
  <2> QED BY <1>12, <2>1, <2>2 DEF CheckTokens
<1>13. CASE OutputReadyAgain
  BY <1>11, <1>13 DEF OutputReadyAgain, Serving
<1>14. CASE RetryTokens
  <2>1. ~Emitting /\ UNCHANGED <<pending, alive, tokens, eligible>>
    BY <1>14 DEF RetryTokens, Emitting
  <2> QED BY <2>1, KeepsCurrent DEF Away
<1>15. CASE AcquirePort
  <2>1. Emitting' /\ UNCHANGED <<pending, alive, tokens, eligible, schedTenant>>
    BY <1>15 DEF AcquirePort, Emitting
  <2> QED BY <2>1, KeepsCurrent DEF Away
<1>16. CASE Emit
  <2>1. schedTenant \in Tenant /\ Refresh({schedTenant}) /\ UNCHANGED <<pending, alive, tokens>>
    BY <1>16, <1>t DEF Emit, Emitting
  <2>2. \A u \in Tenant \ {schedTenant} : ~Away(u)
    BY DEF Away
  <2> QED BY <2>1, <2>2, RefreshKeepsCurrent
<1>17. CASE ReleasePort
  BY <1>17, KeepsCurrent DEF ReleasePort, Away, Emitting
<1>18. CASE RestoreBaseTokens
  <2>1. Refresh(Tenant)
    BY <1>18 DEF RestoreBaseTokens
  <2> QED BY <2>1, RefreshKeepsCurrent
<1>19. CASE UNCHANGED vars
  BY <1>19, KeepsCurrent DEF vars, Away, Emitting
<1> QED
  BY <1>1, <1>2, <1>3, <1>4, <1>5, <1>6, <1>7, <1>8, <1>9, <1>10, <1>12, <1>13, <1>14, <1>15,
     <1>16, <1>17, <1>18, <1>19 DEF Next, Host, AcceptProcess, CompletionScheduler

\* A scheduler that sleeps unwoken found the set empty, and it stayed so.
SleepsOnEmptySet == schedPc = "ASLEEP" /\ ~woken => eligible = {}

LEMMA RefreshWakes ==
  ASSUME SleepsOnEmptySet, NEW T, Refresh(T), schedPc' = schedPc
  PROVE  SleepsOnEmptySet'
<1> SUFFICES ASSUME schedPc' = "ASLEEP", ~woken' PROVE eligible' = {}
  BY DEF SleepsOnEmptySet
<1> DEFINE now == { u \in T : TenantEligible(u, alive', pending', tokens') }
<1>1. eligible' = (eligible \ T) \cup now /\ (woken' <=> woken \/ (now # {} /\ schedPc = "ASLEEP"))
  BY DEF Refresh
<1>2. ~woken /\ now = {}
  BY <1>1
<1>3. eligible = {}
  BY <1>2 DEF SleepsOnEmptySet
<1> QED BY <1>1, <1>2, <1>3

LEMMA WakeNext == HeadInv /\ SleepsOnEmptySet /\ [Next]_vars => SleepsOnEmptySet'
<1> SUFFICES ASSUME HeadInv, SleepsOnEmptySet, [Next]_vars PROVE SleepsOnEmptySet'
  OBVIOUS
<1> USE DEF AcceptFrame, SchedFrame, acceptVars, orderVars, tokenVars, schedVars
<1>1. ASSUME NEW T, Refresh(T), schedPc' = schedPc PROVE SleepsOnEmptySet'
  BY <1>1, RefreshWakes
<1>2. ASSUME UNCHANGED <<schedPc, woken, eligible>> PROVE SleepsOnEmptySet'
  BY <1>2 DEF SleepsOnEmptySet
<1>3. CASE Host
  BY <1>1, <1>2, <1>3
  DEF Host, Submit, ConfigureTenant, SetTenantAlive, CreditTokens, SetCompletionReady
<1>4. CASE AcceptProcess
  BY <1>1, <1>2, <1>4 DEF AcceptProcess, ResetDone, TakeCommand, SpaceAvailable, EnqueueDone
<1>5. CASE LeaveIdle
  BY <1>5 DEF LeaveIdle, IdleOutcome, SleepsOnEmptySet
<1>6. CASE SelectTenant \/ CheckTokens \/ OutputReadyAgain \/ RetryTokens \/ AcquirePort
  <2>1. schedPc' # "ASLEEP"
    BY <1>6 DEF SelectTenant, CheckTokens, OutputReadyAgain, RetryTokens, AcquirePort, PayAndTake
  <2> QED BY <2>1 DEF SleepsOnEmptySet
<1>7. CASE Emit
  <2>1. schedPc' = IdleOutcome(eligible')
    BY <1>7 DEF Emit
  <2> QED BY <2>1 DEF IdleOutcome, SleepsOnEmptySet
<1>8. CASE ReleasePort
  BY <1>2, <1>8 DEF ReleasePort
<1>9. CASE RestoreBaseTokens
  BY <1>1, <1>9 DEF RestoreBaseTokens
<1>10. CASE UNCHANGED vars
  BY <1>2, <1>10 DEF vars
<1> QED BY <1>3, <1>4, <1>5, <1>6, <1>7, <1>8, <1>9, <1>10 DEF Next, CompletionScheduler

LEMMA CurrentInit == Init => EligibleSetIsCurrent /\ SleepsOnEmptySet
BY DEF Init, EligibleSetIsCurrent, SleepsOnEmptySet, TenantEligible

\* The set that five callers keep up to date is what a rescan would compute.
THEOREM EligibleSetStaysCurrent == Spec => []EligibleSetIsCurrent
<1>1. Init => HeadInv /\ EligibleSetIsCurrent
  BY HeadInit, CurrentInit
<1>2. HeadInv /\ EligibleSetIsCurrent /\ [Next]_vars => (HeadInv /\ EligibleSetIsCurrent)'
  BY HeadNext, CurrentNext
<1> QED BY <1>1, <1>2, PTL DEF Spec

\* A sleeping scheduler that nobody has woken has nothing it could serve.
THEOREM NoWakeUpIsLost == Spec => []NoLostWakeUp
<1> DEFINE Inv == HeadInv /\ EligibleSetIsCurrent /\ SleepsOnEmptySet
<1>1. Init => Inv
  BY HeadInit, CurrentInit
<1>2. Inv /\ [Next]_vars => Inv'
  BY HeadNext, CurrentNext, WakeNext
<1>3. Inv => NoLostWakeUp
  BY DEF EligibleSetIsCurrent, SleepsOnEmptySet, NoLostWakeUp, Emitting
<1> QED BY <1>1, <1>2, <1>3, PTL DEF Spec

-----------------------------------------------------------------------------
(* Tokens.                                                                  *)

\* A stalled command was paid for when it was checked, and tokens only rise
\* until it is: grants never lower them, nor does a refill lower what no grant
\* raised above the base.
TokenInv ==
  /\ \A t \in Tenant, a \in Axis : 0 <= tokens[t][a] /\ tokens[t][a] <= baseTokens[t][a]
  /\ schedPc = "STALL_OUTPUT" => CanPay(schedTenant, command)

LEMMA TokenInit == Init => TokenInv
BY CompletionAssumption DEF Init, TokenInv

\* A step of the host or of the refill that raises tokens up to the base.
LEMMA TokensRise ==
  ASSUME HeadInv, TokenInv, UNCHANGED <<schedPc, schedTenant, command>>,
         tokens' \in [Tenant -> [Axis -> Int]], baseTokens' \in [Tenant -> [Axis -> Nat]],
         \A t \in Tenant, a \in Axis :
           tokens[t][a] <= tokens'[t][a] /\ tokens'[t][a] <= baseTokens'[t][a]
  PROVE  TokenInv'
<1>t. tokens \in [Tenant -> [Axis -> Int]]
  BY DEF HeadInv, TypeOK, TenantTypes
<1>1. ASSUME NEW t \in Tenant, NEW a \in Axis
      PROVE  0 <= tokens'[t][a] /\ tokens'[t][a] <= baseTokens'[t][a]
  <2>1. tokens[t][a] \in Int /\ tokens'[t][a] \in Int /\ 0 <= tokens[t][a]
    BY <1>t DEF TokenInv
  <2> QED BY <2>1
<1>2. ASSUME schedPc' = "STALL_OUTPUT" PROVE CanPay(schedTenant, command)'
  <2>1. schedTenant \in Tenant /\ command \in Command
    BY <1>2 DEF HeadInv, TypeOK, SchedTypes, Serving, Emitting
  <2>2. KindOf[command] \in Kind
    BY <2>1, CompletionAssumption
  <2>3. ASSUME NEW a \in Charged(command)
        PROVE  tokens'[schedTenant][a] >= Cost[KindOf[command]][a]
    <3>1. a \in Axis /\ Cost[KindOf[command]][a] \in Nat
      BY <2>2, CompletionAssumption DEF Charged
    <3>2. tokens[schedTenant][a] >= Cost[KindOf[command]][a]
      BY <1>2 DEF TokenInv, CanPay
    <3>3. tokens[schedTenant][a] \in Int /\ tokens'[schedTenant][a] \in Int
      BY <1>t, <2>1, <3>1
    <3> QED BY <2>1, <3>1, <3>2, <3>3
  <2> QED BY <2>3 DEF CanPay, Charged
<1> QED BY <1>1, <1>2 DEF TokenInv

\* A step that leaves the tokens alone, and stalls nobody.
LEMMA TokensStay ==
  ASSUME TokenInv, UNCHANGED <<tokens, baseTokens>>,
         schedPc' = "STALL_OUTPUT" => CanPay(schedTenant', command')
  PROVE  TokenInv'
BY DEF TokenInv, CanPay, Charged

\* What a debit that can be paid takes.
LEMMA DebitTakes ==
  ASSUME HeadInv, Serving, CanPay(schedTenant, command), PayAndTake, NEW t \in Tenant, NEW a \in Axis
  PROVE  /\ t # schedTenant \/ a \notin Charged(command) => tokens'[t][a] = tokens[t][a]
         /\ t = schedTenant /\ a \in Charged(command) =>
              /\ tokens'[t][a] = tokens[t][a] - Cost[KindOf[command]][a]
              /\ Cost[KindOf[command]][a] \in Nat /\ tokens[t][a] >= Cost[KindOf[command]][a]
<1>t. tokens \in [Tenant -> [Axis -> Int]] /\ schedTenant \in Tenant /\ command \in Command
  BY DEF HeadInv, TypeOK, TenantTypes, SchedTypes
<1>0. KindOf[command] \in Kind
  BY <1>t, CompletionAssumption
<1>1. tokens' = Debited(schedTenant, command)
  BY DEF PayAndTake
<1>2. CASE t # schedTenant
  BY <1>t, <1>1, <1>2 DEF Debited
<1>3. CASE t = schedTenant
  <2>1. tokens'[t][a] = tokens[t][a]
          - (IF a \in Charged(command) THEN Cost[KindOf[command]][a] ELSE 0)
    BY <1>t, <1>1, <1>3 DEF Debited
  <2>2. tokens[t][a] \in Int
    BY <1>t
  <2>3. CASE a \in Charged(command)
    <3>1. Cost[KindOf[command]][a] \in Nat
      BY <1>0, <2>3, CompletionAssumption DEF Charged
    <3>2. tokens[t][a] >= Cost[KindOf[command]][a]
      BY <1>3, <2>3 DEF CanPay
    <3> QED BY <1>3, <2>1, <2>3, <3>1, <3>2
  <2>4. CASE a \notin Charged(command)
    BY <2>1, <2>2, <2>4
  <2> QED BY <2>3, <2>4
<1> QED BY <1>2, <1>3

\* The host's calls and the refill raise tokens, up to the base.
LEMMA TokensAreRaised ==
  ASSUME ~ShortGrants, HeadInv, TokenInv, Host \/ RestoreBaseTokens
  PROVE  /\ UNCHANGED <<schedPc, schedTenant, command>>
         /\ \A u \in Tenant, a \in Axis :
              tokens[u][a] <= tokens'[u][a] /\ tokens'[u][a] <= baseTokens'[u][a]
<1> DEFINE Raised == /\ UNCHANGED <<schedPc, schedTenant, command>>
                     /\ \A u \in Tenant, a \in Axis :
                          tokens[u][a] <= tokens'[u][a] /\ tokens'[u][a] <= baseTokens'[u][a]
<1>t. /\ tokens \in [Tenant -> [Axis -> Int]] /\ baseTokens \in [Tenant -> [Axis -> Nat]]
      /\ \A t \in Tenant, a \in Axis :
           /\ tokens[t][a] \in Int /\ baseTokens[t][a] \in Nat
           /\ tokens[t][a] <= baseTokens[t][a]
  BY DEF HeadInv, TypeOK, TenantTypes, TokenInv
<1> USE DEF orderVars, tokenVars, schedVars
<1>s. ASSUME UNCHANGED <<tokens, baseTokens, schedPc, schedTenant, command>> PROVE Raised
  BY <1>t, <1>s
<1>1. ASSUME NEW c \in Command, Submit(c) PROVE Raised
  BY <1>1, <1>s DEF Submit
<1>2. ASSUME NEW t \in Tenant, NEW amount \in Grants, NEW isAlive \in BOOLEAN,
             ConfigureTenant(t, amount, isAlive, 1)
      PROVE  Raised
  <2>1. amount \in Nat /\ \A a \in Axis : amount >= baseTokens[t][a]
    BY <1>2, CompletionAssumption DEF ConfigureTenant
  <2>2. /\ tokens' = [tokens EXCEPT ![t] = [a \in Axis |-> amount]]
        /\ baseTokens' = [baseTokens EXCEPT ![t] = [a \in Axis |-> amount]]
        /\ UNCHANGED <<schedPc, schedTenant, command>>
    BY <1>2 DEF ConfigureTenant
  <2>3. ASSUME NEW u \in Tenant, NEW a \in Axis
        PROVE  tokens[u][a] <= tokens'[u][a] /\ tokens'[u][a] <= baseTokens'[u][a]
    <3>1. CASE u = t
      <4>1. tokens'[u][a] = amount /\ baseTokens'[u][a] = amount
        BY <1>t, <2>2, <3>1
      <4>2. amount >= baseTokens[u][a] /\ tokens[u][a] <= baseTokens[u][a]
            /\ baseTokens[u][a] \in Nat /\ tokens[u][a] \in Int
        BY <1>t, <2>1, <3>1
      <4> QED BY <2>1, <4>1, <4>2
    <3>2. CASE u # t
      <4>1. tokens'[u][a] = tokens[u][a] /\ baseTokens'[u][a] = baseTokens[u][a]
        BY <1>t, <2>2, <3>2
      <4> QED BY <1>t, <4>1
    <3> QED BY <3>1, <3>2
  <2> QED BY <2>2, <2>3
<1>3. ASSUME NEW t \in LiveHost, NEW isAlive \in BOOLEAN, SetTenantAlive(t, isAlive)
      PROVE  Raised
  BY <1>3, <1>s DEF SetTenantAlive
<1>4. ASSUME NEW t \in Tenant, NEW b \in Axis, NEW amount \in Grants, CreditTokens(t, b, amount)
      PROVE  Raised
  <2>1. amount \in Nat /\ amount >= tokens[t][b] /\ amount <= baseTokens[t][b]
    BY <1>4, CompletionAssumption DEF CreditTokens
  <2>2. /\ tokens' = [tokens EXCEPT ![t][b] = amount] /\ baseTokens' = baseTokens
        /\ UNCHANGED <<schedPc, schedTenant, command>>
    BY <1>4 DEF CreditTokens
  <2>3. ASSUME NEW u \in Tenant, NEW a \in Axis
        PROVE  tokens[u][a] <= tokens'[u][a] /\ tokens'[u][a] <= baseTokens'[u][a]
    <3>1. CASE u = t /\ a = b
      <4>1. tokens'[u][a] = amount
        BY <1>t, <2>2, <3>1
      <4> QED BY <2>1, <2>2, <3>1, <4>1
    <3>2. CASE ~(u = t /\ a = b)
      <4>1. tokens'[u][a] = tokens[u][a]
        BY <1>t, <2>2, <3>2
      <4> QED BY <1>t, <2>2, <4>1
    <3> QED BY <3>1, <3>2
  <2> QED BY <2>2, <2>3
<1>5. CASE SetCompletionReady
  BY <1>5, <1>s DEF SetCompletionReady
<1>6. CASE RestoreBaseTokens
  <2>1. tokens' = baseTokens /\ baseTokens' = baseTokens /\ UNCHANGED <<schedPc, schedTenant, command>>
    BY <1>6 DEF RestoreBaseTokens
  <2>2. \A u \in Tenant, a \in Axis :
          tokens[u][a] <= tokens'[u][a] /\ tokens'[u][a] <= baseTokens'[u][a]
    BY <1>t, <2>1
  <2> QED BY <2>1, <2>2
<1> QED BY <1>1, <1>2, <1>3, <1>4, <1>5, <1>6 DEF Host

LEMMA TokenNext ==
  ASSUME ~ShortGrants
  PROVE  HeadInv /\ TokenInv /\ [Next]_vars => TokenInv'
<1> SUFFICES ASSUME HeadInv, TokenInv, [Next]_vars PROVE TokenInv'
  OBVIOUS
<1>t. /\ tokens \in [Tenant -> [Axis -> Int]] /\ baseTokens \in [Tenant -> [Axis -> Nat]]
      /\ \A t \in Tenant, a \in Axis :
           /\ tokens[t][a] \in Int /\ baseTokens[t][a] \in Nat
           /\ tokens[t][a] <= baseTokens[t][a]
  BY DEF HeadInv, TypeOK, TenantTypes, TokenInv
<1>n. tokens' \in [Tenant -> [Axis -> Int]] /\ baseTokens' \in [Tenant -> [Axis -> Nat]]
  BY HeadNext DEF HeadInv, TypeOK, TenantTypes
<1> USE DEF AcceptFrame, SchedFrame, acceptVars, orderVars, tokenVars, schedVars
<1>s. ASSUME UNCHANGED <<tokens, baseTokens, schedPc, schedTenant, command>> PROVE TokenInv'
  BY <1>s, TokensStay DEF TokenInv
<1>1. CASE Host \/ RestoreBaseTokens
  BY <1>1, <1>n, TokensAreRaised, TokensRise
<1>2. CASE AcceptProcess
  BY <1>2, <1>s DEF AcceptProcess, ResetDone, TakeCommand, SpaceAvailable, EnqueueDone
<1>3. CASE LeaveIdle \/ SelectTenant \/ RetryTokens \/ AcquirePort \/ Emit
  <2>1. UNCHANGED <<tokens, baseTokens>> /\ schedPc' # "STALL_OUTPUT"
    BY <1>3 DEF LeaveIdle, IdleOutcome, SelectTenant, RetryTokens, AcquirePort, Emit
  <2> QED BY <2>1, TokensStay
<1>4. ASSUME PayAndTake, Serving, CanPay(schedTenant, command), baseTokens' = baseTokens
      PROVE  TokenInv'
  <2>1. ASSUME NEW t \in Tenant, NEW a \in Axis
        PROVE  0 <= tokens'[t][a] /\ tokens'[t][a] <= baseTokens'[t][a]
    <3>1. tokens[t][a] \in Int /\ baseTokens[t][a] \in Nat /\ 0 <= tokens[t][a]
          /\ tokens[t][a] <= baseTokens[t][a]
      BY <1>t DEF TokenInv
    <3>2. CASE t = schedTenant /\ a \in Charged(command)
      <4>1. /\ tokens'[t][a] = tokens[t][a] - Cost[KindOf[command]][a]
            /\ Cost[KindOf[command]][a] \in Nat /\ tokens[t][a] >= Cost[KindOf[command]][a]
        BY <1>4, <3>2, DebitTakes
      <4> QED BY <1>4, <3>1, <4>1
    <3>3. CASE ~(t = schedTenant /\ a \in Charged(command))
      <4>1. tokens'[t][a] = tokens[t][a]
        BY <1>4, <3>3, DebitTakes
      <4> QED BY <1>4, <3>1, <4>1
    <3> QED BY <3>2, <3>3
  <2>2. schedPc' # "STALL_OUTPUT"
    BY <1>4 DEF PayAndTake
  <2> QED BY <2>1, <2>2 DEF TokenInv
<1>5. CASE CheckTokens
  <2>1. CASE CanPay(schedTenant, command) /\ PayAndTake
    BY <1>4, <1>5, <2>1 DEF CheckTokens, Serving
  <2>2. CASE UNCHANGED <<tokens, pending>>
            /\ (CanPay(schedTenant, command) \/ schedPc' = "WAIT_TOKENS")
    BY <1>5, <2>2, TokensStay DEF CheckTokens
  <2> QED BY <1>5, <2>1, <2>2 DEF CheckTokens
<1>6. CASE OutputReadyAgain
  BY <1>4, <1>6 DEF OutputReadyAgain, Serving, TokenInv
<1>7. CASE ReleasePort
  BY <1>7, <1>s DEF ReleasePort
<1>8. CASE UNCHANGED vars
  BY <1>8, <1>s DEF vars
<1> QED BY <1>1, <1>2, <1>3, <1>5, <1>6, <1>7, <1>8 DEF Next, CompletionScheduler

\* Emitted means paid for, also after a stall for the output, which looks at
\* the tokens no second time; where grants and refills lower no tokens.
THEOREM TokensStayCovered ==
  ASSUME ~ShortGrants
  PROVE  Spec => []TokensNeverNegative
<1>1. Init => HeadInv /\ TokenInv
  BY HeadInit, TokenInit
<1>2. HeadInv /\ TokenInv /\ [Next]_vars => (HeadInv /\ TokenInv)'
  BY HeadNext, TokenNext
<1>3. HeadInv /\ TokenInv => TokensNeverNegative
  <2> SUFFICES ASSUME HeadInv, TokenInv, NEW t \in Tenant, NEW a \in Axis
               PROVE  tokens[t][a] >= 0
    BY DEF TokensNeverNegative
  <2>1. tokens[t][a] \in Int /\ 0 <= tokens[t][a]
    BY DEF HeadInv, TypeOK, TenantTypes, TokenInv
  <2> QED BY <2>1
<1> QED BY <1>1, <1>2, <1>3, PTL DEF Spec

\* Tokens are lowered by debits alone, each of which comes with the pop of the
\* command it pays for.
THEOREM SpendingPops ==
  ASSUME ~ShortGrants
  PROVE  Spec => SpendsOnlyWhatItPops
<1> DEFINE Spends ==
      \A t \in Tenant :
        (\E a \in Axis : tokens'[t][a] < tokens[t][a]) =>
          /\ pending[t] # <<>> /\ pending'[t] = Tail(pending[t])
          /\ \A a \in Axis : tokens[t][a] - tokens'[t][a]
                 = IF a \in Charged(Head(pending[t])) THEN Cost[KindOf[Head(pending[t])]][a] ELSE 0
<1>1. Init => HeadInv /\ TokenInv
  BY HeadInit, TokenInit
<1>2. HeadInv /\ TokenInv /\ [Next]_vars => (HeadInv /\ TokenInv)'
  BY HeadNext, TokenNext
<1>3. HeadInv /\ TokenInv /\ [Next]_vars => [Spends]_<<tokens, pending>>
  <2> SUFFICES ASSUME HeadInv, TokenInv, Next PROVE Spends \/ UNCHANGED <<tokens, pending>>
    BY DEF vars, tokenVars
  <2>t. /\ tokens \in [Tenant -> [Axis -> Int]] /\ tokens' \in [Tenant -> [Axis -> Int]]
        /\ pending \in [Tenant -> Seq(Command)]
    BY HeadNext DEF HeadInv, TypeOK, TenantTypes
  <2>1. ASSUME \A u \in Tenant, a \in Axis : tokens[u][a] <= tokens'[u][a] PROVE Spends
    <3> SUFFICES ASSUME NEW t \in Tenant, NEW a \in Axis PROVE ~(tokens'[t][a] < tokens[t][a])
      OBVIOUS
    <3>1. tokens[t][a] \in Int /\ tokens'[t][a] \in Int
      BY <2>t
    <3> QED BY <2>1, <3>1
  <2>2. ASSUME tokens' = tokens PROVE Spends
    <3>1. \A u \in Tenant, a \in Axis : tokens[u][a] <= tokens'[u][a]
      BY <2>t, <2>2
    <3> QED BY <2>1, <3>1
  <2>3. CASE Host \/ RestoreBaseTokens
    BY <2>1, <2>3, TokensAreRaised
  <2>4. CASE AcceptProcess \/ ReleasePort
    <3>1. tokens' = tokens
      BY <2>4 DEF AcceptProcess, ResetDone, TakeCommand, SpaceAvailable, EnqueueDone, AcceptFrame,
                  ReleasePort, tokenVars
    <3> QED BY <2>2, <3>1
  <2>5. ASSUME PayAndTake, Serving, CanPay(schedTenant, command) PROVE Spends
    <3> SUFFICES ASSUME NEW t \in Tenant, NEW b \in Axis, tokens'[t][b] < tokens[t][b]
                 PROVE  /\ pending[t] # <<>> /\ pending'[t] = Tail(pending[t])
                        /\ \A a \in Axis : tokens[t][a] - tokens'[t][a]
                             = IF a \in Charged(Head(pending[t]))
                               THEN Cost[KindOf[Head(pending[t])]][a] ELSE 0
      OBVIOUS
    <3>1. t = schedTenant
      <4>1. tokens[t][b] \in Int
        BY <2>t
      <4>2. CASE t # schedTenant
        <5>1. tokens'[t][b] = tokens[t][b]
          BY <2>5, <4>2, DebitTakes
        <5> QED BY <4>1, <5>1
      <4> QED BY <4>2
    <3>2. pending[t] # <<>> /\ Head(pending[t]) = command
      BY <2>5, <3>1 DEF HeadInv, HeadIsStable
    <3>3. pending'[t] = Tail(pending[t])
      BY <2>5, <2>t, <3>1 DEF PayAndTake
    <3>4. ASSUME NEW a \in Axis
          PROVE  tokens[t][a] - tokens'[t][a]
                   = IF a \in Charged(command) THEN Cost[KindOf[command]][a] ELSE 0
      <4>1. tokens[t][a] \in Int
        BY <2>t
      <4>2. CASE a \in Charged(command)
        <5>1. tokens'[t][a] = tokens[t][a] - Cost[KindOf[command]][a]
              /\ Cost[KindOf[command]][a] \in Nat
          BY <2>5, <3>1, <4>2, DebitTakes
        <5> QED BY <4>1, <4>2, <5>1
      <4>3. CASE a \notin Charged(command)
        <5>1. tokens'[t][a] = tokens[t][a]
          BY <2>5, <4>3, DebitTakes
        <5> QED BY <4>1, <4>3, <5>1
      <4> QED BY <4>2, <4>3
    <3> QED BY <3>2, <3>3, <3>4
  <2>6. CASE CheckTokens
    <3>1. CASE CanPay(schedTenant, command) /\ PayAndTake
      BY <2>5, <2>6, <3>1 DEF CheckTokens, Serving
    <3>2. CASE tokens' = tokens
      BY <2>2, <3>2
    <3> QED BY <2>6, <3>1, <3>2 DEF CheckTokens
  <2>7. CASE OutputReadyAgain
    BY <2>5, <2>7 DEF OutputReadyAgain, Serving, TokenInv
  <2>8. CASE LeaveIdle \/ SelectTenant \/ RetryTokens \/ AcquirePort \/ Emit
    <3>1. tokens' = tokens
      BY <2>8 DEF LeaveIdle, SelectTenant, RetryTokens, AcquirePort, Emit
    <3> QED BY <2>2, <3>1
  <2> QED BY <2>3, <2>4, <2>6, <2>7, <2>8 DEF Next, CompletionScheduler
<1> QED BY <1>1, <1>2, <1>3, PTL DEF Spec, SpendsOnlyWhatItPops

-----------------------------------------------------------------------------
(* The component implements CompletionService.                              *)

Inbox == (IF accepting = None THEN <<>> ELSE <<accepting>>) \o inputQ
InService == IF Emitting THEN command ELSE None

\* RESET clears a trace that is empty still, while nothing is on its way out;
\* and there is room for a command that is being enqueued, since only the
\* scheduler touches the queues meanwhile.
ServiceInv ==
  /\ acceptPc = "RESET" => ~Emitting /\ completed = <<>>
  /\ acceptPc = "ENQUEUE" => ~Full(TenantOf[accepting])

LEMMA ServiceInvInit == Init => ServiceInv
BY DEF Init, ServiceInv, Emitting

LEMMA RoomStays ==
  ASSUME HeadInv, ServiceInv, UNCHANGED <<acceptPc, accepting>>,
         \A t \in Tenant : Len(pending'[t]) \in Nat /\ Len(pending'[t]) <= Len(pending[t])
  PROVE  acceptPc' = "ENQUEUE" => ~Full(TenantOf[accepting])'
<1> SUFFICES ASSUME acceptPc = "ENQUEUE" PROVE ~Full(TenantOf[accepting])'
  OBVIOUS
<1>1. TenantOf[accepting] \in Tenant
  BY CompletionAssumption DEF HeadInv, TypeOK, AcceptTypes
<1>2. ~Full(TenantOf[accepting]) /\ Depth \in Nat \cup {None}
  BY CompletionAssumption DEF ServiceInv
<1>3. Len(pending[TenantOf[accepting]]) \in Nat
  BY <1>1 DEF HeadInv, TypeOK, TenantTypes
<1> QED BY <1>1, <1>2, <1>3 DEF Full

LEMMA ServiceInvNext == HeadInv /\ ServiceInv /\ [Next]_vars => ServiceInv'
<1> SUFFICES ASSUME HeadInv, ServiceInv, [Next]_vars PROVE ServiceInv'
  OBVIOUS
<1>t. pending \in [Tenant -> Seq(Command)] /\ pending' \in [Tenant -> Seq(Command)]
  BY HeadNext DEF HeadInv, TypeOK, TenantTypes
<1> USE DEF AcceptFrame, SchedFrame, acceptVars, orderVars, tokenVars, schedVars
<1>s. ASSUME UNCHANGED <<pending, acceptPc, accepting>>,
             acceptPc = "RESET" => ~Emitting' /\ completed' = <<>>
      PROVE  ServiceInv'
  <2>1. \A t \in Tenant : Len(pending'[t]) \in Nat /\ Len(pending'[t]) <= Len(pending[t])
    BY <1>t, <1>s
  <2> QED BY <1>s, <2>1, RoomStays DEF ServiceInv
<1>1. CASE Host
  <2>1. UNCHANGED <<pending, acceptPc, accepting, schedPc, completed>>
    BY <1>1 DEF Host, Submit, ConfigureTenant, SetTenantAlive, CreditTokens, SetCompletionReady
  <2> QED BY <1>s, <2>1 DEF ServiceInv, Emitting
<1>2. CASE ResetDone \/ EnqueueDone
  <2>1. acceptPc' = "READY"
    BY <1>2 DEF ResetDone, EnqueueDone
  <2> QED BY <2>1 DEF ServiceInv
<1>3. CASE TakeCommand
  <2>1. acceptPc' = (IF Full(TenantOf[accepting']) THEN "BACKPRESSURE" ELSE "ENQUEUE")
        /\ pending' = pending
    BY <1>3 DEF TakeCommand
  <2> QED BY <2>1 DEF ServiceInv, Full
<1>4. CASE SpaceAvailable
  BY <1>4 DEF SpaceAvailable, ServiceInv, Full
<1>5. CASE LeaveIdle \/ SelectTenant \/ RetryTokens
  <2>1. ~Emitting' /\ UNCHANGED <<pending, acceptPc, accepting, completed>>
    BY <1>5 DEF LeaveIdle, IdleOutcome, SelectTenant, RetryTokens, Emitting
  <2> QED BY <1>s, <2>1 DEF ServiceInv
<1>6. ASSUME PayAndTake, Serving, UNCHANGED <<acceptPc, accepting, completed>>
      PROVE  ServiceInv'
  <2>1. acceptPc # "RESET" /\ schedTenant \in Tenant
    BY <1>6, PayAndTakeTypes
  <2>2. pending' = [pending EXCEPT ![schedTenant] = Tail(@)] /\ pending[schedTenant] # <<>>
    BY <1>6 DEF PayAndTake, HeadInv, HeadIsStable
  <2>3. ASSUME NEW t \in Tenant
        PROVE  Len(pending'[t]) \in Nat /\ Len(pending'[t]) <= Len(pending[t])
    <3>1. CASE t = schedTenant
      <4>1. pending'[t] = Tail(pending[t]) /\ pending[t] \in Seq(Command) /\ pending[t] # <<>>
        BY <1>t, <2>2, <3>1
      <4> QED BY <4>1
    <3>2. CASE t # schedTenant
      BY <1>t, <2>2, <3>2
    <3> QED BY <3>1, <3>2
  <2> QED BY <1>6, <2>1, <2>3, RoomStays DEF ServiceInv
<1>7. CASE CheckTokens
  <2>1. CASE PayAndTake
    BY <1>6, <1>7, <2>1 DEF CheckTokens, Serving
  <2>2. CASE schedPc' \in {"STALL_OUTPUT", "WAIT_TOKENS"} /\ UNCHANGED pending
    <3>1. ~Emitting' /\ UNCHANGED <<acceptPc, accepting, completed>>
      BY <1>7, <2>2 DEF CheckTokens, Emitting
    <3> QED BY <1>s, <2>2, <3>1 DEF ServiceInv
  <2> QED BY <1>7, <2>1, <2>2 DEF CheckTokens
<1>8. CASE OutputReadyAgain
  BY <1>6, <1>8 DEF OutputReadyAgain, Serving
<1>9. CASE AcquirePort \/ Emit
  <2>1. Emitting /\ UNCHANGED <<pending, acceptPc, accepting>>
    BY <1>9 DEF AcquirePort, Emit, Emitting
  <2> QED BY <1>s, <2>1 DEF ServiceInv
<1>10. CASE ReleasePort \/ RestoreBaseTokens \/ UNCHANGED vars
  <2>1. UNCHANGED <<pending, acceptPc, accepting, schedPc, completed>>
    BY <1>10 DEF ReleasePort, RestoreBaseTokens, vars
  <2> QED BY <1>s, <2>1 DEF ServiceInv, Emitting
<1> QED
  BY <1>1, <1>2, <1>3, <1>4, <1>5, <1>7, <1>8, <1>9, <1>10
  DEF Next, AcceptProcess, CompletionScheduler

\* A step the service does not see.
LEMMA ServiceStutters ==
  ASSUME Inbox' = Inbox, pending' = pending, InService' = InService, completed' = completed
  PROVE  UNCHANGED Service!vars
BY DEF Inbox, InService, Service!vars

\* The debit begins a service, the emission finishes it, and the rest is out of
\* the producer's sight.
LEMMA ServiceStep ==
  HeadInv /\ ServiceInv /\ [Next]_vars => [Service!Next]_(Service!vars)
<1> SUFFICES ASSUME HeadInv, ServiceInv, [Next]_vars
             PROVE  Service!Next \/ UNCHANGED Service!vars
  OBVIOUS
<1>t. /\ pending \in [Tenant -> Seq(Command)] /\ inputQ \in Seq(Command)
      /\ accepting \in Command \cup {None} /\ None \notin Command
      /\ accepting # None <=> acceptPc \in {"BACKPRESSURE", "ENQUEUE"}
      /\ Inbox \in Seq(Command)
  BY CompletionAssumption DEF HeadInv, TypeOK, TenantTypes, AcceptTypes, Inbox
<1> USE DEF AcceptFrame, SchedFrame, acceptVars, orderVars, tokenVars, schedVars
<1>s. ASSUME UNCHANGED <<accepting, inputQ, pending, InService, completed>>
      PROVE  UNCHANGED Service!vars
  <2>1. Inbox' = Inbox
    BY <1>s DEF Inbox
  <2> QED BY <1>s, <2>1, ServiceStutters
<1>1. ASSUME NEW c \in Command, Submit(c) PROVE Service!Next
  <2>1. inputQ' = Append(inputQ, c) /\ UNCHANGED <<accepting, pending, schedPc, command, completed>>
    BY <1>1 DEF Submit
  <2>2. Inbox' = Append(Inbox, c)
    BY <1>t, <2>1 DEF Inbox
  <2>3. InService' = InService
    BY <2>1 DEF InService, Emitting
  <2>4. Service!Submit(c)
    BY <2>1, <2>2, <2>3 DEF Service!Submit, Inbox, InService
  <2> QED BY <2>4 DEF Service!Next
<1>2. CASE Host /\ ~(\E c \in Command : Submit(c))
  <2>1. UNCHANGED <<accepting, inputQ, pending, schedPc, command, completed>>
    BY <1>2 DEF Host, ConfigureTenant, SetTenantAlive, CreditTokens, SetCompletionReady
  <2> QED BY <1>s, <2>1 DEF InService, Emitting
<1>3. CASE ResetDone
  <2>1. ~Emitting /\ completed = <<>> /\ \A t \in Tenant : pending[t] = <<>>
    BY <1>3 DEF ResetDone, ServiceInv, HeadInv, ResetIsEmpty
  <2>2. pending' = pending
    BY <1>3, <1>t, <2>1 DEF ResetDone
  <2>3. completed' = completed /\ UNCHANGED <<accepting, inputQ, schedPc, command>>
    BY <1>3, <2>1 DEF ResetDone
  <2> QED BY <1>s, <2>2, <2>3 DEF InService, Emitting
<1>4. CASE TakeCommand
  <2>1. /\ accepting = None /\ inputQ # <<>> /\ accepting' = Head(inputQ)
        /\ inputQ' = Tail(inputQ) /\ UNCHANGED <<pending, schedPc, command, completed>>
    BY <1>4, <1>t DEF TakeCommand
  <2>2. accepting' \in Command
    BY <1>t, <2>1, SeqHeadTail
  <2>3. Inbox = inputQ /\ Inbox' = <<Head(inputQ)>> \o Tail(inputQ)
    BY <1>t, <2>1, <2>2 DEF Inbox
  <2>4. <<Head(inputQ)>> \o Tail(inputQ) = inputQ
    BY <1>t, <2>1
  <2> QED BY <2>1, <2>3, <2>4, ServiceStutters DEF InService, Emitting
<1>5. CASE SpaceAvailable
  BY <1>5, <1>s DEF SpaceAvailable, InService, Emitting
<1>6. CASE EnqueueDone
  <2> DEFINE t == TenantOf[accepting]
  <2>1. accepting \in Command /\ t \in Tenant /\ ~Full(t)
    BY <1>6, <1>t, CompletionAssumption DEF EnqueueDone, ServiceInv
  <2>2. /\ pending' = [pending EXCEPT ![t] = Append(@, accepting)]
        /\ accepting' = None /\ UNCHANGED <<inputQ, schedPc, command, completed>>
    BY <1>6 DEF EnqueueDone
  <2>3. Inbox = <<accepting>> \o inputQ /\ Inbox' = inputQ
    BY <1>t, <2>1, <2>2 DEF Inbox
  <2>4. Inbox # <<>> /\ Head(Inbox) = accepting /\ Tail(Inbox) = inputQ
    BY <1>t, <2>1, <2>3
  <2>5. Depth # None => Len(pending[t]) < Depth
    <3>1. Len(pending[t]) \in Nat /\ Depth \in Nat \cup {None}
      BY <1>t, <2>1, CompletionAssumption
    <3> QED BY <2>1, <3>1 DEF Full
  <2>6. InService' = InService
    BY <2>2 DEF InService, Emitting
  <2>7. Service!Accept
    BY <2>2, <2>3, <2>4, <2>5, <2>6 DEF Service!Accept, Inbox, InService
  <2> QED BY <2>7 DEF Service!Next
<1>7. CASE LeaveIdle \/ SelectTenant \/ RetryTokens
  <2>1. ~Emitting /\ ~Emitting' /\ UNCHANGED <<accepting, inputQ, pending, completed>>
    BY <1>7 DEF LeaveIdle, IdleOutcome, SelectTenant, RetryTokens, Emitting
  <2> QED BY <1>s, <2>1 DEF InService
<1>8. ASSUME PayAndTake, Serving, UNCHANGED <<accepting, inputQ, command, completed>>
      PROVE  Service!Next
  <2>1. schedTenant \in Tenant /\ ~Emitting /\ Emitting'
    BY <1>8, PayAndTakeTypes DEF PayAndTake, Serving, Emitting
  <2>2. /\ pending[schedTenant] # <<>> /\ Head(pending[schedTenant]) = command
        /\ pending' = [pending EXCEPT ![schedTenant] = Tail(@)]
    BY <1>8 DEF PayAndTake, HeadInv, HeadIsStable
  <2>3. InService = None /\ InService' = command
    BY <1>8, <2>1 DEF InService
  <2>4. Inbox' = Inbox
    BY <1>8 DEF Inbox
  <2>5. Service!Begin(schedTenant)
    BY <1>8, <2>2, <2>3, <2>4 DEF Service!Begin, Inbox, InService
  <2> QED BY <2>1, <2>5 DEF Service!Next
<1>9. CASE CheckTokens
  <2>1. CASE PayAndTake
    BY <1>8, <1>9, <2>1 DEF CheckTokens, Serving
  <2>2. CASE schedPc' \in {"STALL_OUTPUT", "WAIT_TOKENS"} /\ UNCHANGED pending
    <3>1. ~Emitting /\ ~Emitting' /\ UNCHANGED <<accepting, inputQ, completed>>
      BY <1>9, <2>2 DEF CheckTokens, Emitting
    <3> QED BY <1>s, <2>2, <3>1 DEF InService
  <2> QED BY <1>9, <2>1, <2>2 DEF CheckTokens
<1>10. CASE OutputReadyAgain
  BY <1>8, <1>10 DEF OutputReadyAgain, Serving
<1>11. CASE AcquirePort
  <2>1. Emitting /\ Emitting' /\ UNCHANGED <<accepting, inputQ, pending, command, completed>>
    BY <1>11 DEF AcquirePort, Emitting
  <2> QED BY <1>s, <2>1 DEF InService
<1>12. CASE Emit
  <2>1. /\ Emitting /\ ~Emitting' /\ completed' = Append(completed, command)
        /\ UNCHANGED <<accepting, inputQ, pending>>
    BY <1>12 DEF Emit, IdleOutcome, Emitting
  <2>2. command # None
    BY <2>1 DEF HeadInv, TypeOK, SchedTypes
  <2>3. InService = command /\ InService' = None /\ Inbox' = Inbox
    BY <2>1 DEF InService, Inbox
  <2>4. Service!Finish
    BY <2>1, <2>2, <2>3 DEF Service!Finish, Inbox, InService
  <2> QED BY <2>4 DEF Service!Next
<1>13. CASE ReleasePort \/ RestoreBaseTokens \/ UNCHANGED vars
  <2>1. UNCHANGED <<accepting, inputQ, pending, schedPc, command, completed>>
    BY <1>13 DEF ReleasePort, RestoreBaseTokens, vars
  <2> QED BY <1>s, <2>1 DEF InService, Emitting
<1> QED
  BY <1>1, <1>2, <1>3, <1>4, <1>5, <1>6, <1>7, <1>9, <1>10, <1>11, <1>12, <1>13
  DEF Next, AcceptProcess, CompletionScheduler

\* Without its tokens, its eligible set and its pointer the component is the
\* service its producer relies on: accepted in order, served in order by tenant,
\* completed one at a time.
THEOREM ServiceIsKept == Spec => ServiceKept
<1>1. Init => HeadInv /\ ServiceInv
  BY HeadInit, ServiceInvInit
<1>2. HeadInv /\ ServiceInv /\ [Next]_vars => (HeadInv /\ ServiceInv)'
  BY HeadNext, ServiceInvNext
<1>3. Init => Service!Init
  <2> SUFFICES ASSUME Init PROVE Service!Init
    OBVIOUS
  <2>1. accepting = None /\ inputQ = <<>> /\ ~Emitting
    BY DEF Init, Emitting
  <2>2. Inbox = <<>> /\ InService = None
    BY <2>1 DEF Inbox, InService
  <2> QED BY <2>2 DEF Init, Service!Init, Inbox, InService
<1>4. HeadInv /\ ServiceInv /\ [Next]_vars => [Service!Next]_(Service!vars)
  BY ServiceStep
<1> QED BY <1>1, <1>2, <1>3, <1>4, PTL DEF Spec, ServiceKept, Service!Spec

-----------------------------------------------------------------------------
(* The turns of the tenants.                                                *)

Listed == { order[i] : i \in 1 .. Len(order) }

\* The pointer is at a place of the order or behind its last one, and whoever has
\* a command on its way to the scheduler is in the order.
TurnInv ==
  /\ index \in 0 .. Len(order)
  /\ \A i \in 1 .. Len(inputQ) : TenantOf[inputQ[i]] \in Listed
  /\ accepting # None => TenantOf[accepting] \in Listed
  /\ \A t \in Tenant : pending[t] # <<>> => t \in Listed

\* One scan: the tenant taken is the selectable one whose turn is nearest, and the
\* pointer is left behind that turn.
TakesTheNearest ==
  \E k \in Offsets(order) :
    /\ schedTenant' = Slot(order, index, k) /\ schedTenant' \in Selectable
    /\ \A j \in 0 .. k - 1 : Slot(order, index, j) \notin Selectable
    /\ index' = ((index + k) % Len(order)) + 1

\* A scheduler that has somebody to select selects him whose turn is next.
ServesInTurn ==
  [][schedPc = "SELECT_TENANT" /\ schedPc' # schedPc /\ Selectable # {} => TakesTheNearest]_vars

LEMMA EnsureTenantLists ==
  ASSUME order \in Seq(Tenant), index \in 0 .. Len(order), NEW t \in Tenant, EnsureTenant(t, 1)
  PROVE  Listed \subseteq Listed' /\ t \in Listed' /\ index' \in 0 .. Len(order')
<1>1. CASE \E i \in DOMAIN order : order[i] = t
  <2>1. UNCHANGED orderVars
    BY <1>1 DEF EnsureTenant
  <2>2. order' = order /\ index' = index
    BY <2>1 DEF orderVars
  <2>3. QED
    BY <1>1, <2>2 DEF Listed
<1>2. CASE ~ \E i \in DOMAIN order : order[i] = t
  <2> DEFINE new == [i \in 1 .. 1 |-> t]
  <2>1. new \in Seq(Tenant) /\ Len(new) = 1 /\ new[1] = t
    OBVIOUS
  <2>2. order' = order \o new /\ index' = 0
    BY <1>2 DEF EnsureTenant
  <2> HIDE DEF new
  <2>3. Len(order') = Len(order) + 1 /\ Len(order) \in Nat
    <3>1. Len(order \o new) = Len(order) + Len(new)
      BY <2>1, ConcatProperties
    <3>2. QED
      BY <2>1, <2>2, <3>1
  <2>4. \A i \in 1 .. Len(order) + 1 : order'[i] = IF i <= Len(order) THEN order[i] ELSE new[i - Len(order)]
    <3>1. \A i \in 1 .. Len(order) + Len(new) :
            (order \o new)[i] = IF i <= Len(order) THEN order[i] ELSE new[i - Len(order)]
      BY <2>1, ConcatProperties
    <3>2. QED
      BY <2>1, <2>2, <3>1
  <2>5. order'[Len(order) + 1] = t
    BY <2>1, <2>3, <2>4
  <2>6. t \in Listed'
    BY <2>3, <2>5 DEF Listed
  <2>7. Listed \subseteq Listed'
    BY <2>3, <2>4 DEF Listed
  <2>8. QED
    BY <2>2, <2>3, <2>6, <2>7
<1>3. QED
  BY <1>1, <1>2

LEMMA TurnInit == Init => TurnInv
BY CompletionAssumption DEF Init, TurnInv

\* A command is submitted behind the order that lists its tenant.
LEMMA SubmitKeepsTurns ==
  ASSUME HeadInv, TurnInv, NEW c \in Command, Submit(c)
  PROVE  TurnInv'
<1>1. TenantOf[c] \in Tenant /\ order \in Seq(Tenant) /\ inputQ \in Seq(Command)
  BY CompletionAssumption DEF HeadInv, TypeOK, HostTypes, AcceptTypes
<1>2. Listed \subseteq Listed' /\ TenantOf[c] \in Listed' /\ index' \in 0 .. Len(order')
  BY <1>1, EnsureTenantLists DEF Submit, TurnInv
<1>3. inputQ' = Append(inputQ, c) /\ accepting' = accepting /\ pending' = pending
  BY DEF Submit
<1>4. ASSUME NEW i \in 1 .. Len(inputQ')
      PROVE  TenantOf[inputQ'[i]] \in Listed'
  <2>1. \/ i = Len(inputQ) + 1 /\ inputQ'[i] = c
        \/ i \in 1 .. Len(inputQ) /\ inputQ'[i] = inputQ[i]
    <3>1. /\ Len(Append(inputQ, c)) = Len(inputQ) + 1
          /\ \A j \in 1 .. Len(inputQ) : Append(inputQ, c)[j] = inputQ[j]
          /\ Append(inputQ, c)[Len(inputQ) + 1] = c
      BY <1>1, AppendProperties
    <3>2. Len(inputQ) \in Nat
      BY <1>1
    <3>3. /\ Len(inputQ') = Len(inputQ) + 1
          /\ \A j \in 1 .. Len(inputQ) : inputQ'[j] = inputQ[j]
          /\ inputQ'[Len(inputQ) + 1] = c
      BY <1>3, <3>1
    <3>4. CASE i = Len(inputQ) + 1
      BY <3>3, <3>4
    <3>5. CASE i # Len(inputQ) + 1
      <4>1. i \in 1 .. Len(inputQ)
        BY <3>2, <3>3, <3>5
      <4>2. QED
        BY <3>3, <4>1
    <3>6. QED
      BY <3>4, <3>5
  <2>2. QED
    BY <1>2, <2>1 DEF TurnInv
<1>5. QED
  BY <1>2, <1>3, <1>4 DEF TurnInv

LEMMA AcceptKeepsTurns ==
  ASSUME HeadInv, TurnInv, AcceptProcess
  PROVE  TurnInv'
<1>0. /\ inputQ \in Seq(Command) /\ pending \in [Tenant -> Seq(Command)]
      /\ accepting \in Command \cup {None} /\ (accepting # None <=> acceptPc \in {"BACKPRESSURE", "ENQUEUE"})
  BY DEF HeadInv, TypeOK, AcceptTypes, TenantTypes
<1>1. order' = order /\ index' = index /\ Listed' = Listed
  BY DEF AcceptProcess, ResetDone, TakeCommand, SpaceAvailable, EnqueueDone, AcceptFrame, orderVars, Listed
<1>2. CASE ResetDone
  BY <1>1, <1>2 DEF ResetDone, TurnInv
<1>3. CASE TakeCommand
  <2>1. /\ inputQ # <<>> /\ accepting' = Head(inputQ) /\ inputQ' = Tail(inputQ) /\ pending' = pending
    BY <1>3 DEF TakeCommand
  <2>2. /\ accepting' = inputQ[1] /\ 1 \in 1 .. Len(inputQ)
        /\ \A i \in 1 .. Len(inputQ') : i + 1 \in 1 .. Len(inputQ) /\ inputQ'[i] = inputQ[i + 1]
    BY <1>0, <2>1
  <2>3. QED
    BY <1>1, <2>1, <2>2 DEF TurnInv
<1>4. CASE SpaceAvailable
  BY <1>1, <1>4 DEF SpaceAvailable, TurnInv
<1>5. CASE EnqueueDone
  <2>1. /\ accepting \in Command /\ accepting # None /\ accepting' = None /\ inputQ' = inputQ
        /\ \A t \in Tenant : t # TenantOf[accepting] => pending'[t] = pending[t]
    BY <1>0, <1>5, CompletionAssumption DEF EnqueueDone
  <2>2. QED
    BY <1>1, <2>1 DEF TurnInv
<1>6. QED
  BY <1>2, <1>3, <1>4, <1>5 DEF AcceptProcess

\* The index a selection leaves.
LEMMA SelectTakesTheNearest ==
  ASSUME HeadInv, TurnInv, SelectTenant, Selectable # {}
  PROVE  TakesTheNearest /\ index' \in 0 .. Len(order)
<1>0. order \in Seq(Tenant) /\ index \in 0 .. Len(order) /\ Len(order) \in Nat
  BY DEF HeadInv, TypeOK, HostTypes, TurnInv
<1>1. PICK t \in Selectable : t \in Tenant /\ pending[t] # <<>>
  BY DEF Selectable
<1>2. PICK i \in 1 .. Len(order) : order[i] = t
  BY <1>1 DEF TurnInv, Listed
<1>3. order[i] \in Selectable
  BY <1>1, <1>2
<1>4. PICK k \in Offsets(order) : /\ Slot(order, index, k) \in Selectable
                                  /\ \A j \in 0 .. k - 1 : Slot(order, index, j) \notin Selectable
  BY <1>0, <1>2, <1>3, NearestPlace
<1>5. FirstOf(order, index, Selectable) = {Slot(order, index, k)}
  BY <1>0, <1>4, ScanFindsTheNearest
<1>6. schedTenant' = Slot(order, index, k) /\ index' = AdvanceToAfter(order, index, Slot(order, index, k))
  BY <1>5 DEF SelectTenant
<1>7. \A j \in 0 .. k - 1 : Slot(order, index, j) # Slot(order, index, k)
  BY <1>4
<1>8. index' = ((index + k) % Len(order)) + 1
  BY <1>0, <1>6, <1>7, AdvanceLeavesTheNearest
<1>9. (index + k) % Len(order) \in 0 .. Len(order) - 1
  BY <1>0 DEF Offsets
<1>10. index' \in 0 .. Len(order)
  BY <1>0, <1>8, <1>9
<1>11. QED
  BY <1>4, <1>6, <1>8, <1>10 DEF TakesTheNearest

LEMMA SchedKeepsTurns ==
  ASSUME HeadInv, TurnInv, CompletionScheduler
  PROVE  TurnInv'
<1>0. pending \in [Tenant -> Seq(Command)]
  BY DEF HeadInv, TypeOK, TenantTypes
<1>1. order' = order /\ inputQ' = inputQ /\ accepting' = accepting /\ Listed' = Listed
  BY DEF CompletionScheduler, LeaveIdle, SelectTenant, CheckTokens, OutputReadyAgain, RetryTokens,
         AcquirePort, Emit, SchedFrame, acceptVars, Listed
<1>2. CASE SelectTenant
  <2>1. pending' = pending
    BY <1>2 DEF SelectTenant
  <2>2. index' \in 0 .. Len(order)
    <3>1. CASE Selectable = {}
      <4>1. FirstOf(order, index, Selectable) = {}
        BY <3>1, FirstOfIsCandidate
      <4>2. index' = index
        BY <1>2, <4>1 DEF SelectTenant
      <4>3. QED
        BY <4>2 DEF TurnInv
    <3>2. CASE Selectable # {}
      BY <1>2, <3>2, SelectTakesTheNearest
    <3>3. QED
      BY <3>1, <3>2
  <2>3. QED
    BY <1>1, <2>1, <2>2 DEF TurnInv
<1>3. CASE PayAndTake /\ Serving /\ index' = index
  <2>1. pending[schedTenant] # <<>> /\ pending' = [pending EXCEPT ![schedTenant] = Tail(@)]
    BY <1>3 DEF PayAndTake, HeadInv, HeadIsStable
  <2>2. \A t \in Tenant : pending'[t] # <<>> => pending[t] # <<>>
    BY <1>0, <2>1
  <2>3. QED
    BY <1>1, <1>3, <2>2 DEF TurnInv
<1>4. CASE pending' = pending /\ index' = index
  BY <1>1, <1>4 DEF TurnInv
<1>5. CASE CheckTokens
  <2>1. Serving /\ index' = index /\ (PayAndTake \/ pending' = pending)
    BY <1>5 DEF CheckTokens, Serving
  <2>2. QED
    BY <1>3, <1>4, <2>1
<1>6. CASE OutputReadyAgain
  BY <1>3, <1>6 DEF OutputReadyAgain, Serving
<1>7. CASE LeaveIdle \/ RetryTokens \/ AcquirePort \/ Emit
  BY <1>4, <1>7 DEF LeaveIdle, RetryTokens, AcquirePort, Emit
<1>8. QED
  BY <1>2, <1>5, <1>6, <1>7 DEF CompletionScheduler

LEMMA TurnNext == HeadInv /\ TurnInv /\ [Next]_vars => TurnInv'
<1> SUFFICES ASSUME HeadInv, TurnInv, [Next]_vars
             PROVE  TurnInv'
  OBVIOUS
<1>1. ASSUME NEW c \in Command, Submit(c)
      PROVE  TurnInv'
  BY <1>1, SubmitKeepsTurns
<1>2. ASSUME NEW t \in Tenant, NEW amount \in Grants, NEW isAlive \in BOOLEAN,
             ConfigureTenant(t, amount, isAlive, 1)
      PROVE  TurnInv'
  <2>1. order \in Seq(Tenant)
    BY DEF HeadInv, TypeOK, HostTypes
  <2>2. Listed \subseteq Listed' /\ index' \in 0 .. Len(order')
    BY <1>2, <2>1, EnsureTenantLists DEF ConfigureTenant, TurnInv
  <2>3. inputQ' = inputQ /\ accepting' = accepting /\ pending' = pending
    BY <1>2 DEF ConfigureTenant, acceptVars
  <2>4. QED
    BY <2>2, <2>3 DEF TurnInv
<1>3. CASE UNCHANGED <<order, index, inputQ, accepting, pending>>
  BY <1>3 DEF TurnInv, Listed
<1>4. ASSUME NEW t \in LiveHost, NEW isAlive \in BOOLEAN, SetTenantAlive(t, isAlive)
      PROVE  TurnInv'
  BY <1>3, <1>4 DEF SetTenantAlive, acceptVars, orderVars
<1>5. ASSUME NEW t \in Tenant, NEW a \in Axis, NEW amount \in Grants, CreditTokens(t, a, amount)
      PROVE  TurnInv'
  BY <1>3, <1>5 DEF CreditTokens, acceptVars, orderVars
<1>6. CASE SetCompletionReady
  BY <1>3, <1>6 DEF SetCompletionReady, acceptVars, orderVars
<1>7. CASE ReleasePort \/ RestoreBaseTokens
  BY <1>3, <1>7 DEF ReleasePort, RestoreBaseTokens, acceptVars, orderVars
<1>8. CASE UNCHANGED vars
  BY <1>3, <1>8 DEF vars, acceptVars, orderVars
<1>9. CASE Host
  BY <1>1, <1>2, <1>4, <1>5, <1>6, <1>9 DEF Host
<1>10. QED
  BY <1>7, <1>8, <1>9, AcceptKeepsTurns, SchedKeepsTurns DEF Next

\* A step that leaves SELECT_TENANT is the scheduler's selection.
LEMMA OnlySelectionLeaves ==
  ASSUME HeadInv, Next, schedPc = "SELECT_TENANT", schedPc' # schedPc
  PROVE  SelectTenant
<1>1. Host => schedPc' = schedPc
  BY HostNext DEF HeadInv
<1>2. AcceptProcess => schedPc' = schedPc
  BY DEF AcceptProcess, ResetDone, TakeCommand, SpaceAvailable, EnqueueDone, AcceptFrame
<1>3. ReleasePort \/ RestoreBaseTokens => schedPc' = schedPc
  BY DEF ReleasePort, RestoreBaseTokens
<1>4. CompletionScheduler => SelectTenant
  BY DEF CompletionScheduler, LeaveIdle, CheckTokens, OutputReadyAgain, RetryTokens, AcquirePort, Emit
<1>5. QED
  BY <1>1, <1>2, <1>3, <1>4 DEF Next

\* No tenant that could be selected is passed over: a scan takes the one whose
\* turn is nearest to the pointer and leaves the pointer behind that turn, and it
\* comes back with nothing only when there is nobody to select - every tenant with
\* traffic is in the order, and the pointer in its range, whatever tenants joined
\* meanwhile (_select_tenant, _ensure_tenant; common.py, scan, advance_to_after).
THEOREM TenantsAreServedInTurn == Spec => ServesInTurn
<1>1. Init => HeadInv /\ TurnInv
  BY HeadInit, TurnInit
<1>2. HeadInv /\ TurnInv /\ [Next]_vars => (HeadInv /\ TurnInv)'
  BY HeadNext, TurnNext
<1>3. HeadInv /\ TurnInv /\ [Next]_vars =>
        [schedPc = "SELECT_TENANT" /\ schedPc' # schedPc /\ Selectable # {} => TakesTheNearest]_vars
  BY OnlySelectionLeaves, SelectTakesTheNearest
<1>4. QED
  BY <1>1, <1>2, <1>3, PTL DEF Spec, ServesInTurn

=============================================================================
