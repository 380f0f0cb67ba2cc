------------------------ MODULE TransitionCheck_proofs ------------------------
(***************************************************************************)
(* Proofs about the recording of a model's transitions and what is         *)
(* reported of it.  The invariant IInv follows the instances of the test   *)
(* under way: what each has held is observable already, will be when it    *)
(* leaves it, or is where it ends its test.                                *)
(***************************************************************************)
EXTENDS TransitionCheck, TLAPS

ConstructedStates == { <<f, Constructed[f]>> : f \in Fsm }

\* Instances live while a test is under way, and start from the constructor.
Instances ==
  \A i \in Inst :
    /\ instance[i] = "live" => pc = "TEST"
    /\ instance[i] = "live" => ConstructedStates \subseteq observable
    /\ \A f \in Fsm : since[i][f] = None => current[i][f] = Constructed[f]
    /\ \A f \in Fsm : since[i][f] # None => instance[i] = "live" /\ since[i][f] <= now

\* What was held is on record, or is held still.
HeldIsRecorded ==
  \A w \in held :
    \/ w \in observable \cup rested
    \/ \E i \in Inst :
         /\ instance[i] = "live" /\ current[i][w[1]] = w[2]
         /\ since[i][w[1]] = None \/ since[i][w[1]] < now

\* What is on record was held, or given by the constructor.
RecordedWasHeld ==
  /\ observable \subseteq held \cup ConstructedStates
  /\ \A i \in Inst, f \in Fsm :
       since[i][f] # None /\ since[i][f] < now => <<f, current[i][f]>> \in held

IInv == TypeOK /\ Instances /\ HeldIsRecorded /\ RecordedWasHeld

-----------------------------------------------------------------------------
\* Types, of the initial state and across a step.
LEMMA TypeInit == Init => TypeOK
BY CheckAssumption DEF Init, TypeOK, Transition

\* Every action of the tests and of the recording keeps the types.
LEMMA TypeNext == TypeOK /\ [Next]_vars => TypeOK'
<1> SUFFICES ASSUME TypeOK, [Next]_vars PROVE TypeOK'
  OBVIOUS
<1> USE CheckAssumption DEF TypeOK, occupancy
<1>1. CASE BeginTest
  BY <1>1 DEF BeginTest
<1>2. CASE Advance
  <2>1. now' \in 0 .. MaxTime
    BY <1>2 DEF Advance
  <2>2. held' \subseteq Fsm \X State
    BY <1>2 DEF Advance
  <2> QED BY <1>2, <2>1, <2>2 DEF Advance
<1>3. CASE EndTest
  <2>1. rested' \subseteq Fsm \X State
    BY <1>3 DEF EndTest
  <2>2. /\ instance' \in [Inst -> {"unborn", "live", "gone"}]
        /\ current' \in [Inst -> [Fsm -> State]]
        /\ entered' \in [Inst -> SUBSET Fsm]
        /\ since' \in [Inst -> [Fsm -> 0 .. MaxTime \cup {None}]]
    BY <1>3 DEF EndTest
  <2> QED BY <1>3, <2>1, <2>2 DEF EndTest
<1>4. CASE EndRun
  BY <1>4 DEF EndRun
<1>5. ASSUME NEW i \in Inst, Construct(i) PROVE TypeOK'
  <2>1. { <<f, Constructed[f]>> : f \in Fsm } \subseteq Fsm \X State
    OBVIOUS
  <2> QED BY <1>5, <2>1 DEF Construct
<1>6. ASSUME NEW i \in Inst, NEW f \in Fsm, NEW s \in State, SetState(i, f, s) PROVE TypeOK'
  <2>1. current[i][f] \in State /\ <<f, current[i][f], s>> \in Transition
    BY DEF Transition
  <2>2. taken' \subseteq Transition
    BY <1>6, <2>1 DEF SetState
  <2>3. observable' \subseteq Fsm \X State /\ assigned' \subseteq Fsm \X State
    BY <1>6, <2>1 DEF SetState
  <2>4. /\ current' \in [Inst -> [Fsm -> State]]
        /\ entered' \in [Inst -> SUBSET Fsm]
        /\ since' \in [Inst -> [Fsm -> 0 .. MaxTime \cup {None}]]
        /\ resting' \in [Fsm -> State \cup {None}]
    BY <1>6 DEF SetState
  <2>5. sets' \in 0 .. MaxSets
    BY <1>6 DEF SetState
  <2> QED BY <1>6, <2>2, <2>3, <2>4, <2>5 DEF SetState
<1>7. CASE UNCHANGED vars
  BY <1>7 DEF vars
<1> QED BY <1>1, <1>2, <1>3, <1>4, <1>5, <1>6, <1>7 DEF Next
-----------------------------------------------------------------------------
(* The instances.                                                           *)

\* An instance is live in its own test only, and its clock entries are not ahead.
LEMMA InstancesInit == Init => Instances
BY CheckAssumption DEF Init, Instances

\* The end of a test clears its instances; setting a state dates it now.
LEMMA InstancesNext == TypeOK /\ Instances /\ [Next]_vars => Instances'
<1> SUFFICES ASSUME TypeOK, Instances, [Next]_vars PROVE Instances'
  OBVIOUS
<1> USE CheckAssumption DEF TypeOK, Instances, occupancy
<1>1. CASE BeginTest
  <2>1. \A i \in Inst : instance[i] # "live" /\ \A f \in Fsm : since[i][f] = None
    BY <1>1 DEF BeginTest
  <2> QED BY <1>1, <2>1 DEF BeginTest
<1>2. CASE Advance
  <2>1. \A i \in Inst, f \in Fsm : since[i][f] # None => since[i][f] <= now + 1
    OBVIOUS
  <2> QED BY <1>2, <2>1 DEF Advance
<1>3. CASE EndTest
  <2>1. \A i \in Inst : Live(i) <=> instance[i] = "live"
    BY DEF Live
  <2>2. \A i \in Inst : instance'[i] # "live"
    BY <1>3, <2>1 DEF EndTest
  <2>3. \A i \in Inst, f \in Fsm : since'[i][f] = None
    BY <1>3, <2>1 DEF EndTest
  <2>4. \A i \in Inst, f \in Fsm : current'[i][f] = Constructed[f]
    BY <1>3, <2>1 DEF EndTest
  <2> QED BY <1>3, <2>2, <2>3, <2>4 DEF EndTest
<1>4. CASE EndRun
  BY <1>4 DEF EndRun
<1>5. ASSUME NEW i \in Inst, Construct(i) PROVE Instances'
  <2>1. ConstructedStates \subseteq observable'
    BY <1>5 DEF Construct, ConstructedStates
  <2>2. \A j \in Inst : j # i => instance'[j] = instance[j]
    BY <1>5 DEF Construct
  <2>3. instance'[i] = "live" /\ pc' = "TEST"
    BY <1>5 DEF Construct
  <2> QED BY <1>5, <2>1, <2>2, <2>3 DEF Construct
<1>6. ASSUME NEW i \in Inst, NEW f \in Fsm, NEW s \in State, SetState(i, f, s) PROVE Instances'
  <2>1. observable \subseteq observable'
    BY <1>6 DEF SetState
  <2>2. \A j \in Inst, g \in Fsm : j # i \/ g # f =>
          since'[j][g] = since[j][g] /\ current'[j][g] = current[j][g]
    BY <1>6 DEF SetState
  <2>3. since'[i][f] = now /\ now # None /\ now <= now /\ instance[i] = "live"
    BY <1>6 DEF SetState, Live
  <2>4. UNCHANGED <<pc, now, instance>>
    BY <1>6 DEF SetState
  <2> QED BY <2>1, <2>2, <2>3, <2>4 DEF ConstructedStates
<1>7. CASE UNCHANGED vars
  BY <1>7 DEF vars
<1> QED BY <1>1, <1>2, <1>3, <1>4, <1>5, <1>6, <1>7 DEF Next

-----------------------------------------------------------------------------
(* What was held is recorded.                                               *)

\* Nothing that was held gets lost between its setting and the end of its test.
LEMMA HeldInit == Init => HeldIsRecorded
BY DEF Init, HeldIsRecorded

\* A state that is left after time has passed becomes observable.
LEMMA HeldNext == TypeOK /\ Instances /\ HeldIsRecorded /\ [Next]_vars => HeldIsRecorded'
<1> SUFFICES ASSUME TypeOK, Instances, HeldIsRecorded, [Next]_vars,
                    NEW w \in held'
             PROVE  \/ w \in observable' \cup rested'
                    \/ \E i \in Inst :
                         /\ instance'[i] = "live" /\ current'[i][w[1]] = w[2]
                         /\ since'[i][w[1]] = None \/ since'[i][w[1]] < now'
  BY DEF HeldIsRecorded
<1> USE CheckAssumption DEF TypeOK, occupancy
<1>1. CASE BeginTest
  <2>1. \A i \in Inst : instance[i] # "live"
    BY <1>1 DEF BeginTest, Instances
  <2> QED BY <1>1, <2>1 DEF BeginTest, HeldIsRecorded
<1>2. CASE Advance
  <2>1. CASE w \in held
    <3>1. CASE w \in observable \cup rested
      BY <1>2, <3>1 DEF Advance
    <3>2. CASE w \notin observable \cup rested
      <4>1. PICK i \in Inst : /\ instance[i] = "live" /\ current[i][w[1]] = w[2]
                              /\ since[i][w[1]] = None \/ since[i][w[1]] < now
        BY <2>1, <3>2 DEF HeldIsRecorded
      <4>2. w[1] \in Fsm
        BY <2>1
      <4>3. since[i][w[1]] = None \/ since[i][w[1]] < now + 1
        BY <4>1, <4>2
      <4> QED BY <1>2, <4>1, <4>3 DEF Advance
    <3> QED BY <3>1, <3>2
  <2>2. CASE w \notin held
    <3>1. PICK i \in Inst, f \in Fsm : Live(i) /\ w = <<f, current[i][f]>>
      BY <1>2, <2>2 DEF Advance
    <3>2. w[1] = f /\ w[2] = current[i][f] /\ instance[i] = "live"
      BY <3>1 DEF Live
    <3>3. since[i][f] = None \/ since[i][f] < now + 1
      BY DEF Instances
    <3> QED BY <1>2, <3>2, <3>3 DEF Advance
  <2> QED BY <2>1, <2>2
<1>3. CASE EndTest
  <2>1. CASE w \in observable \cup rested
    BY <1>3, <2>1 DEF EndTest
  <2>2. CASE w \notin observable \cup rested
    <3>1. PICK i \in Inst : instance[i] = "live" /\ current[i][w[1]] = w[2]
      BY <1>3, <2>2 DEF HeldIsRecorded, EndTest
    <3>2. w \in Fsm \X State /\ Live(i)
      BY <1>3, <3>1 DEF EndTest, Live
    <3>3. w[1] \in Fsm /\ w = <<w[1], current[i][w[1]]>>
      BY <3>1, <3>2
    <3> QED BY <1>3, <3>2, <3>3 DEF EndTest
  <2> QED BY <2>1, <2>2
<1>4. CASE EndRun
  BY <1>4 DEF EndRun, HeldIsRecorded
<1>5. ASSUME NEW i \in Inst, Construct(i)
      PROVE  \/ w \in observable' \cup rested'
             \/ \E j \in Inst :
                  /\ instance'[j] = "live" /\ current'[j][w[1]] = w[2]
                  /\ since'[j][w[1]] = None \/ since'[j][w[1]] < now'
  <2>1. \A j \in Inst : instance[j] = "live" => instance'[j] = "live"
    BY <1>5 DEF Construct
  <2> QED BY <1>5, <2>1 DEF Construct, HeldIsRecorded
<1>6. ASSUME NEW i \in Inst, NEW f \in Fsm, NEW s \in State, SetState(i, f, s)
      PROVE  \/ w \in observable' \cup rested'
             \/ \E j \in Inst :
                  /\ instance'[j] = "live" /\ current'[j][w[1]] = w[2]
                  /\ since'[j][w[1]] = None \/ since'[j][w[1]] < now'
  <2>1. UNCHANGED <<now, instance, held, rested>> /\ observable \subseteq observable'
    BY <1>6 DEF SetState
  <2>2. CASE w \in observable \cup rested
    BY <2>1, <2>2
  <2>3. CASE w \notin observable \cup rested
    <3>1. PICK j \in Inst : /\ instance[j] = "live" /\ current[j][w[1]] = w[2]
                            /\ since[j][w[1]] = None \/ since[j][w[1]] < now
      BY <2>1, <2>3 DEF HeldIsRecorded
    <3>2. w \in Fsm \X State /\ w = <<w[1], w[2]>>
      BY <2>1
    <3>3. CASE j = i /\ w[1] = f
      <4>1. since[i][f] # None
        <5>1. ASSUME since[i][f] = None PROVE w \in ConstructedStates
          BY <3>1, <3>2, <3>3, <5>1 DEF Instances, ConstructedStates
        <5> QED BY <2>3, <3>1, <3>3, <5>1 DEF Instances
      <4>2. now > since[i][f] /\ w = <<f, current[i][f]>>
        BY <3>1, <3>2, <3>3, <4>1
      <4> QED BY <1>6, <4>1, <4>2 DEF SetState
    <3>4. CASE ~(j = i /\ w[1] = f)
      <4>1. since'[j][w[1]] = since[j][w[1]] /\ current'[j][w[1]] = current[j][w[1]]
        BY <1>6, <3>2, <3>4 DEF SetState
      <4> QED BY <2>1, <3>1, <4>1
    <3> QED BY <3>3, <3>4
  <2> QED BY <2>2, <2>3
<1>7. CASE UNCHANGED vars
  BY <1>7 DEF vars, HeldIsRecorded
<1> QED BY <1>1, <1>2, <1>3, <1>4, <1>5, <1>6, <1>7 DEF Next
-----------------------------------------------------------------------------
(* What is recorded was held.                                               *)

\* Nothing is observable that was not held or constructed.
LEMMA RecordedInit == Init => RecordedWasHeld
BY CheckAssumption DEF Init, RecordedWasHeld

\* Only a state that time has passed in becomes observable.
LEMMA RecordedNext == TypeOK /\ Instances /\ RecordedWasHeld /\ [Next]_vars => RecordedWasHeld'
<1> SUFFICES ASSUME TypeOK, Instances, RecordedWasHeld, [Next]_vars PROVE RecordedWasHeld'
  OBVIOUS
<1> USE CheckAssumption DEF TypeOK, RecordedWasHeld, occupancy
<1>1. CASE BeginTest
  <2>1. \A i \in Inst, f \in Fsm : since[i][f] = None
    BY <1>1 DEF BeginTest, Instances
  <2> QED BY <1>1, <2>1 DEF BeginTest
<1>2. CASE Advance
  <2>1. held \subseteq held'
    BY <1>2 DEF Advance
  <2>2. ASSUME NEW i \in Inst, NEW f \in Fsm, since[i][f] # None
        PROVE  <<f, current[i][f]>> \in held'
    BY <1>2, <2>2 DEF Advance, Live, Instances
  <2> QED BY <1>2, <2>1, <2>2 DEF Advance
<1>3. CASE EndTest
  <2>1. \A i \in Inst, f \in Fsm : since'[i][f] = None
    BY <1>3 DEF EndTest, Live, Instances
  <2> QED BY <1>3, <2>1 DEF EndTest
<1>4. CASE EndRun
  BY <1>4 DEF EndRun
<1>5. ASSUME NEW i \in Inst, Construct(i) PROVE RecordedWasHeld'
  BY <1>5 DEF Construct, ConstructedStates
<1>6. ASSUME NEW i \in Inst, NEW f \in Fsm, NEW s \in State, SetState(i, f, s)
      PROVE  RecordedWasHeld'
  <2>1. UNCHANGED <<now, held>>
    BY <1>6 DEF SetState
  <2>2. observable' \subseteq held \cup ConstructedStates
    <3>1. CASE since[i][f] = None
      BY <1>6, <3>1 DEF SetState
    <3>2. CASE since[i][f] # None
      BY <1>6, <3>2 DEF SetState
    <3> QED BY <3>1, <3>2
  <2>3. \A j \in Inst, g \in Fsm : j # i \/ g # f =>
          since'[j][g] = since[j][g] /\ current'[j][g] = current[j][g]
    BY <1>6 DEF SetState
  <2>4. since'[i][f] = now /\ ~(now < now)
    BY <1>6 DEF SetState
  <2> QED BY <2>1, <2>2, <2>3, <2>4
<1>7. CASE UNCHANGED vars
  BY <1>7 DEF vars
<1> QED BY <1>1, <1>2, <1>3, <1>4, <1>5, <1>6, <1>7 DEF Next

-----------------------------------------------------------------------------
(* The report.                                                              *)

\* The parts together are inductive.
LEMMA IInvInductive == Spec => []IInv
<1>1. Init => IInv
  BY TypeInit, InstancesInit, HeldInit, RecordedInit DEF IInv
<1>2. IInv /\ [Next]_vars => IInv'
  BY TypeNext, InstancesNext, HeldNext, RecordedNext DEF IInv
<1> QED BY <1>1, <1>2, PTL DEF Spec

\* NEVER OCCUPIED is measured, for any FSMs, templates, tests and lengths of them:
\* what is reported, and noted of a wait point, was not held while the clock of
\* a test moved, but where an instance ended its test, and the rest was.
THEOREM ReportIsMeasured == Spec => []OccupancyIsMeasured
<1>1. IInv => OccupancyIsMeasured
  <2> SUFFICES ASSUME IInv, pc = "DONE", NEW t \in Template
               PROVE  /\ (UnobservableStates(t) \cup UnoccupiedWaitPoints(t)) \cap held \subseteq rested
                      /\ \A w \in assigned \cap (t.states \cup t.waitPoints) :
                           \/ w \in held \cup UnobservableStates(t) \cup UnoccupiedWaitPoints(t)
                           \/ w[2] \in {Constructed[w[1]], resting[w[1]]}
    BY DEF OccupancyIsMeasured, IInv
  <2>1. \A i \in Inst : instance[i] # "live"
    BY DEF IInv, Instances
  <2>2. held \subseteq observable \cup rested
    BY <2>1 DEF IInv, HeldIsRecorded
  <2>3. \A w \in observable : w \in held \/ w[2] = Constructed[w[1]]
    BY DEF IInv, RecordedWasHeld, ConstructedStates
  <2> QED BY <2>2, <2>3 DEF UnobservableStates, UnoccupiedWaitPoints, Unobservable
<1> QED BY <1>1, IInvInductive, PTL

\* One round of rulings is enough, for every template: declaring what was
\* undeclared and withdrawing what was never taken brings up nothing new, a dead
\* end left by a withdrawal included.
THEOREM RulingsSettle == Spec => []RulingSettles
<1>1. ASSUME TypeOK, NEW t \in Template PROVE Findings(Ruled(t)) = {}
  <2> DEFINE Declared == t.transitions
             Added == Undeclared(t) \ FromDeadEnd(t)
             After == (Declared \cup Added) \ NeverTaken(t)
  <2>1. /\ { e \in Transition : <<"undeclared", e>> \in Findings(t) } = Added
        /\ { e \in Transition : <<"never_taken", e>> \in Findings(t) } = NeverTaken(t)
    <3>1. Added \subseteq Transition /\ NeverTaken(t) \subseteq Transition
      BY <1>1, CheckAssumption DEF TypeOK, Undeclared, NeverTaken
    <3>2. \A e : <<"undeclared", e>> \in Findings(t) <=> e \in Added
      BY DEF Findings
    <3>3. \A e : <<"never_taken", e>> \in Findings(t) <=> e \in NeverTaken(t)
      BY DEF Findings
    <3> QED BY <3>1, <3>2, <3>3
  <2>2. Ruled(t).transitions = After /\ Ruled(t).states = t.states
    BY <2>1, CheckAssumption DEF Ruled
  <2>3. NeverTaken(Ruled(t)) = {}
    BY <2>2 DEF NeverTaken, Undeclared
  <2>4. ASSUME NEW e \in Undeclared(Ruled(t)) PROVE e \in FromDeadEnd(Ruled(t))
    <3>1. e \in FromDeadEnd(t)
      BY <2>2 DEF Undeclared, NeverTaken
    <3>2. ASSUME NEW x \in After, x[1] = e[1], x[2] = e[2] PROVE FALSE
      <4>1. x \notin Declared
        BY <3>1, <3>2 DEF FromDeadEnd, StatesWithoutExit
      <4>2. x \in FromDeadEnd(t)
        BY <3>1, <3>2, <4>1 DEF FromDeadEnd
      <4> QED BY <3>2, <4>1, <4>2
    <3>3. <<e[1], e[2]>> \in StatesWithoutExit(Ruled(t))
      BY <2>2, <3>1, <3>2 DEF FromDeadEnd, StatesWithoutExit
    <3> QED BY <3>3 DEF FromDeadEnd
  <2> QED BY <2>3, <2>4 DEF Findings
<1>2. IInv => RulingSettles
  BY <1>1 DEF IInv, RulingSettles
<1> QED BY <1>2, IInvInductive, PTL

=============================================================================
