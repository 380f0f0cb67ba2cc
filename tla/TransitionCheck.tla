--------------------------- MODULE TransitionCheck ---------------------------
(***************************************************************************)
(* tools/check_declared_transitions.py: a model's own tests are run with   *)
(* its fsm_state replaced by a RecordingState, and what it recorded is     *)
(* compared with the template; and what check_wait_model_coverage.py makes *)
(* of the same record.                                                     *)
(*                                                                         *)
(* A test makes a simulation environment and some model instances in it,   *)
(* whose processes set their FSMs' states while the clock advances.  The   *)
(* record is one for all the tests of a run.                               *)
(***************************************************************************)
EXTENDS Naturals, FiniteSets

CONSTANTS
  Fsm, State,
  Constructed,  \* the states a model's constructor gives its FSMs
  Template,     \* the templates a run may find
  Inst,         \* the model instances the tests construct
  MaxTime,      \* how long a test's simulation is
  MaxSets,      \* how often a state is set
  None

Transition == Fsm \X State \X State

ASSUME CheckAssumption ==
  /\ Constructed \in [Fsm -> State] /\ None \notin State
  /\ Template \subseteq [states : SUBSET (Fsm \X State), transitions : SUBSET Transition,
                         waitPoints : SUBSET (Fsm \X State)]
  /\ MaxTime \in Nat /\ MaxSets \in Nat /\ None \notin Nat

VARIABLES
  pc,           \* between tests, in one, or done with them
  now,          \* the clock of the test's environment
  instance,     \* which instances exist: the test's own are "live"
  current,      \* each instance's fsm_state
  entered,      \* _entered: the FSMs it has set
  since,        \* _since: when
  taken,        \* the sink of all instances
  assigned, observable, resting,  \* Occupancy
  sets,         \* how often a state was set
  held,         \* history: the states that held while a clock advanced,
  rested        \* and those in which an instance ended its test

occupancy == <<assigned, observable, resting>>
vars == <<pc, now, instance, current, entered, since, taken, occupancy, sets, held, rested>>

Init ==
  /\ pc = "BETWEEN" /\ now = 0
  /\ instance = [i \in Inst |-> "unborn"]
  /\ current = [i \in Inst |-> Constructed]
  /\ entered = [i \in Inst |-> {}] /\ since = [i \in Inst |-> [f \in Fsm |-> None]]
  /\ taken = {} /\ sets = 0
  /\ assigned = {} /\ observable = {} /\ resting = [f \in Fsm |-> None]
  /\ held = {} /\ rested = {}

Live(i) == pc = "TEST" /\ instance[i] = "live"

-----------------------------------------------------------------------------
(* The tests, and what the instrumentation records of them.                 *)

BeginTest ==
  /\ pc = "BETWEEN" /\ \E i \in Inst : instance[i] = "unborn"
  /\ pc' = "TEST" /\ now' = 0
  /\ UNCHANGED <<instance, current, entered, since, taken, occupancy, sets, held, rested>>

\* The wrapped constructor: what it gave counts as observable, since a test
\* may read it before the simulation starts.
Construct(i) ==
  /\ pc = "TEST" /\ instance[i] = "unborn"
  /\ instance' = [instance EXCEPT ![i] = "live"]
  /\ assigned' = assigned \cup { <<f, Constructed[f]>> : f \in Fsm }
  /\ observable' = observable \cup { <<f, Constructed[f]>> : f \in Fsm }
  /\ UNCHANGED <<pc, now, current, entered, since, taken, resting, sets, held, rested>>

Advance ==
  /\ pc = "TEST" /\ now < MaxTime
  /\ now' = now + 1
  /\ held' = held \cup { <<f, current[i][f]>> : i \in { j \in Inst : Live(j) }, f \in Fsm }
  /\ UNCHANGED <<pc, instance, current, entered, since, taken, occupancy, sets, rested>>

\* Fault: a state is timed from its FSM's first entry.
SetStateTimedOnce(i, f, s) ==
  /\ Live(i) /\ sets < MaxSets
  /\ sets' = sets + 1
  /\ LET previous == current[i][f]
         enteredAt == IF since[i][f] = None THEN now ELSE since[i][f]
     IN /\ taken' = IF f \notin entered[i] /\ previous = s THEN taken
                    ELSE taken \cup {<<f, previous, s>>}
        /\ observable' = IF now > enteredAt THEN observable \cup {<<f, previous>>} ELSE observable
        /\ since' = [since EXCEPT ![i][f] = enteredAt]
  /\ entered' = [entered EXCEPT ![i] = @ \cup {f}]
  /\ current' = [current EXCEPT ![i][f] = s]
  /\ assigned' = assigned \cup {<<f, s>>}
  /\ resting' = [resting EXCEPT ![f] = s]
  /\ UNCHANGED <<pc, now, instance, held, rested>>

\* RecordingState.__setitem__.  An instance whose first act is to announce what
\* its constructor set makes no transition; time that passed makes the state
\* that is left an observable one.
SetState(i, f, s) ==
  /\ Live(i) /\ sets < MaxSets
  /\ sets' = sets + 1
  /\ LET previous == current[i][f]
         enteredAt == IF since[i][f] = None THEN now ELSE since[i][f]
     IN /\ taken' = IF f \notin entered[i] /\ previous = s THEN taken
                    ELSE taken \cup {<<f, previous, s>>}
        /\ observable' = IF now > enteredAt THEN observable \cup {<<f, previous>>} ELSE observable
  /\ since' = [since EXCEPT ![i][f] = now]
  /\ entered' = [entered EXCEPT ![i] = @ \cup {f}]
  /\ current' = [current EXCEPT ![i][f] = s]
  /\ assigned' = assigned \cup {<<f, s>>}
  /\ resting' = [resting EXCEPT ![f] = s]
  /\ UNCHANGED <<pc, now, instance, held, rested>>

\* The test returns, and its environment goes with its instances.
EndTest ==
  /\ pc = "TEST"
  /\ pc' = "BETWEEN" /\ now' = 0
  /\ rested' = rested \cup { <<f, current[i][f]>> : i \in { j \in Inst : Live(j) }, f \in Fsm }
  /\ instance' = [i \in Inst |-> IF Live(i) THEN "gone" ELSE instance[i]]
  /\ current' = [i \in Inst |-> IF Live(i) THEN Constructed ELSE current[i]]
  /\ entered' = [i \in Inst |-> IF Live(i) THEN {} ELSE entered[i]]
  /\ since' = [i \in Inst |-> IF Live(i) THEN [f \in Fsm |-> None] ELSE since[i]]
  /\ UNCHANGED <<taken, occupancy, sets, held>>

EndRun ==
  /\ pc = "BETWEEN" /\ \E i \in Inst : instance[i] = "gone"
  /\ pc' = "DONE"
  /\ UNCHANGED <<now, instance, current, entered, since, taken, occupancy, sets, held, rested>>

Next ==
  \/ BeginTest \/ Advance \/ EndTest \/ EndRun
  \/ \E i \in Inst : Construct(i) \/ \E f \in Fsm, s \in State : SetState(i, f, s)

Spec == Init /\ [][Next]_vars

-----------------------------------------------------------------------------
(* The report, for a template t.                                            *)

\* Fault: a state nothing leads to is taken for one that nothing leads out of.
StatesWithoutEntry(t) == { w \in t.states : ~ \E e \in t.transitions : e[1] = w[1] /\ e[3] = w[2] }

StatesWithoutExit(t) == { w \in t.states : ~ \E e \in t.transitions : e[1] = w[1] /\ e[2] = w[2] }

Undeclared(t) == taken \ t.transitions
FromDeadEnd(t) == { e \in Undeclared(t) : <<e[1], e[2]>> \in StatesWithoutExit(t) }
NeverTaken(t) == t.transitions \ taken

\* Occupancy.unobservable, of every state the model wrote.
Unobservable == { w \in assigned \ observable : resting[w[1]] # w[2] }
UnobservableStates(t) == Unobservable \cap t.states

\* What --emit-findings asks a person to rule on.
Findings(t) ==
  { <<"undeclared", e>> : e \in Undeclared(t) \ FromDeadEnd(t) }
    \cup { <<"never_taken", e>> : e \in NeverTaken(t) }

\* The wait points check_wait_model_coverage notes.
UnoccupiedWaitPoints(t) == t.waitPoints \cap Unobservable

-----------------------------------------------------------------------------
(* What the check promises.                                                 *)

TypeOK ==
  /\ pc \in {"BETWEEN", "TEST", "DONE"} /\ now \in 0 .. MaxTime /\ sets \in 0 .. MaxSets
  /\ instance \in [Inst -> {"unborn", "live", "gone"}] /\ current \in [Inst -> [Fsm -> State]]
  /\ entered \in [Inst -> SUBSET Fsm] /\ since \in [Inst -> [Fsm -> 0 .. MaxTime \cup {None}]]
  /\ taken \subseteq Transition
  /\ {assigned, observable, held, rested} \subseteq SUBSET (Fsm \X State)
  /\ resting \in [Fsm -> State \cup {None}]

\* NEVER OCCUPIED is measured.  No state that was held while the clock moved is
\* reported, unless it is one in which another instance ended its test (the
\* record has one resting state per FSM); and every state the model wrote that
\* is not reported was held, or is what the constructor gave or where the run
\* ended.  What is noted of a wait point is as true.
OccupancyIsMeasured ==
  /\ TypeOK
  /\ pc = "DONE" =>
       \A t \in Template :
         /\ (UnobservableStates(t) \cup UnoccupiedWaitPoints(t)) \cap held \subseteq rested
         /\ \A w \in assigned \cap (t.states \cup t.waitPoints) :
              \/ w \in held \cup UnobservableStates(t) \cup UnoccupiedWaitPoints(t)
              \/ w[2] \in {Constructed[w[1]], resting[w[1]]}

\* The template as its findings ask for it, all ruled in favour of the model:
\* the undeclared transitions declared, those never taken withdrawn.
Ruled(t) ==
  [t EXCEPT !.transitions =
     (@ \cup { e \in Transition : <<"undeclared", e>> \in Findings(t) })
        \ { e \in Transition : <<"never_taken", e>> \in Findings(t) }]

\* A person who rules on every finding that way is done: the next run of the
\* same tests finds nothing.
RulingSettles == \A t \in Template : Findings(Ruled(t)) = {}

=============================================================================
