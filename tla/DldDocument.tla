------------------------------ MODULE DldDocument ------------------------------
(***************************************************************************)
(* A DLD as tools/dld_to_template.py reads it, and the draft template it   *)
(* makes of one.                                                           *)
(*                                                                         *)
(* A document is [sections, count, rows]: its headed sections in order,    *)
(* the stated "Total FSM/processes" (None if there is none), and the rows  *)
(* of the timing table.  A section is                                      *)
(*   [heading, title, name, states, wait, text, marked]:                   *)
(* what its heading is to the extractor ("fsm", "interface", "plain"), the *)
(* words of the heading, the name in it, the bullets under "States:", the  *)
(* "Wait model:" block, the words of its prose, and those of them that are *)
(* set in backticks.  Wording is abstracted to sets of words, of which     *)
(* Parts, Mode and the constants of Normalization say what kind they are.  *)
(* A document heads no two FSMs, and no two interfaces, by one name.       *)
(***************************************************************************)
EXTENDS Naturals, FiniteSets, Sequences, TLC

CONSTANTS
  Mode,         \* WAIT_MODES
  DefaultMode,  \* DEFAULT_WAIT_MODE
  Parts,        \* of a dotted name (a wait point): the words it joins
  Todo,         \* TODO_REVIEW
  None          \* what a document does not state; a file that does not exist

ASSUME ModeAssumption ==
  /\ DefaultMode \in Mode
  /\ None \notin Mode \cup DOMAIN Parts /\ Todo \notin Mode \cup DOMAIN Parts

NoWait == [block |-> FALSE, mode |-> None, points |-> {}]

-----------------------------------------------------------------------------
(* What is extracted.                                                       *)

Headed(d, heading) == { i \in DOMAIN d.sections : d.sections[i].heading = heading }
Names(d, heading) == { d.sections[i].name : i \in Headed(d, heading) }

SplitBlocks(d, heading) ==
  [n \in Names(d, heading) |->
     d.sections[CHOOSE i \in Headed(d, heading) : d.sections[i].name = n]]

\* The states listed in each FSM section; none if its states are written in
\* some other form.
ExtractFsms(d) == [f \in Names(d, "fsm") |-> SplitBlocks(d, "fsm")[f].states]

\* A mode that is none of the three counts as unstated, whatever else the
\* block says.
ExtractWaitModel(wait) ==
  LET stated == wait.mode \in Mode
  IN [mode |-> IF stated THEN wait.mode ELSE DefaultMode,
      points |-> IF wait.points = {} THEN {Todo} ELSE wait.points,
      source |-> IF stated THEN "dld" ELSE "assumed_default"]

ExtractInterfaces(d) ==
  [n \in Names(d, "interface") |-> ExtractWaitModel(SplitBlocks(d, "interface")[n].wait)]

ExtractFsmCount(d) == IF d.count = None THEN Cardinality(Names(d, "fsm")) ELSE d.count

\* The last row that names an FSM counts, and rows that name none of the
\* document's FSMs are passed over.
ExtractTimingTable(d) ==
  [f \in { d.rows[i].fsm : i \in DOMAIN d.rows } \cap Names(d, "fsm") |->
     LET last == CHOOSE i \in DOMAIN d.rows :
                   /\ d.rows[i].fsm = f
                   /\ \A j \in DOMAIN d.rows : d.rows[j].fsm = f => j <= i
     IN d.rows[last].ops]

-----------------------------------------------------------------------------
(* The draft template.                                                      *)

\* An FSM without readable states is given two, and every state one
\* transition, to be reviewed.
BuildFsmEntry(states) ==
  LET given == IF states = {} THEN {"RESET", "IDLE"} ELSE states
  IN [states |-> given, exits |-> [s \in given |-> {Todo}]]

OrPlaceholder(f, placeholder) == IF DOMAIN f = {} THEN [n \in {Todo} |-> placeholder] ELSE f

BuildTiming(d) ==
  [f \in Names(d, "fsm") |->
     IF f \in DOMAIN ExtractTimingTable(d) THEN ExtractTimingTable(d)[f] ELSE {Todo}]

BuildDraft(d) ==
  [fsms |-> OrPlaceholder([f \in Names(d, "fsm") |-> BuildFsmEntry(ExtractFsms(d)[f])],
                          BuildFsmEntry({})),
   interfaces |-> OrPlaceholder(ExtractInterfaces(d), ExtractWaitModel(NoWait)),
   count |-> ExtractFsmCount(d),
   timing |-> OrPlaceholder(BuildTiming(d), {Todo})]

=============================================================================
