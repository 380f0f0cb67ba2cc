-------------------------- MODULE StageEngine_proofs --------------------------
(***************************************************************************)
(* Theorems about StageEngine: its types, and what a run that nobody edits *)
(* under may rely on - that the verdicts it has cached are true, that      *)
(* "complete" is, that it takes one path and reviews what is in the tree.  *)
(* Dismissals clear their own findings whoever edits when.                 *)
(*                                                                         *)
(* The stage list is a constant of 19 records; the first lemmas say once   *)
(* what is at which place, and the proofs go by them.                      *)
(***************************************************************************)
EXTENDS StageEngine, TLAPS

-----------------------------------------------------------------------------
(* The stage list, by kind.                                                 *)

AgentAt(i, name, when, gates, attempts) ==
  /\ Stage[i].name = name /\ Stage[i].when = when
  /\ Stage[i].gates = gates /\ Stage[i].attempts = attempts

ToolAt(i, name, when) == Stage[i].name = name /\ Stage[i].when = when

LEMMA StageCount == Len(Stage) = 19 /\ DOMAIN Stage = 1 .. 19
BY DEF Stage, Agent, Tool

LEMMA AgentStage ==
  ASSUME NEW i \in 1 .. Len(Stage), Stage[i].kind = "agent"
  PROVE  \/ i = 1 /\ AgentAt(i, "normalize_dld", "src_dld_exists", <<"check_normalization">>, 2)
         \/ i = 3 /\ AgentAt(i, "review_normalization", "src_dld_exists",
                             <<"check_normalization_review_owed">>, 1)
         \/ i = 8 /\ AgentAt(i, "complete_template", "always",
                             <<"check_dld_coverage", "lint_template">>, 1)
         \/ i = 13 /\ AgentAt(i, "agent_implementation", "model_new", <<"unit_tests">>, 3)
         \/ i = 14 /\ AgentAt(i, "amend_implementation", "model_exists", <<"unit_tests">>, 3)
         \/ i = 16 /\ AgentAt(i, "review_model", "always", <<"check_model_review_owed">>, 1)
<1>1. i \in 1 .. 19
  BY StageCount
<1> QED BY <1>1 DEF Stage, Agent, Tool, AgentAt, MaxIterations

LEMMA ToolStage ==
  ASSUME NEW i \in 1 .. Len(Stage), Stage[i].kind = "tool"
  PROVE  \/ i = 2 /\ ToolAt(i, "check_normalization", "src_dld_exists")
         \/ i = 4 /\ ToolAt(i, "check_normalization_review_owed", "src_dld_exists")
         \/ i = 5 /\ ToolAt(i, "check_review_findings", "src_dld_exists")
         \/ i = 6 /\ ToolAt(i, "check_normalization_stamp", "src_dld_exists")
         \/ i = 7 /\ ToolAt(i, "parse_dld", "always")
         \/ i = 9 /\ ToolAt(i, "check_dld_coverage", "always")
         \/ i = 10 /\ ToolAt(i, "lint_template", "always")
         \/ i = 11 /\ ToolAt(i, "generate_scaffold", "model_new")
         \/ i = 12 /\ ToolAt(i, "generate_prompt_pack", "always")
         \/ i = 15 /\ ToolAt(i, "unit_tests", "always")
         \/ i = 17 /\ ToolAt(i, "check_model_review_owed", "always")
         \/ i = 18 /\ ToolAt(i, "recheck_review_findings", "always")
         \/ i = 19 /\ ToolAt(i, "stamp_provenance", "always")
<1>1. i \in 1 .. 19
  BY StageCount
<1> QED BY <1>1 DEF Stage, Agent, Tool, ToolAt

LEMMA ToolHasNoGates ==
  ASSUME NEW i \in 1 .. Len(Stage), Stage[i].kind # "agent"
  PROVE  DOMAIN Stage[i].gates = {}
<1>1. i \in 1 .. 19
  BY StageCount
<1>2. i \in {2, 4, 5, 6, 7, 9, 10, 11, 12, 15, 17, 18, 19}
  BY <1>1 DEF Stage, Agent, Tool
<1>3. /\ Stage[2].gates = <<>> /\ Stage[4].gates = <<>> /\ Stage[5].gates = <<>>
      /\ Stage[6].gates = <<>> /\ Stage[7].gates = <<>> /\ Stage[9].gates = <<>>
      /\ Stage[10].gates = <<>> /\ Stage[11].gates = <<>> /\ Stage[12].gates = <<>>
      /\ Stage[15].gates = <<>> /\ Stage[17].gates = <<>> /\ Stage[18].gates = <<>>
      /\ Stage[19].gates = <<>>
  BY DEF Stage, Agent, Tool
<1>4. Stage[i].gates = <<>>
  BY <1>2, <1>3
<1> QED BY <1>4

LEMMA GatesAreStages ==
  {"check_normalization", "check_normalization_review_owed", "check_dld_coverage", "lint_template",
   "unit_tests", "check_model_review_owed"} \subseteq { Stage[i].name : i \in DOMAIN Stage }
<1> DEFINE name(i) == Stage[i].name
<1>1. /\ name(2) = "check_normalization" /\ name(4) = "check_normalization_review_owed"
      /\ name(9) = "check_dld_coverage" /\ name(10) = "lint_template"
      /\ name(15) = "unit_tests" /\ name(17) = "check_model_review_owed"
  BY DEF Stage, Agent, Tool
<1>2. {2, 4, 9, 10, 15, 17} \subseteq DOMAIN Stage
  BY StageCount
<1> QED BY <1>1, <1>2

-----------------------------------------------------------------------------
(* Where a run is: what its control state says of the stage it is at.       *)

AgentPc == {"GATES", "DISPATCH", "AGENT", "PROVISIONED", "REVIEWING"}

Place ==
  /\ pc = "IDLE" => at = 1 /\ passed = {}
  /\ pc \in AgentPc =>
       /\ at <= Len(Stage) /\ Stage[at].kind = "agent" /\ Applicable(Stage[at])
       /\ gate <= Len(Stage[at].gates) /\ attempt <= Stage[at].attempts
  /\ pc # "GATES" => gate = 1
  /\ pc \in {"IDLE", "STAGE"} => attempt = 0
  /\ pc = "AGENT" => ReviewKind(Stage[at].name) = None
  /\ pc \in {"PROVISIONED", "REVIEWING"} => ReviewKind(Stage[at].name) \in Kind

Typed == FileTypes /\ RecordTypes /\ RunTypes /\ Place

LEMMA TypedInit == Init => Typed
<1> SUFFICES ASSUME Init PROVE Typed
  OBVIOUS
<1> USE DEF Init
<1>1. FileTypes
  BY DEF FileTypes, Artifact
<1>2. RecordTypes
  BY DEF RecordTypes, NoReview
<1>3. RunTypes
  <2>1. at \in 1 .. Len(Stage) + 1
    BY StageCount
  <2>2. status[1] \in {"none", "complete", "awaiting", "failed", "dry-run"}
    OBVIOUS
  <2>3. gate \in 1 .. 2 /\ attempt \in 0 .. MaxIterations
    BY DEF MaxIterations
  <2> QED BY <2>1, <2>2, <2>3 DEF RunTypes
<1>4. Place
  BY DEF Place, AgentPc
<1> QED BY <1>1, <1>2, <1>3, <1>4 DEF Typed

Review == [made : BOOLEAN, current : BOOLEAN, ids : SUBSET Id, by : {None, "reviewer", "check"}]

LEMMA ReviewWithCurrent ==
  ASSUME NEW r \in Review, NEW b \in BOOLEAN
  PROVE  /\ [r EXCEPT !.current = b] \in Review
         /\ [r EXCEPT !.current = b].made = r.made /\ [r EXCEPT !.current = b].ids = r.ids
         /\ [r EXCEPT !.current = b].current = b
BY DEF Review

\* What a write leaves of the reviews.
LEMMA WriteReviews ==
  ASSUME RecordTypes, NEW a, Write(a), NEW k \in Kind
  PROVE  /\ review' \in [Kind -> Review] /\ review'[k].made = review[k].made
         /\ review'[k].ids = review[k].ids
         /\ review'[k].current <=> review[k].current /\ a \notin Subjects(k)
<1> DEFINE b(j) == review[j].current /\ a \notin Subjects(j)
           was(j) == [review[j] EXCEPT !.current = b(j)]
<1>1. review' = [j \in Kind |-> was(j)]
  BY DEF Write
<1>2. ASSUME NEW j \in Kind
      PROVE  was(j) \in Review /\ was(j).made = review[j].made /\ was(j).ids = review[j].ids
               /\ was(j).current = b(j)
  <2>1. review[j] \in Review
    BY DEF RecordTypes, Review
  <2>2. b(j) \in BOOLEAN
    OBVIOUS
  <2> HIDE DEF b
  <2> QED BY <2>1, <2>2, ReviewWithCurrent
<1> HIDE DEF was
<1>3. review' \in [Kind -> Review]
  BY <1>1, <1>2
<1>4. review'[k] = was(k)
  BY <1>1
<1>5. review'[k].current <=> b(k)
  BY <1>2, <1>4
<1> QED BY <1>2, <1>3, <1>4, <1>5

\* A write keeps the types, if the model it leaves is a scaffold only when it
\* was one or has just been written.
LEMMA WriteTypes ==
  ASSUME FileTypes, RecordTypes, NEW a \in Artifact, Write(a),
         bare' \in BOOLEAN, bare' /\ a # "model" => bare
  PROVE  FileTypes' /\ RecordTypes'
<1>1. exists' = exists \cup {a} /\ dirty' = dirty \cup {a} /\ tracked' = tracked
  BY DEF Write
<1> DEFINE touched == { g \in ContentGate : a \in Reads(g) }
           judged == { g \in touched : Reads(g) \subseteq exists' /\ ~(g = "unit_tests" /\ bare') }
<1>2. PICK pass \in SUBSET judged : verdict' = (verdict \ touched) \cup pass
  BY DEF Write
<1>3. verdict' \subseteq { g \in ContentGate : Reads(g) \subseteq exists' }
  BY <1>1, <1>2 DEF FileTypes
<1>4. bare' => "model" \in exists' /\ "unit_tests" \notin verdict'
  <2> SUFFICES ASSUME bare' PROVE "model" \in exists' /\ "unit_tests" \notin verdict'
    OBVIOUS
  <2>1. "unit_tests" \notin pass
    BY <1>2
  <2>2. CASE a = "model"
    <3>1. "unit_tests" \in touched
      BY <2>2 DEF ContentGate, Reads
    <3> QED BY <1>1, <1>2, <2>1, <2>2, <3>1
  <2>3. CASE a # "model"
    BY <1>1, <1>2, <2>1, <2>3 DEF FileTypes
  <2> QED BY <2>2, <2>3
<1>5. stamped' \in BOOLEAN /\ baselined' \in BOOLEAN
  BY DEF Write, FileTypes
<1>6. FileTypes'
  BY <1>1, <1>3, <1>4, <1>5 DEF FileTypes
<1>7. review' \in [Kind -> Review]
  BY WriteReviews DEF Kind
<1>9. RecordTypes'
  BY <1>7 DEF RecordTypes, Review, Write
<1> QED BY <1>6, <1>9

LEMMA FilesStay ==
  ASSUME FileTypes, RecordTypes, UNCHANGED <<files, records>>
  PROVE  FileTypes' /\ RecordTypes'
BY DEF FileTypes, RecordTypes, files, records

\* A step to another stage, and the end of a run, leave the run in its types.
LEMMA ToStageTypes ==
  ASSUME RunTypes, NEW i \in 1 .. Len(Stage) + 1, ToStage(i),
         passed' \subseteq { Stage[j].name : j \in DOMAIN Stage }
  PROVE  RunTypes' /\ Place'
<1>1. RunTypes'
  BY DEF RunTypes, ToStage, MaxIterations
<1>2. Place'
  BY DEF Place, ToStage, AgentPc
<1> QED BY <1>1, <1>2

LEMMA ReportTypes ==
  ASSUME RunTypes, NEW outcome, Report(outcome),
         outcome[1] \in {"complete", "awaiting", "failed", "dry-run"}
  PROVE  RunTypes' /\ Place'
<1>1. RunTypes'
  <2>1. at' \in 1 .. Len(Stage) + 1
    BY StageCount DEF Report
  <2>2. gate' \in 1 .. 2 /\ attempt' \in 0 .. MaxIterations
    BY DEF Report, MaxIterations
  <2> QED BY <2>1, <2>2 DEF RunTypes, Report
<1>2. Place'
  BY DEF Place, Report, AgentPc
<1> QED BY <1>1, <1>2

LEMMA ReviewedTypes ==
  ASSUME RecordTypes, NEW k \in Kind, NEW asInTree \in BOOLEAN, Reviewed(k, asInTree), dismissed' = dismissed
  PROVE  RecordTypes'
<1>1. CASE UNCHANGED <<review, used>>
  BY <1>1 DEF RecordTypes
<1>2. CASE /\ review' = [review EXCEPT ![k] =
                           [made |-> TRUE, current |-> FALSE, ids |-> {}, by |-> "reviewer"]]
           /\ UNCHANGED used
  BY <1>2 DEF RecordTypes
<1>3. CASE \E i \in NextIds(k) : \E found \in SUBSET (Id \cap {i}) :
             /\ review' = [review EXCEPT ![k] =
                             [made |-> TRUE, current |-> asInTree, ids |-> found, by |-> "reviewer"]]
             /\ used' = used \cup found
  <2>1. PICK i \in NextIds(k) : \E found \in SUBSET (Id \cap {i}) :
             /\ review' = [review EXCEPT ![k] =
                             [made |-> TRUE, current |-> asInTree, ids |-> found, by |-> "reviewer"]]
             /\ used' = used \cup found
    BY <1>3
  <2>2. PICK found \in SUBSET (Id \cap {i}) :
             /\ review' = [review EXCEPT ![k] =
                             [made |-> TRUE, current |-> asInTree, ids |-> found, by |-> "reviewer"]]
             /\ used' = used \cup found
    BY <2>1
  <2>3. found \in SUBSET Id
    OBVIOUS
  <2> QED BY <2>2, <2>3 DEF RecordTypes
<1> QED BY <1>1, <1>2, <1>3 DEF Reviewed

-----------------------------------------------------------------------------
(* Every action keeps the types and the place.                              *)

\* A step of the author during a run leaves the run where it is, except that the
\* worktree of a review may become an older one.
LEMMA AuthorKeepsPlace ==
  ASSUME RunTypes, Place, NEW a,
         worktree' \in {worktree, Outdated(a)},
         UNCHANGED <<pc, at, gate, attempt, passed, preexisted, sourced, dry>>,
         status'[1] \in {status[1], "none"}
  PROVE  RunTypes' /\ Place'
<1>1. worktree' \in {"none", "missing", "older", "same"}
  BY DEF RunTypes, Outdated
<1>2. worktree' # "none" <=> worktree # "none"
  BY DEF Outdated
<1>3. RunTypes'
  BY <1>1, <1>2 DEF RunTypes
<1>4. Place'
  BY DEF Place, Applicable
<1> QED BY <1>3, <1>4

LEMMA AgentOutput ==
  /\ \A name \in Writers : Output(name) \in {"dld", "template", "model"}
  /\ \A i \in 1 .. Len(Stage) : Stage[i].kind = "agent" /\ ReviewKind(Stage[i].name) = None =>
       /\ Stage[i].name \in Writers
       /\ i \in {1, 8, 13, 14}
       /\ i = 1 => Output(Stage[i].name) = "dld"
       /\ i = 8 => Output(Stage[i].name) = "template"
       /\ i \in {13, 14} => Output(Stage[i].name) = "model"
<1>1. \A name \in Writers : Output(name) \in {"dld", "template", "model"}
  BY DEF Writers, Output
<1>2. ASSUME NEW i \in 1 .. Len(Stage), Stage[i].kind = "agent", ReviewKind(Stage[i].name) = None
      PROVE  /\ Stage[i].name \in Writers
             /\ i \in {1, 8, 13, 14}
             /\ i = 1 => Output(Stage[i].name) = "dld"
             /\ i = 8 => Output(Stage[i].name) = "template"
             /\ i \in {13, 14} => Output(Stage[i].name) = "model"
  <2>1. ReviewKind("review_normalization") = "normalization" /\ ReviewKind("review_model") = "model"
    BY DEF ReviewKind
  <2>2. Stage[i].name \notin {"review_normalization", "review_model"}
    BY <1>2, <2>1, NoneAssumption DEF Kind
  <2> QED BY <1>2, <2>2, AgentStage DEF AgentAt, Writers, Output
<1> QED BY <1>1, <1>2

\* The gates of an agent's stage are stages, one or two.
LEMMA AgentGateIsStage ==
  ASSUME NEW i \in 1 .. Len(Stage), Stage[i].kind = "agent"
  PROVE  /\ Len(Stage[i].gates) \in 1 .. 2 /\ Stage[i].attempts \in 1 .. MaxIterations
         /\ \A g \in 1 .. Len(Stage[i].gates) :
              Stage[i].gates[g] \in { Stage[j].name : j \in DOMAIN Stage }
<1>1. Len(Stage[i].gates) \in 1 .. 2
  <2>1. \/ \E x : Stage[i].gates = <<x>>
        \/ \E x, y : Stage[i].gates = <<x, y>>
    BY AgentStage DEF AgentAt
  <2>2. \A x, y : Len(<<x>>) = 1 /\ Len(<<x, y>>) = 2
    OBVIOUS
  <2>3. Len(Stage[i].gates) = 1 \/ Len(Stage[i].gates) = 2
    BY <2>1, <2>2, Zenon
  <2> QED BY <2>3
<1>3. Stage[i].attempts \in 1 .. MaxIterations
  BY AgentStage DEF AgentAt, MaxIterations
<1>2. ASSUME NEW g \in 1 .. Len(Stage[i].gates)
      PROVE  Stage[i].gates[g] \in {"check_normalization", "check_normalization_review_owed",
                "check_dld_coverage", "lint_template", "unit_tests", "check_model_review_owed"}
  BY AgentStage DEF AgentAt
<1> QED BY <1>1, <1>2, <1>3, GatesAreStages

\* No action breaks the types or loses the place.
LEMMA TypedNext == Typed /\ [Next]_vars => Typed'
<1> SUFFICES ASSUME Typed, [Next]_vars PROVE Typed'
  OBVIOUS
<1>t. FileTypes /\ RecordTypes /\ RunTypes /\ Place
  BY DEF Typed
<1>1. CASE StartRun
  <2>1. FileTypes' /\ RecordTypes'
    BY <1>1, <1>t, FilesStay DEF StartRun
  <2>2. dry' \in BOOLEAN
    BY <1>1, EngineAssumption DEF StartRun
  <2>3. sourced' \in BOOLEAN /\ preexisted' \in BOOLEAN
    BY <1>1 DEF StartRun
  <2>4. status'[1] = "none"
    BY <1>1 DEF StartRun
  <2>5. at' \in 1 .. Len(Stage) + 1
    BY <1>1, <1>t DEF StartRun, RunTypes
  <2>6. worktree' = "none" /\ pc' = "STAGE"
    BY <1>1, <1>t DEF StartRun, RunTypes
  <2>7. RunTypes'
    BY <1>1, <1>t, <2>2, <2>3, <2>4, <2>5, <2>6 DEF StartRun, RunTypes
  <2>8. Place'
    BY <1>1, <1>t DEF StartRun, Place, AgentPc
  <2> QED BY <2>1, <2>7, <2>8 DEF Typed
<1>2. CASE EditDocument
  <2> DEFINE doc == IF SrcDld THEN "src_dld" ELSE "dld"
  <2>1. doc \in Artifact /\ doc # "model"
    BY DEF Artifact
  <2>2. Write(doc) /\ bare' = bare /\ worktree' = Outdated(doc)
        /\ UNCHANGED <<pc, at, gate, attempt, passed, preexisted, sourced, dry, status>>
    BY <1>2 DEF EditDocument
  <2>3. bare' \in BOOLEAN /\ (bare' => bare)
    BY <2>2, <1>t DEF FileTypes
  <2> HIDE DEF doc
  <2>4. FileTypes' /\ RecordTypes'
    BY <1>t, <2>1, <2>2, <2>3, WriteTypes
  <2>5. RunTypes' /\ Place'
    BY <1>t, <2>2, AuthorKeepsPlace
  <2> QED BY <2>4, <2>5 DEF Typed
<1>3. CASE EditModel
  <2>1. Write("model") /\ bare' = FALSE /\ worktree' = Outdated("model")
        /\ UNCHANGED <<pc, at, gate, attempt, passed, preexisted, sourced, dry, status>>
    BY <1>3 DEF EditModel
  <2>2. FileTypes' /\ RecordTypes'
    BY <1>t, <2>1, WriteTypes DEF Artifact
  <2>3. RunTypes' /\ Place'
    BY <1>t, <2>1, AuthorKeepsPlace
  <2> QED BY <2>2, <2>3 DEF Typed
<1>4. CASE Commit
  <2>1. FileTypes'
    BY <1>4, <1>t DEF Commit, FileTypes
  <2>2. RecordTypes'
    BY <1>4, <1>t DEF Commit, records, RecordTypes
  <2>3. RunTypes' /\ Place'
    BY <1>4, <1>t, AuthorKeepsPlace DEF Commit, run
  <2> QED BY <2>1, <2>2, <2>3 DEF Typed
<1>5. CASE Dismiss
  <2>1. FileTypes'
    BY <1>5, <1>t DEF Dismiss, files, FileTypes
  <2>2. RecordTypes'
    BY <1>5, <1>t DEF Dismiss, RecordTypes
  <2>3. RunTypes' /\ Place'
    BY <1>5, <1>t, AuthorKeepsPlace DEF Dismiss, run
  <2> QED BY <2>1, <2>2, <2>3 DEF Typed
<1>6. CASE StampNormalization
  <2>1. FileTypes'
    BY <1>6, <1>t DEF StampNormalization, FileTypes
  <2>2. RecordTypes'
    BY <1>6, <1>t DEF StampNormalization, records, RecordTypes
  <2>3. RunTypes' /\ Place'
    BY <1>6, <1>t, AuthorKeepsPlace DEF StampNormalization, run
  <2> QED BY <2>1, <2>2, <2>3 DEF Typed
<1>7. CASE AnswerRequest
  <2> DEFINE a == Output(status[2])
  <2>1. Write(a) /\ bare' = (bare /\ a # "model") /\ status[2] \in Writers
    BY <1>7 DEF AnswerRequest
  <2>2. a \in Artifact
    BY <2>1, AgentOutput DEF Artifact
  <2>3. bare' \in BOOLEAN /\ (bare' => bare)
    BY <2>1, <1>t DEF FileTypes
  <2>4. UNCHANGED <<pc, run>> /\ status' = <<"none">>
    BY <1>7 DEF AnswerRequest
  <2> HIDE DEF a
  <2>5. FileTypes' /\ RecordTypes'
    BY <1>t, <2>1, <2>2, <2>3, WriteTypes
  <2>6. RunTypes' /\ Place'
    BY <1>t, <2>4, AuthorKeepsPlace DEF run
  <2> QED BY <2>5, <2>6 DEF Typed
<1>8. CASE EmitFindings
  <2>1. FileTypes'
    BY <1>8, <1>t DEF EmitFindings, files, FileTypes
  <2>2. PICK n \in 0 .. MaxId :
          /\ review' = [review EXCEPT !["model"] = [made |-> TRUE, current |-> TRUE,
                                         ids |-> {"T"} \X (1 .. n), by |-> "check"]]
          /\ used' = used \cup ({"T"} \X (1 .. n))
    BY <1>8 DEF EmitFindings
  <2>3. {"T"} \X (1 .. n) \subseteq Id
    BY EngineAssumption DEF Id
  <2> DEFINE found == {"T"} \X (1 .. n)
  <2> HIDE DEF found
  <2>4. found \subseteq Id /\ used' = used \cup found
        /\ review' = [review EXCEPT !["model"] = [made |-> TRUE, current |-> TRUE,
                                         ids |-> found, by |-> "check"]]
    BY <2>2, <2>3 DEF found
  <2>5. dismissed' = dismissed
    BY <1>8 DEF EmitFindings
  <2>6. RecordTypes'
    BY <1>t, <2>4, <2>5 DEF RecordTypes
  <2>7. RunTypes' /\ Place'
    BY <1>8, <1>t, AuthorKeepsPlace DEF EmitFindings, run
  <2> QED BY <2>1, <2>6, <2>7 DEF Typed
<1>9. ASSUME NEW k \in Kind, RunAgent(k) PROVE Typed'
  <2>1. FileTypes'
    BY <1>9, <1>t DEF RunAgent, files, FileTypes
  <2>2. RecordTypes'
    BY <1>9, <1>t, ReviewedTypes DEF RunAgent
  <2>3. RunTypes' /\ Place'
    BY <1>9, <1>t, AuthorKeepsPlace DEF RunAgent, run
  <2> QED BY <2>1, <2>2, <2>3 DEF Typed
<1>10. CASE SkipStage
  <2>1. at + 1 \in 1 .. Len(Stage) + 1
    BY <1>10, <1>t, StageCount DEF SkipStage, RunTypes
  <2>2. passed' \subseteq { Stage[j].name : j \in DOMAIN Stage }
    BY <1>10, <1>t DEF SkipStage, RunTypes
  <2> QED BY <1>10, <1>t, <2>1, <2>2, ToStageTypes, FilesStay DEF SkipStage, Typed
<1>11. CASE AlreadyVerified
  <2>1. at + 1 \in 1 .. Len(Stage) + 1
    BY <1>11, <1>t, StageCount DEF AlreadyVerified, InStage, RunTypes
  <2>2. passed' \subseteq { Stage[j].name : j \in DOMAIN Stage }
    BY <1>11, <1>t DEF AlreadyVerified, RunTypes
  <2> QED BY <1>11, <1>t, <2>1, <2>2, ToStageTypes, FilesStay DEF AlreadyVerified, Typed
<1>12. CASE RunTool
  <2>1. at \in 1 .. Len(Stage) /\ at + 1 \in 1 .. Len(Stage) + 1
    BY <1>12, <1>t, StageCount DEF RunTool, InStage, RunTypes
  <2>2. CASE /\ ToolEffect(Stage[at].name)
             /\ passed' = passed \cup {Stage[at].name} /\ ToStage(at + 1)
    <3>1. FileTypes' /\ RecordTypes'
      <4>1. CASE Stage[at].name = "generate_scaffold"
        <5>1. bare' = TRUE /\ Write("model")
          BY <2>2, <4>1 DEF ToolEffect
        <5> QED BY <1>t, <5>1, WriteTypes DEF Artifact
      <4>2. CASE Stage[at].name = "stamp_provenance"
        <5>1. baselined' = TRUE /\ UNCHANGED <<exists, tracked, dirty, verdict, bare, stamped, records>>
          BY <2>2, <4>2 DEF ToolEffect
        <5> QED BY <1>t, <5>1 DEF FileTypes, RecordTypes, records
      <4>3. CASE Stage[at].name \notin {"generate_scaffold", "stamp_provenance"}
        <5>1. UNCHANGED <<files, records>>
          BY <2>2, <4>3 DEF ToolEffect
        <5> QED BY <1>t, <5>1, FilesStay
      <4> QED BY <4>1, <4>2, <4>3
    <3>2. passed' \subseteq { Stage[j].name : j \in DOMAIN Stage }
      BY <2>1, <2>2, <1>t, StageCount DEF RunTypes
    <3> QED BY <1>t, <2>1, <2>2, <3>1, <3>2, ToStageTypes DEF Typed
  <2>3. CASE /\ UNCHANGED <<files, records>>
             /\ Report(<<IF Stage[at].human THEN "awaiting" ELSE "failed", Stage[at].name>>)
    BY <1>t, <2>3, ReportTypes, FilesStay DEF Typed
  <2> QED BY <1>12, <2>2, <2>3 DEF RunTool
<1>13. CASE BeginGates
  <2>1. FileTypes' /\ RecordTypes'
    BY <1>13, <1>t, FilesStay DEF BeginGates
  <2>2. at \in 1 .. Len(Stage) /\ Stage[at].kind = "agent" /\ Applicable(Stage[at])
        /\ gate = 1 /\ pc = "STAGE" /\ pc' = "GATES" /\ UNCHANGED <<run, status>>
    BY <1>13, <1>t, StageCount DEF BeginGates, InStage, RunTypes, Place
  <2>3. attempt = 0 /\ 0 <= Stage[at].attempts
    BY <2>2, <1>t, AgentGateIsStage DEF Place, MaxIterations
  <2>4. gate <= Len(Stage[at].gates)
    <3>1. Len(Stage[at].gates) \in 1 .. 2
      BY <2>2, AgentGateIsStage
    <3> QED BY <2>2, <3>1
  <2>5. RunTypes'
    BY <2>2, <1>t DEF run, RunTypes
  <2>6. Place'
    BY <2>2, <2>3, <2>4 DEF run, Place, Applicable
  <2> QED BY <2>1, <2>5, <2>6 DEF Typed
<1>14. CASE RunGate
  <2> DEFINE g == Stage[at].gates[gate]
  <2>1. pc = "GATES" /\ FileTypes' /\ RecordTypes'
    BY <1>14, <1>t, FilesStay DEF RunGate
  <2>2. at \in 1 .. Len(Stage) /\ at + 1 \in 1 .. Len(Stage) + 1
        /\ Stage[at].kind = "agent" /\ Applicable(Stage[at])
        /\ gate <= Len(Stage[at].gates)
    BY <2>1, <1>t, StageCount DEF RunTypes, Place, AgentPc
  <2>3. /\ Len(Stage[at].gates) \in 1 .. 2 /\ Stage[at].attempts \in 1 .. MaxIterations
        /\ g \in { Stage[j].name : j \in DOMAIN Stage }
    BY <2>2, <1>t, AgentGateIsStage DEF RunTypes
  <2> DEFINE n == Len(Stage[at].gates)
  <2>12. n \in 1 .. 2 /\ gate <= n
    BY <2>2, <2>3
  <2>13. gate \in 1 .. 2
    BY <1>t DEF RunTypes
  <2> HIDE DEF g, n
  <2>4. \A ok \in BOOLEAN : (IF ok THEN passed \cup {g} ELSE passed \ {g})
                              \subseteq { Stage[j].name : j \in DOMAIN Stage }
    BY <2>3, <1>t DEF RunTypes
  <2>5. PICK ok \in CommandOutcomes(g) :
          LET seen == IF ok THEN passed \cup {g} ELSE passed \ {g} IN
          \/ /\ ok /\ ~GatesPassed
             /\ gate' = gate + 1 /\ passed' = seen
             /\ UNCHANGED <<pc, at, attempt, preexisted, sourced, worktree, dry, status>>
          \/ /\ ok /\ GatesPassed
             /\ passed' = seen /\ ToStage(at + 1)
          \/ /\ ~ok /\ dry
             /\ Report(<<"dry-run", Stage[at].name>>)
          \/ /\ ~ok /\ ~dry /\ attempt < Stage[at].attempts
             /\ pc' = "DISPATCH" /\ attempt' = attempt + 1 /\ passed' = seen /\ gate' = 1
             /\ UNCHANGED <<at, preexisted, sourced, worktree, dry, status>>
          \/ /\ ~ok /\ ~dry /\ attempt = Stage[at].attempts
             /\ Report(<<"failed", Stage[at].name>>)
    BY <1>14 DEF RunGate, g
  <2> DEFINE seen == IF ok THEN passed \cup {g} ELSE passed \ {g}
  <2>6. seen \subseteq { Stage[j].name : j \in DOMAIN Stage }
    BY <2>3, <1>t DEF RunTypes
  <2> HIDE DEF seen
  <2>7. CASE /\ ok /\ ~GatesPassed
             /\ gate' = gate + 1 /\ passed' = seen
             /\ UNCHANGED <<pc, at, attempt, preexisted, sourced, worktree, dry, status>>
    <3>1. gate' \in 1 .. 2 /\ gate' <= Len(Stage[at].gates)
      <4>1. gate # n /\ gate' = gate + 1
        BY <2>7 DEF GatesPassed, n
      <4>2. gate' \in 1 .. 2 /\ gate' <= n
        BY <2>12, <2>13, <4>1
      <4> QED BY <4>2 DEF n
    <3>2. RunTypes'
      BY <2>6, <2>7, <3>1, <1>t DEF RunTypes
    <3>3. Place'
      BY <2>1, <2>7, <3>1, <1>t DEF Place, Applicable, AgentPc
    <3> QED BY <2>1, <3>2, <3>3 DEF Typed
  <2>8. CASE passed' = seen /\ ToStage(at + 1)
    BY <2>1, <2>2, <2>6, <2>8, <1>t, ToStageTypes DEF Typed
  <2>9. CASE Report(<<"dry-run", Stage[at].name>>)
    BY <2>1, <2>9, <1>t, ReportTypes DEF Typed
  <2>10. CASE /\ attempt < Stage[at].attempts
              /\ pc' = "DISPATCH" /\ attempt' = attempt + 1 /\ passed' = seen /\ gate' = 1
              /\ UNCHANGED <<at, preexisted, sourced, worktree, dry, status>>
    <3>1. attempt' \in 0 .. MaxIterations /\ attempt' <= Stage[at].attempts
      BY <2>3, <2>10, <1>t DEF RunTypes, MaxIterations
    <3>2. RunTypes'
      BY <2>1, <2>6, <2>10, <3>1, <1>t DEF RunTypes
    <3>3. gate' <= Len(Stage[at].gates)
      <4>1. gate' <= n
        BY <2>10, <2>12
      <4> QED BY <4>1 DEF n
    <3>4. Place'
      BY <2>2, <2>10, <3>1, <3>3 DEF Place, Applicable, AgentPc
    <3> QED BY <2>1, <3>2, <3>4 DEF Typed
  <2>11. CASE Report(<<"failed", Stage[at].name>>)
    BY <2>1, <2>11, <1>t, ReportTypes DEF Typed
  <2> QED BY <2>5, <2>7, <2>8, <2>9, <2>10, <2>11 DEF seen
<1>15. CASE RequestAgent
  BY <1>15, <1>t, ReportTypes, FilesStay DEF RequestAgent, Typed
<1>16. CASE DispatchAgent
  <2>1. RunTypes'
    BY <1>16, <1>t DEF DispatchAgent, run, RunTypes
  <2>2. Place'
    BY <1>16, <1>t DEF DispatchAgent, run, Place, Applicable, AgentPc
  <2> QED BY <1>16, <1>t, <2>1, <2>2, FilesStay DEF DispatchAgent, Typed
<1>17. CASE AgentWorks
  <2> DEFINE a == Output(Stage[at].name)
  <2>1. pc = "AGENT" /\ pc' = "GATES" /\ UNCHANGED <<run, status>>
    BY <1>17 DEF AgentWorks
  <2>2. at \in 1 .. Len(Stage) /\ Stage[at].kind = "agent" /\ ReviewKind(Stage[at].name) = None
    BY <2>1, <1>t DEF RunTypes, Place, AgentPc
  <2>3. a \in {"dld", "template", "model"}
    BY <2>2, AgentOutput
  <2>4. a \in Artifact
    BY <2>3 DEF Artifact
  <2>5. \/ UNCHANGED <<files, records>>
        \/ bare' = (bare /\ a # "model") /\ Write(a)
    BY <1>17 DEF AgentWorks
  <2> HIDE DEF a
  <2>6. ASSUME bare' = (bare /\ a # "model"), Write(a)
        PROVE  FileTypes' /\ RecordTypes'
    <3>1. bare' \in BOOLEAN /\ (bare' => bare)
      BY <2>6, <1>t DEF FileTypes
    <3> QED BY <1>t, <2>4, <2>6, <3>1, WriteTypes
  <2>7. FileTypes' /\ RecordTypes'
    BY <2>5, <2>6, <1>t, FilesStay
  <2>8. RunTypes'
    BY <2>1, <1>t DEF run, RunTypes
  <2>9. Place'
    BY <2>1, <1>t DEF run, Place, Applicable, AgentPc
  <2> QED BY <2>7, <2>8, <2>9 DEF Typed
<1>18. CASE ProvisionWorktree
  <2>1. worktree' \in {"missing", "older", "same"} /\ pc = "DISPATCH" /\ pc' = "PROVISIONED"
        /\ UNCHANGED <<files, records, at, gate, attempt, passed, preexisted, sourced, dry, status>>
    BY <1>18 DEF ProvisionWorktree
  <2>2. ReviewKind(Stage[at].name) \in Kind
    <3>1. ReviewKind(Stage[at].name) # None
      BY <1>18 DEF ProvisionWorktree
    <3> QED BY <3>1 DEF ReviewKind, Kind
  <2>3. RunTypes'
    BY <2>1, <1>t DEF RunTypes
  <2>4. Place'
    BY <2>1, <2>2, <1>t DEF Place, Applicable, AgentPc
  <2> QED BY <2>1, <2>3, <2>4, <1>t, FilesStay DEF Typed
<1>19. CASE AbortReview
  BY <1>19, <1>t, ReportTypes, FilesStay DEF AbortReview, Typed
<1>20. CASE DispatchReview
  <2>1. RunTypes'
    BY <1>20, <1>t DEF DispatchReview, run, RunTypes
  <2>2. Place'
    BY <1>20, <1>t DEF DispatchReview, run, Place, Applicable, AgentPc
  <2> QED BY <1>20, <1>t, <2>1, <2>2, FilesStay DEF DispatchReview, Typed
<1>21. CASE ReviewerWorks
  <2>1. /\ pc = "REVIEWING" /\ pc' = "GATES" /\ worktree' = "none"
        /\ UNCHANGED <<files, dismissed, at, gate, attempt, passed, preexisted, sourced, dry, status>>
        /\ Reviewed(ReviewKind(Stage[at].name), worktree = "same")
    BY <1>21 DEF ReviewerWorks
  <2>2. ReviewKind(Stage[at].name) \in Kind
    BY <2>1, <1>t DEF Place
  <2>3. RecordTypes'
    BY <2>1, <2>2, <1>t, ReviewedTypes
  <2>4. FileTypes'
    BY <2>1, <1>t DEF files, FileTypes
  <2>5. RunTypes'
    BY <2>1, <1>t DEF RunTypes
  <2>6. Place'
    BY <2>1, <1>t DEF Place, Applicable, AgentPc
  <2> QED BY <2>3, <2>4, <2>5, <2>6 DEF Typed
<1>22. CASE Complete
  <2>1. Report(<<"complete">>) /\ UNCHANGED <<files, records>>
    BY <1>22 DEF Complete
  <2>2. <<"complete">>[1] = "complete"
    OBVIOUS
  <2>3. RunTypes' /\ Place'
    BY <2>1, <2>2, <1>t, ReportTypes
  <2> QED BY <2>1, <2>3, <1>t, FilesStay DEF Typed
<1>23. CASE UNCHANGED vars
  <2>0. UNCHANGED <<files, records>> /\ UNCHANGED <<pc, run, status>>
    BY <1>23 DEF vars
  <2>1. FileTypes' /\ RecordTypes'
    BY <2>0, <1>t, FilesStay
  <2>2. RunTypes' /\ Place'
    BY <2>0, <1>t DEF run, RunTypes, Place, Applicable
  <2> QED BY <2>1, <2>2 DEF Typed
<1> QED
  BY <1>1, <1>2, <1>3, <1>4, <1>5, <1>6, <1>7, <1>8, <1>9, <1>10, <1>11, <1>12, <1>13, <1>14,
     <1>15, <1>16, <1>17, <1>18, <1>19, <1>20, <1>21, <1>22, <1>23
  DEF Next, Engine, Author

-----------------------------------------------------------------------------
(* What a gate says, before and after a step.                               *)

LEMMA OutcomeHolds ==
  ASSUME NEW g, NEW ok \in CommandOutcomes(g), ok
  PROVE  Holds(g)
<1> HIDE DEF Holds
<1>1. ok = Holds(g) \/ ok = FALSE
  BY DEF CommandOutcomes
<1> QED BY <1>1

LEMMA HoldsStays ==
  ASSUME NEW g, UNCHANGED <<verdict, stamped, exists, review, dismissed>>
  PROVE  Holds(g)' <=> Holds(g)
BY DEF Holds, ReviewIsCurrent, FindingsResolved

\* The verdicts a write of a may change.
Touched(a) ==
  CASE a \in {"src_dld", "dld"} ->
         {"check_normalization", "check_dld_coverage", "check_normalization_review_owed",
          "check_normalization_stamp", "check_review_findings", "recheck_review_findings"}
    [] a = "template" ->
         {"check_dld_coverage", "lint_template", "check_model_review_owed",
          "check_review_findings", "recheck_review_findings"}
    [] a = "model" ->
         {"unit_tests", "check_model_review_owed", "check_review_findings", "recheck_review_findings"}

LEMMA WriteVerdict ==
  ASSUME NEW a \in Artifact, Write(a), NEW g \in ContentGate, g \in verdict, g \notin Touched(a)
  PROVE  g \in verdict'
<1>1. a \notin Reads(g)
  BY DEF Artifact, ContentGate, Reads, Touched
<1> QED BY <1>1 DEF Write

LEMMA HoldsAfterWrite ==
  ASSUME RecordTypes, NEW a \in Artifact, Write(a), NEW g, Holds(g), g \notin Touched(a)
  PROVE  Holds(g)'
<1>1. CASE g \in ContentGate
  <2>1. g \in verdict
    BY <1>1 DEF Holds, ContentGate
  <2>2. g \in verdict'
    BY <1>1, <2>1, WriteVerdict
  <2> QED BY <1>1, <2>2 DEF Holds, ContentGate
<1>2. CASE g = "check_normalization_review_owed"
  <2>1. a \notin Subjects("normalization")
    BY <1>2 DEF Touched, Subjects, Artifact
  <2>2. review["normalization"].made /\ review["normalization"].current
    BY <1>2 DEF Holds, ReviewIsCurrent, ContentGate
  <2>3. review'["normalization"].made /\ review'["normalization"].current
    BY <2>1, <2>2, WriteReviews DEF Kind
  <2> QED BY <1>2, <2>3 DEF Holds, ReviewIsCurrent, ContentGate
<1>3. CASE g = "check_model_review_owed"
  <2>1. a \notin Subjects("model")
    BY <1>3 DEF Touched, Subjects, Artifact
  <2>2. review["model"].made /\ review["model"].current
    BY <1>3 DEF Holds, ReviewIsCurrent, ContentGate
  <2>3. review'["model"].made /\ review'["model"].current
    BY <2>1, <2>2, WriteReviews DEF Kind
  <2> QED BY <1>3, <2>3 DEF Holds, ReviewIsCurrent, ContentGate
<1>4. CASE g \in {"check_review_findings", "recheck_review_findings"}
  BY <1>4 DEF Touched, Artifact
<1>5. CASE g = "check_normalization_stamp"
  <2>1. a \notin {"src_dld", "dld"}
    BY <1>5 DEF Touched
  <2>2. "check_normalization" \in verdict /\ stamped
    BY <1>5 DEF Holds, ContentGate
  <2>3. "check_normalization" \in verdict'
    <3>1. "check_normalization" \in ContentGate /\ "check_normalization" \notin Touched(a)
      BY <2>1 DEF ContentGate, Touched, Artifact
    <3> QED BY <2>2, <3>1, WriteVerdict
  <2>4. stamped'
    BY <2>1, <2>2 DEF Write, Subjects
  <2> QED BY <1>5, <2>3, <2>4 DEF Holds, ContentGate
<1>6. CASE g \notin ContentGate \cup {"check_normalization_review_owed", "check_model_review_owed",
                "check_review_findings", "recheck_review_findings", "check_normalization_stamp"}
  BY <1>6 DEF Holds
<1> QED BY <1>1, <1>2, <1>3, <1>4, <1>5, <1>6

\* A review of one kind changes the verdict on that kind, and on the findings.
LEMMA HoldsAfterReview ==
  ASSUME NEW k \in Kind, NEW asInTree, Reviewed(k, asInTree), UNCHANGED <<files, dismissed>>,
         NEW g, Holds(g),
         g \notin {"check_review_findings", "recheck_review_findings"},
         k = "model" => g # "check_model_review_owed",
         k = "normalization" => g # "check_normalization_review_owed",
         review \in [Kind -> Review]
  PROVE  Holds(g)'
<1>1. UNCHANGED <<verdict, stamped>>
  BY DEF files
<1>2. \A j \in Kind \ {k} : review'[j] = review[j]
  BY DEF Reviewed
<1>3. CASE g = "check_normalization_review_owed"
  BY <1>2, <1>3 DEF Holds, ReviewIsCurrent, ContentGate, Kind
<1>4. CASE g = "check_model_review_owed"
  BY <1>2, <1>4 DEF Holds, ReviewIsCurrent, ContentGate, Kind
<1>5. CASE g \notin {"check_normalization_review_owed", "check_model_review_owed"}
  BY <1>1, <1>5 DEF Holds
<1> QED BY <1>3, <1>4, <1>5

-----------------------------------------------------------------------------
(* The course of a run that nobody interferes with.                         *)

\* The snapshot fits the files until the run itself makes a model.
Snapshot ==
  /\ "src_dld" \in exists <=> SrcDld
  /\ pc # "IDLE" => (sourced <=> SrcDld)
  /\ pc # "IDLE" /\ ~preexisted /\ at <= 11 => "model" \notin exists
  /\ "generate_scaffold" \in passed => ~preexisted /\ at >= 12
  /\ "stamp_provenance" \in passed => baselined /\ at >= 20

\* No verdict is there before the first stage that asks for it,
Since ==
  /\ "check_normalization_review_owed" \in passed => at >= 3
  /\ "check_normalization_stamp" \in passed => at >= 7
  /\ "check_dld_coverage" \in passed => at >= 8
  /\ "lint_template" \in passed => at >= 8
  /\ "unit_tests" \in passed => at >= 13
  /\ "check_model_review_owed" \in passed => at >= 16
  /\ "recheck_review_findings" \in passed => at >= 19

\* and every one is there after the stage that insists on it.
Done ==
  /\ sourced => /\ at > 2 => "check_normalization" \in passed
                /\ at > 4 => "check_normalization_review_owed" \in passed
                /\ at > 6 => "check_normalization_stamp" \in passed
  /\ at > 9 => "check_dld_coverage" \in passed
  /\ at > 10 => "lint_template" \in passed
  /\ at > 15 => "unit_tests" \in passed
  /\ at > 17 => "check_model_review_owed" \in passed
  /\ at > 18 => "recheck_review_findings" \in passed
  /\ at > 19 => "stamp_provenance" \in passed

\* The gates the agent's stage has yet to run, for the first time or again.
Open(g) ==
  pc \in AgentPc /\ \E i \in gate .. Len(Stage[at].gates) : g = Stage[at].gates[i]

\* A verdict in hand is true, or about to be asked for again.  That of the
\* findings at stage 5 is the exception: the same gate runs again at the end.
Stands == \A g \in passed \ {"check_review_findings"} : Holds(g) \/ Open(g)

Course == Snapshot /\ Since /\ Done /\ Stands

LEMMA ToolNames ==
  /\ ToolAt(2, "check_normalization", "src_dld_exists")
  /\ ToolAt(4, "check_normalization_review_owed", "src_dld_exists")
  /\ ToolAt(6, "check_normalization_stamp", "src_dld_exists")
  /\ ToolAt(9, "check_dld_coverage", "always") /\ ToolAt(10, "lint_template", "always")
  /\ ToolAt(15, "unit_tests", "always") /\ ToolAt(17, "check_model_review_owed", "always")
  /\ ToolAt(18, "recheck_review_findings", "always") /\ ToolAt(19, "stamp_provenance", "always")
BY DEF Stage, Agent, Tool, ToolAt

LEMMA ToolKinds == \A i \in {2, 4, 6, 9, 10, 15, 17, 18, 19} : Stage[i].kind = "tool"
BY DEF Stage, Agent, Tool

LEMMA GateOfStage ==
  ASSUME NEW i \in 1 .. Len(Stage), Stage[i].kind = "agent", NEW j \in 1 .. Len(Stage[i].gates),
         NEW g, g = Stage[i].gates[j]
  PROVE  \/ i = 1 /\ g = "check_normalization"
         \/ i = 3 /\ g = "check_normalization_review_owed"
         \/ i = 8 /\ g \in {"check_dld_coverage", "lint_template"}
         \/ i \in {13, 14} /\ g = "unit_tests"
         \/ i = 16 /\ g = "check_model_review_owed"
BY AgentStage DEF AgentAt

LEMMA OpenFromFirst ==
  ASSUME at \in 1 .. Len(Stage), Stage[at].kind = "agent", pc \in AgentPc, gate = 1
  PROVE  /\ at = 1 => Open("check_normalization")
         /\ at = 3 => Open("check_normalization_review_owed")
         /\ at = 8 => Open("check_dld_coverage") /\ Open("lint_template")
         /\ at \in {13, 14} => Open("unit_tests")
         /\ at = 16 => Open("check_model_review_owed")
<1>1. CASE at = 1
  <2>1. Stage[at].gates = <<"check_normalization">>
    BY <1>1, AgentStage DEF AgentAt
  <2> QED BY <1>1, <2>1 DEF Open
<1>2. CASE at = 3
  <2>1. Stage[at].gates = <<"check_normalization_review_owed">>
    BY <1>2, AgentStage DEF AgentAt
  <2> QED BY <1>2, <2>1 DEF Open
<1>3. CASE at = 8
  <2>1. Stage[at].gates = <<"check_dld_coverage", "lint_template">>
    BY <1>3, AgentStage DEF AgentAt
  <2>2. Stage[at].gates[1] = "check_dld_coverage" /\ Stage[at].gates[2] = "lint_template"
        /\ 1 \in 1 .. Len(Stage[at].gates) /\ 2 \in 1 .. Len(Stage[at].gates)
    BY <2>1
  <2> QED BY <1>3, <2>2 DEF Open
<1>4. CASE at \in {13, 14}
  <2>1. Stage[at].gates = <<"unit_tests">>
    BY <1>4, AgentStage DEF AgentAt
  <2> QED BY <1>4, <2>1 DEF Open
<1>5. CASE at = 16
  <2>1. Stage[at].gates = <<"check_model_review_owed">>
    BY <1>5, AgentStage DEF AgentAt
  <2> QED BY <1>5, <2>1 DEF Open
<1> QED BY <1>1, <1>2, <1>3, <1>4, <1>5

\* Between runs, and at the beginning of one, there is nothing to hold.
LEMMA RestCourse ==
  ASSUME passed' = {}, at' = 1, "src_dld" \in exists' <=> SrcDld,
         pc' # "IDLE" => /\ sourced' <=> "src_dld" \in exists'
                         /\ preexisted' <=> "model" \in exists'
  PROVE  Course'
<1>1. Snapshot'
  BY DEF Snapshot
<1>2. Since' /\ Done' /\ Stands'
  BY DEF Since, Done, Stands
<1> QED BY <1>1, <1>2 DEF Course

LEMMA ReportCourse ==
  ASSUME Course, NEW outcome, Report(outcome), UNCHANGED files
  PROVE  Course'
<1>1. passed' = {} /\ at' = 1 /\ pc' = "IDLE"
  BY DEF Report
<1>2. "src_dld" \in exists' <=> SrcDld
  BY DEF files, Course, Snapshot
<1> QED BY <1>1, <1>2, RestCourse

LEMMA CourseInit == Init => Course
<1> SUFFICES ASSUME Init PROVE Course
  OBVIOUS
<1>1. Snapshot
  BY DEF Init, Snapshot
<1>2. Since /\ Done /\ Stands
  BY DEF Init, Since, Done, Stands
<1> QED BY <1>1, <1>2 DEF Course

\* A step on to the next stage, its verdict in hand if it asks for one.
LEMMA OnwardCourse ==
  ASSUME Typed, Course, pc # "IDLE", at \in 1 .. Len(Stage), ToStage(at + 1),
         "src_dld" \in exists' <=> "src_dld" \in exists,
         at \in 1 .. 10 => ("model" \in exists' <=> "model" \in exists),
         baselined' <=> baselined \/ at = 19,
         "generate_scaffold" \in passed' \ passed => ~preexisted /\ at = 11,
         "stamp_provenance" \in passed' \ passed => at = 19,
         Since', passed \subseteq passed',
         Stage[at].kind = "tool" /\ Applicable(Stage[at]) => Stage[at].name \in passed',
         \A g \in passed' \ {"check_review_findings"} : Holds(g)'
  PROVE  Course'
<1>1. at' = at + 1 /\ pc' = "STAGE" /\ UNCHANGED <<preexisted, sourced>> /\ at \in 1 .. 19
  BY StageCount DEF ToStage
<1>2. Snapshot'
  <2>1. pc' # "IDLE" /\ ~preexisted' /\ at' <= 11 => "model" \notin exists'
    BY <1>1 DEF Course, Snapshot
  <2>2. "generate_scaffold" \in passed' => ~preexisted' /\ at' >= 12
    BY <1>1 DEF Course, Snapshot
  <2>3. "stamp_provenance" \in passed' => baselined' /\ at' >= 20
    BY <1>1 DEF Course, Snapshot
  <2> QED BY <1>1, <2>1, <2>2, <2>3 DEF Course, Snapshot
<1>3. Done'
  <2>1. ASSUME NEW i \in {2, 4, 6}, i = at, sourced PROVE Stage[i].name \in passed'
    <3>1. Stage[i].kind = "tool" /\ Stage[i].when = "src_dld_exists"
      BY <2>1, ToolNames, ToolKinds DEF ToolAt
    <3> QED BY <2>1, <3>1 DEF Applicable
  <2>2. ASSUME NEW i \in {9, 10, 15, 17, 18, 19}, i = at PROVE Stage[i].name \in passed'
    <3>1. Stage[i].kind = "tool" /\ Stage[i].when = "always"
      BY <2>2, ToolNames, ToolKinds DEF ToolAt
    <3> QED BY <2>2, <3>1 DEF Applicable
  <2>3. sourced => /\ at = 2 => "check_normalization" \in passed'
                   /\ at = 4 => "check_normalization_review_owed" \in passed'
                   /\ at = 6 => "check_normalization_stamp" \in passed'
    BY <2>1, ToolNames DEF ToolAt
  <2>4. /\ at = 9 => "check_dld_coverage" \in passed'
        /\ at = 10 => "lint_template" \in passed'
        /\ at = 15 => "unit_tests" \in passed'
        /\ at = 17 => "check_model_review_owed" \in passed'
        /\ at = 18 => "recheck_review_findings" \in passed'
        /\ at = 19 => "stamp_provenance" \in passed'
    BY <2>2, ToolNames DEF ToolAt
  <2>5. Done
    BY DEF Course
  <2> QED BY <1>1, <2>3, <2>4, <2>5 DEF Done
<1>4. Stands'
  BY <1>1 DEF Stands
<1> QED BY <1>2, <1>3, <1>4 DEF Course

\* A step within an agent's stage that keeps its verdicts.
LEMMA WithinCourse ==
  ASSUME Typed, Course, pc \in AgentPc \cup {"STAGE"}, pc' \in AgentPc,
         UNCHANGED <<at, gate, passed, preexisted, sourced>>,
         "src_dld" \in exists' <=> "src_dld" \in exists,
         at \in 1 .. 11 => ("model" \in exists' <=> "model" \in exists),
         "stamp_provenance" \in passed => baselined',
         \A g \in passed \ {"check_review_findings"} : Holds(g) => Holds(g)' \/ Open(g)'
  PROVE  Course'
<1>1. Snapshot'
  BY DEF Course, Snapshot, AgentPc, Typed, RunTypes
<1>2. Since' /\ Done'
  BY DEF Course, Since, Done
<1>3. ASSUME NEW g, Open(g) PROVE Open(g)'
  BY <1>3 DEF Open
<1>4. Stands'
  BY <1>3 DEF Course, Stands
<1> QED BY <1>1, <1>2, <1>4 DEF Course

LEMMA RunToolCourse ==
  ASSUME Typed, Course, RunTool
  PROVE  Course'
<1> DEFINE name == Stage[at].name
<1>1. pc = "STAGE" /\ at \in 1 .. Len(Stage) /\ Stage[at].kind = "tool" /\ Applicable(Stage[at])
      /\ name \notin passed
  BY StageCount DEF RunTool, InStage, Typed, RunTypes
<1>2. PICK ok \in CommandOutcomes(name) :
       \/ /\ ok /\ ToolEffect(name)
          /\ passed' = passed \cup {name} /\ ToStage(at + 1)
       \/ /\ ~ok /\ UNCHANGED <<files, records>>
          /\ Report(<<IF Stage[at].human THEN "awaiting" ELSE "failed", name>>)
  BY DEF RunTool
<1>3. CASE /\ ok /\ ToolEffect(name)
           /\ passed' = passed \cup {name} /\ ToStage(at + 1)
  <2>1. Holds(name)
    BY <1>3, OutcomeHolds
  <2>2. \A g \in passed \ {"check_review_findings"} : Holds(g)
    BY <1>1 DEF Course, Stands, Open, AgentPc
  <2>3. at' = at + 1
    BY <1>3 DEF ToStage
  <2>4. Since'
    BY <1>1, <1>3, <2>3, ToolStage DEF ToolAt, Course, Since
  <2>5. "generate_scaffold" \in passed' \ passed => ~preexisted /\ at = 11
    BY <1>1, <1>3, ToolStage DEF ToolAt, Applicable
  <2>6. "stamp_provenance" \in passed' \ passed => at = 19
    BY <1>1, <1>3, ToolStage DEF ToolAt
  <2>7. /\ \A g \in passed' \ {"check_review_findings"} : Holds(g)'
        /\ "src_dld" \in exists' <=> "src_dld" \in exists
        /\ at \in 1 .. 10 => ("model" \in exists' <=> "model" \in exists)
        /\ baselined' <=> baselined \/ at = 19
    <3>1. CASE name = "generate_scaffold"
      <4>1. Write("model") /\ at = 11
        BY <1>1, <1>3, <3>1, ToolStage DEF ToolEffect, ToolAt
      <4>2. \A g \in passed' \ {"check_review_findings"} : g \notin Touched("model")
        BY <1>3, <3>1, <4>1 DEF Touched, Course, Since
      <4>3. \A g \in passed' \ {"check_review_findings"} : Holds(g)'
        BY <1>3, <2>1, <2>2, <4>1, <4>2, HoldsAfterWrite DEF Typed, Artifact
      <4>4. exists' = exists \cup {"model"} /\ (baselined' <=> baselined)
        BY <4>1 DEF Write
      <4> QED BY <4>1, <4>3, <4>4
    <3>2. CASE name = "stamp_provenance"
      <4>1. baselined' = TRUE /\ UNCHANGED <<exists, tracked, dirty, verdict, bare, stamped, records>>
        BY <1>3, <3>2 DEF ToolEffect
      <4>2. UNCHANGED <<verdict, stamped, exists, review, dismissed>>
        BY <4>1 DEF records
      <4>3. \A g \in passed' \ {"check_review_findings"} : Holds(g)'
        BY <1>3, <2>1, <2>2, <4>2, HoldsStays
      <4>4. at = 19
        BY <1>1, <3>2, ToolStage DEF ToolAt
      <4> QED BY <4>1, <4>3, <4>4
    <3>3. CASE name \notin {"generate_scaffold", "stamp_provenance"}
      <4>1. UNCHANGED <<files, records>>
        BY <1>3, <3>3 DEF ToolEffect
      <4>2. UNCHANGED <<verdict, stamped, exists, review, dismissed, baselined>>
        BY <4>1 DEF files, records
      <4>3. \A g \in passed' \ {"check_review_findings"} : Holds(g)'
        BY <1>3, <2>1, <2>2, <4>2, HoldsStays
      <4>4. at # 19
        BY <1>1, <3>3, ToolNames DEF ToolAt
      <4> QED BY <4>2, <4>3, <4>4
    <3> QED BY <3>1, <3>2, <3>3
  <2>8. passed \subseteq passed' /\ name \in passed'
    BY <1>3
  <2> QED BY <1>1, <1>3, <2>4, <2>5, <2>6, <2>7, <2>8, OnwardCourse
<1>4. CASE UNCHANGED <<files, records>>
           /\ Report(<<IF Stage[at].human THEN "awaiting" ELSE "failed", name>>)
  BY <1>4, ReportCourse
<1> QED BY <1>2, <1>3, <1>4

LEMMA RunGateCourse ==
  ASSUME Typed, Course, RunGate
  PROVE  Course'
<1> DEFINE g == Stage[at].gates[gate]
           n == Len(Stage[at].gates)
<1>1. /\ pc = "GATES" /\ at \in 1 .. Len(Stage) /\ Stage[at].kind = "agent"
      /\ gate \in 1 .. n /\ n \in 1 .. 2
  <2>1. pc = "GATES" /\ at \in 1 .. Len(Stage) /\ Stage[at].kind = "agent" /\ gate <= n
    BY StageCount DEF RunGate, Typed, RunTypes, Place, AgentPc
  <2>2. n \in 1 .. 2 /\ gate \in 1 .. 2
    BY <2>1, AgentGateIsStage DEF Typed, RunTypes
  <2> HIDE DEF n
  <2> QED BY <2>1, <2>2
<1>2. \/ at = 1 /\ g = "check_normalization"
      \/ at = 3 /\ g = "check_normalization_review_owed"
      \/ at = 8 /\ g \in {"check_dld_coverage", "lint_template"}
      \/ at \in {13, 14} /\ g = "unit_tests"
      \/ at = 16 /\ g = "check_model_review_owed"
  BY <1>1, GateOfStage
<1>3. \A h : Holds(h)' <=> Holds(h)
  <2>1. UNCHANGED <<files, records>>
    BY DEF RunGate
  <2>2. UNCHANGED <<verdict, stamped, exists, review, dismissed>>
    BY <2>1 DEF files, records
  <2> QED BY <2>2, HoldsStays
<1>4. UNCHANGED <<exists, baselined>> /\ UNCHANGED files
  BY DEF RunGate, files
<1> HIDE DEF g
<1>5. PICK ok \in CommandOutcomes(g) :
        LET seen == IF ok THEN passed \cup {g} ELSE passed \ {g} IN
        \/ /\ ok /\ ~GatesPassed
           /\ gate' = gate + 1 /\ passed' = seen
           /\ UNCHANGED <<pc, at, attempt, preexisted, sourced, worktree, dry, status>>
        \/ /\ ok /\ GatesPassed
           /\ passed' = seen /\ ToStage(at + 1)
        \/ /\ ~ok /\ dry
           /\ Report(<<"dry-run", Stage[at].name>>)
        \/ /\ ~ok /\ ~dry /\ attempt < Stage[at].attempts
           /\ pc' = "DISPATCH" /\ attempt' = attempt + 1 /\ passed' = seen /\ gate' = 1
           /\ UNCHANGED <<at, preexisted, sourced, worktree, dry, status>>
        \/ /\ ~ok /\ ~dry /\ attempt = Stage[at].attempts
           /\ Report(<<"failed", Stage[at].name>>)
  BY DEF RunGate, g
<1>6. ok => Holds(g)
  BY OutcomeHolds
<1>7. CASE /\ ok /\ ~GatesPassed /\ gate' = gate + 1 /\ passed' = passed \cup {g}
           /\ UNCHANGED <<pc, at, preexisted, sourced>>
  <2>1. Snapshot'
    BY <1>2, <1>4, <1>7 DEF Course, Snapshot
  <2>2. Since' /\ Done'
    BY <1>2, <1>7 DEF Course, Since, Done
  <2>3. ASSUME NEW h, Open(h) PROVE h = g \/ Open(h)'
    <3>1. PICK i \in gate .. n : h = Stage[at].gates[i]
      BY <2>3 DEF Open
    <3>2. CASE i = gate
      BY <3>1, <3>2 DEF g
    <3>3. CASE i # gate
      <4>1. i \in gate' .. n
        BY <1>1, <1>7, <3>1, <3>3
      <4> QED BY <1>1, <1>7, <3>1, <4>1 DEF Open, AgentPc
    <3> QED BY <3>2, <3>3
  <2>4. Stands'
    BY <1>3, <1>6, <1>7, <2>3 DEF Course, Stands
  <2> QED BY <2>1, <2>2, <2>4 DEF Course
<1>8. CASE ok /\ GatesPassed /\ passed' = passed \cup {g} /\ ToStage(at + 1)
  <2>1. ASSUME NEW h, Open(h) PROVE h = g
    <3>1. PICK i \in gate .. n : h = Stage[at].gates[i]
      BY <2>1 DEF Open
    <3>2. gate = n
      BY <1>8 DEF GatesPassed
    <3>3. i = gate
      BY <1>1, <3>1, <3>2
    <3> QED BY <3>1, <3>3 DEF g
  <2>2. \A h \in passed' \ {"check_review_findings"} : Holds(h)'
    BY <1>3, <1>6, <1>8, <2>1 DEF Course, Stands
  <2>3. Since'
    BY <1>2, <1>8 DEF Course, Since, ToStage
  <2>4. /\ g # "generate_scaffold" /\ g # "stamp_provenance"
        /\ at # 19 /\ Stage[at].kind # "tool"
    BY <1>1, <1>2
  <2>5. passed \subseteq passed' /\ (baselined' <=> baselined \/ at = 19)
    BY <1>4, <1>8, <2>4
  <2> QED BY <1>1, <1>4, <1>8, <2>2, <2>3, <2>4, <2>5, OnwardCourse
<1>9. CASE /\ pc' = "DISPATCH" /\ passed' = passed \ {g} /\ gate' = 1
           /\ UNCHANGED <<at, preexisted, sourced>>
  <2>1. Snapshot'
    BY <1>1, <1>4, <1>9 DEF Course, Snapshot
  <2>2. Since'
    BY <1>9 DEF Course, Since
  <2>3. Done'
    BY <1>2, <1>9 DEF Course, Done
  <2>4. ASSUME NEW h, Open(h) PROVE Open(h)'
    <3>1. PICK i \in gate .. n : h = Stage[at].gates[i]
      BY <2>4 DEF Open
    <3>2. i \in gate' .. n
      BY <1>1, <1>9, <3>1
    <3> QED BY <1>9, <3>1, <3>2 DEF Open, AgentPc
  <2>5. Stands'
    BY <1>3, <1>9, <2>4 DEF Course, Stands
  <2> QED BY <2>1, <2>2, <2>3, <2>5 DEF Course
<1>10. CASE Report(<<"dry-run", Stage[at].name>>)
  BY <1>4, <1>10, ReportCourse
<1>11. CASE Report(<<"failed", Stage[at].name>>)
  BY <1>4, <1>11, ReportCourse
<1> QED BY <1>5, <1>7, <1>8, <1>9, <1>10, <1>11

LEMMA AgentWorksCourse ==
  ASSUME Typed, Course, AgentWorks
  PROVE  Course'
<1> DEFINE a == Output(Stage[at].name)
<1>1. pc = "AGENT" /\ pc' = "GATES" /\ UNCHANGED <<at, gate, passed, preexisted, sourced>> /\ gate = 1
  BY DEF AgentWorks, run, Typed, Place
<1>2. at \in 1 .. Len(Stage) /\ Stage[at].kind = "agent" /\ ReviewKind(Stage[at].name) = None
  BY <1>1 DEF Typed, RunTypes, Place, AgentPc
<1>3. \/ at = 1 /\ a = "dld"
      \/ at = 8 /\ a = "template"
      \/ at \in {13, 14} /\ a = "model"
  BY <1>2, AgentOutput
<1>4. UNCHANGED <<files, records>> \/ Write(a)
  BY DEF AgentWorks
<1> HIDE DEF a
<1>5. CASE UNCHANGED <<files, records>>
  <2>1. UNCHANGED <<verdict, stamped, exists, review, dismissed, baselined>>
    BY <1>5 DEF files, records
  <2>2. \A g : Holds(g)' <=> Holds(g)
    BY <2>1, HoldsStays
  <2>3. "stamp_provenance" \in passed => baselined'
    BY <2>1 DEF Course, Snapshot
  <2> QED BY <1>1, <2>1, <2>2, <2>3, WithinCourse DEF AgentPc
<1>6. CASE Write(a)
  <2>1. exists' = exists \cup {a} /\ a \in Artifact
    BY <1>3, <1>6 DEF Write, Artifact
  <2>2. "stamp_provenance" \notin passed
    BY <1>3 DEF Course, Snapshot
  <2>3. ASSUME NEW g \in passed \ {"check_review_findings"}, Holds(g)
        PROVE  Holds(g)' \/ Open(g)'
    <3>1. CASE g \notin Touched(a)
      BY <1>6, <2>1, <2>3, <3>1, HoldsAfterWrite DEF Typed
    <3>2. CASE g \in Touched(a)
      <4>1. Since
        BY DEF Course
      <4>2. \/ at = 1 /\ g = "check_normalization"
            \/ at = 8 /\ g \in {"check_dld_coverage", "lint_template"}
            \/ at \in {13, 14} /\ g = "unit_tests"
        BY <1>3, <2>3, <3>2, <4>1 DEF Touched, Since
      <4>3. Open(g)
        BY <1>1, <1>2, <4>2, OpenFromFirst DEF AgentPc
      <4> QED BY <1>1, <4>3 DEF Open, AgentPc
    <3> QED BY <3>1, <3>2
  <2>4. at \in 1 .. 11 => a # "model"
    BY <1>3
  <2> QED BY <1>1, <1>3, <2>1, <2>2, <2>3, <2>4, WithinCourse DEF AgentPc
<1> QED BY <1>4, <1>5, <1>6

LEMMA ReviewerWorksCourse ==
  ASSUME Typed, Course, ReviewerWorks
  PROVE  Course'
<1> DEFINE k == ReviewKind(Stage[at].name)
<1>1. /\ pc = "REVIEWING" /\ pc' = "GATES" /\ gate = 1
      /\ UNCHANGED <<files, dismissed, at, gate, passed, preexisted, sourced>>
      /\ Reviewed(k, worktree = "same")
  BY DEF ReviewerWorks, Typed, Place
<1>2. at \in 1 .. Len(Stage) /\ Stage[at].kind = "agent" /\ k \in Kind
  BY <1>1 DEF Typed, RunTypes, Place, AgentPc
<1>3. \/ at = 3 /\ k = "normalization"
      \/ at = 16 /\ k = "model"
  <2>1. k \in {"normalization", "model"} /\ k # None
    BY <1>2, NoneAssumption DEF Kind
  <2>2. Stage[at].name \in {"review_normalization", "review_model"}
    BY <2>1 DEF ReviewKind
  <2> QED BY <1>2, <2>2, AgentStage DEF AgentAt, ReviewKind
<1>4. UNCHANGED <<exists, baselined>>
  BY <1>1 DEF files
<1>5. review \in [Kind -> Review] /\ Since
  BY DEF Typed, RecordTypes, Review, Course
<1> HIDE DEF k
<1>6. ASSUME NEW g \in passed \ {"check_review_findings"}, Holds(g)
      PROVE  Holds(g)' \/ Open(g)'
  <2>1. g # "recheck_review_findings"
    BY <1>3, <1>5, <1>6 DEF Since
  <2>2. CASE g = IF k = "model" THEN "check_model_review_owed" ELSE "check_normalization_review_owed"
    <3>1. Open(g)
      BY <1>1, <1>2, <1>3, <2>2, OpenFromFirst DEF AgentPc
    <3> QED BY <1>1, <3>1 DEF Open, AgentPc
  <2>3. CASE g # IF k = "model" THEN "check_model_review_owed" ELSE "check_normalization_review_owed"
    <3>1. Reviewed(k, worktree = "same") /\ UNCHANGED <<files, dismissed>>
      BY <1>1
    <3>2. /\ k = "model" => g # "check_model_review_owed"
          /\ k = "normalization" => g # "check_normalization_review_owed"
      BY <2>3
    <3> QED BY <1>2, <1>5, <1>6, <2>1, <3>1, <3>2, HoldsAfterReview
  <2> QED BY <2>2, <2>3
<1>7. "stamp_provenance" \in passed => baselined'
  BY <1>4 DEF Course, Snapshot
<1> QED BY <1>1, <1>4, <1>6, <1>7, WithinCourse DEF AgentPc

LEMMA CourseNext ==
  ASSUME ~EditsInRun
  PROVE  Typed /\ Course /\ [Next]_vars => Course'
<1> SUFFICES ASSUME Typed, Course, [Next]_vars PROVE Course'
  OBVIOUS
<1>r. pc = "IDLE" => passed = {} /\ at = 1
  BY DEF Typed, Place
<1>s. "src_dld" \in exists <=> SrcDld
  BY DEF Course, Snapshot
<1>1. CASE StartRun
  <2>1. /\ passed' = {} /\ at' = 1 /\ exists' = exists
        /\ preexisted' <=> "model" \in exists
        /\ sourced' <=> "src_dld" \in exists
    BY <1>1, <1>r DEF StartRun, files
  <2> QED BY <2>1, <1>s, RestCourse
\* What the author does between runs.
<1>2. ASSUME pc = "IDLE", UNCHANGED <<pc, at, passed>>, "src_dld" \in exists' <=> SrcDld
      PROVE  Course'
  BY <1>2, <1>r, RestCourse
<1>3. CASE EditDocument
  <2>1. pc = "IDLE" /\ UNCHANGED <<pc, at, passed>> /\ Write(IF SrcDld THEN "src_dld" ELSE "dld")
    BY <1>3 DEF EditDocument, MayAct
  <2>2. exists' = exists \cup {IF SrcDld THEN "src_dld" ELSE "dld"}
    BY <2>1 DEF Write
  <2> QED BY <1>2, <1>s, <2>1, <2>2
<1>4. CASE EditModel
  <2>1. pc = "IDLE" /\ UNCHANGED <<pc, at, passed>> /\ exists' = exists \cup {"model"}
    BY <1>4 DEF EditModel, MayAct, Write
  <2> QED BY <1>2, <1>s, <2>1
<1>5. CASE Commit \/ StampNormalization
  BY <1>2, <1>5, <1>s DEF Commit, StampNormalization, MayAct, run
<1>6. CASE Dismiss
  BY <1>2, <1>6, <1>s DEF Dismiss, MayAct, run, files
<1>7. CASE AnswerRequest
  <2>1. pc = "IDLE" /\ UNCHANGED <<pc, run>> /\ Write(Output(status[2])) /\ status[2] \in Writers
    BY <1>7 DEF AnswerRequest
  <2>2. exists' = exists \cup {Output(status[2])} /\ Output(status[2]) # "src_dld"
    BY <2>1, AgentOutput DEF Write
  <2> QED BY <1>2, <1>s, <2>1, <2>2 DEF run
<1>8. CASE EmitFindings \/ \E k \in Kind : RunAgent(k)
  BY <1>2, <1>8, <1>s DEF EmitFindings, RunAgent, run, files
\* What the engine does.
<1>9. CASE SkipStage \/ AlreadyVerified
  <2>1. /\ pc = "STAGE" /\ at \in 1 .. Len(Stage) /\ ToStage(at + 1) /\ passed' = passed
        /\ UNCHANGED <<files, records>>
        /\ Stage[at].kind = "tool" /\ Applicable(Stage[at]) => Stage[at].name \in passed
    BY <1>9, StageCount DEF SkipStage, AlreadyVerified, InStage, Typed, RunTypes
  <2>2. UNCHANGED <<exists, baselined, verdict, stamped, review, dismissed>>
    BY <2>1 DEF files, records
  <2>3. \A g \in passed' \ {"check_review_findings"} : Holds(g)'
    BY <2>1, <2>2, HoldsStays DEF Course, Stands, Open, AgentPc
  <2>4. Since'
    BY <2>1 DEF Course, Since, ToStage
  <2>5. at = 19 => baselined
    <3>1. CASE at = 19
      <4>1. "stamp_provenance" \in passed
        BY <2>1, <3>1, ToolNames, ToolKinds DEF ToolAt, Applicable
      <4> QED BY <4>1 DEF Course, Snapshot
    <3> QED BY <3>1
  <2> QED BY <2>1, <2>2, <2>3, <2>4, <2>5, OnwardCourse
<1>10. CASE RunTool
  BY <1>10, RunToolCourse
<1>11. CASE BeginGates \/ DispatchAgent \/ ProvisionWorktree \/ DispatchReview
  <2>1. /\ pc \in AgentPc \cup {"STAGE"} /\ pc' \in AgentPc
        /\ UNCHANGED <<at, gate, passed, preexisted, sourced>> /\ UNCHANGED <<files, records>>
    BY <1>11 DEF BeginGates, DispatchAgent, ProvisionWorktree, DispatchReview, InStage, AgentPc, run
  <2>2. UNCHANGED <<exists, baselined, verdict, stamped, review, dismissed>>
    BY <2>1 DEF files, records
  <2>3. \A g : Holds(g)' <=> Holds(g)
    BY <2>2, HoldsStays
  <2>4. "stamp_provenance" \in passed => baselined'
    BY <2>2 DEF Course, Snapshot
  <2> QED BY <2>1, <2>2, <2>3, <2>4, WithinCourse
<1>12. CASE RunGate
  BY <1>12, RunGateCourse
<1>13. CASE RequestAgent
  BY <1>13, ReportCourse DEF RequestAgent
<1>14. CASE AbortReview
  BY <1>14, ReportCourse DEF AbortReview
<1>15. CASE Complete
  BY <1>15, ReportCourse DEF Complete
<1>16. CASE AgentWorks
  BY <1>16, AgentWorksCourse
<1>17. CASE ReviewerWorks
  BY <1>17, ReviewerWorksCourse
<1>18. CASE UNCHANGED vars
  <2>1. UNCHANGED <<files, records>> /\ UNCHANGED <<pc, run>>
    BY <1>18 DEF vars
  <2>2. UNCHANGED <<exists, baselined, verdict, stamped, review, dismissed>>
    BY <2>1 DEF files, records
  <2>3. \A g : (Holds(g)' <=> Holds(g)) /\ (Open(g)' <=> Open(g))
    BY <2>1, <2>2, HoldsStays DEF Open, run
  <2>4. Snapshot' /\ Since' /\ Done'
    BY <2>1, <2>2 DEF Course, Snapshot, Since, Done, run
  <2>5. Stands'
    BY <2>1, <2>3 DEF Course, Stands, run
  <2> QED BY <2>4, <2>5 DEF Course
<1> QED
  BY <1>1, <1>3, <1>4, <1>5, <1>6, <1>7, <1>8, <1>9, <1>10, <1>11, <1>12, <1>13, <1>14, <1>15,
     <1>16, <1>17, <1>18
  DEF Next, Engine, Author

-----------------------------------------------------------------------------
(* The theorems.                                                            *)

LEMMA RunsInvariant ==
  ASSUME ~EditsInRun
  PROVE  Spec => [](Typed /\ Course)
<1>1. Init => Typed /\ Course
  BY TypedInit, CourseInit
<1>2. Typed /\ Course /\ [Next]_vars => (Typed /\ Course)'
  BY TypedNext, CourseNext
<1> QED BY <1>1, <1>2, PTL DEF Spec

\* A verdict that was taken for an agent and is not asked for again at its own
\* place is true whenever the engine moves between stages, if nobody edits
\* while it runs (run_agent_stage, run_gates).
THEOREM VerdictsStand ==
  ASSUME ~EditsInRun
  PROVE  Spec => []CachedVerdictsStand
<1>1. AgentGates \subseteq {"check_normalization", "check_normalization_review_owed",
         "check_dld_coverage", "lint_template", "unit_tests", "check_model_review_owed"}
  <2> SUFFICES ASSUME NEW i \in DOMAIN Stage, NEW g \in DOMAIN Stage[i].gates
               PROVE  Stage[i].gates[g] \in {"check_normalization",
                        "check_normalization_review_owed", "check_dld_coverage", "lint_template",
                        "unit_tests", "check_model_review_owed"}
    BY DEF AgentGates
  <2>1. i \in 1 .. Len(Stage)
    BY StageCount
  <2>2. CASE Stage[i].kind = "agent"
    BY <2>1, <2>2, AgentStage DEF AgentAt
  <2>3. CASE Stage[i].kind # "agent"
    <3>1. DOMAIN Stage[i].gates = {}
      BY <2>1, <2>3, ToolHasNoGates
    <3> QED BY <3>1
  <2> QED BY <2>2, <2>3
<1>2. Typed /\ Course => CachedVerdictsStand
  <2> SUFFICES ASSUME Typed, Course PROVE CachedVerdictsStand
    OBVIOUS
  <2>1. ASSUME pc = "STAGE", NEW g \in passed \cap AgentGates PROVE Holds(g)
    BY <1>1, <2>1 DEF Course, Stands, Open, AgentPc
  <2> QED BY <2>1 DEF CachedVerdictsStand, TypeOK, Typed
<1> QED BY <1>2, RunsInvariant, PTL

\* What "complete" says is so: at the end of the stage list every gate that
\* applies holds of the files, cached or not (_run_ip_stages).
THEOREM CompleteIsTrue ==
  ASSUME ~EditsInRun
  PROVE  Spec => CompleteMeansAllHold
<1> DEFINE AllHold ==
      status'[1] = "complete" /\ status[1] # "complete" =>
        /\ baselined
        /\ \A i \in DOMAIN Stage :
             Stage[i].kind = "tool" /\ (Stage[i].when = "src_dld_exists" => SrcDld)
               => Holds(Stage[i].name)
<1>1. ASSUME Typed, Course, Next, status'[1] = "complete", status[1] # "complete"
      PROVE  Complete
  <2>1. \A outcome : Report(outcome) => outcome[1] = "complete"
    BY <1>1 DEF Report
  <2>2. ~RunTool
    <3> SUFFICES ASSUME RunTool PROVE FALSE
      OBVIOUS
    <3>1. \/ ToStage(at + 1)
          \/ Report(<<IF Stage[at].human THEN "awaiting" ELSE "failed", Stage[at].name>>)
      BY DEF RunTool
    <3> QED BY <1>1, <2>1, <3>1 DEF ToStage
  <2>3. ~RunGate
    <3> SUFFICES ASSUME RunGate PROVE FALSE
      OBVIOUS
    <3>1. \/ UNCHANGED status
          \/ ToStage(at + 1)
          \/ Report(<<"dry-run", Stage[at].name>>)
          \/ Report(<<"failed", Stage[at].name>>)
      BY DEF RunGate
    <3> QED BY <1>1, <2>1, <3>1 DEF ToStage
  <2>4. ~RequestAgent /\ ~AbortReview
    BY <2>1 DEF RequestAgent, AbortReview
  <2>5. ~SkipStage /\ ~AlreadyVerified
    BY <1>1 DEF SkipStage, AlreadyVerified, ToStage
  <2>0. status' # <<"none">> /\ status' # status
    BY <1>1
  <2>6. ~StartRun /\ ~BeginGates /\ ~DispatchAgent /\ ~AgentWorks /\ ~ProvisionWorktree
        /\ ~DispatchReview /\ ~ReviewerWorks
    BY <2>0 DEF StartRun, BeginGates, DispatchAgent, AgentWorks, ProvisionWorktree, DispatchReview,
                ReviewerWorks
  <2>7. ~Author
    BY <2>0 DEF Author, EditDocument, EditModel, Commit, Dismiss, StampNormalization,
                AnswerRequest, EmitFindings, RunAgent
  <2> QED BY <1>1, <2>2, <2>3, <2>4, <2>5, <2>6, <2>7 DEF Next, Engine
<1>2. ASSUME Typed, Course, Complete
      PROVE  /\ baselined
             /\ \A i \in DOMAIN Stage :
                  Stage[i].kind = "tool" /\ (Stage[i].when = "src_dld_exists" => SrcDld)
                    => Holds(Stage[i].name)
  <2>1. pc = "STAGE" /\ at = 20
    BY <1>2, StageCount DEF Complete, Typed, RunTypes
  <2>2. \A g \in passed \ {"check_review_findings"} : Holds(g)
    BY <1>2, <2>1 DEF Course, Stands, Open, AgentPc
  <2>3. /\ SrcDld => {"check_normalization", "check_normalization_review_owed",
                      "check_normalization_stamp"} \subseteq passed
        /\ {"check_dld_coverage", "lint_template", "unit_tests", "check_model_review_owed",
            "recheck_review_findings", "stamp_provenance"} \subseteq passed
    BY <1>2, <2>1 DEF Course, Done, Snapshot
  <2>4. baselined
    BY <1>2, <2>3 DEF Course, Snapshot
  <2>5. Holds("check_review_findings")
    <3>1. Holds("recheck_review_findings")
      BY <2>2, <2>3
    <3> QED BY <3>1 DEF Holds, ContentGate
  <2>6. \A name \in {"parse_dld", "generate_scaffold", "generate_prompt_pack"} : Holds(name)
    BY DEF Holds, ContentGate
  <2>7. ASSUME NEW i \in DOMAIN Stage, Stage[i].kind = "tool",
               Stage[i].when = "src_dld_exists" => SrcDld
        PROVE  Holds(Stage[i].name)
    <3>1. i \in 1 .. Len(Stage)
      BY StageCount
    <3>2. \/ Stage[i].name \in {"check_normalization", "check_normalization_review_owed",
                                "check_normalization_stamp"} /\ SrcDld
          \/ Stage[i].name \in {"check_dld_coverage", "lint_template", "unit_tests",
               "check_model_review_owed", "recheck_review_findings", "stamp_provenance"}
          \/ Stage[i].name = "check_review_findings"
          \/ Stage[i].name \in {"parse_dld", "generate_scaffold", "generate_prompt_pack"}
      BY <2>7, <3>1, ToolStage DEF ToolAt
    <3> QED BY <2>2, <2>3, <2>5, <2>6, <3>2
  <2> QED BY <2>4, <2>7
<1>3. Typed /\ Course /\ [Next]_vars => [AllHold]_vars
  BY <1>1, <1>2
<1> QED BY <1>3, RunsInvariant, PTL DEF Spec, CompleteMeansAllHold

\* A run that made a scaffold is not the one that amends, and scaffolds over
\* nothing (STAGE_CONDITIONS on the snapshot of stage_context).
THEOREM PathsStayApart ==
  ASSUME ~EditsInRun
  PROVE  Spec => OnePath
<1> DEFINE Apart ==
      /\ pc' = "AGENT" /\ pc # "AGENT" /\ Stage[at].name = "amend_implementation" =>
           "generate_scaffold" \notin passed
      /\ pc' = "STAGE" /\ pc = "STAGE" /\ "generate_scaffold" \in passed' \ passed =>
           "model" \notin exists
<1>1. ASSUME Typed, Course, Next, pc' = "AGENT", pc # "AGENT", Stage[at].name = "amend_implementation"
      PROVE  "generate_scaffold" \notin passed
  <2>1. pc \in AgentPc
    BY <1>1 DEF Next, Engine, Author, StartRun, SkipStage, AlreadyVerified, RunTool, BeginGates, RunGate,
         RequestAgent, DispatchAgent, AgentWorks, ProvisionWorktree, AbortReview, DispatchReview,
         ReviewerWorks, Complete, EditDocument, EditModel, Commit, Dismiss, StampNormalization,
         AnswerRequest, EmitFindings, RunAgent, ToStage, Report, AgentPc
  <2>2. at \in 1 .. Len(Stage) /\ Stage[at].kind = "agent" /\ Applicable(Stage[at])
    BY <1>1, <2>1 DEF Typed, RunTypes, Place
  <2>3. Stage[at].when = "model_exists"
    BY <1>1, <2>2, AgentStage DEF AgentAt
  <2>4. preexisted
    BY <2>2, <2>3 DEF Applicable
  <2> QED BY <1>1, <2>4 DEF Course, Snapshot
<1>2. ASSUME Typed, Course, Next, pc' = "STAGE", pc = "STAGE",
             "generate_scaffold" \in passed', "generate_scaffold" \notin passed
      PROVE  "model" \notin exists
  <2>6. passed' # passed
    BY <1>2
  <2>7. ~Author
    BY <2>6 DEF Author, EditDocument, EditModel, Commit, Dismiss, StampNormalization,
         AnswerRequest, EmitFindings, RunAgent, run
  <2>8. ~SkipStage /\ ~AlreadyVerified /\ ~StartRun
    BY <2>6 DEF SkipStage, AlreadyVerified, StartRun
  <2>9. ~BeginGates /\ ~RunGate /\ ~RequestAgent /\ ~DispatchAgent /\ ~AgentWorks
        /\ ~ProvisionWorktree /\ ~AbortReview /\ ~DispatchReview /\ ~ReviewerWorks /\ ~Complete
    BY <1>2 DEF BeginGates, RunGate, RequestAgent, DispatchAgent, AgentWorks, ProvisionWorktree,
         AbortReview, DispatchReview, ReviewerWorks, Complete, Report
  <2>1. RunTool
    BY <1>2, <2>7, <2>8, <2>9 DEF Next, Engine
  <2>2. at \in 1 .. Len(Stage) /\ Stage[at].kind = "tool" /\ Applicable(Stage[at])
    BY <1>2, <2>1, StageCount DEF RunTool, InStage, Typed, RunTypes
  <2>3. Stage[at].name = "generate_scaffold"
    BY <1>2, <2>1 DEF RunTool, Report
  <2>4. at = 11 /\ Stage[at].when = "model_new"
    BY <2>2, <2>3, ToolStage DEF ToolAt
  <2>5. ~preexisted
    BY <2>2, <2>4 DEF Applicable
  <2> QED BY <1>2, <2>4, <2>5 DEF Course, Snapshot
<1>3. Typed /\ Course /\ [Next]_vars => [Apart]_vars
  BY <1>1, <1>2
<1> QED BY <1>3, RunsInvariant, PTL DEF Spec, OnePath

\* Between the checkout and the dispatch nothing moves, and what was older in the
\* worktree then is dirty in the tree still.
Fit == pc = "PROVISIONED" /\ ~SubjectsUnfit => worktree = "same"

LEMMA FitNext ==
  ASSUME ~EditsInRun
  PROVE  Fit /\ [Next]_vars => Fit'
<1> SUFFICES ASSUME Fit, [Next]_vars, pc' = "PROVISIONED", ~SubjectsUnfit' PROVE worktree' = "same"
  BY DEF Fit
<1>1. CASE pc # "PROVISIONED"
  <2>1. ProvisionWorktree
    BY <1>1 DEF Next, Engine, Author, StartRun, SkipStage, AlreadyVerified, RunTool, BeginGates, RunGate,
         RequestAgent, DispatchAgent, AgentWorks, ProvisionWorktree, AbortReview, DispatchReview,
         ReviewerWorks, Complete, EditDocument, EditModel, Commit, Dismiss, StampNormalization,
         AnswerRequest, EmitFindings, RunAgent, ToStage, Report, vars
  <2>2. UNCHANGED <<dirty, at>>
    BY <2>1 DEF ProvisionWorktree, files
  <2>3. worktree' # "missing" /\ Subjects(ReviewKind(Stage[at].name)) \cap dirty = {}
    BY <2>2 DEF SubjectsUnfit
  <2> QED BY <2>1, <2>3 DEF ProvisionWorktree
<1>2. CASE pc = "PROVISIONED"
  <2>1. UNCHANGED vars
    BY <1>2 DEF Next, Engine, Author, StartRun, SkipStage, AlreadyVerified, RunTool, BeginGates, RunGate,
         RequestAgent, DispatchAgent, AgentWorks, ProvisionWorktree, AbortReview, DispatchReview,
         ReviewerWorks, Complete, EditDocument, EditModel, Commit, Dismiss, StampNormalization,
         AnswerRequest, EmitFindings, RunAgent, ToStage, Report, InStage, MayAct
  <2>2. UNCHANGED <<dirty, at, worktree>>
    BY <2>1 DEF vars, files, run
  <2> QED BY <1>2, <2>2 DEF Fit, SubjectsUnfit
<1> QED BY <1>1, <1>2

\* A reviewer is dispatched only on the content that is in the tree, if nobody
\* edits or commits in between (dispatch_isolated_review).
THEOREM ReviewersSeeTheTree ==
  ASSUME ~EditsInRun
  PROVE  Spec => ReviewsWhatIsThere
<1>1. Init => Fit
  BY DEF Init, Fit
<1>2. Fit /\ [Next]_vars => Fit'
  BY FitNext
<1>3. ASSUME Fit, Next, pc' = "REVIEWING", pc # "REVIEWING" PROVE worktree = "same"
  <2>1. DispatchReview
    BY <1>3 DEF Next, Engine, Author, StartRun, SkipStage, AlreadyVerified, RunTool, BeginGates, RunGate,
         RequestAgent, DispatchAgent, AgentWorks, ProvisionWorktree, AbortReview, DispatchReview,
         ReviewerWorks, Complete, EditDocument, EditModel, Commit, Dismiss, StampNormalization,
         AnswerRequest, EmitFindings, RunAgent, ToStage, Report
  <2> QED BY <1>3, <2>1 DEF DispatchReview, Fit
<1>4. Fit /\ [Next]_vars => [pc' = "REVIEWING" /\ pc # "REVIEWING" => worktree = "same"]_vars
  BY <1>3
<1> QED BY <1>1, <1>2, <1>4, PTL DEF Spec, ReviewsWhatIsThere

\* Ids are unique over both reviews: the ids of a new review are above those of
\* either, and of all that were dismissed.
DisjointReviews == review["model"].ids \cap review["normalization"].ids = {}

LEMMA NextIdsAreNew ==
  ASSUME RecordTypes, NEW k \in Kind, NEW i \in NextIds(k)
  PROVE  i \notin dismissed /\ \A j \in Kind : i \notin review[j].ids
<1>1. Recorded(k) \subseteq Id /\ dismissed \subseteq Recorded(k)
      /\ \A j \in Kind : review[j].ids \subseteq Recorded(k)
  BY DEF RecordTypes, Recorded
<1> SUFFICES i \notin Recorded(k)
  BY <1>1
<1> DEFINE numbers == { r[2] : r \in Recorded(k) }
<1>2. CASE numbers = {}
  <2>1. Recorded(k) = {}
    BY <1>2
  <2> QED BY <2>1
<1>3. CASE numbers # {}
  <2>1. PICK r \in Recorded(k) : i = <<r[1], r[2] + 1>> /\ \A n \in numbers : n <= r[2]
    BY <1>3 DEF NextIds
  <2>2. r[2] \in Nat /\ i[2] = r[2] + 1
    <3>1. r \in Id
      BY <1>1, <2>1
    <3> QED BY <2>1, <3>1 DEF Id
  <2>3. ASSUME i \in Recorded(k) PROVE FALSE
    <3>1. i[2] \in numbers
      BY <2>3
    <3>2. i[2] <= r[2]
      BY <2>1, <3>1
    <3> QED BY <2>2, <3>2
  <2> QED BY <2>3
<1> QED BY <1>2, <1>3

Clears ==
  \/ \E k \in Kind : (review'[k].ids \ review[k].ids) \cap dismissed # {}
  \/ review'["model"].ids \cap review'["normalization"].ids # {}

LEMMA ReviewedClearsNothing ==
  ASSUME RecordTypes, DisjointReviews, NEW k \in Kind, NEW asInTree, Reviewed(k, asInTree)
  PROVE  ~Clears
<1>1. review \in [Kind -> Review]
  BY DEF RecordTypes, Review
<1>2. CASE UNCHANGED review
  BY <1>2 DEF Clears, DisjointReviews
<1>3. CASE review' = [review EXCEPT ![k] =
                        [made |-> TRUE, current |-> FALSE, ids |-> {}, by |-> "reviewer"]]
  <2>1. \A j \in Kind : review'[j].ids \subseteq review[j].ids
    BY <1>1, <1>3
  <2> QED BY <2>1 DEF Clears, DisjointReviews, Kind
<1>4. CASE \E i \in NextIds(k) : \E found \in SUBSET (Id \cap {i}) :
             review' = [review EXCEPT ![k] =
                          [made |-> TRUE, current |-> asInTree, ids |-> found, by |-> "reviewer"]]
  <2>1. PICK i \in NextIds(k) : \E found \in SUBSET (Id \cap {i}) :
             review' = [review EXCEPT ![k] =
                          [made |-> TRUE, current |-> asInTree, ids |-> found, by |-> "reviewer"]]
    BY <1>4
  <2>2. PICK found \in SUBSET (Id \cap {i}) :
             review' = [review EXCEPT ![k] =
                          [made |-> TRUE, current |-> asInTree, ids |-> found, by |-> "reviewer"]]
    BY <2>1
  <2>3. review'[k].ids \subseteq {i} /\ \A j \in Kind \ {k} : review'[j].ids = review[j].ids
    BY <1>1, <2>2
  <2>4. i \notin dismissed /\ \A j \in Kind : i \notin review[j].ids
    BY NextIdsAreNew
  <2> QED BY <2>3, <2>4 DEF Clears, DisjointReviews, Kind
<1> QED BY <1>2, <1>3, <1>4 DEF Reviewed

\* Whoever edits while runs are under way: a finding that a reviewer brings in
\* was not dismissed before it was made, and no id stands in two reviews
\* (next_finding_id, existing_finding_ids).
THEOREM DismissalsClearTheirOwn ==
  ASSUME ~Emits
  PROVE  Spec => NothingClearedUnread
<1> DEFINE Keeps ==
      /\ \A k \in Kind : (review'[k].ids \ review[k].ids) \cap dismissed = {}
      /\ review'["model"].ids \cap review'["normalization"].ids = {}
<1>1. Init => Typed /\ DisjointReviews
  <2>1. Init => DisjointReviews
    BY DEF Init, DisjointReviews, NoReview, Kind
  <2> QED BY <2>1, TypedInit
<1>2. Typed /\ DisjointReviews /\ [Next]_vars => ~Clears
  <2> SUFFICES ASSUME Typed, DisjointReviews, [Next]_vars PROVE ~Clears
    OBVIOUS
  <2>1. RecordTypes
    BY DEF Typed
  <2>2. ASSUME UNCHANGED review PROVE ~Clears
    BY <2>2 DEF Clears, DisjointReviews
  <2>3. ASSUME NEW a, Write(a) PROVE ~Clears
    <3>1. \A k \in Kind : review'[k].ids = review[k].ids
      BY <2>1, <2>3, WriteReviews
    <3> QED BY <3>1 DEF Clears, DisjointReviews, Kind
  <2>4. CASE EditDocument \/ EditModel \/ AnswerRequest
    BY <2>3, <2>4 DEF EditDocument, EditModel, AnswerRequest
  <2>5. CASE \E k \in Kind : RunAgent(k)
    BY <2>1, <2>5, ReviewedClearsNothing DEF RunAgent
  <2>6. CASE ReviewerWorks
    <3>1. ReviewKind(Stage[at].name) \in Kind
      BY <2>6 DEF ReviewerWorks, Typed, Place
    <3> QED BY <2>1, <2>6, <3>1, ReviewedClearsNothing DEF ReviewerWorks
  <2>7. CASE RunTool
    <3>1. ToolEffect(Stage[at].name) \/ UNCHANGED <<files, records>>
      BY <2>7 DEF RunTool
    <3>2. Write("model") \/ UNCHANGED records
      BY <3>1 DEF ToolEffect
    <3> QED BY <2>2, <2>3, <3>2 DEF records
  <2>8. CASE AgentWorks
    <3>1. UNCHANGED <<files, records>> \/ Write(Output(Stage[at].name))
      BY <2>8 DEF AgentWorks
    <3> QED BY <2>2, <2>3, <3>1 DEF records
  <2>9. CASE \/ StartRun \/ SkipStage \/ AlreadyVerified \/ BeginGates \/ RunGate \/ RequestAgent
             \/ DispatchAgent \/ ProvisionWorktree \/ AbortReview \/ DispatchReview \/ Complete
             \/ Commit \/ Dismiss \/ StampNormalization \/ UNCHANGED vars
    <3>1. UNCHANGED review
      BY <2>9 DEF StartRun, SkipStage, AlreadyVerified, BeginGates, RunGate, RequestAgent, DispatchAgent,
           ProvisionWorktree, AbortReview, DispatchReview, Complete, Commit, Dismiss,
           StampNormalization, vars, records
    <3> QED BY <2>2, <3>1
  <2>10. ~EmitFindings
    BY DEF EmitFindings
  <2> QED BY <2>4, <2>5, <2>6, <2>7, <2>8, <2>9, <2>10 DEF Next, Engine, Author
<1>3. Typed /\ DisjointReviews /\ [Next]_vars => (Typed /\ DisjointReviews)'
  BY <1>2, TypedNext DEF Clears, DisjointReviews
<1>4. Typed /\ DisjointReviews /\ [Next]_vars => [Keeps]_vars
  BY <1>2 DEF Clears
<1> QED BY <1>1, <1>3, <1>4, PTL DEF Spec, NothingClearedUnread

=============================================================================
