----------------------------- MODULE StageEngine -----------------------------
(***************************************************************************)
(* One IP's way through the stages of the generation loop: the engine of   *)
(* tools/auto_ip_pipeline.py over harness/ip_generation_loop.yaml, with    *)
(* the review gate of tools/check_review_findings.py.                      *)
(*                                                                         *)
(* The engine's decisions depend on files only through hashes and tool     *)
(* verdicts, so a file is modelled by those: whether it exists, is known   *)
(* to git, differs from HEAD; which content gates pass on what is in the   *)
(* tree; whether a review, a stamp or a baseline recorded the hashes the   *)
(* files have now.  A write never restores an older content.               *)
(* Between runs, and with EditsInRun during them, the author edits,        *)
(* commits, dismisses findings and stamps the normalization.  Runs of one  *)
(* checkout exclude each other (PipelineRuns).                             *)
(***************************************************************************)
EXTENDS Naturals, Sequences, FiniteSets

CONSTANTS
  SrcDld,       \* whether the IP has an author document to normalize
  AgentCmd,     \* whether runs are given an agent command
  Hangs,        \* whether a tool may be killed as hung
  Edits,        \* whether the author edits documents and model
  EditsInRun,   \* whether the author acts while a run is under way
  DryRuns,      \* whether there are --dry-run runs
  ByHand,       \* whether the author dispatches reviewers with run_agent
  Emits,        \* and files findings with check_declared_transitions
  MaxId,        \* findings are numbered up to this
  None

ASSUME EngineAssumption ==
  /\ {SrcDld, AgentCmd, Hangs, Edits, EditsInRun, DryRuns, ByHand, Emits} \subseteq BOOLEAN
  /\ MaxId \in Nat

-----------------------------------------------------------------------------
(* The stage list: harness/ip_generation_loop.yaml, scope ip.               *)

Agent(name, when, gates, attempts) ==
  [name |-> name, kind |-> "agent", when |-> when, gates |-> gates,
   attempts |-> attempts, human |-> FALSE]
\* Every tool stage of the list is required.
Tool(name, when, human) ==
  [name |-> name, kind |-> "tool", when |-> when, gates |-> <<>>, attempts |-> 0, human |-> human]

MaxIterations == 3                      \* loop_policy
Stage ==
  << Agent("normalize_dld", "src_dld_exists", <<"check_normalization">>, 2),
     Tool("check_normalization", "src_dld_exists", FALSE),
     Agent("review_normalization", "src_dld_exists", <<"check_normalization_review_owed">>, 1),
     Tool("check_normalization_review_owed", "src_dld_exists", TRUE),
     Tool("check_review_findings", "src_dld_exists", TRUE),
     Tool("check_normalization_stamp", "src_dld_exists", TRUE),
     Tool("parse_dld", "always", FALSE),
     Agent("complete_template", "always", <<"check_dld_coverage", "lint_template">>, 1),
     Tool("check_dld_coverage", "always", FALSE),
     Tool("lint_template", "always", FALSE),
     Tool("generate_scaffold", "model_new", FALSE),
     Tool("generate_prompt_pack", "always", FALSE),
     Agent("agent_implementation", "model_new", <<"unit_tests">>, MaxIterations),
     Agent("amend_implementation", "model_exists", <<"unit_tests">>, MaxIterations),
     Tool("unit_tests", "always", FALSE),
     Agent("review_model", "always", <<"check_model_review_owed">>, 1),
     Tool("check_model_review_owed", "always", TRUE),
     Tool("recheck_review_findings", "always", TRUE),
     Tool("stamp_provenance", "always", FALSE) >>

Artifact == {"src_dld", "dld", "template", "model"}   \* model: with its tests
Kind == {"normalization", "model"}
ASSUME NoneAssumption == None \notin Kind
Id == {"F", "M", "T"} \X (1 .. MaxId)

\* What a gate on content reads.
ContentGate == {"check_normalization", "check_dld_coverage", "lint_template", "unit_tests"}
Reads(g) ==
  CASE g = "check_normalization" -> {"src_dld", "dld"}
    [] g = "check_dld_coverage" -> {"dld", "template"}
    [] g = "lint_template" -> {"template"}
    [] g = "unit_tests" -> {"model"}

\* What a review is a statement about.
Subjects(k) == IF k = "model" THEN {"template", "model"} ELSE {"src_dld", "dld"}

\* What an agent's contract lets it write.
Writers == {"normalize_dld", "complete_template", "agent_implementation", "amend_implementation"}
Output(stage) ==
  CASE stage = "normalize_dld" -> "dld"
    [] stage = "complete_template" -> "template"
    [] stage \in {"agent_implementation", "amend_implementation"} -> "model"

ReviewKind(stage) ==
  CASE stage = "review_model" -> "model"
    [] stage = "review_normalization" -> "normalization"
    [] OTHER -> None

VARIABLES
  exists, tracked, dirty,  \* artifacts in the tree, at HEAD, and unlike HEAD
  verdict,      \* the content gates that pass on what is in the tree
  bare,         \* whether the model is a scaffold nobody has filled in
  review,       \* reviews/<ip>.<kind>.findings.yaml
  dismissed,    \* the findings named in decisions/<ip>.md
  used,         \* history: the finding ids ever given
  stamped,      \* whether the normalization stamp has the hashes of the DLDs
  baselined,    \* whether the provenance baseline has the template's hash
  pc,           \* of the run: between runs, or what it is doing at its stage
  at,           \* the stage's index
  gate,         \* the next of its gates
  attempt,      \* dispatches of its agent
  passed,       \* gate_results: the stages last seen to pass in this run
  preexisted,   \* the snapshot stage_context takes of the model file
  sourced,      \* and of the author document
  worktree,     \* a review's checkout, compared with the subjects in the tree
  dry,
  status        \* what the last run reported

files == <<exists, tracked, dirty, verdict, bare, stamped, baselined>>
records == <<review, dismissed, used>>
run == <<at, gate, attempt, passed, preexisted, sourced, worktree, dry>>
vars == <<files, records, pc, run, status>>

NoReview == [made |-> FALSE, current |-> FALSE, ids |-> {}, by |-> None]

Init ==
  /\ exists = (IF SrcDld THEN {"src_dld"} ELSE {"dld"})
  /\ tracked = {} /\ dirty = exists
  /\ verdict = {} /\ bare = FALSE
  /\ review = [k \in Kind |-> NoReview]
  /\ dismissed = {} /\ used = {}
  /\ stamped = FALSE /\ baselined = FALSE
  /\ pc = "IDLE" /\ at = 1 /\ gate = 1 /\ attempt = 0 /\ passed = {}
  /\ preexisted = FALSE /\ sourced = FALSE /\ worktree = "none" /\ dry = FALSE
  /\ status = <<"none">>

\* A write of one artifact: every hash taken of the old content is stale.
Write(a) ==
  /\ exists' = exists \cup {a} /\ dirty' = dirty \cup {a} /\ UNCHANGED tracked
  /\ LET touched == { g \in ContentGate : a \in Reads(g) }
         judged == { g \in touched : Reads(g) \subseteq exists' /\ ~(g = "unit_tests" /\ bare') }
     IN \E pass \in SUBSET judged : verdict' = (verdict \ touched) \cup pass
  /\ review' = [k \in Kind |-> [review[k] EXCEPT !.current = @ /\ a \notin Subjects(k)]]
  /\ stamped' = (stamped /\ a \notin Subjects("normalization"))
  /\ baselined' = (baselined /\ a # "template")
  /\ UNCHANGED <<dismissed, used>>

\* The worktree of a review under way no longer has the tree's content of a.
Outdated(a) ==
  IF worktree = "same" /\ a \in Subjects(ReviewKind(Stage[at].name)) THEN "older" ELSE worktree

-----------------------------------------------------------------------------
(* Review records.                                                          *)

\* Fault: only the file about to be replaced is looked at.
RecordedOfKind(k) == review[k].ids

\* existing_finding_ids, for a review of either kind.
Recorded(k) == dismissed \cup UNION { review[j].ids : j \in Kind }

\* next_finding_id: one sequence of numbers, under the prefix of the highest
\* (of any of them that has it).
NextIds(k) ==
  LET numbers == { i[2] : i \in Recorded(k) }
  IN  IF numbers = {} THEN {<<IF k = "model" THEN "M" ELSE "F", 1>>}
      ELSE { <<i[1], i[2] + 1>> : i \in { r \in Recorded(k) : \A n \in numbers : n <= r[2] } }

\* What comes of a reviewer that sees the subjects as they are in the tree, or
\* older: nothing, or a findings file with the hashes of what it saw.  A file
\* that cannot be read stands like a review that is not current.
Reviewed(k, asInTree) ==
  \/ UNCHANGED <<review, used>>
  \/ /\ review' = [review EXCEPT ![k] =
                     [made |-> TRUE, current |-> FALSE, ids |-> {}, by |-> "reviewer"]]
     /\ UNCHANGED used
  \/ \E i \in NextIds(k) : \E found \in SUBSET (Id \cap {i}) :
       /\ review' = [review EXCEPT ![k] =
                       [made |-> TRUE, current |-> asInTree, ids |-> found, by |-> "reviewer"]]
       /\ used' = used \cup found

-----------------------------------------------------------------------------
(* The author.                                                              *)

MayAct == pc = "IDLE" \/ EditsInRun

EditDocument ==
  /\ MayAct /\ Edits
  /\ UNCHANGED bare /\ Write(IF SrcDld THEN "src_dld" ELSE "dld")
  /\ worktree' = Outdated(IF SrcDld THEN "src_dld" ELSE "dld")
  /\ UNCHANGED <<pc, at, gate, attempt, passed, preexisted, sourced, dry, status>>

EditModel ==
  /\ MayAct /\ Edits /\ "template" \in exists
  /\ bare' = FALSE /\ Write("model")
  /\ worktree' = Outdated("model")
  /\ UNCHANGED <<pc, at, gate, attempt, passed, preexisted, sourced, dry, status>>

Commit ==
  /\ MayAct /\ dirty # {}
  /\ tracked' = exists /\ dirty' = {}
  /\ UNCHANGED <<exists, verdict, bare, stamped, baselined, records, pc, run, status>>

Dismiss ==
  /\ MayAct
  /\ \E k \in Kind : \E i \in review[k].ids \ dismissed : dismissed' = dismissed \cup {i}
  /\ UNCHANGED <<files, review, used, pc, run, status>>

\* check_dld_normalization --stamp refuses while the mechanical checks fail.
StampNormalization ==
  /\ MayAct /\ "check_normalization" \in verdict /\ ~stamped
  /\ stamped' = TRUE
  /\ UNCHANGED <<exists, tracked, dirty, verdict, bare, baselined, records, pc, run, status>>

\* Whoever takes the request a run without an agent command has written does
\* the work of that stage.
AnswerRequest ==
  /\ pc = "IDLE" /\ ~AgentCmd /\ status[1] = "awaiting" /\ status[2] \in Writers
  /\ LET a == Output(status[2]) IN bare' = (bare /\ a # "model") /\ Write(a)
  /\ status' = <<"none">> /\ UNCHANGED <<pc, run>>

\* tools/run_agent.py dispatches one reviewer, on the same conditions; the author
\* has it do so when no current review is there.
RunAgent(k) ==
  /\ pc = "IDLE" /\ ByHand /\ ~(review[k].made /\ review[k].current)
  /\ Subjects(k) \subseteq tracked \ dirty
  /\ Reviewed(k, TRUE)
  /\ UNCHANGED <<files, dismissed, pc, run, status>>

\* check_declared_transitions --emit-findings: the disagreements of a run of
\* the tests, numbered T1, T2, ... from the start, unless the file has findings
\* that are not.
EmitFindings ==
  /\ pc = "IDLE" /\ Emits /\ {"template", "model"} \subseteq exists
  /\ \A i \in review["model"].ids : i[1] = "T"
  /\ \E n \in 0 .. MaxId :
       LET found == {"T"} \X (1 .. n) IN
       /\ review' = [review EXCEPT !["model"] =
                       [made |-> TRUE, current |-> TRUE, ids |-> found, by |-> "check"]]
       /\ used' = used \cup found
  /\ UNCHANGED <<files, dismissed, pc, run, status>>

-----------------------------------------------------------------------------
(* The gates.                                                               *)

\* review_owed: a review that cannot be read counts as one that is stale.
ReviewIsCurrent(k) == review[k].made /\ review[k].current

\* check_review_findings.main: every review of the IP, of either kind, is
\* current, its findings dismissed, no id in two reviews, and a promoted IP has
\* a model review.
FindingsResolved ==
  /\ \A k \in Kind : review[k].made => review[k].current /\ review[k].ids \subseteq dismissed
  /\ review["model"].ids \cap review["normalization"].ids = {}
  /\ "template" \in exists => review["model"].made

Holds(g) ==
  CASE g \in ContentGate -> g \in verdict
    [] g = "check_normalization_review_owed" -> ReviewIsCurrent("normalization")
    [] g = "check_model_review_owed" -> ReviewIsCurrent("model")
    [] g \in {"check_review_findings", "recheck_review_findings"} -> FindingsResolved
    [] g = "check_normalization_stamp" -> "check_normalization" \in verdict /\ stamped
    [] OTHER -> TRUE                    \* a tool that judges nothing

\* run_stage_command: the tool's verdict, or a timeout, which counts as failed.
CommandOutcomes(g) == {Holds(g)} \cup (IF Hangs THEN {FALSE} ELSE {})

-----------------------------------------------------------------------------
(* The engine: _run_ip_stages, run_agent_stage, run_gates.                  *)

ToStage(i) ==
  /\ pc' = "STAGE" /\ at' = i /\ gate' = 1 /\ attempt' = 0 /\ worktree' = "none"
  /\ UNCHANGED <<preexisted, sourced, dry, status>>

\* The run reports how the IP stands and is over.
Report(outcome) ==
  /\ status' = outcome
  /\ pc' = "IDLE" /\ at' = 1 /\ gate' = 1 /\ attempt' = 0 /\ passed' = {}
  /\ preexisted' = FALSE /\ sourced' = FALSE /\ worktree' = "none" /\ dry' = FALSE

StartRun ==
  /\ pc = "IDLE"
  /\ pc' = "STAGE" /\ at' = 1
  /\ preexisted' = ("model" \in exists)
  /\ sourced' = ("src_dld" \in exists)
  /\ \E d \in {FALSE, DryRuns} : dry' = d
  /\ status' = <<"none">>
  /\ UNCHANGED <<files, records, gate, attempt, passed, worktree>>

InStage(kind) == pc = "STAGE" /\ at <= Len(Stage) /\ Stage[at].kind = kind

\* Fault: the conditions are evaluated when the stage is reached.
ApplicableNow(st) ==
  CASE st.when = "model_new" -> "model" \notin exists
    [] st.when = "model_exists" -> "model" \in exists
    [] st.when = "src_dld_exists" -> "src_dld" \in exists
    [] OTHER -> TRUE

\* STAGE_CONDITIONS, on the snapshot.
Applicable(st) ==
  CASE st.when = "model_new" -> ~preexisted
    [] st.when = "model_exists" -> preexisted
    [] st.when = "src_dld_exists" -> sourced
    [] OTHER -> TRUE

SkipStage ==
  /\ pc = "STAGE" /\ at <= Len(Stage) /\ ~Applicable(Stage[at])
  /\ ToStage(at + 1) /\ UNCHANGED <<files, records, passed>>

\* A gate that passed for an agent is not run again.
AlreadyVerified ==
  /\ InStage("tool") /\ Applicable(Stage[at]) /\ Stage[at].name \in passed
  /\ ToStage(at + 1) /\ UNCHANGED <<files, records, passed>>

\* What a tool that judges nothing does: the scaffold is rendered over
\* whatever is there, the baseline takes the template's hash.
ToolEffect(name) ==
  CASE name = "generate_scaffold" -> bare' = TRUE /\ Write("model")
    [] name = "stamp_provenance" ->
         baselined' = TRUE /\ UNCHANGED <<exists, tracked, dirty, verdict, bare, stamped, records>>
    [] OTHER -> UNCHANGED <<files, records>>

\* Fault: a gate not seen to fail is not run.
RunToolOnce ==
  /\ InStage("tool") /\ Applicable(Stage[at]) /\ Stage[at].name \notin passed
  /\ ToolEffect(Stage[at].name)
  /\ passed' = passed \cup {Stage[at].name} /\ ToStage(at + 1)

RunTool ==
  /\ InStage("tool") /\ Applicable(Stage[at]) /\ Stage[at].name \notin passed
  /\ \E ok \in CommandOutcomes(Stage[at].name) :
       \/ /\ ok /\ ToolEffect(Stage[at].name)
          /\ passed' = passed \cup {Stage[at].name} /\ ToStage(at + 1)
       \/ /\ ~ok /\ UNCHANGED <<files, records>>
          /\ Report(<<IF Stage[at].human THEN "awaiting" ELSE "failed", Stage[at].name>>)

BeginGates ==
  /\ InStage("agent") /\ Applicable(Stage[at])
  /\ pc' = "GATES" /\ UNCHANGED <<files, records, run, status>>

GatesPassed == gate = Len(Stage[at].gates)

\* Fault: one gate that passes is taken for all of them.
RunGateUntilOnePasses ==
  /\ pc = "GATES"
  /\ \E ok \in CommandOutcomes(Stage[at].gates[gate]) :
       \/ /\ ok
          /\ passed' = passed \cup { Stage[at].gates[g] : g \in DOMAIN Stage[at].gates }
          /\ ToStage(at + 1)
       \/ /\ ~ok /\ attempt < Stage[at].attempts
          /\ pc' = "DISPATCH" /\ attempt' = attempt + 1 /\ gate' = 1
          /\ UNCHANGED <<at, passed, preexisted, sourced, worktree, dry, status>>
       \/ /\ ~ok /\ attempt = Stage[at].attempts
          /\ Report(<<"failed", Stage[at].name>>)
  /\ UNCHANGED <<files, records>>

\* The gates run in order, up to the first that fails.
RunGate ==
  /\ pc = "GATES"
  /\ \E ok \in CommandOutcomes(Stage[at].gates[gate]) :
       LET g == Stage[at].gates[gate]
           seen == IF ok THEN passed \cup {g} ELSE passed \ {g}
       IN \/ /\ ok /\ ~GatesPassed
             /\ gate' = gate + 1 /\ passed' = seen
             /\ UNCHANGED <<pc, at, attempt, preexisted, sourced, worktree, dry, status>>
          \/ /\ ok /\ GatesPassed
             /\ passed' = seen /\ ToStage(at + 1)
          \/ /\ ~ok /\ dry
             /\ Report(<<"dry-run", Stage[at].name>>)
          \/ /\ ~ok /\ ~dry /\ attempt < Stage[at].attempts
             /\ pc' = "DISPATCH" /\ attempt' = attempt + 1 /\ passed' = seen /\ gate' = 1
             /\ UNCHANGED <<at, preexisted, sourced, worktree, dry, status>>
          \/ /\ ~ok /\ ~dry /\ attempt = Stage[at].attempts
             /\ Report(<<"failed", Stage[at].name>>)
  /\ UNCHANGED <<files, records>>

\* Fault: the IP is reported as failed.
RequestAgentFails ==
  /\ pc = "DISPATCH" /\ ~AgentCmd
  /\ Report(<<"failed", Stage[at].name>>)
  /\ UNCHANGED <<files, records>>

\* Without an agent command a request is written and the IP waits.
RequestAgent ==
  /\ pc = "DISPATCH" /\ ~AgentCmd
  /\ Report(<<"awaiting", Stage[at].name>>)
  /\ UNCHANGED <<files, records>>

DispatchAgent ==
  /\ pc = "DISPATCH" /\ AgentCmd /\ ReviewKind(Stage[at].name) = None
  /\ pc' = "AGENT" /\ UNCHANGED <<files, records, run, status>>

\* The agent may exit, or be killed, without having written anything.
AgentWorks ==
  /\ pc = "AGENT"
  /\ \/ UNCHANGED <<files, records>>
     \/ LET a == Output(Stage[at].name) IN
        /\ bare' = (bare /\ a # "model") /\ Write(a)
  /\ pc' = "GATES" /\ UNCHANGED <<run, status>>

\* dispatch_isolated_review: a worktree of HEAD, then the checks that it is
\* fit to be reviewed, then the reviewer.
ProvisionWorktree ==
  /\ pc = "DISPATCH" /\ AgentCmd /\ ReviewKind(Stage[at].name) # None
  /\ LET subjects == Subjects(ReviewKind(Stage[at].name)) IN
     worktree' = IF ~(subjects \subseteq tracked) THEN "missing"
                 ELSE IF subjects \cap dirty # {} THEN "older" ELSE "same"
  /\ pc' = "PROVISIONED"
  /\ UNCHANGED <<files, records, at, gate, attempt, passed, preexisted, sourced, dry, status>>

\* Fault: a subject that git knows is taken to be what is in the tree.
SubjectsMissing == worktree = "missing"

SubjectsUnfit ==
  worktree = "missing" \/ Subjects(ReviewKind(Stage[at].name)) \cap dirty # {}

AbortReview ==
  /\ pc = "PROVISIONED" /\ SubjectsUnfit
  /\ Report(<<"awaiting", Stage[at].name>>)
  /\ UNCHANGED <<files, records>>

DispatchReview ==
  /\ pc = "PROVISIONED" /\ ~SubjectsUnfit
  /\ pc' = "REVIEWING" /\ UNCHANGED <<files, records, run, status>>

ReviewerWorks ==
  /\ pc = "REVIEWING"
  /\ Reviewed(ReviewKind(Stage[at].name), worktree = "same")
  /\ worktree' = "none" /\ pc' = "GATES"
  /\ UNCHANGED <<files, dismissed, at, gate, attempt, passed, preexisted, sourced, dry, status>>

Complete ==
  /\ pc = "STAGE" /\ at > Len(Stage)
  /\ Report(<<"complete">>) /\ UNCHANGED <<files, records>>

Engine ==
  \/ SkipStage \/ AlreadyVerified \/ RunTool \/ BeginGates \/ RunGate \/ RequestAgent
  \/ DispatchAgent \/ AgentWorks \/ ProvisionWorktree \/ AbortReview \/ DispatchReview
  \/ ReviewerWorks \/ Complete

Author ==
  \/ EditDocument \/ EditModel \/ Commit \/ Dismiss \/ StampNormalization \/ AnswerRequest
  \/ EmitFindings
  \/ \E k \in Kind : RunAgent(k)

Next == StartRun \/ Engine \/ Author

Spec == Init /\ [][Next]_vars

\* Runs are started and come to their end; an agent that is dispatched again
\* and again writes something its gates accept, and a reviewer a review that
\* can be read; the author does what a run that is awaiting asks for.
Accepted(a) ==
  a \in exists' /\ { g \in ContentGate : a \in Reads(g) /\ Reads(g) \subseteq exists' } \subseteq verdict'
Fairness ==
  /\ SF_vars(StartRun /\ ~dry') /\ WF_vars(Engine)
  /\ SF_vars(AgentWorks /\ Accepted(Output(Stage[at].name)))
  /\ SF_vars(AnswerRequest /\ Accepted(Output(status[2])))
  /\ SF_vars(ReviewerWorks /\ review'[ReviewKind(Stage[at].name)].current)
  /\ \A k \in Kind : SF_vars(RunAgent(k) /\ review'[k].current)
  /\ SF_vars(Commit) /\ SF_vars(Dismiss) /\ SF_vars(StampNormalization)
FairSpec == Spec /\ Fairness

-----------------------------------------------------------------------------
(* What the loop promises.                                                  *)

AgentGates == UNION { { Stage[i].gates[g] : g \in DOMAIN Stage[i].gates } : i \in DOMAIN Stage }

\* Every variable keeps its type; a worktree is there just while a review is
\* being dispatched or made; what an artifact's absence rules out is ruled out.
FileTypes ==
  /\ exists \subseteq Artifact /\ tracked \subseteq exists /\ exists \ tracked \subseteq dirty
  /\ dirty \subseteq exists
  /\ verdict \subseteq { g \in ContentGate : Reads(g) \subseteq exists }
  /\ bare \in BOOLEAN /\ (bare => "model" \in exists /\ "unit_tests" \notin verdict)
  /\ stamped \in BOOLEAN /\ baselined \in BOOLEAN

RecordTypes ==
  /\ review \in [Kind -> [made : BOOLEAN, current : BOOLEAN, ids : SUBSET Id,
                        by : {None, "reviewer", "check"}]]
  /\ dismissed \subseteq used /\ used \subseteq Id
  /\ \A k \in Kind : review[k].ids \subseteq used

RunTypes ==
  /\ preexisted \in BOOLEAN /\ sourced \in BOOLEAN /\ dry \in BOOLEAN
  /\ pc \in {"IDLE", "STAGE", "GATES", "DISPATCH", "AGENT", "PROVISIONED", "REVIEWING"}
  /\ at \in 1 .. Len(Stage) + 1 /\ gate \in 1 .. 2 /\ attempt \in 0 .. MaxIterations
  /\ passed \subseteq { Stage[i].name : i \in DOMAIN Stage }
  /\ worktree \in {"none", "missing", "older", "same"}
  /\ worktree # "none" <=> pc \in {"PROVISIONED", "REVIEWING"}
  /\ status[1] \in {"none", "complete", "awaiting", "failed", "dry-run"}

TypeOK == FileTypes /\ RecordTypes /\ RunTypes

\* The verdict cached for an agent's gate still holds of what is in the tree
\* whenever the engine moves between stages: no later stage rewrites what an
\* earlier gate judged.  Every variable keeps its type.
CachedVerdictsStand ==
  /\ TypeOK
  /\ pc = "STAGE" => \A g \in passed \cap AgentGates : Holds(g)

\* An IP is reported complete only when, at that moment, every gate of its
\* stage list that applies holds of the files in the tree, and the baseline is
\* that of the promoted template: nothing was skipped, cached from before a
\* rewrite, or waved through.
CompleteMeansAllHold ==
  [][ status'[1] = "complete" /\ status[1] # "complete" =>
        /\ baselined
        /\ \A i \in DOMAIN Stage :
             Stage[i].kind = "tool" /\ (Stage[i].when = "src_dld_exists" => SrcDld)
               => Holds(Stage[i].name) ]_vars

\* A run that scaffolded a new model never sends it to the agent that amends
\* models, and a run over an existing model never scaffolds over it or has it
\* written from nothing.
OnePath ==
  [][ /\ pc' = "AGENT" /\ pc # "AGENT" /\ Stage[at].name = "amend_implementation" =>
           "generate_scaffold" \notin passed
      /\ pc' = "STAGE" /\ pc = "STAGE" /\ "generate_scaffold" \in passed' \ passed =>
           "model" \notin exists ]_vars

\* The dismissal of a finding never clears another: a finding a review brings
\* in was not dismissed before it was made, and no id stands in two reviews.
NothingClearedUnread ==
  [][ /\ \A k \in Kind : (review'[k].ids \ review[k].ids) \cap dismissed = {}
      /\ review'["model"].ids \cap review'["normalization"].ids = {} ]_vars

\* A reviewer is dispatched only on the content that is in the tree.
ReviewsWhatIsThere == [][ pc' = "REVIEWING" /\ pc # "REVIEWING" => worktree = "same" ]_vars

\* What a reviewer found is not overwritten by the findings of the transition
\* check.  (It is: the check knows its own by their T, and next_finding_id
\* gives the first reviewer after it a T as well.)
ReviewersFindingsStand ==
  [][ review["model"].by = "reviewer" /\ review'["model"].by = "check" =>
        review["model"].ids = {} ]_vars

\* With an agent that comes to satisfy its gates and an author who does what a
\* run asks for, the IP is completed.
EventuallyComplete == <>(status[1] = "complete")

=============================================================================
