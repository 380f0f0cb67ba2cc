----------------------------- MODULE TemplateGates -----------------------------
(***************************************************************************)
(* What a promoted template must pass: tools/check_template_coverage.py    *)
(* --strict against its DLD, and tools/template_lint.py on its own.        *)
(*                                                                         *)
(* A template is [fsms, count, interfaces, timing], the fields of          *)
(* BuildDraft that the two tools read: per FSM its states and exits, the   *)
(* FSM count, per interface its wait model, per FSM its operations.        *)
(***************************************************************************)
EXTENDS Normalization

\* The markers left anywhere in the file.
HasTodo(t) ==
  \/ Todo \in DOMAIN t.fsms \cup DOMAIN t.interfaces \cup DOMAIN t.timing
  \/ \E f \in DOMAIN t.fsms : \E s \in t.fsms[f].states : Todo \in t.fsms[f].exits[s]
  \/ \E n \in DOMAIN t.interfaces : Todo \in t.interfaces[n].points
  \/ \E f \in DOMAIN t.timing : Todo \in t.timing[f]

\* The template's own word for where a wait model comes from is taken.
WaitModelCoverage(t) ==
  { <<"assumed wait model", n>> : n \in { i \in DOMAIN t.interfaces : t.interfaces[i].source # "dld" } }

\* A DLD that was written from an author's document must pass its gate and
\* bear its stamp.
NormalizationCoverage(author, d, stamped) ==
  IF author = None THEN {} ELSE GateErrors(author, d) \cup (IF stamped THEN {} ELSE {<<"no stamp", None>>})

\* Fault: the FSM count is the template's own business.
CoverageByName(t, d, author, stamped) ==
  { <<"FSM missing", f>> : f \in Names(d, "fsm") \ DOMAIN t.fsms }
    \cup WaitModelCoverage(t) \cup NormalizationCoverage(author, d, stamped)
    \cup (IF HasTodo(t) THEN {<<"unresolved", Todo>>} ELSE {})

Coverage(t, d, author, stamped) ==
  { <<"FSM missing", f>> : f \in Names(d, "fsm") \ DOMAIN t.fsms }
    \cup { <<"count", n>> : n \in {t.count} \ {ExtractFsmCount(d)} }
    \cup WaitModelCoverage(t) \cup NormalizationCoverage(author, d, stamped)
    \cup (IF HasTodo(t) THEN {<<"unresolved", Todo>>} ELSE {})

\* A wait point joins an FSM of the template and a state of that FSM.
WaitModelErrors(t) ==
  { <<"wait point", n>> :
      n \in { i \in DOMAIN t.interfaces :
                \E p \in t.interfaces[i].points \ {Todo} :
                  ~ \E f \in DOMAIN t.fsms : \E s \in t.fsms[f].states : Parts[p] = {f, s} } }

\* Every FSM has its timing, and nothing else has any; the count is theirs.
SemanticErrors(t) ==
  { <<"count", n>> : n \in {t.count} \ {Cardinality(DOMAIN t.fsms)} }
    \cup { <<"timing", f>> : f \in (DOMAIN t.fsms \ DOMAIN t.timing)
                                     \cup (DOMAIN t.timing \ DOMAIN t.fsms) }
    \cup { <<"no operations", f>> : f \in { g \in DOMAIN t.timing : t.timing[g] = {} } }
    \cup WaitModelErrors(t)

PassesGates(t, d, author, stamped) == Coverage(t, d, author, stamped) = {} /\ SemanticErrors(t) = {}

=============================================================================
