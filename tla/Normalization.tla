----------------------------- MODULE Normalization -----------------------------
(***************************************************************************)
(* The fidelity gate between an author's DLD and its normalized form:      *)
(* tools/check_dld_normalization.py.                                       *)
(*                                                                         *)
(* Each check returns what it objects to; GateErrors is check_ip without   *)
(* the stamp.  A word is what the tool's tokenizers tell apart: numbers    *)
(* with their units, names, words of blocking language, other words.       *)
(* Shares of words are compared in integers: 0.6 as 6 of 10.               *)
(***************************************************************************)
EXTENDS DldDocument, FiniteSetsExt

CONSTANTS
  Measure,      \* words that are a number bound to a unit or a keyword
  Blocking      \* BLOCKING_LANGUAGE

ASSUME WordAssumption == "wait" \in Blocking /\ "wait" \notin DOMAIN Parts

-----------------------------------------------------------------------------
(* Tokenizers.                                                              *)

WaitWords(wait) ==
  IF wait.block THEN {"wait", "model"} \cup (({wait.mode} \cup wait.points) \ {None}) ELSE {}

BodyWords(s) == s.text \cup s.states \cup WaitWords(s.wait)
RowWords(d) == UNION { {d.rows[i].fsm} \cup d.rows[i].ops : i \in DOMAIN d.rows }
Sections(d) == { d.sections[i] : i \in DOMAIN d.sections }

\* Every token, whatever its markup: a dotted name is one token.
BareTokens(d) == RowWords(d) \cup UNION { s.title \cup BodyWords(s) : s \in Sections(d) }
Measurements(d) == BareTokens(d) \cap Measure

\* What the author marked as a name: code, states, and what a wait model names.
Identifiers(d) ==
  UNION { s.marked \cup s.states \cup (({s.wait.mode} \cup s.wait.points) \ {None})
            : s \in Sections(d) }

IsGrounded(name, tokens) ==
  name \in tokens \/ (name \in DOMAIN Parts /\ Parts[name] \subseteq tokens)

\* Matching by content takes a dotted name apart.
ContentTokens(words) == UNION { IF w \in DOMAIN Parts THEN Parts[w] ELSE {w} : w \in words }

SectionTokens(s) == ContentTokens(BodyWords(s))
ContentBlocks(d) ==
  ({ ContentTokens(RowWords(d)) }
     \cup UNION { { ContentTokens(w) : w \in {s.text, s.states, WaitWords(s.wait)} }
                    : s \in Sections(d) }) \ {{}}
HeadingBlocks(d) == { ContentTokens(s.title) : s \in Sections(d) }

-----------------------------------------------------------------------------
(* Checks.                                                                  *)

\* Fault: only what is lost is looked for.
CheckMeasurementsLost(author, norm) ==
  { <<"dropped", m>> : m \in Measurements(author) \ Measurements(norm) }

CheckMeasurements(author, norm) ==
  { <<"dropped", m>> : m \in Measurements(author) \ Measurements(norm) }
    \cup { <<"invented", m>> : m \in Measurements(norm) \ Measurements(author) }

\* The names of the wait modes are the extractor's own: writing one down
\* invents no name.
CheckIdentifiers(author, norm) ==
  { <<"dropped", n>> : n \in { m \in Identifiers(author) : ~IsGrounded(m, BareTokens(norm)) } }
    \cup { <<"invented", n>> :
             n \in { m \in Identifiers(norm) \ Mode : ~IsGrounded(m, BareTokens(author)) } }

\* An author's document without FSM sections leaves nothing to disagree with,
\* and a normalized one without any does not disagree by that alone.
CheckFsmParity(author, norm) ==
  LET before == Names(author, "fsm")
      after == Names(norm, "fsm")
  IN { <<"FSM dropped", f>> : f \in IF after = {} THEN {} ELSE before \ after }
     \cup { <<"FSM added", f>> : f \in IF before = {} THEN {} ELSE after \ before }
     \cup { <<"count changed", n>> :
              n \in { ExtractFsmCount(norm) } \ (IF before = {} THEN { ExtractFsmCount(norm) }
                                                 ELSE { ExtractFsmCount(author) }) }
     \cup { <<"count wrong", n>> :
              n \in IF after = {} THEN {} ELSE { ExtractFsmCount(norm) } \ {Cardinality(after)} }

\* Compared are the FSMs whose states are listed on both sides.
CheckStateParity(author, norm) ==
  LET before == ExtractFsms(author)
      after == ExtractFsms(norm)
  IN { <<"states changed", f>> :
         f \in { g \in DOMAIN before \cap DOMAIN after :
                   before[g] # {} /\ after[g] # {} /\ before[g] # after[g] } }

BlockingHits(words) == Cardinality(words \cap Blocking)

MatchScore(title, wanted, s) ==
  LET tokens == SectionTokens(s)
      size == Min({Cardinality(wanted), Cardinality(tokens)})
  IN [over |-> 10 * size,
      score |-> 10 * Cardinality(wanted \cap tokens) + size * Cardinality(title \cap s.title)]

\* The first of the author's sections that shares the most of its words with
\* section t, if they share enough.
MatchSourceSection(t, author) ==
  LET score(i) == MatchScore(t.title, SectionTokens(t), author.sections[i])
      candidates == { i \in DOMAIN author.sections : SectionTokens(author.sections[i]) # {} }
      beats(i, j) == score(i).score * score(j).over > score(j).score * score(i).over
  IN { i \in candidates :
         /\ \A j \in candidates : ~beats(j, i) /\ (j < i => beats(i, j))
         /\ 10 * score(i).score >= 3 * score(i).over }

\* Without a matching section the whole document is the evidence.
CheckWaitModelProvenance(author, norm) ==
  LET evidence(s) ==
        LET matched == MatchSourceSection(s, author)
        IN IF matched = {} THEN BareTokens(author)
           ELSE UNION { BodyWords(author.sections[i]) : i \in matched }
  IN { <<"wait model invented", s.name>> :
         s \in { t \in Sections(norm) : /\ t.heading = "interface" /\ t.wait.block
                                        /\ BlockingHits(evidence(t)) = 0 } }

\* A block of the author's survives in one block, or its words are nearly all
\* somewhere in the document.
CheckUnplacedAccounting(author, norm) ==
  LET blocks == ContentBlocks(norm) \cup HeadingBlocks(norm)
      shared(b, other) == 10 * Cardinality(b \cap other)
  IN { <<"block lost", b>> :
         b \in { c \in ContentBlocks(author) :
                   /\ \A other \in blocks : shared(c, other) < 6 * Cardinality(c)
                   /\ shared(c, UNION blocks) < 9 * Cardinality(c) } }

GateErrors(author, norm) ==
  CheckMeasurements(author, norm) \cup CheckIdentifiers(author, norm) \cup CheckFsmParity(author, norm)
    \cup CheckStateParity(author, norm) \cup CheckWaitModelProvenance(author, norm)
    \cup CheckUnplacedAccounting(author, norm)

Passes(author, norm) == GateErrors(author, norm) = {}

=============================================================================
