------------------------------- MODULE Authoring -------------------------------
(***************************************************************************)
(* How one IP's DLD reaches its template: the author's document, as Word   *)
(* (docx) or as any markdown (src), the normalized DLD (md) made of it,    *)
(* the human's stamp on the pair, the draft and the gaps report parsed     *)
(* from the DLD, and the template promoted from the draft.                 *)
(*                                                                         *)
(* One run at a time works through these (tools/auto_ip_pipeline.py, with  *)
(* the tools its first stages call), while the author edits, the reviewer  *)
(* stamps and somebody writes into the gaps report.  Documents are         *)
(* identifiers, with Text what they say; a hash is told by its document.   *)
(* The reviews between normalization and stamp, and all that follows the   *)
(* template, are StageEngine's subject.                                    *)
(***************************************************************************)
EXTENDS TemplateGates, SequencesExt

CONSTANTS
  Doc, Text,             \* markdown documents, and what each says
  WordDoc, Conversion,   \* Word documents, and docx_to_markdown of each
  Written,               \* what an author writes in a shape of his own
  InShape,               \* what an author writes in the extractor's shape
  Rewriting,             \* what the normalizer may come to write
  MaxEdits, MaxWritings  \* bounds on the author's edits and on notes in the report

ASSUME AuthoringAssumption ==
  /\ DOMAIN Text = Doc /\ \A d, e \in Doc : Text[d] = Text[e] => d = e
  /\ \A d \in Doc : Text[d] # None /\ IsFiniteSet(DOMAIN Text[d].sections)
  /\ DOMAIN Conversion = WordDoc /\ \A w \in WordDoc : Conversion[w] \in Written
  /\ Written \cup InShape \cup Rewriting \subseteq Doc
  /\ MaxEdits \in Nat /\ MaxWritings \in Nat
  /\ None \notin Doc \cup WordDoc \cup {"docx", "src", "md"}
  /\ \A pair \in Doc \X Doc : pair # None
  /\ \A written \in SUBSET (1 .. MaxWritings) : written # None

Rows(d) == Range(d.rows)

\* What every markdown document is, whoever wrote it: a text of finitely many
\* words in which marks are set on words of the prose, each section states a
\* wait model or none, and no two FSMs are headed by one name.
IsSection(s) ==
  /\ {"heading", "title", "name", "states", "wait", "text", "marked"} \subseteq DOMAIN s
  /\ {"block", "mode", "points"} \subseteq DOMAIN s.wait
  /\ s.wait.block \in BOOLEAN /\ (s.wait.block \/ s.wait = NoWait)
  /\ \A words \in {s.title, s.text, s.states, s.wait.points} : IsFiniteSet(words)
  /\ s.marked \subseteq s.text
IsDocument(d) ==
  /\ {"sections", "rows", "count"} \subseteq DOMAIN d
  /\ d.sections \in Seq(Sections(d)) /\ \A s \in Sections(d) : IsSection(s)
  /\ d.rows \in Seq(Rows(d)) /\ \A r \in Rows(d) : IsFiniteSet(r.ops)
  /\ None \notin BareTokens(d)
  /\ \A i, j \in Headed(d, "fsm") : d.sections[i].name = d.sections[j].name => i = j

ASSUME DocumentAssumption ==
  /\ \A d \in Doc : IsDocument(Text[d])
  /\ \A name \in DOMAIN Parts : IsFiniteSet(Parts[name])
  /\ "Unplaced" \notin Measure

VARIABLES
  docx, src, md,   \* the three files an IP's DLD may be present as
  baseline,        \* the stamped pair in normalization_baselines.json
  template,        \* the DLD whose draft the promoted template was completed from
  report, kept,    \* the notes in the gaps report, and in its kept copy
  notes,           \* how many notes were written
  file,            \* the state file: the fingerprint recorded for each source
  pc, source, dry, \* the run: its place, the file it was started from, --dry-run
  edits,
  reviewed,        \* history: the pairs that were ever stamped
  done             \* history: the contents recorded as complete

runVars == <<pc, source, dry>>
docVars == <<docx, src, md>>
outVars == <<template, report, kept, notes>>
vars == <<docVars, baseline, outVars, file, runVars, edits, reviewed, done>>

Source == {"docx", "src", "md"}
Contents == <<docx, src, md>>
Content(f) == CASE f = "docx" -> docx [] f = "src" -> src [] f = "md" -> md

-----------------------------------------------------------------------------
(* The documents against each other, computed once: the pairs that pass the *)
(* fidelity gate, and the templates that pass theirs.                       *)

Pairs == { <<a, d>> : a \in Doc, d \in Doc }
Faithful == { p \in Pairs : Passes(Text[p[1]], Text[p[2]]) }

\* What a careful completion makes of the draft: every marker is replaced, and
\* what the draft was given by the DLD stays.
Settled(set, default) == IF Todo \in set THEN (set \ {Todo}) \cup default ELSE set
SettledExits(exits) == [s \in DOMAIN exits |-> Settled(exits[s], {s})]
Completed(t) ==
  [t EXCEPT
     !.fsms = [f \in DOMAIN t.fsms |-> [t.fsms[f] EXCEPT !.exits = SettledExits(t.fsms[f].exits)]],
     !.interfaces = [n \in DOMAIN t.interfaces |->
                       [t.interfaces[n] EXCEPT !.points = Settled(t.interfaces[n].points, {})]],
     !.timing = [f \in DOMAIN t.timing |-> Settled(t.timing[f], {"settled"})]]

\* A template is told by the DLD whose draft it was completed from.
Template == [d \in Doc |-> Completed(BuildDraft(Text[d]))]
Promotable ==
  { p \in { <<t, a, d, stamped>> : t \in Doc, a \in Doc \cup {None}, d \in Doc, stamped \in BOOLEAN } :
      PassesGates(Template[p[1]], Text[p[3]], IF p[2] = None THEN None ELSE Text[p[2]], p[4]) }

\* Fault: the stamp is of a normalized DLD, whatever it was made from.
StampedNormalized == baseline # None /\ baseline[2] = md

Stamped == baseline = <<src, md>>
NormalizationPasses == <<src, md>> \in Faithful
TemplatePasses == <<template, src, md, Stamped>> \in Promotable

-----------------------------------------------------------------------------
(* Change detection.                                                        *)

\* One source per IP: the file closest to the author.
DiscoverDldSource == CHOOSE f \in Source :
  /\ Content(f) # None
  /\ f = "src" => docx = None
  /\ f = "md" => docx = None /\ src = None

\* A DLD asked for by name stands for its author's markdown while it is not
\* there itself.
ResolveRequestedDld(f) == IF Content(f) = None THEN "src" ELSE f

\* Fault: only the file a run starts from is hashed.
FingerprintOfSource(f) == <<Content(f)>>

\* Each file that exists is hashed, once; one that does not contributes nothing.
Hashed(content) == IF content = None THEN <<>> ELSE <<content>>
SourceFingerprint(f) ==
  CASE f = "docx" -> Hashed(docx) \o Hashed(src) \o Hashed(md)
    [] f = "src" -> Hashed(src) \o Hashed(md)
    [] f = "md" -> Hashed(md) \o Hashed(src)

IsChanged(f) == file[f] # SourceFingerprint(f)

-----------------------------------------------------------------------------
(* The author, the reviewer, and who writes into the gaps report.  They do  *)
(* so between runs.                                                         *)

Idle == pc = "IDLE"

Init ==
  /\ \/ docx \in WordDoc /\ src = None /\ md = None
     \/ docx = None /\ src \in Written /\ md = None
     \/ docx = None /\ src = None /\ md \in InShape
  /\ baseline = None
  /\ template = None
  /\ report = None /\ kept = {} /\ notes = 0
  /\ file = [f \in Source |-> <<>>]
  /\ pc = "IDLE" /\ source = None /\ dry = FALSE
  /\ edits = 0
  /\ reviewed = {} /\ done = {}

Edit ==
  /\ Idle /\ edits < MaxEdits /\ edits' = edits + 1
  /\ \/ docx' \in WordDoc \ {docx} /\ UNCHANGED <<src, md>>
     \/ src' \in Written \ {src} /\ UNCHANGED <<docx, md>>
     \/ md' \in InShape \ {md} /\ UNCHANGED <<docx, src>>
  /\ UNCHANGED <<baseline, outVars, file, runVars, reviewed, done>>

\* check_dld_normalization.py --stamp: a reviewer's, and refused while a check
\* fails.
Stamp ==
  /\ Idle /\ src # None /\ NormalizationPasses
  /\ baseline' = <<src, md>> /\ reviewed' = reviewed \cup {<<src, md>>}
  /\ UNCHANGED <<docVars, outVars, file, runVars, edits, done>>

WriteNote ==
  /\ Idle /\ report # None /\ notes < MaxWritings
  /\ notes' = notes + 1
  /\ report' = report \cup {notes + 1}
  /\ UNCHANGED <<docVars, baseline, template, kept, file, runVars, edits, reviewed, done>>

-----------------------------------------------------------------------------
(* A run.                                                                   *)

Goto(place) == pc' = place /\ UNCHANGED <<source, dry>>

\* A run without names leaves alone what it finds unchanged; one with a name,
\* or --force, does not ask.
Begin(f) ==
  /\ Idle /\ Content(f) # None
  /\ source' = f /\ dry' \in BOOLEAN /\ pc' = "CONVERT"
  /\ UNCHANGED <<docVars, baseline, outVars, file, edits, reviewed, done>>
BeginNamed == \E f \in Source : Begin(ResolveRequestedDld(f))
BeginDiscovered == IsChanged(DiscoverDldSource) /\ Begin(DiscoverDldSource)

\* ensure_markdown_dld: a Word document is converted into the author's
\* markdown, in dry runs too.  The chain goes on with the normalized DLD.
EnsureMarkdownDld ==
  /\ pc = "CONVERT" /\ Goto("NORMALIZE")
  /\ src' = IF source = "docx" THEN Conversion[docx] ELSE src
  /\ UNCHANGED <<docx, md, baseline, outVars, file, edits, reviewed, done>>

\* The agent is asked as long as the gate fails.
NormalizeDld ==
  /\ pc = "NORMALIZE" /\ src # None /\ ~NormalizationPasses /\ ~dry
  /\ md' \in Rewriting \ {md}
  /\ UNCHANGED <<docx, src, baseline, outVars, file, runVars, edits, reviewed, done>>

CheckNormalization ==
  /\ pc = "NORMALIZE" /\ (src # None => NormalizationPasses) /\ Goto("STAMP")
  /\ UNCHANGED <<docVars, baseline, outVars, file, edits, reviewed, done>>

CheckNormalizationStamp ==
  /\ pc = "STAMP" /\ (src # None => Stamped) /\ Goto("PARSE")
  /\ UNCHANGED <<docVars, baseline, outVars, file, edits, reviewed, done>>

\* Fault: whatever is in the report is overwritten.
ParseDldOver ==
  /\ pc = "PARSE" /\ md # None /\ Goto("TEMPLATE")
  /\ report' = {}
  /\ UNCHANGED <<docVars, baseline, template, kept, notes, file, edits, reviewed, done>>

\* A report somebody wrote into is copied before it is overwritten, over the last
\* copy.
PreserveHandEdits == IF report # None /\ report # {} THEN report ELSE kept

\* write_outputs: the draft and the report are written anew in every run, dry
\* ones too, so the draft is the one of md from here on.
ParseDld ==
  /\ pc = "PARSE" /\ md # None /\ Goto("TEMPLATE")
  /\ report' = {}
  /\ kept' = PreserveHandEdits
  /\ UNCHANGED <<docVars, baseline, template, notes, file, edits, reviewed, done>>

\* The agent promotes the draft, unless the promoted template passes as it is.
PromoteDraft ==
  /\ pc = "TEMPLATE" /\ ~TemplatePasses /\ ~dry
  /\ template' = md
  /\ Goto("PROMOTED")
  /\ UNCHANGED <<docVars, baseline, report, kept, notes, file, edits, reviewed, done>>

CheckTemplate ==
  /\ pc \in {"TEMPLATE", "PROMOTED"} /\ TemplatePasses /\ Goto("REST")
  /\ UNCHANGED <<docVars, baseline, outVars, file, edits, reviewed, done>>

\* The rest of the chain passes, and the contents are recorded, except in a
\* dry run.
Record ==
  /\ pc = "REST" /\ ~dry
  /\ pc' = "IDLE" /\ source' = None /\ dry' = FALSE
  /\ file' = [file EXCEPT ![source] = SourceFingerprint(source)]
  /\ done' = done \cup {Contents}
  /\ UNCHANGED <<docVars, baseline, outVars, edits, reviewed>>

\* A run ends early anywhere: awaiting a person, failed, dry or killed.
Stop ==
  /\ ~Idle
  /\ pc' = "IDLE" /\ source' = None /\ dry' = FALSE
  /\ UNCHANGED <<docVars, baseline, outVars, file, edits, reviewed, done>>

Next ==
  \/ Edit \/ Stamp \/ WriteNote
  \/ BeginNamed \/ BeginDiscovered \/ EnsureMarkdownDld
  \/ NormalizeDld \/ CheckNormalization \/ CheckNormalizationStamp
  \/ ParseDld \/ PromoteDraft \/ CheckTemplate \/ Record \/ Stop

Spec == Init /\ [][Next]_vars

-----------------------------------------------------------------------------
(* What may be done to a normalized DLD, and what may not.                  *)

WithSections(d, change) ==
  [d EXCEPT !.sections = [i \in DOMAIN d.sections |-> change[d.sections[i]]]]

\* What the gate looks for in the author's document, what is said in the body of
\* the normalized one, and the headings that are none of the author's words alone.
Heeded(a) == Measurements(a) \cup Identifiers(a) \cup UNION ContentBlocks(a)
Body(d) == RowWords(d) \cup UNION { BodyWords(s) : s \in Sections(d) }
FreeHeadings(a, d) ==
  { s \in Sections(d) :
      /\ s.heading = "plain" /\ s.title \cap DOMAIN Parts = {}
      /\ s.title \cap Heeded(a) \subseteq Body(d)
      /\ \A b \in ContentBlocks(a) : 10 * Cardinality(b \cap s.title) < 6 * Cardinality(b) }

\* Other order, no code marks, other headings for what is neither FSM nor
\* interface.
Backwards(d) == [d EXCEPT !.sections = Reverse(d.sections)]
Unmarked(d) == WithSections(d, [s \in Sections(d) |-> [s EXCEPT !.marked = {}]])
Retitled(d, headings) ==
  WithSections(d, [s \in Sections(d) |-> IF s \in headings THEN [s EXCEPT !.title = {"Unplaced"}] ELSE s])
Reshapings(a, d) == { d, Backwards(d), Unmarked(d), Retitled(d, FreeHeadings(a, d)) }

\* The document without a word, wherever it stands.
Cleared(name, word) == IF name = word THEN None ELSE name
Without(d, word) ==
  [WithSections(d, [s \in Sections(d) |->
     [s EXCEPT !.title = s.title \ {word}, !.text = s.text \ {word}, !.marked = s.marked \ {word},
               !.states = s.states \ {word},
               !.wait = [block |-> s.wait.block, mode |-> Cleared(s.wait.mode, word),
                         points |-> s.wait.points \ {word}]]])
     EXCEPT !.rows = [i \in DOMAIN d.rows |->
                        [fsm |-> Cleared(d.rows[i].fsm, word), ops |-> d.rows[i].ops \ {word}]]]

\* One of its mentions, in a section or in a row, retyped.
Retyped(words, word, by) == (words \ {word}) \cup {by}
Retypings(d, word, by) ==
  { WithSections(d, [s \in Sections(d) |->
      IF s = t THEN [s EXCEPT !.text = Retyped(s.text, word, by)] ELSE s])
      : t \in { s \in Sections(d) : word \in s.text } }
  \cup { [d EXCEPT !.rows = [d.rows EXCEPT ![i] = [fsm |-> d.rows[i].fsm, ops |-> Retyped(d.rows[i].ops, word, by)]]]
           : i \in { j \in DOMAIN d.rows : word \in d.rows[j].ops } }

\* The document with a listed state of FSM f gone, or come.
WithoutState(d, f, state) ==
  WithSections(d, [s \in Sections(d) |->
    IF s.heading = "fsm" /\ s.name = f THEN [s EXCEPT !.states = s.states \ {state}] ELSE s])
WithState(d, f, state) ==
  WithSections(d, [s \in Sections(d) |->
    IF s.heading = "fsm" /\ s.name = f THEN [s EXCEPT !.states = s.states \cup {state}] ELSE s])

\* An author's measurement or name gone,
LostWords(a, d) ==
  { Without(d, w) : w \in (Measurements(a) \cup (Identifiers(a) \ DOMAIN Parts)) \ {"wait", "model"} }

\* one of its mentions retyped as a measurement nobody stated,
RetypedMeasures(a, d) ==
  UNION { Retypings(d, p[1], p[2]) : p \in Measurements(d) \X (Measure \ Measurements(a)) }

\* a state nobody wrote down,
InventedStates(a, d) ==
  { WithState(d, f, "GHOST") :
      f \in IF "GHOST" \in BareTokens(a) \cup DOMAIN Parts \cup Mode THEN {} ELSE Names(d, "fsm") }

\* a state in the wrong one of two FSMs whose states the author listed,
MovedStates(a, d) ==
  LET listed == { f \in Names(a, "fsm") \cap Names(d, "fsm") :
                    ExtractFsms(a)[f] # {} /\ ExtractFsms(d)[f] # {} }
  IN { WithState(WithoutState(d, m[1], m[3]), m[2], m[3])
         : m \in { n \in listed \X listed \X UNION { ExtractFsms(d)[h] : h \in listed } :
                     n[3] \in ExtractFsms(d)[n[1]] \ ExtractFsms(d)[n[2]] } }

\* an FSM turned into prose - the only one if that changes the count,
AsProse(d, f) ==
  WithSections(d, [s \in Sections(d) |->
    IF s.heading = "fsm" /\ s.name = f
    THEN [s EXCEPT !.heading = "plain", !.states = {}, !.text = s.text \cup s.states] ELSE s])
LostFsms(a, d) ==
  { AsProse(d, f) : f \in { g \in Names(a, "fsm") \cap Names(d, "fsm") :
                              d.count = None \/ Names(d, "fsm") # {g} } }

\* a wait model where the author's section it was made of, told by its words and
\* its heading, states no waiting,
IsMadeOf(s, t, a) ==
  /\ SectionTokens(t) # {} /\ SectionTokens(t) \subseteq SectionTokens(s)
  /\ \A u \in Sections(a) : BodyWords(u) \cap Blocking # {} =>
       Cardinality(s.title \cap u.title) < Cardinality(s.title \cap t.title)
WithWait(d, t, mode) ==
  WithSections(d, [s \in Sections(d) |->
    IF s = t THEN [s EXCEPT !.wait = [block |-> TRUE, mode |-> mode, points |-> {}]] ELSE s])
InventedWaits(a, d) ==
  { WithWait(d, p[1], p[2]) :
      p \in { s \in Sections(d) : /\ s.heading = "interface" /\ ~s.wait.block
                                  /\ \E t \in Sections(a) : IsMadeOf(s, t, a) } \X Mode }

\* a paragraph gone of which a third of the words are nowhere else and no other
\* block has half.
WithoutText(d, t) ==
  WithSections(d, [s \in Sections(d) |-> IF s = t THEN [s EXCEPT !.text = {}] ELSE s])
IsApart(words, blocks) ==
  /\ 3 * Cardinality(words \ UNION blocks) >= Cardinality(words)
  /\ \A b \in blocks : 2 * Cardinality(words \cap b) < Cardinality(words)
LostParagraphs(a, d) ==
  { WithoutText(d, t) :
      t \in { s \in Sections(d) :
                /\ \E u \in Sections(a) : u.text = s.text
                /\ IsApart(ContentTokens(s.text), ContentBlocks(WithoutText(d, s)) \cup HeadingBlocks(d)) } }

Damages(a, d) ==
  LostWords(a, d) \cup RetypedMeasures(a, d) \cup InventedStates(a, d) \cup MovedStates(a, d)
    \cup LostFsms(a, d) \cup InventedWaits(a, d) \cup LostParagraphs(a, d)

\* The passing pairs of which the gate is not exact.
Inexact ==
  { p \in Faithful :
      /\ p[1] \in Written
      /\ LET a == Text[p[1]]
             d == Text[p[2]]
         IN \/ \E e \in Reshapings(a, d) : ~Passes(a, e)
            \/ \E e \in Damages(a, d) : Passes(a, e) }

-----------------------------------------------------------------------------
(* What the stages before the model promise.                                *)

TypeOK ==
  /\ docx \in WordDoc \cup {None} /\ src \in Doc \cup {None} /\ md \in Doc \cup {None}
  /\ baseline \in {None} \cup reviewed /\ reviewed \subseteq Doc \X Doc
  /\ template \in Doc \cup {None}
  /\ report \in {None} \cup SUBSET (1 .. notes) /\ kept \subseteq 1 .. notes
  /\ notes \in 0 .. MaxWritings /\ edits \in 0 .. MaxEdits
  /\ \A f \in Source : Range(file[f]) \subseteq Doc \cup WordDoc
  /\ pc \in {"IDLE", "CONVERT", "NORMALIZE", "STAMP", "PARSE", "TEMPLATE", "PROMOTED", "REST"}
  /\ source \in Source \cup {None} /\ (source = None <=> Idle) /\ dry \in BOOLEAN

\* The fidelity gate passes a DLD whose shape alone was changed, and refuses one
\* in which a measurement, a name, a state, an FSM, a wait model or a paragraph
\* was lost, altered, moved or made up - as far as words can tell.
GateIsExact == src # None /\ NormalizationPasses => <<src, md>> \notin Inexact

\* A run that finds an IP unchanged leaves alone contents that were completed
\* as they are: the author's markdown is what the Word document says, and the
\* normalized DLD is faithful to it.
UnchangedIsFaithful ==
  ~IsChanged(DiscoverDldSource) =>
    /\ Contents \in done
    /\ docx # None => src = Conversion[docx]
    /\ src # None => NormalizationPasses

\* Whatever was edited, stamped and started in which order: a pair recorded as
\* complete was reviewed as that pair.
RecordedWasReviewed == \A c \in done : c[2] # None => <<c[2], c[3]>> \in reviewed

\* Past the template's gates, and if the DLD was normalized, the template has
\* the FSMs of the DLD and no other, whichever contents it was promoted from:
\* the two gates and the normalization gate's count say so together only.
PromotedFsmsAreTheDlds ==
  pc = "REST" /\ src # None => DOMAIN Template[template].fsms = Names(Text[md], "fsm")

\* The last note written into the gaps report is in it or in its kept copy, and
\* the variables keep their types.
LastNoteIsKept == TypeOK /\ (notes > 0 => notes \in report \cup kept)

================================================================================
