---------------------------- MODULE Authoring_proofs ----------------------------
(***************************************************************************)
(* What is proved of Authoring, for any documents, texts, Word documents,  *)
(* edits and notes.  The stages before the model are reasoned about with   *)
(* the gates left closed (Faithful, Promotable); then what the gates say   *)
(* of FSMs is opened, and at last all the fidelity gate says of a          *)
(* normalized DLD that was reshaped or damaged.                            *)
(***************************************************************************)
EXTENDS Authoring, FiniteSetTheorems, SequenceTheorems, WellFoundedInduction, TLAPS

-----------------------------------------------------------------------------
(* Fingerprints.                                                            *)

LEMMA SmallConcats ==
  ASSUME NEW x, NEW y, NEW z
  PROVE  /\ <<>> \o <<>> = <<>> /\ <<x>> \o <<>> = <<x>> /\ <<>> \o <<x>> = <<x>>
         /\ <<x>> \o <<y>> = <<x, y>> /\ <<x, y>> \o <<>> = <<x, y>>
         /\ <<x, y>> \o <<z>> = <<x, y, z>>
<1> DEFINE S == {x, y, z}
<1>1. <<>> \in Seq(S) /\ <<x>> \in Seq(S) /\ <<y>> \in Seq(S) /\ <<z>> \in Seq(S)
      /\ <<x, y>> \in Seq(S) /\ <<x, y, z>> \in Seq(S)
  OBVIOUS
<1>2. <<>> \o <<>> = <<>> /\ <<x>> \o <<>> = <<x>> /\ <<>> \o <<x>> = <<x>> /\ <<x, y>> \o <<>> = <<x, y>>
  BY <1>1, ConcatEmptySeq
<1>3. <<x>> \o <<y>> = <<x, y>>
  <2>1. <<x>> \o <<y>> \in Seq(S) /\ Len(<<x>> \o <<y>>) = 2
    BY <1>1, ConcatProperties
  <2>2. (<<x>> \o <<y>>)[1] = x /\ (<<x>> \o <<y>>)[2] = y
    BY <1>1, ConcatProperties
  <2> DEFINE both == <<x>> \o <<y>>
  <2>3. \A i \in 1 .. 2 : both[i] = <<x, y>>[i]
    BY <2>2
  <2> HIDE DEF S, both
  <2>4. both = <<x, y>>
    BY <1>1, <2>1, <2>3, SeqEqual DEF both
  <2>5. QED
    BY <2>4 DEF both
<1>4. <<x, y>> \o <<z>> = <<x, y, z>>
  <2>1. <<x, y>> \o <<z>> \in Seq(S) /\ Len(<<x, y>> \o <<z>>) = 3
    BY <1>1, ConcatProperties
  <2>2. (<<x, y>> \o <<z>>)[1] = x /\ (<<x, y>> \o <<z>>)[2] = y /\ (<<x, y>> \o <<z>>)[3] = z
    BY <1>1, ConcatProperties
  <2> DEFINE all == <<x, y>> \o <<z>>
  <2>3. \A i \in 1 .. 3 : all[i] = <<x, y, z>>[i]
    BY <2>2
  <2> HIDE DEF S, all
  <2>4. all = <<x, y, z>>
    BY <1>1, <2>1, <2>3, SeqEqual DEF all
  <2>5. QED
    BY <2>4 DEF all
<1>5. QED
  BY <1>2, <1>3, <1>4

\* Contents all of which exist are hashed in the order of their source.
LEMMA FingerprintOfAll ==
  /\ docx # None /\ src # None /\ md # None => SourceFingerprint("docx") = <<docx, src, md>>
  /\ src # None /\ md # None => SourceFingerprint("src") = <<src, md>>
  /\ md # None /\ src # None => SourceFingerprint("md") = <<md, src>>
  /\ md # None /\ src = None => SourceFingerprint("md") = <<md>>
<1>1. Hashed(None) = <<>> /\ \A x : x # None => Hashed(x) = <<x>>
  BY DEF Hashed
<1>2. /\ SourceFingerprint("docx") = Hashed(docx) \o Hashed(src) \o Hashed(md)
      /\ SourceFingerprint("src") = Hashed(src) \o Hashed(md)
      /\ SourceFingerprint("md") = Hashed(md) \o Hashed(src)
  BY DEF SourceFingerprint
<1>3. ASSUME docx # None, src # None, md # None
      PROVE  SourceFingerprint("docx") = <<docx, src, md>>
  <2>1. Hashed(docx) = <<docx>> /\ Hashed(src) = <<src>> /\ Hashed(md) = <<md>>
    BY <1>1, <1>3
  <2>2. SourceFingerprint("docx") = (<<docx>> \o <<src>>) \o <<md>>
    BY <1>2, <2>1
  <2>3. <<docx>> \o <<src>> = <<docx, src>> /\ <<docx, src>> \o <<md>> = <<docx, src, md>>
    BY SmallConcats
  <2>4. QED
    BY <2>2, <2>3
<1>4. ASSUME src # None, md # None
      PROVE  SourceFingerprint("src") = <<src, md>> /\ SourceFingerprint("md") = <<md, src>>
  BY <1>1, <1>2, <1>4, SmallConcats
<1>5. ASSUME src = None, md # None
      PROVE  SourceFingerprint("md") = <<md>>
  BY <1>1, <1>2, <1>5, SmallConcats
<1>6. QED
  BY <1>3, <1>4, <1>5

\* A fingerprint tells contents apart: how many exist, and which they are.

LEMMA Lengths ==
  ASSUME NEW a, NEW b, NEW c, NEW x, NEW y
  PROVE  <<a, b, c>> # <<x, y>> /\ <<a, b, c>> # <<x>> /\ <<a, b, c>> # <<>> /\ <<x, y>> # <<a>>
         /\ <<x, y>> # <<>> /\ <<x>> # <<>>
OBVIOUS

\* Of the file it is asked for, a fingerprint tells whether it exists.
LEMMA NotEmpty ==
  ASSUME NEW f \in Source, Content(f) # None
  PROVE  SourceFingerprint(f) # <<>>
<1> DEFINE D == {docx, src, md}
<1>1. \A x \in D : Hashed(x) \in Seq(D) /\ (x # None => Hashed(x) # <<>>)
  <2>1. ASSUME NEW x \in D
        PROVE  Hashed(x) \in Seq(D) /\ (x # None => Hashed(x) # <<>>)
    <3>1. <<>> \in Seq(D) /\ <<x>> \in Seq(D) /\ <<x>> # <<>>
      OBVIOUS
    <3>2. QED
      BY <3>1 DEF Hashed
  <2>2. QED
    BY <2>1
<1>2. \A s, t \in Seq(D) : s \o t \in Seq(D) /\ (s # <<>> => s \o t # <<>>)
  BY ConcatProperties, ConcatEqualIffEmpty
<1> HIDE DEF D
<1>3. docx \in D /\ src \in D /\ md \in D
  BY DEF D
<1>4. CASE f = "docx"
  BY <1>1, <1>2, <1>3, <1>4 DEF Content, SourceFingerprint
<1>5. CASE f = "src"
  BY <1>1, <1>2, <1>3, <1>5 DEF Content, SourceFingerprint
<1>6. CASE f = "md"
  BY <1>1, <1>2, <1>3, <1>6 DEF Content, SourceFingerprint
<1>7. QED
  BY <1>4, <1>5, <1>6 DEF Source

\* Contents that have a fingerprint of three, or of two from the author's
\* markdown on, are those it was made of.
LEMMA PrintTells ==
  ASSUME NEW a, NEW b, NEW c
  PROVE  /\ SourceFingerprint("docx") = <<a, b, c>> => docx = a /\ src = b /\ md = c
         /\ SourceFingerprint("src") = <<b, c>> => src = b /\ md = c
<1>1. Hashed(None) = <<>> /\ \A x : x # None => Hashed(x) = <<x>>
  BY DEF Hashed
<1>2. ASSUME NEW x, NEW y
      PROVE  \/ x = None /\ y = None /\ Hashed(x) \o Hashed(y) = <<>>
             \/ x = None /\ Hashed(x) \o Hashed(y) = <<y>>
             \/ y = None /\ Hashed(x) \o Hashed(y) = <<x>>
             \/ Hashed(x) \o Hashed(y) = <<x, y>>
  BY <1>1, SmallConcats
<1>3. ASSUME SourceFingerprint("src") = <<b, c>>
      PROVE  src = b /\ md = c
  <2>1. Hashed(src) \o Hashed(md) = <<b, c>>
    BY <1>3 DEF SourceFingerprint
  <2>2. Hashed(src) \o Hashed(md) = <<src, md>>
    BY <1>2, <2>1, Lengths
  <2>3. QED
    BY <2>1, <2>2
<1>4. ASSUME SourceFingerprint("docx") = <<a, b, c>>
      PROVE  docx = a /\ src = b /\ md = c
  <2> DEFINE first == Hashed(docx) \o Hashed(src)
  <2>1. first \o Hashed(md) = <<a, b, c>>
    BY <1>4 DEF SourceFingerprint
  <2>2. CASE md = None
    <3>1. first \o <<>> = first
      BY <1>2, SmallConcats
    <3>2. QED
      BY <1>1, <1>2, <2>1, <2>2, <3>1, Lengths
  <2>3. CASE md # None
    <3>1. first \o <<md>> = <<a, b, c>>
      BY <1>1, <2>1, <2>3
    <3>2. first = <<>> \/ first = <<src>> \/ first = <<docx>> \/ first = <<docx, src>>
      BY <1>2
    <3>3. first = <<docx, src>>
      <4>1. <<>> \o <<md>> = <<md>> /\ <<src>> \o <<md>> = <<src, md>> /\ <<docx>> \o <<md>> = <<docx, md>>
        BY SmallConcats
      <4>2. <<md>> # <<a, b, c>> /\ <<src, md>> # <<a, b, c>> /\ <<docx, md>> # <<a, b, c>>
        OBVIOUS
      <4> HIDE DEF first
      <4>3. QED
        BY <3>1, <3>2, <4>1, <4>2
    <3>4. <<docx, src, md>> = <<a, b, c>>
      BY <3>1, <3>3, SmallConcats
    <3>5. QED
      BY <3>4
  <2>4. QED
    BY <2>2, <2>3
<1>5. QED
  BY <1>3, <1>4

-----------------------------------------------------------------------------
(* The inductive invariant.                                                 *)

\* What TypeOK leaves out.  Some document is always there, and the normalized
\* DLD is its author's or the normalizer's.
Values ==
  /\ file \in [Source -> Seq(Doc \cup WordDoc)]
  /\ done \subseteq (WordDoc \cup {None}) \X (Doc \cup {None}) \X (Doc \cup {None})
  /\ md \in InShape \cup Rewriting \cup {None}
  /\ docx # None \/ src # None \/ md # None

\* What a run has established so far, of the contents as they are: nobody edits
\* or stamps while it runs, and it does not undo itself.
RunFits ==
  /\ source = "docx" => docx # None /\ (pc # "CONVERT" => src = Conversion[docx])
  /\ source = "src" => src # None
  /\ source = "md" => md # None
  /\ pc \in {"STAMP", "PARSE", "TEMPLATE", "PROMOTED", "REST"} /\ src # None => NormalizationPasses
  /\ pc \in {"PARSE", "TEMPLATE", "PROMOTED", "REST"} /\ src # None => Stamped
  /\ pc \in {"TEMPLATE", "PROMOTED", "REST"} => md # None
  /\ pc = "REST" => TemplatePasses

\* The last note is in the report, or the report was overwritten and not
\* written into since.
NotesFit ==
  notes > 0 =>
    /\ report # None
    /\ report # {} => notes \in report
    /\ report = {} => notes \in kept

\* A file that was there once is there still, and what was completed had been
\* stamped.
DoneFits ==
  \A c \in done :
    /\ docx = None => c[1] = None
    /\ src = None => c[2] = None
    /\ c[2] # None => <<c[2], c[3]>> \in reviewed

\* The fingerprint recorded for file f is that of contents c.
Recorded(f, print, c) ==
  /\ c[3] # None /\ (c[2] # None => <<c[2], c[3]>> \in Faithful)
  /\ f = "docx" => c[1] # None /\ c[2] # None /\ c[2] = Conversion[c[1]] /\ print = <<c[1], c[2], c[3]>>
  /\ f = "src" => c[2] # None /\ print = <<c[2], c[3]>>
  /\ f = "md" => print = IF c[2] = None THEN <<c[3]>> ELSE <<c[3], c[2]>>

FileFits == \A f \in Source : file[f] = <<>> \/ \E c \in done : Recorded(f, file[f], c)

Inv == TypeOK /\ Values /\ RunFits /\ NotesFit /\ DoneFits /\ FileFits

-----------------------------------------------------------------------------
(* What needs no history: types, and what a run has established.            *)

LEMMA Nothing ==
  /\ None \notin Doc /\ None \notin WordDoc /\ None \notin {"docx", "src", "md"}
  /\ \A p \in Doc \X Doc : p # None
  /\ \A s \in SUBSET (1 .. MaxWritings) : s # None
  /\ Written \subseteq Doc /\ InShape \subseteq Doc /\ Rewriting \subseteq Doc
  /\ \A w \in WordDoc : Conversion[w] \in Written
BY AuthoringAssumption

LEMMA FaithfulPairs == Faithful \subseteq Doc \X Doc
BY DEF Faithful, Pairs

\* The file closest to the author's hand.
LEMMA SourceIsThere ==
  ASSUME Values
  PROVE  /\ docx # None => DiscoverDldSource = "docx"
         /\ docx = None /\ src # None => DiscoverDldSource = "src"
         /\ docx = None /\ src = None => DiscoverDldSource = "md" /\ md # None
         /\ DiscoverDldSource \in Source
<1> DEFINE P(f) == /\ Content(f) # None
                   /\ f = "src" => docx = None
                   /\ f = "md" => docx = None /\ src = None
<1>1. Content("docx") = docx /\ Content("src") = src /\ Content("md") = md
  BY DEF Content
<1>2. CASE docx # None
  <2>1. P("docx") /\ \A f \in Source : P(f) => f = "docx"
    BY <1>1, <1>2 DEF Source
  <2>2. DiscoverDldSource = "docx"
    BY <2>1 DEF DiscoverDldSource, Source
  <2>3. QED
    BY <1>2, <2>2 DEF Source
<1>3. CASE docx = None /\ src # None
  <2>1. P("src") /\ \A f \in Source : P(f) => f = "src"
    BY <1>1, <1>3 DEF Source
  <2>2. DiscoverDldSource = "src"
    BY <2>1 DEF DiscoverDldSource, Source
  <2>3. QED
    BY <1>3, <2>2 DEF Source
<1>4. CASE docx = None /\ src = None
  <2>1. md # None
    BY <1>4 DEF Values
  <2>2. P("md") /\ \A f \in Source : P(f) => f = "md"
    BY <1>1, <1>4, <2>1 DEF Source
  <2>3. DiscoverDldSource = "md"
    BY <2>2 DEF DiscoverDldSource, Source
  <2>4. QED
    BY <1>4, <2>1, <2>3 DEF Source
<1>5. QED
  BY <1>2, <1>3, <1>4

\* A run begins with one of the three files.
LEMMA BeginsAtASource ==
  ASSUME TypeOK, Values, BeginNamed \/ BeginDiscovered
  PROVE  \E f \in Source : Begin(f)
<1>1. ASSUME NEW f \in Source, Begin(ResolveRequestedDld(f))
      PROVE  \E g \in Source : Begin(g)
  BY <1>1 DEF ResolveRequestedDld, Source
<1>2. DiscoverDldSource \in Source
  BY SourceIsThere
<1>3. QED
  BY <1>1, <1>2 DEF BeginNamed, BeginDiscovered

LEMMA InitInv == Init => Inv
<1> SUFFICES ASSUME Init
             PROVE  Inv
  OBVIOUS
<1> USE Nothing
<1>1. TypeOK
  <2>1. docx \in WordDoc \cup {None} /\ src \in Doc \cup {None} /\ md \in Doc \cup {None}
    BY DEF Init
  <2>2. \A f \in Source : Range(file[f]) \subseteq Doc \cup WordDoc
    BY DEF Init, Range, Source
  <2>3. report \in {None} \cup SUBSET (1 .. notes) /\ kept \subseteq 1 .. notes
        /\ notes \in 0 .. MaxWritings /\ edits \in 0 .. MaxEdits
    BY AuthoringAssumption DEF Init
  <2>4. baseline \in {None} \cup reviewed /\ reviewed \subseteq Doc \X Doc /\ template \in Doc \cup {None}
    BY DEF Init
  <2>5. QED
    BY <2>1, <2>2, <2>3, <2>4 DEF Init, TypeOK, Source, Idle
<1>2. Values
  <2>1. file \in [Source -> Seq(Doc \cup WordDoc)]
    BY DEF Init
  <2>2. QED
    BY <2>1 DEF Init, Values
<1>3. RunFits
  BY DEF Init, RunFits
<1>4. NotesFit
  BY DEF Init, NotesFit
<1>5. DoneFits
  BY DEF Init, DoneFits
<1>6. FileFits
  BY DEF Init, FileFits
<1>7. QED
  BY <1>1, <1>2, <1>3, <1>4, <1>5, <1>6 DEF Inv

LEMMA HashedSeq ==
  ASSUME TypeOK
  PROVE  \A f \in Source : SourceFingerprint(f) \in Seq(Doc \cup WordDoc)
<1> DEFINE D == Doc \cup WordDoc
<1>1. Hashed(docx) \in Seq(D) /\ Hashed(src) \in Seq(D) /\ Hashed(md) \in Seq(D)
  <2>1. ASSUME NEW x \in D \cup {None}
        PROVE  Hashed(x) \in Seq(D)
    <3>1. <<>> \in Seq(D) /\ (x # None => <<x>> \in Seq(D))
      OBVIOUS
    <3>2. Hashed(x) = <<>> \/ (x # None /\ Hashed(x) = <<x>>)
      BY DEF Hashed
    <3>3. QED
      BY <3>1, <3>2
  <2>2. QED
    BY <2>1 DEF TypeOK
<1>2. Hashed(docx) \o Hashed(src) \in Seq(D) /\ Hashed(src) \o Hashed(md) \in Seq(D)
      /\ Hashed(md) \o Hashed(src) \in Seq(D)
  BY <1>1, ConcatProperties
<1>3. Hashed(docx) \o Hashed(src) \o Hashed(md) \in Seq(D)
  BY <1>1, <1>2, ConcatProperties
<1>4. QED
  BY <1>2, <1>3 DEF SourceFingerprint, Source

LEMMA SeqRange ==
  ASSUME NEW S, NEW s \in Seq(S)
  PROVE  Range(s) \subseteq S
BY DEF Range

LEMMA StepTypes ==
  ASSUME Inv, [Next]_vars
  PROVE  TypeOK' /\ Values'
<1> USE Nothing DEF Idle
<1>0. TypeOK /\ Values /\ RunFits
  BY DEF Inv
<1>1. CASE Edit
  <2>1. /\ docx' \in WordDoc \cup {None} /\ src' \in Doc \cup {None} /\ md' \in Doc \cup {None}
        /\ md' \in InShape \cup Rewriting \cup {None} /\ (docx' # None \/ src' # None \/ md' # None)
    BY <1>0, <1>1 DEF Edit, TypeOK, Values
  <2>2. edits' \in 0 .. MaxEdits
    BY <1>0, <1>1, AuthoringAssumption DEF Edit, TypeOK
  <2>3. QED
    BY <1>0, <1>1, <2>1, <2>2 DEF Edit, TypeOK, Values, outVars, runVars
<1>2. CASE Stamp
  <2>1. <<src, md>> \in Doc \X Doc
    BY <1>2, FaithfulPairs DEF Stamp, NormalizationPasses
  <2>2. baseline' \in {None} \cup reviewed' /\ reviewed' \subseteq Doc \X Doc
    BY <1>0, <1>2, <2>1 DEF Stamp, TypeOK
  <2>3. QED
    BY <1>0, <1>2, <2>2 DEF Stamp, TypeOK, Values, docVars, outVars, runVars
<1>3. CASE WriteNote
  <2>1. /\ report' \in {None} \cup SUBSET (1 .. notes') /\ kept' \subseteq 1 .. notes'
        /\ notes' \in 0 .. MaxWritings
    <3>1. notes \in Nat /\ notes' = notes + 1 /\ notes < MaxWritings /\ MaxWritings \in Nat
      BY <1>0, <1>3, AuthoringAssumption DEF WriteNote, TypeOK
    <3>2. 1 .. notes \subseteq 1 .. notes' /\ notes + 1 \in 1 .. notes' /\ notes' \in 0 .. MaxWritings
      BY <3>1
    <3>3. report \in SUBSET (1 .. notes) /\ report' = report \cup {notes + 1} /\ kept' = kept
      BY <1>0, <1>3 DEF WriteNote, TypeOK
    <3>4. QED
      BY <1>0, <3>2, <3>3 DEF TypeOK
  <2>2. QED
    BY <1>0, <1>3, <2>1 DEF WriteNote, TypeOK, Values, docVars, runVars
<1>4. ASSUME NEW f \in Source, Begin(f)
      PROVE  TypeOK' /\ Values'
  <2>1. source' \in Source \cup {None} /\ (source' = None <=> pc' = "IDLE") /\ dry' \in BOOLEAN
        /\ pc' \in {"IDLE", "CONVERT", "NORMALIZE", "STAMP", "PARSE", "TEMPLATE", "PROMOTED", "REST"}
    <3>1. f # None
      BY DEF Source
    <3>2. QED
      BY <1>4, <3>1 DEF Begin
  <2>2. QED
    BY <1>0, <1>4, <2>1 DEF Begin, TypeOK, Values, docVars, outVars
<1>5. CASE EnsureMarkdownDld
  <2>1. src' \in Doc \cup {None} /\ (source = "docx" => docx # None) /\ (src' # src => source = "docx")
    BY <1>0, <1>5 DEF EnsureMarkdownDld, TypeOK, RunFits
  <2>2. docx' # None \/ src' # None \/ md' # None
    BY <1>0, <1>5, <2>1 DEF EnsureMarkdownDld, Values
  <2>3. QED
    BY <1>0, <1>5, <2>1, <2>2 DEF EnsureMarkdownDld, Goto, TypeOK, Values, outVars
<1>6. CASE NormalizeDld
  BY <1>0, <1>6 DEF NormalizeDld, TypeOK, Values, outVars, runVars
<1>7. CASE CheckNormalization
  BY <1>0, <1>7 DEF CheckNormalization, Goto, TypeOK, Values, docVars, outVars
<1>8. CASE CheckNormalizationStamp
  BY <1>0, <1>8 DEF CheckNormalizationStamp, Goto, TypeOK, Values, docVars, outVars
<1>9. CASE ParseDld
  <2>1. report' \in {None} \cup SUBSET (1 .. notes') /\ kept' \subseteq 1 .. notes'
    BY <1>0, <1>9 DEF ParseDld, PreserveHandEdits, TypeOK
  <2>2. QED
    BY <1>0, <1>9, <2>1 DEF ParseDld, Goto, TypeOK, Values, docVars
<1>10. CASE PromoteDraft
  BY <1>0, <1>10 DEF PromoteDraft, Goto, TypeOK, Values, docVars
<1>11. CASE CheckTemplate
  BY <1>0, <1>11 DEF CheckTemplate, Goto, TypeOK, Values, docVars, outVars
<1>12. CASE Record
  <2>1. source \in Source
    BY <1>0, <1>12 DEF Record, TypeOK
  <2>2. SourceFingerprint(source) \in Seq(Doc \cup WordDoc)
    BY <1>0, <2>1, HashedSeq
  <2>3. file' = [file EXCEPT ![source] = SourceFingerprint(source)]
    BY <1>12 DEF Record
  <2>4. file' \in [Source -> Seq(Doc \cup WordDoc)]
    BY <1>0, <2>1, <2>2, <2>3 DEF Values
  <2>5. \A f \in Source : Range(file'[f]) \subseteq Doc \cup WordDoc
    BY <2>4, SeqRange
  <2>6. done' \subseteq (WordDoc \cup {None}) \X (Doc \cup {None}) \X (Doc \cup {None})
    BY <1>0, <1>12 DEF Record, TypeOK, Values, Contents
  <2>7. QED
    <3>1. Values'
      BY <1>0, <1>12, <2>4, <2>6 DEF Record, Values, docVars
    <3>2. \A f \in Source : Range(file[f])' \subseteq Doc \cup WordDoc
      BY <2>5
    <3>3. QED
      BY <1>0, <1>12, <3>1, <3>2 DEF Record, TypeOK, docVars, outVars
<1>13. CASE Stop
  BY <1>0, <1>13 DEF Stop, TypeOK, Values, docVars, outVars
<1>14. CASE UNCHANGED vars
  BY <1>0, <1>14 DEF TypeOK, Values, vars, docVars, outVars, runVars
<1>15. CASE BeginNamed \/ BeginDiscovered
  BY <1>0, <1>4, <1>15, BeginsAtASource
<1>16. QED
  BY <1>1, <1>2, <1>3, <1>5, <1>6, <1>7, <1>8, <1>9, <1>10, <1>11, <1>12, <1>13, <1>14, <1>15 DEF Next

\* While a run is on, only the run changes what it looked at.
LEMMA StepRunFits ==
  ASSUME Inv, [Next]_vars
  PROVE  RunFits'
<1> USE Nothing DEF Idle
<1>0. TypeOK /\ Values /\ RunFits /\ source' \in Source \cup {None} /\ (source' = None <=> pc' = "IDLE")
  BY StepTypes DEF Inv, TypeOK
<1>1. CASE Edit \/ Stamp \/ WriteNote \/ Record \/ Stop
  <2>1. pc' = "IDLE"
    BY <1>1 DEF Edit, Stamp, WriteNote, Record, Stop, runVars
  <2>2. source' = None
    BY <1>0, <2>1
  <2>3. QED
    BY <2>1, <2>2 DEF RunFits
<1>2. ASSUME NEW f \in Source, Begin(f)
      PROVE  RunFits'
  <2>1. pc' = "CONVERT" /\ source' = f /\ docx' = docx /\ src' = src /\ md' = md
    BY <1>2 DEF Begin, docVars
  <2>2. /\ f = "docx" => docx # None
        /\ f = "src" => src # None
        /\ f = "md" => md # None
    BY <1>2 DEF Begin, Content
  <2>3. QED
    BY <2>1, <2>2 DEF RunFits
<1>3. CASE EnsureMarkdownDld
  BY <1>0, <1>3 DEF EnsureMarkdownDld, Goto, RunFits, TypeOK, Source
<1>4. CASE NormalizeDld
  <2>1. pc' = "NORMALIZE" /\ source' = source /\ docx' = docx /\ src' = src /\ md' # None /\ pc = "NORMALIZE"
    BY <1>4 DEF NormalizeDld, runVars
  <2>2. QED
    BY <1>0, <2>1 DEF RunFits
<1>5. CASE CheckNormalization
  <2>1. /\ pc = "NORMALIZE" /\ pc' = "STAMP" /\ source' = source /\ docx' = docx /\ src' = src /\ md' = md
        /\ src # None => NormalizationPasses
    BY <1>5 DEF CheckNormalization, Goto, docVars
  <2>2. NormalizationPasses' = NormalizationPasses
    BY <2>1 DEF NormalizationPasses
  <2>3. QED
    BY <1>0, <2>1, <2>2 DEF RunFits
<1>6. CASE CheckNormalizationStamp
  <2>1. /\ pc = "STAMP" /\ pc' = "PARSE" /\ source' = source /\ docx' = docx /\ src' = src /\ md' = md
        /\ baseline' = baseline /\ (src # None => Stamped)
    BY <1>6 DEF CheckNormalizationStamp, Goto, docVars
  <2>2. NormalizationPasses' = NormalizationPasses /\ Stamped' = Stamped
    BY <2>1 DEF NormalizationPasses, Stamped
  <2>3. QED
    BY <1>0, <2>1, <2>2 DEF RunFits
<1>7. CASE ParseDld
  <2>1. /\ pc = "PARSE" /\ pc' = "TEMPLATE" /\ source' = source /\ docx' = docx /\ src' = src /\ md' = md
        /\ baseline' = baseline /\ md # None
    BY <1>7 DEF ParseDld, Goto, docVars
  <2>2. NormalizationPasses' = NormalizationPasses /\ Stamped' = Stamped
    BY <2>1 DEF NormalizationPasses, Stamped
  <2>3. QED
    BY <1>0, <2>1, <2>2 DEF RunFits
<1>8. CASE PromoteDraft
  <2>1. /\ pc = "TEMPLATE" /\ pc' = "PROMOTED" /\ source' = source /\ docx' = docx /\ src' = src /\ md' = md
        /\ baseline' = baseline
    BY <1>8 DEF PromoteDraft, Goto, docVars
  <2>2. NormalizationPasses' = NormalizationPasses /\ Stamped' = Stamped
    BY <2>1 DEF NormalizationPasses, Stamped
  <2>3. QED
    BY <1>0, <2>1, <2>2 DEF RunFits
<1>9. CASE CheckTemplate
  <2>1. /\ pc \in {"TEMPLATE", "PROMOTED"} /\ pc' = "REST" /\ source' = source /\ docx' = docx /\ src' = src
        /\ md' = md /\ baseline' = baseline /\ template' = template /\ TemplatePasses
    BY <1>9 DEF CheckTemplate, Goto, docVars, outVars
  <2>2. NormalizationPasses' = NormalizationPasses /\ Stamped' = Stamped
    BY <2>1 DEF NormalizationPasses, Stamped
  <2>3. TemplatePasses' = TemplatePasses
    BY <2>1, <2>2 DEF TemplatePasses
  <2>4. QED
    BY <1>0, <2>1, <2>2, <2>3 DEF RunFits
<1>10. CASE UNCHANGED vars
  <2>1. /\ docx' = docx /\ src' = src /\ md' = md /\ baseline' = baseline /\ template' = template
        /\ pc' = pc /\ source' = source
    BY <1>10 DEF vars, docVars, outVars, runVars
  <2>2. NormalizationPasses' = NormalizationPasses /\ Stamped' = Stamped
    BY <2>1 DEF NormalizationPasses, Stamped
  <2>3. TemplatePasses' = TemplatePasses
    BY <2>1, <2>2 DEF TemplatePasses
  <2>4. QED
    BY <1>0, <2>1, <2>2, <2>3 DEF RunFits
<1>11. CASE BeginNamed \/ BeginDiscovered
  BY <1>0, <1>2, <1>11, BeginsAtASource
<1>12. QED
  BY <1>1, <1>3, <1>4, <1>5, <1>6, <1>7, <1>8, <1>9, <1>10, <1>11 DEF Next

\* Only writing a note and parsing the DLD touch the report.
LEMMA StepNotesFit ==
  ASSUME Inv, [Next]_vars
  PROVE  NotesFit'
<1>0. TypeOK /\ NotesFit
  BY DEF Inv
<1>1. \A s \in SUBSET (1 .. notes) : s # None
  <2>1. notes \in 0 .. MaxWritings
    BY <1>0 DEF TypeOK
  <2>2. 1 .. notes \subseteq 1 .. MaxWritings
    BY <2>1, AuthoringAssumption
  <2>3. QED
    BY <2>2, Nothing
<1>2. CASE WriteNote
  <2>1. report' = report \cup {notes + 1} /\ notes' = notes + 1 /\ notes \in Nat
    BY <1>0, <1>2 DEF WriteNote, TypeOK
  <2>2. report' \in {None} \cup SUBSET (1 .. notes') /\ notes' \in 0 .. MaxWritings
    BY StepTypes DEF TypeOK
  <2>3. report \in SUBSET (1 .. notes)
    BY <1>0, <1>2 DEF WriteNote, TypeOK
  <2>4. report' \in SUBSET (1 .. notes')
    BY <2>1, <2>3
  <2>5. 1 .. notes' \subseteq 1 .. MaxWritings
    BY <2>2, AuthoringAssumption
  <2>6. report' # None
    BY <2>4, <2>5, Nothing
  <2>7. notes' \in report'
    BY <2>1
  <2>8. QED
    BY <2>6, <2>7 DEF NotesFit
<1>3. CASE ParseDld
  <2>1. report' = {} /\ notes' = notes /\ kept' = PreserveHandEdits
    BY <1>3 DEF ParseDld
  <2>2. report' # None
    BY <1>1, <2>1
  <2>3. ASSUME notes > 0
        PROVE  notes \in kept'
    <3>1. CASE report = {}
      BY <1>0, <2>1, <2>3, <3>1 DEF NotesFit, PreserveHandEdits
    <3>2. CASE report # {}
      BY <1>0, <2>1, <2>3, <3>2 DEF NotesFit, PreserveHandEdits
    <3>3. QED
      BY <3>1, <3>2
  <2>4. QED
    BY <2>1, <2>2, <2>3 DEF NotesFit
<1>4. CASE UNCHANGED <<report, kept, notes>>
  BY <1>0, <1>4 DEF NotesFit
<1>5. ASSUME NEW f \in Source, Begin(f)
      PROVE  UNCHANGED <<report, kept, notes>>
  BY <1>5 DEF Begin, outVars
<1>6. BeginNamed \/ BeginDiscovered => UNCHANGED <<report, kept, notes>>
  BY <1>5, BeginsAtASource DEF Inv
<1>7. /\ Edit \/ Stamp \/ EnsureMarkdownDld \/ NormalizeDld => UNCHANGED <<report, kept, notes>>
      /\ CheckNormalization \/ CheckNormalizationStamp => UNCHANGED <<report, kept, notes>>
      /\ PromoteDraft \/ CheckTemplate \/ Record \/ Stop => UNCHANGED <<report, kept, notes>>
      /\ UNCHANGED vars => UNCHANGED <<report, kept, notes>>
  BY DEF Edit, Stamp, EnsureMarkdownDld, NormalizeDld, CheckNormalization, CheckNormalizationStamp,
         PromoteDraft, CheckTemplate, Record, Stop, vars, outVars
<1>8. QED
  BY <1>2, <1>3, <1>4, <1>6, <1>7 DEF Next

\* No file goes away, no stamped pair is forgotten, and only Record records.
LEMMA Monotone ==
  ASSUME Inv, [Next]_vars
  PROVE  /\ docx' = None => docx = None
         /\ src' = None => src = None
         /\ reviewed \subseteq reviewed'
         /\ ~Record => UNCHANGED <<file, done>>
<1> USE Nothing
<1>0. TypeOK /\ Values /\ RunFits
  BY DEF Inv
<1>1. CASE Edit
  BY <1>1 DEF Edit
<1>2. CASE EnsureMarkdownDld
  BY <1>0, <1>2 DEF EnsureMarkdownDld, TypeOK, RunFits
<1>3. CASE NormalizeDld
  BY <1>3 DEF NormalizeDld
<1>4. ASSUME NEW f \in Source, Begin(f)
      PROVE  UNCHANGED <<docx, src, reviewed, file, done>>
  BY <1>4 DEF Begin, docVars
<1>5. CASE BeginNamed \/ BeginDiscovered
  BY <1>0, <1>4, <1>5, BeginsAtASource
<1>6. CASE Record
  BY <1>6 DEF Record, docVars
<1>7. CASE Stamp \/ WriteNote \/ CheckNormalization \/ CheckNormalizationStamp
  BY <1>7 DEF Stamp, WriteNote, CheckNormalization, CheckNormalizationStamp, docVars
<1>8. CASE ParseDld \/ PromoteDraft \/ CheckTemplate \/ Stop \/ UNCHANGED vars
  BY <1>8 DEF ParseDld, PromoteDraft, CheckTemplate, Stop, vars, docVars
<1>9. QED
  BY <1>1, <1>2, <1>3, <1>5, <1>6, <1>7, <1>8 DEF Next

\* What Record records: contents that passed every stage.
LEMMA RecordsWhatPassed ==
  ASSUME Inv, Record
  PROVE  /\ source \in Source /\ md \in Doc
         /\ source = "docx" => docx # None /\ src # None /\ src = Conversion[docx]
         /\ source = "src" => src # None
         /\ src # None => <<src, md>> \in Faithful /\ <<src, md>> \in reviewed
<1> USE Nothing DEF Idle
<1>1. TypeOK /\ RunFits /\ pc = "REST"
  BY DEF Inv, Record
<1>2. source \in Source /\ md \in Doc
  BY <1>1 DEF TypeOK, RunFits
<1>3. ASSUME source = "docx"
      PROVE  docx # None /\ src # None /\ src = Conversion[docx]
  BY <1>1, <1>3 DEF TypeOK, RunFits
<1>4. ASSUME src # None
      PROVE  <<src, md>> \in Faithful /\ <<src, md>> \in reviewed
  <2>1. <<src, md>> \in Faithful
    BY <1>1, <1>4 DEF RunFits, NormalizationPasses
  <2>2. baseline = <<src, md>> /\ baseline \in {None} \cup reviewed
    BY <1>1, <1>4 DEF RunFits, Stamped, TypeOK
  <2>3. <<src, md>> # None
    BY <2>1, FaithfulPairs
  <2>4. QED
    BY <2>1, <2>2, <2>3
<1>5. QED
  BY <1>1, <1>2, <1>3, <1>4 DEF RunFits

LEMMA StepDoneFits ==
  ASSUME Inv, [Next]_vars
  PROVE  DoneFits'
<1>0. DoneFits
  BY DEF Inv
<1>1. ASSUME NEW c \in done
      PROVE  /\ docx' = None => c[1] = None
             /\ src' = None => c[2] = None
             /\ c[2] # None => <<c[2], c[3]>> \in reviewed'
  BY <1>0, Monotone DEF DoneFits
<1>2. CASE Record
  <2>1. docx' = docx /\ src' = src /\ reviewed' = reviewed /\ done' = done \cup {<<docx, src, md>>}
    BY <1>2 DEF Record, docVars, Contents
  <2>2. src # None => <<src, md>> \in reviewed
    BY <1>2, RecordsWhatPassed
  <2>3. ASSUME NEW c \in done'
        PROVE  /\ docx' = None => c[1] = None
               /\ src' = None => c[2] = None
               /\ c[2] # None => <<c[2], c[3]>> \in reviewed'
    <3>1. CASE c \in done
      BY <1>1, <3>1
    <3>2. CASE c = <<docx, src, md>>
      <4>1. c[1] = docx /\ c[2] = src /\ c[3] = md
        BY <3>2
      <4>2. QED
        BY <2>1, <2>2, <4>1
    <3>3. QED
      BY <2>1, <3>1, <3>2
  <2>4. QED
    BY <2>3 DEF DoneFits
<1>3. CASE ~Record
  BY <1>1, <1>3, Monotone DEF DoneFits
<1>4. QED
  BY <1>2, <1>3

LEMMA StepFileFits ==
  ASSUME Inv, [Next]_vars
  PROVE  FileFits'
<1>0. TypeOK /\ Values /\ FileFits
  BY DEF Inv
<1>1. CASE ~Record
  <2>1. file' = file /\ done' = done
    BY <1>1, Monotone
  <2>2. QED
    BY <1>0, <2>1 DEF FileFits
<1>2. CASE Record
  <2>1. /\ source \in Source /\ md \in Doc /\ md # None
        /\ source = "docx" => docx # None /\ src # None /\ src = Conversion[docx]
        /\ source = "src" => src # None
        /\ src # None => <<src, md>> \in Faithful
    BY <1>2, RecordsWhatPassed, Nothing
  <2>2. PICK c \in done' : c = <<docx, src, md>>
    BY <1>2 DEF Record, Contents
  <2>3. done \subseteq done'
    BY <1>2 DEF Record
  <2>4. c[1] = docx /\ c[2] = src /\ c[3] = md
    BY <2>2
  <2>5. /\ file'[source] = SourceFingerprint(source)
        /\ \A f \in Source : f # source => file'[f] = file[f]
    BY <1>0, <1>2, <2>1 DEF Record, Values
  <2>6. Recorded(source, file'[source], c)
    <3>1. CASE source = "docx"
      BY <2>1, <2>4, <2>5, <3>1, FingerprintOfAll DEF Recorded
    <3>2. CASE source = "src"
      BY <2>1, <2>4, <2>5, <3>2, FingerprintOfAll DEF Recorded
    <3>3. CASE source = "md"
      BY <2>1, <2>4, <2>5, <3>3, FingerprintOfAll DEF Recorded
    <3>4. QED
      BY <2>1, <3>1, <3>2, <3>3 DEF Source
  <2>7. QED
    <3>1. ASSUME NEW f \in Source
          PROVE  file'[f] = <<>> \/ \E e \in done' : Recorded(f, file'[f], e)
      <4>1. CASE f = source
        BY <2>2, <2>6, <4>1
      <4>2. CASE f # source
        BY <1>0, <2>3, <2>5, <4>2 DEF FileFits
      <4>3. QED
        BY <4>1, <4>2
    <3>2. QED
      BY <3>1 DEF FileFits
<1>3. QED
  BY <1>1, <1>2

LEMMA InvHolds == Spec => []Inv
<1>1. Inv /\ [Next]_vars => Inv'
  BY StepTypes, StepRunFits, StepNotesFit, StepDoneFits, StepFileFits DEF Inv
<1>2. QED
  BY InitInv, <1>1, PTL DEF Spec

-----------------------------------------------------------------------------
(* The theorems.                                                            *)

\* The last note somebody wrote into the gaps report is in it or in its kept
\* copy, however often the DLD was parsed since, and every variable keeps its
\* type: write_outputs copies a report that was written into before it writes
\* its own.
THEOREM TypesAndLastNote == Spec => []LastNoteIsKept
<1>1. Inv => LastNoteIsKept
  <2>1. ASSUME Inv, notes > 0
        PROVE  notes \in report \cup kept
    <3>1. CASE report = {}
      BY <2>1, <3>1 DEF Inv, NotesFit
    <3>2. CASE report # {}
      BY <2>1, <3>2 DEF Inv, NotesFit
    <3>3. QED
      BY <3>1, <3>2
  <2>2. QED
    BY <2>1 DEF Inv, LastNoteIsKept
<1>2. QED
  BY InvHolds, <1>1, PTL

\* A pair of an author's DLD and its normalized form that was recorded as
\* complete had been stamped as that pair, whatever was edited, stamped and
\* started in which order.
THEOREM RecordedPairsWereReviewed == Spec => []RecordedWasReviewed
<1>1. Inv => RecordedWasReviewed
  BY DEF Inv, DoneFits, RecordedWasReviewed
<1>2. QED
  BY InvHolds, <1>1, PTL

\* Contents whose fingerprint is the recorded one are contents that were
\* recorded.
LEMMA UnchangedWasDone ==
  ASSUME Inv, ~IsChanged(DiscoverDldSource)
  PROVE  \E c \in done :
           /\ Contents = c
           /\ src # None => <<src, md>> \in Faithful
           /\ docx # None => src = Conversion[docx]
<1> DEFINE f == DiscoverDldSource
<1>0. TypeOK /\ Values /\ DoneFits /\ FileFits
  BY DEF Inv
<1>1. f \in Source /\ Content(f) # None
  BY <1>0, SourceIsThere DEF Content, Source
<1>2. file[f] = SourceFingerprint(f)
  BY DEF IsChanged
<1>3. SourceFingerprint(f) # <<>>
  BY <1>1, NotEmpty
<1>4. PICK c \in done : Recorded(f, SourceFingerprint(f), c)
  BY <1>0, <1>1, <1>2, <1>3 DEF FileFits
<1>5. /\ docx = None => c[1] = None
      /\ src = None => c[2] = None
      /\ c[2] # None => <<c[2], c[3]>> \in Faithful
      /\ c[3] # None
      /\ c = <<c[1], c[2], c[3]>>
  BY <1>0, <1>4 DEF DoneFits, Recorded, Values
<1>6. docx = c[1] /\ src = c[2] /\ md = c[3] /\ (docx # None => src = Conversion[docx])
  <2>1. CASE docx # None
    <3>1. f = "docx"
      BY <1>0, <2>1, SourceIsThere
    <3>2. c[1] # None /\ c[2] # None /\ c[2] = Conversion[c[1]] /\ SourceFingerprint("docx") = <<c[1], c[2], c[3]>>
      BY <1>4, <3>1 DEF Recorded
    <3>3. docx = c[1] /\ src = c[2] /\ md = c[3]
      BY <3>2, PrintTells
    <3>4. QED
      BY <3>2, <3>3
  <2>2. CASE docx = None /\ src # None
    <3>1. f = "src"
      BY <1>0, <2>2, SourceIsThere
    <3>2. c[2] # None /\ SourceFingerprint("src") = <<c[2], c[3]>>
      BY <1>4, <3>1 DEF Recorded
    <3>3. src = c[2] /\ md = c[3]
      BY <3>2, <2>2, PrintTells
    <3>4. QED
      BY <1>5, <2>2, <3>3
  <2>3. CASE docx = None /\ src = None
    <3>1. f = "md" /\ md # None
      BY <1>0, <2>3, SourceIsThere
    <3>2. SourceFingerprint("md") = <<c[3]>>
      BY <1>4, <1>5, <2>3, <3>1 DEF Recorded
    <3>3. SourceFingerprint("md") = <<md>>
      BY <2>3, <3>1, FingerprintOfAll
    <3>4. QED
      BY <1>5, <2>3, <3>2, <3>3
  <2>4. QED
    BY <2>1, <2>2, <2>3
<1>7. QED
  BY <1>5, <1>6 DEF Contents

\* A run that finds an IP unchanged leaves alone contents that were completed as
\* they are, whose Word document says what the author's markdown does, and whose
\* normalized DLD passes the fidelity gate: IPSources.hashes are of every file
\* that stands for the DLD, so that no edit of one of them is missed.
THEOREM UnchangedIsLeftAloneRightly == Spec => []UnchangedIsFaithful
<1>1. Inv => UnchangedIsFaithful
  BY UnchangedWasDone DEF UnchangedIsFaithful, NormalizationPasses
<1>2. QED
  BY InvHolds, <1>1, PTL

-----------------------------------------------------------------------------
(* What the two gates say of FSMs.                                          *)

LEMMA NoObjection ==
  ASSUME NEW S, NEW tag, { <<tag, x>> : x \in S } = {}
  PROVE  S = {}
OBVIOUS

\* The gate between author and DLD: if the DLD heads FSMs, it counts them right.
LEMMA GateCounts ==
  ASSUME NEW a, NEW d, GateErrors(a, d) = {}, Names(d, "fsm") # {}
  PROVE  ExtractFsmCount(d) = Cardinality(Names(d, "fsm"))
<1> DEFINE wrong == IF Names(d, "fsm") = {} THEN {} ELSE { ExtractFsmCount(d) } \ {Cardinality(Names(d, "fsm"))}
<1>1. CheckFsmParity(a, d) = {}
  BY DEF GateErrors
<1>2. { <<"count wrong", n>> : n \in wrong } = {}
  BY <1>1 DEF CheckFsmParity
<1>3. wrong = {}
  BY <1>2, NoObjection
<1>4. QED
  BY <1>3

\* The gates of a template that was completed from a DLD: it has every FSM of the
\* DLD, and the DLD's count of them.
LEMMA TemplateCounts ==
  ASSUME NEW t, NEW d, NEW a, NEW stamped, PassesGates(t, d, a, stamped)
  PROVE  /\ Names(d, "fsm") \subseteq DOMAIN t.fsms
         /\ t.count = ExtractFsmCount(d)
         /\ t.count = Cardinality(DOMAIN t.fsms)
         /\ a # None => GateErrors(a, d) = {}
<1> DEFINE missing == Names(d, "fsm") \ DOMAIN t.fsms
           other == {t.count} \ {ExtractFsmCount(d)}
           wrong == {t.count} \ {Cardinality(DOMAIN t.fsms)}
<1>1. Coverage(t, d, a, stamped) = {} /\ SemanticErrors(t) = {}
  BY DEF PassesGates
<1>2. { <<"FSM missing", f>> : f \in missing } = {} /\ { <<"count", n>> : n \in other } = {}
      /\ NormalizationCoverage(a, d, stamped) = {}
  BY <1>1 DEF Coverage
<1>3. { <<"count", n>> : n \in wrong } = {}
  BY <1>1 DEF SemanticErrors
<1>4. missing = {} /\ other = {} /\ wrong = {}
  BY <1>2, <1>3, NoObjection
<1>5. a # None => GateErrors(a, d) = {}
  BY <1>2 DEF NormalizationCoverage
<1>6. QED
  BY <1>4, <1>5

LEMMA CompletedKeepsFsms ==
  ASSUME NEW t, "fsms" \in DOMAIN t
  PROVE  DOMAIN Completed(t).fsms = DOMAIN t.fsms
<1>1. ASSUME NEW F, NEW I, NEW T
      PROVE  [t EXCEPT !.fsms = F, !.interfaces = I, !.timing = T].fsms = F
  OBVIOUS
<1> DEFINE F == [f \in DOMAIN t.fsms |-> [t.fsms[f] EXCEPT !.exits = SettledExits(t.fsms[f].exits)]]
           I == [n \in DOMAIN t.interfaces |->
                   [t.interfaces[n] EXCEPT !.points = Settled(t.interfaces[n].points, {})]]
           T == [f \in DOMAIN t.timing |-> Settled(t.timing[f], {"settled"})]
<1>2. Completed(t) = [t EXCEPT !.fsms = F, !.interfaces = I, !.timing = T]
  BY DEF Completed
<1>3. DOMAIN F = DOMAIN t.fsms
  OBVIOUS
<1> HIDE DEF F, I, T
<1>4. QED
  BY <1>1, <1>2, <1>3

\* A template's FSMs are the FSMs of the DLD it was drafted from, or the one
\* placeholder: finitely many, since a document has finitely many sections.
LEMMA TemplateFsms ==
  ASSUME NEW e \in Doc
  PROVE  IsFiniteSet(DOMAIN Template[e].fsms)
<1> DEFINE d == Text[e]
           fsms == [f \in Names(d, "fsm") |-> BuildFsmEntry(ExtractFsms(d)[f])]
           headed == Headed(d, "fsm")
           name == [i \in headed |-> d.sections[i].name]
<1>1. IsFiniteSet(headed)
  BY AuthoringAssumption, FS_Subset DEF Headed
<1>2. IsFiniteSet(Names(d, "fsm"))
  <2>1. name \in Surjection(headed, Names(d, "fsm"))
    BY DEF Surjection, Names
  <2>2. QED
    BY <1>1, <2>1, FS_Surjection
<1>3. DOMAIN Template[e].fsms = DOMAIN BuildDraft(d).fsms
  <2>1. "fsms" \in DOMAIN BuildDraft(d)
    BY DEF BuildDraft
  <2>2. DOMAIN Completed(BuildDraft(d)).fsms = DOMAIN BuildDraft(d).fsms
    BY <2>1, CompletedKeepsFsms
  <2>3. QED
    BY <2>2 DEF Template
<1>4. BuildDraft(d).fsms = OrPlaceholder(fsms, BuildFsmEntry({}))
  BY DEF BuildDraft
<1>5. DOMAIN BuildDraft(d).fsms = Names(d, "fsm") \/ DOMAIN BuildDraft(d).fsms = {Todo}
  BY <1>4 DEF OrPlaceholder
<1>6. IsFiniteSet({Todo})
  BY FS_Singleton
<1> HIDE DEF d
<1>7. QED
  BY <1>2, <1>3, <1>5, <1>6

LEMMA PromotedFsms ==
  ASSUME NEW t \in Doc, NEW a \in Doc, NEW d \in Doc, NEW stamped \in BOOLEAN,
         <<t, a, d, stamped>> \in Promotable, Names(Text[d], "fsm") # {}
  PROVE  DOMAIN Template[t].fsms = Names(Text[d], "fsm")
<1>1. PassesGates(Template[t], Text[d], Text[a], stamped) /\ Text[a] # None
  BY AuthoringAssumption DEF Promotable
<1>2. /\ Names(Text[d], "fsm") \subseteq DOMAIN Template[t].fsms
      /\ Template[t].count = ExtractFsmCount(Text[d])
      /\ Template[t].count = Cardinality(DOMAIN Template[t].fsms)
      /\ GateErrors(Text[a], Text[d]) = {}
  BY <1>1, TemplateCounts
<1>3. ExtractFsmCount(Text[d]) = Cardinality(Names(Text[d], "fsm"))
  BY <1>2, GateCounts
<1>4. QED
  BY <1>2, <1>3, TemplateFsms, FS_Subset

\* Past the template's gates, and if the DLD was normalized, the template has the
\* FSMs of the DLD and no other, whichever contents it was promoted from, provided
\* that every normalized DLD heads an FSM: the fidelity gate compares nothing with
\* a DLD that heads none.
THEOREM PromotedFsmsAreThose ==
  ASSUME \A d \in InShape \cup Rewriting : Names(Text[d], "fsm") # {}
  PROVE  Spec => []PromotedFsmsAreTheDlds
<1>1. ASSUME Inv, pc = "REST", src # None
      PROVE  DOMAIN Template[template].fsms = Names(Text[md], "fsm")
  <2>1. md # None /\ md \in InShape \cup Rewriting /\ md \in Doc /\ src \in Doc /\ TemplatePasses
    BY <1>1 DEF Inv, RunFits, Values, TypeOK
  <2>2. <<template, src, md, Stamped>> \in Promotable /\ template \in Doc /\ Stamped \in BOOLEAN
    <3>1. Stamped \in BOOLEAN
      BY DEF Stamped
    <3>2. <<template, src, md, Stamped>> \in Promotable
      BY <2>1 DEF TemplatePasses
    <3>3. QED
      BY <3>1, <3>2 DEF Promotable
  <2>3. QED
    BY <1>1, <2>1, <2>2, PromotedFsms
<1>2. Inv => PromotedFsmsAreTheDlds
  BY <1>1 DEF PromotedFsmsAreTheDlds
<1>3. QED
  BY InvHolds, <1>2, PTL

-----------------------------------------------------------------------------
(* Shape is free: what the fidelity gate says of a normalized DLD it says of *)
(* every DLD that has the same sections, in whatever order and with no more  *)
(* code marks.                                                              *)

SameBody(s, t) ==
  /\ s.heading = t.heading /\ s.name = t.name
  /\ s.states = t.states /\ s.wait = t.wait /\ s.text = t.text
  /\ s.marked \subseteq t.marked
SameSection(s, t) == SameBody(s, t) /\ s.title = t.title

RestatesBody(e, d) ==
  /\ e.count = d.count /\ e.rows = d.rows
  /\ \A s \in Sections(e) : \E t \in Sections(d) : SameBody(s, t)
  /\ \A t \in Sections(d) : \E s \in Sections(e) : SameBody(s, t)
Restates(e, d) ==
  /\ e.count = d.count /\ e.rows = d.rows
  /\ \A s \in Sections(e) : \E t \in Sections(d) : SameSection(s, t)
  /\ \A t \in Sections(d) : \E s \in Sections(e) : SameSection(s, t)

\* A document heads no two FSMs by one name (DldDocument).
Unambiguous(d) ==
  \A s, t \in Sections(d) : s.heading = "fsm" /\ t.heading = "fsm" /\ s.name = t.name => s.states = t.states

LEMMA SameTokens ==
  ASSUME NEW s, NEW t, SameBody(s, t)
  PROVE  BodyWords(s) = BodyWords(t) /\ SectionTokens(s) = SectionTokens(t)
BY DEF SameBody, BodyWords, WaitWords, SectionTokens

LEMMA BodiesToo ==
  ASSUME NEW d, NEW e, Restates(e, d)
  PROVE  RestatesBody(e, d)
BY DEF Restates, RestatesBody, SameSection

\* What the bodies of a document's sections say, in whatever order.
LEMMA RestatedBodies ==
  ASSUME NEW d, NEW e, RestatesBody(e, d)
  PROVE  /\ RowWords(e) = RowWords(d) /\ Body(e) = Body(d)
         /\ Identifiers(e) \subseteq Identifiers(d)
         /\ ContentBlocks(e) = ContentBlocks(d)
<1> DEFINE blocks(s) == { ContentTokens(w) : w \in {s.text, s.states, WaitWords(s.wait)} }
<1>1. RowWords(e) = RowWords(d)
  BY DEF RestatesBody, RowWords
<1>2. UNION { BodyWords(s) : s \in Sections(e) } = UNION { BodyWords(s) : s \in Sections(d) }
  <2>1. \A s \in Sections(e) : \E t \in Sections(d) : BodyWords(s) = BodyWords(t)
    BY SameTokens DEF RestatesBody
  <2>2. \A t \in Sections(d) : \E s \in Sections(e) : BodyWords(s) = BodyWords(t)
    BY SameTokens DEF RestatesBody
  <2>3. QED
    BY <2>1, <2>2
<1>3. Body(e) = Body(d)
  BY <1>1, <1>2 DEF Body
<1>4. Identifiers(e) \subseteq Identifiers(d)
  <2>1. ASSUME NEW x \in Identifiers(e)
        PROVE  x \in Identifiers(d)
    <3>1. PICK s \in Sections(e) : x \in s.marked \cup s.states \cup (({s.wait.mode} \cup s.wait.points) \ {None})
      BY DEF Identifiers
    <3>2. PICK t \in Sections(d) : SameBody(s, t)
      BY DEF RestatesBody
    <3>3. x \in t.marked \cup t.states \cup (({t.wait.mode} \cup t.wait.points) \ {None})
      BY <3>1, <3>2 DEF SameBody
    <3>4. QED
      BY <3>3 DEF Identifiers
  <2>2. QED
    BY <2>1
<1>5. ASSUME NEW s, NEW t, SameBody(s, t)
      PROVE  blocks(s) = blocks(t)
  BY <1>5 DEF SameBody
<1>6. UNION { blocks(s) : s \in Sections(e) } = UNION { blocks(s) : s \in Sections(d) }
  <2>1. \A s \in Sections(e) : \E t \in Sections(d) : blocks(s) = blocks(t)
    BY <1>5 DEF RestatesBody
  <2>2. \A t \in Sections(d) : \E s \in Sections(e) : blocks(s) = blocks(t)
    BY <1>5 DEF RestatesBody
  <2> HIDE DEF blocks
  <2>3. QED
    BY <2>1, <2>2
<1>7. ContentBlocks(e) = ContentBlocks(d)
  BY <1>1, <1>6 DEF ContentBlocks
<1>8. QED
  BY <1>1, <1>3, <1>4, <1>7

\* With their headings.
LEMMA RestatedWords ==
  ASSUME NEW d, NEW e, Restates(e, d)
  PROVE  /\ BareTokens(e) = BareTokens(d)
         /\ Measurements(e) = Measurements(d)
         /\ HeadingBlocks(e) = HeadingBlocks(d)
<1>1. UNION { s.title \cup BodyWords(s) : s \in Sections(e) } = UNION { s.title \cup BodyWords(s) : s \in Sections(d) }
  <2>1. ASSUME NEW s \in Sections(e)
        PROVE  \E t \in Sections(d) : s.title \cup BodyWords(s) = t.title \cup BodyWords(t)
    BY SameTokens DEF Restates, SameSection
  <2>2. ASSUME NEW t \in Sections(d)
        PROVE  \E s \in Sections(e) : s.title \cup BodyWords(s) = t.title \cup BodyWords(t)
    BY SameTokens DEF Restates, SameSection
  <2>3. QED
    BY <2>1, <2>2
<1>2. BareTokens(e) = BareTokens(d)
  BY <1>1, BodiesToo, RestatedBodies DEF BareTokens
<1>3. HeadingBlocks(e) = HeadingBlocks(d)
  <2>1. \A s \in Sections(e) : \E t \in Sections(d) : ContentTokens(s.title) = ContentTokens(t.title)
    BY DEF Restates, SameSection
  <2>2. \A t \in Sections(d) : \E s \in Sections(e) : ContentTokens(s.title) = ContentTokens(t.title)
    BY DEF Restates, SameSection
  <2>3. QED
    BY <2>1, <2>2 DEF HeadingBlocks
<1>4. QED
  BY <1>2, <1>3 DEF Measurements

\* Names and FSMs by the sections that have them, wherever these stand.
LEMMA NamesBySection ==
  ASSUME NEW d, NEW heading
  PROVE  Names(d, heading) = { s.name : s \in { t \in Sections(d) : t.heading = heading } }
BY DEF Names, Headed, Sections

LEMMA FsmsBySection ==
  ASSUME NEW d, Unambiguous(d), NEW s \in Sections(d), s.heading = "fsm"
  PROVE  s.name \in Names(d, "fsm") /\ ExtractFsms(d)[s.name] = s.states
<1>1. s.name \in Names(d, "fsm")
  BY NamesBySection
<1>2. PICK i \in Headed(d, "fsm") : d.sections[i].name = s.name
  BY <1>1 DEF Names
<1> DEFINE j == CHOOSE k \in Headed(d, "fsm") : d.sections[k].name = s.name
<1>3. j \in Headed(d, "fsm") /\ d.sections[j].name = s.name
  BY <1>2
<1>4. ExtractFsms(d)[s.name] = d.sections[j].states
  BY <1>1 DEF ExtractFsms, SplitBlocks
<1> HIDE DEF j
<1>5. d.sections[j] \in Sections(d) /\ d.sections[j].heading = "fsm"
  BY <1>3 DEF Headed, Sections
<1>6. d.sections[j].states = s.states
  BY <1>3, <1>5 DEF Unambiguous
<1>7. QED
  BY <1>1, <1>4, <1>6

LEMMA RestatedFsms ==
  ASSUME NEW d, NEW e, RestatesBody(e, d), Unambiguous(d)
  PROVE  Names(e, "fsm") = Names(d, "fsm") /\ ExtractFsms(e) = ExtractFsms(d)
         /\ ExtractFsmCount(e) = ExtractFsmCount(d)
<1>1. Unambiguous(e)
  <2>1. ASSUME NEW s \in Sections(e), NEW t \in Sections(e),
               s.heading = "fsm", t.heading = "fsm", s.name = t.name
        PROVE  s.states = t.states
    <3>1. PICK u \in Sections(d) : SameBody(s, u)
      BY DEF RestatesBody
    <3>2. PICK v \in Sections(d) : SameBody(t, v)
      BY DEF RestatesBody
    <3>3. QED
      BY <2>1, <3>1, <3>2 DEF SameBody, Unambiguous
  <2>2. QED
    BY <2>1 DEF Unambiguous
<1>2. Names(e, "fsm") \subseteq Names(d, "fsm") /\ Names(d, "fsm") \subseteq Names(e, "fsm")
  BY NamesBySection DEF RestatesBody, SameBody
<1>3. Names(e, "fsm") = Names(d, "fsm")
  BY <1>2
<1>4. ASSUME NEW f \in Names(d, "fsm")
      PROVE  ExtractFsms(e)[f] = ExtractFsms(d)[f]
  <2>1. PICK t \in Sections(d) : t.heading = "fsm" /\ t.name = f
    BY NamesBySection
  <2>2. PICK s \in Sections(e) : SameBody(s, t)
    BY DEF RestatesBody
  <2>3. s.heading = "fsm" /\ s.name = f /\ s.states = t.states
    BY <2>1, <2>2 DEF SameBody
  <2>4. ExtractFsms(e)[f] = s.states
    BY <1>1, <2>3, FsmsBySection
  <2>5. ExtractFsms(d)[f] = t.states
    BY <2>1, FsmsBySection
  <2>6. QED
    BY <2>3, <2>4, <2>5
<1>5. ExtractFsms(e) = ExtractFsms(d)
  BY <1>3, <1>4 DEF ExtractFsms
<1>6. ExtractFsmCount(e) = ExtractFsmCount(d)
  BY <1>3 DEF ExtractFsmCount, RestatesBody
<1>7. QED
  BY <1>3, <1>5, <1>6

\* A restated interface section has the same section of the author's behind it.
LEMMA RestatedWaitModels ==
  ASSUME NEW a, NEW d, NEW e, Restates(e, d), CheckWaitModelProvenance(a, d) = {}
  PROVE  CheckWaitModelProvenance(a, e) = {}
<1> DEFINE evidence(s) == IF MatchSourceSection(s, a) = {} THEN BareTokens(a)
                          ELSE UNION { BodyWords(a.sections[i]) : i \in MatchSourceSection(s, a) }
           unfounded(x) == { t \in Sections(x) : /\ t.heading = "interface" /\ t.wait.block
                                                  /\ BlockingHits(evidence(t)) = 0 }
<1>1. \A x : CheckWaitModelProvenance(a, x) = { <<"wait model invented", s.name>> : s \in unfounded(x) }
  BY DEF CheckWaitModelProvenance
<1>2. unfounded(d) = {}
  <2>1. { <<"wait model invented", s.name>> : s \in unfounded(d) } = {}
    BY <1>1
  <2> HIDE DEF unfounded
  <2>2. QED
    BY <2>1
<1>3. ASSUME NEW s, NEW t, SameSection(s, t)
      PROVE  evidence(s) = evidence(t)
  <2>1. s.title = t.title /\ SectionTokens(s) = SectionTokens(t)
    BY <1>3, SameTokens DEF SameSection
  <2>2. MatchSourceSection(s, a) = MatchSourceSection(t, a)
    BY <2>1 DEF MatchSourceSection
  <2>3. QED
    BY <2>2
<1>4. unfounded(e) = {}
  <2>1. ASSUME NEW s \in unfounded(e)
        PROVE  FALSE
    <3>1. s \in Sections(e) /\ s.heading = "interface" /\ s.wait.block /\ BlockingHits(evidence(s)) = 0
      BY <2>1
    <3>2. PICK t \in Sections(d) : SameSection(s, t)
      BY <3>1 DEF Restates
    <3>3. evidence(s) = evidence(t)
      BY <1>3, <3>2
    <3> HIDE DEF evidence
    <3>4. t.heading = "interface" /\ t.wait.block /\ BlockingHits(evidence(t)) = 0
      BY <3>1, <3>2, <3>3 DEF SameSection, SameBody
    <3>5. t \in unfounded(d)
      BY <3>4
    <3>6. QED
      BY <1>2, <3>5
  <2>2. QED
    BY <2>1
<1> HIDE DEF unfounded
<1>5. { <<"wait model invented", s.name>> : s \in unfounded(e) } = {}
  BY <1>4
<1>6. QED
  BY <1>1, <1>5

\* A passing normalized DLD still passes when its sections are put into another
\* order or lose code marks, for all documents: no check looks at where a section
\* stands, and marks only add names that must be the author's.
THEOREM ShapeIsFree ==
  ASSUME NEW a, NEW d, NEW e, Unambiguous(d), Restates(e, d), Passes(a, d)
  PROVE  Passes(a, e)
<1>0. GateErrors(a, d) = {}
  BY DEF Passes
<1>1. CheckMeasurements(a, e) = {}
  BY <1>0, RestatedWords DEF GateErrors, CheckMeasurements
<1>2. CheckIdentifiers(a, e) = {}
  <2> DEFINE dropped(x) == { m \in Identifiers(a) : ~IsGrounded(m, BareTokens(x)) }
             invented(x) == { m \in Identifiers(x) \ Mode : ~IsGrounded(m, BareTokens(a)) }
  <2>1. \A x : CheckIdentifiers(a, x) = { <<"dropped", n>> : n \in dropped(x) }
                                          \cup { <<"invented", n>> : n \in invented(x) }
    BY DEF CheckIdentifiers
  <2>2. { <<"dropped", n>> : n \in dropped(d) } = {} /\ { <<"invented", n>> : n \in invented(d) } = {}
    BY <1>0, <2>1 DEF GateErrors
  <2>3. dropped(d) = {} /\ invented(d) = {}
    BY <2>2, NoObjection
  <2>4. dropped(e) = {} /\ invented(e) = {}
    BY <2>3, BodiesToo, RestatedBodies, RestatedWords
  <2> HIDE DEF dropped, invented
  <2>5. QED
    BY <2>1, <2>4
<1>3. CheckFsmParity(a, e) = {}
  BY <1>0, BodiesToo, RestatedFsms DEF GateErrors, CheckFsmParity
<1>4. CheckStateParity(a, e) = {}
  BY <1>0, BodiesToo, RestatedFsms DEF GateErrors, CheckStateParity
<1>5. CheckWaitModelProvenance(a, e) = {}
  BY <1>0, RestatedWaitModels DEF GateErrors
<1>6. CheckUnplacedAccounting(a, e) = {}
  BY <1>0, BodiesToo, RestatedBodies, RestatedWords DEF GateErrors, CheckUnplacedAccounting
<1>7. QED
  BY <1>1, <1>2, <1>3, <1>4, <1>5, <1>6 DEF Passes, GateErrors

-----------------------------------------------------------------------------
(* The gate is exact.  What it objects to, one objection at a time.         *)

LEMMA ObjectsToMeasurement ==
  ASSUME NEW a, NEW e, NEW m,
         \/ m \in Measurements(a) \ Measurements(e)
         \/ m \in Measurements(e) \ Measurements(a)
  PROVE  ~Passes(a, e)
<1>1. <<"dropped", m>> \in CheckMeasurements(a, e) \/ <<"invented", m>> \in CheckMeasurements(a, e)
  BY DEF CheckMeasurements
<1>2. QED
  BY <1>1 DEF Passes, GateErrors

LEMMA ObjectsToName ==
  ASSUME NEW a, NEW e, NEW n,
         \/ n \in Identifiers(a) /\ ~IsGrounded(n, BareTokens(e))
         \/ n \in Identifiers(e) \ Mode /\ ~IsGrounded(n, BareTokens(a))
  PROVE  ~Passes(a, e)
<1>1. <<"dropped", n>> \in CheckIdentifiers(a, e) \/ <<"invented", n>> \in CheckIdentifiers(a, e)
  BY DEF CheckIdentifiers
<1>2. QED
  BY <1>1 DEF Passes, GateErrors

LEMMA ObjectsToLostFsm ==
  ASSUME NEW a, NEW e, NEW f \in Names(a, "fsm") \ Names(e, "fsm"), Names(e, "fsm") # {}
  PROVE  ~Passes(a, e)
<1>1. <<"FSM dropped", f>> \in CheckFsmParity(a, e)
  BY DEF CheckFsmParity
<1>2. QED
  BY <1>1 DEF Passes, GateErrors

LEMMA ObjectsToCount ==
  ASSUME NEW a, NEW e, Names(a, "fsm") # {}, ExtractFsmCount(a) # ExtractFsmCount(e)
  PROVE  ~Passes(a, e)
<1>1. <<"count changed", ExtractFsmCount(e)>> \in CheckFsmParity(a, e)
  BY DEF CheckFsmParity
<1>2. QED
  BY <1>1 DEF Passes, GateErrors

LEMMA ObjectsToStates ==
  ASSUME NEW a, NEW e, NEW f \in Names(a, "fsm") \cap Names(e, "fsm"),
         ExtractFsms(a)[f] # {}, ExtractFsms(e)[f] # {}, ExtractFsms(a)[f] # ExtractFsms(e)[f]
  PROVE  ~Passes(a, e)
<1>1. DOMAIN ExtractFsms(a) = Names(a, "fsm") /\ DOMAIN ExtractFsms(e) = Names(e, "fsm")
  BY DEF ExtractFsms
<1>2. <<"states changed", f>> \in CheckStateParity(a, e)
  BY <1>1 DEF CheckStateParity
<1>3. QED
  BY <1>2 DEF Passes, GateErrors

LEMMA ObjectsToWaitModel ==
  ASSUME NEW a, NEW e, NEW t \in Sections(e), t.heading = "interface", t.wait.block,
         MatchSourceSection(t, a) # {},
         \A i \in MatchSourceSection(t, a) : BodyWords(a.sections[i]) \cap Blocking = {}
  PROVE  ~Passes(a, e)
<1> DEFINE words == UNION { BodyWords(a.sections[i]) : i \in MatchSourceSection(t, a) }
<1>1. words \cap Blocking = {}
  OBVIOUS
<1>2. BlockingHits(words) = 0
  BY <1>1, FS_EmptySet DEF BlockingHits
<1>3. <<"wait model invented", t.name>> \in CheckWaitModelProvenance(a, e)
  BY <1>2 DEF CheckWaitModelProvenance
<1>4. QED
  BY <1>3 DEF Passes, GateErrors

LEMMA ObjectsToLostBlock ==
  ASSUME NEW a, NEW e, NEW b \in ContentBlocks(a),
         LET blocks == ContentBlocks(e) \cup HeadingBlocks(e)
         IN /\ \A other \in blocks : 10 * Cardinality(b \cap other) < 6 * Cardinality(b)
            /\ 10 * Cardinality(b \cap UNION blocks) < 9 * Cardinality(b)
  PROVE  ~Passes(a, e)
<1>1. <<"block lost", b>> \in CheckUnplacedAccounting(a, e)
  BY DEF CheckUnplacedAccounting
<1>2. QED
  BY <1>1 DEF Passes, GateErrors

-----------------------------------------------------------------------------
(* What a change of sections leaves and makes.                              *)

Fields(s) == {"heading", "title", "name", "states", "wait", "text", "marked"} \subseteq DOMAIN s
IsText(d) == {"sections", "rows", "count"} \subseteq DOMAIN d /\ \A s \in Sections(d) : Fields(s)

LEMMA ChangedSections ==
  ASSUME NEW d, IsText(d), NEW change, NEW e, e = WithSections(d, change)
  PROVE  /\ e.count = d.count /\ e.rows = d.rows
         /\ DOMAIN e.sections = DOMAIN d.sections
         /\ \A i \in DOMAIN d.sections : e.sections[i] = change[d.sections[i]]
         /\ Sections(e) = { change[s] : s \in Sections(d) }
         /\ {"sections", "rows", "count"} \subseteq DOMAIN e
<1>1. {"sections", "rows", "count"} \subseteq DOMAIN d
  BY DEF IsText
<1> DEFINE changed == [i \in DOMAIN d.sections |-> change[d.sections[i]]]
<1>2. e = [d EXCEPT !.sections = changed]
  BY DEF WithSections
<1> HIDE DEF changed
<1>3. e.count = d.count /\ e.rows = d.rows /\ e.sections = changed /\ DOMAIN e = DOMAIN d
  BY <1>1, <1>2
<1>4. DOMAIN changed = DOMAIN d.sections /\ \A i \in DOMAIN d.sections : changed[i] = change[d.sections[i]]
  BY DEF changed
<1>5. Sections(e) = { change[s] : s \in Sections(d) }
  BY <1>3, <1>4 DEF Sections
<1>6. QED
  BY <1>1, <1>3, <1>4, <1>5

\* A section stays what it is but for the field that is replaced.
LEMMA SectionFields ==
  ASSUME NEW s, Fields(s), NEW x
  PROVE  /\ LET t == [s EXCEPT !.text = x]
            IN Fields(t) /\ t.text = x /\ t.heading = s.heading /\ t.title = s.title /\ t.name = s.name
               /\ t.states = s.states /\ t.wait = s.wait /\ t.marked = s.marked
         /\ LET t == [s EXCEPT !.states = x]
            IN Fields(t) /\ t.states = x /\ t.heading = s.heading /\ t.title = s.title /\ t.name = s.name
               /\ t.text = s.text /\ t.wait = s.wait /\ t.marked = s.marked
         /\ LET t == [s EXCEPT !.marked = x]
            IN Fields(t) /\ t.marked = x /\ t.heading = s.heading /\ t.title = s.title /\ t.name = s.name
               /\ t.text = s.text /\ t.wait = s.wait /\ t.states = s.states
         /\ LET t == [s EXCEPT !.title = x]
            IN Fields(t) /\ t.title = x /\ t.heading = s.heading /\ t.marked = s.marked /\ t.name = s.name
               /\ t.text = s.text /\ t.wait = s.wait /\ t.states = s.states
         /\ LET t == [s EXCEPT !.wait = x]
            IN Fields(t) /\ t.wait = x /\ t.heading = s.heading /\ t.marked = s.marked /\ t.name = s.name
               /\ t.text = s.text /\ t.title = s.title /\ t.states = s.states
BY DEF Fields

LEMMA SectionsAre ==
  ASSUME NEW d, IsDocument(d)
  PROVE  /\ \A s \in Sections(d) : IsSection(s)
         /\ \A i \in DOMAIN d.sections : d.sections[i] \in Sections(d)
         /\ None \notin BareTokens(d)
         /\ Unambiguous(d) /\ IsText(d)
<1>1. ASSUME NEW s \in Sections(d), NEW t \in Sections(d), s.heading = "fsm", t.heading = "fsm", s.name = t.name
      PROVE  s.states = t.states
  <2>1. PICK i \in Headed(d, "fsm") : s = d.sections[i]
    BY <1>1 DEF Sections, Headed
  <2>2. PICK j \in Headed(d, "fsm") : t = d.sections[j]
    BY <1>1 DEF Sections, Headed
  <2>3. i = j
    BY <1>1, <2>1, <2>2 DEF IsDocument
  <2>4. QED
    BY <2>1, <2>2, <2>3
<1>2. Unambiguous(d)
  BY <1>1 DEF Unambiguous
<1>3. IsText(d)
  BY DEF IsDocument, IsSection, IsText, Fields
<1>4. QED
  BY <1>2, <1>3 DEF IsDocument, Sections

\* Every name the author marks is a word of his.
LEMMA NamesAreSaid ==
  ASSUME NEW d, IsDocument(d)
  PROVE  Identifiers(d) \subseteq Body(d) /\ Body(d) \subseteq BareTokens(d)
<1>1. ASSUME NEW s \in Sections(d)
      PROVE  s.marked \cup s.states \cup (({s.wait.mode} \cup s.wait.points) \ {None}) \subseteq BodyWords(s)
  <2>1. IsSection(s)
    BY SectionsAre
  <2>2. s.marked \subseteq s.text
    BY <2>1 DEF IsSection
  <2>3. ({s.wait.mode} \cup s.wait.points) \ {None} \subseteq WaitWords(s.wait)
    <3>1. CASE s.wait.block
      BY <3>1 DEF WaitWords
    <3>2. CASE s.wait = NoWait
      BY <3>2 DEF NoWait
    <3>3. QED
      BY <2>1, <3>1, <3>2 DEF IsSection
  <2>4. QED
    BY <2>2, <2>3 DEF BodyWords
<1>2. QED
  BY <1>1 DEF Identifiers, Body, BareTokens

-----------------------------------------------------------------------------
(* Damaged words.                                                           *)

\* A word taken out is nowhere.
LEMMA WithoutIsGone ==
  ASSUME NEW d, IsDocument(d), NEW w, w # None, w \notin {"wait", "model"}
  PROVE  w \notin BareTokens(Without(d, w))
<1> DEFINE changed(s) ==
             [s EXCEPT !.title = s.title \ {w}, !.text = s.text \ {w}, !.marked = s.marked \ {w},
                       !.states = s.states \ {w},
                       !.wait = [block |-> s.wait.block, mode |-> Cleared(s.wait.mode, w),
                                 points |-> s.wait.points \ {w}]]
           change == [s \in Sections(d) |-> changed(s)]
           rows == [i \in DOMAIN d.rows |-> [fsm |-> Cleared(d.rows[i].fsm, w), ops |-> d.rows[i].ops \ {w}]]
           mid == WithSections(d, change)
           e == Without(d, w)
<1>1. e = [mid EXCEPT !.rows = rows]
  BY DEF Without
<1>2. Sections(mid) = { change[s] : s \in Sections(d) } /\ {"sections", "rows", "count"} \subseteq DOMAIN mid
  <2> HIDE DEF change
  <2>1. QED
    BY SectionsAre, ChangedSections
<1>3. ASSUME NEW s \in Sections(d)
      PROVE  w \notin change[s].title \cup BodyWords(change[s])
  <2>1. {"heading", "title", "name", "states", "wait", "text", "marked"} \subseteq DOMAIN s
    BY SectionsAre DEF IsSection
  <2>2. change[s] = changed(s)
    OBVIOUS
  <2>3. /\ changed(s).title = s.title \ {w} /\ changed(s).text = s.text \ {w}
        /\ changed(s).states = s.states \ {w}
        /\ changed(s).wait = [block |-> s.wait.block, mode |-> Cleared(s.wait.mode, w),
                              points |-> s.wait.points \ {w}]
    BY <2>1
  <2> HIDE DEF changed, change
  <2>4. Cleared(s.wait.mode, w) # w
    BY DEF Cleared
  <2>5. w \notin WaitWords(change[s].wait)
    BY <2>2, <2>3, <2>4 DEF WaitWords
  <2>6. QED
    BY <2>2, <2>3, <2>5 DEF BodyWords
<1> HIDE DEF change, changed
<1>4. e.sections = mid.sections /\ e.rows = rows
  <2> HIDE DEF rows, mid, e
  <2>1. QED
    BY <1>1, <1>2
<1>5. Sections(e) = { change[s] : s \in Sections(d) }
  <2> HIDE DEF mid, e
  <2>1. Sections(e) = Sections(mid)
    BY <1>4 DEF Sections
  <2>2. QED
    BY <1>2, <2>1
<1>6. w \notin RowWords(e)
  <2>1. \A i \in DOMAIN d.rows : rows[i].fsm # w /\ w \notin rows[i].ops
    BY DEF Cleared
  <2>2. DOMAIN rows = DOMAIN d.rows
    OBVIOUS
  <2> HIDE DEF rows, e
  <2>3. QED
    BY <1>4, <2>1, <2>2 DEF RowWords
<1> HIDE DEF e
<1>7. w \notin BareTokens(e)
  BY <1>3, <1>5, <1>6 DEF BareTokens
<1>8. QED
  BY <1>7 DEF e

LEMMA WithoutIsNoticed ==
  ASSUME NEW a, IsDocument(a), NEW d, IsDocument(d),
         NEW w \in (Measurements(a) \cup (Identifiers(a) \ DOMAIN Parts)) \ {"wait", "model"}
  PROVE  ~Passes(a, Without(d, w))
<1>1. w # None
  <2>1. w \in BareTokens(a)
    BY NamesAreSaid DEF Measurements
  <2>2. QED
    BY <2>1, SectionsAre
<1>2. w \notin BareTokens(Without(d, w))
  BY <1>1, WithoutIsGone
<1>3. CASE w \in Measurements(a)
  <2>1. w \notin Measurements(Without(d, w))
    BY <1>2 DEF Measurements
  <2>2. QED
    BY <1>3, <2>1, ObjectsToMeasurement
<1>4. CASE w \in Identifiers(a) \ DOMAIN Parts
  <2>1. ~IsGrounded(w, BareTokens(Without(d, w)))
    BY <1>2, <1>4 DEF IsGrounded
  <2>2. QED
    BY <1>4, <2>1, ObjectsToName
<1>5. QED
  BY <1>3, <1>4

LEMMA RetypingIsNoticed ==
  ASSUME NEW a, NEW d, IsDocument(d), NEW m, NEW n \in Measure \ Measurements(a),
         NEW e \in Retypings(d, m, n)
  PROVE  ~Passes(a, e)
<1>1. n \in BareTokens(e)
  <2>1. ASSUME NEW t \in Sections(d),
               e = WithSections(d, [s \in Sections(d) |->
                     IF s = t THEN [s EXCEPT !.text = Retyped(s.text, m, n)] ELSE s])
        PROVE  n \in BareTokens(e)
    <3> DEFINE change == [s \in Sections(d) |->
                            IF s = t THEN [s EXCEPT !.text = Retyped(s.text, m, n)] ELSE s]
    <3>1. change[t].text = Retyped(t.text, m, n)
      <4>1. Fields(t) /\ change[t] = [t EXCEPT !.text = Retyped(t.text, m, n)]
        BY SectionsAre DEF IsText
      <4> HIDE DEF change
      <4>2. QED
        BY <4>1, SectionFields
    <3>2. e = WithSections(d, change)
      BY <2>1
    <3> HIDE DEF change
    <3>3. change[t] \in Sections(e)
      BY <3>2, SectionsAre, ChangedSections
    <3>4. n \in BodyWords(change[t])
      BY <3>1 DEF Retyped, BodyWords
    <3>5. QED
      BY <3>3, <3>4 DEF BareTokens
  <2>2. ASSUME NEW i \in DOMAIN d.rows,
               e = [d EXCEPT !.rows = [d.rows EXCEPT ![i] =
                      [fsm |-> d.rows[i].fsm, ops |-> Retyped(d.rows[i].ops, m, n)]]]
        PROVE  n \in BareTokens(e)
    <3> DEFINE row == [fsm |-> d.rows[i].fsm, ops |-> Retyped(d.rows[i].ops, m, n)]
               rows == [d.rows EXCEPT ![i] = row]
    <3>1. row.ops = Retyped(d.rows[i].ops, m, n)
      OBVIOUS
    <3> HIDE DEF row
    <3>2. DOMAIN rows = DOMAIN d.rows /\ rows[i] = row
      OBVIOUS
    <3> HIDE DEF rows
    <3>3. "rows" \in DOMAIN d
      BY DEF IsDocument
    <3>4. e.rows = rows
      BY <2>2, <3>3 DEF rows, row
    <3>5. n \in RowWords(e)
      BY <3>1, <3>2, <3>4 DEF RowWords, Retyped
    <3>6. QED
      BY <3>5 DEF BareTokens
  <2>3. QED
    BY <2>1, <2>2 DEF Retypings
<1>2. n \in Measurements(e)
  BY <1>1 DEF Measurements
<1>3. QED
  BY <1>2, ObjectsToMeasurement

-----------------------------------------------------------------------------
(* Damaged FSMs.                                                            *)

\* Replacing the states of the sections of one FSM replaces that FSM's states.
ReplacesStates(change, d, f, gone, come) ==
  \A s \in Sections(d) :
    change[s] = IF s.heading = "fsm" /\ s.name = f
                THEN [s EXCEPT !.states = (s.states \ gone) \cup come] ELSE s

LEMMA StatesReplaced ==
  ASSUME NEW d, IsText(d), Unambiguous(d), NEW f, NEW gone, NEW come, NEW change,
         ReplacesStates(change, d, f, gone, come),
         NEW e, e = WithSections(d, change)
  PROVE  /\ IsText(e) /\ Unambiguous(e) /\ Names(e, "fsm") = Names(d, "fsm")
         /\ f \in Names(d, "fsm") => ExtractFsms(e)[f] = (ExtractFsms(d)[f] \ gone) \cup come
         /\ \A g \in Names(d, "fsm") \ {f} : ExtractFsms(e)[g] = ExtractFsms(d)[g]
<1>1. /\ Sections(e) = { change[s] : s \in Sections(d) }
      /\ {"sections", "rows", "count"} \subseteq DOMAIN e
  BY ChangedSections
<1>2. ASSUME NEW s \in Sections(d)
      PROVE  /\ Fields(change[s]) /\ change[s].heading = s.heading /\ change[s].name = s.name
             /\ change[s].states = IF s.heading = "fsm" /\ s.name = f THEN (s.states \ gone) \cup come
                                   ELSE s.states
  <2>1. Fields(s)
    BY DEF IsText
  <2>2. PICK states : states = (s.states \ gone) \cup come
    OBVIOUS
  <2>3. change[s] = IF s.heading = "fsm" /\ s.name = f THEN [s EXCEPT !.states = states] ELSE s
    BY <2>2 DEF ReplacesStates
  <2>4. CASE s.heading = "fsm" /\ s.name = f
    BY <2>1, <2>2, <2>3, <2>4 DEF Fields
  <2>5. CASE ~(s.heading = "fsm" /\ s.name = f)
    BY <2>1, <2>3, <2>5
  <2>6. QED
    BY <2>4, <2>5
<1>3. IsText(e)
  BY <1>1, <1>2 DEF IsText
<1>4. Unambiguous(e)
  <2>1. ASSUME NEW s \in Sections(d), NEW t \in Sections(d), change[s].heading = "fsm",
               change[t].heading = "fsm", change[s].name = change[t].name
        PROVE  change[s].states = change[t].states
    <3>1. s.heading = "fsm" /\ t.heading = "fsm" /\ s.name = t.name
      BY <1>2, <2>1
    <3>2. s.states = t.states
      BY <3>1 DEF Unambiguous
    <3>3. QED
      BY <1>2, <3>1, <3>2
  <2>2. QED
    BY <1>1, <2>1 DEF Unambiguous
<1>5. Names(e, "fsm") = Names(d, "fsm")
  <2>1. \A h : (h \in Names(e, "fsm") <=> \E s \in Sections(d) : change[s].heading = "fsm" /\ change[s].name = h)
    BY <1>1, NamesBySection
  <2>2. \A h : (h \in Names(d, "fsm") <=> \E s \in Sections(d) : s.heading = "fsm" /\ s.name = h)
    BY NamesBySection
  <2>3. \A s \in Sections(d) : change[s].heading = s.heading /\ change[s].name = s.name
    BY <1>2
  <2>4. \A h : h \in Names(e, "fsm") <=> h \in Names(d, "fsm")
    BY <2>1, <2>2, <2>3
  <2>5. QED
    BY <2>4
<1>6. ASSUME NEW g \in Names(d, "fsm")
      PROVE  /\ g = f => ExtractFsms(e)[g] = (ExtractFsms(d)[g] \ gone) \cup come
             /\ g # f => ExtractFsms(e)[g] = ExtractFsms(d)[g]
  <2>1. PICK s \in Sections(d) : s.heading = "fsm" /\ s.name = g
    BY NamesBySection
  <2>2. ExtractFsms(d)[g] = s.states
    BY <2>1, FsmsBySection
  <2>3. change[s] \in Sections(e) /\ change[s].heading = "fsm" /\ change[s].name = g
    BY <1>1, <1>2, <2>1
  <2>4. ExtractFsms(e)[g] = change[s].states
    BY <1>4, <2>3, FsmsBySection
  <2>5. QED
    BY <1>2, <2>1, <2>2, <2>4
<1>7. QED
  BY <1>3, <1>4, <1>5, <1>6

LEMMA StateComes ==
  ASSUME NEW d, IsText(d), Unambiguous(d), NEW f, NEW x
  PROVE  LET e == WithState(d, f, x)
         IN /\ IsText(e) /\ Unambiguous(e) /\ Names(e, "fsm") = Names(d, "fsm")
            /\ f \in Names(d, "fsm") => ExtractFsms(e)[f] = ExtractFsms(d)[f] \cup {x}
            /\ \A g \in Names(d, "fsm") \ {f} : ExtractFsms(e)[g] = ExtractFsms(d)[g]
<1> DEFINE change == [s \in Sections(d) |->
                        IF s.heading = "fsm" /\ s.name = f THEN [s EXCEPT !.states = s.states \cup {x}] ELSE s]
<1>1. PICK e : e = WithState(d, f, x)
  OBVIOUS
<1>2. e = WithSections(d, change)
  BY <1>1 DEF WithState
<1>3. PICK gone, come : gone = {} /\ come = {x}
  OBVIOUS
<1>4. \A old : (old \ gone) \cup come = old \cup {x}
  BY <1>3
<1>5. ReplacesStates(change, d, f, gone, come)
  BY <1>4 DEF ReplacesStates
<1> HIDE DEF change
<1>6. /\ IsText(e) /\ Unambiguous(e) /\ Names(e, "fsm") = Names(d, "fsm")
      /\ f \in Names(d, "fsm") => ExtractFsms(e)[f] = (ExtractFsms(d)[f] \ gone) \cup come
      /\ \A g \in Names(d, "fsm") \ {f} : ExtractFsms(e)[g] = ExtractFsms(d)[g]
  BY <1>2, <1>5, StatesReplaced
<1>7. QED
  BY <1>1, <1>4, <1>6

LEMMA StateGoes ==
  ASSUME NEW d, IsText(d), Unambiguous(d), NEW f, NEW x
  PROVE  LET e == WithoutState(d, f, x)
         IN /\ IsText(e) /\ Unambiguous(e) /\ Names(e, "fsm") = Names(d, "fsm")
            /\ f \in Names(d, "fsm") => ExtractFsms(e)[f] = ExtractFsms(d)[f] \ {x}
            /\ \A g \in Names(d, "fsm") \ {f} : ExtractFsms(e)[g] = ExtractFsms(d)[g]
<1> DEFINE change == [s \in Sections(d) |->
                        IF s.heading = "fsm" /\ s.name = f THEN [s EXCEPT !.states = s.states \ {x}] ELSE s]
<1>1. PICK e : e = WithoutState(d, f, x)
  OBVIOUS
<1>2. e = WithSections(d, change)
  BY <1>1 DEF WithoutState
<1>3. PICK gone, come : gone = {x} /\ come = {}
  OBVIOUS
<1>4. \A old : (old \ gone) \cup come = old \ {x}
  BY <1>3
<1>5. ReplacesStates(change, d, f, gone, come)
  BY <1>4 DEF ReplacesStates
<1> HIDE DEF change
<1>6. /\ IsText(e) /\ Unambiguous(e) /\ Names(e, "fsm") = Names(d, "fsm")
      /\ f \in Names(d, "fsm") => ExtractFsms(e)[f] = (ExtractFsms(d)[f] \ gone) \cup come
      /\ \A g \in Names(d, "fsm") \ {f} : ExtractFsms(e)[g] = ExtractFsms(d)[g]
  BY <1>2, <1>5, StatesReplaced
<1>7. QED
  BY <1>1, <1>4, <1>6

LEMMA InventedStateIsNoticed ==
  ASSUME NEW a, NEW d, IsDocument(d), NEW e \in InventedStates(a, d)
  PROVE  ~Passes(a, e)
<1>1. "GHOST" \notin BareTokens(a) \cup DOMAIN Parts \cup Mode
  BY DEF InventedStates
<1>2. PICK f \in Names(d, "fsm") : e = WithState(d, f, "GHOST")
  BY <1>1 DEF InventedStates
<1>3. Unambiguous(e) /\ f \in Names(e, "fsm") /\ "GHOST" \in ExtractFsms(e)[f]
  <2>1. IsText(d) /\ Unambiguous(d)
    BY SectionsAre
  <2>2. ExtractFsms(e)[f] = ExtractFsms(d)[f] \cup {"GHOST"}
    BY <1>2, <2>1, StateComes
  <2>3. Unambiguous(e) /\ Names(e, "fsm") = Names(d, "fsm")
    BY <1>2, <2>1, StateComes
  <2>4. QED
    BY <2>2, <2>3
<1>4. PICK t \in Sections(e) : t.heading = "fsm" /\ t.name = f
  BY <1>3, NamesBySection
<1>5. "GHOST" \in t.states
  BY <1>3, <1>4, FsmsBySection
<1>6. "GHOST" \in Identifiers(e) \ Mode
  BY <1>1, <1>5 DEF Identifiers
<1>7. ~IsGrounded("GHOST", BareTokens(a))
  BY <1>1 DEF IsGrounded
<1>8. QED
  BY <1>6, <1>7, ObjectsToName

\* A state in the wrong FSM: the FSM that gained it had, before, the states the
\* author listed.
LEMMA MovedStateIsNoticed ==
  ASSUME NEW a, NEW d, IsDocument(d), Passes(a, d), NEW e \in MovedStates(a, d)
  PROVE  ~Passes(a, e)
<1> DEFINE listed == { f \in Names(a, "fsm") \cap Names(d, "fsm") :
                         ExtractFsms(a)[f] # {} /\ ExtractFsms(d)[f] # {} }
<1>1. PICK m \in listed \X listed \X UNION { ExtractFsms(d)[h] : h \in listed } :
        /\ m[3] \in ExtractFsms(d)[m[1]] \ ExtractFsms(d)[m[2]]
        /\ e = WithState(WithoutState(d, m[1], m[3]), m[2], m[3])
  BY DEF MovedStates
<1>2. PICK f, g, x :
        /\ f \in listed /\ g \in listed /\ x \in ExtractFsms(d)[f] \ ExtractFsms(d)[g]
        /\ e = WithState(WithoutState(d, f, x), g, x)
  <2>1. m[1] \in listed /\ m[2] \in listed
    BY <1>1
  <2> HIDE DEF listed
  <2>2. QED
    BY <1>1, <2>1
<1>3. PICK mid : mid = WithoutState(d, f, x)
  OBVIOUS
<1>4. /\ IsText(mid) /\ Unambiguous(mid) /\ Names(mid, "fsm") = Names(d, "fsm")
      /\ ExtractFsms(mid)[g] = ExtractFsms(d)[g]
  <2>1. IsText(d) /\ Unambiguous(d)
    BY SectionsAre
  <2>2. g \in Names(d, "fsm") \ {f}
    BY <1>2
  <2>3. QED
    BY <1>3, <2>1, <2>2, StateGoes
<1>5. Names(e, "fsm") = Names(d, "fsm") /\ ExtractFsms(e)[g] = ExtractFsms(d)[g] \cup {x}
  <2>1. e = WithState(mid, g, x)
    BY <1>2, <1>3
  <2>2. g \in Names(mid, "fsm")
    BY <1>2, <1>4
  <2>3. ExtractFsms(e)[g] = ExtractFsms(mid)[g] \cup {x} /\ Names(e, "fsm") = Names(mid, "fsm")
    BY <1>4, <2>1, <2>2, StateComes
  <2>4. QED
    BY <1>4, <2>3
<1>6. ExtractFsms(a)[g] = ExtractFsms(d)[g]
  BY <1>2, ObjectsToStates
<1>7. QED
  BY <1>2, <1>5, <1>6, ObjectsToStates

\* A document heads finitely many FSMs.
LEMMA FiniteFsms ==
  ASSUME NEW d, IsDocument(d)
  PROVE  IsFiniteSet(Names(d, "fsm"))
<1> DEFINE headed == Headed(d, "fsm")
           name == [i \in headed |-> d.sections[i].name]
<1>1. IsFiniteSet(headed)
  <2>1. d.sections \in Seq(Sections(d))
    BY DEF IsDocument
  <2>2. DOMAIN d.sections = 1 .. Len(d.sections) /\ Len(d.sections) \in Nat
    BY <2>1, LenProperties
  <2>3. IsFiniteSet(1 .. Len(d.sections))
    BY <2>2, FS_Interval
  <2>4. headed \subseteq 1 .. Len(d.sections)
    BY <2>2 DEF Headed
  <2>5. QED
    BY <2>3, <2>4, FS_Subset
<1>2. name \in Surjection(headed, Names(d, "fsm"))
  BY DEF Surjection, Names
<1>3. QED
  BY <1>1, <1>2, FS_Surjection

LEMMA LostFsmIsNoticed ==
  ASSUME NEW a, NEW d, IsDocument(d), Passes(a, d), NEW e \in LostFsms(a, d)
  PROVE  ~Passes(a, e)
<1>1. PICK f \in Names(a, "fsm") \cap Names(d, "fsm") :
        (d.count = None \/ Names(d, "fsm") # {f}) /\ e = AsProse(d, f)
  BY DEF LostFsms
<1> DEFINE change == [s \in Sections(d) |->
                        IF s.heading = "fsm" /\ s.name = f
                        THEN [s EXCEPT !.heading = "plain", !.states = {}, !.text = s.text \cup s.states] ELSE s]
<1>2. e = WithSections(d, change)
  BY <1>1 DEF AsProse
<1>3. ASSUME NEW s \in Sections(d)
      PROVE  /\ s.heading = "fsm" /\ s.name = f => change[s].heading = "plain"
             /\ ~(s.heading = "fsm" /\ s.name = f) => change[s] = s
  <2>1. Fields(s)
    BY SectionsAre DEF IsText
  <2>2. \A x, y : [s EXCEPT !.heading = "plain", !.states = x, !.text = y].heading = "plain"
    BY <2>1 DEF Fields
  <2>3. QED
    BY <2>2
<1> HIDE DEF change
<1>4. Sections(e) = { change[s] : s \in Sections(d) } /\ e.count = d.count
  BY <1>2, SectionsAre, ChangedSections
<1>5. Names(e, "fsm") = Names(d, "fsm") \ {f}
  <2>1. \A h : (h \in Names(e, "fsm") <=> \E s \in Sections(d) : change[s].heading = "fsm" /\ change[s].name = h)
    BY <1>4, NamesBySection
  <2>2. \A h : (h \in Names(d, "fsm") <=> \E s \in Sections(d) : s.heading = "fsm" /\ s.name = h)
    BY NamesBySection
  <2>3. \A h : h \in Names(e, "fsm") <=> h \in Names(d, "fsm") \ {f}
    BY <1>3, <2>1, <2>2
  <2>4. QED
    BY <2>3
<1>6. CASE Names(e, "fsm") # {}
  BY <1>1, <1>5, <1>6, ObjectsToLostFsm
<1>7. CASE Names(e, "fsm") = {}
  <2>1. Names(d, "fsm") = {f} /\ d.count = None
    BY <1>1, <1>5, <1>7
  <2>2. ExtractFsmCount(d) = 1 /\ ExtractFsmCount(e) = 0
    <3>1. Cardinality({f}) = 1 /\ Cardinality({}) = 0
      BY FS_Singleton, FS_EmptySet
    <3>2. QED
      BY <1>4, <1>7, <2>1, <3>1 DEF ExtractFsmCount
  <2>3. ExtractFsmCount(a) = ExtractFsmCount(d)
    BY <1>1, ObjectsToCount
  <2>4. QED
    BY <1>1, <2>2, <2>3, ObjectsToCount
<1>8. QED
  BY <1>6, <1>7

-----------------------------------------------------------------------------
(* The best of finitely many shares.                                        *)

LEMMA LeastNat ==
  ASSUME NEW T, T \subseteq Nat, T # {}
  PROVE  \E n \in T : \A m \in T : n <= m
<1>1. PICK n \in T : \A m \in T : ~ (<<m, n>> \in OpToRel(<, Nat))
  BY NatLessThanWellFounded, WFMin
<1>2. ASSUME NEW m \in T
      PROVE  n <= m
  <2>1. <<m, n>> \notin OpToRel(<, Nat)
    BY <1>1
  <2>2. ~ (m < n)
    BY <2>1 DEF OpToRel
  <2>3. QED
    BY <2>2
<1>3. QED
  BY <1>2

\* Sizes compare as their multiples do.
LEMMA Multiples ==
  ASSUME NEW m \in Nat, NEW n \in Nat, NEW k \in Nat \ {0}
  PROVE  /\ m <= n <=> m * k <= n * k
         /\ m < n <=> m * k < n * k
         /\ m * k \in Nat /\ m * k = k * m
<1>1. ASSUME NEW x \in Nat, NEW y \in Nat, x < y
      PROVE  x * k < y * k
  <2>1. PICK z \in Nat \ {0} : y = x + z
    <3>1. y - x \in Nat \ {0} /\ y = x + (y - x)
      BY <1>1
    <3>2. QED
      BY <3>1
  <2>2. y * k = x * k + z * k
    BY <2>1
  <2>3. z * k > 0
    OBVIOUS
  <2>4. x * k \in Nat /\ z * k \in Nat
    OBVIOUS
  <2>5. QED
    BY <2>2, <2>3, <2>4
<1>2. m * k \in Nat /\ n * k \in Nat /\ m * k = k * m
  OBVIOUS
<1>3. QED
  BY <1>1, <1>2

\* p of x is at least q of y, and that at least r of z.
LEMMA SharesAreOrdered ==
  ASSUME NEW p \in Nat, NEW q \in Nat, NEW r \in Nat,
         NEW x \in Nat \ {0}, NEW y \in Nat \ {0}, NEW z \in Nat \ {0},
         p * y >= q * x, q * z >= r * y
  PROVE  /\ p * z >= r * x
         /\ p * y > q * x \/ q * z > r * y => p * z > r * x
<1> DEFINE py == p * y
           qx == q * x
           qz == q * z
           ry == r * y
           pz == p * z
           rx == r * x
<1>1. py \in Nat /\ qx \in Nat /\ qz \in Nat /\ ry \in Nat /\ pz \in Nat /\ rx \in Nat
  BY Multiples
<1>2. py * z = pz * y /\ qx * z = qz * x /\ ry * x = rx * y
  OBVIOUS
<1>3. py >= qx /\ qz >= ry
  OBVIOUS
<1> HIDE DEF py, qx, qz, ry, pz, rx
<1>4. /\ py * z >= qx * z /\ qz * x >= ry * x
      /\ py > qx => py * z > qx * z
      /\ qz > ry => qz * x > ry * x
      /\ py * z \in Nat /\ qx * z \in Nat /\ qz * x \in Nat /\ ry * x \in Nat
  BY <1>1, <1>3, Multiples
<1>5. /\ pz * y >= rx * y
      /\ py > qx \/ qz > ry => pz * y > rx * y
      /\ pz * y \in Nat /\ rx * y \in Nat
  BY <1>2, <1>4
<1>6. pz >= rx /\ (py > qx \/ qz > ry => pz > rx)
  BY <1>1, <1>5, Multiples
<1>7. QED
  BY <1>6 DEF py, qx, qz, ry, pz, rx

\* Among finitely many shares there is one that no other exceeds, and that the
\* first of those.
LEMMA BestShare ==
  ASSUME NEW C, IsFiniteSet(C), C # {}, C \subseteq Nat,
         NEW share \in [C -> Nat], NEW whole \in [C -> Nat \ {0}]
  PROVE  \E i \in C : \A j \in C :
           /\ ~(share[j] * whole[i] > share[i] * whole[j])
           /\ j < i => share[i] * whole[j] > share[j] * whole[i]
<1> DEFINE Exceeds(j, i) == share[j] * whole[i] > share[i] * whole[j]
           Better(j, i) == Exceeds(j, i) \/ (~Exceeds(i, j) /\ j < i)
           above(i) == { j \in C : Better(j, i) }
           sizes == { Cardinality(above(i)) : i \in C }
<1>1. \A i \in C : IsFiniteSet(above(i)) /\ Cardinality(above(i)) \in Nat
  <2>1. ASSUME NEW i \in C
        PROVE  IsFiniteSet(above(i)) /\ Cardinality(above(i)) \in Nat
    <3>1. above(i) \subseteq C
      OBVIOUS
    <3> HIDE DEF above
    <3>2. QED
      BY <3>1, FS_Subset, FS_CardinalityType
  <2>2. QED
    BY <2>1
<1>2. \A i, j \in C : share[j] * whole[i] \in Nat /\ share[j] \in Nat /\ whole[i] \in Nat \ {0}
  BY Multiples
<1>3. ASSUME NEW i \in C, NEW j \in C, NEW k \in C, Better(k, j), Better(j, i)
      PROVE  Better(k, i)
  <2>1. share[k] * whole[j] >= share[j] * whole[k] /\ share[j] * whole[i] >= share[i] * whole[j]
    BY <1>2, <1>3
  <2>2. /\ share[k] * whole[i] >= share[i] * whole[k]
        /\ Exceeds(k, j) \/ Exceeds(j, i) => Exceeds(k, i)
    BY <1>2, <2>1, SharesAreOrdered
  <2>3. CASE Exceeds(k, j) \/ Exceeds(j, i)
    BY <2>2, <2>3
  <2>4. CASE ~(Exceeds(k, j) \/ Exceeds(j, i))
    <3>1. k < j /\ j < i
      BY <1>3, <2>4
    <3>2. k < i
      BY <3>1
    <3>3. ~Exceeds(i, k)
      BY <1>2, <2>2
    <3>4. QED
      BY <3>2, <3>3
  <2>5. QED
    BY <2>3, <2>4
<1>4. \A i \in C : ~Better(i, i)
  BY <1>2
<1> HIDE DEF Exceeds, Better
<1>5. PICK n \in sizes : \A m \in sizes : n <= m
  <2>1. sizes \subseteq Nat /\ sizes # {}
    BY <1>1
  <2> HIDE DEF sizes
  <2>2. QED
    BY <2>1, LeastNat
<1>6. PICK i \in C : n = Cardinality(above(i))
  OBVIOUS
<1>7. ASSUME NEW j \in C, Better(j, i)
      PROVE  FALSE
  <2>1. above(j) \subseteq above(i) /\ j \in above(i) /\ j \notin above(j)
    BY <1>3, <1>4, <1>7
  <2>2. Cardinality(above(i)) <= Cardinality(above(j))
    BY <1>5, <1>6
  <2>3. PICK most, fewer :
          /\ most = above(i) /\ fewer = above(j) /\ IsFiniteSet(most)
          /\ Cardinality(most) \in Nat /\ Cardinality(fewer) \in Nat
    BY <1>1
  <2> HIDE DEF above
  <2>4. fewer \in SUBSET most /\ fewer # most /\ Cardinality(most) <= Cardinality(fewer)
    BY <2>1, <2>2, <2>3
  <2>5. Cardinality(fewer) <= Cardinality(most) /\ (Cardinality(most) = Cardinality(fewer) => most = fewer)
    BY <2>3, <2>4, FS_Subset
  <2>6. QED
    BY <2>3, <2>4, <2>5
<1>8. ASSUME NEW j \in C
      PROVE  ~Exceeds(j, i) /\ (j < i => Exceeds(i, j))
  BY <1>7 DEF Better
<1>9. QED
  BY <1>8 DEF Exceeds

-----------------------------------------------------------------------------
(* Finite texts.                                                            *)

LEMMA FiniteTokens ==
  ASSUME NEW words, IsFiniteSet(words)
  PROVE  IsFiniteSet(ContentTokens(words))
<1> DEFINE split(w) == IF w \in DOMAIN Parts THEN Parts[w] ELSE {w}
           splits == { split(w) : w \in words }
           f == [w \in words |-> split(w)]
<1>1. f \in Surjection(words, splits)
  BY DEF Surjection
<1>2. IsFiniteSet(splits)
  <2> HIDE DEF f, splits
  <2>1. QED
    BY <1>1, FS_Surjection
<1>3. \A T \in splits : IsFiniteSet(T)
  <2>1. \A w : IsFiniteSet({w})
    BY FS_Singleton
  <2>2. QED
    BY <2>1, DocumentAssumption
<1>4. IsFiniteSet(UNION splits)
  <2> HIDE DEF splits
  <2>1. QED
    BY <1>2, <1>3, FS_UNION
<1>5. QED
  BY <1>4 DEF ContentTokens

LEMMA MoreTokens ==
  ASSUME NEW few, NEW many, few \subseteq many
  PROVE  ContentTokens(few) \subseteq ContentTokens(many)
BY DEF ContentTokens

LEMMA FiniteWords ==
  ASSUME NEW s, IsFiniteSet(s.text), IsFiniteSet(s.states), IsFiniteSet(s.wait.points)
  PROVE  IsFiniteSet(BodyWords(s)) /\ IsFiniteSet(SectionTokens(s))
<1>1. IsFiniteSet({"wait", "model"}) /\ IsFiniteSet({s.wait.mode}) /\ IsFiniteSet({})
  <2>1. IsFiniteSet({"wait"} \cup {"model"})
    BY FS_Singleton, FS_Union
  <2>2. {"wait"} \cup {"model"} = {"wait", "model"}
    OBVIOUS
  <2>3. QED
    BY <2>1, <2>2, FS_Singleton, FS_EmptySet
<1>2. IsFiniteSet(({s.wait.mode} \cup s.wait.points) \ {None})
  <2>1. IsFiniteSet({s.wait.mode} \cup s.wait.points)
    BY <1>1, FS_Union
  <2>2. QED
    BY <2>1, FS_Difference
<1>3. IsFiniteSet({"wait", "model"} \cup (({s.wait.mode} \cup s.wait.points) \ {None}))
  BY <1>1, <1>2, FS_Union
<1>4. IsFiniteSet(WaitWords(s.wait))
  BY <1>1, <1>3 DEF WaitWords
<1>5. IsFiniteSet(s.text \cup s.states)
  BY FS_Union
<1>6. IsFiniteSet(BodyWords(s))
  BY <1>4, <1>5, FS_Union DEF BodyWords
<1>7. QED
  BY <1>6, FiniteTokens DEF SectionTokens

LEMMA FiniteSection ==
  ASSUME NEW d, IsDocument(d), NEW s \in Sections(d)
  PROVE  /\ IsFiniteSet(s.title) /\ IsFiniteSet(s.text) /\ IsFiniteSet(s.states)
         /\ IsFiniteSet(s.wait.points) /\ IsFiniteSet(BodyWords(s)) /\ IsFiniteSet(SectionTokens(s))
<1>1. IsSection(s)
  BY SectionsAre
<1>2. /\ IsFiniteSet(s.title) /\ IsFiniteSet(s.text) /\ IsFiniteSet(s.states)
      /\ IsFiniteSet(s.wait.points)
  BY <1>1 DEF IsSection
<1>3. QED
  BY <1>2, FiniteWords

\* Sizes of what two sets share.
LEMMA SharedSize ==
  ASSUME NEW S, IsFiniteSet(S), NEW T
  PROVE  /\ Cardinality(S \cap T) \in Nat /\ Cardinality(T \cap S) \in Nat /\ Cardinality(S) \in Nat
         /\ Cardinality(S \cap T) <= Cardinality(S) /\ Cardinality(T \cap S) <= Cardinality(S)
         /\ Cardinality(S \ T) = Cardinality(S) - Cardinality(S \cap T)
         /\ Cardinality(S) = 0 => S = {}
<1>1. IsFiniteSet(S \cap T) /\ IsFiniteSet(T \cap S)
  BY FS_Intersection
<1>2. Cardinality(S) = 0 => S = {}
  BY FS_EmptySet
<1>3. QED
  BY <1>1, <1>2, FS_Intersection, FS_CardinalityType, FS_Difference

-----------------------------------------------------------------------------
(* Damaged sections.                                                        *)

LEMMA LostParagraphIsNoticed ==
  ASSUME NEW a, IsDocument(a), NEW d, IsDocument(d), NEW e \in LostParagraphs(a, d)
  PROVE  ~Passes(a, e)
<1>1. PICK t \in Sections(d) :
        /\ e = WithoutText(d, t)
        /\ \E u \in Sections(a) : u.text = t.text
        /\ IsApart(ContentTokens(t.text), ContentBlocks(WithoutText(d, t)) \cup HeadingBlocks(d))
  BY DEF LostParagraphs
<1>2. PICK u \in Sections(a) : u.text = t.text
  BY <1>1
<1>3. PICK c : c = ContentTokens(u.text) /\ c = ContentTokens(t.text)
  BY <1>2
<1>4. HeadingBlocks(e) = HeadingBlocks(d)
  <2> DEFINE change == [s \in Sections(d) |-> IF s = t THEN [s EXCEPT !.text = {}] ELSE s]
  <2>1. e = WithSections(d, change)
    BY <1>1 DEF WithoutText
  <2>2. \A s \in Sections(d) : change[s].title = s.title
    <3>1. ASSUME NEW s \in Sections(d)
          PROVE  change[s].title = s.title
      <4>1. Fields(s)
        BY SectionsAre DEF IsText
      <4>2. QED
        BY <4>1 DEF Fields
    <3>2. QED
      BY <3>1
  <2> HIDE DEF change
  <2>3. Sections(e) = { change[s] : s \in Sections(d) }
    BY <2>1, SectionsAre, ChangedSections
  <2>4. QED
    BY <2>2, <2>3 DEF HeadingBlocks
<1>5. PICK blocks : blocks = ContentBlocks(e) \cup HeadingBlocks(e)
  OBVIOUS
<1>6. /\ 3 * Cardinality(c \ UNION blocks) >= Cardinality(c)
      /\ \A b \in blocks : 2 * Cardinality(c \cap b) < Cardinality(c)
  BY <1>1, <1>3, <1>4, <1>5 DEF IsApart
<1>7. IsFiniteSet(c)
  BY <1>3, FiniteSection, FiniteTokens
<1>8. Cardinality(c) > 0
  <2>1. PICK b \in blocks : b = ContentTokens(t.title)
    BY <1>4, <1>5 DEF HeadingBlocks
  <2>2. Cardinality(c \cap b) \in Nat /\ Cardinality(c) \in Nat
    BY <1>7, SharedSize
  <2>3. 2 * Cardinality(c \cap b) < Cardinality(c)
    BY <1>6
  <2>4. QED
    BY <2>2, <2>3
<1>9. c \in ContentBlocks(a)
  <2>1. c # {}
    BY <1>8, FS_EmptySet
  <2>2. c \in { ContentTokens(w) : w \in {u.text, u.states, WaitWords(u.wait)} }
    BY <1>3
  <2>3. QED
    BY <1>2, <2>1, <2>2 DEF ContentBlocks
<1>10. \A b \in blocks : 10 * Cardinality(c \cap b) < 6 * Cardinality(c)
  <2>1. ASSUME NEW b \in blocks
        PROVE  10 * Cardinality(c \cap b) < 6 * Cardinality(c)
    <3>1. Cardinality(c \cap b) \in Nat /\ Cardinality(c) \in Nat
      BY <1>7, SharedSize
    <3>2. 2 * Cardinality(c \cap b) < Cardinality(c)
      BY <1>6
    <3>3. QED
      BY <3>1, <3>2
  <2>2. QED
    BY <2>1
<1>11. 10 * Cardinality(c \cap UNION blocks) < 9 * Cardinality(c)
  <2>1. /\ Cardinality(c \cap UNION blocks) \in Nat /\ Cardinality(c) \in Nat
        /\ Cardinality(c \ UNION blocks) = Cardinality(c) - Cardinality(c \cap UNION blocks)
    BY <1>7, SharedSize
  <2>2. QED
    BY <1>6, <1>8, <2>1
<1>12. QED
  BY <1>5, <1>9, <1>10, <1>11, ObjectsToLostBlock

LEMMA LeastOfTwo ==
  ASSUME NEW m \in Nat, NEW n \in Nat
  PROVE  /\ Min({m, n}) \in Nat /\ Min({m, n}) \in {m, n}
         /\ Min({m, n}) <= m /\ Min({m, n}) <= n
<1>1. \E x \in {m, n} : \A y \in {m, n} : x <= y
  OBVIOUS
<1>2. Min({m, n}) \in {m, n} /\ \A y \in {m, n} : Min({m, n}) <= y
  BY <1>1 DEF Min
<1>3. QED
  BY <1>2

\* What a section's score says of words, of which n of the size are shared, and of
\* k headings.
LEMMA ScoreIs ==
  ASSUME NEW title, IsFiniteSet(title), NEW wanted, IsFiniteSet(wanted), wanted # {},
         NEW s, IsFiniteSet(SectionTokens(s)), SectionTokens(s) # {}
  PROVE  LET size == Min({Cardinality(wanted), Cardinality(SectionTokens(s))})
             n == Cardinality(wanted \cap SectionTokens(s))
             k == Cardinality(title \cap s.title)
             m == MatchScore(title, wanted, s)
         IN /\ size \in Nat \ {0} /\ n \in Nat /\ k \in Nat /\ n <= size
            /\ m.over = 10 * size /\ m.score = 10 * n + size * k
            /\ m.over \in Nat \ {0} /\ m.score \in Nat
            /\ SectionTokens(s) \subseteq wanted => n = size
<1> DEFINE tokens == SectionTokens(s)
           size == Min({Cardinality(wanted), Cardinality(tokens)})
           n == Cardinality(wanted \cap tokens)
           k == Cardinality(title \cap s.title)
           m == MatchScore(title, wanted, s)
<1>1. /\ Cardinality(wanted) \in Nat \ {0} /\ Cardinality(tokens) \in Nat \ {0}
      /\ n \in Nat /\ k \in Nat /\ n <= Cardinality(wanted) /\ n <= Cardinality(tokens)
  BY SharedSize
<1>2. size \in Nat /\ size \in {Cardinality(wanted), Cardinality(tokens)}
      /\ size <= Cardinality(wanted) /\ size <= Cardinality(tokens)
  BY <1>1, LeastOfTwo
<1>3. m.over = 10 * size /\ m.score = 10 * n + size * k
  BY DEF MatchScore
<1>4. tokens \subseteq wanted => n = size
  <2> SUFFICES ASSUME tokens \subseteq wanted
               PROVE  n = size
    OBVIOUS
  <2>1. wanted \cap tokens = tokens
    OBVIOUS
  <2>2. n = Cardinality(tokens)
    BY <2>1
  <2> HIDE DEF n, tokens, size
  <2>3. QED
    BY <1>1, <1>2, <2>2
<1> HIDE DEF tokens, size, n, k, m
<1>5. size \in Nat \ {0} /\ n <= size
  BY <1>1, <1>2
<1>6. size * k \in Nat
  BY <1>1, <1>5
<1>7. m.over \in Nat \ {0} /\ m.score \in Nat
  BY <1>1, <1>3, <1>5, <1>6
<1>8. QED
  BY <1>1, <1>3, <1>4, <1>5, <1>7 DEF tokens, size, n, k, m

\* Of two sections, the first with all its words shared: if the second is not
\* exceeded by the first, it shares at least as many words of the heading, and
\* enough of its own.
LEMMA ScoresCompare ==
  ASSUME NEW size \in Nat \ {0}, NEW k \in Nat,
         NEW other \in Nat \ {0}, NEW n \in Nat, n <= other, NEW l \in Nat,
         NEW p, p = 10 * size + size * k, NEW q, q = 10 * n + other * l,
         ~(p * (10 * other) > q * (10 * size))
  PROVE  k <= l /\ q >= 10 * other
<1>1. p = size * (10 + k) /\ p \in Nat /\ q \in Nat
  <2>1. size * (10 + k) = 10 * size + size * k /\ size * k \in Nat /\ other * l \in Nat
    OBVIOUS
  <2>2. QED
    BY <2>1
<1>2. p * (10 * other) = ((10 + k) * other) * (10 * size) /\ (10 + k) * other \in Nat
  BY <1>1
<1>3. (10 + k) * other <= q
  <2>1. PICK x \in Nat : x = (10 + k) * other
    BY <1>2
  <2>2. PICK y \in Nat \ {0} : y = 10 * size
    OBVIOUS
  <2>3. ~(x * y > q * y)
    BY <1>2, <2>1, <2>2
  <2>4. x * y \in Nat /\ q * y \in Nat /\ (q < x <=> q * y < x * y)
    BY <1>1, Multiples
  <2>5. ~(q < x)
    BY <2>3, <2>4
  <2>6. QED
    BY <1>1, <2>1, <2>5
<1>4. q <= (10 + l) * other
  <2>1. (10 + l) * other = 10 * other + other * l /\ other * l \in Nat
    OBVIOUS
  <2>2. QED
    BY <2>1
<1>5. k <= l
  <2>1. (10 + k) * other <= (10 + l) * other
    <3>1. (10 + l) * other \in Nat
      OBVIOUS
    <3>2. QED
      BY <1>1, <1>2, <1>3, <1>4, <3>1
  <2>2. 10 + k <= 10 + l
    BY <2>1, Multiples
  <2>3. QED
    BY <2>2
<1>6. 10 * other <= (10 + k) * other
  <2>1. 10 \in Nat /\ 10 + k \in Nat /\ 10 <= 10 + k
    OBVIOUS
  <2>2. QED
    BY <2>1, Multiples
<1>7. QED
  <2>1. 10 * other \in Nat
    OBVIOUS
  <2>2. QED
    BY <1>1, <1>2, <1>3, <1>5, <1>6, <2>1

\* The section matched to words among which are all of section b's has as much of
\* the heading as section b.
LEMMA BestMatch ==
  ASSUME NEW a, IsDocument(a), NEW t, IsFiniteSet(SectionTokens(t)), IsFiniteSet(t.title),
         NEW b \in DOMAIN a.sections, SectionTokens(a.sections[b]) # {},
         SectionTokens(a.sections[b]) \subseteq SectionTokens(t)
  PROVE  /\ MatchSourceSection(t, a) # {}
         /\ \A i \in MatchSourceSection(t, a) :
              /\ i \in DOMAIN a.sections
              /\ Cardinality(t.title \cap a.sections[b].title) <= Cardinality(t.title \cap a.sections[i].title)
<1> DEFINE C == { i \in DOMAIN a.sections : SectionTokens(a.sections[i]) # {} }
           m(i) == MatchScore(t.title, SectionTokens(t), a.sections[i])
           share == [i \in C |-> m(i).score]
           whole == [i \in C |-> m(i).over]
           size(i) == Min({Cardinality(SectionTokens(t)), Cardinality(SectionTokens(a.sections[i]))})
           n(i) == Cardinality(SectionTokens(t) \cap SectionTokens(a.sections[i]))
           k(i) == Cardinality(t.title \cap a.sections[i].title)
           Exceeds(j, i) == share[j] * whole[i] > share[i] * whole[j]
           Unbeaten(i) == \A j \in C : ~Exceeds(j, i) /\ (j < i => Exceeds(i, j))
<1>1. MatchSourceSection(t, a) = { i \in C : Unbeaten(i) /\ 10 * share[i] >= 3 * whole[i] }
  BY DEF MatchSourceSection
<1>2. b \in C
  OBVIOUS
<1>3. ASSUME NEW i \in C
      PROVE  /\ size(i) \in Nat \ {0} /\ n(i) \in Nat /\ k(i) \in Nat /\ n(i) <= size(i)
             /\ whole[i] = 10 * size(i) /\ share[i] = 10 * n(i) + size(i) * k(i)
             /\ whole[i] \in Nat \ {0} /\ share[i] \in Nat
             /\ SectionTokens(a.sections[i]) \subseteq SectionTokens(t) => n(i) = size(i)
  <2>1. IsFiniteSet(SectionTokens(a.sections[i])) /\ SectionTokens(a.sections[i]) # {}
    BY SectionsAre, FiniteSection
  <2>2. SectionTokens(t) # {}
    OBVIOUS
  <2>3. share[i] = m(i).score /\ whole[i] = m(i).over
    OBVIOUS
  <2> HIDE DEF C, share, whole
  <2>4. PICK u, title, wanted : u = a.sections[i] /\ title = t.title /\ wanted = SectionTokens(t)
    OBVIOUS
  <2>5. IsFiniteSet(title) /\ IsFiniteSet(wanted) /\ wanted # {} /\ IsFiniteSet(SectionTokens(u)) /\ SectionTokens(u) # {}
    BY <2>1, <2>2, <2>4
  <2>6. PICK z, c, h, score :
          /\ z = Min({Cardinality(wanted), Cardinality(SectionTokens(u))})
          /\ c = Cardinality(wanted \cap SectionTokens(u)) /\ h = Cardinality(title \cap u.title)
          /\ score = MatchScore(title, wanted, u)
    OBVIOUS
  <2>7. /\ z \in Nat \ {0} /\ c \in Nat /\ h \in Nat /\ c <= z
        /\ score.over = 10 * z /\ score.score = 10 * c + z * h
        /\ score.over \in Nat \ {0} /\ score.score \in Nat
        /\ SectionTokens(u) \subseteq wanted => c = z
    <3>1. LET size_ == Min({Cardinality(wanted), Cardinality(SectionTokens(u))})
              n_ == Cardinality(wanted \cap SectionTokens(u))
              k_ == Cardinality(title \cap u.title)
              m_ == MatchScore(title, wanted, u)
          IN /\ size_ \in Nat \ {0} /\ n_ \in Nat /\ k_ \in Nat /\ n_ <= size_
             /\ m_.over = 10 * size_ /\ m_.score = 10 * n_ + size_ * k_
             /\ m_.over \in Nat \ {0} /\ m_.score \in Nat
             /\ SectionTokens(u) \subseteq wanted => n_ = size_
      BY <2>5, ScoreIs, Zenon
    <3>2. QED
      BY <2>6, <3>1, Zenon
  <2>8. z = size(i) /\ c = n(i) /\ h = k(i) /\ share[i] = score.score /\ whole[i] = score.over
    BY <2>3, <2>4, <2>6
  <2> HIDE DEF size, n, k, m
  <2>9. QED
    BY <2>4, <2>7, <2>8
<1>4. IsFiniteSet(C) /\ C \subseteq Nat
  <2>1. a.sections \in Seq(Sections(a))
    BY DEF IsDocument
  <2>2. DOMAIN a.sections = 1 .. Len(a.sections) /\ Len(a.sections) \in Nat
    BY <2>1, LenProperties
  <2>3. IsFiniteSet(1 .. Len(a.sections)) /\ C \subseteq 1 .. Len(a.sections)
    BY <2>2, FS_Interval
  <2>4. C \subseteq Nat
    BY <2>3
  <2> HIDE DEF C
  <2>5. QED
    BY <2>3, <2>4, FS_Subset
<1>5. share \in [C -> Nat] /\ whole \in [C -> Nat \ {0}]
  <2>1. share = [i \in C |-> share[i]] /\ whole = [i \in C |-> whole[i]]
    OBVIOUS
  <2> HIDE DEF share, whole, C
  <2>2. QED
    BY <1>3, <2>1
<1>6. ASSUME NEW i \in C, ~Exceeds(b, i)
      PROVE  k(b) <= k(i) /\ 10 * share[i] >= 3 * whole[i]
  <2>1. n(b) = size(b)
    BY <1>2, <1>3
  <2> HIDE DEF size, n, k, C, share, whole
  <2>2. share[b] = 10 * size(b) + size(b) * k(b) /\ whole[b] = 10 * size(b)
    BY <1>2, <1>3, <2>1
  <2>3. ~(share[b] * (10 * size(i)) > share[i] * (10 * size(b)))
    BY <1>3, <1>6, <2>2
  <2>4. k(b) <= k(i) /\ share[i] >= 10 * size(i)
    BY <1>2, <1>3, <2>2, <2>3, ScoresCompare
  <2>5. QED
    BY <1>3, <2>4
<1>7. PICK i \in C : Unbeaten(i)
  <2> HIDE DEF C, share, whole
  <2>1. QED
    BY <1>2, <1>4, <1>5, BestShare
<1>8. MatchSourceSection(t, a) # {}
  <2> HIDE DEF C, share, whole, Exceeds
  <2>1. QED
    BY <1>1, <1>2, <1>6, <1>7
<1>9. ASSUME NEW j \in MatchSourceSection(t, a)
      PROVE  j \in DOMAIN a.sections /\ k(b) <= k(j)
  <2>1. j \in C /\ ~Exceeds(b, j)
    <3> HIDE DEF C, share, whole, Exceeds
    <3>1. QED
      BY <1>1, <1>2, <1>9
  <2>2. QED
    BY <1>6, <2>1
<1>10. QED
  BY <1>8, <1>9

\* A wait model that nobody stated, in a section made of one that states no waiting.
LEMMA InventedWaitIsNoticed ==
  ASSUME NEW a, IsDocument(a), NEW d, IsDocument(d), NEW e \in InventedWaits(a, d)
  PROVE  ~Passes(a, e)
<1>1. PICK s \in Sections(d), t \in Sections(a), mode \in Mode :
        s.heading = "interface" /\ ~s.wait.block /\ IsMadeOf(s, t, a) /\ e = WithWait(d, s, mode)
  <2> DEFINE S == { s \in Sections(d) : /\ s.heading = "interface" /\ ~s.wait.block
                                         /\ \E t \in Sections(a) : IsMadeOf(s, t, a) }
  <2>1. PICK p \in S \X Mode : e = WithWait(d, p[1], p[2])
    BY DEF InventedWaits
  <2>2. p[1] \in S /\ p[2] \in Mode
    BY <2>1
  <2>3. QED
    BY <2>1, <2>2
<1> DEFINE wait == [block |-> TRUE, mode |-> mode, points |-> {}]
           change == [u \in Sections(d) |-> IF u = s THEN [u EXCEPT !.wait = wait] ELSE u]
<1>2. e = WithSections(d, change)
  BY <1>1 DEF WithWait
<1>3. PICK new : new = change[s]
  OBVIOUS
<1>4. new \in Sections(e)
  <2> HIDE DEF change
  <2>1. QED
    BY <1>2, <1>3, SectionsAre, ChangedSections
<1>5. /\ new.heading = s.heading /\ new.title = s.title /\ new.text = s.text /\ new.states = s.states
      /\ new.wait = wait
  <2>1. Fields(s)
    BY SectionsAre DEF IsText
  <2>2. new = [s EXCEPT !.wait = wait]
    BY <1>3
  <2> HIDE DEF change, wait
  <2>3. QED
    BY <2>1, <2>2, SectionFields
<1>6. new.wait.block /\ new.wait.points = {}
  BY <1>5
<1>7. IsFiniteSet(SectionTokens(new)) /\ IsFiniteSet(new.title)
  <2>1. IsFiniteSet(s.title) /\ IsFiniteSet(s.text) /\ IsFiniteSet(s.states)
    BY FiniteSection
  <2>2. IsFiniteSet(new.wait.points)
    BY <1>6, FS_EmptySet
  <2> HIDE DEF wait, change
  <2>3. QED
    BY <1>5, <2>1, <2>2, FiniteWords
<1>8. SectionTokens(s) \subseteq SectionTokens(new)
  <2>1. WaitWords(s.wait) = {}
    BY <1>1 DEF WaitWords
  <2>2. BodyWords(s) \subseteq BodyWords(new)
    BY <1>5, <2>1 DEF BodyWords
  <2>3. QED
    BY <2>2, MoreTokens DEF SectionTokens
<1>9. PICK i \in DOMAIN a.sections : t = a.sections[i]
  BY DEF Sections
<1>10. SectionTokens(t) # {} /\ SectionTokens(t) \subseteq SectionTokens(new)
  BY <1>1, <1>8 DEF IsMadeOf
<1>11. /\ MatchSourceSection(new, a) # {}
       /\ \A j \in MatchSourceSection(new, a) :
            /\ j \in DOMAIN a.sections
            /\ Cardinality(new.title \cap t.title) <= Cardinality(new.title \cap a.sections[j].title)
  BY <1>7, <1>9, <1>10, BestMatch
<1>12. ASSUME NEW j \in MatchSourceSection(new, a)
       PROVE  BodyWords(a.sections[j]) \cap Blocking = {}
  <2>1. PICK u \in Sections(a) : u = a.sections[j]
    BY <1>11, SectionsAre
  <2>2. Cardinality(s.title \cap t.title) <= Cardinality(s.title \cap u.title)
    BY <1>5, <1>11, <2>1
  <2>3. Cardinality(s.title \cap t.title) \in Nat /\ Cardinality(s.title \cap u.title) \in Nat
    BY FiniteSection, SharedSize
  <2>4. ~(Cardinality(s.title \cap u.title) < Cardinality(s.title \cap t.title))
    BY <2>2, <2>3
  <2>5. QED
    BY <1>1, <2>1, <2>4 DEF IsMadeOf
<1>13. QED
  BY <1>1, <1>4, <1>5, <1>6, <1>11, <1>12, ObjectsToWaitModel

\* Whatever word, name, measurement, state, FSM, wait model or paragraph a
\* passing normalized DLD is made to lose, to alter, to move or to make up, the
\* gate objects, for all documents.
THEOREM DamageIsNoticed ==
  ASSUME NEW a, IsDocument(a), NEW d, IsDocument(d), Passes(a, d), NEW e \in Damages(a, d)
  PROVE  ~Passes(a, e)
<1>1. CASE e \in LostWords(a, d)
  BY <1>1, WithoutIsNoticed DEF LostWords
<1>2. CASE e \in RetypedMeasures(a, d)
  <2>1. PICK p \in Measurements(d) \X (Measure \ Measurements(a)) : e \in Retypings(d, p[1], p[2])
    BY <1>2 DEF RetypedMeasures
  <2>2. p[2] \in Measure \ Measurements(a)
    BY <2>1
  <2>3. QED
    BY <2>1, <2>2, RetypingIsNoticed
<1>3. CASE e \in InventedStates(a, d)
  BY <1>3, InventedStateIsNoticed
<1>4. CASE e \in MovedStates(a, d)
  BY <1>4, MovedStateIsNoticed
<1>5. CASE e \in LostFsms(a, d)
  BY <1>5, LostFsmIsNoticed
<1>6. CASE e \in InventedWaits(a, d)
  BY <1>6, InventedWaitIsNoticed
<1>7. CASE e \in LostParagraphs(a, d)
  BY <1>7, LostParagraphIsNoticed
<1>8. QED
  BY <1>1, <1>2, <1>3, <1>4, <1>5, <1>6, <1>7 DEF Damages

-----------------------------------------------------------------------------
(* Other shapes.                                                            *)

LEMMA BackwardsRestates ==
  ASSUME NEW d, IsDocument(d), NEW e, e = Backwards(d)
  PROVE  Restates(e, d)
<1>1. PICK sections : sections = Reverse(d.sections)
  OBVIOUS
<1>2. PICK n \in Nat : n = Len(d.sections) /\ DOMAIN d.sections = 1 .. n
  <2>1. d.sections \in Seq(Sections(d))
    BY DEF IsDocument
  <2>2. QED
    BY <2>1, LenProperties
<1>3. DOMAIN sections = 1 .. n /\ \A i \in 1 .. n : sections[i] = d.sections[(n - i) + 1]
  BY <1>1, <1>2 DEF Reverse
<1>4. e.sections = sections /\ e.rows = d.rows /\ e.count = d.count
  BY <1>1 DEF IsDocument, Backwards
<1>5. \A i \in 1 .. n : (n - i) + 1 \in 1 .. n /\ (n - ((n - i) + 1)) + 1 = i
  BY <1>2
<1>6. Sections(e) = Sections(d)
  <2>1. ASSUME NEW i \in 1 .. n
        PROVE  sections[i] \in Sections(d) /\ d.sections[i] \in Sections(e)
    <3>1. PICK j \in 1 .. n : j = (n - i) + 1 /\ i = (n - j) + 1
      BY <1>5
    <3>2. sections[i] = d.sections[j] /\ sections[j] = d.sections[i]
      BY <1>3, <3>1
    <3>3. QED
      BY <1>2, <1>3, <1>4, <3>2 DEF Sections
  <2>2. \A x : (x \in Sections(e) <=> \E i \in 1 .. n : x = sections[i])
    BY <1>3, <1>4 DEF Sections
  <2>3. \A x : (x \in Sections(d) <=> \E i \in 1 .. n : x = d.sections[i])
    BY <1>2 DEF Sections
  <2>4. \A x : x \in Sections(e) <=> x \in Sections(d)
    BY <2>1, <2>2, <2>3
  <2>5. QED
    BY <2>4
<1>7. QED
  BY <1>4, <1>6 DEF Restates, SameSection, SameBody

LEMMA UnmarkedRestates ==
  ASSUME NEW d, IsDocument(d), NEW e, e = Unmarked(d)
  PROVE  Restates(e, d)
<1> DEFINE change == [s \in Sections(d) |-> [s EXCEPT !.marked = {}]]
<1>1. ASSUME NEW s \in Sections(d)
      PROVE  SameSection(change[s], s)
  <2>1. Fields(s)
    BY SectionsAre DEF IsText
  <2>2. change[s] = [s EXCEPT !.marked = {}]
    OBVIOUS
  <2> HIDE DEF change
  <2>3. QED
    BY <2>1, <2>2, SectionFields DEF SameSection, SameBody
<1>2. e = WithSections(d, change)
  BY DEF Unmarked
<1> HIDE DEF change
<1>3. Sections(e) = { change[s] : s \in Sections(d) } /\ e.count = d.count /\ e.rows = d.rows
  BY <1>2, SectionsAre, ChangedSections
<1>4. QED
  BY <1>1, <1>3 DEF Restates

\* The blocks of a document are finite.
LEMMA FiniteBlocks ==
  ASSUME NEW d, IsDocument(d), NEW c \in ContentBlocks(d)
  PROVE  IsFiniteSet(c)
<1>1. CASE c = ContentTokens(RowWords(d))
  <2> DEFINE words(i) == {d.rows[i].fsm} \cup d.rows[i].ops
             f == [i \in DOMAIN d.rows |-> words(i)]
             rows == { words(i) : i \in DOMAIN d.rows }
  <2>1. IsFiniteSet(DOMAIN d.rows) /\ \A i \in DOMAIN d.rows : IsFiniteSet(d.rows[i].ops)
    <3>1. d.rows \in Seq(Rows(d)) /\ \A r \in Rows(d) : IsFiniteSet(r.ops)
      BY DEF IsDocument
    <3>2. DOMAIN d.rows = 1 .. Len(d.rows) /\ Len(d.rows) \in Nat /\ \A i \in DOMAIN d.rows : d.rows[i] \in Rows(d)
      BY <3>1, LenProperties, ElementOfSeq
    <3>3. IsFiniteSet(1 .. Len(d.rows))
      BY <3>2, FS_Interval
    <3>4. QED
      BY <3>1, <3>2, <3>3
  <2>2. f \in Surjection(DOMAIN d.rows, rows)
    BY DEF Surjection
  <2>3. \A T \in rows : IsFiniteSet(T)
    <3>1. ASSUME NEW i \in DOMAIN d.rows
          PROVE  IsFiniteSet(words(i))
      <4>1. IsFiniteSet({d.rows[i].fsm}) /\ IsFiniteSet(d.rows[i].ops)
        BY <2>1, FS_Singleton
      <4>2. QED
        BY <4>1, FS_Union
    <3>2. QED
      BY <3>1
  <2>4. IsFiniteSet(rows)
    <3> HIDE DEF f, rows
    <3>1. QED
      BY <2>1, <2>2, FS_Surjection
  <2>5. IsFiniteSet(UNION rows)
    <3> HIDE DEF rows
    <3>1. QED
      BY <2>3, <2>4, FS_UNION
  <2>6. QED
    BY <1>1, <2>5, FiniteTokens DEF RowWords
<1>2. CASE \E s \in Sections(d) : \E w \in {s.text, s.states, WaitWords(s.wait)} : c = ContentTokens(w)
  <2>1. PICK s \in Sections(d) : \E w \in {s.text, s.states, WaitWords(s.wait)} : c = ContentTokens(w)
    BY <1>2
  <2>2. PICK w \in {s.text, s.states, WaitWords(s.wait)} : c = ContentTokens(w)
    BY <2>1
  <2>3. w \subseteq BodyWords(s)
    BY DEF BodyWords
  <2>4. IsFiniteSet(w)
    BY <2>3, FiniteSection, FS_Subset
  <2>5. QED
    BY <2>2, <2>4, FiniteTokens
<1>3. QED
  BY <1>1, <1>2 DEF ContentBlocks

\* Every word of the body is, as it is or taken apart, in a block.
LEMMA BodyIsInBlocks ==
  ASSUME NEW d, NEW w \in Body(d)
  PROVE  (IF w \in DOMAIN Parts THEN Parts[w] ELSE {w}) \subseteq UNION ContentBlocks(d)
<1>1. PICK words : w \in words /\ (ContentTokens(words) # {} => ContentTokens(words) \in ContentBlocks(d))
  <2>1. CASE w \in RowWords(d)
    <3>1. ContentTokens(RowWords(d)) # {} => ContentTokens(RowWords(d)) \in ContentBlocks(d)
      BY DEF ContentBlocks
    <3>2. QED
      BY <2>1, <3>1
  <2>2. CASE w \in UNION { BodyWords(s) : s \in Sections(d) }
    <3>1. PICK s \in Sections(d) : w \in BodyWords(s)
      BY <2>2
    <3>2. PICK words \in {s.text, s.states, WaitWords(s.wait)} : w \in words
      BY <3>1 DEF BodyWords
    <3>3. ContentTokens(words) \in { ContentTokens(x) : x \in {s.text, s.states, WaitWords(s.wait)} }
      OBVIOUS
    <3>4. ContentTokens(words) # {} => ContentTokens(words) \in ContentBlocks(d)
      BY <3>3 DEF ContentBlocks
    <3>5. QED
      BY <3>2, <3>4
  <2>3. QED
    BY <2>1, <2>2 DEF Body
<1>2. (IF w \in DOMAIN Parts THEN Parts[w] ELSE {w}) \subseteq ContentTokens(words)
  BY <1>1 DEF ContentTokens
<1>3. QED
  BY <1>1, <1>2

\* Other headings leave the bodies, and every heading that is not theirs.
LEMMA RetitledSections ==
  ASSUME NEW d, IsDocument(d), NEW H, H \subseteq { s \in Sections(d) : s.heading = "plain" },
         NEW e, e = Retitled(d, H)
  PROVE  /\ RestatesBody(e, d)
         /\ Sections(d) \ H \subseteq Sections(e)
         /\ \A t \in Sections(e) : t \in Sections(d) \/ (t.heading = "plain" /\ t.title = {"Unplaced"})
<1> DEFINE change == [s \in Sections(d) |-> IF s \in H THEN [s EXCEPT !.title = {"Unplaced"}] ELSE s]
<1>1. ASSUME NEW s \in Sections(d)
      PROVE  /\ SameBody(change[s], s)
             /\ s \in H => change[s].heading = "plain" /\ change[s].title = {"Unplaced"}
             /\ s \notin H => change[s] = s
  <2>1. Fields(s)
    BY SectionsAre DEF IsText
  <2>2. PICK title : title = {"Unplaced"}
    OBVIOUS
  <2>3. /\ s \in H => change[s] = [s EXCEPT !.title = title]
        /\ s \notin H => change[s] = s
    BY <2>2
  <2> HIDE DEF change
  <2>4. CASE s \in H
    <3>1. s.heading = "plain"
      BY <2>4
    <3>2. change[s] = [s EXCEPT !.title = title]
      BY <2>3, <2>4
    <3>3. /\ change[s].title = title /\ change[s].heading = s.heading /\ change[s].marked = s.marked
          /\ change[s].name = s.name /\ change[s].text = s.text /\ change[s].wait = s.wait
          /\ change[s].states = s.states
      BY <2>1, <3>2, SectionFields
    <3>4. QED
      BY <2>2, <2>4, <3>1, <3>3 DEF SameBody
  <2>5. CASE s \notin H
    BY <2>3, <2>5 DEF SameBody
  <2>6. QED
    BY <2>4, <2>5
<1>2. e = WithSections(d, change)
  BY DEF Retitled
<1> HIDE DEF change
<1>3. Sections(e) = { change[s] : s \in Sections(d) } /\ e.count = d.count /\ e.rows = d.rows
  BY <1>2, SectionsAre, ChangedSections
<1>4. RestatesBody(e, d)
  BY <1>1, <1>3 DEF RestatesBody
<1>5. Sections(d) \ H \subseteq Sections(e)
  BY <1>1, <1>3
<1>6. ASSUME NEW t \in Sections(e)
      PROVE  t \in Sections(d) \/ (t.heading = "plain" /\ t.title = {"Unplaced"})
  <2>1. PICK s \in Sections(d) : t = change[s]
    BY <1>3
  <2>2. QED
    BY <1>1, <2>1
<1>7. QED
  BY <1>4, <1>5, <1>6

\* What the gate heeds of the author's is still said when a free heading is not,
\* and only the new heading is said that was not.
LEMMA RetitledWords ==
  ASSUME NEW a, NEW d, IsDocument(d), NEW e, e = Retitled(d, FreeHeadings(a, d))
  PROVE  /\ RestatesBody(e, d)
         /\ Heeded(a) \cap BareTokens(d) \subseteq BareTokens(e)
         /\ BareTokens(e) \subseteq BareTokens(d) \cup {"Unplaced"}
<1>1. PICK H : H = FreeHeadings(a, d)
  OBVIOUS
<1>2. /\ H \subseteq { s \in Sections(d) : s.heading = "plain" }
      /\ \A s \in H : s.title \cap Heeded(a) \subseteq Body(d)
  BY <1>1 DEF FreeHeadings
<1>3. /\ RestatesBody(e, d)
      /\ Sections(d) \ H \subseteq Sections(e)
      /\ \A t \in Sections(e) : t \in Sections(d) \/ (t.heading = "plain" /\ t.title = {"Unplaced"})
  BY <1>1, <1>2, RetitledSections
<1>4. Body(e) = Body(d) /\ RowWords(e) = RowWords(d)
  BY <1>3, RestatedBodies
<1>5. \A x : BareTokens(x) = Body(x) \cup UNION { s.title : s \in Sections(x) }
  BY DEF BareTokens, Body
<1>6. ASSUME NEW w \in Heeded(a), w \in BareTokens(d)
      PROVE  w \in BareTokens(e)
  <2>1. CASE w \in Body(d)
    BY <1>4, <1>5, <2>1
  <2>2. CASE w \in UNION { s.title : s \in Sections(d) }
    <3>1. PICK s \in Sections(d) : w \in s.title
      BY <2>2
    <3>2. CASE s \in H
      BY <1>2, <1>4, <1>5, <3>1, <3>2
    <3>3. CASE s \notin H
      <4>1. s \in Sections(e)
        BY <1>3, <3>3
      <4>2. QED
        BY <1>5, <3>1, <4>1
    <3>4. QED
      BY <3>2, <3>3
  <2>3. QED
    BY <1>5, <1>6, <2>1, <2>2
<1>7. ASSUME NEW w \in BareTokens(e)
      PROVE  w \in BareTokens(d) \cup {"Unplaced"}
  <2>1. CASE w \in Body(e)
    BY <1>4, <1>5, <2>1
  <2>2. CASE w \in UNION { s.title : s \in Sections(e) }
    <3>1. PICK s \in Sections(e) : w \in s.title
      BY <2>2
    <3>2. s \in Sections(d) \/ s.title = {"Unplaced"}
      BY <1>3
    <3>3. QED
      BY <1>5, <3>1, <3>2
  <2>3. QED
    BY <1>5, <2>1, <2>2
<1>8. QED
  BY <1>3, <1>6, <1>7

\* A block of the author's that was found is found under other headings.
LEMMA RetitledAccounting ==
  ASSUME NEW a, IsDocument(a), NEW d, IsDocument(d), NEW e, e = Retitled(d, FreeHeadings(a, d)),
         CheckUnplacedAccounting(a, d) = {}
  PROVE  CheckUnplacedAccounting(a, e) = {}
<1> DEFINE blocks(x) == ContentBlocks(x) \cup HeadingBlocks(x)
           lost(x) == { c \in ContentBlocks(a) :
                          /\ \A other \in blocks(x) : 10 * Cardinality(c \cap other) < 6 * Cardinality(c)
                          /\ 10 * Cardinality(c \cap UNION blocks(x)) < 9 * Cardinality(c) }
<1>1. \A x : CheckUnplacedAccounting(a, x) = { <<"block lost", b>> : b \in lost(x) }
  BY DEF CheckUnplacedAccounting
<1>2. lost(d) = {}
  <2>1. { <<"block lost", b>> : b \in lost(d) } = {}
    BY <1>1
  <2> HIDE DEF lost
  <2>2. QED
    BY <2>1, NoObjection
<1>3. PICK H : H = FreeHeadings(a, d)
  OBVIOUS
<1>4. ASSUME NEW s \in H
      PROVE  /\ s \in Sections(d) /\ s.heading = "plain" /\ ContentTokens(s.title) = s.title
             /\ s.title \cap Heeded(a) \subseteq Body(d) /\ s.title \cap DOMAIN Parts = {}
             /\ \A b \in ContentBlocks(a) : 10 * Cardinality(b \cap s.title) < 6 * Cardinality(b)
  <2>1. /\ s \in Sections(d) /\ s.heading = "plain" /\ s.title \cap DOMAIN Parts = {}
        /\ s.title \cap Heeded(a) \subseteq Body(d)
        /\ \A b \in ContentBlocks(a) : 10 * Cardinality(b \cap s.title) < 6 * Cardinality(b)
    BY <1>3 DEF FreeHeadings
  <2>2. ContentTokens(s.title) = UNION { {w} : w \in s.title }
    BY <2>1 DEF ContentTokens
  <2>3. UNION { {w} : w \in s.title } = s.title
    OBVIOUS
  <2>4. QED
    BY <2>1, <2>2, <2>3
<1>5. RestatesBody(e, d) /\ Sections(d) \ H \subseteq Sections(e)
  <2>1. H \subseteq { s \in Sections(d) : s.heading = "plain" }
    BY <1>4
  <2>2. QED
    BY <1>3, <2>1, RetitledSections
<1>6. ContentBlocks(e) = ContentBlocks(d)
  BY <1>5, RestatedBodies
<1>7. ASSUME NEW other \in blocks(d), other \notin blocks(e)
      PROVE  \E s \in H : other = s.title
  <2>1. other \in HeadingBlocks(d) /\ other \notin HeadingBlocks(e)
    BY <1>6, <1>7
  <2>2. PICK s \in Sections(d) : other = ContentTokens(s.title)
    BY <2>1 DEF HeadingBlocks
  <2>3. s \in H
    BY <1>5, <2>1, <2>2 DEF HeadingBlocks
  <2>4. QED
    BY <1>4, <2>2, <2>3
<1>8. ASSUME NEW c \in ContentBlocks(a)
      PROVE  c \cap UNION blocks(d) \subseteq c \cap UNION blocks(e)
  <2>1. ASSUME NEW w \in c, NEW other \in blocks(d), w \in other, other \notin blocks(e)
        PROVE  w \in UNION blocks(e)
    <3>1. PICK s \in H : other = s.title
      BY <1>7, <2>1
    <3>2. w \in Heeded(a)
      BY DEF Heeded
    <3>3. w \in Body(d) /\ w \notin DOMAIN Parts
      BY <1>4, <2>1, <3>1, <3>2
    <3>4. w \in UNION ContentBlocks(d)
      BY <3>3, BodyIsInBlocks
    <3>5. QED
      BY <1>6, <3>4
  <2> HIDE DEF blocks
  <2>2. QED
    BY <2>1
<1>9. ASSUME NEW c \in lost(e)
      PROVE  FALSE
  <2>1. /\ c \in ContentBlocks(a)
        /\ \A other \in blocks(e) : 10 * Cardinality(c \cap other) < 6 * Cardinality(c)
        /\ 10 * Cardinality(c \cap UNION blocks(e)) < 9 * Cardinality(c)
    BY <1>9
  <2>2. \A other \in blocks(d) : 10 * Cardinality(c \cap other) < 6 * Cardinality(c)
    <3> HIDE DEF blocks
    <3>1. ASSUME NEW other \in blocks(d), other \notin blocks(e)
          PROVE  10 * Cardinality(c \cap other) < 6 * Cardinality(c)
      BY <1>4, <1>7, <2>1, <3>1
    <3>2. QED
      BY <2>1, <3>1
  <2>3. 10 * Cardinality(c \cap UNION blocks(d)) < 9 * Cardinality(c)
    <3>1. IsFiniteSet(c)
      BY <2>1, FiniteBlocks
    <3>2. PICK less, more : less = c \cap UNION blocks(d) /\ more = c \cap UNION blocks(e)
      OBVIOUS
    <3>3. less \subseteq more /\ more \subseteq c
      BY <1>8, <2>1, <3>2
    <3>4. IsFiniteSet(more) /\ IsFiniteSet(less)
      BY <3>1, <3>3, FS_Subset
    <3>5. Cardinality(less) <= Cardinality(more)
      BY <3>3, <3>4, FS_Subset
    <3>6. Cardinality(less) \in Nat /\ Cardinality(more) \in Nat /\ Cardinality(c) \in Nat
      BY <3>1, <3>4, FS_CardinalityType
    <3>7. 10 * Cardinality(more) < 9 * Cardinality(c)
      BY <2>1, <3>2
    <3>8. 10 * Cardinality(less) < 9 * Cardinality(c)
      BY <3>5, <3>6, <3>7
    <3>9. QED
      BY <3>2, <3>8
  <2>4. c \in lost(d)
    BY <2>1, <2>2, <2>3
  <2>5. QED
    BY <1>2, <2>4
<1>10. lost(e) = {}
  BY <1>9
<1> HIDE DEF lost
<1>11. QED
  BY <1>1, <1>10

LEMMA RetitledWaitModels ==
  ASSUME NEW a, NEW d, NEW e, CheckWaitModelProvenance(a, d) = {},
         \A t \in Sections(e) : t \in Sections(d) \/ t.heading # "interface"
  PROVE  CheckWaitModelProvenance(a, e) = {}
<1> DEFINE evidence(s) == IF MatchSourceSection(s, a) = {} THEN BareTokens(a)
                          ELSE UNION { BodyWords(a.sections[i]) : i \in MatchSourceSection(s, a) }
           unfounded(x) == { t \in Sections(x) : /\ t.heading = "interface" /\ t.wait.block
                                                  /\ BlockingHits(evidence(t)) = 0 }
<1>1. \A x : CheckWaitModelProvenance(a, x) = { <<"wait model invented", s.name>> : s \in unfounded(x) }
  BY DEF CheckWaitModelProvenance
<1>2. unfounded(e) \subseteq unfounded(d)
  <2> HIDE DEF evidence
  <2>1. QED
    OBVIOUS
<1> HIDE DEF unfounded
<1>3. QED
  BY <1>1, <1>2

\* Headings that are none of the author's words alone are free.
LEMMA RetitledPasses ==
  ASSUME NEW a, IsDocument(a), NEW d, IsDocument(d), Passes(a, d),
         NEW e, e = Retitled(d, FreeHeadings(a, d))
  PROVE  Passes(a, e)
<1>0. GateErrors(a, d) = {}
  BY DEF Passes
<1>1. /\ RestatesBody(e, d)
      /\ Heeded(a) \cap BareTokens(d) \subseteq BareTokens(e)
      /\ BareTokens(e) \subseteq BareTokens(d) \cup {"Unplaced"}
  BY RetitledWords
<1>2. CheckMeasurements(a, e) = {}
  <2>1. Measurements(a) = Measurements(d)
    BY ObjectsToMeasurement
  <2>2. Measurements(e) = Measurements(a)
    <3>1. Measurements(a) \subseteq Heeded(a) /\ "Unplaced" \notin Measure
      BY DocumentAssumption DEF Heeded
    <3>2. QED
      BY <1>1, <2>1, <3>1 DEF Measurements
  <2>3. QED
    BY <2>2 DEF CheckMeasurements
<1>3. CheckIdentifiers(a, e) = {}
  <2>1. ASSUME NEW n \in Identifiers(a)
        PROVE  IsGrounded(n, BareTokens(e))
    <3>1. IsGrounded(n, BareTokens(d))
      BY ObjectsToName
    <3>2. n \in Heeded(a)
      BY DEF Heeded
    <3>3. CASE n \in BareTokens(d)
      BY <1>1, <3>2, <3>3 DEF IsGrounded
    <3>4. CASE n \in DOMAIN Parts /\ Parts[n] \subseteq BareTokens(d)
      <4>1. n \in Body(a)
        BY NamesAreSaid
      <4>2. Parts[n] \subseteq UNION ContentBlocks(a)
        BY <3>4, <4>1, BodyIsInBlocks
      <4>3. Parts[n] \subseteq Heeded(a)
        BY <4>2 DEF Heeded
      <4>4. QED
        BY <1>1, <3>4, <4>3 DEF IsGrounded
    <3>5. QED
      BY <3>1, <3>3, <3>4 DEF IsGrounded
  <2>2. ASSUME NEW n \in Identifiers(e) \ Mode
        PROVE  IsGrounded(n, BareTokens(a))
    <3>1. n \in Identifiers(d) \ Mode
      BY <1>1, RestatedBodies
    <3>2. QED
      BY <3>1, ObjectsToName
  <2>3. /\ { m \in Identifiers(a) : ~IsGrounded(m, BareTokens(e)) } = {}
        /\ { m \in Identifiers(e) \ Mode : ~IsGrounded(m, BareTokens(a)) } = {}
    BY <2>1, <2>2
  <2>4. PICK dropped, invented :
          /\ dropped = { m \in Identifiers(a) : ~IsGrounded(m, BareTokens(e)) }
          /\ invented = { m \in Identifiers(e) \ Mode : ~IsGrounded(m, BareTokens(a)) }
    OBVIOUS
  <2>5. CheckIdentifiers(a, e) = { <<"dropped", n>> : n \in dropped } \cup { <<"invented", n>> : n \in invented }
    BY <2>4 DEF CheckIdentifiers
  <2>6. QED
    BY <2>3, <2>4, <2>5
<1>4. /\ Names(e, "fsm") = Names(d, "fsm") /\ ExtractFsms(e) = ExtractFsms(d)
      /\ ExtractFsmCount(e) = ExtractFsmCount(d)
  BY <1>1, SectionsAre, RestatedFsms
<1>5. CheckFsmParity(a, e) = {}
  BY <1>0, <1>4 DEF GateErrors, CheckFsmParity
<1>6. CheckStateParity(a, e) = {}
  BY <1>0, <1>4 DEF GateErrors, CheckStateParity
<1>7. CheckWaitModelProvenance(a, e) = {}
  <2>1. PICK H : H = FreeHeadings(a, d) /\ H \subseteq { s \in Sections(d) : s.heading = "plain" }
    BY DEF FreeHeadings
  <2>2. \A t \in Sections(e) : t \in Sections(d) \/ t.heading = "plain"
    BY <2>1, RetitledSections
  <2>3. QED
    BY <1>0, <2>2, RetitledWaitModels DEF GateErrors
<1>8. CheckUnplacedAccounting(a, e) = {}
  BY <1>0, RetitledAccounting DEF GateErrors
<1>9. QED
  BY <1>2, <1>3, <1>5, <1>6, <1>7, <1>8 DEF Passes, GateErrors

\* A passing normalized DLD passes in every other shape, for all documents: with
\* its sections in another order, without its code marks, and under other headings
\* where a heading is none of the author's words alone.
THEOREM OtherShapesPass ==
  ASSUME NEW a, IsDocument(a), NEW d, IsDocument(d), Passes(a, d), NEW e \in Reshapings(a, d)
  PROVE  Passes(a, e)
<1>1. Unambiguous(d)
  BY SectionsAre
<1>2. CASE e = d
  BY <1>2
<1>3. CASE e = Backwards(d)
  BY <1>1, <1>3, BackwardsRestates, ShapeIsFree
<1>4. CASE e = Unmarked(d)
  BY <1>1, <1>4, UnmarkedRestates, ShapeIsFree
<1>5. CASE e = Retitled(d, FreeHeadings(a, d))
  BY <1>5, RetitledPasses
<1>6. QED
  BY <1>2, <1>3, <1>4, <1>5 DEF Reshapings

\* The fidelity gate passes a DLD whose shape alone was changed, and refuses one
\* that was damaged, whatever the documents: of no passing pair is it inexact.
THEOREM FidelityGateIsExact == Spec => []GateIsExact
<1>1. Inexact = {}
  <2>1. ASSUME NEW p \in Faithful, p[1] \in Written,
               \/ \E e \in Reshapings(Text[p[1]], Text[p[2]]) : ~Passes(Text[p[1]], e)
               \/ \E e \in Damages(Text[p[1]], Text[p[2]]) : Passes(Text[p[1]], e)
        PROVE  FALSE
    <3>1. p[1] \in Doc /\ p[2] \in Doc /\ Passes(Text[p[1]], Text[p[2]])
      BY FaithfulPairs DEF Faithful
    <3>2. IsDocument(Text[p[1]]) /\ IsDocument(Text[p[2]])
      BY <3>1, DocumentAssumption
    <3>3. PICK a, d : a = Text[p[1]] /\ d = Text[p[2]]
      OBVIOUS
    <3>4. QED
      BY <2>1, <3>1, <3>2, <3>3, OtherShapesPass, DamageIsNoticed
  <2>2. QED
    BY <2>1 DEF Inexact
<1>2. GateIsExact
  BY <1>1 DEF GateIsExact
<1>3. QED
  BY <1>2, PTL

=============================================================================
