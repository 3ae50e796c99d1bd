--------------------------- MODULE PageDocsProofs ---------------------------
(***************************************************************************)
(* The documents that the page keeps copies of, for any number of changes, *)
(* losses and answers in any order: the features document in its three     *)
(* editors, the presets and the stages, and the preview.  The modules      *)
(* share no variable, so each has an invariant of its own, kept by its     *)
(* steps and by standing still.                                            *)
(***************************************************************************)
EXTENDS MCPageDocs, FiniteSetTheorems, TLAPS

-----------------------------------------------------------------------------
(* Queues.                                                                  *)

\* The members of a queue whose first is taken, and of one that gets another.
LEMMA Taken ==
  ASSUME NEW S, NEW q \in Seq(S), q # <<>>
  PROVE  /\ Tail(q) \in Seq(S) /\ Head(q) \in S
         /\ \E i \in DOMAIN q : q[i] = Head(q)
         /\ \A i \in DOMAIN Tail(q) : \E j \in DOMAIN q : q[j] = Tail(q)[i]
         /\ \A j \in DOMAIN q : q[j] = Head(q) \/ \E i \in DOMAIN Tail(q) : Tail(q)[i] = q[j]
<1>1. /\ Tail(q) \in Seq(S) /\ Head(q) = q[1] /\ Head(q) \in S /\ Len(q) \in Nat /\ Len(q) >= 1
      /\ DOMAIN q = 1..Len(q) /\ DOMAIN Tail(q) = 1..(Len(q) - 1)
      /\ \A i \in 1..(Len(q) - 1) : Tail(q)[i] = q[i + 1]
  OBVIOUS
<1>2. ASSUME NEW i \in DOMAIN Tail(q)
      PROVE  \E j \in DOMAIN q : q[j] = Tail(q)[i]
  <2>1. i + 1 \in DOMAIN q /\ Tail(q)[i] = q[i + 1]
    BY <1>1
  <2> QED  BY <2>1
<1>3. ASSUME NEW j \in DOMAIN q
      PROVE  q[j] = Head(q) \/ \E i \in DOMAIN Tail(q) : Tail(q)[i] = q[j]
  <2>1. CASE j = 1
    BY <1>1, <2>1
  <2>2. CASE j # 1
    <3>1. j - 1 \in DOMAIN Tail(q) /\ Tail(q)[j - 1] = q[(j - 1) + 1] /\ (j - 1) + 1 = j
      BY <1>1, <2>2
    <3> QED  BY <3>1
  <2> QED  BY <2>1, <2>2
<1>4. 1 \in DOMAIN q
  BY <1>1
<1> QED  BY <1>1, <1>2, <1>3, <1>4

LEMMA Added ==
  ASSUME NEW S, NEW q \in Seq(S), NEW a \in S, NEW b, b = Append(q, a)
  PROVE  /\ b \in Seq(S)
         /\ \E i \in DOMAIN b : b[i] = a
         /\ \A i \in DOMAIN b : b[i] = a \/ \E j \in DOMAIN q : q[j] = b[i]
         /\ \A j \in DOMAIN q : \E i \in DOMAIN b : b[i] = q[j]
<1>1. /\ b \in Seq(S) /\ Len(q) \in Nat
      /\ DOMAIN q = 1..Len(q) /\ DOMAIN b = 1..(Len(q) + 1)
      /\ \A i \in 1..Len(q) : b[i] = q[i]
      /\ b[Len(q) + 1] = a
  OBVIOUS
<1>2. Len(q) + 1 \in DOMAIN b
  BY <1>1
<1>3. ASSUME NEW i \in DOMAIN b
      PROVE  b[i] = a \/ \E j \in DOMAIN q : q[j] = b[i]
  <2>1. i = Len(q) + 1 \/ i \in DOMAIN q
    BY <1>1
  <2> QED  BY <1>1, <2>1
<1>4. ASSUME NEW j \in DOMAIN q
      PROVE  \E i \in DOMAIN b : b[i] = q[j]
  <2>1. j \in DOMAIN b /\ b[j] = q[j]
    BY <1>1
  <2> QED  BY <2>1
<1> QED  BY <1>1, <1>2, <1>3, <1>4

\* The last word: of what is coming, every word (in w) that is not good is
\* followed by one that is; and whether a good one is coming.
Corrected(q, w, good) ==
  \A j \in DOMAIN q : q[j] \in w \ good => \E k \in DOMAIN q : k > j /\ q[k] \in good
Coming(q, good) == \E k \in DOMAIN q : q[k] \in good

\* A good word that is added is the last one, and what is no word changes
\* nothing.
LEMMA WordAdded ==
  ASSUME NEW S, NEW q \in Seq(S), NEW a \in S, NEW b, b = Append(q, a), NEW w, NEW good
  PROVE  /\ a \in good => Corrected(b, w, good) /\ Coming(b, good)
         /\ a \notin w /\ Corrected(q, w, good) => Corrected(b, w, good)
         /\ Coming(q, good) => Coming(b, good)
<1>1. /\ b \in Seq(S) /\ Len(q) \in Nat
      /\ DOMAIN q = 1..Len(q) /\ DOMAIN b = 1..(Len(q) + 1)
      /\ \A i \in 1..Len(q) : b[i] = q[i]
      /\ b[Len(q) + 1] = a
  OBVIOUS
<1>2. ASSUME a \in good
      PROVE  Corrected(b, w, good) /\ Coming(b, good)
  <2>1. Coming(b, good)
    BY <1>1, <1>2 DEF Coming
  <2>2. ASSUME NEW j \in DOMAIN b, b[j] \in w \ good
        PROVE  \E k \in DOMAIN b : k > j /\ b[k] \in good
    <3>1. j # Len(q) + 1
      BY <1>1, <1>2, <2>2
    <3>2. Len(q) + 1 \in DOMAIN b /\ Len(q) + 1 > j
      BY <1>1, <3>1
    <3> QED  BY <1>1, <1>2, <3>2
  <2> QED  BY <2>1, <2>2 DEF Corrected
<1>3. ASSUME a \notin w, Corrected(q, w, good)
      PROVE  Corrected(b, w, good)
  <2> SUFFICES ASSUME NEW j \in DOMAIN b, b[j] \in w \ good
               PROVE  \E k \in DOMAIN b : k > j /\ b[k] \in good
    BY DEF Corrected
  <2>1. j \in DOMAIN q /\ q[j] \in w \ good
    <3>1. j # Len(q) + 1
      BY <1>1, <1>3
    <3>2. j \in DOMAIN q
      BY <1>1, <3>1
    <3> QED  BY <1>1, <3>2
  <2>2. PICK k \in DOMAIN q : k > j /\ q[k] \in good
    BY <1>3, <2>1 DEF Corrected
  <2>3. k \in DOMAIN b /\ b[k] = q[k]
    BY <1>1
  <2> QED  BY <2>2, <2>3
<1>4. ASSUME Coming(q, good)
      PROVE  Coming(b, good)
  <2>1. PICK k \in DOMAIN q : q[k] \in good
    BY <1>4 DEF Coming
  <2>2. k \in DOMAIN b /\ b[k] = q[k]
    BY <1>1
  <2> QED  BY <2>1, <2>2 DEF Coming
<1> QED  BY <1>2, <1>3, <1>4

\* After a word that is not good is heard, a good one is still coming.
LEMMA WordHeard ==
  ASSUME NEW S, NEW q \in Seq(S), q # <<>>, NEW t, t = Tail(q), NEW w, NEW good
  PROVE  /\ Corrected(q, w, good) => Corrected(t, w, good)
         /\ Corrected(q, w, good) /\ Head(q) \in w \ good => Coming(t, good)
         /\ Coming(q, good) /\ Head(q) \notin good => Coming(t, good)
<1>1. /\ t \in Seq(S) /\ Head(q) = q[1] /\ Head(q) \in S /\ Len(q) \in Nat /\ Len(q) >= 1
      /\ DOMAIN q = 1..Len(q) /\ DOMAIN t = 1..(Len(q) - 1)
      /\ \A i \in 1..(Len(q) - 1) : t[i] = q[i + 1]
  OBVIOUS
<1>2. ASSUME NEW k \in DOMAIN q, k > 1
      PROVE  k - 1 \in DOMAIN t /\ t[k - 1] = q[k]
  <2>1. k - 1 \in 1..(Len(q) - 1) /\ (k - 1) + 1 = k
    BY <1>1, <1>2
  <2> QED  BY <1>1, <2>1
<1>3. ASSUME Corrected(q, w, good)
      PROVE  Corrected(t, w, good)
  <2> SUFFICES ASSUME NEW j \in DOMAIN t, t[j] \in w \ good
               PROVE  \E k \in DOMAIN t : k > j /\ t[k] \in good
    BY DEF Corrected
  <2>1. j + 1 \in DOMAIN q /\ q[j + 1] \in w \ good
    BY <1>1
  <2>2. PICK k \in DOMAIN q : k > j + 1 /\ q[k] \in good
    BY <1>3, <2>1 DEF Corrected
  <2>3. k > 1 /\ k - 1 > j
    BY <1>1, <2>2
  <2> QED  BY <1>2, <2>2, <2>3
<1>4. ASSUME Corrected(q, w, good), Head(q) \in w \ good
      PROVE  Coming(t, good)
  <2>1. PICK k \in DOMAIN q : k > 1 /\ q[k] \in good
    BY <1>1, <1>4 DEF Corrected
  <2> QED  BY <1>2, <2>1 DEF Coming
<1>5. ASSUME Coming(q, good), Head(q) \notin good
      PROVE  Coming(t, good)
  <2>1. PICK k \in DOMAIN q : q[k] \in good
    BY <1>5 DEF Coming
  <2>2. k > 1
    BY <1>1, <1>5, <2>1
  <2> QED  BY <1>2, <2>1, <2>2 DEF Coming
<1> QED  BY <1>3, <1>4, <1>5

-----------------------------------------------------------------------------
(* The features document: the invariant.                                    *)

KindsOf(m) ==
  CASE m = "effects" -> {"get", "rows", "unit", "bright"}
    [] m = "features" -> {"get", "switch"}
    [] m = "static" -> {"get", "fixed"}
    [] OTHER -> {"file", "badfile"}

\* Each module sends what is its own, and a file leaves its mark.
SentInv ==
  \A i \in DOMAIN out : /\ out[i].patch.kind \in KindsOf(out[i].by)
                        /\ out[i].patch.kind = "file" => restored

\* As long as nothing is lost only a set of rows, or a file, is refused.
Came(a) == a.got /\ (a.doc = Unknown => a.kind \in {"rows", "badfile"})
CameInv ==
  \A i \in DOMAIN back :
    back[i].kind \in KindsOf(back[i].by) /\ (docLosses = 0 => Came(back[i]))

IsFlip(by, kind) == by = "features" /\ kind # "get"

\* The card is busy while its change is out.
BusyInv ==
  busy => \/ \E i \in DOMAIN out : IsFlip(out[i].by, out[i].patch.kind)
          \/ \E i \in DOMAIN back : IsFlip(back[i].by, back[i].kind)

\* The effects editor is about to hear from the device: it asked, or somebody
\* will ask on its behalf.
WillAsk(r) == r.by = "effects" \/ r.patch.kind \in {"switch", "file"}
MakesAsk(a) ==
  \/ a.by = "effects" /\ a.doc = Unknown
  \/ IsFlip(a.by, a.kind)
  \/ a.by = "file" /\ a.doc # Unknown
EditorAsks ==
  \/ \E i \in DOMAIN out : WillAsk(out[i])
  \/ \E i \in DOMAIN back : MakesAsk(back[i])

Undisturbed == docLosses = 0 /\ docOthers = 0

From(modules) == {a \in Answers : a.by \in modules}
Editor == {"effects"}
UnitTold == {"effects", "features"}
SameEditorAs(e) == {a \in From(Editor) : a.doc # Unknown /\ SameEditor(a.doc, e)}
SameUnitAs(e) == {a \in From(UnitTold) : a.doc # Unknown /\ a.doc.unit = e.unit}
SameSwitchesAs(e) == {a \in From({"features"}) : a.doc # Unknown /\ a.doc.on = e.on}
SameCardAs(e) == {a \in From({"static"}) : a.doc # Unknown /\ SameCard(a.doc, e)}

\* Unless it is about to hear, the editor has, or the last word on its way is,
\* what the device holds, and so it is with the unit.
EditorCopied == fxDoc # Unknown /\ SameEditor(fxDoc, dev)
EditorInv ==
  Undisturbed /\ ~EditorAsks =>
    /\ Corrected(back, From(Editor), SameEditorAs(dev))
    /\ EditorCopied \/ Coming(back, SameEditorAs(dev))
UnitInv ==
  Undisturbed /\ ~EditorAsks =>
    /\ Corrected(back, From(UnitTold), SameUnitAs(dev))
    /\ unit = dev.unit \/ Coming(back, SameUnitAs(dev))

Asks(m) == \E i \in DOMAIN out : out[i].by = m

\* The switches and the card of the fixed address: unless the module asks, or
\* what it shows has moved and it is not told.
SwitchesCopied == featDoc # Unknown /\ featDoc.on = dev.on /\ drawn = dev.on
SwitchesInv ==
  Undisturbed /\ ~restored /\ ~Asks("features") =>
    /\ Corrected(back, From({"features"}), SameSwitchesAs(dev))
    /\ SwitchesCopied \/ Coming(back, SameSwitchesAs(dev))

CardCopied == sipDoc # Unknown /\ SameCard(sipDoc, dev)
CardShownInv ==
  Undisturbed /\ ~unheard /\ ~Asks("static") =>
    /\ Corrected(back, From({"static"}), SameCardAs(dev))
    /\ CardCopied \/ Coming(back, SameCardAs(dev))

DocsInv ==
  /\ DocsTypeOK /\ SentInv /\ CameInv /\ BusyInv
  /\ EditorInv /\ UnitInv /\ SwitchesInv /\ CardShownInv

\* The types in groups, one for what each kind of step touches.
DocsWires == dev \in Documents /\ out \in Seq(Requests) /\ back \in Seq(Answers)
DocsCopies ==
  /\ fxDoc \in Documents \cup {Unknown} /\ featDoc \in Documents \cup {Unknown}
  /\ sipDoc \in Documents \cup {Unknown}
  /\ drawn \subseteq Switches /\ unit \in {"c", "f"} /\ busy \in BOOLEAN /\ mode \in Modes
DocsCounts ==
  /\ docActs \in 0..DocsActs /\ docLosses \in 0..DocsLosses /\ docOthers \in 0..DocsOthers
  /\ restored \in BOOLEAN /\ unheard \in BOOLEAN

LEMMA DocsTyped ==
  /\ DocsTypeOK <=> DocsWires /\ DocsCopies /\ DocsCounts
  /\ DocsTypeOK' <=> DocsWires' /\ DocsCopies' /\ DocsCounts'
BY DEF DocsTypeOK, DocsWires, DocsCopies, DocsCounts

\* What is in a patch of each kind, and what it does to a document.
LEMMA PatchKinds ==
  ASSUME NEW p \in Patches
  PROVE  /\ p.kind \in {"get", "rows", "unit", "switch", "fixed", "bright", "file", "badfile"}
         /\ p.kind = "rows" => p.rows \in Rows
         /\ p.kind = "unit" => p.unit \in {"c", "f"}
         /\ p.kind = "switch" => p.name \in Switches /\ p.on \in BOOLEAN
         /\ p.kind = "fixed" => p.fixed \in BOOLEAN
         /\ p.kind = "bright" => p.bright \in [Modes -> {0, 1}]
         /\ p.kind = "file" => p.doc \in Documents
BY DEF Patches

LEMMA AppliedOf ==
  ASSUME NEW d \in Documents, NEW p \in Patches
  PROVE  /\ Applied(d, p) \in Documents
         /\ p.kind \notin {"switch", "file"} => Applied(d, p).on = d.on
         /\ p.kind \in {"get", "switch", "fixed", "badfile"} => Applied(d, p).unit = d.unit
         /\ p.kind \in {"get", "fixed", "badfile"} => SameEditor(Applied(d, p), d)
<1> USE PatchKinds DEF Documents, SameEditor
<1>1. CASE p.kind = "rows"
  BY <1>1 DEF Applied
<1>2. CASE p.kind = "unit"
  BY <1>2 DEF Applied
<1>3. CASE p.kind = "switch"
  <2>1. Solid \in Rows
    BY DEF Solid, Rows
  <2>2. Switched(d, p.name, p.on) \in Documents
    <3>1. (IF p.on THEN d.on \cup {p.name} ELSE d.on \ {p.name}) \in SUBSET Switches
      BY <1>3
    <3>2. (IF p.name = "effects" /\ ~p.on THEN Solid ELSE d.fx) \in Rows
      BY <2>1
    <3> QED  BY <3>1, <3>2 DEF Switched
  <2>3. Switched(d, p.name, p.on).unit = d.unit
    BY <1>3 DEF Switched
  <2> QED  BY <1>3, <2>2, <2>3 DEF Applied
<1>4. CASE p.kind = "fixed"
  BY <1>4 DEF Applied
<1>5. CASE p.kind = "bright"
  BY <1>5 DEF Applied
<1>6. CASE p.kind = "file"
  BY <1>6 DEF Applied
<1>7. CASE p.kind \in {"get", "badfile"}
  BY <1>7 DEF Applied
<1> QED  BY <1>1, <1>2, <1>3, <1>4, <1>5, <1>6, <1>7

\* At the start each of the three has asked.
LEMMA DocsStart == DocsInit => DocsInv
<1> SUFFICES ASSUME DocsInit
             PROVE  DocsInv
  OBVIOUS
<1>1. Get("effects") \in Requests /\ Get("features") \in Requests /\ Get("static") \in Requests
  BY DEF Get, Requests, Modules, Patches
<1>2. out \in Seq(Requests) /\ DOMAIN out = 1..3
      /\ out[1] = Get("effects") /\ out[2] = Get("features") /\ out[3] = Get("static")
  BY <1>1 DEF DocsInit
<1>3. back \in Seq(Answers) /\ DOMAIN back = {}
  BY DEF DocsInit
<1>4. dev \in Documents
  <2>1. Solid \in Rows /\ [m \in Modes |-> 0] \in [Modes -> {0, 1}]
    BY DEF Solid, Rows
  <2>2. PICK s \in SUBSET Switches : dev = [FactoryDocument EXCEPT !.on = s]
    BY DEF DocsInit, FirstDocuments
  <2> QED  BY <2>1, <2>2 DEF FactoryDocument, Documents
<1>5. DocsTypeOK
  <2>1. DocsWires
    BY <1>2, <1>3, <1>4 DEF DocsWires
  <2>2. DocsCopies
    BY DEF DocsInit, DocsCopies
  <2>3. DocsCounts
    <3>1. docActs \in 0..DocsActs /\ docLosses \in 0..DocsLosses /\ docOthers \in 0..DocsOthers
      BY DocsAssumption DEF DocsInit
    <3>2. restored \in BOOLEAN /\ unheard \in BOOLEAN
      BY DEF DocsInit
    <3> QED  BY <3>1, <3>2 DEF DocsCounts
  <2> QED  BY <2>1, <2>2, <2>3, DocsTyped
<1>6. SentInv
  BY <1>2 DEF SentInv, Get, KindsOf
<1>7. EditorAsks /\ Asks("features") /\ Asks("static")
  BY <1>2 DEF EditorAsks, WillAsk, Asks, Get
<1>8. CameInv /\ BusyInv
  BY <1>3 DEF CameInv, BusyInv, DocsInit
<1> QED  BY <1>5, <1>6, <1>7, <1>8 DEF DocsInv, EditorInv, UnitInv, SwitchesInv, CardShownInv

\* What a request that is served leaves behind: an answer, with the document
\* that the device then holds, or without one if it was refused.
Served(r, a) ==
  /\ r \in Requests /\ a \in Answers /\ a.by = r.by /\ a.kind = r.patch.kind /\ a.got = TRUE
  /\ out # <<>> /\ r = Head(out) /\ out' = Tail(out) /\ back' = Append(back, a)
  /\ dev' \in Documents
  /\ a.doc = Unknown => a.kind \in {"rows", "badfile"} /\ dev' = dev
  /\ a.doc # Unknown => a.doc = dev'
  /\ a.kind \notin {"switch", "file"} => dev'.on = dev.on
  /\ unheard' \in BOOLEAN
  /\ r.by # "static" /\ ~unheard' => ~unheard /\ SameCard(dev, dev')
  /\ a.kind \in {"get", "switch", "fixed", "badfile"} => dev'.unit = dev.unit
  /\ a.kind \in {"get", "fixed", "badfile"} => SameEditor(dev', dev)

LEMMA ServeSays ==
  ASSUME DocsTypeOK, Serve
  PROVE  \E r, a : Served(r, a)
<1> DEFINE r == Head(out)
<1>1. out # <<>> /\ r \in Requests /\ out' = Tail(out) /\ dev \in Documents
  BY Taken DEF Serve, DocsTypeOK
<1>2. r.by \in Modules /\ r.patch \in Patches
  BY <1>1 DEF Requests
<1>3. r.patch.kind \in {"get", "rows", "unit", "switch", "fixed", "bright", "file", "badfile"}
  BY <1>2, PatchKinds
<1>h. unheard' \in BOOLEAN /\ (r.by # "static" /\ ~unheard' => ~unheard /\ SameCard(dev, dev'))
  BY DEF Serve, Moves, DocsTypeOK
<1>4. CASE Acceptable(dev, r.patch)
  <2> DEFINE a == AnswerTo(r, dev')
  <2>1. dev' = Applied(dev, r.patch) /\ back' = Append(back, a)
    BY <1>4 DEF Serve
  <2>2. dev' \in Documents
    BY <1>1, <1>2, <2>1, AppliedOf
  <2>3. a \in Answers /\ a.by = r.by /\ a.kind = r.patch.kind /\ a.got = TRUE /\ a.doc = dev'
    BY <1>2, <1>3, <2>2 DEF AnswerTo, Answers
  <2>4. a.doc # Unknown
    BY <2>2, <2>3, DocsAssumption
  <2>5. /\ a.kind \notin {"switch", "file"} => dev'.on = dev.on
        /\ a.kind \in {"get", "switch", "fixed", "badfile"} => dev'.unit = dev.unit
        /\ a.kind \in {"get", "fixed", "badfile"} => SameEditor(dev', dev)
    BY <1>1, <1>2, <2>1, <2>3, AppliedOf
  <2>6. Served(r, a)
    BY <1>1, <1>h, <2>1, <2>2, <2>3, <2>4, <2>5 DEF Served
  <2> QED  BY <2>6
<1>5. CASE ~Acceptable(dev, r.patch)
  <2> DEFINE a == AnswerTo(r, Unknown)
  <2>1. dev' = dev /\ back' = Append(back, a)
    BY <1>5 DEF Serve
  <2>2. a \in Answers /\ a.by = r.by /\ a.kind = r.patch.kind /\ a.got = TRUE /\ a.doc = Unknown
    BY <1>2, <1>3 DEF AnswerTo, Answers
  <2>3. a.kind \in {"rows", "badfile"}
    BY <1>5, <2>2 DEF Acceptable
  <2>4. SameEditor(dev', dev)
    BY <2>1 DEF SameEditor
  <2>5. Served(r, a)
    BY <1>1, <1>h, <2>1, <2>2, <2>3, <2>4 DEF Served
  <2> QED  BY <2>5
<1> QED  BY <1>4, <1>5

\* After it: every earlier request is still on its way, but for this one, and
\* every answer.
LEMMA ServedQueues ==
  ASSUME DocsTypeOK, NEW r, NEW a, Served(r, a)
  PROVE  /\ out' \in Seq(Requests) /\ back' \in Seq(Answers)
         /\ \E i \in DOMAIN out : out[i] = r
         /\ \A i \in DOMAIN out' : \E j \in DOMAIN out : out[j] = out'[i]
         /\ \A j \in DOMAIN out : out[j] = r \/ \E i \in DOMAIN out' : out'[i] = out[j]
         /\ \E i \in DOMAIN back' : back'[i] = a
         /\ \A i \in DOMAIN back' : back'[i] = a \/ \E j \in DOMAIN back : back[j] = back'[i]
         /\ \A j \in DOMAIN back : \E i \in DOMAIN back' : back'[i] = back[j]
<1>1. out \in Seq(Requests) /\ back \in Seq(Answers)
  BY DEF DocsTypeOK
<1>2. out # <<>> /\ r = Head(out) /\ out' = Tail(out) /\ back' = Append(back, a) /\ a \in Answers
  BY DEF Served
<1>3. /\ out' \in Seq(Requests)
      /\ \E i \in DOMAIN out : out[i] = r
      /\ \A i \in DOMAIN out' : \E j \in DOMAIN out : out[j] = out'[i]
      /\ \A j \in DOMAIN out : out[j] = r \/ \E i \in DOMAIN out' : out'[i] = out[j]
  BY <1>1, <1>2, Taken
<1>4. PICK b : b = back'
  OBVIOUS
<1>5. /\ b \in Seq(Answers)
      /\ \E i \in DOMAIN b : b[i] = a
      /\ \A i \in DOMAIN b : b[i] = a \/ \E j \in DOMAIN back : back[j] = b[i]
      /\ \A j \in DOMAIN back : \E i \in DOMAIN b : b[i] = back[j]
  <2>1. back \in Seq(Answers) /\ a \in Answers /\ b = Append(back, a)
    BY <1>1, <1>2, <1>4
  <2>3. b \in Seq(Answers) /\ \E i \in DOMAIN b : b[i] = a
    BY <2>1, Added
  <2>4. \A i \in DOMAIN b : b[i] = a \/ \E j \in DOMAIN back : back[j] = b[i]
    BY <2>1, Added
  <2>5. \A j \in DOMAIN back : \E i \in DOMAIN b : b[i] = back[j]
    BY <2>1, Added
  <2> QED  BY <2>3, <2>4, <2>5
<1> QED  BY <1>3, <1>4, <1>5

\* What a served request does to the last word: its answer is a good one, or
\* is no word at all.
LEMMA ServedWord ==
  ASSUME DocsTypeOK, NEW r, NEW a, Served(r, a), NEW w, NEW good
  PROVE  /\ a \in good => Corrected(back', w, good) /\ Coming(back', good)
         /\ a \notin w /\ Corrected(back, w, good) => Corrected(back', w, good)
         /\ Coming(back, good) => Coming(back', good)
<1>1. PICK b : b = back'
  OBVIOUS
<1>2. back \in Seq(Answers) /\ a \in Answers /\ b = Append(back, a)
  BY <1>1 DEF DocsTypeOK, Served
<1>3. /\ a \in good => Corrected(b, w, good) /\ Coming(b, good)
      /\ a \notin w /\ Corrected(back, w, good) => Corrected(b, w, good)
      /\ Coming(back, good) => Coming(b, good)
  BY <1>2, WordAdded
<1> QED  BY <1>1, <1>3

LEMMA ServeKeepsTypes == DocsTypeOK /\ Serve => DocsTypeOK'
<1> SUFFICES ASSUME DocsTypeOK, Serve
             PROVE  DocsTypeOK'
  OBVIOUS
<1>1. PICK r, a : Served(r, a)
  BY ServeSays
<1>2. DocsWires'
  BY <1>1, ServedQueues DEF DocsWires, Served
<1>3. UNCHANGED <<docsPage, docsBounds>>
  BY DEF Serve
<1>4. DocsCopies /\ DocsCounts
  BY DocsTyped
<1>5. DocsCopies'
  BY <1>3, <1>4 DEF DocsCopies, docsPage
<1>6. DocsCounts'
  BY <1>1, <1>3, <1>4 DEF DocsCounts, docsBounds, Served
<1> QED  BY <1>2, <1>5, <1>6, DocsTyped

LEMMA ServeKeeps == DocsInv /\ Serve => DocsInv'
<1> SUFFICES ASSUME DocsInv, Serve
             PROVE  DocsInv'
  OBVIOUS
<1>0. DocsTypeOK
  BY DEF DocsInv
<1>1. PICK r, a : Served(r, a)
  BY <1>0, ServeSays
<1>2. UNCHANGED <<fxDoc, featDoc, sipDoc, drawn, unit, busy, mode, docActs, docLosses, docOthers, restored>>
  BY DEF Serve, docsPage, docsBounds
<1>3. /\ \E i \in DOMAIN out : out[i] = r
      /\ \A i \in DOMAIN out' : \E j \in DOMAIN out : out[j] = out'[i]
      /\ \A j \in DOMAIN out : out[j] = r \/ \E i \in DOMAIN out' : out'[i] = out[j]
      /\ \E i \in DOMAIN back' : back'[i] = a
      /\ \A i \in DOMAIN back' : back'[i] = a \/ \E j \in DOMAIN back : back[j] = back'[i]
      /\ \A j \in DOMAIN back : \E i \in DOMAIN back' : back'[i] = back[j]
  BY <1>0, <1>1, ServedQueues
<1>4. /\ r.patch.kind \in KindsOf(r.by) /\ (r.patch.kind = "file" => restored)
      /\ a.by = r.by /\ a.kind = r.patch.kind
  BY <1>1, <1>3 DEF DocsInv, SentInv, Served
<1>5. a \in Answers /\ a.by \in Modules /\ dev \in Documents /\ dev' \in Documents
  BY <1>0, <1>1 DEF Served, Answers, DocsTypeOK
<1>6. SentInv'
  BY <1>2, <1>3 DEF DocsInv, SentInv
<1>7. CameInv'
  <2>1. Came(a)
    BY <1>1 DEF Served, Came
  <2> QED  BY <1>2, <1>3, <1>4, <2>1 DEF DocsInv, CameInv
<1>8. BusyInv'
  BY <1>2, <1>3, <1>4 DEF DocsInv, BusyInv
<1>9. a.by \notin Editor /\ ~EditorAsks' => a.kind \in {"get", "fixed", "badfile"} /\ ~EditorAsks
  <2> SUFFICES ASSUME a.by # "effects", ~EditorAsks'
               PROVE  a.kind \in {"get", "fixed", "badfile"} /\ ~EditorAsks
    BY DEF Editor
  <2>1. ~MakesAsk(a)
    BY <1>3 DEF EditorAsks
  <2>2. a.kind \in {"get", "fixed", "badfile"}
    BY <1>1, <1>4, <1>5, <2>1 DEF MakesAsk, IsFlip, KindsOf, Modules, Served
  <2>3. ~WillAsk(r)
    BY <1>4, <2>2 DEF WillAsk
  <2> QED  BY <1>3, <2>2, <2>3 DEF EditorAsks
<1>10. a.by \in Editor /\ ~EditorAsks' => a.doc # Unknown /\ a.doc = dev'
  BY <1>1, <1>3 DEF EditorAsks, MakesAsk, Editor, Served
<1>11. EditorInv'
  <2> SUFFICES ASSUME Undisturbed', ~EditorAsks'
               PROVE  /\ Corrected(back, From(Editor), SameEditorAs(dev))'
                      /\ EditorCopied' \/ Coming(back, SameEditorAs(dev))'
    BY DEF EditorInv
  <2>1. CASE a.by \in Editor
    <3>1. a \in SameEditorAs(dev')
      BY <1>5, <1>10, <2>1 DEF SameEditorAs, From, SameEditor
    <3> QED  BY <1>0, <1>1, <3>1, ServedWord
  <2>2. CASE a.by \notin Editor
    <3>1. ~EditorAsks /\ SameEditor(dev', dev) /\ Undisturbed
      BY <1>1, <1>2, <1>9, <2>2 DEF Served, Undisturbed
    <3>2. SameEditorAs(dev') = SameEditorAs(dev) /\ (EditorCopied => EditorCopied')
      BY <1>2, <3>1 DEF SameEditorAs, EditorCopied, SameEditor
    <3>3. a \notin From(Editor)
      BY <2>2 DEF From
    <3>4. /\ Corrected(back, From(Editor), SameEditorAs(dev'))
          /\ EditorCopied' \/ Coming(back, SameEditorAs(dev'))
      BY <3>1, <3>2 DEF DocsInv, EditorInv
    <3> QED  BY <1>0, <1>1, <3>3, <3>4, ServedWord
  <2> QED  BY <2>1, <2>2
<1>12. UnitInv'
  <2> SUFFICES ASSUME Undisturbed', ~EditorAsks'
               PROVE  /\ Corrected(back, From(UnitTold), SameUnitAs(dev))'
                      /\ (unit = dev.unit)' \/ Coming(back, SameUnitAs(dev))'
    BY DEF UnitInv
  <2>1. CASE a.by \in UnitTold
    <3>1. a.doc # Unknown /\ a.doc = dev'
      <4>1. CASE a.by = "effects"
        BY <1>10, <4>1 DEF Editor
      <4>2. CASE a.by = "features"
        <5>1. a.kind \in {"get", "fixed", "badfile"} /\ a.kind \in {"get", "switch"}
          BY <1>4, <1>9, <4>2 DEF Editor, KindsOf
        <5> QED  BY <1>1, <5>1 DEF Served
      <4> QED  BY <2>1, <4>1, <4>2 DEF UnitTold
    <3>2. a \in SameUnitAs(dev')
      BY <1>5, <2>1, <3>1 DEF SameUnitAs, From
    <3> QED  BY <1>0, <1>1, <3>2, ServedWord
  <2>2. CASE a.by \notin UnitTold
    <3>1. ~EditorAsks /\ dev'.unit = dev.unit /\ Undisturbed
      BY <1>1, <1>2, <1>9, <2>2 DEF Served, Undisturbed, UnitTold, Editor
    <3>2. SameUnitAs(dev') = SameUnitAs(dev)
      BY <3>1 DEF SameUnitAs
    <3>3. a \notin From(UnitTold)
      BY <2>2 DEF From
    <3>4. /\ Corrected(back, From(UnitTold), SameUnitAs(dev'))
          /\ (unit = dev.unit)' \/ Coming(back, SameUnitAs(dev'))
      BY <1>2, <3>1, <3>2 DEF DocsInv, UnitInv
    <3> QED  BY <1>0, <1>1, <3>3, <3>4, ServedWord
  <2> QED  BY <2>1, <2>2
<1>13. SwitchesInv'
  <2> SUFFICES ASSUME Undisturbed', ~restored', ~Asks("features")'
               PROVE  /\ Corrected(back, From({"features"}), SameSwitchesAs(dev))'
                      /\ SwitchesCopied' \/ Coming(back, SameSwitchesAs(dev))'
    BY DEF SwitchesInv
  <2>0. ~restored /\ a.kind # "file" /\ Undisturbed
    BY <1>2, <1>4 DEF Undisturbed
  <2>1. CASE a.by = "features"
    <3>1. a.doc # Unknown /\ a.doc = dev'
      BY <1>1, <1>4, <2>1 DEF Served, KindsOf
    <3>2. a \in SameSwitchesAs(dev')
      BY <1>5, <2>1, <3>1 DEF SameSwitchesAs, From
    <3> QED  BY <1>0, <1>1, <3>2, ServedWord
  <2>2. CASE a.by # "features"
    <3>1. ~Asks("features")
      BY <1>3, <1>4, <2>2 DEF Asks
    <3>2. a.kind # "switch"
      BY <1>4, <1>5, <2>2 DEF KindsOf, Modules
    <3>3. dev'.on = dev.on
      BY <1>1, <2>0, <3>2 DEF Served
    <3>4. SameSwitchesAs(dev') = SameSwitchesAs(dev) /\ (SwitchesCopied => SwitchesCopied')
      BY <1>2, <3>3 DEF SameSwitchesAs, SwitchesCopied
    <3>5. a \notin From({"features"})
      BY <2>2 DEF From
    <3>6. /\ Corrected(back, From({"features"}), SameSwitchesAs(dev'))
          /\ SwitchesCopied' \/ Coming(back, SameSwitchesAs(dev'))
      BY <2>0, <3>1, <3>4 DEF DocsInv, SwitchesInv
    <3> QED  BY <1>0, <1>1, <3>5, <3>6, ServedWord
  <2> QED  BY <2>1, <2>2
<1>14. CardShownInv'
  <2> SUFFICES ASSUME Undisturbed', ~unheard', ~Asks("static")'
               PROVE  /\ Corrected(back, From({"static"}), SameCardAs(dev))'
                      /\ CardCopied' \/ Coming(back, SameCardAs(dev))'
    BY DEF CardShownInv
  <2>1. CASE a.by = "static"
    <3>1. a.doc # Unknown /\ a.doc = dev'
      BY <1>1, <1>4, <2>1 DEF Served, KindsOf
    <3>2. a \in SameCardAs(dev')
      BY <1>5, <2>1, <3>1 DEF SameCardAs, From, SameCard
    <3> QED  BY <1>0, <1>1, <3>2, ServedWord
  <2>2. CASE a.by # "static"
    <3>1. ~Asks("static")
      BY <1>3, <1>4, <2>2 DEF Asks
    <3>2. ~unheard /\ SameCard(dev, dev') /\ Undisturbed
      BY <1>1, <1>2, <1>4, <2>2 DEF Served, Undisturbed
    <3>3. SameCardAs(dev') = SameCardAs(dev) /\ (CardCopied => CardCopied')
      BY <1>2, <3>2 DEF SameCardAs, CardCopied, SameCard
    <3>4. a \notin From({"static"})
      BY <2>2 DEF From
    <3>5. /\ Corrected(back, From({"static"}), SameCardAs(dev'))
          /\ CardCopied' \/ Coming(back, SameCardAs(dev'))
      BY <3>1, <3>2, <3>3 DEF DocsInv, CardShownInv
    <3> QED  BY <1>0, <1>1, <3>4, <3>5, ServedWord
  <2> QED  BY <2>1, <2>2
<1> QED  BY <1>0, <1>6, <1>7, <1>8, <1>11, <1>12, <1>13, <1>14, ServeKeepsTypes DEF DocsInv

\* Once something is lost, or another browser writes, only the shape is left
\* to keep.
LEMMA DisturbedKeeps ==
  ASSUME DocsTypeOK', SentInv', CameInv', BusyInv', ~Undisturbed'
  PROVE  DocsInv'
BY DEF DocsInv, EditorInv, UnitInv, SwitchesInv, CardShownInv

LEMMA LoseKeeps == DocsInv /\ Lose => DocsInv'
<1> SUFFICES ASSUME DocsInv, Lose
             PROVE  DocsInv'
  OBVIOUS
<1>0. DocsWires /\ DocsCopies /\ DocsCounts /\ DocsTypeOK
  BY DocsTyped DEF DocsInv
<1> DEFINE r == Head(out)
           a == NoAnswer(r)
<1>1. out \in Seq(Requests) /\ out # <<>> /\ out' = Tail(out) /\ back \in Seq(Answers) /\ dev \in Documents
  BY <1>0 DEF Lose, DocsWires
<1>2. r \in Requests
  BY <1>1, Taken
<1>3. r.by \in Modules /\ r.patch \in Patches
  BY <1>2 DEF Requests
<1>4. a \in Answers /\ a.by = r.by /\ a.kind = r.patch.kind
  <2>1. r.patch.kind \in {"get", "rows", "unit", "switch", "fixed", "bright", "file", "badfile"}
    BY <1>3, PatchKinds
  <2> QED  BY <1>3, <2>1 DEF NoAnswer, Answers
<1>5. PICK o : o = out'
  OBVIOUS
<1>6. PICK b : b = back'
  OBVIOUS
<1>7. /\ o \in Seq(Requests)
      /\ \E i \in DOMAIN out : out[i] = r
      /\ \A i \in DOMAIN o : \E j \in DOMAIN out : out[j] = o[i]
      /\ \A j \in DOMAIN out : out[j] = r \/ \E i \in DOMAIN o : o[i] = out[j]
  BY <1>1, <1>5, Taken
<1>8. /\ b \in Seq(Answers)
      /\ \E i \in DOMAIN b : b[i] = a
      /\ \A i \in DOMAIN b : b[i] = a \/ \E j \in DOMAIN back : back[j] = b[i]
      /\ \A j \in DOMAIN back : \E i \in DOMAIN b : b[i] = back[j]
  <2>1. b = Append(back, a)
    BY <1>6 DEF Lose
  <2>2. a \in Answers /\ back \in Seq(Answers)
    BY <1>1, <1>4
  <2> HIDE DEF a
  <2>3. b \in Seq(Answers) /\ \E i \in DOMAIN b : b[i] = a
    BY <2>1, <2>2, Added
  <2>4. \A i \in DOMAIN b : b[i] = a \/ \E j \in DOMAIN back : back[j] = b[i]
    BY <2>1, <2>2, Added
  <2>5. \A j \in DOMAIN back : \E i \in DOMAIN b : b[i] = back[j]
    BY <2>1, <2>2, Added
  <2> QED  BY <2>3, <2>4, <2>5
<1>9. dev' \in Documents
  BY <1>1, <1>3, AppliedOf DEF Lose
<1>10. UNCHANGED docsPage /\ docLosses \in Nat /\ docLosses < DocsLosses /\ docLosses' = docLosses + 1
       /\ UNCHANGED <<docActs, docOthers, restored>> /\ unheard' \in BOOLEAN
  BY <1>0 DEF Lose, Moves, DocsCounts
<1>11. DocsTypeOK'
  <2>1. DocsWires'
    BY <1>5, <1>6, <1>7, <1>8, <1>9 DEF DocsWires
  <2>2. DocsCopies'
    BY <1>0, <1>10 DEF DocsCopies, docsPage
  <2>3. docLosses' \in 0..DocsLosses
    BY <1>10, DocsAssumption
  <2>4. DocsCounts'
    BY <1>0, <1>10, <2>3 DEF DocsCounts
  <2> QED  BY <2>1, <2>2, <2>4, DocsTyped
<1>12. r.patch.kind \in KindsOf(r.by)
  BY <1>7 DEF DocsInv, SentInv
<1>13. SentInv'
  BY <1>5, <1>7, <1>10 DEF DocsInv, SentInv
<1>14. docLosses' # 0
  BY <1>10
<1>15. CameInv'
  BY <1>4, <1>6, <1>8, <1>12, <1>14 DEF DocsInv, CameInv
<1>16. BusyInv'
  BY <1>4, <1>5, <1>6, <1>7, <1>8, <1>10 DEF DocsInv, BusyInv, docsPage
<1> QED  BY <1>11, <1>13, <1>14, <1>15, <1>16, DisturbedKeeps DEF Undisturbed

LEMMA OtherKeeps == DocsInv /\ Other => DocsInv'
<1> SUFFICES ASSUME DocsInv, Other
             PROVE  DocsInv'
  OBVIOUS
<1>0. DocsWires /\ DocsCopies /\ DocsCounts
  BY DocsTyped DEF DocsInv
<1>1. UNCHANGED <<out, back, docsPage, docActs, docLosses, restored>>
      /\ docOthers \in Nat /\ docOthers < DocsOthers /\ docOthers' = docOthers + 1
      /\ unheard' \in BOOLEAN
  BY <1>0 DEF Other, Moves, DocsCounts
<1>2. dev' \in Documents
  <2>1. dev \in Documents
    BY <1>0 DEF DocsWires
  <2>2. CASE \E u \in {"c", "f"} \ {dev.unit} : dev' = [dev EXCEPT !.unit = u]
    BY <2>1, <2>2 DEF Documents
  <2>3. CASE \E s \in Switches : dev' = Switched(dev, s, s \notin dev.on)
    <3>1. PICK s \in Switches : dev' = Switched(dev, s, s \notin dev.on)
      BY <2>3
    <3>2. Solid \in Rows
      BY DEF Solid, Rows
    <3> QED  BY <2>1, <3>1, <3>2 DEF Switched, Documents
  <2> QED  BY <2>2, <2>3 DEF Other
<1>3. DocsTypeOK'
  <2>1. DocsWires'
    BY <1>0, <1>1, <1>2 DEF DocsWires
  <2>2. DocsCopies'
    BY <1>0, <1>1 DEF DocsCopies, docsPage
  <2>3. docOthers' \in 0..DocsOthers
    BY <1>1, DocsAssumption
  <2>4. DocsCounts'
    BY <1>0, <1>1, <2>3 DEF DocsCounts
  <2> QED  BY <2>1, <2>2, <2>4, DocsTyped
<1>4. SentInv' /\ CameInv'
  BY <1>1 DEF DocsInv, SentInv, CameInv
<1>5. BusyInv'
  BY <1>1 DEF DocsInv, BusyInv, docsPage
<1>6. ~Undisturbed'
  BY <1>1 DEF Undisturbed
<1> QED  BY <1>3, <1>4, <1>5, <1>6, DisturbedKeeps

LEMMA AskQueues ==
  ASSUME out \in Seq(Requests), NEW r \in Requests, out' = Append(out, r)
  PROVE  /\ out' \in Seq(Requests)
         /\ \E i \in DOMAIN out' : out'[i] = r
         /\ \A i \in DOMAIN out' : out'[i] = r \/ \E j \in DOMAIN out : out[j] = out'[i]
         /\ \A j \in DOMAIN out : \E i \in DOMAIN out' : out'[i] = out[j]
<1>1. PICK o : o = out'
  OBVIOUS
<1>2. /\ o \in Seq(Requests)
      /\ \E i \in DOMAIN o : o[i] = r
      /\ \A i \in DOMAIN o : o[i] = r \/ \E j \in DOMAIN out : out[j] = o[i]
      /\ \A j \in DOMAIN out : \E i \in DOMAIN o : o[i] = out[j]
  <2>1. o = Append(out, r) /\ out \in Seq(Requests) /\ r \in Requests
    BY <1>1
  <2>2. o \in Seq(Requests) /\ \E i \in DOMAIN o : o[i] = r
    BY <2>1, Added
  <2>3. \A i \in DOMAIN o : o[i] = r \/ \E j \in DOMAIN out : out[j] = o[i]
    BY <2>1, Added
  <2>4. \A j \in DOMAIN out : \E i \in DOMAIN o : o[i] = out[j]
    BY <2>1, Added
  <2> QED  BY <2>2, <2>3, <2>4
<1> QED  BY <1>1, <1>2

\* A request that a module sends of itself disturbs no copy.
LEMMA AskKeeps ==
  ASSUME DocsInv, NEW r \in Requests, out' = Append(out, r),
         r.patch.kind \in KindsOf(r.by), r.patch.kind = "file" => restored',
         UNCHANGED <<dev, unheard, back, docsPage, docLosses, docOthers>>, docActs' \in 0..DocsActs,
         restored' \in BOOLEAN, restored => restored'
  PROVE  DocsInv'
<1>0. DocsWires /\ DocsCopies /\ DocsCounts
  BY DocsTyped DEF DocsInv
<1>1. PICK o : o = out'
  OBVIOUS
<1>2. /\ o \in Seq(Requests)
      /\ \E i \in DOMAIN o : o[i] = r
      /\ \A i \in DOMAIN o : o[i] = r \/ \E j \in DOMAIN out : out[j] = o[i]
      /\ \A j \in DOMAIN out : \E i \in DOMAIN o : o[i] = out[j]
  <2>1. out \in Seq(Requests)
    BY <1>0 DEF DocsWires
  <2> QED  BY <1>1, <2>1, AskQueues
<1>3. DocsTypeOK'
  <2>1. DocsWires'
    BY <1>0, <1>1, <1>2 DEF DocsWires
  <2>2. DocsCopies'
    BY <1>0 DEF DocsCopies, docsPage
  <2>3. DocsCounts'
    BY <1>0 DEF DocsCounts
  <2> QED  BY <2>1, <2>2, <2>3, DocsTyped
<1>4. SentInv'
  BY <1>1, <1>2 DEF DocsInv, SentInv
<1>5. CameInv'
  BY DEF DocsInv, CameInv
<1>6. BusyInv'
  BY <1>1, <1>2 DEF DocsInv, BusyInv, docsPage
<1>7. /\ EditorAsks => EditorAsks'
      /\ Asks("features") => Asks("features")'
      /\ Asks("static") => Asks("static")'
  <2>1. EditorAsks => EditorAsks'
    BY <1>1, <1>2 DEF EditorAsks
  <2>2. Asks("features") => Asks("features")'
    BY <1>1, <1>2 DEF Asks
  <2>3. Asks("static") => Asks("static")'
    BY <1>1, <1>2 DEF Asks
  <2> QED  BY <2>1, <2>2, <2>3
<1>8. EditorInv' /\ UnitInv'
  BY <1>7 DEF DocsInv, EditorInv, UnitInv, Undisturbed, EditorCopied, docsPage
<1>9. SwitchesInv' /\ CardShownInv'
  BY <1>7 DEF DocsInv, SwitchesInv, CardShownInv, Undisturbed, SwitchesCopied, CardCopied, docsPage
<1> QED  BY <1>3, <1>4, <1>5, <1>6, <1>8, <1>9 DEF DocsInv

LEMMA ActCounts == DocsInv /\ Act => docActs' \in 0..DocsActs /\ UNCHANGED <<docLosses, docOthers>>
BY DocsAssumption DEF DocsInv, DocsTypeOK, Act

LEMMA ChoosesKeep ==
  DocsInv /\ (ChooseEffect \/ ChooseBrightness \/ ChooseUnit \/ SaveFixed \/ Restore) => DocsInv'
<1> SUFFICES ASSUME DocsInv, ChooseEffect \/ ChooseBrightness \/ ChooseUnit \/ SaveFixed \/ Restore
             PROVE  DocsInv'
  OBVIOUS
<1>0. fxDoc \in Documents \cup {Unknown} /\ sipDoc \in Documents \cup {Unknown} /\ mode \in Modes
      /\ restored \in BOOLEAN
  BY DEF DocsInv, DocsTypeOK
<1>1. Act
  BY DEF ChooseEffect, ChooseBrightness, ChooseUnit, SaveFixed, Restore
<1>2. docActs' \in 0..DocsActs /\ UNCHANGED <<docLosses, docOthers>>
  BY <1>1, ActCounts
<1>3. UNCHANGED <<dev, unheard, back, docsPage>>
  BY DEF ChooseEffect, ChooseBrightness, ChooseUnit, SaveFixed, Restore, docsHeld
<1>4. CASE ChooseEffect
  <2>1. PICK i \in BarStates, e \in Effects \cup {0} :
          out' = Append(out, Post("effects", [kind |-> "rows", rows |-> [fxDoc.fx EXCEPT ![i] = e]]))
    BY <1>4 DEF ChooseEffect, Ask
  <2>2. fxDoc.fx \in Rows
    BY <1>0, <1>4 DEF ChooseEffect, Documents
  <2>3. [fxDoc.fx EXCEPT ![i] = e] \in Rows
    BY <2>2 DEF Rows
  <2> DEFINE r == Post("effects", [kind |-> "rows", rows |-> [fxDoc.fx EXCEPT ![i] = e]])
  <2>4. r \in Requests /\ r.patch.kind = "rows" /\ r.by = "effects"
    BY <2>3 DEF Post, Requests, Modules, Patches
  <2>5. r.patch.kind \in KindsOf(r.by)
    BY <2>4 DEF KindsOf
  <2>6. UNCHANGED restored
    BY <1>4 DEF ChooseEffect
  <2> HIDE DEF r
  <2> QED  BY <1>0, <1>2, <1>3, <2>1, <2>4, <2>5, <2>6, AskKeeps DEF r
<1>5. CASE ChooseBrightness
  <2> DEFINE p == [kind |-> "bright", of |-> mode, bright |-> [fxDoc.bright EXCEPT ![ModeNow] = 1 - @]]
             r == Post("effects", p)
  <2>1. out' = Append(out, r) /\ UNCHANGED restored
    BY <1>5 DEF ChooseBrightness, Ask
  <2>2. fxDoc.bright \in [Modes -> {0, 1}]
    BY <1>0, <1>5 DEF ChooseBrightness, Documents
  <2>3. [fxDoc.bright EXCEPT ![ModeNow] = 1 - @] \in [Modes -> {0, 1}]
    BY <2>2 DEF Modes, ModeNow
  <2>4. p \in Patches
    BY <1>0, <2>3 DEF Patches
  <2>5. r \in Requests /\ r.patch.kind = "bright" /\ r.by = "effects"
    BY <2>4 DEF Post, Requests, Modules
  <2>6. r.patch.kind \in KindsOf(r.by)
    BY <2>5 DEF KindsOf
  <2> HIDE DEF r, p
  <2> QED  BY <1>0, <1>2, <1>3, <2>1, <2>5, <2>6, AskKeeps
<1>6. CASE ChooseUnit
  <2>1. PICK u \in {"c", "f"} : out' = Append(out, Post("effects", [kind |-> "unit", unit |-> u]))
    BY <1>6 DEF ChooseUnit, Ask
  <2> DEFINE r == Post("effects", [kind |-> "unit", unit |-> u])
  <2>2. r \in Requests /\ r.patch.kind = "unit" /\ r.by = "effects"
    BY DEF Post, Requests, Modules, Patches
  <2>3. r.patch.kind \in KindsOf(r.by)
    BY <2>2 DEF KindsOf
  <2>4. UNCHANGED restored /\ out' = Append(out, r)
    BY <1>6, <2>1 DEF ChooseUnit
  <2> HIDE DEF r
  <2> QED  BY <1>0, <1>2, <1>3, <2>2, <2>3, <2>4, AskKeeps
<1>7. CASE SaveFixed
  <2> DEFINE r == Post("static", [kind |-> "fixed", fixed |-> ~sipDoc.fixed])
  <2>1. out' = Append(out, r) /\ UNCHANGED restored
    BY <1>7 DEF SaveFixed, Ask
  <2>2. r \in Requests /\ r.patch.kind = "fixed" /\ r.by = "static"
    BY DEF Post, Requests, Modules, Patches
  <2>3. r.patch.kind \in KindsOf(r.by)
    BY <2>2 DEF KindsOf
  <2> HIDE DEF r
  <2> QED  BY <1>0, <1>2, <1>3, <2>1, <2>2, <2>3, AskKeeps
<1>8. CASE Restore
  <2>1. PICK p \in {[kind |-> "file", doc |-> SavedDocument], [kind |-> "badfile"]} :
          out' = Append(out, Post("file", p))
    BY <1>8 DEF Restore, Ask
  <2> DEFINE r == Post("file", p)
  <2>2. SavedDocument \in Documents
    <3>1. Solid \in Rows /\ [m \in Modes |-> 0] \in [Modes -> {0, 1}]
      BY DEF Solid, Rows
    <3> QED  BY <3>1 DEF SavedDocument, FactoryDocument, Documents, Switches
  <2>3. p \in Patches /\ p.kind \in {"file", "badfile"}
    BY <2>2 DEF Patches
  <2>4. r \in Requests /\ r.patch.kind \in {"file", "badfile"} /\ r.by = "file"
    BY <2>3 DEF Post, Requests, Modules
  <2>5. r.patch.kind \in KindsOf(r.by)
    BY <2>4 DEF KindsOf
  <2>6. restored' = TRUE
    BY <1>8 DEF Restore
  <2>7. out' = Append(out, r)
    BY <2>1
  <2> HIDE DEF r
  <2> QED  BY <1>2, <1>3, <2>4, <2>5, <2>6, <2>7, AskKeeps
<1> QED  BY <1>4, <1>5, <1>6, <1>7, <1>8

\* A switch that is flipped is out, or flipped while another is.
LEMMA FlipKeeps == DocsInv /\ Flip => DocsInv'
<1> SUFFICES ASSUME DocsInv, Flip
             PROVE  DocsInv'
  OBVIOUS
<1>0. DocsWires /\ DocsCopies /\ DocsCounts
  BY DocsTyped DEF DocsInv
<1>1. docActs' \in 0..DocsActs /\ UNCHANGED <<docLosses, docOthers>>
  BY ActCounts DEF Flip
<1>2. UNCHANGED <<dev, unheard, back, fxDoc, featDoc, sipDoc, unit, mode, restored>> /\ busy' = TRUE
  BY DEF Flip, docsHeld
<1>3. PICK s \in Switches :
        /\ drawn' = Flipped(s)
        /\ IF busy THEN UNCHANGED out
           ELSE out' = Append(out, Post("features", [kind |-> "switch", name |-> s, on |-> s \in drawn']))
  BY DEF Flip, Ask
<1>4. drawn' \subseteq Switches
  BY <1>0, <1>3 DEF Flipped, DocsCopies
<1>5. DocsCopies' /\ DocsCounts'
  BY <1>0, <1>1, <1>2, <1>4 DEF DocsCopies, DocsCounts
<1>6. CameInv'
  BY <1>1, <1>2 DEF DocsInv, CameInv
<1>7. CASE busy
  <2>1. UNCHANGED out
    BY <1>3, <1>7
  <2>2. DocsWires'
    BY <1>0, <1>2, <2>1 DEF DocsWires
  <2>3. SentInv' /\ BusyInv'
    BY <1>2, <1>7, <2>1 DEF DocsInv, SentInv, BusyInv
  <2>4. EditorInv' /\ UnitInv' /\ CardShownInv'
    BY <1>1, <1>2, <2>1 DEF DocsInv, EditorInv, UnitInv, CardShownInv, EditorAsks, Asks, Undisturbed, EditorCopied, CardCopied
  <2>5. SwitchesInv'
    <3> SUFFICES ASSUME Undisturbed, ~restored, ~Asks("features")
                 PROVE  /\ Corrected(back, From({"features"}), SameSwitchesAs(dev))
                        /\ Coming(back, SameSwitchesAs(dev))
      BY <1>1, <1>2, <2>1 DEF SwitchesInv, Undisturbed, Asks
    <3>1. /\ Corrected(back, From({"features"}), SameSwitchesAs(dev))
      BY DEF DocsInv, SwitchesInv
    <3>2. PICK i \in DOMAIN back : IsFlip(back[i].by, back[i].kind)
      BY <1>7 DEF DocsInv, BusyInv, Asks, IsFlip
    <3>3. back[i] \in Answers
      BY <1>0 DEF DocsWires
    <3>4. back[i] \in From({"features"})
      BY <3>2, <3>3 DEF From, IsFlip
    <3> QED  BY <3>1, <3>4 DEF Corrected, Coming
  <2> QED  BY <1>5, <1>6, <2>2, <2>3, <2>4, <2>5, DocsTyped DEF DocsInv
<1>8. CASE ~busy
  <2> DEFINE r == Post("features", [kind |-> "switch", name |-> s, on |-> s \in drawn'])
  <2>1. out' = Append(out, r)
    BY <1>3, <1>8
  <2>2. r \in Requests /\ r.patch.kind = "switch" /\ r.by = "features"
    BY DEF Post, Requests, Modules, Patches
  <2>3. r.patch.kind \in KindsOf(r.by)
    BY <2>2 DEF KindsOf
  <2> HIDE DEF r
  <2>4. /\ out' \in Seq(Requests)
        /\ \E i \in DOMAIN out' : out'[i] = r
        /\ \A i \in DOMAIN out' : out'[i] = r \/ \E j \in DOMAIN out : out[j] = out'[i]
        /\ \A j \in DOMAIN out : \E i \in DOMAIN out' : out'[i] = out[j]
    BY <1>0, <2>1, <2>2, AskQueues DEF DocsWires
  <2>5. DocsWires'
    BY <1>0, <1>2, <2>4 DEF DocsWires
  <2>6. SentInv'
    BY <1>2, <2>2, <2>3, <2>4 DEF DocsInv, SentInv
  <2>7. BusyInv' /\ EditorAsks' /\ Asks("features")'
    BY <2>2, <2>4 DEF BusyInv, IsFlip, EditorAsks, WillAsk, Asks
  <2>8. EditorInv' /\ UnitInv' /\ SwitchesInv'
    BY <2>7 DEF EditorInv, UnitInv, SwitchesInv
  <2>9. Asks("static") => Asks("static")'
    BY <2>4 DEF Asks
  <2>10. CardShownInv'
    BY <1>1, <1>2, <2>9 DEF DocsInv, CardShownInv, Undisturbed, CardCopied
  <2> QED  BY <1>5, <1>6, <2>5, <2>6, <2>7, <2>8, <2>10, DocsTyped DEF DocsInv
<1> QED  BY <1>7, <1>8

LEMMA ModeKeeps == DocsInv /\ (ModeChanges \/ UNCHANGED docsVars) => DocsInv'
<1> SUFFICES ASSUME DocsInv, ModeChanges \/ UNCHANGED docsVars
             PROVE  DocsInv'
  OBVIOUS
<1>1. UNCHANGED <<dev, out, back, fxDoc, featDoc, sipDoc, drawn, unit, busy, docLosses, docOthers, restored,
                  unheard>>
      /\ (mode' \in Modes \/ mode' = mode) /\ (docActs' \in 0..DocsActs \/ docActs' = docActs)
  BY ActCounts DEF ModeChanges, Act, docsVars, docsDevice, docsHeld, docsPage, docsBounds
<1>2. DocsTypeOK'
  BY <1>1 DEF DocsInv, DocsTypeOK
<1>3. SentInv' /\ CameInv' /\ BusyInv'
  BY <1>1 DEF DocsInv, SentInv, CameInv, BusyInv
<1>4. EditorInv' /\ UnitInv'
  BY <1>1 DEF DocsInv, EditorInv, UnitInv, EditorAsks, Undisturbed, EditorCopied
<1>5. SwitchesInv' /\ CardShownInv'
  BY <1>1 DEF DocsInv, SwitchesInv, CardShownInv, Asks, Undisturbed, SwitchesCopied, CardCopied
<1> QED  BY <1>2, <1>3, <1>4, <1>5 DEF DocsInv

\* What an answer that lands does: the module that asked takes its document,
\* and asks, or has the editor ask, again.
Landed(a) ==
  /\ a \in Answers /\ a.by \in Modules /\ a.doc \in Documents \cup {Unknown}
  /\ a.kind \in KindsOf(a.by) /\ (docLosses = 0 => Came(a))
  /\ out' = out \/ \E m \in {"effects", "features", "static"} : out' = Append(out, Get(m))
  /\ MakesAsk(a) /\ Came(a) => out' = Append(out, Get("effects"))
  /\ a.by = "effects" /\ a.doc # Unknown => fxDoc' = a.doc /\ unit' = a.doc.unit
  /\ a.by = "features" /\ a.doc # Unknown => featDoc' = a.doc /\ drawn' = a.doc.on /\ unit' = a.doc.unit
  /\ a.by = "static" /\ a.doc # Unknown => sipDoc' = a.doc
  /\ a.by # "effects" => fxDoc' = fxDoc
  /\ a.by # "features" => featDoc' = featDoc /\ (drawn' = drawn \/ (featDoc # Unknown /\ drawn' = featDoc.on))
  /\ a.by # "static" => sipDoc' = sipDoc
  /\ a.by \notin UnitTold => unit' = unit
  /\ IF IsFlip(a.by, a.kind) THEN busy' = FALSE ELSE busy' = busy
  /\ mode' = mode

LEMMA LandSays == DocsInv /\ Land => Landed(Head(back)) /\ DocsCopies'
<1> SUFFICES ASSUME DocsInv, Land
             PROVE  Landed(Head(back)) /\ DocsCopies'
  OBVIOUS
<1> DEFINE a == Head(back)
<1>0. DocsWires /\ DocsCopies
  BY DocsTyped DEF DocsInv
<1>1. back \in Seq(Answers) /\ back # <<>>
  BY <1>0 DEF DocsWires, Land
<1>2. a \in Answers /\ \E i \in DOMAIN back : back[i] = a
  BY <1>1, Taken
<1>3. a.by \in Modules /\ a.doc \in Documents \cup {Unknown}
  BY <1>2 DEF Answers
<1>4. a.kind \in KindsOf(a.by) /\ (docLosses = 0 => Came(a))
  BY <1>2 DEF DocsInv, CameInv
<1> HIDE DEF a
<1>5. fxDoc \in Documents \cup {Unknown} /\ featDoc \in Documents \cup {Unknown}
      /\ sipDoc \in Documents \cup {Unknown}
      /\ drawn \subseteq Switches /\ unit \in {"c", "f"} /\ busy \in BOOLEAN /\ mode \in Modes
  BY <1>0 DEF DocsCopies
<1>6. \A d \in Documents : d.on \subseteq Switches /\ d.unit \in {"c", "f"} /\ d # Unknown
  BY DocsAssumption DEF Documents
<1>a. \A d : Redrawn(d) = drawn \/ (featDoc # Unknown /\ Redrawn(d) = featDoc.on)
  BY DEF Redrawn
<1>b. \A m \in {"effects", "features", "static"} : out' = Append(out, Get(m)) =>
        \E n \in {"effects", "features", "static"} : out' = Append(out, Get(n))
  OBVIOUS
<1>7. \/ a.by = "effects" /\ a.kind = "get" /\ EffectsRead(a) /\ UNCHANGED out
      \/ a.by = "effects" /\ a.kind # "get" /\ EffectsPosted(a)
      \/ a.by = "features" /\ a.kind = "get" /\ FeaturesRead(a)
      \/ a.by = "features" /\ a.kind # "get" /\ FeaturesPosted(a)
      \/ a.by = "static" /\ FixedLanded(a)
      \/ a.by = "file" /\ FileLanded(a)
  BY DEF Land, a
<1>8. CASE a.by = "effects" /\ a.kind = "get" /\ EffectsRead(a) /\ UNCHANGED out
  <2>1. ~MakesAsk(a) \/ ~Came(a)
    BY <1>8 DEF MakesAsk, Came, IsFlip
  <2>2. ~IsFlip(a.by, a.kind)
    BY <1>8 DEF IsFlip
  <2>3. fxDoc' = (IF a.doc = Unknown THEN fxDoc ELSE a.doc) /\ UNCHANGED <<featDoc, sipDoc, busy, mode>>
    BY <1>8 DEF EffectsRead, Known
  <2>4. unit' = UnitFrom(fxDoc') /\ (drawn' = drawn \/ (featDoc # Unknown /\ drawn' = featDoc.on))
    BY <1>a, <1>8 DEF EffectsRead
  <2>5. unit' \in {"c", "f"} /\ (a.doc # Unknown => unit' = a.doc.unit)
    BY <1>3, <1>5, <1>6, <2>3, <2>4 DEF UnitFrom
  <2>6. Landed(a)
    BY <1>2, <1>3, <1>4, <1>8, <2>1, <2>2, <2>3, <2>4, <2>5 DEF Landed, UnitTold
  <2>7. DocsCopies'
    BY <1>3, <1>5, <1>6, <2>3, <2>4, <2>5 DEF DocsCopies
  <2> QED  BY <2>6, <2>7 DEF a
<1>9. CASE a.by = "effects" /\ a.kind # "get" /\ EffectsPosted(a)
  <2>2. ~IsFlip(a.by, a.kind)
    BY <1>9 DEF IsFlip
  <2>a. CASE a.got /\ a.doc = Unknown
    <3>1. out' = Append(out, Get("effects")) /\ UNCHANGED docsPage
      BY <1>9, <2>a DEF EffectsPosted, Ask
    <3>2. Landed(a)
      <4>1. \E m \in {"effects", "features", "static"} : out' = Append(out, Get(m))
        BY <1>b, <3>1
      <4>2. UNCHANGED <<fxDoc, featDoc, sipDoc, drawn, unit, busy, mode>>
        BY <3>1 DEF docsPage
      <4> QED  BY <1>2, <1>3, <1>4, <1>9, <2>a, <2>2, <3>1, <4>1, <4>2 DEF Landed, UnitTold
    <3>3. DocsCopies'
      BY <1>0, <3>1 DEF DocsCopies, docsPage
    <3> QED  BY <3>2, <3>3 DEF a
  <2>b. CASE ~(a.got /\ a.doc = Unknown)
    <3>1. ~MakesAsk(a) \/ ~Came(a)
      BY <1>9, <2>b DEF MakesAsk, Came, IsFlip
    <3>3. fxDoc' = (IF a.doc = Unknown THEN fxDoc ELSE a.doc) /\ UNCHANGED <<out, featDoc, sipDoc, busy, mode>>
      BY <1>9, <2>b DEF EffectsPosted, Known
    <3>4. unit' = UnitFrom(a.doc) /\ (drawn' = drawn \/ (featDoc # Unknown /\ drawn' = featDoc.on))
      BY <1>a, <1>9, <2>b DEF EffectsPosted
    <3>5. unit' \in {"c", "f"} /\ (a.doc # Unknown => unit' = a.doc.unit)
      BY <1>3, <1>5, <1>6, <3>4 DEF UnitFrom
    <3>6. Landed(a)
      BY <1>2, <1>3, <1>4, <1>9, <3>1, <2>2, <3>3, <3>4, <3>5 DEF Landed, UnitTold
    <3>7. DocsCopies'
      BY <1>3, <1>5, <1>6, <3>3, <3>4, <3>5 DEF DocsCopies
    <3> QED  BY <3>6, <3>7 DEF a
  <2> QED  BY <2>a, <2>b
<1>10. CASE a.by = "features" /\ a.kind = "get" /\ FeaturesRead(a)
  <2>1. ~MakesAsk(a) /\ ~IsFlip(a.by, a.kind)
    BY <1>10 DEF MakesAsk, IsFlip
  <2>2. UNCHANGED <<out, fxDoc, sipDoc, busy, mode>>
    BY <1>10 DEF FeaturesRead
  <2>3. IF a.doc = Unknown THEN UNCHANGED <<featDoc, drawn, unit>>
        ELSE featDoc' = a.doc /\ drawn' = a.doc.on /\ unit' = a.doc.unit
    BY <1>10 DEF FeaturesRead, FeaturesDrawn
  <2>4. Landed(a)
    BY <1>2, <1>3, <1>4, <1>10, <2>1, <2>2, <2>3 DEF Landed, UnitTold
  <2>5. DocsCopies'
    BY <1>3, <1>5, <1>6, <2>2, <2>3 DEF DocsCopies
  <2> QED  BY <2>4, <2>5 DEF a
<1>11. CASE a.by = "features" /\ a.kind # "get" /\ FeaturesPosted(a)
  <2>1. IsFlip(a.by, a.kind) /\ busy' = FALSE
    BY <1>11 DEF IsFlip, FeaturesPosted, BusyAfter
  <2>2. UNCHANGED <<fxDoc, sipDoc, mode>>
    BY <1>11 DEF FeaturesPosted
  <2>3. IF a.doc = Unknown THEN UNCHANGED <<featDoc, drawn, unit>> /\ out' = Append(out, Get("features"))
        ELSE featDoc' = a.doc /\ drawn' = a.doc.on /\ unit' = a.doc.unit /\ out' = Append(out, Get("effects"))
    BY <1>11 DEF FeaturesPosted, FeaturesDrawn, AskAfterSwitch, Ask
  <2>4. Came(a) => a.doc # Unknown
    BY <1>4, <1>11 DEF Came, KindsOf
  <2>5. Landed(a)
    BY <1>2, <1>3, <1>4, <1>11, <2>1, <2>2, <2>3, <2>4 DEF Landed, UnitTold
  <2>6. DocsCopies'
    BY <1>3, <1>5, <1>6, <2>1, <2>2, <2>3 DEF DocsCopies
  <2> QED  BY <2>5, <2>6 DEF a
<1>12. CASE a.by = "static" /\ FixedLanded(a)
  <2>1. ~MakesAsk(a) /\ ~IsFlip(a.by, a.kind)
    BY <1>12 DEF MakesAsk, IsFlip
  <2>2. UNCHANGED <<fxDoc, featDoc, drawn, unit, busy, mode>>
        /\ sipDoc' = (IF a.doc = Unknown THEN sipDoc ELSE a.doc)
    BY <1>12 DEF FixedLanded, Known
  <2>3. out' = out \/ out' = Append(out, Get("static"))
    BY <1>12 DEF FixedLanded, Ask
  <2>4. Landed(a)
    <3>1. out' = out \/ \E m \in {"effects", "features", "static"} : out' = Append(out, Get(m))
      BY <1>b, <2>3
    <3> QED  BY <1>2, <1>3, <1>4, <1>12, <2>1, <2>2, <3>1 DEF Landed, UnitTold
  <2>5. DocsCopies'
    BY <1>3, <1>5, <2>2 DEF DocsCopies
  <2> QED  BY <2>4, <2>5 DEF a
<1>13. CASE a.by = "file" /\ FileLanded(a)
  <2>1. ~IsFlip(a.by, a.kind)
    BY <1>13 DEF IsFlip
  <2>2. UNCHANGED docsPage
    BY <1>13 DEF FileLanded
  <2>3. IF a.doc # Unknown THEN out' = Append(out, Get("effects")) ELSE out' = out
    BY <1>13 DEF FileLanded, Ask
  <2>4. MakesAsk(a) => a.doc # Unknown
    BY <1>13 DEF MakesAsk, IsFlip
  <2>5. Landed(a)
    <3>1. out' = out \/ \E m \in {"effects", "features", "static"} : out' = Append(out, Get(m))
      BY <1>b, <2>3
    <3>2. UNCHANGED <<fxDoc, featDoc, sipDoc, drawn, unit, busy, mode>>
      BY <2>2 DEF docsPage
    <3> QED  BY <1>2, <1>3, <1>4, <1>13, <2>1, <2>3, <2>4, <3>1, <3>2 DEF Landed, UnitTold
  <2>6. DocsCopies'
    BY <1>0, <2>2 DEF DocsCopies, docsPage
  <2> QED  BY <2>5, <2>6 DEF a
<1> QED  BY <1>7, <1>8, <1>9, <1>10, <1>11, <1>12, <1>13

LEMMA GetMine == \A m \in {"effects", "features", "static"} :
  Get(m) \in Requests /\ Get(m).by = m /\ Get(m).patch.kind = "get" /\ "get" \in KindsOf(m)
BY DEF Get, Requests, Modules, Patches, KindsOf

LEMMA LandQueues ==
  ASSUME DocsInv, Land, NEW a, a = Head(back), Landed(a)
  PROVE  /\ out' \in Seq(Requests) /\ back' \in Seq(Answers)
         /\ \A i \in DOMAIN out' : \/ out'[i].patch.kind = "get" /\ out'[i].patch.kind \in KindsOf(out'[i].by)
                                   \/ \E j \in DOMAIN out : out[j] = out'[i]
         /\ \A j \in DOMAIN out : \E i \in DOMAIN out' : out'[i] = out[j]
         /\ MakesAsk(a) /\ Came(a) => \E i \in DOMAIN out' : out'[i].by = "effects"
         /\ \A i \in DOMAIN back' : \E j \in DOMAIN back : back[j] = back'[i]
         /\ \A j \in DOMAIN back : back[j] = a \/ \E i \in DOMAIN back' : back'[i] = back[j]
<1>0. out \in Seq(Requests) /\ back \in Seq(Answers) /\ back # <<>> /\ back' = Tail(back)
  BY DEF DocsInv, DocsTypeOK, Land
<1>1. PICK b : b = back'
  OBVIOUS
<1>2. /\ b \in Seq(Answers)
      /\ \A i \in DOMAIN b : \E j \in DOMAIN back : back[j] = b[i]
      /\ \A j \in DOMAIN back : back[j] = a \/ \E i \in DOMAIN b : b[i] = back[j]
  <2>1. b = Tail(back)
    BY <1>0, <1>1
  <2> QED  BY <1>0, <2>1, Taken
<1>3. /\ out' \in Seq(Requests)
      /\ \A i \in DOMAIN out' : \/ out'[i].patch.kind = "get" /\ out'[i].patch.kind \in KindsOf(out'[i].by)
                                \/ \E j \in DOMAIN out : out[j] = out'[i]
      /\ \A j \in DOMAIN out : \E i \in DOMAIN out' : out'[i] = out[j]
  <2>1. CASE out' = out
    BY <1>0, <2>1
  <2>2. ASSUME NEW m \in {"effects", "features", "static"}, out' = Append(out, Get(m))
        PROVE  /\ out' \in Seq(Requests)
               /\ \A i \in DOMAIN out' : out'[i] = Get(m) \/ \E j \in DOMAIN out : out[j] = out'[i]
               /\ \A j \in DOMAIN out : \E i \in DOMAIN out' : out'[i] = out[j]
    <3>1. Get(m) \in Requests
      BY GetMine
    <3> QED  BY <1>0, <2>2, <3>1, AskQueues
  <2>3. CASE \E m \in {"effects", "features", "static"} : out' = Append(out, Get(m))
    BY <2>2, <2>3, GetMine
  <2> QED  BY <2>1, <2>3 DEF Landed
<1>4. MakesAsk(a) /\ Came(a) => \E i \in DOMAIN out' : out'[i].by = "effects"
  <2> SUFFICES ASSUME out' = Append(out, Get("effects"))
               PROVE  \E i \in DOMAIN out' : out'[i].by = "effects"
    BY DEF Landed
  <2>1. Get("effects") \in Requests /\ Get("effects").by = "effects"
    BY GetMine
  <2>2. \E i \in DOMAIN out' : out'[i] = Get("effects")
    BY <1>0, <2>1, AskQueues
  <2> QED  BY <2>1, <2>2
<1> QED  BY <1>1, <1>2, <1>3, <1>4

LEMMA LandedWord ==
  ASSUME DocsInv, Land, NEW w, NEW good
  PROVE  /\ Corrected(back, w, good) => Corrected(back', w, good)
         /\ Corrected(back, w, good) /\ Head(back) \in w \ good => Coming(back', good)
         /\ Coming(back, good) /\ Head(back) \notin good => Coming(back', good)
<1>1. PICK b : b = back'
  OBVIOUS
<1>2. back \in Seq(Answers) /\ back # <<>> /\ b = Tail(back)
  BY <1>1 DEF DocsInv, DocsTypeOK, Land
<1>3. /\ Corrected(back, w, good) => Corrected(b, w, good)
      /\ Corrected(back, w, good) /\ Head(back) \in w \ good => Coming(b, good)
      /\ Coming(back, good) /\ Head(back) \notin good => Coming(b, good)
  BY <1>2, WordHeard
<1> QED  BY <1>1, <1>3

LEMMA LandKeeps == DocsInv /\ Land => DocsInv'
<1> SUFFICES ASSUME DocsInv, Land
             PROVE  DocsInv'
  OBVIOUS
<1>0. DocsWires /\ DocsCopies /\ DocsCounts
  BY DocsTyped DEF DocsInv
<1>1. PICK a : a = Head(back)
  OBVIOUS
<1>2. Landed(a) /\ DocsCopies'
  BY <1>1, LandSays
<1>3. UNCHANGED <<dev, unheard, docActs, docLosses, docOthers, restored>>
  BY DEF Land, docsHeld, docsBounds
<1>4. /\ out' \in Seq(Requests) /\ back' \in Seq(Answers)
      /\ \A i \in DOMAIN out' : \/ out'[i].patch.kind = "get" /\ out'[i].patch.kind \in KindsOf(out'[i].by)
                                \/ \E j \in DOMAIN out : out[j] = out'[i]
      /\ \A j \in DOMAIN out : \E i \in DOMAIN out' : out'[i] = out[j]
      /\ MakesAsk(a) /\ Came(a) => \E i \in DOMAIN out' : out'[i].by = "effects"
      /\ \A i \in DOMAIN back' : \E j \in DOMAIN back : back[j] = back'[i]
      /\ \A j \in DOMAIN back : back[j] = a \/ \E i \in DOMAIN back' : back'[i] = back[j]
  BY <1>1, <1>2, LandQueues
<1>5. DocsTypeOK'
  <2>1. DocsWires'
    BY <1>0, <1>3, <1>4 DEF DocsWires
  <2>2. DocsCounts'
    BY <1>0, <1>3 DEF DocsCounts
  <2> QED  BY <1>2, <2>1, <2>2, DocsTyped
<1>6. SentInv'
  <2>1. \A i \in DOMAIN out : out[i].patch.kind \in KindsOf(out[i].by) /\ (out[i].patch.kind = "file" => restored)
    BY DEF DocsInv, SentInv
  <2> QED  BY <1>3, <1>4, <2>1 DEF SentInv
<1>7. CameInv'
  <2>1. \A i \in DOMAIN back : back[i].kind \in KindsOf(back[i].by) /\ (docLosses = 0 => Came(back[i]))
    BY DEF DocsInv, CameInv
  <2>2. \A i \in DOMAIN back' : back'[i].kind \in KindsOf(back'[i].by) /\ (docLosses = 0 => Came(back'[i]))
    BY <1>4, <2>1
  <2> QED  BY <1>3, <2>2 DEF CameInv
<1>8. BusyInv'
  <2> SUFFICES ASSUME busy'
               PROVE  \/ \E i \in DOMAIN out' : IsFlip(out'[i].by, out'[i].patch.kind)
                      \/ \E i \in DOMAIN back' : IsFlip(back'[i].by, back'[i].kind)
    BY DEF BusyInv
  <2>1. ~IsFlip(a.by, a.kind) /\ busy
    BY <1>2 DEF Landed
  <2>2. \/ \E i \in DOMAIN out : IsFlip(out[i].by, out[i].patch.kind)
        \/ \E i \in DOMAIN back : IsFlip(back[i].by, back[i].kind)
    BY <2>1 DEF DocsInv, BusyInv
  <2>3. CASE \E i \in DOMAIN out : IsFlip(out[i].by, out[i].patch.kind)
    BY <1>4, <2>3
  <2>4. CASE \E i \in DOMAIN back : IsFlip(back[i].by, back[i].kind)
    BY <1>4, <2>1, <2>4
  <2> QED  BY <2>2, <2>3, <2>4
<1>9. Undisturbed' => Undisturbed /\ Came(a)
  BY <1>2, <1>3 DEF Undisturbed, Landed
<1>10. Undisturbed' /\ ~EditorAsks' => ~EditorAsks /\ ~MakesAsk(a)
  <2> SUFFICES ASSUME Undisturbed', ~EditorAsks'
               PROVE  ~EditorAsks /\ ~MakesAsk(a)
    OBVIOUS
  <2>1. ~MakesAsk(a)
    BY <1>4, <1>9 DEF EditorAsks, WillAsk
  <2>2. \A i \in DOMAIN out : ~WillAsk(out[i])
    BY <1>4 DEF EditorAsks
  <2>3. \A i \in DOMAIN back : ~MakesAsk(back[i])
    BY <1>4, <2>1 DEF EditorAsks
  <2> QED  BY <2>1, <2>2, <2>3 DEF EditorAsks
<1>11. EditorInv'
  <2> DEFINE good == SameEditorAs(dev)
             w == From(Editor)
  <2> SUFFICES ASSUME Undisturbed', ~EditorAsks'
               PROVE  Corrected(back', w, good) /\ (EditorCopied' \/ Coming(back', good))
    BY <1>3 DEF EditorInv
  <2>1. Corrected(back, w, good) /\ (EditorCopied \/ Coming(back, good))
    BY <1>9, <1>10 DEF DocsInv, EditorInv
  <2>2. /\ Corrected(back', w, good)
        /\ a \in w \ good => Coming(back', good)
        /\ Coming(back, good) /\ a \notin good => Coming(back', good)
    BY <1>1, <2>1, LandedWord
  <2>3. a \in good => EditorCopied'
    BY <1>2, <1>3 DEF SameEditorAs, From, Editor, EditorCopied, Landed
  <2>4. a \notin w /\ EditorCopied => EditorCopied'
    BY <1>2, <1>3 DEF From, Editor, EditorCopied, Landed
  <2>5. a \in good => a \in w
    BY DEF SameEditorAs
  <2> QED  BY <2>1, <2>2, <2>3, <2>4, <2>5
<1>12. UnitInv'
  <2> DEFINE good == SameUnitAs(dev)
             w == From(UnitTold)
  <2> SUFFICES ASSUME Undisturbed', ~EditorAsks'
               PROVE  Corrected(back', w, good) /\ (unit' = dev.unit \/ Coming(back', good))
    BY <1>3 DEF UnitInv
  <2>1. Corrected(back, w, good) /\ (unit = dev.unit \/ Coming(back, good))
    BY <1>9, <1>10 DEF DocsInv, UnitInv
  <2>2. /\ Corrected(back', w, good)
        /\ a \in w \ good => Coming(back', good)
        /\ Coming(back, good) /\ a \notin good => Coming(back', good)
    BY <1>1, <2>1, LandedWord
  <2>3. a \in good => unit' = dev.unit
    BY <1>2 DEF SameUnitAs, From, UnitTold, Landed
  <2>4. a \notin w => unit' = unit
    BY <1>2 DEF From, Landed
  <2>5. a \in good => a \in w
    BY DEF SameUnitAs
  <2> QED  BY <2>1, <2>2, <2>3, <2>4, <2>5
<1>13. SwitchesInv'
  <2> DEFINE good == SameSwitchesAs(dev)
             w == From({"features"})
  <2> SUFFICES ASSUME Undisturbed', ~restored', ~Asks("features")'
               PROVE  Corrected(back', w, good) /\ (SwitchesCopied' \/ Coming(back', good))
    BY <1>3 DEF SwitchesInv
  <2>0. ~Asks("features") /\ ~restored
    BY <1>3, <1>4 DEF Asks
  <2>1. Corrected(back, w, good) /\ (SwitchesCopied \/ Coming(back, good))
    BY <1>9, <2>0 DEF DocsInv, SwitchesInv
  <2>2. /\ Corrected(back', w, good)
        /\ a \in w \ good => Coming(back', good)
        /\ Coming(back, good) /\ a \notin good => Coming(back', good)
    BY <1>1, <2>1, LandedWord
  <2>3. a \in good => SwitchesCopied'
    BY <1>2, <1>3 DEF SameSwitchesAs, From, SwitchesCopied, Landed
  <2>4. a \notin w /\ SwitchesCopied => SwitchesCopied'
    BY <1>2, <1>3 DEF From, SwitchesCopied, Landed
  <2>5. a \in good => a \in w
    BY DEF SameSwitchesAs
  <2> QED  BY <2>1, <2>2, <2>3, <2>4, <2>5
<1>14. CardShownInv'
  <2> DEFINE good == SameCardAs(dev)
             w == From({"static"})
  <2> SUFFICES ASSUME Undisturbed', ~unheard', ~Asks("static")'
               PROVE  Corrected(back', w, good) /\ (CardCopied' \/ Coming(back', good))
    BY <1>3 DEF CardShownInv
  <2>0. ~Asks("static") /\ ~unheard
    BY <1>3, <1>4 DEF Asks
  <2>1. Corrected(back, w, good) /\ (CardCopied \/ Coming(back, good))
    BY <1>9, <2>0 DEF DocsInv, CardShownInv
  <2>2. /\ Corrected(back', w, good)
        /\ a \in w \ good => Coming(back', good)
        /\ Coming(back, good) /\ a \notin good => Coming(back', good)
    BY <1>1, <2>1, LandedWord
  <2>3. a \in good => CardCopied'
    BY <1>2, <1>3 DEF SameCardAs, From, CardCopied, SameCard, Landed
  <2>4. a \notin w /\ CardCopied => CardCopied'
    BY <1>2, <1>3 DEF From, CardCopied, SameCard, Landed
  <2>5. a \in good => a \in w
    BY DEF SameCardAs
  <2> QED  BY <2>1, <2>2, <2>3, <2>4, <2>5
<1> QED  BY <1>5, <1>6, <1>7, <1>8, <1>11, <1>12, <1>13, <1>14 DEF DocsInv

LEMMA DocsKept == DocsInv /\ [DocsNext]_docsVars => DocsInv'
BY ServeKeeps, LoseKeeps, OtherKeeps, ChoosesKeep, FlipKeeps, ModeKeeps, LandKeeps DEF DocsNext

\* With nothing on its way nobody asks, and what is not on its way is there.
LEMMA DocsShown == DocsInv => DocsTypeOK /\ DocsAgree
<1> SUFFICES ASSUME DocsInv, Settled
             PROVE  /\ SameEditor(fxDoc, dev) /\ unit = dev.unit
                    /\ ~restored => drawn = dev.on
                    /\ ~unheard => SameCard(sipDoc, dev)
  BY DEF DocsInv, DocsAgree
<1>1. DOMAIN out = {} /\ DOMAIN back = {} /\ Undisturbed
  BY DEF Settled, Undisturbed
<1>2. ~EditorAsks /\ ~Asks("features") /\ ~Asks("static")
  BY <1>1 DEF EditorAsks, Asks
<1>3. \A good : ~Coming(back, good)
  BY <1>1 DEF Coming
<1>4. EditorCopied /\ unit = dev.unit
  BY <1>1, <1>2, <1>3 DEF DocsInv, EditorInv, UnitInv
<1>5. (~restored => SwitchesCopied) /\ (~unheard => CardCopied)
  BY <1>1, <1>2, <1>3 DEF DocsInv, SwitchesInv, CardShownInv
<1> QED  BY <1>4, <1>5 DEF EditorCopied, SwitchesCopied, CardCopied

-----------------------------------------------------------------------------
(* The presets and the stages.                                              *)

PresetUrls == PresetCards \cup {"features"}

\* An answer brings a list there was room for, what the stages were given, the
\* effect of the bar state, or nothing.
DocsFor(url) ==
  {Nothing} \cup (CASE url = "presets" -> Lists [] url = "stages" -> StageRows [] url = "features" -> Looks)
PresetAnswers ==
  {a \in [url : PresetUrls, kind : {"read", "again", "list", "apply", "assign"},
          doc : Lists \cup StageRows \cup Looks \cup {Nothing}, came : BOOLEAN] :
     a.doc \in DocsFor(a.url) /\ (a.kind = "apply" => a.url = "presets")}

ListsInv == answers \in Seq(PresetAnswers) /\ preDoc \in Lists \cup {Nothing}

\* Only a card that has asked has requests, answers and a copy; the effects
\* editor asks when the page loads.
Askers == asked \cup {"features"}
AskedInv ==
  /\ on \subseteq asked
  /\ \A i \in DOMAIN sent : sent[i].url \in Askers
  /\ \A i \in DOMAIN answers : answers[i].url \in Askers
  /\ preDoc # Nothing => "presets" \in asked

\* As long as nothing is lost a read is taken.
ReadsInv ==
  presetFaults = 0 =>
    \A i \in DOMAIN answers :
      answers[i].came /\ (answers[i].doc = Nothing => answers[i].kind \notin {"read", "again"})

\* The rows are drawn for what the page holds.
RowsInv == "stages" \in on /\ stgDoc # Nothing => drawnFor = [rows |-> stgDoc, names |-> Has]

DeviceHolds(url) == CASE url = "presets" -> saved [] url = "stages" -> stages [] url = "features" -> bar
PageHolds(url) == CASE url = "presets" -> preDoc [] url = "stages" -> stgDoc [] url = "features" -> barDoc
AnswersTo(url) == {a \in PresetAnswers : a.url = url}
Telling(url, doc) == {a \in AnswersTo(url) : a.doc = doc}

\* A request, and an answer, after which a document is on its way: the effects
\* editor's after an apply too.
AppliesTo(kind, url) == url = "features" /\ kind \in {"apply", "again"}
Makes(r, url) == r.url = url \/ AppliesTo(r.kind, url)
Due(a, url) == (a.url = url /\ a.doc = Nothing) \/ AppliesTo(a.kind, url)

\* Unless it is about to be asked for again, a document, or the last word on
\* its way, is what the device holds.
CardInv(url) ==
  /\ presetFaults = 0 /\ url \in Askers
  /\ \A i \in DOMAIN sent : ~Makes(sent[i], url)
  /\ \A i \in DOMAIN answers : ~Due(answers[i], url)
  => /\ Corrected(answers, AnswersTo(url), Telling(url, DeviceHolds(url)))
     /\ PageHolds(url) = DeviceHolds(url) \/ Coming(answers, Telling(url, DeviceHolds(url)))

PresetsInv ==
  /\ PresetsTypeOK /\ ListsInv /\ AskedInv /\ ReadsInv /\ RowsInv
  /\ \A url \in PresetUrls : CardInv(url)

\* The types in groups.
PresetDevice == saved \in Lists /\ stages \in StageRows /\ bar \in Looks
PresetPage ==
  /\ on \subseteq PresetCards /\ asked \subseteq PresetCards
  /\ stgDoc \in StageRows \cup {Nothing} /\ drawnFor \in Signatures \cup {Nothing}
  /\ barDoc \in Looks /\ tongue \in Tongues /\ rowsIn \in Tongues
PresetCounts == presetActs \in 0..PresetActs /\ presetFaults \in 0..PresetFaults

LEMMA PresetsTyped ==
  /\ PresetsTypeOK => PresetDevice /\ PresetPage /\ PresetCounts /\ sent \in Seq(PresetRequests)
  /\ PresetDevice' /\ PresetPage' /\ PresetCounts' /\ ListsInv' /\ sent' \in Seq(PresetRequests)
       => PresetsTypeOK'
<1>1. PresetsTypeOK => PresetDevice /\ PresetPage /\ PresetCounts /\ sent \in Seq(PresetRequests)
  BY DEF PresetsTypeOK, PresetDevice, PresetPage, PresetCounts
<1>2. ASSUME PresetDevice', PresetPage', PresetCounts', ListsInv', sent' \in Seq(PresetRequests)
      PROVE  PresetsTypeOK'
  <2>1. Lists \subseteq SUBSET Presets
    BY DEF Lists
  <2>2. ASSUME NEW i \in DOMAIN answers'
        PROVE  answers'[i].doc \in DocumentOf(answers'[i].url)
    <3>1. answers'[i] \in PresetAnswers
      BY <1>2 DEF ListsInv
    <3>2. answers'[i].url \in PresetUrls /\ answers'[i].doc \in DocsFor(answers'[i].url)
      BY <3>1 DEF PresetAnswers
    <3> QED  BY <2>1, <3>2 DEF DocsFor, DocumentOf, PresetUrls, PresetCards
  <2>3. preDoc' \in (SUBSET Presets) \cup {Nothing}
    <3>1. preDoc' \in Lists \/ preDoc' = Nothing
      BY <1>2 DEF ListsInv
    <3> QED  BY <2>1, <3>1
  <2> QED  BY <1>2, <2>2, <2>3 DEF PresetsTypeOK, PresetDevice, PresetPage, PresetCounts
<1> QED  BY <1>1, <1>2

\* A list that shrinks, or that grows where there is room, is one there is
\* room for.
LEMMA ListsGrow ==
  ASSUME NEW l \in Lists, NEW n \in Presets
  PROVE  /\ {} \in Lists /\ l \ {n} \in Lists
         /\ n \in l \/ Cardinality(l) < PresetMax => l \cup {n} \in Lists
<1>1. l \subseteq Presets /\ IsFiniteSet(l) /\ Cardinality(l) \in Nat /\ Cardinality(l) <= PresetMax
  BY PresetsAssumption, FS_Subset, FS_CardinalityType DEF Lists
<1>2. {} \in Lists
  BY PresetsAssumption, FS_EmptySet DEF Lists
<1>3. l \ {n} \in Lists
  <2>1. Cardinality(l \ {n}) = IF n \in l THEN Cardinality(l) - 1 ELSE Cardinality(l)
    BY <1>1, FS_RemoveElement
  <2>2. Cardinality(l \ {n}) <= PresetMax
    BY <1>1, <2>1, PresetsAssumption
  <2> QED  BY <1>1, <2>2 DEF Lists
<1>4. ASSUME n \in l \/ Cardinality(l) < PresetMax
      PROVE  l \cup {n} \in Lists
  <2>1. Cardinality(l \cup {n}) = IF n \in l THEN Cardinality(l) ELSE Cardinality(l) + 1
    BY <1>1, FS_AddElement
  <2>2. Cardinality(l \cup {n}) <= PresetMax
    BY <1>1, <1>4, <2>1, PresetsAssumption
  <2> QED  BY <1>1, <2>2 DEF Lists
<1> QED  BY <1>2, <1>3, <1>4

LEMMA PresetsStart == PresetsInit => PresetsInv
<1> SUFFICES ASSUME PresetsInit
             PROVE  PresetsInv
  OBVIOUS
<1>1. sent \in Seq(PresetRequests) /\ answers \in Seq(PresetAnswers) /\ DOMAIN sent = {} /\ DOMAIN answers = {}
  BY DEF PresetsInit
<1>2. PresetsTypeOK
  <2>1. saved \in Lists /\ stages \in StageRows /\ bar \in Looks /\ barDoc \in Looks
    BY DEF PresetsInit, StageRows, Looks
  <2>2. presetActs \in 0..PresetActs /\ presetFaults \in 0..PresetFaults
    BY PresetsAssumption DEF PresetsInit
  <2>3. on \subseteq PresetCards /\ asked \subseteq PresetCards /\ tongue \in Tongues /\ rowsIn \in Tongues
    BY DEF PresetsInit, Tongues
  <2>4. preDoc = Nothing /\ stgDoc = Nothing /\ drawnFor = Nothing
    BY DEF PresetsInit
  <2>5. \A i \in DOMAIN answers : answers[i].doc \in DocumentOf(answers[i].url)
    BY <1>1
  <2> QED  BY <1>1, <2>1, <2>2, <2>3, <2>4, <2>5 DEF PresetsTypeOK
<1>3. ListsInv /\ ReadsInv
  BY <1>1 DEF PresetsInit, ListsInv, ReadsInv
<1>4. AskedInv
  BY <1>1 DEF PresetsInit, AskedInv
<1>5. RowsInv
  BY DEF PresetsInit, RowsInv
<1>6. ASSUME NEW url \in PresetUrls
      PROVE  CardInv(url)
  <2>1. CASE url = "features"
    <3>1. PageHolds(url) = DeviceHolds(url)
      BY <2>1 DEF PresetsInit, PageHolds, DeviceHolds
    <3> QED  BY <1>1, <3>1 DEF CardInv, Corrected
  <2>2. CASE url # "features"
    BY <2>2 DEF PresetsInit, CardInv, Askers
  <2> QED  BY <2>1, <2>2
<1> QED  BY <1>2, <1>3, <1>4, <1>5, <1>6 DEF PresetsInv

\* What a request asks for.
LEMMA PresetKinds ==
  ASSUME NEW r \in PresetRequests
  PROVE  /\ r.url \in PresetUrls /\ r.kind \in {"read", "again", "list", "apply", "assign"}
         /\ r.kind = "list" => r.url = "presets" /\ r.list \in Lists
         /\ r.kind = "apply" => r.url = "presets" /\ r.name \in Presets
         /\ r.kind = "assign" => r.url = "stages" /\ r.stage \in Stages /\ r.name \in Presets \cup {Nothing}
BY DEF PresetRequests, PresetUrls, PresetCards

LEMMA CarriedOut ==
  ASSUME PresetDevice, NEW r \in PresetRequests, Carried(r) \/ UNCHANGED presetsHeld
  PROVE  /\ PresetDevice'
         /\ r.url # "presets" => saved' = saved
         /\ r.url # "stages" => stages' = stages
         /\ r.kind # "apply" => bar' = bar
<1>1. CASE UNCHANGED presetsHeld
  BY <1>1 DEF PresetDevice, presetsHeld
<1>2. CASE Carried(r)
  <2>1. saved' = (IF r.kind = "list" THEN r.list ELSE saved)
        /\ stages' = (IF r.kind = "assign" THEN [stages EXCEPT ![r.stage] = r.name] ELSE stages)
        /\ bar' = (IF r.kind = "apply" THEN r.name ELSE bar)
    BY <1>2 DEF Carried
  <2>2. saved' \in Lists /\ (r.url # "presets" => saved' = saved)
    BY <2>1, PresetKinds DEF PresetDevice
  <2>3. stages' \in StageRows /\ (r.url # "stages" => stages' = stages)
    BY <2>1, PresetKinds DEF PresetDevice, StageRows
  <2>4. bar' \in Looks /\ (r.kind # "apply" => bar' = bar)
    BY <2>1, PresetKinds DEF PresetDevice, Looks
  <2> QED  BY <2>2, <2>3, <2>4 DEF PresetDevice
<1> QED  BY <1>1, <1>2

\* What a served, or a lost, request leaves behind.
AnsweredPreset(r, a) ==
  /\ r \in PresetRequests /\ a \in PresetAnswers /\ a.url = r.url /\ a.kind = r.kind
  /\ sent # <<>> /\ r = Head(sent) /\ sent' = Tail(sent) /\ answers' = Append(answers, a)
  /\ PresetDevice'
  /\ r.url # "presets" => saved' = saved
  /\ r.url # "stages" => stages' = stages
  /\ r.kind # "apply" => bar' = bar
  /\ UNCHANGED presetsPage

LEMMA ListsNotNothing == /\ \A l \in Lists : l # Nothing
                         /\ \A r \in StageRows : r # Nothing
                         /\ \A b \in Looks : b # Nothing
BY PresetsAssumption DEF Lists, Looks

LEMMA PresetServeSays ==
  ASSUME PresetsInv, PresetsServe
  PROVE  /\ \E r, a : /\ AnsweredPreset(r, a) /\ a.came = TRUE
                      /\ a.doc = Nothing => a.kind \notin {"read", "again"}
                      /\ a.doc # Nothing => a.doc = DocOf(r.url)
         /\ UNCHANGED presetsBounds
<1> DEFINE r == Head(sent)
<1>1. sent \in Seq(PresetRequests) /\ sent # <<>> /\ sent' = Tail(sent) /\ PresetDevice
      /\ UNCHANGED presetsPage /\ UNCHANGED presetsBounds
  BY PresetsTyped DEF PresetsInv, PresetsServe
<1>2. r \in PresetRequests
  BY <1>1, Taken
<1>3. r.url \in PresetUrls /\ r.kind \in {"read", "again", "list", "apply", "assign"}
  BY <1>2, PresetKinds
<1>4. CASE Takes(r) /\ Carried(r) /\ Reply(r, DocOf(r.url), TRUE)
  <2> DEFINE a == [url |-> r.url, kind |-> r.kind, doc |-> DocOf(r.url), came |-> TRUE]
  <2>1. answers' = Append(answers, a)
    BY <1>4 DEF Reply
  <2>2. /\ PresetDevice'
        /\ r.url # "presets" => saved' = saved
        /\ r.url # "stages" => stages' = stages
        /\ r.kind # "apply" => bar' = bar
    BY <1>1, <1>2, <1>4, CarriedOut
  <2>3. DocOf(r.url) \in DocsFor(r.url) /\ DocOf(r.url) \in Lists \cup StageRows \cup Looks
    BY <1>3, <2>2 DEF DocOf, DocsFor, PresetDevice, PresetUrls, PresetCards
  <2>4. a \in PresetAnswers
    BY <1>2, <1>3, <2>3, PresetKinds DEF PresetAnswers
  <2>5. a.doc # Nothing
    BY <2>3, ListsNotNothing
  <2>6. AnsweredPreset(r, a)
    BY <1>1, <1>2, <2>1, <2>2, <2>4 DEF AnsweredPreset
  <2> QED  BY <1>1, <2>5, <2>6
<1>5. CASE (~Takes(r) \/ BringsEffect(r)) /\ Reply(r, Nothing, TRUE) /\ UNCHANGED presetsHeld
  <2> DEFINE a == [url |-> r.url, kind |-> r.kind, doc |-> Nothing, came |-> TRUE]
  <2>1. answers' = Append(answers, a)
    BY <1>5 DEF Reply
  <2>2. /\ PresetDevice'
        /\ r.url # "presets" => saved' = saved
        /\ r.url # "stages" => stages' = stages
        /\ r.kind # "apply" => bar' = bar
    BY <1>1, <1>2, <1>5, CarriedOut
  <2>3. a \in PresetAnswers
    BY <1>2, <1>3, PresetKinds DEF PresetAnswers, DocsFor
  <2>4. a.kind \notin {"read", "again"}
    BY <1>5 DEF Takes, BringsEffect
  <2>5. AnsweredPreset(r, a)
    BY <1>1, <1>2, <2>1, <2>2, <2>3 DEF AnsweredPreset
  <2> QED  BY <1>1, <2>4, <2>5
<1> QED  BY <1>4, <1>5 DEF PresetsServe

LEMMA PresetLoseSays ==
  ASSUME PresetsInv, PresetsLose
  PROVE  \E r, a : AnsweredPreset(r, a)
<1> DEFINE r == Head(sent)
           a == [url |-> r.url, kind |-> r.kind, doc |-> Nothing, came |-> FALSE]
<1>1. sent \in Seq(PresetRequests) /\ sent # <<>> /\ sent' = Tail(sent) /\ PresetDevice
      /\ UNCHANGED presetsPage
  BY PresetsTyped DEF PresetsInv, PresetsLose
<1>2. r \in PresetRequests
  BY <1>1, Taken
<1>3. r.url \in PresetUrls /\ r.kind \in {"read", "again", "list", "apply", "assign"}
  BY <1>2, PresetKinds
<1>4. answers' = Append(answers, a) /\ (Carried(r) \/ UNCHANGED presetsHeld)
  BY DEF PresetsLose, Reply
<1>5. /\ PresetDevice'
      /\ r.url # "presets" => saved' = saved
      /\ r.url # "stages" => stages' = stages
      /\ r.kind # "apply" => bar' = bar
  BY <1>1, <1>2, <1>4, CarriedOut
<1>6. a \in PresetAnswers
  BY <1>2, <1>3, PresetKinds DEF PresetAnswers, DocsFor
<1>7. AnsweredPreset(r, a)
  BY <1>1, <1>2, <1>4, <1>5, <1>6 DEF AnsweredPreset
<1> QED  BY <1>7

\* The shape is kept, and every request and answer is still on its way, but
\* for the one that was answered.
LEMMA AnsweredKeeps ==
  ASSUME PresetsInv, NEW r, NEW a, AnsweredPreset(r, a), PresetCounts'
  PROVE  /\ PresetsTypeOK' /\ ListsInv' /\ AskedInv' /\ RowsInv'
         /\ \A j \in DOMAIN sent : sent[j] = r \/ \E i \in DOMAIN sent' : sent'[i] = sent[j]
         /\ \E i \in DOMAIN answers' : answers'[i] = a
         /\ \A i \in DOMAIN answers' : answers'[i] = a \/ \E j \in DOMAIN answers : answers[j] = answers'[i]
         /\ \A j \in DOMAIN answers : \E i \in DOMAIN answers' : answers'[i] = answers[j]
<1>0. sent \in Seq(PresetRequests) /\ PresetPage /\ answers \in Seq(PresetAnswers)
      /\ preDoc \in Lists \cup {Nothing}
  BY PresetsTyped DEF PresetsInv, ListsInv
<1>1. PICK o : o = sent'
  OBVIOUS
<1>2. PICK b : b = answers'
  OBVIOUS
<1>3. /\ o \in Seq(PresetRequests)
      /\ \E i \in DOMAIN sent : sent[i] = r
      /\ \A i \in DOMAIN o : \E j \in DOMAIN sent : sent[j] = o[i]
      /\ \A j \in DOMAIN sent : sent[j] = r \/ \E i \in DOMAIN o : o[i] = sent[j]
  <2>1. sent # <<>> /\ r = Head(sent) /\ o = Tail(sent)
    BY <1>1 DEF AnsweredPreset
  <2> QED  BY <1>0, <2>1, Taken
<1>4. /\ b \in Seq(PresetAnswers)
      /\ \E i \in DOMAIN b : b[i] = a
      /\ \A i \in DOMAIN b : b[i] = a \/ \E j \in DOMAIN answers : answers[j] = b[i]
      /\ \A j \in DOMAIN answers : \E i \in DOMAIN b : b[i] = answers[j]
  <2>1. b = Append(answers, a) /\ a \in PresetAnswers /\ answers \in Seq(PresetAnswers)
    BY <1>0, <1>2 DEF AnsweredPreset
  <2>2. b \in Seq(PresetAnswers) /\ \E i \in DOMAIN b : b[i] = a
    BY <2>1, Added
  <2>3. \A i \in DOMAIN b : b[i] = a \/ \E j \in DOMAIN answers : answers[j] = b[i]
    BY <2>1, Added
  <2>4. ASSUME NEW j \in DOMAIN answers
        PROVE  \E i \in DOMAIN b : b[i] = answers[j]
    BY <2>1, Added
  <2> QED  BY <2>2, <2>3, <2>4
<1>5. UNCHANGED <<on, asked, preDoc, stgDoc, barDoc, drawnFor, tongue, rowsIn>>
  BY DEF AnsweredPreset, presetsPage
<1>6. PresetPage'
  BY <1>0, <1>5 DEF PresetPage
<1>7. ListsInv'
  BY <1>0, <1>2, <1>4, <1>5 DEF ListsInv
<1>8. PresetsTypeOK'
  <2>1. sent' \in Seq(PresetRequests) /\ PresetDevice'
    BY <1>1, <1>3 DEF AnsweredPreset
  <2> QED  BY <1>6, <1>7, <2>1, PresetsTyped
<1>9. AskedInv'
  <2>1. /\ on \subseteq asked /\ (preDoc # Nothing => "presets" \in asked)
        /\ \A i \in DOMAIN sent : sent[i].url \in Askers
        /\ \A i \in DOMAIN answers : answers[i].url \in Askers
    BY DEF PresetsInv, AskedInv
  <2>2. r.url \in Askers /\ a.url \in Askers
    BY <1>3, <2>1 DEF AnsweredPreset
  <2>3. \A i \in DOMAIN o : o[i].url \in Askers
    BY <1>3, <2>1
  <2>4. \A i \in DOMAIN b : b[i].url \in Askers
    BY <1>4, <2>1, <2>2
  <2> QED  BY <1>1, <1>2, <1>5, <2>1, <2>3, <2>4 DEF AskedInv, Askers
<1>10. RowsInv'
  BY <1>5 DEF PresetsInv, RowsInv, Has
<1> QED  BY <1>1, <1>2, <1>3, <1>4, <1>7, <1>8, <1>9, <1>10

LEMMA PresetsServeKeeps == PresetsInv /\ PresetsServe => PresetsInv'
<1> SUFFICES ASSUME PresetsInv, PresetsServe
             PROVE  PresetsInv'
  OBVIOUS
<1>1. PICK r, a : /\ AnsweredPreset(r, a) /\ a.came = TRUE
                  /\ a.doc = Nothing => a.kind \notin {"read", "again"}
                  /\ a.doc # Nothing => a.doc = DocOf(r.url)
  BY PresetServeSays
<1>2. UNCHANGED presetsBounds
  BY PresetServeSays
<1>3. PresetCounts'
  <2>1. PresetCounts
    BY PresetsTyped DEF PresetsInv
  <2> QED  BY <1>2, <2>1 DEF PresetCounts, presetsBounds
<1>4. /\ PresetsTypeOK' /\ ListsInv' /\ AskedInv' /\ RowsInv'
      /\ \A j \in DOMAIN sent : sent[j] = r \/ \E i \in DOMAIN sent' : sent'[i] = sent[j]
      /\ \E i \in DOMAIN answers' : answers'[i] = a
      /\ \A i \in DOMAIN answers' : answers'[i] = a \/ \E j \in DOMAIN answers : answers[j] = answers'[i]
      /\ \A j \in DOMAIN answers : \E i \in DOMAIN answers' : answers'[i] = answers[j]
  BY <1>1, <1>3, AnsweredKeeps
<1>5. ReadsInv'
  BY <1>1, <1>2, <1>4 DEF PresetsInv, ReadsInv, presetsBounds
<1>6. ASSUME NEW url \in PresetUrls
      PROVE  CardInv(url)'
  <2> DEFINE good == Telling(url, DeviceHolds(url)')
             w == AnswersTo(url)
  <2> SUFFICES ASSUME presetFaults = 0, url \in Askers,
                      \A i \in DOMAIN sent' : ~Makes(sent'[i], url),
                      \A i \in DOMAIN answers' : ~Due(answers'[i], url)
               PROVE  Corrected(answers', w, good)
                      /\ (PageHolds(url)' = DeviceHolds(url)' \/ Coming(answers', good))
    BY <1>1, <1>2 DEF CardInv, Askers, AnsweredPreset, presetsPage, presetsBounds
  <2>1. /\ a \in good => Corrected(answers', w, good) /\ Coming(answers', good)
        /\ a \notin w /\ Corrected(answers, w, good) => Corrected(answers', w, good)
        /\ Coming(answers, good) => Coming(answers', good)
    <3>1. answers \in Seq(PresetAnswers) /\ a \in PresetAnswers
      BY <1>1 DEF PresetsInv, ListsInv, AnsweredPreset
    <3>2. PICK b : b = answers' /\ b = Append(answers, a)
      BY <1>1 DEF AnsweredPreset
    <3>3. /\ a \in good => Corrected(b, w, good) /\ Coming(b, good)
          /\ a \notin w /\ Corrected(answers, w, good) => Corrected(b, w, good)
          /\ Coming(answers, good) => Coming(b, good)
      BY <3>1, <3>2, WordAdded
    <3> QED  BY <3>2, <3>3
  <2>2. CASE a.url = url
    <3>1. a.doc = DocOf(url) /\ a \in PresetAnswers
      BY <1>1, <1>4, <2>2 DEF AnsweredPreset, Due
    <3>2. a \in good
      BY <2>2, <3>1 DEF Telling, AnswersTo, DocOf, DeviceHolds
    <3> QED  BY <2>1, <3>2
  <2>3. CASE a.url # url
    <3>1. a \notin w
      BY <2>3 DEF AnswersTo
    <3>a. ~Makes(r, url) /\ (url = "features" => r.kind # "apply")
      BY <1>1, <1>4, <2>3 DEF AnsweredPreset, Makes, Due, AppliesTo
    <3>2. DeviceHolds(url)' = DeviceHolds(url) /\ PageHolds(url)' = PageHolds(url)
      BY <1>1, <2>3, <3>a DEF AnsweredPreset, presetsPage, DeviceHolds, PageHolds, PresetUrls, PresetCards
    <3>3. \A i \in DOMAIN sent : ~Makes(sent[i], url)
      BY <1>4, <3>a
    <3>4. \A i \in DOMAIN answers : ~Due(answers[i], url)
      BY <1>4
    <3>5. Corrected(answers, w, good) /\ (PageHolds(url) = DeviceHolds(url) \/ Coming(answers, good))
      BY <3>2, <3>3, <3>4 DEF PresetsInv, CardInv
    <3> QED  BY <2>1, <3>1, <3>2, <3>5
  <2> QED  BY <2>2, <2>3
<1> QED  BY <1>4, <1>5, <1>6 DEF PresetsInv

LEMMA FaultCounts == PresetsInv /\ PresetFault => PresetCounts' /\ presetFaults' # 0
BY PresetsAssumption, PresetsTyped DEF PresetsInv, PresetFault, PresetCounts

LEMMA PresetsFaultKeeps == PresetsInv /\ (PresetsLose \/ PresetsElsewhere) => PresetsInv'
<1> SUFFICES ASSUME PresetsInv, PresetsLose \/ PresetsElsewhere
             PROVE  PresetsInv'
  OBVIOUS
<1>1. PresetCounts' /\ presetFaults' # 0
  BY FaultCounts DEF PresetsLose, PresetsElsewhere
<1>2. ReadsInv' /\ \A url \in PresetUrls : CardInv(url)'
  BY <1>1 DEF ReadsInv, CardInv
<1>3. CASE PresetsLose
  <2>1. PICK r, a : AnsweredPreset(r, a)
    BY <1>3, PresetLoseSays
  <2> QED  BY <1>1, <1>2, <2>1, AnsweredKeeps DEF PresetsInv
<1>4. CASE PresetsElsewhere
  <2>0. PresetDevice /\ PresetPage /\ sent \in Seq(PresetRequests)
    BY PresetsTyped DEF PresetsInv
  <2>1. UNCHANGED <<stages, bar, sent, answers, on, asked, preDoc, stgDoc, barDoc, drawnFor, tongue, rowsIn>> /\ saved' \in Lists
    BY <1>4 DEF PresetsElsewhere, presetsPage
  <2>2. ListsInv' /\ AskedInv' /\ RowsInv'
    BY <2>1 DEF PresetsInv, ListsInv, AskedInv, Askers, RowsInv, Has
  <2>3. PresetDevice' /\ PresetPage' /\ sent' \in Seq(PresetRequests)
    BY <2>0, <2>1 DEF PresetDevice, PresetPage
  <2> QED  BY <1>1, <1>2, <2>2, <2>3, PresetsTyped DEF PresetsInv
<1> QED  BY <1>3, <1>4

\* The members of two queues one after the other.
Joins(b, q, r) ==
  /\ \A i \in DOMAIN b : (\E j \in DOMAIN q : q[j] = b[i]) \/ (\E j \in DOMAIN r : r[j] = b[i])
  /\ \A j \in DOMAIN q : \E i \in DOMAIN b : b[i] = q[j]
  /\ \A j \in DOMAIN r : \E i \in DOMAIN b : b[i] = r[j]

LEMMA Joined ==
  ASSUME NEW S, NEW q \in Seq(S), NEW r \in Seq(S)
  PROVE  q \o r \in Seq(S) /\ Joins(q \o r, q, r)
<1> DEFINE b == q \o r
<1>1. /\ b \in Seq(S) /\ Len(q) \in Nat /\ Len(r) \in Nat
      /\ DOMAIN q = 1..Len(q) /\ DOMAIN r = 1..Len(r) /\ DOMAIN b = 1..(Len(q) + Len(r))
      /\ \A i \in 1..(Len(q) + Len(r)) : b[i] = IF i <= Len(q) THEN q[i] ELSE r[i - Len(q)]
  OBVIOUS
<1> HIDE DEF b
<1>2. ASSUME NEW i \in DOMAIN b
      PROVE  (\E j \in DOMAIN q : q[j] = b[i]) \/ (\E j \in DOMAIN r : r[j] = b[i])
  <2>1. CASE i <= Len(q)
    BY <1>1, <2>1
  <2>2. CASE i > Len(q)
    <3>1. i - Len(q) \in DOMAIN r /\ b[i] = r[i - Len(q)]
      BY <1>1, <2>2
    <3> QED  BY <3>1
  <2> QED  BY <1>1, <2>1, <2>2
<1>3. ASSUME NEW j \in DOMAIN q
      PROVE  \E i \in DOMAIN b : b[i] = q[j]
  <2>1. j \in DOMAIN b /\ b[j] = q[j]
    BY <1>1
  <2> QED  BY <2>1
<1>4. ASSUME NEW j \in DOMAIN r
      PROVE  \E i \in DOMAIN b : b[i] = r[j]
  <2>1. j + Len(q) \in DOMAIN b /\ (j + Len(q)) - Len(q) = j /\ ~(j + Len(q) <= Len(q))
    BY <1>1
  <2>2. b[j + Len(q)] = r[j]
    BY <1>1, <2>1
  <2> QED  BY <2>1, <2>2
<1> QED  BY <1>1, <1>2, <1>3, <1>4 DEF Joins, b

\* A card that is first shown asks, and no other.
LEMMA FirstAskOf ==
  ASSUME NEW url \in PresetCards, NEW f, f = FirstAsk(url)
  PROVE  /\ f \in Seq(PresetRequests)
         /\ \A i \in DOMAIN f : f[i].url = url /\ url \in on'
         /\ url \in on' \ asked => \E i \in DOMAIN f : f[i].url = url
<1>1. Read(url) \in PresetRequests /\ Read(url).url = url
  BY DEF Read, PresetRequests
<1>2. CASE url \in on' \ asked
  <2>1. f = <<Read(url)>>
    BY <1>2 DEF FirstAsk
  <2>2. f \in Seq(PresetRequests) /\ DOMAIN f = 1..1 /\ f[1] = Read(url)
    BY <1>1, <2>1
  <2> QED  BY <1>1, <1>2, <2>2
<1>3. CASE url \notin on' \ asked
  <2>1. f = <<>>
    BY <1>3 DEF FirstAsk
  <2>2. f \in Seq(PresetRequests) /\ DOMAIN f = {}
    BY <2>1
  <2> QED  BY <1>3, <2>2
<1> QED  BY <1>2, <1>3

LEMMA FirstAsksOf ==
  ASSUME NEW f, f = FirstAsks
  PROVE  /\ f \in Seq(PresetRequests)
         /\ \A i \in DOMAIN f : f[i].url \in on'
         /\ \A url \in PresetCards \cap on' : url \notin asked => \E i \in DOMAIN f : f[i].url = url
<1>1. PICK p : p = FirstAsk("presets")
  OBVIOUS
<1>2. PICK s : s = FirstAsk("stages")
  OBVIOUS
<1>3. /\ p \in Seq(PresetRequests)
      /\ \A i \in DOMAIN p : p[i].url \in on'
      /\ "presets" \in on' \ asked => \E i \in DOMAIN p : p[i].url = "presets"
  BY <1>1, FirstAskOf DEF PresetCards
<1>4. /\ s \in Seq(PresetRequests)
      /\ \A i \in DOMAIN s : s[i].url \in on'
      /\ "stages" \in on' \ asked => \E i \in DOMAIN s : s[i].url = "stages"
  BY <1>2, FirstAskOf DEF PresetCards
<1>5. f = p \o s
  BY <1>1, <1>2 DEF FirstAsks
<1>6. f \in Seq(PresetRequests)
  BY <1>3, <1>4, <1>5
<1>7. Joins(f, p, s)
  BY <1>3, <1>4, <1>5, Joined
<1>10. \A i \in DOMAIN f : f[i].url \in on'
  BY <1>3, <1>4, <1>7 DEF Joins
<1>11. ASSUME NEW url \in PresetCards \cap on', url \notin asked
       PROVE  \E i \in DOMAIN f : f[i].url = url
  <2>1. CASE url = "presets"
    BY <1>3, <1>7, <1>11, <2>1 DEF Joins
  <2>2. CASE url = "stages"
    BY <1>4, <1>7, <1>11, <2>2 DEF Joins
  <2> QED  BY <2>1, <2>2 DEF PresetCards
<1> QED  BY <1>6, <1>10, <1>11

\* The requests after a drawing: those there were, one more perhaps, and the
\* first reads.
LEMMA AsksJoin ==
  ASSUME sent \in Seq(PresetRequests), NEW x \in Seq(PresetRequests), sent' = sent \o x \o FirstAsks
  PROVE  /\ sent' \in Seq(PresetRequests)
         /\ \A i \in DOMAIN sent' : \/ \E j \in DOMAIN sent : sent[j] = sent'[i]
                                    \/ \E j \in DOMAIN x : x[j] = sent'[i]
                                    \/ sent'[i].url \in on'
         /\ \A j \in DOMAIN sent : \E i \in DOMAIN sent' : sent'[i] = sent[j]
         /\ \A j \in DOMAIN x : \E i \in DOMAIN sent' : sent'[i] = x[j]
         /\ \A url \in PresetCards \cap on' : url \notin asked => \E i \in DOMAIN sent' : sent'[i].url = url
<1>1. PICK f : f = FirstAsks
  OBVIOUS
<1>2. /\ f \in Seq(PresetRequests)
      /\ \A i \in DOMAIN f : f[i].url \in on'
      /\ \A url \in PresetCards \cap on' : url \notin asked => \E i \in DOMAIN f : f[i].url = url
  BY <1>1, FirstAsksOf
<1>3. PICK q : q = sent
  OBVIOUS
<1>4. PICK c : c = q \o x
  OBVIOUS
<1>5. PICK b : b = sent' /\ b = c \o f
  BY <1>1, <1>3, <1>4
<1>6. q \in Seq(PresetRequests) /\ c \in Seq(PresetRequests)
  BY <1>3, <1>4
<1>7. b \in Seq(PresetRequests)
  BY <1>2, <1>5, <1>6
<1>8. Joins(c, q, x)
  BY <1>4, <1>6, Joined
<1>9. Joins(b, c, f)
  BY <1>2, <1>5, <1>6, Joined
<1>10. ASSUME NEW i \in DOMAIN b
       PROVE  \/ \E j \in DOMAIN q : q[j] = b[i]
              \/ \E j \in DOMAIN x : x[j] = b[i]
              \/ b[i].url \in on'
  <2>1. CASE \E j \in DOMAIN f : f[j] = b[i]
    BY <1>2, <2>1
  <2>2. CASE \E k \in DOMAIN c : c[k] = b[i]
    <3>1. PICK k \in DOMAIN c : c[k] = b[i]
      BY <2>2
    <3>2. (\E j \in DOMAIN q : q[j] = c[k]) \/ (\E j \in DOMAIN x : x[j] = c[k])
      BY <1>8 DEF Joins
    <3> QED  BY <3>1, <3>2
  <2> QED  BY <1>9, <2>1, <2>2 DEF Joins
<1>11. \A j \in DOMAIN q : \E i \in DOMAIN b : b[i] = q[j]
  BY <1>8, <1>9 DEF Joins
<1>12. \A j \in DOMAIN x : \E i \in DOMAIN b : b[i] = x[j]
  BY <1>8, <1>9 DEF Joins
<1>13. \A url \in PresetCards \cap on' : url \notin asked => \E i \in DOMAIN b : b[i].url = url
  BY <1>2, <1>9 DEF Joins
<1>14. b = sent'
  BY <1>5
<1>15. sent' \in Seq(PresetRequests)
  BY <1>7, <1>14
<1>16. \A i \in DOMAIN sent' : \/ \E j \in DOMAIN sent : sent[j] = sent'[i]
                               \/ \E j \in DOMAIN x : x[j] = sent'[i]
                               \/ sent'[i].url \in on'
  BY <1>3, <1>10, <1>14, Zenon
<1>17. \A j \in DOMAIN sent : \E i \in DOMAIN sent' : sent'[i] = sent[j]
  BY <1>3, <1>11, <1>14, Zenon
<1>18. \A j \in DOMAIN x : \E i \in DOMAIN sent' : sent'[i] = x[j]
  BY <1>12, <1>14, Zenon
<1>19. \A url \in PresetCards \cap on' : url \notin asked => \E i \in DOMAIN sent' : sent'[i].url = url
  BY <1>13, <1>14, Zenon
<1> QED  BY <1>15, <1>16, <1>17, <1>18, <1>19, Zenon

\* A drawing leaves the rows as the page's documents say.
LEMMA RenderDraws ==
  ASSUME PresetsInv, Render, on' \subseteq PresetCards, tongue' \in Tongues,
         preDoc' \in Lists \cup {Nothing}, stgDoc' \in StageRows \cup {Nothing}, barDoc' \in Looks
  PROVE  PresetPage' /\ RowsInv' /\ asked' = asked \cup on'
<1>0. PresetPage
  BY PresetsTyped DEF PresetsInv
<1>1. asked' = asked \cup on' /\ asked' \subseteq PresetCards
  BY <1>0 DEF Render, PresetPage
<1>2. PresetList = Has'
  BY DEF PresetList, Has
<1>3. Signature = [rows |-> stgDoc', names |-> Has']
  BY <1>2 DEF Signature
<1>4. CASE "stages" \in on' /\ stgDoc' # Nothing /\ Signature # drawnFor
  <2>1. drawnFor' = Signature /\ rowsIn' = tongue'
    BY <1>4 DEF Render, BuildStages
  <2>2. Has' \in SUBSET Presets
    BY DEF Has, Lists
  <2>3. Signature \in Signatures
    BY <1>3, <1>4, <2>2 DEF Signatures
  <2>4. PresetPage'
    BY <1>1, <2>1, <2>3 DEF PresetPage
  <2> QED  BY <1>1, <1>3, <2>1, <2>4 DEF RowsInv
<1>5. CASE ~("stages" \in on' /\ stgDoc' # Nothing /\ Signature # drawnFor)
  <2>1. UNCHANGED <<drawnFor, rowsIn>>
    BY <1>5 DEF Render, BuildStages
  <2>2. PresetPage'
    BY <1>0, <1>1, <2>1 DEF PresetPage
  <2>3. RowsInv'
    BY <1>3, <1>5, <2>1 DEF RowsInv
  <2> QED  BY <1>1, <2>2, <2>3
<1> QED  BY <1>4, <1>5


\* The cards drawn again: nothing that was on its way is lost.
LEMMA DrawsKeep == PresetsInv /\ (Shown \/ Speaks) => PresetsInv'
<1> SUFFICES ASSUME PresetsInv, Shown \/ Speaks
             PROVE  PresetsInv'
  OBVIOUS
<1>1. /\ UNCHANGED <<saved, stages, bar, answers, preDoc, stgDoc, barDoc, presetFaults>>
      /\ Render /\ on' \subseteq PresetCards /\ tongue' \in Tongues
      /\ sent' = sent \o FirstAsks /\ PresetCounts' /\ PresetDevice'
  <2>0. PresetDevice /\ PresetPage /\ PresetCounts
    BY PresetsTyped DEF PresetsInv
  <2>1. PresetCounts'
    BY <2>0, PresetsAssumption DEF PresetCounts, Shown, Speaks
  <2> QED  BY <2>0, <2>1 DEF Shown, Speaks, PresetPage, PresetDevice, presetsHeld
<1>2. PresetPage' /\ RowsInv' /\ asked' = asked \cup on'
  <2>1. preDoc' \in Lists \cup {Nothing} /\ stgDoc' \in StageRows \cup {Nothing} /\ barDoc' \in Looks
    <3>1. PresetPage
      BY PresetsTyped DEF PresetsInv
    <3> QED  BY <1>1, <3>1 DEF PresetsInv, ListsInv, PresetPage
  <2> QED  BY <1>1, <2>1, RenderDraws
<1>3. /\ sent' \in Seq(PresetRequests)
      /\ \A i \in DOMAIN sent' : (\E j \in DOMAIN sent : sent[j] = sent'[i]) \/ sent'[i].url \in on'
      /\ \A j \in DOMAIN sent : \E i \in DOMAIN sent' : sent'[i] = sent[j]
      /\ \A url \in PresetCards \cap on' : url \notin asked => \E i \in DOMAIN sent' : sent'[i].url = url
  <2>1. PICK f : f = FirstAsks
    OBVIOUS
  <2>2. PICK b : b = sent' /\ b = sent \o f
    BY <1>1, <2>1
  <2>3. sent \in Seq(PresetRequests)
    BY PresetsTyped DEF PresetsInv
  <2>4. /\ f \in Seq(PresetRequests)
        /\ \A i \in DOMAIN f : f[i].url \in on'
        /\ \A url \in PresetCards \cap on' : url \notin asked => \E i \in DOMAIN f : f[i].url = url
    BY <2>1, FirstAsksOf
  <2>5. b \in Seq(PresetRequests) /\ Joins(b, sent, f)
    BY <2>2, <2>3, <2>4, Joined
  <2>6. b = sent'
    BY <2>2
  <2> HIDE <2>2
  <2> QED  BY <2>4, <2>5, <2>6 DEF Joins
<1>4. ListsInv' /\ ReadsInv'
  BY <1>1 DEF PresetsInv, ListsInv, ReadsInv
<1>5. AskedInv'
  BY <1>1, <1>2, <1>3 DEF PresetsInv, AskedInv, Askers
<1>6. ASSUME NEW url \in PresetUrls
      PROVE  CardInv(url)'
  <2> SUFFICES ASSUME url \in Askers', \A i \in DOMAIN sent' : ~Makes(sent'[i], url)
               PROVE  CardInv(url)'
    BY DEF CardInv
  <2>1. url \in Askers
    BY <1>2, <1>3 DEF Askers, Makes, PresetUrls
  <2>2. \A i \in DOMAIN sent : ~Makes(sent[i], url)
    BY <1>3
  <2> QED  BY <1>1, <2>1, <2>2 DEF PresetsInv, CardInv, PageHolds, DeviceHolds
<1> QED  BY <1>1, <1>2, <1>3, <1>4, <1>5, <1>6, PresetsTyped DEF PresetsInv

\* What follows an answer: a refusal is read again, and an apply, however it
\* ended, makes the effects editor ask.
LEMMA FollowUpOf ==
  ASSUME NEW a \in PresetAnswers, NEW x, x = FollowUp(a)
  PROVE  /\ x \in Seq(PresetRequests)
         /\ \A i \in DOMAIN x : x[i].url \in {a.url, "features"}
         /\ \A url \in PresetUrls :
              Due(a, url) /\ a.came /\ (a.doc = Nothing => a.kind \notin {"read", "again"})
                => \E i \in DOMAIN x : Makes(x[i], url)
<1>0. a.url \in PresetUrls
  BY DEF PresetAnswers
<1>1. CASE a.kind \in {"apply", "again"} /\ ~Refused(a)
  <2>1. x = <<Read("features")>> /\ Read("features") \in PresetRequests /\ Read("features").url = "features"
    BY <1>1 DEF FollowUp, Read, PresetRequests
  <2>2. x \in Seq(PresetRequests) /\ DOMAIN x = 1..1 /\ x[1].url = "features"
    BY <2>1
  <2>3. a.came => a.doc # Nothing \/ a.kind \in {"read", "again"}
    BY <1>1 DEF Refused
  <2> QED  BY <2>2, <2>3 DEF Due, Makes, AppliesTo
<1>2. CASE a.kind = "apply" /\ Refused(a)
  <2> DEFINE again == [url |-> "presets", kind |-> "again"]
  <2>1. x = <<again>> /\ again \in PresetRequests /\ again.url = "presets" /\ again.kind = "again"
    BY <1>2 DEF FollowUp, PresetRequests
  <2>2. x \in Seq(PresetRequests) /\ DOMAIN x = 1..1 /\ x[1].url = "presets" /\ x[1].kind = "again"
    BY <2>1
  <2>3. a.url = "presets"
    BY <1>2 DEF PresetAnswers
  <2> QED  BY <2>2, <2>3 DEF Due, Makes, AppliesTo
<1>3. CASE a.kind \notin {"apply", "again"} /\ Refused(a)
  <2>1. x = <<Read(a.url)>> /\ Read(a.url) \in PresetRequests /\ Read(a.url).url = a.url
    BY <1>0, <1>3 DEF FollowUp, Read, PresetRequests, PresetUrls
  <2>2. x \in Seq(PresetRequests) /\ DOMAIN x = 1..1 /\ x[1].url = a.url
    BY <2>1
  <2> QED  BY <1>3, <2>2 DEF Due, Makes, AppliesTo
<1>4. CASE a.kind \notin {"apply", "again"} /\ ~Refused(a)
  <2>1. x = <<>>
    BY <1>4 DEF FollowUp
  <2>2. x \in Seq(PresetRequests) /\ DOMAIN x = {}
    BY <2>1
  <2>3. a.came /\ (a.doc = Nothing => a.kind \notin {"read", "again"}) => a.doc # Nothing
    BY <1>4 DEF Refused
  <2>4. \A url \in PresetUrls : ~AppliesTo(a.kind, url)
    BY <1>4 DEF AppliesTo
  <2>5. \A url \in PresetUrls :
          ~(Due(a, url) /\ a.came /\ (a.doc = Nothing => a.kind \notin {"read", "again"}))
    BY <2>3, <2>4 DEF Due
  <2>6. \A i \in DOMAIN x : x[i].url \in {a.url, "features"}
    BY <2>2
  <2> QED  BY <2>2, <2>5, <2>6
<1>5. Refused(a) => a.kind # "again"
  BY DEF Refused
<1> QED  BY <1>1, <1>2, <1>3, <1>4, <1>5

\* An answer: a document that came is the page's, a refusal is read again.
LEMMA PresetsLandKeeps == PresetsInv /\ PresetsLand => PresetsInv'
<1> SUFFICES ASSUME PresetsInv, PresetsLand
             PROVE  PresetsInv'
  OBVIOUS
<1> DEFINE a == Head(answers)
<1>1. /\ UNCHANGED <<saved, stages, bar, presetActs, presetFaults, on, tongue>>
      /\ answers # <<>> /\ answers' = Tail(answers)
      /\ preDoc' = (IF a.url = "presets" THEN Newest(preDoc, a.doc) ELSE preDoc)
      /\ stgDoc' = (IF a.url = "stages" THEN Newest(stgDoc, a.doc) ELSE stgDoc)
      /\ barDoc' = (IF a.url = "features" THEN Newest(barDoc, a.doc) ELSE barDoc)
      /\ Render /\ sent' = sent \o FollowUp(a) \o FirstAsks
  BY DEF PresetsLand, presetsHeld, presetsBounds
<1>2. /\ answers \in Seq(PresetAnswers) /\ preDoc \in Lists \cup {Nothing} /\ PresetPage
      /\ PresetDevice /\ PresetCounts /\ sent \in Seq(PresetRequests)
  BY PresetsTyped DEF PresetsInv, ListsInv
<1>3. /\ answers' \in Seq(PresetAnswers) /\ a \in PresetAnswers
      /\ \E i \in DOMAIN answers : answers[i] = a
      /\ \A i \in DOMAIN answers' : \E j \in DOMAIN answers : answers[j] = answers'[i]
      /\ \A j \in DOMAIN answers : answers[j] = a \/ \E i \in DOMAIN answers' : answers'[i] = answers[j]
  <2>1. PICK b : b = answers' /\ b = Tail(answers)
    BY <1>1
  <2>2. /\ b \in Seq(PresetAnswers) /\ a \in PresetAnswers
        /\ \E i \in DOMAIN answers : answers[i] = a
        /\ \A i \in DOMAIN b : \E j \in DOMAIN answers : answers[j] = b[i]
        /\ \A j \in DOMAIN answers : answers[j] = a \/ \E i \in DOMAIN b : b[i] = answers[j]
    BY <1>1, <1>2, <2>1, Taken
  <2> QED  BY <2>1, <2>2
<1> HIDE DEF a
<1>4. /\ a.url \in PresetUrls /\ a.url \in Askers /\ a.doc \in DocsFor(a.url)
      /\ presetFaults = 0 => a.came /\ (a.doc = Nothing => a.kind \notin {"read", "again"})
  <2>1. a.url \in Askers
    BY <1>3 DEF PresetsInv, AskedInv
  <2>2. presetFaults = 0 => a.came /\ (a.doc = Nothing => a.kind \notin {"read", "again"})
    BY <1>3 DEF PresetsInv, ReadsInv
  <2> QED  BY <1>3, <2>1, <2>2 DEF PresetAnswers
<1>5. preDoc' \in Lists \cup {Nothing} /\ stgDoc' \in StageRows \cup {Nothing} /\ barDoc' \in Looks
  <2>1. stgDoc \in StageRows \cup {Nothing} /\ barDoc \in Looks
    BY <1>2 DEF PresetPage
  <2>2. /\ a.url = "presets" => a.doc \in Lists \cup {Nothing}
        /\ a.url = "stages" => a.doc \in StageRows \cup {Nothing}
        /\ a.url = "features" => a.doc \in Looks \cup {Nothing}
    BY <1>4 DEF DocsFor
  <2> QED  BY <1>1, <1>2, <2>1, <2>2 DEF Newest
<1>6. PresetPage' /\ RowsInv' /\ asked' = asked \cup on'
  <2>1. on' \subseteq PresetCards /\ tongue' \in Tongues
    BY <1>1, <1>2 DEF PresetPage
  <2> QED  BY <1>1, <1>5, <2>1, RenderDraws
<1>7. PICK x : x = FollowUp(a)
  OBVIOUS
<1>8. /\ x \in Seq(PresetRequests)
      /\ \A i \in DOMAIN x : x[i].url \in {a.url, "features"}
      /\ \A url \in PresetUrls : presetFaults = 0 /\ Due(a, url) => \E i \in DOMAIN x : Makes(x[i], url)
  BY <1>3, <1>4, <1>7, FollowUpOf
<1>9. /\ sent' \in Seq(PresetRequests)
      /\ \A i \in DOMAIN sent' : \/ \E j \in DOMAIN sent : sent[j] = sent'[i]
                                 \/ \E j \in DOMAIN x : x[j] = sent'[i]
                                 \/ sent'[i].url \in on'
      /\ \A j \in DOMAIN sent : \E i \in DOMAIN sent' : sent'[i] = sent[j]
      /\ \A j \in DOMAIN x : \E i \in DOMAIN sent' : sent'[i] = x[j]
      /\ \A url \in PresetCards \cap on' : url \notin asked => \E i \in DOMAIN sent' : sent'[i].url = url
  <2>1. sent' = sent \o x \o FirstAsks
    BY <1>1, <1>7
  <2> QED  BY <1>2, <1>8, <2>1, AsksJoin
<1>10. PresetsTypeOK' /\ ListsInv' /\ ReadsInv'
  <2>1. ListsInv'
    BY <1>3, <1>5 DEF ListsInv
  <2>2. PresetDevice' /\ PresetCounts'
    BY <1>1, <1>2 DEF PresetDevice, PresetCounts
  <2>3. ReadsInv'
    BY <1>1, <1>3 DEF PresetsInv, ReadsInv
  <2> QED  BY <1>6, <1>9, <2>1, <2>2, <2>3, PresetsTyped
<1>11. AskedInv'
  <2>1. /\ on \subseteq asked /\ (preDoc # Nothing => "presets" \in asked)
        /\ \A i \in DOMAIN sent : sent[i].url \in Askers
        /\ \A i \in DOMAIN answers : answers[i].url \in Askers
    BY DEF PresetsInv, AskedInv
  <2>2. \A i \in DOMAIN sent' : sent'[i].url \in Askers'
    BY <1>4, <1>6, <1>8, <1>9, <2>1 DEF Askers
  <2>3. \A i \in DOMAIN answers' : answers'[i].url \in Askers'
    BY <1>3, <1>6, <2>1 DEF Askers
  <2>4. preDoc' # Nothing => "presets" \in asked'
    BY <1>1, <1>4, <1>6, <2>1 DEF Askers
  <2> QED  BY <1>6, <2>2, <2>3, <2>4 DEF AskedInv
<1>12. ASSUME NEW url \in PresetUrls
       PROVE  CardInv(url)'
  <2> DEFINE good == Telling(url, DeviceHolds(url))
             w == AnswersTo(url)
  <2> SUFFICES ASSUME presetFaults = 0, url \in Askers',
                      \A i \in DOMAIN sent' : ~Makes(sent'[i], url),
                      \A i \in DOMAIN answers' : ~Due(answers'[i], url)
               PROVE  Corrected(answers', w, good)
                      /\ (PageHolds(url)' = DeviceHolds(url) \/ Coming(answers', good))
    BY <1>1 DEF CardInv, DeviceHolds
  <2>1. url \in Askers /\ \A i \in DOMAIN sent : ~Makes(sent[i], url)
    BY <1>6, <1>9 DEF Askers, Makes, PresetUrls
  <2>2. ~Due(a, url)
    BY <1>8, <1>9
  <2>3. \A i \in DOMAIN answers : ~Due(answers[i], url)
    BY <1>3, <2>2
  <2>4. Corrected(answers, w, good) /\ (PageHolds(url) = DeviceHolds(url) \/ Coming(answers, good))
    BY <2>1, <2>3 DEF PresetsInv, CardInv
  <2>5. /\ Corrected(answers', w, good)
        /\ a \in w \ good => Coming(answers', good)
        /\ Coming(answers, good) /\ a \notin good => Coming(answers', good)
    <3>1. PICK b : b = answers' /\ b = Tail(answers)
      BY <1>1
    <3>2. /\ Corrected(answers, w, good) => Corrected(b, w, good)
          /\ Corrected(answers, w, good) /\ a \in w \ good => Coming(b, good)
          /\ Coming(answers, good) /\ a \notin good => Coming(b, good)
      BY <1>1, <1>2, <3>1, WordHeard DEF a
    <3> QED  BY <2>4, <3>1, <3>2
  <2>6. a \in w <=> a.url = url
    BY <1>3 DEF AnswersTo
  <2>7. a \in good <=> a \in w /\ a.doc = DeviceHolds(url)
    BY DEF Telling
  <2>8. a \in w => PageHolds(url)' = a.doc
    BY <1>1, <2>2, <2>6 DEF PageHolds, Newest, Due, PresetUrls, PresetCards
  <2>9. a \notin w => PageHolds(url)' = PageHolds(url)
    BY <1>1, <2>6 DEF PageHolds, PresetUrls, PresetCards
  <2> HIDE DEF good, w
  <2> QED  BY <2>4, <2>5, <2>7, <2>8, <2>9
<1> QED  BY <1>6, <1>10, <1>11, <1>12 DEF PresetsInv


\* The reader's request waits on the card's answer like any other.
LEMMA ActKeeps ==
  ASSUME PresetsInv, NEW r \in PresetRequests, r.url \in on, PresetAct(r)
  PROVE  PresetsInv'
<1>1. /\ UNCHANGED <<saved, stages, bar, answers, on, asked, preDoc, stgDoc, barDoc, drawnFor, tongue, rowsIn, presetFaults>>
      /\ sent' = Append(sent, r)
  BY DEF PresetAct, presetsHeld, presetsPage
<1>2. PresetDevice /\ PresetPage /\ PresetCounts /\ sent \in Seq(PresetRequests)
  BY PresetsTyped DEF PresetsInv
<1>3. PICK q : q = sent' /\ q = Append(sent, r)
  BY <1>1
<1>4. q \in Seq(PresetRequests)
  BY <1>2, <1>3, Added
<1>5. \A i \in DOMAIN q : q[i] = r \/ \E j \in DOMAIN sent : sent[j] = q[i]
  BY <1>2, <1>3, Added
<1>6. ASSUME NEW j \in DOMAIN sent
      PROVE  \E i \in DOMAIN q : q[i] = sent[j]
  BY <1>2, <1>3, Added
<1>7. PresetsTypeOK' /\ ListsInv' /\ ReadsInv' /\ RowsInv'
  <2>1. PresetCounts'
    BY <1>1, <1>2, PresetsAssumption DEF PresetAct, PresetCounts
  <2>2. PresetDevice' /\ PresetPage' /\ ListsInv' /\ ReadsInv' /\ RowsInv'
    BY <1>1, <1>2 DEF PresetsInv, PresetDevice, PresetPage, ListsInv, ReadsInv, RowsInv, Has
  <2>3. sent' \in Seq(PresetRequests)
    BY <1>3, <1>4
  <2> QED  BY <2>1, <2>2, <2>3, PresetsTyped
<1>8. AskedInv'
  <2>1. /\ on \subseteq asked /\ (preDoc # Nothing => "presets" \in asked)
        /\ \A i \in DOMAIN sent : sent[i].url \in Askers
        /\ \A i \in DOMAIN answers : answers[i].url \in Askers
    BY DEF PresetsInv, AskedInv
  <2>2. \A i \in DOMAIN q : q[i].url \in Askers
    BY <1>5, <2>1 DEF Askers
  <2> QED  BY <1>1, <1>3, <2>1, <2>2 DEF AskedInv, Askers
<1>9. ASSUME NEW url \in PresetUrls
      PROVE  CardInv(url)'
  <2> SUFFICES ASSUME \A i \in DOMAIN q : ~Makes(q[i], url)
               PROVE  CardInv(url)'
    BY <1>3 DEF CardInv
  <2>1. \A i \in DOMAIN sent : ~Makes(sent[i], url)
    BY <1>6
  <2> QED  BY <1>1, <2>1 DEF PresetsInv, CardInv, Askers, PageHolds, DeviceHolds
<1> QED  BY <1>7, <1>8, <1>9 DEF PresetsInv

LEMMA ReaderKeeps ==
  ASSUME PresetsInv,
         \/ \E n \in Presets : Save(n) \/ Delete(n) \/ Apply(n)
         \/ \E s \in Stages, n \in Presets \cup {Nothing} : Assign(s, n)
  PROVE  PresetsInv'
<1>1. Has \in Lists
  <2>1. preDoc \in Lists \cup {Nothing}
    BY DEF PresetsInv, ListsInv
  <2>2. {} \in Lists
    BY PresetsAssumption, FS_EmptySet DEF Lists
  <2> QED  BY <2>1, <2>2 DEF Has
<1>2. ASSUME NEW n \in Presets, Save(n)
      PROVE  PresetsInv'
  <2>1. Has \cup {n} \in Lists
    BY <1>1, <1>2, ListsGrow DEF Save
  <2> DEFINE r == [url |-> "presets", kind |-> "list", list |-> Has \cup {n}, why |-> "save", name |-> n]
  <2>2. r \in PresetRequests /\ r.url \in on
    BY <1>2, <2>1 DEF PresetRequests, Save
  <2>3. PresetAct(r)
    BY <1>2 DEF Save, Listed
  <2> HIDE DEF r
  <2> QED  BY <2>2, <2>3, ActKeeps
<1>3. ASSUME NEW n \in Presets, Delete(n)
      PROVE  PresetsInv'
  <2>1. Has \ {n} \in Lists
    BY <1>1, ListsGrow
  <2> DEFINE r == [url |-> "presets", kind |-> "list", list |-> Has \ {n}, why |-> "delete", name |-> n]
  <2>2. r \in PresetRequests /\ r.url \in on
    BY <1>3, <2>1 DEF PresetRequests, Delete
  <2>3. PresetAct(r)
    BY <1>3 DEF Delete
  <2> HIDE DEF r
  <2> QED  BY <2>2, <2>3, ActKeeps
<1>4. ASSUME NEW n \in Presets, Apply(n)
      PROVE  PresetsInv'
  <2> DEFINE r == [url |-> "presets", kind |-> "apply", name |-> n]
  <2>1. r \in PresetRequests /\ r.url \in on
    BY <1>4 DEF PresetRequests, Apply
  <2>2. PresetAct(r)
    BY <1>4 DEF Apply
  <2> HIDE DEF r
  <2> QED  BY <2>1, <2>2, ActKeeps
<1>5. ASSUME NEW s \in Stages, NEW n \in Presets \cup {Nothing}, Assign(s, n)
      PROVE  PresetsInv'
  <2> DEFINE r == [url |-> "stages", kind |-> "assign", stage |-> s, name |-> n]
  <2>1. r \in PresetRequests /\ r.url \in on
    BY <1>5 DEF PresetRequests, Assign
  <2>2. PresetAct(r)
    BY <1>5 DEF Assign
  <2> HIDE DEF r
  <2> QED  BY <2>1, <2>2, ActKeeps
<1> QED  BY <1>2, <1>3, <1>4, <1>5

LEMMA PresetsStands == PresetsInv /\ UNCHANGED presetsVars => PresetsInv'
<1> SUFFICES ASSUME PresetsInv, UNCHANGED presetsVars
             PROVE  PresetsInv'
  OBVIOUS
<1>1. UNCHANGED <<saved, stages, bar, sent, answers, on, asked, preDoc, stgDoc, barDoc, drawnFor, tongue, rowsIn,
                  presetActs, presetFaults>>
  BY DEF presetsVars, presetsDevice, presetsHeld, presetsPage, presetsBounds
<1>2. PresetsTypeOK' /\ ListsInv' /\ AskedInv' /\ ReadsInv' /\ RowsInv'
  BY <1>1 DEF PresetsInv, PresetsTypeOK, ListsInv, AskedInv, Askers, ReadsInv, RowsInv, Has
<1>3. \A url \in PresetUrls : CardInv(url)'
  BY <1>1 DEF PresetsInv, CardInv, Askers, PageHolds, DeviceHolds
<1> QED  BY <1>2, <1>3 DEF PresetsInv

LEMMA PresetsHold == PresetsInv /\ [PresetsNext]_presetsVars => PresetsInv'
BY PresetsServeKeeps, PresetsFaultKeeps, PresetsLandKeeps, DrawsKeep, ReaderKeeps, PresetsStands DEF PresetsNext

\* With nothing on its way a card that is shown holds what the device holds,
\* and the rows are drawn for that.
LEMMA PresetsShown == PresetsInv => PresetsTypeOK /\ PresetsAgree
<1> SUFFICES ASSUME PresetsInv, Quiet
             PROVE  /\ barDoc = bar
                    /\ "presets" \in on => preDoc = saved
                    /\ "stages" \in on => /\ stgDoc = stages /\ drawnFor.rows = stages
                                          /\ preDoc # Nothing => drawnFor.names = saved
  BY DEF PresetsInv, PresetsAgree
<1>1. DOMAIN sent = {} /\ DOMAIN answers = {} /\ presetFaults = 0
  BY DEF Quiet
<1>2. \A good : ~Coming(answers, good)
  BY <1>1 DEF Coming
<1>3. "presets" \in asked => preDoc = saved
  BY <1>1, <1>2 DEF PresetsInv, CardInv, Askers, PresetUrls, PresetCards, PageHolds, DeviceHolds
<1>4. "stages" \in asked => stgDoc = stages
  BY <1>1, <1>2 DEF PresetsInv, CardInv, Askers, PresetUrls, PresetCards, PageHolds, DeviceHolds
<1>7. barDoc = bar
  BY <1>1, <1>2 DEF PresetsInv, CardInv, Askers, PresetUrls, PageHolds, DeviceHolds
<1>5. on \subseteq asked /\ (preDoc # Nothing => "presets" \in asked)
  BY DEF PresetsInv, AskedInv
<1>6. ASSUME "stages" \in on
      PROVE  drawnFor = [rows |-> stages, names |-> Has]
  <2>1. stages # Nothing
    BY ListsNotNothing, PresetsTyped DEF PresetsInv, PresetDevice
  <2> QED  BY <1>4, <1>5, <1>6, <2>1 DEF PresetsInv, RowsInv
<1> QED  BY <1>3, <1>4, <1>5, <1>6, <1>7 DEF Has


-----------------------------------------------------------------------------
(* The preview.                                                             *)

\* The types in groups.
PinDevice == pin \in Pins /\ left \in 0..PinSeconds /\ (pin = NoPin <=> left = 0)
PinWires == asks \in Seq(PinRequests) /\ replies \in Seq(PinReplies)
PinPage == shownPin \in Pins /\ ticking \in BOOLEAN /\ cardOn \in BOOLEAN
PinCounts == pinActs \in 0..PinActs /\ pinFaults \in 0..PinFaults /\ pinOthers \in 0..PinOthers

LEMMA PreviewTyped ==
  /\ PreviewTypeOK <=> PinDevice /\ PinWires /\ PinPage /\ PinCounts
  /\ PreviewTypeOK' <=> PinDevice' /\ PinWires' /\ PinPage' /\ PinCounts'
BY DEF PreviewTypeOK, PinDevice, PinWires, PinPage, PinCounts

\* A pin lasts for as long as it was held, and nothing for no time.
LEMMA HeldTyped == ASSUME NEW p \in Pins, Held(p) PROVE PinDevice'
<1>1. pin' = p /\ left' = (IF p = NoPin THEN 0 ELSE PinSeconds)
  BY DEF Held
<1> QED  BY <1>1, PreviewAssumption DEF PinDevice

LEMMA PreviewStart == PreviewInit => PreviewTypeOK
<1> SUFFICES ASSUME PreviewInit
             PROVE  PreviewTypeOK
  OBVIOUS
<1>1. PinDevice
  BY PreviewAssumption DEF PreviewInit, PinDevice
<1>2. PinWires
  <2>1. Look \in PinRequests
    BY DEF Look, PinRequests, Pins
  <2> QED  BY <2>1 DEF PreviewInit, PinWires
<1>3. PinPage
  BY DEF PreviewInit, PinPage, Pins
<1>4. PinCounts
  BY PreviewAssumption DEF PreviewInit, PinCounts
<1> QED  BY <1>1, <1>2, <1>3, <1>4, PreviewTyped

LEMMA PinServeKeeps == PreviewTypeOK /\ (PinServe \/ PinLose) => PreviewTypeOK'
<1> SUFFICES ASSUME PreviewTypeOK, PinServe \/ PinLose
             PROVE  PreviewTypeOK'
  OBVIOUS
<1> DEFINE r == Head(asks)
<1>1. PinDevice /\ PinWires /\ PinPage /\ PinCounts
  BY PreviewTyped
<1>2. asks # <<>> /\ asks' = Tail(asks) /\ UNCHANGED <<shownPin, ticking, cardOn>>
  BY DEF PinServe, PinLose
<1>3. asks' \in Seq(PinRequests) /\ r \in PinRequests
  <2>1. PICK q : q = asks' /\ q = Tail(asks)
    BY <1>2
  <2>2. asks \in Seq(PinRequests)
    BY <1>1 DEF PinWires
  <2> QED  BY <1>2, <2>1, <2>2, Taken
<1>4. r.kind \in {"look", "post"} /\ r.state \in Pins
  BY <1>3 DEF PinRequests
<1>5. PinDevice'
  <2>1. UNCHANGED <<pin, left>> \/ Held(r.state)
    BY DEF PinServe, PinLose
  <2> QED  BY <1>1, <1>4, <2>1, HeldTyped DEF PinDevice
<1>6. \E s \in Pins, c \in BOOLEAN : replies' = Append(replies, [kind |-> r.kind, state |-> s, came |-> c])
  <2>1. CASE PinServe
    <3>1. pin' \in Pins
      BY <1>5 DEF PinDevice
    <3> QED  BY <2>1, <3>1 DEF PinServe
  <2>2. CASE PinLose
    <3>1. NoPin \in Pins
      BY DEF Pins
    <3> QED  BY <2>2, <3>1 DEF PinLose
  <2> QED  BY <2>1, <2>2
<1>7. replies' \in Seq(PinReplies)
  <2>1. PICK s \in Pins, c \in BOOLEAN : replies' = Append(replies, [kind |-> r.kind, state |-> s, came |-> c])
    BY <1>6
  <2>2. [kind |-> r.kind, state |-> s, came |-> c] \in PinReplies
    BY <1>4 DEF PinReplies
  <2> QED  BY <1>1, <2>1, <2>2 DEF PinWires
<1>8. PinPage'
  BY <1>1, <1>2 DEF PinPage
<1>9. PinCounts'
  BY <1>1, PreviewAssumption DEF PinCounts, PinServe, PinLose, previewBounds
<1> QED  BY <1>3, <1>5, <1>7, <1>8, <1>9, PreviewTyped DEF PinWires

LEMMA PinPassesKeeps == PreviewTypeOK /\ (SecondPasses \/ PinElsewhere) => PreviewTypeOK'
<1> SUFFICES ASSUME PreviewTypeOK, SecondPasses \/ PinElsewhere
             PROVE  PreviewTypeOK'
  OBVIOUS
<1>1. PinDevice /\ PinWires /\ PinPage /\ PinCounts
  BY PreviewTyped
<1>2. PinDevice'
  <2>1. CASE SecondPasses
    BY <1>1, <2>1, PreviewAssumption DEF SecondPasses, PinAfter, PinDevice, Pins
  <2>2. CASE PinElsewhere
    BY <2>2, HeldTyped DEF PinElsewhere
  <2> QED  BY <2>1, <2>2
<1>3. UNCHANGED <<asks, replies, shownPin, ticking, cardOn>>
  BY DEF SecondPasses, PinElsewhere
<1>4. PinWires' /\ PinPage'
  BY <1>1, <1>3 DEF PinWires, PinPage
<1>5. PinCounts'
  BY <1>1, PreviewAssumption DEF PinCounts, SecondPasses, PinElsewhere, previewBounds
<1> QED  BY <1>2, <1>4, <1>5, PreviewTyped

LEMMA PinPageKeeps == PreviewTypeOK /\ (PinLands \/ PinCardDrawn) => PreviewTypeOK'
<1> SUFFICES ASSUME PreviewTypeOK, PinLands \/ PinCardDrawn
             PROVE  PreviewTypeOK'
  OBVIOUS
<1>1. PinDevice /\ PinWires /\ PinPage /\ PinCounts
  BY PreviewTyped
<1>2. UNCHANGED <<pin, left, asks>>
  BY DEF PinLands, PinCardDrawn
<1>3. replies' \in Seq(PinReplies) /\ PinPage'
  <2>1. CASE PinLands
    <3>1. PICK q : q = replies' /\ q = Tail(replies)
      BY <2>1 DEF PinLands
    <3>2. replies \in Seq(PinReplies) /\ replies # <<>>
      BY <1>1, <2>1 DEF PinWires, PinLands
    <3>3. q \in Seq(PinReplies) /\ Head(replies) \in PinReplies
      BY <3>1, <3>2, Taken
    <3>4. shownPin' \in Pins
      BY <1>1, <2>1, <3>3 DEF PinLands, PinPage, PinReplies
    <3>5. ticking' \in BOOLEAN /\ cardOn' \in BOOLEAN
      BY <1>1, <2>1 DEF PinLands, PinPage, RenderPreview, TickWhileShown
    <3> QED  BY <3>1, <3>3, <3>4, <3>5 DEF PinPage
  <2>2. CASE PinCardDrawn
    <3>1. ticking' \in BOOLEAN /\ cardOn' \in BOOLEAN
      BY <2>2 DEF PinCardDrawn, RenderPreview, TickWhileShown
    <3> QED  BY <1>1, <2>2, <3>1 DEF PinCardDrawn, PinPage, PinWires
  <2> QED  BY <2>1, <2>2
<1>4. PinDevice' /\ PinWires'
  BY <1>1, <1>2, <1>3 DEF PinDevice, PinWires
<1>5. PinCounts'
  BY <1>1, PreviewAssumption DEF PinCounts, PinLands, PinCardDrawn, PinAct, previewBounds
<1> QED  BY <1>3, <1>4, <1>5, PreviewTyped

LEMMA PinAsksKeep == PreviewTypeOK /\ (Tick \/ PinPost) => PreviewTypeOK'
<1> SUFFICES ASSUME PreviewTypeOK, Tick \/ PinPost
             PROVE  PreviewTypeOK'
  OBVIOUS
<1>1. PinDevice /\ PinWires /\ PinPage /\ PinCounts
  BY PreviewTyped
<1>2. UNCHANGED <<pin, left, replies, shownPin, ticking, cardOn>>
  BY DEF Tick, PinPost
<1>3. PICK r \in PinRequests : asks' = Append(asks, r)
  <2>1. CASE Tick
    <3>1. Look \in PinRequests
      BY DEF Look, PinRequests, Pins
    <3> QED  BY <2>1, <3>1 DEF Tick
  <2>2. CASE PinPost
    <3>1. PICK p \in Pins : asks' = Append(asks, [kind |-> "post", state |-> p])
      BY <2>2 DEF PinPost
    <3>2. [kind |-> "post", state |-> p] \in PinRequests
      BY DEF PinRequests
    <3> QED  BY <3>1, <3>2
  <2> QED  BY <2>1, <2>2
<1>4. PinWires'
  BY <1>1, <1>2, <1>3 DEF PinWires
<1>5. PinDevice' /\ PinPage'
  BY <1>1, <1>2 DEF PinDevice, PinPage
<1>6. PinCounts'
  BY <1>1, PreviewAssumption DEF PinCounts, Tick, PinPost, PinAct, previewBounds
<1> QED  BY <1>4, <1>5, <1>6, PreviewTyped

LEMMA PreviewHolds == PreviewTypeOK /\ [PreviewNext]_previewVars => PreviewTypeOK'
<1>1. PreviewTypeOK /\ UNCHANGED previewVars => PreviewTypeOK'
  BY DEF PreviewTypeOK, previewVars, previewBounds
<1> QED  BY <1>1, PinServeKeeps, PinPassesKeeps, PinPageKeeps, PinAsksKeep DEF PreviewNext

-----------------------------------------------------------------------------
(* The documents together: a step of one leaves the others where they are.  *)

DocumentsInv == DocsInv /\ PresetsInv /\ PreviewTypeOK

LEMMA DocumentsHold == Spec => []DocumentsInv
<1>1. Init => DocumentsInv
  BY DocsStart, PresetsStart, PreviewStart DEF Init, DocumentsInv
<1>2. DocumentsInv /\ [Next]_vars => DocumentsInv'
  <2>1. [Next]_vars => [DocsNext]_docsVars /\ [PresetsNext]_presetsVars /\ [PreviewNext]_previewVars
    BY DEF Next, DocsStep, PresetsStep, PreviewStep, vars
  <2> QED  BY <2>1, DocsKept, PresetsHold, PreviewHolds DEF DocumentsInv
<1> QED  BY <1>1, <1>2, PTL DEF Spec

\* Once nothing is under way, what the page shows of a document is what the
\* device holds, for any number of presets, stages, changes and answers: the
\* editors, the switches, the list of presets, the stages, the rows drawn for
\* them and the effect of a preset that was applied (05c-effects.js,
\* 05d-presets.js, 06b-features.js); after a file of settings the switches are
\* left out, and the card of the fixed address (08b-staticip.js), both whether
\* it is there and what is in it, once something it draws has moved that it
\* did not ask for, its own switch included.
THEOREM CopiesAgreeAlways == Spec => []CopiesAgree
<1>1. DocumentsInv => CopiesAgree
  BY DocsShown, PresetsShown DEF DocumentsInv, CopiesAgree
<1> QED  BY <1>1, DocumentsHold, PTL
=============================================================================
