--------------------------- MODULE PageCardsProofs ---------------------------
(***************************************************************************)
(* The page's cards, for any number of presses, losses and answers in any  *)
(* order: the printer's, the uploads', the network's and the lamp's.  The  *)
(* modules share no variable, so each has an invariant of its own, kept by *)
(* its steps and by standing still.                                        *)
(***************************************************************************)
EXTENDS MCPageCards, TLAPS

-----------------------------------------------------------------------------
(* Sequences.                                                               *)

\* What a Tail and an Append do to the members of a sequence.
LEMMA TailOf ==
  ASSUME NEW S, NEW s \in Seq(S), s # <<>>
  PROVE  /\ Tail(s) \in Seq(S) /\ Head(s) = s[1] /\ Head(s) \in S /\ 1 \in DOMAIN s
         /\ DOMAIN s = 1..Len(s) /\ DOMAIN Tail(s) = 1..Len(Tail(s)) /\ Len(s) \in Nat
         /\ Len(Tail(s)) = Len(s) - 1 /\ \A i \in 1..Len(Tail(s)) : Tail(s)[i] = s[i + 1]
OBVIOUS

LEMMA AppendOf ==
  ASSUME NEW S, NEW s \in Seq(S), NEW e \in S
  PROVE  /\ Append(s, e) \in Seq(S) /\ Append(s, e) # <<>> /\ Len(Append(s, e)) = Len(s) + 1 /\ Len(s) \in Nat
         /\ DOMAIN s = 1..Len(s) /\ DOMAIN Append(s, e) = 1..(Len(s) + 1)
         /\ \A i \in 1..Len(s) : Append(s, e)[i] = s[i]
         /\ Append(s, e)[Len(s) + 1] = e
OBVIOUS

-----------------------------------------------------------------------------
(* The lamp's switch.                                                       *)

\* While a settle is open the switch shows what was asked, or what was heard.
LightInv ==
  /\ LightTypeOK /\ LightAgrees
  /\ settle # "none" /\ lightHeard # "unknown" => lightShown \in {settle, lightHeard}

LEMMA LightStarts == LightInit => LightInv
<1> SUFFICES ASSUME LightInit
             PROVE  LightInv
  OBVIOUS
<1>1. lightOrders \in Seq(Positions)
  BY DEF LightInit
<1>2. reported \in Told
  BY DEF LightInit, Told
<1>3. lightPushes \in Seq(Told)
  BY <1>2 DEF LightInit
<1>4. settleLeft \in 0..LightTicks /\ lightActs \in 0..LightActs /\ lightEvents \in 0..LightEvents
  BY LightAssumption DEF LightInit
<1>5. lamp \in Positions /\ lightShown \in Positions /\ lightHeard \in Told
  BY DEF LightInit, Positions, Told
<1> QED  BY <1>1, <1>2, <1>3, <1>4, <1>5 DEF LightInit, LightInv, LightTypeOK, LightAgrees

LEMMA LightKept == LightInv /\ [LightNext]_lightVars => LightInv'
<1> SUFFICES ASSUME LightInv, [LightNext]_lightVars
             PROVE  LightInv'
  OBVIOUS
<1> USE DEF LightInv, LightTypeOK, LightAgrees
<1>1. CASE PrinterAnswers
  <2>1. lightOrders' \in Seq(Positions) /\ Head(lightOrders) \in Positions
    BY <1>1, TailOf DEF PrinterAnswers
  <2> QED  BY <1>1, <2>1 DEF PrinterAnswers, lightPage, lightBounds
<1>2. CASE Reports
  <2>1. lamp \in Told
    BY DEF Told
  <2>2. lightPushes' \in Seq(Told)
    BY <1>2, <2>1, AppendOf DEF Reports
  <2> QED  BY <1>2, <2>1, <2>2 DEF Reports, lightPage, lightBounds
<1>3. CASE LightElsewhere
  <2>1. lightEvents' \in 0..LightEvents
    BY <1>3, LightAssumption DEF LightElsewhere
  <2>2. lightPushes' \in Seq(Told)
    BY <1>3, AppendOf DEF LightElsewhere
  <2>3. lamp' \in Positions
    BY <1>3 DEF LightElsewhere, Other, Positions
  <2> QED  BY <1>3, <2>1, <2>2, <2>3 DEF LightElsewhere, lightPage
<1>4. CASE LightPushed
  <2>1. lightPushes' \in Seq(Told) /\ lightHeard' \in Told
    BY <1>4, TailOf DEF LightPushed
  <2>2. lightShown' \in Positions /\ (lightHeard' # "unknown" => lightShown' = lightHeard')
    BY <1>4, <2>1 DEF LightPushed, Drawn, Told
  <2> QED  BY <1>4, <2>1, <2>2 DEF LightPushed, lightBounds
<1>5. CASE LightRedrawn
  <2>1. lightShown' \in Positions /\ (lightHeard # "unknown" => lightShown' = lightHeard)
    BY <1>5 DEF LightRedrawn, Drawn, Told
  <2> QED  BY <1>5, <2>1 DEF LightRedrawn, lightDevice, lightBounds
<1>6. CASE Flip
  <2>1. lightShown' \in Positions /\ settle' = lightShown' /\ settle' # "none"
    BY <1>6 DEF Flip, Other, Positions
  <2>2. lightOrders' \in Seq(Positions)
    BY <1>6, <2>1, AppendOf DEF Flip
  <2>3. settleLeft' \in 0..LightTicks /\ lightActs' \in 0..LightActs
    BY <1>6, LightAssumption DEF Flip
  <2> QED  BY <1>6, <2>1, <2>2, <2>3 DEF Flip
<1>7. CASE Tick
  <2>0. UNCHANGED <<lamp, reported, lightOrders, lightPushes, lightHeard, lightDeaf, lightActs, lightEvents>>
    BY <1>7 DEF Tick, lightDevice, lightBounds
  <2>1. CASE lightHeard = settle
    BY <1>7, <2>0, <2>1, LightAssumption DEF Tick
  <2>2. CASE lightHeard # settle /\ settleLeft = 0
    BY <1>7, <2>0, <2>2 DEF Tick, Returned, Drawn, Told
  <2>3. CASE lightHeard # settle /\ settleLeft # 0
    <3>1. settleLeft' \in 0..LightTicks
      BY <1>7, <2>3, LightAssumption DEF Tick, Hold
    <3>2. settle' = settle /\ lightShown' = settle /\ settle # "none"
      BY <1>7, <2>3 DEF Tick
    <3> QED  BY <2>0, <3>1, <3>2
  <2> QED  BY <2>1, <2>2, <2>3
<1>8. CASE UNCHANGED lightVars
  BY <1>8 DEF lightVars, lightDevice, lightPage, lightBounds
<1> QED  BY <1>1, <1>2, <1>3, <1>4, <1>5, <1>6, <1>7, <1>8 DEF LightNext

-----------------------------------------------------------------------------
(* The uploads and the build.                                               *)

One(b) == IF b THEN 1 ELSE 0

\* Every build is of one upload: taken and restarted into, taken, or on its way.
CountInv == build + One(flashed) + One(carried["fw"] = "bytes") <= uploadActs

\* Unless a connection was lost, the socket stands, and a verdict is coming for
\* a line that waits or an upload that was taken and is still to hear of it.
LinkInv == linked \/ uploadFaults > 0 \/ build # 0
ComingInv ==
  \A u \in ImageSlots :
    line[u] = "sent" \/ (carried[u] = "taken" /\ verdictDue[u]) => Coming(u) \/ uploadFaults > 0 \/ build # 0

\* Builds come one after the other, and so do what the page hears of them.
BuildInv ==
  /\ madeFrom <= build
  /\ deviceBuild # NoBuild => madeFrom <= deviceBuild /\ deviceBuild <= build

VerdictFrames == [upload : Uploads, ok : BOOLEAN]

UploadsInv == UploadsTypeOK /\ CountInv /\ LinkInv /\ ComingInv /\ BuildInv

LEMMA UploadsStart == UploadsInit => UploadsInv
<1> SUFFICES ASSUME UploadsInit
             PROVE  UploadsInv
  OBVIOUS
<1>1. 0 \in Builds /\ 0 \in 0..UploadActs /\ 0 \in 0..UploadFaults /\ 0 # NoBuild
  BY UploadsAssumption DEF Builds
<1>2. verdicts \in Seq(VerdictFrames)
  BY DEF UploadsInit
<1>3. /\ carried \in [Uploads -> {"none", "bytes", "taken", "refused", "lost"}]
      /\ line \in [Uploads -> Lines] /\ bar \in [Uploads -> BOOLEAN] /\ verdictDue \in [ImageSlots -> BOOLEAN]
  BY DEF UploadsInit, Lines
<1>4. UploadsTypeOK
  BY <1>1, <1>2, <1>3 DEF UploadsInit, UploadsTypeOK, VerdictFrames
<1>5. CountInv
  <2>1. carried["fw"] = "none"
    BY DEF UploadsInit, Uploads
  <2>2. build = 0 /\ flashed = FALSE /\ uploadActs = 0
    BY DEF UploadsInit
  <2> QED  BY <2>1, <2>2 DEF CountInv, One
<1>6. LinkInv
  BY DEF UploadsInit, LinkInv
<1>7. ComingInv
  BY DEF UploadsInit, ComingInv, Uploads
<1>8. BuildInv
  BY DEF UploadsInit, BuildInv
<1> QED  BY <1>4, <1>5, <1>6, <1>7, <1>8 DEF UploadsInv

\* An upload is of the firmware or of an image, never both.
LEMMA UploadKinds ==
  /\ "fw" \in Uploads /\ "fw" \notin ImageSlots /\ ImageSlots \subseteq Uploads
  /\ \A u \in Uploads : u # "fw" => u \in ImageSlots
BY UploadsAssumption DEF Uploads


\* What the painting of one upload's line, bar and verdict leaves.
LEMMA PaintsOne ==
  ASSUME UploadsTypeOK, NEW u \in Uploads
  PROVE  /\ \A l \in Lines : Line(u, l) => line' \in [Uploads -> Lines] /\ line'[u] = l /\ \A x \in Uploads : x # u => line'[x] = line[x]
         /\ \A b \in BOOLEAN : Bar(u, b) => bar' \in [Uploads -> BOOLEAN]
         /\ Settled(u) => verdictDue' \in [ImageSlots -> BOOLEAN] /\ \A x \in ImageSlots : verdictDue'[x] <=> x # u /\ verdictDue[x]
<1>1. ASSUME NEW l \in Lines, Line(u, l)
      PROVE  line' \in [Uploads -> Lines] /\ line'[u] = l /\ \A x \in Uploads : x # u => line'[x] = line[x]
  BY <1>1 DEF Line, UploadsTypeOK
<1>2. ASSUME NEW b \in BOOLEAN, Bar(u, b)
      PROVE  bar' \in [Uploads -> BOOLEAN]
  BY <1>2 DEF Bar, UploadsTypeOK
<1>3. ASSUME Settled(u)
      PROVE  verdictDue' \in [ImageSlots -> BOOLEAN] /\ \A x \in ImageSlots : verdictDue'[x] <=> x # u /\ verdictDue[x]
  <2>1. verdictDue' = [x \in ImageSlots |-> x # u /\ verdictDue[x]]
    BY <1>3 DEF Settled
  <2>2. \A x \in ImageSlots : (x # u /\ verdictDue[x]) \in BOOLEAN
    OBVIOUS
  <2> QED  BY <2>1, <2>2, Zenon
<1> QED  BY <1>1, <1>2, <1>3

\* The parts of the type that a step may disturb.
WireTypes ==
  /\ build \in Builds /\ flashed \in BOOLEAN /\ linked \in BOOLEAN
  /\ carried \in [Uploads -> {"none", "bytes", "taken", "refused", "lost"}]
  /\ verdicts \in Seq(VerdictFrames)
PaintTypes ==
  /\ line \in [Uploads -> Lines] /\ bar \in [Uploads -> BOOLEAN]
  /\ verdictDue \in [ImageSlots -> BOOLEAN] /\ uploading \in BOOLEAN
InfoTypes ==
  /\ asked \subseteq {"device", "page"}
  /\ deviceBuild \in Builds \cup {NoBuild} /\ pageBuild \in Builds \cup {NoBuild} /\ madeFrom \in Builds
UpBounds == uploadActs \in 0..UploadActs /\ uploadFaults \in 0..UploadFaults

LEMMA UploadsTyped == UploadsTypeOK <=> WireTypes /\ PaintTypes /\ InfoTypes /\ UpBounds
BY DEF UploadsTypeOK, WireTypes, PaintTypes, InfoTypes, UpBounds, VerdictFrames

\* What stands still keeps its types.
LEMMA TypesStand ==
  ASSUME UploadsTypeOK
  PROVE  /\ UNCHANGED <<build, flashed, carried, verdicts, linked>> => WireTypes'
         /\ UNCHANGED <<line, bar, verdictDue, uploading>> => PaintTypes'
         /\ UNCHANGED <<asked, deviceBuild, pageBuild, madeFrom>> => InfoTypes'
         /\ UNCHANGED uploadsBounds => UpBounds'
BY UploadsTyped DEF WireTypes, PaintTypes, InfoTypes, UpBounds, uploadsBounds

\* A fault counts, within its bound.
LEMMA FaultCounts ==
  ASSUME UploadsTypeOK, UploadFault
  PROVE  UpBounds' /\ uploadFaults' > 0 /\ uploadActs' = uploadActs
BY UploadsAssumption DEF UploadsTypeOK, UploadFault, UpBounds

\* Each step of one upload keeps the types.
LEMMA UploadTypes ==
  ASSUME UploadsTypeOK, NEW u \in Uploads, Upload1(u)
  PROVE  UploadsTypeOK'
<1>0. WireTypes /\ PaintTypes /\ InfoTypes /\ UpBounds
  BY UploadsTyped
<1>1. CASE Upload(u)
  <2>1. WireTypes'
    BY <1>0, <1>1 DEF Upload, WireTypes
  <2>2. PaintTypes'
    <3>1. Line(u, "uploading") /\ Bar(u, TRUE) /\ "uploading" \in Lines
      BY <1>1 DEF Upload, Lines
    <3>2. verdictDue' \in [ImageSlots -> BOOLEAN] /\ uploading' \in BOOLEAN
      BY <1>0, <1>1, UploadKinds DEF Upload, PaintTypes
    <3> QED  BY <3>1, <3>2, PaintsOne DEF PaintTypes
  <2>3. InfoTypes' /\ UpBounds'
    BY <1>0, <1>1, UploadsAssumption DEF Upload, Choosing, InfoTypes, UpBounds
  <2> QED  BY <2>1, <2>2, <2>3, UploadsTyped, PTL
<1>2. CASE TooBig(u)
  <2>1. WireTypes' /\ InfoTypes'
    BY <1>2, TypesStand DEF TooBig, uploadsDevice
  <2>2. PaintTypes'
    <3>1. Line(u, "failed") /\ Bar(u, FALSE) /\ "failed" \in Lines /\ UNCHANGED <<verdictDue, uploading>>
      BY <1>2 DEF TooBig, Lines
    <3> QED  BY <1>0, <3>1, PaintsOne DEF PaintTypes
  <2>3. UpBounds'
    BY <1>0, <1>2, UploadsAssumption DEF TooBig, Choosing, UpBounds
  <2> QED  BY <2>1, <2>2, <2>3, UploadsTyped, PTL
<1>3. ASSUME NEW ok \in BOOLEAN, Taken(u, ok)
      PROVE  UploadsTypeOK'
  <2>1. carried' \in [Uploads -> {"none", "bytes", "taken", "refused", "lost"}] /\ flashed' \in BOOLEAN
    BY <1>0, <1>3 DEF Taken, WireTypes
  <2>2. [upload |-> u, ok |-> ok] \in VerdictFrames
    BY DEF VerdictFrames
  <2>3. verdicts' \in Seq(VerdictFrames)
    BY <1>0, <1>3, <2>2, AppendOf DEF Taken, WireTypes
  <2>4. WireTypes'
    BY <1>0, <1>3, <2>1, <2>3 DEF Taken, WireTypes
  <2>5. PaintTypes' /\ InfoTypes' /\ UpBounds'
    BY <1>3, TypesStand DEF Taken, uploadsPage
  <2> QED  BY <2>4, <2>5, UploadsTyped, PTL
<1>4. CASE RequestEnds(u)
  <2>1. WireTypes'
    BY <1>0, <1>4 DEF RequestEnds, WireTypes
  <2>2. PaintTypes'
    <3>1. bar' \in [Uploads -> BOOLEAN] /\ uploading' \in BOOLEAN
      <4>1. Bar(u, u = "fw" /\ carried[u] = "taken") /\ (u = "fw" /\ carried[u] = "taken") \in BOOLEAN
        BY <1>4 DEF RequestEnds
      <4>2. uploading' \in BOOLEAN
        BY <1>4 DEF RequestEnds
      <4> QED  BY <4>1, <4>2, PaintsOne
    <3>2. line' \in [Uploads -> Lines] /\ verdictDue' \in [ImageSlots -> BOOLEAN]
      <4>1. {"sent", "none", "failed"} \subseteq Lines
        BY DEF Lines
      <4>2. CASE ~SentFits(u)
        BY <1>0, <1>4, <4>2 DEF RequestEnds, PaintTypes
      <4>3. CASE SentFits(u) /\ carried[u] = "taken"
        <5>1. Line(u, "sent") /\ UNCHANGED verdictDue
          BY <1>4, <4>3 DEF RequestEnds
        <5> QED  BY <1>0, <4>1, <5>1, PaintsOne DEF PaintTypes
      <4>4. CASE SentFits(u) /\ carried[u] # "taken"
        <5>1. \E l \in Lines : Line(u, l)
          BY <1>4, <4>1, <4>4 DEF RequestEnds
        <5>2. Settled(u)
          BY <1>4, <4>4 DEF RequestEnds
        <5> QED  BY <5>1, <5>2, PaintsOne
      <4> QED  BY <4>2, <4>3, <4>4
    <3> QED  BY <3>1, <3>2 DEF PaintTypes
  <2>3. InfoTypes' /\ UpBounds'
    BY <1>4, TypesStand DEF RequestEnds
  <2> QED  BY <2>1, <2>2, <2>3, UploadsTyped, PTL
<1>5. CASE RequestDropped(u)
  <2>1. WireTypes'
    BY <1>0, <1>5 DEF RequestDropped, WireTypes
  <2>2. PaintTypes' /\ InfoTypes'
    BY <1>5, TypesStand DEF RequestDropped, uploadsPage
  <2>3. UpBounds'
    BY <1>5, FaultCounts DEF RequestDropped
  <2> QED  BY <2>1, <2>2, <2>3, UploadsTyped, PTL
<1>6. CASE RequestFails(u)
  <2>1. WireTypes'
    BY <1>0, <1>6 DEF RequestFails, WireTypes
  <2>2. PaintTypes'
    <3>1. \E l \in Lines : Line(u, l)
      BY <1>6 DEF RequestFails, Lines
    <3>2. Bar(u, FALSE) /\ Settled(u) /\ uploading' \in BOOLEAN
      BY <1>6 DEF RequestFails
    <3> QED  BY <3>1, <3>2, PaintsOne DEF PaintTypes
  <2>3. InfoTypes' /\ UpBounds'
    BY <1>6, TypesStand DEF RequestFails
  <2> QED  BY <2>1, <2>2, <2>3, UploadsTyped, PTL
<1> QED  BY <1>1, <1>2, <1>3, <1>4, <1>5, <1>6 DEF Upload1

\* Each of the other steps keeps the types.
LEMMA VerdictTypes == UploadsTypeOK /\ Verdict => UploadsTypeOK'
<1> SUFFICES ASSUME UploadsTypeOK, Verdict
             PROVE  UploadsTypeOK'
  OBVIOUS
<1>0. WireTypes /\ PaintTypes /\ InfoTypes /\ UpBounds
  BY UploadsTyped
<1>1. verdicts' \in Seq(VerdictFrames) /\ Head(verdicts) \in VerdictFrames
  BY <1>0, TailOf DEF Verdict, WireTypes
<1>2. Head(verdicts).upload \in Uploads
  BY <1>1 DEF VerdictFrames
<1>3. WireTypes'
  BY <1>0, <1>1 DEF Verdict, WireTypes
<1>4. PaintTypes'
  <2>1. \E l \in Lines : Line(Head(verdicts).upload, l)
    BY DEF Verdict, Lines
  <2>2. Bar(Head(verdicts).upload, FALSE) /\ Settled(Head(verdicts).upload) /\ UNCHANGED uploading
    BY DEF Verdict
  <2> QED  BY <1>0, <1>2, <2>1, <2>2, PaintsOne DEF PaintTypes
<1>5. InfoTypes' /\ UpBounds'
  BY TypesStand DEF Verdict
<1> QED  BY <1>3, <1>4, <1>5, UploadsTyped, PTL

LEMMA SocketTypes == UploadsTypeOK /\ CountInv /\ Socket => UploadsTypeOK'
<1> SUFFICES ASSUME UploadsTypeOK, CountInv, Socket
             PROVE  UploadsTypeOK'
  OBVIOUS
<1>0. WireTypes /\ PaintTypes /\ InfoTypes /\ UpBounds
  BY UploadsTyped
<1>1. CASE FlashRestart
  <2>1. build' \in Builds
    <3>1. build + 1 + One(carried["fw"] = "bytes") <= uploadActs
      BY <1>1 DEF FlashRestart, CountInv, One
    <3>2. One(carried["fw"] = "bytes") \in 0..1
      BY DEF One
    <3>3. build \in 0..UploadActs /\ uploadActs \in 0..UploadActs /\ build' = build + 1
      BY <1>0, <1>1 DEF WireTypes, UpBounds, Builds, FlashRestart
    <3> QED  BY <3>1, <3>2, <3>3, UploadsAssumption DEF Builds
  <2>2. verdicts' = <<>> /\ linked' = FALSE /\ flashed' = FALSE
    BY <1>1 DEF FlashRestart, Unlinked
  <2>3. carried' \in [Uploads -> {"none", "bytes", "taken", "refused", "lost"}]
    BY <1>0, <1>1 DEF FlashRestart, WireTypes
  <2>4. verdicts' \in Seq(VerdictFrames)
    BY <2>2
  <2>5. WireTypes'
    BY <2>1, <2>2, <2>3, <2>4 DEF WireTypes
  <2>6. PaintTypes' /\ UpBounds'
    BY <1>1, TypesStand DEF FlashRestart
  <2>7. InfoTypes'
    BY <1>0, <1>1 DEF FlashRestart, InfoTypes
  <2> QED  BY <2>5, <2>6, <2>7, UploadsTyped, PTL
<1>2. CASE SocketLost
  <2>1. WireTypes'
    <3>1. verdicts' \in Seq(VerdictFrames)
      BY <1>2 DEF SocketLost, Unlinked
    <3> QED  BY <1>0, <1>2, <3>1 DEF SocketLost, Unlinked, WireTypes
  <2>2. PaintTypes' /\ InfoTypes'
    BY <1>2, TypesStand DEF SocketLost, uploadsPage
  <2>3. UpBounds'
    BY <1>2, FaultCounts DEF SocketLost
  <2> QED  BY <2>1, <2>2, <2>3, UploadsTyped, PTL
<1>3. CASE SocketOpens
  <2>1. WireTypes'
    BY <1>0, <1>3 DEF SocketOpens, WireTypes
  <2>2. PaintTypes' /\ UpBounds'
    BY <1>3, TypesStand DEF SocketOpens
  <2>3. InfoTypes'
    BY <1>0, <1>3 DEF SocketOpens, OpenAsks, InfoTypes
  <2> QED  BY <2>1, <2>2, <2>3, UploadsTyped, PTL
<1> QED  BY <1>1, <1>2, <1>3 DEF Socket

LEMMA InfoKeepsTypes == UploadsTypeOK /\ Info => UploadsTypeOK'
<1> SUFFICES ASSUME UploadsTypeOK, Info
             PROVE  UploadsTypeOK'
  OBVIOUS
<1>0. WireTypes /\ PaintTypes /\ InfoTypes /\ UpBounds
  BY UploadsTyped
<1>1. CASE DeviceBuildTold
  <2>1. UpBounds'
    BY <1>1, TypesStand DEF DeviceBuildTold
  <2>2. CASE Differs
    <3>1. Reload /\ UNCHANGED <<build, flashed>>
      BY <1>1, <2>2 DEF DeviceBuildTold
    <3>2. carried' \in [Uploads -> {"none", "bytes", "taken", "refused", "lost"}] /\ verdicts' \in Seq(VerdictFrames)
      BY <3>1 DEF Reload
    <3>3. WireTypes'
      BY <1>0, <3>1, <3>2 DEF Reload, WireTypes
    <3>4. PaintTypes'
      <4>1. line' \in [Uploads -> Lines] /\ bar' \in [Uploads -> BOOLEAN] /\ verdictDue' \in [ImageSlots -> BOOLEAN]
            /\ uploading' \in BOOLEAN
        BY <3>1 DEF Reload, Loaded, Lines
      <4> QED  BY <4>1 DEF PaintTypes
    <3>5. InfoTypes'
      BY <1>0, <3>1 DEF Reload, Loaded, InfoTypes, WireTypes
    <3> QED  BY <2>1, <3>3, <3>4, <3>5, UploadsTyped, PTL
  <2>3. CASE ~Differs
    <3>1. WireTypes' /\ PaintTypes'
      BY <1>1, <2>3, TypesStand DEF DeviceBuildTold
    <3>2. InfoTypes'
      BY <1>0, <1>1, <2>3 DEF DeviceBuildTold, InfoTypes, WireTypes
    <3> QED  BY <2>1, <3>1, <3>2, UploadsTyped, PTL
  <2> QED  BY <2>2, <2>3
<1>2. CASE PageBuildTold
  <2>1. WireTypes' /\ PaintTypes' /\ UpBounds'
    BY <1>2, TypesStand DEF PageBuildTold, uploadsDevice
  <2>2. InfoTypes'
    BY <1>0, <1>2 DEF PageBuildTold, InfoTypes, WireTypes
  <2> QED  BY <2>1, <2>2, UploadsTyped, PTL
<1>3. CASE InfoLost
  <2>1. WireTypes' /\ PaintTypes'
    BY <1>3, TypesStand DEF InfoLost, uploadsDevice
  <2>2. InfoTypes'
    BY <1>0, <1>3 DEF InfoLost, InfoTypes
  <2>3. UpBounds'
    BY <1>3, FaultCounts DEF InfoLost
  <2> QED  BY <2>1, <2>2, <2>3, UploadsTyped, PTL
<1> QED  BY <1>1, <1>2, <1>3 DEF Info

\* What the count needs of the types.
LEMMA CountFacts ==
  ASSUME UploadsTypeOK
  PROVE  /\ build \in Nat /\ uploadActs \in Nat /\ uploadFaults \in Nat /\ madeFrom \in Nat
         /\ deviceBuild # NoBuild => deviceBuild \in Nat
         /\ \A u \in Uploads : carried[u] \in {"none", "bytes", "taken", "refused", "lost"}
BY UploadsAssumption DEF UploadsTypeOK, Builds

LEMMA CountKept == UploadsInv /\ [UploadsNext]_uploadsVars => CountInv'
<1> SUFFICES ASSUME UploadsInv, [UploadsNext]_uploadsVars
             PROVE  CountInv'
  OBVIOUS
<1>0. UploadsTypeOK /\ CountInv /\ build \in Nat /\ uploadActs \in Nat /\ "fw" \in Uploads
  BY CountFacts, UploadKinds DEF UploadsInv
<1>1. build + One(flashed) + One(carried["fw"] = "bytes") <= uploadActs
  BY <1>0 DEF CountInv
<1>a. /\ One(flashed) \in 0..1 /\ One(carried["fw"] = "bytes") \in 0..1
      /\ One(TRUE) = 1 /\ One(FALSE) = 0
  BY DEF One
\* What does not count leaves the count.
<1>2. ASSUME UNCHANGED <<build, flashed, uploadActs>>, carried'["fw"] = "bytes" => carried["fw"] = "bytes"
      PROVE  CountInv'
  <2>1. One(carried'["fw"] = "bytes") <= One(carried["fw"] = "bytes")
    BY <1>2 DEF One
  <2>2. One(carried'["fw"] = "bytes") \in 0..1
    BY DEF One
  <2> QED  BY <1>0, <1>1, <1>2, <1>a, <2>1, <2>2 DEF CountInv
<1>3. CASE Verdict
  BY <1>2, <1>3 DEF Verdict, uploadsBounds
<1>4. CASE FlashRestart
  <2>1. build' = build + 1 /\ flashed /\ flashed' = FALSE /\ uploadActs' = uploadActs
    BY <1>4 DEF FlashRestart, uploadsBounds
  <2>2. carried'["fw"] # "bytes"
    BY <1>0, <1>4 DEF FlashRestart, UploadsTypeOK
  <2>3. One(flashed) = 1 /\ One(flashed') = 0 /\ One(carried'["fw"] = "bytes") = 0
    BY <2>1, <2>2 DEF One
  <2>4. build + 1 <= uploadActs
    BY <1>0, <1>1, <1>a, <2>3
  <2>5. build' = build + 1 /\ uploadActs' = uploadActs
    BY <2>1
  <2> QED  BY <1>0, <2>3, <2>4, <2>5 DEF CountInv
<1>5. CASE SocketLost \/ SocketOpens
  BY <1>2, <1>5 DEF SocketLost, SocketOpens, UploadFault, uploadsBounds
<1>6. CASE Info
  <2>1. UNCHANGED <<build, flashed, uploadActs>>
    BY <1>6 DEF Info, DeviceBuildTold, PageBuildTold, InfoLost, UploadFault, uploadsDevice, uploadsBounds
  <2>2. carried'["fw"] = "bytes" => carried["fw"] = "bytes"
    BY <1>0, <1>6 DEF Info, DeviceBuildTold, PageBuildTold, InfoLost, Reload, uploadsDevice
  <2> QED  BY <1>2, <2>1, <2>2
<1>7. ASSUME NEW u \in Uploads, Upload(u)
      PROVE  CountInv'
  <2>1. UNCHANGED <<build, flashed>> /\ uploadActs' = uploadActs + 1
    BY <1>7 DEF Upload, Choosing
  <2>2. One(flashed') = One(flashed) /\ One(carried'["fw"] = "bytes") <= One(carried["fw"] = "bytes") + 1
    BY <2>1 DEF One
  <2>3. One(carried'["fw"] = "bytes") \in 0..1
    BY DEF One
  <2> QED  BY <1>0, <1>1, <1>a, <2>1, <2>2, <2>3 DEF CountInv
<1>8. ASSUME NEW u \in Uploads, TooBig(u)
      PROVE  CountInv'
  <2>1. UNCHANGED <<build, flashed, carried>> /\ uploadActs' = uploadActs + 1
    BY <1>8 DEF TooBig, Choosing, uploadsDevice
  <2> QED  BY <1>0, <1>1, <1>a, <2>1 DEF CountInv
<1>9. ASSUME NEW u \in Uploads, NEW ok \in BOOLEAN, Taken(u, ok)
      PROVE  CountInv'
  <2>1. UNCHANGED <<build, uploadActs>> /\ ~flashed /\ carried[u] = "bytes" /\ flashed' = (u = "fw" /\ ok)
    BY <1>9 DEF Taken, uploadsBounds
  <2>2. CASE u = "fw"
    <3>1. carried'["fw"] # "bytes"
      BY <1>0, <1>9, <2>2 DEF Taken, UploadsTypeOK
    <3>2. One(carried["fw"] = "bytes") = 1 /\ One(carried'["fw"] = "bytes") = 0 /\ One(flashed) = 0
      BY <2>1, <2>2, <3>1 DEF One
    <3>3. One(flashed') \in 0..1
      BY DEF One
    <3> QED  BY <1>0, <1>1, <2>1, <3>2, <3>3 DEF CountInv
  <2>3. CASE u # "fw"
    <3>1. carried'["fw"] = carried["fw"]
      BY <1>0, <1>9, <2>3 DEF Taken, UploadsTypeOK
    <3>2. flashed' = flashed
      BY <1>0, <2>1, <2>3 DEF UploadsTypeOK
    <3> QED  BY <1>0, <1>1, <2>1, <3>1, <3>2 DEF CountInv
  <2> QED  BY <2>2, <2>3
<1>10. ASSUME NEW u \in Uploads, RequestEnds(u) \/ RequestDropped(u) \/ RequestFails(u)
       PROVE  CountInv'
  <2>1. UNCHANGED <<build, flashed, uploadActs>>
    BY <1>10 DEF RequestEnds, RequestDropped, RequestFails, UploadFault, uploadsBounds
  <2>2. carried'["fw"] = "bytes" => carried["fw"] = "bytes"
    BY <1>0, <1>10 DEF RequestEnds, RequestDropped, RequestFails, UploadsTypeOK
  <2> QED  BY <1>2, <2>1, <2>2
<1>11. CASE UNCHANGED uploadsVars
  BY <1>2, <1>11 DEF uploadsVars, uploadsDevice, uploadsBounds
<1> QED  BY <1>3, <1>4, <1>5, <1>6, <1>7, <1>8, <1>9, <1>10, <1>11 DEF UploadsNext, Socket, Upload1

LEMMA BuildKept == UploadsInv /\ [UploadsNext]_uploadsVars => BuildInv'
<1> SUFFICES ASSUME UploadsInv, [UploadsNext]_uploadsVars
             PROVE  BuildInv'
  OBVIOUS
<1>0. BuildInv /\ build \in Nat /\ madeFrom \in Nat /\ (deviceBuild # NoBuild => deviceBuild \in Nat)
  BY CountFacts DEF UploadsInv
<1>1. CASE FlashRestart
  BY <1>0, <1>1 DEF FlashRestart, BuildInv
<1>2. CASE DeviceBuildTold
  <2>1. build' = build
    BY <1>2 DEF DeviceBuildTold
  <2>2. CASE Differs
    BY <1>0, <1>2, <2>1, <2>2 DEF DeviceBuildTold, Reload, Loaded, BuildInv
  <2>3. CASE ~Differs
    BY <1>0, <1>2, <2>1, <2>3 DEF DeviceBuildTold, BuildInv
  <2> QED  BY <2>2, <2>3
<1>3. CASE UNCHANGED <<build, deviceBuild, madeFrom>>
  BY <1>0, <1>3 DEF BuildInv
<1>4. CASE Verdict \/ SocketLost \/ SocketOpens
  BY <1>3, <1>4 DEF Verdict, SocketLost, SocketOpens, uploadsPage
<1>5. CASE PageBuildTold \/ InfoLost
  BY <1>3, <1>5 DEF PageBuildTold, InfoLost, uploadsDevice
<1>6. ASSUME NEW u \in Uploads, Upload1(u)
      PROVE  UNCHANGED <<build, deviceBuild, madeFrom>>
  BY <1>6 DEF Upload1, Upload, TooBig, Taken, RequestEnds, RequestDropped, RequestFails, uploadsDevice, uploadsPage
<1>7. CASE UNCHANGED uploadsVars
  BY <1>3, <1>7 DEF uploadsVars, uploadsDevice, uploadsPage
<1> QED  BY <1>1, <1>2, <1>3, <1>4, <1>5, <1>6, <1>7 DEF UploadsNext, Socket, Info

\* A connection was lost, or the device restarted: no verdict is promised.
Excused == uploadFaults > 0 \/ build # 0

LEMMA LinkKept == UploadsInv /\ [UploadsNext]_uploadsVars => LinkInv'
<1> SUFFICES ASSUME UploadsInv, [UploadsNext]_uploadsVars
             PROVE  LinkInv'
  OBVIOUS
<1>0. LinkInv /\ UploadsTypeOK /\ BuildInv /\ build \in Nat /\ madeFrom \in Nat /\ (deviceBuild # NoBuild => deviceBuild \in Nat)
  BY CountFacts DEF UploadsInv
<1>1. CASE FlashRestart
  BY <1>0, <1>1 DEF FlashRestart, LinkInv
<1>2. CASE SocketLost
  BY <1>2, <1>0, FaultCounts DEF SocketLost, LinkInv
<1>3. CASE SocketOpens
  BY <1>3 DEF SocketOpens, LinkInv
<1>4. CASE DeviceBuildTold
  <2>1. CASE Differs
    BY <1>0, <1>4, <2>1 DEF DeviceBuildTold, Differs, BuildInv, LinkInv
  <2>2. CASE ~Differs
    BY <1>0, <1>4, <2>2 DEF DeviceBuildTold, uploadsBounds, LinkInv
  <2> QED  BY <2>1, <2>2
<1>5. CASE PageBuildTold
  BY <1>0, <1>5 DEF PageBuildTold, uploadsDevice, uploadsBounds, LinkInv
<1>6. CASE InfoLost
  BY <1>0, <1>6, FaultCounts DEF InfoLost, uploadsDevice, LinkInv
<1>7. CASE Verdict
  BY <1>0, <1>7 DEF Verdict, uploadsBounds, LinkInv
<1>8. ASSUME NEW u \in Uploads, Upload1(u)
      PROVE  LinkInv'
  <2>1. UNCHANGED <<linked, build>>
    BY <1>8 DEF Upload1, Upload, TooBig, Taken, RequestEnds, RequestDropped, RequestFails, uploadsDevice
  <2>2. UNCHANGED uploadFaults \/ uploadFaults' > 0
    BY <1>0, <1>8, FaultCounts DEF Upload1, Upload, TooBig, Taken, RequestEnds, RequestDropped, RequestFails, uploadsBounds
  <2> QED  BY <1>0, <2>1, <2>2 DEF LinkInv
<1>9. CASE UNCHANGED uploadsVars
  BY <1>0, <1>9 DEF uploadsVars, uploadsDevice, uploadsBounds, LinkInv
<1> QED  BY <1>1, <1>2, <1>3, <1>4, <1>5, <1>6, <1>7, <1>8, <1>9 DEF UploadsNext, Socket, Info

\* A verdict on its way stays so when another is added, or another is read.
LEMMA ComingStays ==
  ASSUME verdicts \in Seq(VerdictFrames), NEW u, Coming(u)
  PROVE  /\ \A v \in VerdictFrames : verdicts' = Append(verdicts, v) => Coming(u)'
         /\ verdicts' = verdicts => Coming(u)'
         /\ verdicts # <<>> /\ verdicts' = Tail(verdicts) /\ Head(verdicts).upload # u => Coming(u)'
<1>1. PICK i \in DOMAIN verdicts : verdicts[i].upload = u
  BY DEF Coming
<1>2. ASSUME NEW v \in VerdictFrames, verdicts' = Append(verdicts, v)
      PROVE  Coming(u)'
  <2>1. i \in DOMAIN verdicts' /\ verdicts'[i] = verdicts[i]
    BY <1>1, <1>2, AppendOf
  <2> QED  BY <1>1, <2>1 DEF Coming
<1>3. ASSUME verdicts' = verdicts
      PROVE  Coming(u)'
  BY <1>3 DEF Coming
<1>4. ASSUME verdicts # <<>>, verdicts' = Tail(verdicts), Head(verdicts).upload # u
      PROVE  Coming(u)'
  <2>1. i # 1
    BY <1>1, <1>4, TailOf
  <2>2. i - 1 \in DOMAIN verdicts' /\ verdicts'[i - 1] = verdicts[i]
    BY <1>1, <1>4, <2>1, TailOf
  <2> QED  BY <1>1, <2>2 DEF Coming
<1> QED  BY <1>2, <1>3, <1>4

\* The verdict just added is on its way.
LEMMA AddedComes ==
  ASSUME verdicts \in Seq(VerdictFrames), NEW v \in VerdictFrames, verdicts' = Append(verdicts, v)
  PROVE  Coming(v.upload)'
<1>1. Len(verdicts) + 1 \in DOMAIN verdicts' /\ verdicts'[Len(verdicts) + 1] = v
  BY AppendOf
<1> QED  BY <1>1 DEF Coming

\* An image's line that waits, or that is still to be told of.
Awaits(u) == line[u] = "sent" \/ (carried[u] = "taken" /\ verdictDue[u])

\* A step that makes no line wait and reads no verdict keeps those awaited.
LEMMA AwaitedKept ==
  ASSUME UploadsInv, NEW u \in ImageSlots, Excused => Excused',
         Awaits(u)' => Awaits(u),
         \/ verdicts' = verdicts
         \/ \E v \in VerdictFrames : verdicts' = Append(verdicts, v)
         \/ verdicts # <<>> /\ verdicts' = Tail(verdicts) /\ Head(verdicts).upload # u
  PROVE  Awaits(u)' => Coming(u)' \/ Excused'
<1> SUFFICES ASSUME Awaits(u)'
             PROVE  Coming(u)' \/ Excused'
  OBVIOUS
<1>0. verdicts \in Seq(VerdictFrames)
  BY CountFacts, UploadsTyped DEF UploadsInv, WireTypes
<1>1. Awaits(u)
  OBVIOUS
<1>2. Coming(u) \/ Excused
  BY <1>1 DEF UploadsInv, ComingInv, Awaits, Excused
<1>3. CASE Coming(u)
  BY <1>0, <1>3, ComingStays
<1> QED  BY <1>2, <1>3

\* Nothing unsays a loss or a restart.
LEMMA ExcuseStands == UploadsInv /\ [UploadsNext]_uploadsVars => (Excused => Excused')
<1> SUFFICES ASSUME UploadsInv, [UploadsNext]_uploadsVars, Excused
             PROVE  Excused'
  OBVIOUS
<1>0. UploadsTypeOK /\ build \in Nat
  BY CountFacts DEF UploadsInv
<1>1. CASE Verdict
  BY <1>1 DEF Verdict, uploadsBounds, Excused
<1>2. CASE Socket
  BY <1>0, <1>2, FaultCounts DEF Socket, FlashRestart, SocketLost, SocketOpens, uploadsBounds, Excused
<1>3. CASE Info
  BY <1>0, <1>3, FaultCounts
     DEF Info, DeviceBuildTold, PageBuildTold, InfoLost, uploadsBounds, uploadsDevice, Excused
<1>4. ASSUME NEW u \in Uploads, Upload1(u)
      PROVE  Excused'
  BY <1>0, <1>4, FaultCounts DEF Upload1, Upload, TooBig, Taken, RequestEnds, RequestDropped, RequestFails,
     uploadsDevice, uploadsBounds, Excused
<1>5. CASE UNCHANGED uploadsVars
  BY <1>5 DEF uploadsVars, uploadsBounds, uploadsDevice, Excused
<1> QED  BY <1>1, <1>2, <1>3, <1>4, <1>5 DEF UploadsNext

LEMMA ComingKept == UploadsInv /\ [UploadsNext]_uploadsVars => ComingInv'
<1> SUFFICES ASSUME UploadsInv, [UploadsNext]_uploadsVars, NEW u \in ImageSlots, Awaits(u)'
             PROVE  Coming(u)' \/ Excused'
  BY DEF ComingInv, Awaits, Excused
<1>0. /\ WireTypes /\ PaintTypes /\ UploadsTypeOK /\ LinkInv /\ u \in Uploads /\ u # "fw" /\ (Excused => Excused')
      /\ build \in Nat /\ verdicts \in Seq(VerdictFrames)
  BY UploadsTyped, UploadKinds, CountFacts, ExcuseStands DEF UploadsInv, WireTypes
<1>1. CASE Verdict
  <2>1. Head(verdicts) \in VerdictFrames /\ verdicts # <<>> /\ verdicts' = Tail(verdicts) /\ carried' = carried
    BY <1>0, <1>1, TailOf DEF Verdict
  <2>2. Head(verdicts).upload \in Uploads
    BY <2>1 DEF VerdictFrames
  <2>3. PICK l \in Lines : Line(Head(verdicts).upload, l) /\ l # "sent"
    BY <1>1 DEF Verdict, Lines
  <2>4. Settled(Head(verdicts).upload)
    BY <1>1 DEF Verdict
  <2>5. Head(verdicts).upload # u
    BY <1>0, <2>2, <2>3, <2>4, PaintsOne DEF Awaits
  <2>6. Awaits(u)
    BY <1>0, <2>1, <2>2, <2>3, <2>4, <2>5, PaintsOne DEF Awaits
  <2> QED  BY <1>0, <2>1, <2>5, <2>6, AwaitedKept
<1>2. CASE Socket
  <2>1. CASE FlashRestart
    BY <1>0, <2>1 DEF FlashRestart, Excused
  <2>2. CASE SocketLost
    BY <1>0, <2>2, FaultCounts DEF SocketLost, Excused
  <2>3. CASE SocketOpens
    BY <1>0, <2>3, AwaitedKept DEF SocketOpens, Awaits
  <2> QED  BY <1>2, <2>1, <2>2, <2>3 DEF Socket
<1>3. CASE Info
  <2>1. CASE DeviceBuildTold /\ Differs
    <3>1. line'[u] = "none" /\ carried'[u] = "none"
      BY <1>0, <2>1 DEF DeviceBuildTold, Reload, Loaded
    <3> QED  BY <3>1 DEF Awaits
  <2>2. CASE ~(DeviceBuildTold /\ Differs)
    BY <1>0, <1>3, <2>2, AwaitedKept DEF Info, DeviceBuildTold, PageBuildTold, InfoLost, uploadsDevice, Awaits
  <2> QED  BY <2>1, <2>2
<1>4. ASSUME NEW x \in Uploads, Upload(x)
      PROVE  Coming(u)' \/ Excused'
  <2>1. Awaits(u)
    <3>1. CASE x = u
      BY <1>0, <1>4, <3>1 DEF Upload, Line, WireTypes, PaintTypes, Awaits
    <3>2. CASE x # u
      BY <1>0, <1>4, <3>2 DEF Upload, Line, WireTypes, PaintTypes, Awaits
    <3> QED  BY <3>1, <3>2
  <2> QED  BY <1>0, <1>4, <2>1, AwaitedKept DEF Upload
<1>5. ASSUME NEW x \in Uploads, TooBig(x)
      PROVE  Coming(u)' \/ Excused'
  <2>1. Awaits(u)
    BY <1>0, <1>5 DEF TooBig, uploadsDevice, Line, PaintTypes, Awaits
  <2> QED  BY <1>0, <1>5, <2>1, AwaitedKept DEF TooBig, uploadsDevice
<1>6. ASSUME NEW x \in Uploads, NEW ok \in BOOLEAN, Taken(x, ok)
      PROVE  Coming(u)' \/ Excused'
  <2>1. [upload |-> x, ok |-> ok] \in VerdictFrames
    BY DEF VerdictFrames
  <2>2. CASE Awaits(u)
    BY <1>0, <1>6, <2>1, <2>2, AwaitedKept DEF Taken
  <2>3. CASE ~Awaits(u)
    <3>1. x = u /\ ok
      BY <1>0, <1>6, <2>3 DEF Taken, uploadsPage, WireTypes, Awaits
    <3>2. CASE linked
      <4>1. verdicts' = Append(verdicts, [upload |-> x, ok |-> ok])
        BY <1>6, <3>1, <3>2 DEF Taken
      <4> QED  BY <1>0, <2>1, <3>1, <4>1, AddedComes
    <3>3. CASE ~linked
      BY <1>0, <3>3 DEF LinkInv, Excused
    <3> QED  BY <3>2, <3>3
  <2> QED  BY <2>2, <2>3
<1>7. ASSUME NEW x \in Uploads, RequestEnds(x)
      PROVE  Coming(u)' \/ Excused'
  <2>1. CASE x = u
    <3>1. carried'[u] = "none"
      BY <1>0, <1>7, <2>1 DEF RequestEnds, WireTypes
    <3>2. Awaits(u)
      <4>1. CASE ~SentFits(u)
        BY <1>7, <2>1, <3>1, <4>1 DEF RequestEnds, Awaits
      <4>2. CASE SentFits(u) /\ carried[u] = "taken"
        BY <1>0, <4>2 DEF SentFits, Awaits
      <4>3. CASE SentFits(u) /\ carried[u] # "taken"
        <5>1. Line(u, "failed") /\ "failed" \in Lines
          BY <1>0, <1>7, <2>1, <4>3 DEF RequestEnds, Lines
        <5> QED  BY <1>0, <3>1, <5>1, PaintsOne DEF Awaits
      <4> QED  BY <4>1, <4>2, <4>3
    <3> QED  BY <1>0, <1>7, <3>2, AwaitedKept DEF RequestEnds
  <2>2. CASE x # u
    <3>1. carried'[u] = carried[u]
      BY <1>0, <1>7, <2>2 DEF RequestEnds, WireTypes
    <3>2. line'[u] = line[u]
      <4>1. UNCHANGED line \/ \E l \in Lines : Line(x, l)
        BY <1>7 DEF RequestEnds, Lines
      <4> QED  BY <1>0, <2>2, <4>1, PaintsOne
    <3>3. verdictDue'[u] => verdictDue[u]
      <4>1. UNCHANGED verdictDue \/ Settled(x)
        BY <1>7 DEF RequestEnds
      <4> QED  BY <1>0, <4>1, PaintsOne
    <3>4. Awaits(u)
      BY <3>1, <3>2, <3>3 DEF Awaits
    <3> QED  BY <1>0, <1>7, <3>4, AwaitedKept DEF RequestEnds
  <2> QED  BY <2>1, <2>2
<1>8. ASSUME NEW x \in Uploads, RequestDropped(x)
      PROVE  Coming(u)' \/ Excused'
  BY <1>0, <1>8, FaultCounts DEF RequestDropped, Excused
<1>9. ASSUME NEW x \in Uploads, RequestFails(x)
      PROVE  Coming(u)' \/ Excused'
  <2>1. carried'[u] = "taken" => carried[u] = "taken"
    BY <1>0, <1>9 DEF RequestFails, WireTypes
  <2>2. PICK l \in Lines : Line(x, l) /\ l # "sent"
    BY <1>9 DEF RequestFails, Lines
  <2>3. Settled(x)
    BY <1>9 DEF RequestFails
  <2>4. line'[u] = "sent" => line[u] = "sent"
    BY <1>0, <2>2, PaintsOne
  <2>5. verdictDue'[u] => verdictDue[u]
    BY <1>0, <2>3, PaintsOne
  <2>6. Awaits(u)
    BY <2>1, <2>4, <2>5 DEF Awaits
  <2> QED  BY <1>0, <1>9, <2>6, AwaitedKept DEF RequestFails
<1>10. CASE UNCHANGED uploadsVars
  BY <1>0, <1>10, AwaitedKept DEF uploadsVars, uploadsDevice, uploadsPage, Awaits
<1> QED  BY <1>1, <1>2, <1>3, <1>4, <1>5, <1>6, <1>7, <1>8, <1>9, <1>10 DEF UploadsNext, Upload1

LEMMA UploadsKept == UploadsInv /\ [UploadsNext]_uploadsVars => UploadsInv'
<1> SUFFICES ASSUME UploadsInv, [UploadsNext]_uploadsVars
             PROVE  UploadsInv'
  OBVIOUS
<1>1. UploadsTypeOK'
  <2>1. UploadsTypeOK /\ CountInv
    BY DEF UploadsInv
  <2>2. CASE Verdict \/ Socket \/ Info
    BY <2>1, <2>2, VerdictTypes, SocketTypes, InfoKeepsTypes
  <2>3. ASSUME NEW u \in Uploads, Upload1(u)
        PROVE  UploadsTypeOK'
    BY <2>1, <2>3, UploadTypes
  <2>4. CASE UNCHANGED uploadsVars
    <3>1. WireTypes' /\ PaintTypes' /\ InfoTypes' /\ UpBounds'
      BY <2>1, <2>4, TypesStand DEF uploadsVars, uploadsDevice, uploadsPage
    <3> QED  BY <3>1, UploadsTyped, PTL
  <2> QED  BY <2>2, <2>3, <2>4 DEF UploadsNext
<1>2. CountInv' /\ LinkInv' /\ ComingInv' /\ BuildInv'
  BY CountKept, LinkKept, ComingKept, BuildKept
<1> QED  BY <1>1, <1>2 DEF UploadsInv

-----------------------------------------------------------------------------
(* The printer's card.                                                      *)

\* The last push on its way says what the printer's root is; with none on its
\* way it was heard.
RootsInv ==
  /\ pushes = <<>> => heard = printer /\ ~bindDeaf
  /\ pushes # <<>> => pushes[Len(pushes)] = printer

Turning == \E i \in DOMAIN orders : orders[i].kind # "scan"
Scanning == \E i \in DOMAIN orders : orders[i].kind = "scan"

\* What is painted was heard, or ordered.
PaintInv == pushes = <<>> => (Turning \/ bindShown = heard.state) /\ (Scanning \/ scanShown = heard.scan)

\* The change of state that opens a dialog.
Fires(p, s) == (s = "bound" /\ p = "binding") \/ (s \in Failures /\ s # p)

\* A bind that was pressed and is still to be told about has its order or its
\* outcome ahead of it, or a push on its way that opens the dialog.
FiresLater == \E i \in DOMAIN pushes : i > 1 /\ Fires(pushes[i - 1].state, pushes[i].state)
FiresNext == pushes # <<>> /\ bindShown = heard.state /\ Fires(bindShown, pushes[1].state)
TellInv ==
  bindRelinks = 0 /\ bindTold = "pressed" =>
    Turning \/ printer.state \in {"binding", "unbound"} \/ FiresLater \/ FiresNext

\* A failure that is painted was told.
ShownInv == (wasBinding <=> bindShown = "binding") /\ (bindShown \in Failures => bindTold = bindShown)

BindInv == BindTypeOK /\ FieldsOfPicker /\ RootsInv /\ PaintInv /\ TellInv /\ ShownInv

\* The parts of the type.
BindWires == printer \in Roots /\ orders \in Seq(Orders) /\ pushes \in Seq(Roots) /\ heard \in Roots
BindPaints ==
  /\ bindShown \in BindStates \cup {"none"} /\ wasBinding \in BOOLEAN
  /\ scanShown \in ScanStates \cup {"none"}
  /\ bindTold \in {"never", "pressed", "ok"} \cup Failures
  /\ scanTold \in {"never", "asked", "done", "moved"}
  /\ asksUnbind \in BOOLEAN
BindForms ==
  /\ current \in SerialSet \cup {NoSerial} /\ picker \in SerialSet \cup {NoSerial}
  /\ fields \in [Fields -> SerialSet \cup {NoSerial}]
  /\ focus \in Fields \cup {"none"} /\ spared \subseteq Fields
BindRest ==
  /\ bindDeaf \in BOOLEAN /\ bindActs \in 0..BindActs /\ bindEvents \in 0..BindEvents
  /\ bindRelinks \in 0..BindRelinks

LEMMA BindTyped == BindTypeOK <=> BindWires /\ BindPaints /\ BindForms /\ BindRest
BY DEF BindTypeOK, BindWires, BindPaints, BindForms, BindRest

LEMMA FirstSerial == Serials[1] \in SerialSet
<1>1. 1 \in DOMAIN Serials
  BY BindAssumption
<1> QED  BY <1>1 DEF SerialSet

LEMMA BindStarts == BindInit => BindInv
<1> SUFFICES ASSUME BindInit
             PROVE  BindInv
  OBVIOUS
<1>1. NoRoot \in Roots
  BY DEF NoRoot, Roots, BindStates, ScanStates
<1>2. [NoRoot EXCEPT !.state = "bound", !.stored = Serials[1]] \in Roots
  BY FirstSerial DEF NoRoot, Roots, BindStates, ScanStates
<1>3. printer \in Roots /\ heard \in Roots /\ orders = <<>> /\ pushes = <<printer>>
  BY <1>1, <1>2 DEF BindInit
<1>4. pushes \in Seq(Roots) /\ orders \in Seq(Orders) /\ Len(pushes) = 1 /\ pushes[1] = printer /\ pushes # <<>>
  BY <1>3
<1>5. BindWires
  BY <1>3, <1>4 DEF BindWires
<1>6. BindPaints /\ BindForms /\ BindRest
  <2>1. BindPaints /\ BindForms
    BY DEF BindInit, BindPaints, BindForms, Fields
  <2>2. BindRest
    BY BindAssumption DEF BindInit, BindRest
  <2> QED  BY <2>1, <2>2
<1>7. RootsInv /\ PaintInv
  BY <1>4 DEF RootsInv, PaintInv
<1>8. FieldsOfPicker /\ TellInv /\ ShownInv
  BY DEF BindInit, FieldsOfPicker, TellInv, ShownInv, Failures
<1> QED  BY <1>5, <1>6, <1>7, <1>8, BindTyped DEF BindInv

\* What is written to the fields keeps their kind.
LEMMA WriteTypes ==
  ASSUME BindForms, NEW v \in [Fields -> SerialSet \cup {NoSerial}], Write(v)
  PROVE  fields' \in [Fields -> SerialSet \cup {NoSerial}] /\ spared' \subseteq Fields
BY DEF Write, BindForms

\* What a paint leaves of the card.
LEMMA PaintsCard ==
  ASSUME BindTypeOK, ShownInv, FieldsOfPicker, NEW root \in Roots, NEW listed \in BOOLEAN, Paint(root, listed)
  PROVE  /\ BindPaints' /\ BindForms' /\ ShownInv' /\ FieldsOfPicker'
         /\ bindShown' = root.state /\ scanShown' = root.scan
         /\ bindTold' = "pressed" => bindTold = "pressed" /\ ~Fires(bindShown, root.state)
<1>0. /\ BindPaints /\ BindForms /\ root.state \in BindStates /\ root.scan \in ScanStates
      /\ root.stored \in SerialSet \cup {NoSerial} /\ root.hits \in BOOLEAN
  BY BindTyped DEF Roots
<1>1. PaintBind(root.state) /\ PaintScan(root.scan)
  BY DEF Paint
<1>2. bindShown' = root.state /\ scanShown' = root.scan /\ wasBinding' = (root.state = "binding")
  BY <1>1 DEF PaintBind, PaintScan
<1>3. BindDialog(root.state) \in {"ok", "none"} \cup Failures /\ ScanDialog(root.scan) \in {"done", "moved", "none"}
  BY DEF BindDialog, ScanDialog
<1>4. /\ bindTold' \in {"never", "pressed", "ok"} \cup Failures /\ scanTold' \in {"never", "asked", "done", "moved"}
      /\ asksUnbind' \in BOOLEAN
  <2>1. bindTold' \in {"never", "pressed", "ok"} \cup Failures
    BY <1>0, <1>1, <1>3 DEF PaintBind, BindPaints
  <2>2. scanTold' \in {"never", "asked", "done", "moved"}
    BY <1>0, <1>1, <1>3 DEF PaintScan, BindPaints
  <2>3. asksUnbind' \in BOOLEAN
    BY DEF Paint
  <2> QED  BY <2>1, <2>2, <2>3
<1>5. BindPaints'
  <2>1. wasBinding' \in BOOLEAN
    BY <1>2
  <2> QED  BY <1>0, <1>2, <1>4, <2>1 DEF BindPaints
<1>6. BindForms'
  <2>1. current' \in SerialSet \cup {NoSerial}
    BY <1>0 DEF Paint, BindForms
  <2>2. picker' \in SerialSet \cup {NoSerial}
    BY <1>0, FirstSerial DEF Paint, BindForms
  <2>3. Write(Of(root.stored)) \/ Write(Listing(root.hits)) \/ UNCHANGED <<fields, spared>>
    BY DEF Paint
  <2>4. Of(root.stored) \in [Fields -> SerialSet \cup {NoSerial}]
    BY <1>0 DEF Of
  <2>5. Listing(root.hits) \in [Fields -> SerialSet \cup {NoSerial}]
    BY <1>0, FirstSerial DEF Listing, FirstFound, Found, Of, BindForms
  <2>6. fields' \in [Fields -> SerialSet \cup {NoSerial}] /\ spared' \subseteq Fields
    BY <1>0, <2>3, <2>4, <2>5, WriteTypes DEF BindForms
  <2>7. focus' \in Fields \cup {"none"}
    BY <1>0 DEF Paint, BindForms
  <2> QED  BY <2>1, <2>2, <2>6, <2>7 DEF BindForms
<1>7. FieldsOfPicker'
  <2>1. CASE root.stored # NoSerial
    <3>1. picker' = root.stored /\ Write(Of(root.stored))
      BY <2>1 DEF Paint
    <3> QED  BY <3>1 DEF Write, Of, FieldsOfPicker
  <2>2. CASE root.stored = NoSerial /\ listed
    <3>1. /\ picker' = IF current # NoSerial THEN current ELSE IF root.hits THEN Serials[1] ELSE NoSerial
          /\ Write(Listing(root.hits))
      BY <2>2 DEF Paint
    <3>2. CASE current # NoSerial
      BY <3>1, <3>2 DEF Write, Listing, Of, FieldsOfPicker
    <3>3. CASE current = NoSerial /\ root.hits
      BY <3>1, <3>3 DEF Write, Listing, FirstFound, Found, Of, FieldsOfPicker
    <3>4. CASE current = NoSerial /\ ~root.hits
      BY <3>1, <3>4 DEF Write, Listing, Of, FieldsOfPicker
    <3> QED  BY <1>0, <3>2, <3>3, <3>4
  <2>3. CASE root.stored = NoSerial /\ ~listed
    BY <2>3 DEF Paint, FieldsOfPicker
  <2> QED  BY <2>1, <2>2, <2>3
<1>8. ShownInv'
  <2>1. root.state \in Failures => bindTold' = root.state
    BY <1>1 DEF PaintBind, BindDialog, ShownInv, Failures
  <2> QED  BY <1>2, <2>1 DEF ShownInv
<1>9. ASSUME bindTold' = "pressed"
      PROVE  bindTold = "pressed" /\ ~Fires(bindShown, root.state)
  <2>1. BindDialog(root.state) = "none" /\ bindTold = "pressed"
    BY <1>1, <1>3, <1>9 DEF PaintBind, Failures
  <2> QED  BY <2>1 DEF BindDialog, Fires, Failures, ShownInv
<1> QED  BY <1>2, <1>5, <1>6, <1>7, <1>8, <1>9

\* What an order added or obeyed leaves of those on their way.
LEMMA OrdersOnTheWay ==
  ASSUME orders \in Seq(Orders), NEW o \in Orders, orders' = Append(orders, o)
  PROVE  /\ (Turning => Turning') /\ (Scanning => Scanning')
         /\ (o.kind = "scan" => Scanning') /\ (o.kind # "scan" => Turning')
         /\ orders' \in Seq(Orders)
<1>0. /\ \A i \in DOMAIN orders : i \in DOMAIN orders' /\ orders'[i] = orders[i]
      /\ Len(orders) + 1 \in DOMAIN orders' /\ orders'[Len(orders) + 1] = o /\ orders' \in Seq(Orders)
  BY AppendOf
<1>1. Turning => Turning'
  BY <1>0 DEF Turning
<1>2. Scanning => Scanning'
  BY <1>0 DEF Scanning
<1>3. (o.kind = "scan" => Scanning') /\ (o.kind # "scan" => Turning')
  BY <1>0 DEF Turning, Scanning
<1> QED  BY <1>0, <1>1, <1>2, <1>3

\* What the device says is the last thing on its way.
LEMMA SaysRoots ==
  ASSUME BindInv, NEW p \in Roots, Says(p)
  PROVE  /\ pushes' \in Seq(Roots) /\ pushes' # <<>> /\ printer' = p /\ RootsInv' /\ PaintInv'
         /\ FiresLater => FiresLater'
         /\ FiresNext /\ UNCHANGED <<heard, bindShown>> => FiresNext'
         /\ pushes # <<>> /\ Fires(printer.state, p.state) => FiresLater'
         /\ pushes = <<>> /\ ~Turning /\ UNCHANGED <<heard, bindShown>> /\ Fires(printer.state, p.state) => FiresNext'
<1>0. /\ pushes \in Seq(Roots) /\ pushes' = Append(pushes, p) /\ printer' = p /\ RootsInv /\ PaintInv
  BY BindTyped DEF BindInv, BindWires, Says
<1>1. /\ pushes' \in Seq(Roots) /\ pushes' # <<>> /\ Len(pushes') = Len(pushes) + 1 /\ pushes'[Len(pushes) + 1] = p
      /\ Len(pushes) \in Nat /\ DOMAIN pushes = 1..Len(pushes) /\ DOMAIN pushes' = 1..(Len(pushes) + 1)
      /\ \A i \in 1..Len(pushes) : pushes'[i] = pushes[i]
  BY <1>0, AppendOf
<1>2. RootsInv' /\ PaintInv'
  BY <1>0, <1>1 DEF RootsInv, PaintInv
<1>3. FiresLater => FiresLater'
  <2> SUFFICES ASSUME NEW i \in DOMAIN pushes, i > 1, Fires(pushes[i - 1].state, pushes[i].state)
               PROVE  FiresLater'
    BY DEF FiresLater
  <2>1. i \in DOMAIN pushes' /\ pushes'[i] = pushes[i] /\ pushes'[i - 1] = pushes[i - 1]
    BY <1>1
  <2>2. Fires(pushes'[i - 1].state, pushes'[i].state)
    BY <2>1
  <2> QED  BY <2>1, <2>2 DEF FiresLater, Fires
<1>4. FiresNext /\ UNCHANGED <<heard, bindShown>> => FiresNext'
  <2> SUFFICES ASSUME FiresNext, UNCHANGED <<heard, bindShown>>
               PROVE  FiresNext'
    OBVIOUS
  <2>1. pushes'[1] = pushes[1]
    <3>1. Len(pushes) # 0
      BY <1>0 DEF FiresNext
    <3> QED  BY <1>1, <3>1
  <2> QED  BY <1>1, <2>1 DEF FiresNext, Fires
<1>5. pushes # <<>> /\ Fires(printer.state, p.state) => FiresLater'
  <2> SUFFICES ASSUME pushes # <<>>, Fires(printer.state, p.state)
               PROVE  FiresLater'
    OBVIOUS
  <2>0. Len(pushes) >= 1
    BY <1>0, <1>1
  <2>1. pushes'[Len(pushes)] = printer
    BY <1>0, <1>1, <2>0 DEF RootsInv
  <2>2. Len(pushes) + 1 \in DOMAIN pushes' /\ Len(pushes) + 1 > 1 /\ (Len(pushes) + 1) - 1 = Len(pushes)
    BY <1>1, <2>0
  <2>3. pushes'[(Len(pushes) + 1) - 1] = printer
    BY <2>1, <2>2
  <2>4. PICK j \in DOMAIN pushes' : j > 1 /\ pushes'[j - 1] = printer /\ pushes'[j] = p
    BY <1>1, <2>2, <2>3
  <2> QED  BY <2>4 DEF FiresLater, Fires
<1>6. pushes = <<>> /\ ~Turning /\ UNCHANGED <<heard, bindShown>> /\ Fires(printer.state, p.state) => FiresNext'
  <2> SUFFICES ASSUME pushes = <<>>, ~Turning, UNCHANGED <<heard, bindShown>>, Fires(printer.state, p.state)
               PROVE  FiresNext'
    OBVIOUS
  <2>1. heard = printer /\ bindShown = heard.state
    BY <1>0 DEF RootsInv, PaintInv
  <2>2. pushes'[1] = p
    BY <1>0
  <2> QED  BY <1>1, <2>1, <2>2 DEF FiresNext, Fires
<1> QED  BY <1>0, <1>1, <1>2, <1>3, <1>4, <1>5, <1>6

\* What stands still keeps its part of the card's invariant.
LEMMA CardStands ==
  ASSUME BindInv
  PROVE  /\ UNCHANGED <<printer, orders, pushes, heard>> => BindWires'
         /\ UNCHANGED <<bindShown, wasBinding, scanShown, bindTold, scanTold, asksUnbind>> => BindPaints'
         /\ UNCHANGED <<current, picker, fields, spared>> /\ focus' \in {focus, "none"} => BindForms' /\ FieldsOfPicker'
         /\ UNCHANGED <<bindDeaf, bindActs, bindEvents, bindRelinks>> => BindRest'
         /\ UNCHANGED <<printer, pushes, heard, bindDeaf>> => RootsInv'
         /\ UNCHANGED <<wasBinding, bindShown, bindTold>> => ShownInv'
BY BindTyped DEF BindInv, BindWires, BindPaints, BindForms, BindRest, RootsInv, ShownInv, FieldsOfPicker

\* An action of the reader's counts, within its bound.
LEMMA ReaderCounts ==
  ASSUME BindInv, BindAct, UNCHANGED bindDeaf
  PROVE  BindRest' /\ bindRelinks' = bindRelinks
BY BindTyped, BindAssumption DEF BindInv, BindAct, BindRest

LEMMA ObeyKeeps == BindInv /\ Obey => BindInv'
<1> SUFFICES ASSUME BindInv, Obey
             PROVE  BindInv'
  OBVIOUS
<1> DEFINE o == Head(orders)  p == Obeyed(printer, Head(orders))
<1>0. /\ BindWires /\ TellInv /\ RootsInv /\ PaintInv
      /\ UNCHANGED <<heard, bindShown, wasBinding, scanShown, bindTold, bindRelinks>>
  BY BindTyped DEF BindInv, Obey, bindPaint, bindBounds
<1>1. orders \in Seq(Orders) /\ orders' \in Seq(Orders) /\ o \in Orders
  BY <1>0, TailOf DEF Obey, BindWires
<1>2. p \in Roots
  <2>1. printer \in Roots
    BY <1>0 DEF BindWires
  <2>2. CASE o.kind = "scan"
    BY <2>1, <2>2 DEF Obeyed, Roots, ScanStates
  <2>3. CASE o.kind = "disconnect"
    BY <2>1, <2>3 DEF Obeyed, Roots, BindStates
  <2>4. CASE o.kind # "scan" /\ o.kind # "disconnect"
    <3>1. o.sn \in SerialSet
      BY <1>1, <2>4 DEF Orders
    <3> QED  BY <2>1, <2>4, <3>1 DEF Obeyed, Roots, BindStates
  <2> QED  BY <2>2, <2>3, <2>4
<1>3. Says(p)
  BY DEF Obey
<1> HIDE DEF p
<1>4. BindWires'
  BY <1>0, <1>1, <1>2, <1>3, SaysRoots DEF BindWires
<1>5. BindPaints' /\ BindForms' /\ FieldsOfPicker' /\ BindRest' /\ ShownInv'
  BY CardStands DEF Obey, bindPaint, bindForm, bindBounds
<1>6. RootsInv' /\ PaintInv'
  BY <1>2, <1>3, SaysRoots
<1>7. TellInv'
  <2> SUFFICES ASSUME bindRelinks = 0, bindTold = "pressed"
               PROVE  Turning' \/ printer'.state \in {"binding", "unbound"} \/ FiresLater' \/ FiresNext'
    BY <1>0 DEF TellInv
  <2>1. CASE o.kind # "scan"
    <3>1. p.state \in {"binding", "unbound"}
      BY <1>0, <2>1 DEF p, Obeyed, BindWires, Roots
    <3> QED  BY <1>3, <3>1 DEF Says
  <2>2. CASE o.kind = "scan"
    <3>1. p.state = printer.state
      BY <1>0, <2>2 DEF p, Obeyed, BindWires, Roots
    <3>2. Turning => Turning'
      <4> SUFFICES ASSUME NEW i \in DOMAIN orders, orders[i].kind # "scan"
                   PROVE  Turning'
        BY DEF Turning
      <4>1. orders # <<>> /\ orders' = Tail(orders)
        BY DEF Obey
      <4>2. i # 1
        BY <1>1, <2>2, <4>1, TailOf
      <4>3. i - 1 \in DOMAIN orders' /\ orders'[i - 1] = orders[i]
        BY <1>1, <4>1, <4>2, TailOf
      <4> QED  BY <4>3 DEF Turning
    <3>3. CASE Turning \/ printer.state \in {"binding", "unbound"}
      BY <1>3, <3>1, <3>2, <3>3 DEF Says
    <3>4. CASE FiresLater \/ FiresNext
      BY <1>0, <1>2, <1>3, <3>4, SaysRoots
    <3> QED  BY <1>0, <3>3, <3>4 DEF TellInv
  <2> QED  BY <2>1, <2>2
<1> QED  BY <1>4, <1>5, <1>6, <1>7, BindTyped, PTL DEF BindInv

LEMMA HappensKeeps == BindInv /\ Happens => BindInv'
<1> SUFFICES ASSUME BindInv, Happens
             PROVE  BindInv'
  OBVIOUS
<1>0. /\ BindWires /\ BindRest /\ TellInv /\ RootsInv /\ PaintInv
      /\ UNCHANGED <<orders, heard, bindShown, wasBinding, scanShown, bindTold, bindRelinks>>
  BY BindTyped DEF BindInv, Happens, bindPaint
<1>1. PICK p \in Roots : Says(p) /\ (p.state = printer.state \/ (printer.state # "unbound" /\ p.state \in {"bound"} \cup Failures))
  <2>0. printer \in Roots
    BY <1>0 DEF BindWires
  <2>1. ASSUME printer.state # "unbound", NEW s \in {"bound"} \cup Failures, Says([printer EXCEPT !.state = s])
        PROVE  \E p \in Roots : Says(p) /\ (p.state = printer.state \/ (printer.state # "unbound" /\ p.state \in {"bound"} \cup Failures))
    <3>1. [printer EXCEPT !.state = s] \in Roots /\ [printer EXCEPT !.state = s].state = s
      BY <2>0, <2>1 DEF Roots, BindStates
    <3> QED  BY <2>1, <3>1
  <2>2. ASSUME NEW h \in BOOLEAN, Says([printer EXCEPT !.scan = "done", !.hits = h])
        PROVE  \E p \in Roots : Says(p) /\ p.state = printer.state
    <3>1. [printer EXCEPT !.scan = "done", !.hits = h] \in Roots /\ [printer EXCEPT !.scan = "done", !.hits = h].state = printer.state
      BY <2>0 DEF Roots, ScanStates
    <3> QED  BY <2>2, <3>1
  <2>3. ASSUME Says([printer EXCEPT !.scan = "moved"])
        PROVE  \E p \in Roots : Says(p) /\ p.state = printer.state
    <3>1. [printer EXCEPT !.scan = "moved"] \in Roots /\ [printer EXCEPT !.scan = "moved"].state = printer.state
      BY <2>0 DEF Roots, ScanStates
    <3> QED  BY <2>3, <3>1
  <2> QED  BY <2>1, <2>2, <2>3 DEF Happens
<1>2. BindWires'
  BY <1>0, <1>1, SaysRoots DEF BindWires
<1>3. BindPaints' /\ BindForms' /\ FieldsOfPicker' /\ ShownInv'
  BY CardStands DEF Happens, bindPaint, bindForm
<1>4. BindRest'
  <2>1. bindEvents < BindEvents /\ bindEvents' = bindEvents + 1 /\ UNCHANGED <<bindDeaf, bindActs, bindRelinks>>
    BY DEF Happens
  <2> QED  BY <1>0, <2>1, BindAssumption DEF BindRest
<1>5. RootsInv' /\ PaintInv'
  BY <1>1, SaysRoots
<1>6. TellInv'
  <2> SUFFICES ASSUME bindRelinks = 0, bindTold = "pressed"
               PROVE  Turning' \/ printer'.state \in {"binding", "unbound"} \/ FiresLater' \/ FiresNext'
    BY <1>0 DEF TellInv
  <2>0. printer' = p
    BY <1>1, SaysRoots
  <2>1. CASE Turning
    BY <1>0, <2>1 DEF Turning
  <2>2. CASE FiresLater \/ FiresNext
    BY <1>0, <1>1, <2>2, SaysRoots
  <2>3. CASE ~Turning /\ printer.state \in {"binding", "unbound"}
    <3>1. CASE p.state = printer.state
      BY <2>0, <2>3, <3>1
    <3>2. CASE p.state # printer.state
      <4>1. Fires(printer.state, p.state)
        BY <1>1, <2>3, <3>2 DEF Fires
      <4> QED  BY <1>0, <1>1, <2>3, <4>1, SaysRoots
    <3> QED  BY <3>1, <3>2
  <2> QED  BY <1>0, <2>1, <2>2, <2>3 DEF TellInv
<1> QED  BY <1>2, <1>3, <1>4, <1>5, <1>6, BindTyped, PTL DEF BindInv

LEMMA BindRelinkKeeps == BindInv /\ BindRelink => BindInv'
<1> SUFFICES ASSUME BindInv, BindRelink
             PROVE  BindInv'
  OBVIOUS
<1>0. BindWires /\ BindRest
  BY BindTyped DEF BindInv
<1>1. /\ pushes' \in Seq(Roots) /\ orders' \in Seq(Orders) /\ pushes' # <<>> /\ Len(pushes') = 1
      /\ pushes'[1] = printer /\ printer' = printer
  BY <1>0 DEF BindRelink, BindWires
<1>2. BindWires'
  BY <1>0, <1>1 DEF BindRelink, BindWires
<1>3. BindPaints' /\ BindForms' /\ FieldsOfPicker' /\ ShownInv'
  BY CardStands DEF BindRelink, bindPaint, bindForm
<1>4. BindRest' /\ bindRelinks' # 0
  BY <1>0, BindAssumption DEF BindRelink, BindRest
<1>5. RootsInv' /\ PaintInv' /\ TellInv'
  BY <1>1, <1>4 DEF RootsInv, PaintInv, TellInv
<1> QED  BY <1>2, <1>3, <1>4, <1>5, BindTyped, PTL DEF BindInv

LEMMA BindHearKeeps == BindInv /\ BindHear => BindInv'
<1> SUFFICES ASSUME BindInv, BindHear
             PROVE  BindInv'
  OBVIOUS
<1> DEFINE root == Head(pushes)
<1>0. /\ BindWires /\ BindRest /\ TellInv /\ RootsInv /\ BindTypeOK /\ ShownInv /\ FieldsOfPicker
      /\ heard' = root /\ bindDeaf' = FALSE /\ Paint(root, root.scan = "done")
      /\ UNCHANGED <<printer, orders, bindActs, bindEvents, bindRelinks>>
  BY BindTyped DEF BindInv, BindHear, PaintPush, bindBounds
<1>1. /\ pushes \in Seq(Roots) /\ pushes # <<>> /\ pushes' = Tail(pushes)
      /\ pushes' \in Seq(Roots) /\ root = pushes[1] /\ root \in Roots /\ DOMAIN pushes = 1..Len(pushes)
      /\ Len(pushes) \in Nat /\ Len(pushes') = Len(pushes) - 1 /\ DOMAIN pushes' = 1..Len(pushes')
      /\ \A i \in 1..Len(pushes') : pushes'[i] = pushes[i + 1]
  BY <1>0, TailOf DEF BindHear, BindWires
<1>2. (root.scan = "done") \in BOOLEAN
  OBVIOUS
<1> HIDE DEF root
<1>3. /\ BindPaints' /\ BindForms' /\ ShownInv' /\ FieldsOfPicker'
      /\ bindShown' = root.state /\ scanShown' = root.scan
      /\ bindTold' = "pressed" => bindTold = "pressed" /\ ~Fires(bindShown, root.state)
  BY <1>0, <1>1, <1>2, PaintsCard
<1>4. BindWires' /\ BindRest'
  BY <1>0, <1>1 DEF BindWires, BindRest
<1>5. RootsInv'
  <2>1. CASE pushes' = <<>>
    <3>0. Len(pushes') = 0
      BY <2>1
    <3>1. Len(pushes) = 1
      BY <1>1, <3>0
    <3> QED  BY <1>0, <1>1, <2>1, <3>1 DEF RootsInv
  <2>2. CASE pushes' # <<>>
    <3>1. Len(pushes') >= 1
      BY <1>1, <2>2
    <3>2. pushes'[Len(pushes')] = pushes[Len(pushes)]
      BY <1>1, <3>1
    <3> QED  BY <1>0, <1>1, <2>2, <3>2 DEF RootsInv
  <2> QED  BY <2>1, <2>2
<1>6. PaintInv'
  BY <1>0, <1>3 DEF PaintInv
<1>7. TellInv'
  <2> SUFFICES ASSUME bindRelinks = 0, bindTold' = "pressed"
               PROVE  Turning' \/ printer'.state \in {"binding", "unbound"} \/ FiresLater' \/ FiresNext'
    BY <1>0 DEF TellInv
  <2>1. bindTold = "pressed" /\ ~Fires(bindShown, root.state)
    BY <1>3
  <2>2. CASE Turning \/ printer.state \in {"binding", "unbound"}
    BY <1>0, <2>2 DEF Turning
  <2>3. CASE FiresNext
    BY <1>1, <2>1, <2>3 DEF FiresNext
  <2>4. CASE FiresLater
    <3>1. PICK i \in DOMAIN pushes : i > 1 /\ Fires(pushes[i - 1].state, pushes[i].state)
      BY <2>4 DEF FiresLater
    <3>2. CASE i = 2
      <4>1. Len(pushes') >= 1 /\ pushes'[1] = pushes[2]
        BY <1>1, <3>1, <3>2
      <4>2. pushes' # <<>>
        BY <4>1
      <4>3. Fires(root.state, pushes[2].state)
        BY <1>1, <3>1, <3>2
      <4> QED  BY <1>0, <1>3, <4>1, <4>2, <4>3 DEF FiresNext, Fires
    <3>3. CASE i # 2
      <4>1. i - 1 \in DOMAIN pushes' /\ i - 1 > 1 /\ pushes'[i - 1] = pushes[i] /\ pushes'[(i - 1) - 1] = pushes[i - 1]
        BY <1>1, <3>1, <3>3
      <4>2. PICK j \in DOMAIN pushes' : j > 1 /\ pushes'[j] = pushes[i] /\ pushes'[j - 1] = pushes[i - 1]
        BY <4>1
      <4> QED  BY <3>1, <4>2 DEF FiresLater, Fires
    <3> QED  BY <3>2, <3>3
  <2> QED  BY <1>0, <2>1, <2>2, <2>3, <2>4 DEF TellInv
<1> QED  BY <1>3, <1>4, <1>5, <1>6, <1>7, BindTyped, PTL DEF BindInv

LEMMA RedrawKeeps == BindInv /\ Redraw => BindInv'
<1> SUFFICES ASSUME BindInv, Redraw
             PROVE  BindInv'
  OBVIOUS
<1>0. /\ BindWires /\ TellInv /\ PaintInv /\ BindTypeOK /\ ShownInv /\ FieldsOfPicker /\ heard \in Roots
      /\ heard.hits \in BOOLEAN
  BY BindTyped DEF BindInv, BindWires, Roots
<1>1. BindAct /\ Paint(heard, heard.hits) /\ UNCHANGED <<printer, orders, pushes, heard, bindDeaf>>
  BY DEF Redraw, bindDevice
<1>2. /\ BindPaints' /\ BindForms' /\ ShownInv' /\ FieldsOfPicker'
      /\ bindShown' = heard.state /\ scanShown' = heard.scan
      /\ bindTold' = "pressed" => bindTold = "pressed" /\ ~Fires(bindShown, heard.state)
  BY <1>0, <1>1, PaintsCard
<1>3. BindRest' /\ bindRelinks' = bindRelinks
  BY <1>1, ReaderCounts
<1>4. BindWires' /\ RootsInv'
  BY <1>1, CardStands
<1>5. PaintInv'
  BY <1>1, <1>2 DEF PaintInv
<1>6. TellInv'
  <2> SUFFICES ASSUME bindRelinks = 0, bindTold = "pressed"
               PROVE  Turning' \/ printer'.state \in {"binding", "unbound"} \/ FiresLater' \/ FiresNext'
    BY <1>2, <1>3 DEF TellInv
  <2>1. FiresNext => FiresNext'
    BY <1>1, <1>2 DEF FiresNext
  <2>2. (Turning => Turning') /\ (FiresLater => FiresLater')
    BY <1>1 DEF Turning, FiresLater
  <2> QED  BY <1>0, <1>1, <2>1, <2>2 DEF TellInv
<1> QED  BY <1>2, <1>3, <1>4, <1>5, <1>6, BindTyped, PTL DEF BindInv

LEMMA ScanPressedKeeps == BindInv /\ ScanPressed => BindInv'
<1> SUFFICES ASSUME BindInv, ScanPressed
             PROVE  BindInv'
  OBVIOUS
<1> DEFINE o == [kind |-> "scan"]
<1>0. BindWires /\ BindPaints /\ TellInv /\ PaintInv
  BY BindTyped DEF BindInv
<1>1. /\ BindAct /\ orders' = Append(orders, o) /\ o \in Orders /\ o.kind = "scan"
      /\ UNCHANGED <<printer, pushes, heard, bindDeaf, bindShown, bindTold, wasBinding>>
  BY DEF ScanPressed, ReaderActs, Orders
<1> HIDE DEF o
<1>2. (Turning => Turning') /\ Scanning' /\ orders' \in Seq(Orders)
  BY <1>0, <1>1, OrdersOnTheWay DEF BindWires
<1>3. BindWires' /\ RootsInv' /\ ShownInv'
  BY <1>0, <1>1, <1>2, CardStands DEF BindWires
<1>4. BindPaints'
  BY <1>0 DEF ScanPressed, BindPaints, ScanStates
<1>5. BindForms' /\ FieldsOfPicker'
  BY CardStands DEF ScanPressed
<1>6. BindRest' /\ bindRelinks' = bindRelinks
  BY <1>1, ReaderCounts
<1>7. PaintInv'
  BY <1>0, <1>1, <1>2 DEF PaintInv
<1>8. TellInv'
  <2>1. (FiresNext => FiresNext') /\ (FiresLater => FiresLater')
    BY <1>1 DEF FiresNext, FiresLater
  <2> QED  BY <1>0, <1>1, <1>2, <1>6, <2>1 DEF TellInv
<1> QED  BY <1>3, <1>4, <1>5, <1>6, <1>7, <1>8, BindTyped, PTL DEF BindInv

\* A press or a choice that neither orders nor paints a state.
LEMMA CardStays ==
  ASSUME BindInv, UNCHANGED <<printer, orders, pushes, heard, bindDeaf, bindShown, wasBinding, scanShown, bindTold, bindRelinks>>
  PROVE  BindWires' /\ RootsInv' /\ PaintInv' /\ TellInv' /\ ShownInv'
<1>1. BindWires' /\ RootsInv' /\ ShownInv'
  BY CardStands
<1>2. PaintInv'
  BY DEF BindInv, PaintInv, Turning, Scanning
<1>3. TellInv'
  BY DEF BindInv, TellInv, Turning, FiresLater, FiresNext
<1> QED  BY <1>1, <1>2, <1>3

LEMMA BindPressedKeeps == BindInv /\ BindPressed => BindInv'
<1> SUFFICES ASSUME BindInv, BindPressed
             PROVE  BindInv'
  OBVIOUS
<1>0. BindWires /\ BindPaints /\ BindForms
  BY BindTyped DEF BindInv
<1>1. BindAct /\ focus' = "none" /\ UNCHANGED <<heard, current, picker, fields, spared, bindDeaf>>
  BY DEF BindPressed, ReaderActs
<1>2. BindForms' /\ FieldsOfPicker' /\ BindRest' /\ bindRelinks' = bindRelinks
  BY <1>1, CardStands, ReaderCounts
<1>3. ASSUME Filled, orders' = Append(orders, [kind |-> "bind", sn |-> fields["sn"]]), PaintedBinding, bindTold' = "pressed",
             UNCHANGED <<printer, pushes, scanShown, scanTold, asksUnbind>>
      PROVE  BindInv'
  <2>1. [kind |-> "bind", sn |-> fields["sn"]] \in Orders
    <3>1. fields["sn"] \in SerialSet
      BY <1>0, <1>3 DEF Filled, BindForms, Fields
    <3> QED  BY <3>1 DEF Orders
  <2>2. Turning' /\ (Scanning => Scanning') /\ orders' \in Seq(Orders)
    BY <1>0, <1>3, <2>1, OrdersOnTheWay DEF BindWires
  <2>3. BindWires' /\ RootsInv'
    BY <1>0, <1>1, <1>3, <2>2, CardStands DEF BindWires
  <2>4. BindPaints' /\ ShownInv'
    BY <1>0, <1>3 DEF BindPaints, ShownInv, PaintedBinding, BindStates, Failures
  <2>5. PaintInv' /\ TellInv'
    BY <1>1, <1>3, <2>2 DEF BindInv, PaintInv, TellInv
  <2> QED  BY <1>2, <2>3, <2>4, <2>5, BindTyped, PTL DEF BindInv
<1>4. ASSUME asksUnbind' = TRUE, UNCHANGED <<bindDevice, bindShown, wasBinding, scanShown, bindTold, scanTold>>
      PROVE  BindInv'
  <2>1. BindWires' /\ RootsInv' /\ PaintInv' /\ TellInv' /\ ShownInv'
    BY <1>1, <1>2, <1>4, CardStays DEF bindDevice
  <2>2. BindPaints'
    BY <1>0, <1>4 DEF BindPaints
  <2> QED  BY <1>2, <2>1, <2>2, BindTyped, PTL DEF BindInv
<1> QED  BY <1>3, <1>4 DEF BindPressed

LEMMA UnbindAnsweredKeeps == BindInv /\ UnbindAnswered => BindInv'
<1> SUFFICES ASSUME BindInv, UnbindAnswered
             PROVE  BindInv'
  OBVIOUS
<1>0. BindWires /\ BindPaints
  BY BindTyped DEF BindInv
<1>1. /\ UNCHANGED <<printer, pushes, heard, bindDeaf, scanShown, bindTold, scanTold, bindRelinks>> /\ asksUnbind' = FALSE
      /\ BindForms' /\ FieldsOfPicker' /\ BindRest'
  BY CardStands DEF UnbindAnswered, bindForm, bindBounds
<1>2. ASSUME UNCHANGED <<orders, bindShown, wasBinding>>
      PROVE  BindInv'
  <2>1. BindWires' /\ RootsInv' /\ PaintInv' /\ TellInv' /\ ShownInv'
    BY <1>1, <1>2, CardStays
  <2>2. BindPaints'
    BY <1>0, <1>1, <1>2 DEF BindPaints
  <2> QED  BY <1>1, <2>1, <2>2, BindTyped, PTL DEF BindInv
<1>3. ASSUME orders' = Append(orders, [kind |-> "disconnect"]), bindShown' = "unbound", wasBinding' = FALSE
      PROVE  BindInv'
  <2>1. Turning' /\ (Scanning => Scanning') /\ orders' \in Seq(Orders)
    <3>1. [kind |-> "disconnect"] \in Orders
      BY DEF Orders
    <3> QED  BY <1>0, <1>3, <3>1, OrdersOnTheWay DEF BindWires
  <2>2. BindWires' /\ RootsInv'
    BY <1>0, <1>1, <2>1, CardStands DEF BindWires
  <2>3. BindPaints' /\ ShownInv'
    BY <1>0, <1>1, <1>3 DEF BindPaints, ShownInv, BindStates, Failures
  <2>4. PaintInv' /\ TellInv'
    BY <1>1, <2>1 DEF BindInv, PaintInv, TellInv
  <2> QED  BY <1>1, <2>2, <2>3, <2>4, BindTyped, PTL DEF BindInv
<1> QED  BY <1>2, <1>3 DEF UnbindAnswered

\* The reader fills the fields, from the picker or by hand.
Filling ==
  \/ \E s \in SerialSet : Pick(s)
  \/ \E f \in Fields, s \in SerialSet \cup {NoSerial} : Type(f, s)

LEMMA FieldsKeep == BindInv /\ (Filling) => BindInv'
<1> SUFFICES ASSUME BindInv, Filling
             PROVE  BindInv'
  OBVIOUS
<1>1. BindAct /\ UNCHANGED <<printer, orders, pushes, heard, bindPaint, bindDeaf>>
  BY DEF Filling, Type, Pick, ReaderActs, bindDevice
<1>2. BindRest' /\ bindRelinks' = bindRelinks
  BY <1>1, ReaderCounts
<1>3. BindWires' /\ RootsInv' /\ PaintInv' /\ TellInv' /\ ShownInv' /\ BindPaints'
  BY <1>1, <1>2, CardStays, CardStands DEF bindPaint
<1>4. BindForms /\ FieldsOfPicker
  BY BindTyped DEF BindInv
<1>5. ASSUME NEW f \in Fields, NEW s \in SerialSet \cup {NoSerial}, Type(f, s)
      PROVE  BindInv'
  <2>1. BindForms' /\ FieldsOfPicker'
    BY <1>4, <1>5 DEF Type, BindForms, FieldsOfPicker
  <2> QED  BY <1>2, <1>3, <2>1, BindTyped, PTL DEF BindInv
<1>6. ASSUME NEW s \in SerialSet, Pick(s)
      PROVE  BindInv'
  <2>1. picker' = s /\ current' = current /\ spared' = {} /\ focus' = "none" /\ fields' \in {Of(s), Found(s)}
    BY <1>6 DEF Pick
  <2>2. Of(s) \in [Fields -> SerialSet \cup {NoSerial}] /\ Found(s) \in [Fields -> SerialSet \cup {NoSerial}]
    BY DEF Of, Found
  <2>3. BindForms'
    BY <1>4, <2>1, <2>2 DEF BindForms
  <2>4. FieldsOfPicker'
    BY <2>1 DEF FieldsOfPicker, Of, Found
  <2> QED  BY <1>2, <1>3, <2>3, <2>4, BindTyped, PTL DEF BindInv
<1> QED  BY <1>5, <1>6 DEF Filling

LEMMA BindKept == BindInv /\ [BindNext]_bindVars => BindInv'
<1> SUFFICES ASSUME BindInv, UNCHANGED bindVars
             PROVE  BindInv'
  BY ObeyKeeps, HappensKeeps, BindRelinkKeeps, BindHearKeeps, RedrawKeeps, ScanPressedKeeps, BindPressedKeeps,
     UnbindAnsweredKeeps, FieldsKeep DEF BindNext, Filling
<1>1. BindWires' /\ RootsInv' /\ PaintInv' /\ TellInv' /\ ShownInv'
  BY CardStays DEF bindVars, bindDevice, bindPaint, bindBounds
<1>2. BindPaints' /\ BindForms' /\ FieldsOfPicker' /\ BindRest'
  BY CardStands DEF bindVars, bindPaint, bindForm, bindBounds
<1> QED  BY <1>1, <1>2, BindTyped, PTL DEF BindInv

\* What the card shows and said once all is heard.
LEMMA BindShows == BindInv => BindTypeOK /\ PaintSettles /\ FieldsOfPicker /\ OutcomeTold
<1> SUFFICES ASSUME BindInv
             PROVE  BindTypeOK /\ PaintSettles /\ FieldsOfPicker /\ OutcomeTold
  OBVIOUS
<1>1. ASSUME BindSettled
      PROVE  /\ heard = printer /\ bindShown = printer.state /\ scanShown = printer.scan
             /\ ~Turning /\ ~FiresLater /\ ~FiresNext
  BY <1>1 DEF BindSettled, BindInv, RootsInv, PaintInv, Turning, Scanning, FiresLater, FiresNext
<1>2. PaintSettles
  BY <1>1 DEF PaintSettles
<1>3. OutcomeTold
  <2> SUFFICES ASSUME BindSettled, bindTold # "never"
               PROVE  /\ printer.state = "bound" /\ bindRelinks = 0 => bindTold # "pressed"
                      /\ printer.state \in Failures => bindTold = printer.state
    BY DEF OutcomeTold
  <2>1. printer.state = "bound" /\ bindRelinks = 0 => bindTold # "pressed"
    BY <1>1 DEF BindInv, TellInv
  <2>2. printer.state \in Failures => bindTold = printer.state
    BY <1>1 DEF BindInv, ShownInv
  <2> QED  BY <2>1, <2>2
<1> QED  BY <1>2, <1>3 DEF BindInv

-----------------------------------------------------------------------------
(* The network's card.                                                      *)

NetFrames == [kind : {"all", "wifi", "sta"}, doc : Devices] \cup [kind : {"response"}, type : Responses, ok : BOOLEAN]

\* The language and the hotspot's switch are as the device has them.
Held(x) == known[x] = device[x] /\ (x = "ap" => apSwitch = device[x])

\* A document built before what it says was changed.
Stale(x, f) == f.kind = "all" /\ f.doc[x] # device[x]

\* A command is on its way, whose document will say it; or the page, or a
\* document on its way, has it, and no document after that has it otherwise.
FreshFrom(x, i) ==
  /\ IF i = 0 THEN Held(x) ELSE frames[i].kind = "all" /\ ~Stale(x, frames[i])
  /\ \A j \in (i + 1)..Len(frames) : ~Stale(x, frames[j])
Ordered(x) == \E i \in DOMAIN commands : commands[i].kind = x
FreshInv(x) == Ordered(x) \/ \E i \in 0..Len(frames) : FreshFrom(x, i)

\* The name asked for last is the device's, or on its way and the last there.
NamedFrom(i) ==
  /\ IF i = 0 THEN device.host = pendingHost ELSE commands[i].kind = "host" /\ commands[i].to = pendingHost
  /\ \A j \in (i + 1)..Len(commands) : commands[j].kind # "host"
HostInv == \E i \in 0..Len(commands) : NamedFrom(i)

NameInv == (follows # NoNetwork => follows = pendingHost) /\ (dialog.kind = "hostname" => dialog.to = pendingHost)
FormInv == FormShowsSaved /\ (typing => touched)

\* The parts of the type.
NetWires == device \in Devices /\ gone \in BOOLEAN /\ commands \in Seq(Commands) /\ frames \in Seq(NetFrames)
NetForm == known \in Devices /\ chosen \in NetworkSet /\ field \in NetworkSet /\ touched \in BOOLEAN /\ typing \in BOOLEAN
NetShown ==
  /\ scanned \in BOOLEAN /\ apSwitch \in BOOLEAN /\ pendingHost \in Names /\ spoken \in Languages
  /\ dialog \in Dialogs /\ follows \in Names \cup {NoNetwork} /\ netOthers \in Nat
NetTypes == NetWires /\ NetForm /\ NetShown

NetInv ==
  /\ NetTypes /\ FormInv /\ NameInv
  /\ spoken = known.lang /\ FreshInv("lang")
  /\ netOthers = 0 => FreshInv("ap") /\ HostInv

LEMMA FramesTyped ==
  ASSUME frames \in Seq(NetFrames)
  PROVE  \A i \in DOMAIN frames :
           \/ frames[i].kind \in {"all", "wifi", "sta"} /\ frames[i].doc \in Devices
           \/ frames[i].kind = "response" /\ frames[i].type \in Responses /\ frames[i].ok \in BOOLEAN
<1> SUFFICES ASSUME NEW i \in DOMAIN frames
             PROVE  \/ frames[i].kind \in {"all", "wifi", "sta"} /\ frames[i].doc \in Devices
                    \/ frames[i].kind = "response" /\ frames[i].type \in Responses /\ frames[i].ok \in BOOLEAN
  OBVIOUS
<1>1. frames[i] \in NetFrames
  OBVIOUS
<1> QED  BY <1>1 DEF NetFrames

LEMMA NetworkStarts == NetworkInit => NetInv
<1> SUFFICES ASSUME NetworkInit
             PROVE  NetInv
  OBVIOUS
<1>1. PICK h \in Names, l \in Languages :
        device = [ssid |-> SavedNetwork, secret |-> SavedNetwork, scan |-> "idle", sta |-> "joined",
                  ap |-> TRUE, form |-> h, host |-> h, name |-> h, lang |-> l]
  BY DEF NetworkInit
<1>2. SavedNetwork \in NetworkSet
  BY NetworkAssumption DEF NetworkSet
<1>3. device \in Devices /\ device.ap = TRUE /\ device.host = h /\ device.lang = l
      /\ device.ssid = SavedNetwork /\ device.secret = SavedNetwork
  BY <1>1, <1>2 DEF Devices, StaStates
<1>4. commands = <<>> /\ frames = <<>> /\ known = device /\ dialog = [kind |-> "none"]
  BY DEF NetworkInit, Closed, Dialog
<1>5. dialog \in Dialogs /\ dialog.kind = "none"
  BY <1>4 DEF Dialogs
<1>6. NetWires
  <2>1. commands \in Seq(Commands) /\ frames \in Seq(NetFrames) /\ gone = FALSE
    BY <1>4 DEF NetworkInit
  <2> QED  BY <1>3, <2>1 DEF NetWires
<1>7. NetForm
  BY <1>2, <1>3, <1>4 DEF NetworkInit, NetForm
<1>8. NetShown
  <2>1. scanned = FALSE /\ apSwitch = TRUE /\ pendingHost = h /\ spoken = l /\ follows = NoNetwork /\ netOthers = 0
    BY <1>3 DEF NetworkInit
  <2> QED  BY <1>5, <2>1 DEF NetShown
<1>9. FormInv /\ NameInv /\ spoken = known.lang
  BY <1>3, <1>4, <1>5 DEF NetworkInit, FormInv, FormShowsSaved, NameInv
<1>10. FreshInv("lang") /\ FreshInv("ap")
  <2>1. Len(frames) = 0 /\ Held("lang") /\ Held("ap")
    BY <1>3, <1>4 DEF NetworkInit, Held
  <2> QED  BY <2>1 DEF FreshInv, FreshFrom
<1>11. HostInv
  <2>1. Len(commands) = 0 /\ device.host = pendingHost
    BY <1>4 DEF NetworkInit
  <2> QED  BY <2>1 DEF HostInv, NamedFrom
<1> QED  BY <1>6, <1>7, <1>8, <1>9, <1>10, <1>11 DEF NetInv, NetTypes

\* A step after which the frames on their way are still there, and the others
\* are no documents.
LEMMA FreshStays ==
  ASSUME NEW x \in {"lang", "ap"}, frames \in Seq(NetFrames), frames' \in Seq(NetFrames), FreshInv(x),
         Len(frames') >= Len(frames), \A i \in 1..Len(frames) : frames'[i] = frames[i],
         \A i \in (Len(frames) + 1)..Len(frames') : frames'[i].kind # "all",
         device'[x] = device[x], Held(x) => Held(x)', Ordered(x) => Ordered(x)'
  PROVE  FreshInv(x)'
<1>1. CASE Ordered(x)
  BY <1>1 DEF FreshInv
<1>2. CASE ~Ordered(x)
  <2>1. PICK i \in 0..Len(frames) : FreshFrom(x, i)
    BY <1>2 DEF FreshInv
  <2>0. Len(frames) \in Nat /\ Len(frames') \in Nat /\ i \in 0..Len(frames')
    OBVIOUS
  <2>2. IF i = 0 THEN Held(x)' ELSE frames'[i].kind = "all" /\ ~Stale(x, frames[i])'
    BY <2>0, <2>1 DEF FreshFrom, Stale
  <2>3. ASSUME NEW j \in (i + 1)..Len(frames')
        PROVE  ~(frames'[j].kind = "all" /\ frames'[j].doc[x] # device'[x])
    <3>1. CASE j <= Len(frames)
      <4>1. j \in (i + 1)..Len(frames) /\ frames'[j] = frames[j]
        BY <2>0, <3>1
      <4>2. ~Stale(x, frames[j])
        BY <2>1, <4>1 DEF FreshFrom
      <4> QED  BY <4>1, <4>2 DEF Stale
    <3>2. CASE j > Len(frames)
      BY <2>0, <3>2
    <3> QED  BY <2>0, <3>1, <3>2
  <2>4. FreshFrom(x, i)'
    BY <2>2, <2>3 DEF FreshFrom, Stale
  <2> QED  BY <2>0, <2>4 DEF FreshInv
<1> QED  BY <1>1, <1>2

\* A document of the device's, as the last frame on its way.
LEMMA FreshSent ==
  ASSUME NEW x \in {"lang", "ap"}, frames' \in Seq(NetFrames), frames' # <<>>,
         frames'[Len(frames')].kind = "all", frames'[Len(frames')].doc = device'
  PROVE  FreshInv(x)'
<1>1. PICK n \in Nat : n = Len(frames') /\ n # 0
  <2>1. Len(frames') \in Nat /\ Len(frames') # 0
    OBVIOUS
  <2> QED  BY <2>1
<1>2. frames'[n].kind = "all" /\ frames'[n].doc = device'
  BY <1>1
<1>3. (n + 1)..Len(frames') = {} /\ n \in 0..Len(frames')
  BY <1>1
<1>4. FreshFrom(x, n)'
  BY <1>1, <1>2, <1>3 DEF FreshFrom, Stale
<1> QED  BY <1>3, <1>4 DEF FreshInv

\* A frame that is heard: what the page has then is what the frame said, or
\* what it had.
LEMMA FreshHeard ==
  ASSUME NEW x \in {"lang", "ap"}, frames \in Seq(NetFrames), frames # <<>>, frames' = Tail(frames), FreshInv(x),
         UNCHANGED <<device, commands>>,
         IF Head(frames).kind = "all" THEN Head(frames).doc[x] = device[x] => Held(x)' ELSE Held(x) => Held(x)'
  PROVE  FreshInv(x)'
<1>0. /\ frames' \in Seq(NetFrames) /\ Head(frames) = frames[1] /\ Len(frames) \in Nat /\ Len(frames) >= 1
      /\ Len(frames') = Len(frames) - 1 /\ \A i \in 1..Len(frames') : frames'[i] = frames[i + 1]
  BY TailOf
<1>1. CASE Ordered(x)
  BY <1>1 DEF FreshInv, Ordered
<1>2. CASE ~Ordered(x)
  <2>1. PICK i \in 0..Len(frames) : FreshFrom(x, i)
    BY <1>2 DEF FreshInv
  <2>2. CASE i \in {0, 1}
    <3>1. Held(x)'
      <4>1. CASE i = 0
        <5>1. ~Stale(x, frames[1]) /\ Held(x)
          BY <1>0, <2>1, <4>1 DEF FreshFrom
        <5> QED  BY <1>0, <5>1 DEF Stale
      <4>2. CASE i = 1
        <5>1. frames[1].kind = "all" /\ ~Stale(x, frames[1])
          BY <2>1, <4>2 DEF FreshFrom
        <5> QED  BY <1>0, <5>1 DEF Stale
      <4> QED  BY <2>2, <4>1, <4>2
    <3>2. ASSUME NEW j \in 1..Len(frames')
          PROVE  ~(frames'[j].kind = "all" /\ frames'[j].doc[x] # device'[x])
      <4>1. j + 1 \in (i + 1)..Len(frames) /\ frames'[j] = frames[j + 1]
        BY <1>0, <2>2
      <4>2. ~Stale(x, frames[j + 1])
        BY <2>1, <4>1 DEF FreshFrom
      <4> QED  BY <4>1, <4>2 DEF Stale
    <3>3. FreshFrom(x, 0)'
      BY <3>1, <3>2 DEF FreshFrom, Stale
    <3> QED  BY <1>0, <3>3 DEF FreshInv
  <2>3. CASE i > 1
    <3>0. PICK k \in 1..Len(frames') : k + 1 = i
      <4>1. i - 1 \in 1..Len(frames') /\ (i - 1) + 1 = i
        BY <1>0, <2>1, <2>3
      <4> QED  BY <4>1
    <3>a. frames'[k] = frames[i]
      BY <1>0, <3>0
    <3>b. i # 0
      BY <2>3
    <3>c. frames[i].kind = "all" /\ ~Stale(x, frames[i])
      BY <2>1, <3>b DEF FreshFrom
    <3>1. frames'[k] = frames[i] /\ frames[i].kind = "all" /\ ~Stale(x, frames[i])
      BY <3>a, <3>c
    <3>2. ASSUME NEW j \in (k + 1)..Len(frames')
          PROVE  ~(frames'[j].kind = "all" /\ frames'[j].doc[x] # device'[x])
      <4>1. j + 1 \in (i + 1)..Len(frames) /\ frames'[j] = frames[j + 1]
        BY <1>0, <3>0
      <4>2. ~Stale(x, frames[j + 1])
        BY <2>1, <4>1 DEF FreshFrom
      <4> QED  BY <4>1, <4>2 DEF Stale
    <3>3. k # 0 /\ k \in 0..Len(frames')
      BY <1>0, <3>0
    <3>4. FreshFrom(x, k)'
      BY <3>1, <3>2, <3>3 DEF FreshFrom, Stale
    <3> QED  BY <3>3, <3>4 DEF FreshInv
  <2> QED  BY <1>0, <2>1, <2>2, <2>3
<1> QED  BY <1>1, <1>2

\* Nothing of it is touched.
LEMMA FreshSame ==
  ASSUME NEW x \in {"lang", "ap"}, FreshInv(x), UNCHANGED <<frames, device>>, Held(x) => Held(x)', Ordered(x) => Ordered(x)'
  PROVE  FreshInv(x)'
BY DEF FreshInv, FreshFrom, Stale

\* A name asked for, carried out, or followed by other commands.
LEMMA NameSent ==
  ASSUME commands \in Seq(Commands), NEW c \in Commands, commands' = Append(commands, c), UNCHANGED device
  PROVE  /\ c.kind = "host" /\ pendingHost' = c.to => HostInv'
         /\ c.kind # "host" /\ UNCHANGED pendingHost /\ HostInv => HostInv'
         /\ \A x \in {"lang", "ap"} : (Ordered(x) => Ordered(x)') /\ (c.kind = x => Ordered(x)')
         /\ commands' \in Seq(Commands)
<1>0. /\ Len(commands) \in Nat /\ commands' \in Seq(Commands) /\ Len(commands') = Len(commands) + 1
      /\ DOMAIN commands = 1..Len(commands) /\ DOMAIN commands' = 1..(Len(commands) + 1)
      /\ commands'[Len(commands) + 1] = c /\ \A i \in 1..Len(commands) : commands'[i] = commands[i]
  BY AppendOf
<1>1. ASSUME c.kind = "host", pendingHost' = c.to
      PROVE  HostInv'
  <2>1. PICK n \in 1..Len(commands') : n = Len(commands') /\ commands'[n] = c
    BY <1>0
  <2>2. (n + 1)..Len(commands') = {} /\ n # 0 /\ n \in 0..Len(commands')
    BY <1>0, <2>1
  <2>3. NamedFrom(n)'
    BY <1>1, <2>1, <2>2 DEF NamedFrom
  <2> QED  BY <2>2, <2>3 DEF HostInv
<1>2. ASSUME c.kind # "host", UNCHANGED pendingHost, HostInv
      PROVE  HostInv'
  <2>1. PICK i \in 0..Len(commands) : NamedFrom(i)
    BY <1>2 DEF HostInv
  <2>2. IF i = 0 THEN device'.host = pendingHost' ELSE commands'[i].kind = "host" /\ commands'[i].to = pendingHost'
    BY <1>0, <1>2, <2>1 DEF NamedFrom
  <2>3. ASSUME NEW j \in (i + 1)..Len(commands')
        PROVE  commands'[j].kind # "host"
    <3>1. CASE j = Len(commands) + 1
      BY <1>0, <1>2, <3>1
    <3>2. CASE j # Len(commands) + 1
      <4>1. j \in (i + 1)..Len(commands) /\ commands'[j] = commands[j]
        BY <1>0, <2>1, <3>2
      <4> QED  BY <2>1, <4>1 DEF NamedFrom
    <3> QED  BY <3>1, <3>2
  <2>4. NamedFrom(i)' /\ i \in 0..Len(commands')
    BY <1>0, <2>1, <2>2, <2>3 DEF NamedFrom
  <2> QED  BY <2>4 DEF HostInv
<1>3. ASSUME NEW x \in {"lang", "ap"}
      PROVE  (Ordered(x) => Ordered(x)') /\ (c.kind = x => Ordered(x)')
  BY <1>0 DEF Ordered
<1> QED  BY <1>0, <1>1, <1>2, <1>3

\* What is under way between the page and the device.
NetUnder == NetWires /\ FreshInv("lang") /\ (netOthers = 0 => FreshInv("ap") /\ HostInv)

LEMMA NetParts == NetInv <=> NetUnder /\ NetForm /\ FormInv /\ NetShown /\ NameInv /\ spoken = known.lang
BY DEF NetInv, NetTypes, NetUnder

\* A step of the page that sends nothing.
LEMMA PageQuiet ==
  ASSUME NetInv, UNCHANGED <<device, gone, commands, frames, pendingHost, netOthers>>,
         Held("lang") => Held("lang")', Held("ap") => Held("ap")'
  PROVE  NetUnder'
<1>0. NetUnder
  BY NetParts
<1>1. (Ordered("lang") => Ordered("lang")') /\ (Ordered("ap") => Ordered("ap")')
  BY DEF Ordered
<1>2. FreshInv("lang")'
  BY <1>0, <1>1, FreshSame DEF NetUnder
<1>3. FreshInv("ap") => FreshInv("ap")'
  BY <1>1, FreshSame
<1>4. HostInv => HostInv'
  BY DEF HostInv, NamedFrom
<1>5. NetWires'
  BY <1>0 DEF NetUnder, NetWires
<1> QED  BY <1>0, <1>2, <1>3, <1>4, <1>5 DEF NetUnder

\* A step of the page that sends a command.
LEMMA PageSends ==
  ASSUME NetInv, UNCHANGED <<device, gone, frames, netOthers>>, NEW c \in Commands, Sends(c),
         IF c.kind = "host" THEN pendingHost' = c.to ELSE UNCHANGED pendingHost,
         (Held("lang") => Held("lang")') \/ c.kind = "lang", (Held("ap") => Held("ap")') \/ c.kind = "ap"
  PROVE  NetUnder'
<1>0. NetUnder /\ commands \in Seq(Commands) /\ commands' = Append(commands, c)
  BY NetParts DEF Sends, NetUnder, NetWires
<1>1. /\ commands' \in Seq(Commands) /\ (HostInv => HostInv')
      /\ \A x \in {"lang", "ap"} : (Ordered(x) => Ordered(x)') /\ (c.kind = x => Ordered(x)')
  BY <1>0, NameSent
<1>2. ASSUME NEW x \in {"lang", "ap"}, FreshInv(x), (Held(x) => Held(x)') \/ c.kind = x
      PROVE  FreshInv(x)'
  <2>1. CASE c.kind = x
    BY <1>1, <2>1 DEF FreshInv
  <2>2. CASE c.kind # x
    BY <1>1, <1>2, <2>2, FreshSame
  <2> QED  BY <2>1, <2>2
<1>3. FreshInv("lang")'
  BY <1>0, <1>2 DEF NetUnder
<1>4. FreshInv("ap") => FreshInv("ap")'
  BY <1>2
<1>5. NetWires'
  BY <1>0, <1>1 DEF NetUnder, NetWires
<1> QED  BY <1>0, <1>1, <1>3, <1>4, <1>5 DEF NetUnder

\* What stands still keeps its part.
LEMMA NetStands ==
  ASSUME NetInv
  PROVE  /\ UNCHANGED <<known, chosen, field, touched, typing>> => NetForm' /\ FormInv'
         /\ UNCHANGED <<scanned, apSwitch, pendingHost, spoken, dialog, follows, netOthers>> => NetShown'
         /\ UNCHANGED <<pendingHost, dialog, follows>> => NameInv'
         /\ UNCHANGED <<known, spoken>> => (spoken = known.lang)'
         /\ UNCHANGED <<known, device, apSwitch>> => \A x \in {"lang", "ap"} : Held(x) => Held(x)'
BY DEF NetInv, NetTypes, NetForm, FormInv, FormShowsSaved, NetShown, NameInv, Held

\* The language and the switch are held by what they are held in.
LEMMA HeldParts == \A x \in {"lang", "ap"} :
  Held(x) <=> IF x = "lang" THEN known.lang = device.lang ELSE known.ap = device.ap /\ apSwitch = device.ap
BY DEF Held

LEMMA ActsFacts ==
  ASSUME NetInv, Acts
  PROVE  /\ UNCHANGED <<device, gone, frames, netOthers>> /\ dialog = [kind |-> "none"] /\ dialog.kind = "none"
         /\ follows = NoNetwork /\ NetForm /\ NetShown /\ NetWires
BY DEF NetInv, NetTypes, Acts, Closed, Dialog, netDevice, netCounts

LEMMA FormKeeps == NetInv /\ Form => NetInv'
<1> SUFFICES ASSUME NetInv, Form
             PROVE  NetInv'
  OBVIOUS
<1>0. /\ Acts /\ UNCHANGED <<known, apSwitch, pendingHost, spoken, dialog, follows, device, gone, frames, netOthers>>
      /\ NetForm /\ NetShown /\ FormInv
  BY ActsFacts DEF Form, ChooseNetwork, TypePassword, Connect, Scan, Acts, netForm, netName, NetInv, netDevice, netCounts
<1>1. Held("lang") => Held("lang")'
  BY <1>0, NetStands
<1>2. Held("ap") => Held("ap")'
  BY <1>0, NetStands
<1>3. NameInv' /\ (spoken = known.lang)'
  BY <1>0, NetStands
<1>4. scanned' \in BOOLEAN => NetShown'
  BY <1>0 DEF NetShown
<1>6. ASSUME NEW n \in NetworkSet, ChooseNetwork(n)
      PROVE  NetInv'
  <2>1. NetForm' /\ FormInv'
    BY <1>0, <1>6 DEF ChooseNetwork, NetForm, FormInv, FormShowsSaved
  <2>2. NetShown'
    BY <1>0, <1>4, <1>6 DEF ChooseNetwork, NetShown
  <2>3. NetUnder'
    BY <1>0, <1>1, <1>2, <1>6, PageQuiet DEF ChooseNetwork
  <2> QED  BY <1>3, <2>1, <2>2, <2>3, NetParts, PTL
<1>7. CASE TypePassword
  <2>1. NetForm' /\ FormInv'
    BY <1>0, <1>7 DEF TypePassword, NetForm, FormInv, FormShowsSaved
  <2>2. NetShown'
    BY <1>0, <1>4, <1>7 DEF TypePassword, NetShown
  <2>3. NetUnder'
    BY <1>0, <1>1, <1>2, <1>7, PageQuiet DEF TypePassword
  <2> QED  BY <1>3, <2>1, <2>2, <2>3, NetParts, PTL
<1>8. CASE Connect
  <2>0. [kind |-> "join", ssid |-> chosen, secret |-> field] \in Commands /\ [kind |-> "join", ssid |-> chosen, secret |-> field].kind = "join"
    BY <1>0 DEF NetForm, Commands
  <2>1. NetForm' /\ FormInv'
    BY <1>0, <1>8 DEF Connect, NetForm, FormInv, FormShowsSaved
  <2>2. NetShown'
    BY <1>0, <1>4, <1>8 DEF Connect, NetShown
  <2>3. NetUnder'
    BY <1>0, <1>1, <1>2, <1>8, <2>0, PageSends DEF Connect
  <2> QED  BY <1>3, <2>1, <2>2, <2>3, NetParts, PTL
<1>9. CASE Scan
  <2>0. [kind |-> "scan"] \in Commands /\ [kind |-> "scan"].kind = "scan"
    BY DEF Commands
  <2>1. NetForm' /\ FormInv'
    BY <1>9, NetStands DEF Scan, netForm, netName
  <2>2. NetShown'
    BY <1>0, <1>4, <1>9 DEF Scan, NetShown
  <2>3. NetUnder'
    BY <1>0, <1>1, <1>2, <1>9, <2>0, PageSends DEF Scan
  <2> QED  BY <1>3, <2>1, <2>2, <2>3, NetParts, PTL
<1> QED  BY <1>6, <1>7, <1>8, <1>9 DEF Form

LEMMA CardKeeps == NetInv /\ Card => NetInv'
<1> SUFFICES ASSUME NetInv, Card
             PROVE  NetInv'
  OBVIOUS
<1>0. /\ Acts /\ UNCHANGED <<device, gone, frames, netOthers>> /\ dialog.kind = "none" /\ follows = NoNetwork
      /\ NetForm /\ NetShown /\ FormInv /\ spoken = known.lang
  BY ActsFacts DEF Card, SetHost, SaveName, PickLanguage, FlipHotspot, Ask, NetInv
<1>1. ASSUME NEW h \in Names, SetHost(h)
      PROVE  NetInv'
  <2>0. [kind |-> "host", to |-> h] \in Commands /\ [kind |-> "host", to |-> h].kind = "host" /\ [kind |-> "host", to |-> h].to = h
    BY DEF Commands
  <2>1. UNCHANGED <<known, chosen, field, touched, typing, scanned, apSwitch, spoken, dialog, follows>> /\ pendingHost' = h
        /\ Sends([kind |-> "host", to |-> h])
    BY <1>1 DEF SetHost, netForm, netName
  <2>2. NetUnder'
    BY <1>0, <2>0, <2>1, PageSends, NetStands
  <2>3. NetForm' /\ FormInv' /\ (spoken = known.lang)'
    BY <2>1, NetStands
  <2>4. NetShown' /\ NameInv'
    BY <1>0, <2>1 DEF NetShown, NameInv
  <2> QED  BY <2>2, <2>3, <2>4, NetParts, PTL
<1>2. ASSUME NEW h \in Names, SaveName(h)
      PROVE  NetInv'
  <2>0. [kind |-> "name", to |-> h] \in Commands /\ [kind |-> "name", to |-> h].kind = "name"
    BY DEF Commands
  <2>1. UNCHANGED <<known, chosen, field, touched, typing, scanned, apSwitch, pendingHost, spoken, dialog, follows>>
        /\ Sends([kind |-> "name", to |-> h])
    BY <1>2 DEF SaveName, netPage, netForm, netName
  <2>2. NetUnder'
    BY <1>0, <2>0, <2>1, PageSends, NetStands
  <2>3. NetForm' /\ FormInv' /\ (spoken = known.lang)' /\ NetShown' /\ NameInv'
    BY <1>0, <2>1, NetStands
  <2> QED  BY <2>2, <2>3, NetParts, PTL
<1>3. ASSUME NEW l \in Languages, PickLanguage(l)
      PROVE  NetInv'
  <2>0. [kind |-> "lang", to |-> l] \in Commands /\ [kind |-> "lang", to |-> l].kind = "lang"
    BY DEF Commands
  <2>1. /\ UNCHANGED <<chosen, field, touched, typing, scanned, pendingHost, dialog, follows>>
        /\ Sends([kind |-> "lang", to |-> l]) /\ known' = [known EXCEPT !.lang = l] /\ apSwitch' = known'.ap /\ spoken' = known'.lang
    BY <1>3 DEF PickLanguage, netForm, netName, PickSays, Redrawn
  <2>2. /\ known' \in Devices /\ known'.lang = l /\ known'.ap = known.ap /\ known'.ap \in BOOLEAN
        /\ known'.ssid = known.ssid /\ known'.secret = known.secret
    BY <1>0, <2>1 DEF NetForm, Devices
  <2>3. Held("ap") => Held("ap")'
    BY <1>0, <2>1, <2>2 DEF Held
  <2>4. NetUnder'
    BY <1>0, <2>0, <2>1, <2>3, PageSends
  <2>5. NetForm' /\ FormInv'
    BY <1>0, <2>1, <2>2 DEF NetForm, FormInv, FormShowsSaved
  <2>6. NetShown' /\ NameInv'
    BY <1>0, <2>1, <2>2 DEF NetShown, NameInv
  <2>7. (spoken = known.lang)'
    BY <2>1
  <2> QED  BY <2>4, <2>5, <2>6, <2>7, NetParts, PTL
<1>4. CASE FlipHotspot
  <2>1. UNCHANGED <<known, chosen, field, touched, typing, scanned, pendingHost, spoken, follows>>
    BY <1>4 DEF FlipHotspot, netForm, netName
  <2>2. NetForm' /\ FormInv' /\ (spoken = known.lang)' /\ (Held("lang") => Held("lang")')
    <3>1. NetForm' /\ FormInv' /\ (spoken = known.lang)'
      BY <2>1, NetStands
    <3>2. Held("lang") => Held("lang")'
      BY <1>0, <2>1 DEF Held
    <3> QED  BY <3>1, <3>2
  <2>3. CASE apSwitch
    <3>1. apSwitch' = TRUE /\ apSwitch = TRUE /\ dialog' = [kind |-> "off"] /\ UNCHANGED commands
      BY <1>0, <1>4, <2>3 DEF FlipHotspot, AskedOff, Dialog, NetShown
    <3>2. Held("ap") => Held("ap")'
      BY <1>0, <2>1, <3>1 DEF Held
    <3>3. NetUnder'
      BY <1>0, <2>1, <2>2, <3>1, <3>2, PageQuiet
    <3>4. dialog' \in Dialogs /\ dialog'.kind # "hostname"
      BY <3>1 DEF Dialogs
    <3>5. NetShown' /\ NameInv'
      BY <1>0, <2>1, <3>1, <3>4 DEF NetShown, NameInv
    <3> QED  BY <2>2, <3>3, <3>5, NetParts, PTL
  <2>4. CASE ~apSwitch
    <3>0. [kind |-> "ap", on |-> TRUE] \in Commands /\ [kind |-> "ap", on |-> TRUE].kind = "ap"
      BY DEF Commands
    <3>1. apSwitch' = TRUE /\ Sends([kind |-> "ap", on |-> TRUE]) /\ UNCHANGED dialog
      BY <1>4, <2>4 DEF FlipHotspot
    <3>2. NetUnder'
      BY <1>0, <2>1, <2>2, <3>0, <3>1, PageSends
    <3>3. NetShown' /\ NameInv'
      BY <1>0, <2>1, <3>1 DEF NetShown, NameInv
    <3> QED  BY <2>2, <3>2, <3>3, NetParts, PTL
  <2> QED  BY <2>3, <2>4
<1>5. CASE Ask
  <2>1. UNCHANGED <<commands, known, chosen, field, touched, typing, scanned, apSwitch, pendingHost, spoken, follows>>
    BY <1>5 DEF Ask, netForm, netName
  <2>2. NetUnder'
    BY <1>0, <2>1, PageQuiet, NetStands
  <2>3. NetForm' /\ FormInv' /\ (spoken = known.lang)'
    BY <2>1, NetStands
  <2>4. dialog' \in Dialogs /\ dialog'.kind # "hostname"
    BY <1>5 DEF Ask, Dialog, Dialogs
  <2>5. NetShown' /\ NameInv'
    BY <1>0, <2>1, <2>4 DEF NetShown, NameInv
  <2> QED  BY <2>2, <2>3, <2>5, NetParts, PTL
<1> QED  BY <1>1, <1>2, <1>3, <1>4, <1>5 DEF Card

LEMMA PressSendsOne ==
  ASSUME NetInv, Press
  PROVE  PressSends \in Commands /\ PressSends.kind # "host" /\ (dialog.kind = "off" => PressSends.kind = "ap")
<1>0. dialog \in Dialogs /\ pendingHost \in Names
  BY NetParts DEF NetShown
<1>1. CASE dialog.kind = "off"
  BY <1>1 DEF PressSends, Commands
<1>2. CASE dialog.kind = "save"
  <2>1. dialog.to \in Names
    BY <1>0, <1>2 DEF Dialogs
  <2> QED  BY <1>2, <2>1 DEF PressSends, Commands
<1>3. CASE dialog.kind = "name_reset"
  <2>1. (CHOOSE n \in Names : TRUE) \in Names
    BY <1>0
  <2> QED  BY <1>3, <2>1 DEF PressSends, Commands
<1>4. CASE dialog.kind = "factory"
  BY <1>4 DEF PressSends, Commands
<1>5. CASE dialog.kind \notin {"off", "save", "name_reset", "factory"}
  BY <1>5 DEF PressSends, Commands
<1> QED  BY <1>1, <1>2, <1>3, <1>4, <1>5

LEMMA PressKeeps == NetInv /\ Press => NetInv'
<1> SUFFICES ASSUME NetInv, Press
             PROVE  NetInv'
  OBVIOUS
<1>0. NetShown /\ NameInv /\ NetForm
  BY NetParts
<1>1. /\ UNCHANGED <<device, gone, frames, netOthers, known, chosen, field, touched, typing, scanned, pendingHost, spoken>>
      /\ Sends(PressSends) /\ dialog' = [kind |-> "none"]
  BY DEF Press, netDevice, netForm, netName, netCounts, Closed, Dialog
<1>2. PressSends \in Commands /\ PressSends.kind # "host" /\ (dialog.kind = "off" => PressSends.kind = "ap")
  BY PressSendsOne
<1>3. apSwitch' \in BOOLEAN /\ (dialog.kind # "off" => apSwitch' = apSwitch)
  BY <1>0 DEF Press, NetShown
<1>4. NetUnder'
  <2>1. Held("lang") => Held("lang")'
    BY <1>1 DEF Held
  <2>2. (Held("ap") => Held("ap")') \/ PressSends.kind = "ap"
    BY <1>1, <1>2, <1>3 DEF Held
  <2> HIDE DEF PressSends
  <2> QED  BY <1>1, <1>2, <2>1, <2>2, PageSends
<1>5. NetForm' /\ FormInv' /\ (spoken = known.lang)'
  BY <1>1, NetStands
<1>6. follows' \in Names \cup {NoNetwork} /\ (follows' # NoNetwork => follows' = pendingHost)
  BY <1>0 DEF Press, NetShown, NameInv
<1>7. NetShown'
  <2>1. dialog' \in Dialogs
    BY <1>1 DEF Dialogs
  <2> QED  BY <1>0, <1>1, <1>3, <1>6, <2>1 DEF NetShown
<1>8. NameInv'
  BY <1>1, <1>6 DEF NameInv
<1> QED  BY <1>4, <1>5, <1>7, <1>8, NetParts, PTL

LEMMA DismissKeeps == NetInv /\ Dismiss => NetInv'
<1> SUFFICES ASSUME NetInv, Dismiss
             PROVE  NetInv'
  OBVIOUS
<1>0. NetShown /\ NameInv
  BY NetParts
<1>1. /\ UNCHANGED <<device, gone, commands, frames, netOthers, known, chosen, field, touched, typing, scanned, apSwitch>>
      /\ UNCHANGED <<pendingHost, spoken, follows>> /\ dialog' = [kind |-> "none"]
  BY DEF Dismiss, netDevice, netWires, netForm, netName, netCounts, Closed, Dialog
<1>2. NetUnder'
  BY <1>1, PageQuiet, NetStands
<1>3. NetForm' /\ FormInv' /\ (spoken = known.lang)'
  BY <1>1, NetStands
<1>4. dialog' \in Dialogs
  BY <1>1 DEF Dialogs
<1>5. NetShown' /\ NameInv'
  BY <1>0, <1>1, <1>4 DEF NetShown, NameInv
<1> QED  BY <1>2, <1>3, <1>5, NetParts, PTL

\* The type of a document, after a command.
LEMMA DoneTyped ==
  ASSUME NEW d \in Devices, NEW c \in Commands
  PROVE  /\ Done(d, c) \in Devices
         /\ c.kind # "lang" => Done(d, c).lang = d.lang
         /\ c.kind # "ap" => Done(d, c).ap = d.ap
         /\ c.kind # "host" => Done(d, c).host = d.host
         /\ c.kind = "host" => Done(d, c).host = c.to
<1>1. CASE c.kind = "scan"
  BY <1>1 DEF Done, Devices
<1>2. CASE c.kind = "join"
  <2>1. c.ssid \in NetworkSet /\ c.secret \in NetworkSet
    BY <1>2 DEF Commands
  <2> QED  BY <1>2, <2>1 DEF Done, Devices, StaStates
<1>3. CASE c.kind = "ap"
  <2>1. c.on \in BOOLEAN
    BY <1>3 DEF Commands
  <2> QED  BY <1>3, <2>1 DEF Done, Devices
<1>4. CASE c.kind \in {"form", "host", "name"}
  <2>1. c.to \in Names
    BY <1>4 DEF Commands
  <2> QED  BY <1>4, <2>1 DEF Done, Devices
<1>5. CASE c.kind = "lang"
  <2>1. c.to \in Languages
    BY <1>5 DEF Commands
  <2> QED  BY <1>5, <2>1 DEF Done, Devices
<1>6. CASE c.kind \notin {"scan", "join", "ap", "form", "host", "name", "lang"}
  BY <1>6 DEF Done
<1> QED  BY <1>1, <1>2, <1>3, <1>4, <1>5, <1>6

\* What a command is answered with: a document at the end, or none at all.
LEMMA RepliesTyped ==
  ASSUME device \in Devices, NEW c \in Commands, NEW ok \in BOOLEAN
  PROVE  /\ Replies(c, ok) \in Seq(NetFrames) /\ Len(Replies(c, ok)) \in 0..2
         /\ IF c.kind \in {"host", "form", "reset", "factory"}
              THEN \A i \in 1..Len(Replies(c, ok)) : Replies(c, ok)[i].kind # "all"
              ELSE /\ Len(Replies(c, ok)) # 0
                   /\ Replies(c, ok)[Len(Replies(c, ok))].kind = "all"
                   /\ Replies(c, ok)[Len(Replies(c, ok))].doc = Done(device, c)
<1>0. Frame("all", Done(device, c)) \in NetFrames
  <2>1. Done(device, c) \in Devices
    BY DoneTyped
  <2> QED  BY <2>1 DEF Frame, NetFrames
<1>1. ASSUME NEW t \in Responses, NEW b \in BOOLEAN
      PROVE  Response(t, b) \in NetFrames /\ Response(t, b).kind = "response"
  BY DEF Response, NetFrames
<1>2. Frame("all", Done(device, c)).kind = "all" /\ Frame("all", Done(device, c)).doc = Done(device, c)
  BY DEF Frame
<1>3. CASE c.kind = "host"
  <2>1. PICK r \in NetFrames : Replies(c, ok) = <<r>> /\ r.kind = "response"
    BY <1>1, <1>3 DEF Replies, Responses
  <2> QED  BY <1>3, <2>1
<1>4. CASE c.kind = "form"
  <2>1. PICK r \in NetFrames : Replies(c, ok) = <<r>> /\ r.kind = "response"
    <3>1. (IF c.to # device.form THEN "set_hotspot_ip" ELSE "set_ap") \in Responses
      BY DEF Responses
    <3>2. Replies(c, ok) = <<Response(IF c.to # device.form THEN "set_hotspot_ip" ELSE "set_ap", ok)>>
      BY <1>4 DEF Replies
    <3> QED  BY <1>1, <3>1, <3>2
  <2> QED  BY <1>4, <2>1
<1>5. CASE c.kind = "name"
  <2>1. PICK r \in NetFrames, f \in NetFrames : Replies(c, ok) = <<r, f>> /\ f.kind = "all" /\ f.doc = Done(device, c)
    BY <1>0, <1>1, <1>2, <1>5 DEF Replies, Responses
  <2> QED  BY <1>5, <2>1
<1>6. CASE c.kind \in {"reset", "factory"}
  <2>1. Replies(c, ok) = <<>>
    BY <1>6 DEF Replies
  <2> QED  BY <1>6, <2>1
<1>7. CASE c.kind \notin {"host", "form", "name", "reset", "factory"}
  <2>1. PICK f \in NetFrames : Replies(c, ok) = <<f>> /\ f.kind = "all" /\ f.doc = Done(device, c)
    BY <1>0, <1>2, <1>7 DEF Replies
  <2> QED  BY <1>7, <2>1
<1> QED  BY <1>3, <1>4, <1>5, <1>6, <1>7

\* Frames added to those on their way.
LEMMA AddedFrames ==
  ASSUME NEW s \in Seq(NetFrames), NEW r \in Seq(NetFrames)
  PROVE  /\ s \o r \in Seq(NetFrames) /\ Len(s \o r) = Len(s) + Len(r) /\ Len(s) \in Nat /\ Len(r) \in Nat
         /\ \A i \in 1..Len(s) : (s \o r)[i] = s[i]
         /\ \A i \in (Len(s) + 1)..(Len(s) + Len(r)) : (s \o r)[i] = r[i - Len(s)]
OBVIOUS

LEMMA ExecutesKeeps == NetInv /\ Executes => NetInv'
<1> SUFFICES ASSUME NetInv, Executes
             PROVE  NetInv'
  OBVIOUS
<1> DEFINE c == Head(commands)
<1>0. /\ NetUnder /\ NetForm /\ NetShown /\ NetWires
      /\ UNCHANGED <<known, chosen, field, touched, typing, scanned, apSwitch, pendingHost, spoken, dialog, follows, netOthers>>
  BY NetParts DEF Executes, netPage, netForm, netName, netCounts, NetUnder
<1>1. NetForm' /\ FormInv' /\ (spoken = known.lang)' /\ NetShown' /\ NameInv'
  BY <1>0, NetStands
<1>2. /\ commands # <<>> /\ commands' = Tail(commands) /\ commands \in Seq(Commands) /\ commands' \in Seq(Commands)
      /\ c = commands[1] /\ c \in Commands /\ DOMAIN commands = 1..Len(commands) /\ DOMAIN commands' = 1..Len(commands')
      /\ Len(commands) \in Nat /\ Len(commands') = Len(commands) - 1
      /\ \A i \in 1..Len(commands') : commands'[i] = commands[i + 1]
  BY <1>0, TailOf DEF Executes, NetWires
<1>3. device' = Done(device, c) /\ gone' \in BOOLEAN
  BY DEF Executes
<1>4. PICK ok \in BOOLEAN : frames' = frames \o Replies(c, ok)
  BY DEF Executes
<1> HIDE DEF c
<1>5. /\ device' \in Devices /\ (c.kind # "lang" => device'.lang = device.lang) /\ (c.kind # "ap" => device'.ap = device.ap)
      /\ (c.kind # "host" => device'.host = device.host) /\ (c.kind = "host" => device'.host = c.to)
  BY <1>0, <1>2, <1>3, DoneTyped DEF NetWires
<1>6. PICK r \in Seq(NetFrames) :
        /\ frames' = frames \o r /\ Len(r) \in 0..2
        /\ IF c.kind \in {"host", "form", "reset", "factory"}
             THEN \A i \in 1..Len(r) : r[i].kind # "all"
             ELSE Len(r) # 0 /\ r[Len(r)].kind = "all" /\ r[Len(r)].doc = device'
  BY <1>0, <1>2, <1>3, <1>4, RepliesTyped DEF NetWires
<1>7. /\ frames \in Seq(NetFrames) /\ frames' \in Seq(NetFrames) /\ Len(frames') = Len(frames) + Len(r)
      /\ Len(frames) \in Nat /\ Len(r) \in Nat /\ \A i \in 1..Len(frames) : frames'[i] = frames[i]
      /\ \A i \in (Len(frames) + 1)..(Len(frames) + Len(r)) : frames'[i] = r[i - Len(frames)]
  BY <1>0, <1>6, AddedFrames DEF NetWires
<1>8. NetWires'
  BY <1>2, <1>3, <1>5, <1>7 DEF NetWires
<1>9. ASSUME NEW x \in {"lang", "ap"}, FreshInv(x)
      PROVE  FreshInv(x)'
  <2>1. CASE c.kind \in {"host", "form", "reset", "factory"}
    <3>1. device'[x] = device[x]
      BY <1>5, <2>1
    <3>2. \A i \in (Len(frames) + 1)..Len(frames') : frames'[i].kind # "all"
      <4> SUFFICES ASSUME NEW i \in (Len(frames) + 1)..Len(frames')
                   PROVE  frames'[i].kind # "all"
        OBVIOUS
      <4>1. frames'[i] = r[i - Len(frames)] /\ i - Len(frames) \in 1..Len(r)
        BY <1>7
      <4> QED  BY <1>6, <2>1, <4>1
    <3>3. Held(x) => Held(x)'
      BY <1>0, <3>1 DEF Held
    <3>4. Ordered(x) => Ordered(x)'
      <4> SUFFICES ASSUME NEW i \in DOMAIN commands, commands[i].kind = x
                   PROVE  Ordered(x)'
        BY DEF Ordered
      <4>1. i # 1
        BY <1>2, <2>1
      <4>2. i - 1 \in DOMAIN commands' /\ commands'[i - 1] = commands[i]
        BY <1>2, <4>1
      <4> QED  BY <4>2 DEF Ordered
    <3>5. Len(frames') >= Len(frames)
      BY <1>7
    <3> QED  BY <1>7, <1>9, <3>1, <3>2, <3>3, <3>4, <3>5, FreshStays
  <2>2. CASE c.kind \notin {"host", "form", "reset", "factory"}
    <3>1. Len(r) # 0 /\ r[Len(r)].kind = "all" /\ r[Len(r)].doc = device'
      BY <1>6, <2>2
    <3>2. Len(frames') \in (Len(frames) + 1)..(Len(frames) + Len(r)) /\ Len(frames') - Len(frames) = Len(r)
      BY <1>7, <3>1
    <3>3. frames'[Len(frames')] = r[Len(r)]
      BY <1>7, <3>2
    <3>4. frames' # <<>>
      <4>1. Len(frames') # 0
        BY <1>7, <3>1
      <4> QED  BY <4>1
    <3> QED  BY <1>7, <3>1, <3>3, <3>4, FreshSent
  <2> QED  BY <2>1, <2>2
<1>10. HostInv => HostInv'
  <2> SUFFICES ASSUME NEW i \in 0..Len(commands), NamedFrom(i)
               PROVE  HostInv'
    BY DEF HostInv
  <2>1. CASE i \in {0, 1}
    <3>1. device'.host = pendingHost
      <4>1. CASE i = 0
        <5>1. 1 \in 1..Len(commands) /\ device.host = pendingHost
          BY <1>2, <4>1 DEF NamedFrom
        <5>2. c.kind # "host"
          BY <1>2, <4>1, <5>1 DEF NamedFrom
        <5> QED  BY <1>5, <5>1, <5>2
      <4>2. CASE i = 1
        <5>1. c.kind = "host" /\ c.to = pendingHost
          BY <1>2, <4>2 DEF NamedFrom
        <5> QED  BY <1>5, <5>1
      <4> QED  BY <2>1, <4>1, <4>2
    <3>2. ASSUME NEW j \in 1..Len(commands')
          PROVE  commands'[j].kind # "host"
      <4>1. j + 1 \in (i + 1)..Len(commands) /\ commands'[j] = commands[j + 1]
        BY <1>2, <2>1
      <4> QED  BY <4>1 DEF NamedFrom
    <3>3. NamedFrom(0)'
      BY <1>0, <3>1, <3>2 DEF NamedFrom
    <3> QED  BY <1>2, <3>3 DEF HostInv
  <2>2. CASE i > 1
    <3>0. PICK k \in 1..Len(commands') : k + 1 = i
      <4>1. i - 1 \in 1..Len(commands') /\ (i - 1) + 1 = i
        BY <1>2, <2>2
      <4> QED  BY <4>1
    <3>a. commands'[k] = commands[i]
      BY <1>2, <3>0
    <3>b. i # 0
      BY <2>2
    <3>c. commands[i].kind = "host" /\ commands[i].to = pendingHost
      BY <3>b DEF NamedFrom
    <3>1. commands'[k] = commands[i] /\ commands[i].kind = "host" /\ commands[i].to = pendingHost
      BY <3>a, <3>c
    <3>2. ASSUME NEW j \in (k + 1)..Len(commands')
          PROVE  commands'[j].kind # "host"
      <4>1. j + 1 \in (i + 1)..Len(commands) /\ commands'[j] = commands[j + 1]
        BY <1>2, <3>0
      <4> QED  BY <4>1 DEF NamedFrom
    <3>3. k # 0 /\ k \in 0..Len(commands')
      BY <1>2, <3>0
    <3>4. NamedFrom(k)'
      BY <1>0, <3>1, <3>2, <3>3 DEF NamedFrom
    <3> QED  BY <3>3, <3>4 DEF HostInv
  <2> QED  BY <1>2, <2>1, <2>2
<1>11. NetUnder'
  <2>1. FreshInv("lang")' /\ (netOthers = 0 => FreshInv("ap")' /\ HostInv')
    BY <1>0, <1>9, <1>10 DEF NetUnder
  <2> QED  BY <1>0, <1>8, <2>1 DEF NetUnder
<1> QED  BY <1>1, <1>11, NetParts, PTL

\* A frame heard: of the roots, or a response.
LEMMA DialogsTyped ==
  /\ \A k \in {"joined", "scan_ok", "error", "restart_ap", "ap_ok", "lost", "refused"} :
       Dialog(k) \in Dialogs /\ Dialog(k).kind # "hostname"
  /\ \A n \in Names : [kind |-> "hostname", to |-> n] \in Dialogs
BY DEF Dialog, Dialogs

LEMMA HearsRootsKeeps == NetInv /\ HearsRoots => NetInv'
<1> SUFFICES ASSUME NetInv, HearsRoots
             PROVE  NetInv'
  OBVIOUS
<1> DEFINE f == Head(frames)
<1>0. /\ NetUnder /\ NetWires /\ NetForm /\ FormInv /\ NetShown /\ NameInv /\ spoken = known.lang
      /\ UNCHANGED <<device, gone, commands, pendingHost, follows, netOthers>>
      /\ frames # <<>> /\ f.kind # "response" /\ frames' = Tail(frames)
      /\ known' = Merged(f) /\ dialog' = Opened(f)
      /\ IF f.kind = "sta" THEN UNCHANGED <<chosen, field, touched, typing, scanned>> ELSE WifiHeard(f.doc)
      /\ IF f.kind = "all" THEN Redrawn(f.doc) ELSE UNCHANGED <<apSwitch, spoken>>
  BY NetParts DEF HearsRoots, netDevice, netCounts, netForm, netName, NetUnder
<1>1. f \in NetFrames /\ frames \in Seq(NetFrames) /\ frames' \in Seq(NetFrames)
  BY <1>0, TailOf DEF NetWires
<1> HIDE DEF f
<1>2. f.kind \in {"all", "wifi", "sta"} /\ f.doc \in Devices
  BY <1>0, <1>1 DEF NetFrames
<1>3. /\ f.doc.ssid \in NetworkSet /\ f.doc.secret \in NetworkSet /\ f.doc.ap \in BOOLEAN /\ f.doc.lang \in Languages
      /\ f.doc.host \in Names /\ f.doc.sta \in StaStates /\ f.doc.scan \in {"idle", "scanning", "done"}
  BY <1>2 DEF Devices
<1>4. /\ known' \in Devices
      /\ f.kind = "all" => known' = f.doc
      /\ f.kind # "all" => known'.lang = known.lang /\ known'.ap = known.ap
      /\ f.kind # "sta" => known'.ssid = f.doc.ssid /\ known'.secret = f.doc.secret
      /\ f.kind = "sta" => known'.ssid = known.ssid /\ known'.secret = known.secret
  <2>1. known \in Devices
    BY <1>0 DEF NetForm
  <2>2. CASE f.kind = "all"
    BY <1>0, <1>2, <2>2 DEF Merged
  <2>3. CASE f.kind = "wifi"
    BY <1>0, <1>3, <2>1, <2>3 DEF Merged, Devices
  <2>4. CASE f.kind = "sta"
    BY <1>0, <1>3, <2>1, <2>4 DEF Merged, Devices
  <2> QED  BY <1>2, <2>2, <2>3, <2>4
<1>5. NetForm' /\ FormInv'
  <2>1. CASE f.kind = "sta"
    BY <1>0, <1>4, <2>1 DEF NetForm, FormInv, FormShowsSaved
  <2>2. CASE f.kind # "sta"
    <3>1. chosen' = f.doc.ssid /\ field' = (IF typing THEN field ELSE f.doc.secret) /\ touched' = (touched /\ typing) /\ typing' = typing
      BY <1>0, <2>2 DEF WifiHeard, Rebuilt
    <3>2. typing \in BOOLEAN /\ (typing => touched) /\ field \in NetworkSet
      BY <1>0 DEF NetForm, FormInv
    <3>3. NetForm'
      BY <1>3, <1>4, <3>1, <3>2 DEF NetForm
    <3>4. FormInv'
      BY <1>4, <2>2, <3>1, <3>2 DEF FormInv, FormShowsSaved
    <3> QED  BY <3>3, <3>4
  <2> QED  BY <2>1, <2>2
<1>6. apSwitch' \in BOOLEAN /\ spoken' \in Languages /\ (f.kind = "all" => apSwitch' = f.doc.ap) /\ (f.kind # "all" => apSwitch' = apSwitch)
  BY <1>0, <1>3 DEF Redrawn, NetShown
<1>7. (spoken = known.lang)'
  BY <1>0, <1>4 DEF Redrawn
<1>8. dialog' \in Dialogs /\ NameInv'
  <2>1. dialog' = dialog \/ \E k \in {"joined", "scan_ok", "lost", "refused"} : dialog' = Dialog(k)
    <3>1. StaDialog(f.doc) = dialog \/ \E k \in {"joined", "lost", "refused"} : StaDialog(f.doc) = Dialog(k)
      BY DEF StaDialog
    <3> QED  BY <1>0, <3>1 DEF Opened
  <2>2. dialog' \in Dialogs /\ (dialog'.kind = "hostname" => dialog' = dialog)
    BY <1>0, <2>1, DialogsTyped DEF NetShown
  <2> QED  BY <1>0, <2>2 DEF NameInv
<1>9. NetShown'
  <2>1. scanned' \in BOOLEAN
    <3>1. scanned \in BOOLEAN
      BY <1>0 DEF NetShown
    <3>2. ScanStands(f.doc) \in BOOLEAN
      BY <3>1 DEF ScanStands
    <3> QED  BY <1>0, <3>1, <3>2 DEF WifiHeard
  <2> QED  BY <1>0, <1>6, <1>8, <2>1 DEF NetShown
<1>10. ASSUME NEW x \in {"lang", "ap"}, FreshInv(x)
       PROVE  FreshInv(x)'
  <2>1. f.kind = "all" => (f.doc[x] = device[x] => Held(x)')
    BY <1>0, <1>4, <1>6 DEF Held
  <2>2. f.kind # "all" => (Held(x) => Held(x)')
    BY <1>0, <1>4, <1>6 DEF Held
  <2> QED  BY <1>0, <1>1, <1>10, <2>1, <2>2, FreshHeard DEF f
<1>11. HostInv => HostInv'
  BY <1>0 DEF HostInv, NamedFrom
<1>12. NetUnder'
  <2>1. NetWires'
    BY <1>0, <1>1 DEF NetWires
  <2> QED  BY <1>0, <1>10, <1>11, <2>1 DEF NetUnder
<1> QED  BY <1>5, <1>7, <1>8, <1>9, <1>12, NetParts, PTL

LEMMA HearsResponseKeeps == NetInv /\ HearsResponse => NetInv'
<1> SUFFICES ASSUME NetInv, HearsResponse
             PROVE  NetInv'
  OBVIOUS
<1> DEFINE r == Head(frames)
<1>0. /\ NetUnder /\ NetWires /\ NetShown /\ NameInv
      /\ UNCHANGED <<device, gone, commands, known, chosen, field, touched, typing, scanned, apSwitch, pendingHost, spoken>>
      /\ UNCHANGED <<follows, netOthers>>
      /\ frames # <<>> /\ r.kind = "response" /\ frames' = Tail(frames) /\ dialog' = Answered(r)
  BY NetParts DEF HearsResponse, netDevice, netCounts, netForm, netName, NetUnder
<1>1. frames \in Seq(NetFrames) /\ frames' \in Seq(NetFrames)
  BY <1>0, TailOf DEF NetWires
<1>2. NetForm' /\ FormInv' /\ (spoken = known.lang)'
  BY <1>0, NetStands
<1>3. dialog' \in Dialogs /\ NameInv'
  <2>1. \/ dialog' = dialog \/ dialog' = [kind |-> "hostname", to |-> pendingHost]
        \/ \E k \in {"error", "restart_ap", "ap_ok"} : dialog' = Dialog(k)
    BY <1>0 DEF Answered, NextName
  <2>2. CASE dialog' = dialog
    BY <1>0, <2>2 DEF NetShown, NameInv
  <2>3. CASE dialog' = [kind |-> "hostname", to |-> pendingHost]
    BY <1>0, <2>3, DialogsTyped DEF NetShown, NameInv
  <2>4. CASE \E k \in {"error", "restart_ap", "ap_ok"} : dialog' = Dialog(k)
    BY <1>0, <2>4, DialogsTyped DEF NameInv
  <2> QED  BY <2>1, <2>2, <2>3, <2>4
<1>4. NetShown'
  BY <1>0, <1>3 DEF NetShown
<1>5. ASSUME NEW x \in {"lang", "ap"}, FreshInv(x)
      PROVE  FreshInv(x)'
  <2>1. Held(x) => Held(x)'
    BY <1>0 DEF Held
  <2> QED  BY <1>0, <1>1, <1>5, <2>1, FreshHeard
<1>6. HostInv => HostInv'
  BY <1>0 DEF HostInv, NamedFrom
<1>7. NetUnder'
  <2>1. NetWires'
    BY <1>0, <1>1 DEF NetWires
  <2> QED  BY <1>0, <1>5, <1>6, <2>1 DEF NetUnder
<1> QED  BY <1>2, <1>3, <1>4, <1>7, NetParts, PTL

\* The device tells every page of its scan and of its station, in no document.
LEMMA DeviceTellsKeeps == NetInv /\ (ScanEnded \/ StaMoves) => NetInv'
<1> SUFFICES ASSUME NetInv, ScanEnded \/ StaMoves
             PROVE  NetInv'
  OBVIOUS
<1>0. /\ NetUnder /\ NetWires /\ device \in Devices
      /\ UNCHANGED <<gone, commands, known, chosen, field, touched, typing, scanned, apSwitch, pendingHost, spoken, dialog>>
      /\ UNCHANGED <<follows, netOthers>>
  BY NetParts DEF ScanEnded, StaMoves, Elsewhere, netPage, netForm, netName, netCounts, NetUnder, NetWires
<1>1. device' \in Devices /\ device'.lang = device.lang /\ device'.ap = device.ap /\ device'.host = device.host
  <2>1. CASE ScanEnded
    BY <1>0, <2>1 DEF ScanEnded, Devices
  <2>2. CASE StaMoves
    <3>1. PICK s \in StaStates : device' = [device EXCEPT !.sta = s]
      BY <2>2 DEF StaMoves
    <3> QED  BY <1>0, <3>1 DEF Devices
  <2> QED  BY <2>1, <2>2
<1>2. PICK e \in NetFrames : frames' = Append(frames, e) /\ e.kind # "all"
  <2>1. ASSUME NEW k \in {"wifi", "sta"}
        PROVE  Frame(k, device') \in NetFrames /\ Frame(k, device').kind # "all"
    BY <1>1, <2>1 DEF Frame, NetFrames
  <2> QED  BY <2>1 DEF ScanEnded, StaMoves
<1>3. /\ frames \in Seq(NetFrames) /\ frames' \in Seq(NetFrames) /\ Len(frames') = Len(frames) + 1 /\ Len(frames) \in Nat
      /\ frames'[Len(frames) + 1] = e /\ \A i \in 1..Len(frames) : frames'[i] = frames[i]
  BY <1>0, <1>2, AppendOf DEF NetWires
<1>4. NetForm' /\ FormInv' /\ (spoken = known.lang)' /\ NetShown' /\ NameInv'
  BY <1>0, NetStands
<1>5. ASSUME NEW x \in {"lang", "ap"}, FreshInv(x)
      PROVE  FreshInv(x)'
  <2>1. device'[x] = device[x]
    BY <1>1
  <2>2. (Held(x) => Held(x)') /\ (Ordered(x) => Ordered(x)')
    BY <1>0, <2>1 DEF Held, Ordered
  <2>3. Len(frames') >= Len(frames) /\ \A i \in (Len(frames) + 1)..Len(frames') : frames'[i].kind # "all"
    <3>1. \A i \in (Len(frames) + 1)..Len(frames') : i = Len(frames) + 1
      BY <1>3
    <3> QED  BY <1>2, <1>3, <3>1
  <2> QED  BY <1>3, <1>5, <2>1, <2>2, <2>3, FreshStays
<1>6. HostInv => HostInv'
  BY <1>0, <1>1 DEF HostInv, NamedFrom
<1>7. NetUnder'
  <2>1. NetWires'
    BY <1>0, <1>1, <1>3 DEF NetWires
  <2> QED  BY <1>0, <1>5, <1>6, <2>1 DEF NetUnder
<1> QED  BY <1>4, <1>7, NetParts, PTL

\* Another page's work changes neither the language nor what this page shows.
LEMMA OtherPageKeeps == NetInv /\ OtherPage => NetInv'
<1> SUFFICES ASSUME NetInv, OtherPage
             PROVE  NetInv'
  OBVIOUS
<1>0. /\ NetUnder /\ NetWires /\ NetShown
      /\ UNCHANGED <<gone, commands, frames, known, chosen, field, touched, typing, scanned, apSwitch, pendingHost, spoken>>
      /\ UNCHANGED <<dialog, follows>> /\ netOthers' = netOthers + 1
  BY NetParts DEF OtherPage, Elsewhere, netPage, netForm, netName, NetUnder
<1>1. PICK c \in Commands : device' = Done(device, c) /\ c.kind # "lang"
  <2>1. [kind : {"ap"}, on : BOOLEAN] \cup [kind : {"host", "name"}, to : Names] \subseteq Commands
    BY DEF Commands
  <2> QED  BY <2>1 DEF OtherPage
<1>2. device' \in Devices /\ device'.lang = device.lang
  BY <1>0, <1>1, DoneTyped DEF NetWires
<1>3. NetForm' /\ FormInv' /\ (spoken = known.lang)' /\ NameInv'
  BY <1>0, NetStands
<1>4. NetShown' /\ netOthers' # 0
  BY <1>0 DEF NetShown
<1>5. FreshInv("lang")'
  <2>1. FreshInv("lang")
    BY <1>0 DEF NetUnder
  <2>2. (Held("lang") => Held("lang")') /\ (Ordered("lang") => Ordered("lang")')
    BY <1>0, <1>2 DEF Held, Ordered
  <2>3. /\ frames \in Seq(NetFrames) /\ frames' \in Seq(NetFrames) /\ Len(frames') >= Len(frames)
        /\ \A i \in 1..Len(frames) : frames'[i] = frames[i]
        /\ \A i \in (Len(frames) + 1)..Len(frames') : frames'[i].kind # "all"
    BY <1>0 DEF NetWires
  <2>4. device'["lang"] = device["lang"]
    BY <1>2
  <2> QED  BY <2>1, <2>2, <2>3, <2>4, FreshStays
<1>6. NetUnder'
  <2>1. NetWires'
    BY <1>0, <1>2 DEF NetWires
  <2> QED  BY <1>4, <1>5, <2>1 DEF NetUnder
<1> QED  BY <1>3, <1>4, <1>6, NetParts, PTL

LEMMA NetworkKept == NetInv /\ [NetworkNext]_netVars => NetInv'
<1> SUFFICES ASSUME NetInv, UNCHANGED netVars
             PROVE  NetInv'
  BY ExecutesKeeps, DeviceTellsKeeps, OtherPageKeeps, HearsRootsKeeps, HearsResponseKeeps, FormKeeps, CardKeeps,
     PressKeeps, DismissKeeps DEF NetworkNext, DeviceActs, Hears
<1>1. UNCHANGED <<device, gone, commands, frames, known, chosen, field, touched, typing>>
      /\ UNCHANGED <<scanned, apSwitch, pendingHost, spoken, dialog, follows, netOthers>>
  BY DEF netVars, netDevice, netWires, netPage, netForm, netName, netCounts
<1>2. NetForm' /\ FormInv' /\ (spoken = known.lang)' /\ NetShown' /\ NameInv'
  BY <1>1, NetStands
<1>3. NetUnder'
  BY <1>1, PageQuiet, NetStands
<1> QED  BY <1>2, <1>3, NetParts, PTL

\* A name asked for while none is awaited is the only one under way, and until
\* it is answered nothing tells of a name; what then tells of one tells of one
\* that is in flash.
IsName(f) == f.kind = "response" /\ f.type = "set_hostname"
NameTold == dialog.kind = "hostname" \/ follows # NoNetwork \/ \E i \in DOMAIN frames : IsName(frames[i])
Promised ==
  dialog.kind = "hostname" \/ follows # NoNetwork \/ \E i \in DOMAIN frames : IsName(frames[i]) /\ frames[i].ok
OneAwaited ==
  ~crossed => \A i \in DOMAIN commands : commands[i].kind = "host" =>
    ~NameTold /\ \A j \in DOMAIN commands : commands[j].kind = "host" => j = i
Stored == ~crossed /\ netOthers = 0 /\ flash # NoNetwork /\ Promised /\ ~Ordered("host") => flash = pendingHost
FlashTyped == flash \in Names \cup {NoNetwork} /\ crossed \in BOOLEAN
FlashInv == FlashTyped /\ OneAwaited /\ Stored

\* A step that neither asks for a name nor answers for one.
LEMMA FlashStays ==
  ASSUME FlashInv, UNCHANGED <<flash, crossed, pendingHost>>, netOthers' = netOthers,
         NameTold' => NameTold, Promised' => Promised,
         \A i \in DOMAIN commands' : commands'[i].kind = "host" => i \in DOMAIN commands /\ commands[i].kind = "host",
         Ordered("host") => Ordered("host")'
  PROVE  FlashInv'
<1>1. FlashTyped'
  BY DEF FlashInv, FlashTyped
<1>2. OneAwaited'
  BY DEF FlashInv, OneAwaited
<1>3. Stored'
  BY DEF FlashInv, Stored
<1> QED  BY <1>1, <1>2, <1>3 DEF FlashInv

\* What a command added leaves of the names asked for.
LEMMA FlashSends ==
  ASSUME commands \in Seq(Commands), NEW c \in Commands, Sends(c), c.kind # "host"
  PROVE  /\ \A i \in DOMAIN commands' : commands'[i].kind = "host" => i \in DOMAIN commands /\ commands[i].kind = "host"
         /\ Ordered("host") => Ordered("host")'
<1>1. /\ Len(commands) \in Nat /\ Len(commands') = Len(commands) + 1 /\ commands'[Len(commands) + 1] = c
      /\ DOMAIN commands = 1..Len(commands) /\ DOMAIN commands' = 1..(Len(commands) + 1)
      /\ \A i \in 1..Len(commands) : commands'[i] = commands[i]
  BY AppendOf DEF Sends
<1>2. ASSUME NEW i \in DOMAIN commands', commands'[i].kind = "host"
      PROVE  i \in DOMAIN commands /\ commands[i].kind = "host"
  <2>1. i # Len(commands) + 1
    BY <1>1, <1>2
  <2> QED  BY <1>1, <1>2, <2>1
<1> QED  BY <1>1, <1>2 DEF Ordered

\* What is heard leaves of what comes.
LEMMA FlashHears ==
  ASSUME frames \in Seq(NetFrames), frames # <<>>, frames' = Tail(frames)
  PROVE  /\ (\E i \in DOMAIN frames' : IsName(frames'[i])) => \E i \in DOMAIN frames : IsName(frames[i])
         /\ (\E i \in DOMAIN frames' : IsName(frames'[i]) /\ frames'[i].ok)
              => \E i \in DOMAIN frames : IsName(frames[i]) /\ frames[i].ok
         /\ IsName(Head(frames)) => \E i \in DOMAIN frames : IsName(frames[i])
         /\ IsName(Head(frames)) /\ Head(frames).ok => \E i \in DOMAIN frames : IsName(frames[i]) /\ frames[i].ok
<1>1. /\ 1 \in DOMAIN frames /\ Head(frames) = frames[1]
      /\ \A i \in DOMAIN frames' : i + 1 \in DOMAIN frames /\ frames'[i] = frames[i + 1]
  OBVIOUS
<1>2. ASSUME NEW i \in DOMAIN frames', IsName(frames'[i])
      PROVE  IsName(frames[i + 1]) /\ (frames'[i].ok => frames[i + 1].ok) /\ i + 1 \in DOMAIN frames
  BY <1>1, <1>2 DEF IsName
<1> QED  BY <1>1, <1>2

LEMMA FlashForm == NetInv /\ FlashInv /\ Form => FlashInv'
<1> SUFFICES ASSUME NetInv, FlashInv, Form
             PROVE  FlashInv'
  OBVIOUS
<1>0. /\ UNCHANGED <<flash, crossed, pendingHost, netOthers, dialog, follows, frames>> /\ NetWires /\ NetForm
  BY NetParts DEF Form, ChooseNetwork, TypePassword, Connect, Scan, Acts, netName, netDevice, netCounts, NetUnder
<1>1. (NameTold' => NameTold) /\ (Promised' => Promised)
  BY <1>0 DEF NameTold, Promised
<1>2. CASE UNCHANGED commands
  BY <1>0, <1>1, <1>2, FlashStays DEF Ordered
<1>3. ASSUME NEW c \in Commands, Sends(c), c.kind # "host"
      PROVE  FlashInv'
  BY <1>0, <1>1, <1>3, FlashSends, FlashStays DEF NetWires
<1>4. [kind |-> "scan"] \in Commands /\ [kind |-> "join", ssid |-> chosen, secret |-> field] \in Commands
  BY <1>0 DEF Commands, NetForm
<1> QED  BY <1>2, <1>3, <1>4 DEF Form, ChooseNetwork, TypePassword, Connect, Scan

LEMMA FlashNamed ==
  ASSUME NetInv, FlashInv, NEW h \in Names, SetHost(h)
  PROVE  FlashInv'
<1> DEFINE c == [kind |-> "host", to |-> h]
<1>0. /\ UNCHANGED <<flash, netOthers, dialog, follows, frames>> /\ dialog.kind = "none" /\ follows = NoNetwork
      /\ crossed' = (crossed \/ NameAwaited) /\ commands' = Append(commands, c) /\ commands \in Seq(Commands)
  BY NetParts, ActsFacts DEF SetHost, Acts, Sends, netDevice, netCounts, NetWires
<1>1. c \in Commands /\ c.kind = "host"
  BY DEF Commands
<1> HIDE DEF c
<1>2. /\ Len(commands) \in Nat /\ Len(commands') = Len(commands) + 1 /\ commands'[Len(commands) + 1] = c
      /\ DOMAIN commands = 1..Len(commands) /\ DOMAIN commands' = 1..(Len(commands) + 1)
      /\ \A i \in 1..Len(commands) : commands'[i] = commands[i]
  BY <1>0, <1>1, AppendOf
<1>3. FlashTyped'
  BY <1>0 DEF FlashInv, FlashTyped
<1>4. Ordered("host")'
  BY <1>1, <1>2 DEF Ordered
<1>5. OneAwaited'
  <2> SUFFICES ASSUME ~crossed'
               PROVE  /\ ~NameTold'
                      /\ \A i \in DOMAIN commands' : commands'[i].kind = "host" => i = Len(commands) + 1
    BY DEF OneAwaited
  <2>1. ~NameAwaited
    BY <1>0
  <2>2. ~NameTold'
    BY <1>0, <2>1 DEF NameTold, NameAwaited, IsName
  <2>3. ASSUME NEW i \in DOMAIN commands', commands'[i].kind = "host", i # Len(commands) + 1
        PROVE  FALSE
    <3>1. i \in DOMAIN commands /\ commands[i].kind = "host"
      BY <1>2, <2>3
    <3> QED  BY <2>1, <3>1 DEF NameAwaited
  <2> QED  BY <2>2, <2>3
<1>6. Stored'
  BY <1>4 DEF Stored
<1> QED  BY <1>3, <1>5, <1>6 DEF FlashInv

LEMMA FlashCard == NetInv /\ FlashInv /\ Card => FlashInv'
<1> SUFFICES ASSUME NetInv, FlashInv, Card, \A h \in Names : ~SetHost(h)
             PROVE  FlashInv'
  BY FlashNamed
<1>0. /\ UNCHANGED <<flash, crossed, pendingHost, netOthers, follows, frames>> /\ NetWires
  BY NetParts DEF Card, SaveName, PickLanguage, FlipHotspot, Ask, Acts, netName, netPage, netDevice, netCounts, NetUnder
<1>1. dialog'.kind = "hostname" => dialog.kind = "hostname"
  <2>1. CASE \/ \E h \in Names : SaveName(h)
             \/ \E l \in Languages : PickLanguage(l)
    BY <2>1 DEF SaveName, PickLanguage, netPage
  <2>2. CASE FlipHotspot
    BY <2>2 DEF FlipHotspot, Dialog
  <2>3. CASE Ask
    <3>1. CASE \E f \in Names : dialog' = [kind |-> "save", to |-> f]
      BY <3>1
    <3>2. CASE \E k \in {"restart", "factory", "name_reset"} : dialog' = Dialog(k)
      BY <3>2 DEF Dialog
    <3> QED  BY <2>3, <3>1, <3>2 DEF Ask
  <2> QED  BY <2>1, <2>2, <2>3 DEF Card
<1>2. (NameTold' => NameTold) /\ (Promised' => Promised)
  BY <1>0, <1>1 DEF NameTold, Promised
<1>3. CASE UNCHANGED commands
  BY <1>0, <1>2, <1>3, FlashStays DEF Ordered
<1>4. ASSUME NEW c \in Commands, Sends(c), c.kind # "host"
      PROVE  FlashInv'
  BY <1>0, <1>2, <1>4, FlashSends, FlashStays DEF NetWires
<1>5. /\ \A n \in Names : [kind |-> "name", to |-> n] \in Commands
      /\ \A l \in Languages : [kind |-> "lang", to |-> l] \in Commands
      /\ [kind |-> "ap", on |-> TRUE] \in Commands
  BY DEF Commands
<1> QED  BY <1>3, <1>4, <1>5 DEF Card, SaveName, PickLanguage, PickSays, FlipHotspot, Ask

LEMMA FlashPress == NetInv /\ FlashInv /\ Press => FlashInv'
<1> SUFFICES ASSUME NetInv, FlashInv, Press
             PROVE  FlashInv'
  OBVIOUS
<1>0. /\ UNCHANGED <<flash, crossed, pendingHost, netOthers, frames>> /\ NetWires
      /\ Sends(PressSends) /\ dialog' = [kind |-> "none"]
  BY NetParts DEF Press, netName, netDevice, netCounts, NetUnder, Closed, Dialog
<1>1. PressSends \in Commands /\ PressSends.kind # "host"
  BY PressSendsOne
<1>2. follows' # NoNetwork => dialog.kind = "hostname" \/ follows # NoNetwork
  BY DEF Press
<1>3. (NameTold' => NameTold) /\ (Promised' => Promised)
  BY <1>0, <1>2 DEF NameTold, Promised
<1> HIDE DEF PressSends
<1> QED  BY <1>0, <1>1, <1>3, FlashSends, FlashStays DEF NetWires

LEMMA FlashDismiss == NetInv /\ FlashInv /\ Dismiss => FlashInv'
<1> SUFFICES ASSUME NetInv, FlashInv, Dismiss
             PROVE  FlashInv'
  OBVIOUS
<1>0. UNCHANGED <<flash, crossed, pendingHost, netOthers, frames, commands, follows>> /\ dialog' = [kind |-> "none"]
  BY DEF Dismiss, netName, netDevice, netWires, netCounts, Closed, Dialog
<1>1. (NameTold' => NameTold) /\ (Promised' => Promised)
  BY <1>0 DEF NameTold, Promised
<1> QED  BY <1>0, <1>1, FlashStays DEF Ordered

LEMMA FlashHearing == NetInv /\ FlashInv /\ Hears => FlashInv'
<1> SUFFICES ASSUME NetInv, FlashInv, Hears
             PROVE  FlashInv'
  OBVIOUS
<1>0. /\ UNCHANGED <<flash, crossed, pendingHost, netOthers, commands, follows>>
      /\ frames \in Seq(NetFrames) /\ frames # <<>> /\ frames' = Tail(frames)
  BY NetParts DEF Hears, HearsRoots, HearsResponse, netName, netDevice, netCounts, NetUnder, NetWires
<1>1. dialog'.kind = "hostname" => dialog' = dialog \/ (IsName(Head(frames)) /\ Head(frames).ok)
  <2>1. CASE HearsRoots
    <3>1. dialog' = dialog \/ \E k \in {"joined", "scan_ok", "lost", "refused"} : dialog' = Dialog(k)
      <4>1. StaDialog(Head(frames).doc) = dialog
              \/ \E k \in {"joined", "lost", "refused"} : StaDialog(Head(frames).doc) = Dialog(k)
        BY DEF StaDialog
      <4> QED  BY <2>1, <4>1 DEF HearsRoots, Opened
    <3> QED  BY <3>1 DEF Dialog
  <2>2. CASE HearsResponse
    <3>1. dialog' = Answered(Head(frames)) /\ Head(frames).kind = "response"
      BY <2>2 DEF HearsResponse
    <3>2. CASE Head(frames).type = "set_device_name"
      BY <3>1, <3>2 DEF Answered
    <3>3. CASE Head(frames).type # "set_device_name" /\ ~Head(frames).ok
      BY <3>1, <3>3 DEF Answered, Dialog
    <3>4. CASE Head(frames).ok /\ Head(frames).type = "set_hostname"
      BY <3>1, <3>4 DEF IsName
    <3>5. CASE Head(frames).ok /\ Head(frames).type \notin {"set_device_name", "set_hostname"}
      BY <3>1, <3>5 DEF Answered, Dialog
    <3> QED  BY <3>2, <3>3, <3>4, <3>5
  <2> QED  BY <2>1, <2>2 DEF Hears
<1>2. (NameTold' => NameTold) /\ (Promised' => Promised)
  BY <1>0, <1>1, FlashHears DEF NameTold, Promised
<1> QED  BY <1>0, <1>2, FlashStays DEF Ordered

LEMMA FlashTells == NetInv /\ FlashInv /\ (ScanEnded \/ StaMoves) => FlashInv'
<1> SUFFICES ASSUME NetInv, FlashInv, ScanEnded \/ StaMoves
             PROVE  FlashInv'
  OBVIOUS
<1>0. /\ UNCHANGED <<flash, crossed, pendingHost, netOthers, commands, follows, dialog>> /\ frames \in Seq(NetFrames)
  BY NetParts DEF ScanEnded, StaMoves, Elsewhere, netName, netPage, netCounts, NetUnder, NetWires
<1>1. PICK e : frames' = Append(frames, e) /\ ~IsName(e)
  BY DEF ScanEnded, StaMoves, Frame, IsName
<1>2. \A i \in DOMAIN frames' : IsName(frames'[i]) => i \in DOMAIN frames /\ frames'[i] = frames[i]
  BY <1>0, <1>1
<1>3. (NameTold' => NameTold) /\ (Promised' => Promised)
  BY <1>0, <1>2 DEF NameTold, Promised
<1> QED  BY <1>0, <1>3, FlashStays DEF Ordered

LEMMA FlashOther == NetInv /\ FlashInv /\ OtherPage => FlashInv'
<1> SUFFICES ASSUME NetInv, FlashInv, OtherPage
             PROVE  FlashInv'
  OBVIOUS
<1>0. /\ UNCHANGED <<crossed, commands, frames, follows, dialog>> /\ netOthers' = netOthers + 1 /\ netOthers \in Nat
      /\ device \in Devices
  BY NetParts DEF OtherPage, Elsewhere, netName, netPage, NetUnder, NetShown, NetWires
<1>1. flash' \in {flash, device'.host} /\ \E c \in Commands : device' = Done(device, c)
  <2>1. [kind : {"ap"}, on : BOOLEAN] \cup [kind : {"host", "name"}, to : Names] \subseteq Commands
    BY DEF Commands
  <2> QED  BY <2>1 DEF OtherPage
<1>2. device' \in Devices
  BY <1>0, <1>1, DoneTyped
<1>3. FlashTyped'
  <2>1. device'.host \in Names
    BY <1>2 DEF Devices
  <2> QED  BY <1>0, <1>1, <2>1 DEF FlashInv, FlashTyped
<1>4. OneAwaited'
  BY <1>0 DEF FlashInv, OneAwaited, NameTold
<1>5. Stored'
  <2>1. netOthers' # 0
    BY <1>0
  <2> QED  BY <2>1 DEF Stored
<1> QED  BY <1>3, <1>4, <1>5 DEF FlashInv

\* A name is answered for by the command that gave it, and by no other.
LEMMA RepliesNames ==
  ASSUME NEW c \in Commands, NEW ok \in BOOLEAN
  PROVE  \A i \in 1..Len(Replies(c, ok)) : IsName(Replies(c, ok)[i]) => c.kind = "host" /\ Replies(c, ok)[i].ok = ok
<1>1. CASE c.kind = "host"
  <2>1. Replies(c, ok) = <<[kind |-> "response", type |-> "set_hostname", ok |-> ok]>>
    BY <1>1 DEF Replies, Response
  <2> QED  BY <1>1, <2>1
<1>2. CASE c.kind = "form"
  <2>1. PICK t \in {"set_hotspot_ip", "set_ap"} : Replies(c, ok) = <<Response(t, ok)>>
    BY <1>2 DEF Replies
  <2> QED  BY <2>1 DEF Response, IsName
<1>3. CASE c.kind = "name"
  <2>1. Replies(c, ok) = <<Response("set_device_name", TRUE), Frame("all", Done(device, c))>>
    BY <1>3 DEF Replies
  <2> QED  BY <2>1 DEF Response, Frame, IsName
<1>4. CASE c.kind \in {"reset", "factory"}
  BY <1>4 DEF Replies
<1>5. CASE c.kind \notin {"host", "form", "name", "reset", "factory"}
  <2>1. Replies(c, ok) = <<Frame("all", Done(device, c))>>
    BY <1>5 DEF Replies
  <2> QED  BY <2>1 DEF Frame, IsName
<1> QED  BY <1>1, <1>2, <1>3, <1>4, <1>5

LEMMA FlashExecutes == NetInv /\ FlashInv /\ Executes => FlashInv'
<1> SUFFICES ASSUME NetInv, FlashInv, Executes
             PROVE  FlashInv'
  OBVIOUS
<1> DEFINE c == Head(commands)
<1>0. /\ NetWires /\ UNCHANGED <<crossed, pendingHost, dialog, follows, netOthers>>
      /\ (netOthers = 0 => HostInv)
  BY NetParts DEF Executes, netPage, netName, netCounts, NetUnder
<1>1. /\ commands \in Seq(Commands) /\ c = commands[1] /\ c \in Commands /\ Len(commands) \in Nat /\ 1 \in DOMAIN commands
      /\ DOMAIN commands = 1..Len(commands) /\ DOMAIN commands' = 1..Len(commands') /\ Len(commands') = Len(commands) - 1
      /\ \A i \in 1..Len(commands') : commands'[i] = commands[i + 1]
  BY <1>0, TailOf DEF Executes, NetWires
<1>2. PICK ok \in BOOLEAN : frames' = frames \o Replies(c, ok) /\ flash' = Written(c, ok)
  BY DEF Executes
<1> HIDE DEF c
<1>3. /\ Done(device, c) \in Devices /\ Done(device, c).host \in Names
      /\ (c.kind # "host" => Done(device, c).host = device.host) /\ (c.kind = "host" => Done(device, c).host = c.to)
  <2>1. Done(device, c) \in Devices
    BY <1>0, <1>1, DoneTyped DEF NetWires
  <2>2. Done(device, c).host \in Names
    BY <2>1 DEF Devices
  <2> QED  BY <1>0, <1>1, <2>1, <2>2, DoneTyped DEF NetWires
<1>4. flash' \in {flash, NoNetwork, Done(device, c).host} /\ (c.kind = "host" /\ ok => flash' = Done(device, c).host)
  BY <1>2 DEF Written
<1>5. FlashTyped'
  BY <1>0, <1>3, <1>4 DEF FlashInv, FlashTyped
<1>6. \A i \in DOMAIN frames' : IsName(frames'[i]) =>
        \/ \E k \in DOMAIN frames : frames'[i] = frames[k]
        \/ c.kind = "host" /\ frames'[i].ok = ok
  <2>1. Replies(c, ok) \in Seq(NetFrames) /\ frames \in Seq(NetFrames)
    BY <1>0, <1>1, RepliesTyped DEF NetWires
  <2>2. /\ Len(frames') = Len(frames) + Len(Replies(c, ok)) /\ Len(frames) \in Nat /\ Len(Replies(c, ok)) \in Nat
        /\ DOMAIN frames' = 1..Len(frames') /\ DOMAIN frames = 1..Len(frames)
        /\ \A i \in 1..Len(frames) : frames'[i] = frames[i]
        /\ \A i \in (Len(frames) + 1)..(Len(frames) + Len(Replies(c, ok))) : frames'[i] = Replies(c, ok)[i - Len(frames)]
    BY <1>2, <2>1, AddedFrames
  <2> SUFFICES ASSUME NEW i \in DOMAIN frames', IsName(frames'[i]), i \notin DOMAIN frames
               PROVE  c.kind = "host" /\ frames'[i].ok = ok
    BY <2>2
  <2>3. i - Len(frames) \in 1..Len(Replies(c, ok)) /\ frames'[i] = Replies(c, ok)[i - Len(frames)]
    BY <2>2
  <2> QED  BY <1>1, <2>3, RepliesNames
<1>7. \A j \in DOMAIN commands' : commands'[j].kind = "host" => j + 1 \in DOMAIN commands /\ commands[j + 1].kind = "host" /\ j + 1 # 1
  BY <1>1
<1>8. CASE c.kind = "host"
  <2>1. ~crossed => ~NameTold /\ \A j \in DOMAIN commands : commands[j].kind = "host" => j = 1
    BY <1>1, <1>8 DEF FlashInv, OneAwaited
  <2>2. OneAwaited'
    BY <1>0, <1>7, <2>1 DEF OneAwaited
  <2>3. ASSUME ~crossed, netOthers = 0, Promised'
        PROVE  flash' = pendingHost
    <3>1. PICK i \in 0..Len(commands) : NamedFrom(i)
      BY <1>0, <2>3 DEF HostInv
    <3>2. i = 1
      <4>1. i # 0
        BY <1>1, <1>8, <3>1 DEF NamedFrom
      <4>2. i \in DOMAIN commands /\ commands[i].kind = "host"
        BY <1>1, <3>1, <4>1 DEF NamedFrom
      <4> QED  BY <2>1, <2>3, <4>2
    <3>3. c.to = pendingHost
      BY <1>1, <3>1, <3>2 DEF NamedFrom
    <3>4. ok
      <4>1. PICK k \in DOMAIN frames' : IsName(frames'[k]) /\ frames'[k].ok
        BY <1>0, <2>1, <2>3 DEF NameTold, Promised
      <4>2. ~\E m \in DOMAIN frames : frames'[k] = frames[m]
        BY <2>1, <2>3, <4>1 DEF NameTold
      <4> QED  BY <1>6, <4>1, <4>2
    <3> QED  BY <1>3, <1>4, <1>8, <3>3, <3>4
  <2>4. Stored'
    BY <1>0, <2>3 DEF Stored
  <2> QED  BY <1>5, <2>2, <2>4 DEF FlashInv
<1>9. CASE c.kind # "host"
  <2>1. (NameTold' => NameTold) /\ (Promised' => Promised)
    BY <1>0, <1>6, <1>9 DEF NameTold, Promised
  <2>2. OneAwaited'
    <3> SUFFICES ASSUME ~crossed, NEW i \in DOMAIN commands', commands'[i].kind = "host"
                 PROVE  ~NameTold' /\ \A j \in DOMAIN commands' : commands'[j].kind = "host" => j = i
      BY <1>0 DEF OneAwaited
    <3>1. i + 1 \in DOMAIN commands /\ commands[i + 1].kind = "host"
      BY <1>7
    <3>2. ~NameTold /\ \A j \in DOMAIN commands : commands[j].kind = "host" => j = i + 1
      BY <3>1 DEF FlashInv, OneAwaited
    <3>3. ASSUME NEW j \in DOMAIN commands', commands'[j].kind = "host"
          PROVE  j = i
      <4>1. j + 1 = i + 1
        BY <1>7, <3>2, <3>3
      <4>2. i \in Nat /\ j \in Nat
        BY <1>1
      <4> QED  BY <4>1, <4>2
    <3> QED  BY <2>1, <3>2, <3>3
  <2>3. Ordered("host") => Ordered("host")'
    <3> SUFFICES ASSUME NEW i \in DOMAIN commands, commands[i].kind = "host"
                 PROVE  Ordered("host")'
      BY DEF Ordered
    <3>1. i # 1
      BY <1>1, <1>9
    <3>2. i - 1 \in DOMAIN commands' /\ commands'[i - 1] = commands[i]
      BY <1>1, <3>1
    <3> QED  BY <3>2 DEF Ordered
  <2>4. ASSUME ~crossed, netOthers = 0, flash' # NoNetwork, Promised', ~Ordered("host")'
        PROVE  flash' = pendingHost
    <3>1. Promised /\ ~Ordered("host")
      BY <2>1, <2>3, <2>4
    <3>2. PICK i \in 0..Len(commands) : NamedFrom(i)
      BY <1>0, <2>4 DEF HostInv
    <3>3. i = 0
      <4>1. CASE i # 0
        BY <1>1, <3>1, <3>2, <4>1 DEF NamedFrom, Ordered
      <4> QED  BY <4>1
    <3>4. device.host = pendingHost
      BY <3>2, <3>3 DEF NamedFrom
    <3>5. flash # NoNetwork => flash = pendingHost
      BY <2>4, <3>1 DEF FlashInv, Stored
    <3> QED  BY <1>3, <1>4, <1>9, <2>4, <3>4, <3>5
  <2>5. Stored'
    BY <1>0, <2>4 DEF Stored
  <2> QED  BY <1>5, <2>2, <2>5 DEF FlashInv
<1> QED  BY <1>8, <1>9

LEMMA FlashStarts == NetworkInit => FlashInv
<1> SUFFICES ASSUME NetworkInit
             PROVE  FlashInv
  OBVIOUS
<1>1. commands = <<>> /\ frames = <<>> /\ follows = NoNetwork /\ crossed = FALSE /\ flash = device.host
      /\ dialog = [kind |-> "none"]
  BY DEF NetworkInit, Closed, Dialog
<1>2. device.host \in Names
  BY DEF NetworkInit
<1>3. ~Promised
  BY <1>1 DEF Promised
<1>4. FlashTyped
  BY <1>1, <1>2 DEF FlashTyped
<1>5. OneAwaited
  BY <1>1 DEF OneAwaited
<1>6. Stored
  BY <1>3 DEF Stored
<1> QED  BY <1>4, <1>5, <1>6 DEF FlashInv

LEMMA FlashKept == NetInv /\ FlashInv /\ [NetworkNext]_netVars => FlashInv'
<1> SUFFICES ASSUME NetInv, FlashInv, UNCHANGED netVars
             PROVE  FlashInv'
  BY FlashExecutes, FlashTells, FlashOther, FlashHearing, FlashForm, FlashCard, FlashPress, FlashDismiss
     DEF NetworkNext, DeviceActs
<1>0. UNCHANGED <<flash, crossed, pendingHost, netOthers, frames, commands, follows, dialog>>
  BY DEF netVars, netName, netDevice, netWires, netPage, netCounts
<1>1. (NameTold' => NameTold) /\ (Promised' => Promised)
  BY <1>0 DEF NameTold, Promised
<1> QED  BY <1>0, <1>1, FlashStays DEF Ordered

\* What the card shows, and where the page goes.
LEMMA NetShows == NetInv /\ FlashInv => NetworkTypeOK /\ LanguageAgrees /\ SwitchAgrees /\ FormShowsSaved /\ FollowsItsName
<1> SUFFICES ASSUME NetInv, FlashInv
             PROVE  NetworkTypeOK /\ LanguageAgrees /\ SwitchAgrees /\ FormShowsSaved /\ FollowsItsName
  OBVIOUS
<1>1. /\ NetworkTypeOK /\ FormShowsSaved /\ spoken = known.lang /\ NameInv /\ NetWires
  BY FramesTyped DEF NetInv, NetTypes, NetWires, NetForm, NetShown, NetworkTypeOK, FormInv, FlashInv, FlashTyped
<1>2. ASSUME NEW x \in {"lang", "ap"}, FreshInv(x), commands = <<>>, frames = <<>>
      PROVE  Held(x)
  <2>1. Len(frames) = 0 /\ ~Ordered(x)
    BY <1>2 DEF Ordered
  <2>2. FreshFrom(x, 0)
    BY <1>2, <2>1 DEF FreshInv
  <2> QED  BY <2>2 DEF FreshFrom
<1>3. LanguageAgrees
  <2> SUFFICES ASSUME Quiet
               PROVE  spoken = device.lang /\ known.lang = device.lang
    BY DEF LanguageAgrees
  <2>1. Held("lang")
    BY <1>2 DEF Quiet, NetInv
  <2> QED  BY <1>1, <2>1 DEF Held
<1>4. SwitchAgrees
  <2> SUFFICES ASSUME Quiet
               PROVE  apSwitch = device.ap
    BY DEF SwitchAgrees
  <2>1. Held("ap")
    BY <1>2 DEF Quiet, NetInv
  <2> QED  BY <2>1 DEF Held
<1>5. FollowsItsName
  <2> SUFFICES ASSUME follows # NoNetwork, netOthers = 0, ~NamesCutOff, flash # NoNetwork, crossed => flash = device.host
               PROVE  follows = flash
    BY DEF FollowsItsName
  <2>1. PICK i \in 0..Len(commands) : NamedFrom(i)
    BY DEF NetInv, HostInv
  <2>2. i = 0
    <3>1. CASE i # 0
      <4>1. i \in DOMAIN commands /\ commands[i].kind = "host"
        BY <1>1, <2>1, <3>1 DEF NamedFrom, NetWires
      <4> QED  BY <4>1 DEF NamesCutOff
    <3> QED  BY <3>1
  <2>3. device.host = pendingHost
    BY <2>1, <2>2 DEF NamedFrom
  <2>4. ~crossed => flash = pendingHost
    BY DEF FlashInv, Stored, Promised, Ordered, NamesCutOff
  <2> QED  BY <1>1, <2>3, <2>4 DEF NameInv
<1> QED  BY <1>1, <1>3, <1>4, <1>5

-----------------------------------------------------------------------------
(* The page's cards together.                                               *)

CardsInv == BindInv /\ UploadsInv /\ NetInv /\ FlashInv /\ LightInv

LEMMA CardsStart == Init => CardsInv
BY BindStarts, UploadsStart, NetworkStarts, FlashStarts, LightStarts DEF Init, CardsInv

\* A step of one is a step of that one, and of the others none.
LEMMA CardsKept == CardsInv /\ [Next]_vars => CardsInv'
<1> SUFFICES ASSUME CardsInv, [Next]_vars
             PROVE  CardsInv'
  OBVIOUS
<1>1. /\ [BindNext]_bindVars /\ [UploadsNext]_uploadsVars
      /\ [NetworkNext]_netVars /\ [LightNext]_lightVars
  BY DEF Next, vars, BindStep, UploadsStep, NetworkStep, LightStep
<1> QED  BY <1>1, BindKept, UploadsKept, NetworkKept, FlashKept, LightKept DEF CardsInv

LEMMA CardsHold == Spec => []CardsInv
<1>1. Init => CardsInv
  BY CardsStart
<1>2. CardsInv /\ [Next]_vars => CardsInv'
  BY CardsKept
<1> QED  BY <1>1, <1>2, PTL DEF Spec

\* What a card shows ahead of the device, or spares from its pushes, is put
\* right by the time nothing is under way: the printer's state and the fields
\* beside its picker, the language, the hotspot's switch, the network's form
\* and the lamp's switch (core.js, 03-status.js, 06-settings.js, 08-network.js).
THEOREM CardsAgreeAlways == Spec => []CardsAgree
<1>1. CardsInv => CardsAgree
  BY BindShows, NetShows DEF CardsInv, CardsAgree, UploadsInv, LightInv
<1> QED  BY <1>1, CardsHold, PTL

\* What the page has told the reader is so: the toast is of the bind's outcome,
\* a line says that it waits only for a verdict still to come, and the page
\* goes to the name it said (core.js, 05e-images.js, 08-network.js).
THEOREM CardsTellTrue == Spec => []CardsHonest
<1>1. CardsInv => CardsHonest
  <2>1. ComingInv => SentWaits
    BY DEF ComingInv, SentWaits
  <2> QED  BY <2>1, BindShows, NetShows DEF CardsInv, UploadsInv, CardsHonest
<1> QED  BY <1>1, CardsHold, PTL

\* The page is loaded again only onto a build it was not made from: what it
\* heard of the device is no older than itself and no newer than what runs
\* (core.js, build_check).
THEOREM ReloadsAreForABuild == Spec => ReloadsForABuild
<1>1. CardsInv /\ [Next]_vars => [DeviceBuildTold /\ Differs => madeFrom # build]_uploadsVars
  <2> SUFFICES ASSUME CardsInv, DeviceBuildTold, Differs
               PROVE  madeFrom # build
    OBVIOUS
  <2>1. BuildInv /\ build \in Nat /\ madeFrom \in Nat /\ deviceBuild \in Nat
    BY CountFacts DEF CardsInv, UploadsInv, Differs
  <2> QED  BY <2>1 DEF BuildInv, Differs
<1> QED  BY <1>1, CardsHold, PTL DEF Spec, ReloadsForABuild
=============================================================================
