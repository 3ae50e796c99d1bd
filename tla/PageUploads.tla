----------------------------- MODULE PageUploads -----------------------------
(***************************************************************************)
(* What the page sends in one piece: a stage image (05e-images.js) and the *)
(* firmware (06-settings.js), whose bytes go over HTTP and whose verdict   *)
(* comes over the socket, in either order; and how a page notices that the *)
(* device it is open on was flashed (core.js, build_check).                *)
(***************************************************************************)
EXTENDS Naturals, Sequences

CONSTANTS
  NoBuild,        \* no build was told
  ImageSlots,     \* image slots, beside the firmware
  UploadActs,     \* bound: uploads
  UploadFaults    \* bound: requests lost, sockets lost

ASSUME UploadsAssumption ==
  /\ "fw" \notin ImageSlots /\ NoBuild \notin Nat
  /\ UploadActs \in Nat /\ UploadFaults \in Nat

VARIABLES
  build,          \* the build the device runs
  flashed,        \* an image was taken, the restart is due
  carried,        \* each upload's request: none, bytes, or how it is answered
  verdicts,       \* response frames on their way
  linked,         \* the socket
  line, bar,      \* each upload's line and progress
  verdictDue,     \* g_waiting, of the images
  uploading,      \* g6_ota_busy
  asked,          \* requests for /api/info on their way
  deviceBuild,    \* g_device_build
  pageBuild,      \* g_page_build
  madeFrom,       \* the build the page was loaded from
  uploadActs, uploadFaults

uploadsDevice == <<build, flashed, carried, verdicts, linked>>
uploadsPage == <<line, bar, verdictDue, uploading, asked, deviceBuild, pageBuild, madeFrom>>
uploadsBounds == <<uploadActs, uploadFaults>>
uploadsVars == <<uploadsDevice, uploadsPage, uploadsBounds>>

Uploads == ImageSlots \cup {"fw"}
Lines == {"none", "uploading", "sent", "ok", "failed"}
Builds == 0..UploadActs

\* a page just loaded asks when its socket opens
Loaded ==
  /\ line' = [u \in Uploads |-> "none"] /\ bar' = [u \in Uploads |-> FALSE]
  /\ verdictDue' = [u \in ImageSlots |-> FALSE] /\ uploading' = FALSE
  /\ asked' = {} /\ deviceBuild' = NoBuild /\ pageBuild' = NoBuild /\ madeFrom' = build

\* an open page, whose first questions are on their way or were lost
UploadsInit ==
  /\ build = 0 /\ flashed = FALSE /\ carried = [u \in Uploads |-> "none"] /\ verdicts = <<>>
  /\ linked = TRUE
  /\ line = [u \in Uploads |-> "none"] /\ bar = [u \in Uploads |-> FALSE]
  /\ verdictDue = [u \in ImageSlots |-> FALSE] /\ uploading = FALSE
  /\ asked \in {{}, {"device", "page"}} /\ deviceBuild = NoBuild /\ pageBuild = NoBuild /\ madeFrom = 0
  /\ uploadActs = 0 /\ uploadFaults = 0

\* g_waiting[slot] = false
Settled(u) == verdictDue' = [x \in ImageSlots |-> x # u /\ verdictDue[x]]

Line(u, l) == line' = [line EXCEPT ![u] = l]
Bar(u, b) == bar' = [bar EXCEPT ![u] = b]

-----------------------------------------------------------------------------
(* The uploads.                                                             *)

Choosing(u) ==
  /\ uploadActs < UploadActs /\ uploadActs' = uploadActs + 1
  /\ u = "fw" => ~uploading

\* upload, s6_ota_upload; the reader chooses one file for a slot at a time
Upload(u) ==
  /\ Choosing(u) /\ carried[u] = "none"
  /\ carried' = [carried EXCEPT ![u] = "bytes"]
  /\ Line(u, "uploading") /\ Bar(u, TRUE)
  /\ verdictDue' = IF u = "fw" THEN verdictDue ELSE [verdictDue EXCEPT ![u] = TRUE]
  /\ uploading' = (uploading \/ u = "fw")
  /\ UNCHANGED <<build, flashed, verdicts, linked, asked, deviceBuild, pageBuild, madeFrom, uploadFaults>>

\* a file over the slot's size is not sent
TooBig(u) ==
  /\ Choosing(u) /\ u \in ImageSlots /\ carried[u] = "none"
  /\ Line(u, "failed") /\ Bar(u, FALSE)
  /\ UNCHANGED <<uploadsDevice, verdictDue, uploading, asked, deviceBuild, pageBuild, madeFrom,
                 uploadFaults>>

\* the device has the bytes, or refused them at the start: a frame, then the
\* end of the response
Taken(u, ok) ==
  /\ carried[u] = "bytes" /\ ~flashed
  /\ carried' = [carried EXCEPT ![u] = IF ok THEN "taken" ELSE "refused"]
  /\ \/ verdicts' = IF linked THEN Append(verdicts, [upload |-> u, ok |-> ok]) ELSE verdicts
     \/ ~ok /\ UNCHANGED verdicts
  /\ flashed' = (u = "fw" /\ ok)
  /\ UNCHANGED <<build, linked, uploadsPage, uploadsBounds>>

\* mutant: the test is turned round
SentTurned(u) == u = "fw" \/ ~verdictDue[u]

SentFits(u) == u = "fw" \/ verdictDue[u]

\* onload: 200 says that the bytes arrived, no more
RequestEnds(u) ==
  /\ carried[u] \in {"taken", "refused"}
  /\ carried' = [carried EXCEPT ![u] = "none"]
  /\ uploading' = (uploading /\ u # "fw")
  /\ Bar(u, u = "fw" /\ carried[u] = "taken")
  /\ IF ~SentFits(u) THEN UNCHANGED <<line, verdictDue>>
     ELSE IF carried[u] = "taken" THEN Line(u, "sent") /\ UNCHANGED verdictDue
     ELSE /\ Line(u, IF u = "fw" THEN "none" ELSE "failed")
          /\ Settled(u)
  /\ UNCHANGED <<build, flashed, verdicts, linked, asked, deviceBuild, pageBuild, madeFrom, uploadsBounds>>

UploadFault == uploadFaults < UploadFaults /\ uploadFaults' = uploadFaults + 1 /\ UNCHANGED uploadActs

RequestDropped(u) ==
  /\ UploadFault /\ carried[u] \notin {"none", "lost"}
  /\ carried' = [carried EXCEPT ![u] = "lost"]
  /\ UNCHANGED <<build, flashed, verdicts, linked, uploadsPage>>

\* onerror, and the abort
RequestFails(u) ==
  /\ carried[u] = "lost" /\ carried' = [carried EXCEPT ![u] = "none"]
  /\ Bar(u, FALSE) /\ Line(u, IF u = "fw" THEN "none" ELSE "failed") /\ Settled(u)
  /\ uploading' = (uploading /\ u # "fw")
  /\ UNCHANGED <<build, flashed, verdicts, linked, asked, deviceBuild, pageBuild, madeFrom, uploadsBounds>>

\* on_ota_img; clear_ota_progress and a dialog
Verdict ==
  /\ verdicts # <<>> /\ verdicts' = Tail(verdicts)
  /\ LET v == Head(verdicts)
     IN /\ Bar(v.upload, FALSE)
        /\ Line(v.upload, IF v.upload = "fw" THEN "none" ELSE IF v.ok THEN "ok" ELSE "failed")
        /\ Settled(v.upload)
  /\ UNCHANGED <<build, flashed, carried, linked, uploading, asked, deviceBuild, pageBuild, madeFrom,
                 uploadsBounds>>

-----------------------------------------------------------------------------
(* The build.                                                               *)

Unlinked == linked' = FALSE /\ verdicts' = <<>>

\* half a second after its answer the device restarts into the new image, and
\* what it was asked goes unanswered
FlashRestart ==
  /\ flashed /\ verdicts = <<>> /\ flashed' = FALSE /\ build' = build + 1
  /\ Unlinked /\ asked' = {}
  /\ carried' = [u \in Uploads |-> IF carried[u] = "bytes" THEN "lost" ELSE carried[u]]
  /\ UNCHANGED <<line, bar, verdictDue, uploading, deviceBuild, pageBuild, madeFrom, uploadsBounds>>

SocketLost ==
  /\ UploadFault /\ linked /\ Unlinked
  /\ UNCHANGED <<build, flashed, carried, uploadsPage>>

\* mutant: asked for once, as the page's own build is
OpenAsksOnce == IF deviceBuild = NoBuild THEN {"device"} ELSE {}

\* build_check
OpenAsks == {"device"}

\* onopen asks for the device's build; the first settings root asks for the page's
SocketOpens ==
  /\ ~linked /\ ~flashed /\ linked' = TRUE
  /\ asked' = asked \cup OpenAsks \cup (IF pageBuild = NoBuild THEN {"page"} ELSE {})
  /\ UNCHANGED <<build, flashed, carried, verdicts, line, bar, verdictDue, uploading, deviceBuild,
                 pageBuild, madeFrom, uploadsBounds>>

Differs == deviceBuild # NoBuild /\ build # deviceBuild

\* a reload takes everything on the page with it
Reload == Loaded /\ linked' = FALSE /\ verdicts' = <<>> /\ carried' = [u \in Uploads |-> "none"]

DeviceBuildTold ==
  /\ "device" \in asked /\ linked
  /\ IF Differs
       THEN Reload
       ELSE /\ asked' = asked \ {"device"} /\ deviceBuild' = build
            /\ UNCHANGED <<carried, verdicts, linked, line, bar, verdictDue, uploading, pageBuild, madeFrom>>
  /\ UNCHANGED <<build, flashed, uploadsBounds>>

PageBuildTold ==
  /\ "page" \in asked /\ linked /\ asked' = asked \ {"page"} /\ pageBuild' = build
  /\ UNCHANGED <<uploadsDevice, line, bar, verdictDue, uploading, deviceBuild, madeFrom, uploadsBounds>>

InfoLost ==
  /\ UploadFault /\ \E a \in asked : asked' = asked \ {a}
  /\ UNCHANGED <<uploadsDevice, line, bar, verdictDue, uploading, deviceBuild, pageBuild, madeFrom>>

-----------------------------------------------------------------------------
Socket == FlashRestart \/ SocketLost \/ SocketOpens
Info == DeviceBuildTold \/ PageBuildTold \/ InfoLost
Upload1(u) == Upload(u) \/ TooBig(u) \/ Taken(u, TRUE) \/ Taken(u, FALSE) \/ RequestEnds(u)
              \/ RequestDropped(u) \/ RequestFails(u)

UploadsNext == Verdict \/ Socket \/ Info \/ \E u \in Uploads : Upload1(u)

\* the device answers and restarts, the browser ends what it began
UploadsFairness ==
  /\ WF_uploadsVars(Verdict) /\ WF_uploadsVars(FlashRestart) /\ WF_uploadsVars(SocketOpens)
  /\ WF_uploadsVars(DeviceBuildTold) /\ WF_uploadsVars(PageBuildTold)
  /\ \A u \in Uploads :
       WF_uploadsVars(Taken(u, TRUE) \/ Taken(u, FALSE)) /\ WF_uploadsVars(RequestEnds(u))
       /\ WF_uploadsVars(RequestFails(u))

UploadsSpec == UploadsInit /\ [][UploadsNext]_uploadsVars /\ UploadsFairness

-----------------------------------------------------------------------------
(* Properties.                                                              *)

\* Every variable holds a value of its kind.
UploadsTypeOK ==
  /\ build \in Builds /\ flashed \in BOOLEAN /\ linked \in BOOLEAN
  /\ carried \in [Uploads -> {"none", "bytes", "taken", "refused", "lost"}]
  /\ verdicts \in Seq([upload : Uploads, ok : BOOLEAN])
  /\ line \in [Uploads -> Lines] /\ bar \in [Uploads -> BOOLEAN]
  /\ verdictDue \in [ImageSlots -> BOOLEAN] /\ uploading \in BOOLEAN
  /\ asked \subseteq {"device", "page"}
  /\ deviceBuild \in Builds \cup {NoBuild} /\ pageBuild \in Builds \cup {NoBuild}
  /\ madeFrom \in Builds
  /\ uploadActs \in 0..UploadActs /\ uploadFaults \in 0..UploadFaults

Coming(u) == \E i \in DOMAIN verdicts : verdicts[i].upload = u

\* A line that waits for the device's verdict has one coming, unless a
\* connection was lost: the end of the request is not painted over a verdict
\* that was there before it (05e-images.js, g_waiting).
SentWaits == \A u \in ImageSlots : line[u] = "sent" => Coming(u) \/ uploadFaults > 0 \/ build # 0

\* The same of the firmware's line.
FirmwareSentWaits == line["fw"] = "sent" => Coming("fw") \/ uploadFaults > 0 \/ build # 0

\* The page is loaded again only onto a build it was not made from (core.js:
\* the first answer is only recorded).
ReloadsForABuild == [][DeviceBuildTold /\ Differs => madeFrom # build]_uploadsVars

\* A page that knows the build it is open on, has its device flashed under it
\* and loses none of its questions comes to be a page of the build the device
\* runs (core.js, build_check).
FlashedPageReloads ==
  (deviceBuild = madeFrom /\ build # madeFrom) ~> (build = madeFrom \/ uploadFaults > 0)

\* No line goes on saying that an upload runs.
UploadEnds == \A u \in Uploads : line[u] = "uploading" ~> line[u] # "uploading"
=============================================================================
