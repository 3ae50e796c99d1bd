------------------------------ MODULE PageOrigin ------------------------------
(***************************************************************************)
(* Where the page was loaded from.  A route whose switch is off answers    *)
(* with a redirect to the hotspot's address (ps_ws.c): a page that came    *)
(* from there is handed that page's source, every other is handed nothing, *)
(* for its browser does not read another origin's answer.                  *)
(***************************************************************************)
VARIABLE viaHotspot     \* location.host is the hotspot's address

OriginInit == viaHotspot \in BOOLEAN

\* redirect_portal, as a request of the page hears it
AbsentRoute == IF viaHotspot THEN "page" ELSE "nothing"
=============================================================================
