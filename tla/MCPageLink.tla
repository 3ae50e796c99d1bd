----------------------------- MODULE MCPageLink -----------------------------
(* A small instance of PageLink.                                           *)
EXTENDS PageLink
=============================================================================
