---------------------------- MODULE StreamHandle ----------------------------
(***************************************************************************)
(* What a qodertransport.StreamHandle promises its caller, whatever        *)
(* adapter or wrapper stands behind it (internal/qodertransport/           *)
(* transport.go): ReadChunk hands out the chunks of one chat completion,   *)
(* Cancel releases everything the handle holds upstream.                   *)
(*                                                                         *)
(* The upstream stream may be lost at any moment (deadline, network) and,  *)
(* as long as nothing of it was handed out, replaced by a fresh one.  Once *)
(* a chunk was handed out, a lost upstream stream stays lost: a completion *)
(* is never spliced from two upstream answers.                             *)
(***************************************************************************)

VARIABLES
  life,       \* "fresh", "live", "ended" (an error was returned), "closed"
  upstream,   \* whether an upstream stream is held open
  delivered   \* whether a chunk was handed to the caller

vars == <<life, upstream, delivered>>

Init ==
  /\ life = "fresh"
  /\ upstream = FALSE
  /\ delivered = FALSE

Open ==
  /\ life = "fresh"
  /\ life' = "live"
  /\ upstream' = TRUE
  /\ UNCHANGED delivered

OpenFails ==
  /\ life = "fresh"
  /\ life' = "closed"
  /\ UNCHANGED <<upstream, delivered>>

\* Also after the stream was lost: the handle may have read ahead.
Deliver ==
  /\ life = "live"
  /\ delivered' = TRUE
  /\ UNCHANGED <<life, upstream>>

Replace ==
  /\ life = "live"
  /\ ~upstream
  /\ ~delivered
  /\ upstream' = TRUE
  /\ UNCHANGED <<life, delivered>>

Lose ==
  /\ upstream
  /\ upstream' = FALSE
  /\ UNCHANGED <<life, delivered>>

End ==
  /\ life = "live"
  /\ life' = "ended"
  /\ UNCHANGED <<upstream, delivered>>

Cancel ==
  /\ life \in {"live", "ended"}
  /\ life' = "closed"
  /\ upstream' = FALSE
  /\ UNCHANGED delivered

Next == Open \/ OpenFails \/ Deliver \/ Replace \/ Lose \/ End \/ Cancel

Safety == Init /\ [][Next]_vars

\* A caller that opened a handle cancels it in the end.
Spec == Safety /\ WF_vars(End \/ Cancel)
=============================================================================
