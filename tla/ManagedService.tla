---------------------------- MODULE ManagedService ----------------------------
(***************************************************************************)
(* What SkerCore promises about the plugins of a service: they come up     *)
(* while the service starts, go down while it stops, and nothing else      *)
(* moves them.  A service that says it has stopped has nothing up.  A      *)
(* start or a stop that failed is never resumed, though what it had begun  *)
(* may still go on behind it, in its own direction only.                   *)
(***************************************************************************)
EXTENDS Naturals

CONSTANT Plugin

VARIABLES phase,  \* of the service
          up      \* the plugins that are up

vars == <<phase, up>>

Init == phase = "down" /\ up = {}

BeginStart == phase = "down" /\ phase' = "starting" /\ UNCHANGED up

BringUp(p) ==
  /\ phase \in {"starting", "startFailed"} /\ p \notin up
  /\ up' = up \union {p}
  /\ UNCHANGED phase

EndStart == phase = "starting" /\ phase' \in {"up", "startFailed"} /\ UNCHANGED up

BeginStop == phase = "up" /\ phase' = "stopping" /\ UNCHANGED up

TakeDown(p) ==
  /\ phase \in {"stopping", "stopFailed"} /\ p \in up
  /\ up' = up \ {p}
  /\ UNCHANGED phase

EndStop ==
  /\ phase = "stopping"
  /\ \/ phase' = "down" /\ up = {}
     \/ phase' = "stopFailed"
  /\ UNCHANGED up

Next ==
  \/ BeginStart \/ EndStart \/ BeginStop \/ EndStop
  \/ \E p \in Plugin : BringUp(p) \/ TakeDown(p)

Spec == Init /\ [][Next]_vars
=============================================================================
