------------------------------- MODULE GcCycle -------------------------------
(***************************************************************************)
(* What the collector's two threads promise each other, with the           *)
(* mechanism left out: collections happen one at a time, each one is       *)
(* requested by the interpreter, then answered by the GC thread, then      *)
(* integrated by the interpreter, and the n-th integration is the          *)
(* integration of the n-th request.                                        *)
(***************************************************************************)
EXTENDS Naturals

VARIABLES
  phase,       \* where the current collection stands
  requested,   \* how many collections have been requested
  integrated   \* the number of the last request whose answer was integrated

vars == <<phase, requested, integrated>>

Init ==
  /\ phase = "idle"
  /\ requested = 0
  /\ integrated = 0

Request ==
  /\ phase = "idle"
  /\ phase' = "requested"
  /\ requested' = requested + 1
  /\ UNCHANGED integrated

Answer ==
  /\ phase = "requested"
  /\ phase' = "answered"
  /\ UNCHANGED <<requested, integrated>>

Integrate ==
  /\ phase = "answered"
  /\ phase' = "idle"
  /\ integrated' = requested
  /\ UNCHANGED requested

Next == Request \/ Answer \/ Integrate

Spec == Init /\ [][Next]_vars
=============================================================================
