---------------------------- MODULE RequestChannel ----------------------------
(***************************************************************************)
(* What MQTT Parent steering promises to whoever asks for a Parent, with    *)
(* the tasks, the retries and the verdicts left out: requests are numbered  *)
(* as they are accepted, and each number goes on the wire at most once, in  *)
(* the order of acceptance.  The request that was delivered last may fall   *)
(* back, once, to a second command.  A request may be dropped, and a        *)
(* restart of the ESP32 forgets everything.                                 *)
(***************************************************************************)
EXTENDS Naturals

VARIABLES
  accepted,   (* how many requests were accepted                 *)
  delivered,  (* the requests that were put on the wire          *)
  fallback    (* ... and those whose fallback was as well        *)

Init == accepted = 0 /\ delivered = {} /\ fallback = {}

Accept ==
  /\ accepted' = accepted + 1
  /\ UNCHANGED <<delivered, fallback>>

Deliver(i) ==
  /\ i \in 1..accepted
  /\ \A j \in delivered : j < i
  /\ delivered' = delivered \cup {i}
  /\ UNCHANGED <<accepted, fallback>>

FallBack(i) ==
  /\ i \in delivered \ fallback
  /\ \A j \in delivered : j <= i
  /\ fallback' = fallback \cup {i}
  /\ UNCHANGED <<accepted, delivered>>

Restart == accepted' = 0 /\ delivered' = {} /\ fallback' = {}

Next ==
  \/ Accept \/ Restart
  \/ \E i \in 1..accepted : Deliver(i) \/ FallBack(i)

Spec == Init /\ [][Next]_<<accepted, delivered, fallback>>
================================================================================
