-------------------------------- MODULE Cooldown --------------------------------
(***************************************************************************)
(* The cooldowns of meshscope_edge.h that outlive a restart of the ESP32:   *)
(* the rate limit of Topology Lock and the limit on Parent restarts.  Time  *)
(* is in ticks; ages saturate at or above the window.                       *)
(***************************************************************************)
EXTENDS Naturals

Least(a, b) == IF a < b THEN a ELSE b

\* What is left of a window that began age ticks ago.
Left(window, age) == IF age >= window THEN 0 ELSE window - age

\* restored_cooldown_remaining_ms: before this boot's first action, the one in
\* flash counts against the wall clock, or against the uptime without NTP.
Restored(window, epoch_known, clock_set, age, boot_age) ==
  IF ~epoch_known THEN 0
  ELSE IF ~clock_set THEN Left(window, boot_age)
  ELSE Least(Left(window, boot_age), Left(window, age))
================================================================================
