----------------------------- MODULE MCHotplug -----------------------------
(* Two regions that come and go under two updaters and two guards.  Three  *)
(* heap slots are enough for two guards: when an updater replaces the map, *)
(* one guard at most is on an older one.                                   *)
EXTENDS Hotplug

MCInitMap == {}
=============================================================================
