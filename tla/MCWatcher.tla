----------------------------- MODULE MCWatcher -----------------------------
(* One watched file (or two, where the map of timers matters). *)
EXTENDS Watcher
=============================================================================
