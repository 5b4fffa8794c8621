-------------------------- MODULE MCServiceRouting --------------------------
(* Instances of ServiceRouting for TLC. *)
EXTENDS ServiceRouting

CONSTANTS a, b, l, m
=============================================================================
