---- MODULE MCDebugHooks ----
(* Instances of DebugHooks for TLC. *)
EXTENDS DebugHooks

MCApiId == [raw |-> 114, obj |-> 111]
MCMemory == 1 .. 30
====
