-------------------------- MODULE MC_V3QueueBeside --------------------------
(* The instances of V3Queue, with the invocations of `recover` watched. *)
EXTENDS MC_V3Queue, V3QueueBeside
=============================================================================
