---------------------------- MODULE MCAdapterCache ----------------------------
(***************************************************************************)
(* An instance of AdapterCache: two threads, two types of addresses, and   *)
(* data that grows past the buffer as often as it takes to give up.        *)
(***************************************************************************)
EXTENDS AdapterCache

CONSTANTS t1, t2

MCInitial == [adapters |-> 2, processors |-> 1, cpus |-> 1, thread |-> 0]
================================================================================
