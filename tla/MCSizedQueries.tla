---------------------------- MODULE MCSizedQueries ----------------------------
(***************************************************************************)
(* An instance of SizedQueries: data of up to five bytes that changes up to*)
(* MaxData - 1 times, buffers that begin too small for most of it.         *)
(***************************************************************************)
EXTENDS SizedQueries

MCInitial == [adapters |-> 2, processors |-> 1, cpus |-> 1, thread |-> 0]
================================================================================
