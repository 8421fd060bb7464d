------------------------------ MODULE MCHugePages ------------------------------
(***************************************************************************)
(* An instance of HugePages in which every size of a small size_t is asked *)
(* for: none, parts of a page, whole pages, and sizes whose rounding wraps.*)
(***************************************************************************)
EXTENDS HugePages

MCSizes == SizeT
================================================================================
