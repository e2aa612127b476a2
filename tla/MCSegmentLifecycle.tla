-------------------------- MODULE MCSegmentLifecycle --------------------------
(* Module SegmentLifecycle for its run: threads and names are model values. *)
EXTENDS SegmentLifecycle

CONSTANTS t1, n1, n2
===============================================================================
