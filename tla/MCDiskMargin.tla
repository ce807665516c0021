---------------------------- MODULE MCDiskMargin ----------------------------
(***************************************************************************)
(* A MiB of two bytes and a GiB of two MiB; margins of which the fixed     *)
(* part, the share of the disk, or nothing is the larger.                  *)
(***************************************************************************)
EXTENDS DiskMargin

MCMargins == {[gigabytes |-> 1, percent |-> 10], [gigabytes |-> 0, percent |-> 50],
              [gigabytes |-> 0, percent |-> 0]}
=============================================================================
