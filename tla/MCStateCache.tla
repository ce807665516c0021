----------------------------- MODULE MCStateCache -----------------------------
(***************************************************************************)
(* StateCache with two requests, two parts and two changes of aptly: one   *)
(* request can wait behind another that reads, the parts of a copy can be  *)
(* of different moments, and a copy can outlive the change it missed by a  *)
(* read and the time it is fresh for.                                      *)
(***************************************************************************)
EXTENDS StateCache

MCReaders == {"r1", "r2"}
MCParts   == {"snapshots", "published"}
=============================================================================
