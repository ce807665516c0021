------------------------------ MODULE MCWorlds ------------------------------
(***************************************************************************)
(* One instance of Workflow for three worlds, told apart by what the       *)
(* process finds:                                                          *)
(*   kept   a set that was synced and snapshotted once: it is updated, its *)
(*          snapshot sets are published and discarded;                     *)
(*   found  a set whose mirrors exist and were never snapshotted: it is    *)
(*          updated, removed, forgotten, and adopted again under its id;   *)
(*   empty  nothing: sets of two names and their mirrors are made,         *)
(*          forgotten, and the mirrors removed.                            *)
(***************************************************************************)
EXTENDS MCWorkflow, WorkflowInvariants

InThreeWorlds == {[i \in SetIds |-> name] : name \in {"noble", "jammy", NoName}}

VARIABLE world

AskedFor == ({request'[j] : j \in JobIds} \cup halfway') \ {NoRequest}

\* what users ask for in each world, how far the clock goes, and, in the second, when they look
\* at pages: before the first job, so that a removal may decide from what was there then
AskedInKept ==
    /\ sets' = sets
    /\ \A q \in AskedFor : q.kind \in {"update", "switch", "discard"}

AskedInFound ==
    /\ Present(sets') \subseteq {"jammy"}
    /\ \A q \in halfway' : q.kind = "remove"
    /\ cached' # cached => halfway' # halfway \/ request = [j \in JobIds |-> NoRequest]
    /\ \A q \in AskedFor : /\ q.kind \in {"update", "create", "remove"}
                           /\ q.kind = "remove" => q.set # NoRow
    /\ minute' = minute

AskedInEmpty ==
    \A q \in AskedFor : /\ q.kind \in {"create", "remove"}
                        /\ q.kind = "remove" => q.set = NoRow

MCInit ==
    /\ WorkflowInit
    /\ world = CASE sets[1] = "noble" -> "kept"
                 [] sets[1] = "jammy" -> "found"
                 [] sets[1] = NoName  -> "empty"

MCNext ==
    /\ WorkflowNext
    /\ CASE world = "kept"  -> AskedInKept
         [] world = "found" -> AskedInFound
         [] world = "empty" -> AskedInEmpty
    /\ UNCHANGED world

MCSpec == MCInit /\ [][MCNext]_<<everything, world>> /\ WorkflowFairness
=============================================================================
