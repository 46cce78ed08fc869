---------------------------- MODULE LandOrDiscard ----------------------------
(***************************************************************************)
(* What a distributed write promises about its data files: they enter the  *)
(* table's history at most once, as a whole, or they are deleted; files    *)
(* that are in the history are never deleted, and deleted files never      *)
(* enter it. Some jobs, fixed in advance, may enter it again: everything   *)
(* else holds of them too. The history only grows, by one version at a     *)
(* time.                                                                   *)
(***************************************************************************)
EXTENDS Sequences

CONSTANT Job

VARIABLES
    again,    \* the jobs that may land more than once; fixed for good
    history,  \* the jobs whose files each version adds: one, or none
    gone      \* the jobs whose files were deleted

vars == <<again, history, gone>>

Landed == UNION {history[i] : i \in DOMAIN history}

Init == again \subseteq Job /\ history = <<>> /\ gone = {}

\* A version adds the files of a job.
Land(j) ==
    /\ j \notin gone
    /\ j \in Landed => j \in again
    /\ history' = Append(history, {j})
    /\ UNCHANGED gone

\* A version of somebody else, or an empty one.
Pass ==
    /\ history' = Append(history, {})
    /\ UNCHANGED gone

\* The files of a job are deleted.
Discard(j) ==
    /\ j \notin Landed \cup gone
    /\ gone' = gone \cup {j}
    /\ UNCHANGED history

Next ==
    /\ UNCHANGED again
    /\ Pass \/ \E j \in Job : Land(j) \/ Discard(j)

Spec == Init /\ [][Next]_vars
=============================================================================
