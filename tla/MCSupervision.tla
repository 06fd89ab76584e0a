---------------------------- MODULE MCSupervision ----------------------------
(***************************************************************************)
(* Small instance of Supervision: supervisor 3 does not exist.             *)
(***************************************************************************)
EXTENDS Supervision

MCQuota == [p \in Supervisors |-> p]

MCInputs ==
    [op : {"assign", "switch"}, student : Students, to : SupervisorIds]
    \cup [op : {"quota"}, to : {1}, quota : 1..2, version : 1..2]
    \cup [op : {"quota"}, to : SupervisorIds \ Supervisors, quota : {1}, version : {1}]
=============================================================================
