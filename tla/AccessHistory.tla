--------------------------- MODULE AccessHistory ---------------------------
(***************************************************************************)
(* AccessStore with a memory of what the server has acknowledged, to state *)
(* what an administrator expects to hold from then on, over restarts too.  *)
(***************************************************************************)
EXTENDS AccessStore

VARIABLES
    ackedDoors,     \* doors whose newDoor was answered "Door Added ..."
    removed         \* users whose rmUser was answered, and not added since

HInit == Init /\ ackedDoors = {} /\ removed = {}

\* The commands of type op whose reply is sent by this step; and the names
\* whose newUser handler changes the tables in this step.
Acknowledged(op) ==
    {cmd[t].name : t \in {u \in CliThreads :
        pc[u] = "reply" /\ pc'[u] = "close" /\ cmd[u].op = op}}
Added ==
    {cmd'[t].name : t \in {u \in CliThreads :
        pc[u] = "lock" /\ pc'[u] = "write" /\ cmd'[u].op = "newUser"}}

HNext ==
    /\ Next
    /\ ackedDoors' = ackedDoors \cup Acknowledged("newDoor")
    /\ removed' = (removed \cup Acknowledged("rmUser")) \ Added

HSpec == HInit /\ [][HNext]_<<vars, ackedDoors, removed>>

\* Claimed by readme.md ("The CLI parser will look for both and ensure all
\* entries are removed"): a user whose removal was acknowledged is unknown to
\* the server until added again, by name and by every card, over restarts too.
RemovedLeavesNoEntry ==
    status = "up" => \A n \in removed :
        /\ usersByName[n] = Absent
        /\ \A u \in Uids : usersByUID[u] # Absent => usersByUID[u].name # n

\* Claimed by the reply "Door Added Successfully", which newDoor sends after
\* the rename: no command removes a door, so a running server knows every
\* door it ever acknowledged.
AckedDoorSurvives ==
    status = "up" => \A d \in ackedDoors : doors[d] # Absent
=============================================================================
