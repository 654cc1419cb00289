---------------------------- MODULE AccessControl ----------------------------
(***************************************************************************)
(* What the server promises about its tables, without threads, locks or    *)
(* temporary files: a command changes the tables in one step and is then   *)
(* saved; a check is answered from the tables of one moment between the    *)
(* question and the delivery of the answer; a stop forgets the tables and  *)
(* a start reads what was saved.  Only while a command is being saved may  *)
(* the saved configuration be unreadable.                                  *)
(***************************************************************************)
EXTENDS AccessConfig

CONSTANT Clients    \* those who ask, one check at a time each

VARIABLES
    running,        \* is there a server to ask?
    doors, usersByName, usersByUID,
    saved,          \* the configuration the next start would read
    pending,        \* the one a command is about to leave there, or NoText
    sound,          \* has every change since the start been saved?
    ask,            \* the check a client waits for
    answer          \* the verdict on its way to it

tables == <<doors, usersByName, usersByUID>>
saving == <<saved, pending, sound>>
checks == <<ask, answer>>
vars == <<running, tables, saving, checks>>

NoRequest == [door |-> Absent, uid |-> Absent]
Requests == [door : Doors, uid : Uids]
NobodyAsks == [c \in Clients |-> NoRequest]
NoAnswers == [c \in Clients |-> "none"]

Init ==
    /\ running = FALSE
    /\ doors = EmptyTable(Doors)
    /\ usersByName = EmptyTable(Names)
    /\ usersByUID = EmptyTable(Uids)
    /\ saved \in InitialFiles
    /\ pending = NoText
    /\ sound = TRUE
    /\ ask = NobodyAsks
    /\ answer = NoAnswers

Start ==
    /\ ~running
    /\ running' = TRUE
    /\ saved' \in Repaired(saved)
    /\ sound' = (saved' # NoText)
    /\ doors' = LoadDoors(Contents(saved).doors)
    /\ usersByName' = LoadByName(Contents(saved).users)
    /\ usersByUID' = LoadByUID(Contents(saved).users)
    /\ UNCHANGED <<pending, checks>>

Stop ==
    /\ running
    /\ running' = FALSE
    /\ doors' = EmptyTable(Doors)
    /\ usersByName' = EmptyTable(Names)
    /\ usersByUID' = EmptyTable(Uids)
    /\ pending' = NoText
    /\ ask' = NobodyAsks
    /\ answer' = NoAnswers
    /\ UNCHANGED <<saved, sound>>

\* One command at a time: the one before has been saved.
Change(config) ==
    /\ running
    /\ pending = NoText
    /\ pending' = config
    /\ UNCHANGED <<running, saved, sound, checks>>

AddDoor(d, typed) ==
    /\ Change(AddedDoor(Contents(saved), d, typed))
    /\ doors' = [doors EXCEPT ![d] = StoredLevel(typed)]
    /\ UNCHANGED <<usersByName, usersByUID>>

AddUser(n, u, typed) ==
    /\ Change(AddedUser(Contents(saved), n, u, typed))
    /\ usersByName' = [usersByName EXCEPT ![n] = [uid |-> u, level |-> StoredLevel(typed)]]
    /\ usersByUID' = [usersByUID EXCEPT ![u] = [name |-> n, level |-> StoredLevel(typed)]]
    /\ UNCHANGED doors

RemoveUser(n) ==
    /\ usersByName[n] # Absent
    /\ Change(RemovedUser(Contents(saved), n))
    /\ usersByUID' = [usersByUID EXCEPT ![usersByName[n].uid] = Absent]
    /\ usersByName' = [usersByName EXCEPT ![n] = Absent]
    /\ UNCHANGED doors

\* The new configuration is in place, or nothing readable is, for a while.
Expose ==
    /\ pending # NoText
    /\ saved' \in {pending, NoText}
    /\ UNCHANGED <<running, tables, pending, sound, checks>>

Save ==
    /\ pending # NoText
    /\ saved' = pending
    /\ pending' = NoText
    /\ UNCHANGED <<running, tables, sound, checks>>

\* The file system refuses: the tables stay changed, what was saved stays.
Lose ==
    /\ Faults # {}
    /\ pending # NoText
    /\ pending' = NoText
    /\ sound' = FALSE
    /\ UNCHANGED <<running, tables, saved, checks>>

Ask(c) ==
    /\ running
    /\ ask[c] = NoRequest /\ answer[c] = "none"
    /\ \E q \in Requests : ask' = [ask EXCEPT ![c] = q]
    /\ UNCHANGED <<running, tables, saving, answer>>

Verdict(q) ==
    CASE doors[q.door] = Absent -> "Unknown Door"
      [] doors[q.door] # Absent /\ usersByUID[q.uid] # Absent
            /\ usersByUID[q.uid].level >= doors[q.door] -> "Approved"
      [] OTHER -> "Denied"

\* No command is half done when the verdict is given.
Answer(c) ==
    /\ pending = NoText
    /\ ask[c] # NoRequest
    /\ answer' = [answer EXCEPT ![c] = Verdict(ask[c])]
    /\ ask' = [ask EXCEPT ![c] = NoRequest]
    /\ UNCHANGED <<running, tables, saving>>

Deliver(c) ==
    /\ answer[c] # "none"
    /\ answer' = [answer EXCEPT ![c] = "none"]
    /\ UNCHANGED <<running, tables, saving, ask>>

Next ==
    \/ Start \/ Stop
    \/ \E d \in Doors, typed \in TypedLevels : AddDoor(d, typed)
    \/ \E n \in Names, u \in Uids, typed \in TypedLevels : AddUser(n, u, typed)
    \/ \E n \in Names : RemoveUser(n)
    \/ Expose \/ Save \/ Lose
    \/ \E c \in Clients : Ask(c) \/ Answer(c) \/ Deliver(c)

Spec == Init /\ [][Next]_vars
=============================================================================
