---------------------------- MODULE AccessStore ----------------------------
(***************************************************************************)
(* The access tables of the server and the file that outlives them.        *)
(*                                                                         *)
(* ReaderHandler keeps three hash maps (doors, usersByName, usersByUID)    *)
(* behind rw_mtx and mirrors every change in config.json.  The threads of  *)
(* the client server answer access checks under a shared lock, the threads *)
(* of the CLI server run newDoor, newUser and rmUser under a unique lock.  *)
(* A command is several steps: the tables and a private copy of the file   *)
(* change, the copy is written to config_tmp.json, that file is renamed    *)
(* over config.json, the reply is sent, and only the destructor of the     *)
(* stream flushes what is still buffered.  The process may die between any *)
(* two of them, and be started again.                                      *)
(*                                                                         *)
(* Commands are taken after their syntax was accepted and their names were *)
(* normalised; a card is checked after the packet was split at its colon.  *)
(***************************************************************************)
EXTENDS AccessConfig

CONSTANTS
    CliThreads,     \* the threads of cliServer's io_context
    ClientThreads,  \* the threads of clientServer's io_context
    NoThread,       \* nobody holds rw_mtx
    MaxUserEntries, \* bound: newUser commands do not grow the file past this
    MaxDoorEntries  \* bound: newDoor commands do not grow the file past this

\* What a command still knows of its line once the tables are changed.
Commands ==
    [op : {"newDoor"}, name : Doors] \cup [op : {"newUser", "rmUser"}, name : Names]

ASSUME ThreadAssumption ==
    CliThreads \cap ClientThreads = {} /\ NoThread \notin CliThreads
ASSUME BoundAssumption == MaxUserEntries \in Nat /\ MaxDoorEntries \in Nat

VARIABLES
    status,         \* is the server process running?
    doors, usersByName, usersByUID,
    file, tmp,      \* the contents of config.json and config_tmp.json
    intact,         \* history: no write or rename failed since the start
    writer,         \* the thread that holds rw_mtx with a unique_lock
    readers,        \* the threads that hold rw_mtx with a shared_lock
    pc,             \* what each thread does next
    cmd,            \* the command a CLI thread runs under the lock
    configJson,     \* the private copy of the file a CLI thread edits
    request,        \* the door and card a client thread checks
    doorLevel,      \* the level it found for that door
    reply           \* the answer it has just sent

tables == <<doors, usersByName, usersByUID>>
files == <<file, tmp, intact>>
locks == <<writer, readers>>
cliVars == <<cmd, configJson>>
clientVars == <<request, doorLevel, reply>>
vars == <<status, tables, files, locks, pc, cliVars, clientVars>>

----------------------------------------------------------------------------
Threads == CliThreads \cup ClientThreads

NoCommand == [op |-> "none"]
NoRequest == [door |-> Absent, uid |-> Absent]
Requests == [door : Doors, uid : Uids]

\* The state of the threads and tables of a process that does not run yet.
AllIdle == [t \in Threads |-> "idle"]
NoCommands == [t \in CliThreads |-> NoCommand]
NoCopies == [t \in CliThreads |-> EmptyConfig]
NoRequests == [t \in ClientThreads |-> NoRequest]
NoLevels == [t \in ClientThreads |-> Absent]
NoReplies == [t \in ClientThreads |-> "none"]

Init ==
    /\ status = "down"
    /\ doors = EmptyTable(Doors)
    /\ usersByName = EmptyTable(Names)
    /\ usersByUID = EmptyTable(Uids)
    /\ file \in InitialFiles
    /\ tmp = NoText
    /\ intact = TRUE
    /\ writer = NoThread
    /\ readers = {}
    /\ pc = AllIdle
    /\ cmd = NoCommands
    /\ configJson = NoCopies
    /\ request = NoRequests
    /\ doorLevel = NoLevels
    /\ reply = NoReplies

\* The constructor, before it starts the two servers: a file it cannot read
\* is replaced by an empty one, then the tables are filled from the file.
Boot ==
    /\ status = "down"
    /\ status' = "up"
    /\ file' \in Repaired(file)
    /\ intact' = (file' # NoText)
    /\ doors' = LoadDoors(Contents(file).doors)
    /\ usersByName' = LoadByName(Contents(file).users)
    /\ usersByUID' = LoadByUID(Contents(file).users)
    /\ UNCHANGED <<tmp, locks, pc, cliVars, clientVars>>

\* The process ends at any moment (killed, out of memory, or terminated when
\* the CLI command "shutdown" destroys a thread that was never joined).  A
\* config_tmp.json left behind is forgotten: it is truncated before it is read.
Crash ==
    /\ status = "up"
    /\ status' = "down"
    /\ doors' = EmptyTable(Doors)
    /\ usersByName' = EmptyTable(Names)
    /\ usersByUID' = EmptyTable(Uids)
    /\ writer' = NoThread
    /\ readers' = {}
    /\ pc' = AllIdle
    /\ cmd' = NoCommands
    /\ configJson' = NoCopies
    /\ request' = NoRequests
    /\ doorLevel' = NoLevels
    /\ reply' = NoReplies
    /\ tmp' = NoText
    /\ UNCHANGED <<file, intact>>

----------------------------------------------------------------------------
(* The commands of the CLI server. *)

LockFree == writer = NoThread /\ readers = {}

Goto(t, label) == pc' = [pc EXCEPT ![t] = label]

\* A line arrived whose syntax is that of a command, which will need the lock.
\* What the line says is chosen when it is first used, under the lock.
ReceiveCommand(t) ==
    /\ status = "up"
    /\ pc[t] = "idle"
    /\ Goto(t, "lock")
    /\ UNCHANGED <<status, tables, files, locks, cliVars, clientVars>>

\* Mutant of Lock: a command only waits for the checks under way.
LockOutReaders(t) ==
    /\ pc[t] = "lock"
    /\ readers = {}
    /\ writer' = t

\* Each command takes the unique lock and then, unseen by others until it
\* lets go, reads the file, changes the tables and edits its copy.
Lock(t) ==
    /\ pc[t] = "lock"
    /\ LockFree
    /\ writer' = t

Edit(t, c, config) ==
    /\ cmd' = [cmd EXCEPT ![t] = c]
    /\ configJson' = [configJson EXCEPT ![t] = config]
    /\ Goto(t, "write")

NewDoor(t, d, typed) ==
    /\ Lock(t)
    /\ Len(Contents(file).doors) < MaxDoorEntries
    /\ doors' = [doors EXCEPT ![d] = StoredLevel(typed)]
    /\ Edit(t, [op |-> "newDoor", name |-> d], AddedDoor(Contents(file), d, typed))
    /\ UNCHANGED <<status, usersByName, usersByUID, files, readers, clientVars>>

\* The handler newUser leaves behind for the line that holds the card's uid.
NewUser(t, n, u, typed) ==
    /\ Lock(t)
    /\ Len(Contents(file).users) < MaxUserEntries
    /\ usersByName' = [usersByName EXCEPT ![n] = [uid |-> u, level |-> StoredLevel(typed)]]
    /\ usersByUID' = [usersByUID EXCEPT ![u] = [name |-> n, level |-> StoredLevel(typed)]]
    /\ Edit(t, [op |-> "newUser", name |-> n], AddedUser(Contents(file), n, u, typed))
    /\ UNCHANGED <<status, doors, files, readers, clientVars>>

\* Mutant of RmUser: the look-up by card is forgotten.
RmUserByName(t, n) ==
    /\ Lock(t)
    /\ usersByName[n] # Absent
    /\ usersByName' = [usersByName EXCEPT ![n] = Absent]
    /\ Edit(t, [op |-> "rmUser", name |-> n], RemovedUser(Contents(file), n))
    /\ UNCHANGED <<status, doors, usersByUID, files, readers, clientVars>>

\* Erases the card the name maps to, then the name, then the first entry.
RmUser(t, n) ==
    /\ Lock(t)
    /\ usersByName[n] # Absent
    /\ usersByUID' = [usersByUID EXCEPT ![usersByName[n].uid] = Absent]
    /\ usersByName' = [usersByName EXCEPT ![n] = Absent]
    /\ Edit(t, [op |-> "rmUser", name |-> n], RemovedUser(Contents(file), n))
    /\ UNCHANGED <<status, doors, files, readers, clientVars>>

\* Mutant of RmUnknownUser: it returns with the lock held.
RmUnknownUserLocked(t, n) ==
    /\ Lock(t)
    /\ usersByName[n] = Absent
    /\ Goto(t, "idle")
    /\ UNCHANGED <<status, tables, files, readers, cliVars, clientVars>>

\* An unknown name: return without a reply, the lock is taken and released.
RmUnknownUser(t, n) ==
    /\ pc[t] = "lock"
    /\ LockFree
    /\ usersByName[n] = Absent
    /\ Goto(t, "idle")
    /\ UNCHANGED <<status, tables, files, locks, cliVars, clientVars>>

\* Mutant of WriteTmp: the dump goes straight to config.json.
WriteInPlace(t) ==
    /\ pc[t] = "write"
    /\ file' \in {NoText, configJson[t]}
    /\ tmp' = configJson[t]
    /\ Goto(t, "rename")
    /\ UNCHANGED <<status, tables, intact, locks, cliVars, clientVars>>

\* ofstream out{"config_tmp.json"} truncates the file; the dump may reach it
\* at once, or stay in the stream's buffer until the stream is destroyed.
WriteTmp(t) ==
    /\ pc[t] = "write"
    /\ tmp' \in {NoText, configJson[t]}
    /\ Goto(t, "rename")
    /\ UNCHANGED <<status, tables, file, intact, locks, cliVars, clientVars>>

Rename(t) ==
    /\ pc[t] = "rename"
    /\ file' = tmp
    /\ tmp' = NoText
    /\ Goto(t, "reply")
    /\ UNCHANGED <<status, tables, intact, locks, cliVars, clientVars>>

\* The command's scope ends: its copy is gone and the lock is released.
EndScope(t) ==
    /\ writer' = NoThread
    /\ cmd' = [cmd EXCEPT ![t] = NoCommand]
    /\ configJson' = [configJson EXCEPT ![t] = EmptyConfig]

\* Mutant of RenameFails: a handler takes a new door back.
RenameRolledBack(t) ==
    /\ pc[t] = "rename"
    /\ "rename" \in Faults
    /\ tmp' = NoText
    /\ intact' = FALSE
    /\ doors' = IF cmd[t].op = "newDoor" THEN [doors EXCEPT ![cmd[t].name] = Absent]
                ELSE doors
    /\ EndScope(t)
    /\ Goto(t, "gone")
    /\ UNCHANGED <<status, usersByName, usersByUID, file, readers, clientVars>>

\* rename throws: nothing is answered, the tables stay as they were changed,
\* and the exception leaves io_context::run, so the pool loses its thread.
RenameFails(t) ==
    /\ pc[t] = "rename"
    /\ "rename" \in Faults
    /\ tmp' = NoText
    /\ intact' = FALSE
    /\ EndScope(t)
    /\ Goto(t, "gone")
    /\ UNCHANGED <<status, tables, file, readers, clientVars>>

\* Mutant of Acknowledge: the lock is released before the stream is flushed.
AcknowledgeUnlocked(t) ==
    /\ pc[t] = "reply"
    /\ writer' = NoThread
    /\ Goto(t, "close")
    /\ UNCHANGED <<status, tables, files, readers, cliVars, clientVars>>

\* "Door Added Successfully", "User Added Successfully", "User Removed ..."
Acknowledge(t) ==
    /\ pc[t] = "reply"
    /\ Goto(t, "close")
    /\ UNCHANGED <<status, tables, files, locks, cliVars, clientVars>>

\* End of scope: the stream is flushed into the renamed file, then the lock
\* is released.
Close(t) ==
    /\ pc[t] = "close"
    /\ file' = configJson[t]
    /\ EndScope(t)
    /\ Goto(t, "idle")
    /\ UNCHANGED <<status, tables, tmp, intact, readers, clientVars>>

\* The disk is full: what is still buffered never arrives, and nobody looks.
FlushFails(t) ==
    /\ pc[t] = "close"
    /\ "write" \in Faults
    /\ file = NoText
    /\ intact' = FALSE
    /\ EndScope(t)
    /\ Goto(t, "idle")
    /\ UNCHANGED <<status, tables, file, tmp, readers, clientVars>>

RunCommand(t) ==
    \/ \E d \in Doors, typed \in TypedLevels : NewDoor(t, d, typed)
    \/ \E n \in Names, u \in Uids, typed \in TypedLevels : NewUser(t, n, u, typed)
    \/ \E n \in Names : RmUser(t, n) \/ RmUnknownUser(t, n)
    \/ WriteTmp(t) \/ Rename(t) \/ RenameFails(t)
    \/ Acknowledge(t) \/ Close(t) \/ FlushFails(t)

----------------------------------------------------------------------------
(* The access check of the client server. *)

ReceiveRequest(t) ==
    /\ status = "up"
    /\ pc[t] = "idle"
    /\ \E r \in Requests : request' = [request EXCEPT ![t] = r]
    /\ Goto(t, "lock")
    /\ UNCHANGED <<status, tables, files, locks, cliVars, doorLevel, reply>>

\* Mutant of FindDoor: the shared lock only covers the look-up of the door.
FindDoorBriefly(t) ==
    /\ pc[t] = "lock"
    /\ writer = NoThread
    /\ doorLevel' = [doorLevel EXCEPT ![t] = doors[request[t].door]]
    /\ Goto(t, "decide")
    /\ UNCHANGED <<status, tables, files, locks, cliVars, request, reply>>

FindDoor(t) ==
    /\ pc[t] = "lock"
    /\ writer = NoThread
    /\ readers' = readers \cup {t}
    /\ doorLevel' = [doorLevel EXCEPT ![t] = doors[request[t].door]]
    /\ Goto(t, "decide")
    /\ UNCHANGED <<status, tables, files, writer, cliVars, request, reply>>

Authorized(uid, level) ==
    usersByUID[uid] # Absent /\ usersByUID[uid].level >= level

Decide(t) ==
    /\ pc[t] = "decide"
    /\ reply' = [reply EXCEPT ![t] =
                    CASE doorLevel[t] = Absent -> "Unknown Door"
                      [] doorLevel[t] # Absent /\ Authorized(request[t].uid, doorLevel[t])
                            -> "Approved"
                      [] OTHER -> "Denied"]
    /\ request' = [request EXCEPT ![t] = NoRequest]
    /\ doorLevel' = [doorLevel EXCEPT ![t] = Absent]
    /\ Goto(t, "unlock")
    /\ UNCHANGED <<status, tables, files, locks, cliVars>>

\* Mutant of Unlock: the early return for an unknown door keeps the lock.
UnlockKnownDoor(t) ==
    /\ pc[t] = "unlock"
    /\ readers' = IF reply[t] = "Unknown Door" THEN readers ELSE readers \ {t}
    /\ reply' = [reply EXCEPT ![t] = "none"]
    /\ Goto(t, "idle")
    /\ UNCHANGED <<status, tables, files, writer, cliVars, request, doorLevel>>

\* The shared_lock goes out of scope; the answer is on its way.
Unlock(t) ==
    /\ pc[t] = "unlock"
    /\ readers' = readers \ {t}
    /\ reply' = [reply EXCEPT ![t] = "none"]
    /\ Goto(t, "idle")
    /\ UNCHANGED <<status, tables, files, writer, cliVars, request, doorLevel>>

----------------------------------------------------------------------------
Next ==
    \/ Boot
    \/ Crash
    \/ \E t \in CliThreads : ReceiveCommand(t)
    \/ \E t \in CliThreads : RunCommand(t)
    \/ \E t \in ClientThreads : ReceiveRequest(t)
    \/ \E t \in ClientThreads : FindDoor(t)
    \/ \E t \in ClientThreads : Decide(t)
    \/ \E t \in ClientThreads : Unlock(t)

Spec == Init /\ [][Next]_vars

\* A thread that can run is run.  rw_mtx hands itself to the waiting readers
\* when a writer lets go (a pthread_rwlock_t of the default kind), so a check
\* that waits is not overtaken by writers for ever; writers have no such
\* promise.  Requests, commands and crashes may never come.
Fairness ==
    /\ \A t \in CliThreads : WF_vars(RunCommand(t))
    /\ \A t \in ClientThreads : SF_vars(FindDoor(t)) /\ WF_vars(Decide(t) \/ Unlock(t))

FairSpec == Spec /\ Fairness
----------------------------------------------------------------------------
(* Properties. *)

MemoryTypeOK ==
    /\ status \in {"down", "up"}
    /\ doors \in [Doors -> Levels \cup {Absent}]
    /\ usersByName \in [Names -> [uid : Uids, level : Levels] \cup {Absent}]
    /\ usersByUID \in [Uids -> [name : Names, level : Levels] \cup {Absent}]

FileTypeOK ==
    /\ file \in Configs \cup {NoText}
    /\ tmp \in Configs \cup {NoText}
    /\ intact \in BOOLEAN
    /\ configJson \in [CliThreads -> Configs]

ThreadTypeOK ==
    /\ writer \in CliThreads \cup {NoThread}
    /\ readers \in SUBSET ClientThreads
    /\ pc \in [Threads -> {"idle", "lock", "write", "rename", "reply", "close",
                           "gone", "decide", "unlock"}]
    /\ cmd \in [CliThreads -> Commands \cup {NoCommand}]
    /\ request \in [ClientThreads -> Requests \cup {NoRequest}]
    /\ doorLevel \in [ClientThreads -> Levels \cup {Absent}]
    /\ reply \in [ClientThreads -> {"none", "Approved", "Denied", "Unknown Door"}]

\* Every variable has its type: in particular a level in a table or on file is
\* one a uint8_t can hold, whatever number was typed.
TypeOK == MemoryTypeOK /\ FileTypeOK /\ ThreadTypeOK

Committed == status = "up" /\ intact /\ writer = NoThread

\* While no command is under way and none has failed, the doors in memory are
\* exactly those a restart would load from config.json: no command loses the
\* entry another one added, and the file is readable again once the lock is
\* released.
DoorsMatchFile ==
    Committed => file # NoText /\ doors = LoadDoors(file.doors)

\* While no command is under way and none has failed, every user of the running
\* server is the one a restart would load: uid and level are those of the name's
\* last entry, though rmUser leaves other entries of a removed name behind.
LiveUsersOnFile ==
    Committed =>
        /\ file # NoText
        /\ \A n \in Names :
            usersByName[n] # Absent => usersByName[n] = LoadByName(file.users)[n]

\* Unless the disk is full, the file is unreadable for a restart only between
\* the rename and the end of the command that renamed it: an earlier death
\* leaves the old file whole.
FileSafeBeforeRename ==
    status = "up" /\ intact /\ file = NoText =>
        writer # NoThread /\ pc[writer] \in {"reply", "close"}

\* Whatever fails and whenever the process dies, a restart knows no door that
\* the server it follows did not know: tables run ahead of the file, never
\* behind it.
RestartInventsNoDoor ==
    status = "up" =>
        \A d \in Doors : HasEntry(Contents(file).doors, "name", d) => doors[d] # Absent

\* The answer to a check is the one the tables give at the moment it is sent,
\* although door and card are looked up in two steps: no command gets between.
DecisionFromOneTable ==
    [][\A t \in ClientThreads :
        pc[t] = "decide" /\ pc'[t] = "unlock" =>
            LET level == doors[request[t].door]
                user == usersByUID[request[t].uid]
            IN  /\ (reply'[t] = "Unknown Door") <=> (level = Absent)
                /\ (reply'[t] = "Approved") <=>
                     (level # Absent /\ user # Absent /\ user.level >= level)]_vars

\* A check that waits for the lock is answered, however many commands run.
CheckAnswered ==
    \A t \in ClientThreads : pc[t] = "lock" ~> pc[t] = "idle"

\* A command ends, or takes its thread with it, once the other threads leave
\* the lock alone: no path through a command or a check, and no exception,
\* keeps the lock held.
CommandEndsWhenAlone ==
    \A t \in CliThreads :
        <>[](\A u \in Threads \ {t} : pc[u] \in {"idle", "gone"}) =>
            (pc[t] \notin {"idle", "gone"} ~> pc[t] \in {"idle", "gone"})

----------------------------------------------------------------------------
(* The invariant the proofs go by: TypeOK and the four parts below.        *)

\* What config.json holds once the command under way has succeeded.
Current == IF writer = NoThread THEN Contents(file) ELSE configJson[writer]

Writing == {"write", "rename", "reply", "close"}
Reading == {"decide", "unlock"}

LockDiscipline ==
    /\ status = "down" => writer = NoThread /\ readers = {} /\ pc = AllIdle
    /\ \A t \in CliThreads :
        /\ (pc[t] \in Writing) <=> (writer = t)
        /\ pc[t] \notin Reading
    /\ \A t \in ClientThreads :
        /\ (pc[t] \in Reading) <=> (t \in readers)
        /\ pc[t] \notin Writing
    /\ writer # NoThread => readers = {}

FileDiscipline ==
    /\ \A t \in CliThreads :
        /\ pc[t] = "rename" => tmp \in {NoText, configJson[t]}
        /\ pc[t] \in {"reply", "close"} => file \in {NoText, configJson[t]}
    /\ FileSafeBeforeRename

TablesFollowFile ==
    status = "up" /\ intact =>
        /\ doors = LoadDoors(Current.doors)
        /\ \A n \in Names :
            usersByName[n] # Absent => usersByName[n] = LoadByName(Current.users)[n]

ChecksInProgress ==
    \A t \in ClientThreads :
        /\ pc[t] \in {"lock", "decide"} <=> request[t] \in Requests
        /\ pc[t] = "decide" => doorLevel[t] = doors[request[t].door]
        /\ pc[t] = "unlock" <=> reply[t] # "none"

\* No door is only on file or in the copy that is about to replace it.
DoorsKnown ==
    /\ RestartInventsNoDoor
    /\ status = "up" => \A d \in Doors :
            HasEntry(Current.doors, "name", d) => doors[d] # Absent

\* Inductive: the threads respect the lock, the writer's copy is what the file
\* is about to be, and the tables are those of that copy.
IndInv ==
    /\ TypeOK /\ LockDiscipline /\ FileDiscipline /\ TablesFollowFile
    /\ ChecksInProgress /\ DoorsKnown

----------------------------------------------------------------------------
(* What the steps above amount to. *)

\* The copy that is on its way to config.json.
Pending == IF writer = NoThread THEN NoText ELSE configJson[writer]

Abstract == INSTANCE AccessControl WITH
    Clients <- ClientThreads,
    running <- status = "up",
    saved <- file,
    pending <- Pending,
    sound <- intact,
    ask <- request,
    answer <- reply

\* Commands and checks that take several steps, on threads that interleave,
\* are those of a server where each changes or reads the tables at once.
Implements == Abstract!Spec
=============================================================================
