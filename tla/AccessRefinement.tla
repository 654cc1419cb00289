--------------------------- MODULE AccessRefinement ---------------------------
(***************************************************************************)
(* AccessStore implements AccessControl: threads that take a lock, look up *)
(* twice, write, rename and flush amount to commands and checks that each  *)
(* change or read the tables in one step.                                  *)
(***************************************************************************)
EXTENDS AccessStoreProofs

\* Both specifications edit a configuration in the same way,
LEMMA SameEdits ==
    /\ \A c, d, typed : Abstract!AddedDoor(c, d, typed) = AddedDoor(c, d, typed)
    /\ \A c, n, u, typed : Abstract!AddedUser(c, n, u, typed) = AddedUser(c, n, u, typed)
    /\ \A c, n : Abstract!RemovedUser(c, n) = RemovedUser(c, n)
    /\ \A typed : Abstract!StoredLevel(typed) = StoredLevel(typed)
<1>1. \A s, n : Abstract!WithoutFirst(s, n) = WithoutFirst(s, n)
    BY DEF Abstract!WithoutFirst, WithoutFirst, Abstract!HasEntry, HasEntry
<1>2. \A typed : Abstract!StoredLevel(typed) = StoredLevel(typed)
    BY DEF Abstract!StoredLevel, StoredLevel
<1> QED
    BY <1>1, <1>2
    DEF Abstract!AddedDoor, AddedDoor, Abstract!AddedUser, AddedUser,
        Abstract!RemovedUser, RemovedUser

\* and load and repair it in the same way.
LEMMA SameLoads ==
    /\ \A s : Abstract!LoadDoors(s) = LoadDoors(s)
    /\ \A s : Abstract!LoadByName(s) = LoadByName(s)
    /\ \A s : Abstract!LoadByUID(s) = LoadByUID(s)
    /\ \A f : Abstract!Contents(f) = Contents(f)
    /\ \A f : Abstract!Repaired(f) = Repaired(f)
    /\ \A keys : Abstract!EmptyTable(keys) = EmptyTable(keys)
<1>1. \A s, key, k : Abstract!HasEntry(s, key, k) = HasEntry(s, key, k)
    BY DEF Abstract!HasEntry, HasEntry
<1>2. \A s, key, k : Abstract!LastEntry(s, key, k) = LastEntry(s, key, k)
    BY DEF Abstract!LastEntry, LastEntry, Abstract!IsLast, IsLast
<1>3. \A f : Abstract!Contents(f) = Contents(f)
    BY DEF Abstract!Contents, Contents, Abstract!EmptyConfig, EmptyConfig
<1> QED
    BY <1>1, <1>2, <1>3
    DEF Abstract!LoadDoors, Abstract!LoadByName, Abstract!LoadByUID, LoadDoors,
        LoadByName, LoadByUID, Abstract!Repaired, Repaired, Abstract!EmptyTable, EmptyTable

\* What both call a request, and nobody's.
LEMMA SameRequests ==
    /\ Abstract!NoRequest = NoRequest
    /\ Abstract!Requests = Requests
    /\ Abstract!NobodyAsks = NoRequests
    /\ Abstract!NoAnswers = NoReplies
BY DEF Abstract!NoRequest, NoRequest, Abstract!Requests, Requests,
       Abstract!NobodyAsks, NoRequests, Abstract!NoAnswers, NoReplies

\* A server that was never started is one to the abstract specification too.
LEMMA InitMaps == Init => Abstract!Init
BY SameLoads, SameRequests DEF Init, Abstract!Init, Pending

----------------------------------------------------------------------------
(* The process. *)

\* The constructor is the abstract start.
LEMMA BootMaps == IndInv /\ Boot => Abstract!Start
<1> SUFFICES ASSUME IndInv, Boot PROVE Abstract!Start
    OBVIOUS
<1>1. writer = NoThread /\ writer' = NoThread
    BY DEF IndInv, LockDiscipline, Boot, locks
<1>2. Pending' = Pending
    BY <1>1 DEF Pending
<1> QED
    BY <1>2, SameLoads DEF Boot, Abstract!Start, Abstract!checks, clientVars

\* The end of the process, whatever its threads were at, is the abstract stop.
LEMMA CrashMaps == Crash => Abstract!Stop
BY SameLoads, SameRequests DEF Crash, Abstract!Stop, Pending

----------------------------------------------------------------------------
(* Commands.  Taking the lock is where the abstract command happens: the   *)
(* thread is alone from then on. *)

\* With the lock in hand, no other command is pending and this one is.
LEMMA LockedEdit ==
    ASSUME IndInv, NEW t \in CliThreads, NEW c, NEW config,
           Lock(t), Edit(t, c, config), UNCHANGED <<status, files, clientVars>>
    PROVE  Abstract!Change(config)
<1>1. status = "up"
    BY DEF IndInv, TypeOK, MemoryTypeOK, LockDiscipline, Lock, AllIdle, Threads
<1>2. Pending = NoText
    BY DEF Lock, LockFree, Pending
<1>3. Pending' = config
    <2>1. writer' = t /\ configJson' = [configJson EXCEPT ![t] = config]
        BY DEF Lock, Edit
    <2>2. configJson'[t] = config
        BY <2>1 DEF IndInv, TypeOK, FileTypeOK
    <2> QED BY <2>1, <2>2, ThreadAssumption DEF Pending
<1> QED
    BY <1>1, <1>2, <1>3 DEF Abstract!Change, Abstract!checks, files, clientVars

\* The edit of each command under the lock is the abstract change: newDoor,
LEMMA NewDoorMaps ==
    ASSUME IndInv, NEW t \in CliThreads, NEW d \in Doors, NEW typed \in TypedLevels,
           NewDoor(t, d, typed)
    PROVE  Abstract!AddDoor(d, typed)
<1>1. Abstract!Change(AddedDoor(Contents(file), d, typed))
    BY LockedEdit DEF NewDoor
<1> QED BY <1>1, SameEdits, SameLoads DEF NewDoor, Abstract!AddDoor

\* newUser once it has its card,
LEMMA NewUserMaps ==
    ASSUME IndInv, NEW t \in CliThreads, NEW n \in Names, NEW u \in Uids,
           NEW typed \in TypedLevels, NewUser(t, n, u, typed)
    PROVE  Abstract!AddUser(n, u, typed)
<1>1. Abstract!Change(AddedUser(Contents(file), n, u, typed))
    BY LockedEdit DEF NewUser
<1> QED BY <1>1, SameEdits, SameLoads DEF NewUser, Abstract!AddUser

\* and rmUser of a known name.
LEMMA RmUserMaps ==
    ASSUME IndInv, NEW t \in CliThreads, NEW n \in Names, RmUser(t, n)
    PROVE  Abstract!RemoveUser(n)
<1>1. Abstract!Change(RemovedUser(Contents(file), n))
    BY LockedEdit DEF RmUser
<1> QED BY <1>1, SameEdits, SameLoads DEF RmUser, Abstract!RemoveUser

\* What the thread that holds the lock is about to leave in the file.
LEMMA WriterPending ==
    ASSUME IndInv, NEW t \in CliThreads, pc[t] \in Writing
    PROVE  /\ writer = t /\ Pending = configJson[t]
           /\ configJson[t] # NoText
<1>1. writer = t
    BY DEF IndInv, LockDiscipline
<1>2. configJson[t] \in Configs
    BY DEF IndInv, TypeOK, FileTypeOK
<1> QED BY <1>1, <1>2, SentinelAssumption, ThreadAssumption DEF Pending

\* The rename exposes what is pending, or an unreadable file.
LEMMA RenameMaps ==
    ASSUME IndInv, NEW t \in CliThreads, Rename(t)
    PROVE  Abstract!Expose
<1>1. writer = t /\ Pending = configJson[t] /\ Pending # NoText
    BY WriterPending DEF Rename, Writing
<1>2. file' \in {Pending, NoText}
    BY <1>1 DEF Rename, IndInv, FileDiscipline
<1>3. Pending' = Pending
    BY DEF Rename, Pending, locks, cliVars
<1> QED
    BY <1>1, <1>2, <1>3
    DEF Rename, Abstract!Expose, Abstract!tables, Abstract!checks, tables, clientVars

\* The flush at the end of the command's scope saves what is pending.
LEMMA CloseMaps ==
    ASSUME IndInv, NEW t \in CliThreads, Close(t)
    PROVE  Abstract!Save
<1>1. Pending = configJson[t] /\ Pending # NoText
    BY WriterPending DEF Close, Writing
<1>2. Pending' = NoText
    BY DEF Close, EndScope, Pending
<1> QED
    BY <1>1, <1>2
    DEF Close, Abstract!Save, Abstract!tables, Abstract!checks, tables, clientVars

\* A rename that throws and a flush that fails lose the change.
LEMMA FailureMaps ==
    ASSUME IndInv, NEW t \in CliThreads, RenameFails(t) \/ FlushFails(t)
    PROVE  Abstract!Lose
<1>1. Pending # NoText
    BY WriterPending DEF RenameFails, FlushFails, Writing
<1>2. Pending' = NoText
    BY DEF RenameFails, FlushFails, EndScope, Pending
<1> QED
    BY <1>1, <1>2
    DEF RenameFails, FlushFails, Abstract!Lose, Abstract!tables, Abstract!checks,
        tables, clientVars

----------------------------------------------------------------------------
(* Checks.  The second look-up is where the abstract answer is given: what *)
(* the first one found has not changed since. *)

\* A packet that arrives is a question.
LEMMA RequestMaps ==
    ASSUME IndInv, NEW t \in ClientThreads, ReceiveRequest(t)
    PROVE  Abstract!Ask(t)
<1>1. request[t] = NoRequest /\ reply[t] = "none"
    BY DEF IndInv, ChecksInProgress, TypeOK, ThreadTypeOK, ReceiveRequest
<1>2. Pending' = Pending
    BY DEF ReceiveRequest, Pending, locks, cliVars
<1> QED
    BY <1>1, <1>2, SameRequests
    DEF ReceiveRequest, Abstract!Ask, Abstract!tables, Abstract!saving, tables, files

\* The second look-up gives the verdict of the tables as they are.
LEMMA DecideMaps ==
    ASSUME IndInv, NEW t \in ClientThreads, Decide(t)
    PROVE  Abstract!Answer(t)
<1>1. writer = NoThread
    BY DEF IndInv, LockDiscipline, Decide, Reading
<1>2. Pending = NoText /\ Pending' = Pending
    BY <1>1 DEF Pending, Decide, locks, cliVars
<1>3. request[t] \in Requests /\ request[t] # NoRequest
    BY NoRequestIsNone DEF IndInv, ChecksInProgress, Decide
<1>4. doorLevel[t] = doors[request[t].door]
    BY DEF IndInv, ChecksInProgress, Decide
<1>5. reply' = [reply EXCEPT ![t] = Abstract!Verdict(request[t])]
    BY <1>4 DEF Decide, Authorized, Abstract!Verdict
<1> QED
    BY <1>2, <1>3, <1>5, SameRequests
    DEF Decide, Abstract!Answer, Abstract!tables, Abstract!saving, tables, files

\* The end of the check's scope delivers the answer.
LEMMA UnlockMaps ==
    ASSUME IndInv, NEW t \in ClientThreads, Unlock(t)
    PROVE  Abstract!Deliver(t)
<1>1. reply[t] # "none"
    BY DEF IndInv, ChecksInProgress, Unlock
<1>2. Pending' = Pending
    BY DEF Unlock, Pending, cliVars
<1> QED
    BY <1>1, <1>2
    DEF Unlock, Abstract!Deliver, Abstract!tables, Abstract!saving, tables, files

----------------------------------------------------------------------------
\* Every step is a step of the abstract server or none that it can see.
LEMMA StepMaps == IndInv /\ [Next]_vars => [Abstract!Next]_(Abstract!vars)
<1> SUFFICES ASSUME IndInv, [Next]_vars PROVE [Abstract!Next]_(Abstract!vars)
    OBVIOUS
<1>1. CASE Boot \/ Crash
    BY <1>1, BootMaps, CrashMaps DEF Abstract!Next
<1>2. ASSUME NEW t \in CliThreads, NEW d \in Doors, NEW typed \in TypedLevels, NewDoor(t, d, typed)
      PROVE  Abstract!Next
    BY <1>2, NewDoorMaps DEF Abstract!Next
<1>3. ASSUME NEW t \in CliThreads, NEW n \in Names, NEW u \in Uids,
             NEW typed \in TypedLevels, NewUser(t, n, u, typed)
      PROVE  Abstract!Next
    BY <1>3, NewUserMaps DEF Abstract!Next
<1>4. ASSUME NEW t \in CliThreads, NEW n \in Names, RmUser(t, n)
      PROVE  Abstract!Next
    BY <1>4, RmUserMaps DEF Abstract!Next
<1>5. ASSUME NEW t \in CliThreads, Rename(t) \/ Close(t) \/ RenameFails(t) \/ FlushFails(t)
      PROVE  Abstract!Next
    BY <1>5, RenameMaps, CloseMaps, FailureMaps DEF Abstract!Next
<1>6. ASSUME NEW t \in ClientThreads, ReceiveRequest(t) \/ Decide(t) \/ Unlock(t)
      PROVE  Abstract!Next
    BY <1>6, RequestMaps, DecideMaps, UnlockMaps DEF Abstract!Next
<1>7. CASE \/ \E t \in CliThreads :
                ReceiveCommand(t) \/ WriteTmp(t) \/ Acknowledge(t)
                    \/ \E n \in Names : RmUnknownUser(t, n)
           \/ \E t \in ClientThreads : FindDoor(t)
           \/ UNCHANGED vars
    <2>1. /\ UNCHANGED <<status, tables, file, intact, request, reply>>
          /\ writer' = writer /\ configJson' = configJson
        BY <1>7 DEF ReceiveCommand, WriteTmp, Acknowledge, RmUnknownUser, FindDoor,
                    vars, files, locks, cliVars, clientVars
    <2>2. Pending' = Pending
        BY <2>1 DEF Pending
    <2> QED
        BY <2>1, <2>2
        DEF tables, Abstract!vars, Abstract!tables, Abstract!saving, Abstract!checks
<1> QED BY <1>1, <1>2, <1>3, <1>4, <1>5, <1>6, <1>7 DEF Next, RunCommand

\* With any number of threads, any interleaving, any crash and any refusal of
\* the file system, the server behaves as one that runs a command or answers a
\* check at a time.
THEOREM Implementation == Spec => Implements
<1>1. Spec => []IndInv
    BY Inductive
<1> QED BY InitMaps, <1>1, StepMaps, PTL DEF Spec, Implements, Abstract!Spec
=============================================================================
