------------------------- MODULE AccessStoreProofs -------------------------
(***************************************************************************)
(* The inductive invariant of AccessStore and what follows from it, for    *)
(* every set of names, cards, doors, levels and threads, whatever the file *)
(* system refuses, and before it lemmas about the configuration file: what *)
(* loading keeps and what an edit changes.                                 *)
(***************************************************************************)
EXTENDS AccessStore, DataLemmas

----------------------------------------------------------------------------
(* Loading a table from a list of entries. *)

\* The entry a load keeps is well defined: a key that occurs has a last entry,
LEMMA LastExists ==
    ASSUME NEW S, NEW s \in Seq(S), NEW key, NEW k, HasEntry(s, key, k)
    PROVE  \E i \in DOMAIN s : IsLast(s, key, k, i)
<1> DEFINE T == {i \in DOMAIN s : s[i][key] = k}
<1>1. /\ T \subseteq Nat /\ T # {}
      /\ Len(s) \in Nat /\ \A i \in T : i <= Len(s)
    BY DEF HasEntry
<1>2. PICK i \in T : \A j \in T : j <= i
    <2> HIDE DEF T
    <2> QED BY <1>1, LargestExists
<1> QED BY <1>2 DEF IsLast

\* and it is one of the entries.
LEMMA LastEntryIsEntry ==
    ASSUME NEW S, NEW s \in Seq(S), NEW key, NEW k, HasEntry(s, key, k)
    PROVE  /\ LastEntry(s, key, k) \in S
           /\ LastEntry(s, key, k)[key] = k
<1> DEFINE i == CHOOSE i \in DOMAIN s : IsLast(s, key, k, i)
<1>1. i \in DOMAIN s /\ IsLast(s, key, k, i)
    BY LastExists
<1>2. LastEntry(s, key, k) = s[i]
    BY DEF LastEntry
<1> QED BY <1>1, <1>2 DEF IsLast

\* Whatever position is last, that is where the entry comes from.
LEMMA LastEntryUnique ==
    ASSUME NEW S, NEW s \in Seq(S), NEW key, NEW k,
           NEW i \in DOMAIN s, IsLast(s, key, k, i)
    PROVE  HasEntry(s, key, k) /\ LastEntry(s, key, k) = s[i]
<1>1. HasEntry(s, key, k)
    BY DEF HasEntry, IsLast
<1>2. \A j \in DOMAIN s : IsLast(s, key, k, j) => j = i
    <2> SUFFICES ASSUME NEW j \in DOMAIN s, IsLast(s, key, k, j) PROVE j = i
        OBVIOUS
    <2>1. j <= i /\ i <= j
        BY DEF IsLast
    <2> QED BY <2>1
<1>3. (CHOOSE j \in DOMAIN s : IsLast(s, key, k, j)) = i
    BY <1>2
<1> QED BY <1>1, <1>3 DEF LastEntry

\* push_back: the new entry is the last of its key, the others keep theirs.
LEMMA AppendedEntry ==
    ASSUME NEW S, NEW s \in Seq(S), NEW e \in S, NEW key, NEW k
    PROVE  /\ e[key] = k => HasEntry(Append(s, e), key, k)
                             /\ LastEntry(Append(s, e), key, k) = e
           /\ e[key] # k => /\ HasEntry(Append(s, e), key, k) <=> HasEntry(s, key, k)
                            /\ HasEntry(s, key, k) =>
                                LastEntry(Append(s, e), key, k) = LastEntry(s, key, k)
<1> DEFINE a == Append(s, e)
<1>1. /\ a \in Seq(S)
      /\ DOMAIN a = 1 .. Len(s) + 1
      /\ \A i \in DOMAIN s : a[i] = s[i]
      /\ a[Len(s) + 1] = e
      /\ DOMAIN s = 1 .. Len(s) /\ Len(s) \in Nat
    OBVIOUS
<1> HIDE DEF a
<1>2. CASE e[key] = k
    <2>1. IsLast(a, key, k, Len(s) + 1)
        BY <1>1, <1>2 DEF IsLast
    <2>2. HasEntry(a, key, k) /\ LastEntry(a, key, k) = a[Len(s) + 1]
        BY <2>1, <1>1, LastEntryUnique
    <2> QED BY <2>2, <1>1, <1>2 DEF a
<1>3. CASE e[key] # k
    <2>1. HasEntry(a, key, k) <=> HasEntry(s, key, k)
        BY <1>1, <1>3 DEF HasEntry
    <2>2. ASSUME HasEntry(s, key, k)
          PROVE  LastEntry(a, key, k) = LastEntry(s, key, k)
        <3>1. PICK i \in DOMAIN s : IsLast(s, key, k, i)
            BY <2>2, LastExists
        <3>2. i \in DOMAIN a /\ IsLast(a, key, k, i)
            BY <1>1, <1>3, <3>1 DEF IsLast
        <3>3. LastEntry(a, key, k) = a[i] /\ LastEntry(s, key, k) = s[i]
            BY <1>1, <3>1, <3>2, LastEntryUnique
        <3> QED BY <3>3, <1>1
    <2> QED BY <2>1, <2>2, <1>3 DEF a
<1> QED BY <1>2, <1>3

\* What rmUser's loop looks for: the position of the name's first entry.
LEMMA FirstExists ==
    ASSUME NEW s \in Seq(Users), NEW n, HasEntry(s, "name", n)
    PROVE  \E i \in DOMAIN s :
                s[i].name = n /\ \A j \in 1 .. i - 1 : s[j].name # n
<1> DEFINE T == {i \in DOMAIN s : s[i].name = n}
<1>1. T \subseteq Nat /\ T # {}
    BY DEF HasEntry
<1>2. PICK i \in T : \A j \in T : i <= j
    <2> HIDE DEF T
    <2> QED BY <1>1, SmallestExists
<1>3. ASSUME NEW j \in 1 .. i - 1 PROVE s[j].name # n
    BY <1>2
<1> QED BY <1>3

\* Removing the first entry of a name leaves a list of entries, in which every
\* other name has the last entry it had.
LEMMA RemovedEntry ==
    ASSUME NEW s \in Seq(Users), NEW n
    PROVE  /\ WithoutFirst(s, n) \in Seq(Users)
           /\ \A m : m # n =>
                /\ HasEntry(WithoutFirst(s, n), "name", m) <=> HasEntry(s, "name", m)
                /\ HasEntry(s, "name", m) =>
                    LastEntry(WithoutFirst(s, n), "name", m) = LastEntry(s, "name", m)
<1>1. CASE ~HasEntry(s, "name", n)
    BY <1>1 DEF WithoutFirst
<1>2. CASE HasEntry(s, "name", n)
    <2> DEFINE first == CHOOSE i \in DOMAIN s :
                            s[i].name = n /\ \A j \in 1 .. i - 1 : s[j].name # n
               w == [i \in 1 .. Len(s) - 1 |-> IF i < first THEN s[i] ELSE s[i + 1]]
    <2>1. first \in DOMAIN s /\ s[first].name = n
        BY <1>2, FirstExists
    <2>2. WithoutFirst(s, n) = w
        BY <1>2 DEF WithoutFirst
    <2>3. /\ DOMAIN s = 1 .. Len(s) /\ Len(s) \in Nat
          /\ \A i \in DOMAIN s : s[i] \in Users
        OBVIOUS
    <2> HIDE DEF first
    <2>4. w \in Seq(Users)
        <3>1. Len(s) - 1 \in Nat
            BY <2>1, <2>3
        <3>2. \A i \in 1 .. Len(s) - 1 : w[i] \in Users
            BY <2>1, <2>3
        <3> QED BY <3>1, <3>2
    <2>5. DOMAIN w = 1 .. Len(s) - 1
        OBVIOUS
    <2>6. \A i \in DOMAIN s : i < first => i \in DOMAIN w /\ w[i] = s[i]
        BY <2>1, <2>3
    <2>7. \A i \in DOMAIN s : first < i => i - 1 \in DOMAIN w /\ w[i - 1] = s[i]
        BY <2>1, <2>3
    <2>8. \A i \in DOMAIN w :
            \/ i < first /\ i \in DOMAIN s /\ w[i] = s[i]
            \/ first < i + 1 /\ i + 1 \in DOMAIN s /\ w[i] = s[i + 1]
        BY <2>1, <2>3
    <2> HIDE DEF w
    <2>9. ASSUME NEW m, m # n
          PROVE  /\ HasEntry(w, "name", m) <=> HasEntry(s, "name", m)
                 /\ HasEntry(s, "name", m) => LastEntry(w, "name", m) = LastEntry(s, "name", m)
        <3>1. HasEntry(w, "name", m) => HasEntry(s, "name", m)
            BY <2>8 DEF HasEntry
        <3>2. ASSUME HasEntry(s, "name", m)
              PROVE  HasEntry(w, "name", m) /\ LastEntry(w, "name", m) = LastEntry(s, "name", m)
            <4>1. PICK i \in DOMAIN s : IsLast(s, "name", m, i)
                BY <3>2, LastExists
            <4>2. LastEntry(s, "name", m) = s[i] /\ i # first
                BY <4>1, <2>1, <2>9, LastEntryUnique DEF IsLast
            <4>3. PICK p \in DOMAIN w :
                    w[p] = s[i] /\ (i < first => p = i) /\ (first < i => p = i - 1)
                BY <4>2, <2>1, <2>3, <2>6, <2>7
            <4>4. ASSUME NEW j \in DOMAIN w, w[j]["name"] = m
                  PROVE  j <= p
                <5>1. CASE j < first /\ j \in DOMAIN s /\ w[j] = s[j]
                    <6>1. j <= i
                        BY <5>1, <4>1, <4>4 DEF IsLast
                    <6> QED BY <6>1, <5>1, <4>2, <4>3, <2>1, <2>3
                <5>2. CASE first < j + 1 /\ j + 1 \in DOMAIN s /\ w[j] = s[j + 1]
                    <6>1. j + 1 <= i
                        BY <5>2, <4>1, <4>4 DEF IsLast
                    <6> QED BY <6>1, <5>2, <4>2, <4>3, <2>1, <2>3, <2>5
                <5> QED BY <5>1, <5>2, <2>8
            <4>5. IsLast(w, "name", m, p)
                BY <4>1, <4>3, <4>4 DEF IsLast
            <4> QED BY <4>2, <4>3, <4>5, <2>4, LastEntryUnique
        <3> QED BY <3>1, <3>2
    <2> QED BY <2>2, <2>4, <2>9
<1> QED BY <1>1, <1>2

----------------------------------------------------------------------------
(* What the loads of the constructor give, and how a command changes it. *)

\* A load of entries of the right type gives tables of the right type.
LEMMA LoadTypes ==
    ASSUME NEW c \in Configs
    PROVE  /\ LoadDoors(c.doors) \in [Doors -> Levels \cup {Absent}]
           /\ LoadByName(c.users) \in [Names -> [uid : Uids, level : Levels] \cup {Absent}]
           /\ LoadByUID(c.users) \in [Uids -> [name : Names, level : Levels] \cup {Absent}]
<1>1. c.users \in Seq(Users) /\ c.doors \in Seq(DoorEntries)
    BY DEF Configs
<1>2. \A d : HasEntry(c.doors, "name", d) => LastEntry(c.doors, "name", d) \in DoorEntries
    BY <1>1, LastEntryIsEntry
<1>3. \A n : HasEntry(c.users, "name", n) => LastEntry(c.users, "name", n) \in Users
    BY <1>1, LastEntryIsEntry
<1>4. \A u : HasEntry(c.users, "uid", u) => LastEntry(c.users, "uid", u) \in Users
    BY <1>1, LastEntryIsEntry
<1>5. LoadDoors(c.doors) \in [Doors -> Levels \cup {Absent}]
    BY <1>2 DEF LoadDoors, DoorEntries
<1>6. LoadByName(c.users) \in [Names -> [uid : Uids, level : Levels] \cup {Absent}]
    BY <1>3 DEF LoadByName, Users
<1>7. LoadByUID(c.users) \in [Uids -> [name : Names, level : Levels] \cup {Absent}]
    BY <1>4 DEF LoadByUID, Users
<1> QED BY <1>5, <1>6, <1>7

\* newDoor keeps the table and its copy of the file in step.
LEMMA LoadAddedDoor ==
    ASSUME NEW s \in Seq(DoorEntries), NEW d \in Doors, NEW l \in Levels
    PROVE  LoadDoors(Append(s, [name |-> d, level |-> l]))
             = [LoadDoors(s) EXCEPT ![d] = l]
<1> DEFINE e == [name |-> d, level |-> l]
           a == Append(s, e)
<1>1. e \in DoorEntries /\ e["name"] = d /\ e.level = l
    BY DEF DoorEntries
<1> HIDE DEF e
<1>2. HasEntry(a, "name", d) /\ LastEntry(a, "name", d) = e
    BY <1>1, AppendedEntry
<1>3. \A k : k # d =>
        /\ HasEntry(a, "name", k) <=> HasEntry(s, "name", k)
        /\ HasEntry(s, "name", k) => LastEntry(a, "name", k) = LastEntry(s, "name", k)
    BY <1>1, AppendedEntry
<1> HIDE DEF a
<1>4. ASSUME NEW k \in Doors
      PROVE  LoadDoors(a)[k] = [LoadDoors(s) EXCEPT ![d] = l][k]
    <2>1. CASE k = d
        <3>1. LoadDoors(a)[d] = e.level
            BY <1>2 DEF LoadDoors
        <3> QED BY <3>1, <1>1, <2>1 DEF LoadDoors
    <2>2. CASE k # d
        <3>1. LoadDoors(a)[k] = LoadDoors(s)[k]
            BY <1>3, <2>2 DEF LoadDoors
        <3> QED BY <3>1, <2>2 DEF LoadDoors
    <2> QED BY <2>1, <2>2
<1>5. LoadDoors(a) = [LoadDoors(s) EXCEPT ![d] = l]
    BY <1>4 DEF LoadDoors
<1> QED BY <1>5 DEF a, e

\* newUser does the same for the user it adds and leaves the others alone.
LEMMA LoadAddedUser ==
    ASSUME NEW s \in Seq(Users), NEW e \in Users
    PROVE  LoadByName(Append(s, e))
             = [LoadByName(s) EXCEPT ![e.name] = [uid |-> e.uid, level |-> e.level]]
<1> DEFINE a == Append(s, e)
           n == e.name
           v == [uid |-> e.uid, level |-> e.level]
<1>1. e["name"] = n /\ n \in Names
    BY DEF Users
<1>2. HasEntry(a, "name", n) /\ LastEntry(a, "name", n) = e
    BY <1>1, AppendedEntry
<1>3. \A k : k # n =>
        /\ HasEntry(a, "name", k) <=> HasEntry(s, "name", k)
        /\ HasEntry(s, "name", k) => LastEntry(a, "name", k) = LastEntry(s, "name", k)
    BY <1>1, AppendedEntry
<1> HIDE DEF a, n
<1>4. ASSUME NEW k \in Names
      PROVE  LoadByName(a)[k] = [LoadByName(s) EXCEPT ![n] = v][k]
    <2>1. CASE k = n
        <3>1. LoadByName(a)[n] = v
            BY <1>1, <1>2 DEF LoadByName
        <3> QED BY <3>1, <1>1, <2>1 DEF LoadByName
    <2>2. CASE k # n
        <3>1. LoadByName(a)[k] = LoadByName(s)[k]
            BY <1>3, <2>2 DEF LoadByName
        <3> QED BY <3>1, <2>2 DEF LoadByName
    <2> QED BY <2>1, <2>2
<1>5. LoadByName(a) = [LoadByName(s) EXCEPT ![n] = v]
    BY <1>4 DEF LoadByName
<1> QED BY <1>5 DEF a, n

\* A name whose last entry stays is loaded as before.
LEMMA UserKept ==
    ASSUME NEW s \in Seq(Users), NEW s2 \in Seq(Users), NEW n \in Names,
           HasEntry(s2, "name", n) <=> HasEntry(s, "name", n),
           HasEntry(s, "name", n) => LastEntry(s2, "name", n) = LastEntry(s, "name", n)
    PROVE  LoadByName(s2)[n] = LoadByName(s)[n]
<1>1. CASE HasEntry(s, "name", n)
    BY <1>1 DEF LoadByName
<1>2. CASE ~HasEntry(s, "name", n)
    BY <1>2 DEF LoadByName
<1> QED BY <1>1, <1>2

\* A typed level is kept as one a uint8_t can hold.
LEMMA StoredLevelType ==
    ASSUME NEW typed \in TypedLevels
    PROVE  StoredLevel(typed) \in Levels
BY LevelAssumption DEF StoredLevel, Levels

----------------------------------------------------------------------------
(* The copy a command edits. *)

\* A command never leaves an unreadable copy; what it read is a configuration.
LEMMA ContentsType ==
    ASSUME NEW f \in Configs \cup {NoText}
    PROVE  Contents(f) \in Configs
<1>1. EmptyConfig \in Configs
    BY DEF EmptyConfig, Configs
<1> QED BY <1>1 DEF Contents

\* The three ways a command edits its copy leave a configuration.
LEMMA EditedCopyType ==
    ASSUME NEW c \in Configs
    PROVE  /\ \A d \in Doors, typed \in TypedLevels : AddedDoor(c, d, typed) \in Configs
           /\ \A n \in Names, u \in Uids, typed \in TypedLevels :
                AddedUser(c, n, u, typed) \in Configs
           /\ \A n : RemovedUser(c, n) \in Configs
<1>1. c.users \in Seq(Users) /\ c.doors \in Seq(DoorEntries)
    BY DEF Configs
<1>2. ASSUME NEW n PROVE RemovedUser(c, n) \in Configs
    BY <1>1, RemovedEntry DEF RemovedUser, Configs
<1>3. ASSUME NEW d \in Doors, NEW typed \in TypedLevels
      PROVE  AddedDoor(c, d, typed) \in Configs
    <2>1. [name |-> d, level |-> StoredLevel(typed)] \in DoorEntries
        BY StoredLevelType DEF DoorEntries
    <2> QED BY <1>1, <2>1 DEF AddedDoor, Configs
<1>4. ASSUME NEW n \in Names, NEW u \in Uids, NEW typed \in TypedLevels
      PROVE  AddedUser(c, n, u, typed) \in Configs
    <2>1. [name |-> n, uid |-> u, level |-> StoredLevel(typed)] \in Users
        BY StoredLevelType DEF Users
    <2> QED BY <1>1, <2>1 DEF AddedUser, Configs
<1> QED BY <1>2, <1>3, <1>4

\* What newDoor's edit does to the doors that have an entry, and what the
\* other two leave alone.
LEMMA EditedDoors ==
    ASSUME NEW c \in Configs, NEW k
    PROVE  /\ \A d \in Doors, typed \in TypedLevels :
                HasEntry(AddedDoor(c, d, typed).doors, "name", k)
                    => k = d \/ HasEntry(c.doors, "name", k)
           /\ \A n, u, typed : AddedUser(c, n, u, typed).doors = c.doors
           /\ \A n : RemovedUser(c, n).doors = c.doors
<1>1. ASSUME NEW d \in Doors, NEW typed \in TypedLevels, k # d,
             HasEntry(AddedDoor(c, d, typed).doors, "name", k)
      PROVE  HasEntry(c.doors, "name", k)
    <2> DEFINE e == [name |-> d, level |-> StoredLevel(typed)]
    <2>1. e \in DoorEntries /\ e["name"] = d
        BY StoredLevelType DEF DoorEntries
    <2>2. AddedDoor(c, d, typed).doors = Append(c.doors, e)
        BY DEF AddedDoor
    <2>3. c.doors \in Seq(DoorEntries)
        BY DEF Configs
    <2> HIDE DEF e
    <2> QED BY <1>1, <2>1, <2>2, <2>3, AppendedEntry
<1> QED BY <1>1 DEF AddedUser, RemovedUser

\* What a start makes of the file: the configuration it loads, and on disk
\* that configuration or, if it cannot be written, what was there.
LEMMA RepairedType ==
    ASSUME NEW f \in Configs \cup {NoText}, NEW g \in Repaired(f)
    PROVE  /\ g \in Configs \cup {NoText}
           /\ Contents(g) = Contents(f)
           /\ g # NoText => g = Contents(f)
<1>1. Contents(f) \in Configs
    BY ContentsType
<1>2. g = Contents(f) \/ g = f
    BY DEF Repaired
<1>3. Contents(f) # NoText
    BY <1>1, SentinelAssumption
<1> QED BY <1>1, <1>2, <1>3 DEF Contents

----------------------------------------------------------------------------
(* The invariant holds initially and every step preserves each part.       *)

\* A thread without a request is told from one with any request.
LEMMA NoRequestIsNone == NoRequest \notin Requests
BY SentinelAssumption DEF NoRequest, Requests

\* Before the first start nothing is in the tables and nobody runs.
LEMMA InitInv == Init => IndInv
<1> SUFFICES ASSUME Init PROVE IndInv
    OBVIOUS
<1> USE DEF Init, AllIdle, EmptyTable
<1>1. MemoryTypeOK
    BY DEF MemoryTypeOK
<1>2. FileTypeOK
    <2>1. EmptyConfig \in Configs
        BY DEF EmptyConfig, Configs
    <2> QED BY <2>1, FileAssumption DEF FileTypeOK, NoCopies
<1>3. ThreadTypeOK
    BY DEF ThreadTypeOK, NoCommands, NoRequests, NoLevels, NoReplies
<1>4. LockDiscipline
    BY ThreadAssumption DEF LockDiscipline, Threads, Writing, Reading
<1>5. FileDiscipline /\ TablesFollowFile /\ DoorsKnown
    BY DEF FileDiscipline, FileSafeBeforeRename, TablesFollowFile, DoorsKnown,
           RestartInventsNoDoor, Threads
<1>6. ChecksInProgress
    BY NoRequestIsNone DEF ChecksInProgress, Threads, NoRequests, NoReplies
<1> QED BY <1>1, <1>2, <1>3, <1>4, <1>5, <1>6 DEF IndInv, TypeOK

\* The tables keep their types.
LEMMA MemoryTypeStep == IndInv /\ [Next]_vars => MemoryTypeOK'
<1> SUFFICES ASSUME IndInv, [Next]_vars PROVE MemoryTypeOK'
    OBVIOUS
<1> USE DEF IndInv, TypeOK, MemoryTypeOK
<1>1. CASE Boot
    <2>1. Contents(file) \in Configs
        BY ContentsType DEF FileTypeOK
    <2> QED BY <1>1, <2>1, LoadTypes DEF Boot
<1>2. CASE Crash
    BY <1>2 DEF Crash, EmptyTable
<1>3. ASSUME NEW t \in CliThreads, ReceiveCommand(t)
      PROVE  MemoryTypeOK'
    BY <1>3 DEF ReceiveCommand, tables, files, locks, cliVars, clientVars, Goto
<1>4. ASSUME NEW t \in CliThreads, NEW d \in Doors, NEW typed \in TypedLevels, NewDoor(t, d, typed)
      PROVE  MemoryTypeOK'
    BY <1>4, StoredLevelType DEF NewDoor
<1>5. ASSUME NEW t \in CliThreads, NEW n \in Names, NEW u \in Uids,
             NEW typed \in TypedLevels, NewUser(t, n, u, typed)
      PROVE  MemoryTypeOK'
    <2>1. StoredLevel(typed) \in Levels
        BY StoredLevelType
    <2> QED BY <1>5, <2>1 DEF NewUser
<1>6. ASSUME NEW t \in CliThreads, NEW n \in Names, RmUser(t, n)
      PROVE  MemoryTypeOK'
    BY <1>6 DEF RmUser
<1>7. ASSUME NEW t \in CliThreads, NEW n \in Names, RmUnknownUser(t, n)
      PROVE  MemoryTypeOK'
    BY <1>7 DEF RmUnknownUser, tables, files, locks, cliVars, clientVars, Goto
<1>8. ASSUME NEW t \in CliThreads, WriteTmp(t)
      PROVE  MemoryTypeOK'
    BY <1>8 DEF WriteTmp, tables, files, locks, cliVars, clientVars, Goto
<1>9. ASSUME NEW t \in CliThreads, Rename(t)
      PROVE  MemoryTypeOK'
    BY <1>9 DEF Rename, tables, files, locks, cliVars, clientVars, Goto
<1>10. ASSUME NEW t \in CliThreads, Acknowledge(t)
      PROVE  MemoryTypeOK'
    BY <1>10 DEF Acknowledge, tables, files, locks, cliVars, clientVars, Goto
<1>11. ASSUME NEW t \in CliThreads, Close(t)
      PROVE  MemoryTypeOK'
    BY <1>11 DEF Close, EndScope, tables, files, locks, cliVars, clientVars, Goto
<1>12. ASSUME NEW t \in ClientThreads, ReceiveRequest(t)
      PROVE  MemoryTypeOK'
    BY <1>12 DEF ReceiveRequest, tables, files, locks, cliVars, clientVars, Goto
<1>13. ASSUME NEW t \in ClientThreads, FindDoor(t)
      PROVE  MemoryTypeOK'
    BY <1>13 DEF FindDoor, tables, files, locks, cliVars, clientVars, Goto
<1>14. ASSUME NEW t \in ClientThreads, Decide(t)
      PROVE  MemoryTypeOK'
    BY <1>14 DEF Decide, tables, files, locks, cliVars, clientVars, Goto
<1>15. ASSUME NEW t \in ClientThreads, Unlock(t)
      PROVE  MemoryTypeOK'
    BY <1>15 DEF Unlock, tables, files, locks, cliVars, clientVars, Goto
<1>16. ASSUME NEW t \in CliThreads, RenameFails(t)
      PROVE  MemoryTypeOK'
    BY <1>16 DEF RenameFails, EndScope, tables, files, locks, cliVars, clientVars, Goto
<1>17. ASSUME NEW t \in CliThreads, FlushFails(t)
      PROVE  MemoryTypeOK'
    BY <1>17 DEF FlushFails, EndScope, tables, files, locks, cliVars, clientVars, Goto
<1>18. CASE UNCHANGED vars
    BY <1>18 DEF vars, tables, files, locks, cliVars, clientVars
<1> QED BY <1>1, <1>2, <1>3, <1>4, <1>5, <1>6, <1>7, <1>8,
           <1>9, <1>10, <1>11, <1>12, <1>13, <1>14, <1>15, <1>16, <1>17, <1>18
        DEF Next, RunCommand

\* The files and the copies keep their types.
LEMMA FileTypeStep == IndInv /\ [Next]_vars => FileTypeOK'
<1> SUFFICES ASSUME IndInv, [Next]_vars PROVE FileTypeOK'
    OBVIOUS
<1> USE DEF IndInv, TypeOK, FileTypeOK
<1>0. Contents(file) \in Configs /\ EmptyConfig \in Configs
    BY ContentsType DEF EmptyConfig, Configs
<1>1. CASE Boot
    BY <1>1, RepairedType DEF Boot, cliVars
<1>2. CASE Crash
    BY <1>2, <1>0 DEF Crash, NoCopies
<1>3. ASSUME NEW t \in CliThreads, ReceiveCommand(t)
      PROVE  FileTypeOK'
    BY <1>3 DEF ReceiveCommand, tables, files, locks, cliVars, clientVars, Goto
<1>4. ASSUME NEW t \in CliThreads, NEW d \in Doors, NEW typed \in TypedLevels, NewDoor(t, d, typed)
      PROVE  FileTypeOK'
    <2>1. AddedDoor(Contents(file), d, typed) \in Configs
        BY <1>0, EditedCopyType
    <2> QED BY <1>4, <2>1 DEF NewDoor, Edit, files
<1>5. ASSUME NEW t \in CliThreads, NEW n \in Names, NEW u \in Uids,
             NEW typed \in TypedLevels, NewUser(t, n, u, typed)
      PROVE  FileTypeOK'
    <2>1. AddedUser(Contents(file), n, u, typed) \in Configs
        BY <1>0, EditedCopyType
    <2> QED BY <1>5, <2>1 DEF NewUser, Edit, files
<1>6. ASSUME NEW t \in CliThreads, NEW n \in Names, RmUser(t, n)
      PROVE  FileTypeOK'
    <2>1. RemovedUser(Contents(file), n) \in Configs
        BY <1>0, EditedCopyType
    <2> QED BY <1>6, <2>1 DEF RmUser, Edit, files
<1>7. ASSUME NEW t \in CliThreads, NEW n \in Names, RmUnknownUser(t, n)
      PROVE  FileTypeOK'
    BY <1>7 DEF RmUnknownUser, tables, files, locks, cliVars, clientVars, Goto
<1>8. ASSUME NEW t \in CliThreads, WriteTmp(t)
      PROVE  FileTypeOK'
    BY <1>8 DEF WriteTmp, tables, files, locks, cliVars, clientVars, Goto
<1>9. ASSUME NEW t \in CliThreads, Rename(t)
      PROVE  FileTypeOK'
    BY <1>9 DEF Rename, tables, files, locks, cliVars, clientVars, Goto
<1>10. ASSUME NEW t \in CliThreads, Acknowledge(t)
      PROVE  FileTypeOK'
    BY <1>10 DEF Acknowledge, tables, files, locks, cliVars, clientVars, Goto
<1>11. ASSUME NEW t \in CliThreads, Close(t)
      PROVE  FileTypeOK'
    BY <1>11, <1>0 DEF Close, EndScope
<1>12. ASSUME NEW t \in ClientThreads, ReceiveRequest(t)
      PROVE  FileTypeOK'
    BY <1>12 DEF ReceiveRequest, tables, files, locks, cliVars, clientVars, Goto
<1>13. ASSUME NEW t \in ClientThreads, FindDoor(t)
      PROVE  FileTypeOK'
    BY <1>13 DEF FindDoor, tables, files, locks, cliVars, clientVars, Goto
<1>14. ASSUME NEW t \in ClientThreads, Decide(t)
      PROVE  FileTypeOK'
    BY <1>14 DEF Decide, tables, files, locks, cliVars, clientVars, Goto
<1>15. ASSUME NEW t \in ClientThreads, Unlock(t)
      PROVE  FileTypeOK'
    BY <1>15 DEF Unlock, tables, files, locks, cliVars, clientVars, Goto
<1>16. ASSUME NEW t \in CliThreads, RenameFails(t)
      PROVE  FileTypeOK'
    BY <1>16, <1>0 DEF RenameFails, EndScope, tables, files, locks, cliVars, clientVars, Goto
<1>17. ASSUME NEW t \in CliThreads, FlushFails(t)
      PROVE  FileTypeOK'
    BY <1>17, <1>0 DEF FlushFails, EndScope, tables, files, locks, cliVars, clientVars, Goto
<1>18. CASE UNCHANGED vars
    BY <1>18 DEF vars, tables, files, locks, cliVars, clientVars
<1> QED BY <1>1, <1>2, <1>3, <1>4, <1>5, <1>6, <1>7, <1>8,
           <1>9, <1>10, <1>11, <1>12, <1>13, <1>14, <1>15, <1>16, <1>17, <1>18
        DEF Next, RunCommand

\* The state of the threads keeps its type.
LEMMA ThreadTypeStep == IndInv /\ [Next]_vars => ThreadTypeOK'
<1> SUFFICES ASSUME IndInv, [Next]_vars PROVE ThreadTypeOK'
    OBVIOUS
<1> USE DEF IndInv, TypeOK, ThreadTypeOK, Threads, Commands
<1>1. CASE Boot
    BY <1>1 DEF Boot, tables, files, locks, cliVars, clientVars
<1>2. CASE Crash
    BY <1>2 DEF Crash, AllIdle, NoCommands, NoRequests, NoLevels, NoReplies
<1>3. ASSUME NEW t \in CliThreads, ReceiveCommand(t)
      PROVE  ThreadTypeOK'
    BY <1>3 DEF ReceiveCommand, tables, files, locks, cliVars, clientVars, Goto
<1>4. ASSUME NEW t \in CliThreads, NEW d \in Doors, NEW typed \in TypedLevels, NewDoor(t, d, typed)
      PROVE  ThreadTypeOK'
    BY <1>4 DEF NewDoor, tables, files, locks, cliVars, clientVars, Lock, Edit, Goto
<1>5. ASSUME NEW t \in CliThreads, NEW n \in Names, NEW u \in Uids,
             NEW typed \in TypedLevels, NewUser(t, n, u, typed)
      PROVE  ThreadTypeOK'
    BY <1>5 DEF NewUser, tables, files, locks, cliVars, clientVars, Lock, Edit, Goto
<1>6. ASSUME NEW t \in CliThreads, NEW n \in Names, RmUser(t, n)
      PROVE  ThreadTypeOK'
    BY <1>6 DEF RmUser, tables, files, locks, cliVars, clientVars, Lock, Edit, Goto
<1>7. ASSUME NEW t \in CliThreads, NEW n \in Names, RmUnknownUser(t, n)
      PROVE  ThreadTypeOK'
    BY <1>7 DEF RmUnknownUser, tables, files, locks, cliVars, clientVars, Goto
<1>8. ASSUME NEW t \in CliThreads, WriteTmp(t)
      PROVE  ThreadTypeOK'
    BY <1>8 DEF WriteTmp, tables, files, locks, cliVars, clientVars, Goto
<1>9. ASSUME NEW t \in CliThreads, Rename(t)
      PROVE  ThreadTypeOK'
    BY <1>9 DEF Rename, tables, files, locks, cliVars, clientVars, Goto
<1>10. ASSUME NEW t \in CliThreads, Acknowledge(t)
      PROVE  ThreadTypeOK'
    BY <1>10 DEF Acknowledge, tables, files, locks, cliVars, clientVars, Goto
<1>11. ASSUME NEW t \in CliThreads, Close(t)
      PROVE  ThreadTypeOK'
    BY <1>11 DEF Close, EndScope, Goto, clientVars, NoCommand
<1>12. ASSUME NEW t \in ClientThreads, ReceiveRequest(t)
      PROVE  ThreadTypeOK'
    BY <1>12 DEF ReceiveRequest, tables, files, locks, cliVars, clientVars, Goto
<1>13. ASSUME NEW t \in ClientThreads, FindDoor(t)
      PROVE  ThreadTypeOK'
    <2>1. request[t] \in Requests
        BY <1>13 DEF FindDoor, ChecksInProgress
    <2>2. doors[request[t].door] \in Levels \cup {Absent}
        BY <2>1 DEF MemoryTypeOK, Requests
    <2> QED BY <1>13, <2>2 DEF FindDoor, Goto, cliVars
<1>14. ASSUME NEW t \in ClientThreads, Decide(t)
      PROVE  ThreadTypeOK'
    BY <1>14 DEF Decide, tables, files, locks, cliVars, clientVars, Goto
<1>15. ASSUME NEW t \in ClientThreads, Unlock(t)
      PROVE  ThreadTypeOK'
    BY <1>15 DEF Unlock, tables, files, locks, cliVars, clientVars, Goto
<1>16. ASSUME NEW t \in CliThreads, RenameFails(t)
      PROVE  ThreadTypeOK'
    BY <1>16 DEF RenameFails, EndScope, tables, files, locks, cliVars, clientVars, Goto, NoCommand
<1>17. ASSUME NEW t \in CliThreads, FlushFails(t)
      PROVE  ThreadTypeOK'
    BY <1>17 DEF FlushFails, EndScope, tables, files, locks, cliVars, clientVars, Goto, NoCommand
<1>18. CASE UNCHANGED vars
    BY <1>18 DEF vars, tables, files, locks, cliVars, clientVars
<1> QED BY <1>1, <1>2, <1>3, <1>4, <1>5, <1>6, <1>7, <1>8,
           <1>9, <1>10, <1>11, <1>12, <1>13, <1>14, <1>15, <1>16, <1>17, <1>18
        DEF Next, RunCommand

\* A writer is alone in its critical section and a reader is not in one.
LEMMA LockStep == IndInv /\ [Next]_vars => LockDiscipline'
<1> SUFFICES ASSUME IndInv, [Next]_vars PROVE LockDiscipline'
    OBVIOUS
<1> USE ThreadAssumption
    DEF IndInv, TypeOK, ThreadTypeOK, LockDiscipline, Threads, Writing, Reading
<1>1. CASE Boot
    BY <1>1 DEF Boot, tables, files, locks, cliVars, clientVars, LockFree, AllIdle
<1>2. CASE Crash
    BY <1>2 DEF Crash, AllIdle
<1>3. ASSUME NEW t \in CliThreads, ReceiveCommand(t)
      PROVE  LockDiscipline'
    BY <1>3 DEF ReceiveCommand, tables, files, locks, cliVars, clientVars, Goto,
           LockFree, AllIdle
<1>4. ASSUME NEW t \in CliThreads, NEW d \in Doors, NEW typed \in TypedLevels, NewDoor(t, d, typed)
      PROVE  LockDiscipline'
    BY <1>4 DEF NewDoor, tables, files, locks, cliVars, clientVars, Lock, Edit, Goto,
           LockFree, AllIdle
<1>5. ASSUME NEW t \in CliThreads, NEW n \in Names, NEW u \in Uids,
             NEW typed \in TypedLevels, NewUser(t, n, u, typed)
      PROVE  LockDiscipline'
    BY <1>5 DEF NewUser, tables, files, locks, cliVars, clientVars, Lock, Edit, Goto,
           LockFree, AllIdle
<1>6. ASSUME NEW t \in CliThreads, NEW n \in Names, RmUser(t, n)
      PROVE  LockDiscipline'
    BY <1>6 DEF RmUser, tables, files, locks, cliVars, clientVars, Lock, Edit, Goto,
           LockFree, AllIdle
<1>7. ASSUME NEW t \in CliThreads, NEW n \in Names, RmUnknownUser(t, n)
      PROVE  LockDiscipline'
    BY <1>7 DEF RmUnknownUser, tables, files, locks, cliVars, clientVars, Goto,
           LockFree, AllIdle
<1>8. ASSUME NEW t \in CliThreads, WriteTmp(t)
      PROVE  LockDiscipline'
    BY <1>8 DEF WriteTmp, tables, files, locks, cliVars, clientVars, Goto, LockFree,
           AllIdle
<1>9. ASSUME NEW t \in CliThreads, Rename(t)
      PROVE  LockDiscipline'
    BY <1>9 DEF Rename, tables, files, locks, cliVars, clientVars, Goto,
           LockFree, AllIdle
<1>10. ASSUME NEW t \in CliThreads, Acknowledge(t)
      PROVE  LockDiscipline'
    BY <1>10 DEF Acknowledge, tables, files, locks, cliVars, clientVars, Goto, LockFree,
           AllIdle
<1>11. ASSUME NEW t \in CliThreads, Close(t)
      PROVE  LockDiscipline'
    BY <1>11 DEF Close, EndScope, tables, files, locks, cliVars, clientVars, Goto,
           LockFree, AllIdle
<1>12. ASSUME NEW t \in ClientThreads, ReceiveRequest(t)
      PROVE  LockDiscipline'
    BY <1>12 DEF ReceiveRequest, tables, files, locks, cliVars, clientVars, Goto,
           LockFree, AllIdle
<1>13. ASSUME NEW t \in ClientThreads, FindDoor(t)
      PROVE  LockDiscipline'
    BY <1>13 DEF FindDoor, tables, files, locks, cliVars, clientVars, Goto, LockFree,
           AllIdle
<1>14. ASSUME NEW t \in ClientThreads, Decide(t)
      PROVE  LockDiscipline'
    BY <1>14 DEF Decide, tables, files, locks, cliVars, clientVars, Goto, LockFree,
           AllIdle
<1>15. ASSUME NEW t \in ClientThreads, Unlock(t)
      PROVE  LockDiscipline'
    BY <1>15 DEF Unlock, tables, files, locks, cliVars, clientVars, Goto, LockFree,
           AllIdle
<1>16. ASSUME NEW t \in CliThreads, RenameFails(t)
      PROVE  LockDiscipline'
    BY <1>16 DEF RenameFails, EndScope, tables, files, locks, cliVars, clientVars, Goto,
           LockFree, AllIdle
<1>17. ASSUME NEW t \in CliThreads, FlushFails(t)
      PROVE  LockDiscipline'
    BY <1>17 DEF FlushFails, EndScope, tables, files, locks, cliVars, clientVars, Goto,
           LockFree, AllIdle
<1>18. CASE UNCHANGED vars
    BY <1>18 DEF vars, tables, files, locks, cliVars, clientVars, LockFree, AllIdle
<1> QED BY <1>1, <1>2, <1>3, <1>4, <1>5, <1>6, <1>7, <1>8,
           <1>9, <1>10, <1>11, <1>12, <1>13, <1>14, <1>15, <1>16, <1>17, <1>18
        DEF Next, RunCommand

\* What the writer has put on disk is its copy or nothing readable.
LEMMA FileStep == IndInv /\ [Next]_vars => FileDiscipline'
<1> SUFFICES ASSUME IndInv, [Next]_vars PROVE FileDiscipline'
    OBVIOUS
<1> USE ThreadAssumption
    DEF IndInv, TypeOK, ThreadTypeOK, LockDiscipline, Threads, Writing, Reading,
        FileDiscipline, FileSafeBeforeRename
<1>1. CASE Boot
    BY <1>1 DEF Boot, AllIdle, cliVars, locks
<1>2. CASE Crash
    BY <1>2 DEF Crash, AllIdle
<1>3. ASSUME NEW t \in CliThreads, ReceiveCommand(t)
      PROVE  FileDiscipline'
    BY <1>3 DEF ReceiveCommand, tables, files, locks, cliVars, clientVars, Goto, LockFree
<1>4. ASSUME NEW t \in CliThreads, NEW d \in Doors, NEW typed \in TypedLevels, NewDoor(t, d, typed)
      PROVE  FileDiscipline'
    BY <1>4 DEF NewDoor, tables, files, locks, cliVars, clientVars, Lock, Edit, Goto,
           LockFree
<1>5. ASSUME NEW t \in CliThreads, NEW n \in Names, NEW u \in Uids,
             NEW typed \in TypedLevels, NewUser(t, n, u, typed)
      PROVE  FileDiscipline'
    BY <1>5 DEF NewUser, tables, files, locks, cliVars, clientVars, Lock, Edit, Goto,
           LockFree
<1>6. ASSUME NEW t \in CliThreads, NEW n \in Names, RmUser(t, n)
      PROVE  FileDiscipline'
    BY <1>6 DEF RmUser, tables, files, locks, cliVars, clientVars, Lock, Edit, Goto,
           LockFree
<1>7. ASSUME NEW t \in CliThreads, NEW n \in Names, RmUnknownUser(t, n)
      PROVE  FileDiscipline'
    BY <1>7 DEF RmUnknownUser, tables, files, locks, cliVars, clientVars, Goto, LockFree
<1>8. ASSUME NEW t \in CliThreads, WriteTmp(t)
      PROVE  FileDiscipline'
    BY <1>8 DEF WriteTmp, tables, files, locks, cliVars, clientVars, Goto, LockFree
<1>9. ASSUME NEW t \in CliThreads, Rename(t)
      PROVE  FileDiscipline'
    BY <1>9 DEF Rename, tables, files, locks, cliVars, clientVars, Goto, LockFree
<1>10. ASSUME NEW t \in CliThreads, Acknowledge(t)
      PROVE  FileDiscipline'
    BY <1>10 DEF Acknowledge, tables, files, locks, cliVars, clientVars, Goto, LockFree
<1>11. ASSUME NEW t \in CliThreads, Close(t)
      PROVE  FileDiscipline'
    <2>1. configJson[t] # NoText
        <3>1. configJson[t] \in Configs
            BY DEF FileTypeOK
        <3> QED BY <3>1, SentinelAssumption
    <2> QED BY <1>11, <2>1 DEF Close, EndScope, Goto
<1>12. ASSUME NEW t \in ClientThreads, ReceiveRequest(t)
      PROVE  FileDiscipline'
    BY <1>12 DEF ReceiveRequest, tables, files, locks, cliVars, clientVars, Goto, LockFree
<1>13. ASSUME NEW t \in ClientThreads, FindDoor(t)
      PROVE  FileDiscipline'
    BY <1>13 DEF FindDoor, tables, files, locks, cliVars, clientVars, Goto, LockFree
<1>14. ASSUME NEW t \in ClientThreads, Decide(t)
      PROVE  FileDiscipline'
    BY <1>14 DEF Decide, tables, files, locks, cliVars, clientVars, Goto, LockFree
<1>15. ASSUME NEW t \in ClientThreads, Unlock(t)
      PROVE  FileDiscipline'
    BY <1>15 DEF Unlock, tables, files, locks, cliVars, clientVars, Goto, LockFree
<1>16. ASSUME NEW t \in CliThreads, RenameFails(t)
      PROVE  FileDiscipline'
    BY <1>16 DEF RenameFails, EndScope, tables, files, locks, cliVars, clientVars, Goto, LockFree
<1>17. ASSUME NEW t \in CliThreads, FlushFails(t)
      PROVE  FileDiscipline'
    BY <1>17 DEF FlushFails, EndScope, tables, files, locks, cliVars, clientVars, Goto, LockFree
<1>18. CASE UNCHANGED vars
    BY <1>18 DEF vars, tables, files, locks, cliVars, clientVars, LockFree
<1> QED BY <1>1, <1>2, <1>3, <1>4, <1>5, <1>6, <1>7, <1>8,
           <1>9, <1>10, <1>11, <1>12, <1>13, <1>14, <1>15, <1>16, <1>17, <1>18
        DEF Next, RunCommand

\* The tables follow what the file is, or is about to be.
LEMMA TablesStep == IndInv /\ [Next]_vars => TablesFollowFile'
<1> SUFFICES ASSUME IndInv, [Next]_vars PROVE TablesFollowFile'
    OBVIOUS
<1> USE DEF IndInv, TypeOK, MemoryTypeOK
<1>1. CASE Boot
    <2>1. writer = NoThread /\ writer' = NoThread
        BY <1>1 DEF Boot, LockDiscipline, locks
    <2>2. Current' = Contents(file)
        <3>1. Contents(file') = Contents(file)
            BY <1>1, RepairedType DEF Boot, FileTypeOK
        <3> QED BY <2>1, <3>1 DEF Current
    <2> QED BY <1>1, <2>2 DEF Boot, TablesFollowFile
<1>2. CASE Crash
    BY <1>2 DEF Crash, TablesFollowFile
<1>3. ASSUME NEW t \in CliThreads, ReceiveCommand(t)
      PROVE  TablesFollowFile'
    BY <1>3 DEF ReceiveCommand, tables, files, locks, cliVars, clientVars, Goto,
           Current, LockDiscipline, Writing, TablesFollowFile
<1>4. ASSUME NEW t \in CliThreads, NEW d \in Doors, NEW typed \in TypedLevels, NewDoor(t, d, typed)
      PROVE  TablesFollowFile'
    <2> DEFINE config == Contents(file)
    <2>1. /\ status' = status /\ writer = NoThread /\ writer' = t
          /\ Current = config
          /\ Current' = AddedDoor(config, d, typed)
        BY <1>4, ThreadAssumption
        DEF NewDoor, Lock, LockFree, Edit, Current, FileTypeOK
    <2>2. config.users \in Seq(Users) /\ config.doors \in Seq(DoorEntries)
        BY ContentsType DEF FileTypeOK, Configs
    <2>3. Current'.doors = Append(config.doors, [name |-> d, level |-> StoredLevel(typed)])
          /\ Current'.users = config.users
        BY <2>1 DEF AddedDoor
    <2>4. LoadDoors(Current'.doors) = [LoadDoors(config.doors) EXCEPT ![d] = StoredLevel(typed)]
        BY <2>2, <2>3, StoredLevelType, LoadAddedDoor
    <2> QED BY <1>4, <2>1, <2>3, <2>4 DEF NewDoor, files, TablesFollowFile
<1>5. ASSUME NEW t \in CliThreads, NEW n \in Names, NEW u \in Uids,
             NEW typed \in TypedLevels, NewUser(t, n, u, typed)
      PROVE  TablesFollowFile'
    <2> DEFINE config == Contents(file)
    <2>1. /\ status' = status /\ writer = NoThread /\ writer' = t
          /\ Current = config
          /\ Current' = AddedUser(config, n, u, typed)
        BY <1>5, ThreadAssumption
        DEF NewUser, Lock, LockFree, Edit, Current, FileTypeOK
    <2>2. config.users \in Seq(Users) /\ config.doors \in Seq(DoorEntries)
        BY ContentsType DEF FileTypeOK, Configs
    <2>3. /\ Current'.users = Append(config.users,
                                    [name |-> n, uid |-> u, level |-> StoredLevel(typed)])
          /\ Current'.doors = config.doors
        BY <2>1 DEF AddedUser
    <2>4. LoadByName(Current'.users)
            = [LoadByName(config.users) EXCEPT ![n] = [uid |-> u, level |-> StoredLevel(typed)]]
        <3>1. StoredLevel(typed) \in Levels
            BY StoredLevelType
        <3> DEFINE e == [name |-> n, uid |-> u, level |-> StoredLevel(typed)]
        <3>2. e \in Users /\ e.name = n /\ e.uid = u /\ e.level = StoredLevel(typed)
            BY <3>1 DEF Users
        <3>3. Current'.users = Append(config.users, e)
            BY <2>3
        <3> HIDE DEF e, config
        <3>4. LoadByName(Append(config.users, e))
                = [LoadByName(config.users) EXCEPT ![e.name] = [uid |-> e.uid, level |-> e.level]]
            BY <2>2, <3>2, LoadAddedUser
        <3> QED BY <3>2, <3>3, <3>4
    <2>5. LoadByName(config.users) \in [Names -> [uid : Uids, level : Levels] \cup {Absent}]
        BY ContentsType, LoadTypes DEF FileTypeOK
    <2> QED BY <1>5, <2>1, <2>3, <2>4, <2>5 DEF NewUser, files, TablesFollowFile
<1>6. ASSUME NEW t \in CliThreads, NEW n \in Names, RmUser(t, n)
      PROVE  TablesFollowFile'
    <2> DEFINE config == Contents(file)
    <2>1. /\ status' = status /\ writer = NoThread /\ writer' = t
          /\ Current = config
          /\ Current' = RemovedUser(config, n)
        BY <1>6, ThreadAssumption
        DEF RmUser, Lock, LockFree, Edit, Current, FileTypeOK
    <2>2. config.users \in Seq(Users) /\ config.doors \in Seq(DoorEntries)
        BY ContentsType DEF FileTypeOK, Configs
    <2>3. Current'.users = WithoutFirst(config.users, n) /\ Current'.doors = config.doors
        BY <2>1 DEF RemovedUser
    <2>4. ASSUME NEW m \in Names, m # n
          PROVE  LoadByName(Current'.users)[m] = LoadByName(config.users)[m]
        BY <2>2, <2>3, <2>4, RemovedEntry, UserKept
    <2>5. /\ usersByName' = [usersByName EXCEPT ![n] = Absent]
          /\ doors' = doors /\ intact' = intact
        BY <1>6 DEF RmUser, files
    <2> QED BY <2>1, <2>3, <2>4, <2>5 DEF TablesFollowFile
<1>7. ASSUME NEW t \in CliThreads, NEW n \in Names, RmUnknownUser(t, n)
      PROVE  TablesFollowFile'
    BY <1>7 DEF RmUnknownUser, tables, files, locks, cliVars, clientVars, Goto, Current,
           LockDiscipline, Writing, TablesFollowFile
<1>8. ASSUME NEW t \in CliThreads, WriteTmp(t)
      PROVE  TablesFollowFile'
    BY <1>8 DEF WriteTmp, tables, files, locks, cliVars, clientVars, Goto, Current,
           LockDiscipline, Writing, TablesFollowFile
<1>9. ASSUME NEW t \in CliThreads, Rename(t)
      PROVE  TablesFollowFile'
    <2>1. writer = t
        BY <1>9 DEF Rename, LockDiscipline, Writing
    <2>2. Current' = Current
        BY <1>9, <2>1, ThreadAssumption DEF Rename, Current, locks, cliVars
    <2> QED BY <1>9, <2>2 DEF Rename, tables, TablesFollowFile
<1>10. ASSUME NEW t \in CliThreads, Acknowledge(t)
      PROVE  TablesFollowFile'
    BY <1>10 DEF Acknowledge, tables, files, locks, cliVars, clientVars, Goto, Current,
           LockDiscipline, Writing, TablesFollowFile
<1>11. ASSUME NEW t \in CliThreads, Close(t)
      PROVE  TablesFollowFile'
    <2>1. writer = t /\ writer' = NoThread /\ file' = configJson[t]
        BY <1>11 DEF Close, EndScope, LockDiscipline, Writing
    <2>2. configJson[t] # NoText
        <3>1. configJson[t] \in Configs
            BY DEF FileTypeOK
        <3> QED BY <3>1, SentinelAssumption
    <2>3. Current = configJson[t] /\ Current' = configJson[t]
        BY <2>1, <2>2, ThreadAssumption DEF Current, Contents
    <2> QED BY <1>11, <2>3 DEF Close, EndScope, tables, TablesFollowFile
<1>12. ASSUME NEW t \in ClientThreads, ReceiveRequest(t)
      PROVE  TablesFollowFile'
    BY <1>12 DEF ReceiveRequest, tables, files, locks, cliVars, clientVars, Goto,
           Current, LockDiscipline, Writing, TablesFollowFile
<1>13. ASSUME NEW t \in ClientThreads, FindDoor(t)
      PROVE  TablesFollowFile'
    BY <1>13 DEF FindDoor, tables, files, locks, cliVars, clientVars, Goto, Current,
           LockDiscipline, Writing, TablesFollowFile
<1>14. ASSUME NEW t \in ClientThreads, Decide(t)
      PROVE  TablesFollowFile'
    BY <1>14 DEF Decide, tables, files, locks, cliVars, clientVars, Goto, Current,
           LockDiscipline, Writing, TablesFollowFile
<1>15. ASSUME NEW t \in ClientThreads, Unlock(t)
      PROVE  TablesFollowFile'
    BY <1>15 DEF Unlock, tables, files, locks, cliVars, clientVars, Goto, Current,
           LockDiscipline, Writing, TablesFollowFile
<1>16. ASSUME NEW t \in CliThreads, RenameFails(t)
      PROVE  TablesFollowFile'
    BY <1>16 DEF RenameFails, EndScope, tables, files, locks, cliVars, clientVars, Goto, Current,
           TablesFollowFile
<1>17. ASSUME NEW t \in CliThreads, FlushFails(t)
      PROVE  TablesFollowFile'
    BY <1>17 DEF FlushFails, EndScope, tables, files, locks, cliVars, clientVars, Goto, Current,
           TablesFollowFile
<1>18. CASE UNCHANGED vars
    BY <1>18 DEF vars, tables, files, locks, cliVars, clientVars, Current,
           LockDiscipline, Writing, TablesFollowFile
<1> QED BY <1>1, <1>2, <1>3, <1>4, <1>5, <1>6, <1>7, <1>8,
           <1>9, <1>10, <1>11, <1>12, <1>13, <1>14, <1>15, <1>16, <1>17, <1>18
        DEF Next, RunCommand

\* A step of a CLI thread disturbs no check: it leaves the doors alone, or nobody
\* reads them.
LEMMA ChecksKept ==
    ASSUME IndInv, NEW t \in CliThreads, NEW label,
           pc' = [pc EXCEPT ![t] = label],
           UNCHANGED clientVars,
           UNCHANGED doors \/ readers = {}
    PROVE  ChecksInProgress'
<1>1. \A u \in ClientThreads : pc'[u] = pc[u]
    BY ThreadAssumption DEF IndInv, TypeOK, ThreadTypeOK, Threads
<1>2. request' = request /\ doorLevel' = doorLevel /\ reply' = reply
    BY DEF clientVars
<1>3. ASSUME NEW u \in ClientThreads, pc[u] = "decide"
      PROVE  doorLevel[u] = doors'[request[u].door]
    <2>1. u \in readers
        BY <1>3 DEF IndInv, LockDiscipline, Reading
    <2> QED BY <1>3, <2>1 DEF IndInv, ChecksInProgress
<1>4. \A u \in ClientThreads :
        /\ pc[u] \in {"lock", "decide"} <=> request[u] \in Requests
        /\ pc[u] = "unlock" <=> reply[u] # "none"
    BY DEF IndInv, ChecksInProgress
<1> QED BY <1>1, <1>2, <1>3, <1>4 DEF ChecksInProgress

\* The level a check has found is still the one of its door.
LEMMA ChecksStep == IndInv /\ [Next]_vars => ChecksInProgress'
<1> SUFFICES ASSUME IndInv, [Next]_vars PROVE ChecksInProgress'
    OBVIOUS
<1>1. CASE Boot
    <2>1. \A u \in ClientThreads : pc[u] = "idle"
        BY <1>1 DEF Boot, AllIdle, Threads, IndInv, LockDiscipline
    <2>2. pc' = pc /\ request' = request /\ reply' = reply
        BY <1>1 DEF Boot, clientVars
    <2> QED BY <2>1, <2>2 DEF IndInv, ChecksInProgress
<1>2. CASE Crash
    BY <1>2, NoRequestIsNone
    DEF Crash, AllIdle, NoRequests, NoReplies, ChecksInProgress, Threads
<1>3. ASSUME NEW t \in CliThreads, ReceiveCommand(t)
      PROVE  ChecksInProgress'
    BY <1>3, ChecksKept DEF ReceiveCommand, Goto, tables
<1>4. ASSUME NEW t \in CliThreads, NEW d \in Doors, NEW typed \in TypedLevels,
             NewDoor(t, d, typed)
      PROVE  ChecksInProgress'
    BY <1>4, ChecksKept DEF NewDoor, Lock, LockFree, Edit, Goto
<1>5. ASSUME NEW t \in CliThreads, NEW n \in Names, NEW u \in Uids,
             NEW typed \in TypedLevels, NewUser(t, n, u, typed)
      PROVE  ChecksInProgress'
    BY <1>5, ChecksKept DEF NewUser, Edit, Goto
<1>6. ASSUME NEW t \in CliThreads, NEW n \in Names, RmUser(t, n)
      PROVE  ChecksInProgress'
    BY <1>6, ChecksKept DEF RmUser, Edit, Goto
<1>7. ASSUME NEW t \in CliThreads, NEW n \in Names, RmUnknownUser(t, n)
      PROVE  ChecksInProgress'
    BY <1>7, ChecksKept DEF RmUnknownUser, Goto, tables
<1>8. ASSUME NEW t \in CliThreads, WriteTmp(t)
      PROVE  ChecksInProgress'
    BY <1>8, ChecksKept DEF WriteTmp, Goto, tables
<1>9. ASSUME NEW t \in CliThreads, Rename(t)
      PROVE  ChecksInProgress'
    BY <1>9, ChecksKept DEF Rename, Goto, tables
<1>10. ASSUME NEW t \in CliThreads, Acknowledge(t)
      PROVE  ChecksInProgress'
    BY <1>10, ChecksKept DEF Acknowledge, Goto, tables
<1>11. ASSUME NEW t \in CliThreads, Close(t)
      PROVE  ChecksInProgress'
    BY <1>11, ChecksKept DEF Close, Goto, tables
<1>12. ASSUME NEW t \in ClientThreads, ReceiveRequest(t)
      PROVE  ChecksInProgress'
    BY <1>12
    DEF ReceiveRequest, tables, Goto, IndInv, TypeOK, ThreadTypeOK, Threads,
        ChecksInProgress
<1>13. ASSUME NEW t \in ClientThreads, FindDoor(t)
      PROVE  ChecksInProgress'
    BY <1>13
    DEF FindDoor, tables, Goto, IndInv, TypeOK, ThreadTypeOK, Threads, ChecksInProgress
<1>14. ASSUME NEW t \in ClientThreads, Decide(t)
      PROVE  ChecksInProgress'
    BY <1>14, NoRequestIsNone
    DEF Decide, tables, Goto, IndInv, TypeOK, ThreadTypeOK, Threads, ChecksInProgress
<1>15. ASSUME NEW t \in ClientThreads, Unlock(t)
      PROVE  ChecksInProgress'
    BY <1>15
    DEF Unlock, tables, Goto, IndInv, TypeOK, ThreadTypeOK, Threads, ChecksInProgress
<1>16. ASSUME NEW t \in CliThreads, RenameFails(t)
      PROVE  ChecksInProgress'
    BY <1>16, ChecksKept DEF RenameFails, Goto, tables
<1>17. ASSUME NEW t \in CliThreads, FlushFails(t)
      PROVE  ChecksInProgress'
    BY <1>17, ChecksKept DEF FlushFails, Goto, tables
<1>18. CASE UNCHANGED vars
    BY <1>18 DEF vars, tables, clientVars, IndInv, ChecksInProgress
<1> QED BY <1>1, <1>2, <1>3, <1>4, <1>5, <1>6, <1>7, <1>8,
           <1>9, <1>10, <1>11, <1>12, <1>13, <1>14, <1>15, <1>16, <1>17, <1>18
        DEF Next, RunCommand

\* A door that is on file, or about to be, is one the server knows.
LEMMA DoorsStep == IndInv /\ [Next]_vars => DoorsKnown'
<1> SUFFICES ASSUME IndInv, [Next]_vars PROVE DoorsKnown'
    OBVIOUS
<1> USE ThreadAssumption DEF DoorsKnown, RestartInventsNoDoor
<1>0. /\ IndInv /\ MemoryTypeOK /\ FileTypeOK /\ ThreadTypeOK
      /\ LockDiscipline /\ FileDiscipline /\ DoorsKnown
      /\ Contents(file) \in Configs
    BY ContentsType DEF IndInv, TypeOK, FileTypeOK
<1>1. CASE Boot
    <2>1. writer' = NoThread
        BY <1>0, <1>1 DEF Boot, LockDiscipline, locks
    <2>2. Contents(file') = Contents(file)
        BY <1>0, <1>1, RepairedType DEF Boot, FileTypeOK
    <2>3. ASSUME NEW d \in Doors, HasEntry(Contents(file).doors, "name", d)
          PROVE  LoadDoors(Contents(file).doors)[d] # Absent
        <3>1. Contents(file).doors \in Seq(DoorEntries)
            BY <1>0 DEF Configs
        <3>2. LastEntry(Contents(file).doors, "name", d) \in DoorEntries
            BY <2>3, <3>1, LastEntryIsEntry
        <3> QED BY <2>3, <3>2, SentinelAssumption DEF LoadDoors, DoorEntries
    <2> QED BY <1>1, <2>1, <2>2, <2>3 DEF Boot, Current
<1>2. CASE Crash
    BY <1>2 DEF Crash
<1>3. ASSUME NEW t \in CliThreads, NEW d \in Doors, NEW typed \in TypedLevels, NewDoor(t, d, typed)
      PROVE  DoorsKnown'
    <2> DEFINE config == Contents(file)
    <2>1. /\ status' = status /\ file' = file /\ writer' = t
          /\ Current' = AddedDoor(config, d, typed)
          /\ doors' = [doors EXCEPT ![d] = StoredLevel(typed)]
        BY <1>0, <1>3 DEF NewDoor, Lock, LockFree, Edit, Current, FileTypeOK, files
    <2>2. doors'[d] # Absent
        BY <1>0, <2>1, StoredLevelType, SentinelAssumption DEF MemoryTypeOK
    <2>3. \A k \in Doors : k # d => doors'[k] = doors[k]
        BY <1>0, <2>1 DEF MemoryTypeOK
    <2>4. ASSUME NEW k \in Doors, HasEntry(AddedDoor(config, d, typed).doors, "name", k)
          PROVE  k = d \/ HasEntry(config.doors, "name", k)
        BY <1>0, <2>4, EditedDoors
    <2> QED BY <1>0, <2>1, <2>2, <2>3, <2>4
<1>4. ASSUME NEW t \in CliThreads, NEW n \in Names, NEW u \in Uids,
             NEW typed \in TypedLevels, NewUser(t, n, u, typed)
      PROVE  DoorsKnown'
    <2>1. /\ status' = status /\ file' = file /\ doors' = doors
          /\ Current'.doors = Contents(file).doors
        BY <1>0, <1>4, EditedDoors DEF NewUser, Lock, LockFree, Edit, Current, FileTypeOK, files
    <2> QED BY <1>0, <2>1
<1>5. ASSUME NEW t \in CliThreads, NEW n \in Names, RmUser(t, n)
      PROVE  DoorsKnown'
    <2>1. /\ status' = status /\ file' = file /\ doors' = doors
          /\ Current'.doors = Contents(file).doors
        BY <1>0, <1>5, EditedDoors DEF RmUser, Lock, LockFree, Edit, Current, FileTypeOK, files
    <2> QED BY <1>0, <2>1
<1>6. ASSUME NEW t \in CliThreads, Rename(t)
      PROVE  DoorsKnown'
    <2>1. /\ status' = status /\ doors' = doors /\ Current' = Current
          /\ writer = t /\ Current = configJson[t] /\ file' \in {NoText, configJson[t]}
        BY <1>0, <1>6
        DEF Rename, Current, LockDiscipline, FileDiscipline, Writing, locks, cliVars, tables
    <2>2. Contents(file') = EmptyConfig \/ Contents(file') = Current
        BY <2>1 DEF Contents
    <2>3. \A d \in Doors : ~HasEntry(EmptyConfig.doors, "name", d)
        BY DEF HasEntry, EmptyConfig
    <2> QED BY <1>0, <2>1, <2>2, <2>3
<1>7. ASSUME NEW t \in CliThreads, Close(t)
      PROVE  DoorsKnown'
    <2>1. /\ status' = status /\ doors' = doors /\ writer = t
          /\ writer' = NoThread /\ file' = configJson[t] /\ Current = configJson[t]
        BY <1>0, <1>7 DEF Close, EndScope, Current, LockDiscipline, Writing, tables
    <2>2. configJson[t] # NoText
        BY <1>0, SentinelAssumption DEF FileTypeOK
    <2>3. Contents(file') = Current /\ Current' = Current
        BY <2>1, <2>2 DEF Contents, Current
    <2> QED BY <1>0, <2>1, <2>3
<1>8. ASSUME NEW t \in CliThreads, RenameFails(t) \/ FlushFails(t)
      PROVE  DoorsKnown'
    <2>1. /\ status' = status /\ doors' = doors /\ file' = file
          /\ Current' = Contents(file)
        BY <1>8 DEF RenameFails, FlushFails, EndScope, Current, tables
    <2> QED BY <1>0, <2>1
<1>9. CASE \/ \E t \in CliThreads :
                ReceiveCommand(t) \/ WriteTmp(t) \/ Acknowledge(t)
                    \/ \E n \in Names : RmUnknownUser(t, n)
           \/ \E t \in ClientThreads :
                ReceiveRequest(t) \/ FindDoor(t) \/ Decide(t) \/ Unlock(t)
           \/ UNCHANGED vars
    <2>1. /\ status' = status /\ doors' = doors /\ file' = file
          /\ writer' = writer /\ configJson' = configJson
        BY <1>9 DEF ReceiveCommand, WriteTmp, Acknowledge, RmUnknownUser, ReceiveRequest,
                    FindDoor, Decide, Unlock, vars, tables, files, locks, cliVars
    <2>2. Current' = Current
        BY <2>1 DEF Current
    <2> QED BY <1>0, <2>1, <2>2
<1> QED BY <1>1, <1>2, <1>3, <1>4, <1>5, <1>6, <1>7, <1>8, <1>9 DEF Next, RunCommand

----------------------------------------------------------------------------
(* The theorems. *)

\* The invariant holds in every reachable state.
THEOREM Inductive == Spec => []IndInv
<1>1. IndInv /\ [Next]_vars => IndInv'
    BY MemoryTypeStep, FileTypeStep, ThreadTypeStep, LockStep, FileStep, TablesStep,
       ChecksStep, DoorsStep DEF IndInv, TypeOK
<1> QED BY InitInv, <1>1, PTL DEF Spec

\* Type correctness: in particular every level, in memory, on file or held by
\* a check, fits the uint8_t the commands convert it to.
THEOREM TypeCorrect == Spec => []TypeOK
<1>1. IndInv => TypeOK
    BY DEF IndInv
<1> QED BY Inductive, <1>1, PTL

\* With any number of commands in any interleaving, and over any number of
\* crashes and restarts, the doors in memory are those of config.json until
\* the file system refuses a change.
THEOREM DoorsAgree == Spec => []DoorsMatchFile
<1>1. IndInv => DoorsMatchFile
    <2> SUFFICES ASSUME IndInv, status = "up", intact, writer = NoThread
                 PROVE  file # NoText /\ doors = LoadDoors(file.doors)
        BY DEF DoorsMatchFile, Committed
    <2>1. file # NoText
        BY DEF IndInv, FileDiscipline, FileSafeBeforeRename
    <2> QED BY <2>1 DEF IndInv, TablesFollowFile, Current, Contents
<1> QED BY Inductive, <1>1, PTL

\* A user of the running server has the card and level a restart would load.
THEOREM UsersAgree == Spec => []LiveUsersOnFile
<1>1. IndInv => LiveUsersOnFile
    <2> SUFFICES ASSUME IndInv, status = "up", intact, writer = NoThread
                 PROVE  /\ file # NoText
                        /\ \A n \in Names : usersByName[n] # Absent =>
                                usersByName[n] = LoadByName(file.users)[n]
        BY DEF LiveUsersOnFile, Committed
    <2>1. file # NoText
        BY DEF IndInv, FileDiscipline, FileSafeBeforeRename
    <2> QED BY <2>1 DEF IndInv, TablesFollowFile, Current, Contents
<1> QED BY Inductive, <1>1, PTL

\* The configuration can be lost only in the window between rename and flush.
THEOREM FileSafe == Spec => []FileSafeBeforeRename
<1>1. IndInv => FileSafeBeforeRename
    BY DEF IndInv, FileDiscipline
<1> QED BY Inductive, <1>1, PTL

\* Whatever the file system refuses and whenever the process dies, the next
\* start knows no door the server did not know.
THEOREM NoDoorInvented == Spec => []RestartInventsNoDoor
<1>1. IndInv => RestartInventsNoDoor
    BY DEF IndInv, DoorsKnown
<1> QED BY Inductive, <1>1, PTL

\* A check's answer is the one the tables give when it is sent, though they are
\* read in two steps while commands run.
THEOREM DecisionsConsistent == Spec => DecisionFromOneTable
<1> DEFINE Consistent ==
        \A t \in ClientThreads :
            pc[t] = "decide" /\ pc'[t] = "unlock" =>
                LET level == doors[request[t].door]
                    user == usersByUID[request[t].uid]
                IN  /\ (reply'[t] = "Unknown Door") <=> (level = Absent)
                    /\ (reply'[t] = "Approved") <=>
                         (level # Absent /\ user # Absent /\ user.level >= level)
<1>1. IndInv /\ [Next]_vars => Consistent
    <2> SUFFICES ASSUME IndInv, [Next]_vars, NEW t \in ClientThreads,
                        pc[t] = "decide", pc'[t] = "unlock"
                 PROVE  LET level == doors[request[t].door]
                            user == usersByUID[request[t].uid]
                        IN  /\ (reply'[t] = "Unknown Door") <=> (level = Absent)
                            /\ (reply'[t] = "Approved") <=>
                                 (level # Absent /\ user # Absent /\ user.level >= level)
        OBVIOUS
    <2>1. Decide(t)
        <3> USE ThreadAssumption DEF IndInv, TypeOK, ThreadTypeOK, Threads
        <3>1. ~Boot /\ ~Crash
            BY DEF Boot, Crash, AllIdle
        <3>2. ASSUME NEW u \in CliThreads PROVE ~ReceiveCommand(u)
            BY DEF ReceiveCommand, Goto
        <3>3. ASSUME NEW u \in CliThreads PROVE ~RunCommand(u)
            BY DEF RunCommand, NewDoor, NewUser, RmUser, RmUnknownUser, WriteTmp, Rename,
                   RenameFails, Acknowledge, Close, FlushFails, Edit, Goto
        <3>4. ASSUME NEW u \in ClientThreads
              PROVE  ~ReceiveRequest(u) /\ ~FindDoor(u) /\ ~Unlock(u)
            BY DEF ReceiveRequest, FindDoor, Unlock, Goto
        <3>5. ASSUME NEW u \in ClientThreads, Decide(u) PROVE u = t
            BY <3>5 DEF Decide, Goto
        <3>6. ~UNCHANGED vars
            BY DEF vars
        <3> QED BY <3>1, <3>2, <3>3, <3>4, <3>5, <3>6 DEF Next
    <2>2. doorLevel[t] = doors[request[t].door]
        BY DEF IndInv, ChecksInProgress
    <2>3. reply'[t] = CASE doorLevel[t] = Absent -> "Unknown Door"
                        [] doorLevel[t] # Absent /\ Authorized(request[t].uid, doorLevel[t])
                              -> "Approved"
                        [] OTHER -> "Denied"
        BY <2>1 DEF Decide, IndInv, TypeOK, ThreadTypeOK
    <2> QED BY <2>2, <2>3 DEF Authorized
<1> QED BY Inductive, <1>1, PTL DEF Spec, DecisionFromOneTable
=============================================================================
