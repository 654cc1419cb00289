---------------------------- MODULE AccessConfig ----------------------------
(***************************************************************************)
(* config.json as the server reads and edits it: a list of users and a     *)
(* list of doors, where order and duplicates matter.  Both the abstract    *)
(* and the detailed specification of the server are built on it.           *)
(***************************************************************************)
EXTENDS Integers, Sequences

CONSTANTS
    Names,          \* user names, in snake_case
    Uids,           \* what a card reader reports
    Doors,          \* door names
    TypedLevels,    \* access levels as an administrator types them
    LevelModulus,   \* 2^8: an accessLevel is kept in a uint8_t
    Absent,         \* no such key in a table
    NoText,         \* a file that is missing, empty or not JSON
    InitialFiles,   \* what config.json may hold before the first start
    Faults          \* what the file system may refuse: "write", "rename"

Levels == 0 .. LevelModulus - 1
Users == [name : Names, uid : Uids, level : Levels]
DoorEntries == [name : Doors, level : Levels]
Configs == [users : Seq(Users), doors : Seq(DoorEntries)]

ASSUME LevelAssumption ==
    LevelModulus \in Nat \ {0} /\ TypedLevels \subseteq Nat
ASSUME SentinelAssumption ==
    /\ Absent \notin Levels /\ Absent \notin Doors
    /\ Absent \notin [uid : Uids, level : Levels]
    /\ Absent \notin [name : Names, level : Levels]
    /\ NoText \notin Configs
ASSUME FileAssumption == InitialFiles \subseteq Configs \cup {NoText}
ASSUME FaultAssumption == Faults \subseteq {"write", "rename"}

EmptyConfig == [users |-> <<>>, doors |-> <<>>]

\* What a command reads: a file it cannot read counts as an empty one.
Contents(f) == IF f = NoText THEN EmptyConfig ELSE f

\* What a start leaves behind: an unreadable file is replaced by an empty
\* configuration, if the file system takes it.
Repaired(f) == {Contents(f)} \cup (IF "write" \in Faults THEN {f} ELSE {})

\* Is position i of s the last whose field key is k?  The constructor walks
\* the file from its start and every entry overwrites the one before it.
IsLast(s, key, k, i) ==
    /\ s[i][key] = k
    /\ \A j \in DOMAIN s : s[j][key] = k => j <= i

HasEntry(s, key, k) == \E i \in DOMAIN s : s[i][key] = k
LastEntry(s, key, k) == s[CHOOSE i \in DOMAIN s : IsLast(s, key, k, i)]

LoadDoors(s) ==
    [d \in Doors |->
        IF HasEntry(s, "name", d) THEN LastEntry(s, "name", d).level ELSE Absent]

LoadByName(s) ==
    [n \in Names |->
        IF HasEntry(s, "name", n)
        THEN [uid |-> LastEntry(s, "name", n).uid,
              level |-> LastEntry(s, "name", n).level]
        ELSE Absent]

LoadByUID(s) ==
    [u \in Uids |->
        IF HasEntry(s, "uid", u)
        THEN [name |-> LastEntry(s, "uid", u).name,
              level |-> LastEntry(s, "uid", u).level]
        ELSE Absent]

\* Mutant of StoredLevel: the number is kept as it was typed.
WideLevel(l) == l

\* uint8_t accessLevel = std::stoul(...)
StoredLevel(l) == l % LevelModulus

\* Mutant of WithoutFirst: the entry behind the one that was found goes.
WithoutNext(s, n) ==
    LET first == CHOOSE i \in DOMAIN s :
                    s[i].name = n /\ \A j \in 1 .. i - 1 : s[j].name # n
    IN  IF HasEntry(s, "name", n)
        THEN [i \in 1 .. Len(s) - 1 |-> IF i <= first THEN s[i] ELSE s[i + 1]]
        ELSE s

\* The first entry of that name goes, the others stay.
WithoutFirst(s, n) ==
    LET first == CHOOSE i \in DOMAIN s :
                    s[i].name = n /\ \A j \in 1 .. i - 1 : s[j].name # n
    IN  IF HasEntry(s, "name", n)
        THEN [i \in 1 .. Len(s) - 1 |-> IF i < first THEN s[i] ELSE s[i + 1]]
        ELSE s

----------------------------------------------------------------------------
(* The three edits a command makes to its copy of the file. *)

AddedDoor(c, d, typed) ==
    [users |-> c.users,
     doors |-> Append(c.doors, [name |-> d, level |-> StoredLevel(typed)])]

AddedUser(c, n, u, typed) ==
    [users |-> Append(c.users, [name |-> n, uid |-> u, level |-> StoredLevel(typed)]),
     doors |-> c.doors]

RemovedUser(c, n) == [users |-> WithoutFirst(c.users, n), doors |-> c.doors]

\* A table without any key.
EmptyTable(keys) == [k \in keys |-> Absent]
=============================================================================
