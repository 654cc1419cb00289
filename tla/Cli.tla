--------------------------------- MODULE Cli ---------------------------------
(***************************************************************************)
(* The command line of the server: which command a line is, whether its    *)
(* syntax is accepted, which name it means, what is answered, and what the  *)
(* exceptions of std::stoul and std::filesystem::rename do to the pool.    *)
(*                                                                         *)
(* An administrator uses a connection for one command, with the card after *)
(* newUser: that is the use for which module Connection shows that every   *)
(* line reaches its handler.  Handlers run one after the other under the   *)
(* lock (module AccessStore), so each is one step here; levels, cards and  *)
(* the file are left to that module.                                       *)
(***************************************************************************)
EXTENDS Names

CONSTANTS
    Admins,             \* those who connect to the CLI server
    NoNames,            \* what may be typed for a name and is none
    Numbers,            \* access levels as they may be typed
    MaxUnsignedLong,    \* the largest number std::stoul returns
    PoolSize,           \* the threads of cliServer's io_context
    NoName              \* no newUser waits for its card

ASSUME PoolAssumption == PoolSize \in Nat \ {0} /\ MaxUnsignedLong \in Nat
ASSUME NameAssumption ==
    /\ NoName \notin Seq(Characters)
    /\ NoNames \subseteq Seq(Characters) /\ \A s \in NoNames : ~AddableName(s)

NoLine == [verb |-> "none"]

VARIABLES
    words,          \* the name they all have in mind
    threads,        \* how many threads of the pool still run handlers
    session,        \* where an administrator's connection stands
    line,           \* the line it carries
    card,           \* the name whose card its next line holds
    doors, users,   \* the names in the tables
    typedDoors      \* history: doors as they were typed when they were added

tables == <<doors, users, typedDoors>>
vars == <<words, threads, session, line, card, tables>>

Spellings == {Spelled(style, words) : style \in Styles} \cup NoNames

\* The commands by the words lines begin with; "other" stands for the rest.
Lines ==
    [verb : {"newDoor", "newUser"}, name : Spellings, number : Numbers]
        \cup [verb : {"rmUser", "rmDoor"}, name : Spellings]
        \cup [verb : {"getLog", "other"}]

Init ==
    /\ words \in WordLists
    /\ threads = PoolSize
    /\ session = [a \in Admins |-> "none"]
    /\ line = [a \in Admins |-> NoLine]
    /\ card = [a \in Admins |-> NoName]
    /\ doors = {} /\ users = {} /\ typedDoors = {}

\* The accept handler needs a thread as well.
Connect(a) ==
    /\ threads > 0
    /\ session[a] = "none"
    /\ session' = [session EXCEPT ![a] = "open"]
    /\ UNCHANGED <<words, threads, line, card, tables>>

SendLine(a) ==
    /\ session[a] = "open"
    /\ \E l \in Lines : line' = [line EXCEPT ![a] = l]
    /\ session' = [session EXCEPT ![a] = "asked"]
    /\ UNCHANGED <<words, threads, card, tables>>

\* The administrator goes away, unless a line is still to be handled.
Leave(a) ==
    /\ session[a] \in {"open", "silent", "answered"}
    /\ session' = [session EXCEPT ![a] = "none"]
    /\ card' = [card EXCEPT ![a] = NoName]
    /\ UNCHANGED <<words, threads, line, tables>>

----------------------------------------------------------------------------
(* The handlers. *)

\* handleCli's chain of tests found the command of the line.
Reads(a, verb) == threads > 0 /\ session[a] = "asked" /\ line[a].verb = verb

\* The line is dealt with: the administrator has an answer, hears nothing, or
\* loses the connection.
Done(a, outcome) ==
    /\ session' = [session EXCEPT ![a] = outcome]
    /\ line' = [line EXCEPT ![a] = NoLine]

\* "Failed to ... - Incorrect CLI syntax"
WrongSyntax(a) ==
    /\ \/ /\ Reads(a, "newDoor") \/ Reads(a, "newUser")
          /\ ~AddableName(line[a].name)
       \/ /\ Reads(a, "rmUser")
          /\ ~RemovableName(line[a].name)
    /\ Done(a, "answered")
    /\ UNCHANGED <<words, threads, card, tables>>

Accepted(a, verb) == Reads(a, verb) /\ AddableName(line[a].name)

\* std::stoul throws out_of_range: the exception leaves io_context::run, which
\* ends the thread, and nothing is left that holds the connection.
NumberTooLarge(a) ==
    /\ Accepted(a, "newDoor") \/ Accepted(a, "newUser")
    /\ line[a].number > MaxUnsignedLong
    /\ threads' = threads - 1
    /\ Done(a, "none")
    /\ UNCHANGED <<words, card, tables>>

\* The end of a command that has changed the tables: the file is in place and
\* the success answered, or rename throws, which ends the thread and leaves the
\* connection to whatever else holds it.
Saved(a, otherwise) ==
    \/ Done(a, "answered") /\ UNCHANGED threads
    \/ Done(a, otherwise) /\ threads' = threads - 1

NewDoor(a) ==
    /\ Accepted(a, "newDoor")
    /\ line[a].number <= MaxUnsignedLong
    /\ doors' = doors \cup {ToSnakeCase(line[a].name)}
    /\ typedDoors' = typedDoors \cup {line[a].name}
    /\ Saved(a, "none")
    /\ UNCHANGED <<words, card, users>>

\* Mutant of NewUser: the name is kept as it was typed.
NewUserAsTyped(a) ==
    /\ Accepted(a, "newUser")
    /\ line[a].number <= MaxUnsignedLong
    /\ card' = [card EXCEPT ![a] = line[a].name]
    /\ Done(a, "silent")
    /\ UNCHANGED <<words, threads, tables>>

\* The user is added when the card arrives; until then nothing is answered.
NewUser(a) ==
    /\ Accepted(a, "newUser")
    /\ line[a].number <= MaxUnsignedLong
    /\ card' = [card EXCEPT ![a] = ToSnakeCase(line[a].name)]
    /\ Done(a, "silent")
    /\ UNCHANGED <<words, threads, tables>>

\* The reads for further commands keep the connection, whatever happens here.
StoreCard(a) ==
    /\ threads > 0
    /\ session[a] = "silent" /\ card[a] # NoName
    /\ users' = users \cup {card[a]}
    /\ card' = [card EXCEPT ![a] = NoName]
    /\ Saved(a, "silent")
    /\ UNCHANGED <<words, doors, typedDoors>>

RmUser(a) ==
    /\ Reads(a, "rmUser") /\ RemovableName(line[a].name)
    /\ ToSnakeCase(line[a].name) \in users
    /\ users' = users \ {ToSnakeCase(line[a].name)}
    /\ Saved(a, "none")
    /\ UNCHANGED <<words, card, doors, typedDoors>>

\* Returns without an answer.
RmUnknownUser(a) ==
    /\ Reads(a, "rmUser") /\ RemovableName(line[a].name)
    /\ ToSnakeCase(line[a].name) \notin users
    /\ Done(a, "silent")
    /\ UNCHANGED <<words, threads, card, tables>>

\* The log, which nothing ever writes.
GetLog(a) ==
    /\ Reads(a, "getLog")
    /\ Done(a, "answered")
    /\ UNCHANGED <<words, threads, card, tables>>

\* Mutant of UnknownCommand: the last else is forgotten.
UnknownIgnored(a) ==
    /\ Reads(a, "other") \/ Reads(a, "rmDoor")
    /\ Done(a, "silent")
    /\ UNCHANGED <<words, threads, card, tables>>

\* "Unknown Command", for rmDoor as well: it has a handler nobody calls.
UnknownCommand(a) ==
    /\ Reads(a, "other") \/ Reads(a, "rmDoor")
    /\ Done(a, "answered")
    /\ UNCHANGED <<words, threads, card, tables>>

Handle(a) ==
    \/ WrongSyntax(a) \/ NumberTooLarge(a)
    \/ NewDoor(a) \/ NewUser(a)
    \/ RmUser(a) \/ RmUnknownUser(a)
    \/ GetLog(a) \/ UnknownCommand(a)

Next ==
    \E a \in Admins :
        Connect(a) \/ SendLine(a) \/ Handle(a) \/ StoreCard(a) \/ Leave(a)

Spec == Init /\ [][Next]_vars

\* A line that arrived is handled as long as a thread runs the io_context;
\* administrators may do nothing for ever.
FairSpec == Spec /\ \A a \in Admins : WF_vars(Handle(a))

\* Mutant of FindsDoor: a client's name is normalised like an administrator's.
FindsNormalised(s) == ToSnakeCase(s) \in doors

\* A client's door is looked up by the name it sends, as it is.
FindsDoor(s) == s \in doors

----------------------------------------------------------------------------
(* Properties. *)

\* Every variable has its type; in particular all names in the tables are in
\* snake case already, so that a name typed as it is kept finds its entry.
TypeOK ==
    /\ words \in WordLists
    /\ threads \in 0 .. PoolSize
    /\ session \in [Admins -> {"none", "open", "asked", "silent", "answered"}]
    /\ line \in [Admins -> Lines \cup {NoLine}]
    /\ typedDoors \subseteq Spellings
    /\ doors \cup users \subseteq Seq(Characters)
    /\ card \in [Admins -> Seq(Characters) \cup {NoName}]
    /\ \A n \in doors \cup users \cup {card[a] : a \in Admins} :
        n # NoName => AddableName(n) /\ ToSnakeCase(n) = n

\* readme.md, "User or door names must be either snake_case or camelCase", and
\* PascalCase works "as long as the preceding letter to a surname is lower case":
\* the spellings of a name, of which the one in snake case is left as it is,
\* share one entry exactly when all of them show where its words end.  The
\* code asks it of camelCase as well, of which the readme says nothing.
SpellingsMeet ==
    typedDoors # {} =>
        (doors = {SnakeSpelling(words)}
            <=> \A style \in Styles :
                    Spelled(style, words) \in typedDoors => Separated(style, words))

\* A reader that is given its door's name as it was typed for newDoor finds the
\* door exactly if it was typed in snake case: checks do not normalise names.
FoundAsTyped == \A s \in typedDoors : FindsDoor(s) <=> ToSnakeCase(s) = s

\* Inductive: the doors are the names that were typed and accepted for them, in
\* snake case, and nothing else.
DoorsAsTyped ==
    /\ doors = {ToSnakeCase(s) : s \in typedDoors}
    /\ \A s \in typedDoors : AddableName(s)

IndInv == TypeOK /\ DoorsAsTyped

\* A line other than rmUser is answered, awaits its card, or has its connection
\* dropped, as long as the pool has a thread left; rmUser alone may be ignored.
LineServed ==
    \A a \in Admins :
        (session[a] = "asked" /\ line[a].verb # "rmUser") ~>
            \/ session[a] \in {"answered", "none"}
            \/ card[a] # NoName
            \/ threads = 0
=============================================================================
