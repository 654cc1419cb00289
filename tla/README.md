# A TLA+ model of the NFC reader server

The repository holds a server that decides which card opens which door
(`source/asioServer`) and a client for the card reader at the door
(`source/client`).  This directory models them in TLA+, checks the models with
TLC and proves their safety properties with TLAPS.

## 1. The system

### Components

| component | state | operations | modelled in |
|---|---|---|---|
| Access tables, `ReaderHandler` | `doors`, `usersByName`, `usersByUID`, guarded by `rw_mtx`; `config.json`, `config_tmp.json` | constructor (load), `newDoor`, `newUser`, `rmUser`, the check in `handleClient` | `AccessConfig`, `AccessStore`; what it promises: `AccessControl` |
| Connection, `TcpConnection` with `handleClient`, `handleCli` | the socket, the reads outstanding on it, each with its buffer | `read`, `close`, the handlers, which start the next read | `Connection` |
| Server pools, `TcpServer` and `main` | `running`, the `io_context`, the acceptor, four threads per server; `ReaderHandler::running` | `start`, `stop`, `acceptConnection`, destructors, `runLoop`, the command `shutdown` | `Lifecycle` |
| Command dispatch, syntax and names | none | the tests in `handleCli`, the regular expressions, `stoul`, `to_snake_case`, the raw look-up in `handleClient` | `Names`, `Cli` |
| Reader client, `rpi_get_uid.cpp` | socket, the card read last, the answer buffer | set-up, connect, scan, send, receive, feedback | `Reader` |
| PN532 driver, `pn532.c` (vendored) | frame buffers | `WriteFrame`, `ReadFrame`, `CallFunction` and the three calls the client makes | `Pn532`, `Reader` |
| PN532 bus, `pn532_rpi.c` (vendored) | GPIO, SPI, I2C, UART | transfers, the wait for the chip | the outcomes of the I2C calls: `Reader` |

### How they interact

`main` constructs one `ReaderHandler`.  It loads the tables, then starts two
`TcpServer`s of four threads each: the client server (port 9000) and the CLI
server (port 9001).  A connection accepted by a server gets a first read, and
from then on its handlers run on whatever thread of that server's pool is free.
Handlers of client connections look at the tables under a shared lock; handlers
of CLI connections change them, and the file, under a unique lock.  The CLI
command `shutdown` stops both servers from a thread of one of them, and `main`,
which polls a flag, stops and destroys them as well.  The client scans a card,
sends a line and waits for a line.

### What is hard

* The file is replaced by rename *before* the stream that writes it is flushed,
  and the process may end anywhere (`ReaderHandler.cpp:187-190`).
* Memory and file are two copies of the same tables with different keys: a map
  keeps the last entry of a name or card, the file keeps all.
* A check is two look-ups; a command is a read, three changes and three file
  operations.  Two servers of four threads run them at once.
* `read()` starts the same read again after a handler that has already started
  one, and `newUser` starts a third: reads of different handlers queue up on
  one socket, and a line goes to whichever is first.
* `rename` may throw and the writes' results are never looked at: tables and file
    part for good, and an exception costs the pool a thread and the connection the
  reads that its handler would have started.
* A name has several spellings, some of which meet; adding, removing and
  checking accept or normalise them differently.
* `stop` is reached by two threads at once, through a flag that is a plain
  `bool`, and joins the threads of the pool it may be running on.
* The client tests a byte after a read whether or not the read filled it, never
  connects a second time, and takes its uid from a response that only two
  checksums protect, through calls whose results are partly ignored.

What makes each component correct: the tables are those of the file whenever
nobody holds the lock, and answers come from one state of the tables
(`AccessStore`), so that threads, locks and two files amount to a server that does
one thing at a time (`AccessControl`); a name means the same entry wherever it is
typed, and lines are served (`Cli`); every line of a peer is handled once
by the right handler and no connection goes deaf (`Connection`); a server that
runs accepts, and a shutdown ends the process cleanly (`Lifecycle`); the client
sends the uid of a card that was there, shows the answer to it, and returns to
scanning (`Reader`).  PROJECT.json lists under `hazards` each place where this is
at risk and the property that covers it.

## 2. The modules

**AccessConfig** is `config.json` as a value: a record of two sequences, since
order and duplicates matter to what a restart loads (`LoadDoors`, `LoadByName`,
`LoadByUID`) and to what `rmUser` erases (`WithoutFirst`), and the three edits.

**AccessStore** is the core.  Variables `doors`, `usersByName`, `usersByUID` are
the three maps (`Absent` for a missing key), `file` and `tmp` the contents of the
two files (`NoText` for one that a restart could not parse), `writer` and
`readers` the holders of `rw_mtx`, `pc` what each thread does next, and
`configJson` the local variable of that name in each command.  A command is the
actions

    ReceiveCommand; NewDoor | NewUser | RmUser | RmUnknownUser;
    WriteTmp; Rename | RenameFails; Acknowledge; Close | FlushFails

where the second takes the unique lock, reads the file, changes the tables and
edits the copy in one step.  That step touches only what the lock protects, so
splitting it would show nothing to any other thread; what a command line says is
chosen there and not when it arrives, which spares a state per line and changes
nothing either.  `WriteTmp` leaves the dump in the file or in the stream's buffer;
`Close` is the end of scope, where the stream's destructor flushes into the
renamed file and then the lock is released (the reverse order of declaration).
`RenameFails` is the exception that leaves the handler and `io_context::run`: the
tables stay changed and the thread is `gone`.  `FlushFails` is a full disk, which
nobody notices.  `Faults` says which of the two may happen; `intact` remembers
whether one has.  A check is `ReceiveRequest; FindDoor; Decide; Unlock`.  `Crash`
and `Boot` end and start the process between any two steps.

**AccessControl** is what the server promises without any of this: one change of
the tables per command, followed by its save (`Expose`, while the saved
configuration may be unreadable, `Save`, `Lose`); one `Answer` per check, given
from the tables of one moment when no command is half done; `Stop` and `Start`.
AccessStore implements it under the mapping at its end: `pending` is the copy of
the thread that holds the lock, the step that gives the answer is `Decide`, and
`ReceiveCommand`, `WriteTmp`, `Acknowledge` and `FindDoor` are steps nobody sees.

**AccessHistory** adds to AccessStore what was acknowledged, to state what an
administrator expects over restarts.  **AccessStoreProofs** and
**AccessRefinement** hold the proofs.

**Names** is a name as a sequence of characters of five kinds, what the regular
expressions accept (`AddableName`, `RemovableName`) and `to_snake_case`
(`ToSnakeCase`).  **Cli** is `handleCli` on it: administrators connect, send a line
of any verb, spelling and number, and the handler is one action per outcome, from
`WrongSyntax` to `UnknownCommand`.  `NumberTooLarge` is `std::out_of_range` out of
`stoul`: it takes a thread of the pool and the connection with it.  `Saved` is the
end of a command that has changed the tables: an answer, or a `rename` that throws,
so that the change is live, nobody is told and a thread is gone.  Handlers are
single steps, since AccessStore shows what their interleaving amounts to, and a
connection carries one command and its card, the use for which Connection shows that
lines reach their handlers (`FirstUserGetsCard`).  A behaviour is about one name
(`words`), typed in any of the readme's styles.

**Connection** is one connection of either server.  Lines are pieces that may be cut
in two (`CutLine`), arrive together, or be sent ahead of the answers.  `reads` is
the queue of outstanding reads, `ready` the completed ones, `running` the handlers
on the threads.  `Take`, `FailRead`, `ReadMore` and `Begin` are the parts of
`async_read_until` and the lambda of `TcpConnection::read`; `Check`, `RejectPacket`,
`AwaitCard`, `Command`, `StoreCard` the handlers; `HandlerThrows` is any of them
that ends with an exception (`stoul`, `rename`), which starts no read again and
leaves the thread `Gone`; `LoseThread` is the same in a handler of another
connection of the server; and the socket closes when no read and no handler holds
the connection any more (`Held`).  `Again` is the call of `handleClient`/`handleCli`
at a handler's end; `Repeat` is `TcpConnection.h:49`.  `lockstep` and `whole`
choose, once, whether the peer waits for each line to be handled and whether its
lines arrive unbroken.

**Lifecycle** follows `main`, the pools and every caller of `TcpServer::stop`
statement by statement, since the interleaving of two callers is the point.

Each of Cli, Lifecycle, Connection and Reader ends with the inductive invariant of
its proof (`IndInv`), a conjunction of named parts, which the runs of the last three
check as well.  **CliProofs**, **LifecycleProofs**, **ConnectionProofs**,
**Pn532Proofs** and **ReaderProofs** hold the proofs, and **DataLemmas** the facts
about sets of numbers and about the ends of sequences that several of them cite.

**Pn532** is the frame codec in 8-bit arithmetic, as operators on sequences of
bytes: `Frame` is `PN532_WriteFrame`, `ReadFrame` is `PN532_ReadFrame` with its
three outcomes (data, error, and the loop that never ends at length 255), and
`ResponseTo`, `OneTarget`, `UidOf` are what the calls make of the data.  `Total`, the
sum under both checksums, is a recursive function and not a recursive operator, so
that it can be proved about.  `Noisy` disturbs at most one byte of a frame.

**Reader** extends Pn532 with the client: `WriteCommand; ReadAck` and `ReadSetup`,
`ReadScan`, `ReadNothing`, `WaitTimesOut` or `AckRefused` are the parts of
`PN532_CallFunction` and of `init_pn532` or `get_uid` around it.  A response of the
set-up goes through `PN532_ReadFrame` like that of a scan, disturbed or not, and may
hang it like that one.  `device` is whether `PN532_I2C_Init` could open the bus,
which it tells nobody, and `quiet` whether nothing disturbs it; `ConnectFails` and
`Connect` are `connect_to_server` and the loop in `main`; `Send`, the four `Receive`
actions and `Feedback` the rest of the loop.  `field` and `found` are the card in
front of the reader and the one the chip answers with.  The other end of the
connection is reduced to what the server does with the lines this client sends,
which have no colon: read one, answer, close (`ReaderHandler.cpp:97-103`).  What the
client sends after that is answered by a reset, which comes after the end of the
stream and changes nothing for `read` (`reset` is `broken`: a later write raises
SIGPIPE); only a server that dies with a line unread resets at once (`error`, which
the read reports).

Modules AccessStore, Cli, Connection, Lifecycle and Reader share no state, they
are views of the same program: Connection decides which handler a line reaches,
Cli what the line means, AccessStore what the handler does to the tables,
Lifecycle whether there is a thread to run it, and Reader what the far end does.
Composing them is in the plan.

Definitions called a *mutant* in their comment are not part of the model: each
is one definition gone wrong the way code does, and shows that a property
notices.

## 3. What the runs check

| run | module, cfg | result |
|---|---|---|
| `store_safety` | MCAccessStore, MCAccessStore.cfg | about 813 000 states, holds |
| `store_live` | MCAccessStore, MCAccessStoreLive.cfg | about 5 000 states, holds |
| `store_removed_user`, `store_lost_door` | MCAccessHistory | each violated, see below |
| `cli` | MCCli, MCCli.cfg | about 194 000 states, holds |
| `connection` | MCConnection, MCConnection.cfg | about 390 000 states, holds |
| `connection_card` | MCConnection, ConnectionCard.cfg | violated |
| `lifecycle` | Lifecycle, Lifecycle.cfg | about 127 000 states, holds |
| `lifecycle_abort`, `lifecycle_early` | Lifecycle | each violated |
| `reader` | MCReader, MCReader.cfg | about 44 500 states, holds |
| `reader_spin` | MCReader, ReaderSpin.cfg | violated |

*Holds.*  While no command is under way and the file system has refused none, the
doors in memory are those of the file, and every user in memory is the user a
restart would load, whatever duplicates the file has (`DoorsMatchFile`,
`LiveUsersOnFile`).  The file is unreadable only between a rename and the end of
that command (`FileSafeBeforeRename`).  Whatever fails, tables run ahead of the
file and never behind it: a restart brings no door that was not there before
(`RestartInventsNoDoor`).  An answer is the one the tables give when it is sent
(`DecisionFromOneTable`), and all of it together is a server that does one thing
at a time (`Implements`).  Checks are not starved and no path, and no exception,
leaves the lock held.

The spellings of a name share one entry exactly when every word but the last of
those without underscores ends in a lower case letter (`SpellingsMeet`), as the
readme says of its PascalCase exception; the code needs it of camelCase too, of
which the readme says nothing.  A client finds its door exactly if the name was
typed in snake case (`FoundAsTyped`): checks do not normalise.  While a thread of
the pool is left every line but `rmUser`'s is answered, awaits its card or has its
connection dropped, `rmDoor` of readme.md:42 by the answer "Unknown Command"
(`LineServed`); `rmUser` of an unknown user is met with silence.

A polite peer has its lines handled once and in order, and a first `newUser` gets
its card (after a `newUser`, which is not answered, such a peer is assumed to send
the card when the command was handled, which it cannot observe); the price is that
reads pile up as `ReadsPileUp` counts them, two fewer for every handler that threw.
An open connection always has a read or a handler left, and a line is handled and a
closed connection let go unless exceptions have ended every thread of the server
(`LineHandled`, `Released`).  A running server has a thread that accepts or will,
with one exception: exceptions out of handlers may end all threads of the CLI
server, which goes on listening and answers nobody (`AlwaysAccepting`).  A shutdown
after the constructor ends the process; and it aborts only when a thread of the CLI
pool stopped its own pool or two callers raced into one server's `stop`.  The uid
the client sends is that of a card present during the scan, whichever byte of the
response was disturbed, except when the read of the response itself failed, which
the driver does not notice (`UidWasPresented`); on a bus that disturbs nothing it is
the card the chip found, and no frame hangs the driver, which one disturbed byte may
do in the set-up or in a scan (`QuietBusReadsCard`).  A client without a bus scans
nothing (`NothingWithoutDevice`); what it shows for a card is the answer to that
card's line (`AnswerIsForThisCard`); it has one line under way at a time, as
Connection assumes of a polite peer; it connects to a server that comes up while it
still has descriptors, unless its set-up hangs; and an answer that is sent is read
to its end.

*Does not hold.*  Six claims of the documentation or of the program's own replies
are refuted, each by a run of its own:

1. `RemovedLeavesNoEntry`: `newUser a` with card 1, `newUser a` with card 2,
   `rmUser a`: card 1 still opens doors; and after a restart `a` is back by name,
   from the entry that `rmUser` left in the file.
2. `AckedDoorSurvives`: the process ends between the reply and the flush; the
   renamed file is empty and the next start resets it.
3. `CardIsCard`: a command before `newUser` leaves a surplus command read that
   takes the card's line.
4. `CleanShutdown`: a single `shutdown` stops and joins the client server, then
   stops its own, the CLI server, and is told to join its own thread.  The join
   throws, the thread ends unjoined; `main` finds both flags cleared, returns from
   both calls of `stop` at once and destroys the thread, which aborts.
5. `EveryShutdownEnds`: a shutdown during the constructor is undone by
   `running = true`.
6. `VerifyEnds`: the server, which stays up, answers the client's first line and
   closes the connection.  The second line can still be sent; `read` then returns 0,
   the end of the stream, again and again, and the client never leaves
   `recieve_data`.

A seventh is a theorem and no run, since it is about names of any length and not
about a behaviour: readme.md:41 and 43 add and remove the user `0gga`, but a name
has a spelling that `rmUser` accepts exactly if it has no digit (`RemovalRule`), so
that `rmUser 0gga` is answered "Incorrect CLI syntax" and such a user stays.

### Bounds, and why they are enough

`MaxUserEntries` and `MaxDoorEntries` keep commands from growing the file past 2
users and 2 doors, on top of which a file edited by hand may start with three users
and two doors: three entries over two names and two cards give every way in which
entries shadow each other by name, by card or by both, with one to erase before,
between and after.  Two CLI threads and one client thread are all pairs
of threads that can meet at the lock (writer and writer, writer and reader); the
liveness run has two of each.  `LevelModulus` is 2 rather than 256, so that the
typed level 2 wraps.  `MaxLines` is 3: a line, a card and one more for the read
that is left over; there is no more than one way to get a surplus read per line.
Pools of two threads (`ThreadCount`; the code uses 4) let one thread stop the
pool while the other is joined.  Cli has one
administrator, since handlers are single steps and what two do to the tables one
does in turn, a pool of two that two large numbers empty, something that is no name,
and all names of up to three words of up to two letters and digits (`MaxWords`,
`MaxWordLength`), enough for a word before, between and after others that ends in
either.  The client's bytes have
four bits (`Modulus` 16), so that every value of every byte of every response can
be tried; its two uids differ in length and share a
prefix, so that reading one for the other takes no more than a changed length
and a lost byte.  `BufferSize` is 4 rather than 256: an answer with its newline
fits with room to spare, as in the code.  `MaxSockets` 3 lets two attempts fail
before one succeeds, or all three fail.
States that differ by a permutation of names, of
cards or of CLI threads are identified in `store_safety`, which has no liveness.
`CHECK_DEADLOCK FALSE` stands where the system may really stop: a closed
connection, an exited process, a pool without a thread, a client without a socket
left.

### Fairness

A thread that can take a step takes one eventually (weak fairness of the steps of
commands, checks, handlers, `stop`, `main`, the client, and of the server's end in
`Reader`; the client's calls of the driver end by their timeouts).  Nothing is
assumed to arrive: requests, commands, connections, cards and crashes are never
fair.  `FindDoor` alone is strongly fair: it waits for `rw_mtx`, a
`std::shared_mutex`, which in the system's library is a `pthread_rwlock_t` of the
default kind, and that one lets waiting readers in when a writer leaves.  Writers
have no such promise, so a command is only claimed to end when nobody else holds
the lock from some time on (`CommandEndsWhenAlone`); the model does have
behaviours where checks overtake a command for ever.

## 4. What is proved

The theorems hold for every value of the constants.  What is assumed of these is
named in the modules that declare them, and TLC evaluates it on the instances.

### Tables and file (AccessStoreProofs, AccessRefinement)

For every choice of names, cards, doors, levels, threads, initial files and
faults, assuming a positive modulus, distinct sentinels, disjoint pools and initial
files that are configurations or unreadable:

* `Inductive`: `Spec => []IndInv`
* `TypeCorrect`, `DoorsAgree`, `UsersAgree`, `FileSafe`, `NoDoorInvented`: the five
  invariants
* `DecisionsConsistent`: the action property `DecisionFromOneTable`
* `Implementation` (AccessRefinement): `Spec => Implements`, the refinement

None of the invariants is inductive alone.  That tables and file agree *when the
lock is free* depends on the writer's private copy while it is held, so `IndInv`
says that, until the file system refuses something, the tables follow `Current`,
which is the file or, while a command runs, the copy it is going to leave there
(`TablesFollowFile`).  This needs that only the thread at a writing step holds the
lock and excludes all others (`LockDiscipline`), and that what was written and
renamed is that copy or nothing (`FileDiscipline`).  That a restart invents no
door outlives the faults: the copy under way holds no door the tables do not know
either (`DoorsKnown`), since a command adds to the tables before it writes.  For
users the file may hold entries of names that were removed: the invariant is
one-way, a live name's entry is the *last* one of that name, and the step that
needs an argument is `rmUser` on another name, which must leave the last entry of
every remaining name last: `RemovedEntry` and `UserKept` prove that dropping
position *i* maps last entries to last entries. `DecisionFromOneTable` follows
from the invariant because a reader keeps writers out between its two look-ups
(`ChecksInProgress`).  The refinement has one lemma per action (`NewDoorMaps`,
`RenameMaps`, `DecideMaps` and so on): each uses the part of the invariant that
makes it look atomic, `LockDiscipline` for a command's `pending` copy to be its
own and for no command to be pending when `Decide` answers, `FileDiscipline` for a
rename to expose the pending copy or nothing, and `ChecksInProgress` for the
verdict to be that of the tables now.  The lemmas on sequences (`LastExists`,
`LastEntryIsEntry`, `LastEntryUnique`, `AppendedEntry`, `FirstExists`,
`RemovedEntry`) are stated over arbitrary sequences of records.

### Pools and process life (LifecycleProofs)

For pools of any size (`CountAssumption`: at least one thread, and no more than the
limit of `setThreadCount`): `Inductive`, `TypeCorrect`, `ExitsClean`,
`AbortsBySelfStop`, `Accepts`.  The last needs that a thread of the client pool ends
only after somebody stopped that server (`Ending`, inductive given `IndInv`): no
handler of it throws.

That the process exits with every thread joined is not visible in `main` alone: a
thread may have been joined by another caller of `stop`, or be left by one that the
flag turned away.  `IndInv` follows every call: who may be in one and what `main`
does meanwhile (`Callers`), that a server is stopped by exactly those who found it
running (`Stopping`), how far the loop over the threads is (`Looping`), that
whoever stopped a server *alone* has joined all it is past and goes on to the end
(`Joining`), and that the last join is followed by closing the acceptor
(`Closing`).  For the exit, once all threads of both pools were joined nobody is in
a call of `stop` any more and both acceptors are closed (`AllOver`).  For an abort,
a caller that alone stopped a server finds every thread it has to join still
joinable, unless that is itself (`RefusedShared`), so that a refused join comes from
two callers in one server's `stop`, or from a thread of the CLI pool in its own
(`TwoStoppers`, `OneStopper`).

### One connection (ConnectionProofs)

For any finite pool and any number of lines (`ThreadsAssumption`, `IdleAssumption`,
`MaxLinesAssumption`; the model's bound `MaxLines` may be any number): `Inductive`,
`TypeCorrect`, `InOrder`, `FirstCard`, `PilesUp`.

`HandledInOrder` for a peer that waits rests on there being one line under way at a
time, wherever it is: on the wire, in a completed read, or in a handler
(`OneUnderWay`).  That the first `newUser` gets its card needs to know which read
is first in the queue when the line arrives, before the first command
(`FirstRead`) and between it and the card (`CardAwaited`).  How many reads a
connection at rest has outstanding is counted through every intermediate state
(`ReadsOwed`): a read that was taken is started again by the thread that has it, a
handler that will call itself owes another, and one that throws takes both with it.
That a connection that is open still has somebody to hold it is `OpenWhileHeld`.

### Frames and the client (Pn532Proofs, ReaderProofs)

For a byte of any width, any payload of up to 254 bytes (the width of a byte less
two; `PN532_WriteFrame` accepts one of 255 as well, whose frame `PN532_ReadFrame`
never gets to the end of) and any cards
(`ByteAssumption`: the command codes and a response with the longest uid fit;
`ReaderAssumption`: cards are sequences of bytes no longer than that, the buffer
has at least two bytes):

* `RoundTrip`: `ReadFrame(Frame(data))` is `data`
* `DisturbanceFound`: with any one byte of the response, or of the chip's error
  frame, changed to any value, a scan that ends with a uid ends with the uid of the
  card that was found
* `Inductive`, `TypeCorrect`, `Presented`, `RightAnswer`, `OneLine`, `NoDevice`: the
  client's invariants, for any outcome of the set-up, the endless loop included
* `QuietScan`: the action property `QuietBusReadsCard`

A checksum is a total modulo the width of a byte.  Changing one element changes the
total by less than the width (`TotalChange`), and two totals that both vanish and
are that close are equal (`SameRemainder`); so a change in the data is noticed
(`DataSurvives`).  A change in the head may move the start of the frame, and every
place it can move to fails a test (`HeadSurvives`).  TLC tries this for two cards
and bytes of four bits; the proof covers the eight of the code.

The client's invariant says where a card, its line and its answer are: the card was
seen during the call (`CardsSeen`), nothing is exchanged before the set-up or
without a bus (`SetupFirst`, `SetupFails`), an open connection carries one line or
the server has it (`Exchange`), what comes back is this card's answer from its first
byte on (`AnswerReceived`), and a reset that a read reports meets a client that has
received nothing (`ResetAwaited`).  `OneLineAtATime` is what Connection assumes of a
polite peer: the two proofs fit together there.

### Names and command lines (CliProofs)

For any administrators, pool, numbers and names, and words of any number and length
(`PoolAssumption`; `NameAssumption`: what is typed and is no name has a character no
name may have, or none at all; `WordAssumption`): `SpellingRule`, `Inductive`,
`TypeCorrect`, `Meet`, `Found`, and `RemovalRule`, on which users can be removed.

`to_snake_case` goes over a name once: appending a character appends what becomes
of it, which depends on the character before alone (`SnakeAppend`).  So what has no
capitals is left as it is, whatever it follows (`SnakeLower`), hence a second
application changes nothing (`SnakeIdempotent`); digits are neither lost nor gained
(`SnakeDigits`), and what the expressions accept they accept in snake case as well
(`SnakeAddable`).  For `SpellingRule`, the readme's rule on PascalCase, the words are
added one at a time: a capitalised word adds as much to the converted name as to its
spelling in snake case, or an underscore less if the word before it does not show
its end (`WordAdds`), and nothing that follows makes up for one that is missing, since
the converted name is never the longer one (`CapitalsMeet`).  The inductive
invariant adds to the types that the doors are the converted names that were typed
and accepted, no more and no fewer (`DoorsAsTyped`); the invariants then follow from
the lemmas.  Letters are one in either case, as in the model.

### How far the proofs go

What the library proves by induction over a predicate the provers here cannot
instantiate; where an induction is needed (totals, last entries) the proofs take
the smallest counterexample instead (`SmallestExists` in DataLemmas).

Only model-checked: liveness (`CheckAnswered`, `CommandEndsWhenAlone`, `LineHandled`,
`Released`, `ShutdownEnds`, `LineServed`, `ConnectsWhileSocketsLast`,
`AnsweredWhileServed`), which is out of the prover's reach.

## 5. What is not modelled

* The body of `rmDoor`: nothing calls it.
* In Cli, more than one command on a connection (Connection has that), levels and
  cards (AccessStore has those), and spaces: the expressions take one or more.
* A `config.json` edited while the server runs, one that is JSON of another shape
  (its exceptions are not caught), entries with missing fields or with levels
  outside `uint8_t` (a hand-edited file may have them).
* `config_tmp.json` left by a crash: it is truncated before it is used, so `Crash`
  forgets it.
* Writes to sockets: an answer is taken to be sent in the handler's step.  A peer
  that awaits each answer never has two of them under way; one that sends ahead
  may have two handlers writing at once, and nothing is claimed for it.
* `ReaderHandler::state`, which is written and never read.
* The vector of threads growing under a concurrent `stop` in the constructor, and
  use of the tables by handlers while the process is being torn down.
* In the client: an answer the server wrote is taken to arrive before the end of
  the connection; the words it compares answers with (`Godkendt`, `Afvist`, which
  this server never sends) select a message and nothing else.
* In the driver: more than one disturbed byte in a response, a response longer
  than what is read, the byte past the end that the search for the start code may
  compare, and the commands for authentication, blocks and GPIO, which nothing in
  the repository calls.
* The SPI and UART transports, which the client does not choose, the pins, bytes
  and delays of the I2C one, the build files, the diagrams, and
  `rpi_read_uid.cpp`, which reads a file and drops it.

## 6. Plan

Done: the four components of the core and their runs; the file system's faults;
the abstract specification with its refinement, checked and proved; names and
command lines; a bus that may not open or that disturbs nothing; handlers that
throw; and a proof of every invariant the passing runs check.  Left:

1. `EndToEnd`: a client connection composed with the tables through AccessControl
   rather than AccessStore: the answer on the wire belongs to the card that was
   sent.
2. Writes of a connection as a queue, for a peer that sends ahead.

New questions about an existing component are added as properties of its run, so
that the number of runs stays small.
