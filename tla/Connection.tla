----------------------------- MODULE Connection -----------------------------
(***************************************************************************)
(* One TCP connection of either server: TcpConnection::read and the        *)
(* handlers that ReaderHandler hangs on it.                                *)
(*                                                                         *)
(* read() starts an async_read_until with a buffer of its own.  The reads  *)
(* outstanding on a socket are served first come, first served: the oldest *)
(* takes what has arrived.  One that has no newline in its buffer goes to  *)
(* the back of the queue; one that does hands the first line to its        *)
(* handler, on some thread of the pool, and what follows the newline is    *)
(* dropped with the buffer.  The handler starts a read of its own and      *)
(* read() starts the same read again after it.  One that throws does        *)
(* neither, and takes its thread out of the pool.                          *)
(*                                                                         *)
(* A line is reduced to what its handler does with it, the tables are in   *)
(* AccessStore, and "shutdown" is in Lifecycle.                            *)
(***************************************************************************)
EXTENDS Naturals, Sequences, FiniteSets

CONSTANTS
    Threads,        \* the threads of the server's io_context
    Idle,           \* a thread between two handlers
    Gone,           \* a thread whose io_context::run ended with an exception
    MaxLines        \* bound: how many lines the peer sends

ASSUME MaxLinesAssumption == MaxLines \in Nat
ASSUME ThreadsAssumption == IsFiniteSet(Threads)

VARIABLES
    server,         \* which server accepted the connection
    lockstep,       \* does the peer await each line's handling before the next?
    whole,          \* does every line arrive in one piece?
    lines,          \* what the peer has sent so far
    wire,           \* pieces of lines that were sent and not read
    peerOpen,       \* the peer has not closed its end
    open,           \* the socket is open on this side
    reads,          \* outstanding reads, oldest first
    ready,          \* reads that took something, until a thread takes them up
    running,        \* the handler each thread runs
    log             \* which handler was given what, in the order they began,
                    \* and whether it threw

peerVars == <<server, lockstep, whole, lines, peerOpen>>
chainVars == <<reads, ready, running>>
vars == <<peerVars, wire, open, chainVars, log>>

\* Of the lines a client sends, "bad" has no usable colon.  Of those an
\* administrator types, a well-formed "newUser" is to be followed by a "card".
Kinds == {"check", "bad", "newUser", "card", "command"}
NextKinds ==
    CASE server = "client" -> {"check", "bad"}
      [] server = "cli" /\ lines # <<>> /\ lines[Len(lines)] = "newUser" -> {"card"}
      [] OTHER -> {"newUser", "command"}

Handlers == {"client", "cli", "uid"}
Pieces == [line : 1 .. MaxLines, start : BOOLEAN, end : BOOLEAN]
Entries == [handler : Handlers, got : Seq(Pieces), threw : BOOLEAN]
Reads == [handler : Handlers, got : Seq(Pieces)]
Runs == [handler : Handlers, got : Seq(Pieces), step : {"handle", "again", "repeat"}]

ASSUME IdleAssumption == Idle \notin Runs /\ Gone \notin Runs /\ Gone # Idle

\* The threads that run a handler, and those at one of its steps.
Busy == {t \in Threads : running[t] \notin {Idle, Gone}}
AtStep(step) == {t \in Busy : running[t].step = step}

\* Nobody is left to run the server's handlers.
Abandoned == \A t \in Threads : running[t] = Gone

----------------------------------------------------------------------------
(* The peer and the network. *)

\* read(): a read for that handler, with an empty buffer, joins the queue.
StartRead(queue, h) == Append(queue, [handler |-> h, got |-> <<>>])

Init ==
    /\ server \in {"client", "cli"}
    /\ lockstep \in BOOLEAN
    /\ whole \in BOOLEAN
    /\ lines = <<>>
    /\ wire = <<>>
    /\ peerOpen = TRUE
    /\ open = TRUE
    /\ reads = StartRead(<<>>, server)
    /\ ready = <<>>
    /\ running = [t \in Threads |-> Idle]
    /\ log = <<>>

WholeLine(i) == <<[line |-> i, start |-> TRUE, end |-> TRUE]>>
CutLine(i) == <<[line |-> i, start |-> TRUE, end |-> FALSE],
                [line |-> i, start |-> FALSE, end |-> TRUE]>>

Send ==
    /\ peerOpen
    /\ open
    /\ Len(lines) < MaxLines
    /\ lockstep => Len(log) = Len(lines)
    /\ \E kind \in NextKinds : lines' = Append(lines, kind)
    /\ \/ wire' = wire \o WholeLine(Len(lines'))
       \/ ~whole /\ wire' = wire \o CutLine(Len(lines'))
    /\ UNCHANGED <<server, lockstep, whole, peerOpen, open, chainVars, log>>

PeerClose ==
    /\ peerOpen
    /\ peerOpen' = FALSE
    /\ UNCHANGED <<server, lockstep, whole, lines, wire, open, chainVars, log>>

----------------------------------------------------------------------------
(* The reads. *)

HasLine(got) == \E i \in DOMAIN got : got[i].end

\* getline: the buffer up to the first newline.
FirstLine(got) ==
    SubSeq(got, 1, CHOOSE i \in DOMAIN got :
                        got[i].end /\ \A j \in 1 .. i - 1 : ~got[j].end)

\* The oldest read takes some or all of what has arrived.
Take ==
    /\ open /\ ~Abandoned
    /\ reads # <<>>
    /\ \E n \in 1 .. Len(wire) :
        /\ ready' = Append(ready, [Head(reads) EXCEPT !.got = @ \o SubSeq(wire, 1, n)])
        /\ wire' = SubSeq(wire, n + 1, Len(wire))
    /\ reads' = Tail(reads)
    /\ UNCHANGED <<peerVars, open, running, log>>

\* Reads and handlers hold the connection.  When none does any more it is
\* destroyed, and its destructor closes the socket.
Held(queue, taken, busy) == queue # <<>> \/ taken # <<>> \/ busy # {}

\* Mutant of FailRead: a read that fails is started again.
RetryRead ==
    /\ reads # <<>> /\ ~Abandoned
    /\ ~open \/ (~peerOpen /\ wire = <<>>)
    /\ reads' = Append(Tail(reads), Head(reads))
    /\ UNCHANGED <<peerVars, wire, open, ready, running, log>>

\* End of file, or the socket was closed here: the handler is not called and
\* the read is not started again.
FailRead ==
    /\ reads # <<>> /\ ~Abandoned
    /\ ~open \/ (~peerOpen /\ wire = <<>>)
    /\ reads' = Tail(reads)
    /\ open' = (open /\ Held(reads', ready, Busy))
    /\ UNCHANGED <<peerVars, wire, ready, running, log>>

\* No newline yet: the read waits for more behind all the others.
ReadMore(t) ==
    /\ running[t] = Idle
    /\ ready # <<>>
    /\ ~HasLine(Head(ready).got)
    /\ reads' = Append(reads, Head(ready))
    /\ ready' = Tail(ready)
    /\ UNCHANGED <<peerVars, wire, open, running, log>>

\* Mutant of Begin: the handler is given all that was read.
BeginBuffer(t) ==
    /\ running[t] = Idle
    /\ ready # <<>>
    /\ HasLine(Head(ready).got)
    /\ running' = [running EXCEPT ![t] =
                    [handler |-> Head(ready).handler,
                     got |-> Head(ready).got,
                     step |-> "handle"]]
    /\ ready' = Tail(ready)
    /\ UNCHANGED <<peerVars, wire, open, reads, log>>

Begin(t) ==
    /\ running[t] = Idle
    /\ ready # <<>>
    /\ HasLine(Head(ready).got)
    /\ running' = [running EXCEPT ![t] =
                    [handler |-> Head(ready).handler,
                     got |-> FirstLine(Head(ready).got),
                     step |-> "handle"]]
    /\ ready' = Tail(ready)
    /\ UNCHANGED <<peerVars, wire, open, reads, log>>

----------------------------------------------------------------------------
(* The handlers. *)

Intact(got) ==
    \/ \E i \in 1 .. MaxLines : got = WholeLine(i)
    \/ \E i \in 1 .. MaxLines : got = CutLine(i)

\* Pieces of lines that were never one line may read as anything.
Meanings(got) == IF Intact(got) THEN {lines[got[1].line]} ELSE Kinds

Goto(t, step) == running' = [running EXCEPT ![t].step = step]

Handling(t, handler, threw) ==
    /\ t \in AtStep("handle")
    /\ running[t].handler = handler
    /\ log' = Append(log, [handler |-> handler, got |-> running[t].got, threw |-> threw])

\* "Approved", "Denied" or "Unknown Door" is written; then handleClient again.
Check(t) ==
    /\ Handling(t, "client", FALSE)
    /\ \E kind \in Meanings(running[t].got) : kind # "bad"
    /\ Goto(t, "again")
    /\ UNCHANGED <<peerVars, wire, open, reads, ready>>

\* "Invalid Client Package Syntax - Connection Closed", close(), return.
RejectPacket(t) ==
    /\ Handling(t, "client", FALSE)
    /\ "bad" \in Meanings(running[t].got)
    /\ open' = FALSE
    /\ Goto(t, "repeat")
    /\ UNCHANGED <<peerVars, wire, reads, ready>>

\* Mutant of AwaitCard: the next command is read for before the card is.
AwaitCardLast(t) ==
    /\ Handling(t, "cli", FALSE)
    /\ "newUser" \in Meanings(running[t].got)
    /\ reads' = StartRead(StartRead(reads, "cli"), "uid")
    /\ Goto(t, "repeat")
    /\ UNCHANGED <<peerVars, wire, open, ready>>

\* Mutant of AwaitCard: the handler blocks until a card comes, and has not
\* started the read that would bring it.
BlockForCard(t) ==
    /\ Handling(t, "cli", FALSE)
    /\ "newUser" \in Meanings(running[t].got)
    /\ Goto(t, "blocked")
    /\ UNCHANGED <<peerVars, wire, open, reads, ready>>

\* newUser leaves a read for the card's uid; then handleCli again.
AwaitCard(t) ==
    /\ Handling(t, "cli", FALSE)
    /\ "newUser" \in Meanings(running[t].got)
    /\ reads' = StartRead(reads, "uid")
    /\ Goto(t, "again")
    /\ UNCHANGED <<peerVars, wire, open, ready>>

\* Every other line is executed or answered at once; then handleCli again.
Command(t) ==
    /\ Handling(t, "cli", FALSE)
    /\ \E kind \in Meanings(running[t].got) : kind # "newUser"
    /\ Goto(t, "again")
    /\ UNCHANGED <<peerVars, wire, open, reads, ready>>

\* The line is stored as the uid of newUser's user, whatever it says.
StoreCard(t) ==
    /\ Handling(t, "uid", FALSE)
    /\ Goto(t, "repeat")
    /\ UNCHANGED <<peerVars, wire, open, reads, ready>>

\* A handler throws: newDoor and newUser on a level too large for stoul, and each
\* that stores its change when the file cannot be renamed.  Nothing is written,
\* no read is started again, and the thread leaves the pool.
HandlerThrows(t) ==
    /\ \/ Handling(t, "cli", TRUE) /\ \E kind \in Meanings(running[t].got) : kind # "card"
       \/ Handling(t, "uid", TRUE)
    /\ running' = [running EXCEPT ![t] = Gone]
    /\ open' = (open /\ Held(reads, ready, Busy \ {t}))
    /\ UNCHANGED <<peerVars, wire, reads, ready>>

\* The handler of another connection of the server throws.
LoseThread(t) ==
    /\ server = "cli"
    /\ running[t] = Idle
    /\ running' = [running EXCEPT ![t] = Gone]
    /\ UNCHANGED <<peerVars, wire, open, reads, ready, log>>

\* Mutant of Again: it is left to read() to start the next read.
NotAgain(t) ==
    /\ t \in AtStep("again")
    /\ Goto(t, "repeat")
    /\ UNCHANGED <<peerVars, wire, open, reads, ready, log>>

\* handleClient(connection) or handleCli(connection) at the handler's end.
Again(t) ==
    /\ t \in AtStep("again")
    /\ reads' = StartRead(reads, running[t].handler)
    /\ Goto(t, "repeat")
    /\ UNCHANGED <<peerVars, wire, open, ready, log>>

\* Mutant of Repeat: the next read inherits the buffer, line and all.
RepeatSameBuffer(t) ==
    /\ t \in AtStep("repeat")
    /\ reads' = Append(reads, [handler |-> running[t].handler, got |-> running[t].got])
    /\ running' = [running EXCEPT ![t] = Idle]
    /\ UNCHANGED <<peerVars, wire, open, ready, log>>

\* read<Rx>(handler) after the handler has returned.
Repeat(t) ==
    /\ t \in AtStep("repeat")
    /\ reads' = StartRead(reads, running[t].handler)
    /\ running' = [running EXCEPT ![t] = Idle]
    /\ UNCHANGED <<peerVars, wire, open, ready, log>>

Run(t) ==
    \/ ReadMore(t) \/ Begin(t)
    \/ Check(t) \/ RejectPacket(t)
    \/ AwaitCard(t) \/ Command(t) \/ StoreCard(t) \/ HandlerThrows(t)
    \/ Again(t) \/ Repeat(t)

Next ==
    \/ Send
    \/ PeerClose
    \/ Take
    \/ FailRead
    \/ \E t \in Threads : Run(t) \/ LoseThread(t)

Spec == Init /\ [][Next]_vars

\* What has arrived is delivered, a read that fails is told so, and a thread of
\* the pool that has work does it.  The peer owes nothing.
FairSpec ==
    /\ Spec
    /\ WF_vars(Take)
    /\ WF_vars(FailRead)
    /\ \A t \in Threads : WF_vars(Run(t))

----------------------------------------------------------------------------
(* Properties. *)

\* Every variable has its type; what an outstanding read holds is no line yet.
TypeOK ==
    /\ server \in {"client", "cli"}
    /\ {lockstep, whole, peerOpen, open} \subseteq BOOLEAN
    /\ lines \in Seq(Kinds) /\ Len(lines) <= MaxLines
    /\ wire \in Seq(Pieces)
    /\ reads \in Seq(Reads) /\ \A i \in DOMAIN reads : ~HasLine(reads[i].got)
    /\ ready \in Seq(Reads)
    /\ running \in [Threads -> Runs \cup {Idle, Gone}]
    /\ log \in Seq(Entries)

Polite == lockstep /\ whole

Quiet == ready = <<>> /\ Busy = {}

\* A peer that waits for each answer, and whose lines arrive whole, has every
\* line handled once and in order, though a line left several reads to take it.
HandledInOrder ==
    Polite => \A i \in DOMAIN log : log[i].got = WholeLine(i)

\* A user added by the first command of a connection gets the card of the
\* second line: the read newUser starts is ahead of the ones started after it.
FirstUserGetsCard ==
    Polite /\ Len(log) >= 2 /\ lines[1] = "newUser" => log[2].handler = "uid"

\* The lines that were stored as cards, those that asked for one, and those whose
\* handler threw.
Users == {i \in DOMAIN log : log[i].handler = "uid" /\ ~log[i].threw}
Added == {i \in DOMAIN log :
            /\ log[i].handler = "cli" /\ ~log[i].threw
            /\ lines[log[i].got[1].line] = "newUser"}
Thrown == {i \in DOMAIN log : log[i].threw}

\* When no handler runs there is a read outstanding for every line the handlers
\* of the server took, one more for every newUser, and the first, while a handler
\* that threw has cost two: the reads pile up, and a connection that is open is
\* never deaf.
ReadsPileUp ==
    whole /\ Quiet /\ open /\ peerOpen =>
        /\ reads # <<>>
        /\ Len(reads) + Cardinality(Users) + 2 * Cardinality(Thrown)
                = 1 + Len(log) + Cardinality(Added)

----------------------------------------------------------------------------
(* The inductive invariant. *)

\* A connection has the handlers of its server, and only an administrator types
\* "newUser".
OwnHandlers ==
    LET own == IF server = "client" THEN {"client"} ELSE {"cli", "uid"}
    IN  /\ \A i \in DOMAIN reads : reads[i].handler \in own
        /\ \A i \in DOMAIN ready : ready[i].handler \in own
        /\ \A t \in Busy : running[t].handler \in own
        /\ \A i \in DOMAIN lines : lines[i] = "newUser" => server = "cli"

\* A connection that is open is held by a read or a handler, and an administrator's
\* stays open as long as it is.
OpenWhileHeld ==
    /\ open => Held(reads, ready, Busy)
    /\ server = "cli" /\ Held(reads, ready, Busy) => open

\* Lines that arrive in one piece reach the handlers as one piece, and no
\* outstanding read holds a part of one.
Sent(got) == \E i \in 1 .. Len(lines) : got = WholeLine(i)

Unbroken(s) == \A i \in DOMAIN s : Sent(<<s[i]>>)

WholeLines ==
    whole =>
        /\ Unbroken(wire)
        /\ \A i \in DOMAIN reads : reads[i].got = <<>>
        /\ \A i \in DOMAIN ready : ready[i].got # <<>> /\ Unbroken(ready[i].got)
        /\ \A t \in Busy : Sent(running[t].got)
        /\ \A i \in DOMAIN log : Sent(log[i].got)

\* A polite peer has at most its last line under way: on the wire, taken by a
\* read, or given to a handler.
NoneUnderWay == wire = <<>> /\ ready = <<>> /\ AtStep("handle") = {}

OnWire(got) == wire = got /\ ready = <<>> /\ AtStep("handle") = {}

Taken(got) ==
    /\ wire = <<>> /\ AtStep("handle") = {}
    /\ Len(ready) = 1 /\ ready[1].got = got

InHandler(got) ==
    /\ wire = <<>> /\ ready = <<>>
    /\ \E t \in Busy : AtStep("handle") = {t} /\ running[t].got = got

OneUnderWay ==
    Polite =>
        \/ Len(lines) = Len(log) /\ NoneUnderWay
        \/ /\ Len(lines) = Len(log) + 1
           /\ LET last == WholeLine(Len(lines))
              IN  OnWire(last) \/ Taken(last) \/ InHandler(last)

\* Until the first line is handled there is no other read than the first one.
FirstRead ==
    Polite /\ log = <<>> =>
        /\ Busy = AtStep("handle")
        /\ Len(reads) <= 1 /\ (lines # <<>> /\ wire = <<>> => reads = <<>>)
        /\ \A i \in DOMAIN reads : reads[i].handler = server
        /\ \A i \in DOMAIN ready : ready[i].handler = server
        /\ \A t \in Busy : running[t].handler = server

\* The card of a first newUser is waited for by the oldest read, until the peer
\* closes, and then taken by that read and given to its handler.
CardAwaited ==
    Polite /\ Len(log) = 1 /\ lines[1] = "newUser" =>
        /\ wire # <<>> \/ (Len(lines) = 1 /\ peerOpen /\ open) =>
                reads # <<>> /\ Head(reads).handler = "uid"
        /\ \A i \in DOMAIN ready : ready[i].handler = "uid"
        /\ \A t \in AtStep("handle") : running[t].handler = "uid"

\* As ReadsPileUp, at any time: a read that was taken is in ready or with a busy
\* thread, which starts it again, and one that will call its handler again owes
\* another.
ReadsOwed ==
    whole /\ open /\ peerOpen =>
        Len(reads) + Len(ready) + Cardinality(Busy) + Cardinality(AtStep("again"))
                + Cardinality(Users) + 2 * Cardinality(Thrown)
            = 1 + Len(log) + Cardinality(Added)

\* Inductive: what is under way belongs to the connection's own handlers, and no
\* read is lost.
IndInv ==
    /\ TypeOK
    /\ HandledInOrder /\ FirstUserGetsCard
    /\ OwnHandlers /\ OpenWhileHeld
    /\ WholeLines /\ OneUnderWay /\ FirstRead /\ CardAwaited /\ ReadsOwed

----------------------------------------------------------------------------
(* Liveness, and what the program claims of itself. *)

\* A line reaches a handler, unless one end closes the connection first or the
\* handlers before it have thrown every thread of the server away.
LineHandled ==
    (Polite /\ Len(log) < Len(lines))
        ~> (Len(log) = Len(lines) \/ ~open \/ ~peerOpen \/ Abandoned)

\* After either end has closed, every read ends and the connection is let go,
\* while there is a thread to see to it.
Released == (~open \/ ~peerOpen) ~> ((Quiet /\ reads = <<>>) \/ Abandoned)

\* Claimed by readme.md ("Create a new user: newUser ..."): the line taken for
\* a card is the one that follows a newUser command, and no other is.
CardIsCard ==
    Polite => \A i \in DOMAIN log :
        log[i].handler = "uid" <=> lines[log[i].got[1].line] = "card"
=============================================================================
