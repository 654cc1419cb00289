------------------------------- MODULE Reader -------------------------------
(***************************************************************************)
(* The client at the door (rpi_get_uid): it sets the PN532 up, connects to *)
(* the client server, and then scans a card, sends its uid as a line,      *)
(* waits for a line and shows what it says, for ever.                      *)
(*                                                                         *)
(* The bus answers a call of the driver with a frame or not at all.  The   *)
(* server is the one of this repository: a line without a colon, and the   *)
(* client sends no other, is answered and the connection closed.  It may   *)
(* die and come back at any moment.                                        *)
(***************************************************************************)
EXTENDS Pn532

CONSTANTS
    Cards,          \* the uids of the cards people present
    NoCard,         \* nothing in front of the reader, nothing scanned
    BufferSize,     \* the size of the buffer for an answer
    MaxSockets      \* bound: the sockets a process may have open

ASSUME ReaderAssumption ==
    /\ Cards \subseteq Seq(Bytes) /\ NoCard \notin Cards
    /\ \A c \in Cards : Len(c) <= MaxUidLength
    /\ BufferSize \in Nat \ {0, 1} /\ MaxSockets \in Nat \ {0}

VARIABLES
    device,         \* PN532_I2C_Init could open the bus
    quiet,          \* nothing disturbs the bytes on the bus
    pc,             \* what the client does next
    call,           \* the driver call under way: "firmware", "sam" or "scan"
    setupComplete,
    uidString,      \* the card scanned last
    sockets,        \* sockets that were opened and never closed
    total, buffer,  \* how much of an answer was received, and the bytes
    field,          \* the card in front of the reader
    found,          \* the card the chip has answered with, not read yet
    seen,           \* history: the cards in front of it since the call began
    unread,         \* history: in this call the driver went by a buffer nobody filled
    server,         \* is the server up?
    peer,           \* its end of the connection: "none", "open" or "closed"
    toServer,       \* lines under way to it
    taken,          \* the line it has read and not answered
    toClient,       \* what it has sent and the client has not read
    reset           \* was the connection reset: "no"; "error", which the next read
                    \* reports; or "broken", which only a write would notice

busVars == <<device, quiet>>
scanVars == <<busVars, call, setupComplete, uidString, field, found, seen, unread>>
chipVars == <<field, found, seen>>
bufferVars == <<total, buffer>>
serverVars == <<server, peer, toServer, taken>>
netVars == <<serverVars, toClient, reset>>
vars == <<pc, scanVars, sockets, bufferVars, netVars>>

\* A received byte is part of the text of the answer to a card's line, or ends
\* the line.  The buffer starts as the stack left it.
Text(card) == [kind |-> "text", of |-> card]
Newline == [kind |-> "newline", of |-> NoCard]
Nul == [kind |-> "nul", of |-> NoCard]
ReceivedBytes == {Text(c) : c \in Cards \cup {NoCard}} \cup {Newline, Nul}
Positions == 0 .. BufferSize - 1
Answer(card) == <<Text(card), Newline>>

Init ==
    /\ device \in BOOLEAN /\ quiet \in BOOLEAN
    /\ pc = "command" /\ call = "firmware" /\ setupComplete = FALSE
    /\ uidString = NoCard
    /\ sockets = 0
    /\ total = 0
    /\ buffer \in {[i \in Positions |-> Text(NoCard)], [i \in Positions |-> Newline]}
    /\ field = NoCard /\ found = NoCard /\ seen = {} /\ unread = FALSE
    /\ server = "down" /\ peer = "none"
    /\ toServer = <<>> /\ taken = NoCard
    /\ toClient = <<>> /\ reset = "no"

----------------------------------------------------------------------------
(* The card, the chip and the bus. *)

Present ==
    /\ field' \in (Cards \cup {NoCard}) \ {field}
    /\ seen' = seen \cup ({field'} \ {NoCard})
    /\ UNCHANGED <<busVars, pc, call, setupComplete, uidString, found, unread,
                   sockets, bufferVars, netVars>>

\* The chip has acknowledged a scan and sees a card.
Find ==
    /\ pc = "response" /\ call = "scan"
    /\ found = NoCard /\ field # NoCard
    /\ found' = field
    /\ UNCHANGED <<busVars, pc, call, setupComplete, uidString, field, seen, unread,
                   sockets, bufferVars, netVars>>

\* The command is written, and nobody looks whether it could be; what the chip
\* had found for an earlier one is gone.
WriteCommand ==
    /\ pc = "command"
    /\ found' = NoCard
    /\ seen' = {field} \ {NoCard} /\ unread' = FALSE
    /\ pc' = "ack"
    /\ UNCHANGED <<busVars, call, setupComplete, uidString, field, sockets, bufferVars,
                   netVars>>

ReadAck ==
    /\ pc = "ack" /\ device
    /\ pc' = "response"
    /\ UNCHANGED <<scanVars, sockets, bufferVars, netVars>>

\* Mutant of Fail: nobody looks whether there was a version either.
FailUnnoticed ==
    /\ pc' = IF call = "scan" THEN "command" ELSE "connect"
    /\ setupComplete' = TRUE
    /\ UNCHANGED <<busVars, call, uidString, chipVars, unread, sockets, bufferVars,
                   netVars>>

\* Mutant of Fail: the set-up is tried until it works.
FailRetry ==
    /\ pc' = "command"
    /\ UNCHANGED <<scanVars, sockets, bufferVars, netVars>>

\* The call ends without a result.  A scan is repeated; without a version the
\* set-up ends; whether the configuration worked is not looked at.
Fail ==
    /\ pc' = IF call = "scan" THEN "command" ELSE "connect"
    /\ setupComplete' = (setupComplete \/ call = "sam")
    /\ UNCHANGED <<busVars, call, uidString, chipVars, unread, sockets, bufferVars,
                   netVars>>

\* PN532_I2C_WaitReady: the chip, if there is a bus to ask it, was never ready.
WaitTimesOut == pc \in {"ack", "response"} /\ Fail

\* What was read is no ACK, or could not be read.
AckRefused == pc = "ack" /\ device /\ Fail

\* PN532_ReadFrame goes round for ever.
Hang == pc' = "hung" /\ UNCHANGED <<scanVars, sockets, bufferVars, netVars>>

ScanSucceeds(uid) ==
    /\ uidString' = uid
    /\ pc' = "send"
    /\ UNCHANGED <<busVars, call, setupComplete, chipVars, sockets, bufferVars,
                   netVars>>

\* The set-up's calls: the version, then the configuration.
SetupSucceeds ==
    /\ IF call = "firmware"
       THEN pc' = "command" /\ call' = "sam" /\ UNCHANGED setupComplete
       ELSE pc' = "connect" /\ UNCHANGED call /\ setupComplete' = TRUE
    /\ UNCHANGED <<busVars, uidString, chipVars, unread, sockets, bufferVars,
                   netVars>>

\* What the driver may make of the chip's answer to a call of the set-up.
SetupCommand == [firmware |-> FirmwareCommand, sam |-> SamCommand]
SetupFrame == [firmware |-> VersionFound, sam |-> Configured]
QuietSetup ==
    [c \in {"firmware", "sam"} |-> {ReadFrame(SetupFrame[c]), ReadFrame(SyntaxError)}]
NoisySetup ==
    [c \in {"firmware", "sam"} |->
        {ReadFrame(b) : b \in Noisy(SetupFrame[c]) \cup Noisy(SyntaxError)}]

\* A response that is none, or is one to something else, ends the call.
ReadSetup ==
    /\ pc = "response" /\ call # "scan"
    /\ \E frame \in IF quiet THEN QuietSetup[call] ELSE NoisySetup[call] :
        CASE frame.parse = "hang" -> Hang
          [] frame.parse = "data" ->
                IF ResponseTo(SetupCommand[call], frame.data) THEN SetupSucceeds ELSE Fail
          [] OTHER -> Fail

\* What the driver may make of the chip's answer to a scan that found a card.
QuietReadings == [c \in Cards |-> {ReadFrame(TargetFound(c)), ReadFrame(SyntaxError)}]
Readings ==
    [c \in Cards |-> {ReadFrame(b) : b \in Noisy(TargetFound(c)) \cup Noisy(SyntaxError)}]

ReadScan ==
    /\ pc = "response" /\ call = "scan" /\ found # NoCard
    /\ \E frame \in IF quiet THEN QuietReadings[found] ELSE Readings[found] :
        CASE frame.parse = "hang" -> Hang
          [] frame.parse = "data" ->
                IF ResponseTo(ScanCommand, frame.data) /\ OneTarget(frame.data)
                THEN ScanSucceeds(UidOf(frame.data)) /\ UNCHANGED unread
                ELSE Fail
          [] OTHER -> Fail

\* read_data failed, and PN532_ReadFrame goes by what is in its buffer, which
\* nobody filled: nothing that passes; a length that has it go round for ever; or,
\* for a scan, an earlier answer.
HangUnread ==
    /\ pc' = "hung" /\ unread' = TRUE
    /\ UNCHANGED <<busVars, call, setupComplete, uidString, chipVars, sockets,
                   bufferVars, netVars>>

ReadNothing ==
    /\ pc = "response"
    /\ \/ Fail
       \/ HangUnread
       \/ call = "scan" /\ \E c \in Cards : ScanSucceeds(c) /\ unread' = TRUE

----------------------------------------------------------------------------
(* The connection, and the answer. *)

\* The server is not there: two seconds later another socket is opened, and
\* this one is not closed.  When no more can be opened nothing changes.
ConnectFails ==
    /\ pc = "connect"
    /\ server = "down"
    /\ sockets < MaxSockets
    /\ sockets' = sockets + 1
    /\ UNCHANGED <<pc, scanVars, bufferVars, netVars>>

\* Mutant of Connect: nobody looks whether the reader was set up.
ConnectAnyway ==
    /\ pc = "connect"
    /\ server = "up"
    /\ sockets < MaxSockets
    /\ sockets' = sockets + 1
    /\ peer' = "open"
    /\ pc' = "command"
    /\ call' = "scan"
    /\ UNCHANGED <<busVars, setupComplete, uidString, chipVars, unread, bufferVars,
                   server, toServer, taken, toClient, reset>>

\* Without a reader that was set up the socket is closed and main returns.
Connect ==
    /\ pc = "connect"
    /\ server = "up"
    /\ sockets < MaxSockets
    /\ sockets' = sockets + 1
    /\ peer' = IF setupComplete THEN "open" ELSE "closed"
    /\ pc' = IF setupComplete THEN "command" ELSE "done"
    /\ call' = "scan"
    /\ UNCHANGED <<busVars, setupComplete, uidString, chipVars, unread, bufferVars,
                   server, toServer, taken, toClient, reset>>

\* Mutant of Send: nobody waits for the answer.
SendOnly ==
    /\ pc = "send"
    /\ toServer' = Append(toServer, uidString)
    /\ pc' = "command"
    /\ UNCHANGED <<scanVars, sockets, bufferVars, server, peer, taken, toClient,
                   reset>>

\* A write after a reset raises SIGPIPE.
Send ==
    /\ pc = "send"
    /\ \/ reset = "no" /\ pc' = "receive" /\ toServer' = Append(toServer, uidString)
       \/ reset = "broken" /\ pc' = "killed" /\ UNCHANGED toServer
    /\ total' = 0
    /\ UNCHANGED <<scanVars, sockets, buffer, server, peer, taken, toClient, reset>>

\* The end of a line: its end is overwritten, and what came before is shown.
EndAnswer(bytes) ==
    /\ buffer' = [bytes EXCEPT ![total] = Nul]
    /\ pc' = "feedback"
    /\ UNCHANGED total

\* Mutant of ReceiveByte: the end of a line is taken for one more byte of it.
ReceiveAnyByte ==
    /\ pc = "receive"
    /\ total < BufferSize - 1
    /\ toClient # <<>>
    /\ toClient' = Tail(toClient)
    /\ buffer' = [buffer EXCEPT ![total] = Head(toClient)]
    /\ total' = total + 1
    /\ UNCHANGED <<pc, scanVars, sockets, serverVars, reset>>

ReceiveByte ==
    /\ pc = "receive"
    /\ total < BufferSize - 1
    /\ toClient # <<>>
    /\ toClient' = Tail(toClient)
    /\ IF Head(toClient) = Newline
       THEN EndAnswer(buffer)
       ELSE /\ buffer' = [buffer EXCEPT ![total] = Head(toClient)]
            /\ total' = total + 1
            /\ UNCHANGED pc
    /\ UNCHANGED <<scanVars, sockets, serverVars, reset>>

\* The buffer is full; or read returned 0, and the byte that it did not fill
\* happens to be a newline.  Any other byte there has it read again, for ever: a
\* reset that comes after the end of the stream changes nothing for read.
ReceiveNoMore ==
    /\ pc = "receive"
    /\ \/ total = BufferSize - 1
       \/ /\ toClient = <<>> /\ peer = "closed" /\ reset # "error"
          /\ buffer[total] = Newline
    /\ EndAnswer(buffer)
    /\ UNCHANGED <<scanVars, sockets, netVars>>

\* Mutant of ReceiveError: the caller shows the buffer all the same.
ReceiveErrorShown ==
    /\ pc = "receive"
    /\ toClient = <<>>
    /\ reset = "error"
    /\ reset' = "broken"
    /\ pc' = "feedback"
    /\ UNCHANGED <<scanVars, sockets, bufferVars, serverVars, toClient>>

ReceiveError ==
    /\ pc = "receive"
    /\ toClient = <<>>
    /\ reset = "error"
    /\ reset' = "broken"
    /\ pc' = "command"
    /\ UNCHANGED <<scanVars, sockets, bufferVars, serverVars, toClient>>

\* io_feedback; then the next card.
Feedback ==
    /\ pc = "feedback"
    /\ pc' = "command"
    /\ UNCHANGED <<scanVars, sockets, bufferVars, netVars>>

Client ==
    \/ WriteCommand \/ WaitTimesOut \/ ReadAck \/ AckRefused
    \/ ReadSetup \/ ReadScan \/ ReadNothing
    \/ ConnectFails \/ Connect
    \/ Send \/ ReceiveByte \/ ReceiveNoMore \/ ReceiveError \/ Feedback

----------------------------------------------------------------------------
(* The server: see Connection for what it does with a line. *)

ServerStarts ==
    /\ server = "down"
    /\ server' = "up"
    /\ UNCHANGED <<pc, scanVars, sockets, bufferVars, peer, toServer, taken, toClient,
                   reset>>

\* Its host ends the stream, or, if a line had arrived and was not read, resets
\* the connection at once.
ServerDies ==
    /\ server = "up"
    /\ server' = "down"
    /\ peer' = IF peer = "open" THEN "closed" ELSE peer
    /\ taken' = NoCard
    /\ \/ UNCHANGED <<toServer, reset>>
       \/ /\ peer = "open" /\ toServer # <<>>
          /\ toServer' = <<>> /\ reset' = "error"
    /\ UNCHANGED <<pc, scanVars, sockets, bufferVars, toClient>>

ServerReads ==
    /\ peer = "open"
    /\ taken = NoCard /\ toServer # <<>>
    /\ taken' = Head(toServer)
    /\ toServer' = Tail(toServer)
    /\ UNCHANGED <<pc, scanVars, sockets, bufferVars, server, peer, toClient, reset>>

\* No colon: "Invalid Client Package Syntax - Connection Closed", close().
ServerRejects ==
    /\ peer = "open"
    /\ taken # NoCard
    /\ toClient' = toClient \o Answer(taken)
    /\ taken' = NoCard
    /\ peer' = "closed"
    /\ UNCHANGED <<pc, scanVars, sockets, bufferVars, server, toServer, reset>>

\* What is sent to an end that was closed is answered with a reset; the end of
\* the stream came before it.
Reset ==
    /\ peer = "closed"
    /\ toServer # <<>>
    /\ toServer' = <<>>
    /\ reset' = "broken"
    /\ UNCHANGED <<pc, scanVars, sockets, bufferVars, server, peer, taken, toClient>>

Serve == ServerReads \/ ServerRejects \/ Reset

Next == Present \/ Find \/ Client \/ ServerStarts \/ ServerDies \/ Serve

Spec == Init /\ [][Next]_vars

\* The client runs, its calls of the driver end by their timeouts at the
\* latest, and the server's host does its part.  Cards may never come, the chip
\* may never answer, and a server that is down may stay down.
FairSpec == Spec /\ WF_vars(Client) /\ WF_vars(Serve)

----------------------------------------------------------------------------
(* Properties. *)

\* Every variable has its type; what was scanned is the uid of a card.
TypeOK ==
    /\ pc \in {"command", "ack", "response", "connect", "send", "receive", "feedback",
               "hung", "killed", "done"}
    /\ call \in {"firmware", "sam", "scan"}
    /\ {device, quiet, setupComplete, unread} \subseteq BOOLEAN
    /\ {uidString, field, found, taken} \subseteq Cards \cup {NoCard}
    /\ sockets \in 0 .. MaxSockets
    /\ total \in Positions /\ buffer \in [Positions -> ReceivedBytes]
    /\ seen \subseteq Cards
    /\ server \in {"down", "up"} /\ peer \in {"none", "open", "closed"}
    /\ toServer \in Seq(Cards) /\ toClient \in Seq(ReceivedBytes)
    /\ reset \in {"no", "error", "broken"}

\* The uid that is sent is that of a card that was in front of the reader while
\* the call went on, though any one byte of a response may be disturbed and the
\* card may be taken away or exchanged meanwhile; unless the read of the
\* response failed, which the driver does not notice.
UidWasPresented == pc = "send" => uidString \in seen \/ unread

\* On a bus that disturbs nothing no frame makes the driver hang, and a scan that
\* ends with a uid ends with that of the card the chip has found, whole; unless,
\* again, the read failed.
QuietBusReadsCard ==
    [][quiet /\ ~unread' =>
            /\ pc' # "hung"
            /\ pc # "send" /\ pc' = "send" => uidString' = found]_vars

\* What is shown for a card is the answer to the line with its uid, whole, or
\* nothing: never the answer to an earlier card that is still in the buffer.
AnswerIsForThisCard ==
    pc = "feedback" => buffer[0] \in {Text(uidString), Nul}

\* A client whose bus could not be opened, which PN532_I2C_Init does not tell its
\* caller, scans nothing and asks the server nothing: the connection it makes in
\* the end is closed at once.
NothingWithoutDevice ==
    ~device => uidString = NoCard /\ toServer = <<>> /\ peer # "open"

\* The client never has more than one line waiting for an answer, which is what
\* the server's handling of lines in order depends on (Polite in Connection).
OneLineAtATime ==
    peer = "open" => Len(toServer) + (IF taken = NoCard THEN 0 ELSE 1) <= 1

----------------------------------------------------------------------------
(* The inductive invariant. *)

\* The card in front of the reader, and the one the chip has found, were in front
\* of it during this call; a uid that goes out is a card's; and only a disturbed
\* frame, or a buffer nobody filled, makes the driver hang.
CardsSeen ==
    /\ {field, found} \ {NoCard} \subseteq seen
    /\ pc \in {"send", "receive", "feedback"} => uidString \in Cards
    /\ quiet /\ ~unread => pc # "hung"

\* The set-up comes first and the connection after it, once: scans are made on a
\* connection that was made, of which nothing is known before.
SetupFirst ==
    IF call = "scan"
    THEN pc # "connect" /\ peer # "none" /\ (pc = "done" => peer = "closed")
    ELSE /\ pc \in {"command", "ack", "response", "connect", "hung"}
         /\ uidString = NoCard
         /\ peer = "none" /\ toServer = <<>> /\ taken = NoCard
         /\ toClient = <<>> /\ reset = "no"

\* Without a bus the first call of the set-up ends it, and main after it.
SetupFails ==
    ~device =>
        /\ ~setupComplete /\ uidString = NoCard /\ toServer = <<>> /\ peer # "open"
        /\ pc \in {"command", "ack", "connect", "done"}
        /\ call = IF pc = "done" THEN "scan" ELSE "firmware"

\* While the connection is open the client waits for the answer to its line,
\* which is under way or with the server, or has none to wait for.
Exchange ==
    peer = "open" =>
        /\ reset = "no" /\ toClient = <<>>
        /\ \/ /\ pc = "receive" /\ total = 0
              /\ \/ toServer = <<uidString>> /\ taken = NoCard
                 \/ toServer = <<>> /\ taken = uidString
           \/ /\ pc \notin {"receive", "feedback", "killed"}
              /\ toServer = <<>> /\ taken = NoCard

\* What comes back is the answer for this card, or the end of it; and the first
\* byte that was received is its first.
AnswerReceived ==
    /\ \/ toClient \in {<<>>, <<Newline>>}
       \/ toClient = Answer(uidString) /\ pc = "receive" /\ total = 0
    /\ pc = "receive" /\ total > 0 => buffer[0] = Text(uidString)

\* A reset without the end of the stream meets a client that waits for an answer
\* and has received nothing of it.
ResetAwaited == reset = "error" => pc = "receive" /\ toClient = <<>> /\ total = 0

\* Inductive: a card, its line and its answer follow one another.
IndInv ==
    /\ TypeOK /\ UidWasPresented /\ AnswerIsForThisCard
    /\ CardsSeen /\ SetupFirst /\ SetupFails
    /\ Exchange /\ AnswerReceived /\ ResetAwaited

----------------------------------------------------------------------------
(* Liveness, and what the program claims of itself. *)

\* If the server comes up for good, the client connects, unless the sockets it
\* leaves open while it tries have used up all it may have, or the set-up has hung
\* it before it tries.
ConnectsWhileSocketsLast ==
    <>[](server = "up") => <>(peer # "none" \/ sockets = MaxSockets \/ pc = "hung")

\* A line that reaches a server which stays up is answered, and the client
\* gets to the end of the answer.
AnsweredWhileServed ==
    (pc = "receive" /\ peer = "open") ~> (pc # "receive" \/ server = "down")

\* Claimed by the state diagram (verify leads to grant or deny, "Client awaits
\* answer from server"): with a server that stays up once the client is
\* connected, waiting for an answer ends.
VerifyEnds ==
    [](peer # "none" => server = "up") => (pc = "receive" ~> pc # "receive")
=============================================================================
