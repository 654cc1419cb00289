---------------------------- MODULE ReaderProofs ----------------------------
(***************************************************************************)
(* The inductive invariant of the card reader's client and what follows    *)
(* from it, for all cards and any width of a byte, buffer or number of     *)
(* sockets.                                                                *)
(***************************************************************************)
EXTENDS Reader, Pn532Proofs

----------------------------------------------------------------------------
(* Cards, bytes and answers. *)

\* An answer is its text and then the end of the line, and these are not the same.
LEMMA AnswerFacts ==
    ASSUME NEW c
    PROVE  /\ Text(c) # Newline
           /\ Answer(c) # <<>> /\ Answer(c) # <<Newline>>
           /\ Head(Answer(c)) = Text(c) /\ Tail(Answer(c)) = <<Newline>>
           /\ <<>> \o Answer(c) = Answer(c)
           /\ c \in Cards \cup {NoCard} => Answer(c) \in Seq(ReceivedBytes)
           /\ Newline \in ReceivedBytes /\ Nul \in ReceivedBytes /\ <<Newline>> # <<>>
<1>1. Text(c).kind = "text" /\ Newline.kind = "newline"
    BY DEF Text, Newline
<1>2. c \in Cards \cup {NoCard} => Text(c) \in ReceivedBytes
    BY DEF ReceivedBytes
<1>3. Newline \in ReceivedBytes /\ Nul \in ReceivedBytes
    BY DEF ReceivedBytes
<1>4. Answer(c) = <<Text(c), Newline>>
    BY DEF Answer
<1> DEFINE a == Text(c)
           z == Newline
<1> HIDE DEF a, z
<1>5. /\ <<a, z>> # <<>> /\ <<a, z>> # <<z>> /\ Head(<<a, z>>) = a /\ Tail(<<a, z>>) = <<z>>
      /\ <<>> \o <<a, z>> = <<a, z>>
    <2>1. Len(<<a, z>>) = 2 /\ Len(<<z>>) = 1 /\ Len(<<>>) = 0
        OBVIOUS
    <2>2. <<a, z>> \in Seq({a, z})
        OBVIOUS
    <2>3. <<>> \o <<a, z>> = <<a, z>>
        BY <2>2, ConcatEmptySeq
    <2> QED BY <2>1, <2>3
<1> QED BY <1>1, <1>2, <1>3, <1>4, <1>5 DEF a, z

\* The buffer has a first byte, and room for more than that.
LEMMA BufferFacts ==
    /\ BufferSize \in Nat /\ BufferSize - 1 >= 1 /\ 0 \in Positions
    /\ Positions \subseteq Nat /\ NoCard \notin Cards /\ Cards \subseteq Uids
<1>1. BufferSize \in Nat /\ BufferSize - 1 >= 1 /\ 0 \in Positions /\ Positions \subseteq Nat
    BY ReaderAssumption DEF Positions
<1>2. NoCard \notin Cards /\ Cards \subseteq Uids
    BY ReaderAssumption DEF Uids
<1> QED BY <1>1, <1>2

\* A scan that found a card ends with the card's uid or without one; the driver
\* hangs only over a disturbed frame.
LEMMA ReadScanFacts ==
    ASSUME TypeOK, ReadScan
    PROVE  \/ ~quiet /\ Hang
           \/ Fail
           \/ found \in Cards /\ ScanSucceeds(found) /\ UNCHANGED unread
<1>1. found \in Cards
    BY DEF ReadScan, TypeOK
<1> DEFINE read == IF quiet THEN QuietReadings[found] ELSE Readings[found]
<1>2. PICK frame \in read :
        CASE frame.parse = "hang" -> Hang
          [] frame.parse = "data" ->
                IF ResponseTo(ScanCommand, frame.data) /\ OneTarget(frame.data)
                THEN ScanSucceeds(UidOf(frame.data)) /\ UNCHANGED unread
                ELSE Fail
          [] OTHER -> Fail
    BY DEF ReadScan
<1>3. PICK b \in Noisy(TargetFound(found)) \cup Noisy(SyntaxError) : frame = ReadFrame(b)
    <2>1. CASE quiet
        <3>1. frame \in {ReadFrame(TargetFound(found)), ReadFrame(SyntaxError)}
            BY <1>1, <1>2, <2>1 DEF QuietReadings
        <3>2. TargetFound(found) \in Noisy(TargetFound(found)) /\ SyntaxError \in Noisy(SyntaxError)
            BY DEF Noisy
        <3> QED BY <3>1, <3>2
    <2>2. CASE ~quiet
        BY <1>1, <1>2, <2>2 DEF Readings
    <2> QED BY <2>1, <2>2
<1>4. ASSUME quiet PROVE frame.parse # "hang"
    <2>1. frame \in {ReadFrame(TargetFound(found)), ReadFrame(SyntaxError)}
        BY <1>1, <1>2, <1>4 DEF QuietReadings
    <2>2. TargetFound(found) = Frame(Response(found)) /\ Response(found) \in Payloads
        BY <1>1, BufferFacts, ResponseFacts DEF TargetFound, Response
    <2>3. ReadFrame(TargetFound(found)) = [parse |-> "data", data |-> Response(found)]
        BY <2>2, RoundTrip
    <2>4. ReadFrame(SyntaxError) = [parse |-> "data", data |-> <<Modulus \div 2 - 1>>]
        BY SyntaxErrorFacts, RoundTrip
    <2>5. ReadFrame(TargetFound(found)).parse = "data" /\ ReadFrame(SyntaxError).parse = "data"
        BY <2>3, <2>4
    <2> QED BY <2>1, <2>5
<1>5. CASE frame.parse = "hang"
    BY <1>2, <1>4, <1>5
<1>6. CASE frame.parse = "data"
    <2>1. CASE ResponseTo(ScanCommand, frame.data) /\ OneTarget(frame.data)
        <3>1. UidOf(frame.data) = found
            BY <1>1, <1>3, <1>6, <2>1, BufferFacts, DisturbanceFound
        <3> QED BY <1>1, <1>2, <1>6, <2>1, <3>1
    <2> QED BY <1>2, <1>6, <2>1
<1>7. CASE frame.parse # "hang" /\ frame.parse # "data"
    BY <1>2, <1>7
<1> QED BY <1>5, <1>6, <1>7

\* So does a call of the set-up: it ends, one way or the other, on a quiet bus.
LEMMA ReadSetupFacts ==
    ASSUME TypeOK, ReadSetup
    PROVE  (~quiet /\ Hang) \/ Fail \/ SetupSucceeds
<1>1. call \in {"firmware", "sam"}
    BY DEF ReadSetup, TypeOK
<1>2. PICK frame \in IF quiet THEN QuietSetup[call] ELSE NoisySetup[call] :
        CASE frame.parse = "hang" -> Hang
          [] frame.parse = "data" ->
                IF ResponseTo(SetupCommand[call], frame.data) THEN SetupSucceeds ELSE Fail
          [] OTHER -> Fail
    BY DEF ReadSetup
<1>3. ASSUME quiet PROVE frame.parse = "data"
    <2>1. frame \in {ReadFrame(SetupFrame[call]), ReadFrame(SyntaxError)}
        BY <1>1, <1>2, <1>3 DEF QuietSetup
    <2>2. SetupFrame[call] \in {VersionFound, Configured}
        BY <1>1 DEF SetupFrame
    <2>3. \A b \in {VersionFound, Configured, SyntaxError} :
            \E data \in Payloads : b = Frame(data)
        BY SetupFacts, SyntaxErrorFacts
    <2>4. PICK data \in Payloads : frame = ReadFrame(Frame(data))
        BY <2>1, <2>2, <2>3
    <2> QED BY <2>4, RoundTrip
<1>4. CASE frame.parse = "hang"
    BY <1>2, <1>3, <1>4
<1>5. CASE frame.parse = "data"
    BY <1>2, <1>5
<1>6. CASE frame.parse # "hang" /\ frame.parse # "data"
    BY <1>2, <1>6
<1> QED BY <1>4, <1>5, <1>6

----------------------------------------------------------------------------
\* At first nothing is connected, scanned or received.
LEMMA InitIndInv == Init => IndInv
<1> SUFFICES ASSUME Init PROVE IndInv
    OBVIOUS
<1>1. BufferSize \in Nat /\ 0 \in Positions /\ MaxSockets \in Nat
    BY BufferFacts, ReaderAssumption
<1>2. buffer \in [Positions -> ReceivedBytes]
    <2>1. Text(NoCard) \in ReceivedBytes /\ Newline \in ReceivedBytes
        BY AnswerFacts DEF ReceivedBytes
    <2> QED BY <2>1 DEF Init
<1>3. toServer \in Seq(Cards) /\ toClient \in Seq(ReceivedBytes)
    BY DEF Init
<1>4. {device, quiet, setupComplete, unread} \subseteq BOOLEAN
    BY DEF Init
<1>5. TypeOK
    BY <1>1, <1>2, <1>3, <1>4 DEF Init, TypeOK
<1>6. UidWasPresented /\ AnswerIsForThisCard /\ CardsSeen
    BY DEF Init, UidWasPresented, AnswerIsForThisCard, CardsSeen
<1>7. SetupFirst /\ SetupFails /\ Exchange /\ AnswerReceived /\ ResetAwaited
    BY DEF Init, SetupFirst, SetupFails, Exchange, AnswerReceived, ResetAwaited
<1> QED BY <1>5, <1>6, <1>7 DEF IndInv

----------------------------------------------------------------------------
(* The card, the chip and the bus. *)

\* People come and go with their cards.
LEMMA PresentStep ==
    ASSUME IndInv, Present
    PROVE  IndInv'
<1>0. /\ TypeOK /\ UidWasPresented /\ AnswerIsForThisCard /\ CardsSeen
      /\ SetupFirst /\ SetupFails /\ Exchange /\ AnswerReceived /\ ResetAwaited
    BY DEF IndInv
<1>1. /\ UNCHANGED <<pc, device, quiet, call, setupComplete, uidString, found, unread,
                  sockets, total, buffer, server, peer, toServer, taken,
                  toClient, reset>>
      /\ field' \in Cards \cup {NoCard} /\ seen' = seen \cup ({field'} \ {NoCard})
    BY DEF Present, busVars, chipVars, scanVars, bufferVars, serverVars, netVars
<1>5. TypeOK'
    BY <1>0, <1>1 DEF TypeOK
<1>6. UidWasPresented' /\ AnswerIsForThisCard' /\ CardsSeen'
    BY <1>0, <1>1 DEF UidWasPresented, AnswerIsForThisCard, CardsSeen
<1>7. SetupFirst' /\ SetupFails'
    BY <1>0, <1>1 DEF SetupFirst, SetupFails
<1>8. Exchange' /\ AnswerReceived' /\ ResetAwaited'
    BY <1>0, <1>1 DEF Exchange, AnswerReceived, ResetAwaited
<1> QED BY <1>5, <1>6, <1>7, <1>8 DEF IndInv

\* The chip finds the card that is in front of it.
LEMMA FindStep ==
    ASSUME IndInv, Find
    PROVE  IndInv'
<1>0. /\ TypeOK /\ UidWasPresented /\ AnswerIsForThisCard /\ CardsSeen
      /\ SetupFirst /\ SetupFails /\ Exchange /\ AnswerReceived /\ ResetAwaited
    BY DEF IndInv
<1>1. /\ UNCHANGED <<pc, device, quiet, call, setupComplete, uidString, field, seen,
                  unread, sockets, total, buffer, server, peer, toServer,
                  taken, toClient, reset>>
      /\ pc = "response" /\ field # NoCard /\ found' = field
    BY DEF Find, busVars, chipVars, scanVars, bufferVars, serverVars, netVars
<1>5. TypeOK'
    BY <1>0, <1>1 DEF TypeOK
<1>6. UidWasPresented' /\ AnswerIsForThisCard' /\ CardsSeen'
    BY <1>0, <1>1 DEF UidWasPresented, AnswerIsForThisCard, CardsSeen
<1>7. SetupFirst' /\ SetupFails'
    BY <1>0, <1>1 DEF SetupFirst, SetupFails
<1>8. Exchange' /\ AnswerReceived' /\ ResetAwaited'
    BY <1>0, <1>1 DEF Exchange, AnswerReceived, ResetAwaited
<1> QED BY <1>5, <1>6, <1>7, <1>8 DEF IndInv

\* A new call: what was seen before does not count.
LEMMA WriteCommandStep ==
    ASSUME IndInv, WriteCommand
    PROVE  IndInv'
<1>0. /\ TypeOK /\ UidWasPresented /\ AnswerIsForThisCard /\ CardsSeen
      /\ SetupFirst /\ SetupFails /\ Exchange /\ AnswerReceived /\ ResetAwaited
    BY DEF IndInv
<1>1. /\ UNCHANGED <<device, quiet, call, setupComplete, uidString, field, sockets,
                  total, buffer, server, peer, toServer, taken, toClient, reset>>
      /\ pc = "command" /\ pc' = "ack" /\ found' = NoCard /\ seen' = {field} \ {NoCard}
      /\ unread' = FALSE
    BY DEF WriteCommand, busVars, chipVars, scanVars, bufferVars, serverVars, netVars
<1>5. TypeOK'
    BY <1>0, <1>1 DEF TypeOK
<1>6. UidWasPresented' /\ AnswerIsForThisCard' /\ CardsSeen'
    BY <1>0, <1>1 DEF UidWasPresented, AnswerIsForThisCard, CardsSeen
<1>7. SetupFirst' /\ SetupFails'
    BY <1>0, <1>1 DEF SetupFirst, SetupFails
<1>8. Exchange' /\ AnswerReceived' /\ ResetAwaited'
    BY <1>0, <1>1 DEF Exchange, AnswerReceived, ResetAwaited
<1> QED BY <1>5, <1>6, <1>7, <1>8 DEF IndInv

\* The acknowledgement came, over a bus that is there.
LEMMA ReadAckStep ==
    ASSUME IndInv, ReadAck
    PROVE  IndInv'
<1>0. /\ TypeOK /\ UidWasPresented /\ AnswerIsForThisCard /\ CardsSeen
      /\ SetupFirst /\ SetupFails /\ Exchange /\ AnswerReceived /\ ResetAwaited
    BY DEF IndInv
<1>1. /\ UNCHANGED <<device, quiet, call, setupComplete, uidString, field, found,
                  seen, unread, sockets, total, buffer, server, peer,
                  toServer, taken, toClient, reset>>
      /\ pc = "ack" /\ device /\ pc' = "response"
    BY DEF ReadAck, busVars, chipVars, scanVars, bufferVars, serverVars, netVars
<1>5. TypeOK'
    BY <1>0, <1>1 DEF TypeOK
<1>6. UidWasPresented' /\ AnswerIsForThisCard' /\ CardsSeen'
    BY <1>0, <1>1 DEF UidWasPresented, AnswerIsForThisCard, CardsSeen
<1>7. SetupFirst' /\ SetupFails'
    BY <1>0, <1>1 DEF SetupFirst, SetupFails
<1>8. Exchange' /\ AnswerReceived' /\ ResetAwaited'
    BY <1>0, <1>1 DEF Exchange, AnswerReceived, ResetAwaited
<1> QED BY <1>5, <1>6, <1>7, <1>8 DEF IndInv

\* A call ends without a result.
LEMMA FailStep ==
    ASSUME IndInv, Fail, pc \in {"ack", "response"}
    PROVE  IndInv'
<1>0. /\ TypeOK /\ UidWasPresented /\ AnswerIsForThisCard /\ CardsSeen
      /\ SetupFirst /\ SetupFails /\ Exchange /\ AnswerReceived /\ ResetAwaited
    BY DEF IndInv
<1>1. /\ UNCHANGED <<device, quiet, call, uidString, field, found, seen, unread,
                  sockets, total, buffer, server, peer, toServer, taken,
                  toClient, reset>>
      /\ pc' = IF call = "scan" THEN "command" ELSE "connect"
      /\ setupComplete' = (setupComplete \/ call = "sam")
      /\ pc \in {"ack", "response"}
    BY DEF Fail, busVars, chipVars, scanVars, bufferVars, serverVars, netVars
<1>5. TypeOK'
    BY <1>0, <1>1 DEF TypeOK
<1>6. UidWasPresented' /\ AnswerIsForThisCard' /\ CardsSeen'
    BY <1>0, <1>1 DEF UidWasPresented, AnswerIsForThisCard, CardsSeen
<1>7. SetupFirst' /\ SetupFails'
    BY <1>0, <1>1 DEF SetupFirst, SetupFails
<1>8. Exchange' /\ AnswerReceived' /\ ResetAwaited'
    BY <1>0, <1>1 DEF Exchange, AnswerReceived, ResetAwaited
<1> QED BY <1>5, <1>6, <1>7, <1>8 DEF IndInv

\* A scan ends with the uid of a card, which goes to the server next.
LEMMA ScanStep ==
    ASSUME IndInv, NEW c \in Cards, pc = "response", call = "scan",
           ScanSucceeds(c), (c = found /\ UNCHANGED unread) \/ unread' = TRUE
    PROVE  IndInv'
<1>0. /\ TypeOK /\ UidWasPresented /\ AnswerIsForThisCard /\ CardsSeen
      /\ SetupFirst /\ SetupFails /\ Exchange /\ AnswerReceived /\ ResetAwaited
    BY DEF IndInv
<1>1. /\ UNCHANGED <<device, quiet, call, setupComplete, field, found, seen, sockets,
                  total, buffer, server, peer, toServer, taken, toClient,
                  reset>>
      /\ pc = "response" /\ call = "scan" /\ pc' = "send" /\ uidString' = c /\ c \in Cards
      /\ (c = found /\ UNCHANGED unread) \/ unread' = TRUE
      /\ NoCard \notin Cards
    BY BufferFacts DEF ScanSucceeds, busVars, chipVars, scanVars, bufferVars, serverVars, netVars
<1>5. TypeOK'
    BY <1>0, <1>1 DEF TypeOK
<1>6. UidWasPresented' /\ AnswerIsForThisCard' /\ CardsSeen'
    BY <1>0, <1>1 DEF UidWasPresented, AnswerIsForThisCard, CardsSeen
<1>7. SetupFirst' /\ SetupFails'
    BY <1>0, <1>1 DEF SetupFirst, SetupFails
<1>8. Exchange' /\ AnswerReceived' /\ ResetAwaited'
    BY <1>0, <1>1 DEF Exchange, AnswerReceived, ResetAwaited
<1> QED BY <1>5, <1>6, <1>7, <1>8 DEF IndInv

\* The driver reads on and on over a disturbed frame, or over a buffer nobody filled.
LEMMA HangStep ==
    ASSUME IndInv, pc = "response", (~quiet /\ Hang) \/ HangUnread
    PROVE  IndInv'
<1>0. /\ TypeOK /\ UidWasPresented /\ AnswerIsForThisCard /\ CardsSeen
      /\ SetupFirst /\ SetupFails /\ Exchange /\ AnswerReceived /\ ResetAwaited
    BY DEF IndInv
<1>1. /\ UNCHANGED <<device, quiet, call, setupComplete, uidString, field, found,
                  seen, sockets, total, buffer, server, peer, toServer, taken,
                  toClient, reset>>
      /\ pc = "response" /\ pc' = "hung"
      /\ (~quiet /\ UNCHANGED unread) \/ unread' = TRUE
    BY DEF Hang, HangUnread, busVars, chipVars, scanVars, bufferVars, serverVars, netVars
<1>5. TypeOK'
    BY <1>0, <1>1 DEF TypeOK
<1>6. UidWasPresented' /\ AnswerIsForThisCard' /\ CardsSeen'
    BY <1>0, <1>1 DEF UidWasPresented, AnswerIsForThisCard, CardsSeen
<1>7. SetupFirst' /\ SetupFails'
    BY <1>0, <1>1 DEF SetupFirst, SetupFails
<1>8. Exchange' /\ AnswerReceived' /\ ResetAwaited'
    BY <1>0, <1>1 DEF Exchange, AnswerReceived, ResetAwaited
<1> QED BY <1>5, <1>6, <1>7, <1>8 DEF IndInv

\* The set-up goes on.
LEMMA SetupStep ==
    ASSUME IndInv, pc = "response", call # "scan", SetupSucceeds
    PROVE  IndInv'
<1>0. /\ TypeOK /\ UidWasPresented /\ AnswerIsForThisCard /\ CardsSeen
      /\ SetupFirst /\ SetupFails /\ Exchange /\ AnswerReceived /\ ResetAwaited
    BY DEF IndInv
<1>1. /\ UNCHANGED <<device, quiet, uidString, field, found, seen, unread, sockets,
                  total, buffer, server, peer, toServer, taken, toClient,
                  reset>>
      /\ pc = "response" /\ call # "scan"
      /\ \/ pc' = "command" /\ call' = "sam" /\ setupComplete' = setupComplete
         \/ pc' = "connect" /\ call' = call /\ setupComplete' = TRUE
    BY DEF SetupSucceeds, busVars, chipVars, scanVars, bufferVars, serverVars, netVars
<1>5. TypeOK'
    BY <1>0, <1>1 DEF TypeOK
<1>6. UidWasPresented' /\ AnswerIsForThisCard' /\ CardsSeen'
    BY <1>0, <1>1 DEF UidWasPresented, AnswerIsForThisCard, CardsSeen
<1>7. SetupFirst' /\ SetupFails'
    BY <1>0, <1>1 DEF SetupFirst, SetupFails
<1>8. Exchange' /\ AnswerReceived' /\ ResetAwaited'
    BY <1>0, <1>1 DEF Exchange, AnswerReceived, ResetAwaited
<1> QED BY <1>5, <1>6, <1>7, <1>8 DEF IndInv

\* The response to a call of the set-up: it goes on, or ends without a result, or the
\* driver hangs.
LEMMA ReadSetupStep ==
    ASSUME IndInv, ReadSetup
    PROVE  IndInv'
<1>1. TypeOK /\ pc = "response" /\ call # "scan"
    BY DEF IndInv, ReadSetup
<1>2. CASE ~quiet /\ Hang
    BY <1>1, <1>2, HangStep
<1>3. CASE Fail
    BY <1>1, <1>3, FailStep
<1>4. CASE SetupSucceeds
    BY <1>1, <1>4, SetupStep
<1> QED BY <1>1, <1>2, <1>3, <1>4, ReadSetupFacts

\* The response to a scan: the uid of the card that was found, nothing, or a driver
\* that hangs.
LEMMA ReadScanStep ==
    ASSUME IndInv, ReadScan
    PROVE  IndInv'
<1>1. TypeOK /\ pc = "response" /\ call = "scan"
    BY DEF IndInv, ReadScan
<1>2. CASE ~quiet /\ Hang
    BY <1>1, <1>2, HangStep
<1>3. CASE Fail
    BY <1>1, <1>3, FailStep
<1>4. CASE found \in Cards /\ ScanSucceeds(found) /\ UNCHANGED unread
    BY <1>1, <1>4, ScanStep
<1> QED BY <1>1, <1>2, <1>3, <1>4, ReadScanFacts

----------------------------------------------------------------------------
(* The connection, and the answer. *)

\* Another socket, and still no server.
LEMMA ConnectFailsStep ==
    ASSUME IndInv, ConnectFails
    PROVE  IndInv'
<1>0. /\ TypeOK /\ UidWasPresented /\ AnswerIsForThisCard /\ CardsSeen
      /\ SetupFirst /\ SetupFails /\ Exchange /\ AnswerReceived /\ ResetAwaited
    BY DEF IndInv
<1>1. /\ UNCHANGED <<pc, device, quiet, call, setupComplete, uidString, field, found,
                  seen, unread, total, buffer, server, peer, toServer, taken,
                  toClient, reset>>
      /\ pc = "connect" /\ sockets < MaxSockets /\ sockets' = sockets + 1
    BY DEF ConnectFails, busVars, chipVars, scanVars, bufferVars, serverVars, netVars
<1>2. sockets' \in 0 .. MaxSockets
    BY <1>0, <1>1, ReaderAssumption DEF TypeOK
<1>5. TypeOK'
    BY <1>0, <1>1, <1>2 DEF TypeOK
<1>6. UidWasPresented' /\ AnswerIsForThisCard' /\ CardsSeen'
    BY <1>0, <1>1, <1>2 DEF UidWasPresented, AnswerIsForThisCard, CardsSeen
<1>7. SetupFirst' /\ SetupFails'
    BY <1>0, <1>1, <1>2 DEF SetupFirst, SetupFails
<1>8. Exchange' /\ AnswerReceived' /\ ResetAwaited'
    BY <1>0, <1>1, <1>2 DEF Exchange, AnswerReceived, ResetAwaited
<1> QED BY <1>5, <1>6, <1>7, <1>8 DEF IndInv

\* The one connection is made, or closed at once.
LEMMA ConnectStep ==
    ASSUME IndInv, Connect
    PROVE  IndInv'
<1>0. /\ TypeOK /\ UidWasPresented /\ AnswerIsForThisCard /\ CardsSeen
      /\ SetupFirst /\ SetupFails /\ Exchange /\ AnswerReceived /\ ResetAwaited
    BY DEF IndInv
<1>1. /\ UNCHANGED <<device, quiet, setupComplete, uidString, field, found, seen,
                  unread, total, buffer, server, toServer, taken, toClient,
                  reset>>
      /\ pc = "connect" /\ sockets < MaxSockets /\ sockets' = sockets + 1 /\ call' = "scan"
      /\ peer' = IF setupComplete THEN "open" ELSE "closed"
      /\ pc' = IF setupComplete THEN "command" ELSE "done"
    BY DEF Connect, busVars, chipVars, scanVars, bufferVars, serverVars, netVars
<1>2. sockets' \in 0 .. MaxSockets
    BY <1>0, <1>1, ReaderAssumption DEF TypeOK
<1>5. TypeOK'
    BY <1>0, <1>1, <1>2 DEF TypeOK
<1>6. UidWasPresented' /\ AnswerIsForThisCard' /\ CardsSeen'
    BY <1>0, <1>1, <1>2 DEF UidWasPresented, AnswerIsForThisCard, CardsSeen
<1>7. SetupFirst' /\ SetupFails'
    BY <1>0, <1>1, <1>2 DEF SetupFirst, SetupFails
<1>8. Exchange' /\ AnswerReceived' /\ ResetAwaited'
    <2>1. /\ toServer = <<>> /\ taken = NoCard /\ toClient = <<>> /\ reset = "no"
        BY <1>0, <1>1 DEF SetupFirst
    <2> QED BY <1>1, <2>1 DEF Exchange, AnswerReceived, ResetAwaited
<1> QED BY <1>5, <1>6, <1>7, <1>8 DEF IndInv

\* A card's line is sent; the client waits for its answer.
LEMMA SendStep ==
    ASSUME IndInv, Send
    PROVE  IndInv'
<1>0. /\ TypeOK /\ UidWasPresented /\ AnswerIsForThisCard /\ CardsSeen
      /\ SetupFirst /\ SetupFails /\ Exchange /\ AnswerReceived /\ ResetAwaited
    BY DEF IndInv
<1>1. /\ UNCHANGED <<device, quiet, call, setupComplete, uidString, field, found,
                  seen, unread, sockets, buffer, server, peer, taken,
                  toClient>>
      /\ pc = "send" /\ total' = 0
      /\ reset' = reset
      /\ \/ reset = "no" /\ pc' = "receive" /\ toServer' = Append(toServer, uidString)
         \/ reset = "broken" /\ pc' = "killed" /\ toServer' = toServer
    BY DEF Send, busVars, chipVars, scanVars, bufferVars, serverVars, netVars
<1>2. /\ uidString \in Cards /\ toServer \in Seq(Cards) /\ 0 \in Positions
      /\ Append(toServer, uidString) \in Seq(Cards)
    <2>1. uidString \in Cards /\ toServer \in Seq(Cards) /\ 0 \in Positions
        BY <1>0, <1>1, BufferFacts DEF CardsSeen, TypeOK
    <2> QED BY <2>1, AppendProperties
<1>3. toServer = <<>> => Append(toServer, uidString) = <<uidString>>
    OBVIOUS
<1>5. TypeOK'
    BY <1>0, <1>1, <1>2, <1>3 DEF TypeOK
<1>6. UidWasPresented' /\ AnswerIsForThisCard' /\ CardsSeen'
    BY <1>0, <1>1, <1>2, <1>3 DEF UidWasPresented, AnswerIsForThisCard, CardsSeen
<1>7. SetupFirst' /\ SetupFails'
    BY <1>0, <1>1, <1>2, <1>3 DEF SetupFirst, SetupFails
<1>8. Exchange' /\ AnswerReceived' /\ ResetAwaited'
    <2>1. ASSUME peer = "open"
          PROVE  /\ reset = "no" /\ toClient = <<>> /\ toServer = <<>> /\ taken = NoCard
        BY <1>0, <1>1, <2>1 DEF Exchange
    <2>2. Exchange'
        <3> SUFFICES ASSUME peer = "open" PROVE Exchange'
            BY <1>1 DEF Exchange
        <3>1. pc' = "receive" /\ toServer' = <<uidString>> /\ reset' = "no"
            BY <1>1, <1>3, <2>1
        <3> QED BY <1>1, <2>1, <3>1 DEF Exchange
    <2>3. AnswerReceived'
        <3>1. toClient \in {<<>>, <<Newline>>}
            BY <1>0, <1>1 DEF AnswerReceived
        <3> QED BY <1>1, <3>1 DEF AnswerReceived
    <2>4. ResetAwaited'
        BY <1>1 DEF ResetAwaited
    <2> QED BY <2>2, <2>3, <2>4
<1> QED BY <1>5, <1>6, <1>7, <1>8 DEF IndInv

\* What was received is shown; then comes the next card.
LEMMA FeedbackStep ==
    ASSUME IndInv, Feedback
    PROVE  IndInv'
<1>0. /\ TypeOK /\ UidWasPresented /\ AnswerIsForThisCard /\ CardsSeen
      /\ SetupFirst /\ SetupFails /\ Exchange /\ AnswerReceived /\ ResetAwaited
    BY DEF IndInv
<1>1. /\ UNCHANGED <<device, quiet, call, setupComplete, uidString, field, found,
                  seen, unread, sockets, total, buffer, server, peer,
                  toServer, taken, toClient, reset>>
      /\ pc = "feedback" /\ pc' = "command"
    BY DEF Feedback, busVars, chipVars, scanVars, bufferVars, serverVars, netVars
<1>5. TypeOK'
    BY <1>0, <1>1 DEF TypeOK
<1>6. UidWasPresented' /\ AnswerIsForThisCard' /\ CardsSeen'
    BY <1>0, <1>1 DEF UidWasPresented, AnswerIsForThisCard, CardsSeen
<1>7. SetupFirst' /\ SetupFails'
    BY <1>0, <1>1 DEF SetupFirst, SetupFails
<1>8. Exchange' /\ AnswerReceived' /\ ResetAwaited'
    BY <1>0, <1>1 DEF Exchange, AnswerReceived, ResetAwaited
<1> QED BY <1>5, <1>6, <1>7, <1>8 DEF IndInv

\* The reset is noticed: nothing is shown.
LEMMA ReceiveErrorStep ==
    ASSUME IndInv, ReceiveError
    PROVE  IndInv'
<1>0. /\ TypeOK /\ UidWasPresented /\ AnswerIsForThisCard /\ CardsSeen
      /\ SetupFirst /\ SetupFails /\ Exchange /\ AnswerReceived /\ ResetAwaited
    BY DEF IndInv
<1>1. /\ UNCHANGED <<device, quiet, call, setupComplete, uidString, field, found,
                  seen, unread, sockets, total, buffer, server, peer,
                  toServer, taken, toClient>>
      /\ pc = "receive" /\ toClient = <<>> /\ reset = "error" /\ reset' = "broken"
      /\ pc' = "command"
    BY DEF ReceiveError, busVars, chipVars, scanVars, bufferVars, serverVars, netVars
<1>5. TypeOK'
    BY <1>0, <1>1 DEF TypeOK
<1>6. UidWasPresented' /\ AnswerIsForThisCard' /\ CardsSeen'
    BY <1>0, <1>1 DEF UidWasPresented, AnswerIsForThisCard, CardsSeen
<1>7. SetupFirst' /\ SetupFails'
    BY <1>0, <1>1 DEF SetupFirst, SetupFails
<1>8. Exchange' /\ AnswerReceived' /\ ResetAwaited'
    BY <1>0, <1>1 DEF Exchange, AnswerReceived, ResetAwaited
<1> QED BY <1>5, <1>6, <1>7, <1>8 DEF IndInv

\* The text of the answer is kept, its end ends it.
LEMMA ReceiveByteStep ==
    ASSUME IndInv, ReceiveByte
    PROVE  IndInv'
<1>0. /\ TypeOK /\ UidWasPresented /\ AnswerIsForThisCard /\ CardsSeen
      /\ SetupFirst /\ SetupFails /\ Exchange /\ AnswerReceived /\ ResetAwaited
    BY DEF IndInv
<1>1. /\ UNCHANGED <<device, quiet, call, setupComplete, uidString, field, found,
                  seen, unread, sockets, server, peer, toServer, taken, reset>>
      /\ pc = "receive" /\ total < BufferSize - 1 /\ toClient # <<>>
      /\ toClient' = Tail(toClient)
      /\ \/ /\ Head(toClient) = Newline
            /\ buffer' = [buffer EXCEPT ![total] = Nul]
            /\ pc' = "feedback" /\ total' = total
         \/ /\ Head(toClient) # Newline
            /\ buffer' = [buffer EXCEPT ![total] = Head(toClient)]
            /\ total' = total + 1 /\ pc' = pc
    BY DEF ReceiveByte, EndAnswer, busVars, chipVars, scanVars, serverVars
<1>2. /\ total \in Positions /\ buffer \in [Positions -> ReceivedBytes]
      /\ uidString \in Cards \cup {NoCard} /\ call = "scan" /\ device /\ peer # "open"
    BY <1>0, <1>1 DEF TypeOK, SetupFirst, SetupFails, Exchange
<1>3. \/ toClient = <<Newline>> /\ toClient' = <<>>
         /\ buffer' = [buffer EXCEPT ![total] = Nul]
         /\ pc' = "feedback" /\ total' = total
      \/ toClient = Answer(uidString) /\ toClient' = <<Newline>>
         /\ buffer' = [buffer EXCEPT ![0] = Text(uidString)]
         /\ pc' = "receive" /\ total = 0 /\ total' = 1
    <2>1. CASE toClient = <<Newline>>
        <3>1. Head(toClient) = Newline /\ Tail(toClient) = <<>>
            BY <2>1
        <3> QED BY <1>1, <2>1, <3>1
    <2>2. CASE toClient = Answer(uidString) /\ total = 0
        <3>1. /\ Head(toClient) = Text(uidString) /\ Head(toClient) # Newline
              /\ Tail(toClient) = <<Newline>>
            BY <2>2, AnswerFacts
        <3> QED BY <1>1, <2>2, <3>1
    <2> QED BY <1>0, <1>1, <2>1, <2>2 DEF AnswerReceived
<1>4. /\ Nul \in ReceivedBytes /\ Text(uidString) \in ReceivedBytes
      /\ Newline \in ReceivedBytes
    BY <1>2, AnswerFacts DEF ReceivedBytes
<1>5. TypeOK'
    <2>1. total' \in Positions
        BY <1>2, <1>3, BufferFacts DEF Positions
    <2>2. buffer' \in [Positions -> ReceivedBytes]
        BY <1>2, <1>3, <1>4
    <2>3. toClient' \in Seq(ReceivedBytes)
        <3>1. toClient' = <<>> \/ toClient' = <<Newline>>
            BY <1>3
        <3>2. <<>> \in Seq(ReceivedBytes) /\ <<Newline>> \in Seq(ReceivedBytes)
            BY <1>4
        <3> QED BY <3>1, <3>2
    <2> QED BY <1>0, <1>1, <1>3, <2>1, <2>2, <2>3 DEF TypeOK
<1>6. AnswerIsForThisCard'
    <2> SUFFICES ASSUME pc' = "feedback" PROVE buffer'[0] \in {Text(uidString), Nul}
        BY <1>1 DEF AnswerIsForThisCard
    <2>1. buffer' = [buffer EXCEPT ![total] = Nul]
        BY <1>3
    <2>2. CASE total = 0
        BY <1>2, <2>1, <2>2, BufferFacts
    <2>3. CASE total # 0
        <3>1. total > 0 /\ 0 \in Positions
            BY <1>2, <2>3, BufferFacts DEF Positions
        <3>2. buffer[0] = Text(uidString)
            BY <1>0, <1>1, <3>1 DEF AnswerReceived
        <3> QED BY <1>2, <2>1, <2>3, <3>1, <3>2
    <2> QED BY <2>2, <2>3
<1>7. UidWasPresented' /\ CardsSeen'
    BY <1>0, <1>1, <1>3 DEF UidWasPresented, CardsSeen
<1>8. SetupFirst' /\ SetupFails' /\ Exchange'
    BY <1>0, <1>1, <1>2, <1>3 DEF SetupFirst, SetupFails, Exchange
<1>9. AnswerReceived'
    <2>1. CASE pc' = "feedback"
        BY <1>3, <2>1 DEF AnswerReceived
    <2>2. CASE pc' = "receive"
        <3>1. toClient' = <<Newline>> /\ buffer' = [buffer EXCEPT ![0] = Text(uidString)]
            BY <1>3, <2>2
        <3>2. buffer'[0] = Text(uidString)
            BY <1>2, <3>1, BufferFacts
        <3> QED BY <1>1, <3>1, <3>2 DEF AnswerReceived
    <2> QED BY <1>3, <2>1, <2>2
<1>10. ResetAwaited'
    BY <1>0, <1>1 DEF ResetAwaited
<1> QED BY <1>5, <1>6, <1>7, <1>8, <1>9, <1>10 DEF IndInv

\* No more comes, or no more fits: by then there is something to show, and it is
\* this card's.
LEMMA ReceiveNoMoreStep ==
    ASSUME IndInv, ReceiveNoMore
    PROVE  IndInv'
<1>0. /\ TypeOK /\ UidWasPresented /\ AnswerIsForThisCard /\ CardsSeen
      /\ SetupFirst /\ SetupFails /\ Exchange /\ AnswerReceived /\ ResetAwaited
    BY DEF IndInv
<1>1. /\ UNCHANGED <<device, quiet, call, setupComplete, uidString, field, found,
                  seen, unread, sockets, total, server, peer, toServer, taken,
                  toClient, reset>>
      /\ pc = "receive" /\ pc' = "feedback"
      /\ buffer' = [buffer EXCEPT ![total] = Nul]
      /\ \/ total = BufferSize - 1
         \/ toClient = <<>> /\ peer = "closed" /\ reset # "error"
    BY DEF ReceiveNoMore, EndAnswer, busVars, chipVars, scanVars, bufferVars,
           serverVars, netVars
<1>2. /\ total \in Positions /\ buffer \in [Positions -> ReceivedBytes]
      /\ Nul \in ReceivedBytes /\ call = "scan" /\ device
    BY <1>0, <1>1, AnswerFacts DEF TypeOK, SetupFirst, SetupFails
<1>3. peer # "open"
    <2>1. ASSUME peer = "open" PROVE FALSE
        <3>1. reset = "no" /\ total = 0
            BY <1>0, <1>1, <2>1 DEF Exchange
        <3> QED BY <1>1, <2>1, <3>1, BufferFacts
    <2> QED BY <2>1
<1>4. toClient \in {<<>>, <<Newline>>}
    <2>1. ASSUME toClient = Answer(uidString), total = 0 PROVE FALSE
        BY <1>1, <2>1, AnswerFacts, BufferFacts
    <2> QED BY <1>0, <2>1 DEF AnswerReceived
<1>5. TypeOK'
    <2>1. buffer' \in [Positions -> ReceivedBytes]
        BY <1>1, <1>2
    <2> QED BY <1>0, <1>1, <2>1 DEF TypeOK
<1>6. AnswerIsForThisCard'
    <2>1. CASE total = 0
        BY <1>1, <1>2, <2>1, BufferFacts DEF AnswerIsForThisCard
    <2>2. CASE total # 0
        <3>1. total > 0 /\ 0 \in Positions
            BY <1>2, <2>2, BufferFacts DEF Positions
        <3>2. buffer[0] = Text(uidString)
            BY <1>0, <1>1, <3>1 DEF AnswerReceived
        <3>3. buffer'[0] = Text(uidString)
            BY <1>1, <1>2, <2>2, <3>1, <3>2
        <3> QED BY <1>1, <3>3 DEF AnswerIsForThisCard
    <2> QED BY <2>1, <2>2
<1>7. UidWasPresented' /\ CardsSeen'
    BY <1>0, <1>1 DEF UidWasPresented, CardsSeen
<1>8. SetupFirst' /\ SetupFails' /\ Exchange'
    BY <1>0, <1>1, <1>2, <1>3 DEF SetupFirst, SetupFails, Exchange
<1>9. AnswerReceived'
    BY <1>1, <1>4 DEF AnswerReceived
<1>10. ResetAwaited'
    <2>1. reset # "error"
        <3>1. total # BufferSize - 1 \/ total # 0
            BY BufferFacts
        <3> QED BY <1>0, <1>1, <3>1 DEF ResetAwaited
    <2> QED BY <1>1, <2>1 DEF ResetAwaited
<1> QED BY <1>5, <1>6, <1>7, <1>8, <1>9, <1>10 DEF IndInv

----------------------------------------------------------------------------
(* The server. *)

\* The server comes up.
LEMMA ServerStartsStep ==
    ASSUME IndInv, ServerStarts
    PROVE  IndInv'
<1>0. /\ TypeOK /\ UidWasPresented /\ AnswerIsForThisCard /\ CardsSeen
      /\ SetupFirst /\ SetupFails /\ Exchange /\ AnswerReceived /\ ResetAwaited
    BY DEF IndInv
<1>1. /\ UNCHANGED <<pc, device, quiet, call, setupComplete, uidString, field, found,
                  seen, unread, sockets, total, buffer, peer, toServer,
                  taken, toClient, reset>>
      /\ server' = "up"
    BY DEF ServerStarts, busVars, chipVars, scanVars, bufferVars, serverVars, netVars
<1>5. TypeOK'
    BY <1>0, <1>1 DEF TypeOK
<1>6. UidWasPresented' /\ AnswerIsForThisCard' /\ CardsSeen'
    BY <1>0, <1>1 DEF UidWasPresented, AnswerIsForThisCard, CardsSeen
<1>7. SetupFirst' /\ SetupFails'
    BY <1>0, <1>1 DEF SetupFirst, SetupFails
<1>8. Exchange' /\ AnswerReceived' /\ ResetAwaited'
    BY <1>0, <1>1 DEF Exchange, AnswerReceived, ResetAwaited
<1> QED BY <1>5, <1>6, <1>7, <1>8 DEF IndInv

\* The server dies, and with it its end of the connection.
LEMMA ServerDiesStep ==
    ASSUME IndInv, ServerDies
    PROVE  IndInv'
<1>0. /\ TypeOK /\ UidWasPresented /\ AnswerIsForThisCard /\ CardsSeen
      /\ SetupFirst /\ SetupFails /\ Exchange /\ AnswerReceived /\ ResetAwaited
    BY DEF IndInv
<1>1. /\ UNCHANGED <<pc, device, quiet, call, setupComplete, uidString, field, found,
                  seen, unread, sockets, total, buffer, toClient>>
      /\ server' = "down" /\ peer' = (IF peer = "open" THEN "closed" ELSE peer) /\ taken' = NoCard
      /\ \/ toServer' = toServer /\ reset' = reset
         \/ peer = "open" /\ toServer # <<>> /\ toServer' = <<>> /\ reset' = "error"
    BY DEF ServerDies, busVars, chipVars, scanVars, bufferVars, serverVars, netVars
<1>2. ASSUME peer = "open", toServer # <<>>
      PROVE  call = "scan" /\ pc = "receive" /\ total = 0 /\ toClient = <<>>
    BY <1>0, <1>2 DEF SetupFirst, Exchange
<1>3. toServer' \in Seq(Cards)
    <2>1. toServer \in Seq(Cards) /\ <<>> \in Seq(Cards)
        BY <1>0 DEF TypeOK
    <2> QED BY <1>1, <2>1
<1>4. reset' \in {"no", "error", "broken"} /\ peer' \in {"none", "open", "closed"}
    BY <1>0, <1>1 DEF TypeOK
<1>5. TypeOK'
    <2>1. server' \in {"down", "up"}
        BY <1>1
    <2>2. {uidString, field, found, taken'} \subseteq Cards \cup {NoCard}
        BY <1>0, <1>1 DEF TypeOK
    <2> QED BY <1>0, <1>1, <1>3, <1>4, <2>1, <2>2 DEF TypeOK
<1>6. UidWasPresented' /\ AnswerIsForThisCard' /\ CardsSeen'
    BY <1>0, <1>1 DEF UidWasPresented, AnswerIsForThisCard, CardsSeen
<1>7. SetupFirst' /\ SetupFails'
    BY <1>0, <1>1, <1>2 DEF SetupFirst, SetupFails
<1>8. Exchange' /\ AnswerReceived' /\ ResetAwaited'
    BY <1>0, <1>1, <1>2 DEF Exchange, AnswerReceived, ResetAwaited
<1> QED BY <1>5, <1>6, <1>7, <1>8 DEF IndInv

\* The server takes the line.
LEMMA ServerReadsStep ==
    ASSUME IndInv, ServerReads
    PROVE  IndInv'
<1>0. /\ TypeOK /\ UidWasPresented /\ AnswerIsForThisCard /\ CardsSeen
      /\ SetupFirst /\ SetupFails /\ Exchange /\ AnswerReceived /\ ResetAwaited
    BY DEF IndInv
<1>1. /\ UNCHANGED <<pc, device, quiet, call, setupComplete, uidString, field, found,
                  seen, unread, sockets, total, buffer, server, peer,
                  toClient, reset>>
      /\ peer = "open" /\ taken = NoCard /\ toServer # <<>>
      /\ taken' = Head(toServer) /\ toServer' = Tail(toServer)
    BY DEF ServerReads, busVars, chipVars, scanVars, bufferVars, serverVars, netVars
<1>2. /\ toServer \in Seq(Cards) /\ Head(toServer) \in Cards /\ Tail(toServer) \in Seq(Cards)
      /\ toServer = <<uidString>> => Head(toServer) = uidString /\ Tail(toServer) = <<>>
      /\ device
    <2>1. toServer \in Seq(Cards) /\ device
        BY <1>0, <1>1 DEF TypeOK, SetupFails
    <2> QED BY <1>1, <2>1, FromFront
<1>5. TypeOK'
    BY <1>0, <1>1, <1>2 DEF TypeOK
<1>6. UidWasPresented' /\ AnswerIsForThisCard' /\ CardsSeen'
    BY <1>0, <1>1, <1>2 DEF UidWasPresented, AnswerIsForThisCard, CardsSeen
<1>7. SetupFirst' /\ SetupFails'
    BY <1>0, <1>1, <1>2 DEF SetupFirst, SetupFails
<1>8. Exchange' /\ AnswerReceived' /\ ResetAwaited'
    BY <1>0, <1>1, <1>2 DEF Exchange, AnswerReceived, ResetAwaited
<1> QED BY <1>5, <1>6, <1>7, <1>8 DEF IndInv

\* The line is answered and the connection closed.
LEMMA ServerRejectsStep ==
    ASSUME IndInv, ServerRejects
    PROVE  IndInv'
<1>0. /\ TypeOK /\ UidWasPresented /\ AnswerIsForThisCard /\ CardsSeen
      /\ SetupFirst /\ SetupFails /\ Exchange /\ AnswerReceived /\ ResetAwaited
    BY DEF IndInv
<1>1. /\ UNCHANGED <<pc, device, quiet, call, setupComplete, uidString, field, found,
                  seen, unread, sockets, total, buffer, server, toServer,
                  reset>>
      /\ peer = "open" /\ taken # NoCard /\ taken' = NoCard /\ peer' = "closed"
      /\ toClient' = toClient \o Answer(taken)
    BY DEF ServerRejects, busVars, chipVars, scanVars, bufferVars, serverVars, netVars
<1>2. /\ pc = "receive" /\ total = 0 /\ taken = uidString /\ call = "scan"
      /\ toClient' = Answer(uidString)
    <2>1. pc = "receive" /\ total = 0 /\ taken = uidString /\ toClient = <<>> /\ call = "scan"
        BY <1>0, <1>1 DEF Exchange, SetupFirst
    <2> QED BY <1>1, <2>1, AnswerFacts
<1>3. toClient' \in Seq(ReceivedBytes)
    <2>1. uidString \in Cards \cup {NoCard}
        BY <1>0 DEF TypeOK
    <2> QED BY <1>2, <2>1, AnswerFacts
<1>5. TypeOK'
    BY <1>0, <1>1, <1>2, <1>3 DEF TypeOK
<1>6. UidWasPresented' /\ AnswerIsForThisCard' /\ CardsSeen'
    BY <1>0, <1>1, <1>2, <1>3 DEF UidWasPresented, AnswerIsForThisCard, CardsSeen
<1>7. SetupFirst' /\ SetupFails'
    BY <1>0, <1>1, <1>2, <1>3 DEF SetupFirst, SetupFails
<1>8. Exchange' /\ AnswerReceived' /\ ResetAwaited'
    BY <1>0, <1>1, <1>2, <1>3 DEF Exchange, AnswerReceived, ResetAwaited
<1> QED BY <1>5, <1>6, <1>7, <1>8 DEF IndInv

\* What is sent to a closed end is answered with a reset.
LEMMA ResetStep ==
    ASSUME IndInv, Reset
    PROVE  IndInv'
<1>0. /\ TypeOK /\ UidWasPresented /\ AnswerIsForThisCard /\ CardsSeen
      /\ SetupFirst /\ SetupFails /\ Exchange /\ AnswerReceived /\ ResetAwaited
    BY DEF IndInv
<1>1. /\ UNCHANGED <<pc, device, quiet, call, setupComplete, uidString, field, found,
                  seen, unread, sockets, total, buffer, server, peer, taken,
                  toClient>>
      /\ peer = "closed" /\ toServer' = <<>> /\ reset' = "broken"
    BY DEF Reset, busVars, chipVars, scanVars, bufferVars, serverVars, netVars
<1>2. toServer' \in Seq(Cards) /\ call = "scan"
    BY <1>0, <1>1 DEF SetupFirst
<1>5. TypeOK'
    BY <1>0, <1>1, <1>2 DEF TypeOK
<1>6. UidWasPresented' /\ AnswerIsForThisCard' /\ CardsSeen'
    BY <1>0, <1>1, <1>2 DEF UidWasPresented, AnswerIsForThisCard, CardsSeen
<1>7. SetupFirst' /\ SetupFails'
    BY <1>0, <1>1, <1>2 DEF SetupFirst, SetupFails
<1>8. Exchange' /\ AnswerReceived' /\ ResetAwaited'
    BY <1>0, <1>1, <1>2 DEF Exchange, AnswerReceived, ResetAwaited
<1> QED BY <1>5, <1>6, <1>7, <1>8 DEF IndInv

----------------------------------------------------------------------------
\* The invariant is kept by every step, and by no step.
LEMMA NextIndInv == IndInv /\ [Next]_vars => IndInv'
<1> SUFFICES ASSUME IndInv, [Next]_vars PROVE IndInv'
    OBVIOUS
<1>1. CASE Present
    BY <1>1, PresentStep
<1>2. CASE Find
    BY <1>2, FindStep
<1>3. CASE Client
    <2>1. CASE WriteCommand
        BY <2>1, WriteCommandStep
    <2>2. CASE ReadAck
        BY <2>2, ReadAckStep
    <2>3. CASE WaitTimesOut \/ AckRefused
        BY <2>3, FailStep DEF WaitTimesOut, AckRefused
    <2>4. CASE ReadSetup
        BY <2>4, ReadSetupStep
    <2>5. CASE ReadScan
        BY <2>5, ReadScanStep
    <2>6. CASE ReadNothing
        BY <2>6, FailStep, HangStep, ScanStep DEF ReadNothing
    <2>7. CASE ConnectFails
        BY <2>7, ConnectFailsStep
    <2>8. CASE Connect
        BY <2>8, ConnectStep
    <2>9. CASE Send
        BY <2>9, SendStep
    <2>10. CASE ReceiveByte
        BY <2>10, ReceiveByteStep
    <2>11. CASE ReceiveNoMore
        BY <2>11, ReceiveNoMoreStep
    <2>12. CASE ReceiveError
        BY <2>12, ReceiveErrorStep
    <2>13. CASE Feedback
        BY <2>13, FeedbackStep
    <2> QED BY <1>3, <2>1, <2>2, <2>3, <2>4, <2>5, <2>6, <2>7, <2>8, <2>9, <2>10, <2>11,
               <2>12, <2>13 DEF Client
<1>4. CASE ServerStarts
    BY <1>4, ServerStartsStep
<1>5. CASE ServerDies
    BY <1>5, ServerDiesStep
<1>6. CASE Serve
    BY <1>6, ServerReadsStep, ServerRejectsStep, ResetStep DEF Serve
<1>7. CASE UNCHANGED vars
    <2>1. UNCHANGED <<pc, device, quiet, call, setupComplete, uidString, field, found,
                      seen, unread, sockets, total, buffer, server, peer, toServer,
                      taken, toClient, reset>>
        BY <1>7 DEF vars, busVars, scanVars, bufferVars, serverVars, netVars
    <2>2. TypeOK' /\ UidWasPresented' /\ AnswerIsForThisCard'
        BY <2>1 DEF IndInv, TypeOK, UidWasPresented, AnswerIsForThisCard
    <2>3. CardsSeen' /\ SetupFirst' /\ SetupFails'
        BY <2>1 DEF IndInv, CardsSeen, SetupFirst, SetupFails
    <2>4. Exchange' /\ AnswerReceived' /\ ResetAwaited'
        BY <2>1 DEF IndInv, Exchange, AnswerReceived, ResetAwaited
    <2> QED BY <2>2, <2>3, <2>4 DEF IndInv
<1> QED BY <1>1, <1>2, <1>3, <1>4, <1>5, <1>6, <1>7 DEF Next

----------------------------------------------------------------------------
(* What holds of every behaviour. *)

\* A card, the line with its uid and the answer to it follow one another.
THEOREM Inductive == Spec => []IndInv
<1> QED BY InitIndInv, NextIndInv, PTL DEF Spec

\* The variables keep to their types: the client sends no uid but that of a card.
THEOREM TypeCorrect == Spec => []TypeOK
<1>1. IndInv => TypeOK
    BY DEF IndInv
<1> QED BY <1>1, Inductive, PTL

\* The uid that is sent is that of a card that was in front of the reader during
\* the call, whatever one byte of the response was disturbed; or the read failed.
THEOREM Presented == Spec => []UidWasPresented
<1>1. IndInv => UidWasPresented
    BY DEF IndInv
<1> QED BY <1>1, Inductive, PTL

\* What is shown for a card is the answer to its own line, or nothing, however
\* the server dies, restarts and closes.
THEOREM RightAnswer == Spec => []AnswerIsForThisCard
<1>1. IndInv => AnswerIsForThisCard
    BY DEF IndInv
<1> QED BY <1>1, Inductive, PTL

\* The server never has two lines of the client's to handle.
THEOREM OneLine == Spec => []OneLineAtATime
<1>1. ASSUME IndInv PROVE OneLineAtATime
    <2> SUFFICES ASSUME peer = "open"
                 PROVE  Len(toServer) + (IF taken = NoCard THEN 0 ELSE 1) <= 1
        BY DEF OneLineAtATime
    <2>1. \/ toServer = <<uidString>> /\ taken = NoCard
          \/ toServer = <<>>
        BY <1>1 DEF IndInv, Exchange
    <2>2. Len(<<uidString>>) = 1 /\ Len(<<>>) = 0
        OBVIOUS
    <2> QED BY <2>1, <2>2
<1> QED BY <1>1, Inductive, PTL

\* Without a bus nothing is scanned and nothing is asked.
THEOREM NoDevice == Spec => []NothingWithoutDevice
<1>1. IndInv => NothingWithoutDevice
    BY DEF IndInv, SetupFails, NothingWithoutDevice
<1> QED BY <1>1, Inductive, PTL

\* On a quiet bus the driver hangs over no frame, and a scan that ends with a uid
\* ends with the whole uid of the card the chip has found.
THEOREM QuietScan == Spec => QuietBusReadsCard
<1> DEFINE Reads == quiet /\ ~unread' =>
                        /\ pc' # "hung"
                        /\ pc # "send" /\ pc' = "send" => uidString' = found
<1>1. ASSUME IndInv, [Next]_vars PROVE [Reads]_vars
    <2> SUFFICES ASSUME quiet, ~unread', pc' = "hung" \/ (pc # "send" /\ pc' = "send"), Next
                 PROVE  pc' = "send" /\ uidString' = found
        BY <1>1
    <2>1. pc # "hung" /\ TypeOK
        <3>1. TypeOK /\ (~unread => pc # "hung")
            BY <1>1 DEF IndInv, CardsSeen
        <3>2. CASE pc = "hung"
            <4>1. UNCHANGED unread
                <5>1. ~Client
                    BY <3>2 DEF Client, WriteCommand, WaitTimesOut, ReadAck, AckRefused, ReadSetup,
                                ReadScan, ReadNothing, ConnectFails, Connect, Send, ReceiveByte,
                                ReceiveNoMore, ReceiveError, Feedback
                <5> QED BY <5>1 DEF Next, Present, Find, ServerStarts, ServerDies, Serve,
                                ServerReads, ServerRejects, Reset, scanVars
            <4>2. ~unread
                BY <4>1
            <4> QED BY <3>1, <3>2, <4>2
        <3> QED BY <3>1, <3>2
    <2>2. ReadScan \/ ReadNothing
        <3>1. ASSUME UNCHANGED pc PROVE FALSE
            BY <2>1, <3>1
        <3>2. ASSUME Present \/ Find \/ ServerStarts \/ ServerDies \/ Serve PROVE UNCHANGED pc
            BY <3>2 DEF Present, Find, ServerStarts, ServerDies, Serve, ServerReads,
                        ServerRejects, Reset
        <3>3. ASSUME WriteCommand \/ ReadAck PROVE FALSE
            BY <3>3 DEF WriteCommand, ReadAck
        <3>4. ASSUME WaitTimesOut \/ AckRefused PROVE FALSE
            BY <3>4 DEF WaitTimesOut, AckRefused, Fail
        <3>5. ASSUME ConnectFails \/ Connect PROVE FALSE
            BY <3>1, <3>5 DEF ConnectFails, Connect
        <3>6. ASSUME Send \/ ReceiveError \/ Feedback PROVE FALSE
            BY <3>6 DEF Send, ReceiveError, Feedback
        <3>7. ASSUME ReceiveByte \/ ReceiveNoMore PROVE FALSE
            BY <3>1, <3>7 DEF ReceiveByte, ReceiveNoMore, EndAnswer
        <3>8. ASSUME ReadSetup PROVE FALSE
            BY <2>1, <3>8, ReadSetupFacts DEF Fail, SetupSucceeds
        <3> QED BY <3>1, <3>2, <3>3, <3>4, <3>5, <3>6, <3>7, <3>8 DEF Next, Client
    <2>3. CASE ReadScan
        <3>1. ASSUME Fail PROVE FALSE
            BY <3>1 DEF Fail
        <3> QED BY <2>1, <2>3, <3>1, ReadScanFacts DEF ScanSucceeds
    <2>4. CASE ReadNothing
        BY <2>4 DEF ReadNothing, Fail, HangUnread, ScanSucceeds
    <2> QED BY <2>2, <2>3, <2>4
<1>2. QuietBusReadsCard <=> [][Reads]_vars
    BY DEF QuietBusReadsCard
<1> QED BY <1>1, <1>2, Inductive, PTL DEF Spec
=============================================================================
