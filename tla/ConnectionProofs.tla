-------------------------- MODULE ConnectionProofs --------------------------
(***************************************************************************)
(* The inductive invariant of Connection and what follows from it, for any *)
(* pool of threads and any number of lines.                                *)
(***************************************************************************)
EXTENDS Connection, DataLemmas, FiniteSetTheorems

----------------------------------------------------------------------------
(* Pieces of lines. *)

\* A whole line is one piece, which ends it.
LEMMA WholeLineFacts ==
    ASSUME NEW i
    PROVE  /\ Len(WholeLine(i)) = 1 /\ DOMAIN WholeLine(i) = {1}
           /\ WholeLine(i) # <<>> /\ WholeLine(i)[1].line = i /\ WholeLine(i)[1].end
           /\ HasLine(WholeLine(i)) /\ <<WholeLine(i)[1]>> = WholeLine(i)
           /\ i \in 1 .. MaxLines => WholeLine(i) \in Seq(Pieces)
<1>1. i \in 1 .. MaxLines => WholeLine(i) \in Seq(Pieces)
    BY DEF WholeLine, Pieces
<1>2. /\ Len(WholeLine(i)) = 1 /\ DOMAIN WholeLine(i) = {1}
      /\ WholeLine(i) # <<>> /\ WholeLine(i)[1].line = i /\ WholeLine(i)[1].end
    BY DEF WholeLine
<1> QED BY <1>1, <1>2 DEF HasLine, WholeLine

\* getline finds the first newline of a buffer that has one.
LEMMA FirstLineFacts ==
    ASSUME NEW got \in Seq(Pieces), HasLine(got)
    PROVE  /\ FirstLine(got) \in Seq(Pieces)
           /\ got[1].end => FirstLine(got) = <<got[1]>>
<1> DEFINE IsFirst(i) == got[i].end /\ \A j \in 1 .. i - 1 : ~got[j].end
           k == CHOOSE i \in DOMAIN got : IsFirst(i)
           ends == {i \in DOMAIN got : got[i].end}
<1>1. Len(got) \in Nat /\ DOMAIN got = 1 .. Len(got)
    BY LenProperties
<1>2. ends \subseteq Nat /\ ends # {}
    BY <1>1 DEF HasLine
<1>3. PICK i \in ends : \A j \in ends : i <= j
    <2> HIDE DEF ends
    <2> QED BY <1>2, SmallestExists
<1>4. IsFirst(i) /\ i \in DOMAIN got
    BY <1>1, <1>3
<1>5. k \in DOMAIN got /\ IsFirst(k)
    <2> HIDE DEF IsFirst
    <2> QED BY <1>4
<1>6. FirstLine(got) = SubSeq(got, 1, k)
    BY DEF FirstLine
<1>7. k \in 1 .. Len(got) /\ \A j \in 1 .. k : got[j] \in Pieces
    <2>1. k \in 1 .. Len(got)
        BY <1>1, <1>5
    <2>2. \A j \in 1 .. k : j \in 1 .. Len(got)
        BY <1>1, <2>1
    <2> QED BY <2>1, <2>2, ElementOfSeq
<1>8. SubSeq(got, 1, k) \in Seq(Pieces)
    <2> HIDE DEF k
    <2>1. 1 \in Int /\ k \in Int
        BY <1>1, <1>7
    <2> QED BY <1>7, <2>1, SubSeqProperties
<1>9. ASSUME got[1].end PROVE SubSeq(got, 1, k) = <<got[1]>>
    <2>1. k = 1
        <3>1. ~(1 \in 1 .. k - 1)
            BY <1>5, <1>9
        <3> HIDE DEF k
        <3> QED BY <1>1, <1>7, <3>1
    <2>2. SubSeq(got, 1, 1) \in Seq(Pieces) /\ Len(SubSeq(got, 1, 1)) = 1
          /\ SubSeq(got, 1, 1)[1] = got[1]
        BY <1>7, <2>1, SubSeqProperties
    <2>3. <<got[1]>> \in Seq(Pieces)
        BY <1>7, <2>1
    <2>4. SubSeq(got, 1, 1) = <<got[1]>>
        <3>1. Len(<<got[1]>>) = 1 /\ <<got[1]>>[1] = got[1]
            OBVIOUS
        <3>2. \A n \in 1 .. Len(SubSeq(got, 1, 1)) : SubSeq(got, 1, 1)[n] = <<got[1]>>[n]
            BY <2>2, <3>1
        <3> HIDE DEF k, ends
        <3> QED BY <2>2, <2>3, <3>1, <3>2, SeqEqual, Zenon
    <2> QED BY <2>1, <2>4
<1> QED BY <1>6, <1>8, <1>9

----------------------------------------------------------------------------
(* What the steps do to the threads and the queues. *)

\* A thread that is not idle runs a handler.
LEMMA BusyFacts ==
    ASSUME TypeOK
    PROVE  /\ \A t \in Threads : t \in Busy <=> running[t] \in Runs
           /\ \A t \in Busy :
                /\ t \in Threads /\ running[t].handler \in Handlers
                /\ running[t].got \in Seq(Pieces)
                /\ running[t].step \in {"handle", "again", "repeat"}
           /\ IsFiniteSet(Busy) /\ Cardinality(Busy) \in Nat
           /\ IsFiniteSet(AtStep("again")) /\ Cardinality(AtStep("again")) \in Nat
<1>1. \A t \in Threads : t \in Busy <=> running[t] \in Runs
    BY IdleAssumption DEF TypeOK, Busy
<1>2. Busy \subseteq Threads /\ AtStep("again") \subseteq Threads
    BY DEF Busy, AtStep
<1>3. IsFiniteSet(Busy) /\ IsFiniteSet(AtStep("again"))
    BY <1>2, ThreadsAssumption, FS_Subset
<1>4. Busy \subseteq Threads
    BY DEF Busy
<1> QED BY <1>1, <1>3, <1>4, FS_CardinalityType DEF Runs

\* A handler goes on to its next step.
LEMMA GotoFacts ==
    ASSUME TypeOK, NEW t \in Busy, NEW x \in {"again", "repeat"}, Goto(t, x)
    PROVE  /\ running' \in [Threads -> Runs \cup {Idle, Gone}]
           /\ \A u \in Threads : u # t => running'[u] = running[u]
           /\ running'[t].step = x /\ running'[t].handler = running[t].handler
           /\ running'[t].got = running[t].got
           /\ Busy' = Busy /\ AtStep("handle")' = AtStep("handle") \ {t}
           /\ AtStep("again")' = IF x = "again" THEN AtStep("again") \cup {t}
                                 ELSE AtStep("again") \ {t}
<1>1. t \in Threads /\ running[t] \in Runs /\ running \in [Threads -> Runs \cup {Idle, Gone}]
    BY BusyFacts DEF Busy, TypeOK
<1> DEFINE r == [running[t] EXCEPT !.step = x]
<1>2. r \in Runs /\ r.step = x /\ r.handler = running[t].handler /\ r.got = running[t].got
    BY <1>1 DEF Runs
<1>3. running' = [running EXCEPT ![t] = r]
    BY DEF Goto
<1>4. /\ running' \in [Threads -> Runs \cup {Idle, Gone}]
      /\ running'[t] = r /\ \A u \in Threads : u # t => running'[u] = running[u]
    <2> HIDE DEF r
    <2> QED BY <1>1, <1>2, <1>3
<1>5. running'[t] \notin {Idle, Gone} /\ running[t] \notin {Idle, Gone}
    BY <1>1, <1>2, <1>4, IdleAssumption
<1>6. Busy' = Busy
    BY <1>1, <1>4, <1>5 DEF Busy
<1>7. AtStep("handle")' = AtStep("handle") \ {t}
    BY <1>1, <1>2, <1>4, <1>6 DEF AtStep, Busy
<1>8. AtStep("again")' = IF x = "again" THEN AtStep("again") \cup {t} ELSE AtStep("again") \ {t}
    BY <1>1, <1>2, <1>4, <1>6 DEF AtStep, Busy
<1> QED BY <1>2, <1>4, <1>6, <1>7, <1>8

\* A read that is started has nothing yet and is the last to be served.
LEMMA StartReadFacts ==
    ASSUME TypeOK, NEW h \in Handlers, reads' = StartRead(reads, h)
    PROVE  /\ reads' \in Seq(Reads) /\ reads' # <<>>
           /\ Len(reads) \in Nat /\ Len(reads') = Len(reads) + 1
           /\ \A i \in DOMAIN reads' :
                \/ i \in DOMAIN reads /\ reads'[i] = reads[i]
                \/ reads'[i].got = <<>> /\ reads'[i].handler = h
           /\ \A i \in DOMAIN reads' : ~HasLine(reads'[i].got)
           /\ reads # <<>> => Head(reads') = Head(reads)
           /\ reads = <<>> => Head(reads').handler = h
<1> DEFINE r == [handler |-> h, got |-> <<>>]
<1>1. r \in Reads /\ r.handler = h /\ r.got = <<>>
    BY DEF Reads
<1>2. reads \in Seq(Reads) /\ reads' = Append(reads, r)
    BY DEF TypeOK, StartRead
<1>3. ~HasLine(<<>>)
    BY DEF HasLine
<1>4. reads = <<>> => Head(reads') = r
    <2> HIDE DEF r
    <2> QED BY <1>1, <1>2, HeadTailAppend
<1> HIDE DEF r
<1>5. /\ reads' \in Seq(Reads) /\ reads' # <<>>
      /\ Len(reads) \in Nat /\ Len(reads') = Len(reads) + 1
      /\ \A i \in DOMAIN reads' : i \in DOMAIN reads \/ i = Len(reads) + 1
      /\ \A i \in DOMAIN reads : reads'[i] = reads[i]
      /\ reads'[Len(reads) + 1] = r
      /\ reads # <<>> => Head(reads') = Head(reads)
    BY <1>1, <1>2, AtBack
<1>6. \A i \in DOMAIN reads' :
        \/ i \in DOMAIN reads /\ reads'[i] = reads[i]
        \/ reads'[i].got = <<>> /\ reads'[i].handler = h
    BY <1>1, <1>5
<1>7. \A i \in DOMAIN reads' : ~HasLine(reads'[i].got)
    BY <1>3, <1>6 DEF TypeOK
<1> QED BY <1>1, <1>4, <1>5, <1>6, <1>7

\* What the history counts, of the entry that is added to it.
LEMMA LogFacts ==
    ASSUME TypeOK, NEW h \in Handlers, NEW got \in Seq(Pieces), NEW threw \in BOOLEAN,
           lines' = lines,
           log' = Append(log, [handler |-> h, got |-> got, threw |-> threw])
    PROVE  /\ log' \in Seq(Entries) /\ log' # <<>>
           /\ Len(log) \in Nat /\ Len(log') = Len(log) + 1
           /\ DOMAIN log = 1 .. Len(log) /\ DOMAIN log' = 1 .. Len(log) + 1
           /\ \A i \in DOMAIN log : log'[i] = log[i]
           /\ log'[Len(log) + 1].handler = h /\ log'[Len(log) + 1].got = got
           /\ Cardinality(Users) \in Nat
           /\ Cardinality(Users') =
                Cardinality(Users) + (IF h = "uid" /\ ~threw THEN 1 ELSE 0)
           /\ Cardinality(Added) \in Nat
           /\ Cardinality(Added') =
                Cardinality(Added)
                    + (IF h = "cli" /\ ~threw /\ lines[got[1].line] = "newUser" THEN 1 ELSE 0)
           /\ Cardinality(Thrown) \in Nat
           /\ Cardinality(Thrown') = Cardinality(Thrown) + (IF threw THEN 1 ELSE 0)
<1> DEFINE E == Entries
           e == [handler |-> h, got |-> got, threw |-> threw]
           new == Len(log) + 1
<1>1. /\ e \in E /\ e.handler = h /\ e.got = got /\ e.threw = threw
      /\ log \in Seq(E) /\ log' = Append(log, e)
    BY DEF TypeOK, Entries
<1> HIDE DEF E, e
<1>2. /\ log' \in Seq(E) /\ log' # <<>>
      /\ Len(log) \in Nat /\ Len(log') = Len(log) + 1
      /\ DOMAIN log = 1 .. Len(log) /\ DOMAIN log' = 1 .. Len(log) + 1
      /\ \A i \in DOMAIN log : log'[i] = log[i]
      /\ log'[Len(log) + 1] = e
    BY <1>1, AtBack
<1>3. /\ \A i \in DOMAIN log' : i \in DOMAIN log \/ i = new
      /\ \A i \in DOMAIN log : i \in DOMAIN log' /\ log'[i] = log[i]
      /\ new \in DOMAIN log' /\ log'[new] = e /\ new \notin DOMAIN log
    BY <1>2
<1> HIDE DEF new
<1>4. /\ Users \in SUBSET DOMAIN log /\ Added \in SUBSET DOMAIN log
      /\ Thrown \in SUBSET DOMAIN log
      /\ IsFiniteSet(DOMAIN log)
    <2>1. IsFiniteSet(1 .. Len(log))
        BY <1>2, FS_Interval
    <2> QED BY <1>2, <2>1 DEF Users, Added, Thrown
<1>5. ASSUME NEW old \in SUBSET DOMAIN log
      PROVE  Cardinality(old) \in Nat /\ Cardinality(old \cup {new}) = Cardinality(old) + 1
    <2>1. IsFiniteSet(old)
        BY <1>4, FS_Subset
    <2>2. new \notin old
        BY <1>3
    <2> QED BY <2>1, <2>2, FS_CardinalityType, FS_AddElement
<1>6. Users' = IF h = "uid" /\ ~threw THEN Users \cup {new} ELSE Users
    BY <1>1, <1>3 DEF Users
<1>7. Added' = IF h = "cli" /\ ~threw /\ lines[got[1].line] = "newUser"
               THEN Added \cup {new} ELSE Added
    BY <1>1, <1>3 DEF Added
<1>8. Thrown' = IF threw THEN Thrown \cup {new} ELSE Thrown
    BY <1>1, <1>3 DEF Thrown
<1>9. /\ Cardinality(Users) \in Nat
      /\ Cardinality(Users') = Cardinality(Users) + (IF h = "uid" /\ ~threw THEN 1 ELSE 0)
    <2>1. /\ Cardinality(Users) \in Nat
          /\ Cardinality(Users \cup {new}) = Cardinality(Users) + 1
        BY <1>4, <1>5
    <2>2. CASE h = "uid" /\ ~threw
        BY <1>6, <2>1, <2>2
    <2>3. CASE ~(h = "uid" /\ ~threw)
        BY <1>6, <2>1, <2>3
    <2> QED BY <2>2, <2>3
<1>10. /\ Cardinality(Added) \in Nat
       /\ Cardinality(Added') =
            Cardinality(Added)
                + (IF h = "cli" /\ ~threw /\ lines[got[1].line] = "newUser" THEN 1 ELSE 0)
    <2>1. /\ Cardinality(Added) \in Nat
          /\ Cardinality(Added \cup {new}) = Cardinality(Added) + 1
        BY <1>4, <1>5
    <2>2. CASE h = "cli" /\ ~threw /\ lines[got[1].line] = "newUser"
        BY <1>7, <2>1, <2>2
    <2>3. CASE ~(h = "cli" /\ ~threw /\ lines[got[1].line] = "newUser")
        BY <1>7, <2>1, <2>3
    <2> QED BY <2>2, <2>3
<1>11. /\ Cardinality(Thrown) \in Nat
       /\ Cardinality(Thrown') = Cardinality(Thrown) + (IF threw THEN 1 ELSE 0)
    <2>1. /\ Cardinality(Thrown) \in Nat
          /\ Cardinality(Thrown \cup {new}) = Cardinality(Thrown) + 1
        BY <1>4, <1>5
    <2>2. CASE threw
        BY <1>8, <2>1, <2>2
    <2>3. CASE ~threw
        BY <1>8, <2>1, <2>3
    <2> QED BY <2>2, <2>3
<1> QED BY <1>1, <1>2, <1>9, <1>10, <1>11 DEF E

\* What the sums of ReadsOwed are made of are numbers.
LEMMA CountFacts ==
    ASSUME TypeOK
    PROVE  /\ Len(reads) \in Nat /\ Len(ready) \in Nat /\ Len(log) \in Nat
           /\ Cardinality(Users) \in Nat /\ Cardinality(Added) \in Nat
           /\ Cardinality(Thrown) \in Nat
           /\ Cardinality(Busy) \in Nat /\ Cardinality(AtStep("again")) \in Nat
<1>1. /\ Len(reads) \in Nat /\ Len(ready) \in Nat
      /\ Len(log) \in Nat /\ DOMAIN log = 1 .. Len(log)
    BY LenProperties DEF TypeOK
<1>2. /\ IsFiniteSet(DOMAIN log) /\ Users \subseteq DOMAIN log /\ Added \subseteq DOMAIN log
      /\ Thrown \subseteq DOMAIN log
    <2>1. IsFiniteSet(1 .. Len(log))
        BY <1>1, FS_Interval
    <2> QED BY <1>1, <2>1 DEF Users, Added, Thrown
<1>3. /\ Cardinality(Users) \in Nat /\ Cardinality(Added) \in Nat
      /\ Cardinality(Thrown) \in Nat
    BY <1>2, FS_Subset, FS_CardinalityType
<1> QED BY <1>1, <1>3, BusyFacts

----------------------------------------------------------------------------
\* At first there is one read and nothing else.
LEMMA InitIndInv == Init => IndInv
<1> SUFFICES ASSUME Init PROVE IndInv
    OBVIOUS
<1> DEFINE r == [handler |-> server, got |-> <<>>]
<1>1. r \in Reads /\ r.handler = server /\ r.got = <<>> /\ reads = <<r>>
    BY DEF Init, Reads, Handlers, StartRead
<1> HIDE DEF r
<1>2. reads \in Seq(Reads) /\ Len(reads) = 1 /\ reads[1] = r /\ DOMAIN reads = {1}
    BY <1>1
<1>3. Busy = {} /\ AtStep("handle") = {} /\ AtStep("again") = {}
    BY DEF Init, Busy, AtStep
<1>4. Users = {} /\ Added = {} /\ Thrown = {}
    BY DEF Init, Users, Added, Thrown
<1>5. TypeOK
    <2>1. ~HasLine(<<>>)
        BY DEF HasLine
    <2>2. lines \in Seq(Kinds) /\ Len(lines) <= MaxLines
        BY MaxLinesAssumption DEF Init
    <2>3. {lockstep, whole, peerOpen, open} \subseteq BOOLEAN
        BY DEF Init
    <2> QED BY <1>1, <1>2, <2>1, <2>2, <2>3 DEF Init, TypeOK
<1>6. OwnHandlers
    BY <1>1, <1>2, <1>3 DEF Init, OwnHandlers
<1>7. WholeLines
    BY <1>1, <1>2, <1>3 DEF Init, WholeLines, Unbroken
<1>8. OneUnderWay
    BY <1>3 DEF Init, OneUnderWay, NoneUnderWay
<1>9. FirstRead
    <2>1. /\ lines = <<>> /\ \A i \in DOMAIN ready : FALSE
          /\ \A i \in DOMAIN reads : reads[i].handler = server
        BY <1>1, <1>2 DEF Init
    <2> QED BY <1>2, <1>3, <2>1 DEF FirstRead
<1>10. ReadsOwed
    <2>1. Cardinality(Busy) = 0 /\ Cardinality(AtStep("again")) = 0
        BY <1>3, FS_EmptySet
    <2>2. Cardinality(Users) = 0 /\ Cardinality(Added) = 0 /\ Cardinality(Thrown) = 0
        BY <1>4, FS_EmptySet
    <2>3. Len(ready) = 0 /\ Len(log) = 0
        BY DEF Init
    <2> QED BY <1>2, <2>1, <2>2, <2>3 DEF ReadsOwed
<1>11. HandledInOrder /\ FirstUserGetsCard /\ CardAwaited
    BY DEF Init, HandledInOrder, FirstUserGetsCard, CardAwaited
<1>12. OpenWhileHeld
    BY <1>1, <1>2 DEF Init, OpenWhileHeld, Held
<1> QED BY <1>5, <1>6, <1>7, <1>8, <1>9, <1>10, <1>11, <1>12 DEF IndInv

\* A thread whose handler throws runs none any more.
LEMMA GoneFacts ==
    ASSUME TypeOK, NEW t \in AtStep("handle"), running' = [running EXCEPT ![t] = Gone]
    PROVE  /\ running' \in [Threads -> Runs \cup {Idle, Gone}]
           /\ \A u \in Busy \ {t} : running'[u] = running[u]
           /\ Busy' = Busy \ {t} /\ AtStep("handle")' = AtStep("handle") \ {t}
           /\ AtStep("again")' = AtStep("again")
<1>1. t \in Busy /\ t \in Threads /\ running[t].step = "handle" /\ Busy \subseteq Threads
    BY DEF AtStep, Busy
<1>2. /\ running' \in [Threads -> Runs \cup {Idle, Gone}] /\ running'[t] = Gone
      /\ \A u \in Threads : u # t => running'[u] = running[u]
    BY <1>1 DEF TypeOK
<1>3. Busy' = Busy \ {t}
    BY <1>2 DEF Busy
<1>4. AtStep("handle")' = AtStep("handle") \ {t} /\ AtStep("again")' = AtStep("again")
    BY <1>1, <1>2, <1>3 DEF AtStep, Busy
<1> QED BY <1>1, <1>2, <1>3, <1>4

\* A handler takes its line.  It may start a read for a card, and owes one or two
\* reads of its own; or it throws, and owes none.
LEMMA HandlerStep ==
    ASSUME IndInv, NEW t \in Threads, NEW h \in Handlers, NEW x \in {"again", "repeat"},
           NEW threw \in BOOLEAN, Handling(t, h, threw),
           threw => /\ running' = [running EXCEPT ![t] = Gone] /\ reads' = reads
                    /\ h # "client" /\ open' = (open /\ Held(reads, ready, Busy \ {t})),
           ~threw => Goto(t, x) /\ (open' = open \/ (h = "client" /\ open' = FALSE)),
           reads' = reads \/ (h = "cli" /\ reads' = StartRead(reads, "uid")),
           UNCHANGED <<peerVars, wire, ready>>,
           ~threw /\ Polite /\ h = "cli" /\ lines[1] = "newUser" /\ log = <<>> =>
                reads' = StartRead(reads, "uid"),
           ~threw /\ whole /\ open' =>
                Len(reads') + (IF x = "again" THEN 1 ELSE 0) + (IF h = "uid" THEN 1 ELSE 0)
                    = Len(reads) + 1
                        + (IF h = "cli" /\ lines[running[t].got[1].line] = "newUser"
                           THEN 1 ELSE 0)
    PROVE  IndInv'
<1> DEFINE got == running[t].got
<1>0. /\ TypeOK /\ HandledInOrder /\ FirstUserGetsCard /\ OwnHandlers /\ OpenWhileHeld /\ WholeLines
      /\ OneUnderWay /\ FirstRead /\ CardAwaited /\ ReadsOwed
    BY DEF IndInv
<1>1. /\ t \in Busy /\ t \in AtStep("handle") /\ running[t].handler = h
      /\ got \in Seq(Pieces) /\ log' = Append(log, [handler |-> h, got |-> got, threw |-> threw])
      /\ lines' = lines /\ t \notin AtStep("again")
    BY <1>0, BusyFacts DEF Handling, AtStep, peerVars
<1>2. /\ running' \in [Threads -> Runs \cup {Idle, Gone}]
      /\ \A u \in Busy' : running'[u].handler = running[u].handler
                            /\ running'[u].got = running[u].got
      /\ Busy' = IF threw THEN Busy \ {t} ELSE Busy
      /\ AtStep("handle")' = AtStep("handle") \ {t}
      /\ AtStep("again")' = IF ~threw /\ x = "again" THEN AtStep("again") \cup {t}
                            ELSE AtStep("again")
    <2>1. CASE threw
        BY <1>0, <1>1, <2>1, GoneFacts
    <2>2. CASE ~threw
        <3>1. /\ running' \in [Threads -> Runs \cup {Idle, Gone}]
              /\ \A u \in Threads : u # t => running'[u] = running[u]
              /\ running'[t].handler = running[t].handler /\ running'[t].got = running[t].got
              /\ Busy' = Busy /\ AtStep("handle")' = AtStep("handle") \ {t}
              /\ AtStep("again")' = IF x = "again" THEN AtStep("again") \cup {t}
                                    ELSE AtStep("again") \ {t}
            BY <1>0, <1>1, <2>2, GotoFacts
        <3>2. Busy \subseteq Threads /\ AtStep("again") \ {t} = AtStep("again")
            BY <1>1 DEF Busy
        <3> QED BY <2>2, <3>1, <3>2
    <2> QED BY <2>1, <2>2
<1>3. /\ log' \in Seq(Entries) /\ log' # <<>>
      /\ Len(log) \in Nat /\ Len(log') = Len(log) + 1
      /\ DOMAIN log = 1 .. Len(log) /\ DOMAIN log' = 1 .. Len(log) + 1
      /\ \A i \in DOMAIN log : log'[i] = log[i]
      /\ log'[Len(log) + 1].handler = h /\ log'[Len(log) + 1].got = got
      /\ Cardinality(Users) \in Nat
      /\ Cardinality(Users') = Cardinality(Users) + (IF h = "uid" /\ ~threw THEN 1 ELSE 0)
      /\ Cardinality(Added) \in Nat
      /\ Cardinality(Added') =
            Cardinality(Added)
                + (IF h = "cli" /\ ~threw /\ lines[got[1].line] = "newUser" THEN 1 ELSE 0)
      /\ Cardinality(Thrown) \in Nat
      /\ Cardinality(Thrown') = Cardinality(Thrown) + (IF threw THEN 1 ELSE 0)
    BY <1>0, <1>1, LogFacts
<1>4. \A i \in DOMAIN log' : i \in DOMAIN log \/ i = Len(log) + 1
    BY <1>3
<1>5. /\ reads' \in Seq(Reads)
      /\ Len(reads) \in Nat /\ Len(reads') \in Nat
      /\ \A i \in DOMAIN reads' :
            \/ i \in DOMAIN reads /\ reads'[i] = reads[i]
            \/ reads'[i].got = <<>> /\ reads'[i].handler = "uid" /\ h = "cli"
      /\ \A i \in DOMAIN reads' : ~HasLine(reads'[i].got)
    <2>1. reads \in Seq(Reads) /\ \A i \in DOMAIN reads : ~HasLine(reads[i].got)
        BY <1>0 DEF TypeOK
    <2>2. CASE reads' = reads
        BY <2>1, <2>2, LenProperties
    <2>3. CASE h = "cli" /\ reads' = StartRead(reads, "uid")
        <3>1. "uid" \in Handlers
            BY DEF Handlers
        <3> QED BY <1>0, <2>3, <3>1, StartReadFacts
    <2> QED BY <2>2, <2>3
<1>6. UNCHANGED <<server, lockstep, whole, lines, peerOpen, wire, ready>> /\ (Polite' <=> Polite)
    BY DEF peerVars, Polite
<1>7. TypeOK'
    BY <1>0, <1>2, <1>3, <1>5, <1>6 DEF TypeOK
<1>8. ASSUME Polite
      PROVE  /\ wire = <<>> /\ ready = <<>> /\ AtStep("handle") = {t}
             /\ got = WholeLine(Len(lines)) /\ Len(lines) = Len(log) + 1
    BY <1>0, <1>1, <1>8 DEF OneUnderWay, NoneUnderWay, OnWire, Taken, InHandler
<1>9. HandledInOrder'
    BY <1>0, <1>3, <1>4, <1>6, <1>8 DEF HandledInOrder
<1>10. FirstUserGetsCard'
    <2>1. SUFFICES ASSUME Polite, Len(log') >= 2, lines[1] = "newUser"
                   PROVE  log'[2].handler = "uid"
        BY <1>6 DEF FirstUserGetsCard
    <2>2. CASE Len(log) >= 2
        <3>1. 2 \in DOMAIN log
            BY <1>3, <2>2
        <3> QED BY <1>0, <1>3, <2>1, <2>2, <3>1 DEF FirstUserGetsCard
    <2>3. CASE Len(log) = 1
        BY <1>0, <1>1, <1>3, <2>1, <2>3 DEF CardAwaited
    <2> QED BY <1>3, <2>1, <2>2, <2>3
<1>11. OwnHandlers'
    <2>1. h = "cli" => server # "client"
        BY <1>0, <1>1 DEF OwnHandlers
    <2>2. h = "client" => server # "cli"
        BY <1>0, <1>1 DEF OwnHandlers
    <2>3. server \in {"client", "cli"}
        BY <1>0 DEF TypeOK
    <2>4. \A u \in Busy' : u \in Busy /\ running'[u].handler = running[u].handler
        BY <1>2
    <2> QED BY <1>0, <1>2, <1>5, <1>6, <2>1, <2>2, <2>3, <2>4 DEF OwnHandlers
<1>12. WholeLines'
    <2>1. \A u \in Busy' : u \in Busy /\ running'[u].got = running[u].got
        BY <1>2
    <2>2. whole => Sent(got)
        BY <1>0, <1>1 DEF WholeLines
    <2>3. SUFFICES ASSUME whole
                   PROVE  /\ Unbroken(wire)
                          /\ \A i \in DOMAIN reads' : reads'[i].got = <<>>
                          /\ \A i \in DOMAIN ready : ready[i].got # <<>> /\ Unbroken(ready[i].got)
                          /\ \A u \in Busy' : Sent(running'[u].got)
                          /\ \A i \in DOMAIN log' : Sent(log'[i].got)
        BY <1>2, <1>6 DEF WholeLines, Sent, Unbroken
    <2>4. Unbroken(wire) /\ \A i \in DOMAIN ready : ready[i].got # <<>> /\ Unbroken(ready[i].got)
        BY <1>0, <2>3 DEF WholeLines
    <2>5. \A i \in DOMAIN reads' : reads'[i].got = <<>>
        BY <1>0, <1>5, <2>3 DEF WholeLines
    <2>6. \A u \in Busy' : Sent(running'[u].got)
        BY <1>0, <2>1, <2>3 DEF WholeLines
    <2>7. \A i \in DOMAIN log' : Sent(log'[i].got)
        BY <1>0, <1>3, <1>4, <2>2, <2>3 DEF WholeLines
    <2> QED BY <2>4, <2>5, <2>6, <2>7
<1>13. OneUnderWay'
    BY <1>2, <1>3, <1>6, <1>8 DEF OneUnderWay, NoneUnderWay
<1>14. FirstRead'
    BY <1>3 DEF FirstRead
<1>15. CardAwaited'
    <2>1. SUFFICES ASSUME Polite, log = <<>>, lines[1] = "newUser"
                   PROVE  /\ ~open' \/ (reads' # <<>> /\ Head(reads').handler = "uid")
                          /\ wire = <<>> /\ ready = <<>> /\ AtStep("handle")' = {}
        <3>1. Len(log') = 1 => log = <<>>
            <4>1. log \in Seq(Entries)
                BY <1>0 DEF TypeOK
            <4>2. Len(log') = Len(log) + 1 /\ Len(log) \in Nat
                BY <1>3
            <4> DEFINE p == Len(log)
                       q == Len(log')
            <4>3. q = p + 1 /\ p \in Nat /\ (log # <<>> => p \in Nat \ {0})
                BY <4>1, <4>2, EmptySeq
            <4>4. q = 1 => log = <<>>
                <5> HIDE DEF p, q
                <5> QED BY <4>3
            <4> QED BY <4>4
        <3> QED BY <1>6, <2>1, <3>1 DEF CardAwaited
    <2>2. Len(lines) = 1
        BY <1>8, <2>1
    <2>3. lines # <<>> /\ 1 \in DOMAIN lines
        <3>1. lines \in Seq(Kinds)
            BY <1>0 DEF TypeOK
        <3>2. DOMAIN lines = 1 .. Len(lines)
            BY <3>1, LenProperties
        <3>3. 1 \in 1 .. 1 /\ Len(<<>>) = 0
            OBVIOUS
        <3>4. 1 \in DOMAIN lines
            BY <2>2, <3>2, <3>3
        <3>5. lines # <<>>
            BY <2>2, <3>3
        <3> QED BY <3>4, <3>5
    <2>4. server = "cli"
        BY <1>0, <2>1, <2>3 DEF OwnHandlers
    <2>5. h = "cli" /\ reads = <<>>
        BY <1>0, <1>1, <1>8, <2>1, <2>3, <2>4 DEF FirstRead
    <2>6. CASE threw
        <3>1. Busy = {t} /\ ready = <<>>
            BY <1>0, <1>8, <2>1 DEF FirstRead
        <3>2. Busy \ {t} = {}
            BY <3>1
        <3>3. ~open'
            BY <2>5, <2>6, <3>1, <3>2 DEF Held
        <3> QED BY <1>2, <1>8, <2>1, <3>3
    <2>7. CASE ~threw
        <3>1. reads' = StartRead(reads, "uid") /\ "uid" \in Handlers
            BY <2>1, <2>5, <2>7 DEF Handlers
        <3> QED BY <1>0, <1>2, <1>8, <2>1, <2>5, <3>1, StartReadFacts
    <2> QED BY <2>6, <2>7
<1>16. ReadsOwed'
    <2>1. /\ Cardinality(Busy) \in Nat /\ Cardinality(AtStep("again")) \in Nat
          /\ IsFiniteSet(Busy) /\ IsFiniteSet(AtStep("again"))
        BY <1>0, BusyFacts
    <2>2. Cardinality(AtStep("again")') =
            Cardinality(AtStep("again")) + (IF ~threw /\ x = "again" THEN 1 ELSE 0)
        <3>1. Cardinality(AtStep("again") \cup {t}) = Cardinality(AtStep("again")) + 1
            BY <1>1, <2>1, FS_AddElement
        <3>2. CASE ~threw /\ x = "again"
            <4>1. AtStep("again")' = AtStep("again") \cup {t}
                BY <1>2, <3>2
            <4> QED BY <3>1, <3>2, <4>1
        <3>3. CASE ~(~threw /\ x = "again")
            <4>1. AtStep("again")' = AtStep("again")
                BY <1>2, <3>3
            <4> QED BY <2>1, <3>3, <4>1
        <3> QED BY <3>2, <3>3
    <2>3. Len(ready) \in Nat
        BY <1>0, LenProperties DEF TypeOK
    <2>4. Cardinality(Busy') = Cardinality(Busy) - (IF threw THEN 1 ELSE 0)
        <3>1. Cardinality(Busy \ {t}) = Cardinality(Busy) - 1
            BY <1>1, <2>1, FS_RemoveElement
        <3> QED BY <1>2, <2>1, <3>1
    <2>5. SUFFICES ASSUME whole, open', peerOpen
                   PROVE  Len(reads') + Len(ready) + Cardinality(Busy')
                                + Cardinality(AtStep("again")') + Cardinality(Users')
                                + 2 * Cardinality(Thrown')
                            = 1 + Len(log') + Cardinality(Added')
        BY <1>2, <1>6 DEF ReadsOwed
    <2> DEFINE a == IF ~threw /\ x = "again" THEN 1 ELSE 0
               u == IF h = "uid" /\ ~threw THEN 1 ELSE 0
               n == IF h = "cli" /\ ~threw /\ lines[got[1].line] = "newUser" THEN 1 ELSE 0
               w == IF threw THEN 1 ELSE 0
               r1 == Len(reads')
               r0 == Len(reads)
               d == Len(ready)
               b == Cardinality(Busy)
               g == Cardinality(AtStep("again"))
               c == Cardinality(Users)
               v == Cardinality(Thrown)
               l == Len(log)
               m == Cardinality(Added)
    <2>6. r0 + d + b + g + c + 2 * v = 1 + l + m
        <3>1. open
            BY <2>5
        <3> QED BY <1>0, <2>5, <3>1 DEF ReadsOwed
    <2>7. /\ a \in Nat /\ u \in Nat /\ n \in Nat /\ w \in Nat
          /\ r0 \in Nat /\ r1 \in Nat /\ d \in Nat /\ b \in Nat /\ g \in Nat
          /\ c \in Nat /\ v \in Nat /\ l \in Nat /\ m \in Nat
        BY <1>3, <1>5, <2>1, <2>3
    <2>8. r1 + a + u + w = r0 + 1 + n
        <3>1. CASE threw
            <4>1. r1 = r0 /\ a = 0 /\ u = 0 /\ n = 0 /\ w = 1
                BY <3>1
            <4> HIDE DEF a, u, n, w, r1, r0
            <4> QED BY <2>7, <4>1
        <3>2. CASE ~threw
            <4>1. r1 + a + u = r0 + 1 + n /\ w = 0
                BY <2>5, <3>2
            <4> HIDE DEF a, u, n, w, r1, r0
            <4> QED BY <2>7, <4>1
        <3> QED BY <3>1, <3>2
    <2>9. /\ Cardinality(AtStep("again")') = g + a /\ Cardinality(Users') = c + u
          /\ Cardinality(Added') = m + n /\ Len(log') = l + 1
          /\ Cardinality(Thrown') = v + w /\ Cardinality(Busy') = b - w
        BY <1>3, <2>2, <2>4
    <2>10. r1 + d + (b - w) + (g + a) + (c + u) + (2 * (v + w)) = 1 + (l + 1) + (m + n)
        <3> HIDE DEF a, u, n, w, r1, r0, d, b, g, c, v, l, m
        <3> QED BY <2>6, <2>7, <2>8
    <2> QED BY <2>9, <2>10
<1>17. OpenWhileHeld'
    <2>1. server = "cli" => open
        BY <1>0, <1>1 DEF OpenWhileHeld, Held
    <2>2. server = "cli" => h # "client"
        BY <1>0, <1>1 DEF OwnHandlers
    <2>3. CASE threw
        <3>1. Busy' = Busy \ {t} /\ reads' = reads /\ ready' = ready
              /\ (open' <=> open /\ Held(reads, ready, Busy \ {t}))
            BY <1>2, <1>6, <2>3
        <3> QED BY <1>6, <2>1, <3>1 DEF OpenWhileHeld
    <2>4. CASE ~threw
        <3>1. t \in Busy'
            BY <1>1, <1>2, <2>4
        <3>2. Held(reads', ready', Busy')
            BY <3>1 DEF Held
        <3>3. server = "cli" => open'
            <4>1. SUFFICES ASSUME server = "cli" PROVE open'
                OBVIOUS
            <4>2. open = TRUE
                <5>1. open \in BOOLEAN
                    BY <1>0 DEF TypeOK
                <5> QED BY <2>1, <4>1, <5>1
            <4>3. open' = open
                BY <2>2, <2>4, <4>1
            <4> QED BY <4>2, <4>3
        <3> QED BY <1>6, <3>2, <3>3 DEF OpenWhileHeld
    <2> QED BY <2>3, <2>4
<1> QED BY <1>7, <1>9, <1>10, <1>11, <1>12, <1>13, <1>14, <1>15, <1>16, <1>17 DEF IndInv

\* A thread that has called its handler starts a read again.
LEMMA RestartStep ==
    ASSUME IndInv, NEW t \in Threads, Again(t) \/ Repeat(t)
    PROVE  IndInv'
<1> DEFINE h == running[t].handler
<1>0. /\ TypeOK /\ HandledInOrder /\ FirstUserGetsCard /\ OwnHandlers /\ OpenWhileHeld /\ WholeLines
      /\ OneUnderWay /\ FirstRead /\ CardAwaited /\ ReadsOwed
    BY DEF IndInv
<1>1. /\ t \in Busy /\ running[t].step \in {"again", "repeat"} /\ t \notin AtStep("handle")
      /\ reads' = StartRead(reads, h)
      /\ UNCHANGED <<server, lockstep, whole, lines, peerOpen, wire, open, ready, log>>
    BY DEF Again, Repeat, AtStep, peerVars
<1>2. h \in Handlers
    BY <1>0, <1>1, BusyFacts
<1>3. /\ reads' \in Seq(Reads) /\ reads' # <<>>
      /\ Len(reads) \in Nat /\ Len(reads') = Len(reads) + 1
      /\ \A i \in DOMAIN reads' :
            \/ i \in DOMAIN reads /\ reads'[i] = reads[i]
            \/ reads'[i].got = <<>> /\ reads'[i].handler = h
      /\ \A i \in DOMAIN reads' : ~HasLine(reads'[i].got)
      /\ reads # <<>> => Head(reads') = Head(reads)
    BY <1>0, <1>1, <1>2, StartReadFacts
<1>4. /\ IsFiniteSet(Busy) /\ Cardinality(Busy) \in Nat
      /\ IsFiniteSet(AtStep("again")) /\ Cardinality(AtStep("again")) \in Nat
    BY <1>0, BusyFacts
<1>5. /\ running' \in [Threads -> Runs \cup {Idle, Gone}]
      /\ Busy' \subseteq Busy /\ AtStep("handle")' = AtStep("handle")
      /\ \A u \in Busy' : running'[u].handler = running[u].handler
                            /\ running'[u].got = running[u].got
      /\ \/ Busy' = Busy /\ t \in AtStep("again") /\ AtStep("again")' = AtStep("again") \ {t}
         \/ Busy' = Busy \ {t} /\ AtStep("again")' = AtStep("again")
    <2>1. CASE Again(t)
        <3>1. Goto(t, "repeat") /\ t \in AtStep("again")
            BY <1>1, <2>1 DEF Again, AtStep
        <3>2. /\ running' \in [Threads -> Runs \cup {Idle, Gone}]
              /\ \A u \in Threads : u # t => running'[u] = running[u]
              /\ running'[t].handler = running[t].handler /\ running'[t].got = running[t].got
              /\ Busy' = Busy /\ AtStep("handle")' = AtStep("handle") \ {t}
              /\ AtStep("again")' = AtStep("again") \ {t}
            BY <1>0, <1>1, <3>1, GotoFacts
        <3>3. AtStep("handle")' = AtStep("handle")
            BY <1>1, <3>2
        <3>4. Busy \subseteq Threads
            BY DEF Busy
        <3>5. \A u \in Busy' : running'[u].handler = running[u].handler
                               /\ running'[u].got = running[u].got
            BY <3>2, <3>4
        <3> QED BY <3>1, <3>2, <3>3, <3>5
    <2>2. CASE Repeat(t)
        <3>1. running' = [running EXCEPT ![t] = Idle] /\ running[t].step = "repeat"
            BY <2>2 DEF Repeat, AtStep
        <3>2. /\ running' \in [Threads -> Runs \cup {Idle, Gone}] /\ running'[t] = Idle
              /\ \A u \in Threads : u # t => running'[u] = running[u]
            BY <1>0, <3>1 DEF TypeOK
        <3>3. Busy' = Busy \ {t}
            BY <3>2 DEF Busy
        <3>4. /\ AtStep("handle")' = AtStep("handle") /\ AtStep("again")' = AtStep("again")
            BY <3>1, <3>2, <3>3 DEF AtStep, Busy
        <3>5. \A u \in Busy' : running'[u].handler = running[u].handler
                               /\ running'[u].got = running[u].got
            BY <3>2, <3>3 DEF Busy
        <3> QED BY <3>2, <3>3, <3>4, <3>5
    <2> QED BY <2>1, <2>2
<1>5a. Cardinality(Busy') + Cardinality(AtStep("again")') + 1
        = Cardinality(Busy) + Cardinality(AtStep("again"))
    <2>1. /\ t \in AtStep("again") => Cardinality(AtStep("again") \ {t}) = Cardinality(AtStep("again")) - 1
          /\ Cardinality(Busy \ {t}) = Cardinality(Busy) - 1
        BY <1>1, <1>4, FS_RemoveElement
    <2>2. CASE Busy' = Busy /\ t \in AtStep("again") /\ AtStep("again")' = AtStep("again") \ {t}
        <3>1. Cardinality(Busy') = Cardinality(Busy)
              /\ Cardinality(AtStep("again")') = Cardinality(AtStep("again")) - 1
            BY <2>1, <2>2
        <3> QED BY <1>4, <3>1
    <2>3. CASE Busy' = Busy \ {t} /\ AtStep("again")' = AtStep("again")
        <3>1. Cardinality(Busy') = Cardinality(Busy) - 1
              /\ Cardinality(AtStep("again")') = Cardinality(AtStep("again"))
            BY <2>1, <2>3
        <3> QED BY <1>4, <3>1
    <2> QED BY <1>5, <2>2, <2>3
<1>6. Polite' <=> Polite
    BY <1>1 DEF Polite
<1>7. TypeOK'
    BY <1>0, <1>1, <1>3, <1>5 DEF TypeOK
<1>8. HandledInOrder' /\ FirstUserGetsCard'
    BY <1>0, <1>1, <1>6 DEF HandledInOrder, FirstUserGetsCard
<1>9. OwnHandlers'
    BY <1>0, <1>1, <1>3, <1>5 DEF OwnHandlers
<1>10. WholeLines'
    <2>1. SUFFICES ASSUME whole
                   PROVE  /\ Unbroken(wire)
                          /\ \A i \in DOMAIN reads' : reads'[i].got = <<>>
                          /\ \A i \in DOMAIN ready : ready[i].got # <<>> /\ Unbroken(ready[i].got)
                          /\ \A u \in Busy' : Sent(running'[u].got)
                          /\ \A i \in DOMAIN log : Sent(log[i].got)
        BY <1>1 DEF WholeLines, Sent, Unbroken
    <2>2. \A i \in DOMAIN reads' : reads'[i].got = <<>>
        BY <1>0, <1>3, <2>1 DEF WholeLines
    <2>3. \A u \in Busy' : Sent(running'[u].got)
        BY <1>0, <1>5, <2>1 DEF WholeLines
    <2> QED BY <1>0, <2>1, <2>2, <2>3 DEF WholeLines
<1>11. AtStep("handle") \subseteq Busy /\ AtStep("handle") \subseteq Busy'
    BY <1>5 DEF AtStep
<1>12. OneUnderWay'
    BY <1>0, <1>1, <1>5, <1>6, <1>11 DEF OneUnderWay, NoneUnderWay, OnWire, Taken, InHandler
<1>13. FirstRead'
    BY <1>0, <1>1, <1>6 DEF FirstRead
<1>14. CardAwaited'
    BY <1>0, <1>1, <1>3, <1>5, <1>6, <1>11 DEF CardAwaited
<1>15. ReadsOwed'
    <2>1. SUFFICES ASSUME whole, open, peerOpen
                   PROVE  Len(reads') + Len(ready) + Cardinality(Busy')
                                + Cardinality(AtStep("again")') + Cardinality(Users)
                                + 2 * Cardinality(Thrown)
                            = 1 + Len(log) + Cardinality(Added)
        BY <1>1 DEF ReadsOwed, Users, Added, Thrown
    <2>2. Len(reads) + Len(ready) + Cardinality(Busy) + Cardinality(AtStep("again"))
                + Cardinality(Users) + 2 * Cardinality(Thrown)
            = 1 + Len(log) + Cardinality(Added)
        BY <1>0, <2>1 DEF ReadsOwed
    <2>3. IsFiniteSet(Busy') /\ IsFiniteSet(AtStep("again")')
        <3>1. Busy' \subseteq Threads /\ AtStep("again")' \subseteq Threads
            BY DEF Busy, AtStep
        <3> QED BY <3>1, ThreadsAssumption, FS_Subset
    <2>4. Cardinality(Busy') \in Nat /\ Cardinality(AtStep("again")') \in Nat
        BY <2>3, FS_CardinalityType
    <2>5. Len(ready) \in Nat /\ Cardinality(Users) \in Nat /\ Cardinality(Thrown) \in Nat
        BY <1>0, CountFacts
    <2> DEFINE r1 == Len(reads')
               r0 == Len(reads)
               d == Len(ready)
               b1 == Cardinality(Busy')
               b0 == Cardinality(Busy)
               g1 == Cardinality(AtStep("again")')
               g0 == Cardinality(AtStep("again"))
               c == Cardinality(Users)
               v == Cardinality(Thrown)
    <2>6. /\ r1 = r0 + 1 /\ b1 + g1 + 1 = b0 + g0
          /\ r0 \in Nat /\ d \in Nat /\ b0 \in Nat /\ b1 \in Nat /\ g0 \in Nat /\ g1 \in Nat
          /\ c \in Nat /\ v \in Nat
        BY <1>3, <1>4, <1>5a, <2>4, <2>5
    <2>7. r1 + d + b1 + g1 + c + 2 * v = r0 + d + b0 + g0 + c + 2 * v
        <3> HIDE DEF r1, r0, d, b1, b0, g1, g0, c, v
        <3> QED BY <2>6
    <2> QED BY <2>2, <2>7
<1>20. OpenWhileHeld'
    <2>1. server = "cli" => open
        BY <1>0, <1>1 DEF OpenWhileHeld, Held
    <2>2. Held(reads', ready', Busy')
        BY <1>3 DEF Held
    <2> QED BY <1>1, <2>1, <2>2 DEF OpenWhileHeld
<1> QED BY <1>7, <1>8, <1>9, <1>10, <1>12, <1>13, <1>14, <1>15, <1>20 DEF IndInv

----------------------------------------------------------------------------
(* The reads. *)

\* The oldest read takes a part of the wire and is completed.
LEMMA TakeFacts ==
    ASSUME TypeOK, Take
    PROVE  \E n \in 1 .. Len(wire) : \E r \in Reads :
            /\ reads # <<>> /\ reads' = Tail(reads)
            /\ r.handler = Head(reads).handler
            /\ r.got = Head(reads).got \o SubSeq(wire, 1, n)
            /\ ready' = Append(ready, r)
            /\ wire' = SubSeq(wire, n + 1, Len(wire))
<1>1. reads # <<>> /\ reads' = Tail(reads) /\ reads \in Seq(Reads) /\ wire \in Seq(Pieces)
    BY DEF Take, TypeOK
<1>2. PICK n \in 1 .. Len(wire) :
        /\ ready' = Append(ready, [Head(reads) EXCEPT !.got = @ \o SubSeq(wire, 1, n)])
        /\ wire' = SubSeq(wire, n + 1, Len(wire))
    BY DEF Take
<1>3. Head(reads) \in Reads
    BY <1>1, FromFront
<1>4. SubSeq(wire, 1, n) \in Seq(Pieces)
    <2>1. Len(wire) \in Nat
        BY <1>1, LenProperties
    <2>2. \A j \in 1 .. n : j \in 1 .. Len(wire)
        BY <2>1
    <2>3. \A j \in 1 .. n : wire[j] \in Pieces
        BY <1>1, <2>2, ElementOfSeq
    <2> QED BY <2>1, <2>3, SubSeqProperties
<1>5. Head(reads).got \o SubSeq(wire, 1, n) \in Seq(Pieces)
    <2>1. Head(reads).got \in Seq(Pieces)
        BY <1>3 DEF Reads
    <2> QED BY <1>4, <2>1, ConcatProperties
<1> DEFINE taken == Head(reads).got \o SubSeq(wire, 1, n)
           r == [Head(reads) EXCEPT !.got = taken]
<1>6. r \in Reads /\ r.handler = Head(reads).handler /\ r.got = taken
    <2> HIDE DEF taken
    <2>1. taken \in Seq(Pieces)
        BY <1>5 DEF taken
    <2> QED BY <1>3, <2>1 DEF Reads
<1>7. ready' = Append(ready, r)
    BY <1>2
<1> QED BY <1>1, <1>2, <1>6, <1>7

\* A part of the wire is a part of its pieces.
LEMMA PartOfWire ==
    ASSUME NEW w \in Seq(Pieces), NEW n \in 1 .. Len(w)
    PROVE  /\ SubSeq(w, 1, n) \in Seq(Pieces) /\ SubSeq(w, 1, n) # <<>>
           /\ SubSeq(w, n + 1, Len(w)) \in Seq(Pieces)
           /\ \A i \in DOMAIN SubSeq(w, 1, n) :
                    i \in DOMAIN w /\ SubSeq(w, 1, n)[i] = w[i]
           /\ \A i \in DOMAIN SubSeq(w, n + 1, Len(w)) :
                    n + i \in DOMAIN w /\ SubSeq(w, n + 1, Len(w))[i] = w[n + i]
           /\ Len(w) = 1 => SubSeq(w, 1, n) = w /\ SubSeq(w, n + 1, Len(w)) = <<>>
<1>1. Len(w) \in Nat /\ DOMAIN w = 1 .. Len(w) /\ n \in Nat /\ n >= 1 /\ n <= Len(w)
    BY LenProperties
<1>2. \A j \in 1 .. n : w[j] \in Pieces
    <2>1. \A j \in 1 .. n : j \in 1 .. Len(w)
        BY <1>1
    <2> QED BY <2>1, ElementOfSeq
<1>3. \A j \in n + 1 .. Len(w) : w[j] \in Pieces
    <2>1. \A j \in n + 1 .. Len(w) : j \in 1 .. Len(w)
        BY <1>1
    <2> QED BY <2>1, ElementOfSeq
<1>4. /\ SubSeq(w, 1, n) \in Seq(Pieces) /\ Len(SubSeq(w, 1, n)) = n
      /\ \A i \in 1 .. n : SubSeq(w, 1, n)[i] = w[i]
    <2>1. /\ SubSeq(w, 1, n) \in Seq(Pieces)
          /\ Len(SubSeq(w, 1, n)) = IF 1 <= n THEN n - 1 + 1 ELSE 0
          /\ \A i \in 1 .. n - 1 + 1 : SubSeq(w, 1, n)[i] = w[1 + i - 1]
        BY <1>1, <1>2, SubSeqProperties
    <2> QED BY <1>1, <2>1
<1>5. /\ SubSeq(w, n + 1, Len(w)) \in Seq(Pieces)
      /\ Len(SubSeq(w, n + 1, Len(w))) = Len(w) - n
      /\ \A i \in 1 .. Len(w) - n : SubSeq(w, n + 1, Len(w))[i] = w[n + i]
    <2>0. n + 1 \in Int /\ Len(w) \in Int
        BY <1>1
    <2>1. /\ SubSeq(w, n + 1, Len(w)) \in Seq(Pieces)
          /\ Len(SubSeq(w, n + 1, Len(w))) = IF n + 1 <= Len(w) THEN Len(w) - (n + 1) + 1 ELSE 0
          /\ \A i \in 1 .. Len(w) - (n + 1) + 1 :
                SubSeq(w, n + 1, Len(w))[i] = w[(n + 1) + i - 1]
        BY <1>3, <2>0, SubSeqProperties
    <2>2. Len(w) - (n + 1) + 1 = Len(w) - n /\ Len(w) - n \in Nat
        BY <1>1
    <2>3. Len(SubSeq(w, n + 1, Len(w))) = Len(w) - n
        <3> DEFINE rest == Len(SubSeq(w, n + 1, Len(w)))
                   all == Len(w)
        <3>1. rest = (IF n + 1 <= all THEN all - (n + 1) + 1 ELSE 0)
            BY <2>1
        <3>2. all \in Nat /\ n \in Nat /\ n <= all
            BY <1>1
        <3> HIDE DEF rest, all
        <3>3. CASE n + 1 <= all
            BY <3>1, <3>2, <3>3
        <3>4. CASE ~(n + 1 <= all)
            BY <3>1, <3>2, <3>4
        <3> QED BY <3>3, <3>4 DEF rest, all
    <2>4. \A i \in 1 .. Len(w) - n : (n + 1) + i - 1 = n + i
        BY <1>1
    <2> QED BY <2>1, <2>2, <2>3, <2>4
<1>6. Len(w) = 1 => SubSeq(w, 1, n) = w
    <2>1. Len(w) = 1 => n = Len(w)
        BY <1>1
    <2> QED BY <2>1, SubSeqFull
<1>7. Len(w) = 1 => SubSeq(w, n + 1, Len(w)) = <<>>
    BY <1>1, SubSeqEmpty
<1>8. DOMAIN SubSeq(w, 1, n) = 1 .. n /\ DOMAIN SubSeq(w, n + 1, Len(w)) = 1 .. Len(w) - n
    BY <1>4, <1>5, LenProperties
<1>9. SubSeq(w, 1, n) # <<>>
    <2>1. SUFFICES ASSUME SubSeq(w, 1, n) = <<>> PROVE FALSE
        OBVIOUS
    <2>2. Len(SubSeq(w, 1, n)) = 0
        BY <2>1
    <2> QED BY <1>1, <1>4, <2>2
<1>10. \A i \in 1 .. n : i \in 1 .. Len(w)
    BY <1>1
<1>11. \A i \in 1 .. Len(w) - n : n + i \in 1 .. Len(w)
    BY <1>1
<1> QED BY <1>1, <1>4, <1>5, <1>6, <1>7, <1>8, <1>9, <1>10, <1>11

\* A read takes what has arrived, and with it the one line of a polite peer.
LEMMA TakeStep ==
    ASSUME IndInv, Take
    PROVE  IndInv'
<1>0. /\ TypeOK /\ HandledInOrder /\ FirstUserGetsCard /\ OwnHandlers /\ OpenWhileHeld /\ WholeLines
      /\ OneUnderWay /\ FirstRead /\ CardAwaited /\ ReadsOwed
    BY DEF IndInv
<1>1. PICK n \in 1 .. Len(wire), r \in Reads :
        /\ reads # <<>> /\ reads' = Tail(reads)
        /\ r.handler = Head(reads).handler
        /\ r.got = Head(reads).got \o SubSeq(wire, 1, n)
        /\ ready' = Append(ready, r)
        /\ wire' = SubSeq(wire, n + 1, Len(wire))
    BY <1>0, TakeFacts
<1>2. /\ reads \in Seq(Reads) /\ ready \in Seq(Reads) /\ wire \in Seq(Pieces)
      /\ Len(wire) \in Nat /\ DOMAIN wire = 1 .. Len(wire) /\ wire # <<>>
    <2>1. wire \in Seq(Pieces)
        BY <1>0 DEF TypeOK
    <2>2. Len(wire) \in Nat /\ DOMAIN wire = 1 .. Len(wire)
        BY <2>1, LenProperties
    <2> QED BY <1>0, <1>1, <2>1, <2>2 DEF TypeOK
<1>3. UNCHANGED <<server, lockstep, whole, lines, peerOpen, open, running, log>>
      /\ (Polite' <=> Polite)
    BY DEF Take, peerVars, Polite
<1>4. /\ Tail(reads) \in Seq(Reads) /\ Len(reads) \in Nat /\ Len(reads) = Len(Tail(reads)) + 1
      /\ Head(reads) = reads[1] /\ 1 \in DOMAIN reads
      /\ \A i \in DOMAIN Tail(reads) : i + 1 \in DOMAIN reads /\ Tail(reads)[i] = reads[i + 1]
    BY <1>1, <1>2, FromFront
<1>5. /\ ready' \in Seq(Reads) /\ Len(ready) \in Nat /\ Len(ready') = Len(ready) + 1
      /\ \A i \in DOMAIN ready' : i \in DOMAIN ready \/ i = Len(ready) + 1
      /\ \A i \in DOMAIN ready : ready'[i] = ready[i]
      /\ ready'[Len(ready) + 1] = r
    BY <1>1, <1>2, AtBack
<1>6. /\ SubSeq(wire, 1, n) \in Seq(Pieces) /\ SubSeq(wire, 1, n) # <<>>
      /\ wire' \in Seq(Pieces)
      /\ \A i \in DOMAIN SubSeq(wire, 1, n) : i \in DOMAIN wire /\ SubSeq(wire, 1, n)[i] = wire[i]
      /\ \A i \in DOMAIN wire' : n + i \in DOMAIN wire /\ wire'[i] = wire[n + i]
      /\ Len(wire) = 1 => SubSeq(wire, 1, n) = wire /\ wire' = <<>>
    BY <1>1, <1>2, PartOfWire
<1>7. Busy' = Busy /\ AtStep("handle")' = AtStep("handle") /\ AtStep("again")' = AtStep("again")
      /\ Users' = Users /\ Added' = Added /\ Thrown' = Thrown
    BY <1>3 DEF Busy, AtStep, Users, Added, Thrown
<1>8. TypeOK'
    <2>1. \A i \in DOMAIN reads' : ~HasLine(reads'[i].got)
        BY <1>0, <1>1, <1>4 DEF TypeOK
    <2> QED BY <1>0, <1>1, <1>3, <1>4, <1>5, <1>6, <2>1 DEF TypeOK
<1>9. HandledInOrder' /\ FirstUserGetsCard'
    BY <1>0, <1>3 DEF HandledInOrder, FirstUserGetsCard
<1>10. OwnHandlers'
    BY <1>0, <1>1, <1>3, <1>4, <1>5, <1>7 DEF OwnHandlers
<1>11. whole => r.got = SubSeq(wire, 1, n) /\ r.got # <<>>
    <2>1. whole => Head(reads).got = <<>>
        BY <1>0, <1>4 DEF WholeLines
    <2> QED BY <1>1, <1>6, <2>1, ConcatEmptySeq
<1>12. WholeLines'
    <2>1. SUFFICES ASSUME whole
                   PROVE  /\ Unbroken(wire')
                          /\ \A i \in DOMAIN reads' : reads'[i].got = <<>>
                          /\ \A i \in DOMAIN ready' : ready'[i].got # <<>> /\ Unbroken(ready'[i].got)
                          /\ \A u \in Busy : Sent(running[u].got)
                          /\ \A i \in DOMAIN log : Sent(log[i].got)
        BY <1>3, <1>7 DEF WholeLines, Sent, Unbroken
    <2>2. Unbroken(wire) /\ Unbroken(wire') /\ Unbroken(SubSeq(wire, 1, n))
        BY <1>0, <1>6, <2>1 DEF WholeLines, Unbroken
    <2>3. \A i \in DOMAIN reads' : reads'[i].got = <<>>
        BY <1>0, <1>1, <1>4, <2>1 DEF WholeLines
    <2>4. \A i \in DOMAIN ready' : ready'[i].got # <<>> /\ Unbroken(ready'[i].got)
        BY <1>0, <1>5, <1>11, <2>1, <2>2 DEF WholeLines
    <2> QED BY <1>0, <2>1, <2>2, <2>3, <2>4 DEF WholeLines
<1>13. ASSUME Polite
       PROVE  /\ wire = WholeLine(Len(lines)) /\ ready = <<>> /\ AtStep("handle") = {}
              /\ Len(lines) = Len(log) + 1
              /\ wire' = <<>> /\ Len(ready') = 1 /\ ready'[1] = r
              /\ r.got = WholeLine(Len(lines))
    <2>1. OnWire(WholeLine(Len(lines))) /\ Len(lines) = Len(log) + 1
        BY <1>0, <1>2, <1>13 DEF OneUnderWay, NoneUnderWay, Taken, InHandler
    <2>2. wire = WholeLine(Len(lines)) /\ ready = <<>> /\ AtStep("handle") = {}
        BY <2>1 DEF OnWire
    <2>3. Len(wire) = 1
        BY <2>2, WholeLineFacts
    <2>4. SubSeq(wire, 1, n) = wire /\ wire' = <<>>
        BY <1>6, <2>3
    <2>5. r.got = wire
        BY <1>11, <1>13, <2>4 DEF Polite
    <2>6. Len(ready) = 0
        BY <2>2
    <2>7. Len(ready') = 1 /\ ready'[1] = r
        BY <1>5, <2>6
    <2> QED BY <2>1, <2>2, <2>4, <2>5, <2>7
<1>14. OneUnderWay'
    BY <1>3, <1>7, <1>13 DEF OneUnderWay, Taken
<1>15. \A i \in DOMAIN ready' : Polite => ready'[i] = r
    BY <1>5, <1>13
<1>16. FirstRead'
    <2>1. SUFFICES ASSUME Polite, log = <<>>
                   PROVE  /\ Busy = AtStep("handle")
                          /\ reads' = <<>>
                          /\ \A i \in DOMAIN ready' : ready'[i].handler = server
                          /\ \A u \in Busy : running[u].handler = server
        <3>1. reads' = <<>> => Len(reads') <= 1 /\ \A i \in DOMAIN reads' : FALSE
            OBVIOUS
        <3> QED BY <1>3, <1>7, <2>1, <3>1 DEF FirstRead
    <2>2. Len(reads) <= 1
        BY <1>0, <2>1 DEF FirstRead
    <2>3. reads' = <<>>
        BY <1>1, <1>4, <2>2, EmptySeq
    <2>4. r.handler = server
        BY <1>0, <1>1, <1>4, <2>1 DEF FirstRead
    <2> QED BY <1>0, <1>15, <2>1, <2>3, <2>4 DEF FirstRead
<1>17. CardAwaited'
    <2>1. SUFFICES ASSUME Polite, Len(log) = 1, lines[1] = "newUser"
                   PROVE  /\ wire' = <<>> /\ Len(lines) # 1
                          /\ \A i \in DOMAIN ready' : ready'[i].handler = "uid"
                          /\ AtStep("handle") = {}
        BY <1>3, <1>7 DEF CardAwaited
    <2>2. r.handler = "uid"
        BY <1>0, <1>1, <1>2, <2>1 DEF CardAwaited
    <2> QED BY <1>13, <1>15, <2>1, <2>2
<1>18. ReadsOwed'
    <2>1. /\ Len(reads') + 1 = Len(reads) /\ Len(ready') = Len(ready) + 1
          /\ Len(reads') \in Nat /\ Len(ready) \in Nat
        <3>1. Len(Tail(reads)) \in Nat
            BY <1>4, LenProperties
        <3> QED BY <1>1, <1>4, <1>5, <3>1
    <2>2. Len(reads') + Len(ready') = Len(reads) + Len(ready)
        BY <2>1
    <2> QED BY <1>0, <1>3, <1>7, <2>2 DEF ReadsOwed
<1>20. OpenWhileHeld'
    <2>1. open
        BY DEF Take
    <2>2. ready' # <<>>
        BY <1>5
    <2>3. Held(reads', ready', Busy')
        BY <2>2 DEF Held
    <2> QED BY <1>3, <2>1, <2>3 DEF OpenWhileHeld
<1> QED BY <1>8, <1>9, <1>10, <1>12, <1>14, <1>16, <1>17, <1>18, <1>20 DEF IndInv

\* A read that fails is gone: there is nobody to hear, or nothing more to come.
LEMMA FailReadStep ==
    ASSUME IndInv, FailRead
    PROVE  IndInv'
<1>0. /\ TypeOK /\ HandledInOrder /\ FirstUserGetsCard /\ OwnHandlers /\ OpenWhileHeld /\ WholeLines
      /\ OneUnderWay /\ FirstRead /\ CardAwaited /\ ReadsOwed
    BY DEF IndInv
<1>1. /\ UNCHANGED <<server, lockstep, whole, lines, peerOpen, wire, ready, running, log>>
      /\ reads # <<>> /\ reads' = Tail(reads) /\ (~open \/ (~peerOpen /\ wire = <<>>))
      /\ (open' <=> open /\ Held(reads', ready, Busy)) /\ open' \in BOOLEAN
      /\ (Polite' <=> Polite)
    BY DEF FailRead, peerVars, Polite
<1>2. /\ Tail(reads) \in Seq(Reads) /\ Len(reads) \in Nat /\ Len(reads) = Len(Tail(reads)) + 1
      /\ \A i \in DOMAIN Tail(reads) : i + 1 \in DOMAIN reads /\ Tail(reads)[i] = reads[i + 1]
    <2>1. reads \in Seq(Reads)
        BY <1>0 DEF TypeOK
    <2> QED BY <1>1, <2>1, FromFront
<1>3. Busy' = Busy /\ AtStep("handle")' = AtStep("handle") /\ AtStep("again")' = AtStep("again")
    BY <1>1 DEF Busy, AtStep
<1>4. TypeOK'
    <2>1. \A i \in DOMAIN reads' : ~HasLine(reads'[i].got)
        BY <1>0, <1>1, <1>2 DEF TypeOK
    <2> QED BY <1>0, <1>1, <1>2, <2>1 DEF TypeOK
<1>5. HandledInOrder' /\ FirstUserGetsCard'
    BY <1>0, <1>1 DEF HandledInOrder, FirstUserGetsCard
<1>6. OwnHandlers'
    BY <1>0, <1>1, <1>2, <1>3 DEF OwnHandlers
<1>7. WholeLines'
    <2>1. whole => \A i \in DOMAIN reads' : reads'[i].got = <<>>
        BY <1>0, <1>1, <1>2 DEF WholeLines
    <2> QED BY <1>0, <1>1, <1>3, <2>1 DEF WholeLines, Sent, Unbroken
<1>8. OneUnderWay'
    BY <1>0, <1>1, <1>3 DEF OneUnderWay, NoneUnderWay, OnWire, Taken, InHandler
<1>9. FirstRead'
    <2>1. SUFFICES ASSUME Polite, log = <<>> PROVE FirstRead'
        BY <1>1 DEF FirstRead
    <2>2. Len(reads) <= 1
        BY <1>0, <2>1 DEF FirstRead
    <2>3. reads' = <<>>
        BY <1>1, <1>2, <2>2, EmptySeq
    <2>4. Len(reads') <= 1 /\ \A i \in DOMAIN reads' : FALSE
        BY <2>3
    <2> QED BY <1>0, <1>1, <1>3, <2>1, <2>3, <2>4 DEF FirstRead
<1>10. CardAwaited'
    <2>1. SUFFICES ASSUME Polite, Len(log) = 1, lines[1] = "newUser"
                   PROVE  wire = <<>> /\ ~peerOpen
        BY <1>0, <1>1, <1>3, <2>1 DEF CardAwaited
    <2>2. lines \in Seq(Kinds) /\ Len(lines) >= 1
        BY <1>0, <2>1 DEF TypeOK, OneUnderWay
    <2>3. 1 \in DOMAIN lines
        BY <2>2, LenProperties
    <2>4. server = "cli"
        BY <1>0, <2>1, <2>3 DEF OwnHandlers
    <2>5. open
        BY <1>0, <1>1, <2>4 DEF OpenWhileHeld, Held
    <2> QED BY <1>1, <2>5
<1>11. ReadsOwed'
    BY <1>1 DEF ReadsOwed
<1>20. OpenWhileHeld'
    <2>1. server = "cli" => open
        BY <1>0, <1>1 DEF OpenWhileHeld, Held
    <2> QED BY <1>1, <1>3, <2>1 DEF OpenWhileHeld
<1> QED BY <1>4, <1>5, <1>6, <1>7, <1>8, <1>9, <1>10, <1>11, <1>20 DEF IndInv

----------------------------------------------------------------------------
(* What a thread takes up. *)

\* The oldest completed read, and what is left behind it.
LEMMA ReadyFacts ==
    ASSUME TypeOK, ready # <<>>
    PROVE  /\ Head(ready) \in Reads /\ Head(ready) = ready[1] /\ 1 \in DOMAIN ready
           /\ Head(ready).handler \in Handlers /\ Head(ready).got \in Seq(Pieces)
           /\ Tail(ready) \in Seq(Reads) /\ Len(ready) \in Nat
           /\ Len(Tail(ready)) \in Nat /\ Len(ready) = Len(Tail(ready)) + 1
           /\ \A i \in DOMAIN Tail(ready) : i + 1 \in DOMAIN ready /\ Tail(ready)[i] = ready[i + 1]
<1>1. ready \in Seq(Reads)
    BY DEF TypeOK
<1>2. /\ Head(ready) \in Reads /\ Head(ready) = ready[1] /\ 1 \in DOMAIN ready
      /\ Tail(ready) \in Seq(Reads) /\ Len(ready) \in Nat /\ Len(ready) = Len(Tail(ready)) + 1
      /\ \A i \in DOMAIN Tail(ready) : i + 1 \in DOMAIN ready /\ Tail(ready)[i] = ready[i + 1]
    BY <1>1, FromFront
<1>3. Head(ready).handler \in Handlers /\ Head(ready).got \in Seq(Pieces)
    BY <1>2 DEF Reads
<1>4. Len(Tail(ready)) \in Nat
    BY <1>2, LenProperties
<1> QED BY <1>2, <1>3, <1>4

\* Where lines arrive in one piece, every completed read has one.
LEMMA ReadyLine ==
    ASSUME TypeOK, WholeLines, whole, ready # <<>>
    PROVE  /\ HasLine(Head(ready).got) /\ Sent(<<Head(ready).got[1]>>)
           /\ FirstLine(Head(ready).got) = <<Head(ready).got[1]>>
<1> DEFINE got == Head(ready).got
<1>1. Head(ready) = ready[1] /\ 1 \in DOMAIN ready /\ got \in Seq(Pieces)
    BY ReadyFacts
<1>2. got # <<>> /\ Unbroken(got)
    BY <1>1 DEF WholeLines
<1>3. 1 \in DOMAIN got
    BY <1>1, <1>2, FromFront
<1>4. Sent(<<got[1]>>)
    BY <1>2, <1>3 DEF Unbroken
<1>5. got[1].end
    <2>1. PICK i \in 1 .. Len(lines) : <<got[1]>> = WholeLine(i)
        BY <1>4 DEF Sent
    <2>2. got[1] = WholeLine(i)[1]
        BY <2>1 DEF WholeLine
    <2> QED BY <2>2, WholeLineFacts
<1>6. HasLine(got)
    BY <1>3, <1>5 DEF HasLine
<1> HIDE DEF got
<1>7. FirstLine(got) = <<got[1]>>
    BY <1>1, <1>5, <1>6, FirstLineFacts
<1> QED BY <1>4, <1>6, <1>7 DEF got

\* A read that waits for the rest of a line is not lost; lines are in pieces.
LEMMA ReadMoreStep ==
    ASSUME IndInv, NEW t \in Threads, ReadMore(t)
    PROVE  IndInv'
<1>0. /\ TypeOK /\ HandledInOrder /\ FirstUserGetsCard /\ OwnHandlers /\ OpenWhileHeld /\ WholeLines
    BY DEF IndInv
<1>1. /\ UNCHANGED <<server, lockstep, whole, lines, peerOpen, wire, open, running, log>>
      /\ ready # <<>> /\ ~HasLine(Head(ready).got)
      /\ reads' = Append(reads, Head(ready)) /\ ready' = Tail(ready)
    BY DEF ReadMore, peerVars
<1>2. /\ Head(ready) \in Reads /\ Head(ready) = ready[1] /\ 1 \in DOMAIN ready
      /\ ready' \in Seq(Reads)
      /\ \A i \in DOMAIN ready' : i + 1 \in DOMAIN ready /\ ready'[i] = ready[i + 1]
    BY <1>0, <1>1, ReadyFacts
<1>3. reads \in Seq(Reads) /\ \A i \in DOMAIN reads : ~HasLine(reads[i].got)
    BY <1>0 DEF TypeOK
<1>4. /\ reads' \in Seq(Reads)
      /\ \A i \in DOMAIN reads' : \/ i \in DOMAIN reads /\ reads'[i] = reads[i]
                                  \/ reads'[i] = Head(ready)
    BY <1>1, <1>2, <1>3, AtBack
<1>5. ~whole
    BY <1>0, <1>1, ReadyLine
<1>6. TypeOK'
    <2>1. \A i \in DOMAIN reads' : ~HasLine(reads'[i].got)
        BY <1>1, <1>3, <1>4
    <2> QED BY <1>0, <1>1, <1>2, <1>4, <2>1 DEF TypeOK
<1>7. OwnHandlers'
    <2>1. Busy' = Busy
        BY <1>1 DEF Busy
    <2> QED BY <1>0, <1>1, <1>2, <1>4, <2>1 DEF OwnHandlers
<1>8. /\ HandledInOrder' /\ FirstUserGetsCard' /\ WholeLines' /\ OneUnderWay' /\ FirstRead'
      /\ CardAwaited' /\ ReadsOwed'
    BY <1>1, <1>5 DEF Polite, HandledInOrder, FirstUserGetsCard, WholeLines, OneUnderWay,
                      FirstRead, CardAwaited, ReadsOwed
<1>20. OpenWhileHeld'
    <2>1. server = "cli" => open
        BY <1>0, <1>1 DEF OpenWhileHeld, Held
    <2>2. Held(reads', ready', Busy')
        BY <1>1, <1>2, <1>3, AtBack DEF Held
    <2> QED BY <1>1, <2>1, <2>2 DEF OpenWhileHeld
<1> QED BY <1>6, <1>7, <1>8, <1>20 DEF IndInv

\* A thread takes up the oldest completed read and its first line.
LEMMA BeginFacts ==
    ASSUME TypeOK, NEW t \in Threads, Begin(t)
    PROVE  /\ running' \in [Threads -> Runs \cup {Idle, Gone}] /\ t \notin Busy
           /\ \A u \in Threads : u # t => running'[u] = running[u]
           /\ running'[t].handler = Head(ready).handler
           /\ running'[t].got = FirstLine(Head(ready).got)
           /\ Busy' = Busy \cup {t} /\ AtStep("handle")' = AtStep("handle") \cup {t}
           /\ AtStep("again")' = AtStep("again")
           /\ Cardinality(Busy') = Cardinality(Busy) + 1
<1>1. ready # <<>> /\ HasLine(Head(ready).got) /\ running[t] = Idle
    BY DEF Begin
<1>2. Head(ready).handler \in Handlers /\ Head(ready).got \in Seq(Pieces)
    BY <1>1, ReadyFacts
<1> DEFINE line == FirstLine(Head(ready).got)
           r == [handler |-> Head(ready).handler, got |-> line, step |-> "handle"]
<1>3. line \in Seq(Pieces)
    BY <1>1, <1>2, FirstLineFacts
<1>4. r \in Runs /\ r.handler = Head(ready).handler /\ r.got = line /\ r.step = "handle"
    <2> HIDE DEF line
    <2> QED BY <1>2, <1>3 DEF Runs
<1>5. running \in [Threads -> Runs \cup {Idle, Gone}] /\ running' = [running EXCEPT ![t] = r]
    BY DEF Begin, TypeOK
<1> HIDE DEF r
<1>6. /\ running' \in [Threads -> Runs \cup {Idle, Gone}]
      /\ running'[t] = r /\ \A u \in Threads : u # t => running'[u] = running[u]
    BY <1>4, <1>5
<1>7. r \notin {Idle, Gone}
    BY <1>4, IdleAssumption
<1>8. Busy' = Busy \cup {t} /\ t \notin Busy
    BY <1>1, <1>6, <1>7 DEF Busy
<1>9. AtStep("handle")' = AtStep("handle") \cup {t}
    BY <1>4, <1>6, <1>8 DEF AtStep, Busy
<1>10. AtStep("again")' = AtStep("again")
    BY <1>4, <1>6, <1>8 DEF AtStep, Busy
<1>11. Cardinality(Busy') = Cardinality(Busy) + 1
    <2>1. IsFiniteSet(Busy)
        BY BusyFacts
    <2> QED BY <1>8, <2>1, FS_AddElement
<1> QED BY <1>4, <1>6, <1>8, <1>9, <1>10, <1>11

\* A handler begins with the line the read has taken.
LEMMA BeginStep ==
    ASSUME IndInv, NEW t \in Threads, Begin(t)
    PROVE  IndInv'
<1>0. /\ TypeOK /\ HandledInOrder /\ FirstUserGetsCard /\ OwnHandlers /\ OpenWhileHeld /\ WholeLines
      /\ OneUnderWay /\ FirstRead /\ CardAwaited /\ ReadsOwed
    BY DEF IndInv
<1>1. /\ UNCHANGED <<server, lockstep, whole, lines, peerOpen, wire, open, reads, log>>
      /\ ready # <<>> /\ HasLine(Head(ready).got) /\ ready' = Tail(ready)
      /\ (Polite' <=> Polite)
    BY DEF Begin, peerVars, Polite
<1>2. /\ Head(ready) = ready[1] /\ 1 \in DOMAIN ready
      /\ ready' \in Seq(Reads) /\ Len(ready) \in Nat
      /\ Len(ready') \in Nat /\ Len(ready) = Len(ready') + 1
      /\ \A i \in DOMAIN ready' : i + 1 \in DOMAIN ready /\ ready'[i] = ready[i + 1]
    BY <1>0, <1>1, ReadyFacts
<1>3. /\ running' \in [Threads -> Runs \cup {Idle, Gone}] /\ t \notin Busy
      /\ \A u \in Threads : u # t => running'[u] = running[u]
      /\ running'[t].handler = Head(ready).handler
      /\ running'[t].got = FirstLine(Head(ready).got)
      /\ Busy' = Busy \cup {t} /\ AtStep("handle")' = AtStep("handle") \cup {t}
      /\ AtStep("again")' = AtStep("again")
      /\ Cardinality(Busy') = Cardinality(Busy) + 1
    BY <1>0, BeginFacts
<1>4. whole => /\ running'[t].got = <<Head(ready).got[1]>>
               /\ Sent(running'[t].got)
    BY <1>0, <1>1, <1>3, ReadyLine
<1>5. Busy \subseteq Threads /\ AtStep("handle") \subseteq Busy
    BY DEF Busy, AtStep
<1>6. \A u \in Busy' : u = t \/ (u \in Busy /\ running'[u] = running[u])
    BY <1>3, <1>5
<1>7. TypeOK'
    BY <1>0, <1>1, <1>2, <1>3 DEF TypeOK
<1>8. HandledInOrder' /\ FirstUserGetsCard'
    BY <1>0, <1>1 DEF HandledInOrder, FirstUserGetsCard
<1>9. OwnHandlers'
    BY <1>0, <1>1, <1>2, <1>3, <1>6 DEF OwnHandlers
<1>10. WholeLines'
    <2>1. whole => /\ \A i \in DOMAIN ready' : ready'[i].got # <<>> /\ Unbroken(ready'[i].got)
                   /\ \A u \in Busy' : Sent(running'[u].got)
        BY <1>0, <1>2, <1>4, <1>6 DEF WholeLines
    <2> QED BY <1>0, <1>1, <2>1 DEF WholeLines, Sent, Unbroken
<1>11. ASSUME Polite
       PROVE  /\ wire = <<>> /\ ready' = <<>> /\ AtStep("handle")' = {t}
              /\ Len(lines) = Len(log) + 1 /\ running'[t].got = WholeLine(Len(lines))
    <2>1. Taken(WholeLine(Len(lines))) /\ Len(lines) = Len(log) + 1
        BY <1>0, <1>1, <1>11 DEF OneUnderWay, NoneUnderWay, OnWire, InHandler
    <2>2. /\ wire = <<>> /\ AtStep("handle") = {} /\ Len(ready) = 1
          /\ ready[1].got = WholeLine(Len(lines))
        BY <2>1 DEF Taken
    <2>3. ready' = <<>>
        <3> DEFINE left == Len(ready')
                   all == Len(ready)
        <3>1. left \in Nat /\ all = left + 1 /\ all = 1
            BY <1>2, <2>2
        <3>2. left = 0
            <4> HIDE DEF left, all
            <4> QED BY <3>1
        <3>3. ready' \in Seq(Reads)
            BY <1>2
        <3> QED BY <3>2, <3>3, EmptySeq
    <2>4. running'[t].got = WholeLine(Len(lines))
        BY <1>2, <1>4, <1>11, <2>2, WholeLineFacts DEF Polite
    <2> QED BY <1>3, <2>1, <2>2, <2>3, <2>4
<1>12. OneUnderWay'
    <2>1. SUFFICES ASSUME Polite PROVE InHandler(WholeLine(Len(lines)))'
        BY <1>1, <1>11 DEF OneUnderWay
    <2>2. t \in Busy'
        BY <1>3
    <2> QED BY <1>1, <1>11, <2>1, <2>2 DEF InHandler
<1>13. FirstRead'
    <2>1. SUFFICES ASSUME Polite, log = <<>>
                   PROVE  /\ Busy' = AtStep("handle")'
                          /\ \A u \in Busy' : running'[u].handler = server
        <3>1. \A i \in DOMAIN ready' : Polite => FALSE
            BY <1>11
        <3> QED BY <1>0, <1>1, <2>1, <3>1 DEF FirstRead
    <2>2. Busy = AtStep("handle") /\ ready[1].handler = server
          /\ \A u \in Busy : running[u].handler = server
        BY <1>0, <1>2, <2>1 DEF FirstRead
    <2> QED BY <1>2, <1>3, <1>6, <2>2
<1>14. CardAwaited'
    <2>1. SUFFICES ASSUME Polite, Len(log) = 1, lines[1] = "newUser"
                   PROVE  /\ \A i \in DOMAIN ready' : FALSE
                          /\ \A u \in AtStep("handle")' : running'[u].handler = "uid"
        BY <1>0, <1>1, <2>1 DEF CardAwaited
    <2>2. ready[1].handler = "uid"
        BY <1>0, <1>2, <2>1 DEF CardAwaited
    <2> QED BY <1>2, <1>3, <1>11, <2>1, <2>2
<1>15. ReadsOwed'
    <2>1. SUFFICES ASSUME whole, open, peerOpen
                   PROVE  Len(reads) + Len(ready') + Cardinality(Busy')
                                + Cardinality(AtStep("again")) + Cardinality(Users)
                                + 2 * Cardinality(Thrown)
                            = 1 + Len(log) + Cardinality(Added)
        BY <1>1, <1>3 DEF ReadsOwed, Users, Added, Thrown
    <2>2. Len(reads) + Len(ready) + Cardinality(Busy) + Cardinality(AtStep("again"))
                + Cardinality(Users) + 2 * Cardinality(Thrown)
            = 1 + Len(log) + Cardinality(Added)
        BY <1>0, <2>1 DEF ReadsOwed
    <2>3. Len(reads) \in Nat /\ Cardinality(Busy) \in Nat
        BY <1>0, CountFacts
    <2>4. Len(reads) + Len(ready') + Cardinality(Busy') = Len(reads) + Len(ready) + Cardinality(Busy)
        BY <1>2, <1>3, <2>3
    <2> QED BY <2>2, <2>4
<1>20. OpenWhileHeld'
    <2>1. server = "cli" => open
        BY <1>0, <1>1 DEF OpenWhileHeld, Held
    <2>2. Held(reads', ready', Busy')
        BY <1>3 DEF Held
    <2> QED BY <1>1, <2>1, <2>2 DEF OpenWhileHeld
<1> QED BY <1>7, <1>8, <1>9, <1>10, <1>12, <1>13, <1>14, <1>15, <1>20 DEF IndInv

----------------------------------------------------------------------------
(* The peer. *)

\* A peer that closes its end sends no more and takes nothing back.
LEMMA PeerCloseStep ==
    ASSUME IndInv, PeerClose
    PROVE  IndInv'
<1>0. /\ TypeOK /\ HandledInOrder /\ FirstUserGetsCard /\ OwnHandlers /\ OpenWhileHeld /\ WholeLines
      /\ OneUnderWay /\ FirstRead /\ CardAwaited
    BY DEF IndInv
<1>1. /\ UNCHANGED <<server, lockstep, whole, lines, wire, open, reads, ready, running, log>>
      /\ ~peerOpen'
    BY DEF PeerClose, chainVars
<1>2. Busy' = Busy /\ AtStep("handle")' = AtStep("handle")
    BY <1>1 DEF Busy, AtStep
<1>3. TypeOK'
    <2>1. {lockstep', whole', peerOpen', open'} \subseteq BOOLEAN
        BY <1>0, <1>1 DEF TypeOK, PeerClose
    <2> QED BY <1>0, <1>1, <2>1 DEF TypeOK
<1>4. HandledInOrder' /\ FirstUserGetsCard' /\ OwnHandlers' /\ WholeLines'
    BY <1>0, <1>1, <1>2
       DEF Polite, HandledInOrder, FirstUserGetsCard, OwnHandlers, WholeLines, Sent, Unbroken
<1>5. OneUnderWay'
    BY <1>0, <1>1, <1>2 DEF Polite, OneUnderWay, NoneUnderWay, OnWire, Taken, InHandler
<1>6. FirstRead' /\ CardAwaited'
    BY <1>0, <1>1, <1>2 DEF Polite, FirstRead, CardAwaited
<1>7. ReadsOwed'
    BY <1>1 DEF ReadsOwed
<1>20. OpenWhileHeld'
    BY <1>0, <1>1, <1>2 DEF OpenWhileHeld
<1> QED BY <1>3, <1>4, <1>5, <1>6, <1>7, <1>20 DEF IndInv

\* A line is added to what the peer has sent, and its pieces to the wire.
LEMMA SendFacts ==
    ASSUME TypeOK, Send
    PROVE  /\ \E kind \in Kinds : /\ lines' = Append(lines, kind)
                                  /\ kind = "newUser" => server = "cli"
           /\ lines' \in Seq(Kinds) /\ Len(lines) \in Nat /\ Len(lines') = Len(lines) + 1
           /\ Len(lines') <= MaxLines
           /\ \A i \in 1 .. Len(lines) : lines'[i] = lines[i]
           /\ \A i \in DOMAIN lines' : lines'[i] = "newUser" =>
                    server = "cli" \/ (i \in DOMAIN lines /\ lines[i] = "newUser")
           /\ wire' \in Seq(Pieces)
           /\ whole => wire' = wire \o WholeLine(Len(lines'))
<1>1. lines \in Seq(Kinds) /\ wire \in Seq(Pieces) /\ Len(lines) < MaxLines /\ server \in {"client", "cli"}
    BY DEF TypeOK, Send
<1>2. PICK kind \in NextKinds : lines' = Append(lines, kind)
    BY DEF Send
<1>3. kind \in Kinds /\ (kind = "newUser" => server = "cli")
    BY <1>1, <1>2 DEF NextKinds, Kinds
<1>4. /\ lines' \in Seq(Kinds) /\ Len(lines) \in Nat /\ Len(lines') = Len(lines) + 1
      /\ DOMAIN lines = 1 .. Len(lines)
      /\ \A i \in DOMAIN lines' : i \in DOMAIN lines \/ i = Len(lines) + 1
      /\ \A i \in DOMAIN lines : lines'[i] = lines[i]
      /\ lines'[Len(lines) + 1] = kind
    BY <1>1, <1>2, <1>3, AtBack
<1>5. Len(lines') <= MaxLines /\ Len(lines') \in 1 .. MaxLines
    BY <1>1, <1>4, MaxLinesAssumption
<1>6. WholeLine(Len(lines')) \in Seq(Pieces) /\ CutLine(Len(lines')) \in Seq(Pieces)
    <2> DEFINE k == Len(lines')
    <2>1. k \in 1 .. MaxLines
        BY <1>5
    <2> HIDE DEF k
    <2>2. CutLine(k) \in Seq(Pieces)
        BY <2>1 DEF CutLine, Pieces
    <2>3. WholeLine(k) \in Seq(Pieces)
        BY <2>1, WholeLineFacts
    <2> QED BY <2>2, <2>3 DEF k
<1>7. \/ wire' = wire \o WholeLine(Len(lines'))
      \/ ~whole /\ wire' = wire \o CutLine(Len(lines'))
    BY DEF Send
<1>8. wire' \in Seq(Pieces)
    BY <1>1, <1>6, <1>7, ConcatProperties
<1> QED BY <1>2, <1>3, <1>4, <1>5, <1>7, <1>8

\* A polite peer sends when nothing is under way.
LEMMA SendStep ==
    ASSUME IndInv, Send
    PROVE  IndInv'
<1>0. /\ TypeOK /\ HandledInOrder /\ FirstUserGetsCard /\ OwnHandlers /\ OpenWhileHeld /\ WholeLines
      /\ OneUnderWay /\ FirstRead /\ CardAwaited /\ ReadsOwed
    BY DEF IndInv
<1>1. /\ UNCHANGED <<server, lockstep, whole, peerOpen, open, reads, ready, running, log>>
      /\ peerOpen /\ open /\ (lockstep => Len(log) = Len(lines)) /\ (Polite' <=> Polite)
    BY DEF Send, chainVars, Polite
<1>2. Busy' = Busy /\ AtStep("handle")' = AtStep("handle") /\ AtStep("again")' = AtStep("again")
      /\ Users' = Users /\ Thrown' = Thrown
    BY <1>1 DEF Busy, AtStep, Users, Thrown
<1>3. /\ lines' \in Seq(Kinds) /\ Len(lines) \in Nat /\ Len(lines') = Len(lines) + 1
      /\ Len(lines') <= MaxLines
      /\ \A i \in 1 .. Len(lines) : lines'[i] = lines[i]
      /\ \A i \in DOMAIN lines' : lines'[i] = "newUser" =>
                server = "cli" \/ (i \in DOMAIN lines /\ lines[i] = "newUser")
      /\ wire' \in Seq(Pieces)
      /\ whole => wire' = wire \o WholeLine(Len(lines'))
    BY <1>0, SendFacts
<1>4. \A got : Sent(got) => Sent(got)'
    <2>1. \A i \in 1 .. Len(lines) : i \in 1 .. Len(lines')
        BY <1>3
    <2> QED BY <2>1 DEF Sent
<1>5. ASSUME Polite
      PROVE  /\ Len(lines) = Len(log) /\ NoneUnderWay
             /\ Len(lines') = Len(log) + 1 /\ wire' = WholeLine(Len(lines'))
    <2>1. Len(lines) = Len(log) /\ Len(lines) # Len(log) + 1
        BY <1>1, <1>3, <1>5 DEF Polite
    <2>2. NoneUnderWay
        BY <1>0, <1>5, <2>1 DEF OneUnderWay
    <2>3. wire' = <<>> \o WholeLine(Len(lines'))
        BY <1>3, <1>5, <2>2 DEF Polite, NoneUnderWay
    <2>4. wire' = WholeLine(Len(lines'))
        <3>1. Len(lines') \in 1 .. MaxLines
            BY <1>3, MaxLinesAssumption
        <3>2. WholeLine(Len(lines')) \in Seq(Pieces)
            BY <3>1, WholeLineFacts
        <3> QED BY <2>3, <3>2, ConcatEmptySeq
    <2> QED BY <1>3, <2>1, <2>2, <2>4
<1>6. TypeOK'
    BY <1>0, <1>1, <1>3 DEF TypeOK
<1>7. HandledInOrder' /\ FirstUserGetsCard'
    <2>1. Polite /\ Len(log) >= 2 => lines'[1] = lines[1]
        BY <1>3, <1>5
    <2> QED BY <1>0, <1>1, <2>1 DEF HandledInOrder, FirstUserGetsCard
<1>8. OwnHandlers'
    BY <1>0, <1>1, <1>2, <1>3 DEF OwnHandlers
<1>9. WholeLines'
    <2>1. SUFFICES ASSUME whole PROVE Unbroken(wire)'
        BY <1>0, <1>1, <1>2, <1>4 DEF WholeLines, Unbroken
    <2> DEFINE w == WholeLine(Len(lines'))
    <2>2. wire \in Seq(Pieces) /\ w \in Seq(Pieces) /\ Len(lines') \in 1 .. Len(lines')
        <3>1. Len(lines') \in 1 .. MaxLines /\ Len(lines') \in 1 .. Len(lines')
            BY <1>3, MaxLinesAssumption
        <3> QED BY <1>0, <3>1, WholeLineFacts DEF TypeOK
    <2>3. Len(w) = 1 /\ <<w[1]>> = w
        BY WholeLineFacts
    <2>4. wire' = wire \o w /\ Unbroken(wire)
        BY <1>0, <1>3, <2>1 DEF WholeLines
    <2> HIDE DEF w
    <2>5. Len(wire) \in Nat /\ DOMAIN wire = 1 .. Len(wire)
          /\ DOMAIN wire' = 1 .. Len(wire') /\ Len(wire') = Len(wire) + 1
          /\ \A i \in 1 .. Len(wire') :
                wire'[i] = IF i <= Len(wire) THEN wire[i] ELSE w[i - Len(wire)]
        <3>1. /\ Len(wire') = Len(wire) + Len(w)
              /\ \A i \in 1 .. Len(wire) + Len(w) :
                    wire'[i] = IF i <= Len(wire) THEN wire[i] ELSE w[i - Len(wire)]
            BY <2>2, <2>4, ConcatProperties
        <3>2. /\ Len(wire) \in Nat /\ DOMAIN wire = 1 .. Len(wire)
              /\ DOMAIN wire' = 1 .. Len(wire')
            BY <1>3, <2>2, LenProperties
        <3> QED BY <2>3, <3>1, <3>2
    <2>6. ASSUME NEW i \in DOMAIN wire'
          PROVE  \E k \in 1 .. Len(lines') : <<wire'[i]>> = WholeLine(k)
        <3>1. CASE i <= Len(wire)
            <4>1. i \in DOMAIN wire /\ wire'[i] = wire[i]
                BY <2>5, <2>6, <3>1
            <4>2. PICK k \in 1 .. Len(lines) : <<wire[i]>> = WholeLine(k)
                BY <2>4, <4>1 DEF Unbroken, Sent
            <4>3. k \in 1 .. Len(lines')
                BY <1>3
            <4> QED BY <4>1, <4>2, <4>3
        <3>2. CASE ~(i <= Len(wire))
            <4>1. i - Len(wire) = 1 /\ wire'[i] = w[i - Len(wire)]
                BY <2>5, <2>6, <3>2
            <4>2. <<wire'[i]>> = w
                BY <2>3, <4>1
            <4> QED BY <2>2, <4>2 DEF w
        <3> QED BY <3>1, <3>2
    <2> QED BY <2>6 DEF Unbroken, Sent
<1>10. OneUnderWay'
    <2>1. SUFFICES ASSUME Polite PROVE OnWire(WholeLine(Len(lines)))'
        BY <1>1, <1>5 DEF OneUnderWay
    <2>2. ready = <<>> /\ AtStep("handle") = {}
        BY <1>5, <2>1 DEF NoneUnderWay
    <2> QED BY <1>1, <1>2, <1>5, <2>1, <2>2 DEF OnWire
<1>11. Polite => wire' # <<>>
    BY <1>5, WholeLineFacts
<1>12. FirstRead'
    BY <1>0, <1>1, <1>2, <1>11 DEF FirstRead
<1>13. CardAwaited'
    <2>1. SUFFICES ASSUME Polite, Len(log) = 1, lines'[1] = "newUser"
                   PROVE  /\ reads # <<>> /\ Head(reads).handler = "uid"
                          /\ \A i \in DOMAIN ready : ready[i].handler = "uid"
                          /\ \A u \in AtStep("handle") : running[u].handler = "uid"
        BY <1>1, <1>2 DEF CardAwaited
    <2>2. Len(lines) = 1 /\ lines[1] = "newUser"
        BY <1>3, <1>5, <2>1
    <2> QED BY <1>0, <1>1, <2>1, <2>2 DEF CardAwaited
<1>14. ReadsOwed'
    <2>1. ASSUME whole PROVE Added' = Added
        <3>1. \A i \in DOMAIN log : lines'[log[i].got[1].line] = lines[log[i].got[1].line]
            <4>1. SUFFICES ASSUME NEW i \in DOMAIN log
                           PROVE  lines'[log[i].got[1].line] = lines[log[i].got[1].line]
                OBVIOUS
            <4>2. PICK k \in 1 .. Len(lines) : log[i].got = WholeLine(k)
                BY <1>0, <2>1, <4>1 DEF WholeLines, Sent
            <4>3. log[i].got[1].line = k
                BY <4>2, WholeLineFacts
            <4> QED BY <1>3, <4>2, <4>3
        <3> QED BY <1>1, <3>1 DEF Added
    <2> QED BY <1>0, <1>1, <1>2, <2>1 DEF ReadsOwed
<1>20. OpenWhileHeld'
    BY <1>0, <1>1, <1>2 DEF OpenWhileHeld
<1> QED BY <1>6, <1>7, <1>8, <1>9, <1>10, <1>12, <1>13, <1>14, <1>20 DEF IndInv

----------------------------------------------------------------------------
(* The handlers, one by one. *)

\* A line that came in one piece means what was sent; a polite peer's is the last
\* it sent.
LEMMA MeaningFacts ==
    ASSUME IndInv, NEW t \in Threads, NEW h \in Handlers,
           NEW threw \in BOOLEAN, Handling(t, h, threw)
    PROVE  /\ whole => Meanings(running[t].got) = {lines[running[t].got[1].line]}
           /\ Polite /\ log = <<>> => running[t].got[1].line = 1
           /\ Len(reads) \in Nat
<1>0. TypeOK /\ WholeLines /\ OneUnderWay
    BY DEF IndInv
<1>1. t \in Busy /\ t \in AtStep("handle")
    BY DEF Handling, AtStep
<1>2. ASSUME whole PROVE Meanings(running[t].got) = {lines[running[t].got[1].line]}
    <2>1. PICK i \in 1 .. Len(lines) : running[t].got = WholeLine(i)
        BY <1>0, <1>1, <1>2 DEF WholeLines, Sent
    <2>2. i \in 1 .. MaxLines
        <3>1. Len(lines) \in Nat /\ Len(lines) <= MaxLines
            BY <1>0, LenProperties DEF TypeOK
        <3> QED BY <3>1, MaxLinesAssumption
    <2> QED BY <2>1, <2>2 DEF Meanings, Intact
<1>3. ASSUME Polite, log = <<>> PROVE running[t].got[1].line = 1
    <2>1. InHandler(WholeLine(Len(lines))) /\ Len(lines) = Len(log) + 1
        BY <1>0, <1>1, <1>3 DEF OneUnderWay, NoneUnderWay, OnWire, Taken
    <2>2. Len(log) = 0
        BY <1>3
    <2>3. running[t].got = WholeLine(1)
        BY <1>1, <2>1, <2>2 DEF InHandler
    <2> QED BY <2>3, WholeLineFacts
<1>4. Len(reads) \in Nat
    BY <1>0, LenProperties DEF TypeOK
<1> QED BY <1>2, <1>3, <1>4

\* A client's line is answered, and the handler reads for the next.
LEMMA CheckStep ==
    ASSUME IndInv, NEW t \in Threads, Check(t)
    PROVE  IndInv'
<1>1. /\ Handling(t, "client", FALSE) /\ Goto(t, "again")
      /\ UNCHANGED <<peerVars, wire, ready>> /\ open' = open /\ reads' = reads
    BY DEF Check
<1>2. Len(reads) \in Nat /\ "client" \in Handlers
    <2>1. "client" \in Handlers
        BY DEF Handlers
    <2> QED BY <1>1, <2>1, MeaningFacts
<1>3. Len(reads') + 1 + 0 = Len(reads) + 1 + 0
    BY <1>1, <1>2
<1> QED BY <1>1, <1>2, <1>3, HandlerStep

\* A packet without its colon closes the connection.
LEMMA RejectPacketStep ==
    ASSUME IndInv, NEW t \in Threads, RejectPacket(t)
    PROVE  IndInv'
<1>1. /\ Handling(t, "client", FALSE) /\ Goto(t, "repeat")
      /\ UNCHANGED <<peerVars, wire, ready>> /\ open' = FALSE /\ reads' = reads
    BY DEF RejectPacket
<1>2. "client" \in Handlers
    BY DEF Handlers
<1> QED BY <1>1, <1>2, HandlerStep

\* newUser starts a read for the card before any other.
LEMMA AwaitCardStep ==
    ASSUME IndInv, NEW t \in Threads, AwaitCard(t)
    PROVE  IndInv'
<1>1. /\ Handling(t, "cli", FALSE) /\ Goto(t, "again") /\ "newUser" \in Meanings(running[t].got)
      /\ UNCHANGED <<peerVars, wire, ready>> /\ open' = open /\ reads' = StartRead(reads, "uid")
    BY DEF AwaitCard
<1>2. "cli" \in Handlers /\ "uid" \in Handlers
    BY DEF Handlers
<1>3. whole => lines[running[t].got[1].line] = "newUser"
    BY <1>1, <1>2, MeaningFacts
<1>4. Len(reads) \in Nat /\ Len(reads') = Len(reads) + 1
    <2>1. TypeOK
        BY DEF IndInv
    <2> QED BY <1>1, <1>2, <2>1, StartReadFacts
<1>5. Len(reads') + 1 + 0 = Len(reads) + 1 + 1
    BY <1>4
<1> QED BY <1>1, <1>2, <1>3, <1>5, HandlerStep

\* Any other command is answered.
LEMMA CommandStep ==
    ASSUME IndInv, NEW t \in Threads, Command(t)
    PROVE  IndInv'
<1>1. /\ Handling(t, "cli", FALSE) /\ Goto(t, "again")
      /\ \E kind \in Meanings(running[t].got) : kind # "newUser"
      /\ UNCHANGED <<peerVars, wire, ready>> /\ open' = open /\ reads' = reads
    BY DEF Command
<1>2. "cli" \in Handlers
    BY DEF Handlers
<1>3. /\ whole => lines[running[t].got[1].line] # "newUser"
      /\ Polite /\ log = <<>> => running[t].got[1].line = 1
      /\ Len(reads) \in Nat
    <2>1. /\ whole => Meanings(running[t].got) = {lines[running[t].got[1].line]}
          /\ Polite /\ log = <<>> => running[t].got[1].line = 1
          /\ Len(reads) \in Nat
        BY <1>1, <1>2, MeaningFacts
    <2> QED BY <1>1, <2>1
<1>4. ~(Polite /\ lines[1] = "newUser" /\ log = <<>>)
    BY <1>3 DEF Polite
<1>5. Len(reads') + 1 + 0 = Len(reads) + 1 + 0
    BY <1>1, <1>3
<1> QED BY <1>1, <1>2, <1>3, <1>4, <1>5, HandlerStep

\* The line is stored as a card; only read() reads on.
LEMMA StoreCardStep ==
    ASSUME IndInv, NEW t \in Threads, StoreCard(t)
    PROVE  IndInv'
<1>1. /\ Handling(t, "uid", FALSE) /\ Goto(t, "repeat")
      /\ UNCHANGED <<peerVars, wire, ready>> /\ open' = open /\ reads' = reads
    BY DEF StoreCard
<1>2. Len(reads) \in Nat /\ "uid" \in Handlers
    <2>1. "uid" \in Handlers
        BY DEF Handlers
    <2> QED BY <1>1, <2>1, MeaningFacts
<1>3. Len(reads') + 0 + 1 = Len(reads) + 1 + 0
    BY <1>1, <1>2
<1> QED BY <1>1, <1>2, <1>3, HandlerStep

\* A handler that throws reads no more; if it held the connection alone, that is
\* closed.
LEMMA HandlerThrowsStep ==
    ASSUME IndInv, NEW t \in Threads, HandlerThrows(t)
    PROVE  IndInv'
<1>1. /\ Handling(t, "cli", TRUE) \/ Handling(t, "uid", TRUE)
      /\ running' = [running EXCEPT ![t] = Gone]
      /\ open' = (open /\ Held(reads, ready, Busy \ {t}))
      /\ UNCHANGED <<peerVars, wire, ready>> /\ reads' = reads
    BY DEF HandlerThrows
<1>2. "cli" \in Handlers /\ "uid" \in Handlers
    BY DEF Handlers
<1>3. CASE Handling(t, "cli", TRUE)
    BY <1>1, <1>2, <1>3, HandlerStep
<1>4. CASE Handling(t, "uid", TRUE)
    BY <1>1, <1>2, <1>4, HandlerStep
<1> QED BY <1>1, <1>3, <1>4

\* An idle thread is lost to another connection: nothing of this one changes.
LEMMA LoseThreadStep ==
    ASSUME IndInv, NEW t \in Threads, LoseThread(t)
    PROVE  IndInv'
<1>0. /\ TypeOK /\ HandledInOrder /\ FirstUserGetsCard /\ OwnHandlers /\ OpenWhileHeld
      /\ WholeLines /\ OneUnderWay /\ FirstRead /\ CardAwaited /\ ReadsOwed
    BY DEF IndInv
<1>1. /\ UNCHANGED <<server, lockstep, whole, lines, peerOpen, wire, open, reads, ready, log>>
      /\ running[t] = Idle /\ running' = [running EXCEPT ![t] = Gone]
    BY DEF LoseThread, peerVars
<1>2. /\ running' \in [Threads -> Runs \cup {Idle, Gone}] /\ running'[t] = Gone
      /\ \A u \in Threads : u # t => running'[u] = running[u]
    BY <1>0, <1>1 DEF TypeOK
<1>3. Busy' = Busy /\ \A u \in Busy : running'[u] = running[u]
    BY <1>1, <1>2 DEF Busy
<1>4. AtStep("handle")' = AtStep("handle") /\ AtStep("again")' = AtStep("again")
      /\ AtStep("handle") \subseteq Busy
    BY <1>3 DEF AtStep
<1>5. Users' = Users /\ Added' = Added /\ Thrown' = Thrown /\ (Polite' <=> Polite)
    BY <1>1 DEF Users, Added, Thrown, Polite
<1>6. TypeOK' /\ HandledInOrder' /\ FirstUserGetsCard'
    BY <1>0, <1>1, <1>2, <1>5 DEF TypeOK, HandledInOrder, FirstUserGetsCard
<1>7. OwnHandlers' /\ OpenWhileHeld'
    BY <1>0, <1>1, <1>3 DEF OwnHandlers, OpenWhileHeld
<1>8. WholeLines'
    BY <1>0, <1>1, <1>3 DEF WholeLines, Sent, Unbroken
<1>9. OneUnderWay'
    BY <1>0, <1>1, <1>3, <1>4, <1>5 DEF OneUnderWay, NoneUnderWay, OnWire, Taken, InHandler
<1>10. FirstRead' /\ CardAwaited'
    BY <1>0, <1>1, <1>3, <1>4, <1>5 DEF FirstRead, CardAwaited
<1>11. ReadsOwed'
    BY <1>0, <1>1, <1>3, <1>4, <1>5 DEF ReadsOwed
<1> QED BY <1>6, <1>7, <1>8, <1>9, <1>10, <1>11 DEF IndInv

----------------------------------------------------------------------------
(* The theorems. *)

\* Every step keeps the invariant.
LEMMA NextIndInv == IndInv /\ [Next]_vars => IndInv'
<1> SUFFICES ASSUME IndInv, [Next]_vars PROVE IndInv'
    OBVIOUS
<1>1. CASE Send
    BY <1>1, SendStep
<1>2. CASE PeerClose
    BY <1>2, PeerCloseStep
<1>3. CASE Take
    BY <1>3, TakeStep
<1>4. CASE FailRead
    BY <1>4, FailReadStep
<1>5. ASSUME NEW t \in Threads, Run(t) \/ LoseThread(t) PROVE IndInv'
    <2>1. CASE ReadMore(t)
        BY <2>1, ReadMoreStep
    <2>2. CASE Begin(t)
        BY <2>2, BeginStep
    <2>3. CASE Check(t)
        BY <2>3, CheckStep
    <2>4. CASE RejectPacket(t)
        BY <2>4, RejectPacketStep
    <2>5. CASE AwaitCard(t)
        BY <2>5, AwaitCardStep
    <2>6. CASE Command(t)
        BY <2>6, CommandStep
    <2>7. CASE StoreCard(t)
        BY <2>7, StoreCardStep
    <2>8. CASE Again(t) \/ Repeat(t)
        BY <2>8, RestartStep
    <2>9. CASE HandlerThrows(t)
        BY <2>9, HandlerThrowsStep
    <2>10. CASE LoseThread(t)
        BY <2>10, LoseThreadStep
    <2> QED BY <1>5, <2>1, <2>2, <2>3, <2>4, <2>5, <2>6, <2>7, <2>8, <2>9, <2>10 DEF Run
<1>6. CASE UNCHANGED vars
    <2>1. UNCHANGED <<server, lockstep, whole, lines, peerOpen, wire, open, reads, ready,
                      running, log>>
        BY <1>6 DEF vars, peerVars, chainVars
    <2>2. /\ Busy' = Busy /\ \A x : AtStep(x)' = AtStep(x)
          /\ Users' = Users /\ Added' = Added /\ Thrown' = Thrown /\ (Polite' <=> Polite)
        BY <2>1 DEF Busy, AtStep, Users, Added, Thrown, Polite
    <2>3. TypeOK' /\ HandledInOrder' /\ FirstUserGetsCard' /\ OwnHandlers' /\ OpenWhileHeld'
        BY <2>1, <2>2
           DEF IndInv, TypeOK, HandledInOrder, FirstUserGetsCard, OwnHandlers, OpenWhileHeld
    <2>4. WholeLines'
        BY <2>1, <2>2 DEF IndInv, WholeLines, Sent, Unbroken
    <2>5. OneUnderWay'
        BY <2>1, <2>2 DEF IndInv, OneUnderWay, NoneUnderWay, OnWire, Taken, InHandler
    <2>6. FirstRead' /\ CardAwaited' /\ ReadsOwed'
        BY <2>1, <2>2 DEF IndInv, FirstRead, CardAwaited, ReadsOwed
    <2> QED BY <2>3, <2>4, <2>5, <2>6 DEF IndInv
<1> QED BY <1>1, <1>2, <1>3, <1>4, <1>5, <1>6 DEF Next

\* Of a connection with any number of threads and lines: what is under way
\* belongs to its own handlers, and no read is lost.
THEOREM Inductive == Spec => []IndInv
<1> QED BY InitIndInv, NextIndInv, PTL DEF Spec

\* Every variable has its type, and no outstanding read holds a line.
THEOREM TypeCorrect == Spec => []TypeOK
<1>1. IndInv => TypeOK
    BY DEF IndInv
<1> QED BY <1>1, Inductive, PTL

\* A peer that waits for each answer has its lines handled once and in order.
THEOREM InOrder == Spec => []HandledInOrder
<1>1. IndInv => HandledInOrder
    BY DEF IndInv
<1> QED BY <1>1, Inductive, PTL

\* The user added by the first command gets the card of the second line.
THEOREM FirstCard == Spec => []FirstUserGetsCard
<1>1. IndInv => FirstUserGetsCard
    BY DEF IndInv
<1> QED BY <1>1, Inductive, PTL

\* A connection at rest that neither end has closed is never deaf; its reads are
\* one for every line its server's handlers took, one for every newUser, and the
\* first, but for the two that each handler that threw has cost.
THEOREM PilesUp == Spec => []ReadsPileUp
<1>1. IndInv => ReadsPileUp
    <2>1. SUFFICES ASSUME IndInv, whole, Quiet, open, peerOpen
                   PROVE  /\ reads # <<>>
                          /\ Len(reads) + Cardinality(Users) + 2 * Cardinality(Thrown)
                                = 1 + Len(log) + Cardinality(Added)
        BY DEF ReadsPileUp
    <2>2. TypeOK /\ OpenWhileHeld /\ ReadsOwed
        BY <2>1 DEF IndInv
    <2>3. ready = <<>> /\ Len(ready) = 0 /\ Busy = {} /\ AtStep("again") = {}
        BY <2>1 DEF Quiet, AtStep
    <2>4. Cardinality(Busy) = 0 /\ Cardinality(AtStep("again")) = 0
        BY <2>3, FS_EmptySet
    <2>5. Len(reads) \in Nat /\ Cardinality(Users) \in Nat
        BY <2>2, CountFacts
    <2>6. Len(reads) + 0 + 0 + 0 + Cardinality(Users) + 2 * Cardinality(Thrown)
            = 1 + Len(log) + Cardinality(Added)
        BY <2>1, <2>2, <2>3, <2>4 DEF ReadsOwed
    <2>7. reads # <<>>
        BY <2>1, <2>2, <2>3 DEF OpenWhileHeld, Held
    <2> QED BY <2>5, <2>6, <2>7
<1> QED BY <1>1, Inductive, PTL
=============================================================================
