-------------------------- MODULE LifecycleProofs --------------------------
(***************************************************************************)
(* The inductive invariant of Lifecycle and what follows from it, for      *)
(* pools of any size.                                                      *)
(***************************************************************************)
EXTENDS Lifecycle, FiniteSetTheorems, TLAPS

----------------------------------------------------------------------------
(* Who is who. *)

\* A thread of a pool is its server and its number; main is none.
LEMMA PoolFacts ==
    /\ ThreadCount \in Nat \ {0}
    /\ Main \in Actors /\ Main \notin PoolThreads
    /\ \A t \in PoolThreads :
        /\ t \in Actors /\ t # Main
        /\ t[1] \in Servers /\ t[2] \in 1 .. ThreadCount /\ t = <<t[1], t[2]>>
    /\ \A s \in Servers, i \in 1 .. ThreadCount : <<s, i>> \in PoolThreads
    /\ \A a \in Actors : a # Main => a \in PoolThreads
<1>1. ThreadCount \in Nat \ {0}
    BY CountAssumption
<1>2. Main \notin PoolThreads
    BY DEF Main, PoolThreads, Servers
<1> QED BY <1>1, <1>2 DEF PoolThreads, Actors

\* There are finitely many actors.
LEMMA ActorsFinite == IsFiniteSet(Actors)
<1>1. IsFiniteSet(1 .. ThreadCount)
    BY PoolFacts, FS_Interval
<1>2. IsFiniteSet(Servers)
    <2>1. Servers = {"client"} \cup {"cli"}
        BY DEF Servers
    <2> QED BY <2>1, FS_Singleton, FS_Union
<1>3. IsFiniteSet(PoolThreads)
    BY <1>1, <1>2, FS_Product DEF PoolThreads
<1>4. Actors = PoolThreads \cup {Main}
    BY DEF Actors
<1> QED BY <1>3, <1>4, FS_AddElement

\* Two of a set of actors are more than one.
LEMMA TwoStoppers ==
    ASSUME NEW S \in SUBSET Actors, NEW a \in S, NEW b \in S, a # b
    PROVE  Cardinality(S) > 1
<1>1. IsFiniteSet(S) /\ IsFiniteSet({a, b})
    BY ActorsFinite, FS_Subset, FS_AddElement, FS_EmptySet
<1>2. Cardinality({a, b}) = 2
    <2>1. Cardinality({a}) = 1 /\ IsFiniteSet({a})
        BY FS_Singleton
    <2>2. {a, b} = {a} \cup {b} /\ b \notin {a}
        OBVIOUS
    <2>3. Cardinality({a} \cup {b}) = IF b \in {a} THEN Cardinality({a}) ELSE Cardinality({a}) + 1
        BY <2>1, FS_AddElement
    <2> QED BY <2>1, <2>2, <2>3
<1>3. Cardinality({a, b}) <= Cardinality(S)
    BY <1>1, FS_Subset
<1>4. Cardinality(S) \in Nat
    BY <1>1, FS_CardinalityType
<1> QED BY <1>2, <1>3, <1>4

\* One actor at most is one or none.
LEMMA OneStopper ==
    ASSUME NEW S \in SUBSET Actors, S # {}, ~(Cardinality(S) > 1)
    PROVE  \E a \in Actors : S = {a}
<1>1. PICK a \in S : TRUE
    OBVIOUS
<1>2. ASSUME NEW b \in S, b # a PROVE FALSE
    BY <1>2, TwoStoppers
<1> QED BY <1>1, <1>2

----------------------------------------------------------------------------
\* Before anything is started the invariant holds.
LEMMA InitIndInv == Init => IndInv
<1> SUFFICES ASSUME Init PROVE IndInv
    OBVIOUS
<1> USE PoolFacts
<1>1. TypeOK
    <2>1. main \in MainSteps
        BY DEF Init, MainSteps, Servers
    <2>2. stop \in [Actors -> Calls] /\ \A t \in PoolThreads : stop[t].at = "out"
        BY DEF Init, Calls, NoCall, Servers
    <2>3. /\ running \in [Servers -> BOOLEAN] /\ stopped \in [Servers -> BOOLEAN]
          /\ acceptorOpen \in [Servers -> BOOLEAN]
        BY DEF Init
    <2>4. loop \in BOOLEAN /\ asked \in BOOLEAN
        BY DEF Init
    <2> QED BY <2>1, <2>2, <2>3, <2>4 DEF Init, TypeOK, ThreadStates
<1>2. CleanExit /\ AbortOnlyBySelfStop /\ Accepting
    BY DEF Init, CleanExit, AbortOnlyBySelfStop, Accepting, Servers
<1>3. Callers
    BY DEF Init, Callers, NoCall, Servers
<1>4. Spawning
    BY DEF Init, Spawning, Constructing, Servers
<1>5. Stopping
    BY DEF Init, Stopping, NoCall, Unstarted, Servers
<1>6. Looping /\ Joining /\ Closing
    BY DEF Init, Looping, Joining, Closing, NoCall, Servers
<1> QED BY <1>1, <1>2, <1>3, <1>4, <1>5, <1>6 DEF IndInv

----------------------------------------------------------------------------
(* The threads of the pools. *)

\* A step of a thread that runs handlers is nobody else's business.
LEMMA HandlerStep ==
    ASSUME IndInv, Alive, NEW t \in PoolThreads,
           thread[t] \in {"polling", "handling", "accepting"},
           NEW x \in {"polling", "handling", "accepting", "ended"},
           thread' \in [PoolThreads -> ThreadStates],
           \A u \in PoolThreads : thread'[u] = IF u = t THEN x ELSE thread[u],
           accepting' \in [Servers -> {"no", "armed", "taken"}], Accepting',
           UNCHANGED <<process, loop, running, stopped, acceptorOpen, joined, main, stop,
                       stoppers, asked>>
    PROVE  IndInv'
<1> USE PoolFacts
<1>0. /\ TypeOK /\ Alive /\ Alive'
      /\ Callers /\ Spawning /\ Stopping /\ Looping /\ Joining /\ Closing
    BY DEF IndInv, Alive
<1>1. \A u \in PoolThreads : thread'[u] = IF u = t THEN x ELSE thread[u]
    OBVIOUS
<1>2. TypeOK'
    BY <1>0, <1>1 DEF TypeOK, ThreadStates
<1>3. CleanExit' /\ AbortOnlyBySelfStop'
    BY <1>0 DEF CleanExit, AbortOnlyBySelfStop, Alive
<1>4. Callers'
    BY <1>0 DEF Callers, AllJoined
<1>5. Spawning'
    <2>1. \A s \in Servers, i \in 1 .. ThreadCount :
            thread'[<<s, i>>] = "none" <=> thread[<<s, i>>] = "none"
        BY <1>1
    <2>2. \A i \in 1 .. ThreadCount : \A j \in 1 .. i - 1 : j \in 1 .. ThreadCount
        OBVIOUS
    <2>3. /\ "client" \in Servers /\ "cli" \in Servers /\ main' = main
        BY DEF Servers
    <2>4. ASSUME NEW s \in Servers, NEW i \in 1 .. ThreadCount, thread'[<<s, i>>] # "none",
                 NEW j \in 1 .. i - 1
          PROVE  thread'[<<s, j>>] # "none"
        <3>1. thread[<<s, i>>] # "none" /\ j \in 1 .. ThreadCount
            BY <2>1, <2>2, <2>4
        <3>2. thread[<<s, j>>] # "none"
            BY <1>0, <2>4, <3>1 DEF Spawning
        <3> QED BY <2>1, <3>1, <3>2
    <2> HIDE PoolFacts
    <2> QED BY <1>0, <2>1, <2>3, <2>4 DEF Spawning
<1>6. Stopping'
    BY <1>0 DEF Stopping, Unstarted
<1>7. Looping'
    BY <1>0 DEF Looping, AllJoined, Target
<1>8. Joining'
    <2>1. \A u \in joined : thread'[u] = "ended"
        BY <1>0, <1>1 DEF Joining, TypeOK
    <2> QED BY <1>0, <2>1 DEF Joining, AllJoined
<1>9. Closing'
    BY <1>0 DEF Closing
<1> QED BY <1>2, <1>3, <1>4, <1>5, <1>6, <1>7, <1>8, <1>9 DEF IndInv

\* The handlers, the accept handler and the end of a thread keep the invariant.
LEMMA PoolStep ==
    ASSUME IndInv, NEW t \in PoolThreads,
           \/ BeginHandler(t) \/ EndHandler(t)
           \/ BeginAccept(t) \/ EndAccept(t) \/ EndThread(t)
    PROVE  IndInv'
<1> USE PoolFacts
<1>0. TypeOK /\ Accepting
    BY DEF IndInv
<1>1. CASE BeginHandler(t)
    <2>1. Accepting'
        BY <1>0, <1>1 DEF BeginHandler, Accepting, TypeOK
    <2> QED BY <1>0, <1>1, <2>1, HandlerStep DEF BeginHandler, TypeOK, ThreadStates
<1>2. CASE EndHandler(t)
    <2>1. Accepting'
        BY <1>0, <1>2 DEF EndHandler, Accepting, TypeOK
    <2>2. CASE thread' = [thread EXCEPT ![t] = "polling"]
        BY <1>0, <1>2, <2>1, <2>2, HandlerStep DEF EndHandler, TypeOK, ThreadStates
    <2>3. CASE thread' = [thread EXCEPT ![t] = "ended"]
        BY <1>0, <1>2, <2>1, <2>3, HandlerStep DEF EndHandler, TypeOK, ThreadStates
    <2> QED BY <1>2, <2>2, <2>3 DEF EndHandler
<1>3. CASE BeginAccept(t)
    <2>1. CASE running[t[1]]
        <3>0. /\ thread' = [thread EXCEPT ![t] = "accepting"]
              /\ accepting' = [accepting EXCEPT ![t[1]] = "taken"]
              /\ running' = running
            BY <1>3, <2>1 DEF BeginAccept
        <3>1. thread'[<<t[1], t[2]>>] = "accepting"
            BY <1>0, <3>0 DEF TypeOK
        <3>2. ASSUME NEW s \in Servers, s # t[1]
              PROVE  /\ accepting'[s] = accepting[s]
                     /\ \A i \in 1 .. ThreadCount : thread'[<<s, i>>] = thread[<<s, i>>]
            BY <1>0, <3>0, <3>2 DEF TypeOK
        <3>3. accepting'[t[1]] = "taken"
            BY <1>0, <3>0 DEF TypeOK
        <3>4. Accepting'
            BY <1>0, <3>0, <3>1, <3>2, <3>3 DEF Accepting
        <3> QED BY <1>0, <1>3, <2>1, <3>0, <3>4, HandlerStep DEF BeginAccept, TypeOK, ThreadStates
    <2>2. CASE ~running[t[1]]
        <3>2. /\ Alive /\ thread[t] = "polling" /\ thread' = thread
              /\ accepting' = [accepting EXCEPT ![t[1]] = "no"]
              /\ UNCHANGED <<process, loop, running, stopped, acceptorOpen, joined, main,
                             stop, stoppers, asked>>
            BY <1>3, <2>2 DEF BeginAccept
        <3>3. /\ thread' \in [PoolThreads -> ThreadStates]
              /\ \A u \in PoolThreads : thread'[u] = IF u = t THEN "polling" ELSE thread[u]
              /\ accepting' \in [Servers -> {"no", "armed", "taken"}]
              /\ \A s \in Servers :
                    accepting'[s] = IF s = t[1] THEN "no" ELSE accepting[s]
            BY <1>0, <3>2 DEF TypeOK, ThreadStates
        <3>4. Accepting'
            BY <1>0, <2>2, <3>2, <3>3 DEF Accepting
        <3> QED BY <3>4, <3>2, <3>3, HandlerStep
    <2> QED BY <2>1, <2>2
<1>4. CASE EndAccept(t)
    <2>1. /\ \A s \in Servers : s # t[1] =>
                /\ accepting'[s] = accepting[s]
                /\ \A i \in 1 .. ThreadCount : thread'[<<s, i>>] = thread[<<s, i>>]
          /\ accepting'[t[1]] = IF running[t[1]] THEN "armed" ELSE "no"
          /\ running' = running
        BY <1>0, <1>4 DEF EndAccept, Rearmed, TypeOK
    <2>2. Accepting'
        BY <1>0, <2>1 DEF Accepting
    <2> QED BY <1>0, <1>4, <2>2, HandlerStep DEF EndAccept, Rearmed, TypeOK, ThreadStates
<1>5. CASE EndThread(t)
    <2>1. Accepting'
        BY <1>0, <1>5 DEF EndThread, Accepting, TypeOK
    <2> QED BY <1>0, <1>5, <2>1, HandlerStep DEF EndThread, TypeOK, ThreadStates
<1> QED BY <1>1, <1>2, <1>3, <1>4, <1>5

\* A command "shutdown" begins a call of stop and has stopped nothing yet.
LEMMA ShutdownStep ==
    ASSUME IndInv, NEW t \in PoolThreads, Shutdown(t)
    PROVE  IndInv'
<1> USE PoolFacts
<1>0. /\ TypeOK /\ Alive /\ Alive' /\ Accepting
      /\ Callers /\ Spawning /\ Stopping /\ Looping /\ Joining /\ Closing
    BY DEF IndInv, Shutdown, Alive
<1>1. /\ \A u \in PoolThreads : thread'[u] = IF u = t THEN "shutdown" ELSE thread[u]
      /\ thread[t] = "polling" /\ t[1] = "cli"
    BY <1>0 DEF TypeOK, Shutdown
<1>2. /\ \A a \in Actors : a # t => stop'[a] = stop[a]
      /\ stop'[t].at = "test" /\ stop'[t].server = "client" /\ stop[t].at = "out"
      /\ stop'[Main] = stop[Main]
    BY <1>0, <1>1 DEF TypeOK, Shutdown
<1>3. UNCHANGED <<process, running, stopped, accepting, acceptorOpen, joined, main, stoppers>>
    BY DEF Shutdown
<1>4. TypeOK'
    <2>1. stop' \in [Actors -> Calls]
        BY <1>0 DEF TypeOK, Shutdown, Calls, Servers
    <2>2. loop' \in BOOLEAN /\ asked' \in BOOLEAN
        BY <1>0 DEF TypeOK, Shutdown
    <2> QED BY <1>0, <1>1, <1>2, <1>3, <2>1, <2>2 DEF TypeOK, ThreadStates, Shutdown
<1>5. CleanExit' /\ AbortOnlyBySelfStop'
    BY <1>0 DEF CleanExit, AbortOnlyBySelfStop, Alive
<1>6. Accepting'
    BY <1>0, <1>1, <1>3 DEF Accepting
<1>7. Callers'
    BY <1>0, <1>1, <1>2, <1>3 DEF Callers, AllJoined
<1>8. Spawning'
    <2>1. \A s \in Servers, i \in 1 .. ThreadCount :
            thread'[<<s, i>>] = "none" <=> thread[<<s, i>>] = "none"
        BY <1>1
    <2>2. \A i \in 1 .. ThreadCount : \A j \in 1 .. i - 1 : j \in 1 .. ThreadCount
        OBVIOUS
    <2>3. "client" \in Servers /\ "cli" \in Servers
        BY DEF Servers
    <2> QED BY <1>0, <1>3, <2>1, <2>2, <2>3 DEF Spawning
<1>9. Stopping'
    BY <1>0, <1>2, <1>3 DEF Stopping, Unstarted
<1>10. Looping'
    BY <1>0, <1>2, <1>3 DEF Looping, AllJoined, Target
<1>11. Joining'
    <2>1. \A u \in joined : thread'[u] = "ended"
        BY <1>0, <1>1 DEF Joining, TypeOK
    <2> QED BY <1>0, <1>2, <1>3, <2>1 DEF Joining, AllJoined
<1>12. Closing'
    BY <1>0, <1>2, <1>3 DEF Closing
<1> QED BY <1>0, <1>4, <1>5, <1>6, <1>7, <1>8, <1>9, <1>10, <1>11, <1>12 DEF IndInv

----------------------------------------------------------------------------
(* Main. *)

\* A server that is started was stopped by nobody.
LEMMA StartStep ==
    ASSUME IndInv, NEW s \in Servers, Start(s)
    PROVE  IndInv'
<1> USE PoolFacts
<1>0. /\ TypeOK /\ Alive /\ Alive' /\ Accepting
      /\ Callers /\ Spawning /\ Stopping /\ Looping /\ Joining /\ Closing
    BY DEF IndInv, Start, Alive
<1>1. /\ main = <<"start", s>> /\ main' = <<"spawn", s>>
      /\ s = "client" \/ s = "cli"
    BY DEF Start, Servers
<1>2. /\ \A r \in Servers : running'[r] = IF r = s THEN TRUE ELSE running[r]
      /\ \A r \in Servers : accepting'[r] = IF r = s THEN "armed" ELSE accepting[r]
    BY <1>0 DEF Start, TypeOK
<1>3. UNCHANGED <<process, loop, stopped, acceptorOpen, thread, joined, stop, stoppers, asked>>
    BY DEF Start
<1>4. TypeOK'
    <2>1. main' \in MainSteps
        BY <1>1 DEF MainSteps, Servers
    <2>2. running' \in [Servers -> BOOLEAN]
        BY <1>0 DEF Start, TypeOK
    <2> QED BY <1>0, <1>3, <2>1, <2>2 DEF Start, TypeOK
<1>5. CleanExit' /\ AbortOnlyBySelfStop'
    BY <1>0 DEF CleanExit, AbortOnlyBySelfStop, Alive
<1>6. Accepting'
    BY <1>0, <1>2, <1>3 DEF Accepting
<1>7. Callers'
    BY <1>0, <1>1, <1>3 DEF Callers, AllJoined
<1>8. Spawning'
    BY <1>0, <1>1, <1>3 DEF Spawning, Constructing
<1>9. Stopping'
    <2>1. Unstarted(s) /\ stoppers[s] = {} /\ ~Unstarted(s)'
        BY <1>0, <1>1 DEF Stopping, Unstarted
    <2>2. \A r \in Servers : r # s => (Unstarted(r)' <=> Unstarted(r))
        BY <1>1 DEF Unstarted, Servers
    <2>3. \A r \in Servers :
            /\ running'[r] <=> ~Unstarted(r)' /\ stoppers'[r] = {}
            /\ Unstarted(r)' => stoppers'[r] = {}
        BY <1>0, <1>2, <1>3, <2>1, <2>2 DEF Stopping
    <2> QED BY <1>0, <1>3, <2>3 DEF Stopping
<1>10. Looping' /\ Joining' /\ Closing'
    BY <1>0, <1>3 DEF Looping, Joining, Closing, AllJoined, Target
<1> QED BY <1>0, <1>4, <1>5, <1>6, <1>7, <1>8, <1>9, <1>10 DEF IndInv

\* A thread is started after those before it.
LEMMA SpawnStep ==
    ASSUME IndInv, NEW s \in Servers, Spawn(s)
    PROVE  IndInv'
<1> USE PoolFacts
<1>0. /\ TypeOK /\ Alive /\ Alive' /\ Accepting
      /\ Callers /\ Spawning /\ Stopping /\ Looping /\ Joining /\ Closing
    BY DEF IndInv, Spawn, Alive
<1>1. main = <<"spawn", s>> /\ (s = "client" \/ s = "cli")
    BY DEF Spawn, Servers
<1>2. PICK i \in 1 .. ThreadCount :
        /\ thread[<<s, i>>] = "none"
        /\ \A j \in 1 .. i - 1 : thread[<<s, j>>] # "none"
        /\ thread' = [thread EXCEPT ![<<s, i>>] = "polling"]
        /\ main' = CASE i < ThreadCount -> main
                     [] i = ThreadCount /\ s = "client" -> <<"start", "cli">>
                     [] OTHER -> <<"announce">>
    BY DEF Spawn
<1>3. \/ i < ThreadCount /\ main' = main
      \/ i = ThreadCount /\ s = "client" /\ main' = <<"start", "cli">>
      \/ i = ThreadCount /\ s = "cli" /\ main' = <<"announce">>
    BY <1>1, <1>2
<1>4. \A u \in PoolThreads : thread'[u] = IF u = <<s, i>> THEN "polling" ELSE thread[u]
    BY <1>0, <1>2 DEF TypeOK
<1>5. UNCHANGED <<process, loop, running, stopped, accepting, acceptorOpen, joined, stop,
                  stoppers, asked>>
    BY DEF Spawn
<1>6. TypeOK'
    <2>1. main' \in MainSteps
        BY <1>0, <1>3 DEF MainSteps, Servers, TypeOK
    <2>2. thread' \in [PoolThreads -> ThreadStates]
        BY <1>0, <1>2 DEF TypeOK, ThreadStates
    <2>3. \A t \in PoolThreads : (stop'[t].at # "out") <=> (thread'[t] = "shutdown")
        BY <1>0, <1>2, <1>4, <1>5 DEF TypeOK
    <2> QED BY <1>0, <1>5, <2>1, <2>2, <2>3 DEF TypeOK
<1>7. CleanExit' /\ AbortOnlyBySelfStop'
    BY <1>0 DEF CleanExit, AbortOnlyBySelfStop, Alive
<1>8. Accepting'
    BY <1>0, <1>2, <1>4, <1>5 DEF Accepting
<1>9. Callers'
    BY <1>0, <1>1, <1>3, <1>5 DEF Callers, AllJoined
<1>10. Spawning'
    <2>1. \A r \in Servers, j \in 1 .. ThreadCount :
            thread'[<<r, j>>] # "none" <=> thread[<<r, j>>] # "none" \/ (r = s /\ j = i)
        <3>1. TAKE r \in Servers, j \in 1 .. ThreadCount
        <3>2. <<r, j>> \in PoolThreads /\ (<<r, j>> = <<s, i>> <=> r = s /\ j = i)
            OBVIOUS
        <3> QED BY <1>4, <3>2
    <2>2. \A k \in 1 .. ThreadCount : \A j \in 1 .. k - 1 : j \in 1 .. ThreadCount
        OBVIOUS
    <2>3. \A r \in Servers : \A k \in 1 .. ThreadCount :
            thread'[<<r, k>>] # "none" => \A j \in 1 .. k - 1 : thread'[<<r, j>>] # "none"
        BY <1>0, <1>2, <2>1, <2>2 DEF Spawning
    <2>4. i = ThreadCount => \A j \in 1 .. ThreadCount : thread'[<<s, j>>] # "none"
        BY <1>2, <2>1
    <2> QED BY <1>0, <1>1, <1>3, <2>1, <2>3, <2>4 DEF Spawning, Constructing, Servers
<1>11. Stopping'
    BY <1>0, <1>1, <1>3, <1>5 DEF Stopping, Unstarted
<1>12. Looping' /\ Closing'
    BY <1>0, <1>5 DEF Looping, Closing, AllJoined, Target
<1>13. Joining'
    <2>1. \A u \in joined : thread'[u] = "ended"
        BY <1>0, <1>2, <1>4 DEF Joining, TypeOK
    <2> QED BY <1>0, <1>5, <2>1 DEF Joining, AllJoined
<1> QED BY <1>0, <1>6, <1>7, <1>8, <1>9, <1>10, <1>11, <1>12, <1>13 DEF IndInv

\* The end of the constructor.
LEMMA AnnounceStep ==
    ASSUME IndInv, Announce
    PROVE  IndInv'
<1> USE PoolFacts
<1>0. /\ TypeOK /\ Alive /\ Alive' /\ Accepting
      /\ Callers /\ Spawning /\ Stopping /\ Looping /\ Joining /\ Closing
    BY DEF IndInv, Announce, Alive
<1>1. /\ main = <<"announce">> /\ main' = <<"loop">>
      /\ UNCHANGED <<process, running, stopped, accepting, acceptorOpen, thread, joined,
                     stop, stoppers, asked>>
    BY DEF Announce
<1>2. TypeOK'
    <2>1. main' \in MainSteps
        BY <1>1 DEF MainSteps
    <2> QED BY <1>0, <1>1, <2>1 DEF Announce, TypeOK
<1>3. CleanExit' /\ AbortOnlyBySelfStop'
    BY <1>0 DEF CleanExit, AbortOnlyBySelfStop, Alive
<1>4. Accepting'
    BY <1>0, <1>1 DEF Accepting
<1>5. Callers'
    BY <1>0, <1>1 DEF Callers, AllJoined
<1>6. Spawning' /\ Stopping'
    BY <1>0, <1>1 DEF Spawning, Constructing, Stopping, Unstarted
<1>7. Looping' /\ Joining' /\ Closing'
    BY <1>0, <1>1 DEF Looping, Joining, Closing, AllJoined, Target
<1> QED BY <1>0, <1>2, <1>3, <1>4, <1>5, <1>6, <1>7 DEF IndInv

\* Main leaves its loop and begins its own call of stop.
LEMMA LeaveLoopStep ==
    ASSUME IndInv, LeaveLoop
    PROVE  IndInv'
<1> USE PoolFacts
<1>0. /\ TypeOK /\ Alive /\ Alive' /\ Accepting
      /\ Callers /\ Spawning /\ Stopping /\ Looping /\ Joining /\ Closing
    BY DEF IndInv, LeaveLoop, Alive
<1>1. /\ main = <<"loop">> /\ main' = <<"stop">>
      /\ UNCHANGED <<process, loop, running, stopped, accepting, acceptorOpen, thread,
                     joined, stoppers, asked>>
    BY DEF LeaveLoop
<1>2. /\ \A a \in Actors : a # Main => stop'[a] = stop[a]
      /\ stop'[Main].at = "test" /\ stop'[Main].server = "client" /\ stop[Main].at = "out"
    BY <1>0, <1>1 DEF TypeOK, Callers, LeaveLoop
<1>3. TypeOK'
    <2>1. main' \in MainSteps
        BY <1>1 DEF MainSteps
    <2>2. stop' \in [Actors -> Calls]
        BY <1>0 DEF TypeOK, LeaveLoop, Calls, Servers
    <2> QED BY <1>0, <1>1, <1>2, <2>1, <2>2 DEF TypeOK
<1>4. CleanExit' /\ AbortOnlyBySelfStop'
    BY <1>0 DEF CleanExit, AbortOnlyBySelfStop, Alive
<1>5. Accepting'
    BY <1>0, <1>1 DEF Accepting
<1>6. Callers'
    BY <1>0, <1>1, <1>2 DEF Callers, AllJoined
<1>7. Spawning' /\ Closing'
    BY <1>0, <1>1, <1>2 DEF Spawning, Constructing, Closing
<1>8. Stopping'
    BY <1>0, <1>1, <1>2 DEF Stopping, Unstarted
<1>9. Looping'
    <2>1. ASSUME NEW a \in Actors
          PROVE  /\ stop'[a].at \in {"joinable", "join", "wait"} =>
                    /\ stop'[a].i \in 1 .. ThreadCount + 1
                    /\ \A j \in 1 .. stop'[a].i - 1 : <<stop'[a].server, j>> \in joined'
                    /\ a # Main /\ stop'[a].server = "cli" => stop'[a].i <= a[2]
                 /\ stop'[a].at \in {"join", "wait"} => stop'[a].i <= ThreadCount
                 /\ stop'[a].at = "wait" => a # Target(a)'
                 /\ stop'[a].at = "halt" => stop'[a].i = 0
                 /\ stop'[a].at = "close" =>
                    /\ \A k \in 1 .. ThreadCount : <<stop'[a].server, k>> \in joined'
                    /\ a # Main => stop'[a].server = "client"
        <3>1. CASE a = Main
            BY <1>2, <3>1
        <3>2. CASE a # Main
            <4>1. stop'[a] = stop[a]
                BY <1>2, <3>2
            <4> QED BY <1>0, <1>1, <4>1 DEF Looping, Target, AllJoined
        <3> QED BY <3>1, <3>2
    <2> HIDE PoolFacts
    <2> QED BY <2>1 DEF Looping, AllJoined
<1>10. Joining'
    <2>1. \A s \in Servers : AllJoined(s)' <=> AllJoined(s)
        BY <1>1 DEF AllJoined
    <2>2. \A s \in Servers : stoppers[s] = {Main} => AllJoined(s)
        BY <1>0, <1>2, <2>1 DEF Joining
    <2>3. ASSUME NEW a \in Actors, a # Main
          PROVE  /\ stop'[a] = stop[a]
                 /\ \A s \in Servers : stoppers'[s] = stoppers[s]
        BY <1>1, <1>2, <2>3
    <2> QED BY <1>0, <1>1, <1>2, <2>1, <2>2, <2>3 DEF Joining
<1> QED BY <1>0, <1>3, <1>4, <1>5, <1>6, <1>7, <1>8, <1>9, <1>10 DEF IndInv

\* Once every thread of both pools was joined, nobody is in a call of stop, and
\* both acceptors were closed.
LEMMA AllOver ==
    ASSUME TypeOK, Callers, Joining, Closing, AllJoined("client"), AllJoined("cli"),
           main # <<"stop">>
    PROVE  \A t \in PoolThreads : thread[t] = "ended" /\ ~acceptorOpen[t[1]]
<1> USE PoolFacts
<1>1. \A t \in PoolThreads : t \in joined /\ thread[t] = "ended"
    BY DEF AllJoined, Servers, Joining
<1>2. \A a \in Actors : stop[a].at = "out"
    BY <1>1 DEF TypeOK, Callers
<1>3. \A s \in Servers : <<s, ThreadCount>> \in joined
    BY <1>1
<1>4. \A s \in Servers : ~acceptorOpen[s]
    BY <1>2, <1>3 DEF Closing
<1> QED BY <1>1, <1>4

\* Main destroys a server: a thread that nobody joined is one of a pool that one
\* of its own threads stopped, or that two callers stopped.
LEMMA DestroyStep ==
    ASSUME IndInv, NEW s \in Servers, Destroy(s)
    PROVE  IndInv'
<1> USE PoolFacts
<1>0. /\ TypeOK /\ Alive /\ Accepting
      /\ Callers /\ Spawning /\ Stopping /\ Looping /\ Joining /\ Closing
    BY DEF IndInv, Destroy, Alive
<1>1. /\ main = <<"destroy", s>> /\ (s = "client" \/ s = "cli")
      /\ UNCHANGED <<loop, running, stopped, accepting, acceptorOpen, thread, joined, stop,
                     stoppers, asked>>
    BY DEF Destroy, Servers
<1>2. Accepting'
    BY <1>0, <1>1 DEF Accepting
<1>3. \A r \in Servers : stoppers[r] # {}
    BY <1>0, <1>1 DEF Callers
<1>4. stop[Main].at = "out"
    BY <1>0, <1>1 DEF Callers
<1>5. CASE AllJoined(s) /\ s = "cli"
    <2>1. main' = <<"destroy", "client">> /\ UNCHANGED process /\ Alive'
        BY <1>0, <1>5 DEF Destroy, AllJoined, Alive
    <2>2. main' \in MainSteps
        BY <2>1 DEF MainSteps, Servers
    <2>3. TypeOK'
        BY <1>0, <1>1, <2>1, <2>2 DEF TypeOK
    <2>4. CleanExit' /\ AbortOnlyBySelfStop'
        BY <2>1 DEF CleanExit, AbortOnlyBySelfStop, Alive
    <2>5. Callers'
        BY <1>0, <1>1, <1>3, <1>4, <1>5, <2>1 DEF Callers, AllJoined
    <2>6. Spawning' /\ Stopping'
        BY <1>0, <1>1, <2>1 DEF Spawning, Constructing, Stopping, Unstarted
    <2>7. Looping' /\ Joining' /\ Closing'
        BY <1>0, <1>1 DEF Looping, Joining, Closing, AllJoined, Target
    <2> QED BY <1>2, <2>3, <2>4, <2>5, <2>6, <2>7 DEF IndInv
<1>6. CASE AllJoined(s) /\ s = "client"
    <2>1. main' = <<"done">> /\ process' = "exited"
        BY <1>6 DEF Destroy, AllJoined
    <2>2. main' \in MainSteps
        BY <2>1 DEF MainSteps
    <2>3. TypeOK'
        BY <1>0, <1>1, <2>1, <2>2 DEF TypeOK
    <2>4. AllJoined("cli")
        BY <1>0, <1>1, <1>6 DEF Callers
    <2>5. \A t \in PoolThreads : thread[t] = "ended" /\ ~acceptorOpen[t[1]]
        BY <1>0, <1>1, <1>6, <2>4, AllOver
    <2>6. CleanExit' /\ AbortOnlyBySelfStop'
        BY <1>1, <2>1, <2>5 DEF CleanExit, AbortOnlyBySelfStop
    <2> QED BY <1>2, <2>1, <2>3, <2>6 DEF IndInv, Alive
<1>7. CASE ~AllJoined(s)
    <2>1. process' = "aborted" /\ UNCHANGED main
        BY <1>7 DEF Destroy, AllJoined
    <2>2. TypeOK' /\ CleanExit' /\ ~Alive'
        BY <1>0, <1>1, <2>1 DEF TypeOK, CleanExit, Alive
    <2>3. stoppers \in [Servers -> SUBSET Actors]
        BY <1>0 DEF TypeOK
    <2>4. stoppers["cli"] \ {Main} # {} \/ Cardinality(stoppers["client"]) > 1
        <3>1. CASE s = "cli"
            <4>1. stoppers[s] # {Main}
                BY <1>0, <1>4, <1>7 DEF Joining
            <4> QED BY <1>3, <3>1, <4>1
        <3>2. CASE s = "client"
            <4>1. AllJoined("cli")
                BY <1>0, <1>1, <3>2 DEF Callers
            <4>2. ASSUME NEW a \in Actors PROVE stop[a].at = "out"
                <5>1. CASE a = Main
                    BY <1>4, <5>1
                <5>2. CASE a \in PoolThreads /\ a[1] = "cli"
                    <6>1. a \in joined
                        BY <4>1, <5>2 DEF AllJoined
                    <6> QED BY <1>0, <5>2, <6>1 DEF Joining, TypeOK
                <5>3. CASE a \in PoolThreads /\ a[1] # "cli"
                    BY <1>0, <5>3 DEF Callers
                <5> QED BY <5>1, <5>2, <5>3
            <4>3. ASSUME NEW a \in Actors PROVE stoppers[s] # {a}
                BY <1>0, <1>7, <3>2, <4>2 DEF Joining
            <4> QED BY <1>3, <2>3, <3>2, <4>3, OneStopper
        <3> QED BY <1>1, <3>1, <3>2
    <2>5. AbortOnlyBySelfStop'
        BY <1>1, <2>4 DEF AbortOnlyBySelfStop
    <2> QED BY <1>2, <2>2, <2>5 DEF IndInv
<1> QED BY <1>1, <1>5, <1>6, <1>7

----------------------------------------------------------------------------
(* TcpServer::stop. *)

\* A step within a call of stop: what other actors and main's own progress
\* depend on only grows.
LEMMA CallStep ==
    ASSUME IndInv, Alive, NEW a \in Actors, stop[a].at # "out",
           NEW x \in {"set", "halt", "joinable", "join", "wait", "close"},
           NEW k \in 0 .. ThreadCount + 1, Goto(a, x, k),
           UNCHANGED <<process, loop, accepting, acceptorOpen, thread, main, asked>>,
           running' \in [Servers -> BOOLEAN], stopped' \in [Servers -> BOOLEAN],
           \A s \in Servers : running'[s] => running[s],
           joined \subseteq joined', joined' \subseteq PoolThreads,
           stoppers' \in [Servers -> SUBSET Actors],
           \A s \in Servers : stoppers[s] \subseteq stoppers'[s],
           Stopping', Looping', Joining', Closing'
    PROVE  IndInv'
<1> USE PoolFacts
<1>0. TypeOK /\ Alive /\ Alive' /\ Accepting /\ Callers /\ Spawning
    BY DEF IndInv, Alive
<1>1. /\ \A b \in Actors : b # a => stop'[b] = stop[b]
      /\ stop'[a].at = x /\ stop'[a].server = stop[a].server
    BY <1>0 DEF TypeOK, Goto, Calls
<1>2. stop' \in [Actors -> Calls]
    <2>1. stop[a] \in Calls /\ stop \in [Actors -> Calls]
        BY <1>0 DEF TypeOK
    <2>2. [stop[a] EXCEPT !.at = x, !.i = k] \in Calls
        BY <2>1 DEF Calls
    <2>3. stop' = [stop EXCEPT ![a] = [stop[a] EXCEPT !.at = x, !.i = k]]
        BY <2>1 DEF Goto
    <2> QED BY <2>1, <2>2, <2>3
<1>3. TypeOK'
    BY <1>0, <1>1, <1>2 DEF TypeOK
<1>4. CleanExit' /\ AbortOnlyBySelfStop'
    BY <1>0 DEF CleanExit, AbortOnlyBySelfStop, Alive
<1>5. Accepting'
    BY <1>0 DEF Accepting
<1>6. Callers'
    <2>1. \A b \in Actors : stop'[b].at # "out" <=> stop[b].at # "out"
        BY <1>1
    <2>2. stop'[Main].server = stop[Main].server
        BY <1>1
    <2>3. \A s \in Servers : stoppers[s] # {} => stoppers'[s] # {}
        OBVIOUS
    <2>4. AllJoined("cli") => AllJoined("cli")'
        BY DEF AllJoined
    <2>5. "client" \in Servers
        BY DEF Servers
    <2> QED BY <1>0, <2>1, <2>2, <2>3, <2>4, <2>5 DEF Callers
<1>7. Spawning'
    BY <1>0 DEF Spawning
<1> QED BY <1>0, <1>3, <1>4, <1>5, <1>6, <1>7 DEF IndInv

\* Nobody is in a call of stop before the threads of both pools are there.
LEMMA CallerFacts ==
    ASSUME IndInv, Alive, NEW a \in Actors, stop[a].at # "out"
    PROVE  /\ \A i \in 1 .. ThreadCount : thread[<<"client", i>>] # "none"
           /\ \A s \in Servers : ~Unstarted(s)
           /\ a = Main => \A i \in 1 .. ThreadCount : thread[<<"cli", i>>] # "none"
           /\ a # Main => a[1] = "cli" /\ thread[a] = "shutdown"
                          /\ \A j \in 1 .. a[2] : thread[<<"cli", j>>] # "none"
<1> USE PoolFacts
<1>0. TypeOK /\ Callers /\ Spawning
    BY DEF IndInv
<1>1. CASE a = Main
    <2>1. main = <<"stop">>
        BY <1>0, <1>1 DEF Callers
    <2>2. \A s \in Servers, i \in 1 .. ThreadCount : thread[<<s, i>>] # "none"
        BY <1>0, <2>1 DEF Spawning, Constructing, Servers
    <2>3. \A s \in Servers : ~Unstarted(s)
        BY <2>1 DEF Unstarted
    <2> QED BY <1>1, <2>2, <2>3 DEF Servers
<1>2. CASE a # Main
    <2>1. a \in PoolThreads /\ a[1] = "cli" /\ thread[a] = "shutdown"
        BY <1>0, <1>2 DEF Callers, TypeOK
    <2>2. thread[<<"cli", a[2]>>] # "none"
        BY <2>1
    <2>3. main \notin Constructing("client") \cup {<<"start", "cli">>}
        BY <1>0, <2>1, <2>2 DEF Spawning
    <2>4. \A i \in 1 .. ThreadCount : thread[<<"client", i>>] # "none"
        BY <1>0, <2>3 DEF Spawning
    <2>5. \A j \in 1 .. a[2] - 1 : thread[<<"cli", j>>] # "none"
        BY <1>0, <2>1, <2>2 DEF Spawning, Servers
    <2>6. \A j \in 1 .. a[2] : thread[<<"cli", j>>] # "none"
        <3>1. TAKE j \in 1 .. a[2]
        <3>2. j = a[2] \/ j \in 1 .. a[2] - 1
            BY <2>1
        <3> QED BY <2>2, <2>5, <3>2
    <2>7. \A s \in Servers : ~Unstarted(s)
        BY <2>3 DEF Unstarted, Constructing, Servers
    <2> QED BY <1>2, <2>1, <2>4, <2>6, <2>7 DEF Servers
<1> QED BY <1>1, <1>2

\* A call that found the server running says that it is not.
LEMMA SetRunningStep ==
    ASSUME IndInv, NEW a \in Actors, SetRunning(a)
    PROVE  IndInv'
<1> USE PoolFacts
<1>0. /\ TypeOK /\ Alive /\ Alive'
      /\ Stopping /\ Looping /\ Joining /\ Closing
    BY DEF IndInv, SetRunning, At, Alive
<1> DEFINE s == stop[a].server
<1>1. stop[a].at = "set" /\ Goto(a, "halt", 0) /\ s \in Servers
    BY <1>0 DEF SetRunning, At, TypeOK, Calls
<1>2. /\ \A b \in Actors : b # a => stop'[b] = stop[b]
      /\ stop'[a].at = "halt" /\ stop'[a].server = s /\ stop'[a].i = 0
    BY <1>0, <1>1 DEF TypeOK, Goto, Calls
<1>3. UNCHANGED <<process, loop, stopped, accepting, acceptorOpen, thread, joined, main, asked>>
    BY DEF SetRunning
<1>4. /\ \A r \in Servers : running'[r] = IF r = s THEN FALSE ELSE running[r]
      /\ \A r \in Servers : stoppers'[r] = IF r = s THEN stoppers[s] \cup {a} ELSE stoppers[r]
      /\ running' \in [Servers -> BOOLEAN] /\ stoppers' \in [Servers -> SUBSET Actors]
    BY <1>0, <1>1 DEF SetRunning, TypeOK
<1>5. \A r \in Servers : ~Unstarted(r)
    BY <1>0, <1>1, CallerFacts
<1>6. Stopping'
    <2>1. \A r \in Servers : (running'[r] <=> stoppers'[r] = {}) /\ ~Unstarted(r)'
        <3>1. TAKE r \in Servers
        <3>2. ~Unstarted(r)'
            BY <1>3, <1>5 DEF Unstarted
        <3>3. running[r] <=> stoppers[r] = {}
            BY <1>0, <1>5 DEF Stopping
        <3>4. CASE r = s
            BY <1>4, <3>2, <3>4
        <3>5. CASE r # s
            BY <1>4, <3>2, <3>3, <3>5
        <3> QED BY <3>4, <3>5
    <2>2. \A b \in Actors : stop[b].server \in Servers
        BY <1>0 DEF TypeOK, Calls
    <2>3. \A b \in Actors :
            /\ stop'[b].at \in {"halt", "joinable", "join", "wait", "close"} =>
                b \in stoppers'[stop'[b].server]
            /\ stop'[b].at = "set" => b \notin stoppers'[stop'[b].server]
        BY <1>0, <1>1, <1>2, <1>4, <2>2 DEF Stopping
    <2> QED BY <2>1, <2>3 DEF Stopping
<1>7. Looping'
    BY <1>0, <1>2, <1>3 DEF Looping, AllJoined, Target
<1>8. Joining'
    <2>1. \A t \in joined' : thread'[t] = "ended" /\ stoppers'[t[1]] # {}
        BY <1>0, <1>3, <1>4 DEF Joining, TypeOK
    <2>2. a \notin stoppers[s]
        BY <1>0, <1>1 DEF Stopping
    <2>3. \A b \in Actors : stop[b].server \in Servers
        BY <1>0 DEF TypeOK, Calls
    <2>4. ASSUME stoppers'[s] = {a}, NEW j \in 1 .. ThreadCount, <<s, j>> \in joined PROVE FALSE
        <3>1. stoppers[s] = {}
            BY <1>1, <1>4, <2>2, <2>4
        <3> QED BY <1>0, <1>1, <2>4, <3>1 DEF Joining
    <2>5. ASSUME NEW b \in Actors,
                 stop'[b].at \in {"halt", "joinable", "join", "wait"},
                 stoppers'[stop'[b].server] = {b},
                 NEW j \in 1 .. ThreadCount, <<stop'[b].server, j>> \in joined'
          PROVE  j < stop'[b].i
        <3>1. CASE b = a
            BY <1>2, <1>3, <2>4, <2>5, <3>1
        <3>2. CASE b # a
            <4>1. stop'[b] = stop[b] /\ stop[b].server # s
                BY <1>1, <1>2, <1>4, <2>5, <3>2
            <4>2. stoppers[stop[b].server] = {b}
                BY <1>4, <2>3, <2>5, <4>1
            <4> QED BY <1>0, <1>3, <2>5, <4>1, <4>2 DEF Joining
        <3> QED BY <3>1, <3>2
    <2>6. ASSUME NEW b \in Actors, NEW r \in Servers, stoppers'[r] = {b}
          PROVE  \/ /\ stop'[b].server = r
                    /\ stop'[b].at \in {"halt", "joinable", "join", "wait", "close"}
                 \/ AllJoined(r)'
                 \/ r = "cli" /\ b # Main
        <3>1. CASE r = s
            BY <1>1, <1>2, <1>4, <2>6, <3>1
        <3>2. CASE r # s
            <4>1. stoppers[r] = {b}
                BY <1>4, <2>6, <3>2
            <4> QED BY <1>0, <1>1, <1>2, <1>3, <3>2, <4>1 DEF Joining, AllJoined
        <3> QED BY <3>1, <3>2
    <2> QED BY <2>1, <2>5, <2>6 DEF Joining
<1>9. Closing'
    BY <1>0, <1>1, <1>2, <1>3 DEF Closing
<1>10. \A r \in Servers : (running'[r] => running[r]) /\ stoppers[r] \subseteq stoppers'[r]
    <2>1. TAKE r \in Servers
    <2>2. CASE r = s
        BY <1>4, <2>2
    <2>3. CASE r # s
        BY <1>4, <2>3
    <2> QED BY <2>2, <2>3
<1>12. /\ stopped' \in [Servers -> BOOLEAN] /\ joined' = joined /\ joined \subseteq PoolThreads
       /\ 0 \in 0 .. ThreadCount + 1
    BY <1>0, <1>3, <1>4 DEF TypeOK
<1>11. stop[a].at # "out"
    BY <1>1
<1> QED BY <1>0, <1>1, <1>3, <1>4, <1>6, <1>7, <1>8, <1>9, <1>10, <1>11, <1>12, CallStep

\* A call goes one step further, and only looks or tells the io_context to stop.
LEMMA LookStep ==
    ASSUME IndInv, Alive, NEW a \in Actors,
           NEW x \in {"set", "joinable", "join", "wait", "close"},
           NEW k \in 0 .. ThreadCount + 1, Goto(a, x, k), stop[a].at # "out",
           stopped' \in [Servers -> BOOLEAN],
           UNCHANGED <<process, loop, running, accepting, acceptorOpen, thread, joined, main,
                       stoppers, asked>>,
           x = "set" => stop[a].at = "test" /\ running[stop[a].server],
           x # "set" => stop[a].at \in {"halt", "joinable", "join"},
           x \in {"joinable", "join", "wait"} =>
                /\ k \in stop[a].i .. ThreadCount + 1 /\ k > 0
                /\ \A j \in 1 .. k - 1 : <<stop[a].server, j>> \in joined
                /\ a # Main /\ stop[a].server = "cli" => k <= a[2],
           x \in {"join", "wait"} => k <= ThreadCount,
           x = "wait" => a # <<stop[a].server, k>>,
           x = "close" => AllJoined(stop[a].server) /\ (a # Main => stop[a].server = "client"),
           stop[a].at = "joinable" /\ stop[a].i = ThreadCount + 1 => x = "close"
    PROVE  IndInv'
<1> USE PoolFacts
<1>0. /\ TypeOK /\ Stopping /\ Looping /\ Joining /\ Closing
      /\ joined \subseteq PoolThreads
      /\ running \in [Servers -> BOOLEAN]
      /\ stoppers \in [Servers -> SUBSET Actors]
    BY DEF IndInv, TypeOK
<1>1. /\ \A b \in Actors : b # a => stop'[b] = stop[b]
      /\ stop'[a].at = x /\ stop'[a].server = stop[a].server /\ stop'[a].i = k
      /\ \A b \in Actors : stop[b].server \in Servers /\ stop[b].i \in Nat
    BY <1>0 DEF TypeOK, Goto, Calls
<1>2. \A s \in Servers : ~Unstarted(s)
    BY CallerFacts
<1>3. Stopping'
    <2>1. \A s \in Servers : (running[s] <=> stoppers[s] = {}) /\ ~Unstarted(s)'
        BY <1>0, <1>2 DEF Stopping, Unstarted
    <2>2. x = "set" => a \notin stoppers[stop[a].server]
        BY <1>1, <2>1
    <2>3. x # "set" => a \in stoppers[stop[a].server]
        BY <1>0 DEF Stopping
    <2>4. \A b \in Actors :
            /\ stop'[b].at \in {"halt", "joinable", "join", "wait", "close"} =>
                b \in stoppers[stop'[b].server]
            /\ stop'[b].at = "set" => b \notin stoppers[stop'[b].server]
        BY <1>0, <1>1, <2>2, <2>3 DEF Stopping
    <2> QED BY <2>1, <2>4 DEF Stopping
<1>4. Looping'
    <2>1. ASSUME NEW b \in Actors, b # a
          PROVE  stop'[b] = stop[b] /\ Target(b)' = Target(b)
        BY <1>1, <2>1 DEF Target
    <2>2. Target(a)' = <<stop[a].server, k>>
        BY <1>1 DEF Target
    <2> QED BY <1>0, <1>1, <2>1, <2>2 DEF Looping, AllJoined
<1>5. Joining'
    <2>1. \A t \in joined' : thread'[t] = "ended" /\ stoppers'[t[1]] # {}
        BY <1>0 DEF Joining
    <2>2. ASSUME NEW b \in Actors, stop'[b].at \in {"halt", "joinable", "join", "wait"},
                 stoppers'[stop'[b].server] = {b},
                 NEW j \in 1 .. ThreadCount, <<stop'[b].server, j>> \in joined'
          PROVE  j < stop'[b].i
        <3>1. CASE b # a
            BY <1>0, <1>1, <2>2, <3>1 DEF Joining
        <3>2. CASE b = a /\ x \in {"joinable", "join", "wait"}
            <4>1. j < stop[a].i
                BY <1>0, <1>1, <2>2, <3>2 DEF Joining
            <4>2. stop[a].i <= k /\ stop[a].i \in Nat
                BY <1>1, <3>2
            <4> QED BY <1>1, <3>2, <4>1, <4>2
        <3> QED BY <1>1, <2>2, <3>1, <3>2
    <2>3. ASSUME NEW b \in Actors, NEW r \in Servers, stoppers'[r] = {b}
          PROVE  \/ /\ stop'[b].server = r
                    /\ stop'[b].at \in {"halt", "joinable", "join", "wait", "close"}
                 \/ AllJoined(r)'
                 \/ r = "cli" /\ b # Main
        BY <1>0, <1>1, <2>3 DEF Joining, AllJoined
    <2> QED BY <2>1, <2>2, <2>3 DEF Joining
<1>6. Closing'
    BY <1>0, <1>1 DEF Closing
<1>7. \A s \in Servers : (running'[s] => running[s]) /\ stoppers[s] \subseteq stoppers'[s]
    OBVIOUS
<1> QED BY <1>0, <1>3, <1>4, <1>5, <1>6, <1>7, CallStep

\* TcpServer::stop tests the flag of a server that runs, tells the io_context to
\* stop, or looks at a thread of the pool.
LEMMA LookSteps ==
    ASSUME IndInv, NEW a \in Actors,
           \/ TestRunning(a) /\ running[stop[a].server]
           \/ Halt(a) \/ Joinable(a)
           \/ Join(a) /\ ~Refused(a)
    PROVE  IndInv'
<1> USE PoolFacts
<1>0. /\ TypeOK /\ Alive /\ Looping /\ Joining
      /\ stopped \in [Servers -> BOOLEAN]
      /\ stop[a].server \in Servers /\ stop[a].i \in 0 .. ThreadCount + 1
    BY DEF IndInv, TestRunning, Halt, Joinable, Join, At, TypeOK, Calls
<1>1. CASE TestRunning(a) /\ running[stop[a].server]
    <2>1. /\ stop[a].at = "test" /\ Goto(a, "set", 0) /\ 0 \in 0 .. ThreadCount + 1
          /\ UNCHANGED <<process, loop, running, stopped, accepting, acceptorOpen, thread,
                         joined, main, stoppers, asked>>
        BY <1>1 DEF TestRunning, At
    <2> QED BY <1>0, <1>1, <2>1, LookStep
<1>2. CASE Halt(a)
    <2>1. /\ stop[a].at = "halt" /\ Goto(a, "joinable", 1) /\ 1 \in 0 .. ThreadCount + 1
          /\ UNCHANGED <<process, loop, running, accepting, acceptorOpen, thread, joined,
                         main, stoppers, asked>>
        BY <1>2 DEF Halt, At
    <2>2. stopped' \in [Servers -> BOOLEAN]
        BY <1>0, <1>2 DEF Halt
    <2>3. stop[a].i = 0 /\ 1 \in stop[a].i .. ThreadCount + 1
        BY <1>0, <2>1 DEF Looping
    <2>4. a # Main => 1 <= a[2]
        OBVIOUS
    <2> QED BY <1>0, <2>1, <2>2, <2>3, <2>4, LookStep
<1>3. CASE Joinable(a)
    <2>1. /\ stop[a].at = "joinable"
          /\ UNCHANGED <<process, loop, running, stopped, accepting, acceptorOpen, thread,
                         joined, main, stoppers, asked>>
        BY <1>3 DEF Joinable, At
    <2>2. /\ stop[a].i \in 1 .. ThreadCount + 1
          /\ \A j \in 1 .. stop[a].i - 1 : <<stop[a].server, j>> \in joined
          /\ a # Main /\ stop[a].server = "cli" => stop[a].i <= a[2]
        BY <1>0, <2>1 DEF Looping
    <2>3. CASE stop[a].i = ThreadCount + 1
        <3>1. Target(a) \notin PoolThreads
            BY <2>3 DEF Target, PoolThreads
        <3>2. Goto(a, "close", 0) /\ 0 \in 0 .. ThreadCount + 1
            BY <1>3, <3>1 DEF Joinable
        <3>3. AllJoined(stop[a].server)
            BY <2>2, <2>3 DEF AllJoined
        <3>4. a # Main => stop[a].server = "client"
            <4>1. SUFFICES ASSUME a # Main, stop[a].server = "cli" PROVE FALSE
                BY <1>0 DEF Servers
            <4>2. stop[a].i <= a[2] /\ a[2] \in 1 .. ThreadCount
                BY <2>2, <4>1
            <4> QED BY <2>3, <4>2
        <3> QED BY <1>0, <2>1, <3>2, <3>3, <3>4, LookStep
    <2>4. CASE stop[a].i \in 1 .. ThreadCount
        <3>1. Target(a) = <<stop[a].server, stop[a].i>> /\ Target(a) \in PoolThreads
            BY <1>0, <2>4 DEF Target
        <3>2. thread[Target(a)] # "none"
            <4>1. stop[a].at # "out"
                BY <2>1
            <4>2. CASE stop[a].server = "client"
                BY <1>0, <2>4, <3>1, <4>1, <4>2, CallerFacts
            <4>3. CASE stop[a].server = "cli" /\ a = Main
                BY <1>0, <2>4, <3>1, <4>1, <4>3, CallerFacts
            <4>4. CASE stop[a].server = "cli" /\ a # Main
                <5>1. stop[a].i \in 1 .. a[2]
                    BY <2>2, <2>4, <4>4
                <5> QED BY <1>0, <3>1, <4>1, <4>4, <5>1, CallerFacts
            <4> QED BY <1>0, <4>2, <4>3, <4>4 DEF Servers
        <3>3. CASE Target(a) \in joined
            <4>1. Goto(a, "joinable", stop[a].i + 1)
                BY <1>3, <3>1, <3>2, <3>3 DEF Joinable
            <4>2. stop[a].i + 1 \in 0 .. ThreadCount + 1
                  /\ stop[a].i + 1 \in stop[a].i .. ThreadCount + 1 /\ stop[a].i + 1 > 0
                BY <2>4
            <4>3. \A j \in 1 .. (stop[a].i + 1) - 1 : <<stop[a].server, j>> \in joined
                BY <2>2, <2>4, <3>1, <3>3
            <4>4. ASSUME a # Main, stop[a].server = "cli" PROVE stop[a].i + 1 <= a[2]
                <5>1. thread[a] = "shutdown" /\ a[1] = "cli"
                    BY <1>0, <2>1, <4>4, CallerFacts
                <5>2. thread[Target(a)] = "ended"
                    BY <1>0, <3>3 DEF Joining
                <5>3. stop[a].i # a[2]
                    BY <3>1, <4>4, <5>1, <5>2
                <5> QED BY <2>2, <2>4, <4>4, <5>3
            <4>5. ~(stop[a].i = ThreadCount + 1) /\ stop[a].at # "out"
                BY <2>1, <2>4
            <4> QED BY <1>0, <2>1, <4>1, <4>2, <4>3, <4>4, <4>5, LookStep
        <3>4. CASE Target(a) \notin joined
            <4>1. Goto(a, "join", stop[a].i)
                BY <1>3, <3>1, <3>2, <3>4 DEF Joinable
            <4>2. stop[a].i \in stop[a].i .. ThreadCount + 1 /\ stop[a].i > 0
                  /\ stop[a].i <= ThreadCount /\ ~(stop[a].i = ThreadCount + 1)
                BY <2>4
            <4> QED BY <1>0, <2>1, <2>2, <4>1, <4>2, LookStep
        <3> QED BY <3>3, <3>4
    <2> QED BY <2>2, <2>3, <2>4
<1>4. CASE Join(a) /\ ~Refused(a)
    <2>1. /\ stop[a].at = "join" /\ Goto(a, "wait", stop[a].i) /\ a # Target(a)
          /\ UNCHANGED <<process, loop, running, stopped, accepting, acceptorOpen, thread,
                         joined, main, stoppers, asked>>
        BY <1>4 DEF Join, At, Refused
    <2>2. /\ stop[a].i \in 1 .. ThreadCount + 1 /\ stop[a].i <= ThreadCount
          /\ \A j \in 1 .. stop[a].i - 1 : <<stop[a].server, j>> \in joined
          /\ a # Main /\ stop[a].server = "cli" => stop[a].i <= a[2]
        BY <1>0, <2>1 DEF Looping
    <2>3. stop[a].i \in stop[a].i .. ThreadCount + 1 /\ stop[a].i > 0
        BY <2>2
    <2>4. a # <<stop[a].server, stop[a].i>>
        BY <2>1 DEF Target
    <2> QED BY <1>0, <2>1, <2>2, <2>3, <2>4, LookStep
<1> QED BY <1>1, <1>2, <1>3, <1>4

\* A thread that was waited for has ended, and the call goes on behind it.
LEMMA JoinedStep ==
    ASSUME IndInv, NEW a \in Actors, Joined(a)
    PROVE  IndInv'
<1> USE PoolFacts
<1>0. /\ TypeOK /\ Alive /\ Stopping /\ Looping /\ Joining /\ Closing
      /\ running \in [Servers -> BOOLEAN] /\ stopped \in [Servers -> BOOLEAN]
      /\ stoppers \in [Servers -> SUBSET Actors] /\ joined \subseteq PoolThreads
      /\ \A b \in Actors : stop[b].server \in Servers /\ stop[b].i \in 0 .. ThreadCount + 1
    BY DEF IndInv, Joined, At, TypeOK, Calls
<1> DEFINE s == stop[a].server
           i == stop[a].i
<1>1. /\ stop[a].at = "wait" /\ thread[<<s, i>>] = "ended"
      /\ joined' = joined \cup {<<s, i>>} /\ Goto(a, "joinable", i + 1)
      /\ UNCHANGED <<process, loop, running, stopped, accepting, acceptorOpen, thread, main,
                     stoppers, asked>>
    BY DEF Joined, At, Target
<1>2. /\ i \in 1 .. ThreadCount /\ \A j \in 1 .. i - 1 : <<s, j>> \in joined
      /\ a # Main /\ s = "cli" => i <= a[2]
      /\ a # <<s, i>> /\ a \in stoppers[s]
    BY <1>0, <1>1 DEF Looping, Stopping, Target
<1>3. /\ \A b \in Actors : b # a => stop'[b] = stop[b]
      /\ stop'[a].at = "joinable" /\ stop'[a].server = s /\ stop'[a].i = i + 1
    BY <1>0, <1>1 DEF TypeOK, Goto, Calls
<1>4. \A r \in Servers, j \in 1 .. ThreadCount :
        <<r, j>> \in joined' <=> <<r, j>> \in joined \/ (r = s /\ j = i)
    BY <1>0, <1>1, <1>2
<1>5. Stopping'
    BY <1>0, <1>1, <1>2, <1>3 DEF Stopping, Unstarted
<1>6. Looping'
    <2>1. ASSUME NEW b \in Actors, b # a
          PROVE  stop'[b] = stop[b] /\ Target(b)' = Target(b)
        BY <1>3, <2>1 DEF Target
    <2>2. i + 1 \in 1 .. ThreadCount + 1
        BY <1>2
    <2>3. \A j \in 1 .. (i + 1) - 1 : <<s, j>> \in joined'
        BY <1>0, <1>1, <1>2
    <2>4. ASSUME a # Main, s = "cli" PROVE i + 1 <= a[2]
        <3>1. a[1] = "cli" /\ i # a[2]
            BY <1>0, <1>1, <1>2, <2>4, CallerFacts
        <3> QED BY <1>2, <2>4, <3>1
    <2>5. joined \subseteq joined' /\ \A r \in Servers : AllJoined(r) => AllJoined(r)'
        BY <1>1 DEF AllJoined
    <2> QED BY <1>0, <1>3, <2>1, <2>2, <2>3, <2>4, <2>5 DEF Looping
<1>7. Joining'
    <2>1. \A t \in joined' : thread'[t] = "ended" /\ stoppers'[t[1]] # {}
        BY <1>0, <1>1, <1>2 DEF Joining
    <2>2. ASSUME NEW b \in Actors, stop'[b].at \in {"halt", "joinable", "join", "wait"},
                 stoppers'[stop'[b].server] = {b},
                 NEW j \in 1 .. ThreadCount, <<stop'[b].server, j>> \in joined'
          PROVE  j < stop'[b].i
        <3>1. CASE b # a
            <4>1. stop[b].server # s
                BY <1>1, <1>2, <1>3, <2>2, <3>1
            <4> QED BY <1>0, <1>1, <1>3, <1>4, <2>2, <3>1, <4>1 DEF Joining
        <3>2. CASE b = a
            <4>1. j < i \/ j = i
                BY <1>0, <1>1, <1>3, <1>4, <2>2, <3>2 DEF Joining
            <4> QED BY <1>2, <1>3, <3>2, <4>1
        <3> QED BY <3>1, <3>2
    <2>3. ASSUME NEW b \in Actors, NEW r \in Servers, stoppers'[r] = {b}
          PROVE  \/ /\ stop'[b].server = r
                    /\ stop'[b].at \in {"halt", "joinable", "join", "wait", "close"}
                 \/ AllJoined(r)'
                 \/ r = "cli" /\ b # Main
        BY <1>0, <1>1, <1>3, <2>3 DEF Joining, AllJoined
    <2> QED BY <2>1, <2>2, <2>3 DEF Joining
<1>8. Closing'
    <2>1. ASSUME NEW r \in Servers, <<r, ThreadCount>> \in joined'
          PROVE  \/ ~acceptorOpen'[r]
                 \/ \E b \in Actors :
                        /\ stop'[b].server = r
                        /\ \/ stop'[b].at = "close"
                           \/ stop'[b].at = "joinable" /\ stop'[b].i = ThreadCount + 1
        <3>1. CASE <<r, ThreadCount>> \in joined
            BY <1>0, <1>1, <1>3, <3>1 DEF Closing
        <3>2. CASE r = s /\ ThreadCount = i
            BY <1>3, <3>2
        <3> QED BY <1>4, <2>1, <3>1, <3>2
    <2> QED BY <2>1 DEF Closing
<1>9. /\ \A r \in Servers : (running'[r] => running[r]) /\ stoppers[r] \subseteq stoppers'[r]
      /\ joined \subseteq joined' /\ joined' \subseteq PoolThreads
      /\ i + 1 \in 0 .. ThreadCount + 1 /\ stop[a].at # "out"
    BY <1>0, <1>1, <1>2
<1> QED BY <1>0, <1>1, <1>5, <1>6, <1>7, <1>8, <1>9, CallStep

\* A caller that alone stopped a server is refused no thread but itself.
LEMMA RefusedShared ==
    ASSUME IndInv, Alive, NEW a \in Actors, stop[a].at = "join", Refused(a), a # Target(a)
    PROVE  stoppers[stop[a].server] # {a} /\ a \in stoppers[stop[a].server]
<1> USE PoolFacts
<1>1. /\ Stopping /\ Looping /\ Joining
      /\ stop[a].server \in Servers /\ stop[a].i \in 1 .. ThreadCount
    BY DEF IndInv, TypeOK, Calls, Looping
<1>2. a \in stoppers[stop[a].server]
    BY <1>1 DEF Stopping
<1>3. ASSUME stoppers[stop[a].server] = {a} PROVE FALSE
    <2>1. Target(a) \notin joined
        BY <1>1, <1>3 DEF Joining, Target
    <2>2. PICK b \in Actors \ {a} : stop[b].at = "wait" /\ Target(b) = Target(a)
        BY <2>1 DEF Refused
    <2>3. stop[b].server = stop[a].server
        BY <2>2 DEF Target
    <2> QED BY <1>1, <1>3, <2>2, <2>3 DEF Stopping
<1> QED BY <1>2, <1>3

\* An exception out of join: it ends a thread of a pool, or from main the
\* process.
LEMMA ThrowStep ==
    ASSUME IndInv, NEW a \in Actors, Join(a), Refused(a)
    PROVE  IndInv'
<1> USE PoolFacts
<1>0. /\ TypeOK /\ Alive /\ Accepting
      /\ Callers /\ Spawning /\ Stopping /\ Looping /\ Joining /\ Closing
      /\ stop \in [Actors -> Calls] /\ stop[a].server \in Servers
    BY DEF IndInv, Join, At, TypeOK, Calls
<1>1. /\ stop[a].at = "join" /\ Throw(a)
      /\ UNCHANGED <<loop, running, stopped, accepting, acceptorOpen, joined, main, stoppers,
                     asked>>
    BY DEF Join, At
<1>2. /\ \A b \in Actors : b # a => stop'[b] = stop[b]
      /\ stop'[a].at = "out" /\ stop' \in [Actors -> Calls]
    BY <1>0, <1>1 DEF Throw, NoCall, Calls, Servers
<1>3. CASE a = Main
    <2>1. process' = "aborted" /\ UNCHANGED thread
        BY <1>1, <1>3 DEF Throw
    <2>2. TypeOK' /\ Accepting' /\ CleanExit' /\ ~Alive'
        BY <1>0, <1>1, <1>2, <1>3, <2>1 DEF TypeOK, Accepting, CleanExit, Alive
    <2>3. a # Target(a)
        <3>1. stop[a].i \in 1 .. ThreadCount
            BY <1>0, <1>1 DEF Looping
        <3> QED BY <1>0, <1>3, <3>1 DEF Target
    <2>4. stoppers[stop[a].server] # {a} /\ a \in stoppers[stop[a].server]
        BY <1>0, <1>1, <2>3, RefusedShared
    <2>5. stoppers["cli"] \ {Main} # {} \/ Cardinality(stoppers["client"]) > 1
        <3>1. CASE stop[a].server = "cli"
            BY <1>3, <2>4, <3>1
        <3>2. CASE stop[a].server = "client"
            <4>1. stoppers["client"] \in SUBSET Actors
                BY <1>0, <3>2 DEF TypeOK
            <4>2. PICK b \in stoppers["client"] : b # a
                BY <2>4, <3>2
            <4> QED BY <2>4, <3>2, <4>1, <4>2, TwoStoppers
        <3> QED BY <1>0, <3>1, <3>2 DEF Servers
    <2>6. AbortOnlyBySelfStop'
        BY <1>1, <2>5 DEF AbortOnlyBySelfStop
    <2> QED BY <2>2, <2>6 DEF IndInv
<1>4. CASE a # Main
    <2>1. process' = process /\ thread' = [thread EXCEPT ![a] = "ended"] /\ Alive'
        BY <1>0, <1>1, <1>4 DEF Throw, Alive
    <2>2. \A u \in PoolThreads : thread'[u] = IF u = a THEN "ended" ELSE thread[u]
        BY <1>0, <2>1 DEF TypeOK
    <2>3. a \in PoolThreads /\ a[1] = "cli" /\ thread[a] = "shutdown"
        BY <1>0, <1>1, <1>4, CallerFacts
    <2>4. TypeOK'
        <3>1. thread' \in [PoolThreads -> ThreadStates]
            BY <1>0, <2>1, <2>3 DEF TypeOK, ThreadStates
        <3>2. \A t \in PoolThreads : (stop'[t].at # "out") <=> (thread'[t] = "shutdown")
            BY <1>0, <1>2, <2>2 DEF TypeOK
        <3> QED BY <1>0, <1>1, <1>2, <2>1, <3>1, <3>2 DEF TypeOK
    <2>5. CleanExit' /\ AbortOnlyBySelfStop'
        BY <2>1 DEF CleanExit, AbortOnlyBySelfStop, Alive
    <2>6. Accepting'
        BY <1>0, <1>1, <2>2, <2>3 DEF Accepting
    <2>7. Callers'
        BY <1>0, <1>1, <1>2, <1>4 DEF Callers, AllJoined
    <2>8. Spawning'
        <3>1. \A s \in Servers, i \in 1 .. ThreadCount :
                thread'[<<s, i>>] = "none" <=> thread[<<s, i>>] = "none"
            BY <2>2, <2>3
        <3>2. \A i \in 1 .. ThreadCount : \A j \in 1 .. i - 1 : j \in 1 .. ThreadCount
            OBVIOUS
        <3> QED BY <1>0, <1>1, <3>1, <3>2 DEF Spawning, Constructing, Servers
    <2>9. Stopping'
        BY <1>0, <1>1, <1>2 DEF Stopping, Unstarted
    <2>10. Looping'
        BY <1>0, <1>1, <1>2 DEF Looping, AllJoined, Target
    <2>11. Joining'
        <3>1. \A t \in joined' : thread'[t] = "ended" /\ stoppers'[t[1]] # {}
            BY <1>0, <1>1, <2>2 DEF Joining, TypeOK
        <3>2. ASSUME NEW r \in Servers, stoppers[r] = {a}, r # "cli", ~AllJoined(r) PROVE FALSE
            <4>1. stop[a].server = r
                BY <1>0, <3>2 DEF Joining
            <4>2. a # Target(a)
                BY <2>3, <3>2, <4>1 DEF Target
            <4> QED BY <1>0, <1>1, <3>2, <4>1, <4>2, RefusedShared
        <3>3. ASSUME NEW b \in Actors, NEW r \in Servers, stoppers'[r] = {b}
              PROVE  \/ /\ stop'[b].server = r
                        /\ stop'[b].at \in {"halt", "joinable", "join", "wait", "close"}
                     \/ AllJoined(r)'
                     \/ r = "cli" /\ b # Main
            BY <1>0, <1>1, <1>2, <1>4, <3>2, <3>3 DEF Joining, AllJoined
        <3> QED BY <1>0, <1>1, <1>2, <3>1, <3>3 DEF Joining
    <2>12. Closing'
        BY <1>0, <1>1, <1>2 DEF Closing
    <2> QED BY <2>1, <2>4, <2>5, <2>6, <2>7, <2>8, <2>9, <2>10, <2>11, <2>12 DEF IndInv
<1> QED BY <1>3, <1>4

\* A call returns: the server was stopped, by this caller or another, and if it
\* was this one, all its threads were joined.
LEMMA ReturnStep ==
    ASSUME IndInv, NEW a \in Actors,
           (TestRunning(a) /\ ~running[stop[a].server]) \/ CloseAcceptor(a)
    PROVE  IndInv'
<1> USE PoolFacts
<1>0. /\ TypeOK /\ Alive /\ Accepting
      /\ Callers /\ Spawning /\ Stopping /\ Looping /\ Joining /\ Closing
      /\ stop \in [Actors -> Calls] /\ stop[a].server \in Servers
      /\ acceptorOpen \in [Servers -> BOOLEAN]
    BY DEF IndInv, TestRunning, CloseAcceptor, At, TypeOK, Calls
<1> DEFINE s == stop[a].server
<1>1. /\ stop[a].at \in {"test", "close"} /\ Return(a)
      /\ UNCHANGED <<process, loop, running, stopped, accepting, joined, stoppers, asked>>
      /\ Alive'
    BY <1>0 DEF TestRunning, CloseAcceptor, At, Alive
<1>2. /\ acceptorOpen' \in [Servers -> BOOLEAN]
      /\ \A r \in Servers : acceptorOpen'[r] = acceptorOpen[r] \/ ~acceptorOpen'[r]
      /\ stop[a].at = "close" => ~acceptorOpen'[s]
    BY <1>0 DEF TestRunning, CloseAcceptor, At
<1>3. stoppers[s] # {} /\ (stop[a].at = "close" => AllJoined(s))
    <2>1. CASE stop[a].at = "close"
        BY <1>0, <2>1 DEF Stopping, Looping
    <2>2. CASE stop[a].at = "test"
        <3>1. ~running[s] /\ stop[a].at # "out"
            BY <2>2 DEF TestRunning, CloseAcceptor, At
        <3>2. ~Unstarted(s)
            BY <1>0, <3>1, CallerFacts
        <3> QED BY <1>0, <2>2, <3>1, <3>2 DEF Stopping
    <2> QED BY <1>1, <2>1, <2>2
<1>4. \A r \in Servers : ~Unstarted(r)
    BY <1>0, <1>1, CallerFacts
<1>5. \A b \in Actors : b # a => stop'[b] = stop[b]
    BY <1>0, <1>1 DEF Return
<1>6. /\ stop' \in [Actors -> Calls]
      /\ stop'[a].at = (IF s = "client" THEN "test" ELSE "out")
      /\ s = "client" => stop'[a].server = "cli"
    BY <1>0, <1>1 DEF Return, NoCall, Calls, Servers
<1>7. /\ s = "client" => UNCHANGED <<main, thread>>
      /\ s = "cli" /\ a = Main => main' = <<"destroy", "cli">> /\ UNCHANGED thread
      /\ s = "cli" /\ a # Main =>
            main' = main /\ thread' = [thread EXCEPT ![a] = "polling"]
    BY <1>0, <1>1 DEF Return, Servers
<1>8. a # Main => a \in PoolThreads /\ a[1] = "cli" /\ thread[a] = "shutdown"
    BY <1>0, <1>1, CallerFacts
<1>9. /\ \A u \in PoolThreads : u # a => thread'[u] = thread[u]
      /\ a # Main => thread'[a] = IF s = "client" THEN "shutdown" ELSE "polling"
      /\ thread' \in [PoolThreads -> ThreadStates]
    BY <1>0, <1>7, <1>8 DEF TypeOK, ThreadStates, Servers
<1>10. main' = main \/ (a = Main /\ s = "cli" /\ main = <<"stop">> /\ main' = <<"destroy", "cli">>)
    BY <1>0, <1>1, <1>7 DEF Callers, Servers
<1>11. \A t \in joined : t # a /\ thread'[t] = "ended"
    BY <1>0, <1>8, <1>9 DEF Joining, TypeOK
<1>12. TypeOK'
    <2>1. main' \in MainSteps
        BY <1>0, <1>10 DEF TypeOK, MainSteps, Servers
    <2>2. \A t \in PoolThreads : (stop'[t].at # "out") <=> (thread'[t] = "shutdown")
        BY <1>0, <1>5, <1>6, <1>9 DEF TypeOK
    <2> QED BY <1>0, <1>1, <1>2, <1>6, <1>9, <2>1, <2>2 DEF TypeOK
<1>13. CleanExit' /\ AbortOnlyBySelfStop'
    BY <1>1 DEF CleanExit, AbortOnlyBySelfStop, Alive
<1>14. Accepting'
    <2>1. \A u \in PoolThreads : thread[u] = "accepting" => thread'[u] = "accepting"
        BY <1>8, <1>9
    <2> QED BY <1>0, <1>1, <2>1 DEF Accepting
<1>15. Callers'
    <2>1. s = "client" => stoppers["client"] # {}
        BY <1>3
    <2>2. a = Main /\ s = "cli" => \A r \in Servers : stoppers[r] # {}
        BY <1>0, <1>1, <1>3 DEF Callers, Servers
    <2>3. \A t \in PoolThreads : stop'[t].at # "out" => t[1] = "cli"
        BY <1>0, <1>5, <1>8 DEF Callers
    <2>4. stop'[Main].at # "out" <=> main' = <<"stop">>
        BY <1>0, <1>1, <1>5, <1>6, <1>7, <1>10 DEF Callers, Servers
    <2>5. main' = <<"stop">> /\ stop'[Main].server = "cli" => stoppers["client"] # {}
        BY <1>0, <1>5, <1>6, <1>10, <2>1, <2>4 DEF Callers, Servers
    <2>6. main' \in ({"destroy"} \X Servers) \cup {<<"done">>} =>
            \A r \in Servers : stoppers[r] # {}
        BY <1>0, <1>10, <2>2 DEF Callers
    <2>7. main' \in {<<"destroy", "client">>, <<"done">>} => AllJoined("cli")
        BY <1>0, <1>10 DEF Callers
    <2> QED BY <1>1, <2>3, <2>4, <2>5, <2>6, <2>7 DEF Callers, AllJoined
<1>16. Spawning'
    <2>1. \A r \in Servers, i \in 1 .. ThreadCount :
            thread'[<<r, i>>] = "none" <=> thread[<<r, i>>] = "none"
        BY <1>8, <1>9
    <2>2. \A i \in 1 .. ThreadCount : \A j \in 1 .. i - 1 : j \in 1 .. ThreadCount
        OBVIOUS
    <2> QED BY <1>0, <1>10, <2>1, <2>2 DEF Spawning, Constructing, Servers
<1>17. Stopping'
    <2>1. \A r \in Servers : (running'[r] <=> stoppers'[r] = {}) /\ ~Unstarted(r)'
        BY <1>0, <1>1, <1>4, <1>10 DEF Stopping, Unstarted
    <2> QED BY <1>0, <1>1, <1>5, <1>6, <2>1 DEF Stopping
<1>18. Looping'
    BY <1>0, <1>1, <1>5, <1>6 DEF Looping, AllJoined, Target
<1>19. Joining'
    <2>1. ASSUME NEW b \in Actors, NEW r \in Servers, stoppers'[r] = {b}
          PROVE  \/ /\ stop'[b].server = r
                    /\ stop'[b].at \in {"halt", "joinable", "join", "wait", "close"}
                 \/ AllJoined(r)'
                 \/ r = "cli" /\ b # Main
        BY <1>0, <1>1, <1>3, <1>5, <2>1 DEF Joining, AllJoined
    <2> QED BY <1>0, <1>1, <1>5, <1>6, <1>11, <2>1 DEF Joining
<1>20. Closing'
    <2>1. ASSUME NEW r \in Servers, <<r, ThreadCount>> \in joined', acceptorOpen'[r]
          PROVE  \E b \in Actors :
                    /\ stop'[b].server = r
                    /\ \/ stop'[b].at = "close"
                       \/ stop'[b].at = "joinable" /\ stop'[b].i = ThreadCount + 1
        <3>1. PICK b \in Actors :
                    /\ stop[b].server = r
                    /\ \/ stop[b].at = "close"
                       \/ stop[b].at = "joinable" /\ stop[b].i = ThreadCount + 1
            BY <1>0, <1>1, <1>2, <2>1 DEF Closing
        <3>2. b # a
            BY <1>1, <1>2, <2>1, <3>1
        <3> QED BY <1>5, <3>1, <3>2
    <2> QED BY <2>1 DEF Closing
<1> QED BY <1>12, <1>13, <1>14, <1>15, <1>16, <1>17, <1>18, <1>19, <1>20 DEF IndInv

----------------------------------------------------------------------------
(* The theorems. *)

\* Every step of main, of a thread or of a call of stop keeps the invariant.
LEMMA NextIndInv == IndInv /\ [Next]_vars => IndInv'
<1> SUFFICES ASSUME IndInv, [Next]_vars PROVE IndInv'
    OBVIOUS
<1>1. CASE MainStep
    BY <1>1, StartStep, SpawnStep, DestroyStep, AnnounceStep, LeaveLoopStep DEF MainStep
<1>2. ASSUME NEW t \in PoolThreads,
             \/ BeginHandler(t) \/ EndHandler(t)
             \/ BeginAccept(t) \/ EndAccept(t) \/ EndThread(t)
      PROVE  IndInv'
    BY <1>2, PoolStep
<1>3. ASSUME NEW t \in PoolThreads, Shutdown(t) PROVE IndInv'
    BY <1>3, ShutdownStep
<1>4. ASSUME NEW a \in Actors, Stop(a) PROVE IndInv'
    <2>1. CASE TestRunning(a)
        BY <2>1, LookSteps, ReturnStep
    <2>2. CASE SetRunning(a)
        BY <2>2, SetRunningStep
    <2>3. CASE Halt(a) \/ Joinable(a)
        BY <2>3, LookSteps
    <2>4. CASE Join(a)
        BY <2>4, LookSteps, ThrowStep
    <2>5. CASE Joined(a)
        BY <2>5, JoinedStep
    <2>6. CASE CloseAcceptor(a)
        BY <2>6, ReturnStep
    <2> QED BY <1>4, <2>1, <2>2, <2>3, <2>4, <2>5, <2>6 DEF Stop
<1>5. CASE UNCHANGED vars
    BY <1>5 DEF vars, IndInv, TypeOK, CleanExit, AbortOnlyBySelfStop, Accepting, Alive,
        Callers, Spawning, Constructing, Stopping, Unstarted, Looping, Target, Joining,
        AllJoined, Closing
<1> QED BY <1>1, <1>2, <1>3, <1>4, <1>5 DEF Next

\* The process's life keeps the inductive invariant.
THEOREM Inductive == Spec => []IndInv
BY InitIndInv, NextIndInv, PTL DEF Spec

\* The variables have their types, and a thread is in a call of stop exactly while
\* it handles a shutdown.
THEOREM TypeCorrect == Spec => []TypeOK
<1>1. IndInv => TypeOK
    BY DEF IndInv
<1> QED BY <1>1, Inductive, PTL

\* A process that returned from main has joined every thread of both pools and
\* closed both acceptors, whoever stopped what.
THEOREM ExitsClean == Spec => []CleanExit
<1>1. IndInv => CleanExit
    BY DEF IndInv
<1> QED BY <1>1, Inductive, PTL

\* The process aborts only when a thread of the CLI pool stopped that pool, or two
\* callers stopped the client server.
THEOREM AbortsBySelfStop == Spec => []AbortOnlyBySelfStop
<1>1. IndInv => AbortOnlyBySelfStop
    BY DEF IndInv
<1> QED BY <1>1, Inductive, PTL

\* A thread of the client pool ends only after the pool was told to stop.
LEMMA EndingKept == IndInv /\ Ending /\ [Next]_vars => Ending'
<1> SUFFICES ASSUME IndInv, Ending, [Next]_vars PROVE Ending'
    OBVIOUS
<1> USE PoolFacts
<1>0. TypeOK
    BY DEF IndInv
<1>1. CASE UNCHANGED <<thread, stopped, stoppers>>
    BY <1>1 DEF Ending
<1>2. ASSUME NEW t \in PoolThreads, UNCHANGED <<stopped, stoppers>>,
             \A u \in PoolThreads : thread'[u] = "ended" => thread[u] = "ended" \/ u = t,
             thread'[t] = "ended" => t[1] = "cli" \/ stopped["client"]
      PROVE  Ending'
    BY <1>2 DEF Ending
<1>3. CASE MainStep
    <2>1. ASSUME NEW s \in Servers, Spawn(s) PROVE Ending'
        <3>1. /\ UNCHANGED <<stopped, stoppers>>
              /\ \A u \in PoolThreads : thread'[u] = "ended" => thread[u] = "ended"
            BY <1>0, <2>1 DEF Spawn, TypeOK
        <3> QED BY <3>1 DEF Ending
    <2> QED BY <1>1, <1>3, <2>1 DEF MainStep, Start, Destroy, Announce, LeaveLoop
<1>4. ASSUME NEW t \in PoolThreads,
             \/ BeginHandler(t) \/ EndHandler(t) \/ BeginAccept(t) \/ EndAccept(t)
             \/ EndThread(t) \/ Shutdown(t)
      PROVE  Ending'
    <2>1. UNCHANGED <<stopped, stoppers>>
        BY <1>4 DEF BeginHandler, EndHandler, BeginAccept, EndAccept, EndThread, Shutdown
    <2>2. \A u \in PoolThreads : thread'[u] = "ended" => thread[u] = "ended" \/ u = t
        BY <1>0, <1>4 DEF TypeOK, BeginHandler, EndHandler, BeginAccept, EndAccept, EndThread,
            Shutdown
    <2>3. CASE EndHandler(t)
        <3>1. thread[t] = "handling"
            BY <2>3 DEF EndHandler
        <3>2. thread'[t] = "ended" => t[1] = "cli"
            BY <1>0, <2>3, <3>1 DEF EndHandler, TypeOK
        <3> QED BY <1>2, <2>1, <2>2, <3>2
    <2>4. CASE EndThread(t)
        <3>1. t[1] = "cli" \/ stopped["client"]
            BY <2>4 DEF EndThread, Servers
        <3> QED BY <1>2, <2>1, <2>2, <3>1
    <2>5. CASE BeginHandler(t) \/ BeginAccept(t) \/ EndAccept(t) \/ Shutdown(t)
        <3>1. thread'[t] # "ended"
            BY <1>0, <2>5 DEF BeginHandler, BeginAccept, EndAccept, Shutdown, TypeOK
        <3> QED BY <1>2, <2>1, <2>2, <3>1
    <2> QED BY <1>4, <2>3, <2>4, <2>5
<1>5. ASSUME NEW a \in Actors, Stop(a) PROVE Ending'
    <2>0. Alive /\ Callers /\ Stopping /\ stop[a].at # "out" /\ stop[a].server \in Servers
        BY <1>0, <1>5 DEF Stop, TestRunning, SetRunning, Halt, Joinable, Join, Joined,
            CloseAcceptor, At, IndInv, TypeOK, Calls
    <2>1. CASE SetRunning(a)
        <3>1. /\ UNCHANGED <<thread, stopped>>
              /\ \A s \in Servers : stoppers[s] \subseteq stoppers'[s]
            BY <1>0, <2>1 DEF SetRunning, TypeOK
        <3>2. \A s \in Servers : stoppers[s] # {} => stoppers'[s] # {}
            BY <3>1
        <3> QED BY <3>1, <3>2 DEF Ending
    <2>2. CASE Halt(a)
        <3>1. stoppers[stop[a].server] # {}
            BY <2>0, <2>2 DEF Halt, At, Stopping
        <3>2. /\ UNCHANGED <<thread, stoppers>>
              /\ \A s \in Servers : stopped'[s] <=> stopped[s] \/ s = stop[a].server
            BY <1>0, <2>2 DEF Halt, TypeOK
        <3> QED BY <3>1, <3>2 DEF Ending, Servers
    <2>3. CASE Joinable(a) \/ Joined(a)
        BY <1>1, <2>3 DEF Joinable, Joined
    <2>4. CASE Join(a)
        <3>1. CASE a = Main \/ ~Refused(a)
            BY <1>1, <2>4, <3>1 DEF Join, Throw
        <3>2. CASE a # Main /\ Refused(a)
            <4>1. a \in PoolThreads /\ a[1] = "cli"
                BY <2>0, <3>2 DEF Callers
            <4>2. thread' = [thread EXCEPT ![a] = "ended"] /\ UNCHANGED <<stopped, stoppers>>
                BY <2>4, <3>2 DEF Join, Throw
            <4> QED BY <1>0, <1>2, <4>1, <4>2 DEF TypeOK
        <3> QED BY <3>1, <3>2
    <2>5. CASE TestRunning(a) \/ CloseAcceptor(a)
        <3>1. /\ UNCHANGED <<stopped, stoppers>>
              /\ UNCHANGED thread \/ thread' = [thread EXCEPT ![a] = "polling"]
            BY <2>5 DEF TestRunning, CloseAcceptor, Return
        <3>2. \A u \in PoolThreads : thread'[u] = "ended" => thread[u] = "ended"
            BY <1>0, <3>1 DEF TypeOK
        <3> QED BY <3>1, <3>2 DEF Ending
    <2> QED BY <1>5, <2>1, <2>2, <2>3, <2>4, <2>5 DEF Stop
<1>6. CASE UNCHANGED vars
    BY <1>1, <1>6 DEF vars
<1> QED BY <1>3, <1>4, <1>5, <1>6 DEF Next

\* While a server runs its acceptor is armed and a thread of its pool is left to
\* accept, or a thread is at work that will arm it again; only the CLI server's
\* threads can all be gone.
THEOREM Accepts == Spec => []AlwaysAccepting
<1>1. Init => Ending
    BY PoolFacts DEF Init, Ending
<1>2. IndInv /\ Ending => AlwaysAccepting
    <2> SUFFICES ASSUME IndInv, Ending, Alive, NEW s \in Servers, running[s],
                        ~\E i \in 1 .. ThreadCount : thread[<<s, i>>] = "accepting"
                 PROVE  \/ /\ accepting[s] = "armed"
                           /\ \E i \in 1 .. ThreadCount : thread[<<s, i>>] # "ended"
                        \/ s = "cli" /\ \A i \in 1 .. ThreadCount : thread[<<s, i>>] = "ended"
        BY DEF AlwaysAccepting
    <2> USE PoolFacts
    <2>1. accepting[s] = "armed"
        BY DEF IndInv, Accepting, TypeOK
    <2>2. stoppers[s] = {}
        BY DEF IndInv, Stopping
    <2>3. CASE s = "cli"
        BY <2>1, <2>3
    <2>4. CASE s = "client"
        <3>1. thread[<<s, 1>>] # "ended" /\ 1 \in 1 .. ThreadCount
            BY <2>2, <2>4 DEF Ending
        <3> QED BY <2>1, <3>1
    <2> QED BY <2>3, <2>4 DEF Servers
<1> QED BY <1>1, <1>2, Inductive, EndingKept, PTL DEF Spec

=============================================================================
