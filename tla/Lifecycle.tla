----------------------------- MODULE Lifecycle -----------------------------
(***************************************************************************)
(* The life of the server process: ReaderHandler starts two TcpServers,    *)
(* each with a pool of threads on its io_context; main polls a flag; the   *)
(* CLI command "shutdown" clears the flag and stops both servers from one  *)
(* of the threads that are being stopped, while main, once it sees the     *)
(* flag, stops them too and destroys them.                                 *)
(*                                                                         *)
(* TcpServer::stop tests a plain bool and sets it, asks the io_context to  *)
(* stop, joins the threads one by one and closes the acceptor.  A thread   *)
(* that joins itself gets an exception, which ends its thread function;    *)
(* destroying a std::thread that nobody joined ends the process.           *)
(***************************************************************************)
EXTENDS Naturals, FiniteSets

CONSTANTS
    ThreadCount,    \* threads of each pool, set by setThreadCount
    ThreadLimit     \* the most setThreadCount accepts

ASSUME CountAssumption == ThreadLimit \in Nat /\ ThreadCount \in 1 .. ThreadLimit

Servers == {"client", "cli"}
PoolThreads == Servers \X (1 .. ThreadCount)

\* Those who may call TcpServer::stop.
Main == <<"main", 0>>
Actors == {Main} \cup PoolThreads

VARIABLES
    process,        \* "running", "exited" (main returned) or "aborted"
    loop,           \* ReaderHandler::running, what main polls
    running,        \* TcpServer::running
    stopped,        \* io_context.stop() was called
    accepting,      \* the acceptor's read: "no", "armed" or taken by a thread
    acceptorOpen,
    thread,         \* what each thread of the pools does
    joined,         \* the threads that were joined
    main,           \* what main does
    stop,           \* where each actor is in a call of TcpServer::stop
    stoppers,       \* history: who stopped each server
    asked           \* history: a shutdown came after the constructor returned

vars == <<process, loop, running, stopped, accepting, acceptorOpen, thread, joined,
          main, stop, stoppers, asked>>

\* No call; or a call for a server, at a step, looking at a thread of the pool.
NoCall == [at |-> "out", server |-> "client", i |-> 0]
Calls == [at : {"out", "test", "set", "halt", "joinable", "join", "wait", "close"},
          server : Servers, i : 0 .. ThreadCount + 1]

Init ==
    /\ process = "running"
    /\ loop = TRUE
    /\ running = [s \in Servers |-> FALSE]
    /\ stopped = [s \in Servers |-> FALSE]
    /\ accepting = [s \in Servers |-> "no"]
    /\ acceptorOpen = [s \in Servers |-> TRUE]
    /\ thread = [t \in PoolThreads |-> "none"]
    /\ joined = {}
    /\ main = <<"start", "client">>
    /\ stop = [a \in Actors |-> NoCall]
    /\ stoppers = [s \in Servers |-> {}]
    /\ asked = FALSE

Alive == process = "running"

----------------------------------------------------------------------------
(* The constructor and the main loop. *)

\* TcpServer::start: the flag is set and the acceptor armed, then the threads
\* are started one by one.
Start(s) ==
    /\ Alive
    /\ main = <<"start", s>>
    /\ running' = [running EXCEPT ![s] = TRUE]
    /\ accepting' = [accepting EXCEPT ![s] = "armed"]
    /\ main' = <<"spawn", s>>
    /\ UNCHANGED <<process, loop, stopped, acceptorOpen, thread, joined, stop, stoppers,
                   asked>>

Spawn(s) ==
    /\ Alive
    /\ main = <<"spawn", s>>
    /\ \E i \in 1 .. ThreadCount :
        /\ thread[<<s, i>>] = "none"
        /\ \A j \in 1 .. i - 1 : thread[<<s, j>>] # "none"
        /\ thread' = [thread EXCEPT ![<<s, i>>] = "polling"]
        /\ main' = CASE i < ThreadCount -> main
                     [] i = ThreadCount /\ s = "client" -> <<"start", "cli">>
                     [] OTHER -> <<"announce">>
    /\ UNCHANGED <<process, loop, running, stopped, accepting, acceptorOpen, joined, stop,
                   stoppers, asked>>

\* running = true, after both servers were started.
Announce ==
    /\ Alive
    /\ main = <<"announce">>
    /\ loop' = TRUE
    /\ main' = <<"loop">>
    /\ UNCHANGED <<process, running, stopped, accepting, acceptorOpen, thread, joined, stop,
                   stoppers, asked>>

\* runLoop returns; the destructor calls ReaderHandler::stop.
LeaveLoop ==
    /\ Alive
    /\ main = <<"loop">>
    /\ ~loop
    /\ main' = <<"stop">>
    /\ stop' = [stop EXCEPT ![Main] = [at |-> "test", server |-> "client", i |-> 0]]
    /\ UNCHANGED <<process, loop, running, stopped, accepting, acceptorOpen, thread, joined,
                   stoppers, asked>>

\* The members go in reverse order, cliServer first.  Its thread objects must
\* have been joined.
Destroy(s) ==
    /\ Alive
    /\ main = <<"destroy", s>>
    /\ IF \A i \in 1 .. ThreadCount : <<s, i>> \in joined
       THEN IF s = "cli"
            THEN main' = <<"destroy", "client">> /\ UNCHANGED process
            ELSE main' = <<"done">> /\ process' = "exited"
       ELSE process' = "aborted" /\ UNCHANGED main
    /\ UNCHANGED <<loop, running, stopped, accepting, acceptorOpen, thread, joined, stop,
                   stoppers, asked>>

----------------------------------------------------------------------------
(* The threads of the pools. *)

\* A handler of a connection begins and ends; one of the CLI server may let an
\* exception escape (a number too large for stoul), which ends io_context.run()
\* on that thread.
BeginHandler(t) ==
    /\ Alive
    /\ thread[t] = "polling"
    /\ ~stopped[t[1]]
    /\ thread' = [thread EXCEPT ![t] = "handling"]
    /\ UNCHANGED <<process, loop, running, stopped, accepting, acceptorOpen, joined, main,
                   stop, stoppers, asked>>

EndHandler(t) ==
    /\ Alive
    /\ thread[t] = "handling"
    /\ \/ thread' = [thread EXCEPT ![t] = "polling"]
       \/ t[1] = "cli" /\ thread' = [thread EXCEPT ![t] = "ended"]
    /\ UNCHANGED <<process, loop, running, stopped, accepting, acceptorOpen, joined, main,
                   stop, stoppers, asked>>

\* The accept handler returns at once if the server was stopped meanwhile.
BeginAccept(t) ==
    /\ Alive
    /\ thread[t] = "polling"
    /\ ~stopped[t[1]]
    /\ accepting[t[1]] = "armed"
    /\ IF running[t[1]]
       THEN /\ thread' = [thread EXCEPT ![t] = "accepting"]
            /\ accepting' = [accepting EXCEPT ![t[1]] = "taken"]
       ELSE /\ accepting' = [accepting EXCEPT ![t[1]] = "no"]
            /\ UNCHANGED thread
    /\ UNCHANGED <<process, loop, running, stopped, acceptorOpen, joined, main, stop,
                   stoppers, asked>>

\* Mutant of Rearmed: one connection is accepted and no other.
NotRearmed(s) == "no"

\* Whatever came of the connection, the acceptor is armed again.
Rearmed(s) == IF running[s] THEN "armed" ELSE "no"

EndAccept(t) ==
    /\ Alive
    /\ thread[t] = "accepting"
    /\ accepting' = [accepting EXCEPT ![t[1]] = Rearmed(t[1])]
    /\ thread' = [thread EXCEPT ![t] = "polling"]
    /\ UNCHANGED <<process, loop, running, stopped, acceptorOpen, joined, main, stop,
                   stoppers, asked>>

\* io_context.run() returns.
EndThread(t) ==
    /\ Alive
    /\ thread[t] = "polling"
    /\ stopped[t[1]]
    /\ thread' = [thread EXCEPT ![t] = "ended"]
    /\ UNCHANGED <<process, loop, running, stopped, accepting, acceptorOpen, joined, main,
                   stop, stoppers, asked>>

\* The CLI command: the flag is cleared, then both servers are stopped.
Shutdown(t) ==
    /\ Alive
    /\ t[1] = "cli"
    /\ thread[t] = "polling"
    /\ ~stopped["cli"]
    /\ thread' = [thread EXCEPT ![t] = "shutdown"]
    /\ loop' = FALSE
    /\ stop' = [stop EXCEPT ![t] = [at |-> "test", server |-> "client", i |-> 0]]
    /\ asked' = (asked \/ main = <<"loop">>)
    /\ UNCHANGED <<process, running, stopped, accepting, acceptorOpen, joined, main, stoppers>>

----------------------------------------------------------------------------
(* TcpServer::stop, called by actor a. *)

At(a, step) == Alive /\ stop[a].at = step

Goto(a, step, i) == stop' = [stop EXCEPT ![a].at = step, ![a].i = i]

\* Every caller stops the client server and then the CLI server.  After that
\* the shutdown handler returns to its thread, and main destroys the servers.
Return(a) ==
    IF stop[a].server = "client"
    THEN /\ stop' = [stop EXCEPT ![a] = [at |-> "test", server |-> "cli", i |-> 0]]
         /\ UNCHANGED <<thread, main>>
    ELSE /\ stop' = [stop EXCEPT ![a] = NoCall]
         /\ IF a = Main
            THEN main' = <<"destroy", "cli">> /\ UNCHANGED thread
            ELSE thread' = [thread EXCEPT ![a] = "polling"] /\ UNCHANGED main

\* Mutant of Throw: the thread ends, and its call of stop is not over.
ThrowInside(a) ==
    /\ IF a = Main
       THEN process' = "aborted" /\ UNCHANGED thread
       ELSE thread' = [thread EXCEPT ![a] = "ended"] /\ UNCHANGED process
    /\ UNCHANGED stop

\* An exception leaves stop: a pool thread's function catches it and ends, out
\* of main's destructor it ends the process.
Throw(a) ==
    /\ stop' = [stop EXCEPT ![a] = NoCall]
    /\ IF a = Main
       THEN process' = "aborted" /\ UNCHANGED thread
       ELSE thread' = [thread EXCEPT ![a] = "ended"] /\ UNCHANGED process

TestRunning(a) ==
    /\ At(a, "test")
    /\ IF running[stop[a].server] THEN Goto(a, "set", 0) /\ UNCHANGED <<thread, main>>
       ELSE Return(a)
    /\ UNCHANGED <<process, loop, running, stopped, accepting, acceptorOpen, joined,
                   stoppers, asked>>

\* Mutant of SetRunning: the flag is not cleared.
SetNothing(a) ==
    /\ At(a, "set")
    /\ stoppers' = [stoppers EXCEPT ![stop[a].server] = @ \cup {a}]
    /\ Goto(a, "halt", 0)
    /\ UNCHANGED <<process, loop, running, stopped, accepting, acceptorOpen, thread, joined,
                   main, asked>>

SetRunning(a) ==
    /\ At(a, "set")
    /\ running' = [running EXCEPT ![stop[a].server] = FALSE]
    /\ stoppers' = [stoppers EXCEPT ![stop[a].server] = @ \cup {a}]
    /\ Goto(a, "halt", 0)
    /\ UNCHANGED <<process, loop, stopped, accepting, acceptorOpen, thread, joined, main, asked>>

\* Mutant of Halt: the io_context is not told to stop.
HaltNothing(a) ==
    /\ At(a, "halt")
    /\ Goto(a, "joinable", 1)
    /\ UNCHANGED <<process, loop, running, stopped, accepting, acceptorOpen, thread, joined,
                   main, stoppers, asked>>

Halt(a) ==
    /\ At(a, "halt")
    /\ stopped' = [stopped EXCEPT ![stop[a].server] = TRUE]
    /\ Goto(a, "joinable", 1)
    /\ UNCHANGED <<process, loop, running, accepting, acceptorOpen, thread, joined, main,
                   stoppers, asked>>

\* The thread the call looks at.
Target(a) == <<stop[a].server, stop[a].i>>

\* Mutant of Joinable: the loop ends before the last thread.
JoinableButLast(a) ==
    /\ At(a, "joinable")
    /\ IF stop[a].i >= ThreadCount \/ thread[Target(a)] = "none"
       THEN Goto(a, "close", 0)
       ELSE IF Target(a) \in joined
            THEN Goto(a, "joinable", stop[a].i + 1)
            ELSE Goto(a, "join", stop[a].i)
    /\ UNCHANGED <<process, loop, running, stopped, accepting, acceptorOpen, thread, joined,
                   main, stoppers, asked>>

\* The loop over the threads there are, skipping those that were joined.
Joinable(a) ==
    /\ At(a, "joinable")
    /\ IF Target(a) \notin PoolThreads \/ thread[Target(a)] = "none"
       THEN Goto(a, "close", 0)
       ELSE IF Target(a) \in joined
            THEN Goto(a, "joinable", stop[a].i + 1)
            ELSE Goto(a, "join", stop[a].i)
    /\ UNCHANGED <<process, loop, running, stopped, accepting, acceptorOpen, thread, joined,
                   main, stoppers, asked>>

\* join() refuses the caller itself, and a thread that another caller has
\* joined, or is waiting for, since joinable() was asked.
Refused(a) ==
    \/ a = Target(a)
    \/ Target(a) \in joined
    \/ \E b \in Actors \ {a} : stop[b].at = "wait" /\ Target(b) = Target(a)

Join(a) ==
    /\ At(a, "join")
    /\ IF Refused(a) THEN Throw(a)
       ELSE Goto(a, "wait", stop[a].i) /\ UNCHANGED <<process, thread>>
    /\ UNCHANGED <<loop, running, stopped, accepting, acceptorOpen, joined, main, stoppers,
                   asked>>

\* Mutant of Joined: the thread is detached, not waited for.
Detached(a) ==
    /\ At(a, "wait")
    /\ joined' = joined \cup {Target(a)}
    /\ Goto(a, "joinable", stop[a].i + 1)
    /\ UNCHANGED <<process, loop, running, stopped, accepting, acceptorOpen, thread, main,
                   stoppers, asked>>

Joined(a) ==
    /\ At(a, "wait")
    /\ thread[Target(a)] = "ended"
    /\ joined' = joined \cup {Target(a)}
    /\ Goto(a, "joinable", stop[a].i + 1)
    /\ UNCHANGED <<process, loop, running, stopped, accepting, acceptorOpen, thread, main,
                   stoppers, asked>>

CloseAcceptor(a) ==
    /\ At(a, "close")
    /\ acceptorOpen' = [acceptorOpen EXCEPT ![stop[a].server] = FALSE]
    /\ Return(a)
    /\ UNCHANGED <<process, loop, running, stopped, accepting, joined, stoppers, asked>>

Stop(a) ==
    \/ TestRunning(a) \/ SetRunning(a) \/ Halt(a)
    \/ Joinable(a) \/ Join(a) \/ Joined(a) \/ CloseAcceptor(a)

----------------------------------------------------------------------------
MainStep ==
    \/ \E s \in Servers : Start(s) \/ Spawn(s) \/ Destroy(s)
    \/ Announce
    \/ LeaveLoop

Next ==
    \/ MainStep
    \/ \E t \in PoolThreads : BeginHandler(t) \/ EndHandler(t)
    \/ \E t \in PoolThreads : BeginAccept(t) \/ EndAccept(t)
    \/ \E t \in PoolThreads : EndThread(t) \/ Shutdown(t)
    \/ \E a \in Actors : Stop(a)

Spec == Init /\ [][Next]_vars

\* Every thread that can go on does: main and the callers of stop, handlers
\* that have begun, threads whose io_context was stopped.  That a connection or
\* a command comes is not assumed.
FairSpec ==
    /\ Spec
    /\ WF_vars(MainStep)
    /\ \A a \in Actors : WF_vars(Stop(a))
    /\ \A t \in PoolThreads :
        WF_vars(EndHandler(t)) /\ WF_vars(EndAccept(t)) /\ WF_vars(EndThread(t))

----------------------------------------------------------------------------
(* Properties. *)

MainSteps ==
    ({"start", "spawn", "destroy"} \X Servers)
        \cup {<<"announce">>, <<"loop">>, <<"stop">>, <<"done">>}

ThreadStates == {"none", "polling", "handling", "accepting", "shutdown", "ended"}

\* Every variable has its type; a shutdown handler is what calls stop.
TypeOK ==
    /\ process \in {"running", "exited", "aborted"}
    /\ {loop, asked} \subseteq BOOLEAN
    /\ {running, stopped, acceptorOpen} \subseteq [Servers -> BOOLEAN]
    /\ accepting \in [Servers -> {"no", "armed", "taken"}]
    /\ thread \in [PoolThreads -> ThreadStates]
    /\ joined \subseteq PoolThreads
    /\ main \in MainSteps
    /\ stop \in [Actors -> Calls]
    /\ stoppers \in [Servers -> SUBSET Actors]
    /\ \A t \in PoolThreads : (stop[t].at # "out") <=> (thread[t] = "shutdown")

\* A process that returned from main has closed both acceptors and no thread of
\* a pool is still at work, though main's own calls of stop may have returned
\* at once because a shutdown handler was stopping the servers.
CleanExit ==
    process = "exited" =>
        \A t \in PoolThreads : thread[t] = "ended" /\ ~acceptorOpen[t[1]]

\* The process aborts only if a thread of the CLI pool stopped its own pool, or
\* two callers both found the client server running before either said it was
\* not: when main alone stops a server, every thread of it is joined.
AbortOnlyBySelfStop ==
    process = "aborted" =>
        stoppers["cli"] \ {Main} # {} \/ Cardinality(stoppers["client"]) > 1

\* Claimed by readme.md ("Constantly accepts clients"): a server that runs has a
\* thread at work on a new connection, or an accept outstanding and a thread left
\* to take it.  Only the CLI server's threads can all have been ended by
\* exceptions (out of a handler, or of a join that was refused): it goes on
\* listening then and nobody answers.
AlwaysAccepting ==
    Alive => \A s \in Servers : running[s] =>
        \/ \E i \in 1 .. ThreadCount : thread[<<s, i>>] = "accepting"
        \/ accepting[s] = "armed" /\ \E i \in 1 .. ThreadCount : thread[<<s, i>>] # "ended"
        \/ s = "cli" /\ \A i \in 1 .. ThreadCount : thread[<<s, i>>] = "ended"

----------------------------------------------------------------------------
(* The inductive invariant. *)

AllJoined(s) == \A i \in 1 .. ThreadCount : <<s, i>> \in joined

\* The acceptor of a server that runs is armed, or taken by a thread.
Accepting ==
    \A s \in Servers :
        /\ running[s] => accepting[s] # "no"
        /\ accepting[s] = "taken" => \E i \in 1 .. ThreadCount : thread[<<s, i>>] = "accepting"

\* Who may be in a call of stop, and what main is doing meanwhile.
Callers ==
    /\ \A t \in PoolThreads : stop[t].at # "out" => t[1] = "cli"
    /\ stop[Main].at # "out" <=> main = <<"stop">>
    /\ main \in ({"destroy"} \X Servers) \cup {<<"done">>} =>
            \A s \in Servers : stoppers[s] # {}
    /\ main \in {<<"destroy", "client">>, <<"done">>} => AllJoined("cli")
    /\ main = <<"stop">> /\ stop[Main].server = "cli" => stoppers["client"] # {}

\* The threads of a pool are started in their order, those of cliServer last.
Constructing(s) == {<<"start", s>>, <<"spawn", s>>}

Spawning ==
    /\ \A s \in Servers : \A i \in 1 .. ThreadCount :
        thread[<<s, i>>] # "none" => \A j \in 1 .. i - 1 : thread[<<s, j>>] # "none"
    /\ main \notin Constructing("client") =>
        \A i \in 1 .. ThreadCount : thread[<<"client", i>>] # "none"
    /\ main \in Constructing("client") \cup {<<"start", "cli">>} =>
        \A i \in 1 .. ThreadCount : thread[<<"cli", i>>] = "none"
    /\ main \notin Constructing("client") \cup Constructing("cli") =>
        \A i \in 1 .. ThreadCount : thread[<<"cli", i>>] # "none"

\* A server is stopped by those who found it running.
Unstarted(s) ==
    main \in {<<"start", "client">>, <<"start", s>>}
        \/ (main = <<"spawn", "client">> /\ s = "cli")

Stopping ==
    /\ \A s \in Servers :
        /\ running[s] <=> ~Unstarted(s) /\ stoppers[s] = {}
        /\ Unstarted(s) => stoppers[s] = {}
    /\ \A a \in Actors :
        /\ stop[a].at \in {"halt", "joinable", "join", "wait", "close"} =>
            a \in stoppers[stop[a].server]
        /\ stop[a].at = "set" => a \notin stoppers[stop[a].server]

\* A call of stop has joined every thread it is past; a thread of the CLI pool
\* that stops its own pool never gets past itself.
Looping ==
    \A a \in Actors :
        /\ stop[a].at \in {"joinable", "join", "wait"} =>
            /\ stop[a].i \in 1 .. ThreadCount + 1
            /\ \A j \in 1 .. stop[a].i - 1 : <<stop[a].server, j>> \in joined
            /\ a # Main /\ stop[a].server = "cli" => stop[a].i <= a[2]
        /\ stop[a].at \in {"join", "wait"} => stop[a].i <= ThreadCount
        /\ stop[a].at = "wait" => a # Target(a)
        /\ stop[a].at = "halt" => stop[a].i = 0
        /\ stop[a].at = "close" =>
            /\ AllJoined(stop[a].server)
            /\ a # Main => stop[a].server = "client"

\* Threads that were joined have ended.  A caller that alone stopped a server has
\* joined no thread it is not past, and goes on until all are joined, unless it
\* is a thread of the CLI pool that came to itself.
Joining ==
    /\ \A t \in joined : thread[t] = "ended" /\ stoppers[t[1]] # {}
    /\ \A a \in Actors :
        /\ stop[a].at \in {"halt", "joinable", "join", "wait"} =>
            (stoppers[stop[a].server] = {a} =>
                \A j \in 1 .. ThreadCount :
                    <<stop[a].server, j>> \in joined => j < stop[a].i)
        /\ \A s \in Servers : stoppers[s] = {a} =>
            \/ /\ stop[a].server = s
               /\ stop[a].at \in {"halt", "joinable", "join", "wait", "close"}
            \/ AllJoined(s)
            \/ s = "cli" /\ a # Main

\* Who joins the last thread of a pool closes its acceptor next.
Closing ==
    \A s \in Servers : <<s, ThreadCount>> \in joined =>
        \/ ~acceptorOpen[s]
        \/ \E a \in Actors :
            /\ stop[a].server = s
            /\ \/ stop[a].at = "close"
               \/ stop[a].at = "joinable" /\ stop[a].i = ThreadCount + 1

\* Inductive: until the process ends callers of stop keep out of each other's way
\* as far as their order of servers and of threads makes them.
IndInv ==
    /\ TypeOK
    /\ CleanExit /\ AbortOnlyBySelfStop /\ Accepting
    /\ Alive => Callers /\ Spawning /\ Stopping /\ Looping /\ Joining /\ Closing

\* A thread of the client pool ends only when its io_context was stopped, and
\* somebody who cleared the flag stopped it.  (Inductive, given IndInv.)
Ending ==
    /\ \A s \in Servers : stopped[s] => stoppers[s] # {}
    /\ \A t \in PoolThreads : thread[t] = "ended" => t[1] = "cli" \/ stopped["client"]

----------------------------------------------------------------------------
(* Liveness, and what the program claims of itself. *)

\* A shutdown that comes once the constructor has returned ends the process:
\* no two callers of stop wait for each other, whoever wins.
ShutdownEnds == asked ~> ~Alive

\* Claimed by the reply "Shutting Down...": a shutdown ends the process even if
\* it comes while the constructor is still at work.
EveryShutdownEnds == (\E t \in PoolThreads : thread[t] = "shutdown") ~> ~Alive

\* Claimed by readme.md ("Shutdown the CLI connection: shutdown"): a shutdown
\* whose handler stopped both servers, with no other caller of stop to race
\* with, and is done, does not make the process abort.
CleanShutdown ==
    \A t \in PoolThreads :
        (\A s \in Servers : stoppers[s] = {t}) /\ stop[t].at = "out" => process # "aborted"
=============================================================================
