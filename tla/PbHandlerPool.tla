----------------------------- MODULE PbHandlerPool -----------------------------
(***************************************************************************)
(* The threads of the playback server,                                     *)
(* src/nvr/mkv/playback/async_pb_server.cpp: the main thread and the       *)
(* detached threads of class pb_handler all run the handlers of one        *)
(* io_service.  A session that starts may add a thread to the pool, one    *)
(* that exits may end the thread its last handler runs on, and SIGTERM     *)
(* ends them all.  An exception of a handler is caught around run(), which *)
(* is then called again: the fifth on one thread ends the process.         *)
(*                                                                         *)
(* What the handlers of a session do is in module PbSession; here only the *)
(* number of sessions matters.                                             *)
(***************************************************************************)
EXTENDS Integers, FiniteSets, Functions

CONSTANTS
  Spawned,     \* names for the detached threads; that of a thread that has ended is reused
  Main,        \* main_thread_tid
  MaxSessions, \* bound: the sessions that are open, or were lost to an exception
  MaxThrows    \* bound: the exceptions the threads have caught

ASSUME PoolAssumption ==
  /\ IsFiniteSet(Spawned)
  /\ Main \notin Spawned
  /\ Spawned # {}
  /\ MaxSessions \in Nat /\ MaxThrows \in Nat

Threads == Spawned \cup {Main}

DEFAULT_PB_HANDLER_NUM == 2
SESSIONS_PER_HANDLER == 3

VARIABLES
  HANDLER_NUM,
  SESSION_NUM,
  thread,           \* none, running (in its loop), ending (out_of_range unwinds it), left
  caught,           \* the threads in catch (...): run() was left by an exception
  finishing,        \* the threads that may be in a handler since before stop()
  tries,            \* try_num of each thread
  throws,           \* history: the exceptions each thread has caught
  open,             \* the number of sessions with an operation pending
  lost,             \* history: the number of sessions released without exit_session
  failed,           \* history: the threads that could not be created
  accepting,        \* an accept is pending or its handler runs
  service_running,
  stopped,          \* the io_service is stopped: by stop(), or it ran out of work
  fatal             \* a thread called ::exit(1)

counters == <<HANDLER_NUM, SESSION_NUM>>
loops == <<thread, caught, finishing, tries, throws>>
sessions == <<open, lost, failed, accepting>>
service == <<service_running, stopped>>
vars == <<counters, loops, sessions, service, fatal>>

\* While the program runs; ::exit ends all its threads.
Alive == ~fatal

\* Thread t runs a handler: once the service is stopped, at most one that it had begun.
Runs(t) ==
  /\ Alive
  /\ thread[t] = "running" /\ t \notin caught
  /\ stopped => t \in finishing
  /\ finishing' = finishing \ {t}

\* Neither an accept nor an operation of a session is pending.
OutOfWork == ~accepting /\ open = 0

\* The io_service stops when its last piece of work is done, and nothing resets it.
StopsWhenDone == stopped' = (stopped \/ OutOfWork') /\ UNCHANGED service_running

\* An exception leaves the handler on thread t, and io_service.run.
Throws(t) ==
  /\ FoldFunction(LAMBDA a, b : a + b, 0, throws) < MaxThrows
  /\ caught' = caught \cup {t}
  /\ throws' = [throws EXCEPT ![t] = @ + 1]

-----------------------------------------------------------------------------
(* main starts one detached thread, then runs the io_service itself.       *)
Init ==
  /\ HANDLER_NUM = DEFAULT_PB_HANDLER_NUM /\ SESSION_NUM = 0
  /\ \E u \in Spawned : thread = [t \in Threads |-> IF t \in {Main, u} THEN "running" ELSE "none"]
  /\ caught = {} /\ finishing = {}
  /\ tries = [t \in Threads |-> 0] /\ throws = [t \in Threads |-> 0]
  /\ open = 0 /\ lost = 0 /\ failed = 0 /\ accepting = TRUE
  /\ service_running = TRUE /\ stopped = FALSE /\ fatal = FALSE

(* create_thread_on_demand, under create_thread_mutex_: no more than one   *)
(* thread is ever added to the default ones.                               *)
NeedsThread ==
  /\ HANDLER_NUM <= 2
  /\ SESSION_NUM + 1 > HANDLER_NUM * SESSIONS_PER_HANDLER

\* Mutant: the sessions are not counted while the pool has its third thread.
create_thread_uncounted ==
  IF HANDLER_NUM > 2
  THEN UNCHANGED <<counters, thread>>
  ELSE /\ SESSION_NUM' = SESSION_NUM + 1
       /\ IF NeedsThread
          THEN /\ HANDLER_NUM' = HANDLER_NUM + 1
               /\ \E u \in Spawned : /\ thread[u] = "none"
                                     /\ thread' = [thread EXCEPT ![u] = "running"]
          ELSE UNCHANGED <<HANDLER_NUM, thread>>

create_thread_on_demand ==
  /\ SESSION_NUM' = SESSION_NUM + 1
  /\ IF NeedsThread
     THEN /\ HANDLER_NUM' = HANDLER_NUM + 1
          /\ \E u \in Spawned : /\ thread[u] = "none"
                                /\ thread' = [thread EXCEPT ![u] = "running"]
     ELSE UNCHANGED <<HANDLER_NUM, thread>>

\* The same when boost::thread cannot create the thread: both are counted already.
create_thread_fails ==
  /\ NeedsThread
  /\ SESSION_NUM' = SESSION_NUM + 1
  /\ HANDLER_NUM' = HANDLER_NUM + 1
  /\ UNCHANGED thread

\* Mutant: the main thread is not excepted.
EndsAnyThread(t) ==
  /\ HANDLER_NUM > DEFAULT_PB_HANDLER_NUM
  /\ HANDLER_NUM * SESSIONS_PER_HANDLER > SESSION_NUM'

(* destroy_thread_on_demand, under the same mutex, on thread t: the        *)
(* exception leaves the handler and io_service.run and ends the thread.    *)
EndsThread(t) ==
  /\ HANDLER_NUM > DEFAULT_PB_HANDLER_NUM
  /\ t # Main
  /\ HANDLER_NUM * SESSIONS_PER_HANDLER > SESSION_NUM'

\* Mutant: the main thread is excepted only after it was counted out.
destroy_thread_counts_main(t) ==
  /\ SESSION_NUM' = IF SESSION_NUM - 1 < 0 THEN 0 ELSE SESSION_NUM - 1
  /\ IF EndsAnyThread(t)
     THEN /\ HANDLER_NUM' = HANDLER_NUM - 1
          /\ thread' = IF t = Main THEN thread ELSE [thread EXCEPT ![t] = "ending"]
     ELSE UNCHANGED <<HANDLER_NUM, thread>>

destroy_thread_on_demand(t) ==
  /\ SESSION_NUM' = IF SESSION_NUM - 1 < 0 THEN 0 ELSE SESSION_NUM - 1
  /\ IF EndsThread(t)
     THEN /\ HANDLER_NUM' = HANDLER_NUM - 1
          /\ thread' = [thread EXCEPT ![t] = "ending"]
     ELSE UNCHANGED <<HANDLER_NUM, thread>>

-----------------------------------------------------------------------------
(* The handlers.                                                           *)

MayAccept(t) == Runs(t) /\ accepting /\ open + lost < MaxSessions

(* Thread t runs handle_accept of a new connection: start(), then the next *)
(* start_accept().                                                         *)
HandleAccept(t) ==
  /\ MayAccept(t)
  /\ open' = open + 1
  /\ create_thread_on_demand
  /\ UNCHANGED <<caught, tries, throws, lost, failed, accepting, service, fatal>>

(* The same when the thread cannot be created, or memory runs out in       *)
(* start() or in start_accept(): no other accept is ever started.          *)
AcceptThrows(t) ==
  /\ MayAccept(t)
  /\ Throws(t)
  /\ accepting' = FALSE
  /\ \/ /\ create_thread_fails
        /\ failed' = failed + 1
        /\ lost' = lost + 1 /\ UNCHANGED open
     \/ /\ create_thread_on_demand
        /\ UNCHANGED failed
        /\ \/ open' = open + 1 /\ UNCHANGED lost
           \/ lost' = lost + 1 /\ UNCHANGED open
  /\ StopsWhenDone
  /\ UNCHANGED <<tries, fatal>>

(* Another handler of a session throws on thread t.  The session goes on   *)
(* if another operation of it is pending, and is released otherwise.       *)
HandlerThrows(t) ==
  /\ Runs(t) /\ open > 0
  /\ Throws(t)
  /\ \/ UNCHANGED <<open, lost>>
     \/ open' = open - 1 /\ lost' = lost + 1
  /\ UNCHANGED <<counters, thread, tries, failed, accepting, fatal>>
  /\ StopsWhenDone

\* Mutant: a session exits from each of its pending operations, without a floor.
ExitSessionAgain(t) ==
  /\ Runs(t) /\ open > 0
  /\ SESSION_NUM' = SESSION_NUM - 1
  /\ UNCHANGED <<HANDLER_NUM, thread, caught, tries, throws, sessions, service, fatal>>

(* Thread t runs the last handler of a session: exit_session().            *)
ExitSession(t) ==
  /\ Runs(t) /\ open > 0
  /\ open' = open - 1
  /\ destroy_thread_on_demand(t)
  /\ UNCHANGED <<caught, tries, throws, lost, failed, accepting, fatal>>
  /\ StopsWhenDone

-----------------------------------------------------------------------------
(* The loops around io_service.run, and the signal.                        *)

(* run() catches out_of_range, breaks its loop and returns.                *)
ThreadEnds(t) ==
  /\ Alive
  /\ thread[t] = "ending"
  /\ thread' = [thread EXCEPT ![t] = "none"]
  /\ tries' = [tries EXCEPT ![t] = 0] /\ throws' = [throws EXCEPT ![t] = 0]
  /\ UNCHANGED <<counters, caught, finishing, sessions, service, fatal>>

(* SignalHandler: first the flag, then the service.                        *)
SignalFlag ==
  /\ Alive
  /\ service_running
  /\ service_running' = FALSE
  /\ UNCHANGED <<counters, loops, sessions, stopped, fatal>>

\* Mutant: the service is stopped before the flag is set.
SignalStopFirst ==
  /\ Alive /\ ~stopped
  /\ stopped' = TRUE
  /\ UNCHANGED <<counters, loops, sessions, service_running, fatal>>

SignalStop ==
  /\ Alive
  /\ ~service_running /\ ~stopped
  /\ stopped' = TRUE
  /\ finishing' = {t \in Threads : thread[t] = "running"} \ caught
  /\ UNCHANGED <<counters, thread, caught, tries, throws, sessions, service_running, fatal>>

(* io_service.run returns on thread t, or an exception was caught: the     *)
(* thread leaves when the service is down and otherwise runs it again, but *)
(* ends the process the fifth time.                                        *)
\* Mutant: the flag is not looked at, the service is run again and again.
RunReturnsAgain(t) ==
  /\ Alive /\ stopped /\ thread[t] = "running" /\ tries[t] < 4
  /\ tries' = [tries EXCEPT ![t] = @ + 1]
  /\ caught' = caught \ {t}
  /\ UNCHANGED <<counters, thread, finishing, throws, sessions, service, fatal>>

RunReturns(t) ==
  /\ Alive
  /\ thread[t] = "running" /\ (stopped \/ t \in caught)
  /\ caught' = caught \ {t} /\ finishing' = finishing \ {t}
  /\ IF ~service_running
     THEN /\ thread' = [thread EXCEPT ![t] = "left"]
          /\ UNCHANGED <<tries, fatal>>
     ELSE /\ tries' = [tries EXCEPT ![t] = @ + 1]
          /\ fatal' = (tries'[t] >= 5)
          /\ UNCHANGED thread
  /\ UNCHANGED <<counters, throws, sessions, service>>

Next ==
  \/ \E t \in Threads : HandleAccept(t) \/ AcceptThrows(t) \/ HandlerThrows(t) \/ ExitSession(t)
  \/ \E t \in Threads : ThreadEnds(t) \/ RunReturns(t)
  \/ SignalFlag \/ SignalStop

(* A thread that can go on does.                                           *)
Fairness ==
  /\ WF_vars(SignalStop)
  /\ \A t \in Threads : WF_vars(ThreadEnds(t)) /\ WF_vars(RunReturns(t))

Spec == Init /\ [][Next]_vars /\ Fairness

-----------------------------------------------------------------------------
(* Properties.                                                             *)

\* The counters, the threads and the sessions are well formed.
PoolTypeOK ==
  /\ HANDLER_NUM \in Nat /\ SESSION_NUM \in Nat
  /\ thread \in [Threads -> {"none", "running", "ending", "left"}]
  /\ caught \subseteq Threads /\ finishing \subseteq Threads
  /\ tries \in [Threads -> Nat] /\ throws \in [Threads -> Nat]
  /\ open \in Nat /\ lost \in Nat /\ failed \in Nat /\ accepting \in BOOLEAN
  /\ service_running \in BOOLEAN /\ stopped \in BOOLEAN /\ fatal \in BOOLEAN

\* SESSION_NUM is the number of sessions that are open and of those that an exception
\* took along, which are never counted out; the floor at zero
\* (async_pb_server.cpp:146-147) is never needed.
SessionsCounted == SESSION_NUM = open + lost

\* HANDLER_NUM is the number of threads that serve sessions, those in their catch
\* included and one that is about to end not included, and of the threads that could
\* not be created (async_pb_server.cpp:136-138).
HandlersCounted ==
  HANDLER_NUM = Cardinality({t \in Threads : thread[t] \in {"running", "left"}}) + failed

\* The pool never loses the main thread, never has more than one thread on top of the
\* two it has started with and, until a signal, never shrinks below these; a
\* thread that could not be created costs it one of them, but no more.
PoolKeepsServing ==
  /\ HANDLER_NUM \in DEFAULT_PB_HANDLER_NUM .. DEFAULT_PB_HANDLER_NUM + 1
  /\ thread[Main] \in {"running", "left"}
  /\ failed <= 1
  /\ service_running =>
        Cardinality({t \in Threads : thread[t] = "running"}) >= DEFAULT_PB_HANDLER_NUM - failed

\* The "Fatal error" exit (async_pb_server.cpp:115-119, 803-807) is left to failures:
\* one thread has caught five exceptions since it started, or the io_service ran out of
\* work because the handler of an accept threw.  A shutdown, whose flag and stop come in
\* two steps while handlers run, throw and end threads, is never counted as a failure.
FatalOnlyAfterFailures ==
  fatal => (\E t \in Threads : throws[t] >= 5) \/ OutOfWork

\* A signal ends all the threads, those that are unwinding or in their catch too.
SignalEndsThreads == ~service_running ~> \A t \in Threads : thread[t] \in {"none", "left"}
===============================================================================
