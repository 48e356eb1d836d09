-------------------------- MODULE PbHandlerPoolProofs --------------------------
(***************************************************************************)
(* Proofs about the threads of the playback server, for any number of      *)
(* connections, exceptions and thread names.  The inductive invariant      *)
(* joins the two counts to the range of HANDLER_NUM, to the state of the   *)
(* service and to the tally of exceptions each thread keeps.               *)
(***************************************************************************)
EXTENDS PbHandlerPool, FiniteSetTheorems, TLAPS

Serving == {t \in Threads : thread[t] \in {"running", "left"}}

\* As long as there is work, a thread has counted no more than it has caught, and less
\* while it is in its catch.
TriesAreThrows ==
  ~OutOfWork => \A t \in Threads : /\ tries[t] <= throws[t]
                                   /\ t \in caught => tries[t] < throws[t]

\* Where the threads are: the parts that only the proof needs.
ThreadsInPlace ==
  /\ HANDLER_NUM \in {2, 3}
  /\ thread[Main] \in {"running", "left"}
  /\ failed <= 1 /\ (failed = 1 => ~accepting)
  /\ service_running => \A t \in Threads : thread[t] # "left"
  /\ stopped /\ service_running => OutOfWork
  /\ \A t \in caught : thread[t] = "running"

PoolInv ==
  /\ PoolTypeOK
  /\ SessionsCounted
  /\ HandlersCounted
  /\ ThreadsInPlace
  /\ TriesAreThrows
  /\ FatalOnlyAfterFailures

LEMMA ThreadsFinite == IsFiniteSet(Threads) /\ IsFiniteSet(Serving) /\ Main \in Threads
<1>1. IsFiniteSet(Threads)
  BY PoolAssumption, FS_AddElement DEF Threads
<1>2. QED
  BY <1>1, FS_Subset DEF Serving, Threads

LEMMA ServingCounted == HandlersCounted <=> HANDLER_NUM = Cardinality(Serving) + failed
BY DEF HandlersCounted, Serving

LEMMA InitPool == Init => PoolInv
<1> SUFFICES ASSUME Init PROVE PoolInv
  OBVIOUS
<1>1. PICK u \in Spawned : thread = [t \in Threads |-> IF t \in {Main, u} THEN "running" ELSE "none"]
  BY DEF Init
<1>2. u # Main /\ u \in Threads /\ Main \in Threads
  BY PoolAssumption DEF Threads
<1>3. Serving = {u} \cup {Main}
  BY <1>1, <1>2 DEF Serving
<1>4. Cardinality({u}) = 1 /\ IsFiniteSet({u})
  BY FS_Singleton
<1>5. Cardinality({u} \cup {Main}) = 2
  BY <1>2, <1>4, FS_AddElement
<1>6. HandlersCounted
  BY <1>3, <1>5, ServingCounted DEF Init, DEFAULT_PB_HANDLER_NUM
<1>7. PoolTypeOK
  BY <1>1 DEF Init, PoolTypeOK, DEFAULT_PB_HANDLER_NUM
<1>8. ThreadsInPlace
  BY <1>1, <1>2 DEF Init, ThreadsInPlace, DEFAULT_PB_HANDLER_NUM
<1>9. QED
  BY <1>6, <1>7, <1>8 DEF Init, PoolInv, SessionsCounted, TriesAreThrows, FatalOnlyAfterFailures

-----------------------------------------------------------------------------
(* What adding a thread and ending one do to the counts.                   *)

LEMMA CreateKeepsCount ==
  ASSUME PoolInv, create_thread_on_demand, failed' = failed
  PROVE  /\ SESSION_NUM' = SESSION_NUM + 1
         /\ HandlersCounted' /\ HANDLER_NUM' \in {2, 3}
         /\ thread' \in [Threads -> {"none", "running", "ending", "left"}]
         /\ thread'[Main] = thread[Main]
         /\ \A t \in Threads : thread'[t] # thread[t] => thread[t] = "none" /\ thread'[t] = "running"
<1>1. SESSION_NUM' = SESSION_NUM + 1
  BY DEF create_thread_on_demand
<1>2. CASE ~NeedsThread
  <2>1. UNCHANGED <<HANDLER_NUM, thread>>
    BY <1>2 DEF create_thread_on_demand
  <2>2. QED
    BY <1>1, <2>1 DEF PoolInv, PoolTypeOK, HandlersCounted, ThreadsInPlace
<1>3. CASE NeedsThread
  <2>1. PICK u \in Spawned : thread[u] = "none" /\ thread' = [thread EXCEPT ![u] = "running"]
    BY <1>3 DEF create_thread_on_demand
  <2>2. HANDLER_NUM = 2 /\ HANDLER_NUM' = 3
    BY <1>3 DEF NeedsThread, create_thread_on_demand, PoolInv, ThreadsInPlace
  <2>3. u \in Threads /\ u # Main /\ Main \in Threads
    BY PoolAssumption DEF Threads
  <2>4. Serving' = Serving \cup {u} /\ u \notin Serving
    BY <2>1, <2>3 DEF Serving, PoolInv, PoolTypeOK
  <2>5. Cardinality(Serving') = Cardinality(Serving) + 1
    BY <2>4, ThreadsFinite, FS_AddElement
  <2>6. Cardinality(Serving) \in Nat /\ failed \in Nat
    BY ThreadsFinite, FS_CardinalityType DEF PoolInv, PoolTypeOK
  <2>7. HANDLER_NUM' = Cardinality(Serving') + failed'
    BY <2>2, <2>5, <2>6, ServingCounted DEF PoolInv
  <2>8. HandlersCounted'
    BY <2>7 DEF HandlersCounted, Serving
  <2>9. QED
    BY <1>1, <2>1, <2>2, <2>3, <2>8 DEF PoolInv, PoolTypeOK
<1>4. QED
  BY <1>2, <1>3

LEMMA DestroyKeepsCount ==
  ASSUME PoolInv, NEW t \in Threads, thread[t] = "running", open > 0,
         destroy_thread_on_demand(t), failed' = failed
  PROVE  /\ SESSION_NUM' = SESSION_NUM - 1 /\ SESSION_NUM' \in Nat
         /\ HandlersCounted' /\ HANDLER_NUM' \in {2, 3}
         /\ thread' \in [Threads -> {"none", "running", "ending", "left"}]
         /\ thread'[Main] = thread[Main]
         /\ \A x \in Threads : thread'[x] # thread[x] => x = t /\ thread'[x] = "ending"
<1>1. SESSION_NUM' = SESSION_NUM - 1 /\ SESSION_NUM' \in Nat
  BY DEF destroy_thread_on_demand, PoolInv, PoolTypeOK, SessionsCounted
<1>2. CASE ~EndsThread(t)
  <2>1. UNCHANGED <<HANDLER_NUM, thread>>
    BY <1>2 DEF destroy_thread_on_demand
  <2>2. QED
    BY <1>1, <2>1 DEF PoolInv, PoolTypeOK, HandlersCounted, ThreadsInPlace
<1>3. CASE EndsThread(t)
  <2>1. thread' = [thread EXCEPT ![t] = "ending"] /\ HANDLER_NUM' = HANDLER_NUM - 1
    BY <1>3 DEF destroy_thread_on_demand
  <2>2. HANDLER_NUM = 3 /\ HANDLER_NUM' = 2 /\ t # Main
    BY <1>3, <2>1 DEF EndsThread, PoolInv, ThreadsInPlace, DEFAULT_PB_HANDLER_NUM
  <2>3. Serving' = Serving \ {t} /\ t \in Serving
    BY <2>1 DEF Serving, PoolInv, PoolTypeOK
  <2>4. Cardinality(Serving') = Cardinality(Serving) - 1
    BY <2>3, ThreadsFinite, FS_RemoveElement
  <2>5. Cardinality(Serving) \in Nat /\ failed \in Nat
    BY ThreadsFinite, FS_CardinalityType DEF PoolInv, PoolTypeOK
  <2>6. HANDLER_NUM' = Cardinality(Serving') + failed'
    BY <2>2, <2>4, <2>5, ServingCounted DEF PoolInv
  <2>7. HandlersCounted'
    BY <2>6 DEF HandlersCounted, Serving
  <2>8. QED
    BY <1>1, <2>1, <2>2, <2>7, ThreadsFinite DEF PoolInv, PoolTypeOK
<1>4. QED
  BY <1>2, <1>3

-----------------------------------------------------------------------------
(* Each action keeps PoolInv.                                              *)

LEMMA AcceptKeepsPool ==
  ASSUME PoolInv, NEW t \in Threads, HandleAccept(t)
  PROVE  PoolInv'
<1>1. /\ open' = open + 1
      /\ finishing' = finishing \ {t}
      /\ accepting /\ ~fatal
      /\ UNCHANGED <<caught, tries, throws, lost, failed, accepting, service_running, stopped, fatal>>
  BY DEF HandleAccept, MayAccept, Runs, Alive, service
<1>2. /\ SESSION_NUM' = SESSION_NUM + 1
      /\ HandlersCounted' /\ HANDLER_NUM' \in {2, 3}
      /\ thread' \in [Threads -> {"none", "running", "ending", "left"}]
      /\ thread'[Main] = thread[Main]
      /\ \A x \in Threads : thread'[x] # thread[x] => thread[x] = "none" /\ thread'[x] = "running"
  BY <1>1, CreateKeepsCount DEF HandleAccept
<1>3. PoolTypeOK' /\ SessionsCounted'
  BY <1>1, <1>2 DEF PoolInv, PoolTypeOK, SessionsCounted
<1>4. ThreadsInPlace'
  BY <1>1, <1>2 DEF PoolInv, PoolTypeOK, ThreadsInPlace, OutOfWork
<1>5. TriesAreThrows' /\ FatalOnlyAfterFailures'
  BY <1>1 DEF PoolInv, PoolTypeOK, TriesAreThrows, FatalOnlyAfterFailures, OutOfWork
<1>6. QED
  BY <1>2, <1>3, <1>4, <1>5 DEF PoolInv

\* An exception on thread t is not yet in its tally.
LEMMA ThrowsKeepsTries ==
  ASSUME PoolInv, NEW t \in Threads, t \notin caught, Throws(t), tries' = tries, OutOfWork => OutOfWork'
  PROVE  TriesAreThrows' /\ throws' \in [Threads -> Nat] /\ caught' \subseteq Threads
<1>1. throws' = [throws EXCEPT ![t] = @ + 1] /\ caught' = caught \cup {t}
  BY DEF Throws
<1>2. QED
  BY <1>1 DEF PoolInv, PoolTypeOK, TriesAreThrows

LEMMA AcceptThrowsKeepsPool ==
  ASSUME PoolInv, NEW t \in Threads, AcceptThrows(t)
  PROVE  PoolInv'
<1>1. /\ thread[t] = "running" /\ t \notin caught
      /\ finishing' = finishing \ {t}
      /\ accepting /\ accepting' = FALSE
      /\ ~fatal /\ ~fatal' /\ fatal' = fatal
      /\ Throws(t) /\ caught' = caught \cup {t}
      /\ UNCHANGED <<tries, service_running>>
      /\ stopped' = (stopped \/ OutOfWork')
  BY DEF AcceptThrows, MayAccept, Runs, Alive, Throws, StopsWhenDone
<1>f. failed = 0
  BY <1>1 DEF PoolInv, PoolTypeOK, ThreadsInPlace
<1>2. /\ failed' \in {0, 1}
      /\ open' \in {open, open + 1} /\ lost' \in {lost, lost + 1} /\ open' + lost' = open + lost + 1
      /\ SESSION_NUM' = SESSION_NUM + 1
      /\ HandlersCounted' /\ HANDLER_NUM' \in {2, 3}
      /\ thread' \in [Threads -> {"none", "running", "ending", "left"}]
      /\ thread'[Main] = thread[Main]
      /\ \A x \in Threads : thread'[x] # thread[x] => thread[x] = "none" /\ thread'[x] = "running"
  <2>1. CASE create_thread_fails /\ failed' = failed + 1 /\ lost' = lost + 1 /\ UNCHANGED open
    <3>1. HANDLER_NUM' = HANDLER_NUM + 1 /\ HANDLER_NUM = 2 /\ UNCHANGED thread /\ SESSION_NUM' = SESSION_NUM + 1
      BY <2>1 DEF create_thread_fails, NeedsThread, PoolInv, ThreadsInPlace
    <3>2. HandlersCounted'
      <4>1. Serving' = Serving /\ Cardinality(Serving) \in Nat
        BY <3>1, ThreadsFinite, FS_CardinalityType DEF Serving
      <4>2. HANDLER_NUM' = Cardinality(Serving') + failed'
        BY <1>f, <2>1, <3>1, <4>1, ServingCounted DEF PoolInv
      <4>3. QED
        BY <4>2 DEF HandlersCounted, Serving
    <3>3. QED
      BY <1>f, <2>1, <3>1, <3>2 DEF PoolInv, PoolTypeOK
  <2>2. CASE /\ create_thread_on_demand
             /\ UNCHANGED failed
             /\ \/ open' = open + 1 /\ UNCHANGED lost
                \/ lost' = lost + 1 /\ UNCHANGED open
    <3>1. /\ SESSION_NUM' = SESSION_NUM + 1
          /\ HandlersCounted' /\ HANDLER_NUM' \in {2, 3}
          /\ thread' \in [Threads -> {"none", "running", "ending", "left"}]
          /\ thread'[Main] = thread[Main]
          /\ \A x \in Threads : thread'[x] # thread[x] => thread[x] = "none" /\ thread'[x] = "running"
      BY <2>2, CreateKeepsCount
    <3>2. QED
      BY <1>f, <2>2, <3>1 DEF PoolInv, PoolTypeOK
  <2>3. QED
    BY <2>1, <2>2 DEF AcceptThrows
<1>3. TriesAreThrows' /\ throws' \in [Threads -> Nat] /\ caught' \subseteq Threads
  BY <1>1, ThrowsKeepsTries DEF OutOfWork
<1>4. PoolTypeOK' /\ SessionsCounted'
  <2>1. SessionsCounted'
    BY <1>2 DEF PoolInv, PoolTypeOK, SessionsCounted
  <2>2. stopped' \in BOOLEAN /\ fatal' \in BOOLEAN /\ finishing' \subseteq Threads
    BY <1>1 DEF PoolInv, PoolTypeOK
  <2>3. SESSION_NUM' \in Nat /\ open' \in Nat /\ lost' \in Nat
    BY <1>2 DEF PoolInv, PoolTypeOK
  <2>4. /\ HANDLER_NUM' \in Nat /\ failed' \in Nat /\ accepting' \in BOOLEAN
        /\ tries' \in [Threads -> Nat] /\ service_running' \in BOOLEAN
    <3>1. HANDLER_NUM' \in Nat /\ failed' \in Nat
      BY <1>2
    <3>2. tries' \in [Threads -> Nat] /\ service_running' \in BOOLEAN
      BY <1>1 DEF PoolInv, PoolTypeOK
    <3>3. QED
      BY <1>1, <3>1, <3>2
  <2>5. QED
    BY <1>2, <1>3, <2>1, <2>2, <2>3, <2>4 DEF PoolTypeOK
<1>5. ThreadsInPlace'
  BY <1>1, <1>2 DEF PoolInv, PoolTypeOK, ThreadsInPlace, OutOfWork
<1>6. QED
  BY <1>1, <1>2, <1>3, <1>4, <1>5 DEF PoolInv, FatalOnlyAfterFailures

LEMMA HandlerThrowsKeepsPool ==
  ASSUME PoolInv, NEW t \in Threads, HandlerThrows(t)
  PROVE  PoolInv'
<1>1. /\ thread[t] = "running" /\ t \notin caught
      /\ finishing' = finishing \ {t}
      /\ ~fatal /\ open > 0
      /\ Throws(t) /\ caught' = caught \cup {t}
      /\ UNCHANGED <<HANDLER_NUM, SESSION_NUM, thread, tries, failed, accepting, fatal, service_running>>
      /\ stopped' = (stopped \/ OutOfWork')
      /\ (open' = open /\ lost' = lost) \/ (open' = open - 1 /\ lost' = lost + 1)
  BY DEF HandlerThrows, Runs, Alive, Throws, StopsWhenDone, counters
<1>2. OutOfWork => OutOfWork'
  BY <1>1 DEF OutOfWork, PoolInv, PoolTypeOK
<1>3. TriesAreThrows' /\ throws' \in [Threads -> Nat] /\ caught' \subseteq Threads
  BY <1>1, <1>2, ThrowsKeepsTries
<1>4. PoolTypeOK' /\ SessionsCounted' /\ HandlersCounted'
  BY <1>1, <1>3 DEF PoolInv, PoolTypeOK, SessionsCounted, HandlersCounted, OutOfWork
<1>5. ThreadsInPlace'
  BY <1>1, <1>2 DEF PoolInv, PoolTypeOK, ThreadsInPlace
<1>6. QED
  BY <1>1, <1>3, <1>4, <1>5 DEF PoolInv, FatalOnlyAfterFailures

LEMMA ExitKeepsPool ==
  ASSUME PoolInv, NEW t \in Threads, ExitSession(t)
  PROVE  PoolInv'
<1>1. /\ thread[t] = "running" /\ t \notin caught
      /\ finishing' = finishing \ {t}
      /\ ~fatal /\ open > 0 /\ open' = open - 1
      /\ UNCHANGED <<caught, tries, throws, lost, failed, accepting, fatal, service_running>>
      /\ stopped' = (stopped \/ OutOfWork')
  BY DEF ExitSession, Runs, Alive, StopsWhenDone
<1>2. /\ SESSION_NUM' = SESSION_NUM - 1 /\ SESSION_NUM' \in Nat
      /\ HandlersCounted' /\ HANDLER_NUM' \in {2, 3}
      /\ thread' \in [Threads -> {"none", "running", "ending", "left"}]
      /\ thread'[Main] = thread[Main]
      /\ \A x \in Threads : thread'[x] # thread[x] => x = t /\ thread'[x] = "ending"
  BY <1>1, DestroyKeepsCount DEF ExitSession
<1>3. OutOfWork => OutOfWork'
  BY <1>1 DEF OutOfWork, PoolInv, PoolTypeOK
<1>4. PoolTypeOK' /\ SessionsCounted'
  BY <1>1, <1>2 DEF PoolInv, PoolTypeOK, SessionsCounted, OutOfWork
<1>5. ThreadsInPlace'
  BY <1>1, <1>2, <1>3 DEF PoolInv, PoolTypeOK, ThreadsInPlace
<1>6. TriesAreThrows' /\ FatalOnlyAfterFailures'
  BY <1>1, <1>3 DEF PoolInv, TriesAreThrows, FatalOnlyAfterFailures
<1>7. QED
  BY <1>2, <1>4, <1>5, <1>6 DEF PoolInv

LEMMA EndKeepsPool ==
  ASSUME PoolInv, NEW t \in Threads, ThreadEnds(t)
  PROVE  PoolInv'
<1>1. /\ thread[t] = "ending" /\ thread' = [thread EXCEPT ![t] = "none"]
      /\ tries' = [tries EXCEPT ![t] = 0] /\ throws' = [throws EXCEPT ![t] = 0]
      /\ ~fatal
      /\ UNCHANGED <<HANDLER_NUM, SESSION_NUM, caught, finishing, open, lost, failed, accepting,
                     service_running, stopped, fatal>>
  BY DEF ThreadEnds, Alive, counters, service, sessions
<1>2. \A x \in Threads : thread'[x] = IF x = t THEN "none" ELSE thread[x]
  BY <1>1 DEF PoolInv, PoolTypeOK
<1>3. Serving' = Serving /\ t \notin caught /\ t # Main
  BY <1>1, <1>2 DEF Serving, PoolInv, ThreadsInPlace
<1>4. HandlersCounted' /\ SessionsCounted'
  BY <1>1, <1>3 DEF PoolInv, HandlersCounted, Serving, SessionsCounted
<1>5. PoolTypeOK'
  BY <1>1 DEF PoolInv, PoolTypeOK
<1>6. ThreadsInPlace'
  BY <1>1, <1>2, <1>3, ThreadsFinite DEF PoolInv, PoolTypeOK, ThreadsInPlace, OutOfWork
<1>7. TriesAreThrows'
  BY <1>1, <1>3 DEF PoolInv, PoolTypeOK, TriesAreThrows, OutOfWork
<1>8. QED
  BY <1>1, <1>4, <1>5, <1>6, <1>7 DEF PoolInv, FatalOnlyAfterFailures

\* A thread whose run returns while the service is up has caught an exception, or there
\* is no work left; otherwise it leaves.
LEMMA ReturnKeepsPool ==
  ASSUME PoolInv, NEW t \in Threads, RunReturns(t)
  PROVE  PoolInv'
<1>1. /\ thread[t] = "running" /\ (stopped \/ t \in caught) /\ ~fatal
      /\ caught' = caught \ {t} /\ finishing' = finishing \ {t}
      /\ UNCHANGED <<HANDLER_NUM, SESSION_NUM, throws, open, lost, failed, accepting,
                     service_running, stopped>>
  BY DEF RunReturns, Alive, counters, sessions, service
<1>2. CASE ~service_running
  <2>1. thread' = [thread EXCEPT ![t] = "left"] /\ UNCHANGED <<tries, fatal>>
    BY <1>2 DEF RunReturns
  <2>2. \A x \in Threads : thread'[x] = IF x = t THEN "left" ELSE thread[x]
    BY <2>1 DEF PoolInv, PoolTypeOK
  <2>3. Serving' = Serving
    BY <1>1, <2>2 DEF Serving
  <2>4. HandlersCounted' /\ SessionsCounted'
    BY <1>1, <2>3 DEF PoolInv, HandlersCounted, Serving, SessionsCounted
  <2>5. PoolTypeOK'
    BY <1>1, <2>1 DEF PoolInv, PoolTypeOK
  <2>6. ThreadsInPlace'
    BY <1>1, <1>2, <2>2, ThreadsFinite DEF PoolInv, PoolTypeOK, ThreadsInPlace, OutOfWork
  <2>7. TriesAreThrows'
    BY <1>1, <2>1 DEF PoolInv, TriesAreThrows, OutOfWork
  <2>8. QED
    BY <1>1, <2>1, <2>4, <2>5, <2>6, <2>7 DEF PoolInv, FatalOnlyAfterFailures
<1>3. CASE service_running
  <2>1. tries' = [tries EXCEPT ![t] = @ + 1] /\ fatal' = (tries'[t] >= 5) /\ UNCHANGED thread
    BY <1>3 DEF RunReturns
  <2>2. OutOfWork \/ t \in caught
    BY <1>1, <1>3 DEF PoolInv, ThreadsInPlace
  <2>3. HandlersCounted' /\ SessionsCounted'
    BY <1>1, <2>1 DEF PoolInv, HandlersCounted, SessionsCounted
  <2>4. PoolTypeOK'
    BY <1>1, <2>1 DEF PoolInv, PoolTypeOK
  <2>5. ThreadsInPlace'
    BY <1>1, <1>3, <2>1 DEF PoolInv, PoolTypeOK, ThreadsInPlace, OutOfWork
  <2>6. OutOfWork \/ tries'[t] <= throws'[t]
    BY <1>1, <2>1, <2>2 DEF PoolInv, PoolTypeOK, TriesAreThrows
  <2>7. OutOfWork' = OutOfWork
    BY <1>1 DEF OutOfWork
  <2>8. TriesAreThrows'
    BY <1>1, <2>1, <2>6, <2>7 DEF PoolInv, PoolTypeOK, TriesAreThrows
  <2>9. FatalOnlyAfterFailures'
    <3>1. ASSUME fatal', ~OutOfWork PROVE \E x \in Threads : throws'[x] >= 5
      <4>1. tries'[t] >= 5 /\ tries'[t] <= throws'[t] /\ tries'[t] \in Nat /\ throws'[t] \in Nat
        BY <3>1, <2>1, <2>4, <2>6 DEF PoolTypeOK
      <4>2. throws'[t] >= 5
        BY <4>1
      <4>3. QED
        BY <4>2
    <3>2. QED
      BY <3>1, <2>7 DEF FatalOnlyAfterFailures
  <2>10. QED
    BY <2>3, <2>4, <2>5, <2>8, <2>9 DEF PoolInv
<1>4. QED
  BY <1>2, <1>3 DEF PoolInv, PoolTypeOK

LEMMA NextPool == PoolInv /\ [Next]_vars => PoolInv'
<1> SUFFICES ASSUME PoolInv, [Next]_vars PROVE PoolInv'
  OBVIOUS
<1>1. ASSUME NEW t \in Threads,
             HandleAccept(t) \/ AcceptThrows(t) \/ HandlerThrows(t) \/ ExitSession(t)
      PROVE  PoolInv'
  BY <1>1, AcceptKeepsPool, AcceptThrowsKeepsPool, HandlerThrowsKeepsPool, ExitKeepsPool
<1>2. ASSUME NEW t \in Threads, ThreadEnds(t) \/ RunReturns(t)
      PROVE  PoolInv'
  BY <1>2, EndKeepsPool, ReturnKeepsPool
<1>3. CASE SignalFlag
  BY <1>3 DEF SignalFlag, Alive, counters, loops, sessions, PoolInv, PoolTypeOK, SessionsCounted,
       HandlersCounted, ThreadsInPlace, TriesAreThrows, FatalOnlyAfterFailures, OutOfWork
<1>4. CASE SignalStop
  BY <1>4 DEF SignalStop, Alive, counters, sessions, PoolInv, PoolTypeOK, SessionsCounted,
       HandlersCounted, ThreadsInPlace, TriesAreThrows, FatalOnlyAfterFailures, OutOfWork
<1>5. CASE UNCHANGED vars
  BY <1>5 DEF vars, counters, loops, sessions, service, PoolInv, PoolTypeOK, SessionsCounted,
       HandlersCounted, ThreadsInPlace, TriesAreThrows, FatalOnlyAfterFailures, OutOfWork
<1>6. QED
  BY <1>1, <1>2, <1>3, <1>4, <1>5 DEF Next

-----------------------------------------------------------------------------
(* The theorems.                                                           *)

\* The inductive invariant holds in every reachable state.
THEOREM PoolInvariant == Spec => []PoolInv
<1>1. QED
  BY InitPool, NextPool, PTL DEF Spec

\* SESSION_NUM is the number of the sessions that are open, and of those lost to an exception.
THEOREM SessionsAlwaysCounted == Spec => []SessionsCounted
<1>1. PoolInv => SessionsCounted
  BY DEF PoolInv
<1>2. QED
  BY <1>1, PoolInvariant, PTL

\* HANDLER_NUM is the number of threads that serve, and of those that could not be created.
THEOREM HandlersAlwaysCounted == Spec => []HandlersCounted
<1>1. PoolInv => HandlersCounted
  BY DEF PoolInv
<1>2. QED
  BY <1>1, PoolInvariant, PTL

\* The server keeps its main thread and, until a signal, two threads, or one if a thread
\* could not be created.
THEOREM PoolServes == Spec => []PoolKeepsServing
<1>1. PoolInv => PoolKeepsServing
  <2> SUFFICES ASSUME PoolInv PROVE PoolKeepsServing
    OBVIOUS
  <2>1. Cardinality(Serving) >= 2 - failed
    <3>1. Cardinality(Serving) \in Nat
      BY ThreadsFinite, FS_CardinalityType
    <3>2. HANDLER_NUM = Cardinality(Serving) + failed /\ HANDLER_NUM >= 2 /\ failed \in Nat
      BY ServingCounted DEF PoolInv, PoolTypeOK, ThreadsInPlace
    <3>3. QED
      BY <3>1, <3>2
  <2>2. service_running => {t \in Threads : thread[t] = "running"} = Serving
    BY DEF Serving, PoolInv, ThreadsInPlace
  <2>3. QED
    BY <2>1, <2>2 DEF PoolInv, ThreadsInPlace, PoolKeepsServing, DEFAULT_PB_HANDLER_NUM
<1>2. QED
  BY <1>1, PoolInvariant, PTL

\* The "Fatal error" exit takes five exceptions on one thread, or a server that has no
\* work left; a shutdown alone never ends in it, whenever the signal comes.
THEOREM ShutdownIsNotFatal == Spec => []FatalOnlyAfterFailures
<1>1. PoolInv => FatalOnlyAfterFailures
  BY DEF PoolInv
<1>2. QED
  BY <1>1, PoolInvariant, PTL

\* The flag, the counters and the threads keep their type: no count falls below zero.
THEOREM PoolTypeCorrect == Spec => []PoolTypeOK
<1>1. PoolInv => PoolTypeOK
  BY DEF PoolInv
<1>2. QED
  BY <1>1, PoolInvariant, PTL
===============================================================================
