---------------------------- MODULE JobQueue_proofs ----------------------------
(***************************************************************************)
(* Safety of the job queue for every set of ids and of pushing threads,    *)
(* and the proof that it implements CoalescingQueue.                       *)
(***************************************************************************)
EXTENDS JobQueue, TLAPS

USE DEF HandlerAt

LEMMA NoIdIsId == NoId \in Ids
BY IdsAssumption DEF NoId

\* The initial state satisfies the inductive invariant.
LEMMA InitIInv == Init => IInv
<1> SUFFICES ASSUME Init PROVE IInv
  OBVIOUS
<1>1. DOMAIN queue = {}
  BY DEF Init
<1>2. QED
  BY <1>1, NoIdIsId
  DEF Init, IInv, TypeOK, NoLostWakeup, BlocksOnEmpty, RunningIdReserved

-------------------------------------------------------------------------------
\* What the handler does with the map it has left: it takes a job of that map,
\* tests the predicate again, or is done.
LEMMA GoOnCases ==
  ASSUME NEW q, GoOn(q)
  PROVE  \/ \E i \in DOMAIN q : handler' = [at |-> "run", job |-> i]
         \/ DOMAIN q = {} /\ handler' = [handler EXCEPT !.at = "check"]
         \/ DOMAIN q = {} /\ handler' = [handler EXCEPT !.at = "done"]
BY DEF GoOn, TakeFront, TestStop, HandlerGoes

\* Each step of the handler preserves the invariant.
LEMMA HandlerIInv == IInv /\ HandlerNext => IInv'
<1> SUFFICES ASSUME IInv, HandlerNext PROVE IInv'
  OBVIOUS
<1> USE DEF IInv, TypeOK
<1>1. CASE HandlerStarts
  BY <1>1
  DEF HandlerStarts, TestStop, HandlerGoes, NoLostWakeup, BlocksOnEmpty,
      RunningIdReserved
<1>2. CASE CheckPredicate
  <2>1. UNCHANGED <<queue, stop, push, second, owner>>
    BY <1>2 DEF CheckPredicate
  <2>2. CASE DOMAIN queue # {} \/ stop
    BY <1>2, <2>1, <2>2, GoOnCases
    DEF CheckPredicate, NoLostWakeup, BlocksOnEmpty, RunningIdReserved
  <2>3. CASE ~(DOMAIN queue # {} \/ stop)
    BY <1>2, <2>1, <2>3
    DEF CheckPredicate, HandlerGoes, NoLostWakeup, BlocksOnEmpty, RunningIdReserved
  <2>4. QED
    BY <2>2, <2>3
<1>3. CASE Block
  BY <1>3 DEF Block, HandlerGoes, NoLostWakeup, BlocksOnEmpty, RunningIdReserved
<1>4. CASE Reacquire
  BY <1>4 DEF Reacquire, HandlerGoes, NoLostWakeup, BlocksOnEmpty, RunningIdReserved
<1>5. CASE RunJob
  BY <1>5 DEF RunJob, HandlerGoes, NoLostWakeup, BlocksOnEmpty, RunningIdReserved
<1>6. CASE EraseJob
  <2> DEFINE rest == [i \in DOMAIN queue \ {handler.job} |-> queue[i]]
  <2>1. queue' = rest /\ GoOn(rest) /\ UNCHANGED <<stop, push, second, owner>>
    BY <1>6 DEF EraseJob
  <2>2. DOMAIN rest \subseteq Ids /\ \A i \in DOMAIN rest : rest[i] \in Pushers
    OBVIOUS
  <2> HIDE DEF rest
  <2>3. QED
    BY <2>1, <2>2, GoOnCases DEF NoLostWakeup, BlocksOnEmpty, RunningIdReserved
<1>7. QED
  BY <1>1, <1>2, <1>3, <1>4, <1>5, <1>6 DEF HandlerNext
-------------------------------------------------------------------------------
\* Each step of a pusher preserves the invariant: it changes the map only with
\* queueMutex free, and has the notification before it when it does.
LEMMA PusherIInv ==
  ASSUME IInv, NEW p \in Pushers, NEW i \in Ids,
         LookForId(p, i) \/ Emplace(p) \/ NotifyOne(p)
  PROVE  IInv'
<1> USE DEF IInv, TypeOK, MutexHeld
<1>1. CASE LookForId(p, i)
  BY <1>1
  DEF LookForId, PusherGoes, NoLostWakeup, BlocksOnEmpty, RunningIdReserved
<1>2. CASE Emplace(p)
  <2>1. push[p].id \in Ids
    OBVIOUS
  <2>2. /\ DOMAIN queue' = DOMAIN queue \cup {push[p].id}
        /\ \A j \in DOMAIN queue' : queue'[j] \in Pushers
    BY <1>2, <2>1 DEF Emplace, EmplacedBy
  <2>3. push' = [push EXCEPT ![p] = [at |-> "notify", id |-> push[p].id]]
    BY <1>2 DEF Emplace, PusherGoes
  <2>4. push'[p].at = "notify"
    BY <2>3
  <2>5. handler.at \notin {"check", "block"}
        /\ UNCHANGED <<stop, handler, second, owner>>
    BY <1>2 DEF Emplace
  <2>6. TypeOK'
    BY <2>1, <2>2, <2>3, <2>5
  <2>7. QED
    BY <2>2, <2>4, <2>5, <2>6 DEF NoLostWakeup, BlocksOnEmpty, RunningIdReserved
<1>3. CASE NotifyOne(p)
  <2>1. NoId \in Ids
    BY NoIdIsId
  <2>2. QED
    BY <1>3, <2>1
    DEF NotifyOne, PusherGoes, HandlerGoes, NoLostWakeup, BlocksOnEmpty,
        RunningIdReserved
<1>4. QED
  BY <1>1, <1>2, <1>3

\* The destructor, the guard and a spurious wakeup preserve the invariant.
LEMMA OwnerIInv ==
  ASSUME IInv, SpuriousWakeup \/ SetStop \/ NotifyAll \/ Join \/ ShutdownGuard
  PROVE  IInv'
BY DEF IInv, TypeOK, NoLostWakeup, BlocksOnEmpty, RunningIdReserved,
       SpuriousWakeup, SetStop, NotifyAll, Join, ShutdownGuard, HandlerGoes

LEMMA StepIInv == IInv /\ [Next]_vars => IInv'
<1> SUFFICES ASSUME IInv, [Next]_vars PROVE IInv'
  OBVIOUS
<1>1. CASE UNCHANGED vars
  BY <1>1
  DEF IInv, TypeOK, NoLostWakeup, BlocksOnEmpty, RunningIdReserved, vars
<1>2. CASE Next
  <2>1. CASE Ended
    BY <1>1, <2>1 DEF Ended
  <2>2. CASE HandlerNext
    BY <2>2, HandlerIInv
  <2>3. CASE \E p \in Pushers, i \in Ids : LookForId(p, i)
    BY <2>3, PusherIInv
  <2>4. CASE \E p \in Pushers : Emplace(p) \/ NotifyOne(p)
    BY <2>4, PusherIInv, NoIdIsId
  <2>5. CASE SpuriousWakeup \/ SetStop \/ NotifyAll \/ Join \/ ShutdownGuard
    BY <2>5, OwnerIInv
  <2>6. QED
    BY <1>2, <2>1, <2>2, <2>3, <2>4, <2>5 DEF Next
<1>3. QED
  BY <1>1, <1>2

\* The inductive invariant holds in every behaviour, for every set of ids and
\* any number of pushing threads (queue.cpp:5-39).
THEOREM QueueInvariant == Spec => []IInv
BY InitIInv, StepIInv, PTL DEF Spec

\* No push is lost to a handler that sleeps (queue.cpp:10, 34-38).
THEOREM NoWakeupIsLost == Spec => []NoLostWakeup
<1>1. IInv => NoLostWakeup
  BY DEF IInv
<1>2. QED
  BY <1>1, QueueInvariant, PTL
-------------------------------------------------------------------------------
\* How a step changes the map: not at all, by erasing the job that ran, or by
\* emplacing an id with queueMutex free.
LEMMA MapSteps ==
  ASSUME [Next]_vars
  PROVE  \/ UNCHANGED queue
         \/ EraseJob
         \/ \E p \in Pushers : Emplace(p)
<1>1. CASE HandlerNext
  BY <1>1
  DEF HandlerNext, HandlerStarts, CheckPredicate, Block, Reacquire, RunJob
<1>2. CASE \E p \in Pushers, i \in Ids : LookForId(p, i)
  BY <1>2 DEF LookForId
<1>3. CASE \E p \in Pushers : Emplace(p) \/ NotifyOne(p)
  BY <1>3 DEF NotifyOne
<1>4. CASE SpuriousWakeup \/ SetStop \/ NotifyAll \/ Join \/ ShutdownGuard \/ Ended
  BY <1>4
  DEF SpuriousWakeup, SetStop, NotifyAll, Join, ShutdownGuard, Ended, vars
<1>5. CASE UNCHANGED vars
  BY <1>5 DEF vars
<1>6. QED
  BY <1>1, <1>2, <1>3, <1>4, <1>5 DEF Next

\* The function stored first under an id is the one that runs (queue.cpp:26-35).
THEOREM StoredFunctionsStay == Spec => FirstPushWins
<1>1. [Next]_vars
        => [\A i \in DOMAIN queue \cap DOMAIN queue' : queue'[i] = queue[i]]_vars
  <2> SUFFICES ASSUME [Next]_vars, NEW i \in DOMAIN queue \cap DOMAIN queue'
               PROVE  queue'[i] = queue[i]
    OBVIOUS
  <2>1. CASE UNCHANGED queue
    BY <2>1
  <2>2. CASE EraseJob
    BY <2>2 DEF EraseJob
  <2>3. CASE \E p \in Pushers : Emplace(p)
    BY <2>3 DEF Emplace, EmplacedBy
  <2>4. QED
    BY <2>1, <2>2, <2>3, MapSteps
<1>2. QED
  BY <1>1, PTL DEF Spec, FirstPushWins

\* A handler that has begun to serve leaves handle() with an empty map only
\* (queue.cpp:8-11).
THEOREM HandlerDrainsFirst == Spec => NoJobAbandoned
<1>1. IInv /\ [Next]_vars
        => [handler.at # "start" /\ handler.at # "done" /\ handler'.at = "done"
              => DOMAIN queue' = {}]_vars
  <2> SUFFICES ASSUME TypeOK, Next, handler.at # "start", handler.at # "done",
                      handler'.at = "done"
               PROVE  DOMAIN queue' = {}
    BY DEF vars, IInv
  <2> USE DEF TypeOK
  <2>1. CASE CheckPredicate
    BY <2>1, GoOnCases DEF CheckPredicate, HandlerGoes
  <2>2. CASE EraseJob
    <3> DEFINE rest == [i \in DOMAIN queue \ {handler.job} |-> queue[i]]
    <3>1. queue' = rest /\ GoOn(rest)
      BY <2>2 DEF EraseJob
    <3> HIDE DEF rest
    <3>2. QED
      BY <3>1, GoOnCases
  <2>3. CASE HandlerStarts \/ Block \/ Reacquire \/ RunJob
    BY <2>3 DEF HandlerStarts, Block, Reacquire, RunJob, HandlerGoes
  <2>4. CASE \/ \E p \in Pushers, i \in Ids : LookForId(p, i)
             \/ \E p \in Pushers : Emplace(p) \/ NotifyOne(p)
    BY <2>4 DEF LookForId, Emplace, NotifyOne, HandlerGoes
  <2>5. CASE SpuriousWakeup \/ SetStop \/ NotifyAll \/ Join \/ ShutdownGuard \/ Ended
    BY <2>5 DEF SpuriousWakeup, SetStop, NotifyAll, Join, ShutdownGuard,
                Ended, HandlerGoes, vars
  <2>6. QED
    BY <2>1, <2>2, <2>3, <2>4, <2>5 DEF Next, HandlerNext
<1>2. QED
  BY <1>1, QueueInvariant, PTL DEF Spec, NoJobAbandoned
-------------------------------------------------------------------------------
\* The abstract state in terms of the queue's.
Running == IF handler.at \in {"run", "relock"} THEN {handler.job} ELSE {}

\* Taking the front of q is taking the smallest pending id.
LEMMA GoOnTakesFirst ==
  ASSUME TypeOK, NEW q, GoOn(q)
  PROVE  IF DOMAIN q = {} THEN Running' = {}
         ELSE \E i \in DOMAIN q : (\A j \in DOMAIN q : i <= j) /\ Running' = {i}
<1>1. CASE DOMAIN q # {}
  BY <1>1 DEF GoOn, TakeFront, Running
<1>2. CASE DOMAIN q = {}
  BY <1>2 DEF GoOn, TestStop, HandlerGoes, Running, TypeOK
<1>3. QED
  BY <1>1, <1>2

\* Steps that neither touch the map nor take or drop a job change nothing that
\* the coalescing queue knows of.
LEMMA Stutters ==
  ASSUME TypeOK,
         \/ UNCHANGED vars \/ Ended
         \/ HandlerStarts \/ Block \/ Reacquire \/ RunJob
         \/ \E p \in Pushers, i \in Ids : LookForId(p, i)
         \/ \E p \in Pushers : NotifyOne(p)
         \/ SpuriousWakeup \/ SetStop \/ NotifyAll \/ Join \/ ShutdownGuard
  PROVE  UNCHANGED <<DOMAIN queue, Running>>
<1> USE DEF TypeOK, Running, HandlerGoes
<1>1. CASE HandlerStarts \/ Block \/ Reacquire \/ RunJob \/ SpuriousWakeup
  BY <1>1 DEF HandlerStarts, TestStop, Block, Reacquire, RunJob, SpuriousWakeup
<1>2. CASE \E p \in Pushers : NotifyOne(p)
  BY <1>2 DEF NotifyOne
<1>3. CASE \/ \E p \in Pushers, i \in Ids : LookForId(p, i)
           \/ SetStop \/ NotifyAll \/ Join \/ ShutdownGuard
  BY <1>3 DEF LookForId, SetStop, NotifyAll, Join, ShutdownGuard
<1>4. CASE UNCHANGED vars \/ Ended
  BY <1>4 DEF Ended, vars
<1>5. QED
  BY <1>1, <1>2, <1>3, <1>4

\* Every step of the queue is a step of the coalescing queue or a stutter.
LEMMA StepRefines ==
  ASSUME IInv, [Next]_vars
  PROVE  [Abstract!Next]_(Abstract!cqVars)
<1> USE DEF Abstract!cqVars
<1>1. CASE CheckPredicate
  <2>1. Running = {} /\ UNCHANGED queue
    BY <1>1 DEF CheckPredicate, Running
  <2>2. CASE DOMAIN queue # {}
    <3>1. GoOn(queue)
      BY <1>1, <2>2 DEF CheckPredicate
    <3>2. \E i \in DOMAIN queue :
            (\A j \in DOMAIN queue : i <= j) /\ Running' = {i}
      BY <2>2, <3>1, GoOnTakesFirst DEF IInv
    <3>3. Abstract!Start
      BY <2>1, <2>2, <3>2 DEF Abstract!Start, Abstract!TakesFirst, Running
    <3>4. QED
      BY <3>3 DEF Abstract!Next
  <2>3. CASE DOMAIN queue = {}
    <3>1. Running' = {}
      BY <1>1, <2>3, GoOnTakesFirst
      DEF CheckPredicate, HandlerGoes, Running, IInv, TypeOK
    <3>2. QED
      BY <2>1, <3>1 DEF Running
  <2>4. QED
    BY <2>2, <2>3
<1>2. CASE EraseJob
  <2> DEFINE rest == [i \in DOMAIN queue \ {handler.job} |-> queue[i]]
  <2>1. Running = {handler.job} /\ queue' = rest /\ GoOn(rest)
    BY <1>2 DEF EraseJob, Running
  <2>2. DOMAIN rest = DOMAIN queue \ Running
    BY <2>1
  <2> HIDE DEF rest
  <2>3. IF DOMAIN rest = {} THEN Running' = {}
        ELSE \E i \in DOMAIN rest :
               (\A j \in DOMAIN rest : i <= j) /\ Running' = {i}
    BY <2>1, GoOnTakesFirst DEF IInv
  <2>4. Abstract!Finish
    BY <2>1, <2>2, <2>3 DEF Abstract!Finish, Abstract!TakesFirst, Running
  <2>5. QED
    BY <2>4 DEF Abstract!Next
<1>3. CASE \E p \in Pushers : Emplace(p)
  <2>1. PICK p \in Pushers : Emplace(p)
    BY <1>3
  <2>2. push[p].id \in Ids
    BY DEF IInv, TypeOK
  <2>3. Abstract!Request(push[p].id)
    BY <2>1 DEF Emplace, EmplacedBy, Abstract!Request
  <2>4. QED
    BY <2>2, <2>3 DEF Abstract!Next
<1>4. CASE ~(CheckPredicate \/ EraseJob \/ \E p \in Pushers : Emplace(p))
  <2>1. UNCHANGED <<DOMAIN queue, Running>>
    BY <1>4, Stutters DEF IInv, Next, HandlerNext
  <2>2. QED
    BY <2>1 DEF Running
<1>5. QED
  BY <1>1, <1>2, <1>3, <1>4

\* The queue implements the coalescing queue: requests for a waiting or running
\* job are absorbed, jobs run one at a time, smallest id first (queue.cpp:5-39).
THEOREM QueueCoalesces == Spec => CoalescesRequests
<1>1. Init => Abstract!Init
  <2>1. Init => DOMAIN queue = {}
    BY DEF Init
  <2>2. QED
    BY <2>1 DEF Init, Abstract!Init
<1>2. QED
  BY <1>1, StepRefines, QueueInvariant, PTL
  DEF Spec, CoalescesRequests, Abstract!Spec

===============================================================================
