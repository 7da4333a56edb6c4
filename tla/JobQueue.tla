------------------------------- MODULE JobQueue -------------------------------
(***************************************************************************)
(* Soundux::Objects::Queue (src/helper/queue) and its end of life in main. *)
(*                                                                         *)
(* One handler thread drains a std::map of jobs.  Any thread may call      *)
(* push_unique, whose two critical sections are separate.  The destructor  *)
(* sets the stop flag and notifies WITHOUT taking queueMutex, so it can    *)
(* fall between the handler's test of the wait predicate and its blocking. *)
(* After a main loop a guard thread then ends the process; a second        *)
(* instance of the program returns before there is one and never pushes.   *)
(*                                                                         *)
(* A step is what happens under one hold of queueMutex, with one           *)
(* exception: testing the predicate and blocking are two steps, because    *)
(* the destructor does not respect the lock.  queueMutex is held across    *)
(* steps by the handler only, so it is a state function of its pc.         *)
(***************************************************************************)
EXTENDS Naturals, FiniteSets

CONSTANTS
  Ids,         \* keys jobs are pushed under
  Repeatable,  \* keys that may be pushed without end (stopAll: 0)
  Pushers      \* threads that call push_unique

ASSUME IdsAssumption == Ids \subseteq Nat /\ Ids # {}
ASSUME RepeatableAssumption == Repeatable \subseteq Ids

VARIABLES
  queue,    \* id |-> the pusher whose function was stored under it
  stop,     \* the atomic stop flag
  handler,  \* [at |-> where the handler is, job |-> the id it took]
  push,     \* push[p] = [at |-> where p is in push_unique, id |-> its argument]
  second,   \* another instance runs: main returns at once; never changes
  owner     \* main: "alive", "stopping", "joining", "exited"; "killed" by the guard

vars == <<queue, stop, handler, push, second, owner>>

NoId == CHOOSE i \in Ids : TRUE  \* an unset local

HandlerAt ==
  {"start", "check", "block", "waiting", "wake", "run", "relock", "done"}

TypeOK ==
  /\ DOMAIN queue \subseteq Ids
  /\ \A i \in DOMAIN queue : queue[i] \in Pushers
  /\ stop \in BOOLEAN
  /\ handler \in [at : HandlerAt, job : Ids]
  /\ push \in [Pushers -> [at : {"idle", "emplace", "notify"}, id : Ids]]
  /\ second \in BOOLEAN
  /\ owner \in {"alive", "stopping", "joining", "exited", "killed"}

Init ==
  /\ queue = [i \in {} |-> 0]
  /\ stop = FALSE
  /\ handler = [at |-> "start", job |-> NoId]
  /\ push = [p \in Pushers |-> [at |-> "idle", id |-> NoId]]
  /\ second \in BOOLEAN
  /\ owner = "alive"

-------------------------------------------------------------------------------
(* The handler thread: Queue::handle *)

Alive == owner \notin {"exited", "killed"}

\* Mutant: a wait that lets go of the lock before it has joined the waiters.
MutexHeldForTheTestOnly == handler.at = "check"

\* cv.wait holds queueMutex from the test of its predicate until it blocks.
MutexHeld == handler.at \in {"check", "block"}

HandlerGoes(at) == handler' = [handler EXCEPT !.at = at]

\* Mutant: *queue.rbegin().
TakeBack(q) ==
  \E i \in DOMAIN q :
    /\ \A j \in DOMAIN q : i >= j
    /\ handler' = [at |-> "run", job |-> i]

\* front = *queue.begin(): the function moves out, the entry stays.
TakeFront(q) ==
  \E i \in DOMAIN q :
    /\ \A j \in DOMAIN q : i <= j
    /\ handler' = [at |-> "run", job |-> i]

\* while (!stop): leave handle() or enter cv.wait.
TestStop == HandlerGoes(IF stop THEN "done" ELSE "check")

\* Mutant: the lock is let go between the erasure and the next job.
GoOnAfterRelock(q) == HandlerGoes("wake")

\* The inner loop takes the next job, or the outer one looks at stop.
GoOn(q) == IF DOMAIN q # {} THEN TakeFront(q) ELSE TestStop

HandlerStarts ==
  /\ handler.at = "start"
  /\ TestStop
  /\ UNCHANGED <<queue, stop, push, second, owner>>

\* Mutant: the predicate !queue.empty().
CheckPredicateOfJobs ==
  /\ handler.at = "check"
  /\ IF DOMAIN queue # {} THEN GoOn(queue) ELSE HandlerGoes("block")
  /\ UNCHANGED <<queue, stop, push, second, owner>>

\* The predicate !queue.empty() || stop, then the first test of the inner loop.
CheckPredicate ==
  /\ handler.at = "check"
  /\ IF DOMAIN queue # {} \/ stop THEN GoOn(queue) ELSE HandlerGoes("block")
  /\ UNCHANGED <<queue, stop, push, second, owner>>

\* The thread joins the waiters and releases queueMutex in one step.
Block ==
  /\ handler.at = "block"
  /\ HandlerGoes("waiting")
  /\ UNCHANGED <<queue, stop, push, second, owner>>

SpuriousWakeup ==
  /\ handler.at = "waiting"
  /\ HandlerGoes("wake")
  /\ UNCHANGED <<queue, stop, push, second, owner>>

Reacquire ==
  /\ handler.at = "wake"
  /\ HandlerGoes("check")
  /\ UNCHANGED <<queue, stop, push, second, owner>>

\* Mutant: the entry is erased before its job runs.
RunErased ==
  /\ handler.at = "run"
  /\ queue' = [i \in DOMAIN queue \ {handler.job} |-> queue[i]]
  /\ HandlerGoes("relock")
  /\ UNCHANGED <<stop, push, second, owner>>

\* front.second() runs with queueMutex released.
RunJob ==
  /\ handler.at = "run"
  /\ HandlerGoes("relock")
  /\ UNCHANGED <<queue, stop, push, second, owner>>

\* Erase the entry and, still holding queueMutex, test the loops again.
EraseJob ==
  LET rest == [i \in DOMAIN queue \ {handler.job} |-> queue[i]] IN
  /\ handler.at = "relock"
  /\ queue' = rest
  /\ GoOn(rest)
  /\ UNCHANGED <<stop, push, second, owner>>

HandlerNext ==
  HandlerStarts \/ CheckPredicate \/ Block \/ Reacquire \/ RunJob \/ EraseJob

-------------------------------------------------------------------------------
(* Queue::push_unique on thread p *)

PusherGoes(p, at, i) == push' = [push EXCEPT ![p] = [at |-> at, id |-> i]]

\* First critical section: return when the id is present.  A second instance has
\* neither a window nor a device that would push.
LookForId(p, i) ==
  /\ push[p].at = "idle"
  /\ ~second
  /\ ~MutexHeld
  /\ i \notin DOMAIN queue
  /\ PusherGoes(p, "emplace", i)
  /\ UNCHANGED <<queue, stop, handler, second, owner>>

\* std::map::emplace keeps an entry that is there.
EmplacedBy(p, i) ==
  [j \in DOMAIN queue \cup {i} |-> IF j \in DOMAIN queue THEN queue[j] ELSE p]

\* Second critical section.
Emplace(p) ==
  LET i == push[p].id IN
  /\ push[p].at = "emplace"
  /\ ~MutexHeld
  /\ queue' = EmplacedBy(p, i)
  /\ PusherGoes(p, "notify", i)
  /\ UNCHANGED <<stop, handler, second, owner>>

NotifyOne(p) ==
  /\ push[p].at = "notify"
  /\ PusherGoes(p, "idle", NoId)
  /\ IF handler.at = "waiting" THEN HandlerGoes("wake") ELSE UNCHANGED handler
  /\ UNCHANGED <<queue, stop, second, owner>>

-------------------------------------------------------------------------------
(* Queue::~Queue on the main thread, and main's shutdownGuard *)

SetStop ==
  /\ owner = "alive"
  /\ stop' = TRUE
  /\ owner' = "stopping"
  /\ UNCHANGED <<queue, handler, push, second>>

NotifyAll ==
  /\ owner = "stopping"
  /\ IF handler.at = "waiting" THEN HandlerGoes("wake") ELSE UNCHANGED handler
  /\ owner' = "joining"
  /\ UNCHANGED <<queue, stop, push, second>>

Join ==
  /\ owner = "joining"
  /\ handler.at = "done"
  /\ owner' = "exited"
  /\ UNCHANGED <<queue, stop, handler, push, second>>

\* std::_Exit(0) five seconds after main returned from its loop, whatever the
\* destructors do.
ShutdownGuard ==
  /\ ~second
  /\ owner \in {"stopping", "joining"}
  /\ owner' = "killed"
  /\ UNCHANGED <<queue, stop, handler, push, second>>

-------------------------------------------------------------------------------
Ended == ~Alive /\ UNCHANGED vars

Next ==
  \/ /\ Alive
     /\ \/ HandlerNext
        \/ SpuriousWakeup
        \/ \E p \in Pushers, i \in Ids : LookForId(p, i)
        \/ \E p \in Pushers : Emplace(p) \/ NotifyOne(p)
        \/ SetStop \/ NotifyAll \/ Join \/ ShutdownGuard
  \/ Ended

\* Threads that can run do run (pthreads); nobody has to push, to quit, or to
\* wake up without a reason.  Nothing rests on the guard: its five seconds may
\* be as long as they like.
Fairness ==
  /\ WF_vars(Alive /\ HandlerNext)
  /\ \A p \in Pushers : WF_vars(Alive /\ NotifyOne(p))
  /\ WF_vars(Alive /\ NotifyAll)
  /\ WF_vars(Alive /\ Join)

Spec == Init /\ [][Next]_vars /\ Fairness

-------------------------------------------------------------------------------
(* Properties *)

\* The handler never sleeps on a non-empty queue unless a pusher is about to
\* notify it: the two critical sections of push_unique and the notify outside
\* the lock lose no job (queue.cpp:10, 34-38).
NoLostWakeup ==
  handler.at = "waiting" /\ DOMAIN queue # {}
    => \E p \in Pushers : push[p].at = "notify"

\* The id of the job that runs stays in the map, so that a second request for
\* it is absorbed and the erasure hits its own entry (queue.cpp:13-19).
RunningIdReserved ==
  handler.at \in {"run", "relock"} => handler.job \in DOMAIN queue

\* Nothing is pushed between the handler's test and its blocking (queue.cpp:10).
BlocksOnEmpty == handler.at = "block" => DOMAIN queue = {}

\* The inductive invariant behind the safety properties: no job is lost to a
\* sleeping handler and none is duplicated while it runs (queue.cpp:5-39).
IInv == TypeOK /\ NoLostWakeup /\ BlocksOnEmpty /\ RunningIdReserved

\* A stored function is never replaced: of two threads that both found the id
\* absent, the first to emplace wins (queue.cpp:26-35).
FirstPushWins ==
  [][\A i \in DOMAIN queue \cap DOMAIN queue' : queue'[i] = queue[i]]_vars

\* The stop flag never makes a handler that has begun to serve leave accepted
\* jobs behind: it drains first (queue.cpp:8-11).
NoJobAbandoned ==
  [][handler.at # "start" /\ handler.at # "done" /\ handler'.at = "done"
       => DOMAIN queue' = {}]_vars

\* Until shutdown every accepted job runs, though a smaller repeatable id is
\* pushed again and again: erasing a job and taking the next one share one
\* hold of the lock (queue.cpp:17-19, 11-13).  The end of a sound may be pushed
\* again when its job found no entry, but not for ever.
AcceptedJobsRun ==
  (<>[]\A p \in Pushers : push[p].at = "idle" \/ push[p].id \in Repeatable)
    => \A i \in Ids : i \in DOMAIN queue ~> (i \notin DOMAIN queue \/ stop)

\* The destructor returns by itself, whatever is still queued, once nobody pushes
\* any more; unless its notification fell between the handler's test and its
\* blocking.  Only then is the guard needed, which a second instance has not
\* (queue.cpp:8-11, 47-49, main.cpp:78, 185-190).
ShutdownEnds ==
  (<>[]\A p \in Pushers : push[p].at = "idle")
    => (owner = "joining" /\ handler.at \notin {"block", "waiting"}) ~> ~Alive

\* The queue implements the coalescing queue: ids in the map are pending, the
\* id between its move out of the map entry and its erasure is running.
Abstract == INSTANCE CoalescingQueue WITH
  pending <- DOMAIN queue,
  running <- IF handler.at \in {"run", "relock"} THEN {handler.job} ELSE {}

CoalescesRequests == Abstract!Spec
===============================================================================
