--------------------------- MODULE CoalescingQueue ---------------------------
(***************************************************************************)
(* What the job queue (src/helper/queue) promises to the threads that use  *)
(* it.  A job is named by an id.  Asking for a job that is already waiting *)
(* or running is absorbed; the single worker always takes the smallest id, *)
(* runs one job at a time, and forgets the id only after the job has run.  *)
(* JobQueue implements this specification; AudioEngine is built on it.     *)
(***************************************************************************)
EXTENDS Naturals

CONSTANT Ids  \* the job ids: 0 for stopAll, a device address for a finished sound

VARIABLES
  pending,  \* ids of the accepted jobs, the one that runs included
  running   \* {} or the singleton of the id whose job runs

cqVars == <<pending, running>>

Init ==
  /\ pending = {}
  /\ running = {}

\* The worker takes the entry std::map::begin gives: the smallest id.
TakesFirst(ids) ==
  \E i \in ids : (\A j \in ids : i <= j) /\ running' = {i}

Request(i) ==
  /\ pending' = pending \cup {i}
  /\ UNCHANGED running

Start ==
  /\ running = {}
  /\ pending # {}
  /\ TakesFirst(pending)
  /\ UNCHANGED pending

\* The worker erases the job it ran and takes the next one without letting a
\* request in between: a repeated request cannot overtake the jobs that wait.
Finish ==
  LET rest == pending \ running IN
  /\ running # {}
  /\ pending' = rest
  /\ IF rest = {} THEN running' = {} ELSE TakesFirst(rest)

Next ==
  \/ \E i \in Ids : Request(i)
  \/ Start
  \/ Finish

Spec == Init /\ [][Next]_cqVars
==============================================================================
