------------------------------ MODULE JobPool ------------------------------
(***************************************************************************)
(* concurrency/job_state.cpp, realsense_streaming/pointcloud_job.cpp and   *)
(* the SimpleThreadPool they submit to: the main thread fills in the input *)
(* of a job, submits it, polls for its results between frames, and at the  *)
(* end destroys first the jobs (~JobState waits for a started job) and     *)
(* then the pool, which the jobs keep alive until then.                    *)
(*                                                                         *)
(* Every critical section of queue_mutex_ is one step; a worker in         *)
(* condition_.wait() has released the mutex and looks again only when it   *)
(* is notified or spuriously woken.  An input is told apart by the number  *)
(* of the start() it was filled in for.                                    *)
(***************************************************************************)
EXTENDS Integers, Sequences

CONSTANTS
  Jobs,       \* PointCloudJob objects, each with its JobState
  Workers,    \* threads_ of the pool
  Nil,        \* no job
  MaxStarts   \* bound: no job is started more often

ASSUME NilAssumption == Nil \notin Jobs
ASSUME BoundAssumption == MaxStarts \in Nat

VARIABLES
  state,         \* JobState::state of each job, or "destroyed"
  input, output, \* color_ and depth_; the point cloud
  queue, stop_,  \* members of the pool
  mpc, mjob,     \* the main thread, and the job it is at
  wpc, wjob      \* the workers, and the job each runs

main == <<mpc, mjob>>
workers == <<wpc, wjob>>
vars == <<state, input, output, queue, stop_, main, workers>>

Init ==
  /\ state = [j \in Jobs |-> "none"]
  /\ input = [j \in Jobs |-> 0] /\ output = [j \in Jobs |-> 0]
  /\ queue = <<>> /\ stop_ = FALSE
  /\ mpc = "idle" /\ mjob = Nil
  /\ wpc = [w \in Workers |-> "loop"] /\ wjob = [w \in Workers |-> Nil]

-----------------------------------------------------------------------------
(* The main thread.                                                        *)

Go(here, there) == mpc = here /\ mpc' = there

(* Mutant: a frame loop that does not ask is_none().                       *)
FillInUnasked(j) ==
  /\ Go("idle", "start")
  /\ state[j] # "destroyed"
  /\ input[j] < MaxStarts
  /\ input' = [input EXCEPT ![j] = @ + 1]
  /\ mjob' = j
  /\ UNCHANGED <<state, output, queue, stop_, workers>>

(* The frame loop starts a job only if is_none(), and start() copies color *)
(* and depth in.                                                           *)
FillIn(j) ==
  /\ Go("idle", "start")
  /\ state[j] = "none"
  /\ input[j] < MaxStarts
  /\ input' = [input EXCEPT ![j] = @ + 1]
  /\ mjob' = j
  /\ UNCHANGED <<state, output, queue, stop_, workers>>

(* JobState::start()                                                       *)
MarkStarted ==
  /\ Go("start", "push")
  /\ state' = [state EXCEPT ![mjob] = "started"]
  /\ UNCHANGED <<input, output, queue, stop_, mjob, workers>>

Push ==
  /\ Go("push", "notify")
  /\ queue' = Append(queue, mjob)
  /\ UNCHANGED <<state, input, output, stop_, mjob, workers>>

NotifyOne ==
  /\ Go("notify", "idle")
  /\ \/ \E w \in Workers :
          wpc[w] = "waiting" /\ wpc' = [wpc EXCEPT ![w] = "loop"]
     \/ ~(\E w \in Workers : wpc[w] = "waiting") /\ UNCHANGED wpc
  /\ UNCHANGED <<state, input, output, queue, stop_, mjob, wjob>>

(* Mutant: results read as soon as the job has been started.               *)
ReadEarly(j) ==
  /\ Go("idle", "reset")
  /\ state[j] \in {"started", "complete"}
  /\ mjob' = j
  /\ UNCHANGED <<state, input, output, queue, stop_, workers>>

(* read_results(), for a job that is_complete(): the swap of the results.  *)
ReadResults(j) ==
  /\ Go("idle", "reset")
  /\ state[j] = "complete"
  /\ mjob' = j
  /\ UNCHANGED <<state, input, output, queue, stop_, workers>>

(* JobState::reset()                                                       *)
Reset ==
  /\ Go("reset", "idle")
  /\ state' = [state EXCEPT ![mjob] = "none"]
  /\ UNCHANGED <<input, output, queue, stop_, mjob, workers>>

(* The frame loop has ended.                                               *)
Quit ==
  /\ Go("idle", "destroy")
  /\ UNCHANGED <<state, input, output, queue, stop_, mjob, workers>>

(* Mutant: a destructor that does not wait.                                *)
DestroyAtOnce(j) ==
  /\ Go("destroy", "destroy")
  /\ state[j] # "destroyed"
  /\ state' = [state EXCEPT ![j] = "destroyed"]
  /\ UNCHANGED <<input, output, queue, stop_, mjob, workers>>

(* ~JobState waits until the job is not started any more.                  *)
DestroyJob(j) ==
  /\ Go("destroy", "destroy")
  /\ state[j] \notin {"started", "destroyed"}
  /\ state' = [state EXCEPT ![j] = "destroyed"]
  /\ UNCHANGED <<input, output, queue, stop_, mjob, workers>>

(* ~SimpleThreadPool, when the last job has let go of the pool.            *)
StopPool ==
  /\ Go("destroy", "notify_all")
  /\ \A j \in Jobs : state[j] = "destroyed"
  /\ stop_' = TRUE
  /\ UNCHANGED <<state, input, output, queue, mjob, workers>>

(* Mutant: the workers are joined without being woken.                     *)
NotifyAllForgotten ==
  /\ Go("notify_all", "join")
  /\ UNCHANGED <<state, input, output, queue, stop_, mjob, workers>>

NotifyAll ==
  /\ Go("notify_all", "join")
  /\ wpc' = [w \in Workers |-> IF wpc[w] = "waiting" THEN "loop" ELSE wpc[w]]
  /\ UNCHANGED <<state, input, output, queue, stop_, mjob, wjob>>

Join ==
  /\ Go("join", "end")
  /\ \A w \in Workers : wpc[w] = "done"
  /\ UNCHANGED <<state, input, output, queue, stop_, mjob, workers>>

MainStep ==
  \/ MarkStarted \/ Push \/ NotifyOne \/ Reset
  \/ StopPool \/ NotifyAll \/ Join
  \/ \E j \in Jobs : DestroyJob(j)

Main == MainStep \/ Quit \/ \E j \in Jobs : FillIn(j) \/ ReadResults(j)

-----------------------------------------------------------------------------
(* A worker: InfiniteLoop().                                               *)

WorkerGo(w, here, there) ==
  wpc[w] = here /\ wpc' = [wpc EXCEPT ![w] = there]

(* Queue empty and pool not stopped: wait.                                 *)
Idle(w) ==
  /\ WorkerGo(w, "loop", "waiting")
  /\ queue = <<>> /\ ~stop_
  /\ UNCHANGED <<state, input, output, queue, stop_, main, wjob>>

SpuriousWake(w) ==
  /\ WorkerGo(w, "waiting", "loop")
  /\ UNCHANGED <<state, input, output, queue, stop_, main, wjob>>

Return(w) ==
  /\ WorkerGo(w, "loop", "done")
  /\ stop_
  /\ UNCHANGED <<state, input, output, queue, stop_, main, wjob>>

Take(w) ==
  /\ WorkerGo(w, "loop", "run")
  /\ queue # <<>> /\ ~stop_
  /\ wjob' = [wjob EXCEPT ![w] = Head(queue)]
  /\ queue' = Tail(queue)
  /\ UNCHANGED <<state, input, output, stop_, main>>

(* The job reads its input and writes the point cloud ...                  *)
Run(w) ==
  /\ WorkerGo(w, "run", "complete")
  /\ output' = [output EXCEPT ![wjob[w]] = input[wjob[w]]]
  /\ UNCHANGED <<state, input, queue, stop_, main, wjob>>

(* ... and JobState::complete() hands both back to the main thread.        *)
Complete(w) ==
  /\ WorkerGo(w, "complete", "loop")
  /\ state' = [state EXCEPT ![wjob[w]] = "complete"]
  /\ wjob' = [wjob EXCEPT ![w] = Nil]
  /\ UNCHANGED <<input, output, queue, stop_, main>>

WorkerStep(w) == Idle(w) \/ Return(w) \/ Take(w) \/ Run(w) \/ Complete(w)

Next == Main \/ \E w \in Workers : WorkerStep(w) \/ SpuriousWake(w)

Spec == Init /\ [][Next]_vars

(* The main thread goes on with what it has begun, each worker runs.       *)
Fairness == WF_vars(MainStep) /\ \A w \in Workers : WF_vars(WorkerStep(w))

FairSpec == Spec /\ Fairness

-----------------------------------------------------------------------------
(* Every variable stays in its type.                                       *)
TypeOK ==
  /\ state \in [Jobs -> {"none", "started", "complete", "destroyed"}]
  /\ input \in [Jobs -> Nat] /\ output \in [Jobs -> Nat]
  /\ queue \in Seq(Jobs) /\ stop_ \in BOOLEAN
  /\ mpc \in {"idle", "start", "push", "notify", "reset", "destroy",
              "notify_all", "join", "end"}
  /\ mjob \in Jobs \cup {Nil}
  /\ wpc \in [Workers -> {"loop", "waiting", "run", "complete", "done"}]
  /\ wjob \in [Workers -> Jobs \cup {Nil}]

Runs(w, j) == wpc[w] \in {"run", "complete"} /\ wjob[w] = j

(* A job that a worker runs is started, not destroyed, and run by nobody   *)
(* else: the main thread neither refills, reads nor destroys the object    *)
(* under a worker's hands.                                                 *)
WorkerOwnsJob ==
  \A w \in Workers, j \in Jobs : Runs(w, j) =>
    /\ state[j] = "started"
    /\ \A v \in Workers : Runs(v, j) => v = w

(* The CHECKs of JobState::start(), complete() and reset() hold.           *)
ChecksHold ==
  /\ mpc = "start" => state[mjob] = "none"
  /\ mpc = "reset" => state[mjob] = "complete"
  /\ \A w \in Workers : wpc[w] = "complete" => state[wjob[w]] = "started"

(* The results read are those of the last start, not of an earlier one.    *)
ResultsAreCurrent == mpc = "reset" => output[mjob] = input[mjob]

(* Every started job is completed, ...                                     *)
JobsComplete == \A j \in Jobs : state[j] = "started" ~> state[j] = "complete"

(* ... and taking the program down neither waits for a job that nobody     *)
(* runs nor joins a worker that nobody wakes.                              *)
DestructionEnds == mpc = "destroy" ~> mpc = "end"

=============================================================================
