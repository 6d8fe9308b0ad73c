--------------------------- MODULE JobPool_proofs ---------------------------
(***************************************************************************)
(* TLAPS proofs about JobPool, for any number of jobs, workers and starts. *)
(***************************************************************************)
EXTENDS JobPool, SequenceTheorems, TLAPS

(* Where a job is that has been started and not completed: with the main   *)
(* thread on its way to the queue, at a place of the queue, or with a      *)
(* worker.  It is in one of these only, and once.                          *)
OneAtATime ==
  /\ \A w \in Workers : wpc[w] \in {"run", "complete"} => wjob[w] \in Jobs
  /\ \A v, w \in Workers, j \in Jobs : Runs(v, j) /\ Runs(w, j) => v = w
  /\ \A w \in Workers, i \in 1..Len(queue) : ~Runs(w, queue[i])
  /\ \A h, i \in 1..Len(queue) : queue[h] = queue[i] => h = i
  /\ mpc = "push" => /\ \A i \in 1..Len(queue) : queue[i] # mjob
                     /\ \A w \in Workers : ~Runs(w, mjob)

StateFits ==
  /\ mpc \in {"start", "push", "reset"} => mjob \in Jobs
  /\ mpc = "start" => state[mjob] = "none"
  /\ mpc = "push" => state[mjob] = "started"
  /\ mpc = "reset" => state[mjob] = "complete"
  /\ \A i \in 1..Len(queue) : state[queue[i]] = "started"
  /\ \A w \in Workers, j \in Jobs : Runs(w, j) => state[j] = "started"

OutputFits ==
  /\ \A j \in Jobs : state[j] = "complete" => output[j] = input[j]
  /\ \A w \in Workers : wpc[w] = "complete" => output[wjob[w]] = input[wjob[w]]

IInv == TypeOK /\ OneAtATime /\ StateFits /\ OutputFits

(* Appending leaves the queue's jobs where they are, and taking one moves  *)
(* the others up.                                                          *)
LEMMA AppendAt ==
  ASSUME NEW S, NEW s \in Seq(S), NEW x \in S
  PROVE  /\ Append(s, x) \in Seq(S)
         /\ Len(Append(s, x)) = Len(s) + 1
         /\ \A i \in 1..Len(s) : Append(s, x)[i] = s[i]
         /\ Append(s, x)[Len(s) + 1] = x
BY AppendProperties

LEMMA TailAt ==
  ASSUME NEW S, NEW s \in Seq(S), s # <<>>
  PROVE  /\ Head(s) \in S /\ Head(s) = s[1]
         /\ Tail(s) \in Seq(S)
         /\ Len(s) \in Nat \ {0}
         /\ Len(Tail(s)) = Len(s) - 1
         /\ \A i \in 1..Len(Tail(s)) : i + 1 \in 1..Len(s) /\ Tail(s)[i] = s[i + 1]
BY HeadTailProperties, EmptySeq

(* The steps of the system, one by one.                                    *)
LEMMA Steps ==
  ASSUME [Next]_vars
  PROVE  \/ \E j \in Jobs : FillIn(j)
         \/ MarkStarted
         \/ Push
         \/ NotifyOne \/ NotifyAll
         \/ \E j \in Jobs : ReadResults(j)
         \/ Reset
         \/ Quit \/ StopPool \/ Join
         \/ \E j \in Jobs : DestroyJob(j)
         \/ \E w \in Workers : Idle(w) \/ SpuriousWake(w) \/ Return(w)
         \/ \E w \in Workers : Take(w)
         \/ \E w \in Workers : Run(w)
         \/ \E w \in Workers : Complete(w)
         \/ UNCHANGED vars
BY Zenon DEF Next, Main, MainStep, WorkerStep

LEMMA InitInv == Init => IInv
<1> SUFFICES ASSUME Init PROVE IInv
  OBVIOUS
<1>1. queue = <<>> /\ queue \in Seq(Jobs) /\ Len(queue) = 0
  BY EmptySeq DEF Init
<1>2. TypeOK
  BY <1>1 DEF Init, TypeOK
<1>3. OneAtATime
  BY <1>1 DEF Init, OneAtATime, Runs
<1>4. StateFits /\ OutputFits
  BY <1>1 DEF Init, StateFits, OutputFits, Runs
<1>5. QED
  BY <1>2, <1>3, <1>4 DEF IInv

(* A worker that waits, wakes or returns, and a change of place of the     *)
(* main thread that touches no job, leave all of it alone.                 *)
LEMMA Untouched ==
  ASSUME IInv,
         UNCHANGED <<state, input, output, queue, wjob>>, stop_' \in BOOLEAN,
         wpc' \in [Workers -> {"loop", "waiting", "run", "complete", "done"}],
         \A w \in Workers : wpc'[w] \in {"run", "complete"} => wpc'[w] = wpc[w],
         mpc' \in {"idle", "notify", "destroy", "notify_all", "join", "end"},
         mjob' = mjob
  PROVE  IInv'
<1> USE DEF IInv
<1>1. TypeOK'
  BY DEF TypeOK
<1>2. \A w \in Workers, j \in Jobs : Runs(w, j)' => Runs(w, j)
  BY DEF Runs
<1>3. OneAtATime'
  <2>1. \A w \in Workers, i \in 1..Len(queue) : Runs(w, queue[i])' => Runs(w, queue[i])
    BY DEF Runs
  <2>2. QED
    BY <1>2, <2>1 DEF OneAtATime
<1>4. StateFits' /\ OutputFits'
  BY <1>2 DEF StateFits, OutputFits
<1>5. QED
  BY <1>1, <1>3, <1>4

LEMMA Step == IInv /\ [Next]_vars => IInv'
<1> SUFFICES ASSUME IInv, [Next]_vars PROVE IInv'
  OBVIOUS
<1> USE DEF IInv
<1>0. /\ state \in [Jobs -> {"none", "started", "complete", "destroyed"}]
      /\ input \in [Jobs -> Nat] /\ output \in [Jobs -> Nat]
      /\ queue \in Seq(Jobs) /\ Len(queue) \in Nat
      /\ \A i \in 1..Len(queue) : queue[i] \in Jobs
      /\ wpc \in [Workers -> {"loop", "waiting", "run", "complete", "done"}]
      /\ wjob \in [Workers -> Jobs \cup {Nil}]
  BY DEF TypeOK
<1>1. ASSUME NEW j \in Jobs, FillIn(j) PROVE IInv'
  <2> USE <1>1, <1>0 DEF FillIn, Go, main, workers
  <2>1. TypeOK'
    BY DEF TypeOK
  <2>2. OneAtATime'
    BY DEF OneAtATime, Runs
  <2>3. StateFits'
    BY DEF StateFits, Runs
  <2>4. OutputFits'
    BY DEF OutputFits, StateFits, OneAtATime, Runs
  <2>5. QED
    BY <2>1, <2>2, <2>3, <2>4
<1>2. ASSUME MarkStarted PROVE IInv'
  <2> USE <1>2, <1>0 DEF MarkStarted, Go, main, workers
  <2>0. mjob \in Jobs /\ state[mjob] = "none"
    BY DEF StateFits
  <2>1. TypeOK'
    BY <2>0 DEF TypeOK
  <2>2. OneAtATime'
    BY <2>0 DEF OneAtATime, StateFits, Runs
  <2>3. StateFits'
    BY <2>0 DEF StateFits, Runs
  <2>4. OutputFits'
    BY <2>0 DEF OutputFits, Runs
  <2>5. QED
    BY <2>1, <2>2, <2>3, <2>4
<1>3. ASSUME Push PROVE IInv'
  <2> USE <1>3, <1>0 DEF Push, Go, main, workers
  <2>0. mjob \in Jobs /\ state[mjob] = "started"
    BY DEF StateFits
  <2>a. /\ queue' \in Seq(Jobs) /\ Len(queue') = Len(queue) + 1
        /\ \A i \in 1..Len(queue) : queue'[i] = queue[i]
        /\ queue'[Len(queue) + 1] = mjob
    BY <2>0, AppendAt
  <2>b. \A i \in 1..Len(queue') : i \in 1..Len(queue) \/ i = Len(queue) + 1
    BY <2>a
  <2>1. TypeOK'
    BY <2>0, <2>a DEF TypeOK
  <2>2. OneAtATime'
    <3>1. /\ UNCHANGED <<wpc, wjob>> /\ mpc = "push" /\ mpc' # "push"
          /\ \A w \in Workers, j \in Jobs : Runs(w, j)' <=> Runs(w, j)
      BY DEF Runs
    <3>2. (\A w \in Workers, i \in 1..Len(queue) : ~Runs(w, queue[i]))'
      BY <2>a, <2>b DEF OneAtATime, Runs
    <3>3. \A h, i \in 1..Len(queue') : queue'[h] = queue'[i] => h = i
      <4>1. \A i \in 1..Len(queue) : queue[i] # mjob
        BY DEF OneAtATime
      <4>2. \A h, i \in 1..Len(queue) : queue[h] = queue[i] => h = i
        BY DEF OneAtATime
      <4>3. PICK q, r, j, len : q = queue /\ r = queue' /\ j = mjob /\ len = Len(queue)
        OBVIOUS
      <4>4. /\ \A i \in 1..len : r[i] = q[i] /\ q[i] # j
            /\ \A h, i \in 1..len : q[h] = q[i] => h = i
            /\ r[len + 1] = j
        BY <2>a, <4>1, <4>2, <4>3
      <4>5. \A i \in 1..Len(r) : i \in 1..len \/ i = len + 1
        BY <2>b, <4>3
      <4>6. \A h, i \in 1..Len(r) : r[h] = r[i] => h = i
        BY <4>4, <4>5
      <4>7. QED
        BY <4>3, <4>6
    <3>4. /\ \A w \in Workers : wpc[w] \in {"run", "complete"} => wjob[w] \in Jobs
          /\ \A v, w \in Workers, j \in Jobs : Runs(v, j) /\ Runs(w, j) => v = w
      BY DEF OneAtATime
    <3>5. QED
      BY <3>1, <3>2, <3>3, <3>4 DEF OneAtATime, Runs
  <2>3. StateFits'
    BY <2>0, <2>a, <2>b DEF StateFits, Runs
  <2>4. OutputFits'
    BY DEF OutputFits, Runs
  <2>5. QED
    BY <2>1, <2>2, <2>3, <2>4
<1>4. ASSUME NotifyOne \/ NotifyAll PROVE IInv'
  <2>1. /\ wpc' \in [Workers -> {"loop", "waiting", "run", "complete", "done"}]
        /\ \A w \in Workers : wpc'[w] \in {"run", "complete"} => wpc'[w] = wpc[w]
    <3>1. CASE NotifyOne
      <4>1. CASE UNCHANGED wpc
        BY <1>0, <4>1
      <4>2. ASSUME NEW w \in Workers, wpc[w] = "waiting", wpc' = [wpc EXCEPT ![w] = "loop"]
            PROVE  /\ wpc' \in [Workers -> {"loop", "waiting", "run", "complete", "done"}]
                   /\ \A v \in Workers : wpc'[v] \in {"run", "complete"} => wpc'[v] = wpc[v]
        BY <1>0, <4>2
      <4>3. QED
        BY <3>1, <4>1, <4>2 DEF NotifyOne
    <3>2. CASE NotifyAll
      BY <1>0, <3>2 DEF NotifyAll
    <3>3. QED
      BY <1>4, <3>1, <3>2
  <2>2. stop_' \in BOOLEAN
    BY <1>4 DEF NotifyOne, NotifyAll, TypeOK
  <2>3. /\ UNCHANGED <<state, input, output, queue, wjob>> /\ mjob' = mjob
        /\ mpc' \in {"idle", "join"}
    BY <1>4 DEF NotifyOne, NotifyAll, Go
  <2>4. QED
    BY <2>1, <2>2, <2>3, Untouched
<1>5. ASSUME NEW j \in Jobs, ReadResults(j) PROVE IInv'
  <2> USE <1>5, <1>0 DEF ReadResults, Go, main, workers
  <2>1. TypeOK'
    BY DEF TypeOK
  <2>2. OneAtATime'
    BY DEF OneAtATime, Runs
  <2>3. StateFits' /\ OutputFits'
    BY DEF StateFits, OutputFits, Runs
  <2>4. QED
    BY <2>1, <2>2, <2>3
<1>6. ASSUME Reset PROVE IInv'
  <2> USE <1>6, <1>0 DEF Reset, Go, main, workers
  <2>0. mjob \in Jobs /\ state[mjob] = "complete"
    BY DEF StateFits
  <2>1. TypeOK'
    BY <2>0 DEF TypeOK
  <2>2. OneAtATime'
    BY DEF OneAtATime, Runs
  <2>3. StateFits' /\ OutputFits'
    BY <2>0 DEF StateFits, OutputFits, Runs
  <2>4. QED
    BY <2>1, <2>2, <2>3
<1>7. ASSUME Quit \/ StopPool \/ Join PROVE IInv'
  <2>1. /\ UNCHANGED <<state, input, output, queue, wpc, wjob>> /\ mjob' = mjob
        /\ mpc' \in {"destroy", "notify_all", "end"} /\ stop_' \in {stop_, TRUE}
    BY <1>7 DEF Quit, StopPool, Join, Go, workers
  <2>2. stop_' \in BOOLEAN
    BY <2>1 DEF TypeOK
  <2>3. QED
    BY <1>0, <2>1, <2>2, Untouched
<1>8. ASSUME NEW j \in Jobs, DestroyJob(j) PROVE IInv'
  <2> USE <1>8, <1>0 DEF DestroyJob, Go, main, workers
  <2>1. TypeOK'
    BY DEF TypeOK
  <2>2. OneAtATime'
    BY DEF OneAtATime, Runs
  <2>3. StateFits' /\ OutputFits'
    BY DEF StateFits, OutputFits, Runs
  <2>4. QED
    BY <2>1, <2>2, <2>3
<1>9. ASSUME NEW w \in Workers, Idle(w) \/ SpuriousWake(w) \/ Return(w) PROVE IInv'
  <2>1. /\ UNCHANGED <<state, input, output, queue, stop_, main, wjob>>
        /\ \E there \in {"waiting", "loop", "done"} : wpc' = [wpc EXCEPT ![w] = there]
    BY <1>9 DEF Idle, SpuriousWake, Return, WorkerGo
  <2> USE <2>1, <1>0 DEF main
  <2>2. \A v \in Workers, j \in Jobs : Runs(v, j)' => Runs(v, j)
    BY DEF Runs
  <2>3. TypeOK'
    BY DEF TypeOK
  <2>4. OneAtATime'
    BY DEF OneAtATime, Runs
  <2>5. StateFits' /\ OutputFits'
    BY <2>2 DEF StateFits, OutputFits
  <2>6. QED
    BY <2>3, <2>4, <2>5
<1>10. ASSUME NEW w \in Workers, Take(w) PROVE IInv'
  <2> USE <1>10, <1>0 DEF Take, WorkerGo, main
  <2>a. /\ Head(queue) \in Jobs /\ Head(queue) = queue[1]
        /\ queue' \in Seq(Jobs)
        /\ Len(queue) \in Nat \ {0}
        /\ Len(queue') = Len(queue) - 1
        /\ \A i \in 1..Len(queue') : i + 1 \in 1..Len(queue) /\ queue'[i] = queue[i + 1]
    BY TailAt
  <2>b. /\ wpc' = [wpc EXCEPT ![w] = "run"] /\ wjob' = [wjob EXCEPT ![w] = queue[1]]
        /\ queue[1] \in Jobs /\ 1 \in 1..Len(queue)
    BY <2>a
  <2>c. \A v \in Workers, j \in Jobs :
          Runs(v, j)' <=> (IF v = w THEN j = queue[1] ELSE Runs(v, j))
    BY <2>b DEF Runs
  <2>d. \A i \in 1..Len(queue') : queue'[i] \in Jobs /\ queue'[i] # queue[1]
    BY <2>a, <2>b DEF OneAtATime
  <2>1. TypeOK'
    BY <2>a, <2>b DEF TypeOK
  <2>2. OneAtATime'
    <3>1. \A v \in Workers : wpc'[v] \in {"run", "complete"} => wjob'[v] \in Jobs
      BY <2>b DEF OneAtATime
    <3>2. \A u, v \in Workers, j \in Jobs : Runs(u, j)' /\ Runs(v, j)' => u = v
      BY <2>b, <2>c DEF OneAtATime
    <3>3. (\A v \in Workers, i \in 1..Len(queue) : ~Runs(v, queue[i]))'
      <4> SUFFICES ASSUME NEW v \in Workers, NEW i \in 1..Len(queue'),
                          Runs(v, queue[i])'
                   PROVE  FALSE
        OBVIOUS
      <4>1. v # w /\ Runs(v, queue'[i])
        BY <2>c, <2>d
      <4>2. Runs(v, queue[i + 1]) /\ i + 1 \in 1..Len(queue)
        BY <4>1, <2>a
      <4>3. QED
        BY <4>2 DEF OneAtATime
    <3>4. \A h, i \in 1..Len(queue') : queue'[h] = queue'[i] => h = i
      BY <2>a DEF OneAtATime
    <3>5. mpc' # "push" \/ (/\ \A i \in 1..Len(queue') : queue'[i] # mjob'
                            /\ \A v \in Workers : ~Runs(v, mjob)')
      BY <2>a, <2>b, <2>c DEF OneAtATime, StateFits
    <3>6. QED
      BY <3>1, <3>2, <3>3, <3>4, <3>5 DEF OneAtATime
  <2>3. StateFits'
    BY <2>a, <2>b, <2>c DEF StateFits
  <2>4. OutputFits'
    BY <2>b DEF OutputFits
  <2>5. QED
    BY <2>1, <2>2, <2>3, <2>4
<1>11. ASSUME NEW w \in Workers, Run(w) PROVE IInv'
  <2> USE <1>11, <1>0 DEF Run, WorkerGo, main
  <2>0. wjob[w] \in Jobs /\ Runs(w, wjob[w]) /\ state[wjob[w]] = "started"
    BY DEF OneAtATime, StateFits, Runs
  <2>1. TypeOK'
    BY <2>0 DEF TypeOK
  <2>2. \A v \in Workers : \A j : Runs(v, j)' <=> Runs(v, j)
    BY DEF Runs
  <2>3. OneAtATime'
    BY <2>0, <2>2 DEF OneAtATime
  <2>4. StateFits'
    BY <2>2 DEF StateFits
  <2>5. OutputFits'
    BY <2>0 DEF OutputFits, OneAtATime, Runs
  <2>6. QED
    BY <2>1, <2>3, <2>4, <2>5
<1>12. ASSUME NEW w \in Workers, Complete(w) PROVE IInv'
  <2> USE <1>12, <1>0 DEF Complete, WorkerGo, main
  <2>0. wjob[w] \in Jobs /\ Runs(w, wjob[w]) /\ state[wjob[w]] = "started"
    BY DEF OneAtATime, StateFits, Runs
  <2>1. TypeOK'
    BY <2>0 DEF TypeOK
  <2>2. \A v \in Workers : \A j : Runs(v, j)' => v # w /\ Runs(v, j)
    BY DEF Runs
  <2>3. OneAtATime'
    BY <2>2 DEF OneAtATime, Runs
  <2>4. StateFits'
    <3>1. \A i \in 1..Len(queue) : queue[i] # wjob[w]
      BY <2>0 DEF OneAtATime
    <3>2. \A v \in Workers, j \in Jobs : Runs(v, j)' => j # wjob[w]
      BY <2>0, <2>2 DEF OneAtATime
    <3>3. QED
      BY <2>0, <2>2, <3>1, <3>2 DEF StateFits, OneAtATime
  <2>5. OutputFits'
    BY <2>0 DEF OutputFits
  <2>6. QED
    BY <2>1, <2>3, <2>4, <2>5
<1>13. ASSUME UNCHANGED vars PROVE IInv'
  BY <1>13 DEF vars, main, workers, TypeOK, OneAtATime, StateFits, OutputFits, Runs
<1>14. QED
  BY <1>1, <1>2, <1>3, <1>4, <1>5, <1>6, <1>7, <1>8, <1>9, <1>10, <1>11, <1>12, <1>13, Steps

LEMMA Invariance == Spec => []IInv
BY InitInv, Step, PTL DEF Spec

(* Every variable stays in its type.                                       *)
THEOREM TypeCorrect == Spec => []TypeOK
<1>1. IInv => TypeOK
  BY DEF IInv
<1>2. QED
  BY <1>1, Invariance, PTL

(* pointcloud_job.cpp:27-78: a job that a worker runs is started, is not   *)
(* destroyed, and no other worker runs it.                                 *)
THEOREM WorkerOwnsItsJob == Spec => []WorkerOwnsJob
<1>1. IInv => WorkerOwnsJob
  BY DEF IInv, OneAtATime, StateFits, WorkerOwnsJob
<1>2. QED
  BY <1>1, Invariance, PTL

(* job_state.cpp:5-30: the CHECKs of start(), complete() and reset() hold. *)
THEOREM NoCheckFails == Spec => []ChecksHold
<1>1. IInv => ChecksHold
  BY DEF IInv, OneAtATime, StateFits, ChecksHold, Runs
<1>2. QED
  BY <1>1, Invariance, PTL

(* pointcloud_job.cpp:80-90: the results that are read belong to the input *)
(* of the last start().                                                    *)
THEOREM ResultsBelong == Spec => []ResultsAreCurrent
<1>1. IInv => ResultsAreCurrent
  BY DEF IInv, StateFits, OutputFits, ResultsAreCurrent
<1>2. QED
  BY <1>1, Invariance, PTL

=============================================================================
