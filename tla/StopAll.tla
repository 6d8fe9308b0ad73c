------------------------------ MODULE StopAll ------------------------------
(***************************************************************************)
(* app/stop_all.cpp and app/main.cpp: a process-wide stop flag, a list of  *)
(* callbacks to run when it is raised, and the SIGINT and SIGTERM handler  *)
(* that raises it.  A worker is a thread like time_sync's subscribe        *)
(* thread: it registers a callback that closes the buffer it reads, and    *)
(* then reads until the flag is up or the buffer closed.                   *)
(*                                                                         *)
(* A signal is handled on top of whatever thread it interrupts: that       *)
(* thread makes no step until the handler has returned.                    *)
(***************************************************************************)
EXTENDS Integers, Sequences

CONSTANTS
  Workers,    \* threads that register a callback and read a buffer
  Callers,    \* threads that call stop_all(), from a cleanup function
  Signals,    \* signals sent to the process, each once
  None        \* nobody

ASSUME DistinctAssumption ==
  /\ Workers \cap Callers = {} /\ Workers \cap Signals = {}
  /\ Callers \cap Signals = {}
  /\ None \notin Workers \cup Callers \cup Signals

VARIABLES
  stop_,          \* the flag
  on_stop_all_,   \* the registered callbacks, each named after its worker
  mutex,          \* on_stop_all_mutex_: who holds it
  closed,         \* the workers whose buffer has been closed
  ran,            \* how often each callback has run
  wpc,            \* the workers
  epc,            \* the executions of stop_all(): of a caller or a handler
  next,           \* the loop over on_stop_all_ of the execution in the mutex
  on,             \* the thread each signal interrupted
  killed          \* a second signal has killed the process

flags == <<stop_, killed>>
vars == <<stop_, on_stop_all_, mutex, closed, ran, wpc, epc, next, on, killed>>

Threads == Workers \cup Callers
Executions == Callers \cup Signals

Init ==
  /\ stop_ = FALSE
  /\ on_stop_all_ = <<>>
  /\ mutex = None
  /\ closed = {}
  /\ ran = [w \in Workers |-> 0]
  /\ wpc = [w \in Workers |-> "start"]
  /\ epc = [e \in Executions |-> "idle"]
  /\ next = 1
  /\ on = [s \in Signals |-> None]
  /\ killed = FALSE

-----------------------------------------------------------------------------
(* A handler is running on top of thread t.                                *)
Interrupted(t) == \E s \in Signals : on[s] = t /\ epc[s] # "done"

MayRun(t) == ~killed /\ ~Interrupted(t)

WorkerGo(w, here, there) ==
  /\ MayRun(w)
  /\ wpc[w] = here
  /\ wpc' = [wpc EXCEPT ![w] = there]

(* on_stop_all(): the lock_guard and the push_back, then the unlock.       *)
Register(w) ==
  /\ WorkerGo(w, "start", "registered")
  /\ mutex = None
  /\ mutex' = w
  /\ on_stop_all_' = Append(on_stop_all_, w)
  /\ UNCHANGED <<flags, closed, ran, epc, next, on>>

Unlock(w) ==
  /\ WorkerGo(w, "registered", "test")
  /\ mutex' = None
  /\ UNCHANGED <<flags, on_stop_all_, closed, ran, epc, next, on>>

(* Mutant: a worker that reads without a look at the flag.                 *)
TestFlagIgnored(w) ==
  /\ WorkerGo(w, "test", "reading")
  /\ UNCHANGED <<flags, on_stop_all_, mutex, closed, ran, epc, next, on>>

(* while (!should_stop_all())                                              *)
TestFlag(w) ==
  /\ WorkerGo(w, "test", IF stop_ THEN "done" ELSE "reading")
  /\ UNCHANGED <<flags, on_stop_all_, mutex, closed, ran, epc, next, on>>

(* A blocking read returns nothing once the buffer is closed.  It returns  *)
(* with a message only if one comes; the read may have passed its test of  *)
(* the closed buffer before.                                               *)
ReadClosed(w) ==
  /\ w \in closed
  /\ WorkerGo(w, "reading", "done")
  /\ UNCHANGED <<flags, on_stop_all_, mutex, closed, ran, epc, next, on>>

ReadMessage(w) ==
  /\ WorkerGo(w, "reading", "test")
  /\ UNCHANGED <<flags, on_stop_all_, mutex, closed, ran, epc, next, on>>

WorkerStep(w) == Register(w) \/ Unlock(w) \/ TestFlag(w) \/ ReadClosed(w)

-----------------------------------------------------------------------------
(* sigint_handler(): the second signal kills, the first stops everything.  *)
Deliver(s, t) ==
  /\ epc[s] = "idle"
  /\ MayRun(t)
  /\ IF stop_
     THEN killed' = TRUE /\ UNCHANGED <<epc, on>>
     ELSE /\ epc' = [epc EXCEPT ![s] = "store"]
          /\ on' = [on EXCEPT ![s] = t]
          /\ UNCHANGED killed
  /\ UNCHANGED <<stop_, on_stop_all_, mutex, closed, ran, wpc, next>>

(* A caller's own thread may be interrupted, a handler may not.            *)
ExecutionGo(e, here, there) ==
  /\ ~killed
  /\ e \in Callers => ~Interrupted(e)
  /\ epc[e] = here
  /\ epc' = [epc EXCEPT ![e] = there]

Begin(c) ==
  /\ ExecutionGo(c, "idle", "store")
  /\ UNCHANGED <<flags, on_stop_all_, mutex, closed, ran, wpc, next, on>>

StoreFlag(e) ==
  /\ ExecutionGo(e, "store", "lock")
  /\ stop_' = TRUE
  /\ UNCHANGED <<on_stop_all_, mutex, closed, ran, wpc, next, on, killed>>

Lock(e) ==
  /\ ExecutionGo(e, "lock", "run")
  /\ mutex = None
  /\ mutex' = e
  /\ next' = 1
  /\ UNCHANGED <<flags, on_stop_all_, closed, ran, wpc, on>>

RunCallback(e) ==
  /\ ExecutionGo(e, "run", "run")
  /\ next <= Len(on_stop_all_)
  /\ closed' = closed \cup {on_stop_all_[next]}
  /\ ran' = [ran EXCEPT ![on_stop_all_[next]] = @ + 1]
  /\ next' = next + 1
  /\ UNCHANGED <<flags, on_stop_all_, mutex, wpc, on>>

(* Mutants: the list of callbacks is not cleared; the mutex is kept.       *)
FinishUncleared(e) ==
  /\ ExecutionGo(e, "run", "done")
  /\ next > Len(on_stop_all_)
  /\ mutex' = None
  /\ UNCHANGED <<flags, on_stop_all_, closed, ran, wpc, next, on>>

FinishLocked(e) ==
  /\ ExecutionGo(e, "run", "done")
  /\ next > Len(on_stop_all_)
  /\ on_stop_all_' = <<>>
  /\ UNCHANGED <<flags, mutex, closed, ran, wpc, next, on>>

(* on_stop_all_.clear(), and the lock_guard's end.                         *)
Finish(e) ==
  /\ ExecutionGo(e, "run", "done")
  /\ next > Len(on_stop_all_)
  /\ on_stop_all_' = <<>>
  /\ mutex' = None
  /\ UNCHANGED <<flags, closed, ran, wpc, next, on>>

ExecutionStep(e) == StoreFlag(e) \/ Lock(e) \/ RunCallback(e) \/ Finish(e)

Next ==
  \/ \E w \in Workers : WorkerStep(w) \/ ReadMessage(w)
  \/ \E c \in Callers : Begin(c)
  \/ \E e \in Executions : ExecutionStep(e)
  \/ \E s \in Signals, t \in Threads : Deliver(s, t)

Spec == Init /\ [][Next]_vars

(* A thread that can run does run; no message need ever come, and nobody   *)
(* need call stop_all().  Each thread takes the mutex once, so that weak   *)
(* fairness gives it to whoever waits for it.                              *)
Fairness ==
  /\ \A w \in Workers : WF_vars(WorkerStep(w))
  /\ \A e \in Executions : WF_vars(ExecutionStep(e))

FairSpec == Spec /\ Fairness

-----------------------------------------------------------------------------
(* Every variable stays in its type.                                       *)
TypeOK ==
  /\ stop_ \in BOOLEAN /\ killed \in BOOLEAN
  /\ on_stop_all_ \in Seq(Workers)
  /\ mutex \in Workers \cup Executions \cup {None}
  /\ closed \subseteq Workers
  /\ ran \in [Workers -> Nat]
  /\ wpc \in [Workers -> {"start", "registered", "test", "reading", "done"}]
  /\ epc \in [Executions -> {"idle", "store", "lock", "run", "done"}]
  /\ next \in Nat \ {0}
  /\ on \in [Signals -> Threads \cup {None}]

Registered(w) == \E i \in 1..Len(on_stop_all_) : on_stop_all_[i] = w

(* Once the flag is up, a worker that blocks in its read has its buffer    *)
(* closed, or its callback is on the list and an execution of stop_all()   *)
(* that will run it is under way: registering first and looking at the     *)
(* flag afterwards leaves no gap, whatever stop_all() does in between.     *)
NoStrandedWorker ==
  \A w \in Workers : stop_ /\ wpc[w] = "reading" /\ w \notin closed =>
    Registered(w) /\ \E e \in Executions : epc[e] \in {"lock", "run"}

(* However many threads and signals call stop_all(), each callback runs at *)
(* most once.                                                              *)
CallbacksRunOnce == \A w \in Workers : ran[w] <= 1

(* A handler waits for the mutex that the thread under it holds.           *)
SelfDeadlock == \E s \in Signals : epc[s] = "lock" /\ mutex = on[s]

(* stop_all() fails in one way only: once somebody has raised the flag,    *)
(* every worker ends, a second signal kills the process, or a handler      *)
(* waits for a mutex its own thread holds.                                 *)
StopReachesWorkersOrDeadlocks ==
  stop_ ~> killed \/ SelfDeadlock \/ \A w \in Workers : wpc[w] = "done"

(* stop_all.h:12 and main.cpp:19: the callbacks are issued from whatever   *)
(* thread calls stop_all(), a signal stops the program gracefully: once    *)
(* somebody has raised the flag, every worker ends (or a second signal     *)
(* kills the process).                                                     *)
StopReachesWorkers ==
  stop_ ~> killed \/ \A w \in Workers : wpc[w] = "done"

=============================================================================
