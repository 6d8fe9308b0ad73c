--------------------------- MODULE StopAll_proofs ---------------------------
(***************************************************************************)
(* TLAPS proofs about StopAll, for any number of workers, callers and      *)
(* signals.                                                                *)
(***************************************************************************)
EXTENDS StopAll, SequenceTheorems, TLAPS

(* Appending leaves the earlier callbacks where they are.                  *)
LEMMA AppendAt ==
  ASSUME NEW S, NEW s \in Seq(S), NEW x \in S
  PROVE  /\ Append(s, x) \in Seq(S)
         /\ Len(Append(s, x)) = Len(s) + 1
         /\ \A i \in 1..Len(s) : Append(s, x)[i] = s[i]
         /\ Append(s, x)[Len(s) + 1] = x
BY AppendProperties

(* The steps of the system, one by one.                                    *)
LEMMA Steps ==
  ASSUME [Next]_vars
  PROVE  \/ \E w \in Workers : Register(w)
         \/ \E w \in Workers :
              Unlock(w) \/ TestFlag(w) \/ ReadClosed(w) \/ ReadMessage(w)
         \/ \E s \in Signals, t \in Threads : Deliver(s, t)
         \/ \E c \in Callers : Begin(c)
         \/ \E e \in Executions : StoreFlag(e)
         \/ \E e \in Executions : Lock(e)
         \/ \E e \in Executions : RunCallback(e)
         \/ \E e \in Executions : Finish(e)
         \/ UNCHANGED vars
BY Zenon DEF Next, WorkerStep, ExecutionStep

LEMMA InitType == Init => TypeOK
<1> SUFFICES ASSUME Init PROVE TypeOK
  OBVIOUS
<1>1. on_stop_all_ \in Seq(Workers)
  BY DEF Init
<1>2. ran \in [Workers -> Nat]
  BY DEF Init
<1>3. on \in [Signals -> Threads \cup {None}]
  BY DEF Init
<1>4. /\ wpc \in [Workers -> {"start", "registered", "test", "reading", "done"}]
      /\ epc \in [Executions -> {"idle", "store", "lock", "run", "done"}]
  BY DEF Init
<1>5. next \in Nat \ {0}
  BY DEF Init
<1>6. QED
  BY <1>1, <1>2, <1>3, <1>4, <1>5, Zenon DEF Init, TypeOK

LEMMA TypeStep == TypeOK /\ [Next]_vars => TypeOK'
<1> SUFFICES ASSUME TypeOK, [Next]_vars PROVE TypeOK'
  OBVIOUS
<1> USE DEF TypeOK, Threads, Executions
<1>1. ASSUME NEW w \in Workers, Register(w) PROVE TypeOK'
  BY <1>1, AppendAt DEF Register, WorkerGo, flags
<1>2. ASSUME NEW w \in Workers, Unlock(w) \/ TestFlag(w) \/ ReadClosed(w) \/ ReadMessage(w)
      PROVE  TypeOK'
  <2>1. CASE Unlock(w)
    BY <2>1 DEF Unlock, WorkerGo, flags
  <2>2. CASE TestFlag(w)
    BY <2>2 DEF TestFlag, WorkerGo, flags
  <2>3. CASE ReadClosed(w) \/ ReadMessage(w)
    BY <2>3 DEF ReadClosed, ReadMessage, WorkerGo, flags
  <2>4. QED
    BY <1>2, <2>1, <2>2, <2>3
<1>3. ASSUME NEW s \in Signals, NEW t \in Threads, Deliver(s, t) PROVE TypeOK'
  BY <1>3 DEF Deliver
<1>4. ASSUME NEW c \in Callers, Begin(c) PROVE TypeOK'
  BY <1>4 DEF Begin, ExecutionGo, flags
<1>5. ASSUME NEW e \in Executions, StoreFlag(e) \/ Lock(e) PROVE TypeOK'
  <2>1. CASE StoreFlag(e)
    BY <2>1 DEF StoreFlag, ExecutionGo
  <2>2. CASE Lock(e)
    BY <2>2 DEF Lock, ExecutionGo, flags
  <2>3. QED
    BY <1>5, <2>1, <2>2
<1>6. ASSUME NEW e \in Executions, RunCallback(e) PROVE TypeOK'
  <2>1. next \in 1..Len(on_stop_all_) /\ on_stop_all_[next] \in Workers
    BY <1>6 DEF RunCallback
  <2>2. QED
    BY <1>6, <2>1 DEF RunCallback, ExecutionGo, flags
<1>7. ASSUME NEW e \in Executions, Finish(e) PROVE TypeOK'
  BY <1>7 DEF Finish, ExecutionGo, flags
<1>8. CASE UNCHANGED vars
  BY <1>8 DEF vars
<1>9. QED
  BY <1>1, <1>2, <1>3, <1>4, <1>5, <1>6, <1>7, <1>8, Steps

(* Every variable stays in its type.                                       *)
THEOREM TypeCorrect == Spec => []TypeOK
<1>1. QED
  BY InitType, TypeStep, PTL DEF Spec

-----------------------------------------------------------------------------
(* The mutex excludes, and nobody is past the flag's store with the flag   *)
(* down.                                                                   *)
MutexInv ==
  /\ \A w \in Workers : wpc[w] = "registered" <=> mutex = w
  /\ \A e \in Executions : epc[e] = "run" <=> mutex = e
  /\ \A e \in Executions : epc[e] \in {"lock", "run", "done"} => stop_

(* The list holds each callback once, in front of `next' those that the    *)
(* loop in progress has run.                                               *)
Iterating == mutex \in Executions

ListInv ==
  /\ \A w \in Workers : wpc[w] = "start" => ~Registered(w) /\ ran[w] = 0
  /\ \A w \in Workers : ran[w] <= 1
  /\ \A i, j \in 1..Len(on_stop_all_) :
       on_stop_all_[i] = on_stop_all_[j] => i = j
  /\ \A i \in 1..Len(on_stop_all_) :
       IF Iterating /\ i < next
       THEN on_stop_all_[i] \in closed
       ELSE ran[on_stop_all_[i]] = 0

(* A worker is on the list or closed from its registration on, and the     *)
(* execution that will close it is under way when it reads all the same.   *)
StrandInv ==
  /\ \A w \in Workers : wpc[w] # "start" /\ w \notin closed => Registered(w)
  /\ \A w \in Workers : stop_ /\ wpc[w] = "reading" /\ w \notin closed =>
       \E e \in Executions : epc[e] \in {"lock", "run"}

IInv == TypeOK /\ MutexInv /\ ListInv /\ StrandInv

LEMMA MutexStep == IInv /\ [Next]_vars => MutexInv'
<1> SUFFICES ASSUME IInv, [Next]_vars PROVE MutexInv'
  OBVIOUS
<1> USE DistinctAssumption DEF IInv, TypeOK, MutexInv, Executions
<1>1. ASSUME NEW w \in Workers,
             Register(w) \/ Unlock(w) \/ TestFlag(w) \/ ReadClosed(w) \/ ReadMessage(w)
      PROVE  MutexInv'
  BY <1>1 DEF Register, Unlock, TestFlag, ReadClosed, ReadMessage, WorkerGo, flags
<1>2. ASSUME NEW s \in Signals, NEW t \in Threads, Deliver(s, t) PROVE MutexInv'
  BY <1>2 DEF Deliver
<1>3. ASSUME NEW c \in Callers, Begin(c) PROVE MutexInv'
  BY <1>3 DEF Begin, ExecutionGo, flags
<1>4. ASSUME NEW e \in Executions,
             StoreFlag(e) \/ Lock(e) \/ RunCallback(e) \/ Finish(e)
      PROVE  MutexInv'
  BY <1>4 DEF StoreFlag, Lock, RunCallback, Finish, ExecutionGo, flags
<1>5. CASE UNCHANGED vars
  BY <1>5 DEF vars
<1>6. QED
  BY <1>1, <1>2, <1>3, <1>4, <1>5 DEF Next, WorkerStep, ExecutionStep

(* Steps that leave the list, its counts and the buffers alone.            *)
LEMMA QuietStep ==
  ASSUME IInv,
         UNCHANGED <<on_stop_all_, closed, ran>>,
         Iterating' => Iterating /\ next' = next,
         Iterating => Iterating' \/ next = 1,
         \A w \in Workers : wpc'[w] = "start" => wpc[w] = "start"
  PROVE  ListInv'
BY DEF IInv, TypeOK, ListInv, Iterating, Registered

LEMMA IStep == IInv /\ [Next]_vars => IInv'
<1> SUFFICES ASSUME IInv, [Next]_vars PROVE IInv'
  OBVIOUS
<1>1. TypeOK' /\ MutexInv'
  BY TypeStep, MutexStep DEF IInv
<1>2. ASSUME NEW w \in Workers, Register(w) PROVE ListInv' /\ StrandInv'
  <2>1. /\ on_stop_all_ \in Seq(Workers) /\ wpc[w] = "start" /\ ~Registered(w)
        /\ on_stop_all_' = Append(on_stop_all_, w) /\ ran[w] = 0
        /\ wpc'[w] = "registered"
        /\ \A v \in Workers \ {w} : wpc'[v] = wpc[v]
        /\ UNCHANGED <<closed, ran, epc, next, stop_>>
    BY <1>2 DEF Register, WorkerGo, flags, IInv, TypeOK, ListInv
  <2>0. ~Iterating /\ ~Iterating'
    BY <1>2, DistinctAssumption DEF Register, Iterating, Executions
  <2>2. /\ Len(on_stop_all_') = Len(on_stop_all_) + 1
        /\ \A i \in 1..Len(on_stop_all_) : on_stop_all_'[i] = on_stop_all_[i]
        /\ on_stop_all_'[Len(on_stop_all_) + 1] = w
        /\ Len(on_stop_all_) \in Nat
    BY <2>1, AppendAt
  <2>3. \A v \in Workers : Registered(v)' <=> Registered(v) \/ v = w
    BY <2>2 DEF Registered
  <2>4. ListInv'
    <3>1. \A i \in 1..Len(on_stop_all_) : on_stop_all_[i] # w
      BY <2>1 DEF Registered
    <3>2. QED
      BY <2>0, <2>1, <2>2, <2>3, <3>1 DEF IInv, ListInv
  <2>5. StrandInv'
    BY <2>1, <2>3 DEF IInv, StrandInv
  <2>6. QED
    BY <2>4, <2>5
<1>3. ASSUME NEW w \in Workers,
             Unlock(w) \/ TestFlag(w) \/ ReadClosed(w) \/ ReadMessage(w)
      PROVE  ListInv' /\ StrandInv'
  <2>1. /\ UNCHANGED <<on_stop_all_, closed, ran, epc, next, stop_>>
        /\ wpc[w] # "start" /\ wpc'[w] # "start"
        /\ \A v \in Workers \ {w} : wpc'[v] = wpc[v]
        /\ wpc'[w] = "reading" => ~stop_
    BY <1>3
       DEF Unlock, TestFlag, ReadClosed, ReadMessage, WorkerGo, flags, IInv, TypeOK
  <2>0. Iterating' <=> Iterating
    BY <1>3, DistinctAssumption
       DEF Unlock, TestFlag, ReadClosed, ReadMessage, WorkerGo, IInv, MutexInv,
           Iterating, Executions
  <2>2. ListInv'
    BY <2>0, <2>1, QuietStep
  <2>3. QED
    BY <2>1, <2>2 DEF IInv, StrandInv, Registered
<1>4. ASSUME NEW s \in Signals, NEW t \in Threads, Deliver(s, t)
      PROVE  ListInv' /\ StrandInv'
  <2>1. /\ UNCHANGED <<on_stop_all_, closed, ran, wpc, next, stop_, mutex>>
        /\ \A e \in Executions :
             epc[e] \in {"lock", "run"} => epc'[e] = epc[e]
    BY <1>4 DEF Deliver, IInv, TypeOK, Executions
  <2>2. ListInv'
    BY <2>1, QuietStep DEF Iterating
  <2>3. QED
    BY <2>1, <2>2 DEF IInv, StrandInv, Registered
<1>5. ASSUME NEW c \in Callers, Begin(c) PROVE ListInv' /\ StrandInv'
  <2>1. /\ UNCHANGED <<on_stop_all_, closed, ran, wpc, next, stop_, mutex>>
        /\ \A e \in Executions :
             epc[e] \in {"lock", "run"} => epc'[e] = epc[e]
    BY <1>5 DEF Begin, ExecutionGo, flags, IInv, TypeOK, Executions
  <2>2. ListInv'
    BY <2>1, QuietStep DEF Iterating
  <2>3. QED
    BY <2>1, <2>2 DEF IInv, StrandInv, Registered
<1>6. ASSUME NEW e \in Executions, StoreFlag(e) PROVE ListInv' /\ StrandInv'
  <2>1. /\ UNCHANGED <<on_stop_all_, closed, ran, wpc, next, mutex>>
        /\ epc'[e] = "lock"
    BY <1>6 DEF StoreFlag, ExecutionGo, IInv, TypeOK
  <2>2. ListInv'
    BY <2>1, QuietStep DEF Iterating
  <2>3. QED
    BY <2>1, <2>2 DEF IInv, StrandInv, Registered
<1>7. ASSUME NEW e \in Executions, Lock(e) PROVE ListInv' /\ StrandInv'
  <2>1. /\ UNCHANGED <<on_stop_all_, closed, ran, wpc, stop_>>
        /\ epc'[e] = "run" /\ ~Iterating /\ next' = 1
    BY <1>7, DistinctAssumption
       DEF Lock, ExecutionGo, flags, IInv, TypeOK, Iterating, Executions
  <2>2. ListInv'
    BY <2>1 DEF IInv, ListInv, Registered
  <2>3. QED
    BY <2>1, <2>2 DEF IInv, StrandInv, Registered
<1>8. ASSUME NEW e \in Executions, RunCallback(e) PROVE ListInv' /\ StrandInv'
  <2> DEFINE w == on_stop_all_[next]
  <2>1. /\ next \in 1..Len(on_stop_all_) /\ w \in Workers /\ Len(on_stop_all_) \in Nat
        /\ closed' = closed \cup {w} /\ ran' = [ran EXCEPT ![w] = @ + 1]
        /\ ran \in [Workers -> Nat] /\ on_stop_all_ \in Seq(Workers)
        /\ next' = next + 1
        /\ UNCHANGED <<on_stop_all_, stop_, mutex, wpc>>
        /\ epc'[e] = "run"
        /\ Iterating /\ Iterating'
    BY <1>8 DEF RunCallback, ExecutionGo, flags, IInv, TypeOK, MutexInv, Iterating
  <2>2. ran[w] = 0 /\ wpc[w] # "start"
    BY <2>1 DEF IInv, ListInv, Registered
  <2>3. \A i \in 1..Len(on_stop_all_) : i # next => on_stop_all_[i] # w
    BY <2>1 DEF IInv, ListInv
  <2>4. ListInv'
    <3> HIDE DEF w
    <3>1. \A v \in Workers : ran'[v] = IF v = w THEN ran[v] + 1 ELSE ran[v]
      BY <2>1
    <3>2. \A i \in 1..Len(on_stop_all_) : on_stop_all_[i] \in Workers
      BY <2>1
    <3>3. \A i \in 1..Len(on_stop_all_) :
            IF i < next' THEN on_stop_all_[i] \in closed' ELSE ran'[on_stop_all_[i]] = 0
      BY <2>1, <2>3, <3>1, <3>2 DEF IInv, ListInv, w
    <3>4. QED
      BY <2>1, <2>2, <3>1, <3>3 DEF IInv, ListInv, Registered
  <2>5. StrandInv'
    <3> HIDE DEF w
    <3>1. QED
      BY <2>1 DEF IInv, StrandInv, Registered
  <2>6. QED
    BY <2>4, <2>5
<1>9. ASSUME NEW e \in Executions, Finish(e) PROVE ListInv' /\ StrandInv'
  <2>1. /\ on_stop_all_' = <<>> /\ next > Len(on_stop_all_) /\ next \in Nat
        /\ on_stop_all_ \in Seq(Workers)
        /\ UNCHANGED <<closed, ran, wpc, next, stop_>> /\ Iterating
    BY <1>9 DEF Finish, ExecutionGo, flags, IInv, TypeOK, MutexInv, Iterating
  <2>2. \A w \in Workers : Registered(w) => w \in closed
    BY <2>1 DEF IInv, ListInv, Registered
  <2>3. \A w \in Workers : wpc[w] # "start" => w \in closed
    BY <2>2 DEF IInv, StrandInv
  <2>4. Len(on_stop_all_') = 0
    BY <2>1
  <2>5. QED
    BY <2>1, <2>3, <2>4 DEF IInv, ListInv, StrandInv, Registered
<1>10. CASE UNCHANGED vars
  <2>1. ListInv'
    BY <1>10, QuietStep DEF vars, Iterating
  <2>2. QED
    BY <1>1, <1>10, <2>1 DEF vars, IInv, StrandInv, Registered
<1>11. ListInv' /\ StrandInv'
  BY <1>2, <1>3, <1>4, <1>5, <1>6, <1>7, <1>8, <1>9, <1>10, Steps DEF IInv
<1>12. QED
  BY <1>1, <1>11 DEF IInv

LEMMA IAlways == Spec => []IInv
<1>1. Init => IInv
  <2> SUFFICES ASSUME Init PROVE IInv
    OBVIOUS
  <2>1. MutexInv
    BY DistinctAssumption DEF Init, MutexInv, Executions
  <2>2. Len(on_stop_all_) = 0
    BY DEF Init
  <2>3. ListInv /\ StrandInv
    BY <2>2 DEF Init, ListInv, StrandInv, Registered
  <2>4. QED
    BY <2>1, <2>3, InitType DEF IInv
<1>2. QED
  BY <1>1, IStep, PTL DEF Spec

(* No worker is left blocked on an open buffer once stop_all() is through. *)
THEOREM NobodyIsStranded == Spec => []NoStrandedWorker
<1>1. IInv => NoStrandedWorker
  BY DEF IInv, StrandInv, NoStrandedWorker
<1>2. QED
  BY <1>1, IAlways, PTL

(* No callback runs twice, whoever calls stop_all() and how often.         *)
THEOREM NoCallbackRunsTwice == Spec => []CallbacksRunOnce
<1>1. IInv => CallbacksRunOnce
  BY DEF IInv, ListInv, CallbacksRunOnce
<1>2. QED
  BY <1>1, IAlways, PTL

=============================================================================
