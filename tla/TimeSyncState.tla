--------------------------- MODULE TimeSyncState ---------------------------
(***************************************************************************)
(* The rest of time_sync/time_sync.cpp: the four threads from init() to    *)
(* cleanup(), and how an estimate published on the topic "time_sync", by   *)
(* this process or another, reaches those who ask for it.  An estimate is  *)
(* told apart by its publisher only.                                       *)
(***************************************************************************)
EXTENDS Integers, Sequences

CONSTANTS
  Me, Others,     \* process ids: this one, and those whose messages it sees
  None,           \* no process
  TopicCapacity   \* slots of subscriber_buffer_


VARIABLES
  threads,         \* the threads that were started
  received_any_,
  topic,           \* subscriber_buffer_: the senders of what it holds
  tpc,             \* where each thread is
  sender,          \* the sender of the message in the subscriber's hand
  states,          \* the keys of process_id_to_time_sync_state_
  offset, got,     \* whose estimate is in offset_estimate_us_, and
                   \* got_first_sync_message_
  apc,             \* a caller of estimate_offset_us()
  stop, closed,    \* stop_all()'s flag; subscriber_buffer_ stopped
  main             \* init() and cleanup()

sharing == <<sender, states, offset, got>>
vars == <<threads, received_any_, topic, tpc, sharing, apc, stop, closed, main>>

Sender == Others \cup {Me}
Threads == {"send", "receive", "publish", "subscribe"}

(* With a time server's address init() starts all four threads and waits;  *)
(* without one, as start_without_time_server(), only the subscriber.       *)
Init ==
  /\ threads \in {Threads, {"subscribe"}}
  /\ main = IF "send" \in threads THEN "waiting" ELSE "running"
  /\ tpc = [t \in Threads |-> IF t = "subscribe" THEN "register" ELSE "loop"]
  /\ received_any_ = FALSE
  /\ topic = <<>> /\ sender = None
  /\ states = {} /\ offset = None /\ got = FALSE
  /\ apc = "idle"
  /\ stop = FALSE /\ closed = FALSE

-----------------------------------------------------------------------------
Go(t, here, there) ==
  /\ t \in threads /\ main # "aborted"
  /\ tpc[t] = here
  /\ tpc' = [tpc EXCEPT ![t] = there]

(* The head of a thread's loop: while (!should_stop_all()).                *)
LoopTest(t) ==
  /\ Go(t, "loop", IF stop THEN "returned" ELSE "work")
  /\ UNCHANGED <<threads, received_any_, topic, sharing, apc, stop, closed, main>>

(* A turn of the send thread, or one in which select() timed out, or in    *)
(* which process_ingest_buffer() returned nothing.                         *)
Turn(t) ==
  /\ t \in {"send", "receive", "publish"}
  /\ Go(t, "work", "loop")
  /\ UNCHANGED <<threads, received_any_, topic, sharing, apc, stop, closed, main>>

Receive ==
  /\ Go("receive", "work", "loop")
  /\ received_any_' = TRUE
  /\ UNCHANGED <<threads, topic, sharing, apc, stop, closed, main>>

(* A message that finds the subscriber's buffer full is lost.              *)
Deliver(p) ==
  topic' = IF Len(topic) = TopicCapacity THEN topic ELSE Append(topic, p)

PublishState ==
  /\ received_any_
  /\ Go("publish", "work", "loop")
  /\ Deliver(Me)
  /\ UNCHANGED <<threads, received_any_, sharing, apc, stop, closed, main>>

(* Another process, or a recording played back, publishes on the topic.    *)
OtherPublishes(p) ==
  /\ main # "aborted"
  /\ Deliver(p)
  /\ UNCHANGED <<threads, received_any_, tpc, sharing, apc, stop, closed, main>>

-----------------------------------------------------------------------------
(* run_subscribe_thread().                                                 *)
Sub(here, there) ==
  /\ Go("subscribe", here, there)
  /\ UNCHANGED <<threads, received_any_, apc, stop, closed, main>>

(* on_stop_all() and subscribe().                                          *)
Register == Sub("register", "loop") /\ UNCHANGED <<topic, sharing>>

ReadMessage ==
  /\ topic # <<>> /\ ~closed
  /\ Sub("work", "state")
  /\ sender' = Head(topic) /\ topic' = Tail(topic)
  /\ UNCHANGED <<states, offset, got>>

ReadStopped ==
  /\ closed
  /\ Sub("work", "returned")
  /\ UNCHANGED <<topic, sharing>>

(* Under process_id_to_time_sync_state_mutex_.                             *)
StoreState ==
  /\ Sub("state", IF sender = Me THEN "offset" ELSE "loop")
  /\ states' = states \cup {sender}
  /\ UNCHANGED <<topic, sender, offset, got>>

(* Mutant: the flag stored before the offset it announces.                 *)
StoreFlagFirst ==
  /\ Sub("offset", "got")
  /\ got' = TRUE
  /\ UNCHANGED <<topic, sender, states, offset>>

(* The two round trip times stored beside it are never loaded.             *)
StoreOffset ==
  /\ Sub("offset", "got")
  /\ offset' = sender
  /\ UNCHANGED <<topic, sender, states, got>>

StoreGot ==
  /\ Sub("got", "loop")
  /\ got' = TRUE
  /\ UNCHANGED <<topic, sender, states, offset>>

(* estimate_offset_us(): the flag, then the offset.                        *)
LoadGot ==
  /\ got
  /\ apc = "idle" /\ apc' = "load"
  /\ UNCHANGED <<threads, received_any_, topic, tpc, sharing, stop, closed, main>>

LoadOffset ==
  /\ apc = "load" /\ apc' = "idle"
  /\ UNCHANGED <<threads, received_any_, topic, tpc, sharing, stop, closed, main>>

-----------------------------------------------------------------------------
Main(here, there) ==
  /\ main = here /\ main' = there
  /\ UNCHANGED <<threads, received_any_, topic, tpc, sharing, apc>>

(* The rest of init(): wait for a first pong, but only for three seconds.  *)
Connected == received_any_ /\ Main("waiting", "running") /\ UNCHANGED <<stop, closed>>
TimeOut == Main("waiting", "late") /\ UNCHANGED <<stop, closed>>

(* A pong that arrives between the last look and this one still counts.    *)
Verdict ==
  /\ Main("late", IF received_any_ THEN "running" ELSE "aborted")
  /\ UNCHANGED <<stop, closed>>

(* cleanup(): stop_all() raises the flag, then runs the callbacks it finds *)
(* registered; then the threads are joined.  Mutant: no callback run.      *)
RaiseStop == Main("running", "closing") /\ stop' = TRUE /\ UNCHANGED closed

RunNoCallbacks == Main("closing", "joining") /\ UNCHANGED <<stop, closed>>
RunCallbacks ==
  /\ Main("closing", "joining")
  /\ closed' = (tpc["subscribe"] # "register")
  /\ UNCHANGED stop

Joined ==
  /\ \A t \in threads : tpc[t] = "returned"
  /\ Main("joining", "done")
  /\ UNCHANGED <<stop, closed>>

-----------------------------------------------------------------------------
Subscriber ==
  Register \/ ReadMessage \/ ReadStopped \/ StoreState \/ StoreOffset \/ StoreGot
Publisher == Receive \/ PublishState \/ \E p \in Others : OtherPublishes(p)
Caller == LoadGot \/ LoadOffset
Lifecycle == Connected \/ TimeOut \/ Verdict \/ RaiseStop \/ RunCallbacks \/ Joined

Next ==
  \/ \E t \in Threads : LoopTest(t) \/ Turn(t)
  \/ Subscriber \/ Publisher \/ Caller \/ Lifecycle

Spec == Init /\ [][Next]_vars

(* Threads keep running; select() and the sleeps return; nobody has to     *)
(* stop the process.                                                       *)
Fairness ==
  /\ \A t \in Threads : WF_vars(LoopTest(t)) /\ WF_vars(Turn(t))
  /\ WF_vars(Subscriber)
  /\ WF_vars(TimeOut \/ Verdict) /\ WF_vars(RunCallbacks \/ Joined)

-----------------------------------------------------------------------------
(* Whoever is told an offset is told one this process has published: never *)
(* the initial 0, although flag and offset are separate atomics (392-396), *)
(* and never another process's or a recording's.                           *)
OffsetIsMine == apc = "load" => offset = Me

(* init() returns or aborts, and cleanup() joins every thread that was     *)
(* started, wherever the subscriber is when its buffer is stopped.         *)
InitReturns == <>(main \notin {"waiting", "late"})
CleanupReturns == main = "closing" ~> main = "done"

=============================================================================
