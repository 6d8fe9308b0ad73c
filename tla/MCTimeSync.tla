---------------------------- MODULE MCTimeSync ----------------------------
(***************************************************************************)
(* TLC instance of the two halves of time_sync side by side: a behaviour   *)
(* is one of TimeSync or one of TimeSyncState, chosen by its first state.  *)
(* They share nothing but the moment an estimate is published.             *)
(***************************************************************************)
EXTENDS TimeSync

CONSTANTS Me, Others, None, TopicCapacity

VARIABLES half, threads, received_any_, topic, tpc, sender, states, offset, got,
          apc, stop, closed, main

State == INSTANCE TimeSyncState
shared == <<threads, received_any_, topic, tpc, sender, states, offset, got, apc, stop,
            closed, main>>

MCInit == half \in {"estimate", "share"} /\ Init /\ State!Init

Estimating == half = "estimate" /\ Next /\ UNCHANGED <<half, shared>>
Sharing == half = "share" /\ State!Next /\ UNCHANGED <<half, vars>>

MCSpec ==
  /\ MCInit /\ [][Estimating \/ Sharing]_<<half, vars, shared>>
  /\ half = "share" => State!Fairness

(* Whoever is told an offset is told one this process has published: never *)
(* the initial 0 and never another process's (time_sync.cpp:392-396).      *)
OffsetIsMine == State!OffsetIsMine

(* init() returns or aborts, and cleanup() joins every thread it started   *)
(* (time_sync.cpp:473-502).                                                *)
InitAndCleanupReturn ==
  half = "share" => State!InitReturns /\ State!CleanupReturns

=============================================================================
