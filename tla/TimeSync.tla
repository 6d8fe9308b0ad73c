------------------------------ MODULE TimeSync ------------------------------
(***************************************************************************)
(* time_sync/time_sync.cpp and the time server, time_sync/server.cpp: a    *)
(* process pings the server over UDP, brackets the offset between the two  *)
(* clocks with every round trip, and merges the brackets of a sliding      *)
(* window into an estimate.  TimeSyncState says what becomes of it.        *)
(*                                                                         *)
(* A ping or a pong stays in its set for ever: one that is never taken is  *)
(* lost, one taken twice is duplicated, and they are taken in any order.   *)
(* Clocks count in units; a unit stands for a microsecond and, where the   *)
(* code divides, for its share of a second or a millisecond.               *)
(***************************************************************************)
EXTENDS Integers, Sequences, FiniteSets

CONSTANTS
  UnitsPerSec,     \* 1e6 in the code
  UnitsPerMs,      \* 1000 in the code
  WindowMs,        \* Options::window_duration_sec, in milliseconds
  InitialRate,     \* clock_drift_us_per_sec at the start, 40 in the code
  IngestCapacity,  \* 39: IngestBuffer has 40 slots
  ClientStart, ServerStart,  \* the two clocks as init() is called
  MaxTime,         \* bound on the client's clock
  MaxSkew,         \* bound on how far the offset strays from where it began
  MaxPings, MaxPongs, MaxReceipts,  \* bounds on sends, replies and receipts
  MaxRate          \* bound on the rate

ASSUME UnitAssumption == UnitsPerSec \in Nat \ {0} /\ UnitsPerMs \in Nat \ {0}
ASSUME RateAssumption == InitialRate \in Nat /\ WindowMs \in Nat
ASSUME StartAssumption == ClientStart \in Nat /\ ServerStart \in Nat

VARIABLES
  client, server,  \* get_process_time_us() of this process and of the server
  pings,           \* packets under way to the server, by their send time
  pongs,           \* replies under way: [send, serv] and, a ghost, the true offset
  ingest,          \* ingest_buffer_
  receipts,        \* pongs received; received_any_ is receipts > 0
  ppc, round,      \* publish thread: where it is, when this round began
  window, drift    \* IngestContext

clocks == <<client, server>>
net == <<pings, pongs>>
publisher == <<ppc, round, window, drift>>
vars == <<clocks, net, ingest, receipts, publisher>>
true_offset == server - client

Init ==
  /\ client = ClientStart /\ server = ServerStart
  /\ pings = {} /\ pongs = {}
  /\ ingest = <<>> /\ receipts = 0
  /\ ppc = "sleep" /\ round = 0 /\ window = {} /\ drift = InitialRate

-----------------------------------------------------------------------------
(* Time passes: on both clocks, or, when they drift apart, on one of them.  *)
Tick(c, s) ==
  /\ client' = client + c /\ server' = server + s
  /\ client' <= MaxTime
  /\ server' - client' - (ServerStart - ClientStart) \in (-MaxSkew)..MaxSkew
  /\ UNCHANGED <<net, ingest, receipts, publisher>>

(* run_send_thread(): a packet holds nothing but the time it is sent.  A   *)
(* failed send only logs; between blasts the thread sleeps.                *)
SendPing ==
  /\ pings' = pings \cup {client}
  /\ Cardinality(pings') <= MaxPings
  /\ UNCHANGED <<clocks, pongs, ingest, receipts, publisher>>

(* server.cpp: the reply pairs the time in the packet with the server's.   *)
Reply(p) ==
  /\ pongs' = pongs \cup {[send |-> p, serv |-> server, off |-> true_offset]}
  /\ Cardinality(pongs') <= MaxPongs
  /\ UNCHANGED <<clocks, pings, ingest, receipts, publisher>>

(* run_receive_thread(): stamp the pong; a full ingest buffer drops it.    *)
ReceivePong(p) ==
  /\ receipts < MaxReceipts /\ receipts' = receipts + 1
  /\ ingest' = IF Len(ingest) = IngestCapacity THEN ingest
               ELSE Append(ingest, [send |-> p.send, serv |-> p.serv,
                                    recv |-> client, off |-> p.off])
  /\ UNCHANGED <<clocks, net, publisher>>

-----------------------------------------------------------------------------
(* run_publish_thread() and process_ingest_buffer().                       *)
Ms(t) == t \div UnitsPerMs

(* current_time_ms is read before the ingest buffer.                       *)
BeginRound ==
  /\ ppc = "sleep" /\ ppc' = "drain"
  /\ round' = client
  /\ UNCHANGED <<clocks, net, ingest, receipts, window, drift>>

(* TemporalSlidingWindow::add(): a sample's age counts from this round.    *)
AddSample ==
  /\ ppc = "drain"
  /\ ingest # <<>>
  /\ window' = window \cup {[at |-> Ms(round), t |-> Head(ingest)]}
  /\ ingest' = Tail(ingest)
  /\ UNCHANGED <<clocks, net, receipts, ppc, round, drift>>

(* get_min_time(), remove_old_samples().                                   *)
min_time == IF WindowMs < Ms(round) THEN Ms(round) - WindowMs ELSE 0

RemoveOldSamples ==
  /\ ppc = "drain" /\ ppc' = "estimate"
  /\ ingest = <<>> /\ round' = 0
  /\ window' = { s \in window : s.at >= min_time }
  /\ UNCHANGED <<clocks, net, ingest, receipts, drift>>

(* current_time_us, read after the buffer has been drained.  Mutant: the   *)
(* time read at the top of the function.                                   *)
current_time_at_top == round
current_time == client

(* estimated_clock_drift_us.  Mutant: subtracted where the code adds it.   *)
WideningInwards(t) ==
  -((drift * (current_time - (t.recv + t.send) \div 2)) \div UnitsPerSec)
Widening(t) == (drift * (current_time - (t.recv + t.send) \div 2)) \div UnitsPerSec

(* The bounds of one triplet, the drift correction left out.  Mutant: the  *)
(* two ends of the round trip exchanged.                                   *)
UpperSwapped(t) == t.serv - t.recv
Upper(t) == t.serv - t.send
Lower(t) == t.serv - t.recv
RoundTrip(t) == Upper(t) - Lower(t)

triplets == { s.t : s \in window }

(* The merged bounds and the observed round trip of a non-empty window.    *)
Merged(lb, ub, rtt) ==
  /\ \E t \in triplets : lb = Lower(t) - Widening(t)
  /\ \E t \in triplets : ub = Upper(t) + Widening(t)
  /\ \E t \in triplets : rtt = RoundTrip(t)
  /\ \A t \in triplets : /\ Lower(t) - Widening(t) <= lb
                         /\ ub <= Upper(t) + Widening(t)
                         /\ rtt <= RoundTrip(t)

(* int64_t division rounds towards zero.                                   *)
Half(x) == IF x >= 0 THEN x \div 2 ELSE -((-x) \div 2)

TooTight(width, rtt) == width <= rtt \div 2

(* clock_drift_us_per_sec *= 2  and  *= 0.9, an unsigned integer that sinks *)
(* to 0 and then stays there.                                              *)
Increased == 2 * drift
Decreased == (9 * drift) \div 10

NextRound ==
  /\ ppc = "estimate" /\ ppc' = "sleep"
  /\ UNCHANGED <<clocks, net, ingest, receipts, round, window>>

NothingToEstimate ==
  /\ NextRound
  /\ window = {}
  /\ UNCHANGED drift

(* The bounds of the window, with the rate that widened them, contradict   *)
(* each other more than half a round trip.                                 *)
RaiseDrift(lb, ub, rtt) ==
  /\ NextRound
  /\ TooTight(ub - lb, rtt)
  /\ drift' = IF Increased <= MaxRate THEN Increased ELSE drift

PublishState(lb, ub, rtt) ==
  /\ NextRound
  /\ ~TooTight(ub - lb, rtt)
  /\ drift' = IF ub - lb >= rtt THEN Decreased ELSE drift

Bounds == { Lower(t) - Widening(t) : t \in triplets } \X
          { Upper(t) + Widening(t) : t \in triplets } \X
          { RoundTrip(t) : t \in triplets }

Estimate ==
  \/ NothingToEstimate
  \/ /\ ppc = "estimate"
     /\ \E b \in Bounds :
          /\ Merged(b[1], b[2], b[3])
          /\ RaiseDrift(b[1], b[2], b[3]) \/ PublishState(b[1], b[2], b[3])

-----------------------------------------------------------------------------
Clocks == Tick(1, 1) \/ Tick(0, 1) \/ Tick(1, 0)
Network == SendPing \/ (\E p \in pings : Reply(p)) \/ \E p \in pongs : ReceivePong(p)
Publisher == BeginRound \/ AddSample \/ RemoveOldSamples \/ Estimate
Next == Clocks \/ Network \/ Publisher

Spec == Init /\ [][Next]_vars

-----------------------------------------------------------------------------
Triplet == [send : Nat, serv : Int, recv : Nat, off : Int]

TypeOK ==
  /\ client \in Nat /\ server \in Int
  /\ pings \in SUBSET Nat
  /\ pongs \in SUBSET [send : Nat, serv : Int, off : Int]
  /\ ingest \in Seq(Triplet)
  /\ receipts \in Nat
  /\ ppc \in {"sleep", "drain", "estimate"} /\ round \in Nat
  /\ window \in SUBSET [at : Nat, t : Triplet]
  /\ drift \in Nat

(* Whatever the network lost, repeated or reordered, the two bounds a round *)
(* trip puts on the offset held when the server stamped it (254-261).       *)
TripletsBracket == \A t \in triplets : Lower(t) <= t.off /\ t.off <= Upper(t)

(* The CHECKs of process_ingest_buffer() (244, 245 and 263).               *)
ChecksHold ==
  ppc = "estimate" =>
    \A t \in triplets : /\ t.send <= t.recv /\ t.recv <= current_time
                        /\ Lower(t) <= Upper(t)

(* The true offset has stayed within d of what it was in every round trip. *)
SkewWithin(d) == \A t \in triplets : true_offset - t.off \in (-d)..d

(* The purpose of the module: the offset about to be published is off by   *)
(* no more than half the round trip time published with it, plus what the  *)
(* clocks have drifted over the window, whichever samples are in it and    *)
(* whatever rate of drift is assumed (269-280, 302-303).                   *)
EstimateAccurate ==
  ppc = "estimate" =>
    \A b \in Bounds :
      Merged(b[1], b[2], b[3]) =>
        \A d \in 0..(2 * MaxSkew) :
          SkewWithin(d) =>
            2 * Half(b[2] + b[1]) - 2 * true_offset
              \in (-(b[2] - b[1] + 2 * d + 1))..(b[2] - b[1] + 2 * d + 1)

=============================================================================
