--------------------------- MODULE TimeSync_proofs ---------------------------
(***************************************************************************)
(* TLAPS proofs about TimeSync: for any clocks, window, units and rate of  *)
(* drift, and any loss, repetition and reordering of packets, every round  *)
(* trip brackets the offset and the estimate is as accurate as it claims.  *)
(***************************************************************************)
EXTENDS MCTimeSync, SequenceTheorems, TLAPS

(* What holds of every reply: at some time between its ping and now on the  *)
(* client's clock, the server read its own clock.                          *)
Answered(p) == p.send <= p.serv - p.off /\ p.serv - p.off <= client

(* What holds of every sample: the reply came back after the server read   *)
(* its clock, and no later than now.                                       *)
Returned(t) ==
  /\ t.send <= t.serv - t.off
  /\ t.serv - t.off <= t.recv
  /\ t.recv <= client

Inv ==
  /\ \A p \in pings : p <= client
  /\ \A p \in pongs : Answered(p)
  /\ \A i \in 1..Len(ingest) : Returned(ingest[i])
  /\ \A s \in window : Returned(s.t)

LEMMA InitInv == Init => TypeOK /\ Inv
BY StartAssumption, RateAssumption DEF Init, TypeOK, Inv

-----------------------------------------------------------------------------
(* The head of a queue is one of its elements; its tail holds the others.  *)
LEMMA HeadTail ==
  ASSUME NEW S, NEW q \in Seq(S), q # <<>>
  PROVE  /\ 1 \in 1..Len(q) /\ Head(q) = q[1] /\ Head(q) \in S
         /\ Tail(q) \in Seq(S)
         /\ Len(Tail(q)) = Len(q) - 1
         /\ \A i \in 1..Len(Tail(q)) : i + 1 \in 1..Len(q) /\ Tail(q)[i] = q[i + 1]
<1>1. Len(q) \in Nat \ {0}
  BY EmptySeq, LenProperties
<1>2. QED
  BY <1>1, HeadTailProperties, ElementOfSeq

LEMMA AppendAt ==
  ASSUME NEW S, NEW q \in Seq(S), NEW x \in S
  PROVE  /\ Append(q, x) \in Seq(S)
         /\ Len(Append(q, x)) = Len(q) + 1
         /\ \A i \in 1..Len(q) : Append(q, x)[i] = q[i]
         /\ Append(q, x)[Len(q) + 1] = x
BY AppendProperties

(* The quotient of naturals is a natural number.                           *)
LEMMA Quotient ==
  ASSUME NEW a \in Nat, NEW c \in Nat \ {0}
  PROVE  a \div c \in Nat
OBVIOUS

LEMMA Product ==
  ASSUME NEW a \in Nat, NEW b \in Nat
  PROVE  a * b \in Nat
OBVIOUS

-----------------------------------------------------------------------------
LEMMA ClockStep ==
  ASSUME TypeOK, Inv, NEW c \in {0, 1}, NEW s \in {0, 1}, Tick(c, s)
  PROVE  TypeOK' /\ Inv'
<1>1. client' \in Nat /\ server' \in Int /\ client <= client'
  BY DEF TypeOK, Tick
<1>2. TypeOK'
  BY <1>1, Zenon DEF TypeOK, Tick, net, publisher
<1>3. UNCHANGED <<pings, pongs, ingest, window>>
  BY Zenon DEF Tick, net, publisher
<1>4. \A p \in pings : p <= client'
  BY <1>1 DEF TypeOK, Inv
<1>5. \A p \in pongs : p.send <= p.serv - p.off /\ p.serv - p.off <= client'
  <2> SUFFICES ASSUME NEW p \in pongs
               PROVE  p.send <= p.serv - p.off /\ p.serv - p.off <= client'
    OBVIOUS
  <2>1. Answered(p) /\ p \in [send : Nat, serv : Int, off : Int] /\ client \in Nat
    BY DEF Inv, TypeOK
  <2>2. QED
    BY <2>1, <1>1 DEF Answered
<1>6. ASSUME NEW t \in Triplet, Returned(t) PROVE Returned(t)'
  BY <1>1, <1>6 DEF Returned, Triplet, TypeOK
<1>7. \A i \in 1..Len(ingest) : Returned(ingest[i])'
  <2> SUFFICES ASSUME NEW i \in 1..Len(ingest) PROVE Returned(ingest[i])'
    BY <1>3, Zenon
  <2>1. ingest[i] \in Triplet
    BY ElementOfSeq DEF TypeOK
  <2>2. Returned(ingest[i])
    BY DEF Inv
  <2>3. /\ ingest[i].send <= ingest[i].serv - ingest[i].off
        /\ ingest[i].serv - ingest[i].off <= ingest[i].recv
        /\ ingest[i].recv <= client'
    BY <2>1, <2>2, <1>1 DEF Returned, Triplet, TypeOK
  <2>4. QED
    BY <2>3, <1>3 DEF Returned
<1>8. \A x \in window : Returned(x.t)'
  BY <1>6 DEF TypeOK, Inv
<1>9. Inv'
  BY <1>3, <1>4, <1>5, <1>7, <1>8 DEF Inv, Answered, Returned
<1>10. QED
  BY <1>2, <1>9

LEMMA SendStep == ASSUME TypeOK, Inv, SendPing PROVE TypeOK' /\ Inv'
<1>1. /\ pings' = pings \cup {client}
      /\ UNCHANGED <<client, server, pongs, ingest, receipts, ppc, round, window, drift>>
  BY Zenon DEF SendPing, clocks, publisher
<1>2. TypeOK'
  BY <1>1 DEF TypeOK
<1>3. \A p \in pings' : p <= client
  BY <1>1 DEF Inv, TypeOK
<1>4. Inv'
  BY <1>1, <1>3 DEF Inv, Answered, Returned
<1>5. QED
  BY <1>2, <1>4

LEMMA ReplyStep ==
  ASSUME TypeOK, Inv, NEW p \in pings, Reply(p)
  PROVE  TypeOK' /\ Inv'
<1> DEFINE r == [send |-> p, serv |-> server, off |-> server - client]
<1>1. /\ pongs' = pongs \cup {r}
      /\ UNCHANGED <<client, server, pings, ingest, receipts, ppc, round, window, drift>>
  BY Zenon DEF Reply, clocks, publisher, true_offset
<1>2. p \in Nat /\ client \in Nat /\ server \in Int /\ p <= client
  BY DEF TypeOK, Inv
<1>3. r \in [send : Nat, serv : Int, off : Int]
  BY <1>2
<1>4. TypeOK'
  BY <1>1, <1>3 DEF TypeOK
<1>5. Answered(r)
  BY <1>2 DEF Answered
<1> HIDE DEF r
<1>6. \A x \in pongs' : Answered(x)
  BY <1>1, <1>5 DEF Inv
<1>7. Inv'
  BY <1>1, <1>6 DEF Inv, Answered, Returned
<1>8. QED
  BY <1>4, <1>7

LEMMA ReceiveStep ==
  ASSUME TypeOK, Inv, NEW p \in pongs, ReceivePong(p)
  PROVE  TypeOK' /\ Inv'
<1> DEFINE t == [send |-> p.send, serv |-> p.serv, recv |-> client, off |-> p.off]
<1>1. /\ receipts' = receipts + 1
      /\ UNCHANGED <<client, server, pings, pongs, ppc, round, window, drift>>
  BY Zenon DEF ReceivePong, clocks, net, publisher
<1>2. ingest' = ingest \/ ingest' = Append(ingest, t)
  BY Zenon DEF ReceivePong
<1>3. p \in [send : Nat, serv : Int, off : Int] /\ Answered(p) /\ client \in Nat
  BY DEF TypeOK, Inv
<1>4. t \in Triplet
  BY <1>3 DEF Triplet
<1>5. Returned(t)
  BY <1>3 DEF Answered, Returned
<1> HIDE DEF t
<1>6. ingest \in Seq(Triplet) /\ Len(ingest) \in Nat
  BY LenProperties DEF TypeOK
<1>7. ingest' \in Seq(Triplet)
  BY <1>2, <1>4, <1>6, AppendAt
<1>8. TypeOK'
  BY <1>1, <1>7 DEF TypeOK
<1>9. \A i \in 1..Len(ingest') : Returned(ingest'[i])
  <2>1. CASE ingest' = ingest
    BY <2>1 DEF Inv
  <2>2. CASE ingest' = Append(ingest, t)
    <3> SUFFICES ASSUME NEW i \in 1..Len(ingest') PROVE Returned(ingest'[i])
      OBVIOUS
    <3>1. i \in 1..Len(ingest) \/ i = Len(ingest) + 1
      BY <2>2, <1>4, <1>6, AppendAt
    <3>2. CASE i \in 1..Len(ingest)
      BY <2>2, <3>2, <1>4, <1>6, AppendAt DEF Inv
    <3>3. CASE i = Len(ingest) + 1
      BY <2>2, <3>3, <1>4, <1>5, <1>6, AppendAt
    <3>4. QED
      BY <3>1, <3>2, <3>3
  <2>3. QED
    BY <1>2, <2>1, <2>2
<1>10. Inv'
  BY <1>1, <1>9 DEF Inv, Answered, Returned
<1>11. QED
  BY <1>8, <1>10

-----------------------------------------------------------------------------
LEMMA PublisherStep == ASSUME TypeOK, Inv, Publisher PROVE TypeOK' /\ Inv'
<1> USE UnitAssumption, RateAssumption
<1>1. CASE BeginRound
  <2>1. /\ ppc' = "drain" /\ round' = client
        /\ UNCHANGED <<client, server, pings, pongs, ingest, receipts, window, drift>>
    BY <1>1, Zenon DEF BeginRound, clocks, net
  <2>2. TypeOK'
    BY <2>1 DEF TypeOK
  <2>3. Inv'
    BY <2>1 DEF Inv, Answered, Returned
  <2>4. QED
    BY <2>2, <2>3
<1>2. CASE AddSample
  <2> DEFINE h == Head(ingest)
             x == [at |-> Ms(round), t |-> h]
  <2>1. /\ ingest # <<>> /\ ingest' = Tail(ingest) /\ window' = window \cup {x}
        /\ UNCHANGED <<client, server, pings, pongs, receipts, ppc, round, drift>>
    BY <1>2, Zenon DEF AddSample, clocks, net
  <2>2. ingest \in Seq(Triplet)
    BY DEF TypeOK
  <2>3. h \in Triplet /\ Returned(h) /\ ingest' \in Seq(Triplet)
    BY <2>1, <2>2, HeadTail DEF Inv
  <2>4. Ms(round) \in Nat
    BY Quotient DEF Ms, TypeOK
  <2>5. x \in [at : Nat, t : Triplet] /\ x.t = h
    BY <2>3, <2>4
  <2> HIDE DEF x, h
  <2>6. window' \in SUBSET [at : Nat, t : Triplet]
    BY <2>1, <2>5 DEF TypeOK
  <2>7. TypeOK'
    BY <2>1, <2>3, <2>6 DEF TypeOK
  <2>8. \A s \in window' : Returned(s.t)
    BY <2>1, <2>3, <2>5 DEF Inv
  <2>9. \A i \in 1..Len(ingest') : Returned(ingest'[i])
    BY <2>1, <2>2, HeadTail DEF Inv
  <2>10. Inv'
    BY <2>1, <2>8, <2>9 DEF Inv, Answered, Returned
  <2>11. QED
    BY <2>7, <2>10
<1>3. CASE RemoveOldSamples
  <2>1. /\ ppc' = "estimate" /\ round' = 0 /\ window' \subseteq window
        /\ UNCHANGED <<client, server, pings, pongs, ingest, receipts, drift>>
    BY <1>3 DEF RemoveOldSamples, clocks, net
  <2>2. TypeOK'
    BY <2>1 DEF TypeOK
  <2>3. Inv'
    BY <2>1 DEF Inv, Answered, Returned
  <2>4. QED
    BY <2>2, <2>3
<1>4. CASE Estimate
  <2>1. PICK lb, ub, rtt :
          NothingToEstimate \/ RaiseDrift(lb, ub, rtt) \/ PublishState(lb, ub, rtt)
    BY <1>4, Zenon DEF Estimate
  <2>2. NextRound
    BY <2>1, Zenon DEF NothingToEstimate, RaiseDrift, PublishState
  <2>3. drift' \in {drift, 2 * drift, (9 * drift) \div 10}
    BY <2>1, Zenon
       DEF NothingToEstimate, RaiseDrift, PublishState, Increased, Decreased
  <2>4. drift' \in Nat
    BY <2>3 DEF TypeOK
  <2>5. /\ ppc' = "sleep"
        /\ UNCHANGED <<client, server, pings, pongs, ingest, receipts, round, window>>
    BY <2>2, Zenon DEF NextRound, clocks, net
  <2>6. TypeOK'
    BY <2>4, <2>5 DEF TypeOK
  <2>7. Inv'
    BY <2>5 DEF Inv, Answered, Returned
  <2>8. QED
    BY <2>6, <2>7
<1>5. QED
  BY <1>1, <1>2, <1>3, <1>4, Zenon DEF Publisher

LEMMA StutterStep == ASSUME TypeOK, Inv, UNCHANGED vars PROVE TypeOK' /\ Inv'
<1>1. UNCHANGED <<client, server, pings, pongs, ingest, receipts, ppc, round, window,
                  drift>>
  BY Zenon DEF vars, clocks, net, publisher
<1>2. QED
  BY <1>1 DEF TypeOK, Inv, Answered, Returned

LEMMA InvStep == TypeOK /\ Inv /\ [Next]_vars => TypeOK' /\ Inv'
<1> SUFFICES ASSUME TypeOK, Inv, [Next]_vars PROVE TypeOK' /\ Inv'
  OBVIOUS
<1>1. \/ \E c, s \in {0, 1} : Tick(c, s)
      \/ SendPing
      \/ \E p \in pings : Reply(p)
      \/ \E p \in pongs : ReceivePong(p)
      \/ Publisher
      \/ UNCHANGED vars
  BY Zenon DEF Next, Clocks, Network
<1>2. QED
  BY <1>1, ClockStep, SendStep, ReplyStep, ReceiveStep, PublisherStep, StutterStep

LEMMA Invariance == Spec => [](TypeOK /\ Inv)
<1>1. TypeOK /\ Inv /\ [Next]_vars => (TypeOK /\ Inv)'
  BY InvStep
<1>2. QED
  BY InitInv, <1>1, PTL DEF Spec

(* Every variable stays in its type: the rate of drift never wraps round.  *)
THEOREM TypeCorrect == Spec => []TypeOK
BY Invariance, PTL

-----------------------------------------------------------------------------
(* What the samples of the window are, and the bounds each puts.           *)
LEMMA Sample ==
  ASSUME TypeOK, Inv, NEW t \in triplets
  PROVE  /\ t \in Triplet /\ Returned(t)
         /\ Lower(t) \in Int /\ Upper(t) \in Int
         /\ Lower(t) <= t.off /\ t.off <= Upper(t)
<1>1. t \in Triplet /\ Returned(t)
  BY DEF triplets, TypeOK, Inv
<1>2. QED
  BY <1>1 DEF Triplet, Returned, Lower, Upper

LEMMA BracketsFromInv == TypeOK /\ Inv => TripletsBracket
BY Sample DEF TripletsBracket

(* Whatever the network lost, repeated or reordered, the bounds a round    *)
(* trip puts on the offset held when the server stamped it (254-261).      *)
THEOREM RoundTripsBracketOffset == Spec => []TripletsBracket
BY Invariance, BracketsFromInv, PTL

LEMMA ChecksFromInv == TypeOK /\ Inv => ChecksHold
<1> SUFFICES ASSUME TypeOK, Inv, NEW t \in triplets
             PROVE  t.send <= t.recv /\ t.recv <= client /\ Lower(t) <= Upper(t)
  BY DEF ChecksHold, current_time
<1>1. t \in Triplet /\ Returned(t)
  BY Sample
<1>2. QED
  BY <1>1 DEF Triplet, Returned, Lower, Upper

(* The CHECKs of process_ingest_buffer() (244, 245 and 263) never fail.    *)
THEOREM ChecksAlwaysHold == Spec => []ChecksHold
BY Invariance, ChecksFromInv, PTL

-----------------------------------------------------------------------------
LEMMA WideningNat ==
  ASSUME TypeOK, Inv, NEW t \in triplets
  PROVE  Widening(t) \in Nat
<1> DEFINE age == client - (t.recv + t.send) \div 2
<1>1. t.send \in Nat /\ t.recv \in Nat /\ client \in Nat /\ drift \in Nat
  BY Sample DEF Triplet, TypeOK
<1>2. t.send <= t.recv /\ t.recv <= client
  BY Sample, <1>1 DEF Returned, Triplet
<1>3. (t.recv + t.send) \div 2 <= t.recv /\ (t.recv + t.send) \div 2 \in Nat
  BY <1>1, <1>2
<1>4. age \in Nat
  BY <1>1, <1>2, <1>3
<1> HIDE DEF age
<1>5. drift * age \in Nat
  BY <1>1, <1>4, Product
<1>6. (drift * age) \div UnitsPerSec \in Nat
  BY <1>5, UnitAssumption, Quotient
<1>7. QED
  BY <1>6 DEF Widening, current_time, age

(* Halving rounds by less than one.                                        *)
LEMMA HalfClose ==
  ASSUME NEW x \in Int
  PROVE  Half(x) \in Int /\ x - 1 <= 2 * Half(x) /\ 2 * Half(x) <= x + 1
<1>1. CASE x >= 0
  BY <1>1 DEF Half
<1>2. CASE x < 0
  BY <1>2 DEF Half
<1>3. QED
  BY <1>1, <1>2

LEMMA MiddleClose ==
  ASSUME NEW lo \in Int, NEW hi \in Int
  PROVE  /\ Half(hi + lo) \in Int
         /\ hi + lo - 1 <= 2 * Half(hi + lo)
         /\ 2 * Half(hi + lo) <= hi + lo + 1
<1>1. hi + lo \in Int
  OBVIOUS
<1>2. QED
  BY <1>1, HalfClose

LEMMA AccurateFromInv == TypeOK /\ Inv => EstimateAccurate
<1> SUFFICES ASSUME TypeOK, Inv, NEW b \in Bounds, Merged(b[1], b[2], b[3]),
                    NEW d \in 0..(2 * MaxSkew), SkewWithin(d)
             PROVE  2 * Half(b[2] + b[1]) - 2 * true_offset
                      \in (-(b[2] - b[1] + 2 * d + 1))..(b[2] - b[1] + 2 * d + 1)
  BY DEF EstimateAccurate
<1>1. PICK t1 \in triplets : b[1] = Lower(t1) - Widening(t1)
  BY DEF Merged
<1>2. PICK t2 \in triplets : b[2] = Upper(t2) + Widening(t2)
  BY DEF Merged
<1>3. true_offset \in Int /\ d \in Int
  BY DEF true_offset, TypeOK
<1>4. b[1] \in Int /\ b[1] <= t1.off /\ t1.off \in Int
  BY <1>1, Sample, WideningNat DEF Triplet
<1>5. b[2] \in Int /\ t2.off <= b[2] /\ t2.off \in Int
  BY <1>2, Sample, WideningNat DEF Triplet
<1>6. t1.off <= true_offset + d /\ true_offset - d <= t2.off
  BY <1>1, <1>2, <1>3, <1>4, <1>5 DEF SkewWithin
<1>7. b[1] <= true_offset + d /\ true_offset - d <= b[2]
  BY <1>3, <1>4, <1>5, <1>6
<1> DEFINE e == Half(b[2] + b[1])
<1>8. e \in Int /\ b[2] + b[1] - 1 <= 2 * e /\ 2 * e <= b[2] + b[1] + 1
  BY <1>4, <1>5, MiddleClose, Zenon
<1> HIDE DEF e
<1> DEFINE x == 2 * e - 2 * true_offset
           w == b[2] - b[1] + 2 * d + 1
<1>9. x \in Int /\ w \in Int
  BY <1>3, <1>4, <1>5, <1>8
<1>10. x <= w
  BY <1>3, <1>4, <1>5, <1>7, <1>8
<1>11. -w <= x
  BY <1>3, <1>4, <1>5, <1>7, <1>8
<1> HIDE DEF x, w
<1>12. x \in (-w)..w
  BY <1>9, <1>10, <1>11
<1>13. QED
  BY <1>12 DEF e, x, w

(* Every estimate is off by no more than half the width of the merged      *)
(* bounds plus what the clocks have drifted over the window.               *)
THEOREM EstimatesAreAccurate == Spec => []EstimateAccurate
BY Invariance, AccurateFromInv, PTL

-----------------------------------------------------------------------------
(* Where the threads of init() can be.                                      *)
Places == {"register", "loop", "work", "state", "offset", "got", "returned"}

(* The other half, in which estimates are handed on.  Between the store of  *)
(* the offset and that of the flag the subscriber holds a message of this   *)
(* process; once the flag is up the offset is this process's for good.      *)
Told ==
  /\ tpc \in [State!Threads -> Places]
  /\ got => offset = Me
  /\ apc = "load" => got
  /\ tpc["subscribe"] = "offset" => sender = Me
  /\ tpc["subscribe"] = "got" => offset = Me

LEMMA ToldInit == State!Init => Told
BY DEF State!Init, State!Threads, Told, Places

LEMMA ToldSame ==
  ASSUME Told, UNCHANGED <<tpc, sender, offset, got, apc>>
  PROVE  Told'
BY DEF Told, Places

LEMMA SubscriberStep == Told /\ State!Subscriber => Told'
<1> SUFFICES ASSUME Told, State!Subscriber PROVE Told'
  OBVIOUS
<1> USE DEF State!Sub, State!Go, State!sharing, State!Threads
<1>1. CASE State!Register
  BY <1>1 DEF State!Register, Told, Places
<1>2. CASE State!ReadMessage
  BY <1>2 DEF State!ReadMessage, Told, Places
<1>3. CASE State!ReadStopped
  BY <1>3 DEF State!ReadStopped, Told, Places
<1>4. CASE State!StoreState
  BY <1>4 DEF State!StoreState, Told, Places
<1>5. CASE State!StoreOffset
  BY <1>5 DEF State!StoreOffset, Told, Places
<1>6. CASE State!StoreGot
  BY <1>6 DEF State!StoreGot, Told, Places
<1>7. QED
  BY <1>1, <1>2, <1>3, <1>4, <1>5, <1>6 DEF State!Subscriber

LEMMA ThreadStep ==
  ASSUME Told, NEW t \in State!Threads, State!LoopTest(t) \/ State!Turn(t)
  PROVE  Told'
<1>1. CASE State!LoopTest(t)
  <2>1. tpc' = [tpc EXCEPT ![t] = IF stop THEN "returned" ELSE "work"]
    BY <1>1 DEF State!LoopTest, State!Go
  <2>2. UNCHANGED <<sender, offset, got, apc>>
    BY <1>1 DEF State!LoopTest, State!sharing
  <2>3. QED
    BY <2>1, <2>2 DEF Told, Places, State!Threads
<1>2. CASE State!Turn(t)
  <2>1. tpc' = [tpc EXCEPT ![t] = "loop"]
    BY <1>2 DEF State!Turn, State!Go
  <2>2. UNCHANGED <<sender, offset, got, apc>>
    BY <1>2 DEF State!Turn, State!sharing
  <2>3. QED
    BY <2>1, <2>2 DEF Told, Places, State!Threads
<1>3. QED
  BY <1>1, <1>2

LEMMA PublisherKeepsTold == Told /\ State!Publisher => Told'
<1> SUFFICES ASSUME Told, State!Publisher PROVE Told'
  OBVIOUS
<1> USE DEF State!Go, State!sharing
<1>1. CASE State!Receive
  <2>1. tpc' = [tpc EXCEPT !["receive"] = "loop"] /\ UNCHANGED <<sender, offset, got, apc>>
    BY <1>1 DEF State!Receive
  <2>2. QED
    BY <2>1 DEF Told, Places, State!Threads
<1>2. CASE State!PublishState
  <2>1. tpc' = [tpc EXCEPT !["publish"] = "loop"] /\ UNCHANGED <<sender, offset, got, apc>>
    BY <1>2 DEF State!PublishState
  <2>2. QED
    BY <2>1 DEF Told, Places, State!Threads
<1>3. CASE \E p \in Others : State!OtherPublishes(p)
  BY <1>3, ToldSame DEF State!OtherPublishes
<1>4. QED
  BY <1>1, <1>2, <1>3 DEF State!Publisher

LEMMA RestKeepsTold == Told /\ (State!Caller \/ State!Lifecycle) => Told'
<1> SUFFICES ASSUME Told, State!Caller \/ State!Lifecycle PROVE Told'
  OBVIOUS
<1> USE DEF State!sharing
<1>1. CASE State!Caller
  BY <1>1 DEF State!Caller, State!LoadGot, State!LoadOffset, Told, Places
<1>2. CASE State!Lifecycle
  BY <1>2, ToldSame DEF State!Lifecycle, State!Connected, State!TimeOut, State!Verdict,
     State!RaiseStop, State!RunCallbacks, State!Joined, State!Main
<1>3. QED
  BY <1>1, <1>2

(* Whoever is told an offset is told one that this process has published,   *)
(* although the flag and the offset are separate atomics (392-396) and      *)
(* other processes and recordings publish on the same topic.                *)
THEOREM OffsetToldIsMine == MCSpec => []OffsetIsMine
<1>1. MCInit => Told
  BY ToldInit DEF MCInit
<1>2. Told /\ [Estimating \/ Sharing]_<<half, vars, shared>> => Told'
  <2> SUFFICES ASSUME Told, [Estimating \/ Sharing]_<<half, vars, shared>> PROVE Told'
    OBVIOUS
  <2>1. CASE Sharing
    BY <2>1, SubscriberStep, ThreadStep, PublisherKeepsTold, RestKeepsTold
       DEF Sharing, State!Next
  <2>2. CASE Estimating \/ UNCHANGED <<half, vars, shared>>
    BY <2>2, ToldSame DEF Estimating, shared
  <2>3. QED
    BY <2>1, <2>2
<1>3. Told => OffsetIsMine
  BY DEF Told, Places, OffsetIsMine, State!OffsetIsMine
<1>4. QED
  BY <1>1, <1>2, <1>3, PTL DEF MCSpec

=============================================================================
