------------------------ MODULE WebhooksOutProofs ---------------------------
(***************************************************************************)
(* Theorems of WebhooksOut, for every number of replicas, endpoints,       *)
(* tenants, workers and events, and whatever is inserted, changed, lost or *)
(* stopped: fan-outs that race move a cursor forward only and leave out no *)
(* event but where types changed under them, an event is accepted once but *)
(* for a cause, and the bounds on attempts in flight are kept.             *)
(***************************************************************************)
EXTENDS WebhooksOut, FiniteSetTheorems, TLAPS

\* A delivery that waits has an attempt left.
TriesLeft ==
  \A e \in Endpoints, ev \in Events :
    dv[e][ev].status = "pending" => dv[e][ev].tries < MaxTries

\* An attempt of the delivery of ev to e.
On(a, e, ev) == a.ep = e /\ a.ev = ev

\* An endpoint that is not there receives nothing, and one that was never
\* there has received nothing.
Unmade ==
  \A e \in Endpoints :
    /\ ep[e].state # "made" => \A t \in Tenants : ep[e].cursor[t] = NotNamed
    /\ ep[e].state = "none" =>
         \A ev \in Events : /\ dv[e][ev].status = "none" /\ got[e][ev] = 0
                            /\ \A a \in att : ~On(a, e, ev)

\* The cursors a round goes by were cursors of the streams it reads.
RoundsHold ==
  \A r \in Replicas, e \in Endpoints, t \in Tenants :
    <<e, t>> \in rep[r].todo => rep[r].endpoints[e].cursor[t] \in 0..Last(t)

\* A page of t's stream s, purged up to "gone", holds what its part of the
\* stream has of its types, however old it is.
PageHolds(page, t, s, gone) ==
  /\ page.from \in Nat /\ page.from <= page.to /\ page.to <= Len(s)
  /\ \A ev \in page.events : ev[1] = t /\ page.from < ev[2] /\ ev[2] <= page.to
  /\ \A n \in 1..page.to :
       n > page.from /\ n > gone /\ s[n] \in page.types => <<t, n>> \in page.events

PagesHold ==
  \A r \in Replicas, e \in Endpoints, t \in Tenants :
    <<e, t>> \in rep[r].page.ep => PageHolds(rep[r].page, t, stream[t], purged[t])

\* An event is wanted as long as it is asked for, and not fanned out yet it
\* is in the outbox.
WantedIsAsked ==
  \A e \in Endpoints : \A ev \in wanted[e] :
    /\ ev[2] <= Last(ev[1]) /\ Receives(ep[e], ev[1])
    /\ ev[2] > ep[e].cursor[ev[1]] =>
         TypeOf(ev) \in ep[e].types /\ ev[2] > purged[ev[1]]

\* An event has been seen by an endpoint: fanned out, attempted or accepted.
Seen(e, ev) == \/ dv[e][ev].status # "none" \/ got[e][ev] > 0
               \/ \E a \in att : On(a, e, ev)

\* The cursor is past an event that has been seen, but for a cause.
SeenAt(e, ev) ==
  Seen(e, ev) =>
    /\ ev[2] <= Last(ev[1])
    /\ ev \notin excused[e] /\ Receives(ep[e], ev[1]) => ev[2] <= ep[e].cursor[ev[1]]

SeenIsPast == \A e \in Endpoints, ev \in Events : SeenAt(e, ev)

\* But for a cause, an event is accepted once: its delivery has one attempt
\* under way, under its lease, and has been accepted only if that has, or if
\* it waits no more.
OnceAt(e, ev) ==
  ev \notin excused[e] =>
    /\ got[e][ev] <= 1
    /\ \A a, b \in att : On(a, e, ev) /\ On(b, e, ev) => a = b
    /\ \A a \in att : On(a, e, ev) =>
         /\ a.claim = dv[e][ev].claims
         /\ \/ dv[e][ev].status = "none"
            \/ /\ dv[e][ev].status = "pending"
               /\ dv[e][ev].leased = TRUE /\ dv[e][ev].held = TRUE
         /\ a.result # "ok" => got[e][ev] = 0
    /\ dv[e][ev].status = "pending" /\ (\A a \in att : ~On(a, e, ev)) => got[e][ev] = 0

OneAttempt == \A e \in Endpoints, ev \in Events : OnceAt(e, ev)

IInv == /\ TypeOK /\ TriesLeft /\ Unmade /\ RoundsHold /\ PagesHold /\ WantedIsAsked
        /\ MissedOnlyRaced /\ PendingIsNamed /\ SeenIsPast /\ OneAttempt

\* The attempts in flight are few.
BInv == IsFiniteSet(att) /\ InFlightBounds

-----------------------------------------------------------------------------
(* Pages: what Outbox::headers_after returns.                              *)

\* A set of natural numbers has a least one,
LEMMA Least ==
  ASSUME NEW S \in SUBSET Nat, S # {}
  PROVE  \E n \in S : \A m \in S : n <= m
<1>1. IsWellFoundedOn(OpToRel(<, Nat), Nat)
  BY NatLessThanWellFounded
<1>2. PICK n \in S : \A m \in S : <<m, n>> \notin OpToRel(<, Nat)
  BY <1>1, WFMin, Zenon
<1>3. \A m \in S : ~(m < n)
  BY <1>2 DEF OpToRel
<1> QED
  BY <1>3

\* and a greatest, if it has a bound.
LEMMA Greatest ==
  ASSUME NEW S, NEW b \in Nat, S \subseteq 0..b, S # {}
  PROVE  \E n \in S : \A m \in S : m <= n
<1> DEFINE T == {k \in Nat : b - k \in S}
<1>1. T # {}
  <2>1. PICK m \in S : TRUE
    OBVIOUS
  <2>2. b - m \in Nat /\ b - (b - m) = m
    BY <2>1
  <2> QED
    BY <2>1, <2>2
<1>2. PICK k \in T : \A j \in T : k <= j
  BY <1>1, Least
<1>3. ASSUME NEW m \in S PROVE m <= b - k
  <2>1. b - m \in Nat /\ b - (b - m) = m
    OBVIOUS
  <2>2. b - m \in T
    BY <2>1
  <2> QED
    BY <2>1, <2>2, <1>2
<1> QED
  BY <1>2, <1>3

\* A page begins after the cursor, ends at most where the stream does, and
\* leaves out nothing before its end that is there and of the types asked.
LEMMA PageFacts ==
  ASSUME TypeOK, NEW t \in Tenants, NEW after \in 0..Last(t), NEW types
  PROVE  /\ PageEnd(t, after, types) \in Nat
         /\ after <= PageEnd(t, after, types) /\ PageEnd(t, after, types) <= Last(t)
         /\ \A n \in Headers(t, after, types) :
              n \in 1..Last(t) /\ after < n /\ n <= PageEnd(t, after, types)
         /\ \A n \in 1..PageEnd(t, after, types) :
              n > after /\ n > purged[t] /\ stream[t][n] \in types =>
                n \in Headers(t, after, types)
<1> DEFINE M == Matching(t, after, types)
           H == Headers(t, after, types)
           Upto(n) == {m \in M : m <= n}
           to == PageEnd(t, after, types)
<1>1. Last(t) \in Nat /\ after \in Nat /\ after <= Last(t) /\ PageSize \in Nat \ {0}
  <2>1. PageSize \in Nat \ {0}
    BY BoundsAssumption
  <2>2. stream[t] \in Seq(Types)
    BY DEF TypeOK
  <2>3. Last(t) \in Nat
    BY <2>2 DEF Last
  <2> QED
    BY <2>1, <2>3
<1>2. M \subseteq (after + 1)..Last(t)
  BY DEF Matching
<1>3. H = {n \in M : Cardinality(Upto(n)) <= PageSize}
  BY DEF Headers
<1>4. \A n \in (after + 1)..Last(t) :
        n > purged[t] /\ stream[t][n] \in types => n \in M
  BY DEF Matching
<1>5. /\ H # M => to = CHOOSE n \in H : \A m \in H : m <= n
      /\ H = M => to = IF Last(t) > after THEN Last(t) ELSE after
  BY DEF PageEnd
<1> HIDE DEF M, H, to
<1>6. M \subseteq Nat /\ M \subseteq 0..Last(t) /\ \A n \in M : after < n /\ n <= Last(t)
  BY <1>1, <1>2
<1>7. \A n \in M : IsFiniteSet(Upto(n)) /\ Cardinality(Upto(n)) \in Nat
  <2> TAKE n \in M
  <2>1. IsFiniteSet(0..Last(t))
    BY <1>1, FS_Interval
  <2>2. Upto(n) \in SUBSET (0..Last(t))
    BY <1>6
  <2> QED
    BY <2>1, <2>2, FS_Subset, FS_CardinalityType
<1>8. CASE H = M
  <2>1. to = Last(t)
    BY <1>1, <1>5, <1>8
  <2> QED
    BY <2>1, <1>1, <1>4, <1>6, <1>8 DEF to, H
<1>9. CASE H # M
  <2>1. H \subseteq M /\ M # {}
    BY <1>3, <1>9
  <2>2. PICK n \in M : \A m \in M : n <= m
    BY <2>1, <1>6, Least
  <2>3. Upto(n) = {n}
    <3>1. \A m \in M : m <= n <=> m = n
      BY <2>2, <1>6
    <3> QED
      BY <3>1
  <2>4. n \in H
    <3>1. Cardinality({n}) = 1
      BY FS_Singleton
    <3>2. Cardinality(Upto(n)) <= PageSize
      BY <3>1, <2>3, <1>1
    <3> QED
      BY <3>2, <1>3
  <2>5. \E k \in H : \A m \in H : m <= k
    BY <2>1, <2>4, <1>1, <1>6, Greatest
  <2>6. to \in H /\ \A m \in H : m <= to
    BY <2>5, <1>5, <1>9
  <2>7. to \in M /\ Cardinality(Upto(to)) <= PageSize
    BY <2>6, <1>3
  <2>8. ASSUME NEW m \in M, m <= to
        PROVE  m \in H
    <3>1. Upto(m) \in SUBSET Upto(to)
      <4>1. \A k \in M : k <= m => k <= to
        BY <2>8, <2>7, <1>6
      <4> QED
        BY <4>1
    <3>2. Cardinality(Upto(m)) <= Cardinality(Upto(to))
      BY <3>1, <2>7, <1>7, FS_Subset
    <3>3. Cardinality(Upto(m)) <= PageSize
      BY <3>2, <2>7, <1>1, <1>7
    <3> QED
      BY <3>3, <1>3
  <2>9. to \in Nat /\ after <= to /\ to <= Last(t)
    BY <2>7, <1>1, <1>6
  <2>10. \A m \in 1..to : m > after /\ m > purged[t] /\ stream[t][m] \in types => m \in H
    BY <2>8, <2>9, <1>1, <1>4
  <2>11. \A m \in H : m \in 1..Last(t) /\ after < m /\ m <= to
    BY <2>1, <2>6, <1>1, <1>6
  <2> QED
    BY <2>9, <2>10, <2>11 DEF to, H
<1> QED
  BY <1>8, <1>9

-----------------------------------------------------------------------------
(* Types, pointwise, and what each step does.                              *)

\* An event is a tenant and a sequence number.
LEMMA EventFacts ==
  /\ \A ev \in Events : ev[1] \in Tenants /\ ev[2] \in 1..MaxEvents /\ ev[2] \in Nat
                        /\ ev = <<ev[1], ev[2]>>
  /\ \A t \in Tenants, n \in 1..MaxEvents :
       <<t, n>> \in Events /\ <<t, n>>[1] = t /\ <<t, n>>[2] = n
  BY BoundsAssumption DEF Events

\* Streams, cursors, deliveries and attempts, pointwise.
LEMMA TypeFacts ==
  ASSUME TypeOK
  PROVE  /\ \A t \in Tenants : /\ stream[t] \in Seq(Types) /\ Last(t) \in Nat
                               /\ purged[t] \in Nat /\ purged[t] <= Last(t)
                               /\ Last(t) <= MaxEvents
         /\ \A e \in Endpoints : /\ ep[e] \in EndpointStates
                                 /\ ep[e].types \subseteq Types
                                 /\ ep[e].cursor \in [Tenants -> Int]
                                 /\ wanted[e] \subseteq Events /\ raced[e] \subseteq Events
                                 /\ excused[e] \subseteq Events
         /\ \A e \in Endpoints, t \in Tenants :
              /\ ep[e].cursor[t] \in Int /\ ep[e].cursor[t] >= -1
              /\ ep[e].cursor[t] <= Last(t)
         /\ \A e \in Endpoints, ev \in Events : /\ dv[e][ev] \in DeliveryStates
                                                /\ got[e][ev] \in Nat
         /\ \A r \in Replicas : rep[r] \in Rounds
         /\ MaxEvents \in Nat
<1>1. \A t \in Tenants : stream[t] \in Seq(Types) /\ purged[t] \in Nat
  BY DEF TypeOK
<1>2. \A t \in Tenants : Last(t) \in Nat
  BY <1>1 DEF Last
<1>3. \A t \in Tenants : purged[t] <= Last(t) /\ Last(t) <= MaxEvents
  BY DEF TypeOK
<1>4. \A e \in Endpoints : ep[e] \in EndpointStates
  BY DEF TypeOK
<1>5. \A p \in EndpointStates : p.types \subseteq Types /\ p.cursor \in [Tenants -> Int]
  BY DEF EndpointStates
<1>6. \A e \in Endpoints : /\ wanted[e] \subseteq Events /\ raced[e] \subseteq Events
                           /\ excused[e] \subseteq Events
  BY DEF TypeOK
<1>7. \A e \in Endpoints, t \in Tenants : ep[e].cursor[t] \in (-1)..Last(t)
  BY DEF TypeOK, NotNamed
<1>8. \A e \in Endpoints, ev \in Events : dv[e][ev] \in DeliveryStates /\ got[e][ev] \in Nat
  BY DEF TypeOK
<1>9. \A r \in Replicas : rep[r] \in Rounds
  BY DEF TypeOK
<1>10. \A e \in Endpoints, t \in Tenants :
         /\ ep[e].cursor[t] \in Int /\ ep[e].cursor[t] >= -1 /\ ep[e].cursor[t] <= Last(t)
  BY <1>2, <1>7
<1>11. \A e \in Endpoints : ep[e].types \subseteq Types /\ ep[e].cursor \in [Tenants -> Int]
  BY <1>4, <1>5
<1>12. MaxEvents \in Nat
  BY BoundsAssumption
<1> QED
  BY <1>1, <1>2, <1>3, <1>4, <1>6, <1>8, <1>9, <1>10, <1>11, <1>12, Zenon

\* The fields of a delivery, and of an attempt.
LEMMA DeliveryFacts ==
  \A d \in DeliveryStates : /\ d.status \in Status /\ d.claims \in Nat
                            /\ d.tries \in Nat /\ d.tries <= MaxTries
                            /\ d.leased \in BOOLEAN /\ d.held \in BOOLEAN
<1>1. \A d \in DeliveryStates : d.status \in Status /\ d.claims \in Nat
  BY DEF DeliveryStates
<1>2. \A d \in DeliveryStates : d.tries \in 0..MaxTries
  BY DEF DeliveryStates
<1>3. \A d \in DeliveryStates : d.tries \in Nat /\ d.tries <= MaxTries
  BY <1>2, BoundsAssumption
<1>4. \A d \in DeliveryStates : d.leased \in BOOLEAN /\ d.held \in BOOLEAN
  BY DEF DeliveryStates
<1> QED
  BY <1>1, <1>3, <1>4

LEMMA AttemptFacts ==
  \A a \in AttemptStates : /\ a.rep \in Replicas /\ a.ep \in Endpoints /\ a.ev \in Events
                           /\ a.claim \in Nat
                           /\ a.result \in {"none", "ok", "fail", "gone"}
  BY DEF AttemptStates

\* The budget stays a budget.
LEMMA SpendFacts ==
  ASSUME budget \in [events : Nat, faults : Nat, changes : Nat],
         Spend("events") \/ Spend("faults") \/ Spend("changes")
  PROVE  budget' \in [events : Nat, faults : Nat, changes : Nat]
<1>1. CASE Spend("events")
  <2>1. budget.events > 0 /\ budget' = [budget EXCEPT !.events = budget.events - 1]
    BY <1>1 DEF Spend
  <2>2. budget.events - 1 \in Nat
    BY <2>1
  <2> QED
    BY <2>1, <2>2
<1>2. CASE Spend("faults")
  <2>1. budget.faults > 0 /\ budget' = [budget EXCEPT !.faults = budget.faults - 1]
    BY <1>2 DEF Spend
  <2>2. budget.faults - 1 \in Nat
    BY <2>1
  <2> QED
    BY <2>1, <2>2
<1>3. CASE Spend("changes")
  <2>1. budget.changes > 0 /\ budget' = [budget EXCEPT !.changes = budget.changes - 1]
    BY <1>3 DEF Spend
  <2>2. budget.changes - 1 \in Nat
    BY <2>1
  <2> QED
    BY <2>1, <2>2
<1> QED
  BY <1>1, <1>2, <1>3

\* Streams only grow, and are purged from their start.
StreamsGrow ==
  /\ stream' \in [Tenants -> Seq(Types)] /\ purged' \in [Tenants -> Nat]
  /\ \A t \in Tenants :
       /\ Len(stream'[t]) \in Nat /\ Last(t) <= Len(stream'[t])
       /\ \A n \in 1..Last(t) : stream'[t][n] = stream[t][n]
       /\ purged[t] <= purged'[t]
       /\ purged'[t] <= Len(stream'[t]) /\ Len(stream'[t]) <= MaxEvents

LEMMA StreamsSame ==
  ASSUME TypeOK, UNCHANGED <<stream, purged>>
  PROVE  StreamsGrow
<1>1. stream' = stream /\ purged' = purged
  OBVIOUS
<1>2. stream \in [Tenants -> Seq(Types)] /\ purged \in [Tenants -> Nat]
  BY DEF TypeOK
<1>3. \A t \in Tenants : /\ Last(t) \in Nat /\ purged[t] \in Nat /\ purged[t] <= Last(t)
                         /\ Last(t) <= MaxEvents
  BY TypeFacts
<1> QED
  BY <1>1, <1>2, <1>3 DEF StreamsGrow, Last

\* Outbox::insert.
LEMMA InsertFacts ==
  ASSUME TypeOK, NEW t \in Tenants, NEW type \in Types, Insert(t, type)
  PROVE  /\ Last(t) < MaxEvents /\ Len(stream'[t]) = Last(t) + 1
         /\ stream'[t][Last(t) + 1] = type
         /\ \A n \in 1..Last(t) : stream'[t][n] = stream[t][n]
         /\ \A u \in Tenants : u # t => stream'[u] = stream[u]
         /\ StreamsGrow
         /\ <<t, Last(t) + 1>> \in Events
         /\ \A e \in Endpoints :
              \/ wanted'[e] = wanted[e]
              \/ /\ wanted'[e] = wanted[e] \cup {<<t, Last(t) + 1>>}
                 /\ Receives(ep[e], t) /\ type \in ep[e].types
         /\ wanted' \in [Endpoints -> SUBSET Events]
         /\ budget' \in [events : Nat, faults : Nat, changes : Nat]
         /\ UNCHANGED <<purged, suspended, ep, dv, rep, att, raced, got, excused>>
<1>1. /\ Last(t) < MaxEvents
      /\ stream' = [stream EXCEPT ![t] = Append(stream[t], type)]
      /\ wanted' = [e \in Endpoints |->
           IF Receives(ep[e], t) /\ type \in ep[e].types
             THEN wanted[e] \cup {<<t, Last(t) + 1>>} ELSE wanted[e]]
      /\ Spend("events")
      /\ UNCHANGED <<purged, suspended, ep, dv, rep, att, raced, got, excused>>
  BY DEF Insert
<1>2. /\ stream \in [Tenants -> Seq(Types)] /\ purged \in [Tenants -> Nat]
      /\ budget \in [events : Nat, faults : Nat, changes : Nat]
      /\ wanted \in [Endpoints -> SUBSET Events]
  BY DEF TypeOK
<1>3. stream'[t] = Append(stream[t], type) /\ \A u \in Tenants : u # t => stream'[u] = stream[u]
  BY <1>1, <1>2
<1>4. stream[t] \in Seq(Types) /\ Last(t) \in Nat
  BY TypeFacts
<1>5. /\ stream'[t] \in Seq(Types) /\ Len(stream'[t]) = Last(t) + 1
      /\ stream'[t][Last(t) + 1] = type
      /\ \A n \in 1..Last(t) : stream'[t][n] = stream[t][n]
  BY <1>3, <1>4 DEF Last
<1>6. stream' \in [Tenants -> Seq(Types)]
  <2>1. stream' = [stream EXCEPT ![t] = stream'[t]]
    BY <1>1, <1>3
  <2> QED
    BY <2>1, <1>2, <1>5
<1>7. StreamsGrow
  <2>1. \A u \in Tenants : /\ Last(u) \in Nat /\ purged[u] \in Nat /\ purged[u] <= Last(u)
                           /\ Last(u) <= MaxEvents
    BY TypeFacts
  <2>2. MaxEvents \in Nat /\ purged' = purged
    BY <1>1, BoundsAssumption
  <2>3. ASSUME NEW u \in Tenants
        PROVE  /\ Len(stream'[u]) \in Nat /\ Last(u) <= Len(stream'[u])
               /\ \A n \in 1..Last(u) : stream'[u][n] = stream[u][n]
               /\ purged[u] <= purged'[u]
               /\ purged'[u] <= Len(stream'[u]) /\ Len(stream'[u]) <= MaxEvents
    <3>1. CASE u = t
      BY <3>1, <2>1, <2>2, <1>1, <1>4, <1>5
    <3>2. CASE u # t
      BY <3>2, <2>1, <2>2, <1>3 DEF Last
    <3> QED
      BY <3>1, <3>2
  <2> QED
    BY <2>2, <2>3, <1>2, <1>6 DEF StreamsGrow
<1>8. <<t, Last(t) + 1>> \in Events
  <2>1. Last(t) + 1 \in 1..MaxEvents
    BY <1>1, <1>4, BoundsAssumption
  <2> QED
    BY <2>1, EventFacts
<1>9. \A e \in Endpoints :
        \/ wanted'[e] = wanted[e]
        \/ /\ wanted'[e] = wanted[e] \cup {<<t, Last(t) + 1>>}
           /\ Receives(ep[e], t) /\ type \in ep[e].types
  BY <1>1, Zenon
<1>10. wanted' \in [Endpoints -> SUBSET Events]
  BY <1>1, <1>2, <1>8
<1>11. budget' \in [events : Nat, faults : Nat, changes : Nat]
  BY <1>1, <1>2, SpendFacts
<1> QED
  BY <1>1, <1>3, <1>5, <1>7, <1>8, <1>9, <1>10, <1>11

\* The outbox's retention.
LEMMA PurgeOutboxFacts ==
  ASSUME TypeOK, NEW t \in Tenants, PurgeOutbox(t)
  PROVE  /\ purged'[t] = purged[t] + 1 /\ \A u \in Tenants : u # t => purged'[u] = purged[u]
         /\ StreamsGrow
         /\ \A e \in Endpoints : \A ev \in wanted'[e] :
              ev \in wanted[e] /\ (ev # <<t, purged[t] + 1>> \/ ev[2] <= ep[e].cursor[t])
         /\ wanted' \in [Endpoints -> SUBSET Events]
         /\ budget' \in [events : Nat, faults : Nat, changes : Nat]
         /\ UNCHANGED <<stream, suspended, ep, dv, rep, att, raced, got, excused>>
<1>1. /\ purged[t] < Last(t)
      /\ purged' = [purged EXCEPT ![t] = purged[t] + 1]
      /\ wanted' = [e \in Endpoints |->
           {ev \in wanted[e] : ev # <<t, purged[t] + 1>> \/ ev[2] <= ep[e].cursor[t]}]
      /\ Spend("changes")
      /\ UNCHANGED <<stream, suspended, ep, dv, rep, att, raced, got, excused>>
  BY DEF PurgeOutbox
<1>2. /\ stream \in [Tenants -> Seq(Types)] /\ purged \in [Tenants -> Nat]
      /\ budget \in [events : Nat, faults : Nat, changes : Nat]
      /\ wanted \in [Endpoints -> SUBSET Events]
  BY DEF TypeOK
<1>3. /\ purged'[t] = purged[t] + 1 /\ \A u \in Tenants : u # t => purged'[u] = purged[u]
      /\ purged' \in [Tenants -> Nat]
  BY <1>1, <1>2
<1>4. StreamsGrow
  <2>1. \A u \in Tenants : /\ Last(u) \in Nat /\ purged[u] \in Nat /\ purged[u] <= Last(u)
                           /\ Last(u) <= MaxEvents
    BY TypeFacts
  <2>2. stream' = stream
    BY <1>1
  <2>3. \A u \in Tenants : purged[u] <= purged'[u] /\ purged'[u] <= Last(u)
    BY <2>1, <1>1, <1>3
  <2> QED
    BY <2>1, <2>2, <2>3, <1>2, <1>3 DEF StreamsGrow, Last
<1>5. \A e \in Endpoints : \A ev \in wanted'[e] :
        ev \in wanted[e] /\ (ev # <<t, purged[t] + 1>> \/ ev[2] <= ep[e].cursor[t])
  BY <1>1, Zenon
<1>6. wanted' \in [Endpoints -> SUBSET Events]
  BY <1>1, <1>2
<1>7. budget' \in [events : Nat, faults : Nat, changes : Nat]
  BY <1>1, <1>2, SpendFacts
<1> QED
  BY <1>1, <1>3, <1>4, <1>5, <1>6, <1>7

-----------------------------------------------------------------------------
(* What most steps keep.                                                   *)

\* Rounds end, or go on with fewer streams and the page read or none.
RoundsShrink ==
  \A r \in Replicas :
    /\ \A x \in rep'[r].todo : x \in rep[r].todo /\ rep'[r].endpoints = rep[r].endpoints
    /\ rep'[r].page = rep[r].page \/ rep'[r].page.ep = {}

\* Endpoints ask for what they did and are as far.
EndpointsStay ==
  \A e \in Endpoints : /\ ep'[e].state = ep[e].state /\ ep'[e].types = ep[e].types
                       /\ ep'[e].cursor = ep[e].cursor

\* The cursor of a stream an endpoint goes on receiving does not go back.
CursorsAdvance ==
  \A e \in Endpoints, t \in Tenants :
    Receives(ep[e], t) /\ Receives(ep'[e], t) => ep'[e].cursor[t] >= ep[e].cursor[t]

\* Deliveries come from nowhere only by fan-outs, and wait again only for a
\* cause; only what has been fanned out is attempted, and only what is
\* attempted accepted.
DeliveriesStay ==
  \A e \in Endpoints :
    /\ excused[e] \subseteq excused'[e]
    /\ \A ev \in Events :
         /\ dv'[e][ev].status = "none" <=> dv[e][ev].status = "none"
         /\ dv'[e][ev].status = "pending" =>
              dv[e][ev].status = "pending" \/ ev \in excused'[e]
         /\ got'[e][ev] # got[e][ev] => \E a \in att : On(a, e, ev)
         /\ \A a \in att' : On(a, e, ev) =>
              dv[e][ev].status # "none" \/ \E b \in att : On(b, e, ev)

\* Nothing of the delivery of ev to e changes.
Untouched(e, ev) ==
  /\ dv'[e][ev] = dv[e][ev] /\ got'[e][ev] = got[e][ev]
  /\ \A a : On(a, e, ev) => (a \in att' <=> a \in att)

\* The rounds of replicas outlast streams that grow.
LEMMA RoundsFrame ==
  ASSUME TypeOK, RoundsHold, PagesHold, StreamsGrow, RoundsShrink
  PROVE  RoundsHold' /\ PagesHold'
<1>1. \A t \in Tenants : Last(t)' = Len(stream'[t]) /\ Last(t) \in Nat
  BY TypeFacts DEF Last
<1>2. \A t \in Tenants : /\ Len(stream'[t]) \in Nat /\ Last(t) <= Len(stream'[t])
                         /\ \A n \in 1..Last(t) : stream'[t][n] = stream[t][n]
                         /\ purged[t] \in Nat /\ purged'[t] \in Nat /\ purged[t] <= purged'[t]
  BY TypeFacts DEF StreamsGrow
<1>3. RoundsHold'
  <2>1. SUFFICES ASSUME NEW r \in Replicas, NEW e \in Endpoints, NEW t \in Tenants,
                        <<e, t>> \in rep'[r].todo
                 PROVE  rep'[r].endpoints[e].cursor[t] \in 0..Last(t)'
    BY DEF RoundsHold
  <2>2. <<e, t>> \in rep[r].todo /\ rep'[r].endpoints = rep[r].endpoints
    BY <2>1 DEF RoundsShrink
  <2>3. rep[r].endpoints[e].cursor[t] \in 0..Last(t)
    BY <2>2 DEF RoundsHold
  <2> QED
    BY <2>2, <2>3, <1>1, <1>2, SMTT(40)
<1>4. PagesHold'
  <2>1. SUFFICES ASSUME NEW r \in Replicas, NEW e \in Endpoints, NEW t \in Tenants,
                        <<e, t>> \in rep'[r].page.ep
                 PROVE  PageHolds(rep'[r].page, t, stream'[t], purged'[t])
    BY DEF PagesHold
  <2>2. rep'[r].page = rep[r].page
    BY <2>1 DEF RoundsShrink
  <2>3. PICK page : page = rep[r].page
    OBVIOUS
  <2>4. PageHolds(page, t, stream[t], purged[t])
    BY <2>1, <2>2, <2>3 DEF PagesHold
  <2>5. page.to \in Int
    <3>1. \A R \in Rounds : R.page \in Pages
      BY DEF Rounds
    <3>2. \A P \in Pages : P.to \in Int
      BY DEF Pages
    <3> QED
      BY <2>3, <3>1, <3>2, TypeFacts
  <2>6. page.to <= Last(t)
    BY <2>4 DEF PageHolds, Last
  <2>7. \A n \in 1..page.to :
          stream'[t][n] = stream[t][n] /\ (n > purged'[t] => n > purged[t])
    BY <2>5, <2>6, <1>1, <1>2
  <2>8. page.to <= Len(stream'[t])
    BY <2>5, <2>6, <1>1, <1>2
  <2>9. PageHolds(page, t, stream'[t], purged'[t])
    BY <2>4, <2>7, <2>8 DEF PageHolds
  <2> QED
    BY <2>2, <2>3, <2>9
<1> QED
  BY <1>3, <1>4

\* Endpoints and what they have seen.
LEMMA StayFrame ==
  ASSUME TypeOK, Unmade, PendingIsNamed, SeenIsPast,
         StreamsGrow, EndpointsStay, DeliveriesStay
  PROVE  Unmade' /\ PendingIsNamed' /\ SeenIsPast'
<1>1. \A e \in Endpoints : /\ ep'[e].state = ep[e].state
                           /\ ep'[e].cursor = ep[e].cursor
  BY DEF EndpointsStay
<1>2. \A e \in Endpoints :
        /\ excused[e] \subseteq excused'[e]
        /\ \A ev \in Events :
             /\ dv'[e][ev].status = "none" <=> dv[e][ev].status = "none"
             /\ dv'[e][ev].status = "pending" =>
                  dv[e][ev].status = "pending" \/ ev \in excused'[e]
             /\ got'[e][ev] # got[e][ev] => \E a \in att : On(a, e, ev)
             /\ \A a \in att' : On(a, e, ev) =>
                  dv[e][ev].status # "none" \/ \E b \in att : On(b, e, ev)
  BY DEF DeliveriesStay
<1>3. Unmade'
  <2>1. ASSUME NEW e \in Endpoints, ep'[e].state # "made"
        PROVE  \A t \in Tenants : ep'[e].cursor[t] = NotNamed
    BY <2>1, <1>1 DEF Unmade
  <2>2. ASSUME NEW e \in Endpoints, ep'[e].state = "none", NEW ev \in Events
        PROVE  /\ dv'[e][ev].status = "none" /\ got'[e][ev] = 0
               /\ \A a \in att' : ~On(a, e, ev)
    <3>1. /\ dv[e][ev].status = "none" /\ got[e][ev] = 0
          /\ \A a \in att : ~On(a, e, ev)
      BY <2>2, <1>1 DEF Unmade
    <3> QED
      BY <3>1, <1>2
  <2> QED
    BY <2>1, <2>2, Zenon DEF Unmade, On
<1>4. PendingIsNamed'
  <2>1. SUFFICES ASSUME NEW e \in Endpoints, NEW ev \in Events, ev \notin excused'[e],
                        dv'[e][ev].status = "pending"
                 PROVE  ep'[e].cursor[ev[1]] # NotNamed
    BY DEF PendingIsNamed, Receives
  <2>2. ev \notin excused[e] /\ dv[e][ev].status = "pending"
    BY <2>1, <1>2
  <2>3. ep[e].cursor[ev[1]] # NotNamed
    BY <2>2 DEF PendingIsNamed, Receives
  <2> QED
    BY <2>3, <1>1
<1>5. SeenIsPast'
  <2>1. SUFFICES ASSUME NEW e \in Endpoints, NEW ev \in Events, Seen(e, ev)'
                 PROVE  /\ ev[2] <= Last(ev[1])'
                        /\ ev \notin excused'[e] /\ ep'[e].cursor[ev[1]] # NotNamed =>
                             ev[2] <= ep'[e].cursor[ev[1]]
    BY DEF SeenIsPast, SeenAt, Receives
  <2>2. \/ dv'[e][ev].status # "none" \/ got'[e][ev] > 0
        \/ \E a \in att' : On(a, e, ev)
    BY <2>1 DEF Seen, On
  <2>3. Seen(e, ev)
    BY <2>2, <1>2 DEF Seen
  <2>4. /\ ev[2] <= Last(ev[1])
        /\ ev \notin excused[e] /\ ep[e].cursor[ev[1]] # NotNamed =>
             ev[2] <= ep[e].cursor[ev[1]]
    BY <2>3 DEF SeenIsPast, SeenAt, Receives
  <2>5. ev[1] \in Tenants /\ ev[2] \in Nat
    BY EventFacts
  <2>6. Last(ev[1]) \in Nat /\ Last(ev[1])' \in Nat /\ Last(ev[1]) <= Last(ev[1])'
    BY <2>5, TypeFacts DEF StreamsGrow, Last
  <2> QED
    BY <2>4, <2>5, <2>6, <1>1, <1>2
<1> QED
  BY <1>3, <1>4, <1>5

\* What is wanted, when neither the outbox nor the endpoints change.
LEMMA WantedFrame ==
  ASSUME WantedIsAsked, MissedOnlyRaced, EndpointsStay, DeliveriesStay,
         TypeOK, UNCHANGED <<stream, purged, wanted, raced>>
  PROVE  WantedIsAsked' /\ MissedOnlyRaced'
<1>1. \A e \in Endpoints : ep'[e].types = ep[e].types /\ ep'[e].cursor = ep[e].cursor
  BY DEF EndpointsStay
<1>2. \A e \in Endpoints, ev \in Events :
        dv'[e][ev].status = "none" => dv[e][ev].status = "none"
  BY DEF DeliveriesStay
<1>3. WantedIsAsked'
  <2>1. SUFFICES ASSUME NEW e \in Endpoints, NEW ev \in wanted[e]
                 PROVE  /\ ev[2] <= Last(ev[1]) /\ ep'[e].cursor[ev[1]] # NotNamed
                        /\ ev[2] > ep'[e].cursor[ev[1]] =>
                             stream[ev[1]][ev[2]] \in ep'[e].types /\ ev[2] > purged[ev[1]]
    BY DEF WantedIsAsked, Receives, TypeOf, Last
  <2> QED
    BY <1>1 DEF WantedIsAsked, Receives, TypeOf
<1>4. MissedOnlyRaced'
  <2>1. SUFFICES ASSUME NEW e \in Endpoints, NEW ev \in wanted[e] \ raced[e],
                        ev[2] <= ep'[e].cursor[ev[1]]
                 PROVE  dv'[e][ev].status # "none"
    BY DEF MissedOnlyRaced
  <2>2. ev \in Events
    BY TypeFacts
  <2> QED
    BY <2>1, <2>2, <1>1, <1>2 DEF MissedOnlyRaced
<1> QED
  BY <1>3, <1>4

\* A delivery nothing happens to is accepted no more than before.
LEMMA OnceFrame ==
  ASSUME NEW e \in Endpoints, NEW ev \in Events, OnceAt(e, ev), Untouched(e, ev),
         excused[e] \subseteq excused'[e]
  PROVE  OnceAt(e, ev)'
<1>1. SUFFICES ASSUME ev \notin excused'[e]
               PROVE  /\ got'[e][ev] <= 1
                      /\ \A a, b \in att' : On(a, e, ev) /\ On(b, e, ev) => a = b
                      /\ \A a \in att' : On(a, e, ev) =>
                           /\ a.claim = dv'[e][ev].claims
                           /\ \/ dv'[e][ev].status = "none"
                              \/ /\ dv'[e][ev].status = "pending"
                                 /\ dv'[e][ev].leased = TRUE /\ dv'[e][ev].held = TRUE
                           /\ a.result # "ok" => got'[e][ev] = 0
                      /\ dv'[e][ev].status = "pending" /\ (\A a \in att' : ~On(a, e, ev)) =>
                           got'[e][ev] = 0
  BY DEF OnceAt, On
<1>2. ev \notin excused[e]
  BY <1>1
<1>3. dv'[e][ev] = dv[e][ev] /\ got'[e][ev] = got[e][ev]
  BY DEF Untouched
<1>4. \A a : On(a, e, ev) => (a \in att' <=> a \in att)
  BY DEF Untouched
<1> QED
  BY <1>2, <1>3, <1>4, Zenon DEF OnceAt

-----------------------------------------------------------------------------
(* Rounds.                                                                 *)

\* A replica between rounds.
LEMMA IdleFacts ==
  Idle \in Rounds /\ Idle.todo = {} /\ Idle.page = NoPage /\ NoPage \in Pages /\ NoPage.ep = {}
<1>1. NoPage \in Pages /\ NoPage.ep = {}
  BY DEF NoPage, Pages
<1>2. Idle = [endpoints |-> [e \in Endpoints |-> Asked(NoEndpoint)], todo |-> {},
              page |-> NoPage]
  BY DEF Idle
<1>3. Asked(NoEndpoint) \in [types : SUBSET Types, cursor : [Tenants -> Int]]
  BY DEF Asked, NoEndpoint, NotNamed
<1>4. Idle.todo = {} /\ Idle.page = NoPage
  BY <1>2
<1>5. Idle \in Rounds
  BY <1>1, <1>2, <1>3 DEF Rounds
<1> QED
  BY <1>1, <1>4, <1>5

\* A round goes on without the stream it is done with.
LEMMA RestFacts ==
  ASSUME TypeOK, NEW r \in Replicas, NEW e \in Endpoints, NEW t \in Tenants
  PROVE  /\ Rest(r, e, t) \in Rounds
         /\ \A x \in Rest(r, e, t).todo :
              x \in rep[r].todo /\ Rest(r, e, t).endpoints = rep[r].endpoints
         /\ Rest(r, e, t).page.ep = {}
<1> DEFINE T == rep[r].todo \ {<<e, t>>}
           Q == [rep[r] EXCEPT !.todo = T, !.page = NoPage]
<1>1. rep[r] \in Rounds
  BY TypeFacts
<1>2. T \in SUBSET (Endpoints \X Tenants)
  BY <1>1 DEF Rounds
<1>3. Rest(r, e, t) = IF T = {} THEN Idle ELSE Q
  BY DEF Rest
<1> HIDE DEF T
<1>4. Q \in Rounds /\ Q.todo = T /\ Q.page = NoPage /\ Q.endpoints = rep[r].endpoints
  <2>1. NoPage \in Pages
    BY IdleFacts
  <2>2. PICK R \in Rounds : R = rep[r]
    BY <1>1
  <2>3. PICK S : S = [R EXCEPT !.todo = T, !.page = NoPage]
    OBVIOUS
  <2>4. S \in Rounds /\ S.todo = T /\ S.page = NoPage /\ S.endpoints = R.endpoints
    <3>1. S = [endpoints |-> R.endpoints, todo |-> T, page |-> NoPage]
      BY <2>3 DEF Rounds
    <3>2. R.endpoints \in [Endpoints -> [types : SUBSET Types, cursor : [Tenants -> Int]]]
      BY DEF Rounds
    <3> QED
      BY <3>1, <3>2, <2>1, <1>2 DEF Rounds
  <2>5. S = Q
    BY <2>2, <2>3, Zenon
  <2> QED
    BY <2>2, <2>4, <2>5, Zenon
<1> HIDE DEF Q
<1>5. \A x \in T : x \in rep[r].todo
  BY DEF T
<1> QED
  BY <1>3, <1>4, <1>5, IdleFacts, Zenon

\* A replica's round is replaced by less of it.
LEMMA RoundStep ==
  ASSUME TypeOK, NEW r \in Replicas, rep' = [rep EXCEPT ![r] = rep'[r]], rep'[r] \in Rounds,
         \A x \in rep'[r].todo : x \in rep[r].todo /\ rep'[r].endpoints = rep[r].endpoints,
         rep'[r].page = rep[r].page \/ rep'[r].page.ep = {}
  PROVE  rep' \in [Replicas -> Rounds] /\ RoundsShrink
<1>1. rep \in [Replicas -> Rounds]
  BY DEF TypeOK
<1>2. \A q \in Replicas : q # r => rep'[q] = rep[q]
  BY <1>1
<1>3. rep' \in [Replicas -> Rounds]
  BY <1>1
<1> QED
  BY <1>2, <1>3, Zenon DEF RoundsShrink

LEMMA RoundsSame ==
  ASSUME rep' = rep
  PROVE  RoundsShrink
  BY DEF RoundsShrink

-----------------------------------------------------------------------------
(* Steps that leave the endpoints as they are.                             *)

\* The types of the next state, pointwise.
LEMMA TypeNext ==
  ASSUME TypeOK, StreamsGrow, suspended' \subseteq Tenants,
         ep' \in [Endpoints -> EndpointStates],
         \A e \in Endpoints, t \in Tenants :
           /\ ep'[e].cursor[t] \in Int /\ ep'[e].cursor[t] >= -1
           /\ ep'[e].cursor[t] <= Last(t),
         dv' \in [Endpoints -> [Events -> DeliveryStates]],
         rep' \in [Replicas -> Rounds], att' \subseteq AttemptStates,
         budget' \in [events : Nat, faults : Nat, changes : Nat],
         wanted' \in [Endpoints -> SUBSET Events], raced' \in [Endpoints -> SUBSET Events],
         got' \in [Endpoints -> [Events -> Nat]], excused' \in [Endpoints -> SUBSET Events]
  PROVE  TypeOK'
<1>1. stream' \in [Tenants -> Seq(Types)] /\ purged' \in [Tenants -> Nat]
  BY DEF StreamsGrow
<1>2. \A t \in Tenants : purged'[t] <= Last(t)' /\ Last(t)' <= MaxEvents
  BY DEF StreamsGrow, Last
<1>3. \A e \in Endpoints, t \in Tenants : ep'[e].cursor[t] \in NotNamed..Last(t)'
  <2>1. \A t \in Tenants : Last(t) \in Nat
    BY TypeFacts
  <2>2. \A t \in Tenants : Last(t)' \in Nat /\ Last(t) <= Last(t)'
    BY DEF StreamsGrow, Last
  <2> QED
    BY <2>1, <2>2 DEF NotNamed
<1> QED
  BY <1>1, <1>2, <1>3, Zenon DEF TypeOK

\* The cursors, types and states of endpoints that are the same.
LEMMA EndpointsSame ==
  ASSUME TypeOK, ep' = ep
  PROVE  /\ ep' \in [Endpoints -> EndpointStates] /\ EndpointsStay
         /\ \A e \in Endpoints, t \in Tenants :
              /\ ep'[e].cursor[t] \in Int /\ ep'[e].cursor[t] >= -1
              /\ ep'[e].cursor[t] <= Last(t)
<1>1. ep \in [Endpoints -> EndpointStates]
  BY DEF TypeOK
<1>2. EndpointsStay
  BY DEF EndpointsStay
<1> QED
  BY <1>1, <1>2, TypeFacts

\* Deliveries that nothing happens to.
LEMMA DeliveriesSame ==
  ASSUME UNCHANGED <<dv, att, got, excused>>
  PROVE  /\ DeliveriesStay
         /\ \A e \in Endpoints, ev \in Events : Untouched(e, ev)
         /\ TriesLeft => TriesLeft'
<1>1. dv' = dv /\ att' = att /\ got' = got /\ excused' = excused
  OBVIOUS
<1>2. DeliveriesStay
  BY <1>1 DEF DeliveriesStay
<1>3. \A e \in Endpoints, ev \in Events : Untouched(e, ev)
  BY <1>1 DEF Untouched
<1>4. TriesLeft => TriesLeft'
  BY <1>1 DEF TriesLeft
<1> QED
  BY <1>2, <1>3, <1>4

\* The parts together.
LEMMA StayStep ==
  ASSUME IInv, TypeOK', TriesLeft', StreamsGrow, EndpointsStay, DeliveriesStay,
         RoundsHold' /\ PagesHold', WantedIsAsked' /\ MissedOnlyRaced',
         \A e \in Endpoints, ev \in Events : OnceAt(e, ev) => OnceAt(e, ev)'
  PROVE  IInv' /\ CursorsAdvance
<1>1. /\ TypeOK /\ Unmade /\ PendingIsNamed /\ SeenIsPast /\ OneAttempt
  BY DEF IInv
<1>2. Unmade' /\ PendingIsNamed' /\ SeenIsPast'
  BY <1>1, StayFrame
<1>3. OneAttempt'
  BY <1>1, Zenon DEF OneAttempt
<1>4. CursorsAdvance
  BY <1>1, TypeFacts DEF CursorsAdvance, EndpointsStay
<1> QED
  BY <1>2, <1>3, <1>4, Zenon DEF IInv

\* A step that changes nothing but the outbox, the operators' settings and
\* the rounds.
LEMMA QuietStep ==
  ASSUME IInv, TypeOK', StreamsGrow, UNCHANGED <<ep, dv, att, got, excused>>,
         RoundsHold' /\ PagesHold', WantedIsAsked' /\ MissedOnlyRaced'
  PROVE  IInv' /\ CursorsAdvance
<1>1. TypeOK /\ TriesLeft
  BY DEF IInv
<1>2. EndpointsStay
  BY <1>1, EndpointsSame
<1>3. /\ DeliveriesStay /\ TriesLeft'
      /\ \A e \in Endpoints, ev \in Events : Untouched(e, ev)
  BY <1>1, DeliveriesSame
<1>4. \A e \in Endpoints, ev \in Events : OnceAt(e, ev) => OnceAt(e, ev)'
  <2>1. \A e \in Endpoints : excused[e] \subseteq excused'[e]
    OBVIOUS
  <2> QED
    BY <2>1, <1>3, OnceFrame
<1> QED
  BY <1>2, <1>3, <1>4, StayStep

\* Types of the variables such a step leaves alone.
LEMMA QuietTypes ==
  ASSUME TypeOK, StreamsGrow, suspended' \subseteq Tenants, rep' \in [Replicas -> Rounds],
         budget' \in [events : Nat, faults : Nat, changes : Nat],
         wanted' \in [Endpoints -> SUBSET Events],
         UNCHANGED <<ep, dv, att, raced, got, excused>>
  PROVE  TypeOK'
<1>1. /\ dv' \in [Endpoints -> [Events -> DeliveryStates]] /\ att' \subseteq AttemptStates
      /\ raced' \in [Endpoints -> SUBSET Events]
      /\ got' \in [Endpoints -> [Events -> Nat]] /\ excused' \in [Endpoints -> SUBSET Events]
  BY DEF TypeOK
<1>2. /\ ep' \in [Endpoints -> EndpointStates]
      /\ \A e \in Endpoints, t \in Tenants :
           /\ ep'[e].cursor[t] \in Int /\ ep'[e].cursor[t] >= -1
           /\ ep'[e].cursor[t] <= Last(t)
  BY EndpointsSame
<1> QED
  BY <1>1, <1>2, TypeNext

\* Outbox::insert: the new event is past every cursor and every page.
LEMMA InsertStep ==
  ASSUME IInv, NEW t \in Tenants, NEW type \in Types, Insert(t, type)
  PROVE  IInv' /\ CursorsAdvance
<1>1. /\ TypeOK /\ RoundsHold /\ PagesHold /\ WantedIsAsked /\ MissedOnlyRaced
  BY DEF IInv
<1>2. /\ Len(stream'[t]) = Last(t) + 1 /\ stream'[t][Last(t) + 1] = type
      /\ \A n \in 1..Last(t) : stream'[t][n] = stream[t][n]
      /\ \A u \in Tenants : u # t => stream'[u] = stream[u]
      /\ StreamsGrow /\ <<t, Last(t) + 1>> \in Events
      /\ \A e \in Endpoints :
           \/ wanted'[e] = wanted[e]
           \/ /\ wanted'[e] = wanted[e] \cup {<<t, Last(t) + 1>>}
              /\ Receives(ep[e], t) /\ type \in ep[e].types
      /\ wanted' \in [Endpoints -> SUBSET Events]
      /\ budget' \in [events : Nat, faults : Nat, changes : Nat]
      /\ purged' = purged /\ suspended' = suspended /\ ep' = ep /\ dv' = dv /\ rep' = rep
      /\ att' = att /\ raced' = raced /\ got' = got /\ excused' = excused
  BY <1>1, InsertFacts
<1>3. TypeOK'
  <2>1. suspended' \subseteq Tenants /\ rep' \in [Replicas -> Rounds]
    BY <1>1, <1>2 DEF TypeOK
  <2> QED
    BY <2>1, <1>1, <1>2, QuietTypes
<1>4. RoundsHold' /\ PagesHold'
  BY <1>1, <1>2, RoundsSame, RoundsFrame
<1>5. \A e \in Endpoints : \A ev \in wanted'[e] :
        \/ ev \in wanted[e]
        \/ ev[1] = t /\ ev[2] = Last(t) + 1 /\ Receives(ep[e], t) /\ type \in ep[e].types
  <2>1. \A ev : ev = <<t, Last(t) + 1>> => ev[1] = t /\ ev[2] = Last(t) + 1
    OBVIOUS
  <2> QED
    BY <2>1, <1>2
<1>6. \A u \in Tenants : /\ Last(u) \in Nat /\ purged[u] \in Nat /\ purged[u] <= Last(u)
                         /\ Last(u)' = Len(stream'[u]) /\ Len(stream'[u]) \in Nat
                         /\ Last(u) <= Last(u)'
  BY <1>1, <1>2, TypeFacts DEF Last, StreamsGrow
<1>7. WantedIsAsked'
  <2>1. SUFFICES ASSUME NEW e \in Endpoints, NEW ev \in wanted'[e]
                 PROVE  /\ ev[2] <= Last(ev[1])' /\ Receives(ep[e], ev[1])
                        /\ ev[2] > ep[e].cursor[ev[1]] =>
                             stream'[ev[1]][ev[2]] \in ep[e].types /\ ev[2] > purged[ev[1]]
    BY <1>2 DEF WantedIsAsked, Receives, TypeOf
  <2>2. CASE ev \in wanted[e]
    <3>1. ev \in Events /\ ev[1] \in Tenants /\ ev[2] \in Nat /\ ev[2] >= 1
      BY <2>2, <1>1, TypeFacts, EventFacts
    <3>2. /\ ev[2] <= Last(ev[1]) /\ Receives(ep[e], ev[1])
          /\ ev[2] > ep[e].cursor[ev[1]] =>
               stream[ev[1]][ev[2]] \in ep[e].types /\ ev[2] > purged[ev[1]]
      BY <2>2, <1>1 DEF WantedIsAsked, TypeOf
    <3>3. stream'[ev[1]][ev[2]] = stream[ev[1]][ev[2]]
      BY <3>1, <3>2, <1>2, <1>6, SMTT(40)
    <3> QED
      BY <3>1, <3>2, <3>3, <1>6, SMTT(40)
  <2>3. CASE ev \notin wanted[e]
    <3>1. ev[1] = t /\ ev[2] = Last(t) + 1 /\ Receives(ep[e], t) /\ type \in ep[e].types
      BY <2>3, <1>5
    <3> QED
      BY <3>1, <1>2, <1>6
  <2> QED
    BY <2>2, <2>3
<1>8. MissedOnlyRaced'
  <2>1. SUFFICES ASSUME NEW e \in Endpoints, NEW ev \in wanted'[e] \ raced[e],
                        ev[2] <= ep[e].cursor[ev[1]]
                 PROVE  dv[e][ev].status # "none"
    BY <1>2 DEF MissedOnlyRaced
  <2>2. ev \in wanted[e]
    <3>1. ep[e].cursor[t] \in Int /\ ep[e].cursor[t] <= Last(t) /\ Last(t) \in Nat
      BY <1>1, TypeFacts
    <3>2. ~(ev[1] = t /\ ev[2] = Last(t) + 1)
      BY <3>1, <2>1
    <3> QED
      BY <3>2, <1>5
  <2> QED
    BY <2>1, <2>2, <1>1 DEF MissedOnlyRaced
<1> QED
  BY <1>2, <1>3, <1>4, <1>7, <1>8, QuietStep

\* Retention takes the oldest event from the outbox, and from what is wanted
\* of it.
LEMMA PurgeOutboxStep ==
  ASSUME IInv, NEW t \in Tenants, PurgeOutbox(t)
  PROVE  IInv' /\ CursorsAdvance
<1>1. /\ TypeOK /\ RoundsHold /\ PagesHold /\ WantedIsAsked /\ MissedOnlyRaced
  BY DEF IInv
<1>2. /\ purged'[t] = purged[t] + 1 /\ \A u \in Tenants : u # t => purged'[u] = purged[u]
      /\ StreamsGrow
      /\ \A e \in Endpoints : \A ev \in wanted'[e] :
           ev \in wanted[e] /\ (ev # <<t, purged[t] + 1>> \/ ev[2] <= ep[e].cursor[t])
      /\ wanted' \in [Endpoints -> SUBSET Events]
      /\ budget' \in [events : Nat, faults : Nat, changes : Nat]
      /\ stream' = stream /\ suspended' = suspended /\ ep' = ep /\ dv' = dv /\ rep' = rep
      /\ att' = att /\ raced' = raced /\ got' = got /\ excused' = excused
  BY <1>1, PurgeOutboxFacts
<1>3. TypeOK'
  <2>1. suspended' \subseteq Tenants /\ rep' \in [Replicas -> Rounds]
    BY <1>1, <1>2 DEF TypeOK
  <2> QED
    BY <2>1, <1>1, <1>2, QuietTypes
<1>4. RoundsHold' /\ PagesHold'
  BY <1>1, <1>2, RoundsSame, RoundsFrame
<1>5. WantedIsAsked'
  <2>1. SUFFICES ASSUME NEW e \in Endpoints, NEW ev \in wanted'[e]
                 PROVE  /\ ev[2] <= Last(ev[1]) /\ Receives(ep[e], ev[1])
                        /\ ev[2] > ep[e].cursor[ev[1]] =>
                             TypeOf(ev) \in ep[e].types /\ ev[2] > purged'[ev[1]]
    BY <1>2 DEF WantedIsAsked, Receives, TypeOf, Last
  <2>2. ev \in wanted[e] /\ (ev # <<t, purged[t] + 1>> \/ ev[2] <= ep[e].cursor[t])
    BY <1>2
  <2>3. /\ ev[2] <= Last(ev[1]) /\ Receives(ep[e], ev[1])
        /\ ev[2] > ep[e].cursor[ev[1]] => TypeOf(ev) \in ep[e].types /\ ev[2] > purged[ev[1]]
    BY <2>2, <1>1 DEF WantedIsAsked
  <2>4. ev[1] \in Tenants /\ ev[2] \in Nat /\ ev = <<ev[1], ev[2]>> /\ purged[ev[1]] \in Nat
        /\ ep[e].cursor[ev[1]] \in Int
    BY <2>2, <1>1, TypeFacts, EventFacts
  <2>5. CASE ev[1] = t
    <3>1. ev[2] > ep[e].cursor[t] => ev[2] # purged[t] + 1
      BY <2>2, <2>4, <2>5
    <3> QED
      BY <3>1, <2>3, <2>4, <2>5, <1>2
  <2>6. CASE ev[1] # t
    BY <2>3, <2>4, <2>6, <1>2
  <2> QED
    BY <2>5, <2>6
<1>6. MissedOnlyRaced'
  <2>1. SUFFICES ASSUME NEW e \in Endpoints, NEW ev \in wanted'[e] \ raced[e],
                        ev[2] <= ep[e].cursor[ev[1]]
                 PROVE  dv[e][ev].status # "none"
    BY <1>2 DEF MissedOnlyRaced
  <2> QED
    BY <2>1, <1>1, <1>2 DEF MissedOnlyRaced
<1> QED
  BY <1>2, <1>3, <1>4, <1>5, <1>6, QuietStep

\* A step of the rounds alone, or of the operators' settings.
LEMMA RoundsOnly ==
  ASSUME IInv, UNCHANGED <<stream, purged, ep, dv, att, wanted, raced, got, excused>>,
         suspended' \subseteq Tenants, rep' \in [Replicas -> Rounds],
         budget' \in [events : Nat, faults : Nat, changes : Nat], RoundsHold' /\ PagesHold'
  PROVE  IInv' /\ CursorsAdvance
<1>1. /\ TypeOK /\ WantedIsAsked /\ MissedOnlyRaced
  BY DEF IInv
<1>2. StreamsGrow
  BY <1>1, StreamsSame
<1>3. TypeOK'
  <2>1. wanted' \in [Endpoints -> SUBSET Events]
    BY <1>1 DEF TypeOK
  <2> QED
    BY <2>1, <1>1, <1>2, QuietTypes
<1>4. WantedIsAsked' /\ MissedOnlyRaced'
  BY <1>1, EndpointsSame, DeliveriesSame, WantedFrame
<1> QED
  BY <1>2, <1>3, <1>4, QuietStep

\* A tenant's status.
LEMMA SetStatusStep ==
  ASSUME IInv, NEW t \in Tenants, SetStatus(t)
  PROVE  IInv' /\ CursorsAdvance
<1>1. TypeOK /\ RoundsHold /\ PagesHold
  BY DEF IInv
<1>2. /\ stream' = stream /\ purged' = purged /\ ep' = ep /\ dv' = dv /\ rep' = rep
      /\ att' = att /\ wanted' = wanted /\ raced' = raced /\ got' = got /\ excused' = excused
      /\ Spend("changes")
      /\ suspended' = IF t \in suspended THEN suspended \ {t} ELSE suspended \cup {t}
  BY DEF SetStatus, history
<1>3. /\ suspended \subseteq Tenants /\ rep \in [Replicas -> Rounds]
      /\ budget \in [events : Nat, faults : Nat, changes : Nat]
  BY <1>1 DEF TypeOK
<1>4. suspended' \subseteq Tenants /\ rep' \in [Replicas -> Rounds]
  BY <1>2, <1>3
<1>5. budget' \in [events : Nat, faults : Nat, changes : Nat]
  BY <1>2, <1>3, SpendFacts
<1>6. RoundsHold' /\ PagesHold'
  BY <1>1, <1>2, StreamsSame, RoundsSame, RoundsFrame
<1> QED
  BY <1>2, <1>4, <1>5, <1>6, RoundsOnly

\* A call of a fan-out fails.
LEMMA FanOutFailsStep ==
  ASSUME IInv, NEW r \in Replicas, NEW e \in Endpoints, NEW t \in Tenants,
         FanOutFails(r, e, t)
  PROVE  IInv' /\ CursorsAdvance
<1>1. TypeOK /\ RoundsHold /\ PagesHold
  BY DEF IInv
<1>2. /\ stream' = stream /\ purged' = purged /\ suspended' = suspended /\ ep' = ep
      /\ dv' = dv /\ att' = att /\ wanted' = wanted /\ raced' = raced /\ got' = got
      /\ excused' = excused /\ Spend("faults")
      /\ rep' = [rep EXCEPT ![r] = Rest(r, e, t)]
  BY DEF FanOutFails, history
<1>3. /\ suspended' \subseteq Tenants
      /\ budget \in [events : Nat, faults : Nat, changes : Nat]
  BY <1>1, <1>2 DEF TypeOK
<1>4. budget' \in [events : Nat, faults : Nat, changes : Nat]
  BY <1>2, <1>3, SpendFacts
<1>5. rep' \in [Replicas -> Rounds] /\ RoundsShrink
  <2>1. rep'[r] = Rest(r, e, t)
    BY <1>1, <1>2 DEF TypeOK
  <2>2. rep' = [rep EXCEPT ![r] = rep'[r]]
    BY <1>2, <2>1
  <2> QED
    BY <2>1, <2>2, <1>1, RestFacts, RoundStep
<1>6. RoundsHold' /\ PagesHold'
  BY <1>1, <1>2, <1>5, StreamsSame, RoundsFrame
<1> QED
  BY <1>2, <1>3, <1>4, <1>5, <1>6, RoundsOnly

\* active_endpoints: a round begins at the cursors the endpoints have.
LEMMA ActiveEndpointsStep ==
  ASSUME IInv, NEW r \in Replicas, ActiveEndpoints(r)
  PROVE  IInv' /\ CursorsAdvance
<1> DEFINE T == {x \in Endpoints \X Tenants : ep[x[1]].enabled /\ Receives(ep[x[1]], x[2])}
           A == [e \in Endpoints |-> Asked(ep[e])]
           R == rep'[r]
<1>1. TypeOK /\ RoundsHold /\ PagesHold
  BY DEF IInv
<1>2. /\ stream' = stream /\ purged' = purged /\ suspended' = suspended /\ ep' = ep
      /\ dv' = dv /\ att' = att /\ wanted' = wanted /\ raced' = raced /\ got' = got
      /\ excused' = excused /\ budget' = budget /\ rep[r] = Idle
      /\ rep' = [rep EXCEPT ![r].todo = T, ![r].endpoints = A]
  BY DEF ActiveEndpoints, history
<1>3. /\ suspended' \subseteq Tenants /\ rep \in [Replicas -> Rounds]
      /\ budget' \in [events : Nat, faults : Nat, changes : Nat]
  BY <1>1, <1>2 DEF TypeOK
<1>4. /\ T \in SUBSET (Endpoints \X Tenants)
      /\ A \in [Endpoints -> [types : SUBSET Types, cursor : [Tenants -> Int]]]
  <2>1. \A e \in Endpoints : Asked(ep[e]) \in [types : SUBSET Types, cursor : [Tenants -> Int]]
    BY <1>1, TypeFacts DEF Asked
  <2> QED
    BY <2>1
<1>5. /\ \A e \in Endpoints : A[e].cursor = ep[e].cursor
      /\ \A e \in Endpoints, t \in Tenants : <<e, t>> \in T => ep[e].cursor[t] # -1
  BY DEF Asked, Receives, NotNamed
<1> HIDE DEF T, A
<1>6. /\ R = [rep[r] EXCEPT !.todo = T, !.endpoints = A]
      /\ \A q \in Replicas : q # r => rep'[q] = rep[q]
  BY <1>2, <1>3
<1>7. R \in Rounds /\ R.todo = T /\ R.endpoints = A /\ R.page = NoPage
  <2>1. rep[r].page = NoPage /\ NoPage \in Pages /\ rep[r] \in Rounds
    BY <1>2, <1>3, IdleFacts
  <2> HIDE DEF R
  <2>2. R = [endpoints |-> A, todo |-> T, page |-> NoPage]
    BY <2>1, <1>6 DEF Rounds
  <2> QED
    BY <2>1, <2>2, <1>4 DEF Rounds
<1>8. rep' \in [Replicas -> Rounds]
  BY <1>2, <1>3, <1>7
<1> HIDE DEF R
<1>9. RoundsHold'
  <2>1. SUFFICES ASSUME NEW q \in Replicas, NEW e \in Endpoints, NEW t \in Tenants,
                        <<e, t>> \in rep'[q].todo
                 PROVE  rep'[q].endpoints[e].cursor[t] \in 0..Last(t)
    BY <1>2 DEF RoundsHold, Last
  <2>2. CASE q = r
    <3>1. rep'[q].endpoints[e].cursor[t] = ep[e].cursor[t] /\ ep[e].cursor[t] # -1
      BY <2>1, <2>2, <1>5, <1>7 DEF R
    <3> QED
      BY <3>1, <1>1, TypeFacts
  <2>3. CASE q # r
    BY <2>1, <2>3, <1>1, <1>6 DEF RoundsHold
  <2> QED
    BY <2>2, <2>3
<1>10. PagesHold'
  <2>1. SUFFICES ASSUME NEW q \in Replicas, NEW e \in Endpoints, NEW t \in Tenants,
                        <<e, t>> \in rep'[q].page.ep
                 PROVE  PageHolds(rep'[q].page, t, stream'[t], purged'[t])
    BY DEF PagesHold
  <2>2. rep'[r].page.ep = {}
    BY <1>7, IdleFacts DEF R
  <2>3. rep'[q] = rep[q]
    BY <2>1, <2>2, <1>6
  <2> QED
    BY <2>1, <2>3, <1>1, <1>2 DEF PagesHold
<1> QED
  BY <1>2, <1>3, <1>8, <1>9, <1>10, RoundsOnly

\* What fan_out_to reads of a stream.
LEMMA PageRead ==
  ASSUME TypeOK, RoundsHold, NEW r \in Replicas, NEW e \in Endpoints, NEW t \in Tenants,
         <<e, t>> \in rep[r].todo
  PROVE  /\ Page(r, e, t) \in Pages /\ Page(r, e, t).ep = {<<e, t>>}
         /\ PageHolds(Page(r, e, t), t, stream[t], purged[t])
<1> DEFINE p == rep[r].endpoints[e]
           after == p.cursor[t]
           to == PageEnd(t, after, p.types)
           H == Headers(t, after, p.types)
<1>1. rep[r] \in Rounds /\ Last(t) \in Nat /\ Last(t) <= MaxEvents /\ MaxEvents \in Nat
  BY TypeFacts
<1>2. p.types \in SUBSET Types
  BY <1>1 DEF Rounds
<1>3. after \in 0..Last(t)
  BY DEF RoundsHold
<1>4. /\ to \in Nat /\ after <= to /\ to <= Last(t)
      /\ \A n \in H : n \in 1..Last(t) /\ after < n /\ n <= to
      /\ \A n \in 1..to : n > after /\ n > purged[t] /\ stream[t][n] \in p.types => n \in H
  <2> HIDE DEF p
  <2>1. PICK a \in 0..Last(t) : a = after
    BY <1>3
  <2>2. PICK types : types = p.types
    OBVIOUS
  <2> QED
    BY <2>1, <2>2, PageFacts
<1>5. Page(r, e, t) = [ep |-> {<<e, t>>}, from |-> after, to |-> to,
                       events |-> {<<t, n>> : n \in H}, types |-> p.types]
  BY DEF Page
<1> DEFINE E == {<<t, n>> : n \in H}
<1>6. after \in Nat
  BY <1>1, <1>3
<1>7. E \in SUBSET Events
  <2>1. \A n \in H : n \in 1..MaxEvents
    BY <1>1, <1>4, SMTT(40)
  <2> QED
    BY <2>1, EventFacts, SMTT(40)
<1>8. \A ev \in E : ev[1] = t /\ after < ev[2] /\ ev[2] <= to
  BY <1>4
<1>9. \A n \in H : <<t, n>> \in E
  OBVIOUS
<1> HIDE DEF p, to, H, E, after
<1>10. Page(r, e, t) = [ep |-> {<<e, t>>}, from |-> after, to |-> to, events |-> E,
                        types |-> p.types]
  BY <1>5 DEF E
<1>11. PICK page : page = Page(r, e, t)
  OBVIOUS
<1>12. /\ page.ep = {<<e, t>>} /\ page.from = after /\ page.to = to /\ page.events = E
       /\ page.types = p.types
  BY <1>10, <1>11
<1>13. page \in Pages
  BY <1>2, <1>4, <1>6, <1>7, <1>10, <1>11 DEF Pages
<1>14. \A n \in 1..to : n > after /\ n > purged[t] /\ stream[t][n] \in p.types => <<t, n>> \in E
  BY <1>4, <1>9
<1>15. to <= Len(stream[t])
  BY <1>4 DEF Last
<1>16. PageHolds(page, t, stream[t], purged[t])
  BY <1>4, <1>6, <1>8, <1>12, <1>14, <1>15, Zenon DEF PageHolds
<1> QED
  BY <1>11, <1>12, <1>13, <1>16, Zenon

\* fan_out_to reads a page, or is done with the stream.
LEMMA ReadHeadersStep ==
  ASSUME IInv, NEW r \in Replicas, NEW e \in Endpoints, NEW t \in Tenants,
         ReadHeaders(r, e, t)
  PROVE  IInv' /\ CursorsAdvance
<1> DEFINE P == Page(r, e, t)
           R == rep'[r]
<1>1. TypeOK /\ RoundsHold /\ PagesHold
  BY DEF IInv
<1>2. /\ stream' = stream /\ purged' = purged /\ suspended' = suspended /\ ep' = ep
      /\ dv' = dv /\ att' = att /\ wanted' = wanted /\ raced' = raced /\ got' = got
      /\ excused' = excused /\ budget' = budget /\ <<e, t>> \in rep[r].todo
      /\ rep' = [rep EXCEPT ![r] = IF P.to = P.from THEN Rest(r, e, t)
                                   ELSE [rep[r] EXCEPT !.page = P]]
  BY DEF ReadHeaders, history
<1>3. /\ suspended' \subseteq Tenants /\ rep \in [Replicas -> Rounds]
      /\ budget' \in [events : Nat, faults : Nat, changes : Nat]
  BY <1>1, <1>2 DEF TypeOK
<1>4. P \in Pages /\ P.ep = {<<e, t>>} /\ PageHolds(P, t, stream[t], purged[t])
  BY <1>1, <1>2, PageRead
<1> HIDE DEF P
<1>5. /\ R = IF P.to = P.from THEN Rest(r, e, t) ELSE [rep[r] EXCEPT !.page = P]
      /\ rep' = [rep EXCEPT ![r] = R]
      /\ \A q \in Replicas : q # r => rep'[q] = rep[q]
  BY <1>2, <1>3
<1>6. CASE P.to = P.from
  <2>1. R = Rest(r, e, t)
    BY <1>5, <1>6
  <2>2. rep' \in [Replicas -> Rounds] /\ RoundsShrink
    <3>1. /\ rep'[r] \in Rounds /\ rep'[r].page.ep = {}
          /\ \A x \in rep'[r].todo : x \in rep[r].todo /\ rep'[r].endpoints = rep[r].endpoints
      BY <2>1, <1>1, RestFacts, Zenon
    <3> QED
      BY <3>1, <1>1, <1>5, RoundStep
  <2>3. RoundsHold' /\ PagesHold'
    BY <2>2, <1>1, <1>2, StreamsSame, RoundsFrame
  <2> QED
    BY <2>2, <2>3, <1>2, <1>3, RoundsOnly
<1>7. CASE P.to # P.from
  <2> HIDE DEF R
  <2>1. R \in Rounds /\ R.todo = rep[r].todo /\ R.endpoints = rep[r].endpoints /\ R.page = P
    <3>1. PICK Q \in Rounds : Q = rep[r]
      BY <1>3
    <3>2. R = [Q EXCEPT !.page = P]
      BY <3>1, <1>5, <1>7
    <3>3. R = [endpoints |-> Q.endpoints, todo |-> Q.todo, page |-> P]
      BY <3>2 DEF Rounds
    <3>4. /\ Q.endpoints \in [Endpoints -> [types : SUBSET Types, cursor : [Tenants -> Int]]]
          /\ Q.todo \in SUBSET (Endpoints \X Tenants)
      BY DEF Rounds
    <3>5. R \in Rounds /\ R.todo = Q.todo /\ R.endpoints = Q.endpoints /\ R.page = P
      BY <3>3, <3>4, <1>4 DEF Rounds
    <3> QED
      BY <3>1, <3>5
  <2>2. rep' \in [Replicas -> Rounds]
    BY <2>1, <1>3, <1>5
  <2>3. RoundsHold'
    <3>1. \A q \in Replicas : rep'[q].todo = rep[q].todo /\ rep'[q].endpoints = rep[q].endpoints
      BY <2>1, <1>5 DEF R
    <3> QED
      BY <3>1, <1>1, <1>2, Zenon DEF RoundsHold, Last
  <2>4. PagesHold'
    <3>1. SUFFICES ASSUME NEW q \in Replicas, NEW f \in Endpoints, NEW u \in Tenants,
                          <<f, u>> \in rep'[q].page.ep
                   PROVE  PageHolds(rep'[q].page, u, stream'[u], purged'[u])
      BY DEF PagesHold
    <3>2. CASE q = r
      <4>1. rep'[q].page = P
        BY <3>2, <2>1 DEF R
      <4>2. u = t
        BY <3>1, <4>1, <1>4
      <4> QED
        BY <4>1, <4>2, <1>2, <1>4
    <3>3. CASE q # r
      BY <3>1, <3>3, <1>1, <1>2, <1>5 DEF PagesHold
    <3> QED
      BY <3>2, <3>3
  <2> QED
    BY <2>2, <2>3, <2>4, <1>2, <1>3, RoundsOnly
<1> QED
  BY <1>6, <1>7

-----------------------------------------------------------------------------
(* Claims, attempts and deliveries.                                        *)

\* A step of attempts and deliveries.
LEMMA AttemptStep ==
  ASSUME IInv, UNCHANGED <<stream, purged, suspended, wanted, raced>>,
         ep' \in [Endpoints -> EndpointStates], EndpointsStay,
         dv' \in [Endpoints -> [Events -> DeliveryStates]], TriesLeft',
         rep' \in [Replicas -> Rounds], RoundsShrink, att' \subseteq AttemptStates,
         budget' \in [events : Nat, faults : Nat, changes : Nat],
         got' \in [Endpoints -> [Events -> Nat]], excused' \in [Endpoints -> SUBSET Events],
         DeliveriesStay,
         \A e \in Endpoints, ev \in Events : OnceAt(e, ev) => OnceAt(e, ev)'
  PROVE  IInv' /\ CursorsAdvance
<1>1. /\ TypeOK /\ RoundsHold /\ PagesHold /\ WantedIsAsked /\ MissedOnlyRaced
  BY DEF IInv
<1>2. StreamsGrow
  BY <1>1, StreamsSame
<1>3. TypeOK'
  <2>1. \A e \in Endpoints, t \in Tenants :
          /\ ep'[e].cursor[t] \in Int /\ ep'[e].cursor[t] >= -1
          /\ ep'[e].cursor[t] <= Last(t)
    BY <1>1, TypeFacts DEF EndpointsStay
  <2>2. /\ suspended' \subseteq Tenants /\ wanted' \in [Endpoints -> SUBSET Events]
        /\ raced' \in [Endpoints -> SUBSET Events]
    BY <1>1 DEF TypeOK
  <2> QED
    BY <2>1, <2>2, <1>1, <1>2, TypeNext
<1>4. RoundsHold' /\ PagesHold'
  BY <1>1, <1>2, RoundsFrame
<1>5. WantedIsAsked' /\ MissedOnlyRaced'
  BY <1>1, WantedFrame
<1> QED
  BY <1>2, <1>3, <1>4, <1>5, StayStep

\* What an excuse records.
LEMMA ExcuseFacts ==
  ASSUME TypeOK, NEW S, S \subseteq att, Excuse(S)
  PROVE  /\ excused' \in [Endpoints -> SUBSET Events]
         /\ \A e \in Endpoints : excused[e] \subseteq excused'[e]
         /\ \A a \in S : a.ev \in excused'[a.ep]
<1>1. excused' = [e \in Endpoints |-> excused[e] \cup {a.ev : a \in {b \in S : b.ep = e}}]
  BY DEF Excuse
<1>2. excused \in [Endpoints -> SUBSET Events] /\ att \subseteq AttemptStates
  BY DEF TypeOK
<1>3. \A a \in S : a.ep \in Endpoints /\ a.ev \in Events
  BY <1>2, AttemptFacts
<1>4. excused' \in [Endpoints -> SUBSET Events]
  BY <1>1, <1>2, <1>3
<1>5. \A e \in Endpoints : excused[e] \subseteq excused'[e]
  BY <1>1
<1>6. \A a \in S : a.ev \in excused'[a.ep]
  BY <1>1, <1>3
<1> QED
  BY <1>4, <1>5, <1>6

\* Attempts that are dropped with an excuse: recording them fails, or their
\* replica stops.
LEMMA DropStep ==
  ASSUME IInv, NEW S, S \subseteq att, att' = att \ S, Excuse(S), Spend("faults"),
         UNCHANGED <<stream, purged, suspended, ep, dv, wanted, raced, got>>,
         rep' \in [Replicas -> Rounds], RoundsShrink
  PROVE  IInv' /\ CursorsAdvance
<1>1. TypeOK /\ TriesLeft
  BY DEF IInv
<1>2. /\ excused' \in [Endpoints -> SUBSET Events]
      /\ \A e \in Endpoints : excused[e] \subseteq excused'[e]
      /\ \A a \in S : a.ev \in excused'[a.ep]
  BY <1>1, ExcuseFacts
<1>3. /\ budget \in [events : Nat, faults : Nat, changes : Nat]
      /\ dv' \in [Endpoints -> [Events -> DeliveryStates]]
      /\ got' \in [Endpoints -> [Events -> Nat]] /\ att' \subseteq AttemptStates
  BY <1>1 DEF TypeOK
<1>4. budget' \in [events : Nat, faults : Nat, changes : Nat]
  BY <1>3, SpendFacts
<1>5. ep' \in [Endpoints -> EndpointStates] /\ EndpointsStay
  BY <1>1, EndpointsSame
<1>6. TriesLeft'
  BY <1>1 DEF TriesLeft
<1>7. DeliveriesStay
  <2>1. \A a \in att' : a \in att
    OBVIOUS
  <2> QED
    BY <2>1, <1>2, Zenon DEF DeliveriesStay
<1>8. ASSUME NEW e \in Endpoints, NEW ev \in Events, OnceAt(e, ev)
      PROVE  OnceAt(e, ev)'
  <2>1. CASE \E a \in S : On(a, e, ev)
    <3>1. ev \in excused'[e]
      BY <2>1, <1>2 DEF On
    <3> QED
      BY <3>1 DEF OnceAt
  <2>2. CASE \A a \in S : ~On(a, e, ev)
    <3>1. Untouched(e, ev)
      BY <2>2 DEF Untouched
    <3> QED
      BY <3>1, <1>2, <1>8, OnceFrame
  <2> QED
    BY <2>1, <2>2
<1> QED
  BY <1>2, <1>3, <1>4, <1>5, <1>6, <1>7, <1>8, AttemptStep

LEMMA SettleFailsStep ==
  ASSUME IInv, NEW a \in att, SettleFails(a)
  PROVE  IInv' /\ CursorsAdvance
<1>1. /\ att' = att \ {a} /\ Excuse({a}) /\ Spend("faults") /\ rep' = rep
      /\ UNCHANGED <<stream, purged, suspended, ep, dv, wanted, raced, got>>
  BY DEF SettleFails
<1>2. rep' \in [Replicas -> Rounds] /\ RoundsShrink
  BY <1>1, RoundsSame DEF IInv, TypeOK
<1> QED
  BY <1>1, <1>2, DropStep

LEMMA CrashStep ==
  ASSUME IInv, NEW r \in Replicas, Crash(r)
  PROVE  IInv' /\ CursorsAdvance
<1>1. /\ att' = att \ AttemptsOf(r) /\ Excuse(AttemptsOf(r)) /\ Spend("faults")
      /\ UNCHANGED <<stream, purged, suspended, ep, dv, wanted, raced, got>>
      /\ rep' = [rep EXCEPT ![r] = Idle]
  BY DEF Crash
<1>2. TypeOK
  BY DEF IInv
<1>3. rep' \in [Replicas -> Rounds] /\ RoundsShrink
  <2>1. rep'[r] = Idle
    BY <1>1, <1>2 DEF TypeOK
  <2>2. rep' = [rep EXCEPT ![r] = rep'[r]]
    BY <1>1, <2>1
  <2>3. rep'[r] \in Rounds /\ rep'[r].todo = {} /\ rep'[r].page.ep = {}
    BY <2>1, IdleFacts
  <2> QED
    BY <2>2, <2>3, <1>2, RoundStep
<1>4. AttemptsOf(r) \subseteq att
  BY DEF AttemptsOf
<1> QED
  BY <1>1, <1>3, <1>4, DropStep

\* An attempt ends with a result.
LEMMA EndsFacts ==
  ASSUME TypeOK, NEW a, NEW result \in {"ok", "fail", "gone"}, Ends(a, result)
  PROVE  /\ a \in att /\ a.result = "none" /\ a.ep \in Endpoints /\ a.ev \in Events
         /\ \E b \in AttemptStates :
              /\ att' = (att \ {a}) \cup {b}
              /\ b.ep = a.ep /\ b.ev = a.ev /\ b.claim = a.claim /\ b.rep = a.rep
              /\ b.result = result
<1>1. a \in att /\ a.result = "none" /\ att' = (att \ {a}) \cup {[a EXCEPT !.result = result]}
  BY DEF Ends
<1>2. a \in AttemptStates
  BY <1>1 DEF TypeOK
<1>3. a.ep \in Endpoints /\ a.ev \in Events
  BY <1>2, AttemptFacts
<1>4. PICK b : b = [a EXCEPT !.result = result]
  OBVIOUS
<1>5. /\ b \in AttemptStates
      /\ b.ep = a.ep /\ b.ev = a.ev /\ b.claim = a.claim /\ b.rep = a.rep
      /\ b.result = result
  BY <1>2, <1>4 DEF AttemptStates
<1> QED
  BY <1>1, <1>3, <1>4, <1>5, Zenon

\* An attempt of an event ends: the receiver accepted it if got says so.
LEMMA EndedStep ==
  ASSUME IInv, NEW a, NEW result \in {"ok", "fail", "gone"}, Ends(a, result),
         UNCHANGED <<stream, purged, suspended, ep, dv, rep, wanted, raced>>,
         budget' \in [events : Nat, faults : Nat, changes : Nat],
         excused' \in [Endpoints -> SUBSET Events],
         \A e \in Endpoints : excused[e] \subseteq excused'[e],
         \/ got' = got
         \/ /\ got' = [got EXCEPT ![a.ep][a.ev] = got[a.ep][a.ev] + 1]
            /\ result = "ok" \/ a.ev \in excused'[a.ep]
  PROVE  IInv' /\ CursorsAdvance
<1>1. TypeOK /\ TriesLeft
  BY DEF IInv
<1>2. a \in att /\ a.result = "none" /\ a.ep \in Endpoints /\ a.ev \in Events
  BY <1>1, EndsFacts
<1>3. PICK b \in AttemptStates :
        /\ att' = (att \ {a}) \cup {b}
        /\ b.ep = a.ep /\ b.ev = a.ev /\ b.claim = a.claim /\ b.rep = a.rep
        /\ b.result = result
  BY <1>1, EndsFacts
<1>4. /\ dv' \in [Endpoints -> [Events -> DeliveryStates]] /\ rep' \in [Replicas -> Rounds]
      /\ got \in [Endpoints -> [Events -> Nat]] /\ att \subseteq AttemptStates
  BY <1>1 DEF TypeOK
<1>5. /\ got' \in [Endpoints -> [Events -> Nat]]
      /\ \A e \in Endpoints, ev \in Events : ~On(a, e, ev) => got'[e][ev] = got[e][ev]
      /\ \/ got'[a.ep][a.ev] = got[a.ep][a.ev]
         \/ /\ got'[a.ep][a.ev] = got[a.ep][a.ev] + 1
            /\ result = "ok" \/ a.ev \in excused'[a.ep]
  <2>1. CASE got' = got
    BY <2>1, <1>4
  <2>2. CASE /\ got' = [got EXCEPT ![a.ep][a.ev] = got[a.ep][a.ev] + 1]
             /\ result = "ok" \/ a.ev \in excused'[a.ep]
    <3>1. PICK n \in Nat : n = got[a.ep][a.ev] + 1
      BY <1>2, <1>4
    <3>2. got' = [got EXCEPT ![a.ep][a.ev] = n]
      BY <2>2, <3>1
    <3>3. got'[a.ep][a.ev] = n /\ got' \in [Endpoints -> [Events -> Nat]]
      BY <3>2, <1>2, <1>4
    <3>4. \A e \in Endpoints, ev \in Events : ~On(a, e, ev) => got'[e][ev] = got[e][ev]
      BY <3>2, <1>2, <1>4 DEF On
    <3> QED
      BY <2>2, <3>1, <3>3, <3>4
  <2> QED
    BY <2>1, <2>2
<1>6. ep' \in [Endpoints -> EndpointStates] /\ EndpointsStay /\ RoundsShrink
  BY <1>1, EndpointsSame, RoundsSame
<1>7. TriesLeft' /\ att' \subseteq AttemptStates
  BY <1>1, <1>3, <1>4 DEF TriesLeft
<1>8. \A x \in att', e \in Endpoints, ev \in Events :
        On(x, e, ev) => x \in att \/ (x = b /\ On(a, e, ev))
  BY <1>3 DEF On
<1>9. DeliveriesStay
  <2>1. \A e \in Endpoints, ev \in Events :
          /\ got'[e][ev] # got[e][ev] => \E x \in att : On(x, e, ev)
          /\ \A x \in att' : On(x, e, ev) => \E y \in att : On(y, e, ev)
    BY <1>2, <1>5, <1>8
  <2> QED
    BY <2>1, Zenon DEF DeliveriesStay
<1>10. ASSUME NEW e \in Endpoints, NEW ev \in Events, OnceAt(e, ev)
       PROVE  OnceAt(e, ev)'
  <2>1. CASE ~On(a, e, ev)
    <3>1. \A x : On(x, e, ev) => (x \in att' <=> x \in att)
      BY <2>1, <1>3 DEF On
    <3>2. Untouched(e, ev)
      BY <2>1, <3>1, <1>5 DEF Untouched
    <3> QED
      BY <3>2, <1>10, OnceFrame
  <2>2. CASE On(a, e, ev) /\ ev \notin excused'[e]
    <3>1. a.ep = e /\ a.ev = ev /\ ev \notin excused[e]
      BY <2>2 DEF On
    <3>2. /\ \A x \in att : On(x, e, ev) => x = a
          /\ a.claim = dv[e][ev].claims
          /\ \/ dv[e][ev].status = "none"
             \/ /\ dv[e][ev].status = "pending"
                /\ dv[e][ev].leased = TRUE /\ dv[e][ev].held = TRUE
          /\ got[e][ev] = 0
      BY <2>2, <3>1, <1>2, <1>10 DEF OnceAt
    <3>3. got'[e][ev] <= 1 /\ (result # "ok" => got'[e][ev] = 0)
      BY <2>2, <3>1, <3>2, <1>5
    <3>4. \A x \in att' : On(x, e, ev) => x = b
      BY <3>1, <3>2, <1>3
    <3>5. b \in att' /\ On(b, e, ev)
      BY <3>1, <1>3 DEF On
    <3>6. dv'[e][ev] = dv[e][ev]
      OBVIOUS
    <3>7. /\ got'[e][ev] <= 1
          /\ \A x, y \in att' : On(x, e, ev) /\ On(y, e, ev) => x = y
          /\ \A x \in att' : On(x, e, ev) =>
               /\ x.claim = dv'[e][ev].claims
               /\ \/ dv'[e][ev].status = "none"
                  \/ /\ dv'[e][ev].status = "pending"
                     /\ dv'[e][ev].leased = TRUE /\ dv'[e][ev].held = TRUE
               /\ x.result # "ok" => got'[e][ev] = 0
          /\ dv'[e][ev].status = "pending" /\ (\A x \in att' : ~On(x, e, ev)) =>
               got'[e][ev] = 0
      BY <3>2, <3>3, <3>4, <3>5, <3>6, <1>3, Zenon
    <3> QED
      BY <3>7, Zenon DEF OnceAt, On
  <2>3. CASE ev \in excused'[e]
    BY <2>3 DEF OnceAt
  <2> QED
    BY <2>1, <2>2, <2>3
<1> QED
  BY <1>4, <1>5, <1>6, <1>7, <1>9, <1>10, AttemptStep

\* Dispatcher::send.
LEMMA SendStep ==
  ASSUME IInv, NEW a, NEW result \in {"ok", "fail", "gone"}, Send(a, result)
  PROVE  IInv' /\ CursorsAdvance
<1>1. /\ Ends(a, result)
      /\ got' = IF result = "ok" THEN [got EXCEPT ![a.ep][a.ev] = got[a.ep][a.ev] + 1] ELSE got
      /\ UNCHANGED <<stream, purged, suspended, ep, dv, rep, wanted, raced>>
      /\ budget' = budget /\ excused' = excused
  BY DEF Send
<1>2. /\ budget' \in [events : Nat, faults : Nat, changes : Nat]
      /\ excused' \in [Endpoints -> SUBSET Events]
  BY <1>1 DEF IInv, TypeOK
<1>3. \A e \in Endpoints : excused[e] \subseteq excused'[e]
  BY <1>1
<1>4. \/ got' = got
      \/ /\ got' = [got EXCEPT ![a.ep][a.ev] = got[a.ep][a.ev] + 1]
         /\ result = "ok" \/ a.ev \in excused'[a.ep]
  BY <1>1
<1> QED
  BY <1>1, <1>2, <1>3, <1>4, EndedStep

\* The answer is lost.
LEMMA AnswerLostStep ==
  ASSUME IInv, NEW a, AnswerLost(a)
  PROVE  IInv' /\ CursorsAdvance
<1>1. /\ Ends(a, "fail") /\ Spend("faults") /\ Excuse({a})
      /\ got' = [got EXCEPT ![a.ep][a.ev] = got[a.ep][a.ev] + 1]
      /\ UNCHANGED <<stream, purged, suspended, ep, dv, rep, wanted, raced>>
  BY DEF AnswerLost
<1>2. TypeOK /\ a \in att
  BY <1>1 DEF IInv, Ends
<1>3. budget' \in [events : Nat, faults : Nat, changes : Nat]
  BY <1>1, <1>2, SpendFacts DEF TypeOK
<1>4. /\ excused' \in [Endpoints -> SUBSET Events]
      /\ \A e \in Endpoints : excused[e] \subseteq excused'[e]
      /\ a.ev \in excused'[a.ep]
  <2>1. {a} \subseteq att
    BY <1>2
  <2> QED
    BY <2>1, <1>1, <1>2, ExcuseFacts
<1> QED
  BY <1>1, <1>3, <1>4, EndedStep

\* A step of one delivery, and of an attempt of it.
LEMMA DeliveryStep ==
  ASSUME IInv, NEW e \in Endpoints, NEW ev \in Events,
         UNCHANGED <<stream, purged, suspended, rep, wanted, raced, got>>,
         ep' \in [Endpoints -> EndpointStates], EndpointsStay,
         dv' \in [Endpoints -> [Events -> DeliveryStates]],
         \A f \in Endpoints, fv \in Events : f # e \/ fv # ev => dv'[f][fv] = dv[f][fv],
         dv'[e][ev].status = "none" <=> dv[e][ev].status = "none",
         dv'[e][ev].status = "pending" => /\ dv[e][ev].status = "pending" \/ ev \in excused'[e]
                                          /\ dv'[e][ev].tries < MaxTries,
         att' \subseteq att, \A a : ~On(a, e, ev) => (a \in att' <=> a \in att),
         budget' \in [events : Nat, faults : Nat, changes : Nat],
         excused' \in [Endpoints -> SUBSET Events],
         \A f \in Endpoints : excused[f] \subseteq excused'[f],
         OnceAt(e, ev) => OnceAt(e, ev)'
  PROVE  IInv' /\ CursorsAdvance
<1>1. TypeOK /\ TriesLeft
  BY DEF IInv
<1>2. /\ att' \subseteq AttemptStates /\ got' \in [Endpoints -> [Events -> Nat]]
      /\ rep' \in [Replicas -> Rounds]
  BY <1>1 DEF TypeOK
<1>3. TriesLeft'
  <2>1. SUFFICES ASSUME NEW f \in Endpoints, NEW fv \in Events, dv'[f][fv].status = "pending"
                 PROVE  dv'[f][fv].tries < MaxTries
    BY DEF TriesLeft
  <2> QED
    BY <2>1, <1>1 DEF TriesLeft
<1>4. RoundsShrink
  BY RoundsSame
<1>5. DeliveriesStay
  <2>1. ASSUME NEW f \in Endpoints, NEW fv \in Events
        PROVE  /\ dv'[f][fv].status = "none" <=> dv[f][fv].status = "none"
               /\ dv'[f][fv].status = "pending" =>
                    dv[f][fv].status = "pending" \/ fv \in excused'[f]
               /\ got'[f][fv] # got[f][fv] => \E a \in att : On(a, f, fv)
               /\ \A a \in att' : On(a, f, fv) => \E b \in att : On(b, f, fv)
    <3>1. CASE f = e /\ fv = ev
      BY <3>1
    <3>2. CASE f # e \/ fv # ev
      BY <3>2
    <3> QED
      BY <3>1, <3>2
  <2> QED
    BY <2>1 DEF DeliveriesStay
<1>6. ASSUME NEW f \in Endpoints, NEW fv \in Events, OnceAt(f, fv)
      PROVE  OnceAt(f, fv)'
  <2>1. CASE f = e /\ fv = ev
    BY <2>1, <1>6
  <2>2. CASE f # e \/ fv # ev
    <3>1. \A a : On(a, f, fv) => ~On(a, e, ev)
      BY <2>2 DEF On
    <3>2. Untouched(f, fv)
      BY <2>2, <3>1 DEF Untouched
    <3> QED
      BY <3>2, <1>6, OnceFrame
  <2> QED
    BY <2>1, <2>2
<1> QED
  BY <1>2, <1>3, <1>4, <1>5, <1>6, AttemptStep

\* A lease ends; under its attempt it is an excuse.
LEMMA LeaseEndsStep ==
  ASSUME IInv, NEW e \in Endpoints, NEW ev \in Events, LeaseEnds(e, ev)
  PROVE  IInv' /\ CursorsAdvance
<1>1. TypeOK /\ TriesLeft
  BY DEF IInv
<1>2. /\ dv' = [dv EXCEPT ![e][ev].leased = FALSE]
      /\ budget' = budget \/ Spend("faults")
      /\ Excuse(InFlight(e, ev))
      /\ UNCHANGED <<stream, purged, suspended, ep, rep, att, wanted, raced, got>>
  BY DEF LeaseEnds
<1>3. /\ budget \in [events : Nat, faults : Nat, changes : Nat]
      /\ dv \in [Endpoints -> [Events -> DeliveryStates]]
  BY <1>1 DEF TypeOK
<1>4. budget' \in [events : Nat, faults : Nat, changes : Nat]
  BY <1>2, <1>3, SpendFacts
<1>5. InFlight(e, ev) \subseteq att
  BY DEF InFlight
<1>6. /\ excused' \in [Endpoints -> SUBSET Events]
      /\ \A f \in Endpoints : excused[f] \subseteq excused'[f]
      /\ \A a \in InFlight(e, ev) : a.ev \in excused'[a.ep]
  BY <1>1, <1>2, <1>5, ExcuseFacts
<1>7. PICK d \in DeliveryStates : d = dv[e][ev]
  BY <1>3
<1>8. PICK q : q = [d EXCEPT !.leased = FALSE]
  OBVIOUS
<1>9. q \in DeliveryStates /\ q.status = d.status /\ q.claims = d.claims /\ q.tries = d.tries
  BY <1>8 DEF DeliveryStates
<1>10. dv' = [dv EXCEPT ![e][ev] = q]
  BY <1>2, <1>7, <1>8, Zenon
<1>11. /\ dv' \in [Endpoints -> [Events -> DeliveryStates]] /\ dv'[e][ev] = q
       /\ \A f \in Endpoints, fv \in Events : f # e \/ fv # ev => dv'[f][fv] = dv[f][fv]
  BY <1>3, <1>9, <1>10
<1>12. dv'[e][ev].status = "pending" => dv'[e][ev].tries < MaxTries
  BY <1>1, <1>7, <1>9, <1>11 DEF TriesLeft
<1>13. ASSUME OnceAt(e, ev)
       PROVE  OnceAt(e, ev)'
  <2>1. CASE ev \in excused'[e]
    BY <2>1 DEF OnceAt
  <2>2. CASE ev \notin excused'[e]
    <3>1. \A a \in att : ~On(a, e, ev)
      <4>1. \A a \in att : On(a, e, ev) => a.claim = dv[e][ev].claims
        BY <2>2, <1>6, <1>13 DEF OnceAt
      <4>2. \A a \in att : On(a, e, ev) => a \in InFlight(e, ev)
        BY <4>1 DEF InFlight, On
      <4> QED
        BY <4>2, <2>2, <1>6 DEF On
    <3>2. got[e][ev] <= 1 /\ (dv[e][ev].status = "pending" => got[e][ev] = 0)
      BY <2>2, <3>1, <1>6, <1>13 DEF OnceAt
    <3>3. att' = att /\ got' = got /\ dv'[e][ev].status = dv[e][ev].status
      BY <1>2, <1>7, <1>9, <1>11
    <3> QED
      BY <3>1, <3>2, <3>3, Zenon DEF OnceAt, On
  <2> QED
    BY <2>1, <2>2
<1>14. ep' \in [Endpoints -> EndpointStates] /\ EndpointsStay
  BY <1>1, <1>2, EndpointsSame
<1>15. dv'[e][ev].status = dv[e][ev].status
  BY <1>7, <1>9, <1>11
<1>16. /\ dv'[e][ev].status = "none" <=> dv[e][ev].status = "none"
       /\ dv'[e][ev].status = "pending" => /\ dv[e][ev].status = "pending" \/ ev \in excused'[e]
                                           /\ dv'[e][ev].tries < MaxTries
       /\ att' \subseteq att /\ \A a : ~On(a, e, ev) => (a \in att' <=> a \in att)
  BY <1>2, <1>12, <1>15
<1>17. UNCHANGED <<stream, purged, suspended, rep, wanted, raced, got>>
  BY <1>2
<1> QED
  BY <1>16, <1>17, <1>4, <1>6, <1>11, <1>13, <1>14, DeliveryStep

\* What a new delivery, or one made anew, is.
LEMMA NewFacts ==
  ASSUME NEW d \in DeliveryStates
  PROVE  /\ NewDelivery(d) \in DeliveryStates /\ NewDelivery(d).status = "pending"
         /\ NewDelivery(d).tries = 0 /\ NewDelivery(d).claims = d.claims
         /\ [NoDelivery EXCEPT !.claims = d.claims] \in DeliveryStates
         /\ [NoDelivery EXCEPT !.claims = d.claims].status = "none"
         /\ [NoDelivery EXCEPT !.claims = d.claims].claims = d.claims
<1>1. d.claims \in Nat /\ MaxTries \in Nat
  BY DeliveryFacts, BoundsAssumption
<1>2. PICK n \in Nat : n = d.claims
  BY <1>1
<1>3. 0 \in 0..MaxTries
  BY <1>1
<1>4. /\ NoDelivery \in DeliveryStates /\ NoDelivery.status = "none" /\ NoDelivery.tries = 0
  BY <1>3 DEF NoDelivery, DeliveryStates, Status
<1>5. PICK N \in DeliveryStates : N = NoDelivery
  BY <1>4
<1>6. PICK p : p = [N EXCEPT !.status = "pending", !.claims = n]
  OBVIOUS
<1>7. p \in DeliveryStates /\ p.status = "pending" /\ p.claims = n /\ p.tries = N.tries
  BY <1>6 DEF DeliveryStates, Status
<1>8. PICK q : q = [N EXCEPT !.claims = n]
  OBVIOUS
<1>9. q \in DeliveryStates /\ q.status = N.status /\ q.claims = n
  BY <1>8 DEF DeliveryStates
<1>10. NewDelivery(d) = p /\ [NoDelivery EXCEPT !.claims = d.claims] = q
  BY <1>2, <1>5, <1>6, <1>8, Zenon DEF NewDelivery
<1> QED
  BY <1>2, <1>4, <1>5, <1>7, <1>9, <1>10, Zenon

\* retry_delivery.
LEMMA RetryDeliveryStep ==
  ASSUME IInv, NEW e \in Endpoints, NEW ev \in Events, RetryDelivery(e, ev)
  PROVE  IInv' /\ CursorsAdvance
<1>1. TypeOK
  BY DEF IInv
<1>2. /\ Spend("changes") /\ dv[e][ev].status \in {"delivered", "failed"}
      /\ dv' = [dv EXCEPT ![e][ev] = NewDelivery(dv[e][ev])]
      /\ excused' = [excused EXCEPT ![e] = excused[e] \cup {ev}]
      /\ UNCHANGED <<stream, purged, suspended, ep, rep, att, wanted, raced, got>>
  BY DEF RetryDelivery
<1>3. /\ budget \in [events : Nat, faults : Nat, changes : Nat]
      /\ dv \in [Endpoints -> [Events -> DeliveryStates]]
      /\ excused \in [Endpoints -> SUBSET Events]
  BY <1>1 DEF TypeOK
<1>4. budget' \in [events : Nat, faults : Nat, changes : Nat]
  BY <1>2, <1>3, SpendFacts
<1>5. PICK q : q = NewDelivery(dv[e][ev])
  OBVIOUS
<1>6. q \in DeliveryStates /\ q.status = "pending" /\ q.tries = 0
  <2>1. dv[e][ev] \in DeliveryStates
    BY <1>3
  <2> QED
    BY <2>1, <1>5, NewFacts
<1>7. /\ dv' \in [Endpoints -> [Events -> DeliveryStates]] /\ dv'[e][ev] = q
      /\ \A f \in Endpoints, fv \in Events : f # e \/ fv # ev => dv'[f][fv] = dv[f][fv]
  <2>1. dv' = [dv EXCEPT ![e][ev] = q]
    BY <1>2, <1>5
  <2> QED
    BY <2>1, <1>3, <1>6
<1>8. /\ excused' \in [Endpoints -> SUBSET Events] /\ ev \in excused'[e]
      /\ \A f \in Endpoints : excused[f] \subseteq excused'[f]
  BY <1>2, <1>3
<1>9. OnceAt(e, ev)'
  BY <1>8 DEF OnceAt
<1>10. dv'[e][ev].tries < MaxTries
  BY <1>6, <1>7, BoundsAssumption
<1>11. ep' \in [Endpoints -> EndpointStates] /\ EndpointsStay
  BY <1>1, <1>2, EndpointsSame
<1>12. dv'[e][ev].status # "none" /\ dv[e][ev].status # "none"
  BY <1>2, <1>6, <1>7
<1> QED
  BY <1>2, <1>4, <1>7, <1>8, <1>9, <1>10, <1>11, <1>12, DeliveryStep

\* purge_deliveries.
LEMMA PurgeDeliveryStep ==
  ASSUME IInv, NEW e \in Endpoints, NEW ev \in Events, PurgeDelivery(e, ev)
  PROVE  IInv' /\ CursorsAdvance
<1>1. TypeOK
  BY DEF IInv
<1>2. /\ Spend("changes") /\ dv[e][ev].status \in {"delivered", "failed"}
      /\ dv' = [dv EXCEPT ![e][ev].status = "purged"]
      /\ UNCHANGED <<stream, purged, suspended, ep, rep, att, wanted, raced, got>>
      /\ excused' = excused
  BY DEF PurgeDelivery, history
<1>3. /\ budget \in [events : Nat, faults : Nat, changes : Nat]
      /\ dv \in [Endpoints -> [Events -> DeliveryStates]]
      /\ excused \in [Endpoints -> SUBSET Events]
  BY <1>1 DEF TypeOK
<1>4. budget' \in [events : Nat, faults : Nat, changes : Nat]
  BY <1>2, <1>3, SpendFacts
<1>5. PICK d \in DeliveryStates : d = dv[e][ev]
  BY <1>3
<1>6. PICK q : q = [d EXCEPT !.status = "purged"]
  OBVIOUS
<1>7. q \in DeliveryStates /\ q.status = "purged"
  BY <1>6 DEF DeliveryStates, Status
<1>8. /\ dv' \in [Endpoints -> [Events -> DeliveryStates]] /\ dv'[e][ev] = q
      /\ \A f \in Endpoints, fv \in Events : f # e \/ fv # ev => dv'[f][fv] = dv[f][fv]
  <2>1. dv' = [dv EXCEPT ![e][ev] = q]
    BY <1>2, <1>5, <1>6, Zenon
  <2> QED
    BY <2>1, <1>3, <1>7
<1>9. ASSUME OnceAt(e, ev)
      PROVE  OnceAt(e, ev)'
  <2>1. CASE ev \in excused[e]
    BY <2>1, <1>2 DEF OnceAt
  <2>2. CASE ev \notin excused[e]
    <3>1. got[e][ev] <= 1 /\ \A a \in att : ~On(a, e, ev)
      BY <2>2, <1>2, <1>9 DEF OnceAt
    <3>2. att' = att /\ got' = got /\ dv'[e][ev].status = "purged"
      BY <1>2, <1>7, <1>8
    <3> QED
      BY <3>1, <3>2, Zenon DEF OnceAt, On
  <2> QED
    BY <2>1, <2>2
<1>10. ep' \in [Endpoints -> EndpointStates] /\ EndpointsStay
  BY <1>1, <1>2, EndpointsSame
<1>11. dv'[e][ev].status = "purged" /\ dv[e][ev].status # "none"
  BY <1>2, <1>7, <1>8
<1>12. /\ excused' \in [Endpoints -> SUBSET Events]
       /\ \A f \in Endpoints : excused[f] \subseteq excused'[f]
  BY <1>2, <1>3
<1> QED
  BY <1>2, <1>4, <1>8, <1>9, <1>10, <1>11, <1>12, DeliveryStep

\* WebhookStore::settle: of its own claim only, and pending again only when
\* the receiver has not accepted it.
LEMMA SettleStep ==
  ASSUME IInv, NEW a, Settle(a)
  PROVE  IInv' /\ CursorsAdvance
<1> DEFINE e == a.ep
           ev == a.ev
<1>1. TypeOK /\ TriesLeft
  BY ONLY IInv, ZenonT(90) DEF IInv
<1>2. /\ a \in att /\ a.result # "none" /\ att' = att \ {a}
      /\ stream' = stream /\ purged' = purged /\ suspended' = suspended /\ rep' = rep
      /\ budget' = budget /\ wanted' = wanted /\ raced' = raced /\ got' = got
      /\ excused' = excused
  BY DEF Settle, history
<1>3. /\ budget' \in [events : Nat, faults : Nat, changes : Nat]
      /\ dv \in [Endpoints -> [Events -> DeliveryStates]]
      /\ ep \in [Endpoints -> EndpointStates]
      /\ excused' \in [Endpoints -> SUBSET Events] /\ a \in AttemptStates
  BY <1>1, <1>2 DEF TypeOK
<1>4. e \in Endpoints /\ ev \in Events /\ a.result \in {"ok", "fail", "gone"}
  BY <1>2, <1>3, AttemptFacts
<1>5. /\ UNCHANGED <<stream, purged, suspended, rep, wanted, raced, got>>
      /\ att' \subseteq att /\ \A x : ~On(x, e, ev) => (x \in att' <=> x \in att)
      /\ \A f \in Endpoints : excused[f] \subseteq excused'[f]
  BY <1>2 DEF On
<1>6. ASSUME ev \notin excused[e], OnceAt(e, ev)
      PROVE  /\ got[e][ev] <= 1 /\ \A x \in att' : ~On(x, e, ev)
             /\ a.result = "fail" => got[e][ev] = 0
             /\ OwnClaim(a) \/ dv[e][ev].status # "pending"
  <2>1. On(a, e, ev)
    BY DEF On
  <2>2. /\ got[e][ev] <= 1 /\ \A x \in att : On(x, e, ev) => x = a
        /\ a.result # "ok" => got[e][ev] = 0
    BY <1>2, <1>6, <2>1 DEF OnceAt
  <2>3. /\ a.claim = dv[e][ev].claims
        /\ \/ dv[e][ev].status = "none"
           \/ dv[e][ev].status = "pending" /\ dv[e][ev].held = TRUE
    BY <1>2, <1>6, <2>1 DEF OnceAt
  <2>4. OwnClaim(a) \/ dv[e][ev].status # "pending"
    BY <2>3, Zenon DEF OwnClaim
  <2> QED
    BY <2>2, <2>4, <1>2
<1>7. CASE OwnClaim(a)
  <2> DEFINE counted == a.result # "gone"
  <2> DEFINE d == dv[e][ev]
  <2>1. d \in DeliveryStates /\ d = dv[e][ev]
    BY <1>3, <1>4
  <2>2. PICK status \in Outcomes(d, a.result), disable \in BOOLEAN :
          /\ dv' = [dv EXCEPT ![a.ep][a.ev] =
               [d EXCEPT !.status = status, !.leased = FALSE, !.held = FALSE,
                         !.tries = IF counted THEN d.tries + 1 ELSE d.tries]]
          /\ ep' = [ep EXCEPT
               ![a.ep].failing = IF counted THEN status # "delivered" ELSE ep[a.ep].failing,
               ![a.ep].enabled = ep[a.ep].enabled /\ ~disable]
    BY ONLY <1>7, Settle(a), ZenonT(90) DEF Settle
  <2> HIDE DEF d
  <2>3. d.status = "pending" /\ d.tries \in Nat /\ d.tries < MaxTries /\ MaxTries \in Nat
    <3>1. d.status = "pending"
      BY <1>7, <2>1 DEF OwnClaim
    <3> QED
      BY <3>1, <2>1, <1>1, <1>4, DeliveryFacts, BoundsAssumption DEF TriesLeft
  <2>4. PICK n : n = IF counted THEN d.tries + 1 ELSE d.tries
    OBVIOUS
  <2>5. n \in 0..MaxTries
    BY <2>3, <2>4
  <2>6. /\ status \in {"delivered", "failed", "pending"}
        /\ status = "pending" => a.result = "fail" /\ d.tries + 1 < MaxTries
    BY <1>4, <2>2, <2>3 DEF Outcomes
  <2>7. status = "pending" => n < MaxTries
    BY <2>3, <2>4, <2>6
  <2>8. PICK q : q = [d EXCEPT !.status = status, !.leased = FALSE, !.held = FALSE, !.tries = n]
    OBVIOUS
  <2>9. q \in DeliveryStates /\ q.status = status /\ q.tries = n
    <3>1. status \in Status
      BY ONLY <2>6 DEF Status
    <3> QED
      BY ONLY <3>1, <2>1, <2>5, <2>8 DEF DeliveryStates
  <2>10. /\ dv' \in [Endpoints -> [Events -> DeliveryStates]] /\ dv'[e][ev] = q
         /\ \A f \in Endpoints, fv \in Events : f # e \/ fv # ev => dv'[f][fv] = dv[f][fv]
    <3>1. dv' = [dv EXCEPT ![e][ev] = q]
      BY <2>2, <2>4, <2>8, Zenon
    <3> QED
      BY <3>1, <2>9, <1>3, <1>4
  <2>11. ep' \in [Endpoints -> EndpointStates] /\ EndpointsStay
    <3>1. PICK p \in EndpointStates : p = ep[e]
      BY <1>3, <1>4
    <3>2. PICK failing : failing = IF counted THEN status # "delivered" ELSE ep[a.ep].failing
      OBVIOUS
    <3>3. PICK enabled : enabled = (ep[a.ep].enabled /\ ~disable)
      OBVIOUS
    <3>4. failing \in BOOLEAN /\ enabled \in BOOLEAN
      <4>1. p.failing \in BOOLEAN
        BY DEF EndpointStates
      <4> QED
        BY <3>1, <3>2, <3>3, <4>1
    <3>5. PICK P : P = [p EXCEPT !.failing = failing, !.enabled = enabled]
      OBVIOUS
    <3>6. P \in EndpointStates
      BY <3>4, <3>5 DEF EndpointStates
    <3>7. P.state = p.state /\ P.types = p.types /\ P.cursor = p.cursor
      BY <3>5 DEF EndpointStates
    <3>8. ep' = [ep EXCEPT ![e] = P]
      <4>1. ep' = [ep EXCEPT ![e].failing = failing, ![e].enabled = enabled]
        BY <2>2, <3>2, <3>3, Zenon
      <4> QED
        BY <4>1, <3>1, <3>5, <1>3, <1>4
    <3>9. ep' \in [Endpoints -> EndpointStates]
      BY <3>6, <3>8, <1>3, <1>4
    <3>10. \A f \in Endpoints : f # e => ep'[f] = ep[f]
      BY <3>8, <1>3
    <3>11. ep'[e] = P
      BY <3>8, <1>3, <1>4
    <3> QED
      BY <3>1, <3>7, <3>9, <3>10, <3>11, Zenon DEF EndpointsStay
  <2>12. ASSUME OnceAt(e, ev)
         PROVE  OnceAt(e, ev)'
    <3>1. CASE ev \in excused[e]
      BY <3>1, <1>2 DEF OnceAt
    <3>2. CASE ev \notin excused[e]
      <4>1. /\ got[e][ev] <= 1 /\ \A x \in att' : ~On(x, e, ev)
            /\ a.result = "fail" => got[e][ev] = 0
        BY <3>2, <2>12, <1>6
      <4>2. got' = got /\ (dv'[e][ev].status = "pending" => a.result = "fail")
        BY <2>6, <2>9, <2>10, <1>2
      <4> HIDE DEF e, ev
      <4> QED
        BY <4>1, <4>2, Zenon DEF OnceAt, On
    <3> QED
      BY <3>1, <3>2
  <2>13. /\ dv'[e][ev].status # "none" /\ dv[e][ev].status = "pending"
         /\ dv'[e][ev].status = "pending" => dv'[e][ev].tries < MaxTries
    BY <2>1, <2>3, <2>6, <2>7, <2>9, <2>10
  <2> HIDE DEF e, ev
  <2> QED
    BY <2>10, <2>11, <2>12, <2>13, <1>3, <1>4, <1>5, DeliveryStep
<1>8. CASE ~OwnClaim(a)
  <2>1. dv' = dv /\ ep' = ep
    BY <1>8 DEF Settle
  <2>2. ep' \in [Endpoints -> EndpointStates] /\ EndpointsStay
    BY <2>1, <1>1, EndpointsSame
  <2>3. ASSUME OnceAt(e, ev)
        PROVE  OnceAt(e, ev)'
    <3>1. CASE ev \in excused[e]
      BY <3>1, <1>2 DEF OnceAt
    <3>2. CASE ev \notin excused[e]
      <4>1. /\ got[e][ev] <= 1 /\ \A x \in att' : ~On(x, e, ev)
            /\ dv[e][ev].status # "pending"
        BY <3>2, <2>3, <1>6, <1>8
      <4>2. got' = got /\ dv' = dv
        BY <2>1, <1>2
      <4> HIDE DEF e, ev
      <4> QED
        BY <4>1, <4>2, Zenon DEF OnceAt, On
    <3> QED
      BY <3>1, <3>2
  <2>4. /\ dv' \in [Endpoints -> [Events -> DeliveryStates]]
        /\ \A f \in Endpoints, fv \in Events : f # e \/ fv # ev => dv'[f][fv] = dv[f][fv]
        /\ dv'[e][ev].status = "none" <=> dv[e][ev].status = "none"
        /\ dv'[e][ev].status = "pending" =>
             dv[e][ev].status = "pending" /\ dv'[e][ev].tries < MaxTries
    BY <2>1, <1>1, <1>3, <1>4 DEF TriesLeft
  <2> HIDE DEF e, ev
  <2> QED
    BY <2>2, <2>3, <2>4, <1>3, <1>4, <1>5, DeliveryStep
<1> QED
  BY <1>7, <1>8

\* What a claim picks.
LEMMA PickedFacts ==
  ASSUME TypeOK, NEW r \in Replicas, NEW picked \in SUBSET (Endpoints \X Events),
         Claims(r, picked)
  PROVE  \A e \in Endpoints, ev \in Events : <<e, ev>> \in picked =>
           /\ dv[e][ev].status = "pending" /\ dv[e][ev].leased = FALSE
           /\ ~BusyEndpoint(r, e) /\ ~Busy(r, ev[1])
<1>1. SUFFICES ASSUME NEW e \in Endpoints, NEW ev \in Events, <<e, ev>> \in picked
               PROVE  /\ dv[e][ev].status = "pending" /\ dv[e][ev].leased = FALSE
                      /\ ~BusyEndpoint(r, e) /\ ~Busy(r, ev[1])
  OBVIOUS
<1>2. PICK x \in picked : x = <<e, ev>>
  BY <1>1
<1>3. x \in Due(r, x[2][1]) /\ x[1] = e /\ x[2] = ev
  BY <1>2 DEF Claims
<1>4. Eligible(r, e, ev)
  BY <1>3 DEF Due
<1>5. dv[e][ev].leased \in BOOLEAN
  BY TypeFacts, DeliveryFacts
<1> QED
  BY <1>4, <1>5, Zenon DEF Eligible

\* An attempt begins.
LEMMA AttemptMade ==
  ASSUME TypeOK, NEW r \in Replicas, NEW e \in Endpoints, NEW ev \in Events
  PROVE  /\ Attempt(r, e, ev) \in AttemptStates
         /\ Attempt(r, e, ev).rep = r
         /\ Attempt(r, e, ev).ep = e /\ Attempt(r, e, ev).ev = ev
         /\ Attempt(r, e, ev).claim = dv[e][ev].claims + 1
         /\ Attempt(r, e, ev).result = "none"
<1>1. PICK n : n = dv[e][ev].claims + 1
  OBVIOUS
<1>2. n \in Nat
  BY <1>1, TypeFacts, DeliveryFacts
<1>3. PICK named : named = Receives(ep[e], ev[1])
  OBVIOUS
<1>4. named \in BOOLEAN
  BY <1>3 DEF Receives
<1>5. PICK a : a = [rep |-> r, ep |-> e, ev |-> ev, claim |-> n, named |-> named,
                    result |-> "none"]
  OBVIOUS
<1>6. /\ a \in AttemptStates /\ a.ep = e /\ a.ev = ev /\ a.claim = n /\ a.result = "none"
      /\ a.rep = r
  BY <1>2, <1>4, <1>5 DEF AttemptStates
<1>7. Attempt(r, e, ev) = a
  BY <1>1, <1>3, <1>5, Zenon DEF Attempt
<1> QED
  BY <1>1, <1>6, <1>7, Zenon

\* WebhookStore::claim takes what waits and is not leased: unless there is
\* a cause, nothing is under way for it and nobody has accepted it.
LEMMA ClaimStep ==
  ASSUME IInv, NEW r \in Replicas, Claim(r)
  PROVE  IInv' /\ CursorsAdvance
<1>1. TypeOK /\ TriesLeft
  BY DEF IInv
<1>2. /\ stream' = stream /\ purged' = purged /\ suspended' = suspended /\ rep' = rep
      /\ budget' = budget /\ wanted' = wanted /\ raced' = raced /\ got' = got
      /\ excused' = excused /\ ep' = ep
  BY DEF Claim, history
<1>3. /\ budget' \in [events : Nat, faults : Nat, changes : Nat]
      /\ dv \in [Endpoints -> [Events -> DeliveryStates]]
      /\ rep' \in [Replicas -> Rounds] /\ att \subseteq AttemptStates
      /\ excused' \in [Endpoints -> SUBSET Events] /\ got' \in [Endpoints -> [Events -> Nat]]
  BY <1>1, <1>2 DEF TypeOK
<1>4. PICK picked \in SUBSET (Endpoints \X Events) :
        /\ Claims(r, picked)
        /\ dv' = [e \in Endpoints |-> [ev \in Events |->
             IF <<e, ev>> \in picked
               THEN [dv[e][ev] EXCEPT !.leased = TRUE, !.held = TRUE,
                                      !.claims = dv[e][ev].claims + 1]
               ELSE dv[e][ev]]]
        /\ att' = att \cup {Attempt(r, x[1], x[2]) : x \in picked}
  BY DEF Claim
<1>5. \A e \in Endpoints, ev \in Events : <<e, ev>> \in picked =>
        dv[e][ev].status = "pending" /\ dv[e][ev].leased = FALSE
  BY <1>1, <1>4, PickedFacts
<1>6. ASSUME NEW e \in Endpoints, NEW ev \in Events, <<e, ev>> \in picked
      PROVE  /\ dv'[e][ev] \in DeliveryStates
             /\ dv'[e][ev].status = dv[e][ev].status /\ dv'[e][ev].tries = dv[e][ev].tries
             /\ dv'[e][ev].leased = TRUE /\ dv'[e][ev].held = TRUE
             /\ dv'[e][ev].claims = dv[e][ev].claims + 1
  <2>1. PICK d \in DeliveryStates : d = dv[e][ev]
    BY <1>3
  <2>2. PICK n : n = d.claims + 1
    OBVIOUS
  <2>3. n \in Nat
    BY <2>2, DeliveryFacts
  <2>4. PICK q : q = [d EXCEPT !.leased = TRUE, !.held = TRUE, !.claims = n]
    OBVIOUS
  <2>5. q \in DeliveryStates /\ q.status = d.status /\ q.tries = d.tries /\ q.claims = n
    BY <2>3, <2>4 DEF DeliveryStates
  <2>6. q.leased = TRUE /\ q.held = TRUE
    BY <2>4 DEF DeliveryStates
  <2>7. dv'[e][ev] = q
    BY <1>4, <1>6, <2>1, <2>2, <2>4, Zenon
  <2> QED
    BY <2>1, <2>2, <2>5, <2>6, <2>7, Zenon
<1>7. \A e \in Endpoints, ev \in Events : <<e, ev>> \notin picked => dv'[e][ev] = dv[e][ev]
  BY <1>4, Zenon
<1>8. dv' \in [Endpoints -> [Events -> DeliveryStates]]
  <2>1. \A e \in Endpoints, ev \in Events : dv'[e][ev] \in DeliveryStates
    BY <1>3, <1>6, <1>7
  <2>2. \E D : dv' = [e \in Endpoints |-> [ev \in Events |-> D[e][ev]]]
    <3>1. dv' = [e \in Endpoints |-> [ev \in Events |-> dv'[e][ev]]]
      BY <1>4, Zenon
    <3> QED
      BY <3>1
  <2> QED
    BY <2>1, <2>2
<1>9. \A e \in Endpoints, ev \in Events :
        /\ dv'[e][ev].status = dv[e][ev].status /\ dv'[e][ev].tries = dv[e][ev].tries
  BY <1>6, <1>7, Zenon
<1>10. \A a \in att' :
         \/ a \in att
         \/ \E e \in Endpoints, ev \in Events : <<e, ev>> \in picked /\ a = Attempt(r, e, ev)
  <2>1. SUFFICES ASSUME NEW a \in att', a \notin att
                 PROVE  \E e \in Endpoints, ev \in Events :
                          <<e, ev>> \in picked /\ a = Attempt(r, e, ev)
    OBVIOUS
  <2>2. PICK x \in picked : a = Attempt(r, x[1], x[2])
    BY <1>4, <2>1
  <2>3. x = <<x[1], x[2]>> /\ x[1] \in Endpoints /\ x[2] \in Events
    <3>1. x \in Endpoints \X Events
      BY <2>2
    <3> QED
      BY <3>1
  <2>4. <<x[1], x[2]>> \in picked
    BY <2>3
  <2> QED
    BY <2>2, <2>3, <2>4, Zenon
<1>11. \A e \in Endpoints, ev \in Events : <<e, ev>> \in picked => Attempt(r, e, ev) \in att'
  <2>1. SUFFICES ASSUME NEW e \in Endpoints, NEW ev \in Events, <<e, ev>> \in picked
                 PROVE  Attempt(r, e, ev) \in att'
    OBVIOUS
  <2>2. PICK x \in picked : x = <<e, ev>>
    BY <2>1
  <2>3. x[1] = e /\ x[2] = ev
    BY <2>2
  <2>4. Attempt(r, x[1], x[2]) \in att'
    BY <1>4
  <2> QED
    BY <2>3, <2>4, Zenon
<1>12. \A e \in Endpoints, ev \in Events :
        /\ Attempt(r, e, ev) \in AttemptStates
        /\ Attempt(r, e, ev).ep = e /\ Attempt(r, e, ev).ev = ev
        /\ Attempt(r, e, ev).claim = dv[e][ev].claims + 1
  BY <1>1, AttemptMade
<1>13. \A a \in att' : a \in AttemptStates
  <2>1. \A a \in att : a \in AttemptStates
    BY <1>3
  <2>2. ASSUME NEW a \in att', a \notin att
        PROVE  a \in AttemptStates
    <3>1. PICK e \in Endpoints, ev \in Events : a = Attempt(r, e, ev)
      BY <2>2, <1>10
    <3>2. Attempt(r, e, ev) \in AttemptStates
      BY <1>12
    <3> QED
      BY <3>1, <3>2, Zenon
  <2> QED
    BY <2>1, <2>2
<1>14. \A a \in att', e \in Endpoints, ev \in Events :
         On(a, e, ev) => a \in att \/ (<<e, ev>> \in picked /\ a = Attempt(r, e, ev))
  <2>1. SUFFICES ASSUME NEW a \in att', NEW e \in Endpoints, NEW ev \in Events,
                        On(a, e, ev), a \notin att
                 PROVE  <<e, ev>> \in picked /\ a = Attempt(r, e, ev)
    OBVIOUS
  <2>2. PICK f \in Endpoints, fv \in Events : <<f, fv>> \in picked /\ a = Attempt(r, f, fv)
    BY <2>1, <1>10
  <2>3. f = e /\ fv = ev
    BY <2>1, <2>2, <1>12, Zenon DEF On
  <2> QED
    BY <2>2, <2>3, Zenon
<1>15. TriesLeft'
  BY <1>1, <1>9, Zenon DEF TriesLeft
<1>16. DeliveriesStay
  <2>1. \A e \in Endpoints, ev \in Events : \A a \in att' : On(a, e, ev) =>
          dv[e][ev].status # "none" \/ \E b \in att : On(b, e, ev)
    BY <1>5, <1>14
  <2> QED
    BY <2>1, <1>2, <1>9, Zenon DEF DeliveriesStay
<1>17. ASSUME NEW e \in Endpoints, NEW ev \in Events, OnceAt(e, ev)
       PROVE  OnceAt(e, ev)'
  <2>1. CASE <<e, ev>> \notin picked
    <3>1. \A a : On(a, e, ev) => (a \in att' <=> a \in att)
      BY <2>1, <1>4, <1>14
    <3>2. Untouched(e, ev)
      BY <2>1, <3>1, <1>2, <1>7, Zenon DEF Untouched
    <3> QED
      BY <3>2, <1>2, <1>17, OnceFrame
  <2>2. CASE <<e, ev>> \in picked /\ ev \in excused[e]
    BY <2>2, <1>2 DEF OnceAt
  <2>3. CASE <<e, ev>> \in picked /\ ev \notin excused[e]
    <3>1. dv[e][ev].status = "pending" /\ dv[e][ev].leased = FALSE
      BY <2>3, <1>5
    <3>2. \A a \in att : ~On(a, e, ev)
      BY <2>3, <3>1, <1>17 DEF OnceAt
    <3>3. got[e][ev] = 0
      BY <2>3, <3>1, <3>2, <1>17 DEF OnceAt
    <3>4. PICK b : b = Attempt(r, e, ev)
      OBVIOUS
    <3>5. /\ b \in att' /\ On(b, e, ev) /\ b.claim = dv'[e][ev].claims
          /\ \A a \in att' : On(a, e, ev) => a = b
      <4>1. /\ b.ep = e /\ b.ev = ev /\ b.claim = dv[e][ev].claims + 1
            /\ dv'[e][ev].claims = dv[e][ev].claims + 1
        <5>1. /\ Attempt(r, e, ev).ep = e /\ Attempt(r, e, ev).ev = ev
              /\ Attempt(r, e, ev).claim = dv[e][ev].claims + 1
          BY <1>12
        <5>2. dv'[e][ev].claims = dv[e][ev].claims + 1
          BY <2>3, <1>6
        <5> QED
          BY <5>1, <5>2, <3>4, Zenon
      <4>2. b \in att'
        BY <2>3, <3>4, <1>11, Zenon
      <4>3. \A a \in att' : On(a, e, ev) => a = b
        BY <3>2, <3>4, <1>14, Zenon
      <4> QED
        BY <4>1, <4>2, <4>3 DEF On
    <3>6. /\ dv'[e][ev].status = "pending"
          /\ dv'[e][ev].leased = TRUE /\ dv'[e][ev].held = TRUE
      BY <2>3, <3>1, <1>6, Zenon
    <3>7. got'[e][ev] = 0 /\ got'[e][ev] <= 1
      BY <3>3, <1>2
    <3>8. /\ got'[e][ev] <= 1
          /\ \A a, c \in att' : On(a, e, ev) /\ On(c, e, ev) => a = c
          /\ \A a \in att' : On(a, e, ev) =>
               /\ a.claim = dv'[e][ev].claims
               /\ \/ dv'[e][ev].status = "none"
                  \/ /\ dv'[e][ev].status = "pending"
                     /\ dv'[e][ev].leased = TRUE /\ dv'[e][ev].held = TRUE
               /\ a.result # "ok" => got'[e][ev] = 0
          /\ dv'[e][ev].status = "pending" /\ (\A a \in att' : ~On(a, e, ev)) =>
               got'[e][ev] = 0
      BY <3>5, <3>6, <3>7, Zenon
    <3> QED
      BY <3>8, Zenon DEF OnceAt, On
  <2> QED
    BY <2>1, <2>2, <2>3
<1>18. ep' \in [Endpoints -> EndpointStates] /\ EndpointsStay /\ RoundsShrink
  BY <1>1, <1>2, EndpointsSame, RoundsSame
<1>19. att' \subseteq AttemptStates
  BY <1>13
<1> QED
  BY <1>2, <1>3, <1>8, <1>15, <1>16, <1>17, <1>18, <1>19, AttemptStep

-----------------------------------------------------------------------------
(* Changes of endpoints.                                                   *)

\* An endpoint is created or changed: a stream it goes on receiving keeps
\* its cursor, a delivery it drops is of a stream it does not receive, and
\* what it will see again is excused.
LEMMA EndpointStep ==
  ASSUME IInv, NEW e \in Endpoints,
         UNCHANGED <<stream, purged, suspended, rep, att, raced, got>>,
         budget' \in [events : Nat, faults : Nat, changes : Nat],
         ep' \in [Endpoints -> EndpointStates],
         dv' \in [Endpoints -> [Events -> DeliveryStates]],
         wanted' \in [Endpoints -> SUBSET Events], excused' \in [Endpoints -> SUBSET Events],
         \A f \in Endpoints : f # e => /\ ep'[f] = ep[f] /\ dv'[f] = dv[f]
                                       /\ wanted'[f] = wanted[f] /\ excused'[f] = excused[f],
         ep'[e].state # "none",
         ep'[e].state # "made" => \A t \in Tenants : ep'[e].cursor[t] = NotNamed,
         \A t \in Tenants : /\ ep'[e].cursor[t] >= -1 /\ ep'[e].cursor[t] <= Last(t)
                            /\ \/ ep'[e].cursor[t] = ep[e].cursor[t]
                               \/ ep[e].cursor[t] = NotNamed \/ ep'[e].cursor[t] = NotNamed,
         \A ev \in Events :
           \/ /\ dv'[e][ev] = dv[e][ev]
              /\ dv[e][ev].status = "pending" /\ ep[e].cursor[ev[1]] # NotNamed =>
                   ep'[e].cursor[ev[1]] # NotNamed
           \/ /\ dv'[e][ev].status = "none" /\ dv'[e][ev].claims = dv[e][ev].claims
              /\ ep'[e].cursor[ev[1]] = NotNamed,
         \A ev \in wanted'[e] :
           /\ ev \in wanted[e] /\ ep'[e].cursor[ev[1]] # NotNamed
           /\ ev[2] > ep'[e].cursor[ev[1]] => TypeOf(ev) \in ep'[e].types,
         excused[e] \subseteq excused'[e],
         \A ev \in Events :
           Seen(e, ev) /\ ev \notin excused'[e]
             /\ ep[e].cursor[ev[1]] = NotNamed /\ ep'[e].cursor[ev[1]] # NotNamed =>
                ev[2] <= ep'[e].cursor[ev[1]]
  PROVE  IInv' /\ CursorsAdvance
<1>1. /\ TypeOK /\ TriesLeft /\ Unmade /\ RoundsHold /\ PagesHold /\ WantedIsAsked
      /\ MissedOnlyRaced /\ PendingIsNamed /\ SeenIsPast /\ OneAttempt
  BY DEF IInv
<1>2. \A ev \in Events : ev[1] \in Tenants /\ ev[2] \in Nat
  BY EventFacts
<1>3. \A f \in Endpoints, t \in Tenants :
        /\ ep'[f].cursor[t] \in Int /\ ep'[f].cursor[t] >= -1 /\ ep'[f].cursor[t] <= Last(t)
        /\ \/ ep'[f].cursor[t] = ep[f].cursor[t]
           \/ ep[f].cursor[t] = NotNamed \/ ep'[f].cursor[t] = NotNamed
  <2>1. SUFFICES ASSUME NEW f \in Endpoints, NEW t \in Tenants
                 PROVE  /\ ep'[f].cursor[t] \in Int /\ ep'[f].cursor[t] >= -1
                        /\ ep'[f].cursor[t] <= Last(t)
                        /\ \/ ep'[f].cursor[t] = ep[f].cursor[t]
                           \/ ep[f].cursor[t] = NotNamed \/ ep'[f].cursor[t] = NotNamed
    OBVIOUS
  <2>2. ep'[f] \in EndpointStates
    OBVIOUS
  <2>3. ep'[f].cursor[t] \in Int
    BY <2>2 DEF EndpointStates
  <2>4. CASE f = e
    BY <2>3, <2>4
  <2>5. CASE f # e
    BY <2>3, <2>5, <1>1, TypeFacts
  <2> QED
    BY <2>4, <2>5
<1>4. StreamsGrow
  BY <1>1, StreamsSame
<1>5. TypeOK'
  <2>1. /\ suspended' \subseteq Tenants /\ rep' \in [Replicas -> Rounds]
        /\ att' \subseteq AttemptStates /\ raced' \in [Endpoints -> SUBSET Events]
        /\ got' \in [Endpoints -> [Events -> Nat]]
    BY <1>1 DEF TypeOK
  <2> QED
    BY <2>1, <1>1, <1>3, <1>4, TypeNext
<1>6. RoundsHold' /\ PagesHold'
  BY <1>1, <1>4, RoundsSame, RoundsFrame
<1>7. \A f \in Endpoints, ev \in Events :
        \/ /\ dv'[f][ev] = dv[f][ev]
           /\ dv[f][ev].status = "pending" /\ ep[f].cursor[ev[1]] # NotNamed =>
                ep'[f].cursor[ev[1]] # NotNamed
        \/ /\ dv'[f][ev].status = "none" /\ dv'[f][ev].claims = dv[f][ev].claims
           /\ ep'[f].cursor[ev[1]] = NotNamed
  <2>1. SUFFICES ASSUME NEW f \in Endpoints, NEW ev \in Events, f # e
                 PROVE  dv'[f] = dv[f] /\ ep'[f] = ep[f]
    OBVIOUS
  <2> QED
    BY <2>1
<1>8. \A f \in Endpoints : excused[f] \subseteq excused'[f]
  OBVIOUS
<1>9. TriesLeft'
  <2>1. SUFFICES ASSUME NEW f \in Endpoints, NEW ev \in Events, dv'[f][ev].status = "pending"
                 PROVE  dv'[f][ev].tries < MaxTries
    BY DEF TriesLeft
  <2> QED
    BY <2>1, <1>1, <1>7 DEF TriesLeft
<1>10. Unmade'
  <2>1. ASSUME NEW f \in Endpoints, ep'[f].state # "made"
        PROVE  \A t \in Tenants : ep'[f].cursor[t] = NotNamed
    BY <2>1, <1>1 DEF Unmade
  <2>2. ASSUME NEW f \in Endpoints, ep'[f].state = "none", NEW ev \in Events
        PROVE  /\ dv'[f][ev].status = "none" /\ got'[f][ev] = 0
               /\ \A a \in att' : ~On(a, f, ev)
    <3>1. f # e /\ ep'[f] = ep[f] /\ dv'[f] = dv[f]
      BY <2>2
    <3> QED
      BY <2>2, <3>1, <1>1 DEF Unmade
  <2> QED
    BY <2>1, <2>2, Zenon DEF Unmade, On
<1>11. \A f \in Endpoints : \A ev \in wanted'[f] :
         /\ ev \in wanted[f] /\ ev \in Events /\ ep'[f].cursor[ev[1]] # NotNamed
         /\ ev[2] > ep'[f].cursor[ev[1]] => TypeOf(ev) \in ep'[f].types
  <2>1. SUFFICES ASSUME NEW f \in Endpoints, NEW ev \in wanted'[f], f # e
                 PROVE  /\ ev \in wanted[f] /\ ep'[f].cursor[ev[1]] # NotNamed
                        /\ ev[2] > ep'[f].cursor[ev[1]] => TypeOf(ev) \in ep'[f].types
    OBVIOUS
  <2>2. wanted'[f] = wanted[f] /\ ep'[f] = ep[f]
    BY <2>1
  <2> QED
    BY <2>2, <1>1 DEF WantedIsAsked, Receives
<1>12. \A f \in Endpoints : \A ev \in wanted'[f] :
         /\ ev[2] <= Last(ev[1]) /\ ep'[f].cursor[ev[1]] = ep[f].cursor[ev[1]]
         /\ ev[2] > ep[f].cursor[ev[1]] => ev[2] > purged[ev[1]]
  <2>1. SUFFICES ASSUME NEW f \in Endpoints, NEW ev \in wanted'[f]
                 PROVE  /\ ev[2] <= Last(ev[1]) /\ ep'[f].cursor[ev[1]] = ep[f].cursor[ev[1]]
                        /\ ev[2] > ep[f].cursor[ev[1]] => ev[2] > purged[ev[1]]
    OBVIOUS
  <2>2. ev \in wanted[f] /\ ev[1] \in Tenants /\ ep'[f].cursor[ev[1]] # NotNamed
    BY <1>2, <1>11
  <2>3. /\ ev[2] <= Last(ev[1]) /\ ep[f].cursor[ev[1]] # NotNamed
        /\ ev[2] > ep[f].cursor[ev[1]] => ev[2] > purged[ev[1]]
    BY <2>2, <1>1 DEF WantedIsAsked, Receives
  <2> QED
    BY <2>2, <2>3, <1>3
<1>13. WantedIsAsked'
  <2>1. SUFFICES ASSUME NEW f \in Endpoints, NEW ev \in wanted'[f]
                 PROVE  /\ ev[2] <= Last(ev[1]) /\ ep'[f].cursor[ev[1]] # NotNamed
                        /\ ev[2] > ep'[f].cursor[ev[1]] =>
                             TypeOf(ev) \in ep'[f].types /\ ev[2] > purged[ev[1]]
    BY DEF WantedIsAsked, Receives, TypeOf, Last
  <2> QED
    BY <1>11, <1>12
<1>14. MissedOnlyRaced'
  <2>1. SUFFICES ASSUME NEW f \in Endpoints, NEW ev \in wanted'[f] \ raced[f],
                        ev[2] <= ep'[f].cursor[ev[1]]
                 PROVE  dv'[f][ev].status # "none"
    BY DEF MissedOnlyRaced
  <2>2. ev \in wanted[f] /\ ev \in Events /\ ep'[f].cursor[ev[1]] # NotNamed
        /\ ev[2] <= ep[f].cursor[ev[1]]
    BY <2>1, <1>11, <1>12
  <2>3. dv[f][ev].status # "none"
    BY <2>1, <2>2, <1>1 DEF MissedOnlyRaced
  <2> QED
    BY <2>2, <2>3, <1>7
<1>15. PendingIsNamed'
  <2>1. SUFFICES ASSUME NEW f \in Endpoints, NEW ev \in Events, ev \notin excused'[f],
                        dv'[f][ev].status = "pending"
                 PROVE  ep'[f].cursor[ev[1]] # NotNamed
    BY DEF PendingIsNamed, Receives
  <2>2. dv'[f][ev] = dv[f][ev] /\ ev \notin excused[f]
    BY <2>1, <1>7, <1>8
  <2>3. ep[f].cursor[ev[1]] # NotNamed
    BY <2>1, <2>2, <1>1 DEF PendingIsNamed, Receives
  <2> QED
    BY <2>1, <2>2, <2>3, <1>7
<1>16. SeenIsPast'
  <2>1. SUFFICES ASSUME NEW f \in Endpoints, NEW ev \in Events, Seen(f, ev)'
                 PROVE  /\ ev[2] <= Last(ev[1])
                        /\ ev \notin excused'[f] /\ ep'[f].cursor[ev[1]] # NotNamed =>
                             ev[2] <= ep'[f].cursor[ev[1]]
    BY DEF SeenIsPast, SeenAt, Receives, Last
  <2>2. Seen(f, ev)
    <3>1. \/ dv'[f][ev].status # "none" \/ got[f][ev] > 0 \/ \E a \in att : On(a, f, ev)
      BY <2>1 DEF Seen, On
    <3> QED
      BY <3>1, <1>7 DEF Seen
  <2>3. /\ ev[2] <= Last(ev[1])
        /\ ev \notin excused[f] /\ ep[f].cursor[ev[1]] # NotNamed =>
             ev[2] <= ep[f].cursor[ev[1]]
    BY <2>2, <1>1 DEF SeenIsPast, SeenAt, Receives
  <2>4. ASSUME ev \notin excused'[f], ep'[f].cursor[ev[1]] # NotNamed,
               ep[f].cursor[ev[1]] = NotNamed
        PROVE  ev[2] <= ep'[f].cursor[ev[1]]
    BY <2>2, <2>4
  <2> QED
    BY <2>3, <2>4, <1>2, <1>3, <1>8
<1>17. OneAttempt'
  <2>1. SUFFICES ASSUME NEW f \in Endpoints, NEW ev \in Events
                 PROVE  OnceAt(f, ev)'
    BY DEF OneAttempt
  <2>2. OnceAt(f, ev)
    BY <1>1 DEF OneAttempt
  <2>3. CASE dv'[f][ev] = dv[f][ev]
    <3>1. Untouched(f, ev)
      BY <2>3 DEF Untouched
    <3> QED
      BY <3>1, <2>2, <1>8, OnceFrame
  <2>4. CASE dv'[f][ev].status = "none" /\ dv'[f][ev].claims = dv[f][ev].claims
    <3>1. att' = att /\ got' = got /\ (ev \notin excused'[f] => ev \notin excused[f])
      BY <1>8
    <3>2. ASSUME ev \notin excused'[f]
          PROVE  /\ got[f][ev] <= 1
                 /\ \A a, b \in att : On(a, f, ev) /\ On(b, f, ev) => a = b
                 /\ \A a \in att : On(a, f, ev) =>
                      a.claim = dv'[f][ev].claims /\ (a.result # "ok" => got[f][ev] = 0)
      BY <3>2, <3>1, <2>2, <2>4, Zenon DEF OnceAt
    <3>3. dv'[f][ev].status # "pending"
      BY <2>4
    <3> QED
      BY <2>4, <3>1, <3>2, <3>3, Zenon DEF OnceAt, On
  <2> QED
    BY <2>3, <2>4, <1>7
<1>18. CursorsAdvance
  BY <1>3 DEF CursorsAdvance, Receives
<1> QED
  BY <1>18, <1>5, <1>6, <1>9, <1>10, <1>13, <1>14, <1>15, <1>16, <1>17, Zenon DEF IInv

\* create_endpoint: nothing is wanted of it or seen by it yet.
LEMMA CreateEndpointStep ==
  ASSUME IInv, NEW e \in Endpoints, NEW types \in SUBSET Types,
         NEW tenants \in SUBSET Tenants, NEW start \in Starts,
         CreateEndpoint(e, types, tenants, start)
  PROVE  IInv' /\ CursorsAdvance
<1> DEFINE C == [t \in Tenants |-> IF t \in tenants THEN start[t] ELSE NotNamed]
<1>1. TypeOK /\ Unmade /\ WantedIsAsked
  BY DEF IInv
<1>2. /\ ep[e].state = "none"
      /\ ep' = [ep EXCEPT ![e] = [state |-> "made", enabled |-> TRUE, failing |-> FALSE,
                                  types |-> types, cursor |-> C]]
      /\ UNCHANGED <<stream, purged, suspended, dv, rep, att, budget, wanted, raced, got,
                     excused>>
  BY DEF CreateEndpoint, history
<1>3. \A t \in Tenants : /\ C[t] \in Int /\ C[t] >= -1 /\ C[t] <= Last(t)
  <2>1. \A t \in Tenants : start[t] \in 0..MaxEvents /\ start[t] <= Last(t)
    BY DEF Starts
  <2>2. \A t \in Tenants : Last(t) \in Nat /\ MaxEvents \in Nat
    BY <1>1, TypeFacts
  <2> QED
    BY <2>1, <2>2 DEF NotNamed
<1>4. C \in [Tenants -> Int]
  BY <1>3
<1> HIDE DEF C
<1>5. PICK p : p = [state |-> "made", enabled |-> TRUE, failing |-> FALSE, types |-> types,
                    cursor |-> C]
  OBVIOUS
<1>6. p \in EndpointStates /\ p.state = "made" /\ p.cursor = C
  BY <1>4, <1>5 DEF EndpointStates
<1>7. ep' = [ep EXCEPT ![e] = p]
  BY <1>2, <1>5
<1>8. /\ ep \in [Endpoints -> EndpointStates]
      /\ dv' \in [Endpoints -> [Events -> DeliveryStates]]
      /\ wanted' \in [Endpoints -> SUBSET Events] /\ excused' \in [Endpoints -> SUBSET Events]
      /\ budget' \in [events : Nat, faults : Nat, changes : Nat]
  BY <1>1, <1>2 DEF TypeOK
<1>9. /\ ep' \in [Endpoints -> EndpointStates] /\ ep'[e] = p
      /\ \A f \in Endpoints : f # e => ep'[f] = ep[f]
  BY <1>6, <1>7, <1>8
<1>10. \A t \in Tenants : ep[e].cursor[t] = NotNamed
  BY <1>1, <1>2 DEF Unmade
<1>11. \A ev \in Events : ~Seen(e, ev)
  BY <1>1, <1>2 DEF Unmade, Seen
<1>12. \A ev \in wanted'[e] : FALSE
  <2>1. ASSUME NEW ev \in wanted[e]
        PROVE  FALSE
    <3>1. ev[1] \in Tenants
      BY <1>1, TypeFacts, EventFacts
    <3> QED
      BY <3>1, <1>1, <1>10 DEF WantedIsAsked, Receives
  <2> QED
    BY <2>1, <1>2
<1>13. \A ev \in Events : dv'[e][ev] = dv[e][ev] /\ dv[e][ev].status # "pending"
  BY <1>2, <1>11 DEF Seen
<1>14. ep'[e].state = "made"
  BY <1>6, <1>9
<1>15. \A t \in Tenants : /\ ep'[e].cursor[t] >= -1 /\ ep'[e].cursor[t] <= Last(t)
  BY <1>3, <1>6, <1>9
<1>16. \A f \in Endpoints : f # e => /\ ep'[f] = ep[f] /\ dv'[f] = dv[f]
                                     /\ wanted'[f] = wanted[f] /\ excused'[f] = excused[f]
  BY <1>2, <1>9
<1>17. /\ UNCHANGED <<stream, purged, suspended, rep, att, raced, got>>
       /\ excused[e] \subseteq excused'[e]
  BY <1>2
<1> QED
  BY <1>8, <1>9, <1>10, <1>11, <1>12, <1>13, <1>14, <1>15, <1>16, <1>17, EndpointStep

\* update_endpoint: endpoint e becomes p and its deliveries d.
LEMMA UpdateStep ==
  ASSUME IInv, NEW e \in Endpoints, NEW p \in EndpointStates,
         NEW d \in [Events -> DeliveryStates],
         Spend("changes"), ep' = [ep EXCEPT ![e] = p], dv' = [dv EXCEPT ![e] = d],
         wanted' = [wanted EXCEPT ![e] = wanted[e] \ Unasked(e, p)],
         excused' = [excused EXCEPT ![e] = excused[e] \cup Again(e, p)],
         UNCHANGED <<stream, purged, suspended, rep, att, raced, got>>,
         p.state # "none",
         p.state # "made" => \A t \in Tenants : p.cursor[t] = NotNamed,
         \A t \in Tenants : /\ p.cursor[t] >= -1 /\ p.cursor[t] <= Last(t)
                            /\ \/ p.cursor[t] = ep[e].cursor[t]
                               \/ ep[e].cursor[t] = NotNamed \/ p.cursor[t] = NotNamed,
         \A ev \in Events :
           \/ /\ d[ev] = dv[e][ev]
              /\ dv[e][ev].status = "pending" /\ ep[e].cursor[ev[1]] # NotNamed =>
                   p.cursor[ev[1]] # NotNamed
           \/ /\ d[ev].status = "none" /\ d[ev].claims = dv[e][ev].claims
              /\ p.cursor[ev[1]] = NotNamed
  PROVE  IInv' /\ CursorsAdvance
<1>1. TypeOK /\ SeenIsPast
  BY DEF IInv
<1>2. /\ ep \in [Endpoints -> EndpointStates]
      /\ dv \in [Endpoints -> [Events -> DeliveryStates]]
      /\ wanted \in [Endpoints -> SUBSET Events] /\ excused \in [Endpoints -> SUBSET Events]
      /\ budget \in [events : Nat, faults : Nat, changes : Nat]
  BY <1>1 DEF TypeOK
<1>3. budget' \in [events : Nat, faults : Nat, changes : Nat]
  BY <1>2, SpendFacts
<1>4. /\ ep' \in [Endpoints -> EndpointStates] /\ ep'[e] = p
      /\ \A f \in Endpoints : f # e => ep'[f] = ep[f]
  BY <1>2
<1>5. /\ dv' \in [Endpoints -> [Events -> DeliveryStates]] /\ dv'[e] = d
      /\ \A f \in Endpoints : f # e => dv'[f] = dv[f]
  BY <1>2
<1>6. /\ wanted' \in [Endpoints -> SUBSET Events] /\ wanted'[e] = wanted[e] \ Unasked(e, p)
      /\ \A f \in Endpoints : f # e => wanted'[f] = wanted[f]
  BY <1>2
<1>7. Again(e, p) \subseteq Events
  BY DEF Again
<1>8. /\ excused' \in [Endpoints -> SUBSET Events]
      /\ excused'[e] = excused[e] \cup Again(e, p)
      /\ \A f \in Endpoints : f # e => excused'[f] = excused[f]
  BY <1>2, <1>7
<1>9. \A ev \in wanted'[e] :
        /\ ev \in wanted[e] /\ p.cursor[ev[1]] # NotNamed
        /\ ev[2] > p.cursor[ev[1]] => TypeOf(ev) \in p.types
  BY <1>6 DEF Unasked, Receives
<1>10. ASSUME NEW ev \in Events, Seen(e, ev), ev \notin excused'[e],
              ep[e].cursor[ev[1]] = NotNamed, p.cursor[ev[1]] # NotNamed
       PROVE  ev[2] <= p.cursor[ev[1]]
  <2>1. ev[2] <= Last(ev[1])
    BY <1>1, <1>10 DEF SeenIsPast, SeenAt
  <2>2. ev \notin Again(e, p)
    BY <1>8, <1>10
  <2>3. ev[2] \notin (p.cursor[ev[1]] + 1)..Last(ev[1])
    BY <2>2, <1>10 DEF Again, Receives
  <2>4. ev[1] \in Tenants /\ ev[2] \in Nat
    BY EventFacts
  <2>5. p.cursor[ev[1]] \in Int /\ Last(ev[1]) \in Nat
    BY <2>4, <1>1, TypeFacts DEF EndpointStates
  <2> QED
    BY <2>1, <2>3, <2>4, <2>5
<1>11. \A ev \in Events :
         \/ /\ dv'[e][ev] = dv[e][ev]
            /\ dv[e][ev].status = "pending" /\ ep[e].cursor[ev[1]] # NotNamed =>
                 ep'[e].cursor[ev[1]] # NotNamed
         \/ /\ dv'[e][ev].status = "none" /\ dv'[e][ev].claims = dv[e][ev].claims
            /\ ep'[e].cursor[ev[1]] = NotNamed
  BY <1>4, <1>5
<1>12. \A f \in Endpoints : f # e => /\ ep'[f] = ep[f] /\ dv'[f] = dv[f]
                                     /\ wanted'[f] = wanted[f] /\ excused'[f] = excused[f]
  BY <1>4, <1>5, <1>6, <1>8
<1>13. excused[e] \subseteq excused'[e]
  BY <1>8
<1>14. /\ ep'[e].state # "none"
       /\ ep'[e].state # "made" => \A t \in Tenants : ep'[e].cursor[t] = NotNamed
       /\ \A t \in Tenants : /\ ep'[e].cursor[t] >= -1 /\ ep'[e].cursor[t] <= Last(t)
                             /\ \/ ep'[e].cursor[t] = ep[e].cursor[t]
                                \/ ep[e].cursor[t] = NotNamed \/ ep'[e].cursor[t] = NotNamed
  BY <1>4
<1>15. \A ev \in wanted'[e] :
         /\ ev \in wanted[e] /\ ep'[e].cursor[ev[1]] # NotNamed
         /\ ev[2] > ep'[e].cursor[ev[1]] => TypeOf(ev) \in ep'[e].types
  BY <1>4, <1>9
<1>16. \A ev \in Events :
         Seen(e, ev) /\ ev \notin excused'[e]
           /\ ep[e].cursor[ev[1]] = NotNamed /\ ep'[e].cursor[ev[1]] # NotNamed =>
              ev[2] <= ep'[e].cursor[ev[1]]
  BY <1>4, <1>10
<1> QED
  BY <1>3, <1>4, <1>5, <1>6, <1>8, <1>11, <1>12, <1>13, <1>14, <1>15, <1>16, EndpointStep

\* The states of endpoints that are made or changed.
LEMMA MadeFacts ==
  ASSUME TypeOK, NEW e \in Endpoints
  PROVE  /\ ep[e] \in EndpointStates /\ dv[e] \in [Events -> DeliveryStates]
         /\ \A t \in Tenants : ep[e].cursor[t] >= -1 /\ ep[e].cursor[t] <= Last(t)
<1>1. dv[e] \in [Events -> DeliveryStates]
  BY DEF TypeOK
<1> QED
  BY <1>1, TypeFacts

LEMMA SetTypesStep ==
  ASSUME IInv, NEW e \in Endpoints, NEW types \in SUBSET Types, SetTypes(e, types)
  PROVE  IInv' /\ CursorsAdvance
<1>1. TypeOK
  BY DEF IInv
<1>2. PICK q \in EndpointStates : q = ep[e]
  BY <1>1, MadeFacts
<1>3. PICK p : p = [q EXCEPT !.types = types]
  OBVIOUS
<1>4. p \in EndpointStates /\ p.state = q.state /\ p.cursor = q.cursor
  BY <1>3 DEF EndpointStates
<1>5. PICK d \in [Events -> DeliveryStates] : d = dv[e]
  BY <1>1, MadeFacts
<1>6. p = [ep[e] EXCEPT !.types = types]
  BY <1>2, <1>3
<1>7. /\ Spend("changes") /\ ep[e].state = "made"
      /\ ep' = [ep EXCEPT ![e] = p] /\ dv' = [dv EXCEPT ![e] = d]
      /\ wanted' = [wanted EXCEPT ![e] = wanted[e] \ Unasked(e, p)]
      /\ excused' = [excused EXCEPT ![e] = excused[e] \cup Again(e, p)]
      /\ UNCHANGED <<stream, purged, suspended, rep, att, raced, got>>
  BY <1>5, <1>6, Zenon DEF SetTypes, UpdateEndpoint
<1>8. /\ p.state = "made" /\ p.cursor = ep[e].cursor
  BY <1>2, <1>4, <1>7
<1>9. \A t \in Tenants : p.cursor[t] >= -1 /\ p.cursor[t] <= Last(t)
  BY <1>1, <1>8, MadeFacts
<1>10. /\ p.state # "none"
       /\ p.state # "made" => \A t \in Tenants : p.cursor[t] = NotNamed
       /\ \A t \in Tenants : /\ p.cursor[t] >= -1 /\ p.cursor[t] <= Last(t)
                             /\ \/ p.cursor[t] = ep[e].cursor[t]
                                \/ ep[e].cursor[t] = NotNamed \/ p.cursor[t] = NotNamed
       /\ \A ev \in Events :
            \/ /\ d[ev] = dv[e][ev]
               /\ dv[e][ev].status = "pending" /\ ep[e].cursor[ev[1]] # NotNamed =>
                    p.cursor[ev[1]] # NotNamed
            \/ /\ d[ev].status = "none" /\ d[ev].claims = dv[e][ev].claims
               /\ p.cursor[ev[1]] = NotNamed
  BY <1>5, <1>8, <1>9
<1> QED
  BY <1>4, <1>7, <1>10, UpdateStep

LEMMA SetEnabledStep ==
  ASSUME IInv, NEW e \in Endpoints, NEW on \in BOOLEAN, SetEnabled(e, on)
  PROVE  IInv' /\ CursorsAdvance
<1>1. TypeOK
  BY DEF IInv
<1>2. PICK q \in EndpointStates : q = ep[e]
  BY <1>1, MadeFacts
<1>3. PICK failing : failing = (q.failing /\ ~on)
  OBVIOUS
<1>4. failing \in BOOLEAN
  BY <1>3
<1>5. PICK p : p = [q EXCEPT !.enabled = on, !.failing = failing]
  OBVIOUS
<1>6. p \in EndpointStates
  BY <1>4, <1>5 DEF EndpointStates
<1>7. p.state = q.state /\ p.cursor = q.cursor
  BY <1>5 DEF EndpointStates
<1>8. PICK d \in [Events -> DeliveryStates] : d = dv[e]
  BY <1>1, MadeFacts
<1>9. p = [ep[e] EXCEPT !.enabled = on, !.failing = ep[e].failing /\ ~on]
  BY <1>2, <1>3, <1>5, Zenon
<1>10. /\ Spend("changes") /\ ep[e].state = "made"
       /\ ep' = [ep EXCEPT ![e] = p] /\ dv' = [dv EXCEPT ![e] = d]
       /\ wanted' = [wanted EXCEPT ![e] = wanted[e] \ Unasked(e, p)]
       /\ excused' = [excused EXCEPT ![e] = excused[e] \cup Again(e, p)]
       /\ UNCHANGED <<stream, purged, suspended, rep, att, raced, got>>
  BY <1>8, <1>9, Zenon DEF SetEnabled, UpdateEndpoint
<1>11. /\ p.state = "made" /\ p.cursor = ep[e].cursor
  BY <1>2, <1>7, <1>10
<1>12. \A t \in Tenants : p.cursor[t] >= -1 /\ p.cursor[t] <= Last(t)
  BY <1>1, <1>11, MadeFacts
<1>13. /\ p.state # "none"
       /\ p.state # "made" => \A t \in Tenants : p.cursor[t] = NotNamed
       /\ \A t \in Tenants : /\ p.cursor[t] >= -1 /\ p.cursor[t] <= Last(t)
                             /\ \/ p.cursor[t] = ep[e].cursor[t]
                                \/ ep[e].cursor[t] = NotNamed \/ p.cursor[t] = NotNamed
       /\ \A ev \in Events :
            \/ /\ d[ev] = dv[e][ev]
               /\ dv[e][ev].status = "pending" /\ ep[e].cursor[ev[1]] # NotNamed =>
                    p.cursor[ev[1]] # NotNamed
            \/ /\ d[ev].status = "none" /\ d[ev].claims = dv[e][ev].claims
               /\ p.cursor[ev[1]] = NotNamed
  BY <1>8, <1>11, <1>12
<1> QED
  BY <1>6, <1>10, <1>13, UpdateStep

LEMMA SetTenantsStep ==
  ASSUME IInv, NEW e \in Endpoints, NEW tenants \in SUBSET Tenants, NEW start \in Starts,
         SetTenants(e, tenants, start)
  PROVE  IInv' /\ CursorsAdvance
<1>1. TypeOK
  BY DEF IInv
<1>2. PICK q \in EndpointStates : q = ep[e]
  BY <1>1, MadeFacts
<1>3. PICK C : C = [t \in Tenants |->
                      IF t \notin tenants THEN NotNamed
                      ELSE IF Receives(q, t) THEN q.cursor[t] ELSE start[t]]
  OBVIOUS
<1>4. \A t \in Tenants : /\ C[t] = q.cursor[t] \/ q.cursor[t] = NotNamed \/ C[t] = NotNamed
                         /\ t \notin tenants => C[t] = NotNamed
                         /\ t \in tenants /\ Receives(q, t) => C[t] = q.cursor[t]
                         /\ C[t] \in Int /\ C[t] >= -1 /\ C[t] <= Last(t)
  <2>1. \A t \in Tenants : start[t] \in 0..MaxEvents /\ start[t] <= Last(t)
    BY DEF Starts
  <2>2. \A t \in Tenants : /\ Last(t) \in Nat /\ MaxEvents \in Nat /\ q.cursor[t] \in Int
                           /\ q.cursor[t] >= -1 /\ q.cursor[t] <= Last(t)
    BY <1>1, <1>2, TypeFacts
  <2> QED
    BY <1>3, <2>1, <2>2 DEF NotNamed, Receives
<1>5. C \in [Tenants -> Int]
  BY <1>3, <1>4
<1>6. PICK p : p = [q EXCEPT !.cursor = C]
  OBVIOUS
<1>7. p \in EndpointStates /\ p.state = q.state /\ p.cursor = C
  BY <1>5, <1>6 DEF EndpointStates
<1>8. p = Renamed(e, tenants, start)
  BY <1>2, <1>3, <1>6, Zenon DEF Renamed
<1>9. PICK d : d = Without(e, Named(e) \ tenants)
  OBVIOUS
<1>10. \A ev \in Events :
         IF ev[1] \in Named(e) \ tenants /\ dv[e][ev].status = "pending"
           THEN d[ev] = [NoDelivery EXCEPT !.claims = dv[e][ev].claims]
           ELSE d[ev] = dv[e][ev]
  BY <1>9, Zenon DEF Without
<1>11. \A ev \in Events : dv[e][ev] \in DeliveryStates
  BY <1>1, TypeFacts
<1>12. ASSUME NEW ev \in Events
       PROVE  /\ d[ev] \in DeliveryStates
              /\ \/ /\ d[ev] = dv[e][ev]
                    /\ ev[1] \in Named(e) \ tenants => dv[e][ev].status # "pending"
                 \/ /\ d[ev].status = "none" /\ d[ev].claims = dv[e][ev].claims
                    /\ ev[1] \in Named(e) \ tenants
  <2>1. /\ [NoDelivery EXCEPT !.claims = dv[e][ev].claims] \in DeliveryStates
        /\ [NoDelivery EXCEPT !.claims = dv[e][ev].claims].status = "none"
        /\ [NoDelivery EXCEPT !.claims = dv[e][ev].claims].claims = dv[e][ev].claims
    <3>1. PICK x \in DeliveryStates : x = dv[e][ev]
      BY <1>11
    <3> QED
      BY <3>1, NewFacts
  <2>2. CASE ev[1] \in Named(e) \ tenants /\ dv[e][ev].status = "pending"
    <3>1. d[ev] = [NoDelivery EXCEPT !.claims = dv[e][ev].claims]
      BY <2>2, <1>10, Zenon
    <3> QED
      BY <2>1, <2>2, <3>1, Zenon
  <2>3. CASE ~(ev[1] \in Named(e) \ tenants /\ dv[e][ev].status = "pending")
    <3>1. d[ev] = dv[e][ev]
      BY <2>3, <1>10, Zenon
    <3> QED
      BY <2>3, <3>1, <1>11, Zenon
  <2> QED
    BY <2>2, <2>3
<1>13. d \in [Events -> DeliveryStates]
  <2>1. \E D : d = [ev \in Events |-> D[ev]]
    <3>1. d = [ev \in Events |-> d[ev]]
      BY <1>9, Zenon DEF Without
    <3> QED
      BY <3>1
  <2> QED
    BY <2>1, <1>12
<1>14. /\ Spend("changes") /\ ep[e].state = "made"
       /\ ep' = [ep EXCEPT ![e] = p] /\ dv' = [dv EXCEPT ![e] = d]
       /\ wanted' = [wanted EXCEPT ![e] = wanted[e] \ Unasked(e, p)]
       /\ excused' = [excused EXCEPT ![e] = excused[e] \cup Again(e, p)]
       /\ UNCHANGED <<stream, purged, suspended, rep, att, raced, got>>
  BY <1>8, <1>9, Zenon DEF SetTenants, UpdateEndpoint
<1>15. \A t \in Tenants : t \in Named(e) <=> q.cursor[t] # NotNamed
  BY <1>2 DEF Named, Receives
<1>16. \A ev \in Events :
         \/ /\ d[ev] = dv[e][ev]
            /\ dv[e][ev].status = "pending" /\ ep[e].cursor[ev[1]] # NotNamed =>
                 p.cursor[ev[1]] # NotNamed
         \/ /\ d[ev].status = "none" /\ d[ev].claims = dv[e][ev].claims
            /\ p.cursor[ev[1]] = NotNamed
  <2>1. SUFFICES ASSUME NEW ev \in Events
                 PROVE  \/ /\ d[ev] = dv[e][ev]
                           /\ dv[e][ev].status = "pending" /\ q.cursor[ev[1]] # NotNamed =>
                                C[ev[1]] # NotNamed
                        \/ /\ d[ev].status = "none" /\ d[ev].claims = dv[e][ev].claims
                           /\ C[ev[1]] = NotNamed
    BY <1>2, <1>7
  <2>2. ev[1] \in Tenants
    BY EventFacts
  <2> QED
    BY <2>2, <1>4, <1>12, <1>15 DEF Receives
<1>17. /\ p.state = "made" /\ p.state # "none"
       /\ \A t \in Tenants : /\ p.cursor[t] >= -1 /\ p.cursor[t] <= Last(t)
                             /\ \/ p.cursor[t] = ep[e].cursor[t]
                                \/ ep[e].cursor[t] = NotNamed \/ p.cursor[t] = NotNamed
  BY <1>2, <1>4, <1>7, <1>14
<1> QED
  BY <1>7, <1>13, <1>14, <1>16, <1>17, UpdateStep

LEMMA DeleteEndpointStep ==
  ASSUME IInv, NEW e \in Endpoints, DeleteEndpoint(e)
  PROVE  IInv' /\ CursorsAdvance
<1>1. TypeOK
  BY DEF IInv
<1>2. PICK q : q = NoEndpoint
  OBVIOUS
<1>3. q \in EndpointStates /\ \A t \in Tenants : q.cursor[t] = NotNamed
  BY <1>2 DEF NoEndpoint, EndpointStates, NotNamed
<1>4. PICK p : p = [q EXCEPT !.state = "deleted"]
  OBVIOUS
<1>5. p \in EndpointStates /\ p.state = "deleted" /\ p.cursor = q.cursor
  BY <1>3, <1>4 DEF EndpointStates
<1>6. PICK d : d = [ev \in Events |-> [NoDelivery EXCEPT !.claims = dv[e][ev].claims]]
  OBVIOUS
<1>7. ASSUME NEW ev \in Events
      PROVE  d[ev] \in DeliveryStates /\ d[ev].status = "none" /\ d[ev].claims = dv[e][ev].claims
  <2>1. PICK x \in DeliveryStates : x = dv[e][ev]
    BY <1>1, TypeFacts
  <2>2. d[ev] = [NoDelivery EXCEPT !.claims = x.claims]
    BY <1>6, <2>1, Zenon
  <2> QED
    BY <2>1, <2>2, NewFacts
<1>8. d \in [Events -> DeliveryStates]
  <2>1. \E D : d = [ev \in Events |-> D[ev]]
    <3>1. d = [ev \in Events |-> d[ev]]
      BY <1>6, Zenon
    <3> QED
      BY <3>1
  <2> QED
    BY <2>1, <1>7
<1>9. /\ Spend("changes")
      /\ ep' = [ep EXCEPT ![e] = p] /\ dv' = [dv EXCEPT ![e] = d]
      /\ wanted' = [wanted EXCEPT ![e] = wanted[e] \ Unasked(e, p)]
      /\ excused' = [excused EXCEPT ![e] = excused[e] \cup Again(e, p)]
      /\ UNCHANGED <<stream, purged, suspended, rep, att, raced, got>>
  <2>1. p = [NoEndpoint EXCEPT !.state = "deleted"]
    BY <1>2, <1>4
  <2> QED
    BY <2>1, <1>6, Zenon DEF DeleteEndpoint, UpdateEndpoint
<1>10. \A t \in Tenants : p.cursor[t] = NotNamed /\ p.cursor[t] >= -1 /\ p.cursor[t] <= Last(t)
  <2>1. \A t \in Tenants : Last(t) \in Nat
    BY <1>1, TypeFacts
  <2> QED
    BY <2>1, <1>3, <1>5 DEF NotNamed
<1>11. \A ev \in Events : p.cursor[ev[1]] = NotNamed
  BY <1>10, EventFacts
<1>12. /\ p.state # "none"
       /\ p.state # "made" => \A t \in Tenants : p.cursor[t] = NotNamed
       /\ \A t \in Tenants : /\ p.cursor[t] >= -1 /\ p.cursor[t] <= Last(t)
                             /\ \/ p.cursor[t] = ep[e].cursor[t]
                                \/ ep[e].cursor[t] = NotNamed \/ p.cursor[t] = NotNamed
       /\ \A ev \in Events :
            \/ /\ d[ev] = dv[e][ev]
               /\ dv[e][ev].status = "pending" /\ ep[e].cursor[ev[1]] # NotNamed =>
                    p.cursor[ev[1]] # NotNamed
            \/ /\ d[ev].status = "none" /\ d[ev].claims = dv[e][ev].claims
               /\ p.cursor[ev[1]] = NotNamed
  BY <1>5, <1>7, <1>10, <1>11
<1> QED
  BY <1>5, <1>8, <1>9, <1>12, UpdateStep

-----------------------------------------------------------------------------
(* Fan-out.                                                                *)

\* The page of a round, when it has one.
LEMMA PageFanned ==
  ASSUME TypeOK, PagesHold, NEW r \in Replicas, NEW e \in Endpoints, NEW t \in Tenants,
         <<e, t>> \in rep[r].page.ep
  PROVE  /\ rep[r].page.from \in Nat /\ rep[r].page.to \in Nat
         /\ rep[r].page.from <= rep[r].page.to /\ rep[r].page.to <= Last(t)
         /\ rep[r].page.events \subseteq Events
         /\ \A ev \in rep[r].page.events :
              ev[1] = t /\ rep[r].page.from < ev[2] /\ ev[2] <= rep[r].page.to
         /\ \A ev \in Events :
              /\ ev[1] = t /\ rep[r].page.from < ev[2] /\ ev[2] <= rep[r].page.to
              /\ ev[2] > purged[t] /\ TypeOf(ev) \in rep[r].page.types
              => ev \in rep[r].page.events
<1>1. PICK page : page = rep[r].page
  OBVIOUS
<1>2. page \in Pages
  <2>1. \A R \in Rounds : R.page \in Pages
    BY DEF Rounds
  <2> QED
    BY <2>1, <1>1, TypeFacts
<1>3. page.to \in Int /\ page.events \subseteq Events
  BY <1>2 DEF Pages
<1>4. PageHolds(page, t, stream[t], purged[t])
  BY <1>1 DEF PagesHold
<1>5. /\ page.from \in Nat /\ page.from <= page.to /\ page.to <= Last(t)
      /\ \A ev \in page.events : ev[1] = t /\ page.from < ev[2] /\ ev[2] <= page.to
      /\ \A n \in 1..page.to :
           n > page.from /\ n > purged[t] /\ stream[t][n] \in page.types =>
             <<t, n>> \in page.events
  BY <1>4 DEF PageHolds, Last
<1>6. page.to \in Nat
  BY <1>3, <1>5
<1>7. ASSUME NEW ev \in Events, ev[1] = t, page.from < ev[2], ev[2] <= page.to,
             ev[2] > purged[t], TypeOf(ev) \in page.types
      PROVE  ev \in page.events
  <2>1. ev[2] \in 1..MaxEvents /\ ev[2] \in Nat /\ ev = <<t, ev[2]>>
    BY <1>7, EventFacts
  <2>2. ev[2] \in 1..page.to
    BY <2>1, <1>6, <1>7
  <2>3. <<t, ev[2]>> \in page.events
    BY <2>1, <2>2, <1>5, <1>7 DEF TypeOf
  <2> QED
    BY <2>1, <2>3
<1> QED
  BY <1>1, <1>3, <1>5, <1>6, <1>7

\* A page of t's stream is fanned out to e.
FannedOut(e, t, page) ==
  /\ ep' = [ep EXCEPT ![e].cursor[t] = page.to]
  /\ dv' = [dv EXCEPT ![e] = [ev \in Events |->
       IF ev \in page.events /\ dv[e][ev].status \in {"none", "purged"}
         THEN NewDelivery(dv[e][ev]) ELSE dv[e][ev]]]
  /\ raced' = IF page.types = ep[e].types THEN raced
              ELSE [raced EXCEPT ![e] = raced[e] \cup
                     {<<t, n>> : n \in (page.from + 1)..page.to}]

\* WebhookStore::fan_out, when the cursor is where the page began.
LEMMA FanOutFacts ==
  ASSUME TypeOK, NEW e \in Endpoints, NEW t \in Tenants, NEW page, page.from \in Nat, page.to \in Nat,
         page.to <= Last(t), CursorAt(e, t, page.from),
         FannedOut(e, t, page)
  PROVE  /\ ep[e].cursor[t] = page.from
         /\ ep' \in [Endpoints -> EndpointStates] /\ ep'[e].cursor[t] = page.to
         /\ \A u \in Tenants : u # t => ep'[e].cursor[u] = ep[e].cursor[u]
         /\ ep'[e].state = ep[e].state /\ ep'[e].types = ep[e].types
         /\ \A f \in Endpoints : f # e => ep'[f] = ep[f] /\ dv'[f] = dv[f]
         /\ dv' \in [Endpoints -> [Events -> DeliveryStates]]
         /\ \A ev \in Events :
              \/ /\ dv'[e][ev] = dv[e][ev]
                 /\ ev \in page.events => dv[e][ev].status # "none"
              \/ /\ ev \in page.events /\ dv'[e][ev].status = "pending"
                 /\ dv'[e][ev].tries = 0
         /\ raced' \in [Endpoints -> SUBSET Events]
         /\ \A f \in Endpoints : raced[f] \subseteq raced'[f]
         /\ page.types # ep[e].types =>
              \A ev \in Events :
                ev[1] = t /\ page.from < ev[2] /\ ev[2] <= page.to => ev \in raced'[e]
<1>1. /\ ep \in [Endpoints -> EndpointStates]
      /\ dv \in [Endpoints -> [Events -> DeliveryStates]]
      /\ raced \in [Endpoints -> SUBSET Events]
  BY DEF TypeOK
<1>2. ep[e].cursor[t] = page.from
  BY DEF CursorAt
<1>3. PICK p \in EndpointStates : p = ep[e]
  BY <1>1
<1>4. PICK to \in Nat : to = page.to
  OBVIOUS
<1>5. PICK q : q = [p EXCEPT !.cursor[t] = to]
  OBVIOUS
<1>6. q \in EndpointStates
  BY <1>5 DEF EndpointStates
<1>7. q.state = p.state /\ q.types = p.types
  BY <1>5 DEF EndpointStates
<1>8. q.cursor[t] = to /\ \A u \in Tenants : u # t => q.cursor[u] = p.cursor[u]
  BY <1>5 DEF EndpointStates
<1>9. ep' = [ep EXCEPT ![e] = q]
  BY <1>3, <1>4, <1>5, Zenon DEF FannedOut
<1>10. /\ ep' \in [Endpoints -> EndpointStates] /\ ep'[e] = q
       /\ \A f \in Endpoints : f # e => ep'[f] = ep[f]
  BY <1>1, <1>6, <1>9
<1>11. PICK d : d = [ev \in Events |->
                       IF ev \in page.events /\ dv[e][ev].status \in {"none", "purged"}
                         THEN NewDelivery(dv[e][ev]) ELSE dv[e][ev]]
  OBVIOUS
<1>12. ASSUME NEW ev \in Events
       PROVE  /\ d[ev] \in DeliveryStates
              /\ \/ /\ d[ev] = dv[e][ev]
                    /\ ev \in page.events => dv[e][ev].status # "none"
                 \/ /\ ev \in page.events /\ d[ev].status = "pending" /\ d[ev].tries = 0
  <2>1. PICK x \in DeliveryStates : x = dv[e][ev]
    BY <1>1
  <2>2. CASE ev \in page.events /\ x.status \in {"none", "purged"}
    <3>1. d[ev] = NewDelivery(x)
      BY <2>1, <2>2, <1>11, Zenon
    <3> QED
      BY <2>2, <3>1, NewFacts
  <2>3. CASE ~(ev \in page.events /\ x.status \in {"none", "purged"})
    <3>1. d[ev] = x
      BY <2>1, <2>3, <1>11, Zenon
    <3> QED
      BY <2>1, <2>3, <3>1
  <2> QED
    BY <2>2, <2>3
<1>13. d \in [Events -> DeliveryStates]
  <2>1. \E D : d = [ev \in Events |-> D[ev]]
    <3>1. d = [ev \in Events |-> d[ev]]
      BY <1>11, Zenon
    <3> QED
      BY <3>1
  <2> QED
    BY <2>1, <1>12
<1>14. dv' = [dv EXCEPT ![e] = d]
  BY <1>11, Zenon DEF FannedOut
<1>15. /\ dv' \in [Endpoints -> [Events -> DeliveryStates]] /\ dv'[e] = d
       /\ \A f \in Endpoints : f # e => dv'[f] = dv[f]
  BY <1>1, <1>13, <1>14
<1>16. PICK S : S = {<<t, n>> : n \in (page.from + 1)..page.to}
  OBVIOUS
<1>17. S \subseteq Events
  <2>1. \A n \in (page.from + 1)..page.to : n \in 1..MaxEvents
    BY TypeFacts
  <2> QED
    BY <2>1, <1>16, EventFacts
<1>18. \A ev \in Events : ev[1] = t /\ page.from < ev[2] /\ ev[2] <= page.to => ev \in S
  <2>1. \A ev \in Events : ev[2] \in Nat /\ ev = <<ev[1], ev[2]>>
    BY EventFacts
  <2> QED
    BY <2>1, <1>16
<1>19. raced' = IF page.types = ep[e].types THEN raced ELSE [raced EXCEPT ![e] = raced[e] \cup S]
  BY <1>16 DEF FannedOut
<1>20. /\ raced' \in [Endpoints -> SUBSET Events]
       /\ \A f \in Endpoints : raced[f] \subseteq raced'[f]
       /\ page.types # ep[e].types => S \subseteq raced'[e]
  BY <1>1, <1>17, <1>19
<1>21. \A f \in Endpoints : f # e => ep'[f] = ep[f] /\ dv'[f] = dv[f]
  BY <1>10, <1>15
<1>22. /\ ep'[e].cursor[t] = page.to /\ ep'[e].state = ep[e].state
       /\ ep'[e].types = ep[e].types
       /\ \A u \in Tenants : u # t => ep'[e].cursor[u] = ep[e].cursor[u]
  BY <1>3, <1>4, <1>7, <1>8, <1>10, Zenon
<1>23. \A ev \in Events :
         \/ /\ dv'[e][ev] = dv[e][ev]
            /\ ev \in page.events => dv[e][ev].status # "none"
         \/ /\ ev \in page.events /\ dv'[e][ev].status = "pending"
            /\ dv'[e][ev].tries = 0
  BY <1>12, <1>15
<1>24. page.types # ep[e].types =>
         \A ev \in Events :
           ev[1] = t /\ page.from < ev[2] /\ ev[2] <= page.to => ev \in raced'[e]
  BY <1>18, <1>20
<1> QED
  BY <1>2, <1>10, <1>15, <1>20, <1>21, <1>22, <1>23, <1>24

\* WebhookStore::fan_out moves the cursor over a page that leaves out no
\* event wanted of it, unless the types changed, and makes deliveries of
\* events the endpoint has not seen.
LEMMA FanOutMoves ==
  ASSUME IInv, NEW r \in Replicas, NEW e \in Endpoints, NEW t \in Tenants,
         NEW page, page = rep[r].page, <<e, t>> \in page.ep, CursorAt(e, t, page.from),
         FannedOut(e, t, page),
         UNCHANGED <<stream, purged, suspended, att, budget, wanted, got, excused>>,
         rep' \in [Replicas -> Rounds], RoundsShrink
  PROVE  IInv' /\ CursorsAdvance
<1>1. /\ TypeOK /\ TriesLeft /\ Unmade /\ RoundsHold /\ PagesHold /\ WantedIsAsked
      /\ MissedOnlyRaced /\ PendingIsNamed /\ SeenIsPast /\ OneAttempt
  BY DEF IInv
<1>2. /\ page.from \in Nat /\ page.to \in Nat
      /\ page.from <= page.to /\ page.to <= Last(t)
      /\ page.events \subseteq Events
      /\ \A ev \in page.events : ev[1] = t /\ page.from < ev[2] /\ ev[2] <= page.to
      /\ \A ev \in Events :
           /\ ev[1] = t /\ page.from < ev[2] /\ ev[2] <= page.to
           /\ ev[2] > purged[t] /\ TypeOf(ev) \in page.types
           => ev \in page.events
  BY <1>1, PageFanned
<1>3. /\ ep[e].cursor[t] = page.from
      /\ ep' \in [Endpoints -> EndpointStates] /\ ep'[e].cursor[t] = page.to
      /\ \A u \in Tenants : u # t => ep'[e].cursor[u] = ep[e].cursor[u]
      /\ ep'[e].state = ep[e].state /\ ep'[e].types = ep[e].types
      /\ \A f \in Endpoints : f # e => ep'[f] = ep[f] /\ dv'[f] = dv[f]
      /\ dv' \in [Endpoints -> [Events -> DeliveryStates]]
      /\ \A ev \in Events :
           \/ /\ dv'[e][ev] = dv[e][ev]
              /\ ev \in page.events => dv[e][ev].status # "none"
           \/ /\ ev \in page.events /\ dv'[e][ev].status = "pending"
              /\ dv'[e][ev].tries = 0
      /\ raced' \in [Endpoints -> SUBSET Events]
      /\ \A f \in Endpoints : raced[f] \subseteq raced'[f]
      /\ page.types # ep[e].types =>
           \A ev \in Events :
             ev[1] = t /\ page.from < ev[2] /\ ev[2] <= page.to => ev \in raced'[e]
  BY <1>1, <1>2, FanOutFacts, SMTT(40)
<1>4. \A f \in Endpoints :
        ep'[f].state = ep[f].state /\ ep'[f].types = ep[f].types
  BY <1>3
<1>5. \A f \in Endpoints, u \in Tenants :
        /\ ep[f].cursor[u] \in Int /\ ep'[f].cursor[u] \in Int
        /\ ep'[f].cursor[u] >= ep[f].cursor[u]
        /\ ep'[f].cursor[u] >= -1 /\ ep'[f].cursor[u] <= Last(u)
        /\ ep'[f].cursor[u] = NotNamed <=> ep[f].cursor[u] = NotNamed
        /\ \/ ep'[f].cursor[u] = ep[f].cursor[u]
           \/ /\ f = e /\ u = t
              /\ ep[f].cursor[u] = page.from /\ ep'[f].cursor[u] = page.to
  <2>1. SUFFICES ASSUME NEW f \in Endpoints, NEW u \in Tenants
                 PROVE  /\ ep[f].cursor[u] \in Int /\ ep'[f].cursor[u] \in Int
                        /\ ep'[f].cursor[u] >= ep[f].cursor[u]
                        /\ ep'[f].cursor[u] >= -1 /\ ep'[f].cursor[u] <= Last(u)
                        /\ ep'[f].cursor[u] = NotNamed <=> ep[f].cursor[u] = NotNamed
                        /\ \/ ep'[f].cursor[u] = ep[f].cursor[u]
                           \/ /\ f = e /\ u = t
                              /\ ep[f].cursor[u] = page.from /\ ep'[f].cursor[u] = page.to
    OBVIOUS
  <2>2. /\ ep[f].cursor[u] \in Int /\ ep[f].cursor[u] >= -1 /\ ep[f].cursor[u] <= Last(u)
    BY <1>1, TypeFacts
  <2>3. CASE f = e /\ u = t
    BY <2>2, <2>3, <1>2, <1>3 DEF NotNamed
  <2>4. CASE ~(f = e /\ u = t)
    <3>1. ep'[f].cursor[u] = ep[f].cursor[u]
      BY <2>4, <1>3
    <3> QED
      BY <2>2, <3>1
  <2> QED
    BY <2>3, <2>4
<1>6. \A f \in Endpoints, ev \in Events :
        \/ dv'[f][ev] = dv[f][ev]
        \/ /\ f = e /\ ev \in page.events /\ dv'[f][ev].status = "pending"
           /\ dv'[f][ev].tries = 0
  <2>1. SUFFICES ASSUME NEW f \in Endpoints, NEW ev \in Events, f # e
                 PROVE  dv'[f][ev] = dv[f][ev]
    BY <1>3
  <2> QED
    BY <2>1, <1>3
<1>7. \A ev \in Events : ev[1] \in Tenants /\ ev[2] \in Nat /\ ev[2] >= 1
  BY EventFacts
<1>8. StreamsGrow
  BY <1>1, StreamsSame
<1>9. TypeOK'
  <2>1. /\ suspended' \subseteq Tenants /\ att' \subseteq AttemptStates
        /\ budget' \in [events : Nat, faults : Nat, changes : Nat]
        /\ wanted' \in [Endpoints -> SUBSET Events] /\ excused' \in [Endpoints -> SUBSET Events]
        /\ got' \in [Endpoints -> [Events -> Nat]]
    BY <1>1 DEF TypeOK
  <2>2. \A f \in Endpoints, u \in Tenants :
          /\ ep'[f].cursor[u] \in Int /\ ep'[f].cursor[u] >= -1
          /\ ep'[f].cursor[u] <= Last(u)
    BY <1>5
  <2>3. /\ ep' \in [Endpoints -> EndpointStates]
        /\ dv' \in [Endpoints -> [Events -> DeliveryStates]]
        /\ raced' \in [Endpoints -> SUBSET Events]
    BY <1>3
  <2> QED
    BY <2>1, <2>2, <2>3, <1>1, <1>8, TypeNext
<1>10. RoundsHold' /\ PagesHold'
  BY <1>1, <1>8, RoundsFrame
<1>11. TriesLeft'
  <2>1. SUFFICES ASSUME NEW f \in Endpoints, NEW ev \in Events, dv'[f][ev].status = "pending"
                 PROVE  dv'[f][ev].tries < MaxTries
    BY DEF TriesLeft
  <2>2. MaxTries \in Nat \ {0}
    BY BoundsAssumption
  <2>3. CASE dv'[f][ev] = dv[f][ev]
    BY <2>1, <2>3, <1>1 DEF TriesLeft
  <2>4. CASE dv'[f][ev].tries = 0
    BY <2>2, <2>4
  <2> QED
    BY <2>3, <2>4, <1>6
<1>12. Unmade'
  <2>1. ep[e].state = "made"
    <3>1. ep[e].cursor[t] # NotNamed
      BY <1>2, <1>3 DEF NotNamed
    <3> QED
      BY <3>1, <1>1 DEF Unmade
  <2>2. ASSUME NEW f \in Endpoints, ep'[f].state # "made"
        PROVE  \A u \in Tenants : ep'[f].cursor[u] = NotNamed
    BY <2>2, <1>1, <1>4, <1>5 DEF Unmade
  <2>3. ASSUME NEW f \in Endpoints, ep'[f].state = "none", NEW ev \in Events
        PROVE  /\ dv'[f][ev].status = "none" /\ got'[f][ev] = 0
               /\ \A a \in att' : ~On(a, f, ev)
    <3>1. f # e /\ dv'[f] = dv[f] /\ ep[f].state = "none"
      BY <2>1, <2>3, <1>3, <1>4
    <3> QED
      BY <3>1, <1>1 DEF Unmade
  <2> QED
    BY <2>2, <2>3, Zenon DEF Unmade, On
<1>13. WantedIsAsked'
  <2>1. SUFFICES ASSUME NEW f \in Endpoints, NEW ev \in wanted[f]
                 PROVE  /\ ev[2] <= Last(ev[1]) /\ ep'[f].cursor[ev[1]] # NotNamed
                        /\ ev[2] > ep'[f].cursor[ev[1]] =>
                             TypeOf(ev) \in ep'[f].types /\ ev[2] > purged[ev[1]]
    BY DEF WantedIsAsked, Receives, TypeOf, Last
  <2>2. ev \in Events
    BY <1>1, TypeFacts
  <2>3. /\ ev[2] <= Last(ev[1]) /\ ep[f].cursor[ev[1]] # NotNamed
        /\ ev[2] > ep[f].cursor[ev[1]] =>
             TypeOf(ev) \in ep[f].types /\ ev[2] > purged[ev[1]]
    BY <1>1 DEF WantedIsAsked, Receives
  <2> QED
    BY <2>2, <2>3, <1>4, <1>5, <1>7
<1>14. MissedOnlyRaced'
  <2>1. SUFFICES ASSUME NEW f \in Endpoints, NEW ev \in wanted[f], ev \notin raced'[f],
                        ev[2] <= ep'[f].cursor[ev[1]]
                 PROVE  dv'[f][ev].status # "none"
    BY DEF MissedOnlyRaced
  <2>2. ev \in Events /\ ev[1] \in Tenants /\ ev[2] \in Nat
    BY <1>1, <1>7, TypeFacts
  <2>3. CASE ev[2] <= ep[f].cursor[ev[1]]
    <3>1. ev \notin raced[f]
      BY <2>1, <1>3
    <3>2. dv[f][ev].status # "none"
      BY <3>1, <2>1, <2>3, <1>1 DEF MissedOnlyRaced
    <3> QED
      BY <3>2, <2>2, <1>6
  <2>4. CASE ev[2] > ep[f].cursor[ev[1]]
    <3>1. /\ f = e /\ ev[1] = t
          /\ ep[f].cursor[ev[1]] = page.from /\ ep'[f].cursor[ev[1]] = page.to
      BY <2>1, <2>2, <2>4, <1>5
    <3>2. page.from < ev[2] /\ ev[2] <= page.to
      BY <2>1, <2>2, <2>4, <3>1, <1>2
    <3>3. page.types = ep[e].types
      BY <2>1, <2>2, <3>1, <3>2, <1>3
    <3>4. TypeOf(ev) \in page.types /\ ev[2] > purged[t]
      BY <2>1, <2>4, <3>1, <3>3, <1>1 DEF WantedIsAsked
    <3>5. ev \in page.events
      BY <2>2, <3>1, <3>2, <3>4, <1>2
    <3> QED
      BY <2>2, <3>1, <3>5, <1>3
  <2> QED
    BY <2>2, <2>3, <2>4, <1>5
<1>15. PendingIsNamed'
  <2>1. SUFFICES ASSUME NEW f \in Endpoints, NEW ev \in Events, ev \notin excused[f],
                        dv'[f][ev].status = "pending"
                 PROVE  ep'[f].cursor[ev[1]] # NotNamed
    BY DEF PendingIsNamed, Receives
  <2>2. CASE dv'[f][ev] = dv[f][ev]
    <3>1. ep[f].cursor[ev[1]] # NotNamed
      BY <2>1, <2>2, <1>1 DEF PendingIsNamed, Receives
    <3> QED
      BY <3>1, <1>5, <1>7
  <2>3. CASE f = e /\ ev \in page.events
    <3>1. ep'[f].cursor[ev[1]] = page.to
      BY <2>3, <1>2, <1>3
    <3> QED
      BY <3>1, <1>2 DEF NotNamed
  <2> QED
    BY <2>2, <2>3, <1>6
<1>16. SeenIsPast'
  <2>1. SUFFICES ASSUME NEW f \in Endpoints, NEW ev \in Events, Seen(f, ev)'
                 PROVE  /\ ev[2] <= Last(ev[1])
                        /\ ev \notin excused[f] /\ ep'[f].cursor[ev[1]] # NotNamed =>
                             ev[2] <= ep'[f].cursor[ev[1]]
    BY DEF SeenIsPast, SeenAt, Receives, Last
  <2>2. CASE dv'[f][ev] = dv[f][ev]
    <3>1. Seen(f, ev)
      BY <2>1, <2>2 DEF Seen, On
    <3>2. /\ ev[2] <= Last(ev[1])
          /\ ev \notin excused[f] /\ ep[f].cursor[ev[1]] # NotNamed =>
               ev[2] <= ep[f].cursor[ev[1]]
      BY <3>1, <1>1 DEF SeenIsPast, SeenAt, Receives
    <3> QED
      BY <3>2, <1>5, <1>7
  <2>3. CASE f = e /\ ev \in page.events
    <3>1. ev[1] = t /\ ev[2] <= page.to /\ ep'[f].cursor[ev[1]] = page.to
      BY <2>3, <1>2, <1>3
    <3>2. Last(t) \in Nat
      BY <1>1, TypeFacts
    <3> QED
      BY <3>1, <3>2, <1>2, <1>7
  <2> QED
    BY <2>2, <2>3, <1>6
<1>17. OneAttempt'
  <2>1. SUFFICES ASSUME NEW f \in Endpoints, NEW ev \in Events
                 PROVE  OnceAt(f, ev)'
    BY DEF OneAttempt
  <2>2. OnceAt(f, ev)
    BY <1>1 DEF OneAttempt
  <2>3. CASE dv'[f][ev] = dv[f][ev]
    <3>1. Untouched(f, ev)
      BY <2>3 DEF Untouched
    <3>2. excused[f] \subseteq excused'[f]
      OBVIOUS
    <3> QED
      BY <3>1, <3>2, <2>2, OnceFrame
  <2>4. CASE f = e /\ ev \in page.events /\ ev \notin excused[f]
    <3>1. ev[1] = t /\ page.from < ev[2] /\ ep[f].cursor[ev[1]] = page.from
      BY <2>4, <1>2, <1>3
    <3>2. ~(ev[2] <= ep[f].cursor[ev[1]]) /\ ep[f].cursor[ev[1]] # NotNamed
      BY <3>1, <1>2, <1>7 DEF NotNamed
    <3>3. ~Seen(f, ev)
      BY <2>4, <3>2, <1>1 DEF SeenIsPast, SeenAt, Receives
    <3>4. got[f][ev] = 0 /\ \A a \in att : ~On(a, f, ev)
      <4>1. got[f][ev] \in Nat
        BY <1>1, TypeFacts
      <4> QED
        BY <4>1, <3>3 DEF Seen
    <3>5. got'[f][ev] = 0 /\ got'[f][ev] <= 1 /\ att' = att
      BY <3>4
    <3> QED
      BY <3>4, <3>5, Zenon DEF OnceAt, On
  <2>5. CASE ev \in excused[f]
    BY <2>5 DEF OnceAt
  <2> QED
    BY <2>3, <2>4, <2>5, <1>6
<1>18. CursorsAdvance
  BY <1>5 DEF CursorsAdvance
<1> QED
  BY <1>18, <1>9, <1>10, <1>11, <1>12, <1>13, <1>14, <1>15, <1>16, <1>17, Zenon DEF IInv

LEMMA FanOutStep ==
  ASSUME IInv, NEW r \in Replicas, FanOut(r)
  PROVE  IInv' /\ CursorsAdvance
<1>1. TypeOK /\ RoundsHold /\ PagesHold
  BY DEF IInv
<1>2. PICK page : page = rep[r].page
  OBVIOUS
<1>3. PICK e \in Endpoints, t \in Tenants :
        /\ <<e, t>> \in page.ep /\ rep' = [rep EXCEPT ![r] = Rest(r, e, t)]
        /\ IF CursorAt(e, t, page.from)
             THEN FannedOut(e, t, page)
             ELSE UNCHANGED <<ep, dv, raced>>
        /\ UNCHANGED <<stream, purged, suspended, att, budget, wanted, got, excused>>
  BY <1>2, Zenon DEF FanOut, FannedOut
<1>4. rep' \in [Replicas -> Rounds] /\ RoundsShrink
  <2>1. rep'[r] = Rest(r, e, t)
    BY <1>1, <1>3 DEF TypeOK
  <2>2. rep' = [rep EXCEPT ![r] = rep'[r]]
    BY <1>3, <2>1
  <2> QED
    BY <2>1, <2>2, <1>1, RestFacts, RoundStep
<1>5. CASE CursorAt(e, t, page.from)
  BY <1>2, <1>3, <1>4, <1>5, FanOutMoves
<1>6. CASE ~CursorAt(e, t, page.from)
  <2>1. UNCHANGED <<stream, purged, suspended, ep, dv, att, budget, wanted, raced, got, excused>>
    BY <1>3, <1>6
  <2>2. suspended' \subseteq Tenants /\ budget' \in [events : Nat, faults : Nat, changes : Nat]
    BY <2>1, <1>1 DEF TypeOK
  <2>3. RoundsHold' /\ PagesHold'
    BY <2>1, <1>1, <1>4, StreamsSame, RoundsFrame
  <2> QED
    BY <2>1, <2>2, <2>3, <1>4, RoundsOnly
<1> QED
  BY <1>5, <1>6

-----------------------------------------------------------------------------
(* Every step, and the theorems.                                           *)

LEMMA InitIInv ==
  ASSUME Init
  PROVE  IInv
<1>1. /\ stream = [t \in Tenants |-> <<>>] /\ purged = [t \in Tenants |-> 0]
      /\ suspended = {} /\ ep = [e \in Endpoints |-> NoEndpoint]
      /\ dv = [e \in Endpoints |-> [ev \in Events |-> NoDelivery]]
      /\ rep = [r \in Replicas |-> Idle] /\ att = {} /\ budget \in Budgets
      /\ wanted = [e \in Endpoints |-> {}] /\ raced = [e \in Endpoints |-> {}]
      /\ got = [e \in Endpoints |-> [ev \in Events |-> 0]]
      /\ excused = [e \in Endpoints |-> {}]
  BY DEF Init
<1>2. MaxTries \in Nat /\ MaxEvents \in Nat
      /\ Budgets \subseteq [events : Nat, faults : Nat, changes : Nat]
  BY BoundsAssumption
<1>3. NoDelivery \in DeliveryStates /\ NoDelivery.status = "none"
  BY <1>2 DEF NoDelivery, DeliveryStates, Status
<1>4. /\ NoEndpoint \in EndpointStates
      /\ \A t \in Tenants : NoEndpoint.cursor[t] = -1
  BY DEF NoEndpoint, EndpointStates, NotNamed
<1>5. /\ \A e \in Endpoints : ep[e] = NoEndpoint /\ wanted[e] = {}
      /\ \A e \in Endpoints, ev \in Events : dv[e][ev] = NoDelivery /\ got[e][ev] = 0
      /\ \A r \in Replicas : rep[r] = Idle
      /\ \A t \in Tenants : stream[t] = <<>> /\ purged[t] = 0
  BY <1>1, Zenon
<1>6. \A t \in Tenants : Last(t) = 0
  BY <1>5 DEF Last
<1>7. TypeOK
  <2>1. stream \in [Tenants -> Seq(Types)] /\ purged \in [Tenants -> Nat]
    BY <1>1
  <2>2. \A t \in Tenants : purged[t] <= Last(t) /\ Last(t) <= MaxEvents
    BY <1>2, <1>5, <1>6
  <2>3. \A e \in Endpoints, t \in Tenants : ep[e].cursor[t] \in NotNamed..Last(t)
    BY <1>4, <1>5, <1>6 DEF NotNamed
  <2>4. /\ ep \in [Endpoints -> EndpointStates] /\ rep \in [Replicas -> Rounds]
        /\ dv \in [Endpoints -> [Events -> DeliveryStates]]
        /\ suspended \subseteq Tenants /\ att \subseteq AttemptStates
    BY <1>1, <1>3, <1>4, IdleFacts
  <2>5. /\ wanted \in [Endpoints -> SUBSET Events] /\ raced \in [Endpoints -> SUBSET Events]
        /\ got \in [Endpoints -> [Events -> Nat]] /\ excused \in [Endpoints -> SUBSET Events]
    BY <1>1
  <2>6. budget \in [events : Nat, faults : Nat, changes : Nat]
    BY <1>1, <1>2
  <2> QED
    BY <2>1, <2>2, <2>3, <2>4, <2>5, <2>6 DEF TypeOK
<1>8. TriesLeft /\ PendingIsNamed
  BY <1>3, <1>5 DEF TriesLeft, PendingIsNamed
<1>9. Unmade
  BY <1>1, <1>3, <1>4, <1>5 DEF Unmade, NotNamed
<1>10. RoundsHold /\ PagesHold
  BY <1>5, IdleFacts DEF RoundsHold, PagesHold
<1>11. WantedIsAsked /\ MissedOnlyRaced
  BY <1>5 DEF WantedIsAsked, MissedOnlyRaced
<1>12. SeenIsPast
  BY <1>1, <1>3, <1>5 DEF SeenIsPast, SeenAt, Seen
<1>13. OneAttempt
  BY <1>1, <1>3, <1>5 DEF OneAttempt, OnceAt
<1> QED
  BY <1>7, <1>8, <1>9, <1>10, <1>11, <1>12, <1>13 DEF IInv

LEMMA NextIInv ==
  ASSUME IInv, Next
  PROVE  IInv' /\ CursorsAdvance
<1> HIDE DEF IInv, CursorsAdvance
<1>1. ASSUME NEW t \in Tenants, NEW type \in Types, Insert(t, type)
      PROVE  IInv' /\ CursorsAdvance
  BY <1>1, InsertStep
<1>2. ASSUME NEW t \in Tenants, PurgeOutbox(t) \/ SetStatus(t)
      PROVE  IInv' /\ CursorsAdvance
  BY <1>2, PurgeOutboxStep, SetStatusStep
<1>3. ASSUME NEW r \in Replicas, Replica(r)
      PROVE  IInv' /\ CursorsAdvance
  <2>1. CASE ActiveEndpoints(r)
    BY <2>1, ActiveEndpointsStep
  <2>2. CASE FanOut(r)
    BY <2>2, FanOutStep
  <2>3. CASE Claim(r)
    BY <2>3, ClaimStep
  <2>4. ASSUME NEW e \in Endpoints, NEW t \in Tenants, ReadHeaders(r, e, t)
        PROVE  IInv' /\ CursorsAdvance
    BY <2>4, ReadHeadersStep
  <2>5. ASSUME NEW e \in Endpoints, NEW t \in Tenants, FanOutFails(r, e, t)
        PROVE  IInv' /\ CursorsAdvance
    BY <2>5, FanOutFailsStep
  <2> QED
    BY <1>3, <2>1, <2>2, <2>3, <2>4, <2>5, Zenon DEF Replica
<1>4. ASSUME NEW r \in Replicas, Attempts(r)
      PROVE  IInv' /\ CursorsAdvance
  <2>1. PICK a \in AttemptsOf(r) : Settle(a) \/ \E how \in {"ok", "fail", "gone"} : Send(a, how)
    BY <1>4, Zenon DEF Attempts
  <2>2. CASE Settle(a)
    BY <2>2, SettleStep
  <2>3. ASSUME NEW how \in {"ok", "fail", "gone"}, Send(a, how)
        PROVE  IInv' /\ CursorsAdvance
    BY <2>3, SendStep
  <2> QED
    BY <2>1, <2>2, <2>3, Zenon
<1>5. ASSUME NEW r \in Replicas, Crash(r)
      PROVE  IInv' /\ CursorsAdvance
  BY <1>5, CrashStep
<1>6. ASSUME NEW a \in att, SettleFails(a)
      PROVE  IInv' /\ CursorsAdvance
  BY <1>6, SettleFailsStep
<1>7. ASSUME NEW a \in att, AnswerLost(a)
      PROVE  IInv' /\ CursorsAdvance
  BY <1>7, AnswerLostStep
<1>8. ASSUME NEW e \in Endpoints, NEW ev \in Events, LeaseEnds(e, ev)
      PROVE  IInv' /\ CursorsAdvance
  BY <1>8, LeaseEndsStep
<1>9. ASSUME NEW e \in Endpoints, Administer(e)
      PROVE  IInv' /\ CursorsAdvance
  <2>1. ASSUME NEW types \in SUBSET Types, SetTypes(e, types)
        PROVE  IInv' /\ CursorsAdvance
    BY <2>1, SetTypesStep
  <2>2. ASSUME NEW types \in SUBSET Types, NEW tenants \in SUBSET Tenants, NEW start \in Starts,
               CreateEndpoint(e, types, tenants, start)
        PROVE  IInv' /\ CursorsAdvance
    BY <2>2, CreateEndpointStep
  <2>3. ASSUME NEW tenants \in SUBSET Tenants, NEW start \in Starts,
               SetTenants(e, tenants, start)
        PROVE  IInv' /\ CursorsAdvance
    BY <2>3, SetTenantsStep
  <2>4. ASSUME NEW on \in BOOLEAN, SetEnabled(e, on)
        PROVE  IInv' /\ CursorsAdvance
    BY <2>4, SetEnabledStep
  <2>5. CASE DeleteEndpoint(e)
    BY <2>5, DeleteEndpointStep
  <2>6. ASSUME NEW ev \in Events, RetryDelivery(e, ev)
        PROVE  IInv' /\ CursorsAdvance
    BY <2>6, RetryDeliveryStep
  <2>7. ASSUME NEW ev \in Events, PurgeDelivery(e, ev)
        PROVE  IInv' /\ CursorsAdvance
    BY <2>7, PurgeDeliveryStep
  <2> QED
    BY <1>9, <2>1, <2>2, <2>3, <2>4, <2>5, <2>6, <2>7, Zenon DEF Administer
<1> QED
  BY <1>1, <1>2, <1>3, <1>4, <1>5, <1>6, <1>7, <1>8, <1>9, Zenon DEF Next

LEMMA StutterIInv ==
  ASSUME IInv, UNCHANGED vars
  PROVE  IInv'
<1>1. /\ TypeOK' /\ TriesLeft' /\ Unmade' /\ RoundsHold' /\ PagesHold'
  BY DEF IInv, vars, TypeOK, TriesLeft, Unmade, RoundsHold, PagesHold, Last, On
<1>2. WantedIsAsked' /\ MissedOnlyRaced' /\ PendingIsNamed'
  BY DEF IInv, vars, WantedIsAsked, MissedOnlyRaced, PendingIsNamed, Last, Receives, TypeOf
<1>3. SeenIsPast' /\ OneAttempt'
  BY DEF IInv, vars, SeenIsPast, SeenAt, Seen, OneAttempt, OnceAt, On, Last, Receives
<1> QED
  BY <1>1, <1>2, <1>3 DEF IInv

LEMMA AlwaysIInv == Spec => []IInv
<1>1. Init => IInv
  BY InitIInv
<1>2. IInv /\ [Next]_vars => IInv'
  BY NextIInv, StutterIInv
<1> QED
  BY <1>1, <1>2, PTL DEF Spec

\* Every variable keeps its type, and no cursor gets past the end of its
\* stream, whichever replicas fan out, endpoints change and events come in.
THEOREM TypeCorrect == Spec => []TypeOK
<1>1. IInv => TypeOK
  BY DEF IInv
<1> QED
  BY <1>1, AlwaysIInv, PTL

\* An event inserted while an endpoint asked for it, and asked for ever
\* since, has its delivery once the cursor is past it: fan_out's comparison
\* of the cursor is enough for any number of replicas, but where the types
\* changed under a page.
THEOREM MissesOnlyRaced == Spec => []MissedOnlyRaced
<1>1. IInv => MissedOnlyRaced
  BY DEF IInv
<1> QED
  BY <1>1, AlwaysIInv, PTL

\* A receiver accepts an event once, but for a cause: claims under leases,
\* settled by the claim that holds the delivery, are enough for that.
THEOREM AcceptsOnce == Spec => []AcceptedOnce
<1>1. IInv => AcceptedOnce
  BY DEF IInv, OneAttempt, OnceAt, AcceptedOnce
<1> QED
  BY <1>1, AlwaysIInv, PTL

\* No delivery waits for a tenant its endpoint no longer receives, whatever
\* page a replica read before, but for one retried by hand.
THEOREM PendingAreNamed == Spec => []PendingIsNamed
<1>1. IInv => PendingIsNamed
  BY DEF IInv
<1> QED
  BY <1>1, AlwaysIInv, PTL

\* Fan-outs that race, with pages of any age and length, never move a cursor
\* back.
THEOREM CursorsGoForward == Spec => CursorAdvances
<1>1. IInv /\ [Next]_vars =>
        [\A e \in Endpoints, t \in Tenants :
           Receives(ep[e], t) /\ Receives(ep'[e], t) =>
             ep'[e].cursor[t] >= ep[e].cursor[t]]_vars
  BY NextIInv DEF CursorsAdvance
<1> QED
  BY <1>1, AlwaysIInv, PTL DEF Spec, CursorAdvances

-----------------------------------------------------------------------------
(* Attempts in flight: DispatchSettings' bounds.                           *)

TenantsOf(F) == {a.ev[1] : a \in F}
AtTenant(A, t) == {a \in A : a.ev[1] = t}
AtEndpoint(A, e) == {a \in A : a.ep = e}

\* The attempts A of a replica are within its bounds.
Within(A) ==
  /\ Cardinality(A) <= Workers
  /\ \A t \in Tenants : Cardinality(AtTenant(A, t)) <= PerTenant
  /\ \A e \in Endpoints :
       \/ Cardinality(AtEndpoint(A, e)) < PerEndpoint + Cardinality(TenantsOf(AtEndpoint(A, e)))
       \/ AtEndpoint(A, e) = {}

LEMMA BoundsAreWithin ==
  InFlightBounds <=> \A r \in Replicas : Within(AttemptsOf(r))
  BY DEF InFlightBounds, Within, AtTenant, AtEndpoint, TenantsOf

LEMMA BoundsArePositive ==
  /\ Workers \in Nat \ {0} /\ PerTenant \in Nat \ {0} /\ PerEndpoint \in Nat \ {0}
  BY BoundsAssumption

\* The image of a finite set is no larger, and as large if no two members
\* have the same image.
LEMMA ImageFacts ==
  ASSUME NEW S, IsFiniteSet(S), NEW T, NEW f \in [S -> T], \A y \in T : \E x \in S : f[x] = y
  PROVE  /\ IsFiniteSet(T) /\ Cardinality(T) <= Cardinality(S)
         /\ (\A x, y \in S : f[x] = f[y] => x = y) => Cardinality(T) = Cardinality(S)
<1>1. f \in Surjection(S, T)
  BY DEF Surjection
<1>2. (\A x, y \in S : f[x] = f[y] => x = y) => f \in Injection(S, T)
  BY DEF Injection, IsInjective
<1> QED
  BY <1>1, <1>2, FS_Surjection

\* More attempts are of no fewer tenants.
LEMMA TenantsOfMore ==
  ASSUME NEW F, NEW G, F \subseteq G
  PROVE  TenantsOf(F) \in SUBSET TenantsOf(G)
BY DEF TenantsOf

\* The tenants of a finite set of attempts.
LEMMA TenantsOfFacts ==
  ASSUME NEW F, IsFiniteSet(F)
  PROVE  IsFiniteSet(TenantsOf(F)) /\ Cardinality(TenantsOf(F)) \in Nat
<1>1. PICK f : f = [a \in F |-> a.ev[1]]
  OBVIOUS
<1>2. f \in [F -> TenantsOf(F)] /\ \A y \in TenantsOf(F) : \E x \in F : f[x] = y
  BY <1>1 DEF TenantsOf
<1>3. IsFiniteSet(TenantsOf(F))
  BY <1>2, ImageFacts
<1> QED
  BY <1>3, FS_CardinalityType

\* Parts of a finite set of attempts.
LEMMA PartFacts ==
  ASSUME NEW A, IsFiniteSet(A), NEW B \in SUBSET A
  PROVE  /\ IsFiniteSet(B) /\ Cardinality(B) \in Nat /\ Cardinality(A) \in Nat
         /\ Cardinality(B) <= Cardinality(A)
  BY FS_Subset, FS_CardinalityType

\* A member more, and a set more.
LEMMA AddFacts ==
  ASSUME NEW S, IsFiniteSet(S), NEW x
  PROVE  /\ IsFiniteSet(S \cup {x}) /\ Cardinality(S \cup {x}) \in Nat
         /\ Cardinality(S \cup {x}) <= Cardinality(S) + 1
<1>1. /\ IsFiniteSet(S \cup {x})
      /\ Cardinality(S \cup {x}) = IF x \in S THEN Cardinality(S) ELSE Cardinality(S) + 1
  BY FS_AddElement
<1>2. Cardinality(S) \in Nat
  BY FS_CardinalityType
<1> QED
  BY <1>1, <1>2

LEMMA UnionFacts ==
  ASSUME NEW S, IsFiniteSet(S), NEW T, IsFiniteSet(T)
  PROVE  /\ IsFiniteSet(S \cup T) /\ Cardinality(S \cup T) \in Nat
         /\ Cardinality(S \cup T) <= Cardinality(S) + Cardinality(T)
<1>1. /\ IsFiniteSet(S \cup T)
      /\ Cardinality(S \cup T) = Cardinality(S) + Cardinality(T) - Cardinality(S \cap T)
  BY FS_Union
<1>2. S \cap T \in SUBSET S
  OBVIOUS
<1>3. /\ Cardinality(S) \in Nat /\ Cardinality(T) \in Nat /\ Cardinality(S \cap T) \in Nat
  BY <1>2, PartFacts, FS_CardinalityType
<1>4. Cardinality(S \cup T) \in Nat
  BY <1>1, FS_CardinalityType
<1> QED
  BY <1>1, <1>3, <1>4

\* One attempt less takes at most its tenant away.
LEMMA LessFacts ==
  ASSUME NEW F, IsFiniteSet(F), NEW a
  PROVE  Cardinality(F \ {a}) + Cardinality(TenantsOf(F)) <=
           Cardinality(F) + Cardinality(TenantsOf(F \ {a}))
<1> DEFINE G == F \ {a}
<1>1. /\ IsFiniteSet(G) /\ Cardinality(G) \in Nat /\ Cardinality(F) \in Nat
  BY PartFacts
<1>2. /\ IsFiniteSet(TenantsOf(F)) /\ Cardinality(TenantsOf(F)) \in Nat
      /\ IsFiniteSet(TenantsOf(G)) /\ Cardinality(TenantsOf(G)) \in Nat
  BY <1>1, TenantsOfFacts
<1>3. CASE a \notin F
  <2>1. G = F
    BY <1>3
  <2> QED
    BY <2>1, <1>1, <1>2
<1>4. CASE a \in F
  <2>1. Cardinality(G) = Cardinality(F) - 1
    BY <1>4, FS_RemoveElement
  <2>2. TenantsOf(F) = TenantsOf(G) \cup {a.ev[1]}
    BY <1>4 DEF TenantsOf
  <2>3. Cardinality(TenantsOf(F)) <= Cardinality(TenantsOf(G)) + 1
    BY <2>2, <1>2, AddFacts
  <2> HIDE DEF G
  <2>4. Cardinality(G) + Cardinality(TenantsOf(F)) <= Cardinality(F) + Cardinality(TenantsOf(G))
    BY <2>1, <2>3, <1>1, <1>2
  <2> QED
    BY <2>4 DEF G
<1> QED
  BY <1>3, <1>4

\* An attempt is over.
LEMMA WithinLess ==
  ASSUME NEW A, IsFiniteSet(A), Within(A), NEW a
  PROVE  Within(A \ {a})
<1> DEFINE B == A \ {a}
<1>1. Cardinality(B) <= Workers
  BY PartFacts, BoundsArePositive DEF Within
<1>2. ASSUME NEW t \in Tenants
      PROVE  Cardinality(AtTenant(B, t)) <= PerTenant
  <2>1. AtTenant(A, t) \in SUBSET A /\ AtTenant(B, t) \in SUBSET AtTenant(A, t)
    BY DEF AtTenant
  <2>2. /\ Cardinality(AtTenant(A, t)) \in Nat /\ Cardinality(AtTenant(B, t)) \in Nat
        /\ Cardinality(AtTenant(B, t)) <= Cardinality(AtTenant(A, t))
    BY <2>1, PartFacts
  <2>3. Cardinality(AtTenant(A, t)) <= PerTenant
    BY DEF Within
  <2> QED
    BY <2>2, <2>3, BoundsArePositive
<1>3. ASSUME NEW e \in Endpoints
      PROVE  \/ Cardinality(AtEndpoint(B, e)) <
                  PerEndpoint + Cardinality(TenantsOf(AtEndpoint(B, e)))
             \/ AtEndpoint(B, e) = {}
  <2> DEFINE F == AtEndpoint(A, e)
             G == AtEndpoint(B, e)
  <2>1. F \in SUBSET A /\ G = F \ {a}
    BY DEF AtEndpoint
  <2>2. CASE F = {}
    BY <2>1, <2>2
  <2>3. CASE F # {}
    <3>1. Cardinality(F) < PerEndpoint + Cardinality(TenantsOf(F))
      BY <2>3 DEF Within
    <3>2. IsFiniteSet(F) /\ IsFiniteSet(G) /\ Cardinality(F) \in Nat /\ Cardinality(G) \in Nat
      BY <2>1, PartFacts
    <3>3. Cardinality(TenantsOf(F)) \in Nat /\ Cardinality(TenantsOf(G)) \in Nat
      BY <3>2, TenantsOfFacts
    <3>4. Cardinality(G) + Cardinality(TenantsOf(F)) <=
            Cardinality(F) + Cardinality(TenantsOf(G))
      BY <2>1, <3>2, LessFacts
    <3> HIDE DEF F, G
    <3>5. Cardinality(G) < PerEndpoint + Cardinality(TenantsOf(G))
      BY <3>1, <3>2, <3>3, <3>4, BoundsArePositive
    <3> QED
      BY <3>5 DEF G
  <2> QED
    BY <2>2, <2>3
<1> QED
  BY <1>1, <1>2, <1>3 DEF Within

\* One member of a finite set is put in another's place.
LEMMA ReplacedFacts ==
  ASSUME NEW S, IsFiniteSet(S), NEW a \in S, NEW b
  PROVE  /\ IsFiniteSet((S \ {a}) \cup {b}) /\ Cardinality((S \ {a}) \cup {b}) \in Nat
         /\ Cardinality((S \ {a}) \cup {b}) <= Cardinality(S) /\ Cardinality(S) \in Nat
<1> DEFINE R == S \ {a}
<1>1. IsFiniteSet(R) /\ Cardinality(R) = Cardinality(S) - 1 /\ Cardinality(S) \in Nat
  BY FS_RemoveElement, FS_CardinalityType
<1> HIDE DEF R
<1>2. /\ IsFiniteSet(R \cup {b})
      /\ Cardinality(R \cup {b}) = IF b \in R THEN Cardinality(R) ELSE Cardinality(R) + 1
  BY <1>1, FS_AddElement
<1>3. Cardinality(R \cup {b}) \in Nat
  BY <1>2, FS_CardinalityType
<1>4. Cardinality(R \cup {b}) <= Cardinality(S)
  BY <1>1, <1>2
<1> QED
  BY <1>1, <1>2, <1>3, <1>4 DEF R

\* An attempt has its result.
LEMMA WithinEnded ==
  ASSUME NEW A, IsFiniteSet(A), Within(A), NEW a \in A, NEW b, b.ep = a.ep, b.ev = a.ev
  PROVE  Within((A \ {a}) \cup {b})
<1> DEFINE B == (A \ {a}) \cup {b}
<1>1. Cardinality(B) <= Workers
  <2>1. Cardinality(B) \in Nat /\ Cardinality(A) \in Nat /\ Cardinality(B) <= Cardinality(A)
    BY ReplacedFacts
  <2> QED
    BY <2>1, BoundsArePositive DEF Within
<1>2. ASSUME NEW t \in Tenants
      PROVE  Cardinality(AtTenant(B, t)) <= PerTenant
  <2>1. AtTenant(A, t) \in SUBSET A
    BY DEF AtTenant
  <2>2. /\ IsFiniteSet(AtTenant(A, t)) /\ Cardinality(AtTenant(A, t)) <= PerTenant
    BY <2>1, PartFacts DEF Within
  <2>3. CASE a.ev[1] = t
    <3>1. a \in AtTenant(A, t) /\ AtTenant(B, t) = (AtTenant(A, t) \ {a}) \cup {b}
      BY <2>3 DEF AtTenant
    <3>2. /\ Cardinality(AtTenant(B, t)) \in Nat /\ Cardinality(AtTenant(A, t)) \in Nat
          /\ Cardinality(AtTenant(B, t)) <= Cardinality(AtTenant(A, t))
      BY <3>1, <2>2, ReplacedFacts
    <3> QED
      BY <3>2, <2>2, BoundsArePositive
  <2>4. CASE a.ev[1] # t
    <3>1. AtTenant(B, t) = AtTenant(A, t)
      BY <2>4 DEF AtTenant
    <3> QED
      BY <3>1, <2>2
  <2> QED
    BY <2>3, <2>4
<1>3. ASSUME NEW e \in Endpoints
      PROVE  \/ Cardinality(AtEndpoint(B, e)) <
                  PerEndpoint + Cardinality(TenantsOf(AtEndpoint(B, e)))
             \/ AtEndpoint(B, e) = {}
  <2> DEFINE F == AtEndpoint(A, e)
             G == AtEndpoint(B, e)
  <2>1. CASE a.ep # e
    <3>1. G = F
      BY <2>1 DEF AtEndpoint
    <3> QED
      BY <3>1 DEF Within
  <2>2. CASE a.ep = e
    <3>1. F \in SUBSET A /\ a \in F /\ G = (F \ {a}) \cup {b}
      BY <2>2 DEF AtEndpoint
    <3>2. TenantsOf(G) = TenantsOf(F)
      BY <3>1 DEF TenantsOf
    <3>3. Cardinality(F) < PerEndpoint + Cardinality(TenantsOf(F))
      BY <3>1 DEF Within
    <3>4. IsFiniteSet(F)
      BY <3>1, PartFacts
    <3>5. /\ Cardinality(G) \in Nat /\ Cardinality(F) \in Nat
          /\ Cardinality(G) <= Cardinality(F) /\ Cardinality(TenantsOf(F)) \in Nat
      BY <3>1, <3>4, ReplacedFacts, TenantsOfFacts
    <3> HIDE DEF F, G
    <3>6. Cardinality(G) < PerEndpoint + Cardinality(TenantsOf(G))
      BY <3>2, <3>3, <3>5, BoundsArePositive
    <3> QED
      BY <3>6 DEF G
  <2> QED
    BY <2>1, <2>2
<1> QED
  BY <1>1, <1>2, <1>3 DEF Within

LEMMA WithinNone ==
  Within({})
<1>1. Cardinality({}) = 0
  BY FS_EmptySet
<1>2. \A t : AtTenant({}, t) = {} /\ AtEndpoint({}, t) = {}
  BY DEF AtTenant, AtEndpoint
<1> QED
  BY <1>1, <1>2, BoundsArePositive DEF Within

\* WebhookStore::claim: one attempt per tenant begins.
LEMMA WithinClaimed ==
  ASSUME NEW A, IsFiniteSet(A), Within(A), NEW P, IsFiniteSet(P), NEW N, NEW f \in [P -> N],
         \A y \in N : \E x \in P : f[x] = y,
         \A x \in P : f[x].ep = x[1] /\ f[x].ev = x[2],
         \A x, y \in P : x[2][1] = y[2][1] => x = y,
         Cardinality(A) + Cardinality(P) <= Workers,
         \A x \in P : /\ Cardinality(AtTenant(A, x[2][1])) < PerTenant
                      /\ Cardinality(AtEndpoint(A, x[1])) < PerEndpoint
  PROVE  Within(A \cup N)
<1> DEFINE B == A \cup N
<1>1. /\ IsFiniteSet(N) /\ Cardinality(N) <= Cardinality(P)
      /\ Cardinality(P) \in Nat /\ Cardinality(N) \in Nat /\ Cardinality(A) \in Nat
  BY ImageFacts, FS_CardinalityType
<1>2. \A y \in N : \E x \in P : y = f[x] /\ y.ep = x[1] /\ y.ev = x[2]
  OBVIOUS
<1>3. \A y, z \in N : y.ev[1] = z.ev[1] => y = z
  <2>1. SUFFICES ASSUME NEW y \in N, NEW z \in N, y.ev[1] = z.ev[1]
                 PROVE  y = z
    OBVIOUS
  <2>2. PICK u \in P : y = f[u] /\ y.ev = u[2]
    BY <1>2
  <2>3. PICK v \in P : z = f[v] /\ z.ev = v[2]
    BY <1>2
  <2>4. u = v
    BY <2>1, <2>2, <2>3
  <2> QED
    BY <2>2, <2>3, <2>4
<1>4. Cardinality(B) <= Workers
  <2>1. Cardinality(B) \in Nat /\ Cardinality(B) <= Cardinality(A) + Cardinality(N)
    BY <1>1, UnionFacts
  <2> HIDE DEF B
  <2> QED
    BY <2>1, <1>1, BoundsArePositive
<1>5. ASSUME NEW t \in Tenants
      PROVE  Cardinality(AtTenant(B, t)) <= PerTenant
  <2>1. AtTenant(A, t) \in SUBSET A
    BY DEF AtTenant
  <2>2. /\ IsFiniteSet(AtTenant(A, t)) /\ Cardinality(AtTenant(A, t)) <= PerTenant
        /\ Cardinality(AtTenant(A, t)) \in Nat
    BY <2>1, PartFacts DEF Within
  <2>3. CASE \A y \in N : y.ev[1] # t
    <3>1. AtTenant(B, t) = AtTenant(A, t)
      BY <2>3 DEF AtTenant
    <3> QED
      BY <2>2, <3>1
  <2>4. CASE \E y \in N : y.ev[1] = t
    <3>1. PICK y \in N : y.ev[1] = t
      BY <2>4
    <3>2. AtTenant(B, t) = AtTenant(A, t) \cup {y}
      BY <3>1, <1>3 DEF AtTenant
    <3>3. Cardinality(AtTenant(A, t)) < PerTenant
      BY <3>1, <1>2
    <3>4. /\ Cardinality(AtTenant(B, t)) <= Cardinality(AtTenant(A, t)) + 1
          /\ Cardinality(AtTenant(B, t)) \in Nat
      BY <2>2, <3>2, AddFacts
    <3> QED
      BY <2>2, <3>3, <3>4, BoundsArePositive
  <2> QED
    BY <2>3, <2>4
<1>6. ASSUME NEW e \in Endpoints
      PROVE  \/ Cardinality(AtEndpoint(B, e)) <
                  PerEndpoint + Cardinality(TenantsOf(AtEndpoint(B, e)))
             \/ AtEndpoint(B, e) = {}
  <2> DEFINE F == AtEndpoint(A, e)
             M == AtEndpoint(N, e)
             G == AtEndpoint(B, e)
  <2>1. F \in SUBSET A /\ M \in SUBSET N /\ G = F \cup M
    BY DEF AtEndpoint
  <2>2. /\ IsFiniteSet(F) /\ Cardinality(F) \in Nat
        /\ IsFiniteSet(M) /\ Cardinality(M) \in Nat
    BY <2>1, <1>1, PartFacts
  <2>3. CASE M = {}
    <3>1. G = F
      BY <2>1, <2>3
    <3> QED
      BY <3>1 DEF Within
  <2>4. CASE M # {}
    <3>1. Cardinality(F) < PerEndpoint
      <4>1. PICK y \in N : y.ep = e
        BY <2>4 DEF AtEndpoint
      <4>2. PICK x \in P : x[1] = e
        BY <4>1, <1>2
      <4> QED
        BY <4>2
    <3>2. /\ IsFiniteSet(G) /\ Cardinality(G) \in Nat
          /\ Cardinality(G) <= Cardinality(F) + Cardinality(M)
      <4> HIDE DEF F, G, M
      <4>1. /\ IsFiniteSet(F \cup M) /\ Cardinality(F \cup M) \in Nat
            /\ Cardinality(F \cup M) <= Cardinality(F) + Cardinality(M)
        BY <2>2, UnionFacts, Zenon
      <4> QED
        BY <4>1, <2>1, Zenon
    <3>3. Cardinality(TenantsOf(M)) = Cardinality(M)
      <4>1. PICK g : g = [a \in M |-> a.ev[1]]
        OBVIOUS
      <4>2. /\ g \in [M -> TenantsOf(M)] /\ \A y \in TenantsOf(M) : \E x \in M : g[x] = y
            /\ \A x, y \in M : g[x] = g[y] => x = y
        BY <4>1, <2>1, <1>3 DEF TenantsOf
      <4> HIDE DEF M
      <4> QED
        BY <4>2, <2>2, ImageFacts
    <3>4. /\ Cardinality(TenantsOf(M)) <= Cardinality(TenantsOf(G))
          /\ Cardinality(TenantsOf(G)) \in Nat
      <4>1. TenantsOf(M) \in SUBSET TenantsOf(G)
        <5>1. M \subseteq G
          BY <2>1
        <5> HIDE DEF F, G, M
        <5> QED
          BY <5>1, TenantsOfMore, Zenon
      <4>2. IsFiniteSet(TenantsOf(G))
        BY <3>2, TenantsOfFacts
      <4> QED
        BY <4>1, <4>2, PartFacts
    <3> HIDE DEF F, G, M
    <3>5. Cardinality(G) < PerEndpoint + Cardinality(TenantsOf(G))
      BY <2>2, <3>1, <3>2, <3>3, <3>4, BoundsArePositive
    <3> QED
      BY <3>5 DEF G
  <2> QED
    BY <2>3, <2>4
<1> QED
  BY <1>4, <1>5, <1>6 DEF Within

-----------------------------------------------------------------------------
(* The bounds are kept.                                                    *)

\* The attempts of A that are replica q's.
Part(A, q) == {a \in A : a.rep = q}

Bounded(A) == IsFiniteSet(A) /\ \A q \in Replicas : Within(Part(A, q))

LEMMA BoundedFacts ==
  (BInv <=> Bounded(att)) /\ (BInv' <=> Bounded(att'))
  BY DEF BInv, Bounded, Part, AttemptsOf, InFlightBounds, Within, AtTenant, AtEndpoint, TenantsOf

LEMMA PartFinite ==
  ASSUME NEW A, IsFiniteSet(A), NEW q
  PROVE  IsFiniteSet(Part(A, q)) /\ Cardinality(Part(A, q)) \in Nat
<1>1. Part(A, q) \in SUBSET A
  BY DEF Part
<1> QED
  BY <1>1, PartFacts

\* Settle, SettleFails: an attempt is over.
LEMMA BoundedLess ==
  ASSUME NEW A, Bounded(A), NEW a
  PROVE  Bounded(A \ {a})
<1>1. IsFiniteSet(A \ {a})
  BY FS_RemoveElement DEF Bounded
<1>2. ASSUME NEW q \in Replicas
      PROVE  Within(Part(A \ {a}, q))
  <2>1. Part(A \ {a}, q) = Part(A, q) \ {a}
    BY DEF Part
  <2>2. IsFiniteSet(Part(A, q)) /\ Within(Part(A, q))
    BY PartFinite DEF Bounded
  <2> QED
    BY <2>1, <2>2, WithinLess
<1> QED
  BY <1>1, <1>2 DEF Bounded

\* Send, AnswerLost: an attempt has its result.
LEMMA BoundedEnded ==
  ASSUME NEW A, Bounded(A), NEW a \in A, NEW b, b.rep = a.rep, b.ep = a.ep, b.ev = a.ev
  PROVE  Bounded((A \ {a}) \cup {b})
<1>1. IsFiniteSet((A \ {a}) \cup {b})
  BY ReplacedFacts DEF Bounded
<1>2. ASSUME NEW q \in Replicas
      PROVE  Within(Part((A \ {a}) \cup {b}, q))
  <2>1. IsFiniteSet(Part(A, q)) /\ Within(Part(A, q))
    BY PartFinite DEF Bounded
  <2>2. CASE a.rep = q
    <3>1. a \in Part(A, q) /\ Part((A \ {a}) \cup {b}, q) = (Part(A, q) \ {a}) \cup {b}
      <4>1. b.rep = q
        BY <2>2
      <4>2. Part((A \ {a}) \cup {b}, q) = Part(A \ {a}, q) \cup {b}
        BY <4>1, Zenon DEF Part
      <4>3. Part(A \ {a}, q) = Part(A, q) \ {a}
        BY DEF Part
      <4>4. a \in Part(A, q)
        BY <2>2, Zenon DEF Part
      <4> QED
        BY <4>2, <4>3, <4>4, Zenon
    <3>2. PICK C : C = Part(A, q)
      OBVIOUS
    <3>3. IsFiniteSet(C) /\ Within(C) /\ a \in C
      BY <2>1, <3>1, <3>2, Zenon
    <3>4. Within((C \ {a}) \cup {b})
      BY <3>3, WithinEnded, Zenon
    <3> QED
      BY <3>1, <3>2, <3>4, Zenon
  <2>3. CASE a.rep # q
    <3>1. Part((A \ {a}) \cup {b}, q) = Part(A, q)
      BY <2>3 DEF Part
    <3> QED
      BY <2>1, <3>1
  <2> QED
    BY <2>2, <2>3
<1> QED
  BY <1>1, <1>2 DEF Bounded

\* Crash: the replica's attempts are over.
LEMMA BoundedCrash ==
  ASSUME NEW A, Bounded(A), NEW r
  PROVE  Bounded(A \ Part(A, r))
<1>1. IsFiniteSet(A \ Part(A, r))
  BY FS_Difference DEF Bounded
<1>2. ASSUME NEW q \in Replicas
      PROVE  Within(Part(A \ Part(A, r), q))
  <2>1. CASE q = r
    <3>1. Part(A \ Part(A, r), q) = {}
      BY <2>1 DEF Part
    <3> QED
      BY <3>1, WithinNone
  <2>2. CASE q # r
    <3>1. Part(A \ Part(A, r), q) = Part(A, q)
      BY <2>2 DEF Part
    <3> QED
      BY <3>1 DEF Bounded
  <2> QED
    BY <2>1, <2>2
<1> QED
  BY <1>1, <1>2 DEF Bounded

\* A claim picks one delivery per tenant: finitely many, and no more than
\* there are workers free.
LEMMA PickedAreFew ==
  ASSUME TypeOK, IsFiniteSet(att), NEW r \in Replicas,
         NEW picked \in SUBSET (Endpoints \X Events), Claims(r, picked), Claimable(r)
  PROVE  /\ IsFiniteSet(picked)
         /\ Cardinality(AttemptsOf(r)) + Cardinality(picked) <= Workers
         /\ \A x, y \in picked : x[2][1] = y[2][1] => x = y
<1>0. \A x, y \in picked : x[2][1] = y[2][1] => x = y
  BY DEF Claims
<1>1. IsFiniteSet(picked)
  <2>1. PICK f : f = [x \in picked |-> x[2][1]]
    OBVIOUS
  <2>2. \A x \in picked : x[2][1] \in Tenants
    BY DEF Events
  <2>4. f \in Injection(picked, Tenants)
    BY <1>0, <2>1, <2>2 DEF Injection, IsInjective
  <2> QED
    BY <2>4, TenantsAssumption, FS_Injection
<1>2. AttemptsOf(r) = Part(att, r)
  BY DEF AttemptsOf, Part
<1>3. Cardinality(AttemptsOf(r)) \in Nat
  BY <1>2, PartFinite
<1>4. Cardinality(picked) <= Free(r)
  <2>1. DueTenants(r) \in SUBSET Tenants
    BY DEF DueTenants
  <2>2. Cardinality(DueTenants(r)) \in Nat
    BY <2>1, TenantsAssumption, PartFacts
  <2>3. Free(r) \in Int
    BY <1>3, BoundsArePositive DEF Free
  <2>4. Cardinality(picked) = IF Cardinality(DueTenants(r)) <= Free(r)
                                THEN Cardinality(DueTenants(r)) ELSE Free(r)
    BY Zenon DEF Claims
  <2> QED
    BY <2>2, <2>3, <2>4
<1>5. Cardinality(picked) \in Nat
  BY <1>1, FS_CardinalityType
<1> QED
  BY <1>0, <1>1, <1>3, <1>4, <1>5, BoundsArePositive DEF Free

\* WebhookStore::claim.
LEMMA BoundedClaim ==
  ASSUME TypeOK, Bounded(att), NEW r \in Replicas, Claim(r)
  PROVE  Bounded(att')
<1>1. PICK picked \in SUBSET (Endpoints \X Events) :
        Claims(r, picked) /\ att' = att \cup {Attempt(r, x[1], x[2]) : x \in picked}
  BY Zenon DEF Claim
<1>2. PICK N : N = {Attempt(r, x[1], x[2]) : x \in picked}
  OBVIOUS
<1>3. PICK f : f = [x \in picked |-> Attempt(r, x[1], x[2])]
  OBVIOUS
<1>4. /\ f \in [picked -> N]
      /\ \A y \in N : \E x \in picked : f[x] = y
      /\ \A x \in picked : f[x] = Attempt(r, x[1], x[2])
  BY <1>2, <1>3
<1>5. \A x \in picked : x[1] \in Endpoints /\ x[2] \in Events /\ x = <<x[1], x[2]>>
  OBVIOUS
<1>6. \A x \in picked : f[x].ep = x[1] /\ f[x].ev = x[2] /\ f[x].rep = r
  <2>1. ASSUME NEW x \in picked
        PROVE  f[x].ep = x[1] /\ f[x].ev = x[2] /\ f[x].rep = r
    <3>1. PICK e \in Endpoints : e = x[1]
      BY <1>5
    <3>2. PICK ev \in Events : ev = x[2]
      BY <1>5
    <3>3. Attempt(r, e, ev).ep = e /\ Attempt(r, e, ev).ev = ev /\ Attempt(r, e, ev).rep = r
      BY AttemptMade
    <3>4. PICK b : b = Attempt(r, e, ev)
      OBVIOUS
    <3>5. b.ep = e /\ b.ev = ev /\ b.rep = r
      BY <3>3, <3>4, Zenon
    <3>6. b = Attempt(r, x[1], x[2])
      BY <3>1, <3>2, <3>4
    <3>7. f[x] = Attempt(r, x[1], x[2])
      BY <1>4
    <3> QED
      BY <3>1, <3>2, <3>5, <3>6, <3>7
  <2> QED
    BY <2>1
<1>7. \A y \in N : y.rep = r
  BY <1>4, <1>6
<1>8. IsFiniteSet(att) /\ Claimable(r) /\ Within(Part(att, r)) /\ AttemptsOf(r) = Part(att, r)
  BY DEF Bounded, Claim, AttemptsOf, Part
<1>9. /\ IsFiniteSet(picked)
      /\ Cardinality(Part(att, r)) + Cardinality(picked) <= Workers
      /\ \A x, y \in picked : x[2][1] = y[2][1] => x = y
  BY <1>1, <1>8, PickedAreFew, Zenon
<1>10. IsFiniteSet(Part(att, r)) /\ IsFiniteSet(N)
  BY <1>4, <1>8, <1>9, PartFinite, ImageFacts
<1>11. ASSUME NEW x \in picked
       PROVE  /\ Cardinality(AtTenant(Part(att, r), x[2][1])) < PerTenant
              /\ Cardinality(AtEndpoint(Part(att, r), x[1])) < PerEndpoint
  <2>1. ~BusyEndpoint(r, x[1]) /\ ~Busy(r, x[2][1])
    <3>1. PICK e \in Endpoints, ev \in Events : x[1] = e /\ x[2] = ev /\ <<e, ev>> \in picked
      BY <1>5
    <3> QED
      BY <1>1, <3>1, PickedFacts, Zenon
  <2>2. /\ ~(Cardinality(AtTenant(Part(att, r), x[2][1])) >= PerTenant)
        /\ ~(Cardinality(AtEndpoint(Part(att, r), x[1])) >= PerEndpoint)
    BY <2>1, <1>8, Zenon DEF Busy, BusyEndpoint, AtTenant, AtEndpoint
  <2>3. /\ AtTenant(Part(att, r), x[2][1]) \in SUBSET Part(att, r)
        /\ AtEndpoint(Part(att, r), x[1]) \in SUBSET Part(att, r)
    BY DEF AtTenant, AtEndpoint
  <2>4. /\ Cardinality(AtTenant(Part(att, r), x[2][1])) \in Nat
        /\ Cardinality(AtEndpoint(Part(att, r), x[1])) \in Nat
    BY <2>3, <1>10, PartFacts
  <2> QED
    BY <2>2, <2>4, BoundsArePositive
<1>12. Within(Part(att, r) \cup N)
  <2>1. PICK A : A = Part(att, r)
    OBVIOUS
  <2>2. \A x \in picked : f[x].ep = x[1] /\ f[x].ev = x[2]
    BY <1>6
  <2>3. /\ IsFiniteSet(A) /\ Within(A) /\ Cardinality(A) + Cardinality(picked) <= Workers
        /\ \A x \in picked : /\ Cardinality(AtTenant(A, x[2][1])) < PerTenant
                             /\ Cardinality(AtEndpoint(A, x[1])) < PerEndpoint
    BY <1>8, <1>9, <1>10, <1>11, <2>1, Zenon
  <2>4. f \in [picked -> N] /\ \A y \in N : \E x \in picked : f[x] = y
    BY <1>4
  <2>5. IsFiniteSet(picked) /\ \A x, y \in picked : x[2][1] = y[2][1] => x = y
    BY <1>9
  <2>6. Within(A \cup N)
    BY <2>2, <2>3, <2>4, <2>5, WithinClaimed, Zenon
  <2> QED
    BY <2>1, <2>6
<1>13. IsFiniteSet(att \cup N)
  BY <1>8, <1>10, UnionFacts
<1>14. ASSUME NEW q \in Replicas
       PROVE  Within(Part(att \cup N, q))
  <2>1. CASE q = r
    <3>1. Part(att \cup N, q) = Part(att, r) \cup N
      BY <2>1, <1>7 DEF Part
    <3> QED
      BY <3>1, <1>12
  <2>2. CASE q # r
    <3>1. Part(att \cup N, q) = Part(att, q)
      BY <2>2, <1>7 DEF Part
    <3> QED
      BY <3>1 DEF Bounded
  <2> QED
    BY <2>1, <2>2
<1>15. Bounded(att \cup N)
  BY <1>13, <1>14 DEF Bounded
<1> QED
  BY <1>1, <1>2, <1>15, Zenon

LEMMA NextBounded ==
  ASSUME TypeOK, Bounded(att), Next
  PROVE  Bounded(att')
<1>1. ASSUME NEW t \in Tenants, NEW type \in Types, Insert(t, type)
      PROVE  Bounded(att')
  BY <1>1 DEF Insert
<1>2. ASSUME NEW t \in Tenants, PurgeOutbox(t) \/ SetStatus(t)
      PROVE  Bounded(att')
  BY <1>2 DEF PurgeOutbox, SetStatus
<1>3. ASSUME NEW r \in Replicas, Replica(r)
      PROVE  Bounded(att')
  <2>1. CASE Claim(r)
    BY <2>1, BoundedClaim
  <2>2. CASE ActiveEndpoints(r)
    BY <2>2 DEF ActiveEndpoints
  <2>3. CASE FanOut(r)
    BY <2>3 DEF FanOut
  <2>4. ASSUME NEW e \in Endpoints, NEW t \in Tenants, ReadHeaders(r, e, t) \/ FanOutFails(r, e, t)
        PROVE  Bounded(att')
    BY <2>4 DEF ReadHeaders, FanOutFails
  <2> QED
    BY <1>3, <2>1, <2>2, <2>3, <2>4, Zenon DEF Replica
<1>4. ASSUME NEW a, Settle(a) \/ SettleFails(a)
      PROVE  Bounded(att')
  <2>1. att' = att \ {a}
    BY <1>4, Zenon DEF Settle, SettleFails
  <2> QED
    BY <2>1, BoundedLess, Zenon
<1>5. ASSUME NEW a, NEW how \in {"ok", "fail", "gone"}, Ends(a, how)
      PROVE  Bounded(att')
  <2>1. PICK b \in AttemptStates :
          /\ att' = (att \ {a}) \cup {b}
          /\ b.ep = a.ep /\ b.ev = a.ev /\ b.rep = a.rep
    BY <1>5, EndsFacts, Zenon
  <2>2. a \in att
    BY <1>5 DEF Ends
  <2> QED
    BY <2>1, <2>2, BoundedEnded, Zenon
<1>6. ASSUME NEW r \in Replicas, Attempts(r)
      PROVE  Bounded(att')
  <2>1. PICK a \in AttemptsOf(r) : Settle(a) \/ \E how \in {"ok", "fail", "gone"} : Send(a, how)
    BY <1>6, Zenon DEF Attempts
  <2> QED
    BY <2>1, <1>4, <1>5, Zenon DEF Send
<1>7. ASSUME NEW r \in Replicas, Crash(r)
      PROVE  Bounded(att')
  <2>1. att' = att \ Part(att, r)
    BY <1>7 DEF Crash, AttemptsOf, Part
  <2> QED
    BY <2>1, BoundedCrash
<1>8. ASSUME NEW a \in att, AnswerLost(a)
      PROVE  Bounded(att')
  <2>1. Ends(a, "fail")
    BY <1>8 DEF AnswerLost
  <2> QED
    BY <2>1, <1>5
<1>9. ASSUME NEW e \in Endpoints, NEW ev \in Events, LeaseEnds(e, ev)
      PROVE  Bounded(att')
  BY <1>9 DEF LeaseEnds
<1>10. ASSUME NEW e \in Endpoints, Administer(e)
       PROVE  Bounded(att')
  <2>1. att' = att
    BY <1>10, Zenon DEF Administer, SetTypes, CreateEndpoint, SetTenants, SetEnabled, DeleteEndpoint,
      UpdateEndpoint, RetryDelivery, PurgeDelivery
  <2> QED
    BY <2>1
<1> QED
  BY <1>1, <1>2, <1>3, <1>4, <1>6, <1>7, <1>8, <1>9, <1>10, Zenon DEF Next

\* Whatever is claimed, sent, settled, lost or stopped, a replica's attempts
\* stay within its workers and its bound per tenant, and an endpoint's go
\* over their bound by attempts of different tenants only.
THEOREM StaysInBounds == Spec => []InFlightBounds
<1>1. Init => BInv
  <2>1. SUFFICES ASSUME Init PROVE Bounded(att)
    BY BoundedFacts
  <2>2. att = {} /\ IsFiniteSet({})
    BY <2>1, FS_EmptySet DEF Init
  <2>3. \A q : Part({}, q) = {}
    BY DEF Part
  <2> QED
    BY <2>2, <2>3, WithinNone DEF Bounded
<1>2. TypeOK /\ BInv /\ [Next]_vars => BInv'
  <2>1. ASSUME TypeOK, BInv, UNCHANGED vars
        PROVE  BInv'
    <3>1. att' = att
      BY <2>1 DEF vars
    <3> QED
      BY <2>1, <3>1, BoundedFacts
  <2> QED
    BY <2>1, NextBounded, BoundedFacts
<1>3. BInv => InFlightBounds
  BY DEF BInv
<1> QED
  BY <1>1, <1>2, <1>3, TypeCorrect, PTL DEF Spec
=============================================================================
