------------------------ MODULE WebhookDeliveryProofs -----------------------
(***************************************************************************)
(* Proofs about WebhookDelivery: for any events, bodies and requests and   *)
(* any number of failures, no event of a body answered 200 is swallowed,   *)
(* the sink is handed an event twice only where a claim ran out or could   *)
(* not be completed, and a claim is changed by nobody but its request and  *)
(* its lease.                                                              *)
(*                                                                         *)
(* What makes them inductive: a marker is done only once its event was     *)
(* handed over (DoneIsGot), and a request is past an event only then       *)
(* (PastIsGot); a claim's request is at work on its event within its lease *)
(* (ClaimantWorks, InTimeOwns), so that one delivery at a time is neither  *)
(* recorded nor excused (Counted).                                         *)
(***************************************************************************)
EXTENDS WebhookDelivery, TLAPS

-----------------------------------------------------------------------------
(* The inductive invariant.                                                *)

\* The steps between a claim and the end of what it was made for.
Working == {"sink", "letter", "mark", "release"}

\* Request q is at event e of its body.
On(q, e) == req[q].at <= Len(req[q].body) /\ Event(q) = e

\* A marker is done only when its event was handed over.
DoneIsGot == \A e \in Events : marker[e] = Done => Got(e)

\* So is every event a request is past, or about to mark.
PastIsGot == \A q \in Requests :
  /\ \A i \in 1..Len(req[q].body) : i < req[q].at => Got(req[q].body[i])
  /\ At(q, "mark") \/ At(q, "take") => Got(Event(q))

\* A claim is for a keyed event; its request is at work on it, and the lease
\* has not run out.
ClaimantWorks == \A e \in Events, q \in Requests :
  marker[e] = PendingBy(q)
    => e \notin Keyless /\ On(q, e) /\ req[q].pc \in Working /\ ~req[q].late

\* A request that hands a keyed event to the sink within its lease has the
\* claim; before it claims no lease of its can have run out.
InTimeOwns == \A q \in Requests :
  /\ At(q, "sink") /\ Event(q) \notin Keyless /\ ~req[q].late => Owns(q)
  /\ req[q].pc \in {"idle", "claim", "look"} => ~req[q].late

\* A delivery was recorded or excused, but for the one whose marker is done or
\* is about to be.
Recorded(e) == \/ marker[e] = Done
               \/ \E q \in Requests : marker[e] = PendingBy(q) /\ req[q].pc = "mark"
Bound(e) == /\ handed[e] <= 1 + excuse[e]
            /\ ~Recorded(e) => handed[e] <= excuse[e]
Counted == \A e \in Events \ Keyless : Bound(e)

IInv == /\ TypeOK
        /\ DoneIsGot /\ PastIsGot /\ AckedIsHandedOver
        /\ ClaimantWorks /\ InTimeOwns /\ Counted

-----------------------------------------------------------------------------
(* The model's operators.                                                  *)

\* Markers are told apart by their state and their ticket.
LEMMA MarkersDiffer ==
  /\ Absent # Done /\ Absent # Orphan /\ Done # Orphan
  /\ \A q : PendingBy(q) # Absent /\ PendingBy(q) # Done
  /\ \A p, q : PendingBy(p) = PendingBy(q) => p = q
  /\ \A q \in Requests : PendingBy(q) # Orphan
BY RequestsAssumption DEF Absent, Done, Orphan, PendingBy

\* The event a request is at is one of Events.
LEMMA EventIn ==
  ASSUME TypeOK, NEW q \in Requests
  PROVE  /\ Len(req[q].body) \in Nat /\ req[q].at \in Nat \ {0}
         /\ \A i \in 1..Len(req[q].body) : req[q].body[i] \in Events
         /\ req[q].at <= Len(req[q].body) => Event(q) \in Events
<1>1. req[q].body \in Seq(Events)
  <2>1. req[q] \in RequestStates
    BY DEF TypeOK
  <2>2. req[q].body \in Bodies \cup {<<>>}
    BY <2>1 DEF RequestStates
  <2>3. <<>> \in Seq(Events)
    OBVIOUS
  <2>4. QED BY <2>2, <2>3, EventsAssumption
<1>2. req[q].at \in Nat \ {0}
  BY DEF TypeOK, RequestStates
<1>3. QED BY <1>1, <1>2 DEF Event

\* Where the moves of a request lead, the others staying where they are.
Others(q) == \A p \in Requests : p # q => req'[p] = req[p]
SameEvent(q) == req'[q].body = req[q].body /\ req'[q].at = req[q].at
RequestsTyped == /\ req \in [Requests -> RequestStates]
                 /\ \A q \in Requests : req[q].at <= Len(req[q].body) + 1

LEMMA GotoIs ==
  ASSUME TypeOK, NEW q \in Requests, NEW pc \in Steps, Goto(q, pc)
  PROVE  /\ Others(q) /\ RequestsTyped'
         /\ SameEvent(q) /\ req'[q].pc = pc /\ req'[q].late = req[q].late
<1> DEFINE r == [req[q] EXCEPT !.pc = pc]
<1>1. req[q] \in RequestStates
  BY DEF TypeOK
<1>2. /\ r \in RequestStates /\ r.pc = pc /\ r.late = req[q].late
      /\ r.body = req[q].body /\ r.at = req[q].at
  BY <1>1 DEF RequestStates
<1>3. req' = [req EXCEPT ![q] = r]
  BY DEF Goto
<1>4. req' \in [Requests -> RequestStates] /\ req'[q] = r /\ Others(q)
  BY <1>2, <1>3 DEF TypeOK, Others
<1>5. \A p \in Requests : req'[p].at <= Len(req'[p].body) + 1
  BY <1>2, <1>4 DEF TypeOK, Others
<1>6. QED BY <1>2, <1>4, <1>5 DEF RequestsTyped, SameEvent

LEMMA NextEventIs ==
  ASSUME TypeOK, NEW q \in Requests, NextEvent(q), req[q].at <= Len(req[q].body)
  PROVE  /\ Others(q) /\ RequestsTyped'
         /\ req'[q].body = req[q].body /\ req'[q].at = req[q].at + 1
         /\ req'[q].pc = "claim" /\ req'[q].late = FALSE
<1> DEFINE n == req[q].at + 1
           r == [req[q] EXCEPT !.pc = "claim", !.at = n, !.round = 1, !.late = FALSE]
<1>1. n \in Nat \ {0}
  BY EventIn
<1> HIDE DEF n
<1>2. req[q] \in RequestStates
  BY DEF TypeOK
<1>3. /\ r \in RequestStates /\ r.pc = "claim" /\ r.late = FALSE
      /\ r.body = req[q].body /\ r.at = n
  <2>1. r \in RequestStates
    BY <1>1, <1>2 DEF RequestStates, Steps
  <2>2. r.late = FALSE
    BY <1>2 DEF RequestStates
  <2>3. r.pc = "claim" /\ r.body = req[q].body /\ r.at = n
    BY <1>2 DEF RequestStates
  <2>4. QED BY <2>1, <2>2, <2>3
<1>4. req' = [req EXCEPT ![q] = r]
  BY DEF NextEvent, n
<1>5. req' \in [Requests -> RequestStates] /\ req'[q] = r /\ Others(q)
  BY <1>3, <1>4 DEF TypeOK, Others
<1>6. n <= Len(req[q].body) + 1
  BY EventIn DEF n
<1>7. \A p \in Requests : req'[p].at <= Len(req'[p].body) + 1
  BY <1>3, <1>5, <1>6 DEF TypeOK, Others
<1>8. QED BY <1>3, <1>5, <1>7 DEF RequestsTyped, n

LEMMA IdleIs ==
  /\ Idle \in RequestStates /\ Idle.pc = "idle" /\ Idle.at = 1 /\ Idle.late = FALSE
  /\ Idle.body = <<>> /\ Len(<<>>) = 0
<1>1. Idle \in RequestStates /\ Idle.pc = "idle" /\ Idle.late = FALSE
  BY DEF Idle, RequestStates
<1>2. Idle.at = 1 /\ Idle.body = <<>> /\ Len(<<>>) = 0
  BY DEF Idle
<1>3. QED BY <1>1, <1>2

LEMMA ReturnIs ==
  ASSUME TypeOK, NEW q \in Requests, Return(q)
  PROVE  /\ Others(q) /\ RequestsTyped'
         /\ req'[q].pc = "idle" /\ req'[q].at = 1 /\ req'[q].late = FALSE
         /\ Len(req'[q].body) = 0
<1>1. req' \in [Requests -> RequestStates] /\ req'[q] = Idle /\ Others(q)
  BY IdleIs DEF TypeOK, Return, Others
<1>2. req'[q].at = 1 /\ Len(req'[q].body) = 0
  BY <1>1, IdleIs
<1>3. \A p \in Requests : req'[p].at <= Len(req'[p].body) + 1
  <2>1. ASSUME NEW p \in Requests, p # q PROVE req'[p].at <= Len(req'[p].body) + 1
    BY <1>1, <2>1 DEF TypeOK, Others
  <2>2. QED BY <1>2, <2>1
<1>4. QED BY <1>1, <1>2, <1>3, IdleIs DEF RequestsTyped

\* What a request does to its event's marker when it has the claim or there is
\* none is nothing to the others' claims, nor to a marker that is done.
OthersClaims(q) ==
  /\ \A e \in Events, p \in Requests :
       p # q => (marker'[e] = PendingBy(p) <=> marker[e] = PendingBy(p))
  /\ \A e \in Events : marker[e] = Done => marker'[e] = Done
OtherMarkers(q) == \A e \in Events : ~On(q, e) => marker'[e] = marker[e]
Own(q) == {Absent, Orphan, Done, PendingBy(q)}

LEMMA SetMarkerIs ==
  ASSUME TypeOK, NEW q \in Requests, req[q].at <= Len(req[q].body),
         NEW m \in Own(q), SetMarker(q, m), Owns(q) \/ marker[Event(q)] = Absent
  PROVE  /\ marker' \in [Events -> Marker] /\ marker'[Event(q)] = m
         /\ OthersClaims(q) /\ OtherMarkers(q)
<1>1. Event(q) \in Events /\ m \in Marker
  BY EventIn DEF Own, Marker
<1>2. /\ marker' \in [Events -> Marker] /\ marker'[Event(q)] = m
      /\ \A e \in Events : e # Event(q) => marker'[e] = marker[e]
  BY <1>1 DEF TypeOK, SetMarker
<1>3. OtherMarkers(q)
  BY <1>2 DEF OtherMarkers, On
<1>4. OthersClaims(q)
  BY <1>1, <1>2, MarkersDiffer DEF OthersClaims, Own, Owns
<1>5. QED BY <1>2, <1>3, <1>4

\* A request that leaves its marker has no claim any more.
LEMMA LeaveMarkerIs ==
  ASSUME TypeOK, NEW q \in Requests, req[q].at <= Len(req[q].body), LeaveMarker(q)
  PROVE  /\ marker' \in [Events -> Marker]
         /\ marker'[Event(q)] = IF Owns(q) THEN Orphan ELSE marker[Event(q)]
         /\ OthersClaims(q) /\ OtherMarkers(q)
<1>1. CASE Owns(q)
  BY <1>1, SetMarkerIs DEF LeaveMarker, SetMarker, Own
<1>2. CASE ~Owns(q)
  BY <1>2 DEF TypeOK, LeaveMarker, OthersClaims, OtherMarkers
<1>3. QED BY <1>1, <1>2

LEMMA MarkersKept ==
  ASSUME TypeOK, NEW q \in Requests, UNCHANGED marker
  PROVE  marker' \in [Events -> Marker] /\ OthersClaims(q) /\ OtherMarkers(q)
BY DEF TypeOK, OthersClaims, OtherMarkers

-----------------------------------------------------------------------------
(* What keeps each part of the invariant.                                  *)

\* Nothing handed over is taken back.
GotGrows == \A e \in Events : Got(e) => Got(e)'

\* A request returns, stays at its event, or goes past one handed over.
LEMMA PastKeeps ==
  ASSUME IInv, NEW q \in Requests, Others(q), RequestsTyped', GotGrows,
         \/ Len(req'[q].body) = 0
         \/ /\ SameEvent(q)
            /\ req'[q].pc \in {"mark", "take"} /\ req[q].at <= Len(req[q].body)
                 => Got(Event(q))'
         \/ /\ req'[q].body = req[q].body /\ req'[q].at = req[q].at + 1
            /\ req[q].at <= Len(req[q].body)
            /\ req'[q].pc = "claim" /\ \A e \in Events : On(q, e) => Got(e)'
  PROVE  PastIsGot'
<1> DEFINE Past(p) == \A i \in 1..Len(req[p].body) : i < req[p].at => Got(req[p].body[i])
           Here(p) == At(p, "mark") \/ At(p, "take") => Got(Event(p))
<1>1. ASSUME NEW p \in Requests, p # q PROVE Past(p)' /\ Here(p)'
  <2>1. req'[p] = req[p] /\ Past(p) /\ Here(p)
    BY <1>1 DEF IInv, Others, PastIsGot
  <2>2. QED BY <2>1, EventIn DEF IInv, GotGrows, At, Event
<1>2. Past(q) /\ Here(q) /\ req[q].at \in Nat /\ Len(req[q].body) \in Nat
  BY EventIn DEF IInv, PastIsGot
<1>3. req'[q].at \in Nat /\ req'[q].at > 0
  BY DEF RequestsTyped, RequestStates
<1>4. Past(q)' /\ Here(q)'
  <2>1. CASE Len(req'[q].body) = 0
    BY <1>3, <2>1 DEF At
  <2>2. CASE SameEvent(q) /\ (req'[q].pc \in {"mark", "take"} /\ req[q].at <= Len(req[q].body)
                                => Got(Event(q))')
    BY <1>2, <2>2, EventIn DEF IInv, GotGrows, SameEvent, At
  <2>3. CASE /\ req'[q].body = req[q].body /\ req'[q].at = req[q].at + 1
             /\ req[q].at <= Len(req[q].body)
             /\ req'[q].pc = "claim" /\ \A e \in Events : On(q, e) => Got(e)'
    <3>1. Here(q)'
      BY <2>3 DEF At
    <3>2. ASSUME NEW e \in Events, NEW i \in 1..Len(req[q].body), i < req[q].at + 1,
                 e = req[q].body[i]
          PROVE  Got(e)'
      <4>1. CASE i = req[q].at
        BY <2>3, <3>2, <4>1 DEF On, Event
      <4>2. CASE i < req[q].at
        BY <1>2, <3>2, <4>2 DEF GotGrows
      <4>3. QED BY <1>2, <3>2, <4>1, <4>2
    <3>3. Past(q)'
      BY <2>3, <3>2, EventIn DEF IInv
    <3>4. QED BY <3>1, <3>3
  <2>4. QED BY <2>1, <2>2, <2>3
<1>5. QED BY <1>1, <1>4 DEF PastIsGot

\* A body once answered has its events handed over still.
LEMMA AckedKeeps ==
  ASSUME IInv, UNCHANGED acked, GotGrows
  PROVE  AckedIsHandedOver'
<1>1. ASSUME NEW b \in acked, NEW i \in 1..Len(b) PROVE Got(b[i])'
  <2>1. b \in Seq(Events)
    <3>1. b \in Bodies \cup {<<>>} /\ <<>> \in Seq(Events)
      BY DEF IInv, TypeOK
    <3>2. QED BY <3>1, EventsAssumption
  <2>2. b[i] \in Events /\ Got(b[i])
    BY <2>1 DEF IInv, AckedIsHandedOver
  <2>3. QED BY <2>2 DEF GotGrows
<1>2. QED BY <1>1 DEF AckedIsHandedOver

\* The others' claims are as they were; so is what is true of them.
LEMMA ClaimsKeep ==
  ASSUME IInv, NEW q \in Requests, Others(q), OthersClaims(q),
         \A e \in Events : marker'[e] = PendingBy(q)
            => e \notin Keyless /\ On(q, e)' /\ req'[q].pc \in Working /\ req'[q].late = FALSE,
         At(q, "sink")' /\ Event(q)' \notin Keyless /\ req'[q].late = FALSE => Owns(q)',
         req'[q].pc \in {"idle", "claim", "look"} => req'[q].late = FALSE
  PROVE  ClaimantWorks' /\ InTimeOwns'
<1>1. ClaimantWorks'
  BY DEF IInv, ClaimantWorks, Others, OthersClaims, On, Event
<1>2. InTimeOwns'
  BY EventIn DEF IInv, InTimeOwns, Others, OthersClaims, Owns, At, Event
<1>3. QED BY <1>1, <1>2

\* The count of an event that no claim of the request is about is as it was.
LEMMA CountedKeeps ==
  ASSUME IInv, NEW q \in Requests, Others(q),
         \A e \in Events \ Keyless :
            \/ Bound(e)'
            \/ ~On(q, e) /\ marker'[e] = marker[e]
                 /\ handed'[e] = handed[e] /\ excuse'[e] = excuse[e]
  PROVE  Counted'
<1> SUFFICES ASSUME NEW e \in Events \ Keyless PROVE Bound(e)'
  BY DEF Counted
<1>1. CASE ~On(q, e) /\ marker'[e] = marker[e] /\ handed'[e] = handed[e] /\ excuse'[e] = excuse[e]
  <2>1. marker[e] # PendingBy(q)
    BY <1>1 DEF IInv, ClaimantWorks
  <2>2. Recorded(e)' <=> Recorded(e)
    BY <1>1, <2>1 DEF Recorded, Others
  <2>3. QED BY <1>1, <2>2 DEF IInv, Counted, Bound
<1>2. QED BY <1>1

\* A request that has nothing to mark changes no count.
LEMMA CountedSame ==
  ASSUME IInv, NEW q \in Requests, Others(q), OthersClaims(q), UNCHANGED <<handed, excuse>>,
         req[q].pc # "mark"
  PROVE  Counted'
<1>1. \A e \in Events : Recorded(e) => Recorded(e)'
  BY DEF Recorded, Others, OthersClaims
<1>2. QED BY <1>1 DEF IInv, Counted, Bound

\* A request marks only what was handed over.
LEMMA DoneKeeps ==
  ASSUME IInv, NEW q \in Requests, GotGrows, OtherMarkers(q),
         On(q, Event(q)) /\ marker'[Event(q)] = Done
            => marker[Event(q)] = Done \/ \A e \in Events : On(q, e) => Got(e)'
  PROVE  DoneIsGot'
BY DEF IInv, DoneIsGot, GotGrows, OtherMarkers, On

-----------------------------------------------------------------------------
(* Every step keeps the invariant.                                         *)

LEMMA InitInv == Init => IInv
<1> SUFFICES ASSUME Init PROVE IInv
  OBVIOUS
<1>1. TypeOK
  BY IdleIs, FaultsAssumption DEF Init, TypeOK, Marker
<1>2. DoneIsGot /\ ClaimantWorks
  BY MarkersDiffer DEF Init, DoneIsGot, ClaimantWorks
<1>3. PastIsGot /\ AckedIsHandedOver /\ InTimeOwns
  BY IdleIs DEF Init, PastIsGot, AckedIsHandedOver, InTimeOwns, At
<1>4. Counted
  <2>1. \A e \in Events : handed[e] = 0 /\ excuse[e] = 0
    BY DEF Init
  <2>2. 0 <= 1 + 0 /\ 0 <= 0
    OBVIOUS
  <2>3. QED BY <2>1, <2>2 DEF Counted, Bound
<1>5. QED BY <1>1, <1>2, <1>3, <1>4 DEF IInv

\* Meta posts a body: the request begins, at no event yet handled.
LEMMA PostKeeps ==
  ASSUME IInv, NEW q \in Requests, NEW b \in Bodies, Post(q, b)
  PROVE  IInv'
<1>1. /\ Others(q) /\ RequestsTyped'
      /\ req'[q].pc = "claim" /\ req'[q].at = 1 /\ req'[q].late = FALSE
  <2> DEFINE r == [Idle EXCEPT !.pc = "claim", !.body = b]
  <2>1. r \in RequestStates
    BY IdleIs DEF RequestStates, Steps
  <2>2. r.at = 1 /\ r.body = b
    BY DEF Idle
  <2>3. r.pc = "claim" /\ r.late = FALSE
    BY DEF Idle
  <2>4. req' \in [Requests -> RequestStates] /\ req'[q] = r /\ Others(q)
    BY <2>1 DEF IInv, TypeOK, Post, Others
  <2>5. Len(b) \in Nat
    BY EventsAssumption
  <2>6. \A p \in Requests : p # q => req'[p].at <= Len(req'[p].body) + 1
    BY <2>4 DEF IInv, TypeOK, Others
  <2>7. req'[q].at <= Len(req'[q].body) + 1
    BY <2>2, <2>4, <2>5
  <2>8. QED BY <2>2, <2>3, <2>4, <2>6, <2>7 DEF RequestsTyped
<1>2. marker' \in [Events -> Marker] /\ OthersClaims(q) /\ marker' = marker
  BY MarkersKept DEF IInv, Post
<1>3. \A e \in Events : marker[e] # PendingBy(q)
  BY DEF IInv, ClaimantWorks, Working, Post
<1>4. TypeOK'
  BY <1>1, <1>2, <1>3 DEF IInv, TypeOK, RequestsTyped, Post
<1>5. GotGrows
  BY DEF IInv, TypeOK, Post, GotGrows, Got
<1>6. AckedIsHandedOver'
  BY <1>5, AckedKeeps DEF Post
<1>7. DoneIsGot'
  BY <1>2, <1>5 DEF IInv, DoneIsGot, GotGrows
<1>8. PastIsGot'
  <2>1. \A i \in 1..Len(req'[q].body) : ~(i < req'[q].at)
    BY <1>1
  <2>2. ~At(q, "mark")' /\ ~At(q, "take")'
    BY <1>1 DEF At
  <2>3. ASSUME NEW p \in Requests, p # q
        PROVE  /\ \A i \in 1..Len(req'[p].body) : i < req'[p].at => Got(req[p].body[i])'
               /\ At(p, "mark")' \/ At(p, "take")' => Got(Event(p))'
    BY <1>1, <2>3, <1>5 DEF IInv, PastIsGot, GotGrows, Others, At, Event, Got, Post
  <2>4. QED BY <2>1, <2>2, <2>3 DEF PastIsGot
<1>9. ClaimantWorks' /\ InTimeOwns'
  BY <1>1, <1>2, <1>3, ClaimsKeep DEF At
<1>10. Counted'
  <2>1. \A e \in Events : Recorded(e)' <=> Recorded(e)
    BY <1>1, <1>2, <1>3 DEF Recorded, Others
  <2>2. QED BY <2>1 DEF IInv, Counted, Bound, Post
<1>11. QED BY <1>4, <1>6, <1>7, <1>8, <1>9, <1>10 DEF IInv

\* A lease runs out on a claim that nobody has.
LEMMA ExpireKeeps ==
  ASSUME IInv, NEW d \in Events, Expire(d)
  PROVE  IInv'
<1>1. /\ marker' \in [Events -> Marker]
      /\ \A e \in Events, q \in Requests : marker'[e] = PendingBy(q) <=> marker[e] = PendingBy(q)
      /\ \A e \in Events : marker'[e] = Done <=> marker[e] = Done
  BY MarkersDiffer DEF IInv, TypeOK, Expire, Marker
<1>2. UNCHANGED <<req, acked, handed, lettered, excuse, faults>>
  BY DEF Expire
<1>3. TypeOK'
  BY <1>1, <1>2 DEF IInv, TypeOK
<1>4. DoneIsGot' /\ AckedIsHandedOver'
  BY <1>1, <1>2 DEF IInv, DoneIsGot, AckedIsHandedOver, Got
<1>5. PastIsGot'
  BY <1>2 DEF IInv, PastIsGot, Got, At, Event
<1>6. ClaimantWorks'
  BY <1>1, <1>2 DEF IInv, ClaimantWorks, On, Event
<1>7. InTimeOwns'
  BY <1>1, <1>2, EventIn DEF IInv, InTimeOwns, At, Owns, Event
<1>8. Counted'
  <2>1. \A e \in Events : Recorded(e)' <=> Recorded(e)
    BY <1>1, <1>2 DEF Recorded
  <2>2. QED BY <1>2, <2>1 DEF IInv, Counted, Bound
<1>9. QED BY <1>3, <1>4, <1>5, <1>6, <1>7, <1>8 DEF IInv

\* A claim runs out on its request: nobody has it, and a delivery about to be
\* marked is excused.
LEMMA OutlastKeeps ==
  ASSUME IInv, NEW q \in Requests, Outlast(q)
  PROVE  IInv'
<1>1. /\ req[q].at <= Len(req[q].body) /\ Event(q) \in Events /\ Owns(q)
      /\ req[q].pc \in Working /\ faults' \in 0..MaxFaults
  BY EventIn, FaultsAssumption DEF IInv, TypeOK, ClaimantWorks, Owns, Outlast, Fault
<1>2. /\ Others(q) /\ RequestsTyped' /\ SameEvent(q)
      /\ req'[q].pc = req[q].pc /\ req'[q].late = TRUE
  <2> DEFINE r == [req[q] EXCEPT !.late = TRUE]
  <2>1. r \in RequestStates /\ r.late = TRUE
    BY DEF IInv, TypeOK, RequestStates
  <2>2. r.pc = req[q].pc /\ r.body = req[q].body /\ r.at = req[q].at
    BY DEF IInv, TypeOK, RequestStates
  <2>3. req' = [req EXCEPT ![q] = r]
    BY DEF Outlast
  <2>4. req' \in [Requests -> RequestStates] /\ req'[q] = r /\ Others(q)
    BY <2>1, <2>3 DEF IInv, TypeOK, Others
  <2>5. \A p \in Requests : req'[p].at <= Len(req'[p].body) + 1
    BY <2>2, <2>4 DEF IInv, TypeOK, Others
  <2>6. QED BY <2>1, <2>2, <2>4, <2>5 DEF RequestsTyped, SameEvent
<1>3. /\ marker' \in [Events -> Marker] /\ marker'[Event(q)] = Absent
      /\ OthersClaims(q) /\ OtherMarkers(q)
  BY <1>1, SetMarkerIs DEF IInv, Own, Outlast
<1>4. /\ excuse' \in [Events -> Nat] /\ excuse[Event(q)] \in Nat
      /\ \A e \in Events : e # Event(q) => excuse'[e] = excuse[e]
      /\ excuse'[Event(q)] = IF req[q].pc = "mark" THEN excuse[Event(q)] + 1 ELSE excuse[Event(q)]
  BY <1>1 DEF IInv, TypeOK, Outlast, Excuse
<1>5. TypeOK'
  BY <1>1, <1>2, <1>3, <1>4 DEF IInv, TypeOK, RequestsTyped, Outlast
<1>6. GotGrows
  BY DEF IInv, TypeOK, Outlast, GotGrows, Got
<1>7. AckedIsHandedOver'
  BY <1>6, AckedKeeps DEF Outlast
<1>8. DoneIsGot'
  BY <1>1, <1>3, <1>6, MarkersDiffer DEF IInv, DoneIsGot, GotGrows, OtherMarkers, On
<1>9. PastIsGot'
  BY <1>1, <1>2, <1>6, PastKeeps DEF IInv, PastIsGot, SameEvent, GotGrows, At, Event
<1>10. ClaimantWorks' /\ InTimeOwns'
  <2>1. \A e \in Events : marker'[e] # PendingBy(q)
    BY <1>1, <1>3, MarkersDiffer DEF IInv, ClaimantWorks, OtherMarkers, On
  <2>2. QED BY <1>1, <1>2, <1>3, <2>1, ClaimsKeep DEF Working
<1>11. Counted'
  <2>1. \A e \in Events : e # Event(q) => excuse'[e] = excuse[e] /\ handed'[e] = handed[e]
    BY <1>4 DEF Outlast
  <2>2. ASSUME Event(q) \notin Keyless PROVE handed'[Event(q)] <= excuse'[Event(q)]
    <3>1. req[q].pc # "mark" => ~Recorded(Event(q))
      BY <1>1, MarkersDiffer DEF Recorded, Owns
    <3>2. Bound(Event(q)) /\ handed[Event(q)] \in Nat /\ handed' = handed
      BY <1>1, <2>2 DEF IInv, TypeOK, Counted, Outlast
    <3>3. QED BY <1>4, <3>1, <3>2 DEF Bound
  <2>3. \A e \in Events \ Keyless : On(q, e) => Bound(e)'
    <3>1. \A e \in Events : handed'[e] \in Nat /\ excuse'[e] \in Nat
      BY <1>4 DEF IInv, TypeOK, Outlast
    <3>2. QED BY <2>2, <3>1 DEF Bound, On
  <2>4. QED BY <1>1, <1>2, <1>3, <2>1, <2>3, CountedKeeps DEF On, OtherMarkers
<1>12. QED BY <1>5, <1>7, <1>8, <1>9, <1>10, <1>11 DEF IInv

\* A claim is put where there was none, and the sink is next.
LEMMA ClaimKeeps ==
  ASSUME IInv, NEW q \in Requests, Claim(q)
  PROVE  IInv'
<1>1. /\ req[q].at <= Len(req[q].body) /\ Event(q) \in Events /\ On(q, Event(q))
  BY EventIn DEF IInv, Claim, At, On
<1>2. /\ Others(q) /\ RequestsTyped' /\ SameEvent(q) /\ req'[q].late = req[q].late
      /\ req'[q].pc \in {"sink", "look"}
  BY GotoIs DEF IInv, Claim, Steps
<1>3. /\ marker' \in [Events -> Marker] /\ OthersClaims(q) /\ OtherMarkers(q)
      /\ \/ marker' = marker /\ (req'[q].pc = "sink" => Event(q) \in Keyless)
         \/ /\ Event(q) \notin Keyless /\ marker'[Event(q)] = PendingBy(q)
            /\ req'[q].pc = "sink"
  BY <1>1, SetMarkerIs, MarkersKept, GotoIs DEF IInv, Claim, Own, Steps
<1>4. /\ \A e \in Events : marker[e] # PendingBy(q)
      /\ req[q].late = FALSE /\ req[q].pc = "claim"
  BY DEF IInv, TypeOK, RequestStates, ClaimantWorks, InTimeOwns, Working, Claim, At
<1>5. TypeOK'
  BY <1>1, <1>2, <1>3, <1>4 DEF IInv, TypeOK, RequestsTyped, Claim
<1>6. GotGrows
  BY DEF IInv, TypeOK, Claim, GotGrows, Got
<1>7. AckedIsHandedOver'
  BY <1>6, AckedKeeps DEF Claim
<1>8. DoneIsGot'
  BY <1>1, <1>3, <1>6, DoneKeeps, MarkersDiffer
<1>9. PastIsGot'
  BY <1>2, <1>6, PastKeeps
<1>10. ClaimantWorks' /\ InTimeOwns'
  <2>1. \A e \in Events : On(q, e)' <=> On(q, e)
    BY <1>2 DEF On, Event, SameEvent
  <2>2. \A e \in Events : marker'[e] = PendingBy(q) => e \notin Keyless /\ On(q, e)'
    BY <1>1, <1>3, <1>4, <2>1 DEF OtherMarkers, On
  <2>3. \A e \in Events : marker'[e] = PendingBy(q) => req'[q].pc \in Working
    BY <1>3, <1>4 DEF Working
  <2>4. At(q, "sink")' /\ Event(q)' \notin Keyless => Owns(q)'
    BY <1>2, <1>3 DEF At, Owns, Event, SameEvent
  <2>5. QED BY <1>2, <1>3, <1>4, <2>2, <2>3, <2>4, ClaimsKeep
<1>11. Counted'
  BY <1>2, <1>3, <1>4, CountedSame DEF Claim
<1>12. QED BY <1>5, <1>7, <1>8, <1>9, <1>10, <1>11 DEF IInv

\* A request that looks again at its marker, or fails at its claim, has none.
LEMMA LookKeeps ==
  ASSUME IInv, NEW q \in Requests, Look(q)
  PROVE  IInv'
<1>1. /\ req[q].at <= Len(req[q].body) /\ Event(q) \in Events /\ req[q].pc = "look"
      /\ UNCHANGED <<marker, acked, handed, lettered, excuse, faults>>
  BY EventIn DEF IInv, Look, At
<1>2. /\ \A e \in Events : marker[e] # PendingBy(q)
      /\ req[q].late = FALSE
  BY <1>1 DEF IInv, TypeOK, RequestStates, ClaimantWorks, InTimeOwns, Working
<1>3. /\ Others(q) /\ RequestsTyped' /\ req'[q].pc \in {"idle", "claim"}
      /\ req'[q].late = FALSE
      /\ \/ Len(req'[q].body) = 0
         \/ SameEvent(q)
         \/ /\ req'[q].body = req[q].body /\ req'[q].at = req[q].at + 1
            /\ req'[q].pc = "claim" /\ marker[Event(q)] = Done
  <2>1. CASE NextEvent(q) /\ marker[Event(q)] = Done
    BY <1>1, <2>1, NextEventIs DEF IInv
  <2>2. CASE Return(q)
    BY <2>2, ReturnIs DEF IInv
  <2>3. CASE req' = [req EXCEPT ![q].pc = "claim", ![q].round = 2]
    <3> DEFINE r == [req[q] EXCEPT !.pc = "claim", !.round = 2]
    <3>1. req[q] \in RequestStates /\ req' = [req EXCEPT ![q] = r]
      BY <2>3 DEF IInv, TypeOK
    <3>2. r \in RequestStates
      BY <3>1 DEF RequestStates, Steps
    <3>3. r.pc = "claim" /\ r.late = req[q].late /\ r.body = req[q].body /\ r.at = req[q].at
      BY <3>1 DEF RequestStates
    <3>4. req' \in [Requests -> RequestStates] /\ req'[q] = r /\ Others(q)
      BY <3>1, <3>2 DEF IInv, TypeOK, Others
    <3>5. \A p \in Requests : req'[p].at <= Len(req'[p].body) + 1
      BY <3>3, <3>4 DEF IInv, TypeOK, Others
    <3>6. QED BY <1>2, <3>3, <3>4, <3>5 DEF RequestsTyped, SameEvent
  <2>4. QED BY <2>1, <2>2, <2>3 DEF Look
<1>4. TypeOK'
  BY <1>1, <1>3 DEF IInv, TypeOK, RequestsTyped
<1>5. GotGrows /\ OthersClaims(q) /\ OtherMarkers(q)
  BY <1>1, MarkersKept DEF IInv, GotGrows, Got
<1>6. AckedIsHandedOver' /\ DoneIsGot'
  BY <1>1, <1>5, AckedKeeps, DoneKeeps
<1>7. PastIsGot'
  <2>1. marker[Event(q)] = Done => \A e \in Events : On(q, e) => Got(e)'
    BY <1>1, <1>5 DEF IInv, DoneIsGot, GotGrows, On
  <2>2. QED BY <1>1, <1>3, <1>5, <2>1, PastKeeps
<1>8. ClaimantWorks' /\ InTimeOwns'
  BY <1>1, <1>2, <1>3, <1>5, ClaimsKeep DEF At
<1>9. Counted'
  BY <1>1, <1>3, <1>5, CountedSame
<1>10. QED BY <1>4, <1>6, <1>7, <1>8, <1>9 DEF IInv

\* A claim that fails leaves its marker to nobody.
LEMMA ClaimFailsKeeps ==
  ASSUME IInv, NEW q \in Requests, ClaimFails(q)
  PROVE  IInv'
<1>1. /\ req[q].at <= Len(req[q].body) /\ Event(q) \in Events
      /\ faults' \in 0..MaxFaults /\ req[q].pc \in {"claim", "look"}
  BY EventIn, FaultsAssumption DEF IInv, TypeOK, ClaimFails, At, Fault
<1>2. \A e \in Events : marker[e] # PendingBy(q)
  BY <1>1 DEF IInv, ClaimantWorks, Working
<1>3. /\ Others(q) /\ RequestsTyped' /\ req'[q].pc = "idle" /\ req'[q].late = FALSE
      /\ Len(req'[q].body) = 0
  BY ReturnIs DEF IInv, ClaimFails
<1>4. /\ marker' \in [Events -> Marker] /\ OthersClaims(q) /\ OtherMarkers(q)
      /\ marker'[Event(q)] \in {marker[Event(q)], Orphan}
  BY <1>1, SetMarkerIs, MarkersKept DEF IInv, ClaimFails, Own
<1>5. \A e \in Events : marker'[e] # PendingBy(q)
  BY <1>1, <1>2, <1>4, MarkersDiffer DEF OtherMarkers, On
<1>6. TypeOK'
  BY <1>1, <1>2, <1>3, <1>4, <1>5 DEF IInv, TypeOK, RequestsTyped, ClaimFails
<1>7. GotGrows
  BY DEF IInv, TypeOK, ClaimFails, GotGrows, Got
<1>8. AckedIsHandedOver'
  BY <1>7, AckedKeeps DEF ClaimFails
<1>9. DoneIsGot'
  BY <1>4, <1>7, DoneKeeps, MarkersDiffer
<1>10. PastIsGot'
  BY <1>3, <1>7, PastKeeps
<1>11. ClaimantWorks' /\ InTimeOwns'
  BY <1>3, <1>4, <1>5, ClaimsKeep DEF At
<1>12. Counted'
  BY <1>1, <1>3, <1>4, CountedSame DEF ClaimFails
<1>13. QED BY <1>6, <1>8, <1>9, <1>10, <1>11, <1>12 DEF IInv

\* The sink refuses the event for good: a letter is next, under the same claim.
LEMMA SinkRefusesKeeps ==
  ASSUME IInv, NEW q \in Requests, SinkRefuses(q)
  PROVE  IInv'
<1>1. /\ req[q].at <= Len(req[q].body) /\ Event(q) \in Events /\ On(q, Event(q))
  BY EventIn DEF IInv, SinkRefuses, At, On
<1>2. /\ Others(q) /\ RequestsTyped' /\ SameEvent(q) /\ req'[q].late = req[q].late
      /\ req'[q].pc = "letter" /\ req[q].pc = "sink"
  BY GotoIs DEF IInv, SinkRefuses, Steps, At
<1>3. /\ marker' \in [Events -> Marker] /\ marker' = marker
      /\ OthersClaims(q) /\ OtherMarkers(q)
  BY MarkersKept DEF IInv, SinkRefuses
<1>4. TypeOK'
  BY <1>1, <1>2, <1>3 DEF IInv, TypeOK, RequestsTyped, SinkRefuses
<1>5. GotGrows
  BY DEF IInv, TypeOK, SinkRefuses, GotGrows, Got
<1>6. AckedIsHandedOver'
  BY <1>5, AckedKeeps DEF SinkRefuses
<1>7. DoneIsGot'
  BY <1>3, <1>5, DoneKeeps
<1>8. PastIsGot'
  BY <1>2, <1>5, PastKeeps
<1>9. ClaimantWorks' /\ InTimeOwns'
  <2>1. \A e \in Events : On(q, e)' <=> On(q, e)
    BY <1>2 DEF On, Event, SameEvent
  <2>2. \A e \in Events : marker'[e] = PendingBy(q)
           => e \notin Keyless /\ On(q, e)' /\ req'[q].late = FALSE
    BY <1>2, <1>3, <2>1 DEF IInv, TypeOK, RequestStates, ClaimantWorks
  <2>3. QED BY <1>2, <1>3, <2>2, ClaimsKeep DEF At, Working
<1>10. Counted'
  BY <1>2, <1>3, CountedSame DEF SinkRefuses
<1>11. QED BY <1>4, <1>6, <1>7, <1>8, <1>9, <1>10 DEF IInv

\* The event is not handed over: the claim is to be released.
LEMMA SinkFailsKeeps ==
  ASSUME IInv, NEW q \in Requests, SinkFails(q)
  PROVE  IInv'
<1>1. /\ req[q].at <= Len(req[q].body) /\ Event(q) \in Events /\ On(q, Event(q))
  BY EventIn DEF IInv, SinkFails, At, On
<1>2. /\ Others(q) /\ RequestsTyped' /\ req[q].pc \in Working \ {"mark"}
      /\ \/ /\ Len(req'[q].body) = 0 /\ req'[q].pc = "idle" /\ req'[q].late = FALSE
            /\ Event(q) \in Keyless
         \/ SameEvent(q) /\ req'[q].late = req[q].late /\ req'[q].pc = "release"
  BY GotoIs, ReturnIs DEF IInv, SinkFails, NotHandedOver, Steps, At, Working
<1>3. /\ marker' \in [Events -> Marker] /\ marker' = marker
      /\ OthersClaims(q) /\ OtherMarkers(q)
  BY MarkersKept DEF IInv, SinkFails
<1>4. faults' \in 0..MaxFaults
  BY FaultsAssumption DEF IInv, TypeOK, SinkFails, Fault
<1>5. TypeOK'
  BY <1>1, <1>2, <1>3, <1>4 DEF IInv, TypeOK, RequestsTyped, SinkFails
<1>6. GotGrows
  BY DEF IInv, TypeOK, SinkFails, GotGrows, Got
<1>7. AckedIsHandedOver'
  BY <1>6, AckedKeeps DEF SinkFails
<1>8. DoneIsGot'
  BY <1>3, <1>6, DoneKeeps
<1>9. PastIsGot'
  BY <1>2, <1>6, PastKeeps
<1>10. ClaimantWorks' /\ InTimeOwns'
  <2>1. \A e \in Events : marker'[e] = PendingBy(q)
           => e \notin Keyless /\ On(q, e)' /\ req'[q].pc \in Working /\ req'[q].late = FALSE
    BY <1>1, <1>2, <1>3
       DEF IInv, TypeOK, RequestStates, ClaimantWorks, On, Event, SameEvent, Working
  <2>2. QED BY <1>2, <1>3, <2>1, ClaimsKeep DEF At
<1>11. Counted'
  BY <1>2, <1>3, CountedSame DEF SinkFails
<1>12. QED BY <1>5, <1>7, <1>8, <1>9, <1>10, <1>11 DEF IInv

\* Nor is a letter recorded for certain: the claim is to be released.
LEMMA LetterFailsKeeps ==
  ASSUME IInv, NEW q \in Requests, LetterFails(q)
  PROVE  IInv'
<1>1. /\ req[q].at <= Len(req[q].body) /\ Event(q) \in Events /\ On(q, Event(q))
  BY EventIn DEF IInv, LetterFails, At, On
<1>2. /\ Others(q) /\ RequestsTyped' /\ req[q].pc \in Working \ {"mark"}
      /\ \/ /\ Len(req'[q].body) = 0 /\ req'[q].pc = "idle" /\ req'[q].late = FALSE
            /\ Event(q) \in Keyless
         \/ SameEvent(q) /\ req'[q].late = req[q].late /\ req'[q].pc = "release"
  BY GotoIs, ReturnIs DEF IInv, LetterFails, NotHandedOver, Steps, At, Working
<1>3. /\ marker' \in [Events -> Marker] /\ marker' = marker
      /\ OthersClaims(q) /\ OtherMarkers(q)
  BY MarkersKept DEF IInv, LetterFails
<1>4. faults' \in 0..MaxFaults
  BY FaultsAssumption DEF IInv, TypeOK, LetterFails, Fault
<1>5. TypeOK'
  BY <1>1, <1>2, <1>3, <1>4 DEF IInv, TypeOK, RequestsTyped, LetterFails
<1>6. GotGrows
  BY DEF IInv, TypeOK, LetterFails, GotGrows, Got
<1>7. AckedIsHandedOver'
  BY <1>6, AckedKeeps DEF LetterFails
<1>8. DoneIsGot'
  BY <1>3, <1>6, DoneKeeps
<1>9. PastIsGot'
  BY <1>2, <1>6, PastKeeps
<1>10. ClaimantWorks' /\ InTimeOwns'
  <2>1. \A e \in Events : marker'[e] = PendingBy(q)
           => e \notin Keyless /\ On(q, e)' /\ req'[q].pc \in Working /\ req'[q].late = FALSE
    BY <1>1, <1>2, <1>3
       DEF IInv, TypeOK, RequestStates, ClaimantWorks, On, Event, SameEvent, Working
  <2>2. QED BY <1>2, <1>3, <2>1, ClaimsKeep DEF At
<1>11. Counted'
  BY <1>2, <1>3, CountedSame DEF LetterFails
<1>12. QED BY <1>5, <1>7, <1>8, <1>9, <1>10, <1>11 DEF IInv

\* The sink accepts the event: within the lease, under the claim; after it,
\* with an excuse.
LEMMA SinkAcceptsKeeps ==
  ASSUME IInv, NEW q \in Requests, SinkAccepts(q)
  PROVE  IInv'
<1>1. /\ req[q].at <= Len(req[q].body) /\ Event(q) \in Events /\ On(q, Event(q))
  BY EventIn DEF IInv, SinkAccepts, At, On
<1>2. /\ Others(q) /\ RequestsTyped' /\ req[q].pc = "sink"
      /\ \/ /\ req'[q].body = req[q].body /\ req'[q].at = req[q].at + 1
            /\ req'[q].pc = "claim" /\ req'[q].late = FALSE /\ Event(q) \in Keyless
         \/ /\ SameEvent(q) /\ req'[q].late = req[q].late /\ req'[q].pc = "mark"
            /\ Event(q) \notin Keyless
  BY <1>1, GotoIs, NextEventIs DEF IInv, SinkAccepts, HandedOver, Steps, At
<1>3. /\ marker' \in [Events -> Marker] /\ marker' = marker
      /\ OthersClaims(q) /\ OtherMarkers(q)
  BY MarkersKept DEF IInv, SinkAccepts
<1>4. /\ handed' \in [Events -> Nat] /\ handed[Event(q)] \in Nat
      /\ \A e \in Events : e # Event(q) => handed'[e] = handed[e]
      /\ \A e \in Events : On(q, e) => handed'[e] > 0
      /\ Event(q) \notin Keyless => handed'[Event(q)] = handed[Event(q)] + 1
  BY <1>1 DEF IInv, TypeOK, SinkAccepts, On
<1>5. /\ excuse' \in [Events -> Nat] /\ excuse[Event(q)] \in Nat
      /\ \A e \in Events : e # Event(q) => excuse'[e] = excuse[e]
      /\ req[q].late = FALSE => excuse' = excuse
      /\ req[q].late = TRUE => excuse'[Event(q)] = excuse[Event(q)] + 1
  BY <1>1 DEF IInv, TypeOK, SinkAccepts, Excuse
<1>6. TypeOK'
  BY <1>1, <1>2, <1>3, <1>4, <1>5 DEF IInv, TypeOK, RequestsTyped, SinkAccepts
<1>7. GotGrows
  BY DEF IInv, TypeOK, SinkAccepts, GotGrows, Got
<1>8. AckedIsHandedOver'
  BY <1>7, AckedKeeps DEF SinkAccepts
<1>9. DoneIsGot'
  BY <1>3, <1>7, DoneKeeps
<1>10. PastIsGot'
  <2>1. \A e \in Events : On(q, e) => Got(e)'
    BY <1>4 DEF Got
  <2>2. SameEvent(q) => Got(Event(q))'
    BY <1>1, <1>4 DEF Got, SameEvent, Event, On
  <2>3. QED BY <1>1, <1>2, <1>7, <2>1, <2>2, PastKeeps
<1>11. ClaimantWorks' /\ InTimeOwns'
  <2>1. \A e \in Events : marker'[e] = PendingBy(q)
           => e \notin Keyless /\ On(q, e)' /\ req'[q].pc \in Working /\ req'[q].late = FALSE
    BY <1>1, <1>2, <1>3
       DEF IInv, TypeOK, RequestStates, ClaimantWorks, On, Event, SameEvent, Working
  <2>2. QED BY <1>2, <1>3, <2>1, ClaimsKeep DEF At
<1>12. Counted'
  <2>1. ASSUME Event(q) \notin Keyless, req[q].late = FALSE
        PROVE  handed[Event(q)] <= excuse[Event(q)]
    <3>1. Owns(q)
      BY <1>1, <1>2, <2>1 DEF IInv, InTimeOwns, At
    <3>2. ~Recorded(Event(q))
      BY <1>2, <3>1, MarkersDiffer DEF Recorded, Owns
    <3>3. QED BY <1>1, <2>1, <3>2 DEF IInv, Counted, Bound
  <2>2. ASSUME NEW e \in Events \ Keyless, On(q, e), req[q].late = FALSE PROVE Bound(e)'
    <3>1. marker'[e] = PendingBy(q) /\ req'[q].pc = "mark"
      BY <1>1, <1>2, <1>3, <2>2 DEF IInv, InTimeOwns, At, Owns, On
    <3>2. Recorded(e)'
      BY <3>1 DEF Recorded
    <3>3. e = Event(q) /\ handed'[e] = handed[e] + 1 /\ excuse'[e] = excuse[e]
      BY <1>4, <1>5, <2>2 DEF On
    <3>4. handed[e] <= excuse[e] /\ handed[e] \in Nat /\ excuse[e] \in Nat
      BY <1>4, <1>5, <2>1, <2>2, <3>3
    <3>5. handed'[e] <= 1 + excuse'[e]
      BY <3>3, <3>4
    <3>6. QED BY <3>2, <3>5 DEF Bound
  <2>3. ASSUME NEW e \in Events \ Keyless, On(q, e), req[q].late = TRUE PROVE Bound(e)'
    <3>1. marker[e] # PendingBy(q)
      BY <2>3 DEF IInv, ClaimantWorks
    <3>2. Recorded(e)' <=> Recorded(e)
      BY <1>2, <1>3, <3>1 DEF Recorded, Others
    <3>3. Bound(e)
      BY DEF IInv, Counted
    <3>4. QED BY <1>4, <1>5, <2>3, <3>2, <3>3 DEF Bound, On
  <2>4. req[q].late \in BOOLEAN
    BY DEF IInv, TypeOK, RequestStates
  <2>5. \A e \in Events : ~On(q, e) => e # Event(q)
    BY <1>1
  <2>6. QED BY <1>2, <1>3, <1>4, <1>5, <2>2, <2>3, <2>4, <2>5, CountedKeeps
<1>13. QED BY <1>6, <1>8, <1>9, <1>10, <1>11, <1>12 DEF IInv

\* The event has a dead letter: it is handed over.
LEMMA LetterKeeps ==
  ASSUME IInv, NEW q \in Requests, Letter(q)
  PROVE  IInv'
<1>1. /\ req[q].at <= Len(req[q].body) /\ Event(q) \in Events /\ On(q, Event(q))
  BY EventIn DEF IInv, Letter, At, On
<1>2. /\ Others(q) /\ RequestsTyped' /\ req[q].pc = "letter"
      /\ \/ /\ req'[q].body = req[q].body /\ req'[q].at = req[q].at + 1
            /\ req'[q].pc = "claim" /\ req'[q].late = FALSE /\ Event(q) \in Keyless
         \/ /\ SameEvent(q) /\ req'[q].late = req[q].late /\ req'[q].pc = "mark"
            /\ Event(q) \notin Keyless
  BY <1>1, GotoIs, NextEventIs DEF IInv, Letter, HandedOver, Steps, At
<1>3. /\ marker' \in [Events -> Marker] /\ marker' = marker
      /\ OthersClaims(q) /\ OtherMarkers(q)
  BY MarkersKept DEF IInv, Letter
<1>4. TypeOK'
  BY <1>1, <1>2, <1>3 DEF IInv, TypeOK, RequestsTyped, Letter
<1>5. GotGrows
  BY DEF IInv, TypeOK, Letter, GotGrows, Got
<1>6. AckedIsHandedOver'
  BY <1>5, AckedKeeps DEF Letter
<1>7. DoneIsGot'
  BY <1>3, <1>5, DoneKeeps
<1>8. PastIsGot'
  <2>1. \A e \in Events : On(q, e) => Got(e)'
    BY DEF Got, Letter, On
  <2>2. SameEvent(q) => Got(Event(q))'
    BY DEF Got, SameEvent, Event, Letter
  <2>3. QED BY <1>1, <1>2, <1>5, <2>1, <2>2, PastKeeps
<1>9. ClaimantWorks' /\ InTimeOwns'
  <2>1. \A e \in Events : marker'[e] = PendingBy(q)
           => e \notin Keyless /\ On(q, e)' /\ req'[q].pc \in Working /\ req'[q].late = FALSE
    BY <1>1, <1>2, <1>3
       DEF IInv, TypeOK, RequestStates, ClaimantWorks, On, Event, SameEvent, Working
  <2>2. QED BY <1>2, <1>3, <2>1, ClaimsKeep DEF At
<1>10. Counted'
  BY <1>2, <1>3, CountedSame DEF Letter
<1>11. QED BY <1>4, <1>6, <1>7, <1>8, <1>9, <1>10 DEF IInv

\* The claim becomes done, or it had run out and the marker is looked at again.
LEMMA MarkKeeps ==
  ASSUME IInv, NEW q \in Requests, Mark(q)
  PROVE  IInv'
<1>1. /\ req[q].at <= Len(req[q].body) /\ Event(q) \in Events /\ On(q, Event(q))
  BY EventIn DEF IInv, Mark, At, On
<1>2. /\ Others(q) /\ RequestsTyped' /\ req[q].pc = "mark"
      /\ \A e \in Events : On(q, e) => Got(e)
  BY <1>1, GotoIs, NextEventIs DEF IInv, PastIsGot, Mark, Steps, At, On
<1>3. /\ marker' \in [Events -> Marker] /\ OthersClaims(q) /\ OtherMarkers(q)
      /\ \/ /\ marker'[Event(q)] = Done
            /\ req'[q].body = req[q].body /\ req'[q].at = req[q].at + 1
            /\ req'[q].pc = "claim" /\ req'[q].late = FALSE
         \/ /\ marker' = marker /\ marker[Event(q)] # PendingBy(q)
            /\ SameEvent(q) /\ req'[q].pc = "take"
  BY <1>1, SetMarkerIs, MarkersKept, GotoIs, NextEventIs DEF IInv, Mark, Own, Steps, Owns
<1>4. \A e \in Events : marker'[e] # PendingBy(q)
  BY <1>1, <1>3, MarkersDiffer DEF IInv, ClaimantWorks, OtherMarkers, On
<1>5. TypeOK'
  BY <1>1, <1>2, <1>3, <1>4 DEF IInv, TypeOK, RequestsTyped, Mark
<1>6. GotGrows
  BY DEF IInv, TypeOK, Mark, GotGrows, Got
<1>7. AckedIsHandedOver'
  BY <1>6, AckedKeeps DEF Mark
<1>8. DoneIsGot'
  BY <1>2, <1>3, <1>6, DoneKeeps DEF GotGrows
<1>9. PastIsGot'
  <2>1. \A e \in Events : On(q, e) => Got(e)'
    BY <1>2, <1>6 DEF GotGrows
  <2>2. SameEvent(q) => Got(Event(q))'
    BY <1>1, <2>1 DEF Mark, Got, SameEvent, Event
  <2>3. QED BY <1>1, <1>2, <1>3, <1>6, <2>1, <2>2, PastKeeps
<1>10. ClaimantWorks' /\ InTimeOwns'
  BY <1>2, <1>3, <1>4, ClaimsKeep DEF At
<1>11. Counted'
  <2>1. \A e \in Events : Recorded(e) => Recorded(e)'
    BY <1>1, <1>2, <1>3, <1>4 DEF IInv, ClaimantWorks, Recorded, Others, OthersClaims, On
  <2>2. QED BY <2>1 DEF IInv, Counted, Bound, Mark
<1>12. QED BY <1>5, <1>7, <1>8, <1>9, <1>10, <1>11 DEF IInv

\* A marker that nobody has is done after all.
LEMMA TakeKeeps ==
  ASSUME IInv, NEW q \in Requests, Take(q)
  PROVE  IInv'
<1>1. /\ req[q].at <= Len(req[q].body) /\ Event(q) \in Events /\ On(q, Event(q))
  BY EventIn DEF IInv, Take, At, On
<1>2. /\ Others(q) /\ RequestsTyped' /\ req[q].pc = "take"
      /\ req'[q].body = req[q].body /\ req'[q].at = req[q].at + 1
      /\ req'[q].pc = "claim" /\ req'[q].late = FALSE
  BY <1>1, NextEventIs DEF IInv, Take, At
<1>3. \A e \in Events : On(q, e) => Got(e)
  BY <1>1 DEF IInv, PastIsGot, Take, On
<1>4. /\ marker' \in [Events -> Marker] /\ OthersClaims(q) /\ OtherMarkers(q)
      /\ marker'[Event(q)] \in {marker[Event(q)], Done}
  BY <1>1, SetMarkerIs, MarkersKept DEF IInv, Take, Own
<1>5. \A e \in Events : marker'[e] # PendingBy(q)
  BY <1>1, <1>2, <1>4, MarkersDiffer DEF IInv, ClaimantWorks, OtherMarkers, On, Working
<1>6. TypeOK'
  BY <1>1, <1>2, <1>3, <1>4, <1>5 DEF IInv, TypeOK, RequestsTyped, Take
<1>7. GotGrows
  BY DEF IInv, TypeOK, Take, GotGrows, Got
<1>8. AckedIsHandedOver'
  BY <1>7, AckedKeeps DEF Take
<1>9. DoneIsGot'
  BY <1>3, <1>4, <1>7, DoneKeeps DEF GotGrows
<1>10. PastIsGot'
  BY <1>1, <1>2, <1>3, <1>7, PastKeeps DEF GotGrows
<1>11. ClaimantWorks' /\ InTimeOwns'
  BY <1>2, <1>4, <1>5, ClaimsKeep DEF At
<1>12. Counted'
  BY <1>2, <1>4, CountedSame DEF Take
<1>13. QED BY <1>6, <1>8, <1>9, <1>10, <1>11, <1>12 DEF IInv

\* A claim is given up: nobody has it.
LEMMA ReleaseKeeps ==
  ASSUME IInv, NEW q \in Requests, Release(q)
  PROVE  IInv'
<1>1. /\ req[q].at <= Len(req[q].body) /\ Event(q) \in Events /\ On(q, Event(q))
  BY EventIn DEF IInv, Release, At, On
<1>2. /\ Others(q) /\ RequestsTyped' /\ req'[q].pc = "idle" /\ req'[q].late = FALSE
      /\ Len(req'[q].body) = 0
  BY ReturnIs DEF IInv, Release
<1>3. /\ marker' \in [Events -> Marker] /\ OthersClaims(q) /\ OtherMarkers(q)
      /\ marker'[Event(q)] = IF Owns(q) THEN Absent ELSE marker[Event(q)]
  BY <1>1, SetMarkerIs, MarkersKept DEF IInv, Release, Own
<1>4. \A e \in Events : marker'[e] # PendingBy(q)
  BY <1>1, <1>3, MarkersDiffer DEF IInv, ClaimantWorks, OtherMarkers, On, Owns
<1>5. TypeOK'
  BY <1>1, <1>2, <1>3, <1>4 DEF IInv, TypeOK, RequestsTyped, Release
<1>6. GotGrows
  BY DEF IInv, TypeOK, Release, GotGrows, Got
<1>7. AckedIsHandedOver'
  BY <1>6, AckedKeeps DEF Release
<1>8. DoneIsGot'
  BY <1>3, <1>6, DoneKeeps, MarkersDiffer
<1>9. PastIsGot'
  BY <1>2, <1>6, PastKeeps
<1>10. ClaimantWorks' /\ InTimeOwns'
  BY <1>2, <1>3, <1>4, ClaimsKeep DEF At
<1>11. Counted'
  BY <1>2, <1>3, CountedSame DEF Release, At
<1>12. QED BY <1>5, <1>7, <1>8, <1>9, <1>10, <1>11 DEF IInv

\* A claim that cannot be given up is left to its lease.
LEMMA ReleaseFailsKeeps ==
  ASSUME IInv, NEW q \in Requests, ReleaseFails(q)
  PROVE  IInv'
<1>1. /\ req[q].at <= Len(req[q].body) /\ Event(q) \in Events /\ On(q, Event(q))
  BY EventIn DEF IInv, ReleaseFails, At, On
<1>2. /\ Others(q) /\ RequestsTyped' /\ req'[q].pc = "idle" /\ req'[q].late = FALSE
      /\ Len(req'[q].body) = 0
  BY ReturnIs DEF IInv, ReleaseFails
<1>3. /\ marker' \in [Events -> Marker] /\ OthersClaims(q) /\ OtherMarkers(q)
      /\ marker'[Event(q)] = IF Owns(q) THEN Orphan ELSE marker[Event(q)]
  BY <1>1, LeaveMarkerIs DEF IInv, ReleaseFails
<1>4. \A e \in Events : marker'[e] # PendingBy(q)
  BY <1>1, <1>3, MarkersDiffer DEF IInv, ClaimantWorks, OtherMarkers, On, Owns
<1>5. faults' \in 0..MaxFaults
  BY FaultsAssumption DEF IInv, TypeOK, ReleaseFails, Fault
<1>6. TypeOK'
  BY <1>1, <1>2, <1>3, <1>4, <1>5 DEF IInv, TypeOK, RequestsTyped, ReleaseFails
<1>7. GotGrows
  BY DEF IInv, TypeOK, ReleaseFails, GotGrows, Got
<1>8. AckedIsHandedOver'
  BY <1>7, AckedKeeps DEF ReleaseFails
<1>9. DoneIsGot'
  BY <1>3, <1>7, DoneKeeps, MarkersDiffer
<1>10. PastIsGot'
  BY <1>2, <1>7, PastKeeps
<1>11. ClaimantWorks' /\ InTimeOwns'
  BY <1>2, <1>3, <1>4, ClaimsKeep DEF At
<1>12. Counted'
  BY <1>2, <1>3, CountedSame DEF ReleaseFails, At
<1>13. QED BY <1>6, <1>8, <1>9, <1>10, <1>11, <1>12 DEF IInv

\* A completion that fails has marked the event, or leaves the marker with an
\* excuse for its delivery.
LEMMA CompleteFailsKeeps ==
  ASSUME IInv, NEW q \in Requests, CompleteFails(q)
  PROVE  IInv'
<1>1. /\ req[q].at <= Len(req[q].body) /\ Event(q) \in Events /\ On(q, Event(q))
      /\ faults' \in 0..MaxFaults /\ req[q].pc \in {"mark", "take"}
  BY EventIn, FaultsAssumption DEF IInv, TypeOK, CompleteFails, At, On, Fault
<1>2. /\ Others(q) /\ RequestsTyped'
      /\ req'[q].body = req[q].body /\ req'[q].at = req[q].at + 1
      /\ req'[q].pc = "claim" /\ req'[q].late = FALSE
  BY <1>1, NextEventIs DEF IInv, CompleteFails
<1>3. \A e \in Events : On(q, e) => Got(e)
  BY <1>1 DEF IInv, PastIsGot, At, On
<1>4. /\ marker' \in [Events -> Marker] /\ OthersClaims(q) /\ OtherMarkers(q)
      /\ \/ marker'[Event(q)] = Done /\ UNCHANGED excuse
         \/ /\ marker'[Event(q)] = IF Owns(q) THEN Orphan ELSE marker[Event(q)]
            /\ IF Owns(q) THEN Excuse(q) ELSE UNCHANGED excuse
  BY <1>1, SetMarkerIs, LeaveMarkerIs DEF IInv, CompleteFails, Own
<1>5. \A e \in Events : marker'[e] # PendingBy(q)
  BY <1>1, <1>4, MarkersDiffer DEF IInv, ClaimantWorks, OtherMarkers, On, Owns
<1>6. /\ excuse' \in [Events -> Nat]
      /\ \A e \in Events : e # Event(q) => excuse'[e] = excuse[e]
      /\ \/ excuse' = excuse /\ (Owns(q) => marker'[Event(q)] = Done)
         \/ excuse'[Event(q)] = excuse[Event(q)] + 1 /\ marker[Event(q)] = PendingBy(q)
  BY <1>1, <1>4 DEF IInv, TypeOK, Excuse, Owns
<1>7. TypeOK'
  BY <1>1, <1>2, <1>3, <1>4, <1>5, <1>6 DEF IInv, TypeOK, RequestsTyped, CompleteFails
<1>8. GotGrows
  BY DEF IInv, TypeOK, CompleteFails, GotGrows, Got
<1>9. AckedIsHandedOver'
  BY <1>8, AckedKeeps DEF CompleteFails
<1>10. DoneIsGot'
  BY <1>3, <1>4, <1>8, DoneKeeps, MarkersDiffer DEF GotGrows
<1>11. PastIsGot'
  BY <1>1, <1>2, <1>3, <1>8, PastKeeps DEF GotGrows
<1>12. ClaimantWorks' /\ InTimeOwns'
  BY <1>2, <1>4, <1>5, ClaimsKeep DEF At
<1>13. Counted'
  <2>1. handed' = handed /\ handed \in [Events -> Nat] /\ excuse \in [Events -> Nat]
    BY DEF IInv, TypeOK, CompleteFails
  <2>2. ASSUME NEW e \in Events \ Keyless, On(q, e) PROVE Bound(e)'
    <3>1. Bound(e) /\ e = Event(q)
      BY <2>2 DEF IInv, Counted, On
    <3>2. CASE excuse' = excuse /\ (Owns(q) => marker'[Event(q)] = Done)
      <4>1. Recorded(e) => Recorded(e)'
        BY <1>2, <1>4, <3>1, <3>2 DEF Recorded, Others, OthersClaims, Owns
      <4>2. QED BY <2>1, <3>1, <3>2, <4>1 DEF Bound
    <3>3. CASE excuse'[Event(q)] = excuse[Event(q)] + 1
      BY <2>1, <3>1, <3>3 DEF Bound
    <3>4. QED BY <1>6, <3>2, <3>3
  <2>3. QED BY <1>1, <1>2, <1>4, <1>6, <2>1, <2>2, CountedKeeps DEF OtherMarkers
<1>14. QED BY <1>7, <1>9, <1>10, <1>11, <1>12, <1>13 DEF IInv

\* A request past its body has every event of it handed over.
LEMMA AcknowledgeKeeps ==
  ASSUME IInv, NEW q \in Requests, Acknowledge(q)
  PROVE  IInv'
<1>1. /\ Others(q) /\ RequestsTyped' /\ req'[q].pc = "idle" /\ req'[q].late = FALSE
      /\ Len(req'[q].body) = 0
  BY ReturnIs DEF IInv, Acknowledge
<1>2. /\ marker' \in [Events -> Marker] /\ marker' = marker
      /\ OthersClaims(q) /\ OtherMarkers(q)
      /\ \A e \in Events : marker[e] # PendingBy(q)
  BY MarkersKept DEF IInv, ClaimantWorks, Working, Acknowledge
<1>3. UNCHANGED <<handed, lettered, excuse, faults>> /\ acked' = acked \cup {req[q].body}
      /\ req[q].pc = "claim" /\ req[q].at > Len(req[q].body)
  BY DEF Acknowledge
<1>4. TypeOK'
  <2>1. req[q].body \in Bodies \cup {<<>>}
    BY DEF IInv, TypeOK, RequestStates
  <2>2. QED BY <1>1, <1>2, <1>3, <2>1 DEF IInv, TypeOK, RequestsTyped
<1>5. GotGrows
  BY <1>3 DEF GotGrows, Got
<1>6. AckedIsHandedOver'
  <2>1. \A i \in 1..Len(req[q].body) : i < req[q].at
    BY <1>3, EventIn DEF IInv
  <2>2. \A i \in 1..Len(req[q].body) : Got(req[q].body[i])
    BY <2>1 DEF IInv, PastIsGot
  <2>3. \A b \in acked' : \A i \in 1..Len(b) : Got(b[i])
    BY <1>3, <2>2 DEF IInv, AckedIsHandedOver
  <2>4. QED BY <1>3, <2>3 DEF AckedIsHandedOver, Got
<1>7. DoneIsGot'
  BY <1>2, <1>5, DoneKeeps
<1>8. PastIsGot'
  BY <1>1, <1>5, PastKeeps
<1>9. ClaimantWorks' /\ InTimeOwns'
  BY <1>1, <1>2, ClaimsKeep DEF At
<1>10. Counted'
  BY <1>1, <1>2, <1>3, CountedSame
<1>11. QED BY <1>4, <1>6, <1>7, <1>8, <1>9, <1>10 DEF IInv

\* A dropped request leaves its claim to nobody, with an excuse for a delivery
\* it was about to mark.
LEMMA DropKeeps ==
  ASSUME IInv, NEW q \in Requests, Drop(q)
  PROVE  IInv'
<1>1. /\ Others(q) /\ RequestsTyped' /\ req'[q].pc = "idle" /\ req'[q].late = FALSE
      /\ Len(req'[q].body) = 0
  BY ReturnIs DEF IInv, Drop
<1>2. faults' \in 0..MaxFaults
  BY FaultsAssumption DEF IInv, TypeOK, Drop, Fault
<1>3. /\ marker' \in [Events -> Marker] /\ OthersClaims(q) /\ OtherMarkers(q)
      /\ \A e \in Events : On(q, e) =>
           marker'[e] = IF marker[e] = PendingBy(q) THEN Orphan ELSE marker[e]
  <2>1. CASE req[q].at <= Len(req[q].body)
    BY <2>1, LeaveMarkerIs DEF IInv, Drop, On, Owns
  <2>2. CASE ~(req[q].at <= Len(req[q].body))
    BY <2>2, MarkersKept DEF IInv, Drop, On
  <2>3. QED BY <2>1, <2>2
<1>4. \A e \in Events : marker'[e] # PendingBy(q)
  BY <1>3, MarkersDiffer DEF IInv, ClaimantWorks, OtherMarkers
<1>5. /\ excuse' \in [Events -> Nat]
      /\ \A e \in Events : ~On(q, e) => excuse'[e] = excuse[e]
      /\ \A e \in Events : On(q, e) =>
           excuse'[e] = IF req[q].pc = "mark" /\ marker[e] = PendingBy(q) THEN excuse[e] + 1
                                                                       ELSE excuse[e]
  <2>1. CASE req[q].at <= Len(req[q].body)
    <3>1. Event(q) \in Events /\ excuse \in [Events -> Nat]
      BY <2>1, EventIn DEF IInv, TypeOK
    <3>2. excuse' = IF req[q].pc = "mark" /\ marker[Event(q)] = PendingBy(q)
                      THEN [excuse EXCEPT ![Event(q)] = @ + 1] ELSE excuse
      BY <2>1 DEF Drop, Excuse, Owns
    <3>3. QED BY <2>1, <3>1, <3>2 DEF On
  <2>2. CASE ~(req[q].at <= Len(req[q].body))
    BY <2>2 DEF IInv, TypeOK, Drop, On
  <2>3. QED BY <2>1, <2>2
<1>6. TypeOK'
  BY <1>1, <1>2, <1>3, <1>4, <1>5 DEF IInv, TypeOK, RequestsTyped, Drop
<1>7. GotGrows
  BY DEF IInv, TypeOK, Drop, GotGrows, Got
<1>8. AckedIsHandedOver'
  BY <1>7, AckedKeeps DEF Drop
<1>9. DoneIsGot'
  <2>1. \A e \in Events : marker'[e] = Done => marker[e] = Done
    BY <1>3, MarkersDiffer DEF OtherMarkers
  <2>2. QED BY <2>1, <1>7 DEF IInv, DoneIsGot, GotGrows
<1>10. PastIsGot'
  BY <1>1, <1>7, PastKeeps
<1>11. ClaimantWorks' /\ InTimeOwns'
  BY <1>1, <1>3, <1>4, ClaimsKeep DEF At
<1>12. Counted'
  <2>1. handed' = handed /\ handed \in [Events -> Nat] /\ excuse \in [Events -> Nat]
    BY DEF IInv, TypeOK, Drop
  <2>2. ASSUME NEW e \in Events \ Keyless, On(q, e) PROVE Bound(e)'
    <3>1. Bound(e)
      BY DEF IInv, Counted
    <3>2. CASE req[q].pc = "mark" /\ marker[e] = PendingBy(q)
      BY <1>5, <2>1, <2>2, <3>1, <3>2 DEF Bound
    <3>3. CASE ~(req[q].pc = "mark" /\ marker[e] = PendingBy(q))
      <4>1. Recorded(e) => Recorded(e)'
        BY <1>1, <1>3, <3>3 DEF Recorded, Others, OthersClaims
      <4>2. excuse'[e] = excuse[e]
        BY <1>5, <2>2, <3>3
      <4>3. QED BY <2>1, <3>1, <4>1, <4>2 DEF Bound
    <3>4. QED BY <3>2, <3>3
  <2>3. QED BY <1>1, <1>3, <1>5, <2>1, <2>2, CountedKeeps DEF OtherMarkers
<1>13. QED BY <1>6, <1>8, <1>9, <1>10, <1>11, <1>12 DEF IInv

LEMMA NextInv == IInv /\ [Next]_vars => IInv'
<1> SUFFICES ASSUME IInv, [Next]_vars PROVE IInv'
  OBVIOUS
<1>1. ASSUME NEW q \in Requests, NEW b \in Bodies, Post(q, b) PROVE IInv'
  BY <1>1, PostKeeps
<1>2. ASSUME NEW e \in Events, Expire(e) PROVE IInv'
  BY <1>2, ExpireKeeps
<1>3. ASSUME NEW q \in Requests, Dispatch(q) PROVE IInv'
  BY <1>3, ClaimKeeps, LookKeeps, SinkAcceptsKeeps, SinkRefusesKeeps, LetterKeeps, MarkKeeps,
     TakeKeeps, ReleaseKeeps, AcknowledgeKeeps DEF Dispatch
<1>4. ASSUME NEW q \in Requests, Failure(q) PROVE IInv'
  BY <1>4, ClaimFailsKeeps, SinkFailsKeeps, LetterFailsKeeps, CompleteFailsKeeps,
     ReleaseFailsKeeps, DropKeeps, OutlastKeeps DEF Failure
<1>5. CASE UNCHANGED vars
  BY <1>5 DEF vars, IInv, TypeOK, DoneIsGot, PastIsGot, AckedIsHandedOver, ClaimantWorks,
              InTimeOwns, Counted, Bound, Recorded, Got, At, On, Event, Owns
<1>6. QED BY <1>1, <1>2, <1>3, <1>4, <1>5 DEF Next

LEMMA InvHolds == Spec => []IInv
<1>1. QED BY InitInv, NextInv, PTL DEF Spec

-----------------------------------------------------------------------------
(* The theorems.                                                           *)

\* Every variable keeps its type, and no request is further than past its body.
THEOREM TypeCorrect == Spec => []TypeOK
<1>1. IInv => TypeOK
  BY DEF IInv
<1>2. QED BY <1>1, InvHolds, PTL

\* However many requests carry a body, and whatever fails between them: once
\* it is answered 200, the sink or the dead-letter store has every event of it.
THEOREM NothingSwallowed == Spec => []AckedIsHandedOver
<1>1. IInv => AckedIsHandedOver
  BY DEF IInv
<1>2. QED BY <1>1, InvHolds, PTL

\* The sink accepts a keyed event at most once more often than a delivery of it
\* outlasted its lease or could not be marked done.
THEOREM DeliveredOnceButForExcuses == Spec => []DuplicatesExcused
<1>1. IInv => DuplicatesExcused
  BY DEF IInv, Counted, Bound, DuplicatesExcused
<1>2. QED BY <1>1, InvHolds, PTL

\* A claim is changed by its own request's calls and its lease alone: whatever
\* a late request completes or releases is no other request's claim.
THEOREM ClaimsAreOwn == Spec => ClaimIsOwn
<1> DEFINE Kept == \A e \in Events, q \in Requests :
              marker[e] = PendingBy(q) /\ marker'[e] # marker[e] => req'[q] # req[q]
<1>1. ASSUME IInv, Next PROVE Kept
  <2> SUFFICES ASSUME NEW e \in Events, NEW q \in Requests,
                      marker[e] = PendingBy(q), marker'[e] # marker[e]
               PROVE  req'[q] # req[q]
    OBVIOUS
  <2>1. /\ req[q].pc \in Working /\ req[q].late = FALSE /\ req[q].at \in Nat
        /\ On(q, e) /\ Owns(q) /\ marker[e] # Orphan
    BY <1>1, EventIn, MarkersDiffer
       DEF IInv, ClaimantWorks, TypeOK, RequestStates, On, Owns
  <2>2. ASSUME NEW p \in Requests, p # q, Dispatch(p) \/ Failure(p) PROVE FALSE
    <3>1. CASE UNCHANGED marker
      BY <3>1
    <3>2. req[p].at <= Len(req[p].body) => Event(p) \in Events
      BY <1>1, EventIn DEF IInv
    <3>3. CASE \E m : SetMarker(p, m) /\ (Owns(p) \/ marker[Event(p)] = Absent)
      BY <1>1, <2>2, <3>3, MarkersDiffer DEF IInv, TypeOK, SetMarker, Owns
    <3>4. CASE LeaveMarker(p)
      BY <1>1, <2>2, <3>4, MarkersDiffer DEF IInv, TypeOK, LeaveMarker, Owns
    <3>5. QED
      BY <2>2, <3>1, <3>3, <3>4
         DEF Dispatch, Failure, Claim, Look, SinkAccepts, SinkRefuses, Letter, Mark, Take,
             Release, Acknowledge, ClaimFails, SinkFails, LetterFails, CompleteFails, At,
             ReleaseFails, Drop, Outlast
  <2>3. ASSUME Dispatch(q) \/ Failure(q), req'[q] = req[q] PROVE FALSE
    <3>1. req[q].pc \notin {"idle", "claim"}
      BY <2>1 DEF Working
    <3>2. ~Return(q) /\ ~NextEvent(q)
      BY <1>1, <2>1, <2>3, <3>1, ReturnIs, NextEventIs DEF IInv, On
    <3>3. ~(req' = [req EXCEPT ![q].late = TRUE])
      BY <1>1, <2>1, <2>3 DEF IInv, TypeOK, RequestStates
    <3>4. QED
      BY <2>1, <2>3, <3>2, <3>3
         DEF Dispatch, Failure, Claim, Look, SinkAccepts, SinkRefuses, Letter, Mark, Take,
             Release, Acknowledge, ClaimFails, SinkFails, LetterFails, CompleteFails,
             ReleaseFails, Drop, Outlast, At, Working
  <2>4. ASSUME NEW p \in Requests, NEW b \in Bodies, Post(p, b) PROVE FALSE
    BY <2>4 DEF Post
  <2>5. ASSUME NEW d \in Events, Expire(d) PROVE FALSE
    BY <1>1, <2>1, <2>5 DEF IInv, TypeOK, Expire
  <2>6. QED BY <1>1, <2>2, <2>3, <2>4, <2>5 DEF Next
<1>2. IInv /\ [Next]_vars => [Kept]_vars
  BY <1>1
<1>3. QED BY <1>2, InvHolds, PTL DEF Spec, ClaimIsOwn
=============================================================================
