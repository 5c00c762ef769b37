---------------------------- MODULE WebhooksOut -----------------------------
(***************************************************************************)
(* Outgoing webhooks of the server (meta-whatsapp-server-core's            *)
(* webhooks_out over the WebhookStore port, and the outbox's streams as    *)
(* the dispatcher reads them): every replica fans each tenant's events out *)
(* to the endpoints that ask for them, claims the deliveries under a       *)
(* lease, attempts and settles them, while tenants and operators change    *)
(* the endpoints.                                                          *)
(*                                                                         *)
(* Each call to the store or the outbox is a step; between two of them     *)
(* other replicas and requests run.  An event is its tenant and sequence.  *)
(* When a retry comes due is left open, and so is when an endpoint has     *)
(* failed for the whole window; how many attempts a window has is bounded. *)
(***************************************************************************)
EXTENDS Integers, Sequences, FiniteSets

CONSTANTS
  Tenants, Endpoints, Replicas,
  Types,       \* event types
  PerEndpoint, \* DispatchSettings::per_endpoint
  PerTenant,   \* DispatchSettings::per_tenant
  Workers,     \* DispatchSettings::workers
  PageSize,    \* DispatchSettings::fan_out_page
  MaxTries,    \* bound: counted attempts in a delivery's retry window
  MaxEvents,   \* bound: events of a tenant
  Budgets      \* bounds: the runs considered, [events, faults, changes]: how
               \* many events are inserted; crashes, calls that fail, answers
               \* lost and leases that run out; and changes by tenants and
               \* operators, purges included

ASSUME BoundsAssumption ==
  /\ MaxTries \in Nat \ {0} /\ MaxEvents \in Nat
  /\ Budgets \subseteq [events : Nat, faults : Nat, changes : Nat]
  /\ \A n \in {PerEndpoint, PerTenant, Workers, PageSize} : n \in Nat \ {0}
ASSUME TenantsAssumption == IsFiniteSet(Tenants) /\ Tenants # {}

VARIABLES
  stream,   \* stream[t]: the types of tenant t's events, in sequence order
  purged,   \* purged[t]: t's events up to here are gone from the outbox
  suspended,\* the tenants an operator suspended
  ep,       \* ep[e]: endpoint e
  dv,       \* dv[e][ev]: the delivery of event ev to endpoint e
  rep,      \* rep[r]: where replica r's loop stands
  att,      \* the attempts in flight
  budget,   \* what is left of the run's bounds
  \* history:
  wanted,   \* wanted[e]: the events inserted while e asked for them, and
            \* asked for ever since
  raced,    \* raced[e]: the events e's cursor passed by a page of types
            \* that e had changed since
  got,      \* got[e]: how often the receiver accepted an event
  excused   \* excused[e]: the events sent again for a cause

vars == <<stream, purged, suspended, ep, dv, rep, att, budget,
          wanted, raced, got, excused>>
history == <<wanted, raced, got, excused>>

Events == Tenants \X (1..MaxEvents)
TypeOf(ev) == stream[ev[1]][ev[2]]
Last(t) == Len(stream[t])

\* A stream an endpoint does not receive has no cursor.
NotNamed == -1
Receives(p, t) == p.cursor[t] # NotNamed
Named(e) == {t \in Tenants : Receives(ep[e], t)}

\* What a fan-out reads of an endpoint.
Asked(p) == [types |-> p.types, cursor |-> p.cursor]

NoDelivery == [status |-> "none", leased |-> FALSE, held |-> FALSE, claims |-> 0, tries |-> 0]
NewDelivery(d) == [NoDelivery EXCEPT !.status = "pending", !.claims = d.claims]
NoEndpoint == [state |-> "none", enabled |-> FALSE, failing |-> FALSE, types |-> {},
               cursor |-> [t \in Tenants |-> NotNamed]]
\* No page read, and a replica between rounds: about to claim.
NoPage == [ep |-> {}, from |-> 0, to |-> 0, events |-> {}, types |-> {}]
Idle == [endpoints |-> [e \in Endpoints |-> Asked(NoEndpoint)], todo |-> {}, page |-> NoPage]

Init == /\ stream = [t \in Tenants |-> <<>>]
        /\ purged = [t \in Tenants |-> 0]
        /\ suspended = {}
        /\ ep = [e \in Endpoints |-> NoEndpoint]
        /\ dv = [e \in Endpoints |-> [ev \in Events |-> NoDelivery]]
        /\ rep = [r \in Replicas |-> Idle]
        /\ att = {} /\ budget \in Budgets
        /\ wanted = [e \in Endpoints |-> {}] /\ raced = [e \in Endpoints |-> {}]
        /\ got = [e \in Endpoints |-> [ev \in Events |-> 0]]
        /\ excused = [e \in Endpoints |-> {}]

-----------------------------------------------------------------------------
(* The outbox.                                                             *)

Spend(what) == budget[what] > 0 /\ budget' = [budget EXCEPT ![what] = @ - 1]

\* An event is inserted: t's events become visible in sequence order.
Insert(t, type) ==
  /\ Last(t) < MaxEvents /\ Spend("events")
  /\ stream' = [stream EXCEPT ![t] = Append(@, type)]
  /\ wanted' = [e \in Endpoints |->
       IF Receives(ep[e], t) /\ type \in ep[e].types
         THEN wanted[e] \cup {<<t, Last(t) + 1>>} ELSE wanted[e]]
  /\ UNCHANGED <<purged, suspended, ep, dv, rep, att, raced, got, excused>>

\* Events not fanned out yet that endpoint e, as p, no longer asks for.
Unasked(e, p) ==
  {ev \in wanted[e] : \/ ~Receives(p, ev[1])
                      \/ ev[2] > p.cursor[ev[1]] /\ TypeOf(ev) \notin p.types}

\* Retention: the oldest event goes; nobody is to have it any more.
PurgeOutbox(t) ==
  /\ Spend("changes")
  /\ purged[t] < Last(t)
  /\ purged' = [purged EXCEPT ![t] = @ + 1]
  /\ wanted' = [e \in Endpoints |->
       {ev \in wanted[e] : ev # <<t, purged[t] + 1>> \/ ev[2] <= ep[e].cursor[t]}]
  /\ UNCHANGED <<stream, suspended, ep, dv, rep, att, raced, got, excused>>

-----------------------------------------------------------------------------
(* Fan-out: active_endpoints, then a page and a store call per stream.     *)

AttemptsOf(r) == {a \in att : a.rep = r}
Busy(r, t) == Cardinality({a \in AttemptsOf(r) : a.ev[1] = t}) >= PerTenant

\* Mutant of BusyEndpoint: one more than the bound.
BusyEndpointOver(r, e) == Cardinality({a \in AttemptsOf(r) : a.ep = e}) > PerEndpoint

BusyEndpoint(r, e) == Cardinality({a \in AttemptsOf(r) : a.ep = e}) >= PerEndpoint
Free(r) == Workers - Cardinality(AttemptsOf(r))

\* What replica r may claim: due, its lease over, none of an endpoint or a
\* tenant at its bound, a disabled endpoint or a suspended tenant.
Eligible(r, e, ev) ==
  /\ dv[e][ev].status = "pending" /\ ~dv[e][ev].leased
  /\ ep[e].enabled /\ ev[1] \notin suspended
  /\ ~BusyEndpoint(r, e) /\ ~Busy(r, ev[1])

Due(r, t) == {x \in Endpoints \X Events : x[2][1] = t /\ Eligible(r, x[1], x[2])}
DueTenants(r) == {t \in Tenants : Due(r, t) # {}}
Claimable(r) == Free(r) > 0 /\ DueTenants(r) # {}

\* Every enabled endpoint is read, with its types and its cursors.
ActiveEndpoints(r) ==
  LET todo == {x \in Endpoints \X Tenants : ep[x[1]].enabled /\ Receives(ep[x[1]], x[2])}
  IN  /\ rep[r] = Idle /\ todo # {}
      /\ rep' = [rep EXCEPT ![r].todo = todo,
                            ![r].endpoints = [e \in Endpoints |-> Asked(ep[e])]]
      /\ UNCHANGED <<stream, purged, suspended, ep, dv, att, budget, history>>

\* Outbox::headers_after: t's events after "after", of the types asked, at
\* most PageSize of them, and where the page ends.
Matching(t, after, types) ==
  {n \in (after + 1)..Last(t) : n > purged[t] /\ stream[t][n] \in types}
Headers(t, after, types) ==
  {n \in Matching(t, after, types) :
     Cardinality({m \in Matching(t, after, types) : m <= n}) <= PageSize}

\* Mutant of PageEnd: a page ends one past the stream.
PageEndPast(t, after, types) ==
  IF Headers(t, after, types) # Matching(t, after, types)
    THEN CHOOSE n \in Headers(t, after, types) : TRUE ELSE Last(t) + 1

\* Mutant of PageEnd: a page that is full ends where the stream does.
PageEndFull(t, after, types) == IF Last(t) > after THEN Last(t) ELSE after

PageEnd(t, after, types) ==
  LET page == Headers(t, after, types)
  IN  IF page # Matching(t, after, types) THEN CHOOSE n \in page : \A m \in page : m <= n
      ELSE IF Last(t) > after THEN Last(t) ELSE after

\* The rest of replica r's round.
Rest(r, e, t) ==
  LET todo == rep[r].todo \ {<<e, t>>}
  IN  IF todo = {} THEN Idle ELSE [rep[r] EXCEPT !.todo = todo, !.page = NoPage]

Page(r, e, t) ==
  LET p == rep[r].endpoints[e]
      after == p.cursor[t]
  IN  [ep |-> {<<e, t>>}, from |-> after, to |-> PageEnd(t, after, p.types),
       events |-> {<<t, n>> : n \in Headers(t, after, p.types)}, types |-> p.types]

\* fan_out_to reads a stream's page by what active_endpoints gave, and is
\* done with it when nothing is new.
ReadHeaders(r, e, t) ==
  LET page == Page(r, e, t)
  IN  /\ rep[r].page = NoPage /\ <<e, t>> \in rep[r].todo
      /\ rep' = [rep EXCEPT ![r] = IF page.to = page.from THEN Rest(r, e, t)
                                   ELSE [@ EXCEPT !.page = page]]
      /\ UNCHANGED <<stream, purged, suspended, ep, dv, att, budget, history>>

\* Mutant of CursorAt: any cursor will do.
CursorAtAny(e, t, from) == Receives(ep[e], t)

CursorAt(e, t, from) == Receives(ep[e], t) /\ ep[e].cursor[t] = from

\* WebhookStore::fan_out: the deliveries are recorded and the cursor moved
\* if it is still where the page began; else another replica did, or the
\* endpoint no longer receives t.
FanOut(r) ==
  LET page == rep[r].page
  IN  \E e \in Endpoints, t \in Tenants :
        /\ <<e, t>> \in page.ep
        /\ rep' = [rep EXCEPT ![r] = Rest(r, e, t)]
        /\ IF CursorAt(e, t, page.from)
             THEN /\ ep' = [ep EXCEPT ![e].cursor[t] = page.to]
                  /\ dv' = [dv EXCEPT ![e] = [ev \in Events |->
                       IF ev \in page.events /\ @[ev].status \in {"none", "purged"}
                         THEN NewDelivery(@[ev]) ELSE @[ev]]]
                  /\ raced' = IF page.types = ep[e].types THEN raced
                              ELSE [raced EXCEPT ![e] = @ \cup
                                     {<<t, n>> : n \in (page.from + 1)..page.to}]
             ELSE UNCHANGED <<ep, dv, raced>>
        /\ UNCHANGED <<stream, purged, suspended, att, budget, wanted, got, excused>>

\* A call of a stream's fan-out fails: the others go on.
FanOutFails(r, e, t) ==
  /\ Spend("faults")
  /\ <<e, t>> \in rep[r].todo /\ (rep[r].page = NoPage \/ <<e, t>> \in rep[r].page.ep)
  /\ rep' = [rep EXCEPT ![r] = Rest(r, e, t)]
  /\ UNCHANGED <<stream, purged, suspended, ep, dv, att, history>>

-----------------------------------------------------------------------------
(* Claims and attempts.                                                    *)

\* An attempt holds the endpoint as it was claimed with.
Attempt(r, e, ev) == [rep |-> r, ep |-> e, ev |-> ev, claim |-> dv[e][ev].claims + 1,
                      named |-> Receives(ep[e], ev[1]), result |-> "none"]

\* Mutant of Claims: a lease is not looked at.
ClaimsLeased(r, picked) ==
  /\ picked \subseteq UNION {Due(r, t) : t \in Tenants} \cup
       {x \in Endpoints \X Events :
          dv[x[1]][x[2]].status = "pending" /\ ep[x[1]].enabled /\ ~Busy(r, x[2][1])}
  /\ Cardinality(picked) = 1

\* WebhookStore::claim picks one due delivery per tenant (its oldest), as
\* many as there are workers free.
Claims(r, picked) ==
  /\ \A x, y \in picked : x[2][1] = y[2][1] => x = y
  /\ \A x \in picked : x \in Due(r, x[2][1])
  /\ LET n == Cardinality(DueTenants(r))
     IN  Cardinality(picked) = IF n <= Free(r) THEN n ELSE Free(r)

Claim(r) ==
  /\ rep[r] = Idle /\ Claimable(r)
  /\ \E picked \in SUBSET (Endpoints \X Events) :
       /\ Claims(r, picked)
       /\ dv' = [e \in Endpoints |-> [ev \in Events |->
            IF <<e, ev>> \in picked
              THEN [dv[e][ev] EXCEPT !.leased = TRUE, !.held = TRUE, !.claims = @ + 1]
              ELSE dv[e][ev]]]
       /\ att' = att \cup {Attempt(r, x[1], x[2]) : x \in picked}
  /\ UNCHANGED <<stream, purged, suspended, ep, rep, budget, history>>

Excuse(S) == excused' = [e \in Endpoints |-> excused[e] \cup {a.ev : a \in {b \in S : b.ep = e}}]

\* The event of attempt a is not there to be sent: its tenant is not one the
\* endpoint receives, or the outbox no longer has it.
Gone(a) == ~a.named \/ a.ev[2] <= purged[a.ev[1]]

Ends(a, result) ==
  /\ a \in att /\ a.result = "none"
  /\ att' = (att \ {a}) \cup {[a EXCEPT !.result = result]}

\* Dispatcher::send: the event is read and posted, unless it is gone; a
\* failure may be the receiver's, the store's or the network's.
Send(a, result) ==
  /\ Ends(a, result)
  /\ result = "gone" <=> Gone(a)
  /\ got' = IF result = "ok" THEN [got EXCEPT ![a.ep][a.ev] = @ + 1] ELSE got
  /\ UNCHANGED <<stream, purged, suspended, ep, dv, rep, budget, wanted, raced, excused>>

\* The receiver accepts the event and its answer is lost, or late: to the
\* dispatcher a failure.
AnswerLost(a) ==
  /\ Spend("faults")
  /\ Ends(a, "fail") /\ ~Gone(a)
  /\ got' = [got EXCEPT ![a.ep][a.ev] = @ + 1]
  /\ Excuse({a})
  /\ UNCHANGED <<stream, purged, suspended, ep, dv, rep, wanted, raced>>

\* Where an attempt leaves its delivery: a failure is tried again until the
\* window is over.
Outcomes(d, result) ==
  CASE result = "ok" -> {"delivered"}
    [] result = "gone" -> {"failed"}
    [] result = "fail" -> IF d.tries + 1 >= MaxTries THEN {"failed"} ELSE {"pending", "failed"}

OwnClaim(a) == LET d == dv[a.ep][a.ev]
               IN  d.held /\ d.claims = a.claim /\ d.status = "pending"

\* WebhookStore::settle, by the claim that holds the delivery: the attempt
\* is counted unless it never left, and an endpoint that goes on failing
\* when a delivery is given up may be disabled.
Settle(a) ==
  LET d == dv[a.ep][a.ev]
      counted == a.result # "gone"
  IN  /\ a \in att /\ a.result # "none"
      /\ att' = att \ {a}
      /\ IF OwnClaim(a)
           THEN \E status \in Outcomes(d, a.result), disable \in BOOLEAN :
                  /\ disable => status = "failed" /\ counted /\ ep[a.ep].failing
                  /\ dv' = [dv EXCEPT ![a.ep][a.ev] =
                       [d EXCEPT !.status = status, !.leased = FALSE, !.held = FALSE,
                                 !.tries = IF counted THEN @ + 1 ELSE @]]
                  /\ ep' = [ep EXCEPT ![a.ep].failing = IF counted THEN status # "delivered" ELSE @,
                                      ![a.ep].enabled = @ /\ ~disable]
           ELSE UNCHANGED <<dv, ep>>
      /\ UNCHANGED <<stream, purged, suspended, rep, budget, history>>

\* Recording an attempt fails: its delivery stays claimed.
SettleFails(a) ==
  /\ Spend("faults")
  /\ a \in att /\ a.result # "none"
  /\ att' = att \ {a}
  /\ Excuse({a})
  /\ UNCHANGED <<stream, purged, suspended, ep, dv, rep, wanted, raced, got>>

\* The replica stops: its round and its attempts end where they are.
Crash(r) ==
  /\ Spend("faults")
  /\ rep' = [rep EXCEPT ![r] = Idle]
  /\ att' = att \ AttemptsOf(r)
  /\ Excuse(AttemptsOf(r))
  /\ UNCHANGED <<stream, purged, suspended, ep, dv, wanted, raced, got>>

InFlight(e, ev) == {a \in att : a.ep = e /\ a.ev = ev /\ a.claim = dv[e][ev].claims}

\* A lease ends: of a claim whose attempt is gone, or of one that lasts
\* longer than it should.
LeaseEnds(e, ev) ==
  /\ dv[e][ev].leased
  /\ dv' = [dv EXCEPT ![e][ev].leased = FALSE]
  /\ IF InFlight(e, ev) = {} THEN UNCHANGED budget ELSE Spend("faults")
  /\ Excuse(InFlight(e, ev))
  /\ UNCHANGED <<stream, purged, suspended, ep, rep, att, wanted, raced, got>>

-----------------------------------------------------------------------------
(* Changes by tenants and operators.                                       *)

\* Where an endpoint may start in each stream: at the newest event when the
\* request read it, a while before it writes.
Starts == {start \in [Tenants -> 0..MaxEvents] : \A t \in Tenants : start[t] <= Last(t)}

\* WebhookStore::create_endpoint.
CreateEndpoint(e, types, tenants, start) ==
  /\ ep[e].state = "none"
  /\ types # {} /\ tenants # {}
  /\ ep' = [ep EXCEPT ![e] = [state |-> "made", enabled |-> TRUE, failing |-> FALSE,
       types |-> types,
       cursor |-> [t \in Tenants |-> IF t \in tenants THEN start[t] ELSE NotNamed]]]
  /\ UNCHANGED <<stream, purged, suspended, dv, rep, att, budget, history>>

\* Events that come once more to an endpoint that names their tenant again.
Again(e, p) == {ev \in Events : /\ ~Receives(ep[e], ev[1]) /\ Receives(p, ev[1])
                                /\ ev[2] \in (p.cursor[ev[1]] + 1)..Last(ev[1])}

\* update_endpoint, a field at a time.  What an endpoint does not ask for
\* any more is not wanted.
UpdateEndpoint(e, p, d) ==
  /\ Spend("changes")
  /\ ep[e].state = "made" /\ p # ep[e]
  /\ ep' = [ep EXCEPT ![e] = p]
  /\ dv' = [dv EXCEPT ![e] = d]
  /\ wanted' = [wanted EXCEPT ![e] = @ \ Unasked(e, p)]
  /\ excused' = [excused EXCEPT ![e] = @ \cup Again(e, p)]
  /\ UNCHANGED <<stream, purged, suspended, rep, att, raced, got>>

SetTypes(e, types) ==
  types # {} /\ UpdateEndpoint(e, [ep[e] EXCEPT !.types = types], dv[e])

SetEnabled(e, on) ==
  UpdateEndpoint(e, [ep[e] EXCEPT !.enabled = on, !.failing = @ /\ ~on], dv[e])

\* Deliveries of endpoint e without those still pending of the tenants in
\* "dropped".
Without(e, dropped) ==
  [ev \in Events |-> IF ev[1] \in dropped /\ dv[e][ev].status = "pending"
                       THEN [NoDelivery EXCEPT !.claims = dv[e][ev].claims] ELSE dv[e][ev]]

\* A tenant kept keeps its cursor, a new one starts at the one given.
Renamed(e, tenants, start) ==
  [ep[e] EXCEPT !.cursor = [t \in Tenants |->
     IF t \notin tenants THEN NotNamed ELSE IF Receives(ep[e], t) THEN @[t] ELSE start[t]]]

\* Mutant of SetTenants: what was pending stays.
SetTenantsOnly(e, tenants, start) ==
  tenants # {} /\ UpdateEndpoint(e, Renamed(e, tenants, start), dv[e])

\* One left out stops, its pending deliveries with it.
SetTenants(e, tenants, start) ==
  /\ tenants # {}
  /\ UpdateEndpoint(e, Renamed(e, tenants, start), Without(e, Named(e) \ tenants))

\* delete_endpoint, and its deliveries with it.
DeleteEndpoint(e) ==
  UpdateEndpoint(e, [NoEndpoint EXCEPT !.state = "deleted"],
                 [ev \in Events |-> [NoDelivery EXCEPT !.claims = dv[e][ev].claims]])

\* retry_delivery: a settled delivery is pending again.
RetryDelivery(e, ev) ==
  /\ Spend("changes")
  /\ dv[e][ev].status \in {"delivered", "failed"}
  /\ dv' = [dv EXCEPT ![e][ev] = NewDelivery(@)]
  /\ excused' = [excused EXCEPT ![e] = @ \cup {ev}]
  /\ UNCHANGED <<stream, purged, suspended, ep, rep, att, wanted, raced, got>>

\* purge_deliveries: a settled delivery goes.
PurgeDelivery(e, ev) ==
  /\ Spend("changes")
  /\ dv[e][ev].status \in {"delivered", "failed"}
  /\ dv' = [dv EXCEPT ![e][ev].status = "purged"]
  /\ UNCHANGED <<stream, purged, suspended, ep, rep, att, history>>

\* A tenant is suspended or made active again.
SetStatus(t) ==
  /\ Spend("changes")
  /\ suspended' = IF t \in suspended THEN suspended \ {t} ELSE suspended \cup {t}
  /\ UNCHANGED <<stream, purged, ep, dv, rep, att, history>>

-----------------------------------------------------------------------------
Replica(r) == \/ ActiveEndpoints(r) \/ FanOut(r) \/ Claim(r)
              \/ \E e \in Endpoints, t \in Tenants : ReadHeaders(r, e, t) \/ FanOutFails(r, e, t)

Attempts(r) ==
  \E a \in AttemptsOf(r) : Settle(a) \/ \E how \in {"ok", "fail", "gone"} : Send(a, how)

Administer(e) ==
  \/ \E types \in SUBSET Types : SetTypes(e, types)
  \/ \E types \in SUBSET Types, tenants \in SUBSET Tenants, start \in Starts :
       CreateEndpoint(e, types, tenants, start)
  \/ \E tenants \in SUBSET Tenants, start \in Starts : SetTenants(e, tenants, start)
  \/ \E on \in BOOLEAN : SetEnabled(e, on)
  \/ DeleteEndpoint(e)
  \/ \E ev \in Events : RetryDelivery(e, ev) \/ PurgeDelivery(e, ev)

Next == \/ \E t \in Tenants : \/ \E type \in Types : Insert(t, type)
                               \/ PurgeOutbox(t) \/ SetStatus(t)
        \/ \E r \in Replicas : Replica(r) \/ Attempts(r) \/ Crash(r)
        \/ \E a \in att : SettleFails(a) \/ AnswerLost(a)
        \/ \E e \in Endpoints, ev \in Events : LeaseEnds(e, ev)
        \/ \E e \in Endpoints : Administer(e)

Spec == Init /\ [][Next]_vars

-----------------------------------------------------------------------------
(* Properties.                                                             *)

Status == {"none", "pending", "delivered", "failed", "purged"}

\* What an endpoint, a delivery, a fan-out's round and an attempt are.
EndpointStates == [state : {"none", "made", "deleted"}, enabled : BOOLEAN, failing : BOOLEAN,
                   types : SUBSET Types, cursor : [Tenants -> Int]]
DeliveryStates == [status : Status, leased : BOOLEAN, held : BOOLEAN, claims : Nat,
                   tries : 0..MaxTries]
Pages == [ep : SUBSET (Endpoints \X Tenants), from : Int, to : Int, events : SUBSET Events,
          types : SUBSET Types]
Rounds == [endpoints : [Endpoints -> [types : SUBSET Types, cursor : [Tenants -> Int]]],
           todo : SUBSET (Endpoints \X Tenants), page : Pages]
AttemptStates == [rep : Replicas, ep : Endpoints, ev : Events, claim : Nat, named : BOOLEAN,
                  result : {"none", "ok", "fail", "gone"}]

\* Every variable has its type; no cursor is past the end of its stream.
TypeOK ==
  /\ stream \in [Tenants -> Seq(Types)] /\ purged \in [Tenants -> Nat]
  /\ \A t \in Tenants : purged[t] <= Last(t) /\ Last(t) <= MaxEvents
  /\ suspended \subseteq Tenants
  /\ ep \in [Endpoints -> EndpointStates]
  /\ \A e \in Endpoints, t \in Tenants : ep[e].cursor[t] \in NotNamed..Last(t)
  /\ dv \in [Endpoints -> [Events -> DeliveryStates]]
  /\ rep \in [Replicas -> Rounds]
  /\ att \subseteq AttemptStates
  /\ budget \in [events : Nat, faults : Nat, changes : Nat]
  /\ wanted \in [Endpoints -> SUBSET Events] /\ raced \in [Endpoints -> SUBSET Events]
  /\ got \in [Endpoints -> [Events -> Nat]] /\ excused \in [Endpoints -> SUBSET Events]

\* Replicas fan the same streams out side by side, each from what it read a
\* while ago, while events come in and endpoints change: an event inserted
\* while an endpoint asked for it (and asked for ever since) has its
\* delivery once the endpoint's cursor is past it, but for the events passed
\* by a page that a replica had begun with other types than the endpoint has
\* by now (fan_out compares the cursor, not the types).
MissedOnlyRaced ==
  \A e \in Endpoints : \A ev \in wanted[e] \ raced[e] :
    ev[2] <= ep[e].cursor[ev[1]] => dv[e][ev].status # "none"

\* A receiver accepts an event twice only for a cause: a lease that ran out
\* under its attempt, a replica that stopped, an attempt that could not be
\* recorded or whose answer was lost, a tenant named again, or a retry by
\* hand.
AcceptedOnce ==
  \A e \in Endpoints : \A ev \in Events \ excused[e] : got[e][ev] <= 1

\* Whatever a replica read before, no delivery waits for a tenant its
\* endpoint no longer receives, but for one retried by hand (whose attempt
\* sends nothing).
PendingIsNamed ==
  \A e \in Endpoints : \A ev \in Events \ excused[e] :
    dv[e][ev].status = "pending" => Receives(ep[e], ev[1])

\* Replicas that race with pages of different lengths never move a cursor
\* back: as long as an endpoint receives a tenant, its cursor only advances.
CursorAdvances ==
  [][\A e \in Endpoints, t \in Tenants :
       Receives(ep[e], t) /\ Receives(ep'[e], t) => ep'[e].cursor[t] >= ep[e].cursor[t]]_vars

\* A replica's attempts stay within its workers and its bound per tenant;
\* an endpoint's go over their bound only by attempts of different tenants
\* (a claim takes one delivery per tenant, not per endpoint).
InFlightBounds ==
  \A r \in Replicas :
    /\ Cardinality(AttemptsOf(r)) <= Workers
    /\ \A t \in Tenants : Cardinality({a \in AttemptsOf(r) : a.ev[1] = t}) <= PerTenant
    /\ \A e \in Endpoints :
         LET flying == {a \in AttemptsOf(r) : a.ep = e}
         IN  Cardinality(flying) < PerEndpoint + Cardinality({a.ev[1] : a \in flying})
             \/ flying = {}
=============================================================================
