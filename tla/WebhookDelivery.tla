--------------------------- MODULE WebhookDelivery --------------------------
(***************************************************************************)
(* Webhook delivery in meta-whatsapp-webhooks: Meta posts a body of events *)
(* and posts it again until it is answered 200; requests run side by side, *)
(* in several processes over one KvStore.                                  *)
(*   handler.rs  WebhookHandler::dispatch, hand_over and release;          *)
(*   dedup.rs    DedupGuard: a marker per event, claimed under a lease and *)
(*               then done.                                                *)
(*                                                                         *)
(* Each step is one call to the store, to the sink or to the dead-letter   *)
(* store.  Meta's retries stop before a done marker expires (7 days, and   *)
(* an hour more), so none does here.  A body that is not a payload is one  *)
(* keyless event (Unparsed); a body refused for its size or signature      *)
(* changes nothing, and neither does any step without a guard: then every  *)
(* event is keyless.                                                       *)
(***************************************************************************)
EXTENDS Naturals, Sequences

CONSTANTS
  Events,      \* events, by dedup key
  Keyless,     \* those without one (ErrorReported, Unparsed)
  Bodies,      \* webhook bodies: sequences of events
  Requests,    \* bound: the requests in progress at once
  NoRequest,   \* a marker whose ticket nobody holds any more
  DeadLetters, \* BOOLEAN: the handler has a dead-letter store
  MaxFaults    \* bound: failed calls, dropped requests, outlasted leases

ASSUME EventsAssumption == Keyless \subseteq Events /\ Bodies \subseteq Seq(Events)
ASSUME RequestsAssumption == NoRequest \notin Requests
ASSUME DeadLettersAssumption == DeadLetters \in BOOLEAN
ASSUME FaultsAssumption == MaxFaults \in Nat

VARIABLES
  marker,    \* marker[e]: the dedup marker, and whose ticket has its version
  req,       \* req[q]: where request q stands
  acked,     \* the bodies answered 200
  handed,    \* history: how often the sink accepted e (keyless: whether)
  lettered,  \* history: the events with a dead letter
  excuse,    \* history: how often a delivery of e could not be recorded, or
             \* went out after its claim had expired
  faults     \* the failures still to come

vars == <<marker, req, acked, handed, lettered, excuse, faults>>

Absent == [state |-> "absent", by |-> NoRequest]
PendingBy(q) == [state |-> "pending", by |-> q]
Orphan == PendingBy(NoRequest)
Done == [state |-> "done", by |-> NoRequest]
Marker == {Absent, Orphan, Done} \cup {PendingBy(q) : q \in Requests}

Steps == {"claim", "look", "sink", "letter", "mark", "take", "release"}
\* "late" is history: the lease ran out on the claim of the event in hand.
Idle == [pc |-> "idle", body |-> <<>>, at |-> 1, round |-> 1, late |-> FALSE]

Init ==
  /\ marker = [e \in Events |-> Absent]
  /\ req = [q \in Requests |-> Idle]
  /\ acked = {}
  /\ handed = [e \in Events |-> 0]
  /\ lettered = {}
  /\ excuse = [e \in Events |-> 0]
  /\ faults = MaxFaults

At(q, pc) == req[q].pc = pc /\ req[q].at <= Len(req[q].body)
Event(q) == req[q].body[req[q].at]
Owns(q) == marker[Event(q)] = PendingBy(q)

Goto(q, pc) == req' = [req EXCEPT ![q].pc = pc]
NextEvent(q) == req' = [req EXCEPT ![q].pc = "claim", ![q].at = @ + 1,
                                   ![q].round = 1, ![q].late = FALSE]
Return(q) == req' = [req EXCEPT ![q] = Idle]

SetMarker(q, m) == marker' = [marker EXCEPT ![Event(q)] = m]
\* The request goes on without its ticket: the marker is left to its lease.
LeaveMarker(q) == marker' = IF Owns(q) THEN [marker EXCEPT ![Event(q)] = Orphan]
                                       ELSE marker
Excuse(q) == excuse' = [excuse EXCEPT ![Event(q)] = @ + 1]
Fault == faults > 0 /\ faults' = faults - 1

-----------------------------------------------------------------------------
(* Meta, and time.                                                         *)

\* Meta posts a body: for the first time, again, or to another replica.
Post(q, b) ==
  /\ req[q].pc = "idle"
  /\ req' = [req EXCEPT ![q] = [Idle EXCEPT !.pc = "claim", !.body = b]]
  /\ UNCHANGED <<marker, acked, handed, lettered, excuse, faults>>

\* Mutant of Expire: a pending marker without a lease.
NeverExpire(e) == FALSE /\ marker[e] = Orphan /\ UNCHANGED vars

\* The lease of a claim nobody works on any more runs out ...
Expire(e) ==
  /\ marker[e] = Orphan
  /\ marker' = [marker EXCEPT ![e] = Absent]
  /\ UNCHANGED <<req, acked, handed, lettered, excuse, faults>>

\* ... or one whose request outlasts it.
Outlast(q) ==
  /\ req[q].pc # "idle" /\ req[q].at <= Len(req[q].body)
  /\ Owns(q)
  /\ Fault
  /\ SetMarker(q, Absent)
  /\ req' = [req EXCEPT ![q].late = TRUE]
  /\ IF req[q].pc = "mark" THEN Excuse(q) ELSE UNCHANGED excuse
  /\ UNCHANGED <<acked, handed, lettered>>

-----------------------------------------------------------------------------
(* DedupGuard::claim, for the next event of the body.                      *)

\* Mutant of Claim: a plain put, which takes over a claim in progress.
ClaimByPut(q) ==
  /\ At(q, "claim")
  /\ IF Event(q) \in Keyless \/ marker[Event(q)] = Done
       THEN Goto(q, IF Event(q) \in Keyless THEN "sink" ELSE "look")
              /\ UNCHANGED marker
       ELSE SetMarker(q, PendingBy(q)) /\ Goto(q, "sink")
  /\ UNCHANGED <<acked, handed, lettered, excuse, faults>>

\* put_if_absent of a pending marker.
Claim(q) ==
  /\ At(q, "claim")
  /\ \/ /\ Event(q) \in Keyless
        /\ Goto(q, "sink")
        /\ UNCHANGED marker
     \/ /\ Event(q) \notin Keyless
        /\ marker[Event(q)] = Absent
        /\ SetMarker(q, PendingBy(q))
        /\ Goto(q, "sink")
     \/ /\ Event(q) \notin Keyless
        /\ marker[Event(q)] # Absent
        /\ Goto(q, "look")
        /\ UNCHANGED marker
  /\ UNCHANGED <<acked, handed, lettered, excuse, faults>>

\* Mutant of Look: a claim in progress is taken for a duplicate.
LookSkipsPending(q) ==
  /\ At(q, "look")
  /\ IF marker[Event(q)] # Absent THEN NextEvent(q)
     ELSE IF req[q].round = 1
            THEN req' = [req EXCEPT ![q].pc = "claim", ![q].round = 2]
            ELSE Return(q)
  /\ UNCHANGED <<marker, acked, handed, lettered, excuse, faults>>

\* Mutant of Look: rounds without end.
LookWithoutEnd(q) ==
  /\ At(q, "look")
  /\ CASE marker[Event(q)] = Done -> NextEvent(q)
       [] marker[Event(q)].state = "pending" -> Return(q)
       [] OTHER -> req' = [req EXCEPT ![q].pc = "claim", ![q].round = @ + 1]
  /\ UNCHANGED <<marker, acked, handed, lettered, excuse, faults>>

\* get, to ask what the marker was: done, a duplicate to skip; pending, a
\* claim in flight (503); gone meanwhile, one more round, then 503.
Look(q) ==
  /\ At(q, "look")
  /\ \/ /\ marker[Event(q)] = Done
        /\ NextEvent(q)
     \/ /\ marker[Event(q)].state = "pending"
        /\ Return(q)
     \/ /\ marker[Event(q)] = Absent
        /\ IF req[q].round = 1
             THEN req' = [req EXCEPT ![q].pc = "claim", ![q].round = 2]
             ELSE Return(q)
  /\ UNCHANGED <<marker, acked, handed, lettered, excuse, faults>>

\* The store fails (500); a put may have been written all the same.
ClaimFails(q) ==
  /\ At(q, "claim") \/ At(q, "look")
  /\ Event(q) \notin Keyless
  /\ Fault
  /\ \/ UNCHANGED marker
     \/ At(q, "claim") /\ marker[Event(q)] = Absent /\ SetMarker(q, Orphan)
  /\ Return(q)
  /\ UNCHANGED <<acked, handed, lettered, excuse>>

-----------------------------------------------------------------------------
(* WebhookHandler::hand_over                                               *)

\* The event is handed over; only a keyed one has a claim to complete.
HandedOver(q) == IF Event(q) \in Keyless THEN NextEvent(q) ELSE Goto(q, "mark")
\* It is not: the claim is released, then the request fails (500).
NotHandedOver(q) == IF Event(q) \in Keyless THEN Return(q) ELSE Goto(q, "release")

SinkAccepts(q) ==
  LET e == Event(q)
  IN  /\ At(q, "sink")
      /\ handed' = [handed EXCEPT ![e] = IF e \in Keyless THEN 1 ELSE @ + 1]
      /\ IF req[q].late THEN Excuse(q) ELSE UNCHANGED excuse
      /\ HandedOver(q)
      /\ UNCHANGED <<marker, acked, lettered, faults>>

\* SinkError::Permanent, with a dead-letter store.
SinkRefuses(q) ==
  /\ At(q, "sink")
  /\ DeadLetters
  /\ Goto(q, "letter")
  /\ UNCHANGED <<marker, acked, handed, lettered, excuse, faults>>

\* Any other error, or a permanent one without a store for it.
SinkFails(q) ==
  /\ At(q, "sink")
  /\ Fault
  /\ NotHandedOver(q)
  /\ UNCHANGED <<marker, acked, handed, lettered, excuse>>

\* DeadLetters::record
Letter(q) ==
  /\ At(q, "letter")
  /\ lettered' = lettered \cup {Event(q)}
  /\ HandedOver(q)
  /\ UNCHANGED <<marker, acked, handed, excuse, faults>>

LetterFails(q) ==
  /\ At(q, "letter")
  /\ Fault
  /\ lettered' \in {lettered, lettered \cup {Event(q)}}
  /\ NotHandedOver(q)
  /\ UNCHANGED <<marker, acked, handed, excuse>>

-----------------------------------------------------------------------------
(* DedupGuard::complete and release                                        *)

\* The compare-and-swap to done from this ticket's version.
Mark(q) ==
  /\ At(q, "mark")
  /\ \/ Owns(q) /\ SetMarker(q, Done) /\ NextEvent(q)
     \/ ~Owns(q) /\ Goto(q, "take") /\ UNCHANGED marker
  /\ UNCHANGED <<acked, handed, lettered, excuse, faults>>

\* The lease had expired: done all the same if nobody claimed it since.
Take(q) ==
  /\ At(q, "take")
  /\ \/ marker[Event(q)] = Absent /\ SetMarker(q, Done)
     \/ marker[Event(q)] # Absent /\ UNCHANGED marker
  /\ NextEvent(q)
  /\ UNCHANGED <<acked, handed, lettered, excuse, faults>>

\* Either call fails, before or after its write: logged, and the next event.
CompleteFails(q) ==
  /\ At(q, "mark") \/ At(q, "take")
  /\ Fault
  /\ \/ /\ IF At(q, "mark") THEN Owns(q) ELSE marker[Event(q)] = Absent
        /\ SetMarker(q, Done)
        /\ UNCHANGED excuse
     \/ /\ LeaveMarker(q)
        /\ IF Owns(q) THEN Excuse(q) ELSE UNCHANGED excuse
  /\ NextEvent(q)
  /\ UNCHANGED <<acked, handed, lettered>>

\* Mutant of Release: a plain delete, whoever claimed the event since.
ReleaseByDelete(q) ==
  /\ At(q, "release")
  /\ SetMarker(q, Absent)
  /\ Return(q)
  /\ UNCHANGED <<acked, handed, lettered, excuse, faults>>

\* The compare-and-swap that removes this ticket's marker; 500.
Release(q) ==
  /\ At(q, "release")
  /\ IF Owns(q) THEN SetMarker(q, Absent) ELSE UNCHANGED marker
  /\ Return(q)
  /\ UNCHANGED <<acked, handed, lettered, excuse, faults>>

ReleaseFails(q) ==
  /\ At(q, "release")
  /\ Fault
  /\ LeaveMarker(q)
  /\ Return(q)
  /\ UNCHANGED <<acked, handed, lettered, excuse>>

\* Every event of the body is done with: 200.
Acknowledge(q) ==
  /\ req[q].pc = "claim"
  /\ req[q].at > Len(req[q].body)
  /\ acked' = acked \cup {req[q].body}
  /\ Return(q)
  /\ UNCHANGED <<marker, handed, lettered, excuse, faults>>

\* The request's future is dropped, or its process stops, or its answer is
\* lost: no code runs to release its claim.
Drop(q) ==
  /\ req[q].pc # "idle"
  /\ Fault
  /\ IF req[q].at <= Len(req[q].body)
       THEN /\ LeaveMarker(q)
            /\ IF req[q].pc = "mark" /\ Owns(q) THEN Excuse(q)
                                                ELSE UNCHANGED excuse
       ELSE UNCHANGED <<marker, excuse>>
  /\ Return(q)
  /\ UNCHANGED <<acked, handed, lettered>>

-----------------------------------------------------------------------------
Dispatch(q) == \/ Claim(q) \/ Look(q)
               \/ SinkAccepts(q) \/ SinkRefuses(q) \/ Letter(q)
               \/ Mark(q) \/ Take(q) \/ Release(q) \/ Acknowledge(q)

Failure(q) == \/ ClaimFails(q) \/ SinkFails(q) \/ LetterFails(q)
              \/ CompleteFails(q) \/ ReleaseFails(q) \/ Drop(q) \/ Outlast(q)

Next == \/ \E q \in Requests, b \in Bodies : Post(q, b)
        \/ \E q \in Requests : Dispatch(q) \/ Failure(q)
        \/ \E e \in Events : Expire(e)

Spec == Init /\ [][Next]_vars

\* A request's calls return, a lease runs out, and Meta posts a body again
\* until it is answered 200, however busy the replicas are.
Fairness ==
  /\ \A q \in Requests : WF_vars(Dispatch(q))
  /\ \A e \in Events : WF_vars(Expire(e))
  /\ \A b \in Bodies : SF_vars(b \notin acked /\ \E q \in Requests : Post(q, b))

FairSpec == Spec /\ Fairness

-----------------------------------------------------------------------------
(* Properties.                                                             *)

RequestStates ==
  [pc : Steps \cup {"idle"}, body : Bodies \cup {<<>>}, at : Nat \ {0},
   round : {1, 2}, late : BOOLEAN]

\* Every variable has its type, and no request is further than past its body.
TypeOK ==
  /\ marker \in [Events -> Marker]
  /\ req \in [Requests -> RequestStates]
  /\ \A q \in Requests : req[q].at <= Len(req[q].body) + 1
  /\ acked \in SUBSET (Bodies \cup {<<>>})
  /\ handed \in [Events -> Nat]
  /\ lettered \in SUBSET Events
  /\ excuse \in [Events -> Nat]
  /\ faults \in 0..MaxFaults

Got(e) == handed[e] > 0 \/ e \in lettered

\* No event is swallowed: once a body is answered 200, and Meta will not
\* post it again, the sink or the dead-letter store has every event of it,
\* whichever request got which event across and whatever failed between.
AckedIsHandedOver ==
  \A b \in acked : \A i \in 1..Len(b) : Got(b[i])

\* An event is delivered twice only if a delivery outlasted its lease or was
\* not marked done ("Semantics: at-least-once, deduplicated", dedup.rs): the
\* sink accepts it at most once more than that happened.
DuplicatesExcused ==
  \A e \in Events \ Keyless : handed[e] <= 1 + excuse[e]

\* A claim is its request's alone ("a request whose lease expired can never
\* overwrite or delete somebody else's claim", dedup.rs): another request's
\* complete or release leaves it as it is; only its own calls and its lease
\* change it.
ClaimIsOwn ==
  [][ \A e \in Events, q \in Requests :
        marker[e] = PendingBy(q) /\ marker'[e] # marker[e] => req'[q] # req[q]
    ]_vars

\* A claim never outlives its purpose for good: with finitely many failures
\* every body Meta posts is answered 200 in the end, no event left behind a
\* claim that nobody completes and no two requests turning each other away.
EveryBodyAcked == \A b \in Bodies : <>(b \in acked)
=============================================================================
