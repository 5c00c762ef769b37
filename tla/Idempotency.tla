---------------------------- MODULE Idempotency -----------------------------
(***************************************************************************)
(* Idempotency keys of the server (meta-whatsapp-server-core's             *)
(* idempotency.rs over the IdempotencyRecords port): a request claims its  *)
(* key, runs the operation, and settles the key by what the answer proves; *)
(* a repeat is answered from the record.                                   *)
(*                                                                         *)
(* A call that settles a key is made, takes effect, and is heard of in     *)
(* three steps.  A request can be cut in between (its deadline, or the     *)
(* client leaving) and a process can stop, while the call it made goes on: *)
(* it may take effect later, or never.  The message to Meta likewise: once *)
(* on its way Meta may act on it after the request that sent it is gone.   *)
(* Before its claim takes effect a request has changed nothing, so a claim *)
(* is one step, heard of or not: a request that is gone before it hears of *)
(* its claim has no Claim, and nothing settles its key.  Times are what is *)
(* left of them.                                                           *)
(***************************************************************************)
EXTENDS Integers, FiniteSets

CONSTANTS
  Requests,  \* requests that carry a key (bound: each is made once); a
             \* request's claim id is random, here the request itself
  Keys,      \* idempotency keys, their tenant's scope included
  Inputs,    \* fingerprints: an operation and its canonical input
  KeyOf,     \* KeyOf[q]: the key request q carries
  InputOf,   \* InputOf[q]: its fingerprint
  Nobody,    \* no claim
  Lease,     \* ticks a claim's lease lasts (twice the Graph timeout)
  Ttl,       \* ticks until a record expires (WA_SERVER_IDEMPOTENCY_TTL)
  MaxFailed, \* bound: the requests whose process stopped, or whose call
             \* to settle the key failed
  MaxExpired \* bound: the records that expire

ASSUME RequestsAssumption == Nobody \notin Requests
ASSUME KeysAssumption == KeyOf \in [Requests -> Keys] /\ InputOf \in [Requests -> Inputs]
ASSUME TimesAssumption == Lease \in Nat /\ Ttl \in Nat \ {0} /\ Lease <= Ttl
ASSUME BoundsAssumption == MaxFailed \in Nat /\ MaxExpired \in Nat

VARIABLES
  rec,     \* rec[k]: the record of key k
  req,     \* req[q]: where request q stands and what it was answered
  wire,    \* wire[q]: the message its operation sends to Meta
  calls,   \* calls to the store that may still take effect
  over,    \* history: the requests whose record reached its expiry
  failed   \* history: the requests whose process stopped while their
           \* Claim was armed, or whose call to settle the key failed

vars == <<rec, req, wire, calls, over, failed>>

Pending == "pending"   \* in_progress: no answer kept
\* What an operation may answer: a success, a failure that may have been
\* sent, one that proves nothing was, and the 504 of a request that was cut.
Answers == {"ok", "maybe", "unsent", "timeout"}
Kept == Answers \ {"unsent"}

NoRecord == [by |-> Nobody, kept |-> Pending, lease |-> 0, ttl |-> 0]
Record == [by : Requests \cup {Nobody}, kept : Kept \cup {Pending},
           lease : 0..Lease, ttl : 0..Ttl]

\* What a repeat is answered besides a kept answer, and nothing yet.
Refusals == {"reused", "in_progress", "outcome_unknown"}
Request == [pc : {"idle", "running", "settling", "done", "gone", "unheard"},
            answer : Answers \cup Refusals \cup {Pending}, \* what it answers
            from : Requests \cup {Nobody}]                 \* whose answer that is

\* Claim::settle: the call by which a request that answers "answer" releases
\* its key ("unsent") or completes it (the rest).
Call == [by : Requests, answer : Answers]
SettleCall(q, a) == [by |-> q, answer |-> a]
Over == [pc |-> "gone", answer |-> Pending, from |-> Nobody]
Unheard == [Over EXCEPT !.pc = "unheard"]

Init == /\ rec = [k \in Keys |-> NoRecord]
        /\ req = [q \in Requests |-> [pc |-> "idle", answer |-> Pending, from |-> Nobody]]
        /\ wire = [q \in Requests |-> "none"]
        /\ calls = {} /\ over = {} /\ failed = {}

-----------------------------------------------------------------------------
(* The store.                                                              *)

Live(k) == rec[k].by # Nobody /\ rec[k].ttl > 0
HeldBy(q) == rec[KeyOf[q]].by = q

\* A record as its holder's claim id finds it: the expiry is not looked at.
Settle(c, r) == rec' = IF HeldBy(c.by) THEN [rec EXCEPT ![KeyOf[c.by]] = r] ELSE rec

\* Repeat::of: what request q meeting the live record r is answered.
Repeat(q, r) ==
  CASE InputOf[q] # InputOf[r.by] -> "reused"
    [] InputOf[q] = InputOf[r.by] /\ r.kept # Pending -> r.kept
    [] OTHER -> IF r.lease > 0 THEN "in_progress" ELSE "outcome_unknown"

\* Request q's process stops, or its call to settle the key fails.
Fails(q) == /\ failed' = failed \cup {q}
            /\ Cardinality(failed') <= MaxFailed

NewRecord(q) == [by |-> q, kept |-> Pending, lease |-> Lease, ttl |-> Ttl]

\* Mutant of ClaimFree: a claim whose lease is over is taken over.
ClaimTakesOver(q) ==
  LET k == KeyOf[q]
  IN  /\ req[q].pc = "idle"
      /\ ~Live(k) \/ (rec[k].kept = Pending /\ rec[k].lease = 0)
      /\ rec' = [rec EXCEPT ![k] = NewRecord(q)]
      /\ req' = [req EXCEPT ![q].pc = "running"]
      /\ UNCHANGED <<wire, calls, over, failed>>

\* claim_idempotency_key: no live record, one is written, and the request
\* has its Claim, armed.
ClaimFree(q) ==
  LET k == KeyOf[q]
  IN  /\ req[q].pc = "idle"
      /\ ~Live(k)
      /\ rec' = [rec EXCEPT ![k] = NewRecord(q)]
      /\ req' = [req EXCEPT ![q].pc = "running"]
      /\ UNCHANGED <<wire, calls, over, failed>>

\* The same, but the request is gone before it hears of it: while it waited
\* for the store it was cut (its deadline, the client leaving), its process
\* stopped or its connection failed.  No Claim exists, so no Drop of one.
ClaimUnheard(q) ==
  LET k == KeyOf[q]
  IN  /\ req[q].pc = "idle"
      /\ ~Live(k)
      /\ rec' = [rec EXCEPT ![k] = NewRecord(q)]
      /\ req' = [req EXCEPT ![q] = Unheard]
      /\ UNCHANGED <<wire, calls, over, failed>>

\* A live record is found: the answer is its repeat's, the operation does
\* not run.
ClaimExisting(q) ==
  LET r == rec[KeyOf[q]]
  IN  /\ req[q].pc = "idle"
      /\ Live(KeyOf[q])
      /\ req' = [req EXCEPT ![q] = [pc |-> "done", answer |-> Repeat(q, r), from |-> r.by]]
      /\ UNCHANGED <<rec, wire, calls, over, failed>>

\* Mutant of Complete: the claim id is not compared.
CompleteAnyKey(c) ==
  /\ c \in calls /\ c.answer # "unsent"
  /\ calls' = calls \ {c}
  /\ rec' = [rec EXCEPT ![KeyOf[c.by]].kept = c.answer]
  /\ UNCHANGED <<req, wire, over, failed>>

\* complete_idempotency_key: of the claim's record, completed or not.
Complete(c) ==
  /\ c \in calls /\ c.answer # "unsent"
  /\ calls' = calls \ {c}
  /\ Settle(c, [rec[KeyOf[c.by]] EXCEPT !.kept = c.answer])
  /\ UNCHANGED <<req, wire, over, failed>>

\* Mutant of ReleaseKey: whoever holds the key loses it.
ReleaseAnyKey(c) ==
  /\ c \in calls /\ c.answer = "unsent"
  /\ calls' = calls \ {c}
  /\ rec' = [rec EXCEPT ![KeyOf[c.by]] = NoRecord]
  /\ UNCHANGED <<req, wire, over, failed>>

\* release_idempotency_key.
ReleaseKey(c) ==
  /\ c \in calls /\ c.answer = "unsent"
  /\ calls' = calls \ {c}
  /\ Settle(c, NoRecord)
  /\ UNCHANGED <<req, wire, over, failed>>

\* A call fails, or its connection is lost before it takes effect.
CallFails(c) ==
  /\ c \in calls
  /\ calls' = calls \ {c}
  /\ Fails(c.by)
  /\ UNCHANGED <<rec, req, wire, over>>

\* purge_idempotency_keys.
Purge ==
  /\ \E k \in Keys : rec[k].by # Nobody /\ ~Live(k)
  /\ rec' = [k \in Keys |-> IF Live(k) THEN rec[k] ELSE NoRecord]
  /\ UNCHANGED <<req, wire, calls, over, failed>>

\* Mutant of Tick: a lease that is over goes on.
TickOn ==
  /\ \E k \in Keys : rec[k].ttl > 0
  /\ rec' = [k \in Keys |-> [rec[k] EXCEPT !.lease = @ - 1,
                                           !.ttl = IF @ > 0 THEN @ - 1 ELSE 0]]
  /\ over' = over \cup {q \in Requests : HeldBy(q) /\ rec[KeyOf[q]].ttl = 1}
  /\ Cardinality(over') <= MaxExpired
  /\ UNCHANGED <<req, wire, calls, failed>>

\* Time passes for every record.
Tick ==
  /\ \E k \in Keys : rec[k].ttl > 0
  /\ rec' = [k \in Keys |-> [rec[k] EXCEPT !.lease = IF @ > 0 THEN @ - 1 ELSE 0,
                                           !.ttl = IF @ > 0 THEN @ - 1 ELSE 0]]
  /\ over' = over \cup {q \in Requests : HeldBy(q) /\ rec[KeyOf[q]].ttl = 1}
  /\ Cardinality(over') <= MaxExpired
  /\ UNCHANGED <<req, wire, calls, failed>>

-----------------------------------------------------------------------------
(* A request (run_scoped).                                                 *)

\* The operation's request to Meta.
SendMessage(q) ==
  /\ req[q].pc = "running"
  /\ wire[q] = "none"
  /\ wire' = [wire EXCEPT ![q] = "flying"]
  /\ UNCHANGED <<rec, req, calls, over, failed>>

\* Meta acts on it or refuses it, whatever became of the request.
MetaActs(q, how) ==
  /\ wire[q] = "flying"
  /\ wire' = [wire EXCEPT ![q] = how]
  /\ UNCHANGED <<rec, req, calls, over, failed>>

\* ServiceError::may_have_been_sent: what an answer proves of the message.
Proves(a, w) == CASE a = "ok" -> w = "sent"
                  [] a = "maybe" -> w # "none"
                  [] a = "unsent" -> w \in {"none", "refused"}
                  [] OTHER -> FALSE

\* Mutant of OperationEnds: a message that got no answer counts as unsent.
OperationEndsUnsent(q, a) ==
  /\ req[q].pc = "running"
  /\ IF a = "unsent" THEN wire[q] # "sent" ELSE Proves(a, wire[q])
  /\ req' = [req EXCEPT ![q] = [pc |-> "settling", answer |-> a, from |-> q]]
  /\ calls' = calls \cup {SettleCall(q, a)}
  /\ UNCHANGED <<rec, wire, over, failed>>

\* The operation answers a, and Claim::settle makes its call.
OperationEnds(q, a) ==
  /\ req[q].pc = "running"
  /\ Proves(a, wire[q])
  /\ req' = [req EXCEPT ![q] = [pc |-> "settling", answer |-> a, from |-> q]]
  /\ calls' = calls \cup {SettleCall(q, a)}
  /\ UNCHANGED <<rec, wire, over, failed>>

\* The settle call took effect or failed (note): the request is answered.
Settled(q) ==
  /\ req[q].pc = "settling"
  /\ SettleCall(q, req[q].answer) \notin calls
  /\ req' = [req EXCEPT ![q].pc = "done"]
  /\ UNCHANGED <<rec, wire, calls, over, failed>>

\* Mutant of Cut: a request cut while it settles is taken for settled.
CutForgets(q) ==
  /\ req[q].pc \in {"running", "settling"}
  /\ req' = [req EXCEPT ![q] = Over]
  /\ calls' = calls
  /\ UNCHANGED <<rec, wire, over, failed>>

\* The request is cut while its Claim is armed, its settle call included:
\* Drop keeps a timeout that may have been sent, from a task of its own.
Cut(q) ==
  /\ req[q].pc \in {"running", "settling"}
  /\ req' = [req EXCEPT ![q] = Over]
  /\ calls' = calls \cup {SettleCall(q, "timeout")}
  /\ UNCHANGED <<rec, wire, over, failed>>

\* The process stops: nothing drops its Claim.
Crash(q) ==
  /\ req[q].pc \in {"running", "settling"}
  /\ req' = [req EXCEPT ![q] = Over]
  /\ Fails(q)
  /\ UNCHANGED <<rec, wire, calls, over>>

-----------------------------------------------------------------------------
Claim(q) == ClaimFree(q) \/ ClaimUnheard(q) \/ ClaimExisting(q)

StoreActs(q) == \E c \in calls : c.by = q /\ (Complete(c) \/ ReleaseKey(c))

Runs(q) == \/ SendMessage(q) \/ Settled(q)
           \/ \E a \in Answers : OperationEnds(q, a)

Next == \/ Tick \/ Purge
        \/ \E q \in Requests : \/ Claim(q) \/ StoreActs(q) \/ Runs(q)
                               \/ \E how \in {"sent", "refused"} : MetaActs(q, how)
                               \/ Cut(q) \/ Crash(q)
        \/ \E c \in calls : CallFails(c)

Spec == Init /\ [][Next]_vars

-----------------------------------------------------------------------------
(* Properties.                                                             *)

\* Every variable has its type.
TypeOK == /\ rec \in [Keys -> Record]
          /\ req \in [Requests -> Request]
          /\ wire \in [Requests -> {"none", "flying", "sent", "refused"}]
          /\ calls \subseteq Call
          /\ over \subseteq Requests /\ failed \subseteq Requests

\* Whatever is cut, lost, late or dead, Meta acts at most once on requests
\* that carry one key, until the record of the one it acted on expires: a
\* repeat is never a second message (the module's promise, "never a new
\* send").
AtMostOneSend ==
  \A p, q \in Requests :
    p # q /\ KeyOf[p] = KeyOf[q] /\ wire[p] = "sent" /\ wire[q] = "sent"
      => p \in over \/ q \in over

\* An answer given, by the request that ran or as a repeat's, is true of
\* what Meta did: a success was sent by the request it comes from, of the
\* same input, and what was reported unsent never arrives late.
AnswersTrue ==
  \A q \in Requests : req[q].pc = "done" /\ req[q].from # Nobody =>
    LET p == req[q].from
    IN  /\ req[q].answer = "ok" => wire[p] = "sent"
        /\ req[q].answer = "unsent" => p = q /\ wire[q] \notin {"sent", "flying"}
        /\ p # q /\ req[q].answer \in Answers => InputOf[p] = InputOf[q]
        /\ req[q].answer = "reused" => InputOf[p] # InputOf[q]

\* The answer kept for a key is one request's, and it changes under the
\* repeats that read it in one case only: the request was cut while it
\* settled, and its answer and the cut's timeout took effect one after the
\* other (complete_idempotency_key compares the claim, not the state).
KeptChangesByCut ==
  [][\A k \in Keys :
       rec'[k].by = rec[k].by /\ Pending \notin {rec[k].kept, rec'[k].kept}
         => rec'[k].kept = rec[k].kept \/ "timeout" \in {rec[k].kept, rec'[k].kept}]_vars

\* A key is left in_progress, its caller to wait out the lease, in two cases
\* only: its request's process stopped or its call to settle the key failed
\* ("failed"); or its request was gone before it heard that it had claimed
\* the key ("unheard"), a plain cut included, which the promise that a
\* request cut before it settled settles as a 504 does not except.  Else,
\* while no answer is kept, the request is at work, or a call that settles
\* the key is under way (its own, or the one of a Claim dropped by a cut).
SettlingUnderWay ==
  \A q \in Requests : HeldBy(q) /\ rec[KeyOf[q]].kept = Pending =>
    \/ q \in failed \/ req[q].pc \in {"running", "unheard"}
    \/ \E a \in Answers : SettleCall(q, a) \in calls

\* The detailed protocol implements OncePerKey: its records are the holders
\* and the kept answers.
Once == INSTANCE OncePerKey WITH
          holder <- [k \in Keys |-> rec[k].by],
          kept <- [k \in Keys |-> rec[k].kept],
          sent <- {q \in Requests : wire[q] = "sent"},
          Answers <- Kept
OncePerKeySpec == Once!Spec
=============================================================================
