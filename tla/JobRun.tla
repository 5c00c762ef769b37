------------------------------- MODULE JobRun -------------------------------
(***************************************************************************)
(* One durable broadcast job of meta-whatsapp-bot, the runners that share  *)
(* it and the calls of the application, over a KvStore:                    *)
(*   jobs/store.rs   KvJobs: the job's record, its lease, its markers;     *)
(*   jobs/runner.rs  JobRunner::execute and the Durable outbound.          *)
(*                                                                         *)
(* A store call that reads a record and compare-and-swaps it in a loop is  *)
(* one step here, the step at which its swap succeeds (or, when it writes  *)
(* nothing, at which it reads).  KvJobs::claim_one is two steps: it does   *)
(* not loop, and a record written between its read and its swap makes it   *)
(* give the job up.  The versions a swap compares are represented by the   *)
(* set "fresh" of the runners whose read of the record is still current.   *)
(*                                                                         *)
(* Time is kept as what is left of each deadline, which "Tick" counts      *)
(* down: a lease has expired, and a job is due, when 0 is left.            *)
(* How a due job is found is the subject of DueIndex.                      *)
(***************************************************************************)
EXTENDS Naturals

CONSTANTS
  Runners,       \* runner ids: every JobRunner has its own
  NoRunner,      \* a marker's "runner" once its outcome is recorded
  N,             \* the job's recipients are 1..N
  Uncomposable,  \* the recipients the application's composer refuses
  Lease,         \* JobRunnerBuilder::lease
  Delay,         \* how far ahead a job is scheduled or retried, at most
  MaxRetries,    \* JobRunnerBuilder::retries
  MaxRun,        \* bound: runs of the job (1 + re-runs)
  MaxClaims      \* bound: claims of the job over its life

Rcpt == 1..N
Run == 1..MaxRun

ASSUME RunnersAssumption == NoRunner \notin Runners
ASSUME NumbersAssumption ==
  /\ N \in Nat \ {0} /\ Lease \in Nat \ {0} /\ MaxRun \in Nat \ {0}
  /\ Delay \in Nat /\ MaxRetries \in Nat /\ MaxClaims \in Nat
ASSUME UncomposableAssumption == Uncomposable \subseteq Rcpt

VARIABLES
  job,        \* the job's record (JobRecord); "taken" is history: whether a
              \* claim of this run was taken over
  fresh,      \* the claiming runners whose read of the record is current
  marker,     \* marker[run][p]: recipient p's marker in that run
  limited,    \* recipients with a live 131049 marker
  pc,         \* pc[r]: where runner r's pass over the job stands
  claim,      \* claim[r]: the job as r claimed it (JobClaim)
  until,      \* until[r]: what is left of the lease, by r's own account
  at,         \* at[r]: the recipient whose marker r reads next
  found,      \* found[r][p]: what the pass knows of p
  halt,       \* halt[r]: why the pass stops (Durable::halt)
  task,       \* task[r][p]: where r's Durable::send to p stands
  delivered   \* history: requests to p in that run that Meta acted on

pass == <<claim, until, at, found, halt>>
vars == <<job, fresh, marker, limited, pc, pass, task, delivered>>

-----------------------------------------------------------------------------
(* Records.                                                                *)

Settled == {"done", "stopped", "cancelled"}
JobState == {"absent", "pending", "claimed"} \cup Settled

\* RecipientMark, and after the send phase Outcome: "unmarked" with no
\* outcome recorded is a recipient the summary counts as unsent.
Found == {"unread", "unmarked", "sent", "failed", "unknown", "limited"}
NoSummary == [p \in Rcpt |-> "unread"]

LeaseOf(r, number, left) == [runner |-> r, claim |-> number, left |-> left]
NoLease == LeaseOf(NoRunner, 0, 0)

Marker == [state : {"none", "sending", "sent", "failed", "unknown"},
           by : Runners \cup {NoRunner}]
Mark(state) == [state |-> state, by |-> NoRunner]
Unmarked == Mark("none")
SendingBy(r) == [state |-> "sending", by |-> r]

NoClaim == [run |-> 1, number |-> 0, retries |-> 0]

\* Mutant of Withdrawing: a send without an answer is taken for a refusal.
WithdrawingUnknown == {"cancelled", "lost", "unread", "throttled", "unknown"}

\* A send past mark_sending whose marker is still to be removed: the verdict
\* of check_run, its failure, or a refusal that may be sent again.
Withdrawing == {"cancelled", "lost", "unread", "throttled"}
\* A send that was answered, its outcome still to be recorded.
Answered == {"accepted", "refused", "limited", "unknown"}
Task == {"idle", "queued", "mark", "verify", "request"}
          \cup Withdrawing \cup Answered

\* JobRecord::held_by
HeldBy(r) == /\ job.state = "claimed"
             /\ job.lease.runner = r /\ job.lease.claim = claim[r].number

\* Mutant of HaltOf: a claim another runner took over still counts.
HaltOfCancelled(r) == IF job.state = "cancelled" THEN "cancelled" ELSE "none"

\* Why a runner no longer holds the job: KvJobs::hold, settle and retry.
HaltOf(r) == CASE job.state = "cancelled" -> "cancelled"
               [] job.state # "cancelled" /\ ~HeldBy(r) -> "lost"
               [] OTHER -> "none"

\* A pass is over: what it knew goes with it.
Drop(r) ==
  /\ pc' = [pc EXCEPT ![r] = "idle"]
  /\ claim' = [claim EXCEPT ![r] = NoClaim]
  /\ until' = [until EXCEPT ![r] = 0]
  /\ at' = [at EXCEPT ![r] = 1]
  /\ found' = [found EXCEPT ![r] = NoSummary]
  /\ halt' = [halt EXCEPT ![r] = "none"]
  /\ task' = [task EXCEPT ![r] = [p \in Rcpt |-> "idle"]]

\* The record is written: every version read before is out of date.
WriteJob(record) == job' = record /\ fresh' = {}

Init ==
  /\ job = [state |-> "absent", run |-> 1, retries |-> 0, claims |-> 0,
            due |-> 0, lease |-> NoLease, summary |-> NoSummary,
            taken |-> FALSE]
  /\ fresh = {}
  /\ marker = [n \in Run |-> [p \in Rcpt |-> Unmarked]]
  /\ limited = {}
  /\ pc = [r \in Runners |-> "idle"]
  /\ claim = [r \in Runners |-> NoClaim]
  /\ until = [r \in Runners |-> 0]
  /\ at = [r \in Runners |-> 1]
  /\ found = [r \in Runners |-> NoSummary]
  /\ halt = [r \in Runners |-> "none"]
  /\ task = [r \in Runners |-> [p \in Rcpt |-> "idle"]]
  /\ delivered = [n \in Run |-> [p \in Rcpt |-> 0]]

-----------------------------------------------------------------------------
(* The application's side, and time.                                       *)

\* KvJobs::schedule: put_if_absent; scheduled again, the job stays as it is.
Schedule(d) ==
  /\ job.state = "absent"
  /\ WriteJob([job EXCEPT !.state = "pending", !.due = d])
  /\ UNCHANGED <<marker, limited, pc, pass, task, delivered>>

\* KvJobs::cancel
Cancel ==
  /\ job.state \in {"pending", "claimed"}
  /\ WriteJob([job EXCEPT !.state = "cancelled", !.lease = NoLease])
  /\ UNCHANGED <<marker, limited, pc, pass, task, delivered>>

\* KvJobs::rerun
Rerun(d) ==
  /\ job.state \in Settled
  /\ job.run < MaxRun
  /\ WriteJob([job EXCEPT !.state = "pending", !.run = @ + 1, !.retries = 0,
                          !.lease = NoLease, !.summary = NoSummary, !.due = d,
                          !.taken = FALSE])
  /\ UNCHANGED <<marker, limited, pc, pass, task, delivered>>

\* KvJobs::limit_message: a status webhook carries 131049 for a message of
\* this job whose id was kept when its marker was set to sent.
LimitMessage(p) ==
  /\ p \notin limited
  /\ \E n \in Run : marker[n][p].state = "sent"
  /\ limited' = limited \cup {p}
  /\ UNCHANGED <<job, fresh, marker, pc, pass, task, delivered>>

\* A limited marker lives 24 hours (MARKETING_LIMIT_WAIT).
LimitExpires(p) ==
  /\ p \in limited
  /\ limited' = limited \ {p}
  /\ UNCHANGED <<job, fresh, marker, pc, pass, task, delivered>>

Down(n) == IF n = 0 THEN 0 ELSE n - 1

\* The clock moves on by one unit.
Tick ==
  /\ job.due > 0 \/ job.lease.left > 0 \/ \E r \in Runners : until[r] > 0
  /\ job' = [job EXCEPT !.due = Down(@), !.lease.left = Down(@)]
  /\ until' = [r \in Runners |-> Down(until[r])]
  /\ UNCHANGED <<fresh, marker, limited, pc, claim, at, found, halt, task,
                 delivered>>

-----------------------------------------------------------------------------
(* Claiming: KvJobs::claim_one, once a tick has met the job.               *)

\* Mutant of Claimable: a claim is never taken over.
ClaimablePending == job.state = "pending" /\ job.due = 0

Claimable == \/ job.state = "pending" /\ job.due = 0
             \/ job.state = "claimed" /\ job.lease.left = 0

\* The record is read and found claimable; the lease runs from here.
ClaimRead(r) ==
  /\ pc[r] = "idle"
  /\ Claimable
  /\ job.claims < MaxClaims
  /\ pc' = [pc EXCEPT ![r] = "claim"]
  /\ fresh' = fresh \cup {r}
  /\ until' = [until EXCEPT ![r] = Lease]
  /\ UNCHANGED <<job, marker, limited, claim, at, found, halt, task, delivered>>

\* Mutant of ClaimSwap: a plain put, whatever was written since the read.
ClaimByPut(r) ==
  /\ pc[r] = "claim"
  /\ WriteJob([job EXCEPT !.state = "claimed", !.claims = @ + 1,
                          !.lease = LeaseOf(r, job.claims + 1, until[r]),
                          !.taken = @ \/ job.state = "claimed"])
  /\ claim' = [claim EXCEPT ![r] = [run |-> job.run, number |-> job.claims + 1,
                                    retries |-> job.retries]]
  /\ pc' = [pc EXCEPT ![r] = "keep"]
  /\ at' = [at EXCEPT ![r] = 1]
  /\ found' = [found EXCEPT ![r] = NoSummary]
  /\ halt' = [halt EXCEPT ![r] = "none"]
  /\ UNCHANGED <<marker, limited, until, task, delivered>>

\* The compare-and-swap from the version read, and the pass begins.
ClaimSwap(r) ==
  /\ pc[r] = "claim"
  /\ r \in fresh
  /\ WriteJob([job EXCEPT !.state = "claimed", !.claims = @ + 1,
                          !.lease = LeaseOf(r, job.claims + 1, until[r]),
                          !.taken = @ \/ job.state = "claimed"])
  /\ claim' = [claim EXCEPT ![r] = [run |-> job.run, number |-> job.claims + 1,
                                    retries |-> job.retries]]
  /\ pc' = [pc EXCEPT ![r] = "keep"]
  /\ at' = [at EXCEPT ![r] = 1]
  /\ found' = [found EXCEPT ![r] = NoSummary]
  /\ halt' = [halt EXCEPT ![r] = "none"]
  /\ UNCHANGED <<marker, limited, until, task, delivered>>

\* The record was written since: the job is left to a later tick.
ClaimLost(r) ==
  /\ pc[r] = "claim"
  /\ r \notin fresh
  /\ Drop(r)
  /\ UNCHANGED <<job, fresh, marker, limited, delivered>>

-----------------------------------------------------------------------------
(* The scan: JobRunner::execute reads every recipient's marker.            *)

\* KvJobs::hold for a claim that holds the job: the lease is renewed when
\* less than half of it is left.
Hold(r) ==
  /\ HaltOf(r) = "none"
  /\ IF job.lease.left >= Lease \div 2
       THEN /\ until' = [until EXCEPT ![r] = job.lease.left]
            /\ UNCHANGED <<job, fresh>>
       ELSE /\ until' = [until EXCEPT ![r] = Lease]
            /\ WriteJob([job EXCEPT !.lease.left = Lease])

\* Holder::keep: no read while at least half of the lease is left by this
\* runner's account.
Keep(r) ==
  /\ pc[r] = "keep"
  /\ \/ /\ until[r] >= Lease \div 2
        /\ pc' = [pc EXCEPT ![r] = "read"]
        /\ UNCHANGED <<job, fresh, until>>
     \/ /\ until[r] < Lease \div 2
        /\ Hold(r)
        /\ pc' = [pc EXCEPT ![r] = "read"]
  /\ UNCHANGED <<marker, limited, claim, at, found, halt, task, delivered>>

\* The job was cancelled or taken over: the pass ends.
KeepHalted(r) ==
  /\ pc[r] = "keep"
  /\ until[r] < Lease \div 2
  /\ HaltOf(r) # "none"
  /\ Drop(r)
  /\ UNCHANGED <<job, fresh, marker, limited, delivered>>

\* Mutant of RecipientMark: an interrupted send is left as it was found.
RecipientMarkRaw(r, p) ==
  LET state == marker[claim[r].run][p].state
  IN  IF state # "none" THEN state
      ELSE IF p \in limited THEN "limited" ELSE "unmarked"

\* KvJobs::recipient: what is known of p in the claim's run.
RecipientMark(r, p) ==
  LET state == marker[claim[r].run][p].state
  IN  CASE state \in {"sent", "failed"} -> state
        [] state \in {"sending", "unknown"} -> "unknown"
        [] OTHER -> IF p \in limited THEN "limited" ELSE "unmarked"

\* The last marker read, the broadcast to the unmarked recipients begins;
\* one whose message cannot be composed fails without a send.
ReadMarker(r) ==
  LET p == at[r]
      mark == RecipientMark(r, p)
      now == [found[r] EXCEPT ![p] = mark]
  IN  /\ pc[r] = "read"
      /\ at' = [at EXCEPT ![r] = @ + 1]
      /\ IF p < N
           THEN /\ pc' = [pc EXCEPT ![r] = "keep"]
                /\ found' = [found EXCEPT ![r] = now]
                /\ UNCHANGED task
           ELSE /\ pc' = [pc EXCEPT ![r] = "send"]
                /\ found' = [found EXCEPT ![r] = [q \in Rcpt |->
                     IF now[q] = "unmarked" /\ q \in Uncomposable
                       THEN "failed" ELSE now[q]]]
                /\ task' = [task EXCEPT ![r] = [q \in Rcpt |->
                     IF now[q] = "unmarked" /\ q \notin Uncomposable
                       THEN "queued" ELSE "idle"]]
      /\ UNCHANGED <<job, fresh, marker, limited, claim, until, halt, delivered>>

-----------------------------------------------------------------------------
(* Durable::send, one per recipient, several at a time.                    *)

SetTask(r, p, next) == task' = [task EXCEPT ![r][p] = next]
Record(r, p, outcome) == found' = [found EXCEPT ![r][p] = outcome]
\* Durable::stop keeps the first reason.
Stop(r, why) == halt' = [halt EXCEPT ![r] = IF @ = "none" THEN why ELSE @]

\* The broadcast ends before this send (cancelled by Durable::stop, stopped
\* by its policy, out of retries, refused by its rate limiter), or the check
\* fails: nothing is recorded, the recipient counts as unsent.
Skip(r, p) ==
  /\ task[r][p] = "queued"
  /\ SetTask(r, p, "idle")
  /\ UNCHANGED <<job, fresh, marker, limited, pc, pass, delivered>>

\* Durable::check
Check(r, p) ==
  /\ task[r][p] = "queued"
  /\ halt[r] = "none"
  /\ \/ /\ Hold(r)
        /\ SetTask(r, p, "mark")
        /\ UNCHANGED halt
     \/ /\ HaltOf(r) # "none"
        /\ Stop(r, HaltOf(r))
        /\ SetTask(r, p, "idle")
        /\ UNCHANGED <<job, fresh, until>>
  /\ UNCHANGED <<marker, limited, pc, claim, at, found, delivered>>

\* Mutant of MarkSending: a plain put, over another runner's marker.
MarkSendingByPut(r, p) ==
  LET run == claim[r].run
  IN  /\ task[r][p] = "mark"
      /\ marker' = [marker EXCEPT ![run][p] = SendingBy(r)]
      /\ SetTask(r, p, "verify")
      /\ UNCHANGED <<job, fresh, limited, pc, pass, delivered>>

\* KvJobs::mark_sending: put_if_absent of the run's marker.  It expires
\* after KvJobs::retention; no run of the model is that long.
MarkSending(r, p) ==
  LET run == claim[r].run
  IN  /\ task[r][p] = "mark"
      /\ \/ /\ marker[run][p] = Unmarked
            /\ marker' = [marker EXCEPT ![run][p] = SendingBy(r)]
            /\ SetTask(r, p, "verify")
            /\ UNCHANGED found
         \/ /\ marker[run][p] # Unmarked
            /\ Record(r, p, "unknown")
            /\ SetTask(r, p, "idle")
            /\ UNCHANGED marker
      /\ UNCHANGED <<job, fresh, limited, pc, claim, until, at, halt, delivered>>

\* mark_sending fails: the marker may have been written all the same.
MarkSendingFails(r, p) ==
  LET run == claim[r].run
  IN  /\ task[r][p] = "mark"
      /\ \/ UNCHANGED marker
         \/ /\ marker[run][p] = Unmarked
            /\ marker' = [marker EXCEPT ![run][p] = SendingBy(r)]
      /\ SetTask(r, p, "idle")
      /\ UNCHANGED <<job, fresh, limited, pc, pass, delivered>>

\* KvJobs::check_run, with the marker in place: the run, not the claim.
CheckRun(r, p) ==
  /\ task[r][p] = "verify"
  /\ SetTask(r, p, CASE job.state = "cancelled" -> "cancelled"
                     [] job.state # "cancelled" /\ job.run # claim[r].run -> "lost"
                     [] OTHER -> "request")
  /\ UNCHANGED <<job, fresh, marker, limited, pc, pass, delivered>>

CheckRunFails(r, p) ==
  /\ task[r][p] = "verify"
  /\ SetTask(r, p, "unread")
  /\ UNCHANGED <<job, fresh, marker, limited, pc, pass, delivered>>

\* The request to Meta and its answer.  Accepted or, when the answer is lost
\* (a timeout, a 5xx), perhaps acted on; refused, for 131049 or otherwise;
\* or refused before anything was done (Error::may_resend).
Request(r, p) ==
  LET run == claim[r].run
  IN  /\ task[r][p] = "request"
      /\ \E answer \in Answered \cup {"throttled"} :
           /\ SetTask(r, p, answer)
           /\ \/ /\ answer \in {"accepted", "unknown"}
                 /\ delivered' = [delivered EXCEPT ![run][p] = @ + 1]
              \/ /\ answer # "accepted"
                 /\ UNCHANGED delivered
      /\ UNCHANGED <<job, fresh, marker, limited, pc, pass>>

\* Mutant of OutcomeOf: no answer counts as a failure.
OutcomeOfUnanswered(answer) == IF answer = "accepted" THEN "sent" ELSE "failed"

\* Durable::send and refused: which marker an answer leads to.
OutcomeOf(answer) == CASE answer = "accepted" -> "sent"
                       [] answer = "unknown" -> "unknown"
                       [] OTHER -> "failed"

\* Durable::sent and Durable::refused: KvJobs::mark_outcome replaces this
\* runner's own "sending" marker, or fails and leaves it; the outcome is
\* recorded either way.  A 131049 also limits the recipient, or fails to.
MarkOutcome(r, p) ==
  LET run == claim[r].run
      outcome == OutcomeOf(task[r][p])
  IN  /\ task[r][p] \in Answered
      /\ \/ /\ marker[run][p] = SendingBy(r)
            /\ marker' = [marker EXCEPT ![run][p] = Mark(outcome)]
         \/ UNCHANGED marker
      /\ \/ task[r][p] = "limited" /\ limited' = limited \cup {p}
         \/ UNCHANGED limited
      /\ Record(r, p, outcome)
      /\ SetTask(r, p, "idle")
      /\ UNCHANGED <<job, fresh, pc, claim, until, at, halt, delivered>>

\* KvJobs::unmark and what follows it: the pass stops for what check_run
\* said, or the broadcast's policy may send the refused message again.
AfterUnmark(r, p) ==
  /\ SetTask(r, p, IF task[r][p] = "throttled" THEN "queued" ELSE "idle")
  /\ IF task[r][p] \in {"cancelled", "lost"} THEN Stop(r, task[r][p])
                                             ELSE UNCHANGED halt
  /\ UNCHANGED <<job, fresh, limited, pc, claim, until, at, delivered>>

Unmark(r, p) ==
  LET run == claim[r].run
  IN  /\ task[r][p] \in Withdrawing
      /\ marker[run][p] = SendingBy(r)
      /\ marker' = [marker EXCEPT ![run][p] = Unmarked]
      /\ AfterUnmark(r, p)
      /\ UNCHANGED found

\* unmark fails (its write may have happened): an outcome unknown.
UnmarkFails(r, p) ==
  LET run == claim[r].run
  IN  /\ task[r][p] \in Withdrawing
      /\ \/ UNCHANGED marker
         \/ /\ marker[run][p] = SendingBy(r)
            /\ marker' = [marker EXCEPT ![run][p] = Unmarked]
      /\ Record(r, p, "unknown")
      /\ AfterUnmark(r, p)

-----------------------------------------------------------------------------
(* The end of a pass.                                                      *)

Unsent(r) == {p \in Rcpt : found[r][p] = "unmarked"}

\* KvJobs::settle and KvJobs::retry for a claim that holds the job.
EndOf(r) ==
  IF Unsent(r) # {} /\ claim[r].retries < MaxRetries
    THEN \E d \in 0..Delay :
           WriteJob([job EXCEPT !.state = "pending", !.lease = NoLease,
                                !.retries = @ + 1, !.due = d])
    ELSE WriteJob([job EXCEPT !.state = IF Unsent(r) = {} THEN "done"
                                                          ELSE "stopped",
                              !.lease = NoLease, !.summary = found[r]])

\* JobRunner::execute once no send is left: a pass halted ends as it is.
EndPass(r) ==
  /\ pc[r] = "send"
  /\ \A p \in Rcpt : task[r][p] = "idle"
  /\ \/ /\ halt[r] = "none" /\ HaltOf(r) = "none"
        /\ EndOf(r)
     \/ /\ halt[r] # "none" \/ HaltOf(r) # "none"
        /\ UNCHANGED <<job, fresh>>
  /\ Drop(r)
  /\ UNCHANGED <<marker, limited, delivered>>

\* The pass ends where it stands: the process stops, the tick's future is
\* dropped, or a store error ends the tick.
Abandon(r) ==
  /\ pc[r] # "idle"
  /\ Drop(r)
  /\ fresh' = fresh \ {r}
  /\ UNCHANGED <<job, marker, limited, delivered>>

-----------------------------------------------------------------------------
Send(r, p) == \/ Check(r, p) \/ MarkSending(r, p) \/ CheckRun(r, p)
              \/ Request(r, p) \/ MarkOutcome(r, p) \/ Unmark(r, p)

SendFault(r, p) == \/ Skip(r, p) \/ MarkSendingFails(r, p)
                   \/ CheckRunFails(r, p) \/ UnmarkFails(r, p)

Pass(r) == \/ ClaimRead(r) \/ ClaimSwap(r) \/ ClaimLost(r)
           \/ Keep(r) \/ KeepHalted(r) \/ ReadMarker(r) \/ EndPass(r)

Next == \/ \E d \in 0..Delay : Schedule(d) \/ Rerun(d)
        \/ Cancel
        \/ \E p \in Rcpt : LimitMessage(p) \/ LimitExpires(p)
        \/ Tick
        \/ \E r \in Runners : Pass(r) \/ Abandon(r)
        \/ \E r \in Runners, p \in Rcpt : Send(r, p) \/ SendFault(r, p)

Spec == Init /\ [][Next]_vars

\* Runners keep ticking, a call to the store or to Meta returns, time goes
\* on; a broadcast's policy sends a refused message again only finitely
\* often; and failures do not hit every one of a runner's attempts to claim.
Fairness == /\ WF_vars(Tick)
            /\ \A r \in Runners : WF_vars(Pass(r)) /\ SF_vars(ClaimSwap(r))
            /\ \A r \in Runners, p \in Rcpt :
                 WF_vars(Send(r, p)) /\ SF_vars(Skip(r, p))

FairSpec == Spec /\ Fairness

-----------------------------------------------------------------------------
(* Properties.                                                             *)

LeaseRecord == [runner : Runners \cup {NoRunner}, claim : Nat, left : Nat]
JobRecord == [state : JobState, run : Run, retries : Nat, claims : Nat, due : Nat,
              summary : [Rcpt -> Found], lease : LeaseRecord,
              taken : BOOLEAN]
JobClaim == [run : Run, number : Nat, retries : Nat]

\* Every variable has its type.
TypeOK ==
  /\ job \in JobRecord
  /\ fresh \in SUBSET Runners
  /\ marker \in [Run -> [Rcpt -> Marker]]
  /\ limited \in SUBSET Rcpt
  /\ pc \in [Runners -> {"idle", "claim", "keep", "read", "send"}]
  /\ claim \in [Runners -> JobClaim]
  /\ until \in [Runners -> Nat]
  /\ at \in [Runners -> 1..(N + 1)]
  /\ found \in [Runners -> [Rcpt -> Found]]
  /\ halt \in [Runners -> {"none", "cancelled", "lost"}]
  /\ task \in [Runners -> [Rcpt -> Task]]
  /\ delivered \in [Run -> [Rcpt -> Nat]]

\* At most once (jobs/port.rs, the JobStore contract): no recipient of a run
\* is sent twice, whoever runs it, however passes overlap, fail or resume.
AtMostOnce == \A n \in Run, p \in Rcpt : delivered[n][p] <= 1

\* A marker never lies, so whoever resumes a run may trust it: without one,
\* or with "failed", nothing went out; with "sent" the message did.
MarkerTruth ==
  \A n \in Run, p \in Rcpt :
    LET state == marker[n][p].state
    IN  /\ state \in {"none", "failed"} => delivered[n][p] = 0
        /\ state = "sent" => delivered[n][p] = 1

\* A settled job's summary (JobSummary) counts as sent only what went out and
\* as failed only what did not, and a job is done with nobody unsent.
SummaryTruth ==
  job.state \in {"done", "stopped"} =>
    \A p \in Rcpt :
      /\ job.summary[p] = "sent" => delivered[job.run][p] = 1
      /\ job.summary[p] = "failed" => delivered[job.run][p] = 0
      /\ job.state = "done" => job.summary[p] \notin {"unread", "unmarked"}

\* JobEnd::Stopped: "Recipients provably unsent after the last retry".
StoppedUnsent ==
  job.state = "stopped" =>
    \A p \in Rcpt : job.summary[p] = "unmarked" => delivered[job.run][p] = 0

\* A claim is taken over only once its lease has expired, even when the
\* holder renews it between the other runner's read and its swap.
TakeoverOnlyExpired ==
  [][ /\ job.state = "claimed" /\ job'.state = "claimed"
      /\ job'.lease.claim # job.lease.claim
      => job.lease.left = 0 ]_vars

\* Cancel wins or loses whole: a settled job is changed by nobody, a pass
\* that still runs included, until it is run again.
SettledIsFinal ==
  [][ job.state \in Settled =>
        \/ [job' EXCEPT !.due = job.due] = job
        \/ job'.state = "pending" /\ job'.run = job.run + 1 ]_vars

\* What is true of JobEnd::Stopped's promise (StoppedUnsent): a recipient
\* counted as unsent was sent nothing, through retries, re-runs, cancels,
\* unanswered requests and lost marker writes, in a run whose claims were
\* never taken over.  A pass that lost its claim may be sending still.
UnsentUnlessTakenOver ==
  job.state = "stopped" /\ ~job.taken =>
    \A p \in Rcpt : job.summary[p] = "unmarked" => delivered[job.run][p] = 0

\* Nothing strands a job: one that is pending or claimed settles or is
\* claimed once more, a claim whose runner stopped included.
JobGoesOn ==
  \A k \in 0..(MaxClaims - 1) :
    (job.state \in {"pending", "claimed"} /\ job.claims = k) ~>
      (job.state \in Settled \/ job.claims > k)
=============================================================================
