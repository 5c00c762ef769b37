---------------------------- MODULE JobRunProofs ----------------------------
(***************************************************************************)
(* Theorems about JobRun, for every number of runners and recipients, every *)
(* lease, delay and number of retries, and every bound on runs and claims. *)
(***************************************************************************)
EXTENDS JobRun, TLAPS

-----------------------------------------------------------------------------
(* Types.  A scan's position is a recipient while there is one to read.    *)

Scanning == \A r \in Runners : pc[r] \in {"keep", "read"} => at[r] \in Rcpt

TypeInv == TypeOK /\ Scanning

\* What a claim's scan finds of a recipient (KvJobs::recipient) is one of
\* the outcomes a summary knows.
LEMMA RecipientMarkType ==
  ASSUME TypeOK, NEW r \in Runners, NEW p \in Rcpt
  PROVE  RecipientMark(r, p) \in Found
BY DEF RecipientMark, Found

\* Why a pass stops is a reason Durable::stop can keep.
LEMMA HaltOfType ==
  ASSUME NEW r \in Runners
  PROVE  HaltOf(r) \in {"none", "cancelled", "lost"}
BY DEF HaltOf

\* The records the model starts from, and writes, have their types.
LEMMA ConstantTypes ==
  /\ NoSummary \in [Rcpt -> Found]
  /\ NoClaim \in JobClaim
  /\ Unmarked \in Marker
  /\ NoLease \in LeaseRecord
  /\ \A r \in Runners : SendingBy(r) \in Marker
  /\ \A s \in {"sent", "failed", "unknown"} : Mark(s) \in Marker
BY NumbersAssumption DEF NoSummary, Found, NoClaim, JobClaim, Run, Unmarked, Mark,
   Marker, NoLease, LeaseRecord, LeaseOf, SendingBy

\* Initially every variable has its type.
LEMMA InitType == Init => TypeInv
<1> SUFFICES ASSUME Init PROVE TypeInv
  OBVIOUS
<1>1. job \in JobRecord
  BY ConstantTypes, NumbersAssumption DEF Init, JobRecord, JobState, Run
<1>2. TypeOK
  BY <1>1, ConstantTypes, NumbersAssumption DEF Init, TypeOK, Task
<1> QED
  BY <1>2 DEF TypeInv, Scanning, Init

\* A pass that is dropped leaves well-typed variables.
LEMMA DropType ==
  ASSUME TypeInv, NEW r \in Runners, Drop(r)
  PROVE  /\ pc' \in [Runners -> {"idle", "claim", "keep", "read", "send"}]
         /\ claim' \in [Runners -> JobClaim]
         /\ until' \in [Runners -> Nat]
         /\ at' \in [Runners -> 1..(N + 1)]
         /\ found' \in [Runners -> [Rcpt -> Found]]
         /\ halt' \in [Runners -> {"none", "cancelled", "lost"}]
         /\ task' \in [Runners -> [Rcpt -> Task]]
         /\ Scanning'
BY ConstantTypes, NumbersAssumption DEF TypeInv, TypeOK, Scanning, Drop, Task

\* The job's record stays one, whichever of its fields a call writes: schedule,
LEMMA WriteDue ==
  ASSUME NEW j \in JobRecord, NEW s \in JobState, NEW d \in Nat
  PROVE  [j EXCEPT !.state = s, !.due = d] \in JobRecord
BY DEF JobRecord

\* cancel,
LEMMA WriteLease ==
  ASSUME NEW j \in JobRecord, NEW s \in JobState, NEW l \in LeaseRecord
  PROVE  [j EXCEPT !.state = s, !.lease = l] \in JobRecord
BY DEF JobRecord

\* rerun,
LEMMA WriteRun ==
  ASSUME NEW j \in JobRecord, NEW s \in JobState, NEW run \in Run, NEW n \in Nat,
         NEW l \in LeaseRecord, NEW sum \in [Rcpt -> Found], NEW d \in Nat
  PROVE  [j EXCEPT !.state = s, !.run = run, !.retries = n, !.lease = l,
                   !.summary = sum, !.due = d, !.taken = FALSE] \in JobRecord
BY DEF JobRecord

\* claim_one,
LEMMA WriteClaim ==
  ASSUME NEW j \in JobRecord, NEW s \in JobState, NEW n \in Nat, NEW l \in LeaseRecord,
         NEW b \in BOOLEAN
  PROVE  [j EXCEPT !.state = s, !.claims = n, !.lease = l, !.taken = b] \in JobRecord
BY DEF JobRecord

\* retry
LEMMA WriteRetry ==
  ASSUME NEW j \in JobRecord, NEW s \in JobState, NEW l \in LeaseRecord,
         NEW n \in Nat, NEW d \in Nat
  PROVE  [j EXCEPT !.state = s, !.lease = l, !.retries = n, !.due = d] \in JobRecord
BY DEF JobRecord

\* and settle.
LEMMA WriteSummary ==
  ASSUME NEW j \in JobRecord, NEW s \in JobState, NEW l \in LeaseRecord,
         NEW sum \in [Rcpt -> Found]
  PROVE  [j EXCEPT !.state = s, !.lease = l, !.summary = sum] \in JobRecord
BY DEF JobRecord

\* A table stays one when one of its entries is written: the tasks,
LEMMA WriteTask ==
  ASSUME TypeInv, NEW r \in Runners, NEW p \in Rcpt, NEW t \in Task
  PROVE  [task EXCEPT ![r][p] = t] \in [Runners -> [Rcpt -> Task]]
BY DEF TypeInv, TypeOK

\* the outcomes a pass knows,
LEMMA WriteFound ==
  ASSUME TypeInv, NEW r \in Runners, NEW p \in Rcpt, NEW o \in Found
  PROVE  [found EXCEPT ![r][p] = o] \in [Runners -> [Rcpt -> Found]]
BY DEF TypeInv, TypeOK

\* the markers of a claim's run
LEMMA WriteMarker ==
  ASSUME TypeInv, NEW r \in Runners, NEW p \in Rcpt, NEW m \in Marker
  PROVE  [marker EXCEPT ![claim[r].run][p] = m] \in [Run -> [Rcpt -> Marker]]
BY DEF TypeInv, TypeOK, JobClaim

\* and the deliveries.
LEMMA WriteDelivered ==
  ASSUME TypeInv, NEW r \in Runners, NEW p \in Rcpt
  PROVE  [delivered EXCEPT ![claim[r].run][p] = @ + 1] \in [Run -> [Rcpt -> Nat]]
BY DEF TypeInv, TypeOK, JobClaim

\* The clock and a renewal write what is left of the lease.
LEMMA LeftWrites ==
  ASSUME NEW j \in JobRecord, NEW d \in Nat, NEW n \in Nat
  PROVE  /\ [j EXCEPT !.lease.left = n] \in JobRecord
         /\ [j EXCEPT !.due = d, !.lease.left = n] \in JobRecord
BY DEF JobRecord, LeaseRecord

\* KvJobs::hold writes a well-typed record.
LEMMA HoldType ==
  ASSUME TypeInv, NEW r \in Runners, Hold(r)
  PROVE  job' \in JobRecord /\ fresh' \in SUBSET Runners
         /\ until' \in [Runners -> Nat]
<1>1. job \in JobRecord /\ job.lease.left \in Nat /\ Lease \in Nat
  BY NumbersAssumption DEF TypeInv, TypeOK, JobRecord, LeaseRecord
<1>2. [job EXCEPT !.lease.left = Lease] \in JobRecord
  BY <1>1, LeftWrites
<1> QED
  BY <1>1, <1>2 DEF TypeInv, TypeOK, Hold, WriteJob

\* Every action keeps every variable in its type.
LEMMA NextType == TypeInv /\ [Next]_vars => TypeInv'
<1> SUFFICES ASSUME TypeInv, [Next]_vars PROVE TypeInv'
  OBVIOUS
<1> USE DEF pass
<1>1. ASSUME NEW d \in 0..Delay, Schedule(d) PROVE TypeInv'
  <2>1. job' \in JobRecord
    <3>1. job \in JobRecord /\ d \in Nat /\ "pending" \in JobState
      BY NumbersAssumption DEF TypeInv, TypeOK, JobState
    <3> QED BY <1>1, <3>1, WriteDue DEF Schedule, WriteJob
  <2> QED BY <1>1, <2>1 DEF Schedule, WriteJob, TypeInv, TypeOK, Scanning
<1>2. ASSUME NEW d \in 0..Delay, Rerun(d) PROVE TypeInv'
  <2>1. job' \in JobRecord
    <3>1. job \in JobRecord /\ d \in Nat /\ "pending" \in JobState
      BY NumbersAssumption DEF TypeInv, TypeOK, JobState
    <3>2. job.run + 1 \in Run
      BY <1>2, <3>1, NumbersAssumption DEF Rerun, JobRecord, Run
    <3>3. job' = [job EXCEPT !.state = "pending", !.run = job.run + 1, !.retries = 0,
                    !.lease = NoLease, !.summary = NoSummary, !.due = d,
                    !.taken = FALSE]
      BY <1>2 DEF Rerun, WriteJob
    <3> QED BY <3>1, <3>2, <3>3, WriteRun, ConstantTypes
  <2> QED BY <1>2, <2>1 DEF Rerun, WriteJob, TypeInv, TypeOK, Scanning
<1>3. CASE Cancel
  <2>1. job' \in JobRecord
    <3>1. job \in JobRecord /\ "cancelled" \in JobState
      BY DEF TypeInv, TypeOK, JobState, Settled
    <3> QED BY <1>3, <3>1, WriteLease, ConstantTypes DEF Cancel, WriteJob
  <2> QED BY <1>3, <2>1 DEF Cancel, WriteJob, TypeInv, TypeOK, Scanning
<1>4. ASSUME NEW p \in Rcpt, LimitMessage(p) \/ LimitExpires(p) PROVE TypeInv'
  BY <1>4 DEF LimitMessage, LimitExpires, TypeInv, TypeOK, Scanning
<1>5. CASE Tick
  <2>1. \A n \in Nat : Down(n) \in Nat
    BY DEF Down
  <2>2. job' \in JobRecord
    <3>1. job \in JobRecord /\ Down(job.due) \in Nat /\ Down(job.lease.left) \in Nat
      BY <2>1 DEF TypeInv, TypeOK, JobRecord, LeaseRecord
    <3>2. job' = [job EXCEPT !.due = Down(job.due),
                             !.lease.left = Down(job.lease.left)]
      BY <1>5 DEF Tick
    <3> QED BY <3>1, <3>2, LeftWrites
  <2> QED BY <1>5, <2>1, <2>2 DEF Tick, TypeInv, TypeOK, Scanning
<1>6. ASSUME NEW r \in Runners, Pass(r) PROVE TypeInv'
  <2>1. CASE ClaimRead(r)
    BY <2>1, NumbersAssumption DEF ClaimRead, TypeInv, TypeOK, Scanning
  <2>2. CASE ClaimSwap(r)
    <3>1. job' \in JobRecord
      <4>1. /\ job \in JobRecord /\ "claimed" \in JobState
            /\ job.claims + 1 \in Nat
            /\ LeaseOf(r, job.claims + 1, until[r]) \in LeaseRecord
            /\ (job.taken \/ job.state = "claimed") \in BOOLEAN
        BY DEF TypeInv, TypeOK, JobState, JobRecord, LeaseOf, LeaseRecord
      <4>2. job' = [job EXCEPT !.state = "claimed", !.claims = job.claims + 1,
                      !.lease = LeaseOf(r, job.claims + 1, until[r]),
                      !.taken = job.taken \/ job.state = "claimed"]
        BY <2>2 DEF ClaimSwap, WriteJob
      <4> QED BY <4>1, <4>2, WriteClaim
    <3>2. claim' \in [Runners -> JobClaim]
      BY <2>2 DEF ClaimSwap, JobRecord, JobClaim, TypeInv, TypeOK
    <3> QED BY <2>2, <3>1, <3>2, ConstantTypes, NumbersAssumption
            DEF ClaimSwap, WriteJob, TypeInv, TypeOK, Scanning, Rcpt
  <2>3. CASE ClaimLost(r)
    BY <2>3, DropType DEF ClaimLost, TypeInv, TypeOK
  <2>4. CASE Keep(r)
    <3>1. job' \in JobRecord /\ fresh' \in SUBSET Runners /\ until' \in [Runners -> Nat]
      BY <2>4, HoldType DEF Keep, TypeInv, TypeOK
    <3> QED BY <2>4, <3>1 DEF Keep, TypeInv, TypeOK, Scanning
  <2>5. CASE KeepHalted(r)
    BY <2>5, DropType DEF KeepHalted, TypeInv, TypeOK
  <2>6. CASE ReadMarker(r)
    <3>1. at[r] \in Rcpt
      BY <2>6 DEF ReadMarker, TypeInv, Scanning
    <3>2. PICK now \in [Rcpt -> Found] : now = [found[r] EXCEPT ![at[r]] = RecipientMark(r, at[r])]
      BY <3>1, RecipientMarkType DEF TypeInv, TypeOK
    <3>3. /\ \/ found' = [found EXCEPT ![r] = now]
             \/ found' = [found EXCEPT ![r] = [q \in Rcpt |->
                     IF now[q] = "unmarked" /\ q \in Uncomposable
                       THEN "failed" ELSE now[q]]]
          /\ \/ task' = task
             \/ task' = [task EXCEPT ![r] = [q \in Rcpt |->
                     IF now[q] = "unmarked" /\ q \notin Uncomposable
                       THEN "queued" ELSE "idle"]]
      BY <2>6, <3>2 DEF ReadMarker
    <3>5. /\ found' \in [Runners -> [Rcpt -> Found]]
          /\ task' \in [Runners -> [Rcpt -> Task]]
      <4>1. found \in [Runners -> [Rcpt -> Found]] /\ task \in [Runners -> [Rcpt -> Task]]
        BY DEF TypeInv, TypeOK
      <4>2. [q \in Rcpt |-> IF now[q] = "unmarked" /\ q \in Uncomposable
               THEN "failed" ELSE now[q]] \in [Rcpt -> Found]
        BY <3>2 DEF Found
      <4>3. [q \in Rcpt |-> IF now[q] = "unmarked" /\ q \notin Uncomposable
               THEN "queued" ELSE "idle"] \in [Rcpt -> Task]
        BY DEF Task
      <4>4. found' \in [Runners -> [Rcpt -> Found]]
        BY <3>2, <3>3, <4>1, <4>2
      <4>5. task' \in [Runners -> [Rcpt -> Task]]
        BY <3>3, <4>1, <4>3
      <4> QED BY <4>4, <4>5
    <3>4. at' \in [Runners -> 1..(N + 1)] /\ Scanning'
      BY <2>6, <3>1, NumbersAssumption DEF ReadMarker, TypeInv, TypeOK, Scanning, Rcpt
    <3> QED BY <2>6, <3>4, <3>5 DEF ReadMarker, TypeInv, TypeOK
  <2>7. CASE EndPass(r)
    <3>1. job' \in JobRecord /\ fresh' \in SUBSET Runners
      <4>1. ASSUME EndOf(r) PROVE job' \in JobRecord /\ fresh' \in SUBSET Runners
        <5>1. /\ job \in JobRecord /\ found[r] \in [Rcpt -> Found]
              /\ job.retries + 1 \in Nat
              /\ {"pending", "done", "stopped"} \subseteq JobState
          BY DEF TypeInv, TypeOK, JobState, JobRecord, Settled
        <5>2. ASSUME NEW d \in 0..Delay,
                     WriteJob([job EXCEPT !.state = "pending", !.lease = NoLease,
                                          !.retries = job.retries + 1, !.due = d])
              PROVE  job' \in JobRecord
          <6>1. d \in Nat
            BY NumbersAssumption
          <6> QED BY <5>1, <5>2, <6>1, WriteRetry, ConstantTypes DEF WriteJob
        <5>3. ASSUME NEW s \in {"done", "stopped"},
                     WriteJob([job EXCEPT !.state = s, !.lease = NoLease,
                                          !.summary = found[r]])
              PROVE  job' \in JobRecord
          BY <5>1, <5>3, WriteSummary, ConstantTypes DEF WriteJob
        <5> QED BY <4>1, <5>2, <5>3 DEF EndOf, WriteJob
      <4> QED BY <2>7, <4>1 DEF EndPass, TypeInv, TypeOK
    <3> QED BY <2>7, <3>1, DropType DEF EndPass, TypeInv, TypeOK
  <2> QED BY <1>6, <2>1, <2>2, <2>3, <2>4, <2>5, <2>6, <2>7 DEF Pass
<1>7. ASSUME NEW r \in Runners, Abandon(r) PROVE TypeInv'
  BY <1>7, DropType DEF Abandon, TypeInv, TypeOK
<1>8. ASSUME NEW r \in Runners, NEW p \in Rcpt, Send(r, p) PROVE TypeInv'
  <2>0. /\ claim[r].run \in Run
        /\ marker \in [Run -> [Rcpt -> Marker]] /\ found \in [Runners -> [Rcpt -> Found]]
        /\ task \in [Runners -> [Rcpt -> Task]] /\ delivered \in [Run -> [Rcpt -> Nat]]
        /\ {"idle", "queued", "mark", "verify", "unread"} \subseteq Task
        /\ {"sent", "failed", "unknown"} \subseteq Found
    BY DEF TypeInv, TypeOK, JobClaim, Task, Withdrawing, Found
  <2>1. CASE Check(r, p)
    <3>1. job' \in JobRecord /\ fresh' \in SUBSET Runners /\ until' \in [Runners -> Nat]
      BY <2>1, HoldType DEF Check, TypeInv, TypeOK
    <3>2. halt' \in [Runners -> {"none", "cancelled", "lost"}]
      BY <2>1, HaltOfType DEF Check, Stop, TypeInv, TypeOK
    <3>3. task' \in [Runners -> [Rcpt -> Task]]
      <4>1. \E v \in Task : task' = [task EXCEPT ![r][p] = v]
        BY <2>1, <2>0 DEF Check, SetTask
      <4> QED BY <2>0, <4>1, WriteTask
    <3> QED BY <2>1, <3>1, <3>2, <3>3 DEF Check, TypeInv, TypeOK, Scanning
  <2>2. CASE MarkSending(r, p)
    <3>1. task' \in [Runners -> [Rcpt -> Task]]
      <4>1. \E v \in Task : task' = [task EXCEPT ![r][p] = v]
        BY <2>2, <2>0 DEF MarkSending, SetTask
      <4> QED BY <2>0, <4>1, WriteTask
    <3>2. marker' \in [Run -> [Rcpt -> Marker]]
      <4>1. marker' = marker \/ \E v \in Marker : marker' = [marker EXCEPT ![claim[r].run][p] = v]
        BY <2>2, <2>0, ConstantTypes DEF MarkSending
      <4>2. CASE marker' = marker
        BY <2>0, <4>2
      <4>3. ASSUME NEW v \in Marker, marker' = [marker EXCEPT ![claim[r].run][p] = v]
            PROVE  marker' \in [Run -> [Rcpt -> Marker]]
        BY <4>3, WriteMarker
      <4> QED BY <4>1, <4>2, <4>3
    <3>3. found' \in [Runners -> [Rcpt -> Found]]
      <4>1. found' = found \/ \E v \in Found : found' = [found EXCEPT ![r][p] = v]
        BY <2>2, <2>0 DEF MarkSending, Record
      <4>2. CASE found' = found
        BY <2>0, <4>2
      <4>3. ASSUME NEW v \in Found, found' = [found EXCEPT ![r][p] = v]
            PROVE  found' \in [Runners -> [Rcpt -> Found]]
        BY <4>3, WriteFound
      <4> QED BY <4>1, <4>2, <4>3
    <3> QED BY <2>2, <3>1, <3>2, <3>3 DEF MarkSending, TypeInv, TypeOK, Scanning
  <2>3. CASE CheckRun(r, p)
    BY <2>3 DEF CheckRun, SetTask, TypeInv, TypeOK, Scanning, Task, Withdrawing
  <2>4. CASE Request(r, p)
    <3>1. delivered' \in [Run -> [Rcpt -> Nat]]
      <4>1. \/ delivered' = delivered
            \/ delivered' = [delivered EXCEPT ![claim[r].run][p] = @ + 1]
        BY <2>4 DEF Request
      <4>2. CASE delivered' = delivered
        BY <2>0, <4>2
      <4>3. CASE delivered' = [delivered EXCEPT ![claim[r].run][p] = @ + 1]
        BY <4>3, WriteDelivered
      <4> QED BY <4>1, <4>2, <4>3
    <3> QED BY <2>4, <3>1
            DEF Request, SetTask, TypeInv, TypeOK, Scanning, Task, Withdrawing
  <2>5. CASE MarkOutcome(r, p)
    <3>1. OutcomeOf(task[r][p]) \in {"sent", "failed", "unknown"}
      BY DEF OutcomeOf
    <3>2. task' \in [Runners -> [Rcpt -> Task]]
      <4>1. \E v \in Task : task' = [task EXCEPT ![r][p] = v]
        BY <2>5, <2>0 DEF MarkOutcome, SetTask
      <4> QED BY <2>0, <4>1, WriteTask
    <3>3. marker' \in [Run -> [Rcpt -> Marker]]
      <4>1. marker' = marker \/ \E v \in Marker : marker' = [marker EXCEPT ![claim[r].run][p] = v]
        BY <2>5, <2>0, <3>1, ConstantTypes DEF MarkOutcome
      <4>2. CASE marker' = marker
        BY <2>0, <4>2
      <4>3. ASSUME NEW v \in Marker, marker' = [marker EXCEPT ![claim[r].run][p] = v]
            PROVE  marker' \in [Run -> [Rcpt -> Marker]]
        BY <4>3, WriteMarker
      <4> QED BY <4>1, <4>2, <4>3
    <3>4. found' \in [Runners -> [Rcpt -> Found]]
      <4>1. found' = found \/ \E v \in Found : found' = [found EXCEPT ![r][p] = v]
        BY <2>5, <2>0, <3>1 DEF MarkOutcome, Record
      <4>2. CASE found' = found
        BY <2>0, <4>2
      <4>3. ASSUME NEW v \in Found, found' = [found EXCEPT ![r][p] = v]
            PROVE  found' \in [Runners -> [Rcpt -> Found]]
        BY <4>3, WriteFound
      <4> QED BY <4>1, <4>2, <4>3
    <3> QED BY <2>5, <3>2, <3>3, <3>4 DEF MarkOutcome, TypeInv, TypeOK, Scanning
  <2>6. CASE Unmark(r, p)
    <3>1. task' \in [Runners -> [Rcpt -> Task]]
      <4>1. \E v \in Task : task' = [task EXCEPT ![r][p] = v]
        BY <2>6, <2>0 DEF Unmark, AfterUnmark, SetTask
      <4> QED BY <2>0, <4>1, WriteTask
    <3>2. marker' \in [Run -> [Rcpt -> Marker]]
      <4>1. marker' = marker \/ \E v \in Marker : marker' = [marker EXCEPT ![claim[r].run][p] = v]
        BY <2>6, <2>0, ConstantTypes DEF Unmark
      <4>2. CASE marker' = marker
        BY <2>0, <4>2
      <4>3. ASSUME NEW v \in Marker, marker' = [marker EXCEPT ![claim[r].run][p] = v]
            PROVE  marker' \in [Run -> [Rcpt -> Marker]]
        BY <4>3, WriteMarker
      <4> QED BY <4>1, <4>2, <4>3
    <3>3. halt' \in [Runners -> {"none", "cancelled", "lost"}]
      BY <2>6 DEF Unmark, AfterUnmark, Stop, TypeInv, TypeOK
    <3> QED BY <2>6, <3>1, <3>2, <3>3 DEF Unmark, AfterUnmark, TypeInv, TypeOK, Scanning
  <2> QED BY <1>8, <2>1, <2>2, <2>3, <2>4, <2>5, <2>6 DEF Send
<1>9. ASSUME NEW r \in Runners, NEW p \in Rcpt, SendFault(r, p) PROVE TypeInv'
  <2>0. /\ claim[r].run \in Run
        /\ marker \in [Run -> [Rcpt -> Marker]] /\ found \in [Runners -> [Rcpt -> Found]]
        /\ task \in [Runners -> [Rcpt -> Task]] /\ delivered \in [Run -> [Rcpt -> Nat]]
        /\ {"idle", "queued", "mark", "verify", "unread"} \subseteq Task
        /\ {"sent", "failed", "unknown"} \subseteq Found
    BY DEF TypeInv, TypeOK, JobClaim, Task, Withdrawing, Found
  <2>1. CASE Skip(r, p)
    BY <2>1 DEF Skip, SetTask, TypeInv, TypeOK, Scanning, Task
  <2>2. CASE MarkSendingFails(r, p)
    <3>1. task' \in [Runners -> [Rcpt -> Task]]
      <4>1. \E v \in Task : task' = [task EXCEPT ![r][p] = v]
        BY <2>2, <2>0 DEF MarkSendingFails, SetTask
      <4> QED BY <2>0, <4>1, WriteTask
    <3>2. marker' \in [Run -> [Rcpt -> Marker]]
      <4>1. marker' = marker \/ \E v \in Marker : marker' = [marker EXCEPT ![claim[r].run][p] = v]
        BY <2>2, <2>0, ConstantTypes DEF MarkSendingFails
      <4>2. CASE marker' = marker
        BY <2>0, <4>2
      <4>3. ASSUME NEW v \in Marker, marker' = [marker EXCEPT ![claim[r].run][p] = v]
            PROVE  marker' \in [Run -> [Rcpt -> Marker]]
        BY <4>3, WriteMarker
      <4> QED BY <4>1, <4>2, <4>3
    <3> QED BY <2>2, <3>1, <3>2 DEF MarkSendingFails, TypeInv, TypeOK, Scanning
  <2>3. CASE CheckRunFails(r, p)
    BY <2>3 DEF CheckRunFails, SetTask, TypeInv, TypeOK, Scanning, Task, Withdrawing
  <2>4. CASE UnmarkFails(r, p)
    <3>1. task' \in [Runners -> [Rcpt -> Task]]
      <4>1. \E v \in Task : task' = [task EXCEPT ![r][p] = v]
        BY <2>4, <2>0 DEF UnmarkFails, AfterUnmark, SetTask
      <4> QED BY <2>0, <4>1, WriteTask
    <3>2. marker' \in [Run -> [Rcpt -> Marker]]
      <4>1. marker' = marker \/ \E v \in Marker : marker' = [marker EXCEPT ![claim[r].run][p] = v]
        BY <2>4, <2>0, ConstantTypes DEF UnmarkFails
      <4>2. CASE marker' = marker
        BY <2>0, <4>2
      <4>3. ASSUME NEW v \in Marker, marker' = [marker EXCEPT ![claim[r].run][p] = v]
            PROVE  marker' \in [Run -> [Rcpt -> Marker]]
        BY <4>3, WriteMarker
      <4> QED BY <4>1, <4>2, <4>3
    <3>3. halt' \in [Runners -> {"none", "cancelled", "lost"}]
      BY <2>4 DEF UnmarkFails, AfterUnmark, Stop, TypeInv, TypeOK
    <3>4. found' \in [Runners -> [Rcpt -> Found]]
      <4>1. found' = found \/ \E v \in Found : found' = [found EXCEPT ![r][p] = v]
        BY <2>4, <2>0 DEF UnmarkFails, Record
      <4>2. CASE found' = found
        BY <2>0, <4>2
      <4>3. ASSUME NEW v \in Found, found' = [found EXCEPT ![r][p] = v]
            PROVE  found' \in [Runners -> [Rcpt -> Found]]
        BY <4>3, WriteFound
      <4> QED BY <4>1, <4>2, <4>3
    <3> QED BY <2>4, <3>1, <3>2, <3>3, <3>4
            DEF UnmarkFails, AfterUnmark, TypeInv, TypeOK, Scanning
  <2> QED BY <1>9, <2>1, <2>2, <2>3, <2>4 DEF SendFault
<1>10. CASE UNCHANGED vars
  BY <1>10 DEF vars, TypeInv, TypeOK, Scanning
<1> QED
  BY <1>1, <1>2, <1>3, <1>4, <1>5, <1>6, <1>7, <1>8, <1>9, <1>10 DEF Next

\* Type correctness: every record, marker, claim and task of the model is
\* one the code can hold, in every reachable state.
THEOREM TypeCorrect == Spec => []TypeOK
<1>1. Spec => []TypeInv
  BY InitType, NextType, PTL DEF Spec
<1> QED
  BY <1>1, PTL DEF TypeInv

-----------------------------------------------------------------------------
(* What a runner's compare-and-swap protects: a claim is taken over only   *)
(* once its lease has expired, and a settled job stays settled.  Both are  *)
(* about one step, but rest on an invariant of the steps before it: a      *)
(* runner whose read of a claimable job's record is still current may      *)
(* claim it, because nothing but the clock has touched it since.           *)

\* A current read of the record was, and still is, of a claimable job.
Current == \A r \in fresh : Claimable

\* Only a claimed job has a lease.
Leased == job.state # "claimed" => job.lease = NoLease

LeaseInv == TypeInv /\ Current /\ Leased

\* The steps that write the record: the application's, a claim, a renewal,
\* the end of a pass.
Writes ==
  \/ \E d \in 0..Delay : Schedule(d) \/ Rerun(d)
  \/ Cancel
  \/ \E r \in Runners : ClaimSwap(r)
  \/ \E r \in Runners : pc[r] = "send" /\ EndOf(r) /\ HaltOf(r) = "none"
  \/ \E r \in Runners : Hold(r) /\ fresh' = {}

\* The record is written by one of these, moved on by the clock, or left.
LEMMA WritersOnly ==
  ASSUME [Next]_vars
  PROVE  \/ Writes
         \/ Tick
         \/ UNCHANGED job /\ (fresh' \subseteq fresh \/ \E r \in Runners : ClaimRead(r))
<1> USE DEF pass
<1>1. ASSUME NEW r \in Runners, Hold(r)
      PROVE  Writes \/ UNCHANGED <<job, fresh>>
  BY <1>1 DEF Writes, Hold, WriteJob
<1>2. ASSUME NEW r \in Runners, Pass(r)
      PROVE  \/ Writes
             \/ UNCHANGED <<job, fresh>>
             \/ UNCHANGED job /\ ClaimRead(r)
  <2>1. CASE ClaimRead(r)
    BY <2>1 DEF ClaimRead
  <2>2. CASE ClaimSwap(r)
    BY <2>2 DEF Writes
  <2>3. CASE Keep(r)
    BY <1>1, <2>3 DEF Keep
  <2>4. CASE EndPass(r)
    <3>1. (pc[r] = "send" /\ EndOf(r) /\ HaltOf(r) = "none") \/ UNCHANGED <<job, fresh>>
      BY <2>4 DEF EndPass
    <3> QED BY <3>1 DEF Writes
  <2>5. CASE ClaimLost(r) \/ KeepHalted(r) \/ ReadMarker(r)
    BY <2>5 DEF ClaimLost, KeepHalted, ReadMarker
  <2> QED BY <1>2, <2>1, <2>2, <2>3, <2>4, <2>5 DEF Pass
<1>3. ASSUME NEW r \in Runners, NEW p \in Rcpt, Send(r, p) \/ SendFault(r, p)
      PROVE  Writes \/ UNCHANGED <<job, fresh>>
  <2>1. CASE Check(r, p)
    BY <1>1, <2>1 DEF Check
  <2>2. CASE ~Check(r, p)
    BY <1>3, <2>2 DEF Send, SendFault, MarkSending, CheckRun, Request, MarkOutcome,
       Unmark, AfterUnmark, Skip, MarkSendingFails, CheckRunFails, UnmarkFails
  <2> QED BY <2>1, <2>2
<1>4. ASSUME NEW r \in Runners, Abandon(r)
      PROVE  UNCHANGED job /\ fresh' \subseteq fresh
  BY <1>4 DEF Abandon
<1>5. ASSUME NEW p \in Rcpt, LimitMessage(p) \/ LimitExpires(p)
      PROVE  UNCHANGED <<job, fresh>>
  BY <1>5 DEF LimitMessage, LimitExpires
<1>6. CASE UNCHANGED vars
  BY <1>6 DEF vars
<1> QED
  BY <1>2, <1>3, <1>4, <1>5, <1>6 DEF Next, Writes

\* A step that writes the record leaves no current read, and a lease only on
\* a claimed job.
LEMMA WritesLease ==
  ASSUME TypeInv, Leased, Writes
  PROVE  fresh' = {} /\ Leased'
<1>1. job \in JobRecord
  BY DEF TypeInv, TypeOK
<1>2. ASSUME NEW d \in 0..Delay, Schedule(d) PROVE fresh' = {} /\ Leased'
  BY <1>1, <1>2 DEF Schedule, WriteJob, Leased, JobRecord
<1>3. ASSUME NEW d \in 0..Delay, Rerun(d) PROVE fresh' = {} /\ Leased'
  BY <1>1, <1>3 DEF Rerun, WriteJob, Leased, JobRecord
<1>4. CASE Cancel
  BY <1>1, <1>4 DEF Cancel, WriteJob, Leased, JobRecord
<1>5. ASSUME NEW r \in Runners, ClaimSwap(r) PROVE fresh' = {} /\ Leased'
  BY <1>1, <1>5 DEF ClaimSwap, WriteJob, Leased, JobRecord
<1>6. ASSUME NEW r \in Runners, EndOf(r) PROVE fresh' = {} /\ Leased'
  BY <1>1, <1>6 DEF EndOf, WriteJob, Leased, JobRecord
<1>7. ASSUME NEW r \in Runners, Hold(r), fresh' = {} PROVE fresh' = {} /\ Leased'
  <2>1. job.state = "claimed"
    BY <1>7 DEF Hold, HaltOf, HeldBy
  <2>2. job'.state = job.state
    BY <1>1, <1>7 DEF Hold, WriteJob, JobRecord
  <2> QED BY <1>7, <2>1, <2>2 DEF Leased
<1> QED
  BY <1>2, <1>3, <1>4, <1>5, <1>6, <1>7 DEF Writes

\* The clock moves on what is left, and nothing else of the record.
LEMMA TickLease ==
  ASSUME TypeInv, Leased, Tick
  PROVE  /\ job'.state = job.state /\ job'.run = job.run
         /\ job'.retries = job.retries /\ job'.claims = job.claims
         /\ job'.summary = job.summary /\ job'.taken = job.taken
         /\ job'.due = Down(job.due) /\ job'.lease.left = Down(job.lease.left)
         /\ job'.lease.claim = job.lease.claim
         /\ job.state # "claimed" => job'.lease = job.lease
<1>1. job \in JobRecord /\ job.lease \in LeaseRecord
  BY DEF TypeInv, TypeOK, JobRecord
<1>2. job' = [job EXCEPT !.due = Down(job.due), !.lease.left = Down(job.lease.left)]
  BY DEF Tick
<1>3. /\ job'.state = job.state /\ job'.run = job.run
      /\ job'.retries = job.retries /\ job'.claims = job.claims
      /\ job'.summary = job.summary /\ job'.taken = job.taken
      /\ job'.due = Down(job.due)
      /\ job'.lease = [job.lease EXCEPT !.left = Down(job.lease.left)]
  BY <1>1, <1>2 DEF JobRecord
<1>4. job'.lease.left = Down(job.lease.left) /\ job'.lease.claim = job.lease.claim
  BY <1>1, <1>3 DEF LeaseRecord
<1>5. ASSUME job.state # "claimed" PROVE job'.lease = job.lease
  <2>1. job.lease = NoLease
    BY <1>5 DEF Leased
  <2>2. [NoLease EXCEPT !.left = Down(NoLease.left)] = NoLease
    BY DEF NoLease, LeaseOf, Down
  <2> QED BY <1>3, <2>1, <2>2
<1> QED BY <1>3, <1>4, <1>5

\* The invariant is inductive.
LEMMA LeaseInductive ==
  /\ Init => LeaseInv
  /\ LeaseInv /\ [Next]_vars => LeaseInv'
<1>1. Init => LeaseInv
  BY InitType DEF LeaseInv, Init, Current, Leased
<1>2. ASSUME LeaseInv, [Next]_vars PROVE LeaseInv'
  <2>0. TypeInv /\ TypeInv' /\ Current /\ Leased
    BY <1>2, NextType DEF LeaseInv
  <2>1. CASE Writes
    BY <2>0, <2>1, WritesLease DEF LeaseInv, Current
  <2>2. CASE Tick
    <3>1. Leased'
      BY <2>0, <2>2, TickLease DEF Leased
    <3>2. Claimable => Claimable'
      BY <2>0, <2>2, TickLease DEF Claimable, Down
    <3>3. fresh' = fresh
      BY <2>2 DEF Tick
    <3> QED BY <2>0, <3>1, <3>2, <3>3 DEF LeaseInv, Current
  <2>3. CASE UNCHANGED job /\ (fresh' \subseteq fresh \/ \E r \in Runners : ClaimRead(r))
    <3>1. Claimable' = Claimable /\ Leased' = Leased
      BY <2>3 DEF Claimable, Leased
    <3>2. CASE fresh' \subseteq fresh
      BY <2>0, <3>1, <3>2 DEF LeaseInv, Current
    <3>3. CASE \E r \in Runners : ClaimRead(r)
      BY <2>0, <3>1, <3>3 DEF LeaseInv, Current, ClaimRead
    <3> QED BY <2>3, <3>2, <3>3
  <2> QED BY <1>2, <2>1, <2>2, <2>3, WritersOnly
<1> QED BY <1>1, <1>2

\* KvJobs::claim_one never takes a job from a runner whose lease still runs,
\* even when that runner renews it between the read and the swap.
THEOREM NoEarlyTakeover == Spec => TakeoverOnlyExpired
<1> DEFINE Taken == job.state = "claimed" /\ job'.state = "claimed"
                    /\ job'.lease.claim # job.lease.claim
<1>1. ASSUME LeaseInv, [Next]_vars, Taken PROVE job.lease.left = 0
  <2>0. TypeInv /\ Current /\ Leased /\ job \in JobRecord
    BY <1>1 DEF LeaseInv, TypeInv, TypeOK
  <2>1. CASE Writes
    <3>1. ASSUME NEW d \in 0..Delay, Schedule(d) \/ Rerun(d) PROVE FALSE
      BY <1>1, <3>1 DEF Schedule, Rerun, Settled
    <3>2. ASSUME Cancel PROVE FALSE
      BY <1>1, <2>0, <3>2 DEF Cancel, WriteJob, JobRecord
    <3>3. ASSUME NEW r \in Runners, EndOf(r) PROVE FALSE
      BY <1>1, <2>0, <3>3 DEF EndOf, WriteJob, JobRecord
    <3>4. ASSUME NEW r \in Runners, Hold(r) PROVE FALSE
      <4>1. job.lease \in LeaseRecord
        BY <2>0 DEF JobRecord
      <4>2. job' = job \/ job'.lease = [job.lease EXCEPT !.left = Lease]
        BY <2>0, <3>4 DEF Hold, WriteJob, JobRecord
      <4> QED BY <1>1, <4>1, <4>2 DEF LeaseRecord
    <3>5. ASSUME NEW r \in Runners, ClaimSwap(r) PROVE job.lease.left = 0
      BY <1>1, <2>0, <3>5 DEF ClaimSwap, Current, Claimable
    <3> QED BY <2>1, <3>1, <3>2, <3>3, <3>4, <3>5 DEF Writes
  <2>2. CASE Tick
    BY <1>1, <2>0, <2>2, TickLease
  <2>3. CASE UNCHANGED job
    BY <1>1, <2>3
  <2> QED BY <1>1, <2>1, <2>2, <2>3, WritersOnly
<1>2. LeaseInv /\ [Next]_vars => [Taken => job.lease.left = 0]_vars
  BY <1>1
<1> QED
  BY <1>2, LeaseInductive, PTL DEF Spec, TakeoverOnlyExpired

\* A settled job is changed by nobody but the clock, whatever passes still
\* run, until it is run again: cancel and settle win or lose whole.
THEOREM SettledStays == Spec => SettledIsFinal
<1> DEFINE Kept == \/ [job' EXCEPT !.due = job.due] = job
                   \/ job'.state = "pending" /\ job'.run = job.run + 1
<1>1. ASSUME LeaseInv, [Next]_vars, job.state \in Settled PROVE Kept
  <2>0. TypeInv /\ TypeInv' /\ Current /\ Leased /\ job \in JobRecord /\ job' \in JobRecord
    BY <1>1, NextType DEF LeaseInv, TypeInv, TypeOK
  <2>1. CASE Writes
    <3>1. ASSUME NEW d \in 0..Delay, Schedule(d) PROVE FALSE
      BY <1>1, <3>1 DEF Schedule, Settled
    <3>2. ASSUME NEW d \in 0..Delay, Rerun(d) PROVE Kept
      BY <2>0, <3>2 DEF Rerun, WriteJob, JobRecord
    <3>3. ASSUME Cancel PROVE FALSE
      BY <1>1, <3>3 DEF Cancel, Settled
    <3>4. ASSUME NEW r \in Runners, HaltOf(r) = "none" PROVE FALSE
      BY <1>1, <3>4 DEF HaltOf, HeldBy, Settled
    <3>5. ASSUME NEW r \in Runners, ClaimSwap(r) PROVE FALSE
      BY <1>1, <2>0, <3>5 DEF ClaimSwap, Current, Claimable, Settled
    <3> QED BY <2>1, <3>1, <3>2, <3>3, <3>4, <3>5 DEF Writes, Hold
  <2>2. CASE Tick
    <3>1. /\ job'.state = job.state /\ job'.run = job.run
          /\ job'.retries = job.retries /\ job'.claims = job.claims
          /\ job'.summary = job.summary /\ job'.lease = job.lease
          /\ job'.taken = job.taken
      BY <1>1, <2>0, <2>2, TickLease DEF Settled
    <3> QED BY <2>0, <3>1 DEF JobRecord
  <2>3. CASE UNCHANGED job
    BY <2>0, <2>3 DEF JobRecord
  <2> QED BY <1>1, <2>1, <2>2, <2>3, WritersOnly
<1>2. LeaseInv /\ [Next]_vars => [job.state \in Settled => Kept]_vars
  BY <1>1
<1> QED
  BY <1>2, LeaseInductive, PTL DEF Spec, SettledIsFinal
=============================================================================
