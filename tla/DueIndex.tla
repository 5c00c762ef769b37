------------------------------ MODULE DueIndex ------------------------------
(***************************************************************************)
(* The due index of meta-whatsapp-bot's KvJobs (jobs/store.rs): how a      *)
(* runner finds the jobs due over a KvStore without range scans.           *)
(*                                                                         *)
(* A job's id is written to the page of its due time's bucket; a cursor    *)
(* names the oldest bucket that may still hold a job to run.  Runners read *)
(* from the cursor up to now and move it past buckets whose every job is   *)
(* settled, while the application schedules and re-runs jobs and runners   *)
(* retry them, all without a lock.                                         *)
(*                                                                         *)
(* Each step is one store call; a loop of reads and compare-and-swaps is   *)
(* the step at which it takes effect.  A pass over a claimed job (JobRun)  *)
(* is its beginning and its end here.  A bucket has one page: the vector   *)
(* of its pages' versions is one number, 0 while it has none.              *)
(***************************************************************************)
EXTENDS Integers, FiniteSets

CONSTANTS
  Jobs,        \* job ids
  Writers,     \* calls of schedule and rerun (bound: each is made once)
  Runners,     \* runners
  NoRunner,    \* no runner holds the job
  Fleets,      \* the deployments considered: [runners, fails], the runners
               \* that run and a bound on how often one of them fails
  DueTimes,    \* the due times jobs are scheduled and re-run for
  BucketLen,   \* BUCKET_SECONDS, in units of the clock
  RetryDelay,  \* how far ahead a retry is due
  MaxMoves,    \* bound: re-runs and retries of a job
  MaxTime      \* bound: the clock's last value

ASSUME ProcsAssumption == NoRunner \notin Runners /\ Writers \cap Runners = {}
ASSUME JobsAssumption == Jobs # {}
ASSUME TimesAssumption ==
  /\ BucketLen \in Nat \ {0} /\ MaxTime \in Nat /\ MaxMoves \in Nat
  /\ RetryDelay \in Nat /\ DueTimes \subseteq 0..MaxTime
ASSUME FleetsAssumption ==
  Fleets \subseteq [runners : SUBSET Runners, fails : 0..Cardinality(Runners)]

VARIABLES
  fleet,    \* the deployment: the runners that run, the failures to come
  now,      \* the clock
  job,      \* job[j]: the job's record; "known" is history: this run of the
            \* job has been indexed, under this due time or an earlier one
  page,     \* page[b]: the page of bucket b, its version and its ids
  cursor,   \* the cursor record: its bucket and what is kept of the one behind
  idx,      \* idx[x]: where a writer's or a runner's KvJobs::index stands
  tick      \* tick[r]: where runner r's claim_due stands

vars == <<fleet, now, job, page, cursor, idx, tick>>

Procs == Writers \cup Runners
Bucket(t) == t \div BucketLen
Buckets == 0..Bucket(MaxTime)
Later(a, b) == IF a > b THEN a ELSE b

NotRead == -1   \* Cursor::behind absent
NoCursor == [bucket |-> -1, behind |-> NotRead]

NoIndex == [pc |-> "none", job |-> CHOOSE j \in Jobs : TRUE,
            due |-> 0, move |-> 0, bucket |-> 0]

NoTick == [pc |-> "idle", bucket |-> 0, behind |-> NotRead, last |-> 0,
           held |-> FALSE, seen |-> 0, todo |-> {}, settled |-> TRUE,
           job |-> CHOOSE j \in Jobs : TRUE]

Init ==
  /\ fleet \in Fleets
  /\ now = 0
  /\ job = [j \in Jobs |-> [state |-> "absent", due |-> 0, moves |-> 0,
                            indexed |-> FALSE, known |-> FALSE, by |-> NoRunner,
                            live |-> FALSE]]
  /\ page = [b \in Buckets |-> [version |-> 0, ids |-> {}]]
  /\ cursor = NoCursor
  /\ idx = [x \in Procs |-> NoIndex]
  /\ tick = [r \in Runners |-> NoTick]

Unsettled(j) == job[j].state \in {"pending", "claimed"}

Tick ==
  /\ now < MaxTime
  /\ now' = now + 1
  /\ UNCHANGED <<fleet, job, page, cursor, idx, tick>>

-----------------------------------------------------------------------------
(* KvJobs::index and mark_indexed, called by writers and by runners.       *)

Returned(x) == IF x \in Writers THEN [NoIndex EXCEPT !.pc = "done"] ELSE NoIndex
Indexing(j, due, move) ==
  [NoIndex EXCEPT !.pc = "bucket", !.job = j, !.due = due, !.move = move]

\* A due time already past is indexed under the current bucket.
IndexBucket(x) ==
  /\ idx[x].pc = "bucket"
  /\ idx' = [idx EXCEPT ![x] = [@ EXCEPT !.pc = "page",
                                !.bucket = Later(Bucket(idx[x].due), Bucket(now))]]
  /\ UNCHANGED <<fleet, now, job, page, cursor, tick>>

\* The page is written even when the id is there: its version is the signal.
IndexPage(x) ==
  /\ idx[x].pc = "page"
  /\ page' = [page EXCEPT ![idx[x].bucket] =
                [version |-> @.version + 1, ids |-> @.ids \cup {idx[x].job}]]
  /\ idx' = [idx EXCEPT ![x].pc = "lower"]
  /\ UNCHANGED <<fleet, now, job, cursor, tick>>

\* A write of the cursor record takes its version from whoever held it.
WriteCursor(bucket, behind) ==
  /\ cursor' = [bucket |-> bucket, behind |-> behind]
  /\ tick' = [r \in Runners |-> [tick[r] EXCEPT !.held = FALSE]]

\* KvJobs::lower_cursor, as a fact about the cursor.
PastCursor(b) == cursor # NoCursor /\ cursor.bucket <= b

IndexLower(x) ==
  /\ idx[x].pc = "lower"
  /\ IF PastCursor(idx[x].bucket) THEN UNCHANGED <<cursor, tick>>
                                  ELSE WriteCursor(idx[x].bucket, NotRead)
  /\ idx' = [idx EXCEPT ![x].pc = "mark"]
  /\ UNCHANGED <<fleet, now, job, page>>

\* KvJobs::mark_indexed: only while the job is still due then.  A unit of
\* the clock stands for many of the store's milliseconds: two moves of a job
\* have different due times there, which the move's number stands for.
MarkIndexed(x) ==
  LET j == idx[x].job
  IN  /\ idx[x].pc = "mark"
      /\ job' = IF Unsettled(j) /\ job[j].moves = idx[x].move
                  THEN [job EXCEPT ![j] = [@ EXCEPT !.indexed = TRUE, !.known = TRUE]]
                  ELSE job
      /\ idx' = [idx EXCEPT ![x] = Returned(x)]
      /\ UNCHANGED <<fleet, now, page, cursor, tick>>

-----------------------------------------------------------------------------
(* The application's calls.                                                *)

\* KvJobs::schedule of a new job; the record first, then the index.
Schedule(w, j, due) ==
  /\ idx[w].pc = "none"
  /\ job[j].state = "absent"
  /\ job' = [job EXCEPT ![j] = [@ EXCEPT !.state = "pending", !.due = due]]
  /\ idx' = [idx EXCEPT ![w] = Indexing(j, due, 0)]
  /\ UNCHANGED <<fleet, now, page, cursor, tick>>

\* KvJobs::rerun of a settled job.
Rerun(w, j, due) ==
  /\ idx[w].pc = "none"
  /\ job[j].state \in {"done", "cancelled"}
  /\ job[j].moves < MaxMoves
  /\ job' = [job EXCEPT ![j] = [@ EXCEPT !.state = "pending", !.due = due,
                 !.moves = job[j].moves + 1, !.known = FALSE, !.indexed = FALSE]]
  /\ idx' = [idx EXCEPT ![w] = Indexing(j, due, job[j].moves + 1)]
  /\ UNCHANGED <<fleet, now, page, cursor, tick>>

\* schedule or rerun called again after it failed half-way: indexed again.
CallAgain(w, j) ==
  /\ idx[w].pc = "none"
  /\ Unsettled(j) /\ ~job[j].indexed
  /\ idx' = [idx EXCEPT ![w] = Indexing(j, job[j].due, job[j].moves)]
  /\ UNCHANGED <<fleet, now, job, page, cursor, tick>>

\* The call fails, or its caller stops, between two store calls.
CallFails(w) ==
  /\ idx[w].pc \notin {"none", "done"}
  /\ idx' = [idx EXCEPT ![w] = Returned(w)]
  /\ UNCHANGED <<fleet, now, job, page, cursor, tick>>

\* KvJobs::cancel
Cancel(j) ==
  /\ Unsettled(j)
  /\ job' = [job EXCEPT ![j] = [@ EXCEPT !.state = "cancelled", !.by = NoRunner]]
  /\ UNCHANGED <<fleet, now, page, cursor, idx, tick>>

-----------------------------------------------------------------------------
(* KvJobs::claim_due: the start of a call.                                 *)

At(r, where) == r \in fleet.runners /\ tick[r].pc = where /\ idx[r].pc = "none"
Go(r, t) == tick' = [tick EXCEPT ![r] = t]

\* The scan of the buckets begins at the cursor as read, up to now's.
Scan(t) == [t EXCEPT !.pc = "read", !.last = Bucket(now), !.behind = NotRead]

Start(r) ==
  LET t == [NoTick EXCEPT !.bucket = cursor.bucket, !.behind = cursor.behind,
                          !.held = TRUE]
  IN  /\ At(r, "idle")
      /\ cursor # NoCursor
      /\ Go(r, IF cursor.behind = NotRead THEN Scan(t)
                                          ELSE [t EXCEPT !.pc = "second"])
      /\ UNCHANGED <<fleet, now, job, page, cursor, idx>>

\* The bucket behind the cursor is read again, in case the runner that
\* moved the cursor failed before its own second read.
SecondRead(r) ==
  /\ At(r, "second")
  /\ Go(r, IF page[tick[r].bucket - 1].version = tick[r].behind
             THEN Scan(tick[r])
             ELSE [tick[r] EXCEPT !.pc = "repair"])
  /\ UNCHANGED <<fleet, now, job, page, cursor, idx>>

\* lower_cursor to that bucket ...
Repair(r) ==
  LET b == tick[r].bucket - 1
  IN  /\ At(r, "repair")
      /\ IF PastCursor(b)
           THEN Go(r, [tick[r] EXCEPT !.pc = "reread"]) /\ UNCHANGED cursor
           ELSE /\ cursor' = [bucket |-> b, behind |-> NotRead]
                /\ tick' = [q \in Runners |-> [tick[q] EXCEPT !.held = FALSE,
                              !.pc = IF q = r THEN "reread" ELSE @]]
      /\ UNCHANGED <<fleet, now, job, page, idx>>

\* ... and the cursor read once more; what it keeps of the bucket behind it
\* this time is not looked at.
Reread(r) ==
  /\ At(r, "reread")
  /\ Go(r, Scan([tick[r] EXCEPT !.bucket = cursor.bucket, !.held = TRUE]))
  /\ UNCHANGED <<fleet, now, job, page, cursor, idx>>

-----------------------------------------------------------------------------
(* One bucket.                                                             *)

ReadBucket(r) ==
  LET b == tick[r].bucket
  IN  /\ At(r, "read")
      /\ b <= tick[r].last
      /\ Go(r, [tick[r] EXCEPT !.pc = "jobs", !.seen = page[b].version,
                               !.todo = page[b].ids, !.settled = TRUE])
      /\ UNCHANGED <<fleet, now, job, page, cursor, idx>>

\* Every bucket up to now is read: the call returns.
Return(r) ==
  /\ At(r, "read")
  /\ tick[r].bucket > tick[r].last
  /\ Go(r, NoTick)
  /\ UNCHANGED <<fleet, now, job, page, cursor, idx>>

\* The rest of the bucket, with "ok" whether job j is settled as far as this
\* bucket goes.
Met(r, j, ok) == [tick[r] EXCEPT !.todo = @ \ {j}, !.settled = @ /\ ok]

MovedLater(r, j) == Bucket(job[j].due) > tick[r].bucket
NotDue(j) == job[j].state = "pending" /\ job[j].due > now
Held(j) == job[j].state = "claimed" /\ job[j].live

\* Mutant of PassOver: a job moved to a later bucket is left to its move.
PassOverMoved(r, j) ==
  /\ At(r, "jobs")
  /\ j \in tick[r].todo
  /\ MovedLater(r, j) \/ ~Unsettled(j) \/ NotDue(j) \/ Held(j)
  /\ Go(r, Met(r, j, MovedLater(r, j) \/ ~Unsettled(j)))
  /\ UNCHANGED <<fleet, now, job, page, cursor, idx>>

\* KvJobs::claim_one for a job not to be claimed here.  One moved to a later
\* bucket whose move stopped before its index is indexed now.
PassOver(r, j) ==
  /\ At(r, "jobs")
  /\ j \in tick[r].todo
  /\ MovedLater(r, j) \/ ~Unsettled(j) \/ NotDue(j) \/ Held(j)
  /\ Go(r, Met(r, j, MovedLater(r, j) \/ ~Unsettled(j)))
  /\ idx' = IF MovedLater(r, j) /\ Unsettled(j) /\ ~job[j].indexed
              THEN [idx EXCEPT ![r] = Indexing(j, job[j].due, job[j].moves)] ELSE idx
  /\ UNCHANGED <<fleet, now, job, page, cursor>>

\* The claim's read and compare-and-swap; the job is handed to the handler.
\* (A swap that loses, JobRun's ClaimLost, leaves the job as one Held does.)
Claim(r, j) ==
  /\ At(r, "jobs")
  /\ j \in tick[r].todo
  /\ ~MovedLater(r, j) /\ Unsettled(j) /\ ~NotDue(j) /\ ~Held(j)
  /\ job' = [job EXCEPT ![j] = [@ EXCEPT !.state = "claimed", !.by = r, !.live = TRUE]]
  /\ Go(r, [tick[r] EXCEPT !.pc = "run", !.job = j])
  /\ UNCHANGED <<fleet, now, page, cursor, idx>>

\* The pass settles the job (done, or stopped).
Settle(r) ==
  LET j == tick[r].job
  IN  /\ At(r, "run")
      /\ job[j].by = r
      /\ job' = [job EXCEPT ![j] = [@ EXCEPT !.state = "done", !.by = NoRunner]]
      /\ Go(r, [Met(r, j, TRUE) EXCEPT !.pc = "jobs", !.job = NoTick.job])
      /\ UNCHANGED <<fleet, now, page, cursor, idx>>

\* KvJobs::retry: the record moves first, then the index.
Retry(r) ==
  LET j == tick[r].job
      due == now + RetryDelay
  IN  /\ At(r, "run")
      /\ job[j].by = r
      /\ job[j].moves < MaxMoves /\ due <= MaxTime
      /\ job' = [job EXCEPT ![j] = [@ EXCEPT !.state = "pending", !.by = NoRunner,
                     !.moves = job[j].moves + 1, !.due = due, !.indexed = FALSE]]
      /\ idx' = [idx EXCEPT ![r] = Indexing(j, due, job[j].moves + 1)]
      /\ Go(r, [Met(r, j, Bucket(due) # tick[r].bucket) EXCEPT !.pc = "jobs", !.job = NoTick.job])
      /\ UNCHANGED <<fleet, now, page, cursor>>

\* The job was cancelled while the pass ran (JobEnd::Cancelled), and perhaps
\* re-run since (JobEnd::LeaseLost): only the first is settled here.
Cancelled(r) ==
  LET j == tick[r].job
  IN  /\ At(r, "run")
      /\ job[j].by # r
      /\ Go(r, [Met(r, j, job[j].state = "cancelled") EXCEPT !.pc = "jobs", !.job = NoTick.job])
      /\ UNCHANGED <<fleet, now, job, page, cursor, idx>>

\* A claim whose runner no longer runs the job expires; one that runs it
\* renews its lease (JobRun has the takeover of one that stalls).
LeaseExpires(j) ==
  /\ Held(j)
  /\ \A r \in Runners : tick[r].pc = "run" => tick[r].job # j
  /\ job' = [job EXCEPT ![j].live = FALSE]
  /\ UNCHANGED <<fleet, now, page, cursor, idx, tick>>

-----------------------------------------------------------------------------
(* KvJobs::advance: past a bucket whose every job is settled.              *)

NextBucket(t) == [t EXCEPT !.bucket = @ + 1, !.pc = "read", !.seen = 0,
                           !.todo = {}, !.settled = TRUE]

BucketDone(r) == At(r, "jobs") /\ tick[r].todo = {}

\* Not settled, or the cursor was written meanwhile: it stays.
Stay(r) ==
  /\ BucketDone(r)
  /\ ~(tick[r].settled /\ tick[r].held)
  /\ Go(r, NextBucket([tick[r] EXCEPT !.held = FALSE]))
  /\ UNCHANGED <<fleet, now, job, page, cursor, idx>>

\* Mutant of Advance: past the next bucket as well.
AdvanceByTwo(r) ==
  /\ BucketDone(r)
  /\ tick[r].settled /\ tick[r].held
  /\ cursor' = [bucket |-> tick[r].bucket + 2, behind |-> tick[r].seen]
  /\ tick' = [q \in Runners |->
       IF q = r THEN [tick[r] EXCEPT !.pc = "again"]
                ELSE [tick[q] EXCEPT !.held = FALSE]]
  /\ UNCHANGED <<fleet, now, job, page, idx>>

\* The swap: the cursor keeps the pages' version as this runner read it.
Advance(r) ==
  /\ BucketDone(r)
  /\ tick[r].settled /\ tick[r].held
  /\ cursor' = [bucket |-> tick[r].bucket + 1, behind |-> tick[r].seen]
  /\ tick' = [q \in Runners |->
       IF q = r THEN [tick[r] EXCEPT !.pc = "again"]
                ELSE [tick[q] EXCEPT !.held = FALSE]]
  /\ UNCHANGED <<fleet, now, job, page, idx>>

\* Mutant of ReadAgain: no second read.
NoReadAgain(r) ==
  /\ At(r, "again")
  /\ Go(r, NextBucket(tick[r]))
  /\ UNCHANGED <<fleet, now, job, page, cursor, idx>>

\* The bucket is read again: a change since moves the cursor back.
ReadAgain(r) ==
  /\ At(r, "again")
  /\ Go(r, IF page[tick[r].bucket].version = tick[r].seen
             THEN NextBucket(tick[r]) ELSE [tick[r] EXCEPT !.pc = "back"])
  /\ UNCHANGED <<fleet, now, job, page, cursor, idx>>

MoveBack(r) ==
  LET b == tick[r].bucket
  IN  /\ At(r, "back")
      /\ cursor' = IF PastCursor(b) THEN cursor
                   ELSE [bucket |-> b, behind |-> NotRead]
      /\ tick' = [q \in Runners |->
           IF q = r THEN NextBucket([tick[r] EXCEPT !.held = FALSE])
           ELSE [tick[q] EXCEPT !.held = @ /\ PastCursor(b)]]
      /\ UNCHANGED <<fleet, now, job, page, idx>>

\* The runner's process stops, or a store error ends its tick.
RunnerFails(r) ==
  /\ fleet.fails > 0
  /\ fleet' = [fleet EXCEPT !.fails = @ - 1]
  /\ tick[r].pc # "idle"
  /\ Go(r, NoTick)
  /\ idx' = [idx EXCEPT ![r] = NoIndex]
  /\ UNCHANGED <<now, job, page, cursor>>

-----------------------------------------------------------------------------
Index(x) == IndexBucket(x) \/ IndexPage(x) \/ IndexLower(x) \/ MarkIndexed(x)

Runner(r) ==
  \/ Start(r) \/ SecondRead(r) \/ Repair(r) \/ Reread(r) \/ ReadBucket(r) \/ Return(r)
  \/ \E j \in Jobs : PassOver(r, j) \/ Claim(r, j)
  \/ Settle(r) \/ Retry(r) \/ Cancelled(r)
  \/ Stay(r) \/ Advance(r) \/ ReadAgain(r) \/ MoveBack(r)

Call(w, j) == \/ \E due \in DueTimes : Schedule(w, j, due) \/ Rerun(w, j, due)
              \/ CallAgain(w, j)

Next == \/ Tick
        \/ \E w \in Writers, j \in Jobs : Call(w, j)
        \/ \E w \in Writers : CallFails(w)
        \/ \E j \in Jobs : Cancel(j) \/ LeaseExpires(j)
        \/ \E x \in Procs : Index(x)
        \/ \E r \in Runners : Runner(r) \/ RunnerFails(r)

Spec == Init /\ [][Next]_vars

\* Time goes on, the fleet's runners keep ticking and their store calls
\* return, a lease nobody renews expires.  Nothing is asked of a writer: a
\* call of the application may stop for good anywhere.
Fairness == /\ WF_vars(Tick)
            /\ \A r \in Runners : WF_vars(Runner(r)) /\ WF_vars(Index(r))
            /\ \A j \in Jobs : WF_vars(LeaseExpires(j))

FairSpec == Spec /\ Fairness

-----------------------------------------------------------------------------
(* Properties.                                                             *)

JobRecord ==
  [state : {"absent", "pending", "claimed", "done", "cancelled"},
   due : 0..MaxTime, moves : 0..MaxMoves, indexed : BOOLEAN, known : BOOLEAN,
   live : BOOLEAN, by : Runners \cup {NoRunner}]
PageRecord == [version : Nat, ids : SUBSET Jobs]
IndexState ==
  [pc : {"none", "bucket", "page", "lower", "mark", "done"},
   job : Jobs, due : 0..MaxTime, move : 0..MaxMoves, bucket : Buckets]
TickState ==
  [pc : {"idle", "second", "repair", "reread", "read", "jobs", "run", "again", "back"},
   bucket : 0..(Bucket(MaxTime) + 1), behind : Nat \cup {NotRead}, last : Buckets,
   held : BOOLEAN, seen : Nat, todo : SUBSET Jobs, settled : BOOLEAN, job : Jobs]

\* Every variable has its type; a cursor is never moved past the bucket
\* after now's, nor a scan past the one after the last it may read.
TypeOK ==
  /\ fleet \in [runners : SUBSET Runners, fails : Nat]
  /\ now \in 0..MaxTime
  /\ job \in [Jobs -> JobRecord]
  /\ page \in [Buckets -> PageRecord]
  /\ cursor \in [bucket : -1..(Bucket(now) + 1) \cup Buckets,
                 behind : Nat \cup {NotRead}]
  /\ idx \in [Procs -> IndexState]
  /\ tick \in [Runners -> TickState]

\* This run of j was indexed once and is not settled: from here on the
\* runners alone are to find it, whatever its due time becomes.
Accepted(j) == Unsettled(j) /\ job[j].known

\* The cursor stands past bucket b, and someone is to move it back: the next
\* runner to read the cursor, because the bucket behind it changed since it
\* was read, or one that has yet to finish its own index or second read.
Repairing(b) ==
  \/ cursor.bucket = b + 1 /\ cursor.behind \notin {NotRead, page[b].version}
  \/ \E x \in Procs : idx[x].pc = "lower" /\ idx[x].bucket <= b
  \/ \E r \in Runners : \/ tick[r].pc = "again" /\ tick[r].bucket = b
                                            /\ tick[r].seen # page[b].version
                        \/ tick[r].pc = "back" /\ tick[r].bucket <= b
                        \/ tick[r].pc = "repair" /\ tick[r].bucket - 1 <= b

\* Runners move the cursor past a bucket while jobs are written to it, and
\* fail between the move and the second read ("a runner failing between the
\* two loses no job", jobs/mod.rs): an accepted job is always on a page that
\* the cursor has not passed, or that it will be moved back to.
JobReachable ==
  \A j \in Jobs : Accepted(j) =>
    \E b \in Buckets : j \in page[b].ids /\ (PastCursor(b) \/ Repairing(b))

\* An accepted job is run (or cancelled) in the end, however its schedules,
\* re-runs, retries, claims and the runners' moves of the cursor interleave.
NoJobLost == \A j \in Jobs : Accepted(j) ~> ~Unsettled(j)
=============================================================================
