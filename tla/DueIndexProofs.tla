--------------------------- MODULE DueIndexProofs ---------------------------
(***************************************************************************)
(* Theorems about DueIndex, for every number of jobs, calls and runners,   *)
(* every bucket length and due time: the types, and that the cursor loses  *)
(* no accepted job in a fleet whose runners do not fail, however many they *)
(* are, nor in one of a single runner, however often it fails.             *)
(*                                                                         *)
(* JobReachable is not inductive.  What a runner on its way to moving the  *)
(* cursor has seen of a page matters before the move, and some of what     *)
(* Repairing counts on may be undone (a call may stop before it lowers the *)
(* cursor).  The invariant names for every accepted job one page that is   *)
(* safe, its home, and who may leave it behind.                            *)
(***************************************************************************)
EXTENDS DueIndex, TLAPS

Reading == {"jobs", "run"}
Scanning == {"read"} \cup Reading
Moving == {"again", "back"}
Checking == {"second", "repair"}

\* A call of KvJobs::index is under way.
Calling(x) == idx[x].pc \notin {"none", "done"}

-----------------------------------------------------------------------------
(* Positions.                                                              *)

\* A tick reads no bucket past the current one; only the fleet ticks.
Ticks ==
  \A r \in Runners :
    /\ tick[r].pc # "idle" => tick[r].last <= Bucket(now)
    /\ tick[r].pc \in Reading \cup Moving => tick[r].bucket <= tick[r].last
    /\ r \notin fleet.runners => tick[r].pc = "idle"

\* There is a cursor once a tick has begun, and what it keeps is of a bucket.
Cursors ==
  /\ cursor # NoCursor => cursor.bucket >= 0
  /\ cursor.behind # NotRead => cursor.bucket >= 1
  /\ \A r \in Runners :
       /\ tick[r].pc # "idle" => cursor # NoCursor
       /\ tick[r].pc \in Checking => tick[r].bucket >= 1 /\ tick[r].behind # NotRead

TypeInv == TypeOK /\ Ticks /\ Cursors

-----------------------------------------------------------------------------
(* What was read of the cursor and of the pages.                           *)

\* Versions grow: what the cursor keeps of a page is not newer than the page.
CursorOld ==
  cursor.behind # NotRead => cursor.behind <= page[cursor.bucket - 1].version

\* A runner that holds the cursor's version knows what the cursor is.
HeldAt(r) ==
  tick[r].held =>
    /\ tick[r].pc \notin {"idle", "reread"}
    /\ tick[r].pc \in Checking =>
         cursor.bucket = tick[r].bucket /\ cursor.behind = tick[r].behind
    /\ tick[r].pc \in Scanning => cursor.bucket = tick[r].bucket
    /\ tick[r].pc \in Moving =>
         cursor.bucket = tick[r].bucket + 1 /\ cursor.behind = tick[r].seen

\* What a runner read of a page is not newer than the page.
SeenAt(r) ==
  tick[r].pc \in Reading \cup Moving =>
    tick[r].seen <= page[tick[r].bucket].version

\* A single runner alone moves the cursor on: when it lost the cursor's
\* version in the middle of a check, a call has lowered the cursor.
Single == \A q, r \in fleet.runners : q = r
Outrun(r) == \/ tick[r].pc \in Checking \cup Moving /\ ~tick[r].held
             \/ tick[r].pc = "reread"
AloneAt(r) == Single /\ Outrun(r) => cursor.behind = NotRead

\* The jobs a runner is to look at are on the page; the one it runs is one
\* of them, and is its own only while it is due in the bucket.
FoundAt(r) ==
  /\ tick[r].pc \in Reading => tick[r].todo \subseteq page[tick[r].bucket].ids
  /\ tick[r].pc = "run" =>
       /\ tick[r].job \in tick[r].todo
       /\ job[tick[r].job].by = r => Bucket(job[tick[r].job].due) <= tick[r].bucket

ReaderAt(r) == HeldAt(r) /\ SeenAt(r) /\ AloneAt(r) /\ FoundAt(r)

Owned ==
  \A j \in Jobs : /\ job[j].by # NoRunner => job[j].state = "claimed"
                  /\ job[j].state = "absent" => ~job[j].known

\* A call indexes the job's last move, at its due time, or an older one.
CallAt(x) ==
  Calling(x) =>
    /\ job[idx[x].job].state # "absent"
    /\ idx[x].move <= job[idx[x].job].moves
    /\ idx[x].move = job[idx[x].job].moves => idx[x].due = job[idx[x].job].due
    /\ idx[x].pc # "bucket" => Bucket(idx[x].due) <= idx[x].bucket
    /\ idx[x].pc \in {"lower", "mark"} => idx[x].job \in page[idx[x].bucket].ids

\* The deployments in which the cursor loses no job.
Sound == fleet.fails = 0 \/ Single

Mid == /\ CursorOld /\ Owned /\ Sound
       /\ \A r \in Runners : ReaderAt(r)
       /\ \A x \in Procs : CallAt(x)

-----------------------------------------------------------------------------
(* Homes.                                                                  *)

\* Runner q may move the cursor past bucket b and not notice: it has read the
\* page as it is now and found nothing unsettled so far.
Sweeping(q, b) ==
  /\ tick[q].pc \in Reading /\ tick[q].bucket = b
  /\ tick[q].settled /\ tick[q].held /\ tick[q].seen = page[b].version

\* Runner q is indexing job j, in its last move, in a later bucket than b.
Carrying(q, j, b) ==
  /\ Calling(q) /\ idx[q].job = j /\ idx[q].move = job[j].moves
  /\ Bucket(idx[q].due) > b

\* A runner about to pass b has job j still to look at, or carries it on.
Unmissed(j, b) ==
  \A q \in Runners : Sweeping(q, b) => j \in tick[q].todo \/ Carrying(q, j, b)

\* A runner that moved the cursor past b reads b again and will see a change.
MovesBack(r, b) ==
  \/ tick[r].pc = "again" /\ tick[r].bucket = b /\ tick[r].seen # page[b].version
  \/ tick[r].pc = "back" /\ tick[r].bucket <= b

\* The change is kept in the cursor, and no scan from the cursor has begun.
Noted(b) ==
  /\ cursor.bucket = b + 1 /\ cursor.behind \notin {NotRead, page[b].version}
  /\ \A r \in Runners : tick[r].held => tick[r].pc \notin Scanning

\* The cursor has not passed b, or whoever will move it back cannot fail to.
Kept(b) ==
  \/ PastCursor(b)
  \/ fleet.fails = 0 /\ \E r \in Runners : MovesBack(r, b)
  \/ Single /\ Noted(b)

\* Whoever reads page b does not leave job j behind.
Settled(j, b) == job[j].indexed => Bucket(job[j].due) <= b
Safe(j, b) == j \in page[b].ids /\ Unmissed(j, b) /\ Settled(j, b)

\* An accepted job has a home: a page that is read and where it is not missed.
Home(j, b) == Safe(j, b) /\ Kept(b)
HomeOf(j) == Accepted(j) => \E b \in Buckets : Home(j, b)

\* A call of the job's last move has made its page a home by the time it
\* marks the job as indexed.
Current(x) ==
  /\ idx[x].pc \in {"lower", "mark"}
  /\ Unsettled(idx[x].job) /\ idx[x].move = job[idx[x].job].moves
NewHomeAt(x) ==
  Current(x) => /\ Safe(idx[x].job, idx[x].bucket)
                /\ idx[x].pc = "mark" => Kept(idx[x].bucket)

IInv == /\ TypeInv /\ Mid
        /\ \A j \in Jobs : HomeOf(j)
        /\ \A x \in Procs : NewHomeAt(x)

-----------------------------------------------------------------------------
(* Buckets.                                                                *)

LEMMA BucketType ==
  ASSUME NEW t \in Nat
  PROVE  Bucket(t) \in Nat
BY TimesAssumption DEF Bucket

\* A later time is in no earlier bucket.
LEMMA BucketGrows ==
  ASSUME NEW s \in Nat, NEW t \in Nat, s <= t
  PROVE  Bucket(s) <= Bucket(t)
BY TimesAssumption DEF Bucket

LEMMA BucketFacts ==
  /\ Bucket(MaxTime) \in Nat /\ Buckets = 0..Bucket(MaxTime) /\ 0 \in Buckets
  /\ \A t \in 0..MaxTime : t \in Nat /\ Bucket(t) \in Buckets /\ Bucket(t) \in Nat
  /\ \A b \in Buckets : b \in Nat
<1>1. Bucket(MaxTime) \in Nat /\ MaxTime \in Nat
  BY TimesAssumption, BucketType
<1>2. ASSUME NEW t \in 0..MaxTime
      PROVE  t \in Nat /\ Bucket(t) \in Nat /\ Bucket(t) <= Bucket(MaxTime)
  <2>1. t \in Nat /\ t <= MaxTime
    BY <1>1
  <2> QED
    BY <1>1, <2>1, BucketType, BucketGrows
<1> QED
  BY <1>1, <1>2 DEF Buckets

-----------------------------------------------------------------------------
(* The records a step writes.                                              *)

LEMMA SomeJob == (CHOOSE j \in Jobs : TRUE) \in Jobs
BY JobsAssumption

LEMMA NoTickFacts ==
  /\ NoTick \in TickState /\ NoTick.pc = "idle" /\ NoTick.held = FALSE
  /\ NoTick.bucket = 0 /\ NoTick.behind = NotRead /\ NoTick.last = 0
  /\ NoTick.seen = 0 /\ NoTick.todo = {} /\ NoTick.settled = TRUE
  /\ NoTick.job \in Jobs
BY SomeJob, BucketFacts DEF NoTick, TickState, NotRead

LEMMA NoIndexFacts ==
  /\ NoIndex \in IndexState /\ NoIndex.pc = "none"
  /\ \A x : Returned(x) \in IndexState /\ Returned(x).pc \in {"none", "done"}
  /\ \A x \in Runners : Returned(x) = NoIndex
<1>1. NoIndex \in IndexState /\ NoIndex.pc = "none"
  BY SomeJob, BucketFacts, TimesAssumption DEF NoIndex, IndexState
<1>2. \A x : Returned(x) \in IndexState /\ Returned(x).pc \in {"none", "done"}
  BY <1>1 DEF Returned, IndexState
<1>3. \A x \in Runners : Returned(x) = NoIndex
  BY ProcsAssumption DEF Returned
<1> QED
  BY <1>1, <1>2, <1>3

LEMMA IndexingFacts ==
  ASSUME NEW j \in Jobs, NEW due \in 0..MaxTime, NEW move \in 0..MaxMoves
  PROVE  /\ Indexing(j, due, move) \in IndexState
         /\ Indexing(j, due, move).pc = "bucket" /\ Indexing(j, due, move).job = j
         /\ Indexing(j, due, move).due = due /\ Indexing(j, due, move).move = move
BY NoIndexFacts DEF Indexing, IndexState

LEMMA ScanFacts ==
  ASSUME TypeOK, NEW t \in TickState
  PROVE  /\ Scan(t) \in TickState /\ Scan(t).pc = "read" /\ Scan(t).last = Bucket(now)
         /\ Scan(t).behind = NotRead /\ Scan(t).bucket = t.bucket
         /\ Scan(t).held = t.held /\ Scan(t).todo = t.todo /\ Scan(t).seen = t.seen
BY BucketFacts DEF Scan, TickState, TypeOK, NotRead

LEMMA NextBucketFacts ==
  ASSUME NEW t \in TickState, t.bucket <= Bucket(MaxTime)
  PROVE  /\ NextBucket(t) \in TickState /\ NextBucket(t).pc = "read"
         /\ NextBucket(t).bucket = t.bucket + 1 /\ NextBucket(t).last = t.last
         /\ NextBucket(t).held = t.held /\ NextBucket(t).todo = {}
         /\ NextBucket(t).seen = 0 /\ NextBucket(t).settled = TRUE
<1>1. PICK n \in 0..(Bucket(MaxTime) + 1) : n = t.bucket + 1
  BY BucketFacts DEF TickState
<1>2. PICK u : u = [t EXCEPT !.bucket = n, !.pc = "read", !.seen = 0, !.todo = {},
                             !.settled = TRUE]
  OBVIOUS
<1>3. u \in TickState /\ u.pc = "read" /\ u.bucket = n /\ u.last = t.last
      /\ u.held = t.held /\ u.todo = {} /\ u.seen = 0 /\ u.settled = TRUE
  BY <1>2 DEF TickState
<1>4. NextBucket(t) = u
  BY <1>1, <1>2 DEF NextBucket
<1> QED
  BY <1>1, <1>3, <1>4

LEMMA MetFacts ==
  ASSUME TypeOK, NEW r \in Runners, NEW j \in Jobs, NEW ok \in BOOLEAN
  PROVE  LET m == Met(r, j, ok)
         IN  /\ m \in TickState /\ m.pc = tick[r].pc /\ m.bucket = tick[r].bucket
             /\ m.behind = tick[r].behind /\ m.last = tick[r].last
             /\ m.held = tick[r].held /\ m.seen = tick[r].seen
             /\ m.todo = tick[r].todo \ {j} /\ m.settled = (tick[r].settled /\ ok)
             /\ m.job = tick[r].job
BY ZenonT(60) DEF Met, TickState, TypeOK

-----------------------------------------------------------------------------
(* Types.                                                                  *)

LEMMA TypeFacts ==
  ASSUME TypeOK
  PROVE  /\ now \in 0..MaxTime /\ now \in Nat /\ Bucket(now) \in Buckets /\ Bucket(now) \in Nat
         /\ \A j \in Jobs : /\ job[j] \in JobRecord /\ job[j].due \in 0..MaxTime
                            /\ job[j].moves \in 0..MaxMoves
                            /\ job[j].indexed \in BOOLEAN /\ job[j].known \in BOOLEAN
         /\ \A b \in Buckets : /\ page[b] \in PageRecord /\ page[b].version \in Nat
                               /\ page[b].ids \in SUBSET Jobs
         /\ cursor.bucket \in Int /\ cursor.bucket <= Bucket(MaxTime) + 1
         /\ cursor.bucket >= -1
         /\ cursor.behind \in Nat \cup {NotRead}
         /\ cursor = [bucket |-> cursor.bucket, behind |-> cursor.behind]
         /\ \A x \in Procs : /\ idx[x] \in IndexState /\ idx[x].job \in Jobs
                             /\ idx[x].due \in 0..MaxTime /\ idx[x].move \in 0..MaxMoves
                             /\ idx[x].bucket \in Buckets
         /\ \A r \in Runners : r \in Procs
<1>1. now \in 0..MaxTime /\ now \in Nat /\ Bucket(now) \in Buckets /\ Bucket(now) \in Nat
  BY BucketFacts DEF TypeOK
<1>2. \A j \in Jobs : /\ job[j] \in JobRecord /\ job[j].due \in 0..MaxTime
                      /\ job[j].moves \in 0..MaxMoves
                      /\ job[j].indexed \in BOOLEAN /\ job[j].known \in BOOLEAN
  BY DEF TypeOK, JobRecord
<1>3. \A b \in Buckets : /\ page[b] \in PageRecord /\ page[b].version \in Nat
                         /\ page[b].ids \in SUBSET Jobs
  BY DEF TypeOK, PageRecord
<1>4. /\ cursor.bucket \in -1..(Bucket(now) + 1) \cup Buckets
      /\ cursor.behind \in Nat \cup {NotRead}
      /\ cursor = [bucket |-> cursor.bucket, behind |-> cursor.behind]
  BY DEF TypeOK
<1>5. /\ cursor.bucket \in Int /\ cursor.bucket <= Bucket(MaxTime) + 1
      /\ cursor.bucket >= -1
  BY <1>4, <1>1, BucketFacts
<1>6. \A x \in Procs : /\ idx[x] \in IndexState /\ idx[x].job \in Jobs
                       /\ idx[x].due \in 0..MaxTime /\ idx[x].move \in 0..MaxMoves
                       /\ idx[x].bucket \in Buckets
  BY DEF TypeOK, IndexState
<1>7. \A r \in Runners : r \in Procs
  BY DEF Procs
<1> QED
  BY <1>1, <1>2, <1>3, <1>4, <1>5, <1>6, <1>7

LEMMA TickFacts ==
  ASSUME TypeOK
  PROVE  \A r \in Runners :
           /\ tick[r] \in TickState /\ tick[r].bucket \in Nat /\ tick[r].last \in Buckets
           /\ tick[r].bucket <= Bucket(MaxTime) + 1
           /\ tick[r].behind \in Nat \cup {NotRead} /\ tick[r].held \in BOOLEAN
           /\ tick[r].seen \in Nat /\ tick[r].todo \in SUBSET Jobs
           /\ tick[r].settled \in BOOLEAN /\ tick[r].job \in Jobs
           /\ tick[r].last <= Bucket(MaxTime) /\ tick[r].last \in Nat
<1>1. \A r \in Runners : tick[r] \in TickState
  BY DEF TypeOK
<1> QED
  BY <1>1, BucketFacts DEF TickState

LEMMA InitType == Init => TypeInv
<1> SUFFICES ASSUME Init PROVE TypeInv
  OBVIOUS
<1>1. fleet \in [runners : SUBSET Runners, fails : Nat]
  BY FleetsAssumption DEF Init
<1>2. now \in 0..MaxTime /\ Bucket(now) \in Nat
  BY TimesAssumption, BucketFacts DEF Init
<1>3. job \in [Jobs -> JobRecord]
  BY TimesAssumption DEF Init, JobRecord
<1>4. page \in [Buckets -> PageRecord]
  BY DEF Init, PageRecord
<1>5. cursor \in [bucket : -1..(Bucket(now) + 1) \cup Buckets, behind : Nat \cup {NotRead}]
  BY <1>2 DEF Init, NoCursor
<1>6. idx \in [Procs -> IndexState] /\ tick \in [Runners -> TickState]
  BY NoIndexFacts, NoTickFacts DEF Init
<1>7. Ticks /\ Cursors
  BY NoTickFacts DEF Init, Ticks, Cursors, Reading, Moving, Checking, NoCursor, NotRead
<1> QED
  BY <1>1, <1>2, <1>3, <1>4, <1>5, <1>6, <1>7 DEF TypeInv, TypeOK

\* Where a runner's tick may stand.
Standing(r, t) ==
  /\ t \in TickState /\ r \in fleet.runners
  /\ t.pc # "idle" => t.last <= Bucket(now) /\ cursor # NoCursor
  /\ t.pc \in Reading \cup Moving => t.bucket <= t.last
  /\ t.pc \in Checking => t.bucket >= 1 /\ t.behind # NotRead

\* A step of runner r that leaves the cursor and the pages.
LEMMA GoType ==
  ASSUME TypeInv, NEW r \in Runners, NEW t, Go(r, t), Standing(r, t),
         UNCHANGED <<fleet, now, page, cursor>>,
         job' \in [Jobs -> JobRecord], idx' \in [Procs -> IndexState]
  PROVE  TypeInv'
<1>1. tick' = [tick EXCEPT ![r] = t] /\ tick \in [Runners -> TickState]
  BY DEF Go, TypeInv, TypeOK
<1>2. TypeOK'
  BY <1>1 DEF TypeInv, TypeOK, Standing
<1>3. tick'[r] = t /\ \A q \in Runners : q # r => tick'[q] = tick[q]
  BY <1>1
<1>4. Ticks'
  BY <1>3 DEF TypeInv, Ticks, Standing
<1>5. Cursors'
  BY <1>3 DEF TypeInv, Cursors, Standing
<1> QED
  BY <1>2, <1>4, <1>5 DEF TypeInv

\* A step that leaves the runners' ticks and the cursor.
LEMMA OtherType ==
  ASSUME TypeInv, UNCHANGED <<fleet, tick, cursor, now>>,
         job' \in [Jobs -> JobRecord], idx' \in [Procs -> IndexState],
         page' \in [Buckets -> PageRecord]
  PROVE  TypeInv'
<1>1. TypeOK'
  BY DEF TypeInv, TypeOK
<1>2. Ticks' /\ Cursors'
  BY DEF TypeInv, Ticks, Cursors
<1> QED
  BY <1>1, <1>2 DEF TypeInv

LEMMA TickType ==
  ASSUME TypeInv, Tick
  PROVE  TypeInv'
<1>1. now' \in 0..MaxTime /\ now \in Nat /\ now' \in Nat /\ now <= now'
  BY TimesAssumption DEF TypeInv, TypeOK, Tick
<1>2. Bucket(now) <= Bucket(now') /\ Bucket(now) \in Nat /\ Bucket(now') \in Nat
  BY <1>1, BucketGrows, BucketType
<1>3. cursor' \in [bucket : -1..(Bucket(now') + 1) \cup Buckets, behind : Nat \cup {NotRead}]
  BY <1>2 DEF TypeInv, TypeOK, Tick
<1>4. TypeOK'
  BY <1>1, <1>3 DEF TypeInv, TypeOK, Tick
<1>5. \A r \in Runners : tick[r].last \in Nat
  BY TickFacts DEF TypeInv
<1>6. Ticks' /\ Cursors'
  BY <1>2, <1>5 DEF TypeInv, Ticks, Cursors, Tick, Bucket
<1> QED
  BY <1>4, <1>6 DEF TypeInv

LEMMA IndexType ==
  ASSUME TypeInv, NEW x \in Procs, IndexBucket(x) \/ IndexPage(x) \/ MarkIndexed(x)
  PROVE  TypeInv'
<1>1. TypeOK
  BY DEF TypeInv
<1>2. CASE IndexBucket(x)
  <2>1. Later(Bucket(idx[x].due), Bucket(now)) \in Buckets
    BY <1>1, TypeFacts, BucketFacts DEF Later
  <2>2. PICK i : /\ i = [idx[x] EXCEPT !.pc = "page",
                                        !.bucket = Later(Bucket(idx[x].due), Bucket(now))]
                 /\ idx' = [idx EXCEPT ![x] = i]
    BY <1>2 DEF IndexBucket
  <2>3. i \in IndexState
    BY <2>1, <2>2, <1>1, TypeFacts DEF IndexState
  <2>4. idx' \in [Procs -> IndexState]
    BY <1>1, <2>2, <2>3 DEF TypeOK
  <2> QED
    BY <1>1, <1>2, <2>4, OtherType DEF IndexBucket, TypeOK
<1>3. CASE IndexPage(x)
  <2>1. idx' \in [Procs -> IndexState]
    BY <1>1, <1>3 DEF IndexPage, IndexState, TypeOK
  <2>2. PICK p : /\ p = [version |-> page[idx[x].bucket].version + 1,
                         ids |-> page[idx[x].bucket].ids \cup {idx[x].job}]
                 /\ page' = [page EXCEPT ![idx[x].bucket] = p]
    BY <1>3 DEF IndexPage
  <2>3. p \in PageRecord
    BY <2>2, <1>1, TypeFacts DEF PageRecord
  <2>4. page' \in [Buckets -> PageRecord]
    BY <2>2, <2>3, <1>1 DEF TypeOK
  <2> QED
    BY <1>1, <1>3, <2>1, <2>4, OtherType DEF IndexPage, TypeOK
<1>4. CASE MarkIndexed(x)
  <2>1. idx' \in [Procs -> IndexState]
    BY <1>1, <1>4, NoIndexFacts DEF MarkIndexed, TypeOK
  <2>2. job' \in [Jobs -> JobRecord]
    <3>1. PICK d : d = [job[idx[x].job] EXCEPT !.indexed = TRUE, !.known = TRUE]
      OBVIOUS
    <3>2. job' = job \/ job' = [job EXCEPT ![idx[x].job] = d]
      BY <3>1, <1>4 DEF MarkIndexed
    <3>3. d \in JobRecord
      <4>1. job[idx[x].job] \in JobRecord
        BY <1>1, TypeFacts
      <4> QED
        BY <3>1, <4>1 DEF JobRecord
    <3> QED
      BY <3>2, <3>3, <1>1 DEF TypeOK
  <2> QED
    BY <1>1, <1>4, <2>1, <2>2, OtherType DEF MarkIndexed, TypeOK
<1> QED
  BY <1>2, <1>3, <1>4

LEMMA CallType ==
  ASSUME TypeInv, NEW w \in Writers, NEW j \in Jobs, Call(w, j)
  PROVE  TypeInv'
<1>1. TypeOK /\ w \in Procs
  BY DEF TypeInv, Procs
<1>2. UNCHANGED <<fleet, now, page, cursor, tick>>
  BY DEF Call, Schedule, Rerun, CallAgain
<1>3. PICK due \in 0..MaxTime : Schedule(w, j, due) \/ Rerun(w, j, due) \/ CallAgain(w, j)
  BY TimesAssumption DEF Call
<1>4. job[j] \in JobRecord /\ job[j].due \in 0..MaxTime /\ job[j].moves \in 0..MaxMoves
  BY <1>1, TypeFacts
<1>5. CASE Schedule(w, j, due)
  <2>1. Indexing(j, due, 0) \in IndexState
    BY TimesAssumption, IndexingFacts
  <2>2. PICK d : /\ d = [job[j] EXCEPT !.state = "pending", !.due = due]
                 /\ job' = [job EXCEPT ![j] = d]
    BY <1>5 DEF Schedule
  <2>3. d \in JobRecord
    BY <2>2, <1>4 DEF JobRecord
  <2>4. idx' \in [Procs -> IndexState] /\ job' \in [Jobs -> JobRecord]
    BY <1>1, <1>5, <2>1, <2>2, <2>3 DEF Schedule, TypeOK
  <2> QED
    BY <1>1, <1>2, <2>4, OtherType DEF TypeOK
<1>6. CASE Rerun(w, j, due)
  <2>1. PICK n \in 0..MaxMoves : n = job[j].moves + 1
    BY <1>4, <1>6, TimesAssumption DEF Rerun
  <2>2. Indexing(j, due, n) \in IndexState
    BY IndexingFacts
  <2>3. idx' \in [Procs -> IndexState]
    BY <1>1, <1>6, <2>1, <2>2 DEF Rerun, TypeOK
  <2>4. PICK d : /\ d = [job[j] EXCEPT !.state = "pending", !.due = due,
                                       !.moves = job[j].moves + 1,
                                       !.known = FALSE, !.indexed = FALSE]
                 /\ job' = [job EXCEPT ![j] = d]
    BY <1>6 DEF Rerun
  <2>5. d \in JobRecord
    BY <1>4, <2>1, <2>4 DEF JobRecord
  <2>6. job' \in [Jobs -> JobRecord]
    BY <1>1, <2>4, <2>5 DEF TypeOK
  <2> QED
    BY <1>1, <1>2, <2>3, <2>6, OtherType DEF TypeOK
<1>7. CASE CallAgain(w, j)
  <2>1. Indexing(j, job[j].due, job[j].moves) \in IndexState
    BY <1>4, IndexingFacts
  <2>2. idx' \in [Procs -> IndexState] /\ job' = job
    BY <1>1, <1>7, <2>1 DEF CallAgain, TypeOK
  <2> QED
    BY <1>1, <1>2, <2>2, OtherType DEF TypeOK
<1> QED
  BY <1>3, <1>5, <1>6, <1>7

LEMMA ApplicationType ==
  ASSUME TypeInv, \/ \E w \in Writers : CallFails(w)
                  \/ \E j \in Jobs : Cancel(j) \/ LeaseExpires(j)
  PROVE  TypeInv'
<1>1. TypeOK
  BY DEF TypeInv
<1>2. CASE \E w \in Writers : CallFails(w)
  <2>1. idx' \in [Procs -> IndexState]
    BY <1>1, <1>2, NoIndexFacts DEF CallFails, TypeOK, Procs
  <2> QED
    BY <1>1, <1>2, <2>1, OtherType DEF CallFails, TypeOK
<1>3. CASE \E j \in Jobs : Cancel(j) \/ LeaseExpires(j)
  <2>1. PICK j \in Jobs : Cancel(j) \/ LeaseExpires(j)
    BY <1>3
  <2>2. PICK d : /\ \/ d = [job[j] EXCEPT !.state = "cancelled", !.by = NoRunner]
                    \/ d = [job[j] EXCEPT !.live = FALSE]
                 /\ job' = [job EXCEPT ![j] = d]
    BY <2>1 DEF Cancel, LeaseExpires
  <2>3. d \in JobRecord
    BY <2>2, <1>1, TypeFacts DEF JobRecord
  <2>4. job' \in [Jobs -> JobRecord]
    BY <2>2, <2>3, <1>1 DEF TypeOK
  <2> QED
    BY <1>1, <2>1, <2>4, OtherType DEF Cancel, LeaseExpires, TypeOK
<1> QED
  BY <1>2, <1>3

-----------------------------------------------------------------------------
(* What each step of a runner makes of its tick.                           *)

\* Ticks that differ in whether the cursor's version is held.
SameButHeld(t, u) ==
  /\ u.pc = t.pc /\ u.bucket = t.bucket /\ u.behind = t.behind /\ u.last = t.last
  /\ u.seen = t.seen /\ u.todo = t.todo /\ u.settled = t.settled /\ u.job = t.job

LEMMA HeldFacts ==
  ASSUME NEW t \in TickState, NEW h \in BOOLEAN
  PROVE  /\ [t EXCEPT !.held = h] \in TickState /\ [t EXCEPT !.held = h].held = h
         /\ SameButHeld(t, [t EXCEPT !.held = h])
BY DEF TickState, SameButHeld

LEMMA StartFacts ==
  ASSUME TypeInv, NEW r \in Runners, Start(r)
  PROVE  \E t : /\ Go(r, t) /\ Standing(r, t)
                /\ t.bucket = cursor.bucket /\ t.held = TRUE
                /\ \/ cursor.behind = NotRead /\ t.pc = "read"
                   \/ /\ cursor.behind # NotRead /\ t.pc = "second"
                      /\ t.behind = cursor.behind
<1>1. TypeOK /\ r \in fleet.runners /\ cursor # NoCursor
  BY DEF TypeInv, Start, At
<1>2. cursor.bucket \in 0..(Bucket(MaxTime) + 1) /\ cursor.behind \in Nat \cup {NotRead}
  BY <1>1, TypeFacts, BucketFacts DEF TypeInv, Cursors
<1>3. PICK t : t = [NoTick EXCEPT !.bucket = cursor.bucket, !.behind = cursor.behind,
                                  !.held = TRUE]
  OBVIOUS
<1>4. t \in TickState /\ t.bucket = cursor.bucket /\ t.behind = cursor.behind /\ t.held = TRUE
      /\ t.last = 0
  BY <1>2, <1>3, NoTickFacts DEF TickState
<1>5. Go(r, IF cursor.behind = NotRead THEN Scan(t) ELSE [t EXCEPT !.pc = "second"])
  BY <1>3 DEF Start
<1>6. CASE cursor.behind = NotRead
  <2>1. Go(r, Scan(t)) /\ Standing(r, Scan(t))
    BY <1>1, <1>4, <1>5, <1>6, ScanFacts, TypeFacts DEF Standing, Reading, Moving, Checking
  <2> QED
    BY <2>1, <1>1, <1>4, <1>6, ScanFacts
<1>7. CASE cursor.behind # NotRead
  <2>1. PICK u : u = [t EXCEPT !.pc = "second"]
    OBVIOUS
  <2>2. /\ u \in TickState /\ u.pc = "second" /\ u.bucket = cursor.bucket
        /\ u.behind = cursor.behind /\ u.held = TRUE /\ u.last = 0
    BY <2>1, <1>4 DEF TickState
  <2>3. cursor.bucket >= 1
    BY <1>7 DEF TypeInv, Cursors
  <2>4. Standing(r, u)
    BY <1>1, <1>7, <2>2, <2>3, TypeFacts DEF Standing, Reading, Moving, Checking
  <2>5. Go(r, u)
    BY <1>5, <1>7, <2>1
  <2> QED
    BY <2>2, <2>4, <2>5, <1>7
<1> QED
  BY <1>6, <1>7

LEMMA SecondReadFacts ==
  ASSUME TypeInv, NEW r \in Runners, SecondRead(r)
  PROVE  \E t : /\ Go(r, t) /\ Standing(r, t)
                /\ t.bucket = tick[r].bucket /\ t.held = tick[r].held
                /\ \/ t.pc = "read" /\ page[tick[r].bucket - 1].version = tick[r].behind
                   \/ t.pc = "repair" /\ t.behind = tick[r].behind
<1>1. TypeOK /\ r \in fleet.runners /\ tick[r].pc = "second" /\ tick[r] \in TickState
  BY TickFacts DEF TypeInv, SecondRead, At
<1>2. /\ cursor # NoCursor /\ tick[r].last <= Bucket(now)
      /\ tick[r].bucket >= 1 /\ tick[r].behind # NotRead
  BY <1>1 DEF TypeInv, Ticks, Cursors, Checking
<1>3. CASE page[tick[r].bucket - 1].version = tick[r].behind
  <2>1. Go(r, Scan(tick[r]))
    BY <1>3 DEF SecondRead
  <2>2. Standing(r, Scan(tick[r]))
    BY <1>1, <1>2, ScanFacts, TypeFacts DEF Standing, Reading, Moving, Checking
  <2> QED
    BY <1>1, <1>3, <2>1, <2>2, ScanFacts
<1>4. CASE page[tick[r].bucket - 1].version # tick[r].behind
  <2>1. PICK t : t = [tick[r] EXCEPT !.pc = "repair"]
    OBVIOUS
  <2>2. /\ t \in TickState /\ t.pc = "repair" /\ t.bucket = tick[r].bucket
        /\ t.behind = tick[r].behind /\ t.last = tick[r].last /\ t.held = tick[r].held
    BY <2>1, <1>1 DEF TickState
  <2>3. Go(r, t)
    BY <1>4, <2>1 DEF SecondRead
  <2>4. Standing(r, t)
    BY <1>1, <1>2, <2>2 DEF Standing, Reading, Moving, Checking
  <2> QED
    BY <2>2, <2>3, <2>4
<1> QED
  BY <1>3, <1>4

LEMMA RereadFacts ==
  ASSUME TypeInv, NEW r \in Runners, Reread(r)
  PROVE  \E t : /\ Go(r, t) /\ Standing(r, t)
                /\ t.bucket = cursor.bucket /\ t.held = TRUE /\ t.pc = "read"
<1>1. TypeOK /\ r \in fleet.runners /\ tick[r].pc = "reread" /\ tick[r] \in TickState
  BY TickFacts DEF TypeInv, Reread, At
<1>2. cursor # NoCursor /\ cursor.bucket \in 0..(Bucket(MaxTime) + 1)
  BY <1>1, TypeFacts, BucketFacts DEF TypeInv, Cursors
<1>3. PICK t : t = [tick[r] EXCEPT !.bucket = cursor.bucket, !.held = TRUE]
  OBVIOUS
<1>4. t \in TickState /\ t.bucket = cursor.bucket /\ t.held = TRUE
  BY <1>1, <1>2, <1>3 DEF TickState
<1>5. Go(r, Scan(t))
  BY <1>3 DEF Reread
<1>6. Standing(r, Scan(t))
  BY <1>1, <1>2, <1>4, ScanFacts, TypeFacts DEF Standing, Reading, Moving, Checking
<1> QED
  BY <1>1, <1>4, <1>5, <1>6, ScanFacts

LEMMA ReadBucketFacts ==
  ASSUME TypeInv, NEW r \in Runners, ReadBucket(r)
  PROVE  \E t : /\ Go(r, t) /\ Standing(r, t)
                /\ t.bucket = tick[r].bucket /\ t.held = tick[r].held /\ t.pc = "jobs"
                /\ t.seen = page[t.bucket].version /\ t.todo = page[t.bucket].ids
                /\ t.settled = TRUE /\ t.bucket \in Buckets
<1>1. TypeOK /\ r \in fleet.runners /\ tick[r].pc = "read" /\ tick[r] \in TickState
      /\ tick[r].bucket <= tick[r].last
  BY TickFacts DEF TypeInv, ReadBucket, At
<1>2. cursor # NoCursor /\ tick[r].last <= Bucket(now)
  BY <1>1 DEF TypeInv, Cursors, Ticks
<1>3. tick[r].bucket \in Buckets
  BY <1>1, TickFacts, BucketFacts
<1>4. page[tick[r].bucket].version \in Nat /\ page[tick[r].bucket].ids \in SUBSET Jobs
  BY <1>1, <1>3, TypeFacts
<1>5. PICK t : /\ t = [tick[r] EXCEPT !.pc = "jobs", !.seen = page[tick[r].bucket].version,
                         !.todo = page[tick[r].bucket].ids, !.settled = TRUE]
               /\ Go(r, t)
  BY DEF ReadBucket
<1>6. /\ t \in TickState /\ t.pc = "jobs" /\ t.bucket = tick[r].bucket
      /\ t.held = tick[r].held /\ t.last = tick[r].last /\ t.settled = TRUE
      /\ t.seen = page[tick[r].bucket].version /\ t.todo = page[tick[r].bucket].ids
  BY <1>1, <1>4, <1>5 DEF TickState
<1>7. Standing(r, t)
  BY <1>1, <1>2, <1>6 DEF Standing, Reading, Moving, Checking
<1> QED
  BY <1>3, <1>5, <1>6, <1>7, ZenonT(60)

\* Still in its bucket, with what it read of the page and of the cursor.
SameBucket(t, u) ==
  u.bucket = t.bucket /\ u.held = t.held /\ u.seen = t.seen /\ u.last = t.last

\* The runner's tick past job j: claim_one did not claim it, or its pass ended.
PastJob(r, j, ok, t) ==
  \/ t = Met(r, j, ok) /\ tick[r].pc = "jobs"
  \/ t = [Met(r, j, ok) EXCEPT !.pc = "jobs", !.job = NoTick.job]

LEMMA PastJobFacts ==
  ASSUME TypeInv, NEW r \in Runners, NEW j \in Jobs, NEW ok \in BOOLEAN,
         r \in fleet.runners, tick[r].pc \in Reading,
         NEW t, PastJob(r, j, ok, t)
  PROVE  /\ Standing(r, t) /\ t.pc = "jobs" /\ SameBucket(tick[r], t)
         /\ t.todo = tick[r].todo \ {j} /\ t.settled = (tick[r].settled /\ ok)
<1>1. TypeOK
  BY DEF TypeInv
<1>2. PICK m : m = Met(r, j, ok)
  OBVIOUS
<1>3. /\ m \in TickState /\ m.pc = tick[r].pc /\ SameBucket(tick[r], m)
      /\ m.todo = tick[r].todo \ {j} /\ m.settled = (tick[r].settled /\ ok)
  BY <1>1, <1>2, MetFacts DEF SameBucket
<1>4. /\ t \in TickState /\ t.pc = "jobs" /\ SameBucket(tick[r], t)
      /\ t.todo = tick[r].todo \ {j} /\ t.settled = (tick[r].settled /\ ok)
  <2>1. CASE t = m /\ tick[r].pc = "jobs"
    BY <1>3, <2>1
  <2>2. CASE t = [m EXCEPT !.pc = "jobs", !.job = NoTick.job]
    BY <1>3, <2>2, NoTickFacts DEF TickState, SameBucket
  <2> QED
    BY <1>2, <2>1, <2>2 DEF PastJob
<1>5. /\ cursor # NoCursor /\ tick[r].last <= Bucket(now) /\ tick[r].bucket <= tick[r].last
  BY DEF TypeInv, Cursors, Ticks, Reading
<1>6. Standing(r, t)
  BY <1>4, <1>5 DEF Standing, SameBucket, Reading, Moving, Checking
<1> QED
  BY <1>4, <1>6

LEMMA PassOverFacts ==
  ASSUME TypeInv, NEW r \in Runners, NEW j \in Jobs, PassOver(r, j)
  PROVE  /\ tick[r].pc = "jobs" /\ idx[r].pc = "none" /\ j \in tick[r].todo
         /\ idx' \in [Procs -> IndexState]
         /\ \E t : /\ Go(r, t) /\ Standing(r, t) /\ t.pc = "jobs" /\ SameBucket(tick[r], t)
                   /\ t.todo = tick[r].todo \ {j}
                   /\ t.settled = (tick[r].settled /\ (MovedLater(r, j) \/ ~Unsettled(j)))
<1>1. tick[r].pc = "jobs" /\ idx[r].pc = "none" /\ j \in tick[r].todo /\ r \in fleet.runners
  BY DEF PassOver, At
<1>2. TypeOK
  BY DEF TypeInv
<1>3. Indexing(j, job[j].due, job[j].moves) \in IndexState
  BY <1>2, TypeFacts, IndexingFacts
<1>4. idx' = idx \/ idx' = [idx EXCEPT ![r] = Indexing(j, job[j].due, job[j].moves)]
  BY DEF PassOver
<1>5. idx' \in [Procs -> IndexState]
  BY <1>2, <1>3, <1>4 DEF TypeOK
<1>6. PICK ok \in BOOLEAN : ok = (MovedLater(r, j) \/ ~Unsettled(j))
  OBVIOUS
<1>7. PICK t : PastJob(r, j, ok, t) /\ Go(r, t)
  BY <1>1, <1>6 DEF PassOver, PastJob
<1>8. /\ Standing(r, t) /\ t.pc = "jobs" /\ SameBucket(tick[r], t)
      /\ t.todo = tick[r].todo \ {j} /\ t.settled = (tick[r].settled /\ ok)
  <2>1. tick[r].pc \in Reading
    BY <1>1 DEF Reading
  <2> QED
    BY <1>1, <1>7, <2>1, PastJobFacts
<1> QED
  BY <1>1, <1>5, <1>6, <1>7, <1>8

\* The claim, and the job's record under it.
LEMMA ClaimFacts ==
  ASSUME TypeInv, NEW r \in Runners, NEW j \in Jobs, Claim(r, j)
  PROVE  /\ tick[r].pc = "jobs" /\ j \in tick[r].todo
         /\ \E d \in JobRecord :
              /\ job' = [job EXCEPT ![j] = d] /\ d.state = "claimed" /\ d.by = r
              /\ d.due = job[j].due /\ d.moves = job[j].moves
              /\ d.indexed = job[j].indexed /\ d.known = job[j].known
         /\ \E t : /\ Go(r, t) /\ Standing(r, t) /\ t.pc = "run" /\ SameBucket(tick[r], t)
                   /\ t.todo = tick[r].todo /\ t.settled = tick[r].settled /\ t.job = j
<1>1. /\ tick[r].pc = "jobs" /\ j \in tick[r].todo /\ r \in fleet.runners
      /\ tick[r] \in TickState /\ job[j] \in JobRecord
  BY TickFacts, TypeFacts DEF Claim, At, TypeInv
<1>2. PICK d : /\ d = [job[j] EXCEPT !.state = "claimed", !.by = r, !.live = TRUE]
               /\ job' = [job EXCEPT ![j] = d]
  BY DEF Claim
<1>3. /\ d \in JobRecord /\ d.state = "claimed" /\ d.by = r /\ d.due = job[j].due
      /\ d.moves = job[j].moves /\ d.indexed = job[j].indexed /\ d.known = job[j].known
  BY <1>1, <1>2 DEF JobRecord
<1>4. PICK t : t = [tick[r] EXCEPT !.pc = "run", !.job = j] /\ Go(r, t)
  BY DEF Claim
<1>5. /\ t \in TickState /\ t.pc = "run" /\ SameBucket(tick[r], t)
      /\ t.todo = tick[r].todo /\ t.settled = tick[r].settled /\ t.job = j
  BY <1>1, <1>4 DEF TickState, SameBucket
<1>6. /\ cursor # NoCursor /\ tick[r].last <= Bucket(now) /\ tick[r].bucket <= tick[r].last
  BY <1>1 DEF TypeInv, Cursors, Ticks, Reading
<1>7. Standing(r, t)
  BY <1>1, <1>5, <1>6 DEF Standing, SameBucket, Reading, Moving, Checking
<1> QED
  BY <1>1, <1>2, <1>3, <1>4, <1>5, <1>7

LEMMA SettleFacts ==
  ASSUME TypeInv, NEW r \in Runners, Settle(r)
  PROVE  /\ tick[r].pc = "run" /\ tick[r].job \in Jobs
         /\ \E d \in JobRecord :
              /\ job' = [job EXCEPT ![tick[r].job] = d] /\ d.state = "done"
              /\ d.by = NoRunner /\ d.due = job[tick[r].job].due
              /\ d.moves = job[tick[r].job].moves
         /\ \E t : /\ Go(r, t) /\ Standing(r, t) /\ t.pc = "jobs" /\ SameBucket(tick[r], t)
                   /\ t.todo = tick[r].todo \ {tick[r].job} /\ t.settled = tick[r].settled
<1> DEFINE j == tick[r].job
<1>1. /\ tick[r].pc = "run" /\ r \in fleet.runners /\ j \in Jobs /\ job[j] \in JobRecord
      /\ tick[r].settled \in BOOLEAN
  BY TickFacts, TypeFacts DEF Settle, At, TypeInv
<1>2. PICK d : /\ d = [job[j] EXCEPT !.state = "done", !.by = NoRunner]
               /\ job' = [job EXCEPT ![j] = d]
  BY DEF Settle
<1>3. /\ d \in JobRecord /\ d.state = "done" /\ d.by = NoRunner
      /\ d.due = job[j].due /\ d.moves = job[j].moves
  BY <1>1, <1>2 DEF JobRecord
<1>4. PICK ok \in BOOLEAN : ok = TRUE
  OBVIOUS
<1>5. PICK t : PastJob(r, j, ok, t) /\ Go(r, t)
  BY <1>4 DEF Settle, PastJob
<1>6. /\ Standing(r, t) /\ t.pc = "jobs" /\ SameBucket(tick[r], t)
      /\ t.todo = tick[r].todo \ {j} /\ t.settled = (tick[r].settled /\ ok)
  <2>1. tick[r].pc \in Reading
    BY <1>1 DEF Reading
  <2> QED
    BY <1>1, <1>5, <2>1, PastJobFacts
<1>7. t.settled = tick[r].settled
  BY <1>4, <1>1, <1>6
<1> QED
  BY <1>1, <1>2, <1>3, <1>5, <1>6, <1>7

LEMMA CancelledFacts ==
  ASSUME TypeInv, NEW r \in Runners, Cancelled(r)
  PROVE  /\ tick[r].pc = "run" /\ tick[r].job \in Jobs
         /\ \E t : /\ Go(r, t) /\ Standing(r, t) /\ t.pc = "jobs" /\ SameBucket(tick[r], t)
                   /\ t.todo = tick[r].todo \ {tick[r].job}
                   /\ t.settled = (tick[r].settled /\ job[tick[r].job].state = "cancelled")
<1> DEFINE j == tick[r].job
<1>1. tick[r].pc = "run" /\ r \in fleet.runners /\ j \in Jobs
  BY TickFacts DEF Cancelled, At, TypeInv
<1>2. PICK ok \in BOOLEAN : ok = (job[j].state = "cancelled")
  OBVIOUS
<1>3. PICK t : PastJob(r, j, ok, t) /\ Go(r, t)
  BY <1>2 DEF Cancelled, PastJob
<1>4. /\ Standing(r, t) /\ t.pc = "jobs" /\ SameBucket(tick[r], t)
      /\ t.todo = tick[r].todo \ {j} /\ t.settled = (tick[r].settled /\ ok)
  <2>1. tick[r].pc \in Reading
    BY <1>1 DEF Reading
  <2> QED
    BY <1>1, <1>3, <2>1, PastJobFacts
<1>5. t.settled = (tick[r].settled /\ job[j].state = "cancelled")
  BY <1>2, <1>4, Zenon
<1> QED
  BY <1>1, <1>3, <1>4, <1>5, Zenon

\* What a retry writes: the job's record d, the call i of index, and the tick.
Retried(r, due, n, d, i) ==
  /\ now <= due /\ n = job[tick[r].job].moves + 1
  /\ job' = [job EXCEPT ![tick[r].job] = d]
  /\ d.state = "pending" /\ d.by = NoRunner /\ d.due = due /\ d.moves = n
  /\ d.indexed = FALSE /\ d.known = job[tick[r].job].known
  /\ idx' = [idx EXCEPT ![r] = i]
  /\ i.pc = "bucket" /\ i.job = tick[r].job /\ i.due = due /\ i.move = n
  /\ \E t : /\ Go(r, t) /\ Standing(r, t) /\ t.pc = "jobs" /\ SameBucket(tick[r], t)
            /\ t.todo = tick[r].todo \ {tick[r].job}
            /\ t.settled = (tick[r].settled /\ Bucket(due) # tick[r].bucket)

LEMMA RetryFacts ==
  ASSUME TypeInv, NEW r \in Runners, Retry(r)
  PROVE  /\ tick[r].pc = "run" /\ idx[r].pc = "none" /\ tick[r].job \in Jobs
         /\ job[tick[r].job].by = r
         /\ \E due \in 0..MaxTime, n \in 0..MaxMoves, d \in JobRecord, i \in IndexState :
              Retried(r, due, n, d, i)
<1> DEFINE j == tick[r].job
<1>1. /\ tick[r].pc = "run" /\ idx[r].pc = "none" /\ r \in fleet.runners /\ j \in Jobs
      /\ job[j] \in JobRecord /\ job[j].moves \in 0..MaxMoves /\ now \in Nat
      /\ job[j].by = r /\ job[j].moves < MaxMoves /\ now + RetryDelay <= MaxTime
  BY TickFacts, TypeFacts DEF Retry, At, TypeInv
<1>2. PICK due \in 0..MaxTime : due = now + RetryDelay
  BY <1>1, TimesAssumption
<1>3. PICK n \in 0..MaxMoves : n = job[j].moves + 1
  BY <1>1, TimesAssumption
<1>4. now <= due
  BY <1>1, <1>2, TimesAssumption
<1>5. PICK d : /\ d = [job[j] EXCEPT !.state = "pending", !.by = NoRunner, !.moves = n,
                                     !.due = due, !.indexed = FALSE]
               /\ job' = [job EXCEPT ![j] = d]
  BY <1>2, <1>3 DEF Retry
<1>6. /\ d \in JobRecord /\ d.state = "pending" /\ d.by = NoRunner /\ d.due = due
      /\ d.moves = n /\ d.indexed = FALSE /\ d.known = job[j].known
  BY <1>1, <1>5 DEF JobRecord
<1>7. PICK i : i = Indexing(j, due, n) /\ idx' = [idx EXCEPT ![r] = i]
  BY <1>2, <1>3 DEF Retry
<1>8. i \in IndexState /\ i.pc = "bucket" /\ i.job = j /\ i.due = due /\ i.move = n
  BY <1>1, <1>7, IndexingFacts
<1>9. PICK ok \in BOOLEAN : ok = (Bucket(due) # tick[r].bucket)
  OBVIOUS
<1>10. PICK t : PastJob(r, j, ok, t) /\ Go(r, t)
  BY <1>2, <1>9 DEF Retry, PastJob
<1>11. /\ Standing(r, t) /\ t.pc = "jobs" /\ SameBucket(tick[r], t)
       /\ t.todo = tick[r].todo \ {j} /\ t.settled = (tick[r].settled /\ ok)
  <2>1. tick[r].pc \in Reading
    BY <1>1 DEF Reading
  <2> QED
    BY <1>1, <1>10, <2>1, PastJobFacts
<1>12. t.settled = (tick[r].settled /\ Bucket(due) # tick[r].bucket)
  BY <1>9, <1>11, Zenon
<1>13. \E u : /\ Go(r, u) /\ Standing(r, u) /\ u.pc = "jobs" /\ SameBucket(tick[r], u)
              /\ u.todo = tick[r].todo \ {tick[r].job}
              /\ u.settled = (tick[r].settled /\ Bucket(due) # tick[r].bucket)
  BY <1>10, <1>11, <1>12, Zenon
<1>14. Retried(r, due, n, d, i)
  BY <1>3, <1>4, <1>5, <1>6, <1>7, <1>8, <1>13, Zenon DEF Retried
<1> QED
  BY <1>1, <1>6, <1>8, <1>14

\* A runner with its bucket over, or past it.
LEMMA BucketOverFacts ==
  ASSUME TypeInv, NEW r \in Runners, r \in fleet.runners, tick[r].pc \in Reading \cup Moving,
         NEW h \in BOOLEAN, NEW t, t = NextBucket([tick[r] EXCEPT !.held = h])
  PROVE  /\ Standing(r, t) /\ t.pc = "read" /\ t.bucket = tick[r].bucket + 1 /\ t.held = h
<1>1. PICK u : u = [tick[r] EXCEPT !.held = h]
  OBVIOUS
<1>2. u \in TickState /\ u.held = h /\ SameButHeld(tick[r], u)
  BY <1>1, TickFacts, HeldFacts DEF TypeInv
<1>3. /\ cursor # NoCursor /\ tick[r].last <= Bucket(now) /\ tick[r].bucket <= tick[r].last
  BY DEF TypeInv, Cursors, Ticks, Reading, Moving
<1>4. u.bucket <= Bucket(MaxTime)
  BY <1>2, <1>3, TickFacts, BucketFacts DEF SameButHeld, TypeInv
<1>5. /\ t \in TickState /\ t.pc = "read" /\ t.bucket = u.bucket + 1 /\ t.last = u.last
      /\ t.held = u.held
  BY <1>1, <1>2, <1>4, NextBucketFacts
<1>6. Standing(r, t)
  BY <1>2, <1>3, <1>5 DEF Standing, SameButHeld, Reading, Moving, Checking
<1> QED
  BY <1>2, <1>5, <1>6 DEF SameButHeld

LEMMA StayFacts ==
  ASSUME TypeInv, NEW r \in Runners, Stay(r)
  PROVE  \E t : /\ Go(r, t) /\ Standing(r, t)
                /\ t.pc = "read" /\ t.held = FALSE
<1>1. r \in fleet.runners /\ tick[r].pc \in Reading \cup Moving
  BY DEF Stay, BucketDone, At, Reading
<1>2. PICK t : t = NextBucket([tick[r] EXCEPT !.held = FALSE]) /\ Go(r, t)
  BY DEF Stay
<1> QED
  BY <1>1, <1>2, BucketOverFacts

LEMMA ReadAgainFacts ==
  ASSUME TypeInv, NEW r \in Runners, ReadAgain(r)
  PROVE  \E t : /\ Go(r, t) /\ Standing(r, t) /\ t.held = tick[r].held
                /\ \/ /\ page[tick[r].bucket].version = tick[r].seen
                      /\ t.pc = "read" /\ t.bucket = tick[r].bucket + 1
                   \/ t.pc = "back" /\ t.bucket = tick[r].bucket /\ t.seen = tick[r].seen
<1>1. /\ r \in fleet.runners /\ tick[r].pc = "again" /\ tick[r] \in TickState
      /\ tick[r].held \in BOOLEAN
  BY TickFacts DEF ReadAgain, At, TypeInv
<1>2. CASE page[tick[r].bucket].version = tick[r].seen
  <2>1. Go(r, NextBucket(tick[r]))
    BY <1>2 DEF ReadAgain
  <2>2. tick[r] = [tick[r] EXCEPT !.held = tick[r].held]
    BY <1>1 DEF TickState
  <2>3. PICK t : t = NextBucket([tick[r] EXCEPT !.held = tick[r].held]) /\ Go(r, t)
    BY <2>1, <2>2
  <2>4. tick[r].pc \in Reading \cup Moving
    BY <1>1 DEF Moving
  <2>5. PICK h \in BOOLEAN : h = tick[r].held
    BY <1>1
  <2>6. t = NextBucket([tick[r] EXCEPT !.held = h])
    BY <2>3, <2>5
  <2>7. Standing(r, t) /\ t.pc = "read" /\ t.bucket = tick[r].bucket + 1 /\ t.held = h
    BY <1>1, <2>4, <2>6, BucketOverFacts
  <2> QED
    BY <1>2, <2>3, <2>5, <2>7
<1>3. CASE page[tick[r].bucket].version # tick[r].seen
  <2>1. PICK t : t = [tick[r] EXCEPT !.pc = "back"] /\ Go(r, t)
    BY <1>3 DEF ReadAgain
  <2>2. /\ t \in TickState /\ t.pc = "back" /\ t.bucket = tick[r].bucket
        /\ t.seen = tick[r].seen /\ t.held = tick[r].held /\ t.last = tick[r].last
    BY <1>1, <2>1 DEF TickState
  <2>3. /\ cursor # NoCursor /\ tick[r].last <= Bucket(now) /\ tick[r].bucket <= tick[r].last
    BY <1>1 DEF TypeInv, Cursors, Ticks, Moving
  <2>4. Standing(r, t)
    BY <1>1, <2>2, <2>3 DEF Standing, Reading, Moving, Checking
  <2> QED
    BY <2>1, <2>2, <2>4
<1> QED
  BY <1>2, <1>3

LEMMA ReturnFacts ==
  ASSUME TypeInv, NEW r \in Runners, Return(r)
  PROVE  Go(r, NoTick) /\ Standing(r, NoTick)
BY NoTickFacts DEF Return, At, Standing, Reading, Moving, Checking

-----------------------------------------------------------------------------
(* Writes of the cursor.                                                   *)

\* The cursor is lowered to bucket b (lower_cursor): every version read of
\* it is out of date.  Runner r, if there is one, goes on with its tick.
Lowered(b, r) ==
  /\ ~PastCursor(b)
  /\ cursor' = [bucket |-> b, behind |-> NotRead]
  /\ tick' \in [Runners -> TickState]
  /\ \A q \in Runners : tick'[q].held = FALSE
  /\ \A q \in Runners : q # r => SameButHeld(tick[q], tick'[q])

LEMMA IndexLowerFacts ==
  ASSUME TypeInv, NEW x \in Procs, IndexLower(x)
  PROVE  /\ idx[x].pc = "lower" /\ idx[x].bucket \in Buckets
         /\ \E i \in IndexState :
              /\ idx' = [idx EXCEPT ![x] = i] /\ i.pc = "mark" /\ i.job = idx[x].job
              /\ i.due = idx[x].due /\ i.move = idx[x].move /\ i.bucket = idx[x].bucket
         /\ \/ PastCursor(idx[x].bucket) /\ UNCHANGED <<cursor, tick>>
            \/ Lowered(idx[x].bucket, NoRunner)
<1>1. idx[x].pc = "lower" /\ idx[x].bucket \in Buckets /\ idx[x] \in IndexState /\ TypeOK
  BY TypeFacts DEF TypeInv, IndexLower
<1>2. PICK i : i = [idx[x] EXCEPT !.pc = "mark"] /\ idx' = [idx EXCEPT ![x] = i]
  BY DEF IndexLower
<1>3. /\ i \in IndexState /\ i.pc = "mark" /\ i.job = idx[x].job
      /\ i.due = idx[x].due /\ i.move = idx[x].move /\ i.bucket = idx[x].bucket
  BY <1>1, <1>2 DEF IndexState
<1>4. CASE ~PastCursor(idx[x].bucket)
  <2>1. /\ cursor' = [bucket |-> idx[x].bucket, behind |-> NotRead]
        /\ tick' = [r \in Runners |-> [tick[r] EXCEPT !.held = FALSE]]
    BY <1>4 DEF IndexLower, WriteCursor
  <2>2. \A r \in Runners : /\ tick'[r] \in TickState /\ tick'[r].held = FALSE
                           /\ SameButHeld(tick[r], tick'[r])
    BY <2>1, <1>1, TickFacts, HeldFacts
  <2>3. tick' \in [Runners -> TickState]
    BY <2>1, <2>2
  <2> QED
    BY <1>1, <1>2, <1>3, <1>4, <2>1, <2>2, <2>3 DEF Lowered
<1>5. CASE PastCursor(idx[x].bucket)
  BY <1>1, <1>2, <1>3, <1>5 DEF IndexLower
<1> QED
  BY <1>4, <1>5

LEMMA RepairFacts ==
  ASSUME TypeInv, NEW r \in Runners, Repair(r)
  PROVE  /\ r \in fleet.runners /\ tick[r].pc = "repair"
         /\ tick[r].bucket >= 1 /\ tick[r].bucket - 1 \in Buckets
         /\ \/ /\ PastCursor(tick[r].bucket - 1) /\ UNCHANGED cursor
               /\ \E t : /\ Go(r, t) /\ Standing(r, t)
                         /\ t.pc = "reread" /\ t.held = tick[r].held
            \/ /\ Lowered(tick[r].bucket - 1, r)
               /\ tick'[r].pc = "reread" /\ tick'[r].last = tick[r].last
<1>1. TypeOK /\ r \in fleet.runners /\ tick[r].pc = "repair" /\ tick[r] \in TickState
  BY TickFacts DEF TypeInv, Repair, At
<1>2. /\ cursor # NoCursor /\ tick[r].last <= Bucket(now)
      /\ tick[r].bucket >= 1 /\ tick[r].behind # NotRead
  BY <1>1 DEF TypeInv, Ticks, Cursors, Checking
<1>3. tick[r].bucket - 1 \in Buckets
  BY <1>1, <1>2, TickFacts, BucketFacts
<1>4. CASE PastCursor(tick[r].bucket - 1)
  <2>1. PICK t : t = [tick[r] EXCEPT !.pc = "reread"] /\ Go(r, t)
    BY <1>4 DEF Repair
  <2>2. t \in TickState /\ t.pc = "reread" /\ t.held = tick[r].held /\ t.last = tick[r].last
    BY <1>1, <2>1 DEF TickState
  <2>3. Standing(r, t)
    BY <1>1, <1>2, <2>2 DEF Standing, Reading, Moving, Checking
  <2>4. UNCHANGED cursor
    BY <1>4 DEF Repair
  <2> QED
    BY <1>1, <1>2, <1>3, <1>4, <2>1, <2>2, <2>3, <2>4
<1>5. CASE ~PastCursor(tick[r].bucket - 1)
  <2>1. /\ cursor' = [bucket |-> tick[r].bucket - 1, behind |-> NotRead]
        /\ tick' = [q \in Runners |-> [tick[q] EXCEPT !.held = FALSE,
                      !.pc = IF q = r THEN "reread" ELSE tick[q].pc]]
    BY <1>5 DEF Repair
  <2>2. ASSUME NEW q \in Runners
        PROVE  /\ tick'[q] \in TickState /\ tick'[q].held = FALSE
               /\ tick'[q].last = tick[q].last
               /\ q = r => tick'[q].pc = "reread"
               /\ q # r => SameButHeld(tick[q], tick'[q])
    <3>1. tick[q] \in TickState
      BY <1>1, TickFacts
    <3>2. PICK c \in {"idle", "second", "repair", "reread", "read", "jobs", "run", "again",
                      "back"} : c = IF q = r THEN "reread" ELSE tick[q].pc
      BY <3>1 DEF TickState
    <3>3. tick'[q] = [tick[q] EXCEPT !.held = FALSE, !.pc = c]
      BY <2>1, <3>2
    <3> QED
      BY <3>1, <3>2, <3>3 DEF TickState, SameButHeld
  <2>3. tick' \in [Runners -> TickState]
    BY <2>1, <2>2
  <2>4. Lowered(tick[r].bucket - 1, r)
    BY <1>5, <2>1, <2>2, <2>3 DEF Lowered
  <2> QED
    BY <1>1, <1>2, <1>3, <2>2, <2>4
<1> QED
  BY <1>4, <1>5

LEMMA MoveBackFacts ==
  ASSUME TypeInv, NEW r \in Runners, MoveBack(r)
  PROVE  /\ r \in fleet.runners /\ tick[r].pc = "back" /\ tick[r].bucket \in Buckets
         /\ \/ /\ PastCursor(tick[r].bucket) /\ UNCHANGED cursor
               /\ \E t : /\ Go(r, t) /\ Standing(r, t) /\ t.pc = "read" /\ t.held = FALSE
            \/ /\ Lowered(tick[r].bucket, r)
               /\ tick'[r].pc = "read" /\ tick'[r].last = tick[r].last
<1> DEFINE b == tick[r].bucket
<1>1. TypeOK /\ r \in fleet.runners /\ tick[r].pc = "back" /\ tick[r] \in TickState
  BY TickFacts DEF TypeInv, MoveBack, At
<1>2. /\ cursor # NoCursor /\ tick[r].last <= Bucket(now) /\ b <= tick[r].last
  BY <1>1 DEF TypeInv, Ticks, Cursors, Moving
<1>3. b \in Buckets
  BY <1>1, <1>2, TickFacts, BucketFacts
<1>4. PICK t : t = NextBucket([tick[r] EXCEPT !.held = FALSE])
  OBVIOUS
<1>5. Standing(r, t) /\ t.pc = "read" /\ t.held = FALSE
  <2>1. tick[r].pc \in Reading \cup Moving
    BY <1>1 DEF Moving
  <2> QED
    BY <1>1, <1>4, <2>1, BucketOverFacts
<1>6. t.last = tick[r].last
  <2>1. PICK u : u = [tick[r] EXCEPT !.held = FALSE]
    OBVIOUS
  <2>2. u \in TickState /\ u.last = tick[r].last /\ u.bucket = b
    BY <2>1, <1>1, HeldFacts DEF SameButHeld
  <2>3. u.bucket <= Bucket(MaxTime)
    BY <2>2, <1>2, <1>1, TickFacts, BucketFacts
  <2> QED
    BY <2>1, <2>2, <2>3, <1>4, NextBucketFacts
<1>7. tick' = [q \in Runners |-> IF q = r THEN t ELSE [tick[q] EXCEPT !.held = @ /\ PastCursor(b)]]
  BY <1>4 DEF MoveBack
<1>8. CASE PastCursor(b)
  <2>1. ASSUME NEW q \in Runners, q # r PROVE tick'[q] = tick[q]
    <3>1. tick[q] \in TickState /\ tick[q].held \in BOOLEAN
      BY <1>1, TickFacts
    <3>2. tick'[q] = [tick[q] EXCEPT !.held = tick[q].held /\ PastCursor(b)]
      BY <1>7, <2>1
    <3>3. (tick[q].held /\ PastCursor(b)) = tick[q].held
      BY <3>1, <1>8
    <3>4. tick'[q] = [tick[q] EXCEPT !.held = tick[q].held]
      BY <3>2, <3>3
    <3> QED
      BY <3>1, <3>4 DEF TickState
  <2>2. tick \in [Runners -> TickState]
    BY <1>1 DEF TypeOK
  <2>3. Go(r, t)
    BY <2>1, <2>2, <1>7 DEF Go
  <2>4. UNCHANGED cursor
    BY <1>8 DEF MoveBack
  <2> QED
    BY <1>1, <1>3, <1>5, <1>8, <2>3, <2>4
<1>9. CASE ~PastCursor(b)
  <2>1. cursor' = [bucket |-> b, behind |-> NotRead]
    BY <1>9 DEF MoveBack
  <2>2. ASSUME NEW q \in Runners
        PROVE  /\ tick'[q] \in TickState /\ tick'[q].held = FALSE
               /\ q # r => SameButHeld(tick[q], tick'[q])
    <3>1. CASE q = r
      BY <3>1, <1>5, <1>7 DEF Standing
    <3>2. CASE q # r
      <4>1. tick'[q] = [tick[q] EXCEPT !.held = tick[q].held /\ PastCursor(b)]
        BY <1>7, <3>2
      <4>2. (tick[q].held /\ PastCursor(b)) = FALSE
        BY <1>9
      <4>3. tick'[q] = [tick[q] EXCEPT !.held = FALSE]
        BY <4>1, <4>2
      <4>4. tick[q] \in TickState
        BY <1>1, TickFacts
      <4>5. tick'[q] \in TickState /\ tick'[q].held = FALSE /\ SameButHeld(tick[q], tick'[q])
        BY <4>3, <4>4, HeldFacts
      <4> QED
        BY <4>5
    <3> QED
      BY <3>1, <3>2
  <2>3. tick' \in [Runners -> TickState]
    BY <1>7, <2>2
  <2>4. Lowered(b, r)
    BY <1>9, <2>1, <2>2, <2>3 DEF Lowered
  <2>5. tick'[r] = t
    BY <1>7
  <2> QED
    BY <1>1, <1>3, <1>5, <1>6, <2>4, <2>5
<1> QED
  BY <1>8, <1>9

\* The cursor's swap: the runner moves it on and keeps its version.
LEMMA AdvanceFacts ==
  ASSUME TypeInv, NEW r \in Runners, Advance(r)
  PROVE  /\ r \in fleet.runners /\ tick[r].pc = "jobs" /\ idx[r].pc = "none"
         /\ tick[r].todo = {} /\ tick[r].settled = TRUE /\ tick[r].held = TRUE
         /\ tick[r].bucket \in Buckets /\ tick[r].bucket <= Bucket(now)
         /\ cursor' = [bucket |-> tick[r].bucket + 1, behind |-> tick[r].seen]
         /\ tick' \in [Runners -> TickState]
         /\ tick'[r].pc = "again" /\ SameBucket(tick[r], tick'[r])
         /\ \A q \in Runners : q # r => /\ tick'[q].held = FALSE
                                        /\ SameButHeld(tick[q], tick'[q])
<1>1. /\ TypeOK /\ r \in fleet.runners /\ tick[r].pc = "jobs" /\ idx[r].pc = "none"
      /\ tick[r] \in TickState /\ tick[r].todo = {} /\ tick[r].settled /\ tick[r].held
  BY TickFacts DEF TypeInv, Advance, BucketDone, At
<1>2. tick[r].settled = TRUE /\ tick[r].held = TRUE
  BY <1>1, TickFacts
<1>3. tick[r].last <= Bucket(now) /\ tick[r].bucket <= tick[r].last
  BY <1>1 DEF TypeInv, Ticks, Reading
<1>4. tick[r].bucket \in Buckets /\ tick[r].bucket <= Bucket(now)
  BY <1>1, <1>3, TickFacts, TypeFacts, BucketFacts
<1>5. /\ cursor' = [bucket |-> tick[r].bucket + 1, behind |-> tick[r].seen]
      /\ tick' = [q \in Runners |-> IF q = r THEN [tick[r] EXCEPT !.pc = "again"]
                                             ELSE [tick[q] EXCEPT !.held = FALSE]]
  BY DEF Advance
<1>6. PICK t : t = [tick[r] EXCEPT !.pc = "again"] /\ tick'[r] = t
  BY <1>5
<1>7. t \in TickState /\ t.pc = "again" /\ SameBucket(tick[r], t)
  <2>1. tick[r] \in TickState
    BY <1>1
  <2> QED
    BY ONLY <2>1, <1>6 DEF TickState, SameBucket
<1>8. ASSUME NEW q \in Runners, q # r
      PROVE  /\ tick'[q] \in TickState /\ tick'[q].held = FALSE
             /\ SameButHeld(tick[q], tick'[q])
  <2>1. tick'[q] = [tick[q] EXCEPT !.held = FALSE]
    BY <1>5, <1>8
  <2> QED
    BY <2>1, <1>1, TickFacts, HeldFacts, ZenonT(60)
<1>9. tick' \in [Runners -> TickState]
  BY <1>5, <1>6, <1>7, <1>8
<1> QED
  BY <1>1, <1>2, <1>4, <1>5, <1>6, <1>7, <1>8, <1>9

-----------------------------------------------------------------------------
(* Types, continued.                                                       *)

LEMMA LoweredType ==
  ASSUME TypeInv, NEW b \in Buckets, NEW r, Lowered(b, r),
         r \in Runners => /\ r \in fleet.runners /\ tick'[r].last <= Bucket(now)
                          /\ tick'[r].pc \notin Reading \cup Moving \cup Checking,
         UNCHANGED <<fleet, now, job, page>>, idx' \in [Procs -> IndexState]
  PROVE  TypeInv'
<1>1. cursor' = [bucket |-> b, behind |-> NotRead] /\ b \in Nat
  BY BucketFacts DEF Lowered
<1>2. TypeOK'
  BY <1>1 DEF TypeInv, TypeOK, Lowered
<1>3. cursor' # NoCursor /\ cursor'.bucket >= 0 /\ cursor'.behind = NotRead
  BY <1>1 DEF NoCursor
<1>4. \A q \in Runners : q # r =>
        /\ tick'[q].pc = tick[q].pc /\ tick'[q].last = tick[q].last
        /\ tick'[q].bucket = tick[q].bucket /\ tick'[q].behind = tick[q].behind
  BY DEF Lowered, SameButHeld
<1>5. Ticks'
  BY <1>4 DEF Ticks, TypeInv
<1>6. Cursors'
  BY <1>3, <1>4 DEF Cursors, TypeInv
<1> QED
  BY <1>2, <1>5, <1>6 DEF TypeInv

LEMMA IndexLowerType ==
  ASSUME TypeInv, NEW x \in Procs, IndexLower(x)
  PROVE  TypeInv'
<1>1. UNCHANGED <<fleet, now, job, page>> /\ TypeOK
  BY DEF IndexLower, TypeInv
<1>2. idx[x].bucket \in Buckets /\ idx' \in [Procs -> IndexState]
  <2>1. PICK i \in IndexState : idx' = [idx EXCEPT ![x] = i]
    BY IndexLowerFacts
  <2> QED
    BY <2>1, <1>1, IndexLowerFacts DEF TypeOK
<1>3. CASE UNCHANGED <<cursor, tick>>
  BY <1>1, <1>2, <1>3, OtherType DEF TypeOK
<1>4. CASE Lowered(idx[x].bucket, NoRunner)
  BY <1>1, <1>2, <1>4, LoweredType, ProcsAssumption
<1> QED
  BY <1>3, <1>4, IndexLowerFacts

LEMMA MoveBackType ==
  ASSUME TypeInv, NEW r \in Runners, Repair(r) \/ MoveBack(r)
  PROVE  TypeInv'
<1>1. /\ UNCHANGED <<fleet, now, job, page, idx>> /\ TypeOK
      /\ job' \in [Jobs -> JobRecord] /\ idx' \in [Procs -> IndexState]
  BY DEF Repair, MoveBack, TypeInv, TypeOK
<1>2. CASE UNCHANGED cursor /\ \E t : Go(r, t) /\ Standing(r, t)
  BY <1>1, <1>2, GoType
<1>3. ASSUME NEW b \in Buckets, Lowered(b, r), r \in fleet.runners,
             tick'[r].pc \in {"read", "reread"}, tick'[r].last = tick[r].last,
             tick[r].pc # "idle"
      PROVE  TypeInv'
  <2>1. tick'[r].last <= Bucket(now)
    BY <1>3 DEF TypeInv, Ticks
  <2>2. tick'[r].pc \notin Reading \cup Moving \cup Checking
    BY <1>3 DEF Reading, Moving, Checking
  <2> QED
    BY <1>1, <1>3, <2>1, <2>2, LoweredType
<1>4. CASE Repair(r)
  BY <1>2, <1>3, <1>4, RepairFacts
<1>5. CASE MoveBack(r)
  BY <1>2, <1>3, <1>5, MoveBackFacts
<1> QED
  BY <1>4, <1>5

LEMMA AdvanceType ==
  ASSUME TypeInv, NEW r \in Runners, Advance(r)
  PROVE  TypeInv'
<1>1. /\ UNCHANGED <<fleet, now, job, page, idx>> /\ TypeOK
  BY DEF Advance, TypeInv
<1>2. /\ r \in fleet.runners /\ tick[r].pc = "jobs"
      /\ tick[r].bucket \in Buckets /\ tick[r].bucket <= Bucket(now)
      /\ cursor' = [bucket |-> tick[r].bucket + 1, behind |-> tick[r].seen]
      /\ tick' \in [Runners -> TickState]
      /\ tick'[r].pc = "again" /\ SameBucket(tick[r], tick'[r])
      /\ \A q \in Runners : q # r => SameButHeld(tick[q], tick'[q])
  BY AdvanceFacts
<1>3. tick[r].seen \in Nat /\ tick[r].bucket \in Nat /\ Bucket(now) \in Nat
  BY <1>1, TickFacts, TypeFacts
<1>4. cursor' \in [bucket : -1..(Bucket(now) + 1) \cup Buckets, behind : Nat \cup {NotRead}]
  BY <1>2, <1>3
<1>5. TypeOK'
  BY <1>1, <1>2, <1>4 DEF TypeOK
<1>6. cursor' # NoCursor /\ cursor'.bucket >= 1
  BY <1>2, <1>3 DEF NoCursor
<1>7. \A q \in Runners : q # r =>
        /\ tick'[q].pc = tick[q].pc /\ tick'[q].last = tick[q].last
        /\ tick'[q].bucket = tick[q].bucket /\ tick'[q].behind = tick[q].behind
  BY <1>2 DEF SameButHeld
<1>8. tick'[r].last = tick[r].last /\ tick'[r].bucket = tick[r].bucket
  BY <1>2 DEF SameBucket
<1>9. Ticks'
  <2>1. tick[r].last <= Bucket(now) /\ tick[r].bucket <= tick[r].last
    BY <1>2 DEF TypeInv, Ticks, Reading
  <2> QED
    BY <1>1, <1>2, <1>7, <1>8, <2>1 DEF Ticks, TypeInv
<1>10. Cursors'
  BY <1>2, <1>3, <1>6, <1>7 DEF Cursors, TypeInv, Checking
<1> QED
  BY <1>5, <1>9, <1>10 DEF TypeInv

LEMMA FailsType ==
  ASSUME TypeInv, NEW r \in Runners, RunnerFails(r)
  PROVE  TypeInv'
<1>1. /\ tick' = [tick EXCEPT ![r] = NoTick] /\ idx' = [idx EXCEPT ![r] = NoIndex]
      /\ UNCHANGED <<now, job, page, cursor>> /\ TypeOK
      /\ fleet' = [fleet EXCEPT !.fails = @ - 1] /\ fleet.fails > 0
  BY DEF RunnerFails, Go, TypeInv
<1>2. fleet' \in [runners : SUBSET Runners, fails : Nat] /\ fleet'.runners = fleet.runners
  BY <1>1 DEF TypeOK
<1>3. TypeOK'
  BY <1>1, <1>2, NoTickFacts, NoIndexFacts DEF TypeOK
<1>4. tick'[r] = NoTick /\ \A q \in Runners : q # r => tick'[q] = tick[q]
  BY <1>1 DEF TypeOK
<1>5. Ticks'
  BY <1>1, <1>2, <1>4, NoTickFacts DEF Ticks, TypeInv, Reading, Moving
<1>6. Cursors'
  BY <1>1, <1>4, NoTickFacts DEF Cursors, TypeInv, Checking
<1> QED
  BY <1>3, <1>5, <1>6 DEF TypeInv

LEMMA RunnerType ==
  ASSUME TypeInv, NEW r \in Runners, Runner(r)
  PROVE  TypeInv'
<1>1. TypeOK /\ job \in [Jobs -> JobRecord] /\ idx \in [Procs -> IndexState]
  BY DEF TypeInv, TypeOK
<1>2. CASE Start(r) \/ SecondRead(r) \/ Reread(r) \/ ReadBucket(r) \/ Return(r)
           \/ Cancelled(r) \/ Stay(r) \/ ReadAgain(r)
  <2>1. UNCHANGED <<fleet, now, page, cursor, job, idx>>
    BY <1>2 DEF Start, SecondRead, Reread, ReadBucket, Return, Cancelled, Stay, ReadAgain
  <2>2. \E t : Go(r, t) /\ Standing(r, t)
    BY <1>2, StartFacts, SecondReadFacts, RereadFacts, ReadBucketFacts, ReturnFacts,
       CancelledFacts, StayFacts, ReadAgainFacts
  <2> QED
    BY <1>1, <2>1, <2>2, GoType
<1>3. CASE \E j \in Jobs : PassOver(r, j)
  <2>1. PICK j \in Jobs : PassOver(r, j)
    BY <1>3
  <2>2. UNCHANGED <<fleet, now, page, cursor, job>> /\ idx' \in [Procs -> IndexState]
    BY <2>1, PassOverFacts DEF PassOver
  <2>3. \E t : Go(r, t) /\ Standing(r, t)
    BY <2>1, PassOverFacts
  <2> QED
    BY <1>1, <2>2, <2>3, GoType
<1>4. CASE \E j \in Jobs : Claim(r, j)
  <2>1. PICK j \in Jobs : Claim(r, j)
    BY <1>4
  <2>2. UNCHANGED <<fleet, now, page, cursor, idx>>
    BY <2>1 DEF Claim
  <2>3. PICK d \in JobRecord : job' = [job EXCEPT ![j] = d]
    BY <2>1, ClaimFacts
  <2>4. job' \in [Jobs -> JobRecord]
    BY <1>1, <2>3
  <2>5. \E t : Go(r, t) /\ Standing(r, t)
    BY <2>1, ClaimFacts
  <2> QED
    BY <1>1, <2>2, <2>4, <2>5, GoType
<1>5. CASE Settle(r)
  <2>1. UNCHANGED <<fleet, now, page, cursor, idx>>
    BY <1>5 DEF Settle
  <2>2. PICK d \in JobRecord : job' = [job EXCEPT ![tick[r].job] = d]
    BY <1>5, SettleFacts
  <2>3. job' \in [Jobs -> JobRecord]
    BY <1>1, <2>2
  <2>4. \E t : Go(r, t) /\ Standing(r, t)
    BY <1>5, SettleFacts
  <2> QED
    BY <1>1, <2>1, <2>3, <2>4, GoType
<1>6. CASE Retry(r)
  <2>1. UNCHANGED <<fleet, now, page, cursor>>
    BY <1>6 DEF Retry
  <2>2. PICK due \in 0..MaxTime, n \in 0..MaxMoves, d \in JobRecord, i \in IndexState :
          Retried(r, due, n, d, i)
    BY <1>6, RetryFacts
  <2>3. job' \in [Jobs -> JobRecord] /\ idx' \in [Procs -> IndexState]
    <3>1. job' = [job EXCEPT ![tick[r].job] = d] /\ idx' = [idx EXCEPT ![r] = i]
      BY <2>2 DEF Retried
    <3> QED
      BY <1>1, <3>1
  <2>4. \E t : Go(r, t) /\ Standing(r, t)
    BY <2>2, Zenon DEF Retried
  <2> QED
    BY <2>1, <2>3, <2>4, GoType
<1> QED
  BY <1>2, <1>3, <1>4, <1>5, <1>6, AdvanceType, MoveBackType DEF Runner

LEMMA NextType == TypeInv /\ [Next]_vars => TypeInv'
<1> SUFFICES ASSUME TypeInv, [Next]_vars PROVE TypeInv'
  OBVIOUS
<1>1. CASE Next
  BY <1>1, TickType, CallType, ApplicationType, IndexType, IndexLowerType, RunnerType,
     FailsType DEF Next, Index
<1>2. CASE UNCHANGED vars
  BY <1>2 DEF vars, TypeInv, TypeOK, Ticks, Cursors
<1> QED
  BY <1>1, <1>2

\* Every variable keeps its type, and the cursor and every scan their range:
\* KvJobs::advance moves the cursor at most one bucket past the current one.
THEOREM DueTypes == Spec => []TypeOK
<1>1. TypeInv => TypeOK
  BY DEF TypeInv
<1> QED
  BY <1>1, InitType, NextType, PTL DEF Spec


-----------------------------------------------------------------------------
(* Positions of the runners that read a bucket or just did.                *)

LEMMA ReaderBucket ==
  ASSUME TypeInv, NEW r \in Runners, tick[r].pc \in Reading \cup Moving
  PROVE  /\ tick[r].bucket \in Buckets /\ tick[r].bucket \in Nat
         /\ tick[r].bucket <= tick[r].last /\ tick[r].last <= Bucket(now)
<1>1. tick[r].bucket <= tick[r].last /\ tick[r].last <= Bucket(now)
  BY DEF TypeInv, Ticks, Reading, Moving
<1>2. TypeOK
  BY DEF TypeInv
<1> QED
  BY <1>1, <1>2, TickFacts, TypeFacts, BucketFacts

LEMMA CursorBehind ==
  ASSUME TypeInv, cursor.behind # NotRead
  PROVE  cursor.bucket - 1 \in Buckets /\ cursor.behind \in Nat
<1>1. TypeOK /\ cursor.bucket >= 1
  BY DEF TypeInv, Cursors
<1> QED
  BY <1>1, TypeFacts, BucketFacts

\* Pages only grow: their versions, and their ids.
PagesGrow ==
  \A b \in Buckets : /\ page[b].version <= page'[b].version
                     /\ page[b].ids \subseteq page'[b].ids

LEMMA SamePages ==
  ASSUME TypeInv, UNCHANGED page
  PROVE  PagesGrow
BY TypeFacts DEF PagesGrow, TypeInv

LEMMA CursorOldKeeps ==
  ASSUME TypeInv, CursorOld, UNCHANGED cursor, PagesGrow, TypeOK'
  PROVE  CursorOld'
<1> SUFFICES ASSUME cursor.behind # NotRead
             PROVE  cursor.behind <= page'[cursor.bucket - 1].version
  BY DEF CursorOld
<1>1. /\ cursor.bucket - 1 \in Buckets /\ cursor.behind \in Nat
      /\ cursor.behind <= page[cursor.bucket - 1].version
  BY CursorBehind DEF CursorOld
<1>2. page[cursor.bucket - 1].version \in Nat /\ page'[cursor.bucket - 1].version \in Nat
  BY <1>1, TypeFacts DEF TypeInv, TypeOK, PageRecord
<1> QED
  BY <1>1, <1>2 DEF PagesGrow

\* The jobs a runner runs are not claimed by it anew, nor made due later.
ClaimKept(q) ==
  tick[q].pc = "run" /\ job'[tick[q].job].by = q =>
    job[tick[q].job].by = q /\ job'[tick[q].job].due = job[tick[q].job].due

\* A step of somebody else that leaves the cursor.
LEMMA ReaderKeeps ==
  ASSUME TypeInv, NEW q \in Runners, ReaderAt(q), tick'[q] = tick[q],
         UNCHANGED cursor, fleet'.runners = fleet.runners, PagesGrow, ClaimKept(q), TypeOK'
  PROVE  ReaderAt(q)'
<1>1. HeldAt(q)'
  BY DEF ReaderAt, HeldAt
<1>2. AloneAt(q)'
  BY DEF ReaderAt, AloneAt, Single, Outrun
<1>3. ASSUME tick[q].pc \in Reading \cup Moving
      PROVE  /\ page[tick[q].bucket].version <= page'[tick[q].bucket].version
             /\ page[tick[q].bucket].ids \subseteq page'[tick[q].bucket].ids
             /\ page[tick[q].bucket].version \in Nat /\ page'[tick[q].bucket].version \in Nat
             /\ tick[q].seen \in Nat
  <2>1. tick[q].bucket \in Buckets /\ TypeOK
    BY <1>3, ReaderBucket DEF TypeInv
  <2> QED
    BY <2>1, TypeFacts, TickFacts DEF PagesGrow, TypeOK, PageRecord
<1>4. SeenAt(q)'
  BY <1>3 DEF ReaderAt, SeenAt
<1>5. FoundAt(q)'
  BY <1>3 DEF ReaderAt, FoundAt, ClaimKept, Reading
<1> QED
  BY <1>1, <1>2, <1>4, <1>5 DEF ReaderAt

\* A step of a runner that leaves the cursor.
LEMMA ReadersGo ==
  ASSUME TypeInv, Mid, NEW r \in Runners, NEW t, Go(r, t),
         UNCHANGED <<cursor, page>>, fleet'.runners = fleet.runners,
         \A q \in Runners : q # r => ClaimKept(q), TypeOK', ReaderAt(r)'
  PROVE  /\ \A q \in Runners : ReaderAt(q)' /\ CursorOld'
         /\ tick'[r] = t /\ \A q \in Runners : q # r => tick'[q] = tick[q]
<1>1. tick'[r] = t /\ \A q \in Runners : q # r => tick'[q] = tick[q]
  BY DEF Go, TypeInv, TypeOK
<1>2. PagesGrow
  BY SamePages
<1>3. \A q \in Runners : q # r => ReaderAt(q)'
  BY <1>1, <1>2, ReaderKeeps DEF Mid
<1>4. CursorOld'
  BY <1>2, CursorOldKeeps DEF Mid
<1> QED
  BY <1>1, <1>3, <1>4

\* A step that leaves the ticks and the cursor.
LEMMA ReadersStay ==
  ASSUME TypeInv, Mid, UNCHANGED <<cursor, tick>>, PagesGrow, TypeOK',
         fleet'.runners = fleet.runners, \A q \in Runners : ClaimKept(q)
  PROVE  (\A q \in Runners : ReaderAt(q)') /\ CursorOld'
BY ReaderKeeps, CursorOldKeeps DEF Mid

LEMMA SameJobClaim ==
  ASSUME UNCHANGED job
  PROVE  \A q \in Runners : ClaimKept(q)
BY DEF ClaimKept

-----------------------------------------------------------------------------
(* The jobs and the calls.                                                 *)

\* Job j is moved on, if at all, by one move or more; it never disappears.
MovesOn(j) ==
  /\ job'[j].state = "absent" => job[j].state = "absent"
  /\ \/ job'[j].moves = job[j].moves /\ job'[j].due = job[j].due
     \/ job'[j].moves > job[j].moves

LEMMA SameJobMoves ==
  ASSUME UNCHANGED job
  PROVE  \A j \in Jobs : MovesOn(j)
BY DEF MovesOn

\* A call that takes no step.
LEMMA CallKeeps ==
  ASSUME TypeInv, NEW x \in Procs, CallAt(x), idx'[x] = idx[x], PagesGrow, TypeOK',
         job[idx[x].job].state # "absent" => MovesOn(idx[x].job)
  PROVE  CallAt(x)'
<1> SUFFICES ASSUME Calling(x)
             PROVE  CallAt(x)'
  BY DEF CallAt, Calling
<1> DEFINE j == idx[x].job
<1>1. /\ job[j].state # "absent" /\ idx[x].move <= job[j].moves
      /\ idx[x].move = job[j].moves => idx[x].due = job[j].due
      /\ idx[x].pc # "bucket" => Bucket(idx[x].due) <= idx[x].bucket
      /\ idx[x].pc \in {"lower", "mark"} => j \in page[idx[x].bucket].ids
  BY DEF CallAt
<1>2. /\ j \in Jobs /\ idx[x].move \in Nat /\ job[j].moves \in Nat /\ job'[j].moves \in Nat
      /\ idx[x].bucket \in Buckets
  <2>1. j \in Jobs /\ TypeOK
    BY TypeFacts DEF TypeInv
  <2>2. job'[j].moves \in 0..MaxMoves
    BY <2>1 DEF TypeOK, JobRecord
  <2> QED
    BY <2>1, <2>2, TypeFacts, TimesAssumption
<1>3. MovesOn(j)
  BY <1>1
<1>4. job'[j].state # "absent" /\ idx[x].move <= job'[j].moves
  BY <1>1, <1>2, <1>3 DEF MovesOn
<1>5. idx[x].move = job'[j].moves => idx[x].due = job'[j].due
  BY <1>1, <1>2, <1>3 DEF MovesOn
<1>6. idx[x].pc \in {"lower", "mark"} => j \in page'[idx[x].bucket].ids
  BY <1>1, <1>2 DEF PagesGrow
<1> QED
  BY <1>1, <1>4, <1>5, <1>6 DEF CallAt

\* A call's job, at its last move, is due no later than in the call's bucket:
\* nobody indexes that move in a later one.
LEMMA NotCarried ==
  ASSUME TypeInv, Mid, NEW q \in Runners, NEW j \in Jobs, NEW b \in Buckets,
         Bucket(job[j].due) <= b
  PROVE  ~Carrying(q, j, b)
<1> SUFFICES ASSUME Carrying(q, j, b) PROVE FALSE
  OBVIOUS
<1>1. TypeOK /\ q \in Procs
  BY TypeFacts DEF TypeInv
<1>2. idx[q].due = job[j].due
  BY <1>1 DEF Mid, CallAt, Carrying
<1>3. Bucket(job[j].due) > b
  BY <1>2 DEF Carrying
<1>4. Bucket(job[j].due) \in Nat /\ b \in Nat
  BY <1>1, TypeFacts, BucketFacts
<1> QED
  BY <1>3, <1>4

LEMMA CurrentFacts ==
  ASSUME TypeInv, Mid, NEW x \in Procs, Current(x)
  PROVE  /\ idx[x].job \in Jobs /\ idx[x].bucket \in Buckets
         /\ idx[x].due = job[idx[x].job].due
         /\ Bucket(job[idx[x].job].due) <= idx[x].bucket
         /\ \A q \in Runners : ~Carrying(q, idx[x].job, idx[x].bucket)
<1>1. idx[x].job \in Jobs /\ idx[x].bucket \in Buckets
  BY TypeFacts DEF TypeInv
<1>2. idx[x].due = job[idx[x].job].due /\ Bucket(job[idx[x].job].due) <= idx[x].bucket
  BY DEF Mid, CallAt, Calling, Current
<1> QED
  BY <1>1, <1>2, NotCarried

-----------------------------------------------------------------------------
(* Homes, as steps leave them.                                             *)

\* Job j keeps its last move and its record's index.
SameMove(j) ==
  /\ job'[j].moves = job[j].moves /\ job'[j].due = job[j].due
  /\ job'[j].indexed => job[j].indexed

LEMMA SameJobMove ==
  ASSUME UNCHANGED job
  PROVE  \A j \in Jobs : SameMove(j)
BY DEF SameMove

LEMMA SettledKeeps ==
  ASSUME NEW j, NEW b, Settled(j, b), SameMove(j)
  PROVE  Settled(j, b)'
BY DEF Settled, SameMove

LEMMA CarryKeeps ==
  ASSUME NEW q, NEW j, NEW b, Carrying(q, j, b), idx'[q] = idx[q],
         job'[j].moves = job[j].moves
  PROVE  Carrying(q, j, b)'
BY DEF Carrying, Calling

\* A step that leaves the ticks and the pages, and the job where it is.
LEMMA SafeStays ==
  ASSUME NEW j, NEW b, Safe(j, b), UNCHANGED <<tick, page>>, Settled(j, b)',
         \A q \in Runners : Carrying(q, j, b) => Carrying(q, j, b)'
  PROVE  Safe(j, b)'
BY DEF Safe, Unmissed, Sweeping

LEMMA KeptStays ==
  ASSUME NEW b, Kept(b), UNCHANGED <<fleet, tick, page, cursor>>
  PROVE  Kept(b)'
BY DEF Kept, PastCursor, MovesBack, Noted, Single

\* A step of runner r's tick: what it is to be careful of.
LEMMA SafeGoes ==
  ASSUME NEW r \in Runners, NEW j, NEW b, Safe(j, b), UNCHANGED page, Settled(j, b)',
         \A q \in Runners : q # r => tick'[q] = tick[q],
         \A q \in Runners : q # r /\ Carrying(q, j, b) => Carrying(q, j, b)',
         Sweeping(r, b)' => j \in tick'[r].todo \/ Carrying(r, j, b)'
  PROVE  Safe(j, b)'
<1>1. \A q \in Runners : q # r /\ Sweeping(q, b)' => Sweeping(q, b)
  BY DEF Sweeping
<1>2. ASSUME NEW q \in Runners, Sweeping(q, b)'
      PROVE  j \in tick'[q].todo \/ Carrying(q, j, b)'
  BY <1>1, <1>2 DEF Safe, Unmissed
<1>3. Unmissed(j, b)'
  BY <1>2 DEF Unmissed
<1> QED
  BY <1>3 DEF Safe

\* The runner does not begin to scan from a cursor that notes a change.
ScansUnnoted(r) ==
  Single /\ tick'[r].held /\ tick'[r].pc \in Scanning =>
    \/ tick[r].held /\ tick[r].pc \in Scanning
    \/ cursor.behind \in {NotRead, page[cursor.bucket - 1].version}

LEMMA KeptGoes ==
  ASSUME TypeInv, NEW r \in Runners, NEW b \in Buckets, Kept(b),
         UNCHANGED <<fleet, page, cursor>>,
         \A q \in Runners : q # r => tick'[q] = tick[q],
         MovesBack(r, b) => MovesBack(r, b)' \/ PastCursor(b),
         ScansUnnoted(r)
  PROVE  Kept(b)'
<1>1. CASE PastCursor(b)
  BY <1>1 DEF Kept, PastCursor
<1>2. CASE fleet.fails = 0 /\ \E q \in Runners : MovesBack(q, b)
  <2>1. PICK q \in Runners : MovesBack(q, b)
    BY <1>2
  <2>2. CASE q = r
    BY <1>2, <2>1, <2>2 DEF Kept, PastCursor
  <2>3. CASE q # r
    <3>1. MovesBack(q, b)'
      BY <2>1, <2>3 DEF MovesBack
    <3> QED
      BY <1>2, <3>1 DEF Kept
  <2> QED
    BY <2>2, <2>3
<1>3. CASE Single /\ Noted(b)
  <2>1. cursor.bucket = b + 1 /\ cursor.behind \notin {NotRead, page[b].version} /\ b \in Nat
    BY <1>3, BucketFacts DEF Noted
  <2>2. cursor.bucket - 1 = b
    BY <2>1
  <2>3. \A q \in Runners : tick'[q].held => tick'[q].pc \notin Scanning
    BY <1>3, <2>1, <2>2 DEF Noted, ScansUnnoted
  <2>4. Noted(b)'
    BY <2>1, <2>3 DEF Noted
  <2>5. Single'
    BY <1>3 DEF Single
  <2> QED
    BY <2>4, <2>5 DEF Kept
<1> QED
  BY <1>1, <1>2, <1>3 DEF Kept

LEMMA NewHomeIs ==
  ASSUME NEW x, NEW j, NEW b, j = idx'[x].job, b = idx'[x].bucket, Safe(j, b)',
         idx'[x].pc = "mark" => Kept(b)'
  PROVE  NewHomeAt(x)'
BY DEF NewHomeAt, Safe, Unmissed, Settled, Sweeping, Carrying, Calling, Kept, PastCursor,
       MovesBack, Noted, Single

-----------------------------------------------------------------------------
(* Steps of a runner's tick alone.                                         *)

LEMMA GoInv ==
  ASSUME IInv, TypeInv', NEW r \in Runners, NEW t, Go(r, t),
         UNCHANGED <<fleet, job, page, cursor, idx>>, ReaderAt(r)',
         \A b \in Buckets : MovesBack(r, b) => MovesBack(r, b)' \/ PastCursor(b),
         ScansUnnoted(r),
         \A j \in Jobs, b \in Buckets :
           Unsettled(j) /\ Safe(j, b) /\ Sweeping(r, b)' =>
             j \in tick'[r].todo \/ Carrying(r, j, b)
  PROVE  IInv'
<1>1. TypeInv /\ Mid /\ TypeOK /\ TypeOK'
  BY DEF IInv, TypeInv
<1>2. PagesGrow /\ \A q \in Runners : ClaimKept(q)
  BY <1>1, SamePages, SameJobClaim
<1>3. /\ \A q \in Runners : ReaderAt(q)' /\ CursorOld'
      /\ \A q \in Runners : q # r => tick'[q] = tick[q]
  BY <1>1, <1>2, ReadersGo
<1>4. \A x \in Procs : CallAt(x)'
  BY <1>1 DEF Mid, CallAt, Calling
<1>5. Mid'
  BY <1>1, <1>3, <1>4 DEF Mid, Owned, Sound, Single
<1>6. ASSUME NEW j \in Jobs, NEW b \in Buckets, Unsettled(j), Safe(j, b)
      PROVE  Safe(j, b)'
  <2>1. Settled(j, b)'
    BY <1>6 DEF Safe, Settled
  <2>2. \A q : Carrying(q, j, b) => Carrying(q, j, b)'
    BY CarryKeeps
  <2>3. Sweeping(r, b)' => j \in tick'[r].todo \/ Carrying(r, j, b)'
    BY <1>6, <2>2
  <2> QED
    BY <1>3, <1>6, <2>1, <2>2, <2>3, SafeGoes
<1>7. ASSUME NEW b \in Buckets, Kept(b) PROVE Kept(b)'
  BY <1>1, <1>3, <1>7, KeptGoes
<1>8. ASSUME NEW j \in Jobs PROVE HomeOf(j)'
  <2> SUFFICES ASSUME Accepted(j) PROVE \E b \in Buckets : Home(j, b)'
    BY DEF HomeOf, Accepted, Unsettled
  <2>1. PICK b \in Buckets : Safe(j, b) /\ Kept(b)
    BY DEF IInv, HomeOf, Home
  <2>2. Unsettled(j)
    BY DEF Accepted
  <2> QED
    BY <1>6, <1>7, <2>1, <2>2 DEF Home
<1>9. ASSUME NEW x \in Procs PROVE NewHomeAt(x)'
  <2> SUFFICES ASSUME Current(x)
               PROVE  /\ Safe(idx[x].job, idx[x].bucket)'
                      /\ idx[x].pc = "mark" => Kept(idx[x].bucket)'
    BY DEF NewHomeAt, Current, Unsettled, Safe, Kept
  <2>1. /\ Safe(idx[x].job, idx[x].bucket)
        /\ idx[x].pc = "mark" => Kept(idx[x].bucket)
    BY DEF IInv, NewHomeAt
  <2>2. idx[x].job \in Jobs /\ idx[x].bucket \in Buckets /\ Unsettled(idx[x].job)
    BY <1>1, CurrentFacts DEF Current
  <2> QED
    BY <1>6, <1>7, <2>1, <2>2
<1> QED
  BY <1>5, <1>8, <1>9 DEF IInv

LEMMA GoTick ==
  ASSUME IInv, NEW r \in Runners, NEW t, Go(r, t)
  PROVE  tick'[r] = t
BY DEF Go, IInv, TypeInv, TypeOK

LEMMA ReaderFacts ==
  ASSUME IInv, NEW r \in Runners
  PROVE  TypeInv /\ TypeOK /\ Mid /\ HeldAt(r) /\ SeenAt(r) /\ AloneAt(r) /\ FoundAt(r)
BY DEF IInv, TypeInv, Mid, ReaderAt

LEMMA StartInv ==
  ASSUME IInv, TypeInv', NEW r \in Runners, Start(r)
  PROVE  IInv'
<1>1. PICK t : /\ Go(r, t) /\ t.bucket = cursor.bucket /\ t.held = TRUE
               /\ \/ cursor.behind = NotRead /\ t.pc = "read"
                  \/ t.pc = "second" /\ t.behind = cursor.behind
  BY StartFacts, ReaderFacts
<1>2. tick'[r] = t /\ tick[r].pc = "idle"
  BY <1>1, GoTick DEF Start, At
<1>3. UNCHANGED <<fleet, job, page, cursor, idx>>
  BY DEF Start
<1>4. HeldAt(r)'
  BY <1>1, <1>2, <1>3 DEF HeldAt, Checking, Scanning, Moving, Reading
<1>5. SeenAt(r)' /\ FoundAt(r)'
  BY <1>1, <1>2 DEF SeenAt, FoundAt, Reading, Moving
<1>6. AloneAt(r)'
  BY <1>1, <1>2, <1>3 DEF AloneAt, Outrun, Checking, Moving
<1>7. ReaderAt(r)'
  BY <1>4, <1>5, <1>6 DEF ReaderAt
<1>8. ScansUnnoted(r)
  BY <1>1, <1>2 DEF ScansUnnoted, Scanning, Reading
<1>9. \A b \in Buckets : ~MovesBack(r, b) /\ ~Sweeping(r, b)'
  BY <1>1, <1>2 DEF MovesBack, Sweeping, Reading
<1> QED
  BY <1>1, <1>3, <1>7, <1>8, <1>9, GoInv

LEMMA SecondReadInv ==
  ASSUME IInv, TypeInv', NEW r \in Runners, SecondRead(r)
  PROVE  IInv'
<1>1. PICK t : /\ Go(r, t) /\ t.bucket = tick[r].bucket /\ t.held = tick[r].held
               /\ \/ t.pc = "read" /\ page[tick[r].bucket - 1].version = tick[r].behind
                  \/ t.pc = "repair" /\ t.behind = tick[r].behind
  BY SecondReadFacts, ReaderFacts
<1>2. tick'[r] = t /\ tick[r].pc = "second"
  BY <1>1, GoTick DEF SecondRead, At
<1>3. UNCHANGED <<fleet, job, page, cursor, idx>>
  BY DEF SecondRead
<1>4. tick[r].held => cursor.bucket = tick[r].bucket /\ cursor.behind = tick[r].behind
  BY <1>2, ReaderFacts DEF HeldAt, Checking
<1>5. HeldAt(r)'
  BY <1>1, <1>2, <1>3, <1>4 DEF HeldAt, Checking, Scanning, Moving, Reading
<1>6. SeenAt(r)' /\ FoundAt(r)'
  BY <1>1, <1>2 DEF SeenAt, FoundAt, Reading, Moving
<1>7. AloneAt(r)'
  BY <1>1, <1>2, <1>3, ReaderFacts DEF AloneAt, Outrun, Checking, Moving, Single
<1>8. ReaderAt(r)'
  BY <1>5, <1>6, <1>7 DEF ReaderAt
<1>9. ScansUnnoted(r)
  BY <1>1, <1>2, <1>4 DEF ScansUnnoted, Scanning, Reading
<1>10. \A b \in Buckets : ~MovesBack(r, b) /\ ~Sweeping(r, b)'
  BY <1>1, <1>2 DEF MovesBack, Sweeping, Reading
<1> QED
  BY <1>1, <1>3, <1>8, <1>9, <1>10, GoInv

\* The bucket to be read again is not past the cursor any more.
LEMMA RepairedInv ==
  ASSUME IInv, TypeInv', NEW r \in Runners, Repair(r), NEW t, Go(r, t),
         PastCursor(tick[r].bucket - 1), UNCHANGED cursor,
         t.pc = "reread", t.held = tick[r].held
  PROVE  IInv'
<1>1. tick'[r] = t /\ tick[r].pc = "repair"
  BY GoTick DEF Repair, At
<1>2. UNCHANGED <<fleet, job, page, cursor, idx>>
  BY DEF Repair
<1>3. ~tick[r].held
  <2>1. cursor.bucket <= tick[r].bucket - 1
    BY DEF PastCursor
  <2>2. cursor.bucket \in Int /\ tick[r].bucket \in Nat
    BY ReaderFacts, TypeFacts, TickFacts
  <2>3. tick[r].held => cursor.bucket = tick[r].bucket
    BY <1>1, ReaderFacts DEF HeldAt, Checking
  <2> QED
    BY <2>1, <2>2, <2>3
<1>4. HeldAt(r)'
  BY <1>1, <1>3 DEF HeldAt
<1>5. SeenAt(r)' /\ FoundAt(r)'
  BY <1>1 DEF SeenAt, FoundAt, Reading, Moving
<1>6. AloneAt(r)'
  BY <1>1, <1>2, <1>3, ReaderFacts DEF AloneAt, Outrun, Checking, Single
<1>7. ReaderAt(r)'
  BY <1>4, <1>5, <1>6 DEF ReaderAt
<1>8. ScansUnnoted(r)
  BY <1>1 DEF ScansUnnoted, Scanning, Reading
<1>9. \A b \in Buckets : ~MovesBack(r, b) /\ ~Sweeping(r, b)'
  BY <1>1 DEF MovesBack, Sweeping, Reading
<1> QED
  BY <1>2, <1>7, <1>8, <1>9, GoInv

LEMMA RereadInv ==
  ASSUME IInv, TypeInv', NEW r \in Runners, Reread(r)
  PROVE  IInv'
<1>1. PICK t : Go(r, t) /\ t.bucket = cursor.bucket /\ t.held = TRUE /\ t.pc = "read"
  BY RereadFacts, ReaderFacts
<1>2. tick'[r] = t /\ tick[r].pc = "reread"
  BY <1>1, GoTick DEF Reread, At
<1>3. UNCHANGED <<fleet, job, page, cursor, idx>>
  BY DEF Reread
<1>4. HeldAt(r)'
  BY <1>1, <1>2, <1>3 DEF HeldAt, Checking, Moving
<1>5. SeenAt(r)' /\ FoundAt(r)' /\ AloneAt(r)'
  BY <1>1, <1>2 DEF SeenAt, FoundAt, AloneAt, Outrun, Reading, Moving, Checking
<1>6. ReaderAt(r)'
  BY <1>4, <1>5 DEF ReaderAt
<1>7. ScansUnnoted(r)
  BY <1>2, ReaderFacts DEF ScansUnnoted, AloneAt, Outrun
<1>8. \A b \in Buckets : ~MovesBack(r, b) /\ ~Sweeping(r, b)'
  BY <1>1, <1>2 DEF MovesBack, Sweeping, Reading
<1> QED
  BY <1>1, <1>3, <1>6, <1>7, <1>8, GoInv

LEMMA ReadBucketInv ==
  ASSUME IInv, TypeInv', NEW r \in Runners, ReadBucket(r)
  PROVE  IInv'
<1>1. PICK t : /\ Go(r, t) /\ t.bucket = tick[r].bucket /\ t.held = tick[r].held
               /\ t.pc = "jobs" /\ t.bucket \in Buckets
               /\ t.seen = page[t.bucket].version /\ t.todo = page[t.bucket].ids
  BY ReadBucketFacts, ReaderFacts
<1>2. tick'[r] = t /\ tick[r].pc = "read"
  BY <1>1, GoTick DEF ReadBucket, At
<1>3. UNCHANGED <<fleet, job, page, cursor, idx>>
  BY DEF ReadBucket
<1>4. HeldAt(r)'
  BY <1>1, <1>2, <1>3, ReaderFacts DEF HeldAt, Checking, Scanning, Moving, Reading
<1>5. SeenAt(r)'
  <2>1. page[t.bucket].version \in Nat
    BY <1>1, ReaderFacts, TypeFacts
  <2> QED
    BY <1>1, <1>2, <1>3, <2>1 DEF SeenAt
<1>6. FoundAt(r)' /\ AloneAt(r)'
  BY <1>1, <1>2, <1>3 DEF FoundAt, AloneAt, Outrun, Moving, Checking
<1>7. ReaderAt(r)'
  BY <1>4, <1>5, <1>6 DEF ReaderAt
<1>8. ScansUnnoted(r)
  BY <1>1, <1>2 DEF ScansUnnoted, Scanning
<1>9. \A b \in Buckets : ~MovesBack(r, b)
  BY <1>2 DEF MovesBack
<1>10. \A j \in Jobs, b \in Buckets : Safe(j, b) /\ Sweeping(r, b)' => j \in tick'[r].todo
  BY <1>1, <1>2 DEF Safe, Sweeping
<1> QED
  BY <1>1, <1>3, <1>7, <1>8, <1>9, <1>10, GoInv

LEMMA ReturnInv ==
  ASSUME IInv, TypeInv', NEW r \in Runners, Return(r)
  PROVE  IInv'
<1>1. Go(r, NoTick) /\ UNCHANGED <<fleet, job, page, cursor, idx>>
  BY DEF Return
<1>2. tick'[r] = NoTick /\ tick[r].pc = "read"
  BY <1>1, GoTick DEF Return, At
<1>3. tick'[r].pc = "idle" /\ tick'[r].held = FALSE
  BY <1>2, NoTickFacts
<1>4. ReaderAt(r)'
  BY <1>3 DEF ReaderAt, HeldAt, SeenAt, FoundAt, AloneAt, Outrun, Reading, Moving, Checking
<1>5. ScansUnnoted(r) /\ \A b \in Buckets : ~MovesBack(r, b) /\ ~Sweeping(r, b)'
  BY <1>2, <1>3 DEF ScansUnnoted, MovesBack, Sweeping
<1> QED
  BY <1>1, <1>4, <1>5, GoInv

LEMMA StayInv ==
  ASSUME IInv, TypeInv', NEW r \in Runners, Stay(r)
  PROVE  IInv'
<1>1. PICK t : Go(r, t) /\ t.pc = "read" /\ t.held = FALSE
  BY StayFacts, ReaderFacts
<1>2. tick'[r] = t /\ tick[r].pc = "jobs"
  BY <1>1, GoTick DEF Stay, BucketDone, At
<1>3. UNCHANGED <<fleet, job, page, cursor, idx>>
  BY DEF Stay
<1>4. ReaderAt(r)'
  BY <1>1, <1>2
     DEF ReaderAt, HeldAt, SeenAt, FoundAt, AloneAt, Outrun, Reading, Moving, Checking
<1>5. ScansUnnoted(r) /\ \A b \in Buckets : ~MovesBack(r, b) /\ ~Sweeping(r, b)'
  BY <1>1, <1>2 DEF ScansUnnoted, MovesBack, Sweeping
<1> QED
  BY <1>1, <1>3, <1>4, <1>5, GoInv

LEMMA ReadAgainInv ==
  ASSUME IInv, TypeInv', NEW r \in Runners, ReadAgain(r)
  PROVE  IInv'
<1>1. PICK t : /\ Go(r, t) /\ t.held = tick[r].held
               /\ \/ /\ page[tick[r].bucket].version = tick[r].seen
                     /\ t.pc = "read" /\ t.bucket = tick[r].bucket + 1
                  \/ t.pc = "back" /\ t.bucket = tick[r].bucket /\ t.seen = tick[r].seen
  BY ReadAgainFacts, ReaderFacts
<1>2. tick'[r] = t /\ tick[r].pc = "again"
  BY <1>1, GoTick DEF ReadAgain, At
<1>3. UNCHANGED <<fleet, job, page, cursor, idx>>
  BY DEF ReadAgain
<1>4. tick[r].held => cursor.bucket = tick[r].bucket + 1 /\ cursor.behind = tick[r].seen
  BY <1>2, ReaderFacts DEF HeldAt, Moving
<1>5. HeldAt(r)'
  BY <1>1, <1>2, <1>3, <1>4 DEF HeldAt, Checking, Scanning, Moving, Reading
<1>6. SeenAt(r)'
  BY <1>1, <1>2, <1>3, ReaderFacts DEF SeenAt, Reading, Moving
<1>7. FoundAt(r)' /\ AloneAt(r)'
  BY <1>1, <1>2, <1>3, ReaderFacts
     DEF FoundAt, AloneAt, Outrun, Single, Reading, Moving, Checking
<1>8. ReaderAt(r)'
  BY <1>5, <1>6, <1>7 DEF ReaderAt
<1>9. tick[r].bucket \in Nat
  BY ReaderFacts, TickFacts
<1>10. ScansUnnoted(r)
  BY <1>1, <1>2, <1>4, <1>9 DEF ScansUnnoted, Scanning, Reading
<1>11. \A b \in Buckets : MovesBack(r, b) => MovesBack(r, b)'
  BY <1>1, <1>2, <1>9, BucketFacts DEF MovesBack
<1>12. \A b \in Buckets : ~Sweeping(r, b)'
  BY <1>1, <1>2 DEF Sweeping, Reading
<1> QED
  BY <1>1, <1>3, <1>8, <1>10, <1>11, <1>12, GoInv

\* The bucket to move back to is not past the cursor any more.
LEMMA MovedBackInv ==
  ASSUME IInv, TypeInv', NEW r \in Runners, MoveBack(r), NEW t, Go(r, t),
         PastCursor(tick[r].bucket), UNCHANGED cursor, t.pc = "read", t.held = FALSE
  PROVE  IInv'
<1>1. tick'[r] = t /\ tick[r].pc = "back"
  BY GoTick DEF MoveBack, At
<1>2. UNCHANGED <<fleet, job, page, cursor, idx>>
  BY DEF MoveBack
<1>3. ReaderAt(r)'
  BY <1>1 DEF ReaderAt, HeldAt, SeenAt, FoundAt, AloneAt, Outrun, Reading, Moving, Checking
<1>4. ScansUnnoted(r) /\ \A b \in Buckets : ~Sweeping(r, b)'
  BY <1>1 DEF ScansUnnoted, Sweeping
<1>5. cursor.bucket \in Int /\ tick[r].bucket \in Nat
  BY ReaderFacts, TypeFacts, TickFacts
<1>6. \A b \in Buckets : MovesBack(r, b) => PastCursor(b)
  BY <1>1, <1>5, BucketFacts DEF MovesBack, PastCursor
<1> QED
  BY <1>2, <1>3, <1>4, <1>6, GoInv

LEMMA CancelledInv ==
  ASSUME IInv, TypeInv', NEW r \in Runners, Cancelled(r)
  PROVE  IInv'
<1> DEFINE j0 == tick[r].job
<1>1. PICK t : /\ Go(r, t) /\ t.pc = "jobs" /\ SameBucket(tick[r], t)
               /\ t.todo = tick[r].todo \ {j0}
               /\ t.settled = (tick[r].settled /\ job[j0].state = "cancelled")
  BY CancelledFacts, ReaderFacts
<1>2. tick'[r] = t /\ tick[r].pc = "run" /\ idx[r].pc = "none"
  BY <1>1, GoTick DEF Cancelled, At
<1>3. UNCHANGED <<fleet, job, page, cursor, idx>>
  BY DEF Cancelled
<1>4. HeldAt(r)' /\ SeenAt(r)'
  BY <1>1, <1>2, <1>3, ReaderFacts
     DEF HeldAt, SeenAt, SameBucket, Checking, Scanning, Moving, Reading
<1>5. FoundAt(r)'
  BY <1>1, <1>2, <1>3, ReaderFacts DEF FoundAt, SameBucket, Reading
<1>6. AloneAt(r)'
  BY <1>1, <1>2 DEF AloneAt, Outrun, Checking, Moving
<1>7. ReaderAt(r)'
  BY <1>4, <1>5, <1>6 DEF ReaderAt
<1>8. ScansUnnoted(r)
  BY <1>1, <1>2 DEF ScansUnnoted, Scanning, Reading, SameBucket
<1>9. \A b \in Buckets : ~MovesBack(r, b)
  BY <1>2 DEF MovesBack
<1>10. ASSUME NEW j \in Jobs, NEW b \in Buckets, Unsettled(j), Safe(j, b), Sweeping(r, b)'
       PROVE  j \in tick'[r].todo \/ Carrying(r, j, b)
  <2>1. job[j0].state = "cancelled" /\ tick[r].settled
    BY <1>1, <1>2, <1>10 DEF Sweeping
  <2>2. Sweeping(r, b)
    BY <1>1, <1>2, <1>3, <1>10, <2>1 DEF Sweeping, SameBucket, Reading
  <2>3. j # j0
    BY <1>10, <2>1 DEF Unsettled
  <2>4. j \in tick[r].todo \/ Carrying(r, j, b)
    BY <1>10, <2>2 DEF Safe, Unmissed
  <2> QED
    BY <1>1, <1>2, <2>3, <2>4
<1> QED
  BY <1>1, <1>3, <1>7, <1>8, <1>9, <1>10, GoInv

-----------------------------------------------------------------------------
(* Steps that leave the ticks, the pages and the cursor.                   *)

\* A call that is under way goes on with its job's move.
GoesOn(q) ==
  Calling(q) => /\ Calling(q)' /\ idx'[q].job = idx[q].job
                /\ idx'[q].move = idx[q].move /\ idx'[q].due = idx[q].due

LEMMA CarryGoesOn ==
  ASSUME NEW q, NEW j, NEW b, Carrying(q, j, b), GoesOn(q), job'[j].moves = job[j].moves
  PROVE  Carrying(q, j, b)'
BY DEF Carrying, GoesOn

\* Nobody is indexing the move of job j that this step makes.
NewMove(j) ==
  /\ ~job'[j].known
  /\ \A x \in Procs : Calling(x) /\ idx[x].job = j => idx[x].move # job'[j].moves

\* A job that is to be run is the one it was, or this step makes it one.
JobGoesOn(j) ==
  Unsettled(j)' => \/ /\ Unsettled(j) /\ SameMove(j)
                      /\ job'[j].known => job[j].known
                   \/ NewMove(j)

\* Call x is not about to mark a job.
NotMarking(x) ==
  idx'[x].pc \notin {"lower", "mark"} /\ CallAt(x)' /\ (x \in Runners => GoesOn(x))

LEMMA StillInv ==
  ASSUME IInv, TypeInv', UNCHANGED <<fleet, tick, page, cursor>>,
         \A q \in Runners : ClaimKept(q), Owned',
         \A j \in Jobs : JobGoesOn(j) /\ (job[j].state # "absent" => MovesOn(j)),
         \A x \in Procs : idx'[x] = idx[x] \/ NotMarking(x)
  PROVE  IInv'
<1>1. TypeInv /\ Mid /\ TypeOK /\ TypeOK'
  BY DEF IInv, TypeInv
<1>2. PagesGrow
  BY <1>1, SamePages
<1>3. (\A q \in Runners : ReaderAt(q)') /\ CursorOld'
  BY <1>1, <1>2, ReadersStay
<1>4. ASSUME NEW x \in Procs PROVE CallAt(x)'
  <2>1. CASE idx'[x] = idx[x]
    <3>1. idx[x].job \in Jobs /\ CallAt(x)
      BY <1>1, TypeFacts DEF Mid
    <3> QED
      BY <1>1, <1>2, <2>1, <3>1, CallKeeps
  <2>2. CASE NotMarking(x)
    BY <2>2 DEF NotMarking
  <2> QED
    BY <2>1, <2>2
<1>5. Mid'
  BY <1>1, <1>3, <1>4 DEF Mid, Sound, Single
<1>6. \A q \in Runners : GoesOn(q)
  BY <1>1, TypeFacts DEF GoesOn, NotMarking, Calling
<1>7. ASSUME NEW j \in Jobs, NEW b \in Buckets, Safe(j, b), SameMove(j)
      PROVE  Safe(j, b)'
  <2>1. Settled(j, b)'
    BY <1>7, SettledKeeps DEF Safe
  <2>2. \A q \in Runners : Carrying(q, j, b) => Carrying(q, j, b)'
    BY <1>6, <1>7, CarryGoesOn DEF SameMove
  <2> QED
    BY <1>7, <2>1, <2>2, SafeStays
<1>8. ASSUME NEW j \in Jobs PROVE HomeOf(j)'
  <2> SUFFICES ASSUME Accepted(j)' PROVE \E b \in Buckets : Home(j, b)'
    BY DEF HomeOf
  <2>1. Unsettled(j) /\ SameMove(j) /\ job[j].known
    BY DEF Accepted, JobGoesOn, NewMove
  <2>2. PICK b \in Buckets : Safe(j, b) /\ Kept(b)
    BY <2>1 DEF IInv, HomeOf, Home, Accepted
  <2> QED
    BY <1>7, <2>1, <2>2, KeptStays DEF Home
<1>9. ASSUME NEW x \in Procs PROVE NewHomeAt(x)'
  <2> SUFFICES ASSUME Current(x)' PROVE NewHomeAt(x)'
    BY DEF NewHomeAt
  <2>1. idx'[x] = idx[x] /\ idx[x].pc \in {"lower", "mark"}
    BY DEF Current, NotMarking
  <2>2. PICK j \in Jobs, b \in Buckets : j = idx[x].job /\ b = idx[x].bucket
    BY <1>1, TypeFacts
  <2>3. Unsettled(j)' /\ idx[x].move = job'[j].moves
    BY <2>1, <2>2 DEF Current, Unsettled
  <2>4. Calling(x)
    BY <2>1 DEF Calling
  <2>5. Unsettled(j) /\ SameMove(j)
    BY <2>2, <2>3, <2>4 DEF JobGoesOn, NewMove
  <2>6. Current(x)
    BY <2>1, <2>2, <2>3, <2>5 DEF Current, SameMove
  <2>7. Safe(j, b) /\ (idx[x].pc = "mark" => Kept(b))
    BY <2>2, <2>6 DEF IInv, NewHomeAt
  <2>8. Safe(j, b)' /\ (idx[x].pc = "mark" => Kept(b)')
    BY <1>7, <2>5, <2>7, KeptStays
  <2>9. j = idx'[x].job /\ b = idx'[x].bucket /\ idx'[x].pc = idx[x].pc
    BY <2>1, <2>2
  <2> QED
    BY <2>8, <2>9, NewHomeIs
<1> QED
  BY <1>5, <1>8, <1>9 DEF IInv

LEMMA SameJobsGoOn ==
  ASSUME UNCHANGED job
  PROVE  \A j \in Jobs : JobGoesOn(j) /\ MovesOn(j)
BY DEF JobGoesOn, MovesOn, SameMove, Unsettled

LEMMA IdxAt ==
  ASSUME TypeOK, NEW x \in Procs, NEW i, idx' = [idx EXCEPT ![x] = i]
  PROVE  idx'[x] = i /\ \A y \in Procs : y # x => idx'[y] = idx[y]
BY DEF TypeOK

LEMMA JobAt ==
  ASSUME TypeOK, NEW j \in Jobs, NEW d, job' = [job EXCEPT ![j] = d]
  PROVE  job'[j] = d /\ \A k \in Jobs : k # j => job'[k] = job[k]
BY DEF TypeOK

LEMMA TickInv ==
  ASSUME IInv, TypeInv', Tick
  PROVE  IInv'
<1>1. UNCHANGED <<fleet, tick, page, cursor, job, idx>>
  BY DEF Tick
<1>2. Owned'
  BY <1>1 DEF Owned, IInv, Mid
<1> QED
  BY <1>1, <1>2, SameJobsGoOn, SameJobClaim, StillInv

LEMMA IndexBucketInv ==
  ASSUME IInv, TypeInv', NEW x \in Procs, IndexBucket(x)
  PROVE  IInv'
<1>1. UNCHANGED <<fleet, tick, page, cursor, job>> /\ idx[x].pc = "bucket"
  BY DEF IndexBucket
<1>2. TypeOK /\ CallAt(x) /\ idx[x] \in IndexState
  BY TypeFacts DEF IInv, Mid, TypeInv
<1>3. PICK b \in Buckets : b = Later(Bucket(idx[x].due), Bucket(now))
  BY <1>2, TypeFacts, BucketFacts DEF Later
<1>4. PICK i : i = [idx[x] EXCEPT !.pc = "page", !.bucket = b] /\ idx' = [idx EXCEPT ![x] = i]
  BY <1>3 DEF IndexBucket
<1>5. /\ i.pc = "page" /\ i.bucket = b /\ i.job = idx[x].job /\ i.due = idx[x].due
      /\ i.move = idx[x].move
  BY <1>2, <1>4 DEF IndexState
<1>6. idx'[x] = i /\ \A y \in Procs : y # x => idx'[y] = idx[y]
  BY <1>2, <1>4, IdxAt
<1>7. Bucket(idx[x].due) <= b
  BY <1>2, <1>3, TypeFacts, BucketFacts DEF Later
<1>8. CallAt(x)'
  BY <1>1, <1>2, <1>5, <1>6, <1>7 DEF CallAt, Calling
<1>9. NotMarking(x)
  BY <1>1, <1>5, <1>6, <1>8 DEF NotMarking, GoesOn, Calling
<1>10. Owned'
  BY <1>1 DEF Owned, IInv, Mid
<1> QED
  BY <1>1, <1>6, <1>9, <1>10, SameJobsGoOn, SameJobClaim, StillInv

LEMMA CallAgainInv ==
  ASSUME IInv, TypeInv', NEW w \in Writers, NEW j \in Jobs, CallAgain(w, j)
  PROVE  IInv'
<1>1. /\ UNCHANGED <<fleet, tick, page, cursor, job>> /\ idx[w].pc = "none" /\ Unsettled(j)
  BY DEF CallAgain
<1>2. TypeOK /\ w \in Procs /\ w \notin Runners
  BY ProcsAssumption DEF IInv, TypeInv, Procs
<1>3. PICK i : i = Indexing(j, job[j].due, job[j].moves) /\ idx' = [idx EXCEPT ![w] = i]
  BY DEF CallAgain
<1>4. i.pc = "bucket" /\ i.job = j /\ i.due = job[j].due /\ i.move = job[j].moves
  BY <1>2, <1>3, TypeFacts, IndexingFacts
<1>5. idx'[w] = i /\ \A y \in Procs : y # w => idx'[y] = idx[y]
  BY <1>2, <1>3, IdxAt
<1>6. CallAt(w)'
  <2>1. job[j].moves <= job[j].moves
    BY <1>2, TypeFacts, TimesAssumption
  <2> QED
    BY <1>1, <1>4, <1>5, <2>1 DEF CallAt, Unsettled
<1>7. NotMarking(w)
  BY <1>2, <1>4, <1>5, <1>6 DEF NotMarking
<1>8. Owned'
  BY <1>1 DEF Owned, IInv, Mid
<1> QED
  BY <1>1, <1>5, <1>7, <1>8, SameJobsGoOn, SameJobClaim, StillInv

LEMMA CallFailsInv ==
  ASSUME IInv, TypeInv', NEW w \in Writers, CallFails(w)
  PROVE  IInv'
<1>1. UNCHANGED <<fleet, tick, page, cursor, job>>
  BY DEF CallFails
<1>2. TypeOK /\ w \in Procs /\ w \notin Runners
  BY ProcsAssumption DEF IInv, TypeInv, Procs
<1>3. idx'[w] = Returned(w) /\ \A y \in Procs : y # w => idx'[y] = idx[y]
  BY <1>2, IdxAt DEF CallFails
<1>4. idx'[w].pc \in {"none", "done"}
  BY <1>3, NoIndexFacts
<1>5. NotMarking(w)
  BY <1>2, <1>4 DEF NotMarking, CallAt, Calling
<1>6. Owned'
  BY <1>1 DEF Owned, IInv, Mid
<1> QED
  BY <1>1, <1>3, <1>5, <1>6, SameJobsGoOn, SameJobClaim, StillInv

\* A step of the application on one job's record.
LEMMA JobInv ==
  ASSUME IInv, TypeInv', UNCHANGED <<fleet, tick, page, cursor>>,
         NEW j \in Jobs, NEW d, job' = [job EXCEPT ![j] = d],
         d.by = NoRunner \/ (d.by = job[j].by /\ d.due = job[j].due /\ d.state = job[j].state),
         d.state # "absent", JobGoesOn(j), job[j].state # "absent" => MovesOn(j),
         \A x \in Procs : idx'[x] = idx[x] \/ NotMarking(x)
  PROVE  IInv'
<1>1. TypeOK /\ Owned /\ TypeInv
  BY DEF IInv, TypeInv, Mid
<1>2. job'[j] = d /\ \A k \in Jobs : k # j => job'[k] = job[k]
  BY <1>1, JobAt
<1>3. ASSUME NEW q \in Runners PROVE ClaimKept(q)
  <2>1. tick[q].job \in Jobs /\ q # NoRunner
    BY <1>1, TickFacts, ProcsAssumption
  <2> QED
    BY <1>2, <2>1 DEF ClaimKept
<1>4. Owned'
  BY <1>1, <1>2 DEF Owned
<1>5. \A k \in Jobs : JobGoesOn(k) /\ (job[k].state # "absent" => MovesOn(k))
  BY <1>2 DEF JobGoesOn, MovesOn, SameMove, Unsettled
<1> QED
  BY <1>3, <1>4, <1>5, StillInv

LEMMA CancelInv ==
  ASSUME IInv, TypeInv', NEW j \in Jobs, Cancel(j) \/ LeaseExpires(j)
  PROVE  IInv'
<1>1. UNCHANGED <<fleet, tick, page, cursor, idx>> /\ Unsettled(j)
  BY DEF Cancel, LeaseExpires, Held, Unsettled
<1>2. TypeOK /\ job[j] \in JobRecord
  BY TypeFacts DEF IInv, TypeInv
<1>3. PICK d : /\ job' = [job EXCEPT ![j] = d]
               /\ \/ d = [job[j] EXCEPT !.state = "cancelled", !.by = NoRunner]
                  \/ d = [job[j] EXCEPT !.live = FALSE]
  BY DEF Cancel, LeaseExpires
<1>4. /\ d.due = job[j].due /\ d.moves = job[j].moves /\ d.indexed = job[j].indexed
      /\ d.known = job[j].known
      /\ \/ d.state = "cancelled" /\ d.by = NoRunner
         \/ d.state = job[j].state /\ d.by = job[j].by
  BY <1>2, <1>3 DEF JobRecord
<1>5. job'[j] = d
  BY <1>2, <1>3, JobAt
<1>6. JobGoesOn(j) /\ MovesOn(j) /\ d.state # "absent"
  BY <1>1, <1>4, <1>5 DEF JobGoesOn, MovesOn, SameMove, Unsettled
<1> QED
  BY <1>1, <1>3, <1>4, <1>6, JobInv

LEMMA ScheduleInv ==
  ASSUME IInv, TypeInv', NEW w \in Writers, NEW j \in Jobs, NEW due \in 0..MaxTime,
         Schedule(w, j, due)
  PROVE  IInv'
<1>1. /\ UNCHANGED <<fleet, tick, page, cursor>>
      /\ job[j].state = "absent" /\ idx[w].pc = "none"
  BY DEF Schedule
<1>2. /\ TypeOK /\ Owned /\ w \in Procs /\ w \notin Runners /\ job[j] \in JobRecord
      /\ job[j].moves \in Nat /\ \A x \in Procs : CallAt(x)
  BY ProcsAssumption, TimesAssumption, TypeFacts DEF IInv, TypeInv, Mid, Procs
<1>3. PICK d : d = [job[j] EXCEPT !.state = "pending", !.due = due]
               /\ job' = [job EXCEPT ![j] = d]
  BY DEF Schedule
<1>4. /\ d.state = "pending" /\ d.due = due /\ d.moves = job[j].moves /\ d.by = job[j].by
      /\ d.known = job[j].known
  BY <1>2, <1>3 DEF JobRecord
<1>5. d.by = NoRunner /\ ~d.known
  BY <1>1, <1>2, <1>4 DEF Owned
<1>6. job'[j] = d
  BY <1>2, <1>3, JobAt
<1>7. \A x \in Procs : Calling(x) => idx[x].job # j
  BY <1>1, <1>2 DEF CallAt
<1>8. JobGoesOn(j)
  BY <1>5, <1>6, <1>7 DEF JobGoesOn, NewMove
<1>9. PICK i : i = Indexing(j, due, 0) /\ idx' = [idx EXCEPT ![w] = i]
  BY DEF Schedule
<1>10. i.pc = "bucket" /\ i.job = j /\ i.due = due /\ i.move = 0
  BY <1>9, IndexingFacts, TimesAssumption
<1>11. idx'[w] = i /\ \A y \in Procs : y # w => idx'[y] = idx[y]
  BY <1>2, <1>9, IdxAt
<1>12. CallAt(w)'
  BY <1>2, <1>4, <1>6, <1>10, <1>11 DEF CallAt
<1>13. NotMarking(w)
  BY <1>2, <1>10, <1>11, <1>12 DEF NotMarking
<1> QED
  BY <1>1, <1>3, <1>4, <1>5, <1>8, <1>11, <1>13, JobInv

LEMMA RerunInv ==
  ASSUME IInv, TypeInv', NEW w \in Writers, NEW j \in Jobs, NEW due \in 0..MaxTime,
         Rerun(w, j, due)
  PROVE  IInv'
<1>1. /\ UNCHANGED <<fleet, tick, page, cursor>>
      /\ job[j].state \in {"done", "cancelled"} /\ idx[w].pc = "none"
      /\ job[j].moves < MaxMoves
  BY DEF Rerun
<1>2. /\ TypeOK /\ Owned /\ w \in Procs /\ w \notin Runners /\ job[j] \in JobRecord
      /\ job[j].moves \in Nat /\ \A x \in Procs : CallAt(x)
  BY ProcsAssumption, TimesAssumption, TypeFacts DEF IInv, TypeInv, Mid, Procs
<1>3. PICK n \in 0..MaxMoves : n = job[j].moves + 1
  BY <1>1, <1>2, TimesAssumption
<1>4. PICK d : /\ d = [job[j] EXCEPT !.state = "pending", !.due = due, !.moves = n,
                                     !.known = FALSE, !.indexed = FALSE]
               /\ job' = [job EXCEPT ![j] = d]
  BY <1>3 DEF Rerun
<1>5. /\ d.state = "pending" /\ d.due = due /\ d.moves = n /\ d.by = job[j].by
      /\ d.known = FALSE
  BY <1>2, <1>4 DEF JobRecord
<1>6. d.by = NoRunner
  BY <1>1, <1>2, <1>5 DEF Owned
<1>7. job'[j] = d
  BY <1>2, <1>4, JobAt
<1>8. ASSUME NEW x \in Procs, Calling(x), idx[x].job = j PROVE idx[x].move # n
  <2>1. idx[x].move <= job[j].moves /\ idx[x].move \in Nat
    BY <1>2, <1>8, TypeFacts, TimesAssumption DEF CallAt
  <2> QED
    BY <1>2, <1>3, <2>1
<1>9. JobGoesOn(j) /\ MovesOn(j)
  BY <1>2, <1>3, <1>5, <1>7, <1>8 DEF JobGoesOn, NewMove, MovesOn
<1>10. PICK i : i = Indexing(j, due, n) /\ idx' = [idx EXCEPT ![w] = i]
  BY <1>3 DEF Rerun
<1>11. i.pc = "bucket" /\ i.job = j /\ i.due = due /\ i.move = n
  BY <1>10, IndexingFacts
<1>12. idx'[w] = i /\ \A y \in Procs : y # w => idx'[y] = idx[y]
  BY <1>2, <1>10, IdxAt
<1>13. CallAt(w)'
  BY <1>3, <1>2, <1>5, <1>7, <1>11, <1>12 DEF CallAt
<1>14. NotMarking(w)
  BY <1>2, <1>11, <1>12, <1>13 DEF NotMarking
<1> QED
  BY <1>1, <1>4, <1>5, <1>6, <1>9, <1>12, <1>14, JobInv

-----------------------------------------------------------------------------
(* The end of a call of index: the job it marks has the call's page for a  *)
(* home.                                                                   *)

\* A step that leaves the jobs' moves, and who runs them.
SameRecord(j) ==
  /\ job'[j].state = job[j].state /\ job'[j].moves = job[j].moves
  /\ job'[j].due = job[j].due /\ job'[j].by = job[j].by

LEMMA MarkIndexedFacts ==
  ASSUME TypeInv, NEW x \in Procs, MarkIndexed(x), NEW j \in Jobs, j = idx[x].job
  PROVE  /\ UNCHANGED <<fleet, page, cursor, tick>> /\ idx[x].pc = "mark"
         /\ idx'[x].pc \in {"none", "done"} /\ \A y \in Procs : y # x => idx'[y] = idx[y]
         /\ \A k \in Jobs : /\ SameRecord(k)
                            /\ job'[k] = job[k] \/ (k = j /\ Current(x))
         /\ job[j].state = "absent" => job' = job
<1>1. TypeOK /\ job[j] \in JobRecord
  BY TypeFacts DEF TypeInv
<1>2. UNCHANGED <<fleet, page, cursor, tick>> /\ idx[x].pc = "mark"
  BY DEF MarkIndexed
<1>3. idx'[x] = Returned(x) /\ \A y \in Procs : y # x => idx'[y] = idx[y]
  BY <1>1, IdxAt DEF MarkIndexed
<1>4. idx'[x].pc \in {"none", "done"}
  BY <1>3, NoIndexFacts
<1>5. PICK d : d = [job[j] EXCEPT !.indexed = TRUE, !.known = TRUE]
  OBVIOUS
<1>6. /\ d.state = job[j].state /\ d.moves = job[j].moves /\ d.due = job[j].due
      /\ d.by = job[j].by
  BY <1>1, <1>5 DEF JobRecord
<1>7. \/ job' = job
      \/ Unsettled(j) /\ job[j].moves = idx[x].move /\ job' = [job EXCEPT ![j] = d]
  BY <1>5 DEF MarkIndexed
<1>8. CASE job' = job
  BY <1>2, <1>3, <1>4, <1>8 DEF SameRecord
<1>9. CASE Unsettled(j) /\ job[j].moves = idx[x].move /\ job' = [job EXCEPT ![j] = d]
  <2>1. job'[j] = d /\ \A k \in Jobs : k # j => job'[k] = job[k]
    BY <1>1, <1>9, JobAt
  <2>2. Current(x)
    BY <1>2, <1>9 DEF Current
  <2>3. job[j].state # "absent"
    BY <1>9 DEF Unsettled
  <2> QED
    BY <1>2, <1>3, <1>4, <1>6, <2>1, <2>2, <2>3 DEF SameRecord
<1> QED
  BY <1>7, <1>8, <1>9

LEMMA MarkIndexedInv ==
  ASSUME IInv, TypeInv', NEW x \in Procs, MarkIndexed(x)
  PROVE  IInv'
<1>1. TypeInv /\ TypeOK /\ Mid /\ TypeOK' /\ Owned /\ \A y \in Procs : CallAt(y)
  BY DEF IInv, TypeInv, Mid
<1>2. PICK j \in Jobs, c \in Buckets : j = idx[x].job /\ c = idx[x].bucket
  BY <1>1, TypeFacts
<1>3. /\ UNCHANGED <<fleet, page, cursor, tick>> /\ idx[x].pc = "mark"
      /\ idx'[x].pc \in {"none", "done"} /\ \A y \in Procs : y # x => idx'[y] = idx[y]
      /\ \A k \in Jobs : /\ SameRecord(k)
                         /\ job'[k] = job[k] \/ (k = j /\ Current(x))
      /\ job[j].state = "absent" => job' = job
  BY <1>1, <1>2, MarkIndexedFacts
<1>4. Mid'
  <2>1. \A q \in Runners : ClaimKept(q)
    BY <1>1, <1>3, TickFacts DEF ClaimKept, SameRecord
  <2>2. (\A q \in Runners : ReaderAt(q)') /\ CursorOld'
    BY <1>1, <1>3, <2>1, SamePages, ReadersStay
  <2>3. Owned'
    BY <1>1, <1>3, ZenonT(60) DEF Owned, SameRecord
  <2>4. ASSUME NEW y \in Procs, y # x PROVE CallAt(y)'
    <3>1. MovesOn(idx[y].job)
      BY <1>1, <1>3, TypeFacts DEF SameRecord, MovesOn
    <3> QED
      BY <1>1, <1>3, <2>4, <3>1, SamePages, CallKeeps
  <2>5. CallAt(x)'
    BY <1>3 DEF CallAt, Calling
  <2> QED
    BY <1>1, <1>3, <2>2, <2>3, <2>4, <2>5 DEF Mid, Sound, Single
<1>5. \A k \in Jobs : Unsettled(k)' = Unsettled(k)
  BY <1>3 DEF SameRecord, Unsettled
\* A page at or past the one the job is due in stays safe.
<1>6. ASSUME NEW k \in Jobs, NEW b \in Buckets, Unsettled(k), Safe(k, b),
             k = j /\ Current(x) => Bucket(job[j].due) <= b
      PROVE  Safe(k, b)'
  <2>1. Settled(k, b)'
    BY <1>3, <1>6 DEF Settled, Safe, SameRecord
  <2>2. ASSUME NEW q \in Runners, Carrying(q, k, b) PROVE Carrying(q, k, b)'
    <3>1. q \in Procs
      BY <1>1, TypeFacts
    <3>2. q # x
      <4> SUFFICES ASSUME q = x PROVE FALSE
        OBVIOUS
      <4>1. k = j /\ Current(x)
        BY <1>2, <1>3, <1>6, <2>2 DEF Carrying, Current
      <4> QED
        BY <1>1, <1>6, <2>2, <4>1, NotCarried
    <3> QED
      BY <1>3, <2>2, <3>1, <3>2, CarryKeeps DEF SameRecord
  <2> QED
    BY <1>3, <1>6, <2>1, <2>2, SafeStays
<1>7. ASSUME Current(x)
      PROVE  Safe(j, c) /\ Kept(c) /\ Bucket(job[j].due) <= c /\ Unsettled(j)
  BY <1>1, <1>2, <1>3, <1>7, CurrentFacts DEF IInv, NewHomeAt, Current
<1>8. ASSUME NEW k \in Jobs PROVE HomeOf(k)'
  <2> SUFFICES ASSUME Accepted(k)' PROVE \E b \in Buckets : Home(k, b)'
    BY DEF HomeOf
  <2>1. Unsettled(k)
    BY <1>5 DEF Accepted
  <2>2. CASE k = j /\ Current(x)
    BY <1>3, <1>6, <1>7, <2>2, KeptStays DEF Home
  <2>3. CASE ~(k = j /\ Current(x))
    <3>1. Accepted(k)
      BY <1>3, <2>1, <2>3 DEF Accepted
    <3>2. PICK b \in Buckets : Safe(k, b) /\ Kept(b)
      BY <3>1 DEF IInv, HomeOf, Home
    <3> QED
      BY <1>3, <1>6, <2>1, <2>3, <3>2, KeptStays DEF Home
  <2> QED
    BY <2>2, <2>3
<1>9. ASSUME NEW y \in Procs PROVE NewHomeAt(y)'
  <2> SUFFICES ASSUME Current(y)' PROVE NewHomeAt(y)'
    BY DEF NewHomeAt
  <2>1. y # x /\ idx'[y] = idx[y]
    BY <1>3 DEF Current
  <2>2. PICK k \in Jobs, b \in Buckets : k = idx[y].job /\ b = idx[y].bucket
    BY <1>1, TypeFacts
  <2>3. Current(y)
    BY <1>3, <2>1, <2>2 DEF Current, Unsettled, SameRecord
  <2>4. Safe(k, b) /\ (idx[y].pc = "mark" => Kept(b)) /\ Unsettled(k)
    BY <2>2, <2>3 DEF IInv, NewHomeAt, Current
  <2>5. Bucket(job[k].due) <= b
    BY <1>1, <2>2, <2>3, CurrentFacts
  <2>6. Safe(k, b)' /\ (idx[y].pc = "mark" => Kept(b)')
    BY <1>3, <1>6, <2>4, <2>5, KeptStays
  <2> QED
    BY <2>1, <2>2, <2>6, NewHomeIs
<1> QED
  BY <1>4, <1>8, <1>9 DEF IInv

-----------------------------------------------------------------------------
(* A page is written: nobody sweeps it as it is now.                       *)

LEMMA IndexPageInv ==
  ASSUME IInv, TypeInv', NEW x \in Procs, IndexPage(x)
  PROVE  IInv'
<1>1. TypeInv /\ TypeOK /\ Mid /\ TypeOK' /\ \A y \in Procs : CallAt(y)
  BY DEF IInv, TypeInv, Mid
<1>2. PICK j \in Jobs, c \in Buckets : j = idx[x].job /\ c = idx[x].bucket
  BY <1>1, TypeFacts
<1>3. UNCHANGED <<fleet, job, cursor, tick>> /\ idx[x].pc = "page"
  BY DEF IndexPage
<1>4. /\ page'[c].version = page[c].version + 1 /\ page'[c].ids = page[c].ids \cup {j}
      /\ \A b \in Buckets : b # c => page'[b] = page[b]
  BY <1>1, <1>2 DEF IndexPage, TypeOK
<1>5. PICK i : i = [idx[x] EXCEPT !.pc = "lower"] /\ idx' = [idx EXCEPT ![x] = i]
  BY DEF IndexPage
<1>6. /\ i.pc = "lower" /\ i.job = j /\ i.bucket = c /\ i.due = idx[x].due
      /\ i.move = idx[x].move
  <2>1. idx[x] \in IndexState
    BY <1>1, TypeFacts
  <2> QED
    BY <1>2, <1>5, <2>1 DEF IndexState
<1>7. idx'[x] = i /\ \A y \in Procs : y # x => idx'[y] = idx[y]
  BY <1>1, <1>5, IdxAt
<1>8. \A b \in Buckets : page[b].version \in Nat
  BY <1>1, TypeFacts
<1>9. PagesGrow
  BY <1>4, <1>8 DEF PagesGrow
<1>10. \A q \in Procs : GoesOn(q)
  BY <1>2, <1>3, <1>6, <1>7 DEF GoesOn, Calling
<1>11. Mid'
  <2>1. (\A q \in Runners : ReaderAt(q)') /\ CursorOld'
    BY <1>1, <1>3, <1>9, SameJobClaim, ReadersStay
  <2>2. \A y \in Procs : y # x => CallAt(y)'
    BY <1>1, <1>3, <1>7, <1>9, SameJobMoves, TypeFacts, CallKeeps
  <2>3. CallAt(x)'
    BY <1>1, <1>2, <1>3, <1>4, <1>6, <1>7 DEF CallAt, Calling
  <2> QED
    BY <1>1, <1>3, <2>1, <2>2, <2>3 DEF Mid, Owned, Sound, Single
\* What was read of the page is not its new version.
<1>12. \A q \in Runners, b \in Buckets : Sweeping(q, b)' => b # c /\ Sweeping(q, b)
  <2> SUFFICES ASSUME NEW q \in Runners, NEW b \in Buckets, Sweeping(q, b)'
               PROVE  b # c /\ Sweeping(q, b)
    OBVIOUS
  <2>1. /\ tick[q].pc \in Reading /\ tick[q].bucket = b /\ tick[q].settled /\ tick[q].held
        /\ tick[q].seen = page'[b].version
    BY <1>3 DEF Sweeping
  <2>2. tick[q].seen <= page[b].version
    BY <1>1, <2>1 DEF Mid, ReaderAt, SeenAt
  <2>3. b # c
    BY <1>4, <1>8, <2>1, <2>2
  <2> QED
    BY <1>4, <2>1, <2>3 DEF Sweeping
<1>13. ASSUME NEW k \in Jobs, NEW b \in Buckets, Settled(k, b), k \in page'[b].ids,
              b # c => Safe(k, b)
       PROVE  Safe(k, b)'
  <2>1. Settled(k, b)'
    BY <1>3, <1>13 DEF Settled
  <2>2. ASSUME NEW q \in Runners, Sweeping(q, b)'
        PROVE  k \in tick[q].todo \/ Carrying(q, k, b)'
    <3>1. b # c /\ Sweeping(q, b) /\ q \in Procs
      BY <1>1, <1>12, <2>2, TypeFacts
    <3>2. k \in tick[q].todo \/ Carrying(q, k, b)
      BY <1>13, <3>1 DEF Safe, Unmissed
    <3> QED
      BY <1>3, <1>10, <3>1, <3>2, CarryGoesOn
  <2>3. Unmissed(k, b)'
    BY <1>3, <2>2 DEF Unmissed
  <2> QED
    BY <1>13, <2>1, <2>3 DEF Safe
<1>14. ASSUME NEW b \in Buckets, Kept(b) PROVE Kept(b)'
  <2>1. ASSUME NEW q \in Runners, MovesBack(q, b) PROVE MovesBack(q, b)'
    <3>1. CASE tick[q].pc = "back" /\ tick[q].bucket <= b
      BY <1>3, <3>1 DEF MovesBack
    <3>2. CASE tick[q].pc = "again" /\ tick[q].bucket = b /\ tick[q].seen # page[b].version
      <4>1. tick[q].seen <= page[b].version /\ tick[q].seen \in Nat
        BY <1>1, <3>2, TickFacts DEF Mid, ReaderAt, SeenAt, Moving
      <4>2. tick[q].seen # page'[b].version
        BY <1>4, <1>8, <3>2, <4>1
      <4> QED
        BY <1>3, <3>2, <4>2 DEF MovesBack
    <3> QED
      BY <2>1, <3>1, <3>2 DEF MovesBack
  <2>2. ASSUME Noted(b) PROVE Noted(b)'
    <3>1. cursor.bucket - 1 = b /\ cursor.behind # NotRead
      BY <2>2, BucketFacts DEF Noted
    <3>2. cursor.behind <= page[b].version /\ cursor.behind \in Nat
      BY <1>1, <3>1, CursorBehind DEF Mid, CursorOld
    <3>3. cursor.behind # page'[b].version
      BY <1>4, <1>8, <2>2, <3>2 DEF Noted
    <3> QED
      BY <1>3, <2>2, <3>3 DEF Noted
  <2> QED
    BY <1>3, <1>14, <2>1, <2>2 DEF Kept, PastCursor, Single
<1>15. ASSUME NEW k \in Jobs PROVE HomeOf(k)'
  <2> SUFFICES ASSUME Accepted(k) PROVE \E b \in Buckets : Home(k, b)'
    BY <1>3 DEF HomeOf, Accepted, Unsettled
  <2>1. PICK b \in Buckets : Safe(k, b) /\ Kept(b)
    BY DEF IInv, HomeOf, Home
  <2>2. Settled(k, b) /\ k \in page'[b].ids
    BY <1>9, <2>1 DEF Safe, PagesGrow
  <2> QED
    BY <1>13, <1>14, <2>1, <2>2 DEF Home
<1>16. ASSUME NEW y \in Procs PROVE NewHomeAt(y)'
  <2> SUFFICES ASSUME Current(y)' PROVE NewHomeAt(y)'
    BY DEF NewHomeAt
  <2>1. CASE y = x
    <3>1. job[j].state \in {"pending", "claimed"} /\ i.move = job[j].moves
      BY <1>3, <1>6, <1>7, <2>1 DEF Current, Unsettled
    <3>2. Bucket(job[j].due) <= c
      BY <1>1, <1>2, <1>3, <1>6, <3>1 DEF CallAt, Calling
    <3>3. Safe(j, c)'
      BY <1>4, <1>13, <3>2 DEF Settled
    <3> QED
      BY <1>6, <1>7, <2>1, <3>3, NewHomeIs
  <2>2. CASE y # x
    <3>1. PICK k \in Jobs, b \in Buckets : k = idx[y].job /\ b = idx[y].bucket
      BY <1>1, TypeFacts
    <3>2. Current(y) /\ idx'[y] = idx[y]
      BY <1>3, <1>7, <2>2 DEF Current, Unsettled
    <3>3. Safe(k, b) /\ (idx[y].pc = "mark" => Kept(b))
      BY <3>1, <3>2 DEF IInv, NewHomeAt
    <3>4. Settled(k, b) /\ k \in page'[b].ids
      BY <1>9, <3>3 DEF Safe, PagesGrow
    <3>5. Safe(k, b)' /\ (idx[y].pc = "mark" => Kept(b)')
      BY <1>13, <1>14, <3>3, <3>4
    <3> QED
      BY <3>1, <3>2, <3>5, NewHomeIs
  <2> QED
    BY <2>1, <2>2
<1> QED
  BY <1>11, <1>15, <1>16 DEF IInv

-----------------------------------------------------------------------------
(* Writes of the cursor.                                                   *)

\* Call x has lowered the cursor.
Lowers(x) ==
  /\ idx[x].pc = "lower" /\ idx'[x].pc = "mark"
  /\ idx'[x].job = idx[x].job /\ idx'[x].due = idx[x].due
  /\ idx'[x].move = idx[x].move /\ idx'[x].bucket = idx[x].bucket
  /\ PastCursor(idx[x].bucket)'

LEMMA CursorInv ==
  ASSUME IInv, TypeInv', UNCHANGED <<fleet, job, page>>,
         \A q \in Runners : ReaderAt(q)', CursorOld',
         \A x \in Procs : idx'[x] = idx[x] \/ Lowers(x),
         \A q \in Runners, b \in Buckets :
           Sweeping(q, b)' => Sweeping(q, b) /\ tick'[q].todo = tick[q].todo,
         \A j \in Jobs, b \in Buckets : Safe(j, b) /\ Kept(b) => Kept(b)'
  PROVE  IInv'
<1>1. TypeInv /\ TypeOK /\ Mid /\ TypeOK' /\ \A y \in Procs : CallAt(y)
  BY DEF IInv, TypeInv, Mid
<1>2. \A x \in Procs : GoesOn(x)
  BY DEF GoesOn, Lowers, Calling
<1>3. ASSUME NEW x \in Procs PROVE CallAt(x)'
  <2>1. CASE idx'[x] = idx[x]
    BY <1>1, <2>1, SameJobMoves, SamePages, TypeFacts, CallKeeps
  <2>2. CASE Lowers(x)
    BY <1>1, <2>2 DEF Lowers, CallAt, Calling
  <2> QED
    BY <2>1, <2>2
<1>4. Mid'
  BY <1>1, <1>3 DEF Mid, Owned, Sound, Single
<1>5. ASSUME NEW j \in Jobs, NEW b \in Buckets, Safe(j, b) PROVE Safe(j, b)'
  <2>1. ASSUME NEW q \in Runners, Sweeping(q, b)'
        PROVE  j \in tick'[q].todo \/ Carrying(q, j, b)'
    <3>1. q \in Procs /\ (j \in tick[q].todo \/ Carrying(q, j, b))
      BY <1>1, <1>5, <2>1, TypeFacts DEF Safe, Unmissed
    <3> QED
      BY <1>2, <2>1, <3>1, CarryGoesOn
  <2>2. Unmissed(j, b)'
    BY <2>1 DEF Unmissed
  <2> QED
    BY <1>5, <2>2 DEF Safe, Settled
<1>6. ASSUME NEW j \in Jobs PROVE HomeOf(j)'
  <2> SUFFICES ASSUME Accepted(j) PROVE \E b \in Buckets : Home(j, b)'
    BY DEF HomeOf, Accepted, Unsettled
  <2>1. PICK b \in Buckets : Safe(j, b) /\ Kept(b)
    BY DEF IInv, HomeOf, Home
  <2> QED
    BY <1>5, <2>1 DEF Home
<1>7. ASSUME NEW x \in Procs PROVE NewHomeAt(x)'
  <2> SUFFICES ASSUME Current(x)' PROVE NewHomeAt(x)'
    BY DEF NewHomeAt
  <2>1. PICK j \in Jobs, b \in Buckets : j = idx[x].job /\ b = idx[x].bucket
    BY <1>1, TypeFacts
  <2>2. Current(x) /\ j = idx'[x].job /\ b = idx'[x].bucket
    BY <2>1 DEF Current, Unsettled, Lowers
  <2>3. Safe(j, b) /\ (idx[x].pc = "mark" => Kept(b))
    BY <2>1, <2>2 DEF IInv, NewHomeAt
  <2>4. idx'[x].pc = "mark" => Kept(b)'
    <3>1. CASE idx'[x] = idx[x]
      BY <2>3, <3>1
    <3>2. CASE Lowers(x)
      <4>1. PastCursor(b)'
        BY <2>1, <3>2 DEF Lowers, PastCursor
      <4> QED
        BY <4>1 DEF Kept
    <3> QED
      BY <3>1, <3>2
  <2> QED
    BY <1>5, <2>2, <2>3, <2>4, NewHomeIs
<1> QED
  BY <1>4, <1>6, <1>7 DEF IInv

\* The cursor is lowered: to or before every page it was to be moved back to.
LEMMA LoweredInv ==
  ASSUME IInv, TypeInv', NEW c \in Buckets, NEW r, Lowered(c, r),
         UNCHANGED <<fleet, job, page>>,
         r \in Runners => tick'[r].pc \in {"read", "reread"},
         \A b \in Buckets : r \in Runners /\ MovesBack(r, b) => c <= b,
         \A x \in Procs : idx'[x] = idx[x] \/ Lowers(x)
  PROVE  IInv'
<1>1. TypeInv /\ TypeOK /\ Mid
  BY DEF IInv, TypeInv
<1>2. /\ cursor'.bucket = c /\ cursor'.behind = NotRead /\ ~PastCursor(c)
      /\ \A q \in Runners : tick'[q].held = FALSE
      /\ \A q \in Runners : q # r => SameButHeld(tick[q], tick'[q])
  BY DEF Lowered
<1>3. cursor' # NoCursor /\ c \in Nat
  BY <1>2, BucketFacts DEF NoCursor
<1>4. CursorOld'
  BY <1>2 DEF CursorOld
<1>5. ASSUME NEW q \in Runners PROVE ReaderAt(q)'
  <2>1. HeldAt(q)' /\ AloneAt(q)'
    BY <1>2 DEF HeldAt, AloneAt
  <2>2. SeenAt(q)' /\ FoundAt(q)'
    <3>1. CASE q = r
      BY <3>1 DEF SeenAt, FoundAt, Reading, Moving
    <3>2. CASE q # r
      <4>1. SeenAt(q) /\ FoundAt(q) /\ SameButHeld(tick[q], tick'[q])
        BY <1>1, <1>2, <3>2 DEF Mid, ReaderAt
      <4> QED
        BY <4>1 DEF SeenAt, FoundAt, SameButHeld
    <3> QED
      BY <3>1, <3>2
  <2> QED
    BY <2>1, <2>2 DEF ReaderAt
<1>6. \A b \in Buckets : c <= b => Kept(b)'
  BY <1>2, <1>3 DEF Kept, PastCursor
<1>7. ASSUME NEW b \in Buckets, Kept(b) PROVE Kept(b)'
  <2>1. cursor.bucket \in Int /\ b \in Nat
    BY <1>1, TypeFacts, BucketFacts
  <2>2. CASE PastCursor(b)
    BY <1>2, <1>3, <1>6, <2>1, <2>2 DEF PastCursor
  <2>3. CASE fleet.fails = 0 /\ \E q \in Runners : MovesBack(q, b)
    <3>1. PICK q \in Runners : MovesBack(q, b)
      BY <2>3
    <3>2. CASE q = r
      BY <1>6, <3>1, <3>2
    <3>3. CASE q # r
      <4>1. MovesBack(q, b)'
        BY <1>2, <3>1, <3>3 DEF MovesBack, SameButHeld
      <4> QED
        BY <2>3, <4>1 DEF Kept
    <3> QED
      BY <3>2, <3>3
  <2>4. CASE Single /\ Noted(b)
    <3>1. cursor.bucket = b + 1 /\ cursor # NoCursor
      BY <2>1, <2>4 DEF Noted, NoCursor
    <3>2. c <= b
      BY <1>2, <1>3, <2>1, <3>1 DEF PastCursor
    <3> QED
      BY <1>6, <3>2
  <2> QED
    BY <1>7, <2>2, <2>3, <2>4 DEF Kept
<1>8. \A q \in Runners, b \in Buckets : ~Sweeping(q, b)'
  BY <1>2 DEF Sweeping
<1> QED
  BY <1>4, <1>5, <1>7, <1>8, CursorInv

LEMMA IndexLowerInv ==
  ASSUME IInv, TypeInv', NEW x \in Procs, IndexLower(x)
  PROVE  IInv'
<1>1. TypeInv /\ TypeOK /\ Mid /\ UNCHANGED <<fleet, job, page>> /\ TypeOK'
  BY DEF IInv, TypeInv, IndexLower
<1>2. idx[x].pc = "lower" /\ idx[x].bucket \in Buckets
  BY <1>1, IndexLowerFacts
<1>3. PICK i \in IndexState :
        /\ idx' = [idx EXCEPT ![x] = i] /\ i.pc = "mark" /\ i.job = idx[x].job
        /\ i.due = idx[x].due /\ i.move = idx[x].move /\ i.bucket = idx[x].bucket
  BY <1>1, IndexLowerFacts
<1>4. idx'[x] = i /\ \A y \in Procs : y # x => idx'[y] = idx[y]
  BY <1>1, <1>3, IdxAt
<1>5. ASSUME cursor' # NoCursor, cursor'.bucket <= idx[x].bucket
      PROVE  \A y \in Procs : idx'[y] = idx[y] \/ Lowers(y)
  <2>1. PICK c \in Buckets : c = idx[x].bucket
    BY <1>2
  <2>2. PastCursor(c)'
    BY <1>5, <2>1 DEF PastCursor
  <2>3. idx'[x].bucket = c
    BY <1>3, <1>4, <2>1
  <2>4. PastCursor(idx[x].bucket)'
    BY <1>5, <2>1, <2>3 DEF PastCursor
  <2>5. Lowers(x)
    BY <1>2, <1>3, <1>4, <2>4 DEF Lowers
  <2> QED
    BY <1>4, <2>5
<1>6. CASE PastCursor(idx[x].bucket) /\ UNCHANGED <<cursor, tick>>
  <2>1. \A y \in Procs : idx'[y] = idx[y] \/ Lowers(y)
    BY <1>5, <1>6 DEF PastCursor
  <2>2. (\A q \in Runners : ReaderAt(q)') /\ CursorOld'
    BY <1>1, <1>6, SamePages, SameJobClaim, ReadersStay
  <2>3. \A q \in Runners, b \in Buckets :
          Sweeping(q, b)' => Sweeping(q, b) /\ tick'[q].todo = tick[q].todo
    BY <1>1, <1>6 DEF Sweeping
  <2>4. \A b \in Buckets : Kept(b) => Kept(b)'
    BY <1>1, <1>6, KeptStays
  <2> QED
    BY <1>1, <2>1, <2>2, <2>3, <2>4, CursorInv
<1>7. CASE Lowered(idx[x].bucket, NoRunner)
  <2>1. cursor' # NoCursor /\ cursor'.bucket <= idx[x].bucket
    BY <1>2, <1>7, BucketFacts DEF Lowered, NoCursor
  <2>2. NoRunner \notin Runners
    BY ProcsAssumption
  <2> QED
    BY <1>1, <1>2, <1>5, <1>7, <2>1, <2>2, LoweredInv
<1> QED
  BY <1>1, <1>6, <1>7, IndexLowerFacts

LEMMA RepairInv ==
  ASSUME IInv, TypeInv', NEW r \in Runners, Repair(r)
  PROVE  IInv'
<1>1. TypeInv /\ UNCHANGED <<fleet, job, page, idx>>
  BY DEF IInv, Repair
<1>2. /\ tick[r].pc = "repair" /\ tick[r].bucket - 1 \in Buckets
      /\ \/ /\ PastCursor(tick[r].bucket - 1) /\ UNCHANGED cursor
            /\ \E t : Go(r, t) /\ t.pc = "reread" /\ t.held = tick[r].held
         \/ Lowered(tick[r].bucket - 1, r) /\ tick'[r].pc = "reread"
  BY <1>1, RepairFacts
<1>3. \A b \in Buckets : ~MovesBack(r, b)
  BY <1>2 DEF MovesBack
<1> QED
  BY <1>1, <1>2, <1>3, RepairedInv, LoweredInv

LEMMA MoveBackInv ==
  ASSUME IInv, TypeInv', NEW r \in Runners, MoveBack(r)
  PROVE  IInv'
<1>1. TypeInv /\ UNCHANGED <<fleet, job, page, idx>>
  BY DEF IInv, MoveBack
<1>2. /\ tick[r].pc = "back" /\ tick[r].bucket \in Buckets
      /\ \/ /\ PastCursor(tick[r].bucket) /\ UNCHANGED cursor
            /\ \E t : Go(r, t) /\ t.pc = "read" /\ t.held = FALSE
         \/ Lowered(tick[r].bucket, r) /\ tick'[r].pc = "read"
  BY <1>1, MoveBackFacts
<1>3. \A b \in Buckets : MovesBack(r, b) => tick[r].bucket <= b
  BY <1>2 DEF MovesBack
<1> QED
  BY <1>1, <1>2, <1>3, MovedBackInv, LoweredInv

\* The runner that moves the cursor past a bucket found no job in it that is
\* to be run, or will see that the page has changed since it read it.
LEMMA AdvanceInv ==
  ASSUME IInv, TypeInv', NEW r \in Runners, Advance(r)
  PROVE  IInv'
<1>1. TypeInv /\ TypeOK /\ Mid /\ UNCHANGED <<fleet, job, page, idx>>
  BY DEF IInv, TypeInv, Advance
<1>2. PICK c \in Buckets : c = tick[r].bucket
  BY <1>1, AdvanceFacts
<1>3. /\ r \in fleet.runners /\ tick[r].pc = "jobs" /\ idx[r].pc = "none"
      /\ tick[r].todo = {} /\ tick[r].settled /\ tick[r].held
      /\ cursor'.bucket = c + 1 /\ cursor'.behind = tick[r].seen
      /\ tick'[r].pc = "again" /\ tick'[r].bucket = c /\ tick'[r].seen = tick[r].seen
      /\ tick'[r].held
      /\ \A q \in Runners : q # r => /\ tick'[q].held = FALSE
                                     /\ SameButHeld(tick[q], tick'[q])
  <2>1. /\ r \in fleet.runners /\ tick[r].pc = "jobs" /\ idx[r].pc = "none"
        /\ tick[r].todo = {} /\ tick[r].settled = TRUE /\ tick[r].held = TRUE
        /\ tick'[r].pc = "again" /\ SameBucket(tick[r], tick'[r])
        /\ cursor' = [bucket |-> tick[r].bucket + 1, behind |-> tick[r].seen]
    BY <1>1, AdvanceFacts
  <2>2. \A q \in Runners : q # r => tick'[q].held = FALSE /\ SameButHeld(tick[q], tick'[q])
    BY <1>1, AdvanceFacts
  <2>3. cursor'.bucket = c + 1 /\ cursor'.behind = tick[r].seen
    BY <1>2, <2>1
  <2>4. tick'[r].bucket = c /\ tick'[r].seen = tick[r].seen /\ tick'[r].held = TRUE
    BY <1>2, <2>1 DEF SameBucket
  <2> QED
    BY <2>1, <2>2, <2>3, <2>4
<1>4. tick[r].seen \in Nat /\ tick[r].seen <= page[c].version /\ c \in Nat /\ c + 1 - 1 = c
  BY <1>1, <1>2, <1>3, TickFacts, BucketFacts DEF Mid, ReaderAt, SeenAt, Reading
<1>5. cursor.bucket = c
  BY <1>1, <1>2, <1>3 DEF Mid, ReaderAt, HeldAt, Scanning, Reading
<1>6. CursorOld'
  BY <1>1, <1>3, <1>4 DEF CursorOld
<1>7. ASSUME NEW q \in Runners PROVE ReaderAt(q)'
  <2>1. CASE q = r
    <3>1. HeldAt(r)'
      BY <1>3 DEF HeldAt, Checking, Scanning, Reading
    <3>2. SeenAt(r)' /\ FoundAt(r)' /\ AloneAt(r)'
      BY <1>1, <1>3, <1>4 DEF SeenAt, FoundAt, AloneAt, Outrun, Reading
    <3> QED
      BY <2>1, <3>1, <3>2 DEF ReaderAt
  <2>2. CASE q # r
    <3>1. SeenAt(q) /\ FoundAt(q) /\ SameButHeld(tick[q], tick'[q]) /\ tick'[q].held = FALSE
      BY <1>1, <1>3, <2>2 DEF Mid, ReaderAt
    <3>2. HeldAt(q)' /\ SeenAt(q)' /\ FoundAt(q)'
      BY <1>1, <3>1 DEF HeldAt, SeenAt, FoundAt, SameButHeld
    <3>3. AloneAt(q)'
      <4> SUFFICES ASSUME Single PROVE tick[q].pc = "idle"
        BY <1>1, <3>1 DEF AloneAt, Outrun, Single, SameButHeld, Checking, Moving
      <4>1. q \notin fleet.runners
        BY <1>3, <2>2 DEF Single
      <4> QED
        BY <1>1, <4>1 DEF TypeInv, Ticks
    <3> QED
      BY <3>2, <3>3 DEF ReaderAt
  <2> QED
    BY <2>1, <2>2
<1>8. \A q \in Runners, b \in Buckets : ~Sweeping(q, b)'
  BY <1>3 DEF Sweeping, Reading
<1>9. ASSUME NEW j \in Jobs, NEW b \in Buckets, Safe(j, b), Kept(b) PROVE Kept(b)'
  <2>1. b \in Nat
    BY BucketFacts
  <2>2. CASE PastCursor(b) /\ b # c
    <3>1. cursor'.bucket <= b
      BY <1>3, <1>4, <1>5, <2>1, <2>2 DEF PastCursor
    <3>2. cursor' # NoCursor
      BY <1>3, <1>4 DEF NoCursor
    <3> QED
      BY <3>1, <3>2 DEF Kept, PastCursor
  <2>3. CASE b = c
    <3>1. tick[r].seen # page[c].version
      <4> SUFFICES ASSUME tick[r].seen = page[c].version PROVE FALSE
        OBVIOUS
      <4>1. Sweeping(r, c)
        BY <1>2, <1>3 DEF Sweeping, Reading
      <4>2. Carrying(r, j, c)
        BY <1>3, <1>9, <2>3, <4>1 DEF Safe, Unmissed
      <4> QED
        BY <1>3, <4>2 DEF Carrying, Calling
    <3>2. CASE fleet.fails = 0
      <4>1. MovesBack(r, b)'
        BY <1>1, <1>3, <2>3, <3>1 DEF MovesBack
      <4> QED
        BY <1>1, <3>2, <4>1 DEF Kept
    <3>3. CASE Single
      <4>1. Noted(b)'
        <5>1. cursor'.behind \notin {NotRead, page'[b].version}
          BY <1>1, <1>3, <1>4, <2>3, <3>1 DEF NotRead
        <5>2. \A q \in Runners : tick'[q].held => tick'[q].pc \notin Scanning
          BY <1>3 DEF Scanning, Reading
        <5> QED
          BY <1>3, <2>3, <5>1, <5>2 DEF Noted
      <4> QED
        BY <1>1, <3>3, <4>1 DEF Kept, Single
    <3> QED
      BY <1>1, <3>2, <3>3 DEF Mid, Sound
  <2>4. CASE fleet.fails = 0 /\ \E q \in Runners : MovesBack(q, b)
    <3>1. PICK q \in Runners : MovesBack(q, b)
      BY <2>4
    <3>2. q # r
      BY <1>3, <3>1 DEF MovesBack
    <3>3. MovesBack(q, b)'
      BY <1>1, <1>3, <3>1, <3>2 DEF MovesBack, SameButHeld
    <3> QED
      BY <1>1, <2>4, <3>3 DEF Kept
  <2>5. ~Noted(b)
    BY <1>3 DEF Noted, Scanning, Reading
  <2> QED
    BY <1>9, <2>2, <2>3, <2>4, <2>5 DEF Kept
<1> QED
  BY <1>1, <1>6, <1>7, <1>8, <1>9, CursorInv

-----------------------------------------------------------------------------
(* A runner fails: nobody counted on it.                                   *)

LEMMA RunnerFailsInv ==
  ASSUME IInv, TypeInv', NEW r \in Runners, RunnerFails(r)
  PROVE  IInv'
<1>1. TypeInv /\ TypeOK /\ Mid /\ TypeOK' /\ \A y \in Procs : CallAt(y)
  BY DEF IInv, TypeInv, Mid
<1>2. /\ UNCHANGED <<job, page, cursor>> /\ Go(r, NoTick) /\ fleet.fails > 0
      /\ fleet'.runners = fleet.runners
  BY <1>1 DEF RunnerFails, TypeOK
<1>3. Single
  BY <1>1, <1>2 DEF Mid, Sound
<1>4. tick'[r] = NoTick /\ NoTick.pc = "idle" /\ NoTick.held = FALSE
  BY <1>2, GoTick, NoTickFacts
<1>5. r \in Procs /\ idx'[r] = NoIndex /\ \A y \in Procs : y # r => idx'[y] = idx[y]
  <2>1. r \in Procs /\ idx' = [idx EXCEPT ![r] = NoIndex]
    BY <1>1, TypeFacts DEF RunnerFails
  <2> QED
    BY <1>1, <2>1, IdxAt
<1>6. ReaderAt(r)'
  BY <1>4 DEF ReaderAt, HeldAt, SeenAt, FoundAt, AloneAt, Outrun, Reading, Moving, Checking
<1>7. /\ \A q \in Runners : ReaderAt(q)' /\ CursorOld'
      /\ \A q \in Runners : q # r => tick'[q] = tick[q]
  BY <1>1, <1>2, <1>6, SameJobClaim, ReadersGo
<1>8. ASSUME NEW x \in Procs PROVE CallAt(x)'
  <2>1. CASE x = r
    BY <1>5, <2>1, NoIndexFacts DEF CallAt, Calling
  <2>2. CASE x # r
    BY <1>1, <1>2, <1>5, <2>2, SameJobMoves, SamePages, TypeFacts, CallKeeps
  <2> QED
    BY <2>1, <2>2
<1>9. Mid'
  BY <1>1, <1>2, <1>3, <1>7, <1>8 DEF Mid, Owned, Sound, Single
<1>10. ASSUME NEW j \in Jobs, NEW b \in Buckets, Safe(j, b) PROVE Safe(j, b)'
  <2>1. ~Sweeping(r, b)' /\ Settled(j, b)'
    BY <1>2, <1>4, <1>10 DEF Sweeping, Safe, Settled
  <2>2. \A q \in Runners : q # r /\ Carrying(q, j, b) => Carrying(q, j, b)'
    BY <1>1, <1>2, <1>5, TypeFacts, CarryKeeps
  <2> QED
    BY <1>2, <1>7, <1>10, <2>1, <2>2, SafeGoes
<1>11. ASSUME NEW b \in Buckets, Kept(b) PROVE Kept(b)'
  <2>1. CASE PastCursor(b)
    BY <1>2, <2>1 DEF Kept, PastCursor
  <2>2. CASE Noted(b)
    BY <1>2, <1>3, <1>4, <1>7, <2>2 DEF Kept, Noted, Single
  <2> QED
    BY <1>2, <1>11, <2>1, <2>2 DEF Kept
<1>12. ASSUME NEW j \in Jobs PROVE HomeOf(j)'
  <2> SUFFICES ASSUME Accepted(j) PROVE \E b \in Buckets : Home(j, b)'
    BY <1>2 DEF HomeOf, Accepted, Unsettled
  <2>1. PICK b \in Buckets : Safe(j, b) /\ Kept(b)
    BY DEF IInv, HomeOf, Home
  <2> QED
    BY <1>10, <1>11, <2>1 DEF Home
<1>13. ASSUME NEW x \in Procs PROVE NewHomeAt(x)'
  <2> SUFFICES ASSUME Current(x)' PROVE NewHomeAt(x)'
    BY DEF NewHomeAt
  <2>1. x # r /\ idx'[x] = idx[x]
    BY <1>5, NoIndexFacts DEF Current
  <2>2. PICK j \in Jobs, b \in Buckets : j = idx[x].job /\ b = idx[x].bucket
    BY <1>1, TypeFacts
  <2>3. Current(x)
    BY <1>2, <2>1 DEF Current, Unsettled
  <2>4. Safe(j, b) /\ (idx[x].pc = "mark" => Kept(b))
    BY <2>2, <2>3 DEF IInv, NewHomeAt
  <2> QED
    BY <1>10, <1>11, <2>1, <2>2, <2>4, NewHomeIs
<1> QED
  BY <1>9, <1>12, <1>13 DEF IInv

-----------------------------------------------------------------------------
(* Steps on a job of the bucket that a runner reads.                       *)

\* The runner goes on in its bucket.
ReadsOn(r) ==
  /\ tick[r].pc \in Reading /\ tick'[r].pc \in Reading
  /\ SameBucket(tick[r], tick'[r])

LEMMA ReadsOnFacts ==
  ASSUME IInv, NEW r \in Runners, ReadsOn(r), UNCHANGED <<page, cursor>>
  PROVE  /\ HeldAt(r)' /\ SeenAt(r)' /\ AloneAt(r)' /\ ScansUnnoted(r)
         /\ \A b : ~MovesBack(r, b)
<1>1. HeldAt(r) /\ SeenAt(r)
  BY ReaderFacts
<1>2. HeldAt(r)' /\ SeenAt(r)'
  BY <1>1 DEF ReadsOn, HeldAt, SeenAt, SameBucket, Checking, Scanning, Moving, Reading
<1>3. AloneAt(r)' /\ ScansUnnoted(r)
  BY DEF ReadsOn, AloneAt, Outrun, ScansUnnoted, SameBucket, Checking, Scanning, Moving, Reading
<1>4. \A b : ~MovesBack(r, b)
  BY DEF ReadsOn, MovesBack, Reading
<1> QED
  BY <1>2, <1>3, <1>4

\* Once it is done with job j, what is left to look at is on the page.
LEMMA FoundLeft ==
  ASSUME IInv, NEW r \in Runners, ReadsOn(r), UNCHANGED page, tick'[r].pc = "jobs",
         tick'[r].todo \subseteq tick[r].todo
  PROVE  FoundAt(r)'
<1>1. FoundAt(r) /\ tick'[r].bucket = tick[r].bucket /\ tick[r].pc \in Reading
  BY ReaderFacts DEF ReadsOn, SameBucket
<1> QED
  BY <1>1 DEF FoundAt

\* A job that the step re-indexes in a move of its own has a home then.
Rehomed(j) ==
  HomeOf(j)' /\ \A x \in Procs : Calling(x) /\ idx[x].job = j => idx[x].move # job'[j].moves

LEMMA GoJobInv ==
  ASSUME IInv, TypeInv', NEW r \in Runners, NEW t, Go(r, t), ReadsOn(r), FoundAt(r)',
         UNCHANGED <<fleet, page, cursor>>,
         \A q \in Runners : q # r => ClaimKept(q), Owned',
         \A x \in Procs : idx'[x] = idx[x]
                          \/ (x = r /\ idx[x].pc = "none" /\ idx'[x].pc = "bucket"),
         CallAt(r)', \A j \in Jobs : MovesOn(j),
         \A j \in Jobs : Unsettled(j)' =>
           \/ Unsettled(j) /\ SameMove(j) /\ (job'[j].known => job[j].known)
           \/ Rehomed(j),
         \A j \in Jobs, b \in Buckets :
           Unsettled(j) /\ Unsettled(j)' /\ SameMove(j) /\ Safe(j, b) /\ Sweeping(r, b)' =>
             j \in tick'[r].todo \/ Carrying(r, j, b)'
  PROVE  IInv'
<1>1. TypeInv /\ TypeOK /\ Mid /\ TypeOK' /\ \A y \in Procs : CallAt(y)
  BY DEF IInv, TypeInv, Mid
<1>2. ReaderAt(r)' /\ ScansUnnoted(r) /\ \A b : ~MovesBack(r, b)
  BY ReadsOnFacts DEF ReaderAt
<1>3. /\ \A q \in Runners : ReaderAt(q)' /\ CursorOld'
      /\ \A q \in Runners : q # r => tick'[q] = tick[q]
  BY <1>1, <1>2, ReadersGo
<1>4. ASSUME NEW x \in Procs PROVE CallAt(x)'
  <2>1. CASE idx'[x] = idx[x]
    <3>1. idx[x].job \in Jobs
      BY <1>1, TypeFacts
    <3> QED
      BY <1>1, <2>1, <3>1, SamePages, CallKeeps
  <2>2. CASE x = r
    BY <2>2
  <2> QED
    BY <2>1, <2>2
<1>5. Mid'
  BY <1>1, <1>3, <1>4 DEF Mid, Sound, Single
<1>6. ASSUME NEW j \in Jobs, NEW b \in Buckets, Unsettled(j), Unsettled(j)', SameMove(j),
             Safe(j, b)
      PROVE  Safe(j, b)'
  <2>1. Settled(j, b)'
    BY <1>6, SettledKeeps DEF Safe
  <2>2. \A q \in Runners : q # r /\ Carrying(q, j, b) => Carrying(q, j, b)'
    BY <1>1, <1>6, TypeFacts, CarryKeeps DEF SameMove
  <2>3. Sweeping(r, b)' => j \in tick'[r].todo \/ Carrying(r, j, b)'
    BY <1>6
  <2> QED
    BY <1>3, <1>6, <2>1, <2>2, <2>3, SafeGoes
<1>7. ASSUME NEW b \in Buckets, Kept(b) PROVE Kept(b)'
  BY <1>1, <1>2, <1>3, <1>7, KeptGoes
<1>8. ASSUME NEW j \in Jobs PROVE HomeOf(j)'
  <2> SUFFICES ASSUME Accepted(j)', ~Rehomed(j) PROVE \E b \in Buckets : Home(j, b)'
    BY DEF HomeOf, Rehomed
  <2>1. Unsettled(j) /\ Unsettled(j)' /\ SameMove(j) /\ job[j].known
    BY DEF Accepted
  <2>2. PICK b \in Buckets : Safe(j, b) /\ Kept(b)
    BY <2>1 DEF IInv, HomeOf, Home, Accepted
  <2> QED
    BY <1>6, <1>7, <2>1, <2>2 DEF Home
<1>9. ASSUME NEW x \in Procs PROVE NewHomeAt(x)'
  <2> SUFFICES ASSUME Current(x)' PROVE NewHomeAt(x)'
    BY DEF NewHomeAt
  <2>1. idx'[x] = idx[x] /\ Calling(x)
    BY DEF Current, Calling
  <2>2. PICK j \in Jobs, b \in Buckets : j = idx[x].job /\ b = idx[x].bucket
    BY <1>1, TypeFacts
  <2>3. Unsettled(j)' /\ idx[x].move = job'[j].moves
    BY <2>1, <2>2 DEF Current, Unsettled
  <2>4. Unsettled(j) /\ SameMove(j)
    BY <2>1, <2>2, <2>3 DEF Rehomed
  <2>5. Current(x)
    BY <2>1, <2>2, <2>3, <2>4 DEF Current, SameMove
  <2>6. Safe(j, b) /\ (idx[x].pc = "mark" => Kept(b))
    BY <2>2, <2>5 DEF IInv, NewHomeAt
  <2>7. Safe(j, b)' /\ (idx[x].pc = "mark" => Kept(b)')
    BY <1>6, <1>7, <2>3, <2>4, <2>6
  <2> QED
    BY <2>1, <2>2, <2>7, NewHomeIs
<1> QED
  BY <1>5, <1>8, <1>9 DEF IInv

\* A job passed over is settled here, or stays the bucket's, or is carried on.
LEMMA PassOverInv ==
  ASSUME IInv, TypeInv', NEW r \in Runners, NEW j \in Jobs, PassOver(r, j)
  PROVE  IInv'
<1>1. TypeInv /\ TypeOK /\ Mid /\ r \in Procs /\ CallAt(r)
  BY TypeFacts DEF IInv, TypeInv, Mid
<1>2. /\ UNCHANGED <<fleet, job, page, cursor>>
      /\ tick[r].pc = "jobs" /\ idx[r].pc = "none" /\ j \in tick[r].todo
  BY <1>1, PassOverFacts DEF PassOver
<1>3. PICK t : /\ Go(r, t) /\ t.pc = "jobs" /\ SameBucket(tick[r], t)
               /\ t.todo = tick[r].todo \ {j}
               /\ t.settled = (tick[r].settled /\ (MovedLater(r, j) \/ ~Unsettled(j)))
  BY <1>1, PassOverFacts, Zenon
<1>4. tick'[r] = t
  BY <1>3, GoTick
<1>5. ReadsOn(r)
  BY <1>2, <1>3, <1>4 DEF ReadsOn, Reading
<1>6. FoundAt(r)'
  BY <1>2, <1>3, <1>4, <1>5, FoundLeft
<1>7. PICK i : i = Indexing(j, job[j].due, job[j].moves)
  OBVIOUS
<1>8. i.pc = "bucket" /\ i.job = j /\ i.due = job[j].due /\ i.move = job[j].moves
  BY <1>1, <1>7, TypeFacts, IndexingFacts
<1>9. \/ idx' = idx /\ ~(MovedLater(r, j) /\ Unsettled(j) /\ ~job[j].indexed)
      \/ Unsettled(j) /\ idx'[r] = i /\ \A y \in Procs : y # r => idx'[y] = idx[y]
  <2>1. CASE MovedLater(r, j) /\ Unsettled(j) /\ ~job[j].indexed
    <3>1. idx' = [idx EXCEPT ![r] = i]
      BY <1>7, <2>1 DEF PassOver
    <3> QED
      BY <1>1, <2>1, <3>1, IdxAt
  <2>2. CASE ~(MovedLater(r, j) /\ Unsettled(j) /\ ~job[j].indexed)
    BY <2>2 DEF PassOver
  <2> QED
    BY <2>1, <2>2
<1>10. CallAt(r)'
  <2>1. job[j].moves <= job[j].moves
    BY <1>1, TypeFacts, TimesAssumption
  <2> QED
    BY <1>1, <1>2, <1>8, <1>9, <2>1 DEF CallAt, Calling, Unsettled
<1>11. \A x \in Procs : idx'[x] = idx[x]
                        \/ (x = r /\ idx[x].pc = "none" /\ idx'[x].pc = "bucket")
  BY <1>2, <1>8, <1>9
<1>12. ASSUME NEW k \in Jobs, NEW b \in Buckets, Unsettled(k), Safe(k, b), Sweeping(r, b)'
       PROVE  k \in tick'[r].todo \/ Carrying(r, k, b)'
  <2>1. t.bucket = b /\ t.settled
    BY <1>4, <1>12 DEF Sweeping
  <2>2. tick[r].settled /\ (MovedLater(r, j) \/ ~Unsettled(j))
    BY <1>3, <2>1
  <2>3. CASE k # j
    <3>1. Sweeping(r, b)
      BY <1>2, <1>3, <1>4, <1>12, <2>2 DEF Sweeping, SameBucket, Reading
    <3>2. ~Carrying(r, k, b)
      BY <1>2 DEF Carrying, Calling
    <3> QED
      BY <1>3, <1>4, <1>12, <2>3, <3>1, <3>2 DEF Safe, Unmissed
  <2>4. CASE k = j
    <3>1. Bucket(job[j].due) > b /\ MovedLater(r, j)
      BY <1>3, <1>12, <2>1, <2>2, <2>4 DEF MovedLater, SameBucket
    <3>2. Bucket(job[j].due) \in Nat /\ b \in Nat
      BY <1>1, TypeFacts, BucketFacts
    <3>3. ~job[j].indexed
      BY <1>12, <2>4, <3>1, <3>2 DEF Safe, Settled
    <3>4. idx'[r] = i
      BY <1>9, <1>12, <2>4, <3>1, <3>3
    <3> QED
      BY <1>2, <1>8, <2>4, <3>1, <3>4 DEF Carrying, Calling
  <2> QED
    BY <2>3, <2>4
<1>13. /\ Owned' /\ \A q \in Runners : ClaimKept(q)
       /\ \A k \in Jobs : MovesOn(k) /\ SameMove(k)
       /\ \A k \in Jobs : Unsettled(k)' => Unsettled(k)
  BY <1>1, <1>2, SameJobClaim, SameJobMoves, SameJobMove DEF Owned, Mid, Unsettled
<1> QED
  BY <1>2, <1>3, <1>5, <1>6, <1>10, <1>11, <1>12, <1>13, GoJobInv

\* A runner's step on job j, after which nobody runs it, or that runner does.
LEMMA RecordFacts ==
  ASSUME TypeOK, Owned, NEW r \in Runners, NEW j \in Jobs, NEW d, job' = [job EXCEPT ![j] = d],
         d.by \in {r, NoRunner}, d.by = r => d.state = "claimed", d.state # "absent"
  PROVE  /\ job'[j] = d /\ \A k \in Jobs : k # j => job'[k] = job[k]
         /\ \A q \in Runners : q # r => ClaimKept(q)
         /\ Owned'
         /\ \A k \in Jobs : k # j => MovesOn(k) /\ SameMove(k) /\ Unsettled(k)' = Unsettled(k)
                                     /\ job'[k].known = job[k].known
<1>1. job'[j] = d /\ \A k \in Jobs : k # j => job'[k] = job[k]
  BY JobAt
<1>2. ASSUME NEW q \in Runners, q # r PROVE ClaimKept(q)
  <2>1. tick[q].job \in Jobs /\ q # NoRunner
    BY TickFacts, ProcsAssumption
  <2> QED
    BY <1>1, <1>2, <2>1 DEF ClaimKept
<1>3. Owned'
  BY <1>1 DEF Owned
<1>4. \A k \in Jobs : k # j => MovesOn(k) /\ SameMove(k) /\ Unsettled(k)' = Unsettled(k)
                               /\ job'[k].known = job[k].known
  BY <1>1 DEF MovesOn, SameMove, Unsettled
<1> QED
  BY <1>1, <1>2, <1>3, <1>4

\* The rest of the bucket is looked at as before.
LEMMA StillLeft ==
  ASSUME IInv, NEW r \in Runners, ReadsOn(r), UNCHANGED page, idx[r].pc = "none",
         tick'[r].settled => tick[r].settled,
         NEW j \in Jobs, tick[r].todo \ {j} \subseteq tick'[r].todo,
         NEW k \in Jobs, k # j \/ tick[r].todo = tick'[r].todo,
         NEW b \in Buckets, Safe(k, b), Sweeping(r, b)'
  PROVE  k \in tick'[r].todo
<1>1. Sweeping(r, b)
  BY DEF Sweeping, ReadsOn, SameBucket
<1>2. ~Carrying(r, k, b)
  BY DEF Carrying, Calling
<1> QED
  BY <1>1, <1>2 DEF Safe, Unmissed

LEMMA ClaimInv ==
  ASSUME IInv, TypeInv', NEW r \in Runners, NEW j \in Jobs, Claim(r, j)
  PROVE  IInv'
<1>1. TypeInv /\ TypeOK /\ Mid /\ Owned /\ r \in Procs /\ CallAt(r) /\ TypeOK'
  BY TypeFacts DEF IInv, TypeInv, Mid
<1>2. /\ UNCHANGED <<fleet, page, cursor, idx>> /\ idx[r].pc = "none" /\ Unsettled(j)
      /\ ~MovedLater(r, j) /\ tick[r].pc = "jobs" /\ j \in tick[r].todo
  BY DEF Claim, At
<1>3. PICK d \in JobRecord :
        /\ job' = [job EXCEPT ![j] = d] /\ d.state = "claimed" /\ d.by = r
        /\ d.due = job[j].due /\ d.moves = job[j].moves
        /\ d.indexed = job[j].indexed /\ d.known = job[j].known
  BY <1>1, ClaimFacts
<1>4. PICK t : /\ Go(r, t) /\ t.pc = "run" /\ SameBucket(tick[r], t)
               /\ t.todo = tick[r].todo /\ t.settled = tick[r].settled /\ t.job = j
  BY <1>1, ClaimFacts
<1>5. tick'[r] = t
  BY <1>4, GoTick
<1>6. ReadsOn(r)
  BY <1>2, <1>4, <1>5 DEF ReadsOn, Reading
<1>7. /\ job'[j] = d /\ \A k \in Jobs : k # j => job'[k] = job[k]
      /\ \A q \in Runners : q # r => ClaimKept(q)
      /\ Owned'
      /\ \A k \in Jobs : k # j => MovesOn(k) /\ SameMove(k) /\ Unsettled(k)' = Unsettled(k)
                                  /\ job'[k].known = job[k].known
  BY <1>1, <1>3, RecordFacts
<1>8. MovesOn(j) /\ SameMove(j) /\ job'[j].known = job[j].known
  BY <1>3, <1>7 DEF MovesOn, SameMove
<1>9. FoundAt(r)'
  <2>1. Bucket(job[j].due) <= tick[r].bucket
    <3>1. Bucket(job[j].due) \in Nat /\ tick[r].bucket \in Nat
      BY <1>1, TypeFacts, TickFacts, BucketFacts
    <3> QED
      BY <1>2, <3>1 DEF MovedLater
  <2>2. tick[r].todo \subseteq page[tick[r].bucket].ids
    BY <1>2, ReaderFacts DEF FoundAt, Reading
  <2>3. /\ tick'[r].job = j /\ tick'[r].todo = tick[r].todo /\ job'[j].due = job[j].due
        /\ tick'[r].bucket = tick[r].bucket
    BY <1>3, <1>4, <1>5, <1>7 DEF SameBucket
  <2> QED
    BY <1>2, <2>1, <2>2, <2>3 DEF FoundAt
<1>10. CallAt(r)'
  BY <1>2 DEF CallAt, Calling
<1>11. \A k \in Jobs, b \in Buckets :
         Safe(k, b) /\ Sweeping(r, b)' => k \in tick'[r].todo
  BY <1>2, <1>4, <1>5, <1>6, StillLeft
<1>12. \A k \in Jobs : MovesOn(k) /\ SameMove(k) /\ job'[k].known = job[k].known
                       /\ (Unsettled(k)' => Unsettled(k))
  BY <1>2, <1>7, <1>8
<1> QED
  BY <1>2, <1>4, <1>6, <1>7, <1>9, <1>10, <1>11, <1>12, GoJobInv

LEMMA SettleInv ==
  ASSUME IInv, TypeInv', NEW r \in Runners, Settle(r)
  PROVE  IInv'
<1>1. TypeInv /\ TypeOK /\ Mid /\ Owned /\ r \in Procs /\ CallAt(r) /\ TypeOK'
  BY TypeFacts DEF IInv, TypeInv, Mid
<1>2. PICK j \in Jobs : j = tick[r].job
  BY <1>1, TickFacts
<1>3. /\ UNCHANGED <<fleet, page, cursor, idx>> /\ idx[r].pc = "none" /\ tick[r].pc = "run"
      /\ job[j].by = r
  BY <1>2 DEF Settle, At
<1>4. PICK d \in JobRecord :
        /\ job' = [job EXCEPT ![j] = d] /\ d.state = "done" /\ d.by = NoRunner
        /\ d.due = job[j].due /\ d.moves = job[j].moves
  BY <1>1, <1>2, SettleFacts
<1>5. PICK t : /\ Go(r, t) /\ t.pc = "jobs" /\ SameBucket(tick[r], t)
               /\ t.todo = tick[r].todo \ {j} /\ t.settled = tick[r].settled
  BY <1>1, <1>2, SettleFacts
<1>6. tick'[r] = t
  BY <1>5, GoTick
<1>7. ReadsOn(r)
  BY <1>3, <1>5, <1>6 DEF ReadsOn, Reading
<1>8. /\ job'[j] = d /\ \A k \in Jobs : k # j => job'[k] = job[k]
      /\ \A q \in Runners : q # r => ClaimKept(q)
      /\ Owned'
      /\ \A k \in Jobs : k # j => MovesOn(k) /\ SameMove(k) /\ Unsettled(k)' = Unsettled(k)
                                  /\ job'[k].known = job[k].known
  <2>1. d.by \in {r, NoRunner} /\ (d.by = r => d.state = "claimed") /\ d.state # "absent"
    BY <1>4, ProcsAssumption
  <2> QED
    BY <1>1, <1>4, <2>1, RecordFacts
<1>9. ~Unsettled(j)' /\ MovesOn(j)
  BY <1>4, <1>8 DEF Unsettled, MovesOn
<1>10. FoundAt(r)'
  BY <1>3, <1>5, <1>6, <1>7, FoundLeft
<1>11. CallAt(r)'
  BY <1>3 DEF CallAt, Calling
<1>12. \A k \in Jobs, b \in Buckets :
         k # j /\ Safe(k, b) /\ Sweeping(r, b)' => k \in tick'[r].todo
  BY <1>3, <1>5, <1>6, <1>7, StillLeft
<1>13. \A k \in Jobs : MovesOn(k) /\ (Unsettled(k)' => k # j)
  BY <1>8, <1>9
<1> QED
  BY <1>3, <1>5, <1>7, <1>8, <1>10, <1>11, <1>12, <1>13, GoJobInv

\* A job retried into a later bucket is not lost on the way.  Another runner
\* that carries it past its home reads behind this one's bucket: the cursor is
\* still there, and this bucket's page, not passed yet, is the job's new home.
LEMMA RetryHome ==
  ASSUME IInv, NEW r \in Runners, NEW j \in Jobs, ReadsOn(r),
         UNCHANGED <<fleet, page, cursor>>,
         tick[r].pc = "run", tick[r].job = j, job[j].by = r, ~job'[j].indexed,
         \A q \in Runners : q # r => tick'[q] = tick[q],
         job'[j].known => job[j].known,
         \A b \in Buckets : Sweeping(r, b)' => Carrying(r, j, b)'
  PROVE  HomeOf(j)'
<1> SUFFICES ASSUME Accepted(j)' PROVE \E b \in Buckets : Home(j, b)'
  BY DEF HomeOf
<1>1. TypeInv /\ TypeOK /\ Mid /\ Owned
  BY DEF IInv, TypeInv, Mid
<1>2. Accepted(j)
  <2>1. job[j].state = "claimed"
    BY <1>1, ProcsAssumption DEF Owned
  <2> QED
    BY <2>1 DEF Accepted, Unsettled
<1>3. PICK b \in Buckets : Safe(j, b) /\ Kept(b)
  BY <1>2 DEF IInv, HomeOf, Home
<1>4. \A b0 : Settled(j, b0)'
  BY DEF Settled
<1>5. \A q \in Runners, b0 \in Buckets : q # r /\ Sweeping(q, b0)' => Sweeping(q, b0)
  BY DEF Sweeping
<1>6. CASE \E q \in Runners : q # r /\ Sweeping(q, b) /\ j \notin tick[q].todo
  <2>1. PICK q \in Runners : q # r /\ Sweeping(q, b) /\ j \notin tick[q].todo
    BY <1>6
  <2>2. Bucket(job[j].due) > b
    <3>1. Carrying(q, j, b)
      BY <1>3, <2>1 DEF Safe, Unmissed
    <3>2. ~(Bucket(job[j].due) <= b)
      BY <1>1, <3>1, NotCarried
    <3>3. Bucket(job[j].due) \in Nat /\ b \in Nat
      BY <1>1, TypeFacts, BucketFacts
    <3> QED
      BY <3>2, <3>3
  <2>3. PICK c \in Buckets : c = tick[r].bucket
    <3>1. tick[r].pc \in Reading \cup Moving
      BY DEF Reading
    <3> QED
      BY <1>1, <3>1, ReaderBucket
  <2>4. Bucket(job[j].due) <= c /\ j \in page[c].ids
    BY <2>3, ReaderFacts DEF FoundAt, Reading
  <2>5. b < c
    <3>1. Bucket(job[j].due) \in Nat /\ b \in Nat /\ c \in Nat
      BY <1>1, TypeFacts, BucketFacts
    <3> QED
      BY <2>2, <2>4, <3>1
  <2>6. cursor.bucket = b
    BY <2>1, ReaderFacts DEF HeldAt, Sweeping, Scanning
  <2>7. Kept(c)'
    <3>1. b \in Nat /\ c \in Nat
      BY BucketFacts
    <3>2. cursor' # NoCursor /\ cursor'.bucket <= c
      BY <2>5, <2>6, <3>1 DEF NoCursor
    <3> QED
      BY <3>2 DEF Kept, PastCursor
  \* Nobody who reads this bucket holds the cursor's version.
  <2>8. ASSUME NEW p \in Runners PROVE ~Sweeping(p, c)'
    <3> SUFFICES ASSUME Sweeping(p, c)' PROVE FALSE
      OBVIOUS
    <3>1. tick[p].held /\ tick[p].pc \in Scanning /\ tick[p].bucket = c
      BY <1>5, <2>3 DEF Sweeping, Scanning, ReadsOn, SameBucket
    <3>2. cursor.bucket = c
      BY <3>1, ReaderFacts DEF HeldAt
    <3>3. b \in Nat /\ c \in Nat
      BY BucketFacts
    <3> QED
      BY <2>5, <2>6, <3>2, <3>3
  <2>9. Safe(j, c)'
    BY <1>4, <2>4, <2>8 DEF Safe, Unmissed
  <2> QED
    BY <2>7, <2>9 DEF Home
<1>7. CASE \A q \in Runners : q # r /\ Sweeping(q, b) => j \in tick[q].todo
  <2>1. Kept(b)'
    BY <1>1, <1>3, ReadsOnFacts, KeptGoes
  <2>2. \A q \in Runners : Sweeping(q, b)' => j \in tick'[q].todo \/ Carrying(q, j, b)'
    BY <1>5, <1>7
  <2>3. Safe(j, b)'
    BY <1>3, <1>4, <2>2 DEF Safe, Unmissed
  <2> QED
    BY <2>1, <2>3 DEF Home
<1> QED
  BY <1>6, <1>7

LEMMA RetryInv ==
  ASSUME IInv, TypeInv', NEW r \in Runners, Retry(r)
  PROVE  IInv'
<1>1. /\ TypeInv /\ TypeOK /\ Mid /\ Owned /\ r \in Procs /\ TypeOK'
      /\ \A x \in Procs : CallAt(x)
  BY TypeFacts DEF IInv, TypeInv, Mid
<1>2. PICK j \in Jobs : j = tick[r].job
  BY <1>1, TickFacts
<1>3. UNCHANGED <<fleet, page, cursor>> /\ idx[r].pc = "none" /\ tick[r].pc = "run"
      /\ job[j].by = r
  BY <1>2 DEF Retry, At
<1>4. PICK due \in 0..MaxTime, n \in 0..MaxMoves, d \in JobRecord, i \in IndexState :
        Retried(r, due, n, d, i)
  BY <1>1, RetryFacts
<1>5. /\ now <= due /\ n = job[j].moves + 1
      /\ job' = [job EXCEPT ![j] = d]
      /\ d.state = "pending" /\ d.by = NoRunner /\ d.due = due /\ d.moves = n
      /\ d.indexed = FALSE /\ d.known = job[j].known
      /\ idx' = [idx EXCEPT ![r] = i]
      /\ i.pc = "bucket" /\ i.job = j /\ i.due = due /\ i.move = n
  BY <1>2, <1>4 DEF Retried
<1>6. PICK t : /\ Go(r, t) /\ t.pc = "jobs" /\ SameBucket(tick[r], t)
               /\ t.todo = tick[r].todo \ {j}
               /\ t.settled = (tick[r].settled /\ Bucket(due) # tick[r].bucket)
  BY <1>2, <1>4, Zenon DEF Retried
<1>7. tick'[r] = t /\ \A q \in Runners : q # r => tick'[q] = tick[q]
  BY <1>1, <1>6, GoTick DEF Go, TypeOK
<1>8. ReadsOn(r)
  BY <1>3, <1>6, <1>7 DEF ReadsOn, Reading
<1>9. FoundAt(r)'
  BY <1>3, <1>6, <1>7, <1>8, FoundLeft
<1>10. /\ job'[j] = d /\ \A k \in Jobs : k # j => job'[k] = job[k]
       /\ \A q \in Runners : q # r => ClaimKept(q)
       /\ Owned'
       /\ \A k \in Jobs : k # j => MovesOn(k) /\ SameMove(k) /\ Unsettled(k)' = Unsettled(k)
                                   /\ job'[k].known = job[k].known
  <2>1. d.by \in {r, NoRunner} /\ (d.by = r => d.state = "claimed") /\ d.state # "absent"
    BY <1>5, ProcsAssumption
  <2>2. job' = [job EXCEPT ![j] = d]
    BY <1>5
  <2> QED
    BY <1>1, <2>1, <2>2, RecordFacts, ZenonT(60)
<1>11. idx'[r] = i /\ \A x \in Procs : x # r => idx'[x] = idx[x]
  BY <1>1, <1>5, IdxAt
<1>12. job[j].moves \in Nat
  BY <1>1, TypeFacts, TimesAssumption
<1>13. MovesOn(j) /\ ~SameMove(j)
  BY <1>5, <1>10, <1>12 DEF MovesOn, SameMove
<1>14. CallAt(r)'
  BY <1>5, <1>10, <1>11, <1>12 DEF CallAt
<1>15. \A x \in Procs : idx'[x] = idx[x]
                        \/ (x = r /\ idx[x].pc = "none" /\ idx'[x].pc = "bucket")
  BY <1>3, <1>5, <1>11
\* The retry is due in a later bucket, or leaves this one unsettled.
<1>16. ASSUME NEW b \in Buckets, Sweeping(r, b)' PROVE Carrying(r, j, b)'
  <2>1. t.bucket = b /\ t.settled
    BY <1>7, <1>16 DEF Sweeping
  <2>2. tick[r].bucket = b /\ Bucket(due) # b
    BY <1>6, <2>1 DEF SameBucket
  <2>3. Bucket(due) >= b
    <3>1. tick[r].pc \in Reading \cup Moving
      BY <1>3 DEF Reading
    <3>2. tick[r].bucket <= tick[r].last /\ tick[r].last <= Bucket(now) /\ tick[r].last \in Nat
      BY <1>1, <3>1, ReaderBucket, TickFacts
    <3>3. now \in Nat /\ due \in Nat /\ Bucket(now) \in Nat /\ Bucket(due) \in Nat
      BY <1>1, TypeFacts, BucketFacts
    <3>4. Bucket(now) <= Bucket(due)
      BY <1>5, <3>3, BucketGrows
    <3>5. b \in Nat
      BY BucketFacts
    <3> QED
      BY <2>2, <3>2, <3>3, <3>4, <3>5
  <2>4. Bucket(due) > b
    <3>1. Bucket(due) \in Nat /\ b \in Nat
      BY BucketFacts
    <3> QED
      BY <2>2, <2>3, <3>1
  <2> QED
    BY <1>5, <1>10, <1>11, <2>4 DEF Carrying, Calling
<1>17. Rehomed(j)
  <2>1. HomeOf(j)'
    <3>1. ~job'[j].indexed /\ (job'[j].known => job[j].known)
      BY <1>5, <1>10
    <3> QED
      BY <1>2, <1>3, <1>7, <1>8, <1>16, <3>1, RetryHome
  <2>2. ASSUME NEW x \in Procs, Calling(x), idx[x].job = j PROVE idx[x].move # job'[j].moves
    <3>1. idx[x].move <= job[j].moves /\ idx[x].move \in Nat
      BY <1>1, <2>2, TypeFacts, TimesAssumption DEF CallAt
    <3> QED
      BY <1>5, <1>10, <1>12, <3>1
  <2> QED
    BY <2>1, <2>2 DEF Rehomed
<1>18. \A k \in Jobs, b \in Buckets :
         k # j /\ Safe(k, b) /\ Sweeping(r, b)' => k \in tick'[r].todo
  <2>1. tick'[r].settled => tick[r].settled
    BY <1>6, <1>7
  <2> QED
    BY <1>3, <1>6, <1>7, <1>8, <2>1, StillLeft
<1>19. \A k \in Jobs : MovesOn(k)
  BY <1>10, <1>13
<1> QED
  BY <1>3, <1>6, <1>8, <1>9, <1>10, <1>13, <1>14, <1>15, <1>17, <1>18, <1>19, GoJobInv

-----------------------------------------------------------------------------
(* The invariant.                                                          *)

LEMMA RunnerInv ==
  ASSUME IInv, TypeInv', NEW r \in Runners, Runner(r)
  PROVE  IInv'
BY StartInv, SecondReadInv, RepairInv, RereadInv, ReadBucketInv, ReturnInv, PassOverInv,
   ClaimInv, SettleInv, RetryInv, CancelledInv, StayInv, AdvanceInv, ReadAgainInv,
   MoveBackInv DEF Runner

LEMMA CallInv ==
  ASSUME IInv, TypeInv', NEW w \in Writers, NEW j \in Jobs, Call(w, j)
  PROVE  IInv'
<1>1. PICK due \in 0..MaxTime : Schedule(w, j, due) \/ Rerun(w, j, due) \/ CallAgain(w, j)
  BY TimesAssumption DEF Call
<1> QED
  BY <1>1, ScheduleInv, RerunInv, CallAgainInv

LEMMA NextInv == IInv /\ [Next]_vars => IInv'
<1> SUFFICES ASSUME IInv, [Next]_vars PROVE IInv'
  OBVIOUS
<1>1. TypeInv'
  BY NextType DEF IInv
<1>2. CASE Next
  <2>1. CASE Tick
    BY <1>1, <2>1, TickInv
  <2>2. CASE \E w \in Writers, j \in Jobs : Call(w, j)
    BY <1>1, <2>2, CallInv
  <2>3. CASE \/ \E w \in Writers : CallFails(w)
             \/ \E j \in Jobs : Cancel(j) \/ LeaseExpires(j)
    BY <1>1, <2>3, CallFailsInv, CancelInv
  <2>4. CASE \E x \in Procs : Index(x)
    BY <1>1, <2>4, IndexBucketInv, IndexPageInv, IndexLowerInv, MarkIndexedInv DEF Index
  <2>5. CASE \E r \in Runners : Runner(r) \/ RunnerFails(r)
    BY <1>1, <2>5, RunnerInv, RunnerFailsInv
  <2> QED
    BY <1>2, <2>1, <2>2, <2>3, <2>4, <2>5 DEF Next
<1>3. CASE UNCHANGED vars
  <2>1. UNCHANGED <<fleet, tick, page, cursor, job, idx>>
    BY <1>3 DEF vars
  <2>2. Owned'
    BY <2>1 DEF Owned, IInv, Mid
  <2> QED
    BY <1>1, <2>1, <2>2, SameJobsGoOn, SameJobClaim, StillInv
<1> QED
  BY <1>2, <1>3

\* The deployments considered are such that nobody fails or that have a
\* single runner (MCDueIndex's OneThatFails and TwoThatDoNot).
NoneFailsOrAlone == \A f \in Fleets : f.fails = 0 \/ \A q, r \in f.runners : q = r

LEMMA InitInv ==
  ASSUME NoneFailsOrAlone, Init
  PROVE  IInv
<1>1. TypeInv /\ fleet \in Fleets
  BY InitType DEF Init
<1>2. /\ \A j \in Jobs : /\ job[j].state = "absent" /\ job[j].by = NoRunner
                         /\ job[j].known = FALSE
      /\ \A x \in Procs : idx[x].pc = "none"
      /\ \A r \in Runners : tick[r].pc = "idle" /\ tick[r].held = FALSE
      /\ cursor.behind = NotRead
  BY NoIndexFacts, NoTickFacts DEF Init, NoCursor
<1>3. \A r \in Runners : ReaderAt(r)
  BY <1>2 DEF ReaderAt, HeldAt, SeenAt, AloneAt, Outrun, FoundAt, Reading, Moving, Checking
<1>4. Mid
  BY <1>1, <1>2, <1>3
     DEF Mid, CursorOld, Owned, Sound, Single, CallAt, Calling, NoneFailsOrAlone
<1>5. (\A j \in Jobs : HomeOf(j)) /\ \A x \in Procs : NewHomeAt(x)
  BY <1>2 DEF HomeOf, Accepted, NewHomeAt, Current
<1> QED
  BY <1>1, <1>4, <1>5 DEF IInv

\* Runners move the cursor past a bucket while jobs are written to it
\* (KvJobs::advance, index): in a fleet whose runners do not fail, and in one
\* of a single runner however it fails, an accepted job is always on a page
\* that the cursor has not passed, or that it will be moved back to.
THEOREM DueReachable ==
  ASSUME NoneFailsOrAlone
  PROVE  Spec => []JobReachable
<1>1. IInv => JobReachable
  <2> SUFFICES ASSUME IInv, NEW j \in Jobs, Accepted(j)
               PROVE  \E b \in Buckets : j \in page[b].ids /\ (PastCursor(b) \/ Repairing(b))
    BY DEF JobReachable
  <2>1. PICK b \in Buckets : Safe(j, b) /\ Kept(b)
    BY DEF IInv, HomeOf, Home
  <2>2. PastCursor(b) \/ Repairing(b)
    BY <2>1 DEF Kept, MovesBack, Noted, Repairing
  <2> QED
    BY <2>1, <2>2 DEF Safe
<1>2. Init => IInv
  BY InitInv
<1> QED
  BY <1>1, <1>2, NextInv, PTL DEF Spec
=============================================================================
