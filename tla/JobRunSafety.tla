---------------------------- MODULE JobRunSafety ----------------------------
(***************************************************************************)
(* Nobody is sent twice, and markers and summaries never lie: the          *)
(* inductive invariants behind JobRun's AtMostOnce, MarkerTruth,           *)
(* SummaryTruth and UnsentUnlessTakenOver, for every instance.             *)
(*                                                                         *)
(* None of them is inductive: they rest on what a send in progress     *)
(* owns.  Between mark_sending and the removal or the outcome of its       *)
(* marker, a send has its recipient's marker to itself, and knows whether  *)
(* Meta has acted on its request.                                          *)
(***************************************************************************)
EXTENDS JobRunProofs

\* The sends with their marker in place ...
Marked == {"verify", "request"} \cup Answered \cup Withdrawing
\* ... and those of them that Meta has not acted on.
Undone == {"verify", "request", "refused", "limited"} \cup Withdrawing

\* Only a pass in its send phase has sends in progress.
Passive == \A r \in Runners :
  pc[r] # "send" => \A p \in Rcpt : task[r][p] = "idle"

\* A send past mark_sending has its recipient's marker to itself.
Owned == \A r \in Runners, p \in Rcpt :
  task[r][p] \in Marked => marker[claim[r].run][p] = SendingBy(r)

\* A send knows what it has done.
Known == \A r \in Runners, p \in Rcpt :
  /\ task[r][p] \in Undone => delivered[claim[r].run][p] = 0
  /\ task[r][p] = "accepted" => delivered[claim[r].run][p] = 1

SendInv == Owned /\ Known /\ MarkerTruth /\ AtMostOnce

IInv == TypeInv /\ Passive /\ SendInv

-----------------------------------------------------------------------------
(* What the actions leave alone.                                           *)

\* The sends, markers and deliveries are as they were, but for sends that
\* are over or have yet to write their marker.
LEMMA Frame ==
  ASSUME SendInv, UNCHANGED <<marker, delivered>>,
         \A r \in Runners, p \in Rcpt :
           \/ task'[r][p] \in {"idle", "queued", "mark"}
           \/ task'[r][p] = task[r][p] /\ claim'[r] = claim[r]
  PROVE  SendInv'
<1>1. \A t \in {"idle", "queued", "mark"} : t \notin Marked /\ t \notin Undone
                                             /\ t # "accepted"
  BY DEF Marked, Undone, Answered, Withdrawing
<1>2. Owned'
  BY <1>1 DEF SendInv, Owned, SendingBy
<1>3. Known'
  BY <1>1 DEF SendInv, Known
<1> QED
  BY <1>2, <1>3 DEF SendInv, MarkerTruth, AtMostOnce

\* A pass that is dropped has no send left, and touches nobody else's.
LEMMA DropFrame ==
  ASSUME TypeInv, Passive, NEW r \in Runners, Drop(r)
  PROVE  /\ \A q \in Runners, p \in Rcpt :
              \/ task'[q][p] \in {"idle", "queued", "mark"}
              \/ task'[q][p] = task[q][p] /\ claim'[q] = claim[q]
         /\ Passive'
BY DEF TypeInv, TypeOK, Passive, Drop

\* A send in progress belongs to a pass in its send phase.
LEMMA TaskFrame ==
  ASSUME TypeInv, Passive, NEW r \in Runners, NEW p \in Rcpt, NEW t,
         task[r][p] # "idle", SetTask(r, p, t), UNCHANGED pc
  PROVE  Passive'
BY DEF TypeInv, TypeOK, Passive, SetTask

\* SetTask leaves every other send as it is.
LEMMA TaskOthers ==
  ASSUME TypeInv, NEW r \in Runners, NEW p \in Rcpt, NEW t, SetTask(r, p, t)
  PROVE  /\ task'[r][p] = t
         /\ \A q \in Runners, x \in Rcpt :
              q # r \/ x # p => task'[q][x] = task[q][x]
BY DEF TypeInv, TypeOK, SetTask

\* A "sending" marker says whose it is.
LEMMA SendingByWhom ==
  ASSUME NEW r, NEW q
  PROVE  /\ SendingBy(r) = SendingBy(q) => q = r
         /\ SendingBy(r) # Unmarked
<1>1. SendingBy(r).by = r /\ SendingBy(q).by = q /\ SendingBy(r).state = "sending"
  BY DEF SendingBy
<1>2. Unmarked.state = "none"
  BY DEF Unmarked, Mark
<1> QED BY <1>1, <1>2

\* Two sends that have the same recipient's marker in place are one send.
LEMMA OneOwner ==
  ASSUME TypeInv, Owned, NEW r \in Runners, NEW q \in Runners, NEW p \in Rcpt,
         task[r][p] \in Marked, task[q][p] \in Marked,
         claim[r].run = claim[q].run
  PROVE  q = r
BY SendingByWhom DEF Owned

-----------------------------------------------------------------------------
(* One lemma per way a send changes markers or deliveries.                 *)

\* The send to p takes another step short of its outcome.
LEMMA TaskStep ==
  ASSUME TypeInv, SendInv, NEW r \in Runners, NEW p \in Rcpt, NEW t,
         task[r][p] \in Marked, SetTask(r, p, t),
         task[r][p] \in Undone /\ t \in Undone,
         UNCHANGED <<marker, delivered, claim>>
  PROVE  SendInv'
<1>1. t \in Marked /\ t # "accepted"
  BY DEF Marked, Undone, Answered, Withdrawing
<1>2. Owned'
  BY <1>1, TaskOthers DEF SendInv, Owned, SendingBy
<1>3. Known'
  BY <1>1, TaskOthers DEF SendInv, Known
<1> QED
  BY <1>2, <1>3 DEF SendInv, MarkerTruth, AtMostOnce

\* mark_sending writes the marker where there is none, for the send t.
LEMMA MarkStep ==
  ASSUME TypeInv, SendInv, NEW r \in Runners, NEW p \in Rcpt,
         NEW t \in {"verify", "idle"}, SetTask(r, p, t),
         marker[claim[r].run][p] = Unmarked,
         marker' = [marker EXCEPT ![claim[r].run][p] = SendingBy(r)],
         UNCHANGED <<delivered, claim>>
  PROVE  SendInv'
<1> DEFINE n == claim[r].run
<1>1. n \in Run /\ \A q \in Runners : claim[q].run \in Run
  BY DEF TypeInv, TypeOK, JobClaim
<1>2. /\ marker'[n][p] = SendingBy(r)
      /\ \A m \in Run, x \in Rcpt : m # n \/ x # p => marker'[m][x] = marker[m][x]
  BY <1>1 DEF TypeInv, TypeOK
<1>3. delivered[n][p] = 0
  BY <1>1 DEF SendInv, MarkerTruth, Unmarked, Mark
<1>4. \A q \in Runners : claim[q].run = n => task[q][p] \notin Marked
  BY SendingByWhom DEF SendInv, Owned
<1>5. t \in Marked => t \in Undone
  BY DEF Marked, Undone, Answered, Withdrawing
<1>6. t # "accepted" /\ ("idle" \notin Marked) /\ ("idle" \notin Undone)
  BY DEF Marked, Undone, Answered, Withdrawing
<1> HIDE DEF n
<1>7. Owned'
  <2> SUFFICES ASSUME NEW q \in Runners, NEW x \in Rcpt, task'[q][x] \in Marked
               PROVE  marker'[claim[q].run][x] = SendingBy(q)
    BY DEF Owned, SendingBy
  <2>1. CASE q = r /\ x = p
    BY <1>2, <2>1 DEF n
  <2>2. CASE q # r \/ x # p
    <3>1. task[q][x] \in Marked
      BY <2>2, TaskOthers
    <3>2. claim[q].run # n \/ x # p
      BY <1>4, <3>1
    <3> QED BY <1>1, <1>2, <3>1, <3>2 DEF SendInv, Owned
  <2> QED BY <2>1, <2>2
<1>8. Known'
  <2> SUFFICES ASSUME NEW q \in Runners, NEW x \in Rcpt
               PROVE  /\ task'[q][x] \in Undone => delivered[claim[q].run][x] = 0
                      /\ task'[q][x] = "accepted" => delivered[claim[q].run][x] = 1
    BY DEF Known
  <2>1. CASE q = r /\ x = p
    BY <1>3, <1>6, <2>1, TaskOthers DEF n
  <2>2. CASE q # r \/ x # p
    BY <2>2, TaskOthers DEF SendInv, Known
  <2> QED BY <2>1, <2>2
<1>9. MarkerTruth'
  BY <1>1, <1>2 DEF SendInv, MarkerTruth, SendingBy
<1> QED
  BY <1>7, <1>8, <1>9 DEF SendInv, AtMostOnce

\* The send is over: its marker is removed or takes the outcome's state.
LEMMA OutcomeStep ==
  ASSUME TypeInv, SendInv, NEW r \in Runners, NEW p \in Rcpt,
         NEW t \in {"idle", "queued"}, SetTask(r, p, t),
         task[r][p] \in Marked,
         NEW s \in {"none", "sent", "failed", "unknown"},
         marker' = [marker EXCEPT ![claim[r].run][p] = Mark(s)],
         s \in {"none", "failed"} => task[r][p] \in Undone,
         s = "sent" => task[r][p] = "accepted",
         UNCHANGED <<delivered, claim>>
  PROVE  SendInv'
<1> DEFINE n == claim[r].run
<1>1. n \in Run /\ \A q \in Runners : claim[q].run \in Run
  BY DEF TypeInv, TypeOK, JobClaim
<1>2. /\ marker'[n][p] = Mark(s)
      /\ \A m \in Run, x \in Rcpt : m # n \/ x # p => marker'[m][x] = marker[m][x]
  BY <1>1 DEF TypeInv, TypeOK
<1>3. /\ s \in {"none", "failed"} => delivered[n][p] = 0
      /\ s = "sent" => delivered[n][p] = 1
  BY DEF SendInv, Known
<1>4. \A q \in Runners : q # r /\ claim[q].run = n => task[q][p] \notin Marked
  BY OneOwner DEF SendInv
<1>5. t \notin Marked /\ t \notin Undone /\ t # "accepted"
  BY DEF Marked, Undone, Answered, Withdrawing
<1> HIDE DEF n
<1>6. Owned'
  <2> SUFFICES ASSUME NEW q \in Runners, NEW x \in Rcpt, task'[q][x] \in Marked
               PROVE  marker'[claim[q].run][x] = SendingBy(q)
    BY DEF Owned, SendingBy
  <2>1. q # r \/ x # p
    BY <1>5, TaskOthers
  <2>2. task[q][x] \in Marked
    BY <2>1, TaskOthers
  <2>3. claim[q].run # n \/ x # p
    BY <1>4, <2>1, <2>2
  <2> QED BY <1>1, <1>2, <2>2, <2>3 DEF SendInv, Owned
<1>7. Known'
  <2> SUFFICES ASSUME NEW q \in Runners, NEW x \in Rcpt
               PROVE  /\ task'[q][x] \in Undone => delivered[claim[q].run][x] = 0
                      /\ task'[q][x] = "accepted" => delivered[claim[q].run][x] = 1
    BY DEF Known
  <2>1. CASE q = r /\ x = p
    BY <1>5, <2>1, TaskOthers
  <2>2. CASE q # r \/ x # p
    BY <2>2, TaskOthers DEF SendInv, Known
  <2> QED BY <2>1, <2>2
<1>8. MarkerTruth'
  BY <1>1, <1>2, <1>3 DEF SendInv, MarkerTruth, Mark
<1> QED
  BY <1>6, <1>7, <1>8 DEF SendInv, AtMostOnce

\* The request and its answer: Meta acts on it at most once.
LEMMA RequestStep ==
  ASSUME TypeInv, SendInv, NEW r \in Runners, NEW p \in Rcpt, Request(r, p)
  PROVE  SendInv'
<1> DEFINE n == claim[r].run
<1>1. n \in Run /\ \A q \in Runners : claim[q].run \in Run
  BY DEF TypeInv, TypeOK, JobClaim
<1>2. PICK t \in Answered \cup {"throttled"} :
        /\ SetTask(r, p, t)
        /\ \/ /\ t \in {"accepted", "unknown"}
              /\ delivered' = [delivered EXCEPT ![n][p] = @ + 1]
           \/ t # "accepted" /\ UNCHANGED delivered
  BY DEF Request
<1>3. task[r][p] = "request" /\ UNCHANGED <<marker, claim>>
  BY DEF Request, pass
<1>4. "request" \in Marked /\ "request" \in Undone /\ t \in Marked
  BY DEF Marked, Undone, Answered, Withdrawing
<1>5. delivered[n][p] = 0 /\ marker[n][p] = SendingBy(r)
  BY <1>3, <1>4 DEF SendInv, Known, Owned
<1>6. /\ delivered'[n][p] \in {0, 1}
      /\ t \in Undone => delivered'[n][p] = 0
      /\ t = "accepted" => delivered'[n][p] = 1
      /\ \A m \in Run, x \in Rcpt : m # n \/ x # p => delivered'[m][x] = delivered[m][x]
  <2>1. CASE delivered' = [delivered EXCEPT ![n][p] = @ + 1] /\ t \in {"accepted", "unknown"}
    <3>1. t \notin Undone
      BY <2>1 DEF Undone, Withdrawing
    <3> QED BY <1>1, <1>5, <2>1, <3>1 DEF TypeInv, TypeOK
  <2>2. CASE t # "accepted" /\ UNCHANGED delivered
    BY <1>5, <2>2
  <2> QED BY <1>2, <2>1, <2>2
<1>7. \A q \in Runners : q # r /\ claim[q].run = n => task[q][p] \notin Marked
  BY <1>3, <1>4, OneOwner DEF SendInv
<1>8. Undone \subseteq Marked /\ "accepted" \in Marked
  BY DEF Marked, Undone, Answered
<1> HIDE DEF n
<1>9. Owned'
  <2> SUFFICES ASSUME NEW q \in Runners, NEW x \in Rcpt, task'[q][x] \in Marked
               PROVE  marker[claim[q].run][x] = SendingBy(q)
    BY <1>3 DEF Owned, SendingBy
  <2>1. CASE q = r /\ x = p
    BY <1>5, <2>1 DEF n
  <2>2. CASE q # r \/ x # p
    BY <1>2, <2>2, TaskOthers DEF SendInv, Owned
  <2> QED BY <2>1, <2>2
<1>10. Known'
  <2> SUFFICES ASSUME NEW q \in Runners, NEW x \in Rcpt
               PROVE  /\ task'[q][x] \in Undone => delivered'[claim[q].run][x] = 0
                      /\ task'[q][x] = "accepted" => delivered'[claim[q].run][x] = 1
    BY <1>3 DEF Known
  <2>1. CASE q = r /\ x = p
    BY <1>2, <1>6, <2>1, TaskOthers DEF n
  <2>2. CASE q # r \/ x # p
    <3>1. task'[q][x] = task[q][x]
      BY <1>2, <2>2, TaskOthers
    <3>2. CASE task[q][x] \in Marked
      <4>1. claim[q].run # n \/ x # p
        BY <1>7, <2>2, <3>2
      <4> QED BY <1>1, <1>6, <3>1, <4>1 DEF SendInv, Known
    <3>3. CASE task[q][x] \notin Marked
      BY <1>8, <3>1, <3>3
    <3> QED BY <3>2, <3>3
  <2> QED BY <2>1, <2>2
<1>11. MarkerTruth'
  <2> SUFFICES ASSUME NEW m \in Run, NEW x \in Rcpt
               PROVE  /\ marker[m][x].state \in {"none", "failed"} => delivered'[m][x] = 0
                      /\ marker[m][x].state = "sent" => delivered'[m][x] = 1
    BY <1>3 DEF MarkerTruth
  <2>1. CASE m = n /\ x = p
    BY <1>5, <2>1 DEF SendingBy
  <2>2. CASE m # n \/ x # p
    BY <1>6, <2>2 DEF SendInv, MarkerTruth
  <2> QED BY <2>1, <2>2
<1>12. AtMostOnce'
  BY <1>6 DEF SendInv, AtMostOnce
<1> QED
  BY <1>9, <1>10, <1>11, <1>12 DEF SendInv
-----------------------------------------------------------------------------
(* The invariant is inductive.                                             *)

\* Nothing is marked, sent or in progress at first.
LEMMA InitSafe == Init => IInv
<1> SUFFICES ASSUME Init PROVE IInv
  OBVIOUS
<1>1. \A r \in Runners, p \in Rcpt : task[r][p] = "idle"
  BY DEF Init
<1>2. "idle" \notin Marked /\ "idle" \notin Undone
  BY DEF Marked, Undone, Answered, Withdrawing
<1>3. \A n \in Run, p \in Rcpt : marker[n][p].state = "none" /\ delivered[n][p] = 0
  BY DEF Init, Unmarked, Mark
<1>4. Owned /\ Known
  BY <1>1, <1>2 DEF Owned, Known
<1>5. MarkerTruth /\ AtMostOnce
  BY <1>3 DEF MarkerTruth, AtMostOnce
<1> QED
  BY <1>1, <1>4, <1>5, InitType DEF IInv, SendInv, Passive

\* Every action keeps the invariant of the sends in progress.
LEMMA NextSafe == IInv /\ [Next]_vars => IInv'
<1> SUFFICES ASSUME IInv, [Next]_vars PROVE IInv'
  OBVIOUS
<1>0. TypeInv' /\ TypeInv /\ Passive /\ SendInv
  BY NextType DEF IInv
<1> SUFFICES Passive' /\ SendInv'
  BY <1>0 DEF IInv
<1> USE <1>0 DEF pass
<1>1. ASSUME UNCHANGED <<marker, delivered, pc, claim, task>> PROVE Passive' /\ SendInv'
  BY <1>1, Frame DEF Passive
<1>2. ASSUME NEW d \in 0..Delay, Schedule(d) \/ Rerun(d) PROVE Passive' /\ SendInv'
  BY <1>1, <1>2 DEF Schedule, Rerun
<1>3. CASE Cancel \/ Tick
  BY <1>1, <1>3 DEF Cancel, Tick
<1>4. ASSUME NEW p \in Rcpt, LimitMessage(p) \/ LimitExpires(p) PROVE Passive' /\ SendInv'
  BY <1>1, <1>4 DEF LimitMessage, LimitExpires
<1>5. ASSUME NEW r \in Runners, Pass(r) PROVE Passive' /\ SendInv'
  <2>1. CASE ClaimRead(r) \/ Keep(r)
    <3>1. UNCHANGED <<marker, delivered, claim, task>>
      BY <2>1 DEF ClaimRead, Keep
    <3>2. /\ pc[r] # "send"
          /\ \E where : pc' = [pc EXCEPT ![r] = where]
      BY <2>1 DEF ClaimRead, Keep
    <3>3. Passive'
      BY <3>1, <3>2 DEF Passive, TypeInv, TypeOK
    <3> QED BY <3>1, <3>3, Frame
  <2>2. CASE ClaimSwap(r)
    <3>1. \A p \in Rcpt : task[r][p] = "idle"
      BY <2>2 DEF ClaimSwap, Passive
    <3>2. \A q \in Runners, p \in Rcpt :
             \/ task'[q][p] \in {"idle", "queued", "mark"}
             \/ task'[q][p] = task[q][p] /\ claim'[q] = claim[q]
      BY <2>2, <3>1 DEF ClaimSwap, TypeInv, TypeOK
    <3>3. Passive'
      BY <2>2, <3>1 DEF ClaimSwap, Passive, TypeInv, TypeOK
    <3>4. UNCHANGED <<marker, delivered>>
      BY <2>2 DEF ClaimSwap
    <3> QED BY <3>2, <3>3, <3>4, Frame
  <2>3. CASE ClaimLost(r) \/ KeepHalted(r) \/ EndPass(r)
    <3>1. Drop(r) /\ UNCHANGED <<marker, delivered>>
      BY <2>3 DEF ClaimLost, KeepHalted, EndPass
    <3> QED BY <3>1, DropFrame, Frame
  <2>4. CASE ReadMarker(r)
    <3>1. \A p \in Rcpt : task[r][p] = "idle"
      BY <2>4 DEF ReadMarker, Passive
    <3>2. \/ /\ pc' = [pc EXCEPT ![r] = "keep"]
             /\ task' = task
          \/ /\ pc' = [pc EXCEPT ![r] = "send"]
             /\ \E now : task' = [task EXCEPT ![r] = [p \in Rcpt |->
                   IF now[p] = "unmarked" /\ p \notin Uncomposable
                     THEN "queued" ELSE "idle"]]
      BY <2>4 DEF ReadMarker
    <3>3. \A q \in Runners, p \in Rcpt :
             \/ task'[q][p] \in {"idle", "queued", "mark"}
             \/ task'[q][p] = task[q][p]
      BY <3>2 DEF TypeInv, TypeOK
    <3>4. Passive'
      <4>1. \A q \in Runners : q # r => pc'[q] = pc[q] /\ task'[q] = task[q]
        BY <3>2 DEF TypeInv, TypeOK
      <4>2. pc'[r] # "send" => task'[r] = task[r]
        BY <3>2 DEF TypeInv, TypeOK
      <4> QED BY <3>1, <4>1, <4>2 DEF Passive
    <3>5. UNCHANGED <<marker, delivered, claim>>
      BY <2>4 DEF ReadMarker
    <3> QED BY <3>3, <3>4, <3>5, Frame
  <2> QED BY <1>5, <2>1, <2>2, <2>3, <2>4 DEF Pass
<1>6. ASSUME NEW r \in Runners, Abandon(r) PROVE Passive' /\ SendInv'
  BY <1>6, DropFrame, Frame DEF Abandon
<1>7. ASSUME NEW r \in Runners, NEW p \in Rcpt, NEW t \in {"idle", "queued", "mark"},
             SetTask(r, p, t), UNCHANGED <<marker, delivered, claim>>
      PROVE  SendInv'
  <2>1. \A q \in Runners, x \in Rcpt :
          task'[q][x] \in {"idle", "queued", "mark"} \/ task'[q][x] = task[q][x]
    BY <1>7, TaskOthers
  <2> QED BY <1>7, <2>1, Frame
<1>8. ASSUME NEW r \in Runners, NEW p \in Rcpt, Send(r, p) PROVE Passive' /\ SendInv'
  <2>1. Passive'
    BY <1>8, TaskFrame DEF Send, Check, MarkSending, CheckRun, Request, MarkOutcome,
       Unmark, AfterUnmark, Answered, Withdrawing
  <2> SUFFICES SendInv'
    BY <2>1
  <2>2. CASE Check(r, p)
    BY <1>7, <2>2 DEF Check
  <2>3. CASE MarkSending(r, p)
    <3>1. CASE marker[claim[r].run][p] = Unmarked
      BY <2>3, <3>1, MarkStep DEF MarkSending
    <3>2. CASE marker[claim[r].run][p] # Unmarked
      BY <1>7, <2>3, <3>2 DEF MarkSending
    <3> QED BY <3>1, <3>2
  <2>4. CASE CheckRun(r, p)
    <3>1. PICK t \in {"cancelled", "lost", "request"} : SetTask(r, p, t)
      BY <2>4 DEF CheckRun
    <3>2. {"cancelled", "lost", "request", "verify"} \subseteq Marked \cap Undone
      BY DEF Marked, Undone, Withdrawing
    <3> QED BY <2>4, <3>1, <3>2, TaskStep DEF CheckRun
  <2>5. CASE Request(r, p)
    BY <2>5, RequestStep
  <2>6. CASE MarkOutcome(r, p)
    <3> DEFINE s == OutcomeOf(task[r][p])
    <3>1. /\ task[r][p] \in Marked /\ s \in {"none", "sent", "failed", "unknown"}
          /\ s \in {"none", "failed"} => task[r][p] \in Undone
          /\ s = "sent" => task[r][p] = "accepted"
      BY <2>6 DEF MarkOutcome, OutcomeOf, Answered, Marked, Undone
    <3>2. SetTask(r, p, "idle") /\ UNCHANGED <<delivered, claim>>
      BY <2>6 DEF MarkOutcome
    <3> HIDE DEF s
    <3>3. CASE marker' = [marker EXCEPT ![claim[r].run][p] = Mark(s)]
      BY <3>1, <3>2, <3>3, OutcomeStep
    <3>4. CASE UNCHANGED marker
      BY <1>7, <3>2, <3>4
    <3> QED BY <2>6, <3>3, <3>4 DEF MarkOutcome, s
  <2>7. CASE Unmark(r, p)
    <3>1. task[r][p] \in Marked /\ task[r][p] \in Undone
      BY <2>7 DEF Unmark, Marked, Undone
    <3>2. PICK t \in {"idle", "queued"} : SetTask(r, p, t)
      BY <2>7 DEF Unmark, AfterUnmark
    <3>3. /\ marker' = [marker EXCEPT ![claim[r].run][p] = Mark("none")]
          /\ UNCHANGED <<delivered, claim>>
      BY <2>7 DEF Unmark, AfterUnmark, Unmarked
    <3> QED BY <3>1, <3>2, <3>3, OutcomeStep
  <2> QED BY <1>8, <2>2, <2>3, <2>4, <2>5, <2>6, <2>7 DEF Send
<1>9. ASSUME NEW r \in Runners, NEW p \in Rcpt, SendFault(r, p) PROVE Passive' /\ SendInv'
  <2>1. Passive'
    BY <1>9, TaskFrame DEF SendFault, Skip, MarkSendingFails, CheckRunFails,
       UnmarkFails, AfterUnmark, Withdrawing
  <2> SUFFICES SendInv'
    BY <2>1
  <2>2. CASE Skip(r, p)
    BY <1>7, <2>2 DEF Skip
  <2>3. CASE MarkSendingFails(r, p)
    <3>1. CASE UNCHANGED marker
      BY <1>7, <2>3, <3>1 DEF MarkSendingFails
    <3>2. CASE /\ marker[claim[r].run][p] = Unmarked
               /\ marker' = [marker EXCEPT ![claim[r].run][p] = SendingBy(r)]
      BY <2>3, <3>2, MarkStep DEF MarkSendingFails
    <3> QED BY <2>3, <3>1, <3>2 DEF MarkSendingFails
  <2>4. CASE CheckRunFails(r, p)
    <3>1. {"unread", "verify"} \subseteq Marked \cap Undone
      BY DEF Marked, Undone, Withdrawing
    <3> QED BY <2>4, <3>1, TaskStep DEF CheckRunFails
  <2>5. CASE UnmarkFails(r, p)
    <3>1. task[r][p] \in Marked /\ task[r][p] \in Undone
      BY <2>5 DEF UnmarkFails, Marked, Undone
    <3>2. PICK t \in {"idle", "queued"} : SetTask(r, p, t)
      BY <2>5 DEF UnmarkFails, AfterUnmark
    <3>3. UNCHANGED <<delivered, claim>>
      BY <2>5 DEF UnmarkFails, AfterUnmark
    <3>4. CASE UNCHANGED marker
      BY <1>7, <3>2, <3>3, <3>4
    <3>5. CASE marker' = [marker EXCEPT ![claim[r].run][p] = Mark("none")]
      BY <3>1, <3>2, <3>3, <3>5, OutcomeStep
    <3> QED BY <2>5, <3>4, <3>5 DEF UnmarkFails, Unmarked
  <2> QED BY <1>9, <2>2, <2>3, <2>4, <2>5 DEF SendFault
<1>10. CASE UNCHANGED vars
  BY <1>1, <1>10 DEF vars
<1> QED
  BY <1>2, <1>3, <1>4, <1>5, <1>6, <1>8, <1>9, <1>10 DEF Next

\* The invariant holds throughout.
THEOREM SafeInv == Spec => []IInv
BY InitSafe, NextSafe, PTL DEF Spec

\* At most once (the JobStore contract, jobs/port.rs): whatever the number
\* of runners and recipients, however passes overlap, stall, fail and resume,
\* no recipient is sent twice in a run.
THEOREM NobodySentTwice == Spec => []AtMostOnce
BY SafeInv, PTL DEF IInv, SendInv

\* Whoever resumes a run may trust its markers: without one, or with a failed
\* one, nothing went out; with a sent one the message did.
THEOREM MarkersTellTheTruth == Spec => []MarkerTruth
BY SafeInv, PTL DEF IInv, SendInv

-----------------------------------------------------------------------------
(* The summary.  What a pass has found out stays true while it runs, other *)
(* passes or not: a message sent stays sent, and a recipient whose send    *)
(* failed is sent nothing any more in that run.                            *)

\* A send to p in run n has its marker in place.
Owner(n, p) == \E r \in Runners : claim[r].run = n /\ task[r][p] \in Marked

\* p's marker in run n is there and no send has it: nobody changes it.
Frozen(n, p) == marker[n][p] # Unmarked /\ ~Owner(n, p)

\* What a step does to sends, markers and deliveries, and who does it.
TaskCause(r, p) ==
  /\ task'[r][p] \in Marked =>
       /\ claim'[r] = claim[r]
       /\ task[r][p] \in Marked \/ marker[claim[r].run][p] = Unmarked
  /\ task'[r][p] # "idle" => task[r][p] # "idle" \/ p \notin Uncomposable
MarkCause(n, p) ==
  /\ marker'[n][p] # marker[n][p] => marker[n][p] = Unmarked \/ Owner(n, p)
  /\ delivered'[n][p] # delivered[n][p] => Owner(n, p) /\ delivered'[n][p] >= delivered[n][p]
Causes == /\ \A r \in Runners, p \in Rcpt : TaskCause(r, p)
          /\ \A n \in Run, p \in Rcpt : MarkCause(n, p)

LEMMA NotMarked ==
  \A t \in {"idle", "queued", "mark"} : t \notin Marked
BY DEF Marked, Answered, Withdrawing

\* Markers and deliveries stay, and sends stay or are over or begin.
LEMMA QuietCauses ==
  ASSUME UNCHANGED <<marker, delivered>>,
         \A r \in Runners, p \in Rcpt :
           \/ task'[r][p] = task[r][p] /\ claim'[r] = claim[r]
           \/ task'[r][p] = "idle"
           \/ task'[r][p] \in {"queued", "mark"} /\ p \notin Uncomposable
  PROVE  Causes
<1>1. ASSUME NEW r \in Runners, NEW p \in Rcpt
      PROVE  TaskCause(r, p)
  <2>1. CASE task'[r][p] = task[r][p] /\ claim'[r] = claim[r]
    BY <2>1 DEF TaskCause
  <2>2. CASE task'[r][p] = "idle"
    BY <2>2, NotMarked DEF TaskCause
  <2>3. CASE task'[r][p] \in {"queued", "mark"} /\ p \notin Uncomposable
    BY <2>3, NotMarked DEF TaskCause
  <2> QED
    BY <2>1, <2>2, <2>3
<1>2. ASSUME NEW n \in Run, NEW p \in Rcpt
      PROVE  MarkCause(n, p)
  BY DEF MarkCause
<1> QED
  BY <1>1, <1>2 DEF Causes

\* One send moves on.
LEMMA SendCauses ==
  ASSUME TypeInv, NEW r \in Runners, NEW p \in Rcpt, NEW t, SetTask(r, p, t),
         task[r][p] # "idle", UNCHANGED claim,
         t \in Marked => task[r][p] \in Marked \/ marker[claim[r].run][p] = Unmarked,
         \/ UNCHANGED marker
         \/ /\ task[r][p] \in Marked \/ marker[claim[r].run][p] = Unmarked
            /\ \E m : marker' = [marker EXCEPT ![claim[r].run][p] = m],
         \/ UNCHANGED delivered
         \/ /\ task[r][p] \in Marked
            /\ delivered' = [delivered EXCEPT ![claim[r].run][p] = @ + 1]
  PROVE  Causes
<1>1. claim[r].run \in Run
  BY DEF TypeInv, TypeOK, JobClaim
<1>4. \A n \in Run, x \in Rcpt : n # claim[r].run \/ x # p => marker'[n][x] = marker[n][x]
  <2>1. CASE UNCHANGED marker
    BY <2>1
  <2>2. ASSUME NEW m, marker' = [marker EXCEPT ![claim[r].run][p] = m]
        PROVE  \A n \in Run, x \in Rcpt : n # claim[r].run \/ x # p => marker'[n][x] = marker[n][x]
    BY <1>1, <2>2 DEF TypeInv, TypeOK
  <2> QED
    BY <2>1, <2>2
<1>5. \A n \in Run, x \in Rcpt : n # claim[r].run \/ x # p => delivered'[n][x] = delivered[n][x]
  <2>1. CASE UNCHANGED delivered
    BY <2>1
  <2>2. CASE delivered' = [delivered EXCEPT ![claim[r].run][p] = @ + 1]
    BY <1>1, <2>2 DEF TypeInv, TypeOK
  <2> QED
    BY <2>1, <2>2
<1>6. /\ task'[r][p] = t
      /\ \A q \in Runners, x \in Rcpt : q # r \/ x # p => task'[q][x] = task[q][x]
  BY TaskOthers
<1>2. ASSUME NEW q \in Runners, NEW x \in Rcpt
      PROVE  TaskCause(q, x)
  <2>1. CASE q = r /\ x = p
    BY <1>6, <2>1 DEF TaskCause
  <2>2. CASE q # r \/ x # p
    <3>1. task'[q][x] = task[q][x]
      BY <1>6, <2>2
    <3> QED
      BY <3>1 DEF TaskCause
  <2> QED
    BY <2>1, <2>2
<1>3. ASSUME NEW n \in Run, NEW x \in Rcpt
      PROVE  MarkCause(n, x)
  <2>1. CASE n = claim[r].run /\ x = p
    <3>1. task[r][p] \in Marked => Owner(n, x)
      BY <2>1 DEF Owner
    <3>2. marker'[n][x] # marker[n][x] => marker[n][x] = Unmarked \/ Owner(n, x)
      BY <2>1, <3>1
    <3>3. /\ delivered[n][x] \in Nat
          /\ \/ delivered'[n][x] = delivered[n][x]
             \/ delivered'[n][x] = delivered[n][x] + 1 /\ Owner(n, x)
      BY <2>1, <3>1 DEF TypeInv, TypeOK
    <3> QED
      BY <3>2, <3>3 DEF MarkCause
  <2>2. CASE n # claim[r].run \/ x # p
    BY <1>4, <1>5, <2>2 DEF MarkCause
  <2> QED
    BY <2>1, <2>2
<1> QED
  BY <1>2, <1>3 DEF Causes

\* Every step: a marker comes where there is none or goes by the send that
\* has it in place, and Meta acts on a request of such a send.
LEMMA NextCauses ==
  ASSUME IInv, [Next]_vars
  PROVE  Causes
<1>0. TypeInv /\ Passive /\ SendInv
  BY DEF IInv
<1> USE DEF pass
<1>1. ASSUME UNCHANGED <<marker, delivered, claim, task>> PROVE Causes
  BY <1>1, QuietCauses
<1>2. ASSUME NEW d \in 0..Delay, Schedule(d) \/ Rerun(d) PROVE Causes
  BY <1>1, <1>2 DEF Schedule, Rerun
<1>3. CASE Cancel \/ Tick
  BY <1>1, <1>3 DEF Cancel, Tick
<1>4. ASSUME NEW p \in Rcpt, LimitMessage(p) \/ LimitExpires(p) PROVE Causes
  BY <1>1, <1>4 DEF LimitMessage, LimitExpires
<1>5. ASSUME NEW r \in Runners, Drop(r), UNCHANGED <<marker, delivered>> PROVE Causes
  <2>1. \A q \in Runners, p \in Rcpt :
          \/ task'[q][p] = task[q][p] /\ claim'[q] = claim[q]
          \/ task'[q][p] = "idle"
    BY <1>0, <1>5 DEF Drop, TypeInv, TypeOK
  <2> QED
    BY <1>5, <2>1, QuietCauses
<1>6. ASSUME NEW r \in Runners, Pass(r) PROVE Causes
  <2>1. CASE ClaimRead(r) \/ Keep(r)
    BY <1>1, <2>1 DEF ClaimRead, Keep
  <2>2. CASE ClaimSwap(r)
    <3>1. \A p \in Rcpt : task[r][p] = "idle"
      BY <1>0, <2>2 DEF ClaimSwap, Passive
    <3>2. \A q \in Runners, p \in Rcpt :
            \/ task'[q][p] = task[q][p] /\ claim'[q] = claim[q]
            \/ task'[q][p] = "idle"
      BY <1>0, <2>2, <3>1 DEF ClaimSwap, TypeInv, TypeOK
    <3>3. UNCHANGED <<marker, delivered>>
      BY <2>2 DEF ClaimSwap
    <3> QED
      BY <3>2, <3>3, QuietCauses
  <2>3. CASE ClaimLost(r) \/ KeepHalted(r) \/ EndPass(r)
    BY <1>5, <2>3 DEF ClaimLost, KeepHalted, EndPass
  <2>4. CASE ReadMarker(r)
    <3>1. \/ task' = task
          \/ \E now : task' = [task EXCEPT ![r] = [p \in Rcpt |->
               IF now[p] = "unmarked" /\ p \notin Uncomposable THEN "queued" ELSE "idle"]]
      BY <2>4 DEF ReadMarker
    <3>2. UNCHANGED <<marker, delivered, claim>>
      BY <2>4 DEF ReadMarker
    <3>3. \A q \in Runners, p \in Rcpt :
            \/ task'[q][p] = task[q][p]
            \/ task'[q][p] = "idle"
            \/ task'[q][p] = "queued" /\ p \notin Uncomposable
      BY <1>0, <3>1, SMTT(40) DEF TypeInv, TypeOK
    <3> QED
      BY <3>2, <3>3, QuietCauses
  <2> QED
    BY <1>6, <2>1, <2>2, <2>3, <2>4 DEF Pass
<1>7. ASSUME NEW r \in Runners, Abandon(r) PROVE Causes
  BY <1>5, <1>7 DEF Abandon
<1>8. ASSUME NEW r \in Runners, NEW p \in Rcpt, NEW t \in {"idle", "queued", "mark"},
             SetTask(r, p, t), task[r][p] # "idle",
             UNCHANGED <<delivered, claim>>,
             \/ UNCHANGED marker
             \/ /\ task[r][p] \in Marked \/ marker[claim[r].run][p] = Unmarked
                /\ \E m : marker' = [marker EXCEPT ![claim[r].run][p] = m]
      PROVE  Causes
  <2>1. t \notin Marked
    BY <1>8, NotMarked
  <2> QED
    BY <1>0, <1>8, <2>1, SendCauses
<1>9. Answered \subseteq Marked /\ Withdrawing \subseteq Marked /\ "idle" \notin Marked
      /\ {"verify", "request", "throttled"} \subseteq Marked
  BY DEF Marked, Answered, Withdrawing
<1>10. ASSUME NEW r \in Runners, NEW p \in Rcpt, Send(r, p) PROVE Causes
  <2>1. CASE Check(r, p)
    BY <1>8, <2>1 DEF Check
  <2>2. CASE MarkSending(r, p)
    <3>1. CASE marker[claim[r].run][p] = Unmarked
      BY <1>0, <2>2, <3>1, SendCauses DEF MarkSending
    <3>2. CASE marker[claim[r].run][p] # Unmarked
      BY <1>8, <2>2, <3>2 DEF MarkSending
    <3> QED
      BY <3>1, <3>2
  <2>3. CASE CheckRun(r, p)
    <3>1. PICK t \in {"cancelled", "lost", "request"} : SetTask(r, p, t)
      BY <2>3 DEF CheckRun
    <3> QED
      BY <1>0, <1>9, <2>3, <3>1, SendCauses DEF CheckRun
  <2>4. CASE Request(r, p)
    <3>1. PICK t \in Answered \cup {"throttled"} :
            /\ SetTask(r, p, t)
            /\ \/ delivered' = [delivered EXCEPT ![claim[r].run][p] = @ + 1]
               \/ UNCHANGED delivered
      BY <2>4 DEF Request
    <3>2. task[r][p] = "request" /\ UNCHANGED <<marker, claim>>
      BY <2>4 DEF Request
    <3> QED
      BY <1>0, <1>9, <3>1, <3>2, SendCauses
  <2>5. CASE MarkOutcome(r, p)
    BY <1>8, <1>9, <2>5 DEF MarkOutcome
  <2>6. CASE Unmark(r, p)
    <3>1. PICK t \in {"idle", "queued"} : SetTask(r, p, t)
      BY <2>6 DEF Unmark, AfterUnmark
    <3> QED
      BY <1>8, <1>9, <2>6, <3>1 DEF Unmark, AfterUnmark
  <2> QED
    BY <1>10, <2>1, <2>2, <2>3, <2>4, <2>5, <2>6 DEF Send
<1>11. ASSUME NEW r \in Runners, NEW p \in Rcpt, SendFault(r, p) PROVE Causes
  <2>1. CASE Skip(r, p)
    BY <1>8, <2>1 DEF Skip
  <2>2. CASE MarkSendingFails(r, p)
    BY <1>8, <2>2 DEF MarkSendingFails
  <2>3. CASE CheckRunFails(r, p)
    <3>1. {"unread", "verify"} \subseteq Marked
      BY DEF Marked, Withdrawing
    <3> QED
      BY <1>0, <1>9, <2>3, <3>1, SendCauses DEF CheckRunFails
  <2>4. CASE UnmarkFails(r, p)
    <3>1. PICK t \in {"idle", "queued"} : SetTask(r, p, t)
      BY <2>4 DEF UnmarkFails, AfterUnmark
    <3> QED
      BY <1>8, <1>9, <2>4, <3>1 DEF UnmarkFails, AfterUnmark
  <2> QED
    BY <1>11, <2>1, <2>2, <2>3, <2>4 DEF SendFault
<1>12. CASE UNCHANGED vars
  BY <1>1, <1>12 DEF vars
<1> QED
  BY <1>2, <1>3, <1>4, <1>6, <1>7, <1>10, <1>11, <1>12 DEF Next

\* What was sent stays sent, a frozen marker stays frozen.
LEMMA StaysTrue ==
  ASSUME IInv, IInv', Causes, NEW n \in Run, NEW p \in Rcpt
  PROVE  /\ delivered[n][p] = 1 => delivered'[n][p] = 1
         /\ Frozen(n, p) => Frozen(n, p)' /\ delivered'[n][p] = delivered[n][p]
<1>1. MarkCause(n, p) /\ \A r \in Runners : TaskCause(r, p)
  BY DEF Causes
<1>2. delivered[n][p] \in Nat /\ delivered'[n][p] \in Nat /\ delivered'[n][p] <= 1
  BY DEF IInv, TypeInv, TypeOK, SendInv, AtMostOnce
<1>3. delivered[n][p] = 1 => delivered'[n][p] = 1
  BY <1>1, <1>2 DEF MarkCause
<1>4. ASSUME Frozen(n, p) PROVE Frozen(n, p)' /\ delivered'[n][p] = delivered[n][p]
  <2>1. marker'[n][p] = marker[n][p] /\ delivered'[n][p] = delivered[n][p]
    BY <1>1, <1>4 DEF MarkCause, Frozen
  <2>2. ASSUME NEW r \in Runners, claim'[r].run = n, task'[r][p] \in Marked
        PROVE  FALSE
    BY <1>1, <1>4, <2>2 DEF TaskCause, Frozen, Owner
  <2>3. marker'[n][p] # Unmarked
    BY <1>4, <2>1 DEF Frozen
  <2> QED
    BY <2>1, <2>2, <2>3 DEF Frozen, Owner, Unmarked, Mark, Marked, Answered, Withdrawing
<1> QED
  BY <1>3, <1>4

\* What s says of p in run n is true, and stays so.
Truth(n, p, s) ==
  /\ s = "sent" => delivered[n][p] = 1
  /\ s = "failed" => delivered[n][p] = 0 /\ (p \in Uncomposable \/ Frozen(n, p))

\* Nothing is sent to a recipient whose message cannot be composed.
Uncomposed ==
  \A p \in Uncomposable : /\ \A r \in Runners : task[r][p] = "idle"
                          /\ \A n \in Run : delivered[n][p] = 0

\* What a pass has found out is true.
FoundTruth == \A r \in Runners, p \in Rcpt : Truth(claim[r].run, p, found[r][p])

\* A scan leaves nobody out.
ScanRead ==
  \A r \in Runners, p \in Rcpt :
    pc[r] = "send" \/ (pc[r] \in {"keep", "read"} /\ p < at[r]) => found[r][p] # "unread"

\* Who holds the job claimed it in the run it is in.
Holder == /\ job.state = "claimed" => job.lease.claim > 0
          /\ \A r \in Runners : HeldBy(r) => claim[r].run = job.run

\* The summary of a settled job was what its last pass had found out.
SummaryKept ==
  job.state \in {"done", "stopped"} =>
    \A p \in Rcpt : /\ Truth(job.run, p, job.summary[p])
                    /\ job.state = "done" => job.summary[p] \notin {"unread", "unmarked"}

SumInv == IInv /\ Uncomposed /\ FoundTruth /\ ScanRead /\ Holder /\ SummaryKept

LEMMA TruthStays ==
  ASSUME IInv, IInv', Causes, Uncomposed', NEW n \in Run, NEW p \in Rcpt, NEW s, Truth(n, p, s)
  PROVE  Truth(n, p, s)'
<1>1. /\ delivered[n][p] = 1 => delivered'[n][p] = 1
      /\ Frozen(n, p) => Frozen(n, p)' /\ delivered'[n][p] = delivered[n][p]
  BY StaysTrue
<1>2. p \in Uncomposable => delivered'[n][p] = 0
  BY DEF Uncomposed
<1> QED
  BY <1>1, <1>2 DEF Truth

LEMMA UncomposedStays ==
  ASSUME IInv, Uncomposed, Causes
  PROVE  Uncomposed'
<1>1. SUFFICES ASSUME NEW p \in Uncomposable
               PROVE  /\ \A r \in Runners : task'[r][p] = "idle"
                      /\ \A n \in Run : delivered'[n][p] = 0
  BY DEF Uncomposed
<1>2. p \in Rcpt
  BY UncomposableAssumption
<1>3. \A r \in Runners : task[r][p] = "idle"
  BY DEF Uncomposed
<1>4. \A r \in Runners : task'[r][p] = "idle"
  BY <1>2, <1>3 DEF Causes, TaskCause
<1>5. \A n \in Run : ~Owner(n, p)
  BY <1>3, NotMarked DEF Owner
<1>6. \A n \in Run : delivered'[n][p] = delivered[n][p]
  BY <1>2, <1>5 DEF Causes, MarkCause
<1> QED
  BY <1>4, <1>6 DEF Uncomposed

\* Where nothing new is found out, what was found out stays true.
LEMMA FoundStays ==
  ASSUME IInv, IInv', Causes, Uncomposed', FoundTruth,
         \A r \in Runners, p \in Rcpt :
           \/ found'[r][p] = found[r][p] /\ claim'[r] = claim[r]
           \/ found'[r][p] \notin {"sent", "failed"}
           \/ Truth(claim[r].run, p, found[r][p])'
  PROVE  FoundTruth'
<1>1. SUFFICES ASSUME NEW r \in Runners, NEW p \in Rcpt
               PROVE  Truth(claim[r].run, p, found[r][p])'
  BY DEF FoundTruth
<1>2. CASE found'[r][p] = found[r][p] /\ claim'[r] = claim[r]
  <2>1. PICK n \in Run : n = claim[r].run
    BY DEF IInv, TypeInv, TypeOK, JobClaim
  <2>2. PICK s : s = found[r][p]
    OBVIOUS
  <2>3. Truth(n, p, s)
    BY <2>1, <2>2 DEF FoundTruth
  <2>4. Truth(n, p, s)'
    BY <2>3, TruthStays
  <2>5. n = claim'[r].run /\ s = found'[r][p]
    BY <1>2, <2>1, <2>2
  <2> QED
    BY <2>4, <2>5
<1>3. CASE found'[r][p] \notin {"sent", "failed"}
  BY <1>3 DEF Truth
<1> QED
  BY <1>1, <1>2, <1>3

\* KvJobs::recipient says what the marker says.
LEMMA ReadTruth ==
  ASSUME IInv, IInv', Uncomposed', NEW r \in Runners, ReadMarker(r)
  PROVE  \A q \in Runners, p \in Rcpt :
           \/ found'[q][p] = found[q][p] /\ claim'[q] = claim[q]
           \/ found'[q][p] \notin {"sent", "failed"}
           \/ Truth(claim[q].run, p, found[q][p])'
<1>1. UNCHANGED <<marker, delivered, claim>>
  BY DEF ReadMarker
<1>2. /\ claim[r].run \in Run /\ at[r] \in Rcpt
  BY DEF ReadMarker, IInv, TypeInv, TypeOK, JobClaim, Scanning
<1>3. /\ \A q \in Runners : q # r => found'[q] = found[q]
      /\ \A p \in Rcpt : \/ found'[r][p] = found[r][p]
                         \/ found'[r][p] = "failed" /\ p \in Uncomposable
                         \/ p = at[r] /\ found'[r][p] = RecipientMark(r, p)
  BY <1>2 DEF ReadMarker, IInv, TypeInv, TypeOK
<1>4. ASSUME NEW p \in Rcpt, found'[r][p] = "failed", p \in Uncomposable
      PROVE  Truth(claim[r].run, p, found[r][p])'
  <2>1. delivered'[claim'[r].run][p] = 0
    BY <1>1, <1>2, <1>4 DEF Uncomposed
  <2> QED
    BY <1>4, <2>1 DEF Truth
<1>5. ASSUME NEW p \in Rcpt, found'[r][p] = RecipientMark(r, p), found'[r][p] \in {"sent", "failed"}
      PROVE  Truth(claim[r].run, p, found[r][p])'
  <2> DEFINE n == claim[r].run
  <2>1. marker[n][p].state = found'[r][p]
    BY <1>5 DEF RecipientMark
  <2>2. /\ found'[r][p] = "sent" => delivered[n][p] = 1
        /\ found'[r][p] = "failed" => delivered[n][p] = 0
    BY <1>2, <2>1 DEF IInv, SendInv, MarkerTruth
  <2>3. marker'[n][p] # Unmarked
    BY <1>1, <1>5, <2>1 DEF Unmarked, Mark
  <2>4. ASSUME NEW q \in Runners, claim'[q].run = n, task'[q][p] \in Marked
        PROVE  FALSE
    <3>1. marker'[n][p] = SendingBy(q)
      BY <2>4 DEF IInv, SendInv, Owned, SendingBy
    <3> QED
      BY <1>1, <1>5, <2>1, <3>1 DEF SendingBy
  <2>5. Frozen(n, p)'
    <3>1. n = claim'[r].run
      BY <1>1
    <3> HIDE DEF n
    <3> QED
      BY <2>3, <2>4, <3>1 DEF Frozen, Owner, Unmarked, Mark, Marked, Answered, Withdrawing, n
  <2> QED
    BY <1>1, <2>2, <2>5 DEF Truth
<1> QED
  BY <1>1, <1>3, <1>4, <1>5

\* Durable::send knows its outcome, whether its marker could be written or
\* not: nobody else has the marker, and nobody will.
LEMMA OutcomeTruth ==
  ASSUME IInv, IInv', NEW r \in Runners, NEW p \in Rcpt, MarkOutcome(r, p)
  PROVE  \A q \in Runners, x \in Rcpt :
           \/ found'[q][x] = found[q][x] /\ claim'[q] = claim[q]
           \/ found'[q][x] \notin {"sent", "failed"}
           \/ Truth(claim[q].run, x, found[q][x])'
<1> DEFINE n == claim[r].run
           s == OutcomeOf(task[r][p])
<1>1. UNCHANGED <<delivered, claim>> /\ task[r][p] \in Answered /\ SetTask(r, p, "idle")
  BY DEF MarkOutcome
<1>2. n \in Run
  BY DEF IInv, TypeInv, TypeOK, JobClaim
<1>3. /\ found'[r][p] = s
      /\ \A q \in Runners, x \in Rcpt : q # r \/ x # p => found'[q][x] = found[q][x]
  BY DEF MarkOutcome, Record, IInv, TypeInv, TypeOK
<1>4. /\ task[r][p] \in Marked
      /\ s = "sent" => task[r][p] = "accepted"
      /\ s = "failed" => task[r][p] \in Undone
  BY <1>1 DEF Answered, Marked, Undone, OutcomeOf
<1>5. /\ s = "sent" => delivered[n][p] = 1
      /\ s = "failed" => delivered[n][p] = 0
  BY <1>4 DEF IInv, SendInv, Known
<1>6. s \in {"sent", "failed", "unknown"}
  BY DEF OutcomeOf
<1>7. marker'[n][p] = Mark(s) \/ marker'[n][p] = SendingBy(r)
  <2>1. marker[n][p] = SendingBy(r)
    BY <1>4 DEF IInv, SendInv, Owned
  <2>2. UNCHANGED marker \/ marker' = [marker EXCEPT ![n][p] = Mark(s)]
    BY DEF MarkOutcome
  <2> HIDE DEF n, s
  <2> QED
    BY <1>2, <2>1, <2>2 DEF IInv, TypeInv, TypeOK
<1> HIDE DEF s
<1>8. marker'[n][p] # Unmarked
  BY <1>6, <1>7 DEF Unmarked, Mark, SendingBy
<1>9. ASSUME NEW q \in Runners, claim'[q].run = n, task'[q][p] \in Marked
      PROVE  FALSE
  <2>1. q # r
    BY <1>1, <1>9, TaskOthers, NotMarked DEF IInv
  <2>2. task[q][p] \in Marked
    BY <1>1, <1>9, <2>1, TaskOthers DEF IInv
  <2> QED
    BY <1>1, <1>4, <1>9, <2>1, <2>2, OneOwner DEF IInv, SendInv
<1>10. Frozen(n, p)'
  <2>1. n = claim'[r].run
    BY <1>1
  <2> HIDE DEF n
  <2> QED
    BY <1>8, <1>9, <2>1 DEF Frozen, Owner, Unmarked, Mark, Marked, Answered, Withdrawing, n
<1>11. Truth(claim[r].run, p, found[r][p])'
  BY <1>1, <1>3, <1>5, <1>10 DEF Truth
<1> QED
  BY <1>1, <1>3, <1>11

\* The steps that find nothing out.
Quiet == UNCHANGED <<found, claim>>

LEMMA NextFound ==
  ASSUME IInv, IInv', Causes, Uncomposed', FoundTruth, [Next]_vars
  PROVE  FoundTruth'
<1> USE DEF pass
<1>1. ASSUME Quiet PROVE FoundTruth'
  BY <1>1, FoundStays DEF Quiet
<1>2. ASSUME NEW d \in 0..Delay, Schedule(d) \/ Rerun(d) PROVE FoundTruth'
  BY <1>1, <1>2 DEF Schedule, Rerun, Quiet
<1>3. CASE Cancel \/ Tick
  BY <1>1, <1>3 DEF Cancel, Tick, Quiet
<1>4. ASSUME NEW p \in Rcpt, LimitMessage(p) \/ LimitExpires(p) PROVE FoundTruth'
  BY <1>1, <1>4 DEF LimitMessage, LimitExpires, Quiet
<1>5. ASSUME NEW r \in Runners, found' = [found EXCEPT ![r] = NoSummary],
             \A q \in Runners : q # r => claim'[q] = claim[q]
      PROVE  FoundTruth'
  <2>1. \A q \in Runners, p \in Rcpt :
          \/ found'[q][p] = found[q][p] /\ claim'[q] = claim[q]
          \/ found'[q][p] = "unread"
    BY <1>5 DEF NoSummary, IInv, TypeInv, TypeOK
  <2> QED
    BY <2>1, FoundStays
<1>6. ASSUME NEW r \in Runners, Drop(r) PROVE FoundTruth'
  BY <1>5, <1>6 DEF Drop, IInv, TypeInv, TypeOK
<1>7. ASSUME NEW r \in Runners, Pass(r) PROVE FoundTruth'
  <2>1. CASE ClaimRead(r) \/ Keep(r)
    BY <1>1, <2>1 DEF ClaimRead, Keep, Quiet
  <2>2. CASE ClaimSwap(r)
    BY <1>5, <2>2 DEF ClaimSwap, IInv, TypeInv, TypeOK
  <2>3. CASE ClaimLost(r) \/ KeepHalted(r) \/ EndPass(r)
    BY <1>6, <2>3 DEF ClaimLost, KeepHalted, EndPass
  <2>4. CASE ReadMarker(r)
    BY <2>4, ReadTruth, FoundStays
  <2> QED
    BY <1>7, <2>1, <2>2, <2>3, <2>4 DEF Pass
<1>8. ASSUME NEW r \in Runners, Abandon(r) PROVE FoundTruth'
  BY <1>6, <1>8 DEF Abandon
<1>9. ASSUME NEW r \in Runners, NEW p \in Rcpt, Record(r, p, "unknown"), UNCHANGED claim
      PROVE  FoundTruth'
  <2>1. \A q \in Runners, x \in Rcpt :
          found'[q][x] = found[q][x] \/ found'[q][x] = "unknown"
    BY <1>9 DEF Record, IInv, TypeInv, TypeOK
  <2> QED
    BY <1>9, <2>1, FoundStays
<1>10. ASSUME NEW r \in Runners, NEW p \in Rcpt, Send(r, p) PROVE FoundTruth'
  <2>1. CASE Check(r, p) \/ CheckRun(r, p) \/ Request(r, p) \/ Unmark(r, p)
    BY <1>1, <2>1 DEF Check, CheckRun, Request, Unmark, AfterUnmark, Quiet
  <2>2. CASE MarkSending(r, p)
    BY <1>1, <1>9, <2>2 DEF MarkSending, Quiet
  <2>3. CASE MarkOutcome(r, p)
    BY <2>3, OutcomeTruth, FoundStays
  <2> QED
    BY <1>10, <2>1, <2>2, <2>3 DEF Send
<1>11. ASSUME NEW r \in Runners, NEW p \in Rcpt, SendFault(r, p) PROVE FoundTruth'
  <2>1. CASE Skip(r, p) \/ MarkSendingFails(r, p) \/ CheckRunFails(r, p)
    BY <1>1, <2>1 DEF Skip, MarkSendingFails, CheckRunFails, Quiet
  <2>2. CASE UnmarkFails(r, p)
    BY <1>9, <2>2 DEF UnmarkFails, AfterUnmark
  <2> QED
    BY <1>11, <2>1, <2>2 DEF SendFault
<1>12. CASE UNCHANGED vars
  BY <1>1, <1>12 DEF vars, Quiet
<1> QED
  BY <1>2, <1>3, <1>4, <1>7, <1>8, <1>10, <1>11, <1>12 DEF Next

\* The scan reads one recipient after the other, to the last.
LEMMA NextScan ==
  ASSUME IInv, ScanRead, [Next]_vars
  PROVE  ScanRead'
<1>0. TypeInv
  BY DEF IInv
<1> USE DEF pass
<1>1. ASSUME UNCHANGED <<pc, at, found>> PROVE ScanRead'
  BY <1>1 DEF ScanRead
<1>2. ASSUME NEW d \in 0..Delay, Schedule(d) \/ Rerun(d) PROVE ScanRead'
  BY <1>1, <1>2 DEF Schedule, Rerun
<1>3. CASE Cancel \/ Tick
  BY <1>1, <1>3 DEF Cancel, Tick
<1>4. ASSUME NEW p \in Rcpt, LimitMessage(p) \/ LimitExpires(p) PROVE ScanRead'
  BY <1>1, <1>4 DEF LimitMessage, LimitExpires
<1>5. ASSUME NEW r \in Runners,
             \A q \in Runners : q # r => pc'[q] = pc[q] /\ at'[q] = at[q] /\ found'[q] = found[q],
             \A p \in Rcpt : pc'[r] = "send" \/ (pc'[r] \in {"keep", "read"} /\ p < at'[r])
                               => found'[r][p] # "unread"
      PROVE  ScanRead'
  BY <1>5 DEF ScanRead
<1>6. ASSUME NEW r \in Runners, Drop(r) PROVE ScanRead'
  BY <1>0, <1>5, <1>6 DEF Drop, TypeInv, TypeOK
<1>7. ASSUME NEW r \in Runners, Pass(r) PROVE ScanRead'
  <2>1. CASE ClaimRead(r) \/ Keep(r)
    <3>1. /\ UNCHANGED <<at, found>>
          /\ \/ pc[r] = "idle" /\ pc' = [pc EXCEPT ![r] = "claim"]
             \/ pc[r] = "keep" /\ pc' = [pc EXCEPT ![r] = "read"]
      BY <2>1 DEF ClaimRead, Keep
    <3> QED
      BY <1>0, <3>1 DEF ScanRead, TypeInv, TypeOK
  <2>2. CASE ClaimSwap(r)
    <3>1. /\ pc' = [pc EXCEPT ![r] = "keep"] /\ at' = [at EXCEPT ![r] = 1]
          /\ found' = [found EXCEPT ![r] = NoSummary]
      BY <2>2 DEF ClaimSwap
    <3>2. pc'[r] = "keep" /\ at'[r] = 1 /\ \A p \in Rcpt : ~(p < 1)
      BY <1>0, <3>1 DEF TypeInv, TypeOK, Rcpt
    <3>3. \A q \in Runners : q # r => pc'[q] = pc[q] /\ at'[q] = at[q] /\ found'[q] = found[q]
      BY <1>0, <3>1 DEF TypeInv, TypeOK
    <3> QED
      BY <1>5, <3>2, <3>3
  <2>3. CASE ClaimLost(r) \/ KeepHalted(r) \/ EndPass(r)
    BY <1>6, <2>3 DEF ClaimLost, KeepHalted, EndPass
  <2>4. CASE ReadMarker(r)
    <3>1. at[r] \in Rcpt /\ at'[r] = at[r] + 1 /\ pc[r] = "read"
      BY <1>0, <2>4 DEF ReadMarker, TypeInv, TypeOK, Scanning
    <3>2. \A q \in Runners : q # r => pc'[q] = pc[q] /\ at'[q] = at[q] /\ found'[q] = found[q]
      BY <1>0, <2>4 DEF ReadMarker, TypeInv, TypeOK
    <3>3. RecipientMark(r, at[r]) # "unread"
      BY DEF RecipientMark
    <3>4. PICK now : now = [found[r] EXCEPT ![at[r]] = RecipientMark(r, at[r])]
      OBVIOUS
    <3>5. \A p \in Rcpt : p < at[r] + 1 => now[p] # "unread"
      <4>1. \A p \in Rcpt : p < at[r] => found[r][p] # "unread"
        BY <3>1 DEF ScanRead
      <4>2. \A p \in Rcpt : now[p] = IF p = at[r] THEN RecipientMark(r, at[r]) ELSE found[r][p]
        BY <1>0, <3>1, <3>4 DEF TypeInv, TypeOK
      <4>3. \A p \in Rcpt : p < at[r] + 1 => p < at[r] \/ p = at[r]
        BY <3>1 DEF Rcpt
      <4> QED
        BY <3>3, <4>1, <4>2, <4>3
    <3>6. CASE at[r] < N
      <4>1. pc'[r] = "keep" /\ found'[r] = now
        BY <1>0, <2>4, <3>4, <3>6 DEF ReadMarker, TypeInv, TypeOK
      <4> QED
        BY <1>5, <3>1, <3>2, <3>5, <4>1
    <3>7. CASE ~(at[r] < N)
      <4>1. found'[r] = [q \in Rcpt |-> IF now[q] = "unmarked" /\ q \in Uncomposable
                                          THEN "failed" ELSE now[q]]
        BY <1>0, <2>4, <3>4, <3>7 DEF ReadMarker, TypeInv, TypeOK
      <4>2. \A p \in Rcpt : p < at[r] + 1
        BY <3>1, <3>7, NumbersAssumption DEF Rcpt
      <4>3. \A p \in Rcpt : found'[r][p] # "unread"
        BY <3>5, <4>1, <4>2
      <4> QED
        BY <1>5, <3>2, <4>3
    <3> QED
      BY <3>6, <3>7
  <2> QED
    BY <1>7, <2>1, <2>2, <2>3, <2>4 DEF Pass
<1>8. ASSUME NEW r \in Runners, Abandon(r) PROVE ScanRead'
  BY <1>6, <1>8 DEF Abandon
<1>9. ASSUME NEW r \in Runners, NEW p \in Rcpt, NEW s \in {"sent", "failed", "unknown"},
             Record(r, p, s), UNCHANGED <<pc, at>>
      PROVE  ScanRead'
  <2>1. \A q \in Runners, x \in Rcpt : found'[q][x] = found[q][x] \/ found'[q][x] = s
    BY <1>0, <1>9 DEF Record, TypeInv, TypeOK
  <2> QED
    BY <1>9, <2>1 DEF ScanRead
<1>10. ASSUME NEW r \in Runners, NEW p \in Rcpt, Send(r, p) PROVE ScanRead'
  <2>1. CASE Check(r, p) \/ CheckRun(r, p) \/ Request(r, p) \/ Unmark(r, p)
    BY <1>1, <2>1 DEF Check, CheckRun, Request, Unmark, AfterUnmark
  <2>2. CASE MarkSending(r, p)
    BY <1>1, <1>9, <2>2 DEF MarkSending
  <2>3. CASE MarkOutcome(r, p)
    <3>1. OutcomeOf(task[r][p]) \in {"sent", "failed", "unknown"}
      BY DEF OutcomeOf
    <3> QED
      BY <1>9, <2>3, <3>1 DEF MarkOutcome
  <2> QED
    BY <1>10, <2>1, <2>2, <2>3 DEF Send
<1>11. ASSUME NEW r \in Runners, NEW p \in Rcpt, SendFault(r, p) PROVE ScanRead'
  <2>1. CASE Skip(r, p) \/ MarkSendingFails(r, p) \/ CheckRunFails(r, p)
    BY <1>1, <2>1 DEF Skip, MarkSendingFails, CheckRunFails
  <2>2. CASE UnmarkFails(r, p)
    BY <1>9, <2>2 DEF UnmarkFails, AfterUnmark
  <2> QED
    BY <1>11, <2>1, <2>2 DEF SendFault
<1>12. CASE UNCHANGED vars
  BY <1>1, <1>12 DEF vars
<1> QED
  BY <1>2, <1>3, <1>4, <1>7, <1>8, <1>10, <1>11, <1>12 DEF Next

\* A claim is kept, given up, or made by the swap.
LEMMA ClaimMoves ==
  ASSUME TypeInv, [Next]_vars
  PROVE  \A r \in Runners : \/ claim'[r] = claim[r] \/ claim'[r] = NoClaim \/ ClaimSwap(r)
<1> USE DEF pass
<1>1. ASSUME NEW r \in Runners, Drop(r)
      PROVE  \A q \in Runners : claim'[q] = claim[q] \/ claim'[q] = NoClaim
  BY <1>1 DEF Drop, TypeInv, TypeOK
<1>2. ASSUME NEW r \in Runners, ClaimSwap(r)
      PROVE  \A q \in Runners : claim'[q] = claim[q] \/ ClaimSwap(q)
  <2>1. \A q \in Runners : q # r => claim'[q] = claim[q]
    BY <1>2 DEF ClaimSwap, TypeInv, TypeOK
  <2> QED
    BY <1>2, <2>1, Zenon
<1>3. ASSUME NEW r \in Runners, Pass(r) \/ Abandon(r)
      PROVE  \/ UNCHANGED claim \/ Drop(r) \/ ClaimSwap(r)
  BY <1>3 DEF Pass, ClaimRead, ClaimLost, Keep, KeepHalted, ReadMarker, EndPass, Abandon
<1>4. ASSUME NEW r \in Runners, NEW p \in Rcpt, Send(r, p) \/ SendFault(r, p)
      PROVE  UNCHANGED claim
  BY <1>4 DEF Send, SendFault, Check, MarkSending, CheckRun, Request, MarkOutcome, Unmark,
     AfterUnmark, Skip, MarkSendingFails, CheckRunFails, UnmarkFails
<1>5. ASSUME NEW d \in 0..Delay, Schedule(d) \/ Rerun(d) PROVE UNCHANGED claim
  BY <1>5 DEF Schedule, Rerun
<1>6. CASE Cancel \/ Tick \/ UNCHANGED vars
  BY <1>6 DEF Cancel, Tick, vars
<1>7. ASSUME NEW p \in Rcpt, LimitMessage(p) \/ LimitExpires(p) PROVE UNCHANGED claim
  BY <1>7 DEF LimitMessage, LimitExpires
<1> HIDE DEF pass
<1>8. \/ UNCHANGED claim \/ \E r \in Runners : Drop(r) \/ ClaimSwap(r)
  BY <1>3, <1>4, <1>5, <1>6, <1>7 DEF Next, Cancel, Tick, pass, vars
<1> QED
  BY <1>1, <1>2, <1>8

\* What becomes of the record: claimed by a swap, settled by the pass that
\* holds it, neither claimed nor settled with a summary, or still what it was.
Fate ==
  \/ \E r \in Runners : ClaimSwap(r)
  \/ \E r \in Runners : /\ pc[r] = "send" /\ HeldBy(r)
                        /\ job'.state = IF Unsent(r) = {} THEN "done" ELSE "stopped"
                        /\ job'.summary = found[r] /\ job'.run = job.run
  \/ job'.state \in {"pending", "cancelled"}
  \/ /\ job'.state = job.state /\ job'.run = job.run /\ job'.summary = job.summary
     /\ job'.lease.runner = job.lease.runner /\ job'.lease.claim = job.lease.claim

LEMMA NextFate ==
  ASSUME TypeInv, [Next]_vars
  PROVE  Fate
<1>1. job \in JobRecord /\ job.lease \in LeaseRecord
  BY DEF TypeInv, TypeOK, JobRecord
<1>2. ASSUME NEW d \in 0..Delay, Schedule(d) \/ Rerun(d) PROVE job'.state = "pending"
  BY <1>1, <1>2 DEF Schedule, Rerun, WriteJob, JobRecord
<1>3. ASSUME Cancel PROVE job'.state = "cancelled"
  BY <1>1, <1>3 DEF Cancel, WriteJob, JobRecord
<1>4. ASSUME NEW r \in Runners, pc[r] = "send", EndOf(r), HaltOf(r) = "none" PROVE Fate
  <2>1. HeldBy(r)
    BY <1>4 DEF HaltOf
  <2>2. \/ job'.state = "pending"
        \/ /\ job'.state = IF Unsent(r) = {} THEN "done" ELSE "stopped"
           /\ job'.summary = found[r] /\ job'.run = job.run
    BY <1>1, <1>4 DEF EndOf, WriteJob, JobRecord
  <2> QED
    BY <1>4, <2>1, <2>2, Zenon DEF Fate
<1>5. ASSUME NEW r \in Runners, Hold(r)
      PROVE  /\ job'.state = job.state /\ job'.run = job.run /\ job'.summary = job.summary
             /\ job'.lease.runner = job.lease.runner /\ job'.lease.claim = job.lease.claim
  BY <1>1, <1>5 DEF Hold, WriteJob, JobRecord, LeaseRecord
<1>6. ASSUME Tick
      PROVE  /\ job'.state = job.state /\ job'.run = job.run /\ job'.summary = job.summary
             /\ job'.lease.runner = job.lease.runner /\ job'.lease.claim = job.lease.claim
  BY <1>1, <1>6 DEF Tick, JobRecord, LeaseRecord
<1>7. Writes \/ Tick \/ UNCHANGED job
  BY WritersOnly
<1>8. CASE Writes
  BY <1>2, <1>3, <1>4, <1>5, <1>8 DEF Writes, Fate
<1>9. CASE Tick
  BY <1>6, <1>9 DEF Fate
<1>10. CASE UNCHANGED job
  BY <1>10 DEF Fate
<1> QED
  BY <1>7, <1>8, <1>9, <1>10

\* A claim number is given out once, and a pass over or beaten has none of
\* the job's.
LEMMA NextHolder ==
  ASSUME IInv, Holder, [Next]_vars
  PROVE  Holder'
<1>0. TypeInv /\ job \in JobRecord /\ job.lease \in LeaseRecord /\ job.claims \in Nat
  BY DEF IInv, TypeInv, TypeOK, JobRecord
<1>1. ASSUME NEW r \in Runners, ClaimSwap(r) PROVE Holder'
  <2>1. /\ job'.lease.claim = job.claims + 1 /\ job'.lease.runner = r /\ job'.run = job.run
    BY <1>0, <1>1 DEF ClaimSwap, WriteJob, LeaseOf, JobRecord
  <2>2. claim'[r].run = job.run
    BY <1>0, <1>1 DEF ClaimSwap, TypeInv, TypeOK
  <2> QED
    BY <1>0, <2>1, <2>2 DEF Holder, HeldBy
<1>2. CASE job'.state # "claimed"
  BY <1>2 DEF Holder, HeldBy
<1>3. CASE /\ job'.state = job.state /\ job'.run = job.run
           /\ job'.lease.runner = job.lease.runner /\ job'.lease.claim = job.lease.claim
           /\ \A r \in Runners : ~ClaimSwap(r)
  <2>1. \A r \in Runners : claim'[r] = claim[r] \/ claim'[r].number = 0
    BY <1>0, <1>3, ClaimMoves DEF NoClaim
  <2> QED
    BY <1>3, <2>1 DEF Holder, HeldBy
<1> QED
  BY <1>0, <1>1, <1>2, <1>3, NextFate DEF Fate

LEMMA NextSummary ==
  ASSUME SumInv, IInv', Uncomposed', Causes, [Next]_vars
  PROVE  SummaryKept'
<1>0. TypeInv /\ job \in JobRecord /\ job.run \in Run
  BY DEF SumInv, IInv, TypeInv, TypeOK, JobRecord
<1>1. ASSUME NEW r \in Runners, ClaimSwap(r) PROVE SummaryKept'
  <2>1. job'.state = "claimed"
    BY <1>0, <1>1 DEF ClaimSwap, WriteJob, JobRecord
  <2> QED
    BY <2>1 DEF SummaryKept
<1>2. ASSUME NEW n \in Run, NEW p \in Rcpt, NEW s, Truth(n, p, s)
      PROVE  Truth(n, p, s)'
  BY <1>2, TruthStays DEF SumInv
<1>3. ASSUME NEW r \in Runners, pc[r] = "send", HeldBy(r),
             job'.state = (IF Unsent(r) = {} THEN "done" ELSE "stopped"),
             job'.summary = found[r], job'.run = job.run
      PROVE  SummaryKept'
  <2>1. claim[r].run = job.run
    BY <1>3 DEF SumInv, Holder
  <2>2. ASSUME NEW p \in Rcpt
        PROVE  /\ Truth(job.run, p, job.summary[p])'
               /\ job'.state = "done" => job'.summary[p] \notin {"unread", "unmarked"}
    <3>1. Truth(job.run, p, found[r][p])
      BY <2>1 DEF SumInv, FoundTruth
    <3>2. PICK n \in Run, s \in {found[r][p]} : n = job.run
      BY <1>0
    <3>3. Truth(n, p, s)'
      BY <1>2, <3>1, <3>2
    <3>4. n = job'.run /\ s = job'.summary[p]
      BY <1>3, <3>2
    <3>5. Truth(job.run, p, job.summary[p])'
      BY <3>3, <3>4
    <3>6. found[r][p] # "unread"
      BY <1>3 DEF SumInv, ScanRead
    <3>7. job'.state = "done" => found[r][p] # "unmarked"
      BY <1>3 DEF Unsent
    <3> QED
      BY <1>3, <3>5, <3>6, <3>7
  <2> QED
    BY <2>2 DEF SummaryKept
<1>4. CASE job'.state \in {"pending", "cancelled"}
  BY <1>4 DEF SummaryKept
<1>5. CASE job'.state = job.state /\ job'.run = job.run /\ job'.summary = job.summary
  <2>1. ASSUME NEW p \in Rcpt, Truth(job.run, p, job.summary[p])
        PROVE  Truth(job.run, p, job.summary[p])'
    <3>1. PICK n \in Run, s \in {job.summary[p]} : n = job.run
      BY <1>0
    <3>2. Truth(n, p, s)'
      BY <1>2, <2>1, <3>1
    <3>3. n = job'.run /\ s = job'.summary[p]
      BY <1>5, <3>1
    <3> QED
      BY <3>2, <3>3
  <2> QED
    BY <1>5, <2>1 DEF SumInv, SummaryKept
<1> QED
  BY <1>0, <1>1, <1>3, <1>4, <1>5, NextFate DEF Fate

LEMMA SumInductive ==
  /\ Init => SumInv
  /\ SumInv /\ [Next]_vars => SumInv'
<1>1. ASSUME Init PROVE SumInv
  <2>1. IInv
    BY <1>1, InitSafe
  <2>2. Uncomposed /\ ScanRead
    BY <1>1, UncomposableAssumption DEF Init, Uncomposed, ScanRead
  <2>3. FoundTruth
    BY <1>1 DEF Init, FoundTruth, Truth, NoSummary
  <2>4. Holder /\ SummaryKept
    BY <1>1 DEF Init, Holder, HeldBy, SummaryKept
  <2> QED
    BY <2>1, <2>2, <2>3, <2>4 DEF SumInv
<1>2. ASSUME SumInv, [Next]_vars PROVE SumInv'
  <2>1. IInv' /\ Causes
    BY <1>2, NextSafe, NextCauses DEF SumInv
  <2>2. Uncomposed'
    BY <1>2, <2>1, UncomposedStays DEF SumInv
  <2>3. FoundTruth'
    BY <1>2, <2>1, <2>2, NextFound DEF SumInv
  <2>4. ScanRead' /\ Holder'
    BY <1>2, NextScan, NextHolder DEF SumInv
  <2>5. SummaryKept'
    BY <1>2, <2>1, <2>2, NextSummary
  <2> QED
    BY <2>1, <2>2, <2>3, <2>4, <2>5 DEF SumInv
<1> QED
  BY <1>1, <1>2

\* A settled job's summary counts as sent only what went out and as failed
\* only what did not, and a job is done with nobody unsent: whoever else had
\* a pass over the job, and whether or not its markers could be written.
THEOREM SummariesTellTheTruth == Spec => []SummaryTruth
<1>1. SumInv => SummaryTruth
  BY DEF SumInv, SummaryKept, Truth, SummaryTruth
<1> QED
  BY <1>1, SumInductive, PTL DEF Spec

-----------------------------------------------------------------------------
(* Who counts as unsent.  In a run whose claims were never taken over, at  *)
(* most one pass is over the job, and none once it is settled: what that   *)
(* pass read as unmarked was sent nothing, but for its own sends.          *)

\* The positions of a pass that has claimed the job ...
InPass == {"keep", "read", "send"}
\* ... a pass over the run the job is in ...
Active(r) == pc[r] \in InPass /\ claim[r].run = job.run
\* ... and the sends Meta may have acted on, their outcome to be recorded.
Sent == {"accepted", "unknown"}

\* A claim is of the job's run or of an earlier one.
RunBound == \A r \in Runners : claim[r].run <= job.run

\* One pass over the run, none where the job is not claimed or cancelled.
Lone ==
  ~job.taken =>
    \A q \in Runners : Active(q) =>
      /\ job.state \in {"claimed", "cancelled"}
      /\ \A r \in Runners : Active(r) => q = r

\* What that pass counts as unsent was sent nothing, or records its outcome.
LoneUnsent ==
  ~job.taken =>
    \A r \in Runners, p \in Rcpt :
      Active(r) /\ found[r][p] = "unmarked" =>
        delivered[job.run][p] = 0 \/ task[r][p] \in Sent

LoneInv == SumInv /\ LeaseInv /\ RunBound /\ Lone /\ LoneUnsent /\ UnsentUnlessTakenOver

\* A pass goes on with the claim it has, or begins with a swap.
LEMMA PassMoves ==
  ASSUME TypeInv, [Next]_vars
  PROVE  \A r \in Runners :
           pc'[r] \in InPass => ClaimSwap(r) \/ (pc[r] \in InPass /\ claim'[r] = claim[r])
<1> USE DEF pass
<1>1. ASSUME UNCHANGED <<pc, claim>>
      PROVE  \A r \in Runners :
               pc'[r] \in InPass => pc[r] \in InPass /\ claim'[r] = claim[r]
  BY <1>1
<1>2. ASSUME NEW r \in Runners, Drop(r)
      PROVE  \A q \in Runners :
               pc'[q] \in InPass => pc[q] \in InPass /\ claim'[q] = claim[q]
  BY <1>2 DEF Drop, InPass, TypeInv, TypeOK
<1>3. ASSUME NEW r \in Runners, Pass(r)
      PROVE  \A q \in Runners :
               pc'[q] \in InPass => ClaimSwap(q) \/ (pc[q] \in InPass /\ claim'[q] = claim[q])
  <2>1. CASE ClaimRead(r) \/ Keep(r) \/ ReadMarker(r)
    BY <2>1 DEF ClaimRead, Keep, ReadMarker, InPass, TypeInv, TypeOK
  <2>2. CASE ClaimSwap(r)
    <3>1. \A q \in Runners : q # r => pc'[q] = pc[q] /\ claim'[q] = claim[q]
      BY <2>2 DEF ClaimSwap, TypeInv, TypeOK
    <3> QED BY <2>2, <3>1, Zenon
  <2>3. CASE ClaimLost(r) \/ KeepHalted(r) \/ EndPass(r)
    BY <1>2, <2>3 DEF ClaimLost, KeepHalted, EndPass
  <2> QED BY <1>3, <2>1, <2>2, <2>3 DEF Pass
<1>4. ASSUME NEW r \in Runners, NEW p \in Rcpt, Send(r, p) \/ SendFault(r, p)
      PROVE  UNCHANGED <<pc, claim>>
  BY <1>4 DEF Send, SendFault, Check, MarkSending, CheckRun, Request, MarkOutcome, Unmark,
     AfterUnmark, Skip, MarkSendingFails, CheckRunFails, UnmarkFails
<1>5. ASSUME NEW d \in 0..Delay, Schedule(d) \/ Rerun(d) PROVE UNCHANGED <<pc, claim>>
  BY <1>5 DEF Schedule, Rerun
<1>6. CASE Cancel \/ Tick \/ UNCHANGED vars
  BY <1>1, <1>6 DEF Cancel, Tick, vars
<1>7. ASSUME NEW p \in Rcpt, LimitMessage(p) \/ LimitExpires(p) PROVE UNCHANGED <<pc, claim>>
  BY <1>7 DEF LimitMessage, LimitExpires
<1>8. ASSUME NEW r \in Runners, Abandon(r) PROVE Drop(r)
  BY <1>8 DEF Abandon
<1> HIDE DEF pass
<1> QED
  BY <1>1, <1>2, <1>3, <1>4, <1>5, <1>6, <1>7, <1>8 DEF Next

\* Meta acts on the request of a pass, which has its outcome to record.
LEMMA DeliveredMoves ==
  ASSUME TypeInv, Passive, [Next]_vars, NEW n \in Run, NEW p \in Rcpt,
         delivered'[n][p] # delivered[n][p]
  PROVE  \E r \in Runners : /\ claim[r].run = n /\ pc[r] \in InPass
                            /\ task'[r][p] \in Sent
                            /\ UNCHANGED <<pc, claim, found, job>>
<1> USE DEF pass
<1>1. PICK r \in Runners, x \in Rcpt : Request(r, x)
  <2>1. ~UNCHANGED delivered
    OBVIOUS
  <2>2. ASSUME NEW r \in Runners, Pass(r) \/ Abandon(r) PROVE UNCHANGED delivered
    BY <2>2 DEF Pass, ClaimRead, ClaimSwap, ClaimLost, Keep, KeepHalted, ReadMarker,
       EndPass, Abandon
  <2>3. ASSUME NEW r \in Runners, NEW x \in Rcpt, Send(r, x) \/ SendFault(r, x), ~Request(r, x)
        PROVE  UNCHANGED delivered
    BY <2>3 DEF Send, SendFault, Check, MarkSending, CheckRun, MarkOutcome, Unmark,
       AfterUnmark, Skip, MarkSendingFails, CheckRunFails, UnmarkFails
  <2>4. ASSUME NEW d \in 0..Delay, Schedule(d) \/ Rerun(d) PROVE UNCHANGED delivered
    BY <2>4 DEF Schedule, Rerun
  <2>5. ASSUME NEW x \in Rcpt, LimitMessage(x) \/ LimitExpires(x) PROVE UNCHANGED delivered
    BY <2>5 DEF LimitMessage, LimitExpires
  <2>6. ASSUME Cancel \/ Tick \/ UNCHANGED vars PROVE UNCHANGED delivered
    BY <2>6 DEF Cancel, Tick, vars
  <2> HIDE DEF pass
  <2> QED BY <2>1, <2>2, <2>3, <2>4, <2>5, <2>6 DEF Next
<1>2. PICK t \in Sent : /\ SetTask(r, x, t)
                        /\ delivered' = [delivered EXCEPT ![claim[r].run][x] = @ + 1]
  BY <1>1 DEF Request, Sent
<1>3. claim[r].run \in Run
  BY DEF TypeInv, TypeOK, JobClaim
<1>4. n = claim[r].run /\ p = x
  BY <1>2, <1>3 DEF TypeInv, TypeOK
<1>5. task'[r][x] = t
  BY <1>2, TaskOthers
<1>6. pc[r] \in InPass
  BY <1>1 DEF Request, Passive, InPass
<1>7. UNCHANGED <<pc, claim, found, job>>
  BY <1>1 DEF Request
<1> QED BY <1>4, <1>5, <1>6, <1>7

\* A recipient a pass counts as unsent was counted so before, its send no
\* nearer to its outcome, or was sent nothing when its marker was read.
LEMMA UnsentMoves ==
  ASSUME IInv, [Next]_vars, NEW r \in Runners, NEW p \in Rcpt,
         pc'[r] \in InPass, ~ClaimSwap(r), found'[r][p] = "unmarked"
  PROVE  \/ found[r][p] = "unmarked" /\ (task[r][p] \in Sent => task'[r][p] = task[r][p])
         \/ delivered[claim[r].run][p] = 0 /\ UNCHANGED delivered
<1>0. TypeInv /\ Passive /\ SendInv
  BY DEF IInv
<1> USE DEF pass
<1> DEFINE Same == found[r][p] = "unmarked" /\ (task[r][p] \in Sent => task'[r][p] = task[r][p])
<1>1. ASSUME UNCHANGED <<found, task>> PROVE Same
  BY <1>1
<1>2. ASSUME NEW q \in Runners, Drop(q) PROVE Same
  BY <1>0, <1>2 DEF Drop, InPass, TypeInv, TypeOK
<1>3. ASSUME NEW q \in Runners, Pass(q)
      PROVE  Same \/ (delivered[claim[r].run][p] = 0 /\ UNCHANGED delivered)
  <2>1. CASE ClaimRead(q) \/ Keep(q)
    BY <1>1, <2>1 DEF ClaimRead, Keep
  <2>2. CASE ClaimSwap(q)
    BY <1>0, <2>2 DEF ClaimSwap, TypeInv, TypeOK
  <2>3. CASE ClaimLost(q) \/ KeepHalted(q) \/ EndPass(q)
    BY <1>2, <2>3 DEF ClaimLost, KeepHalted, EndPass
  <2>4. CASE ReadMarker(q)
    <3>1. CASE q # r
      BY <1>0, <2>4, <3>1 DEF ReadMarker, TypeInv, TypeOK
    <3>2. CASE q = r
      <4>1. task[r][p] \notin Sent
        BY <1>0, <2>4, <3>2 DEF ReadMarker, Passive, Sent
      <4>2. \/ found'[r][p] = found[r][p]
            \/ found'[r][p] = "failed"
            \/ found'[r][p] = RecipientMark(r, p)
        BY <1>0, <2>4, <3>2 DEF ReadMarker, TypeInv, TypeOK
      <4>3. CASE RecipientMark(r, p) = "unmarked"
        <5>1. marker[claim[r].run][p].state = "none" /\ claim[r].run \in Run
          BY <1>0, <4>3 DEF RecipientMark, TypeInv, TypeOK, Marker, JobClaim
        <5>2. UNCHANGED delivered
          BY <2>4 DEF ReadMarker
        <5> QED BY <1>0, <5>1, <5>2 DEF SendInv, MarkerTruth
      <4> QED BY <4>1, <4>2, <4>3
    <3> QED BY <3>1, <3>2
  <2> QED BY <1>3, <2>1, <2>2, <2>3, <2>4 DEF Pass
<1>4. ASSUME NEW q \in Runners, NEW x \in Rcpt, NEW t, SetTask(q, x, t),
             task[q][x] \notin Sent, UNCHANGED found
      PROVE  Same
  <2>1. \A i \in Runners, j \in Rcpt : task'[i][j] = task[i][j] \/ (i = q /\ j = x)
    BY <1>0, <1>4, TaskOthers
  <2> QED BY <1>4, <2>1
<1>5. ASSUME NEW q \in Runners, NEW x \in Rcpt, NEW t, SetTask(q, x, t),
             NEW o \in {"sent", "failed", "unknown"}, Record(q, x, o)
      PROVE  Same
  <2>1. \A i \in Runners, j \in Rcpt :
          \/ i = q /\ j = x /\ found'[i][j] = o
          \/ task'[i][j] = task[i][j] /\ found'[i][j] = found[i][j]
    <3>1. \A i \in Runners, j \in Rcpt : task'[i][j] = task[i][j] \/ (i = q /\ j = x)
      BY <1>0, <1>5, TaskOthers
    <3>2. \A i \in Runners, j \in Rcpt :
            IF i = q /\ j = x THEN found'[i][j] = o ELSE found'[i][j] = found[i][j]
      BY <1>0, <1>5 DEF Record, TypeInv, TypeOK
    <3> QED BY <3>1, <3>2
  <2> QED BY <1>5, <2>1
<1>6. ASSUME NEW q \in Runners, NEW x \in Rcpt, Send(q, x) PROVE Same
  <2>1. CASE Check(q, x) \/ CheckRun(q, x) \/ Request(q, x)
    BY <1>4, <2>1 DEF Check, CheckRun, Request, Sent
  <2>2. CASE MarkSending(q, x)
    BY <1>4, <1>5, <2>2 DEF MarkSending, Sent
  <2>3. CASE MarkOutcome(q, x)
    <3>1. OutcomeOf(task[q][x]) \in {"sent", "failed", "unknown"}
      BY DEF OutcomeOf
    <3>2. SetTask(q, x, "idle") /\ Record(q, x, OutcomeOf(task[q][x]))
      BY <2>3 DEF MarkOutcome
    <3> QED BY <1>5, <3>1, <3>2
  <2>4. CASE Unmark(q, x)
    BY <1>4, <2>4 DEF Unmark, AfterUnmark, Withdrawing, Sent
  <2> QED BY <1>6, <2>1, <2>2, <2>3, <2>4 DEF Send
<1>7. ASSUME NEW q \in Runners, NEW x \in Rcpt, SendFault(q, x) PROVE Same
  <2>1. CASE Skip(q, x) \/ MarkSendingFails(q, x) \/ CheckRunFails(q, x)
    BY <1>4, <2>1 DEF Skip, MarkSendingFails, CheckRunFails, Sent
  <2>2. CASE UnmarkFails(q, x)
    BY <1>5, <2>2 DEF UnmarkFails, AfterUnmark
  <2> QED BY <1>7, <2>1, <2>2 DEF SendFault
<1>8. ASSUME NEW d \in 0..Delay, Schedule(d) \/ Rerun(d) PROVE Same
  BY <1>1, <1>8 DEF Schedule, Rerun
<1>9. ASSUME Cancel \/ Tick \/ UNCHANGED vars PROVE Same
  BY <1>1, <1>9 DEF Cancel, Tick, vars
<1>10. ASSUME NEW x \in Rcpt, LimitMessage(x) \/ LimitExpires(x) PROVE Same
  BY <1>1, <1>10 DEF LimitMessage, LimitExpires
<1>11. ASSUME NEW q \in Runners, Abandon(q) PROVE Same
  BY <1>2, <1>11 DEF Abandon
<1> HIDE DEF pass, Same
<1>12. Same \/ (delivered[claim[r].run][p] = 0 /\ UNCHANGED delivered)
  BY <1>3, <1>6, <1>7, <1>8, <1>9, <1>10, <1>11 DEF Next
<1> QED BY <1>12 DEF Same

\* What becomes of the record, of its run and of its history.
Course ==
  \/ \E r \in Runners : ClaimSwap(r)
  \/ job'.run = job.run + 1 /\ job'.state = "pending"
  \/ \E r \in Runners : /\ EndPass(r) /\ HeldBy(r)
                        /\ job'.run = job.run /\ job'.taken = job.taken
                        /\ job'.state = "stopped" => job'.summary = found[r]
  \/ /\ job'.run = job.run /\ job'.taken = job.taken
     /\ \/ job.state = "absent" /\ job'.state = "pending"
        \/ job'.state = "cancelled"
        \/ job'.state = job.state /\ job'.summary = job.summary

LEMMA NextCourse ==
  ASSUME TypeInv, Leased, [Next]_vars
  PROVE  Course
<1> USE DEF pass
<1>0. job \in JobRecord
  BY DEF TypeInv, TypeOK
<1>1. ASSUME NEW d \in 0..Delay, Schedule(d) PROVE Course
  <2>1. /\ job.state = "absent" /\ job'.state = "pending"
        /\ job'.run = job.run /\ job'.taken = job.taken
    BY <1>0, <1>1 DEF Schedule, WriteJob, JobRecord
  <2> QED BY <2>1 DEF Course
<1>2. ASSUME NEW d \in 0..Delay, Rerun(d) PROVE Course
  <2>1. job'.run = job.run + 1 /\ job'.state = "pending"
    BY <1>0, <1>2 DEF Rerun, WriteJob, JobRecord
  <2> QED BY <2>1 DEF Course
<1>3. CASE Cancel
  <2>1. job'.state = "cancelled" /\ job'.run = job.run /\ job'.taken = job.taken
    BY <1>0, <1>3 DEF Cancel, WriteJob, JobRecord
  <2> QED BY <2>1 DEF Course
<1>4. ASSUME UNCHANGED job PROVE Course
  BY <1>4 DEF Course
<1>5. CASE Tick
  BY <1>5, TickLease DEF Course
<1>6. ASSUME NEW r \in Runners, Hold(r) PROVE Course
  <2>1. /\ job'.state = job.state /\ job'.summary = job.summary
        /\ job'.run = job.run /\ job'.taken = job.taken
    BY <1>0, <1>6 DEF Hold, WriteJob, JobRecord
  <2> QED BY <2>1 DEF Course
<1>7. ASSUME NEW r \in Runners, Pass(r) PROVE Course
  <2>1. CASE ClaimSwap(r)
    BY <2>1 DEF Course
  <2>2. CASE Keep(r)
    BY <1>4, <1>6, <2>2 DEF Keep
  <2>3. CASE EndPass(r)
    <3>1. CASE UNCHANGED <<job, fresh>>
      BY <1>4, <3>1
    <3>2. CASE HaltOf(r) = "none" /\ EndOf(r)
      <4>1. HeldBy(r)
        BY <3>2 DEF HaltOf
      <4>2. /\ job'.run = job.run /\ job'.taken = job.taken
            /\ job'.state = "stopped" => job'.summary = found[r]
        BY <1>0, <3>2 DEF EndOf, WriteJob, JobRecord
      <4> QED BY <2>3, <4>1, <4>2, Zenon DEF Course
    <3> QED BY <2>3, <3>1, <3>2 DEF EndPass
  <2>4. CASE ClaimRead(r) \/ ClaimLost(r) \/ KeepHalted(r) \/ ReadMarker(r)
    BY <1>4, <2>4 DEF ClaimRead, ClaimLost, KeepHalted, ReadMarker
  <2> QED BY <1>7, <2>1, <2>2, <2>3, <2>4 DEF Pass
<1>8. ASSUME NEW r \in Runners, NEW p \in Rcpt, Send(r, p) \/ SendFault(r, p) PROVE Course
  <2>1. CASE Check(r, p)
    BY <1>4, <1>6, <2>1 DEF Check
  <2>2. CASE ~Check(r, p)
    BY <1>4, <1>8, <2>2 DEF Send, SendFault, MarkSending, CheckRun, Request, MarkOutcome,
       Unmark, AfterUnmark, Skip, MarkSendingFails, CheckRunFails, UnmarkFails
  <2> QED BY <2>1, <2>2
<1>9. ASSUME NEW r \in Runners, Abandon(r) PROVE Course
  BY <1>4, <1>9 DEF Abandon
<1>10. ASSUME NEW p \in Rcpt, LimitMessage(p) \/ LimitExpires(p) PROVE Course
  BY <1>4, <1>10 DEF LimitMessage, LimitExpires
<1>11. ASSUME UNCHANGED vars PROVE Course
  BY <1>4, <1>11 DEF vars
<1> HIDE DEF pass
<1> QED
  BY <1>1, <1>2, <1>3, <1>5, <1>7, <1>8, <1>9, <1>10, <1>11 DEF Next

\* A step that neither claims the job nor runs it again leaves the passes
\* over its run what they were, and what they count as unsent unsent.
LEMMA PassesStay ==
  ASSUME LoneInv, [Next]_vars, ~job.taken, job'.run = job.run,
         \A r \in Runners : ~ClaimSwap(r)
  PROVE  /\ \A r \in Runners : Active(r)' => Active(r)
         /\ LoneUnsent'
<1>0. IInv /\ TypeInv /\ Passive /\ job.run \in Run
  BY DEF LoneInv, SumInv, IInv, TypeInv, TypeOK, JobRecord
<1>1. \A r \in Runners : pc'[r] \in InPass => pc[r] \in InPass /\ claim'[r] = claim[r]
  BY <1>0, PassMoves
<1>2. \A r \in Runners : Active(r)' => Active(r)
  BY <1>1 DEF Active
<1>3. ASSUME NEW r \in Runners, NEW p \in Rcpt, Active(r)', found'[r][p] = "unmarked"
      PROVE  delivered'[job.run][p] = 0 \/ task'[r][p] \in Sent
  <2>1. Active(r) /\ claim[r].run = job.run /\ pc'[r] \in InPass
    BY <1>1, <1>2, <1>3 DEF Active
  <2>2. CASE delivered'[job.run][p] # delivered[job.run][p]
    <3>1. PICK q \in Runners : /\ claim[q].run = job.run /\ pc[q] \in InPass
                               /\ task'[q][p] \in Sent
      BY <1>0, <2>2, DeliveredMoves
    <3>2. q = r
      BY <2>1, <3>1 DEF LoneInv, Lone, Active
    <3> QED BY <3>1, <3>2
  <2>3. CASE delivered'[job.run][p] = delivered[job.run][p]
    <3>1. \/ found[r][p] = "unmarked" /\ (task[r][p] \in Sent => task'[r][p] = task[r][p])
          \/ delivered[job.run][p] = 0
      BY <1>0, <1>3, <2>1, UnsentMoves
    <3>2. found[r][p] = "unmarked" => delivered[job.run][p] = 0 \/ task[r][p] \in Sent
      BY <2>1 DEF LoneInv, LoneUnsent
    <3> QED BY <2>3, <3>1, <3>2
  <2> QED BY <2>2, <2>3
<1>4. LoneUnsent'
  BY <1>3 DEF LoneUnsent
<1> QED BY <1>2, <1>4

LEMMA LoneInductive ==
  /\ Init => LoneInv
  /\ LoneInv /\ [Next]_vars => LoneInv'
<1>1. ASSUME Init PROVE LoneInv
  <2>1. SumInv /\ LeaseInv
    BY <1>1, SumInductive, LeaseInductive
  <2>2. \A r \in Runners : pc[r] = "idle" /\ claim[r].run = 1
    BY <1>1 DEF Init, NoClaim
  <2>3. RunBound
    <3>1. job.run = 1
      BY <1>1 DEF Init
    <3>2. ASSUME NEW r \in Runners PROVE claim[r].run <= job.run
      BY <2>2, <3>1
    <3> QED BY <3>2 DEF RunBound
  <2>4. Lone /\ LoneUnsent
    BY <2>2 DEF Lone, LoneUnsent, Active, InPass
  <2>5. UnsentUnlessTakenOver
    BY <1>1 DEF Init, UnsentUnlessTakenOver
  <2> QED BY <2>1, <2>3, <2>4, <2>5 DEF LoneInv
<1>2. ASSUME LoneInv, [Next]_vars PROVE LoneInv'
  <2>5. SumInv' /\ LeaseInv'
    BY <1>2, SumInductive, LeaseInductive DEF LoneInv
  <2>0. /\ IInv /\ TypeInv /\ Leased /\ Current /\ Holder
        /\ job \in JobRecord /\ job.run \in Nat /\ Lone /\ LoneUnsent /\ RunBound
    BY <1>2 DEF LoneInv, SumInv, LeaseInv, IInv, TypeInv, TypeOK, JobRecord, Run
  <2>1. \A r \in Runners :
          pc'[r] \in InPass => ClaimSwap(r) \/ (pc[r] \in InPass /\ claim'[r] = claim[r])
    BY <1>2, <2>0, PassMoves
  <2>2. ASSUME NEW r \in Runners, ClaimSwap(r)
        PROVE  /\ RunBound' /\ Lone' /\ LoneUnsent' /\ UnsentUnlessTakenOver'
    <3>1. /\ job'.state = "claimed" /\ job'.run = job.run
          /\ job'.taken = (job.taken \/ job.state = "claimed")
      BY <2>0, <2>2 DEF ClaimSwap, WriteJob, JobRecord
    <3>2. /\ \A q \in Runners : q # r => pc'[q] = pc[q] /\ claim'[q] = claim[q]
          /\ claim'[r].run = job.run /\ pc[r] = "claim"
          /\ \A p \in Rcpt : found'[r][p] = "unread"
      BY <2>0, <2>2 DEF ClaimSwap, TypeInv, TypeOK, NoSummary
    <3>3. job.state \in {"pending", "claimed"}
      BY <2>0, <2>2 DEF ClaimSwap, Current, Claimable
    <3>4. ~job'.taken => \A q \in Runners : Active(q)' => q = r
      BY <2>0, <3>1, <3>2, <3>3 DEF Lone, Active
    <3>5. RunBound'
      BY <2>0, <3>1, <3>2 DEF RunBound
    <3>6. Lone' /\ LoneUnsent'
      BY <3>1, <3>2, <3>4 DEF Lone, LoneUnsent
    <3> QED BY <3>1, <3>5, <3>6 DEF UnsentUnlessTakenOver
  <2>3. ASSUME \A r \in Runners : ~ClaimSwap(r)
        PROVE  RunBound' /\ Lone' /\ LoneUnsent' /\ UnsentUnlessTakenOver'
    <3>2. ASSUME job'.run \in {job.run, job.run + 1} PROVE RunBound'
      <4>1. \A r \in Runners : claim'[r] = claim[r] \/ claim'[r] = NoClaim
        BY <1>2, <2>0, <2>3, ClaimMoves
      <4>2. NoClaim.run = 1 /\ job'.run >= 1
        BY <2>0, <3>2 DEF NoClaim, JobRecord, Run
      <4>3. \A r \in Runners : claim[r].run \in Nat
        BY <2>0 DEF TypeInv, TypeOK, JobClaim, Run
      <4> QED BY <2>0, <3>2, <4>1, <4>2, <4>3 DEF RunBound
    <3>3. CASE job'.run = job.run + 1 /\ job'.state = "pending"
      <4>1. \A r \in Runners : claim[r].run \in Nat
        BY <2>0 DEF TypeInv, TypeOK, JobClaim, Run
      <4>2. \A r \in Runners : ~Active(r)'
        BY <2>0, <2>1, <2>3, <3>3, <4>1 DEF Active, RunBound
      <4> QED BY <3>2, <3>3, <4>2 DEF Lone, LoneUnsent, UnsentUnlessTakenOver
    <3> SUFFICES ASSUME ~job'.taken, job'.run = job.run, job'.taken = job.taken
                 PROVE  Lone' /\ UnsentUnlessTakenOver'
      <4>1. CASE job'.run = job.run /\ job'.taken = job.taken
        <5>1. job'.taken => LoneUnsent' /\ Lone' /\ UnsentUnlessTakenOver'
          BY DEF LoneUnsent, Lone, UnsentUnlessTakenOver
        <5>2. ~job'.taken => LoneUnsent'
          BY <1>2, <2>3, <4>1, PassesStay
        <5> QED BY <3>2, <4>1, <5>1, <5>2
      <4> QED BY <1>2, <2>0, <2>3, <3>3, <4>1, NextCourse DEF Course
    <3>4. \A r \in Runners : Active(r)' => Active(r)
      BY <1>2, <2>3, PassesStay
    <3>5. ASSUME NEW r \in Runners, EndPass(r), HeldBy(r),
                 job'.state = "stopped" => job'.summary = found[r]
          PROVE  Lone' /\ UnsentUnlessTakenOver'
      <4>1. Active(r) /\ pc'[r] = "idle"
        BY <2>0, <3>5 DEF EndPass, Drop, Active, InPass, Holder, TypeInv, TypeOK
      <4>2. \A q \in Runners : ~Active(q)'
        BY <2>0, <3>4, <4>1 DEF Lone, Active, InPass
      <4>3. \A p \in Rcpt : found[r][p] = "unmarked" => delivered'[job.run][p] = 0
        BY <2>0, <3>5, <4>1 DEF LoneUnsent, EndPass, Sent
      <4> QED BY <3>5, <4>2, <4>3 DEF Lone, UnsentUnlessTakenOver
    <3>6. CASE job.state = "absent" /\ job'.state = "pending"
      BY <2>0, <3>4, <3>6 DEF Lone, UnsentUnlessTakenOver
    <3>7. CASE job'.state = "cancelled"
      BY <2>0, <3>4, <3>7 DEF Lone, UnsentUnlessTakenOver
    <3>8. CASE job'.state = job.state /\ job'.summary = job.summary
      <4>1. Lone'
        BY <2>0, <3>4, <3>8 DEF Lone
      <4>2. ASSUME job.state = "stopped", NEW p \in Rcpt
            PROVE  delivered'[job.run][p] = delivered[job.run][p]
        <5>1. \A r \in Runners : ~Active(r)
          BY <2>0, <4>2 DEF Lone
        <5>2. job.run \in Run
          BY <2>0 DEF JobRecord
        <5> QED BY <1>2, <2>0, <5>1, <5>2, DeliveredMoves DEF Active, IInv
      <4>3. UnsentUnlessTakenOver'
        BY <1>2, <3>8, <4>2 DEF LoneInv, UnsentUnlessTakenOver
      <4> QED BY <4>1, <4>3
    <3> QED
      BY <1>2, <2>0, <2>3, <3>3, <3>5, <3>6, <3>7, <3>8, NextCourse DEF Course
  <2>4. RunBound' /\ Lone' /\ LoneUnsent' /\ UnsentUnlessTakenOver'
    BY <2>2, <2>3
  <2> QED BY <2>4, <2>5 DEF LoneInv
<1> QED BY <1>1, <1>2

\* A recipient that a stopped job counts as unsent was sent nothing, in a
\* run no claim of which was taken over: JobEnd::Stopped holds there, with
\* retries, re-runs, cancels, lost answers and lost marker writes.
THEOREM StoppedIsUnsent == Spec => []UnsentUnlessTakenOver
<1>1. LoneInv => UnsentUnlessTakenOver
  BY DEF LoneInv
<1> QED
  BY <1>1, LoneInductive, PTL DEF Spec
=============================================================================
