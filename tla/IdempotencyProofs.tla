------------------------- MODULE IdempotencyProofs --------------------------
(***************************************************************************)
(* Proofs about Idempotency: for every set of requests, keys and inputs    *)
(* and every lease and expiry, Meta acts at most once under a key, answers *)
(* are true, a key is not left behind, and the protocol implements         *)
(* OncePerKey.                                                             *)
(*                                                                         *)
(* What makes them inductive: a message on its way, or that arrived,       *)
(* belongs to the holder of its key or to a request whose record ran out;  *)
(* and a call that may still take effect says only what has become true.   *)
(***************************************************************************)
EXTENDS Idempotency, TLAPS

\* A record is of a request that carries its key, and has run out exactly
\* when its request is in "over"; what it keeps as a success was sent.
RecordsTrue ==
  \A k \in Keys : rec[k].by # Nobody =>
    /\ KeyOf[rec[k].by] = k
    /\ rec[k].by \in over <=> rec[k].ttl = 0
    /\ rec[k].kept = "ok" => wire[rec[k].by] = "sent"

\* A request that has not begun left no trace.
IdleIsFresh ==
  \A q \in Requests : req[q].pc = "idle" =>
    ~HeldBy(q) /\ wire[q] = "none" /\ q \notin over /\ \A c \in calls : c.by # q

\* A request at work, or with a message at Meta, holds its key.
SenderHolds ==
  \A q \in Requests : req[q].pc = "running" \/ wire[q] \in {"flying", "sent"} =>
    HeldBy(q) \/ q \in over

\* A request at work has settled nothing.
WorkingIsOpen ==
  \A q \in Requests : req[q].pc = "running" =>
    /\ \A c \in calls : c.by # q
    /\ HeldBy(q) => rec[KeyOf[q]].kept = Pending

\* A call says what is true of its request, which has ended.
CallsTrue ==
  \A c \in calls : /\ req[c.by].pc \notin {"idle", "running"}
                   /\ c.answer = "ok" => wire[c.by] = "sent"
                   /\ c.answer = "unsent" => wire[c.by] \in {"none", "refused"}

\* A request's calls, and what it keeps, differ only by a cut's timeout.
OneAnswer ==
  \A c \in calls :
    /\ \A d \in calls : c.by = d.by => c.answer = d.answer \/ "timeout" \in {c.answer, d.answer}
    /\ HeldBy(c.by) /\ c.answer # "timeout"
         => rec[KeyOf[c.by]].kept \in {Pending, "timeout", c.answer}

\* AnswersTrue, of the requests that settle their answer too.
AnswerTrue(q, p) ==
  /\ req[q].answer = "ok" => wire[p] = "sent"
  /\ req[q].answer = "unsent" => p = q /\ wire[q] \notin {"sent", "flying"}
  /\ p # q /\ req[q].answer \in Answers => InputOf[p] = InputOf[q]
  /\ req[q].answer = "reused" => InputOf[p] # InputOf[q]
GivenTrue ==
  \A q \in Requests : req[q].pc \in {"settling", "done"} /\ req[q].from # Nobody =>
    AnswerTrue(q, req[q].from)

IInv == /\ TypeOK /\ RecordsTrue /\ IdleIsFresh /\ SenderHolds /\ WorkingIsOpen
        /\ CallsTrue /\ OneAnswer /\ GivenTrue /\ SettlingUnderWay

-----------------------------------------------------------------------------
(* What is written is a record, a request and a call.                      *)

LEMMA NewRecordType ==
  ASSUME NEW q \in Requests
  PROVE  NewRecord(q) \in Record
BY TimesAssumption DEF NewRecord, Record

LEMMA NoRecordType == NoRecord \in Record
BY TimesAssumption DEF NoRecord, Record

LEMMA RequestType ==
  ASSUME NEW q \in Requests, NEW a \in Answers
  PROVE  /\ Over \in Request /\ Unheard \in Request
         /\ [pc |-> "settling", answer |-> a, from |-> q] \in Request
         /\ SettleCall(q, a) \in Call
BY DEF Over, Unheard, Request, SettleCall, Call

LEMMA RepeatType ==
  ASSUME NEW q \in Requests, NEW r \in Record
  PROVE  Repeat(q, r) \in (Kept \cup Refusals)
BY DEF Repeat, Record, Refusals, Kept, Pending

\* A call is its request's, with its answer.
LEMMA CallIsSettleCall ==
  ASSUME NEW c \in Call
  PROVE  c.by \in Requests /\ c.answer \in Answers /\ c = SettleCall(c.by, c.answer)
BY DEF Call, SettleCall

-----------------------------------------------------------------------------
(* Every action keeps the invariant.                                       *)

LEMMA InitInv == Init => IInv
<1> SUFFICES ASSUME Init PROVE IInv
  OBVIOUS
<1>1. TypeOK
  BY NoRecordType DEF Init, TypeOK, Request, Pending
<1>2. RecordsTrue /\ IdleIsFresh /\ SenderHolds /\ SettlingUnderWay
  BY RequestsAssumption, KeysAssumption
     DEF Init, NoRecord, RecordsTrue, IdleIsFresh, SenderHolds, SettlingUnderWay, HeldBy
<1>3. WorkingIsOpen /\ CallsTrue /\ OneAnswer /\ GivenTrue
  BY DEF Init, WorkingIsOpen, CallsTrue, OneAnswer, GivenTrue
<1>4. QED BY <1>1, <1>2, <1>3 DEF IInv

\* The new record is its request's; the one it replaces had run out.
LEMMA ClaimFreeKeeps ==
  ASSUME IInv, NEW q \in Requests, ClaimFree(q)
  PROVE  IInv'
<1>1. TypeOK'
  BY NewRecordType, KeysAssumption DEF IInv, TypeOK, ClaimFree, Request
<1>2. RecordsTrue'
  BY RequestsAssumption, KeysAssumption, TimesAssumption
     DEF IInv, TypeOK, RecordsTrue, IdleIsFresh, Pending, HeldBy, ClaimFree, NewRecord,
         Live
<1>3. IdleIsFresh'
  BY RequestsAssumption, KeysAssumption
     DEF IInv, TypeOK, IdleIsFresh, HeldBy, ClaimFree, NewRecord, Live
<1>4. SenderHolds'
  <2>1. HeldBy(q)'
    BY KeysAssumption DEF IInv, TypeOK, HeldBy, ClaimFree, NewRecord
  <2>2. ASSUME NEW p \in Requests, p # q, HeldBy(p)
        PROVE  HeldBy(p)' \/ p \in over
    BY <2>2, RequestsAssumption, KeysAssumption, TimesAssumption
       DEF IInv, TypeOK, RecordsTrue, HeldBy, ClaimFree, Live, Record
  <2>3. \A p \in Requests : p # q => req'[p] = req[p]
    BY DEF IInv, TypeOK, ClaimFree
  <2>4. QED BY <2>1, <2>2, <2>3 DEF IInv, SenderHolds, ClaimFree
<1>5. WorkingIsOpen'
  BY RequestsAssumption, KeysAssumption
     DEF IInv, TypeOK, WorkingIsOpen, IdleIsFresh, HeldBy, ClaimFree, NewRecord, Live
<1>6. CallsTrue'
  BY RequestsAssumption, KeysAssumption
     DEF IInv, TypeOK, CallsTrue, ClaimFree, NewRecord, Live
<1>7. OneAnswer'
  BY RequestsAssumption, KeysAssumption
     DEF IInv, TypeOK, OneAnswer, CallsTrue, HeldBy, ClaimFree, NewRecord, Live
<1>8. GivenTrue'
  BY RequestsAssumption, KeysAssumption
     DEF IInv, TypeOK, GivenTrue, AnswerTrue, ClaimFree, NewRecord, Live
<1>9. SettlingUnderWay'
  BY RequestsAssumption, KeysAssumption
     DEF IInv, TypeOK, SettlingUnderWay, HeldBy, SettleCall, ClaimFree, NewRecord, Live
<1>10. QED BY <1>1, <1>2, <1>3, <1>4, <1>5, <1>6, <1>7, <1>8, <1>9 DEF IInv

\* The same, of a request that does not hear of it.
LEMMA ClaimUnheardKeeps ==
  ASSUME IInv, NEW q \in Requests, ClaimUnheard(q)
  PROVE  IInv'
<1>1. TypeOK'
  BY NewRecordType, RequestType, KeysAssumption DEF IInv, TypeOK, ClaimUnheard, Answers
<1>2. RecordsTrue'
  BY RequestsAssumption, KeysAssumption, TimesAssumption
     DEF IInv, TypeOK, RecordsTrue, IdleIsFresh, Pending, HeldBy, ClaimUnheard,
         NewRecord, Live, Over, Unheard
<1>3. IdleIsFresh'
  BY RequestsAssumption, KeysAssumption
     DEF IInv, TypeOK, IdleIsFresh, HeldBy, ClaimUnheard, NewRecord, Live, Over, Unheard
<1>4. SenderHolds'
  BY RequestsAssumption, KeysAssumption, TimesAssumption
     DEF IInv, TypeOK, SenderHolds, RecordsTrue, Record, HeldBy, ClaimUnheard,
         NewRecord, Live, Over, Unheard
<1>5. WorkingIsOpen'
  BY RequestsAssumption, KeysAssumption
     DEF IInv, TypeOK, WorkingIsOpen, HeldBy, ClaimUnheard, NewRecord, Live, Over, Unheard
<1>6. CallsTrue'
  BY RequestsAssumption, KeysAssumption
     DEF IInv, TypeOK, CallsTrue, ClaimUnheard, NewRecord, Live, Over, Unheard
<1>7. OneAnswer'
  BY RequestsAssumption, KeysAssumption
     DEF IInv, TypeOK, OneAnswer, CallsTrue, HeldBy, ClaimUnheard, NewRecord, Live,
         Over, Unheard
<1>8. GivenTrue'
  BY RequestsAssumption, KeysAssumption
     DEF IInv, TypeOK, GivenTrue, AnswerTrue, ClaimUnheard, NewRecord, Live, Over, Unheard
<1>9. SettlingUnderWay'
  BY RequestsAssumption, KeysAssumption
     DEF IInv, TypeOK, SettlingUnderWay, HeldBy, SettleCall, ClaimUnheard, NewRecord,
         Live, Over, Unheard
<1>10. QED BY <1>1, <1>2, <1>3, <1>4, <1>5, <1>6, <1>7, <1>8, <1>9 DEF IInv

\* A repeat's answer is true because the record it comes from is.
LEMMA ClaimExistingKeeps ==
  ASSUME IInv, NEW q \in Requests, ClaimExisting(q)
  PROVE  IInv'
<1>1. TypeOK'
  <2>1. rec[KeyOf[q]] \in Record
    BY KeysAssumption DEF IInv, TypeOK
  <2>2. [pc |-> "done", answer |-> Repeat(q, rec[KeyOf[q]]), from |-> rec[KeyOf[q]].by] \in Request
    BY <2>1, RepeatType DEF Request, Record, Kept
  <2>3. QED BY <2>2 DEF IInv, TypeOK, ClaimExisting
<1>2. RecordsTrue'
  BY RequestsAssumption, KeysAssumption, TimesAssumption
     DEF IInv, TypeOK, RecordsTrue, ClaimExisting, Live
<1>3. IdleIsFresh'
  BY RequestsAssumption, KeysAssumption
     DEF IInv, TypeOK, IdleIsFresh, HeldBy, ClaimExisting, Live
<1>4. SenderHolds'
  BY RequestsAssumption, KeysAssumption, TimesAssumption
     DEF IInv, TypeOK, SenderHolds, HeldBy, ClaimExisting, Live
<1>5. WorkingIsOpen'
  BY RequestsAssumption, KeysAssumption
     DEF IInv, TypeOK, WorkingIsOpen, HeldBy, ClaimExisting, Live
<1>6. CallsTrue'
  BY RequestsAssumption, KeysAssumption DEF IInv, TypeOK, CallsTrue, ClaimExisting, Live
<1>7. OneAnswer'
  BY RequestsAssumption, KeysAssumption
     DEF IInv, TypeOK, OneAnswer, HeldBy, ClaimExisting, Live
<1>8. GivenTrue'
  <2>1. rec[KeyOf[q]] \in Record
    BY KeysAssumption DEF IInv, TypeOK
  <2>2. Repeat(q, rec[KeyOf[q]]) \in Kept \cup Refusals
    BY <2>1, RepeatType
  <2>3. AnswerTrue(q, req[q].from)'
    <3> DEFINE r == rec[KeyOf[q]]
    <3>1. /\ req'[q].answer = Repeat(q, r) /\ req'[q].from = r.by /\ wire' = wire
          /\ r.by # Nobody
      BY DEF IInv, TypeOK, ClaimExisting, Live
    <3>2. r.kept = "ok" => wire[r.by] = "sent"
      BY <3>1, KeysAssumption DEF IInv, RecordsTrue
    <3>3. r.kept \in {"ok", "maybe", "timeout", Pending}
      BY <2>1 DEF Record, Kept, Answers
    <3>4. /\ InputOf[q] # InputOf[r.by] => Repeat(q, r) = "reused"
          /\ InputOf[q] = InputOf[r.by] =>
               Repeat(q, r) \in {r.kept, "in_progress", "outcome_unknown"} \ {Pending}
      BY <3>3 DEF Repeat, Pending
    <3> HIDE DEF r
    <3> QED
      BY <3>1, <3>2, <3>3, <3>4 DEF AnswerTrue, Answers, Pending
  <2>4. ASSUME NEW p \in Requests, p # q, req[p].pc \in {"settling", "done"},
               req[p].from # Nobody
        PROVE  AnswerTrue(p, req[p].from)'
    BY <2>4 DEF IInv, TypeOK, GivenTrue, AnswerTrue, ClaimExisting
  <2>5. QED BY <2>3, <2>4 DEF IInv, TypeOK, GivenTrue, ClaimExisting
<1>9. SettlingUnderWay'
  BY RequestsAssumption, KeysAssumption
     DEF IInv, TypeOK, SettlingUnderWay, HeldBy, SettleCall, ClaimExisting, Live
<1>10. QED BY <1>1, <1>2, <1>3, <1>4, <1>5, <1>6, <1>7, <1>8, <1>9 DEF IInv

\* A call keeps what is true of its request.
LEMMA CompleteKeeps ==
  ASSUME IInv, NEW c \in calls, Complete(c)
  PROVE  IInv'
<1>1. TypeOK'
  <2>1. rec' \in [Keys -> Record]
    BY CallIsSettleCall, KeysAssumption DEF IInv, TypeOK, Complete, Settle, HeldBy, Record, Kept
  <2>2. QED BY <2>1 DEF IInv, TypeOK, Complete
<1>2. RecordsTrue'
  BY RequestsAssumption, KeysAssumption
     DEF IInv, TypeOK, RecordsTrue, CallsTrue, HeldBy, Call, Complete, Settle
<1>3. IdleIsFresh'
  BY RequestsAssumption, KeysAssumption
     DEF IInv, TypeOK, IdleIsFresh, Call, HeldBy, Complete, Settle
<1>4. SenderHolds'
  BY RequestsAssumption, KeysAssumption
     DEF IInv, TypeOK, SenderHolds, Call, HeldBy, Complete, Settle
<1>5. WorkingIsOpen'
  BY RequestsAssumption, KeysAssumption
     DEF IInv, TypeOK, WorkingIsOpen, CallsTrue, Call, HeldBy, Complete, Settle
<1>6. CallsTrue'
  BY RequestsAssumption, KeysAssumption DEF IInv, TypeOK, CallsTrue, Complete, Settle
<1>7. OneAnswer'
  BY RequestsAssumption, KeysAssumption
     DEF IInv, TypeOK, OneAnswer, Call, Pending, HeldBy, Complete, Settle
<1>8. GivenTrue'
  BY RequestsAssumption, KeysAssumption
     DEF IInv, TypeOK, GivenTrue, AnswerTrue, Complete, Settle
<1>9. SettlingUnderWay'
  <2> SUFFICES ASSUME NEW q \in Requests, HeldBy(q)', rec'[KeyOf[q]].kept = Pending
               PROVE  \/ q \in failed \/ req[q].pc \in {"running", "unheard"}
                      \/ \E a \in Answers : SettleCall(q, a) \in calls'
    BY DEF SettlingUnderWay, Complete
  <2>1. q # c.by
    BY CallIsSettleCall, KeysAssumption DEF IInv, TypeOK, Complete, Settle, HeldBy, Answers, Pending
  <2>2. HeldBy(q) /\ rec[KeyOf[q]].kept = Pending
    BY <2>1, CallIsSettleCall, KeysAssumption
       DEF IInv, TypeOK, Complete, Settle, HeldBy, Answers, Pending
  <2>3. \A a \in Answers : SettleCall(q, a) # c
    BY <2>1 DEF SettleCall
  <2>4. QED BY <2>2, <2>3 DEF IInv, SettlingUnderWay, Complete
<1>10. QED BY <1>1, <1>2, <1>3, <1>4, <1>5, <1>6, <1>7, <1>8, <1>9 DEF IInv

\* A key is released only by a request that sent nothing.
LEMMA ReleaseKeyKeeps ==
  ASSUME IInv, NEW c \in calls, ReleaseKey(c)
  PROVE  IInv'
<1>1. TypeOK'
  BY NoRecordType, CallIsSettleCall, KeysAssumption DEF IInv, TypeOK, ReleaseKey, Settle
<1>2. RecordsTrue'
  BY RequestsAssumption, KeysAssumption
     DEF IInv, TypeOK, RecordsTrue, HeldBy, Call, ReleaseKey, Settle, NoRecord
<1>3. IdleIsFresh'
  BY RequestsAssumption, KeysAssumption
     DEF IInv, TypeOK, IdleIsFresh, Call, HeldBy, ReleaseKey, Settle, NoRecord
<1>4. SenderHolds'
  BY RequestsAssumption, KeysAssumption
     DEF IInv, TypeOK, SenderHolds, CallsTrue, Call, HeldBy, ReleaseKey, Settle,
         NoRecord
<1>5. WorkingIsOpen'
  BY RequestsAssumption, KeysAssumption
     DEF IInv, TypeOK, WorkingIsOpen, Call, HeldBy, ReleaseKey, Settle, NoRecord
<1>6. CallsTrue'
  BY RequestsAssumption, KeysAssumption
     DEF IInv, TypeOK, CallsTrue, ReleaseKey, Settle, NoRecord
<1>7. OneAnswer'
  BY RequestsAssumption, KeysAssumption
     DEF IInv, TypeOK, OneAnswer, Call, Pending, HeldBy, ReleaseKey, Settle, NoRecord
<1>8. GivenTrue'
  BY RequestsAssumption, KeysAssumption
     DEF IInv, TypeOK, GivenTrue, AnswerTrue, ReleaseKey, Settle, NoRecord
<1>9. SettlingUnderWay'
  <2> SUFFICES ASSUME NEW q \in Requests, HeldBy(q)', rec'[KeyOf[q]].kept = Pending
               PROVE  \/ q \in failed \/ req[q].pc \in {"running", "unheard"}
                      \/ \E a \in Answers : SettleCall(q, a) \in calls'
    BY DEF SettlingUnderWay, ReleaseKey
  <2>1. q # c.by
    BY CallIsSettleCall, RequestsAssumption, KeysAssumption
       DEF IInv, TypeOK, ReleaseKey, Settle, HeldBy, NoRecord
  <2>2. HeldBy(q) /\ rec[KeyOf[q]].kept = Pending
    BY <2>1, CallIsSettleCall, RequestsAssumption, KeysAssumption
       DEF IInv, TypeOK, ReleaseKey, Settle, HeldBy, NoRecord
  <2>3. \A a \in Answers : SettleCall(q, a) # c
    BY <2>1 DEF SettleCall
  <2>4. QED BY <2>2, <2>3 DEF IInv, SettlingUnderWay, ReleaseKey
<1>10. QED BY <1>1, <1>2, <1>3, <1>4, <1>5, <1>6, <1>7, <1>8, <1>9 DEF IInv

\* A call less, of a request that failed.
LEMMA CallFailsKeeps ==
  ASSUME IInv, NEW c \in calls, CallFails(c)
  PROVE  IInv'
<1>1. TypeOK'
  BY CallIsSettleCall DEF IInv, TypeOK, CallFails, Fails
<1>2. RecordsTrue'
  BY RequestsAssumption, KeysAssumption DEF IInv, TypeOK, RecordsTrue, CallFails, Fails
<1>3. IdleIsFresh'
  BY RequestsAssumption, KeysAssumption
     DEF IInv, TypeOK, IdleIsFresh, HeldBy, CallFails, Fails
<1>4. SenderHolds'
  BY RequestsAssumption, KeysAssumption
     DEF IInv, TypeOK, SenderHolds, HeldBy, CallFails, Fails
<1>5. WorkingIsOpen'
  BY RequestsAssumption, KeysAssumption
     DEF IInv, TypeOK, WorkingIsOpen, HeldBy, CallFails, Fails
<1>6. CallsTrue'
  BY RequestsAssumption, KeysAssumption DEF IInv, TypeOK, CallsTrue, CallFails, Fails
<1>7. OneAnswer'
  BY RequestsAssumption, KeysAssumption
     DEF IInv, TypeOK, OneAnswer, HeldBy, CallFails, Fails
<1>8. GivenTrue'
  BY RequestsAssumption, KeysAssumption
     DEF IInv, TypeOK, GivenTrue, AnswerTrue, CallFails, Fails
<1>9. SettlingUnderWay'
  <2>1. ASSUME NEW q \in Requests, q # c.by, NEW a \in Answers
        PROVE  SettleCall(q, a) # c
    BY <2>1 DEF SettleCall
  <2>2. QED BY <2>1, CallIsSettleCall DEF IInv, TypeOK, SettlingUnderWay, HeldBy, CallFails, Fails
<1>10. QED BY <1>1, <1>2, <1>3, <1>4, <1>5, <1>6, <1>7, <1>8, <1>9 DEF IInv

\* What is purged had run out.
LEMMA PurgeKeeps ==
  ASSUME IInv, Purge
  PROVE  IInv'
<1>1. TypeOK'
  BY NoRecordType DEF IInv, TypeOK, Purge
<1>2. RecordsTrue'
  BY RequestsAssumption, KeysAssumption, TimesAssumption
     DEF IInv, TypeOK, RecordsTrue, Purge, Live, NoRecord
<1>3. IdleIsFresh'
  BY RequestsAssumption, KeysAssumption
     DEF IInv, TypeOK, IdleIsFresh, HeldBy, Purge, Live, NoRecord
<1>4. SenderHolds'
  BY RequestsAssumption, KeysAssumption, TimesAssumption
     DEF IInv, TypeOK, SenderHolds, RecordsTrue, Record, HeldBy, Purge, Live, NoRecord
<1>5. WorkingIsOpen'
  BY RequestsAssumption, KeysAssumption
     DEF IInv, TypeOK, WorkingIsOpen, HeldBy, Purge, Live, NoRecord
<1>6. CallsTrue'
  BY RequestsAssumption, KeysAssumption
     DEF IInv, TypeOK, CallsTrue, Purge, Live, NoRecord
<1>7. OneAnswer'
  BY RequestsAssumption, KeysAssumption
     DEF IInv, TypeOK, OneAnswer, Call, Pending, HeldBy, Purge, Live, NoRecord
<1>8. GivenTrue'
  BY RequestsAssumption, KeysAssumption
     DEF IInv, TypeOK, GivenTrue, AnswerTrue, Purge, Live, NoRecord
<1>9. SettlingUnderWay'
  BY RequestsAssumption, KeysAssumption
     DEF IInv, TypeOK, SettlingUnderWay, HeldBy, SettleCall, Purge, Live, NoRecord
<1>10. QED BY <1>1, <1>2, <1>3, <1>4, <1>5, <1>6, <1>7, <1>8, <1>9 DEF IInv

\* A record keeps its request and its answer; its request is in "over" once it runs out.
LEMMA TickKeeps ==
  ASSUME IInv, Tick
  PROVE  IInv'
<1>0. \A k \in Keys : /\ rec'[k].by = rec[k].by /\ rec'[k].kept = rec[k].kept
                      /\ rec'[k].ttl = IF rec[k].ttl > 0 THEN rec[k].ttl - 1 ELSE 0
  BY DEF IInv, TypeOK, Tick, Record
<1>1. TypeOK'
  <2>1. rec' \in [Keys -> Record]
    <3>1. ASSUME NEW k \in Keys
          PROVE  [rec[k] EXCEPT !.lease = IF @ > 0 THEN @ - 1 ELSE 0,
                                !.ttl = IF @ > 0 THEN @ - 1 ELSE 0] \in Record
      <4>1. rec[k] \in Record
        BY DEF IInv, TypeOK
      <4>2. \A n \in Nat : \A i \in 0..n : (IF i > 0 THEN i - 1 ELSE 0) \in 0..n
        OBVIOUS
      <4>3. QED BY <4>1, <4>2, TimesAssumption DEF Record
    <3>2. QED BY <3>1 DEF Tick
  <2>2. QED BY <2>1 DEF IInv, TypeOK, Tick
<1>2. RecordsTrue'
  <2> SUFFICES ASSUME NEW k \in Keys, rec'[k].by # Nobody
               PROVE  /\ KeyOf[rec'[k].by] = k
                      /\ rec'[k].by \in over' <=> rec'[k].ttl = 0
                      /\ rec'[k].kept = "ok" => wire'[rec'[k].by] = "sent"
    BY DEF RecordsTrue
  <2>1. rec[k].by \in Requests /\ rec[k].ttl \in Nat
    BY <1>0, TimesAssumption DEF IInv, TypeOK, Record
  <2>2. KeyOf[rec[k].by] = k /\ (rec[k].by \in over <=> rec[k].ttl = 0)
    BY <1>0 DEF IInv, RecordsTrue
  <2>3. rec[k].by \in over' <=> rec[k].by \in over \/ rec[k].ttl = 1
    BY <2>1, <2>2 DEF Tick, HeldBy
  <2>4. rec'[k].ttl = 0 <=> rec[k].ttl = 0 \/ rec[k].ttl = 1
    BY <1>0, <2>1
  <2>5. QED BY <1>0, <2>2, <2>3, <2>4 DEF IInv, RecordsTrue, Tick
<1>3. IdleIsFresh'
  BY <1>0, RequestsAssumption, KeysAssumption DEF IInv, TypeOK, IdleIsFresh, HeldBy, Tick
<1>4. SenderHolds'
  BY <1>0, RequestsAssumption, KeysAssumption DEF IInv, TypeOK, SenderHolds, HeldBy, Tick
<1>5. WorkingIsOpen'
  <2> SUFFICES ASSUME NEW q \in Requests, req[q].pc = "running"
               PROVE  /\ \A c \in calls : c.by # q
                      /\ rec'[KeyOf[q]].by = q => rec'[KeyOf[q]].kept = Pending
    BY DEF WorkingIsOpen, HeldBy, Tick
  <2>1. QED BY <1>0, KeysAssumption DEF IInv, WorkingIsOpen, HeldBy
<1>6. CallsTrue'
  BY DEF IInv, CallsTrue, Tick
<1>7. OneAnswer'
  BY <1>0, RequestsAssumption, KeysAssumption DEF IInv, TypeOK, OneAnswer, HeldBy, Tick, Call
<1>8. GivenTrue'
  BY DEF IInv, GivenTrue, AnswerTrue, Tick
<1>9. SettlingUnderWay'
  BY <1>0, RequestsAssumption, KeysAssumption DEF IInv, TypeOK, SettlingUnderWay, HeldBy, Tick
<1>10. QED BY <1>1, <1>2, <1>3, <1>4, <1>5, <1>6, <1>7, <1>8, <1>9 DEF IInv

\* Only a request at work sends.
LEMMA SendMessageKeeps ==
  ASSUME IInv, NEW q \in Requests, SendMessage(q)
  PROVE  IInv'
<1>1. TypeOK'
  BY DEF IInv, TypeOK, SendMessage
<1>2. RecordsTrue'
  BY RequestsAssumption, KeysAssumption DEF IInv, TypeOK, RecordsTrue, SendMessage
<1>3. IdleIsFresh'
  BY RequestsAssumption, KeysAssumption
     DEF IInv, TypeOK, IdleIsFresh, HeldBy, SendMessage
<1>4. SenderHolds'
  BY RequestsAssumption, KeysAssumption
     DEF IInv, TypeOK, SenderHolds, HeldBy, SendMessage
<1>5. WorkingIsOpen'
  BY RequestsAssumption, KeysAssumption
     DEF IInv, TypeOK, WorkingIsOpen, HeldBy, SendMessage
<1>6. CallsTrue'
  BY RequestsAssumption, KeysAssumption DEF IInv, TypeOK, CallsTrue, SendMessage
<1>7. OneAnswer'
  BY RequestsAssumption, KeysAssumption DEF IInv, TypeOK, OneAnswer, HeldBy, SendMessage
<1>8. GivenTrue'
  BY RequestsAssumption, KeysAssumption
     DEF IInv, TypeOK, GivenTrue, AnswerTrue, SendMessage
<1>9. SettlingUnderWay'
  BY RequestsAssumption, KeysAssumption
     DEF IInv, TypeOK, SettlingUnderWay, HeldBy, SettleCall, SendMessage
<1>10. QED BY <1>1, <1>2, <1>3, <1>4, <1>5, <1>6, <1>7, <1>8, <1>9 DEF IInv

\* A message that arrives was on its way.
LEMMA MetaActsKeeps ==
  ASSUME IInv, NEW q \in Requests, NEW how \in {"sent", "refused"}, MetaActs(q, how)
  PROVE  IInv'
<1>1. TypeOK'
  BY DEF IInv, TypeOK, MetaActs
<1>2. RecordsTrue'
  BY RequestsAssumption, KeysAssumption DEF IInv, TypeOK, RecordsTrue, MetaActs
<1>3. IdleIsFresh'
  BY RequestsAssumption, KeysAssumption DEF IInv, TypeOK, IdleIsFresh, HeldBy, MetaActs
<1>4. SenderHolds'
  BY RequestsAssumption, KeysAssumption DEF IInv, TypeOK, SenderHolds, HeldBy, MetaActs
<1>5. WorkingIsOpen'
  BY RequestsAssumption, KeysAssumption
     DEF IInv, TypeOK, WorkingIsOpen, HeldBy, MetaActs
<1>6. CallsTrue'
  BY RequestsAssumption, KeysAssumption DEF IInv, TypeOK, CallsTrue, MetaActs
<1>7. OneAnswer'
  BY RequestsAssumption, KeysAssumption DEF IInv, TypeOK, OneAnswer, HeldBy, MetaActs
<1>8. GivenTrue'
  BY RequestsAssumption, KeysAssumption
     DEF IInv, TypeOK, GivenTrue, AnswerTrue, MetaActs
<1>9. SettlingUnderWay'
  BY RequestsAssumption, KeysAssumption
     DEF IInv, TypeOK, SettlingUnderWay, HeldBy, SettleCall, MetaActs
<1>10. QED BY <1>1, <1>2, <1>3, <1>4, <1>5, <1>6, <1>7, <1>8, <1>9 DEF IInv

\* The first call of a request says what its answer proves.
LEMMA OperationEndsKeeps ==
  ASSUME IInv, NEW q \in Requests, NEW a \in Answers, OperationEnds(q, a)
  PROVE  IInv'
<1>1. TypeOK'
  BY RequestType DEF IInv, TypeOK, OperationEnds
<1>2. RecordsTrue'
  BY RequestsAssumption, KeysAssumption
     DEF IInv, TypeOK, RecordsTrue, OperationEnds, Proves, SettleCall
<1>3. IdleIsFresh'
  BY RequestsAssumption, KeysAssumption
     DEF IInv, TypeOK, IdleIsFresh, HeldBy, OperationEnds, Proves, SettleCall
<1>4. SenderHolds'
  BY RequestsAssumption, KeysAssumption
     DEF IInv, TypeOK, SenderHolds, HeldBy, OperationEnds, Proves, SettleCall
<1>5. WorkingIsOpen'
  BY RequestsAssumption, KeysAssumption
     DEF IInv, TypeOK, WorkingIsOpen, HeldBy, OperationEnds, Proves, SettleCall
<1>6. CallsTrue'
  BY RequestsAssumption, KeysAssumption
     DEF IInv, TypeOK, CallsTrue, OperationEnds, Proves, SettleCall
<1>7. OneAnswer'
  <2>1. \A c \in calls : c.by # q
    BY DEF IInv, WorkingIsOpen, OperationEnds
  <2>2. HeldBy(q) => rec[KeyOf[q]].kept = Pending
    BY DEF IInv, WorkingIsOpen, OperationEnds
  <2>3. QED BY <2>1, <2>2, KeysAssumption
               DEF IInv, TypeOK, OneAnswer, HeldBy, OperationEnds, SettleCall
<1>8. GivenTrue'
  BY RequestsAssumption, KeysAssumption
     DEF IInv, TypeOK, GivenTrue, AnswerTrue, OperationEnds, Proves, SettleCall
<1>9. SettlingUnderWay'
  BY RequestsAssumption, KeysAssumption
     DEF IInv, TypeOK, SettlingUnderWay, HeldBy, SettleCall, OperationEnds, Proves
<1>10. QED BY <1>1, <1>2, <1>3, <1>4, <1>5, <1>6, <1>7, <1>8, <1>9 DEF IInv

\* The request leaves its answer as it settled it.
LEMMA SettledKeeps ==
  ASSUME IInv, NEW q \in Requests, Settled(q)
  PROVE  IInv'
<1>1. TypeOK'
  BY DEF IInv, TypeOK, Settled, Request
<1>2. RecordsTrue'
  BY RequestsAssumption, KeysAssumption DEF IInv, TypeOK, RecordsTrue, Settled
<1>3. IdleIsFresh'
  BY RequestsAssumption, KeysAssumption DEF IInv, TypeOK, IdleIsFresh, HeldBy, Settled
<1>4. SenderHolds'
  BY RequestsAssumption, KeysAssumption DEF IInv, TypeOK, SenderHolds, HeldBy, Settled
<1>5. WorkingIsOpen'
  BY RequestsAssumption, KeysAssumption DEF IInv, TypeOK, WorkingIsOpen, HeldBy, Settled
<1>6. CallsTrue'
  BY RequestsAssumption, KeysAssumption DEF IInv, TypeOK, CallsTrue, Settled
<1>7. OneAnswer'
  BY RequestsAssumption, KeysAssumption DEF IInv, TypeOK, OneAnswer, HeldBy, Settled
<1>8. GivenTrue'
  BY RequestsAssumption, KeysAssumption DEF IInv, TypeOK, GivenTrue, AnswerTrue, Settled
<1>9. SettlingUnderWay'
  BY RequestsAssumption, KeysAssumption
     DEF IInv, TypeOK, SettlingUnderWay, HeldBy, SettleCall, Settled
<1>10. QED BY <1>1, <1>2, <1>3, <1>4, <1>5, <1>6, <1>7, <1>8, <1>9 DEF IInv

\* A cut adds a call that claims nothing.
LEMMA CutKeeps ==
  ASSUME IInv, NEW q \in Requests, Cut(q)
  PROVE  IInv'
<1>1. TypeOK'
  BY RequestType DEF IInv, TypeOK, Cut, Answers
<1>2. RecordsTrue'
  BY RequestsAssumption, KeysAssumption
     DEF IInv, TypeOK, RecordsTrue, Cut, Over, SettleCall
<1>3. IdleIsFresh'
  BY RequestsAssumption, KeysAssumption
     DEF IInv, TypeOK, IdleIsFresh, HeldBy, Cut, Over, SettleCall
<1>4. SenderHolds'
  BY RequestsAssumption, KeysAssumption
     DEF IInv, TypeOK, SenderHolds, HeldBy, Cut, Over, SettleCall
<1>5. WorkingIsOpen'
  BY RequestsAssumption, KeysAssumption
     DEF IInv, TypeOK, WorkingIsOpen, HeldBy, Cut, Over, SettleCall
<1>6. CallsTrue'
  BY RequestsAssumption, KeysAssumption
     DEF IInv, TypeOK, CallsTrue, Cut, Over, SettleCall
<1>7. OneAnswer'
  BY RequestsAssumption, KeysAssumption
     DEF IInv, TypeOK, OneAnswer, HeldBy, Cut, Over, SettleCall
<1>8. GivenTrue'
  BY RequestsAssumption, KeysAssumption
     DEF IInv, TypeOK, GivenTrue, AnswerTrue, Cut, Over, SettleCall
<1>9. SettlingUnderWay'
  BY RequestsAssumption, KeysAssumption
     DEF IInv, TypeOK, SettlingUnderWay, Answers, HeldBy, SettleCall, Cut, Over
<1>10. QED BY <1>1, <1>2, <1>3, <1>4, <1>5, <1>6, <1>7, <1>8, <1>9 DEF IInv

\* The request failed.
LEMMA CrashKeeps ==
  ASSUME IInv, NEW q \in Requests, Crash(q)
  PROVE  IInv'
<1>1. TypeOK'
  BY RequestType DEF IInv, TypeOK, Crash, Fails, Answers
<1>2. RecordsTrue'
  BY RequestsAssumption, KeysAssumption
     DEF IInv, TypeOK, RecordsTrue, Crash, Over, Fails
<1>3. IdleIsFresh'
  BY RequestsAssumption, KeysAssumption
     DEF IInv, TypeOK, IdleIsFresh, HeldBy, Crash, Over, Fails
<1>4. SenderHolds'
  BY RequestsAssumption, KeysAssumption
     DEF IInv, TypeOK, SenderHolds, HeldBy, Crash, Over, Fails
<1>5. WorkingIsOpen'
  BY RequestsAssumption, KeysAssumption
     DEF IInv, TypeOK, WorkingIsOpen, HeldBy, Crash, Over, Fails
<1>6. CallsTrue'
  BY RequestsAssumption, KeysAssumption DEF IInv, TypeOK, CallsTrue, Crash, Over, Fails
<1>7. OneAnswer'
  BY RequestsAssumption, KeysAssumption
     DEF IInv, TypeOK, OneAnswer, HeldBy, Crash, Over, Fails
<1>8. GivenTrue'
  BY RequestsAssumption, KeysAssumption
     DEF IInv, TypeOK, GivenTrue, AnswerTrue, Crash, Over, Fails
<1>9. SettlingUnderWay'
  BY RequestsAssumption, KeysAssumption
     DEF IInv, TypeOK, SettlingUnderWay, HeldBy, SettleCall, Crash, Over, Fails
<1>10. QED BY <1>1, <1>2, <1>3, <1>4, <1>5, <1>6, <1>7, <1>8, <1>9 DEF IInv

\* What a step may be.
LEMMA NextInv == IInv /\ [Next]_vars => IInv'
<1> SUFFICES ASSUME IInv, [Next]_vars PROVE IInv'
  OBVIOUS
<1>1. CASE Tick \/ Purge
  BY <1>1, TickKeeps, PurgeKeeps
<1>2. ASSUME NEW q \in Requests, Claim(q) PROVE IInv'
  BY <1>2, ClaimFreeKeeps, ClaimUnheardKeeps, ClaimExistingKeeps DEF Claim
<1>3. ASSUME NEW q \in Requests, StoreActs(q) PROVE IInv'
  BY <1>3, CompleteKeeps, ReleaseKeyKeeps DEF StoreActs
<1>4. ASSUME NEW q \in Requests, Runs(q) PROVE IInv'
  BY <1>4, SendMessageKeeps, SettledKeeps, OperationEndsKeeps DEF Runs
<1>5. ASSUME NEW q \in Requests, NEW how \in {"sent", "refused"}, MetaActs(q, how) PROVE IInv'
  BY <1>5, MetaActsKeeps
<1>6. ASSUME NEW q \in Requests, Cut(q) \/ Crash(q) PROVE IInv'
  BY <1>6, CutKeeps, CrashKeeps
<1>7. ASSUME NEW c \in calls, CallFails(c) PROVE IInv'
  BY <1>7, CallFailsKeeps
<1>8. CASE UNCHANGED vars
  BY <1>8 DEF vars, IInv, TypeOK, RecordsTrue, IdleIsFresh, SenderHolds, WorkingIsOpen, CallsTrue,
              OneAnswer, GivenTrue, AnswerTrue, SettlingUnderWay, HeldBy
<1>9. QED BY <1>1, <1>2, <1>3, <1>4, <1>5, <1>6, <1>7, <1>8 DEF Next

LEMMA InvHolds == Spec => []IInv
<1>1. QED BY InitInv, NextInv, PTL DEF Spec

-----------------------------------------------------------------------------
(* The theorems.                                                           *)

\* Every variable keeps its type, in every behaviour of the protocol.
THEOREM TypeCorrect == Spec => []TypeOK
<1>1. IInv => TypeOK
  BY DEF IInv
<1>2. QED BY <1>1, InvHolds, PTL

\* For any number of requests and keys, whatever is cut, lost, late or dead:
\* Meta acts on at most one of the requests that carry a key until the record
\* of one it acted on has expired.  Two that both had their message sent both
\* hold the key, which has one holder.
THEOREM SentOnce == Spec => []AtMostOneSend
<1>1. IInv => AtMostOneSend
  BY DEF IInv, SenderHolds, AtMostOneSend, HeldBy
<1>2. QED BY <1>1, InvHolds, PTL

\* Every answer given, a repeat's from the record too, is true of what Meta
\* did and of the input it was asked with.
THEOREM AnswersAreTrue == Spec => []AnswersTrue
<1>1. IInv => AnswersTrue
  BY DEF IInv, GivenTrue, AnswerTrue, AnswersTrue
<1>2. QED BY <1>1, InvHolds, PTL

\* A key without an answer has its request at work or a call under way that
\* settles it, with two exceptions: the request's process stopped or its
\* settling call failed, and the request was gone (a plain cut included)
\* before it heard of its claim.
THEOREM NoKeyLeftBehind == Spec => []SettlingUnderWay
<1>1. IInv => SettlingUnderWay
  BY DEF IInv
<1>2. QED BY <1>1, InvHolds, PTL

\* A kept answer is replaced only where a cut's timeout and the answer of
\* the same request meet.
THEOREM KeptIsStable == Spec => KeptChangesByCut
<1> DEFINE Stable(k) ==
      rec'[k].by = rec[k].by /\ Pending \notin {rec[k].kept, rec'[k].kept}
        => rec'[k].kept = rec[k].kept \/ "timeout" \in {rec[k].kept, rec'[k].kept}
<1>1. ASSUME IInv, [Next]_vars, NEW k \in Keys PROVE Stable(k)
  <2>1. ASSUME NEW c \in calls, Complete(c) PROVE Stable(k)
    <3>1. c \in Call
      BY <1>1 DEF IInv, TypeOK
    <3>2. HeldBy(c.by) => rec[KeyOf[c.by]].kept \in {Pending, "timeout", c.answer}
                            \/ c.answer = "timeout"
      BY <1>1, <2>1 DEF IInv, OneAnswer
    <3>3. QED BY <1>1, <2>1, <3>1, <3>2, CallIsSettleCall, KeysAssumption
                DEF IInv, TypeOK, Complete, Settle, Record
  <2>2. ASSUME NEW c \in calls, ReleaseKey(c) PROVE Stable(k)
    BY <1>1, <2>2, CallIsSettleCall, KeysAssumption DEF IInv, TypeOK, ReleaseKey, Settle, NoRecord
  <2>3. ASSUME NEW q \in Requests, ClaimFree(q) \/ ClaimUnheard(q) PROVE Stable(k)
    BY <1>1, <2>3, KeysAssumption DEF IInv, TypeOK, ClaimFree, ClaimUnheard, NewRecord
  <2>4. CASE Purge
    BY <1>1, <2>4 DEF Purge, NoRecord
  <2>5. CASE Tick
    BY <1>1, <2>5 DEF IInv, TypeOK, Tick, Record
  <2>6. CASE UNCHANGED rec
    BY <2>6
  <2>7. QED
    BY <1>1, <2>1, <2>2, <2>3, <2>4, <2>5, <2>6
       DEF Next, vars, Claim, ClaimExisting, StoreActs, Runs, SendMessage, Settled, OperationEnds,
           MetaActs, Cut, Crash, CallFails
<1>2. IInv /\ [Next]_vars => [\A k \in Keys : Stable(k)]_vars
  BY <1>1
<1>3. QED BY <1>2, InvHolds, PTL DEF Spec, KeptChangesByCut

-----------------------------------------------------------------------------
(* The protocol implements OncePerKey.                                     *)

\* Where a key's record has run out, or there is none, the key is free.
LEMMA FreeIsNotLive ==
  ASSUME IInv, NEW k \in Keys
  PROVE  Once!Free(k) <=> ~Live(k)
BY RequestsAssumption, TimesAssumption DEF IInv, TypeOK, RecordsTrue, Once!Free, Live, Record

LEMMA OnceInit == Init => Once!Init
BY DEF Init, Once!Init, NoRecord, Pending

LEMMA OnceAdmits ==
  ASSUME IInv, NEW q \in Requests, ClaimFree(q) \/ ClaimUnheard(q)
  PROVE  Once!Next
<1>1. KeyOf[q] \in Keys /\ Once!Free(KeyOf[q])
  BY FreeIsNotLive, KeysAssumption DEF ClaimFree, ClaimUnheard
<1>2. rec' = [rec EXCEPT ![KeyOf[q]] = NewRecord(q)] /\ UNCHANGED <<wire, over>>
  BY DEF ClaimFree, ClaimUnheard
<1>3. Once!Admit(q)
  BY <1>1, <1>2 DEF IInv, TypeOK, Once!Admit, NewRecord
<1>4. QED BY <1>3 DEF Once!Next

LEMMA OnceSends ==
  ASSUME IInv, NEW q \in Requests, NEW how \in {"sent", "refused"}, MetaActs(q, how)
  PROVE  [Once!Next]_Once!vars
<1>1. CASE how = "sent"
  <2>1. {p \in Requests : wire'[p] = "sent"} = {p \in Requests : wire[p] = "sent"} \cup {q}
    BY <1>1 DEF IInv, TypeOK, MetaActs
  <2>2. rec[KeyOf[q]].by = q \/ q \in over
    BY DEF IInv, SenderHolds, MetaActs, HeldBy
  <2>3. Once!Send(q)
    BY <2>1, <2>2, KeysAssumption DEF Once!Send, MetaActs
  <2>4. QED BY <2>3 DEF Once!Next
<1>2. CASE how = "refused"
  <2>1. {p \in Requests : wire'[p] = "sent"} = {p \in Requests : wire[p] = "sent"}
    BY <1>2 DEF IInv, TypeOK, MetaActs
  <2>2. QED BY <2>1 DEF MetaActs, Once!vars
<1>3. QED BY <1>1, <1>2

LEMMA OnceKeeps ==
  ASSUME IInv, NEW c \in calls, Complete(c)
  PROVE  [Once!Next]_Once!vars
<1> DEFINE k == KeyOf[c.by]
<1>1. c.by \in Requests /\ c.answer \in Kept /\ k \in Keys
  BY CallIsSettleCall, KeysAssumption DEF IInv, TypeOK, Complete, Kept
<1>2. CASE HeldBy(c.by)
  <2>1. rec' = [rec EXCEPT ![k] = [rec[k] EXCEPT !.kept = c.answer]]
    BY <1>2 DEF Complete, Settle
  <2>2. rec[k].by = c.by /\ c.by # Nobody /\ (c.answer = "ok" => wire[c.by] = "sent")
    BY <1>1, <1>2, RequestsAssumption DEF IInv, CallsTrue, HeldBy
  <2>3. Once!Keep(k, c.answer)
    BY <1>1, <2>1, <2>2 DEF IInv, TypeOK, Record, Once!Keep, Complete
  <2>4. QED BY <1>1, <2>3 DEF Once!Next
<1>3. CASE ~HeldBy(c.by)
  BY <1>3 DEF Complete, Settle, Once!vars
<1>4. QED BY <1>2, <1>3

LEMMA OnceReleases ==
  ASSUME IInv, NEW c \in calls, ReleaseKey(c)
  PROVE  [Once!Next]_Once!vars
<1> DEFINE k == KeyOf[c.by]
<1>1. c.by \in Requests /\ k \in Keys
  BY CallIsSettleCall, KeysAssumption DEF IInv, TypeOK
<1>2. CASE HeldBy(c.by)
  <2>1. rec' = [rec EXCEPT ![k] = NoRecord]
    BY <1>2 DEF ReleaseKey, Settle
  <2>2. rec[k].by = c.by /\ wire[c.by] # "sent"
    BY <1>2 DEF IInv, CallsTrue, HeldBy, ReleaseKey
  <2>3. Once!Release(k)
    BY <1>1, <2>1, <2>2 DEF IInv, TypeOK, NoRecord, Once!Release, ReleaseKey
  <2>4. QED BY <1>1, <2>3 DEF Once!Next
<1>3. CASE ~HeldBy(c.by)
  BY <1>3 DEF ReleaseKey, Settle, Once!vars
<1>4. QED BY <1>2, <1>3

LEMMA OncePurges ==
  ASSUME IInv, Purge
  PROVE  Once!Next
<1>1. Once!Purge
  BY FreeIsNotLive DEF Once!Purge, Purge, NoRecord
<1>2. QED BY <1>1 DEF Once!Next

LEMMA OnceExpires ==
  ASSUME IInv, Tick
  PROVE  Once!Next
<1>1. \A k \in Keys : rec'[k].by = rec[k].by /\ rec'[k].kept = rec[k].kept
  <2> TAKE k \in Keys
  <2>1. rec[k] \in Record
    BY DEF IInv, TypeOK
  <2>2. PICK l, x : rec'[k] = [rec[k] EXCEPT !.lease = l, !.ttl = x]
    BY DEF Tick
  <2> QED
    BY <2>1, <2>2 DEF Record
<1>2. over \subseteq over' /\ \A q \in over' \ over : q \in Requests /\ rec[KeyOf[q]].by = q
  BY DEF Tick, HeldBy
<1>3. /\ [k \in Keys |-> rec'[k].by] = [k \in Keys |-> rec[k].by]
      /\ [k \in Keys |-> rec'[k].kept] = [k \in Keys |-> rec[k].kept]
      /\ wire' = wire
  BY <1>1 DEF Tick
<1>4. \A q \in over' \ over : [k \in Keys |-> rec[k].by][KeyOf[q]] = q
  BY <1>2, KeysAssumption
<1>5. Once!Expire
  BY <1>2, <1>3, <1>4 DEF Once!Expire
<1>6. QED BY <1>5 DEF Once!Next

\* Every step of the protocol is a step of OncePerKey or changes nothing of
\* it.
LEMMA OnceNext == IInv /\ [Next]_vars => [Once!Next]_Once!vars
<1> SUFFICES ASSUME IInv, [Next]_vars PROVE [Once!Next]_Once!vars
  OBVIOUS
<1>1. CASE Tick \/ Purge
  BY <1>1, OnceExpires, OncePurges
<1>2. ASSUME NEW q \in Requests, ClaimFree(q) \/ ClaimUnheard(q) PROVE [Once!Next]_Once!vars
  BY <1>2, OnceAdmits
<1>3. ASSUME NEW q \in Requests, StoreActs(q) PROVE [Once!Next]_Once!vars
  BY <1>3, OnceKeeps, OnceReleases DEF StoreActs
<1>4. ASSUME NEW q \in Requests, NEW how \in {"sent", "refused"}, MetaActs(q, how)
      PROVE  [Once!Next]_Once!vars
  BY <1>4, OnceSends
<1>5. ASSUME NEW q \in Requests, SendMessage(q) PROVE [Once!Next]_Once!vars
  <2>1. {p \in Requests : wire'[p] = "sent"} = {p \in Requests : wire[p] = "sent"}
    BY <1>5 DEF IInv, TypeOK, SendMessage
  <2>2. QED BY <1>5, <2>1 DEF SendMessage, Once!vars
<1>6. CASE UNCHANGED <<rec, wire, over>>
  BY <1>6 DEF Once!vars
<1>7. QED
  BY <1>1, <1>2, <1>3, <1>4, <1>5, <1>6
     DEF Next, vars, Claim, ClaimExisting, Runs, Settled, OperationEnds, Cut, Crash, CallFails

\* The protocol, with its leases, lost calls, cut requests and crashes,
\* implements what the keys promise a caller.
THEOREM ImplementsOncePerKey == Spec => OncePerKeySpec
<1>1. QED BY OnceInit, OnceNext, InvHolds, PTL DEF Spec, OncePerKeySpec, Once!Spec
=============================================================================
