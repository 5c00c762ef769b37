----------------------------- MODULE DeadLetters ----------------------------
(***************************************************************************)
(* The dead-letter store of meta-whatsapp-webhooks (deadletter.rs): a ring *)
(* of letters in a KvStore, and per contact an index of the letters naming *)
(* them, through which a person's letters are erased.                      *)
(*                                                                         *)
(* Appends, replays and erasures run side by side.  Each step is one store *)
(* call, or the step at which a loop of reads and compare-and-swaps takes  *)
(* effect.  A letter's id and attempts, and an index's ids, are never the  *)
(* same twice, so a swap from a version is a swap from a value here.       *)
(* An index key (a business number and a contact, or no number and a       *)
(* contact) is one member of Contacts.                                     *)
(***************************************************************************)
EXTENDS Naturals

CONSTANTS
  Capacity,     \* DeadLetters::capacity
  Contacts,     \* index keys
  Naming,       \* the sets of index keys an event is indexed under
  Persons,      \* the sets of index keys an erasure goes through
  Appenders,    \* bound: calls of record in progress
  Replays,      \* bound: replays in progress
  MaxId,        \* bound: the last id
  MaxAttempts   \* bound: attempts of a letter

ASSUME CapacityAssumption == Capacity \in Nat \ {0}
ASSUME BoundsAssumption ==
  MaxId \in Nat /\ MaxAttempts \in Nat \ {0}
ASSUME ContactsAssumption ==
  Naming \subseteq SUBSET Contacts /\ Persons \subseteq SUBSET Contacts

VARIABLES
  head,    \* the ring's head: the next id
  ring,    \* ring[s]: the letter in slot s
  index,   \* index[c]: the ids indexed under c
  append,  \* append[a]: where a call of record stands
  replay,  \* replay[y]: where a replay stands
  erase,   \* where an erasure stands
  acked    \* history: the ids record has returned

vars == <<head, ring, index, append, replay, erase, acked>>

Ids == 0..MaxId
Slots == 0..(Capacity - 1)
Slot(id) == id % Capacity

Letter == [id : Ids, contacts : Naming, attempts : 1..MaxAttempts]
NoLetter == [id |-> MaxId + 1, contacts |-> {}, attempts |-> 0]
Kept(id) == ring[Slot(id)].id = id

NoAppend == [pc |-> "idle", letter |-> NoLetter, todo |-> {}]
NoReplay == [pc |-> "idle", letter |-> NoLetter]
NoErase == [pc |-> "idle", todo |-> {}, at |-> {}, read |-> {}, left |-> {},
            must |-> {}]

Init ==
  /\ head = 0
  /\ ring = [s \in Slots |-> NoLetter]
  /\ index = [c \in Contacts |-> {}]
  /\ append = [a \in Appenders |-> NoAppend]
  /\ replay = [y \in Replays |-> NoReplay]
  /\ erase = NoErase
  /\ acked = {}

-----------------------------------------------------------------------------
(* DeadLetters::record                                                     *)

\* next_id
NextId(a, contacts) ==
  LET letter == [id |-> head, contacts |-> contacts, attempts |-> 1]
  IN  /\ append[a].pc = "idle"
      /\ head <= MaxId
      /\ head' = head + 1
      /\ append' = [append EXCEPT ![a] = [pc |-> "put", letter |-> letter,
                                          todo |-> contacts]]
      /\ UNCHANGED <<ring, index, replay, erase, acked>>

\* Mutant of Put: the slot is taken from the head as it is now.
PutAtHead(a) ==
  /\ append[a].pc = "put"
  /\ ring' = [ring EXCEPT ![Slot(head - 1)] = append[a].letter]
  /\ append' = [append EXCEPT ![a].pc = "index"]
  /\ UNCHANGED <<head, index, replay, erase, acked>>

\* The letter takes its slot, whatever is there.
Put(a) ==
  LET letter == append[a].letter
  IN  /\ append[a].pc = "put"
      /\ ring' = [ring EXCEPT ![Slot(letter.id)] = letter]
      /\ append' = [append EXCEPT ![a].pc = "index"]
      /\ UNCHANGED <<head, index, replay, erase, acked>>

\* The call stops, or the store fails, with an id taken and no letter.
StopBeforePut(a) ==
  /\ append[a].pc = "put"
  /\ append' = [append EXCEPT ![a] = NoAppend]
  /\ UNCHANGED <<head, ring, index, replay, erase, acked>>

\* index: the id is added, the ids the ring should have evicted are dropped.
Retained(ids, id) == {old \in ids : old + Capacity > id /\ old # id}

Index(a, c) ==
  LET id == append[a].letter.id
  IN  /\ append[a].pc = "index"
      /\ c \in append[a].todo
      /\ index' = [index EXCEPT ![c] = Retained(@, id) \cup {id}]
      /\ append' = [append EXCEPT ![a].todo = @ \ {c}]
      /\ UNCHANGED <<head, ring, replay, erase, acked>>

\* An index cannot be written: the letter is deleted again, if it is still
\* as it was put and if that does not fail too.  Or the call just stops.
IndexFails(a) ==
  LET letter == append[a].letter
  IN  /\ append[a].pc = "index"
      /\ \/ /\ append[a].todo # {}
            /\ ring[Slot(letter.id)] = letter
            /\ ring' = [ring EXCEPT ![Slot(letter.id)] = NoLetter]
         \/ UNCHANGED ring
      /\ append' = [append EXCEPT ![a] = NoAppend]
      /\ UNCHANGED <<head, index, replay, erase, acked>>

\* Indexed under every contact: the call returns, the event is acknowledged.
Recorded(a) ==
  /\ append[a].pc = "index"
  /\ append[a].todo = {}
  /\ acked' = acked \cup {append[a].letter.id}
  /\ append' = [append EXCEPT ![a] = NoAppend]
  /\ UNCHANGED <<head, ring, index, replay, erase>>

-----------------------------------------------------------------------------
(* DeadLetters::replay, once a letter with content is read, and remove.    *)

ReplayRead(y, id) ==
  /\ replay[y].pc = "idle"
  /\ Kept(id)
  /\ replay' = [replay EXCEPT ![y] = [pc |-> "sink", letter |-> ring[Slot(id)]]]
  /\ UNCHANGED <<head, ring, index, append, erase, acked>>

\* The sink takes the event, refuses it permanently again, or fails.
ReplaySink(y) ==
  /\ replay[y].pc = "sink"
  /\ \/ replay' = [replay EXCEPT ![y].pc = "remove"]
     \/ replay' = [replay EXCEPT ![y].pc = "update"]
     \/ replay' = [replay EXCEPT ![y] = NoReplay]
  /\ UNCHANGED <<head, ring, index, append, erase, acked>>

\* remove_at: the letter, if it is still there, as it is now.
RemoveAt(id) == ring' = IF Kept(id) THEN [ring EXCEPT ![Slot(id)] = NoLetter]
                                    ELSE ring

ReplayRemove(y) ==
  /\ replay[y].pc = "remove"
  /\ RemoveAt(replay[y].letter.id)
  /\ replay' = [replay EXCEPT ![y] = NoReplay]
  /\ UNCHANGED <<head, index, append, erase, acked>>

\* Mutant of ReplayUpdate: the record as it was read is written back.
ReplayUpdateByPut(y) ==
  LET letter == replay[y].letter
  IN  /\ replay[y].pc = "update"
      /\ letter.attempts < MaxAttempts
      /\ ring' = [ring EXCEPT ![Slot(letter.id)] =
                    [letter EXCEPT !.attempts = @ + 1]]
      /\ replay' = [replay EXCEPT ![y] = NoReplay]
      /\ UNCHANGED <<head, index, append, erase, acked>>

\* One more attempt, if the letter is still as it was read.
ReplayUpdate(y) ==
  LET letter == replay[y].letter
      s == Slot(letter.id)
  IN  /\ replay[y].pc = "update"
      /\ letter.attempts < MaxAttempts
      /\ ring' = IF ring[s] = letter
                   THEN [ring EXCEPT ![s].attempts = @ + 1] ELSE ring
      /\ replay' = [replay EXCEPT ![y] = NoReplay]
      /\ UNCHANGED <<head, index, append, erase, acked>>

\* The replay stops, or a store call of it fails.
ReplayFails(y) ==
  /\ replay[y].pc # "idle"
  /\ replay' = [replay EXCEPT ![y] = NoReplay]
  /\ UNCHANGED <<head, ring, index, append, erase, acked>>

\* remove, by hand.  A letter that ages out leaves its slot the same way;
\* an index outlives the letters it lists, and is as good as empty then.
Remove(id) ==
  /\ Kept(id)
  /\ RemoveAt(id)
  /\ UNCHANGED <<head, index, append, replay, erase, acked>>

-----------------------------------------------------------------------------
(* DeadLetters::erase, one index after the other.                          *)

Named(who) == {s \in Slots : ring[s].contacts \cap who # {}}

\* The letters acknowledged by now and naming the person are to go.
EraseBegins(who) ==
  /\ erase.pc = "idle"
  /\ erase' = [NoErase EXCEPT !.pc = "next", !.todo = who,
                 !.must = {ring[s].id : s \in Named(who)} \cap acked]
  /\ UNCHANGED <<head, ring, index, append, replay, acked>>

\* erase_index: the index is read.  "at" holds the one contact in hand.
EraseRead(c) ==
  /\ \/ erase.pc = "next" /\ c \in erase.todo
     \/ erase.pc = "reread" /\ c \in erase.at
  /\ erase' = [erase EXCEPT !.pc = "letters", !.at = {c}, !.todo = @ \ {c},
                            !.read = index[c], !.left = index[c]]
  /\ UNCHANGED <<head, ring, index, append, replay, acked>>

\* A letter of the index goes, if it still is that letter and names c.
EraseLetter(id) ==
  /\ erase.pc = "letters"
  /\ id \in erase.left
  /\ IF erase.at \subseteq ring[Slot(id)].contacts THEN RemoveAt(id)
                                                   ELSE UNCHANGED ring
  /\ erase' = [erase EXCEPT !.left = @ \ {id}]
  /\ UNCHANGED <<head, index, append, replay, acked>>

\* Mutant of EraseIndex: the index goes, whatever it holds by now.
EraseIndexByDelete(c) ==
  /\ erase.pc = "letters" /\ erase.left = {}
  /\ c \in erase.at
  /\ index' = [index EXCEPT ![c] = {}]
  /\ erase' = [erase EXCEPT !.pc = "next", !.at = {}, !.read = {}]
  /\ UNCHANGED <<head, ring, append, replay, acked>>

\* The index goes, unless it was written since it was read; then again.
EraseIndex(c) ==
  /\ erase.pc = "letters" /\ erase.left = {}
  /\ c \in erase.at
  /\ \/ /\ index[c] = erase.read
        /\ index' = [index EXCEPT ![c] = {}]
        /\ erase' = [erase EXCEPT !.pc = "next", !.at = {}, !.read = {}]
     \/ /\ index[c] # erase.read
        /\ erase' = [erase EXCEPT !.pc = "reread"]
        /\ UNCHANGED index
  /\ UNCHANGED <<head, ring, append, replay, acked>>

\* Every index is gone through: the erasure has returned.
EraseReturns ==
  /\ erase.pc = "next" /\ erase.todo = {}
  /\ erase' = [erase EXCEPT !.pc = "done"]
  /\ UNCHANGED <<head, ring, index, append, replay, acked>>

\* A later one may begin; one that stopped half-way is begun again.
EraseEnds ==
  /\ erase.pc # "idle"
  /\ erase' = NoErase
  /\ UNCHANGED <<head, ring, index, append, replay, acked>>

-----------------------------------------------------------------------------
Append(a) == \/ \E contacts \in Naming : NextId(a, contacts)
             \/ Put(a) \/ StopBeforePut(a)
             \/ \E c \in Contacts : Index(a, c)
             \/ IndexFails(a) \/ Recorded(a)

Replay(y) == \/ \E id \in Ids : ReplayRead(y, id)
             \/ ReplaySink(y) \/ ReplayRemove(y) \/ ReplayUpdate(y)
             \/ ReplayFails(y)

Erase == \/ \E who \in Persons : EraseBegins(who)
         \/ \E c \in Contacts : EraseRead(c) \/ EraseIndex(c)
         \/ \E id \in Ids : EraseLetter(id)
         \/ EraseReturns \/ EraseEnds

Next == \/ \E a \in Appenders : Append(a)
        \/ \E y \in Replays : Replay(y)
        \/ \E id \in Ids : Remove(id)
        \/ Erase

Spec == Init /\ [][Next]_vars

-----------------------------------------------------------------------------
(* Properties.                                                             *)

\* Where an append, a replay and an erasure may stand.
AppendStates == [pc : {"idle", "put", "index"}, letter : Letter \cup {NoLetter},
                 todo : SUBSET Contacts]
ReplayStates == [pc : {"idle", "sink", "remove", "update"},
                 letter : Letter \cup {NoLetter}]
EraseStates == [pc : {"idle", "next", "letters", "reread", "done"},
                todo : SUBSET Contacts, at : SUBSET Contacts,
                read : SUBSET Ids, left : SUBSET Ids, must : SUBSET Ids]

\* Every variable has its type, and a letter is in its own slot.
TypeOK ==
  /\ head \in 0..(MaxId + 1)
  /\ ring \in [Slots -> Letter \cup {NoLetter}]
  /\ \A s \in Slots : ring[s] # NoLetter => Slot(ring[s].id) = s
  /\ index \in [Contacts -> SUBSET Ids]
  /\ append \in [Appenders -> AppendStates]
  /\ replay \in [Replays -> ReplayStates]
  /\ erase \in EraseStates
  /\ acked \in SUBSET Ids

\* An append under way is about to put its letter where this one is.
Evicting(id) ==
  \E a \in Appenders : /\ append[a].pc = "put"
                       /\ append[a].letter.id > id
                       /\ Slot(append[a].letter.id) = Slot(id)

\* "DeadLetters::erase removes every letter naming a contact on a number,
\* through the index" (deadletter.rs): when an erasure returns, no letter
\* that was acknowledged before it began and names the person is kept, but
\* for one that the ring is just evicting, whatever appends, replays and
\* failures ran beside it.
EraseComplete ==
  erase.pc = "done" => \A id \in erase.must : Kept(id) => Evicting(id)

\* What an erasure can miss, and no more: a letter that is not among the
\* newest Capacity any more but is still kept, because the append that took
\* the next id of its slot has not put its letter yet, stopped before it did,
\* or put it before this one came late and took its place.  Every other
\* acknowledged letter of the person is gone when the erasure returns,
\* whatever ran or failed beside it, in whichever order letters were put.
EraseMissesOnlyOutrun ==
  erase.pc = "done" =>
    \A id \in erase.must : Kept(id) => id + Capacity < head

\* A letter that was erased, removed, replayed or evicted does not come back:
\* a letter appears in a slot only by the append that took its id, although
\* a replay writes back a record it read before it called the sink.
NoResurrection ==
  [][ \A s \in Slots :
        ring'[s] # NoLetter /\ ring'[s].id # ring[s].id =>
          \E a \in Appenders : append[a].pc = "put" /\ append[a].letter = ring'[s]
    ]_vars
=============================================================================
