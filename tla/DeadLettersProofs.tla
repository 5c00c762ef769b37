------------------------ MODULE DeadLettersProofs ---------------------------
(***************************************************************************)
(* Theorems of DeadLetters, for every capacity, every set of contacts,     *)
(* appends and replays.  A letter comes from the append that took its id   *)
(* and from nowhere else, and an erasure misses only letters older than    *)
(* the newest Capacity ids.                                                *)
(***************************************************************************)
EXTENDS DeadLetters, Integers, TLAPS

\* A call of record is under way.
InFlight(a) == append[a].pc # "idle"

\* An append or a replay under way holds a letter.
HasLetter ==
  /\ \A a \in Appenders : InFlight(a) => append[a].letter \in Letter
  /\ \A y \in Replays : replay[y].pc # "idle" => replay[y].letter \in Letter

\* Ids come from the head, each for one append.
IdsPast ==
  /\ \A a \in Appenders : InFlight(a) => append[a].letter.id < head
  /\ \A s \in Slots : ring[s] # NoLetter => ring[s].id < head
  /\ \A id \in acked : id < head
  /\ \A c \in Contacts : \A id \in index[c] : id < head
  /\ \A id \in erase.read : id < head

OwnIds ==
  \A a, b \in Appenders :
    InFlight(a) /\ InFlight(b) /\ append[a].letter.id = append[b].letter.id => a = b

\* A letter not put yet is in no slot and in no index, now or as an erasure
\* read it, has not been acknowledged, and has all its indexes to come.
Unwritten ==
  \A a \in Appenders :
    append[a].pc = "put" =>
      /\ append[a].letter.contacts \subseteq append[a].todo
      /\ ~Kept(append[a].letter.id)
      /\ append[a].letter.id \notin acked
      /\ \A c \in Contacts : append[a].letter.id \notin index[c]
      /\ append[a].letter.id \notin erase.read

\* A whole ring of ids has been taken after this one.
Doomed(id) == id + Capacity < head

\* An append being indexed: the letter in the ring is its own, and indexed
\* under each contact gone through, unless doomed.
IndexedSoFar ==
  \A a \in Appenders :
    append[a].pc = "index" /\ Kept(append[a].letter.id) =>
      LET letter == append[a].letter
      IN  /\ ring[Slot(letter.id)].contacts = letter.contacts
          /\ ~Doomed(letter.id) =>
               \A c \in letter.contacts \ append[a].todo : letter.id \in index[c]

\* An acknowledged letter is indexed under each contact, unless doomed.
AckedIsIndexed ==
  \A id \in acked :
    Kept(id) /\ ~Doomed(id) => \A c \in ring[Slot(id)].contacts : id \in index[c]

\* The erasure: of the index read, the letters gone through are gone.
Swept ==
  erase.pc \in {"letters", "reread"} =>
    /\ \E c \in Contacts : erase.at = {c}
    /\ erase.pc = "letters" =>
         \A id \in erase.read \ erase.left :
           Kept(id) => ~(erase.at \subseteq ring[Slot(id)].contacts)

\* A letter it is to erase is still to come: through an index to do, or
\* through the letters left of the one in hand.
ToCome(id) ==
  \/ erase.todo \cap ring[Slot(id)].contacts # {}
  \/ /\ erase.pc = "letters"
     /\ erase.at \subseteq ring[Slot(id)].contacts
     /\ id \in erase.left

ErasesAll ==
  /\ erase.must \subseteq acked
  /\ erase.pc = "done" => erase.todo = {}
  /\ erase.pc # "idle" =>
       \A id \in erase.must : Kept(id) /\ ~Doomed(id) => ToCome(id)

IInv == /\ TypeOK /\ HasLetter /\ IdsPast /\ OwnIds /\ Unwritten
        /\ IndexedSoFar /\ AckedIsIndexed /\ Swept /\ ErasesAll

-----------------------------------------------------------------------------
(* Letters, slots and their types.                                         *)

\* A slot is a slot of the ring.
LEMMA SlotType == \A id \in Nat : Slot(id) \in Slots
  BY CapacityAssumption, Z3 DEF Slot, Slots

-----------------------------------------------------------------------------
(* Letters and steps.                                                      *)

\* What a letter is, and that no letter has none's id.
LEMMA LetterFacts ==
  /\ NoLetter \notin Letter /\ NoLetter.id = MaxId + 1 /\ NoLetter.contacts = {}
  /\ \A l \in Letter : /\ l.id \in Ids /\ l.contacts \in Naming
                       /\ l.attempts \in 1..MaxAttempts /\ l.id # MaxId + 1
  /\ Naming \subseteq SUBSET Contacts
  /\ \A id \in Ids : id \in Nat /\ id # MaxId + 1 /\ Slot(id) \in Slots
<1>1. MaxId + 1 \notin Ids /\ Ids \subseteq Nat
  BY BoundsAssumption DEF Ids
<1>2. NoLetter.id = MaxId + 1 /\ NoLetter.contacts = {}
  BY DEF NoLetter
<1>3. \A l \in Letter : /\ l.id \in Ids /\ l.contacts \in Naming
                        /\ l.attempts \in 1..MaxAttempts
  BY DEF Letter
<1> QED
  BY <1>1, <1>2, <1>3, SlotType, ContactsAssumption

\* The types, pointwise.
LEMMA TypeFacts ==
  ASSUME TypeOK
  PROVE  /\ \A a \in Appenders : /\ append[a] \in AppendStates
                                 /\ append[a].pc \in {"idle", "put", "index"}
                                 /\ append[a].letter \in Letter \cup {NoLetter}
                                 /\ append[a].todo \subseteq Contacts
         /\ \A y \in Replays : /\ replay[y] \in ReplayStates
                               /\ replay[y].letter \in Letter \cup {NoLetter}
         /\ \A s \in Slots : /\ ring[s] \in Letter \cup {NoLetter}
                             /\ ring[s].contacts \subseteq Contacts
         /\ head \in Nat
<1>1. /\ \A a \in Appenders : append[a] \in AppendStates
      /\ \A y \in Replays : replay[y] \in ReplayStates
      /\ \A s \in Slots : ring[s] \in Letter \cup {NoLetter}
  BY DEF TypeOK
<1>2. \A x \in AppendStates : /\ x.pc \in {"idle", "put", "index"}
                              /\ x.letter \in Letter \cup {NoLetter}
                              /\ x.todo \subseteq Contacts
  BY DEF AppendStates
<1>3. \A x \in ReplayStates : x.letter \in Letter \cup {NoLetter}
  BY DEF ReplayStates
<1>4. \A l \in Letter \cup {NoLetter} : l.contacts \subseteq Contacts
  BY LetterFacts
<1>5. head \in Nat
  BY BoundsAssumption DEF TypeOK
<1> QED
  BY <1>1, <1>2, <1>3, <1>4, <1>5

\* A step that puts no letter: a slot keeps its letter, or is emptied.
Keeps ==
  \A s \in Slots :
    \/ ring'[s] = NoLetter
    \/ /\ ring[s] # NoLetter /\ ring'[s] # NoLetter
       /\ ring'[s].id = ring[s].id /\ ring'[s].contacts = ring[s].contacts

\* Leaving the ring alone keeps its letters,
LEMMA KeepsSame ==
  ASSUME TypeOK, UNCHANGED ring
  PROVE  Keeps /\ ring' \in [Slots -> Letter \cup {NoLetter}]
  BY DEF Keeps, TypeOK

\* and so does remove_at, which leaves no letter of the id.
LEMMA KeepsRemoved ==
  ASSUME TypeOK, NEW id \in Ids, RemoveAt(id)
  PROVE  Keeps /\ ring' \in [Slots -> Letter \cup {NoLetter}] /\ ~Kept(id)'
<1>1. Slot(id) \in Slots /\ id # MaxId + 1
  BY LetterFacts
<1>2. ring \in [Slots -> Letter \cup {NoLetter}]
  BY DEF TypeOK
<1>3. CASE ~Kept(id)
  BY <1>3, KeepsSame DEF RemoveAt, Kept
<1>4. CASE Kept(id)
  <2>1. ring' = [ring EXCEPT ![Slot(id)] = NoLetter]
    BY <1>4 DEF RemoveAt
  <2>2. ring'[Slot(id)] = NoLetter
    BY <2>1, <1>1, <1>2
  <2>3. \A s \in Slots : s # Slot(id) => ring'[s] = ring[s]
    BY <2>1, <1>2
  <2>4. ring' \in [Slots -> Letter \cup {NoLetter}]
    BY <2>1, <1>1, <1>2
  <2>5. Keeps
    BY <2>2, <2>3 DEF Keeps
  <2>6. ~Kept(id)'
    BY <2>2, <1>1, LetterFacts DEF Kept
  <2> QED
    BY <2>4, <2>5, <2>6
<1> QED
  BY <1>3, <1>4

\* A letter there after such a step was there before it,
LEMMA KeepsKept ==
  ASSUME TypeOK, Keeps, NEW id \in Ids, Kept(id)'
  PROVE  Kept(id) /\ ring'[Slot(id)].contacts = ring[Slot(id)].contacts
  BY LetterFacts DEF Keeps, Kept

\* in its own slot.
LEMMA KeepsSlots ==
  ASSUME TypeOK, Keeps
  PROVE  \A s \in Slots : ring'[s] # NoLetter => Slot(ring'[s].id) = s
  BY DEF Keeps, TypeOK

\* What each step does to the ring.
LEMMA RingStep ==
  ASSUME TypeOK, HasLetter, Next \/ UNCHANGED vars
  PROVE  \/ Keeps /\ ring' \in [Slots -> Letter \cup {NoLetter}]
         \/ \E a \in Appenders : Put(a)
<1>1. CASE UNCHANGED ring
  BY <1>1, KeepsSame
<1>2. ASSUME NEW id \in Ids, RemoveAt(id)
      PROVE  Keeps /\ ring' \in [Slots -> Letter \cup {NoLetter}]
  BY <1>2, KeepsRemoved
<1>3. ASSUME NEW a \in Appenders, IndexFails(a)
      PROVE  Keeps /\ ring' \in [Slots -> Letter \cup {NoLetter}]
  <2> DEFINE l == append[a].letter
  <2>1. l \in Letter
    BY <1>3 DEF IndexFails, HasLetter, InFlight
  <2>2. l.id \in Ids
    BY <2>1, LetterFacts
  <2> HIDE DEF l
  <2>3. \/ UNCHANGED ring
        \/ ring[Slot(l.id)] = l /\ ring' = [ring EXCEPT ![Slot(l.id)] = NoLetter]
    BY <1>3 DEF IndexFails, l
  <2>4. UNCHANGED ring \/ RemoveAt(l.id)
    <3>1. ring[Slot(l.id)] = l => Kept(l.id)
      BY Zenon DEF Kept
    <3> QED
      BY <2>3, <3>1, Zenon DEF RemoveAt
  <2> QED
    BY <2>2, <2>4, KeepsSame, KeepsRemoved, Zenon
<1>4. ASSUME NEW y \in Replays, ReplayUpdate(y)
      PROVE  Keeps /\ ring' \in [Slots -> Letter \cup {NoLetter}]
  <2> DEFINE l == replay[y].letter
             s == Slot(l.id)
  <2>1. l \in Letter /\ l.attempts < MaxAttempts
    BY <1>4 DEF ReplayUpdate, HasLetter
  <2>2. s \in Slots /\ l # NoLetter /\ l.attempts \in Nat \ {0}
    BY <2>1, LetterFacts
  <2>3. \/ UNCHANGED ring
        \/ ring[s] = l /\ ring' = [ring EXCEPT ![s].attempts = @ + 1]
    BY <1>4 DEF ReplayUpdate
  <2> HIDE DEF l, s
  <2>4. ASSUME ring[s] = l, ring' = [ring EXCEPT ![s].attempts = @ + 1]
        PROVE  Keeps /\ ring' \in [Slots -> Letter \cup {NoLetter}]
    <3>1. ring \in [Slots -> Letter \cup {NoLetter}]
      BY DEF TypeOK
    <3>2. ring'[s] = [l EXCEPT !.attempts = l.attempts + 1]
      BY <2>4, <2>2, <3>1
    <3>3. \A t \in Slots : t # s => ring'[t] = ring[t]
      BY <2>4, <3>1
    <3>4. ring'[s] \in Letter /\ ring'[s].id = l.id /\ ring'[s].contacts = l.contacts
      BY <3>2, <2>1, <2>2, BoundsAssumption DEF Letter
    <3>5. ring' \in [Slots -> Letter \cup {NoLetter}]
      <4>1. ring' = [ring EXCEPT ![s] = ring'[s]]
        BY <2>4, <3>1, <2>2
      <4> QED
        BY <4>1, <3>4, <3>1
    <3>6. Keeps
      <4>1. ring[s] # NoLetter /\ ring'[s] # NoLetter
        BY <3>4, <2>2, <2>4, LetterFacts
      <4>2. ring'[s].id = ring[s].id /\ ring'[s].contacts = ring[s].contacts
        BY <3>4, <2>4, Zenon
      <4> QED
        BY <3>3, <4>1, <4>2, Zenon DEF Keeps
    <3> QED
      BY <3>5, <3>6
  <2> QED
    BY <2>3, <2>4, KeepsSame, Zenon
<1>5. ASSUME NEW a \in Appenders, Append(a)
      PROVE  Put(a) \/ IndexFails(a) \/ UNCHANGED ring
  BY <1>5 DEF Append, NextId, StopBeforePut, Index, Recorded
<1>6. ASSUME NEW y \in Replays, Replay(y)
      PROVE  ReplayUpdate(y) \/ (\E id \in Ids : RemoveAt(id)) \/ UNCHANGED ring
  <2>1. ASSUME ReplayRemove(y)
        PROVE  \E id \in Ids : RemoveAt(id)
    <3>1. RemoveAt(replay[y].letter.id) /\ replay[y].letter \in Letter
      BY <2>1 DEF ReplayRemove, HasLetter
    <3> QED
      BY <3>1, LetterFacts
  <2> QED
    BY <1>6, <2>1 DEF Replay, ReplayRead, ReplaySink, ReplayFails
<1>7. ASSUME Erase
      PROVE  (\E id \in Ids : RemoveAt(id)) \/ UNCHANGED ring
  BY <1>7 DEF Erase, EraseBegins, EraseRead, EraseIndex, EraseLetter, EraseReturns, EraseEnds
<1>8. ASSUME NEW id \in Ids, Remove(id)
      PROVE  \E i \in Ids : RemoveAt(i)
  BY <1>8 DEF Remove
<1>9. CASE UNCHANGED vars
  BY <1>9, <1>1 DEF vars
<1> QED
  BY <1>1, <1>2, <1>3, <1>4, <1>5, <1>6, <1>7, <1>8, <1>9 DEF Next

-----------------------------------------------------------------------------
(* Types.                                                                  *)

\* What the put of an append does.
LEMMA PutFacts ==
  ASSUME TypeOK, HasLetter, NEW a \in Appenders, Put(a)
  PROVE  /\ append[a].pc = "put" /\ append[a].letter \in Letter
         /\ append[a].letter.id \in Ids /\ Slot(append[a].letter.id) \in Slots
         /\ append[a].letter.id \in Nat /\ append[a].letter # NoLetter
         /\ ring'[Slot(append[a].letter.id)] = append[a].letter
         /\ \A s \in Slots : s # Slot(append[a].letter.id) => ring'[s] = ring[s]
         /\ ring' \in [Slots -> Letter \cup {NoLetter}]
         /\ append'[a] \in AppendStates
         /\ append'[a].pc = "index" /\ append'[a].letter = append[a].letter
         /\ append'[a].todo = append[a].todo
         /\ \A b \in Appenders : b # a => append'[b] = append[b]
         /\ append' \in [Appenders -> AppendStates]
         /\ UNCHANGED <<head, index, replay, erase, acked>>
<1> DEFINE l == append[a].letter
<1>1. append[a].pc = "put" /\ l \in Letter
  BY DEF Put, HasLetter, InFlight
<1>2. l.id \in Ids /\ Slot(l.id) \in Slots /\ l.id \in Nat /\ l # NoLetter
  BY <1>1, LetterFacts
<1>3. ring' = [ring EXCEPT ![Slot(l.id)] = l]
  BY DEF Put
<1> HIDE DEF l
<1>4. /\ ring'[Slot(l.id)] = l /\ ring' \in [Slots -> Letter \cup {NoLetter}]
      /\ \A s \in Slots : s # Slot(l.id) => ring'[s] = ring[s]
  BY <1>1, <1>2, <1>3 DEF TypeOK
<1>5. append' = [append EXCEPT ![a].pc = "index"] /\ append \in [Appenders -> AppendStates]
  BY DEF Put, TypeOK
<1>6. append'[a] = [append[a] EXCEPT !.pc = "index"]
  BY <1>5
<1>7. /\ append'[a] \in AppendStates /\ append'[a].pc = "index"
      /\ append'[a].letter = append[a].letter /\ append'[a].todo = append[a].todo
  BY <1>5, <1>6 DEF AppendStates
<1>8. /\ \A b \in Appenders : b # a => append'[b] = append[b]
      /\ append' \in [Appenders -> AppendStates]
  BY <1>5, <1>6, <1>7
<1>9. UNCHANGED <<head, index, replay, erase, acked>>
  BY DEF Put
<1> QED
  BY <1>1, <1>2, <1>4, <1>7, <1>8, <1>9 DEF l

\* An append moves: the others stand still.
LEMMA AppendMoves ==
  ASSUME TypeOK, NEW a \in Appenders, NEW x \in AppendStates,
         append' = [append EXCEPT ![a] = x]
  PROVE  /\ append' \in [Appenders -> AppendStates] /\ append'[a] = x
         /\ \A b \in Appenders : b # a => append'[b] = append[b]
  BY DEF TypeOK

\* A replay moves: the others stand still.
LEMMA ReplayMoves ==
  ASSUME TypeOK, NEW y \in Replays, NEW x \in ReplayStates,
         replay' = [replay EXCEPT ![y] = x]
  PROVE  /\ replay' \in [Replays -> ReplayStates] /\ replay'[y] = x
         /\ \A z \in Replays : z # y => replay'[z] = replay[z]
  BY DEF TypeOK

\* The idle states are of their types.
LEMMA Nones ==
  /\ NoAppend \in AppendStates /\ NoAppend.pc = "idle"
  /\ NoReplay \in ReplayStates /\ NoReplay.pc = "idle"
  /\ NoErase \in EraseStates /\ NoErase.pc = "idle"
  /\ NoErase.read = {} /\ NoErase.must = {}
  BY DEF NoAppend, NoReplay, NoErase, AppendStates, ReplayStates, EraseStates

\* What next_id does.
LEMMA NextIdFacts ==
  ASSUME TypeOK, NEW a \in Appenders, NEW contacts \in Naming, NextId(a, contacts)
  PROVE  /\ append[a].pc = "idle" /\ head \in Ids /\ head' = head + 1
         /\ append' \in [Appenders -> AppendStates]
         /\ append'[a].pc = "put" /\ append'[a].letter \in Letter
         /\ append'[a].letter.id = head
         /\ append'[a].letter.contacts \subseteq append'[a].todo
         /\ \A b \in Appenders : b # a => append'[b] = append[b]
         /\ UNCHANGED <<ring, index, replay, erase, acked>>
<1> DEFINE l == [id |-> head, contacts |-> contacts, attempts |-> 1]
           x == [pc |-> "put", letter |-> l, todo |-> contacts]
<1>1. head \in Ids
  BY BoundsAssumption DEF NextId, TypeOK, Ids
<1>2. l \in Letter /\ l.id = head /\ l.contacts = contacts
  BY <1>1, BoundsAssumption DEF Letter
<1>3. /\ append[a].pc = "idle" /\ head' = head + 1
      /\ append' = [append EXCEPT ![a] = x]
      /\ UNCHANGED <<ring, index, replay, erase, acked>>
  BY DEF NextId
<1> HIDE DEF l
<1>4. x \in AppendStates /\ x.pc = "put" /\ x.letter = l /\ x.todo = contacts
  BY <1>2, ContactsAssumption DEF AppendStates
<1> HIDE DEF x
<1>5. /\ append' \in [Appenders -> AppendStates] /\ append'[a] = x
      /\ \A b \in Appenders : b # a => append'[b] = append[b]
  BY <1>3, <1>4, AppendMoves
<1> QED
  BY <1>1, <1>2, <1>3, <1>4, <1>5

\* What indexing under a contact does.
LEMMA IndexFacts ==
  ASSUME TypeOK, HasLetter, NEW a \in Appenders, NEW c \in Contacts, Index(a, c)
  PROVE  /\ append[a].pc = "index" /\ append[a].letter \in Letter
         /\ append[a].letter.id \in Ids
         /\ append' \in [Appenders -> AppendStates]
         /\ append'[a].pc = "index" /\ append'[a].letter = append[a].letter
         /\ append'[a].todo = append[a].todo \ {c}
         /\ \A b \in Appenders : b # a => append'[b] = append[b]
         /\ index'[c] = Retained(index[c], append[a].letter.id) \cup {append[a].letter.id}
         /\ \A d \in Contacts : d # c => index'[d] = index[d]
         /\ index' \in [Contacts -> SUBSET Ids]
         /\ UNCHANGED <<head, ring, replay, erase, acked>>
<1>1. append[a].pc = "index" /\ append[a].letter \in Letter
  BY DEF Index, HasLetter, InFlight
<1>2. append[a].letter.id \in Ids
  BY <1>1, LetterFacts
<1>3. append' = [append EXCEPT ![a].todo = @ \ {c}] /\ append \in [Appenders -> AppendStates]
  BY DEF Index, TypeOK
<1>4. append'[a] = [append[a] EXCEPT !.todo = append[a].todo \ {c}]
  BY <1>3
<1>5. /\ append'[a] \in AppendStates /\ append'[a].pc = append[a].pc
      /\ append'[a].letter = append[a].letter
      /\ append'[a].todo = append[a].todo \ {c}
  BY <1>3, <1>4 DEF AppendStates
<1>6. /\ \A b \in Appenders : b # a => append'[b] = append[b]
      /\ append' \in [Appenders -> AppendStates]
  BY <1>3, <1>4, <1>5
<1> DEFINE id == append[a].letter.id
           ids == Retained(index[c], id) \cup {id}
<1>7. index' = [index EXCEPT ![c] = ids] /\ index \in [Contacts -> SUBSET Ids]
  BY DEF Index, TypeOK
<1>8. ids \in SUBSET Ids
  BY <1>2, <1>7 DEF Retained
<1> HIDE DEF ids
<1>9. /\ index'[c] = ids /\ index' \in [Contacts -> SUBSET Ids]
      /\ \A d \in Contacts : d # c => index'[d] = index[d]
  BY <1>7, <1>8
<1>10. UNCHANGED <<head, ring, replay, erase, acked>>
  BY DEF Index
<1> QED
  BY <1>1, <1>2, <1>5, <1>6, <1>9, <1>10 DEF ids

\* An append ends: put or indexed, it is idle again.
LEMMA EndFacts ==
  ASSUME TypeOK, HasLetter, NEW a \in Appenders,
         StopBeforePut(a) \/ IndexFails(a) \/ Recorded(a)
  PROVE  /\ append' \in [Appenders -> AppendStates] /\ append'[a] = NoAppend
         /\ \A b \in Appenders : b # a => append'[b] = append[b]
         /\ append[a].letter \in Letter /\ append[a].letter.id \in Ids
         /\ UNCHANGED <<head, index, replay, erase>>
         /\ StopBeforePut(a) => /\ append[a].pc = "put"
                                /\ UNCHANGED <<ring, acked>>
         /\ Recorded(a) => /\ acked' = acked \cup {append[a].letter.id}
                           /\ append[a].pc = "index" /\ append[a].todo = {}
                           /\ UNCHANGED ring
         /\ IndexFails(a) => append[a].pc = "index" /\ UNCHANGED acked
<1>1. append' = [append EXCEPT ![a] = NoAppend] /\ UNCHANGED <<head, index, replay, erase>>
  BY DEF StopBeforePut, IndexFails, Recorded
<1>2. append[a].letter \in Letter
  BY DEF StopBeforePut, IndexFails, Recorded, HasLetter, InFlight
<1>3. append[a].letter.id \in Ids
  BY <1>2, LetterFacts
<1>4. /\ append' \in [Appenders -> AppendStates] /\ append'[a] = NoAppend
      /\ \A b \in Appenders : b # a => append'[b] = append[b]
  BY <1>1, Nones, AppendMoves
<1>5. StopBeforePut(a) => /\ append[a].pc = "put"
                          /\ UNCHANGED <<ring, acked>>
  BY DEF StopBeforePut
<1>6. Recorded(a) => /\ acked' = acked \cup {append[a].letter.id}
                     /\ append[a].pc = "index" /\ append[a].todo = {}
                     /\ UNCHANGED ring
  BY DEF Recorded
<1>7. IndexFails(a) => append[a].pc = "index" /\ UNCHANGED acked
  BY DEF IndexFails
<1> QED
  BY <1>1, <1>2, <1>3, <1>4, <1>5, <1>6, <1>7

\* What a replay does to all but the ring.
LEMMA ReplayFacts ==
  ASSUME TypeOK, HasLetter, NEW y \in Replays, Replay(y)
  PROVE  /\ replay' \in [Replays -> ReplayStates]
         /\ \A z \in Replays : replay'[z].pc # "idle" => replay'[z].letter \in Letter
         /\ UNCHANGED <<head, index, append, erase, acked>>
<1> DEFINE Good(x) == x \in ReplayStates /\ (x.pc # "idle" => x.letter \in Letter)
<1>1. ASSUME NEW x, Good(x), replay' = [replay EXCEPT ![y] = x]
      PROVE  /\ replay' \in [Replays -> ReplayStates]
             /\ \A z \in Replays : replay'[z].pc # "idle" => replay'[z].letter \in Letter
  <2>1. /\ replay' \in [Replays -> ReplayStates] /\ replay'[y] = x
        /\ \A z \in Replays : z # y => replay'[z] = replay[z]
    BY <1>1, ReplayMoves
  <2> QED
    BY <2>1, <1>1 DEF HasLetter
<1>2. Good(NoReplay)
  BY Nones
<1>3. ASSUME NEW id \in Ids, ReplayRead(y, id)
      PROVE  \E x : Good(x) /\ replay' = [replay EXCEPT ![y] = x]
  <2> DEFINE x == [pc |-> "sink", letter |-> ring[Slot(id)]]
  <2>1. ring[Slot(id)] \in Letter
    BY <1>3, LetterFacts, TypeFacts DEF ReplayRead, Kept
  <2>2. Good(x)
    BY <2>1 DEF ReplayStates
  <2>3. replay' = [replay EXCEPT ![y] = x]
    BY <1>3 DEF ReplayRead
  <2> QED
    BY <2>2, <2>3
<1>4. ASSUME ReplaySink(y)
      PROVE  \E x : Good(x) /\ replay' = [replay EXCEPT ![y] = x]
  <2>1. replay \in [Replays -> ReplayStates] /\ replay[y] \in ReplayStates
    BY TypeFacts DEF TypeOK
  <2>2. replay[y].letter \in Letter
    BY <1>4 DEF ReplaySink, HasLetter
  <2>3. ASSUME NEW pc \in {"remove", "update"}, replay' = [replay EXCEPT ![y].pc = pc]
        PROVE  \E x : Good(x) /\ replay' = [replay EXCEPT ![y] = x]
    <3>1. replay' = [replay EXCEPT ![y] = [replay[y] EXCEPT !.pc = pc]]
      BY <2>1, <2>3
    <3>2. Good([replay[y] EXCEPT !.pc = pc])
      BY <2>1, <2>2 DEF ReplayStates
    <3> QED
      BY <3>1, <3>2
  <2>4. CASE replay' = [replay EXCEPT ![y] = NoReplay]
    BY <2>4, <1>2
  <2> QED
    BY <1>4, <2>3, <2>4 DEF ReplaySink
<1>5. ASSUME ReplayRemove(y) \/ ReplayUpdate(y) \/ ReplayFails(y)
      PROVE  replay' = [replay EXCEPT ![y] = NoReplay]
  BY <1>5 DEF ReplayRemove, ReplayUpdate, ReplayFails
<1> HIDE DEF Good
<1>6. \E x : Good(x) /\ replay' = [replay EXCEPT ![y] = x]
  BY <1>2, <1>3, <1>4, <1>5 DEF Replay
<1>7. UNCHANGED <<head, index, append, erase, acked>>
  BY DEF Replay, ReplayRead, ReplaySink, ReplayRemove, ReplayUpdate, ReplayFails
<1> QED
  BY <1>1, <1>6, <1>7

\* The types of an erasure's fields.
LEMMA EraseFields ==
  ASSUME TypeOK
  PROVE  /\ erase.pc \in {"idle", "next", "letters", "reread", "done"}
         /\ erase.todo \subseteq Contacts /\ erase.at \subseteq Contacts
         /\ erase.read \subseteq Ids /\ erase.left \subseteq Ids /\ erase.must \subseteq Ids
  BY DEF TypeOK, EraseStates

\* What each step of an erasure does: it begins,
LEMMA EraseBeginsFacts ==
  ASSUME TypeOK, NEW who \in Persons, EraseBegins(who)
  PROVE  /\ erase' \in EraseStates
         /\ erase'.pc = "next" /\ erase'.todo = who /\ erase'.read = {}
         /\ erase'.must = {ring[s].id : s \in Named(who)} \cap acked
         /\ UNCHANGED <<head, ring, index, append, replay, acked>>
<1> DEFINE must == {ring[s].id : s \in Named(who)} \cap acked
<1>1. must \in SUBSET Ids /\ who \in SUBSET Contacts
  BY ContactsAssumption DEF TypeOK
<1>2. /\ erase' = [NoErase EXCEPT !.pc = "next", !.todo = who, !.must = must]
      /\ UNCHANGED <<head, ring, index, append, replay, acked>>
  BY DEF EraseBegins
<1> HIDE DEF must
<1>3. /\ erase' \in EraseStates /\ erase'.pc = "next" /\ erase'.todo = who
      /\ erase'.read = {} /\ erase'.must = must
  BY <1>1, <1>2 DEF NoErase, EraseStates
<1> QED
  BY <1>2, <1>3 DEF must

\* reads an index,
LEMMA EraseReadFacts ==
  ASSUME TypeOK, NEW c \in Contacts, EraseRead(c)
  PROVE  /\ erase' \in EraseStates
         /\ erase.pc \in {"next", "reread"}
         /\ erase'.pc = "letters" /\ erase'.at = {c} /\ erase'.todo = erase.todo \ {c}
         /\ erase'.read = index[c] /\ erase'.left = index[c] /\ erase'.must = erase.must
         /\ UNCHANGED <<head, ring, index, append, replay, acked>>
<1>1. index[c] \in SUBSET Ids /\ erase \in EraseStates
  BY DEF TypeOK
<1>2. /\ erase' = [erase EXCEPT !.pc = "letters", !.at = {c}, !.todo = @ \ {c},
                                !.read = index[c], !.left = index[c]]
      /\ erase.pc \in {"next", "reread"}
      /\ UNCHANGED <<head, ring, index, append, replay, acked>>
  BY DEF EraseRead
<1>3. erase' \in EraseStates
  BY <1>1, <1>2 DEF EraseStates
<1>4. /\ erase'.pc = "letters" /\ erase'.at = {c} /\ erase'.todo = erase.todo \ {c}
      /\ erase'.read = index[c] /\ erase'.left = index[c] /\ erase'.must = erase.must
  BY <1>1, <1>2 DEF EraseStates
<1> QED
  BY <1>2, <1>3, <1>4

\* erases a letter of it,
LEMMA EraseLetterFacts ==
  ASSUME TypeOK, NEW id \in Ids, EraseLetter(id)
  PROVE  /\ erase' \in EraseStates
         /\ erase.pc = "letters" /\ id \in erase.left
         /\ erase'.pc = "letters" /\ erase'.left = erase.left \ {id}
         /\ erase'.at = erase.at /\ erase'.todo = erase.todo
         /\ erase'.read = erase.read /\ erase'.must = erase.must
         /\ Keeps /\ ring' \in [Slots -> Letter \cup {NoLetter}]
         /\ Kept(id)' => ~(erase.at \subseteq ring'[Slot(id)].contacts)
         /\ UNCHANGED <<head, index, append, replay, acked>>
<1>1. erase \in EraseStates
  BY DEF TypeOK
<1>2. /\ erase' = [erase EXCEPT !.left = @ \ {id}]
      /\ erase.pc = "letters" /\ id \in erase.left
      /\ UNCHANGED <<head, index, append, replay, acked>>
      /\ erase.at \subseteq ring[Slot(id)].contacts => RemoveAt(id)
      /\ ~(erase.at \subseteq ring[Slot(id)].contacts) => UNCHANGED ring
  BY DEF EraseLetter
<1>3. erase' \in EraseStates
  BY <1>1, <1>2 DEF EraseStates
<1>4. /\ erase'.pc = "letters" /\ erase'.left = erase.left \ {id}
      /\ erase'.at = erase.at /\ erase'.todo = erase.todo
      /\ erase'.read = erase.read /\ erase'.must = erase.must
  BY <1>1, <1>2 DEF EraseStates
<1>5. /\ Keeps /\ ring' \in [Slots -> Letter \cup {NoLetter}]
      /\ Kept(id)' => ~(erase.at \subseteq ring'[Slot(id)].contacts)
  <2>1. CASE erase.at \subseteq ring[Slot(id)].contacts
    BY <2>1, <1>2, KeepsRemoved
  <2>2. CASE ~(erase.at \subseteq ring[Slot(id)].contacts)
    BY <2>2, <1>2, KeepsSame
  <2> QED
    BY <2>1, <2>2
<1> QED
  BY <1>2, <1>3, <1>4, <1>5

\* deletes the index or reads it again,
LEMMA EraseIndexFacts ==
  ASSUME TypeOK, NEW c \in Contacts, EraseIndex(c)
  PROVE  /\ erase' \in EraseStates /\ index' \in [Contacts -> SUBSET Ids]
         /\ erase.pc = "letters" /\ erase.left = {} /\ c \in erase.at
         /\ erase'.todo = erase.todo /\ erase'.must = erase.must
         /\ \/ /\ index[c] = erase.read
               /\ index'[c] = {} /\ \A d \in Contacts : d # c => index'[d] = index[d]
               /\ erase'.pc = "next" /\ erase'.read = {}
            \/ /\ UNCHANGED index
               /\ erase'.pc = "reread" /\ erase'.read = erase.read
               /\ erase'.at = erase.at
         /\ UNCHANGED <<head, ring, append, replay, acked>>
<1>1. erase \in EraseStates /\ index \in [Contacts -> SUBSET Ids]
  BY DEF TypeOK
<1>2. /\ erase.pc = "letters" /\ erase.left = {} /\ c \in erase.at
      /\ \/ /\ index[c] = erase.read
            /\ index' = [index EXCEPT ![c] = {}]
            /\ erase' = [erase EXCEPT !.pc = "next", !.at = {}, !.read = {}]
         \/ /\ erase' = [erase EXCEPT !.pc = "reread"]
            /\ UNCHANGED index
      /\ UNCHANGED <<head, ring, append, replay, acked>>
  BY DEF EraseIndex
<1>3. CASE /\ index[c] = erase.read
           /\ index' = [index EXCEPT ![c] = {}]
           /\ erase' = [erase EXCEPT !.pc = "next", !.at = {}, !.read = {}]
  <2>1. erase' \in EraseStates
    BY <1>1, <1>3 DEF EraseStates
  <2>2. /\ erase'.todo = erase.todo /\ erase'.must = erase.must
        /\ erase'.pc = "next" /\ erase'.read = {}
    BY <1>1, <1>3 DEF EraseStates
  <2>3. /\ index' \in [Contacts -> SUBSET Ids] /\ index'[c] = {}
        /\ \A d \in Contacts : d # c => index'[d] = index[d]
    BY <1>1, <1>3
  <2> QED
    BY <1>2, <1>3, <2>1, <2>2, <2>3
<1>4. CASE erase' = [erase EXCEPT !.pc = "reread"] /\ UNCHANGED index
  <2>1. erase' \in EraseStates
    BY <1>1, <1>4 DEF EraseStates
  <2>2. /\ erase'.todo = erase.todo /\ erase'.must = erase.must
        /\ erase'.pc = "reread" /\ erase'.read = erase.read /\ erase'.at = erase.at
    BY <1>1, <1>4 DEF EraseStates
  <2> QED
    BY <1>1, <1>2, <1>4, <2>1, <2>2
<1> QED
  BY <1>2, <1>3, <1>4

\* returns,
LEMMA EraseReturnsFacts ==
  ASSUME TypeOK, EraseReturns
  PROVE  /\ erase' \in EraseStates
         /\ erase.pc = "next" /\ erase.todo = {}
         /\ erase'.pc = "done" /\ erase'.todo = {} /\ erase'.read = erase.read
         /\ erase'.must = erase.must
         /\ UNCHANGED <<head, ring, index, append, replay, acked>>
<1>1. /\ erase \in EraseStates /\ erase.pc = "next" /\ erase.todo = {}
      /\ erase' = [erase EXCEPT !.pc = "done"]
      /\ UNCHANGED <<head, ring, index, append, replay, acked>>
  BY DEF TypeOK, EraseReturns
<1>2. erase' \in EraseStates
  BY <1>1 DEF EraseStates
<1>3. /\ erase'.pc = "done" /\ erase'.todo = {} /\ erase'.read = erase.read
      /\ erase'.must = erase.must
  BY <1>1 DEF EraseStates
<1> QED
  BY <1>1, <1>2, <1>3

\* and ends.
LEMMA EraseEndsFacts ==
  ASSUME EraseEnds
  PROVE  erase' = NoErase /\ UNCHANGED <<head, ring, index, append, replay, acked>>
  BY DEF EraseEnds

\* Variables keep their types, and those under way a letter.
LEMMA TypeStep ==
  ASSUME TypeOK, HasLetter, Next \/ UNCHANGED vars
  PROVE  TypeOK' /\ HasLetter'
<1>1. /\ ring' \in [Slots -> Letter \cup {NoLetter}]
      /\ \A s \in Slots : ring'[s] # NoLetter => Slot(ring'[s].id) = s
  <2>1. ASSUME NEW a \in Appenders, Put(a)
        PROVE  /\ ring' \in [Slots -> Letter \cup {NoLetter}]
               /\ \A s \in Slots : ring'[s] # NoLetter => Slot(ring'[s].id) = s
    <3>1. /\ ring'[Slot(append[a].letter.id)] = append[a].letter
          /\ \A s \in Slots : s # Slot(append[a].letter.id) => ring'[s] = ring[s]
          /\ ring' \in [Slots -> Letter \cup {NoLetter}]
      BY <2>1, PutFacts
    <3>2. \A s \in Slots : ring[s] # NoLetter => Slot(ring[s].id) = s
      BY DEF TypeOK
    <3> QED
      BY <3>1, <3>2
  <2> QED
    BY <2>1, RingStep, KeepsSlots
<1> DEFINE Others == /\ head' \in 0..(MaxId + 1)
                     /\ index' \in [Contacts -> SUBSET Ids]
                     /\ append' \in [Appenders -> AppendStates]
                     /\ replay' \in [Replays -> ReplayStates]
                     /\ erase' \in EraseStates
                     /\ acked' \in SUBSET Ids
<1>2. /\ head \in 0..(MaxId + 1) /\ index \in [Contacts -> SUBSET Ids]
      /\ append \in [Appenders -> AppendStates] /\ replay \in [Replays -> ReplayStates]
      /\ erase \in EraseStates /\ acked \in SUBSET Ids
  BY DEF TypeOK
<1> SUFFICES Others /\ HasLetter'
  BY <1>1, Zenon DEF TypeOK
<1>3. ASSUME UNCHANGED append, UNCHANGED replay
      PROVE  HasLetter'
  BY <1>3 DEF HasLetter, InFlight
<1>4. ASSUME UNCHANGED replay, NEW a \in Appenders,
             append'[a].pc # "idle" => append'[a].letter \in Letter,
             \A b \in Appenders : b # a => append'[b] = append[b]
      PROVE  HasLetter'
  BY <1>4 DEF HasLetter, InFlight
<1>5. ASSUME NEW a \in Appenders, Append(a)
      PROVE  Others /\ HasLetter'
  <2>1. CASE \E contacts \in Naming : NextId(a, contacts)
    <3>1. PICK contacts \in Naming : NextId(a, contacts)
      BY <2>1
    <3>2. /\ head \in Ids /\ head' = head + 1 /\ append' \in [Appenders -> AppendStates]
          /\ append'[a].letter \in Letter
          /\ \A b \in Appenders : b # a => append'[b] = append[b]
          /\ UNCHANGED <<ring, index, replay, erase, acked>>
      BY <3>1, NextIdFacts
    <3>3. head' \in 0..(MaxId + 1)
      BY <3>2, BoundsAssumption DEF Ids
    <3> QED
      BY <3>2, <3>3, <1>2, <1>4
  <2>2. CASE Put(a)
    BY <2>2, PutFacts, <1>2, <1>4
  <2>3. CASE \E c \in Contacts : Index(a, c)
    BY <2>3, IndexFacts, <1>2, <1>4
  <2>4. CASE StopBeforePut(a) \/ IndexFails(a) \/ Recorded(a)
    <3>1. /\ append' \in [Appenders -> AppendStates] /\ append'[a].pc = "idle"
          /\ \A b \in Appenders : b # a => append'[b] = append[b]
          /\ UNCHANGED <<head, index, replay, erase>>
      BY <2>4, EndFacts, Nones
    <3>2. acked' \in SUBSET Ids
      BY <2>4, EndFacts, <1>2
    <3> QED
      BY <3>1, <3>2, <1>2, <1>4
  <2> QED
    BY <1>5, <2>1, <2>2, <2>3, <2>4 DEF Append
<1>6. ASSUME NEW y \in Replays, Replay(y)
      PROVE  Others /\ HasLetter'
  BY <1>6, <1>2, ReplayFacts DEF HasLetter, InFlight
<1>7. ASSUME NEW id \in Ids, Remove(id)
      PROVE  Others /\ HasLetter'
  BY <1>7, <1>2, <1>3 DEF Remove
<1>8. ASSUME Erase
      PROVE  Others /\ HasLetter'
  <2>1. erase' \in EraseStates /\ index' \in [Contacts -> SUBSET Ids]
    <3>1. CASE \E who \in Persons : EraseBegins(who)
      BY <3>1, <1>2, EraseBeginsFacts
    <3>2. CASE \E c \in Contacts : EraseRead(c)
      BY <3>2, <1>2, EraseReadFacts
    <3>3. CASE \E c \in Contacts : EraseIndex(c)
      BY <3>3, EraseIndexFacts
    <3>4. CASE \E id \in Ids : EraseLetter(id)
      BY <3>4, <1>2, EraseLetterFacts
    <3>5. CASE EraseReturns \/ EraseEnds
      BY <3>5, <1>2, EraseReturnsFacts, EraseEndsFacts, Nones
    <3> QED
      BY <1>8, <3>1, <3>2, <3>3, <3>4, <3>5 DEF Erase
  <2>2. UNCHANGED <<head, append, replay, acked>>
    BY <1>8 DEF Erase, EraseBegins, EraseRead, EraseIndex, EraseLetter, EraseReturns, EraseEnds
  <2> QED
    BY <2>1, <2>2, <1>2, <1>3
<1>9. CASE UNCHANGED vars
  BY <1>9, <1>2, <1>3 DEF vars
<1> QED
  BY <1>5, <1>6, <1>7, <1>8, <1>9 DEF Next

-----------------------------------------------------------------------------
(* The parts of the invariant, for steps that only take away.              *)

\* Appends only end.
AppendsEnd ==
  \A a \in Appenders : append'[a] = append[a] \/ append'[a] = NoAppend

\* The letter of this id is there after the step.
KeptNext(id) == ring'[Slot(id)].id = id

\* What leaves an index is not the id of a letter kept there.
IndexKeeps ==
  \A c \in Contacts :
    /\ index'[c] \subseteq index[c]
    /\ \A id \in index[c] :
         KeptNext(id) /\ c \in ring'[Slot(id)].contacts => id \in index'[c]

\* What is said of appends and indexes is kept by such a step.
LEMMA AppendSide ==
  ASSUME IInv, Keeps, AppendsEnd, IndexKeeps, UNCHANGED <<head, acked>>,
         \A id \in erase'.read : id \in erase.read \/ \E c \in Contacts : id \in index[c]
  PROVE  IdsPast' /\ OwnIds' /\ Unwritten' /\ IndexedSoFar' /\ AckedIsIndexed'
<1> USE DEF IInv
<1>1. \A a \in Appenders : InFlight(a)' => InFlight(a) /\ append'[a] = append[a]
  BY Nones DEF AppendsEnd, InFlight
<1>2. \A a \in Appenders : InFlight(a) =>
        append[a].letter \in Letter /\ append[a].letter.id \in Ids
  BY LetterFacts DEF HasLetter
<1>3. \A id \in Ids :
        KeptNext(id) => Kept(id) /\ ring'[Slot(id)].contacts = ring[Slot(id)].contacts
  BY KeepsKept DEF Kept, KeptNext
<1>4. acked \subseteq Ids /\ \A c \in Contacts : index[c] \subseteq Ids /\ index'[c] \subseteq index[c]
  BY DEF TypeOK, IndexKeeps
<1>5. IdsPast'
  <2>1. \A a \in Appenders : InFlight(a)' => append'[a].letter.id < head'
    BY <1>1 DEF IdsPast
  <2>2. \A s \in Slots : ring'[s] # NoLetter => ring'[s].id < head'
    BY DEF IdsPast, Keeps
  <2>3. \A id \in acked' : id < head'
    BY DEF IdsPast
  <2>4. \A c \in Contacts : \A id \in index'[c] : id < head'
    BY <1>4 DEF IdsPast
  <2>5. \A id \in erase'.read : id < head'
    BY DEF IdsPast
  <2> QED
    BY <2>1, <2>2, <2>3, <2>4, <2>5 DEF IdsPast, InFlight
<1>6. OwnIds'
  BY <1>1 DEF OwnIds
<1>7. Unwritten'
  <2> SUFFICES ASSUME NEW a \in Appenders, append'[a].pc = "put"
               PROVE  /\ append[a].letter.contacts \subseteq append[a].todo
                      /\ ~KeptNext(append[a].letter.id)
                      /\ append'[a] = append[a]
                      /\ append[a].letter.id \notin acked'
                      /\ \A c \in Contacts : append[a].letter.id \notin index'[c]
                      /\ append[a].letter.id \notin erase'.read
    BY Zenon DEF Unwritten, Kept, KeptNext
  <2>1. append'[a] = append[a] /\ append[a].pc = "put" /\ InFlight(a)
    BY <1>1 DEF InFlight
  <2> DEFINE id == append[a].letter.id
  <2>2. /\ ~Kept(id) /\ id \notin acked /\ id \notin erase.read
        /\ \A c \in Contacts : id \notin index[c]
    BY <2>1 DEF Unwritten
  <2>3. id \in Ids
    BY <2>1, <1>2
  <2> HIDE DEF id
  <2>4. ~KeptNext(id)
    BY <2>2, <2>3, <1>3
  <2>5. /\ id \notin acked' /\ id \notin erase'.read
        /\ \A c \in Contacts : id \notin index'[c]
    BY <2>2, <1>4
  <2> QED
    BY <2>1, <2>4, <2>5 DEF id, Unwritten
<1>8. IndexedSoFar'
  <2> SUFFICES ASSUME NEW a \in Appenders, append'[a].pc = "index",
                      append'[a] = append[a], KeptNext(append[a].letter.id)
               PROVE  /\ ring'[Slot(append[a].letter.id)].contacts = append[a].letter.contacts
                      /\ ~Doomed(append[a].letter.id) =>
                           \A c \in append[a].letter.contacts \ append[a].todo :
                             append[a].letter.id \in index'[c]
    <3>1. \A b \in Appenders : append'[b].pc = "index" => append'[b] = append[b]
      BY <1>1 DEF InFlight
    <3> QED
      BY <3>1, Zenon DEF IndexedSoFar, Kept, KeptNext, Doomed
  <2> DEFINE l == append[a].letter
             todo == append[a].todo
  <2>1. l \in Letter /\ l.id \in Ids /\ InFlight(a)
    BY <1>2 DEF InFlight
  <2>2. l.contacts \subseteq Contacts
    BY <2>1, LetterFacts
  <2>3. /\ Kept(l.id)
        /\ ring'[Slot(l.id)].contacts = ring[Slot(l.id)].contacts
    BY <2>1, <1>3
  <2>4. /\ ring[Slot(l.id)].contacts = l.contacts
        /\ ~Doomed(l.id) => \A c \in l.contacts \ todo : l.id \in index[c]
    BY <2>3 DEF IndexedSoFar
  <2> HIDE DEF l, todo
  <2>5. ASSUME ~Doomed(l.id), NEW c \in l.contacts \ todo
        PROVE  l.id \in index'[c]
    <3>1. l.id \in index[c] /\ c \in Contacts /\ c \in ring'[Slot(l.id)].contacts
      BY <2>5, <2>2, <2>3, <2>4
    <3>2. KeptNext(l.id)
      BY DEF l
    <3> QED
      BY <3>1, <3>2 DEF IndexKeeps
  <2> QED
    BY <2>3, <2>4, <2>5 DEF l, todo
<1>9. AckedIsIndexed'
  <2> SUFFICES ASSUME NEW id \in acked, KeptNext(id), ~Doomed(id),
                      NEW c \in ring'[Slot(id)].contacts
               PROVE  id \in index'[c]
    BY DEF AckedIsIndexed, Kept, KeptNext, Doomed
  <2>1. id \in Ids
    BY <1>4
  <2>2. Kept(id) /\ ring'[Slot(id)].contacts = ring[Slot(id)].contacts /\ ~Doomed(id)
    BY <2>1, <1>3 DEF Doomed
  <2>3. id \in index[c]
    BY <2>2 DEF AckedIsIndexed
  <2>4. c \in Contacts
    BY <2>1, <2>2, LetterFacts, TypeFacts
  <2> QED
    BY <2>3, <2>4 DEF IndexKeeps
<1> QED
  BY <1>5, <1>6, <1>7, <1>8, <1>9

\* The erasure stands still while the rest of the system moves.
LEMMA EraseSide ==
  ASSUME IInv, TypeOK', UNCHANGED erase, acked \subseteq acked', head' >= head,
         \A id \in erase.read \cup erase.must :
           KeptNext(id) => Kept(id) /\ ring'[Slot(id)].contacts = ring[Slot(id)].contacts
  PROVE  Swept' /\ ErasesAll'
<1> USE DEF IInv
<1>1. Swept'
  <2> SUFFICES ASSUME erase.pc \in {"letters", "reread"}
               PROVE  /\ \E c \in Contacts : erase.at = {c}
                      /\ erase.pc = "letters" =>
                           \A id \in erase.read \ erase.left :
                             KeptNext(id) => ~(erase.at \subseteq ring'[Slot(id)].contacts)
    BY DEF Swept, Kept, KeptNext
  <2>1. /\ \E c \in Contacts : erase.at = {c}
        /\ erase.pc = "letters" =>
             \A id \in erase.read \ erase.left :
               Kept(id) => ~(erase.at \subseteq ring[Slot(id)].contacts)
    BY DEF Swept
  <2> QED
    BY <2>1
<1>2. ErasesAll'
  <2>1. erase.must \subseteq acked'
    BY DEF ErasesAll
  <2>2. ASSUME erase.pc # "idle", NEW id \in erase.must, KeptNext(id), ~Doomed(id)'
        PROVE  ToCome(id)'
    <3>1. id \in Nat /\ head \in Nat /\ head' \in Nat /\ Capacity \in Nat
      BY LetterFacts, EraseFields, TypeFacts, BoundsAssumption, CapacityAssumption DEF TypeOK
    <3>2. ~Doomed(id)
      BY <2>2, <3>1 DEF Doomed
    <3>3. ToCome(id) /\ ring'[Slot(id)].contacts = ring[Slot(id)].contacts
      BY <2>2, <3>2 DEF ErasesAll
    <3> QED
      BY <3>3 DEF ToCome
  <2> QED
    BY <2>1, <2>2 DEF ErasesAll, Kept, KeptNext
<1> QED
  BY <1>1, <1>2

-----------------------------------------------------------------------------
(* The invariant is kept: appends.                                         *)

Parts == /\ IdsPast /\ OwnIds /\ Unwritten /\ IndexedSoFar /\ AckedIsIndexed
         /\ Swept /\ ErasesAll

\* Ids are numbers.
LEMMA Numbers ==
  ASSUME TypeOK
  PROVE  /\ head \in Nat /\ Capacity \in Nat \ {0}
         /\ acked \subseteq Nat /\ erase.read \subseteq Nat /\ erase.must \subseteq Nat
         /\ \A c \in Contacts : index[c] \subseteq Nat
         /\ \A l \in Letter : l.id \in Nat
<1>1. \A c \in Contacts : index[c] \subseteq Ids
  BY DEF TypeOK
<1>2. acked \subseteq Ids
  BY DEF TypeOK
<1>3. \A l \in Letter : l.id \in Ids
  BY LetterFacts
<1>4. Ids \subseteq Nat
  BY LetterFacts
<1> QED
  BY <1>1, <1>2, <1>3, <1>4, TypeFacts, EraseFields, CapacityAssumption

\* next_id keeps the invariant: the new id is nowhere yet.
LEMMA NextIdStep ==
  ASSUME IInv, TypeOK', NEW a \in Appenders, NEW contacts \in Naming, NextId(a, contacts)
  PROVE  Parts'
<1> USE DEF IInv
<1>1. /\ append[a].pc = "idle" /\ head \in Ids /\ head' = head + 1
      /\ append'[a].pc = "put" /\ append'[a].letter.id = head
      /\ append'[a].letter.contacts \subseteq append'[a].todo
      /\ \A b \in Appenders : b # a => append'[b] = append[b]
      /\ UNCHANGED <<ring, index, replay, erase, acked>>
  BY NextIdFacts
<1>2. \A b \in Appenders : InFlight(b) => append[b].letter \in Letter /\ append[b].letter.id \in Nat
  BY Numbers DEF HasLetter
<1>3. /\ head \in Nat /\ Capacity \in Nat \ {0} /\ acked \subseteq Nat /\ erase.read \subseteq Nat
      /\ \A c \in Contacts : index[c] \subseteq Nat
  BY Numbers
<1>4. \A s \in Slots : ring[s] # NoLetter => ring[s].id \in Nat
  BY TypeFacts, Numbers
<1>5. IdsPast'
  <2>1. \A b \in Appenders : append'[b].pc # "idle" => append'[b].letter.id < head'
    BY <1>1, <1>2, <1>3 DEF IdsPast, InFlight
  <2>2. \A s \in Slots : ring'[s] # NoLetter => ring'[s].id < head'
    BY <1>1, <1>3, <1>4 DEF IdsPast
  <2>3. /\ \A id \in acked' : id < head'
        /\ \A c \in Contacts : \A id \in index'[c] : id < head'
        /\ \A id \in erase'.read : id < head'
    <3>1. \A id \in Nat : id < head => id < head'
      BY <1>1, <1>3
    <3>2. /\ \A id \in acked : id < head
          /\ \A c \in Contacts : \A id \in index[c] : id < head
          /\ \A id \in erase.read : id < head
      BY DEF IdsPast
    <3>3. acked' = acked /\ index' = index /\ erase' = erase
      BY <1>1
    <3> QED
      BY <3>1, <3>2, <3>3, <1>3, Zenon
  <2> QED
    BY <2>1, <2>2, <2>3 DEF IdsPast, InFlight
<1>6. OwnIds'
  <2>1. \A b \in Appenders : b # a /\ InFlight(b)' => InFlight(b) /\ append'[b].letter.id < head
    BY <1>1 DEF InFlight, IdsPast
  <2>2. \A b \in Appenders : b # a /\ InFlight(b)' => append'[b].letter.id # head
    BY <2>1, <1>1, <1>2, <1>3
  <2> QED
    BY <2>1, <2>2, <1>1 DEF OwnIds
<1>7. Unwritten'
  <2> SUFFICES ASSUME NEW b \in Appenders, append'[b].pc = "put"
               PROVE  /\ append'[b].letter.contacts \subseteq append'[b].todo
                      /\ ~KeptNext(append'[b].letter.id)
                      /\ append'[b].letter.id \notin acked'
                      /\ \A c \in Contacts : append'[b].letter.id \notin index'[c]
                      /\ append'[b].letter.id \notin erase'.read
    BY Zenon DEF Unwritten, Kept, KeptNext
  <2>1. CASE b # a
    <3>1. append'[b] = append[b]
      BY <2>1, <1>1
    <3> QED
      BY <3>1, <1>1 DEF Unwritten, Kept, KeptNext
  <2>2. CASE b = a
    <3>1. ring[Slot(head)].id # head
      <4>1. Slot(head) \in Slots /\ head # MaxId + 1
        BY <1>1, LetterFacts
      <4>2. CASE ring[Slot(head)] = NoLetter
        BY <4>1, <4>2, LetterFacts
      <4>3. CASE ring[Slot(head)] # NoLetter
        BY <4>1, <4>3, <1>3, <1>4 DEF IdsPast
      <4> QED
        BY <4>2, <4>3
    <3>2. /\ head \notin acked /\ head \notin erase.read
          /\ \A c \in Contacts : head \notin index[c]
      BY <1>3 DEF IdsPast
    <3> QED
      BY <2>2, <3>1, <3>2, <1>1 DEF KeptNext
  <2> QED
    BY <2>1, <2>2
<1>8. \A id \in Nat : ~(id + Capacity < head') => ~Doomed(id)
  BY <1>1, <1>3 DEF Doomed
<1>9. IndexedSoFar'
  <2> SUFFICES ASSUME NEW b \in Appenders, append'[b].pc = "index",
                      KeptNext(append'[b].letter.id)
               PROVE  /\ ring'[Slot(append'[b].letter.id)].contacts = append'[b].letter.contacts
                      /\ ~(append'[b].letter.id + Capacity < head') =>
                           \A c \in append'[b].letter.contacts \ append'[b].todo :
                             append'[b].letter.id \in index'[c]
    BY Zenon DEF IndexedSoFar, Kept, KeptNext, Doomed
  <2>1. b # a /\ append'[b] = append[b] /\ append[b].letter.id \in Nat
    BY <1>1, <1>2 DEF InFlight
  <2>2. append[b].pc = "index" /\ Kept(append[b].letter.id)
    BY <2>1, <1>1 DEF Kept, KeptNext
  <2> QED
    BY <2>1, <2>2, <1>1, <1>8 DEF IndexedSoFar
<1>10. AckedIsIndexed'
  <2> SUFFICES ASSUME NEW id \in acked, Kept(id), ~(id + Capacity < head')
               PROVE  \A c \in ring[Slot(id)].contacts : id \in index[c]
    BY <1>1 DEF AckedIsIndexed, Kept, Doomed
  <2> QED
    BY <1>3, <1>8 DEF AckedIsIndexed
<1>11. Swept' /\ ErasesAll'
  <2>1. head' >= head /\ UNCHANGED erase /\ acked \subseteq acked'
    BY <1>1, <1>3
  <2>2. \A id \in erase.read \cup erase.must :
          KeptNext(id) => Kept(id) /\ ring'[Slot(id)].contacts = ring[Slot(id)].contacts
    BY <1>1 DEF Kept, KeptNext
  <2> QED
    BY <2>1, <2>2, EraseSide
<1> QED
  BY <1>5, <1>6, <1>7, <1>9, <1>10, <1>11 DEF Parts

\* So does a put: the letters of other ids are where they were.
LEMMA PutStep ==
  ASSUME IInv, TypeOK', NEW a \in Appenders, Put(a)
  PROVE  Parts'
<1> USE DEF IInv
<1> DEFINE l == append[a].letter
<1>1. /\ append[a].pc = "put" /\ l \in Letter /\ l.id \in Ids /\ Slot(l.id) \in Slots
      /\ l # NoLetter
      /\ ring'[Slot(l.id)] = l
      /\ \A s \in Slots : s # Slot(l.id) => ring'[s] = ring[s]
      /\ append'[a].pc = "index" /\ append'[a].letter = l /\ append'[a].todo = append[a].todo
      /\ \A b \in Appenders : b # a => append'[b] = append[b]
      /\ UNCHANGED <<head, index, replay, erase, acked>>
  BY PutFacts
<1>2. /\ \A b \in Appenders : InFlight(b)' <=> InFlight(b)
      /\ \A b \in Appenders : append'[b].letter = append[b].letter
  BY <1>1 DEF InFlight
<1>3. /\ l.id \notin acked /\ l.id \notin erase.read /\ l.id \notin erase.must
      /\ \A c \in Contacts : l.id \notin index[c]
      /\ l.contacts \subseteq append[a].todo
  BY <1>1 DEF Unwritten, ErasesAll
<1>4. \A b \in Appenders : b # a /\ InFlight(b) =>
        append[b].letter.id # l.id /\ append[b].letter.id \in Ids
  BY <1>1, LetterFacts DEF OwnIds, InFlight, HasLetter
<1>5. l.id < head
  BY <1>1 DEF IdsPast, InFlight
<1> HIDE DEF l
\* The letters of the other ids are where they were.
<1>6. \A id \in Ids : id # l.id /\ KeptNext(id) => Kept(id) /\ ring'[Slot(id)] = ring[Slot(id)]
  <2>1. \A id \in Ids : id # l.id /\ KeptNext(id) => Slot(id) # Slot(l.id)
    BY <1>1 DEF KeptNext
  <2>2. \A id \in Ids : Slot(id) \in Slots
    BY LetterFacts
  <2> QED
    BY <1>1, <2>1, <2>2 DEF KeptNext, Kept
<1>7. acked \subseteq Ids /\ erase.read \subseteq Ids /\ erase.must \subseteq Ids
  BY EraseFields DEF TypeOK
<1>8. IdsPast'
  <2>1. \A b \in Appenders : InFlight(b)' => append'[b].letter.id < head'
    BY <1>1, <1>2 DEF IdsPast
  <2>2. \A s \in Slots : ring'[s] # NoLetter => ring'[s].id < head'
    BY <1>1, <1>5 DEF IdsPast
  <2> QED
    BY <1>1, <2>1, <2>2 DEF IdsPast
<1>9. OwnIds'
  BY <1>2 DEF OwnIds
<1>10. Unwritten'
  <2> SUFFICES ASSUME NEW b \in Appenders, append'[b].pc = "put"
               PROVE  /\ append'[b].letter.contacts \subseteq append'[b].todo
                      /\ ~KeptNext(append'[b].letter.id)
                      /\ append'[b].letter.id \notin acked'
                      /\ \A c \in Contacts : append'[b].letter.id \notin index'[c]
                      /\ append'[b].letter.id \notin erase'.read
    BY Zenon DEF Unwritten, Kept, KeptNext
  <2>1. b # a /\ append'[b] = append[b] /\ InFlight(b)
    BY <1>1 DEF InFlight
  <2>2. append[b].letter.id \in Ids /\ append[b].letter.id # l.id
    BY <2>1, <1>4
  <2>3. ~Kept(append[b].letter.id)
    BY <2>1 DEF Unwritten
  <2>4. ~KeptNext(append[b].letter.id)
    BY <2>2, <2>3, <1>6
  <2> QED
    BY <2>1, <2>4, <1>1 DEF Unwritten
<1>11. IndexedSoFar'
  <2> SUFFICES ASSUME NEW b \in Appenders, append'[b].pc = "index",
                      KeptNext(append'[b].letter.id)
               PROVE  /\ ring'[Slot(append'[b].letter.id)].contacts = append'[b].letter.contacts
                      /\ ~(append'[b].letter.id + Capacity < head') =>
                           \A c \in append'[b].letter.contacts \ append'[b].todo :
                             append'[b].letter.id \in index'[c]
    BY Zenon DEF IndexedSoFar, Kept, KeptNext, Doomed
  <2>1. CASE b = a
    BY <2>1, <1>1, <1>3
  <2>2. CASE b # a
    <3>1. append'[b] = append[b] /\ InFlight(b)
      BY <2>2, <1>1 DEF InFlight
    <3>2. /\ Kept(append[b].letter.id)
          /\ ring'[Slot(append[b].letter.id)] = ring[Slot(append[b].letter.id)]
      BY <2>2, <3>1, <1>4, <1>6
    <3> QED
      BY <3>1, <3>2, <1>1 DEF IndexedSoFar, Doomed
  <2> QED
    BY <2>1, <2>2
<1>12. AckedIsIndexed'
  <2> SUFFICES ASSUME NEW id \in acked, KeptNext(id), ~Doomed(id)
               PROVE  \A c \in ring'[Slot(id)].contacts : id \in index[c]
    BY <1>1 DEF AckedIsIndexed, Kept, KeptNext, Doomed
  <2>1. Kept(id) /\ ring'[Slot(id)] = ring[Slot(id)]
    BY <1>3, <1>6, <1>7
  <2> QED
    BY <2>1 DEF AckedIsIndexed
<1>13. Swept' /\ ErasesAll'
  <2>1. head' >= head /\ UNCHANGED erase /\ acked \subseteq acked'
    BY <1>1, TypeFacts
  <2>2. \A id \in erase.read \cup erase.must :
          KeptNext(id) => Kept(id) /\ ring'[Slot(id)].contacts = ring[Slot(id)].contacts
    BY <1>3, <1>6, <1>7
  <2> QED
    BY <2>1, <2>2, EraseSide
<1> QED
  BY <1>8, <1>9, <1>10, <1>11, <1>12, <1>13 DEF Parts

\* So does an index: it drops none but the ids of doomed letters.
LEMMA IndexStep ==
  ASSUME IInv, TypeOK', NEW a \in Appenders, NEW c \in Contacts, Index(a, c)
  PROVE  Parts'
<1> USE DEF IInv
<1> DEFINE n == append[a].letter.id
<1>1. /\ append[a].pc = "index" /\ append[a].letter \in Letter /\ n \in Ids
      /\ append'[a].pc = "index" /\ append'[a].letter = append[a].letter
      /\ append'[a].todo = append[a].todo \ {c}
      /\ \A b \in Appenders : b # a => append'[b] = append[b]
      /\ index'[c] = Retained(index[c], n) \cup {n}
      /\ \A d \in Contacts : d # c => index'[d] = index[d]
      /\ UNCHANGED <<head, ring, replay, erase, acked>>
  BY IndexFacts
<1>2. /\ \A b \in Appenders : InFlight(b)' <=> InFlight(b)
      /\ \A b \in Appenders : append'[b].letter = append[b].letter
  BY <1>1 DEF InFlight
<1>3. n < head /\ n \in Nat
  BY <1>1, LetterFacts DEF IdsPast, InFlight
<1>4. \A b \in Appenders : b # a /\ InFlight(b) =>
        append[b].letter.id # n /\ append[b].letter.id \in Ids
  BY <1>1, LetterFacts DEF OwnIds, InFlight, HasLetter
<1> HIDE DEF n
<1>5. \A d \in Contacts : index'[d] \subseteq index[d] \cup {n}
  BY <1>1 DEF Retained
\* An index loses none but the ids of doomed letters.
<1>6. \A d \in Contacts : \A id \in Nat :
        id \in index[d] /\ ~Doomed(id) => id \in index'[d]
  <2>1. ASSUME NEW id \in Nat, id \in index[c], ~Doomed(id), id # n
        PROVE  id \in Retained(index[c], n)
    <3>1. id + Capacity > n
      BY <2>1, <1>3, Numbers DEF Doomed
    <3> QED
      BY <2>1, <3>1 DEF Retained
  <2> QED
    BY <2>1, <1>1
<1>7. IdsPast'
  <2>1. \A d \in Contacts : \A id \in index'[d] : id < head
    BY <1>5, <1>3 DEF IdsPast
  <2>2. \A b \in Appenders : InFlight(b)' => append'[b].letter.id < head'
    BY <1>1, <1>2 DEF IdsPast
  <2> QED
    BY <1>1, <2>1, <2>2 DEF IdsPast
<1>8. OwnIds'
  BY <1>2 DEF OwnIds
<1>9. Unwritten'
  <2> SUFFICES ASSUME NEW b \in Appenders, append'[b].pc = "put"
               PROVE  /\ append'[b].letter.contacts \subseteq append'[b].todo
                      /\ ~KeptNext(append'[b].letter.id)
                      /\ append'[b].letter.id \notin acked'
                      /\ \A d \in Contacts : append'[b].letter.id \notin index'[d]
                      /\ append'[b].letter.id \notin erase'.read
    BY Zenon DEF Unwritten, Kept, KeptNext
  <2>1. b # a /\ append'[b] = append[b] /\ InFlight(b)
    BY <1>1 DEF InFlight
  <2>2. \A d \in Contacts : append[b].letter.id \notin index'[d]
    BY <2>1, <1>4, <1>5 DEF Unwritten
  <2> QED
    BY <2>1, <2>2, <1>1 DEF Unwritten, Kept, KeptNext
<1>10. IndexedSoFar'
  <2> SUFFICES ASSUME NEW b \in Appenders, append'[b].pc = "index",
                      KeptNext(append'[b].letter.id)
               PROVE  /\ ring'[Slot(append'[b].letter.id)].contacts = append'[b].letter.contacts
                      /\ ~(append'[b].letter.id + Capacity < head') =>
                           \A d \in append'[b].letter.contacts \ append'[b].todo :
                             append'[b].letter.id \in index'[d]
    BY Zenon DEF IndexedSoFar, Kept, KeptNext, Doomed
  <2> DEFINE m == append[b].letter
  <2>1. append'[b].letter = m /\ append[b].pc = "index" /\ InFlight(b)
    BY <1>1, <1>2 DEF InFlight
  <2>2. m \in Letter /\ m.id \in Nat /\ m.contacts \subseteq Contacts
    BY <2>1, LetterFacts DEF HasLetter
  <2>3. Kept(m.id)
    BY <2>1, <1>1 DEF Kept, KeptNext
  <2>4. /\ ring[Slot(m.id)].contacts = m.contacts
        /\ ~Doomed(m.id) => \A d \in m.contacts \ append[b].todo : m.id \in index[d]
    BY <2>1, <2>3 DEF IndexedSoFar
  <2>5. ASSUME ~Doomed(m.id), NEW d \in m.contacts \ append'[b].todo
        PROVE  m.id \in index'[d]
    <3>1. CASE d \in m.contacts \ append[b].todo
      BY <3>1, <2>2, <2>4, <2>5, <1>6
    <3>2. CASE d \notin m.contacts \ append[b].todo
      <4>1. b = a /\ d = c
        BY <3>2, <2>5, <1>1
      <4> QED
        BY <4>1, <1>1 DEF n
    <3> QED
      BY <3>1, <3>2
  <2> HIDE DEF m
  <2> QED
    BY <2>1, <2>4, <2>5, <1>1 DEF Doomed
<1>11. AckedIsIndexed'
  <2> SUFFICES ASSUME NEW id \in acked, Kept(id), ~Doomed(id),
                      NEW d \in ring[Slot(id)].contacts
               PROVE  id \in index'[d]
    BY <1>1 DEF AckedIsIndexed, Kept, Doomed
  <2>1. id \in index[d]
    BY DEF AckedIsIndexed
  <2>2. id \in Ids /\ id \in Nat
    BY Numbers DEF TypeOK
  <2>3. d \in Contacts
    BY <2>2, LetterFacts, TypeFacts
  <2> QED
    BY <2>1, <2>2, <2>3, <1>6
<1>12. Swept' /\ ErasesAll'
  <2>1. head' >= head /\ UNCHANGED erase /\ acked \subseteq acked'
    BY <1>1, TypeFacts
  <2>2. \A id \in erase.read \cup erase.must :
          KeptNext(id) => Kept(id) /\ ring'[Slot(id)].contacts = ring[Slot(id)].contacts
    BY <1>1 DEF Kept, KeptNext
  <2> QED
    BY <2>1, <2>2, EraseSide
<1> QED
  BY <1>7, <1>8, <1>9, <1>10, <1>11, <1>12 DEF Parts

\* So does the return of record: every contact is gone through.
LEMMA RecordedStep ==
  ASSUME IInv, TypeOK', NEW a \in Appenders, Recorded(a)
  PROVE  Parts'
<1> USE DEF IInv
<1> DEFINE n == append[a].letter.id
<1>1. /\ append[a].pc = "index" /\ append[a].todo = {}
      /\ append[a].letter \in Letter /\ n \in Ids
      /\ append'[a] = NoAppend
      /\ \A b \in Appenders : b # a => append'[b] = append[b]
      /\ acked' = acked \cup {n}
      /\ UNCHANGED <<head, ring, index, replay, erase>>
  BY EndFacts
<1>2. \A b \in Appenders : InFlight(b)' => b # a /\ InFlight(b) /\ append'[b] = append[b]
  BY <1>1, Nones DEF InFlight
<1>3. n < head
  BY <1>1 DEF IdsPast, InFlight
<1>4. \A b \in Appenders : b # a /\ InFlight(b) => append[b].letter.id # n
  BY <1>1 DEF OwnIds, InFlight
<1>5. IdsPast'
  <2>1. \A b \in Appenders : InFlight(b)' => append'[b].letter.id < head'
    BY <1>1, <1>2 DEF IdsPast
  <2>2. \A id \in acked' : id < head'
    BY <1>1, <1>3 DEF IdsPast
  <2> QED
    BY <1>1, <2>1, <2>2 DEF IdsPast
<1>6. OwnIds'
  BY <1>2 DEF OwnIds
<1>7. Unwritten'
  <2> SUFFICES ASSUME NEW b \in Appenders, append'[b].pc = "put"
               PROVE  /\ append'[b].letter.contacts \subseteq append'[b].todo
                      /\ ~KeptNext(append'[b].letter.id)
                      /\ append'[b].letter.id \notin acked'
                      /\ \A c \in Contacts : append'[b].letter.id \notin index'[c]
                      /\ append'[b].letter.id \notin erase'.read
    BY Zenon DEF Unwritten, Kept, KeptNext
  <2>1. b # a /\ append'[b] = append[b] /\ InFlight(b)
    BY <1>2 DEF InFlight
  <2> QED
    BY <2>1, <1>1, <1>4 DEF Unwritten, Kept, KeptNext
<1>8. IndexedSoFar'
  <2> SUFFICES ASSUME NEW b \in Appenders, append'[b].pc = "index",
                      KeptNext(append'[b].letter.id)
               PROVE  /\ ring'[Slot(append'[b].letter.id)].contacts = append'[b].letter.contacts
                      /\ ~(append'[b].letter.id + Capacity < head') =>
                           \A c \in append'[b].letter.contacts \ append'[b].todo :
                             append'[b].letter.id \in index'[c]
    BY Zenon DEF IndexedSoFar, Kept, KeptNext, Doomed
  <2>1. append'[b] = append[b]
    BY <1>2 DEF InFlight
  <2> QED
    BY <2>1, <1>1 DEF IndexedSoFar, Kept, KeptNext, Doomed
<1>9. AckedIsIndexed'
  <2> SUFFICES ASSUME NEW id \in acked', Kept(id), ~Doomed(id)
               PROVE  \A c \in ring[Slot(id)].contacts : id \in index[c]
    BY <1>1 DEF AckedIsIndexed, Kept, Doomed
  <2>1. CASE id \in acked
    BY <2>1 DEF AckedIsIndexed
  <2>2. CASE id = n
    BY <2>2, <1>1 DEF IndexedSoFar
  <2> QED
    BY <2>1, <2>2, <1>1
<1>10. Swept' /\ ErasesAll'
  <2>1. head' >= head /\ UNCHANGED erase /\ acked \subseteq acked'
    BY <1>1, TypeFacts
  <2>2. \A id \in erase.read \cup erase.must :
          KeptNext(id) => Kept(id) /\ ring'[Slot(id)].contacts = ring[Slot(id)].contacts
    BY <1>1 DEF Kept, KeptNext
  <2> QED
    BY <2>1, <2>2, EraseSide
<1> QED
  BY <1>5, <1>6, <1>7, <1>8, <1>9, <1>10 DEF Parts

\* Replays, removals by hand and appends that stop.
LEMMA QuietStep ==
  ASSUME IInv, TypeOK', Keeps, AppendsEnd, UNCHANGED <<head, index, erase, acked>>
  PROVE  Parts'
<1> USE DEF IInv
<1>1. IndexKeeps
  BY DEF IndexKeeps
<1>2. IdsPast' /\ OwnIds' /\ Unwritten' /\ IndexedSoFar' /\ AckedIsIndexed'
  BY <1>1, AppendSide
<1>3. \A id \in erase.read \cup erase.must :
        KeptNext(id) => Kept(id) /\ ring'[Slot(id)].contacts = ring[Slot(id)].contacts
  BY EraseFields, KeepsKept DEF Kept, KeptNext
<1>4. head' >= head
  BY TypeFacts
<1> QED
  BY <1>2, <1>3, <1>4, EraseSide DEF Parts

-----------------------------------------------------------------------------
(* The invariant is kept: the erasure.                                     *)

\* An erasure that begins has every letter it is to erase to come;
LEMMA EraseBeginsStep ==
  ASSUME IInv, TypeOK', NEW who \in Persons, EraseBegins(who)
  PROVE  Parts'
<1> USE DEF IInv
<1>1. /\ erase'.pc = "next" /\ erase'.todo = who /\ erase'.read = {}
      /\ erase'.must = {ring[s].id : s \in Named(who)} \cap acked
      /\ UNCHANGED <<head, ring, index, append, replay, acked>>
  BY EraseBeginsFacts
<1>2. Keeps /\ AppendsEnd /\ IndexKeeps
  BY <1>1, KeepsSame DEF AppendsEnd, IndexKeeps
<1>3. IdsPast' /\ OwnIds' /\ Unwritten' /\ IndexedSoFar' /\ AckedIsIndexed'
  BY <1>1, <1>2, AppendSide
<1>4. Swept'
  BY <1>1 DEF Swept
<1>5. ASSUME NEW id \in erase'.must, Kept(id)
      PROVE  who \cap ring[Slot(id)].contacts # {}
  <2>1. PICK s \in Named(who) : ring[s].id = id
    BY <1>1, <1>5
  <2>2. s \in Slots /\ ring[s].contacts \cap who # {}
    BY <2>1 DEF Named
  <2>3. ring[s] # NoLetter
    BY <2>2, LetterFacts
  <2>4. Slot(id) = s
    BY <2>1, <2>2, <2>3 DEF TypeOK
  <2> QED
    BY <2>2, <2>4
<1>6. ErasesAll'
  BY <1>1, <1>5 DEF ErasesAll, ToCome, Kept
<1> QED
  BY <1>3, <1>4, <1>6 DEF Parts

\* one it comes to through an index is in the index read;
LEMMA EraseReadStep ==
  ASSUME IInv, TypeOK', NEW c \in Contacts, EraseRead(c)
  PROVE  Parts'
<1> USE DEF IInv
<1>1. /\ erase.pc \in {"next", "reread"}
      /\ erase'.pc = "letters" /\ erase'.at = {c} /\ erase'.todo = erase.todo \ {c}
      /\ erase'.read = index[c] /\ erase'.left = index[c] /\ erase'.must = erase.must
      /\ UNCHANGED <<head, ring, index, append, replay, acked>>
  BY EraseReadFacts
<1>2. Keeps /\ AppendsEnd /\ IndexKeeps
  BY <1>1, KeepsSame DEF AppendsEnd, IndexKeeps
<1>3. IdsPast' /\ OwnIds' /\ Unwritten' /\ IndexedSoFar' /\ AckedIsIndexed'
  BY <1>1, <1>2, AppendSide
<1>4. Swept'
  BY <1>1 DEF Swept
<1>5. ASSUME NEW id \in erase.must, Kept(id), ~Doomed(id)
      PROVE  \/ (erase.todo \ {c}) \cap ring[Slot(id)].contacts # {}
             \/ {c} \subseteq ring[Slot(id)].contacts /\ id \in index[c]
  <2>1. erase.todo \cap ring[Slot(id)].contacts # {}
    BY <1>1, <1>5 DEF ErasesAll, ToCome
  <2>2. c \in ring[Slot(id)].contacts => id \in index[c]
    BY <1>5 DEF ErasesAll, AckedIsIndexed
  <2> QED
    BY <2>1, <2>2
<1>6. ErasesAll'
  <2>1. erase'.must \subseteq acked'
    BY <1>1 DEF ErasesAll
  <2> SUFFICES ASSUME NEW id \in erase.must, Kept(id), ~Doomed(id)
               PROVE  ToCome(id)'
    BY <1>1, <2>1 DEF ErasesAll, Kept, Doomed
  <2> QED
    BY <1>1, <1>5 DEF ToCome
<1> QED
  BY <1>3, <1>4, <1>6 DEF Parts

\* one it goes through is gone, or does not name the contact;
LEMMA EraseLetterStep ==
  ASSUME IInv, TypeOK', NEW n \in Ids, EraseLetter(n)
  PROVE  Parts'
<1> USE DEF IInv
<1>1. /\ erase.pc = "letters" /\ n \in erase.left
      /\ erase'.pc = "letters" /\ erase'.left = erase.left \ {n}
      /\ erase'.at = erase.at /\ erase'.todo = erase.todo
      /\ erase'.read = erase.read /\ erase'.must = erase.must
      /\ Keeps
      /\ Kept(n)' => ~(erase.at \subseteq ring'[Slot(n)].contacts)
      /\ UNCHANGED <<head, index, append, replay, acked>>
  BY EraseLetterFacts
<1>2. AppendsEnd /\ IndexKeeps
  BY <1>1 DEF AppendsEnd, IndexKeeps
<1>3. IdsPast' /\ OwnIds' /\ Unwritten' /\ IndexedSoFar' /\ AckedIsIndexed'
  BY <1>1, <1>2, AppendSide
<1>4. \A id \in Ids :
        KeptNext(id) => Kept(id) /\ ring'[Slot(id)].contacts = ring[Slot(id)].contacts
  BY <1>1, KeepsKept DEF Kept, KeptNext
<1>5. KeptNext(n) => ~(erase.at \subseteq ring'[Slot(n)].contacts)
  BY <1>1 DEF Kept, KeptNext
<1>6. Swept'
  <2>1. \E c \in Contacts : erase'.at = {c}
    BY <1>1 DEF Swept
  <2>2. ASSUME NEW id \in erase.read \ (erase.left \ {n}), KeptNext(id)
        PROVE  ~(erase.at \subseteq ring'[Slot(id)].contacts)
    <3>1. CASE id = n
      BY <3>1, <2>2, <1>5
    <3>2. CASE id # n
      <4>1. id \in erase.read \ erase.left /\ id \in Ids
        BY <3>2, EraseFields
      <4> QED
        BY <4>1, <2>2, <1>1, <1>4 DEF Swept
    <3> QED
      BY <3>1, <3>2
  <2> QED
    BY <2>1, <2>2, <1>1 DEF Swept, Kept, KeptNext
<1>7. ErasesAll'
  <2>1. erase'.must \subseteq acked'
    BY <1>1 DEF ErasesAll
  <2> SUFFICES ASSUME NEW id \in erase.must, KeptNext(id), ~Doomed(id)
               PROVE  ToCome(id)'
    BY <1>1, <2>1 DEF ErasesAll, Kept, KeptNext, Doomed
  <2>2. Kept(id) /\ ring'[Slot(id)].contacts = ring[Slot(id)].contacts
    BY <1>4, EraseFields
  <2>3. ToCome(id)
    BY <2>2, <1>1 DEF ErasesAll
  <2> QED
    BY <2>2, <2>3, <1>1, <1>5 DEF ToCome
<1> QED
  BY <1>3, <1>6, <1>7 DEF Parts

\* so the index deleted lists no letter of the contact that is kept;
LEMMA EraseIndexStep ==
  ASSUME IInv, TypeOK', NEW c \in Contacts, EraseIndex(c)
  PROVE  Parts'
<1> USE DEF IInv
<1>1. /\ erase.pc = "letters" /\ erase.left = {} /\ c \in erase.at
      /\ erase'.todo = erase.todo /\ erase'.must = erase.must
      /\ \/ /\ index[c] = erase.read
            /\ index'[c] = {} /\ \A d \in Contacts : d # c => index'[d] = index[d]
            /\ erase'.pc = "next" /\ erase'.read = {}
         \/ /\ UNCHANGED index
            /\ erase'.pc = "reread" /\ erase'.read = erase.read
            /\ erase'.at = erase.at
      /\ UNCHANGED <<head, ring, append, replay, acked>>
  BY EraseIndexFacts
<1>2. Keeps /\ AppendsEnd
  BY <1>1, KeepsSame DEF AppendsEnd
<1>3. IndexKeeps
  <2>1. CASE UNCHANGED index
    BY <2>1 DEF IndexKeeps
  <2>2. CASE /\ index[c] = erase.read
             /\ index'[c] = {} /\ \A d \in Contacts : d # c => index'[d] = index[d]
    <3>1. \A id \in erase.read : Kept(id) => c \notin ring[Slot(id)].contacts
      <4>1. erase.at = {c}
        BY <1>1 DEF Swept
      <4> QED
        BY <4>1, <1>1 DEF Swept
    <3>2. \A id \in erase.read : KeptNext(id) => c \notin ring'[Slot(id)].contacts
      BY <3>1, <1>1 DEF Kept, KeptNext
    <3> QED
      BY <2>2, <3>2 DEF IndexKeeps
  <2> QED
    BY <1>1, <2>1, <2>2
<1>4. IdsPast' /\ OwnIds' /\ Unwritten' /\ IndexedSoFar' /\ AckedIsIndexed'
  <2>1. \A id \in erase'.read : id \in erase.read \/ \E d \in Contacts : id \in index[d]
    BY <1>1
  <2> QED
    BY <1>1, <1>2, <1>3, <2>1, AppendSide
<1>5. Swept'
  BY <1>1 DEF Swept
<1>6. ErasesAll'
  <2>1. erase'.must \subseteq acked'
    BY <1>1 DEF ErasesAll
  <2> SUFFICES ASSUME NEW id \in erase.must, Kept(id), ~Doomed(id)
               PROVE  ToCome(id)'
    BY <1>1, <2>1 DEF ErasesAll, Kept, Doomed
  <2>2. erase.todo \cap ring[Slot(id)].contacts # {}
    BY <1>1 DEF ErasesAll, ToCome
  <2> QED
    BY <2>2, <1>1 DEF ToCome
<1> QED
  BY <1>4, <1>5, <1>6 DEF Parts

\* and when it returns nothing is to come.
LEMMA EraseLeavesStep ==
  ASSUME IInv, TypeOK', EraseReturns \/ EraseEnds
  PROVE  Parts'
<1> USE DEF IInv
<1>1. UNCHANGED <<head, ring, index, append, replay, acked>>
  BY EraseReturnsFacts, EraseEndsFacts
<1>2. \/ /\ erase.pc = "next" /\ erase'.pc = "done" /\ erase.todo = {} /\ erase'.todo = {}
         /\ erase'.read = erase.read /\ erase'.must = erase.must
      \/ erase'.pc = "idle" /\ erase'.read = {} /\ erase'.must = {}
  BY EraseReturnsFacts, EraseEndsFacts, Nones
<1>3. Keeps /\ AppendsEnd /\ IndexKeeps
  BY <1>1, KeepsSame DEF AppendsEnd, IndexKeeps
<1>4. IdsPast' /\ OwnIds' /\ Unwritten' /\ IndexedSoFar' /\ AckedIsIndexed'
  BY <1>1, <1>2, <1>3, AppendSide
<1>5. Swept'
  BY <1>2 DEF Swept
<1>6. ErasesAll'
  <2>1. erase'.must \subseteq acked'
    BY <1>1, <1>2 DEF ErasesAll
  <2>2. ASSUME erase'.pc # "idle", NEW id \in erase'.must, Kept(id)', ~Doomed(id)'
        PROVE  FALSE
    <3>1. Kept(id) /\ ~Doomed(id) /\ id \in erase.must /\ erase.pc = "next" /\ erase.todo = {}
      BY <2>2, <1>1, <1>2 DEF Kept, Doomed
    <3> QED
      BY <3>1 DEF ErasesAll, ToCome
  <2> QED
    BY <2>1, <2>2, <1>2 DEF ErasesAll
<1> QED
  BY <1>4, <1>5, <1>6 DEF Parts

-----------------------------------------------------------------------------
(* The theorems.                                                           *)

\* The invariant holds at first,
LEMMA Initial == Init => IInv
<1> SUFFICES ASSUME Init PROVE IInv
  OBVIOUS
<1> USE DEF Init
<1>1. /\ \A s \in Slots : ring[s] = NoLetter
      /\ \A a \in Appenders : append[a].pc = "idle"
      /\ \A y \in Replays : replay[y].pc = "idle"
      /\ erase.pc = "idle" /\ erase.read = {} /\ erase.must = {}
  BY Nones
<1>2. TypeOK
  BY Nones, BoundsAssumption, <1>1 DEF TypeOK, Ids
<1>3. HasLetter /\ IdsPast /\ OwnIds /\ Unwritten
  BY <1>1 DEF HasLetter, IdsPast, OwnIds, Unwritten, InFlight
<1>4. IndexedSoFar /\ AckedIsIndexed /\ Swept /\ ErasesAll
  BY <1>1 DEF IndexedSoFar, AckedIsIndexed, Swept, ErasesAll
<1> QED
  BY <1>2, <1>3, <1>4 DEF IInv

\* and every step keeps it.
LEMMA Inductive == IInv /\ [Next]_vars => IInv'
<1> SUFFICES ASSUME IInv, Next \/ UNCHANGED vars PROVE IInv'
  OBVIOUS
<1> USE DEF IInv
<1>1. TypeOK' /\ HasLetter'
  BY TypeStep
<1>2. Keeps \/ \E a \in Appenders : Put(a)
  BY RingStep
<1>3. ASSUME NEW a \in Appenders, Append(a)
      PROVE  Parts'
  <2>1. CASE \E contacts \in Naming : NextId(a, contacts)
    BY <2>1, <1>1, NextIdStep
  <2>2. CASE Put(a)
    BY <2>2, <1>1, PutStep
  <2>3. CASE \E c \in Contacts : Index(a, c)
    BY <2>3, <1>1, IndexStep
  <2>4. CASE Recorded(a)
    BY <2>4, <1>1, RecordedStep
  <2>5. CASE StopBeforePut(a) \/ IndexFails(a)
    <3>1. AppendsEnd /\ UNCHANGED <<head, index, erase, acked>>
      BY <2>5, EndFacts DEF AppendsEnd
    <3>2. \A b \in Appenders : ~Put(b)
      <4>1. append'[a] = NoAppend /\ \A b \in Appenders : b # a => append'[b] = append[b]
        BY <2>5, EndFacts
      <4>2. \A b \in Appenders : Put(b) => append[b].pc = "put" /\ append'[b].pc = "index"
        BY PutFacts
      <4> QED
        BY <4>1, <4>2, Nones
    <3> QED
      BY <3>1, <3>2, <1>1, <1>2, QuietStep
  <2> QED
    BY <1>3, <2>1, <2>2, <2>3, <2>4, <2>5 DEF Append
<1>4. ASSUME UNCHANGED <<head, index, append, erase, acked>>
      PROVE  Parts'
  <2>1. AppendsEnd
    BY <1>4 DEF AppendsEnd
  <2>2. \A b \in Appenders : ~Put(b)
    BY <1>4, PutFacts
  <2> QED
    BY <1>4, <2>1, <2>2, <1>1, <1>2, QuietStep
<1>5. ASSUME NEW y \in Replays, Replay(y)
      PROVE  Parts'
  BY <1>5, <1>4, ReplayFacts
<1>6. ASSUME NEW id \in Ids, Remove(id)
      PROVE  Parts'
  BY <1>6, <1>4 DEF Remove
<1>7. ASSUME Erase
      PROVE  Parts'
  BY <1>7, <1>1, EraseBeginsStep, EraseReadStep, EraseIndexStep, EraseLetterStep,
     EraseLeavesStep DEF Erase
<1>8. ASSUME UNCHANGED vars
      PROVE  Parts'
  <2>1. UNCHANGED <<head, index, append, erase, acked>>
    BY <1>8 DEF vars
  <2> QED
    BY <2>1, <1>4, Zenon
<1> HIDE DEF IInv
<1>9. Parts'
  BY <1>3, <1>5, <1>6, <1>7, <1>8, Zenon DEF Next
<1> QED
  BY <1>1, <1>9 DEF Parts, IInv

\* Every variable has its type, and a letter is in its own slot: a put goes
\* to the slot of the id it took, however late it comes.
THEOREM TypeCorrect == Spec => []TypeOK
<1>1. IInv => TypeOK
  BY DEF IInv
<1> QED
  BY <1>1, Initial, Inductive, PTL DEF Spec

\* The invariant holds throughout.
LEMMA InvariantHolds == Spec => []IInv
BY Initial, Inductive, PTL DEF Spec

\* A letter that was erased, removed, replayed or evicted does not come back:
\* in a slot a letter appears only by the put of the append that took its id
\* (record); replay's update is a swap, not a write of what it read.
THEOREM LettersDoNotComeBack == Spec => NoResurrection
<1> DEFINE Step == \A s \in Slots :
             ring'[s] # NoLetter /\ ring'[s].id # ring[s].id =>
               \E a \in Appenders : append[a].pc = "put" /\ append[a].letter = ring'[s]
<1>1. IInv /\ [Next]_vars => Step
  <2> SUFFICES ASSUME IInv, Next \/ UNCHANGED vars PROVE Step
    OBVIOUS
  <2>1. CASE Keeps
    BY <2>1 DEF Keeps
  <2>2. ASSUME NEW a \in Appenders, Put(a)
        PROVE  Step
    BY <2>2, PutFacts DEF IInv
  <2> QED
    BY <2>1, <2>2, RingStep DEF IInv
<1> QED
  BY <1>1, InvariantHolds, PTL DEF Spec, NoResurrection

\* When an erasure returns, a letter of the person that was acknowledged
\* before it began is kept only if Capacity later ids have been taken: each of
\* the newest Capacity letters that names the person is gone, whatever
\* appends, replays, removals and failures ran beside it (record, erase).
THEOREM EraseMissesNoOther == Spec => []EraseMissesOnlyOutrun
<1>1. IInv => EraseMissesOnlyOutrun
  <2> SUFFICES ASSUME IInv, erase.pc = "done", NEW id \in erase.must, Kept(id)
               PROVE  Doomed(id)
    BY DEF EraseMissesOnlyOutrun, Doomed
  <2>1. erase.todo = {}
    BY DEF IInv, ErasesAll
  <2>2. ~Doomed(id) => ToCome(id)
    BY DEF IInv, ErasesAll
  <2> QED
    BY <2>1, <2>2 DEF ToCome
<1> QED
  BY <1>1, InvariantHolds, PTL DEF Spec
=============================================================================
