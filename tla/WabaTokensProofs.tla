-------------------------- MODULE WabaTokensProofs --------------------------
(***************************************************************************)
(* Proofs about WabaTokens: for any number of tenants, attaches and        *)
(* requests, however they interleave and wherever they stop, a token goes  *)
(* with its binding, a capability carries its own tenant's token and       *)
(* deletes no other (but for the tokens "how" excepts), a token written    *)
(* after the WABA had moved is taken back unless its attach fails or stops *)
(* first, and a confirmed attach keeps its token.                          *)
(*                                                                         *)
(* What makes them inductive: a binding never comes back (EpochsPast), so  *)
(* what a request learnt of the binding it read stays true or that binding *)
(* is over; and a version of the vault's record is written once            *)
(* (ReadIsTheRecord, StrayHasMoved, TakesBackItsOwn), so a conditional     *)
(* delete takes the token its request knows or none.                       *)
(***************************************************************************)
EXTENDS WabaTokens, TLAPS

-----------------------------------------------------------------------------
(* The inductive invariant.                                                *)

\* The steps at which an attach knows the binding it stores under, and those
\* at which it has stored its token and not given it up.
Reading == {"store", "confirm", "takeback", "attached"}
Keeping == {"confirm", "attached"}

\* e is a binding of the past, or the present one: of the same start, it has
\* the same tenant and was refreshed no more often.
Past(e) == /\ e.tenant \in Tenants /\ e.start \in 1..starts /\ e.gen \in Nat
           /\ e.start = binding.start
                => e.tenant = binding.tenant /\ e.gen <= binding.gen

\* What requests hold of the binding was once the binding.
EpochsPast ==
  /\ binding = Unbound \/ Past(binding)
  /\ \A a \in Attaches :
       /\ att[a].pc \in Reading \cup {"bound"} => att[a].tenant \in Tenants
       /\ att[a].pc \in Reading
            => Past(att[a].epoch) /\ att[a].epoch.tenant = att[a].tenant
  /\ \A h \in Openers :
       cap[h].pc \notin {"idle", "forced", "forcedunbind", "done"} => Past(cap[h].epoch)

\* An unbinding on its way to the binding has left no token of the binding.
UnbindingCleared == Unbinding => ~(Stored /\ vault.how = "own")

\* A request that read the vault read a token of its binding's tenant, or its
\* binding is over; past its check, it did read one.
OpensOwn == \A h \in Openers :
  /\ cap[h].pc = "check" /\ binding = cap[h].epoch
       /\ cap[h].read.tok # NoTenant /\ cap[h].read.how = "own"
       => cap[h].read.tok = cap[h].epoch.tenant
  /\ cap[h].pc \in {"held", "forget"} => cap[h].read.tok # NoTenant

\* A token read at the version the record still has is the one in the record.
ReadIsTheRecord == \A h \in Openers :
  cap[h].read.tok # NoTenant /\ At(cap[h].read.ver) => cap[h].read = vault

\* A stray token's attach has lost its binding; so has one that takes its token
\* back.
StrayHasMoved == \A a \in Attaches :
  /\ Stored /\ vault.how = "stray" /\ att[a].pc = "confirm" /\ At(att[a].written)
       => ~SameBinding(att[a].epoch)
  /\ att[a].pc = "takeback" => ~SameBinding(att[a].epoch)

\* While its binding lasts, what an attach stored is there, or was replaced by
\* a token of the same tenant, or was deleted or overwritten as spoiled says.
TokenIsKept == \A a \in Attaches :
  att[a].pc \in Keeping /\ SameBinding(att[a].epoch)
    => (Stored /\ vault.tok = att[a].tenant) \/ spoiled >= att[a].written

\* A token stored since, by an attach whose binding is over, was stray when it
\* was stored: taking it back takes none that replaced this attach's token.
TakesBackItsOwn == \A a, b \in Attaches :
  /\ att[a].pc \in Keeping /\ SameBinding(att[a].epoch)
  /\ att[b].pc \in {"confirm", "takeback"} /\ ~SameBinding(att[b].epoch)
  /\ att[a].written <= att[b].written
  => spoiled >= att[a].written

IInv == /\ TypeOK /\ EpochsPast
        /\ TokenIsBound /\ UnbindingCleared
        /\ OpensOwn /\ HeldOwn /\ ReadIsTheRecord
        /\ StrayHasMoved /\ StrayIsTakenBack
        /\ TokenIsKept /\ TakesBackItsOwn

-----------------------------------------------------------------------------
(* The invariant holds at first.                                           *)

LEMMA InitInv == Init => IInv
<1> SUFFICES ASSUME Init PROVE IInv
  OBVIOUS
<1>1. TypeOK
  BY BoundsAssumption DEF Init, TypeOK, AttachStates, OpenStates, Epochs, Records, MaybeTenant,
                          Written, Unbound, NoRecord, NewAttach, NewOpen
<1>2. EpochsPast
  BY DEF Init, EpochsPast, Reading, NewAttach, NewOpen
<1>3. TokenIsBound /\ UnbindingCleared /\ StrayIsTakenBack
  BY DEF Init, TokenIsBound, UnbindingCleared, StrayIsTakenBack, Stored, NoRecord
<1>4. OpensOwn /\ HeldOwn /\ ReadIsTheRecord
  BY DEF Init, OpensOwn, HeldOwn, ReadIsTheRecord, NewOpen, NoRecord
<1>5. StrayHasMoved /\ TokenIsKept /\ TakesBackItsOwn
  BY DEF Init, StrayHasMoved, TokenIsKept, TakesBackItsOwn, Keeping, NewAttach
<1>6. QED BY <1>1, <1>2, <1>3, <1>4, <1>5 DEF IInv

-----------------------------------------------------------------------------
(* Every step keeps it.                                                    *)

\* A request's states are states still when a binding began or the record was
\* written.
LEMMA StatesGrow ==
  ASSUME starts \in Nat, starts' \in Nat, starts <= starts',
         vault.ver \in Nat, vault'.ver \in Nat, vault.ver <= vault'.ver
  PROVE  /\ AttachStates \subseteq AttachStates' /\ OpenStates \subseteq OpenStates'
         /\ Epochs \subseteq Epochs' /\ Records \subseteq Records'
         /\ [NewAttach EXCEPT !.pc = "done"] \in AttachStates'
         /\ [NewOpen EXCEPT !.pc = "done"] \in OpenStates'
         /\ [NewOpen EXCEPT !.pc = "forced"] \in OpenStates'
<1>1. 0..starts \subseteq 0..starts' /\ 0..vault.ver \subseteq 0..vault'.ver
  OBVIOUS
<1>2. Epochs \subseteq Epochs' /\ Records \subseteq Records'
  BY <1>1 DEF Epochs, Records, MaybeTenant, Written
<1>3. AttachStates \subseteq AttachStates' /\ OpenStates \subseteq OpenStates'
  BY <1>1, <1>2 DEF AttachStates, OpenStates, MaybeTenant
<1>4. Unbound \in Epochs' /\ NoRecord \in Records' /\ 0 \in 0..vault'.ver
  BY DEF Unbound, NoRecord, Epochs, Records, MaybeTenant, Written
<1>5. [NewAttach EXCEPT !.pc = "done"] \in AttachStates'
  <2>1. [NewAttach EXCEPT !.pc = "done"]
          = [pc |-> "done", tenant |-> NoTenant, epoch |-> Unbound, written |-> 0]
    BY DEF NewAttach
  <2>2. QED BY <1>4, <2>1 DEF AttachStates, MaybeTenant
<1>6. /\ [NewOpen EXCEPT !.pc = "done"] \in OpenStates'
      /\ [NewOpen EXCEPT !.pc = "forced"] \in OpenStates'
  BY <1>4 DEF NewOpen, OpenStates
<1>7. QED BY <1>2, <1>3, <1>5, <1>6

\* A step that leaves the binding, the vault and the attaches as they are
\* leaves what is said of them.
LEMMA AttachesKept ==
  ASSUME IInv, UNCHANGED <<binding, starts, vault, att, spoiled>>
  PROVE  (TokenIsBound /\ StrayHasMoved /\ StrayIsTakenBack /\ TokenIsKept /\ TakesBackItsOwn)'
BY DEF IInv, TokenIsBound, StrayHasMoved, StrayIsTakenBack, TokenIsKept, TakesBackItsOwn,
       Stored, At, SameBinding

\* One that leaves the binding, the vault and the other requests as they are
\* leaves what is said of those.
LEMMA OpensKept ==
  ASSUME IInv, UNCHANGED <<binding, starts, vault, cap>>
  PROVE  (TokenIsBound /\ UnbindingCleared /\ OpensOwn /\ HeldOwn /\ ReadIsTheRecord)'
BY DEF IInv, TokenIsBound, UnbindingCleared, OpensOwn, HeldOwn, ReadIsTheRecord, Stored, At,
       Unbinding

\* A record written again has a version nobody holds, and no stray token.
LEMMA ResealKeeps ==
  ASSUME IInv, Reseal
  PROVE  IInv'
<1>1. /\ vault'.ver = vault.ver + 1 /\ vault'.tok = vault.tok /\ Stored
      /\ vault'.how # "stray" /\ (vault'.how = "own" => vault.how = "own")
      /\ UNCHANGED <<binding, starts, att, cap, spoiled>>
  BY DEF Reseal, Put
<1>2. TypeOK'
  <2>1. vault' \in Records' /\ reseals' \in 0..MaxReseals
    BY BoundsAssumption DEF IInv, TypeOK, Reseal, Put, Records, Written
  <2>2. QED BY <1>1, <2>1, StatesGrow DEF IInv, TypeOK
<1>3. EpochsPast'
  BY <1>1 DEF IInv, EpochsPast, Past
<1>4. TokenIsBound' /\ UnbindingCleared' /\ OpensOwn' /\ HeldOwn'
  BY <1>1 DEF IInv, TokenIsBound, UnbindingCleared, OpensOwn, HeldOwn, Stored, Unbinding
<1>5. ReadIsTheRecord'
  BY <1>1 DEF IInv, TypeOK, OpenStates, Records, ReadIsTheRecord, At
<1>6. StrayHasMoved' /\ StrayIsTakenBack'
  BY <1>1 DEF IInv, StrayHasMoved, StrayIsTakenBack, SameBinding
<1>7. TokenIsKept' /\ TakesBackItsOwn'
  BY <1>1 DEF IInv, TokenIsKept, TakesBackItsOwn, Stored, SameBinding
<1>8. QED BY <1>2, <1>3, <1>4, <1>5, <1>6, <1>7 DEF IInv

\* A binding that begins has a start nobody holds, one refreshed a greater
\* generation than anybody's.
LEMMA BindKeeps ==
  ASSUME IInv, NEW a \in Attaches, NEW t \in Tenants, Bind(a, t)
  PROVE  IInv'
<1> DEFINE Bound == [att[a] EXCEPT !.pc = "bound", !.tenant = t]
           Over == [NewAttach EXCEPT !.pc = "done"]
<1>1. att' = [att EXCEPT ![a] = Bound] \/ att' = [att EXCEPT ![a] = Over]
  BY DEF IInv, TypeOK, AttachStates, Bind, AttachOver
<1>2. /\ \A b \in Attaches : b # a => att'[b] = att[b]
      /\ att'[a].pc \in {"bound", "done"} /\ (att'[a].pc = "bound" => att'[a].tenant = t)
      /\ UNCHANGED <<vault, cap, reseals, spoiled>>
  <2>1. \A b \in Attaches : b # a => att'[b] = att[b]
    BY <1>1 DEF IInv, TypeOK
  <2>2. att'[a] = Bound \/ att'[a] = Over
    BY <1>1 DEF IInv, TypeOK
  <2>3. att[a] \in AttachStates
    BY DEF IInv, TypeOK
  <2>4. Bound.pc = "bound" /\ Bound.tenant = t /\ Over.pc = "done"
    BY <2>3 DEF AttachStates, NewAttach
  <2>5. UNCHANGED <<vault, cap, reseals, spoiled>>
    BY DEF Bind
  <2> QED
    BY <2>1, <2>2, <2>4, <2>5
<1>3. \/ UNCHANGED <<binding, starts>>
      \/ /\ binding.tenant = t /\ starts' = starts
         /\ binding' = [binding EXCEPT !.gen = @ + 1]
      \/ /\ binding = Unbound /\ starts' = starts + 1
         /\ binding' = [tenant |-> t, start |-> starts + 1, gen |-> 1]
  BY DEF Bind
<1>4. TypeOK'
  <2>1. starts \in Nat /\ starts' \in Nat /\ starts <= starts' /\ vault.ver \in Nat
    BY <1>3 DEF IInv, TypeOK
  <2>2. Bound \in AttachStates
    BY DEF IInv, TypeOK, AttachStates, MaybeTenant
  <2>3. binding' \in Epochs'
    BY <1>3, <2>1 DEF IInv, TypeOK, Epochs, MaybeTenant
  <2>4. att' \in [Attaches -> AttachStates']
    BY <1>1, <1>2, <2>1, <2>2, StatesGrow DEF IInv, TypeOK
  <2>5. cap' \in [Openers -> OpenStates']
    BY <1>2, <2>1, StatesGrow DEF IInv, TypeOK
  <2>6. vault' \in Records' /\ spoiled' \in 0..vault'.ver /\ reseals' \in 0..MaxReseals
    BY <1>2 DEF IInv, TypeOK, Records
  <2>7. QED BY <1>2, <2>1, <2>3, <2>4, <2>5, <2>6 DEF TypeOK
<1>5. TokenIsBound'
  BY <1>2, <1>3 DEF IInv, TypeOK, Epochs, TokenIsBound, Stored, Unbound
<1>6. \A e : Past(e) => Past(e)'
  BY <1>3, TenantsAssumption DEF IInv, TypeOK, EpochsPast, Past, Epochs, Unbound
<1>7. \A e : Past(e) => (SameBinding(e)' <=> SameBinding(e))
  BY <1>3, TenantsAssumption DEF IInv, TypeOK, EpochsPast, Past, Epochs, Unbound, SameBinding
<1>8. TokenIsKept'
  BY <1>2, <1>7 DEF IInv, TokenIsKept, Stored, Keeping, EpochsPast, Reading
<1>9. TakesBackItsOwn'
  BY <1>2, <1>7 DEF IInv, TakesBackItsOwn, Keeping, EpochsPast, Reading
<1>10. StrayHasMoved'
  BY <1>2, <1>7 DEF IInv, StrayHasMoved, EpochsPast, Reading, At, Stored
<1>11. StrayIsTakenBack'
  BY <1>2 DEF IInv, StrayIsTakenBack, Stored, Bind
<1>12. EpochsPast'
  BY <1>2, <1>3, <1>6, TenantsAssumption
     DEF IInv, TypeOK, EpochsPast, Reading, Past, Epochs, Unbound
<1>13. OpensOwn'
  BY <1>2, <1>3 DEF IInv, TypeOK, OpensOwn, EpochsPast, Past, Epochs
<1>14. UnbindingCleared'
  BY <1>2, <1>3 DEF IInv, TypeOK, UnbindingCleared, Unbinding, Stored, EpochsPast, Past, Epochs
<1>15. HeldOwn' /\ ReadIsTheRecord'
  BY <1>2 DEF IInv, HeldOwn, ReadIsTheRecord, At, Stored
<1>16. QED BY <1>4, <1>5, <1>8, <1>9, <1>10, <1>11, <1>12, <1>13, <1>14, <1>15 DEF IInv

\* The attach reads the present binding.
LEMMA ReadBindingKeeps ==
  ASSUME IInv, NEW a \in Attaches, ReadBinding(a)
  PROVE  IInv'
<1> DEFINE Read == [att[a] EXCEPT !.pc = "store", !.epoch = binding]
           Over == [NewAttach EXCEPT !.pc = "done"]
<1>1. \/ att' = [att EXCEPT ![a] = Read] /\ binding.tenant = att[a].tenant
      \/ att' = [att EXCEPT ![a] = Over]
  BY DEF IInv, TypeOK, AttachStates, ReadBinding, AttachOver
<1>2. /\ \A b \in Attaches : b # a => att'[b] = att[b]
      /\ att'[a].pc \in {"store", "done"}
      /\ att'[a].pc = "store"
           => /\ att'[a].epoch = binding
              /\ binding.tenant = att[a].tenant /\ att'[a].tenant = att[a].tenant
      /\ att[a].pc = "bound"
      /\ UNCHANGED <<binding, starts, vault, cap, reseals, spoiled>>
  BY <1>1 DEF IInv, TypeOK, AttachStates, ReadBinding, NewAttach
<1>3. TypeOK'
  <2>1. Read \in AttachStates
    BY DEF IInv, TypeOK, AttachStates
  <2>2. Over \in AttachStates' /\ AttachStates \subseteq AttachStates'
    BY <1>2, StatesGrow DEF IInv, TypeOK
  <2>3. att' \in [Attaches -> AttachStates']
    BY <1>1, <2>1, <2>2 DEF IInv, TypeOK
  <2>4. QED BY <1>2, <2>3, StatesGrow DEF IInv, TypeOK
<1>4. EpochsPast'
  BY <1>2, TenantsAssumption DEF IInv, EpochsPast, Past, Reading, Unbound
<1>5. StrayHasMoved' /\ StrayIsTakenBack'
  BY <1>2 DEF IInv, StrayHasMoved, StrayIsTakenBack, Stored, At, SameBinding
<1>6. TokenIsKept' /\ TakesBackItsOwn'
  BY <1>2 DEF IInv, TokenIsKept, TakesBackItsOwn, Keeping, Stored, SameBinding
<1>7. QED BY <1>2, <1>3, <1>4, <1>5, <1>6, OpensKept DEF IInv

\* The token is its attach's, at a version nobody holds.
LEMMA StoreKeeps ==
  ASSUME IInv, NEW a \in Attaches, Store(a)
  PROVE  IInv'
<1> DEFINE New == [att[a] EXCEPT !.pc = "confirm", !.written = vault.ver + 1]
<1>1. /\ att' = [att EXCEPT ![a] = New]
      /\ vault'.ver = vault.ver + 1 /\ vault'.tok = att[a].tenant
      /\ vault'.how \in {"stray", "late", "own"}
      /\ vault'.how = "stray" <=> ~SameBinding(att[a].epoch)
      /\ vault'.how = "own" => ~Unbinding
      /\ spoiled' = IF vault'.how = "stray" THEN vault.ver + 1 ELSE spoiled
      /\ UNCHANGED <<binding, starts, cap, reseals>>
  BY DEF IInv, TypeOK, AttachStates, Store, Put
<1>2. /\ \A b \in Attaches : b # a => att'[b] = att[b]
      /\ att'[a].pc = "confirm" /\ att'[a].written = vault.ver + 1
      /\ att'[a].epoch = att[a].epoch /\ att'[a].tenant = att[a].tenant
      /\ att[a].pc = "store"
  BY <1>1 DEF IInv, TypeOK, AttachStates, Store
<1>3. TypeOK'
  <2>1. starts' = starts /\ starts \in Nat /\ vault.ver \in Nat
    BY <1>1 DEF IInv, TypeOK
  <2>2. vault' \in Records' /\ spoiled' \in 0..vault'.ver
    BY <1>1, <2>1 DEF IInv, TypeOK, Records, AttachStates, Store, Put, Written
  <2>3. New \in AttachStates'
    <3>1. vault.ver + 1 \in 0..vault'.ver /\ AttachStates \subseteq AttachStates'
      BY <1>1, <2>1, StatesGrow
    <3>2. att[a] \in AttachStates'
      BY <3>1 DEF IInv, TypeOK
    <3>3. QED BY <3>1, <3>2 DEF AttachStates
  <2>4. att' \in [Attaches -> AttachStates']
    BY <1>1, <2>1, <2>3, StatesGrow DEF IInv, TypeOK
  <2>5. QED BY <1>1, <2>1, <2>2, <2>4, StatesGrow DEF IInv, TypeOK
<1>4. EpochsPast'
  BY <1>1, <1>2 DEF IInv, EpochsPast, Past, Reading
<1>5. TokenIsBound'
  BY <1>1, <1>2 DEF IInv, EpochsPast, Reading, TokenIsBound, Stored, SameBinding
<1>6. UnbindingCleared' /\ OpensOwn' /\ HeldOwn'
  BY <1>1 DEF IInv, UnbindingCleared, OpensOwn, HeldOwn, Unbinding
<1>7. ReadIsTheRecord'
  BY <1>1 DEF IInv, TypeOK, OpenStates, Records, ReadIsTheRecord, At
<1>8. StrayHasMoved' /\ StrayIsTakenBack'
  BY <1>1, <1>2 DEF IInv, TypeOK, AttachStates, StrayHasMoved, StrayIsTakenBack, At, SameBinding
<1>9. TokenIsKept'
  <2>1. SUFFICES ASSUME NEW b \in Attaches, (att[b].pc \in Keeping)', SameBinding(att[b].epoch)'
                 PROVE  (Stored /\ vault.tok = att[b].tenant)' \/ spoiled' >= att'[b].written
    BY DEF TokenIsKept
  <2>2. CASE vault'.how = "stray"
    BY <1>1, <1>2, <2>1, <2>2 DEF IInv, TypeOK, AttachStates, SameBinding
  <2>3. CASE vault'.how # "stray"
    <3>1. att[a].tenant \in Tenants /\ att[a].tenant = binding.tenant
      BY <1>1, <1>2, <2>3 DEF IInv, EpochsPast, Reading, SameBinding
    <3>2. att'[b].tenant = binding.tenant
      BY <1>1, <1>2, <2>1, <3>1 DEF IInv, EpochsPast, Reading, Keeping, SameBinding
    <3>3. QED BY <1>1, <3>1, <3>2, TenantsAssumption DEF Stored
  <2>4. QED BY <2>2, <2>3
<1>10. TakesBackItsOwn'
  BY <1>1, <1>2 DEF IInv, TypeOK, AttachStates, TakesBackItsOwn, Keeping, SameBinding
<1>11. QED BY <1>3, <1>4, <1>5, <1>6, <1>7, <1>8, <1>9, <1>10 DEF IInv

\* A stray token's attach goes on to take it back; another keeps its token.
LEMMA ConfirmKeeps ==
  ASSUME IInv, NEW a \in Attaches, Confirm(a)
  PROVE  IInv'
<1> DEFINE Attached == [att[a] EXCEPT !.pc = "attached"]
           Moved == [att[a] EXCEPT !.pc = "takeback"]
           Over == [NewAttach EXCEPT !.pc = "done"]
<1>1. \/ att' = [att EXCEPT ![a] = Attached] /\ SameBinding(att[a].epoch)
      \/ att' = [att EXCEPT ![a] = Over] /\ SameBinding(att[a].epoch)
      \/ att' = [att EXCEPT ![a] = Moved] /\ ~SameBinding(att[a].epoch)
  BY DEF IInv, TypeOK, AttachStates, Confirm, AttachOver, SameBinding
<1>2. /\ \A b \in Attaches : b # a => att'[b] = att[b]
      /\ att'[a].pc \in {"attached", "takeback", "done"}
      /\ att'[a].pc # "done"
           => /\ att'[a].epoch = att[a].epoch
              /\ att'[a].tenant = att[a].tenant /\ att'[a].written = att[a].written
      /\ att'[a].pc = "takeback" <=> ~SameBinding(att[a].epoch)
      /\ att[a].pc = "confirm"
      /\ UNCHANGED <<binding, starts, vault, cap, reseals, spoiled>>
  BY <1>1 DEF IInv, TypeOK, AttachStates, Confirm, NewAttach
<1>3. TypeOK'
  <2>1. Attached \in AttachStates /\ Moved \in AttachStates
    BY DEF IInv, TypeOK, AttachStates
  <2>2. Over \in AttachStates' /\ AttachStates \subseteq AttachStates'
    BY <1>2, StatesGrow DEF IInv, TypeOK
  <2>3. att' \in [Attaches -> AttachStates']
    BY <1>1, <2>1, <2>2 DEF IInv, TypeOK
  <2>4. QED BY <1>2, <2>3, StatesGrow DEF IInv, TypeOK
<1>4. EpochsPast'
  <2>1. \A e : Past(e)' <=> Past(e)
    BY <1>2 DEF Past
  <2>2. QED BY <1>2, <2>1 DEF IInv, EpochsPast, Reading
<1>5. StrayHasMoved' /\ StrayIsTakenBack'
  BY <1>2 DEF IInv, StrayHasMoved, StrayIsTakenBack, Stored, At, SameBinding
<1>6. TokenIsKept'
  BY <1>2 DEF IInv, TokenIsKept, Keeping, Stored, SameBinding
<1>7. TakesBackItsOwn'
  BY <1>2 DEF IInv, TakesBackItsOwn, Keeping, SameBinding
<1>8. QED BY <1>2, <1>3, <1>4, <1>5, <1>6, <1>7, OpensKept DEF IInv

\* What is taken back is no token of a binding that lasts.
LEMMA TakeBackKeeps ==
  ASSUME IInv, NEW a \in Attaches, TakeBack(a)
  PROVE  IInv'
<1>1. /\ att' = [att EXCEPT ![a] = [NewAttach EXCEPT !.pc = "done"]]
      /\ UNCHANGED <<binding, starts, cap, reseals, spoiled>>
      /\ vault'.ver = vault.ver
      /\ vault' # vault => At(att[a].written) /\ vault'.tok = NoTenant /\ vault'.how = "own"
  BY DEF TakeBack, AttachOver, Delete, NoRecord
<1>2. /\ \A b \in Attaches : b # a => att'[b] = att[b]
      /\ att'[a].pc = "done" /\ att[a].pc = "takeback"
  BY <1>1 DEF IInv, TypeOK, TakeBack, NewAttach
<1>3. TypeOK'
  <2>1. vault' \in Records
    BY <1>1 DEF IInv, TypeOK, TakeBack, Delete, NoRecord, Records, MaybeTenant, Written
  <2>2. att' \in [Attaches -> AttachStates']
    BY <1>1, StatesGrow DEF IInv, TypeOK
  <2>3. QED BY <1>1, <2>1, <2>2, StatesGrow DEF IInv, TypeOK
<1>4. EpochsPast'
  BY <1>1, <1>2 DEF IInv, EpochsPast, Past, Reading
<1>5. TokenIsBound' /\ UnbindingCleared' /\ OpensOwn' /\ HeldOwn' /\ ReadIsTheRecord'
  BY <1>1 DEF IInv, TokenIsBound, UnbindingCleared, OpensOwn, HeldOwn, ReadIsTheRecord, Stored,
              At, Unbinding
<1>6. StrayHasMoved'
  BY <1>1, <1>2 DEF IInv, StrayHasMoved, Stored, At, SameBinding
<1>7. StrayIsTakenBack'
  BY <1>1, <1>2 DEF IInv, StrayIsTakenBack, Stored, At, TakeBack, Delete, NoRecord
<1>8. TokenIsKept'
  BY <1>1, <1>2 DEF IInv, TypeOK, AttachStates, StrayHasMoved, TakesBackItsOwn, TokenIsKept,
                    Stored, At, SameBinding, Keeping
<1>9. TakesBackItsOwn'
  BY <1>1, <1>2 DEF IInv, TakesBackItsOwn, Keeping, SameBinding
<1>10. QED BY <1>3, <1>4, <1>5, <1>6, <1>7, <1>8, <1>9 DEF IInv

\* An attach that fails undoes nothing: it knows what it wrote, and no more.
LEMMA AttachFailsKeeps ==
  ASSUME IInv, NEW a \in Attaches, AttachFails(a)
  PROVE  IInv'
<1> DEFINE Failed == [pc |-> "failed", tenant |-> NoTenant, epoch |-> Unbound,
                      written |-> att[a].written]
<1>1. /\ att' = [att EXCEPT ![a] = Failed]
      /\ UNCHANGED <<binding, starts, vault, cap, reseals, spoiled>>
  BY DEF AttachFails
<1>2. /\ \A b \in Attaches : b # a => att'[b] = att[b]
      /\ att'[a].pc = "failed" /\ att'[a].written = att[a].written
      /\ att[a].pc \in {"confirm", "takeback"}
  BY <1>1 DEF IInv, TypeOK, AttachFails
<1>3. TypeOK'
  <2>1. att[a].written \in 0..vault.ver
    BY DEF IInv, TypeOK, AttachStates
  <2>2. Failed \in AttachStates
    <3>1. Unbound \in Epochs /\ NoTenant \in MaybeTenant
      BY DEF IInv, TypeOK, Unbound, Epochs, MaybeTenant
    <3>2. QED BY <2>1, <3>1 DEF AttachStates
  <2>3. att' \in [Attaches -> AttachStates]
    BY <1>1, <2>2 DEF IInv, TypeOK
  <2>4. QED BY <1>1, <2>3, StatesGrow DEF IInv, TypeOK
<1>4. EpochsPast'
  BY <1>1, <1>2 DEF IInv, EpochsPast, Past, Reading
<1>5. StrayHasMoved' /\ StrayIsTakenBack'
  BY <1>1, <1>2 DEF IInv, StrayHasMoved, StrayIsTakenBack, Stored, At, SameBinding
<1>6. TokenIsKept' /\ TakesBackItsOwn'
  BY <1>1, <1>2 DEF IInv, TokenIsKept, TakesBackItsOwn, Keeping, Stored, SameBinding
<1>7. QED BY <1>1, <1>3, <1>4, <1>5, <1>6, OpensKept DEF IInv

\* The request reads the present binding.
LEMMA ReadEpochKeeps ==
  ASSUME IInv, NEW h \in Openers, ReadEpoch(h)
  PROVE  IInv'
<1> DEFINE Read == [cap[h] EXCEPT !.pc = "vault", !.epoch = binding]
<1>1. /\ cap' = [cap EXCEPT ![h] = Read]
      /\ UNCHANGED <<binding, starts, vault, att, reseals, spoiled>>
  BY DEF IInv, TypeOK, OpenStates, ReadEpoch
<1>2. /\ \A g \in Openers : g # h => cap'[g] = cap[g]
      /\ cap'[h].pc = "vault" /\ cap'[h].epoch = binding /\ cap'[h].read = cap[h].read
      /\ cap[h].pc = "idle" /\ binding # Unbound
  BY <1>1 DEF IInv, TypeOK, OpenStates, ReadEpoch
<1>3. TypeOK'
  <2>1. Read \in OpenStates
    BY DEF IInv, TypeOK, OpenStates
  <2>2. cap' \in [Openers -> OpenStates]
    BY <1>1, <2>1 DEF IInv, TypeOK
  <2>3. QED BY <1>1, <2>2, StatesGrow DEF IInv, TypeOK
<1>4. EpochsPast'
  BY <1>1, <1>2 DEF IInv, EpochsPast, Past
<1>5. UnbindingCleared' /\ OpensOwn' /\ HeldOwn' /\ ReadIsTheRecord'
  BY <1>1, <1>2 DEF IInv, UnbindingCleared, Unbinding, OpensOwn, HeldOwn, ReadIsTheRecord,
                    Stored, At
<1>6. QED BY <1>1, <1>3, <1>4, <1>5, AttachesKept DEF IInv

\* The token read is the present binding's.
LEMMA ReadVaultKeeps ==
  ASSUME IInv, NEW h \in Openers, ReadVault(h)
  PROVE  IInv'
<1> DEFINE Read == [cap[h] EXCEPT !.pc = "check", !.read = vault]
<1>1. /\ cap' = [cap EXCEPT ![h] = Read]
      /\ UNCHANGED <<binding, starts, vault, att, reseals, spoiled>>
  BY DEF IInv, TypeOK, OpenStates, ReadVault
<1>2. /\ \A g \in Openers : g # h => cap'[g] = cap[g]
      /\ cap'[h].pc = "check" /\ cap'[h].epoch = cap[h].epoch /\ cap'[h].read = vault
      /\ cap[h].pc = "vault"
  BY <1>1 DEF IInv, TypeOK, OpenStates, ReadVault
<1>3. TypeOK'
  <2>1. Read \in OpenStates
    BY DEF IInv, TypeOK, OpenStates
  <2>2. cap' \in [Openers -> OpenStates]
    BY <1>1, <2>1 DEF IInv, TypeOK
  <2>3. QED BY <1>1, <2>2, StatesGrow DEF IInv, TypeOK
<1>4. EpochsPast'
  BY <1>1, <1>2 DEF IInv, EpochsPast, Past
<1>5. OpensOwn'
  BY <1>1, <1>2 DEF IInv, OpensOwn, TokenIsBound, Stored
<1>6. UnbindingCleared' /\ HeldOwn' /\ ReadIsTheRecord'
  BY <1>1, <1>2 DEF IInv, UnbindingCleared, Unbinding, HeldOwn, ReadIsTheRecord, Stored, At
<1>7. QED BY <1>1, <1>3, <1>4, <1>5, <1>6, AttachesKept DEF IInv

\* A request that goes on with what it read, or ends: short of the deletions,
\* only its step changes.
LEMMA GoesOnKeeps ==
  ASSUME IInv, NEW h \in Openers, StillBound(h) \/ Use(h) \/ Unsubscribe(h) \/ OpenFails(h)
  PROVE  IInv'
<1> DEFINE On(pc) == [cap[h] EXCEPT !.pc = pc]
           Over == [NewOpen EXCEPT !.pc = "done"]
           Forced == [NewOpen EXCEPT !.pc = "forced"]
<1>1. \/ cap' = [cap EXCEPT ![h] = Over]
      \/ /\ cap[h].pc = "check" /\ binding = cap[h].epoch /\ cap[h].read.tok # NoTenant
         /\ cap' = [cap EXCEPT ![h] = On("held")]
      \/ cap[h].pc = "check" /\ cap' = [cap EXCEPT ![h] = Forced]
      \/ cap[h].pc = "held" /\ cap' = [cap EXCEPT ![h] = On("forget")]
  BY DEF IInv, TypeOK, OpenStates, StillBound, Use, Unsubscribe, OpenFails, Held,
         OpenOver
<1>2. /\ \A g \in Openers : g # h => cap'[g] = cap[g]
      /\ UNCHANGED <<binding, starts, vault, att, reseals, spoiled>>
      /\ \/ cap'[h].pc \in {"forced", "done"} /\ cap'[h].read.tok = NoTenant
         \/ /\ cap'[h].epoch = cap[h].epoch /\ cap'[h].read = cap[h].read
            /\ \/ /\ cap[h].pc = "check" /\ cap'[h].pc = "held"
                  /\ binding = cap[h].epoch /\ cap[h].read.tok # NoTenant
               \/ cap[h].pc = "held" /\ cap'[h].pc = "forget"
  BY <1>1 DEF IInv, TypeOK, OpenStates, StillBound, Use, Unsubscribe, OpenFails, NewOpen,
              NoRecord
<1>3. TypeOK'
  <2>1. On("held") \in OpenStates /\ On("forget") \in OpenStates
    BY DEF IInv, TypeOK, OpenStates
  <2>2. Over \in OpenStates' /\ Forced \in OpenStates' /\ OpenStates \subseteq OpenStates'
    BY <1>2, StatesGrow DEF IInv, TypeOK
  <2>3. cap' \in [Openers -> OpenStates']
    BY <1>1, <2>1, <2>2 DEF IInv, TypeOK
  <2>4. QED BY <1>2, <2>3, StatesGrow DEF IInv, TypeOK
<1>4. EpochsPast'
  BY <1>2 DEF IInv, EpochsPast, Past
<1>5. UnbindingCleared'
  BY <1>2 DEF IInv, UnbindingCleared, Unbinding, Stored
<1>6. OpensOwn' /\ HeldOwn'
  BY <1>2 DEF IInv, OpensOwn, HeldOwn
<1>7. ReadIsTheRecord'
  BY <1>2 DEF IInv, ReadIsTheRecord, At, Stored
<1>8. QED BY <1>2, <1>3, <1>4, <1>5, <1>6, <1>7, AttachesKept DEF IInv

\* The token is deleted and its version spoiled; the binding, if it is still
\* the request's, is next.
LEMMA DeletesKeep ==
  ASSUME IInv, NEW h \in Openers, ForgetToken(h) \/ ForcedDelete(h)
  PROVE  IInv'
<1> DEFINE Unbinds == [pc |-> "unbind", epoch |-> cap[h].epoch, read |-> NoRecord]
           Forced == [cap[h] EXCEPT !.pc = "forcedunbind"]
           Over == [NewOpen EXCEPT !.pc = "done"]
<1>1. /\ UNCHANGED <<binding, starts, att, reseals>>
      /\ \/ /\ vault' = [NoRecord EXCEPT !.ver = vault.ver] /\ spoiled' = vault.ver
            /\ \/ cap[h].pc = "forget" /\ cap' = [cap EXCEPT ![h] = Unbinds]
               \/ cap[h].pc = "forced" /\ cap' = [cap EXCEPT ![h] = Forced]
         \/ UNCHANGED <<vault, spoiled>> /\ cap' = [cap EXCEPT ![h] = Over]
  BY DEF IInv, TypeOK, OpenStates, ForgetToken, ForcedDelete, OpenOver, Delete
<1>2. /\ vault'.ver = vault.ver /\ spoiled' \in {spoiled, vault.ver}
      /\ vault' # vault => vault'.tok = NoTenant /\ spoiled' = vault.ver
      /\ \A g \in Openers : g # h => cap'[g] = cap[g]
      /\ \/ cap'[h].pc = "done" /\ cap'[h].read.tok = NoTenant /\ vault' = vault
         \/ /\ cap'[h].pc \in {"unbind", "forcedunbind"} /\ vault'.tok = NoTenant
            /\ cap'[h].epoch = cap[h].epoch
            /\ \/ cap[h].pc = "forget" /\ cap'[h].pc = "unbind" /\ cap'[h].read.tok = NoTenant
               \/ cap[h].pc = "forced" /\ cap'[h].pc = "forcedunbind" /\ cap'[h].read = cap[h].read
  BY <1>1 DEF IInv, TypeOK, OpenStates, NewOpen, NoRecord
<1>3. TypeOK'
  <2>1. Unbinds \in OpenStates /\ Forced \in OpenStates
    <3>1. NoRecord \in Records
      BY DEF IInv, TypeOK, NoRecord, Records, MaybeTenant, Written
    <3>2. QED BY <3>1 DEF IInv, TypeOK, OpenStates
  <2>2. Over \in OpenStates' /\ OpenStates \subseteq OpenStates'
    BY <1>1, <1>2, StatesGrow DEF IInv, TypeOK
  <2>3. cap' \in [Openers -> OpenStates']
    BY <1>1, <2>1, <2>2 DEF IInv, TypeOK
  <2>4. vault' \in Records' /\ spoiled' \in 0..vault'.ver
    BY <1>1 DEF IInv, TypeOK, NoRecord, Records, MaybeTenant, Written
  <2>5. QED BY <1>1, <1>2, <2>3, <2>4, StatesGrow DEF IInv, TypeOK
<1>4. EpochsPast'
  BY <1>1, <1>2 DEF IInv, EpochsPast, Past
<1>5. TokenIsBound' /\ UnbindingCleared'
  BY <1>1, <1>2 DEF IInv, TokenIsBound, UnbindingCleared, Unbinding, Stored
<1>6. OpensOwn' /\ HeldOwn'
  BY <1>1, <1>2 DEF IInv, OpensOwn, HeldOwn
<1>7. ReadIsTheRecord'
  BY <1>1, <1>2 DEF IInv, ReadIsTheRecord, At, Stored
<1>8. StrayHasMoved' /\ StrayIsTakenBack'
  BY <1>1, <1>2 DEF IInv, StrayHasMoved, StrayIsTakenBack, Stored, At, SameBinding
<1>9. TokenIsKept' /\ TakesBackItsOwn'
  BY <1>1, <1>2 DEF IInv, TypeOK, AttachStates, TokenIsKept, TakesBackItsOwn, Stored, SameBinding
<1>10. QED BY <1>3, <1>4, <1>5, <1>6, <1>7, <1>8, <1>9 DEF IInv

\* A binding that goes has no token left, and does not come back.
LEMMA UnbindsKeep ==
  ASSUME IInv, NEW h \in Openers, UnbindIf(h) \/ ForcedUnbind(h)
  PROVE  IInv'
<1>1. /\ cap' = [cap EXCEPT ![h] = [NewOpen EXCEPT !.pc = "done"]]
      /\ (binding' = Unbound /\ Unbinding) \/ binding' = binding
      /\ UNCHANGED <<starts, vault, att, reseals, spoiled>>
  BY DEF UnbindIf, ForcedUnbind, OpenOver, Unbinding
<1>2. /\ \A g \in Openers : g # h => cap'[g] = cap[g]
      /\ cap'[h].pc = "done" /\ cap'[h].read.tok = NoTenant
  BY <1>1 DEF IInv, TypeOK, NewOpen, NoRecord
<1>3. TypeOK'
  <2>1. cap' \in [Openers -> OpenStates']
    BY <1>1, StatesGrow DEF IInv, TypeOK
  <2>2. binding' \in Epochs'
    BY <1>1 DEF IInv, TypeOK, Unbound, Epochs, MaybeTenant
  <2>3. QED BY <1>1, <2>1, <2>2, StatesGrow DEF IInv, TypeOK
<1>4. \A e : Past(e) => Past(e)' /\ (SameBinding(e)' => SameBinding(e))
  BY <1>1, TenantsAssumption DEF Past, SameBinding, Unbound
<1>5. EpochsPast'
  BY <1>1, <1>2, <1>4 DEF IInv, EpochsPast
<1>6. TokenIsBound'
  BY <1>1 DEF IInv, TokenIsBound, UnbindingCleared, Stored
<1>7. UnbindingCleared'
  BY <1>1, <1>2, TenantsAssumption
     DEF IInv, UnbindingCleared, Unbinding, Stored, EpochsPast, Past, Unbound
<1>8. OpensOwn' /\ HeldOwn'
  BY <1>1, <1>2, TenantsAssumption DEF IInv, OpensOwn, HeldOwn, EpochsPast, Past, Unbound
<1>9. ReadIsTheRecord'
  BY <1>1, <1>2 DEF IInv, ReadIsTheRecord, At, Stored
<1>10. StrayHasMoved' /\ StrayIsTakenBack'
  BY <1>1, <1>4 DEF IInv, StrayHasMoved, StrayIsTakenBack, Stored, At, EpochsPast, Reading
<1>11. TokenIsKept'
  BY <1>1, <1>4 DEF IInv, TokenIsKept, Stored, EpochsPast, Reading, Keeping
<1>12. TakesBackItsOwn'
  <2>1. CASE binding' = binding
    BY <1>1, <2>1 DEF IInv, TakesBackItsOwn, SameBinding
  <2>2. CASE binding' = Unbound
    BY <1>1, <2>2, TenantsAssumption
       DEF IInv, TakesBackItsOwn, SameBinding, EpochsPast, Past, Reading, Keeping, Unbound
  <2>3. QED BY <1>1, <2>1, <2>2
<1>13. QED BY <1>3, <1>5, <1>6, <1>7, <1>8, <1>9, <1>10, <1>11, <1>12 DEF IInv

LEMMA NextInv == IInv /\ [Next]_vars => IInv'
<1> SUFFICES ASSUME IInv, [Next]_vars PROVE IInv'
  OBVIOUS
<1>1. CASE Reseal
  BY <1>1, ResealKeeps
<1>2. ASSUME NEW a \in Attaches, Attach(a) PROVE IInv'
  BY <1>2, BindKeeps, ReadBindingKeeps, StoreKeeps, ConfirmKeeps, TakeBackKeeps,
     AttachFailsKeeps DEF Attach
<1>3. ASSUME NEW h \in Openers, Open(h) PROVE IInv'
  BY <1>3, ReadEpochKeeps, ReadVaultKeeps, GoesOnKeeps, DeletesKeep, UnbindsKeep DEF Open
<1>4. CASE UNCHANGED vars
  <2>1. UNCHANGED <<binding, starts, vault, att, cap, reseals, spoiled>>
    BY <1>4 DEF vars
  <2>2. TypeOK' /\ EpochsPast'
    BY <2>1, StatesGrow DEF IInv, TypeOK, EpochsPast, Past
  <2>3. QED BY <2>1, <2>2, AttachesKept, OpensKept DEF IInv
<1>5. QED BY <1>1, <1>2, <1>3, <1>4 DEF Next

LEMMA InvHolds == Spec => []IInv
<1>1. QED BY InitInv, NextInv, PTL DEF Spec

-----------------------------------------------------------------------------
(* The theorems.                                                           *)

\* Every variable keeps its type: no request holds a binding that has not
\* begun or a version the vault has not written.
THEOREM TypeCorrect == Spec => []TypeOK
<1>1. IInv => TypeOK
  BY DEF IInv
<1>2. QED BY <1>1, InvHolds, PTL

\* The token in the vault is the tenant's that holds the WABA, but for one
\* written after the WABA had moved or between an unbinding's two deletions.
THEOREM TokenGoesWithBinding == Spec => []TokenIsBound
<1>1. IInv => TokenIsBound
  BY DEF IInv
<1>2. QED BY <1>1, InvHolds, PTL

\* A capability carries a token of the tenant whose binding it was made from,
\* with the same two exceptions.
THEOREM CapabilityHoldsOwn == Spec => []HeldOwn
<1>1. IInv => HeldOwn
  BY DEF IInv
<1>2. QED BY <1>1, InvHolds, PTL

\* A token written after the WABA had moved is in the vault, as written, only
\* until its attach reads the binding again and takes it back; an attach that
\* fails on the way (503) or whose process stops leaves it there.
THEOREM StrayGoes == Spec => []StrayIsTakenBack
<1>1. IInv => StrayIsTakenBack
  BY DEF IInv
<1>2. QED BY <1>1, InvHolds, PTL

\* While the binding it confirmed is unchanged, an attach's tenant has a token
\* in the vault, unless an unbinding deleted it or a stray one replaced it.
THEOREM AttachedKeepsToken == Spec => []AttachedHasToken
<1>1. IInv => AttachedHasToken
  BY DEF IInv, TokenIsKept, AttachedHasToken, Keeping, SameBinding
<1>2. QED BY <1>1, InvHolds, PTL

\* Of the tokens written under the binding their attach read, a disconnection
\* deletes none but of the tenant it acts for: the version it compares is the
\* one it read, whoever stored tokens in between.  The tokens HeldOwn excepts
\* are excepted here: another tenant's may be deleted.
THEOREM DisconnectsOwn == Spec => ForgetsOwn
<1> DEFINE Own(h) == (/\ cap[h].pc = "forget" /\ cap'[h].pc = "unbind"
                      /\ vault.how = "own")
                       => vault.tok = cap[h].epoch.tenant
<1>1. ASSUME IInv, Next, NEW h \in Openers PROVE Own(h)
  <2>1. SUFFICES ASSUME cap[h].pc = "forget", cap'[h].pc = "unbind", vault.how = "own"
                 PROVE  vault.tok = cap[h].epoch.tenant
    OBVIOUS
  <2>2. ForgetToken(h)
    <3>1. ASSUME NEW g \in Openers, Open(g), g # h PROVE cap'[h] = cap[h]
      BY <1>1, <3>1 DEF IInv, TypeOK, Open, ReadEpoch, ReadVault, StillBound, Use, Unsubscribe,
                        ForgetToken, UnbindIf, ForcedDelete, ForcedUnbind, OpenFails, OpenOver
    <3>2. ASSUME Open(h) PROVE ForgetToken(h)
      BY <2>1, <3>2 DEF Open, ReadEpoch, ReadVault, StillBound, Use, Unsubscribe, UnbindIf,
                        ForcedDelete, ForcedUnbind, OpenFails, OpenOver, NewOpen
    <3>3. ASSUME NEW a \in Attaches, Attach(a) PROVE cap' = cap
      BY <3>3 DEF Attach, Bind, ReadBinding, Store, Confirm, TakeBack, AttachFails
    <3>4. QED BY <1>1, <2>1, <3>1, <3>2, <3>3 DEF Next, Reseal
  <2>3. At(cap[h].read.ver)
    BY <1>1, <2>1, <2>2 DEF IInv, TypeOK, ForgetToken, OpenOver, NewOpen
  <2>4. cap[h].read = vault
    BY <1>1, <2>1, <2>3 DEF IInv, OpensOwn, ReadIsTheRecord
  <2>5. QED BY <1>1, <2>1, <2>4 DEF IInv, HeldOwn
<1>2. IInv /\ [Next]_vars => [\A h \in Openers : Own(h)]_vars
  BY <1>1
<1>3. QED BY <1>2, InvHolds, PTL DEF Spec, ForgetsOwn
=============================================================================
