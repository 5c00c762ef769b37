---------------------------- MODULE WabaTokens ------------------------------
(***************************************************************************)
(* The binding of a WABA to its tenant, and the WABA's token in the vault  *)
(* (meta-whatsapp-server-core's authz.rs and admin.rs, over RecordStore    *)
(* and the library's TokenVault): two stores no transaction spans.  An     *)
(* attach binds, stores and confirms; a capability is made from the        *)
(* binding, the vault and the binding again; an unbinding deletes the      *)
(* token, then the binding.                                                *)
(*                                                                         *)
(* One WABA.  Each call to a store is a step, between which other requests *)
(* run.  A request whose call fails once it has stored or deleted a token  *)
(* is over, and undoes nothing (AttachFails, OpenFails); one whose process *)
(* stops, or whose call fails before, takes no more steps, which Spec      *)
(* allows at every point.  A token is the tenant whose attach stored it;   *)
(* the versions of the vault's record do not come back.  The numbers' own  *)
(* bindings and their status, what is in the phone index, the calls to     *)
(* Meta and the tenants' own signup are left out.                          *)
(***************************************************************************)
EXTENDS Naturals

CONSTANTS
  Tenants, NoTenant,
  Attaches,   \* bound: the attach requests
  Openers,    \* bound: the requests that make a capability
  MaxReseals  \* bound: re-encryptions of the vault's record

ASSUME TenantsAssumption == NoTenant \notin Tenants
ASSUME BoundsAssumption == MaxReseals \in Nat

VARIABLES
  binding, \* the WABA's binding: its BindingEpoch
  starts,  \* when the latest binding began (a clock)
  vault,   \* the WABA's record: whose token, its version, and how it was
           \* written (history, see Written)
  att,     \* att[a]: where attach request a stands
  cap,     \* cap[h]: where the request h that makes a capability stands
  reseals,
  spoiled  \* history: the latest version an unbinding deleted or a stray
           \* token was written at

vars == <<binding, starts, vault, att, cap, reseals, spoiled>>

Unbound == [tenant |-> NoTenant, start |-> 0, gen |-> 0]

\* How a token was written: under the binding its attach read ("own"); once
\* that binding was over ("stray"), or such a token re-encrypted ("adrift");
\* while an unbinding had deleted the token and not yet the binding ("late").
Written == {"own", "stray", "adrift", "late"}

NoRecord == [tok |-> NoTenant, ver |-> 0, how |-> "own"]

NewAttach == [pc |-> "idle", tenant |-> NoTenant, epoch |-> Unbound, written |-> 0]
NewOpen == [pc |-> "idle", epoch |-> Unbound, read |-> NoRecord]

Init == /\ binding = Unbound /\ starts = 0
        /\ vault = NoRecord
        /\ att = [a \in Attaches |-> NewAttach]
        /\ cap = [h \in Openers |-> NewOpen]
        /\ reseals = 0
        /\ spoiled = 0

\* An attach, or a capability's request, that is over.
AttachOver(a) == att' = [att EXCEPT ![a] = [NewAttach EXCEPT !.pc = "done"]]
OpenOver(h) == cap' = [cap EXCEPT ![h] = [NewOpen EXCEPT !.pc = "done"]]

-----------------------------------------------------------------------------
(* The vault (TokenVault).                                                 *)

Stored == vault.tok # NoTenant

\* delete_if_unchanged finds the record at version v.
At(v) == Stored /\ vault.ver = v

Put(t, how) == vault' = [tok |-> t, ver |-> vault.ver + 1, how |-> how]

\* Mutant of Delete: a new record counts its versions from the start.
DeleteForgets == vault' = NoRecord

Delete == vault' = [NoRecord EXCEPT !.ver = vault.ver]

\* rotate_token, or a read under a previous key: the record is written again
\* if it is still the one read.
Reseal ==
  /\ reseals < MaxReseals /\ reseals' = reseals + 1
  /\ Stored
  /\ Put(vault.tok, IF vault.how = "stray" THEN "adrift" ELSE vault.how)
  /\ UNCHANGED <<binding, starts, att, cap, spoiled>>

-----------------------------------------------------------------------------
(* An attach (Admin::attach_waba, Authorizer::store_token).                *)

\* RecordStore::bind_waba: another tenant's WABA is refused, the tenant's own
\* is refreshed, a free one begins a binding.
Bind(a, t) ==
  /\ att[a].pc = "idle"
  /\ \/ /\ binding.tenant \notin {t, NoTenant}
        /\ AttachOver(a)
        /\ UNCHANGED <<binding, starts>>
     \/ /\ binding.tenant = t
        /\ binding' = [binding EXCEPT !.gen = @ + 1]
        /\ att' = [att EXCEPT ![a].pc = "bound", ![a].tenant = t]
        /\ UNCHANGED starts
     \/ /\ binding = Unbound
        /\ starts' = starts + 1
        /\ binding' = [tenant |-> t, start |-> starts', gen |-> 1]
        /\ att' = [att EXCEPT ![a].pc = "bound", ![a].tenant = t]
  /\ UNCHANGED <<vault, cap, reseals, spoiled>>

\* store_token reads the binding it stores under: it must be its tenant's.
ReadBinding(a) ==
  /\ att[a].pc = "bound"
  /\ IF binding.tenant = att[a].tenant
       THEN att' = [att EXCEPT ![a].pc = "store", ![a].epoch = binding]
       ELSE AttachOver(a)
  /\ UNCHANGED <<binding, starts, vault, cap, reseals, spoiled>>

\* Whether the binding is the one of epoch e, refreshed or not.
SameBinding(e) == binding.tenant = e.tenant /\ binding.start = e.start

\* An unbinding has deleted the token and is to delete the binding.
Unbinding == \E h \in Openers :
  \/ cap[h].pc = "unbind" /\ cap[h].epoch = binding
  \/ cap[h].pc = "forcedunbind"

\* tokens.store, up to its put of the record; the index of its phone numbers,
\* written next, may fail (AttachFails).
Store(a) ==
  /\ att[a].pc = "store"
  /\ LET how == IF ~SameBinding(att[a].epoch) THEN "stray"
                ELSE IF Unbinding THEN "late" ELSE "own"
     IN  /\ Put(att[a].tenant, how)
         /\ spoiled' = IF how = "stray" THEN vault'.ver ELSE spoiled
  /\ att' = [att EXCEPT ![a].pc = "confirm", ![a].written = vault'.ver]
  /\ UNCHANGED <<binding, starts, cap, reseals>>

\* Mutants of Confirm: the start of the binding is not compared; a refresh
\* takes the token back as a move does.
ConfirmTenant(a) ==
  /\ att[a].pc = "confirm"
  /\ \/ /\ binding = att[a].epoch /\ att' = [att EXCEPT ![a].pc = "attached"]
     \/ /\ binding # att[a].epoch /\ binding.tenant = att[a].tenant /\ AttachOver(a)
     \/ /\ binding.tenant # att[a].tenant /\ att' = [att EXCEPT ![a].pc = "takeback"]
  /\ UNCHANGED <<binding, starts, vault, cap, reseals, spoiled>>

ConfirmTakesBack(a) ==
  /\ att[a].pc = "confirm"
  /\ att' = [att EXCEPT ![a].pc = IF binding = att[a].epoch THEN "attached" ELSE "takeback"]
  /\ UNCHANGED <<binding, starts, vault, cap, reseals, spoiled>>

\* The binding is read again: held, the WABA is attached; refreshed for the
\* same tenant, the token is kept and the answer is 503; moved, the token is
\* to be taken back.
Confirm(a) ==
  /\ att[a].pc = "confirm"
  /\ \/ /\ binding = att[a].epoch /\ att' = [att EXCEPT ![a].pc = "attached"]
     \/ /\ binding # att[a].epoch /\ SameBinding(att[a].epoch) /\ AttachOver(a)
     \/ /\ ~SameBinding(att[a].epoch) /\ att' = [att EXCEPT ![a].pc = "takeback"]
  /\ UNCHANGED <<binding, starts, vault, cap, reseals, spoiled>>

\* Only what the attach wrote.
TakeBack(a) ==
  /\ att[a].pc = "takeback"
  /\ IF At(att[a].written) THEN Delete ELSE UNCHANGED vault
  /\ AttachOver(a)
  /\ UNCHANGED <<binding, starts, cap, reseals, spoiled>>

\* A call of an attach that has stored its token fails, and it answers an
\* error: at "confirm" the phone index of its store or the confirming read, at
\* "takeback" the deletion.  Nothing is undone.
AttachFails(a) ==
  /\ att[a].pc \in {"confirm", "takeback"}
  /\ att' = [att EXCEPT ![a] = [pc |-> "failed", tenant |-> NoTenant, epoch |-> Unbound,
                               written |-> att[a].written]]
  /\ UNCHANGED <<binding, starts, vault, cap, reseals, spoiled>>

-----------------------------------------------------------------------------
(* A capability (Authorizer::owned_waba, waba_for_admin, open).            *)

ReadEpoch(h) ==
  /\ cap[h].pc = "idle" /\ binding # Unbound
  /\ cap' = [cap EXCEPT ![h].pc = "vault", ![h].epoch = binding]
  /\ UNCHANGED <<binding, starts, vault, att, reseals, spoiled>>

ReadVault(h) ==
  /\ cap[h].pc = "vault"
  /\ cap' = [cap EXCEPT ![h].pc = "check", ![h].read = vault]
  /\ UNCHANGED <<binding, starts, vault, att, reseals, spoiled>>

\* Mutant of Held: the binding is not read again.
HeldAny(h) == TRUE

\* holds: the binding is still the one the capability was made from.
Held(h) == binding = cap[h].epoch

\* still_bound, then the token.  One that is missing, expired or unreadable
\* makes no capability; an operator then unbinds without one, whatever is
\* bound and stored by then.
StillBound(h) ==
  /\ cap[h].pc = "check"
  /\ \/ ~Held(h) /\ OpenOver(h)
     \/ Held(h) /\ cap[h].read.tok # NoTenant /\ cap' = [cap EXCEPT ![h].pc = "held"]
     \/ Held(h) /\ OpenOver(h)
     \/ Held(h) /\ cap' = [cap EXCEPT ![h] = [NewOpen EXCEPT !.pc = "forced"]]
  /\ UNCHANGED <<binding, starts, vault, att, reseals, spoiled>>

\* A request that only calls Meta, or one Meta refuses to unsubscribe, ends.
Use(h) ==
  /\ cap[h].pc = "held"
  /\ OpenOver(h)
  /\ UNCHANGED <<binding, starts, vault, att, reseals, spoiled>>

\* A disconnection, a tenant's deletion and an operator's unbinding read the
\* binding again before they unsubscribe the app.
Unsubscribe(h) ==
  /\ cap[h].pc = "held"
  /\ IF Held(h) THEN cap' = [cap EXCEPT ![h].pc = "forget"] ELSE OpenOver(h)
  /\ UNCHANGED <<binding, starts, vault, att, reseals, spoiled>>

\* Mutants of ForgetToken: the binding goes though the token moved; the token
\* goes though it moved.
ForgetTokenOrNot(h) ==
  /\ cap[h].pc = "forget"
  /\ IF At(cap[h].read.ver) THEN Delete /\ spoiled' = vault.ver
                            ELSE UNCHANGED <<vault, spoiled>>
  /\ cap' = [cap EXCEPT ![h].pc = "unbind"]
  /\ UNCHANGED <<binding, starts, att, reseals>>

ForgetAnyToken(h) ==
  /\ cap[h].pc = "forget"
  /\ Delete /\ spoiled' = vault.ver
  /\ cap' = [cap EXCEPT ![h].pc = "unbind"]
  /\ UNCHANGED <<binding, starts, att, reseals>>

\* OwnedWaba::forget: the token the capability was made with; if it moved,
\* nothing goes.
ForgetToken(h) ==
  /\ cap[h].pc = "forget"
  /\ IF At(cap[h].read.ver)
       THEN /\ Delete /\ spoiled' = vault.ver
            /\ cap' = [cap EXCEPT ![h] = [pc |-> "unbind", epoch |-> cap[h].epoch,
                                         read |-> NoRecord]]
       ELSE OpenOver(h) /\ UNCHANGED <<vault, spoiled>>
  /\ UNCHANGED <<binding, starts, att, reseals>>

\* ... then the binding the capability was made from, if it still holds.
UnbindIf(h) ==
  /\ cap[h].pc = "unbind"
  /\ binding' = IF binding = cap[h].epoch THEN Unbound ELSE binding
  /\ OpenOver(h)
  /\ UNCHANGED <<starts, vault, att, reseals, spoiled>>

\* forget_for_admin: whatever token, then whatever binding there is.
ForcedDelete(h) ==
  /\ cap[h].pc = "forced"
  /\ Delete
  /\ spoiled' = vault.ver
  /\ cap' = [cap EXCEPT ![h].pc = "forcedunbind"]
  /\ UNCHANGED <<binding, starts, att, reseals>>

ForcedUnbind(h) ==
  /\ cap[h].pc = "forcedunbind"
  /\ binding' = Unbound
  /\ OpenOver(h)
  /\ UNCHANGED <<starts, vault, att, reseals, spoiled>>

\* The binding's deletion fails, or what the token's deletion has left to do:
\* the request answers an error, the token deleted and the binding there.
OpenFails(h) ==
  /\ cap[h].pc \in {"unbind", "forcedunbind"}
  /\ OpenOver(h)
  /\ UNCHANGED <<binding, starts, vault, att, reseals, spoiled>>

-----------------------------------------------------------------------------
Attach(a) == \/ \E t \in Tenants : Bind(a, t)
             \/ ReadBinding(a) \/ Store(a) \/ Confirm(a) \/ TakeBack(a)
             \/ AttachFails(a)

Open(h) == \/ ReadEpoch(h) \/ ReadVault(h) \/ StillBound(h)
           \/ Use(h) \/ Unsubscribe(h) \/ ForgetToken(h) \/ UnbindIf(h)
           \/ ForcedDelete(h) \/ ForcedUnbind(h) \/ OpenFails(h)

Next == Reseal \/ (\E a \in Attaches : Attach(a)) \/ (\E h \in Openers : Open(h))

Spec == Init /\ [][Next]_vars

-----------------------------------------------------------------------------
(* Properties.                                                             *)

MaybeTenant == Tenants \cup {NoTenant}
Epochs == [tenant : MaybeTenant, start : 0..starts, gen : Nat]
Records == [tok : MaybeTenant, ver : 0..vault.ver, how : Written]
AttachStates ==
  [pc : {"idle", "bound", "store", "confirm", "takeback", "attached", "done", "failed"},
   tenant : MaybeTenant, epoch : Epochs, written : 0..vault.ver]
OpenStates ==
  [pc : {"idle", "vault", "check", "held", "forget", "unbind", "forced",
         "forcedunbind", "done"},
   epoch : Epochs, read : Records]

\* The bindings begin at past instants, and no request holds a version the
\* vault has not written.
TypeOK ==
  /\ binding \in Epochs /\ starts \in Nat
  /\ vault.ver \in Nat /\ vault \in Records
  /\ att \in [Attaches -> AttachStates]
  /\ cap \in [Openers -> OpenStates]
  /\ reseals \in 0..MaxReseals
  /\ spoiled \in 0..vault.ver

\* "A token never outlives its binding" (store.rs, the port rule): the token in
\* the vault is the tenant's that holds the WABA, unless it was written after
\* the WABA had moved (the window store.rs names) or between the two deletions
\* of an unbinding.
TokenIsBound == Stored /\ vault.how = "own" => vault.tok = binding.tenant

\* A capability carries a token of the tenant whose binding it was made from,
\* with the same two exceptions (Authorizer::open reads the binding again after
\* the vault).
HeldOwn == \A h \in Openers :
  /\ cap[h].pc \in {"held", "forget"}
  /\ cap[h].read.how = "own"
  => cap[h].read.tok = cap[h].epoch.tenant

\* A token written after the WABA had moved stays in the vault, as it was
\* written, in two cases only: the attach that wrote it is before its
\* confirming read or its take-back (for good, if its process stopped there);
\* or that attach answered an error, the index of its phones, the confirming
\* read or the take-back having failed, which leaves the token (store_token's
\* doc promises the take-back without that exception).  One re-encrypted
\* meanwhile is "adrift", and not covered.
StrayIsTakenBack ==
  Stored /\ vault.how = "stray"
    => \E a \in Attaches : /\ att[a].written = vault.ver
                           /\ att[a].pc \in {"confirm", "takeback", "failed"}

\* While the binding an attach confirmed is unchanged, the vault has a token of
\* its tenant (store_token: "the binding is never left with none while the
\* other attach answered success"), unless an unbinding deleted it or a token
\* written after the WABA had moved replaced it.
AttachedHasToken == \A a \in Attaches :
  att[a].pc = "attached" /\ binding = att[a].epoch
    => \/ Stored /\ vault.tok = att[a].tenant
       \/ spoiled >= att[a].written

\* Of the tokens written under the binding their attach read, a disconnection
\* deletes none but of the tenant it acts for, though other attaches store
\* tokens between its reads and its deletion.  With HeldOwn's exceptions: a
\* token written after the WABA had moved (re-encrypted since or not), or
\* between the two deletions of an unbinding, may be another tenant's, and a
\* disconnection that read it under its own binding deletes it.
ForgetsOwn == [][\A h \in Openers :
  /\ cap[h].pc = "forget" /\ cap'[h].pc = "unbind"
  /\ vault.how = "own"
  => vault.tok = cap[h].epoch.tenant]_vars
=============================================================================
