----------------------------- MODULE OncePerKey -----------------------------
(***************************************************************************)
(* What the server's idempotency keys promise a caller (the module's       *)
(* documentation in meta-whatsapp-server-core's idempotency.rs), without   *)
(* leases, store calls, cut requests or crashes.                           *)
(*                                                                         *)
(* A key has at most one holder.  Only its holder has an effect at Meta    *)
(* (or a request whose record has run past its expiry), a holder that had  *)
(* one keeps the key until then, and an answer kept under the key that     *)
(* reports a success is its holder's.                                      *)
(***************************************************************************)
CONSTANTS Requests,  \* requests that carry a key
          Keys,      \* idempotency keys, their tenant's scope included
          Nobody,    \* a free key's holder
          KeyOf,     \* KeyOf[q]: the key request q carries
          Answers,   \* what may be kept: "ok" is a success
          Pending    \* nothing is kept yet

VARIABLES holder,  \* holder[k]: the request that holds key k
          kept,    \* kept[k]: the answer a repeat gets
          sent,    \* the requests that had their effect at Meta
          over     \* the requests whose record ran past its expiry

vars == <<holder, kept, sent, over>>

Init == /\ holder = [k \in Keys |-> Nobody]
        /\ kept = [k \in Keys |-> Pending]
        /\ sent = {} /\ over = {}

Free(k) == holder[k] \in over \cup {Nobody}

\* A request takes a key that is free, or whose record has expired.
Admit(q) == /\ Free(KeyOf[q])
            /\ holder' = [holder EXCEPT ![KeyOf[q]] = q]
            /\ kept' = [kept EXCEPT ![KeyOf[q]] = Pending]
            /\ UNCHANGED <<sent, over>>

\* Meta acts on a request.
Send(q) == /\ holder[KeyOf[q]] = q \/ q \in over
           /\ sent' = sent \cup {q}
           /\ UNCHANGED <<holder, kept, over>>

\* An answer is kept for repeats, in place of an earlier one too.
Keep(k, a) == /\ holder[k] # Nobody
              /\ a = "ok" => holder[k] \in sent
              /\ kept' = [kept EXCEPT ![k] = a]
              /\ UNCHANGED <<holder, sent, over>>

\* The key is given back: nothing was sent under it, or it has expired.
Release(k) == /\ holder[k] \notin sent \/ Free(k)
              /\ holder' = [holder EXCEPT ![k] = Nobody]
              /\ kept' = [kept EXCEPT ![k] = Pending]
              /\ UNCHANGED <<sent, over>>

\* Expired records are deleted together.
Purge == /\ holder' = [k \in Keys |-> IF Free(k) THEN Nobody ELSE holder[k]]
         /\ kept' = [k \in Keys |-> IF Free(k) THEN Pending ELSE kept[k]]
         /\ UNCHANGED <<sent, over>>

Expire == /\ over \subseteq over'
          /\ \A q \in over' \ over : holder[KeyOf[q]] = q
          /\ UNCHANGED <<holder, kept, sent>>

Next == \/ \E q \in Requests : Admit(q) \/ Send(q)
        \/ \E k \in Keys : Release(k) \/ \E a \in Answers : Keep(k, a)
        \/ Purge \/ Expire

Spec == Init /\ [][Next]_vars
=============================================================================
