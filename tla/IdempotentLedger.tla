-------------------------- MODULE IdempotentLedger --------------------------
(***************************************************************************)
(* What the wallet promises the services that charge and recharge it, with *)
(* no database, pod or step of a handler in sight: a request carries an    *)
(* idempotency key, a key has at most one ledger entry, an entry is never  *)
(* changed, and an answer tells the truth about the ledger.                *)
(***************************************************************************)
EXTENDS Integers

CONSTANTS
  Attempts,  \* one per HTTP call; a retry is another attempt
  Keys,      \* idempotency keys
  Requests,  \* what an attempt may ask; q.key is its key, q.op its endpoint
  None

VARIABLES
  asked,     \* what each attempt asked for, or None
  entry,     \* the attempt that made the entry of each key, or None
  answer     \* what each attempt was told: [kind, row]

vars == <<asked, entry, answer>>

Unanswered == [kind |-> "none", row |-> None]

Init ==
  /\ asked  = [a \in Attempts |-> None]
  /\ entry  = [k \in Keys |-> None]
  /\ answer = [a \in Attempts |-> Unanswered]

Open(a) == asked[a] # None /\ answer[a] = Unanswered

Ask(a, q) ==
  /\ asked[a] = None
  /\ asked' = [asked EXCEPT ![a] = q]
  /\ UNCHANGED <<entry, answer>>

\* The entry is made at some point between the call and the end of time: an
\* attempt told of a database error, or never answered, may still post.
Post(a) ==
  /\ asked[a] # None
  /\ answer[a].kind \in {"none", "dberror"}
  /\ entry[asked[a].key] = None
  /\ entry' = [entry EXCEPT ![asked[a].key] = a]
  /\ UNCHANGED <<asked, answer>>

\* The id answered is the id of the key's entry, whoever made it.
Confirm(a) ==
  /\ Open(a)
  /\ entry[asked[a].key] # None
  /\ answer' = [answer EXCEPT ![a] = [kind |-> "ok", row |-> entry[asked[a].key]]]
  /\ UNCHANGED <<asked, entry>>

\* A rejected charge has not posted, and never will.
Reject(a) ==
  /\ Open(a)
  /\ asked[a].op = "charge"
  /\ entry[asked[a].key] # a
  /\ answer' = [answer EXCEPT ![a] = [kind |-> "insufficient", row |-> None]]
  /\ UNCHANGED <<asked, entry>>

\* The key is taken by another attempt's entry.
Refuse(a) ==
  /\ Open(a)
  /\ entry[asked[a].key] \notin {None, a}
  /\ answer' = [answer EXCEPT ![a] = [kind |-> "duplicate", row |-> None]]
  /\ UNCHANGED <<asked, entry>>

\* An error that says nothing about the ledger.
Fail(a) ==
  /\ Open(a)
  /\ answer' = [answer EXCEPT ![a] = [kind |-> "dberror", row |-> None]]
  /\ UNCHANGED <<asked, entry>>

Next ==
  \E a \in Attempts :
    \/ \E q \in Requests : Ask(a, q)
    \/ Post(a)
    \/ Confirm(a)
    \/ Reject(a)
    \/ Refuse(a)
    \/ Fail(a)

Spec == Init /\ [][Next]_vars
=============================================================================
