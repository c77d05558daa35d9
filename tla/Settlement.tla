------------------------------ MODULE Settlement ------------------------------
(***************************************************************************)
(* What the payment service promises, with no handler, observer, query or  *)
(* retry in sight: a book of intents, each with the terms it was opened    *)
(* on, its status and the transaction it names.  An entry changes in one   *)
(* step, and only for a reason that holds in that very step: a transaction *)
(* settles an intent that it fulfils at that moment and that no other      *)
(* entry names, although the code reads the row, asks Horizon and writes   *)
(* the row in calls of their own.  StellarObserver implements it (see      *)
(* SettlementRefinement).                                                  *)
(***************************************************************************)
EXTENDS StellarVerifier

CONSTANTS
    Terms, \* what clients ask for: every field of a request
    Patch  \* what clients may do to a status and a hash by themselves

VARIABLES
    book,   \* an entry for every intent that is kept
    opened, \* how many intents were opened; their ids count up
    late,   \* ids whose lifetime is over
    ledger  \* transactions in the order the networks closed them

bookVars == <<book, opened, late, ledger>>

Init ==
    /\ book = <<>>
    /\ opened = 0
    /\ late = {}
    /\ ledger = <<>>

Kept == DOMAIN book

Free(i, hash) == hash # NULL => \A j \in Kept \ {i} : book[j].hash # hash

MemoFree(terms) ==
    \A j \in Kept : book[j].terms.owner = terms.owner => book[j].terms.memo # terms.memo

\* A request opens one intent for its memo.
Open(terms) ==
    /\ MemoFree(terms)
    /\ opened' = opened + 1
    /\ book' = [i \in Kept \cup {opened'} |->
                  IF i = opened' THEN [terms |-> terms, status |-> "PENDING", hash |-> NULL]
                  ELSE book[i]]
    /\ UNCHANGED <<late, ledger>>

Become(i, status, hash) ==
    /\ Free(i, hash)
    /\ book' = [book EXCEPT ![i] = [terms |-> @.terms, status |-> status, hash |-> hash]]
    /\ UNCHANGED <<opened, late, ledger>>

Settle(i, t) ==
    /\ t \in Landed(ledger) /\ Fulfils(t, book[i].terms)
    /\ Become(i, "SUCCEEDED", t)

Fail(i, t) ==
    /\ t \in OnNetwork(book[i].terms, ledger) /\ ~TxRecord[t].successful
    /\ Become(i, "FAILED", t)

Expire(i) ==
    /\ i \in late
    /\ Become(i, "EXPIRED", book[i].hash)

\* The client's own word, which the service takes as it comes.
Revise(i, patch) ==
    Become(i, IF patch.status = NULL THEN book[i].status ELSE patch.status,
              IF patch.setsHash THEN patch.txHash ELSE book[i].hash)

Withdraw(i) ==
    /\ book' = [j \in Kept \ {i} |-> book[j]]
    /\ UNCHANGED <<opened, late, ledger>>

GrowLate(i) ==
    /\ late' = late \cup {i}
    /\ UNCHANGED <<book, opened, ledger>>

Close(t) ==
    /\ t \notin Landed(ledger)
    /\ ledger' = Append(ledger, t)
    /\ UNCHANGED <<book, opened, late>>

Next ==
    \/ \E terms \in Terms : Open(terms)
    \/ \E i \in Kept :
          \/ \E t \in Tx : Settle(i, t) \/ Fail(i, t)
          \/ \E patch \in Patch : Revise(i, patch)
          \/ Expire(i) \/ Withdraw(i) \/ GrowLate(i)
    \/ \E t \in Tx : Close(t)

Spec == Init /\ [][Next]_bookVars
=============================================================================
