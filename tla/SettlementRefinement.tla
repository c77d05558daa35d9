-------------------------- MODULE SettlementRefinement --------------------------
(***************************************************************************)
(* The service and its observer, with every handler split at its awaits,   *)
(* implement the book of Settlement.  An entry of the book is a row of     *)
(* payment_intent without its source, which nothing in a settlement        *)
(* depends on; tasks, cycles, customers and events are not in the book.    *)
(***************************************************************************)
EXTENDS StellarObserver

TermsOf(row) ==
    [owner |-> row.owner, memo |-> row.memo, network |-> row.network, kind |-> row.kind,
     destination |-> row.destination, asset |-> row.asset,
     assetIssuer |-> row.assetIssuer, amount |-> row.amount]

Entry(row) == [terms |-> TermsOf(row), status |-> row.status, hash |-> row.txHash]

Book == [i \in Stored |-> Entry(intents[i])]

\* What callers may ask for: an intent is never opened on other terms.
AskedBy(c, order) ==
    IF Acceptable(order) THEN {TermsOf(draft) : draft \in Drafts(c, order)} ELSE {}

AskedFor == UNION {UNION {AskedBy(c, order) : order \in Order} : c \in Caller}

S == INSTANCE Settlement WITH
        Terms <- AskedFor, book <- Book, opened <- issued, late <- overdue

\* Every write of a handler or the observer, however stale what it was decided
\* on, is one step of the book, whose reason holds when the row is written:
\* create and its unique memos, validate, the observer's match and expiry, the
\* update route and remove all at once.
ImplementsSettlement == S!Spec

(***************************************************************************)
(* What the refinement rests on besides SettlementInv: a create handler    *)
(* still holds what its caller asked for, and the observer's list is due.  *)
(***************************************************************************)
DraftsAsked ==
    \A p \in Proc :
        task[p].step \in {"findByMemo", "loadAccount", "insert", "refind"} =>
            TermsOf(task[p].draft) \in AskedFor

RefinementInv == DraftsAsked /\ DueItems
=============================================================================
