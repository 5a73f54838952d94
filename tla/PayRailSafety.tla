---------------------------- MODULE PayRailSafety ----------------------------
(* The correctness properties of the whole payment rail.                    *)
EXTENDS PayRail

Txs == 1..MaxTx

\* A receipt stops the watcher from reading its transfer again, so a false one
\* loses a payment for good.  Every receipt is of a transfer the kernel decided,
\* whatever was committed between the view, the submission and the refusal
\* (tick_may_be_spent: "closes the false already-credited receipt").
ReceiptMeansDecided == receipts \subseteq decided

\* A transfer is credited at most once, though its report was retried after a
\* lost answer, looked up as absent while its frame was still on its way, or
\* reported by another observer.
CreditedOnce == \A i \in Txs : minted[i] =< 1

\* The rail implements the watcher's specification with its abstract observer:
\* the observer and the kernel keep every promise the watcher relies on.
ImplementsWatch == WatchSpec

\* A tick is not in the way for ever: with the Host answering and a bounded
\* number of kills and faults, the observer settles it ("Kill it anywhere and
\* the next tick converges", mini-pay-watcher).
TickSettles == (pending # NoTick) ~> (pending = NoTick)

\* A submission the Host committed, its answer lost or its observer killed, is
\* found by the exact lookup of a later run and each transfer it carries gets its
\* receipt (settle_attempts before the records are routed), unless the operator
\* took away the tick that carries this transfer.
LandedIsReceipted ==
    \A id \in Ids, i \in Txs :
        (id \in landed /\ i \in attempts[id].recs)
            ~> (i \in receipts \/ \E t \in quarantined : i \in t.recs)
=============================================================================
