--------------------------- MODULE PayWatchSafety ---------------------------
(* The correctness properties of the watcher and its durable tick.         *)
EXTENDS PayWatch

\* "The cursor can lose nothing that the stateless rule would have retried"
\* (watch.rs): whatever one dishonest endpoint answers, wherever the script is
\* killed or power is lost, every enrollment transfer up to the cursor is either
\* decided by the kernel or in truth a permanent skip.
CursorLosesNothing ==
    \A i \in Transfers :
        chain[i].index = "enrol" /\ i =< cursor =>
            i \in decided \/ Truth(i) \in {"dust", "void"}

\* The bundles an audit reads (README: archived bundles plus the pending one;
\* the quarantined ones keep theirs whole).
Bundles == (archive \cup quarantined \cup {pending}) \ {NoTick}

\* Dust the cursor has passed is never listed again, so its audit event must be
\* in a retained bundle: "below-floor audit events cannot fall through a crash
\* gap" (mini-pay-watcher), wherever a process is killed.  Power loss is
\* excepted: write_atomic does not sync, so the cursor's rename may outlive the
\* bundle's.
AuditEventsRetained ==
    ~outage => \A i \in Transfers :
        chain[i].index = "enrol" /\ i =< cursor /\ Truth(i) = "dust" =>
            \E t \in Bundles : i \in t.dust

\* Two different bundles never share an ID, through acknowledgements, kills in
\* a quarantine, and quarantines (next_tick_id).
TickIdsUnique ==
    \A t, u \in Bundles : t.id = u.id => t = u

\* "The operator's way out of a pending tick mini pay observe cannot settle"
\* (quarantine_tick): an operator who keeps quarantining gets the tick out of
\* the way of every later payment.
WayOut == (pending # NoTick) ~> (pending = NoTick)
=============================================================================
