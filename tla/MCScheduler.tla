----------------------------- MODULE MCScheduler -----------------------------
(* Small instances of the broker for TLC.                                  *)
EXTENDS SchedulerSafety, TLC

CONSTANTS alice, bob, carol, big, small

(* alice and carol act for the same member.                                *)
MCPrincipalOf == [c \in Controllers |-> IF c = bob THEN "q" ELSE "p"]
MCPoolOf == [c \in Controllers |-> "pool"]
MCBackendPool == [b \in Backends |-> "pool"]
MCModelOf == [b \in Bodies |-> "model"]
MCSlots == [g \in Groups |-> 1]

(* Two jobs of two members compete for the only slot.                      *)
MCGroupOf1 == [b \in Backends |-> "gpu"]
MCFits1 == [b \in Bodies |-> Backends]
MCCost1 == [bb \in Bodies \X Backends |-> 2]
MCRequests2 == {<<alice, 1, big, 2>>, <<bob, 2, big, 2>>}

(* The second job may be asked for when the first one has expired.         *)
MCRequestsLate == {<<alice, 1, big, 1>>, <<bob, 2, big, 2>>}
MCRequestsLate3 == MCRequestsLate \cup {<<bob, 3, big, 2>>}

(* Three jobs of two members; two backends of different speed, each the    *)
(* only slot of its group, and a small body that only the second serves.   *)
MCRequests3 == {<<alice, 1, big, 9>>, <<carol, 2, small, 9>>, <<bob, 3, big, 9>>}
MCGroupOf2 == (1 :> "gpu" @@ 2 :> "cpu")
MCFits2 == (big :> {1, 2} @@ small :> {2})
MCCost2 == [bb \in Bodies \X Backends |-> (IF bb[1] = big THEN 2 ELSE 1) * bb[2]]
=============================================================================
