----------------------------- MODULE PaidCalls -----------------------------
(***************************************************************************)
(* What the provider path promises, without gateway, journal, custody,     *)
(* brokers or crashes: a purse covers one call at a time, a call leaves    *)
(* only under cover, and is settled once, as unsent only if it never       *)
(* left and never will.  0 and Price are kinds of settlement, not amounts: *)
(* 0 that of a call which was not sent, Price the host's quote of one that *)
(* was.                                                                    *)
(***************************************************************************)
EXTENDS Naturals, Sequences

CONSTANTS Calls, Price

VARIABLES
  held,     \* the call the purse covers, 0 none
  left,     \* the calls that went upstream
  charged   \* the settlements of each call

Covered(a) == held = a \/ charged[a] = <<Price>>

Init == held = 0 /\ left = {} /\ charged = [a \in Calls |-> <<>>]

Hold(a) ==
  /\ held = 0 /\ charged[a] = <<>> /\ a \notin left
  /\ held' = a /\ UNCHANGED <<left, charged>>

Leave(a) ==
  /\ Covered(a) /\ a \notin left
  /\ left' = left \cup {a} /\ UNCHANGED <<held, charged>>

Settle(a, c) ==
  /\ held = a /\ (c = 0 => a \notin left)
  /\ held' = 0 /\ charged' = [charged EXCEPT ![a] = <<c>>] /\ UNCHANGED left

Next == \E a \in Calls : Hold(a) \/ Leave(a) \/ (\E c \in {0, Price} : Settle(a, c))

Spec == Init /\ [][Next]_<<held, left, charged>>
=============================================================================
