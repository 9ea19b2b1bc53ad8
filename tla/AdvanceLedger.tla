--------------------------- MODULE AdvanceLedger ---------------------------
(***************************************************************************)
(* What a cash advance promises: money handed out is spent or returned in  *)
(* single steps, never more than is left, and an advance is closed only    *)
(* when nothing is left and then never touched again.                      *)
(***************************************************************************)
EXTENDS Naturals

CONSTANTS Advances,  \* the advances that can be handed out
          Amounts    \* the sums of money that can move, all positive

VARIABLES granted, remaining, returned, spent, settled

vars == <<granted, remaining, returned, spent, settled>>

Init ==
  /\ granted = [a \in Advances |-> 0]
  /\ remaining = [a \in Advances |-> 0]
  /\ returned = [a \in Advances |-> 0]
  /\ spent = [a \in Advances |-> 0]
  /\ settled = {}

Grant(a, x) ==
  /\ granted[a] = 0
  /\ granted' = [granted EXCEPT ![a] = x]
  /\ remaining' = [remaining EXCEPT ![a] = x]
  /\ UNCHANGED <<returned, spent, settled>>

Take(a, x) ==
  /\ a \notin settled
  /\ x <= remaining[a]
  /\ remaining' = [remaining EXCEPT ![a] = @ - x]

Spend(a, x) ==
  /\ Take(a, x)
  /\ spent' = [spent EXCEPT ![a] = @ + x]
  /\ UNCHANGED <<granted, returned, settled>>

Return(a, x) ==
  /\ Take(a, x)
  /\ returned' = [returned EXCEPT ![a] = @ + x]
  /\ UNCHANGED <<granted, spent, settled>>

Settle(a) ==
  /\ granted[a] > 0 /\ remaining[a] = 0
  /\ settled' = settled \cup {a}
  /\ UNCHANGED <<granted, remaining, returned, spent>>

Next == \E a \in Advances :
  \/ Settle(a)
  \/ \E x \in Amounts : Grant(a, x) \/ Spend(a, x) \/ Return(a, x)

Spec == Init /\ [][Next]_vars

=============================================================================
