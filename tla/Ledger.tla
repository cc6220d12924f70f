------------------------------- MODULE Ledger -------------------------------
(***************************************************************************)
(* What a stele log promises to its clients, with no word on how: one      *)
(* sequence of accepted items that only ever grows at its end, in which no *)
(* item occurs twice (when Unique), and receipts that always name an item  *)
(* and the place it really has.                                            *)
(***************************************************************************)
EXTENDS Integers, Sequences

CONSTANTS Items,   \* what can be accepted
          Unique   \* an item is accepted at most once

VARIABLES ledger,  \* the accepted items, oldest first
          acked    \* the receipts handed out: <<index, item>>

Init == ledger = <<>> /\ acked = {}

Accept(x) ==
    /\ Unique => \A i \in DOMAIN ledger : ledger[i] # x
    /\ ledger' = Append(ledger, x)
    /\ UNCHANGED acked

Acknowledge(i) ==
    /\ acked' = acked \cup {<<i - 1, ledger[i]>>}
    /\ UNCHANGED ledger

Next == \/ \E x \in Items : Accept(x)
        \/ \E i \in DOMAIN ledger : Acknowledge(i)

Spec == Init /\ [][Next]_<<ledger, acked>>

=============================================================================
