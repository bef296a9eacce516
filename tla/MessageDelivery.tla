--------------------------- MODULE MessageDelivery ---------------------------
(***************************************************************************)
(* What Teleporter promises of every message, whatever chains it crosses:  *)
(* it is delivered at most once, its deliverer is fixed by that delivery,  *)
(* its execution succeeds at most once and can be retried until it does,   *)
(* and its fee is settled at most once, after the delivery, in favour of   *)
(* the reward address that the delivery recorded.                          *)
(***************************************************************************)
CONSTANTS Messages, Deliverers, None

VARIABLES
    stage,        \* [message]: "unsent", "sent", "failed" or "done"
    deliverer,    \* [message]: the reward address of its delivery
    settled       \* the messages whose fee has been credited

vars == << stage, deliverer, settled >>

Stages == {"unsent", "sent", "failed", "done"}

Init ==
    /\ stage = [k \in Messages |-> "unsent"]
    /\ deliverer = [k \in Messages |-> None]
    /\ settled = {}

Send(k) ==
    /\ stage[k] = "unsent"
    /\ stage' = [stage EXCEPT ![k] = "sent"]
    /\ UNCHANGED << deliverer, settled >>

\* A delivery also settles the messages whose receipts it brings; these were
\* all delivered before.
Deliver(k, r, outcome) ==
    /\ stage[k] = "sent"
    /\ stage' = [stage EXCEPT ![k] = outcome]
    /\ deliverer' = [deliverer EXCEPT ![k] = r]
    /\ settled \subseteq settled'
    /\ settled' \subseteq settled \cup {a \in Messages : deliverer[a] # None}

Execute(k) ==
    /\ stage[k] = "failed"
    /\ stage' = [stage EXCEPT ![k] = "done"]
    /\ UNCHANGED << deliverer, settled >>

Next ==
    \E k \in Messages :
        \/ Send(k)
        \/ \E r \in Deliverers, outcome \in {"failed", "done"} : Deliver(k, r, outcome)
        \/ Execute(k)

Spec == Init /\ [][Next]_vars
=============================================================================
