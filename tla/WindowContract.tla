--------------------------- MODULE WindowContract ---------------------------
(***************************************************************************)
(* What the learner relies on, without workers, attempts or leases'        *)
(* progress: a window opens empty, gains one outcome per lease, hands the  *)
(* learner all of them at once, and from that moment only closes, with     *)
(* exactly the outcomes it handed out, or takes the offer back unchanged.  *)
(***************************************************************************)
EXTENDS Naturals

CONSTANT Outcome   \* pairs <<lease, decisions>>

VARIABLES
    status,    \* "none", "collecting", "committed" or "aborted"
    sequence,  \* windows opened
    granted,   \* outcomes of the window
    handing,   \* the learner is applying an offer
    offer      \* what it was last offered

contract == <<status, sequence, granted, handing, offer>>

Open == status = "collecting"

Init ==
    /\ status = "none"
    /\ sequence = 0
    /\ granted = {}
    /\ handing = FALSE
    /\ offer = {}

Begin ==
    /\ ~Open
    /\ ~handing
    /\ status' = "collecting"
    /\ sequence' = sequence + 1
    /\ granted' = {}
    /\ UNCHANGED <<handing, offer>>

\* one more lease has a result: never twice, never behind the learner's back
Grant ==
    /\ Open
    /\ ~handing
    /\ \E o \in Outcome :
         /\ \A p \in granted : p[1] # o[1]
         /\ granted' = granted \cup {o}
    /\ UNCHANGED <<status, sequence, handing, offer>>

Hand ==
    /\ Open
    /\ ~handing
    /\ granted # {}
    /\ handing' = TRUE
    /\ offer' = granted
    /\ UNCHANGED <<status, sequence, granted>>

TakeBack ==
    /\ handing
    /\ handing' = FALSE
    /\ offer' = {}
    /\ UNCHANGED <<status, sequence, granted>>

Commit ==
    /\ Open
    /\ handing
    /\ offer = granted
    /\ status' = "committed"
    /\ handing' = FALSE
    /\ UNCHANGED <<sequence, granted, offer>>

Abort ==
    /\ Open
    /\ ~handing
    /\ status' = "aborted"
    /\ UNCHANGED <<sequence, granted, handing, offer>>

Next == Begin \/ Grant \/ Hand \/ TakeBack \/ Commit \/ Abort

Spec == Init /\ [][Next]_contract

=============================================================================
