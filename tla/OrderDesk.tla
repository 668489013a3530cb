----------------------------- MODULE OrderDesk -----------------------------
(***************************************************************************)
(* What the rest of the program may rely on of one position's trading: its *)
(* orders are sent one at a time, a closed order stays closed, and once    *)
(* the position is reported as over it sends none.  Which orders it sends, *)
(* when, why they close and what is known of them inside is left open.     *)
(***************************************************************************)
CONSTANT Orders

VARIABLES
    order,  \* what each order is to the position
    over    \* the position has been reported as sold

TypeOK ==
    /\ order \in [Orders -> {"unknown", "working", "closed"}]
    /\ over \in BOOLEAN

NoneWorks == \A o \in Orders : order[o] # "working"

Init ==
    /\ order = [o \in Orders |-> "unknown"]
    /\ over = FALSE

Send(o) ==
    /\ ~ over /\ NoneWorks /\ order[o] = "unknown"
    /\ order' = [order EXCEPT ![o] = "working"]
    /\ UNCHANGED over

\* Filled, cancelled, or withdrawn by the exchange.
Close(o) ==
    /\ order[o] = "working"
    /\ order' = [order EXCEPT ![o] = "closed"]
    /\ UNCHANGED over

Finish ==
    /\ ~ over /\ NoneWorks
    /\ over' = TRUE
    /\ UNCHANGED order

Next == (\E o \in Orders : Send(o) \/ Close(o)) \/ Finish

Spec == Init /\ [][Next]_<<order, over>>
=============================================================================
