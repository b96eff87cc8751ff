---------------------------- MODULE LoginTickets ----------------------------
(***************************************************************************)
(* What the second factor promises of the logins of one account, without a *)
(* word on challenge rows, ceremonies, codes or locks: a correct password  *)
(* opens a ticket, and closes the one that was open; a ticket that is open *)
(* admits its login once or is closed; one that is closed stays closed.    *)
(***************************************************************************)
CONSTANT Login
VARIABLE ticket     \* of each password check

TicketInit == ticket = [l \in Login |-> "none"]

Opened == {l \in Login : ticket[l] = "open"}

Begin(l) ==
    /\ ticket[l] = "none"
    /\ ticket' = [m \in Login |-> IF m = l THEN "open"
                                  ELSE IF m \in Opened THEN "closed" ELSE ticket[m]]

Complete(l) == l \in Opened /\ ticket' = [ticket EXCEPT ![l] = "won"]

(* Too many wrong answers, or the time is over *)
Close(l) == l \in Opened /\ ticket' = [ticket EXCEPT ![l] = "closed"]

TicketNext == \E l \in Login : Begin(l) \/ Complete(l) \/ Close(l)

TicketSpec == TicketInit /\ [][TicketNext]_ticket

=============================================================================
