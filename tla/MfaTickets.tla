---------------------------- MODULE MfaTickets ----------------------------
(***************************************************************************)
(* MfaChallenges implements LoginTickets: the rows of a password check are *)
(* one ticket, whichever of them is current.                               *)
(***************************************************************************)
EXTENDS MfaChallenges

RowsOf(l) == {i \in Rows : challenges[i].kind \in LoginKind /\ challenges[i].login = l}

(* A row can still be answered: it is not consumed, and not expired unless *)
(* the ceremony that has locked it found it in time.                       *)
Answerable(i) ==
    /\ i \in Unconsumed
    /\ challenges[i].expired =>
          \E p \in Request : req[p].pc = "passkey" /\ req[p].challenge = i

Ticket(l) ==
    IF wins[l] > 0 THEN "won"
    ELSE IF \E i \in RowsOf(l) : Answerable(i) THEN "open"
    ELSE IF RowsOf(l) # {} THEN "closed"
    ELSE "none"

Tickets == INSTANCE LoginTickets WITH Login <- Id, ticket <- [l \in Id |-> Ticket(l)]

(* docs/security-roadmap.md:7 and docs/mfa-operations.md:25: whatever      *)
(* factors, ceremonies and logins overlap, every step of the second factor *)
(* is a step of LoginTickets or none at all.  In particular a login that a *)
(* later password check, the last wrong answer or the clock has ended is   *)
(* never completed, and none is completed next to another open one.        *)
ImplementsTickets == Tickets!TicketSpec

=============================================================================
