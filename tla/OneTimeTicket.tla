---------------------------- MODULE OneTimeTicket ----------------------------
(***************************************************************************)
(* What a login promises, with no clock, identities or grants: the browser *)
(* carries a ticket to the identity provider and back.  Whoever handles    *)
(* its return takes the ticket; one handler at most ever does, only that   *)
(* one can use it, and only once.  A handler that dies is not replaced.    *)
(* What is on record of a ticket that is over is never rewritten.          *)
(*   AuthorizationFlow implements it with the authorization transactions,  *)
(* LegacySessions with the auth requests of the legacy flow.               *)
(*   docs: API.md 18 and 79, DB.md 147                                     *)
(***************************************************************************)
CONSTANTS Ticket, Holder

VARIABLES phase,          \* "none", then "open", "held", and "used" or "dead"
          holder,         \* who has taken it and can still use it
          record          \* what the service has on record of it, in any form

vars == <<phase, holder, record>>

Init == /\ phase = [t \in Ticket |-> "none"]
        /\ holder = [t \in Ticket |-> {}]

\* Whatever changes is put on record.
Becomes(t, p, H) == phase'[t] = p /\ holder'[t] = H

Open(t) == phase[t] = "none" /\ Becomes(t, "open", {})
Take(t) == phase[t] = "open" /\ \E h \in Holder : Becomes(t, "held", {h})
Use(t) == phase[t] = "held" /\ holder[t] # {} /\ Becomes(t, "used", {})
Die(t) == phase[t] \in {"open", "held"} /\ Becomes(t, "dead", {})

\* The handler is gone, or has given up: nothing is written.
Lose(t) == phase[t] = "held" /\ Becomes(t, "held", {}) /\ record'[t] = record[t]
Rest(t) == Becomes(t, phase[t], holder[t]) /\ record'[t] = record[t]

\* Tickets have nothing to do with one another: a sweep may end many at once.
Next == \A t \in Ticket : Open(t) \/ Take(t) \/ Use(t) \/ Die(t) \/ Lose(t) \/ Rest(t)

Spec == Init /\ [][Next]_vars
=============================================================================
