---------------------------- MODULE MCValidator -----------------------------
(***************************************************************************)
(* Instances of the validator: a topic with one announcement of each kind  *)
(* the code tells apart, and one with valid uploads only.                  *)
(***************************************************************************)
EXTENDS Validator

event(c, t) == [kind |-> "event", event |-> "executor_on_start", corr |-> c, host |-> Absent, text |-> t]
request(s, n, b, l) ==
    [service |-> s, parses |-> TRUE, blocklisted |-> FALSE, size |-> n, big |-> b, lines |-> l]

Valid == request(Playbook, 1, FALSE, <<event("c1", "short")>>)
Invalid == request(Playbook, 1, FALSE, <<event("bad", "short")>>)
NoConsole == request(PlaybookSat, 1, TRUE, <<event("c1", "short"), event("c1", Absent)>>)

Empty == request(Playbook, 0, FALSE, <<>>)
Blocked == [Valid EXCEPT !.blocklisted = TRUE]

MCMixed == <<Valid, Empty, NoConsole>>
MCQueue == <<Valid, Blocked, Invalid, Valid>>
=============================================================================
