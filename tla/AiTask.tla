------------------------------- MODULE AiTask -------------------------------
(***************************************************************************)
(* What a client may rely on when it polls the status of a route           *)
(* generation: the entry is written at most twice, "pending" first and one *)
(* verdict last, and what it loses it only loses by forgetting.  A poll is *)
(* answered the entry or, if the read fails, that there is none: a client  *)
(* may see "pending", a 404 and "pending" again, but it sees at most one   *)
(* verdict, and after it nothing but that verdict and 404s.                *)
(***************************************************************************)
CONSTANT Verdicts

VARIABLES
    status,   \* the entry; "none" if there is none
    phase,    \* "new", "open" (the result is being computed), "closed"
    answer    \* what the last poll was answered; "none" is a 404

Init == status = "none" /\ phase = "new" /\ answer = "none"

\* The first write may get lost.
Open ==
    /\ phase = "new"
    /\ phase' = "open"
    /\ status' \in {status, "pending"}
    /\ UNCHANGED answer

\* So may the last one; the entry then stays what it is.
Close(verdict) ==
    /\ phase = "open"
    /\ phase' = "closed"
    /\ status' \in {status, verdict}
    /\ UNCHANGED answer

\* The process may die before it has a result.
GiveUp ==
    /\ phase # "closed"
    /\ phase' = "closed"
    /\ UNCHANGED <<status, answer>>

Forget ==
    /\ status' = "none"
    /\ UNCHANGED <<phase, answer>>

Poll ==
    /\ answer' \in {status, "none"}
    /\ UNCHANGED <<status, phase>>

Next == Open \/ (\E v \in Verdicts : Close(v)) \/ GiveUp \/ Forget \/ Poll

Spec == Init /\ [][Next]_<<status, phase, answer>>

=============================================================================
