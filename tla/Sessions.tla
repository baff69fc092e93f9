------------------------------ MODULE Sessions ------------------------------
(***************************************************************************)
(* What rotation promises of the refresh tokens of an account: each one is *)
(* good for one thing, a successor in its session or the session's end,    *)
(* and once spent it stays spent.  So a session is a chain that nothing    *)
(* forks and nothing takes up again.  The one exception the code leaves is *)
(* a token spent so soon after its issue that its entry may go first: it   *)
(* can be used once more.  Requests, the blacklist, its cleanup and the    *)
(* clock do not appear.                                                    *)
(***************************************************************************)
CONSTANT Tokens

VARIABLES
    state,    \* of each token: "none", "held", "hasty" (spent too soon) or "spent"
    session   \* of each token: the first token of its session

Init ==
    /\ state = [t \in Tokens |-> "none"]
    /\ session = [t \in Tokens |-> t]

Login(t) ==
    /\ state[t] = "none"
    /\ state' = [state EXCEPT ![t] = "held"]
    /\ session' = [session EXCEPT ![t] = t]

\* What a token in state s may become when it is used.
Used(s) == IF s = "held" THEN {"hasty", "spent"} ELSE {"spent"}

\* Token t is exchanged for u.
Rotate(t, u) ==
    /\ state[t] \in {"held", "hasty"} /\ state[u] = "none"
    /\ \E s \in Used(state[t]) : state' = [state EXCEPT ![t] = s, ![u] = "held"]
    /\ session' = [session EXCEPT ![u] = session[t]]

Logout(t) ==
    /\ state[t] \in {"held", "hasty"}
    /\ \E s \in Used(state[t]) : state' = [state EXCEPT ![t] = s]
    /\ UNCHANGED session

\* Each is the step of the token whose state it changes.
Next ==
    \E t \in Tokens :
        /\ state'[t] # state[t]
        /\ Login(t) \/ Logout(t) \/ \E u \in Tokens : Rotate(t, u)

Spec == Init /\ [][Next]_<<state, session>>

=============================================================================
