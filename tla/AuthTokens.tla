----------------------------- MODULE AuthTokens -----------------------------
(***************************************************************************)
(* Access and refresh tokens of one account: login, refresh with rotation, *)
(* logout, the blacklist and its cleanup, ban and unban, change of         *)
(* password, deletion of the account.                                      *)
(*                                                                         *)
(* A request is a READ COMMITTED transaction.  Its reads are steps of      *)
(* their own, its writes and the tokens it returns appear at its last      *)
(* step, the commit, because the response is sent after it.  The blacklist *)
(* has the jti as primary key: of two inserts of one jti the second fails. *)
(***************************************************************************)
EXTENDS Integers

CONSTANTS
    Tokens,          \* refresh tokens, by jti
    Workers,         \* requests that can be in progress at the same time
    Lifetime,        \* REFRESH_TOKEN_EXPIRE_DAYS, in clock ticks
    TicksPerSecond,  \* exp claims are whole seconds, database times are not
    MaxTime,         \* bound: last value of the clock
    MaxVersion,      \* bound: no revocation starts at this token_version
    Patience,        \* the longest a request stays open, in clock ticks
    NoToken

ASSUME AuthAssumption ==
    /\ NoToken \notin Tokens
    /\ TicksPerSecond \in Nat \ {0}
    /\ Lifetime \in Nat /\ TicksPerSecond <= Lifetime
    /\ MaxTime \in Nat /\ TicksPerSecond <= MaxTime
    /\ MaxVersion \in Nat
    /\ Patience \in Nat /\ 2 * Patience <= Lifetime

VARIABLES
    user,        \* the users row: status and token_version
    expires,     \* expiry of each refresh token issued so far
    access,      \* access tokens issued; one that expires is just not used again
    blacklist,   \* expires_at of each token_blacklist row
    req,         \* the requests in progress
    now,         \* wall clock
    session,     \* observation: the login each refresh token descends from
    uses,        \* observation: blacklist entries written for each token
    hasty,       \* observation: tokens whose entry expires in their own last second
    ended,       \* observation: tokens with an entry written by a logout
    revocations  \* observation: bans and password changes committed

vars == <<user, expires, access, blacklist, req, now,
          session, uses, hasty, ended, revocations>>
observations == <<session, uses, hasty, ended, revocations>>

-----------------------------------------------------------------------------
Never == 0     \* no such token, no such row

User == [status : {"active", "banned", "deleted"}, tv : Nat]

AccessToken == [tv : Nat, epoch : Nat]

Request == [pc    : {"idle", "login", "user", "rotate", "ban", "unban", "password", "delete"},
            tok   : Tokens \cup {NoToken},
            tv    : Nat,        \* token_version of the users row it read
            since : Nat,        \* the time it began
            at    : Nat,        \* the time it computed the two expiries with
            epoch : Nat]        \* observation: revocations when it read the row

Idle == [pc |-> "idle", tok |-> NoToken, tv |-> 0, since |-> 0, at |-> 0,
         epoch |-> 0]

\* The shape of the state.
TypeOK ==
    /\ user \in User
    /\ expires \in [Tokens -> Nat]
    /\ access \subseteq AccessToken
    /\ blacklist \in [Tokens -> Nat]
    /\ req \in [Workers -> Request]
    /\ now \in 1..MaxTime + 1
    /\ session \in [Tokens -> Tokens]
    /\ uses \in [Tokens -> Nat]
    /\ hasty \subseteq Tokens
    /\ ended \subseteq Tokens
    /\ revocations \in Nat

Init ==
    /\ user = [status |-> "active", tv |-> 0]
    /\ expires = [t \in Tokens |-> Never]
    /\ access = {}
    /\ blacklist = [t \in Tokens |-> Never]
    /\ req = [w \in Workers |-> Idle]
    /\ now = TicksPerSecond
    /\ session = [t \in Tokens |-> t]
    /\ uses = [t \in Tokens |-> 0]
    /\ hasty = {}
    /\ ended = {}
    /\ revocations = 0

-----------------------------------------------------------------------------
Seconds(t) == t \div TicksPerSecond

\* decode_token: the exp claim is cut to whole seconds, and so is the clock it
\* is compared with; the last second counts.
Decodes(t) == expires[t] # Never /\ Seconds(now) <= Seconds(expires[t])

Blacklisted(t) == blacklist[t] # Never

\* A refresh token that refresh_tokens would take.
Live(t) == Decodes(t) /\ ~Blacklisted(t)

\* get_current_user
Accepts(a) == user.status = "active" /\ a.tv = user.tv

\* _blacklist_jti: the database keeps the whole time, the claim only its second.  An
\* entry that expires in the same second as its token can be cleaned up before it.
Spend(t, entry) ==
    /\ blacklist' = [blacklist EXCEPT ![t] = entry]
    /\ uses' = [uses EXCEPT ![t] = @ + 1]
    /\ hasty' = IF Seconds(entry) = Seconds(expires[t]) THEN hasty \cup {t} ELSE hasty

Finish(w) == req' = [req EXCEPT ![w] = Idle]

\* Starts a request that has read the users row (and perhaps has a token).
Begin(w, pc, t) ==
    /\ req[w].pc = "idle"
    /\ req' = [req EXCEPT ![w] = [pc |-> pc, tok |-> t, tv |-> user.tv,
                                  since |-> now, at |-> 0, epoch |-> revocations]]

\* A new pair of tokens, made at the given time from what request w read.
Issue(w, t, root, at) ==
    /\ expires[t] = Never
    /\ expires' = [expires EXCEPT ![t] = at + Lifetime]
    /\ session' = [session EXCEPT ![t] = root]
    /\ access' = access \cup {[tv |-> req[w].tv, epoch |-> req[w].epoch]}

-----------------------------------------------------------------------------
(***************************************************************************)
(* Login.                                                                  *)
(***************************************************************************)

LoginBegin(w) ==
    /\ user.status = "active"
    /\ Begin(w, "login", NoToken)
    /\ UNCHANGED <<user, expires, access, blacklist, now, observations>>

LoginReturn(w) ==
    /\ req[w].pc = "login"
    /\ \E t \in Tokens : Issue(w, t, t, now)
    /\ Finish(w)
    /\ UNCHANGED <<user, blacklist, now, uses, hasty, ended, revocations>>

(***************************************************************************)
(* Refresh: three statements, the blacklist, the user, the insert.         *)
(***************************************************************************)

RefreshBegin(w, t) ==
    /\ Live(t)
    /\ Begin(w, "user", t)
    /\ UNCHANGED <<user, expires, access, blacklist, now, observations>>

RefreshUser(w) ==
    /\ req[w].pc = "user"
    /\ IF user.status = "active"
       THEN req' = [req EXCEPT ![w] = [@ EXCEPT !.pc = "rotate", !.tv = user.tv,
                                               !.at = now, !.epoch = revocations]]
       ELSE Finish(w)
    /\ UNCHANGED <<user, expires, access, blacklist, now, observations>>

\* Blacklists the token with an entry of the given expiry and issues a new pair,
\* or fails as a whole.
RotateWith(w, entry, guard) ==
    LET t == req[w].tok IN
    /\ req[w].pc = "rotate"
    /\ IF guard
       THEN /\ Spend(t, entry)
            /\ \E u \in Tokens : Issue(w, u, session[t], req[w].at)
       ELSE UNCHANGED <<blacklist, uses, hasty, expires, session, access>>
    /\ Finish(w)
    /\ UNCHANGED <<user, now, ended, revocations>>

\* mutants: the insert overwrites an entry; the entry expires at once.
RotateUpsert(w) == RotateWith(w, req[w].at + Lifetime, TRUE)
RotateShort(w) == RotateWith(w, req[w].at, ~Blacklisted(req[w].tok))

\* The commit inserts the old jti; a jti that is there already is a primary key
\* violation, and the whole request fails.
RefreshCommit(w) == RotateWith(w, req[w].at + Lifetime, ~Blacklisted(req[w].tok))

-----------------------------------------------------------------------------
(***************************************************************************)
(* Logout and cleanup: one statement each.                                 *)
(***************************************************************************)

\* A token that does not decode is ignored; an entry that is there already
\* raises IntegrityError, which is taken for another logout.
Logout(t) ==
    /\ Decodes(t)
    /\ IF Blacklisted(t)
       THEN UNCHANGED <<blacklist, uses, hasty, ended>>
       ELSE Spend(t, now + Lifetime) /\ ended' = ended \cup {t}
    /\ UNCHANGED <<user, expires, access, req, now, session, revocations>>

\* mutant: entries are removed by the time they were made.
CleanupOld ==
    /\ blacklist' = [t \in Tokens |-> IF blacklist[t] < now + Lifetime THEN Never ELSE blacklist[t]]
    /\ UNCHANGED <<user, expires, access, req, now, observations>>

\* _cleanup_loop, once an hour
Cleanup ==
    /\ blacklist' = [t \in Tokens |-> IF blacklist[t] < now THEN Never ELSE blacklist[t]]
    /\ UNCHANGED <<user, expires, access, req, now, observations>>

-----------------------------------------------------------------------------
(***************************************************************************)
(* Ban, unban, change of password, deletion.  Each reads the row, then     *)
(* updates it by id; the increment of token_version is made in SQL.        *)
(***************************************************************************)

BanBegin(w) ==
    /\ user.status = "active" /\ user.tv < MaxVersion
    /\ Begin(w, "ban", NoToken)
    /\ UNCHANGED <<user, expires, access, blacklist, now, observations>>

UnbanBegin(w) ==
    /\ user.status = "banned"
    /\ Begin(w, "unban", NoToken)
    /\ UNCHANGED <<user, expires, access, blacklist, now, observations>>

\* change_password and delete_account come with an access token.
OwnerBegin(w, pc) ==
    /\ \E a \in access : Accepts(a)
    /\ user.tv < MaxVersion
    /\ Begin(w, pc, NoToken)
    /\ UNCHANGED <<user, expires, access, blacklist, now, observations>>

\* mutant: the version is computed from the row that was read.
NextVersionRead(w) == req[w].tv + 1
NextVersion(w) == user.tv + 1

\* An UPDATE of a row that is gone by now changes nothing.
Revoke(w) ==
    /\ req[w].pc \in {"ban", "password"}
    /\ IF user.status = "deleted"
       THEN UNCHANGED <<user, revocations>>
       ELSE /\ user' = [status |-> IF req[w].pc = "ban" THEN "banned" ELSE user.status,
                        tv |-> NextVersion(w)]
            /\ revocations' = revocations + 1
    /\ Finish(w)
    /\ UNCHANGED <<expires, access, blacklist, now, session, uses, hasty, ended>>

UnbanCommit(w) ==
    /\ req[w].pc = "unban"
    /\ user' = IF user.status = "deleted" THEN user ELSE [user EXCEPT !.status = "active"]
    /\ Finish(w)
    /\ UNCHANGED <<expires, access, blacklist, now, observations>>

DeleteCommit(w) ==
    /\ req[w].pc = "delete"
    /\ user' = [user EXCEPT !.status = "deleted"]
    /\ Finish(w)
    /\ UNCHANGED <<expires, access, blacklist, now, observations>>

-----------------------------------------------------------------------------
\* A crash or a lost connection: the transaction rolls back.
Abort(w) ==
    /\ req[w].pc # "idle"
    /\ Finish(w)
    /\ UNCHANGED <<user, expires, access, blacklist, now, observations>>

\* No request is open for anything like half a token's lifetime (30 days).
Tick ==
    /\ now <= MaxTime
    /\ \A w \in Workers : req[w].pc # "idle" => now < req[w].since + Patience
    /\ now' = now + 1
    /\ UNCHANGED <<user, expires, access, blacklist, req, observations>>

Handler(w) ==
    \/ LoginReturn(w)
    \/ RefreshUser(w)
    \/ RefreshCommit(w)
    \/ Revoke(w)
    \/ UnbanCommit(w)
    \/ DeleteCommit(w)

Next ==
    \/ Tick
    \/ Cleanup
    \/ \E t \in Tokens : Logout(t)
    \/ \E w \in Workers, t \in Tokens : RefreshBegin(w, t)
    \/ \E w \in Workers, pc \in {"password", "delete"} : OwnerBegin(w, pc)
    \/ \E w \in Workers :
         LoginBegin(w) \/ BanBegin(w) \/ UnbanBegin(w) \/ Handler(w) \/ Abort(w)

Spec == Init /\ [][Next]_vars

-----------------------------------------------------------------------------
(***************************************************************************)
(* Properties.                                                             *)
(***************************************************************************)

Spent(t) == uses[t] > 0

\* The session of t has no token that was spent too soon.
Unhurried(t) == \A u \in hasty : session[u] # session[t]

\* Rotation: a refresh token is good for one thing, a pair or a logout, even when
\* requests use it at once and after its blacklist entry has been cleaned up.  Only a
\* token spent so soon that its entry expires in its own last second has a second use.
SpentOnce == \A t \in Tokens : uses[t] <= (IF t \in hasty THEN 2 ELSE 1)

\* The cleanup brings no spent token back before it expires, but one spent too soon,
\* and that one in the last second of its claim.
RevivedOnlyAtTheEnd ==
    \A t \in Tokens : Spent(t) /\ Live(t) => t \in hasty /\ Seconds(now) = Seconds(expires[t])

\* A login has one refresh token at a time: rotation never forks a session, unless a
\* token of it was spent too soon.
OneLiveTokenPerSession ==
    \A t, u \in Tokens :
        Live(t) /\ Live(u) /\ session[t] = session[u] /\ Unhurried(t) => t = u

\* A logout that wrote its entry ended the session: a refresh of the same token
\* that was already past its blacklist check brings no successor.
LogoutEndsSession ==
    \A t \in ended, u \in Tokens :
        session[u] = session[t] /\ Unhurried(t) => ~Live(u)

\* An access token is accepted only if no ban and no password change was
\* committed since the row it was made from was read: an unban never revives
\* one, and two revocations at once are two.
AcceptedTokensAreCurrent ==
    \A a \in access : Accepts(a) => a.epoch = revocations

\* Rotation as Sessions describes it: a refresh exchanges a token for one successor, a
\* logout spends one, and a spent token is never good for anything again, whatever
\* overlaps, aborts or is cleaned up; one spent too soon may be taken up once more.
TokenState(t) ==
    CASE expires[t] = Never                                   -> "none"
      [] expires[t] # Never /\ ~Spent(t)                      -> "held"
      [] expires[t] # Never /\ uses[t] = 1 /\ t \in hasty     -> "hasty"
      [] OTHER                                                -> "spent"
Rotation == INSTANCE Sessions WITH state <- [t \in Tokens |-> TokenState(t)]
RotationSpec == Rotation!Spec

=============================================================================
