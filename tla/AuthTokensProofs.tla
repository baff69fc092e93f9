-------------------------- MODULE AuthTokensProofs --------------------------
(***************************************************************************)
(* Proofs about AuthTokens, for any number of tokens and requests, any     *)
(* lifetime and any grain of the clock below the second of an exp claim.   *)
(***************************************************************************)
EXTENDS AuthTokens, TLAPS

(***************************************************************************)
(* Types.                                                                  *)
(***************************************************************************)

\* A request that has passed the blacklist check has a token.
TypeInv ==
    /\ TypeOK
    /\ \A w \in Workers : req[w].pc \in {"user", "rotate"} => req[w].tok \in Tokens

LEMMA IdleRequest == Idle \in Request
BY DEF Idle, Request

LEMMA FinishEffect ==
    ASSUME NEW w \in Workers, TypeInv, Finish(w)
    PROVE  /\ req' \in [Workers -> Request]
           /\ req'[w] = Idle
           /\ \A v \in Workers \ {w} : req'[v] = req[v]
BY IdleRequest DEF Finish, TypeInv, TypeOK

LEMMA BeginEffect ==
    ASSUME NEW w \in Workers, TypeInv, NEW t \in Tokens \cup {NoToken},
           NEW pc \in {"login", "user", "ban", "unban", "password", "delete"}, Begin(w, pc, t)
    PROVE  /\ req' \in [Workers -> Request]
           /\ req'[w].pc = pc /\ req'[w].tok = t /\ req'[w].since = now
           /\ req'[w].tv = user.tv /\ req'[w].epoch = revocations
           /\ \A v \in Workers \ {w} : req'[v] = req[v]
<1>1. now \in Nat /\ user.tv \in Nat /\ revocations \in Nat
  BY AuthAssumption DEF TypeInv, TypeOK, User
<1> DEFINE r == [pc |-> pc, tok |-> t, tv |-> user.tv, since |-> now, at |-> 0,
                 epoch |-> revocations]
<1>2. r \in Request
  BY <1>1 DEF Request
<1>3. req' = [req EXCEPT ![w] = r] /\ req \in [Workers -> Request]
  BY DEF Begin, TypeInv, TypeOK
<1>4. QED
  BY <1>2, <1>3

LEMMA RefreshUserEffect ==
    ASSUME NEW w \in Workers, TypeInv, RefreshUser(w)
    PROVE  /\ req' \in [Workers -> Request]
           /\ \/ req'[w] = Idle
              \/ /\ req[w].pc = "user" /\ req'[w].pc = "rotate"
                 /\ req'[w].tok = req[w].tok /\ req'[w].since = req[w].since
                 /\ req'[w].at = now
                 /\ req'[w].tv = user.tv /\ req'[w].epoch = revocations
           /\ \A v \in Workers \ {w} : req'[v] = req[v]
<1>1. now \in Nat /\ user.tv \in Nat /\ revocations \in Nat /\ req \in [Workers -> Request]
  BY AuthAssumption DEF TypeInv, TypeOK, User
<1>2. CASE user.status = "active"
  <2> DEFINE r == [req[w] EXCEPT !.pc = "rotate", !.tv = user.tv, !.at = now,
                                 !.epoch = revocations]
  <2>1. r \in Request /\ r.pc = "rotate" /\ r.tok = req[w].tok /\ r.since = req[w].since
        /\ r.at = now /\ r.tv = user.tv /\ r.epoch = revocations
    BY <1>1 DEF Request
  <2>2. req' = [req EXCEPT ![w] = r] /\ req[w].pc = "user"
    BY <1>2 DEF RefreshUser
  <2>3. QED
    BY <1>1, <2>1, <2>2
<1>3. CASE user.status # "active"
  BY <1>3, FinishEffect DEF RefreshUser
<1>4. QED
  BY <1>2, <1>3

LEMMA IssueType ==
    ASSUME NEW w \in Workers, TypeInv, NEW t \in Tokens, NEW root \in Tokens,
           NEW at \in Nat, Issue(w, t, root, at)
    PROVE  /\ expires' \in [Tokens -> Nat]
           /\ session' \in [Tokens -> Tokens]
           /\ access' \subseteq AccessToken
<1>1. req[w] \in Request /\ now \in Nat /\ Lifetime \in Nat
  BY AuthAssumption DEF TypeInv, TypeOK
<1>2. [tv |-> req[w].tv, epoch |-> req[w].epoch] \in AccessToken
  BY <1>1 DEF Request, AccessToken
<1>3. QED
  BY <1>1, <1>2 DEF Issue, TypeInv, TypeOK

-----------------------------------------------------------------------------
(***************************************************************************)
(* Types and versions: what a request read stays consistent with itself.   *)
(***************************************************************************)

\* The version an access token or a request carries is the number of
\* revocations when the users row was read.
VersionInv ==
    /\ user.tv = revocations
    /\ \A a \in access : a.tv = a.epoch
    /\ \A w \in Workers : req[w].tv = req[w].epoch

Inv == TypeInv /\ VersionInv

\* Any step that ends request w and writes well-typed values keeps the invariant.
LEMMA FinishKeeps ==
    ASSUME NEW w \in Workers, Inv, Finish(w)
    PROVE  /\ req' \in [Workers -> Request]
           /\ \A v \in Workers : req'[v].pc \in {"user", "rotate"} => req'[v].tok \in Tokens
           /\ \A v \in Workers : req'[v].tv = req'[v].epoch
BY FinishEffect DEF Inv, TypeInv, VersionInv, Idle

LEMMA BeginKeeps ==
    ASSUME NEW w \in Workers, Inv, NEW t \in Tokens \cup {NoToken},
           NEW pc \in {"login", "user", "ban", "unban", "password", "delete"}, Begin(w, pc, t),
           pc = "user" => t \in Tokens
    PROVE  /\ req' \in [Workers -> Request]
           /\ \A v \in Workers : req'[v].pc \in {"user", "rotate"} => req'[v].tok \in Tokens
           /\ \A v \in Workers : req'[v].tv = req'[v].epoch
<1>1. /\ req' \in [Workers -> Request]
      /\ req'[w].pc = pc /\ req'[w].tok = t
      /\ req'[w].tv = user.tv /\ req'[w].epoch = revocations
      /\ \A v \in Workers \ {w} : req'[v] = req[v]
  BY BeginEffect DEF Inv
<1>2. QED
  BY <1>1 DEF Inv, TypeInv, VersionInv

\* Unfolds the invariant of a step that leaves all but the requests alone.
LEMMA OnlyRequests ==
    ASSUME Inv, UNCHANGED <<user, expires, access, blacklist, now, observations>>,
           req' \in [Workers -> Request],
           \A v \in Workers : req'[v].pc \in {"user", "rotate"} => req'[v].tok \in Tokens,
           \A v \in Workers : req'[v].tv = req'[v].epoch
    PROVE  Inv'
BY DEF Inv, TypeInv, TypeOK, VersionInv, observations

LEMMA IssueKeeps ==
    ASSUME NEW w \in Workers, Inv, NEW t \in Tokens, NEW root \in Tokens,
           NEW at \in Nat, Issue(w, t, root, at)
    PROVE  /\ expires' \in [Tokens -> Nat]
           /\ session' \in [Tokens -> Tokens]
           /\ access' \subseteq AccessToken
           /\ \A a \in access' : a.tv = a.epoch
<1>1. \A a \in access' : a.tv = a.epoch
  BY DEF Issue, Inv, VersionInv
<1>2. QED
  BY <1>1, IssueType DEF Inv

LEMMA InvInit == Init => Inv
BY AuthAssumption, IdleRequest
DEF Init, Inv, TypeInv, TypeOK, VersionInv, User, AccessToken, Never, Idle

LEMMA InvRefreshCommit ==
    ASSUME NEW w \in Workers, Inv, RefreshCommit(w)
    PROVE  Inv'
<1> DEFINE t == req[w].tok
<1>0. t \in Tokens /\ req[w] \in Request /\ req[w].at + Lifetime \in Nat
  BY AuthAssumption DEF Inv, TypeInv, TypeOK, RefreshCommit, RotateWith, Request
<1>1. /\ req' \in [Workers -> Request]
      /\ \A v \in Workers : req'[v].pc \in {"user", "rotate"} => req'[v].tok \in Tokens
      /\ \A v \in Workers : req'[v].tv = req'[v].epoch
  BY FinishKeeps DEF RefreshCommit, RotateWith
<1>2. CASE Blacklisted(t)
  BY <1>1, <1>2, OnlyRequests DEF RefreshCommit, RotateWith, observations
<1>3. CASE ~Blacklisted(t)
  <2>1. Spend(t, req[w].at + Lifetime) /\ UNCHANGED <<user, now, ended, revocations>>
    BY <1>3 DEF RefreshCommit, RotateWith
  <2>2. PICK u \in Tokens : Issue(w, u, session[t], req[w].at)
    BY <1>3 DEF RefreshCommit, RotateWith
  <2>3. session[t] \in Tokens /\ req[w].at \in Nat
    BY <1>0 DEF Inv, TypeInv, TypeOK, Request
  <2>4. /\ expires' \in [Tokens -> Nat]
        /\ session' \in [Tokens -> Tokens]
        /\ access' \subseteq AccessToken
        /\ \A a \in access' : a.tv = a.epoch
    BY <2>2, <2>3, IssueKeeps
  <2>5. blacklist' \in [Tokens -> Nat] /\ uses' \in [Tokens -> Nat] /\ hasty' \subseteq Tokens
    BY <1>0, <2>1 DEF Spend, Inv, TypeInv, TypeOK
  <2>6. QED
    BY <1>1, <2>1, <2>4, <2>5 DEF Inv, TypeInv, TypeOK, VersionInv
<1>4. QED
  BY <1>2, <1>3

LEMMA InvRevoke ==
    ASSUME NEW w \in Workers, Inv, Revoke(w)
    PROVE  Inv'
<1>1. /\ req' \in [Workers -> Request]
      /\ \A v \in Workers : req'[v].pc \in {"user", "rotate"} => req'[v].tok \in Tokens
      /\ \A v \in Workers : req'[v].tv = req'[v].epoch
  BY FinishKeeps DEF Revoke
<1>2. user \in User /\ revocations \in Nat /\ user.tv = revocations
  BY DEF Inv, TypeInv, TypeOK, VersionInv
<1>3. user' \in User /\ revocations' \in Nat /\ user'.tv = revocations'
  <2>1. CASE user.status = "deleted"
    BY <1>2, <2>1 DEF Revoke
  <2>2. CASE user.status # "deleted"
    BY <1>2, <2>2 DEF Revoke, NextVersion, User
  <2>3. QED
    BY <2>1, <2>2
<1>4. QED
  BY <1>1, <1>3 DEF Revoke, Inv, TypeInv, TypeOK, VersionInv

LEMMA InvStep == Inv /\ [Next]_vars => Inv'
<1> SUFFICES ASSUME Inv, [Next]_vars
             PROVE  Inv'
  OBVIOUS
<1>1. CASE UNCHANGED vars
  BY <1>1 DEF vars, observations, Inv, TypeInv, TypeOK, VersionInv
<1>2. CASE Tick
  <2>1. now' \in 1..MaxTime + 1
    BY <1>2, AuthAssumption DEF Tick, Inv, TypeInv, TypeOK
  <2>2. QED
    BY <1>2, <2>1 DEF Tick, observations, Inv, TypeInv, TypeOK, VersionInv
<1>3. CASE Cleanup
  <2>1. blacklist' \in [Tokens -> Nat]
    BY <1>3 DEF Cleanup, Inv, TypeInv, TypeOK, Never
  <2>2. QED
    BY <1>3, <2>1 DEF Cleanup, observations, Inv, TypeInv, TypeOK, VersionInv
<1>4. CASE \E t \in Tokens : Logout(t)
  <2>1. PICK t \in Tokens : Logout(t)
    BY <1>4
  <2>2. now + Lifetime \in Nat
    BY AuthAssumption DEF Inv, TypeInv, TypeOK
  <2>3. /\ blacklist' \in [Tokens -> Nat] /\ uses' \in [Tokens -> Nat]
        /\ hasty' \subseteq Tokens /\ ended' \subseteq Tokens
    BY <2>1, <2>2 DEF Logout, Spend, Inv, TypeInv, TypeOK
  <2>4. QED
    BY <2>1, <2>3 DEF Logout, Inv, TypeInv, TypeOK, VersionInv
<1>5. CASE \E w \in Workers, t \in Tokens : RefreshBegin(w, t)
  <2>1. PICK w \in Workers, t \in Tokens : RefreshBegin(w, t)
    BY <1>5
  <2>2. QED
    BY <2>1, BeginKeeps, OnlyRequests DEF RefreshBegin
<1>6. CASE \E w \in Workers, pc \in {"password", "delete"} : OwnerBegin(w, pc)
  <2>1. PICK w \in Workers, pc \in {"password", "delete"} : OwnerBegin(w, pc)
    BY <1>6
  <2>2. QED
    BY <2>1, BeginKeeps, OnlyRequests DEF OwnerBegin
<1>7. ASSUME NEW w \in Workers, LoginBegin(w) \/ BanBegin(w) \/ UnbanBegin(w)
      PROVE  Inv'
  BY <1>7, BeginKeeps, OnlyRequests DEF LoginBegin, BanBegin, UnbanBegin
<1>8. ASSUME NEW w \in Workers, LoginReturn(w)
      PROVE  Inv'
  <2>1. PICK t \in Tokens : Issue(w, t, t, now)
    BY <1>8 DEF LoginReturn
  <2>2. QED
    BY <1>8, <2>1, IssueKeeps, FinishKeeps DEF LoginReturn, Inv, TypeInv, TypeOK, VersionInv
<1>9. ASSUME NEW w \in Workers, RefreshUser(w)
      PROVE  Inv'
  <2>1. /\ req' \in [Workers -> Request]
        /\ \/ req'[w] = Idle
           \/ /\ req[w].pc = "user" /\ req'[w].tok = req[w].tok
              /\ req'[w].tv = user.tv /\ req'[w].epoch = revocations
        /\ \A v \in Workers \ {w} : req'[v] = req[v]
    BY <1>9, RefreshUserEffect DEF Inv
  <2>2. \A v \in Workers : req'[v].pc \in {"user", "rotate"} => req'[v].tok \in Tokens
    BY <2>1 DEF Inv, TypeInv, Idle
  <2>3. \A v \in Workers : req'[v].tv = req'[v].epoch
    BY <2>1 DEF Inv, VersionInv, Idle
  <2>4. QED
    BY <1>9, <2>1, <2>2, <2>3, OnlyRequests DEF RefreshUser
<1>10. ASSUME NEW w \in Workers, UnbanCommit(w) \/ DeleteCommit(w)
       PROVE  Inv'
  <2>1. user' \in User /\ user'.tv = user.tv
    BY <1>10 DEF UnbanCommit, DeleteCommit, Inv, TypeInv, TypeOK, User
  <2>2. Finish(w) /\ UNCHANGED <<expires, access, blacklist, now, observations>>
    BY <1>10 DEF UnbanCommit, DeleteCommit
  <2>3. QED
    BY <2>1, <2>2, FinishKeeps DEF observations, Inv, TypeInv, TypeOK, VersionInv
<1>11. ASSUME NEW w \in Workers, Abort(w)
       PROVE  Inv'
  BY <1>11, FinishKeeps, OnlyRequests DEF Abort
<1>12. QED
  BY <1>1, <1>2, <1>3, <1>4, <1>5, <1>6, <1>7, <1>8, <1>9, <1>10, <1>11,
     InvRefreshCommit, InvRevoke DEF Next, Handler

\* The invariant holds in every reachable state.
THEOREM Invariance == Spec => []Inv
BY InvInit, InvStep, PTL DEF Spec

\* The state of the tokens, the requests and the users row keeps its shape.
THEOREM TypeCorrect == Spec => []TypeOK
<1>1. Inv => TypeOK
  BY DEF Inv, TypeInv
<1>2. QED
  BY <1>1, Invariance, PTL

\* An access token made from a row that was read before a ban or a password
\* change is never accepted after it, for any number of concurrent requests.
THEOREM AcceptedCurrent == Spec => []AcceptedTokensAreCurrent
<1>1. Inv => AcceptedTokensAreCurrent
  BY DEF Inv, VersionInv, AcceptedTokensAreCurrent, Accepts
<1>2. QED
  BY <1>1, Invariance, PTL

-----------------------------------------------------------------------------
(***************************************************************************)
(* The second of a time.                                                   *)
(***************************************************************************)

\* A time is its whole seconds and less than one more.
LEMMA SecondsOf ==
    ASSUME NEW x \in Nat
    PROVE  /\ Seconds(x) \in Nat
           /\ TicksPerSecond * Seconds(x) <= x
           /\ x < TicksPerSecond * Seconds(x) + TicksPerSecond
BY AuthAssumption, Z3 DEF Seconds

\* Seconds do not run backwards, and times a second apart differ in it.
LEMMA SecondsGrow ==
    ASSUME NEW x \in Nat, NEW y \in Nat
    PROVE  /\ x <= y => Seconds(x) <= Seconds(y)
           /\ x + TicksPerSecond <= y => Seconds(x) < Seconds(y)
<1> DEFINE n == TicksPerSecond
           a == Seconds(x)
           b == Seconds(y)
<1>1. /\ n \in Nat /\ n > 0 /\ a \in Nat /\ b \in Nat
      /\ n * a <= x /\ x < n * a + n /\ n * b <= y /\ y < n * b + n
  BY SecondsOf, AuthAssumption
<1>2. ASSUME b < a PROVE y < x
  <2>1. n * (b + 1) <= n * a
    BY <1>1, <1>2, Z3
  <2>2. n * (b + 1) = n * b + n
    BY <1>1, Z3
  <2>3. QED
    BY <1>1, <2>1, <2>2, Z3
<1>3. ASSUME b <= a PROVE y < x + n
  <2>1. n * b <= n * a
    BY <1>1, <1>3, Z3
  <2>2. QED
    BY <1>1, <2>1, Z3
<1>4. QED
  BY <1>1, <1>2, <1>3

-----------------------------------------------------------------------------
(***************************************************************************)
(* The life of a refresh token.                                            *)
(*                                                                         *)
(* A token is spent when a refresh or a logout has written its entry.  The *)
(* heart of the argument: while a request that has passed the blacklist    *)
(* check is open, the cleanup cannot have removed an entry it missed,      *)
(* because an entry outlives every open request; and an entry goes before  *)
(* the last second of its token is over only if it was written in the      *)
(* token's first, which a second entry cannot be.                          *)
(***************************************************************************)

Issued(t) == expires[t] # Never

\* Token t was spent too soon, and once.
Again(t) == t \in hasty /\ uses[t] = 1

\* Request w has passed the blacklist check for token t.
Holds(w, t) == req[w].pc \in {"user", "rotate"} /\ req[w].tok = t

ClockInv ==
    /\ \A t \in Tokens : expires[t] <= now + Lifetime
    /\ \A w \in Workers : req[w].pc # "idle" =>
          /\ 1 <= req[w].since
          /\ req[w].since <= now
          /\ now <= req[w].since + Patience
    /\ \A w \in Workers, t \in Tokens : Holds(w, t) => Issued(t)
    /\ \A w \in Workers : req[w].pc = "rotate" =>
          /\ req[w].since <= req[w].at
          /\ req[w].at <= now
          /\ expires[req[w].tok] <= req[w].at + Lifetime

\* An entry written for token t with expiry e outlives the token's claim, unless the
\* token can be used again.
Outlives(t, e) ==
    /\ expires[t] <= e
    /\ Seconds(expires[t]) < Seconds(e) \/ Again(t)

\* The token ran out before now, or does so in this second and can be used again.
RanOut(t) ==
    /\ expires[t] < now
    /\ Seconds(expires[t]) < Seconds(now) \/ Again(t)

\* Why request w may hold a spent token: its entry is there and will be, or the
\* request began after the entry of a token spent too soon had gone.
MayHold(w, t) ==
    \/ Blacklisted(t) /\ req[w].since + Patience <= blacklist[t]
    \/ ~Blacklisted(t) /\ Again(t) /\ expires[t] < req[w].since

\* What is so of every token that is spent.
SpentOK(t) ==
    /\ Issued(t)
    /\ uses[t] <= (IF t \in hasty THEN 2 ELSE 1)
    /\ Blacklisted(t) => Outlives(t, blacklist[t])
    /\ ~Blacklisted(t) => RanOut(t)
    /\ \A w \in Workers : Holds(w, t) => MayHold(w, t)

SpentInv ==
    /\ \A t \in Tokens : Spent(t) => SpentOK(t)
    /\ \A t \in hasty \cup ended : Spent(t)

\* A session has at most one token that is not spent, and none after a logout, unless
\* a token of it was spent too soon.
SessionInv ==
    /\ \A t \in Tokens : Issued(t) => Issued(session[t])
    /\ \A t, u \in Tokens :
          Issued(t) /\ Issued(u) /\ session[t] = session[u] /\ t # u /\ Unhurried(t)
            => Spent(t) \/ Spent(u)
    /\ \A t \in ended, u \in Tokens :
          Issued(u) /\ session[t] = session[u] /\ Unhurried(t) => Spent(u)

TokenInv == TypeInv /\ ClockInv /\ SpentInv /\ SessionInv

LEMMA Numbers ==
    ASSUME TypeInv
    PROVE  /\ \A t \in Tokens : /\ expires[t] \in Nat /\ blacklist[t] \in Nat
                                /\ uses[t] \in Nat /\ session[t] \in Tokens
           /\ \A w \in Workers : req[w].since \in Nat /\ req[w].at \in Nat
           /\ now \in Nat /\ 1 <= now /\ hasty \subseteq Tokens /\ ended \subseteq Tokens
           /\ Lifetime \in Nat /\ Patience \in Nat /\ 2 * Patience <= Lifetime
           /\ TicksPerSecond \in Nat /\ 1 <= TicksPerSecond /\ TicksPerSecond <= Lifetime
<1>1. \A w \in Workers : req[w] \in Request
  BY DEF TypeInv, TypeOK
<1>2. QED
  BY <1>1, AuthAssumption DEF TypeInv, TypeOK, Request

LEMMA TokenInit == Init => TokenInv
<1> SUFFICES ASSUME Init
             PROVE  TokenInv
  OBVIOUS
<1>1. TypeInv
  BY InvInit DEF Inv
<1>2. \A w \in Workers : req[w].pc = "idle"
  BY DEF Init, Idle
<1>3. /\ \A t \in Tokens : ~Issued(t) /\ uses[t] = 0
      /\ hasty = {} /\ ended = {}
  BY DEF Init, Issued
<1>4. ClockInv
  BY <1>2, Numbers, <1>1 DEF Init, ClockInv, Holds, Never
<1>5. SpentInv
  BY <1>3 DEF SpentInv, Spent
<1>6. SessionInv
  BY <1>3 DEF SessionInv
<1>7. QED
  BY <1>1, <1>4, <1>5, <1>6 DEF TokenInv

\* What a step may do to the requests without a token gaining a holder.
Quiet ==
    \A v \in Workers :
        \/ req'[v] = req[v]
        \/ req'[v].pc = "idle"
        \/ req'[v].pc \in {"login", "ban", "unban", "password", "delete"} /\ req'[v].since = now

\* Requests apart, a step that does this leaves what is said of a token alone.
LEMMA TokenFrame ==
    ASSUME TokenInv, UNCHANGED <<expires, blacklist, session, uses, hasty, ended, now>>,
           \A v \in Workers, t \in Tokens :
               Holds(v, t)' => Holds(v, t) /\ req'[v].since = req[v].since
    PROVE  SpentInv' /\ SessionInv'
<1>1. \A t \in Tokens : (Spent(t)' <=> Spent(t)) /\ (Issued(t)' <=> Issued(t))
  BY DEF Spent, Issued
<1>2. ASSUME NEW t \in Tokens, Spent(t)'
      PROVE  SpentOK(t)'
  <2>1. SpentOK(t)
    BY <1>1, <1>2 DEF TokenInv, SpentInv
  <2>2. QED
    BY <1>1, <2>1
    DEF SpentOK, Outlives, RanOut, MayHold, Again, Blacklisted, Seconds, Issued
<1>3. SpentInv'
  BY <1>1, <1>2 DEF TokenInv, SpentInv, TypeInv, TypeOK
<1>4. SessionInv'
  BY <1>1 DEF TokenInv, SessionInv, Unhurried, Spent, Issued
<1>5. QED
  BY <1>3, <1>4

LEMMA QuietStep ==
    ASSUME TokenInv, TypeInv', Quiet,
           UNCHANGED <<expires, blacklist, session, uses, hasty, ended, now>>
    PROVE  TokenInv'
<1>1. \A v \in Workers, t \in Tokens : Holds(v, t)' => req'[v] = req[v] /\ Holds(v, t)
  BY DEF Quiet, Holds
<1>2. ClockInv'
  <2>1. \A v \in Workers : req'[v].pc = "rotate" => req'[v] = req[v]
    BY DEF Quiet
  <2>2. \A v \in Workers : req'[v].pc # "idle" => req'[v] = req[v] \/ req'[v].since = now
    BY DEF Quiet
  <2>3. QED
    BY <1>1, <2>1, <2>2, Numbers DEF TokenInv, ClockInv, Issued
<1>3. SpentInv' /\ SessionInv'
  BY <1>1, TokenFrame
<1>4. QED
  BY <1>2, <1>3 DEF TokenInv

LEMMA FinishQuiet ==
    ASSUME NEW w \in Workers, TypeInv, Finish(w)
    PROVE  Quiet
BY FinishEffect DEF Quiet, Idle

LEMMA BeginQuiet ==
    ASSUME NEW w \in Workers, TypeInv, NEW t \in Tokens \cup {NoToken},
           NEW pc \in {"login", "ban", "unban", "password", "delete"}, Begin(w, pc, t)
    PROVE  Quiet
BY BeginEffect DEF Quiet

-----------------------------------------------------------------------------
\* A spent token without an entry that still decodes was spent too soon, and is in its
\* last second.
LEMMA LiveLate ==
    ASSUME TokenInv, NEW t \in Tokens, Live(t), Spent(t)
    PROVE  Again(t) /\ expires[t] < now /\ Seconds(now) = Seconds(expires[t])
<1>1. RanOut(t)
  BY DEF TokenInv, SpentInv, SpentOK, Live
<1>2. Seconds(now) <= Seconds(expires[t]) /\ Seconds(now) \in Nat /\ Seconds(expires[t]) \in Nat
  BY SecondsOf, Numbers DEF TokenInv, Live, Decodes
<1>3. Seconds(expires[t]) <= Seconds(now)
  BY <1>1, SecondsGrow, Numbers DEF RanOut, TokenInv
<1>4. QED
  BY <1>1, <1>2, <1>3 DEF RanOut

LEMMA LiveIssued ==
    ASSUME NEW t \in Tokens, Live(t)
    PROVE  Issued(t)
BY DEF Live, Decodes, Issued

\* Nor is there another use in the token of an open request that finds no entry.
LEMMA HeldUnspent ==
    ASSUME TokenInv, NEW w \in Workers, NEW t \in Tokens, Holds(w, t), ~Blacklisted(t)
    PROVE  Issued(t) /\ (Spent(t) => Again(t) /\ expires[t] < req[w].since)
BY DEF TokenInv, ClockInv, SpentInv, SpentOK, MayHold

LEMMA TokenRefreshBegin ==
    ASSUME TokenInv, TypeInv', NEW w \in Workers, NEW t \in Tokens, RefreshBegin(w, t)
    PROVE  TokenInv'
<1>1. /\ req'[w].pc = "user" /\ req'[w].tok = t /\ req'[w].since = now
      /\ \A v \in Workers \ {w} : req'[v] = req[v]
  BY BeginEffect DEF RefreshBegin, TokenInv
<1>2. UNCHANGED <<expires, blacklist, session, uses, hasty, ended, now>>
  BY DEF RefreshBegin, observations
<1>3. Issued(t) /\ ~Blacklisted(t) /\ (Spent(t) => Again(t) /\ expires[t] < now)
  BY LiveLate, LiveIssued DEF RefreshBegin, Live
<1>4. ClockInv'
  BY <1>1, <1>2, <1>3, Numbers DEF TokenInv, ClockInv, Holds, Issued
<1>5. SpentInv'
  <2>1. ASSUME NEW u \in Tokens, Spent(u)'
        PROVE  SpentOK(u)'
    <3>1. Spent(u) /\ SpentOK(u)
      BY <1>2, <2>1 DEF TokenInv, SpentInv, Spent
    <3>2. \A v \in Workers : Holds(v, u)' => MayHold(v, u)'
      <4>1. ASSUME Holds(w, u)'
            PROVE  MayHold(w, u)'
        BY <1>1, <1>2, <1>3, <3>1, <4>1 DEF Holds, MayHold, Again, Blacklisted
      <4>2. ASSUME NEW v \in Workers \ {w}, Holds(v, u)'
            PROVE  MayHold(v, u)'
        BY <1>1, <1>2, <3>1, <4>2 DEF Holds, SpentOK, MayHold, Again, Blacklisted
      <4>3. QED
        BY <4>1, <4>2
    <3>3. QED
      BY <1>2, <3>1, <3>2 DEF SpentOK, Outlives, RanOut, Again, Blacklisted, Seconds, Issued
  <2>2. QED
    BY <1>2, <2>1, Numbers DEF TokenInv, SpentInv, Spent
<1>6. SessionInv'
  BY <1>2 DEF TokenInv, SessionInv, Unhurried, Spent, Issued
<1>7. QED
  BY <1>4, <1>5, <1>6 DEF TokenInv

LEMMA TokenRefreshUser ==
    ASSUME TokenInv, TypeInv', NEW w \in Workers, RefreshUser(w)
    PROVE  TokenInv'
<1>1. UNCHANGED <<expires, blacklist, session, uses, hasty, ended, now>>
  BY DEF RefreshUser, observations
<1>2. CASE req'[w] = Idle
  <2>1. Quiet
    BY <1>2, RefreshUserEffect DEF Quiet, Idle, TokenInv
  <2>2. QED
    BY <1>1, <2>1, QuietStep
<1>3. CASE req'[w] # Idle
  <2>1. /\ req[w].pc = "user" /\ req'[w].pc = "rotate"
        /\ req'[w].tok = req[w].tok /\ req'[w].since = req[w].since
        /\ req'[w].at = now
        /\ \A v \in Workers \ {w} : req'[v] = req[v]
    BY <1>3, RefreshUserEffect DEF TokenInv
  <2>2. \A v \in Workers, t \in Tokens :
            Holds(v, t)' <=> Holds(v, t)
    BY <2>1 DEF Holds
  <2>3. \A v \in Workers : req'[v].since = req[v].since
    BY <2>1
  <2>4. req[w].tok \in Tokens
    BY <2>1 DEF TokenInv, TypeInv
  <2>5. ClockInv'
    BY <1>1, <2>1, <2>2, <2>4, Numbers DEF TokenInv, ClockInv, Issued
  <2>6. SpentInv' /\ SessionInv'
    BY <1>1, <2>2, <2>3, TokenFrame
  <2>7. QED
    BY <2>5, <2>6 DEF TokenInv
<1>4. QED
  BY <1>2, <1>3

LEMMA TokenTick ==
    ASSUME TokenInv, TypeInv', Tick
    PROVE  TokenInv'
<1>1. UNCHANGED <<expires, blacklist, session, uses, hasty, ended, req>> /\ now' = now + 1
  BY DEF Tick, observations
<1>2. ClockInv'
  BY <1>1, Numbers DEF Tick, TokenInv, ClockInv, Holds, Issued
<1>3. SpentInv'
  <2>1. ASSUME NEW t \in Tokens, Spent(t)'
        PROVE  SpentOK(t)'
    <3>1. SpentOK(t)
      BY <1>1, <2>1 DEF TokenInv, SpentInv, Spent
    <3>2. RanOut(t) => RanOut(t)'
      <4>1. /\ Seconds(now) <= Seconds(now')
            /\ Seconds(now) \in Nat /\ Seconds(now') \in Nat /\ Seconds(expires[t]) \in Nat
        BY <1>1, SecondsOf, SecondsGrow, Numbers DEF TokenInv
      <4>2. Seconds(now)' = Seconds(now') /\ Seconds(expires[t])' = Seconds(expires[t])
        BY <1>1 DEF Seconds
      <4>3. QED
        BY <1>1, <4>1, <4>2, Numbers DEF RanOut, Again, TokenInv
    <3>3. QED
      BY <1>1, <3>1, <3>2 DEF SpentOK, Outlives, MayHold, Holds, Again, Blacklisted, Seconds, Issued
  <2>2. QED
    BY <1>1, <2>1, Numbers DEF TokenInv, SpentInv, Spent
<1>4. SessionInv'
  BY <1>1 DEF TokenInv, SessionInv, Unhurried, Spent, Issued
<1>5. QED
  BY <1>2, <1>3, <1>4 DEF TokenInv

LEMMA TokenCleanup ==
    ASSUME TokenInv, TypeInv', Cleanup
    PROVE  TokenInv'
<1>1. /\ UNCHANGED <<expires, session, uses, hasty, ended, req, now>>
      /\ \A t \in Tokens : blacklist'[t] = IF blacklist[t] < now THEN Never ELSE blacklist[t]
  BY DEF Cleanup, observations
<1>2. ClockInv'
  BY <1>1 DEF TokenInv, ClockInv, Holds, Issued
<1>3. SpentInv'
  <2>1. ASSUME NEW t \in Tokens, Spent(t)'
        PROVE  SpentOK(t)'
    <3>1. SpentOK(t)
      BY <1>1, <2>1 DEF TokenInv, SpentInv, Spent
    <3>2. CASE Blacklisted(t) /\ blacklist[t] < now
      <4>1. ~Blacklisted(t)'
        BY <1>1, <3>2 DEF Blacklisted
      <4>2. RanOut(t)'
        <5>1. expires[t] < now
          BY <3>1, <3>2, Numbers DEF SpentOK, Outlives, TokenInv
        <5>2. /\ Seconds(blacklist[t]) <= Seconds(now)
              /\ Seconds(blacklist[t]) \in Nat /\ Seconds(now) \in Nat
              /\ Seconds(expires[t]) \in Nat
          BY <3>2, SecondsOf, SecondsGrow, Numbers DEF TokenInv
        <5>3. Seconds(expires[t]) < Seconds(now) \/ Again(t)
          BY <3>1, <3>2, <5>2 DEF SpentOK, Outlives
        <5>4. QED
          BY <1>1, <5>1, <5>3 DEF RanOut, Again, Seconds
      <4>3. \A w \in Workers : ~Holds(w, t)
        BY <3>1, <3>2, Numbers DEF SpentOK, MayHold, Holds, TokenInv, ClockInv
      <4>4. QED
        BY <1>1, <3>1, <4>1, <4>2, <4>3 DEF SpentOK, Holds, Issued
    <3>3. CASE ~(Blacklisted(t) /\ blacklist[t] < now)
      <4>1. blacklist'[t] = blacklist[t]
        BY <1>1, <3>3 DEF Blacklisted
      <4>2. QED
        BY <1>1, <3>1, <4>1
        DEF SpentOK, Outlives, RanOut, MayHold, Holds, Again, Blacklisted, Seconds, Issued
    <3>4. QED
      BY <3>2, <3>3
  <2>2. QED
    BY <1>1, <2>1, Numbers DEF TokenInv, SpentInv, Spent
<1>4. SessionInv'
  BY <1>1 DEF TokenInv, SessionInv, Unhurried, Spent, Issued
<1>5. QED
  BY <1>2, <1>3, <1>4 DEF TokenInv

-----------------------------------------------------------------------------
(***************************************************************************)
(* What an entry written now does to a token that may still be used.       *)
(***************************************************************************)

\* Token t is not spent yet, or was spent too soon and ran out before time at.
LEMMA SpendEffect ==
    ASSUME TokenInv, TypeInv', NEW t \in Tokens, NEW at \in Nat, Spend(t, at + Lifetime),
           Issued(t), expires[t] <= at + Lifetime, at + Lifetime > 0,
           Spent(t) => Again(t) /\ expires[t] < at,
           expires'[t] = expires[t]
    PROVE  /\ Spent(t)' /\ Blacklisted(t)' /\ blacklist'[t] = at + Lifetime
           /\ uses'[t] <= (IF t \in hasty' THEN 2 ELSE 1)
           /\ Outlives(t, blacklist[t])'
           /\ \A u \in Tokens \ {t} :
                 /\ blacklist'[u] = blacklist[u] /\ uses'[u] = uses[u]
                 /\ u \in hasty' <=> u \in hasty
           /\ hasty \subseteq hasty'
<1>1. /\ blacklist'[t] = at + Lifetime /\ uses'[t] = uses[t] + 1
      /\ \A u \in Tokens \ {t} : blacklist'[u] = blacklist[u] /\ uses'[u] = uses[u]
      /\ hasty' = IF Seconds(at + Lifetime) = Seconds(expires[t]) THEN hasty \cup {t} ELSE hasty
  BY DEF Spend, TokenInv, TypeInv, TypeOK
<1>2. Spent(t)' /\ Blacklisted(t)'
  BY <1>1, Numbers DEF Spent, Blacklisted, Never, TokenInv
<1>3. /\ Seconds(expires[t]) \in Nat /\ Seconds(at + Lifetime) \in Nat
      /\ Seconds(expires[t]) <= Seconds(at + Lifetime)
  <2>1. expires[t] \in Nat /\ at + Lifetime \in Nat
    BY Numbers DEF TokenInv
  <2>2. QED
    BY <2>1, SecondsOf, SecondsGrow
<1>4. /\ Seconds(expires[t])' = Seconds(expires[t])
      /\ Seconds(blacklist[t])' = Seconds(at + Lifetime)
  BY <1>1 DEF Seconds
<1>5. CASE ~Spent(t)
  <2>1. uses'[t] = 1
    BY <1>1, <1>5, Numbers DEF Spent, TokenInv
  <2>2. QED
    BY <1>1, <1>2, <1>3, <1>4, <2>1 DEF Outlives, Again
<1>6. CASE Spent(t)
  <2>1. t \in hasty' /\ uses'[t] = 2
    BY <1>1, <1>6 DEF Again
  <2>2. Seconds(expires[t]) < Seconds(at + Lifetime)
    BY <1>6, SecondsGrow, Numbers DEF TokenInv
  <2>3. QED
    BY <1>1, <1>2, <1>4, <2>1, <2>2 DEF Outlives
<1>7. QED
  BY <1>5, <1>6

\* A token no entry is written for stays as it is.
LEMMA OtherTokens ==
    ASSUME TokenInv, NEW u \in Tokens, SpentOK(u),
           expires'[u] = expires[u], blacklist'[u] = blacklist[u], uses'[u] = uses[u],
           u \in hasty' <=> u \in hasty, now' = now,
           \A v \in Workers : Holds(v, u)' => Holds(v, u) /\ req'[v] = req[v]
    PROVE  SpentOK(u)'
BY DEF SpentOK, Outlives, RanOut, MayHold, Again, Blacklisted, Seconds, Issued

LEMMA TokenLogout ==
    ASSUME TokenInv, TypeInv', NEW t \in Tokens, Logout(t)
    PROVE  TokenInv'
<1>1. UNCHANGED <<expires, session, req, now>>
  BY DEF Logout
<1>2. CASE Blacklisted(t)
  <2>1. UNCHANGED <<expires, blacklist, session, uses, hasty, ended, now>> /\ Quiet
    BY <1>1, <1>2 DEF Logout, Quiet
  <2>2. QED
    BY <2>1, QuietStep
<1>3. CASE ~Blacklisted(t)
  <2>1. Spend(t, now + Lifetime) /\ ended' = ended \cup {t} /\ Live(t)
    BY <1>3 DEF Logout, Live
  <2>2. Issued(t) /\ (Spent(t) => Again(t) /\ expires[t] < now)
    BY <2>1, LiveLate, LiveIssued
  <2>3. /\ Spent(t)' /\ Blacklisted(t)' /\ blacklist'[t] = now + Lifetime
        /\ uses'[t] <= (IF t \in hasty' THEN 2 ELSE 1)
        /\ Outlives(t, blacklist[t])'
        /\ \A u \in Tokens \ {t} :
              /\ blacklist'[u] = blacklist[u] /\ uses'[u] = uses[u]
              /\ u \in hasty' <=> u \in hasty
        /\ hasty \subseteq hasty'
    <3>1. now \in Nat /\ expires[t] <= now + Lifetime /\ now + Lifetime > 0
      BY Numbers DEF TokenInv, ClockInv
    <3>2. QED
      BY <1>1, <2>1, <2>2, <3>1, SpendEffect
  <2>4. \A u \in Tokens : (Issued(u)' <=> Issued(u)) /\ (u # t => (Spent(u)' <=> Spent(u)))
    BY <1>1, <2>3 DEF Spent, Issued
  <2>5. ClockInv'
    BY <1>1 DEF TokenInv, ClockInv, Holds, Issued
  <2>6. SpentInv'
    <3>1. SpentOK(t)'
      <4>1. \A w \in Workers : Holds(w, t)' => MayHold(w, t)'
        BY <1>1, <2>3, Numbers DEF TokenInv, ClockInv, Holds, MayHold
      <4>2. QED
        BY <2>2, <2>3, <2>4, <4>1 DEF SpentOK
    <3>2. ASSUME NEW u \in Tokens \ {t}, Spent(u)'
          PROVE  SpentOK(u)'
      <4>1. SpentOK(u)
        BY <2>4, <3>2 DEF TokenInv, SpentInv
      <4>2. \A v \in Workers : Holds(v, u)' => Holds(v, u) /\ req'[v] = req[v]
        BY <1>1 DEF Holds
      <4>3. QED
        BY <1>1, <2>3, <4>1, <4>2, OtherTokens
    <3>3. \A u \in hasty' \cup ended' : Spent(u)'
      BY <2>1, <2>3, <2>4, Numbers DEF TokenInv, SpentInv, TypeInv, TypeOK
    <3>4. QED
      BY <3>1, <3>2, <3>3 DEF SpentInv
  <2>7. SessionInv'
    <3>1. \A u \in Tokens : Unhurried(u)' => Unhurried(u)
      BY <1>1, <2>3 DEF Unhurried
    <3>2. Unhurried(t)' => ~Spent(t)
      BY <2>2, <3>1 DEF Unhurried, Again
    <3>3. \A u \in Tokens : Spent(u) => Spent(u)'
      BY <2>3, <2>4
    <3>4. ASSUME NEW u \in ended', NEW v \in Tokens, Issued(v), session[u] = session[v],
                 Unhurried(u)'
          PROVE  Spent(v)'
      <4>1. CASE u # t
        <5>1. u \in ended /\ u \in Tokens /\ Unhurried(u)
          BY <2>1, <3>1, <3>4, <4>1, Numbers DEF TokenInv
        <5>2. QED
          BY <3>3, <3>4, <5>1 DEF TokenInv, SessionInv
      <4>2. CASE u = t
        BY <2>2, <2>3, <3>1, <3>2, <3>3, <3>4, <4>2 DEF TokenInv, SessionInv
      <4>3. QED
        BY <4>1, <4>2
    <3>5. QED
      BY <1>1, <2>4, <3>1, <3>3, <3>4, Numbers DEF TokenInv, SessionInv
  <2>8. QED
    BY <2>5, <2>6, <2>7 DEF TokenInv
<1>4. QED
  BY <1>2, <1>3

\* What a new pair of tokens changes.
LEMMA IssueEffect ==
    ASSUME TypeInv, NEW w \in Workers, NEW u \in Tokens, NEW root \in Tokens,
           NEW at \in Nat, Issue(w, u, root, at)
    PROVE  /\ ~Issued(u) /\ Issued(u)'
           /\ expires'[u] = at + Lifetime /\ session'[u] = root
           /\ \A t \in Tokens \ {u} : expires'[t] = expires[t] /\ session'[t] = session[t]
<1>1. at + Lifetime # 0
  BY AuthAssumption
<1>2. QED
  BY <1>1 DEF Issue, Issued, Never, TypeInv, TypeOK

LEMMA TokenLogin ==
    ASSUME TokenInv, TypeInv', NEW w \in Workers, LoginReturn(w)
    PROVE  TokenInv'
<1>1. PICK u \in Tokens : Issue(w, u, u, now)
  BY DEF LoginReturn
<1>2. /\ ~Issued(u) /\ Issued(u)'
      /\ expires'[u] = now + Lifetime /\ session'[u] = u
      /\ \A t \in Tokens \ {u} : expires'[t] = expires[t] /\ session'[t] = session[t]
  BY <1>1, IssueEffect, Numbers DEF TokenInv
<1>3. UNCHANGED <<blacklist, uses, hasty, ended, now>>
  BY DEF LoginReturn
<1>4. \A v \in Workers : req'[v].pc # "idle" => req'[v] = req[v]
  BY FinishEffect DEF LoginReturn, TokenInv, Idle
<1>5. \A t \in Tokens : (Spent(t)' <=> Spent(t)) /\ (t # u => (Issued(t)' <=> Issued(t)))
  BY <1>2, <1>3 DEF Spent, Issued
<1>6. ~Spent(u) /\ u \notin hasty
  BY <1>2 DEF TokenInv, SpentInv, SpentOK
<1>7. \A v \in Workers, t \in Tokens : Holds(v, t)' => Holds(v, t) /\ t # u /\ req'[v] = req[v]
  BY <1>2, <1>4 DEF Holds, TokenInv, ClockInv
<1>8. ClockInv'
  <2>1. \A v \in Workers : req'[v].pc = "rotate" =>
            req'[v] = req[v] /\ req[v].tok \in Tokens /\ req[v].tok # u
    BY <1>2, <1>4 DEF TokenInv, TypeInv, ClockInv, Holds
  <2>2. QED
    BY <1>2, <1>3, <1>4, <1>5, <1>7, <2>1, Numbers DEF TokenInv, ClockInv
<1>9. SpentInv'
  <2>1. ASSUME NEW t \in Tokens, Spent(t)'
        PROVE  SpentOK(t)'
    <3>1. SpentOK(t) /\ t # u
      BY <1>5, <1>6, <2>1 DEF TokenInv, SpentInv
    <3>2. QED
      BY <1>2, <1>3, <1>7, <3>1, OtherTokens
  <2>2. QED
    BY <1>3, <1>5, <2>1, Numbers DEF TokenInv, SpentInv
<1>10. SessionInv'
  <2>1. \A t \in Tokens : Issued(t) => session[t] # u
    BY <1>2 DEF TokenInv, SessionInv
  <2>2. \A t \in ended \cup hasty : t \in Tokens /\ Issued(t) /\ t # u
    BY <1>6, Numbers DEF TokenInv, SpentInv, SpentOK
  <2>3. \A t \in Tokens : Issued(t)' => Issued(session[t])'
    BY <1>2, <1>5, <2>1, Numbers DEF TokenInv, SessionInv, Issued
  <2>4. \A t \in Tokens \ {u} : Unhurried(t)' => Unhurried(t)
    BY <1>2, <1>3, <2>2 DEF Unhurried
  <2>5. \A t, v \in Tokens :
            Issued(t)' /\ Issued(v)' /\ session'[t] = session'[v] /\ t # v /\ Unhurried(t)'
              => Spent(t) \/ Spent(v)
    BY <1>2, <1>5, <2>1, <2>4 DEF TokenInv, SessionInv
  <2>6. \A t \in ended, v \in Tokens :
            Issued(v)' /\ session'[t] = session'[v] /\ Unhurried(t)' => Spent(v)
    BY <1>2, <1>5, <2>1, <2>2, <2>4 DEF TokenInv, SessionInv
  <2>7. QED
    BY <1>3, <1>5, <2>3, <2>5, <2>6 DEF TokenInv, SessionInv
<1>11. QED
  BY <1>8, <1>9, <1>10 DEF TokenInv

LEMMA TokenRefreshCommit ==
    ASSUME TokenInv, TypeInv', NEW w \in Workers, RefreshCommit(w)
    PROVE  TokenInv'
<1>1. PICK t \in Tokens :
         /\ t = req[w].tok /\ Holds(w, t) /\ req[w].pc = "rotate" /\ Finish(w)
         /\ UNCHANGED <<now, ended>>
  BY DEF TokenInv, TypeInv, Holds, RefreshCommit, RotateWith
<1>2. CASE Blacklisted(t)
  <2>1. UNCHANGED <<expires, blacklist, session, uses, hasty, ended, now>>
    BY <1>1, <1>2 DEF RefreshCommit, RotateWith
  <2>2. QED
    BY <1>1, <2>1, FinishQuiet, QuietStep DEF TokenInv
<1>3. CASE ~Blacklisted(t)
  <2> DEFINE at == req[w].at
  <2>1. Spend(t, at + Lifetime)
    BY <1>1, <1>3 DEF RefreshCommit, RotateWith
  <2>2. PICK u \in Tokens : Issue(w, u, session[t], at)
    BY <1>1, <1>3 DEF RefreshCommit, RotateWith
  <2>3. /\ ~Issued(u) /\ Issued(u)'
        /\ expires'[u] = at + Lifetime /\ session'[u] = session[t]
        /\ \A v \in Tokens \ {u} : expires'[v] = expires[v] /\ session'[v] = session[v]
    BY <1>1, <2>2, IssueEffect, Numbers DEF TokenInv
  <2>4. Issued(t) /\ t # u /\ ~Spent(u) /\ u \notin hasty
    <3>1. Issued(t)
      BY <1>1, <1>3, HeldUnspent
    <3>2. QED
      BY <2>3, <3>1 DEF TokenInv, SpentInv, SpentOK
  <2>5. /\ at \in Nat /\ 1 <= at /\ req[w].since <= at /\ now <= req[w].since + Patience
        /\ expires[t] <= at + Lifetime /\ at <= now
    BY <1>1, Numbers DEF TokenInv, ClockInv
  <2>6. /\ Spent(t)' /\ Blacklisted(t)' /\ blacklist'[t] = at + Lifetime
        /\ uses'[t] <= (IF t \in hasty' THEN 2 ELSE 1)
        /\ Outlives(t, blacklist[t])'
        /\ \A v \in Tokens \ {t} :
              /\ blacklist'[v] = blacklist[v] /\ uses'[v] = uses[v]
              /\ v \in hasty' <=> v \in hasty
        /\ hasty \subseteq hasty'
    <3>1. Spent(t) => Again(t) /\ expires[t] < at
      BY <1>1, <1>3, <2>5, HeldUnspent, Numbers DEF TokenInv
    <3>2. expires'[t] = expires[t] /\ at + Lifetime > 0
      BY <2>3, <2>4, <2>5, Numbers DEF TokenInv
    <3>3. QED
      BY <2>1, <2>4, <2>5, <3>1, <3>2, SpendEffect
  <2>7. \A v \in Workers : req'[v].pc # "idle" => v # w /\ req'[v] = req[v]
    BY <1>1, FinishEffect DEF TokenInv, Idle
  <2>8. /\ \A v \in Tokens \ {t} : Spent(v)' <=> Spent(v)
        /\ \A v \in Tokens \ {u} : Issued(v)' <=> Issued(v)
    BY <2>3, <2>6 DEF Spent, Issued
  <2>9. \A v \in Workers, x \in Tokens :
            Holds(v, x)' => Holds(v, x) /\ x # u /\ req'[v] = req[v]
    BY <2>3, <2>7 DEF Holds, TokenInv, ClockInv
  <2>10. ClockInv'
    <3>1. \A v \in Workers : req'[v].pc = "rotate" =>
              req'[v] = req[v] /\ req[v].tok \in Tokens /\ req[v].tok # u
      BY <2>3, <2>7 DEF TokenInv, TypeInv, ClockInv, Holds
    <3>2. QED
      BY <1>1, <2>3, <2>5, <2>7, <2>8, <2>9, <3>1, Numbers DEF TokenInv, ClockInv
  <2>11. SpentInv'
    <3>1. SpentOK(t)'
      <4>1. ASSUME NEW v \in Workers, Holds(v, t)'
            PROVE  MayHold(v, t)'
        <5>1. req'[v] = req[v] /\ req[v].since <= now
          BY <2>9, <4>1 DEF TokenInv, ClockInv, Holds
        <5>2. req[v].since + Patience <= at + Lifetime
          BY <2>5, <5>1, Numbers DEF TokenInv
        <5>3. QED
          BY <2>6, <5>1, <5>2 DEF MayHold
      <4>2. Issued(t)'
        BY <2>4, <2>8
      <4>3. QED
        BY <2>6, <4>1, <4>2 DEF SpentOK
    <3>2. ASSUME NEW v \in Tokens \ {t}, Spent(v)'
          PROVE  SpentOK(v)'
      <4>1. SpentOK(v) /\ v # u
        BY <2>4, <2>8, <3>2 DEF TokenInv, SpentInv
      <4>2. \A x \in Workers : Holds(x, v)' => Holds(x, v) /\ req'[x] = req[x]
        BY <2>9
      <4>3. QED
        BY <1>1, <2>3, <2>6, <4>1, <4>2, OtherTokens
    <3>3. \A v \in hasty' \cup ended' : Spent(v)'
      BY <1>1, <2>6, <2>8, Numbers DEF TokenInv, SpentInv, TypeInv, TypeOK
    <3>4. QED
      BY <3>1, <3>2, <3>3 DEF SpentInv
  <2>12. SessionInv'
    <3>1. \A v \in ended \cup hasty : v \in Tokens /\ Issued(v) /\ v # u
      BY <2>3, Numbers DEF TokenInv, SpentInv, SpentOK
    <3>2. \A v \in Tokens \ {u} : Unhurried(v)' => Unhurried(v)
      BY <2>3, <2>6, <3>1 DEF Unhurried
    <3>3. Unhurried(u)' => Unhurried(t)
      BY <2>3, <2>6, <3>1 DEF Unhurried
    <3>4. Unhurried(t) => ~Spent(t)
      BY <1>1, <1>3, HeldUnspent DEF Unhurried, Again
    <3>5. \A v \in Tokens : Issued(v)' => Issued(session[v])'
      <4>1. Issued(session[t]) /\ session[t] \in Tokens
        BY <2>4, Numbers DEF TokenInv, SessionInv
      <4>2. QED
        BY <2>3, <2>8, <4>1, Numbers DEF TokenInv, SessionInv, Issued
    <3>6. \A v \in Tokens : Issued(v) /\ session[v] = session[t] /\ Unhurried(t)
              => v = t \/ Spent(v)
      BY <2>4, <3>4 DEF TokenInv, SessionInv
    <3>7. \A v \in ended : Unhurried(t) => session[v] # session[t]
      BY <2>4, <3>4, Numbers DEF TokenInv, SessionInv, Unhurried
    <3>8. \A v \in Tokens : Spent(v) => Spent(v)'
      BY <2>6, <2>8
    <3>9. ASSUME NEW v \in Tokens, NEW x \in Tokens, v # x, Issued(v)', Issued(x)',
                 session'[v] = session'[x], Unhurried(v)'
          PROVE  Spent(v)' \/ Spent(x)'
      <4>1. Unhurried(x)'
        BY <3>9 DEF Unhurried
      <4>2. CASE v # u /\ x # u
        BY <2>3, <2>8, <3>2, <3>8, <3>9, <4>2 DEF TokenInv, SessionInv
      <4>3. CASE v = u
        BY <2>3, <2>6, <2>8, <3>3, <3>6, <3>8, <3>9, <4>3
      <4>4. CASE x = u
        BY <2>3, <2>6, <2>8, <3>3, <3>6, <3>8, <3>9, <4>1, <4>4
      <4>5. QED
        BY <4>2, <4>3, <4>4
    <3>10. ASSUME NEW v \in ended', NEW x \in Tokens, Issued(x)', session'[v] = session'[x],
                  Unhurried(v)'
           PROVE  Spent(x)'
      <4>1. v \in ended /\ v \in Tokens \ {u} /\ Unhurried(v) /\ session'[v] = session[v]
        BY <1>1, <2>3, <3>1, <3>2, <3>10
      <4>2. CASE x # u
        BY <2>3, <2>8, <3>8, <3>10, <4>1, <4>2 DEF TokenInv, SessionInv
      <4>3. CASE x = u
        BY <2>3, <3>7, <3>10, <4>1, <4>3 DEF Unhurried
      <4>4. QED
        BY <4>2, <4>3
    <3>11. QED
      BY <3>5, <3>9, <3>10 DEF SessionInv
  <2>13. QED
    BY <2>10, <2>11, <2>12 DEF TokenInv
<1>4. QED
  BY <1>2, <1>3

LEMMA TokenStep ==
    ASSUME TokenInv, TypeInv', [Next]_vars
    PROVE  TokenInv'
<1>1. CASE UNCHANGED vars
  BY <1>1, QuietStep DEF vars, observations, Quiet
<1>2. CASE Tick
  BY <1>2, TokenTick
<1>3. CASE Cleanup
  BY <1>3, TokenCleanup
<1>4. CASE \E t \in Tokens : Logout(t)
  BY <1>4, TokenLogout
<1>5. CASE \E w \in Workers, t \in Tokens : RefreshBegin(w, t)
  BY <1>5, TokenRefreshBegin
<1>6. CASE \E w \in Workers, pc \in {"password", "delete"} : OwnerBegin(w, pc)
  BY <1>6, BeginQuiet, QuietStep DEF OwnerBegin, observations, TokenInv
<1>7. ASSUME NEW w \in Workers, LoginBegin(w) \/ BanBegin(w) \/ UnbanBegin(w)
      PROVE  TokenInv'
  BY <1>7, BeginQuiet, QuietStep
  DEF LoginBegin, BanBegin, UnbanBegin, observations, TokenInv
<1>8. ASSUME NEW w \in Workers, Revoke(w) \/ UnbanCommit(w) \/ DeleteCommit(w) \/ Abort(w)
      PROVE  TokenInv'
  BY <1>8, FinishQuiet, QuietStep
  DEF Revoke, UnbanCommit, DeleteCommit, Abort, observations, TokenInv
<1>9. QED
  BY <1>1, <1>2, <1>3, <1>4, <1>5, <1>6, <1>7, <1>8,
     TokenLogin, TokenRefreshUser, TokenRefreshCommit DEF Next, Handler

\* The life of a token, in every reachable state.
THEOREM TokenLife == Spec => []TokenInv
<1>1. Init => TokenInv
  BY TokenInit
<1>2. Inv' => TypeInv'
  BY DEF Inv
<1>3. TokenInv /\ Inv' /\ [Next]_vars => TokenInv'
  BY <1>2, TokenStep
<1>4. QED
  BY <1>1, <1>3, Invariance, PTL DEF Spec

-----------------------------------------------------------------------------
(***************************************************************************)
(* What follows from it.                                                   *)
(***************************************************************************)

\* A refresh token buys one pair or one logout, whatever requests overlap, whenever
\* the cleanup runs and however fine the clock is; two if it was spent too soon.
THEOREM UsedOnce == Spec => []SpentOnce
<1>1. ASSUME TokenInv, NEW t \in Tokens
      PROVE  uses[t] <= (IF t \in hasty THEN 2 ELSE 1)
  <2>1. CASE Spent(t)
    BY <1>1, <2>1 DEF TokenInv, SpentInv, SpentOK
  <2>2. CASE ~Spent(t)
    <3>1. uses[t] = 0
      BY <1>1, <2>2, Numbers DEF Spent, TokenInv
    <3>2. QED
      BY <3>1
  <2>3. QED
    BY <2>1, <2>2
<1>2. TokenInv => SpentOnce
  BY <1>1 DEF SpentOnce
<1>3. QED
  BY <1>2, TokenLife, PTL

\* The entry of a spent token stays until the token expires, but for the last second
\* of one that was spent too soon.
THEOREM RevivedLate == Spec => []RevivedOnlyAtTheEnd
<1>1. TokenInv => RevivedOnlyAtTheEnd
  BY LiveLate DEF Again, RevivedOnlyAtTheEnd
<1>2. QED
  BY <1>1, TokenLife, PTL

\* Of two tokens of a session that were issued, one was spent: at most one lives.
THEOREM OneLiveToken == Spec => []OneLiveTokenPerSession
<1>1. ASSUME TokenInv, NEW t \in Tokens, NEW u \in Tokens, Live(t), Live(u),
             session[t] = session[u], Unhurried(t)
      PROVE  t = u
  <2>1. ~Spent(t) /\ ~Spent(u)
    BY <1>1, LiveLate DEF Again, Unhurried
  <2>2. QED
    BY <1>1, <2>1, LiveIssued DEF TokenInv, SessionInv
<1>2. TokenInv => OneLiveTokenPerSession
  BY <1>1 DEF OneLiveTokenPerSession
<1>3. QED
  BY <1>2, TokenLife, PTL

\* After a logout that wrote its entry every token of the session is spent.
THEOREM LogoutEnds == Spec => []LogoutEndsSession
<1>1. ASSUME TokenInv, NEW t \in ended, NEW u \in Tokens, session[u] = session[t],
             Unhurried(t), Live(u)
      PROVE  FALSE
  <2>1. Spent(u)
    BY <1>1, LiveIssued DEF TokenInv, SessionInv
  <2>2. QED
    BY <1>1, <2>1, LiveLate DEF Again, Unhurried
<1>2. TokenInv => LogoutEndsSession
  BY <1>1 DEF LogoutEndsSession
<1>3. QED
  BY <1>2, TokenLife, PTL

-----------------------------------------------------------------------------
(***************************************************************************)
(* Rotation as Sessions describes it.  SpentInv is what makes it so: who   *)
(* finds no entry holds a token that can be used.                          *)
(***************************************************************************)

LEMMA StateIs ==
    \A t \in Tokens :
        /\ ~Issued(t) => TokenState(t) = "none"
        /\ Issued(t) /\ ~Spent(t) => TokenState(t) = "held"
        /\ Issued(t) /\ Spent(t) /\ Again(t) => TokenState(t) = "hasty"
        /\ Issued(t) /\ Spent(t) /\ ~Again(t) => TokenState(t) = "spent"
BY DEF TokenState, Issued, Again, Spent

LEMMA StateIsNext ==
    \A t \in Tokens :
        /\ ~Issued(t)' => TokenState(t)' = "none"
        /\ Issued(t)' /\ ~Spent(t)' => TokenState(t)' = "held"
        /\ Issued(t)' /\ Spent(t)' /\ Again(t)' => TokenState(t)' = "hasty"
        /\ Issued(t)' /\ Spent(t)' /\ ~Again(t)' => TokenState(t)' = "spent"
BY DEF TokenState, Issued, Again, Spent

States == [t \in Tokens |-> TokenState(t)]

\* A token nothing is written about stays in its state.
LEMMA StateStays ==
    ASSUME NEW t \in Tokens, expires'[t] = expires[t], uses'[t] = uses[t],
           t \in hasty' <=> t \in hasty
    PROVE  TokenState(t)' = TokenState(t)
BY DEF TokenState, Spent

\* A step that issues nothing and spends nothing is not seen.
LEMMA StepUnseen ==
    ASSUME UNCHANGED <<expires, session, uses, hasty>>
    PROVE  UNCHANGED <<States, session>>
BY StateStays DEF States

LEMMA LoginRotates ==
    ASSUME TokenInv, NEW w \in Workers, LoginReturn(w)
    PROVE  Rotation!Next
<1>1. PICK u \in Tokens : Issue(w, u, u, now)
  BY DEF LoginReturn
<1>2. /\ ~Issued(u) /\ Issued(u)'
      /\ \A t \in Tokens \ {u} : expires'[t] = expires[t] /\ session'[t] = session[t]
      /\ session' = [session EXCEPT ![u] = u]
  BY <1>1, IssueEffect, Numbers DEF TokenInv, Issue
<1>3. ~Spent(u)' /\ UNCHANGED <<uses, hasty>>
  BY <1>2 DEF LoginReturn, Spent, TokenInv, SpentInv, SpentOK
<1>4. States[u] = "none" /\ States' = [States EXCEPT ![u] = "held"]
  <2>1. TokenState(u) = "none" /\ TokenState(u)' = "held"
    BY <1>2, <1>3, StateIs, StateIsNext
  <2>2. \A t \in Tokens \ {u} : TokenState(t)' = TokenState(t)
    BY <1>2, <1>3, StateStays
  <2>3. QED
    BY <2>1, <2>2 DEF States
<1>5. States'[u] # States[u]
  BY <1>4 DEF States
<1>6. QED
  BY <1>2, <1>4, <1>5 DEF Rotation!Next, Rotation!Login, States

\* What writing an entry for a token that can be used does to its state.
LEMMA SpendUses ==
    ASSUME TokenInv, NEW t \in Tokens, NEW e \in Nat, Spend(t, e), Issued(t), Issued(t)',
           Spent(t) => Again(t)
    PROVE  /\ TokenState(t) \in {"held", "hasty"} /\ TokenState(t)' # TokenState(t)
           /\ TokenState(t)' \in Rotation!Used(TokenState(t))
           /\ \A v \in Tokens \ {t} : uses'[v] = uses[v] /\ (v \in hasty' <=> v \in hasty)
<1>1. /\ uses'[t] = uses[t] + 1
      /\ \A v \in Tokens \ {t} : uses'[v] = uses[v] /\ (v \in hasty' <=> v \in hasty)
  BY DEF Spend, TokenInv, TypeInv, TypeOK
<1>2. CASE ~Spent(t)
  <2>1. Spent(t)'
    BY <1>1, Numbers DEF Spent, TokenInv
  <2>2. TokenState(t) = "held" /\ TokenState(t)' \in {"hasty", "spent"}
    BY <1>2, <2>1, StateIs, StateIsNext
  <2>3. QED
    BY <1>1, <2>2 DEF Rotation!Used
<1>3. CASE Spent(t)
  <2>1. Spent(t)' /\ ~Again(t)'
    BY <1>1, <1>3 DEF Spent, Again
  <2>2. TokenState(t) = "hasty" /\ TokenState(t)' = "spent"
    BY <1>3, <2>1, StateIs, StateIsNext
  <2>3. QED
    BY <1>1, <2>2 DEF Rotation!Used
<1>4. QED
  BY <1>2, <1>3

LEMMA RefreshRotates ==
    ASSUME TokenInv, NEW w \in Workers, RefreshCommit(w)
    PROVE  Rotation!Next \/ UNCHANGED <<States, session>>
<1>1. PICK t \in Tokens : t = req[w].tok /\ Holds(w, t)
  BY DEF TokenInv, TypeInv, Holds, RefreshCommit, RotateWith
<1>2. CASE Blacklisted(t)
  <2>1. UNCHANGED <<expires, session, uses, hasty>>
    BY <1>1, <1>2 DEF RefreshCommit, RotateWith
  <2>2. QED
    BY <2>1, StepUnseen
<1>3. CASE ~Blacklisted(t)
  <2>1. Spend(t, req[w].at + Lifetime) /\ req[w].at + Lifetime \in Nat
    BY <1>1, <1>3, Numbers DEF RefreshCommit, RotateWith, TokenInv
  <2>2. PICK u \in Tokens : Issue(w, u, session[t], req[w].at)
    BY <1>1, <1>3 DEF RefreshCommit, RotateWith
  <2>3. /\ ~Issued(u) /\ Issued(u)'
        /\ \A v \in Tokens \ {u} : expires'[v] = expires[v]
        /\ session' = [session EXCEPT ![u] = session[t]]
    BY <2>2, IssueEffect, Numbers DEF TokenInv, Issue
  <2>4. Issued(t) /\ t # u /\ ~Spent(u) /\ (Spent(t) => Again(t))
    <3>1. Issued(t) /\ (Spent(t) => Again(t))
      BY <1>1, <1>3, HeldUnspent
    <3>2. QED
      BY <2>3, <3>1 DEF TokenInv, SpentInv, SpentOK
  <2>5. Issued(t)'
    BY <2>3, <2>4 DEF Issued
  <2>6. /\ TokenState(t) \in {"held", "hasty"} /\ TokenState(t)' # TokenState(t)
        /\ TokenState(t)' \in Rotation!Used(TokenState(t))
        /\ \A v \in Tokens \ {t} : uses'[v] = uses[v] /\ (v \in hasty' <=> v \in hasty)
    BY <2>1, <2>4, <2>5, SpendUses
  <2>7. TokenState(u) = "none" /\ TokenState(u)' = "held"
    <3>1. ~Spent(u)'
      BY <2>4, <2>6 DEF Spent
    <3>2. QED
      BY <2>3, <3>1, StateIs, StateIsNext
  <2>8. States' = [States EXCEPT ![t] = TokenState(t)', ![u] = "held"]
    <3>1. \A v \in Tokens \ {t, u} : TokenState(v)' = TokenState(v)
      BY <2>3, <2>6, StateStays
    <3>2. QED
      BY <2>4, <2>7, <3>1 DEF States
  <2>9. /\ States[t] = TokenState(t) /\ States[u] = "none"
        /\ States'[t] # States[t]
    BY <2>6, <2>7 DEF States
  <2>10. Rotation!Rotate(t, u)
    BY <2>3, <2>6, <2>8, <2>9 DEF Rotation!Rotate, States
  <2>11. QED
    BY <2>9, <2>10 DEF Rotation!Next, States
<1>4. QED
  BY <1>2, <1>3

LEMMA LogoutRotates ==
    ASSUME TokenInv, NEW t \in Tokens, Logout(t)
    PROVE  Rotation!Next \/ UNCHANGED <<States, session>>
<1>1. UNCHANGED <<expires, session>>
  BY DEF Logout
<1>2. CASE Blacklisted(t)
  <2>1. UNCHANGED <<uses, hasty>>
    BY <1>2 DEF Logout
  <2>2. QED
    BY <1>1, <2>1, StepUnseen
<1>3. CASE ~Blacklisted(t)
  <2>1. Spend(t, now + Lifetime) /\ now + Lifetime \in Nat /\ Live(t)
    BY <1>3, Numbers DEF Logout, Live, TokenInv
  <2>2. Issued(t) /\ Issued(t)' /\ (Spent(t) => Again(t))
    BY <1>1, <2>1, LiveLate, LiveIssued DEF Issued
  <2>3. /\ TokenState(t) \in {"held", "hasty"} /\ TokenState(t)' # TokenState(t)
        /\ TokenState(t)' \in Rotation!Used(TokenState(t))
        /\ \A v \in Tokens \ {t} : uses'[v] = uses[v] /\ (v \in hasty' <=> v \in hasty)
    BY <2>1, <2>2, SpendUses
  <2>4. States' = [States EXCEPT ![t] = TokenState(t)']
    <3>1. \A v \in Tokens \ {t} : TokenState(v)' = TokenState(v)
      BY <1>1, <2>3, StateStays
    <3>2. QED
      BY <3>1 DEF States
  <2>5. States[t] = TokenState(t) /\ States'[t] # States[t]
    BY <2>3 DEF States
  <2>6. Rotation!Logout(t)
    BY <1>1, <2>3, <2>4, <2>5 DEF Rotation!Logout, States
  <2>7. QED
    BY <2>5, <2>6 DEF Rotation!Next, States
<1>4. QED
  BY <1>2, <1>3

LEMMA StepRotates ==
    ASSUME TokenInv, [Next]_vars
    PROVE  Rotation!Next \/ UNCHANGED <<States, session>>
<1>1. CASE \E w \in Workers : LoginReturn(w) \/ RefreshCommit(w)
  BY <1>1, LoginRotates, RefreshRotates
<1>2. CASE \E t \in Tokens : Logout(t)
  BY <1>2, LogoutRotates
<1>3. CASE ~\E w \in Workers : LoginReturn(w) \/ RefreshCommit(w)
  <2>1. CASE ~\E t \in Tokens : Logout(t)
    <3>1. UNCHANGED <<expires, session, uses, hasty>>
      BY <1>3, <2>1 DEF Next, Handler, Tick, Cleanup, RefreshBegin, OwnerBegin, LoginBegin,
         BanBegin, UnbanBegin, RefreshUser, Revoke, UnbanCommit, DeleteCommit, Abort,
         observations, vars
    <3>2. QED
      BY <3>1, StepUnseen
  <2>2. QED
    BY <1>2, <2>1
<1>4. QED
  BY <1>1, <1>3

\* AuthTokens implements Sessions: of all the overlapping refreshes and logouts of a
\* token one takes effect, and neither the cleanup nor the clock brings it back; a
\* token spent too soon takes at most one more.
THEOREM ImplementsRotation == Spec => RotationSpec
<1>1. Init => Rotation!Init
  BY DEF Init, Rotation!Init, TokenState
<1>2. TokenInv /\ [Next]_vars => Rotation!Next \/ UNCHANGED <<States, session>>
  BY StepRotates
<1>3. UNCHANGED <<States, session>> => UNCHANGED <<[t \in Tokens |-> TokenState(t)], session>>
  BY DEF States
<1>4. QED
  BY <1>1, <1>2, <1>3, TokenLife, PTL DEF Spec, RotationSpec, Rotation!Spec

=============================================================================
