-------------------------- MODULE UniquenessProofs --------------------------
(***************************************************************************)
(* Proofs about Uniqueness, for any number of accounts and requests.       *)
(***************************************************************************)
EXTENDS Uniqueness, FiniteSetTheorems, WellFoundedInduction, TLAPS

-----------------------------------------------------------------------------
(***************************************************************************)
(* The shape of the accounts and of the requests, and what the requests    *)
(* hold at each of their stages.                                           *)
(***************************************************************************)

RequestsType ==
    /\ account \in [Users -> Accounts \cup {NoAccount}]
    /\ req \in [Workers -> Request]

\* The request has inserted a row that is not committed.
Inserts(r) ==
    \/ r.kind = "signup" /\ r.pc = "written"
    \/ r.kind = "import" /\ r.pc \in {"check", "written"} /\ r.row # NoAccount

Shape(r) ==
    /\ r \in Request
    /\ r.kind \in {"signup", "change_email"} => r.row \in Accounts
    /\ r.kind = "delete_account" => r.row = NoAccount
    /\ (r.kind \in {"change_email", "delete_account"} \/ Inserts(r)) => r.user \in Users
    /\ r.kind = "signup" /\ r.pc # "written" => r.user = NoAccount
    /\ r.kind = "import" /\ r.pc \in {"write", "second"} => r.row \in Accounts
    /\ r.pc = "second" => r.kind \in {"signup", "import"}
    /\ r.pc = "locked" => r.kind = "change_email"
    /\ r.pc = "check" => r.kind = "import"
    /\ r.pc = "written" => r.kind \in {"signup", "change_email", "delete_account", "import"}

Shapes == \A w \in Workers : Shape(req[w])

\* The id of an inserted row is nobody else's.
IdsFresh ==
    \A w \in Workers : Inserts(req[w]) =>
        /\ ~Live(req[w].user)
        /\ \A v \in Workers \ {w} : req[v].user # req[w].user

\* A row that was updated is there, and only one request has updated it.
RowsHeld ==
    \A w \in Workers : Rewrites(w) =>
        /\ Live(req[w].user)
        /\ \A v \in Workers \ {w} : Rewrites(v) => req[v].user # req[w].user

\* An account has a key that a request has entered only if it is the one that the
\* request rewrites; no other request has entered it.
KeysHeld ==
    \A w \in Workers : \A k \in NewKeys(w) :
        /\ \A u \in Users : Live(u) /\ k \in Keys(account[u]) =>
             Rewrites(w) /\ u = req[w].user
        /\ \A v \in Workers \ {w} : k \notin NewKeys(v)

\* A change of e-mail leaves the name as it is.
NameKept ==
    \A w \in Workers : req[w].kind = "change_email" /\ Live(req[w].user) =>
        req[w].row.name = account[req[w].user].name

NoClash ==
    \A u, v \in Users : u # v /\ Live(u) /\ Live(v) =>
        \A k \in Keys(account[u]) : k \notin Keys(account[v])

AccountsInv ==
    RequestsType /\ Shapes /\ IdsFresh /\ RowsHeld /\ KeysHeld /\ NameKept /\ NoClash

LEMMA KeysApart ==
    ASSUME NEW a, NEW b
    PROVE  /\ EmailKey(a) # NameKey(b)
           /\ EmailKey(a) = EmailKey(b) <=> a.email = b.email
           /\ NameKey(a) = NameKey(b) <=> a.name = b.name
BY DEF EmailKey, NameKey

LEMMA IdleShape ==
    /\ Shape(IdleRequest) /\ ~Inserts(IdleRequest)
    /\ IdleRequest.user = NoAccount /\ IdleRequest.kind = "idle" /\ IdleRequest.pc = "begin"
<1>1. <<>> \in Seq(Titles)
  OBVIOUS
<1>2. IdleRequest \in Request
  BY <1>1 DEF IdleRequest, Request
<1>3. QED
  BY <1>2 DEF IdleRequest, Shape, Inserts

LEMMA ReqIs ==
    ASSUME AccountsInv, NEW w \in Workers
    PROVE  req[w] \in Request /\ Shape(req[w]) /\ req \in [Workers -> Request]
BY DEF AccountsInv, Shapes, RequestsType

\* A request that does not move holds what it held.
LEMMA OthersKeep ==
    ASSUME NEW v, req'[v] = req[v]
    PROVE  NewKeys(v)' = NewKeys(v) /\ (Rewrites(v)' <=> Rewrites(v))
BY DEF NewKeys, Rewrites

\* A step that commits nothing.  What the request adds to what it holds must be free:
\* an id that it inserts, a row that it rewrites, and the keys that it enters.
LEMMA HoldStep ==
    ASSUME AccountsInv, NEW w \in Workers, NEW r, Shape(r),
           req' = [req EXCEPT ![w] = r], account' = account,
           \/ Inserts(r) /\ Fresh(r.user)
           \/ Inserts(r) /\ Inserts(req[w]) /\ r.user = req[w].user
           \/ ~Inserts(r) /\ r.user \in {NoAccount, req[w].user}
           \/ ~Inserts(r) /\ r.user \in Users /\ Live(r.user),
           Rewrites(w)' =>
             /\ Live(r.user)
             /\ \A v \in Workers \ {w} : Rewrites(v) => req[v].user # r.user,
           \A k \in NewKeys(w)' :
             \/ k \in NewKeys(w) /\ ~Rewrites(w)
             \/ /\ \A v \in Workers \ {w} : k \notin NewKeys(v)
                /\ \A u \in Users : Live(u) /\ k \in Keys(account[u]) =>
                     Rewrites(w)' /\ u = r.user,
           r.kind = "change_email" /\ Live(r.user) => r.row.name = account[r.user].name
    PROVE  AccountsInv'
<1> USE DEF AccountsInv
<1>1. /\ req \in [Workers -> Request]
      /\ req'[w] = r
      /\ \A v \in Workers \ {w} : req'[v] = req[v]
  BY DEF RequestsType
<1>2. RequestsType' /\ Shapes'
  BY <1>1 DEF RequestsType, Shapes, Shape
<1>3. \A v \in Workers \ {w} : NewKeys(v)' = NewKeys(v) /\ (Rewrites(v)' <=> Rewrites(v))
  BY <1>1, OthersKeep
<1>4. ASSUME NEW v \in Workers, Inserts(req'[v])
      PROVE  /\ account'[req'[v].user] = NoAccount
             /\ \A x \in Workers \ {v} : req'[x].user # req'[v].user
  <2>1. CASE v = w /\ Fresh(r.user)
    BY <1>1, <2>1 DEF Fresh, Live
  <2>2. CASE v = w /\ ~Fresh(r.user)
    BY <1>1, <1>4, <2>2 DEF IdsFresh, Live
  <2>3. CASE v # w
    <3>1. /\ req[v].user \in Users /\ ~Live(req[v].user)
          /\ \A x \in Workers \ {v} : req[x].user # req[v].user
      BY <1>1, <1>4, <2>3 DEF IdsFresh, Shapes, Shape
    <3>2. r.user # req[v].user
      BY <2>3, <3>1, UniquenessAssumption DEF Fresh
    <3>3. QED
      BY <1>1, <2>3, <3>1, <3>2 DEF Live
  <2>4. QED
    BY <2>1, <2>2, <2>3
<1>5. IdsFresh'
  BY <1>4 DEF IdsFresh, Live
<1>6. ASSUME NEW v \in Workers, Rewrites(v)'
      PROVE  /\ account'[req'[v].user] # NoAccount
             /\ \A x \in Workers \ {v} : Rewrites(x)' => req'[x].user # req'[v].user
  <2>1. CASE v = w
    BY <1>1, <1>3, <1>6, <2>1 DEF Live
  <2>2. CASE v # w
    <3>1. /\ Rewrites(v) /\ Live(req[v].user)
          /\ \A x \in Workers \ {v} : Rewrites(x) => req[x].user # req[v].user
      BY <1>3, <1>6, <2>2 DEF RowsHeld
    <3>2. Rewrites(w)' => r.user # req[v].user
      BY <2>2, <3>1
    <3>3. QED
      BY <1>1, <1>3, <2>2, <3>1, <3>2 DEF Live
  <2>3. QED
    BY <2>1, <2>2
<1>7. RowsHeld'
  BY <1>6 DEF RowsHeld, Live
<1>8. ASSUME NEW v \in Workers, NEW k \in NewKeys(v)'
      PROVE  /\ \A u \in Users : Live(u)' /\ k \in Keys(account'[u]) =>
                  Rewrites(v)' /\ u = req'[v].user
             /\ \A x \in Workers \ {v} : k \notin NewKeys(x)'
  <2>1. ASSUME v = w
        PROVE  /\ \A u \in Users : Live(u) /\ k \in Keys(account[u]) =>
                    Rewrites(w)' /\ u = r.user
               /\ \A x \in Workers \ {w} : k \notin NewKeys(x)
    BY <1>8, <2>1 DEF KeysHeld
  <2>2. ASSUME v # w
        PROVE  /\ \A u \in Users : Live(u) /\ k \in Keys(account[u]) =>
                    Rewrites(v) /\ u = req[v].user
               /\ \A x \in Workers \ {v} : k \notin NewKeys(x)
               /\ k \notin NewKeys(w)'
    <3>1. k \in NewKeys(v)
      BY <1>3, <1>8, <2>2
    <3>2. k \notin NewKeys(w)
      BY <2>2, <3>1 DEF KeysHeld
    <3>3. k \notin NewKeys(w)'
      BY <2>2, <3>1, <3>2
    <3>4. QED
      BY <3>1, <3>3 DEF KeysHeld
  <2>3. CASE v = w
    BY <1>1, <1>3, <2>1, <2>3 DEF Live
  <2>4. CASE v # w
    BY <1>1, <1>3, <2>2, <2>4 DEF Live
  <2>5. QED
    BY <2>3, <2>4
<1>9. KeysHeld'
  BY <1>8 DEF KeysHeld
<1>10. NameKept'
  BY <1>1 DEF NameKept, Live
<1>11. NoClash'
  BY DEF NoClash, Live
<1>12. QED
  BY <1>2, <1>5, <1>7, <1>9, <1>10, <1>11

\* A step that leaves the request with no key and no row.
LEMMA QuietStep ==
    ASSUME AccountsInv, NEW w \in Workers, NEW r, Shape(r),
           req' = [req EXCEPT ![w] = r], account' = account,
           r.pc \in {"begin", "email", "write"} \/ (r.pc = "check" /\ r.row = NoAccount),
           r.user \in {NoAccount, req[w].user} \/ (r.user \in Users /\ Live(r.user)),
           r.kind = "change_email" /\ Live(r.user) => r.row.name = account[r.user].name
    PROVE  AccountsInv'
<1>1. req'[w] = r
  BY ReqIs
<1>2. ~Inserts(r)
  BY DEF Inserts
<1>3. NewKeys(w)' = {} /\ ~Rewrites(w)'
  BY <1>1 DEF NewKeys, Rewrites
<1>4. QED
  BY <1>2, <1>3, HoldStep

\* A step in which an import goes on and keeps its row.
LEMMA SameStep ==
    ASSUME AccountsInv, NEW w \in Workers, NEW r, Shape(r),
           req' = [req EXCEPT ![w] = r], account' = account,
           r.kind = "import", req[w].kind = "import",
           r.pc \in {"check", "written"}, req[w].pc \in {"check", "written"},
           r.user = req[w].user, r.row = req[w].row
    PROVE  AccountsInv'
<1>1. req'[w] = r
  BY ReqIs
<1>2. Inserts(r) <=> Inserts(req[w])
  BY DEF Inserts
<1>3. NewKeys(w)' = NewKeys(w) /\ ~Rewrites(w)' /\ ~Rewrites(w)
  BY <1>1 DEF NewKeys, Rewrites
<1>4. QED
  BY <1>2, <1>3, HoldStep

LEMMA FinishStep ==
    ASSUME AccountsInv, NEW w \in Workers, Finish(w), account' = account
    PROVE  AccountsInv'
BY IdleShape, QuietStep DEF Finish

\* A request ends, and commits the row it holds or the deletion it has made.
LEMMA CommitStep ==
    ASSUME AccountsInv, NEW w \in Workers, Finish(w), req[w].pc = "written",
           Inserts(req[w]) \/ Rewrites(w),
           account' = [account EXCEPT ![req[w].user] = req[w].row]
    PROVE  AccountsInv'
<1> USE DEF AccountsInv
<1> DEFINE u == req[w].user
<1>1. /\ req \in [Workers -> Request]
      /\ req'[w] = IdleRequest
      /\ \A v \in Workers \ {w} : req'[v] = req[v]
      /\ Shape(req[w]) /\ u \in Users
  BY DEF RequestsType, Finish, Shapes, Shape, Rewrites
<1>2. /\ account'[u] = req[w].row
      /\ \A v \in Users \ {u} : account'[v] = account[v]
      /\ req[w].row \in Accounts \cup {NoAccount}
      /\ req[w].row # NoAccount => NewKeys(w) = Keys(req[w].row)
      /\ req[w].kind = "delete_account" => req[w].row = NoAccount
  BY <1>1 DEF RequestsType, Shape, Request, Inserts, Rewrites, NewKeys
<1>3. RequestsType' /\ Shapes'
  BY <1>1, <1>2, IdleShape DEF RequestsType, Shapes, Shape, Finish
<1>4. /\ \A v \in Workers \ {w} : NewKeys(v)' = NewKeys(v) /\ (Rewrites(v)' <=> Rewrites(v))
      /\ NewKeys(w)' = {} /\ ~Rewrites(w)' /\ ~Inserts(req'[w])
  <2>1. \A v \in Workers \ {w} : NewKeys(v)' = NewKeys(v) /\ (Rewrites(v)' <=> Rewrites(v))
    BY <1>1, OthersKeep
  <2>2. NewKeys(w)' = {} /\ ~Rewrites(w)' /\ ~Inserts(req'[w])
    BY <1>1, IdleShape DEF NewKeys, Rewrites
  <2>3. QED
    BY <2>1, <2>2
<1>5. ASSUME NEW v \in Workers, Inserts(req'[v])
      PROVE  /\ account'[req'[v].user] = NoAccount
             /\ \A x \in Workers \ {v} : req'[x].user # req'[v].user
  <2>1. v # w /\ req'[v] = req[v]
    BY <1>1, <1>4, <1>5
  <2>2. /\ req[v].user \in Users /\ ~Live(req[v].user)
        /\ \A x \in Workers \ {v} : req[x].user # req[v].user
    BY <1>5, <2>1 DEF IdsFresh, Shapes, Shape
  <2>3. req[v].user # u
    BY <2>1, <2>2
  <2>4. QED
    BY <1>1, <1>2, <2>1, <2>2, <2>3, IdleShape, UniquenessAssumption DEF Live
<1>6. IdsFresh'
  BY <1>5 DEF IdsFresh, Live
<1>7. ASSUME NEW v \in Workers, Rewrites(v)'
      PROVE  /\ account'[req'[v].user] # NoAccount
             /\ \A x \in Workers \ {v} : Rewrites(x)' => req'[x].user # req'[v].user
  <2>1. v # w /\ req'[v] = req[v] /\ Rewrites(v)
    BY <1>1, <1>4, <1>7
  <2>2. /\ Live(req[v].user) /\ req[v].user \in Users
        /\ \A x \in Workers \ {v} : Rewrites(x) => req[x].user # req[v].user
    BY <2>1 DEF RowsHeld, Shapes, Shape, Rewrites
  <2>3. req[v].user # u
    BY <2>1, <2>2 DEF IdsFresh
  <2>4. QED
    BY <1>1, <1>2, <1>4, <2>1, <2>2, <2>3 DEF Live
<1>8. RowsHeld'
  BY <1>7 DEF RowsHeld, Live
<1>9. ASSUME NEW v \in Workers, NEW k \in NewKeys(v)'
      PROVE  /\ \A x \in Users : Live(x)' /\ k \in Keys(account'[x]) =>
                  Rewrites(v)' /\ x = req'[v].user
             /\ \A x \in Workers \ {v} : k \notin NewKeys(x)'
  <2>1. v # w /\ req'[v] = req[v] /\ k \in NewKeys(v)
    BY <1>1, <1>4, <1>9
  <2>2. /\ \A x \in Users : Live(x) /\ k \in Keys(account[x]) =>
              Rewrites(v) /\ x = req[v].user
        /\ \A x \in Workers \ {v} : k \notin NewKeys(x)
    BY <2>1 DEF KeysHeld
  <2>3. account'[u] # NoAccount => k \notin Keys(account'[u])
    BY <1>2, <2>1, <2>2
  <2>4. QED
    BY <1>2, <1>4, <2>1, <2>2, <2>3 DEF Live
<1>10. KeysHeld'
  BY <1>9 DEF KeysHeld
<1>11. ASSUME NEW v \in Workers, req'[v].kind = "change_email", account'[req'[v].user] # NoAccount
       PROVE  req'[v].row.name = account'[req'[v].user].name
  <2>1. v # w /\ req'[v] = req[v]
    BY <1>1, <1>11, IdleShape
  <2>2. req[v].user \in Users /\ (Live(req[v].user) => req[v].row.name = account[req[v].user].name)
    BY <1>11, <2>1 DEF NameKept, Shapes, Shape
  <2>3. CASE req[v].user # u
    BY <1>2, <1>11, <2>1, <2>2, <2>3 DEF Live
  <2>4. CASE req[v].user = u
    <3>1. ~Inserts(req[w]) /\ Rewrites(w)
      BY <2>1, <2>4 DEF IdsFresh
    <3>2. Live(u) /\ req[w].kind = "change_email"
      BY <1>2, <1>11, <2>1, <2>4, <3>1 DEF RowsHeld, Rewrites
    <3>3. req[w].row.name = account[u].name
      BY <3>2 DEF NameKept
    <3>4. QED
      BY <1>2, <2>1, <2>2, <2>4, <3>2, <3>3
  <2>5. QED
    BY <2>3, <2>4
<1>12. NameKept'
  BY <1>11 DEF NameKept, Live
<1>13. ASSUME NEW x \in Users, NEW y \in Users, x # y,
              account'[x] # NoAccount, account'[y] # NoAccount,
              NEW k \in Keys(account'[x])
       PROVE  k \notin Keys(account'[y])
  <2>1. req[w].row # NoAccount =>
          \A v \in Users \ {u} : Live(v) => \A j \in Keys(account[v]) : j \notin Keys(req[w].row)
    BY <1>2 DEF KeysHeld
  <2>2. CASE x = u
    BY <1>2, <1>13, <2>1, <2>2 DEF Live
  <2>3. CASE y = u
    BY <1>2, <1>13, <2>1, <2>3 DEF Live
  <2>4. CASE x # u /\ y # u
    BY <1>2, <1>13, <2>4 DEF NoClash, Live
  <2>5. QED
    BY <2>2, <2>3, <2>4
<1>14. NoClash'
  BY <1>13 DEF NoClash, Live
<1>15. QED
  BY <1>3, <1>6, <1>8, <1>10, <1>12, <1>14

-----------------------------------------------------------------------------
(***************************************************************************)
(* Every action is one of these steps.                                     *)
(***************************************************************************)

LEMMA SignupBeginPreserves ==
    ASSUME AccountsInv, NEW w \in Workers, NEW row \in Accounts, SignupBegin(w, row)
    PROVE  AccountsInv'
<1> DEFINE r == [IdleRequest EXCEPT !.kind = "signup", !.pc = "email", !.row = row]
<1>1. /\ r \in Request /\ r.kind = "signup" /\ r.pc = "email" /\ r.row = row
      /\ r.user = NoAccount
  BY IdleShape DEF Shape, IdleRequest, Request
<1>2. req' = [req EXCEPT ![w] = r] /\ account' = account
  BY DEF SignupBegin
<1> HIDE DEF r
<1>3. QED
  BY <1>1, <1>2, QuietStep DEF Shape, Inserts

LEMMA SignupCheckEmailPreserves ==
    ASSUME AccountsInv, NEW w \in Workers, SignupCheckEmail(w)
    PROVE  AccountsInv'
<1>1. CASE Finish(w)
  BY <1>1, FinishStep DEF SignupCheckEmail
<1>2. CASE req' = [req EXCEPT ![w].pc = "write"]
  <2> DEFINE r == [req[w] EXCEPT !.pc = "write"]
  <2>1. /\ r \in Request /\ r.kind = "signup" /\ r.pc = "write" /\ r.row \in Accounts
        /\ r.user = NoAccount
    BY ReqIs DEF SignupCheckEmail, At, Shape, Request
  <2>2. req' = [req EXCEPT ![w] = r] /\ account' = account
    BY <1>2 DEF SignupCheckEmail
  <2> HIDE DEF r
  <2>3. QED
    BY <2>1, <2>2, QuietStep DEF Shape, Inserts
<1>3. QED
  BY <1>1, <1>2 DEF SignupCheckEmail

\* Nobody else holds what the next statement of w asks for.
LEMMA ClearKeys ==
    ASSUME NEW w \in Workers, Clear(w), NEW k \in NextKeys(w), NEW v \in Workers \ {w}
    PROVE  k \notin NewKeys(v)
BY DEF Clear, Blocks, Held

LEMMA ClearRows ==
    ASSUME NEW w \in Workers, Clear(w), NEW u \in NextRows(w),
           NEW v \in Workers \ {w}, Rewrites(v)
    PROVE  req[v].user # u
BY DEF Clear, Blocks, LockedRows

LEMMA InsertEmailPreserves ==
    ASSUME AccountsInv, NEW w \in Workers, InsertEmail(w)
    PROVE  AccountsInv'
<1>1. CASE Finish(w)
  BY <1>1, FinishStep DEF InsertEmail
<1>2. CASE ~Finish(w)
  <2> DEFINE r == [req[w] EXCEPT !.pc = "second"]
             key == EmailKey(req[w].row)
  <2>1. /\ r \in Request /\ r.kind = req[w].kind /\ r.kind \in {"signup", "import"}
        /\ r.pc = "second" /\ r.row = req[w].row /\ r.row \in Accounts
        /\ r.user = req[w].user
        /\ r.kind = "signup" => r.user = NoAccount
    BY ReqIs DEF InsertEmail, Shape, Request
  <2>2. /\ req' = [req EXCEPT ![w] = r] /\ account' = account
        /\ ~Taken(NoAccount, key) /\ Clear(w)
    BY <1>2 DEF InsertEmail
  <2> HIDE DEF r
  <2>3. req'[w] = r
    BY <2>2, ReqIs
  <2>4. Shape(r) /\ ~Inserts(r) /\ ~Rewrites(w)' /\ NewKeys(w)' = {key}
    BY <2>1, <2>3 DEF Shape, Inserts, Rewrites, NewKeys
  <2>5. NextKeys(w) = {key}
    BY DEF InsertEmail, NextKeys
  <2>6. \A v \in Workers \ {w} : key \notin NewKeys(v)
    BY <2>2, <2>5, ClearKeys
  <2>7. \A u \in Users : Live(u) => key \notin Keys(account[u])
    BY <2>2, UniquenessAssumption DEF Taken
  <2> HIDE DEF key
  <2>8. QED
    BY <2>1, <2>2, <2>4, <2>6, <2>7, HoldStep
<1>3. QED
  BY <1>1, <1>2

LEMMA InsertNamePreserves ==
    ASSUME AccountsInv, NEW w \in Workers, InsertName(w)
    PROVE  AccountsInv'
<1>1. CASE Finish(w)
  BY <1>1, FinishStep DEF InsertName
<1>2. CASE ~Finish(w)
  <2> DEFINE next == IF req[w].kind = "signup" THEN "written" ELSE "check"
             email == EmailKey(req[w].row)
             name == NameKey(req[w].row)
  <2>1. PICK u \in Users : /\ Fresh(u)
                           /\ req' = [req EXCEPT ![w].pc = next, ![w].user = u]
    BY <1>2 DEF InsertName
  <2> DEFINE r == [req[w] EXCEPT !.pc = next, !.user = u]
  <2>2. /\ req[w] \in Request /\ req[w].row \in Accounts
        /\ \/ req[w].kind = "signup" /\ next = "written"
           \/ req[w].kind = "import" /\ next = "check"
    BY ReqIs DEF InsertName, Shape
  <2> HIDE DEF next
  <2>3. r \in Request
    BY <2>2 DEF Request
  <2>4. /\ r \in Request /\ r.kind = req[w].kind /\ r.row = req[w].row /\ r.user = u
        /\ r.pc = next /\ r.row \in Accounts
        /\ \/ r.kind = "signup" /\ r.pc = "written"
           \/ r.kind = "import" /\ r.pc = "check"
    BY <2>2, <2>3 DEF Request
  <2>5. /\ req' = [req EXCEPT ![w] = r] /\ account' = account
        /\ ~Taken(NoAccount, name) /\ Clear(w)
    BY <1>2, <2>1, ReqIs DEF InsertName
  <2> HIDE DEF r
  <2>6. req'[w] = r
    BY <2>5, ReqIs
  <2>7. Shape(r) /\ Inserts(r) /\ ~Rewrites(w)' /\ NewKeys(w)' = {email, name}
    BY <2>4, <2>6, UniquenessAssumption DEF Shape, Inserts, Rewrites, NewKeys, Keys, Accounts
  <2>8. NextKeys(w) = {name} /\ NewKeys(w) = {email} /\ ~Rewrites(w)
    BY DEF InsertName, NextKeys, NewKeys, Rewrites
  <2>9. \A v \in Workers \ {w} : name \notin NewKeys(v)
    BY <2>5, <2>8, ClearKeys
  <2>10. \A x \in Users : Live(x) => name \notin Keys(account[x])
    BY <2>5, UniquenessAssumption DEF Taken
  <2> HIDE DEF email, name
  <2>11. QED
    BY <2>1, <2>4, <2>5, <2>7, <2>8, <2>9, <2>10, HoldStep
<1>3. QED
  BY <1>1, <1>2

LEMMA ChangeEmailBeginPreserves ==
    ASSUME AccountsInv, NEW w \in Workers, NEW u \in Users, NEW email \in Emails, ChangeEmailBegin(w, u, email)
    PROVE  AccountsInv'
<1> DEFINE row == [account[u] EXCEPT !.email = email]
           r == [IdleRequest EXCEPT !.kind = "change_email", !.pc = "write",
                                    !.user = u, !.row = row]
<1>0. row \in Accounts /\ row.name = account[u].name
  BY DEF ChangeEmailBegin, AccountsInv, RequestsType, Accounts, Live
<1>1. req' = [req EXCEPT ![w] = r] /\ account' = account /\ Live(u)
  BY DEF ChangeEmailBegin
<1> HIDE DEF row
<1>2. /\ r \in Request /\ r.kind = "change_email" /\ r.pc = "write" /\ r.row = row
      /\ r.user = u
  BY <1>0, IdleShape DEF Shape, IdleRequest, Request
<1> HIDE DEF r
<1>3. QED
  BY <1>0, <1>1, <1>2, QuietStep DEF Shape, Inserts

LEMMA ChangeEmailLockPreserves ==
    ASSUME AccountsInv, NEW w \in Workers, ChangeEmailLock(w)
    PROVE  AccountsInv'
<1>1. CASE ~Live(req[w].user)
  BY <1>1, FinishStep DEF ChangeEmailLock
<1>2. CASE Live(req[w].user)
  <2> DEFINE r == [req[w] EXCEPT !.pc = "locked"]
  <2>1. /\ r \in Request /\ r.kind = "change_email" /\ r.pc = "locked"
        /\ r.row = req[w].row /\ r.row \in Accounts
        /\ r.user = req[w].user /\ r.user \in Users
    BY ReqIs DEF ChangeEmailLock, At, Shape, Request
  <2>2. req' = [req EXCEPT ![w] = r] /\ account' = account /\ Clear(w)
    BY <1>2 DEF ChangeEmailLock
  <2> HIDE DEF r
  <2>3. req'[w] = r
    BY <2>2, ReqIs
  <2>4. Shape(r) /\ ~Inserts(r) /\ NewKeys(w)' = {}
    BY <2>1, <2>3 DEF Shape, Inserts, NewKeys
  <2>5. NextRows(w) = {r.user}
    BY <2>1 DEF ChangeEmailLock, NextRows, At
  <2>6. \A v \in Workers \ {w} : Rewrites(v) => req[v].user # r.user
    BY <2>2, <2>5, ClearRows
  <2>7. r.row.name = account[r.user].name
    BY <1>2, <2>1 DEF AccountsInv, NameKept, ChangeEmailLock, At
  <2>8. QED
    BY <1>2, <2>1, <2>2, <2>4, <2>6, <2>7, HoldStep
<1>3. QED
  BY <1>1, <1>2

LEMMA ChangeEmailWritePreserves ==
    ASSUME AccountsInv, NEW w \in Workers, ChangeEmailWrite(w)
    PROVE  AccountsInv'
<1>1. CASE Finish(w)
  BY <1>1, FinishStep DEF ChangeEmailWrite
<1>2. CASE ~Finish(w)
  <2> DEFINE r == [req[w] EXCEPT !.pc = "written"]
             email == EmailKey(req[w].row)
             name == NameKey(req[w].row)
  <2>1. /\ r \in Request /\ r.kind = "change_email" /\ r.pc = "written"
        /\ r.row = req[w].row /\ r.row \in Accounts
        /\ r.user = req[w].user /\ r.user \in Users
    BY ReqIs DEF ChangeEmailWrite, At, Shape, Request
  <2>2. /\ req' = [req EXCEPT ![w] = r] /\ account' = account
        /\ ~Taken(r.user, email) /\ Clear(w)
    BY <1>2, <2>1 DEF ChangeEmailWrite
  <2>3. req'[w] = r
    BY <2>2, ReqIs
  <2>4. /\ Live(r.user) /\ Rewrites(w)
        /\ \A v \in Workers \ {w} : Rewrites(v) => req[v].user # r.user
    BY <2>1 DEF AccountsInv, RowsHeld, ChangeEmailWrite, Rewrites, At
  <2>5. r.row.name = account[r.user].name
    BY <2>1, <2>4 DEF AccountsInv, NameKept
  <2>6. Shape(r) /\ ~Inserts(r) /\ Rewrites(w)' /\ NewKeys(w)' = {email, name}
    BY <2>1, <2>3 DEF Shape, Inserts, Rewrites, NewKeys, Keys
  <2>7. NextKeys(w) = {email}
    BY DEF ChangeEmailWrite, NextKeys, At
  <2>8. \A v \in Workers \ {w} : email \notin NewKeys(v)
    BY <2>2, <2>7, ClearKeys
  <2>9. \A u \in Users : Live(u) /\ email \in Keys(account[u]) => u = r.user
    BY <2>2 DEF Taken
  <2>10. name \in Keys(account[r.user])
    BY <2>1, <2>5, KeysApart DEF Keys
  <2>11. \A v \in Workers \ {w} : name \notin NewKeys(v)
    BY <2>1, <2>4, <2>10 DEF AccountsInv, KeysHeld
  <2>12. \A u \in Users : Live(u) /\ name \in Keys(account[u]) => u = r.user
    BY <2>1, <2>4, <2>10 DEF AccountsInv, NoClash
  <2> HIDE DEF r, email, name
  <2>13. QED
    BY <2>1, <2>2, <2>4, <2>5, <2>6, <2>8, <2>9, <2>11, <2>12, HoldStep
<1>3. QED
  BY <1>1, <1>2

LEMMA DeleteAccountBeginPreserves ==
    ASSUME AccountsInv, NEW w \in Workers, NEW u \in Users, DeleteAccountBegin(w, u)
    PROVE  AccountsInv'
<1> DEFINE r == [IdleRequest EXCEPT !.kind = "delete_account", !.pc = "write", !.user = u]
<1>1. /\ r \in Request /\ r.kind = "delete_account" /\ r.pc = "write"
      /\ r.row = NoAccount /\ r.user = u
  BY IdleShape DEF Shape, IdleRequest, Request
<1>2. req' = [req EXCEPT ![w] = r] /\ account' = account /\ Live(u)
  BY DEF DeleteAccountBegin
<1> HIDE DEF r
<1>3. QED
  BY <1>1, <1>2, QuietStep DEF Shape, Inserts

LEMMA DeleteAccountWritePreserves ==
    ASSUME AccountsInv, NEW w \in Workers, DeleteAccountWrite(w)
    PROVE  AccountsInv'
<1>1. CASE ~Live(req[w].user)
  BY <1>1, FinishStep DEF DeleteAccountWrite
<1>2. CASE Live(req[w].user)
  <2> DEFINE r == [req[w] EXCEPT !.pc = "written"]
  <2>1. /\ r \in Request /\ r.kind = "delete_account" /\ r.row = NoAccount
        /\ r.user = req[w].user /\ r.user \in Users /\ r.pc = "written"
    BY ReqIs DEF DeleteAccountWrite, At, Shape, Request
  <2>2. req' = [req EXCEPT ![w] = r] /\ account' = account /\ Clear(w)
    BY <1>2 DEF DeleteAccountWrite
  <2> HIDE DEF r
  <2>3. req'[w] = r
    BY <2>2, ReqIs
  <2>4. Shape(r) /\ ~Inserts(r) /\ NewKeys(w)' = {}
    BY <2>1, <2>3 DEF Shape, Inserts, NewKeys
  <2>5. NextRows(w) = {r.user}
    BY <2>1 DEF DeleteAccountWrite, NextRows, At
  <2>6. \A v \in Workers \ {w} : Rewrites(v) => req[v].user # r.user
    BY <2>2, <2>5, ClearRows
  <2>7. QED
    BY <1>2, <2>1, <2>2, <2>4, <2>6, HoldStep
<1>3. QED
  BY <1>1, <1>2

LEMMA ImportBeginPreserves ==
    ASSUME AccountsInv, NEW w \in Workers, NEW batch \in Batches, ImportBegin(w, batch)
    PROVE  AccountsInv'
<1>0. SystemRow \in Accounts
  BY UniquenessAssumption DEF SystemRow, Accounts
<1>1. batch \in Seq(Titles)
  BY UniquenessAssumption DEF Batches
<1>2. account' = account
  BY Zenon DEF ImportBegin
<1>3. ASSUME NEW u \in Users, Live(u),
             req' = [req EXCEPT ![w] = [IdleRequest EXCEPT
                       !.kind = "import", !.pc = "check", !.user = u, !.batch = batch]]
      PROVE  AccountsInv'
  <2> DEFINE r == [IdleRequest EXCEPT
                     !.kind = "import", !.pc = "check", !.user = u, !.batch = batch]
  <2>1. /\ r \in Request /\ r.kind = "import" /\ r.pc = "check"
        /\ r.row = NoAccount /\ r.user = u
    BY <1>1, IdleShape DEF Shape, IdleRequest, Request
  <2>2. req' = [req EXCEPT ![w] = r]
    BY <1>3
  <2> HIDE DEF r
  <2>3. QED
    BY <1>2, <1>3, <2>1, <2>2, QuietStep DEF Shape, Inserts
<1>4. ASSUME req' = [req EXCEPT ![w] = [IdleRequest EXCEPT
                       !.kind = "import", !.pc = "write", !.row = SystemRow,
                       !.batch = batch]]
      PROVE  AccountsInv'
  <2> DEFINE r == [IdleRequest EXCEPT !.kind = "import", !.pc = "write", !.row = SystemRow,
                       !.batch = batch]
  <2>1. /\ r \in Request /\ r.kind = "import" /\ r.pc = "write"
        /\ r.row \in Accounts /\ r.user = NoAccount
    BY <1>0, <1>1, IdleShape DEF Shape, IdleRequest, Request
  <2>2. req' = [req EXCEPT ![w] = r]
    BY <1>4
  <2> HIDE DEF r
  <2>3. QED
    BY <1>2, <2>1, <2>2, QuietStep DEF Shape, Inserts
<1>5. QED
  BY <1>3, <1>4, Zenon DEF ImportBegin

LEMMA ImportCheckPreserves ==
    ASSUME AccountsInv, NEW w \in Workers, ImportCheck(w)
    PROVE  AccountsInv'
<1> DEFINE t == Head(req[w].batch)
           adds == IF Copies(t) = 0 THEN Append(req[w].adds, t) ELSE req[w].adds
           imported == IF Copies(t) = 0 THEN req[w].imported + 1 ELSE req[w].imported
           r == [req[w] EXCEPT !.batch = Tail(@), !.adds = adds, !.imported = imported]
<1>1. CASE Finish(w)
  BY <1>1, FinishStep DEF ImportCheck
<1>2. CASE ~Finish(w)
  <2>1. /\ req[w].batch \in Seq(Titles) /\ req[w].batch # <<>> /\ req[w].kind = "import"
        /\ req[w].pc = "check"
        /\ req[w].adds \in Seq(Titles) /\ req[w].imported \in Nat
    BY ReqIs DEF ImportCheck, At, Request
  <2>2. t \in Titles /\ Tail(req[w].batch) \in Seq(Titles)
    BY <2>1
  <2> HIDE DEF t
  <2>3. adds \in Seq(Titles) /\ imported \in Nat
    BY <2>1, <2>2
  <2>4. /\ req' = [req EXCEPT ![w].batch = Tail(@), ![w].adds = adds, ![w].imported = imported]
        /\ account' = account
    BY <1>2 DEF ImportCheck, t
  <2> HIDE DEF adds, imported
  <2>5. req' = [req EXCEPT ![w] = r]
    BY <2>4, ReqIs
  <2>6. /\ r \in Request /\ r.kind = "import" /\ r.pc = req[w].pc
        /\ r.row = req[w].row /\ r.user = req[w].user
    BY <2>1, <2>2, <2>3, ReqIs DEF Request
  <2> HIDE DEF r
  <2>7. Shape(r)
    BY <2>1, <2>6, ReqIs DEF Shape, Inserts
  <2>8. QED
    BY <2>1, <2>4, <2>5, <2>6, <2>7, SameStep
<1>3. QED
  BY <1>1, <1>2

LEMMA ImportCountPreserves ==
    ASSUME AccountsInv, NEW w \in Workers, ImportCount(w)
    PROVE  AccountsInv'
<1> DEFINE r == [req[w] EXCEPT !.pc = "written"]
<1>1. /\ r \in Request /\ r.kind = "import" /\ req[w].kind = "import" /\ r.pc = "written"
      /\ req[w].pc = "check"
      /\ r.row = req[w].row /\ r.user = req[w].user
  BY ReqIs DEF ImportCount, At, Request
<1>2. req' = [req EXCEPT ![w] = r] /\ account' = account
  BY DEF ImportCount
<1> HIDE DEF r
<1>3. Shape(r)
  BY <1>1, ReqIs DEF Shape, Inserts
<1>4. QED
  BY <1>1, <1>2, <1>3, SameStep

LEMMA ImportCommitPreserves ==
    ASSUME AccountsInv, NEW w \in Workers, ImportCommit(w)
    PROVE  AccountsInv'
<1>1. CASE req[w].row = NoAccount
  BY <1>1, FinishStep DEF ImportCommit
<1>2. CASE req[w].row # NoAccount
  BY <1>2, CommitStep DEF ImportCommit, At, Inserts
<1>3. QED
  BY <1>1, <1>2

LEMMA CommitAccountPreserves ==
    ASSUME AccountsInv, NEW w \in Workers, CommitAccount(w)
    PROVE  AccountsInv'
BY CommitStep DEF CommitAccount, Inserts, Rewrites

LEMMA ReportBeginPreserves ==
    ASSUME AccountsInv, NEW w \in Workers, NEW u \in Users, ReportBegin(w, u)
    PROVE  AccountsInv'
<1> DEFINE r == [IdleRequest EXCEPT !.kind = "report", !.pc = "write", !.user = u]
<1>1. /\ r \in Request /\ r.kind = "report" /\ r.pc = "write"
      /\ r.row = NoAccount /\ r.user = u
  BY IdleShape DEF Shape, IdleRequest, Request
<1>2. req' = [req EXCEPT ![w] = r] /\ account' = account /\ Live(u)
  BY DEF ReportBegin
<1> HIDE DEF r
<1>3. QED
  BY <1>1, <1>2, QuietStep DEF Shape, Inserts

LEMMA ReportCommitPreserves ==
    ASSUME AccountsInv, NEW w \in Workers, ReportCommit(w)
    PROVE  AccountsInv'
BY FinishStep DEF ReportCommit

LEMMA NextAccounts == AccountsInv /\ [Next]_vars => AccountsInv'
<1> SUFFICES ASSUME AccountsInv, [Next]_vars PROVE AccountsInv'
  OBVIOUS
<1>1. ASSUME NEW w \in Workers, Begin(w) PROVE AccountsInv'
  BY <1>1, SignupBeginPreserves, ChangeEmailBeginPreserves, DeleteAccountBeginPreserves,
     ReportBeginPreserves, ImportBeginPreserves DEF Begin
<1>2. ASSUME NEW w \in Workers, Step(w) PROVE AccountsInv'
  BY <1>2, SignupCheckEmailPreserves, InsertEmailPreserves, InsertNamePreserves,
     ChangeEmailLockPreserves, ChangeEmailWritePreserves,
     DeleteAccountWritePreserves, CommitAccountPreserves, ReportCommitPreserves,
     ImportCheckPreserves, ImportCountPreserves,
     ImportCommitPreserves DEF Step
<1>3. ASSUME NEW w \in Workers, Abort(w) PROVE AccountsInv'
  BY <1>3, FinishStep DEF Abort
<1>4. CASE \/ \E u \in Users, t \in Titles : CreateRoute(u, t) \/ DeleteRoute(u, t)
           \/ UNCHANGED vars
  <2>1. account' = account /\ req' = req
    BY <1>4 DEF CreateRoute, DeleteRoute, vars
  <2>2. QED
    BY <2>1 DEF AccountsInv, RequestsType, Shapes, IdsFresh, RowsHeld, KeysHeld, NameKept, NoClash,
       NewKeys, Rewrites, Live
<1>5. QED
  BY <1>1, <1>2, <1>3, <1>4 DEF Next

LEMMA InitAccounts == Init => AccountsInv
<1> SUFFICES ASSUME Init PROVE AccountsInv
  OBVIOUS
<1>1. \A w \in Workers : req[w] = IdleRequest
  BY DEF Init
<1>2. RequestsType /\ Shapes
  BY <1>1, IdleShape DEF Init, RequestsType, Shapes, Shape
<1>3. \A u \in Users : ~Live(u)
  BY DEF Init, Live
<1>4. \A w \in Workers : NewKeys(w) = {} /\ ~Rewrites(w)
  BY <1>1, IdleShape DEF NewKeys, Rewrites
<1>5. QED
  BY <1>1, <1>2, <1>3, <1>4, IdleShape
     DEF AccountsInv, IdsFresh, RowsHeld, KeysHeld, NameKept, NoClash

\* No two accounts ever share a name or an e-mail address.
THEOREM AccountsStayDistinct == Spec => []AccountsDistinct
<1>1. AccountsInv => AccountsDistinct
  <2> SUFFICES ASSUME AccountsInv, NEW u \in Users, NEW v \in Users, u # v, Live(u), Live(v)
               PROVE  account[u].name # account[v].name /\ account[u].email # account[v].email
    BY DEF AccountsDistinct
  <2>1. \A k \in Keys(account[u]) : k \notin Keys(account[v])
    BY DEF AccountsInv, NoClash
  <2>2. QED
    BY <2>1 DEF Keys, EmailKey, NameKey
<1>2. QED
  BY <1>1, InitAccounts, NextAccounts, PTL DEF Spec

-----------------------------------------------------------------------------
(***************************************************************************)
(* Reports.  A user who has none may have as many requests under way as    *)
(* there can be; from the first commit on no further one begins, and each  *)
(* commit ends one of them.                                                *)
(***************************************************************************)

Reporting(u) == {w \in Workers : req[w].kind = "report" /\ req[w].user = u}

ReportsInv ==
    /\ reports \in [Users -> Nat]
    /\ \A u \in Users : reports[u] + Cardinality(Reporting(u)) <= Cardinality(Workers)

LEMMA ReportingFinite ==
    ASSUME NEW u
    PROVE  /\ IsFiniteSet(Reporting(u)) /\ Cardinality(Reporting(u)) \in Nat
           /\ Cardinality(Workers) \in Nat
           /\ Cardinality(Reporting(u)) <= Cardinality(Workers)
<1>1. Reporting(u) \in SUBSET Workers
  BY DEF Reporting
<1>2. QED
  BY <1>1, UniquenessAssumption, FS_Subset, FS_CardinalityType

\* A step after which w makes no report.
OtherStep(w) ==
    /\ req'[w].kind # "report"
    /\ \A v \in Workers \ {w} : req'[v] = req[v]

LEMMA FewerReports ==
    ASSUME ReportsInv, NEW w \in Workers, OtherStep(w), reports' \in [Users -> Nat],
           \A u \in Users : reports'[u] <= reports[u]
    PROVE  ReportsInv'
<1>1. ASSUME NEW u \in Users
      PROVE  reports'[u] + Cardinality(Reporting(u)') <= Cardinality(Workers)
  <2>1. Reporting(u)' \in SUBSET Reporting(u)
    BY DEF Reporting, OtherStep
  <2>2. IsFiniteSet(Reporting(u)) /\ Cardinality(Reporting(u)) \in Nat
        /\ Cardinality(Workers) \in Nat
    BY ReportingFinite
  <2>3. /\ Cardinality(Reporting(u)') <= Cardinality(Reporting(u))
        /\ Cardinality(Reporting(u)') \in Nat
    BY <2>1, <2>2, FS_Subset, FS_CardinalityType
  <2>4. /\ reports[u] \in Nat /\ reports'[u] \in Nat
        /\ reports[u] + Cardinality(Reporting(u)) <= Cardinality(Workers)
    BY DEF ReportsInv
  <2>5. QED
    BY <2>2, <2>3, <2>4
<1>2. QED
  BY <1>1 DEF ReportsInv

LEMMA FinishReports ==
    ASSUME AccountsInv, NEW w \in Workers, Finish(w)
    PROVE  OtherStep(w)
BY ReqIs DEF Finish, OtherStep, IdleRequest

\* What has not begun takes no step, and a report only the one.
LEMMA StepOf ==
    ASSUME AccountsInv, NEW w \in Workers, Step(w)
    PROVE  req[w].kind # "idle" /\ (req[w].kind = "report" => ReportCommit(w))
<1>1. req[w].pc = "second" => req[w].kind \in {"signup", "import"}
  BY ReqIs DEF Shape
<1>2. CASE InsertName(w)
  BY <1>1, <1>2 DEF InsertName
<1>3. CASE ~InsertName(w)
  BY <1>3 DEF Step, SignupCheckEmail, InsertEmail, ChangeEmailLock, ChangeEmailWrite,
     DeleteAccountWrite, CommitAccount, ReportCommit, ImportCheck, ImportCount,
     ImportCommit, At
<1>4. QED
  BY <1>2, <1>3

\* The kind of a request is chosen when it begins.
LEMMA GoOnReports ==
    ASSUME AccountsInv, NEW w \in Workers, req[w].kind # "report",
           Step(w) \/ Abort(w)
    PROVE  OtherStep(w)
<1>1. req \in [Workers -> Request] /\ req[w] \in Request
  BY ReqIs
<1>2. CASE Finish(w)
  BY <1>2, FinishReports
<1>3. CASE SignupCheckEmail(w) /\ ~Finish(w)
  BY <1>1, <1>3 DEF SignupCheckEmail, OtherStep, Request
<1>4. CASE InsertEmail(w) /\ ~Finish(w)
  BY <1>1, <1>4 DEF InsertEmail, OtherStep, Request
<1>4a. CASE ChangeEmailLock(w) /\ ~Finish(w)
  BY <1>1, <1>4a DEF ChangeEmailLock, OtherStep, Request
<1>5. CASE ChangeEmailWrite(w) /\ ~Finish(w)
  BY <1>1, <1>5 DEF ChangeEmailWrite, OtherStep, Request
<1>6. CASE DeleteAccountWrite(w) /\ ~Finish(w)
  BY <1>1, <1>6 DEF DeleteAccountWrite, OtherStep, Request
<1>7. CASE InsertName(w) /\ ~Finish(w)
  <2>1. ASSUME NEW u, NEW next, req' = [req EXCEPT ![w].pc = next, ![w].user = u]
        PROVE  OtherStep(w)
    BY <1>1, <2>1 DEF OtherStep, Request
  <2>2. \E u, next : req' = [req EXCEPT ![w].pc = next, ![w].user = u]
    BY <1>7, Zenon DEF InsertName
  <2>3. QED
    BY <2>1, <2>2
<1>8. CASE ImportCheck(w) /\ ~Finish(w)
  <2> DEFINE t == Head(req[w].batch)
             adds == IF Copies(t) = 0 THEN Append(req[w].adds, t) ELSE req[w].adds
             imported == IF Copies(t) = 0 THEN req[w].imported + 1 ELSE req[w].imported
  <2>1. req' = [req EXCEPT ![w].batch = Tail(@), ![w].adds = adds, ![w].imported = imported]
    BY <1>8 DEF ImportCheck
  <2> HIDE DEF adds, imported
  <2>2. QED
    BY <1>1, <1>8, <2>1 DEF OtherStep, Request
<1>9. CASE ImportCount(w)
  BY <1>1, <1>9 DEF ImportCount, OtherStep, Request
<1>10. CASE ReportCommit(w)
  BY <1>10 DEF ReportCommit, At
<1>11. QED
  BY <1>2, <1>3, <1>4, <1>4a, <1>5, <1>6, <1>7, <1>8, <1>9, <1>10
     DEF Step, Abort, CommitAccount, ImportCommit

LEMMA BeginReports ==
    ASSUME AccountsInv, NEW w \in Workers, Begin(w),
           \A u \in Users : ~ReportBegin(w, u)
    PROVE  OtherStep(w)
<1>1. req \in [Workers -> Request] /\ IdleRequest \in Request
  BY ReqIs, IdleShape DEF Shape
<1>2. ASSUME NEW row \in Accounts, SignupBegin(w, row) PROVE OtherStep(w)
  BY <1>1, <1>2 DEF SignupBegin, OtherStep, Request
<1>3. ASSUME NEW u \in Users, NEW email \in Emails, ChangeEmailBegin(w, u, email)
      PROVE  OtherStep(w)
  <2> DEFINE row == [account[u] EXCEPT !.email = email]
  <2>1. req' = [req EXCEPT ![w] = [IdleRequest EXCEPT
                  !.kind = "change_email", !.pc = "write", !.user = u, !.row = row]]
    BY <1>3 DEF ChangeEmailBegin
  <2> HIDE DEF row
  <2>2. QED
    BY <1>1, <2>1 DEF OtherStep, Request
<1>4. ASSUME NEW u \in Users, DeleteAccountBegin(w, u) PROVE OtherStep(w)
  BY <1>1, <1>4 DEF DeleteAccountBegin, OtherStep, Request
<1>5. ASSUME NEW batch \in Batches, ImportBegin(w, batch) PROVE OtherStep(w)
  <2>1. ASSUME NEW u,
               req' = [req EXCEPT ![w] = [IdleRequest EXCEPT
                         !.kind = "import", !.pc = "check", !.user = u, !.batch = batch]]
        PROVE  OtherStep(w)
    BY <1>1, <2>1 DEF OtherStep, Request
  <2>2. ASSUME req' = [req EXCEPT ![w] = [IdleRequest EXCEPT
                         !.kind = "import", !.pc = "write", !.row = SystemRow,
                         !.batch = batch]]
        PROVE  OtherStep(w)
    BY <1>1, <2>2 DEF OtherStep, Request
  <2>3. QED
    BY <1>5, <2>1, <2>2, Zenon DEF ImportBegin
<1>6. QED
  BY <1>2, <1>3, <1>4, <1>5 DEF Begin

LEMMA ReportBeginReports ==
    ASSUME AccountsInv, ReportsInv, NEW w \in Workers, NEW u \in Users, ReportBegin(w, u)
    PROVE  ReportsInv'
<1> DEFINE r == [IdleRequest EXCEPT !.kind = "report", !.pc = "write", !.user = u]
<1>1. r.user = u
  BY IdleShape DEF IdleRequest
<1>2. req' = [req EXCEPT ![w] = r] /\ reports' = reports /\ reports[u] = 0
  BY DEF ReportBegin, Unreported
<1> HIDE DEF r
<1>3. req'[w] = r /\ \A v \in Workers \ {w} : req'[v] = req[v]
  BY <1>2, ReqIs
<1>4. req[w].kind = "idle"
  BY DEF ReportBegin, Free
<1>5. ASSUME NEW x \in Users
      PROVE  reports[x] + Cardinality(Reporting(x)') <= Cardinality(Workers)
  <2>1. CASE x = u
    <3>1. Reporting(x)' \in SUBSET Workers
      BY DEF Reporting
    <3>2. Cardinality(Reporting(x)') <= Cardinality(Workers)
          /\ Cardinality(Reporting(x)') \in Nat
      BY <3>1, UniquenessAssumption, FS_Subset, FS_CardinalityType
    <3>3. QED
      BY <1>2, <2>1, <3>2
  <2>2. CASE x # u
    <3>1. Reporting(x)' = Reporting(x)
      BY <1>1, <1>3, <1>4, <2>2 DEF Reporting
    <3>2. QED
      BY <3>1 DEF ReportsInv
  <2>3. QED
    BY <2>1, <2>2
<1>6. QED
  BY <1>2, <1>5 DEF ReportsInv

LEMMA ReportCommitReports ==
    ASSUME AccountsInv, ReportsInv, NEW w \in Workers, ReportCommit(w)
    PROVE  ReportsInv'
<1> DEFINE u == req[w].user
<1>1. /\ req[w].kind = "report" /\ u \in Users \cup {NoAccount}
      /\ reports' = [reports EXCEPT ![u] = IF Live(u) THEN @ + 1 ELSE @]
      /\ Finish(w)
  BY ReqIs DEF ReportCommit, At, Request
<1>2. /\ req'[w] = IdleRequest /\ IdleRequest.kind = "idle"
      /\ \A v \in Workers \ {w} : req'[v] = req[v]
  BY <1>1, ReqIs DEF Finish, IdleRequest
<1>0. reports \in [Users -> Nat]
  BY DEF ReportsInv
<1>3. reports' \in [Users -> Nat]
  <2>1. CASE u \in Users
    <3>1. reports[u] \in Nat
      BY <1>0, <2>1
    <3>2. CASE Live(u)
      <4>1. reports' = [reports EXCEPT ![u] = reports[u] + 1]
        BY <1>1, <3>2
      <4>2. reports[u] + 1 \in Nat
        BY <3>1
      <4>3. QED
        BY <1>0, <4>1, <4>2
    <3>3. CASE ~Live(u)
      <4>1. reports' = [reports EXCEPT ![u] = reports[u]]
        BY <1>1, <3>3
      <4>2. QED
        BY <1>0, <4>1
    <3>4. QED
      BY <3>2, <3>3
  <2>2. CASE u \notin Users
    <3>1. reports' = reports
      BY <1>0, <1>1, <2>2
    <3>2. QED
      BY <1>0, <3>1
  <2>3. QED
    BY <2>1, <2>2
<1>4. ASSUME NEW x \in Users
      PROVE  reports'[x] + Cardinality(Reporting(x)') <= Cardinality(Workers)
  <2>1. /\ reports[x] \in Nat
        /\ reports[x] + Cardinality(Reporting(x)) <= Cardinality(Workers)
    BY DEF ReportsInv
  <2>2. CASE x = u
    <3>1. Reporting(x)' = Reporting(x) \ {w} /\ w \in Reporting(x)
      BY <1>1, <1>2, <2>2 DEF Reporting
    <3>2. /\ Cardinality(Reporting(x)') = Cardinality(Reporting(x)) - 1
          /\ Cardinality(Reporting(x)) \in Nat /\ Cardinality(Workers) \in Nat
      BY <3>1, ReportingFinite, FS_RemoveElement
    <3>3. reports'[x] \in Nat /\ reports'[x] <= reports[x] + 1
      BY <1>1, <1>3, <2>1, <2>2 DEF ReportsInv
    <3>4. QED
      BY <2>1, <3>2, <3>3
  <2>3. CASE x # u
    <3>1. Reporting(x)' = Reporting(x)
      BY <1>1, <1>2, <2>3 DEF Reporting
    <3>2. reports'[x] = reports[x]
      BY <1>1, <2>3 DEF ReportsInv
    <3>3. QED
      BY <2>1, <3>1, <3>2
  <2>4. QED
    BY <2>2, <2>3
<1>5. QED
  BY <1>3, <1>4 DEF ReportsInv

LEMMA NextReports == AccountsInv /\ ReportsInv /\ [Next]_vars => ReportsInv'
<1> SUFFICES ASSUME AccountsInv, ReportsInv, [Next]_vars PROVE ReportsInv'
  OBVIOUS
<1>0. reports \in [Users -> Nat] /\ (\A u \in Users : reports[u] <= reports[u])
  BY DEF ReportsInv
<1>1. ASSUME NEW w \in Workers, Begin(w) PROVE ReportsInv'
  <2>1. CASE \E u \in Users : ReportBegin(w, u)
    BY <2>1, ReportBeginReports
  <2>2. CASE \A u \in Users : ~ReportBegin(w, u)
    <3>1. OtherStep(w)
      BY <1>1, <2>2, BeginReports
    <3>2. reports' = reports
      BY <1>1, <2>2, Zenon
         DEF Begin, SignupBegin, ChangeEmailBegin, DeleteAccountBegin, ImportBegin
    <3>3. QED
      BY <1>0, <3>1, <3>2, FewerReports
  <2>3. QED
    BY <2>1, <2>2
<1>2. ASSUME NEW w \in Workers, Step(w) \/ Abort(w), req[w].kind # "report"
      PROVE  ReportsInv'
  <2>1. OtherStep(w)
    BY <1>2, GoOnReports
  <2>2. CASE CommitAccount(w) /\ req[w].kind = "delete_account"
    <3>1. reports' = [reports EXCEPT ![req[w].user] = 0]
      BY <2>2 DEF CommitAccount
    <3>2. reports' \in [Users -> Nat]
      BY <1>0, <3>1
    <3>3. \A x \in Users : reports[x] \in Nat /\ (reports'[x] = reports[x] \/ reports'[x] = 0)
      BY <1>0, <3>1
    <3>4. \A x \in Users : reports'[x] <= reports[x]
      BY <3>3
    <3>5. QED
      BY <2>1, <3>2, <3>4, FewerReports
  <2>3. CASE reports' = reports
    BY <1>0, <2>1, <2>3, FewerReports
  <2>4. ~ReportCommit(w)
    BY <1>2 DEF ReportCommit, At
  <2>5. reports' = reports \/ (CommitAccount(w) /\ req[w].kind = "delete_account")
    BY <1>2, <2>4, Zenon
       DEF Step, Abort, SignupCheckEmail, InsertEmail, InsertName,
           ChangeEmailLock, ChangeEmailWrite, DeleteAccountWrite,
           CommitAccount, ImportCheck, ImportCount, ImportCommit
  <2>6. QED
    BY <2>2, <2>3, <2>5
<1>3. ASSUME NEW w \in Workers, Step(w) \/ Abort(w), req[w].kind = "report"
      PROVE  ReportsInv'
  <2>1. CASE ReportCommit(w)
    BY <2>1, ReportCommitReports
  <2>2. CASE Abort(w)
    BY <1>0, <2>2, FinishReports, FewerReports DEF Abort
  <2>3. ReportCommit(w) \/ Abort(w)
    BY <1>3, StepOf
  <2>4. QED
    BY <2>1, <2>2, <2>3
<1>4. CASE \/ \E u \in Users, t \in Titles : CreateRoute(u, t) \/ DeleteRoute(u, t)
           \/ UNCHANGED vars
  <2>1. reports' = reports /\ req' = req
    BY <1>4 DEF CreateRoute, DeleteRoute, vars
  <2>2. QED
    BY <2>1 DEF ReportsInv, Reporting
<1>5. QED
  BY <1>1, <1>2, <1>3, <1>4 DEF Next

LEMMA InitReports == Init => ReportsInv
<1> SUFFICES ASSUME Init PROVE ReportsInv
  OBVIOUS
<1>1. ASSUME NEW u \in Users
      PROVE  reports[u] = 0 /\ Cardinality(Reporting(u)) \in Nat
             /\ Cardinality(Reporting(u)) <= Cardinality(Workers)
  BY ReportingFinite DEF Init
<1>2. reports \in [Users -> Nat]
  BY DEF Init
<1>3. QED
  BY <1>1, <1>2 DEF ReportsInv

\* A user has never more reports on a target than requests can overlap.
THEOREM ReportsBounded == Spec => []DuplicatesBounded
<1>1. ReportsInv => DuplicatesBounded
  <2> SUFFICES ASSUME ReportsInv, NEW u \in Users
               PROVE  reports[u] <= Cardinality(Workers)
    BY DEF DuplicatesBounded
  <2>1. /\ reports[u] \in Nat
        /\ reports[u] + Cardinality(Reporting(u)) <= Cardinality(Workers)
    BY DEF ReportsInv
  <2>2. QED
    BY <2>1, ReportingFinite
<1>2. Init => AccountsInv /\ ReportsInv
  BY InitAccounts, InitReports
<1>3. AccountsInv /\ ReportsInv /\ [Next]_vars => (AccountsInv /\ ReportsInv)'
  BY NextAccounts, NextReports
<1>4. QED
  BY <1>1, <1>2, <1>3, PTL DEF Spec

-----------------------------------------------------------------------------
(***************************************************************************)
(* Sums over finite sets.  SumFunction adds the members one after the      *)
(* other, each time one that CHOOSE picks.  Induction over the subsets of  *)
(* a finite set shows that it is defined and that the order does not       *)
(* matter.                                                                 *)
(***************************************************************************)

\* What a sum over the members of s adds up to when f is the sum over fewer.
Pick(s) == CHOOSE x \in s : TRUE
Added(g, f, s) == IF s = {} THEN 0 ELSE g[Pick(s)] + f[s \ {Pick(s)}]
IsSum(f, g, S) == f = [s \in SUBSET S |-> Added(g, f, s)]
SumOf(g, S) == CHOOSE f : IsSum(f, g, S)

LEMMA NatMin ==
    ASSUME NEW S \in SUBSET Nat, S # {}
    PROVE  \E m \in S : \A n \in S : m <= n
<1> DEFINE R == OpToRel(<, Nat)
<1>1. IsWellFoundedOn(R, Nat)
  BY NatLessThanWellFounded, Zenon
<1>2. \A m, n \in Nat : m < n => <<m, n>> \in R
  BY DEF OpToRel
<1> HIDE DEF R
<1>3. PICK x \in S : \A y \in S : ~(<<y, x>> \in R)
  BY <1>1, WFMin
<1>4. \A y \in S : ~(y < x)
  BY <1>2, <1>3
<1>5. x \in Nat /\ \A y \in S : y \in Nat
  OBVIOUS
<1>6. QED
  BY <1>3, <1>4, <1>5

\* Induction over the subsets of a finite set: F has each that it has all
\* subsets of with one member less.
LEMMA SubsetInduction ==
    ASSUME NEW S, IsFiniteSet(S), NEW F,
           \A s \in SUBSET S : (\A x \in s : s \ {x} \in F) => s \in F
    PROVE  \A s \in SUBSET S : s \in F
<1> DEFINE Bad == {Cardinality(s) : s \in {t \in SUBSET S : t \notin F}}
<1>1. \A s \in SUBSET S : IsFiniteSet(s) /\ Cardinality(s) \in Nat
  BY FS_Subset, FS_CardinalityType
<1>2. SUFFICES ASSUME Bad # {} PROVE FALSE
  OBVIOUS
<1>3. Bad \in SUBSET Nat
  BY <1>1
<1>4. PICK m \in Bad : \A n \in Bad : m <= n
  BY <1>2, <1>3, NatMin
<1>5. PICK s \in SUBSET S : s \notin F /\ Cardinality(s) = m
  BY <1>4
<1>6. ASSUME NEW x \in s PROVE s \ {x} \in F
  <2>1. Cardinality(s \ {x}) = Cardinality(s) - 1 /\ s \ {x} \in SUBSET S
    BY <1>1, FS_RemoveElement
  <2>2. ~(m <= m - 1)
    BY <1>3
  <2>3. s \ {x} \notin F => m - 1 \in Bad
    BY <1>5, <2>1
  <2>4. QED
    BY <1>4, <2>2, <2>3
<1>7. QED
  BY <1>5, <1>6

\* The recursion that defines a sum has a solution.
LEMMA SumDefined ==
    ASSUME NEW S, IsFiniteSet(S), NEW g
    PROVE  \E f : IsSum(f, g, S)
<1> DEFINE Upto(n) == {s \in SUBSET S : Cardinality(s) <= n}
           Good(n) == \E f : f = [s \in Upto(n) |-> Added(g, f, s)]
           Bad == {n \in Nat : ~Good(n)}
<1>1. \A s \in SUBSET S : IsFiniteSet(s) /\ Cardinality(s) \in Nat
  BY FS_Subset, FS_CardinalityType
<1>2. Good(0)
  <2>1. \A s \in Upto(0) : s = {}
    BY <1>1, FS_EmptySet
  <2>2. \A f : \A s \in Upto(0) : Added(g, f, s) = 0
    BY <2>1 DEF Added
  <2>3. [s \in Upto(0) |-> 0] = [s \in Upto(0) |-> Added(g, [t \in Upto(0) |-> 0], s)]
    BY <2>2
  <2>4. QED
    BY <2>3
<1>3. ASSUME NEW n \in Nat, Good(n) PROVE Good(n + 1)
  <2>1. PICK f : f = [s \in Upto(n) |-> Added(g, f, s)]
    BY <1>3
  <2> DEFINE h == [s \in Upto(n + 1) |-> Added(g, f, s)]
  <2>2. ASSUME NEW s \in Upto(n + 1) PROVE Added(g, f, s) = Added(g, h, s)
    <3>1. CASE s = {}
      BY <3>1 DEF Added
    <3>2. CASE s # {}
      <4>1. Pick(s) \in s
        BY <3>2 DEF Pick
      <4>2. Cardinality(s \ {Pick(s)}) = Cardinality(s) - 1
        BY <1>1, <4>1, FS_RemoveElement
      <4>3. s \ {Pick(s)} \in Upto(n) /\ s \ {Pick(s)} \in Upto(n + 1)
        BY <1>1, <4>2
      <4>4. h[s \ {Pick(s)}] = f[s \ {Pick(s)}]
        BY <2>1, <4>3
      <4>5. QED
        BY <3>2, <4>4 DEF Added
    <3>3. QED
      BY <3>1, <3>2
  <2>3. h = [s \in Upto(n + 1) |-> Added(g, h, s)]
    BY <2>2
  <2>4. QED
    BY <2>3
<1> HIDE DEF Good
<1>4. Bad = {}
  <2>1. SUFFICES ASSUME Bad # {} PROVE FALSE
    OBVIOUS
  <2>2. PICK m \in Bad : \A n \in Bad : m <= n
    BY <2>1, NatMin
  <2>3. m \in Nat /\ m # 0
    BY <1>2
  <2>4. m - 1 \in Nat /\ ~(m <= m - 1)
    BY <2>3
  <2>5. Good(m - 1)
    BY <2>2, <2>4
  <2>6. Good((m - 1) + 1)
    BY <1>3, <2>4, <2>5
  <2>7. QED
    BY <2>3, <2>6
<1>5. Good(Cardinality(S))
  BY <1>1, <1>4
<1>6. Upto(Cardinality(S)) = SUBSET S
  BY <1>1, FS_Subset
<1>7. QED
  BY <1>5, <1>6 DEF Good, IsSum

LEMMA SumIs ==
    ASSUME NEW g
    PROVE  SumFunction(g) = SumOf(g, DOMAIN g)[DOMAIN g]
BY DEF SumFunction, SumFunctionOnSet, FoldFunctionOnSet, MapThenFoldSet, SumOf, IsSum, Added, Pick

LEMMA SumStep ==
    ASSUME NEW S, IsFiniteSet(S), NEW g, NEW s \in SUBSET S
    PROVE  SumOf(g, S)[s] = Added(g, SumOf(g, S), s)
<1>1. IsSum(SumOf(g, S), g, S)
  BY SumDefined DEF SumOf
<1>2. QED
  BY <1>1 DEF IsSum

LEMMA SumOfNat ==
    ASSUME NEW S, IsFiniteSet(S), NEW g, \A x \in S : g[x] \in Nat
    PROVE  \A s \in SUBSET S : SumOf(g, S)[s] \in Nat
<1> DEFINE F == {s \in SUBSET S : SumOf(g, S)[s] \in Nat}
<1>1. ASSUME NEW s \in SUBSET S, \A x \in s : s \ {x} \in F PROVE s \in F
  <2>1. SumOf(g, S)[s] = Added(g, SumOf(g, S), s)
    BY SumStep
  <2>2. CASE s = {}
    BY <2>1, <2>2 DEF Added
  <2>3. CASE s # {}
    <3>1. Pick(s) \in s
      BY <2>3 DEF Pick
    <3>2. g[Pick(s)] \in Nat /\ SumOf(g, S)[s \ {Pick(s)}] \in Nat
      BY <1>1, <3>1
    <3>3. QED
      BY <2>1, <2>3, <3>2 DEF Added
  <2>4. QED
    BY <2>2, <2>3
<1>2. \A s \in SUBSET S : s \in F
  <2> HIDE DEF F
  <2>1. QED
    BY <1>1, SubsetInduction
<1>3. QED
  BY <1>2

\* Any member can be taken out first.
LEMMA SumOfRemove ==
    ASSUME NEW S, IsFiniteSet(S), NEW g, \A x \in S : g[x] \in Nat,
           NEW set \in SUBSET S, NEW member \in set
    PROVE  SumOf(g, S)[set] = g[member] + SumOf(g, S)[set \ {member}]
<1> DEFINE sum == SumOf(g, S)
           F == {s \in SUBSET S : \A x \in s : sum[s] = g[x] + sum[s \ {x}]}
<1>1. \A s \in SUBSET S : sum[s] \in Nat /\ sum[s] = Added(g, sum, s)
  BY SumOfNat, SumStep
<1> HIDE DEF sum
<1>2. ASSUME NEW s \in SUBSET S, \A x \in s : s \ {x} \in F PROVE s \in F
  <2>1. SUFFICES ASSUME NEW x \in s PROVE sum[s] = g[x] + sum[s \ {x}]
    OBVIOUS
  <2> DEFINE p == Pick(s)
  <2>2. p \in s /\ sum[s] = g[p] + sum[s \ {p}]
    BY <1>1 DEF Pick, Added
  <2> HIDE DEF p
  <2>3. CASE x = p
    BY <2>2, <2>3
  <2>4. CASE x # p
    <3> DEFINE rest == sum[s \ {x, p}]
    <3>1. (s \ {p}) \ {x} = s \ {x, p} /\ (s \ {x}) \ {p} = s \ {x, p}
      OBVIOUS
    <3>2. s \ {p} \in F /\ s \ {x} \in F /\ x \in s \ {p} /\ p \in s \ {x}
      BY <1>2, <2>2, <2>4
    <3>3. sum[s \ {p}] = g[x] + rest /\ sum[s \ {x}] = g[p] + rest
      BY <3>1, <3>2
    <3>4. g[x] \in Nat /\ g[p] \in Nat /\ rest \in Nat
      BY <1>1, <2>2
    <3>5. QED
      BY <2>2, <3>3, <3>4
  <2>5. QED
    BY <2>3, <2>4
<1>3. set \in F
  <2> HIDE DEF F
  <2>1. QED
    BY <1>2, SubsetInduction
<1>4. sum[set] = g[member] + sum[set \ {member}]
  BY <1>3
<1>5. QED
  BY <1>4 DEF sum

\* A sum only depends on what it adds.
LEMMA SumOfSame ==
    ASSUME NEW S, IsFiniteSet(S), NEW g, NEW h
    PROVE  \A s \in SUBSET S : (\A x \in s : g[x] = h[x]) => SumOf(g, S)[s] = SumOf(h, S)[s]
<1> DEFINE F == {s \in SUBSET S : (\A x \in s : g[x] = h[x]) =>
                                    SumOf(g, S)[s] = SumOf(h, S)[s]}
<1>1. ASSUME NEW s \in SUBSET S, \A x \in s : s \ {x} \in F PROVE s \in F
  <2>1. SUFFICES ASSUME \A x \in s : g[x] = h[x] PROVE SumOf(g, S)[s] = SumOf(h, S)[s]
    OBVIOUS
  <2>2. /\ SumOf(g, S)[s] = Added(g, SumOf(g, S), s)
        /\ SumOf(h, S)[s] = Added(h, SumOf(h, S), s)
    BY SumStep
  <2>3. CASE s = {}
    BY <2>2, <2>3 DEF Added
  <2>4. CASE s # {}
    <3>1. Pick(s) \in s
      BY <2>4 DEF Pick
    <3>2. g[Pick(s)] = h[Pick(s)] /\ SumOf(g, S)[s \ {Pick(s)}] = SumOf(h, S)[s \ {Pick(s)}]
      BY <1>1, <2>1, <3>1
    <3>3. QED
      BY <2>2, <2>4, <3>2 DEF Added
  <2>5. QED
    BY <2>3, <2>4
<1>2. \A s \in SUBSET S : s \in F
  <2> HIDE DEF F
  <2>1. QED
    BY <1>1, SubsetInduction
<1>3. QED
  BY <1>2

LEMMA SumNat ==
    ASSUME NEW S, IsFiniteSet(S), NEW g \in [S -> Nat]
    PROVE  SumFunction(g) \in Nat
<1>1. SumFunction(g) = SumOf(g, S)[S]
  BY SumIs
<1>2. \A x \in S : g[x] \in Nat
  OBVIOUS
<1>3. QED
  BY <1>1, <1>2, SumOfNat

\* What is left when one member is taken out.
LEMMA SumSplit ==
    ASSUME NEW S, IsFiniteSet(S), NEW g \in [S -> Nat], NEW x \in S
    PROVE  /\ SumFunction(g) = g[x] + SumOf(g, S)[S \ {x}]
           /\ SumOf(g, S)[S \ {x}] \in Nat
<1>1. SumFunction(g) = SumOf(g, S)[S]
  BY SumIs
<1>2. \A y \in S : g[y] \in Nat
  OBVIOUS
<1>3. SumOf(g, S)[S] = g[x] + SumOf(g, S)[S \ {x}]
  BY <1>2, SumOfRemove
<1>4. SumOf(g, S)[S \ {x}] \in Nat
  BY <1>2, SumOfNat
<1>5. QED
  BY <1>1, <1>3, <1>4

LEMMA SumExcept ==
    ASSUME NEW S, IsFiniteSet(S), NEW g \in [S -> Nat], NEW h \in [S -> Nat], NEW x \in S,
           \A y \in S \ {x} : h[y] = g[y]
    PROVE  SumFunction(h) = SumFunction(g) - g[x] + h[x]
<1>1. SumOf(h, S)[S \ {x}] = SumOf(g, S)[S \ {x}]
  BY SumOfSame
<1>2. /\ SumFunction(g) = g[x] + SumOf(g, S)[S \ {x}]
      /\ SumFunction(h) = h[x] + SumOf(h, S)[S \ {x}]
      /\ SumOf(g, S)[S \ {x}] \in Nat /\ g[x] \in Nat /\ h[x] \in Nat
  BY SumSplit
<1>3. QED
  BY <1>1, <1>2

LEMMA SumIncrement ==
    ASSUME NEW S, IsFiniteSet(S), NEW x \in S
    PROVE  \A g, h \in [S -> Nat] :
             (h[x] = g[x] + 1 /\ \A y \in S \ {x} : h[y] = g[y]) =>
               SumFunction(h) = SumFunction(g) + 1
<1> SUFFICES ASSUME NEW g \in [S -> Nat], NEW h \in [S -> Nat],
                    h[x] = g[x] + 1, \A y \in S \ {x} : h[y] = g[y]
             PROVE  SumFunction(h) = SumFunction(g) + 1
  OBVIOUS
<1>1. SumFunction(h) = SumFunction(g) - g[x] + h[x]
  BY SumExcept
<1>2. SumFunction(g) \in Nat /\ g[x] \in Nat
  BY SumNat
<1>3. QED
  BY <1>1, <1>2

LEMMA SumBounds ==
    ASSUME NEW S, IsFiniteSet(S), NEW g \in [S -> Nat], NEW x \in S
    PROVE  g[x] <= SumFunction(g)
<1>1. /\ SumFunction(g) = g[x] + SumOf(g, S)[S \ {x}]
      /\ SumOf(g, S)[S \ {x}] \in Nat /\ g[x] \in Nat
  BY SumSplit
<1>2. QED
  BY <1>1

LEMMA SumPlus ==
    ASSUME NEW S, IsFiniteSet(S), NEW g \in [S -> Nat], NEW h \in [S -> Nat],
           NEW k \in [S -> Nat], \A x \in S : k[x] = g[x] + h[x]
    PROVE  SumFunction(k) = SumFunction(g) + SumFunction(h)
<1> DEFINE G == SumOf(g, S)
           H == SumOf(h, S)
           K == SumOf(k, S)
           F == {s \in SUBSET S : K[s] = G[s] + H[s]}
<1>1. /\ \A s \in SUBSET S : G[s] = Added(g, G, s) /\ H[s] = Added(h, H, s) /\ K[s] = Added(k, K, s)
      /\ \A s \in SUBSET S : G[s] \in Nat /\ H[s] \in Nat /\ K[s] \in Nat
  <2>1. \A s \in SUBSET S : G[s] = Added(g, G, s) /\ H[s] = Added(h, H, s) /\ K[s] = Added(k, K, s)
    BY SumStep
  <2> \A x \in S : g[x] \in Nat /\ h[x] \in Nat /\ k[x] \in Nat
    OBVIOUS
  <2>2. \A s \in SUBSET S : G[s] \in Nat
    BY SumOfNat
  <2>3. \A s \in SUBSET S : H[s] \in Nat
    BY SumOfNat
  <2>4. \A s \in SUBSET S : K[s] \in Nat
    BY SumOfNat
  <2>5. QED
    BY <2>1, <2>2, <2>3, <2>4
<1>2. SumFunction(g) = G[S] /\ SumFunction(h) = H[S] /\ SumFunction(k) = K[S]
  BY SumIs
<1> HIDE DEF G, H, K
<1>3. ASSUME NEW s \in SUBSET S, \A x \in s : s \ {x} \in F PROVE s \in F
  <2>1. CASE s = {}
    <3>1. G[s] = 0 /\ H[s] = 0 /\ K[s] = 0
      BY <1>1, <2>1 DEF Added
    <3>2. QED
      BY <3>1
  <2>2. CASE s # {}
    <3>1. Pick(s) \in s /\ s \ {Pick(s)} \in F
      BY <1>3, <2>2 DEF Pick
    <3> DEFINE t == s \ {Pick(s)}
               p == Pick(s)
    <3>2. G[s] = g[p] + G[t] /\ H[s] = h[p] + H[t] /\ K[s] = k[p] + K[t]
      BY <1>1, <2>2 DEF Added
    <3>3. K[t] = G[t] + H[t] /\ k[p] = g[p] + h[p] /\ p \in S /\ t \in SUBSET S
      BY <3>1
    <3>4. g[p] \in Nat /\ h[p] \in Nat /\ G[t] \in Nat /\ H[t] \in Nat
      BY <1>1, <3>3
    <3> HIDE DEF t, p
    <3>5. QED
      BY <3>2, <3>3, <3>4
  <2>3. QED
    BY <2>1, <2>2
<1>4. \A s \in SUBSET S : s \in F
  <2> HIDE DEF F
  <2>1. QED
    BY <1>3, SubsetInduction
<1>5. QED
  BY <1>2, <1>4

LEMMA SumZero ==
    ASSUME NEW S, IsFiniteSet(S), NEW g \in [S -> Nat], \A x \in S : g[x] = 0
    PROVE  SumFunction(g) = 0
<1>1. SumFunction(g) = SumFunction(g) + SumFunction(g)
  BY SumPlus
<1>2. SumFunction(g) \in Nat
  BY SumNat
<1>3. \A n \in Nat : n = n + n => n = 0
  OBVIOUS
<1>4. QED
  BY <1>1, <1>2, <1>3

-----------------------------------------------------------------------------
(***************************************************************************)
(* The counter of an account is the sum over its routes, and the number    *)
(* that an import will add to it the sum over what it will insert.         *)
(***************************************************************************)

\* How often an import will insert a title, and that for every title.
Count(r, t) == Cardinality({k \in DOMAIN r.adds : r.adds[k] = t})
Counts(r) == [t \in Titles |-> Count(r, t)]

DataType ==
    /\ routes \in [Users -> [Titles -> Nat]]
    /\ routesCount \in [Users -> Nat]
    /\ excused \subseteq Titles

CountsAgree == \A u \in Users : routesCount[u] = SumFunction(routes[u])
ImportsCounted == \A w \in Workers : req[w].imported = SumFunction(Counts(req[w]))

CountInv == DataType /\ CountsAgree /\ ImportsCounted

LEMMA CountNat ==
    ASSUME NEW r, r.adds \in Seq(Titles), NEW t
    PROVE  /\ IsFiniteSet({k \in DOMAIN r.adds : r.adds[k] = t})
           /\ Count(r, t) \in Nat
<1>1. DOMAIN r.adds = 1..Len(r.adds) /\ Len(r.adds) \in Nat
  OBVIOUS
<1>2. IsFiniteSet(DOMAIN r.adds)
  BY <1>1, FS_Interval
<1>3. {k \in DOMAIN r.adds : r.adds[k] = t} \in SUBSET DOMAIN r.adds
  OBVIOUS
<1>4. QED
  BY <1>2, <1>3, FS_Subset, FS_CardinalityType DEF Count

LEMMA CountsNat ==
    ASSUME NEW r, r.adds \in Seq(Titles)
    PROVE  Counts(r) \in [Titles -> Nat]
BY CountNat DEF Counts

LEMMA CountEmpty ==
    ASSUME NEW r, r.adds = <<>>
    PROVE  /\ \A t : Count(r, t) = 0
           /\ SumFunction(Counts(r)) = 0
<1>1. ASSUME NEW t PROVE Count(r, t) = 0
  <2>1. {k \in DOMAIN r.adds : r.adds[k] = t} = {}
    OBVIOUS
  <2>2. QED
    BY <2>1, FS_EmptySet DEF Count
<1>2. Counts(r) \in [Titles -> Nat] /\ \A t \in Titles : Counts(r)[t] = 0
  BY <1>1 DEF Counts
<1>3. QED
  BY <1>1, <1>2, SumZero, UniquenessAssumption

LEMMA CountAppend ==
    ASSUME NEW r, r.adds \in Seq(Titles), NEW q, NEW x \in Titles,
           q.adds = Append(r.adds, x)
    PROVE  /\ \A t \in Titles : Count(q, t) = Count(r, t) + (IF t = x THEN 1 ELSE 0)
           /\ SumFunction(Counts(q)) = SumFunction(Counts(r)) + 1
<1> DEFINE n == Len(r.adds) + 1
<1>1. /\ DOMAIN q.adds = (DOMAIN r.adds) \cup {n} /\ n \notin DOMAIN r.adds
      /\ q.adds[n] = x /\ \A k \in DOMAIN r.adds : q.adds[k] = r.adds[k]
      /\ q.adds \in Seq(Titles)
  OBVIOUS
<1>2. ASSUME NEW t \in Titles
      PROVE  Count(q, t) = Count(r, t) + (IF t = x THEN 1 ELSE 0)
  <2> DEFINE old == {k \in DOMAIN r.adds : r.adds[k] = t}
             new == {k \in DOMAIN q.adds : q.adds[k] = t}
  <2>1. IsFiniteSet(old) /\ Count(r, t) = Cardinality(old) /\ Cardinality(old) \in Nat
    BY CountNat DEF Count
  <2>2. Count(q, t) = Cardinality(new)
    BY DEF Count
  <2>3. IF t = x THEN new = old \cup {n} /\ n \notin old ELSE new = old
    BY <1>1
  <2> HIDE DEF old, new
  <2>4. QED
    BY <2>1, <2>2, <2>3, FS_AddElement
<1>3. Counts(q) \in [Titles -> Nat] /\ Counts(r) \in [Titles -> Nat]
  BY <1>1, CountsNat
<1>4. /\ \A t \in Titles \ {x} : Counts(q)[t] = Counts(r)[t]
      /\ Counts(q)[x] = Counts(r)[x] + 1
  <2>1. ASSUME NEW t \in Titles \ {x} PROVE Counts(q)[t] = Counts(r)[t]
    <3>1. Count(q, t) = Count(r, t) + 0 /\ Count(r, t) \in Nat
      BY <1>2, CountNat
    <3>2. QED
      BY <3>1 DEF Counts
  <2>2. Counts(q)[x] = Counts(r)[x] + 1
    BY <1>2 DEF Counts
  <2>3. QED
    BY <2>1, <2>2
<1>5. SumFunction(Counts(q)) = SumFunction(Counts(r)) + 1
  <2>1. \A g, h \in [Titles -> Nat] :
          (h[x] = g[x] + 1 /\ \A y \in Titles \ {x} : h[y] = g[y]) =>
            SumFunction(h) = SumFunction(g) + 1
    BY SumIncrement, UniquenessAssumption, Zenon
  <2>2. QED
    BY <1>3, <1>4, <2>1, Zenon
<1>6. QED
  BY <1>2, <1>5

\* A step of w that begins, ends or goes on, and adds nothing to an import.
OthersSame(w) == \A v \in Workers \ {w} : req'[v] = req[v]
Reset(w) == req'[w].adds = <<>> /\ req'[w].imported = 0
SameAdds(w) == req'[w].adds = req[w].adds /\ req'[w].imported = req[w].imported

LEMMA NothingAdded ==
    ASSUME ImportsCounted, NEW w \in Workers, OthersSame(w), Reset(w) \/ SameAdds(w)
    PROVE  ImportsCounted'
<1>1. ASSUME NEW v \in Workers PROVE req'[v].imported = SumFunction(Counts(req'[v]))
  <2>1. CASE v = w /\ Reset(w)
    BY <2>1, CountEmpty DEF Reset
  <2>2. CASE ~(v = w /\ Reset(w))
    <3>1. req'[v].adds = req[v].adds /\ req'[v].imported = req[v].imported
      BY <2>2 DEF OthersSame, SameAdds
    <3>2. Counts(req'[v]) = Counts(req[v])
      BY <3>1 DEF Counts, Count
    <3>3. QED
      BY <3>1, <3>2 DEF ImportsCounted
  <2>3. QED
    BY <2>1, <2>2
<1>2. QED
  BY <1>1 DEF ImportsCounted, Counts, Count

LEMMA FinishResets ==
    ASSUME AccountsInv, NEW w \in Workers, Finish(w)
    PROVE  OthersSame(w) /\ Reset(w) /\ ~Importing(w)'
BY ReqIs DEF Finish, OthersSame, Reset, IdleRequest, Importing

LEMMA BeginResets ==
    ASSUME AccountsInv, NEW w \in Workers, Begin(w)
    PROVE  /\ OthersSame(w) /\ Reset(w)
           /\ (\A batch \in Batches : ~ImportBegin(w, batch)) => ~Importing(w)'
<1>1. req \in [Workers -> Request] /\ IdleRequest \in Request
      /\ IdleRequest.adds = <<>> /\ IdleRequest.imported = 0
  BY ReqIs, IdleShape DEF Shape, IdleRequest
<1>2. ASSUME NEW row \in Accounts, SignupBegin(w, row)
      PROVE  OthersSame(w) /\ Reset(w) /\ ~Importing(w)'
  BY <1>1, <1>2 DEF SignupBegin, OthersSame, Reset, Importing, Request
<1>3. ASSUME NEW u \in Users, NEW email \in Emails, ChangeEmailBegin(w, u, email)
      PROVE  OthersSame(w) /\ Reset(w) /\ ~Importing(w)'
  <2> DEFINE row == [account[u] EXCEPT !.email = email]
  <2>1. req' = [req EXCEPT ![w] = [IdleRequest EXCEPT
                  !.kind = "change_email", !.pc = "write", !.user = u, !.row = row]]
    BY <1>3 DEF ChangeEmailBegin
  <2> HIDE DEF row
  <2>2. QED
    BY <1>1, <2>1 DEF OthersSame, Reset, Importing, Request
<1>4. ASSUME NEW u \in Users, DeleteAccountBegin(w, u) \/ ReportBegin(w, u)
      PROVE  OthersSame(w) /\ Reset(w) /\ ~Importing(w)'
  <2>1. CASE DeleteAccountBegin(w, u)
    BY <1>1, <2>1 DEF DeleteAccountBegin, OthersSame, Reset, Importing, Request
  <2>2. CASE ReportBegin(w, u)
    BY <1>1, <2>2 DEF ReportBegin, OthersSame, Reset, Importing, Request
  <2>3. QED
    BY <1>4, <2>1, <2>2
<1>5. ASSUME NEW batch \in Batches, ImportBegin(w, batch) PROVE OthersSame(w) /\ Reset(w)
  <2>1. ASSUME NEW u,
               req' = [req EXCEPT ![w] = [IdleRequest EXCEPT
                         !.kind = "import", !.pc = "check", !.user = u, !.batch = batch]]
        PROVE  OthersSame(w) /\ Reset(w)
    BY <1>1, <2>1 DEF OthersSame, Reset, Request
  <2>2. ASSUME req' = [req EXCEPT ![w] = [IdleRequest EXCEPT
                         !.kind = "import", !.pc = "write", !.row = SystemRow,
                         !.batch = batch]]
        PROVE  OthersSame(w) /\ Reset(w)
    BY <1>1, <2>2 DEF OthersSame, Reset, Request
  <2>3. QED
    BY <1>5, <2>1, <2>2, Zenon DEF ImportBegin
<1>6. QED
  BY <1>2, <1>3, <1>4, <1>5 DEF Begin

\* What kind of request it is, is decided when it begins.
LEMMA StepAddsNothing ==
    ASSUME AccountsInv, NEW w \in Workers, Step(w) \/ Abort(w), ~ImportCheck(w)
    PROVE  /\ OthersSame(w) /\ (Reset(w) \/ SameAdds(w))
           /\ Importing(w)' => Importing(w) /\ SameAdds(w)
<1> DEFINE GoesOn == OthersSame(w) /\ SameAdds(w) /\ req'[w].kind = req[w].kind
<1>1. req \in [Workers -> Request] /\ req[w] \in Request
  BY ReqIs
<1>2. CASE Finish(w)
  BY <1>2, FinishResets
<1>3. CASE SignupCheckEmail(w) /\ ~Finish(w)
  <2>1. GoesOn
    BY <1>1, <1>3 DEF SignupCheckEmail, OthersSame, SameAdds, Request
  <2>2. QED
    BY <2>1 DEF Importing
<1>4. CASE InsertEmail(w) /\ ~Finish(w)
  <2>1. GoesOn
    BY <1>1, <1>4 DEF InsertEmail, OthersSame, SameAdds, Request
  <2>2. QED
    BY <2>1 DEF Importing
<1>4a. CASE ChangeEmailLock(w) /\ ~Finish(w)
  <2>1. GoesOn
    BY <1>1, <1>4a DEF ChangeEmailLock, OthersSame, SameAdds, Request
  <2>2. QED
    BY <2>1 DEF Importing
<1>5. CASE ChangeEmailWrite(w) /\ ~Finish(w)
  <2>1. GoesOn
    BY <1>1, <1>5 DEF ChangeEmailWrite, OthersSame, SameAdds, Request
  <2>2. QED
    BY <2>1 DEF Importing
<1>6. CASE DeleteAccountWrite(w) /\ ~Finish(w)
  <2>1. GoesOn
    BY <1>1, <1>6 DEF DeleteAccountWrite, OthersSame, SameAdds, Request
  <2>2. QED
    BY <2>1 DEF Importing
<1>7. CASE InsertName(w) /\ ~Finish(w)
  <2>1. ASSUME NEW u, NEW next, req' = [req EXCEPT ![w].pc = next, ![w].user = u]
        PROVE  GoesOn
    BY <1>1, <2>1 DEF OthersSame, SameAdds, Request
  <2> HIDE DEF GoesOn
  <2>2. \E u, next : req' = [req EXCEPT ![w].pc = next, ![w].user = u]
    BY <1>7, Zenon DEF InsertName
  <2>3. GoesOn
    BY <2>1, <2>2
  <2>4. QED
    BY <2>3 DEF GoesOn, Importing
<1>8. CASE ImportCount(w)
  <2>1. GoesOn
    BY <1>1, <1>8 DEF ImportCount, OthersSame, SameAdds, Request
  <2>2. QED
    BY <2>1 DEF Importing
<1>9. QED
  BY <1>2, <1>3, <1>4, <1>4a, <1>5, <1>6, <1>7, <1>8
     DEF Step, Abort, CommitAccount, ReportCommit, ImportCommit

\* One account's routes and its counter change together.
LEMMA RecountedStep ==
    ASSUME CountInv, NEW u \in Users, NEW h \in [Titles -> Nat], NEW n,
           routes' = [routes EXCEPT ![u] = h], routesCount' = [routesCount EXCEPT ![u] = n],
           n = SumFunction(h), excused' \subseteq Titles
    PROVE  DataType' /\ CountsAgree'
<1>1. n \in Nat
  BY SumNat, UniquenessAssumption
<1>2. DataType'
  BY <1>1 DEF CountInv, DataType
<1>3. \A v \in Users : /\ routes'[v] = IF v = u THEN h ELSE routes[v]
                       /\ routesCount'[v] = IF v = u THEN n ELSE routesCount[v]
  BY DEF CountInv, DataType
<1>4. QED
  BY <1>2, <1>3 DEF CountInv, CountsAgree

LEMMA SameCounts ==
    ASSUME CountInv, routes' = routes, routesCount' = routesCount, excused' \subseteq Titles
    PROVE  DataType' /\ CountsAgree'
BY DEF CountInv, DataType, CountsAgree

LEMMA CreateRouteCounts ==
    ASSUME CountInv, NEW u \in Users, NEW t \in Titles, CreateRoute(u, t)
    PROVE  CountInv'
<1> DEFINE h == [routes[u] EXCEPT ![t] = @ + 1]
<1>1. routes[u] \in [Titles -> Nat] /\ routesCount[u] = SumFunction(routes[u])
  BY DEF CountInv, DataType, CountsAgree
<1>2. /\ h \in [Titles -> Nat] /\ h[t] = routes[u][t] + 1
      /\ \A x \in Titles \ {t} : h[x] = routes[u][x]
      /\ routes[u][t] \in Nat
  BY <1>1
<1>3. /\ routes' = [routes EXCEPT ![u] = h]
      /\ routesCount' = [routesCount EXCEPT ![u] = routesCount[u] + 1]
      /\ req' = req /\ excused' \subseteq Titles
  BY DEF CreateRoute, CountInv, DataType
<1> HIDE DEF h
<1>4. SumFunction(h) = SumFunction(routes[u]) - routes[u][t] + h[t]
  BY <1>1, <1>2, SumExcept, UniquenessAssumption
<1>5. SumFunction(h) = routesCount[u] + 1
  BY <1>1, <1>2, <1>4, SumNat, UniquenessAssumption
<1>6. DataType' /\ CountsAgree'
  BY <1>2, <1>3, <1>5, RecountedStep
<1>7. QED
  BY <1>3, <1>6 DEF CountInv, ImportsCounted, Counts, Count

LEMMA DeleteRouteCounts ==
    ASSUME CountInv, NEW u \in Users, NEW t \in Titles, DeleteRoute(u, t)
    PROVE  CountInv'
<1> DEFINE h == [routes[u] EXCEPT ![t] = @ - 1]
<1>1. routes[u] \in [Titles -> Nat] /\ routesCount[u] = SumFunction(routes[u])
  BY DEF CountInv, DataType, CountsAgree
<1>2. routes[u][t] \in Nat /\ routes[u][t] - 1 \in Nat
  BY <1>1 DEF DeleteRoute
<1>3. /\ h \in [Titles -> Nat] /\ h[t] = routes[u][t] - 1
      /\ \A x \in Titles \ {t} : h[x] = routes[u][x]
  BY <1>1, <1>2
<1>4. /\ routes' = [routes EXCEPT ![u] = h]
      /\ routesCount' = [routesCount EXCEPT ![u] = routesCount[u] - 1]
      /\ req' = req /\ excused' \subseteq Titles
  BY DEF DeleteRoute, CountInv, DataType
<1> HIDE DEF h
<1>5. SumFunction(h) = SumFunction(routes[u]) - routes[u][t] + h[t]
  BY <1>1, <1>3, SumExcept, UniquenessAssumption
<1>6. SumFunction(h) = routesCount[u] - 1
  BY <1>1, <1>2, <1>3, <1>5, SumNat, UniquenessAssumption
<1>7. DataType' /\ CountsAgree'
  BY <1>3, <1>4, <1>6, RecountedStep
<1>8. QED
  BY <1>4, <1>7 DEF CountInv, ImportsCounted, Counts, Count

\* What an import does with the first title of its batch.
LEMMA ImportCheckAdds ==
    ASSUME AccountsInv, NEW w \in Workers, ImportCheck(w), ~Finish(w)
    PROVE  LET t == Head(req[w].batch) IN
           /\ OthersSame(w) /\ Importing(w) /\ Importing(w)'
           /\ t \in Titles /\ req[w].adds \in Seq(Titles)
           /\ Copies(t) = 0 => /\ req'[w].adds = Append(req[w].adds, t)
                               /\ req'[w].imported = req[w].imported + 1
           /\ Copies(t) # 0 => SameAdds(w)
<1> DEFINE t == Head(req[w].batch)
           adds == IF Copies(t) = 0 THEN Append(req[w].adds, t) ELSE req[w].adds
           imported == IF Copies(t) = 0 THEN req[w].imported + 1 ELSE req[w].imported
<1>1. /\ req \in [Workers -> Request] /\ req[w] \in Request
      /\ req[w].batch \in Seq(Titles) /\ req[w].batch # <<>> /\ req[w].kind = "import"
      /\ req[w].adds \in Seq(Titles)
  BY ReqIs DEF ImportCheck, At, Request
<1>2. t \in Titles
  BY <1>1
<1> HIDE DEF t
<1>3. req' = [req EXCEPT ![w].batch = Tail(@), ![w].adds = adds, ![w].imported = imported]
  BY DEF ImportCheck, t
<1> HIDE DEF adds, imported
<1>4. /\ OthersSame(w) /\ req'[w].kind = req[w].kind
      /\ req'[w].adds = adds /\ req'[w].imported = imported
  BY <1>1, <1>3 DEF OthersSame, Request
<1>5. QED
  BY <1>1, <1>2, <1>4 DEF adds, imported, t, Importing, SameAdds

LEMMA ImportCheckCounts ==
    ASSUME AccountsInv, CountInv, NEW w \in Workers, ImportCheck(w)
    PROVE  CountInv'
<1> DEFINE t == Head(req[w].batch)
<1>1. CASE Finish(w)
  <2>1. ImportsCounted'
    BY <1>1, FinishResets, NothingAdded DEF CountInv
  <2>2. t \in Titles
    BY ReqIs DEF ImportCheck, Request
  <2>3. routes' = routes /\ routesCount' = routesCount /\ excused' \subseteq excused \cup {t}
    BY DEF ImportCheck
  <2>4. DataType' /\ CountsAgree'
    BY <2>2, <2>3, SameCounts DEF CountInv, DataType
  <2>5. QED
    BY <2>1, <2>4 DEF CountInv
<1>2. CASE ~Finish(w)
  <2>1. /\ OthersSame(w) /\ t \in Titles /\ req[w].adds \in Seq(Titles)
        /\ Copies(t) = 0 => /\ req'[w].adds = Append(req[w].adds, t)
                            /\ req'[w].imported = req[w].imported + 1
        /\ Copies(t) # 0 => SameAdds(w)
    BY <1>2, ImportCheckAdds
  <2>2. routes' = routes /\ routesCount' = routesCount /\ excused' \subseteq excused \cup {t}
    BY DEF ImportCheck
  <2> HIDE DEF t
  <2>3. DataType' /\ CountsAgree'
    BY <2>1, <2>2, SameCounts DEF CountInv, DataType
  <2>4. CASE Copies(t) # 0
    BY <2>1, <2>3, <2>4, NothingAdded DEF CountInv
  <2>5. CASE Copies(t) = 0
    <3>1. SumFunction(Counts(req'[w])) = SumFunction(Counts(req[w])) + 1
      BY <2>1, <2>5, CountAppend
    <3>2. ASSUME NEW v \in Workers PROVE req'[v].imported = SumFunction(Counts(req'[v]))
      BY <2>1, <2>5, <3>1 DEF CountInv, ImportsCounted, OthersSame
    <3>3. ImportsCounted'
      BY <3>2 DEF ImportsCounted, Counts, Count
    <3>4. QED
      BY <2>3, <3>3 DEF CountInv
  <2>6. QED
    BY <2>4, <2>5
<1>3. QED
  BY <1>1, <1>2

LEMMA CommitAccountCounts ==
    ASSUME AccountsInv, CountInv, NEW w \in Workers, CommitAccount(w)
    PROVE  CountInv'
<1> DEFINE u == req[w].user
           h == [t \in Titles |-> 0]
<1>1. ImportsCounted'
  BY FinishResets, NothingAdded DEF CountInv, CommitAccount
<1>2. excused' \subseteq Titles
  BY DEF CommitAccount, CountInv, DataType
<1>3. CASE req[w].kind # "delete_account"
  <2>1. routes' = routes /\ routesCount' = routesCount
    BY <1>3 DEF CommitAccount
  <2>2. QED
    BY <1>1, <1>2, <2>1, SameCounts DEF CountInv
<1>4. CASE req[w].kind = "delete_account"
  <2>1. routes' = [routes EXCEPT ![u] = h] /\ routesCount' = [routesCount EXCEPT ![u] = 0]
    BY <1>4 DEF CommitAccount
  <2>2. u \in Users
    BY <1>4, ReqIs DEF Shape
  <2>3. h \in [Titles -> Nat] /\ \A t \in Titles : h[t] = 0
    OBVIOUS
  <2> HIDE DEF h
  <2>4. SumFunction(h) = 0
    BY <2>3, SumZero, UniquenessAssumption
  <2>5. DataType' /\ CountsAgree'
    BY <1>2, <2>1, <2>2, <2>3, <2>4, RecountedStep
  <2>6. QED
    BY <1>1, <2>5 DEF CountInv
<1>5. QED
  BY <1>3, <1>4

LEMMA ImportCommitCounts ==
    ASSUME AccountsInv, CountInv, NEW w \in Workers, ImportCommit(w)
    PROVE  CountInv'
<1> DEFINE u == req[w].user
           c == Counts(req[w])
           h == [t \in Titles |-> routes[u][t] + c[t]]
           n == routesCount[u] + req[w].imported
<1>1. ImportsCounted'
  BY FinishResets, NothingAdded DEF CountInv, ImportCommit
<1>2. excused' \subseteq Titles
  BY DEF ImportCommit, CountInv, DataType
<1>3. \/ routes' = routes /\ routesCount' = routesCount
      \/ routes' = [routes EXCEPT ![u] = h] /\ routesCount' = [routesCount EXCEPT ![u] = n]
  BY DEF ImportCommit, Counts, Count
<1>4. CASE routes' = routes /\ routesCount' = routesCount
  BY <1>1, <1>2, <1>4, SameCounts DEF CountInv
<1>5. CASE /\ routes' = [routes EXCEPT ![u] = h] /\ routesCount' = [routesCount EXCEPT ![u] = n]
           /\ u \in Users
  <2>1. req[w].adds \in Seq(Titles)
    BY ReqIs DEF Request
  <2>2. c \in [Titles -> Nat] /\ SumFunction(c) = req[w].imported
    BY <2>1, CountsNat DEF CountInv, ImportsCounted
  <2> HIDE DEF c
  <2>3. routes[u] \in [Titles -> Nat] /\ SumFunction(routes[u]) = routesCount[u]
    BY <1>5 DEF CountInv, DataType, CountsAgree
  <2>4. h \in [Titles -> Nat] /\ \A t \in Titles : h[t] = routes[u][t] + c[t]
    BY <2>2, <2>3
  <2> HIDE DEF h
  <2>5. SumFunction(h) = n
    BY <2>2, <2>3, <2>4, SumPlus, UniquenessAssumption
  <2>6. DataType' /\ CountsAgree'
    BY <1>2, <1>5, <2>4, <2>5, RecountedStep
  <2>7. QED
    BY <1>1, <2>6 DEF CountInv
<1>6. CASE /\ routes' = [routes EXCEPT ![u] = h] /\ routesCount' = [routesCount EXCEPT ![u] = n]
           /\ u \notin Users
  <2> HIDE DEF h
  <2>1. routes' = routes /\ routesCount' = routesCount
    BY <1>6 DEF CountInv, DataType
  <2>2. QED
    BY <1>1, <1>2, <2>1, SameCounts DEF CountInv
<1>7. QED
  BY <1>3, <1>4, <1>5, <1>6

LEMMA NextCounts == AccountsInv /\ CountInv /\ [Next]_vars => CountInv'
<1> SUFFICES ASSUME AccountsInv, CountInv, [Next]_vars PROVE CountInv'
  OBVIOUS
<1>1. ASSUME NEW w \in Workers, Begin(w) PROVE CountInv'
  <2>1. routes' = routes /\ routesCount' = routesCount
    BY <1>1, Zenon
       DEF Begin, SignupBegin, ChangeEmailBegin, DeleteAccountBegin, ReportBegin, ImportBegin
  <2>2. excused' = Titles \/ excused' = excused
    BY <1>1, Zenon
       DEF Begin, SignupBegin, ChangeEmailBegin, DeleteAccountBegin, ReportBegin, ImportBegin
  <2>3. DataType' /\ CountsAgree'
    BY <2>1, <2>2, SameCounts DEF CountInv, DataType
  <2>4. ImportsCounted'
    BY <1>1, BeginResets, NothingAdded DEF CountInv
  <2>5. QED
    BY <2>3, <2>4 DEF CountInv
<1>2. ASSUME NEW w \in Workers, Step(w) \/ Abort(w) PROVE CountInv'
  <2>1. CASE ImportCheck(w)
    BY <2>1, ImportCheckCounts
  <2>2. CASE CommitAccount(w)
    BY <2>2, CommitAccountCounts
  <2>3. CASE ImportCommit(w)
    BY <2>3, ImportCommitCounts
  <2>4. CASE ~(ImportCheck(w) \/ CommitAccount(w) \/ ImportCommit(w))
    <3>1. routes' = routes /\ routesCount' = routesCount /\ excused' = excused
      BY <1>2, <2>4, Zenon
         DEF Step, Abort, SignupCheckEmail, InsertEmail, InsertName,
           ChangeEmailLock, ChangeEmailWrite, DeleteAccountWrite,
             ReportCommit, ImportCount
    <3>2. DataType' /\ CountsAgree'
      BY <3>1, SameCounts DEF CountInv, DataType
    <3>3. ImportsCounted'
      BY <1>2, <2>4, StepAddsNothing, NothingAdded DEF CountInv
    <3>4. QED
      BY <3>2, <3>3 DEF CountInv
  <2>5. QED
    BY <2>1, <2>2, <2>3, <2>4
<1>3. CASE \E u \in Users, t \in Titles : CreateRoute(u, t) \/ DeleteRoute(u, t)
  BY <1>3, CreateRouteCounts, DeleteRouteCounts
<1>4. CASE UNCHANGED vars
  BY <1>4 DEF vars, CountInv, DataType, CountsAgree, ImportsCounted, Counts, Count
<1>5. QED
  BY <1>1, <1>2, <1>3, <1>4 DEF Next

LEMMA InitCounts == Init => CountInv
<1> SUFFICES ASSUME Init PROVE CountInv
  OBVIOUS
<1> DEFINE h == [t \in Titles |-> 0]
<1>1. h \in [Titles -> Nat] /\ \A t \in Titles : h[t] = 0
  OBVIOUS
<1>2. \A u \in Users : routes[u] = h /\ routesCount[u] = 0
  BY DEF Init
<1>3. DataType
  BY DEF Init, DataType
<1> HIDE DEF h
<1>4. SumFunction(h) = 0
  BY <1>1, SumZero, UniquenessAssumption
<1>5. ASSUME NEW w \in Workers PROVE req[w].imported = SumFunction(Counts(req[w]))
  <2>1. req[w].adds = <<>> /\ req[w].imported = 0
    BY DEF Init, IdleRequest
  <2>2. QED
    BY <2>1, CountEmpty
<1>6. QED
  BY <1>2, <1>3, <1>4, <1>5 DEF CountInv, CountsAgree, ImportsCounted

\* The state of Uniqueness has its shape: no counter of reports or routes falls
\* below zero, also when an account goes away under a request.
THEOREM TypeCorrect == Spec => []TypeOK
<1>1. AccountsInv /\ ReportsInv /\ CountInv => TypeOK
  BY DEF AccountsInv, RequestsType, ReportsInv, CountInv, DataType, TypeOK
<1>2. Init => AccountsInv /\ ReportsInv /\ CountInv
  BY InitAccounts, InitReports, InitCounts
<1>3. AccountsInv /\ ReportsInv /\ CountInv /\ [Next]_vars => (AccountsInv /\ ReportsInv /\ CountInv)'
  BY NextAccounts, NextReports, NextCounts
<1>4. QED
  BY <1>1, <1>2, <1>3, PTL DEF Spec

\* users.routes_count agrees with the routes of every account, through imports
\* that skip, fail half way or lose their author, and through deletions.
THEOREM ImportCountStaysExact == Spec => []ImportCountsAgree
<1>1. CountInv => ImportCountsAgree
  BY DEF CountInv, CountsAgree, ImportCountsAgree
<1>2. Init => AccountsInv /\ CountInv
  BY InitAccounts, InitCounts
<1>3. AccountsInv /\ CountInv /\ [Next]_vars => (AccountsInv /\ CountInv)'
  BY NextAccounts, NextCounts
<1>4. QED
  BY <1>1, <1>2, <1>3, PTL DEF Spec

-----------------------------------------------------------------------------
(***************************************************************************)
(* Titles stored once.  While a title is not excused, nobody but one       *)
(* import can add it, and that import only if it is not stored yet.        *)
(***************************************************************************)

Once(t) ==
    /\ Copies(t) <= 1
    /\ \A v, w \in Workers : Importing(v) /\ Importing(w) => v = w
    /\ \A w \in Workers : Importing(w) =>
         /\ Count(req[w], t) <= 1
         /\ Count(req[w], t) = 1 => Copies(t) = 0

OnceInv == \A t \in Titles \ excused : Once(t)

\* The copies of a title, by account.
Stored(t) == [u \in Users |-> routes[u][t]]

LEMMA StoredNat ==
    ASSUME DataType, NEW t \in Titles
    PROVE  /\ Stored(t) \in [Users -> Nat]
           /\ Copies(t) = SumFunction(Stored(t)) /\ Copies(t) \in Nat
<1>1. Stored(t) \in [Users -> Nat]
  BY DEF DataType, Stored
<1>2. Copies(t) = SumFunction(Stored(t))
  BY DEF Copies, Stored
<1>3. QED
  BY <1>1, <1>2, SumNat, UniquenessAssumption

LEMMA StoredNatNext ==
    ASSUME DataType', NEW t \in Titles
    PROVE  /\ Stored(t)' \in [Users -> Nat]
           /\ Copies(t)' = SumFunction(Stored(t)') /\ Copies(t)' \in Nat
<1>1. Stored(t)' \in [Users -> Nat]
  BY DEF DataType, Stored
<1>2. Copies(t)' = SumFunction(Stored(t)')
  BY DEF Copies, Stored
<1>3. QED
  BY <1>1, <1>2, SumNat, UniquenessAssumption

\* What a change of one account's routes does to the copies of a title.
LEMMA CopiesStep ==
    ASSUME DataType, DataType', NEW t \in Titles, NEW u \in Users,
           \A v \in Users \ {u} : routes'[v] = routes[v]
    PROVE  Copies(t)' = Copies(t) - routes[u][t] + routes'[u][t]
<1>1. Stored(t) \in [Users -> Nat] /\ Copies(t) = SumFunction(Stored(t))
  BY StoredNat
<1>2. Stored(t)' \in [Users -> Nat] /\ Copies(t)' = SumFunction(Stored(t)')
  BY StoredNatNext
<1>3. /\ \A v \in Users \ {u} : Stored(t)'[v] = Stored(t)[v]
      /\ Stored(t)[u] = routes[u][t] /\ Stored(t)'[u] = routes'[u][t]
  BY DEF Stored
<1>4. SumFunction(Stored(t)') = SumFunction(Stored(t)) - Stored(t)[u] + Stored(t)'[u]
  BY <1>1, <1>2, <1>3, SumExcept, UniquenessAssumption
<1>5. QED
  BY <1>1, <1>2, <1>3, <1>4

LEMMA CopiesSame ==
    ASSUME routes' = routes, NEW t
    PROVE  Copies(t)' = Copies(t)
BY DEF Copies

\* A step that adds nothing to an import and no copy to a title.
LEMMA NothingStored ==
    ASSUME DataType, DataType', OnceInv, NEW w \in Workers, OthersSame(w),
           Importing(w)' => Importing(w) /\ SameAdds(w),
           excused \subseteq excused',
           \A t \in Titles : Copies(t)' <= Copies(t)
    PROVE  OnceInv'
<1>1. ASSUME NEW t \in Titles \ excused' PROVE Once(t)'
  <2>1. Once(t) /\ Copies(t) \in Nat /\ Copies(t)' \in Nat /\ Copies(t)' <= Copies(t)
    <3>1. Copies(t) \in Nat
      BY StoredNat
    <3>2. Copies(t)' \in Nat
      BY StoredNatNext
    <3>3. QED
      BY <3>1, <3>2 DEF OnceInv
  <2>2. \A v \in Workers : Importing(v)' => Importing(v) /\ Count(req[v], t)' = Count(req[v], t)
    BY DEF OthersSame, SameAdds, Importing, Count
  <2>3. \A v, x \in Workers : Importing(v)' /\ Importing(x)' => v = x
    BY <2>1, <2>2 DEF Once
  <2>4. Copies(t)' <= 1
    BY <2>1 DEF Once
  <2>5. ASSUME NEW v \in Workers, Importing(v)'
        PROVE  Count(req[v], t)' <= 1 /\ (Count(req[v], t)' = 1 => Copies(t)' = 0)
    BY <2>1, <2>2, <2>5 DEF Once
  <2>6. QED
    BY <2>3, <2>4, <2>5 DEF Once
<1>2. QED
  BY <1>1 DEF OnceInv

LEMMA CreateRouteOnce ==
    ASSUME DataType, DataType', OnceInv, NEW u \in Users, NEW x \in Titles, CreateRoute(u, x)
    PROVE  OnceInv'
<1>1. /\ routes' = [routes EXCEPT ![u][x] = @ + 1] /\ req' = req
      /\ excused' = IF Copies(x) > 0 \/ (\E w \in Workers : Importing(w))
                    THEN excused \cup {x} ELSE excused
      /\ routes \in [Users -> [Titles -> Nat]]
  BY DEF CreateRoute, DataType
<1>2. ASSUME NEW t \in Titles \ excused' PROVE Once(t)'
  <2>1. Once(t) /\ Copies(t) \in Nat /\ Copies(t)' \in Nat
    BY <1>1, StoredNat, StoredNatNext DEF OnceInv
  <2>2. Copies(t)' = Copies(t) - routes[u][t] + routes'[u][t] /\ routes[u][t] \in Nat
    BY <1>1, CopiesStep
  <2>3. \A v \in Workers : Importing(v)' = Importing(v) /\ Count(req[v], t)' = Count(req[v], t)
    BY <1>1 DEF Importing, Count
  <2>4. CASE t = x
    <3>1. Copies(t) = 0 /\ \A v \in Workers : ~Importing(v)
      BY <1>1, <1>2, <2>1, <2>4
    <3>2. Copies(t)' = 1
      BY <1>1, <2>2, <2>4, <3>1
    <3>3. QED
      BY <2>3, <3>1, <3>2 DEF Once
  <2>5. CASE t # x
    <3>1. Copies(t)' = Copies(t)
      BY <1>1, <2>1, <2>2, <2>5
    <3>2. QED
      BY <2>1, <2>3, <3>1 DEF Once
  <2>6. QED
    BY <2>4, <2>5
<1>3. QED
  BY <1>2 DEF OnceInv

LEMMA DeleteRouteOnce ==
    ASSUME DataType, DataType', OnceInv, NEW u \in Users, NEW x \in Titles, DeleteRoute(u, x)
    PROVE  OnceInv'
<1>1. /\ routes' = [routes EXCEPT ![u][x] = @ - 1] /\ req' = req /\ excused' = excused
      /\ routes \in [Users -> [Titles -> Nat]]
  BY DEF DeleteRoute, DataType
<1>2. ASSUME NEW t \in Titles \ excused' PROVE Once(t)'
  <2>1. Once(t) /\ Copies(t) \in Nat /\ Copies(t)' \in Nat
    BY <1>1, StoredNat, StoredNatNext DEF OnceInv
  <2>2. /\ Copies(t)' = Copies(t) - routes[u][t] + routes'[u][t]
        /\ routes[u][t] \in Nat /\ routes'[u][t] \in {routes[u][t], routes[u][t] - 1}
    BY <1>1, CopiesStep
  <2>3. \A v \in Workers : Importing(v)' = Importing(v) /\ Count(req[v], t)' = Count(req[v], t)
    BY <1>1 DEF Importing, Count
  <2>4. Copies(t)' <= Copies(t)
    BY <2>1, <2>2
  <2>5. QED
    BY <2>1, <2>3, <2>4 DEF Once
<1>3. QED
  BY <1>2 DEF OnceInv

LEMMA CommitAccountOnce ==
    ASSUME AccountsInv, DataType, DataType', OnceInv, NEW w \in Workers, CommitAccount(w)
    PROVE  OnceInv'
<1> DEFINE u == req[w].user
<1>1. OthersSame(w) /\ ~Importing(w)' /\ excused' = excused
  BY FinishResets DEF CommitAccount
<1>2. routes' = routes \/ (u \in Users /\ routes' = [routes EXCEPT ![u] = [t \in Titles |-> 0]])
  BY ReqIs DEF CommitAccount, Shape
<1>3. ASSUME NEW t \in Titles PROVE Copies(t)' <= Copies(t)
  <2>1. CASE routes' = routes
    BY <2>1, CopiesSame, StoredNat
  <2>2. CASE u \in Users /\ routes' = [routes EXCEPT ![u] = [x \in Titles |-> 0]]
    <3>1. /\ \A v \in Users \ {u} : routes'[v] = routes[v]
          /\ routes'[u][t] = 0 /\ routes[u][t] \in Nat
      BY <2>2 DEF DataType
    <3>2. Copies(t)' = Copies(t) - routes[u][t] + routes'[u][t]
      BY <2>2, <3>1, CopiesStep
    <3>3. QED
      BY <3>1, <3>2, StoredNat
  <2>3. QED
    BY <1>2, <2>1, <2>2
<1>4. QED
  BY <1>1, <1>3, NothingStored

\* The first copies of what the import found missing.
LEMMA ImportCommitOnce ==
    ASSUME AccountsInv, DataType, DataType', OnceInv, NEW w \in Workers, ImportCommit(w)
    PROVE  OnceInv'
<1> DEFINE u == req[w].user
           h == [t \in Titles |-> routes[u][t] + Count(req[w], t)]
<1>1. OthersSame(w) /\ ~Importing(w)' /\ excused' = excused /\ Importing(w)
  BY FinishResets DEF ImportCommit, At, Importing
<1>2. \/ routes' = routes
      \/ routes' = [routes EXCEPT ![u] = h]
  BY DEF ImportCommit, Count
<1>3. req[w].adds \in Seq(Titles)
  BY ReqIs DEF Request
<1>4. ASSUME NEW t \in Titles \ excused' PROVE Once(t)'
  <2>1. Once(t) /\ Copies(t) \in Nat /\ Copies(t)' \in Nat /\ Count(req[w], t) \in Nat
    BY <1>1, <1>3, StoredNat, StoredNatNext, CountNat DEF OnceInv
  <2>2. Copies(t)' = Copies(t) \/ Copies(t)' = Copies(t) + Count(req[w], t)
    <3>1. CASE routes' = routes
      BY <3>1, CopiesSame
    <3>2. CASE routes' = [routes EXCEPT ![u] = h] /\ u \in Users
      <4>1. /\ \A v \in Users \ {u} : routes'[v] = routes[v]
            /\ routes'[u][t] = routes[u][t] + Count(req[w], t) /\ routes[u][t] \in Nat
        BY <3>2 DEF DataType
      <4>2. Copies(t)' = Copies(t) - routes[u][t] + routes'[u][t]
        BY <3>2, <4>1, CopiesStep
      <4>3. QED
        BY <2>1, <4>1, <4>2
    <3>3. CASE routes' = [routes EXCEPT ![u] = h] /\ u \notin Users
      <4> HIDE DEF h
      <4>1. routes' = routes
        BY <3>3 DEF DataType
      <4>2. QED
        BY <4>1, CopiesSame
    <3>4. QED
      BY <1>2, <3>1, <3>2, <3>3
  <2>3. Copies(t)' <= 1
    BY <1>1, <2>1, <2>2 DEF Once
  <2>4. \A v \in Workers : ~Importing(v)'
    BY <1>1, <2>1 DEF Once, OthersSame, Importing
  <2>5. QED
    BY <2>3, <2>4 DEF Once
<1>5. QED
  BY <1>4 DEF OnceInv

LEMMA ImportBeginOnce ==
    ASSUME AccountsInv, DataType, DataType', OnceInv, NEW w \in Workers,
           NEW batch \in Batches, ImportBegin(w, batch)
    PROVE  OnceInv'
<1>1. /\ routes' = routes
      /\ excused' = IF \E v \in Workers : Importing(v) THEN Titles ELSE excused
  BY Zenon DEF ImportBegin
<1>2. OthersSame(w) /\ Reset(w)
  BY BeginResets, Zenon DEF Begin
<1>3. ASSUME NEW t \in Titles \ excused' PROVE Once(t)'
  <2>1. excused' = excused /\ \A v \in Workers : ~Importing(v)
    BY <1>1, <1>3
  <2>2. Once(t) /\ Copies(t)' = Copies(t)
    BY <1>1, <1>3, <2>1, CopiesSame DEF OnceInv
  <2>3. \A v \in Workers : Importing(v)' => v = w
    BY <1>2, <2>1 DEF OthersSame, Importing
  <2>4. Count(req'[w], t) = 0
    BY <1>2, CountEmpty DEF Reset
  <2>5. Count(req[w], t)' = 0
    BY <2>4 DEF Count
  <2>6. QED
    BY <2>2, <2>3, <2>5 DEF Once
<1>4. QED
  BY <1>3 DEF OnceInv

LEMMA CountNone ==
    ASSUME NEW r, NEW t, t \notin {r.adds[k] : k \in DOMAIN r.adds}
    PROVE  Count(r, t) = 0
<1>1. {k \in DOMAIN r.adds : r.adds[k] = t} = {}
  OBVIOUS
<1>2. QED
  BY <1>1, FS_EmptySet DEF Count

\* It adds a title that is not stored, and a second time only with an excuse.
LEMMA ImportCheckOnce ==
    ASSUME AccountsInv, DataType, DataType', OnceInv, NEW w \in Workers, ImportCheck(w)
    PROVE  OnceInv'
<1> DEFINE x == Head(req[w].batch)
<1>1. /\ routes' = routes
      /\ excused' = IF x \in {req[w].adds[k] : k \in DOMAIN req[w].adds}
                    THEN excused \cup {x} ELSE excused
  BY DEF ImportCheck
<1>2. CASE Finish(w)
  <2>1. excused \subseteq excused' /\ \A t \in Titles : Copies(t)' <= Copies(t)
    BY <1>1, CopiesSame, StoredNat
  <2>2. OthersSame(w) /\ ~Importing(w)'
    BY <1>2, FinishResets
  <2>3. QED
    BY <2>1, <2>2, NothingStored
<1>3. CASE ~Finish(w)
  <2>1. /\ OthersSame(w) /\ Importing(w) /\ Importing(w)'
        /\ x \in Titles /\ req[w].adds \in Seq(Titles)
        /\ Copies(x) = 0 => req'[w].adds = Append(req[w].adds, x)
        /\ Copies(x) # 0 => SameAdds(w)
    BY <1>3, ImportCheckAdds
  <2> HIDE DEF x
  <2>2. ASSUME NEW t \in Titles \ excused' PROVE Once(t)'
    <3>1. Once(t) /\ Copies(t)' = Copies(t) /\ Count(req[w], t) \in Nat
      BY <1>1, <2>1, CopiesSame, CountNat DEF OnceInv
    <3>2. t = x => Count(req[w], t) = 0
      BY <1>1, CountNone
    <3>3. \/ Count(req'[w], t) = Count(req[w], t)
          \/ t = x /\ Copies(t) = 0 /\ Count(req'[w], t) = 1
      <4>1. CASE Copies(x) # 0
        BY <2>1, <4>1 DEF SameAdds, Count
      <4>2. CASE Copies(x) = 0
        <5>1. req'[w].adds = Append(req[w].adds, x)
          BY <2>1, <4>2
        <5>2. \A y \in Titles :
                Count(req'[w], y) = Count(req[w], y) + (IF y = x THEN 1 ELSE 0)
          BY <2>1, <5>1, CountAppend, Zenon
        <5>3. Count(req'[w], t) = Count(req[w], t) + (IF t = x THEN 1 ELSE 0)
          BY <5>2
        <5>4. QED
          BY <3>1, <3>2, <4>2, <5>3
      <4>3. QED
        BY <4>1, <4>2
    <3>4. \A v \in Workers : Importing(v)' = Importing(v)
      BY <2>1 DEF OthersSame, Importing
    <3>5. \A v \in Workers \ {w} : Count(req'[v], t) = Count(req[v], t)
      BY <2>1 DEF OthersSame
    <3>6. \A v \in Workers : Count(req[v], t)' = Count(req'[v], t)
      BY DEF Count
    <3>7. ASSUME NEW v \in Workers, Importing(v)
          PROVE  Count(req'[v], t) <= 1 /\ (Count(req'[v], t) = 1 => Copies(t) = 0)
      BY <3>1, <3>3, <3>5, <3>7 DEF Once
    <3>8. QED
      BY <3>1, <3>4, <3>6, <3>7 DEF Once
  <2>3. QED
    BY <2>2 DEF OnceInv
<1>4. QED
  BY <1>2, <1>3

LEMMA NextOnce ==
    AccountsInv /\ CountInv /\ CountInv' /\ OnceInv /\ [Next]_vars => OnceInv'
<1> SUFFICES ASSUME AccountsInv, DataType, DataType', OnceInv, [Next]_vars PROVE OnceInv'
  BY DEF CountInv
<1>0. \A t \in Titles : Copies(t) <= Copies(t)
  BY StoredNat
<1>1. ASSUME NEW w \in Workers, Begin(w) PROVE OnceInv'
  <2>1. CASE \E batch \in Batches : ImportBegin(w, batch)
    BY <2>1, ImportBeginOnce, Zenon
  <2>2. CASE \A batch \in Batches : ~ImportBegin(w, batch)
    <3>1. routes' = routes /\ excused' = excused
      BY <1>1, <2>2, Zenon
         DEF Begin, SignupBegin, ChangeEmailBegin, DeleteAccountBegin, ReportBegin
    <3>2. OthersSame(w) /\ ~Importing(w)'
      BY <1>1, <2>2, BeginResets, Zenon
    <3>3. QED
      BY <1>0, <3>1, <3>2, CopiesSame, NothingStored
  <2>3. QED
    BY <2>1, <2>2, Zenon
<1>2. ASSUME NEW w \in Workers, Step(w) \/ Abort(w) PROVE OnceInv'
  <2>1. CASE ImportCheck(w)
    BY <2>1, ImportCheckOnce
  <2>2. CASE CommitAccount(w)
    BY <2>2, CommitAccountOnce
  <2>3. CASE ImportCommit(w)
    BY <2>3, ImportCommitOnce
  <2>4. CASE ~(ImportCheck(w) \/ CommitAccount(w) \/ ImportCommit(w))
    <3>1. routes' = routes /\ excused' = excused
      BY <1>2, <2>4, Zenon
         DEF Step, Abort, SignupCheckEmail, InsertEmail, InsertName,
           ChangeEmailLock, ChangeEmailWrite, DeleteAccountWrite,
             ReportCommit, ImportCount
    <3>2. OthersSame(w) /\ (Importing(w)' => Importing(w) /\ SameAdds(w))
      BY <1>2, <2>4, StepAddsNothing
    <3>3. QED
      BY <1>0, <3>1, <3>2, CopiesSame, NothingStored
  <2>5. QED
    BY <2>1, <2>2, <2>3, <2>4
<1>3. CASE \E u \in Users, t \in Titles : CreateRoute(u, t) \/ DeleteRoute(u, t)
  BY <1>3, CreateRouteOnce, DeleteRouteOnce
<1>4. CASE UNCHANGED vars
  BY <1>4 DEF vars, OnceInv, Once, Copies, Importing, Count
<1>5. QED
  BY <1>1, <1>2, <1>3, <1>4 DEF Next

LEMMA InitOnce == Init => OnceInv
<1> SUFFICES ASSUME Init, NEW t \in Titles PROVE Once(t)
  BY DEF OnceInv
<1>1. DataType
  BY InitCounts DEF CountInv
<1>2. Stored(t) \in [Users -> Nat] /\ \A u \in Users : Stored(t)[u] = 0
  BY DEF Init, Stored
<1>3. Copies(t) = 0
  BY <1>1, <1>2, StoredNat, SumZero, UniquenessAssumption
<1>4. \A w \in Workers : ~Importing(w)
  BY DEF Init, Importing, IdleRequest
<1>5. QED
  BY <1>3, <1>4 DEF Once

\* A title is stored twice only if users wrote it, if it came twice in one batch
\* or if two imports or an import and a user were at it at the same time: for any
\* number of titles, accounts and imports.
THEOREM TitlesStoredOnce == Spec => []StoredOnce
<1>1. CountInv /\ OnceInv => StoredOnce
  <2> SUFFICES ASSUME CountInv, OnceInv, NEW t \in Titles, Copies(t) > 1
               PROVE  t \in excused
    BY DEF StoredOnce
  <2>1. Copies(t) \in Nat
    BY StoredNat DEF CountInv
  <2>2. QED
    BY <2>1 DEF OnceInv, Once
<1>2. Init => AccountsInv /\ CountInv /\ OnceInv
  BY InitAccounts, InitCounts, InitOnce
<1>3. AccountsInv /\ CountInv /\ OnceInv /\ [Next]_vars => (AccountsInv /\ CountInv /\ OnceInv)'
  BY NextAccounts, NextCounts, NextOnce
<1>4. QED
  BY <1>1, <1>2, <1>3, PTL DEF Spec

-----------------------------------------------------------------------------
(***************************************************************************)
(* Waiting.  A request that holds a key and waits is at its second index,  *)
(* with the entry of the first: unless it changes an e-mail, when it holds *)
(* the keys of its old row as well.  By RequestsMoveOn a request that is   *)
(* given its turns comes to its end; that it is given them is fairness.    *)
(***************************************************************************)

\* Who blocks others while it is blocked itself, and does not change an e-mail, has
\* an e-mail entered and asks for a name.
LEMMA BlockedHolder ==
    ASSUME AccountsInv, NEW w \in Workers, NEW v \in Workers, NEW x \in Workers,
           Blocks(v, w), Blocks(x, v),
           req[v].kind # "change_email", req[x].kind # "change_email"
    PROVE  /\ NextKeys(v) = {NameKey(req[v].row)}
           /\ EmailKey(req[v].row) \in NextKeys(w)
<1>1. Shape(req[v]) /\ Shape(req[x]) /\ req[v] \in Request
  BY ReqIs
<1>2. req[v].pc # "written"
  BY DEF Blocks, NextKeys, NextRows, At
<1>3. ~Rewrites(v) /\ ~Counted(v)
  BY <1>1, <1>2 DEF Shape, Rewrites, Counted, At
<1>4. \E k \in NextKeys(w) : k \in NewKeys(v)
  BY <1>3 DEF Blocks, Held, LockedRows
<1>5. CASE req[v].pc = "second"
  BY <1>4, <1>5 DEF NewKeys, NextKeys
<1>6. CASE req[v].pc # "second"
  <2>1. req[v].kind = "import" /\ req[v].pc = "check" /\ req[v].row # NoAccount
    BY <1>1, <1>2, <1>4, <1>6 DEF NewKeys
  <2>2. Inserts(req[v])
    BY <2>1 DEF Inserts
  <2>3. NextKeys(v) = {} /\ NextRows(v) \subseteq {req[v].user}
    BY <2>1 DEF NextKeys, NextRows
  <2>4. x # v /\ req[x].user = req[v].user
    BY <2>3 DEF Blocks, LockedRows
  <2>5. QED
    BY <2>2, <2>4 DEF AccountsInv, IdsFresh
<1>7. QED
  BY <1>5, <1>6

\* Requests that wait for each other have a change of e-mail among them: signups,
\* imports, deletions and reports alone never deadlock, for any number of them.
THEOREM OnlyEmailChangesDeadlock == Spec => []CirclesHaveAnEmailChange
<1>1. AccountsInv => CirclesHaveAnEmailChange
  <2> SUFFICES ASSUME AccountsInv, NEW S \in SUBSET Workers, Knot(S), ~HasEmailChange(S)
               PROVE  FALSE
    BY DEF CirclesHaveAnEmailChange
  <2>1. \A w \in S : w \in Workers /\ req[w].kind # "change_email"
    BY DEF HasEmailChange
  <2>2. \A w \in S : \E v \in S : Blocks(v, w)
    BY DEF Knot
  <2>3. PICK w \in S : TRUE
    BY DEF Knot
  <2>4. PICK v \in S : Blocks(v, w)
    BY <2>2, <2>3
  <2>5. PICK x \in S : Blocks(x, v)
    BY <2>2, <2>4
  <2>6. PICK y \in S : Blocks(y, x)
    BY <2>2, <2>5
  <2>7. NextKeys(v) = {NameKey(req[v].row)}
    BY <2>1, <2>3, <2>4, <2>5, BlockedHolder
  <2>8. EmailKey(req[x].row) \in NextKeys(v)
    BY <2>1, <2>4, <2>5, <2>6, BlockedHolder
  <2>9. QED
    BY <2>7, <2>8, KeysApart
<1>2. QED
  BY <1>1, InitAccounts, NextAccounts, PTL DEF Spec

\* How many steps a request has before it at most.
Rank(r) ==
    IF r.kind = "idle" THEN 0
    ELSE CASE r.pc = "written" -> 1
           [] r.pc = "check" -> 2 + Len(r.batch)
           [] r.pc \in {"locked", "second"} -> 3 + Len(r.batch)
           [] r.pc = "write" -> 4 + Len(r.batch)
           [] OTHER -> 5 + Len(r.batch)

RanksFall ==
    [][\A w \in Workers : ~Free(w) /\ req'[w] # req[w] => Rank(req'[w]) < Rank(req[w])]_vars

LEMMA RankIs ==
    ASSUME NEW r \in Request
    PROVE  Rank(r) \in Nat /\ Len(r.batch) \in Nat /\ (r.kind # "idle" => Rank(r) > 0)
<1>1. Len(r.batch) \in Nat
  BY DEF Request
<1>2. QED
  BY <1>1 DEF Rank

\* A step that goes on to a later stage with the batch as it was.
LEMMA LaterStage ==
    ASSUME NEW r \in Request, NEW q \in Request, q.batch = r.batch, q.kind = r.kind, r.kind # "idle",
           \/ r.pc = "email" /\ q.pc = "write"
           \/ r.pc = "write" /\ q.pc \in {"second", "locked", "written"}
           \/ r.pc = "second" /\ q.pc \in {"check", "written"}
           \/ r.pc = "locked" /\ q.pc = "written"
           \/ r.pc = "check" /\ q.pc = "written"
    PROVE  Rank(q) < Rank(r)
<1>1. Len(r.batch) \in Nat
  BY RankIs
<1>2. QED
  BY <1>1 DEF Rank

LEMMA StepFalls ==
    ASSUME AccountsInv, AccountsInv', NEW w \in Workers, Step(w) \/ Abort(w), ~Free(w)
    PROVE  OthersSame(w) /\ Rank(req'[w]) < Rank(req[w])
<1> DEFINE r == req[w]
           q == req'[w]
           GoesOn(to) == q.kind = r.kind /\ q.batch = r.batch /\ q.pc = to
<1>0. q \in Request
  BY DEF AccountsInv, RequestsType
<1>1. req \in [Workers -> Request] /\ r \in Request /\ r.kind # "idle"
  BY ReqIs DEF Free
<1>2. CASE Finish(w)
  <2>1. q = IdleRequest
    BY <1>1, <1>2 DEF Finish
  <2>2. Rank(q) = 0
    BY <2>1 DEF Rank, IdleRequest
  <2>3. QED
    BY <1>1, <1>2, <2>2, RankIs, FinishResets
<1>3. CASE SignupCheckEmail(w) /\ ~Finish(w)
  <2>1. OthersSame(w) /\ GoesOn("write") /\ r.pc = "email"
    BY <1>1, <1>3 DEF SignupCheckEmail, At, OthersSame, Request
  <2>2. QED
    BY <1>0, <1>1, <2>1, LaterStage
<1>4. CASE InsertEmail(w) /\ ~Finish(w)
  <2>1. OthersSame(w) /\ GoesOn("second") /\ r.pc = "write"
    BY <1>1, <1>4 DEF InsertEmail, At, OthersSame, Request
  <2>2. QED
    BY <1>0, <1>1, <2>1, LaterStage
<1>4a. CASE ChangeEmailLock(w) /\ ~Finish(w)
  <2>1. OthersSame(w) /\ GoesOn("locked") /\ r.pc = "write"
    BY <1>1, <1>4a DEF ChangeEmailLock, At, OthersSame, Request
  <2>2. QED
    BY <1>0, <1>1, <2>1, LaterStage
<1>5. CASE ChangeEmailWrite(w) /\ ~Finish(w)
  <2>1. OthersSame(w) /\ GoesOn("written") /\ r.pc = "locked"
    BY <1>1, <1>5 DEF ChangeEmailWrite, At, OthersSame, Request
  <2>2. QED
    BY <1>0, <1>1, <2>1, LaterStage
<1>6. CASE DeleteAccountWrite(w) /\ ~Finish(w)
  <2>1. OthersSame(w) /\ GoesOn("written") /\ r.pc = "write"
    BY <1>1, <1>6 DEF DeleteAccountWrite, At, OthersSame, Request
  <2>2. QED
    BY <1>0, <1>1, <2>1, LaterStage
<1>7. CASE InsertName(w) /\ ~Finish(w)
  <2>1. ASSUME NEW u, NEW next, req' = [req EXCEPT ![w].pc = next, ![w].user = u]
        PROVE  OthersSame(w) /\ GoesOn(next)
    BY <1>1, <2>1 DEF OthersSame, Request
  <2>2. \E u : \/ req' = [req EXCEPT ![w].pc = "written", ![w].user = u]
               \/ req' = [req EXCEPT ![w].pc = "check", ![w].user = u]
    BY <1>7 DEF InsertName
  <2> HIDE DEF GoesOn
  <2>3. OthersSame(w) /\ (GoesOn("written") \/ GoesOn("check"))
    BY <2>1, <2>2
  <2>4. r.pc = "second"
    BY <1>7 DEF InsertName
  <2>5. QED
    BY <1>0, <1>1, <2>3, <2>4, LaterStage DEF GoesOn
<1>8. CASE ImportCheck(w) /\ ~Finish(w)
  <2> DEFINE t == Head(req[w].batch)
             adds == IF Copies(t) = 0 THEN Append(req[w].adds, t) ELSE req[w].adds
             imported == IF Copies(t) = 0 THEN req[w].imported + 1 ELSE req[w].imported
  <2>1. req' = [req EXCEPT ![w].batch = Tail(@), ![w].adds = adds, ![w].imported = imported]
    BY <1>8 DEF ImportCheck
  <2> HIDE DEF adds, imported
  <2>2. /\ OthersSame(w) /\ q.kind = r.kind /\ q.pc = "check" /\ r.pc = "check"
        /\ q.batch = Tail(r.batch) /\ r.batch \in Seq(Titles) /\ r.batch # <<>>
    BY <1>1, <1>8, <2>1 DEF ImportCheck, At, OthersSame, Request
  <2>3. Len(q.batch) = Len(r.batch) - 1 /\ Len(r.batch) \in Nat
    BY <2>2
  <2>4. QED
    BY <1>1, <2>2, <2>3 DEF Rank
<1>9. CASE ImportCount(w)
  <2>1. OthersSame(w) /\ GoesOn("written") /\ r.pc = "check"
    BY <1>1, <1>9 DEF ImportCount, At, OthersSame, Request
  <2>2. QED
    BY <1>0, <1>1, <2>1, LaterStage
<1>10. QED
  BY <1>2, <1>3, <1>4, <1>4a, <1>5, <1>6, <1>7, <1>8, <1>9
     DEF Step, Abort, CommitAccount, ReportCommit, ImportCommit

\* A request in progress is changed by its own steps only, and each leaves it fewer
\* before it (Rank): no more than one for each title of its batch and five.
THEOREM RequestsMoveOn == Spec => RanksFall
<1>1. ASSUME AccountsInv, AccountsInv', [Next]_vars,
             NEW v \in Workers, ~Free(v), req'[v] # req[v]
      PROVE  Rank(req'[v]) < Rank(req[v])
  <2>1. CASE \E w \in Workers : Begin(w)
    <3>1. PICK w \in Workers : Begin(w)
      BY <2>1
    <3>2. OthersSame(w)
      BY <3>1, BeginResets, <1>1
    <3>3. Free(w)
      BY <3>1, Zenon
         DEF Begin, SignupBegin, ChangeEmailBegin, DeleteAccountBegin, ReportBegin, ImportBegin
    <3>4. QED
      BY <1>1, <3>2, <3>3 DEF OthersSame
  <2>2. CASE \E w \in Workers : Step(w) \/ Abort(w)
    <3>1. PICK w \in Workers : Step(w) \/ Abort(w)
      BY <2>2
    <3>2. ~Free(w)
      BY <1>1, <3>1, StepOf DEF Abort, Free
    <3>3. OthersSame(w) /\ Rank(req'[w]) < Rank(req[w])
      BY <1>1, <3>1, <3>2, StepFalls
    <3>4. QED
      BY <1>1, <3>3 DEF OthersSame
  <2>3. CASE \/ \E u \in Users, t \in Titles : CreateRoute(u, t) \/ DeleteRoute(u, t)
             \/ UNCHANGED vars
    BY <1>1, <2>3 DEF CreateRoute, DeleteRoute, vars
  <2>4. QED
    BY <1>1, <2>1, <2>2, <2>3 DEF Next
<1>2. AccountsInv /\ AccountsInv' /\ [Next]_vars =>
        [\A w \in Workers : ~Free(w) /\ req'[w] # req[w] => Rank(req'[w]) < Rank(req[w])]_vars
  BY <1>1
<1>3. QED
  BY <1>2, InitAccounts, NextAccounts, PTL DEF Spec, RanksFall

=============================================================================
