----------------------------- MODULE Uniqueness -----------------------------
(***************************************************************************)
(* Rows that should be there once: accounts with their name and e-mail,    *)
(* reports of one user on one target, and imported routes with their title *)
(* (here title and region together).  The code asks for such a row and     *)
(* writes it a few statements later; an index decides for the accounts,    *)
(* nothing does for reports and routes.                                    *)
(*                                                                         *)
(* Every request is a transaction: what it writes is seen by the others at *)
(* its commit, and its unique keys and the rows it updates make them wait  *)
(* until then.  A check that fails (400, 404, 409) writes nothing and is a *)
(* request that does not begin.                                            *)
(*                                                                         *)
(* External, PostgreSQL: an INSERT fills the unique indexes one by one in  *)
(* the order they were created, e-mail before name.  An UPDATE or DELETE   *)
(* has its row, and with it the keys of the row, before it fills an index. *)
(* An index entry waits for the transaction that is adding or removing the *)
(* same key to end.                                                        *)
(***************************************************************************)
EXTENDS Integers, Sequences, FiniteSets, FiniteSetsExt

CONSTANTS
    Users,         \* ids that accounts can have
    Names, Emails,
    SystemName, SystemEmail,   \* of the account that owns the imported routes
    Titles,
    Workers,       \* requests and imports that can be in progress at once
    MaxBatch,      \* routes that Overpass returns for one import
    MaxOwn,        \* bound of the model: copies of a title users write
    NoAccount

ASSUME UniquenessAssumption ==
    /\ SystemName \in Names /\ SystemEmail \in Emails
    /\ NoAccount \notin Users /\ NoAccount \notin [name : Names, email : Emails]
    /\ IsFiniteSet(Workers) /\ IsFiniteSet(Users) /\ IsFiniteSet(Titles)
    /\ MaxBatch \in Nat \ {0} /\ MaxOwn \in Nat

VARIABLES
    account,      \* the users table
    reports,      \* how many reports a user has on the target
    routes,       \* how many routes of a title a user has
    routesCount,  \* users.routes_count
    excused,      \* titles whose duplicates users or imports made on their own
    req           \* requests in progress

vars == <<account, reports, routes, routesCount, excused, req>>

-----------------------------------------------------------------------------
Accounts == [name : Names, email : Emails]

Batches == UNION {[1..n -> Titles] : n \in 0..MaxBatch}

\* row is what the request writes to the users table, batch the titles that an
\* import still has to look at, adds those it will insert.
Request == [
    kind : {"idle", "signup", "change_email", "delete_account", "report", "import"},
    pc : {"begin", "email", "write", "second", "locked", "check", "written"},
    user : Users \cup {NoAccount},
    row : Accounts \cup {NoAccount},
    batch : Seq(Titles), adds : Seq(Titles), imported : Nat]

IdleRequest == [kind |-> "idle", pc |-> "begin", user |-> NoAccount,
                row |-> NoAccount, batch |-> <<>>, adds |-> <<>>, imported |-> 0]

TypeOK ==
    /\ account \in [Users -> Accounts \cup {NoAccount}]
    /\ reports \in [Users -> Nat]
    /\ routes \in [Users -> [Titles -> Nat]]
    /\ routesCount \in [Users -> Nat]
    /\ excused \subseteq Titles
    /\ req \in [Workers -> Request]

Init ==
    /\ account = [u \in Users |-> NoAccount]
    /\ reports = [u \in Users |-> 0]
    /\ routes = [u \in Users |-> [t \in Titles |-> 0]]
    /\ routesCount = [u \in Users |-> 0]
    /\ excused = {}
    /\ req = [w \in Workers |-> IdleRequest]

-----------------------------------------------------------------------------
Live(u) == account[u] # NoAccount
Free(w) == req[w].kind = "idle"
At(w, kind, pc) == req[w].kind = kind /\ req[w].pc = pc
Finish(w) == req' = [req EXCEPT ![w] = IdleRequest]

\* A new id, which no request and no row refers to.
Fresh(u) == ~Live(u) /\ \A w \in Workers : req[w].user # u

EmailKey(row) == <<"email", row.email>>
NameKey(row) == <<"name", row.name>>

\* Mutant: only the index of the names is unique.
KeysOfNames(row) == {NameKey(row)}

Keys(row) == {EmailKey(row), NameKey(row)}

\* Another account has the key.
Taken(u, key) == \E v \in Users \ {u} : Live(v) /\ key \in Keys(account[v])

Copies(t) == SumFunction([u \in Users |-> routes[u][t]])

-----------------------------------------------------------------------------
(***************************************************************************)
(* What a transaction holds, and what its next statement waits for.        *)
(***************************************************************************)

\* The row of its account has been updated or deleted.
Rewrites(w) ==
    req[w].kind \in {"change_email", "delete_account"} /\ req[w].pc \in {"locked", "written"}

\* The routes_count of its account has been updated.
Counted(w) == At(w, "import", "written") /\ req[w].imported > 0

\* Its entries of the unique indexes.
NewKeys(w) ==
    CASE req[w].pc = "second" -> {EmailKey(req[w].row)}
      [] \/ req[w].kind \in {"signup", "change_email"} /\ req[w].pc = "written"
         \/ /\ req[w].kind = "import" /\ req[w].pc \in {"check", "written"}
            /\ req[w].row # NoAccount
           -> Keys(req[w].row)
      [] OTHER -> {}

\* Those and the ones of the row it replaces.
Held(w) == NewKeys(w) \cup (IF Rewrites(w) THEN Keys(account[req[w].user]) ELSE {})

\* Mutant: reading a row locks it as well.
LockedRowsRead(v, w) == {req[v].user} \ {NoAccount}

\* The row of v that keeps w waiting.  The foreign key of a report does not wait
\* for an update of the counter.
LockedRows(v, w) ==
    IF Rewrites(v) \/ (Counted(v) /\ req[w].kind # "report") THEN {req[v].user} ELSE {}

NextKeys(w) ==
    CASE req[w].pc = "second" -> {NameKey(req[w].row)}
      [] \/ req[w].pc = "locked"
         \/ req[w].kind \in {"signup", "import"} /\ req[w].pc = "write"
           -> {EmailKey(req[w].row)}
      [] OTHER -> {}

NextRows(w) ==
    IF \/ req[w].kind \in {"change_email", "delete_account", "report"} /\ req[w].pc = "write"
       \/ At(w, "import", "check") /\ req[w].batch = <<>> /\ req[w].imported > 0
    THEN {req[w].user} ELSE {}

Blocks(v, w) ==
    /\ v # w
    /\ \/ NextKeys(w) \cap Held(v) # {}
       \/ NextRows(w) \cap LockedRows(v, w) # {}

Clear(w) == \A v \in Workers : ~Blocks(v, w)

-----------------------------------------------------------------------------
(***************************************************************************)
(* signup, change_email, delete_account.                                   *)
(***************************************************************************)
SignupBegin(w, row) ==
    /\ Free(w)
    /\ \A u \in Users : Live(u) => account[u].name # row.name
    /\ req' = [req EXCEPT ![w] = [IdleRequest EXCEPT
                 !.kind = "signup", !.pc = "email", !.row = row]]
    /\ UNCHANGED <<account, reports, routes, routesCount, excused>>

SignupCheckEmail(w) ==
    /\ At(w, "signup", "email")
    /\ IF \E u \in Users : Live(u) /\ account[u].email = req[w].row.email
       THEN Finish(w)
       ELSE req' = [req EXCEPT ![w].pc = "write"]
    /\ UNCHANGED <<account, reports, routes, routesCount, excused>>

\* The flush() of signup and of get_or_create_system_user.  An index refuses a key
\* that was taken since the checks: 500, rolled back.
InsertEmail(w) ==
    /\ req[w].kind \in {"signup", "import"} /\ req[w].pc = "write"
    /\ Clear(w)
    /\ IF Taken(NoAccount, EmailKey(req[w].row)) THEN Finish(w)
       ELSE req' = [req EXCEPT ![w].pc = "second"]
    /\ UNCHANGED <<account, reports, routes, routesCount, excused>>

InsertName(w) ==
    /\ req[w].pc = "second"
    /\ Clear(w)
    /\ IF Taken(NoAccount, NameKey(req[w].row)) THEN Finish(w)
       ELSE \E u \in Users :
              /\ Fresh(u)
              /\ req' = [req EXCEPT
                   ![w].pc = IF req[w].kind = "signup" THEN "written" ELSE "check",
                   ![w].user = u]
    /\ UNCHANGED <<account, reports, routes, routesCount, excused>>

ChangeEmailBegin(w, u, email) ==
    /\ Free(w)
    /\ Live(u)
    /\ \A v \in Users : Live(v) => account[v].email # email
    /\ req' = [req EXCEPT ![w] = [IdleRequest EXCEPT
                 !.kind = "change_email", !.pc = "write", !.user = u,
                 !.row = [account[u] EXCEPT !.email = email]]]
    /\ UNCHANGED <<account, reports, routes, routesCount, excused>>

\* The UPDATE locks the row, then fills the indexes.  An account deleted meanwhile
\* is not updated.
ChangeEmailLock(w) ==
    /\ At(w, "change_email", "write")
    /\ Clear(w)
    /\ IF Live(req[w].user) THEN req' = [req EXCEPT ![w].pc = "locked"] ELSE Finish(w)
    /\ UNCHANGED <<account, reports, routes, routesCount, excused>>

ChangeEmailWrite(w) ==
    /\ At(w, "change_email", "locked")
    /\ Clear(w)
    /\ IF Taken(req[w].user, EmailKey(req[w].row)) THEN Finish(w)
       ELSE req' = [req EXCEPT ![w].pc = "written"]
    /\ UNCHANGED <<account, reports, routes, routesCount, excused>>

DeleteAccountBegin(w, u) ==
    /\ Free(w)
    /\ Live(u)
    /\ req' = [req EXCEPT ![w] = [IdleRequest EXCEPT
                 !.kind = "delete_account", !.pc = "write", !.user = u]]
    /\ UNCHANGED <<account, reports, routes, routesCount, excused>>

\* Mutant: the row is kept, under an address of the system's.
DeleteAccountRenames(w) ==
    /\ At(w, "delete_account", "write")
    /\ Clear(w)
    /\ IF Live(req[w].user)
       THEN req' = [req EXCEPT ![w].pc = "locked",
                      ![w].row = [account[req[w].user] EXCEPT !.email = SystemEmail]]
       ELSE Finish(w)
    /\ UNCHANGED <<account, reports, routes, routesCount, excused>>

DeleteAccountWrite(w) ==
    /\ At(w, "delete_account", "write")
    /\ Clear(w)
    /\ IF Live(req[w].user) THEN req' = [req EXCEPT ![w].pc = "written"] ELSE Finish(w)
    /\ UNCHANGED <<account, reports, routes, routesCount, excused>>

\* Reports and routes go with their account.
CommitAccount(w) ==
    LET u == req[w].user IN
    /\ req[w].kind \in {"signup", "change_email", "delete_account"}
    /\ req[w].pc = "written"
    /\ account' = [account EXCEPT ![u] = req[w].row]
    /\ IF req[w].kind = "delete_account"
       THEN /\ reports' = [reports EXCEPT ![u] = 0]
            /\ routes' = [routes EXCEPT ![u] = [t \in Titles |-> 0]]
            /\ routesCount' = [routesCount EXCEPT ![u] = 0]
       ELSE UNCHANGED <<reports, routes, routesCount>>
    /\ Finish(w)
    /\ UNCHANGED excused

-----------------------------------------------------------------------------
(***************************************************************************)
(* create_report, on one target.  With one report already the answer is    *)
(* 409; with more, scalar_one_or_none raises.                              *)
(***************************************************************************)
\* Mutant: more than one passes for none.
UnreportedOrMany(u) == reports[u] # 1

Unreported(u) == reports[u] = 0

ReportBegin(w, u) ==
    /\ Free(w)
    /\ Live(u)
    /\ Unreported(u)
    /\ req' = [req EXCEPT ![w] = [IdleRequest EXCEPT
                 !.kind = "report", !.pc = "write", !.user = u]]
    /\ UNCHANGED <<account, reports, routes, routesCount, excused>>

\* The foreign key waits for a deletion of the reporter, and then fails.
ReportCommit(w) ==
    LET u == req[w].user IN
    /\ At(w, "report", "write")
    /\ Clear(w)
    /\ reports' = [reports EXCEPT ![u] = IF Live(u) THEN @ + 1 ELSE @]
    /\ Finish(w)
    /\ UNCHANGED <<account, routes, routesCount, excused>>

-----------------------------------------------------------------------------
(***************************************************************************)
(* create_route and delete_route, each in one step (Counters has their     *)
(* overlap).  A route that a user writes is checked against no other.      *)
(***************************************************************************)
Importing(w) == req[w].kind = "import"

\* No request keeps the counter of u waiting.
RowFree(u) == \A w \in Workers : Rewrites(w) \/ Counted(w) => req[w].user # u

CreateRoute(u, t) ==
    /\ Live(u)
    /\ RowFree(u)
    /\ Copies(t) < MaxOwn
    /\ routes' = [routes EXCEPT ![u][t] = @ + 1]
    /\ routesCount' = [routesCount EXCEPT ![u] = @ + 1]
    /\ excused' = IF Copies(t) > 0 \/ (\E w \in Workers : Importing(w))
                  THEN excused \cup {t} ELSE excused
    /\ UNCHANGED <<account, reports, req>>

DeleteRoute(u, t) ==
    /\ routes[u][t] > 0
    /\ RowFree(u)
    /\ routes' = [routes EXCEPT ![u][t] = @ - 1]
    /\ routesCount' = [routesCount EXCEPT ![u] = @ - 1]
    /\ UNCHANGED <<account, reports, excused, req>>

-----------------------------------------------------------------------------
(***************************************************************************)
(* import_routes.  The batch is fetched before the transaction begins; an  *)
(* empty one ends the import.  Two imports at a time excuse every title of *)
(* theirs.                                                                 *)
(***************************************************************************)
SystemRow == [name |-> SystemName, email |-> SystemEmail]

\* get_or_create_system_user asks for the name only.
ImportBegin(w, batch) ==
    /\ Free(w)
    /\ batch # <<>>
    /\ \/ \E u \in Users :
            /\ Live(u) /\ account[u].name = SystemName
            /\ req' = [req EXCEPT ![w] = [IdleRequest EXCEPT
                         !.kind = "import", !.pc = "check", !.user = u, !.batch = batch]]
       \/ /\ \A u \in Users : Live(u) => account[u].name # SystemName
          /\ req' = [req EXCEPT ![w] = [IdleRequest EXCEPT
                       !.kind = "import", !.pc = "write", !.row = SystemRow,
                       !.batch = batch]]
    /\ excused' = IF \E v \in Workers : Importing(v) THEN Titles ELSE excused
    /\ UNCHANGED <<account, reports, routes, routesCount>>

\* Mutant: the skipped ones are counted too.
ImportCheckCountsAll(w) ==
    LET t == Head(req[w].batch) IN
    /\ At(w, "import", "check")
    /\ req[w].batch # <<>>
    /\ IF Copies(t) > 1 THEN Finish(w) ELSE
       req' = [req EXCEPT ![w].batch = Tail(@),
                 ![w].adds = IF Copies(t) = 0 THEN Append(@, t) ELSE @,
                 ![w].imported = @ + 1]
    /\ excused' = IF t \in {req[w].adds[k] : k \in DOMAIN req[w].adds}
                  THEN excused \cup {t} ELSE excused
    /\ UNCHANGED <<account, reports, routes, routesCount>>

\* Mutant: the check is left out.
ImportChecksNothing(w) ==
    LET t == Head(req[w].batch) IN
    /\ At(w, "import", "check")
    /\ req[w].batch # <<>>
    /\ req' = [req EXCEPT ![w].batch = Tail(@), ![w].adds = Append(@, t), ![w].imported = @ + 1]
    /\ excused' = IF t \in {req[w].adds[k] : k \in DOMAIN req[w].adds}
                  THEN excused \cup {t} ELSE excused
    /\ UNCHANGED <<account, reports, routes, routesCount>>

\* The check of one title sees what is committed, not what this import added
\* (autoflush is off).  None: added.  One: skipped.  More: scalar_one_or_none
\* raises, and the whole import is rolled back.
ImportCheck(w) ==
    LET t == Head(req[w].batch) IN
    /\ At(w, "import", "check")
    /\ req[w].batch # <<>>
    /\ IF Copies(t) > 1 THEN Finish(w) ELSE
       req' = [req EXCEPT ![w].batch = Tail(@),
                 ![w].adds = IF Copies(t) = 0 THEN Append(@, t) ELSE @,
                 ![w].imported = IF Copies(t) = 0 THEN @ + 1 ELSE @]
    /\ excused' = IF t \in {req[w].adds[k] : k \in DOMAIN req[w].adds}
                  THEN excused \cup {t} ELSE excused
    /\ UNCHANGED <<account, reports, routes, routesCount>>

\* The UPDATE of routes_count, when something was imported.
ImportCount(w) ==
    /\ At(w, "import", "check")
    /\ req[w].batch = <<>>
    /\ Clear(w)
    /\ req' = [req EXCEPT ![w].pc = "written"]
    /\ UNCHANGED <<account, reports, routes, routesCount, excused>>

\* The commit inserts the routes.  Without their author the foreign key fails
\* and everything is rolled back.
ImportCommit(w) ==
    LET u == req[w].user
        created == req[w].row # NoAccount
        added(t) == Cardinality({k \in DOMAIN req[w].adds : req[w].adds[k] = t}) IN
    /\ At(w, "import", "written")
    /\ account' = IF created THEN [account EXCEPT ![u] = req[w].row] ELSE account
    /\ IF created \/ Live(u)
       THEN /\ routes' = [routes EXCEPT ![u] = [t \in Titles |-> @[t] + added(t)]]
            /\ routesCount' = [routesCount EXCEPT ![u] = @ + req[w].imported]
       ELSE UNCHANGED <<routes, routesCount>>
    /\ Finish(w)
    /\ UNCHANGED <<reports, excused>>

-----------------------------------------------------------------------------
\* An error or a lost connection at any await: rolled back.
Abort(w) ==
    /\ ~Free(w)
    /\ Finish(w)
    /\ UNCHANGED <<account, reports, routes, routesCount, excused>>

Begin(w) ==
    \/ \E row \in Accounts : SignupBegin(w, row)
    \/ \E u \in Users, email \in Emails : ChangeEmailBegin(w, u, email)
    \/ \E u \in Users : DeleteAccountBegin(w, u) \/ ReportBegin(w, u)
    \/ \E batch \in Batches : ImportBegin(w, batch)

Step(w) ==
    \/ SignupCheckEmail(w)
    \/ InsertEmail(w)
    \/ InsertName(w)
    \/ ChangeEmailLock(w)
    \/ ChangeEmailWrite(w)
    \/ DeleteAccountWrite(w)
    \/ CommitAccount(w)
    \/ ReportCommit(w)
    \/ ImportCheck(w)
    \/ ImportCount(w)
    \/ ImportCommit(w)

Next ==
    \/ \E w \in Workers : Begin(w) \/ Step(w) \/ Abort(w)
    \/ \E u \in Users, t \in Titles : CreateRoute(u, t) \/ DeleteRoute(u, t)

Spec == Init /\ [][Next]_vars

\* A request goes on by itself; PostgreSQL wakes those that wait for a row or a
\* key in their order.
FairSpec == Spec /\ \A w \in Workers : SF_vars(Step(w))

-----------------------------------------------------------------------------
(***************************************************************************)
(* Properties.                                                             *)
(***************************************************************************)

\* No two accounts have the same name or e-mail, whatever was true when signup,
\* change_email and the import looked.
AccountsDistinct ==
    \A u, v \in Users : u # v /\ Live(u) /\ Live(v) =>
        account[u].name # account[v].name /\ account[u].email # account[v].email

\* Only reports that overlapped can be duplicates of each other: there are never
\* more than requests in progress at a time.
DuplicatesBounded == \A u \in Users : reports[u] <= Cardinality(Workers)

\* The counter of an account agrees with its routes through imports, also those
\* that skip, fail half way, or lose their author.
ImportCountsAgree == \A u \in Users : routesCount[u] = SumFunction(routes[u])

\* A title is stored twice only if users wrote it, if it came twice in one batch
\* or if two imports or an import and a user were at it at the same time.
StoredOnce == \A t \in Titles : Copies(t) > 1 => t \in excused

\* Requests that wait for each other.
Knot(S) == S # {} /\ \A w \in S : \E v \in S : Blocks(v, w)

HasEmailChange(S) == \E w \in S : req[w].kind = "change_email"

\* Only a change of e-mail can deadlock: it takes the keys of its account first and
\* the new e-mail last, while a signup or import takes its e-mail first and its name
\* last.  Any number of signups, imports and deletions sort themselves out, though
\* an import asks for a row when it holds the keys of the account it made.
CirclesHaveAnEmailChange == \A S \in SUBSET Workers : Knot(S) => HasEmailChange(S)

\* Nobody waits for a key or a row for ever: every request comes to its end, unless
\* one of those circles is left to PostgreSQL to break.
RequestsEnd ==
    \A w \in Workers :
        ~Free(w) ~> Free(w) \/ (\E S \in SUBSET Workers : Knot(S) /\ HasEmailChange(S))

=============================================================================
