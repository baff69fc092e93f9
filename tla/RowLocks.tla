------------------------------ MODULE RowLocks ------------------------------
(***************************************************************************)
(* The row locks that the social requests take, and the deadlocks they run *)
(* into.                                                                   *)
(*                                                                         *)
(* A request is one transaction.  It locks a row with each UPDATE, DELETE  *)
(* and foreign key check, in the order of its statements, and keeps every  *)
(* lock to the end (autoflush is off: what is added to or deleted from the *)
(* session is written by flush(), after the UPDATEs executed before it).   *)
(* The module follows the users, one route and one comment on it.  SELECTs *)
(* take no row lock, and rows nobody else asks for (the like itself, a new *)
(* notification) are left out, and so are mark_all_as_read, the payments   *)
(* and the importer.                                                       *)
(*                                                                         *)
(* External, PostgreSQL: an UPDATE that leaves the unique columns alone    *)
(* locks a row "for no key update", one that changes them and a DELETE     *)
(* "for update"; a foreign key check locks the row it finds "for key       *)
(* share".  A request in a cycle of waits is aborted.                      *)
(***************************************************************************)
EXTENDS Naturals, Sequences

CONSTANTS
    Users,
    Author,      \* the author of the route
    Commenter,   \* the author of the comment
    Route, Comment,
    Workers      \* requests that can be in progress at the same time

ASSUME RowLocksAssumption ==
    /\ Author \in Users /\ Commenter \in Users
    /\ Route \notin Users /\ Comment \notin Users /\ Route # Comment

VARIABLES
    req,    \* the requests in progress
    gone    \* deleted rows

vars == <<req, gone>>

-----------------------------------------------------------------------------
Rows == Users \cup {Route, Comment}
Modes == {"key_share", "no_key_update", "update"}

Share(row) == [row |-> row, mode |-> "key_share"]
Update(row) == [row |-> row, mode |-> "no_key_update"]
Exclusive(row) == [row |-> row, mode |-> "update"]

Conflict(m, n) ==
    \/ m = "update" \/ n = "update"
    \/ m = "no_key_update" /\ n = "no_key_update"

-----------------------------------------------------------------------------
(***************************************************************************)
(* What each handler locks.  by is the user who makes the request, on the  *)
(* other user it is about.                                                 *)
(***************************************************************************)

\* follow_user and unfollow_user: the follower's counter, then the other's.  The
\* rows that the new follow and notification refer to are locked by then.
FollowLocks(by, on) == <<Update(by), Update(on)>>

\* Mutant: the author's row is counted up as well.
AddToRouteAndAuthor(by) == <<Update(Route), Share(by), Update(Author)>>

\* like_route and create_comment: the counter of the route, then the rows that
\* the like or comment and the notification to the author refer to.
AddToRouteLocks(by) ==
    IF by = Author THEN <<Update(Route), Share(by)>>
    ELSE <<Update(Route), Share(by), Share(Author)>>

\* save_route: no notification.
SaveRouteLocks(by) == <<Update(Route), Share(by)>>

\* unlike_route and unsave_route.
RemoveFromRouteLocks == <<Update(Route)>>

\* delete_comment, of the comment's author or an administrator.
DeleteCommentLocks == <<Update(Route), Exclusive(Comment)>>

\* like_comment; unlike_comment stops after the counter.
LikeCommentLocks(by) == <<Update(Comment), Share(by)>>
UnlikeCommentLocks == <<Update(Comment)>>

\* create_route: the counter of its author, then the recipients of the
\* notification, one of them here.
CreateRouteLocks(by, on) == <<Update(by), Share(on)>>

\* update_route, by the author; publishing notifies the followers.
UpdateRouteLocks(on) == <<Update(Route), Share(on), Share(Author)>>

\* delete_route, of the author or an administrator: the counter is executed, the
\* DELETE is flushed after it and cascades.
DeleteRouteLocks == <<Update(Author), Exclusive(Route), Exclusive(Comment)>>

\* update_profile, change_password, ban_user, unban_user.
UpdateUserLocks(by) == <<Update(by)>>

\* change_email changes a column of a unique index.
ChangeEmailLocks(by) == <<Exclusive(by)>>

\* delete_account, with what cascades from the account.
DeleteAccountLocks(by) ==
    <<Exclusive(by)>>
        \o (IF by = Author THEN <<Exclusive(Route)>> ELSE <<>>)
        \o (IF by \in {Author, Commenter} THEN <<Exclusive(Comment)>> ELSE <<>>)

Kinds == {"follow", "add_to_route", "save_route", "remove_from_route",
          "delete_comment", "like_comment", "unlike_comment", "create_route",
          "update_route", "delete_route", "update_user", "change_email",
          "delete_account"}

Locks(op) ==
    CASE op.kind = "follow"            -> FollowLocks(op.by, op.on)
      [] op.kind = "add_to_route"      -> AddToRouteLocks(op.by)
      [] op.kind = "save_route"        -> SaveRouteLocks(op.by)
      [] op.kind = "remove_from_route" -> RemoveFromRouteLocks
      [] op.kind = "delete_comment"    -> DeleteCommentLocks
      [] op.kind = "like_comment"      -> LikeCommentLocks(op.by)
      [] op.kind = "unlike_comment"    -> UnlikeCommentLocks
      [] op.kind = "create_route"      -> CreateRouteLocks(op.by, op.on)
      [] op.kind = "update_route"      -> UpdateRouteLocks(op.on)
      [] op.kind = "delete_route"      -> DeleteRouteLocks
      [] op.kind = "update_user"       -> UpdateUserLocks(op.by)
      [] op.kind = "change_email"      -> ChangeEmailLocks(op.by)
      [] op.kind = "delete_account"    -> DeleteAccountLocks(op.by)
      [] OTHER                         -> <<>>

\* The rows a commit deletes.
Deletes(op) ==
    IF op.kind \in {"delete_comment", "delete_route", "delete_account"}
    THEN {Locks(op)[k].row : k \in {k \in DOMAIN Locks(op) : Locks(op)[k].mode = "update"}}
    ELSE {}

-----------------------------------------------------------------------------
\* by is the author where the locks do not depend on who asks, and so is on where
\* there is no other user.
AnybodysKinds == {"remove_from_route", "delete_comment", "unlike_comment",
                  "delete_route", "update_route"}

Ops ==
    [kind : {"follow", "create_route"}, by : Users, on : Users]
        \cup [kind : Kinds \ ({"follow", "create_route"} \cup AnybodysKinds),
              by : Users, on : {Author}]
        \cup [kind : AnybodysKinds, by : {Author}, on : {Author}]
        \cup [kind : {"update_route"}, by : {Author}, on : Users]

Idle == [kind |-> "none", by |-> Author, on |-> Author]

\* next is the lock the request takes next.
TypeOK ==
    /\ req \in [Workers -> [op : Ops \cup {Idle}, next : 1..4]]
    /\ gone \subseteq Rows

Init ==
    /\ req = [w \in Workers |-> [op |-> Idle, next |-> 1]]
    /\ gone = {}

Busy(w) == req[w].op # Idle
Wants(w) == Locks(req[w].op)[req[w].next]
More(w) == req[w].next <= Len(Locks(req[w].op))

Blocks(v, w) ==
    /\ v # w
    /\ More(w)
    /\ \E k \in 1..(req[v].next - 1) :
         LET held == Locks(req[v].op)[k] IN
         /\ held.row = Wants(w).row /\ held.row \notin gone
         /\ Conflict(held.mode, Wants(w).mode)

\* A cycle of waits: each waits for another of them, and none can be left out.
Knot(S) == S # {} /\ \A w \in S : \E v \in S : Blocks(v, w)
Deadlock(S) == Knot(S) /\ \A T \in SUBSET S : Knot(T) => T = S

-----------------------------------------------------------------------------
End(w) == req' = [req EXCEPT ![w] = [op |-> Idle, next |-> 1]]

\* The SELECTs of a handler find the rows it is about.
Begin(w, op) ==
    /\ ~Busy(w)
    /\ op.kind = "follow" => op.by # op.on
    /\ {op.by, op.on} \cap gone = {}
    /\ Locks(op)[1].row \notin gone
    /\ req' = [req EXCEPT ![w].op = op]
    /\ UNCHANGED gone

\* A row that was deleted meanwhile is neither updated nor deleted.
TakeLock(w) ==
    /\ More(w)
    /\ \A v \in Workers : ~Blocks(v, w)
    /\ Wants(w).row \notin gone \/ Wants(w).mode # "key_share"
    /\ req' = [req EXCEPT ![w].next = @ + 1]
    /\ UNCHANGED gone

\* A foreign key check that finds no row: 500, rolled back.
ForeignKeyFails(w) ==
    /\ More(w)
    /\ \A v \in Workers : ~Blocks(v, w)
    /\ Wants(w).row \in gone /\ Wants(w).mode = "key_share"
    /\ End(w)
    /\ UNCHANGED gone

Commit(w) ==
    /\ Busy(w)
    /\ ~More(w)
    /\ gone' = gone \cup Deletes(req[w].op)
    /\ End(w)

\* External: PostgreSQL aborts one request of a cycle: 500, rolled back.
AbortVictim(w) ==
    /\ \E S \in SUBSET Workers : w \in S /\ Deadlock(S)
    /\ End(w)
    /\ UNCHANGED gone

Next ==
    \/ \E w \in Workers, op \in Ops : Begin(w, op)
    \/ \E w \in Workers :
         TakeLock(w) \/ ForeignKeyFails(w) \/ Commit(w) \/ AbortVictim(w)

Spec == Init /\ [][Next]_vars

-----------------------------------------------------------------------------
(***************************************************************************)
(* Properties.                                                             *)
(***************************************************************************)

\* Requests that follow or unfollow in a ring: each waits for the account that
\* the next one locked first.
Ring(S) == \A w \in S :
    /\ req[w].op.kind = "follow"
    /\ \E v \in S : req[v].op.by = req[w].op.on

DeletesAccount(S) == \E w \in S : req[w].op.kind = "delete_account"

\* Only follows in a ring (the smallest: two users who follow each other at the
\* same moment) and the deletion of an account can deadlock.  No two requests on
\* the same route or comment ever do, though they lock users before routes and
\* routes before users.
DeadlocksAreKnown ==
    \A S \in SUBSET Workers : Deadlock(S) => Ring(S) \/ DeletesAccount(S)

=============================================================================
