------------------------------ MODULE Counters ------------------------------
(***************************************************************************)
(* Rows and the counter of them that their parent row carries:             *)
(*                                                                         *)
(*    kind          rows               parent    counter                   *)
(*    like          route_likes        a route   likes_count               *)
(*    save          route_saves        a route   saves_count               *)
(*    commentlike   comment_likes      a comment likes_count               *)
(*    follow        follows            a user    followers_count           *)
(*    following     follows            a user    following_count           *)
(*    comment       comments           a route   comments_count            *)
(*    route         trail_routes       a user    routes_count              *)
(*                                                                         *)
(* The kinds do not interact, so a behaviour follows one parent row of one *)
(* kind (a follow is seen from either of its two counters).  A row of the  *)
(* first five is keyed by a user and can come and go; a comment or a route *)
(* has an id that is used once.                                            *)
(*                                                                         *)
(* A request looks for the row in one statement and writes in others: the  *)
(* UPDATE of the counter locks the parent until the commit, and the flush  *)
(* (autoflush is off) inserts or deletes the row under that lock.          *)
(***************************************************************************)
EXTENDS Integers, FiniteSets

CONSTANTS
    Keys,      \* what rows are keyed by: users, or ids of comments or routes
    Workers,   \* requests that can be in progress at the same time
    NoKey

ASSUME CountersAssumption == IsFiniteSet(Keys) /\ NoKey \notin Keys

VARIABLES
    kind,      \* which of the relations this is
    parent,    \* the parent row exists
    rows,      \* keys of the committed rows
    count,     \* the parent's counter
    gone,      \* keys that can have no row (again): the account was deleted
    used,      \* ids of comments or routes that have been given out
    req,       \* the requests in progress
    raced      \* observation: two removals of one row have overlapped

vars == <<kind, parent, rows, count, gone, used, req, raced>>

ByUser == {"like", "save", "commentlike", "follow", "following"}
ById == {"comment", "route"}

Request == [pc : {"idle", "insert", "delete"}, key : Keys \cup {NoKey}]
Idle == [pc |-> "idle", key |-> NoKey]

\* The shape of the state; the counter is never negative (a CHECK constraint).
TypeOK ==
    /\ kind \in ByUser \cup ById
    /\ parent \in BOOLEAN
    /\ rows \subseteq Keys /\ gone \subseteq Keys /\ used \subseteq Keys
    /\ count \in Nat
    /\ req \in [Workers -> Request]
    /\ raced \in BOOLEAN

Init ==
    /\ kind \in ByUser \cup ById
    /\ parent = TRUE
    /\ rows = {} /\ gone = {} /\ used = {}
    /\ count = 0
    /\ req = [w \in Workers |-> Idle]
    /\ raced = FALSE

-----------------------------------------------------------------------------
Start(w, pc, k) ==
    /\ req[w].pc = "idle"
    /\ req' = [req EXCEPT ![w] = [pc |-> pc, key |-> k]]

Finish(w) == req' = [req EXCEPT ![w] = Idle]

Removing(k) == \E w \in Workers : req[w].pc = "delete" /\ req[w].key = k

(***************************************************************************)
(* Making a row.  A user's second row is refused with 409.                 *)
(***************************************************************************)

AddByUser(w, k) ==
    /\ parent /\ k \notin rows \cup gone
    /\ Start(w, "insert", k)
    /\ UNCHANGED <<kind, parent, rows, count, gone, used, raced>>

LikeRoute(w, k)   == kind = "like"        /\ AddByUser(w, k)
SaveRoute(w, k)   == kind = "save"        /\ AddByUser(w, k)
LikeComment(w, k) == kind = "commentlike" /\ AddByUser(w, k)
FollowUser(w, k)  == kind \in {"follow", "following"} /\ AddByUser(w, k)

AddById(w, k) ==
    /\ parent /\ k \notin used \cup gone
    /\ Start(w, "insert", k)
    /\ used' = used \cup {k}
    /\ UNCHANGED <<kind, parent, rows, count, gone, raced>>

CreateComment(w, k) == kind = "comment" /\ AddById(w, k)
CreateRoute(w, k)   == kind = "route"   /\ AddById(w, k)

\* mutant: a row that exists is not inserted again, but counted.
InsertOrIgnore(w) ==
    LET k == req[w].key IN
    /\ req[w].pc = "insert"
    /\ IF parent /\ k \notin gone
       THEN rows' = rows \cup {k} /\ count' = count + 1
       ELSE UNCHANGED <<rows, count>>
    /\ Finish(w)
    /\ UNCHANGED <<kind, parent, gone, used, raced>>

\* A second row of the key violates the primary key, a parent or user that is
\* gone the foreign key: the whole request rolls back.
Insert(w) ==
    LET k == req[w].key IN
    /\ req[w].pc = "insert"
    /\ IF parent /\ k \notin rows \cup gone
       THEN rows' = rows \cup {k} /\ count' = count + 1
       ELSE UNCHANGED <<rows, count>>
    /\ Finish(w)
    /\ UNCHANGED <<kind, parent, gone, used, raced>>

(***************************************************************************)
(* Removing a row.  None is a 404; a comment or route may be removed by    *)
(* its author and by an administrator.                                     *)
(***************************************************************************)

\* mutant: the row is not looked for.
RemoveAny(w, k) ==
    /\ parent
    /\ Start(w, "delete", k)
    /\ raced' = (raced \/ Removing(k))
    /\ UNCHANGED <<kind, parent, rows, count, gone, used>>

Remove(w, k) ==
    /\ k \in rows
    /\ Start(w, "delete", k)
    /\ raced' = (raced \/ Removing(k))
    /\ UNCHANGED <<kind, parent, rows, count, gone, used>>

UnlikeRoute(w, k)   == kind = "like"        /\ Remove(w, k)
UnsaveRoute(w, k)   == kind = "save"        /\ Remove(w, k)
UnlikeComment(w, k) == kind = "commentlike" /\ Remove(w, k)
UnfollowUser(w, k)  == kind \in {"follow", "following"} /\ Remove(w, k)
DeleteComment(w, k) == kind = "comment"     /\ Remove(w, k)
DeleteRoute(w, k)   == kind = "route"       /\ Remove(w, k)

\* The counter goes down whether or not the DELETE still finds the row; below
\* zero the CHECK constraint rolls the request back.
Delete(w) ==
    /\ req[w].pc = "delete"
    /\ IF parent /\ count > 0
       THEN rows' = rows \ {req[w].key} /\ count' = count - 1
       ELSE UNCHANGED <<rows, count>>
    /\ Finish(w)
    /\ UNCHANGED <<kind, parent, gone, used, raced>>

-----------------------------------------------------------------------------
\* delete_account of a user with a row: the cascade takes the row, the counter
\* of the parent stays.  (Routes go with their parent, see DropParent.)
DeleteAccount(k) ==
    /\ kind # "route" /\ k \notin gone
    /\ gone' = gone \cup {k}
    /\ rows' = rows \ {k}
    /\ UNCHANGED <<kind, parent, count, used, req, raced>>

\* The route, comment or user with the counter is deleted, and its rows with it.
DropParent ==
    /\ parent
    /\ parent' = FALSE
    /\ rows' = {}
    /\ UNCHANGED <<kind, count, gone, used, req, raced>>

\* A crash, a lost connection or a failed notification: rolled back.
Abort(w) ==
    /\ req[w].pc # "idle"
    /\ Finish(w)
    /\ UNCHANGED <<kind, parent, rows, count, gone, used, raced>>

Adds(w, k) ==
    \/ LikeRoute(w, k) \/ SaveRoute(w, k) \/ LikeComment(w, k) \/ FollowUser(w, k)
    \/ CreateComment(w, k) \/ CreateRoute(w, k)

Removes(w, k) ==
    \/ UnlikeRoute(w, k) \/ UnsaveRoute(w, k) \/ UnlikeComment(w, k)
    \/ UnfollowUser(w, k) \/ DeleteComment(w, k) \/ DeleteRoute(w, k)

Next ==
    \/ \E w \in Workers, k \in Keys : Adds(w, k) \/ Removes(w, k)
    \/ \E w \in Workers : Insert(w) \/ Delete(w) \/ Abort(w)
    \/ \E k \in Keys : DeleteAccount(k)
    \/ DropParent

Spec == Init /\ [][Next]_vars

-----------------------------------------------------------------------------
(***************************************************************************)
(* Properties.                                                             *)
(***************************************************************************)

\* The counter never shows more than there is, unless an account with rows was
\* deleted: double likes, retries and overlapping requests do not inflate it.
NeverTooHigh == parent /\ gone = {} => count <= Cardinality(rows)

\* It never shows less than there is, unless two removals of one row overlapped:
\* duplicates, re-adding, aborts and deleted accounts do not deflate it.
NeverTooLow == parent /\ ~raced => Cardinality(rows) <= count

\* A removal in progress is not refused by the CHECK constraint, unless removals
\* have raced: what can be liked can be unliked.
RemovalPossible == parent /\ ~raced /\ (\E k \in Keys : Removing(k)) => count > 0

=============================================================================
