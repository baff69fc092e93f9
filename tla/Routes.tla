------------------------------- MODULE Routes -------------------------------
(***************************************************************************)
(* The life of one route, the notification of its author's followers, and  *)
(* a cached list the route appears in.  There are two such lists, the      *)
(* recommendations for anonymous readers and the regions; they do not      *)
(* interact, so a behaviour follows one of them.                           *)
(*                                                                         *)
(* A writer reads the row, updates it (which locks it), deletes the cached *)
(* list and only then commits.  A reader that finds no cached list takes a *)
(* snapshot, may fetch a photo for a region that has none, and puts the    *)
(* list into the cache.  Every call to Redis may fail, and is then         *)
(* skipped.                                                                *)
(***************************************************************************)
EXTENDS Naturals

CONSTANTS
    Changes,          \* what update requests ask for
    Workers,          \* requests that can be in progress at the same time
    Ttl,              \* CACHE_TTL_SECONDS, in clock ticks
    Patience,         \* the longest a reader takes from snapshot to cache_set
    MaxTime,          \* bound: last value of the clock
    MaxPublications   \* bound: no update starts after so many

VARIABLES
    route,         \* the committed trail_routes row
    list,          \* which list this is
    cache,         \* the list in Redis, as far as it shows the route
    req,           \* the requests in progress
    now,           \* wall clock
    announced,     \* calls of notify_followers_new_route committed
    publications,  \* observation: times the route became published
    overlapped,    \* observation: two updates have overlapped
    changedAt,     \* observation: when what the list ought to show last changed
    raced          \* observation: the list escaped a deletion

vars == <<route, list, cache, req, now, announced, publications, overlapped,
          changedAt, raced>>

-----------------------------------------------------------------------------
List == {"recommended", "regions"}

RouteStatus == {"draft", "private", "published"}

\* new: not created yet.
Route == [status : RouteStatus \cup {"new", "deleted"}, paid : BOOLEAN,
          photos : {"none", "author", "wiki"}]

Exists == route.status \in RouteStatus

\* What a list shows of a route to anybody: of a paid one only the teaser.
Shown(r) ==
    IF r.status # "published" THEN "hidden"
    ELSE IF list = "regions" THEN "counted"
    ELSE IF r.paid THEN "locked" ELSE "open"

View == {"hidden", "counted", "locked", "open"}

\* A cached list; exp 0: there is none.  read is an observation.
Entry == [shown : View, exp : Nat, read : Nat]
NoEntry == [shown |-> "hidden", exp |-> 0, read |-> 0]
Cached == cache.exp # 0

\* The fields a RouteUpdate carries; the others are kept.
Change == [status : RouteStatus \cup {"keep"}, paid : {"keep", "yes", "no"},
           photos : {"keep", "author"}]
NoChange == [status |-> "keep", paid |-> "keep", photos |-> "keep"]

ASSUME RoutesAssumption ==
    /\ Changes \subseteq Change
    /\ Ttl \in Nat \ {0}
    /\ Patience \in Nat
    /\ MaxTime \in Nat
    /\ MaxPublications \in Nat

Request ==
    [kind   : {"none", "create", "update", "delete", "admin", "read"},
     pc     : {"idle", "write", "commit", "fetch", "fill"},
     old    : RouteStatus \cup {"new"},    \* the status it read
     change : Change,
     seen   : View,                        \* the list it will cache
     since  : Nat,                         \* when it took the snapshot
     late   : BOOLEAN]                     \* observation: photos were set since

Idle == [kind |-> "none", pc |-> "idle", old |-> "new", change |-> NoChange,
         seen |-> "hidden", since |-> 0, late |-> FALSE]

\* The shape of the state.
TypeOK ==
    /\ route \in Route
    /\ list \in List
    /\ cache \in Entry
    /\ req \in [Workers -> Request]
    /\ now \in 0..MaxTime
    /\ announced \in Nat /\ publications \in Nat
    /\ overlapped \in BOOLEAN
    /\ changedAt \in Nat
    /\ raced \in BOOLEAN

Init ==
    /\ route = [status |-> "new", paid |-> FALSE, photos |-> "none"]
    /\ list \in List
    /\ cache = NoEntry
    /\ req = [w \in Workers |-> Idle]
    /\ now = 0
    /\ announced = 0 /\ publications = 0
    /\ overlapped = FALSE
    /\ changedAt = 0
    /\ raced = FALSE

-----------------------------------------------------------------------------
\* The row is locked from its UPDATE or DELETE to the commit.
Locked == \E w \in Workers : req[w].pc = "commit"

Reading == \E w \in Workers : req[w].kind = "read"

Start(w, r) == req[w].pc = "idle" /\ req' = [req EXCEPT ![w] = r]
Goto(w, pc) == req' = [req EXCEPT ![w].pc = pc]
Finish(w) == req' = [req EXCEPT ![w] = Idle]

\* mutant: the list is not deleted.
InvalidateNothing == UNCHANGED <<cache, raced>>

\* cache_delete_pattern; an error of Redis is logged and ignored.
Invalidate ==
    \/ cache' = NoEntry /\ UNCHANGED raced
    \/ raced' = (raced \/ Cached) /\ UNCHANGED cache

-----------------------------------------------------------------------------
(***************************************************************************)
(* Writers.                                                                *)
(***************************************************************************)

\* The row is inserted, and stays invisible until the commit.
CreateRoute(w, ch) ==
    /\ route.status = "new"
    /\ \A v \in Workers : req[v].kind # "create"
    /\ ch.status # "keep"
    /\ Start(w, [Idle EXCEPT !.kind = "create", !.pc = "commit", !.change = ch])
    /\ IF ch.status = "published" THEN Invalidate ELSE UNCHANGED <<cache, raced>>
    /\ UNCHANGED <<route, list, now, announced, publications, overlapped, changedAt>>

UpdateBegin(w, ch) ==
    /\ Exists
    /\ announced < MaxPublications /\ publications < MaxPublications
    /\ Start(w, [Idle EXCEPT !.kind = "update", !.pc = "write", !.old = route.status,
                             !.change = ch])
    /\ overlapped' = (overlapped \/ \E v \in Workers : req[v].kind = "update")
    /\ UNCHANGED <<route, list, cache, now, announced, publications, changedAt, raced>>

\* The author, or an administrator (or the cascade of a deleted account, which
\* does to the row and to the lists what an administrator does).
DeleteBegin(w, kind) ==
    /\ Exists
    /\ Start(w, [Idle EXCEPT !.kind = kind, !.pc = "write"])
    /\ UNCHANGED <<route, list, cache, now, announced, publications, overlapped,
                   changedAt, raced>>

\* An update of a row that is gone fails at its second SELECT; a DELETE of one
\* does nothing.  An administrator leaves the lists alone.
Write(w) ==
    /\ req[w].pc = "write"
    /\ ~Locked
    /\ IF req[w].kind = "update" /\ ~Exists
       THEN Finish(w) /\ UNCHANGED <<cache, raced>>
       ELSE /\ Goto(w, "commit")
            /\ IF req[w].kind = "admin" THEN UNCHANGED <<cache, raced>> ELSE Invalidate
    /\ UNCHANGED <<route, list, now, announced, publications, overlapped, changedAt>>

\* The UPDATE sets the given fields (model_dump(exclude_none)) of the row as it is.
Apply(r, ch) ==
    [status |-> IF ch.status = "keep" THEN r.status ELSE ch.status,
     paid   |-> IF ch.paid = "keep" THEN r.paid ELSE ch.paid = "yes",
     photos |-> IF ch.photos = "keep" THEN r.photos ELSE ch.photos]

NewRow(w) ==
    IF req[w].kind \in {"create", "update"} THEN Apply(route, req[w].change)
    ELSE [route EXCEPT !.status = "deleted"]

\* mutants: every update of a published route is announced; only updates are.
AnnouncesAlways(w) == req[w].change.status = "published"
AnnouncesUpdates(w) ==
    req[w].kind = "update" /\ req[w].change.status = "published" /\ req[w].old # "published"

\* The decision is made on the status that was read at the start.
Announces(w) == req[w].change.status = "published" /\ req[w].old # "published"

\* The row becomes visible, and the notifications with it.
Commit(w) ==
    LET r == NewRow(w)
        changes == Shown(r) # Shown(route) IN
    /\ req[w].pc = "commit"
    /\ route' = r
    /\ announced' = IF Announces(w) THEN announced + 1 ELSE announced
    /\ publications' = IF r.status = "published" /\ route.status # "published"
                       THEN publications + 1 ELSE publications
    /\ changedAt' = IF changes THEN now ELSE changedAt
    /\ raced' = (raced \/ (changes /\ (Reading \/ req[w].kind = "admin")))
    /\ req' = [v \in Workers |->
                 IF v = w THEN Idle
                 ELSE IF req[v].pc = "fetch" /\ r.photos = "author"
                 THEN [req[v] EXCEPT !.late = TRUE] ELSE req[v]]
    /\ UNCHANGED <<list, cache, now, overlapped>>

-----------------------------------------------------------------------------
(***************************************************************************)
(* Readers: get_recommended without a user, get_regions.                   *)
(***************************************************************************)

\* mutant: a photo is fetched for every region.
PhotoAlways == list = "regions" /\ route.status = "published"

\* A region without a photo gets one, for one of its published routes.
PhotoMissing == list = "regions" /\ route.status = "published" /\ route.photos = "none"

\* The list was not in the cache, or cache_get failed.
Read(w) ==
    /\ Start(w, [Idle EXCEPT !.kind = "read", !.pc = IF PhotoMissing THEN "fetch" ELSE "fill",
                             !.seen = Shown(route), !.since = now])
    /\ UNCHANGED <<route, list, cache, now, announced, publications, overlapped,
                   changedAt, raced>>

\* The UPDATE is by id, and committed at once.
PhotoWrite(w) ==
    /\ req[w].pc = "fetch"
    /\ ~Locked
    /\ route' = IF Exists THEN [route EXCEPT !.photos = "wiki"] ELSE route
    /\ Goto(w, "fill")
    /\ UNCHANGED <<list, cache, now, announced, publications, overlapped, changedAt, raced>>

\* Wikimedia has none, or the download failed.
PhotoSkip(w) ==
    /\ req[w].pc = "fetch"
    /\ Goto(w, "fill")
    /\ UNCHANGED <<route, list, cache, now, announced, publications, overlapped,
                   changedAt, raced>>

FillWith(w, exp) ==
    /\ req[w].pc = "fill"
    /\ \/ UNCHANGED <<cache, raced>>    \* cache_set failed
       \/ /\ cache' = [shown |-> req[w].seen, exp |-> exp, read |-> req[w].since]
          /\ raced' = (raced \/ Locked)
    /\ Finish(w)
    /\ UNCHANGED <<route, list, now, announced, publications, overlapped, changedAt>>

\* mutant: no expiry.
FillForever(w) == FillWith(w, MaxTime + 1)

Fill(w) == FillWith(w, now + Ttl)

-----------------------------------------------------------------------------
\* A crash or an error: the transaction rolls back, a list that was deleted
\* stays deleted.
Abort(w) ==
    /\ req[w].pc # "idle"
    /\ Finish(w)
    /\ UNCHANGED <<route, list, cache, now, announced, publications, overlapped,
                   changedAt, raced>>

\* Redis drops a list when its time has come.
Tick ==
    /\ now < MaxTime
    /\ \A w \in Workers : req[w].kind = "read" => now < req[w].since + Patience
    /\ now' = now + 1
    /\ cache' = IF cache.exp <= now' THEN NoEntry ELSE cache
    /\ UNCHANGED <<route, list, req, announced, publications, overlapped, changedAt, raced>>

Writer(w) ==
    \/ \E ch \in Changes : CreateRoute(w, ch) \/ UpdateBegin(w, ch)
    \/ \E kind \in {"delete", "admin"} : DeleteBegin(w, kind)
    \/ Write(w) \/ Commit(w)

Reader(w) ==
    \/ Read(w)
    \/ PhotoWrite(w) \/ PhotoSkip(w) \/ Fill(w)

Next == Tick \/ \E w \in Workers : Writer(w) \/ Reader(w) \/ Abort(w)

Spec == Init /\ [][Next]_vars

-----------------------------------------------------------------------------
(***************************************************************************)
(* Properties.                                                             *)
(***************************************************************************)

\* A route that can be read was announced to the followers, whatever updates
\* overlapped: that the decision is made on an old status never skips the first.
PublishedIsAnnounced == route.status = "published" => announced > 0

\* "Notify followers when status changes to published": once for each time,
\* unless two updates have overlapped.
AnnouncedPerPublication == ~overlapped => announced = publications

\* A list is never wrong for longer than it may live, counted from the change it
\* misses, and the time its reader took: a private route disappears, a route made
\* paid is locked, also where deleting the list was too early, failed or never done.
StaleBounded ==
    Cached /\ cache.shown # Shown(route) => now < changedAt + Patience + Ttl

\* A list is right unless its deletion failed or was left out, or a reader and
\* a writer were at it at the same time.
FreshUnlessRaced ==
    Cached /\ ~raced => cache.shown = Shown(route)

\* The author's photos are replaced by one from Wikimedia only if they were set
\* while it was being fetched.
AuthorPhotosKept ==
    [][route.photos = "author" /\ route'.photos = "wiki" =>
         \E w \in Workers : req[w].pc = "fetch" /\ req[w].late]_vars

=============================================================================
