----------------------------- MODULE Generation -----------------------------
(***************************************************************************)
(* The generation of a route by a background task of the server.           *)
(*                                                                         *)
(* The language model names the waypoints; a geocoder places them; those   *)
(* far from the others, and those far from the one before, are sent back   *)
(* to the language model a bounded number of times; a router draws a line  *)
(* through what is left; photos are collected near the points.  The client *)
(* polls an entry in Redis that the task writes twice; a poll may fail.     *)
(*                                                                         *)
(* The module follows ONE task.  A step ends at each call the task awaits. *)
(* The replies of the services are nondeterministic.  A place is a pair    *)
(* <<latitude, longitude>> on a plane instead of the globe.                *)
(***************************************************************************)
EXTENDS Integers, Sequences, FiniteSets

CONSTANTS
    Places,               \* where the geocoder may put an address
    NoPlace,              \* no address, no result, or all retries failed
    Urls,                 \* photos that Wikimedia may return
    MaxWaypoints,         \* bound: waypoints the language model names
    Distances,            \* lengths of a route the language model may state
    MaxLine,              \* bound: coordinates of the router's line
    DefaultSpread,        \* DEFAULT_MAX_SPREAD_KM
    MaxGap,               \* _MAX_CONSECUTIVE_GAP_KM
    MaxOutlierAttempts,   \* _MAX_OUTLIER_FIX_ATTEMPTS
    MaxGapAttempts,       \* _MAX_GAP_FIX_ATTEMPTS
    RetryAttempts,        \* _RETRY_ATTEMPTS
    PhotosPerWaypoint,    \* _MAX_PHOTOS_PER_WAYPOINT
    PhotosTotal           \* _MAX_PHOTOS_TOTAL

ASSUME GenerationAssumption ==
    /\ Places \subseteq Int \X Int
    /\ NoPlace \notin Places
    /\ Distances \subseteq Nat
    /\ {MaxWaypoints, MaxLine, DefaultSpread, MaxGap} \subseteq Nat
    /\ {MaxOutlierAttempts, MaxGapAttempts, RetryAttempts} \subseteq Nat \ {0}
    /\ {PhotosPerWaypoint, PhotosTotal} \subseteq Nat \ {0}

VARIABLES
    store,      \* the status in the task's entry in Redis; "none" if there is no entry
    pc,         \* where the task is
    outcome,    \* the status the task will save
    raw,        \* number of waypoints the language model named
    spread,     \* max_spread
    points,     \* the waypoints the current pass reads
    kept,       \* the waypoints it has kept: "result" in the code
    center,     \* the median centre of the geocoded waypoints
    i,          \* the waypoint the pass is at
    attempt,    \* the attempt to repair it
    tries,      \* calls made of the request that is being retried
    route,      \* the waypoints, line and photos of the result
    answer      \* what the client's last poll was answered; "none" is a 404

task == <<store, pc, outcome, raw, spread, points, kept, center, i, attempt, tries, route>>
vars == <<store, pc, outcome, raw, spread, points, kept, center, i, attempt, tries, route, answer>>
pass == <<points, kept, i, attempt>>
plan == <<raw, spread, center>>

-----------------------------------------------------------------------------
\* src is the position in the language model's list, 0 for an inserted point.
Point == [src : 0..MaxWaypoints, at : Places]
Photo == [url : Urls, near : Nat]
Route == [points : Seq(Point), line : Seq(Places), photos : Seq(Photo)]
Verdicts == {"completed", "failed"}
Entries == {"none", "pending"} \cup Verdicts
Stages == {"idle", "save", "llm", "geocode", "outliers", "gaps", "line", "photos",
           "build", "verdict", "done", "lost"}
NoRoute == [points |-> <<>>, line |-> <<>>, photos |-> <<>>]

\* The shape of the state; center is what MedianCenter makes it.
TaskOK ==
    /\ store \in Entries
    /\ pc \in Stages
    /\ outcome \in {"none"} \cup Verdicts
    /\ raw \in 0..MaxWaypoints
    /\ spread \in Nat
    /\ points \in Seq(Point)
    /\ kept \in Seq(Point)
    /\ i \in Nat \ {0}
    /\ attempt \in Nat
    /\ tries \in 0..(RetryAttempts - 1)
    /\ route \in Route

TypeOK == TaskOK /\ answer \in Entries

Init ==
    /\ store = "none"
    /\ pc = "idle" /\ outcome = "none"
    /\ raw = 0 /\ spread = DefaultSpread /\ center = <<0, 0>>
    /\ points = <<>> /\ kept = <<>> /\ i = 1 /\ attempt = 1
    /\ tries = 0
    /\ route = NoRoute
    /\ answer = "none"

-----------------------------------------------------------------------------
\* Squares instead of the root of the haversine formula.
Distance2(p, q) == (p[1] - q[1]) * (p[1] - q[1]) + (p[2] - q[2]) * (p[2] - q[2])
Within(p, q, limit) == Distance2(p, q) <= limit * limit

\* sorted(xs)[len(xs) // 2]
Median(xs) ==
    CHOOSE m \in {xs[k] : k \in DOMAIN xs} :
        LET below == Cardinality({k \in DOMAIN xs : xs[k] < m})
            notAbove == Cardinality({k \in DOMAIN xs : xs[k] <= m})
        IN  below <= Len(xs) \div 2 /\ Len(xs) \div 2 < notAbove

\* Each coordinate on its own: the centre need not be one of the places.
MedianCenter(pts) ==
    <<Median([k \in DOMAIN pts |-> pts[k].at[1]]),
      Median([k \in DOMAIN pts |-> pts[k].at[2]])>>

\* The nearest coordinate of the line, the first of several.
Nearest(line, p) ==
    line[CHOOSE k \in DOMAIN line :
           \A l \in DOMAIN line :
               \/ Distance2(line[k], p) < Distance2(line[l], p)
               \/ Distance2(line[k], p) = Distance2(line[l], p) /\ k <= l]

Snap(pts, line) ==
    IF line = <<>> THEN pts
    ELSE [k \in DOMAIN pts |-> [pts[k] EXCEPT !.at = Nearest(line, @)]]

Lines == UNION {[1..n -> Places] : n \in 0..MaxLine}

Last(s) == s[Len(s)]

-----------------------------------------------------------------------------
(***************************************************************************)
(* The passes over the waypoints share their steps.                        *)
(***************************************************************************)

Goto(stage) == pc' = stage /\ tries' = 0

StartPass(input, keep, first) ==
    /\ points' = input
    /\ kept' = keep
    /\ i' = first
    /\ attempt' = 1

Keep(point) ==
    /\ kept' = Append(kept, point)
    /\ i' = i + 1
    /\ attempt' = 1

\* After the last attempt the waypoint is dropped.
NextAttempt(max) ==
    /\ attempt' = IF attempt < max THEN attempt + 1 ELSE 1
    /\ i' = IF attempt < max THEN i ELSE i + 1
    /\ UNCHANGED kept

\* Everything the task computed is dropped with the exception that ends it.
Fail ==
    /\ Goto("verdict")
    /\ outcome' = "failed"
    /\ StartPass(<<>>, <<>>, 1)
    /\ route' = NoRoute
    /\ UNCHANGED <<store, plan>>

-----------------------------------------------------------------------------
(***************************************************************************)
(* The task and its entry.                                                 *)
(***************************************************************************)

\* The id is answered before anything is saved: an early poll gets a 404.
CreateTask ==
    /\ pc = "idle"
    /\ Goto("save")
    /\ UNCHANGED <<store, outcome, plan, pass, route>>

\* cache_set logs an error of Redis and goes on.
SaveTask(status) == store' \in {store, status}

FirstSave ==
    /\ pc = "save"
    /\ SaveTask("pending")
    /\ Goto("llm")
    /\ UNCHANGED <<outcome, plan, pass, route>>

\* mutant: "pending" is written again, over an entry that may be gone.
LastSavePending ==
    /\ pc = "verdict"
    /\ SaveTask("pending")
    /\ Goto("done")
    /\ UNCHANGED <<outcome, plan, pass, route>>

LastSave ==
    /\ pc = "verdict"
    /\ SaveTask(outcome)
    /\ Goto("done")
    /\ UNCHANGED <<outcome, plan, pass, route>>

\* The process stops, or the event loop, which alone refers to the task and does
\* so weakly, loses it.  Nobody takes the task over.
Lose ==
    /\ pc \notin {"idle", "done", "lost"}
    /\ Goto("lost")
    /\ StartPass(<<>>, <<>>, 1)
    /\ route' = NoRoute
    /\ UNCHANGED <<store, outcome, plan>>

\* mutant: "pending" is saved without a time to live.
ExpireVerdict ==
    /\ store \in Verdicts
    /\ store' = "none"
    /\ UNCHANGED <<pc, outcome, plan, pass, tries, route>>

\* The entry's hour is over, the task's own run included.
Expire ==
    /\ store # "none"
    /\ store' = "none"
    /\ UNCHANGED <<pc, outcome, plan, pass, tries, route>>

\* The client has the id and asks for the entry.  cache_get logs an error of Redis
\* and finds nothing: a 404, whatever the entry is.
Poll ==
    /\ pc # "idle"
    /\ answer' \in {store, "none"}
    /\ UNCHANGED task

-----------------------------------------------------------------------------
(***************************************************************************)
(* From the form to waypoints with coordinates.                            *)
(***************************************************************************)

\* A missing key, an error or a malformed answer of the language model, an
\* answer that does not fit the schema of the result.
Raise ==
    /\ pc \in {"llm", "geocode", "build"}
    /\ Fail

AskForRoute(n, distance) ==
    /\ pc = "llm"
    /\ IF n < 2
       THEN Fail
       ELSE /\ Goto("geocode")
            /\ raw' = n
            /\ spread' = IF distance > DefaultSpread THEN distance ELSE DefaultSpread
            /\ UNCHANGED <<store, outcome, center, pass, route>>

\* mutant: every failure is tried again.
RetryForever ==
    /\ pc \in {"geocode", "outliers", "gaps", "line"}
    /\ tries' = (tries + 1) % RetryAttempts
    /\ UNCHANGED <<store, pc, outcome, plan, pass, route>>

\* A timeout or a network error of the geocoder or the router; an error status
\* is not tried again.
Retry ==
    /\ pc \in {"geocode", "outliers", "gaps", "line"}
    /\ tries < RetryAttempts - 1
    /\ tries' = tries + 1
    /\ UNCHANGED <<store, pc, outcome, plan, pass, route>>

\* The results are combined in the order of the waypoints, whatever the order
\* they arrive in.  A waypoint without coordinates is skipped.
Geocode(at) ==
    /\ pc = "geocode"
    /\ i <= raw
    /\ points' = IF at = NoPlace THEN points ELSE Append(points, [src |-> i, at |-> at])
    /\ i' = i + 1
    /\ tries' = 0
    /\ UNCHANGED <<store, pc, outcome, plan, kept, attempt, route>>

Geocoded ==
    /\ pc = "geocode"
    /\ i > raw
    /\ IF Len(points) < 2
       THEN Fail
       ELSE /\ Goto("outliers")
            /\ center' = MedianCenter(points)
            /\ StartPass(points, <<>>, 1)
            /\ UNCHANGED <<store, outcome, raw, spread, route>>

-----------------------------------------------------------------------------
(***************************************************************************)
(* Waypoints far from the centre.                                          *)
(***************************************************************************)

Central == Within(center, points[i].at, spread)

KeepCentral ==
    /\ pc = "outliers"
    /\ i <= Len(points)
    /\ Central
    /\ Keep(points[i])
    /\ UNCHANGED <<store, pc, outcome, plan, points, tries, route>>

\* One round of the language model and the geocoder; tries starts again with
\* the next name.
MoveOutlier(at) ==
    /\ pc = "outliers"
    /\ i <= Len(points)
    /\ ~Central
    /\ IF at # NoPlace /\ Within(center, at, spread)
       THEN Keep([points[i] EXCEPT !.at = at])
       ELSE NextAttempt(MaxOutlierAttempts)
    /\ tries' = 0
    /\ UNCHANGED <<store, pc, outcome, plan, points, route>>

OutliersDone ==
    /\ pc = "outliers"
    /\ i > Len(points)
    /\ IF Len(kept) < 2
       THEN Fail
       ELSE /\ Goto("gaps")
            /\ StartPass(kept, <<kept[1]>>, 2)
            /\ UNCHANGED <<store, outcome, plan, route>>

-----------------------------------------------------------------------------
(***************************************************************************)
(* Gaps between consecutive waypoints.                                     *)
(***************************************************************************)

Close == Within(Last(kept).at, points[i].at, MaxGap)

KeepClose ==
    /\ pc = "gaps"
    /\ i <= Len(points)
    /\ Close
    /\ Keep(points[i])
    /\ UNCHANGED <<store, pc, outcome, plan, points, tries, route>>

\* mutants: the new place is measured from the one it replaces; the loop does
\* not go on to the next waypoint.
CloseGapFromCurrent(action, at) ==
    /\ pc = "gaps"
    /\ i <= Len(points)
    /\ ~Close
    /\ IF at # NoPlace /\ Within(points[i].at, at, MaxGap)
       THEN Keep([src |-> IF action = "fix" THEN points[i].src ELSE 0, at |-> at])
       ELSE NextAttempt(MaxGapAttempts)
    /\ tries' = 0
    /\ UNCHANGED <<store, pc, outcome, plan, points, route>>

CloseGapStays(action, at) ==
    /\ pc = "gaps"
    /\ i <= Len(points)
    /\ ~Close
    /\ IF at # NoPlace /\ Within(Last(kept).at, at, MaxGap)
       THEN /\ kept' = Append(kept, [points[i] EXCEPT !.at = at])
            /\ UNCHANGED <<i, attempt>>
       ELSE NextAttempt(MaxGapAttempts)
    /\ tries' = 0
    /\ UNCHANGED <<store, pc, outcome, plan, points, route>>

\* "fix" puts the waypoint elsewhere, "insert" a new point in its place: the
\* loop goes on with the next waypoint in both cases.
CloseGap(action, at) ==
    /\ pc = "gaps"
    /\ i <= Len(points)
    /\ ~Close
    /\ IF at # NoPlace /\ Within(Last(kept).at, at, MaxGap)
       THEN Keep([src |-> IF action = "fix" THEN points[i].src ELSE 0, at |-> at])
       ELSE NextAttempt(MaxGapAttempts)
    /\ tries' = 0
    /\ UNCHANGED <<store, pc, outcome, plan, points, route>>

\* mutant: the number of waypoints is checked before the gaps only.
GapsDoneUnchecked ==
    /\ pc = "gaps"
    /\ i > Len(points)
    /\ Goto("line")
    /\ UNCHANGED <<store, outcome, plan, pass, route>>

GapsDone ==
    /\ pc = "gaps"
    /\ i > Len(points)
    /\ IF Len(kept) < 2
       THEN Fail
       ELSE Goto("line") /\ UNCHANGED <<store, outcome, plan, pass, route>>

-----------------------------------------------------------------------------
(***************************************************************************)
(* The line, the photos and the answer.                                    *)
(***************************************************************************)

\* <<>>: the router failed, and the route has no line.
BuildLine(line) ==
    /\ pc = "line"
    /\ route' = [points |-> Snap(kept, line), line |-> line, photos |-> <<>>]
    /\ StartPass(<<>>, <<>>, 1)
    /\ Goto("photos")
    /\ UNCHANGED <<store, outcome, plan>>

Taken == Cardinality({k \in DOMAIN route.photos : route.photos[k].near = i})
Known(url) == \E k \in DOMAIN route.photos : route.photos[k].url = url

\* The lists of all points are fetched, then walked in order; a photo that is
\* already there is passed over.  mutant: the total is not looked at.
TakePhotoUncounted(url) ==
    /\ pc = "photos"
    /\ i <= Len(route.points)
    /\ Taken < PhotosPerWaypoint
    /\ ~Known(url)
    /\ route' = [route EXCEPT !.photos = Append(@, [url |-> url, near |-> i])]
    /\ UNCHANGED <<store, pc, outcome, plan, pass, tries>>

TakePhoto(url) ==
    /\ pc = "photos"
    /\ i <= Len(route.points)
    /\ Taken < PhotosPerWaypoint
    /\ ~Known(url)
    /\ route' = [route EXCEPT !.photos = Append(@, [url |-> url, near |-> i])]
    /\ pc' = IF Len(route.photos) + 1 >= PhotosTotal THEN "build" ELSE pc
    /\ UNCHANGED <<store, outcome, plan, pass, tries>>

NextPhotos ==
    /\ pc = "photos"
    /\ i <= Len(route.points)
    /\ i' = i + 1
    /\ pc' = IF i = Len(route.points) THEN "build" ELSE pc
    /\ UNCHANGED <<store, outcome, plan, points, kept, attempt, tries, route>>

Build ==
    /\ pc = "build"
    /\ outcome' = "completed"
    /\ Goto("verdict")
    /\ UNCHANGED <<store, plan, pass, route>>

-----------------------------------------------------------------------------
\* Every step of the task itself.
Work ==
    \/ FirstSave \/ LastSave
    \/ Raise
    \/ \E n \in 0..MaxWaypoints, distance \in Distances : AskForRoute(n, distance)
    \/ Retry
    \/ \E at \in Places \cup {NoPlace} : Geocode(at)
    \/ Geocoded
    \/ KeepCentral
    \/ \E at \in Places \cup {NoPlace} : MoveOutlier(at)
    \/ OutliersDone
    \/ KeepClose
    \/ \E action \in {"fix", "insert"}, at \in Places \cup {NoPlace} : CloseGap(action, at)
    \/ GapsDone
    \/ \E line \in Lines : BuildLine(line)
    \/ \E url \in Urls : TakePhoto(url)
    \/ NextPhotos
    \/ Build

TaskStep == CreateTask \/ Work \/ Lose \/ Expire

Next == (TaskStep /\ UNCHANGED answer) \/ Poll

Spec == Init /\ [][Next]_vars

\* The event loop runs the task, and Redis expires entries.
FairSpec == Spec /\ WF_task(Work) /\ WF_task(Expire)

-----------------------------------------------------------------------------
(***************************************************************************)
(* The waypoints.                                                          *)
(***************************************************************************)

\* "If the gap is still there after all attempts the point is removed": what
\* the pass over the gaps keeps has none, wherever the repairs moved, inserted
\* and dropped points, so that each was measured from the right neighbour.
GapsClosed ==
    pc \in {"gaps", "line"} =>
        \A k \in 1..(Len(kept) - 1) : Within(kept[k].at, kept[k + 1].at, MaxGap)

\* The waypoints that survive skipping, dropping, moving and inserting are in
\* the order the language model gave them, each at most once, in every pass.
Ordered(s) ==
    \A k, l \in DOMAIN s :
        (k < l /\ s[k].src # 0 /\ s[l].src # 0) => s[k].src < s[l].src

InOrder == Ordered(points) /\ Ordered(kept) /\ Ordered(route.points)

\* A completed answer can be drawn: two waypoints at least, all of them on the
\* line if there is one, however many were skipped, dropped or repaired.
RouteDrawable ==
    outcome = "completed" /\ pc # "lost" =>
        /\ Len(route.points) >= 2
        /\ route.line # <<>> =>
             \A k \in DOMAIN route.points :
                 \E l \in DOMAIN route.line : route.line[l] = route.points[k].at

\* No photo twice though neighbours share them, and not more of them than the
\* limits for a point and for the whole route.
PhotosBounded ==
    /\ Len(route.photos) <= PhotosTotal
    /\ \A k, l \in DOMAIN route.photos :
         route.photos[k].url = route.photos[l].url => k = l
    /\ \A n \in DOMAIN route.points :
         Cardinality({k \in DOMAIN route.photos : route.photos[k].near = n})
             <= PhotosPerWaypoint

(***************************************************************************)
(* The entry.                                                              *)
(***************************************************************************)

\* What the client polls is a task as AiTask describes it: an answer is the entry or
\* a 404, and the entry is "pending" at most once and never after a verdict, through
\* lost writes, failed reads, crashes and expiry.
Phase ==
    CASE pc \in {"idle", "save"} -> "new"
      [] pc \in {"done", "lost"} -> "closed"
      [] OTHER -> "open"
Task == INSTANCE AiTask WITH status <- store, phase <- Phase
TaskSpec == Task!Spec

\* A generation comes to its end, whatever the services answer and however often
\* they fail: the attempts and retries of all passes are bounded together.
GenerationEnds == (pc = "save") ~> (pc \in {"done", "lost"})

\* The entry does not stay "pending" for ever, though the process may have
\* stopped or the last write may have been lost.
PendingEnds == (store = "pending") ~> (store # "pending")

(***************************************************************************)
(* What the code says of the gaps and does not do.                         *)
(***************************************************************************)

\* "Up to 5 attempts on each problem point.  If the gap is still there after all
\* attempts the point is removed": not before.
DroppedOnlyAfterAllAttempts ==
    [][(pc = "gaps" /\ i' = i + 1 /\ attempt < MaxGapAttempts) =>
          \E k \in DOMAIN kept' : kept'[k].src = points[i].src]_vars

=============================================================================
