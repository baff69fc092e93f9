-------------------------- MODULE GenerationProofs --------------------------
(***************************************************************************)
(* Proofs about Generation, for any places, limits and numbers of attempts.*)
(***************************************************************************)
EXTENDS Generation, FiniteSetTheorems, WellFoundedInduction, TLAPS

(***************************************************************************)
(* Numbers and sequences.                                                  *)
(***************************************************************************)

LEMMA NatMin ==
    ASSUME NEW S \in SUBSET Nat, S # {}
    PROVE  \E m \in S : \A n \in S : m <= n
<1> DEFINE R == OpToRel(<, Nat)
<1>1. IsWellFoundedOn(R, Nat)
  BY NatLessThanWellFounded
<1>2. \A m, n \in Nat : m < n => <<m, n>> \in R
  BY DEF OpToRel
<1> HIDE DEF R
<1>3. PICK x \in S : \A y \in S : ~(<<y, x>> \in R)
  BY <1>1, WFMin
<1>4. \A y \in S : ~(y < x)
  BY <1>2, <1>3
<1>5. x \in Nat /\ \A y \in S : y \in Nat
  OBVIOUS
<1>6. QED
  BY <1>3, <1>4, <1>5

LEMMA AppendFacts ==
    ASSUME NEW S, NEW s \in Seq(S), NEW e \in S
    PROVE  /\ Append(s, e) \in Seq(S)
           /\ Len(Append(s, e)) = Len(s) + 1
           /\ \A k \in 1..Len(s) : Append(s, e)[k] = s[k]
           /\ Append(s, e)[Len(s) + 1] = e
OBVIOUS

LEMMA LinesAreSequences == Lines \subseteq Seq(Places)
BY GenerationAssumption DEF Lines

LEMMA DistanceIsNatural ==
    ASSUME NEW p \in Int \X Int, NEW q \in Int \X Int
    PROVE  Distance2(p, q) \in Nat
<1>1. \A x \in Int : x * x \in Nat
  OBVIOUS
<1>2. p[1] - q[1] \in Int /\ p[2] - q[2] \in Int
  OBVIOUS
<1>3. QED
  BY <1>1, <1>2 DEF Distance2

\* The nearest coordinate of a line is one of its coordinates: among those at
\* the least distance there is a first.
LEMMA NearestIsOnLine ==
    ASSUME NEW line \in Seq(Places), line # <<>>, NEW p \in Places
    PROVE  \E k \in DOMAIN line : Nearest(line, p) = line[k]
<1> DEFINE d(k) == Distance2(line[k], p)
<1> DEFINE Best(k) == \A l \in DOMAIN line : d(k) < d(l) \/ (d(k) = d(l) /\ k <= l)
<1>1. DOMAIN line = 1..Len(line) /\ 1 \in DOMAIN line
  OBVIOUS
<1>2. \A k \in DOMAIN line : d(k) \in Nat
  BY GenerationAssumption, DistanceIsNatural, <1>1
<1> HIDE DEF d
<1>3. PICK least \in {d(k) : k \in DOMAIN line} : \A n \in {d(k) : k \in DOMAIN line} : least <= n
  <2>1. {d(k) : k \in DOMAIN line} \in SUBSET Nat
    BY <1>2
  <2>2. d(1) \in {d(k) : k \in DOMAIN line}
    BY <1>1
  <2>3. QED
    BY <2>1, <2>2, NatMin
<1>4. PICK first \in {k \in DOMAIN line : d(k) = least} :
        \A n \in {k \in DOMAIN line : d(k) = least} : first <= n
  <2>1. {k \in DOMAIN line : d(k) = least} \in SUBSET Nat
    BY <1>1
  <2>2. {k \in DOMAIN line : d(k) = least} # {}
    BY <1>3
  <2>3. QED
    BY <2>1, <2>2, NatMin
<1>5. first \in DOMAIN line /\ Best(first)
  <2>1. ASSUME NEW l \in DOMAIN line
        PROVE  d(first) < d(l) \/ (d(first) = d(l) /\ first <= l)
    <3>1. d(first) = least /\ least <= d(l) /\ d(l) \in Nat /\ d(first) \in Nat
      BY <1>2, <1>3, <1>4
    <3>2. CASE d(l) = least
      BY <3>1, <3>2, <1>4
    <3>3. CASE d(l) # least
      BY <3>1, <3>3
    <3>4. QED
      BY <3>2, <3>3
  <2>2. QED
    BY <2>1, <1>4
<1>6. Nearest(line, p) = line[CHOOSE k \in DOMAIN line : Best(k)]
  BY DEF Nearest, d
<1> HIDE DEF Best
<1>7. (CHOOSE k \in DOMAIN line : Best(k)) \in DOMAIN line
  BY <1>5
<1>8. QED
  BY <1>6, <1>7

\* Snapping moves the points onto the line and changes nothing else.
LEMMA SnapFacts ==
    ASSUME NEW pts \in Seq(Point), NEW line \in Seq(Places)
    PROVE  /\ Snap(pts, line) \in Seq(Point)
           /\ Len(Snap(pts, line)) = Len(pts)
           /\ \A k \in DOMAIN pts : Snap(pts, line)[k].src = pts[k].src
           /\ line # <<>> => \A k \in DOMAIN pts : \E l \in DOMAIN line :
                               line[l] = Snap(pts, line)[k].at
<1>1. CASE line = <<>>
  BY <1>1 DEF Snap
<1>2. CASE line # <<>>
  <2> DEFINE f == [k \in DOMAIN pts |-> [pts[k] EXCEPT !.at = Nearest(line, @)]]
  <2>1. Snap(pts, line) = f
    BY <1>2 DEF Snap
  <2>2. ASSUME NEW k \in DOMAIN pts
        PROVE  /\ f[k] \in Point /\ f[k].src = pts[k].src
               /\ \E l \in DOMAIN line : line[l] = f[k].at
    <3>1. pts[k] \in Point
      OBVIOUS
    <3>2. PICK l \in DOMAIN line : Nearest(line, pts[k].at) = line[l]
      BY <3>1, <1>2, NearestIsOnLine DEF Point
    <3>3. line[l] \in Places
      OBVIOUS
    <3>4. f[k] = [pts[k] EXCEPT !.at = line[l]]
      BY <3>2
    <3> HIDE DEF f
    <3>5. f[k].src = pts[k].src /\ f[k].at = line[l] /\ f[k] \in Point
      BY <3>1, <3>3, <3>4 DEF Point
    <3>6. QED
      BY <3>5
  <2>3. DOMAIN f = 1..Len(pts) /\ f = [k \in DOMAIN f |-> f[k]]
    OBVIOUS
  <2> HIDE DEF f
  <2>4. f \in [1..Len(pts) -> Point] /\ Len(pts) \in Nat /\ DOMAIN pts = 1..Len(pts)
    BY <2>2, <2>3
  <2>5. f \in Seq(Point) /\ Len(f) = Len(pts)
    BY <2>4
  <2>6. QED
    BY <2>1, <2>2, <2>5
<1>3. QED
  BY <1>1, <1>2

-----------------------------------------------------------------------------
(***************************************************************************)
(* Type correctness.                                                       *)
(***************************************************************************)

LEMMA NoRouteType == NoRoute \in Route /\ <<>> \in Seq(Point)
BY DEF NoRoute, Route

LEMMA GotoType ==
    ASSUME NEW stage \in Stages, Goto(stage)
    PROVE  pc' \in Stages /\ tries' \in 0..(RetryAttempts - 1)
BY GenerationAssumption DEF Goto

\* A waypoint is kept with its place, or with a new one.
LEMMA KeepType ==
    ASSUME TaskOK, NEW p \in Point, Keep(p)
    PROVE  kept' \in Seq(Point) /\ i' \in Nat \ {0} /\ attempt' \in Nat
BY AppendFacts DEF TaskOK, Keep

LEMMA NextAttemptType ==
    ASSUME TaskOK, NEW max, NextAttempt(max)
    PROVE  kept' \in Seq(Point) /\ i' \in Nat \ {0} /\ attempt' \in Nat
BY DEF TaskOK, NextAttempt

LEMMA FailType ==
    ASSUME TaskOK, Fail
    PROVE  TaskOK'
BY GotoType, NoRouteType DEF TaskOK, Fail, StartPass, plan, Verdicts, Stages

LEMMA PointsType ==
    ASSUME TaskOK, i <= Len(points), NEW at \in Places
    PROVE  /\ points[i] \in Point
           /\ [points[i] EXCEPT !.at = at] \in Point
           /\ [points[i] EXCEPT !.at = at].src = points[i].src
           /\ [points[i] EXCEPT !.at = at].at = at
<1>1. points[i] \in Point
  BY DEF TaskOK
<1>2. QED
  BY <1>1 DEF Point

LEMMA InitType == Init => TaskOK
BY GenerationAssumption, NoRouteType DEF Init, TaskOK, Entries, Verdicts, Stages

LEMMA NextType == TaskOK /\ [TaskStep]_task => TaskOK'
<1> SUFFICES ASSUME TaskOK, [TaskStep]_task PROVE TaskOK'
  OBVIOUS
<1> USE GenerationAssumption
<1>1. CASE CreateTask \/ FirstSave
  BY <1>1, GotoType
     DEF CreateTask, FirstSave, SaveTask, TaskOK, Entries, Stages, plan, pass
<1>2. CASE LastSave
  <2>1. outcome \in {"none"} \cup Verdicts /\ store' \in {store, outcome}
    BY <1>2 DEF LastSave, SaveTask, TaskOK, Entries
  <2>2. QED
    BY <1>2, <2>1, GotoType DEF LastSave, TaskOK, Entries, Stages, plan, pass
<1>3. CASE Raise
  BY <1>3, FailType DEF Raise
<1>4. ASSUME NEW n \in 0..MaxWaypoints, NEW distance \in Distances,
             AskForRoute(n, distance)
      PROVE  TaskOK'
  <2>1. CASE n < 2
    BY <1>4, <2>1, FailType DEF AskForRoute
  <2>2. CASE ~(n < 2)
    BY <1>4, <2>2, GotoType DEF AskForRoute, TaskOK, Stages, pass
  <2>3. QED
    BY <2>1, <2>2
<1>5. CASE Retry
  BY <1>5 DEF Retry, TaskOK, plan, pass
<1>6. ASSUME NEW at \in Places \cup {NoPlace}, Geocode(at) PROVE TaskOK'
  <2>1. points' \in Seq(Point)
    <3>1. CASE at = NoPlace
      BY <1>6, <3>1 DEF Geocode, TaskOK
    <3>2. CASE at # NoPlace
      <4>1. [src |-> i, at |-> at] \in Point
        BY <1>6, <3>2 DEF Geocode, TaskOK, Point
      <4>2. QED
        BY <1>6, <3>2, <4>1, AppendFacts DEF Geocode, TaskOK
    <3>3. QED
      BY <3>1, <3>2
  <2>2. QED
    BY <1>6, <2>1 DEF Geocode, TaskOK, plan
<1>7. CASE Geocoded
  <2>1. CASE Len(points) < 2
    BY <1>7, <2>1, FailType DEF Geocoded
  <2>2. CASE ~(Len(points) < 2)
    BY <1>7, <2>2, GotoType DEF Geocoded, StartPass, TaskOK, Stages
  <2>3. QED
    BY <2>1, <2>2
<1>8. CASE KeepCentral \/ KeepClose
  <2>1. points[i] \in Point
    BY <1>8 DEF KeepCentral, KeepClose, TaskOK
  <2>2. kept' \in Seq(Point) /\ i' \in Nat \ {0} /\ attempt' \in Nat
    BY <1>8, <2>1, KeepType DEF KeepCentral, KeepClose
  <2>3. QED
    BY <1>8, <2>2 DEF KeepCentral, KeepClose, TaskOK, plan
<1>9. ASSUME NEW at \in Places \cup {NoPlace}, MoveOutlier(at) PROVE TaskOK'
  <2>1. kept' \in Seq(Point) /\ i' \in Nat \ {0} /\ attempt' \in Nat
    <3>1. CASE at # NoPlace /\ Within(center, at, spread)
      BY <1>9, <3>1, PointsType, KeepType DEF MoveOutlier
    <3>2. CASE ~(at # NoPlace /\ Within(center, at, spread))
      BY <1>9, <3>2, NextAttemptType DEF MoveOutlier
    <3>3. QED
      BY <3>1, <3>2
  <2>2. QED
    BY <1>9, <2>1 DEF MoveOutlier, TaskOK, plan
<1>10. CASE OutliersDone
  <2>1. CASE Len(kept) < 2
    BY <1>10, <2>1, FailType DEF OutliersDone
  <2>2. CASE ~(Len(kept) < 2)
    <3>1. <<kept[1]>> \in Seq(Point)
      BY <2>2 DEF TaskOK
    <3>2. /\ Goto("gaps") /\ points' = kept /\ kept' = <<kept[1]>> /\ i' = 2 /\ attempt' = 1
          /\ UNCHANGED <<store, outcome, plan, route>>
      BY <1>10, <2>2 DEF OutliersDone, StartPass
    <3>3. pc' \in Stages /\ tries' \in 0..(RetryAttempts - 1)
      BY <3>2, GotoType DEF Stages
    <3>4. kept' \in Seq(Point)
      BY <3>1, <3>2
    <3>5. QED
      BY <3>2, <3>3, <3>4 DEF TaskOK, plan
  <2>3. QED
    BY <2>1, <2>2
<1>11. ASSUME NEW action \in {"fix", "insert"}, NEW at \in Places \cup {NoPlace},
              CloseGap(action, at)
       PROVE  TaskOK'
  <2>1. kept' \in Seq(Point) /\ i' \in Nat \ {0} /\ attempt' \in Nat
    <3>1. CASE at # NoPlace /\ Within(Last(kept).at, at, MaxGap)
      <4>0. points[i] \in Point /\ at \in Places
        BY <1>11, <3>1, PointsType DEF CloseGap
      <4>1. [src |-> IF action = "fix" THEN points[i].src ELSE 0, at |-> at] \in Point
        BY <4>0 DEF Point
      <4>2. QED
        BY <1>11, <3>1, <4>1, KeepType DEF CloseGap
    <3>2. CASE ~(at # NoPlace /\ Within(Last(kept).at, at, MaxGap))
      BY <1>11, <3>2, NextAttemptType DEF CloseGap
    <3>3. QED
      BY <3>1, <3>2
  <2>2. QED
    BY <1>11, <2>1 DEF CloseGap, TaskOK, plan
<1>12. CASE GapsDone
  <2>1. CASE Len(kept) < 2
    BY <1>12, <2>1, FailType DEF GapsDone
  <2>2. CASE ~(Len(kept) < 2)
    BY <1>12, <2>2, GotoType DEF GapsDone, TaskOK, Stages, plan, pass
  <2>3. QED
    BY <2>1, <2>2
<1>13. ASSUME NEW line \in Lines, BuildLine(line) PROVE TaskOK'
  <2>1. line \in Seq(Places) /\ Snap(kept, line) \in Seq(Point)
    BY LinesAreSequences, SnapFacts DEF TaskOK
  <2>2. route' \in Route
    BY <1>13, <2>1 DEF BuildLine, Route
  <2>3. QED
    BY <1>13, <2>2, NoRouteType, GotoType DEF BuildLine, StartPass, TaskOK, Stages, plan
<1>14. ASSUME NEW url \in Urls, TakePhoto(url) PROVE TaskOK'
  <2>1. route' \in Route
    <3>1. [url |-> url, near |-> i] \in Photo
      BY DEF Photo, TaskOK
    <3>2. Append(route.photos, [url |-> url, near |-> i]) \in Seq(Photo)
      BY <3>1, AppendFacts DEF TaskOK, Route
    <3>3. route' = [route EXCEPT !.photos = Append(route.photos, [url |-> url, near |-> i])]
      BY <1>14 DEF TakePhoto
    <3>4. QED
      BY <3>2, <3>3 DEF TaskOK, Route
  <2>2. QED
    BY <1>14, <2>1 DEF TakePhoto, TaskOK, Stages, plan, pass
<1>15. CASE NextPhotos
  BY <1>15 DEF NextPhotos, TaskOK, Stages, plan
<1>16. CASE Build
  BY <1>16, GotoType DEF Build, TaskOK, Stages, Verdicts, plan, pass
<1>17. CASE Lose
  BY <1>17, GotoType, NoRouteType DEF Lose, StartPass, TaskOK, Stages, plan
<1>18. CASE Expire
  BY <1>18 DEF Expire, TaskOK, Entries, plan, pass
<1>19. CASE UNCHANGED task
  BY <1>19 DEF task, TaskOK
<1>20. QED
  BY <1>1, <1>2, <1>3, <1>4, <1>5, <1>6, <1>7, <1>8, <1>9, <1>10, <1>11, <1>12,
     <1>13, <1>14, <1>15, <1>16, <1>17, <1>18, <1>19 DEF TaskStep, Work

\* A poll leaves the task alone.
LEMMA SpecRuns == Spec => Init /\ [][TaskStep]_task
<1>1. [Next]_vars => [TaskStep]_task
  BY DEF Next, Poll, vars, task
<1>2. QED
  BY <1>1, PTL DEF Spec

\* The state keeps its shape, whatever the services answer.
THEOREM TypeCorrect == Spec => []TypeOK
<1>1. Init => answer \in Entries
  BY DEF Init, Entries
<1>2. TaskOK /\ answer \in Entries /\ [Next]_vars => (answer \in Entries)'
  BY DEF Next, Poll, vars, TaskOK, Entries
<1>3. TypeOK <=> TaskOK /\ answer \in Entries
  BY DEF TypeOK
<1>4. QED
  BY <1>1, <1>2, <1>3, InitType, NextType, SpecRuns, PTL DEF Spec

-----------------------------------------------------------------------------
(***************************************************************************)
(* The pass over the gaps.  Its first waypoint is there from the start, so *)
(* there is always one to measure the next from.                           *)
(***************************************************************************)

GapsInv == GapsClosed /\ (pc = "gaps" => Len(kept) >= 1)

\* What is kept at most MaxGap from the last one closes the gap to it.
LEMMA KeepNear ==
    ASSUME TaskOK, GapsInv, pc = "gaps", NEW p \in Point,
           Within(Last(kept).at, p.at, MaxGap), Keep(p)
    PROVE  GapsInv'
<1>1. kept' = Append(kept, p) /\ kept \in Seq(Point) /\ Len(kept) >= 1 /\ Len(kept) \in Nat
  BY DEF Keep, TaskOK, GapsInv
<1>2. /\ Len(kept') = Len(kept) + 1
      /\ \A k \in 1..Len(kept) : kept'[k] = kept[k]
      /\ kept'[Len(kept) + 1] = p
  BY <1>1, AppendFacts
<1>3. ASSUME NEW k \in 1..(Len(kept') - 1)
      PROVE  Within(kept'[k].at, kept'[k + 1].at, MaxGap)
  <2>1. CASE k = Len(kept)
    BY <2>1, <1>1, <1>2 DEF Last
  <2>2. CASE k # Len(kept)
    <3>1. k \in 1..(Len(kept) - 1) /\ k + 1 \in 1..Len(kept) /\ k \in 1..Len(kept)
      BY <2>2, <1>1, <1>2
    <3>2. Within(kept[k].at, kept[k + 1].at, MaxGap)
      BY <3>1 DEF GapsInv, GapsClosed
    <3>3. QED
      BY <3>1, <3>2, <1>2
  <2>3. QED
    BY <2>1, <2>2
<1>4. QED
  BY <1>1, <1>2, <1>3 DEF GapsInv, GapsClosed

\* A step that leaves the pass alone, and one that leaves or enters it with one
\* waypoint at most, leaves no gap.
LEMMA SamePassGaps ==
    ASSUME GapsInv, kept' = kept,
           pc' = pc \/ pc' \notin {"gaps", "line"} \/ (pc = "gaps" /\ pc' = "line")
    PROVE  GapsInv'
BY DEF GapsInv, GapsClosed

LEMMA OtherPassGaps ==
    ASSUME pc' \notin {"gaps", "line"}
    PROVE  GapsInv'
BY DEF GapsInv, GapsClosed

LEMMA FailGaps ==
    ASSUME Fail
    PROVE  GapsInv'
BY OtherPassGaps DEF Fail, Goto

LEMMA InitGaps == Init => GapsInv
BY DEF Init, GapsInv, GapsClosed

LEMMA NextGaps == TaskOK /\ GapsInv /\ [TaskStep]_task => GapsInv'
<1> SUFFICES ASSUME TaskOK, GapsInv, [TaskStep]_task PROVE GapsInv'
  OBVIOUS
<1>1. CASE CreateTask \/ FirstSave \/ LastSave \/ Build
  BY <1>1, OtherPassGaps DEF CreateTask, FirstSave, LastSave, Build, Goto
<1>2. CASE Raise
  BY <1>2, FailGaps DEF Raise
<1>3. ASSUME NEW n \in 0..MaxWaypoints, NEW distance \in Distances, AskForRoute(n, distance)
      PROVE  GapsInv'
  BY <1>3, FailGaps, OtherPassGaps DEF AskForRoute, Goto
<1>4. CASE Retry \/ Expire
  BY <1>4, SamePassGaps DEF Retry, Expire, pass
<1>5. ASSUME NEW at \in Places \cup {NoPlace}, Geocode(at) PROVE GapsInv'
  BY <1>5, OtherPassGaps DEF Geocode
<1>6. CASE Geocoded
  BY <1>6, FailGaps, OtherPassGaps DEF Geocoded, Goto
<1>7. CASE KeepCentral
  BY <1>7, OtherPassGaps DEF KeepCentral
<1>8. ASSUME NEW at \in Places \cup {NoPlace}, MoveOutlier(at) PROVE GapsInv'
  BY <1>8, OtherPassGaps DEF MoveOutlier
<1>9. CASE OutliersDone
  <2>1. CASE Len(kept) < 2
    BY <1>9, <2>1, FailGaps DEF OutliersDone
  <2>2. CASE ~(Len(kept) < 2)
    <3>1. kept' = <<kept[1]>> /\ pc' = "gaps"
      BY <1>9, <2>2 DEF OutliersDone, StartPass, Goto
    <3>2. Len(kept') = 1
      BY <3>1
    <3>3. QED
      BY <3>1, <3>2 DEF GapsInv, GapsClosed
  <2>3. QED
    BY <2>1, <2>2
<1>10. CASE KeepClose
  <2>1. points[i] \in Point
    BY <1>10 DEF KeepClose, TaskOK
  <2>2. QED
    BY <1>10, <2>1, KeepNear DEF KeepClose, Close
<1>11. ASSUME NEW action \in {"fix", "insert"}, NEW at \in Places \cup {NoPlace},
              CloseGap(action, at)
       PROVE  GapsInv'
  <2>1. CASE at # NoPlace /\ Within(Last(kept).at, at, MaxGap)
    <3> DEFINE p == [src |-> IF action = "fix" THEN points[i].src ELSE 0, at |-> at]
    <3>1. points[i] \in Point /\ at \in Places
      BY <1>11, <2>1, PointsType DEF CloseGap
    <3>2. p \in Point /\ p.at = at
      BY <3>1, GenerationAssumption DEF Point
    <3>3. Keep(p) /\ pc = "gaps"
      BY <1>11, <2>1 DEF CloseGap
    <3> HIDE DEF p
    <3>4. QED
      BY <2>1, <3>2, <3>3, KeepNear
  <2>2. CASE ~(at # NoPlace /\ Within(Last(kept).at, at, MaxGap))
    BY <1>11, <2>2, SamePassGaps DEF CloseGap, NextAttempt
  <2>3. QED
    BY <2>1, <2>2
<1>12. CASE GapsDone
  BY <1>12, FailGaps, SamePassGaps DEF GapsDone, Goto, pass
<1>13. ASSUME NEW line \in Lines, BuildLine(line) PROVE GapsInv'
  BY <1>13, OtherPassGaps DEF BuildLine, Goto
<1>14. ASSUME NEW url \in Urls, TakePhoto(url) PROVE GapsInv'
  BY <1>14, OtherPassGaps DEF TakePhoto
<1>15. CASE NextPhotos
  BY <1>15, OtherPassGaps DEF NextPhotos
<1>16. CASE Lose
  BY <1>16, OtherPassGaps DEF Lose, Goto
<1>17. CASE UNCHANGED task
  BY <1>17, SamePassGaps DEF task
<1>18. QED
  BY <1>1, <1>2, <1>3, <1>4, <1>5, <1>6, <1>7, <1>8, <1>9, <1>10, <1>11, <1>12,
     <1>13, <1>14, <1>15, <1>16, <1>17 DEF TaskStep, Work

\* No gap is left between consecutive waypoints of the pass, for any geometry of
\* the places and any answers.
THEOREM NoGapsLeft == Spec => []GapsClosed
<1>1. TaskOK /\ GapsInv /\ [TaskStep]_task => (TaskOK /\ GapsInv)'
  BY NextType, NextGaps
<1>2. GapsInv => GapsClosed
  BY DEF GapsInv
<1>3. QED
  BY <1>1, <1>2, InitType, InitGaps, SpecRuns, PTL

-----------------------------------------------------------------------------
(***************************************************************************)
(* The order of the waypoints.  A pass only ever appends, to what it has   *)
(* kept, the waypoint it is at or a point without a position: what is kept *)
(* stays behind everything the pass has not reached.                       *)
(***************************************************************************)

\* While the geocoder's results are collected, the next one has a position of
\* its own.
Collected ==
    pc \in {"idle", "save", "llm", "geocode"} =>
        \A k \in DOMAIN points : points[k].src < i

Ahead ==
    pc \in {"outliers", "gaps"} =>
        \A k \in DOMAIN kept, l \in DOMAIN points :
            (l >= i /\ kept[k].src # 0 /\ points[l].src # 0) => kept[k].src < points[l].src

OrderInv == InOrder /\ Collected /\ Ahead

LEMMA AppendOrdered ==
    ASSUME NEW s \in Seq(Point), NEW e \in Point, Ordered(s),
           \A k \in DOMAIN s : (s[k].src # 0 /\ e.src # 0) => s[k].src < e.src
    PROVE  Ordered(Append(s, e))
<1>1. /\ Append(s, e) \in Seq(Point)
      /\ Len(Append(s, e)) = Len(s) + 1
      /\ \A k \in 1..Len(s) : Append(s, e)[k] = s[k]
      /\ Append(s, e)[Len(s) + 1] = e
      /\ DOMAIN s = 1..Len(s) /\ Len(s) \in Nat
  BY AppendFacts
<1> DEFINE t == Append(s, e)
<1>2. DOMAIN t = 1..(Len(s) + 1)
  BY <1>1
<1> HIDE DEF t
<1>3. ASSUME NEW k \in DOMAIN t, NEW l \in DOMAIN t, k < l, t[k].src # 0, t[l].src # 0
      PROVE  t[k].src < t[l].src
  <2>1. k \in 1..Len(s) /\ t[k] = s[k]
    BY <1>1, <1>2, <1>3 DEF t
  <2>2. CASE l = Len(s) + 1
    BY <2>1, <2>2, <1>1, <1>3 DEF t
  <2>3. CASE l # Len(s) + 1
    <3>1. l \in 1..Len(s) /\ t[l] = s[l]
      BY <1>1, <1>2, <2>3 DEF t
    <3>2. QED
      BY <2>1, <3>1, <1>1, <1>3 DEF Ordered
  <2>4. QED
    BY <2>2, <2>3
<1>4. QED
  BY <1>3 DEF Ordered, t

LEMMA EmptyOrdered == Ordered(<<>>)
BY DEF Ordered

\* The waypoint the pass is at, moved or replaced by an inserted one, is kept.
LEMMA KeepOrder ==
    ASSUME TaskOK, OrderInv, pc \in {"outliers", "gaps"}, i <= Len(points),
           NEW p \in Point, p.src \in {0, points[i].src}, Keep(p),
           UNCHANGED <<pc, points, route>>
    PROVE  OrderInv'
<1>1. /\ kept' = Append(kept, p) /\ kept \in Seq(Point) /\ Len(kept) \in Nat
      /\ i' = i + 1 /\ i \in DOMAIN points /\ points \in Seq(Point)
      /\ DOMAIN kept = 1..Len(kept)
  BY DEF Keep, TaskOK
<1>2. ASSUME NEW k \in DOMAIN kept, kept[k].src # 0, p.src # 0
      PROVE  kept[k].src < p.src
  <2>1. p.src = points[i].src /\ i >= i
    BY <1>1, <1>2
  <2>2. QED
    BY <1>1, <1>2, <2>1 DEF OrderInv, Ahead
<1>3. Ordered(kept')
  BY <1>1, <1>2, AppendOrdered DEF OrderInv, InOrder
<1>4. ASSUME NEW k \in DOMAIN kept', NEW l \in DOMAIN points,
             l >= i + 1, kept'[k].src # 0, points[l].src # 0
      PROVE  kept'[k].src < points[l].src
  <2>1. /\ Len(kept') = Len(kept) + 1 /\ kept' \in Seq(Point)
        /\ \A m \in 1..Len(kept) : kept'[m] = kept[m]
        /\ kept'[Len(kept) + 1] = p
    BY <1>1, AppendFacts
  <2>2. k \in 1..(Len(kept) + 1) /\ l \in Nat /\ i \in Nat /\ l >= i /\ i < l
    BY <2>1, <1>1, <1>4
  <2>3. CASE k = Len(kept) + 1
    <3>1. kept'[k].src = points[i].src
      BY <2>1, <2>3, <1>4
    <3>2. QED
      BY <3>1, <2>2, <1>1, <1>4 DEF OrderInv, InOrder, Ordered
  <2>4. CASE k # Len(kept) + 1
    <3>1. k \in DOMAIN kept /\ kept'[k] = kept[k]
      BY <2>1, <2>2, <2>4, <1>1
    <3>2. QED
      BY <3>1, <2>2, <1>4 DEF OrderInv, Ahead
  <2>5. QED
    BY <2>3, <2>4
<1>5. Ahead'
  BY <1>1, <1>4 DEF Ahead
<1>6. QED
  BY <1>3, <1>5 DEF OrderInv, InOrder, Collected

LEMMA NextAttemptOrder ==
    ASSUME TaskOK, OrderInv, pc \in {"outliers", "gaps"}, NEW max, NextAttempt(max),
           UNCHANGED <<pc, points, route>>
    PROVE  OrderInv'
<1>1. i' >= i /\ i \in Nat /\ i' \in Nat /\ kept' = kept
  BY DEF NextAttempt, TaskOK
<1>2. points \in Seq(Point)
  BY DEF TaskOK
<1>3. Ahead'
  BY <1>1, <1>2 DEF Ahead, OrderInv
<1>4. QED
  BY <1>1, <1>3 DEF OrderInv, InOrder, Collected

LEMMA FailOrder ==
    ASSUME Fail
    PROVE  OrderInv'
<1>1. pc' = "verdict" /\ points' = <<>> /\ kept' = <<>> /\ route'.points = <<>>
  BY DEF Fail, Goto, StartPass, NoRoute
<1>2. QED
  BY <1>1, EmptyOrdered DEF OrderInv, InOrder, Collected, Ahead

LEMMA InitOrder == Init => OrderInv
BY EmptyOrdered DEF Init, NoRoute, OrderInv, InOrder, Collected, Ahead

LEMMA NextOrder == TaskOK /\ OrderInv /\ [TaskStep]_task => OrderInv'
<1> SUFFICES ASSUME TaskOK, OrderInv, [TaskStep]_task PROVE OrderInv'
  OBVIOUS
<1>1. CASE CreateTask \/ FirstSave \/ LastSave \/ Build \/ Retry \/ Expire \/ UNCHANGED task
  <2>1. /\ UNCHANGED <<points, kept, i, route>>
        /\ \/ pc' = pc
           \/ pc' \in {"done", "verdict"}
           \/ (pc = "idle" /\ pc' = "save")
           \/ (pc = "save" /\ pc' = "llm")
    BY <1>1 DEF CreateTask, FirstSave, LastSave, Build, Retry, Expire, task, pass, Goto
  <2>2. QED
    BY <2>1 DEF OrderInv, InOrder, Collected, Ahead
<1>2. CASE Raise
  BY <1>2, FailOrder DEF Raise
<1>3. ASSUME NEW n \in 0..MaxWaypoints, NEW distance \in Distances, AskForRoute(n, distance)
      PROVE  OrderInv'
  <2>1. CASE n < 2
    BY <1>3, <2>1, FailOrder DEF AskForRoute
  <2>2. CASE ~(n < 2)
    BY <1>3, <2>2 DEF AskForRoute, Goto, pass, OrderInv, InOrder, Collected, Ahead
  <2>3. QED
    BY <2>1, <2>2
<1>4. ASSUME NEW at \in Places \cup {NoPlace}, Geocode(at) PROVE OrderInv'
  <2>0. /\ pc = "geocode" /\ pc' = "geocode" /\ i' = i + 1 /\ i \in Nat \ {0} /\ i <= raw
        /\ i \in 0..MaxWaypoints /\ UNCHANGED <<kept, route>> /\ points \in Seq(Point)
    BY <1>4, GenerationAssumption DEF Geocode, TaskOK
  <2>a. ASSUME NEW k \in DOMAIN points
        PROVE  points[k].src < i /\ points[k].src \in Nat
    <3>1. points[k] \in Point
      BY <2>0
    <3>2. QED
      BY <2>0, <3>1 DEF OrderInv, Collected, Point
  <2>1. /\ pc = "geocode" /\ pc' = "geocode" /\ i' = i + 1 /\ i \in Nat \ {0}
        /\ i \in 0..MaxWaypoints /\ UNCHANGED <<kept, route>> /\ points \in Seq(Point)
        /\ \A k \in DOMAIN points : points[k].src < i /\ points[k].src \in Nat
    BY <2>0, <2>a
  <2>2. CASE at = NoPlace
    BY <1>4, <2>1, <2>2 DEF Geocode, OrderInv, InOrder, Collected, Ahead
  <2>3. CASE at # NoPlace
    <3> DEFINE p == [src |-> i, at |-> at]
    <3>0. points' = Append(points, p) /\ at \in Places
      BY <1>4, <2>3 DEF Geocode
    <3>1. p \in Point /\ p.src = i /\ points' = Append(points, p)
      BY <2>1, <3>0 DEF Point
    <3> HIDE DEF p
    <3>2. Ordered(points')
      BY <2>1, <3>1, AppendOrdered DEF OrderInv, InOrder
    <3>3. ASSUME NEW k \in DOMAIN points' PROVE points'[k].src < i + 1
      BY <2>1, <3>1, AppendFacts
    <3>4. QED
      BY <2>1, <3>2, <3>3 DEF OrderInv, InOrder, Collected, Ahead
  <2>4. QED
    BY <2>2, <2>3
<1>5. CASE Geocoded
  <2>1. CASE Len(points) < 2
    BY <1>5, <2>1, FailOrder DEF Geocoded
  <2>2. CASE ~(Len(points) < 2)
    BY <1>5, <2>2, EmptyOrdered
       DEF Geocoded, Goto, StartPass, OrderInv, InOrder, Collected, Ahead
  <2>3. QED
    BY <2>1, <2>2
<1>6. CASE KeepCentral \/ KeepClose
  <2>1. points[i] \in Point /\ i <= Len(points) /\ pc \in {"outliers", "gaps"}
    BY <1>6 DEF KeepCentral, KeepClose, TaskOK
  <2>2. QED
    BY <1>6, <2>1, KeepOrder DEF KeepCentral, KeepClose
<1>7. ASSUME NEW at \in Places \cup {NoPlace}, MoveOutlier(at) PROVE OrderInv'
  <2>1. CASE at # NoPlace /\ Within(center, at, spread)
    BY <1>7, <2>1, PointsType, KeepOrder DEF MoveOutlier
  <2>2. CASE ~(at # NoPlace /\ Within(center, at, spread))
    BY <1>7, <2>2, NextAttemptOrder DEF MoveOutlier
  <2>3. QED
    BY <2>1, <2>2
<1>8. CASE OutliersDone
  <2>1. CASE Len(kept) < 2
    BY <1>8, <2>1, FailOrder DEF OutliersDone
  <2>2. CASE ~(Len(kept) < 2)
    <3>1. /\ pc' = "gaps" /\ points' = kept /\ kept' = <<kept[1]>> /\ i' = 2
          /\ UNCHANGED route /\ kept \in Seq(Point) /\ Len(kept) >= 2
      BY <1>8, <2>2 DEF OutliersDone, StartPass, Goto, TaskOK
    <3>2. DOMAIN kept' = {1} /\ kept'[1] = kept[1]
      BY <3>1
    <3>3. Ordered(kept')
      BY <3>2 DEF Ordered
    <3>4. Ahead'
      BY <3>1, <3>2 DEF Ahead, OrderInv, InOrder, Ordered
    <3>5. QED
      BY <3>1, <3>3, <3>4 DEF OrderInv, InOrder, Collected
  <2>3. QED
    BY <2>1, <2>2
<1>9. ASSUME NEW action \in {"fix", "insert"}, NEW at \in Places \cup {NoPlace},
             CloseGap(action, at)
      PROVE  OrderInv'
  <2>1. CASE at # NoPlace /\ Within(Last(kept).at, at, MaxGap)
    <3> DEFINE p == [src |-> IF action = "fix" THEN points[i].src ELSE 0, at |-> at]
    <3>1. points[i] \in Point /\ at \in Places
      BY <1>9, <2>1, PointsType DEF CloseGap
    <3>2. p \in Point /\ p.src \in {0, points[i].src}
      BY <3>1, GenerationAssumption DEF Point
    <3>3. Keep(p) /\ pc = "gaps" /\ i <= Len(points) /\ UNCHANGED <<pc, points, route>>
      BY <1>9, <2>1 DEF CloseGap
    <3> HIDE DEF p
    <3>4. QED
      BY <3>2, <3>3, KeepOrder
  <2>2. CASE ~(at # NoPlace /\ Within(Last(kept).at, at, MaxGap))
    BY <1>9, <2>2, NextAttemptOrder DEF CloseGap
  <2>3. QED
    BY <2>1, <2>2
<1>10. CASE GapsDone
  BY <1>10, FailOrder DEF GapsDone, Goto, pass, OrderInv, InOrder, Collected, Ahead
<1>11. ASSUME NEW line \in Lines, BuildLine(line) PROVE OrderInv'
  <2>1. /\ pc' = "photos" /\ points' = <<>> /\ kept' = <<>>
        /\ route'.points = Snap(kept, line)
    BY <1>11 DEF BuildLine, StartPass, Goto
  <2>2. kept \in Seq(Point) /\ line \in Seq(Places)
    BY LinesAreSequences DEF TaskOK
  <2>3. DOMAIN Snap(kept, line) = DOMAIN kept
        /\ \A k \in DOMAIN kept : Snap(kept, line)[k].src = kept[k].src
    BY <2>2, SnapFacts
  <2>4. Ordered(Snap(kept, line))
    BY <2>3 DEF OrderInv, InOrder, Ordered
  <2>5. QED
    BY <2>1, <2>4, EmptyOrdered DEF OrderInv, InOrder, Collected, Ahead
<1>12. ASSUME NEW url \in Urls, TakePhoto(url) PROVE OrderInv'
  <2>1. route'.points = route.points /\ UNCHANGED <<points, kept>> /\ pc' \in {"photos", "build"}
    BY <1>12 DEF TakePhoto, pass, TaskOK, Route
  <2>2. QED
    BY <2>1 DEF OrderInv, InOrder, Collected, Ahead
<1>13. CASE NextPhotos
  BY <1>13 DEF NextPhotos, OrderInv, InOrder, Collected, Ahead
<1>14. CASE Lose
  BY <1>14, EmptyOrdered
     DEF Lose, Goto, StartPass, NoRoute, OrderInv, InOrder, Collected, Ahead
<1>15. QED
  BY <1>1, <1>2, <1>3, <1>4, <1>5, <1>6, <1>7, <1>8, <1>9, <1>10, <1>11, <1>12,
     <1>13, <1>14 DEF TaskStep, Work

\* The waypoints are in the order of the language model's list in every pass and
\* in the answer, each at most once, however they were repaired.
THEOREM OrderKept == Spec => []InOrder
<1>1. TaskOK /\ OrderInv /\ [TaskStep]_task => (TaskOK /\ OrderInv)'
  BY NextType, NextOrder
<1>2. OrderInv => InOrder
  BY DEF OrderInv
<1>3. QED
  BY <1>1, <1>2, InitType, InitOrder, SpecRuns, PTL

-----------------------------------------------------------------------------
(***************************************************************************)
(* The answer.  Only two checks count the waypoints, and two more steps    *)
(* lie between the last of them and the answer.                            *)
(***************************************************************************)

Drawn ==
    /\ Len(route.points) >= 2
    /\ route.line # <<>> =>
         \A k \in DOMAIN route.points :
             \E l \in DOMAIN route.line : route.line[l] = route.points[k].at

DrawnInv ==
    /\ pc = "line" => Len(kept) >= 2
    /\ (pc \in {"photos", "build"} \/ (outcome = "completed" /\ pc # "lost")) => Drawn
    /\ outcome = "completed" => pc \in {"verdict", "done", "lost"}

LEMMA FailDrawn ==
    ASSUME Fail
    PROVE  DrawnInv'
BY DEF Fail, Goto, DrawnInv

LEMMA InitDrawn == Init => DrawnInv
BY DEF Init, DrawnInv

LEMMA NextDrawn == TaskOK /\ DrawnInv /\ [TaskStep]_task => DrawnInv'
<1> SUFFICES ASSUME TaskOK, DrawnInv, [TaskStep]_task PROVE DrawnInv'
  OBVIOUS
<1>1. CASE \/ CreateTask \/ FirstSave \/ Retry \/ Expire \/ UNCHANGED task
           \/ (\E at \in Places \cup {NoPlace} : Geocode(at))
           \/ (\E at \in Places \cup {NoPlace} : MoveOutlier(at))
           \/ KeepCentral \/ KeepClose
           \/ (\E action \in {"fix", "insert"}, at \in Places \cup {NoPlace} :
                 CloseGap(action, at))
  <2>1. /\ UNCHANGED <<outcome, route>>
        /\ \/ UNCHANGED <<pc, kept>>
           \/ pc' \in {"save", "llm", "geocode", "outliers", "gaps"}
        /\ pc = pc' \/ pc \in {"idle", "save"}
    BY <1>1 DEF CreateTask, FirstSave, Retry, Expire, task, pass, Geocode, MoveOutlier,
                KeepCentral, KeepClose, CloseGap, Goto
  <2>2. QED
    BY <2>1 DEF DrawnInv, Drawn
<1>2. CASE Raise
  BY <1>2, FailDrawn DEF Raise
<1>3. ASSUME NEW n \in 0..MaxWaypoints, NEW distance \in Distances, AskForRoute(n, distance)
      PROVE  DrawnInv'
  BY <1>3, FailDrawn DEF AskForRoute, Goto, DrawnInv, Drawn
<1>4. CASE Geocoded \/ OutliersDone
  BY <1>4, FailDrawn DEF Geocoded, OutliersDone, Goto, DrawnInv, Drawn
<1>5. CASE GapsDone
  <2>1. CASE Len(kept) < 2
    BY <1>5, <2>1, FailDrawn DEF GapsDone
  <2>2. CASE ~(Len(kept) < 2)
    <3>1. /\ pc = "gaps" /\ pc' = "line" /\ UNCHANGED <<kept, outcome, route>>
          /\ Len(kept) \in Nat
      BY <1>5, <2>2 DEF GapsDone, Goto, pass, TaskOK
    <3>2. Len(kept) >= 2
      BY <2>2, <3>1
    <3>3. QED
      BY <3>1, <3>2 DEF DrawnInv, Drawn
  <2>3. QED
    BY <2>1, <2>2
<1>6. ASSUME NEW line \in Lines, BuildLine(line) PROVE DrawnInv'
  <2>1. /\ pc = "line" /\ pc' = "photos" /\ outcome' = outcome
        /\ route'.points = Snap(kept, line) /\ route'.line = line
    BY <1>6 DEF BuildLine, Goto
  <2>2. kept \in Seq(Point) /\ line \in Seq(Places) /\ Len(kept) >= 2
    BY <2>1, LinesAreSequences DEF TaskOK, DrawnInv
  <2>3. /\ DOMAIN Snap(kept, line) = DOMAIN kept
        /\ Len(Snap(kept, line)) >= 2
        /\ line # <<>> => \A k \in DOMAIN kept : \E l \in DOMAIN line :
                            line[l] = Snap(kept, line)[k].at
    BY <2>2, SnapFacts
  <2>4. Drawn'
    BY <2>1, <2>3 DEF Drawn
  <2>5. QED
    BY <2>1, <2>4 DEF DrawnInv
<1>7. ASSUME NEW url \in Urls, TakePhoto(url) PROVE DrawnInv'
  <2>1. /\ route'.points = route.points /\ route'.line = route.line /\ outcome' = outcome
        /\ pc = "photos" /\ pc' \in {"photos", "build"}
    BY <1>7 DEF TakePhoto, TaskOK, Route
  <2>2. QED
    BY <2>1 DEF DrawnInv, Drawn
<1>8. CASE NextPhotos \/ Build \/ LastSave
  <2>1. /\ route' = route
        /\ \/ pc = "photos" /\ pc' \in {"photos", "build"} /\ outcome' = outcome
           \/ pc = "build" /\ pc' = "verdict"
           \/ pc = "verdict" /\ pc' = "done" /\ outcome' = outcome
    BY <1>8 DEF NextPhotos, Build, LastSave, Goto
  <2>2. QED
    BY <2>1 DEF DrawnInv, Drawn
<1>9. CASE Lose
  BY <1>9 DEF Lose, Goto, DrawnInv
<1>10. QED
  BY <1>1, <1>2, <1>3, <1>4, <1>5, <1>6, <1>7, <1>8, <1>9 DEF TaskStep, Work

\* A completed answer has two waypoints at least, all of them on its line.
THEOREM CompletedIsDrawable == Spec => []RouteDrawable
<1>1. TaskOK /\ DrawnInv /\ [TaskStep]_task => (TaskOK /\ DrawnInv)'
  BY NextType, NextDrawn
<1>2. DrawnInv => RouteDrawable
  BY DEF DrawnInv, Drawn, RouteDrawable
<1>3. QED
  BY <1>1, <1>2, InitType, InitDrawn, SpecRuns, PTL

-----------------------------------------------------------------------------
(***************************************************************************)
(* The entry a client polls.                                               *)
(***************************************************************************)

LEMMA PhaseIs ==
    /\ pc \in {"idle", "save"} => Phase = "new"
    /\ pc \in {"done", "lost"} => Phase = "closed"
    /\ pc \notin {"idle", "save", "done", "lost"} => Phase = "open"
BY DEF Phase

LEMMA PhaseIsNext ==
    /\ pc' \in {"idle", "save"} => Phase' = "new"
    /\ pc' \in {"done", "lost"} => Phase' = "closed"
    /\ pc' \notin {"idle", "save", "done", "lost"} => Phase' = "open"
BY DEF Phase

\* The task has a verdict when it comes to save it.
HasVerdict == pc = "verdict" => outcome \in Verdicts

LEMMA NextVerdict == HasVerdict /\ [TaskStep]_task => HasVerdict'
<1> SUFFICES ASSUME HasVerdict, [TaskStep]_task, pc' = "verdict" PROVE outcome' \in Verdicts
  BY DEF HasVerdict
<1>1. CASE Retry \/ Expire \/ UNCHANGED task
  BY <1>1 DEF Retry, Expire, task, HasVerdict
<1>2. CASE Raise \/ Build \/ Geocoded \/ OutliersDone \/ GapsDone
           \/ (\E n \in 0..MaxWaypoints, distance \in Distances : AskForRoute(n, distance))
  BY <1>2 DEF Raise, Build, Geocoded, OutliersDone, GapsDone, AskForRoute, Fail, Goto, Verdicts
<1>3. CASE \/ CreateTask \/ FirstSave \/ LastSave \/ Lose \/ KeepCentral \/ KeepClose
           \/ NextPhotos
           \/ (\E at \in Places \cup {NoPlace} : Geocode(at))
           \/ (\E at \in Places \cup {NoPlace} : MoveOutlier(at))
           \/ (\E action \in {"fix", "insert"}, at \in Places \cup {NoPlace} :
                 CloseGap(action, at))
           \/ (\E line \in Lines : BuildLine(line))
           \/ (\E url \in Urls : TakePhoto(url))
  BY <1>3 DEF CreateTask, FirstSave, LastSave, Lose, KeepCentral, KeepClose, NextPhotos,
              Geocode, MoveOutlier, CloseGap, BuildLine, TakePhoto, Goto
<1>4. QED
  BY <1>1, <1>2, <1>3 DEF TaskStep, Work

\* AiTask's steps without the client's, and without what they leave of the answer.
TaskMoves ==
    \/ Phase = "new" /\ Phase' = "open" /\ store' \in {store, "pending"}
    \/ Phase = "open" /\ Phase' = "closed" /\ \E v \in Verdicts : store' \in {store, v}
    \/ Phase # "closed" /\ Phase' = "closed" /\ store' = store
    \/ store' = "none" /\ Phase' = Phase

LEMMA StepRefines ==
    ASSUME HasVerdict, [TaskStep]_task
    PROVE  [TaskMoves]_<<store, Phase>>
<1>1. CASE FirstSave
  <2>1. store' \in {store, "pending"} /\ Phase = "new" /\ Phase' = "open"
    BY <1>1, PhaseIs, PhaseIsNext DEF FirstSave, SaveTask, Goto
  <2>2. QED
    BY <2>1 DEF TaskMoves
<1>2. CASE LastSave
  <2>1. store' \in {store, outcome} /\ Phase = "open" /\ Phase' = "closed" /\ outcome \in Verdicts
    BY <1>2, PhaseIs, PhaseIsNext DEF LastSave, SaveTask, Goto, HasVerdict
  <2>2. QED
    BY <2>1 DEF TaskMoves
<1>3. CASE Lose
  <2>1. store' = store /\ Phase # "closed" /\ Phase' = "closed"
    BY <1>3, PhaseIs, PhaseIsNext DEF Lose, Goto
  <2>2. QED
    BY <2>1 DEF TaskMoves
<1>4. CASE Expire
  <2>1. store' = "none" /\ Phase' = Phase
    BY <1>4 DEF Expire, Phase
  <2>2. QED
    BY <2>1 DEF TaskMoves
<1>5. CASE \/ CreateTask \/ Raise \/ Retry \/ Geocoded \/ KeepCentral \/ OutliersDone
           \/ KeepClose \/ GapsDone \/ NextPhotos \/ Build \/ UNCHANGED task
           \/ (\E n \in 0..MaxWaypoints, distance \in Distances : AskForRoute(n, distance))
           \/ (\E at \in Places \cup {NoPlace} : Geocode(at))
           \/ (\E at \in Places \cup {NoPlace} : MoveOutlier(at))
           \/ (\E action \in {"fix", "insert"}, at \in Places \cup {NoPlace} :
                 CloseGap(action, at))
           \/ (\E line \in Lines : BuildLine(line))
           \/ (\E url \in Urls : TakePhoto(url))
  <2>1. /\ store' = store
        /\ \/ pc' = pc
           \/ pc = "idle" /\ pc' = "save"
           \/ /\ pc \notin {"idle", "save", "done", "lost"}
              /\ pc' \notin {"idle", "save", "done", "lost"}
    BY <1>5 DEF CreateTask, Raise, Retry, Geocoded, KeepCentral, OutliersDone, KeepClose,
                GapsDone, NextPhotos, Build, task, AskForRoute, Geocode, MoveOutlier,
                CloseGap, BuildLine, TakePhoto, Fail, Goto
  <2>2. CASE pc' = pc
    BY <2>1, <2>2 DEF Phase
  <2>3. CASE pc' # pc
    BY <2>1, <2>3, PhaseIs, PhaseIsNext
  <2>4. QED
    BY <2>2, <2>3
<1>6. QED
  BY <1>1, <1>2, <1>3, <1>4, <1>5 DEF TaskStep, Work

LEMMA NextTask == HasVerdict /\ [Next]_vars => HasVerdict' /\ [Task!Next]_<<store, Phase, answer>>
<1> DEFINE Goal == HasVerdict' /\ [Task!Next]_<<store, Phase, answer>>
<1> SUFFICES ASSUME HasVerdict, [Next]_vars PROVE Goal
  OBVIOUS
<1>1. CASE TaskStep /\ UNCHANGED answer
  <2>1. HasVerdict' /\ [TaskMoves]_<<store, Phase>>
    BY <1>1, NextVerdict, StepRefines
  <2>2. QED
    BY <1>1, <2>1 DEF TaskMoves, Task!Next, Task!Open, Task!Close, Task!GiveUp, Task!Forget
<1>2. CASE Poll
  BY <1>2 DEF Poll, task, HasVerdict, Phase, Task!Next, Task!Poll
<1>3. CASE UNCHANGED vars
  BY <1>3 DEF vars, HasVerdict, Phase
<1> HIDE DEF Goal
<1>4. QED
  BY <1>1, <1>2, <1>3 DEF Next

\* The client sees a task as AiTask describes it: an answer is the entry or, when
\* the read fails too, a 404; "pending" is never written over a verdict, and only
\* forgetting takes a verdict away.
THEOREM ImplementsTask == Spec => TaskSpec
<1>1. Init => Task!Init /\ HasVerdict
  BY PhaseIs DEF Init, Task!Init, HasVerdict
<1>2. QED
  BY <1>1, NextTask, PTL DEF Spec, TaskSpec, Task!Spec

\* The entry and the answers once a verdict has been seen.
Settled(v) == Phase = "closed" /\ store \in {v, "none"} /\ answer \in {v, "none"}
VerdictsAreLast ==
    /\ store \in Verdicts => Phase = "closed"
    /\ \A v \in Verdicts : answer = v => Settled(v)

\* A client that has been answered a verdict is never answered "pending" or the
\* other verdict afterwards, only the same one or a 404.
THEOREM OneVerdict ==
    ASSUME NEW v \in Verdicts
    PROVE  Spec => [](answer = v => [](answer \in {v, "none"}))
<1>1. Task!Init => VerdictsAreLast
  BY DEF Task!Init, VerdictsAreLast, Verdicts
<1>2. [Task!Next]_<<store, Phase, answer>> /\ Settled(v) => Settled(v)'
  BY DEF Task!Next, Task!Open, Task!Close, Task!GiveUp, Task!Forget, Task!Poll, Settled
<1>3. [Task!Next]_<<store, Phase, answer>> /\ VerdictsAreLast => VerdictsAreLast'
  BY DEF Task!Next, Task!Open, Task!Close, Task!GiveUp, Task!Forget, Task!Poll, Settled,
         VerdictsAreLast, Verdicts
<1>4. Settled(v) => answer \in {v, "none"}
  BY DEF Settled
<1>5. VerdictsAreLast /\ answer = v => Settled(v)
  BY DEF VerdictsAreLast
<1>6. QED
  BY <1>1, <1>2, <1>3, <1>4, <1>5, ImplementsTask, PTL DEF TaskSpec, Task!Spec

-----------------------------------------------------------------------------
(***************************************************************************)
(* The photos.                                                             *)
(***************************************************************************)

PhotosInv == PhotosBounded /\ (pc = "photos" => Len(route.photos) < PhotosTotal)

Of(photos, n) == {k \in DOMAIN photos : photos[k].near = n}

LEMMA NoPhotos == route'.photos = <<>> => PhotosInv'
<1> SUFFICES ASSUME route'.photos = <<>> PROVE PhotosInv'
  OBVIOUS
<1>1. \A n : {k \in DOMAIN <<>> : <<>>[k].near = n} = {}
  OBVIOUS
<1>2. Len(<<>>) = 0 /\ Cardinality({}) = 0
  BY FS_EmptySet
<1>3. QED
  BY <1>1, <1>2, GenerationAssumption DEF PhotosInv, PhotosBounded

LEMMA SamePhotos ==
    ASSUME PhotosInv, UNCHANGED route, pc' = "photos" => pc = "photos"
    PROVE  PhotosInv'
BY DEF PhotosInv, PhotosBounded

\* One more photo of a point that may have one more.
LEMMA OneMorePhoto ==
    ASSUME NEW photos \in Seq(Photo), NEW p \in Photo, NEW n
    PROVE  /\ IsFiniteSet(Of(photos, n))
           /\ p.near = n => Cardinality(Of(Append(photos, p), n)) = Cardinality(Of(photos, n)) + 1
           /\ p.near # n => Of(Append(photos, p), n) = Of(photos, n)
<1>1. /\ Len(Append(photos, p)) = Len(photos) + 1 /\ Len(photos) \in Nat
      /\ Append(photos, p) \in Seq(Photo)
      /\ \A k \in 1..Len(photos) : Append(photos, p)[k] = photos[k]
      /\ Append(photos, p)[Len(photos) + 1] = p
      /\ DOMAIN photos = 1..Len(photos)
  BY AppendFacts
<1> DEFINE t == Append(photos, p)
<1>2. DOMAIN t = 1..(Len(photos) + 1)
  BY <1>1
<1> HIDE DEF t
<1>3. IsFiniteSet(Of(photos, n)) /\ Len(photos) + 1 \notin Of(photos, n)
  <2>1. IsFiniteSet(1..Len(photos)) /\ Of(photos, n) \subseteq 1..Len(photos)
    BY <1>1, FS_Interval DEF Of
  <2>2. QED
    BY <1>1, <2>1, FS_Subset
<1>4. CASE p.near = n
  <2>1. Of(t, n) = Of(photos, n) \cup {Len(photos) + 1}
    BY <1>1, <1>2, <1>4 DEF Of, t
  <2>2. QED
    BY <1>3, <1>4, <2>1, FS_AddElement DEF t
<1>5. CASE p.near # n
  <2>1. Of(t, n) = Of(photos, n)
    BY <1>1, <1>2, <1>5 DEF Of, t
  <2>2. QED
    BY <1>3, <1>5, <2>1 DEF t
<1>6. QED
  BY <1>4, <1>5

LEMMA InitPhotos == Init => PhotosInv
<1>1. Init => Len(route.photos) = 0 /\ DOMAIN route.photos = {} /\ DOMAIN route.points = {}
  BY DEF Init, NoRoute
<1>2. QED
  BY <1>1, GenerationAssumption DEF PhotosInv, PhotosBounded

LEMMA NextPhotosBounded == TaskOK /\ PhotosInv /\ [TaskStep]_task => PhotosInv'
<1> SUFFICES ASSUME TaskOK, PhotosInv, [TaskStep]_task PROVE PhotosInv'
  OBVIOUS
<1>1. CASE Fail \/ Lose \/ (\E line \in Lines : BuildLine(line))
  BY <1>1, NoPhotos DEF Fail, Lose, BuildLine, NoRoute
<1>2. CASE \/ CreateTask \/ FirstSave \/ LastSave \/ Retry \/ KeepCentral \/ KeepClose
           \/ NextPhotos \/ Build \/ Expire \/ UNCHANGED task
           \/ (\E at \in Places \cup {NoPlace} : Geocode(at))
           \/ (\E at \in Places \cup {NoPlace} : MoveOutlier(at))
           \/ (\E action \in {"fix", "insert"}, at \in Places \cup {NoPlace} :
                 CloseGap(action, at))
  BY <1>2, SamePhotos DEF CreateTask, FirstSave, LastSave, Retry, KeepCentral, KeepClose,
       NextPhotos, Build, Expire, task, Geocode, MoveOutlier, CloseGap, Goto
<1>3. CASE Raise \/ Geocoded \/ OutliersDone \/ GapsDone
           \/ (\E n \in 0..MaxWaypoints, distance \in Distances : AskForRoute(n, distance))
  <2>1. Fail \/ (UNCHANGED route /\ pc' # "photos")
    BY <1>3 DEF Raise, Geocoded, OutliersDone, GapsDone, AskForRoute, Goto
  <2>2. QED
    BY <1>1, <2>1, SamePhotos
<1>4. ASSUME NEW url \in Urls, TakePhoto(url) PROVE PhotosInv'
  <2> DEFINE photos == route.photos
             p == [url |-> url, near |-> i]
  <2>1. /\ photos \in Seq(Photo) /\ p \in Photo /\ p.url = url /\ p.near = i
        /\ Len(photos) \in Nat /\ DOMAIN photos = 1..Len(photos)
    BY DEF TaskOK, Route, Photo
  <2>2. /\ route'.photos = Append(photos, p) /\ route'.points = route.points
        /\ Cardinality(Of(photos, i)) < PhotosPerWaypoint
        /\ \A k \in DOMAIN photos : photos[k].url # url
        /\ Len(photos) < PhotosTotal
        /\ pc' = "photos" => Len(photos) + 1 < PhotosTotal
    <3>1. /\ route'.photos = Append(photos, p) /\ route'.points = route.points
      BY <1>4 DEF TakePhoto, TaskOK, Route
    <3>2. /\ Cardinality(Of(photos, i)) < PhotosPerWaypoint
          /\ \A k \in DOMAIN photos : photos[k].url # url
      BY <1>4 DEF TakePhoto, Taken, Known, Of
    <3>3. /\ Len(photos) < PhotosTotal
          /\ pc' = "photos" => ~(Len(photos) + 1 >= PhotosTotal)
      BY <1>4 DEF TakePhoto, PhotosInv
    <3>4. Len(photos) \in Nat /\ PhotosTotal \in Nat
      BY <2>1, GenerationAssumption
    <3> HIDE DEF photos, p
    <3>5. pc' = "photos" => Len(photos) + 1 < PhotosTotal
      BY <3>3, <3>4
    <3>6. QED
      BY <3>1, <3>2, <3>3, <3>5
  <2> HIDE DEF photos, p
  <2>3. /\ Len(route'.photos) = Len(photos) + 1
        /\ \A k \in 1..Len(photos) : route'.photos[k] = photos[k]
        /\ route'.photos[Len(photos) + 1] = p
        /\ route'.photos \in Seq(Photo)
    BY <2>1, <2>2, AppendFacts
  <2>4. ASSUME NEW k \in DOMAIN route'.photos, NEW l \in DOMAIN route'.photos,
               route'.photos[k].url = route'.photos[l].url
        PROVE  k = l
    <3>1. k \in 1..(Len(photos) + 1) /\ l \in 1..(Len(photos) + 1)
      BY <2>3
    <3>2. CASE k \in 1..Len(photos) /\ l \in 1..Len(photos)
      BY <2>1, <2>3, <2>4, <3>2 DEF PhotosInv, PhotosBounded, photos
    <3>3. CASE k = Len(photos) + 1
      BY <2>1, <2>2, <2>3, <2>4, <3>1, <3>3
    <3>4. CASE l = Len(photos) + 1
      BY <2>1, <2>2, <2>3, <2>4, <3>1, <3>4
    <3>5. QED
      BY <2>1, <3>1, <3>2, <3>3, <3>4
  <2>5. ASSUME NEW n \in DOMAIN route'.points
        PROVE  Cardinality(Of(route'.photos, n)) <= PhotosPerWaypoint
    <3>1. Cardinality(Of(photos, n)) <= PhotosPerWaypoint
      BY <2>2, <2>5 DEF PhotosInv, PhotosBounded, Of, photos
    <3>2. IsFiniteSet(Of(photos, n)) /\ Cardinality(Of(photos, n)) \in Nat
      BY <2>1, OneMorePhoto, FS_CardinalityType
    <3>3. CASE n = i
      <4>1. Cardinality(Of(route'.photos, n)) = Cardinality(Of(photos, n)) + 1
        BY <2>1, <2>2, <3>3, OneMorePhoto
      <4>2. PhotosPerWaypoint \in Nat /\ Cardinality(Of(photos, n)) < PhotosPerWaypoint
        BY <2>2, <3>3, GenerationAssumption
      <4>3. QED
        BY <3>2, <4>1, <4>2
    <3>4. CASE n # i
      BY <2>1, <2>2, <3>1, <3>4, OneMorePhoto
    <3>5. QED
      BY <3>3, <3>4
  <2>6. PhotosTotal \in Nat
    BY GenerationAssumption
  <2>7. /\ Len(route'.photos) <= PhotosTotal
        /\ pc' = "photos" => Len(route'.photos) < PhotosTotal
    BY <2>1, <2>2, <2>3, <2>6
  <2>8. PhotosBounded'
    BY <2>4, <2>5, <2>7 DEF PhotosBounded, Of
  <2>9. QED
    BY <2>7, <2>8 DEF PhotosInv
<1>5. QED
  BY <1>1, <1>2, <1>3, <1>4 DEF TaskStep, Work

\* No photo twice, and no more than the limits for a point and for the route.
THEOREM PhotosStayBounded == Spec => []PhotosBounded
<1>1. Init => PhotosInv
  BY InitPhotos
<1>2. TaskOK /\ PhotosInv /\ [TaskStep]_task => (TaskOK /\ PhotosInv)'
  BY NextType, NextPhotosBounded
<1>3. PhotosInv => PhotosBounded
  BY DEF PhotosInv
<1>4. QED
  BY <1>1, <1>2, <1>3, InitType, SpecRuns, PTL

-----------------------------------------------------------------------------
(***************************************************************************)
(* How long a task may be at work.  What is left to it is counted in       *)
(* stages, waypoints of the stage, attempts at the waypoint and retries of *)
(* a call, and every step lowers the first of these that it changes, so    *)
(* that GenerationEnds needs no more than that the task is run.            *)
(***************************************************************************)

StagesLeft ==
    CASE pc = "idle" -> 10
      [] pc = "save" -> 9
      [] pc = "llm" -> 8
      [] pc = "geocode" -> 7
      [] pc = "outliers" -> 6
      [] pc = "gaps" -> 5
      [] pc = "line" -> 4
      [] pc = "photos" -> 3
      [] pc = "build" -> 2
      [] pc = "verdict" -> 1
      [] OTHER -> 0

WaypointsLeft ==
    CASE pc = "geocode" -> raw + 1 - i
      [] pc \in {"outliers", "gaps"} -> Len(points) + 1 - i
      [] pc = "photos" -> Len(route.points) + 1 - i
      [] OTHER -> 0

\* At the photos of a point, those the route may still take.
AttemptsLeft ==
    CASE pc = "outliers" -> MaxOutlierAttempts - attempt
      [] pc = "gaps" -> MaxGapAttempts - attempt
      [] pc = "photos" -> PhotosTotal - Len(route.photos)
      [] OTHER -> 0

RetriesLeft == RetryAttempts - 1 - tries

WorkLeft == {StagesLeft, WaypointsLeft, AttemptsLeft, RetriesLeft}

\* The first of the four that changes falls.
LessLeft ==
    \/ StagesLeft' < StagesLeft
    \/ /\ StagesLeft' = StagesLeft
       /\ \/ WaypointsLeft' < WaypointsLeft
          \/ /\ WaypointsLeft' = WaypointsLeft
             /\ \/ AttemptsLeft' < AttemptsLeft
                \/ AttemptsLeft' = AttemptsLeft /\ RetriesLeft' < RetriesLeft

\* Nothing adds to the work left, and only the expiry of the entry leaves it as
\* it is.
WorkShrinks ==
    [][LessLeft \/ (Expire /\ UNCHANGED <<StagesLeft, WaypointsLeft, AttemptsLeft, RetriesLeft>>)]_task

\* A pass is never more than one waypoint past its last, nor at an attempt
\* after the last.
PassInv ==
    /\ pc \in {"idle", "save", "llm"} => i = 1
    /\ pc = "geocode" => i <= raw + 1
    /\ pc \in {"outliers", "gaps"} => i <= Len(points) + 1
    /\ pc = "outliers" => attempt \in 1..MaxOutlierAttempts
    /\ pc = "gaps" => attempt \in 1..MaxGapAttempts
    /\ pc = "photos" => i <= Len(route.points) + 1

LEMMA InitPass == Init => PassInv
BY GenerationAssumption DEF Init, PassInv

LEMMA FailPass ==
    ASSUME Fail
    PROVE  PassInv'
BY DEF Fail, Goto, PassInv

\* The steps of a repair, at a waypoint of the pass.
LEMMA PassStep ==
    ASSUME TaskOK, PassInv, NEW max \in Nat \ {0}, attempt \in 1..max, i <= Len(points),
           UNCHANGED points, NextAttempt(max) \/ \E p \in Point : Keep(p)
    PROVE  /\ i' <= Len(points') + 1 /\ attempt' \in 1..max
           /\ i' = i + 1 \/ (i' = i /\ attempt' = attempt + 1)
BY DEF TaskOK, NextAttempt, Keep

LEMMA KeepCentralPass ==
    ASSUME TaskOK, PassInv, KeepCentral \/ \E at \in Places \cup {NoPlace} : MoveOutlier(at)
    PROVE  /\ pc = "outliers" /\ UNCHANGED <<pc, points>> /\ i <= Len(points)
           /\ i' <= Len(points') + 1 /\ attempt' \in 1..MaxOutlierAttempts
           /\ i' = i + 1 \/ (i' = i /\ attempt' = attempt + 1)
<1>1. pc = "outliers" /\ UNCHANGED <<pc, points>> /\ i <= Len(points)
  BY DEF KeepCentral, MoveOutlier
<1>2. points[i] \in Point
  BY <1>1 DEF TaskOK
<1>3. NextAttempt(MaxOutlierAttempts) \/ \E p \in Point : Keep(p)
  <2>1. CASE KeepCentral
    BY <1>2, <2>1 DEF KeepCentral
  <2>2. CASE \E at \in Places \cup {NoPlace} : MoveOutlier(at)
    <3>1. PICK at \in Places \cup {NoPlace} : MoveOutlier(at)
      BY <2>2
    <3>2. CASE at # NoPlace /\ Within(center, at, spread)
      <4>1. [points[i] EXCEPT !.at = at] \in Point
        BY <1>1, <3>2, PointsType
      <4>2. QED
        BY <3>1, <3>2, <4>1, Zenon DEF MoveOutlier
    <3>3. CASE ~(at # NoPlace /\ Within(center, at, spread))
      BY <3>1, <3>3, Zenon DEF MoveOutlier
    <3>4. QED
      BY <3>2, <3>3
  <2>3. QED
    BY <2>1, <2>2
<1>4. attempt \in 1..MaxOutlierAttempts /\ MaxOutlierAttempts \in Nat \ {0}
  BY <1>1, GenerationAssumption DEF PassInv
<1>5. QED
  BY <1>1, <1>3, <1>4, PassStep

LEMMA KeepClosePass ==
    ASSUME TaskOK, PassInv,
           \/ KeepClose
           \/ \E action \in {"fix", "insert"}, at \in Places \cup {NoPlace} : CloseGap(action, at)
    PROVE  /\ pc = "gaps" /\ UNCHANGED <<pc, points>> /\ i <= Len(points)
           /\ i' <= Len(points') + 1 /\ attempt' \in 1..MaxGapAttempts
           /\ i' = i + 1 \/ (i' = i /\ attempt' = attempt + 1)
<1>1. pc = "gaps" /\ UNCHANGED <<pc, points>> /\ i <= Len(points)
  BY DEF KeepClose, CloseGap
<1>2. points[i] \in Point
  BY <1>1 DEF TaskOK
<1>3. NextAttempt(MaxGapAttempts) \/ \E p \in Point : Keep(p)
  <2>1. CASE KeepClose
    BY <1>2, <2>1 DEF KeepClose
  <2>2. CASE \E action \in {"fix", "insert"}, at \in Places \cup {NoPlace} : CloseGap(action, at)
    <3>1. PICK action \in {"fix", "insert"}, at \in Places \cup {NoPlace} : CloseGap(action, at)
      BY <2>2
    <3>2. CASE at # NoPlace /\ Within(Last(kept).at, at, MaxGap)
      <4>1. [src |-> IF action = "fix" THEN points[i].src ELSE 0, at |-> at] \in Point
        BY <1>2, <3>2, GenerationAssumption DEF Point
      <4>2. QED
        BY <3>1, <3>2, <4>1, Zenon DEF CloseGap
    <3>3. CASE ~(at # NoPlace /\ Within(Last(kept).at, at, MaxGap))
      BY <3>1, <3>3, Zenon DEF CloseGap
    <3>4. QED
      BY <3>2, <3>3
  <2>3. QED
    BY <2>1, <2>2
<1>4. attempt \in 1..MaxGapAttempts /\ MaxGapAttempts \in Nat \ {0}
  BY <1>1, GenerationAssumption DEF PassInv
<1>5. QED
  BY <1>1, <1>3, <1>4, PassStep

LEMMA NextPass == TaskOK /\ PassInv /\ [TaskStep]_task => PassInv'
<1> SUFFICES ASSUME TaskOK, PassInv, [TaskStep]_task PROVE PassInv'
  OBVIOUS
<1>1. CASE \/ CreateTask \/ FirstSave \/ LastSave \/ Build \/ Retry \/ Expire \/ Lose
           \/ UNCHANGED task
  BY <1>1 DEF CreateTask, FirstSave, LastSave, Build, Retry, Expire, Lose, task, Goto, plan,
       pass, PassInv
<1>2. CASE Fail
  BY <1>2, FailPass
<1>3. ASSUME NEW n \in 0..MaxWaypoints, NEW distance \in Distances, AskForRoute(n, distance), ~Fail
      PROVE  PassInv'
  BY <1>3 DEF AskForRoute, Goto, pass, PassInv
<1>4. ASSUME NEW at \in Places \cup {NoPlace}, Geocode(at) PROVE PassInv'
  <2>1. pc' = "geocode" /\ i <= raw /\ i' = i + 1 /\ raw' = raw
    BY <1>4 DEF Geocode, plan
  <2>2. i \in Nat /\ raw \in Nat
    BY DEF TaskOK
  <2>3. QED
    BY <2>1, <2>2 DEF PassInv
<1>5. CASE (Geocoded \/ OutliersDone \/ GapsDone) /\ ~Fail
  <2>1. /\ pc' \in {"outliers", "gaps", "line"}
        /\ pc' # "line" => i' \in 1..2 /\ attempt' = 1 /\ Len(points') >= 2
    BY <1>5 DEF Geocoded, OutliersDone, GapsDone, StartPass, Goto
  <2>2. pc' # "line" => Len(points') \in Nat
    BY <1>5 DEF Geocoded, OutliersDone, GapsDone, StartPass, Goto, TaskOK
  <2>3. QED
    BY <2>1, <2>2, GenerationAssumption DEF PassInv
<1>6. CASE KeepCentral \/ \E at \in Places \cup {NoPlace} : MoveOutlier(at)
  BY <1>6, KeepCentralPass DEF PassInv
<1>7. CASE \/ KeepClose
           \/ \E action \in {"fix", "insert"}, at \in Places \cup {NoPlace} : CloseGap(action, at)
  BY <1>7, KeepClosePass DEF PassInv
<1>8. ASSUME NEW line \in Lines, BuildLine(line) PROVE PassInv'
  <2>1. pc' = "photos" /\ i' = 1 /\ Len(route'.points) \in Nat
    <3>1. Snap(kept, line) \in Seq(Point)
      BY LinesAreSequences, SnapFacts DEF TaskOK
    <3>2. route'.points = Snap(kept, line)
      BY <1>8 DEF BuildLine
    <3>3. QED
      BY <1>8, <3>1, <3>2 DEF BuildLine, Goto, StartPass
  <2>2. QED
    BY <2>1 DEF PassInv
<1>9. ASSUME NEW url \in Urls, TakePhoto(url) PROVE PassInv'
  <2>1. pc' \in {"photos", "build"} /\ i' = i /\ route'.points = route.points /\ pc = "photos"
    BY <1>9 DEF TakePhoto, pass, TaskOK, Route
  <2>2. QED
    BY <2>1 DEF PassInv
<1>10. CASE NextPhotos
  <2>1. /\ pc' \in {"photos", "build"} /\ i' = i + 1 /\ UNCHANGED route /\ pc = "photos"
        /\ i <= Len(route.points)
    BY <1>10 DEF NextPhotos
  <2>2. i \in Nat /\ Len(route.points) \in Nat
    BY DEF TaskOK, Route
  <2>3. QED
    BY <2>1, <2>2 DEF PassInv
<1>11. CASE Raise
  BY <1>2, <1>11 DEF Raise
<1>12. QED
  BY <1>1, <1>2, <1>3, <1>4, <1>5, <1>6, <1>7, <1>8, <1>9, <1>10, <1>11 DEF TaskStep, Work

\* The definitions, case by case.
LeftIs ==
    /\ pc = "geocode" => WaypointsLeft = raw + 1 - i
    /\ pc \in {"outliers", "gaps"} => WaypointsLeft = Len(points) + 1 - i
    /\ pc = "photos" => WaypointsLeft = Len(route.points) + 1 - i
    /\ pc \notin {"geocode", "outliers", "gaps", "photos"} => WaypointsLeft = 0
    /\ pc = "outliers" => AttemptsLeft = MaxOutlierAttempts - attempt
    /\ pc = "gaps" => AttemptsLeft = MaxGapAttempts - attempt
    /\ pc = "photos" => AttemptsLeft = PhotosTotal - Len(route.photos)
    /\ pc \notin {"outliers", "gaps", "photos"} => AttemptsLeft = 0

LEMMA WhatIsLeft == LeftIs /\ LeftIs'
<1>1. LeftIs
  BY DEF LeftIs, WaypointsLeft, AttemptsLeft
<1>2. LeftIs'
  BY DEF LeftIs, WaypointsLeft, AttemptsLeft
<1>3. QED
  BY <1>1, <1>2

LEMMA WorkIsCounted ==
    ASSUME TaskOK, PassInv, PhotosInv
    PROVE  WorkLeft \subseteq Nat
<1>1. /\ i \in Nat \ {0} /\ raw \in Nat /\ attempt \in Nat /\ tries \in 0..(RetryAttempts - 1)
      /\ Len(points) \in Nat /\ Len(route.points) \in Nat /\ Len(route.photos) \in Nat
      /\ {RetryAttempts, PhotosTotal, MaxOutlierAttempts, MaxGapAttempts} \subseteq Nat
  BY GenerationAssumption DEF TaskOK, Route
<1>2. StagesLeft \in Nat
  BY DEF StagesLeft
<1>3. WaypointsLeft \in Nat
  <2>1. CASE pc = "geocode"
    <3>1. WaypointsLeft = raw + 1 - i
      BY <2>1, WhatIsLeft, Zenon DEF LeftIs
    <3>2. i <= raw + 1
      BY <2>1 DEF PassInv
    <3>3. QED
      BY <1>1, <3>1, <3>2
  <2>2. CASE pc \in {"outliers", "gaps"}
    <3>1. WaypointsLeft = Len(points) + 1 - i
      BY <2>2, WhatIsLeft, Zenon DEF LeftIs
    <3>2. i <= Len(points) + 1
      BY <2>2 DEF PassInv
    <3>3. QED
      BY <1>1, <3>1, <3>2
  <2>3. CASE pc = "photos"
    <3>1. WaypointsLeft = Len(route.points) + 1 - i
      BY <2>3, WhatIsLeft, Zenon DEF LeftIs
    <3>2. i <= Len(route.points) + 1
      BY <2>3 DEF PassInv
    <3>3. QED
      BY <1>1, <3>1, <3>2
  <2>4. CASE pc \notin {"geocode", "outliers", "gaps", "photos"}
    <3>1. WaypointsLeft = 0
      BY <2>4, WhatIsLeft, Zenon DEF LeftIs
    <3>2. QED
      BY <3>1
  <2>5. QED
    BY <2>1, <2>2, <2>3, <2>4
<1>4. AttemptsLeft \in Nat
  <2>1. CASE pc = "outliers"
    <3>1. AttemptsLeft = MaxOutlierAttempts - attempt
      BY <2>1, WhatIsLeft, Zenon DEF LeftIs
    <3>2. attempt \in 1..MaxOutlierAttempts
      BY <2>1 DEF PassInv
    <3>3. QED
      BY <1>1, <3>1, <3>2
  <2>2. CASE pc = "gaps"
    <3>1. AttemptsLeft = MaxGapAttempts - attempt
      BY <2>2, WhatIsLeft, Zenon DEF LeftIs
    <3>2. attempt \in 1..MaxGapAttempts
      BY <2>2 DEF PassInv
    <3>3. QED
      BY <1>1, <3>1, <3>2
  <2>3. CASE pc = "photos"
    <3>1. AttemptsLeft = PhotosTotal - Len(route.photos)
      BY <2>3, WhatIsLeft, Zenon DEF LeftIs
    <3>2. Len(route.photos) < PhotosTotal
      BY <2>3 DEF PhotosInv
    <3> DEFINE taken == Len(route.photos)
    <3>3. AttemptsLeft = PhotosTotal - taken /\ taken \in Nat /\ taken < PhotosTotal /\ PhotosTotal \in Nat
      BY <1>1, <3>1, <3>2
    <3> HIDE DEF taken
    <3>4. QED
      BY <3>3
  <2>4. CASE pc \notin {"outliers", "gaps", "photos"}
    <3>1. AttemptsLeft = 0
      BY <2>4, WhatIsLeft, Zenon DEF LeftIs
    <3>2. QED
      BY <3>1
  <2>5. QED
    BY <2>1, <2>2, <2>3, <2>4
<1>5. RetriesLeft \in Nat
  BY <1>1 DEF RetriesLeft
<1>6. QED
  BY <1>2, <1>3, <1>4, <1>5 DEF WorkLeft

LEMMA NextLess ==
    TaskOK /\ PassInv /\ [TaskStep]_task =>
        [LessLeft \/ (Expire /\ UNCHANGED <<StagesLeft, WaypointsLeft, AttemptsLeft, RetriesLeft>>)]_task
<1> SUFFICES ASSUME TaskOK, PassInv, TaskStep
             PROVE  LessLeft \/ (Expire /\ UNCHANGED <<StagesLeft, WaypointsLeft, AttemptsLeft, RetriesLeft>>)
  OBVIOUS
<1>0. /\ i \in Nat \ {0} /\ raw \in Nat /\ attempt \in Nat /\ tries \in 0..(RetryAttempts - 1)
      /\ Len(points) \in Nat /\ Len(route.points) \in Nat /\ Len(route.photos) \in Nat
      /\ {RetryAttempts, PhotosTotal, MaxOutlierAttempts, MaxGapAttempts} \subseteq Nat
  BY GenerationAssumption DEF TaskOK, Route
<1>1. CASE CreateTask \/ FirstSave \/ LastSave \/ Build \/ Lose
  <2>1. StagesLeft' < StagesLeft
    BY <1>1 DEF CreateTask, FirstSave, LastSave, Build, Lose, Goto, StagesLeft, TaskOK, Stages
  <2>2. QED
    BY <2>1 DEF LessLeft
<1>2. CASE /\ \/ Raise \/ Geocoded \/ OutliersDone \/ GapsDone
              \/ \E n \in 0..MaxWaypoints, distance \in Distances : AskForRoute(n, distance)
              \/ \E line \in Lines : BuildLine(line)
  <2>1. /\ pc \in {"llm", "geocode", "outliers", "gaps", "line", "build"}
        /\ \/ pc' = "verdict"
           \/ pc = "llm" /\ pc' = "geocode"
           \/ pc = "geocode" /\ pc' = "outliers"
           \/ pc = "outliers" /\ pc' = "gaps"
           \/ pc = "gaps" /\ pc' = "line"
           \/ pc = "line" /\ pc' = "photos"
    BY <1>2 DEF Raise, Geocoded, OutliersDone, GapsDone, AskForRoute, BuildLine, Fail, Goto
  <2>2. StagesLeft' < StagesLeft
    BY <2>1 DEF StagesLeft
  <2>3. QED
    BY <2>2 DEF LessLeft
<1>3. CASE Retry
  <2>1. /\ tries' = tries + 1 /\ UNCHANGED <<pc, raw, points, i, attempt, route>>
    BY <1>3 DEF Retry, plan, pass
  <2>2. UNCHANGED <<StagesLeft, WaypointsLeft, AttemptsLeft>>
    BY <2>1, Zenon DEF StagesLeft, WaypointsLeft, AttemptsLeft
  <2>3. RetriesLeft' < RetriesLeft
    BY <1>0, <2>1 DEF RetriesLeft
  <2>4. QED
    BY <2>2, <2>3 DEF LessLeft
<1>4. ASSUME NEW at \in Places \cup {NoPlace}, Geocode(at) PROVE LessLeft
  <2>1. pc = "geocode" /\ pc' = pc /\ i' = i + 1 /\ raw' = raw
    BY <1>4 DEF Geocode, plan
  <2>2. StagesLeft' = StagesLeft
    BY <2>1, Zenon DEF StagesLeft
  <2>3. WaypointsLeft' < WaypointsLeft
    BY <1>0, <2>1, WhatIsLeft DEF LeftIs
  <2>4. QED
    BY <2>2, <2>3 DEF LessLeft
<1>5. CASE \/ KeepCentral \/ KeepClose
           \/ \E at \in Places \cup {NoPlace} : MoveOutlier(at)
           \/ \E action \in {"fix", "insert"}, at \in Places \cup {NoPlace} : CloseGap(action, at)
  <2>1. /\ pc \in {"outliers", "gaps"} /\ UNCHANGED <<pc, points>>
        /\ i' = i + 1 \/ (i' = i /\ attempt' = attempt + 1)
    BY <1>5, KeepCentralPass, KeepClosePass
  <2>2. StagesLeft' = StagesLeft
    BY <2>1 DEF StagesLeft
  <2>3. CASE i' = i + 1
    <3>1. WaypointsLeft' < WaypointsLeft
      BY <1>0, <2>1, <2>3, WhatIsLeft DEF LeftIs
    <3>2. QED
      BY <2>2, <3>1 DEF LessLeft
  <2>4. CASE i' = i /\ attempt' = attempt + 1
    <3>1. WaypointsLeft' = WaypointsLeft
      BY <2>1, <2>4, WhatIsLeft DEF LeftIs
    <3>2. AttemptsLeft' < AttemptsLeft
      BY <1>0, <2>1, <2>4, WhatIsLeft DEF LeftIs
    <3>3. QED
      BY <2>2, <3>1, <3>2 DEF LessLeft
  <2>5. QED
    BY <2>1, <2>3, <2>4
<1>6. ASSUME NEW url \in Urls, TakePhoto(url) PROVE LessLeft
  <2>1. /\ pc = "photos" /\ pc' \in {"photos", "build"} /\ i' = i
        /\ route'.points = route.points
        /\ route'.photos = Append(route.photos, [url |-> url, near |-> i])
    BY <1>6 DEF TakePhoto, pass, TaskOK, Route
  <2>2. Len(route'.photos) = Len(route.photos) + 1
    BY <2>1, AppendFacts DEF TaskOK, Route, Photo
  <2>3. CASE pc' = "build"
    <3>1. StagesLeft' < StagesLeft
      BY <2>1, <2>3 DEF StagesLeft
    <3>2. QED
      BY <3>1 DEF LessLeft
  <2>4. CASE pc' = "photos"
    <3>1. StagesLeft' = StagesLeft
      BY <2>1, <2>4, Zenon DEF StagesLeft
    <3>2. WaypointsLeft' = WaypointsLeft
      BY <2>1, <2>4, WhatIsLeft DEF LeftIs
    <3>3. AttemptsLeft' < AttemptsLeft
      BY <1>0, <2>1, <2>2, <2>4, WhatIsLeft DEF LeftIs
    <3>4. QED
      BY <3>1, <3>2, <3>3 DEF LessLeft
  <2>5. QED
    BY <2>1, <2>3, <2>4
<1>7. CASE NextPhotos
  <2>1. /\ pc = "photos" /\ pc' \in {"photos", "build"} /\ i' = i + 1 /\ UNCHANGED route
    BY <1>7 DEF NextPhotos
  <2>2. CASE pc' = "build"
    <3>1. StagesLeft' < StagesLeft
      BY <2>1, <2>2 DEF StagesLeft
    <3>2. QED
      BY <3>1 DEF LessLeft
  <2>3. CASE pc' = "photos"
    <3>1. StagesLeft' = StagesLeft
      BY <2>1, <2>3, Zenon DEF StagesLeft
    <3>2. /\ WaypointsLeft = Len(route.points) + 1 - i
          /\ WaypointsLeft' = Len(route'.points) + 1 - i'
      BY <2>1, <2>3, WhatIsLeft, Zenon DEF LeftIs
    <3> DEFINE n == Len(route.points)
    <3>3. WaypointsLeft = n + 1 - i /\ WaypointsLeft' = n + 1 - (i + 1) /\ n \in Nat /\ i \in Nat
      BY <1>0, <2>1, <3>2
    <3> HIDE DEF n
    <3>4. WaypointsLeft' < WaypointsLeft
      BY <3>3
    <3>5. QED
      BY <3>1, <3>4 DEF LessLeft
  <2>4. QED
    BY <2>1, <2>2, <2>3
<1>8. CASE Expire
  <2>1. UNCHANGED <<pc, raw, points, i, attempt, tries, route>>
    BY <1>8 DEF Expire, plan, pass
  <2>2. QED
    BY <1>8, <2>1 DEF StagesLeft, WaypointsLeft, AttemptsLeft, RetriesLeft
<1>9. QED
  BY <1>1, <1>2, <1>3, <1>4, <1>5, <1>6, <1>7, <1>8 DEF TaskStep, Work

LEMMA PassHolds == Spec => [](TaskOK /\ PassInv /\ PhotosInv)
<1>1. Init => PhotosInv
  BY InitPhotos
<1>2. TaskOK /\ PassInv /\ PhotosInv /\ [TaskStep]_task => (TaskOK /\ PassInv /\ PhotosInv)'
  BY NextType, NextPass, NextPhotosBounded
<1>3. QED
  BY <1>1, <1>2, InitType, InitPass, SpecRuns, PTL

\* The work left is never negative: no pass runs past its end and no bound on
\* attempts or photos is overstepped.
THEOREM WorkIsBounded == Spec => [](WorkLeft \subseteq Nat)
<1>1. TaskOK /\ PassInv /\ PhotosInv => WorkLeft \subseteq Nat
  BY WorkIsCounted
<1>2. QED
  BY <1>1, PassHolds, PTL

\* A task never starts again what it has done: every step leaves it less to do,
\* whatever the services answer, so that it can take no step for ever.
THEOREM TasksMoveOn == Spec => WorkShrinks
<1>1. QED
  BY NextLess, PassHolds, SpecRuns, PTL DEF WorkShrinks

=============================================================================
