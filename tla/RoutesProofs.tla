---------------------------- MODULE RoutesProofs ----------------------------
(***************************************************************************)
(* Proofs about Routes, for any changes and any number of requests.        *)
(***************************************************************************)
EXTENDS Routes, TLAPS

-----------------------------------------------------------------------------
(***************************************************************************)
(* The invariants.                                                         *)
(***************************************************************************)

\* Where a request of each kind can be, and what it carries.
RequestShape(r) ==
    /\ r.kind = "none" <=> r.pc = "idle"
    /\ r.kind = "create" => /\ r.pc = "commit" /\ r.old = "new"
                            /\ r.change.status # "keep"
    /\ r.kind = "update" => r.pc \in {"write", "commit"} /\ r.old # "new"
    /\ r.kind \in {"delete", "admin"} =>
         r.pc \in {"write", "commit"} /\ r.change = NoChange
    /\ r.kind = "read" <=> r.pc \in {"fetch", "fill"}

TypeInv == TypeOK /\ \A w \in Workers : RequestShape(req[w])

\* Requests that write find the row as it must be, and one holds its lock.
RowInv ==
    /\ \A w \in Workers : req[w].kind = "create" => route.status = "new"
    /\ \A w \in Workers : req[w].kind \in {"update", "delete", "admin"} =>
         route.status # "new"
    /\ \A w, v \in Workers : req[w].pc = "commit" /\ req[v].pc = "commit" => w = v
    /\ \A w \in Workers : req[w].pc = "commit" /\ req[w].kind = "update" => Exists

\* Who reads "published", now or at the start of an update, comes after an announcement.
AnnounceInv ==
    /\ route.status = "published" => announced > 0
    /\ \A w \in Workers :
         req[w].kind = "update" /\ req[w].old = "published" => announced > 0

\* Without overlap, the status an update read is that of the row it writes.
OldInv ==
    ~overlapped =>
      /\ announced = publications
      /\ \A w, v \in Workers : req[w].kind = "update" /\ req[v].kind = "update" => w = v
      /\ \A w \in Workers : req[w].kind = "update" /\ Exists => req[w].old = route.status

\* A snapshot is the present one, or not younger than the last change.
AgeInv ==
    /\ Cached => /\ now < cache.exp /\ cache.exp <= cache.read + Patience + Ttl
                 /\ cache.read <= now
                 /\ cache.shown = Shown(route) \/ cache.read <= changedAt
    /\ \A w \in Workers : req[w].kind = "read" =>
         /\ req[w].since <= now /\ now <= req[w].since + Patience
         /\ req[w].seen = Shown(route) \/ req[w].since <= changedAt

\* A request that has deleted the list, or tried to.
Clears(r) ==
    /\ r.pc = "commit"
    /\ \/ r.kind \in {"update", "delete"}
       \/ r.kind = "create" /\ r.change.status = "published"

\* Without a race snapshots are the present ones, and there is no list when a
\* writer that deletes it commits.
FreshInv ==
    ~raced =>
      /\ Cached => cache.shown = Shown(route)
      /\ \A w \in Workers : req[w].kind = "read" => req[w].seen = Shown(route)
      /\ \A w \in Workers : Clears(req[w]) => ~Cached

-----------------------------------------------------------------------------
(***************************************************************************)
(* What the steps do to the requests.                                      *)
(***************************************************************************)

LEMMA RequestTypes ==
    /\ Idle \in Request /\ RequestShape(Idle)
    /\ NoChange \in Change
    /\ \A r : Shown(r) \in View
BY DEF Idle, Request, RequestShape, NoChange, Change, RouteStatus, Shown, View

LEMMA StartFields ==
    ASSUME NEW w \in Workers, NEW r \in Request, req \in [Workers -> Request],
           Start(w, r)
    PROVE  /\ req' \in [Workers -> Request]
           /\ req[w].pc = "idle"
           /\ req'[w] = r
           /\ \A v \in Workers \ {w} : req'[v] = req[v]
BY DEF Start

LEMMA GotoFields ==
    ASSUME NEW w \in Workers, NEW pc \in {"commit", "fill"},
           req \in [Workers -> Request], Goto(w, pc)
    PROVE  /\ req' \in [Workers -> Request]
           /\ req'[w].pc = pc /\ req'[w].kind = req[w].kind
           /\ req'[w].old = req[w].old /\ req'[w].change = req[w].change
           /\ req'[w].seen = req[w].seen /\ req'[w].since = req[w].since
           /\ \A v \in Workers \ {w} : req'[v] = req[v]
BY DEF Goto, Request

LEMMA FinishFields ==
    ASSUME NEW w \in Workers, req \in [Workers -> Request], Finish(w)
    PROVE  /\ req' \in [Workers -> Request]
           /\ req'[w] = Idle
           /\ \A v \in Workers \ {w} : req'[v] = req[v]
BY RequestTypes DEF Finish

\* A new request.
LEMMA CreateFields ==
    ASSUME NEW w \in Workers, NEW ch \in Changes, req \in [Workers -> Request],
           CreateRoute(w, ch)
    PROVE  /\ req' \in [Workers -> Request]
           /\ req[w].pc = "idle"
           /\ \A v \in Workers \ {w} : req'[v] = req[v]
           /\ req'[w].kind = "create" /\ req'[w].pc = "commit"
           /\ req'[w].old = "new" /\ req'[w].change = ch
<1> DEFINE r == [Idle EXCEPT !.kind = "create", !.pc = "commit", !.change = ch]
<1>1. r \in Request /\ r.kind = "create" /\ r.pc = "commit" /\ r.old = "new" /\ r.change = ch
  BY RoutesAssumption, RequestTypes DEF Idle, Request
<1>2. Start(w, r)
  BY DEF CreateRoute
<1> HIDE DEF r
<1>3. QED
  BY <1>1, <1>2, StartFields

LEMMA UpdateFields ==
    ASSUME NEW w \in Workers, NEW ch \in Changes, req \in [Workers -> Request],
           UpdateBegin(w, ch)
    PROVE  /\ req' \in [Workers -> Request]
           /\ req[w].pc = "idle"
           /\ \A v \in Workers \ {w} : req'[v] = req[v]
           /\ req'[w].kind = "update" /\ req'[w].pc = "write"
           /\ req'[w].old = route.status /\ req'[w].change = ch
<1> DEFINE r == [Idle EXCEPT !.kind = "update", !.pc = "write", !.old = route.status,
                             !.change = ch]
<1>1. /\ r \in Request /\ r.kind = "update" /\ r.pc = "write"
      /\ r.old = route.status /\ r.change = ch
  BY RoutesAssumption, RequestTypes DEF Idle, Request, UpdateBegin, Exists
<1>2. Start(w, r)
  BY DEF UpdateBegin
<1> HIDE DEF r
<1>3. QED
  BY <1>1, <1>2, StartFields

LEMMA DeleteFields ==
    ASSUME NEW w \in Workers, NEW kind \in {"delete", "admin"},
           req \in [Workers -> Request], DeleteBegin(w, kind)
    PROVE  /\ req' \in [Workers -> Request]
           /\ req[w].pc = "idle"
           /\ \A v \in Workers \ {w} : req'[v] = req[v]
           /\ req'[w].kind = kind /\ req'[w].pc = "write" /\ req'[w].change = NoChange
<1> DEFINE r == [Idle EXCEPT !.kind = kind, !.pc = "write"]
<1>1. r \in Request /\ r.kind = kind /\ r.pc = "write" /\ r.change = NoChange
  BY RequestTypes DEF Idle, Request
<1>2. Start(w, r)
  BY DEF DeleteBegin
<1> HIDE DEF r
<1>3. QED
  BY <1>1, <1>2, StartFields

LEMMA ReadFields ==
    ASSUME NEW w \in Workers, req \in [Workers -> Request], now \in Nat, Read(w)
    PROVE  /\ req' \in [Workers -> Request]
           /\ req[w].pc = "idle"
           /\ \A v \in Workers \ {w} : req'[v] = req[v]
           /\ req'[w].kind = "read" /\ req'[w].pc \in {"fetch", "fill"}
           /\ req'[w].seen = Shown(route) /\ req'[w].since = now
<1> DEFINE pc == IF PhotoMissing THEN "fetch" ELSE "fill"
           r == [Idle EXCEPT !.kind = "read", !.pc = pc, !.seen = Shown(route),
                             !.since = now]
<1>1. pc \in {"fetch", "fill"}
  OBVIOUS
<1>2. Start(w, r)
  BY DEF Read
<1> HIDE DEF pc
<1>3. /\ r \in Request /\ r.kind = "read" /\ r.pc \in {"fetch", "fill"}
      /\ r.seen = Shown(route) /\ r.since = now
  BY <1>1, RequestTypes DEF Idle, Request
<1> HIDE DEF r
<1>4. QED
  BY <1>2, <1>3, StartFields

\* Another's commit changes at most the observation of an open request.
LEMMA CommitFields ==
    ASSUME NEW w \in Workers, req \in [Workers -> Request], Commit(w)
    PROVE  /\ req' \in [Workers -> Request]
           /\ req'[w] = Idle
           /\ \A v \in Workers \ {w} :
                /\ req'[v].kind = req[v].kind /\ req'[v].pc = req[v].pc
                /\ req'[v].old = req[v].old /\ req'[v].change = req[v].change
                /\ req'[v].seen = req[v].seen /\ req'[v].since = req[v].since
<1>1. PICK late \in [Workers -> BOOLEAN] :
        req' = [v \in Workers |->
                  IF v = w THEN Idle
                  ELSE IF late[v] THEN [req[v] EXCEPT !.late = TRUE] ELSE req[v]]
  <2> DEFINE f == [v \in Workers |-> req[v].pc = "fetch" /\ NewRow(w).photos = "author"]
  <2>1. f \in [Workers -> BOOLEAN]
    OBVIOUS
  <2>2. req' = [v \in Workers |->
                  IF v = w THEN Idle
                  ELSE IF f[v] THEN [req[v] EXCEPT !.late = TRUE] ELSE req[v]]
    BY DEF Commit
  <2> HIDE DEF f
  <2>3. QED
    BY <2>1, <2>2
<1>2. \A v \in Workers : [req[v] EXCEPT !.late = TRUE] \in Request
  BY DEF Request
<1>3. req' \in [Workers -> Request] /\ req'[w] = Idle
  BY <1>1, <1>2, RequestTypes
<1>4. ASSUME NEW v \in Workers \ {w}
      PROVE  req'[v] \in {req[v], [req[v] EXCEPT !.late = TRUE]}
  BY <1>1
<1>5. ASSUME NEW v \in Workers \ {w}
      PROVE  /\ req'[v].kind = req[v].kind /\ req'[v].pc = req[v].pc
             /\ req'[v].old = req[v].old /\ req'[v].change = req[v].change
             /\ req'[v].seen = req[v].seen /\ req'[v].since = req[v].since
  <2>1. req[v] \in Request
    OBVIOUS
  <2>2. QED
    BY <1>4, <2>1 DEF Request
<1>6. QED
  BY <1>3, <1>5

\* The row a commit leaves.
LEMMA NewRowType ==
    ASSUME NEW w \in Workers, TypeInv, req[w].pc = "commit"
    PROVE  /\ NewRow(w) \in Route
           /\ req[w].kind \in {"delete", "admin"} => NewRow(w).status = "deleted"
           /\ req[w].kind \in {"create", "update"} =>
                NewRow(w).status = IF req[w].change.status = "keep" THEN route.status
                                   ELSE req[w].change.status
<1>1. req[w] \in Request /\ RequestShape(req[w]) /\ route \in Route
  BY DEF TypeInv, TypeOK
<1>2. CASE req[w].kind \in {"create", "update"}
  <2>1. req[w].change \in Change
    BY <1>1 DEF Request
  <2>2. NewRow(w) = Apply(route, req[w].change)
    BY <1>2 DEF NewRow
  <2> DEFINE ch == req[w].change
             st == IF ch.status = "keep" THEN route.status ELSE ch.status
             pd == IF ch.paid = "keep" THEN route.paid ELSE ch.paid = "yes"
             ph == IF ch.photos = "keep" THEN route.photos ELSE ch.photos
  <2>3. st \in RouteStatus \cup {"new", "deleted"} /\ ph \in {"none", "author", "wiki"}
    BY <1>1, <2>1 DEF Change, Route
  <2>4. pd \in BOOLEAN
    <3>1. route.paid \in BOOLEAN /\ (ch.paid = "yes") \in BOOLEAN
      BY <1>1 DEF Route
    <3>2. QED
      BY <3>1
  <2>5. NewRow(w) = [status |-> st, paid |-> pd, photos |-> ph]
    BY <2>2 DEF Apply
  <2> HIDE DEF st, pd, ph
  <2>6. NewRow(w) \in Route /\ NewRow(w).status = st
    BY <2>3, <2>4, <2>5 DEF Route
  <2>7. QED
    BY <1>2, <2>6 DEF st
<1>3. CASE req[w].kind \in {"delete", "admin"}
  BY <1>1, <1>3 DEF NewRow, Route
<1>4. QED
  BY <1>1, <1>2, <1>3 DEF RequestShape, Request

-----------------------------------------------------------------------------
(***************************************************************************)
(* Types.                                                                  *)
(***************************************************************************)

LEMMA InitTypeInv == Init => TypeInv
<1> SUFFICES ASSUME Init PROVE TypeInv
  OBVIOUS
<1>1. req \in [Workers -> Request] /\ \A w \in Workers : RequestShape(req[w])
  BY RequestTypes DEF Init
<1>2. route \in Route /\ cache \in Entry
  BY DEF Init, Route, NoEntry, Entry, View
<1>3. now \in 0..MaxTime
  BY RoutesAssumption DEF Init
<1>4. list \in List /\ overlapped \in BOOLEAN /\ raced \in BOOLEAN
  BY DEF Init
<1>5. announced \in Nat /\ publications \in Nat /\ changedAt \in Nat
  BY DEF Init
<1>6. QED
  BY <1>1, <1>2, <1>3, <1>4, <1>5 DEF TypeInv, TypeOK

LEMMA InvalidateType ==
    ASSUME cache \in Entry, raced \in BOOLEAN, Invalidate
    PROVE  /\ cache' \in Entry /\ raced' \in BOOLEAN
           /\ cache' \in {cache, NoEntry}
           /\ (raced => raced')
           /\ (~raced' => ~Cached')
<1>1. NoEntry \in Entry /\ NoEntry.exp = 0
  BY DEF NoEntry, Entry, View
<1>2. CASE cache' = NoEntry /\ UNCHANGED raced
  BY <1>1, <1>2 DEF Cached
<1>3. CASE raced' = (raced \/ Cached) /\ UNCHANGED cache
  BY <1>3 DEF Cached
<1>4. QED
  BY <1>2, <1>3 DEF Invalidate

LEMMA NextTypeInv == TypeInv /\ [Next]_vars => TypeInv'
<1> SUFFICES ASSUME TypeInv, [Next]_vars PROVE TypeInv'
  OBVIOUS
<1>a. /\ route \in Route /\ list \in List /\ cache \in Entry
      /\ req \in [Workers -> Request] /\ now \in 0..MaxTime /\ now \in Nat
      /\ announced \in Nat /\ publications \in Nat /\ overlapped \in BOOLEAN
      /\ changedAt \in Nat /\ raced \in BOOLEAN
  BY RoutesAssumption DEF TypeInv, TypeOK
<1>b. \A w \in Workers : RequestShape(req[w])
  BY DEF TypeInv
<1>1. CASE Tick
  <2>1. now' \in 0..MaxTime
    BY <1>1, <1>a, RoutesAssumption DEF Tick
  <2>2. cache' \in Entry
    BY <1>1, <1>a DEF Tick, NoEntry, Entry, View
  <2>3. QED
    BY <1>1, <1>a, <1>b, <2>1, <2>2 DEF Tick, TypeInv, TypeOK
<1>2. ASSUME NEW w \in Workers, NEW ch \in Changes, CreateRoute(w, ch) PROVE TypeInv'
  <2>1. cache' \in Entry /\ raced' \in BOOLEAN
    BY <1>2, <1>a, InvalidateType DEF CreateRoute
  <2>2. ch.status # "keep"
    BY <1>2 DEF CreateRoute
  <2>3. RequestShape(req'[w])
    BY <1>2, <2>2, <1>a, CreateFields DEF RequestShape
  <2>4. req' \in [Workers -> Request] /\ \A v \in Workers : RequestShape(req'[v])
    BY <1>2, <2>3, <1>a, <1>b, CreateFields
  <2>5. QED
    BY <1>2, <1>a, <2>1, <2>4 DEF CreateRoute, TypeInv, TypeOK
<1>3. ASSUME NEW w \in Workers, NEW ch \in Changes, UpdateBegin(w, ch) PROVE TypeInv'
  <2>1. route.status # "new"
    BY <1>3 DEF UpdateBegin, Exists, RouteStatus
  <2>2. RequestShape(req'[w])
    BY <1>3, <2>1, <1>a, UpdateFields DEF RequestShape
  <2>3. req' \in [Workers -> Request] /\ \A v \in Workers : RequestShape(req'[v])
    BY <1>3, <2>2, <1>a, <1>b, UpdateFields
  <2>4. overlapped' \in BOOLEAN
    BY <1>3, <1>a DEF UpdateBegin
  <2>5. QED
    BY <1>3, <1>a, <2>3, <2>4 DEF UpdateBegin, TypeInv, TypeOK
<1>4. ASSUME NEW w \in Workers, NEW kind \in {"delete", "admin"}, DeleteBegin(w, kind)
      PROVE  TypeInv'
  <2>1. req' \in [Workers -> Request] /\ \A v \in Workers : RequestShape(req'[v])
    BY <1>4, <1>a, <1>b, DeleteFields DEF RequestShape
  <2>2. QED
    BY <1>4, <1>a, <2>1 DEF DeleteBegin, TypeInv, TypeOK
<1>5. ASSUME NEW w \in Workers, Write(w) PROVE TypeInv'
  <2>1. cache' \in Entry /\ raced' \in BOOLEAN
    BY <1>5, <1>a, InvalidateType DEF Write
  <2>2. Finish(w) \/ Goto(w, "commit")
    BY <1>5 DEF Write
  <2>3. req' \in [Workers -> Request] /\ \A v \in Workers : RequestShape(req'[v])
    <3>1. CASE Finish(w)
      BY <3>1, <1>a, <1>b, FinishFields, RequestTypes
    <3>2. CASE Goto(w, "commit")
      <4>1. RequestShape(req'[w])
        BY <3>2, <1>5, <1>a, <1>b, GotoFields DEF RequestShape, Write
      <4>2. QED
        BY <3>2, <4>1, <1>a, <1>b, GotoFields
    <3>3. QED
      BY <2>2, <3>1, <3>2
  <2>4. QED
    BY <1>5, <1>a, <2>1, <2>3 DEF Write, TypeInv, TypeOK
<1>6. ASSUME NEW w \in Workers, Commit(w) PROVE TypeInv'
  <2>1. route' \in Route
    BY <1>6, NewRowType DEF Commit
  <2>2. /\ announced' \in Nat /\ publications' \in Nat /\ changedAt' \in Nat
        /\ raced' \in BOOLEAN
    BY <1>6, <1>a DEF Commit
  <2>3. req' \in [Workers -> Request] /\ \A v \in Workers : RequestShape(req'[v])
    BY <1>6, <1>a, <1>b, CommitFields, RequestTypes DEF RequestShape
  <2>4. QED
    BY <1>6, <1>a, <2>1, <2>2, <2>3 DEF Commit, TypeInv, TypeOK
<1>7. ASSUME NEW w \in Workers, Read(w) PROVE TypeInv'
  <2>1. req' \in [Workers -> Request] /\ \A v \in Workers : RequestShape(req'[v])
    BY <1>7, <1>a, <1>b, ReadFields DEF RequestShape
  <2>2. QED
    BY <1>7, <1>a, <2>1 DEF Read, TypeInv, TypeOK
<1>8. ASSUME NEW w \in Workers, PhotoWrite(w) \/ PhotoSkip(w) PROVE TypeInv'
  <2>1. Goto(w, "fill") /\ req[w].pc = "fetch"
    BY <1>8 DEF PhotoWrite, PhotoSkip
  <2>2. RequestShape(req'[w])
    BY <2>1, <1>a, <1>b, GotoFields DEF RequestShape
  <2>3. req' \in [Workers -> Request] /\ \A v \in Workers : RequestShape(req'[v])
    BY <2>1, <2>2, <1>a, <1>b, GotoFields
  <2>4. route' \in Route
    BY <1>8, <1>a DEF PhotoWrite, PhotoSkip, Route
  <2>5. QED
    BY <1>8, <1>a, <2>3, <2>4 DEF PhotoWrite, PhotoSkip, TypeInv, TypeOK
<1>9. ASSUME NEW w \in Workers, Fill(w) PROVE TypeInv'
  <2>1. req' \in [Workers -> Request] /\ \A v \in Workers : RequestShape(req'[v])
    BY <1>9, <1>a, <1>b, FinishFields, RequestTypes DEF Fill, FillWith
  <2>2. req[w].seen \in View /\ req[w].since \in Nat /\ now + Ttl \in Nat
    BY <1>a, RoutesAssumption DEF Request
  <2>3. cache' \in Entry /\ raced' \in BOOLEAN
    <3>1. CASE UNCHANGED <<cache, raced>>
      BY <3>1, <1>a
    <3>2. CASE /\ cache' = [shown |-> req[w].seen, exp |-> now + Ttl, read |-> req[w].since]
               /\ raced' = (raced \/ Locked)
      BY <3>2, <2>2, <1>a DEF Entry
    <3>3. QED
      BY <1>9, <3>1, <3>2 DEF Fill, FillWith
  <2>4. QED
    BY <1>9, <1>a, <2>1, <2>3 DEF Fill, FillWith, TypeInv, TypeOK
<1>10. ASSUME NEW w \in Workers, Abort(w) PROVE TypeInv'
  <2>1. req' \in [Workers -> Request] /\ \A v \in Workers : RequestShape(req'[v])
    BY <1>10, <1>a, <1>b, FinishFields, RequestTypes DEF Abort
  <2>2. QED
    BY <1>10, <1>a, <2>1 DEF Abort, TypeInv, TypeOK
<1>11. CASE UNCHANGED vars
  BY <1>11, <1>a, <1>b DEF vars, TypeInv, TypeOK
<1>12. QED
  BY <1>1, <1>2, <1>3, <1>4, <1>5, <1>6, <1>7, <1>8, <1>9, <1>10, <1>11
     DEF Next, Writer, Reader

\* The state has its shape, for any changes and any number of requests.
THEOREM TypeCorrect == Spec => []TypeOK
<1>1. TypeInv => TypeOK
  BY DEF TypeInv
<1>2. QED
  BY <1>1, InitTypeInv, NextTypeInv, PTL DEF Spec

\* Which kinds can be at which step.
LEMMA Kinds ==
    ASSUME TypeInv, NEW w \in Workers
    PROVE  /\ req[w].pc = "idle" <=> req[w].kind = "none"
           /\ req[w].pc = "write" => req[w].kind \in {"update", "delete", "admin"}
           /\ req[w].pc = "commit" => req[w].kind \in {"create", "update", "delete", "admin"}
           /\ req[w].pc \in {"fetch", "fill"} <=> req[w].kind = "read"
           /\ req[w].kind = "create" => /\ req[w].pc = "commit"
                                        /\ req[w].change.status # "keep"
                                        /\ req[w].old = "new"
           /\ req[w].kind \in {"delete", "admin"} => req[w].change.status = "keep"
BY DEF TypeInv, TypeOK, RequestShape, Request, NoChange

\* A write ends the request or takes the lock, and then mostly deletes the list.
LEMMA WriteEffect ==
    ASSUME NEW w \in Workers, req \in [Workers -> Request], Write(w)
    PROVE  /\ req[w].pc = "write" /\ ~Locked
           /\ UNCHANGED <<route, list, now, announced, publications, overlapped, changedAt>>
           /\ \/ Finish(w) /\ UNCHANGED <<cache, raced>>
              \/ /\ Goto(w, "commit")
                 /\ req[w].kind = "update" => Exists
                 /\ \/ req[w].kind = "admin" /\ UNCHANGED <<cache, raced>>
                    \/ req[w].kind # "admin" /\ Invalidate
BY DEF Write

LEMMA InitInv == Init => RowInv /\ AnnounceInv /\ OldInv /\ AgeInv /\ FreshInv
<1> SUFFICES ASSUME Init PROVE RowInv /\ AnnounceInv /\ OldInv /\ AgeInv /\ FreshInv
  OBVIOUS
<1>1. \A w \in Workers : req[w].kind = "none" /\ req[w].pc = "idle"
  BY DEF Init, Idle
<1>2. ~Cached /\ route.status = "new" /\ announced = 0 /\ publications = 0
  BY DEF Init, NoEntry, Cached
<1>3. RowInv /\ AnnounceInv /\ OldInv
  BY <1>1, <1>2 DEF RowInv, AnnounceInv, OldInv
<1>4. AgeInv /\ FreshInv
  BY <1>1, <1>2 DEF AgeInv, FreshInv, Clears
<1>5. QED
  BY <1>3, <1>4

-----------------------------------------------------------------------------
(***************************************************************************)
(* The row and its lock.                                                   *)
(***************************************************************************)

LEMMA NextRow == TypeInv /\ RowInv /\ [Next]_vars => RowInv'
<1> SUFFICES ASSUME TypeInv, RowInv, [Next]_vars PROVE RowInv'
  OBVIOUS
<1>a. req \in [Workers -> Request] /\ now \in Nat /\ route \in Route
  BY RoutesAssumption DEF TypeInv, TypeOK
<1>1. CASE Tick
  BY <1>1 DEF Tick, RowInv, Exists
<1>2. ASSUME NEW w \in Workers, NEW ch \in Changes, CreateRoute(w, ch) PROVE RowInv'
  <2>1. route' = route /\ route.status = "new" /\ \A v \in Workers : req[v].kind # "create"
    BY <1>2 DEF CreateRoute
  <2>2. \A v \in Workers : req[v].pc # "commit"
    BY <2>1, Kinds DEF RowInv
  <2>3. QED
    BY <1>2, <1>a, <2>1, <2>2, CreateFields DEF RowInv, Exists
<1>3. ASSUME NEW w \in Workers, NEW ch \in Changes, UpdateBegin(w, ch) PROVE RowInv'
  <2>1. route' = route /\ route.status # "new"
    BY <1>3 DEF UpdateBegin, Exists, RouteStatus
  <2>2. QED
    BY <1>3, <1>a, <2>1, UpdateFields DEF RowInv, Exists
<1>4. ASSUME NEW w \in Workers, NEW kind \in {"delete", "admin"}, DeleteBegin(w, kind)
      PROVE  RowInv'
  <2>1. route' = route /\ route.status # "new"
    BY <1>4 DEF DeleteBegin, Exists, RouteStatus
  <2>2. QED
    BY <1>4, <1>a, <2>1, DeleteFields DEF RowInv, Exists
<1>5. ASSUME NEW w \in Workers, Write(w) PROVE RowInv'
  <2>1. route' = route /\ req[w].pc = "write" /\ \A v \in Workers : req[v].pc # "commit"
    BY <1>5, <1>a, WriteEffect DEF Locked
  <2>2. CASE Finish(w)
    BY <2>1, <2>2, <1>a, FinishFields DEF RowInv, Exists, Idle
  <2>3. CASE Goto(w, "commit") /\ (req[w].kind = "update" => Exists)
    BY <2>1, <2>3, <1>a, GotoFields DEF RowInv, Exists
  <2>4. QED
    BY <1>5, <1>a, <2>2, <2>3, WriteEffect
<1>6. ASSUME NEW w \in Workers, Commit(w) PROVE RowInv'
  <2>1. /\ req[w].pc = "commit" /\ route' = NewRow(w)
        /\ \A v \in Workers \ {w} : req[v].pc # "commit"
    BY <1>6 DEF Commit, RowInv
  <2>2. \A v \in Workers \ {w} : req[v].kind # "create"
    BY <2>1, Kinds
  <2>3. route'.status # "new"
    <3>1. CASE req[w].kind = "create"
      <4>1. req[w].change \in Change /\ req[w].change.status # "keep"
        BY <3>1, <1>a, Kinds DEF Request
      <4>2. QED
        BY <2>1, <3>1, <4>1, NewRowType DEF Change, RouteStatus
    <3>2. CASE req[w].kind = "update"
      <4>1. req[w].change \in Change /\ route.status # "new"
        BY <3>2, <1>a DEF Request, RowInv
      <4>2. QED
        BY <2>1, <3>2, <4>1, NewRowType DEF Change, RouteStatus
    <3>3. CASE req[w].kind \in {"delete", "admin"}
      BY <2>1, <3>3, NewRowType
    <3>4. QED
      BY <2>1, <3>1, <3>2, <3>3, Kinds
  <2>4. QED
    BY <1>6, <1>a, <2>1, <2>2, <2>3, CommitFields DEF RowInv, Idle
<1>7. ASSUME NEW w \in Workers, Read(w) PROVE RowInv'
  <2>1. route' = route
    BY <1>7 DEF Read
  <2>2. QED
    BY <1>7, <1>a, <2>1, ReadFields DEF RowInv, Exists
<1>8. ASSUME NEW w \in Workers, PhotoWrite(w) \/ PhotoSkip(w) PROVE RowInv'
  <2>1. Goto(w, "fill") /\ route'.status = route.status
    BY <1>8, <1>a DEF PhotoWrite, PhotoSkip, Route
  <2>2. QED
    BY <2>1, <1>a, GotoFields DEF RowInv, Exists
<1>9. ASSUME NEW w \in Workers, Fill(w) \/ Abort(w) PROVE RowInv'
  <2>1. Finish(w) /\ route' = route
    BY <1>9 DEF Fill, FillWith, Abort
  <2>2. QED
    BY <2>1, <1>a, FinishFields DEF RowInv, Exists, Idle
<1>10. CASE UNCHANGED vars
  BY <1>10 DEF vars, RowInv, Exists
<1>11. QED
  BY <1>1, <1>2, <1>3, <1>4, <1>5, <1>6, <1>7, <1>8, <1>9, <1>10
     DEF Next, Writer, Reader

-----------------------------------------------------------------------------
(***************************************************************************)
(* Announcements.                                                          *)
(***************************************************************************)

\* The steps that neither start an update nor commit leave what the announcements
\* depend on as it is, but for updates that end.
Quiet ==
    /\ route'.status = route.status
    /\ UNCHANGED <<announced, publications, overlapped>>
    /\ \A w \in Workers : req'[w].kind = "update" =>
         req[w].kind = "update" /\ req'[w].old = req[w].old

LEMMA QuietSteps ==
    ASSUME TypeInv, [Next]_vars
    PROVE  \/ Quiet
           \/ \E w \in Workers, ch \in Changes : UpdateBegin(w, ch)
           \/ \E w \in Workers : Commit(w)
<1>a. req \in [Workers -> Request] /\ now \in Nat /\ route \in Route
  BY RoutesAssumption DEF TypeInv, TypeOK
<1>1. CASE Tick
  BY <1>1 DEF Tick, Quiet
<1>2. ASSUME NEW w \in Workers, NEW ch \in Changes, CreateRoute(w, ch) PROVE Quiet
  <2>1. UNCHANGED <<route, announced, publications, overlapped>>
    BY <1>2 DEF CreateRoute
  <2>2. QED
    BY <1>2, <2>1, <1>a, CreateFields DEF Quiet
<1>3. ASSUME NEW w \in Workers, NEW kind \in {"delete", "admin"}, DeleteBegin(w, kind)
      PROVE  Quiet
  <2>1. UNCHANGED <<route, announced, publications, overlapped>>
    BY <1>3 DEF DeleteBegin
  <2>2. QED
    BY <1>3, <2>1, <1>a, DeleteFields DEF Quiet
<1>4. ASSUME NEW w \in Workers, Write(w) PROVE Quiet
  <2>1. UNCHANGED <<route, announced, publications, overlapped>>
    BY <1>4 DEF Write
  <2>2. CASE Finish(w)
    BY <2>1, <2>2, <1>a, FinishFields DEF Quiet, Idle
  <2>3. CASE Goto(w, "commit")
    BY <2>1, <2>3, <1>a, GotoFields DEF Quiet
  <2>4. QED
    BY <1>4, <2>2, <2>3 DEF Write
<1>5. ASSUME NEW w \in Workers, Read(w) PROVE Quiet
  <2>1. UNCHANGED <<route, announced, publications, overlapped>>
    BY <1>5 DEF Read
  <2>2. QED
    BY <1>5, <2>1, <1>a, ReadFields DEF Quiet
<1>6. ASSUME NEW w \in Workers, PhotoWrite(w) \/ PhotoSkip(w) PROVE Quiet
  <2>1. /\ Goto(w, "fill") /\ route'.status = route.status
        /\ UNCHANGED <<announced, publications, overlapped>>
    BY <1>6, <1>a DEF PhotoWrite, PhotoSkip, Route
  <2>2. QED
    BY <2>1, <1>a, GotoFields DEF Quiet
<1>7. ASSUME NEW w \in Workers, Fill(w) \/ Abort(w) PROVE Quiet
  <2>1. Finish(w) /\ UNCHANGED <<route, announced, publications, overlapped>>
    BY <1>7 DEF Fill, FillWith, Abort
  <2>2. QED
    BY <2>1, <1>a, FinishFields DEF Quiet, Idle
<1>8. CASE UNCHANGED vars
  BY <1>8 DEF vars, Quiet
<1>9. QED
  BY <1>1, <1>2, <1>3, <1>4, <1>5, <1>6, <1>7, <1>8 DEF Next, Writer, Reader

LEMMA NextAnnounce == TypeInv /\ RowInv /\ AnnounceInv /\ [Next]_vars => AnnounceInv'
<1> SUFFICES ASSUME TypeInv, RowInv, AnnounceInv, [Next]_vars PROVE AnnounceInv'
  OBVIOUS
<1>a. req \in [Workers -> Request] /\ announced \in Nat
  BY DEF TypeInv, TypeOK
<1>1. CASE Quiet
  BY <1>1 DEF Quiet, AnnounceInv
<1>2. ASSUME NEW w \in Workers, NEW ch \in Changes, UpdateBegin(w, ch)
      PROVE  AnnounceInv'
  <2>1. UNCHANGED <<route, announced>>
    BY <1>2 DEF UpdateBegin
  <2>2. QED
    BY <1>2, <2>1, <1>a, UpdateFields DEF AnnounceInv
<1>3. ASSUME NEW w \in Workers, Commit(w) PROVE AnnounceInv'
  <2>1. /\ req[w].pc = "commit" /\ route' = NewRow(w)
        /\ announced' = IF Announces(w) THEN announced + 1 ELSE announced
    BY <1>3 DEF Commit
  <2>2. announced > 0 => announced' > 0
    BY <2>1, <1>a
  <2>3. ASSUME NewRow(w).status = "published" PROVE announced' > 0
    <3>1. req[w].kind \in {"create", "update"}
      BY <2>1, <2>3, NewRowType, Kinds
    <3>2. CASE req[w].change.status = "keep"
      BY <2>1, <2>2, <2>3, <3>1, <3>2, NewRowType DEF AnnounceInv
    <3>3. CASE req[w].change.status = "published" /\ req[w].old # "published"
      BY <2>1, <3>3, <1>a DEF Announces
    <3>4. CASE req[w].change.status = "published" /\ req[w].old = "published"
      BY <2>2, <3>1, <3>4, Kinds DEF AnnounceInv
    <3>5. QED
      BY <2>1, <2>3, <3>1, <3>2, <3>3, <3>4, NewRowType
  <2>4. QED
    BY <1>3, <1>a, <2>1, <2>2, <2>3, CommitFields DEF AnnounceInv, Idle
<1>4. QED
  BY <1>1, <1>2, <1>3, QuietSteps

LEMMA NextOld == TypeInv /\ RowInv /\ OldInv /\ [Next]_vars => OldInv'
<1> SUFFICES ASSUME TypeInv, RowInv, OldInv, [Next]_vars, ~overlapped'
             PROVE  /\ announced' = publications'
                    /\ \A w, v \in Workers :
                         req'[w].kind = "update" /\ req'[v].kind = "update" => w = v
                    /\ \A w \in Workers :
                         req'[w].kind = "update" /\ Exists' => req'[w].old = route'.status
  BY DEF OldInv
<1>a. req \in [Workers -> Request] /\ announced \in Nat /\ publications \in Nat
  BY DEF TypeInv, TypeOK
<1>1. CASE Quiet
  BY <1>1 DEF Quiet, OldInv, Exists
<1>2. ASSUME NEW w \in Workers, NEW ch \in Changes, UpdateBegin(w, ch)
      PROVE  /\ announced' = publications'
             /\ \A u, v \in Workers :
                  req'[u].kind = "update" /\ req'[v].kind = "update" => u = v
             /\ \A v \in Workers :
                  req'[v].kind = "update" /\ Exists' => req'[v].old = route'.status
  <2>1. /\ UNCHANGED <<route, announced, publications>> /\ ~overlapped
        /\ \A v \in Workers : req[v].kind # "update"
    BY <1>2 DEF UpdateBegin
  <2>2. QED
    BY <1>2, <2>1, <1>a, UpdateFields DEF OldInv
<1>3. ASSUME NEW w \in Workers, Commit(w)
      PROVE  /\ announced' = publications'
             /\ \A u, v \in Workers :
                  req'[u].kind = "update" /\ req'[v].kind = "update" => u = v
             /\ \A v \in Workers :
                  req'[v].kind = "update" /\ Exists' => req'[v].old = route'.status
  <2>1. /\ req[w].pc = "commit" /\ route' = NewRow(w) /\ ~overlapped
        /\ announced' = IF Announces(w) THEN announced + 1 ELSE announced
        /\ publications' = IF NewRow(w).status = "published" /\ route.status # "published"
                           THEN publications + 1 ELSE publications
    BY <1>3 DEF Commit
  <2>2. req[w].kind \in {"create", "update"} => req[w].old = route.status
    BY <2>1, Kinds DEF RowInv, OldInv
  <2>3. Announces(w) <=> NewRow(w).status = "published" /\ route.status # "published"
    BY <2>1, <2>2, NewRowType, Kinds DEF Announces
  <2>4. announced' = publications'
    BY <2>1, <2>3 DEF OldInv
  <2>5. ASSUME NEW v \in Workers, req'[v].kind = "update" PROVE ~Exists'
    <3>1. v # w /\ req[v].kind = "update"
      BY <1>3, <1>a, <2>5, CommitFields DEF Idle
    <3>2. req[w].kind # "create" /\ req[w].kind # "update"
      BY <2>1, <3>1 DEF RowInv, OldInv
    <3>3. NewRow(w).status = "deleted"
      BY <2>1, <3>2, NewRowType, Kinds
    <3>4. QED
      BY <2>1, <3>3 DEF Exists, RouteStatus
  <2>6. \A u, v \in Workers : req'[u].kind = "update" /\ req'[v].kind = "update" => u = v
    BY <1>3, <1>a, <2>1, CommitFields DEF OldInv, Idle
  <2>7. QED
    BY <2>4, <2>5, <2>6
<1>4. QED
  BY <1>1, <1>2, <1>3, QuietSteps

\* A route that can be read was announced to the followers, whatever overlapped.
THEOREM Announced == Spec => []PublishedIsAnnounced
<1>1. AnnounceInv => PublishedIsAnnounced
  BY DEF AnnounceInv, PublishedIsAnnounced
<1>2. QED
  BY <1>1, InitTypeInv, NextTypeInv, InitInv, NextRow, NextAnnounce, PTL DEF Spec

\* Followers hear of a route once for each time it became published, as long as no
\* two updates overlap.
THEOREM OnePerPublication == Spec => []AnnouncedPerPublication
<1>1. OldInv => AnnouncedPerPublication
  BY DEF OldInv, AnnouncedPerPublication
<1>2. QED
  BY <1>1, InitTypeInv, NextTypeInv, InitInv, NextRow, NextOld, PTL DEF Spec

-----------------------------------------------------------------------------
(***************************************************************************)
(* Snapshots and cached lists.                                             *)
(***************************************************************************)

\* What the lists show depends on the status and the paid flag alone.
LEMMA ShownSame ==
    ASSUME UNCHANGED list, route'.status = route.status, route'.paid = route.paid
    PROVE  Shown(route)' = Shown(route)
BY DEF Shown

\* The steps that start or end a request, write a photo or delete a list: what the
\* lists show stays, no list is made, no snapshot is taken.
Calm ==
    /\ Shown(route)' = Shown(route)
    /\ UNCHANGED <<now, changedAt>>
    /\ cache' = cache \/ ~Cached'
    /\ raced => raced'
    /\ \A w \in Workers : req'[w].kind = "read" =>
         req[w].kind = "read" /\ req'[w].since = req[w].since /\ req'[w].seen = req[w].seen
    /\ \A w \in Workers : Clears(req'[w]) /\ Cached' => Clears(req[w]) \/ raced'

LEMMA CalmSteps ==
    ASSUME TypeInv, [Next]_vars
    PROVE  \/ Calm
           \/ Tick
           \/ \E w \in Workers : Commit(w) \/ Read(w) \/ Fill(w)
<1>a. req \in [Workers -> Request] /\ route \in Route /\ cache \in Entry /\ raced \in BOOLEAN
  BY DEF TypeInv, TypeOK
<1>1. ASSUME NEW w \in Workers, NEW ch \in Changes, CreateRoute(w, ch) PROVE Calm
  <2>1. /\ UNCHANGED <<route, list, now, changedAt>> /\ (cache' = cache \/ ~Cached')
        /\ raced => raced'
        /\ ch.status = "published" => raced' \/ ~Cached'
    BY <1>1, <1>a, InvalidateType DEF CreateRoute, NoEntry, Cached
  <2>2. QED
    BY <1>1, <2>1, <1>a, ShownSame, CreateFields DEF Calm, Clears
<1>2. ASSUME NEW w \in Workers, NEW ch \in Changes, UpdateBegin(w, ch) PROVE Calm
  <2>1. UNCHANGED <<route, list, now, changedAt, cache, raced>>
    BY <1>2 DEF UpdateBegin
  <2>2. QED
    BY <1>2, <2>1, <1>a, ShownSame, UpdateFields DEF Calm, Clears
<1>3. ASSUME NEW w \in Workers, NEW kind \in {"delete", "admin"}, DeleteBegin(w, kind)
      PROVE  Calm
  <2>1. UNCHANGED <<route, list, now, changedAt, cache, raced>>
    BY <1>3 DEF DeleteBegin
  <2>2. QED
    BY <1>3, <2>1, <1>a, ShownSame, DeleteFields DEF Calm, Clears
<1>4. ASSUME NEW w \in Workers, Write(w) PROVE Calm
  <2>1. /\ UNCHANGED <<route, list, now, changedAt>> /\ (cache' = cache \/ ~Cached')
        /\ raced => raced'
    BY <1>4, <1>a, WriteEffect, InvalidateType DEF NoEntry, Cached
  <2>2. CASE Finish(w)
    BY <2>1, <2>2, <1>a, ShownSame, FinishFields DEF Calm, Idle, Clears
  <2>3. CASE Goto(w, "commit") /\ (req[w].kind = "admin" \/ Invalidate)
    <3>1. req[w].kind = "admin" \/ raced' \/ ~Cached'
      BY <2>3, <1>a, InvalidateType
    <3>2. QED
      BY <2>1, <2>3, <3>1, <1>a, ShownSame, GotoFields DEF Calm, Clears
  <2>4. QED
    BY <1>4, <1>a, <2>2, <2>3, WriteEffect
<1>5. ASSUME NEW w \in Workers, PhotoWrite(w) \/ PhotoSkip(w) PROVE Calm
  <2>1. /\ Goto(w, "fill") /\ UNCHANGED <<list, now, changedAt, cache, raced>>
        /\ route'.status = route.status /\ route'.paid = route.paid
    BY <1>5, <1>a DEF PhotoWrite, PhotoSkip, Route
  <2>2. QED
    BY <2>1, <1>a, ShownSame, GotoFields DEF Calm, Clears
<1>6. ASSUME NEW w \in Workers, Abort(w) PROVE Calm
  <2>1. Finish(w) /\ UNCHANGED <<route, list, now, changedAt, cache, raced>>
    BY <1>6 DEF Abort
  <2>2. QED
    BY <2>1, <1>a, ShownSame, FinishFields DEF Calm, Clears, Idle
<1>7. CASE UNCHANGED vars
  BY <1>7, ShownSame DEF vars, Calm, Cached
<1>8. QED
  BY <1>1, <1>2, <1>3, <1>4, <1>5, <1>6, <1>7 DEF Next, Writer, Reader

LEMMA NextAge == TypeInv /\ AgeInv /\ [Next]_vars => AgeInv'
<1> SUFFICES ASSUME TypeInv, AgeInv, [Next]_vars PROVE AgeInv'
  OBVIOUS
<1>a. /\ req \in [Workers -> Request] /\ cache \in Entry /\ now \in Nat /\ changedAt \in Nat
      /\ \A w \in Workers : req[w].since \in Nat
      /\ Ttl \in Nat \ {0} /\ Patience \in Nat
      /\ cache.exp \in Nat /\ cache.read \in Nat
  BY RoutesAssumption DEF TypeInv, TypeOK, Request, Entry
<1>1. CASE Calm
  BY <1>1 DEF Calm, AgeInv, Cached
<1>2. CASE Tick
  <2>1. /\ UNCHANGED <<route, list, req, changedAt>> /\ now' = now + 1
        /\ cache' = IF cache.exp <= now' THEN NoEntry ELSE cache
        /\ \A w \in Workers : req[w].kind = "read" => now < req[w].since + Patience
    BY <1>2 DEF Tick
  <2>2. Shown(route)' = Shown(route)
    BY <2>1, ShownSame
  <2>3. ASSUME Cached' PROVE cache' = cache /\ now' < cache.exp /\ Cached
    BY <2>1, <2>3, <1>a DEF Cached, NoEntry
  <2>4. ASSUME NEW w \in Workers, req[w].kind = "read"
        PROVE  req[w].since <= now' /\ now' <= req[w].since + Patience
    BY <2>1, <2>4, <1>a DEF AgeInv
  <2>5. ASSUME Cached'
        PROVE  /\ now' < cache'.exp /\ cache'.exp <= cache'.read + Patience + Ttl
               /\ cache'.read <= now'
               /\ cache'.shown = Shown(route)' \/ cache'.read <= changedAt'
    BY <2>1, <2>2, <2>3, <2>5, <1>a DEF AgeInv
  <2>6. QED
    BY <2>1, <2>2, <2>4, <2>5 DEF AgeInv
<1>3. ASSUME NEW w \in Workers, Commit(w) PROVE AgeInv'
  <2>1. /\ UNCHANGED <<list, cache, now>> /\ route' = NewRow(w)
        /\ changedAt' = IF Shown(NewRow(w)) # Shown(route) THEN now ELSE changedAt
    BY <1>3 DEF Commit
  <2>2. Shown(route)' = Shown(NewRow(w))
    BY <2>1 DEF Shown
  <2>3. \/ Shown(route)' = Shown(route) /\ changedAt' = changedAt
        \/ changedAt' = now
    BY <2>1, <2>2
  <2>4. \A v \in Workers : req'[v].kind = "read" =>
          /\ req[v].kind = "read" /\ req'[v].since = req[v].since
          /\ req'[v].seen = req[v].seen
    BY <1>3, <1>a, CommitFields DEF Idle
  <2>5. QED
    BY <2>1, <2>3, <2>4, <1>a DEF AgeInv, Cached
<1>4. ASSUME NEW w \in Workers, Read(w) PROVE AgeInv'
  <2>1. UNCHANGED <<route, list, cache, now, changedAt>>
    BY <1>4 DEF Read
  <2>2. Shown(route)' = Shown(route)
    BY <2>1, ShownSame
  <2>3. QED
    BY <1>4, <2>1, <2>2, <1>a, ReadFields DEF AgeInv, Cached
<1>5. ASSUME NEW w \in Workers, Fill(w) PROVE AgeInv'
  <2>1. UNCHANGED <<route, list, now, changedAt>> /\ Finish(w) /\ req[w].pc = "fill"
    BY <1>5 DEF Fill, FillWith
  <2>2. Shown(route)' = Shown(route)
    BY <2>1, ShownSame
  <2>3. \A v \in Workers : req'[v].kind = "read" => req[v].kind = "read" /\ req'[v] = req[v]
    BY <2>1, <1>a, FinishFields DEF Idle
  <2>4. req[w].kind = "read"
    BY <2>1, Kinds
  <2>5. CASE cache' = cache
    BY <2>1, <2>2, <2>3, <2>5 DEF AgeInv, Cached
  <2>6. CASE cache' = [shown |-> req[w].seen, exp |-> now + Ttl, read |-> req[w].since]
    <3>1. /\ now < cache'.exp /\ cache'.exp <= cache'.read + Patience + Ttl
          /\ cache'.read <= now
          /\ cache'.shown = Shown(route) \/ cache'.read <= changedAt
      BY <2>4, <2>6, <1>a DEF AgeInv
    <3>2. QED
      BY <2>1, <2>2, <2>3, <3>1 DEF AgeInv
  <2>7. QED
    BY <1>5, <2>5, <2>6 DEF Fill, FillWith
<1>6. QED
  BY <1>1, <1>2, <1>3, <1>4, <1>5, CalmSteps

\* A cached list that misses a change is gone after the time it may live and the
\* time its reader took, even if it was never deleted.
THEOREM StaleForALimitedTime == Spec => []StaleBounded
<1>1. TypeInv /\ AgeInv => StaleBounded
  <2> SUFFICES ASSUME TypeInv, AgeInv, Cached, cache.shown # Shown(route)
               PROVE  now < changedAt + Patience + Ttl
    BY DEF StaleBounded
  <2>1. /\ now \in Nat /\ changedAt \in Nat /\ cache.exp \in Nat /\ cache.read \in Nat
        /\ Ttl \in Nat /\ Patience \in Nat
    BY RoutesAssumption DEF TypeInv, TypeOK, Entry
  <2>2. now < cache.exp /\ cache.exp <= cache.read + Patience + Ttl /\ cache.read <= changedAt
    BY DEF AgeInv
  <2>3. QED
    BY <2>1, <2>2
<1>2. QED
  BY <1>1, InitTypeInv, NextTypeInv, InitInv, NextAge, PTL DEF Spec

LEMMA NextFresh == TypeInv /\ RowInv /\ FreshInv /\ [Next]_vars => FreshInv'
<1> SUFFICES ASSUME TypeInv, RowInv, FreshInv, [Next]_vars, ~raced'
             PROVE  /\ Cached' => cache'.shown = Shown(route)'
                    /\ \A w \in Workers : req'[w].kind = "read" =>
                         req'[w].seen = Shown(route)'
                    /\ \A w \in Workers : Clears(req'[w]) => ~Cached'
  BY DEF FreshInv, Clears
<1> DEFINE Goal == /\ Cached' => cache'.shown = Shown(route)'
                   /\ \A w \in Workers : req'[w].kind = "read" =>
                        req'[w].seen = Shown(route)'
                   /\ \A w \in Workers : Clears(req'[w]) => ~Cached'
<1>a. req \in [Workers -> Request] /\ cache \in Entry /\ now \in Nat
  BY DEF TypeInv, TypeOK
<1>1. CASE Calm
  BY <1>1 DEF Calm, FreshInv, Cached
<1>2. CASE Tick
  <2>1. /\ UNCHANGED <<route, list, req, raced>>
        /\ cache' = IF cache.exp <= now' THEN NoEntry ELSE cache
    BY <1>2 DEF Tick
  <2>2. Shown(route)' = Shown(route)
    BY <2>1, ShownSame
  <2>3. Cached' => cache' = cache /\ Cached
    BY <2>1 DEF Cached, NoEntry
  <2>4. QED
    BY <2>1, <2>2, <2>3 DEF FreshInv
<1>3. ASSUME NEW w \in Workers, Commit(w) PROVE Goal
  <2>1. /\ req[w].pc = "commit" /\ UNCHANGED <<list, cache>> /\ route' = NewRow(w)
        /\ ~raced
        /\ Shown(NewRow(w)) # Shown(route) => ~Reading /\ req[w].kind # "admin"
    BY <1>3 DEF Commit
  <2>2. Shown(route)' = Shown(NewRow(w))
    BY <2>1 DEF Shown
  <2>3. \A v \in Workers :
          /\ req'[v].kind = "read" => req[v].kind = "read" /\ req'[v].seen = req[v].seen
          /\ ~Clears(req'[v])
    BY <1>3, <1>a, <2>1, CommitFields DEF Idle, Clears, RowInv
  <2>4. CASE Shown(NewRow(w)) = Shown(route)
    BY <2>1, <2>2, <2>3, <2>4 DEF FreshInv, Cached
  <2>5. CASE Shown(NewRow(w)) # Shown(route)
    <3>1. \A v \in Workers : req[v].kind # "read"
      BY <2>1, <2>5 DEF Reading
    <3>2. req[w].kind = "create" => req[w].change.status = "published"
      <4>1. CASE req[w].kind = "create" /\ NewRow(w).status # "published"
        BY <2>5, <4>1 DEF Shown, RowInv
      <4>2. QED
        BY <2>1, <4>1, NewRowType, Kinds
    <3>3. ~Cached
      <4>1. req[w].kind \in {"create", "update", "delete", "admin"}
        BY <2>1, Kinds
      <4>2. req[w].kind # "admin"
        BY <2>1, <2>5
      <4>3. Clears(req[w])
        BY <2>1, <3>2, <4>1, <4>2 DEF Clears
      <4>4. QED
        BY <2>1, <4>3 DEF FreshInv
    <3>4. QED
      BY <2>1, <2>3, <3>1, <3>3 DEF Cached
  <2>6. QED
    BY <2>4, <2>5
<1>4. ASSUME NEW w \in Workers, Read(w) PROVE Goal
  <2>1. UNCHANGED <<route, list, cache, raced>>
    BY <1>4 DEF Read
  <2>2. Shown(route)' = Shown(route)
    BY <2>1, ShownSame
  <2>3. \A v \in Workers : Clears(req'[v]) => Clears(req[v])
    BY <1>4, <1>a, ReadFields DEF Clears
  <2>4. \A v \in Workers : req'[v].kind = "read" =>
          \/ req'[v].seen = Shown(route)
          \/ req[v].kind = "read" /\ req'[v].seen = req[v].seen
    BY <1>4, <1>a, ReadFields
  <2>5. ~raced
    BY <2>1
  <2>6. Cached' <=> Cached
    BY <2>1 DEF Cached
  <2>7. QED
    BY <2>1, <2>2, <2>3, <2>4, <2>5, <2>6 DEF FreshInv
<1>5. ASSUME NEW w \in Workers, Fill(w) PROVE Goal
  <2>1. UNCHANGED <<route, list>> /\ Finish(w) /\ req[w].pc = "fill"
    BY <1>5 DEF Fill, FillWith
  <2>2. raced' = raced \/ raced' = (raced \/ Locked)
    BY <1>5 DEF Fill, FillWith
  <2>3. ~raced
    BY <2>2
  <2>4. Shown(route)' = Shown(route)
    BY <2>1, ShownSame
  <2>5. req'[w] = Idle /\ \A v \in Workers \ {w} : req'[v] = req[v]
    BY <2>1, <1>a, FinishFields
  <2>6. req[w].seen = Shown(route)
    BY <2>1, <2>3, Kinds DEF FreshInv
  <2>7. CASE cache' = cache
    BY <2>1, <2>4, <2>5, <2>3, <2>7 DEF FreshInv, Cached, Clears, Idle
  <2>8. CASE /\ cache' = [shown |-> req[w].seen, exp |-> now + Ttl, read |-> req[w].since]
             /\ ~Locked
    <3>1. \A v \in Workers : ~Clears(req'[v])
      BY <2>5, <2>8 DEF Locked, Clears, Idle
    <3>2. cache'.shown = Shown(route)'
      BY <2>4, <2>6, <2>8
    <3>3. \A v \in Workers : req'[v].kind = "read" => v # w /\ req[v].kind = "read"
      BY <2>5 DEF Idle
    <3>4. \A v \in Workers : req'[v].kind = "read" => req'[v].seen = Shown(route)'
      BY <2>4, <2>5, <2>3, <3>3 DEF FreshInv
    <3>5. QED
      BY <3>1, <3>2, <3>4
  <2>9. QED
    BY <1>5, <2>7, <2>8 DEF Fill, FillWith
<1>6. QED
  BY <1>1, <1>2, <1>3, <1>4, <1>5, CalmSteps

\* A cached list is right unless its deletion failed or was left out, or a reader
\* and a writer were at it at the same time.
THEOREM FreshWithoutRace == Spec => []FreshUnlessRaced
<1>1. FreshInv => FreshUnlessRaced
  BY DEF FreshInv, FreshUnlessRaced
<1>2. QED
  BY <1>1, InitTypeInv, NextTypeInv, InitInv, NextRow, NextFresh, PTL DEF Spec

-----------------------------------------------------------------------------
(***************************************************************************)
(* Photos.                                                                 *)
(***************************************************************************)

\* While a photo is fetched the author has none, unless the fetch is marked.
PhotoInv ==
    \A w \in Workers : req[w].pc = "fetch" /\ ~req[w].late => route.photos # "author"

\* The steps that neither begin a fetch nor change a photo.
Still ==
    /\ route'.photos = route.photos
    /\ \A w \in Workers : req'[w].pc = "fetch" => req'[w] = req[w]

LEMMA StillSteps ==
    ASSUME TypeInv, [Next]_vars
    PROVE  Still \/ \E w \in Workers : Commit(w) \/ Read(w) \/ PhotoWrite(w)
<1>a. req \in [Workers -> Request] /\ now \in Nat
  BY RoutesAssumption DEF TypeInv, TypeOK
<1>1. CASE Tick
  BY <1>1 DEF Tick, Still
<1>2. ASSUME NEW w \in Workers, NEW ch \in Changes, CreateRoute(w, ch) PROVE Still
  BY <1>2, <1>a, CreateFields DEF CreateRoute, Still
<1>3. ASSUME NEW w \in Workers, NEW ch \in Changes, UpdateBegin(w, ch) PROVE Still
  BY <1>3, <1>a, UpdateFields DEF UpdateBegin, Still
<1>4. ASSUME NEW w \in Workers, NEW kind \in {"delete", "admin"}, DeleteBegin(w, kind)
      PROVE  Still
  BY <1>4, <1>a, DeleteFields DEF DeleteBegin, Still
<1>5. ASSUME NEW w \in Workers, Write(w) PROVE Still
  <2>1. UNCHANGED route
    BY <1>5 DEF Write
  <2>2. CASE Finish(w)
    BY <2>1, <2>2, <1>a, FinishFields DEF Still, Idle
  <2>3. CASE Goto(w, "commit")
    BY <2>1, <2>3, <1>a, GotoFields DEF Still
  <2>4. QED
    BY <1>5, <2>2, <2>3 DEF Write
<1>6. ASSUME NEW w \in Workers, PhotoSkip(w) PROVE Still
  BY <1>6, <1>a, GotoFields DEF PhotoSkip, Still
<1>7. ASSUME NEW w \in Workers, Fill(w) \/ Abort(w) PROVE Still
  <2>1. Finish(w) /\ UNCHANGED route
    BY <1>7 DEF Fill, FillWith, Abort
  <2>2. QED
    BY <2>1, <1>a, FinishFields DEF Still, Idle
<1>8. CASE UNCHANGED vars
  BY <1>8 DEF vars, Still
<1>9. QED
  BY <1>1, <1>2, <1>3, <1>4, <1>5, <1>6, <1>7, <1>8 DEF Next, Writer, Reader

LEMMA NextPhoto == TypeInv /\ PhotoInv /\ [Next]_vars => PhotoInv'
<1> SUFFICES ASSUME TypeInv, PhotoInv, [Next]_vars PROVE PhotoInv'
  OBVIOUS
<1>a. req \in [Workers -> Request] /\ now \in Nat /\ route \in Route
  BY RoutesAssumption DEF TypeInv, TypeOK
<1>1. CASE Still
  BY <1>1 DEF Still, PhotoInv
<1>2. ASSUME NEW w \in Workers, Commit(w) PROVE PhotoInv'
  <2>1. route' = NewRow(w) /\ req'[w] = Idle
    BY <1>2, <1>a, CommitFields DEF Commit
  <2>2. ASSUME NEW v \in Workers \ {w}, req'[v].pc = "fetch", NewRow(w).photos = "author"
        PROVE  req'[v].late
    <3>1. req[v].pc = "fetch" /\ req[v] \in Request
      BY <1>2, <1>a, <2>2, CommitFields
    <3>2. req'[v] = [req[v] EXCEPT !.late = TRUE]
      BY <1>2, <2>2, <3>1 DEF Commit
    <3>3. QED
      BY <3>1, <3>2 DEF Request
  <2>3. QED
    BY <2>1, <2>2 DEF PhotoInv, Idle
<1>3. ASSUME NEW w \in Workers, Read(w) PROVE PhotoInv'
  <2>1. UNCHANGED route
    BY <1>3 DEF Read
  <2>2. req'[w].pc = "fetch" => route.photos = "none"
    <3>1. CASE PhotoMissing
      BY <3>1 DEF PhotoMissing
    <3>2. CASE ~PhotoMissing
      <4>1. req'[w].pc = "fill"
        BY <1>3, <3>2, <1>a DEF Read, Start, Idle
      <4>2. QED
        BY <4>1
    <3>3. QED
      BY <3>1, <3>2
  <2>3. QED
    BY <1>3, <1>a, <2>1, <2>2, ReadFields DEF PhotoInv
<1>4. ASSUME NEW w \in Workers, PhotoWrite(w) PROVE PhotoInv'
  <2>1. route'.photos \in {route.photos, "wiki"} /\ Goto(w, "fill")
    BY <1>4, <1>a DEF PhotoWrite, Route
  <2>2. QED
    BY <2>1, <1>a, GotoFields DEF PhotoInv
<1>5. QED
  BY <1>1, <1>2, <1>3, <1>4, StillSteps

\* A photo from Wikimedia replaces the author's only if those were set while it was
\* being fetched.
THEOREM PhotosKept == Spec => AuthorPhotosKept
<1> DEFINE Replaced == route.photos = "author" /\ route'.photos = "wiki"
           Marked == \E w \in Workers : req[w].pc = "fetch" /\ req[w].late
<1>1. Init => PhotoInv
  BY DEF Init, PhotoInv, Idle
<1>2. TypeInv /\ PhotoInv /\ [Next]_vars => [Replaced => Marked]_vars
  <2> SUFFICES ASSUME TypeInv, PhotoInv, [Next]_vars, Replaced PROVE Marked
    OBVIOUS
  <2>1. CASE Still
    BY <2>1 DEF Still
  <2>2. ASSUME NEW w \in Workers, Commit(w) PROVE FALSE
    <3>1. route' = NewRow(w) /\ req[w].change \in Change
      BY <2>2 DEF Commit, TypeInv, TypeOK, Request
    <3>2. NewRow(w).photos \in {"author", route.photos}
      BY <3>1 DEF NewRow, Apply, Change, TypeInv, TypeOK, Route
    <3>3. QED
      BY <3>1, <3>2
  <2>3. ASSUME NEW w \in Workers, Read(w) PROVE FALSE
    BY <2>3 DEF Read
  <2>4. ASSUME NEW w \in Workers, PhotoWrite(w) PROVE Marked
    BY <2>4 DEF PhotoWrite, PhotoInv
  <2>5. QED
    BY <2>1, <2>2, <2>3, <2>4, StillSteps
<1>3. QED
  BY <1>1, <1>2, InitTypeInv, NextTypeInv, NextPhoto, PTL DEF Spec, AuthorPhotosKept

=============================================================================
