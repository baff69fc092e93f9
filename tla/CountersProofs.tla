--------------------------- MODULE CountersProofs ---------------------------
(***************************************************************************)
(* Proofs about Counters, for any finite set of keys and any requests.     *)
(***************************************************************************)
EXTENDS Counters, FiniteSetTheorems, TLAPS

\* The twelve ways to begin differ only in their guards.
LEMMA AddsEffect ==
    ASSUME NEW w \in Workers, NEW k \in Keys, Adds(w, k)
    PROVE  /\ Start(w, "insert", k)
           /\ used' \in {used, used \cup {k}}
           /\ UNCHANGED <<kind, parent, rows, count, gone, raced>>
BY DEF Adds, LikeRoute, SaveRoute, LikeComment, FollowUser, CreateComment,
       CreateRoute, AddByUser, AddById

LEMMA RemovesEffect ==
    ASSUME NEW w \in Workers, NEW k \in Keys, Removes(w, k)
    PROVE  Remove(w, k)
BY DEF Removes, UnlikeRoute, UnsaveRoute, UnlikeComment, UnfollowUser,
       DeleteComment, DeleteRoute

LEMMA StartFields ==
    ASSUME NEW w \in Workers, NEW k \in Keys, NEW pc \in {"insert", "delete"},
           req \in [Workers -> Request], Start(w, pc, k)
    PROVE  /\ req' \in [Workers -> Request]
           /\ req'[w].pc = pc /\ req'[w].key = k
           /\ \A v \in Workers \ {w} : req'[v] = req[v]
BY DEF Start, Request

LEMMA FinishFields ==
    ASSUME NEW w \in Workers, req \in [Workers -> Request], Finish(w)
    PROVE  /\ req' \in [Workers -> Request]
           /\ req'[w] = Idle
           /\ \A v \in Workers \ {w} : req'[v] = req[v]
BY DEF Finish, Idle, Request

-----------------------------------------------------------------------------
(***************************************************************************)
(* Types.                                                                  *)
(***************************************************************************)

\* A request that is not idle has a key.
TypeInv ==
    /\ TypeOK
    /\ \A w \in Workers : req[w].pc # "idle" => req[w].key \in Keys

LEMMA InitTypeInv == Init => TypeInv
<1> SUFFICES ASSUME Init PROVE TypeInv
  OBVIOUS
<1>1. Idle \in Request
  BY DEF Idle, Request
<1>2. req \in [Workers -> Request] /\ \A w \in Workers : req[w].pc = "idle"
  BY <1>1 DEF Init, Idle
<1>3. kind \in ByUser \cup ById /\ parent \in BOOLEAN /\ raced \in BOOLEAN
  BY DEF Init
<1>4. QED
  BY <1>2, <1>3 DEF Init, TypeInv, TypeOK

LEMMA NextTypeInv == TypeInv /\ [Next]_vars => TypeInv'
<1> SUFFICES ASSUME TypeInv, [Next]_vars PROVE TypeInv'
  OBVIOUS
<1> USE DEF TypeInv, TypeOK
<1>1. ASSUME NEW w \in Workers, NEW k \in Keys, Adds(w, k)
      PROVE  TypeInv'
  BY <1>1, AddsEffect, StartFields
<1>2. ASSUME NEW w \in Workers, NEW k \in Keys, Removes(w, k)
      PROVE  TypeInv'
  <2>1. Remove(w, k)
    BY <1>2, RemovesEffect
  <2>2. QED
    BY <2>1, StartFields DEF Remove, Removing
<1>3. ASSUME NEW w \in Workers, Insert(w)
      PROVE  TypeInv'
  BY <1>3, FinishFields DEF Insert, Idle
<1>4. ASSUME NEW w \in Workers, Delete(w)
      PROVE  TypeInv'
  BY <1>4, FinishFields DEF Delete, Idle
<1>5. ASSUME NEW w \in Workers, Abort(w)
      PROVE  TypeInv'
  BY <1>5, FinishFields DEF Abort, Idle
<1>6. ASSUME NEW k \in Keys, DeleteAccount(k)
      PROVE  TypeInv'
  BY <1>6 DEF DeleteAccount
<1>7. CASE DropParent
  BY <1>7 DEF DropParent
<1>8. CASE UNCHANGED vars
  BY <1>8 DEF vars
<1>9. QED
  BY <1>1, <1>2, <1>3, <1>4, <1>5, <1>6, <1>7, <1>8 DEF Next

\* Every reachable state is well-typed; in particular no counter is negative.
THEOREM TypeCorrect == Spec => []TypeOK
<1>1. Spec => []TypeInv
  BY InitTypeInv, NextTypeInv, PTL DEF Spec
<1>2. TypeInv => TypeOK
  BY DEF TypeInv
<1>3. QED
  BY <1>1, <1>2, PTL

\* Sets of keys are finite, and smaller sets have smaller cardinalities.
LEMMA KeySets ==
    ASSUME NEW S \in SUBSET Keys
    PROVE  /\ IsFiniteSet(S) /\ Cardinality(S) \in Nat
           /\ \A T \in SUBSET S : Cardinality(T) <= Cardinality(S)
BY CountersAssumption, FS_Subset, FS_CardinalityType

-----------------------------------------------------------------------------
(***************************************************************************)
(* The counter is never too high: an insert adds one to both, a removal    *)
(* takes one from the counter and at most one from the rows.               *)
(***************************************************************************)

LEMMA NextHigh == TypeInv /\ NeverTooHigh /\ [Next]_vars => NeverTooHigh'
<1> SUFFICES ASSUME TypeInv, NeverTooHigh, [Next]_vars, parent', gone' = {}
             PROVE  count' <= Cardinality(rows')
  BY DEF NeverTooHigh
<1>0. rows \in SUBSET Keys /\ count \in Nat
  BY DEF TypeInv, TypeOK
<1>1. ASSUME UNCHANGED <<parent, rows, count, gone>>
      PROVE  count' <= Cardinality(rows')
  BY <1>1 DEF NeverTooHigh
<1>2. ASSUME NEW w \in Workers, Insert(w)
      PROVE  count' <= Cardinality(rows')
  <2>1. CASE req[w].key \notin rows /\ count' = count + 1 /\ rows' = rows \cup {req[w].key}
    <3>1. Cardinality(rows') = Cardinality(rows) + 1
      BY <2>1, <1>0, KeySets, FS_AddElement
    <3>2. count <= Cardinality(rows)
      BY <1>2 DEF Insert, NeverTooHigh
    <3>3. QED
      BY <2>1, <3>1, <3>2, <1>0, KeySets
  <2>2. CASE UNCHANGED <<rows, count>>
    BY <1>1, <1>2, <2>2 DEF Insert
  <2>3. QED
    BY <1>2, <2>1, <2>2 DEF Insert
<1>3. ASSUME NEW w \in Workers, Delete(w)
      PROVE  count' <= Cardinality(rows')
  <2>1. CASE count' = count - 1 /\ rows' = rows \ {req[w].key}
    <3>1. Cardinality(rows') >= Cardinality(rows) - 1
      BY <2>1, <1>0, KeySets, FS_RemoveElement
    <3>2. count <= Cardinality(rows)
      BY <1>3 DEF Delete, NeverTooHigh
    <3>3. rows' \in SUBSET Keys
      BY <2>1, <1>0
    <3>4. QED
      BY <2>1, <3>1, <3>2, <3>3, <1>0, KeySets
  <2>2. CASE UNCHANGED <<rows, count>>
    BY <1>1, <1>3, <2>2 DEF Delete
  <2>3. QED
    BY <1>3, <2>1, <2>2 DEF Delete
<1>4. ASSUME NEW w \in Workers, NEW k \in Keys, Adds(w, k) \/ Removes(w, k)
      PROVE  count' <= Cardinality(rows')
  BY <1>1, <1>4, AddsEffect, RemovesEffect DEF Remove
<1>5. ASSUME NEW w \in Workers, Abort(w)
      PROVE  count' <= Cardinality(rows')
  BY <1>1, <1>5 DEF Abort
<1>6. ASSUME NEW k \in Keys, DeleteAccount(k)
      PROVE  FALSE
  BY <1>6 DEF DeleteAccount
<1>7. CASE DropParent
  BY <1>7 DEF DropParent
<1>8. CASE UNCHANGED vars
  BY <1>1, <1>8 DEF vars
<1>9. QED
  BY <1>2, <1>3, <1>4, <1>5, <1>6, <1>7, <1>8 DEF Next

\* Whatever overlaps, aborts or is repeated, no counter is inflated while no
\* account has been deleted.
THEOREM NotInflated == Spec => []NeverTooHigh
<1>1. Init => NeverTooHigh
  BY FS_EmptySet DEF Init, NeverTooHigh
<1>2. QED
  BY <1>1, InitTypeInv, NextTypeInv, NextHigh, PTL DEF Spec

-----------------------------------------------------------------------------
(***************************************************************************)
(* The counter is never too low.  A removal in progress has its decrement  *)
(* before it, so the counter must cover the rows together with the keys    *)
(* whose removal is pending: that stays true when an account takes its row *)
(* away under a pending removal, where NeverTooLow alone would not.        *)
(***************************************************************************)

Pending == {k \in Keys : Removing(k)}

LowInv ==
    ~raced =>
        /\ \A v, w \in Workers :
             req[v].pc = "delete" /\ req[w].pc = "delete" /\ req[v].key = req[w].key => v = w
        /\ parent => Cardinality(rows \cup Pending) <= count

LEMMA InitLow == Init => LowInv
<1> SUFFICES ASSUME Init PROVE LowInv
  OBVIOUS
<1>1. \A w \in Workers : req[w].pc # "delete"
  BY DEF Init, Idle
<1>2. rows \cup Pending = {}
  BY <1>1 DEF Init, Pending, Removing
<1>3. QED
  BY <1>1, <1>2, FS_EmptySet DEF Init, LowInv

\* A step that makes neither a row nor a pending removal keeps the invariant.
LEMMA ShrinkLow ==
    ASSUME TypeInv, LowInv, rows' \subseteq rows, count' = count,
           parent' => parent, raced' = raced,
           \A w \in Workers : req'[w].pc = "delete" => req'[w] = req[w]
    PROVE  LowInv'
<1>1. Pending' \subseteq Pending
  BY DEF Pending, Removing
<1>2. rows \cup Pending \in SUBSET Keys
  BY DEF TypeInv, TypeOK, Pending
<1>3. Cardinality(rows' \cup Pending') <= Cardinality(rows \cup Pending)
  BY <1>1, <1>2, KeySets
<1>4. rows' \cup Pending' \in SUBSET Keys /\ count \in Nat
  BY <1>1, <1>2 DEF TypeInv, TypeOK
<1>5. QED
  BY <1>2, <1>3, <1>4, KeySets DEF LowInv

LEMMA NextLow == TypeInv /\ LowInv /\ [Next]_vars => LowInv'
<1> SUFFICES ASSUME TypeInv, LowInv, [Next]_vars PROVE LowInv'
  OBVIOUS
<1>0. rows \in SUBSET Keys /\ count \in Nat /\ req \in [Workers -> Request]
  BY DEF TypeInv, TypeOK
<1>00. rows \cup Pending \in SUBSET Keys
  BY <1>0 DEF Pending
<1>1. ASSUME NEW w \in Workers, NEW k \in Keys, Adds(w, k)
      PROVE  LowInv'
  <2>1. \A v \in Workers : req'[v].pc = "delete" => req'[v] = req[v]
    BY <1>0, <1>1, AddsEffect, StartFields
  <2>2. QED
    BY <1>1, <2>1, AddsEffect, ShrinkLow
<1>2. ASSUME NEW w \in Workers, NEW k \in Keys, Removes(w, k)
      PROVE  LowInv'
  <2>1. Remove(w, k)
    BY <1>2, RemovesEffect
  <2>2. CASE raced'
    BY <2>2 DEF LowInv
  <2>3. CASE ~raced'
    <3>1. ~raced /\ ~Removing(k) /\ k \in rows
      BY <2>1, <2>3 DEF Remove
    <3>2. /\ req'[w].pc = "delete" /\ req'[w].key = k
          /\ \A v \in Workers \ {w} : req'[v] = req[v]
      BY <1>0, <2>1, StartFields DEF Remove
    <3>3. rows' \cup Pending' \subseteq rows \cup Pending
      BY <2>1, <3>1, <3>2 DEF Pending, Removing, Remove
    <3>4. Cardinality(rows' \cup Pending') <= Cardinality(rows \cup Pending)
      BY <1>00, <3>3, KeySets
    <3>5. rows' \cup Pending' \in SUBSET Keys
      BY <1>00, <3>3
    <3>6. parent' = parent /\ count' = count
      BY <2>1 DEF Remove
    <3>7. \A v \in Workers \ {w} : req'[v].pc = "delete" => req'[v].key # k
      BY <3>1, <3>2 DEF Removing
    <3>8. parent' => Cardinality(rows' \cup Pending') <= count'
      BY <1>0, <1>00, <3>1, <3>4, <3>5, <3>6, KeySets DEF LowInv
    <3>9. QED
      BY <3>1, <3>2, <3>7, <3>8 DEF LowInv
  <2>4. QED
    BY <2>2, <2>3
<1>3. ASSUME NEW w \in Workers, Insert(w)
      PROVE  LowInv'
  <2>1. \A v \in Workers : req'[v].pc = "delete" => req'[v] = req[v]
    BY <1>0, <1>3, FinishFields DEF Insert, Idle
  <2>2. CASE UNCHANGED <<rows, count>>
    BY <1>3, <2>1, <2>2, ShrinkLow DEF Insert
  <2>3. CASE parent /\ rows' = rows \cup {req[w].key} /\ count' = count + 1
    <3>1. Pending' \subseteq Pending
      BY <2>1 DEF Pending, Removing
    <3>2. rows' \cup Pending' \subseteq (rows \cup Pending) \cup {req[w].key}
      BY <2>3, <3>1
    <3>3. (rows \cup Pending) \cup {req[w].key} \in SUBSET Keys
      BY <1>00, <1>3 DEF Insert, TypeInv
    <3>4. Cardinality((rows \cup Pending) \cup {req[w].key}) <= Cardinality(rows \cup Pending) + 1
      BY <1>00, KeySets, FS_AddElement
    <3>5. Cardinality(rows' \cup Pending') <= Cardinality((rows \cup Pending) \cup {req[w].key})
      BY <3>2, <3>3, KeySets
    <3>6. rows' \cup Pending' \in SUBSET Keys
      BY <3>2, <3>3
    <3>7. ~raced' => Cardinality(rows' \cup Pending') <= count'
      BY <1>0, <1>00, <1>3, <2>3, <3>3, <3>4, <3>5, <3>6, KeySets DEF LowInv, Insert
    <3>8. QED
      BY <1>3, <2>1, <3>7 DEF LowInv, Insert
  <2>4. QED
    BY <1>3, <2>2, <2>3 DEF Insert
<1>4. ASSUME NEW w \in Workers, Delete(w)
      PROVE  LowInv'
  <2> DEFINE k == req[w].key
  <2>1. \A v \in Workers : req'[v].pc = "delete" => req'[v] = req[v] /\ v # w
    BY <1>0, <1>4, FinishFields DEF Delete, Idle
  <2>2. CASE UNCHANGED <<rows, count>>
    BY <1>4, <2>1, <2>2, ShrinkLow DEF Delete
  <2>3. CASE parent /\ rows' = rows \ {k} /\ count' = count - 1
    <3>1. SUFFICES ASSUME ~raced PROVE LowInv'
      BY <1>4 DEF LowInv, Delete
    <3>2. k \in Pending
      BY <1>4 DEF Delete, Pending, Removing, TypeInv
    <3>3. Pending' \subseteq Pending \ {k}
      BY <1>4, <2>1, <3>1 DEF Pending, Removing, LowInv, Delete
    <3>4. rows' \cup Pending' \subseteq (rows \cup Pending) \ {k}
      BY <2>3, <3>3
    <3>5. Cardinality((rows \cup Pending) \ {k}) = Cardinality(rows \cup Pending) - 1
      BY <1>00, <3>2, KeySets, FS_RemoveElement
    <3>6. (rows \cup Pending) \ {k} \in SUBSET Keys
      BY <1>00
    <3>7. Cardinality(rows' \cup Pending') <= Cardinality((rows \cup Pending) \ {k})
      BY <3>4, <3>6, KeySets
    <3>8. rows' \cup Pending' \in SUBSET Keys
      BY <3>4, <3>6
    <3>9. Cardinality(rows' \cup Pending') <= count'
      BY <1>0, <1>00, <2>3, <3>1, <3>5, <3>6, <3>7, <3>8, KeySets DEF LowInv
    <3>10. QED
      BY <1>4, <2>1, <3>9 DEF LowInv, Delete
  <2>4. QED
    BY <1>4, <2>2, <2>3 DEF Delete
<1>5. ASSUME NEW w \in Workers, Abort(w)
      PROVE  LowInv'
  <2>1. \A v \in Workers : req'[v].pc = "delete" => req'[v] = req[v]
    BY <1>0, <1>5, FinishFields DEF Abort, Idle
  <2>2. QED
    BY <1>5, <2>1, ShrinkLow DEF Abort
<1>6. ASSUME NEW k \in Keys, DeleteAccount(k)
      PROVE  LowInv'
  BY <1>6, ShrinkLow DEF DeleteAccount
<1>7. CASE DropParent
  BY <1>7, ShrinkLow DEF DropParent
<1>8. CASE UNCHANGED vars
  BY <1>8, ShrinkLow DEF vars
<1>9. QED
  BY <1>1, <1>2, <1>3, <1>4, <1>5, <1>6, <1>7, <1>8 DEF Next

LEMMA Low == Spec => [](TypeInv /\ LowInv)
BY InitTypeInv, NextTypeInv, InitLow, NextLow, PTL DEF Spec

\* Duplicates, re-adding, aborts and deleted accounts never deflate a counter.
THEOREM NotDeflated == Spec => []NeverTooLow
<1>1. TypeInv /\ LowInv => NeverTooLow
  <2> SUFFICES ASSUME TypeInv, LowInv, parent, ~raced
               PROVE  Cardinality(rows) <= count
    BY DEF NeverTooLow
  <2>1. rows \cup Pending \in SUBSET Keys /\ rows \in SUBSET Keys /\ count \in Nat
    BY DEF TypeInv, TypeOK, Pending
  <2>2. Cardinality(rows) <= Cardinality(rows \cup Pending)
    BY <2>1, KeySets
  <2>3. QED
    BY <2>1, <2>2, KeySets DEF LowInv
<1>2. QED
  BY <1>1, Low, PTL

\* No removal meets the CHECK constraint unless removals of one row overlap.
THEOREM RemovalsGoThrough == Spec => []RemovalPossible
<1>1. TypeInv /\ LowInv => RemovalPossible
  <2> SUFFICES ASSUME TypeInv, LowInv, parent, ~raced, NEW k \in Keys, Removing(k)
               PROVE  count > 0
    BY DEF RemovalPossible
  <2>1. rows \cup Pending \in SUBSET Keys /\ k \in Pending /\ count \in Nat
    BY DEF TypeInv, TypeOK, Pending
  <2>2. Cardinality(rows \cup Pending) # 0
    BY <2>1, KeySets, FS_EmptySet
  <2>3. QED
    BY <2>1, <2>2, KeySets DEF LowInv
<1>2. QED
  BY <1>1, Low, PTL

=============================================================================
