--------------------------- MODULE RowLocksProofs ---------------------------
(***************************************************************************)
(* Proofs about RowLocks, for any number of users and requests.            *)
(***************************************************************************)
EXTENDS RowLocks, SequenceTheorems, TLAPS

(***************************************************************************)
(* The order in which a request other than the deletion of an account      *)
(* takes its locks: what an earlier lock a says of a later lock b.         *)
(***************************************************************************)

Pair(a, b, op) ==
    /\ ~(a.row \in Users /\ a.mode = "update")
    /\ ~(b.row \in Users /\ b.mode = "update")
    /\ b.mode = "key_share" => b.row \in Users
    /\ a.row = Comment => b.mode = "key_share"
    /\ a.row = Route => b.mode = "key_share" \/ b.row = Comment
    /\ (a.row \in Users /\ a.mode # "key_share" /\ b.row \in Users /\ b.mode # "key_share")
         => op.kind = "follow" /\ a.row = op.by /\ b.row = op.on

Lock == [row : Rows, mode : Modes]

InOrder(s, op) == \A k, l \in 1..Len(s) : k < l => Pair(s[k], s[l], op)

Fits(s, op) ==
    /\ s \in Seq(Lock)
    /\ Len(s) \in 0..3
    /\ op.kind # "delete_account" => InOrder(s, op)

LEMMA NoLocks ==
    ASSUME NEW op
    PROVE  Fits(<<>>, op)
BY DEF InOrder, Fits

LEMMA OneLock ==
    ASSUME NEW op, NEW a \in Lock
    PROVE  Fits(<<a>>, op)
<1>1. <<a>> \in Seq(Lock) /\ Len(<<a>>) = 1
  OBVIOUS
<1>2. QED
  BY <1>1 DEF InOrder, Fits

LEMMA TwoLocks ==
    ASSUME NEW op, NEW a \in Lock, NEW b \in Lock, Pair(a, b, op)
    PROVE  Fits(<<a, b>>, op)
<1>1. <<a, b>> \in Seq(Lock) /\ Len(<<a, b>>) = 2 /\ <<a, b>>[1] = a /\ <<a, b>>[2] = b
  OBVIOUS
<1>2. QED
  BY <1>1 DEF InOrder, Fits

LEMMA ThreeLocks ==
    ASSUME NEW op, NEW a \in Lock, NEW b \in Lock, NEW c \in Lock,
           Pair(a, b, op), Pair(a, c, op), Pair(b, c, op)
    PROVE  Fits(<<a, b, c>>, op)
<1> DEFINE s == <<a, b, c>>
<1>1. s \in Seq(Lock) /\ Len(s) = 3 /\ s[1] = a /\ s[2] = b /\ s[3] = c
  OBVIOUS
<1> HIDE DEF s
<1>2. InOrder(s, op)
  <2>1. ASSUME NEW k \in 1..Len(s), NEW l \in 1..Len(s), k < l
        PROVE  Pair(s[k], s[l], op)
    <3>1. (k = 1 /\ l = 2) \/ (k = 1 /\ l = 3) \/ (k = 2 /\ l = 3)
      BY <2>1, <1>1
    <3>2. QED
      BY <3>1, <1>1
  <2>2. QED
    BY <2>1 DEF InOrder
<1>3. QED
  BY <1>1, <1>2 DEF s, Fits

LEMMA LocksTyped ==
    /\ \A u \in Users : Share(u) \in Lock /\ Update(u) \in Lock /\ Exclusive(u) \in Lock
    /\ Update(Route) \in Lock /\ Exclusive(Route) \in Lock
    /\ Update(Comment) \in Lock /\ Exclusive(Comment) \in Lock
BY DEF Share, Update, Exclusive, Lock, Modes, Rows

LEMMA RowsAre ==
    /\ Users \subseteq Rows /\ Route \in Rows /\ Comment \in Rows
    /\ Author \in Users /\ Commenter \in Users
    /\ Route \notin Users /\ Comment \notin Users /\ Route # Comment
BY RowLocksAssumption DEF Rows

LEMMA OpsAre ==
    ASSUME NEW op \in Ops
    PROVE  op.by \in Users /\ op.on \in Users /\ op.kind \in Kinds
<1> USE RowLocksAssumption
<1> DEFINE A == [kind : {"follow", "create_route"}, by : Users, on : Users]
           B == [kind : Kinds \ ({"follow", "create_route"} \cup AnybodysKinds),
                 by : Users, on : {Author}]
           C == [kind : AnybodysKinds, by : {Author}, on : {Author}]
           D == [kind : {"update_route"}, by : {Author}, on : Users]
<1>1. op \in A \/ op \in B \/ op \in C \/ op \in D
  BY DEF Ops
<1>2. CASE op \in A
  BY <1>2 DEF Kinds
<1>3. CASE op \in B
  BY <1>3
<1>4. CASE op \in C
  BY <1>4 DEF AnybodysKinds, Kinds
<1>5. CASE op \in D
  BY <1>5 DEF Kinds
<1>6. QED
  BY <1>1, <1>2, <1>3, <1>4, <1>5

LEMMA LocksOf ==
    ASSUME NEW op
    PROVE  /\ op.kind = "follow" => Locks(op) = FollowLocks(op.by, op.on)
           /\ op.kind = "add_to_route" => Locks(op) = AddToRouteLocks(op.by)
           /\ op.kind = "save_route" => Locks(op) = SaveRouteLocks(op.by)
           /\ op.kind = "remove_from_route" => Locks(op) = RemoveFromRouteLocks
           /\ op.kind = "delete_comment" => Locks(op) = DeleteCommentLocks
           /\ op.kind = "like_comment" => Locks(op) = LikeCommentLocks(op.by)
           /\ op.kind = "unlike_comment" => Locks(op) = UnlikeCommentLocks
           /\ op.kind = "create_route" => Locks(op) = CreateRouteLocks(op.by, op.on)
           /\ op.kind = "update_route" => Locks(op) = UpdateRouteLocks(op.on)
           /\ op.kind = "delete_route" => Locks(op) = DeleteRouteLocks
           /\ op.kind = "update_user" => Locks(op) = UpdateUserLocks(op.by)
           /\ op.kind = "change_email" => Locks(op) = ChangeEmailLocks(op.by)
           /\ op.kind = "delete_account" => Locks(op) = DeleteAccountLocks(op.by)
           /\ op.kind = "none" => Locks(op) = <<>>
BY DEF Locks

\* The pairs of locks that the requests take.
LEMMA Pairs ==
    ASSUME NEW op, NEW u \in Users, NEW v \in Users
    PROVE  /\ Pair(Update(Route), Share(u), op)
           /\ Pair(Update(Comment), Share(u), op)
           /\ Pair(Share(u), Share(v), op)
           /\ Pair(Update(u), Share(v), op)
           /\ Pair(Update(Route), Exclusive(Comment), op)
           /\ Pair(Exclusive(Route), Exclusive(Comment), op)
           /\ Pair(Update(u), Exclusive(Route), op)
           /\ Pair(Update(u), Exclusive(Comment), op)
           /\ (op.kind = "follow" /\ op.by = u /\ op.on = v) => Pair(Update(u), Update(v), op)
BY RowsAre DEF Pair, Share, Update, Exclusive

\* Every request takes at most three locks, and none but the deletion of an
\* account takes them out of order.
LEMMA LocksAre ==
    ASSUME NEW op \in Ops \cup {Idle}
    PROVE  Fits(Locks(op), op)
<1>1. op.by \in Users /\ op.on \in Users /\ op.kind \in Kinds \cup {"none"}
  BY OpsAre, RowLocksAssumption DEF Idle
<1>2. CASE op.kind = "none"
  BY <1>2, NoLocks, LocksOf
<1>3. CASE op.kind = "follow"
  <2>1. Locks(op) = <<Update(op.by), Update(op.on)>>
    BY <1>3, LocksOf DEF FollowLocks
  <2>2. Pair(Update(op.by), Update(op.on), op)
    BY <1>1, <1>3, Pairs
  <2>3. QED
    BY <1>1, <2>1, <2>2, TwoLocks, LocksTyped, RowLocksAssumption
<1>4. CASE op.kind = "save_route"
  <2>1. Locks(op) = <<Update(Route), Share(op.by)>>
    BY <1>4, LocksOf DEF SaveRouteLocks
  <2>2. Pair(Update(Route), Share(op.by), op)
    BY <1>1, RowLocksAssumption, Pairs
  <2>3. QED
    BY <1>1, <2>1, <2>2, TwoLocks, LocksTyped, RowLocksAssumption
<1>5. CASE op.kind = "remove_from_route"
  <2>1. Locks(op) = <<Update(Route)>>
    BY <1>5, LocksOf DEF RemoveFromRouteLocks
  <2>2. QED
    BY <1>1, <2>1, OneLock, LocksTyped
<1>6. CASE op.kind = "delete_comment"
  <2>1. Locks(op) = <<Update(Route), Exclusive(Comment)>>
    BY <1>6, LocksOf DEF DeleteCommentLocks
  <2>2. Pair(Update(Route), Exclusive(Comment), op)
    BY <1>1, RowLocksAssumption, Pairs
  <2>3. QED
    BY <1>1, <2>1, <2>2, TwoLocks, LocksTyped, RowLocksAssumption
<1>7. CASE op.kind = "like_comment"
  <2>1. Locks(op) = <<Update(Comment), Share(op.by)>>
    BY <1>7, LocksOf DEF LikeCommentLocks
  <2>2. Pair(Update(Comment), Share(op.by), op)
    BY <1>1, RowLocksAssumption, Pairs
  <2>3. QED
    BY <1>1, <2>1, <2>2, TwoLocks, LocksTyped, RowLocksAssumption
<1>8. CASE op.kind = "unlike_comment"
  <2>1. Locks(op) = <<Update(Comment)>>
    BY <1>8, LocksOf DEF UnlikeCommentLocks
  <2>2. QED
    BY <1>1, <2>1, OneLock, LocksTyped
<1>9. CASE op.kind = "create_route"
  <2>1. Locks(op) = <<Update(op.by), Share(op.on)>>
    BY <1>9, LocksOf DEF CreateRouteLocks
  <2>2. Pair(Update(op.by), Share(op.on), op)
    BY <1>1, RowLocksAssumption, Pairs
  <2>3. QED
    BY <1>1, <2>1, <2>2, TwoLocks, LocksTyped, RowLocksAssumption
<1>10. CASE op.kind = "update_route"
  <2>1. Locks(op) = <<Update(Route), Share(op.on), Share(Author)>>
    BY <1>10, LocksOf DEF UpdateRouteLocks
  <2>2. /\ Pair(Update(Route), Share(op.on), op)
        /\ Pair(Update(Route), Share(Author), op)
        /\ Pair(Share(op.on), Share(Author), op)
    BY <1>1, RowLocksAssumption, Pairs
  <2>3. QED
    BY <1>1, <2>1, <2>2, ThreeLocks, LocksTyped, RowLocksAssumption
<1>11. CASE op.kind = "delete_route"
  <2>1. Locks(op) = <<Update(Author), Exclusive(Route), Exclusive(Comment)>>
    BY <1>11, LocksOf DEF DeleteRouteLocks
  <2>2. /\ Pair(Update(Author), Exclusive(Route), op)
        /\ Pair(Update(Author), Exclusive(Comment), op)
        /\ Pair(Exclusive(Route), Exclusive(Comment), op)
    BY <1>1, RowLocksAssumption, Pairs
  <2>3. QED
    BY <1>1, <2>1, <2>2, ThreeLocks, LocksTyped, RowLocksAssumption
<1>12. CASE op.kind = "update_user"
  <2>1. Locks(op) = <<Update(op.by)>>
    BY <1>12, LocksOf DEF UpdateUserLocks
  <2>2. QED
    BY <1>1, <2>1, OneLock, LocksTyped
<1>13. CASE op.kind = "change_email"
  <2>1. Locks(op) = <<Exclusive(op.by)>>
    BY <1>13, LocksOf DEF ChangeEmailLocks
  <2>2. QED
    BY <1>1, <2>1, OneLock, LocksTyped
<1>14. CASE op.kind = "add_to_route"
  <2>1. CASE op.by = Author
    <3>1. Locks(op) = <<Update(Route), Share(op.by)>>
      BY <1>14, <2>1, LocksOf DEF AddToRouteLocks
    <3>2. Pair(Update(Route), Share(op.by), op)
      BY <1>1, RowLocksAssumption, Pairs
    <3>3. QED
      BY <1>1, <3>1, <3>2, TwoLocks, LocksTyped, RowLocksAssumption
  <2>2. CASE op.by # Author
    <3>1. Locks(op) = <<Update(Route), Share(op.by), Share(Author)>>
      BY <1>14, <2>2, LocksOf DEF AddToRouteLocks
    <3>2. /\ Pair(Update(Route), Share(op.by), op)
          /\ Pair(Update(Route), Share(Author), op)
          /\ Pair(Share(op.by), Share(Author), op)
      BY <1>1, RowLocksAssumption, Pairs
    <3>3. QED
      BY <1>1, <3>1, <3>2, ThreeLocks, LocksTyped, RowLocksAssumption
  <2>3. QED
    BY <2>1, <2>2
<1>15. CASE op.kind = "delete_account"
  <2> DEFINE s == IF op.by = Author THEN <<Exclusive(Route)>> ELSE <<>>
             t == IF op.by \in {Author, Commenter} THEN <<Exclusive(Comment)>> ELSE <<>>
             e == <<Exclusive(op.by)>>
  <2>1. Locks(op) = e \o s \o t
    BY <1>15, LocksOf DEF DeleteAccountLocks
  <2>2. Exclusive(op.by) \in Lock /\ Exclusive(Route) \in Lock /\ Exclusive(Comment) \in Lock
    BY <1>1, LocksTyped
  <2>3. s \in Seq(Lock) /\ Len(s) \in 0..1
    BY <2>2
  <2>4. t \in Seq(Lock) /\ Len(t) \in 0..1
    BY <2>2
  <2>5. e \in Seq(Lock) /\ Len(e) = 1
    BY <2>2
  <2> HIDE DEF s, t, e
  <2>6. e \o s \in Seq(Lock) /\ Len(e \o s) \in 1..2
    BY <2>3, <2>5, ConcatProperties
  <2>7. (e \o s) \o t \in Seq(Lock) /\ Len((e \o s) \o t) \in 0..3
    BY <2>4, <2>6, ConcatProperties
  <2>8. QED
    BY <1>15, <2>1, <2>7 DEF Fits
<1>16. QED
  BY <1>1, <1>2, <1>3, <1>4, <1>5, <1>6, <1>7, <1>8, <1>9, <1>10, <1>11, <1>12, <1>13, <1>14, <1>15 DEF Kinds

-----------------------------------------------------------------------------
(***************************************************************************)
(* Type correctness.                                                       *)
(***************************************************************************)

LEMMA ReqType ==
    ASSUME TypeOK, NEW w \in Workers
    PROVE  /\ req[w].op \in Ops \cup {Idle} /\ req[w].next \in 1..4
           /\ Fits(Locks(req[w].op), req[w].op)
           /\ Len(Locks(req[w].op)) \in 0..3
           /\ \A k \in 1..Len(Locks(req[w].op)) :
                /\ Locks(req[w].op)[k].row \in Rows
                /\ Locks(req[w].op)[k].mode \in Modes
<1>1. req[w].op \in Ops \cup {Idle} /\ req[w].next \in 1..4
  BY DEF TypeOK
<1>2. Fits(Locks(req[w].op), req[w].op)
  BY <1>1, LocksAre
<1> DEFINE s == Locks(req[w].op)
<1>3. s \in Seq(Lock) /\ Len(s) \in 0..3
  BY <1>2 DEF Fits
<1> HIDE DEF s
<1>4. \A k \in 1..Len(s) : s[k] \in Lock
  BY <1>3
<1>5. \A a \in Lock : a.row \in Rows /\ a.mode \in Modes
  BY DEF Lock
<1>6. QED
  BY <1>1, <1>2, <1>3, <1>4, <1>5 DEF s

LEMMA WantsType ==
    ASSUME TypeOK, NEW w \in Workers, More(w)
    PROVE  Wants(w).row \in Rows /\ Wants(w).mode \in Modes
<1>1. req[w].next \in 1..Len(Locks(req[w].op))
  BY ReqType DEF More
<1>2. QED
  BY <1>1, ReqType DEF Wants

LEMMA EndType ==
    ASSUME TypeOK, NEW w \in Workers, End(w)
    PROVE  req' \in [Workers -> [op : Ops \cup {Idle}, next : 1..4]]
BY DEF TypeOK, End

LEMMA NextType == TypeOK /\ [Next]_vars => TypeOK'
<1> SUFFICES ASSUME TypeOK, [Next]_vars PROVE TypeOK'
  OBVIOUS
<1>1. ASSUME NEW w \in Workers, NEW op \in Ops, Begin(w, op) PROVE TypeOK'
  BY <1>1 DEF Begin, TypeOK
<1>2. ASSUME NEW w \in Workers, TakeLock(w) PROVE TypeOK'
  <2>1. req[w].next \in 1..3
    BY <1>2, ReqType DEF TakeLock, More
  <2>2. QED
    BY <1>2, <2>1 DEF TakeLock, TypeOK
<1>3. ASSUME NEW w \in Workers, ForeignKeyFails(w) \/ AbortVictim(w) PROVE TypeOK'
  BY <1>3, EndType DEF ForeignKeyFails, AbortVictim, TypeOK
<1>4. ASSUME NEW w \in Workers, Commit(w) PROVE TypeOK'
  <2>1. Deletes(req[w].op) \subseteq Rows
    BY ReqType DEF Deletes
  <2>2. QED
    BY <1>4, <2>1, EndType DEF Commit, TypeOK
<1>5. CASE UNCHANGED vars
  BY <1>5 DEF vars, TypeOK
<1>6. QED
  BY <1>1, <1>2, <1>3, <1>4, <1>5 DEF Next

\* The requests keep their shape, and no request takes a lock it does not have.
THEOREM TypeCorrect == Spec => []TypeOK
<1>1. Init => TypeOK
  BY DEF Init, TypeOK
<1>2. QED
  BY <1>1, NextType, PTL DEF Spec

-----------------------------------------------------------------------------
(***************************************************************************)
(* The deadlocks.  In a cycle without the deletion of an account           *)
(*  - nobody waits with a foreign key check: the users' rows that it would *)
(*    conflict with are locked by requests that take no further lock;      *)
(*  - so nobody waits for the comment, whose lock only such a check may    *)
(*    follow, and then nobody for the route either;                        *)
(*  - what is left waits for a user's row and holds another one's.         *)
(***************************************************************************)

\* w waits for a lock that v holds and waits with another: the facts about both.
LEMMA BlocksIs ==
    ASSUME TypeOK, NEW v \in Workers, NEW w \in Workers, Blocks(v, w), More(v),
           req[v].op.kind # "delete_account"
    PROVE  \E a \in Lock :
             /\ Pair(a, Wants(v), req[v].op)
             /\ a.row = Wants(w).row
             /\ Conflict(a.mode, Wants(w).mode)
             /\ Wants(w).row \in Rows /\ Wants(w).mode \in Modes
             /\ Wants(v).row \in Rows /\ Wants(v).mode \in Modes
<1> DEFINE s == Locks(req[v].op)
<1>1. PICK k \in 1..(req[v].next - 1) :
        s[k].row = Wants(w).row /\ Conflict(s[k].mode, Wants(w).mode)
  BY DEF Blocks
<1>2. More(w)
  BY DEF Blocks
<1>3. /\ req[v].next \in 1..4 /\ req[v].next <= Len(s) /\ Len(s) \in 0..3
      /\ Wants(v) = s[req[v].next] /\ Fits(s, req[v].op)
  BY ReqType DEF More, Wants
<1>4. k \in 1..Len(s) /\ req[v].next \in 1..Len(s) /\ k < req[v].next
  BY <1>1, <1>3
<1>5. InOrder(s, req[v].op)
  BY <1>3 DEF Fits
<1>6. Pair(s[k], Wants(v), req[v].op)
  BY <1>3, <1>4, <1>5 DEF InOrder
<1>7. s[k] \in Lock
  BY <1>3, <1>4 DEF Fits
<1>8. /\ Wants(w).row \in Rows /\ Wants(w).mode \in Modes
      /\ Wants(v).row \in Rows /\ Wants(v).mode \in Modes
  BY <1>2, WantsType
<1> HIDE DEF s
<1>9. QED
  BY <1>1, <1>6, <1>7, <1>8

\* Everyone in a cycle is waited for: without him it would be a cycle as well.
LEMMA EveryoneBlocks ==
    ASSUME NEW S \in SUBSET Workers, Deadlock(S), NEW v \in S
    PROVE  \E w \in S : Blocks(v, w)
<1> SUFFICES ASSUME \A w \in S : ~Blocks(v, w) PROVE FALSE
  OBVIOUS
<1> DEFINE T == S \ {v}
<1>1. Knot(S) /\ (Knot(T) => T = S)
  BY DEF Deadlock
<1>2. \A w \in S : \E x \in S : Blocks(x, w) /\ x # v
  BY <1>1 DEF Knot
<1>3. T # {}
  BY <1>2
<1>4. Knot(T)
  BY <1>2, <1>3 DEF Knot
<1>5. QED
  BY <1>1, <1>4

LEMMA DeadlockIs ==
    ASSUME TypeOK, NEW S \in SUBSET Workers, Deadlock(S), ~DeletesAccount(S)
    PROVE  Ring(S)
<1>1. \A w \in S : \E v \in S : Blocks(v, w)
  BY DEF Deadlock, Knot
<1>2. \A w \in S : More(w) /\ req[w].op.kind # "delete_account" /\ w \in Workers
  BY <1>1 DEF Blocks, DeletesAccount
<1> DEFINE Held(a, v, w) ==
      /\ Pair(a, Wants(v), req[v].op)
      /\ a.row = Wants(w).row
      /\ Conflict(a.mode, Wants(w).mode)
      /\ Wants(w).row \in Rows /\ Wants(w).mode \in Modes
      /\ Wants(v).row \in Rows /\ Wants(v).mode \in Modes
<1>3. \A v, w \in S : Blocks(v, w) => \E a \in Lock : Held(a, v, w)
  BY <1>2, BlocksIs
<1>4. \A v \in S : \E w \in S, a \in Lock : Held(a, v, w)
  BY <1>3, EveryoneBlocks
<1>5. \A w \in S : \E v \in S, a \in Lock : Held(a, v, w)
  BY <1>1, <1>3
<1>6. ASSUME NEW w \in S PROVE Wants(w).mode # "key_share"
  <2> SUFFICES ASSUME Wants(w).mode = "key_share" PROVE FALSE
    OBVIOUS
  <2>1. PICK v \in S, a \in Lock : Held(a, v, w)
    BY <1>5
  <2>2. PICK x \in S, b \in Lock : Held(b, w, x)
    BY <1>4
  <2>3. Wants(w).row \in Users
    BY <2>2 DEF Pair
  <2>4. a.row \in Users /\ a.mode = "update"
    BY <2>1, <2>3 DEF Conflict
  <2>5. QED
    BY <2>1, <2>4 DEF Pair
<1>7. ASSUME NEW w \in S PROVE Wants(w).row # Comment
  <2>1. PICK v \in S, a \in Lock : Held(a, v, w)
    BY <1>5
  <2>2. QED
    BY <2>1, <1>6 DEF Pair
<1>8. ASSUME NEW w \in S PROVE Wants(w).row \in Users
  <2>1. PICK v \in S, a \in Lock : Held(a, v, w)
    BY <1>5
  <2>2. Wants(w).row # Route
    BY <2>1, <1>6, <1>7 DEF Pair
  <2>3. QED
    BY <2>1, <2>2, <1>7 DEF Rows
<1>9. ASSUME NEW v \in S, NEW w \in S, NEW a \in Lock, Held(a, v, w)
      PROVE  /\ req[v].op.kind = "follow"
             /\ req[v].op.by = Wants(w).row
             /\ Wants(v).row = req[v].op.on
  <2>1. a.row \in Users /\ Wants(v).row \in Users
    BY <1>8, <1>9
  <2>2. Wants(w).mode = "no_key_update"
    <3>1. PICK x \in S, b \in Lock : Held(b, w, x)
      BY <1>4
    <3>2. Wants(w).mode # "update"
      BY <3>1, <1>8 DEF Pair
    <3>3. QED
      BY <1>6, <1>9, <3>2 DEF Modes
  <2>3. a.mode # "key_share"
    BY <1>9, <2>2 DEF Conflict
  <2>4. Wants(v).mode # "key_share"
    BY <1>6
  <2>5. QED
    BY <1>9, <2>1, <2>3, <2>4 DEF Pair
<1>10. ASSUME NEW w \in S
       PROVE  req[w].op.kind = "follow" /\ \E v \in S : req[v].op.by = req[w].op.on
  <2>1. PICK x \in S, b \in Lock : Held(b, w, x)
    BY <1>4
  <2>2. PICK v \in S, a \in Lock : Held(a, v, w)
    BY <1>5
  <2> HIDE DEF Held
  <2>3. QED
    BY <1>9, <2>1, <2>2
<1>11. QED
  BY <1>10 DEF Ring

\* Of any number of requests only follows in a ring and the deletion of an account
\* can deadlock: the order of the locks of all the others rules it out.
THEOREM OnlyKnownDeadlocks == Spec => []DeadlocksAreKnown
<1>1. TypeOK => DeadlocksAreKnown
  BY DeadlockIs DEF DeadlocksAreKnown
<1>2. QED
  BY <1>1, TypeCorrect, PTL

=============================================================================
