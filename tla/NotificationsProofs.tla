------------------------ MODULE NotificationsProofs ------------------------
(***************************************************************************)
(* Proofs about Notifications, for any number of connections and           *)
(* notifications.                                                          *)
(***************************************************************************)
EXTENDS Notifications, FiniteSetTheorems, TLAPS

-----------------------------------------------------------------------------
(***************************************************************************)
(* Removing connections from the list.                                     *)
(***************************************************************************)

\* The members of a finite set of positions, counted from the first.
Rank(kept) == [i \in kept |-> Cardinality({j \in kept : j <= i})]

LEMMA Ranks ==
    ASSUME NEW n \in Nat, NEW kept \in SUBSET (1..n)
    PROVE  /\ Cardinality(kept) \in Nat
           /\ \A i \in kept : Rank(kept)[i] \in 1..Cardinality(kept)
           /\ \A i \in kept : Rank(kept)[i] <= i
           /\ \A i, j \in kept : Rank(kept)[i] = Rank(kept)[j] => i = j
           /\ \A k \in 1..Cardinality(kept) : \E i \in kept : Rank(kept)[i] = k
<1> DEFINE Upto(i) == {j \in kept : j <= i}
           c == Cardinality(kept)
           rank == Rank(kept)
<1>0. \A i \in kept : i \in Nat /\ i >= 1 /\ i <= n
  OBVIOUS
<1>1. IsFiniteSet(kept) /\ c \in Nat
  <2>1. IsFiniteSet(1..n)
    BY FS_Interval
  <2>2. IsFiniteSet(kept)
    BY <2>1, FS_Subset
  <2>3. QED
    BY <2>2, FS_CardinalityType
<1>def. \A i \in kept : rank[i] = Cardinality(Upto(i))
  BY DEF Rank
<1> HIDE DEF c
<1>2. ASSUME NEW i \in kept
      PROVE  /\ IsFiniteSet(Upto(i)) /\ rank[i] = Cardinality(Upto(i)) /\ rank[i] \in Nat
             /\ rank[i] <= c /\ rank[i] >= 1
  <2>1. IsFiniteSet(Upto(i)) /\ Cardinality(Upto(i)) <= c
    BY <1>1, FS_Subset DEF c
  <2>2. Cardinality(Upto(i)) \in Nat
    BY <2>1, FS_CardinalityType
  <2>3. Cardinality(Upto(i)) # 0
    <3>1. i \in Upto(i)
      BY <1>0
    <3>2. QED
      BY <2>1, <3>1, FS_EmptySet
  <2>4. QED
    BY <1>1, <1>def, <2>1, <2>2, <2>3
<1>3. ASSUME NEW i \in kept PROVE rank[i] <= i
  <2>1. Upto(i) \in SUBSET (1..i) /\ i \in Nat
    <3>1. \A j \in Upto(i) : j \in 1..i
      BY <1>0
    <3>2. QED
      BY <1>0, <3>1
  <2>2. IsFiniteSet(1..i) /\ Cardinality(1..i) = i
    BY <2>1, FS_Interval
  <2>3. QED
    BY <1>2, <2>1, <2>2, FS_Subset
<1>4. ASSUME NEW i \in kept, NEW j \in kept, rank[i] = rank[j], i < j PROVE FALSE
  <2>1. Upto(i) \in SUBSET Upto(j) /\ j \in Upto(j) /\ j \notin Upto(i)
    <3>1. i \in Nat /\ j \in Nat /\ \A l \in kept : l \in Nat
      BY <1>0
    <3>2. \A l \in Upto(i) : l \in Upto(j)
      BY <3>1, <1>4
    <3>3. j \in Upto(j) /\ j \notin Upto(i)
      BY <3>1, <1>4
    <3>4. QED
      BY <3>2, <3>3
  <2>2. IsFiniteSet(Upto(j)) /\ Cardinality(Upto(i)) = Cardinality(Upto(j))
    BY <1>2, <1>4
  <2>3. QED
    BY <2>1, <2>2, FS_Subset
<1>5. \A i, j \in kept : rank[i] = rank[j] => i = j
  BY <1>0, <1>4
<1>6. rank \in [kept -> 1..c]
  BY <1>1, <1>2 DEF Rank
<1>7. \A k \in 1..c : \E i \in kept : rank[i] = k
  <2>1. rank \in Injection(kept, 1..c)
    BY <1>5, <1>6 DEF Injection, IsInjective
  <2>2. IsFiniteSet(1..c) /\ Cardinality(1..c) = c
    BY <1>1, FS_Interval
  <2>3. rank \in Surjection(kept, 1..c)
    BY <1>1, <2>1, <2>2, FS_Injection DEF c
  <2>4. QED
    BY <2>3 DEF Surjection
<1>8. QED
  BY <1>1, <1>3, <1>5, <1>6, <1>7 DEF c

NoTwice(list) == \A i, j \in DOMAIN list : list[i] = list[j] => i = j

\* What Without returns: the other connections, none twice, none moved back.
LEMMA WithoutFacts ==
    ASSUME conns \in Seq(Sockets), NoTwice(conns), NEW gone \in SUBSET Sockets
    PROVE  /\ Without(gone) \in Seq(Sockets)
           /\ NoTwice(Without(gone))
           /\ \A k \in DOMAIN Without(gone) : \E i \in DOMAIN conns :
                k <= i /\ Without(gone)[k] = conns[i] /\ conns[i] \notin gone
           /\ \A i \in DOMAIN conns : conns[i] \notin gone =>
                \E k \in DOMAIN Without(gone) : Without(gone)[k] = conns[i]
<1> DEFINE kept == {i \in DOMAIN conns : conns[i] \notin gone}
           c == Cardinality(kept)
           rank == Rank(kept)
           At(k) == CHOOSE i \in kept : rank[i] = k
<1>1. kept \in SUBSET (1..Len(conns)) /\ Len(conns) \in Nat
  OBVIOUS
<1>2. Without(gone) = [k \in 1..c |-> conns[At(k)]]
  BY DEF Without, Rank
<1>3. /\ c \in Nat
      /\ \A i \in kept : rank[i] <= i /\ rank[i] \in 1..c
      /\ \A i, j \in kept : rank[i] = rank[j] => i = j
      /\ \A k \in 1..c : \E i \in kept : rank[i] = k
  <2> HIDE DEF kept
  <2>1. QED
    BY <1>1, Ranks
<1> HIDE DEF rank, c
<1>4. \A k \in 1..c : At(k) \in kept /\ rank[At(k)] = k
  BY <1>3
<1> HIDE DEF At
<1>5. Without(gone) \in Seq(Sockets) /\ DOMAIN Without(gone) = 1..c
  BY <1>2, <1>3, <1>4
<1>6. \A k \in 1..c : Without(gone)[k] = conns[At(k)]
  BY <1>2
<1>7. NoTwice(Without(gone))
  BY <1>4, <1>5, <1>6 DEF NoTwice
<1>8. \A k \in 1..c : k <= At(k) /\ At(k) \in DOMAIN conns /\ conns[At(k)] \notin gone
  BY <1>3, <1>4
<1>9. ASSUME NEW i \in DOMAIN conns, conns[i] \notin gone
      PROVE  \E k \in 1..c : Without(gone)[k] = conns[i]
  <2>1. i \in kept /\ rank[i] \in 1..c
    BY <1>3, <1>9
  <2>2. At(rank[i]) = i
    BY <1>3, <1>4, <2>1
  <2>3. QED
    BY <1>6, <2>1, <2>2
<1>10. QED
  BY <1>5, <1>6, <1>7, <1>8, <1>9

-----------------------------------------------------------------------------
(***************************************************************************)
(* The shape of the state.                                                 *)
(***************************************************************************)

LEMMA NoPushType == NoPush \in Push
BY DEF NoPush, Push

\* A push at the position i of the list, where it finds s.
Begun(q, i, s) == [q EXCEPT !.pc = "send", !.idx = i, !.cur = s]
Moved(q, i, s, dead) == [q EXCEPT !.idx = i, !.cur = s, !.dead = dead]

LEMMA PushBegun ==
    ASSUME NEW q \in Push, NEW i \in Nat, NEW s \in Sockets
    PROVE  Begun(q, i, s) =
             [pc |-> "send", idx |-> i, cur |-> s, dead |-> q.dead, orphan |-> q.orphan]
<1> DEFINE a == [q EXCEPT !.pc = "send"]
           b == [a EXCEPT !.idx = i]
<1>1. a = [pc |-> "send", idx |-> q.idx, cur |-> q.cur, dead |-> q.dead, orphan |-> q.orphan]
  BY DEF Push
<1> HIDE DEF a
<1>2. b = [pc |-> "send", idx |-> i, cur |-> q.cur, dead |-> q.dead, orphan |-> q.orphan]
  BY <1>1
<1> HIDE DEF b
<1>3. [b EXCEPT !.cur = s] =
        [pc |-> "send", idx |-> i, cur |-> s, dead |-> q.dead, orphan |-> q.orphan]
  BY <1>2
<1>4. QED
  BY <1>3 DEF a, b, Begun

LEMMA PushMoved ==
    ASSUME NEW q \in Push, NEW i \in Nat, NEW s \in Sockets, NEW dead \in SUBSET Sockets
    PROVE  Moved(q, i, s, dead) =
             [pc |-> q.pc, idx |-> i, cur |-> s, dead |-> dead, orphan |-> q.orphan]
<1> DEFINE a == [q EXCEPT !.idx = i]
           b == [a EXCEPT !.cur = s]
<1>1. a = [pc |-> q.pc, idx |-> i, cur |-> q.cur, dead |-> q.dead, orphan |-> q.orphan]
  BY DEF Push
<1> HIDE DEF a
<1>2. b = [pc |-> q.pc, idx |-> i, cur |-> s, dead |-> q.dead, orphan |-> q.orphan]
  BY <1>1
<1> HIDE DEF b
<1>3. [b EXCEPT !.dead = dead] =
        [pc |-> q.pc, idx |-> i, cur |-> s, dead |-> dead, orphan |-> q.orphan]
  BY <1>2
<1>4. QED
  BY <1>3 DEF a, b, Moved

LEMMA ConnectFacts ==
    ASSUME TypeOK, NEW s \in Sockets, s \notin Registered, Connect(s)
    PROVE  /\ conns' \in Seq(Sockets) /\ NoTwice(conns')
           /\ DOMAIN conns' = 1..(Len(conns) + 1) /\ DOMAIN conns = 1..Len(conns)
           /\ Len(conns) \in Nat
           /\ \A k \in DOMAIN conns : conns'[k] = conns[k]
           /\ conns'[Len(conns) + 1] = s
<1>1. conns \in Seq(Sockets) /\ Len(conns) \in Nat /\ NoTwice(conns)
  BY DEF TypeOK, NoTwice
<1>2. /\ conns' \in Seq(Sockets)
      /\ DOMAIN conns' = 1..(Len(conns) + 1) /\ DOMAIN conns = 1..Len(conns)
      /\ \A k \in DOMAIN conns : conns'[k] = conns[k]
      /\ conns'[Len(conns) + 1] = s
  BY <1>1 DEF Connect
<1>3. \A k \in DOMAIN conns : conns[k] # s
  BY DEF Registered
<1>4. NoTwice(conns')
  BY <1>1, <1>2, <1>3 DEF NoTwice
<1>5. QED
  BY <1>1, <1>2, <1>4

\* What Disconnect(_, p) does to the push of n.
PushMoves(n, p) ==
    /\ push'[n].pc = p[n].pc /\ push'[n].idx = p[n].idx
    /\ push'[n].cur = p[n].cur /\ push'[n].dead = p[n].dead
    /\ p[n].orphan => push'[n].orphan
    /\ push'[n].orphan => p[n].orphan \/ (p[n].pc = "send" /\ conns' = <<>>)
    /\ disturbed[n] => disturbed'[n]
    /\ push[n].pc = "send" /\ p[n].pc = "send" /\ conns' # conns => disturbed'[n]
    /\ ~(push[n].pc = "send" /\ p[n].pc = "send") => disturbed'[n] = disturbed[n]

\* What disconnect() of the members of gone does to the list and to the pushes.
LEMMA DisconnectFacts ==
    ASSUME TypeOK, NEW gone \in SUBSET Sockets, NEW p \in [Notes -> Push],
           Disconnect(gone, p)
    PROVE  /\ conns' \in Seq(Sockets) /\ NoTwice(conns')
           /\ push' \in [Notes -> Push] /\ disturbed' \in [Notes -> BOOLEAN]
           /\ \A k \in DOMAIN conns' : \E i \in DOMAIN conns :
                k <= i /\ conns'[k] = conns[i] /\ conns[i] \notin gone
           /\ \A i \in DOMAIN conns : conns[i] \notin gone =>
                \E k \in DOMAIN conns' : conns'[k] = conns[i]
           /\ \A n \in Notes : PushMoves(n, p)
<1> DEFINE walking(n) == push[n].pc = "send" /\ p[n].pc = "send"
<1>1. conns' = Without(gone)
  BY DEF Disconnect
<1>2. conns \in Seq(Sockets) /\ NoTwice(conns)
  BY DEF TypeOK, NoTwice
<1>3. /\ conns' \in Seq(Sockets) /\ NoTwice(conns')
      /\ \A k \in DOMAIN conns' : \E i \in DOMAIN conns :
           k <= i /\ conns'[k] = conns[i] /\ conns[i] \notin gone
      /\ \A i \in DOMAIN conns : conns[i] \notin gone =>
           \E k \in DOMAIN conns' : conns'[k] = conns[i]
  <2>1. /\ Without(gone) \in Seq(Sockets) /\ NoTwice(Without(gone))
        /\ \A k \in DOMAIN Without(gone) : \E i \in DOMAIN conns :
             k <= i /\ Without(gone)[k] = conns[i] /\ conns[i] \notin gone
        /\ \A i \in DOMAIN conns : conns[i] \notin gone =>
             \E k \in DOMAIN Without(gone) : Without(gone)[k] = conns[i]
    BY <1>2, WithoutFacts
  <2>2. QED
    BY <1>1, <2>1
<1>4. push' = IF conns' = <<>>
              THEN [n \in Notes |-> IF walking(n) THEN [p[n] EXCEPT !.orphan = TRUE] ELSE p[n]]
              ELSE p
  BY <1>1 DEF Disconnect
<1>5. ASSUME NEW n \in Notes
      PROVE  \/ push'[n] = p[n]
             \/ conns' = <<>> /\ p[n].pc = "send" /\ push'[n] = [p[n] EXCEPT !.orphan = TRUE]
  BY <1>4
<1>6. \A n \in Notes : [p[n] EXCEPT !.orphan = TRUE] \in Push
  BY DEF Push
<1>7. push' \in [Notes -> Push]
  BY <1>4, <1>6
<1>8. disturbed' = IF conns' = conns THEN disturbed
                   ELSE [n \in Notes |-> disturbed[n] \/ walking(n)]
  BY <1>1 DEF Disconnect
<1>9. disturbed' \in [Notes -> BOOLEAN]
  BY <1>8 DEF TypeOK
<1>10. ASSUME NEW n \in Notes
       PROVE  /\ disturbed[n] => disturbed'[n]
              /\ walking(n) /\ conns' # conns => disturbed'[n]
              /\ ~walking(n) => disturbed'[n] = disturbed[n]
  BY <1>8 DEF TypeOK
<1>11. ASSUME NEW n \in Notes
       PROVE  /\ push'[n].pc = p[n].pc /\ push'[n].idx = p[n].idx
              /\ push'[n].cur = p[n].cur /\ push'[n].dead = p[n].dead
              /\ p[n].orphan => push'[n].orphan
              /\ push'[n].orphan => p[n].orphan \/ (p[n].pc = "send" /\ conns' = <<>>)
  BY <1>5 DEF Push
<1>12. \A n \in Notes : PushMoves(n, p)
  BY <1>10, <1>11 DEF PushMoves
<1>13. QED
  BY <1>3, <1>7, <1>9, <1>12

-----------------------------------------------------------------------------
(***************************************************************************)
(* The invariant: what is known of each push while the list changes.       *)
(***************************************************************************)

\* A connection that was registered once.
Known(s) == socket[s] \in {"open", "left", "closed"}

\* What waits behind the iterator has not been sent the notification, nor has
\* the connection it is being sent to, which does not wait there a second time.
OnceInv(n) ==
    /\ row[n] = "none" => push[n].pc = "none"
    /\ push[n].pc = "send" => push[n].cur \in Sockets /\ Known(push[n].cur)
    /\ \A s \in Sockets : got[n][s] <= 1 /\ (~Known(s) => got[n][s] = 0)
    /\ push[n].pc \in {"none", "enrich"} => \A s \in Sockets : got[n][s] = 0
    /\ push[n].pc = "send" => got[n][push[n].cur] = 0
    /\ push[n].pc = "send" /\ ~push[n].orphan =>
         \A k \in DOMAIN conns : k > push[n].idx =>
             got[n][conns[k]] = 0 /\ conns[k] # push[n].cur

\* The connections of the start are still in the list as long as none was taken
\* out of it; those before the iterator have the notification.
QuietInv(n) ==
    /\ \A s \in targets[n] : Known(s)
    /\ push[n].pc \in {"none", "enrich"} => ~push[n].orphan /\ targets[n] = {}
    /\ push[n].pc = "send" /\ ~disturbed[n] =>
         /\ ~push[n].orphan
         /\ push[n].idx \in DOMAIN conns /\ conns[push[n].idx] = push[n].cur
         /\ \A s \in targets[n] : \E k \in DOMAIN conns :
              /\ conns[k] = s
              /\ k >= push[n].idx \/ (socket[s] = "open" => got[n][s] > 0)
    /\ Over(n) /\ ~disturbed[n] =>
         \A s \in targets[n] : socket[s] = "open" => got[n][s] > 0

DeadInv(n) == \A s \in push[n].dead : socket[s] \in {"left", "closed"}

NoteInv(n) == OnceInv(n) /\ QuietInv(n) /\ DeadInv(n)

\* ListIsExact but for the conjunct that is in TypeOK too.
Registry ==
    /\ \A s \in Registered : socket[s] \in {"open", "left"}
    /\ \A s \in Sockets : socket[s] = "open" => s \in Registered

BaseInv == TypeOK /\ Registry

Inv == BaseInv /\ \A n \in Notes : NoteInv(n)

LEMMA InitInv == Init => Inv
<1> SUFFICES ASSUME Init PROVE Inv
  OBVIOUS
<1>1. TypeOK
  BY NoPushType DEF Init, TypeOK, SocketState, RowState
<1>2. Registry
  BY DEF Init, Registry, Registered
<1>3. \A n \in Notes : NoteInv(n)
  BY DEF Init, NoteInv, OnceInv, QuietInv, DeadInv, Known, Over, NoPush
<1>4. QED
  BY <1>1, <1>2, <1>3 DEF Inv, BaseInv

-----------------------------------------------------------------------------
(***************************************************************************)
(* Steps that only change what surrounds a push.                           *)
(***************************************************************************)

SocketsMove ==
    \A s \in Sockets : /\ Known(s) => Known(s)'
                       /\ socket'[s] = "open" => socket[s] \in {"open", "accepted"}
                       /\ socket[s] \in {"left", "closed"} => socket'[s] \in {"left", "closed"}

\* Nothing in the list moves back, and what is new in it was never there.
ListMoves ==
    \A k \in DOMAIN conns' :
        \/ \E i \in DOMAIN conns : k <= i /\ conns'[k] = conns[i]
        \/ conns'[k] \in Sockets /\ ~Known(conns'[k])

\* The step is not one of n.
Steady(n) ==
    /\ push'[n].pc = push[n].pc /\ push'[n].idx = push[n].idx
    /\ push'[n].cur = push[n].cur /\ push'[n].dead = push[n].dead
    /\ push[n].orphan => push'[n].orphan
    /\ push'[n].orphan => push[n].orphan \/ (push[n].pc = "send" /\ conns' = <<>>)
    /\ \A s \in Sockets : got'[n][s] = got[n][s]
    /\ targets'[n] = targets[n]
    /\ disturbed[n] => disturbed'[n]
    /\ push[n].pc = "send" /\ ~disturbed'[n] =>
         \A k \in DOMAIN conns : k \in DOMAIN conns' /\ conns'[k] = conns[k]
    /\ row'[n] = "none" => row[n] = "none"

LEMMA SteadyNote ==
    ASSUME TypeOK, TypeOK', NEW n \in Notes, NoteInv(n), Steady(n), SocketsMove, ListMoves
    PROVE  NoteInv(n)'
<1> DEFINE i == push[n].idx
<1>1. /\ i \in Nat /\ push[n] \in Push /\ targets[n] \subseteq Sockets
      /\ push[n].dead \subseteq Sockets
      /\ DOMAIN conns = 1..Len(conns) /\ Len(conns) \in Nat
      /\ DOMAIN conns' = 1..Len(conns') /\ Len(conns') \in Nat
      /\ \A s \in Sockets : got[n][s] \in Nat
      /\ \A k \in DOMAIN conns : conns[k] \in Sockets
  BY DEF TypeOK, Push
<1>2. DeadInv(n)'
  BY <1>1 DEF NoteInv, DeadInv, Steady, SocketsMove
<1>3. ASSUME push'[n].pc = "send", ~push'[n].orphan,
             NEW k \in DOMAIN conns', k > push'[n].idx
      PROVE  got'[n][conns'[k]] = 0 /\ conns'[k] # push'[n].cur
  <2>1. push[n].pc = "send" /\ ~push[n].orphan /\ k > i /\ push'[n].cur = push[n].cur
    BY <1>3 DEF Steady
  <2>2. CASE \E j \in DOMAIN conns : k <= j /\ conns'[k] = conns[j]
    <3>1. PICK j \in DOMAIN conns : k <= j /\ conns'[k] = conns[j]
      BY <2>2
    <3>2. j > i /\ conns[j] \in Sockets
      BY <1>1, <2>1, <3>1
    <3>3. got[n][conns[j]] = 0 /\ conns[j] # push[n].cur
      BY <2>1, <3>2 DEF NoteInv, OnceInv
    <3>4. QED
      BY <2>1, <3>1, <3>2, <3>3 DEF Steady
  <2>3. CASE conns'[k] \in Sockets /\ ~Known(conns'[k])
    BY <2>1, <2>3 DEF NoteInv, OnceInv, Steady
  <2>4. QED
    BY <2>2, <2>3 DEF ListMoves
<1>4. OnceInv(n)'
  <2>1. \A s \in Sockets : got'[n][s] <= 1 /\ (~Known(s)' => got'[n][s] = 0)
    BY DEF NoteInv, OnceInv, Steady, SocketsMove
  <2>2. push'[n].pc = "send" => /\ push'[n].cur \in Sockets /\ Known(push[n].cur)'
                                /\ got'[n][push'[n].cur] = 0
    BY DEF NoteInv, OnceInv, Steady, SocketsMove, Known
  <2>3. QED
    BY <1>3, <2>1, <2>2 DEF NoteInv, OnceInv, Steady, Known
<1>5. ASSUME push'[n].pc = "send", ~disturbed'[n]
      PROVE  /\ ~push'[n].orphan
             /\ push'[n].idx \in DOMAIN conns' /\ conns'[push'[n].idx] = push'[n].cur
             /\ \A s \in targets'[n] : \E k \in DOMAIN conns' :
                  /\ conns'[k] = s
                  /\ k >= push'[n].idx \/ (socket'[s] = "open" => got'[n][s] > 0)
  <2>1. /\ push[n].pc = "send" /\ ~disturbed[n] /\ push'[n].idx = i
        /\ push'[n].cur = push[n].cur /\ targets'[n] = targets[n]
        /\ \A k \in DOMAIN conns : k \in DOMAIN conns' /\ conns'[k] = conns[k]
    BY <1>5 DEF Steady
  <2>2. /\ ~push[n].orphan /\ i \in DOMAIN conns /\ conns[i] = push[n].cur
        /\ \A s \in targets[n] : \E k \in DOMAIN conns :
             /\ conns[k] = s
             /\ k >= i \/ (socket[s] = "open" => got[n][s] > 0)
    BY <2>1 DEF NoteInv, QuietInv
  <2>3. conns' # <<>>
    BY <2>1, <2>2
  <2>4. ASSUME NEW s \in targets[n]
        PROVE  \E k \in DOMAIN conns' :
                  /\ conns'[k] = s
                  /\ k >= i \/ (socket'[s] = "open" => got'[n][s] > 0)
    <3>1. PICK k \in DOMAIN conns :
             conns[k] = s /\ (k >= i \/ (socket[s] = "open" => got[n][s] > 0))
      BY <2>2
    <3>2. s \in Sockets /\ Known(s)
      BY <1>1 DEF NoteInv, QuietInv
    <3>3. socket'[s] = "open" => socket[s] = "open"
      BY <3>2 DEF SocketsMove, Known
    <3>4. got'[n][s] = got[n][s]
      BY <3>2 DEF Steady
    <3>5. QED
      BY <2>1, <3>1, <3>3, <3>4
  <2>5. QED
    BY <2>1, <2>2, <2>3, <2>4 DEF Steady
<1>6. QuietInv(n)'
  <2>1. \A s \in targets'[n] : s \in Sockets /\ Known(s) /\ Known(s)'
    BY <1>1 DEF NoteInv, QuietInv, Steady, SocketsMove
  <2>2. Over(n)' /\ ~disturbed'[n] =>
          \A s \in targets'[n] : socket'[s] = "open" => got'[n][s] > 0
    BY <2>1 DEF NoteInv, QuietInv, Steady, SocketsMove, Known, Over
  <2>3. push'[n].pc \in {"none", "enrich"} => ~push'[n].orphan /\ targets'[n] = {}
    BY DEF NoteInv, QuietInv, Steady
  <2>4. QED
    BY <1>5, <2>1, <2>2, <2>3 DEF QuietInv
<1>7. QED
  BY <1>2, <1>4, <1>6 DEF NoteInv

LEMMA PushesSteady ==
    ASSUME Inv, TypeOK', SocketsMove, ListMoves, \A n \in Notes : Steady(n)
    PROVE  \A n \in Notes : NoteInv(n)'
BY SteadyNote DEF Inv, BaseInv

LEMMA SameListMoves == TypeOK /\ UNCHANGED conns => ListMoves
<1> SUFFICES ASSUME TypeOK, UNCHANGED conns PROVE ListMoves
  OBVIOUS
<1>1. \A k \in DOMAIN conns : k \in Nat
  BY DEF TypeOK
<1>2. QED
  BY <1>1 DEF ListMoves

LEMMA SameSockets == UNCHANGED socket => SocketsMove
BY DEF SocketsMove, Known

\* A step that leaves the list and the pushes alone.
LEMMA QuietStep ==
    ASSUME Inv, TypeOK', Registry', SocketsMove,
           UNCHANGED <<conns, push, observations>>,
           \A n \in Notes : row'[n] = "none" => row[n] = "none"
    PROVE  Inv'
<1>1. \A n \in Notes : Steady(n)
  BY DEF Steady, observations
<1>2. ListMoves
  BY SameListMoves DEF Inv, BaseInv
<1>3. QED
  BY <1>1, <1>2, PushesSteady DEF Inv, BaseInv

LEMMA ConnectionStep ==
    ASSUME Inv, NEW s \in Sockets, Accept(s) \/ RefuseConnection(s) \/ Leave(s)
    PROVE  Inv'
<1>1. /\ UNCHANGED <<conns, row, push, observations>>
      /\ socket[s] \in {"none", "accepted", "open"}
      /\ socket' = [socket EXCEPT ![s] =
                      IF socket[s] = "none" THEN "accepted"
                      ELSE IF socket[s] = "open" THEN "left" ELSE "closed"]
  BY DEF Accept, RefuseConnection, Leave
<1>2. TypeOK /\ Registry
  BY DEF Inv, BaseInv
<1>3. TypeOK'
  BY <1>1, <1>2 DEF TypeOK, SocketState, observations
<1>4. SocketsMove
  BY <1>1, <1>2 DEF SocketsMove, Known, TypeOK
<1>5. Registry'
  BY <1>1, <1>2 DEF Registry, Registered, TypeOK
<1>6. QED
  BY <1>1, <1>3, <1>4, <1>5, QuietStep

LEMMA MarkStep ==
    ASSUME Inv, (\E n \in Notes : MarkAsRead(n)) \/ MarkAllAsRead
    PROVE  Inv'
<1>1. TypeOK /\ Registry
  BY DEF Inv, BaseInv
<1>2. /\ UNCHANGED <<socket, conns, push, observations>>
      /\ row' \in [Notes -> RowState]
      /\ \A n \in Notes : row'[n] = "none" => row[n] = "none"
  BY <1>1 DEF MarkAsRead, MarkAllAsRead, TypeOK, RowState
<1>3. TypeOK' /\ Registry'
  BY <1>1, <1>2 DEF TypeOK, Registry, Registered, observations
<1>4. QED
  BY <1>2, <1>3, SameSockets, QuietStep

LEMMA AuthenticatedStep ==
    ASSUME Inv, NEW s \in Sockets, Authenticated(s)
    PROVE  Inv'
<1>1. TypeOK /\ Registry
  BY DEF Inv, BaseInv
<1>2. /\ UNCHANGED <<row, push, observations>>
      /\ socket[s] = "accepted" /\ socket' = [socket EXCEPT ![s] = "open"]
      /\ Connect(s)
  BY DEF Authenticated
<1>3. s \notin Registered
  BY <1>1, <1>2 DEF Registry
<1>4. /\ conns' \in Seq(Sockets) /\ NoTwice(conns')
      /\ DOMAIN conns' = 1..(Len(conns) + 1) /\ DOMAIN conns = 1..Len(conns)
      /\ Len(conns) \in Nat
      /\ \A k \in DOMAIN conns : conns'[k] = conns[k]
      /\ conns'[Len(conns) + 1] = s
  BY <1>1, <1>2, <1>3, ConnectFacts
<1>5. TypeOK'
  BY <1>1, <1>2, <1>4 DEF TypeOK, SocketState, NoTwice, observations
<1>6. SocketsMove
  BY <1>1, <1>2 DEF SocketsMove, Known, TypeOK
<1>7. ListMoves
  <2>1. \A k \in DOMAIN conns' : k \in DOMAIN conns \/ conns'[k] = s
    BY <1>4
  <2>2. \A k \in DOMAIN conns : k \in Nat
    BY <1>4
  <2>3. ~Known(s)
    BY <1>2 DEF Known
  <2>4. QED
    BY <1>4, <2>1, <2>2, <2>3 DEF ListMoves
<1>8. Registry'
  <2>1. Registered' = Registered \cup {s}
    BY <1>4 DEF Registered
  <2>2. QED
    BY <1>1, <1>2, <1>3, <2>1 DEF Registry, TypeOK
<1>9. \A n \in Notes : Steady(n)
  BY <1>2, <1>4 DEF Steady, observations
<1>10. QED
  BY <1>5, <1>6, <1>7, <1>8, <1>9, PushesSteady DEF Inv, BaseInv

\* Taking out connections that are not open leaves the list exact.
LEMMA DisconnectExact ==
    ASSUME Inv, TypeOK', NEW gone \in SUBSET Sockets, NEW p \in [Notes -> Push],
           Disconnect(gone, p), SocketsMove,
           \A s \in gone : socket'[s] \in {"left", "closed"},
           \A s \in Sockets \ gone : socket'[s] = socket[s]
    PROVE  Registry' /\ ListMoves
<1>1. TypeOK /\ Registry
  BY DEF Inv, BaseInv
<1>2. /\ \A k \in DOMAIN conns' : \E i \in DOMAIN conns :
           k <= i /\ conns'[k] = conns[i] /\ conns[i] \notin gone
      /\ \A i \in DOMAIN conns : conns[i] \notin gone =>
           \E k \in DOMAIN conns' : conns'[k] = conns[i]
  BY <1>1, DisconnectFacts
<1>3. Registered' = Registered \ gone
  BY <1>2 DEF Registered
<1>4. \A i \in DOMAIN conns : conns[i] \in Sockets
  BY <1>1 DEF TypeOK
<1>5. Registry'
  BY <1>1, <1>3, <1>4 DEF Registry, Registered
<1>6. QED
  BY <1>2, <1>5 DEF ListMoves

\* And is no step of a push that p leaves as it was.
LEMMA DisconnectSteady ==
    ASSUME Inv, NEW gone \in SUBSET Sockets, NEW p \in [Notes -> Push],
           Disconnect(gone, p), NEW n \in Notes, p[n] = push[n],
           got'[n] = got[n], targets'[n] = targets[n], row'[n] = row[n]
    PROVE  Steady(n)
<1>1. PushMoves(n, p)
  <2>1. TypeOK
    BY DEF Inv, BaseInv
  <2>2. QED
    BY <2>1, DisconnectFacts
<1>2. QED
  BY <1>1 DEF Steady, PushMoves

LEMMA CloseStep ==
    ASSUME Inv, NEW s \in Sockets, Close(s)
    PROVE  Inv'
<1>1. TypeOK /\ Registry
  BY DEF Inv, BaseInv
<1>2. /\ UNCHANGED <<row, got, targets>>
      /\ socket[s] = "left" /\ socket' = [socket EXCEPT ![s] = "closed"]
      /\ Disconnect({s}, push)
  BY DEF Close
<1>3. push \in [Notes -> Push] /\ {s} \in SUBSET Sockets
  BY <1>1 DEF TypeOK
<1>4. /\ conns' \in Seq(Sockets) /\ NoTwice(conns')
      /\ push' \in [Notes -> Push] /\ disturbed' \in [Notes -> BOOLEAN]
  BY <1>1, <1>2, <1>3, DisconnectFacts
<1>5. TypeOK'
  BY <1>1, <1>2, <1>4 DEF TypeOK, SocketState, NoTwice
<1>6. SocketsMove
  BY <1>1, <1>2 DEF SocketsMove, Known, TypeOK
<1>7. Registry' /\ ListMoves
  <2>1. \A t \in {s} : socket'[t] \in {"left", "closed"}
    BY <1>1, <1>2 DEF TypeOK
  <2>2. \A t \in Sockets \ {s} : socket'[t] = socket[t]
    BY <1>1, <1>2 DEF TypeOK
  <2>3. QED
    BY <1>2, <1>3, <1>5, <1>6, <2>1, <2>2, DisconnectExact
<1>8. \A n \in Notes : Steady(n)
  BY <1>2, <1>3, DisconnectSteady
<1>9. QED
  BY <1>5, <1>6, <1>7, <1>8, PushesSteady DEF Inv, BaseInv

-----------------------------------------------------------------------------
(***************************************************************************)
(* The steps of a push.                                                    *)
(***************************************************************************)

\* A step of n that leaves the connections and the other pushes alone.
LEMMA OwnStep ==
    ASSUME Inv, TypeOK', UNCHANGED <<socket, conns, disturbed>>, NEW n \in Notes,
           \A m \in Notes \ {n} : /\ push'[m] = push[m] /\ got'[m] = got[m]
                                  /\ targets'[m] = targets[m] /\ row'[m] = row[m],
           NoteInv(n)'
    PROVE  Inv'
<1>1. TypeOK /\ Registry /\ \A m \in Notes : NoteInv(m)
  BY DEF Inv, BaseInv
<1>2. Registry'
  BY <1>1 DEF Registry, Registered
<1>3. ListMoves /\ SocketsMove
  BY <1>1, SameListMoves, SameSockets
<1>4. \A m \in Notes \ {n} : Steady(m)
  BY DEF Steady
<1>5. \A m \in Notes \ {n} : NoteInv(m)'
  BY <1>1, <1>3, <1>4, SteadyNote
<1>6. QED
  BY <1>2, <1>5 DEF Inv, BaseInv

LEMMA CreateStep ==
    ASSUME Inv, NEW n \in Notes, Create(n)
    PROVE  Inv'
<1>1. TypeOK /\ NoteInv(n)
  BY DEF Inv, BaseInv
<1>2. /\ UNCHANGED <<socket, conns, got, targets, disturbed>>
      /\ row[n] = "none" /\ row' = [row EXCEPT ![n] = "inserted"]
      /\ push' = [push EXCEPT ![n].pc = IF conns # <<>> THEN "enrich" ELSE "tail"]
  BY DEF Create, observations
<1>3. push[n] \in Push /\ push[n].pc = "none"
  BY <1>1, <1>2 DEF TypeOK, NoteInv, OnceInv
<1>4. push'[n] \in Push /\ push'[n].pc \in {"enrich", "tail"} /\ push'[n].dead = push[n].dead
      /\ push'[n].orphan = push[n].orphan
  BY <1>1, <1>2, <1>3 DEF TypeOK, Push
<1>5. TypeOK'
  BY <1>1, <1>2, <1>4 DEF TypeOK, RowState
<1>6. row'[n] = "inserted"
  BY <1>1, <1>2 DEF TypeOK
<1>7. OnceInv(n)' /\ DeadInv(n)'
  BY <1>1, <1>2, <1>3, <1>4, <1>6 DEF NoteInv, OnceInv, DeadInv, Known
<1>8. QuietInv(n)'
  BY <1>1, <1>2, <1>3, <1>4 DEF NoteInv, QuietInv, Known, Over
<1>9. \A m \in Notes \ {n} : push'[m] = push[m] /\ row'[m] = row[m]
  BY <1>1, <1>2 DEF TypeOK
<1>10. QED
  BY <1>2, <1>5, <1>7, <1>8, <1>9, OwnStep DEF NoteInv

LEMMA EndRequestStep ==
    ASSUME Inv, NEW n \in Notes, EndRequest(n)
    PROVE  Inv'
<1>1. TypeOK /\ NoteInv(n)
  BY DEF Inv, BaseInv
<1>2. /\ UNCHANGED <<socket, conns, got, targets, disturbed>>
      /\ push[n].pc = "tail" /\ push' = [push EXCEPT ![n].pc = "done"]
      /\ row' \in {[row EXCEPT ![n] = "unread"], [row EXCEPT ![n] = "rolledback"]}
  BY DEF EndRequest, observations
<1>3. push'[n] \in Push /\ push'[n].pc = "done" /\ push'[n].dead = push[n].dead
  <2>1. push[n] \in Push /\ push'[n] = [push[n] EXCEPT !.pc = "done"]
    BY <1>1, <1>2 DEF TypeOK
  <2>2. QED
    BY <2>1 DEF Push
<1>4. row' \in [Notes -> RowState] /\ row'[n] # "none"
  BY <1>1, <1>2 DEF TypeOK, RowState
<1>5. TypeOK'
  BY <1>1, <1>2, <1>3, <1>4 DEF TypeOK
<1>6. OnceInv(n)' /\ DeadInv(n)'
  BY <1>1, <1>2, <1>3, <1>4 DEF NoteInv, OnceInv, DeadInv, Known
<1>7. QuietInv(n)'
  BY <1>1, <1>2, <1>3 DEF NoteInv, QuietInv, Known, Over
<1>8. \A m \in Notes \ {n} : push'[m] = push[m] /\ row'[m] = row[m]
  BY <1>1, <1>2 DEF TypeOK
<1>9. QED
  BY <1>2, <1>5, <1>6, <1>7, <1>8, OwnStep DEF NoteInv

LEMMA BeginSendStep ==
    ASSUME Inv, NEW n \in Notes, BeginSend(n)
    PROVE  Inv'
<1>1. TypeOK /\ Registry /\ NoteInv(n)
  BY DEF Inv, BaseInv
<1>2. /\ UNCHANGED <<socket, conns, row, got, disturbed>>
      /\ push[n].pc = "enrich"
      /\ push' = [push EXCEPT ![n] =
           IF conns = <<>> THEN [@ EXCEPT !.pc = "tail"]
           ELSE [@ EXCEPT !.pc = "send", !.idx = 1, !.cur = conns[1]]]
      /\ targets' = [targets EXCEPT ![n] = Registered]
  BY DEF BeginSend
<1>3. /\ push[n] \in Push /\ DOMAIN conns = 1..Len(conns) /\ Len(conns) \in Nat
      /\ \A k \in DOMAIN conns : conns[k] \in Sockets
      /\ conns = <<>> \/ 1 \in DOMAIN conns
      /\ Registered \in SUBSET Sockets
  BY <1>1 DEF TypeOK, Registered
<1>4. /\ push'[n] = IF conns = <<>> THEN [push[n] EXCEPT !.pc = "tail"]
                   ELSE [push[n] EXCEPT !.pc = "send", !.idx = 1, !.cur = conns[1]]
      /\ targets'[n] = Registered
  BY <1>1, <1>2 DEF TypeOK
<1>5. /\ push'[n] \in Push /\ push'[n].dead = push[n].dead
      /\ push'[n].orphan = push[n].orphan
      /\ conns = <<>> => push'[n].pc = "tail"
      /\ conns # <<>> => /\ push'[n].pc = "send" /\ push'[n].idx = 1
                         /\ push'[n].cur = conns[1] /\ 1 \in DOMAIN conns
  <2>1. CASE conns = <<>>
    <3>1. push'[n] = [push[n] EXCEPT !.pc = "tail"]
      BY <1>4, <2>1
    <3>2. QED
      BY <1>3, <2>1, <3>1 DEF Push
  <2>2. CASE conns # <<>>
    <3>1. push'[n] = [push[n] EXCEPT !.pc = "send", !.idx = 1, !.cur = conns[1]]
      BY <1>4, <2>2
    <3>2. conns[1] \in Sockets /\ 1 \in DOMAIN conns
      BY <1>3, <2>2
    <3>3. push'[n] = [pc |-> "send", idx |-> 1, cur |-> conns[1],
                      dead |-> push[n].dead, orphan |-> push[n].orphan]
      <4>1. push[n] \in Push /\ 1 \in Nat
        BY <1>3
      <4>2. Begun(push[n], 1, conns[1]) =
              [pc |-> "send", idx |-> 1, cur |-> conns[1],
               dead |-> push[n].dead, orphan |-> push[n].orphan]
        BY <3>2, <4>1, PushBegun
      <4>3. QED
        BY <3>1, <4>2 DEF Begun
    <3>4. push[n].dead \in SUBSET Sockets /\ push[n].orphan \in BOOLEAN
      BY <1>3 DEF Push
    <3>5. QED
      BY <2>2, <3>2, <3>3, <3>4 DEF Push
  <2>3. QED
    BY <2>1, <2>2
<1>6. TypeOK'
  BY <1>1, <1>2, <1>3, <1>5 DEF TypeOK
<1>7. /\ \A s \in Registered : Known(s) /\ s \in Sockets
      /\ \A k \in DOMAIN conns : conns[k] \in Registered
      /\ \A s \in Registered : \E k \in DOMAIN conns : conns[k] = s
  BY <1>1, <1>3 DEF Registry, Known, Registered
<1>8. \A s \in Sockets : got'[n][s] = 0
  BY <1>1, <1>2 DEF NoteInv, OnceInv
<1>9. ~push[n].orphan /\ row'[n] # "none"
  BY <1>1, <1>2 DEF NoteInv, OnceInv, QuietInv
<1>10. \A s \in Sockets : Known(s)' = Known(s)
  BY <1>2 DEF Known
<1>11. OnceInv(n)'
  <2>1. \A k \in DOMAIN conns' : k > 1 => conns'[k] # conns[1]
    <3>1. \A k \in DOMAIN conns : k > 1 => 1 \in DOMAIN conns
      BY <1>3
    <3>2. \A i, j \in DOMAIN conns : conns[i] = conns[j] => i = j
      BY <1>1 DEF TypeOK
    <3>3. QED
      BY <1>2, <1>3, <3>1, <3>2
  <2>2. QED
    BY <1>2, <1>3, <1>5, <1>7, <1>8, <1>9, <1>10, <2>1 DEF OnceInv
<1>12. QuietInv(n)'
  <2>1. \A s \in targets'[n] : Known(s)'
    BY <1>4, <1>7, <1>10
  <2>2. \A s \in targets'[n] : \E k \in DOMAIN conns' : conns'[k] = s /\ k >= 1
    BY <1>2, <1>3, <1>4, <1>7
  <2>3. conns = <<>> => targets'[n] = {}
    BY <1>4 DEF Registered
  <2>4. QED
    BY <1>2, <1>5, <1>9, <2>1, <2>2, <2>3 DEF QuietInv, Over
<1>13. DeadInv(n)'
  BY <1>1, <1>2, <1>5 DEF NoteInv, DeadInv
<1>14. \A m \in Notes \ {n} : push'[m] = push[m] /\ targets'[m] = targets[m]
  BY <1>1, <1>2 DEF TypeOK
<1>15. QED
  BY <1>2, <1>6, <1>11, <1>12, <1>13, <1>14, OwnStep DEF NoteInv

\* send_json returned or raised, and the push goes on to the next connection.
Reached(n) ==
    /\ \A m \in Notes \ {n} : got'[m] = got[m]
    /\ \A s \in Sockets : s # push[n].cur => got'[n][s] = got[n][s]
    /\ got'[n][push[n].cur] <= 1
    /\ socket[push[n].cur] = "open" => got'[n][push[n].cur] > 0

\* A step to the next connection of the list.
LEMMA ToNextStep ==
    ASSUME Inv, NEW n \in Notes, NEW dead \in SUBSET Sockets, push[n].pc = "send",
           HasNext(n), ToNext(n, dead), got' \in [Notes -> [Sockets -> Nat]], Reached(n),
           \A s \in dead : socket[s] \in {"left", "closed"},
           UNCHANGED <<socket, row, targets>>
    PROVE  Inv'
<1> DEFINE i == push[n].idx + 1
           c == push[n].cur
<1>1. TypeOK /\ Registry /\ NoteInv(n)
  BY DEF Inv, BaseInv
<1>2. /\ push[n] \in Push /\ push[n].idx \in Nat
      /\ DOMAIN conns = 1..Len(conns) /\ Len(conns) \in Nat
      /\ \A k \in DOMAIN conns : conns[k] \in Sockets
      /\ \A j, k \in DOMAIN conns : conns[j] = conns[k] => j = k
      /\ targets[n] \subseteq Sockets
  BY <1>1 DEF TypeOK, Push
<1>3. ~push[n].orphan /\ i \in DOMAIN conns /\ i \in Nat /\ conns[i] \in Sockets
  BY <1>2 DEF HasNext
<1>4. /\ push' = [push EXCEPT ![n] = [@ EXCEPT !.idx = i, !.cur = conns[i], !.dead = dead]]
      /\ UNCHANGED <<conns, disturbed>>
  BY DEF ToNext
<1>5. push'[n] = [pc |-> "send", idx |-> i, cur |-> conns[i], dead |-> dead,
                  orphan |-> push[n].orphan]
  <2>1. push'[n] = [push[n] EXCEPT !.idx = i, !.cur = conns[i], !.dead = dead]
    BY <1>1, <1>4 DEF TypeOK
  <2>2. QED
    <3>1. Moved(push[n], i, conns[i], dead) =
            [pc |-> push[n].pc, idx |-> i, cur |-> conns[i], dead |-> dead,
             orphan |-> push[n].orphan]
      BY <1>2, <1>3, PushMoved
    <3>2. QED
      <4>1. push[n].pc = "send" /\ push'[n] = Moved(push[n], i, conns[i], dead)
        BY <2>1 DEF Moved
      <4>2. QED
        BY <3>1, <4>1
<1>6. push[n].orphan \in BOOLEAN
  BY <1>2 DEF Push
<1>7. push'[n] \in Push
  BY <1>3, <1>5, <1>6 DEF Push
<1>8. TypeOK'
  BY <1>1, <1>4, <1>7 DEF TypeOK
<1>9. /\ c \in Sockets /\ Known(c) /\ row[n] # "none"
      /\ \A s \in Sockets : got[n][s] <= 1 /\ (~Known(s) => got[n][s] = 0)
      /\ \A k \in DOMAIN conns : k > push[n].idx => got[n][conns[k]] = 0 /\ conns[k] # c
  BY <1>1, <1>3 DEF NoteInv, OnceInv
<1>10. \A s \in Sockets : Known(s)' = Known(s)
  BY DEF Known
<1>11. Known(conns[i])
  BY <1>1, <1>3 DEF Registry, Registered, Known
<1>12. \A s \in Sockets : got'[n][s] <= 1 /\ (~Known(s)' => got'[n][s] = 0)
  BY <1>9, <1>10 DEF Reached
<1>13. \A k \in DOMAIN conns : k > push[n].idx => got'[n][conns[k]] = 0
  BY <1>2, <1>9 DEF Reached
<1>14. OnceInv(n)'
  <2>1. got'[n][conns[i]] = 0
    BY <1>2, <1>3, <1>13
  <2>2. \A k \in DOMAIN conns : k > i => got'[n][conns[k]] = 0 /\ conns[k] # conns[i]
    BY <1>2, <1>3, <1>13
  <2>3. QED
    BY <1>3, <1>4, <1>5, <1>9, <1>10, <1>11, <1>12, <2>1, <2>2 DEF OnceInv
<1>15. QuietInv(n)'
  <2>1. \A s \in targets'[n] : Known(s)'
    BY <1>1, <1>2, <1>10 DEF NoteInv, QuietInv
  <2>2. ASSUME ~disturbed[n], NEW s \in targets[n]
        PROVE  \E k \in DOMAIN conns :
                 conns[k] = s /\ (k >= i \/ (socket[s] = "open" => got'[n][s] > 0))
    <3>1. /\ push[n].idx \in DOMAIN conns /\ conns[push[n].idx] = c
          /\ \E k \in DOMAIN conns :
               conns[k] = s /\ (k >= push[n].idx \/ (socket[s] = "open" => got[n][s] > 0))
      BY <1>1, <2>2 DEF NoteInv, QuietInv
    <3>2. PICK k \in DOMAIN conns :
             conns[k] = s /\ (k >= push[n].idx \/ (socket[s] = "open" => got[n][s] > 0))
      BY <3>1
    <3>3. CASE s = c
      BY <3>2, <3>3 DEF Reached
    <3>4. CASE s # c
      <4>1. s \in Sockets /\ got'[n][s] = got[n][s]
        BY <1>2, <3>4 DEF Reached
      <4>2. k # push[n].idx
        BY <3>1, <3>2, <3>4
      <4>3. QED
        BY <1>2, <3>2, <4>1, <4>2
    <3>5. QED
      BY <3>3, <3>4
  <2>3. QED
    BY <1>3, <1>4, <1>5, <2>1, <2>2 DEF QuietInv, Over
<1>16. DeadInv(n)'
  BY <1>5 DEF DeadInv
<1>17. \A m \in Notes \ {n} : push'[m] = push[m] /\ got'[m] = got[m]
  BY <1>1, <1>4 DEF TypeOK, Reached
<1>18. QED
  BY <1>4, <1>8, <1>14, <1>15, <1>16, <1>17, OwnStep DEF NoteInv

\* The step past the end of the list, with the removal of the failed connections.
LEMMA EndLoopStep ==
    ASSUME Inv, NEW n \in Notes, NEW dead \in SUBSET Sockets, push[n].pc = "send",
           ~HasNext(n), EndLoop(n, dead), got' \in [Notes -> [Sockets -> Nat]], Reached(n),
           \A s \in dead : socket[s] \in {"left", "closed"},
           UNCHANGED <<socket, row, targets>>
    PROVE  Inv'
<1> DEFINE p == [push EXCEPT ![n] = [NoPush EXCEPT !.pc = "tail"]]
           c == push[n].cur
<1>1. TypeOK /\ Registry /\ NoteInv(n) /\ \A m \in Notes : NoteInv(m)
  BY DEF Inv, BaseInv
<1>2. Disconnect(dead, p)
  BY DEF EndLoop
<1>3. /\ p[n] = [pc |-> "tail", idx |-> 0, cur |-> NoSocket, dead |-> {}, orphan |-> FALSE]
      /\ \A m \in Notes \ {n} : p[m] = push[m]
  BY <1>1 DEF TypeOK, NoPush
<1>4. p \in [Notes -> Push]
  <2>1. [NoPush EXCEPT !.pc = "tail"] \in Push
    BY DEF NoPush, Push
  <2>2. QED
    BY <1>1, <2>1 DEF TypeOK
<1> HIDE DEF p
<1>5. /\ conns' \in Seq(Sockets) /\ NoTwice(conns')
      /\ push' \in [Notes -> Push] /\ disturbed' \in [Notes -> BOOLEAN]
      /\ PushMoves(n, p)
  BY <1>1, <1>2, <1>4, DisconnectFacts
<1>6. TypeOK'
  BY <1>1, <1>5 DEF TypeOK, NoTwice
<1>7. SocketsMove
  BY SameSockets
<1>8. Registry' /\ ListMoves
  <2>1. \A s \in dead : socket'[s] \in {"left", "closed"}
    OBVIOUS
  <2>2. \A s \in Sockets \ dead : socket'[s] = socket[s]
    OBVIOUS
  <2>3. QED
    BY <1>2, <1>4, <1>6, <1>7, <2>1, <2>2, DisconnectExact
<1>9. ASSUME NEW m \in Notes \ {n} PROVE NoteInv(m)'
  <2>1. p[m] = push[m] /\ got'[m] = got[m] /\ targets'[m] = targets[m] /\ row'[m] = row[m]
    BY <1>3 DEF Reached
  <2>2. Steady(m)
    BY <1>2, <1>4, <2>1, DisconnectSteady
  <2>3. QED
    BY <1>1, <1>6, <1>7, <1>8, <2>2, SteadyNote
<1>10. /\ push'[n].pc = "tail" /\ push'[n].dead = {}
       /\ disturbed'[n] = disturbed[n]
  BY <1>3, <1>5 DEF PushMoves
<1>11. \A s \in Sockets : Known(s)' = Known(s)
  BY DEF Known
<1>12. targets[n] \subseteq Sockets
  BY <1>1 DEF TypeOK
<1>13. OnceInv(n)'
  <2>1. /\ Known(c) /\ row[n] # "none"
        /\ \A s \in Sockets : got[n][s] <= 1 /\ (~Known(s) => got[n][s] = 0)
    BY <1>1 DEF NoteInv, OnceInv
  <2>2. \A s \in Sockets : got'[n][s] <= 1 /\ (~Known(s)' => got'[n][s] = 0)
    BY <1>11, <2>1 DEF Reached
  <2>3. QED
    BY <1>10, <2>1, <2>2 DEF OnceInv
<1>14. QuietInv(n)'
  <2>1. \A s \in targets'[n] : Known(s)'
    BY <1>1, <1>11, <1>12 DEF NoteInv, QuietInv
  <2>2. ASSUME ~disturbed[n], NEW s \in targets[n], socket[s] = "open"
        PROVE  got'[n][s] > 0
    <3>1. /\ ~push[n].orphan
          /\ push[n].idx \in DOMAIN conns /\ conns[push[n].idx] = c
          /\ \E k \in DOMAIN conns :
               conns[k] = s /\ (k >= push[n].idx \/ got[n][s] > 0)
      BY <1>1, <2>2 DEF NoteInv, QuietInv
    <3>2. PICK k \in DOMAIN conns : conns[k] = s /\ (k >= push[n].idx \/ got[n][s] > 0)
      BY <3>1
    <3>3. CASE s = c
      BY <2>2, <3>3 DEF Reached
    <3>4. CASE s # c
      <4>1. s \in Sockets /\ got'[n][s] = got[n][s]
        BY <1>12, <3>4 DEF Reached
      <4>2. DOMAIN conns = 1..Len(conns) /\ Len(conns) \in Nat
        BY <1>1 DEF TypeOK
      <4>3. ~(k > push[n].idx)
        BY <3>1, <4>2 DEF HasNext
      <4>4. k # push[n].idx
        BY <3>1, <3>2, <3>4
      <4>5. QED
        BY <3>1, <3>2, <4>1, <4>2, <4>3, <4>4
    <3>5. QED
      BY <3>3, <3>4
  <2>3. QED
    BY <1>10, <2>1, <2>2 DEF QuietInv, Over
<1>15. DeadInv(n)'
  BY <1>10 DEF DeadInv
<1>16. QED
  BY <1>6, <1>8, <1>9, <1>13, <1>14, <1>15 DEF Inv, BaseInv, NoteInv

LEMMA AdvanceStep ==
    ASSUME Inv, NEW n \in Notes, NEW dead \in SUBSET Sockets, push[n].pc = "send",
           Advance(n, dead), got' \in [Notes -> [Sockets -> Nat]], Reached(n),
           \A s \in dead : socket[s] \in {"left", "closed"},
           UNCHANGED <<socket, row, targets>>
    PROVE  Inv'
BY ToNextStep, EndLoopStep DEF Advance

LEMMA SentStep ==
    ASSUME Inv, NEW n \in Notes, Sent(n)
    PROVE  Inv'
<1> DEFINE s == push[n].cur
<1>1. TypeOK /\ NoteInv(n)
  BY DEF Inv, BaseInv
<1>2. /\ push[n].pc = "send"
      /\ got' = IF socket[s] = "open" THEN [got EXCEPT ![n][s] = @ + 1] ELSE got
      /\ Advance(n, push[n].dead)
      /\ UNCHANGED <<socket, row, targets>>
  BY DEF Sent
<1>3. s \in Sockets /\ got[n][s] = 0
  BY <1>1, <1>2 DEF NoteInv, OnceInv
<1>4. /\ push[n].dead \in SUBSET Sockets
      /\ \A t \in push[n].dead : socket[t] \in {"left", "closed"}
  BY <1>1 DEF TypeOK, Push, NoteInv, DeadInv
<1>5. got' \in [Notes -> [Sockets -> Nat]]
  BY <1>1, <1>2, <1>3 DEF TypeOK
<1>6. Reached(n)
  BY <1>1, <1>2, <1>3 DEF TypeOK, Reached
<1>7. QED
  BY <1>2, <1>4, <1>5, <1>6, AdvanceStep

LEMMA SendFailedStep ==
    ASSUME Inv, NEW n \in Notes, SendFailed(n)
    PROVE  Inv'
<1> DEFINE s == push[n].cur
           dead == push[n].dead \cup {s}
<1>1. TypeOK /\ NoteInv(n)
  BY DEF Inv, BaseInv
<1>2. /\ push[n].pc = "send" /\ socket[s] # "open"
      /\ Advance(n, dead)
      /\ UNCHANGED <<socket, row, got, targets>>
  BY DEF SendFailed
<1>3. s \in Sockets /\ got[n][s] = 0 /\ socket[s] \in {"left", "closed"}
  BY <1>1, <1>2 DEF NoteInv, OnceInv, Known
<1>4. dead \in SUBSET Sockets /\ \A t \in dead : socket[t] \in {"left", "closed"}
  BY <1>1, <1>3 DEF TypeOK, Push, NoteInv, DeadInv
<1>5. got' \in [Notes -> [Sockets -> Nat]] /\ Reached(n)
  BY <1>1, <1>2, <1>3 DEF TypeOK, Reached
<1> HIDE DEF dead
<1>6. QED
  BY <1>2, <1>4, <1>5, AdvanceStep

-----------------------------------------------------------------------------
LEMMA NextInv == Inv /\ [Next]_vars => Inv'
<1> SUFFICES ASSUME Inv, [Next]_vars PROVE Inv'
  OBVIOUS
<1>1. ASSUME NEW s \in Sockets, Connection(s) PROVE Inv'
  BY <1>1, ConnectionStep, AuthenticatedStep, CloseStep DEF Connection
<1>2. ASSUME NEW n \in Notes, Notification(n) PROVE Inv'
  BY <1>2, CreateStep, BeginSendStep, SentStep, SendFailedStep, EndRequestStep, MarkStep
     DEF Notification
<1>3. CASE MarkAllAsRead
  BY <1>3, MarkStep
<1>4. CASE UNCHANGED vars
  <2>1. TypeOK' /\ Registry'
    BY <1>4 DEF Inv, BaseInv, TypeOK, Registry, Registered, vars
  <2>2. /\ UNCHANGED <<conns, push, observations>> /\ UNCHANGED socket
        /\ \A n \in Notes : row'[n] = "none" => row[n] = "none"
    BY <1>4 DEF vars, observations
  <2>3. QED
    BY <2>1, <2>2, SameSockets, QuietStep
<1>5. QED
  BY <1>1, <1>2, <1>3, <1>4 DEF Next

LEMMA SpecInv == Spec => []Inv
BY InitInv, NextInv, PTL DEF Spec

\* The state has its shape at every step; in particular the list that connections
\* are appended to and removed from never holds one of them twice.
THEOREM TypeCorrect == Spec => []TypeOK
<1>1. Inv => TypeOK
  BY DEF Inv, BaseInv
<1>2. QED
  BY <1>1, SpecInv, PTL

\* _connections holds every connection in its receive loop, once, and only those whose
\* handler will still take them out, whichever pushes end and drop the list.
THEOREM ListExact == Spec => []ListIsExact
<1>1. Inv => ListIsExact
  BY DEF Inv, BaseInv, TypeOK, Registry, ListIsExact
<1>2. QED
  BY <1>1, SpecInv, PTL

\* send_to_user never sends one notification to one connection twice: what moves
\* up in the list under the iterator moves away from it.
THEOREM PushedOnce == Spec => []PushedAtMostOnce
<1>1. Inv => PushedAtMostOnce
  BY DEF Inv, NoteInv, OnceInv, PushedAtMostOnce
<1>2. QED
  BY <1>1, SpecInv, PTL

\* A push during which no connection leaves the list reaches all that were in it
\* when it began and are still open, whatever connects in the meantime.
THEOREM QuietReachesAll == Spec => []QuietPushReachesAll
<1>1. Inv => QuietPushReachesAll
  BY DEF Inv, NoteInv, QuietInv, QuietPushReachesAll
<1>2. QED
  BY <1>1, SpecInv, PTL

=============================================================================
