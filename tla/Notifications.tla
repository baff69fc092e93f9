--------------------------- MODULE Notifications ---------------------------
(***************************************************************************)
(* The notifications of one user and their push over WebSockets.           *)
(*                                                                         *)
(* ConnectionManager keeps a Python list of the user's connections, which  *)
(* send_to_user walks with an iterator (an index into the list) and an     *)
(* await at every element; connections come and go at those awaits.  The   *)
(* notification row is pushed after its flush and before the commit of the *)
(* request that made it.                                                   *)
(***************************************************************************)
EXTENDS Naturals, Sequences, FiniteSets

CONSTANTS
    Notes,      \* notifications, each made by a request of its own
    Sockets,    \* WebSocket connections of the user
    NoSocket

ASSUME NotificationsAssumption == NoSocket \notin Sockets

VARIABLES
    socket,     \* life of each connection
    conns,      \* _connections[user], empty when the key is absent
    row,        \* the notifications table
    push,       \* the push of each notification
    got,        \* observation: how often each connection received each
    targets,    \* observation: the connections registered when a push began
    disturbed   \* observation: a connection left the list during a push

vars == <<socket, conns, row, push, got, targets, disturbed>>
observations == <<got, targets, disturbed>>

-----------------------------------------------------------------------------
\* accepted: waiting for the token; open: registered, in the receive loop;
\* left: the client is gone and the handler has not noticed; closed: it has.
SocketState == {"none", "accepted", "open", "left", "closed"}

\* inserted: flushed in a transaction that is still open.
RowState == {"none", "inserted", "unread", "read", "rolledback"}

Push == [pc   : {"none", "enrich", "send", "tail", "done"},
         idx  : Nat,                       \* the iterator's position
         cur  : Sockets \cup {NoSocket},   \* the connection it sends to
         dead : SUBSET Sockets,            \* connections whose send failed
         orphan : BOOLEAN]                 \* its list was emptied and dropped

NoPush == [pc |-> "none", idx |-> 0, cur |-> NoSocket, dead |-> {}, orphan |-> FALSE]

Registered == {conns[i] : i \in DOMAIN conns}

\* The shape of the state; no connection is registered twice.
TypeOK ==
    /\ socket \in [Sockets -> SocketState]
    /\ conns \in Seq(Sockets)
    /\ \A i, j \in DOMAIN conns : conns[i] = conns[j] => i = j
    /\ row \in [Notes -> RowState]
    /\ push \in [Notes -> Push]
    /\ got \in [Notes -> [Sockets -> Nat]]
    /\ targets \in [Notes -> SUBSET Sockets]
    /\ disturbed \in [Notes -> BOOLEAN]

Init ==
    /\ socket = [s \in Sockets |-> "none"]
    /\ conns = <<>>
    /\ row = [n \in Notes |-> "none"]
    /\ push = [n \in Notes |-> NoPush]
    /\ got = [n \in Notes |-> [s \in Sockets |-> 0]]
    /\ targets = [n \in Notes |-> {}]
    /\ disturbed = [n \in Notes |-> FALSE]

-----------------------------------------------------------------------------
(***************************************************************************)
(* ConnectionManager.                                                      *)
(***************************************************************************)

\* mutant: insert(0, ws)
ConnectFirst(s) == conns' = <<s>> \o conns
Connect(s) == conns' = Append(conns, s)

\* The list without gone: the others move up, in their order.
Without(gone) ==
    LET kept == {i \in DOMAIN conns : conns[i] \notin gone}
        rank == [i \in kept |-> Cardinality({j \in kept : j <= i})] IN
    [k \in 1..Cardinality(kept) |-> conns[CHOOSE i \in kept : rank[i] = k]]

\* disconnect() of every member of gone.  An emptied list is dropped from the
\* dict: a push that is walking it finds no further element, and a connection
\* made later goes to another list.  p is the value of push apart from that.
Disconnect(gone, p) ==
    LET left == Without(gone)
        walking(n) == push[n].pc = "send" /\ p[n].pc = "send" IN
    /\ conns' = left
    /\ push' = IF left = <<>>
               THEN [n \in Notes |-> IF walking(n) THEN [p[n] EXCEPT !.orphan = TRUE]
                                                   ELSE p[n]]
               ELSE p
    /\ disturbed' = IF left = conns THEN disturbed
                    ELSE [n \in Notes |-> disturbed[n] \/ walking(n)]

-----------------------------------------------------------------------------
(***************************************************************************)
(* A connection: /ws/notifications.                                        *)
(***************************************************************************)

Accept(s) ==
    /\ socket[s] = "none"
    /\ socket' = [socket EXCEPT ![s] = "accepted"]
    /\ UNCHANGED <<conns, row, push, observations>>

\* No token within the time limit, or not a valid one: closed with 4001.
RefuseConnection(s) ==
    /\ socket[s] = "accepted"
    /\ socket' = [socket EXCEPT ![s] = "closed"]
    /\ UNCHANGED <<conns, row, push, observations>>

Authenticated(s) ==
    /\ socket[s] = "accepted"
    /\ socket' = [socket EXCEPT ![s] = "open"]
    /\ Connect(s)
    /\ UNCHANGED <<row, push, observations>>

\* The client goes away.
Leave(s) ==
    /\ socket[s] = "open"
    /\ socket' = [socket EXCEPT ![s] = "left"]
    /\ UNCHANGED <<conns, row, push, observations>>

\* mutant: the handler ends without disconnect().
CloseOnly(s) ==
    /\ socket[s] = "left"
    /\ socket' = [socket EXCEPT ![s] = "closed"]
    /\ UNCHANGED <<conns, row, push, observations>>

\* WebSocketDisconnect reaches the receive loop; its finally disconnects.
Close(s) ==
    /\ socket[s] = "left"
    /\ socket' = [socket EXCEPT ![s] = "closed"]
    /\ Disconnect({s}, push)
    /\ UNCHANGED <<row, got, targets>>

-----------------------------------------------------------------------------
(***************************************************************************)
(* A notification: create_notification, notify_followers_new_route.        *)
(***************************************************************************)

\* The row is flushed; an online user gets a push after the row is enriched.
Create(n) ==
    /\ row[n] = "none"
    /\ row' = [row EXCEPT ![n] = "inserted"]
    /\ push' = [push EXCEPT ![n].pc = IF conns # <<>> THEN "enrich" ELSE "tail"]
    /\ UNCHANGED <<socket, conns, observations>>

\* mutant: a user who has left in the meantime is waited for.
BeginSendOnline(n) ==
    /\ push[n].pc = "enrich"
    /\ conns # <<>>
    /\ push' = [push EXCEPT ![n] = [@ EXCEPT !.pc = "send", !.idx = 1, !.cur = conns[1]]]
    /\ targets' = [targets EXCEPT ![n] = Registered]
    /\ UNCHANGED <<socket, conns, row, got, disturbed>>

BeginSend(n) ==
    /\ push[n].pc = "enrich"
    /\ push' = [push EXCEPT ![n] =
         IF conns = <<>> THEN [@ EXCEPT !.pc = "tail"]
         ELSE [@ EXCEPT !.pc = "send", !.idx = 1, !.cur = conns[1]]]
    /\ targets' = [targets EXCEPT ![n] = Registered]
    /\ UNCHANGED <<socket, conns, row, got, disturbed>>

\* The iterator looks at the next position of the list as it is now.
HasNext(n) == ~push[n].orphan /\ push[n].idx < Len(conns)

ToNext(n, dead) ==
    LET i == push[n].idx + 1 IN
    /\ push' = [push EXCEPT ![n] = [@ EXCEPT !.idx = i, !.cur = conns[i], !.dead = dead]]
    /\ UNCHANGED <<conns, disturbed>>

\* Past the end of the list the failed connections are removed.
EndLoop(n, dead) == Disconnect(dead, [push EXCEPT ![n] = [NoPush EXCEPT !.pc = "tail"]])

\* mutant: a failed send ends the loop at once.
AdvanceOrStop(n, dead) ==
    IF HasNext(n) /\ dead = {} THEN ToNext(n, dead) ELSE EndLoop(n, dead)

\* send_json returned or raised.
Advance(n, dead) == IF HasNext(n) THEN ToNext(n, dead) ELSE EndLoop(n, dead)

\* A message to a client that has left may be lost without an error.
Sent(n) ==
    LET s == push[n].cur IN
    /\ push[n].pc = "send"
    /\ got' = IF socket[s] = "open" THEN [got EXCEPT ![n][s] = @ + 1] ELSE got
    /\ Advance(n, push[n].dead)
    /\ UNCHANGED <<socket, row, targets>>

SendFailed(n) ==
    LET s == push[n].cur IN
    /\ push[n].pc = "send"
    /\ socket[s] # "open"
    /\ Advance(n, push[n].dead \cup {s})
    /\ UNCHANGED <<socket, row, got, targets>>

\* The rest of the request, and its commit or rollback.
EndRequest(n) ==
    /\ push[n].pc = "tail"
    /\ push' = [push EXCEPT ![n].pc = "done"]
    /\ row' \in {[row EXCEPT ![n] = "unread"], [row EXCEPT ![n] = "rolledback"]}
    /\ UNCHANGED <<socket, conns, observations>>

\* mark_as_read, for a row the statement sees; anything else is a 404.
MarkAsRead(n) ==
    /\ row[n] = "unread"
    /\ row' = [row EXCEPT ![n] = "read"]
    /\ UNCHANGED <<socket, conns, push, observations>>

\* mark_all_as_read
MarkAllAsRead ==
    /\ row' = [n \in Notes |-> IF row[n] = "unread" THEN "read" ELSE row[n]]
    /\ UNCHANGED <<socket, conns, push, observations>>

Connection(s) ==
    Accept(s) \/ RefuseConnection(s) \/ Authenticated(s) \/ Leave(s) \/ Close(s)

Notification(n) ==
    Create(n) \/ BeginSend(n) \/ Sent(n) \/ SendFailed(n) \/ EndRequest(n) \/ MarkAsRead(n)

Next ==
    \/ \E s \in Sockets : Connection(s)
    \/ \E n \in Notes : Notification(n)
    \/ MarkAllAsRead

Spec == Init /\ [][Next]_vars

\* Requests go on, sends return or raise, handlers notice a closed connection.
FairSpec ==
    /\ Spec
    /\ \A n \in Notes :
         /\ WF_vars(BeginSend(n))
         /\ WF_vars(Sent(n) \/ SendFailed(n))
         /\ WF_vars(EndRequest(n))
    /\ \A s \in Sockets : WF_vars(Close(s))

-----------------------------------------------------------------------------
(***************************************************************************)
(* Properties.                                                             *)
(***************************************************************************)

Over(n) == push[n].pc \in {"tail", "done"}

\* send_to_user: "send to all connections of the user".  A connection that was
\* registered when the push began and is still open at its end has it.
PushReachesAll ==
    \A n \in Notes : Over(n) =>
        \A s \in targets[n] : socket[s] = "open" => got[n][s] > 0

\* It holds of a push during which no connection left the list.
QuietPushReachesAll ==
    \A n \in Notes : Over(n) /\ ~disturbed[n] =>
        \A s \in targets[n] : socket[s] = "open" => got[n][s] > 0

\* No connection receives a notification twice, though the list it is walked on
\* changes at every await.
PushedAtMostOnce == \A s \in Sockets, n \in Notes : got[n][s] <= 1

\* A connection in the list is there once and is one whose handler will take it out
\* again, and an open one is in the list: neither a push that finds it dead nor a
\* list that is dropped and made anew loses a connection or keeps one.
ListIsExact ==
    /\ \A i, j \in DOMAIN conns : conns[i] = conns[j] => i = j
    /\ \A s \in Registered : socket[s] \in {"open", "left"}
    /\ \A s \in Sockets : socket[s] = "open" => s \in Registered

\* A request that pushes comes to its commit or rollback, although connections
\* are added to and taken from the list while it is walked.
PushesEnd == \A n \in Notes : row[n] = "inserted" ~> row[n] # "inserted"

=============================================================================
