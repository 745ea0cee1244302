------------------------------- MODULE Presence --------------------------------
(***************************************************************************)
(* Presence in a guild's hall: a hunter's client opens a socket with a     *)
(* ticket, gets a snapshot of where the others are and from then on every  *)
(* pose that reaches its node.  Poses go to the other nodes through a      *)
(* Redis channel, which loses what is sent while a node is not connected   *)
(* and otherwise keeps the order.  One guild; where a hunter stands is the *)
(* number of the move, and a chat notice is an event that is no pose.      *)
(***************************************************************************)
EXTENDS Tickets, Sequences, FiniteSets

CONSTANTS
  Sessions,     \* sockets ever opened
  MaxMoves,     \* bound: poses and notices ever sent
  Capacity,     \* of the broadcast channel (256 in the code)
  StaleAfter,   \* POSE_STALE_MS
  None          \* no pose, no node

ASSUME PresenceAssumption ==
  /\ MaxMoves \in Nat /\ StaleAfter \in Nat
  /\ Capacity \in Nat \ {0}

VARIABLES
  poses,        \* poses[n][h]: the pose of h on node n, with its session
  inbox,        \* inbox[n]: what Redis has for node n
  socket,       \* socket[i]: state, node, hunter and ticket of session i
  sending,      \* sending[i]: the pose that i's task is publishing, and its next step
  queue,        \* queue[i]: events that the broadcast channel keeps for session i
  view,         \* view[i][h]: where the client of session i shows hunter h
  moves,        \* poses and notices sent
  missed        \* history: hunters whose last event was overwritten in i's queue

vars == <<poses, inbox, socket, sending, queue, view, moves, missed, ticketVars>>

-------------------------------------------------------------------------------
(* The hub of a node.                                                      *)

\* A hunter's place, the session that sent it and when
Pose == [kind : {"pose"}, hunter : Hunters, session : Sessions, at : Nat, move : Nat]

ASSUME NoneAssumption == None \notin Pose

Unopened == [state |-> "unopened"]

Open(i) == socket[i].state = "open"

On(n) == {i \in Sessions : Open(i) /\ socket[i].node = n}

NoPoses == [h \in Hunters |-> None]

\* prune_stale_poses
Fresh(map) ==
  [h \in Hunters |->
     IF map[h] # None /\ now - map[h].at <= StaleAfter THEN map[h] ELSE None]

IsPose(e) == e.kind = "pose"

\* What handle_socket passes on as a pose: not what its own client has sent
Heard(i, e) == IsPose(e) /\ e.session # i

\* mutant: a full channel refuses the new event
KeepOld(q, e) == IF Len(q) = Capacity THEN q ELSE Append(q, e)

\* The broadcast channel drops the oldest event to make room for the newest.
Keep(q, e) == IF Len(q) = Capacity THEN Append(Tail(q), e) ELSE Append(q, e)

Overwritten(i) ==
  IF Len(queue[i]) = Capacity /\ Heard(i, Head(queue[i])) THEN {Head(queue[i]).hunter} ELSE {}

\* publish_event, under the write lock of the hub
PublishOn(n, e) ==
  /\ poses' = [poses EXCEPT ![n] =
       IF IsPose(e) THEN [Fresh(@) EXCEPT ![e.hunter] = e] ELSE Fresh(@)]
  /\ queue' = [i \in Sessions |-> IF i \in On(n) THEN Keep(queue[i], e) ELSE queue[i]]
  /\ missed' = [i \in Sessions |->
       IF i \in On(n) THEN missed[i] \cup Overwritten(i) ELSE missed[i]]

-------------------------------------------------------------------------------
(* Sockets.                                                                *)

\* POST /realtime/ticket
GetTicket(n, t, h) ==
  /\ Issue(n, t, h)
  /\ UNCHANGED <<poses, inbox, socket, sending, queue, view, moves, missed>>

\* GET /realtime/ws, for a hunter who has left the guild or a client that is gone: the
\* ticket is spent.
RefuseUpgrade(n, t) ==
  /\ \E h \in Hunters : Consume(n, t, h)
  /\ UNCHANGED <<poses, inbox, socket, sending, queue, view, moves, missed>>

\* The poses that subscribe answers with, taken under the lock under which it joins
Snapshot(n) == Fresh(poses[n])

\* ws_upgrade, subscribe and the snapshot
Connect(n, t, h, i) ==
  /\ socket[i] = Unopened
  /\ Consume(n, t, h)
  /\ socket' = [socket EXCEPT ![i] =
       [state |-> "open", node |-> n, hunter |-> h, ticket |-> t]]
  /\ poses' = [poses EXCEPT ![n] = Fresh(@)]
  /\ view' = [view EXCEPT ![i] = Snapshot(n)]
  /\ UNCHANGED <<inbox, sending, queue, moves, missed>>

\* handle_incoming_text: the pose gets its time, ...
BeginPose(i) ==
  /\ Open(i) /\ sending[i] = None
  /\ moves < MaxMoves
  /\ moves' = moves + 1
  /\ sending' = [sending EXCEPT ![i] =
       [step |-> "local",
        pose |-> [kind |-> "pose", hunter |-> socket[i].hunter, session |-> i,
                  at |-> now, move |-> moves']]]
  /\ UNCHANGED <<poses, inbox, socket, queue, view, missed, ticketVars>>

\* ... is published on the session's own node ...
PublishLocal(i) ==
  /\ sending[i] # None /\ sending[i].step = "local"
  /\ PublishOn(socket[i].node, sending[i].pose)
  /\ sending' = [sending EXCEPT ![i].step = "redis"]
  /\ UNCHANGED <<inbox, socket, view, moves, ticketVars>>

\* Redis sends an event to every node, the one it comes from included.
ToAll(n, e) ==
  inbox' = [m \in Nodes |-> Append(inbox[m], [node |-> n, event |-> e])]

\* ... and to Redis, which may not be there.
PublishRedis(i) ==
  /\ sending[i] # None /\ sending[i].step = "redis"
  /\ ToAll(socket[i].node, sending[i].pose) \/ UNCHANGED inbox
  /\ sending' = [sending EXCEPT ![i] = None]
  /\ UNCHANGED <<poses, socket, queue, view, moves, missed, ticketVars>>

\* The task of a session takes the next event (after a Lagged error it simply goes on
\* with the oldest that is left).
Deliver(i) ==
  /\ Open(i) /\ sending[i] = None
  /\ queue[i] # <<>>
  /\ LET e == Head(queue[i]) IN
       IF Heard(i, e)
         THEN /\ view' = [view EXCEPT ![i][e.hunter] = e]
              /\ missed' = [missed EXCEPT ![i] = @ \ {e.hunter}]
         ELSE UNCHANGED <<view, missed>>
  /\ queue' = [queue EXCEPT ![i] = Tail(@)]
  /\ UNCHANGED <<poses, inbox, socket, sending, moves, ticketVars>>

\* What is known of a session that is over
Forget(gone) ==
  /\ socket' = [i \in Sessions |->
       IF i \in gone THEN [socket[i] EXCEPT !.state = "closed"] ELSE socket[i]]
  /\ sending' = [i \in Sessions |-> IF i \in gone THEN None ELSE sending[i]]
  /\ queue' = [i \in Sessions |-> IF i \in gone THEN <<>> ELSE queue[i]]
  /\ view' = [i \in Sessions |-> IF i \in gone THEN NoPoses ELSE view[i]]
  /\ missed' = [i \in Sessions |-> IF i \in gone THEN {} ELSE missed[i]]

\* mutant: the hunter's pose is removed, whichever session sent it
CloseForgetsHunter(i) ==
  LET n == socket[i].node IN
  /\ Open(i) /\ sending[i] = None
  /\ poses' = [poses EXCEPT ![n][socket[i].hunter] = None]
  /\ Forget({i})
  /\ UNCHANGED <<inbox, moves, ticketVars>>

\* The socket is closed: remove_session, on this node only
Close(i) ==
  LET n == socket[i].node IN
  /\ Open(i) /\ sending[i] = None
  /\ poses' = [poses EXCEPT ![n] =
       [h \in Hunters |-> IF @[h] # None /\ @[h].session = i THEN None ELSE @[h]]]
  /\ Forget({i})
  /\ UNCHANGED <<inbox, moves, ticketVars>>

-------------------------------------------------------------------------------
(* Nodes.                                                                  *)

\* publish_chat_notice, after an item was shared in the chat
ShareItem(n) ==
  LET e == [kind |-> "notice", move |-> moves + 1] IN
  /\ moves < MaxMoves
  /\ moves' = moves + 1
  /\ PublishOn(n, e)
  /\ ToAll(n, e) \/ UNCHANGED inbox
  /\ UNCHANGED <<socket, sending, view, ticketVars>>

\* mutant: what the node has sent itself is published again
ReceiveOwn(n) ==
  /\ inbox[n] # <<>>
  /\ PublishOn(n, Head(inbox[n]).event)
  /\ inbox' = [inbox EXCEPT ![n] = Tail(@)]
  /\ UNCHANGED <<socket, sending, view, moves, ticketVars>>

\* mutant: a task for every message
ReceiveInAnyOrder(n) ==
  /\ inbox[n] # <<>>
  /\ \E k \in 1 .. Len(inbox[n]) :
       /\ IF inbox[n][k].node = n
            THEN UNCHANGED <<poses, queue, missed>>
            ELSE PublishOn(n, inbox[n][k].event)
       /\ inbox' = [inbox EXCEPT ![n] = SubSeq(@, 1, k - 1) \o SubSeq(@, k + 1, Len(@))]
  /\ UNCHANGED <<socket, sending, view, moves, ticketVars>>

\* run_redis_subscriber_loop: the next message
Receive(n) ==
  /\ inbox[n] # <<>>
  /\ IF Head(inbox[n]).node = n
       THEN UNCHANGED <<poses, queue, missed>>
       ELSE PublishOn(n, Head(inbox[n]).event)
  /\ inbox' = [inbox EXCEPT ![n] = Tail(@)]
  /\ UNCHANGED <<socket, sending, view, moves, ticketVars>>

\* The connection to Redis is lost and made again: what was sent meanwhile is gone.
Reconnect(n) ==
  /\ inbox[n] # <<>>
  /\ inbox' = [inbox EXCEPT ![n] = <<>>]
  /\ UNCHANGED <<poses, socket, sending, queue, view, moves, missed, ticketVars>>

\* The process is killed and started again.
Restart(n) ==
  /\ ForgetTickets(n)
  /\ poses' = [poses EXCEPT ![n] = NoPoses]
  /\ inbox' = [inbox EXCEPT ![n] = <<>>]
  /\ Forget(On(n))
  /\ UNCHANGED moves

Wait == Tick /\ UNCHANGED <<poses, inbox, socket, sending, queue, view, moves, missed>>

Init ==
  /\ poses = [n \in Nodes |-> NoPoses]
  /\ inbox = [n \in Nodes |-> <<>>]
  /\ socket = [i \in Sessions |-> Unopened]
  /\ sending = [i \in Sessions |-> None]
  /\ queue = [i \in Sessions |-> <<>>]
  /\ view = [i \in Sessions |-> NoPoses]
  /\ moves = 0
  /\ missed = [i \in Sessions |-> {}]
  /\ TicketsInit

Next ==
  \/ Wait
  \/ \E n \in Nodes :
       \/ \E t \in Tickets, h \in Hunters :
            \/ GetTicket(n, t, h)
            \/ \E i \in Sessions : Connect(n, t, h, i)
       \/ \E t \in Tickets : RefuseUpgrade(n, t)
       \/ ShareItem(n) \/ Receive(n) \/ Reconnect(n) \/ Restart(n)
  \/ \E i \in Sessions :
       BeginPose(i) \/ PublishLocal(i) \/ PublishRedis(i) \/ Deliver(i) \/ Close(i)

Spec == Init /\ [][Next]_vars

-------------------------------------------------------------------------------
(* Properties.                                                             *)

\* A ticket opens one socket at most, for the hunter it was issued to and on the node
\* that issued it, also when that node restarts.
TicketAdmitsOnce ==
  \A i \in Sessions : socket[i] # Unopened =>
    /\ issued[socket[i].ticket].hunter = socket[i].hunter
    /\ issued[socket[i].ticket].node = socket[i].node
    /\ \A j \in Sessions \ {i} :
         socket[j] # Unopened => socket[j].ticket # socket[i].ticket

\* A client that has taken all its events shows every hunter where its node has the
\* hunter: no pose falls between the snapshot and the subscription, and after the
\* channel has overflowed a hunter is right again with the next event.
ViewFollowsNode ==
  \A i \in Sessions : Open(i) /\ queue[i] = <<>> =>
    \A h \in Hunters \ missed[i] :
      LET p == poses[socket[i].node][h] IN
      p # None /\ p.session # i => view[i][h] = p

\* Once a socket is closed, its node has forgotten the pose it sent, and no echo of it
\* comes back through Redis.  (Other nodes show it until it is stale.)
NoGhostAtHome ==
  \A n \in Nodes, h \in Hunters :
    poses[n][h] # None /\ socket[poses[n][h].session].state = "closed" =>
      socket[poses[n][h].session].node # n

\* On every node the poses of a session replace each other in the order they were
\* sent, however they are delayed.  (Poses of two sessions of a hunter may not.)
PosesMoveForward ==
  [][\A n \in Nodes, h \in Hunters :
       /\ poses[n][h] # None /\ poses'[n][h] # None
       /\ poses'[n][h].session = poses[n][h].session
       => poses'[n][h].move >= poses[n][h].move]_vars

\* Whatever closes, a node forgets where a hunter is only when the pose is stale, when
\* the session that sent it ends there, or when the node restarts and its sockets end
\* with it: a hunter who has reconnected stays when the old session is removed
\* (remove_session), and a hunter on another node stays when a socket here closes.
PosesStayKnown ==
  [][\A n \in Nodes, h \in Hunters :
       poses[n][h] # None /\ poses'[n][h] = None =>
         \/ now - poses[n][h].at > StaleAfter
         \/ \E i \in On(n) : i = poses[n][h].session /\ ~Open(i)'
         \/ poses'[n] = NoPoses /\ \A j \in On(n) : ~Open(j)']_vars
===============================================================================
