---------------------------- MODULE Presence_proofs ----------------------------
(***************************************************************************)
(* Proofs about Presence and its Tickets, for any number of nodes,         *)
(* hunters, sockets and events and any capacity of the channels.           *)
(***************************************************************************)
EXTENDS Presence, SequenceTheorems, TLAPS

-------------------------------------------------------------------------------
(* Types.                                                                  *)

Notice == [kind : {"notice"}, move : Nat]

Event == Pose \cup Notice

Message == [node : Nodes, event : Event]

Opened == [state : {"open", "closed"}, node : Nodes, hunter : Hunters, ticket : Tickets]

Sending == [step : {"local", "redis"}, pose : Pose]

Ticket == [hunter : Hunters, expires : Int] \cup {NoTicket}

TypeInv ==
  /\ now \in Nat /\ moves \in Nat
  /\ store \in [Nodes -> [Tickets -> Ticket]]
  /\ issued \in [Tickets -> [hunter : Hunters, node : Nodes] \cup {NoTicket}]
  /\ poses \in [Nodes -> [Hunters -> Pose \cup {None}]]
  /\ inbox \in [Nodes -> Seq(Message)]
  /\ socket \in [Sessions -> Opened \cup {Unopened}]
  /\ sending \in [Sessions -> Sending \cup {None}]
  /\ queue \in [Sessions -> Seq(Event)]
  /\ view \in [Sessions -> [Hunters -> Pose \cup {None}]]
  /\ missed \in [Sessions -> SUBSET Hunters]
  /\ \A i \in Sessions : sending[i] # None => Open(i)

\* Fresh poses are some of the poses.
LEMMA FreshPoses ==
  ASSUME NEW map \in [Hunters -> Pose \cup {None}]
  PROVE  /\ Fresh(map) \in [Hunters -> Pose \cup {None}]
         /\ \A h \in Hunters : Fresh(map)[h] \in {map[h], None}
  BY DEF Fresh

\* A pose is no notice.
LEMMA PosesAreEvents ==
  /\ \A e \in Event : IsPose(e) <=> e \in Pose
  /\ \A e \in Pose : e \in Event /\ IsPose(e) /\ e.hunter \in Hunters /\ e.session \in Sessions
  BY DEF Event, Pose, Notice, IsPose

\* A socket that has been opened is of a hunter on a node.
LEMMA OpenSocket ==
  ASSUME TypeInv, NEW i \in Sessions
  PROVE  /\ socket[i] # Unopened => socket[i] \in Opened
         /\ Open(i) => socket[i] # Unopened
  BY DEF TypeInv, Opened, Unopened, Open

\* What is kept of a queue and a new event: the event at the end, and before it the
\* queue with or without its head.
LEMMA KeepProperties ==
  ASSUME NEW q \in Seq(Event), NEW e \in Event
  PROVE  LET k == Keep(q, e)
             d == IF Len(q) = Capacity THEN 1 ELSE 0
         IN /\ k \in Seq(Event)
            /\ Len(k) = Len(q) + 1 - d /\ Len(k) \in Nat \ {0}
            /\ k[Len(k)] = e
            /\ \A j \in 1 .. Len(k) - 1 : j + d \in 1 .. Len(q) /\ k[j] = q[j + d]
            /\ Len(q) = Capacity => Len(q) # 0
<1>1. Len(q) \in Nat /\ Capacity \in Nat /\ Capacity # 0
  BY PresenceAssumption
<1>2. CASE Len(q) = Capacity
  <2>1. Tail(q) \in Seq(Event) /\ Len(Tail(q)) = Len(q) - 1
        /\ \A j \in 1 .. Len(q) - 1 : Tail(q)[j] = q[j + 1]
    BY <1>1, <1>2
  <2>2. Keep(q, e) = Append(Tail(q), e)
    BY <1>2 DEF Keep
  <2> QED BY <1>1, <1>2, <2>1, <2>2, AppendProperties
<1>3. CASE Len(q) # Capacity
  <2>1. Keep(q, e) = Append(q, e)
    BY <1>3 DEF Keep
  <2> QED BY <1>1, <1>3, <2>1, AppendProperties
<1> QED BY <1>2, <1>3

\* publish_event on node n: its poses go stale or stay, but for the one published; the
\* queues of its sessions keep the event, and what they lose is missed.
LEMMA Published ==
  ASSUME TypeInv, NEW n \in Nodes, NEW e \in Event, PublishOn(n, e)
  PROVE  /\ poses' \in [Nodes -> [Hunters -> Pose \cup {None}]]
         /\ \A m \in Nodes, h \in Hunters :
              IF m = n /\ IsPose(e) /\ h = e.hunter
                THEN poses'[m][h] = e
                ELSE poses'[m][h] \in {poses[m][h], None}
         /\ queue' \in [Sessions -> Seq(Event)]
         /\ missed' \in [Sessions -> SUBSET Hunters]
<1>1. poses[n] \in [Hunters -> Pose \cup {None}]
  BY DEF TypeInv
<1>2. Fresh(poses[n]) \in [Hunters -> Pose \cup {None}]
      /\ \A h \in Hunters : Fresh(poses[n])[h] \in {poses[n][h], None}
  BY <1>1, FreshPoses
<1> DEFINE new == IF IsPose(e) THEN [Fresh(poses[n]) EXCEPT ![e.hunter] = e] ELSE Fresh(poses[n])
<1>3. new \in [Hunters -> Pose \cup {None}]
      /\ \A h \in Hunters : IF IsPose(e) /\ h = e.hunter THEN new[h] = e
                                                        ELSE new[h] \in {poses[n][h], None}
  <2>1. CASE IsPose(e)
    <3>1. e \in Pose /\ e.hunter \in Hunters
      BY <2>1, PosesAreEvents
    <3> QED BY <1>2, <2>1, <3>1
  <2>2. CASE ~IsPose(e)
    BY <1>2, <2>2
  <2> QED BY <2>1, <2>2
<1>4. poses' = [poses EXCEPT ![n] = new]
  BY DEF PublishOn
<1> HIDE DEF new
<1>5. /\ poses' \in [Nodes -> [Hunters -> Pose \cup {None}]]
      /\ \A m \in Nodes : poses'[m] = IF m = n THEN new ELSE poses[m]
  BY <1>3, <1>4 DEF TypeInv
<1>6. queue' \in [Sessions -> Seq(Event)]
  BY KeepProperties DEF PublishOn, TypeInv
<1>7. missed' \in [Sessions -> SUBSET Hunters]
  <2>1. ASSUME NEW i \in Sessions PROVE Overwritten(i) \subseteq Hunters
    <3>1. CASE Len(queue[i]) = Capacity /\ Heard(i, Head(queue[i]))
      <4>1. queue[i] \in Seq(Event) /\ queue[i] # <<>>
        BY <3>1, PresenceAssumption DEF TypeInv
      <4>2. Head(queue[i]) \in Event
        BY <4>1
      <4> QED BY <3>1, <4>2, PosesAreEvents DEF Overwritten, Heard
    <3>2. CASE ~(Len(queue[i]) = Capacity /\ Heard(i, Head(queue[i])))
      BY <3>2 DEF Overwritten
    <3> QED BY <3>1, <3>2
  <2> QED BY <2>1 DEF PublishOn, TypeInv
<1> QED BY <1>3, <1>5, <1>6, <1>7

\* What is sent through Redis ends up behind what is there, or not at all.
LEMMA Sent ==
  ASSUME TypeInv, NEW n \in Nodes, NEW e \in Event, ToAll(n, e) \/ UNCHANGED inbox
  PROVE  /\ inbox' \in [Nodes -> Seq(Message)]
         /\ \A m \in Nodes : inbox'[m] \in {inbox[m], Append(inbox[m], [node |-> n, event |-> e])}
<1>1. [node |-> n, event |-> e] \in Message
  BY DEF Message
<1>2. \A m \in Nodes : Append(inbox[m], [node |-> n, event |-> e]) \in Seq(Message)
  BY <1>1 DEF TypeInv
<1>3. CASE ToAll(n, e)
  BY <1>2, <1>3 DEF ToAll
<1>4. CASE UNCHANGED inbox
  BY <1>4 DEF TypeInv
<1> QED BY <1>3, <1>4

\* The tickets have their types, whatever is done with them.
TicketTypes ==
  /\ now \in Nat
  /\ store \in [Nodes -> [Tickets -> Ticket]]
  /\ issued \in [Tickets -> [hunter : Hunters, node : Nodes] \cup {NoTicket}]

\* The tickets of every node keep their type.
LEMMA TicketTypeStep ==
  ASSUME TicketTypes,
         \/ Tick \/ UNCHANGED ticketVars
         \/ \E n \in Nodes : ForgetTickets(n)
         \/ \E n \in Nodes, t \in Tickets, h \in Hunters : Issue(n, t, h) \/ Consume(n, t, h)
  PROVE  TicketTypes'
<1>1. ASSUME NEW n \in Nodes
      PROVE  Unexpired(store[n]) \in [Tickets -> Ticket]
  BY DEF Unexpired, TicketTypes, Ticket
<1>2. CASE Tick
  BY <1>2 DEF Tick, TicketTypes
<1>3. CASE UNCHANGED ticketVars
  BY <1>3 DEF ticketVars, TicketTypes
<1>4. ASSUME NEW n \in Nodes, ForgetTickets(n) PROVE TicketTypes'
  BY <1>4 DEF ForgetTickets, TicketTypes, Ticket
<1>5. ASSUME NEW n \in Nodes, NEW t \in Tickets, NEW h \in Hunters, Issue(n, t, h)
      PROVE  TicketTypes'
  <2>1. [hunter |-> h, expires |-> now + TicketLife] \in Ticket
    BY TicketsAssumption DEF Ticket, TicketTypes
  <2>2. store' = [store EXCEPT ![n] =
          [Unexpired(store[n]) EXCEPT ![t] = [hunter |-> h, expires |-> now + TicketLife]]]
    BY <1>5 DEF Issue
  <2>3. store' \in [Nodes -> [Tickets -> Ticket]]
    BY <1>1, <2>1, <2>2 DEF TicketTypes
  <2> QED BY <1>5, <2>3 DEF Issue, TicketTypes
<1>6. ASSUME NEW n \in Nodes, NEW t \in Tickets, NEW h \in Hunters, Consume(n, t, h)
      PROVE  TicketTypes'
  <2>1. NoTicket \in Ticket
    BY DEF Ticket
  <2>2. store' = [store EXCEPT ![n] = [Unexpired(store[n]) EXCEPT ![t] = NoTicket]]
    BY <1>6 DEF Consume
  <2>3. store' \in [Nodes -> [Tickets -> Ticket]]
    BY <1>1, <2>1, <2>2 DEF TicketTypes
  <2> QED BY <1>6, <2>3 DEF Consume, TicketTypes
<1> QED BY <1>2, <1>3, <1>4, <1>5, <1>6

\* What a closed socket leaves behind has its type.
LEMMA ForgetTypes ==
  ASSUME TypeInv, NEW gone \in SUBSET Sessions, \A i \in gone : Open(i), Forget(gone)
  PROVE  /\ socket' \in [Sessions -> Opened \cup {Unopened}]
         /\ sending' \in [Sessions -> Sending \cup {None}]
         /\ queue' \in [Sessions -> Seq(Event)]
         /\ view' \in [Sessions -> [Hunters -> Pose \cup {None}]]
         /\ missed' \in [Sessions -> SUBSET Hunters]
         /\ \A i \in Sessions : sending'[i] # None => Open(i)'
<1>1. ASSUME NEW i \in gone PROVE [socket[i] EXCEPT !.state = "closed"] \in Opened
  BY OpenSocket DEF Opened
<1>2. ASSUME NEW i \in Sessions, sending'[i] # None PROVE Open(i)'
  BY <1>2 DEF Forget, TypeInv, Open
<1> QED BY <1>1, <1>2 DEF Forget, TypeInv, NoPoses

\* Every step keeps the types.
LEMMA TypeStep == TypeInv /\ [Next]_vars => TypeInv'
<1> SUFFICES ASSUME TypeInv, [Next]_vars PROVE TypeInv'
  OBVIOUS
<1>0. TicketTypes
  BY DEF TicketTypes, TypeInv
<1> DEFINE Rest ==
      /\ moves \in Nat
      /\ poses \in [Nodes -> [Hunters -> Pose \cup {None}]]
      /\ inbox \in [Nodes -> Seq(Message)]
      /\ socket \in [Sessions -> Opened \cup {Unopened}]
      /\ sending \in [Sessions -> Sending \cup {None}]
      /\ queue \in [Sessions -> Seq(Event)]
      /\ view \in [Sessions -> [Hunters -> Pose \cup {None}]]
      /\ missed \in [Sessions -> SUBSET Hunters]
      /\ \A i \in Sessions : sending[i] # None => Open(i)
<1>R. Rest
  BY DEF TypeInv
<1>S. SUFFICES TicketTypes' /\ Rest'
  BY DEF TypeInv, TicketTypes
<1>1. CASE Wait
  BY <1>0, <1>R, <1>1, TicketTypeStep DEF Wait, Open
<1>2. ASSUME NEW n \in Nodes, NEW t \in Tickets, NEW h \in Hunters, GetTicket(n, t, h)
      PROVE  TicketTypes' /\ Rest'
  BY <1>0, <1>R, <1>2, TicketTypeStep DEF GetTicket, Open
<1>3. ASSUME NEW n \in Nodes, NEW t \in Tickets, RefuseUpgrade(n, t)
      PROVE  TicketTypes' /\ Rest'
  BY <1>0, <1>R, <1>3, TicketTypeStep DEF RefuseUpgrade, Open
<1>4. ASSUME NEW n \in Nodes, NEW t \in Tickets, NEW h \in Hunters, NEW i \in Sessions,
             Connect(n, t, h, i)
      PROVE  TicketTypes' /\ Rest'
  <2>1. TicketTypes'
    BY <1>0, <1>4, TicketTypeStep DEF Connect
  <2>2. Fresh(poses[n]) \in [Hunters -> Pose \cup {None}]
    BY <1>R, FreshPoses
  <2>3. poses' \in [Nodes -> [Hunters -> Pose \cup {None}]]
        /\ view' \in [Sessions -> [Hunters -> Pose \cup {None}]]
    BY <1>4, <1>R, <2>2 DEF Connect, Snapshot
  <2>4. [state |-> "open", node |-> n, hunter |-> h, ticket |-> t] \in Opened
    BY DEF Opened
  <2>5. socket' \in [Sessions -> Opened \cup {Unopened}]
    BY <1>4, <1>R, <2>4 DEF Connect
  <2>6. \A j \in Sessions : sending'[j] # None => Open(j)'
    BY <1>4, <1>R, OpenSocket DEF Connect, Open, Unopened
  <2> QED BY <1>4, <1>R, <2>1, <2>3, <2>5, <2>6 DEF Connect
<1>5. ASSUME NEW i \in Sessions, BeginPose(i) PROVE TicketTypes' /\ Rest'
  <2>1. socket[i] \in Opened
    BY <1>5, OpenSocket DEF BeginPose
  <2>2. moves' \in Nat
    BY <1>5, <1>R DEF BeginPose
  <2>3. [kind |-> "pose", hunter |-> socket[i].hunter, session |-> i, at |-> now, move |-> moves']
          \in Pose
    BY <1>0, <2>1, <2>2 DEF Pose, Opened, TicketTypes
  <2>4. sending' \in [Sessions -> Sending \cup {None}]
    BY <1>5, <1>R, <2>3 DEF BeginPose, Sending
  <2>5. \A j \in Sessions : sending'[j] # None => Open(j)'
    BY <1>5, <1>R DEF BeginPose, Open
  <2> QED BY <1>0, <1>5, <1>R, <2>2, <2>4, <2>5, TicketTypeStep DEF BeginPose
<1>6. ASSUME NEW i \in Sessions, PublishLocal(i) PROVE TicketTypes' /\ Rest'
  <2>1. sending[i] \in Sending /\ sending[i].pose \in Event
    BY <1>6, <1>R, PosesAreEvents DEF PublishLocal, Sending
  <2>2. socket[i].node \in Nodes
    BY <1>6, <1>R, OpenSocket DEF PublishLocal, Opened
  <2>3. PublishOn(socket[i].node, sending[i].pose)
    BY <1>6 DEF PublishLocal
  <2>4. /\ poses' \in [Nodes -> [Hunters -> Pose \cup {None}]]
        /\ queue' \in [Sessions -> Seq(Event)]
        /\ missed' \in [Sessions -> SUBSET Hunters]
    BY <2>1, <2>2, <2>3, Published
  <2>5. [sending[i] EXCEPT !.step = "redis"] \in Sending
    BY <2>1 DEF Sending
  <2>6. sending' = [sending EXCEPT ![i] = [sending[i] EXCEPT !.step = "redis"]]
    BY <1>6 DEF PublishLocal
  <2>7. sending' \in [Sessions -> Sending \cup {None}]
    BY <2>5, <2>6, <1>R
  <2>8. \A j \in Sessions : sending'[j] # None => Open(j)'
    BY <2>6, <1>6, <1>R DEF PublishLocal, Open
  <2> QED BY <1>0, <1>6, <1>R, <2>4, <2>7, <2>8, TicketTypeStep DEF PublishLocal
<1>7. ASSUME NEW i \in Sessions, PublishRedis(i) PROVE TicketTypes' /\ Rest'
  <2>1. sending[i].pose \in Event /\ socket[i].node \in Nodes
    BY <1>7, <1>R, PosesAreEvents, OpenSocket DEF PublishRedis, Sending, Opened
  <2>2. inbox' \in [Nodes -> Seq(Message)]
    BY <1>7, <1>R, <2>1, Sent DEF PublishRedis
  <2>3. sending' \in [Sessions -> Sending \cup {None}]
        /\ \A j \in Sessions : sending'[j] # None => Open(j)'
    BY <1>7, <1>R DEF PublishRedis, Open
  <2> QED BY <1>0, <1>7, <1>R, <2>2, <2>3, TicketTypeStep DEF PublishRedis
<1>8. ASSUME NEW i \in Sessions, Deliver(i) PROVE TicketTypes' /\ Rest'
  <2>1. queue[i] \in Seq(Event) /\ queue[i] # <<>>
    BY <1>8, <1>R DEF Deliver
  <2>2. Head(queue[i]) \in Event /\ Tail(queue[i]) \in Seq(Event)
    BY <2>1
  <2>3. queue' \in [Sessions -> Seq(Event)]
    BY <1>8, <1>R, <2>2 DEF Deliver
  <2>4. view' \in [Sessions -> [Hunters -> Pose \cup {None}]]
        /\ missed' \in [Sessions -> SUBSET Hunters]
    <3>1. CASE Heard(i, Head(queue[i]))
      <4>1. Head(queue[i]) \in Pose /\ Head(queue[i]).hunter \in Hunters
        BY <2>2, <3>1, PosesAreEvents DEF Heard
      <4>2. /\ view' = [view EXCEPT ![i] = [view[i] EXCEPT ![Head(queue[i]).hunter] = Head(queue[i])]]
            /\ missed' = [missed EXCEPT ![i] = missed[i] \ {Head(queue[i]).hunter}]
        BY <1>8, <3>1 DEF Deliver
      <4>3. [view[i] EXCEPT ![Head(queue[i]).hunter] = Head(queue[i])] \in [Hunters -> Pose \cup {None}]
        BY <1>R, <4>1
      <4> QED BY <1>R, <4>2, <4>3
    <3>2. CASE ~Heard(i, Head(queue[i]))
      BY <1>8, <1>R, <3>2 DEF Deliver
    <3> QED BY <3>1, <3>2
  <2> QED BY <1>0, <1>8, <1>R, <2>3, <2>4, TicketTypeStep DEF Deliver, Open
<1>9. ASSUME NEW i \in Sessions, Close(i) PROVE TicketTypes' /\ Rest'
  <2>1. socket[i].node \in Nodes
    BY <1>9, OpenSocket DEF Close, Opened
  <2>2. poses' \in [Nodes -> [Hunters -> Pose \cup {None}]]
    BY <1>9, <1>R, <2>1 DEF Close
  <2>3. Forget({i}) /\ {i} \in SUBSET Sessions /\ \A j \in {i} : Open(j)
    BY <1>9 DEF Close
  <2> QED BY <1>0, <1>9, <1>R, <2>2, <2>3, ForgetTypes, TicketTypeStep DEF Close
<1>10. ASSUME NEW n \in Nodes, ShareItem(n) PROVE TicketTypes' /\ Rest'
  <2>1. [kind |-> "notice", move |-> moves + 1] \in Event
    BY <1>R DEF Event, Notice
  <2>2. PublishOn(n, [kind |-> "notice", move |-> moves + 1])
    BY <1>10 DEF ShareItem
  <2>3. /\ poses' \in [Nodes -> [Hunters -> Pose \cup {None}]]
        /\ queue' \in [Sessions -> Seq(Event)]
        /\ missed' \in [Sessions -> SUBSET Hunters]
    BY <2>1, <2>2, Published
  <2>4. inbox' \in [Nodes -> Seq(Message)]
    BY <1>10, <1>R, <2>1, Sent DEF ShareItem
  <2> QED BY <1>0, <1>10, <1>R, <2>3, <2>4, TicketTypeStep DEF ShareItem, Open
<1>11. ASSUME NEW n \in Nodes, Receive(n) PROVE TicketTypes' /\ Rest'
  <2>1. inbox[n] \in Seq(Message) /\ inbox[n] # <<>>
    BY <1>11, <1>R DEF Receive
  <2>a. Head(inbox[n]) \in Message /\ Tail(inbox[n]) \in Seq(Message)
    BY <2>1
  <2>2. Head(inbox[n]).event \in Event /\ Tail(inbox[n]) \in Seq(Message)
    BY <2>a DEF Message
  <2>3. /\ poses' \in [Nodes -> [Hunters -> Pose \cup {None}]]
        /\ queue' \in [Sessions -> Seq(Event)]
        /\ missed' \in [Sessions -> SUBSET Hunters]
    BY <1>11, <1>R, <2>2, Published DEF Receive
  <2>4. inbox' \in [Nodes -> Seq(Message)]
    BY <1>11, <1>R, <2>2 DEF Receive
  <2> QED BY <1>0, <1>11, <1>R, <2>3, <2>4, TicketTypeStep DEF Receive, Open
<1>12. ASSUME NEW n \in Nodes, Reconnect(n) PROVE TicketTypes' /\ Rest'
  BY <1>0, <1>12, <1>R, TicketTypeStep DEF Reconnect, Open
<1>13. ASSUME NEW n \in Nodes, Restart(n) PROVE TicketTypes' /\ Rest'
  <2>1. Forget(On(n)) /\ On(n) \in SUBSET Sessions /\ \A j \in On(n) : Open(j)
    BY <1>13 DEF Restart, On
  <2>2. poses' \in [Nodes -> [Hunters -> Pose \cup {None}]] /\ inbox' \in [Nodes -> Seq(Message)]
    BY <1>13, <1>R DEF Restart, NoPoses
  <2> QED BY <1>0, <1>13, <1>R, <2>1, <2>2, ForgetTypes, TicketTypeStep DEF Restart
<1>14. CASE UNCHANGED vars
  BY <1>0, <1>14, <1>R, TicketTypeStep DEF vars, Open
<1> QED BY <1>1, <1>2, <1>3, <1>4, <1>5, <1>6, <1>7, <1>8, <1>9, <1>10, <1>11, <1>12, <1>13,
           <1>14 DEF Next

\* The first state has the types.
LEMMA TypeInit == Init => TypeInv
  BY DEF Init, TicketsInit, NoPoses, TypeInv, Ticket, Unopened, Open

-------------------------------------------------------------------------------
(* Sockets and tickets.                                                    *)

\* A socket that has been opened stays with its hunter, its node and its ticket, and
\* once closed it stays closed.
LEMMA SocketsKeep ==
  ASSUME TypeInv, [Next]_vars, NEW i \in Sessions, socket[i] # Unopened
  PROVE  /\ socket'[i] # Unopened
         /\ socket'[i].node = socket[i].node
         /\ socket'[i].hunter = socket[i].hunter
         /\ socket'[i].ticket = socket[i].ticket
         /\ socket'[i].state \in {socket[i].state, "closed"}
<1>0. socket[i] \in Opened /\ socket \in [Sessions -> Opened \cup {Unopened}]
  BY OpenSocket DEF TypeInv
<1>1. CASE socket'[i] = socket[i]
  BY <1>1
<1>2. CASE socket'[i] = [socket[i] EXCEPT !.state = "closed"]
  BY <1>0, <1>2 DEF Opened, Unopened
<1>3. ASSUME NEW gone \in SUBSET Sessions, Forget(gone)
      PROVE  socket'[i] = socket[i] \/ socket'[i] = [socket[i] EXCEPT !.state = "closed"]
  BY <1>3 DEF Forget
<1>4. socket'[i] = socket[i] \/ socket'[i] = [socket[i] EXCEPT !.state = "closed"]
  <2>1. ASSUME NEW n \in Nodes, NEW t \in Tickets, NEW h \in Hunters, NEW j \in Sessions,
               Connect(n, t, h, j)
        PROVE  socket'[i] = socket[i]
    BY <1>0, <2>1 DEF Connect
  <2>2. ASSUME NEW j \in Sessions, Close(j)
        PROVE  \E gone \in SUBSET Sessions : Forget(gone)
    BY <2>2 DEF Close
  <2>3. ASSUME NEW n \in Nodes, Restart(n)
        PROVE  \E gone \in SUBSET Sessions : Forget(gone)
    BY <2>3 DEF Restart, On
  <2>4. CASE UNCHANGED socket
    BY <2>4
  <2> QED
    BY <1>3, <2>1, <2>2, <2>3, <2>4 DEF Next, vars, Wait, GetTicket, RefuseUpgrade, BeginPose,
       PublishLocal, PublishRedis, Deliver, ShareItem, Receive, Reconnect
<1> QED BY <1>1, <1>2, <1>4

\* A ticket in a store was issued there; a socket had its ticket issued to it, no store
\* has it any more, and no other socket has the same.
TicketInv ==
  /\ \A n \in Nodes, t \in Tickets :
       store[n][t] # NoTicket => issued[t] = [hunter |-> store[n][t].hunter, node |-> n]
  /\ \A i \in Sessions : socket[i] # Unopened =>
       /\ issued[socket[i].ticket] = [hunter |-> socket[i].hunter, node |-> socket[i].node]
       /\ \A n \in Nodes : store[n][socket[i].ticket] = NoTicket
  /\ \A i, j \in Sessions :
       i # j /\ socket[i] # Unopened /\ socket[j] # Unopened => socket[i].ticket # socket[j].ticket

\* Every step keeps it.
LEMMA TicketStep == TypeInv /\ TicketInv /\ [Next]_vars => TicketInv'
<1> SUFFICES ASSUME TypeInv, TicketInv, [Next]_vars PROVE TicketInv'
  OBVIOUS
<1> USE DEF TypeInv
<1>1. \A n \in Nodes, t \in Tickets : Unexpired(store[n])[t] \in {store[n][t], NoTicket}
  BY DEF Unexpired
<1>2. ASSUME NEW h \in Hunters, NEW n \in Nodes PROVE [hunter |-> h, node |-> n] # NoTicket
  BY DEF NoTicket
<1>3. ASSUME \A i \in Sessions : socket'[i] # Unopened => socket[i] # Unopened,
             UNCHANGED issued,
             \A n \in Nodes, t \in Tickets : store'[n][t] \in {store[n][t], NoTicket}
      PROVE  TicketInv'
  <2>1. \A i \in Sessions : socket[i] # Unopened => socket[i].ticket \in Tickets
    BY OpenSocket DEF Opened
  <2>2. \A i \in Sessions : socket[i] # Unopened =>
          /\ socket'[i].node = socket[i].node
          /\ socket'[i].hunter = socket[i].hunter
          /\ socket'[i].ticket = socket[i].ticket
    BY SocketsKeep
  <2>3. (\A n \in Nodes, t \in Tickets :
           store[n][t] # NoTicket => issued[t] = [hunter |-> store[n][t].hunter, node |-> n])'
    BY <1>3 DEF TicketInv
  <2>4. (\A i \in Sessions : socket[i] # Unopened =>
           /\ issued[socket[i].ticket] = [hunter |-> socket[i].hunter, node |-> socket[i].node]
           /\ \A n \in Nodes : store[n][socket[i].ticket] = NoTicket)'
    <3> SUFFICES ASSUME NEW i \in Sessions, socket'[i] # Unopened
                 PROVE  /\ issued'[socket'[i].ticket]
                             = [hunter |-> socket'[i].hunter, node |-> socket'[i].node]
                        /\ \A n \in Nodes : store'[n][socket'[i].ticket] = NoTicket
      OBVIOUS
    <3>1. socket[i] # Unopened /\ socket[i].ticket \in Tickets
      BY <1>3, <2>1
    <3>2. /\ issued[socket[i].ticket] = [hunter |-> socket[i].hunter, node |-> socket[i].node]
          /\ \A n \in Nodes : store[n][socket[i].ticket] = NoTicket
      BY <3>1 DEF TicketInv
    <3> QED BY <1>3, <2>2, <3>1, <3>2
  <2>5. (\A i, j \in Sessions :
           i # j /\ socket[i] # Unopened /\ socket[j] # Unopened => socket[i].ticket # socket[j].ticket)'
    BY <1>3, <2>2 DEF TicketInv
  <2> QED BY <2>3, <2>4, <2>5 DEF TicketInv
<1>4. ASSUME NEW n \in Nodes, NEW t \in Tickets, NEW h \in Hunters, GetTicket(n, t, h)
      PROVE  TicketInv'
  <2>1. \A m \in Nodes, u \in Tickets :
          IF m = n /\ u = t THEN store'[m][u] = [hunter |-> h, expires |-> now + TicketLife]
                            ELSE store'[m][u] \in {store[m][u], NoTicket}
    BY <1>1, <1>4 DEF GetTicket, Issue, Unexpired
  <2>2. issued[t] = NoTicket /\ issued' = [issued EXCEPT ![t] = [hunter |-> h, node |-> n]]
        /\ UNCHANGED socket
    BY <1>4 DEF GetTicket, Issue
  <2>3. \A m \in Nodes : store[m][t] # NoTicket => store[m][t] \in [hunter : Hunters, expires : Int]
    BY DEF Ticket
  <2>4. \A m \in Nodes : store[m][t] = NoTicket
    BY <1>2, <2>2, <2>3 DEF TicketInv
  <2>5. \A i \in Sessions : socket[i] # Unopened => socket[i] \in Opened
    BY OpenSocket
  <2>6. \A i \in Sessions : socket[i] # Unopened => socket[i].ticket \in Tickets \ {t}
    <3> SUFFICES ASSUME NEW i \in Sessions, socket[i] # Unopened
                 PROVE  socket[i].ticket \in Tickets \ {t}
      OBVIOUS
    <3>1. socket[i].ticket \in Tickets /\ socket[i].hunter \in Hunters /\ socket[i].node \in Nodes
      BY <2>5 DEF Opened
    <3>2. issued[socket[i].ticket] = [hunter |-> socket[i].hunter, node |-> socket[i].node]
      BY DEF TicketInv
    <3> QED BY <1>2, <2>2, <3>1, <3>2
  <2>7. \A m \in Nodes, u \in Tickets :
          store'[m][u] # NoTicket => issued'[u] = [hunter |-> store'[m][u].hunter, node |-> m]
    BY <2>1, <2>2, <2>4 DEF TicketInv
  <2> QED BY <2>1, <2>2, <2>6, <2>7 DEF TicketInv
<1>5. ASSUME NEW n \in Nodes, NEW t \in Tickets, NEW h \in Hunters, NEW i \in Sessions,
             Connect(n, t, h, i)
      PROVE  TicketInv'
  <2>1. store[n][t] # NoTicket /\ h = store[n][t].hunter /\ UNCHANGED issued
    BY <1>1, <1>5 DEF Connect, Consume
  <2>2. issued[t] = [hunter |-> h, node |-> n]
    BY <2>1 DEF TicketInv
  <2>3. \A m \in Nodes, u \in Tickets :
          /\ store'[m][u] \in {store[m][u], NoTicket}
          /\ m = n /\ u = t => store'[m][u] = NoTicket
    BY <1>1, <1>5 DEF Connect, Consume, Unexpired
  <2>4. \A m \in Nodes \ {n} : store[m][t] = NoTicket
    BY <2>2 DEF TicketInv
  <2>5. \A j \in Sessions : socket[j] # Unopened => socket[j].ticket \in Tickets \ {t}
    <3> SUFFICES ASSUME NEW j \in Sessions, socket[j] # Unopened
                 PROVE  socket[j].ticket \in Tickets \ {t}
      OBVIOUS
    <3>1. socket[j].ticket \in Tickets
      BY OpenSocket DEF Opened
    <3>2. store[n][socket[j].ticket] = NoTicket
      BY DEF TicketInv
    <3> QED BY <2>1, <3>1, <3>2
  <2>6. socket' = [socket EXCEPT ![i] =
          [state |-> "open", node |-> n, hunter |-> h, ticket |-> t]]
    BY <1>5 DEF Connect
  <2> QED BY <2>1, <2>2, <2>3, <2>4, <2>5, <2>6 DEF TicketInv
<1>6. ASSUME NEW n \in Nodes, NEW t \in Tickets, RefuseUpgrade(n, t) PROVE TicketInv'
  <2>1. \A m \in Nodes, u \in Tickets : store'[m][u] \in {store[m][u], NoTicket}
    BY <1>1, <1>6 DEF RefuseUpgrade, Consume, Unexpired
  <2> QED BY <1>3, <1>6, <2>1 DEF RefuseUpgrade, Consume
<1>7. ASSUME NEW n \in Nodes, Restart(n) PROVE TicketInv'
  <2>1. \A m \in Nodes, u \in Tickets : store'[m][u] \in {store[m][u], NoTicket}
    BY <1>7 DEF Restart, ForgetTickets
  <2>2. \A i \in Sessions : socket'[i] # Unopened => socket[i] # Unopened
    BY <1>7 DEF Restart, Forget, On, Open, Unopened
  <2> QED BY <1>3, <1>7, <2>1, <2>2 DEF Restart, ForgetTickets
<1>8. ASSUME NEW i \in Sessions, Close(i) PROVE TicketInv'
  <2>1. \A j \in Sessions : socket'[j] # Unopened => socket[j] # Unopened
    BY <1>8 DEF Close, Forget, Open, Unopened
  <2> QED BY <1>3, <1>8, <2>1 DEF Close, ticketVars
<1>9. CASE UNCHANGED <<store, issued, socket>>
  BY <1>3, <1>9
<1> QED
  BY <1>4, <1>5, <1>6, <1>7, <1>8, <1>9 DEF Next, vars, ticketVars, Wait, Tick, BeginPose,
     PublishLocal, PublishRedis, Deliver, ShareItem, Receive, Reconnect

\* A ticket opens one socket at most, for the hunter it was issued to and on the node
\* that issued it: consume removes it from the only store that has it.
THEOREM TicketsAdmitOnce == Spec => []TicketAdmitsOnce
<1>1. Init => TypeInv /\ TicketInv
  <2>1. Init => TicketInv
    BY DEF Init, TicketsInit, TicketInv
  <2> QED BY <2>1, TypeInit
<1>2. TypeInv /\ TicketInv /\ [Next]_vars => (TypeInv /\ TicketInv)'
  BY TypeStep, TicketStep
<1>3. TypeInv /\ TicketInv => TicketAdmitsOnce
  <2> SUFFICES ASSUME TypeInv, TicketInv, NEW i \in Sessions, socket[i] # Unopened
               PROVE  /\ issued[socket[i].ticket].hunter = socket[i].hunter
                      /\ issued[socket[i].ticket].node = socket[i].node
                      /\ \A j \in Sessions \ {i} :
                           socket[j] # Unopened => socket[j].ticket # socket[i].ticket
    BY DEF TicketAdmitsOnce
  <2>1. issued[socket[i].ticket] = [hunter |-> socket[i].hunter, node |-> socket[i].node]
    BY DEF TicketInv
  <2>2. \A j \in Sessions \ {i} : socket[j] # Unopened => socket[j].ticket # socket[i].ticket
    BY DEF TicketInv
  <2> QED BY <2>1, <2>2
<1> QED BY <1>1, <1>2, <1>3, PTL DEF Spec

-------------------------------------------------------------------------------
(* Where events come from.                                                 *)

\* What is published, kept for a node or remembered of a session bears its hunter and
\* comes from its node, and the session's own node keeps it only while it is open.
OriginInv ==
  /\ \A i \in Sessions : sending[i] # None =>
       sending[i].pose.session = i /\ sending[i].pose.hunter = socket[i].hunter
  /\ \A n \in Nodes : \A k \in 1 .. Len(inbox[n]) : IsPose(inbox[n][k].event) =>
       /\ socket[inbox[n][k].event.session] # Unopened
       /\ socket[inbox[n][k].event.session].node = inbox[n][k].node
  /\ \A n \in Nodes, h \in Hunters : poses[n][h] # None =>
       /\ poses[n][h].hunter = h
       /\ socket[poses[n][h].session] # Unopened
       /\ socket[poses[n][h].session].node = n => Open(poses[n][h].session)

\* A node knows no more poses than before.
PosesStay == \A n \in Nodes, h \in Hunters : poses'[n][h] \in {poses[n][h], None}

\* Redis has no more for any node than before.
InboxesStay ==
  \A n \in Nodes : \/ inbox'[n] = inbox[n]
                   \/ inbox'[n] = <<>>
                   \/ inbox[n] # <<>> /\ inbox'[n] = Tail(inbox[n])

\* What Redis keeps of a pose is kept.
LEMMA InboxTail ==
  ASSUME TypeInv, InboxesStay, NEW n \in Nodes
  PROVE  \E d \in {0, 1} :
           \A k \in 1 .. Len(inbox'[n]) : k + d \in 1 .. Len(inbox[n]) /\ inbox'[n][k] = inbox[n][k + d]
<1>1. inbox[n] \in Seq(Message) /\ Len(inbox[n]) \in Nat
  BY DEF TypeInv
<1>2. CASE inbox'[n] = inbox[n]
  BY <1>1, <1>2
<1>3. CASE inbox'[n] = <<>>
  BY <1>3
<1>4. CASE inbox[n] # <<>> /\ inbox'[n] = Tail(inbox[n])
  <2>1. Len(Tail(inbox[n])) = Len(inbox[n]) - 1
        /\ \A k \in 1 .. Len(Tail(inbox[n])) : Tail(inbox[n])[k] = inbox[n][k + 1]
    BY <1>1, <1>4, HeadTailProperties
  <2> QED BY <1>1, <1>4, <2>1
<1> QED BY <1>2, <1>3, <1>4 DEF InboxesStay

\* Only a pose published by its session or received from another node is a new pose of a
\* node, and Redis gets only what PublishRedis and ShareItem send.
LEMMA WhatSteps ==
  ASSUME TypeInv, [Next]_vars
  PROVE  /\ \/ PosesStay
            \/ \E i \in Sessions : PublishLocal(i)
            \/ \E n \in Nodes : Receive(n) /\ Head(inbox[n]).node # n
         /\ \/ InboxesStay
            \/ \E i \in Sessions : PublishRedis(i)
            \/ \E n \in Nodes : ShareItem(n)
<1>1. ASSUME NEW n \in Nodes, ShareItem(n) PROVE PosesStay
  <2>1. [kind |-> "notice", move |-> moves + 1] \in Event
        /\ ~IsPose([kind |-> "notice", move |-> moves + 1])
    BY DEF Event, Notice, IsPose, TypeInv
  <2>2. PublishOn(n, [kind |-> "notice", move |-> moves + 1])
    BY <1>1 DEF ShareItem
  <2> QED BY <2>1, <2>2, Published DEF PosesStay
<1>2. ASSUME NEW n \in Nodes, NEW t \in Tickets, NEW h \in Hunters, NEW i \in Sessions,
             Connect(n, t, h, i)
      PROVE  PosesStay
  <2>1. \A g \in Hunters : Fresh(poses[n])[g] \in {poses[n][g], None}
    BY FreshPoses DEF TypeInv
  <2> QED BY <1>2, <2>1 DEF Connect, PosesStay, TypeInv
<1>3. ASSUME NEW i \in Sessions, Close(i) PROVE PosesStay
  BY <1>3 DEF Close, PosesStay, TypeInv
<1>4. ASSUME NEW n \in Nodes, Restart(n) PROVE PosesStay /\ InboxesStay
  BY <1>4 DEF Restart, PosesStay, InboxesStay, TypeInv, NoPoses
<1>5. ASSUME NEW n \in Nodes, Receive(n) PROVE InboxesStay
  BY <1>5 DEF Receive, InboxesStay, TypeInv
<1>6. ASSUME NEW n \in Nodes, Receive(n), Head(inbox[n]).node = n PROVE PosesStay
  BY <1>6 DEF Receive, PosesStay, TypeInv
<1>7. ASSUME NEW n \in Nodes, Reconnect(n) PROVE InboxesStay
  BY <1>7 DEF Reconnect, InboxesStay, TypeInv
<1>8. ASSUME UNCHANGED poses PROVE PosesStay
  BY <1>8 DEF PosesStay, TypeInv
<1>9. ASSUME UNCHANGED inbox PROVE InboxesStay
  BY <1>9 DEF InboxesStay, TypeInv
<1>10. \/ PosesStay
       \/ \E i \in Sessions : PublishLocal(i)
       \/ \E n \in Nodes : Receive(n) /\ Head(inbox[n]).node # n
  BY <1>1, <1>2, <1>3, <1>4, <1>6, <1>8 DEF Next, vars, Wait, GetTicket, RefuseUpgrade,
     BeginPose, PublishRedis, Deliver, Reconnect
<1>11. \/ InboxesStay
       \/ \E i \in Sessions : PublishRedis(i)
       \/ \E n \in Nodes : ShareItem(n)
  BY <1>4, <1>5, <1>7, <1>9 DEF Next, vars, Wait, GetTicket, RefuseUpgrade, Connect,
     BeginPose, PublishLocal, Deliver, Close
<1> QED BY <1>10, <1>11

\* What a task is publishing stays the same until it is done.
LEMMA SendingStays ==
  ASSUME TypeInv, [Next]_vars, NEW i \in Sessions, sending'[i] # None
  PROVE  \/ BeginPose(i)
         \/ sending[i] # None /\ sending'[i].pose = sending[i].pose
<1>1. ASSUME NEW j \in Sessions, PublishLocal(j)
      PROVE  sending[i] # None /\ sending'[i].pose = sending[i].pose
  <2>1. sending[j] \in Sending
    BY <1>1 DEF PublishLocal, TypeInv
  <2>2. sending' = [sending EXCEPT ![j] = [sending[j] EXCEPT !.step = "redis"]]
    BY <1>1 DEF PublishLocal
  <2>3. sending[i] # None
    BY <1>1, <2>2 DEF TypeInv, PublishLocal
  <2>4. [sending[j] EXCEPT !.step = "redis"].pose = sending[j].pose
    BY <2>1 DEF Sending
  <2> QED BY <2>2, <2>3, <2>4 DEF TypeInv
<1>2. ASSUME NEW j \in Sessions, BeginPose(j)
      PROVE  BeginPose(i) \/ sending'[i] = sending[i]
  BY <1>2 DEF BeginPose, TypeInv
<1>3. ASSUME NEW j \in Sessions, PublishRedis(j)
      PROVE  sending'[i] = sending[i]
  BY <1>3 DEF PublishRedis, TypeInv
<1>4. ASSUME NEW gone \in SUBSET Sessions, Forget(gone)
      PROVE  sending'[i] = sending[i]
  BY <1>4 DEF Forget
<1>5. ASSUME NEW j \in Sessions, Close(j) PROVE sending'[i] = sending[i]
  BY <1>4, <1>5 DEF Close
<1>6. ASSUME NEW n \in Nodes, Restart(n) PROVE sending'[i] = sending[i]
  BY <1>4, <1>6 DEF Restart, On
<1>7. CASE UNCHANGED sending
  BY <1>7
<1>8. \/ BeginPose(i)
      \/ sending'[i] = sending[i]
      \/ sending[i] # None /\ sending'[i].pose = sending[i].pose
  BY <1>1, <1>2, <1>3, <1>5, <1>6, <1>7 DEF Next, vars, Wait, GetTicket, RefuseUpgrade, Connect,
     Deliver, ShareItem, Receive, Reconnect
<1> QED BY <1>8

\* Every step takes from what Redis has for a node, or adds a notice or a pose that its
\* session is publishing.
LEMMA InboxOrder ==
  ASSUME TypeInv, [Next]_vars, NEW n \in Nodes
  PROVE  \/ \E d \in {0, 1} : \A k \in 1 .. Len(inbox'[n]) :
              k + d \in 1 .. Len(inbox[n]) /\ inbox'[n][k] = inbox[n][k + d]
         \/ \E m \in Nodes, e \in Event :
              /\ inbox'[n] = Append(inbox[n], [node |-> m, event |-> e])
              /\ IsPose(e) => \E i \in Sessions :
                   PublishRedis(i) /\ e = sending[i].pose /\ m = socket[i].node
<1>1. CASE InboxesStay
  BY <1>1, InboxTail
<1>2. CASE inbox'[n] = inbox[n]
  <2>1. \A k \in 1 .. Len(inbox'[n]) : k + 0 \in 1 .. Len(inbox[n]) /\ inbox'[n][k] = inbox[n][k + 0]
    BY <1>2
  <2> QED BY <2>1
<1>3. ASSUME NEW i \in Sessions, PublishRedis(i), inbox'[n] # inbox[n]
      PROVE  \E m \in Nodes, e \in Event :
               /\ inbox'[n] = Append(inbox[n], [node |-> m, event |-> e])
               /\ IsPose(e) => \E j \in Sessions :
                    PublishRedis(j) /\ e = sending[j].pose /\ m = socket[j].node
  <2>1. sending[i].pose \in Event /\ socket[i].node \in Nodes
    BY <1>3, PosesAreEvents, OpenSocket DEF PublishRedis, Sending, Opened, TypeInv
  <2>2. inbox'[n] = Append(inbox[n], [node |-> socket[i].node, event |-> sending[i].pose])
    BY <1>3, <2>1, Sent DEF PublishRedis
  <2> QED BY <1>3, <2>1, <2>2
<1>4. ASSUME NEW m \in Nodes, ShareItem(m), inbox'[n] # inbox[n]
      PROVE  \E e \in Event :
               inbox'[n] = Append(inbox[n], [node |-> m, event |-> e]) /\ ~IsPose(e)
  <2>1. [kind |-> "notice", move |-> moves + 1] \in Event
        /\ ~IsPose([kind |-> "notice", move |-> moves + 1])
    BY DEF Event, Notice, IsPose, TypeInv
  <2>2. inbox'[n] = Append(inbox[n], [node |-> m, event |-> [kind |-> "notice", move |-> moves + 1]])
    BY <1>4, <2>1, Sent DEF ShareItem
  <2> QED BY <2>1, <2>2
<1> QED BY <1>1, <1>2, <1>3, <1>4, WhatSteps

\* A message in an inbox has its type.
LEMMA InboxTypes ==
  ASSUME TypeInv, NEW n \in Nodes, NEW k \in 1 .. Len(inbox[n])
  PROVE  /\ inbox[n][k].node \in Nodes
         /\ inbox[n][k].event \in Event
         /\ IsPose(inbox[n][k].event) => inbox[n][k].event \in Pose
<1>1. inbox[n] \in Seq(Message)
  BY DEF TypeInv
<1>2. inbox[n][k] \in Message
  BY <1>1
<1> QED BY <1>2, PosesAreEvents DEF Message

\* Every step keeps the origins.
LEMMA OriginStep == TypeInv /\ OriginInv /\ [Next]_vars => OriginInv'
<1> SUFFICES ASSUME TypeInv, OriginInv, [Next]_vars PROVE OriginInv'
  OBVIOUS
<1>0. TypeInv'
  BY TypeStep
<1>1. ASSUME NEW i \in Sessions, sending'[i] # None
      PROVE  sending'[i].pose.session = i /\ sending'[i].pose.hunter = socket'[i].hunter
  <2>1. CASE BeginPose(i)
    BY <2>1 DEF BeginPose, TypeInv
  <2>2. CASE sending[i] # None /\ sending'[i].pose = sending[i].pose
    <3>1. socket[i] # Unopened
      BY <2>2, OpenSocket DEF TypeInv
    <3> QED BY <2>2, <3>1, SocketsKeep DEF OriginInv
  <2> QED BY <1>1, <2>1, <2>2, SendingStays
<1>2. ASSUME NEW n \in Nodes, NEW k \in 1 .. Len(inbox'[n]), IsPose(inbox'[n][k].event)
      PROVE  /\ socket'[inbox'[n][k].event.session] # Unopened
             /\ socket'[inbox'[n][k].event.session].node = inbox'[n][k].node
  <2>0. inbox[n] \in Seq(Message)
    BY DEF TypeInv
  <2>1. SUFFICES ASSUME ~ \E l \in 1 .. Len(inbox[n]) : inbox'[n][k] = inbox[n][l]
                 PROVE  /\ socket'[inbox'[n][k].event.session] # Unopened
                        /\ socket'[inbox'[n][k].event.session].node = inbox'[n][k].node
    <3>1. ASSUME NEW l \in 1 .. Len(inbox[n]), inbox'[n][k] = inbox[n][l]
          PROVE  /\ socket'[inbox'[n][k].event.session] # Unopened
                 /\ socket'[inbox'[n][k].event.session].node = inbox'[n][k].node
      <4>1. inbox[n][l].event.session \in Sessions
        BY <1>2, <3>1, InboxTypes, PosesAreEvents
      <4> QED BY <1>2, <3>1, <4>1, SocketsKeep DEF OriginInv
    <3> QED BY <3>1
  <2>2. PICK m \in Nodes, e \in Event :
          /\ inbox'[n] = Append(inbox[n], [node |-> m, event |-> e])
          /\ IsPose(e) => \E i \in Sessions :
               PublishRedis(i) /\ e = sending[i].pose /\ m = socket[i].node
    <3>1. ~ \E d \in {0, 1} : \A l \in 1 .. Len(inbox'[n]) :
              l + d \in 1 .. Len(inbox[n]) /\ inbox'[n][l] = inbox[n][l + d]
      BY <1>2, <2>1
    <3> QED BY <3>1, InboxOrder
  <2>3. [node |-> m, event |-> e] \in Message
    BY DEF Message
  <2>4. inbox'[n][k] = [node |-> m, event |-> e]
    BY <1>2, <2>0, <2>1, <2>2, <2>3, AppendProperties
  <2>5. PICK i \in Sessions : PublishRedis(i) /\ e = sending[i].pose /\ m = socket[i].node
    BY <1>2, <2>2, <2>4
  <2>6. sending[i] # None /\ socket[i] # Unopened
    BY <2>5, OpenSocket DEF PublishRedis, TypeInv
  <2>7. e.session = i
    BY <2>5, <2>6 DEF OriginInv
  <2> QED BY <2>4, <2>5, <2>6, <2>7, SocketsKeep
<1>3. ASSUME NEW n \in Nodes, NEW h \in Hunters, poses'[n][h] # None
      PROVE  /\ poses'[n][h].hunter = h
             /\ socket'[poses'[n][h].session] # Unopened
             /\ socket'[poses'[n][h].session].node = n => Open(poses[n][h].session)'
  <2>1. CASE poses'[n][h] = poses[n][h]
    <3>1. PICK i \in Sessions : i = poses[n][h].session
      BY <1>3, <2>1, PosesAreEvents DEF TypeInv
    <3>2. poses[n][h].hunter = h /\ socket[i] # Unopened
      BY <1>3, <2>1, <3>1 DEF OriginInv
    <3>3. socket'[i] # Unopened /\ socket'[i].node = socket[i].node
      BY <3>2, SocketsKeep
    <3>4. ASSUME socket[i].node = n PROVE socket'[i].state = "open"
      <4>1. socket[i].state = "open"
        BY <1>3, <2>1, <3>1, <3>4 DEF OriginInv, Open
      <4>2. ASSUME Close(i) PROVE FALSE
        BY <1>3, <2>1, <3>1, <3>4, <4>2 DEF Close, TypeInv
      <4>3. ASSUME Restart(n) PROVE FALSE
        BY <1>3, <4>3 DEF Restart, TypeInv, NoPoses
      <4>4. ASSUME NEW j \in Sessions \ {i}, Close(j) PROVE socket'[i] = socket[i]
        BY <4>4 DEF Close, Forget
      <4>5. ASSUME NEW m \in Nodes \ {n}, Restart(m) PROVE socket'[i] = socket[i]
        BY <3>4, <4>5 DEF Restart, Forget, On
      <4>6. ASSUME NEW m \in Nodes, NEW t \in Tickets, NEW g \in Hunters, NEW j \in Sessions,
                   Connect(m, t, g, j)
            PROVE  socket'[i] = socket[i]
        BY <3>2, <4>6 DEF Connect, TypeInv
      <4>7. socket'[i] = socket[i]
        BY <4>2, <4>3, <4>4, <4>5, <4>6 DEF Next, vars, Wait, GetTicket, RefuseUpgrade,
           BeginPose, PublishLocal, PublishRedis, Deliver, ShareItem, Receive, Reconnect
      <4> QED BY <4>1, <4>7
    <3> QED BY <2>1, <3>1, <3>2, <3>3, <3>4 DEF Open
  <2>2. ASSUME NEW i \in Sessions, PublishLocal(i), poses'[n][h] # poses[n][h]
        PROVE  /\ poses'[n][h].hunter = h
               /\ socket'[poses'[n][h].session] # Unopened
               /\ Open(poses[n][h].session)'
    <3>1. /\ sending[i].pose \in Event
          /\ socket[i].node \in Nodes /\ PublishOn(socket[i].node, sending[i].pose)
          /\ socket[i] # Unopened /\ Open(i) /\ UNCHANGED socket
      BY <2>2, PosesAreEvents, OpenSocket DEF PublishLocal, Sending, Opened, TypeInv
    <3>2. poses'[n][h] = sending[i].pose /\ h = sending[i].pose.hunter
      BY <1>3, <2>2, <3>1, Published
    <3>3. sending[i].pose.session = i
      BY <2>2 DEF PublishLocal, OriginInv
    <3> QED BY <3>1, <3>2, <3>3 DEF Open
  <2>3. ASSUME NEW m \in Nodes, Receive(m), Head(inbox[m]).node # m, poses'[n][h] # poses[n][h]
        PROVE  /\ poses'[n][h].hunter = h
               /\ socket'[poses'[n][h].session] # Unopened
               /\ socket'[poses'[n][h].session].node # n
    <3>1. /\ 1 \in 1 .. Len(inbox[m]) /\ Head(inbox[m]) = inbox[m][1]
          /\ PublishOn(m, inbox[m][1].event)
          /\ UNCHANGED socket
      BY <2>3 DEF Receive, TypeInv
    <3>2. poses'[n][h] = inbox[m][1].event /\ h = inbox[m][1].event.hunter /\ m = n
          /\ IsPose(inbox[m][1].event)
      BY <1>3, <2>3, <3>1, InboxTypes, Published
    <3> QED BY <2>3, <3>1, <3>2 DEF OriginInv
  <2>4. CASE PosesStay
    BY <1>3, <2>1, <2>4 DEF PosesStay
  <2> QED BY <2>1, <2>2, <2>3, <2>4, WhatSteps
<1> QED BY <1>1, <1>2, <1>3 DEF OriginInv

\* Once a socket is closed, its node has no pose of it: it forgets them when it closes the
\* socket, and ignores what it has sent to Redis itself.
THEOREM NoGhosts == Spec => []NoGhostAtHome
<1>1. Init => TypeInv /\ OriginInv
  <2>1. Init => OriginInv
    BY DEF Init, OriginInv, NoPoses
  <2> QED BY <2>1, TypeInit
<1>2. TypeInv /\ OriginInv /\ [Next]_vars => (TypeInv /\ OriginInv)'
  BY TypeStep, OriginStep
<1>3. TypeInv /\ OriginInv => NoGhostAtHome
  BY DEF OriginInv, NoGhostAtHome, Open
<1> QED BY <1>1, <1>2, <1>3, PTL DEF Spec

-------------------------------------------------------------------------------
(* The order of the poses of a session.                                    *)

\* No later than what the session is publishing, if it is
Bounded(e) ==
  /\ e.move <= moves
  /\ sending[e.session] # None => e.move <= sending[e.session].pose.move

\* Nothing is later than what its session is publishing; Redis has the poses of a session
\* in their order, and what it has from another node is no earlier than what is known.
OrderInv ==
  /\ \A i \in Sessions : sending[i] # None => sending[i].pose.move <= moves
  /\ \A n \in Nodes : \A k \in 1 .. Len(inbox[n]) :
       IsPose(inbox[n][k].event) => Bounded(inbox[n][k].event)
  /\ \A n \in Nodes, h \in Hunters : poses[n][h] # None => Bounded(poses[n][h])
  /\ \A n \in Nodes : \A k, l \in 1 .. Len(inbox[n]) :
       /\ k < l
       /\ IsPose(inbox[n][k].event) /\ IsPose(inbox[n][l].event)
       /\ inbox[n][k].event.session = inbox[n][l].event.session
       => inbox[n][k].event.move <= inbox[n][l].event.move
  /\ \A n \in Nodes, h \in Hunters : \A k \in 1 .. Len(inbox[n]) :
       /\ poses[n][h] # None
       /\ IsPose(inbox[n][k].event) /\ inbox[n][k].node # n
       /\ inbox[n][k].event.session = poses[n][h].session
       => poses[n][h].move <= inbox[n][k].event.move

\* A pose that is bounded stays so: the next one of its session is later.
LEMMA BoundedStays ==
  ASSUME TypeInv, [Next]_vars, NEW e \in Pose, Bounded(e)
  PROVE  Bounded(e)'
<1>1. e.move \in Nat /\ e.session \in Sessions /\ moves \in Nat
  BY DEF Pose, TypeInv
<1>2. moves' \in Nat /\ moves' >= moves
  <2>1. moves' \in Nat
    BY TypeStep DEF TypeInv
  <2>2. moves' = moves \/ moves' = moves + 1
    BY DEF Next, vars, Wait, GetTicket, RefuseUpgrade, Connect, BeginPose, PublishLocal,
       PublishRedis, Deliver, Close, ShareItem, Receive, Reconnect, Restart
  <2> QED BY <1>1, <2>1, <2>2
<1>3. e.move <= moves'
  BY <1>1, <1>2 DEF Bounded
<1>4. ASSUME sending'[e.session] # None PROVE e.move <= sending'[e.session].pose.move
  <2>1. CASE BeginPose(e.session)
    BY <1>1, <1>3, <2>1 DEF BeginPose, TypeInv
  <2>2. CASE sending[e.session] # None /\ sending'[e.session].pose = sending[e.session].pose
    BY <2>2 DEF Bounded
  <2> QED BY <1>1, <1>4, <2>1, <2>2, SendingStays
<1> QED BY <1>3, <1>4 DEF Bounded

\* A new pose of a node comes from its session there, or from the first message that the
\* node has from another node.
LEMMA NewPose ==
  ASSUME TypeInv, OriginInv, [Next]_vars, NEW n \in Nodes, NEW h \in Hunters,
         poses'[n][h] # None, poses'[n][h] # poses[n][h]
  PROVE  \/ \E i \in Sessions :
              /\ sending[i] # None /\ poses'[n][h] = sending[i].pose
              /\ sending[i].pose \in Pose
              /\ socket[i].node = n /\ socket[i] # Unopened
              /\ UNCHANGED inbox
         \/ /\ inbox[n] # <<>> /\ inbox[n][1].node # n
            /\ poses'[n][h] = inbox[n][1].event
            /\ IsPose(inbox[n][1].event)
            /\ inbox'[n] = Tail(inbox[n])
<1>1. ASSUME NEW i \in Sessions, PublishLocal(i)
      PROVE  /\ sending[i] # None /\ poses'[n][h] = sending[i].pose
             /\ sending[i].pose \in Pose
             /\ socket[i].node = n /\ socket[i] # Unopened
             /\ UNCHANGED inbox
  <2>1. /\ sending[i].pose \in Event /\ sending[i].pose \in Pose
        /\ socket[i].node \in Nodes /\ PublishOn(socket[i].node, sending[i].pose)
        /\ socket[i] # Unopened /\ sending[i] # None /\ UNCHANGED inbox
    BY <1>1, PosesAreEvents, OpenSocket DEF PublishLocal, Sending, Opened, TypeInv
  <2> QED BY <2>1, Published
<1>2. ASSUME NEW m \in Nodes, Receive(m), Head(inbox[m]).node # m
      PROVE  /\ inbox[n] # <<>> /\ inbox[n][1].node # n
             /\ poses'[n][h] = inbox[n][1].event
             /\ IsPose(inbox[n][1].event)
             /\ inbox'[n] = Tail(inbox[n])
  <2>1. /\ 1 \in 1 .. Len(inbox[m]) /\ Head(inbox[m]) = inbox[m][1]
        /\ PublishOn(m, inbox[m][1].event)
        /\ inbox[m] # <<>> /\ inbox'[m] = Tail(inbox[m])
    BY <1>2 DEF Receive, TypeInv
  <2>2. inbox[m][1].event \in Event
    BY <2>1, InboxTypes
  <2> QED BY <1>2, <2>1, <2>2, Published
<1> QED BY <1>1, <1>2, WhatSteps DEF PosesStay

\* A pose that Redis has after a step was there, or is the last, from the session that
\* publishes it; what was there has kept its order.
LEMMA InboxPoses ==
  ASSUME TypeInv, OriginInv, [Next]_vars, NEW n \in Nodes
  PROVE  \E d \in {0, 1} : \A k \in 1 .. Len(inbox'[n]) :
           \/ k + d \in 1 .. Len(inbox[n]) /\ inbox'[n][k] = inbox[n][k + d]
           \/ /\ k = Len(inbox'[n])
              /\ IsPose(inbox'[n][k].event) => \E i \in Sessions :
                   /\ sending[i] # None /\ sending[i].pose.session = i
                   /\ inbox'[n][k].event = sending[i].pose /\ sending[i].pose \in Pose
<1> DEFINE Kept(d) == \A k \in 1 .. Len(inbox'[n]) :
             k + d \in 1 .. Len(inbox[n]) /\ inbox'[n][k] = inbox[n][k + d]
           Added(m, e) ==
             /\ inbox'[n] = Append(inbox[n], [node |-> m, event |-> e])
             /\ IsPose(e) => \E i \in Sessions :
                  PublishRedis(i) /\ e = sending[i].pose /\ m = socket[i].node
           Explained(d) == \A k \in 1 .. Len(inbox'[n]) :
             \/ k + d \in 1 .. Len(inbox[n]) /\ inbox'[n][k] = inbox[n][k + d]
             \/ /\ k = Len(inbox'[n])
                /\ IsPose(inbox'[n][k].event) => \E i \in Sessions :
                     /\ sending[i] # None /\ sending[i].pose.session = i
                     /\ inbox'[n][k].event = sending[i].pose /\ sending[i].pose \in Pose
<1>1. ASSUME NEW d \in {0, 1}, Kept(d) PROVE Explained(d)
  BY <1>1
<1>2. ASSUME NEW m \in Nodes, NEW e \in Event, Added(m, e) PROVE Explained(0)
  <2>1. inbox[n] \in Seq(Message) /\ [node |-> m, event |-> e] \in Message
    BY DEF TypeInv, Message
  <2>2. /\ Len(inbox'[n]) = Len(inbox[n]) + 1 /\ Len(inbox[n]) \in Nat
        /\ \A k \in 1 .. Len(inbox[n]) : inbox'[n][k] = inbox[n][k]
        /\ inbox'[n][Len(inbox[n]) + 1] = [node |-> m, event |-> e]
    BY <1>2, <2>1, AppendProperties
  <2>3. IsPose(e) => \E i \in Sessions :
          /\ sending[i] # None /\ sending[i].pose.session = i
          /\ e = sending[i].pose /\ sending[i].pose \in Pose
    BY <1>2, PosesAreEvents DEF PublishRedis, OriginInv
  <2>4. ASSUME NEW k \in 1 .. Len(inbox'[n]), k # Len(inbox'[n])
        PROVE  k + 0 \in 1 .. Len(inbox[n]) /\ inbox'[n][k] = inbox[n][k + 0]
    BY <2>2, <2>4
  <2>5. inbox'[n][Len(inbox'[n])].event = e
    BY <2>2
  <2> QED BY <2>3, <2>4, <2>5
<1>3. (\E d \in {0, 1} : Kept(d)) \/ (\E m \in Nodes, e \in Event : Added(m, e))
  BY InboxOrder
<1>4. SUFFICES \E d \in {0, 1} : Explained(d)
  OBVIOUS
<1> HIDE DEF Kept, Added, Explained
<1> QED BY <1>1, <1>2, <1>3

\* Every step keeps the order.
LEMMA OrderStep == TypeInv /\ OriginInv /\ OrderInv /\ [Next]_vars => OrderInv'
<1> SUFFICES ASSUME TypeInv, OriginInv, OrderInv, [Next]_vars PROVE OrderInv'
  OBVIOUS
<1>0. TypeInv'
  BY TypeStep
<1>1. ASSUME NEW i \in Sessions, sending[i] # None
      PROVE  /\ sending[i].pose \in Pose /\ sending[i].pose.session = i
             /\ sending[i].pose.move \in Nat /\ Bounded(sending[i].pose)
  BY <1>1 DEF OriginInv, OrderInv, Bounded, TypeInv, Sending, Pose
<1>2. ASSUME NEW i \in Sessions, sending'[i] # None
      PROVE  sending'[i].pose.move <= moves'
  <2>1. CASE BeginPose(i)
    <3>1. sending'[i].pose.move = moves'
      BY <2>1 DEF BeginPose, TypeInv
    <3> QED BY <1>0, <3>1 DEF TypeInv
  <2>2. CASE sending[i] # None /\ sending'[i].pose = sending[i].pose
    BY <1>1, <2>2, BoundedStays DEF Bounded
  <2> QED BY <1>2, <2>1, <2>2, SendingStays
<1>3. ASSUME NEW n \in Nodes, NEW k \in 1 .. Len(inbox'[n]), IsPose(inbox'[n][k].event),
             NEW e, e = inbox'[n][k].event
      PROVE  Bounded(e)'
  <2>1. e \in Pose
    <3>1. inbox'[n] \in Seq(Message)
      BY <1>0 DEF TypeInv
    <3>2. inbox'[n][k] \in Message
      BY <1>3, <3>1
    <3>3. e \in Event /\ IsPose(e)
      BY <1>3, <3>2 DEF Message
    <3> QED BY <3>3, PosesAreEvents
  <2>2. Bounded(e)
    BY <1>1, <1>3, InboxPoses DEF OrderInv
  <2> QED BY <2>1, <2>2, BoundedStays
<1>4. ASSUME NEW n \in Nodes, NEW h \in Hunters, poses'[n][h] # None, NEW e, e = poses'[n][h]
      PROVE  Bounded(e)'
  <2>1. e \in Pose
    BY <1>0, <1>4 DEF TypeInv
  <2>2. CASE e = poses[n][h]
    <3>1. Bounded(e)
      BY <1>4, <2>2 DEF OrderInv
    <3> QED BY <2>1, <3>1, BoundedStays
  <2>3. CASE e # poses[n][h]
    <3>1. ASSUME inbox[n] # <<>> PROVE 1 \in 1 .. Len(inbox[n])
      BY <3>1 DEF TypeInv
    <3>2. Bounded(e)
      BY <1>1, <1>4, <2>3, <3>1, NewPose DEF OrderInv
    <3> QED BY <2>1, <3>2, BoundedStays
  <2> QED BY <2>2, <2>3
<1>5. ASSUME NEW n \in Nodes, NEW k \in 1 .. Len(inbox'[n]), NEW l \in 1 .. Len(inbox'[n]), k < l,
             IsPose(inbox'[n][k].event), IsPose(inbox'[n][l].event),
             inbox'[n][k].event.session = inbox'[n][l].event.session
      PROVE  inbox'[n][k].event.move <= inbox'[n][l].event.move
  <2>1. PICK d \in {0, 1} : \A j \in 1 .. Len(inbox'[n]) :
           \/ j + d \in 1 .. Len(inbox[n]) /\ inbox'[n][j] = inbox[n][j + d]
           \/ /\ j = Len(inbox'[n])
              /\ IsPose(inbox'[n][j].event) => \E i \in Sessions :
                   /\ sending[i] # None /\ sending[i].pose.session = i
                   /\ inbox'[n][j].event = sending[i].pose /\ sending[i].pose \in Pose
    BY InboxPoses
  <2>2. Len(inbox'[n]) \in Nat
    BY <1>0 DEF TypeInv
  <2>3. k + d \in 1 .. Len(inbox[n]) /\ inbox'[n][k] = inbox[n][k + d]
    BY <1>5, <2>1, <2>2
  <2>4. CASE l + d \in 1 .. Len(inbox[n]) /\ inbox'[n][l] = inbox[n][l + d]
    <3>1. k + d < l + d
      BY <1>5, <2>2
    <3> QED BY <1>5, <2>3, <2>4, <3>1 DEF OrderInv
  <2>5. ASSUME NEW i \in Sessions, sending[i] # None, sending[i].pose.session = i,
               inbox'[n][l].event = sending[i].pose
        PROVE  inbox'[n][k].event.move <= inbox'[n][l].event.move
    <3>1. Bounded(inbox[n][k + d].event)
      BY <1>5, <2>3 DEF OrderInv
    <3>2. inbox[n][k + d].event.session = i
      BY <1>5, <2>3, <2>5
    <3> QED BY <2>3, <2>5, <3>1, <3>2 DEF Bounded
  <2> QED BY <1>5, <2>1, <2>4, <2>5
<1>6. ASSUME NEW n \in Nodes, NEW h \in Hunters, NEW k \in 1 .. Len(inbox'[n]),
             poses'[n][h] # None, IsPose(inbox'[n][k].event), inbox'[n][k].node # n,
             inbox'[n][k].event.session = poses'[n][h].session
      PROVE  poses'[n][h].move <= inbox'[n][k].event.move
  <2>1. CASE poses'[n][h] = poses[n][h]
    <3>1. CASE \E l \in 1 .. Len(inbox[n]) : inbox'[n][k] = inbox[n][l]
      BY <1>6, <2>1, <3>1 DEF OrderInv
    <3>2. ASSUME NEW i \in Sessions, sending[i] # None, sending[i].pose.session = i,
                 inbox'[n][k].event = sending[i].pose
          PROVE  poses'[n][h].move <= inbox'[n][k].event.move
      <4>1. Bounded(poses[n][h]) /\ poses[n][h].session = i
        BY <1>6, <2>1, <3>2 DEF OrderInv
      <4> QED BY <2>1, <3>2, <4>1 DEF Bounded
    <3> QED BY <1>6, <3>1, <3>2, InboxPoses
  <2>2. ASSUME NEW i \in Sessions, sending[i] # None, poses'[n][h] = sending[i].pose,
               socket[i].node = n, UNCHANGED inbox
        PROVE  FALSE
    <3>1. inbox[n][k].event.session = i /\ IsPose(inbox[n][k].event) /\ k \in 1 .. Len(inbox[n])
      BY <1>1, <1>6, <2>2
    <3> QED BY <1>6, <2>2, <3>1 DEF OriginInv
  <2>3. ASSUME inbox[n] # <<>>, poses'[n][h] = inbox[n][1].event, IsPose(inbox[n][1].event),
               inbox'[n] = Tail(inbox[n])
        PROVE  poses'[n][h].move <= inbox'[n][k].event.move
    <3>1. inbox[n] \in Seq(Message)
      BY DEF TypeInv
    <3>2. k + 1 \in 1 .. Len(inbox[n]) /\ inbox'[n][k] = inbox[n][k + 1] /\ 1 < k + 1
          /\ 1 \in 1 .. Len(inbox[n])
      BY <1>6, <2>3, <3>1, HeadTailProperties
    <3> QED BY <1>6, <2>3, <3>2 DEF OrderInv
  <2> QED BY <1>6, <2>1, <2>2, <2>3, NewPose
<1>7. /\ \A n \in Nodes : \A k \in 1 .. Len(inbox'[n]) :
           IsPose(inbox'[n][k].event) => Bounded(inbox[n][k].event)'
      /\ \A n \in Nodes, h \in Hunters : poses'[n][h] # None => Bounded(poses[n][h])'
  BY <1>3, <1>4 DEF Bounded
<1> QED BY <1>2, <1>5, <1>6, <1>7 DEF OrderInv

\* On every node the poses of a session replace each other in the order they were sent.
THEOREM PosesKeepOrder == Spec => PosesMoveForward
<1>1. Init => TypeInv /\ OriginInv /\ OrderInv
  <2>1. Init => OriginInv /\ OrderInv
    BY DEF Init, OriginInv, OrderInv, NoPoses
  <2> QED BY <2>1, TypeInit
<1>2. TypeInv /\ OriginInv /\ OrderInv /\ [Next]_vars => (TypeInv /\ OriginInv /\ OrderInv)'
  BY TypeStep, OriginStep, OrderStep
<1>3. TypeInv /\ OriginInv /\ OrderInv /\ [Next]_vars =>
        [\A n \in Nodes, h \in Hunters :
           /\ poses[n][h] # None /\ poses'[n][h] # None
           /\ poses'[n][h].session = poses[n][h].session
           => poses'[n][h].move >= poses[n][h].move]_vars
  <2> SUFFICES ASSUME TypeInv, OriginInv, OrderInv, [Next]_vars,
                      NEW n \in Nodes, NEW h \in Hunters,
                      poses[n][h] # None, poses'[n][h] # None,
                      poses'[n][h].session = poses[n][h].session
               PROVE  poses'[n][h].move >= poses[n][h].move
    OBVIOUS
  <2>0. poses[n][h].move \in Nat /\ Bounded(poses[n][h])
    BY DEF TypeInv, Pose, OrderInv
  <2>1. CASE poses'[n][h] = poses[n][h]
    BY <2>0, <2>1
  <2>2. ASSUME NEW i \in Sessions, sending[i] # None, poses'[n][h] = sending[i].pose
        PROVE  poses'[n][h].move >= poses[n][h].move
    BY <2>0, <2>2 DEF Bounded, OriginInv, TypeInv, Sending, Pose
  <2>3. ASSUME inbox[n] # <<>>, inbox[n][1].node # n, poses'[n][h] = inbox[n][1].event,
               IsPose(inbox[n][1].event)
        PROVE  poses'[n][h].move >= poses[n][h].move
    <3>1. 1 \in 1 .. Len(inbox[n])
      BY <2>3 DEF TypeInv
    <3>2. poses[n][h].move <= inbox[n][1].event.move
      BY <2>3, <3>1 DEF OrderInv
    <3>3. inbox[n][1].event.move \in Nat
      BY <2>3, <3>1, InboxTypes DEF Pose
    <3> QED BY <2>0, <2>3, <3>2, <3>3
  <2> QED BY <2>1, <2>2, <2>3, NewPose
<1> QED BY <1>1, <1>2, <1>3, PTL DEF Spec, PosesMoveForward

-------------------------------------------------------------------------------
(* What a node forgets.                                                    *)

\* publish_event and subscribe drop stale poses only.
LEMMA PrunedAreStale ==
  ASSUME NEW map \in [Hunters -> Pose \cup {None}], NEW h \in Hunters, now \in Nat,
         map[h] # None, Fresh(map)[h] = None
  PROVE  now - map[h].at > StaleAfter
<1>1. ~(now - map[h].at <= StaleAfter)
  BY DEF Fresh
<1> QED BY <1>1, PresenceAssumption DEF Pose

\* A node forgets where a hunter is only when the pose is stale, its session ends there, or
\* the node restarts: the old session of a hunter who has reconnected takes nothing along.
THEOREM PosesAreKept == Spec => PosesStayKnown
<1>1. Init => TypeInv /\ OriginInv
  <2>1. Init => OriginInv
    BY DEF Init, OriginInv, NoPoses
  <2> QED BY <2>1, TypeInit
<1>2. TypeInv /\ OriginInv /\ [Next]_vars => (TypeInv /\ OriginInv)'
  BY TypeStep, OriginStep
<1>3. TypeInv /\ OriginInv /\ [Next]_vars =>
        [\A n \in Nodes, h \in Hunters :
           poses[n][h] # None /\ poses'[n][h] = None =>
             \/ now - poses[n][h].at > StaleAfter
             \/ \E i \in On(n) : i = poses[n][h].session /\ ~Open(i)'
             \/ poses'[n] = NoPoses /\ \A j \in On(n) : ~Open(j)']_vars
  <2> SUFFICES ASSUME TypeInv, OriginInv, [Next]_vars, NEW n \in Nodes, NEW h \in Hunters,
                      poses[n][h] # None, poses'[n][h] = None,
                      ~(now - poses[n][h].at > StaleAfter)
               PROVE  \/ \E i \in On(n) : i = poses[n][h].session /\ ~Open(i)'
                      \/ poses'[n] = NoPoses /\ \A j \in On(n) : ~Open(j)'
    OBVIOUS
  <2>0. /\ \A m \in Nodes : poses[m] \in [Hunters -> Pose \cup {None}]
        /\ poses[n][h] \in Pose
    BY DEF TypeInv
  <2>1. Fresh(poses[n])[h] # None
    BY <2>0, PrunedAreStale DEF TypeInv
  <2>2. ASSUME NEW m \in Nodes, NEW e \in Event, PublishOn(m, e) PROVE FALSE
    <3>1. poses' = [poses EXCEPT ![m] =
            IF IsPose(e) THEN [Fresh(poses[m]) EXCEPT ![e.hunter] = e] ELSE Fresh(poses[m])]
      BY <2>2 DEF PublishOn
    <3>2. m = n
      BY <3>1 DEF TypeInv
    <3>3. Fresh(poses[n]) \in [Hunters -> Pose \cup {None}]
      BY <2>0, FreshPoses
    <3>4. CASE IsPose(e) /\ e.hunter = h
      <4>1. poses'[n][h] = e
        BY <3>1, <3>2, <3>3, <3>4 DEF TypeInv
      <4> QED BY <2>2, <3>4, <4>1, PosesAreEvents, NoneAssumption
    <3>5. CASE ~(IsPose(e) /\ e.hunter = h)
      <4>1. poses'[n][h] = Fresh(poses[n])[h]
        BY <3>1, <3>2, <3>3, <3>5 DEF TypeInv
      <4> QED BY <2>1, <4>1
    <3> QED BY <3>4, <3>5
  <2>3. ASSUME NEW m \in Nodes, NEW t \in Tickets, NEW g \in Hunters, NEW i \in Sessions,
               Connect(m, t, g, i)
        PROVE  FALSE
    <3>1. poses'[n][h] \in {poses[n][h], Fresh(poses[n])[h]}
      BY <2>0, <2>3 DEF Connect, TypeInv
    <3> QED BY <2>1, <3>1
  <2>4. ASSUME NEW i \in Sessions, PublishLocal(i) PROVE FALSE
    <3>1. sending[i].pose \in Event /\ socket[i].node \in Nodes
      BY <2>4, PosesAreEvents, OpenSocket DEF PublishLocal, Sending, Opened, TypeInv
    <3> QED BY <2>2, <2>4, <3>1 DEF PublishLocal
  <2>5. ASSUME NEW m \in Nodes, ShareItem(m) PROVE FALSE
    <3>1. [kind |-> "notice", move |-> moves + 1] \in Event
      BY DEF Event, Notice, TypeInv
    <3> QED BY <2>2, <2>5, <3>1 DEF ShareItem
  <2>6. ASSUME NEW m \in Nodes, Receive(m) PROVE FALSE
    <3>1. 1 \in 1 .. Len(inbox[m]) /\ Head(inbox[m]) = inbox[m][1]
      BY <2>6 DEF Receive, TypeInv
    <3>2. inbox[m][1].event \in Event
      BY <3>1, InboxTypes
    <3>3. PublishOn(m, inbox[m][1].event)
      BY <2>6, <3>1 DEF Receive
    <3> QED BY <2>2, <3>2, <3>3
  <2>7. ASSUME NEW i \in Sessions, Close(i)
        PROVE  \E j \in On(n) : j = poses[n][h].session /\ ~Open(j)'
    <3>1. socket[i].node = n /\ poses[n][h].session = i
      BY <2>0, <2>7 DEF Close, TypeInv
    <3>2. i \in On(n)
      BY <2>7, <3>1 DEF Close, On
    <3>3. ~Open(i)'
      BY <2>7, OpenSocket DEF Close, Forget, Open, Opened
    <3> QED BY <3>1, <3>2, <3>3
  <2>8. ASSUME NEW m \in Nodes, Restart(m)
        PROVE  poses'[n] = NoPoses /\ \A j \in On(n) : ~Open(j)'
    <3>1. m = n /\ poses'[n] = NoPoses
      BY <2>8 DEF Restart, TypeInv
    <3>2. ASSUME NEW j \in On(n) PROVE ~Open(j)'
      <4>1. j \in Sessions /\ socket[j] \in Opened
        BY OpenSocket DEF On
      <4>2. socket'[j] = [socket[j] EXCEPT !.state = "closed"]
        BY <2>8, <3>1, <4>1 DEF Restart, Forget
      <4> QED BY <4>1, <4>2 DEF Open, Opened
    <3> QED BY <3>1, <3>2
  <2>9. CASE UNCHANGED poses
    BY <2>9
  <2> QED
    BY <2>3, <2>4, <2>5, <2>6, <2>7, <2>8, <2>9 DEF Next, vars, Wait, GetTicket,
       RefuseUpgrade, BeginPose, PublishRedis, Deliver, Reconnect
<1> QED BY <1>1, <1>2, <1>3, PTL DEF Spec, PosesStayKnown

-------------------------------------------------------------------------------
(* What a client sees.                                                     *)

\* An event that session i shows as the pose of h
Of(i, h, e) == Heard(i, e) /\ e.hunter = h

\* p is the last event of h in queue q of session i.
Waiting(q, i, h, p) ==
  \E k \in 1 .. Len(q) : q[k] = p /\ \A l \in k + 1 .. Len(q) : ~Of(i, h, q[l])

\* Queue q of session i has no event of h.
Settled(q, i, h) == \A k \in 1 .. Len(q) : ~Of(i, h, q[k])

\* The pose that a node has of a hunter is on its way to each session as the last of the
\* hunter's events, or is shown already, unless an overflow has taken it away.
Shown(i, h) ==
  LET p == poses[socket[i].node][h] IN
  Open(i) /\ p # None /\ p.session # i =>
    \/ Waiting(queue[i], i, h, p)
    \/ Settled(queue[i], i, h) /\ (h \in missed[i] \/ view[i][h] = p)

QueueInv ==
  /\ \A i \in Sessions : ~Open(i) => queue[i] = <<>>
  /\ \A i \in Sessions, h \in Hunters : Shown(i, h)

\* An event kept in a queue is the last; the last one of another hunter stays so, unless it
\* was the oldest of a full queue.
LEMMA KeepOrder ==
  ASSUME NEW i \in Sessions, NEW h \in Hunters, NEW q \in Seq(Event), NEW e \in Event
  PROVE  /\ Waiting(Keep(q, e), i, h, e)
         /\ ~Of(i, h, e) /\ Settled(q, i, h) => Settled(Keep(q, e), i, h)
         /\ \A p : ~Of(i, h, e) /\ Waiting(q, i, h, p) =>
              \/ Waiting(Keep(q, e), i, h, p)
              \/ Settled(Keep(q, e), i, h) /\ Len(q) = Capacity /\ Head(q) = p
<1> DEFINE k == Keep(q, e)
           d == IF Len(q) = Capacity THEN 1 ELSE 0
<1>a. /\ k \in Seq(Event)
      /\ Len(k) = Len(q) + 1 - d /\ Len(k) \in Nat \ {0}
      /\ k[Len(k)] = e
      /\ \A j \in 1 .. Len(k) - 1 : j + d \in 1 .. Len(q) /\ k[j] = q[j + d]
  BY KeepProperties
<1>b. Len(q) \in Nat /\ d \in {0, 1}
  OBVIOUS
<1>2. d = 1 => Len(q) = Capacity
  OBVIOUS
<1>3. Keep(q, e) = k
  OBVIOUS
<1> HIDE DEF k, d
<1>1. /\ k \in Seq(Event) /\ Len(q) \in Nat /\ d \in {0, 1}
      /\ Len(k) = Len(q) + 1 - d /\ Len(k) \in Nat \ {0}
      /\ k[Len(k)] = e
      /\ \A j \in 1 .. Len(k) - 1 : j + d \in 1 .. Len(q) /\ k[j] = q[j + d]
  BY <1>a, <1>b
<1>4. Waiting(k, i, h, e)
  <2>1. Len(k) \in 1 .. Len(k) /\ \A l \in Len(k) + 1 .. Len(k) : ~Of(i, h, k[l])
    BY <1>1
  <2> QED BY <1>1, <2>1 DEF Waiting
<1>5. ASSUME ~Of(i, h, e), Settled(q, i, h) PROVE Settled(k, i, h)
  <2> SUFFICES ASSUME NEW j \in 1 .. Len(k) PROVE ~Of(i, h, k[j])
    BY DEF Settled
  <2>1. CASE j = Len(k)
    BY <1>1, <1>5, <2>1
  <2>2. CASE j # Len(k)
    <3>0. Len(k) \in Nat /\ j \in 1 .. Len(k)
      BY <1>1
    <3>1. j \in 1 .. Len(k) - 1
      BY <2>2, <3>0
    <3> QED BY <1>1, <1>5, <3>1 DEF Settled
  <2> QED BY <2>1, <2>2
<1>6. ASSUME NEW p, ~Of(i, h, e), Waiting(q, i, h, p)
      PROVE  \/ Waiting(k, i, h, p)
             \/ Settled(k, i, h) /\ Len(q) = Capacity /\ Head(q) = p
  <2>1. PICK m \in 1 .. Len(q) : q[m] = p /\ \A l \in m + 1 .. Len(q) : ~Of(i, h, q[l])
    BY <1>6 DEF Waiting
  <2>2. ASSUME NEW j \in 1 .. Len(k), j + d > m PROVE ~Of(i, h, k[j])
    <3>1. CASE j = Len(k)
      BY <1>1, <1>6, <3>1
    <3>2. CASE j # Len(k)
      <4>0. Len(k) \in Nat /\ j \in 1 .. Len(k)
        BY <1>1, <2>2
      <4>1. j \in 1 .. Len(k) - 1
        BY <3>2, <4>0
      <4>2. j + d \in m + 1 .. Len(q) /\ k[j] = q[j + d]
        BY <1>1, <2>1, <2>2, <4>1
      <4> QED BY <2>1, <4>2
    <3> QED BY <3>1, <3>2
  <2>3. CASE m > d
    <3>1. m - d \in 1 .. Len(k) - 1 /\ (m - d) + d = m
      BY <1>1, <2>1, <2>3
    <3>2. k[m - d] = p
      BY <1>1, <2>1, <3>1
    <3>3. \A l \in (m - d) + 1 .. Len(k) : ~Of(i, h, k[l])
      BY <1>1, <2>1, <2>2, <3>1
    <3>4. m - d \in 1 .. Len(k)
      BY <1>1, <3>1
    <3> QED BY <3>2, <3>3, <3>4 DEF Waiting
  <2>4. CASE ~(m > d)
    <3>1. m = 1 /\ d = 1
      BY <1>1, <2>1, <2>4
    <3>2. Settled(k, i, h)
      BY <1>1, <2>2, <3>1 DEF Settled
    <3>3. Head(q) = p
      BY <2>1, <3>1
    <3> QED BY <1>2, <3>1, <3>2, <3>3
  <2> QED BY <2>3, <2>4
<1> QED BY <1>3, <1>4, <1>5, <1>6

\* Taking an event from a queue leaves the last event of a hunter, unless that was it.
LEMMA TakeOrder ==
  ASSUME NEW i \in Sessions, NEW h \in Hunters, NEW q \in Seq(Event), q # <<>>
  PROVE  /\ Settled(q, i, h) => Settled(Tail(q), i, h) /\ ~Of(i, h, Head(q))
         /\ \A p : Waiting(q, i, h, p) =>
              \/ Waiting(Tail(q), i, h, p)
              \/ Settled(Tail(q), i, h) /\ Head(q) = p
<1>1. /\ Len(Tail(q)) = Len(q) - 1 /\ Len(q) \in Nat /\ Len(q) > 0
      /\ \A k \in 1 .. Len(Tail(q)) : Tail(q)[k] = q[k + 1]
      /\ Head(q) = q[1]
  BY HeadTailProperties
<1>2. ASSUME Settled(q, i, h) PROVE Settled(Tail(q), i, h) /\ ~Of(i, h, Head(q))
  BY <1>1, <1>2 DEF Settled
<1>3. ASSUME NEW p, Waiting(q, i, h, p)
      PROVE  \/ Waiting(Tail(q), i, h, p)
             \/ Settled(Tail(q), i, h) /\ Head(q) = p
  <2>1. PICK m \in 1 .. Len(q) : q[m] = p /\ \A l \in m + 1 .. Len(q) : ~Of(i, h, q[l])
    BY <1>3 DEF Waiting
  <2>2. CASE m = 1
    <3>1. Settled(Tail(q), i, h)
      BY <1>1, <2>1, <2>2 DEF Settled
    <3> QED BY <1>1, <2>1, <2>2, <3>1
  <2>3. CASE m # 1
    <3>1. m - 1 \in 1 .. Len(Tail(q)) /\ (m - 1) + 1 = m
      BY <1>1, <2>1, <2>3
    <3>2. Tail(q)[m - 1] = p
      BY <1>1, <2>1, <3>1
    <3>3. \A l \in (m - 1) + 1 .. Len(Tail(q)) : ~Of(i, h, Tail(q)[l])
      BY <1>1, <2>1, <3>1
    <3> QED BY <3>1, <3>2, <3>3 DEF Waiting
  <2> QED BY <2>2, <2>3
<1> QED BY <1>2, <1>3

\* What publish_event does to the sessions of its node
LEMMA PublishedIsShown ==
  ASSUME TypeInv, OriginInv, NEW n \in Nodes, NEW e \in Event, PublishOn(n, e),
         UNCHANGED <<socket, view>>, NEW i \in Sessions, NEW h \in Hunters, Shown(i, h)
  PROVE  Shown(i, h)'
<1> SUFFICES ASSUME Open(i), NEW p, p = poses'[socket[i].node][h], p # None, p.session # i
             PROVE  \/ Waiting(queue'[i], i, h, p)
                    \/ Settled(queue'[i], i, h) /\ (h \in missed'[i] \/ view[i][h] = p)
  BY DEF Shown, Open
<1> DEFINE m == socket[i].node
<1>0. /\ m \in Nodes /\ queue[i] \in Seq(Event) /\ missed[i] \subseteq Hunters
      /\ \A g \in Hunters : poses[m][g] \in Pose \cup {None}
      /\ i \in Sessions
  BY OpenSocket DEF Opened, TypeInv
<1>1. CASE m # n
  <2>1. i \notin On(n)
    BY <1>1 DEF On
  <2>2. queue'[i] = queue[i] /\ missed'[i] = missed[i] /\ poses'[m] = poses[m]
    BY <1>0, <1>1, <2>1 DEF PublishOn, TypeInv
  <2> QED BY <2>2 DEF Shown
<1>2. CASE m = n
  <2>1. i \in On(n)
    BY <1>2 DEF On
  <2>2. queue'[i] = Keep(queue[i], e) /\ missed'[i] = missed[i] \cup Overwritten(i)
    BY <2>1 DEF PublishOn
  <2>3. CASE IsPose(e) /\ e.hunter = h
    <3>1. p = e
      BY <1>2, <2>3, Published
    <3> QED BY <1>0, <2>2, <3>1, KeepOrder
  <2>4. CASE ~(IsPose(e) /\ e.hunter = h)
    <3>1. p = poses[m][h] /\ p \in Pose /\ p.hunter = h
      BY <1>0, <1>2, <2>4, Published DEF OriginInv
    <3>2. ~Of(i, h, e)
      BY <2>4 DEF Of, Heard
    <3>3. Len(queue[i]) = Capacity /\ Head(queue[i]) = p => h \in missed'[i]
      BY <2>2, <3>1, PosesAreEvents DEF Overwritten, Heard
    <3>4. CASE Waiting(queue[i], i, h, p)
      BY <1>0, <2>2, <3>2, <3>3, <3>4, KeepOrder
    <3>5. CASE Settled(queue[i], i, h) /\ (h \in missed[i] \/ view[i][h] = p)
      BY <1>0, <2>2, <3>2, <3>5, KeepOrder
    <3> QED BY <3>1, <3>4, <3>5 DEF Shown
  <2> QED BY <2>3, <2>4
<1> QED BY <1>1, <1>2

\* A session that nothing happens to is shown what it was shown, or less.
LEMMA StillShown ==
  ASSUME TypeInv, PosesStay, NEW i \in Sessions, NEW h \in Hunters, Shown(i, h),
         Open(i) => /\ socket'[i] = socket[i]
                    /\ queue'[i] = queue[i] /\ missed'[i] = missed[i] /\ view'[i] = view[i],
         Open(i)' => Open(i)
  PROVE  Shown(i, h)'
<1> SUFFICES ASSUME Open(i), NEW p, p = poses'[socket[i].node][h], p # None, p.session # i
             PROVE  \/ Waiting(queue[i], i, h, p)
                    \/ Settled(queue[i], i, h) /\ (h \in missed[i] \/ view[i][h] = p)
  BY DEF Shown
<1>1. socket[i].node \in Nodes
  BY OpenSocket DEF Opened
<1>2. p = poses[socket[i].node][h]
  BY <1>1 DEF PosesStay
<1> QED BY <1>2 DEF Shown

\* Every step keeps it.
LEMMA QueueStep == TypeInv /\ OriginInv /\ QueueInv /\ [Next]_vars => QueueInv'
<1> SUFFICES ASSUME TypeInv, OriginInv, QueueInv, [Next]_vars PROVE QueueInv'
  OBVIOUS
<1>1. ASSUME NEW n \in Nodes, NEW e \in Event, PublishOn(n, e), UNCHANGED <<socket, view>>
      PROVE  QueueInv'
  <2>1. \A i \in Sessions : ~Open(i) => i \notin On(n)
    BY DEF On
  <2>2. \A i \in Sessions : ~Open(i)' => queue'[i] = <<>>
    BY <1>1, <2>1 DEF PublishOn, QueueInv, Open
  <2> QED BY <1>1, <2>2, PublishedIsShown DEF QueueInv
<1>2. ASSUME PosesStay, UNCHANGED <<socket, queue, view, missed>> PROVE QueueInv'
  <2>1. \A i \in Sessions : Open(i)' <=> Open(i)
    BY <1>2 DEF Open
  <2> QED BY <1>2, <2>1, StillShown DEF QueueInv
<1>3. ASSUME NEW n \in Nodes, NEW t \in Tickets, NEW h \in Hunters, NEW i \in Sessions,
             Connect(n, t, h, i)
      PROVE  QueueInv'
  <2>1. /\ socket[i] = Unopened /\ socket' = [socket EXCEPT ![i] =
              [state |-> "open", node |-> n, hunter |-> h, ticket |-> t]]
        /\ poses' = [poses EXCEPT ![n] = Fresh(poses[n])]
        /\ view' = [view EXCEPT ![i] = Fresh(poses[n])]
        /\ UNCHANGED <<queue, missed>>
    BY <1>3 DEF Connect, Snapshot
  <2>2. PosesStay
    BY <2>1, FreshPoses DEF PosesStay, TypeInv
  <2>3. socket'[i].node = n /\ \A j \in Sessions \ {i} : socket'[j] = socket[j]
    BY <2>1 DEF TypeInv
  <2>4. queue[i] = <<>> /\ ~Open(i)
    BY <2>1 DEF QueueInv, Open, Unopened
  <2>5. ASSUME NEW g \in Hunters PROVE Shown(i, g)'
    <3>1. Settled(<<>>, i, g)
      BY DEF Settled
    <3>2. view'[i][g] = poses'[n][g]
      BY <2>1 DEF TypeInv
    <3> QED BY <2>1, <2>3, <2>4, <3>1, <3>2 DEF Shown
  <2>6. ASSUME NEW j \in Sessions \ {i}, NEW g \in Hunters PROVE Shown(j, g)'
    <3>1. Open(j)' => Open(j)
      BY <2>3 DEF Open
    <3>2. view'[j] = view[j] /\ queue'[j] = queue[j] /\ missed'[j] = missed[j] /\ Shown(j, g)
      BY <2>1 DEF QueueInv, TypeInv
    <3> QED BY <2>2, <2>3, <3>1, <3>2, StillShown
  <2>7. \A j \in Sessions : ~Open(j)' => queue'[j] = <<>>
    BY <2>1, <2>3, <2>4 DEF QueueInv, Open
  <2> QED BY <2>5, <2>6, <2>7 DEF QueueInv
<1>4. ASSUME NEW gone \in SUBSET Sessions, Forget(gone), PosesStay PROVE QueueInv'
  <2>1. \A j \in Sessions : ~Open(j)' => queue'[j] = <<>>
    BY <1>4 DEF Forget, QueueInv, Open
  <2>2. ASSUME NEW j \in Sessions, NEW g \in Hunters PROVE Shown(j, g)'
    <3>1. CASE j \in gone
      <4>0. socket'[j] = [socket[j] EXCEPT !.state = "closed"]
        BY <1>4, <3>1 DEF Forget
      <4>a. ASSUME socket[j] = Unopened PROVE socket'[j].state = "closed"
        BY <4>0, <4>a DEF Unopened
      <4>b. ASSUME socket[j] \in Opened PROVE socket'[j].state = "closed"
        BY <4>0, <4>b DEF Opened
      <4>c. socket'[j].state = "closed"
        BY <4>a, <4>b DEF TypeInv
      <4>1. ~Open(j)'
        BY <4>c DEF Open
      <4> QED BY <4>1 DEF Shown
    <3>2. CASE j \notin gone
      <4>1. /\ socket'[j] = socket[j] /\ queue'[j] = queue[j]
            /\ missed'[j] = missed[j] /\ view'[j] = view[j]
        BY <1>4, <3>2 DEF Forget
      <4>2. (Open(j)' => Open(j)) /\ Shown(j, g)
        BY <4>1 DEF Open, QueueInv
      <4> QED BY <1>4, <4>1, <4>2, StillShown
    <3> QED BY <3>1, <3>2
  <2> QED BY <2>1, <2>2 DEF QueueInv
<1>5. ASSUME NEW i \in Sessions, Deliver(i) PROVE QueueInv'
  <2>1. /\ Open(i) /\ queue[i] # <<>> /\ queue[i] \in Seq(Event)
        /\ queue' = [queue EXCEPT ![i] = Tail(queue[i])]
        /\ UNCHANGED <<poses, socket>>
    BY <1>5 DEF Deliver, TypeInv
  <2>2. PosesStay /\ \A j \in Sessions : Open(j)' <=> Open(j)
    BY <2>1 DEF PosesStay, TypeInv, Open
  <2>3. ASSUME NEW j \in Sessions \ {i}, NEW h \in Hunters PROVE Shown(j, h)'
    <3>1. /\ socket'[j] = socket[j] /\ queue'[j] = queue[j]
          /\ missed'[j] = missed[j] /\ view'[j] = view[j]
      BY <1>5 DEF Deliver, TypeInv
    <3> QED BY <2>2, <3>1, StillShown DEF QueueInv
  <2>4. ASSUME NEW h \in Hunters, NEW p, p = poses[socket[i].node][h], p # None, p.session # i
        PROVE  \/ Waiting(Tail(queue[i]), i, h, p)
               \/ Settled(Tail(queue[i]), i, h) /\ (h \in missed'[i] \/ view'[i][h] = p)
    <3>0. /\ socket[i].node \in Nodes
          /\ p \in Pose /\ p.hunter = h
          /\ view[i] \in [Hunters -> Pose \cup {None}]
      BY <2>1, <2>4, OpenSocket DEF Opened, TypeInv, OriginInv
    <3>1. Of(i, h, Head(queue[i])) => view'[i][h] = Head(queue[i])
      BY <1>5, <3>0 DEF Deliver, Of, TypeInv
    <3>2. ~Of(i, h, Head(queue[i])) =>
            view'[i][h] = view[i][h] /\ (h \in missed[i] => h \in missed'[i])
      <4>1. CASE Heard(i, Head(queue[i]))
        <5>1. /\ view' = [view EXCEPT ![i] = [view[i] EXCEPT ![Head(queue[i]).hunter] = Head(queue[i])]]
              /\ missed' = [missed EXCEPT ![i] = missed[i] \ {Head(queue[i]).hunter}]
          BY <1>5, <4>1 DEF Deliver
        <5> QED BY <3>0, <4>1, <5>1 DEF Of, TypeInv
      <4>2. CASE ~Heard(i, Head(queue[i]))
        BY <1>5, <4>2 DEF Deliver
      <4> QED BY <4>1, <4>2
    <3>3. Of(i, h, p)
      BY <2>4, <3>0, PosesAreEvents DEF Of, Heard
    <3>4. CASE Waiting(queue[i], i, h, p)
      BY <2>1, <3>1, <3>3, <3>4, TakeOrder
    <3>5. CASE Settled(queue[i], i, h) /\ (h \in missed[i] \/ view[i][h] = p)
      BY <2>1, <3>2, <3>5, TakeOrder
    <3> QED BY <2>1, <2>4, <3>4, <3>5 DEF QueueInv, Shown
  <2>5. ASSUME NEW h \in Hunters PROVE Shown(i, h)'
    <3>1. queue'[i] = Tail(queue[i])
      BY <2>1 DEF TypeInv
    <3> QED BY <2>1, <2>4, <3>1 DEF Shown
  <2>6. \A j \in Sessions : ~Open(j)' => queue'[j] = <<>>
    BY <2>1, <2>2 DEF QueueInv
  <2> QED BY <2>3, <2>5, <2>6 DEF QueueInv
<1>6. ASSUME NEW i \in Sessions, PublishLocal(i) PROVE QueueInv'
  <2>1. /\ sending[i].pose \in Event
        /\ socket[i].node \in Nodes /\ PublishOn(socket[i].node, sending[i].pose)
        /\ UNCHANGED <<socket, view>>
    BY <1>6, PosesAreEvents, OpenSocket DEF PublishLocal, Sending, Opened, TypeInv
  <2> QED BY <1>1, <2>1
<1>7. ASSUME NEW n \in Nodes, ShareItem(n) PROVE QueueInv'
  <2>1. /\ [kind |-> "notice", move |-> moves + 1] \in Event
        /\ PublishOn(n, [kind |-> "notice", move |-> moves + 1])
        /\ UNCHANGED <<socket, view>>
    BY <1>7 DEF ShareItem, Event, Notice, TypeInv
  <2> QED BY <1>1, <2>1
<1>8. ASSUME NEW n \in Nodes, Receive(n) PROVE QueueInv'
  <2>1. CASE Head(inbox[n]).node = n
    BY <1>2, <1>8, <2>1 DEF Receive, PosesStay, TypeInv
  <2>2. CASE Head(inbox[n]).node # n
    <3>1. /\ 1 \in 1 .. Len(inbox[n]) /\ Head(inbox[n]) = inbox[n][1]
          /\ PublishOn(n, inbox[n][1].event) /\ UNCHANGED <<socket, view>>
      BY <1>8, <2>2 DEF Receive, TypeInv
    <3>2. inbox[n][1].event \in Event
      BY <3>1, InboxTypes
    <3> QED BY <1>1, <3>1, <3>2
  <2> QED BY <2>1, <2>2
<1>9. ASSUME NEW i \in Sessions, Close(i) PROVE QueueInv'
  <2>1. PosesStay
    BY <1>9 DEF Close, PosesStay, TypeInv
  <2> QED BY <1>4, <1>9, <2>1 DEF Close
<1>10. ASSUME NEW n \in Nodes, Restart(n) PROVE QueueInv'
  <2>1. PosesStay
    BY <1>10 DEF Restart, PosesStay, TypeInv, NoPoses
  <2> QED BY <1>4, <1>10, <2>1 DEF Restart, On
<1>11. ASSUME UNCHANGED <<poses, socket, queue, view, missed>> PROVE QueueInv'
  <2>1. PosesStay
    BY <1>11 DEF PosesStay
  <2> QED BY <1>2, <1>11, <2>1
<1> QED
  BY <1>3, <1>5, <1>6, <1>7, <1>8, <1>9, <1>10, <1>11 DEF Next, vars, Wait, GetTicket,
     RefuseUpgrade, BeginPose, PublishRedis, Reconnect

\* A client that has taken all its events shows every hunter where its node has the hunter:
\* subscribe takes the snapshot under the lock under which events are published.
THEOREM ViewsFollow == Spec => []ViewFollowsNode
<1>1. Init => TypeInv /\ OriginInv /\ QueueInv
  <2>1. Init => OriginInv /\ QueueInv
    BY DEF Init, OriginInv, QueueInv, Shown, NoPoses, Open, Unopened
  <2> QED BY <2>1, TypeInit
<1>2. TypeInv /\ OriginInv /\ QueueInv /\ [Next]_vars => (TypeInv /\ OriginInv /\ QueueInv)'
  BY TypeStep, OriginStep, QueueStep
<1>3. TypeInv /\ OriginInv /\ QueueInv => ViewFollowsNode
  <2> SUFFICES ASSUME QueueInv, NEW i \in Sessions, Open(i), queue[i] = <<>>,
                      NEW h \in Hunters \ missed[i],
                      poses[socket[i].node][h] # None, poses[socket[i].node][h].session # i
               PROVE  view[i][h] = poses[socket[i].node][h]
    BY DEF ViewFollowsNode
  <2>1. ~ Waiting(queue[i], i, h, poses[socket[i].node][h])
    BY DEF Waiting
  <2> QED BY <2>1 DEF QueueInv, Shown
<1> QED BY <1>1, <1>2, <1>3, PTL DEF Spec
===============================================================================
