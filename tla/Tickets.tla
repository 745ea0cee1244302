-------------------------------- MODULE Tickets --------------------------------
(***************************************************************************)
(* The tickets that open a realtime socket: a client with a valid token    *)
(* asks for one and hands it in with the upgrade request.  Every server    *)
(* process keeps its own tickets, in memory and behind one mutex, so that  *)
(* each operation is one step.                                             *)
(***************************************************************************)
EXTENDS Integers

CONSTANTS
  Nodes,        \* server processes
  Hunters,
  Tickets,      \* ticket ids
  MaxTime,      \* bound: the clock stops here
  TicketLife    \* ttl_seconds

ASSUME TicketsAssumption == MaxTime \in Nat /\ TicketLife \in Nat

VARIABLES
  now,          \* the clock
  store,        \* store[n]: the tickets that node n knows, with hunter and expiry
  issued        \* history: node and hunter of every ticket issued

ticketVars == <<now, store, issued>>

NoTicket == [hunter |-> "none"]

TicketsInit ==
  /\ now = 0
  /\ store = [n \in Nodes |-> [t \in Tickets |-> NoTicket]]
  /\ issued = [t \in Tickets |-> NoTicket]

\* cleanup_expired
Unexpired(tickets) ==
  [t \in Tickets |->
     IF tickets[t] # NoTicket /\ tickets[t].expires >= now THEN tickets[t] ELSE NoTicket]

\* issue, for the hunter of the token
Issue(n, t, h) ==
  /\ issued[t] = NoTicket
  /\ issued' = [issued EXCEPT ![t] = [hunter |-> h, node |-> n]]
  /\ store' = [store EXCEPT ![n] =
       [Unexpired(@) EXCEPT ![t] = [hunter |-> h, expires |-> now + TicketLife]]]
  /\ UNCHANGED now

\* mutant: the ticket is looked up and stays
ConsumeCopy(n, t, h) ==
  /\ Unexpired(store[n])[t] # NoTicket
  /\ h = store[n][t].hunter
  /\ store' = [store EXCEPT ![n] = Unexpired(@)]
  /\ UNCHANGED <<now, issued>>

\* consume, when it finds the ticket, of hunter h; otherwise nothing changes that
\* cleanup_expired would not change later.
Consume(n, t, h) ==
  /\ Unexpired(store[n])[t] # NoTicket
  /\ h = store[n][t].hunter
  /\ store' = [store EXCEPT ![n] = [Unexpired(@) EXCEPT ![t] = NoTicket]]
  /\ UNCHANGED <<now, issued>>

\* A node that restarts has lost its tickets.
ForgetTickets(n) ==
  /\ store' = [store EXCEPT ![n] = [t \in Tickets |-> NoTicket]]
  /\ UNCHANGED <<now, issued>>

Tick ==
  /\ now < MaxTime
  /\ now' = now + 1
  /\ UNCHANGED <<store, issued>>
===============================================================================
