------------------------------- MODULE Handlers --------------------------------
(***************************************************************************)
(* Request handlers of the server.  A handler is a tokio task in a slot:   *)
(* task[s].at names the statement it runs next and the other fields hold   *)
(* the request and what the handler has read, so that a later statement    *)
(* may act on a row that has changed since.  A request that its first      *)
(* reads refuse changes nothing and is left out.                           *)
(***************************************************************************)
EXTENDS Naturals

CONSTANTS
  Slots,        \* requests in flight at the same time
  MaxRequests   \* bound: requests ever begun

ASSUME HandlersAssumption == MaxRequests \in Nat

VARIABLES
  task,         \* what the handler in each slot is doing
  left          \* requests that may still begin (bound)

handlerVars == <<task, left>>

Idle == [at |-> "idle"]

At(s, label) == task[s].at = label

HandlersInit ==
  /\ task = [s \in Slots |-> Idle]
  /\ left = MaxRequests

\* A request is taken up: its first reads are done and t is what they found.
Begin(s, t) ==
  /\ task[s] = Idle
  /\ left > 0
  /\ left' = left - 1
  /\ task' = [task EXCEPT ![s] = t]

\* The handler has run a statement and has more to do.
Continue(s, t) ==
  /\ task' = [task EXCEPT ![s] = t]
  /\ UNCHANGED left

\* The handler returns, with an answer or an error.
Answer(s) == Continue(s, Idle)

\* A request that is a single statement.
Once(s) ==
  /\ task[s] = Idle
  /\ left > 0
  /\ left' = left - 1
  /\ UNCHANGED task

\* The client is gone or the server stops: hyper drops the handler's future.
Abandon(s) == task[s] # Idle /\ Answer(s)
===============================================================================
