---------------------------- MODULE QueueConsumer ----------------------------
(***************************************************************************)
(* What a queue shared by several consuming processes promises, whatever   *)
(* the consumers do with the messages: a message waits, is held by one     *)
(* process, or is settled for good; a process holds at most PrefetchCount  *)
(* of them; only the process that holds a message settles it or puts it    *)
(* back, and what it holds when its channel goes waits again.              *)
(*                                                                         *)
(* A place is a set so that a state with a message in two places, or in    *)
(* none, can be written down and is seen to be no state of this module.    *)
(* PushWorker and EmailProcessor implement it.                             *)
(***************************************************************************)
EXTENDS Naturals, FiniteSets

CONSTANTS
    Instance,       \* consuming processes
    Msg,            \* messages published to the queue
    PrefetchCount,  \* messages a process may hold
    HasTtl          \* whether a waiting message can expire

VARIABLE place      \* per message: where it is

Waiting == {"waiting"}
Settled == {"settled"}
Held(i) == {m \in Msg : place[m] = {i}}

Move(m, to) == place' = [place EXCEPT ![m] = to]

Init == place = [m \in Msg |-> Waiting]

\* The broker delivers a message to a process that has room for it.
Take(i, m) ==
    /\ place[m] = Waiting
    /\ Cardinality(Held(i)) < PrefetchCount
    /\ Move(m, {i})

\* The message is rejected and requeued.
GiveBack(i, m) == m \in Held(i) /\ Move(m, Waiting)

\* The message is acknowledged, or rejected for good.
Settle(i, m) == m \in Held(i) /\ Move(m, Settled)

\* The channel or the process is gone.
LoseAll(i) == place' = [m \in Msg |-> IF m \in Held(i) THEN Waiting ELSE place[m]]

\* The message waited longer than the queue's x-message-ttl.
Expire(m) == HasTtl /\ place[m] = Waiting /\ Move(m, Settled)

Next ==
    \/ \E i \in Instance, m \in Msg : Take(i, m) \/ GiveBack(i, m) \/ Settle(i, m)
    \/ \E i \in Instance : LoseAll(i)
    \/ \E m \in Msg : Expire(m)

Spec == Init /\ [][Next]_place
=============================================================================
