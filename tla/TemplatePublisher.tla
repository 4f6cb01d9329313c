--------------------------- MODULE TemplatePublisher ---------------------------
(***************************************************************************)
(* The RabbitMQ connection of template-service (rabbitmq.service.ts):      *)
(* connect() with its three awaits, the handlers of the connection's       *)
(* events, and the one timer of scheduleReconnect.                         *)
(***************************************************************************)
EXTENDS Naturals

CONSTANT Environments   \* the faults, requests and resources to allow for

VARIABLES
    env,            \* the environment (never changes)
    faults,         \* faults so far
    broker,         \* whether RabbitMQ accepts connections
    dial,           \* what connect() awaits, or "idle"
    connection,     \* the field: "null", or a connection "open" or "closed"
    channel,        \* the field: "null", or a channel "open" or "closed"
    timers          \* timers that will call connect()

linkVars == <<broker, dial, connection, channel, timers>>

Fault(kind) == /\ kind \in env.faults
               /\ faults < env.max
               /\ faults' = faults + 1

\* onModuleInit awaits connect().
PublisherInit ==
    /\ broker = "up" /\ dial = "connect" /\ timers = 0
    /\ connection = "null" /\ channel = "null"

\* Mutant: every call sets a timer of its own.
ScheduleReconnect_Unguarded(calls) == timers' = timers + calls
\* scheduleReconnect, called several times in a row: one timer is pending.
ScheduleReconnect(calls) == timers' = IF timers = 0 THEN 1 ELSE timers

Connected ==
    /\ dial = "connect" /\ broker = "up"
    /\ connection' = "open" /\ dial' = "channel"
    /\ UNCHANGED <<broker, channel, timers>>

\* Mutant: the catch block only logs.
ConnectFails_Logs ==
    /\ dial = "connect" /\ broker = "down"
    /\ dial' = "idle"
    /\ UNCHANGED <<broker, connection, channel, timers>>
\* amqp.connect rejects: the catch block schedules the next attempt.
ConnectFails ==
    /\ dial = "connect" /\ broker = "down"
    /\ dial' = "idle" /\ ScheduleReconnect(1)
    /\ UNCHANGED <<broker, connection, channel>>

ChannelCreated ==
    /\ dial = "channel"
    /\ channel' = "open" /\ dial' = "exchange"
    /\ UNCHANGED <<broker, connection, timers>>

ExchangeAsserted ==
    /\ dial = "exchange" /\ dial' = "idle"
    /\ UNCHANGED <<broker, connection, channel, timers>>

\* The timer forgets itself and calls connect().
TimerFires ==
    /\ timers > 0 /\ dial = "idle"
    /\ timers' = timers - 1 /\ dial' = "connect"
    /\ UNCHANGED <<broker, connection, channel>>

\* The connection breaks, with the broker or alone. Its error and close
\* events both schedule a reconnect, and so does the catch block of a
\* connect() that was waiting for the channel or the exchange.
\* Neither field goes back to null.
ConnectionBreaks ==
    /\ connection = "open" /\ Fault("broker")
    /\ broker' \in {"up", "down"}
    /\ connection' = "closed"
    /\ channel' = IF channel = "open" THEN "closed" ELSE channel
    /\ dial' = "idle"
    /\ ScheduleReconnect(IF dial = "idle" THEN 2 ELSE 3)

\* The broker closes the channel alone: its handlers only log.
ChannelCloses ==
    /\ channel = "open" /\ dial = "idle" /\ Fault("channel")
    /\ channel' = "closed"
    /\ UNCHANGED <<broker, dial, connection, timers>>

BrokerReturns ==
    /\ broker = "down" /\ broker' = "up"
    /\ UNCHANGED <<dial, connection, channel, timers>>

\* What the client library and the event loop will do.
LinkStep == \/ Connected \/ ConnectFails \/ ChannelCreated \/ ExchangeAsserted
            \/ TimerFires

\* isConnected() looks at the fields only.
IsConnected == connection # "null" /\ channel # "null"

\* publishTemplateUpdated throws on a null or a closed channel.
CanPublish == channel = "open"

-----------------------------------------------------------------------------
(* Properties. *)

\* However the events of a broken connection and a failing connect() fall
\* together, at most one attempt to connect is pending or running: no
\* connection is ever left behind.
OneAttempt == timers + (IF dial = "idle" THEN 0 ELSE 1) <= 1

\* After finitely many broken connections the publisher can publish again
\* for good (if the broker does not close the channel alone, which the
\* service never notices).
PublisherRecovers == "channel" \notin env.faults => <>[]CanPublish
=============================================================================
