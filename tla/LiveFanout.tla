------------------------------ MODULE LiveFanout ------------------------------
(***************************************************************************)
(* The WebSocket endpoint /ws/live of the controllers (queue.rs): each     *)
(* controller process has two broadcast channels, for segments and for     *)
(* resolved identities, and a task per client that passes on what it       *)
(* receives from either, in whichever order select! finds them ready.      *)
(*                                                                         *)
(* A channel keeps the last Capacity items (1024 in main.rs).  A receiver  *)
(* that is further behind is told so once, and goes on with the oldest     *)
(* item kept.  Items are their positions on the channel, so that sent is   *)
(* how many there were; broadcast is tokio's, modelled from its use.       *)
(***************************************************************************)
EXTENDS Naturals, Controllers

CONSTANTS
    Client,     \* WebSocket clients of /ws/live
    Server,     \* the controller each of them connects to
    Capacity    \* of a broadcast channel

ASSUME FanoutAssumption ==
    Server \in [Client -> Controller] /\ Capacity \in Nat \ {0}

Channel == {"live", "identity"}

VARIABLES
    sent,   \* items sent so far, by controller and channel
    link    \* the connection of each client

fanoutVars == <<sent, link>>

\* A connection: whether it is open; by channel, the items sent before it, those
\* its receiver has passed over, and those it was given; and, as a history,
\* the channels that overran it.
Link == [open : BOOLEAN,
         from : [Channel -> Nat], next : [Channel -> Nat],
         got : [Channel -> SUBSET Nat], lagged : SUBSET Channel]

Linked(open, position) ==
    [open |-> open, from |-> position, next |-> position,
     got |-> [channel \in Channel |-> {}], lagged |-> {}]

Nothing == [channel \in Channel |-> 0]
NoLink  == Linked(FALSE, Nothing)

FanoutInit ==
    /\ sent = [c \in Controller |-> Nothing]
    /\ link = [client \in Client |-> NoLink]

\* broadcast::Sender::send on both channels; without receivers it is lost.
Send(c, live, identity) ==
    sent' = [sent EXCEPT ![c] = [channel \in Channel |->
                @[channel] + (IF channel = "live" THEN live ELSE identity)]]

\* The upgrade of a connection ends with two calls of subscribe.
Subscribe(client) ==
    /\ ~link[client].open
    /\ link' = [link EXCEPT ![client] = Linked(TRUE, sent[Server[client]])]
    /\ UNCHANGED sent

Behind(client, channel) ==
    IF link[client].open
    THEN sent[Server[client]][channel] - link[client].next[channel]
    ELSE 0

Given(connection, channel) ==
    LET item == connection.next[channel] + 1 IN
    [connection EXCEPT
        !.next = [@ EXCEPT ![channel] = item],
        !.got  = [@ EXCEPT ![channel] = connection.got[channel] \union {item}]]

\* recv returns the next item, and socket.send passes it on.
Receive(client, channel) ==
    /\ Behind(client, channel) \in 1..Capacity
    /\ link' = [link EXCEPT ![client] = Given(@, channel)]
    /\ UNCHANGED sent

\* Mutant: the task asks again without having been moved on.
LagInPlace(client, channel) ==
    /\ Behind(client, channel) > Capacity
    /\ link' = [link EXCEPT ![client].lagged = @ \union {channel}]
    /\ UNCHANGED sent

\* Mutant: the task subscribes anew, to both channels.
LagOnBoth(client, channel) ==
    /\ Behind(client, channel) > Capacity
    /\ link' = [link EXCEPT ![client].next = sent[Server[client]],
                            ![client].lagged = @ \union {channel}]
    /\ UNCHANGED sent

MovedOn(connection, channel, position) ==
    [connection EXCEPT
        !.next   = [@ EXCEPT ![channel] = position],
        !.lagged = @ \union {channel}]

\* RecvError::Lagged: the task continues; the client is told nothing.
Lag(client, channel) ==
    /\ Behind(client, channel) > Capacity
    /\ link' = [link EXCEPT ![client] =
                   MovedOn(@, channel, sent[Server[client]][channel] - Capacity)]
    /\ UNCHANGED sent

\* The client closes, or a send to it or a read from it fails.
Leave(client) ==
    /\ link[client].open
    /\ link' = [link EXCEPT ![client] = NoLink]
    /\ UNCHANGED sent

\* The process is gone, and with it its channels and connections.
ResetFanout(c) ==
    /\ sent' = [sent EXCEPT ![c] = Nothing]
    /\ link' = [client \in Client |->
                   IF Server[client] = c THEN NoLink ELSE link[client]]

ClientTask(client) ==
    \E channel \in Channel : Receive(client, channel) \/ Lag(client, channel)

-----------------------------------------------------------------------------
\* A connected client got everything its controller sent since it subscribed
\* up to where its task is, except on a channel that overran it: lag on one
\* channel costs nothing on the other (handle_live_socket).
GapsNeedOverrun ==
    \A client \in Client : \A channel \in Channel \ link[client].lagged :
        link[client].open =>
            link[client].got[channel] =
                (link[client].from[channel] + 1)..link[client].next[channel]

\* The client's task has passed the n'th item on or over, or the client left.
PassedOn(client, channel, n) ==
    ~link[client].open \/ link[client].next[channel] >= n

=============================================================================
