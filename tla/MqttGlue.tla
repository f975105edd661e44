------------------------------ MODULE MqttGlue ------------------------------
(***************************************************************************)
(* The glue between RainMaker and the MQTT client (esp-mqtt-glue.c): a     *)
(* table of subscriptions that is told to the broker again after every     *)
(* reconnect, and the assembly of messages that are longer than the        *)
(* client's buffer and come as several events, of which only the first     *)
(* has a topic.                                                            *)
(*                                                                         *)
(* The client and the broker are external: the broker sends messages of    *)
(* topics it was asked for, whole or in pieces and in order; a connection  *)
(* may end between two pieces, and the rest of the message never comes.    *)
(* Topics are sequences, so that one can be the beginning of another.      *)
(***************************************************************************)
EXTENDS Integers, Sequences, FiniteSets, SequencesExt

CONSTANTS
    MAX_MQTT_SUBSCRIPTIONS,
    Topics,        \* topics, sequences
    Twice,         \* callers may subscribe to a topic a second time
    MaxPieces,     \* events one message may take
    MaxMessages    \* bound on the messages sent

VARIABLES
    data,        \* mqtt_data is allocated
    slots,       \* its table of subscriptions: topics, or None
    connected,   \* the client is connected
    broker,      \* topics the broker has for this client
    sending,     \* the message that is under way: [id, topic, total, next]
    long,        \* long_data: [topic, has]
    calls,       \* callbacks of the last event: topic, message and pieces
    messages     \* messages sent

vars == <<data, slots, connected, broker, sending, long, calls, messages>>

None == <<"none">>
MqttAssumption ==
    /\ {MAX_MQTT_SUBSCRIPTIONS, MaxPieces, MaxMessages} \subseteq Nat /\ Twice \in BOOLEAN
    /\ None \notin Topics

NoLong == [topic |-> None, has |-> {}]
NotSending == [id |-> 0, topic |-> None, total |-> 0, next |-> 1]
NoTable == [i \in 1..MAX_MQTT_SUBSCRIPTIONS |-> None]
Subscribed == {slots[i] : i \in DOMAIN slots} \ {None}

Init ==
    /\ data = FALSE /\ slots = NoTable /\ connected = FALSE /\ broker = {}
    /\ sending = NotSending /\ long = NoLong /\ calls = <<>> /\ messages = 0

\* esp_mqtt_glue_init; a second one changes nothing.  When the client cannot
\* be made the table is given up again.
GlueInit ==
    /\ ~data /\ data' \in BOOLEAN /\ slots' = NoTable /\ calls' = <<>>
    /\ UNCHANGED <<connected, broker, sending, long, messages>>

First(P) == CHOOSE i \in DOMAIN P : P[i] /\ \A j \in 1..(i - 1) : ~P[j]

\* The slot is only taken when the client accepts the subscription, which it
\* does while it is connected.
Subscribe(t) ==
    LET free == [i \in DOMAIN slots |-> slots[i] = None] IN
    /\ data /\ connected /\ \E i \in DOMAIN slots : free[i]
    /\ Twice \/ t \notin Subscribed
    /\ slots' = [slots EXCEPT ![First(free)] = t]
    /\ broker' = broker \cup {t} /\ calls' = <<>>
    /\ UNCHANGED <<data, connected, sending, long, messages>>

\* unsubscribe_helper: the client is asked to, and the slot is freed whether
\* it can or not.
Dropped(ts) == broker' = IF connected THEN broker \ ts ELSE broker

\* strncmp(topic, subscription, strlen(topic)).
Matches(t, s) == s # None /\ IsPrefix(t, s)

Unsubscribe(t) ==
    LET hit == [i \in DOMAIN slots |-> Matches(t, slots[i])] IN
    /\ data /\ \E i \in DOMAIN slots : hit[i]
    /\ slots' = [slots EXCEPT ![First(hit)] = None]
    /\ Dropped({slots[First(hit)]}) /\ calls' = <<>>
    /\ UNCHANGED <<data, connected, sending, long, messages>>

\* MQTT_EVENT_CONNECTED: everything in the table is asked for again.
EventConnected ==
    /\ data /\ ~connected /\ connected' = TRUE
    /\ broker' = Subscribed /\ calls' = <<>>
    /\ UNCHANGED <<data, slots, sending, long, messages>>

\* MQTT_EVENT_DISCONNECTED: the client connects again by itself; the rest of
\* a message that was under way is gone, and the session with it.
EventDisconnected ==
    /\ connected /\ connected' = FALSE
    /\ broker' = {} /\ sending' = NotSending /\ calls' = <<>>
    /\ UNCHANGED <<data, slots, long, messages>>

\* esp_mqtt_glue_disconnect and esp_mqtt_glue_deinit.
Disconnect ==
    /\ data /\ slots' = NoTable /\ connected' = FALSE /\ broker' = {}
    /\ sending' = NotSending /\ calls' = <<>>
    /\ UNCHANGED <<data, long, messages>>

Deinit ==
    /\ data /\ data' = FALSE /\ slots' = NoTable /\ connected' = FALSE /\ broker' = {}
    /\ sending' = NotSending /\ calls' = <<>>
    /\ UNCHANGED <<long, messages>>

\* esp_mqtt_glue_subscribe_callback: every subscription of exactly that topic.
Called(t, m, pieces) ==
    [i \in 1..Cardinality({j \in DOMAIN slots : slots[j] = t}) |->
        [topic |-> t, message |-> m, pieces |-> pieces, total |-> sending.total]]

\* The broker starts a message of a topic it has, in n pieces.
Send(t, n) ==
    /\ connected /\ sending = NotSending /\ messages < MaxMessages
    /\ sending' = [id |-> messages + 1, topic |-> t, total |-> n, next |-> 1]
    /\ messages' = messages + 1 /\ calls' = <<>>
    /\ UNCHANGED <<data, slots, connected, broker, long>>

\* Where the message stands after its next piece.
Sent == IF sending.next = sending.total THEN NotSending ELSE [sending EXCEPT !.next = @ + 1]

\* MQTT_EVENT_DATA with the whole message.
EventWholeData ==
    /\ sending.total = 1
    /\ calls' = Called(sending.topic, sending.id, {<<sending.id, 1>>}) /\ long' = NoLong /\ sending' = Sent
    /\ UNCHANGED <<data, slots, connected, broker, messages>>

\* A piece is put where it belongs; the piece that reaches the end completes
\* the message, whatever came before.
Assembled(l) ==
    LET now == [l EXCEPT !.has = @ \cup {<<sending.id, sending.next>>}] IN
    IF sending.next = sending.total
      THEN /\ calls' = Called(l.topic, sending.id, now.has) /\ long' = NoLong
      ELSE /\ calls' = <<>> /\ long' = now

\* MQTT_EVENT_DATA with the first piece: what was left of an earlier message
\* is freed; there may be no memory for the new one.
\* Mutant of NewLong: the buffer of the earlier message is taken over.
NewLongKept == [topic |-> sending.topic, has |-> long.has]

NewLong == [topic |-> sending.topic, has |-> {}]

EventFirstData(memory) ==
    /\ sending.total > 1 /\ sending.next = 1
    /\ IF memory THEN Assembled(NewLong) ELSE long' = NoLong /\ calls' = <<>>
    /\ sending' = Sent
    /\ UNCHANGED <<data, slots, connected, broker, messages>>

\* MQTT_EVENT_DATA with a later piece.
EventMoreData ==
    /\ sending.total > 1 /\ sending.next > 1
    /\ IF long = NoLong THEN long' = NoLong /\ calls' = <<>> ELSE Assembled(long)
    /\ sending' = Sent
    /\ UNCHANGED <<data, slots, connected, broker, messages>>

Next ==
    \/ GlueInit
    \/ \E t \in Topics : Subscribe(t) \/ Unsubscribe(t)
    \/ EventConnected
    \/ EventDisconnected
    \/ Disconnect
    \/ Deinit
    \/ \E t \in broker, n \in 1..MaxPieces : Send(t, n)
    \/ EventWholeData
    \/ \E memory \in BOOLEAN : EventFirstData(memory)
    \/ EventMoreData

Spec == Init /\ [][Next]_vars

(***************************************************************************)
(* Properties                                                              *)
(***************************************************************************)

\* A callback gets a message only as a whole and of its own topic, also after
\* reconnects in the middle of other messages and pieces there was no memory
\* for: no piece of an earlier message is left in it.
MessagesAreWhole ==
    \A i \in DOMAIN calls :
        LET c == calls[i] IN
        /\ c.topic \in Subscribed
        /\ c.pieces = {<<c.message, k>> : k \in 1..c.total}

\* While it is connected, the broker sends exactly what the table holds, and
\* a reconnect loses no subscription.  Not so when a topic was subscribed
\* twice (Twice): the first unsubscription ends both.
BrokerKnowsTable == connected => broker = Subscribed

\* An unsubscription takes away the topic it names ("Topic from which to
\* unsubscribe", esp_rmaker_mqtt_glue.h); not so when another topic that
\* begins with it is found first.
UnsubscribesThat ==
    [][\A t \in Topics : Unsubscribe(t) => \A s \in Subscribed \ {t} : s \in Subscribed']_vars

(***************************************************************************)
(* The inductive invariant of the proofs                                   *)
(***************************************************************************)

\* The first n pieces of message m.
Pieces(m, n) == {<<m, k>> : k \in 1 .. n}

\* Only a topic subscribed twice is in two slots.
SlotsInv ==
    /\ slots \in [1..MAX_MQTT_SUBSCRIPTIONS -> Topics \cup {None}]
    /\ ~Twice => \A i, j \in 1..MAX_MQTT_SUBSCRIPTIONS : slots[i] = slots[j] /\ slots[i] # None => i = j

\* Without a connection the broker has nothing.
BrokerInv ==
    /\ connected \in BOOLEAN /\ data \in BOOLEAN /\ (connected => data)
    /\ broker \subseteq Topics
    /\ ~connected => broker = {}
    /\ ~Twice => BrokerKnowsTable

\* A message under way has a piece left.
SendingInv ==
    \/ sending = NotSending
    \/ \E id, total, next \in Nat, t \in Topics :
         /\ sending = [id |-> id, topic |-> t, total |-> total, next |-> next]
         /\ 1 <= next /\ next <= total

\* Once its first piece has come, what is assembled is this message so far, or
\* nothing; what an earlier message left is only there before that.
LongInv ==
    /\ long = NoLong \/ \E t \in Topics : \E has : long = [topic |-> t, has |-> has]
    /\ sending # NotSending /\ sending.next > 1 /\ long # NoLong =>
         long.has = Pieces(sending.id, sending.next - 1)

MqttInv == SlotsInv /\ BrokerInv /\ SendingInv /\ LongInv /\ MessagesAreWhole /\ messages \in Nat

=============================================================================
