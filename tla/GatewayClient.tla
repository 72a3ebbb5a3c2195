---------------------------- MODULE GatewayClient ----------------------------
(***************************************************************************)
(* FletcherClient (gateway-client-ts/client.ts) over WebSocket connections *)
(* to gateway sessions.  Its event handlers run one at a time, and the     *)
(* continuation of an awaited answer runs before the next event does.      *)
(***************************************************************************)
EXTENDS GatewaySession

CONSTANTS
    MaxReq,         \* bound: requests the client makes
    EagerReconnect  \* does the application connect again before the close
                    \* event of the socket it closed?

VARIABLE
    client      \* this.ws (0 when null), the state of each socket, pendingQueue,
                \* subscriptions, the rows each callback got
                \* on this connection, requests made

vars == <<wire, session, hub, client>>

Init ==
    /\ SessionInit
    /\ client = [ws |-> 0, sock |-> [e \in Conns |-> "none"], pending |-> << >>, subs |-> {},
                 got |-> [i \in Ids |-> << >>], made |-> 0]

-----------------------------------------------------------------------------
(* Calls of the application. *)

connect ==
    /\ client.ws = 0
    /\ \A e \in Conns : client.sock[e] # "connecting"
    /\ EagerReconnect \/ \A e \in Conns : client.sock[e] # "closing"
    /\ \E e \in Conns :
          /\ client.sock[e] = "none"
          /\ \A f \in 1..(e - 1) : client.sock[f] # "none"
          /\ client' = [client EXCEPT !.sock[e] = "connecting"]
          /\ session' = [session EXCEPT ![e].state = "accepting"]
    /\ UNCHANGED <<wire, hub>>

\* sendAndWait: the request joins pendingQueue and goes out.  expected is the
\* type its answer has, own whether the caller of subscribe brought a schema.
sendAndWait(type, expected, id, own) ==
    LET tag == client.made + 1
    IN  /\ client.ws # 0 /\ client.made < MaxReq
        /\ client' = [client EXCEPT !.made = tag,
              !.pending = Append(@, [expected |-> expected, tag |-> tag, id |-> id, own |-> own])]
        /\ wire' = [wire EXCEPT ![client.ws].c2s =
              Append(@, [type |-> type, tag |-> tag, id |-> id])]
        /\ UNCHANGED <<session, hub>>

createTopic == sendAndWait("create_topic", "topic_created", 0, FALSE)

listTopics == sendAndWait("list_topics", "topics_list", 0, FALSE)

publish == sendAndWait("publish", "published", 0, FALSE)

subscribe == \E own \in BOOLEAN : sendAndWait("subscribe", "subscribed", 0, own)

unsubscribe == \E id \in client.subs : sendAndWait("unsubscribe", "unsubscribed", id, FALSE)

close ==
    /\ client.ws # 0
    /\ client' = [client EXCEPT !.subs = {}, !.pending = << >>, !.ws = 0,
                                !.sock[client.ws] = "closing"]
    /\ UNCHANGED <<wire, session, hub>>

-----------------------------------------------------------------------------
(* Events. *)

onopen(e) ==
    /\ client.sock[e] = "connecting" /\ wire[e].up
    /\ client' = [client EXCEPT !.sock[e] = "open", !.ws = e]
    /\ UNCHANGED <<wire, session, hub>>

\* The close event, of whichever socket: this.ws is cleared and every pending
\* request is rejected.  subscriptions stay; their ids are not used again.
onclose(e) ==
    /\ \/ client.sock[e] = "connecting" /\ session[e].state = "over"
       \/ client.sock[e] = "open" /\ ~wire[e].up
       \/ client.sock[e] = "closing"
    /\ client' = [client EXCEPT !.sock[e] = "closed", !.ws = 0, !.pending = << >>,
                                !.got = [i \in Ids |-> << >>]]
    /\ wire' = [wire EXCEPT ![e].up = FALSE, ![e].s2c = << >>]
    /\ UNCHANGED <<session, hub>>

\* The pending request an answer goes to: the first that expects its type, and
\* for an error the first of all.
Matching(type) ==
    {k \in DOMAIN client.pending : client.pending[k].expected = type \/ type = "error"}

\* What the awaiting call does with its answer: subscribe records the callback
\* if there is a schema, unsubscribe drops it.
Continue(c, req, resp) ==
    CASE resp.type = "subscribed" /\ (req.own \/ resp.schema) ->
            [c EXCEPT !.subs = @ \cup {resp.id}]
      [] resp.type = "unsubscribed" -> [c EXCEPT !.subs = @ \ {req.id}]
      [] OTHER -> c

\* Mutant: an answer takes the last request of its type.
LastOf(S) == Max(S)

FirstOf(S) == Min(S)

\* onMessage with a text frame.
onText(e) ==
    /\ client.sock[e] = "open" /\ wire[e].s2c # << >>
    /\ LET resp == Head(wire[e].s2c)
           ks == Matching(resp.type)
       IN  /\ resp.type # "message"
           /\ client' = IF ks = {} THEN client
                        ELSE LET k == FirstOf(ks)
                             IN  Continue([client EXCEPT !.pending = RemoveAt(@, k)],
                                          client.pending[k], resp)
    /\ wire' = [wire EXCEPT ![e].s2c = Tail(@)]
    /\ UNCHANGED <<session, hub>>

\* onMessage with a binary frame: a row of an unknown subscription is dropped.
onBinary(e) ==
    /\ client.sock[e] = "open" /\ wire[e].s2c # << >>
    /\ LET msg == Head(wire[e].s2c)
       IN  /\ msg.type = "message"
           /\ client' = IF msg.id \notin client.subs THEN client
                        ELSE [client EXCEPT !.got[msg.id] = Append(@, msg.tag)]
    /\ wire' = [wire EXCEPT ![e].s2c = Tail(@)]
    /\ UNCHANGED <<session, hub>>

Calls ==
    \/ connect \/ createTopic \/ listTopics \/ publish \/ subscribe \/ unsubscribe \/ close

Events(e) == onopen(e) \/ onclose(e) \/ onText(e) \/ onBinary(e)

Server(e) == Strand(e) /\ UNCHANGED client

Next ==
    \/ Calls
    \/ \E e \in Conns : Events(e) \/ Server(e) \/ (Break(e) /\ UNCHANGED client)
    \/ (RowArrives \/ Stop) /\ UNCHANGED client

\* The strands and the client's event loop keep running.
Spec ==
    Init /\ [][Next]_vars /\ \A e \in Conns : WF_vars(Events(e)) /\ WF_vars(Server(e))

-----------------------------------------------------------------------------
(* Properties. *)

Tags(frames) == [k \in DOMAIN frames |-> frames[k].tag]

Answers(frames) == Tags(SelectSeq(frames, LAMBDA f : f.type # "message"))

RowsFor(i, frames) == Tags(SelectSeq(frames, LAMBDA f : f.type = "message" /\ f.id = i))

\* While a connection is up, the answers on their way to the client and the
\* requests on their way to the gateway are, in order, exactly the requests the
\* client waits for; also when it is breaking an answer meets the request it
\* answers.  So no answer is missing, doubled or taken by another request,
\* though they carry no number (onMessage, HandleTextFrame, write_queue_).
AnswersMeetRequests ==
    \A e \in Conns : client.ws = e =>
        LET waiting == Tags(client.pending)
            back == Answers(wire[e].s2c)
        IN  IF wire[e].up
            THEN back \o Answers(session[e].queue) \o Tags(wire[e].c2s) = waiting
            ELSE IsPrefix(back, waiting)

\* A callback has got, in order and without a gap, every row the Subscriber
\* handed to its subscription, except those still on their way: none comes
\* before the client knows the subscription (the strand of OnSubscribe's
\* callback), none is lost (write_queue_), none goes to another callback.
RowsReachCallback ==
    \A e \in Conns : client.ws = e /\ wire[e].up =>
        \A i \in client.subs \cap session[e].subs :
            client.got[i] \o RowsFor(i, wire[e].s2c) \o RowsFor(i, session[e].queue)
                \o RowsFor(i, session[e].posted) = [k \in 1..hub.handed[i] |-> k]

\* The Subscriber's subscriptions of a connection that has broken are all
\* cancelled in the end (OnRead's error branch, UnsubscribeAll, ~WsSession).
BrokenSessionsEnd ==
    \A e \in Conns :
        (session[e].state = "reading" /\ ~wire[e].up) ~> (\A i \in Ids : hub.owner[i] # e)
=============================================================================
