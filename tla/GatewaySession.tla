---------------------------- MODULE GatewaySession ----------------------------
(***************************************************************************)
(* The gateway's side of a WebSocket connection (gateway/ws_session.cpp,   *)
(* gateway.cpp).  A session's handlers run on its strand, one at a time:   *)
(* OnRead with the action it dispatches to, the posted sends of rows the   *)
(* Subscriber delivered on its own threads, and the write completions.     *)
(* Sessions share one Publisher and one Subscriber, modelled by what they  *)
(* promise: an id is fresh, a live id is handed every row, a cancelled one *)
(* none.  There is one topic; names and bytes are left to the modules of   *)
(* the wire formats.                                                       *)
(***************************************************************************)
EXTENDS Naturals, Sequences, SequencesExt

CONSTANTS
    MaxConn,    \* bound: connections of the client
    MaxSub,     \* bound: subscriptions
    MaxRow      \* bound: rows handed to one subscription

Conns == 1..MaxConn
Ids == 1..MaxSub

VARIABLES
    wire,       \* of each connection: is it up, and the frames under way
    session,    \* of each connection: the WsSession's members
    hub         \* the Subscriber: ids issued, the session each live id belongs
                \* to (0 when not live), the rows each was handed

SessionInit ==
    /\ wire = [e \in Conns |-> [up |-> FALSE, c2s |-> << >>, s2c |-> << >>]]
    /\ session = [e \in Conns |-> [state |-> "none", subs |-> {}, queue |-> << >>,
                                   posted |-> << >>]]
    /\ hub = [issued |-> 0, owner |-> [i \in Ids |-> 0], handed |-> [i \in Ids |-> 0]]

-----------------------------------------------------------------------------
(* Sending. *)

Reply(type, req, id, schema) == [type |-> type, tag |-> req.tag, id |-> id, schema |-> schema]

Message(id, row) == [type |-> "message", tag |-> row, id |-> id, schema |-> FALSE]

\* SendText and SendBinary.  The frame being written stays at the front of the
\* queue, and writing_ is set exactly while there is one.
Send(s, frame) == [s EXCEPT !.queue = Append(@, frame)]

\* The callback OnSubscribe registers: the frame of the row goes to the strand.
Post(s, frame) == [s EXCEPT !.posted = Append(@, frame)]

\* The Subscriber hands the next row to the subscriptions ids.
Handed(ids) == [i \in Ids |-> IF i \in ids THEN hub.handed[i] + 1 ELSE hub.handed[i]]

Posted(ids) ==
    [e \in Conns |-> FoldSet(LAMBDA i, s : Post(s, Message(i, hub.handed[i] + 1)), session[e],
                             {i \in ids : hub.owner[i] = e})]

Live == {i \in Ids : hub.owner[i] # 0}

MayHand == \A i \in Live : hub.handed[i] < MaxRow

\* A row of another publisher arrives on a thread of the provider.
RowArrives ==
    /\ Live # {} /\ MayHand
    /\ hub' = [hub EXCEPT !.handed = Handed(Live)]
    /\ session' = Posted(Live)
    /\ UNCHANGED wire

-----------------------------------------------------------------------------
(* The read loop and the actions it dispatches to. *)

\* Listener::DoAccept and WsSession::Run: the handshake is over, or failed.
Accept(e) ==
    /\ session[e].state = "accepting"
    /\ \/ /\ session' = [session EXCEPT ![e].state = "reading"]
          /\ wire' = [wire EXCEPT ![e].up = TRUE]
       \/ /\ session' = [session EXCEPT ![e].state = "over"]
          /\ UNCHANGED wire
    /\ UNCHANGED hub

Request(e) == Head(wire[e].c2s)

Reads(e, type) ==
    /\ session[e].state = "reading"
    /\ wire[e].c2s # << >>
    /\ Request(e).type = type
    /\ wire' = [wire EXCEPT ![e].c2s = Tail(@)]

Answer(sessions, e, type, id, schema) ==
    [sessions EXCEPT ![e] = Send(@, Reply(type, Request(e), id, schema))]

\* HandleTextFrame and HandleBinaryFrame: an action that throws is answered by
\* an error frame.
Throws(e) ==
    /\ session' = Answer(session, e, "error", 0, FALSE)
    /\ UNCHANGED hub

OnCreateTopic(e) ==
    /\ Reads(e, "create_topic")
    /\ \/ Throws(e)
       \/ session' = Answer(session, e, "topic_created", 0, FALSE) /\ UNCHANGED hub

OnListTopics(e) ==
    /\ Reads(e, "list_topics")
    /\ session' = Answer(session, e, "topics_list", 0, FALSE)
    /\ UNCHANGED hub

\* The row reaches the live subscriptions before the publisher is answered.
OnPublish(e) ==
    /\ Reads(e, "publish")
    /\ \/ Throws(e)
       \/ /\ MayHand
          /\ hub' = [hub EXCEPT !.handed = Handed(Live)]
          /\ session' = Answer(Posted(Live), e, "published", 0, FALSE)

\* Mutant: a retained row is written at once, not posted.
SubscribedWrites(e, id, early) ==
    LET s == [session[e] EXCEPT !.subs = @ \cup {id}]
    IN  /\ hub' = [issued |-> id, owner |-> [hub.owner EXCEPT ![id] = e],
                   handed |-> [hub.handed EXCEPT ![id] = early]]
        /\ \E type \in {"subscribed", "error"}, schema \in BOOLEAN :
              session' = Answer([session EXCEPT ![e] =
                                    IF early = 1 THEN Send(s, Message(id, 1)) ELSE s],
                                e, type, IF type = "error" THEN 0 ELSE id, schema)

\* The subscription, with a retained row handed over during Subscribe or not.
Subscribed(e, id, early) ==
    LET s == [session[e] EXCEPT !.subs = @ \cup {id}]
    IN  /\ hub' = [issued |-> id, owner |-> [hub.owner EXCEPT ![id] = e],
                   handed |-> [hub.handed EXCEPT ![id] = early]]
        /\ \E type \in {"subscribed", "error"}, schema \in BOOLEAN :
              session' = Answer([session EXCEPT ![e] =
                                    IF early = 1 THEN Post(s, Message(id, 1)) ELSE s],
                                e, type, IF type = "error" THEN 0 ELSE id, schema)

\* Subscribe throws, or it succeeds and the answer is built, which may throw
\* too: the client is then told of an error and the subscription stays.
OnSubscribe(e) ==
    /\ Reads(e, "subscribe")
    /\ \/ Throws(e)
       \/ /\ hub.issued < MaxSub
          /\ \E early \in 0..1 : Subscribed(e, hub.issued + 1, early)

OnUnsubscribe(e) ==
    /\ Reads(e, "unsubscribe")
    /\ hub' = [hub EXCEPT !.owner[Request(e).id] = 0]
    /\ session' = Answer([session EXCEPT ![e].subs = @ \ {Request(e).id}],
                         e, "unsubscribed", 0, FALSE)

\* What is left of a session that ended: frames it still queues go nowhere.
Over == [state |-> "over", subs |-> {}, queue |-> << >>, posted |-> << >>]

\* Mutant: the session ends without cancelling what it subscribed to.
UnsubscribeNone(S) ==
    /\ session' = [e \in Conns |->
          IF e \in S THEN Over ELSE session[e]]
    /\ UNCHANGED hub

\* UnsubscribeAll for the sessions of S.
UnsubscribeAll(S) ==
    /\ hub' = [hub EXCEPT !.owner = [i \in Ids |->
          IF \E e \in S : i \in session[e].subs THEN 0 ELSE hub.owner[i]]]
    /\ session' = [e \in Conns |->
          IF e \in S THEN Over ELSE session[e]]

\* The read fails; what the client had sent and was not read yet is lost.
OnReadError(e) ==
    /\ session[e].state = "reading" /\ ~wire[e].up
    /\ UnsubscribeAll({e})
    /\ wire' = [wire EXCEPT ![e].c2s = << >>]

\* A posted send runs on the strand.
RunPosted(e) ==
    /\ session[e].posted # << >>
    /\ session' = [session EXCEPT ![e] =
          [Send(@, Head(@.posted)) EXCEPT !.posted = Tail(@)]]
    /\ UNCHANGED <<wire, hub>>

\* The write of the front frame completes.  After an error nothing is written
\* any more: the front frame stays, and so does writing_.
Written(e) ==
    /\ wire[e].up /\ session[e].queue # << >>
    /\ wire' = [wire EXCEPT ![e].s2c = Append(@, Head(session[e].queue))]
    /\ session' = [session EXCEPT ![e].queue = Tail(@)]
    /\ UNCHANGED hub

\* Gateway::Stop: the threads are joined and the sessions destroyed.
Stop ==
    /\ \E e \in Conns : session[e].state = "reading"
    /\ UnsubscribeAll({e \in Conns : session[e].state \in {"accepting", "reading"}})
    /\ wire' = [e \in Conns |-> [wire[e] EXCEPT !.up = FALSE, !.c2s = << >>]]

\* The connection breaks; what was written may still be read.
Break(e) ==
    /\ wire[e].up
    /\ wire' = [wire EXCEPT ![e].up = FALSE]
    /\ UNCHANGED <<session, hub>>

Strand(e) ==
    \/ Accept(e) \/ OnCreateTopic(e) \/ OnListTopics(e) \/ OnPublish(e) \/ OnSubscribe(e)
    \/ OnUnsubscribe(e) \/ OnReadError(e) \/ RunPosted(e) \/ Written(e)
=============================================================================
