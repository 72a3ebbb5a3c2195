-------------------------------- MODULE Batcher --------------------------------
(***************************************************************************)
(* One batched subscription of pubsub-arrow: the delivery handler          *)
(* SubscriberArrow::Subscribe registers, the RecordBatchBatcher it feeds,  *)
(* the batcher's timer thread, and Unsubscribe or the destructor, called   *)
(* by the application or from inside a batch callback.                     *)
(*                                                                         *)
(* Three threads: the provider's delivery thread (the Subscriber's gate    *)
(* admits one delivery of a subscription at a time), the timer thread and  *)
(* an application thread.  Each section under mu_ is one step; the user    *)
(* callback runs between two of them.  A row is its arrival number, and so *)
(* is its attachment.                                                      *)
(***************************************************************************)
EXTENDS Naturals, Sequences

CONSTANTS
    MaxRows,    \* options.max_rows, at least 1
    MaxArrive,  \* bound: rows the provider delivers
    MaxCancel   \* bound: calls of Unsubscribe and of the destructor

ASSUME BatcherAssumption ==
    /\ MaxRows \in Nat \ {0} /\ MaxCancel \in Nat \ {0} /\ MaxArrive \in Nat

Deliverer == "deliverer"
Timer == "timer"
App == "app"
Threads == {Deliverer, Timer, App}

VARIABLES
    b,          \* the RecordBatchBatcher's members
    sub,        \* the SubscriberArrow's books on this subscription and its topic
    stk,        \* what each thread is inside of, innermost last
    out,        \* the batch handed to the callback last
    tally       \* what became of the rows so far

vars == <<b, sub, stk, out, tally>>

NoBatch == [rows |-> << >>, atts |-> << >>, dropped |-> 0, null |-> TRUE, reason |-> "none"]

\* Subscribe has started the timer thread and is inside subscriber_->Subscribe:
\* rows may come before the id is recorded.  A sibling subscription of the
\* topic may have built the codec before.
Init ==
    /\ b = [ready |-> FALSE, stopped |-> FALSE, decoder |-> FALSE, rows |-> << >>,
            atts |-> << >>, dropped |-> 0, deadline |-> FALSE, timer |-> TRUE]
    /\ \E sibling \in BOOLEAN :
          sub = [recorded |-> FALSE, held |-> FALSE, codec |-> sibling, cached |-> FALSE,
                 once |-> FALSE, sibling |-> sibling, retired |-> FALSE, calls |-> 0,
                 by |-> "none"]
    /\ stk = [t \in Threads |-> IF t = Timer THEN <<"loop">> ELSE << >>]
    /\ out = NoBatch
    /\ tally = [arrived |-> 0, delivered |-> << >>, reported |-> 0, late |-> 0,
                extra |-> 0, closed |-> "no"]

-----------------------------------------------------------------------------
(* Threads: what a thread is inside of. *)

At(t, label) == stk[t] # << >> /\ stk[t][Len(stk[t])] = label

Leave(t, s) == [s EXCEPT ![t] = SubSeq(@, 1, Len(@) - 1)]

Enter(t, label, s) == [s EXCEPT ![t] = Append(@, label)]

Become(t, label, s) == Enter(t, label, Leave(t, s))

\* cv_.notify_all(): the timer thread leaves its two waits without a deadline.
Notify(s) ==
    IF s[Timer] \in {<<"idle">>, <<"unready">>} THEN [s EXCEPT ![Timer] = <<"loop">>] ELSE s

NotifyIf(p, s) == IF p THEN Notify(s) ELSE s

-----------------------------------------------------------------------------
(* The batcher's helpers, as functions of its members. *)

HasPending(s) == s.rows # << >> \/ s.dropped > 0

\* Does ArmTimer set a deadline (and notify)?
Arms(s) == ~s.deadline /\ HasPending(s)

ArmTimer(s) == IF Arms(s) THEN [s EXCEPT !.deadline = TRUE] ELSE s

DiscardPending(s, extra) ==
    [s EXCEPT !.dropped = @ + Len(s.rows) + extra, !.rows = << >>, !.atts = << >>]

\* One Append and push_back.  Append throws when the row is malformed or alone
\* exceeds a batch, leaving the batch as it was; on any other failure, of
\* Append or of the push_back after it, the whole window is discarded.
Appended(s, row, outcome) ==
    CASE outcome = "ok" -> [s EXCEPT !.rows = Append(@, row), !.atts = Append(@, row)]
      [] outcome = "refused" -> [s EXCEPT !.dropped = @ + 1]
      [] outcome = "append failed" -> DiscardPending(s, 1)
      [] outcome = "push_back failed" ->
            DiscardPending([s EXCEPT !.rows = Append(@, row)], 1)

Outcomes == {"ok", "refused", "append failed", "push_back failed"}

\* Does Flush hand a batch to the callback?
Hands(s) == s.ready /\ HasPending(s)

\* Mutant: Flush clears the count of lost rows also when it reports nothing.
FlushForgets(s) ==
    [s EXCEPT !.deadline = FALSE, !.rows = << >>, !.atts = << >>, !.dropped = 0]

\* The members after Flush.
Flush(s) ==
    IF Hands(s)
    THEN [s EXCEPT !.deadline = FALSE, !.rows = << >>, !.atts = << >>, !.dropped = 0]
    ELSE [s EXCEPT !.deadline = FALSE]

\* The batch Flush hands over; Finish fails when a window cannot be built.
Batch(s, reason, finishes) ==
    LET w == IF s.decoder /\ ~finishes THEN DiscardPending(s, 0) ELSE s
    IN  [rows |-> w.rows, atts |-> w.atts, dropped |-> w.dropped,
         null |-> ~(s.decoder /\ finishes), reason |-> reason]

\* Flush with something to hand over: it unlocks and thread t enters the
\* callback; next is what t is inside of already.
Hand(t, s, reason, next) ==
    \E finishes \in BOOLEAN :
        LET batch == Batch(s, reason, finishes)
        IN  /\ b' = Flush(s)
            /\ out' = batch
            /\ stk' = Enter(t, "callback", next)
            /\ tally' = [tally EXCEPT
                  !.delivered = @ \o batch.rows, !.reported = @ + batch.dropped,
                  !.closed = IF reason # "kClosing" THEN @ ELSE "ready"]

-----------------------------------------------------------------------------
(* The delivery handler. *)

Row == tally.arrived

Deliver ==
    /\ stk[Deliverer] = << >>
    /\ ~sub.retired
    /\ Row < MaxArrive
    /\ tally' = [tally EXCEPT !.arrived = @ + 1]
    /\ stk' = [stk EXCEPT ![Deliverer] = <<IF sub.cached THEN "once" ELSE "acquire">>]
    /\ UNCHANGED <<b, sub, out>>

\* The registered codec, or one built from the row's schema; none when the row
\* carries no schema or one that cannot be imported.
AcquireCodec ==
    /\ At(Deliverer, "acquire")
    /\ \/ /\ sub' = [sub EXCEPT !.codec = TRUE, !.cached = TRUE]
          /\ stk' = Become(Deliverer, "once", stk)
       \/ /\ ~sub.codec
          /\ stk' = Become(Deliverer, "note", stk)
          /\ UNCHANGED sub
    /\ UNCHANGED <<b, out, tally>>

NoteDropped ==
    /\ At(Deliverer, "note")
    /\ IF b.stopped
       THEN /\ tally' = [tally EXCEPT !.late = @ + 1]
            /\ stk' = Leave(Deliverer, stk)
            /\ UNCHANGED b
       ELSE LET s == [b EXCEPT !.dropped = @ + 1]
            IN  /\ b' = ArmTimer(s)
                /\ stk' = NotifyIf(Arms(s), Leave(Deliverer, stk))
                /\ UNCHANGED tally
    /\ UNCHANGED <<sub, out>>

\* Mutant: SetSchema does not notify.
SetSchemaQuietly ==
    /\ At(Deliverer, "once")
    /\ IF sub.once
       THEN /\ stk' = Become(Deliverer, "add", stk)
            /\ UNCHANGED <<b, sub>>
       ELSE \E decodable \in BOOLEAN :
            /\ b' = [b EXCEPT !.decoder = sub.codec /\ decodable, !.ready = sub.codec]
            /\ sub' = [sub EXCEPT !.once = TRUE]
            /\ stk' = Become(Deliverer, "add", stk)
    /\ UNCHANGED <<out, tally>>

\* The call_once: the schema of the registered codec, null if a sibling's
\* Unsubscribe erased it meanwhile, goes to SetSchema, where BatchDecoder may
\* reject it.  A new decoder is empty, so its row limit cannot be reached.
SetSchema ==
    /\ At(Deliverer, "once")
    /\ IF sub.once
       THEN /\ stk' = Become(Deliverer, "add", stk)
            /\ UNCHANGED <<b, sub>>
       ELSE \E decodable \in BOOLEAN :
            /\ b' = [b EXCEPT !.decoder = sub.codec /\ decodable, !.ready = sub.codec]
            /\ sub' = [sub EXCEPT !.once = TRUE]
            /\ stk' = Notify(Become(Deliverer, "add", stk))
    /\ UNCHANGED <<out, tally>>

\* The tail of AddRow from members s on: arm the timer, flush a full window.
Added(s) ==
    /\ IF s.ready /\ Len(s.rows) >= MaxRows
       THEN Hand(Deliverer, s, "kRowLimit", NotifyIf(Arms(s), Leave(Deliverer, stk)))
       ELSE /\ b' = ArmTimer(s)
            /\ stk' = NotifyIf(Arms(s), Leave(Deliverer, stk))
            /\ UNCHANGED <<out, tally>>

\* Append the row and go on; a failed push_back is counted once too often.
TryAppend(s) ==
    \/ \E outcome \in Outcomes \ {"push_back failed"} : Added(Appended(s, Row, outcome))
    \/ /\ b' = ArmTimer(Appended(s, Row, "push_back failed"))
       /\ stk' = NotifyIf(~s.deadline, Leave(Deliverer, stk))
       /\ tally' = [tally EXCEPT !.extra = @ + 1]
       /\ UNCHANGED out

TooLate ==
    /\ tally' = [tally EXCEPT !.late = @ + 1]
    /\ stk' = Leave(Deliverer, stk)
    /\ UNCHANGED <<b, out>>

\* A row that does not fit the batch any more closes it and is appended again.
AddRow ==
    /\ At(Deliverer, "add")
    /\ IF b.stopped THEN TooLate
       ELSE IF ~b.decoder THEN Added([b EXCEPT !.dropped = @ + 1])
       ELSE \/ TryAppend(b)
            \/ Hands(b) /\ Hand(Deliverer, b, "kRowLimit", Become(Deliverer, "again", stk))
            \/ ~Hands(b) /\ TryAppend(Flush(b))
    /\ UNCHANGED sub

\* After the callback, the lock taken again: Stop may have come in between.
AddRowAgain ==
    /\ At(Deliverer, "again")
    /\ IF b.stopped THEN TooLate ELSE TryAppend(b)
    /\ UNCHANGED sub

-----------------------------------------------------------------------------
(* The timer thread.  A deadline may pass at any time once it is set. *)

TimerLoop ==
    /\ At(Timer, "loop")
    /\ stk' = [stk EXCEPT ![Timer] =
          IF b.stopped THEN <<"exited">> ELSE IF b.deadline THEN <<"timed">> ELSE <<"idle">>]
    /\ UNCHANGED <<b, sub, out, tally>>

\* wait_until returns: the predicate holds, or the deadline has passed.
TimerExpires ==
    /\ At(Timer, "timed")
    /\ LET loop == Become(Timer, "loop", stk)
           idle == b.stopped \/ ~b.deadline
       IN  IF ~idle /\ Hands(b) THEN Hand(Timer, b, "kTimeout", loop)
           ELSE /\ b' = IF ~idle /\ b.ready THEN Flush(b) ELSE b
                /\ stk' = IF idle \/ b.ready THEN loop ELSE Become(Timer, "unready", stk)
                /\ UNCHANGED <<out, tally>>
    /\ UNCHANGED sub

-----------------------------------------------------------------------------
(* The user's callback, Unsubscribe and the destructor. *)

CallbackReturns(t) ==
    /\ At(t, "callback")
    /\ stk' = Leave(t, stk)
    /\ UNCHANGED <<b, sub, out, tally>>

SubscribeReturns ==
    /\ ~sub.recorded /\ sub.calls = 0
    /\ sub' = [sub EXCEPT !.recorded = TRUE, !.held = TRUE]
    /\ UNCHANGED <<b, stk, out, tally>>

\* Another subscription of the topic ends: the codec goes with it unless this
\* one is recorded.
SiblingUnsubscribes ==
    /\ sub.sibling
    /\ sub' = [sub EXCEPT !.sibling = FALSE, !.codec = @ /\ sub.recorded]
    /\ UNCHANGED <<b, stk, out, tally>>

\* The application, or a batch callback, calls Unsubscribe: the batcher is
\* taken out of batchers_ and stopped if it is still there.  A second call
\* finds it gone and goes on to the Subscriber.
Unsubscribe(t) ==
    /\ sub.recorded /\ sub.calls < MaxCancel
    /\ At(t, "callback") \/ (t = App /\ stk[t] = << >>)
    /\ stk' = Enter(t, IF sub.held THEN "stop" ELSE "late", stk)
    /\ sub' = [sub EXCEPT !.held = FALSE, !.calls = @ + 1]
    /\ UNCHANGED <<b, out, tally>>

\* ~SubscriberArrow, while no other call is under way.
Destroy ==
    /\ sub.recorded /\ sub.calls = 0 /\ stk[App] = << >>
    /\ stk' = Enter(App, "stop", stk)
    /\ sub' = [sub EXCEPT !.held = FALSE, !.calls = MaxCancel, !.sibling = FALSE]
    /\ UNCHANGED <<b, out, tally>>

\* Where Stop goes once the timer_ handle is taken: the timer thread detaches
\* itself, any other thread joins it.
AfterStop(t) == IF b.timer /\ t # Timer THEN "join" ELSE "drain"

\* The first half of Stop: the flag and the closing flush.
Stop(t) ==
    /\ At(t, "stop")
    /\ IF ~b.stopped /\ Hands(b)
       THEN Hand(t, [b EXCEPT !.stopped = TRUE], "kClosing", Become(t, "stopping", stk))
       ELSE /\ b' = [(IF b.stopped THEN b ELSE Flush(b)) EXCEPT !.stopped = TRUE, !.timer = FALSE]
            /\ stk' = NotifyIf(~b.stopped, Become(t, AfterStop(t), stk))
            /\ tally' = [tally EXCEPT !.closed =
                  IF b.stopped THEN @ ELSE IF b.ready THEN "ready" ELSE "unready"]
            /\ UNCHANGED out
    /\ UNCHANGED sub

\* Mutant: the handle is detached whoever calls.
StoppingDetaches(t) ==
    /\ At(t, "stopping")
    /\ b' = [b EXCEPT !.timer = FALSE]
    /\ stk' = Notify(Become(t, "drain", stk))
    /\ UNCHANGED <<sub, out, tally>>

\* The second half, after the closing callback: notify and take timer_.
Stopping(t) ==
    /\ At(t, "stopping")
    /\ b' = [b EXCEPT !.timer = FALSE]
    /\ stk' = Notify(Become(t, AfterStop(t), stk))
    /\ UNCHANGED <<sub, out, tally>>

Join(t) ==
    /\ At(t, "join")
    /\ stk[Timer] = <<"exited">>
    /\ stk' = Become(t, "drain", stk)
    /\ UNCHANGED <<b, sub, out, tally>>

\* subscriber_->Unsubscribe, or ~Subscriber: no delivery starts any more ...
Retire(t) ==
    /\ At(t, "drain") \/ At(t, "late")
    /\ sub' = [sub EXCEPT !.retired = TRUE]
    /\ stk' = Become(t, IF At(t, "drain") THEN "drained" ELSE "late drained", stk)
    /\ UNCHANGED <<b, out, tally>>

\* ... and one that is running is waited for, except from inside it; then the
\* books are closed, and the codec goes with the topic's last subscription.
Forget(t) ==
    /\ At(t, "drained") \/ At(t, "late drained")
    /\ t = Deliverer \/ stk[Deliverer] = << >>
    /\ sub' = [sub EXCEPT !.recorded = FALSE, !.codec = @ /\ (sub.sibling \/ ~sub.recorded),
                          !.by = IF At(t, "drained") THEN t ELSE @]
    /\ stk' = Leave(t, stk)
    /\ UNCHANGED <<b, out, tally>>

Cancelling(t) ==
    Unsubscribe(t) \/ Stop(t) \/ Stopping(t) \/ Join(t) \/ Retire(t) \/ Forget(t)

Handler ==
    AcquireCodec \/ NoteDropped \/ SetSchema \/ AddRow \/ AddRowAgain

Next ==
    \/ Deliver \/ Handler
    \/ TimerLoop \/ TimerExpires
    \/ SubscribeReturns \/ SiblingUnsubscribes \/ Destroy
    \/ \E t \in Threads : CallbackReturns(t) \/ Cancelling(t)

\* Threads that hold a runnable section get to run it, the timer's deadline
\* passes, and user callbacks return.
Fairness ==
    /\ WF_vars(Handler) /\ WF_vars(TimerLoop) /\ WF_vars(TimerExpires)
    /\ \A t \in Threads :
          /\ WF_vars(CallbackReturns(t))
          /\ WF_vars(Stop(t) \/ Stopping(t) \/ Join(t) \/ Retire(t) \/ Forget(t))

Spec == Init /\ [][Next]_vars /\ Fairness

-----------------------------------------------------------------------------
(* Properties. *)

Inside(t, labels) == \E k \in DOMAIN stk[t] : stk[t][k] \in labels

RowLabels == {"acquire", "note", "once", "add", "again"}
StopLabels == {"stop", "stopping", "join", "drain", "drained"}
LateLabels == {"late", "late drained"}
CancelLabels == StopLabels \cup LateLabels

\* The deliverer has a row no section has disposed of yet.
InHand == IF Inside(Deliverer, RowLabels) THEN 1 ELSE 0

\* Every row AddRow or NoteDropped took before Stop is in exactly one batch, in
\* the order of arrival, or waits for the next one, or is counted as lost; only
\* a failed push_back counts one row twice.  attachments[i] belongs to row i of
\* every batch, whatever windows were discarded before, and after the closing
\* batch nothing waits (AddRow, Flush, DiscardPending, Stop).
RowsAccountedFor ==
    /\ tally.arrived + tally.extra =
          Len(tally.delivered) + Len(b.rows) + b.dropped + tally.reported + tally.late + InHand
    /\ LET seen == tally.delivered \o b.rows
       IN  \A i, j \in DOMAIN seen : i < j => seen[i] < seen[j]
    /\ out.atts = out.rows
    /\ tally.closed = "ready" => b.rows = << >> /\ b.dropped = 0

\* When the destructor, or the Unsubscribe that took the batcher, has returned,
\* no other thread is inside the batch callback, and the timer thread is gone
\* unless it was the caller (Stop's join, then the Subscriber's own barrier).
QuietAfterUnsubscribe ==
    sub.by # "none" =>
        /\ \A t \in Threads \ {sub.by} : ~Inside(t, {"callback"})
        /\ sub.by # Timer => stk[Timer] = <<"exited">>

\* Unsubscribe and the destructor return, called from the application, from a
\* callback of the delivery thread or from one of the timer: Start's comment says
\* that the callback "may call SubscriberArrow::Unsubscribe" (Stop's notify and
\* join, the Subscriber's barrier).  Violated when a callback of either thread
\* makes the call: the delivery thread joins the timer, whose callback waits for
\* the delivery to end.
UnsubscribeReturns ==
    \A t \in Threads : Inside(t, CancelLabels) ~> ~Inside(t, CancelLabels)

\* A row in the window reaches the callback or is reported lost without another
\* row coming, and so does the count of lost rows once the schema is known
\* (ArmTimer, SetSchema, TimerLoop); and a cancellation that meets no second
\* one returns.
EverythingEnds ==
    /\ (b.rows # << >> \/ (b.ready /\ b.dropped > 0 /\ ~b.stopped)) ~>
           (b.rows = << >> /\ (b.dropped = 0 \/ b.stopped))
    /\ \A t \in Threads :
          Inside(t, CancelLabels) ~>
              (~Inside(t, CancelLabels) \/ \E u \in Threads : Inside(u, LateLabels))
=============================================================================
