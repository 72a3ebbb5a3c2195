---------------------------- MODULE BatcherProof ----------------------------
(***************************************************************************)
(* RowsAccountedFor and QuietAfterUnsubscribe for any window size, any     *)
(* number of rows and any number of Unsubscribe calls, nested in callbacks *)
(* to any depth.                                                           *)
(*                                                                         *)
(* The stacks are unbounded, so what a step does to the rest of a stack    *)
(* has to be said once for all steps: Steps(t, s).  Two invariants rest on *)
(* it.  RowsInv: a row is in one place.  QuietInv: one call takes the      *)
(* batcher, and where that call stands tells how quiet the others are.     *)
(***************************************************************************)
EXTENDS Batcher, TLAPS

TimerLabels == {"loop", "idle", "timed", "unready", "exited"}
Labels == RowLabels \cup CancelLabels \cup TimerLabels \cup {"callback"}

Members ==
    [ready : BOOLEAN, stopped : BOOLEAN, decoder : BOOLEAN, rows : Seq(Nat),
     atts : Seq(Nat), dropped : Nat, deadline : BOOLEAN, timer : BOOLEAN]
Books ==
    [recorded : BOOLEAN, held : BOOLEAN, codec : BOOLEAN, cached : BOOLEAN,
     once : BOOLEAN, sibling : BOOLEAN, retired : BOOLEAN, calls : Nat,
     by : Threads \cup {"none"}]
Tallies ==
    [arrived : Nat, delivered : Seq(Nat), reported : Nat, late : Nat, extra : Nat,
     closed : {"no", "ready", "unready"}]

TypeOK ==
    /\ b \in Members
    /\ sub \in Books
    /\ stk \in [Threads -> Seq(Labels)]
    /\ tally \in Tallies

\* A row in hand is at the bottom of the delivery thread's stack.
RowPlace ==
    \A t \in Threads : \A k \in DOMAIN stk[t] :
        stk[t][k] \in RowLabels => t = Deliverer /\ k = 1

Rising(s) == \A i, j \in DOMAIN s : i < j => s[i] < s[j]
Below(s, n) == \A i \in DOMAIN s : s[i] <= n

\* Members s and tally r account for every row, with h of them in hand.
Count(s, r) == Len(r.delivered) + Len(s.rows)

Placed(s, r, h) ==
    /\ r.arrived + r.extra = Count(s, r) + s.dropped + r.reported + r.late + h
    /\ Rising(r.delivered \o s.rows) /\ Below(r.delivered \o s.rows, r.arrived - h)
    /\ s.atts = s.rows
    /\ r.closed = "ready" => s.stopped /\ s.rows = << >> /\ s.dropped = 0

RowsInv == RowPlace /\ Placed(b, tally, InHand) /\ out.atts = out.rows

\* Until a call takes the batcher, its timer_ handle is there.
Fresh ==
    sub.calls = 0 \/ sub.held => b.timer /\ \A t \in Threads : ~Inside(t, StopLabels)

\* One call takes it.
OneStop ==
    \A t, u \in Threads : \A k \in DOMAIN stk[t], l \in DOMAIN stk[u] :
        stk[t][k] \in StopLabels /\ stk[u][l] \in StopLabels => t = u /\ k = l

\* How far it has come: the handle, the join, the Subscriber's barrier.
Handle == \A t \in Threads : Inside(t, {"stop", "stopping"}) => b.timer
Joined ==
    \A t \in Threads : t # Timer /\ Inside(t, {"drain", "drained"}) => stk[Timer] = <<"exited">>
Retired == \A t \in Threads : Inside(t, {"drained"}) => sub.retired

\* The application thread runs a callback only inside the call that stops.
AppCalls ==
    \A k \in DOMAIN stk[App] : stk[App][k] = "callback" =>
        \E l \in 1..(k - 1) : stk[App][l] \in StopLabels

\* It has returned.
Returned ==
    sub.by # "none" =>
        /\ sub.retired /\ sub.calls # 0 /\ ~sub.held
        /\ \A t \in Threads : ~Inside(t, StopLabels)
        /\ sub.by # Deliverer => stk[Deliverer] = << >>
        /\ sub.by # Timer => stk[Timer] = <<"exited">>

QuietInv == Fresh /\ OneStop /\ Handle /\ Joined /\ Retired /\ AppCalls /\ Returned

-----------------------------------------------------------------------------
(* Stacks. *)

Pop(s) == SubSeq(s, 1, Len(s) - 1)
Waits == {<<"idle">>, <<"unready">>}

\* Thread t keeps the n outermost labels of its stack and puts labels of X on
\* them; a waiting timer may be woken.
Moves(t, n, X) ==
    /\ stk' \in [Threads -> Seq(Labels)]
    /\ n \in Nat /\ n <= Len(stk[t]) /\ n <= Len(stk'[t])
    /\ \A k \in 1..n : stk'[t][k] = stk[t][k]
    /\ \A k \in (n + 1)..Len(stk'[t]) : stk'[t][k] \in X
    /\ \A u \in Threads : u # t =>
          \/ stk'[u] = stk[u]
          \/ u = Timer /\ stk[u] \in Waits /\ stk'[u] = <<"loop">>

\* What a stack without its innermost label is.
LEMMA PopTyped ==
  ASSUME NEW S, NEW s \in Seq(S), s # << >>
  PROVE  /\ Pop(s) \in Seq(S) /\ Len(s) \in Nat \ {0} /\ Len(Pop(s)) = Len(s) - 1
         /\ \A k \in 1..(Len(s) - 1) : Pop(s)[k] = s[k]
<1>1. Len(s) \in Nat \ {0}
  OBVIOUS
<1>2. \A k \in 1..(Len(s) - 1) : s[k] \in S
  BY <1>1
<1>3. Pop(s) = [k \in 1..(Len(s) - 1) |-> s[k]]
  BY <1>1 DEF Pop
<1>. QED
  BY <1>1, <1>2, <1>3

\* The same for a label put on a stack.
LEMMA PushTyped ==
  ASSUME NEW S, NEW s \in Seq(S), NEW l \in S
  PROVE  /\ Append(s, l) \in Seq(S) /\ Len(Append(s, l)) = Len(s) + 1 /\ Len(s) \in Nat
         /\ Append(s, l)[Len(s) + 1] = l
         /\ \A k \in 1..Len(s) : Append(s, l)[k] = s[k]
OBVIOUS

\* Notify leaves every stack but a waiting timer's alone.
LEMMA NotifySteps ==
  ASSUME NEW t \in Threads, NEW s \in Seq(Labels), stk \in [Threads -> Seq(Labels)],
         NEW p \in BOOLEAN, p => (t = Timer => s \notin Waits),
         stk' = NotifyIf(p, [stk EXCEPT ![t] = s])
  PROVE  /\ stk' \in [Threads -> Seq(Labels)] /\ stk'[t] = s
         /\ \A u \in Threads : u # t =>
               \/ stk'[u] = stk[u]
               \/ u = Timer /\ stk[u] \in Waits /\ stk'[u] = <<"loop">>
<1> DEFINE m == [stk EXCEPT ![t] = s]
<1>1. m \in [Threads -> Seq(Labels)] /\ m[t] = s /\ \A u \in Threads : u # t => m[u] = stk[u]
  OBVIOUS
<1>2. <<"loop">> \in Seq(Labels) /\ Timer \in Threads
  BY DEF Labels, TimerLabels, Threads
<1> HIDE DEF m
<1>3. \/ stk' = m
      \/ p /\ m[Timer] \in Waits /\ stk' = [m EXCEPT ![Timer] = <<"loop">>]
  BY DEF NotifyIf, Notify, Waits, m
<1>4. CASE stk' = m
  BY <1>1, <1>4
<1>5. CASE p /\ m[Timer] \in Waits /\ stk' = [m EXCEPT ![Timer] = <<"loop">>]
  <2>1. t # Timer
    BY <1>1, <1>5
  <2>. QED
    BY <1>1, <1>2, <1>5, <2>1
<1>. QED
  BY <1>3, <1>4, <1>5

\* Leave, with a notify_all or without.
LEMMA LeaveMoves ==
  ASSUME NEW t \in Threads, stk \in [Threads -> Seq(Labels)], stk[t] # << >>,
         NEW p \in BOOLEAN, p => t # Timer, stk' = NotifyIf(p, Leave(t, stk))
  PROVE  Moves(t, Len(stk[t]) - 1, {}) /\ Len(stk'[t]) = Len(stk[t]) - 1
<1>1. stk' = NotifyIf(p, [stk EXCEPT ![t] = Pop(stk[t])])
  BY DEF Leave, Pop
<1>2. /\ Pop(stk[t]) \in Seq(Labels) /\ Len(stk[t]) \in Nat \ {0}
      /\ Len(Pop(stk[t])) = Len(stk[t]) - 1
      /\ \A k \in 1..(Len(stk[t]) - 1) : Pop(stk[t])[k] = stk[t][k]
  BY PopTyped
<1>3. /\ stk' \in [Threads -> Seq(Labels)] /\ stk'[t] = Pop(stk[t])
      /\ \A u \in Threads : u # t =>
            \/ stk'[u] = stk[u]
            \/ u = Timer /\ stk[u] \in Waits /\ stk'[u] = <<"loop">>
  BY <1>1, <1>2, NotifySteps
<1>. QED
  BY <1>2, <1>3 DEF Moves

\* A label that replaces the innermost one.
LEMMA BecomeMoves ==
  ASSUME NEW t \in Threads, stk \in [Threads -> Seq(Labels)], stk[t] # << >>,
         NEW l \in Labels, NEW p \in BOOLEAN, p => l \notin {"idle", "unready"},
         stk' = NotifyIf(p, Become(t, l, stk))
  PROVE  /\ Moves(t, Len(stk[t]) - 1, {l})
         /\ Len(stk'[t]) = Len(stk[t]) /\ stk'[t][Len(stk[t])] = l
<1> DEFINE s == Append(Pop(stk[t]), l)
<1>1. stk' = NotifyIf(p, [stk EXCEPT ![t] = s])
  BY DEF Become, Enter, Leave, Pop
<1>2. /\ Pop(stk[t]) \in Seq(Labels) /\ Len(stk[t]) \in Nat \ {0}
      /\ Len(Pop(stk[t])) = Len(stk[t]) - 1
      /\ \A k \in 1..(Len(stk[t]) - 1) : Pop(stk[t])[k] = stk[t][k]
  BY PopTyped
<1>3. /\ s \in Seq(Labels) /\ Len(s) = Len(Pop(stk[t])) + 1 /\ s[Len(Pop(stk[t])) + 1] = l
      /\ \A k \in 1..Len(Pop(stk[t])) : s[k] = Pop(stk[t])[k]
  BY <1>2, PushTyped
<1> HIDE DEF s
<1>4. s[Len(s)] = l /\ Len(s) = Len(stk[t]) /\ \A k \in 1..(Len(s) - 1) : s[k] = stk[t][k]
  BY <1>2, <1>3
<1>5. p => s \notin Waits
  BY <1>4 DEF Waits
<1>6. /\ stk' \in [Threads -> Seq(Labels)] /\ stk'[t] = s
      /\ \A u \in Threads : u # t =>
            \/ stk'[u] = stk[u]
            \/ u = Timer /\ stk[u] \in Waits /\ stk'[u] = <<"loop">>
  BY <1>1, <1>3, <1>5, NotifySteps
<1>7. \A k \in ((Len(s) - 1) + 1)..Len(s) : s[k] = l
  BY <1>2, <1>4
<1>. QED
  BY <1>2, <1>4, <1>6, <1>7 DEF Moves

\* A label put on top.
LEMMA EnterMoves ==
  ASSUME NEW t \in Threads, stk \in [Threads -> Seq(Labels)], NEW l \in Labels,
         stk' = Enter(t, l, stk)
  PROVE  /\ Moves(t, Len(stk[t]), {l})
         /\ Len(stk'[t]) = Len(stk[t]) + 1 /\ stk'[t][Len(stk[t]) + 1] = l
<1> DEFINE s == Append(stk[t], l)
<1>1. /\ s \in Seq(Labels) /\ Len(s) = Len(stk[t]) + 1 /\ Len(stk[t]) \in Nat
      /\ s[Len(stk[t]) + 1] = l /\ \A k \in 1..Len(stk[t]) : s[k] = stk[t][k]
  BY PushTyped
<1>2. stk' = [stk EXCEPT ![t] = s]
  BY DEF Enter
<1> HIDE DEF s
<1>3. \A k \in (Len(stk[t]) + 1)..Len(s) : s[k] = l
  BY <1>1
<1>. QED
  BY <1>1, <1>2, <1>3 DEF Moves

\* A stack of one label.
LEMMA StartMoves ==
  ASSUME NEW t \in Threads, stk \in [Threads -> Seq(Labels)], NEW l \in Labels,
         stk' = [stk EXCEPT ![t] = <<l>>]
  PROVE  Moves(t, 0, {l}) /\ Len(stk'[t]) = 1 /\ stk'[t][1] = l
<1>1. /\ stk' \in [Threads -> Seq(Labels)] /\ stk'[t] = <<l>>
      /\ \A u \in Threads : u # t => stk'[u] = stk[u]
  OBVIOUS
<1>2. Len(stk'[t]) = 1 /\ stk'[t][1] = l /\ Len(stk[t]) \in Nat /\ \A k \in (0 + 1)..1 : k = 1
  BY <1>1
<1>. QED
  BY <1>1, <1>2 DEF Moves

\* Flush inside a section that goes on after the callback.
LEMMA HandMoves ==
  ASSUME NEW t \in Threads, stk \in [Threads -> Seq(Labels)], stk[t] # << >>,
         NEW l \in Labels, stk' = Enter(t, "callback", Become(t, l, stk))
  PROVE  /\ Moves(t, Len(stk[t]) - 1, {l, "callback"})
         /\ Len(stk'[t]) = Len(stk[t]) + 1 /\ stk'[t][Len(stk[t])] = l
         /\ stk'[t][Len(stk[t]) + 1] = "callback"
<1> DEFINE s == Append(Pop(stk[t]), l)
           r == Append(s, "callback")
<1>1. stk' = [stk EXCEPT ![t] = r]
  BY DEF Become, Enter, Leave, Pop
<1>2. /\ Pop(stk[t]) \in Seq(Labels) /\ Len(stk[t]) \in Nat \ {0}
      /\ Len(Pop(stk[t])) = Len(stk[t]) - 1
      /\ \A k \in 1..(Len(stk[t]) - 1) : Pop(stk[t])[k] = stk[t][k]
  BY PopTyped
<1>3. /\ s \in Seq(Labels) /\ Len(s) = Len(Pop(stk[t])) + 1 /\ s[Len(Pop(stk[t])) + 1] = l
      /\ \A k \in 1..Len(Pop(stk[t])) : s[k] = Pop(stk[t])[k]
  BY <1>2, PushTyped
<1> HIDE DEF s
<1>4. Len(s) = Len(stk[t]) /\ s[Len(s)] = l /\ \A k \in 1..(Len(s) - 1) : s[k] = stk[t][k]
  BY <1>2, <1>3
<1>5. /\ r \in Seq(Labels) /\ Len(r) = Len(s) + 1 /\ r[Len(s) + 1] = "callback"
      /\ \A k \in 1..Len(s) : r[k] = s[k]
  BY <1>3, PushTyped DEF Labels
<1> HIDE DEF r
<1>6. \A k \in ((Len(s) - 1) + 1)..Len(r) : r[k] \in {l, "callback"}
  BY <1>2, <1>4, <1>5
<1>7. r[Len(s)] = l /\ \A k \in 1..(Len(s) - 1) : r[k] = stk[t][k]
  BY <1>2, <1>4, <1>5
<1>8. /\ stk' \in [Threads -> Seq(Labels)] /\ stk'[t] = r
      /\ \A u \in Threads : u # t => stk'[u] = stk[u]
  BY <1>1, <1>5
<1>. QED
  BY <1>2, <1>4, <1>5, <1>6, <1>7, <1>8 DEF Moves

\* Flush as the last thing a section does.
LEMMA CallMoves ==
  ASSUME NEW t \in Threads, t # Timer, stk \in [Threads -> Seq(Labels)], stk[t] # << >>,
         NEW p \in BOOLEAN, stk' = Enter(t, "callback", NotifyIf(p, Leave(t, stk)))
  PROVE  Moves(t, Len(stk[t]) - 1, {"callback"})
<1>1. stk' = NotifyIf(p, Become(t, "callback", stk))
  BY DEF NotifyIf, Notify, Become, Enter, Leave, Threads
<1>2. "callback" \in Labels
  BY DEF Labels
<1>. QED
  BY <1>1, <1>2, BecomeMoves

-----------------------------------------------------------------------------
(* What a step does to the row in hand. *)

\* A thread that is inside a row's section is the deliverer, at the bottom.
LEMMA RowAtBottom ==
  ASSUME TypeOK, RowPlace, NEW x \in RowLabels, At(Deliverer, x)
  PROVE  Len(stk[Deliverer]) = 1 /\ stk[Deliverer] # << >> /\ InHand = 1
<1>1. Deliverer \in Threads /\ stk[Deliverer] \in Seq(Labels) /\ stk[Deliverer] # << >>
  BY DEF TypeOK, At, Threads
<1>2. Len(stk[Deliverer]) \in DOMAIN stk[Deliverer]
  BY <1>1
<1>. QED
  BY <1>1, <1>2 DEF At, RowPlace, InHand, Inside

\* A step that neither takes nor puts down a row.
LEMMA RowStays ==
  ASSUME TypeOK, RowPlace, NEW t \in Threads, NEW n, NEW X, Moves(t, n, X),
         \A x \in X : x \notin RowLabels,
         \A k \in (n + 1)..Len(stk[t]) : stk[t][k] \notin RowLabels
  PROVE  RowPlace' /\ InHand' = InHand
<1>1. \A u \in Threads : /\ stk[u] \in Seq(Labels) /\ DOMAIN stk[u] = 1..Len(stk[u])
                         /\ stk'[u] \in Seq(Labels) /\ DOMAIN stk'[u] = 1..Len(stk'[u])
                         /\ Len(stk[u]) \in Nat /\ Len(stk'[u]) \in Nat
  BY DEF TypeOK, Moves
<1>2. ASSUME NEW u \in Threads, NEW k \in DOMAIN stk'[u], stk'[u][k] \in RowLabels
      PROVE  k \in DOMAIN stk[u] /\ stk[u][k] = stk'[u][k]
  <2>1. CASE u = t
    BY <1>1, <1>2, <2>1 DEF Moves
  <2>2. CASE u # t
    <3>1. stk'[u] # <<"loop">>
      BY <1>2 DEF RowLabels
    <3>. QED
      BY <1>2, <2>2, <3>1 DEF Moves
  <2>. QED
    BY <2>1, <2>2
<1>3. ASSUME NEW u \in Threads, NEW k \in DOMAIN stk[u], stk[u][k] \in RowLabels
      PROVE  k \in DOMAIN stk'[u] /\ stk'[u][k] = stk[u][k]
  <2>1. CASE u = t
    BY <1>1, <1>3, <2>1 DEF Moves
  <2>2. CASE u # t
    <3>1. stk[u] \notin Waits
      BY <1>3 DEF RowLabels, Waits
    <3>. QED
      BY <1>3, <2>2, <3>1 DEF Moves
  <2>. QED
    BY <2>1, <2>2
<1>4. RowPlace'
  BY <1>2 DEF RowPlace
<1>5. Inside(Deliverer, RowLabels)' <=> Inside(Deliverer, RowLabels)
  BY <1>2, <1>3 DEF Inside, Threads
<1>. QED
  BY <1>4, <1>5 DEF InHand

\* The deliverer's only section: it puts the row down, or keeps it.
LEMMA RowMoves ==
  ASSUME TypeOK, RowPlace, NEW X, Moves(Deliverer, 0, X),
         \A k \in 2..Len(stk'[Deliverer]) : stk'[Deliverer][k] \notin RowLabels
  PROVE  /\ RowPlace'
         /\ Len(stk'[Deliverer]) = 0 \/ stk'[Deliverer][1] \notin RowLabels => InHand' = 0
         /\ Len(stk'[Deliverer]) # 0 /\ stk'[Deliverer][1] \in RowLabels => InHand' = 1
<1>1. \A u \in Threads : /\ stk[u] \in Seq(Labels) /\ DOMAIN stk[u] = 1..Len(stk[u])
                         /\ stk'[u] \in Seq(Labels) /\ DOMAIN stk'[u] = 1..Len(stk'[u])
                         /\ Len(stk[u]) \in Nat /\ Len(stk'[u]) \in Nat
  BY DEF TypeOK, Moves
<1>2. Deliverer \in Threads
  BY DEF Threads
<1>3. ASSUME NEW u \in Threads, NEW k \in DOMAIN stk'[u], stk'[u][k] \in RowLabels
      PROVE  u = Deliverer /\ k = 1
  <2>1. CASE u = Deliverer
    <3>1. k \in 1..Len(stk'[Deliverer]) /\ Len(stk'[Deliverer]) \in Nat
      BY <1>1, <2>1
    <3>. QED
      BY <1>3, <2>1, <3>1
  <2>2. CASE u # Deliverer
    <3>1. stk'[u] # <<"loop">>
      BY <1>3 DEF RowLabels
    <3>. QED
      BY <1>3, <2>2, <3>1 DEF Moves, RowPlace
  <2>. QED
    BY <2>1, <2>2
<1>4. RowPlace'
  BY <1>3 DEF RowPlace
<1>5. Inside(Deliverer, RowLabels)' <=>
          Len(stk'[Deliverer]) # 0 /\ stk'[Deliverer][1] \in RowLabels
  BY <1>1, <1>2, <1>3 DEF Inside
<1>. QED
  BY <1>4, <1>5 DEF InHand

-----------------------------------------------------------------------------
(* The batcher's helpers keep the account. *)

\* The same rows in the same order, none of them newer than what has arrived.
LEMMA PlacedFrom ==
  ASSUME NEW s \in Members, NEW r \in Tallies, NEW h \in {0, 1}, Placed(s, r, h),
         NEW w \in Members, NEW q \in Tallies, NEW g \in {0, 1},
         q.delivered \o w.rows = r.delivered \o s.rows,
         r.arrived + g <= q.arrived + h,
         q.arrived + q.extra =
          Count(w, q) + w.dropped + q.reported + q.late + g,
         w.atts = w.rows,
         q.closed = "ready" => w.stopped /\ w.rows = << >> /\ w.dropped = 0
  PROVE  Placed(w, q, g)
<1> DEFINE seen == r.delivered \o s.rows
<1>1. r.arrived \in Nat /\ q.arrived \in Nat
  BY DEF Tallies
<1>2. seen \in Seq(Nat)
  BY DEF Members, Tallies
<1>3. Rising(seen) /\ Below(seen, r.arrived - h)
  BY DEF Placed
<1> HIDE DEF seen
<1>4. \A i \in DOMAIN seen : seen[i] \in Nat
  BY <1>2
<1>5. Below(seen, q.arrived - g)
  BY <1>1, <1>3, <1>4 DEF Below
<1>6. q.delivered \o w.rows = seen
  BY DEF seen
<1>. QED
  BY <1>3, <1>5, <1>6 DEF Placed

\* The tally's fields and the members' are numbers.
LEMMA Numbers ==
  ASSUME NEW s \in Members, NEW r \in Tallies
  PROVE  /\ r.arrived \in Nat /\ r.late \in Nat /\ s.dropped \in Nat /\ r.extra \in Nat
         /\ r.reported \in Nat /\ Count(s, r) \in Nat
         /\ r.delivered \in Seq(Nat) /\ s.rows \in Seq(Nat) /\ s.atts \in Seq(Nat)
BY DEF Members, Tallies, Count

\* What the account says, field by field.
LEMMA PlacedSays ==
  ASSUME NEW s, NEW r, NEW h, Placed(s, r, h)
  PROVE  /\ r.arrived + r.extra =
          Count(s, r) + s.dropped + r.reported + r.late + h
         /\ s.atts = s.rows
         /\ r.closed = "ready" => s.stopped /\ s.rows = << >> /\ s.dropped = 0
BY DEF Placed

\* The next row is taken.
LEMMA PlacedArrives ==
  ASSUME NEW s \in Members, NEW r \in Tallies, Placed(s, r, 0)
  PROVE  Placed(s, [r EXCEPT !.arrived = @ + 1], 1)
<1> DEFINE q == [r EXCEPT !.arrived = @ + 1]
<1>1. q \in Tallies /\ q.arrived = r.arrived + 1
  BY DEF Tallies
<1>2. /\ q.delivered = r.delivered /\ q.reported = r.reported /\ q.late = r.late
      /\ q.extra = r.extra /\ q.closed = r.closed /\ Count(s, q) = Count(s, r)
  BY DEF Tallies, Count
<1> HIDE DEF q
<1>n. /\ r.arrived \in Nat /\ r.late \in Nat /\ s.dropped \in Nat /\ r.extra \in Nat
      /\ r.reported \in Nat /\ Count(s, r) \in Nat
  BY Numbers
<1>p. r.arrived + r.extra =
          Count(s, r) + s.dropped + r.reported + r.late + 0
  BY PlacedSays
<1>3. q.arrived + q.extra =
          Count(s, q) + s.dropped + q.reported + q.late + 1
  BY <1>1, <1>2, <1>n, <1>p
<1>4. r.arrived + 1 <= q.arrived + 0
  BY <1>1, Numbers
<1>5. /\ q.delivered \o s.rows = r.delivered \o s.rows /\ s.atts = s.rows
      /\ q.closed = "ready" => s.stopped /\ s.rows = << >> /\ s.dropped = 0
  BY <1>2, PlacedSays
<1>6. Placed(s, q, 1)
  BY <1>1, <1>3, <1>4, <1>5, PlacedFrom
<1>. QED
  BY <1>6 DEF q

\* A row that comes too late.
LEMMA PlacedLate ==
  ASSUME NEW s \in Members, NEW r \in Tallies, Placed(s, r, 1)
  PROVE  Placed(s, [r EXCEPT !.late = @ + 1], 0)
<1> DEFINE q == [r EXCEPT !.late = @ + 1]
<1>1. q \in Tallies /\ q.late = r.late + 1
  BY DEF Tallies
<1>2. /\ q.delivered = r.delivered /\ q.reported = r.reported /\ q.arrived = r.arrived
      /\ q.extra = r.extra /\ q.closed = r.closed /\ Count(s, q) = Count(s, r)
  BY DEF Tallies, Count
<1> HIDE DEF q
<1>n. /\ r.arrived \in Nat /\ r.late \in Nat /\ s.dropped \in Nat /\ r.extra \in Nat
      /\ r.reported \in Nat /\ Count(s, r) \in Nat
  BY Numbers
<1>p. r.arrived + r.extra =
          Count(s, r) + s.dropped + r.reported + r.late + 1
  BY PlacedSays
<1>3. q.arrived + q.extra =
          Count(s, q) + s.dropped + q.reported + q.late + 0
  BY <1>1, <1>2, <1>n, <1>p
<1>4. r.arrived + 0 <= q.arrived + 1
  BY <1>2, Numbers
<1>5. /\ q.delivered \o s.rows = r.delivered \o s.rows /\ s.atts = s.rows
      /\ q.closed = "ready" => s.stopped /\ s.rows = << >> /\ s.dropped = 0
  BY <1>2, PlacedSays
<1>6. Placed(s, q, 0)
  BY <1>1, <1>3, <1>4, <1>5, PlacedFrom
<1>. QED
  BY <1>6 DEF q

\* A row counted as lost.
LEMMA PlacedLost ==
  ASSUME NEW s \in Members, NEW r \in Tallies, Placed(s, r, 1), ~s.stopped
  PROVE  Placed([s EXCEPT !.dropped = @ + 1], r, 0)
<1> DEFINE w == [s EXCEPT !.dropped = @ + 1]
<1>1. w \in Members /\ w.dropped = s.dropped + 1
  <2>1. s.dropped \in Nat
    BY DEF Members
  <2>2. PICK d \in Nat : d = s.dropped + 1
    BY <2>1
  <2>3. w = [s EXCEPT !.dropped = d]
    BY <2>2
  <2> HIDE DEF w
  <2>4. w \in Members /\ w.dropped = d
    BY <2>3 DEF Members
  <2>. QED
    BY <2>2, <2>4
<1>2. /\ w.rows = s.rows /\ w.atts = s.atts /\ w.stopped = s.stopped
      /\ Count(w, r) = Count(s, r)
  BY DEF Members, Count
<1> HIDE DEF w
<1>n. /\ r.arrived \in Nat /\ r.late \in Nat /\ s.dropped \in Nat /\ r.extra \in Nat
      /\ r.reported \in Nat /\ Count(s, r) \in Nat
  BY Numbers
<1>p. r.arrived + r.extra =
          Count(s, r) + s.dropped + r.reported + r.late + 1
  BY PlacedSays
<1>3. r.arrived + r.extra =
          Count(w, r) + w.dropped + r.reported + r.late + 0
  BY <1>1, <1>2, <1>n, <1>p
<1>4. r.arrived + 0 <= r.arrived + 1
  BY Numbers
<1>5. /\ r.delivered \o w.rows = r.delivered \o s.rows /\ w.atts = w.rows
      /\ r.closed = "ready" => w.stopped /\ w.rows = << >> /\ w.dropped = 0
  BY <1>2, PlacedSays
<1>6. Placed(w, r, 0)
  BY <1>1, <1>3, <1>4, <1>5, PlacedFrom
<1>. QED
  BY <1>6 DEF w

\* Fields the account does not look at.
LEMMA PlacedSame ==
  ASSUME NEW s, NEW w, NEW r, NEW h, Placed(s, r, h),
         w.rows = s.rows, w.atts = s.atts, w.dropped = s.dropped,
         s.stopped => w.stopped
  PROVE  Placed(w, r, h)
BY DEF Placed, Count

\* Sequences: the newest row at the end, and a part of the rows.
LEMMA AppendRises ==
  ASSUME NEW seen \in Seq(Nat), NEW n \in Nat, Rising(seen), Below(seen, n - 1)
  PROVE  Rising(Append(seen, n)) /\ Below(Append(seen, n), n)
<1> DEFINE more == Append(seen, n)
<1>1. /\ more \in Seq(Nat) /\ Len(more) = Len(seen) + 1 /\ Len(seen) \in Nat
      /\ more[Len(seen) + 1] = n /\ \A k \in 1..Len(seen) : more[k] = seen[k]
  BY PushTyped
<1>2. DOMAIN more = 1..(Len(seen) + 1) /\ DOMAIN seen = 1..Len(seen)
  BY <1>1
<1>3. \A k \in 1..Len(seen) : seen[k] \in Nat /\ seen[k] < n
  BY <1>2 DEF Below
<1> HIDE DEF more
<1>4. ASSUME NEW i \in DOMAIN more, NEW j \in DOMAIN more, i < j
      PROVE  more[i] < more[j]
  <2>1. i \in 1..Len(seen) /\ more[i] = seen[i]
    BY <1>1, <1>2, <1>4
  <2>2. CASE j = Len(seen) + 1
    BY <1>1, <1>3, <2>1, <2>2
  <2>3. CASE j # Len(seen) + 1
    <3>1. j \in 1..Len(seen) /\ more[j] = seen[j]
      BY <1>1, <1>2, <2>3
    <3>. QED
      BY <1>2, <1>4, <2>1, <3>1 DEF Rising
  <2>. QED
    BY <2>2, <2>3
<1>5. ASSUME NEW i \in DOMAIN more
      PROVE  more[i] <= n
  <2>1. CASE i = Len(seen) + 1
    BY <1>1, <2>1
  <2>2. CASE i # Len(seen) + 1
    <3>1. i \in 1..Len(seen) /\ more[i] = seen[i]
      BY <1>1, <1>2, <2>2
    <3>. QED
      BY <1>3, <3>1
  <2>. QED
    BY <2>1, <2>2
<1>. QED
  BY <1>4, <1>5 DEF Rising, Below, more

\* The rows before the last flush are in order as well.
LEMMA PrefixRises ==
  ASSUME NEW u \in Seq(Nat), NEW v \in Seq(Nat), NEW n, Rising(u \o v), Below(u \o v, n)
  PROVE  Rising(u) /\ Below(u, n)
<1> DEFINE w == u \o v
<1>1. /\ DOMAIN w = 1..(Len(u) + Len(v)) /\ DOMAIN u = 1..Len(u)
      /\ Len(u) \in Nat /\ Len(v) \in Nat
      /\ \A k \in 1..Len(u) : w[k] = u[k]
  OBVIOUS
<1> HIDE DEF w
<1>2. \A k \in DOMAIN u : k \in DOMAIN w /\ w[k] = u[k]
  BY <1>1
<1>3. Rising(w) /\ Below(w, n)
  BY DEF w
<1>. QED
  BY <1>2, <1>3 DEF Rising, Below

\* A row at the end of the second sequence is at the end of both.
LEMMA AppendLast ==
  ASSUME NEW u \in Seq(Nat), NEW v \in Seq(Nat), NEW n \in Nat
  PROVE  u \o v \in Seq(Nat) /\ u \o Append(v, n) = Append(u \o v, n)
<1> DEFINE x == Append(v, n)
           y == u \o v
           z == u \o x
           a == Append(y, n)
<1>1. /\ x \in Seq(Nat) /\ Len(x) = Len(v) + 1 /\ x[Len(v) + 1] = n
      /\ \A k \in 1..Len(v) : x[k] = v[k]
      /\ Len(u) \in Nat /\ Len(v) \in Nat
  BY PushTyped
<1>y. y \in Seq(Nat)
  OBVIOUS
<1>2. /\ Len(y) = Len(u) + Len(v) /\ Len(y) \in Nat
      /\ \A k \in 1..Len(y) : y[k] = IF k <= Len(u) THEN u[k] ELSE v[k - Len(u)]
  OBVIOUS
<1> HIDE DEF x, y
<1>3. /\ z \in Seq(Nat) /\ Len(z) = Len(u) + Len(x)
      /\ \A k \in 1..Len(z) : z[k] = IF k <= Len(u) THEN u[k] ELSE x[k - Len(u)]
  BY <1>1
<1>4. /\ a \in Seq(Nat) /\ Len(a) = Len(y) + 1 /\ a[Len(y) + 1] = n
      /\ \A k \in 1..Len(y) : a[k] = y[k]
  BY <1>y, PushTyped
<1> HIDE DEF z, a
<1>5. Len(z) = Len(a) /\ Len(z) = Len(y) + 1
  <2>1. Len(z) = Len(u) + (Len(v) + 1)
    BY <1>1, <1>3
  <2>. QED
    BY <1>1, <1>2, <1>4, <2>1
<1>6. ASSUME NEW k \in 1..Len(z)
      PROVE  z[k] = a[k]
  <2>1. CASE k = Len(y) + 1
    BY <1>1, <1>2, <1>3, <1>4, <2>1
  <2>2. CASE k # Len(y) + 1
    <3>1. k \in 1..Len(y)
      BY <1>2, <1>5, <2>2
    <3>2. CASE k <= Len(u)
      BY <1>2, <1>3, <1>4, <3>1, <3>2
    <3>3. CASE ~(k <= Len(u))
      <4>1. k - Len(u) \in 1..Len(v)
        BY <1>1, <1>2, <3>1, <3>3
      <4>. QED
        BY <1>1, <1>2, <1>3, <1>4, <3>1, <3>3, <4>1
    <3>. QED
      BY <3>2, <3>3
  <2>. QED
    BY <2>1, <2>2
<1>7. z = [k \in 1..Len(z) |-> z[k]] /\ a = [k \in 1..Len(a) |-> a[k]]
  BY <1>3, <1>4
<1>8. z = a
  BY <1>5, <1>6, <1>7
<1>. QED
  BY <1>y, <1>8 DEF x, y, z, a

\* A row goes into the window.
LEMMA PlacedAppended ==
  ASSUME NEW s \in Members, NEW r \in Tallies, Placed(s, r, 1), ~s.stopped
  PROVE  /\ Appended(s, r.arrived, "ok") \in Members
         /\ Placed(Appended(s, r.arrived, "ok"), r, 0)
<1> DEFINE n == r.arrived
           w == [s EXCEPT !.rows = Append(@, n), !.atts = Append(@, n)]
<1>1. /\ r.arrived \in Nat /\ s.rows \in Seq(Nat) /\ s.atts \in Seq(Nat)
      /\ r.delivered \in Seq(Nat)
  BY DEF Members, Tallies
<1>2. Append(s.rows, n) \in Seq(Nat) /\ Append(s.atts, n) \in Seq(Nat)
  BY <1>1
<1>3. /\ w \in Members /\ w.rows = Append(s.rows, n) /\ w.atts = Append(s.atts, n)
      /\ w.stopped = s.stopped /\ w.dropped = s.dropped
  BY <1>2 DEF Members
<1>4. Appended(s, n, "ok") = w
  BY DEF Appended
<1> HIDE DEF w
<1>5. /\ r.delivered \o w.rows = Append(r.delivered \o s.rows, n)
      /\ r.delivered \o s.rows \in Seq(Nat)
  <2>1. w.rows = Append(s.rows, n) /\ n \in Nat
    BY <1>1, <1>3
  <2>2. /\ r.delivered \o s.rows \in Seq(Nat)
        /\ r.delivered \o Append(s.rows, n) = Append(r.delivered \o s.rows, n)
    BY <1>1, <2>1, AppendLast, Zenon
  <2>. QED
    BY <2>1, <2>2, Zenon
<1>c. Count(w, r) = Count(s, r) + 1
  <2>1. PICK m \in Nat, k \in Nat : m = Len(r.delivered) /\ k = Len(s.rows)
    BY <1>1
  <2>2. Len(w.rows) = k + 1
    BY <1>1, <1>3, <2>1
  <2>3. Count(w, r) = m + (k + 1) /\ Count(s, r) = m + k
    BY <2>1, <2>2 DEF Count
  <2>. QED
    BY <2>3
<1>d. w.dropped = s.dropped
  BY <1>3
<1>6. Rising(r.delivered \o s.rows) /\ Below(r.delivered \o s.rows, n - 1)
  BY DEF Placed
<1>7. Rising(r.delivered \o w.rows) /\ Below(r.delivered \o w.rows, n)
  BY <1>1, <1>5, <1>6, AppendRises
<1>8. n - 0 = n
  BY <1>1
<1>9. /\ r.arrived \in Nat /\ r.late \in Nat /\ s.dropped \in Nat /\ r.extra \in Nat
      /\ r.reported \in Nat /\ Count(s, r) \in Nat
  BY Numbers
<1>10. /\ r.arrived + r.extra = Count(s, r) + s.dropped + r.reported + r.late + 1
       /\ s.atts = s.rows
       /\ r.closed = "ready" => s.stopped
  BY PlacedSays
<1>11. r.arrived + r.extra = Count(w, r) + w.dropped + r.reported + r.late + 0
  BY <1>c, <1>d, <1>9, <1>10
<1>12. w.atts = w.rows /\ r.closed # "ready"
  BY <1>3, <1>10
<1>13. Placed(w, r, 0)
  BY <1>7, <1>8, <1>11, <1>12 DEF Placed
<1>. QED
  BY <1>3, <1>4, <1>13

\* The window is discarded, e more rows are counted with it, x of them twice.
LEMMA PlacedDiscarded ==
  ASSUME NEW s \in Members, NEW r \in Tallies, Placed(s, r, 1), ~s.stopped,
         NEW x \in {0, 1}, NEW q \in Tallies, q.extra = r.extra + x,
         q.delivered = r.delivered, q.reported = r.reported, q.arrived = r.arrived,
         q.late = r.late, q.closed = r.closed
  PROVE  DiscardPending(s, 1 + x) \in Members /\ Placed(DiscardPending(s, 1 + x), q, 0)
<1> DEFINE w == DiscardPending(s, 1 + x)
<1>1. /\ r.arrived \in Nat /\ s.rows \in Seq(Nat) /\ r.delivered \in Seq(Nat)
      /\ s.dropped \in Nat /\ Len(s.rows) \in Nat /\ Len(r.delivered) \in Nat
  BY DEF Members, Tallies
<1>2. PICK d \in Nat : d = s.dropped + Len(s.rows) + (1 + x)
  BY <1>1
<1>3. w = [s EXCEPT !.dropped = d, !.rows = << >>, !.atts = << >>]
  BY <1>2 DEF DiscardPending
<1> HIDE DEF w
<1>4. << >> \in Seq(Nat)
  OBVIOUS
<1>5. /\ w \in Members /\ w.rows = << >> /\ w.atts = << >>
      /\ w.stopped = s.stopped /\ w.dropped = d
  BY <1>3, <1>4 DEF Members
<1>6. q.delivered \o w.rows = r.delivered
  BY <1>1, <1>5
<1>7. Count(w, q) + d = Count(s, r) + s.dropped + (1 + x) /\ Count(w, q) \in Nat
  <2>1. PICK m \in Nat, k \in Nat : m = Len(r.delivered) /\ k = Len(s.rows)
    BY <1>1
  <2>2. Len(w.rows) = 0 /\ Len(q.delivered) = m
    BY <1>5, <2>1
  <2>3. Count(w, q) = m /\ Count(s, r) = m + k /\ d = s.dropped + k + (1 + x)
    BY <1>2, <2>1, <2>2 DEF Count
  <2>. QED
    BY <1>1, <2>3
<1>d. w.dropped = d
  BY <1>5
<1>8. Rising(r.delivered) /\ Below(r.delivered, r.arrived - 1)
  BY <1>1, PrefixRises DEF Placed
<1>9. Below(r.delivered, q.arrived - 0)
  <2>1. \A i \in DOMAIN r.delivered : r.delivered[i] \in Nat
    BY <1>1
  <2>. QED
    BY <1>1, <1>8, <2>1 DEF Below
<1>10. /\ r.arrived \in Nat /\ r.late \in Nat /\ s.dropped \in Nat /\ r.extra \in Nat
       /\ r.reported \in Nat /\ Count(s, r) \in Nat
  BY Numbers
<1>11. /\ r.arrived + r.extra = Count(s, r) + s.dropped + r.reported + r.late + 1
       /\ s.atts = s.rows
       /\ r.closed = "ready" => s.stopped
  BY PlacedSays
<1>12. q.arrived + q.extra = Count(w, q) + w.dropped + q.reported + q.late + 0
  BY <1>d, <1>7, <1>10, <1>11
<1>13. Placed(w, q, 0)
  BY <1>5, <1>6, <1>8, <1>9, <1>11, <1>12 DEF Placed
<1>. QED
  BY <1>5, <1>13 DEF w

\* What Flush hands to the callback: the window, or the count of what was in it.
LEMMA BatchIs ==
  ASSUME NEW s \in Members, NEW reason, NEW finishes \in BOOLEAN
  PROVE  \/ /\ Batch(s, reason, finishes).rows = s.rows
            /\ Batch(s, reason, finishes).atts = s.atts
            /\ Batch(s, reason, finishes).dropped = s.dropped
         \/ /\ Batch(s, reason, finishes).rows = << >>
            /\ Batch(s, reason, finishes).atts = << >>
            /\ Batch(s, reason, finishes).dropped = s.dropped + Len(s.rows) + 0
BY DEF Batch, DiscardPending, Members

\* What Flush leaves behind.
LEMMA FlushIs ==
  ASSUME NEW s \in Members
  PROVE  /\ Flush(s) \in Members /\ Flush(s).stopped = s.stopped /\ Flush(s).timer = s.timer
         /\ Hands(s) => Flush(s).rows = << >> /\ Flush(s).atts = << >> /\ Flush(s).dropped = 0
         /\ ~Hands(s) => /\ Flush(s).rows = s.rows /\ Flush(s).atts = s.atts
                         /\ Flush(s).dropped = s.dropped
<1>1. << >> \in Seq(Nat) /\ 0 \in Nat
  OBVIOUS
<1>2. CASE Hands(s)
  BY <1>1, <1>2 DEF Flush, Members
<1>3. CASE ~Hands(s)
  BY <1>3 DEF Flush, Members
<1>. QED
  BY <1>2, <1>3

\* Flush hands the window over.
LEMMA PlacedHanded ==
  ASSUME NEW s \in Members, NEW r \in Tallies, NEW h \in {0, 1}, Placed(s, r, h), Hands(s),
         NEW reason, NEW finishes \in BOOLEAN,
         NEW c \in {r.closed, "ready"}, c = "ready" => s.stopped,
         NEW q, q = [r EXCEPT
             !.delivered = @ \o Batch(s, reason, finishes).rows,
             !.reported = @ + Batch(s, reason, finishes).dropped, !.closed = c]
  PROVE  /\ q \in Tallies /\ Placed(Flush(s), q, h)
         /\ Batch(s, reason, finishes).atts = Batch(s, reason, finishes).rows
<1> DEFINE w == Flush(s)
           rows == Batch(s, reason, finishes).rows
           lost == Batch(s, reason, finishes).dropped
<1>1. /\ r.arrived \in Nat /\ s.rows \in Seq(Nat) /\ r.delivered \in Seq(Nat)
      /\ s.dropped \in Nat /\ Len(s.rows) \in Nat /\ Len(r.delivered) \in Nat
      /\ r.reported \in Nat /\ r.closed \in {"no", "ready", "unready"}
  BY DEF Members, Tallies
<1>2. /\ r.arrived + r.extra = Count(s, r) + s.dropped + r.reported + r.late + h
      /\ s.atts = s.rows
      /\ r.closed = "ready" => s.stopped
  BY PlacedSays
<1>m. PICK m \in Nat, k \in Nat : m = Len(r.delivered) /\ k = Len(s.rows)
  BY <1>1
<1>d. PICK d \in Nat : d = s.dropped
  BY <1>1
<1>3. \/ rows = s.rows /\ lost = d
      \/ rows = << >> /\ lost = d + k
  <2>1. \/ rows = s.rows /\ lost = s.dropped
        \/ rows = << >> /\ lost = s.dropped + Len(s.rows) + 0
    BY BatchIs
  <2>2. d + k = s.dropped + Len(s.rows) + 0
    BY <1>m, <1>d
  <2>. QED
    BY <1>d, <2>1, <2>2, Zenon
<1>4. Batch(s, reason, finishes).atts = rows
  BY <1>2, BatchIs
<1>5. w \in Members /\ w.rows = << >> /\ w.atts = << >> /\ w.dropped = 0 /\ w.stopped = s.stopped
  BY FlushIs
<1> HIDE DEF w, rows, lost
<1>6. rows \in Seq(Nat) /\ lost \in Nat
  <2>1. << >> \in Seq(Nat) /\ d + k \in Nat
    OBVIOUS
  <2>. QED
    BY <1>1, <1>3, <2>1, Zenon
<1>7. PICK all \in Seq(Nat), n \in Nat : all = r.delivered \o rows /\ n = r.reported + lost
  <2>1. r.delivered \o rows \in Seq(Nat)
    BY <1>1, <1>6
  <2>2. r.reported + lost \in Nat
    BY <1>1, <1>6
  <2>. QED
    BY <2>1, <2>2, Zenon
<1>8. q = [r EXCEPT !.delivered = all, !.reported = n, !.closed = c]
  BY <1>7 DEF rows, lost
<1>9. /\ q \in Tallies /\ q.delivered = all /\ q.reported = n
      /\ q.arrived = r.arrived /\ q.late = r.late /\ q.extra = r.extra
      /\ q.closed = "ready" => s.stopped
  BY <1>1, <1>2, <1>8 DEF Tallies
<1>10. q.delivered \o w.rows = all
  <2>1. all \o << >> = all
    OBVIOUS
  <2>. QED
    BY <1>5, <1>9, <2>1, Zenon
<1>11. Rising(all) /\ Below(all, q.arrived - h)
  <2>1. Rising(r.delivered \o s.rows) /\ Below(r.delivered \o s.rows, r.arrived - h)
    BY DEF Placed
  <2>2. CASE rows = s.rows
    BY <1>7, <1>9, <2>1, <2>2
  <2>3. CASE rows = << >>
    <3>1. all = r.delivered
      BY <1>1, <1>7, <2>3
    <3>. QED
      BY <1>1, <1>9, <2>1, <3>1, PrefixRises
  <2>. QED
    BY <1>3, <2>2, <2>3
<1>12. Count(w, q) + lost = Count(s, r) + d /\ Count(w, q) \in Nat
  <2>1. Len(w.rows) = 0 /\ Count(s, r) = m + k
    BY <1>5, <1>m DEF Count
  <2>2. Count(w, q) = Len(all) + Len(w.rows)
    BY <1>9 DEF Count
  <2>3. CASE rows = s.rows /\ lost = d
    <3>1. Len(all) = m + k
      BY <1>1, <1>7, <1>m, <2>3
    <3>2. Count(w, q) = (m + k) + 0
      BY <2>1, <2>2, <3>1
    <3>. QED
      BY <2>1, <2>3, <3>2
  <2>4. CASE rows = << >> /\ lost = d + k
    <3>1. Len(all) = m
      BY <1>1, <1>7, <1>m, <2>4
    <3>2. Count(w, q) = m + 0
      BY <2>1, <2>2, <3>1
    <3>. QED
      BY <2>1, <2>4, <3>2
  <2>. QED
    BY <1>3, <2>3, <2>4
<1>13. /\ r.late \in Nat /\ r.extra \in Nat /\ Count(s, r) \in Nat
  BY Numbers
<1>14. q.arrived + q.extra = Count(w, q) + 0 + q.reported + q.late + h
  <2>1. r.arrived + r.extra = Count(s, r) + d + r.reported + r.late + h
    BY <1>2, <1>d
  <2>2. n = r.reported + lost /\ q.reported = n /\ r.arrived \in Nat /\ r.reported \in Nat
    BY <1>1, <1>7, <1>9
  <2>3. q.arrived = r.arrived /\ q.late = r.late /\ q.extra = r.extra
    BY <1>9
  <2>. QED
    BY <1>6, <1>12, <1>13, <2>1, <2>2, <2>3
<1>15. Placed(w, q, h)
  BY <1>5, <1>9, <1>10, <1>11, <1>14 DEF Placed
<1>. QED
  BY <1>4, <1>9, <1>15 DEF w, rows

\* ArmTimer changes the deadline only.
LEMMA ArmIs ==
  ASSUME NEW s \in Members
  PROVE  /\ ArmTimer(s) \in Members /\ ArmTimer(s).stopped = s.stopped
         /\ ArmTimer(s).timer = s.timer /\ ArmTimer(s).rows = s.rows
         /\ ArmTimer(s).atts = s.atts /\ ArmTimer(s).dropped = s.dropped
BY DEF ArmTimer, Members

\* One Append and push_back disposes of the row in hand.
LEMMA AppendRefused ==
  ASSUME NEW s \in Members, NEW r \in Tallies, Placed(s, r, 1), ~s.stopped
  PROVE  /\ [s EXCEPT !.dropped = @ + 1] \in Members
         /\ Placed([s EXCEPT !.dropped = @ + 1], r, 0)
         /\ [s EXCEPT !.dropped = @ + 1].timer = s.timer
<1>1. s.dropped \in Nat
  BY DEF Members
<1>2. PICK d \in Nat : d = s.dropped + 1
  BY <1>1
<1>3. [s EXCEPT !.dropped = @ + 1] = [s EXCEPT !.dropped = d]
  BY <1>2
<1>4. [s EXCEPT !.dropped = d] \in Members /\ [s EXCEPT !.dropped = d].timer = s.timer
  BY DEF Members
<1>5. Placed([s EXCEPT !.dropped = @ + 1], r, 0)
  BY PlacedLost
<1>. QED
  BY <1>3, <1>4, <1>5

\* A row whose append failed: what is pending goes with it, and is counted.
LEMMA AppendFails ==
  ASSUME NEW s \in Members, NEW r \in Tallies, Placed(s, r, 1), ~s.stopped
  PROVE  /\ DiscardPending(s, 1) \in Members /\ Placed(DiscardPending(s, 1), r, 0)
         /\ DiscardPending(s, 1).timer = s.timer
<1>1. r.extra \in Nat
  BY DEF Tallies
<1>2. r.extra = r.extra + 0 /\ 1 + 0 = 1
  BY <1>1
<1>3. DiscardPending(s, 1 + 0) \in Members /\ Placed(DiscardPending(s, 1 + 0), r, 0)
  BY <1>2, PlacedDiscarded
<1>4. DiscardPending(s, 1).timer = s.timer
  BY DEF DiscardPending, Members
<1>. QED
  BY <1>2, <1>3, <1>4

\* A row that was appended or dropped, in any way but a failed push_back.
LEMMA AppendedKeeps ==
  ASSUME NEW s \in Members, NEW r \in Tallies, Placed(s, r, 1), ~s.stopped,
         NEW outcome \in Outcomes \ {"push_back failed"}
  PROVE  /\ Appended(s, r.arrived, outcome) \in Members
         /\ Placed(Appended(s, r.arrived, outcome), r, 0)
         /\ Appended(s, r.arrived, outcome).timer = s.timer
<1>1. CASE outcome = "ok"
  <2>1. Appended(s, r.arrived, "ok").timer = s.timer
    BY DEF Appended, Members
  <2>. QED
    BY <1>1, <2>1, PlacedAppended
<1>2. CASE outcome = "refused"
  <2>1. Appended(s, r.arrived, outcome) = [s EXCEPT !.dropped = @ + 1]
    BY <1>2 DEF Appended
  <2>. QED
    BY <2>1, AppendRefused
<1>3. CASE outcome = "append failed"
  <2>1. Appended(s, r.arrived, outcome) = DiscardPending(s, 1)
    BY <1>3 DEF Appended
  <2>. QED
    BY <2>1, AppendFails
<1>. QED
  BY <1>1, <1>2, <1>3 DEF Outcomes

\* A failed push_back counts the row twice.
LEMMA PushBackFails ==
  ASSUME NEW s \in Members, NEW r \in Tallies, Placed(s, r, 1), ~s.stopped
  PROVE  /\ Appended(s, r.arrived, "push_back failed") \in Members
         /\ [r EXCEPT !.extra = @ + 1] \in Tallies
         /\ Placed(Appended(s, r.arrived, "push_back failed"), [r EXCEPT !.extra = @ + 1], 0)
         /\ Appended(s, r.arrived, "push_back failed").timer = s.timer
<1> DEFINE w == DiscardPending(s, 1 + 1)
           q == [r EXCEPT !.extra = @ + 1]
<1>0. s.rows \in Seq(Nat) /\ r.arrived \in Nat /\ s.dropped \in Nat /\ r.extra \in Nat
  BY DEF Members, Tallies
<1>1. PICK a \in Seq(Nat), k \in Nat, d \in Nat, c \in Nat, e \in Nat :
        /\ a = Append(s.rows, r.arrived) /\ k = Len(s.rows) /\ Len(a) = k + 1
        /\ d = s.dropped /\ c = d + k + 2 /\ e = r.extra + 1
  <2>1. Append(s.rows, r.arrived) \in Seq(Nat) /\ Len(Append(s.rows, r.arrived)) = Len(s.rows) + 1
    BY <1>0
  <2>2. PICK k \in Nat : k = Len(s.rows)
    BY <1>0
  <2>3. s.dropped + k + 2 \in Nat /\ r.extra + 1 \in Nat
    BY <1>0
  <2>. QED
    BY <1>0, <2>1, <2>2, <2>3
<1> DEFINE u == [s EXCEPT !.rows = a]
<1>2. u.dropped = d /\ u.rows = a
  BY <1>1 DEF Members
<1>3. d + (k + 1) + 1 = c /\ d + k + (1 + 1) = c
  <2>1. c = d + k + 2
    BY <1>1
  <2>. QED
    BY <2>1
<1>a. [u EXCEPT !.dropped = c, !.rows = << >>, !.atts = << >>] =
          [s EXCEPT !.dropped = c, !.rows = << >>, !.atts = << >>]
  BY DEF Members
<1>4. DiscardPending(u, 1) = [u EXCEPT !.dropped = c, !.rows = << >>, !.atts = << >>]
  <2>1. u.dropped + Len(u.rows) + 1 = c
    BY <1>1, <1>2, <1>3
  <2>. QED
    BY <2>1 DEF DiscardPending
<1>5. w = [s EXCEPT !.dropped = c, !.rows = << >>, !.atts = << >>]
  <2>1. s.dropped + Len(s.rows) + (1 + 1) = c
    BY <1>1, <1>3
  <2>. QED
    BY <2>1 DEF DiscardPending
<1>6. Appended(s, r.arrived, "push_back failed") = w
  <2>1. [s EXCEPT !.rows = Append(@, r.arrived)] = u
    BY <1>1
  <2>2. Appended(s, r.arrived, "push_back failed") =
            DiscardPending([s EXCEPT !.rows = Append(@, r.arrived)], 1)
    BY DEF Appended
  <2> HIDE DEF u, w
  <2>. QED
    BY <1>4, <1>5, <1>a, <2>1, <2>2
<1>7. q \in Tallies
  <2>1. q = [r EXCEPT !.extra = e]
    BY <1>1
  <2>. QED
    BY <2>1 DEF Tallies
<1>8. /\ q.extra = r.extra + 1 /\ q.delivered = r.delivered /\ q.reported = r.reported
      /\ q.arrived = r.arrived /\ q.late = r.late /\ q.closed = r.closed
  BY DEF Tallies
<1>9. w.timer = s.timer
  BY DEF DiscardPending, Members
<1> HIDE DEF q
<1>10. w \in Members /\ Placed(w, q, 0)
  BY <1>7, <1>8, PlacedDiscarded
<1>. QED
  BY <1>6, <1>7, <1>9, <1>10 DEF q

-----------------------------------------------------------------------------
(* The delivery handler's tails, from members s on. *)

\* What a section that ends leaves: the account in order, no row in hand.
Ends ==
    /\ b' \in Members /\ tally' \in Tallies /\ b'.timer = b.timer
    /\ RowsInv'
    /\ Moves(Deliverer, 0, {"callback"})

\* What a step that ends the row has to show.
LEMMA EndsWith ==
  ASSUME TypeOK, RowPlace, Moves(Deliverer, 0, {"callback"}),
         b' \in Members, tally' \in Tallies, b'.timer = b.timer,
         Placed(b', tally', 0), out'.atts = out'.rows
  PROVE  Ends
<1>1. stk' \in [Threads -> Seq(Labels)] /\ Deliverer \in Threads
  BY DEF Moves, Threads
<1>2. \A k \in 1..Len(stk'[Deliverer]) : stk'[Deliverer][k] \notin RowLabels
  BY DEF Moves, RowLabels
<1>3. Len(stk'[Deliverer]) \in Nat
  BY <1>1
<1>4. Len(stk'[Deliverer]) = 0 \/ stk'[Deliverer][1] \notin RowLabels
  BY <1>2, <1>3
<1>5. \A k \in 2..Len(stk'[Deliverer]) : stk'[Deliverer][k] \notin RowLabels
  BY <1>2, <1>3
<1>6. RowPlace' /\ InHand' = 0
  BY <1>4, <1>5, RowMoves
<1>7. RowsInv'
  BY <1>6 DEF RowsInv
<1>. QED
  BY <1>7 DEF Ends

\* The deliverer leaves the section it holds the row in.
LEMMA LeaveEnds ==
  ASSUME TypeOK, RowPlace, NEW x \in RowLabels, At(Deliverer, x), NEW p \in BOOLEAN,
         stk' = NotifyIf(p, Leave(Deliverer, stk))
  PROVE  Moves(Deliverer, 0, {"callback"})
<1>1. Deliverer \in Threads /\ Deliverer # Timer /\ stk \in [Threads -> Seq(Labels)]
  BY DEF Threads, Deliverer, Timer, TypeOK
<1>2. Len(stk[Deliverer]) = 1 /\ stk[Deliverer] # << >>
  BY RowAtBottom
<1>3. Moves(Deliverer, Len(stk[Deliverer]) - 1, {})
  BY <1>1, <1>2, LeaveMoves
<1>4. Moves(Deliverer, 0, {})
  <2>1. Len(stk[Deliverer]) - 1 = 0
    BY <1>2
  <2>. QED
    BY <1>3, <2>1
<1>. QED
  BY <1>4 DEF Moves

\* The tail of AddRow: the timer is armed, a full window is handed over.
LEMMA AddedKeeps ==
  ASSUME TypeOK, RowPlace, NEW x \in RowLabels, At(Deliverer, x), out.atts = out.rows,
         NEW s \in Members, s.timer = b.timer, Placed(s, tally, 0), Added(s)
  PROVE  Ends
<1>1. Deliverer \in Threads /\ Deliverer # Timer /\ stk \in [Threads -> Seq(Labels)]
      /\ tally \in Tallies
  BY DEF Threads, Deliverer, Timer, TypeOK
<1>2. Len(stk[Deliverer]) = 1 /\ stk[Deliverer] # << >>
  BY RowAtBottom
<1>3. Arms(s) \in BOOLEAN
  BY DEF Arms
<1>4. CASE s.ready /\ Len(s.rows) >= MaxRows
  <2>1. Hands(s)
    BY <1>4, BatcherAssumption DEF Hands, HasPending, Members
  <2>2. PICK finishes \in BOOLEAN :
          /\ b' = Flush(s) /\ out' = Batch(s, "kRowLimit", finishes)
          /\ stk' = Enter(Deliverer, "callback", NotifyIf(Arms(s), Leave(Deliverer, stk)))
          /\ tally' = [tally EXCEPT
                !.delivered = @ \o Batch(s, "kRowLimit", finishes).rows,
                !.reported = @ + Batch(s, "kRowLimit", finishes).dropped,
                !.closed = IF "kRowLimit" # "kClosing" THEN @ ELSE "ready"]
    BY <1>4 DEF Added, Hand
  <2>3. Moves(Deliverer, Len(stk[Deliverer]) - 1, {"callback"})
    BY <1>1, <1>2, <1>3, <2>2, CallMoves
  <2>4. Moves(Deliverer, 0, {"callback"})
    BY <1>2, <2>3
  <2>5. /\ tally' \in Tallies /\ Placed(Flush(s), tally', 0)
        /\ Batch(s, "kRowLimit", finishes).atts = Batch(s, "kRowLimit", finishes).rows
    <3>1. tally' = [tally EXCEPT
              !.delivered = @ \o Batch(s, "kRowLimit", finishes).rows,
              !.reported = @ + Batch(s, "kRowLimit", finishes).dropped,
              !.closed = tally.closed]
      BY <2>2
    <3>2. tally.closed = "ready" => s.stopped
      BY PlacedSays
    <3>. QED
      BY <1>1, <2>1, <3>1, <3>2, PlacedHanded
  <2>6. Flush(s) \in Members /\ Flush(s).timer = s.timer
    BY FlushIs
  <2>. QED
    BY <2>2, <2>4, <2>5, <2>6, EndsWith
<1>5. CASE ~(s.ready /\ Len(s.rows) >= MaxRows)
  <2>1. /\ b' = ArmTimer(s) /\ out' = out /\ tally' = tally
        /\ stk' = NotifyIf(Arms(s), Leave(Deliverer, stk))
    BY <1>5 DEF Added
  <2>2. Moves(Deliverer, 0, {"callback"})
    BY <1>3, <2>1, LeaveEnds
  <2>3. ArmTimer(s) \in Members /\ ArmTimer(s).timer = s.timer /\ Placed(ArmTimer(s), tally, 0)
    BY ArmIs, PlacedSame
  <2>. QED
    BY <1>1, <2>1, <2>2, <2>3, EndsWith
<1>. QED
  BY <1>4, <1>5

\* The row is appended, or its push_back fails, and AddRow goes on.
LEMMA TryAppendKeeps ==
  ASSUME TypeOK, RowPlace, NEW x \in RowLabels, At(Deliverer, x), out.atts = out.rows,
         NEW s \in Members, s.timer = b.timer, Placed(s, tally, 1), ~s.stopped, TryAppend(s)
  PROVE  Ends
<1>1. tally \in Tallies /\ Row = tally.arrived
  BY DEF TypeOK, Row
<1>2. CASE \E outcome \in Outcomes \ {"push_back failed"} : Added(Appended(s, Row, outcome))
  <2>1. PICK outcome \in Outcomes \ {"push_back failed"} :
            Added(Appended(s, tally.arrived, outcome))
    BY <1>1, <1>2
  <2>2. /\ Appended(s, tally.arrived, outcome) \in Members
        /\ Placed(Appended(s, tally.arrived, outcome), tally, 0)
        /\ Appended(s, tally.arrived, outcome).timer = s.timer
    BY <1>1, AppendedKeeps
  <2>. QED
    BY <2>1, <2>2, AddedKeeps
<1>3. CASE /\ b' = ArmTimer(Appended(s, Row, "push_back failed"))
           /\ stk' = NotifyIf(~s.deadline, Leave(Deliverer, stk))
           /\ tally' = [tally EXCEPT !.extra = @ + 1]
           /\ UNCHANGED out
  <2> DEFINE w == Appended(s, tally.arrived, "push_back failed")
  <2>1. w \in Members /\ tally' \in Tallies /\ Placed(w, tally', 0) /\ w.timer = s.timer
    BY <1>1, <1>3, PushBackFails
  <2>2. Moves(Deliverer, 0, {"callback"})
    <3>1. (~s.deadline) \in BOOLEAN
      OBVIOUS
    <3>. QED
      BY <1>3, <3>1, LeaveEnds
  <2>3. b' = ArmTimer(w)
    BY <1>1, <1>3
  <2> HIDE DEF w
  <2>4. ArmTimer(w) \in Members /\ ArmTimer(w).timer = w.timer /\ Placed(ArmTimer(w), tally', 0)
    BY <2>1, ArmIs, PlacedSame
  <2>. QED
    BY <1>3, <2>1, <2>2, <2>3, <2>4, EndsWith
<1>. QED
  BY <1>2, <1>3 DEF TryAppend

-----------------------------------------------------------------------------
(* What a step does to the call that stops. *)

\* A thread's stack, before and after a step.
LEMMA StacksTyped ==
  ASSUME TypeOK, stk' \in [Threads -> Seq(Labels)], NEW u \in Threads
  PROVE  /\ stk[u] \in Seq(Labels) /\ DOMAIN stk[u] = 1..Len(stk[u]) /\ Len(stk[u]) \in Nat
         /\ stk'[u] \in Seq(Labels) /\ DOMAIN stk'[u] = 1..Len(stk'[u]) /\ Len(stk'[u]) \in Nat
BY DEF TypeOK

\* The books and the handle as far as QuietInv looks at them.
Onward ==
    /\ sub'.calls = 0 \/ sub'.held => sub.calls = 0 \/ sub.held
    /\ sub.retired => sub'.retired
    /\ sub'.by = sub.by

\* Any other step: no stopping label appears, no callback on the application
\* thread, and a thread that has ended does not step.
LEMMA QuietStep ==
  ASSUME TypeOK, QuietInv, NEW t \in Threads, NEW n, NEW X, Moves(t, n, X),
         \A x \in X : x \notin StopLabels,
         t = App => "callback" \notin X,
         t = Timer => stk[Timer] # <<"exited">>,
         t = Deliverer => stk[Deliverer] # << >> \/ ~sub.retired,
         b'.timer = b.timer, Onward
  PROVE  QuietInv'
<1>1. stk' \in [Threads -> Seq(Labels)]
  BY DEF Moves
<1>2. ASSUME NEW u \in Threads, NEW k \in DOMAIN stk'[u], stk'[u][k] \in StopLabels
      PROVE  k \in DOMAIN stk[u] /\ stk[u][k] = stk'[u][k]
  <2>1. CASE u = t
    BY <1>1, <1>2, <2>1, StacksTyped DEF Moves
  <2>2. CASE u # t
    <3>1. stk'[u] # <<"loop">>
      BY <1>2 DEF StopLabels
    <3>. QED
      BY <1>2, <2>2, <3>1 DEF Moves
  <2>. QED
    BY <2>1, <2>2
<1>3. \A u \in Threads : Inside(u, StopLabels)' => Inside(u, StopLabels)
  BY <1>2 DEF Inside
<1>4. stk[Timer] = <<"exited">> => stk'[Timer] = <<"exited">>
  <2>1. <<"exited">> \notin Waits
    BY DEF Waits
  <2>2. Timer \in Threads
    BY DEF Threads
  <2>. QED
    BY <2>1, <2>2 DEF Moves
<1>5. Fresh'
  BY <1>3 DEF QuietInv, Fresh, Onward
<1>6. OneStop'
  BY <1>2 DEF QuietInv, OneStop
<1>7. Handle'
  <2>1. \A u \in Threads : Inside(u, {"stop", "stopping"})' => Inside(u, {"stop", "stopping"})
    BY <1>2 DEF Inside, StopLabels
  <2>. QED
    BY <2>1 DEF QuietInv, Handle
<1>8. Joined'
  <2>1. \A u \in Threads : Inside(u, {"drain", "drained"})' => Inside(u, {"drain", "drained"})
    BY <1>2 DEF Inside, StopLabels
  <2>. QED
    BY <1>4, <2>1 DEF QuietInv, Joined
<1>9. Retired'
  <2>1. \A u \in Threads : Inside(u, {"drained"})' => Inside(u, {"drained"})
    BY <1>2 DEF Inside, StopLabels
  <2>. QED
    BY <2>1 DEF QuietInv, Retired, Onward
<1>10. AppCalls'
  <2>0. App \in Threads /\ App # Timer
    BY DEF Threads, App, Timer
  <2> SUFFICES ASSUME NEW k \in DOMAIN stk'[App], stk'[App][k] = "callback"
               PROVE  \E l \in 1..(k - 1) : stk'[App][l] \in StopLabels
    BY DEF AppCalls
  <2>1. CASE t # App
    BY <2>0, <2>1 DEF Moves, QuietInv, AppCalls
  <2>2. CASE t = App
    <3>1. /\ DOMAIN stk[App] = 1..Len(stk[App]) /\ Len(stk[App]) \in Nat
          /\ DOMAIN stk'[App] = 1..Len(stk'[App]) /\ Len(stk'[App]) \in Nat
      BY <1>1, <2>0, StacksTyped
    <3>2. /\ n \in Nat /\ n <= Len(stk[App]) /\ n <= Len(stk'[App])
          /\ \A i \in 1..n : stk'[App][i] = stk[App][i]
          /\ \A i \in (n + 1)..Len(stk'[App]) : stk'[App][i] \in X
      BY <2>2 DEF Moves
    <3>3. k \in 1..n
      BY <2>2, <3>1, <3>2
    <3>4. k \in DOMAIN stk[App] /\ stk[App][k] = "callback"
      BY <3>1, <3>2, <3>3
    <3>5. PICK l \in 1..(k - 1) : stk[App][l] \in StopLabels
      BY <3>4 DEF QuietInv, AppCalls
    <3>6. l \in 1..n
      BY <3>2, <3>3, <3>5
    <3>. QED
      BY <3>2, <3>5, <3>6
  <2>. QED
    BY <2>1, <2>2
<1>11. Returned'
  <2>0. Deliverer \in Threads /\ Deliverer # Timer
    BY DEF Threads, Deliverer, Timer
  <2>1. sub.by # "none" /\ sub.by # Deliverer => stk'[Deliverer] = << >>
    BY <2>0 DEF Moves, QuietInv, Returned
  <2>. QED
    BY <1>3, <1>4, <2>1 DEF QuietInv, Returned, Onward
<1>. QED
  BY <1>5, <1>6, <1>7, <1>8, <1>9, <1>10, <1>11 DEF QuietInv

\* With the innermost label of t a stopping one, no other label anywhere is.
LEMMA TheStop ==
  ASSUME TypeOK, OneStop, NEW t \in Threads, NEW x \in StopLabels, At(t, x),
         NEW u \in Threads, NEW k \in DOMAIN stk[u], stk[u][k] \in StopLabels
  PROVE  u = t /\ k = Len(stk[t])
<1>1. stk[t] \in Seq(Labels) /\ stk[t] # << >>
  BY DEF TypeOK, At
<1>2. Len(stk[t]) \in DOMAIN stk[t] /\ stk[t][Len(stk[t])] \in StopLabels
  BY <1>1 DEF At
<1>. QED
  BY <1>2 DEF OneStop

\* The call that stops is under way, so the batcher is taken.
LEMMA Taken ==
  ASSUME TypeOK, QuietInv, NEW t \in Threads, NEW x \in StopLabels, At(t, x)
  PROVE  sub.calls # 0 /\ ~sub.held /\ sub.by = "none" /\ Inside(t, {x})
<1>1. stk[t] \in Seq(Labels) /\ stk[t] # << >>
  BY DEF TypeOK, At
<1>2. Len(stk[t]) \in DOMAIN stk[t] /\ stk[t][Len(stk[t])] = x
  BY <1>1 DEF At
<1>3. Inside(t, StopLabels) /\ Inside(t, {x})
  BY <1>2 DEF Inside
<1>. QED
  BY <1>3 DEF QuietInv, Fresh, Returned

\* The call that stops goes on from label x to label y.
LEMMA StopStep ==
  ASSUME TypeOK, QuietInv, NEW t \in Threads, NEW x \in StopLabels, At(t, x),
         NEW y \in StopLabels, Moves(t, Len(stk[t]) - 1, {y, "callback"}),
         Len(stk'[t]) >= Len(stk[t]), stk'[t][Len(stk[t])] = y,
         \A k \in (Len(stk[t]) + 1)..Len(stk'[t]) : stk'[t][k] = "callback",
         y \in {"stop", "stopping"} => b'.timer,
         y \in {"drain", "drained"} /\ t # Timer => stk'[Timer] = <<"exited">>,
         y = "drained" => sub'.retired,
         Onward
  PROVE  QuietInv'
<1> DEFINE m == Len(stk[t])
<1>1. stk' \in [Threads -> Seq(Labels)] /\ stk[t] # << >>
  BY DEF Moves, At
<1>2. /\ DOMAIN stk[t] = 1..m /\ m \in Nat /\ m # 0
      /\ DOMAIN stk'[t] = 1..Len(stk'[t]) /\ Len(stk'[t]) \in Nat
  <2>1. stk[t] \in Seq(Labels)
    BY DEF TypeOK
  <2>2. m # 0
    BY <1>1, <2>1
  <2>. QED
    BY <1>1, <2>2, StacksTyped
<1>3. \A k \in 1..(m - 1) : stk'[t][k] = stk[t][k]
  BY DEF Moves
<1>4. \A k \in (m + 1)..Len(stk'[t]) : stk'[t][k] = "callback"
  OBVIOUS
<1> HIDE DEF m
<1>5. ASSUME NEW u \in Threads, NEW k \in DOMAIN stk'[u], stk'[u][k] \in StopLabels
      PROVE  u = t /\ k = m /\ stk'[u][k] = y
  <2>1. CASE u # t
    <3>1. stk'[u] # <<"loop">>
      BY <1>5 DEF StopLabels
    <3>2. stk'[u] = stk[u]
      BY <2>1, <3>1 DEF Moves
    <3>. QED
      BY <1>5, <2>1, <3>2, TheStop DEF QuietInv
  <2>2. CASE u = t
    <3>1. CASE k \in 1..(m - 1)
      <4>1. k \in DOMAIN stk[t] /\ stk[t][k] \in StopLabels
        BY <1>2, <1>3, <1>5, <2>2, <3>1
      <4>2. k = m
        BY <4>1, TheStop DEF QuietInv, m
      <4>. QED
        BY <1>2, <3>1, <4>2
    <3>2. CASE k \in (m + 1)..Len(stk'[t])
      BY <1>4, <1>5, <2>2, <3>2 DEF StopLabels
    <3>3. CASE k = m
      BY <2>2, <3>3 DEF m
    <3>. QED
      BY <1>2, <1>5, <2>2, <3>1, <3>2, <3>3
  <2>. QED
    BY <2>1, <2>2
<1>6. sub.calls # 0 /\ ~sub.held /\ sub.by = "none"
  BY Taken
<1>7. Fresh' /\ Returned'
  BY <1>6 DEF Fresh, Returned, Onward
<1>8. OneStop'
  BY <1>5 DEF OneStop
<1>9. Handle'
  BY <1>5 DEF Handle, Inside, StopLabels
<1>10. Joined'
  BY <1>5 DEF Joined, Inside, StopLabels
<1>11. Retired'
  BY <1>5 DEF Retired, Inside, StopLabels
<1>12. AppCalls'
  <2>0. App \in Threads /\ App # Timer
    BY DEF Threads, App, Timer
  <2> SUFFICES ASSUME NEW k \in DOMAIN stk'[App], stk'[App][k] = "callback"
               PROVE  \E l \in 1..(k - 1) : stk'[App][l] \in StopLabels
    BY DEF AppCalls
  <2>1. ASSUME k \in DOMAIN stk[App], stk[App][k] = "callback"
        PROVE  t = App /\ k > m
    <3>1. PICK l \in 1..(k - 1) : stk[App][l] \in StopLabels
      BY <2>1 DEF QuietInv, AppCalls
    <3>2. DOMAIN stk[App] = 1..Len(stk[App]) /\ Len(stk[App]) \in Nat
      BY <1>1, <2>0, StacksTyped
    <3>3. l \in DOMAIN stk[App]
      BY <2>1, <3>1, <3>2
    <3>4. App = t /\ l = m
      BY <2>0, <3>1, <3>3, TheStop DEF QuietInv, m
    <3>. QED
      BY <1>2, <2>1, <3>1, <3>2, <3>4
  <2>2. t = App
    <3>1. SUFFICES ASSUME t # App
                   PROVE  FALSE
      OBVIOUS
    <3>2. stk'[App] = stk[App]
      BY <2>0, <3>1 DEF Moves
    <3>. QED
      BY <2>1, <3>1, <3>2
  <2>3. k > m
    <3>1. SUFFICES ASSUME ~(k > m)
                   PROVE  FALSE
      OBVIOUS
    <3>2. k # m
      BY <2>2 DEF m, StopLabels
    <3>3. k \in 1..(m - 1)
      BY <1>2, <2>2, <3>1, <3>2
    <3>4. k \in DOMAIN stk[App] /\ stk[App][k] = "callback"
      BY <1>2, <1>3, <2>2, <3>3
    <3>. QED
      BY <2>1, <3>1, <3>4
  <2>4. m \in 1..(k - 1) /\ stk'[App][m] \in StopLabels
    BY <1>2, <2>2, <2>3 DEF m
  <2>. QED
    BY <2>4
<1>. QED
  BY <1>7, <1>8, <1>9, <1>10, <1>11, <1>12 DEF QuietInv

\* A call takes the batcher.
LEMMA StartStop ==
  ASSUME TypeOK, QuietInv, sub.calls = 0 \/ sub.held, NEW t \in Threads,
         Moves(t, Len(stk[t]), {"stop"}), Len(stk'[t]) = Len(stk[t]) + 1,
         b'.timer = b.timer, sub'.by = sub.by, sub'.calls # 0, ~sub'.held
  PROVE  QuietInv'
<1>1. stk' \in [Threads -> Seq(Labels)]
  BY DEF Moves
<1>2. b.timer /\ sub.by = "none" /\ \A u \in Threads : ~Inside(u, StopLabels)
  BY DEF QuietInv, Fresh, Returned
<1>3. /\ DOMAIN stk'[t] = 1..(Len(stk[t]) + 1) /\ Len(stk[t]) \in Nat
      /\ DOMAIN stk[t] = 1..Len(stk[t])
  BY <1>1, StacksTyped
<1>4. ASSUME NEW u \in Threads, NEW k \in DOMAIN stk'[u], stk'[u][k] \in StopLabels
      PROVE  u = t /\ k = Len(stk[t]) + 1 /\ stk'[u][k] = "stop"
  <2>1. CASE u # t
    <3>1. stk'[u] # <<"loop">>
      BY <1>4 DEF StopLabels
    <3>2. stk'[u] = stk[u]
      BY <2>1, <3>1 DEF Moves
    <3>. QED
      BY <1>2, <1>4, <3>2 DEF Inside
  <2>2. CASE u = t
    <3>1. CASE k \in 1..Len(stk[t])
      <4>1. stk[t][k] \in StopLabels
        BY <1>4, <2>2, <3>1 DEF Moves
      <4>. QED
        BY <1>2, <1>3, <3>1, <4>1 DEF Inside
    <3>2. CASE k = Len(stk[t]) + 1
      BY <1>3, <2>2, <3>2 DEF Moves
    <3>. QED
      BY <1>3, <1>4, <2>2, <3>1, <3>2
  <2>. QED
    BY <2>1, <2>2
<1>5. Fresh' /\ Returned'
  BY <1>2 DEF Fresh, Returned
<1>6. OneStop'
  BY <1>4 DEF OneStop
<1>7. Handle'
  BY <1>2 DEF Handle
<1>8. Joined' /\ Retired'
  BY <1>4 DEF Joined, Retired, Inside, StopLabels
<1>9. AppCalls'
  <2>0. App \in Threads /\ App # Timer
    BY DEF Threads, App, Timer
  <2> SUFFICES ASSUME NEW k \in DOMAIN stk'[App], stk'[App][k] = "callback"
               PROVE  FALSE
    BY DEF AppCalls
  <2>1. k \in DOMAIN stk[App] /\ stk[App][k] = "callback"
    <3>1. CASE t # App
      BY <2>0, <3>1 DEF Moves
    <3>2. CASE t = App
      <4>1. k \in 1..Len(stk[t])
        BY <1>3, <3>2 DEF Moves
      <4>. QED
        BY <1>3, <3>2, <4>1 DEF Moves
    <3>. QED
      BY <3>1, <3>2
  <2>2. PICK l \in 1..(k - 1) : stk[App][l] \in StopLabels
    BY <2>1 DEF QuietInv, AppCalls
  <2>3. DOMAIN stk[App] = 1..Len(stk[App]) /\ Len(stk[App]) \in Nat
    BY <1>1, <2>0, StacksTyped
  <2>4. l \in DOMAIN stk[App]
    BY <2>1, <2>2, <2>3
  <2>. QED
    BY <1>2, <2>0, <2>2, <2>4 DEF Inside
<1>. QED
  BY <1>5, <1>6, <1>7, <1>8, <1>9 DEF QuietInv

\* The call that stopped returns.
LEMMA StopEnds ==
  ASSUME TypeOK, QuietInv, NEW t \in Threads, At(t, "drained"),
         t = Deliverer \/ stk[Deliverer] = << >>,
         Moves(t, Len(stk[t]) - 1, {}), Len(stk'[t]) = Len(stk[t]) - 1,
         b'.timer = b.timer, sub'.by = t, sub'.calls = sub.calls, sub'.held = sub.held,
         sub'.retired = sub.retired
  PROVE  QuietInv'
<1> DEFINE m == Len(stk[t])
<1>0. "drained" \in StopLabels
  BY DEF StopLabels
<1>1. sub.calls # 0 /\ ~sub.held /\ Inside(t, {"drained"})
  BY <1>0, Taken
<1>2. stk' \in [Threads -> Seq(Labels)]
  BY DEF Moves
<1>3. /\ DOMAIN stk[t] = 1..m /\ m \in Nat /\ DOMAIN stk'[t] = 1..(m - 1)
  BY <1>2, StacksTyped
<1>4. \A u \in Threads : \A k \in DOMAIN stk[u] :
          stk[u][k] \in StopLabels => u = t /\ k = m
  BY <1>0, TheStop DEF QuietInv
<1> HIDE DEF m
<1>5. \A u \in Threads : ~Inside(u, StopLabels)'
  <2> SUFFICES ASSUME NEW u \in Threads, NEW k \in DOMAIN stk'[u], stk'[u][k] \in StopLabels
               PROVE  FALSE
    BY DEF Inside
  <2>1. CASE u # t
    <3>1. stk'[u] # <<"loop">>
      BY DEF StopLabels
    <3>2. stk'[u] = stk[u]
      BY <2>1, <3>1 DEF Moves
    <3>. QED
      BY <1>4, <2>1, <3>2
  <2>2. CASE u = t
    <3>1. k \in 1..(m - 1) /\ stk'[t][k] = stk[t][k]
      BY <1>3, <2>2 DEF Moves, m
    <3>2. k \in DOMAIN stk[t] /\ k # m
      BY <1>3, <3>1
    <3>. QED
      BY <1>4, <2>2, <3>1, <3>2
  <2>. QED
    BY <2>1, <2>2
<1>6. t # Timer => stk'[Timer] = <<"exited">>
  <2>1. t # Timer => stk[Timer] = <<"exited">>
    BY <1>1 DEF QuietInv, Joined, Inside
  <2>2. <<"exited">> \notin Waits /\ Timer \in Threads
    BY DEF Waits, Threads
  <2>. QED
    BY <2>1, <2>2 DEF Moves
<1>7. t # Deliverer => stk'[Deliverer] = << >>
  BY DEF Moves, Threads, Deliverer, Timer
<1>8. Returned' /\ Fresh'
  BY <1>1, <1>5, <1>6, <1>7 DEF Returned, Fresh, QuietInv, Retired
<1>9. OneStop' /\ Handle' /\ Joined' /\ Retired'
  BY <1>5 DEF OneStop, Handle, Joined, Retired, Inside, StopLabels
<1>10. AppCalls'
  <2>0. App \in Threads /\ App # Timer
    BY DEF Threads, App, Timer
  <2> SUFFICES ASSUME NEW k \in DOMAIN stk'[App], stk'[App][k] = "callback"
               PROVE  FALSE
    BY DEF AppCalls
  <2>1. k \in DOMAIN stk[App] /\ stk[App][k] = "callback" /\ (t = App => k < m)
    <3>1. CASE t # App
      BY <2>0, <3>1 DEF Moves
    <3>2. CASE t = App
      <4>1. k \in 1..(m - 1) /\ stk'[t][k] = stk[t][k]
        BY <1>3, <3>2 DEF Moves, m
      <4>. QED
        BY <1>3, <3>2, <4>1
    <3>. QED
      BY <3>1, <3>2
  <2>2. PICK l \in 1..(k - 1) : stk[App][l] \in StopLabels
    BY <2>1 DEF QuietInv, AppCalls
  <2>3. DOMAIN stk[App] = 1..Len(stk[App]) /\ Len(stk[App]) \in Nat
    BY <1>2, <2>0, StacksTyped
  <2>4. l \in DOMAIN stk[App] /\ l < k
    BY <2>1, <2>2, <2>3
  <2>5. App = t /\ l = m
    BY <1>4, <2>0, <2>2, <2>4
  <2>. QED
    BY <1>3, <2>1, <2>3, <2>4, <2>5
<1>. QED
  BY <1>8, <1>9, <1>10 DEF QuietInv

-----------------------------------------------------------------------------
(* The steps.  Each keeps Inv. *)

Inv == TypeOK /\ RowsInv /\ QuietInv

\* The deliverer has at most one row in hand.
LEMMA HandTyped == InHand \in {0, 1} /\ InHand' \in {0, 1}
BY DEF InHand

\* A step outside the row's sections that leaves the window alone.
LEMMA RowsKept ==
  ASSUME TypeOK, RowsInv, NEW t \in Threads, NEW n, NEW X, Moves(t, n, X),
         \A x \in X : x \notin RowLabels,
         \A k \in (n + 1)..Len(stk[t]) : stk[t][k] \notin RowLabels,
         tally' = tally, out' = out, b'.rows = b.rows, b'.atts = b.atts,
         b'.dropped = b.dropped, b.stopped => b'.stopped
  PROVE  RowsInv'
<1>1. RowPlace' /\ InHand' = InHand
  BY RowStays DEF RowsInv
<1>2. Placed(b', tally, InHand)
  BY PlacedSame DEF RowsInv
<1>. QED
  BY <1>1, <1>2 DEF RowsInv

\* The innermost label, where it is not a row's.
LEMMA TopLabel ==
  ASSUME TypeOK, NEW t \in Threads, NEW x, At(t, x), x \notin RowLabels
  PROVE  /\ stk[t] # << >>
         /\ \A k \in ((Len(stk[t]) - 1) + 1)..Len(stk[t]) : stk[t][k] \notin RowLabels
<1>1. stk[t] \in Seq(Labels) /\ stk[t] # << >> /\ stk[t][Len(stk[t])] = x
  BY DEF TypeOK, At
<1>2. Len(stk[t]) \in Nat
  BY <1>1
<1>3. \A k \in ((Len(stk[t]) - 1) + 1)..Len(stk[t]) : k = Len(stk[t])
  BY <1>2
<1>. QED
  BY <1>1, <1>3

\* A thread that has ended is not inside anything.
LEMMA NotExited ==
  ASSUME NEW t, NEW x, At(t, x), x # "exited"
  PROVE  stk[t] # <<"exited">> /\ stk[t] # << >>
BY DEF At

\* A section of the delivery handler that ends.
LEMMA EndsKeeps ==
  ASSUME Inv, NEW x \in RowLabels, At(Deliverer, x), Ends, sub' = sub
  PROVE  Inv'
<1>1. Deliverer \in Threads /\ Deliverer # Timer /\ Deliverer # App
  BY DEF Threads, Deliverer, Timer, App
<1>2. Moves(Deliverer, 0, {"callback"}) /\ b'.timer = b.timer /\ RowsInv'
  BY DEF Ends
<1>3. TypeOK'
  BY DEF Inv, TypeOK, Ends, Moves
<1>4. Onward /\ stk[Deliverer] # << >>
  BY DEF Onward, At
<1>5. \A y \in {"callback"} : y \notin StopLabels
  BY DEF StopLabels
<1>6. QuietInv'
  BY <1>1, <1>2, <1>4, <1>5, QuietStep DEF Inv
<1>. QED
  BY <1>2, <1>3, <1>6 DEF Inv

\* One that goes on to another, or hands a batch over in between.
LEMMA GoesOn ==
  ASSUME Inv, NEW x \in RowLabels, At(Deliverer, x),
         NEW l \in RowLabels, Moves(Deliverer, 0, {l, "callback"}),
         Len(stk'[Deliverer]) # 0, stk'[Deliverer][1] = l,
         \A k \in 2..Len(stk'[Deliverer]) : stk'[Deliverer][k] = "callback",
         b' \in Members, sub' \in Books, tally' \in Tallies, b'.timer = b.timer, Onward,
         Placed(b', tally', 1), out'.atts = out'.rows
  PROVE  Inv'
<1>1. Deliverer \in Threads /\ Deliverer # Timer /\ Deliverer # App /\ stk[Deliverer] # << >>
  BY DEF Threads, Deliverer, Timer, App, At
<1>2. TypeOK'
  BY DEF TypeOK, Moves
<1>3. \A y \in {l, "callback"} : y \notin StopLabels
  BY DEF StopLabels, RowLabels
<1>4. \A k \in 2..Len(stk'[Deliverer]) : stk'[Deliverer][k] \notin RowLabels
  BY DEF RowLabels
<1>5. RowPlace' /\ InHand' = 1
  BY <1>4, RowMoves DEF Inv, RowsInv
<1>6. RowsInv'
  BY <1>5 DEF RowsInv
<1>7. QuietInv'
  BY <1>1, <1>3, QuietStep DEF Inv
<1>. QED
  BY <1>2, <1>6, <1>7 DEF Inv

\* A row comes.
LEMMA DeliverKeeps == ASSUME Inv, Deliver PROVE Inv'
<1>1. /\ Deliverer \in Threads /\ Deliverer # Timer /\ Deliverer # App
      /\ stk \in [Threads -> Seq(Labels)] /\ b \in Members /\ sub \in Books /\ tally \in Tallies
  BY DEF Inv, TypeOK, Threads, Deliverer, Timer, App
<1>2. PICK l \in {"once", "acquire"} : stk' = [stk EXCEPT ![Deliverer] = <<l>>]
  BY DEF Deliver
<1>3. /\ stk[Deliverer] = << >> /\ ~sub.retired /\ tally' = [tally EXCEPT !.arrived = @ + 1]
      /\ b' = b /\ sub' = sub /\ out' = out
  BY DEF Deliver
<1>4. l \in Labels /\ l \in RowLabels /\ l \notin StopLabels
  BY DEF Labels, RowLabels, StopLabels
<1>5. Moves(Deliverer, 0, {l}) /\ Len(stk'[Deliverer]) = 1 /\ stk'[Deliverer][1] = l
  BY <1>1, <1>2, <1>4, StartMoves
<1>6. InHand = 0
  BY <1>3 DEF InHand, Inside
<1>7. RowPlace' /\ InHand' = 1
  <2>1. \A k \in 2..Len(stk'[Deliverer]) : stk'[Deliverer][k] \notin RowLabels
    BY <1>5
  <2>. QED
    BY <1>4, <1>5, <2>1, RowMoves DEF Inv, RowsInv
<1>8. Placed(b, tally', 1)
  BY <1>1, <1>3, <1>6, PlacedArrives DEF Inv, RowsInv
<1>9. TypeOK'
  <2>1. tally.arrived \in Nat
    BY <1>1 DEF Tallies
  <2>2. PICK a \in Nat : a = tally.arrived + 1
    BY <2>1
  <2>3. tally' = [tally EXCEPT !.arrived = a]
    BY <1>3, <2>2
  <2>4. tally' \in Tallies
    BY <1>1, <2>3 DEF Tallies
  <2>. QED
    BY <1>1, <1>3, <1>5, <2>4 DEF TypeOK, Moves
<1>10. RowsInv'
  BY <1>3, <1>7, <1>8 DEF Inv, RowsInv
<1>11. QuietInv'
  <2>1. Onward /\ b'.timer = b.timer
    BY <1>3 DEF Onward
  <2>. QED
    BY <1>1, <1>3, <1>4, <1>5, <2>1, QuietStep DEF Inv
<1>. QED
  BY <1>9, <1>10, <1>11 DEF Inv

\* A row's section gives way to the next one.
LEMMA NextSection ==
  ASSUME Inv, NEW x \in RowLabels, At(Deliverer, x), NEW l \in RowLabels,
         NEW p \in BOOLEAN, stk' = NotifyIf(p, Become(Deliverer, l, stk)),
         b' \in Members, b'.rows = b.rows, b'.atts = b.atts, b'.dropped = b.dropped,
         b'.stopped = b.stopped, b'.timer = b.timer,
         sub' \in Books, Onward, tally' = tally, out' = out
  PROVE  Inv'
<1>1. Deliverer \in Threads /\ stk \in [Threads -> Seq(Labels)] /\ tally \in Tallies
  BY DEF Inv, TypeOK, Threads
<1>2. Len(stk[Deliverer]) = 1 /\ stk[Deliverer] # << >> /\ InHand = 1
  BY RowAtBottom DEF Inv, RowsInv
<1>3. l \in Labels /\ l \notin {"idle", "unready"}
  BY DEF Labels, RowLabels
<1>4. /\ Moves(Deliverer, Len(stk[Deliverer]) - 1, {l})
      /\ Len(stk'[Deliverer]) = Len(stk[Deliverer]) /\ stk'[Deliverer][Len(stk[Deliverer])] = l
  BY <1>1, <1>2, <1>3, BecomeMoves
<1>5. Moves(Deliverer, 0, {l}) /\ Len(stk'[Deliverer]) = 1 /\ stk'[Deliverer][1] = l
  <2>1. Len(stk[Deliverer]) - 1 = 0
    BY <1>2
  <2>. QED
    BY <1>2, <1>4, <2>1
<1>6. Moves(Deliverer, 0, {l, "callback"})
  BY <1>5 DEF Moves
<1>7. \A k \in 2..Len(stk'[Deliverer]) : stk'[Deliverer][k] = "callback"
  BY <1>5
<1>8. Placed(b', tally', 1)
  BY <1>2, PlacedSame DEF Inv, RowsInv
<1>9. out'.atts = out'.rows
  BY DEF Inv, RowsInv
<1>. QED
  BY <1>1, <1>5, <1>6, <1>7, <1>8, <1>9, GoesOn

\* AcquireCodec: the registered codec, one built from the schema of the row, or
\* none.
LEMMA AcquireKeeps == ASSUME Inv, AcquireCodec PROVE Inv'
<1>1. At(Deliverer, "acquire") /\ b' = b /\ tally' = tally /\ out' = out
  BY DEF AcquireCodec
<1>2. /\ "acquire" \in RowLabels /\ "once" \in RowLabels /\ "note" \in RowLabels
      /\ b \in Members /\ sub \in Books
  BY DEF RowLabels, Inv, TypeOK
<1>3. PICK l \in RowLabels : stk' = NotifyIf(FALSE, Become(Deliverer, l, stk))
  BY <1>2 DEF AcquireCodec, NotifyIf
<1>4. sub' \in Books /\ Onward
  BY <1>2 DEF AcquireCodec, Books, Onward
<1>. QED
  BY <1>1, <1>2, <1>3, <1>4, NextSection

\* The call_once: SetSchema makes the decoder, unless the codec is gone.
LEMMA SetSchemaKeeps == ASSUME Inv, SetSchema PROVE Inv'
<1>1. At(Deliverer, "once") /\ tally' = tally /\ out' = out
  BY DEF SetSchema
<1>2. "once" \in RowLabels /\ "add" \in RowLabels /\ b \in Members /\ sub \in Books
  BY DEF RowLabels, Inv, TypeOK
<1>3. PICK p \in BOOLEAN : stk' = NotifyIf(p, Become(Deliverer, "add", stk))
  BY DEF SetSchema, NotifyIf
<1>4. sub' \in Books /\ Onward
  BY <1>2 DEF SetSchema, Books, Onward
<1>5. /\ b' \in Members /\ b'.rows = b.rows /\ b'.atts = b.atts /\ b'.dropped = b.dropped
      /\ b'.stopped = b.stopped /\ b'.timer = b.timer
  <2>1. CASE sub.once
    BY <1>2, <2>1 DEF SetSchema
  <2>2. CASE ~sub.once
    <3>1. PICK d \in BOOLEAN, r \in BOOLEAN : b' = [b EXCEPT !.decoder = d, !.ready = r]
      BY <1>2, <2>2 DEF SetSchema, Books
    <3>. QED
      BY <1>2, <3>1 DEF Members
  <2>. QED
    BY <2>1, <2>2
<1>. QED
  BY <1>1, <1>2, <1>3, <1>4, <1>5, NextSection

\* The batcher is stopped: the row is turned away.
LEMMA TooLateEnds ==
  ASSUME Inv, NEW x \in RowLabels, At(Deliverer, x),
         tally' = [tally EXCEPT !.late = @ + 1], stk' = Leave(Deliverer, stk),
         b' = b, out' = out
  PROVE  Ends
<1>1. b \in Members /\ tally \in Tallies /\ InHand = 1
  BY RowAtBottom DEF Inv, TypeOK, RowsInv
<1>2. Placed(b, tally', 0)
  BY <1>1, PlacedLate DEF Inv, RowsInv
<1>3. tally' \in Tallies
  <2>1. tally.late \in Nat
    BY <1>1 DEF Tallies
  <2>2. PICK a \in Nat : a = tally.late + 1
    BY <2>1
  <2>3. tally' = [tally EXCEPT !.late = a]
    BY <2>2
  <2>. QED
    BY <1>1, <2>3 DEF Tallies
<1>4. Moves(Deliverer, 0, {"callback"})
  <2>1. stk' = NotifyIf(FALSE, Leave(Deliverer, stk))
    BY DEF NotifyIf
  <2>. QED
    BY <2>1, LeaveEnds DEF Inv, RowsInv
<1>. QED
  BY <1>1, <1>2, <1>3, <1>4, EndsWith DEF Inv, RowsInv

\* NoteDropped counts a row that no codec could take.
LEMMA NoteKeeps == ASSUME Inv, NoteDropped PROVE Inv'
<1>1. At(Deliverer, "note") /\ sub' = sub /\ out' = out /\ "note" \in RowLabels
  BY DEF NoteDropped, RowLabels
<1>2. CASE b.stopped
  <2>1. /\ tally' = [tally EXCEPT !.late = @ + 1] /\ stk' = Leave(Deliverer, stk) /\ b' = b
    BY <1>2 DEF NoteDropped
  <2>. QED
    BY <1>1, <2>1, TooLateEnds, EndsKeeps
<1>3. CASE ~b.stopped
  <2> DEFINE s == [b EXCEPT !.dropped = @ + 1]
  <2>1. b' = ArmTimer(s) /\ tally' = tally /\ stk' = NotifyIf(Arms(s), Leave(Deliverer, stk))
    BY <1>3 DEF NoteDropped
  <2>2. b \in Members /\ tally \in Tallies /\ InHand = 1
    BY <1>1, RowAtBottom DEF Inv, TypeOK, RowsInv
  <2>3. s \in Members /\ Placed(s, tally, 0) /\ s.timer = b.timer
    BY <1>3, <2>2, AppendRefused DEF Inv, RowsInv
  <2>4. Arms(s) \in BOOLEAN
    BY DEF Arms
  <2> HIDE DEF s
  <2>5. Moves(Deliverer, 0, {"callback"})
    BY <1>1, <2>1, <2>4, LeaveEnds DEF Inv, RowsInv
  <2>6. b' \in Members /\ b'.timer = b.timer /\ Placed(b', tally, 0)
    BY <2>1, <2>3, ArmIs, PlacedSame
  <2>7. Ends
    BY <1>1, <2>1, <2>2, <2>5, <2>6, EndsWith DEF Inv, RowsInv
  <2>. QED
    BY <1>1, <2>7, EndsKeeps
<1>. QED
  BY <1>2, <1>3

\* The row that does not fit hands the window over and stays in hand.
LEMMA HandAgain ==
  ASSUME Inv, At(Deliverer, "add"), Hands(b), sub' = sub,
         Hand(Deliverer, b, "kRowLimit", Become(Deliverer, "again", stk))
  PROVE  Inv'
<1>1. /\ Deliverer \in Threads /\ stk \in [Threads -> Seq(Labels)] /\ b \in Members
      /\ sub \in Books /\ tally \in Tallies
      /\ "add" \in RowLabels /\ "again" \in RowLabels /\ "again" \in Labels
  BY DEF Inv, TypeOK, Threads, RowLabels, Labels
<1>2. Len(stk[Deliverer]) = 1 /\ stk[Deliverer] # << >> /\ InHand = 1
  BY <1>1, RowAtBottom DEF Inv, RowsInv
<1>3. PICK finishes \in BOOLEAN :
        /\ b' = Flush(b) /\ out' = Batch(b, "kRowLimit", finishes)
        /\ stk' = Enter(Deliverer, "callback", Become(Deliverer, "again", stk))
        /\ tally' = [tally EXCEPT
              !.delivered = @ \o Batch(b, "kRowLimit", finishes).rows,
              !.reported = @ + Batch(b, "kRowLimit", finishes).dropped,
              !.closed = tally.closed]
  BY DEF Hand
<1>4. /\ Moves(Deliverer, Len(stk[Deliverer]) - 1, {"again", "callback"})
      /\ Len(stk'[Deliverer]) = Len(stk[Deliverer]) + 1
      /\ stk'[Deliverer][Len(stk[Deliverer])] = "again"
      /\ stk'[Deliverer][Len(stk[Deliverer]) + 1] = "callback"
  BY <1>1, <1>2, <1>3, HandMoves
<1>5. /\ Moves(Deliverer, 0, {"again", "callback"}) /\ Len(stk'[Deliverer]) = 2
      /\ stk'[Deliverer][1] = "again" /\ stk'[Deliverer][2] = "callback"
  <2>1. Len(stk[Deliverer]) - 1 = 0 /\ Len(stk[Deliverer]) + 1 = 2
    BY <1>2
  <2>. QED
    BY <1>2, <1>4, <2>1
<1>6. \A k \in 2..Len(stk'[Deliverer]) : stk'[Deliverer][k] = "callback"
  BY <1>5
<1>7. tally.closed = "ready" => b.stopped
  BY PlacedSays DEF Inv, RowsInv
<1>8. /\ tally' \in Tallies /\ Placed(Flush(b), tally', 1)
      /\ Batch(b, "kRowLimit", finishes).atts = Batch(b, "kRowLimit", finishes).rows
  <2>1. Placed(b, tally, 1)
    BY <1>2 DEF Inv, RowsInv
  <2>. QED
    BY <1>1, <1>3, <1>7, <2>1, PlacedHanded
<1>9. Flush(b) \in Members /\ Flush(b).timer = b.timer
  BY <1>1, FlushIs
<1>10. Onward
  BY DEF Onward
<1>. QED
  BY <1>1, <1>3, <1>5, <1>6, <1>8, <1>9, <1>10, GoesOn

\* AddRow up to its return or to the callback.
LEMMA AddRowKeeps == ASSUME Inv, AddRow PROVE Inv'
<1>1. /\ At(Deliverer, "add") /\ sub' = sub /\ "add" \in RowLabels /\ TypeOK /\ RowPlace
      /\ out.atts = out.rows /\ b \in Members /\ tally \in Tallies
  BY DEF AddRow, RowLabels, Inv, RowsInv, TypeOK
<1>2. Placed(b, tally, 1)
  BY <1>1, RowAtBottom DEF Inv, RowsInv
<1>3. CASE b.stopped
  BY <1>1, <1>3, TooLateEnds, EndsKeeps DEF AddRow, TooLate
<1>4. CASE ~b.stopped /\ ~b.decoder
  <2>1. Added([b EXCEPT !.dropped = @ + 1])
    BY <1>4 DEF AddRow
  <2>2. /\ [b EXCEPT !.dropped = @ + 1] \in Members
        /\ Placed([b EXCEPT !.dropped = @ + 1], tally, 0)
        /\ [b EXCEPT !.dropped = @ + 1].timer = b.timer
    BY <1>1, <1>2, <1>4, AppendRefused
  <2>3. Ends
    BY <1>1, <2>1, <2>2, AddedKeeps
  <2>. QED
    BY <1>1, <2>3, EndsKeeps
<1>5. CASE ~b.stopped /\ b.decoder
  <2>1. CASE TryAppend(b)
    BY <1>1, <1>2, <1>5, <2>1, TryAppendKeeps, EndsKeeps
  <2>2. CASE Hands(b) /\ Hand(Deliverer, b, "kRowLimit", Become(Deliverer, "again", stk))
    BY <1>1, <2>2, HandAgain
  <2>3. CASE ~Hands(b) /\ TryAppend(Flush(b))
    <3>1. /\ Flush(b) \in Members /\ Flush(b).stopped = b.stopped /\ Flush(b).timer = b.timer
          /\ Flush(b).rows = b.rows /\ Flush(b).atts = b.atts /\ Flush(b).dropped = b.dropped
      BY <1>1, <2>3, FlushIs
    <3>2. Placed(Flush(b), tally, 1)
      BY <1>2, <3>1, PlacedSame
    <3>3. Ends
      BY <1>1, <1>5, <2>3, <3>1, <3>2, TryAppendKeeps
    <3>. QED
      BY <1>1, <3>3, EndsKeeps
  <2>. QED
    BY <1>5, <2>1, <2>2, <2>3 DEF AddRow
<1>. QED
  BY <1>3, <1>4, <1>5

\* AddRow after the callback of the batch that the row did not fit into.
LEMMA AddRowAgainKeeps == ASSUME Inv, AddRowAgain PROVE Inv'
<1>1. /\ At(Deliverer, "again") /\ sub' = sub /\ "again" \in RowLabels /\ TypeOK /\ RowPlace
      /\ out.atts = out.rows /\ b \in Members /\ tally \in Tallies
  BY DEF AddRowAgain, RowLabels, Inv, RowsInv, TypeOK
<1>2. Placed(b, tally, 1)
  BY <1>1, RowAtBottom DEF Inv, RowsInv
<1>3. CASE b.stopped
  BY <1>1, <1>3, TooLateEnds, EndsKeeps DEF AddRowAgain, TooLate
<1>4. CASE ~b.stopped
  <2>1. Ends
    BY <1>1, <1>2, <1>4, TryAppendKeeps DEF AddRowAgain
  <2>. QED
    BY <1>1, <2>1, EndsKeeps
<1>. QED
  BY <1>3, <1>4

\* No row is on another stack than the deliverer's.
LEMMA NoRowOn ==
  ASSUME TypeOK, RowPlace, NEW t \in Threads, t # Deliverer, NEW n \in Nat
  PROVE  \A k \in (n + 1)..Len(stk[t]) : stk[t][k] \notin RowLabels
<1>1. DOMAIN stk[t] = 1..Len(stk[t]) /\ Len(stk[t]) \in Nat
  BY DEF TypeOK
<1>2. \A k \in (n + 1)..Len(stk[t]) : k \in DOMAIN stk[t]
  BY <1>1
<1>. QED
  BY <1>2 DEF RowPlace

\* The timer thread looks at the deadline.
LEMMA TimerLoopKeeps == ASSUME Inv, TimerLoop PROVE Inv'
<1>1. /\ Timer \in Threads /\ Timer # Deliverer /\ Timer # App
      /\ stk \in [Threads -> Seq(Labels)] /\ b \in Members /\ sub \in Books /\ tally \in Tallies
  BY DEF Inv, TypeOK, Threads, Deliverer, Timer, App
<1>2. PICK l \in TimerLabels : stk' = [stk EXCEPT ![Timer] = <<l>>]
  BY DEF TimerLoop, TimerLabels
<1>3. /\ stk[Timer] # <<"exited">> /\ b' = b /\ sub' = sub /\ out' = out /\ tally' = tally
  BY DEF TimerLoop, At
<1>4. l \in Labels /\ l \notin RowLabels /\ l \notin StopLabels
  BY DEF Labels, RowLabels, StopLabels, TimerLabels
<1>5. Moves(Timer, 0, {l})
  BY <1>1, <1>2, <1>4, StartMoves
<1>6. TypeOK'
  BY <1>1, <1>3, <1>5 DEF TypeOK, Moves
<1>7. RowsInv'
  <2>1. \A k \in (0 + 1)..Len(stk[Timer]) : stk[Timer][k] \notin RowLabels
    BY <1>1, NoRowOn DEF Inv, RowsInv
  <2>. QED
    BY <1>1, <1>3, <1>4, <1>5, <2>1, RowsKept DEF Inv
<1>8. QuietInv'
  <2>1. Onward /\ b'.timer = b.timer
    BY <1>3 DEF Onward
  <2>. QED
    BY <1>1, <1>3, <1>4, <1>5, <2>1, QuietStep DEF Inv
<1>. QED
  BY <1>6, <1>7, <1>8 DEF Inv

\* The wait of the timer thread returns: it flushes if the deadline has passed.
LEMMA TimerExpiresKeeps == ASSUME Inv, TimerExpires PROVE Inv'
<1> DEFINE n == Len(stk[Timer]) - 1
           idle == b.stopped \/ ~b.deadline
<1>1. /\ Timer \in Threads /\ Timer # Deliverer /\ Timer # App
      /\ stk \in [Threads -> Seq(Labels)] /\ b \in Members /\ sub \in Books /\ tally \in Tallies
  BY DEF Inv, TypeOK, Threads, Deliverer, Timer, App
<1>2. At(Timer, "timed") /\ sub' = sub
  BY DEF TimerExpires
<1>3. stk[Timer] # << >> /\ stk[Timer] # <<"exited">> /\ n \in Nat
  BY <1>1, <1>2 DEF At
<1>4. \A k \in (n + 1)..Len(stk[Timer]) : stk[Timer][k] \notin RowLabels
  BY <1>1, <1>3, NoRowOn DEF Inv, RowsInv
<1>5. Onward
  BY <1>2 DEF Onward
<1>6. {"loop", "unready", "callback"} \subseteq Labels
  BY DEF Labels, TimerLabels
<1>7. CASE ~idle /\ Hands(b)
  <2>1. PICK finishes \in BOOLEAN :
          /\ b' = Flush(b) /\ out' = Batch(b, "kTimeout", finishes)
          /\ stk' = Enter(Timer, "callback", Become(Timer, "loop", stk))
          /\ tally' = [tally EXCEPT
                !.delivered = @ \o Batch(b, "kTimeout", finishes).rows,
                !.reported = @ + Batch(b, "kTimeout", finishes).dropped,
                !.closed = tally.closed]
    BY <1>7 DEF TimerExpires, Hand
  <2>2. Moves(Timer, n, {"loop", "callback"})
    BY <1>1, <1>3, <1>6, <2>1, HandMoves
  <2>3. \A x \in {"loop", "callback"} : x \notin RowLabels /\ x \notin StopLabels
    BY DEF RowLabels, StopLabels
  <2> HIDE DEF n
  <2>4. RowPlace' /\ InHand' = InHand
    BY <1>1, <1>4, <2>2, <2>3, RowStays DEF Inv, RowsInv
  <2>5. tally.closed = "ready" => b.stopped
    BY PlacedSays DEF Inv, RowsInv
  <2>6. /\ tally' \in Tallies /\ Placed(Flush(b), tally', InHand)
        /\ Batch(b, "kTimeout", finishes).atts = Batch(b, "kTimeout", finishes).rows
    <3>1. Placed(b, tally, InHand)
      BY DEF Inv, RowsInv
    <3>. QED
      BY <1>1, <1>7, <2>1, <2>5, <3>1, HandTyped, PlacedHanded
  <2>7. Flush(b) \in Members /\ Flush(b).timer = b.timer
    BY <1>1, FlushIs
  <2>8. TypeOK' /\ RowsInv'
    BY <1>1, <1>2, <2>1, <2>2, <2>4, <2>6, <2>7 DEF TypeOK, RowsInv, Moves
  <2>9. QuietInv'
    BY <1>1, <1>3, <1>5, <2>1, <2>2, <2>3, <2>7, QuietStep DEF Inv
  <2>. QED
    BY <2>8, <2>9 DEF Inv
<1>8. CASE ~(~idle /\ Hands(b))
  <2>1. PICK l \in {"loop", "unready"} : stk' = NotifyIf(FALSE, Become(Timer, l, stk))
    BY <1>8 DEF TimerExpires, NotifyIf
  <2>2. /\ b' = (IF ~idle /\ b.ready THEN Flush(b) ELSE b) /\ out' = out /\ tally' = tally
    BY <1>8 DEF TimerExpires
  <2>3. Moves(Timer, n, {l})
    BY <1>1, <1>3, <1>6, <2>1, BecomeMoves
  <2>4. l \notin RowLabels /\ l \notin StopLabels
    BY DEF RowLabels, StopLabels
  <2>5. /\ b' \in Members /\ b'.rows = b.rows /\ b'.atts = b.atts /\ b'.dropped = b.dropped
        /\ b'.stopped = b.stopped /\ b'.timer = b.timer
    BY <1>1, <1>8, <2>2, FlushIs
  <2> HIDE DEF n
  <2>6. TypeOK'
    BY <1>1, <1>2, <2>2, <2>3, <2>5 DEF TypeOK, Moves
  <2>7. RowsInv'
    BY <1>1, <1>4, <2>2, <2>3, <2>4, <2>5, RowsKept DEF Inv
  <2>8. QuietInv'
    BY <1>1, <1>3, <1>5, <2>3, <2>4, <2>5, QuietStep DEF Inv
  <2>. QED
    BY <2>6, <2>7, <2>8 DEF Inv
<1>. QED
  BY <1>7, <1>8

\* The user's callback returns to the flush that called it.
LEMMA CallbackReturnsKeeps ==
  ASSUME Inv, NEW t \in Threads, CallbackReturns(t)
  PROVE  Inv'
<1> DEFINE n == Len(stk[t]) - 1
<1>1. /\ stk \in [Threads -> Seq(Labels)] /\ b \in Members /\ sub \in Books /\ tally \in Tallies
      /\ TypeOK /\ RowsInv /\ QuietInv
  BY DEF Inv, TypeOK
<1>2. At(t, "callback") /\ b' = b /\ sub' = sub /\ out' = out /\ tally' = tally
  BY DEF CallbackReturns
<1>3. /\ stk[t] # << >> /\ stk[t] # <<"exited">>
      /\ \A k \in (n + 1)..Len(stk[t]) : stk[t][k] \notin RowLabels
  <2>1. "callback" \notin RowLabels
    BY DEF RowLabels
  <2>. QED
    BY <1>1, <1>2, <2>1, TopLabel, NotExited
<1>4. Moves(t, n, {})
  <2>1. stk' = NotifyIf(FALSE, Leave(t, stk))
    BY DEF CallbackReturns, NotifyIf
  <2>. QED
    BY <1>1, <1>3, <2>1, LeaveMoves
<1> HIDE DEF n
<1>5. TypeOK'
  BY <1>1, <1>2, <1>4 DEF TypeOK, Moves
<1>6. RowsInv'
  BY <1>1, <1>2, <1>3, <1>4, RowsKept
<1>7. QuietInv'
  <2>1. Onward /\ b'.timer = b.timer
    BY <1>2 DEF Onward
  <2>. QED
    BY <1>1, <1>3, <1>4, <2>1, QuietStep
<1>. QED
  BY <1>5, <1>6, <1>7 DEF Inv

\* The books change and no thread moves.
LEMMA BooksKeep ==
  ASSUME Inv, sub' \in Books, Onward, b' = b, stk' = stk, out' = out, tally' = tally
  PROVE  Inv'
<1>1. TypeOK'
  BY DEF Inv, TypeOK
<1>2. RowsInv'
  BY DEF Inv, RowsInv, RowPlace, InHand, Inside
<1>3. App \in Threads /\ App # Timer /\ App # Deliverer /\ stk[App] \in Seq(Labels)
  BY DEF Threads, App, Timer, Deliverer, Inv, TypeOK
<1>4. Moves(App, Len(stk[App]), {})
  BY <1>3 DEF Moves, Inv, TypeOK
<1>5. QuietInv'
  BY <1>3, <1>4, QuietStep DEF Inv
<1>. QED
  BY <1>1, <1>2, <1>5 DEF Inv

\* Subscribe returns to the application.
LEMMA SubscribeReturnsKeeps == ASSUME Inv, SubscribeReturns PROVE Inv'
<1>1. sub' \in Books /\ Onward
  BY DEF SubscribeReturns, Inv, TypeOK, Books, Onward
<1>. QED
  BY <1>1, BooksKeep DEF SubscribeReturns

\* Another subscription of the topic is cancelled.
LEMMA SiblingKeeps == ASSUME Inv, SiblingUnsubscribes PROVE Inv'
<1>1. sub' \in Books /\ Onward
  BY DEF SiblingUnsubscribes, Inv, TypeOK, Books, Onward
<1>. QED
  BY <1>1, BooksKeep DEF SiblingUnsubscribes

\* Unsubscribe and the destructor are entered.
LEMMA CallEnters ==
  ASSUME Inv, NEW t \in Threads, NEW l \in {"stop", "late"}, stk' = Enter(t, l, stk),
         b' = b, out' = out, tally' = tally, sub' \in Books
  PROVE  /\ TypeOK' /\ RowsInv' /\ Moves(t, Len(stk[t]), {l})
         /\ Len(stk'[t]) = Len(stk[t]) + 1
<1>1. stk \in [Threads -> Seq(Labels)] /\ l \in Labels /\ l \notin RowLabels
  BY DEF Inv, TypeOK, Labels, CancelLabels, StopLabels, LateLabels, RowLabels
<1>2. Moves(t, Len(stk[t]), {l}) /\ Len(stk'[t]) = Len(stk[t]) + 1
  BY <1>1, EnterMoves
<1>3. TypeOK'
  BY <1>2 DEF Inv, TypeOK, Moves
<1>4. Len(stk[t]) \in Nat
  BY <1>1
<1>5. \A k \in (Len(stk[t]) + 1)..Len(stk[t]) : stk[t][k] \notin RowLabels
  BY <1>4
<1>6. RowsInv'
  BY <1>1, <1>2, <1>5, RowsKept DEF Inv
<1>. QED
  BY <1>2, <1>3, <1>6

\* Unsubscribe is called, also from inside the callback.
LEMMA UnsubscribeKeeps ==
  ASSUME Inv, NEW t \in Threads, Unsubscribe(t)
  PROVE  Inv'
<1>1. /\ b' = b /\ out' = out /\ tally' = tally
      /\ sub' = [sub EXCEPT !.held = FALSE, !.calls = @ + 1]
      /\ sub \in Books /\ b \in Members /\ QuietInv /\ TypeOK
  BY DEF Unsubscribe, Inv, TypeOK
<1>2. /\ sub' \in Books /\ ~sub'.held /\ sub'.calls # 0 /\ sub'.by = sub.by
      /\ sub'.retired = sub.retired
  <2>1. sub.calls \in Nat
    BY <1>1 DEF Books
  <2>2. PICK c \in Nat : c = sub.calls + 1 /\ c # 0
    BY <2>1
  <2>3. sub' = [sub EXCEPT !.held = FALSE, !.calls = c]
    BY <1>1, <2>2
  <2>. QED
    BY <1>1, <2>2, <2>3 DEF Books
<1>3. CASE sub.held
  <2>1. stk' = Enter(t, "stop", stk)
    BY <1>3 DEF Unsubscribe
  <2>2. /\ TypeOK' /\ RowsInv' /\ Moves(t, Len(stk[t]), {"stop"})
        /\ Len(stk'[t]) = Len(stk[t]) + 1
    BY <1>1, <1>2, <2>1, CallEnters
  <2>3. QuietInv'
    BY <1>1, <1>2, <1>3, <2>2, StartStop
  <2>. QED
    BY <2>2, <2>3 DEF Inv
<1>4. CASE ~sub.held
  <2>1. stk' = Enter(t, "late", stk)
    BY <1>4 DEF Unsubscribe
  <2>2. TypeOK' /\ RowsInv' /\ Moves(t, Len(stk[t]), {"late"})
    BY <1>1, <1>2, <2>1, CallEnters
  <2>3. Onward
    BY <1>2 DEF Onward
  <2>4. "late" \notin StopLabels
    BY DEF StopLabels
  <2>5. t # App => stk[t] # << >> /\ stk[t] # <<"exited">>
    BY DEF Unsubscribe, At
  <2>6. App # Deliverer /\ App # Timer
    BY DEF App, Deliverer, Timer
  <2>7. QuietInv'
    BY <1>1, <2>2, <2>3, <2>4, <2>5, <2>6, QuietStep
  <2>. QED
    BY <2>2, <2>7 DEF Inv
<1>. QED
  BY <1>3, <1>4

\* The subscriber is destroyed.
LEMMA DestroyKeeps == ASSUME Inv, Destroy PROVE Inv'
<1>1. /\ b' = b /\ out' = out /\ tally' = tally /\ App \in Threads /\ sub.calls = 0
      /\ sub' = [sub EXCEPT !.held = FALSE, !.calls = MaxCancel, !.sibling = FALSE]
      /\ sub \in Books /\ b \in Members /\ QuietInv /\ TypeOK /\ stk' = Enter(App, "stop", stk)
  BY DEF Destroy, Inv, TypeOK, Threads
<1>2. sub' \in Books /\ ~sub'.held /\ sub'.calls # 0 /\ sub'.by = sub.by
  BY <1>1, BatcherAssumption DEF Books
<1>3. /\ TypeOK' /\ RowsInv' /\ Moves(App, Len(stk[App]), {"stop"})
      /\ Len(stk'[App]) = Len(stk[App]) + 1
  BY <1>1, <1>2, CallEnters
<1>4. QuietInv'
  BY <1>1, <1>2, <1>3, StartStop
<1>. QED
  BY <1>3, <1>4 DEF Inv

\* A step of a cancelling call that replaces its innermost label.
LEMMA CancelMoves ==
  ASSUME Inv, NEW t \in Threads, NEW x \in CancelLabels, At(t, x), NEW y \in CancelLabels,
         NEW p \in BOOLEAN, stk' = NotifyIf(p, Become(t, y, stk))
  PROVE  /\ Moves(t, Len(stk[t]) - 1, {y}) /\ Moves(t, Len(stk[t]) - 1, {y, "callback"})
         /\ Len(stk'[t]) = Len(stk[t]) /\ stk'[t][Len(stk[t])] = y /\ Len(stk[t]) \in Nat
         /\ RowPlace' /\ InHand' = InHand /\ stk[t] # << >> /\ stk[t] # <<"exited">>
<1>1. /\ stk \in [Threads -> Seq(Labels)] /\ y \in Labels /\ y \notin {"idle", "unready"}
      /\ x \notin RowLabels /\ y \notin RowLabels /\ x # "exited" /\ TypeOK /\ RowPlace
  BY DEF Inv, TypeOK, RowsInv, Labels, RowLabels, CancelLabels, StopLabels, LateLabels
<1>2. /\ stk[t] # << >> /\ stk[t] # <<"exited">>
      /\ \A k \in ((Len(stk[t]) - 1) + 1)..Len(stk[t]) : stk[t][k] \notin RowLabels
  BY <1>1, TopLabel, NotExited
<1>3. /\ Moves(t, Len(stk[t]) - 1, {y})
      /\ Len(stk'[t]) = Len(stk[t]) /\ stk'[t][Len(stk[t])] = y
  BY <1>1, <1>2, BecomeMoves
<1>4. RowPlace' /\ InHand' = InHand
  BY <1>1, <1>2, <1>3, RowStays
<1>5. Moves(t, Len(stk[t]) - 1, {y, "callback"})
  BY <1>3 DEF Moves
<1>6. Len(stk[t]) \in Nat
  BY <1>1
<1>. QED
  BY <1>2, <1>3, <1>4, <1>5, <1>6

\* A stopping label gives way to another one, and the window is left alone.
LEMMA StopGoesOn ==
  ASSUME Inv, NEW t \in Threads, NEW x \in StopLabels, At(t, x), NEW y \in StopLabels,
         NEW p \in BOOLEAN, stk' = NotifyIf(p, Become(t, y, stk)),
         b' \in Members, tally' \in Tallies, sub' \in Books,
         Placed(b', tally', InHand), out' = out, Onward,
         y \notin {"stop", "stopping"},
         y \in {"drain", "drained"} /\ t # Timer => stk[Timer] = <<"exited">>,
         y = "drained" => sub'.retired
  PROVE  Inv'
<1>1. x \in CancelLabels /\ y \in CancelLabels /\ Timer \in Threads
  BY DEF CancelLabels, Threads
<1>2. /\ Moves(t, Len(stk[t]) - 1, {y, "callback"})
      /\ Len(stk'[t]) = Len(stk[t]) /\ stk'[t][Len(stk[t])] = y /\ Len(stk[t]) \in Nat
      /\ RowPlace' /\ InHand' = InHand
  BY <1>1, CancelMoves
<1>3. TypeOK'
  BY <1>2 DEF TypeOK, Moves
<1>4. RowsInv'
  BY <1>2 DEF Inv, RowsInv
<1>5. y \in {"drain", "drained"} /\ t # Timer => stk'[Timer] = <<"exited">>
  <2>1. <<"exited">> \notin Waits
    BY DEF Waits
  <2>. QED
    BY <1>1, <1>2, <2>1 DEF Moves
<1>6. \A k \in (Len(stk[t]) + 1)..Len(stk'[t]) : stk'[t][k] = "callback"
  BY <1>2
<1>7. Len(stk'[t]) >= Len(stk[t])
  BY <1>2
<1>8. QuietInv'
  BY <1>2, <1>5, <1>6, <1>7, StopStep DEF Inv
<1>. QED
  BY <1>3, <1>4, <1>8 DEF Inv

\* The timer_ handle is there, so a thread other than the timer joins.
LEMMA HandleIsThere ==
  ASSUME Inv, NEW t \in Threads, NEW x \in {"stop", "stopping"}, At(t, x)
  PROVE  /\ b.timer /\ x \in StopLabels /\ AfterStop(t) \in StopLabels
         /\ AfterStop(t) \in {"join", "drain"} /\ (AfterStop(t) = "drain" => t = Timer)
<1>1. x \in StopLabels
  BY DEF StopLabels
<1>2. Inside(t, {x})
  BY <1>1, Taken DEF Inv
<1>3. b.timer
  BY <1>2 DEF Inv, QuietInv, Handle, Inside
<1>. QED
  BY <1>1, <1>3 DEF AfterStop, StopLabels

\* The tally notes how the window was closed.
LEMMA PlacedClosed ==
  ASSUME NEW s \in Members, NEW r \in Tallies, NEW h, Placed(s, r, h),
         NEW c \in {"no", "ready", "unready"},
         c = "ready" => s.stopped /\ s.rows = << >> /\ s.dropped = 0,
         NEW q, q = [r EXCEPT !.closed = c]
  PROVE  q \in Tallies /\ Placed(s, q, h)
<1>1. /\ q \in Tallies /\ q.closed = c /\ q.arrived = r.arrived /\ q.extra = r.extra
      /\ q.delivered = r.delivered /\ q.reported = r.reported /\ q.late = r.late
  BY DEF Tallies
<1>2. Count(s, q) = Count(s, r)
  BY <1>1 DEF Count
<1>. QED
  BY <1>1, <1>2 DEF Placed

\* The first half of Stop: the flag and the closing flush.
LEMMA StopKeeps ==
  ASSUME Inv, NEW t \in Threads, Stop(t)
  PROVE  Inv'
<1>1. /\ stk \in [Threads -> Seq(Labels)] /\ b \in Members /\ sub \in Books /\ tally \in Tallies
      /\ TypeOK /\ RowPlace /\ QuietInv /\ Placed(b, tally, InHand) /\ out.atts = out.rows
  BY DEF Inv, TypeOK, RowsInv
<1>2. At(t, "stop") /\ sub' = sub
  BY DEF Stop
<1>3. /\ b.timer /\ "stop" \in StopLabels /\ AfterStop(t) \in StopLabels
      /\ AfterStop(t) \in {"join", "drain"} /\ (AfterStop(t) = "drain" => t = Timer)
  BY <1>2, HandleIsThere
<1>4. Onward
  BY <1>2 DEF Onward
<1>5. CASE ~b.stopped /\ Hands(b)
  <2> DEFINE s == [b EXCEPT !.stopped = TRUE]
  <2>1. PICK finishes \in BOOLEAN :
          /\ b' = Flush(s) /\ out' = Batch(s, "kClosing", finishes)
          /\ stk' = Enter(t, "callback", Become(t, "stopping", stk))
          /\ tally' = [tally EXCEPT
                !.delivered = @ \o Batch(s, "kClosing", finishes).rows,
                !.reported = @ + Batch(s, "kClosing", finishes).dropped, !.closed = "ready"]
    BY <1>5 DEF Stop, Hand
  <2>2. /\ s \in Members /\ s.rows = b.rows /\ s.atts = b.atts /\ s.dropped = b.dropped
        /\ s.stopped /\ s.ready = b.ready /\ s.timer = b.timer
    BY <1>1 DEF Members
  <2> HIDE DEF s
  <2>3. Hands(s) /\ Placed(s, tally, InHand)
    BY <1>1, <1>5, <2>2, PlacedSame DEF Hands, HasPending
  <2>4. /\ tally' \in Tallies /\ Placed(Flush(s), tally', InHand)
        /\ Batch(s, "kClosing", finishes).atts = Batch(s, "kClosing", finishes).rows
    BY <1>1, <2>1, <2>2, <2>3, HandTyped, PlacedHanded
  <2>5. Flush(s) \in Members /\ Flush(s).timer
    BY <1>3, <2>2, FlushIs
  <2>6. "stopping" \in Labels /\ "stopping" \in StopLabels /\ "stop" \notin RowLabels
    BY DEF Labels, CancelLabels, StopLabels, RowLabels
  <2>7. /\ stk[t] # << >>
        /\ \A k \in ((Len(stk[t]) - 1) + 1)..Len(stk[t]) : stk[t][k] \notin RowLabels
    BY <1>1, <1>2, <2>6, TopLabel
  <2>8. /\ Moves(t, Len(stk[t]) - 1, {"stopping", "callback"})
        /\ Len(stk'[t]) = Len(stk[t]) + 1 /\ stk'[t][Len(stk[t])] = "stopping"
        /\ stk'[t][Len(stk[t]) + 1] = "callback"
    BY <1>1, <2>1, <2>6, <2>7, HandMoves
  <2>9. RowPlace' /\ InHand' = InHand
    <3>1. \A y \in {"stopping", "callback"} : y \notin RowLabels
      BY DEF RowLabels
    <3>. QED
      BY <1>1, <2>7, <2>8, <3>1, RowStays
  <2>10. TypeOK' /\ RowsInv'
    BY <1>1, <1>2, <2>1, <2>4, <2>5, <2>8, <2>9 DEF TypeOK, RowsInv, Moves
  <2>11. /\ \A k \in (Len(stk[t]) + 1)..Len(stk'[t]) : stk'[t][k] = "callback"
         /\ Len(stk'[t]) >= Len(stk[t])
    <3>1. Len(stk[t]) \in Nat
      BY <1>1
    <3>. QED
      BY <2>8, <3>1
  <2>12. QuietInv'
    BY <1>1, <1>2, <1>3, <1>4, <2>1, <2>5, <2>6, <2>8, <2>11, StopStep
  <2>. QED
    BY <2>10, <2>12 DEF Inv
<1>6. CASE ~(~b.stopped /\ Hands(b))
  <2> DEFINE c == IF b.stopped THEN tally.closed ELSE IF b.ready THEN "ready" ELSE "unready"
             w == IF b.stopped THEN b ELSE Flush(b)
  <2>1. /\ b' = [w EXCEPT !.stopped = TRUE, !.timer = FALSE]
        /\ stk' = NotifyIf(~b.stopped, Become(t, AfterStop(t), stk))
        /\ tally' = [tally EXCEPT !.closed = c] /\ out' = out
    BY <1>6 DEF Stop
  <2>2. w \in Members /\ w.rows = b.rows /\ w.atts = b.atts /\ w.dropped = b.dropped
    BY <1>1, <1>6, FlushIs
  <2>3. c = "ready" => b.rows = << >> /\ b.dropped = 0
    <3>1. CASE b.stopped
      BY <1>1, <3>1, PlacedSays
    <3>2. CASE ~b.stopped
      <4>1. b.dropped \in Nat
        BY <1>1 DEF Members
      <4>. QED
        BY <1>6, <3>2, <4>1 DEF Hands, HasPending
    <3>. QED
      BY <3>1, <3>2
  <2>4. c \in {"no", "ready", "unready"}
    BY <1>1 DEF Tallies
  <2> HIDE DEF c, w
  <2>5. /\ b' \in Members /\ b'.rows = b.rows /\ b'.atts = b.atts /\ b'.dropped = b.dropped
        /\ b'.stopped
    BY <2>1, <2>2 DEF Members
  <2>6. Placed(b', tally, InHand)
    BY <1>1, <2>5, PlacedSame
  <2>7. tally' \in Tallies /\ Placed(b', tally', InHand)
    BY <1>1, <2>1, <2>3, <2>4, <2>5, <2>6, PlacedClosed
  <2>8. (~b.stopped) \in BOOLEAN
    OBVIOUS
  <2>9. AfterStop(t) # "drained" /\ AfterStop(t) \notin {"stop", "stopping"}
    BY <1>3
  <2>10. AfterStop(t) \in {"drain", "drained"} => t = Timer
    BY <1>3
  <2>. QED
    BY <1>1, <1>2, <1>3, <1>4, <2>1, <2>5, <2>7, <2>8, <2>9, <2>10, StopGoesOn
<1>. QED
  BY <1>5, <1>6

\* The second half, after the closing callback.
LEMMA StoppingKeeps ==
  ASSUME Inv, NEW t \in Threads, Stopping(t)
  PROVE  Inv'
<1>1. /\ b \in Members /\ sub \in Books /\ tally \in Tallies /\ Placed(b, tally, InHand)
  BY DEF Inv, TypeOK, RowsInv
<1>2. /\ At(t, "stopping") /\ sub' = sub /\ out' = out /\ tally' = tally
      /\ b' = [b EXCEPT !.timer = FALSE] /\ stk' = NotifyIf(TRUE, Become(t, AfterStop(t), stk))
  BY DEF Stopping, NotifyIf
<1>3. /\ "stopping" \in StopLabels /\ AfterStop(t) \in StopLabels
      /\ AfterStop(t) \in {"join", "drain"} /\ (AfterStop(t) = "drain" => t = Timer)
  BY <1>2, HandleIsThere
<1>4. /\ b' \in Members /\ b'.rows = b.rows /\ b'.atts = b.atts /\ b'.dropped = b.dropped
      /\ b'.stopped = b.stopped
  BY <1>1, <1>2 DEF Members
<1>5. Placed(b', tally', InHand)
  BY <1>1, <1>2, <1>4, PlacedSame
<1>6. Onward
  BY <1>2 DEF Onward
<1>7. AfterStop(t) # "drained" /\ AfterStop(t) \notin {"stop", "stopping"}
  BY <1>3
<1>8. AfterStop(t) \in {"drain", "drained"} => t = Timer
  BY <1>3
<1>. QED
  BY <1>1, <1>2, <1>3, <1>4, <1>5, <1>6, <1>7, <1>8, StopGoesOn

\* Stop joins the timer thread.
LEMMA JoinKeeps ==
  ASSUME Inv, NEW t \in Threads, Join(t)
  PROVE  Inv'
<1>1. /\ b \in Members /\ sub \in Books /\ tally \in Tallies /\ Placed(b, tally, InHand)
      /\ "join" \in StopLabels /\ "drain" \in StopLabels
  BY DEF Inv, TypeOK, RowsInv, StopLabels
<1>2. /\ At(t, "join") /\ sub' = sub /\ out' = out /\ tally' = tally /\ b' = b
      /\ stk' = NotifyIf(FALSE, Become(t, "drain", stk)) /\ stk[Timer] = <<"exited">>
  BY DEF Join, NotifyIf
<1>3. Onward
  BY <1>2 DEF Onward
<1>. QED
  BY <1>1, <1>2, <1>3, StopGoesOn

\* The Subscriber starts no delivery any more.
LEMMA RetireKeeps ==
  ASSUME Inv, NEW t \in Threads, Retire(t)
  PROVE  Inv'
<1>1. /\ b \in Members /\ sub \in Books /\ tally \in Tallies /\ Placed(b, tally, InHand)
      /\ TypeOK /\ QuietInv /\ out.atts = out.rows
  BY DEF Inv, TypeOK, RowsInv
<1>2. out' = out /\ tally' = tally /\ b' = b /\ sub' = [sub EXCEPT !.retired = TRUE]
  BY DEF Retire
<1>3. sub' \in Books /\ sub'.retired /\ Onward
  BY <1>1, <1>2 DEF Books, Onward
<1>4. CASE At(t, "drain")
  <2>1. stk' = NotifyIf(FALSE, Become(t, "drained", stk))
    BY <1>4 DEF Retire, NotifyIf
  <2>2. "drain" \in StopLabels /\ "drained" \in StopLabels
    BY DEF StopLabels
  <2>3. t # Timer => stk[Timer] = <<"exited">>
    BY <1>1, <1>4, <2>2, Taken DEF QuietInv, Joined, Inside
  <2>. QED
    BY <1>1, <1>2, <1>3, <1>4, <2>1, <2>2, <2>3, StopGoesOn
<1>5. CASE ~At(t, "drain")
  <2>1. At(t, "late") /\ stk' = NotifyIf(FALSE, Become(t, "late drained", stk))
    BY <1>5 DEF Retire, NotifyIf
  <2>2. /\ "late" \in CancelLabels /\ "late drained" \in CancelLabels
        /\ "late drained" \notin StopLabels
    BY DEF CancelLabels, LateLabels, StopLabels
  <2>3. /\ Moves(t, Len(stk[t]) - 1, {"late drained"})
        /\ RowPlace' /\ InHand' = InHand /\ stk[t] # << >> /\ stk[t] # <<"exited">>
    BY <2>1, <2>2, CancelMoves
  <2>4. TypeOK'
    BY <1>1, <1>2, <1>3, <2>3 DEF TypeOK, Moves
  <2>5. RowsInv'
    BY <1>1, <1>2, <2>3 DEF RowsInv
  <2>6. QuietInv'
    BY <1>1, <1>2, <1>3, <2>2, <2>3, QuietStep
  <2>. QED
    BY <2>4, <2>5, <2>6 DEF Inv
<1>. QED
  BY <1>4, <1>5

\* The running delivery has been waited for, and the codec goes.
LEMMA ForgetKeeps ==
  ASSUME Inv, NEW t \in Threads, Forget(t)
  PROVE  Inv'
<1>1. /\ b \in Members /\ sub \in Books /\ tally \in Tallies /\ TypeOK /\ RowsInv /\ QuietInv
      /\ stk \in [Threads -> Seq(Labels)]
  BY DEF Inv, TypeOK
<1>2. /\ out' = out /\ tally' = tally /\ b' = b /\ stk' = NotifyIf(FALSE, Leave(t, stk))
      /\ t = Deliverer \/ stk[Deliverer] = << >>
      /\ At(t, "drained") \/ At(t, "late drained")
  BY DEF Forget, NotifyIf
<1>3. /\ sub' \in Books /\ sub'.calls = sub.calls /\ sub'.held = sub.held
      /\ sub'.retired = sub.retired /\ sub'.by = IF At(t, "drained") THEN t ELSE sub.by
  BY <1>1 DEF Forget, Books
<1>4. /\ stk[t] # << >> /\ stk[t] # <<"exited">>
      /\ \A k \in ((Len(stk[t]) - 1) + 1)..Len(stk[t]) : stk[t][k] \notin RowLabels
  <2>1. "drained" \notin RowLabels /\ "late drained" \notin RowLabels
    BY DEF RowLabels
  <2>. QED
    BY <1>1, <1>2, <2>1, TopLabel, NotExited
<1>5. Moves(t, Len(stk[t]) - 1, {}) /\ Len(stk'[t]) = Len(stk[t]) - 1
  BY <1>1, <1>2, <1>4, LeaveMoves
<1>6. TypeOK'
  BY <1>1, <1>2, <1>3, <1>5 DEF TypeOK, Moves
<1>7. RowsInv'
  <2>1. \A x \in {} : x \notin RowLabels
    OBVIOUS
  <2>2. RowPlace
    BY <1>1 DEF RowsInv
  <2>3. RowPlace' /\ InHand' = InHand
    BY <1>1, <1>4, <1>5, <2>1, <2>2, RowStays
  <2>. QED
    BY <1>1, <1>2, <2>3 DEF RowsInv
<1>8. CASE At(t, "drained")
  <2>1. QuietInv'
    BY <1>1, <1>2, <1>3, <1>5, <1>8, StopEnds
  <2>. QED
    BY <1>6, <1>7, <2>1 DEF Inv
<1>9. CASE ~At(t, "drained")
  <2>1. Onward /\ b'.timer = b.timer
    BY <1>2, <1>3, <1>9 DEF Onward
  <2>2. QuietInv'
    BY <1>1, <1>4, <1>5, <2>1, QuietStep
  <2>. QED
    BY <1>6, <1>7, <2>2 DEF Inv
<1>. QED
  BY <1>8, <1>9

-----------------------------------------------------------------------------
(* The theorems. *)

\* The batcher starts with no row, no thread in it and no batch.
LEMMA InitInv == Init => Inv
<1> SUFFICES ASSUME Init
             PROVE  Inv
  OBVIOUS
<1>1. << >> \in Seq(Nat) /\ << >> \in Seq(Labels) /\ <<"loop">> \in Seq(Labels)
  BY DEF Labels, TimerLabels
<1>2. b \in Members /\ b.rows = << >> /\ b.atts = << >> /\ b.dropped = 0 /\ b.timer
  <2>1. b = [ready |-> FALSE, stopped |-> FALSE, decoder |-> FALSE, rows |-> << >>,
             atts |-> << >>, dropped |-> 0, deadline |-> FALSE, timer |-> TRUE]
    BY DEF Init
  <2>2. 0 \in Nat
    OBVIOUS
  <2>3. b \in Members
    BY <1>1, <2>1, <2>2 DEF Members
  <2>. QED
    BY <2>1, <2>3
<1>3. sub \in Books /\ sub.by = "none"
  BY DEF Init, Books
<1>4. /\ tally \in Tallies /\ tally.arrived = 0 /\ tally.delivered = << >> /\ tally.reported = 0
      /\ tally.late = 0 /\ tally.extra = 0 /\ tally.closed = "no"
  BY <1>1 DEF Init, Tallies
<1>5. stk \in [Threads -> Seq(Labels)]
  <2>1. stk = [t \in Threads |-> IF t = Timer THEN <<"loop">> ELSE << >>]
    BY DEF Init
  <2>. QED
    BY <1>1, <2>1
<1>6. ASSUME NEW t \in Threads, NEW k \in DOMAIN stk[t]
      PROVE  stk[t][k] = "loop" /\ t = Timer
  BY <1>6 DEF Init
<1>7. TypeOK
  BY <1>2, <1>3, <1>4, <1>5 DEF TypeOK
<1>8. RowPlace /\ InHand = 0
  BY <1>6 DEF RowPlace, InHand, Inside, RowLabels, Threads, Deliverer, Timer
<1>9. out.atts = out.rows
  BY DEF Init, NoBatch
<1>10. Placed(b, tally, 0)
  <2>1. Len(b.rows) = 0 /\ Len(tally.delivered) = 0
    BY <1>2, <1>4
  <2>2. Count(b, tally) = 0
    BY <2>1 DEF Count
  <2>3. tally.delivered \o b.rows = << >>
    BY <1>2, <1>4
  <2>4. Rising(<< >>) /\ Below(<< >>, tally.arrived - 0)
    BY DEF Rising, Below
  <2>5. tally.arrived + tally.extra = Count(b, tally) + b.dropped + tally.reported + tally.late + 0
    BY <1>2, <1>4, <2>2
  <2>. QED
    BY <1>2, <1>4, <2>3, <2>4, <2>5 DEF Placed
<1>11. \A t \in Threads : ~Inside(t, StopLabels)
  BY <1>6 DEF Inside, StopLabels
<1>12. Fresh /\ OneStop /\ Handle /\ Returned
  BY <1>2, <1>3, <1>11 DEF Fresh, OneStop, Handle, Returned, Inside, StopLabels
<1>13. Joined /\ Retired
  BY <1>6 DEF Joined, Retired, Inside
<1>14. AppCalls
  BY <1>6 DEF AppCalls, Threads
<1>. QED
  BY <1>7, <1>8, <1>9, <1>10, <1>12, <1>13, <1>14 DEF Inv, RowsInv, QuietInv

\* The invariant is about the variables alone.
LEMMA StutterInv == ASSUME Inv, UNCHANGED vars PROVE Inv'
<1>1. sub' \in Books /\ Onward
  BY DEF vars, Onward, Inv, TypeOK
<1>. QED
  BY <1>1, BooksKeep DEF vars

\* Every step preserves the invariant: one lemma above per action.
LEMMA NextInv == ASSUME Inv, [Next]_vars PROVE Inv'
<1>1. CASE Handler
  BY <1>1, AcquireKeeps, NoteKeeps, SetSchemaKeeps, AddRowKeeps, AddRowAgainKeeps DEF Handler
<1>2. ASSUME NEW t \in Threads, Cancelling(t)
      PROVE  Inv'
  BY <1>2, UnsubscribeKeeps, StopKeeps, StoppingKeeps, JoinKeeps, RetireKeeps, ForgetKeeps
     DEF Cancelling
<1>. QED
  BY <1>1, <1>2, DeliverKeeps, TimerLoopKeeps, TimerExpiresKeeps, SubscribeReturnsKeeps,
     SiblingKeeps, DestroyKeeps, CallbackReturnsKeeps, StutterInv DEF Next

\* So it holds throughout.
LEMMA InvAlways == Spec => []Inv
<1>1. Inv /\ [Next]_vars => Inv'
  BY NextInv
<1>. QED
  BY InitInv, <1>1, PTL DEF Spec

\* Every row a batched subscription was given is in exactly one batch, in the
\* order of arrival, or waits for the next one, or is counted as lost, and the
\* attachments of a batch belong to its rows (AddRow, Flush, DiscardPending,
\* Stop), for any window size and any number of rows and of Unsubscribe calls.
THEOREM EveryRowIsAccountedFor == Spec => []RowsAccountedFor
<1>1. Inv => RowsAccountedFor
  <2> SUFFICES ASSUME Inv
               PROVE  RowsAccountedFor
    OBVIOUS
  <2>1. /\ tally.arrived + tally.extra =
             (Len(tally.delivered) + Len(b.rows)) + b.dropped + tally.reported + tally.late + InHand
        /\ Rising(tally.delivered \o b.rows) /\ out.atts = out.rows
        /\ tally.closed = "ready" => b.rows = << >> /\ b.dropped = 0
    BY DEF Inv, RowsInv, Placed, Count
  <2>. QED
    BY <2>1 DEF RowsAccountedFor, Rising
<1>. QED
  BY InvAlways, <1>1, PTL

\* When the destructor, or the Unsubscribe that took the batcher, has returned,
\* no other thread is inside the batch callback, and the timer thread is gone
\* unless it was the caller (Stop, timer_.join(), the Subscriber's barrier),
\* however the calls are nested.
THEOREM UnsubscribeIsQuiet == Spec => []QuietAfterUnsubscribe
<1>1. Inv => QuietAfterUnsubscribe
  <2> SUFFICES ASSUME Inv, sub.by # "none"
               PROVE  /\ \A t \in Threads \ {sub.by} : ~Inside(t, {"callback"})
                      /\ sub.by # Timer => stk[Timer] = <<"exited">>
    BY DEF QuietAfterUnsubscribe
  <2>1. /\ \A t \in Threads : ~Inside(t, StopLabels)
        /\ sub.by # Deliverer => stk[Deliverer] = << >>
        /\ sub.by # Timer => stk[Timer] = <<"exited">>
    BY DEF Inv, QuietInv, Returned
  <2>2. ~Inside(App, {"callback"})
    <3> SUFFICES ASSUME NEW k \in DOMAIN stk[App], stk[App][k] = "callback"
                 PROVE  FALSE
      BY DEF Inside
    <3>1. PICK l \in 1..(k - 1) : stk[App][l] \in StopLabels
      BY DEF Inv, QuietInv, AppCalls
    <3>2. App \in Threads /\ DOMAIN stk[App] = 1..Len(stk[App]) /\ Len(stk[App]) \in Nat
      BY DEF Threads, Inv, TypeOK
    <3>3. l \in DOMAIN stk[App]
      BY <3>1, <3>2
    <3>. QED
      BY <2>1, <3>1, <3>2, <3>3 DEF Inside
  <2>3. sub.by # Deliverer => ~Inside(Deliverer, {"callback"})
    BY <2>1 DEF Inside
  <2>4. sub.by # Timer => ~Inside(Timer, {"callback"})
    BY <2>1 DEF Inside
  <2>. QED
    BY <2>1, <2>2, <2>3, <2>4 DEF Threads
<1>. QED
  BY InvAlways, <1>1, PTL
=============================================================================
