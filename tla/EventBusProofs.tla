--------------------------- MODULE EventBusProofs ---------------------------
(***************************************************************************)
(* A card that is out of date is repainted, for any number of jobs and     *)
(* tabs and any size of the queue.  The property alone is not inductive: a *)
(* `done` of a job that was forgotten may paint a finished card, and it is *)
(* the `dock` behind it that takes the card away; and a pull that is       *)
(* reindexing may end with a `done` alone, which does not draw a card that *)
(* is not there.  So a tab that shows a card too many, or one too few,     *)
(* needs a dock, not just any event (CardsAreThere).                       *)
(***************************************************************************)
EXTENDS EventBus, SequenceTheorems, TLAPS

In(e, q) == \E i \in DOMAIN q : q[i] = e

Awaits(t, j) ==
  shown[t][j] # card[j] /\ card[j] # "ended" =>
    In(Dock, queue[t]) \/ (In(Of("done", j), queue[t]) /\ shown[t][j] # "none")
CardsAreThere(t, j) ==
  (card[j] = "none" <=> shown[t][j] = "none") \/ In(Dock, queue[t])

BusInv ==
  /\ TypeOK
  /\ \A t \in Tabs, j \in Jobs : tab[t] = "open" => Awaits(t, j) /\ CardsAreThere(t, j)

-----------------------------------------------------------------------------
(* The queue.                                                                *)

LEMMA EventKinds ==
  /\ Dock \in Events /\ Dock.kind = "dock"
  /\ \A j \in Jobs : /\ Of("progress", j) \in Events /\ Of("progress", j).kind = "progress"
                    /\ Of("done", j) \in Events /\ Of("done", j).kind = "done"
  /\ \A e \in Events : e = Dock \/ \E j \in Jobs : e = Of("progress", j) \/ e = Of("done", j)
  <1>1. Dock \in Events /\ Dock.kind = "dock"
    BY DEF Events, Dock
  <1>2. ASSUME NEW j \in Jobs
        PROVE  /\ Of("progress", j) \in Events /\ Of("done", j) \in Events
               /\ Of("progress", j).kind = "progress" /\ Of("done", j).kind = "done"
    <2>1. Of("progress", j) \in Events /\ Of("done", j) \in Events
      BY DEF Events
    <2>2. Of("progress", j).kind = "progress" /\ Of("done", j).kind = "done"
      BY DEF Of
    <2> QED BY <2>1, <2>2
  <1>3. ASSUME NEW e \in Events
        PROVE  e = Dock \/ \E j \in Jobs : e = Of("progress", j) \/ e = Of("done", j)
    BY DEF Events
  <1> QED BY <1>1, <1>2, <1>3

LEMMA PutBounded ==
  ASSUME NEW q \in Seq(Events), Len(q) <= Cap, NEW e \in Events
  PROVE  Put(q, e) \in Seq(Events) /\ Len(Put(q, e)) <= Cap
  <1>1. Dock \in Events
    BY EventKinds
  <1>2. CASE Len(q) < Cap
    BY <1>2, EventBusConstantsOK DEF Put
  <1>3. CASE ~(Len(q) < Cap)
    BY <1>1, <1>3, EventBusConstantsOK DEF Put
  <1> QED BY <1>2, <1>3

\* Nothing is dropped for good: what was queued still is, or a dock stands for it.
LEMMA PutKeeps ==
  ASSUME NEW q \in Seq(Events), NEW e \in Events, NEW x, In(x, q)
  PROVE  In(x, Put(q, e)) \/ In(Dock, Put(q, e))
  <1>1. PICK i \in DOMAIN q : q[i] = x
    BY DEF In
  <1>2. CASE Len(q) < Cap
    <2>1. Put(q, e) = Append(q, e)
      BY <1>2 DEF Put
    <2>2. i \in DOMAIN Append(q, e) /\ Append(q, e)[i] = x
      BY <1>1
    <2> QED BY <2>1, <2>2 DEF In
  <1>3. CASE ~(Len(q) < Cap) /\ e.kind = "progress"
    BY <1>3 DEF Put
  <1>4. CASE ~(Len(q) < Cap) /\ e.kind # "progress"
    <2>1. Put(q, e) = <<Dock>>
      BY <1>4 DEF Put
    <2>2. 1 \in DOMAIN <<Dock>> /\ <<Dock>>[1] = Dock
      OBVIOUS
    <2> QED BY <2>1, <2>2 DEF In
  <1> QED BY <1>2, <1>3, <1>4

LEMMA PutHas ==
  ASSUME NEW q \in Seq(Events), NEW e \in Events, e.kind # "progress"
  PROVE  In(e, Put(q, e)) \/ In(Dock, Put(q, e))
  <1>1. CASE Len(q) < Cap
    <2>1. Put(q, e) = Append(q, e)
      BY <1>1 DEF Put
    <2>2. Len(q) + 1 \in DOMAIN Append(q, e) /\ Append(q, e)[Len(q) + 1] = e
      OBVIOUS
    <2> QED BY <2>1, <2>2 DEF In
  <1>2. CASE ~(Len(q) < Cap)
    <2>1. Put(q, e) = <<Dock>>
      BY <1>2 DEF Put
    <2>2. 1 \in DOMAIN <<Dock>> /\ <<Dock>>[1] = Dock
      OBVIOUS
    <2> QED BY <2>1, <2>2 DEF In
  <1> QED BY <1>1, <1>2

\* Taking an event leaves the others.
LEMMA TailKeeps ==
  ASSUME NEW q \in Seq(Events), q # <<>>, NEW x, In(x, q), x # Head(q)
  PROVE  In(x, Tail(q))
  <1>1. PICK i \in DOMAIN q : q[i] = x
    BY DEF In
  <1>2. i # 1
    BY <1>1
  <1>3. i - 1 \in DOMAIN Tail(q) /\ Tail(q)[i - 1] = x
    BY <1>1, <1>2
  <1> QED BY <1>3 DEF In
-----------------------------------------------------------------------------
(* The jobs: what a change of a card emits, and what that leaves in a queue. *)

\* The events one call to Becomes may emit.
Batches == {<<Dock>>} \cup {<<Of("done", j)>> : j \in Jobs} \cup {<<Of("progress", j)>> : j \in Jobs}
           \cup {<<Of("done", j), Dock>> : j \in Jobs}

LEMMA EmitSpares ==
  ASSUME TypeOK, NEW es \in Batches, Emit(es), NEW t \in Tabs
  PROVE  /\ queue'[t] \in Seq(Events) /\ Len(queue'[t]) <= Cap
         /\ \A x : In(x, queue[t]) => In(x, queue'[t]) \/ In(Dock, queue'[t])
         /\ t \in Subscribed => \A i \in DOMAIN es :
              es[i].kind # "progress" => In(es[i], queue'[t]) \/ In(Dock, queue'[t])
  <1>1. queue[t] \in Seq(Events) /\ Len(queue[t]) <= Cap
    BY DEF TypeOK
  <1>2. CASE t \notin Subscribed
    BY <1>1, <1>2 DEF Emit
  <1>3. CASE t \in Subscribed /\ Len(es) = 1
    <2>1. es[1] \in Events /\ DOMAIN es = {1}
      BY <1>3, EventKinds DEF Batches
    <2>2. queue'[t] = Put(queue[t], es[1])
      BY <1>3 DEF Emit
    <2> QED BY <1>1, <2>1, <2>2, PutBounded, PutKeeps, PutHas
  <1>4. CASE t \in Subscribed /\ Len(es) # 1
    <2>1. PICK j \in Jobs : es = <<Of("done", j), Dock>>
      BY <1>4 DEF Batches
    <2> DEFINE q == Put(queue[t], es[1])
    <2>2. /\ DOMAIN es = {1, 2} /\ es[1] = Of("done", j) /\ es[2] = Dock
          /\ es[1] \in Events /\ es[2] \in Events /\ es[1].kind # "progress"
      BY <2>1, EventKinds
    <2>3. queue'[t] = Put(q, es[2])
      BY <1>4 DEF Emit
    <2>4. /\ q \in Seq(Events) /\ Len(q) <= Cap
          /\ In(es[1], q) \/ In(Dock, q)
          /\ \A x : In(x, queue[t]) => In(x, q) \/ In(Dock, q)
      BY <1>1, <2>2, PutBounded, PutKeeps, PutHas
    <2>5. \A x : In(x, q) => In(x, queue'[t]) \/ In(Dock, queue'[t])
      <3> HIDE DEF q
      <3> QED BY <2>2, <2>3, <2>4, PutKeeps
    <2>6. In(Dock, queue'[t])
      <3> HIDE DEF q
      <3> QED BY <2>2, <2>3, <2>4, PutHas, EventKinds
    <2>7. queue'[t] \in Seq(Events) /\ Len(queue'[t]) <= Cap
      <3> HIDE DEF q
      <3> QED BY <2>2, <2>3, <2>4, PutBounded
    <2> QED BY <2>6, <2>7, <2>2
  <1> QED BY <1>2, <1>3, <1>4

\* A change of a card that emits a dock, or changes nothing, or emits a done of a card
\* that stays, or will emit one.
LEMMA BecomesKeepsInv ==
  ASSUME BusInv, NEW j \in Jobs, NEW from, NEW to \in Cards, NEW es \in Batches,
         Becomes(j, from, to, es),
         \/ \E i \in DOMAIN es : es[i] = Dock
         \/ to = card[j]
         \/ es = <<Of("done", j)>> /\ to # "none" /\ card[j] # "none"
         \/ to = "ended" /\ card[j] # "none"
  PROVE  BusInv'
  <1> USE DEF BusInv
  <1>1. TypeOK'
    <2>1. card' \in [Jobs -> Cards] /\ tab' = tab /\ shown' = shown
      BY DEF TypeOK, Becomes
    <2>2. \A t \in Tabs : queue'[t] \in Seq(Events) /\ Len(queue'[t]) <= Cap
      BY EmitSpares DEF Becomes
    <2>3. queue' \in [Tabs -> Seq(Events)]
      BY <2>2 DEF Becomes, Emit
    <2> QED BY <2>1, <2>2, <2>3 DEF TypeOK
  <1>2. ASSUME NEW t \in Tabs, NEW k \in Jobs, tab'[t] = "open"
        PROVE  Awaits(t, k)' /\ CardsAreThere(t, k)'
    <2>1. /\ tab[t] = "open" /\ shown'[t][k] = shown[t][k] /\ t \in Subscribed
          /\ card' = [card EXCEPT ![j] = to] /\ card \in [Jobs -> Cards]
      BY <1>2 DEF Becomes, TypeOK, Subscribed
    <2>2. /\ \A x : In(x, queue[t]) => In(x, queue'[t]) \/ In(Dock, queue'[t])
          /\ \A i \in DOMAIN es :
               es[i].kind # "progress" => In(es[i], queue'[t]) \/ In(Dock, queue'[t])
      BY <2>1, EmitSpares DEF Becomes
    <2>3. Awaits(t, k) /\ CardsAreThere(t, k)
      BY <2>1
    <2>4. CASE \E i \in DOMAIN es : es[i] = Dock
      <3>1. In(Dock, queue'[t])
        BY <2>2, <2>4, EventKinds
      <3> QED BY <3>1 DEF Awaits, CardsAreThere
    <2>5. CASE card'[k] = card[k]
      BY <2>1, <2>2, <2>3, <2>5 DEF Awaits, CardsAreThere
    <2>6. CASE k = j /\ es = <<Of("done", j)>> /\ to # "none" /\ card[j] # "none"
      <3>1. In(Of("done", j), queue'[t]) \/ In(Dock, queue'[t])
        <4>1. 1 \in DOMAIN es /\ es[1] = Of("done", j) /\ es[1].kind = "done"
          BY <2>6, EventKinds
        <4> QED BY <2>2, <4>1
      <3>2. card'[k] = to
        BY <2>1, <2>6
      <3>3. CASE shown[t][k] = "none"
        <4>1. In(Dock, queue[t])
          BY <2>3, <2>6, <3>3 DEF CardsAreThere
        <4> QED BY <2>1, <2>2, <2>6, <3>2, <3>3, <4>1 DEF Awaits, CardsAreThere
      <3>4. CASE shown[t][k] # "none"
        BY <2>1, <2>6, <3>1, <3>2, <3>4 DEF Awaits, CardsAreThere
      <3> QED BY <3>3, <3>4
    <2>7. CASE k = j /\ to = "ended" /\ card[j] # "none"
      BY <2>1, <2>2, <2>3, <2>7 DEF Awaits, CardsAreThere
    <2> QED BY <2>1, <2>4, <2>5, <2>6, <2>7
  <1> QED BY <1>1, <1>2

LEMMA RunnerKeepsInv == BusInv /\ Runner => BusInv'
  <1> SUFFICES ASSUME BusInv, NEW j \in Jobs,
                      \/ Submit(j) \/ Released(j) \/ Starts(j) \/ Retries(j) \/ Ends(j)
                      \/ Settles(j) \/ AbortPending(j) \/ Crashes(j) \/ Forget(j) \/ Ticks(j)
               PROVE  BusInv'
    BY DEF Runner
  <1> DEFINE docked == <<Dock>>
             ended == <<Of("done", j), Dock>>
             done == <<Of("done", j)>>
             tick == <<Of("progress", j)>>
  <1>1. docked \in Batches /\ ended \in Batches /\ done \in Batches /\ tick \in Batches
    BY DEF Batches
  <1>2. (\E i \in DOMAIN docked : docked[i] = Dock) /\ (\E i \in DOMAIN ended : ended[i] = Dock)
    <2>1. 1 \in DOMAIN docked /\ docked[1] = Dock /\ 2 \in DOMAIN ended /\ ended[2] = Dock
      OBVIOUS
    <2> QED BY <2>1
  <1>3. {"none", "pending", "running", "ended", "finished"} = Cards
    BY DEF Cards
  <1>4. CASE Submit(j)
    BY <1>1, <1>2, <1>3, <1>4, BecomesKeepsInv DEF Submit
  <1>5. CASE Released(j)
    BY <1>1, <1>2, <1>3, <1>5, BecomesKeepsInv DEF Released
  <1>6. CASE Starts(j)
    BY <1>1, <1>2, <1>3, <1>6, BecomesKeepsInv DEF Starts
  <1>7. CASE Retries(j)
    BY <1>1, <1>2, <1>3, <1>7, BecomesKeepsInv DEF Retries
  <1>8. CASE Settles(j)
    BY <1>1, <1>2, <1>3, <1>8, BecomesKeepsInv DEF Settles
  <1>9. CASE AbortPending(j)
    BY <1>1, <1>2, <1>3, <1>9, BecomesKeepsInv DEF AbortPending
  \* Two changes emit no dock: the card was there and stays.
  <1>10. CASE Crashes(j)
    <2>1. Becomes(j, {"running", "ended"}, "finished", done)
      BY <1>10 DEF Crashes
    <2>2. card[j] # "none"
      BY <2>1 DEF Becomes
    <2> QED BY <1>1, <1>3, <2>1, <2>2, BecomesKeepsInv
  <1>11. CASE Forget(j)
    BY <1>1, <1>2, <1>3, <1>11, BecomesKeepsInv DEF Forget
  <1>12. CASE Ticks(j)
    <2>1. Becomes(j, {"running"}, "running", tick)
      BY <1>12 DEF Ticks
    <2>2. card[j] = "running"
      BY <2>1 DEF Becomes
    <2> QED BY <1>1, <1>3, <2>1, <2>2, BecomesKeepsInv
  <1>13. CASE Ends(j)
    <2>1. Becomes(j, {"running"}, "ended", tick)
      BY <1>13 DEF Ends
    <2>2. card[j] # "none"
      BY <2>1 DEF Becomes
    <2> QED BY <1>1, <1>3, <2>1, <2>2, BecomesKeepsInv
  <1> QED BY <1>4, <1>5, <1>6, <1>7, <1>8, <1>9, <1>10, <1>11, <1>12, <1>13

-----------------------------------------------------------------------------
(* The stream and the browser.                                               *)

LEMMA InitInv == Init => BusInv
  <1> SUFFICES ASSUME Init PROVE BusInv
    OBVIOUS
  <1>1. <<>> \in Seq(Events) /\ Len(<<>>) = 0
    OBVIOUS
  <1>2. TypeOK
    BY <1>1, EventBusConstantsOK DEF Init, TypeOK, Blank, Cards
  <1> QED BY <1>2 DEF BusInv, Init

\* Between two paints a browser only ever empties a queue it no longer shows from.
LEMMA ConnectionKeepsInv ==
  ASSUME BusInv, NEW t \in Tabs, Subscribe(t) \/ FirstPaint(t) \/ CutOff(t) \/ Close(t)
  PROVE  BusInv'
  <1> USE DEF BusInv
  <1>1. <<>> \in Seq(Events) /\ Len(<<>>) = 0 /\ Blank \in [Jobs -> Cards]
    BY DEF Blank, Cards
  <1>2. TypeOK'
    <2>1. ASSUME queue' = queue \/ queue' = [queue EXCEPT ![t] = <<>>]
          PROVE  /\ queue' \in [Tabs -> Seq(Events)]
                 /\ \A u \in Tabs : Len(queue'[u]) <= Cap
      <3>1. /\ queue \in [Tabs -> Seq(Events)] /\ \A u \in Tabs : Len(queue[u]) <= Cap
        BY DEF TypeOK
      <3>2. CASE queue' = queue
        BY <3>1, <3>2
      <3>3. CASE queue' = [queue EXCEPT ![t] = <<>>]
        <4>1. \A u \in Tabs : queue'[u] = IF u = t THEN <<>> ELSE queue[u]
          BY <3>1, <3>3
        <4>2. \A u \in Tabs : Len(queue'[u]) <= Cap
          BY <1>1, <3>1, <4>1, EventBusConstantsOK
        <4>3. queue' \in [Tabs -> Seq(Events)]
          BY <1>1, <3>1, <3>3
        <4> QED BY <4>2, <4>3
      <3> QED BY <2>1, <3>2, <3>3
    <2>2. CASE Subscribe(t)
      BY <2>1, <2>2 DEF TypeOK, Subscribe
    <2>3. CASE FirstPaint(t)
      BY <2>1, <2>3 DEF TypeOK, FirstPaint
    <2>4. CASE CutOff(t)
      BY <2>1, <2>4 DEF TypeOK, CutOff
    <2>5. CASE Close(t)
      BY <1>1, <2>1, <2>5 DEF TypeOK, Close
    <2> QED BY <2>2, <2>3, <2>4, <2>5
  <1>3. card' = card
    BY DEF Subscribe, FirstPaint, CutOff, Close
  <1>4. ASSUME NEW u \in Tabs, NEW k \in Jobs, tab'[u] = "open"
        PROVE  Awaits(u, k)' /\ CardsAreThere(u, k)'
    <2>1. CASE u = t
      <3>1. FirstPaint(t)
        BY <1>4, <2>1 DEF TypeOK, Subscribe, CutOff, Close
      <3>2. shown'[u] = card'
        BY <2>1, <3>1 DEF FirstPaint, TypeOK
      <3> QED BY <3>2 DEF Awaits, CardsAreThere
    <2>2. CASE u # t
      <3>1. tab'[u] = tab[u] /\ queue'[u] = queue[u] /\ shown'[u] = shown[u]
        BY <2>2 DEF TypeOK, Subscribe, FirstPaint, CutOff, Close
      <3> QED BY <1>3, <1>4, <3>1 DEF Awaits, CardsAreThere
    <2> QED BY <2>1, <2>2
  <1> QED BY <1>2, <1>4

\* An event that is painted is either not one a stale card waits for, or makes the
\* card right; or it brings back a card that is gone, and a dock is behind it.
LEMMA PaintKeepsInv ==
  ASSUME BusInv, NEW t \in Tabs, Paint(t)
  PROVE  BusInv'
  <1> USE DEF BusInv
  <1> DEFINE e == Head(queue[t])
  <1>1. /\ tab[t] = "open" /\ tab' = tab /\ card' = card
        /\ queue[t] \in Seq(Events) /\ queue[t] # <<>> /\ Len(queue[t]) <= Cap
        /\ queue' = [queue EXCEPT ![t] = Tail(queue[t])] /\ queue \in [Tabs -> Seq(Events)]
        /\ shown[t] \in [Jobs -> Cards] /\ card \in [Jobs -> Cards]
    BY DEF Paint, TypeOK
  <1>2. PICK s \in Painted(t, e) : shown' = [shown EXCEPT ![t] = s]
    BY DEF Paint
  <1>3. e \in Events /\ queue'[t] = Tail(queue[t])
    BY <1>1
  <1> HIDE DEF e
  <1>4. s \in [Jobs -> Cards]
    <2>1. CASE e = Dock
      BY <1>1, <1>2, <2>1, EventKinds DEF Painted
    <2>2. ASSUME NEW j \in Jobs, e = Of("progress", j) \/ e = Of("done", j)
          PROVE  s \in [Jobs -> Cards]
      <3>1. e.job = j /\ e.kind # "dock" /\ "finished" \in Cards
        BY <2>2 DEF Of, Cards
      <3> QED BY <1>1, <1>2, <3>1 DEF Painted
    <2> QED BY <1>3, <2>1, <2>2, EventKinds
  <1>5. TypeOK'
    <2>1. Tail(queue[t]) \in Seq(Events) /\ Len(Tail(queue[t])) <= Cap
      BY <1>1, EventBusConstantsOK
    <2> QED BY <1>1, <1>2, <1>4, <2>1 DEF TypeOK
  <1>6. ASSUME NEW u \in Tabs, NEW k \in Jobs, tab'[u] = "open"
        PROVE  Awaits(u, k)' /\ CardsAreThere(u, k)'
    <2>1. CASE u # t
      <3>1. queue'[u] = queue[u] /\ shown'[u] = shown[u] /\ tab[u] = "open"
        BY <1>1, <1>2, <1>6, <2>1 DEF TypeOK
      <3> QED BY <1>1, <3>1 DEF Awaits, CardsAreThere
    <2>2. CASE u = t
      <3>1. shown'[t] = s /\ Awaits(t, k) /\ CardsAreThere(t, k)
        BY <1>1, <1>2 DEF TypeOK
      <3>2. \A x : In(x, queue[t]) /\ x # e => In(x, queue'[t])
        BY <1>1, <1>3, TailKeeps DEF e
      <3>3. CASE e = Dock
        <4>1. s = card
          BY <1>2, <3>3, EventKinds DEF Painted
        <4> QED BY <1>1, <2>2, <3>1, <4>1 DEF Awaits, CardsAreThere
      <3>4. ASSUME NEW j \in Jobs, e = Of("progress", j)
            PROVE  Awaits(t, k)' /\ CardsAreThere(t, k)'
        <4>1. e.kind = "progress" /\ e # Dock /\ e # Of("done", k)
          <5>1. Of("done", k).kind = "done" /\ e.kind = "progress" /\ Dock.kind = "dock"
            BY <3>4 DEF Of, Dock
          <5> QED BY <5>1
        <4>2. s = shown[t]
          BY <1>2, <4>1 DEF Painted
        <4> QED BY <1>1, <3>1, <3>2, <4>1, <4>2 DEF Awaits, CardsAreThere
      <3>5. ASSUME NEW j \in Jobs, e = Of("done", j)
            PROVE  Awaits(t, k)' /\ CardsAreThere(t, k)'
        <4>1. e.kind = "done" /\ e.job = j /\ e # Dock
          <5>1. Of("done", j).kind = "done" /\ Of("done", j).job = j /\ Dock.kind = "dock"
            BY DEF Of, Dock
          <5> QED BY <3>5, <5>1
        <4>2. In(Dock, queue[t]) => In(Dock, queue'[t])
          BY <3>2, <4>1
        <4>3. CASE k # j
          <5>1. s[k] = shown[t][k]
            BY <1>1, <1>2, <4>1, <4>3 DEF Painted
          <5>2. e # Of("done", k)
            <6>1. Of("done", k).job = k
              BY DEF Of
            <6> QED BY <4>1, <4>3, <6>1
          <5> QED BY <1>1, <3>1, <3>2, <4>2, <5>1, <5>2 DEF Awaits, CardsAreThere
        <4>4. CASE k = j /\ shown[t][j] = "none"
          <5>1. s = shown[t]
            BY <1>2, <4>1, <4>4 DEF Painted
          <5> QED BY <1>1, <3>1, <4>2, <4>4, <5>1 DEF Awaits, CardsAreThere
        <4>5. CASE k = j /\ shown[t][j] # "none" /\ card[j] # "none"
          <5>1. s[j] = card[j]
            BY <1>1, <1>2, <4>1, <4>5 DEF Painted
          <5> QED BY <1>1, <3>1, <4>5, <5>1 DEF Awaits, CardsAreThere
        <4>6. CASE k = j /\ shown[t][j] # "none" /\ card[j] = "none"
          <5>1. In(Dock, queue'[t])
            BY <3>1, <4>2, <4>6 DEF CardsAreThere
          <5> QED BY <5>1 DEF Awaits, CardsAreThere
        <4> QED BY <4>3, <4>4, <4>5, <4>6
      <3>6. QED BY <1>3, <2>2, <3>3, <3>4, <3>5, EventKinds
    <2> QED BY <2>1, <2>2
  <1> QED BY <1>5, <1>6

-----------------------------------------------------------------------------
LEMMA BusInvInductive == Spec => []BusInv
  <1>1. BusInv /\ [Next]_vars => BusInv'
    <2> SUFFICES ASSUME BusInv, [Next]_vars PROVE BusInv'
      OBVIOUS
    <2>1. CASE Runner
      BY <2>1, RunnerKeepsInv
    <2>2. ASSUME NEW t \in Tabs, Browser(t)
          PROVE  BusInv'
      BY <2>2, ConnectionKeepsInv, PaintKeepsInv DEF Browser
    <2>3. CASE UNCHANGED vars
      BY <2>3 DEF BusInv, TypeOK, Awaits, CardsAreThere, vars
    <2> QED BY <2>1, <2>2, <2>3 DEF Next
  <1> QED BY <1>1, InitInv, PTL DEF Spec

\* Whatever a full queue dropped, a card that shows another state than its job's has an
\* event queued that will paint it again (JobRunner._emit), for any jobs, tabs and Cap.
THEOREM StaleCardsAwaitAnEvent == Spec => []StaleCardsAreRepainted
  <1>1. BusInv => StaleCardsAreRepainted
    <2> SUFFICES ASSUME BusInv, NEW t \in Tabs, NEW j \in Jobs,
                        tab[t] = "open", shown[t][j] # card[j], card[j] # "ended"
                 PROVE  \E i \in DOMAIN queue[t] : Repaints(t, j, i)
      BY DEF StaleCardsAreRepainted
    <2>1. In(Dock, queue[t]) \/ (In(Of("done", j), queue[t]) /\ shown[t][j] # "none")
      BY DEF BusInv, Awaits
    <2> QED BY <2>1, EventKinds DEF In, Repaints
  <1> QED BY <1>1, BusInvInductive, PTL

\* The queue of a tab never holds more than maxsize, and only events of these kinds.
THEOREM TypeCorrect == Spec => []TypeOK
  <1>1. BusInv => TypeOK
    BY DEF BusInv
  <1> QED BY <1>1, BusInvInductive, PTL
=============================================================================
