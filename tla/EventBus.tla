------------------------------ MODULE EventBus ------------------------------
(***************************************************************************)
(* The job dock in the browser: every open tab holds one stream            *)
(* (/jobs/stream), fed from a bounded queue of its own.  An event says     *)
(* only what kind of thing changed; what is painted is the state at the    *)
(* moment the event is taken from the queue.  A `dock` paints every card,  *)
(* a `done` one card where it stands, `progress` and `line` the inside of  *)
(* a card.  No tab polls while it has a stream, so a change whose event is *)
(* lost would stay invisible.                                              *)
(*                                                                         *)
(* A job is its card: absent, or in one of four states; an id that was     *)
(* forgotten may come back, and stands then for another job.  The lines of *)
(* a terminal, and the batches they go in, are one kind of event here.     *)
(***************************************************************************)
EXTENDS Naturals, Sequences

CONSTANTS
  Jobs, Tabs,
  Cap      \* maxsize of a tab's queue

ASSUME EventBusConstantsOK == Cap \in Nat \ {0}

VARIABLES
  card,    \* the state of each job the dock would show, "none" if it shows none
  tab,     \* "closed", "subscribed" before its first paint, "open", or "cut off"
  queue,   \* per tab, its events
  shown    \* per tab, the card it shows of each job

vars == <<card, tab, queue, shown>>

\* "ended" has its verdict, and its `done` is still to be emitted.
Cards == {"none", "pending", "running", "ended", "finished"}
Dock == [kind |-> "dock"]
Of(kind, j) == [kind |-> kind, job |-> j]
Events == {Dock} \cup {Of(kind, j) : kind \in {"progress", "done"}, j \in Jobs}

TypeOK ==
  /\ card \in [Jobs -> Cards]
  /\ tab \in [Tabs -> {"closed", "subscribed", "open", "cut off"}]
  /\ queue \in [Tabs -> Seq(Events)]
  /\ \A t \in Tabs : Len(queue[t]) <= Cap
  /\ shown \in [Tabs -> [Jobs -> Cards]]

Blank == [j \in Jobs |-> "none"]

Init ==
  /\ card = Blank
  /\ tab = [t \in Tabs |-> "closed"] /\ queue = [t \in Tabs |-> <<>>]
  /\ shown = [t \in Tabs |-> Blank]
-----------------------------------------------------------------------------
(* _emit.                                                                    *)

Subscribed == {t \in Tabs : tab[t] \in {"subscribed", "open"}}

\* A full queue drops a tick; for a dock or a done, the backlog goes instead, and one
\* dock is left. (Dropping those too, or the backlog alone, are its mutants.)
PutOrDrop(q, e) == IF Len(q) < Cap THEN Append(q, e) ELSE q
PutOrDrain(q, e) == IF Len(q) < Cap THEN Append(q, e)
                    ELSE IF e.kind = "progress" THEN q ELSE <<>>
Put(q, e) == IF Len(q) < Cap THEN Append(q, e)
             ELSE IF e.kind = "progress" THEN q ELSE <<Dock>>

Emit(es) ==
  queue' = [t \in Tabs |->
    IF t \notin Subscribed THEN queue[t]
    ELSE IF Len(es) = 1 THEN Put(queue[t], es[1]) ELSE Put(Put(queue[t], es[1]), es[2])]

Becomes(j, from, to, es) ==
  /\ card[j] \in from /\ card' = [card EXCEPT ![j] = to]
  /\ Emit(es) /\ UNCHANGED <<tab, shown>>
-----------------------------------------------------------------------------
(* JobRunner: every place that changes a card, with the events it emits.     *)

Submit(j) == Becomes(j, {"none"}, "pending", <<Dock>>)
\* start_now and _promote: deferred, queued and held look alike here.
Released(j) == Becomes(j, {"pending"}, "pending", <<Dock>>)
Starts(j) == Becomes(j, {"pending"}, "running", <<Dock>>)
Retries(j) == Becomes(j, {"running"}, "pending", <<Dock>>)
\* Between a pull's verdict and its `done` stands a reindex that is awaited.
Ends(j) == Becomes(j, {"running"}, "ended", <<Of("progress", j)>>)
Settles(j) == Becomes(j, {"running", "ended"}, "finished", <<Of("done", j), Dock>>)
AbortPending(j) == Becomes(j, {"pending"}, "finished", <<Of("done", j), Dock>>)
\* The handler of an exception in _worker.
Crashes(j) == Becomes(j, {"running", "ended"}, "finished", <<Of("done", j)>>)
\* dismiss and cancel.
Forget(j) == Becomes(j, Cards \ {"none"}, "none", <<Dock>>)

\* _stream's ticks and _flush_lines; a finished job's last lines, too.
Ticks(j) == Becomes(j, {"running"}, "running", <<Of("progress", j)>>)

Runner ==
  \E j \in Jobs : \/ Submit(j) \/ Released(j) \/ Starts(j) \/ Retries(j) \/ Ends(j)
                  \/ Settles(j) \/ AbortPending(j) \/ Crashes(j) \/ Forget(j) \/ Ticks(j)
-----------------------------------------------------------------------------
(* The stream route, and the browser behind it.                              *)

\* A page with a dock opens a stream, or EventSource reconnects.
Subscribe(t) ==
  /\ tab[t] \in {"closed", "cut off"}
  /\ tab' = [tab EXCEPT ![t] = "subscribed"]
  /\ queue' = [queue EXCEPT ![t] = <<>>]
  /\ UNCHANGED <<card, shown>>

FirstPaint(t) ==
  /\ tab[t] = "subscribed"
  /\ tab' = [tab EXCEPT ![t] = "open"]
  /\ shown' = [shown EXCEPT ![t] = card]
  /\ UNCHANGED <<card, queue>>

\* What a done paints of a job that was forgotten meanwhile: its row, or nothing.
Painted(t, e) ==
  IF e.kind = "dock" THEN {card}
  ELSE IF e.kind = "progress" \/ shown[t][e.job] = "none" THEN {shown[t]}
  ELSE IF card[e.job] # "none" THEN {[shown[t] EXCEPT ![e.job] = card[e.job]]}
  ELSE {shown[t], [shown[t] EXCEPT ![e.job] = "finished"]}

Paint(t) ==
  /\ tab[t] = "open" /\ queue[t] # <<>>
  /\ queue' = [queue EXCEPT ![t] = Tail(@)]
  /\ \E s \in Painted(t, Head(queue[t])) : shown' = [shown EXCEPT ![t] = s]
  /\ UNCHANGED <<card, tab>>

\* The connection is gone, and publisher's finally unsubscribes; the page stays.
CutOff(t) ==
  /\ tab[t] \in {"subscribed", "open"}
  /\ tab' = [tab EXCEPT ![t] = "cut off"] /\ queue' = [queue EXCEPT ![t] = <<>>]
  /\ UNCHANGED <<card, shown>>

Close(t) ==
  /\ tab[t] # "closed"
  /\ tab' = [tab EXCEPT ![t] = "closed"] /\ queue' = [queue EXCEPT ![t] = <<>>]
  /\ shown' = [shown EXCEPT ![t] = Blank]
  /\ UNCHANGED card

Browser(t) == Subscribe(t) \/ FirstPaint(t) \/ Paint(t) \/ CutOff(t) \/ Close(t)

Next == Runner \/ \E t \in Tabs : Browser(t)

Spec == Init /\ [][Next]_vars

\* A tab that has a connection takes its events, and one that lost it reconnects.
Fairness == \A t \in Tabs : WF_vars(Subscribe(t)) /\ WF_vars(FirstPaint(t)) /\ WF_vars(Paint(t))

FairSpec == Spec /\ Fairness
-----------------------------------------------------------------------------
Repaints(t, j, i) ==
  \/ queue[t][i].kind = "dock"
  \/ queue[t][i] = Of("done", j) /\ shown[t][j] # "none"

\* A card that is not what the job is will be repainted: an event that does so is
\* queued, whatever the tab's queue had to drop. (_emit: "a lost `done` left the card
\* reading "running" until the page reconnected".) A pull that is reindexing has not
\* told its verdict yet.
StaleCardsAreRepainted ==
  \A t \in Tabs, j \in Jobs :
    tab[t] = "open" /\ shown[t][j] # card[j] /\ card[j] # "ended" =>
      \E i \in DOMAIN queue[t] : Repaints(t, j, i)

\* A stalled reader does not stall the others, nor the jobs: a tab that keeps its
\* connection while jobs come to rest shows them as they are in the end.
Rests == \A j \in Jobs : card[j] \in {"none", "finished"}
TabsCatchUp ==
  \A t \in Tabs : <>[](Rests /\ tab[t] = "open") => <>[](shown[t] = card)
=============================================================================
