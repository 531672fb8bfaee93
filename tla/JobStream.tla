----------------------------- MODULE JobStream -----------------------------
(***************************************************************************)
(* The events of one job on their way to one browser: the transaction that *)
(* numbers and stores them (job-events.ts), their publication by the       *)
(* process that wrote them, the hub that subscribes to them for an API     *)
(* process (job-stream.hub.ts), a connection of the browser                *)
(* (jobs.service.ts: stream), and the page (job-detail.tsx).               *)
(*                                                                         *)
(* A writer publishes after its transaction, with no lock in between, so   *)
(* two writers may publish in the other order.  A published message        *)
(* reaches the connections that listen at that moment, or nobody: Redis    *)
(* keeps nothing.                                                          *)
(***************************************************************************)
EXTENDS Naturals, FiniteSets

CONSTANTS
  Writer,     \* processes that write events of the job: its worker, the API
  Idle,       \* a writer with nothing to publish
  MaxEvents,  \* bound: events of the job
  MaxDrops,   \* bound: connections that break
  Limit,      \* REPLAY_LIMIT
  Faults      \* what may go wrong, a subset of FaultKinds

\* drop: the browser's connection breaks.  deaf: the hub loses its subscription for a while.
\* mute: a process dies, or fails to publish, after its transaction.  cold: nobody has watched
\* a job through this API process before, so the hub has yet to subscribe.
FaultKinds == {"drop", "deaf", "mute", "cold"}

ASSUME StreamAssumption ==
  /\ MaxEvents \in Nat /\ MaxDrops \in Nat /\ Limit \in Nat \ {0}
  /\ Idle \notin Nat
  /\ Faults \subseteq FaultKinds

VARIABLES
  seq,         \* jobs.event_seq; the rows of job_events are 1 .. seq
  ended,       \* the number of the event that made the job terminal, 0 before
  writing,     \* the event each writer has stored and not published, or Idle
  hub,         \* the hub's subscription: "none", "asked", "on"
  conn,        \* the connection: "closed", "listening", "ready", "open", "done"
  job,         \* the row it read: its event_seq, and whether it was terminal
  buffer,      \* what was published to it before its history was sent
  history,     \* the rows it read
  last,        \* the number of the last event it sent
  seen,        \* the page's events
  lastId,      \* the browser's Last-Event-ID
  drops,       \* connections that broke, as a count
  \* history
  overtaken,   \* events published after a later one
  unheard,     \* events nobody published, or published while the hub did not hear
  published    \* the largest number published

stream  == <<conn, job, buffer, history, last>>
browser == <<seen, lastId>>
ghosts  == <<overtaken, unheard, published>>
vars    == <<seq, ended, writing, hub, stream, browser, drops, ghosts>>

Event == 1 .. MaxEvents
JobRow == [seq : 0 .. MaxEvents, terminal : BOOLEAN]
NoJob == [seq |-> 0, terminal |-> FALSE]

\* An event carries the status the job had when it was written.
Terminal(s) == ended # 0 /\ s >= ended

Larger(a, b) == IF a > b THEN a ELSE b

-----------------------------------------------------------------------------
(* Writing and publishing *)

\* appendJobEvent: the number is taken and the row inserted in one transaction.
Append(w, ends) ==
  /\ writing[w] = Idle
  /\ seq < MaxEvents
  /\ seq' = seq + 1
  /\ ended' = IF ended = 0 /\ ends THEN seq + 1 ELSE ended
  /\ writing' = [writing EXCEPT ![w] = seq + 1]
  /\ UNCHANGED <<hub, stream, browser, drops, ghosts>>

\* Whoever hears a message: the connection keeps it for later or sends it on.
Listening == conn \in {"listening", "ready", "open"}

\* The stream has sent the events S, upwards, and drops what it is not ahead of; the one
\* that ends the job ends the stream.
SentUnsorted(S, from) == S  \* faulty: no comparison with what was sent before
Sent(S, from) == {s \in S : s > from /\ \A t \in S : t > from /\ t < s => ~ Terminal(t)}

\* `past` is the number from which on nothing more will come, as far as the row said.
Send(S, from, past) ==
  LET out == Sent(S, from)
      top == IF out = {} THEN from ELSE CHOOSE s \in out : \A t \in out : t <= s
      end == (\E s \in out : Terminal(s)) \/ top >= past
  IN /\ seen' = seen \union out
     /\ lastId' = Larger(lastId, top)
     /\ last' = top
     /\ conn' = IF end THEN "done" ELSE "open"

Unknown == MaxEvents + 1

\* redis.publish, and the hub's listeners, which run at once.
Publish(w) ==
  LET s == writing[w]
  IN /\ s # Idle
     /\ writing' = [writing EXCEPT ![w] = Idle]
     /\ overtaken' = IF s < published THEN overtaken \union {s} ELSE overtaken
     /\ published' = Larger(published, s)
     /\ unheard' = IF hub = "on" THEN unheard ELSE unheard \union {s}
     /\ \/ hub = "on" /\ conn = "open" /\ Send({s}, last, Unknown)
           /\ UNCHANGED <<job, buffer, history>>
        \/ hub = "on" /\ conn \in {"listening", "ready"} /\ buffer' = buffer \union {s}
           /\ UNCHANGED <<conn, job, history, last, browser>>
        \/ (hub # "on" \/ ~ Listening) /\ UNCHANGED <<stream, browser>>
     /\ UNCHANGED <<seq, ended, hub, drops>>

\* The process died, or Redis refused: the event stays in the database.
PublishFails(w) ==
  /\ "mute" \in Faults
  /\ writing[w] # Idle
  /\ unheard' = unheard \union {writing[w]}
  /\ writing' = [writing EXCEPT ![w] = Idle]
  /\ UNCHANGED <<seq, ended, hub, stream, browser, drops, overtaken, published>>

-----------------------------------------------------------------------------
(* The hub *)

\* psubscribe was answered, for the first time or after a reconnect.
Subscribed ==
  /\ hub = "asked"
  /\ hub' = "on"
  /\ UNCHANGED <<seq, ended, writing, stream, browser, drops, ghosts>>

Deafened ==
  /\ "deaf" \in Faults
  /\ hub = "on"
  /\ hub' = "asked"
  /\ UNCHANGED <<seq, ended, writing, stream, browser, drops, ghosts>>

-----------------------------------------------------------------------------
(* A connection *)

\* The row as the transaction before the listener saw it: any state up to now would do,
\* since what has been written since is in the history.
Connect ==
  /\ conn = "closed"
  /\ \E s \in lastId .. seq : job' = [seq |-> s, terminal |-> Terminal(s) /\ s # 0]
  /\ conn' = "listening"
  /\ hub' = IF hub = "none" THEN "asked" ELSE hub
  /\ buffer' = {} /\ history' = {} /\ last' = lastId
  /\ UNCHANGED <<seq, ended, writing, browser, drops, ghosts>>

\* The rows after the browser's last, at most Limit of them, the newest.
Rows(after, to) == {s \in 1 .. to : s > after /\ s + Limit > to}

\* The history is read while the listener buffers.
ReadHistory ==
  /\ conn = "listening"
  /\ history' = Rows(last, seq)
  /\ conn' = "ready"
  /\ UNCHANGED <<seq, ended, writing, hub, job, buffer, last, browser, drops, ghosts>>

\* The history is sent, then what was buffered meanwhile, then the sink is open; a job
\* that was finished and has nothing newer ends the stream.
HistoryOnly == history  \* faulty: what was published meanwhile is forgotten
ToReplay    == history \union {s \in buffer : \A t \in history : t < s}

Replay ==
  /\ conn = "ready"
  /\ Send(ToReplay, last, IF job.terminal THEN job.seq ELSE Unknown)
  /\ buffer' = {} /\ history' = {}
  /\ UNCHANGED <<seq, ended, writing, hub, job, drops, ghosts>>

\* The connection breaks; EventSource will connect again from its last id.
Drop ==
  /\ "drop" \in Faults
  /\ drops < MaxDrops
  /\ Listening
  /\ drops' = drops + 1
  /\ conn' = "closed"
  /\ buffer' = {} /\ history' = {}
  /\ UNCHANGED <<seq, ended, writing, hub, job, last, browser, ghosts>>

-----------------------------------------------------------------------------
(* The specification *)

Init ==
  /\ seq = 0 /\ ended = 0
  /\ writing = [w \in Writer |-> Idle]
  /\ hub \in {"on"} \union (IF "cold" \in Faults THEN {"none"} ELSE {})
  /\ conn = "closed" /\ job = NoJob
  /\ buffer = {} /\ history = {} /\ last = 0
  /\ seen = {} /\ lastId = 0
  /\ drops = 0
  /\ overtaken = {} /\ unheard = {} /\ published = 0

Service == Connect \/ ReadHistory \/ Replay

Next ==
  \/ \E w \in Writer : Append(w, TRUE) \/ Append(w, FALSE) \/ Publish(w) \/ PublishFails(w)
  \/ Subscribed \/ Deafened
  \/ Service \/ Drop

Spec == Init /\ [][Next]_vars

\* A writer goes on to publish, Redis answers, a browser that was cut off connects again,
\* and a request is served.  Nobody has to write another event.
Fairness ==
  /\ \A w \in Writer : WF_vars(Publish(w))
  /\ WF_vars(Subscribed)
  /\ WF_vars(Service)

FairSpec == Spec /\ Fairness

-----------------------------------------------------------------------------
(* Properties *)

TypeOK ==
  /\ seq \in 0 .. MaxEvents /\ ended \in 0 .. MaxEvents
  /\ writing \in [Writer -> Event \union {Idle}]
  /\ hub \in {"none", "asked", "on"}
  /\ conn \in {"closed", "listening", "ready", "open", "done"}
  /\ job \in JobRow
  /\ buffer \subseteq Event /\ history \subseteq Event
  /\ last \in 0 .. MaxEvents
  /\ seen \subseteq Event /\ lastId \in 0 .. MaxEvents
  /\ drops \in Nat
  /\ overtaken \subseteq Event /\ unheard \subseteq Event /\ published \in 0 .. MaxEvents

\* The browser is shown events of the log once and upwards over all its connections, and
\* the end only behind the event that ended the job.
Log == INSTANCE EventLog WITH count <- seq, final <- ended, shown <- seen,
                              closed <- conn = "done"
ImplementsLog == Log!Spec

\* "The listener is attached before the history is read": an event that the browser has
\* been shown a later one of, and not the event itself, was or will be published after a later
\* one, or was published to a hub that did not hear, or lay beyond the replay limit.  None
\* is missing because it fell between the history and the listener.
Unpublished == {writing[w] : w \in Writer}
OnlyLateAreMissing ==
  \A s \in Event : s < lastId /\ s \notin seen =>
    s \in overtaken \union unheard \union Unpublished \/ seq - s >= Limit

\* The page learns that the job has ended, however often its connection breaks, unless the
\* events from the end on were not heard by the hub.
EndIsSeen ==
  ended # 0 ~> conn = "done" \/ \E s \in unheard : s >= ended
=============================================================================
