---------------------------- MODULE StreamProofs ----------------------------
(***************************************************************************)
(* What a browser may rely on, for any number of writers, events and       *)
(* broken connections and any replay limit.                                *)
(***************************************************************************)
EXTENDS JobStream, WellFoundedInduction, TLAPS

-----------------------------------------------------------------------------
(* Sending *)

\* A set of events that is not empty has a first and a last.
LEMMA FirstEvent ==
  ASSUME NEW S, S \subseteq Event, S # {}
  PROVE  \E s \in S : \A t \in S : s <= t
<1>1. S \subseteq Nat
  BY StreamAssumption DEF Event
<1>2. \E s \in S : \A t \in S : ~ (<<t, s>> \in OpToRel(<, Nat))
  BY <1>1, NatLessThanWellFounded, WFMin, Zenon
<1>3. PICK s \in S : \A t \in S : ~ (<<t, s>> \in OpToRel(<, Nat))
  BY <1>2
<1>4. \A t \in S : ~ (t < s)
  BY <1>1, <1>3, Zenon DEF OpToRel
<1> QED
  BY <1>1, <1>4

LEMMA LastEvent ==
  ASSUME NEW S, S \subseteq Event, S # {}
  PROVE  \E s \in S : \A t \in S : t <= s
<1> DEFINE T == {e \in Event : MaxEvents + 1 - e \in S}
<1>1. \A e \in S : MaxEvents + 1 - e \in T
  BY StreamAssumption DEF Event
<1>2. T \subseteq Event /\ T # {}
  BY <1>1
<1>3. PICK f \in T : \A t \in T : f <= t
  BY <1>2, FirstEvent, Zenon
<1>4. MaxEvents + 1 - f \in S
  OBVIOUS
<1>5. \A t \in S : t <= MaxEvents + 1 - f
  BY <1>1, <1>2, <1>3, StreamAssumption DEF Event
<1> QED
  BY <1>4, <1>5

\* What Send does with the events S, when the browser is as far as the connection.
SendsTo(S, past) ==
  /\ seen' = seen \union Sent(S, last)
  /\ lastId' = last'
  /\ last' \in 0 .. MaxEvents /\ last' >= last
  /\ Sent(S, last) = {} => last' = last
  /\ Sent(S, last) # {} => last' \in Sent(S, last)
  /\ \A t \in Sent(S, last) : t > last /\ t <= last'
  /\ conn' \in {"open", "done"}
  /\ conn' = "open" => \A t \in Sent(S, last) : ~ Terminal(t)
  /\ conn' = "done" => (\E t \in Sent(S, last) : Terminal(t)) \/ last' >= past

LEMMA SendEffect ==
  ASSUME NEW S, S \subseteq Event, NEW past \in Nat,
         last \in 0 .. MaxEvents, lastId = last, Send(S, last, past)
  PROVE  SendsTo(S, past)
<1> DEFINE out == Sent(S, last)
           top == IF out = {} THEN last ELSE CHOOSE s \in out : \A t \in out : t <= s
<1>1. out \subseteq Event /\ \A t \in out : t > last
  BY DEF Sent
<1>2. /\ seen' = seen \union out
      /\ lastId' = Larger(lastId, top)
      /\ last' = top
      /\ conn' = IF (\E s \in out : Terminal(s)) \/ top >= past THEN "done" ELSE "open"
  BY Zenon DEF Send
<1>3. CASE out = {}
  <2>1. top = last
    BY <1>3
  <2> QED
    BY <1>2, <1>3, <2>1, StreamAssumption DEF SendsTo, Larger
<1>4. CASE out # {}
  <2>1. top = CHOOSE s \in out : \A t \in out : t <= s
    BY <1>4
  <2>2. \E s \in out : \A t \in out : t <= s
    BY <1>1, <1>4, LastEvent, Zenon
  <2>3. top \in out /\ \A t \in out : t <= top
    BY <2>1, <2>2, Zenon
  <2> HIDE DEF out, top
  <2>4. /\ top \in 0 .. MaxEvents /\ top > last
        /\ \A t \in out : t > last /\ t <= top
    BY <1>1, <2>3, StreamAssumption DEF Event
  <2>5. lastId' = last' /\ last' = top /\ last' >= last
    BY <1>2, <2>4, StreamAssumption DEF Larger
  <2>6. out = Sent(S, last)
    BY DEF out
  <2> QED
    BY <1>2, <1>4, <2>3, <2>4, <2>5, <2>6 DEF SendsTo
<1> QED
  BY <1>3, <1>4

\* A stream that goes on has sent all that it was ahead of.
LEMMA SentAll ==
  ASSUME NEW S, S \subseteq Event, NEW from \in Nat,
         \A t \in Sent(S, from) : ~ Terminal(t)
  PROVE  \A s \in S : s > from => s \in Sent(S, from)
<1> DEFINE T == {t \in S : t > from /\ Terminal(t)}
<1>1. T = {}
  <2> SUFFICES ASSUME T # {} PROVE FALSE
    OBVIOUS
  <2>1. T \subseteq Event
    OBVIOUS
  <2>2. PICK f \in T : \A t \in T : f <= t
    BY <2>1, FirstEvent, Zenon
  <2>3. \A t \in S : t > from /\ t < f => ~ Terminal(t)
    BY <2>1, <2>2, StreamAssumption DEF Event
  <2>4. f \in Sent(S, from)
    BY <2>3 DEF Sent
  <2> QED
    BY <2>4
<1> QED
  BY <1>1 DEF Sent

-----------------------------------------------------------------------------
(* The log *)

\* Numbers are given out in order: nothing is published, kept, read or shown that has not
\* been written.
Numbered ==
  /\ published <= seq /\ lastId <= seq /\ ended <= seq
  /\ \A w \in Writer : writing[w] # Idle => writing[w] <= seq
  /\ \A s \in buffer \union history \union unheard : s <= seq

\* The browser and its connection agree on how far they are, and the browser has no event
\* it has not been told of.
Placed ==
  /\ Listening => last = lastId
  /\ lastId # 0 => lastId \in seen
  /\ \A s \in seen : s <= lastId

\* A row that was read as ended counts the event that ended the job.
RowRead == job.terminal => ended # 0 /\ ended <= job.seq

LogInv == TypeOK /\ Numbered /\ Placed /\ RowRead

LEMMA InitLog == Init => LogInv
<1> SUFFICES ASSUME Init PROVE LogInv
  OBVIOUS
<1>1. TypeOK
  BY StreamAssumption DEF Init, TypeOK, JobRow, NoJob, Event
<1>2. Numbered /\ Placed /\ RowRead
  BY DEF Init, Numbered, Placed, RowRead, NoJob, Listening
<1> QED
  BY <1>1, <1>2 DEF LogInv

LEMMA AppendKeepsLog ==
  ASSUME LogInv, NEW w \in Writer, NEW ends \in BOOLEAN, Append(w, ends)
  PROVE  LogInv'
<1> USE DEF LogInv
<1>1. seq \in Nat /\ seq' = seq + 1 /\ seq' \in Event
  BY StreamAssumption DEF Append, TypeOK, Event
<1>2. TypeOK'
  BY <1>1, StreamAssumption
     DEF Append, TypeOK, stream, browser, ghosts, Event
<1>3. Numbered'
  BY <1>1, <1>2, StreamAssumption
     DEF Append, TypeOK, Numbered, stream, browser, ghosts, Event, JobRow
<1>4. Placed'
  BY DEF Append, Placed, Listening, stream, browser
<1>5. RowRead'
  BY DEF Append, RowRead, stream
<1> QED
  BY <1>2, <1>3, <1>4, <1>5

\* What Publish does to the numbers, whether or not the message is heard.
LEMMA PublishNumbers ==
  ASSUME LogInv, NEW w \in Writer, Publish(w)
  PROVE  /\ writing[w] \in Event /\ writing[w] <= seq
         /\ writing' = [writing EXCEPT ![w] = Idle]
         /\ published' \in 0 .. MaxEvents /\ published' <= seq
         /\ published' >= published /\ published' >= writing[w]
         /\ writing[w] < published => writing[w] \in overtaken'
         /\ overtaken' \subseteq Event /\ overtaken \subseteq overtaken'
         /\ unheard' \subseteq Event /\ unheard \subseteq unheard'
         /\ \A s \in unheard' : s <= seq
         /\ hub # "on" => writing[w] \in unheard'
         /\ UNCHANGED <<seq, ended, hub, drops, job>>
<1> USE DEF LogInv
<1>1. writing[w] \in Event /\ writing[w] <= seq
  BY DEF Publish, TypeOK, Numbered
<1>2. writing[w] \in Nat /\ writing[w] <= MaxEvents /\ published \in Nat /\ seq \in Nat
  BY <1>1, StreamAssumption DEF Event, TypeOK
<1>3. published' = Larger(published, writing[w])
  BY DEF Publish
<1>4. /\ published' \in 0 .. MaxEvents /\ published' <= seq
      /\ published' >= published /\ published' >= writing[w]
  BY <1>1, <1>2, <1>3, StreamAssumption DEF Larger, Numbered, TypeOK
<1>5. /\ writing[w] < published => writing[w] \in overtaken'
      /\ overtaken' \subseteq Event /\ overtaken \subseteq overtaken'
  BY <1>1 DEF Publish, TypeOK
<1>6. /\ unheard' \subseteq Event /\ unheard \subseteq unheard'
      /\ \A s \in unheard' : s <= seq
      /\ hub # "on" => writing[w] \in unheard'
  BY <1>1 DEF Publish, TypeOK, Numbered
<1>7. UNCHANGED <<seq, ended, hub, drops, job>> /\ writing' = [writing EXCEPT ![w] = Idle]
  BY DEF Publish, stream
<1> QED
  BY <1>1, <1>4, <1>5, <1>6, <1>7

\* Where the message goes: on to the browser, into the buffer, or nowhere.
LEMMA PublishCases ==
  ASSUME LogInv, NEW w \in Writer, Publish(w)
  PROVE  \/ /\ hub = "on" /\ conn = "open" /\ SendsTo({writing[w]}, Unknown)
            /\ UNCHANGED <<buffer, history>>
         \/ /\ hub = "on" /\ conn \in {"listening", "ready"}
            /\ buffer' = buffer \union {writing[w]}
            /\ UNCHANGED <<conn, history, last, browser>>
         \/ /\ hub # "on" \/ ~ Listening
            /\ UNCHANGED <<conn, buffer, history, last, browser>>
<1> USE DEF LogInv
<1>1. CASE hub = "on" /\ conn = "open" /\ Send({writing[w]}, last, Unknown)
                      /\ UNCHANGED <<job, buffer, history>>
  <2>1. {writing[w]} \subseteq Event
    BY PublishNumbers
  <2>2. last \in 0 .. MaxEvents /\ lastId = last /\ Unknown \in Nat
    BY <1>1, StreamAssumption DEF TypeOK, Placed, Listening, Unknown
  <2>3. SendsTo({writing[w]}, Unknown)
    BY <1>1, <2>1, <2>2, SendEffect
  <2> QED
    BY <1>1, <2>3
<1> QED
  BY <1>1 DEF Publish, stream

LEMMA PublishKeepsLog ==
  ASSUME LogInv, NEW w \in Writer, Publish(w)
  PROVE  LogInv'
<1> USE DEF LogInv
<1>1. /\ writing[w] \in Event /\ writing[w] <= seq
      /\ writing' = [writing EXCEPT ![w] = Idle]
      /\ published' \in 0 .. MaxEvents /\ published' <= seq
      /\ overtaken' \subseteq Event
      /\ unheard' \subseteq Event /\ \A s \in unheard' : s <= seq
      /\ UNCHANGED <<seq, ended, hub, drops, job>>
  BY PublishNumbers
<1>2. RowRead'
  BY <1>1 DEF RowRead
<1>3. /\ \A v \in Writer : writing'[v] \in Event \union {Idle}
      /\ \A v \in Writer : writing'[v] # Idle => writing'[v] <= seq'
      /\ writing' \in [Writer -> Event \union {Idle}]
  BY <1>1 DEF TypeOK, Numbered
<1>4. ASSUME /\ seen' \subseteq Event /\ lastId' \in 0 .. MaxEvents /\ lastId' <= seq
             /\ last' \in 0 .. MaxEvents
             /\ buffer' \subseteq Event /\ \A s \in buffer' : s <= seq
             /\ UNCHANGED history
             /\ conn' \in {"closed", "listening", "ready", "open", "done"}
             /\ Placed'
      PROVE  LogInv'
  <2>1. TypeOK'
    BY <1>1, <1>3, <1>4 DEF TypeOK
  <2>2. Numbered'
    BY <1>1, <1>3, <1>4 DEF Numbered
  <2> QED
    BY <1>2, <1>4, <2>1, <2>2
<1>5. CASE hub = "on" /\ conn = "open" /\ SendsTo({writing[w]}, Unknown)
                      /\ UNCHANGED <<buffer, history>>
  <2>1. Sent({writing[w]}, last) \subseteq {writing[w]}
    BY DEF Sent
  <2>2. lastId = last /\ last \in Nat /\ last <= seq
    BY <1>5 DEF Placed, Listening, TypeOK, Numbered
  <2>3. last' = last \/ last' = writing[w]
    BY <1>5, <2>1 DEF SendsTo
  <2>4. Placed'
    BY <1>1, <1>5, <2>1, <2>2, StreamAssumption DEF SendsTo, Placed, TypeOK, Event
  <2>5. seen' \subseteq Event /\ lastId' <= seq
    BY <1>1, <1>5, <2>1, <2>2, <2>3 DEF SendsTo, TypeOK
  <2> QED
    BY <1>4, <1>5, <2>4, <2>5 DEF SendsTo, TypeOK, Numbered
<1>6. CASE /\ hub = "on" /\ conn \in {"listening", "ready"}
           /\ buffer' = buffer \union {writing[w]}
           /\ UNCHANGED <<conn, history, last, browser>>
  <2>1. Placed'
    BY <1>6 DEF Placed, Listening, browser
  <2> QED
    BY <1>1, <1>4, <1>6, <2>1 DEF browser, TypeOK, Numbered
<1>7. CASE UNCHANGED <<conn, buffer, history, last, browser>>
  <2>1. Placed'
    BY <1>7 DEF Placed, Listening, browser
  <2> QED
    BY <1>4, <1>7, <2>1 DEF browser, TypeOK, Numbered
<1> QED
  BY <1>5, <1>6, <1>7, PublishCases

LEMMA ConnectKeepsLog == LogInv /\ Connect => LogInv'
<1> SUFFICES ASSUME LogInv, Connect PROVE LogInv'
  OBVIOUS
<1> USE DEF LogInv
<1>1. PICK s \in lastId .. seq : job' = [seq |-> s, terminal |-> Terminal(s) /\ s # 0]
  BY DEF Connect
<1>2. s \in 0 .. MaxEvents /\ job' \in JobRow /\ job'.seq = s
      /\ job'.terminal = (Terminal(s) /\ s # 0)
  BY <1>1, StreamAssumption DEF TypeOK, JobRow
<1>3. TypeOK'
  BY <1>2, StreamAssumption DEF Connect, TypeOK, browser, ghosts
<1>4. Numbered'
  BY DEF Connect, Numbered, browser, ghosts
<1>5. Placed'
  BY DEF Connect, Placed, Listening, browser
<1>6. RowRead'
  BY <1>2, StreamAssumption DEF Connect, RowRead, Terminal, TypeOK
<1> QED
  BY <1>3, <1>4, <1>5, <1>6

LEMMA ReadHistoryKeepsLog == LogInv /\ ReadHistory => LogInv'
<1> SUFFICES ASSUME LogInv, ReadHistory PROVE LogInv'
  OBVIOUS
<1> USE DEF LogInv
<1>1. history' \subseteq Event /\ \A s \in history' : s <= seq
  BY StreamAssumption DEF ReadHistory, Rows, TypeOK, Event
<1>2. TypeOK' /\ RowRead'
  BY <1>1 DEF ReadHistory, TypeOK, RowRead, browser, ghosts
<1>3. Numbered'
  BY <1>1 DEF ReadHistory, Numbered, browser, ghosts
<1>4. Placed'
  BY DEF ReadHistory, Placed, Listening, browser
<1> QED
  BY <1>2, <1>3, <1>4

Past == IF job.terminal THEN job.seq ELSE Unknown

LEMMA ReplaySends ==
  ASSUME LogInv, Replay
  PROVE  /\ ToReplay \subseteq Event /\ \A s \in ToReplay : s <= seq
         /\ Past \in Nat
         /\ lastId = last /\ SendsTo(ToReplay, Past)
<1> USE DEF LogInv
<1>1. ToReplay \subseteq Event /\ \A s \in ToReplay : s <= seq
  BY DEF ToReplay, TypeOK, Numbered
<1>2. Past \in Nat
  BY StreamAssumption DEF Past, TypeOK, JobRow, Unknown
<1>3. lastId = last /\ last \in 0 .. MaxEvents
  BY DEF Replay, Placed, Listening, TypeOK
<1>4. Send(ToReplay, last, Past)
  BY DEF Replay, Past
<1> QED
  BY <1>1, <1>2, <1>3, <1>4, SendEffect

LEMMA ReplayKeepsLog == LogInv /\ Replay => LogInv'
<1> SUFFICES ASSUME LogInv, Replay PROVE LogInv'
  OBVIOUS
<1> USE DEF LogInv
<1>1. /\ ToReplay \subseteq Event /\ \A s \in ToReplay : s <= seq
      /\ lastId = last /\ SendsTo(ToReplay, Past)
  BY ReplaySends
<1>2. Sent(ToReplay, last) \subseteq ToReplay
  BY DEF Sent
<1>3. /\ seen' = seen \union Sent(ToReplay, last)
      /\ lastId' = last' /\ last' \in 0 .. MaxEvents /\ last' >= last
      /\ last' = last \/ last' \in Sent(ToReplay, last)
      /\ conn' \in {"open", "done"}
  BY <1>1 DEF SendsTo
<1>4. TypeOK' /\ RowRead'
  BY <1>1, <1>2, <1>3 DEF Replay, TypeOK, RowRead, ghosts
<1>5. Numbered'
  BY <1>1, <1>2, <1>3 DEF Replay, Numbered, ghosts
<1>6. \A s \in seen' : s <= lastId'
  <2>1. \A s \in Sent(ToReplay, last) : s <= lastId'
    BY <1>1 DEF SendsTo
  <2>2. \A s \in seen : s <= lastId'
    BY <1>1, <1>3, StreamAssumption DEF Placed, TypeOK, Event
  <2> QED
    BY <1>3, <2>1, <2>2
<1>7. lastId' # 0 => lastId' \in seen'
  BY <1>1, <1>3 DEF Placed
<1> QED
  BY <1>3, <1>4, <1>5, <1>6, <1>7 DEF Placed

LEMMA OthersKeepLog ==
  ASSUME LogInv,
         \/ \E w \in Writer : PublishFails(w)
         \/ Subscribed \/ Deafened \/ Drop
         \/ UNCHANGED vars
  PROVE  LogInv'
<1> USE DEF LogInv, stream, browser, ghosts
<1>1. ASSUME NEW w \in Writer, PublishFails(w) PROVE LogInv'
  <2>1. writing[w] \in Event /\ writing[w] <= seq
    BY <1>1 DEF PublishFails, TypeOK, Numbered
  <2>2. TypeOK'
    BY <1>1, <2>1 DEF PublishFails, TypeOK
  <2>3. Numbered'
    BY <1>1, <2>1 DEF PublishFails, Numbered, TypeOK
  <2> QED
    BY <1>1, <2>2, <2>3 DEF PublishFails, Placed, Listening, RowRead
<1>2. CASE Subscribed \/ Deafened
  BY <1>2 DEF Subscribed, Deafened, TypeOK, Numbered, Placed, Listening, RowRead
<1>3. CASE Drop
  <2>1. TypeOK'
    BY <1>3 DEF Drop, TypeOK
  <2> QED
    BY <1>3, <2>1 DEF Drop, Numbered, Placed, Listening, RowRead
<1>4. CASE UNCHANGED vars
  BY <1>4 DEF vars, TypeOK, Numbered, Placed, Listening, RowRead
<1> QED
  BY <1>1, <1>2, <1>3, <1>4

LEMMA NextKeepsLog == LogInv /\ [Next]_vars => LogInv'
<1> SUFFICES ASSUME LogInv, [Next]_vars PROVE LogInv'
  OBVIOUS
<1>1. ASSUME NEW w \in Writer, NEW ends \in BOOLEAN, Append(w, ends) PROVE LogInv'
  BY <1>1, AppendKeepsLog
<1>2. ASSUME NEW w \in Writer, Publish(w) PROVE LogInv'
  BY <1>2, PublishKeepsLog
<1> QED
  BY <1>1, <1>2, ConnectKeepsLog, ReadHistoryKeepsLog, ReplayKeepsLog, OthersKeepLog
     DEF Next, Service

\* Every variable of the stream keeps its type, whatever is lost or cut off.
THEOREM TypeCorrect == Spec => []TypeOK
<1>1. LogInv => TypeOK
  BY DEF LogInv
<1> QED
  BY <1>1, InitLog, NextKeepsLog, PTL DEF Spec

-----------------------------------------------------------------------------
(* The stream implements the log *)

\* Sending is showing: upwards, nothing twice, and an end only behind the job's own.
LEMMA SendShows ==
  ASSUME LogInv, NEW S, S \subseteq Event, \A s \in S : s <= seq,
         NEW past \in Nat, conn \in {"ready", "open"},
         past # Unknown => ended # 0 /\ ended <= past,
         SendsTo(S, past), UNCHANGED <<seq, ended>>
  PROVE  Log!Next
<1> DEFINE out == Sent(S, last)
<1> USE DEF LogInv
<1>0. out \subseteq S /\ \A s \in out : s > last
  BY DEF Sent
<1>1. out \in SUBSET (1 .. seq) /\ \A s \in out : s > last
  <2>1. \A s \in S : s \in 1 .. seq
    BY StreamAssumption DEF Event, TypeOK
  <2> QED
    BY <1>0, <2>1
<1>2. /\ seen' = seen \union out /\ lastId' = last' /\ last' \in 0 .. MaxEvents
      /\ last' = last \/ last' \in out
      /\ conn' \in {"open", "done"}
      /\ conn' = "done" => (\E t \in out : Terminal(t)) \/ last' >= past
  BY DEF SendsTo
<1>3. lastId = last /\ last \in 0 .. MaxEvents
  BY DEF Placed, Listening, TypeOK
<1>4. \A s \in out : s \in 1 .. seq /\ \A t \in seen : t < s
  BY <1>1, <1>3, StreamAssumption DEF Placed, TypeOK, Event
<1>5. ASSUME conn' = "done" PROVE ended # 0 /\ \E s \in seen' : s >= ended
  <2>1. CASE \E t \in out : Terminal(t)
    BY <1>2, <2>1 DEF Terminal
  <2>2. CASE last' >= past
    <3>1. past # Unknown
      BY <1>2, <2>2, StreamAssumption DEF Unknown
    <3>2. ended # 0 /\ last' >= ended /\ last' # 0
      BY <1>2, <2>2, <3>1, StreamAssumption DEF TypeOK
    <3>3. last' \in seen'
      BY <1>2, <1>3, <3>2 DEF Placed
    <3> QED
      BY <3>2, <3>3
  <2> QED
    BY <1>2, <1>5, <2>1, <2>2
<1>6. Log!Show(out, conn' = "done")
  BY <1>2, <1>4, <1>5, Zenon DEF Log!Show
<1> QED
  BY <1>1, <1>6 DEF Log!Next

LEMMA StepImplementsLog == LogInv /\ [Next]_vars => [Log!Next]_(Log!view)
<1> SUFFICES ASSUME LogInv, [Next]_vars PROVE [Log!Next]_(Log!view)
  OBVIOUS
<1> USE DEF LogInv
<1>1. ASSUME NEW w \in Writer, NEW ends \in BOOLEAN, Append(w, ends) PROVE Log!Next
  <2>1. seq' = seq + 1 /\ UNCHANGED <<seen, conn>>
        /\ ended' \in {ended} \union (IF ended = 0 THEN {seq'} ELSE {})
    BY <1>1 DEF Append, stream, browser
  <2>2. Log!Append
    BY <2>1 DEF Log!Append
  <2> QED
    BY <2>2 DEF Log!Next
<1>2. ASSUME NEW w \in Writer, Publish(w) PROVE [Log!Next]_(Log!view)
  <2>1. {writing[w]} \subseteq Event /\ \A s \in {writing[w]} : s <= seq
        /\ UNCHANGED <<seq, ended>>
    BY <1>2, PublishNumbers
  <2>2. CASE conn = "open" /\ SendsTo({writing[w]}, Unknown)
    <3>1. Unknown \in Nat
      BY StreamAssumption DEF Unknown
    <3> QED
      BY <2>1, <2>2, <3>1, SendShows
  <2>3. CASE UNCHANGED <<conn, browser>> \/ (conn # "open" /\ UNCHANGED <<conn, browser>>)
    BY <2>1, <2>3 DEF Log!view, browser
  <2> QED
    BY <1>2, <2>2, <2>3, PublishCases
<1>3. ASSUME Replay PROVE Log!Next
  <2>1. /\ ToReplay \subseteq Event /\ \A s \in ToReplay : s <= seq
        /\ Past \in Nat /\ SendsTo(ToReplay, Past)
    BY <1>3, ReplaySends
  <2>2. Past # Unknown => ended # 0 /\ ended <= Past
    BY DEF Past, RowRead
  <2>3. conn = "ready" /\ UNCHANGED <<seq, ended>>
    BY <1>3 DEF Replay
  <2> QED
    BY <2>1, <2>2, <2>3, SendShows
<1>4. CASE \/ Connect \/ ReadHistory \/ Subscribed \/ Deafened \/ Drop \/ UNCHANGED vars
           \/ \E w \in Writer : PublishFails(w)
  <2>1. UNCHANGED <<seq, ended, seen>> /\ (conn' = "done") = (conn = "done")
    BY <1>4 DEF Connect, ReadHistory, Subscribed, Deafened, Drop, PublishFails, Listening,
                vars, stream, browser
  <2> QED
    BY <2>1 DEF Log!view
<1> QED
  BY <1>1, <1>2, <1>3, <1>4 DEF Next, Service

\* However connections break and messages are lost, the browser is shown events of the log
\* upwards, each once, and told of the end only behind the event that ended the job.
THEOREM StreamImplementsLog == Spec => ImplementsLog
<1>1. Init => Log!Init
  BY DEF Init, Log!Init
<1> QED
  BY <1>1, InitLog, NextKeepsLog, StepImplementsLog, PTL DEF Spec, ImplementsLog, Log!Spec

-----------------------------------------------------------------------------
(* What is missing *)

\* An event nobody will tell this browser of in time, and why.
Late(s)   == s \in overtaken \union unheard \/ seq - s >= Limit
Coming(s) == s \in Unpublished

\* A gap in what the browser was shown: the event was late, or is about to be.
GapsAreLate ==
  \A s \in Event : s < lastId /\ s \notin seen => Late(s) \/ (Coming(s) /\ s < published)

\* An open connection hears whatever is still to be published.
OpenHears ==
  conn = "open" => \A s \in Event : s <= seq /\ s > last => Late(s) \/ Coming(s)

\* Before that, what the connection lacks is in its history or its buffer.
ReadyHolds ==
  conn = "ready" => /\ \A s \in Event : s <= seq /\ s > last =>
                         Late(s) \/ Coming(s) \/ s \in history \union buffer
                    /\ \A h \in history, s \in Event : s > last /\ s < h =>
                         s \in history \/ seq - s >= Limit

\* What is buffered has been published.
BufferIsPublished == \A s \in buffer : s <= published

GapInv == GapsAreLate /\ OpenHears /\ ReadyHolds /\ BufferIsPublished

LEMMA InitGap == Init => GapInv
<1> SUFFICES ASSUME Init PROVE GapInv
  OBVIOUS
<1>1. lastId = 0 /\ buffer = {} /\ conn = "closed"
  BY DEF Init
<1>2. \A s \in Event : ~ (s < lastId)
  BY <1>1, StreamAssumption DEF Event
<1> QED
  BY <1>1, <1>2 DEF GapInv, GapsAreLate, OpenHears, ReadyHolds, BufferIsPublished

\* Lateness is for good, and what was coming is late or has been published in its turn.
LEMMA WritingStaysLate ==
  ASSUME LogInv, NEW w \in Writer, (\E ends \in BOOLEAN : Append(w, ends)) \/ PublishFails(w),
         NEW s \in Event
  PROVE  (Late(s) => Late(s)') /\ (Coming(s) => Coming(s)' \/ Late(s)')
<1> USE DEF LogInv
<1>0. s \in Nat /\ seq \in Nat
  BY StreamAssumption DEF Event, TypeOK
<1>1. CASE \E ends \in BOOLEAN : Append(w, ends)
  <2>1. seq' = seq + 1 /\ UNCHANGED <<overtaken, unheard>> /\ writing[w] = Idle
        /\ \A v \in Writer : v # w => writing'[v] = writing[v]
    BY <1>1 DEF Append, ghosts, TypeOK
  <2>2. Late(s) => Late(s)'
    BY <1>0, <2>1, StreamAssumption DEF Late
  <2>3. s # Idle
    BY <1>0, StreamAssumption
  <2>4. Coming(s) => Coming(s)'
    BY <2>1, <2>3 DEF Coming, Unpublished
  <2> QED
    BY <2>2, <2>4
<1>2. CASE PublishFails(w)
  <2>1. /\ writing' = [writing EXCEPT ![w] = Idle] /\ UNCHANGED <<seq, overtaken>>
        /\ unheard' = unheard \union {writing[w]}
    BY <1>2 DEF PublishFails
  <2>2. Late(s) => Late(s)'
    BY <2>1 DEF Late
  <2>3. Coming(s) => Coming(s)' \/ Late(s)'
    BY <2>1 DEF Coming, Late, Unpublished, TypeOK
  <2> QED
    BY <2>2, <2>3
<1> QED
  BY <1>1, <1>2

LEMMA PublishStaysLate ==
  ASSUME LogInv, NEW w \in Writer, Publish(w), NEW s \in Event
  PROVE  /\ Late(s) => Late(s)'
         /\ Coming(s) => \/ Coming(s)' \/ Late(s)'
                         \/ s = writing[w] /\ hub = "on" /\ s >= published
<1> USE DEF LogInv
<1>0. s \in Nat /\ published \in Nat
  BY StreamAssumption DEF Event, TypeOK
<1>1. /\ writing' = [writing EXCEPT ![w] = Idle] /\ seq' = seq
      /\ overtaken \subseteq overtaken' /\ unheard \subseteq unheard'
      /\ writing[w] < published => writing[w] \in overtaken'
      /\ hub # "on" => writing[w] \in unheard'
  BY PublishNumbers
<1>2. Late(s) => Late(s)'
  BY <1>1 DEF Late
<1>3. CASE s = writing[w]
  <2>1. s < published \/ s >= published
    BY <1>0
  <2>2. hub # "on" \/ s < published => Late(s)'
    BY <1>1, <1>3 DEF Late
  <2> QED
    BY <1>2, <1>3, <2>1, <2>2
<1>4. CASE s # writing[w]
  <2>1. Coming(s) => Coming(s)'
    BY <1>1, <1>4 DEF Coming, Unpublished, TypeOK
  <2> QED
    BY <1>2, <2>1
<1> QED
  BY <1>3, <1>4

\* What Gap is about is left alone, but for what a writer does to the events themselves.
Shown == <<seen, lastId, last, conn, history>>

LEMMA WritingKeepsGap ==
  ASSUME LogInv, GapInv, NEW w \in Writer,
         (\E ends \in BOOLEAN : Append(w, ends)) \/ PublishFails(w)
  PROVE  GapInv'
<1> USE DEF LogInv
<1>1. /\ UNCHANGED <<Shown, buffer, published>>
      /\ seq' \in Nat
      /\ seq' = seq \/ (seq' = seq + 1 /\ writing'[w] = seq + 1)
  BY StreamAssumption DEF Append, PublishFails, Shown, stream, browser, ghosts, TypeOK
<1>2. \A s \in Event : (Late(s) => Late(s)') /\ (Coming(s) => Coming(s)' \/ Late(s)')
  BY WritingStaysLate
<1>3. GapsAreLate'
  BY <1>1, <1>2 DEF GapInv, GapsAreLate, Shown
<1>4. \A s \in Event : s <= seq' => s <= seq \/ Coming(s)'
  BY <1>1, StreamAssumption DEF Event, TypeOK, Coming, Unpublished
<1>5. OpenHears'
  BY <1>1, <1>2, <1>4 DEF GapInv, OpenHears, Shown
<1>6. \A s \in Event : seq - s >= Limit => seq' - s >= Limit
  <2>1. seq \in Nat /\ Limit \in Nat /\ (seq' = seq \/ seq' = seq + 1)
    BY <1>1, StreamAssumption DEF TypeOK
  <2>2. \A s \in Event : s \in Nat
    BY StreamAssumption DEF Event
  <2> QED
    BY <2>1, <2>2
<1>7. ReadyHolds'
  BY <1>1, <1>2, <1>4, <1>6 DEF GapInv, ReadyHolds, Shown
<1> QED
  BY <1>1, <1>3, <1>5, <1>7 DEF GapInv, BufferIsPublished

LEMMA PublishKeepsGap ==
  ASSUME LogInv, GapInv, NEW w \in Writer, Publish(w)
  PROVE  GapInv'
<1> USE DEF LogInv
<1> DEFINE m == writing[w]
<1>1. /\ m \in Event /\ m <= seq /\ seq' = seq
      /\ published' >= published /\ published' >= m
      /\ m < published => m \in overtaken'
  BY PublishNumbers
<1>2. \A s \in Event :
        /\ Late(s) => Late(s)'
        /\ Coming(s) => Coming(s)' \/ Late(s)' \/ (s = m /\ hub = "on" /\ s >= published)
  BY PublishStaysLate
<1>3. published \in Nat /\ published' \in Nat /\ last \in Nat /\ lastId \in Nat /\ m \in Nat
      /\ Event \subseteq Nat
  BY <1>1, PublishNumbers, StreamAssumption DEF TypeOK, Event
<1>4. ASSUME NEW s \in Event, Late(s) \/ (Coming(s) /\ s < published)
      PROVE  Late(s)' \/ (Coming(s)' /\ s < published')
  BY <1>1, <1>2, <1>3, <1>4
<1>5. BufferIsPublished'
  <2>1. buffer' \subseteq buffer \union {m}
    BY PublishCases
  <2>2. \A s \in buffer : s \in Nat /\ s <= published
    BY <1>3 DEF GapInv, BufferIsPublished, TypeOK
  <2> QED
    BY <1>1, <1>3, <2>1, <2>2 DEF BufferIsPublished
<1>6. CASE /\ hub = "on" /\ conn = "open" /\ SendsTo({m}, Unknown)
  <2>1. /\ seen' = seen \union Sent({m}, last) /\ lastId' = last' /\ lastId = last
        /\ Sent({m}, last) = {} => last' = last
        /\ Sent({m}, last) # {} => last' \in Sent({m}, last)
        /\ conn' # "ready"
    BY <1>6 DEF SendsTo, Placed, Listening
  <2>2. Sent({m}, last) = IF m > last THEN {m} ELSE {}
    BY <1>3 DEF Sent
  <2>3. seen' = IF m > last THEN seen \union {m} ELSE seen
    BY <2>1, <2>2
  <2>4. last' = IF m > last THEN m ELSE last
    BY <2>1, <2>2
  <2>5. \A s \in Event : s > last /\ s <= seq => Late(s) \/ Coming(s)
    BY <1>6 DEF GapInv, OpenHears
  <2>6. ASSUME NEW s \in Event, s < lastId', s \notin seen'
        PROVE  Late(s)' \/ (Coming(s)' /\ s < published')
    <3>1. CASE s < lastId
      <4>1. s \notin seen
        BY <2>3, <2>6
      <4> QED
        BY <1>4, <3>1, <4>1 DEF GapInv, GapsAreLate
    <3>2. CASE s = lastId
      <4>1. s # 0
        BY StreamAssumption DEF Event
      <4> QED
        BY <2>3, <2>6, <3>2, <4>1 DEF Placed
    <3>3. CASE s > lastId
      <4>1. m > last /\ s < m
        BY <1>3, <2>1, <2>4, <2>6, <3>3
      <4>2. s <= seq
        BY <1>1, <1>3, <4>1, StreamAssumption DEF TypeOK
      <4>3. Late(s) \/ Coming(s)
        BY <2>1, <2>5, <3>3, <4>2
      <4> QED
        BY <1>1, <1>2, <1>3, <4>1, <4>3
    <3> QED
      BY <1>3, <3>1, <3>2, <3>3
  <2>7. ASSUME NEW s \in Event, s <= seq', s > last' PROVE Late(s)' \/ Coming(s)'
    <3>1. s > last /\ s # m
      BY <1>3, <2>4, <2>7
    <3> QED
      BY <1>1, <1>2, <2>5, <2>7, <3>1
  <2> QED
    BY <1>5, <2>1, <2>6, <2>7 DEF GapInv, GapsAreLate, OpenHears, ReadyHolds
<1>7. CASE UNCHANGED <<seen, lastId>> /\ conn # "open"
  <2>1. GapsAreLate'
    BY <1>4, <1>7 DEF GapInv, GapsAreLate
  <2>2. conn' # "open"
    BY <1>7, PublishCases DEF SendsTo
  <2>3. CASE conn' # "ready"
    BY <1>5, <2>1, <2>2, <2>3 DEF GapInv, OpenHears, ReadyHolds
  <2>4. CASE conn' = "ready"
    <3>1. /\ conn = "ready" /\ UNCHANGED <<last, history>>
          /\ buffer \subseteq buffer'
          /\ hub = "on" => m \in buffer'
      BY <1>7, <2>4, PublishCases DEF Listening
    <3>2. \A s \in Event : s <= seq' /\ s > last' =>
                             Late(s)' \/ Coming(s)' \/ s \in history' \union buffer'
      BY <1>1, <1>2, <3>1 DEF GapInv, ReadyHolds
    <3>3. \A h \in history', s \in Event : s > last' /\ s < h =>
             s \in history' \/ seq' - s >= Limit
      BY <1>1, <3>1 DEF GapInv, ReadyHolds
    <3> QED
      BY <1>5, <2>1, <2>2, <3>2, <3>3 DEF GapInv, OpenHears, ReadyHolds
  <2> QED
    BY <2>3, <2>4
<1>8. CASE hub # "on" /\ UNCHANGED <<conn, buffer, history, last, browser>>
  <2>1. \A s \in Event : Late(s) \/ Coming(s) => Late(s)' \/ Coming(s)'
    BY <1>2, <1>8
  <2>2. GapsAreLate'
    BY <1>4, <1>8 DEF GapInv, GapsAreLate, browser
  <2>3. OpenHears'
    BY <1>1, <1>8, <2>1 DEF GapInv, OpenHears
  <2>4. ReadyHolds'
    BY <1>1, <1>8, <2>1 DEF GapInv, ReadyHolds
  <2> QED
    BY <1>5, <2>2, <2>3, <2>4 DEF GapInv
<1> QED
  BY <1>6, <1>7, <1>8, PublishCases DEF Listening, browser

LEMMA ReadHistoryKeepsGap ==
  ASSUME LogInv, GapInv, ReadHistory
  PROVE  GapInv'
<1> USE DEF LogInv
<1>1. /\ history' = {s \in 1 .. seq : s > last /\ s + Limit > seq}
      /\ conn' = "ready"
      /\ UNCHANGED <<seq, writing, buffer, last, seen, lastId, overtaken, unheard, published>>
  BY DEF ReadHistory, Rows, browser, ghosts
<1>2. seq \in Nat /\ Limit \in Nat /\ Event \subseteq Nat /\ \A s \in Event : s >= 1
  BY StreamAssumption DEF TypeOK, Event
<1>3. \A s \in Event : s <= seq /\ s > last => s \in history' \/ seq' - s >= Limit
  BY <1>1, <1>2
<1>4. \A h \in history' : h <= seq
  BY <1>1
<1>5. \A h \in history', s \in Event : s > last' /\ s < h => s \in history' \/ seq' - s >= Limit
  BY <1>1, <1>2, <1>3, <1>4
<1>6. GapsAreLate' /\ BufferIsPublished'
  BY <1>1 DEF GapInv, GapsAreLate, BufferIsPublished, Late, Coming, Unpublished
<1> QED
  BY <1>1, <1>3, <1>5, <1>6 DEF GapInv, OpenHears, ReadyHolds, Late

LEMMA ReplayKeepsGap ==
  ASSUME LogInv, GapInv, Replay
  PROVE  GapInv'
<1> USE DEF LogInv
<1> DEFINE out == Sent(ToReplay, last)
<1>1. /\ ToReplay \subseteq Event /\ lastId = last /\ SendsTo(ToReplay, Past)
  BY ReplaySends
<1>2. /\ seen' = seen \union out /\ lastId' = last' /\ last' >= last
      /\ \A t \in out : t > last /\ t <= last'
      /\ last' = last \/ last' \in out
      /\ conn' \in {"open", "done"}
      /\ conn' = "open" => \A t \in out : ~ Terminal(t)
  BY <1>1 DEF SendsTo
<1>3. /\ conn = "ready" /\ buffer' = {}
      /\ UNCHANGED <<seq, writing, ended, overtaken, unheard, published>>
  BY DEF Replay, ghosts
<1>4. \A s \in Event : (Late(s)' <=> Late(s)) /\ (Coming(s)' <=> Coming(s))
  BY <1>3 DEF Late, Coming, Unpublished
<1>5. /\ \A s \in Event : s <= seq /\ s > last =>
             Late(s) \/ Coming(s) \/ s \in history \union buffer
      /\ \A h \in history, s \in Event : s > last /\ s < h => s \in history \/ Late(s)
      /\ \A b \in buffer : b <= published
  BY <1>3 DEF GapInv, ReadyHolds, BufferIsPublished, Late
<1>6. /\ Event \subseteq Nat /\ last \in Nat /\ last' \in Nat /\ seq \in Nat /\ published \in Nat
      /\ history \subseteq Event /\ buffer \subseteq Event /\ last' <= seq
  BY <1>1, ReplaySends, ReplayKeepsLog, StreamAssumption
     DEF TypeOK, Event, SendsTo, Numbered, Replay
<1>7. ASSUME NEW s \in Event, s \in buffer, s \notin ToReplay, s > last
      PROVE  Late(s)
  <2>1. s \notin history /\ \E h \in history : ~ (h < s)
    BY <1>7 DEF ToReplay
  <2>2. PICK h \in history : ~ (h < s)
    BY <2>1
  <2>3. s < h
    BY <1>6, <2>1, <2>2
  <2> QED
    BY <1>5, <1>7, <2>1, <2>3
<1>8. ASSUME NEW s \in Event, s < lastId', s \notin seen'
      PROVE  Late(s)' \/ (Coming(s)' /\ s < published')
  <2>1. CASE s < lastId
    BY <1>2, <1>3, <1>4, <1>8, <2>1 DEF GapInv, GapsAreLate
  <2>2. CASE s = lastId
    <3>1. s # 0
      BY StreamAssumption DEF Event
    <3> QED
      BY <1>2, <1>8, <2>2, <3>1 DEF Placed
  <2>3. CASE s > lastId
    <3>1. last' \in out /\ s > last /\ s < last' /\ s <= seq
      BY <1>1, <1>2, <1>6, <1>8, <2>3
    <3>2. s \notin out
      BY <1>2, <1>8
    <3>3. last' \in ToReplay /\ \A t \in ToReplay : t > last /\ t < last' => ~ Terminal(t)
      BY <3>1 DEF Sent
    <3>4. s \notin ToReplay
      <4>1. \A t \in ToReplay : t > last /\ t < s => ~ Terminal(t)
        BY <1>1, <1>6, <3>1, <3>3
      <4> QED
        BY <3>1, <3>2, <4>1 DEF Sent
    <3>5. s \notin history
      BY <3>4 DEF ToReplay
    <3>6. CASE Late(s) \/ s \in buffer
      BY <1>4, <1>7, <3>1, <3>4, <3>6
    <3>7. CASE Coming(s)
      <4>1. CASE last' \in history
        BY <1>4, <1>5, <3>1, <3>5, <4>1
      <4>2. CASE last' \in buffer
        <5>1. s < published
          BY <1>5, <1>6, <3>1, <4>2
        <5> QED
          BY <1>3, <1>4, <3>7, <5>1
      <4> QED
        BY <3>3, <4>1, <4>2 DEF ToReplay
    <3> QED
      BY <1>5, <3>1, <3>5, <3>6, <3>7
  <2> QED
    BY <1>1, <1>6, <2>1, <2>2, <2>3
<1>9. ASSUME conn' = "open", NEW s \in Event, s <= seq', s > last' PROVE Late(s)' \/ Coming(s)'
  <2>1. s > last /\ s \notin out /\ s <= seq
    BY <1>2, <1>3, <1>6, <1>9
  <2>2. s \notin ToReplay
    BY <1>1, <1>2, <1>6, <1>9, <2>1, SentAll
  <2>3. s \notin history
    BY <2>2 DEF ToReplay
  <2> QED
    BY <1>4, <1>5, <1>7, <2>1, <2>2, <2>3
<1> QED
  BY <1>2, <1>3, <1>8, <1>9 DEF GapInv, GapsAreLate, OpenHears, ReadyHolds, BufferIsPublished

LEMMA NextKeepsGap == LogInv /\ GapInv /\ [Next]_vars => GapInv'
<1> SUFFICES ASSUME LogInv, GapInv, [Next]_vars PROVE GapInv'
  OBVIOUS
<1>1. ASSUME NEW w \in Writer,
             Append(w, TRUE) \/ Append(w, FALSE) \/ Publish(w) \/ PublishFails(w)
      PROVE  GapInv'
  <2>1. CASE Append(w, TRUE) \/ Append(w, FALSE)
    <3>1. \E ends \in BOOLEAN : Append(w, ends)
      BY <2>1
    <3> QED
      BY <3>1, WritingKeepsGap
  <2> QED
    BY <1>1, <2>1, WritingKeepsGap, PublishKeepsGap
<1>2. CASE Connect \/ Drop
  <2>1. conn' # "open" /\ conn' # "ready" /\ buffer' = {}
        /\ UNCHANGED <<seq, writing, seen, lastId, overtaken, unheard, published>>
    BY <1>2 DEF Connect, Drop, browser, ghosts
  <2> QED
    BY <2>1 DEF GapInv, GapsAreLate, OpenHears, ReadyHolds, BufferIsPublished,
                Late, Coming, Unpublished
<1>3. CASE Subscribed \/ Deafened \/ UNCHANGED vars
  <2>1. UNCHANGED <<seq, writing, conn, buffer, history, last, seen, lastId,
                    overtaken, unheard, published>>
    BY <1>3 DEF Subscribed, Deafened, vars, stream, browser, ghosts
  <2> QED
    BY <2>1 DEF GapInv, GapsAreLate, OpenHears, ReadyHolds, BufferIsPublished,
                Late, Coming, Unpublished
<1> QED
  BY <1>1, <1>2, <1>3, ReadHistoryKeepsGap, ReplayKeepsGap DEF Next, Service

\* An event that a browser was shown a later one of, and not the event itself, came late to
\* the channel, was not heard by the hub, or lay beyond the replay limit.  What arrives
\* between the listener and the history is in the one or in the other.
THEOREM NothingFallsBetween == Spec => []OnlyLateAreMissing
<1>1. GapInv => OnlyLateAreMissing
  BY DEF GapInv, GapsAreLate, OnlyLateAreMissing, Late, Coming
<1> QED
  BY <1>1, InitLog, NextKeepsLog, InitGap, NextKeepsGap, PTL DEF Spec
=============================================================================
