------------------------------ MODULE Library ------------------------------
(***************************************************************************)
(* The image library: rows in PostgreSQL, files under partial/ and items/, *)
(* the API requests and jobs that fill, push and remove them, and the      *)
(* sweep that tidies up beside them.                                       *)
(*                                                                         *)
(* Rows and files change separately: one action is one statement, one file *)
(* operation or one look at either, with the local code up to the next     *)
(* await.  The job system is seen from outside: a job is created, claimed, *)
(* taken away or finished, as Jobs.tla says.                               *)
(***************************************************************************)
EXTENDS Naturals, FiniteSets, FiniteSetsExt

CONSTANTS
  Item,       \* library items; an id is never used twice
  Uploads,    \* those a browser sends; the others are fetched by a job
  Parts,      \* the parts an image is sent in, and its size
  Ceiling,    \* VELNOX_LIBRARY_MAX_GB in the unit of a part
  MaxItems,   \* bound: items anybody asks for
  MaxCalls,   \* bound: API requests in flight at once
  MaxCrashes, \* bound: requests and worker processes that die
  Faults      \* what may go wrong, a subset of FaultKinds

Part == 1 .. Parts

\* crash: a worker process dies.  stall: a live one loses its job.  apiloss: a request
\* dies between two awaits.  nojob: jobs.create throws.  dberror: a cleanup throws.
FaultKinds == {"crash", "stall", "apiloss", "nojob", "dberror"}

ASSUME LibraryAssumption ==
  /\ Uploads \subseteq Item
  /\ Parts \in Nat \ {0}
  /\ Ceiling \in Nat
  /\ MaxItems \in Nat /\ MaxCalls \in Nat /\ MaxCrashes \in Nat
  /\ Faults \subseteq FaultKinds

VARIABLES
  \* library_items
  state,     \* state, "NONE" before the insert and "GONE" after the delete
  sized,     \* size_bytes is not null
  received,  \* received_bytes
  linked,    \* job_id is not null; only the item's own transfer is ever written there
  silent,    \* updated_at is more than a day ago
  \* the library volume
  partial,   \* partial/<id>: the parts in the file, or NoFile
  place,     \* items/<id>: likewise
  fresh,     \* partial/<id> was written less than a minute before the sweep began, or since
  \* jobs, and the processes that run them
  job,       \* the transfer that fills the item
  push,      \* a push of the item to a cluster
  run,       \* the invocation of the transfer's playbook
  crashes,
  \* API requests between two awaits, and the sweep
  calls,
  sweep

row   == <<state, sized, received, linked, silent>>
files == <<partial, place, fresh>>
work  == <<job, push, run, crashes>>
vars  == <<row, files, work, calls, sweep>>

-----------------------------------------------------------------------------
(* Types and helpers *)

STATES    == {"RECEIVING", "VERIFYING", "READY", "FAILED"}
InFlight  == {"RECEIVING", "VERIFYING"}
ItemState == STATES \union {"NONE", "GONE"}
NoFile    == {0}
File      == (SUBSET Part) \union {NoFile}

\* ACTIVE_JOB_STATUSES, and the ways a job ends, as far as the library looks.
Active    == {"QUEUED", "RUNNING"}
Ended     == {"SUCCEEDED", "FAILED", "CANCELLED"}
Pushing   == {"QUEUED", "CHECKING", "SENDING"}
JobState  == Active \union Ended \union {"NONE"}
PushState == Pushing \union Ended \union {"NONE"}

Steps    == {"load", "link", "fit", "size", "bytes", "received", "hash", "check",
             "publish", "rename", "ready", "report"}
Pc       == Steps \union {"idle", "clean", "look", "settle", "end"}
RunState == [pc : Pc, exit : Ended]
Idle     == [pc |-> "idle", exit |-> "FAILED"]

Ops  == {"create", "touch", "job", "undo", "link", "write", "count", "unlink", "unrow",
         "rm-item", "rm-partial", "delete", "push"}
Call == [op : Ops, item : Item, part : 0 .. Parts]

SweepPc    == {"idle", "transfers", "lost-file", "lost-row", "uploads", "old-file", "old-row",
               "rows", "partials", "items", "ready", "missing"}
SweepState == [pc : SweepPc, todo : SUBSET Item, at : SUBSET Item, known : [Item -> ItemState]]

\* What an item counts for: its size, or what has arrived while that is unknown.
Counts(i) == IF sized[i] THEN Parts ELSE received[i]

\* readLibraryCapacity: every item that is not FAILED.
Used(but) == MapThenSumSet(Counts, {i \in Item \ but : state[i] \in STATES \ {"FAILED"}})

\* checkCapacity.
Fits(but, size) == Used(but) + size <= Ceiling

Go(i, pc)      == run' = [run EXCEPT ![i].pc = pc]
Leave(i, exit) == run' = [run EXCEPT ![i].pc = "clean", ![i].exit = exit]

\* Two requests that are alike and at the same point would do the same: they count as one.
Request(op, i)  == [op |-> op, item |-> i, part |-> 0]
Admit(c)        == Cardinality(calls) < MaxCalls /\ calls' = calls \union {c}
Continue(c, op) == calls' = (calls \ {c}) \union {[c EXCEPT !.op = op]}
Return(c)       == calls' = calls \ {c}

-----------------------------------------------------------------------------
(* The API: adding *)

Begun     == {i \in Item : state[i] # "NONE" \/ \E c \in calls : c.item = i}
MayAsk(i) == Cardinality(Begun \union {i}) <= MaxItems

\* startUpload: the capacity is read ...
StartUpload(i) ==
  /\ i \in Uploads /\ state[i] = "NONE" /\ MayAsk(i)
  /\ Fits({}, Parts)
  /\ Admit([Request("create", i) EXCEPT !.part = Parts])
  /\ UNCHANGED <<row, files, work, sweep>>

\* addFromUrl knows no size yet, and pull only the one discovery may have seen.
AddFetched(i) ==
  /\ i \notin Uploads /\ state[i] = "NONE" /\ MayAsk(i)
  /\ \E size \in {0, Parts} :
       Fits({}, size) /\ Admit([Request("create", i) EXCEPT !.part = size])
  /\ UNCHANGED <<row, files, work, sweep>>

\* ... and the row that reserves the room is written afterwards.
CreateRow(c) ==
  /\ c.op = "create" /\ state[c.item] = "NONE"
  /\ state' = [state EXCEPT ![c.item] = "RECEIVING"]
  /\ sized' = [sized EXCEPT ![c.item] = c.part # 0]
  /\ calls' = (calls \ {c})
                \union {Request(IF c.item \in Uploads THEN "touch" ELSE "job", c.item)}
  /\ UNCHANGED <<received, linked, silent, files, work, sweep>>

\* The upload's file, created empty.
Touch(c) ==
  /\ c.op = "touch"
  /\ partial' = [partial EXCEPT ![c.item] = {}]
  /\ fresh' = [fresh EXCEPT ![c.item] = TRUE]
  /\ Return(c)
  /\ UNCHANGED <<row, place, work, sweep>>

\* startJob: jobs.create; its key is the item's own, so there is one job at most.
MakeJob(c) ==
  /\ c.op = "job" /\ job[c.item] \notin Active
  /\ job' = [job EXCEPT ![c.item] = "QUEUED"]
  /\ Continue(c, "link")
  /\ UNCHANGED <<row, files, push, run, crashes, sweep>>

\* writeChunk reads the row before it asks for the job, and it may have been removed.
NoRow(c) ==
  /\ c.op = "job" /\ c.item \in Uploads /\ state[c.item] = "GONE"
  /\ Return(c)
  /\ UNCHANGED <<row, files, work, sweep>>

\* jobs.create throws, before or after its insert; then the item is deleted.
NoJob(c) ==
  /\ "nojob" \in Faults
  /\ c.op = "job" /\ job[c.item] \notin Active
  /\ \E st \in {job[c.item], "FAILED"} : job' = [job EXCEPT ![c.item] = st]
  /\ Continue(c, "undo")
  /\ UNCHANGED <<row, files, push, run, crashes, sweep>>

Undo(c) ==
  /\ c.op = "undo"
  /\ state' = [state EXCEPT ![c.item] = "GONE"]
  /\ Return(c)
  /\ UNCHANGED <<sized, received, linked, silent, files, work, sweep>>

\* The item is pointed at its job, whatever has become of either.
Link(c) ==
  /\ c.op = "link"
  /\ linked' = [linked EXCEPT ![c.item] = state[c.item] # "GONE"]
  /\ Return(c)
  /\ UNCHANGED <<state, sized, received, silent, files, work, sweep>>

-----------------------------------------------------------------------------
(* The API: uploading in chunks *)

\* writeChunk reads the row: RECEIVING, and the offset is where the upload is up to.
ReadChunk(i) ==
  /\ i \in Uploads /\ state[i] = "RECEIVING"
  /\ Admit([Request("write", i) EXCEPT !.part = received[i] + 1])
  /\ UNCHANGED <<row, files, work, sweep>>

\* The bytes go into a file that has to exist.
WriteChunkShort(c) ==  \* faulty: counts what was announced, not what was written
  /\ c.op = "write" /\ partial[c.item] # NoFile
  /\ \E sent \in {{}, {c.part}} : partial' = [partial EXCEPT ![c.item] = @ \union sent]
  /\ fresh' = [fresh EXCEPT ![c.item] = TRUE]
  /\ Continue(c, "count")
  /\ UNCHANGED <<row, place, work, sweep>>
WriteChunk(c) ==
  /\ c.op = "write" /\ partial[c.item] # NoFile
  /\ partial' = [partial EXCEPT ![c.item] = @ \union {c.part}]
  /\ fresh' = [fresh EXCEPT ![c.item] = TRUE]
  /\ Continue(c, "count")
  /\ UNCHANGED <<row, place, work, sweep>>

\* The connection drops, or the file is gone: nothing is counted.
ChunkFails(c) ==
  /\ c.op = "write"
  /\ Return(c)
  /\ UNCHANGED <<row, files, work, sweep>>

\* The counter moves if nobody else moved it, and the last part ends the upload.
AtOffset(c) == received[c.item] = c.part - 1
IsLast(c)   == c.part = Parts
CountChunk(c) ==
  /\ c.op = "count"
  /\ IF state[c.item] = "RECEIVING" /\ AtOffset(c)
     THEN /\ received' = [received EXCEPT ![c.item] = c.part]
          /\ silent' = [silent EXCEPT ![c.item] = FALSE]
          /\ IF IsLast(c)
             THEN /\ state' = [state EXCEPT ![c.item] = "VERIFYING"]
                  /\ Continue(c, "job")
             ELSE Return(c) /\ UNCHANGED state
     ELSE Return(c) /\ UNCHANGED <<state, received, silent>>
  /\ UNCHANGED <<sized, linked, files, work, sweep>>

\* abandonUpload: the file, then the row if it still is an upload.
Abandon(i) ==
  /\ i \in Uploads /\ state[i] = "RECEIVING"
  /\ Admit(Request("unlink", i))
  /\ UNCHANGED <<row, files, work, sweep>>

AbandonFile(c) ==
  /\ c.op = "unlink"
  /\ partial' = [partial EXCEPT ![c.item] = NoFile]
  /\ Continue(c, "unrow")
  /\ UNCHANGED <<row, place, fresh, work, sweep>>

AbandonRow(c) ==
  /\ c.op = "unrow"
  /\ state' = IF state[c.item] = "RECEIVING" THEN [state EXCEPT ![c.item] = "GONE"] ELSE state
  /\ Return(c)
  /\ UNCHANGED <<sized, received, linked, silent, files, work, sweep>>

-----------------------------------------------------------------------------
(* The API: removing and pushing *)

\* remove: refused while an active job names the item ...
Remove(i) ==
  /\ state[i] \in STATES
  /\ job[i] \notin Active /\ push[i] \notin Pushing
  /\ Admit(Request("rm-item", i))
  /\ UNCHANGED <<row, files, work, sweep>>

\* ... then both files and the row go.
RemoveItemFile(c) ==
  /\ c.op = "rm-item"
  /\ place' = [place EXCEPT ![c.item] = NoFile]
  /\ Continue(c, "rm-partial")
  /\ UNCHANGED <<row, partial, fresh, work, sweep>>

RemovePartial(c) ==
  /\ c.op = "rm-partial"
  /\ partial' = [partial EXCEPT ![c.item] = NoFile]
  /\ Continue(c, "delete")
  /\ UNCHANGED <<row, place, fresh, work, sweep>>

RemoveRow(c) ==
  /\ c.op = "delete"
  /\ state' = [state EXCEPT ![c.item] = "GONE"]
  /\ Return(c)
  /\ UNCHANGED <<sized, received, linked, silent, files, work, sweep>>

\* push: the item is ready, then the job is created.
Push(i) ==
  /\ state[i] = "READY" /\ push[i] = "NONE"
  /\ Admit(Request("push", i))
  /\ UNCHANGED <<row, files, work, sweep>>

MakePush(c) ==
  /\ c.op = "push" /\ push[c.item] \notin Pushing
  /\ push' = [push EXCEPT ![c.item] = "QUEUED"]
  /\ Return(c)
  /\ UNCHANGED <<row, files, job, run, crashes, sweep>>

\* The request dies at an await, with the API process.
CallLost(c) ==
  /\ "apiloss" \in Faults /\ crashes < MaxCrashes
  /\ crashes' = crashes + 1
  /\ Return(c)
  /\ UNCHANGED <<row, files, job, push, run, sweep>>

-----------------------------------------------------------------------------
(* The transfer: library.fetch, library.pull and library.verify *)

Claim(i) ==
  /\ job[i] = "QUEUED" /\ run[i].pc = "idle"
  /\ job' = [job EXCEPT ![i] = "RUNNING"]
  /\ Go(i, "load")
  /\ UNCHANGED <<row, files, push, crashes, calls, sweep>>

\* A job that is still queued is cancelled by the API; no cleanup runs.
CancelQueued(i) ==
  /\ job[i] = "QUEUED"
  /\ job' = [job EXCEPT ![i] = "CANCELLED"]
  /\ UNCHANGED <<row, files, push, run, crashes, calls, sweep>>

\* A step begins only while the job is held, and loads the item it expects.
Load(i) ==
  /\ run[i].pc = "load"
  /\ IF job[i] # "RUNNING" THEN run' = [run EXCEPT ![i] = Idle]
     ELSE IF state[i] = (IF i \in Uploads THEN "VERIFYING" ELSE "RECEIVING")
     THEN Go(i, "link") ELSE Leave(i, "FAILED")
  /\ UNCHANGED <<row, files, job, push, crashes, calls, sweep>>

\* jobId on the row, which has to be there.
LinkRun(i) ==
  /\ run[i].pc = "link"
  /\ linked' = [linked EXCEPT ![i] = state[i] # "GONE"]
  /\ IF state[i] = "GONE" THEN Leave(i, "FAILED")
     ELSE Go(i, IF i \in Uploads THEN "hash" ELSE "fit")
  /\ UNCHANGED <<state, sized, received, silent, files, job, push, crashes, calls, sweep>>

\* The size is known, or the headroom limits what is taken: one look at the capacity.
Fit(i) ==
  /\ run[i].pc = "fit"
  /\ IF Fits({i}, Parts) THEN \E pc \in {"size", "bytes"} : Go(i, pc) ELSE Leave(i, "FAILED")
  /\ UNCHANGED <<row, files, job, push, crashes, calls, sweep>>

Size(i) ==
  /\ run[i].pc = "size"
  /\ sized' = [sized EXCEPT ![i] = TRUE]
  /\ IF state[i] = "GONE" THEN Leave(i, "FAILED") ELSE Go(i, "bytes")
  /\ UNCHANGED <<state, received, linked, silent, files, job, push, crashes, calls, sweep>>

\* The bytes arrive; a transfer that breaks off leaves some of them.
Download(i) ==
  /\ run[i].pc = "bytes"
  /\ \/ partial' = [partial EXCEPT ![i] = Part] /\ Go(i, "received")
     \/ /\ partial' = [partial EXCEPT ![i] = {}]
        /\ \E exit \in {"FAILED", "CANCELLED"} : Leave(i, exit)
  /\ fresh' = [fresh EXCEPT ![i] = TRUE]
  /\ UNCHANGED <<row, place, job, push, crashes, calls, sweep>>

\* RECEIVING is over, whatever the row said in between.
Received(i) ==
  /\ run[i].pc = "received"
  /\ IF state[i] = "GONE" THEN Leave(i, "FAILED") /\ UNCHANGED <<state, sized, received>>
     ELSE /\ state' = [state EXCEPT ![i] = "VERIFYING"]
          /\ sized' = [sized EXCEPT ![i] = TRUE]
          /\ received' = [received EXCEPT ![i] = Parts]
          /\ Go(i, "check")
  /\ UNCHANGED <<linked, silent, files, job, push, crashes, calls, sweep>>

\* An upload is read back: as long as was declared, and that is all its length says.
HashUpload(i) ==
  /\ run[i].pc = "hash"
  /\ IF Parts \in partial[i] THEN Go(i, "check") ELSE Leave(i, "FAILED")
  /\ UNCHANGED <<row, files, job, push, crashes, calls, sweep>>

\* Between the two steps: a job that was taken is let go, a cancelled one cleaned up.
Check(i) ==
  /\ run[i].pc = "check"
  /\ IF job[i] # "RUNNING" THEN run' = [run EXCEPT ![i] = Idle]
     ELSE Go(i, "publish") \/ Leave(i, "CANCELLED")
  /\ UNCHANGED <<row, files, job, push, crashes, calls, sweep>>

\* publish: the row and the file are there, and the bytes are what the name says ...
Publish(i) ==
  /\ run[i].pc = "publish"
  /\ IF state[i] = "GONE" \/ partial[i] = NoFile THEN Leave(i, "FAILED") ELSE Go(i, "rename")
  /\ UNCHANGED <<row, files, job, push, crashes, calls, sweep>>

\* ... then the file moves into place ...
Rename(i) ==
  /\ run[i].pc = "rename"
  /\ IF partial[i] = NoFile THEN Leave(i, "FAILED") /\ UNCHANGED <<partial, place>>
     ELSE /\ place' = [place EXCEPT ![i] = partial[i]]
          /\ partial' = [partial EXCEPT ![i] = NoFile]
          /\ Go(i, "ready")
  /\ UNCHANGED <<row, fresh, job, push, crashes, calls, sweep>>

\* ... and the row becomes READY, whatever it was.
Ready(i) ==
  /\ run[i].pc = "ready"
  /\ IF state[i] = "GONE" THEN Leave(i, "FAILED") /\ UNCHANGED <<state, sized, received, linked>>
     ELSE /\ state' = [state EXCEPT ![i] = "READY"]
          /\ sized' = [sized EXCEPT ![i] = TRUE]
          /\ received' = [received EXCEPT ![i] = Parts]
          /\ linked' = [linked EXCEPT ![i] = FALSE]
          /\ Go(i, "report")
  /\ UNCHANGED <<silent, files, job, push, crashes, calls, sweep>>

\* The step logs and succeeds; until then it can throw like any other.
Report(i) ==
  /\ run[i].pc = "report"
  /\ run' = [run EXCEPT ![i].pc = "end", ![i].exit = "SUCCEEDED"]
  /\ UNCHANGED <<row, files, job, push, crashes, calls, sweep>>

\* A step throws: out of its own error or because a cancellation aborted it.
Throw(i) ==
  /\ run[i].pc \in Steps \ {"load", "check"}
  /\ \E exit \in {"FAILED", "CANCELLED"} : Leave(i, exit)
  /\ UNCHANGED <<row, files, job, push, crashes, calls, sweep>>

\* A step finds that its job was taken: no cleanup.
Lost(i) ==
  /\ run[i].pc \in Steps /\ job[i] # "RUNNING"
  /\ run' = [run EXCEPT ![i] = Idle]
  /\ UNCHANGED <<row, files, job, push, crashes, calls, sweep>>

\* inboundCleanup: the partial file goes, ...
CleanFile(i) ==
  /\ run[i].pc = "clean"
  /\ partial' = [partial EXCEPT ![i] = NoFile]
  /\ Go(i, "look")
  /\ UNCHANGED <<row, place, fresh, job, push, crashes, calls, sweep>>

\* ... a READY item is left alone, ...
SettledNever(i)   == state[i] = "GONE"  \* faulty: looks only for the row
SettledAlready(i) == state[i] \in {"GONE", "READY"}
CleanLook(i) ==
  /\ run[i].pc = "look"
  /\ Go(i, IF SettledAlready(i) THEN "end" ELSE "settle")
  /\ UNCHANGED <<row, files, job, push, crashes, calls, sweep>>

\* ... and any other is deleted, or kept as FAILED with its reason.
CleanRow(i) ==
  /\ run[i].pc = "settle"
  /\ IF state[i] = "GONE" THEN UNCHANGED <<state, linked>>
     ELSE IF run[i].exit = "CANCELLED"
     THEN state' = [state EXCEPT ![i] = "GONE"] /\ UNCHANGED linked
     ELSE state' = [state EXCEPT ![i] = "FAILED"] /\ linked' = [linked EXCEPT ![i] = FALSE]
  /\ Go(i, "end")
  /\ UNCHANGED <<sized, received, silent, files, job, push, crashes, calls, sweep>>

\* The cleanup throws: recorded, and the job ends all the same.
CleanFails(i) ==
  /\ "dberror" \in Faults
  /\ run[i].pc \in {"clean", "look", "settle"}
  /\ Go(i, "end")
  /\ UNCHANGED <<row, files, job, push, crashes, calls, sweep>>

\* The job's last status, if it is still held.
End(i) ==
  /\ run[i].pc = "end"
  /\ job' = IF job[i] = "RUNNING" THEN [job EXCEPT ![i] = run[i].exit] ELSE job
  /\ run' = [run EXCEPT ![i] = Idle]
  /\ UNCHANGED <<row, files, push, crashes, calls, sweep>>

\* The reconciler fails a job whose lease has run out.
Reconcile(i) ==
  /\ job[i] = "RUNNING"
  /\ run[i].pc = "idle" \/ "stall" \in Faults
  /\ job' = [job EXCEPT ![i] = "FAILED"]
  /\ UNCHANGED <<row, files, push, run, crashes, calls, sweep>>

\* library.push: claimed and checked, then the file is opened and sent.
PushStep(i) ==
  /\ \/ push[i] = "QUEUED" /\ push' = [push EXCEPT ![i] = "CHECKING"]
     \/ /\ push[i] = "CHECKING"
        /\ push' = [push EXCEPT ![i] = IF state[i] = "READY" THEN "SENDING" ELSE "FAILED"]
     \/ /\ push[i] = "SENDING"
        /\ \E st \in {"FAILED"} \union (IF place[i] = NoFile THEN {} ELSE {"SUCCEEDED"}) :
             push' = [push EXCEPT ![i] = st]
  /\ UNCHANGED <<row, files, job, run, crashes, calls, sweep>>

-----------------------------------------------------------------------------
(* The sweep *)

To(pc, todo) == sweep' = [sweep EXCEPT !.pc = pc, !.todo = todo]
At(pc, i)    == sweep' = [sweep EXCEPT !.pc = pc, !.at = {i}, !.todo = @ \ {i}]
Pass(i)      == sweep' = [sweep EXCEPT !.todo = @ \ {i}]
Back(pc)     == sweep' = [sweep EXCEPT !.pc = pc, !.at = {}]
NoSweep      == [pc |-> "idle", todo |-> {}, at |-> {}, known |-> [i \in Item |-> "NONE"]]

\* 1. Items whose job is no longer running: those in flight with a job.
SweepBeginsVerifying ==  \* faulty: forgets the fetched items
  /\ sweep.pc = "idle"
  /\ To("transfers", {i \in Item : state[i] = "VERIFYING" /\ linked[i]})
  /\ UNCHANGED <<row, files, work, calls>>
SweepBegins ==
  /\ sweep.pc = "idle"
  /\ To("transfers", {i \in Item : state[i] \in InFlight /\ linked[i]})
  /\ UNCHANGED <<row, files, work, calls>>

\* The job is looked at, ...
SweepTransfer(i) ==
  /\ sweep.pc = "transfers" /\ i \in sweep.todo
  /\ IF job[i] \in Active THEN Pass(i) ELSE At("lost-file", i)
  /\ UNCHANGED <<row, files, work, calls>>

\* ... the partial file removed, ...
SweepLostFile(i) ==
  /\ sweep.pc = "lost-file" /\ i \in sweep.at
  /\ partial' = [partial EXCEPT ![i] = NoFile]
  /\ sweep' = [sweep EXCEPT !.pc = "lost-row"]
  /\ UNCHANGED <<row, place, fresh, work, calls>>

\* ... and the item failed, unless it was published meanwhile.
StillThere(i)     == state[i] \in STATES  \* faulty: unconditional
StillReceiving(i) == state[i] = "RECEIVING" /\ linked[i]  \* faulty: forgets the uploads
StillInFlight(i)  == state[i] \in InFlight /\ linked[i]
SweepLostRow(i) ==
  /\ sweep.pc = "lost-row" /\ i \in sweep.at
  /\ IF StillInFlight(i)
     THEN state' = [state EXCEPT ![i] = "FAILED"] /\ linked' = [linked EXCEPT ![i] = FALSE]
     ELSE UNCHANGED <<state, linked>>
  /\ Back("transfers")
  /\ UNCHANGED <<sized, received, silent, files, work, calls>>

\* 2. Uploads nobody finished: silent for a day and without a job.
SweepUploads ==
  /\ sweep.pc = "transfers" /\ sweep.todo = {}
  /\ To("uploads", {i \in Uploads : state[i] = "RECEIVING" /\ ~ linked[i] /\ silent[i]})
  /\ UNCHANGED <<row, files, work, calls>>

SweepOldFile(i) ==
  /\ sweep.pc = "uploads" /\ i \in sweep.todo
  /\ partial' = [partial EXCEPT ![i] = NoFile]
  /\ At("old-row", i)
  /\ UNCHANGED <<row, place, fresh, work, calls>>

SweepOldRow(i) ==
  /\ sweep.pc = "old-row" /\ i \in sweep.at
  /\ state' = IF state[i] = "RECEIVING" /\ ~ linked[i]
              THEN [state EXCEPT ![i] = "GONE"] ELSE state
  /\ Back("uploads")
  /\ UNCHANGED <<sized, received, linked, silent, files, work, calls>>

\* 3. Files nothing points at: all rows are read, then each directory.
SweepRows ==
  /\ sweep.pc = "uploads" /\ sweep.todo = {}
  /\ sweep' = [sweep EXCEPT !.pc = "rows", !.known = state]
  /\ UNCHANGED <<row, files, work, calls>>

SweepPartials ==
  /\ sweep.pc = "rows"
  /\ To("partials", {i \in Item : partial[i] # NoFile})
  /\ UNCHANGED <<row, files, work, calls>>

\* A partial that is young may belong to a row that is being written right now.
SparedIfKnown(i) == sweep.known[i] \in InFlight  \* faulty: no age
Spared(i)        == sweep.known[i] \in InFlight \/ fresh[i]
SweepPartial(i) ==
  /\ sweep.pc = "partials" /\ i \in sweep.todo
  /\ partial' = IF Spared(i) THEN partial ELSE [partial EXCEPT ![i] = NoFile]
  /\ Pass(i)
  /\ UNCHANGED <<row, place, fresh, work, calls>>

SweepItems ==
  /\ sweep.pc = "partials" /\ sweep.todo = {}
  /\ To("items", {i \in Item : place[i] # NoFile})
  /\ UNCHANGED <<row, files, work, calls>>

WantedRow(i) == sweep.known[i] \in STATES  \* faulty: any row will do
Wanted(i)    == sweep.known[i] = "READY"
SweepItem(i) ==
  /\ sweep.pc = "items" /\ i \in sweep.todo
  /\ place' = IF Wanted(i) THEN place ELSE [place EXCEPT ![i] = NoFile]
  /\ Pass(i)
  /\ UNCHANGED <<row, partial, fresh, work, calls>>

\* 4. Rows that promise a file that is not there.
SweepReady ==
  /\ sweep.pc = "items" /\ sweep.todo = {}
  /\ sweep' = [NoSweep EXCEPT !.pc = "ready", !.todo = {i \in Item : state[i] = "READY"}]
  /\ UNCHANGED <<row, files, work, calls>>

SweepStat(i) ==
  /\ sweep.pc = "ready" /\ i \in sweep.todo
  /\ IF place[i] = NoFile THEN At("missing", i) ELSE Pass(i)
  /\ UNCHANGED <<row, files, work, calls>>

\* An update by id: the sweep throws if the row has been deleted.
SweepMissing(i) ==
  /\ sweep.pc = "missing" /\ i \in sweep.at
  /\ IF state[i] = "GONE" THEN sweep' = NoSweep /\ UNCHANGED state
     ELSE Back("ready") /\ state' = [state EXCEPT ![i] = "FAILED"]
  /\ UNCHANGED <<sized, received, linked, silent, files, work, calls>>

SweepEnds ==
  /\ sweep.pc = "ready" /\ sweep.todo = {}
  /\ sweep' = NoSweep
  /\ UNCHANGED <<row, files, work, calls>>

-----------------------------------------------------------------------------
(* Time and processes *)

\* Nobody has continued the upload for a day; a request that creates one is not that slow.
Silence(i) ==
  /\ i \in Uploads /\ state[i] = "RECEIVING" /\ ~ silent[i]
  /\ Request("touch", i) \notin calls
  /\ silent' = [silent EXCEPT ![i] = TRUE]
  /\ UNCHANGED <<state, sized, received, linked, files, work, calls, sweep>>

\* A minute passes between two sweeps; within one, `now` stands still.
Age(i) ==
  /\ sweep.pc = "idle" /\ fresh[i]
  /\ fresh' = [fresh EXCEPT ![i] = FALSE]
  /\ UNCHANGED <<row, partial, place, work, calls, sweep>>

\* A worker process dies, with the transfers it runs and perhaps the sweep.
Crash(dead) ==
  /\ "crash" \in Faults /\ crashes < MaxCrashes
  /\ crashes' = crashes + 1
  /\ run' = [i \in Item |-> IF i \in dead THEN Idle ELSE run[i]]
  /\ sweep' \in {sweep, NoSweep}
  /\ UNCHANGED <<row, files, job, push, calls>>

-----------------------------------------------------------------------------
(* The specification *)

Init ==
  /\ state = [i \in Item |-> "NONE"]
  /\ sized = [i \in Item |-> FALSE]
  /\ received = [i \in Item |-> 0]
  /\ linked = [i \in Item |-> FALSE]
  /\ silent = [i \in Item |-> FALSE]
  /\ partial = [i \in Item |-> NoFile]
  /\ place = [i \in Item |-> NoFile]
  /\ fresh = [i \in Item |-> FALSE]
  /\ job = [i \in Item |-> "NONE"]
  /\ push = [i \in Item |-> "NONE"]
  /\ run = [i \in Item |-> Idle]
  /\ crashes = 0
  /\ calls = {}
  /\ sweep = NoSweep

\* What people ask for.
User(i) ==
  \/ StartUpload(i) \/ AddFetched(i) \/ ReadChunk(i) \/ Abandon(i)
  \/ Remove(i) \/ Push(i) \/ CancelQueued(i)

\* What the API does on the way.
Api(c) ==
  \/ CreateRow(c) \/ Touch(c) \/ MakeJob(c) \/ NoRow(c) \/ Undo(c) \/ Link(c)
  \/ WriteChunk(c) \/ ChunkFails(c) \/ CountChunk(c) \/ AbandonFile(c) \/ AbandonRow(c)
  \/ RemoveItemFile(c) \/ RemovePartial(c) \/ RemoveRow(c) \/ MakePush(c)

Transfer(i) ==
  \/ Claim(i) \/ Load(i) \/ LinkRun(i) \/ Fit(i) \/ Size(i) \/ Download(i) \/ Received(i)
  \/ HashUpload(i) \/ Check(i) \/ Publish(i) \/ Rename(i) \/ Ready(i) \/ Report(i)
  \/ Throw(i) \/ Lost(i) \/ CleanFile(i) \/ CleanLook(i) \/ CleanRow(i) \/ End(i)

Sweep ==
  \/ SweepBegins \/ SweepUploads \/ SweepRows \/ SweepPartials \/ SweepItems \/ SweepReady
  \/ SweepEnds
  \/ \E i \in Item :
       \/ SweepTransfer(i) \/ SweepLostFile(i) \/ SweepLostRow(i) \/ SweepOldFile(i)
       \/ SweepOldRow(i) \/ SweepPartial(i) \/ SweepItem(i) \/ SweepStat(i) \/ SweepMissing(i)

Next ==
  \/ \E i \in Item : User(i) \/ Transfer(i) \/ PushStep(i) \/ Reconcile(i)
                     \/ CleanFails(i) \/ Silence(i) \/ Age(i)
  \/ \E c \in calls : Api(c) \/ NoJob(c) \/ CallLost(c)
  \/ Sweep
  \/ \E dead \in SUBSET Item : Crash(dead)

Spec == Init /\ [][Next]_vars

\* Transfers, the reconciler and the sweep keep going in some process, requests are
\* carried through, and time passes: sweeps are fifteen minutes apart, so a minute goes
\* by before one of them begins.  Nobody has to continue an upload.
Fairness ==
  /\ WF_vars(Sweep)
  /\ \A i \in Item :
       /\ WF_vars(Transfer(i)) /\ WF_vars(Reconcile(i))
       /\ WF_vars(Silence(i)) /\ SF_vars(Age(i))
       /\ WF_vars(\E c \in calls : c.item = i /\ Api(c))

FairSpec == Spec /\ Fairness

-----------------------------------------------------------------------------
(* Properties *)

TypeOK ==
  /\ state \in [Item -> ItemState]
  /\ sized \in [Item -> BOOLEAN] /\ linked \in [Item -> BOOLEAN] /\ silent \in [Item -> BOOLEAN]
  /\ received \in [Item -> 0 .. Parts]
  /\ partial \in [Item -> File] /\ place \in [Item -> File] /\ fresh \in [Item -> BOOLEAN]
  /\ job \in [Item -> JobState]
  /\ push \in [Item -> PushState]
  /\ run \in [Item -> RunState]
  /\ crashes \in Nat
  /\ calls \subseteq Call
  /\ sweep \in SweepState

\* "A job that has just finished and published the item must not be failed after the
\* fact", and "a READY item is never touched": an item that is READY stays so until
\* it is removed, or its file has gone.
PublishedStays ==
  [][\A i \in Item : state[i] = "READY" =>
       state'[i] \in {"READY", "GONE"} \/ (state'[i] = "FAILED" /\ place[i] = NoFile)]_vars

\* "READY requires a checksum, a size, and every byte received": a published file has
\* every part, however often chunks were sent twice, dropped or raced by the sweep.
PublishedIsWhole ==
  \A i \in Item : /\ place[i] # NoFile => place[i] = Part
                  /\ state[i] = "READY" => received[i] = Parts /\ sized[i]

\* The sweep keeps off a transfer that is running: "Items a dead job was writing are
\* failed", and only those.  Of an upload nothing of the kind is said: one that is continued
\* after a day, while the sweep is at work, loses its file.
SweepSparesTransfers ==
  [][\A i \in Item \ Uploads :
       sweep' # sweep /\ crashes' = crashes /\ state[i] \in InFlight /\ job[i] \in Active =>
         partial'[i] = partial[i] /\ state'[i] = state[i]]_vars

\* "A job that does not finish leaves nothing behind", its process included: no item
\* stays on the way for ever.
TransfersEnd ==
  \A i \in Item : state[i] \in InFlight ~> state[i] \notin InFlight

\* "Files with no row are removed. The row is the record": a file whose item is not
\* what the directory holds is removed, or the item becomes that after all.
LeftoversGo ==
  \A i \in Item :
    /\ place[i] # NoFile ~> place[i] = NoFile \/ state[i] = "READY"
    /\ partial[i] # NoFile ~> partial[i] = NoFile
=============================================================================
