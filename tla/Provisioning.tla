---------------------------- MODULE Provisioning -----------------------------
(***************************************************************************)
(* Building virtual machines: the API that takes a request, the job        *)
(* vm.provision step by step with its clean-up (provisioning/playbook.ts), *)
(* and the sweep that settles records whose job is gone and drops          *)
(* passwords past their time (provisioning/sweep.ts).                      *)
(*                                                                         *)
(* What a run knows it has made (its VM, its CDs, its credential, the      *)
(* upload under way) is in its memory, `mem`, and dies with its worker;    *)
(* what is there is `vms`, `discs`, `medium` and `secrets`; what a person  *)
(* can read is the record, `rec`.  A step of the playbook is one action    *)
(* for each write that a failure or another actor can come between.        *)
(*                                                                         *)
(* All builds need the same library file on the same storage.  Nobody else *)
(* makes or deletes VMs, and the mail about a VM that is ready, which      *)
(* cannot fail the job, is left out.                                       *)
(***************************************************************************)
EXTENDS JobStates, Integers, FiniteSets

CONSTANTS
  Build,       \* the records that may be asked for
  Hosts,       \* the hostnames they may ask for, a set of functions
  Packaged,    \* the builds whose template runs installer packages
  NoJob,
  MaxVmid,     \* bound: VM ids
  MaxTroubles, \* bound: how often something goes wrong, or is cancelled or retried
  MaxDisturbed, \* bound: how many builds may be under way when it does
  Faults       \* what may go wrong, a subset of FaultKinds

\* refused: a call fails and did nothing.  noanswer: its answer is lost.  dberror: a write
\* of the database fails.  crash: a worker dies.  stall: one is slow and loses its lease.
\* apiloss: the API dies.  cancel, retry: of a job.
FaultKinds ==
  {"refused", "noanswer", "dberror", "crash", "stall", "apiloss", "cancel", "retry"}

Nobody == "nobody"

ASSUME ProvisioningAssumption ==
  /\ Hosts \subseteq [Build -> Key]
  /\ Packaged \subseteq Build
  /\ NoJob \notin Job
  /\ MaxVmid \in Nat /\ MaxTroubles \in Nat /\ MaxDisturbed \in Nat
  /\ Faults \subseteq FaultKinds
  /\ Nobody \notin Build

Vmid == 1 .. MaxVmid
NoVm == 0
Disc == {"answers", "packages"}

VARIABLES
  host,     \* provisionings.hostname, as the request has it
  rec,      \* the row of each build
  asks,     \* where the API's request for it is
  row,      \* jobs.status
  of,       \* the build in its params
  mem,      \* the memory of the worker that has the job
  vms,      \* whose VM has each id
  medium,   \* the library file is on the storage
  discs,    \* the CDs of each build on the storage
  secrets,  \* guest credentials, by the job that stored them
  sw,       \* the sweep: the row it is at, as it read it
  left,     \* history: what a failed call of a clean-up may have left
  unseen,   \* history: builds of which a VM was made and its id never noted
  orphans,  \* history: secrets that no row names, or one that was over, and no clean-up drops
  strayed,  \* history: builds with a job their row does not name
  troubles  \* as a count

jobs    == <<row, of, mem>>
cluster == <<vms, medium, discs>>
history == <<left, unseen, orphans, strayed>>
vars    == <<host, rec, asks, jobs, cluster, secrets, sw, history, troubles>>

-----------------------------------------------------------------------------
(* Records and jobs *)

NoRec == [ state |-> "none", job |-> NoJob, vmid |-> NoVm, cred |-> NoJob, error |-> "none",
           expiry |-> "none" ]
Opened == {"QUEUED", "RUNNING"}

NoMem == [ at |-> "check", part |-> "go", next |-> NoVm, vmid |-> NoVm, discs |-> {},
           cred |-> NoJob, upload |-> FALSE, done |-> FALSE,
           problem |-> FALSE, ending |-> "none", asked |-> FALSE, alive |-> FALSE ]

StepsInOrder ==
  <<"check", "media", "create", "answers", "install", "packages", "finish", "over">>
After(step) == StepsInOrder[1 + CHOOSE i \in DOMAIN StepsInOrder : StepsInOrder[i] = step]

Active(j) == row[j] \in ACTIVE_JOB_STATUSES
Ended(j)  == row[j] \in TERMINAL_JOB_STATUSES
Free(b)   == {j \in Job : row[j] = "NONE" /\ KeyOf[j] = host[b]}

\* A new row, if the hostname's key is free.
Insert(j, b) ==
  /\ j \in Free(b) /\ KeyFree(row, j)
  /\ row' = [row EXCEPT ![j] = "QUEUED"]
  /\ of' = [of EXCEPT ![j] = b]
  /\ UNCHANGED mem

Record(b, fields) == rec' = [rec EXCEPT ![b] = fields]

\* The builds with a job that is not over, or a worker that has not noticed it is.
Attended == {of[j] : j \in {i \in Job : Active(i) \/ mem[i].alive}}

\* Something goes wrong.
Trouble(fault) ==
  /\ fault \in Faults
  /\ troubles < MaxTroubles
  /\ Cardinality(Attended) <= MaxDisturbed
  /\ troubles' = troubles + 1

-----------------------------------------------------------------------------
(* The API: the record, then the job, then the record again *)

Request(b) ==
  /\ asks[b] = [at |-> "none", job |-> NoJob]
  /\ \A v \in Vmid : vms[v] \in Build => host[vms[v]] # host[b]
  /\ Record(b, [NoRec EXCEPT !.state = "QUEUED"])
  /\ asks' = [asks EXCEPT ![b].at = "row"]
  /\ UNCHANGED <<host, jobs, cluster, secrets, sw, history, troubles>>

RequestJob(b) ==
  /\ asks[b].at = "row"
  /\ \E j \in Job : Insert(j, b) /\ asks' = [asks EXCEPT ![b] = [at |-> "job", job |-> j]]
  /\ UNCHANGED <<host, rec, cluster, secrets, sw, history, troubles>>

\* No job, so no record.
RequestRefused(b) ==
  /\ asks[b].at = "row"
  /\ \A j \in Job : ~ (j \in Free(b) /\ KeyFree(row, j))
  /\ Record(b, NoRec)
  /\ asks' = [asks EXCEPT ![b].at = "over"]
  /\ UNCHANGED <<host, jobs, cluster, secrets, sw, history, troubles>>

RequestLinks(b) ==
  /\ asks[b].at = "job"
  /\ Record(b, [rec[b] EXCEPT !.job = asks[b].job])
  /\ asks' = [asks EXCEPT ![b].at = "over"]
  /\ UNCHANGED <<host, jobs, cluster, secrets, sw, history, troubles>>

ApiDies(b) ==
  /\ Trouble("apiloss")
  /\ asks[b].at \in {"row", "job"}
  /\ asks' = [asks EXCEPT ![b].at = "over"]
  /\ UNCHANGED <<host, rec, jobs, cluster, secrets, sw, history>>

\* Cancelling, and retrying: a new job for the same record, which goes on naming the old one.
CancelQueued(j) ==
  /\ Trouble("cancel")
  /\ row[j] = "QUEUED"
  /\ row' = [row EXCEPT ![j] = "CANCELLED"]
  /\ UNCHANGED <<host, rec, asks, of, mem, cluster, secrets, sw, history>>

AskCancel(j) ==
  /\ Trouble("cancel")
  /\ row[j] = "RUNNING" /\ ~ mem[j].asked
  /\ mem' = [mem EXCEPT ![j].asked = TRUE]
  /\ UNCHANGED <<host, rec, asks, row, of, cluster, secrets, sw, history>>

Retry(j) ==
  /\ Trouble("retry")
  /\ row[j] \in RETRYABLE
  /\ \E i \in Job : Insert(i, of[j])
  /\ strayed' = strayed \union {of[j]}
  /\ UNCHANGED <<host, rec, asks, cluster, secrets, sw, left, unseen, orphans>>

-----------------------------------------------------------------------------
(* The job *)

B(j) == of[j]
At(j, step, part) == mem[j].alive /\ mem[j].at = step /\ mem[j].part = part
Doing(j, step) == At(j, step, "on")

Notes(j, fields) == mem' = [mem EXCEPT ![j] = fields] /\ UNCHANGED <<row, of>>
Into(j, part)    == Notes(j, [mem[j] EXCEPT !.part = part])
Next1(m)         == [m EXCEPT !.at = After(m.at), !.part = "go"]
Onward(j)        == Notes(j, Next1(mem[j]))
Fails(j)         == Notes(j, [mem[j] EXCEPT !.part = "undo", !.ending = "FAILED"])

Claim(j) ==
  /\ row[j] = "QUEUED"
  /\ row' = [row EXCEPT ![j] = "RUNNING"]
  /\ mem' = [mem EXCEPT ![j].alive = TRUE]
  /\ UNCHANGED <<host, rec, asks, of, cluster, secrets, sw, history, troubles>>

\* A step begins only under a job that is still this worker's, and that nobody has cancelled;
\* what it does first comes after.
Begin(j) ==
  /\ mem[j].alive /\ mem[j].part = "go" /\ mem[j].at # "over"
  /\ row[j] = "RUNNING" /\ ~ mem[j].asked
  /\ Into(j, "on")
  /\ UNCHANGED <<host, rec, asks, cluster, secrets, sw, history, troubles>>

\* "exists as VM": a name that is taken.
Clash(b) == \E v \in Vmid : vms[v] \in Build /\ host[vms[v]] = host[b]

\* The record is RUNNING first, whatever it was.
Check(j) ==
  /\ Doing(j, "check")
  /\ Record(B(j), [rec[B(j)] EXCEPT !.state = "RUNNING"])
  /\ IF Clash(B(j)) THEN Fails(j) ELSE Onward(j)
  /\ UNCHANGED <<host, asks, cluster, secrets, sw, history, troubles>>

Media(j) ==
  /\ Doing(j, "media")
  /\ IF medium THEN Onward(j)
     ELSE Notes(j, [mem[j] EXCEPT !.part = "sent", !.upload = TRUE])
  /\ UNCHANGED <<host, rec, asks, cluster, secrets, sw, history, troubles>>

MediaSent(j) ==
  /\ At(j, "media", "sent")
  /\ medium' = TRUE
  /\ Notes(j, Next1([mem[j] EXCEPT !.upload = FALSE]))
  /\ UNCHANGED <<host, rec, asks, vms, discs, secrets, sw, history, troubles>>

\* nextVmid ...
NextVmid(j) ==
  /\ Doing(j, "create")
  /\ \E v \in Vmid : /\ vms[v] = Nobody /\ \A u \in 1 .. v - 1 : vms[u] # Nobody
                     /\ Notes(j, [mem[j] EXCEPT !.part = "post", !.next = v])
  /\ UNCHANGED <<host, rec, asks, cluster, secrets, sw, history, troubles>>

Posts(j, v) == At(j, "create", "post") /\ mem[j].next = v

\* ... then the POST, which Proxmox refuses for an id that is taken, and only when it has
\* been answered is the VM this run's ...
PostFirst(j) ==  \* faulty: the id is the run's before it is known to be
  \E v \in Vmid :
    /\ Posts(j, v)
    /\ IF vms[v] = Nobody /\ medium
       THEN /\ vms' = [vms EXCEPT ![v] = B(j)]
            /\ Notes(j, [mem[j] EXCEPT !.part = "made", !.next = NoVm, !.vmid = v])
       ELSE /\ UNCHANGED vms
            /\ Notes(j, [mem[j] EXCEPT !.part = "undo", !.ending = "FAILED", !.vmid = v])
    /\ UNCHANGED <<host, rec, asks, medium, discs, secrets, sw, history, troubles>>
Post(j) ==
  \E v \in Vmid :
    /\ Posts(j, v)
    /\ IF vms[v] = Nobody /\ medium
       THEN /\ vms' = [vms EXCEPT ![v] = B(j)]
            /\ Notes(j, [mem[j] EXCEPT !.part = "made", !.next = NoVm, !.vmid = v])
       ELSE Fails(j) /\ UNCHANGED vms
    /\ UNCHANGED <<host, rec, asks, medium, discs, secrets, sw, history, troubles>>

\* ... or its answer is lost, and the run knows of no VM.
PostUnanswered(j) ==
  \E v \in Vmid :
    /\ Posts(j, v) /\ vms[v] = Nobody /\ medium
    /\ Trouble("noanswer")
    /\ vms' = [vms EXCEPT ![v] = B(j)]
    /\ unseen' = unseen \union {B(j)}
    /\ Fails(j)
    /\ UNCHANGED <<host, rec, asks, medium, discs, secrets, sw, left, orphans, strayed>>

Made(j) ==
  /\ At(j, "create", "made")
  /\ Record(B(j), [rec[B(j)] EXCEPT !.vmid = mem[j].vmid])
  /\ Onward(j)
  /\ UNCHANGED <<host, asks, cluster, secrets, sw, history, troubles>>

\* The credential is stored, and the run knows of it; then the row names it ...
StoreSecret(j) ==
  /\ Doing(j, "answers")
  /\ secrets' = secrets \union {j}
  /\ Notes(j, [mem[j] EXCEPT !.part = "stored", !.cred = j])
  /\ UNCHANGED <<host, rec, asks, cluster, sw, history, troubles>>

NameSecret(j) ==
  /\ At(j, "answers", "stored")
  /\ Record(B(j), [rec[B(j)] EXCEPT !.cred = j])
  /\ orphans' = IF rec[B(j)].state \in Opened THEN orphans ELSE orphans \union {j}
  /\ Notes(j, [mem[j] EXCEPT !.part = "answers", !.discs = {"answers"}])
  /\ UNCHANGED <<host, asks, cluster, secrets, sw, left, unseen, strayed, troubles>>

\* ... and then the CDs, each "counted as ours from before the first byte".
SendDisc(j) ==
  /\ \E d \in Disc : /\ At(j, "answers", d)
                     /\ discs' = [discs EXCEPT ![B(j)] = @ \union {d}]
                     /\ IF d = "answers" /\ B(j) \in Packaged
                        THEN Notes(j, [mem[j] EXCEPT !.part = "packages", !.discs = Disc])
                        ELSE Onward(j)
  /\ UNCHANGED <<host, rec, asks, vms, medium, secrets, sw, history, troubles>>

\* The VM is started, and the marker is there in the end; ...
Install(j) ==
  /\ Doing(j, "install")
  /\ Onward(j)
  /\ UNCHANGED <<host, rec, asks, cluster, secrets, sw, history, troubles>>

\* ... by then the script has run the packages, to its end or to a required one that failed.
Packages(j) ==
  /\ Doing(j, "packages")
  /\ Onward(j) \/ ("packages" \in mem[j].discs /\ Fails(j))
  /\ UNCHANGED <<host, rec, asks, cluster, secrets, sw, history, troubles>>

\* The CDs go, the answers first; from then on the VM is not to be undone ...
DeleteAnswers(j) ==
  /\ Doing(j, "finish")
  /\ discs' = [discs EXCEPT ![B(j)] = @ \ {"answers"}]
  /\ Notes(j, [mem[j] EXCEPT !.part = "packages", !.discs = @ \ {"answers"}])
  /\ UNCHANGED <<host, rec, asks, vms, medium, secrets, sw, history, troubles>>

DeletePackages(j) ==
  /\ At(j, "finish", "packages")
  /\ discs' = [discs EXCEPT ![B(j)] = @ \ mem[j].discs]
  /\ Notes(j, [mem[j] EXCEPT !.part = "write", !.discs = {}, !.done = TRUE])
  /\ UNCHANGED <<host, rec, asks, vms, medium, secrets, sw, history, troubles>>

\* ... and the record says so.
WriteSuccess(j) ==
  /\ At(j, "finish", "write")
  /\ Record(B(j), [rec[B(j)] EXCEPT !.state = "SUCCEEDED", !.expiry = "ahead"])
  /\ Onward(j)
  /\ UNCHANGED <<host, asks, cluster, secrets, sw, history, troubles>>

Succeed(j) ==
  /\ At(j, "over", "go") /\ row[j] = "RUNNING"
  /\ row' = [row EXCEPT ![j] = "SUCCEEDED"]
  /\ mem' = [mem EXCEPT ![j] = NoMem]
  /\ UNCHANGED <<host, rec, asks, of, cluster, secrets, sw, history, troubles>>

-----------------------------------------------------------------------------
(* What goes wrong, and the clean-up *)

Working(j) == mem[j].alive /\ mem[j].ending = "none"

\* A call fails: an upload may be there all the same, and a CD half or whole.
StepFails(j) ==
  /\ Working(j) /\ mem[j].part # "go"
  /\ Trouble(IF mem[j].part \in {"made", "stored", "write"} THEN "dberror" ELSE "refused")
  /\ medium' \in IF At(j, "media", "sent") THEN {medium, TRUE} ELSE {medium}
  /\ \E sent \in SUBSET (IF mem[j].at = "answers" THEN mem[j].discs ELSE {}) :
       discs' = [discs EXCEPT ![B(j)] = @ \union sent]
  /\ Fails(j)
  /\ UNCHANGED <<host, rec, asks, vms, secrets, sw, history>>

\* At a boundary, or where the playbook waits.
Cancelled(j) ==
  /\ Working(j) /\ mem[j].asked /\ row[j] = "RUNNING"
  /\ mem[j].part \in {"go", "sent"} \/ Doing(j, "install")
  /\ Notes(j, [mem[j] EXCEPT !.part = "undo", !.ending = "CANCELLED"])
  /\ UNCHANGED <<host, rec, asks, cluster, secrets, sw, history, troubles>>

\* What only a run's memory knew of is nobody's from here.
Forgets(j) ==
  /\ unseen' = IF mem[j].vmid \notin {NoVm, rec[B(j)].vmid} THEN unseen \union {B(j)} ELSE unseen
  /\ orphans' = IF mem[j].cred # NoJob /\ rec[B(j)].cred # j THEN orphans \union {j} ELSE orphans

WorkerDies(j) ==
  /\ Trouble("crash")
  /\ mem[j].alive
  /\ Forgets(j)
  /\ mem' = [mem EXCEPT ![j] = NoMem]
  /\ UNCHANGED <<host, rec, asks, row, of, cluster, secrets, sw, left, strayed>>

Reconcile(j) ==
  /\ row[j] = "RUNNING" /\ ~ mem[j].alive
  /\ row' = [row EXCEPT ![j] = "FAILED"]
  /\ UNCHANGED <<host, rec, asks, of, mem, cluster, secrets, sw, history, troubles>>

\* The lease of a worker that is only slow runs out ...
Stall(j) ==
  /\ Trouble("stall")
  /\ row[j] = "RUNNING" /\ mem[j].alive
  /\ row' = [row EXCEPT ![j] = "FAILED"]
  /\ UNCHANGED <<host, rec, asks, of, mem, cluster, secrets, sw, history>>

\* ... and when it finds that out between two steps it stops, without a clean-up.
Abandon(j) ==
  /\ mem[j].alive /\ row[j] # "RUNNING" /\ mem[j].part = "go"
  /\ Forgets(j)
  /\ mem' = [mem EXCEPT ![j] = NoMem]
  /\ UNCHANGED <<host, rec, asks, row, of, cluster, secrets, sw, left, strayed, troubles>>

Undoing(j, part) == mem[j].alive /\ mem[j].part = part

\* The VM, by its id ...
UndoVmDone(j) ==  \* faulty: a finished VM is undone as well
  /\ Undoing(j, "undo")
  /\ IF mem[j].vmid # NoVm THEN vms' = [vms EXCEPT ![mem[j].vmid] = Nobody] ELSE UNCHANGED vms
  /\ Into(j, "discs")
  /\ UNCHANGED <<host, rec, asks, medium, discs, secrets, sw, history, troubles>>
UndoVm(j) ==
  /\ Undoing(j, "undo")
  /\ IF mem[j].vmid # NoVm /\ ~ mem[j].done
     THEN vms' = [vms EXCEPT ![mem[j].vmid] = Nobody] ELSE UNCHANGED vms
  /\ Into(j, IF mem[j].done THEN "end" ELSE "discs")
  /\ UNCHANGED <<host, rec, asks, medium, discs, secrets, sw, history, troubles>>

UndoVmFails(j) ==
  /\ Undoing(j, "undo") /\ ~ mem[j].done
  /\ mem[j].vmid # NoVm
  /\ Trouble("refused")
  /\ left' = [left EXCEPT ![B(j)] = @ \union {"vm"}]
  /\ Notes(j, [mem[j] EXCEPT !.part = "discs", !.problem = TRUE])
  /\ UNCHANGED <<host, rec, asks, cluster, secrets, sw, unseen, orphans, strayed>>

\* ... the CDs, and the upload that was under way ...
UndoAnswersOnly(j) ==  \* faulty: overlooks the packages
  /\ Undoing(j, "discs")
  /\ discs' = [discs EXCEPT ![B(j)] = @ \ {"answers"}]
  /\ medium' = (medium /\ ~ mem[j].upload)
  /\ Into(j, "secret")
  /\ UNCHANGED <<host, rec, asks, vms, secrets, sw, history, troubles>>
UndoDiscs(j) ==
  /\ Undoing(j, "discs")
  /\ discs' = [discs EXCEPT ![B(j)] = @ \ mem[j].discs]
  /\ medium' = (medium /\ ~ mem[j].upload)
  /\ Into(j, "secret")
  /\ UNCHANGED <<host, rec, asks, vms, secrets, sw, history, troubles>>

UndoDiscsFails(j) ==
  /\ Undoing(j, "discs")
  /\ mem[j].discs # {}
  /\ Trouble("refused")
  /\ left' = [left EXCEPT ![B(j)] = @ \union {"discs"}]
  /\ Notes(j, [mem[j] EXCEPT !.part = "secret", !.problem = TRUE])
  /\ UNCHANGED <<host, rec, asks, cluster, secrets, sw, unseen, orphans, strayed>>

\* ... the credential, in silence ...
UndoSecret(j) ==
  /\ Undoing(j, "secret")
  /\ \/ secrets' = secrets \ {mem[j].cred} /\ UNCHANGED <<left, troubles>>
     \/ /\ mem[j].cred # NoJob /\ Trouble("dberror")
        /\ left' = [left EXCEPT ![B(j)] = @ \union {"secret"}]
        /\ UNCHANGED secrets
  /\ Into(j, "record")
  /\ UNCHANGED <<host, rec, asks, cluster, sw, unseen, orphans, strayed>>

\* ... and the record, if it is still open.
Closed(r, m) ==
  [r EXCEPT !.state = m.ending, !.cred = NoJob,
            !.error = IF m.ending = "CANCELLED" THEN @
                      ELSE IF m.problem THEN "cleanup_failed" ELSE "failed"]

UndoRecord(j) ==
  /\ Undoing(j, "record")
  /\ \/ /\ IF rec[B(j)].state \in Opened THEN Record(B(j), Closed(rec[B(j)], mem[j]))
           ELSE UNCHANGED rec
        /\ UNCHANGED troubles
     \/ Trouble("dberror") /\ UNCHANGED rec
  /\ Into(j, "end")
  /\ UNCHANGED <<host, asks, cluster, secrets, sw, history>>

End(j) ==
  /\ Undoing(j, "end")
  /\ row' = IF row[j] = "RUNNING" THEN [row EXCEPT ![j] = mem[j].ending] ELSE row
  /\ mem' = [mem EXCEPT ![j] = NoMem]
  /\ UNCHANGED <<host, rec, asks, of, cluster, secrets, sw, history, troubles>>

-----------------------------------------------------------------------------
(* The sweep: a row and its job are read, and the row is failed if it is still open then *)

Swept == [at |-> "idle", build |-> CHOOSE b \in Build : TRUE, cred |-> NoJob]

\* All rows are read before the first job is, so a credential may have been named since.
Reads(b) ==
  \E cred \in {NoJob, rec[b].cred} : sw' = [at |-> "lost", build |-> b, cred |-> cred]

SweepReadsRunning(b) ==  \* faulty: a build that never began stays open
  /\ sw.at = "idle"
  /\ rec[b].state = "RUNNING" /\ rec[b].job # NoJob /\ ~ Active(rec[b].job)
  /\ Reads(b)
  /\ UNCHANGED <<host, rec, asks, jobs, cluster, secrets, history, troubles>>
SweepReads(b) ==
  /\ sw.at = "idle"
  /\ rec[b].state \in Opened /\ rec[b].job # NoJob /\ ~ Active(rec[b].job)
  /\ Reads(b)
  /\ UNCHANGED <<host, rec, asks, jobs, cluster, secrets, history, troubles>>

\* The name of the credential goes, also one that was not read.
SweepFails ==
  /\ sw.at = "lost"
  /\ IF rec[sw.build].state \in Opened
     THEN /\ Record(sw.build, [rec[sw.build] EXCEPT !.state = "FAILED", !.error = "worker_lost",
                                                    !.cred = NoJob])
          /\ orphans' = orphans \union ({rec[sw.build].cred} \ {NoJob, sw.cred})
          /\ sw' = IF sw.cred = NoJob THEN Swept ELSE [sw EXCEPT !.at = "secret"]
     ELSE UNCHANGED <<rec, orphans>> /\ sw' = Swept
  /\ UNCHANGED <<host, asks, jobs, cluster, secrets, left, unseen, strayed, troubles>>

\* The credential, in silence.
SweepSecret ==
  /\ sw.at = "secret"
  /\ \/ secrets' = secrets \ {sw.cred} /\ UNCHANGED <<left, troubles>>
     \/ /\ Trouble("dberror") /\ UNCHANGED secrets
        /\ left' = [left EXCEPT ![sw.build] = @ \union {"secret"}]
  /\ sw' = Swept
  /\ UNCHANGED <<host, rec, asks, jobs, cluster, unseen, orphans, strayed>>

\* Thirty days pass, and the passwords go: the secret, or not, in silence; then its name.
Expire(b) ==
  /\ rec[b].cred # NoJob /\ rec[b].expiry = "ahead"
  /\ \/ secrets' = secrets \ {rec[b].cred} /\ UNCHANGED <<left, troubles>>
     \/ /\ Trouble("dberror") /\ UNCHANGED secrets
        /\ left' = [left EXCEPT ![b] = @ \union {"secret"}]
  /\ Record(b, [rec[b] EXCEPT !.cred = NoJob, !.expiry = "past"])
  /\ UNCHANGED <<host, asks, jobs, cluster, sw, unseen, orphans, strayed>>

-----------------------------------------------------------------------------
(* The specification *)

Init ==
  /\ host \in Hosts
  /\ rec = [b \in Build |-> NoRec]
  /\ asks = [b \in Build |-> [at |-> "none", job |-> NoJob]]
  /\ row = [j \in Job |-> "NONE"]
  /\ of = [j \in Job |-> Nobody]
  /\ mem = [j \in Job |-> NoMem]
  /\ vms = [v \in Vmid |-> Nobody]
  /\ medium = FALSE
  /\ discs = [b \in Build |-> {}]
  /\ secrets = {}
  /\ sw = Swept
  /\ left = [b \in Build |-> {}]
  /\ unseen = {} /\ orphans = {} /\ strayed = {} /\ troubles = 0

\* What the worker that has the job does.
Work(j) ==
  \/ Begin(j) \/ Check(j) \/ Media(j) \/ MediaSent(j) \/ NextVmid(j) \/ Post(j)
  \/ PostUnanswered(j)
  \/ Made(j) \/ StoreSecret(j) \/ NameSecret(j) \/ SendDisc(j) \/ Install(j)
  \/ Packages(j) \/ DeleteAnswers(j) \/ DeletePackages(j) \/ WriteSuccess(j)
  \/ Succeed(j)
  \/ StepFails(j) \/ Cancelled(j) \/ Abandon(j)
  \/ UndoVm(j) \/ UndoVmFails(j) \/ UndoDiscs(j) \/ UndoDiscsFails(j) \/ UndoSecret(j)
  \/ UndoRecord(j) \/ End(j)

Sweep == \/ \E b \in Build : SweepReads(b) \/ Expire(b)
         \/ SweepFails \/ SweepSecret

Ask(b) == RequestJob(b) \/ RequestRefused(b) \/ RequestLinks(b)

Next ==
  \/ \E b \in Build : Request(b) \/ Ask(b) \/ ApiDies(b)
  \/ \E j \in Job : \/ Claim(j) \/ Work(j) \/ WorkerDies(j) \/ Reconcile(j) \/ Stall(j)
                    \/ CancelQueued(j) \/ AskCancel(j) \/ Retry(j)
  \/ Sweep

Spec == Init /\ [][Next]_vars

\* Workers take jobs and go on with them, the reconciler and the sweep run on a timer, and
\* the API goes on with a request it has begun.
Fairness ==
  /\ \A j \in Job : WF_vars(Claim(j)) /\ WF_vars(Work(j)) /\ WF_vars(Reconcile(j))
  /\ WF_vars(SweepFails \/ SweepSecret)
  /\ \A b \in Build : WF_vars(Ask(b)) /\ SF_vars(SweepReads(b))

FairSpec == Spec /\ Fairness

-----------------------------------------------------------------------------
(* Properties *)

TypeOK ==
  /\ rec \in [Build -> [ state : {"none", "SUCCEEDED", "FAILED", "CANCELLED"} \union Opened,
                         job : Job \union {NoJob}, vmid : Vmid \union {NoVm},
                         cred : Job \union {NoJob},
                         error : {"none", "failed", "cleanup_failed", "worker_lost"},
                         expiry : {"none", "ahead", "past"} ]]
  /\ row \in [Job -> {"NONE", "QUEUED", "RUNNING", "SUCCEEDED", "FAILED", "CANCELLED"}]
  /\ vms \in [Vmid -> Build \union {Nobody}]
  /\ discs \in [Build -> SUBSET Disc]
  /\ secrets \subseteq Job

HasVm(b) == \E v \in Vmid : vms[v] = b

\* "If it fails or is cancelled, the VM is destroyed with its disks, the answer CD is
\* deleted, and the passwords are dropped", except what a call refused.  Where the worker
\* died, the record has the VM's id, unless the answer to its making was lost or a clean-up
\* was refused it, and the passwords go, unless the sweep could not know of them.
FailedIsClean ==
  \A b \in Build :
    rec[b].state \in {"FAILED", "CANCELLED"} /\ b \notin Attended \union strayed =>
      IF rec[b].error = "worker_lost"
      THEN /\ \A v \in Vmid : vms[v] = b => rec[b].vmid = v \/ b \in unseen \/ "vm" \in left[b]
           /\ \A j \in secrets : of[j] = b =>
                "secret" \in left[b] \/ j \in orphans \/ (sw.at = "secret" /\ sw.cred = j)
      ELSE /\ HasVm(b) => "vm" \in left[b] \/ b \in unseen
           /\ discs[b] # {} => "discs" \in left[b]
           /\ \A j \in secrets : of[j] = b => "secret" \in left[b]

\* A build that succeeded has its VM, no CD left with its passwords, the passwords
\* themselves until they expire, unless it was taken for lost.
SuccessIsWhole ==
  \A b \in Build :
    rec[b].state = "SUCCEEDED" =>
      /\ vms[rec[b].vmid] = b
      /\ discs[b] = {}
      /\ rec[b].expiry = "ahead" /\ rec[b].error # "worker_lost" /\ b \notin strayed =>
           rec[b].cred \in secrets

\* A clean-up goes by the id of a VM and finds under it only what its own build made.
DestroysItsOwn ==
  [][\A v \in Vmid : vms[v] # Nobody /\ vms'[v] = Nobody =>
       \E j \in Job : Undoing(j, "undo") /\ mem[j].vmid = v /\ vms[v] = of[j]]_vars

\* A record that names its job does not stay open for ever: the job ends it, or the sweep.
Due(b) == rec[b].state \in Opened /\ rec[b].job # NoJob
BuildsSettle == \A b \in Build : []<>~ Due(b)
=============================================================================
