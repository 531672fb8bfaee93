------------------------ MODULE ProvisioningProofs ------------------------
(***************************************************************************)
(* What a build leaves behind, for any builds, names, jobs and VM ids, and *)
(* any number of troubles of every kind.                                   *)
(***************************************************************************)
EXTENDS Provisioning, TLAPS

-----------------------------------------------------------------------------
(* Types *)

Steps == {"check", "media", "create", "answers", "install", "packages", "finish", "over"}
StepParts == {"go", "on", "sent", "post", "made", "stored", "answers", "packages", "write"}
UndoParts == {"undo", "discs", "secret", "record", "end"}

MemType ==
  [ at : Steps, part : StepParts \union UndoParts, next : Vmid \union {NoVm},
    vmid : Vmid \union {NoVm}, discs : SUBSET Disc, cred : Job \union {NoJob},
    upload : BOOLEAN, done : BOOLEAN, problem : BOOLEAN,
    ending : {"none", "FAILED", "CANCELLED"}, asked : BOOLEAN, alive : BOOLEAN ]

\* A row that was inserted is of a build, a worker has it only once it was claimed, and what
\* undoes it knows how it ends.
RowFits(j) ==
  /\ row[j] = "NONE" <=> of[j] = Nobody
  /\ mem[j].alive => row[j] \notin {"NONE", "QUEUED"}
  /\ mem[j].part \in UndoParts <=> mem[j].ending # "none"

RecType ==
  [ state : {"none", "SUCCEEDED", "FAILED", "CANCELLED"} \union Opened,
    job : Job \union {NoJob}, vmid : Vmid \union {NoVm}, cred : Job \union {NoJob},
    error : {"none", "failed", "cleanup_failed", "worker_lost"},
    expiry : {"none", "ahead", "past"} ]

JobTypes ==
  /\ row \in [Job -> {"NONE", "QUEUED", "RUNNING", "SUCCEEDED", "FAILED", "CANCELLED"}]
  /\ of \in [Job -> Build \union {Nobody}]
  /\ mem \in [Job -> MemType]
  /\ \A j \in Job : RowFits(j)

RecordTypes ==
  /\ host \in [Build -> Key]
  /\ rec \in [Build -> RecType]
  /\ asks \in [Build -> [at : {"none", "row", "job", "over"}, job : Job \union {NoJob}]]
  /\ \A b \in Build : asks[b].at = "job" => asks[b].job \in Job
  /\ sw \in [at : {"idle", "lost", "secret"}, build : Build \union {Swept.build},
             cred : Job \union {NoJob}]
  /\ sw.at # "idle" => sw.build \in Build

ThingTypes ==
  /\ vms \in [Vmid -> Build \union {Nobody}] /\ medium \in BOOLEAN
  /\ discs \in [Build -> SUBSET Disc]
  /\ secrets \subseteq Job
  /\ left \in [Build -> SUBSET {"vm", "discs", "secret"}]
  /\ unseen \subseteq Build /\ orphans \subseteq Job /\ strayed \subseteq Build

TypeInv == JobTypes /\ RecordTypes /\ ThingTypes

\* The step after each.
LEMMA StepAfter ==
  /\ After("check") = "media" /\ After("media") = "create" /\ After("create") = "answers"
  /\ After("answers") = "install" /\ After("install") = "packages"
  /\ After("packages") = "finish" /\ After("finish") = "over"
<1> DEFINE S == StepsInOrder
<1>0. /\ DOMAIN S = 1 .. 8
      /\ S[1] = "check" /\ S[2] = "media" /\ S[3] = "create" /\ S[4] = "answers"
      /\ S[5] = "install" /\ S[6] = "packages" /\ S[7] = "finish" /\ S[8] = "over"
  BY DEF StepsInOrder
<1> HIDE DEF S
<1>1. \A i \in DOMAIN S : /\ S[i] = "check" => i = 1
                          /\ S[i] = "media" => i = 2
                          /\ S[i] = "create" => i = 3
                          /\ S[i] = "answers" => i = 4
                          /\ S[i] = "install" => i = 5
                          /\ S[i] = "packages" => i = 6
                          /\ S[i] = "finish" => i = 7
  <2> SUFFICES ASSUME NEW i \in 1 .. 8
               PROVE  /\ S[i] = "check" => i = 1
                      /\ S[i] = "media" => i = 2
                      /\ S[i] = "create" => i = 3
                      /\ S[i] = "answers" => i = 4
                      /\ S[i] = "install" => i = 5
                      /\ S[i] = "packages" => i = 6
                      /\ S[i] = "finish" => i = 7
    BY <1>0
  <2>1. i = 1 \/ i = 2 \/ i = 3 \/ i = 4 \/ i = 5 \/ i = 6 \/ i = 7 \/ i = 8
    OBVIOUS
  <2> QED
    BY <1>0, <2>1
<1>2. ASSUME NEW k \in 1 .. 7 PROVE (CHOOSE i \in DOMAIN S : S[i] = S[k]) = k
  BY <1>0, <1>1
<1>3. \A k \in 1 .. 7 : S[1 + CHOOSE i \in DOMAIN S : S[i] = S[k]] = S[1 + k]
  BY <1>2
<1>4. \A k \in 1 .. 7 : After(S[k]) = S[1 + k]
  BY <1>3 DEF After, S
<1> QED
  BY <1>0, <1>4

\* What a worker notes of itself leaves its row alone.
Notable(j, m) == /\ m \in MemType /\ (m.alive => mem[j].alive)
                 /\ (m.part \in UndoParts <=> m.ending # "none")
LEMMA NotesTypes ==
  ASSUME JobTypes, NEW j \in Job, NEW m, Notable(j, m), Notes(j, m)
  PROVE  JobTypes'
BY DEF JobTypes, Notable, Notes, RowFits

\* A record with other fields.
LEMMA RecordTyped ==
  ASSUME rec \in [Build -> RecType], NEW b \in Build, NEW r \in RecType, Record(b, r)
  PROVE  rec' \in [Build -> RecType]
BY DEF Record

LEMMA StepJobTypes ==
  ASSUME TypeInv, NEW j \in Job,
         \/ Begin(j)
         \/ Check(j)
         \/ Media(j)
         \/ MediaSent(j)
         \/ NextVmid(j)
         \/ Post(j)
         \/ PostUnanswered(j)
         \/ Made(j)
         \/ StoreSecret(j)
         \/ NameSecret(j)
         \/ SendDisc(j)
         \/ Install(j)
         \/ Packages(j)
         \/ DeleteAnswers(j)
         \/ DeletePackages(j)
         \/ WriteSuccess(j)
         \/ StepFails(j)
         \/ Cancelled(j)
         \/ UndoVm(j)
         \/ UndoVmFails(j)
         \/ UndoDiscs(j)
         \/ UndoDiscsFails(j)
         \/ UndoSecret(j)
         \/ UndoRecord(j)
  PROVE  JobTypes'
<1>0. /\ mem[j] \in MemType /\ JobTypes
      /\ mem[j].part \in UndoParts <=> mem[j].ending # "none"
  BY DEF TypeInv, JobTypes, RowFits
<1>1. ASSUME NEW m, Notable(j, m), Notes(j, m) PROVE JobTypes'
  BY <1>0, <1>1, NotesTypes
<1>2. ASSUME NEW part \in StepParts \union UndoParts, Into(j, part),
             part \in UndoParts <=> mem[j].part \in UndoParts
      PROVE  JobTypes'
  <2> DEFINE m == [mem[j] EXCEPT !.part = part]
  <2>1. /\ m \in MemType /\ m.alive = mem[j].alive
        /\ m.part = part /\ m.ending = mem[j].ending
    BY <1>0, <1>2 DEF MemType
  <2>2. Notes(j, m)
    BY <1>2 DEF Into
  <2> HIDE DEF m
  <2> QED
    BY <2>1, <2>2, <1>0, <1>1, <1>2 DEF Notable
<1>3. ASSUME Fails(j) PROVE JobTypes'
  <2> DEFINE m == [mem[j] EXCEPT !.part = "undo", !.ending = "FAILED"]
  <2>1. /\ m \in MemType /\ m.alive = mem[j].alive
        /\ m.part = "undo" /\ m.ending = "FAILED"
    BY <1>0 DEF MemType, UndoParts
  <2>2. Notes(j, m)
    BY <1>3 DEF Fails
  <2> HIDE DEF m
  <2> QED
    BY <2>1, <2>2, <1>1 DEF Notable, UndoParts
<1>4. ASSUME NEW step \in Steps, NEW up \in BOOLEAN, mem[j].part \notin UndoParts,
             Notes(j, [mem[j] EXCEPT !.upload = up, !.at = step, !.part = "go"])
      PROVE  JobTypes'
  <2> DEFINE m == [mem[j] EXCEPT !.upload = up, !.at = step, !.part = "go"]
  <2>1. /\ m \in MemType /\ m.alive = mem[j].alive
        /\ m.part = "go" /\ m.ending = mem[j].ending
    BY <1>0 DEF MemType, StepParts
  <2> HIDE DEF m
  <2> QED
    BY <2>1, <1>4, <1>0, <1>1 DEF Notable, UndoParts, m
<1>5. ASSUME Onward(j), mem[j].at # "over", mem[j].part \notin UndoParts PROVE JobTypes'
  <2>1. After(mem[j].at) \in Steps /\ mem[j].upload \in BOOLEAN
    BY <1>0, <1>5, StepAfter DEF MemType, Steps
  <2>2. Next1(mem[j]) = [mem[j] EXCEPT !.upload = mem[j].upload, !.at = After(mem[j].at),
                                       !.part = "go"]
    BY <1>0 DEF Next1, MemType
  <2> QED
    BY <2>1, <2>2, <1>4, <1>5 DEF Onward
<1>6. CASE Begin(j)
  BY <1>6, <1>2 DEF Begin, StepParts, UndoParts
<1>7. CASE Check(j)
  BY <1>7, <1>3, <1>5 DEF Check, Doing, At, UndoParts
<1>8. CASE Media(j)
  <2> DEFINE m == [mem[j] EXCEPT !.part = "sent", !.upload = TRUE]
  <2>1. Onward(j) \/ Notes(j, m)
    BY <1>8 DEF Media
  <2>2. /\ m \in MemType /\ m.alive = mem[j].alive /\ m.part = "sent"
        /\ m.ending = mem[j].ending
    BY <1>0 DEF MemType, StepParts
  <2> HIDE DEF m
  <2>3. mem[j].at = "media" /\ mem[j].part = "on"
    BY <1>8 DEF Media, Doing, At
  <2> QED
    BY <2>1, <2>2, <2>3, <1>0, <1>1, <1>5 DEF Notable, UndoParts
<1>9. CASE MediaSent(j)
  <2>1. Next1([mem[j] EXCEPT !.upload = FALSE])
          = [mem[j] EXCEPT !.upload = FALSE, !.at = "create", !.part = "go"]
    BY <1>9, <1>0, StepAfter DEF MediaSent, At, Next1, MemType
  <2> QED
    BY <2>1, <1>9, <1>4 DEF MediaSent, At, Steps, UndoParts
<1>10. CASE NextVmid(j)
  <2>1. PICK v \in Vmid : Notes(j, [mem[j] EXCEPT !.part = "post", !.next = v])
    BY <1>10 DEF NextVmid
  <2> DEFINE m == [mem[j] EXCEPT !.part = "post", !.next = v]
  <2>2. /\ m \in MemType /\ m.alive = mem[j].alive /\ m.part = "post"
        /\ m.ending = mem[j].ending
    BY <1>0 DEF MemType, StepParts
  <2> HIDE DEF m
  <2>3. mem[j].part = "on"
    BY <1>10 DEF NextVmid, Doing, At
  <2> QED
    BY <2>1, <2>2, <2>3, <1>0, <1>1 DEF Notable, UndoParts, m
<1>11. CASE Post(j)
  <2>1. PICK v \in Vmid :
          Fails(j) \/ Notes(j, [mem[j] EXCEPT !.part = "made", !.next = NoVm, !.vmid = v])
    BY <1>11 DEF Post
  <2> DEFINE m == [mem[j] EXCEPT !.part = "made", !.next = NoVm, !.vmid = v]
  <2>2. /\ m \in MemType /\ m.alive = mem[j].alive /\ m.part = "made"
        /\ m.ending = mem[j].ending
    BY <1>0 DEF MemType, StepParts
  <2> HIDE DEF m
  <2>3. mem[j].part = "post"
    BY <1>11 DEF Post, Posts, At
  <2> QED
    BY <2>1, <2>2, <2>3, <1>0, <1>1, <1>3 DEF Notable, UndoParts, m
<1>12. CASE PostUnanswered(j)
  BY <1>12, <1>3 DEF PostUnanswered
<1>13. CASE Made(j)
  BY <1>13, <1>5 DEF Made, At, UndoParts
<1>14. CASE StoreSecret(j)
  <2> DEFINE m == [mem[j] EXCEPT !.part = "stored", !.cred = j]
  <2>1. Notes(j, m)
    BY <1>14 DEF StoreSecret
  <2>2. /\ m \in MemType /\ m.alive = mem[j].alive /\ m.part = "stored"
        /\ m.ending = mem[j].ending
    BY <1>0 DEF MemType, StepParts, UndoParts
  <2> HIDE DEF m
  <2>3. mem[j].part = "on"
    BY <1>14 DEF StoreSecret, Doing, At
  <2> QED
    BY <2>1, <2>2, <2>3, <1>0, <1>1 DEF Notable, UndoParts
<1>15. CASE NameSecret(j)
  <2> DEFINE m == [mem[j] EXCEPT !.part = "answers", !.discs = {"answers"}]
  <2>1. Notes(j, m)
    BY <1>15 DEF NameSecret
  <2>2. /\ m \in MemType /\ m.alive = mem[j].alive /\ m.part = "answers"
        /\ m.ending = mem[j].ending
    BY <1>0 DEF MemType, StepParts, UndoParts, Disc
  <2> HIDE DEF m
  <2>3. mem[j].part = "stored"
    BY <1>15 DEF NameSecret, At
  <2> QED
    BY <2>1, <2>2, <2>3, <1>0, <1>1 DEF Notable, UndoParts
<1>16. CASE SendDisc(j)
  <2> DEFINE m == [mem[j] EXCEPT !.part = "packages", !.discs = Disc]
  <2>1. Onward(j) \/ Notes(j, m)
    BY <1>16 DEF SendDisc
  <2>2. /\ m \in MemType /\ m.alive = mem[j].alive /\ m.part = "packages"
        /\ m.ending = mem[j].ending
    BY <1>0 DEF MemType, StepParts, UndoParts, Disc
  <2> HIDE DEF m
  <2>3. mem[j].part \in {"answers", "packages"} /\ mem[j].at = "answers"
    BY <1>16 DEF SendDisc, At, Disc
  <2> QED
    BY <2>1, <2>2, <2>3, <1>0, <1>1, <1>5 DEF Notable, UndoParts
<1>17. CASE Install(j)
  BY <1>17, <1>5 DEF Install, Doing, At, UndoParts
<1>18. CASE Packages(j)
  BY <1>18, <1>3, <1>5 DEF Packages, Doing, At, UndoParts
<1>19. CASE DeleteAnswers(j)
  <2> DEFINE m == [mem[j] EXCEPT !.part = "packages", !.discs = @ \ {"answers"}]
  <2>1. Notes(j, m)
    BY <1>19 DEF DeleteAnswers
  <2>2. /\ m \in MemType /\ m.alive = mem[j].alive /\ m.part = "packages"
        /\ m.ending = mem[j].ending
    BY <1>0 DEF MemType, StepParts, UndoParts, Disc
  <2> HIDE DEF m
  <2>3. mem[j].part = "on"
    BY <1>19 DEF DeleteAnswers, Doing, At
  <2> QED
    BY <2>1, <2>2, <2>3, <1>0, <1>1 DEF Notable, UndoParts
<1>20. CASE DeletePackages(j)
  <2> DEFINE m == [mem[j] EXCEPT !.part = "write", !.discs = {}, !.done = TRUE]
  <2>1. Notes(j, m)
    BY <1>20 DEF DeletePackages
  <2>2. /\ m \in MemType /\ m.alive = mem[j].alive /\ m.part = "write"
        /\ m.ending = mem[j].ending
    BY <1>0 DEF MemType, StepParts, UndoParts, Disc
  <2> HIDE DEF m
  <2>3. mem[j].part = "packages"
    BY <1>20 DEF DeletePackages, At
  <2> QED
    BY <2>1, <2>2, <2>3, <1>0, <1>1 DEF Notable, UndoParts
<1>21. CASE WriteSuccess(j)
  BY <1>21, <1>5 DEF WriteSuccess, At, UndoParts
<1>22. CASE StepFails(j)
  BY <1>22, <1>3 DEF StepFails
<1>23. CASE Cancelled(j)
  <2> DEFINE m == [mem[j] EXCEPT !.part = "undo", !.ending = "CANCELLED"]
  <2>1. Notes(j, m)
    BY <1>23 DEF Cancelled
  <2>2. /\ m \in MemType /\ m.alive = mem[j].alive /\ m.part = "undo"
        /\ m.ending = "CANCELLED"
    BY <1>0 DEF MemType, StepParts, UndoParts
  <2> HIDE DEF m
  <2> QED
    BY <2>1, <2>2, <1>1 DEF Notable, UndoParts
<1>24. CASE UndoVm(j)
  BY <1>24, <1>2 DEF UndoVm, Undoing, UndoParts
<1>25. CASE UndoVmFails(j)
  <2> DEFINE m == [mem[j] EXCEPT !.part = "discs", !.problem = TRUE]
  <2>1. Notes(j, m)
    BY <1>25 DEF UndoVmFails
  <2>2. /\ m \in MemType /\ m.alive = mem[j].alive /\ m.part = "discs"
        /\ m.ending = mem[j].ending
    BY <1>0 DEF MemType, StepParts, UndoParts, Disc
  <2> HIDE DEF m
  <2>3. mem[j].part = "undo"
    BY <1>25 DEF UndoVmFails, Undoing
  <2> QED
    BY <2>1, <2>2, <2>3, <1>0, <1>1 DEF Notable, UndoParts
<1>26. CASE UndoDiscs(j)
  BY <1>26, <1>2 DEF UndoDiscs, Undoing, UndoParts
<1>27. CASE UndoDiscsFails(j)
  <2> DEFINE m == [mem[j] EXCEPT !.part = "secret", !.problem = TRUE]
  <2>1. Notes(j, m)
    BY <1>27 DEF UndoDiscsFails
  <2>2. /\ m \in MemType /\ m.alive = mem[j].alive /\ m.part = "secret"
        /\ m.ending = mem[j].ending
    BY <1>0 DEF MemType, StepParts, UndoParts
  <2> HIDE DEF m
  <2>3. mem[j].part = "discs"
    BY <1>27 DEF UndoDiscsFails, Undoing
  <2> QED
    BY <2>1, <2>2, <2>3, <1>0, <1>1 DEF Notable, UndoParts
<1>28. CASE UndoSecret(j)
  BY <1>28, <1>2 DEF UndoSecret, Undoing, UndoParts
<1>29. CASE UndoRecord(j)
  BY <1>29, <1>2 DEF UndoRecord, Undoing, UndoParts
<1> QED
  BY <1>6, <1>7, <1>8, <1>9, <1>10, <1>11, <1>12, <1>13, <1>14, <1>15, <1>16, <1>17, <1>18,
     <1>19, <1>20, <1>21, <1>22, <1>23, <1>24, <1>25, <1>26, <1>27, <1>28, <1>29

LEMMA StepOtherTypes ==
  ASSUME TypeInv, NEW j \in Job,
         \/ Begin(j)
         \/ Check(j)
         \/ Media(j)
         \/ MediaSent(j)
         \/ NextVmid(j)
         \/ Post(j)
         \/ PostUnanswered(j)
         \/ Made(j)
         \/ StoreSecret(j)
         \/ NameSecret(j)
         \/ SendDisc(j)
         \/ Install(j)
         \/ Packages(j)
         \/ DeleteAnswers(j)
         \/ DeletePackages(j)
         \/ WriteSuccess(j)
         \/ StepFails(j)
         \/ Cancelled(j)
         \/ UndoVm(j)
         \/ UndoVmFails(j)
         \/ UndoDiscs(j)
         \/ UndoDiscsFails(j)
         \/ UndoSecret(j)
         \/ UndoRecord(j)
  PROVE  RecordTypes' /\ ThingTypes'
<1>0. /\ mem[j] \in MemType /\ RecordTypes /\ ThingTypes
      /\ of[j] \in Build \/ ~ mem[j].alive
      /\ mem[j].part \in UndoParts => mem[j].ending # "none"
  BY DEF TypeInv, JobTypes, RowFits
<1>2. CASE Begin(j)
  BY <1>2, <1>0
  DEF Begin, RecordTypes, ThingTypes, RecType, MemType, Disc, cluster, history, Opened
<1>3. CASE Check(j)
  <2>0. rec[B(j)] \in RecType /\ B(j) \in Build
    BY <1>3, <1>0 DEF Check, RecordTypes, B, At, Doing
  <2>1. rec' \in [Build -> RecType]
    <3>1. ASSUME NEW r, r \in RecType, Record(B(j), r) PROVE rec' \in [Build -> RecType]
      BY <2>0, <3>1, <1>0, RecordTyped DEF RecordTypes
    <3> QED
      BY <1>3, <1>0, <2>0, <3>1 DEF Check, RecType, MemType, Opened, RecordTypes, UndoParts
  <2>2. RecordTypes'
    BY <1>3, <1>0, <2>1 DEF Check, RecordTypes
  <2>3. ThingTypes'
    BY <1>3, <1>0 DEF Check, ThingTypes, cluster, history
  <2> QED
    BY <2>2, <2>3
<1>4. CASE Media(j)
  BY <1>4, <1>0
  DEF Media, RecordTypes, ThingTypes, RecType, MemType, At, Doing, Disc, cluster, history,
     Opened
<1>5. CASE MediaSent(j)
  BY <1>5, <1>0
  DEF MediaSent, RecordTypes, ThingTypes, RecType, MemType, At, Disc, history, Opened
<1>6. CASE NextVmid(j)
  BY <1>6, <1>0
  DEF NextVmid, RecordTypes, ThingTypes, RecType, MemType, At, Doing, Disc, cluster, history,
     Opened
<1>7. CASE Post(j)
  BY <1>7, <1>0
  DEF Post, RecordTypes, ThingTypes, RecType, MemType, At, Posts, Disc, B, history, Opened
<1>8. CASE PostUnanswered(j)
  BY <1>8, <1>0
  DEF PostUnanswered, RecordTypes, ThingTypes, RecType, MemType, At, Posts, Disc, B, Trouble,
     Opened
<1>9. CASE Made(j)
  <2>0. rec[B(j)] \in RecType /\ B(j) \in Build
    BY <1>9, <1>0 DEF Made, RecordTypes, B, At
  <2>1. rec' \in [Build -> RecType]
    <3>1. ASSUME NEW r, r \in RecType, Record(B(j), r) PROVE rec' \in [Build -> RecType]
      BY <2>0, <3>1, <1>0, RecordTyped DEF RecordTypes
    <3> QED
      BY <1>9, <1>0, <2>0, <3>1 DEF Made, RecType, MemType, Opened, RecordTypes, UndoParts
  <2>2. RecordTypes'
    BY <1>9, <1>0, <2>1 DEF Made, RecordTypes
  <2>3. ThingTypes'
    BY <1>9, <1>0 DEF Made, ThingTypes, cluster, history
  <2> QED
    BY <2>2, <2>3
<1>10. CASE StoreSecret(j)
  BY <1>10, <1>0
  DEF StoreSecret, RecordTypes, ThingTypes, RecType, MemType, At, Doing, Disc, cluster, history,
     Opened
<1>11. CASE NameSecret(j)
  <2>0. rec[B(j)] \in RecType /\ B(j) \in Build
    BY <1>11, <1>0 DEF NameSecret, RecordTypes, B, At
  <2>1. rec' \in [Build -> RecType]
    <3>1. ASSUME NEW r, r \in RecType, Record(B(j), r) PROVE rec' \in [Build -> RecType]
      BY <2>0, <3>1, <1>0, RecordTyped DEF RecordTypes
    <3> QED
      BY <1>11, <1>0, <2>0, <3>1
      DEF NameSecret, RecType, MemType, Opened, RecordTypes, UndoParts
  <2>2. RecordTypes'
    BY <1>11, <1>0, <2>1 DEF NameSecret, RecordTypes
  <2>3. ThingTypes'
    BY <1>11, <1>0 DEF NameSecret, ThingTypes, cluster
  <2> QED
    BY <2>2, <2>3
<1>12. CASE SendDisc(j)
  BY <1>12, <1>0
  DEF SendDisc, RecordTypes, ThingTypes, RecType, MemType, At, Disc, B, history, Opened
<1>13. CASE Install(j)
  BY <1>13, <1>0
  DEF Install, RecordTypes, ThingTypes, RecType, MemType, At, Doing, Disc, cluster, history,
     Opened
<1>14. CASE Packages(j)
  BY <1>14, <1>0
  DEF Packages, RecordTypes, ThingTypes, RecType, MemType, At, Doing, Disc, cluster, history,
     Opened
<1>15. CASE DeleteAnswers(j)
  BY <1>15, <1>0
  DEF DeleteAnswers, RecordTypes, ThingTypes, RecType, MemType, At, Doing, Disc, B, history,
     Opened
<1>16. CASE DeletePackages(j)
  BY <1>16, <1>0
  DEF DeletePackages, RecordTypes, ThingTypes, RecType, MemType, At, Disc, B, history, Opened
<1>17. CASE WriteSuccess(j)
  <2>0. rec[B(j)] \in RecType /\ B(j) \in Build
    BY <1>17, <1>0 DEF WriteSuccess, RecordTypes, B, At
  <2>1. rec' \in [Build -> RecType]
    <3>1. ASSUME NEW r, r \in RecType, Record(B(j), r) PROVE rec' \in [Build -> RecType]
      BY <2>0, <3>1, <1>0, RecordTyped DEF RecordTypes
    <3> QED
      BY <1>17, <1>0, <2>0, <3>1
      DEF WriteSuccess, RecType, MemType, Opened, RecordTypes, UndoParts
  <2>2. RecordTypes'
    BY <1>17, <1>0, <2>1 DEF WriteSuccess, RecordTypes
  <2>3. ThingTypes'
    BY <1>17, <1>0 DEF WriteSuccess, ThingTypes, cluster, history
  <2> QED
    BY <2>2, <2>3
<1>18. CASE StepFails(j)
  <2>1. mem[j].discs \in SUBSET Disc /\ B(j) \in Build
    BY <1>18, <1>0 DEF StepFails, MemType, Working, B
  <2>2. PICK sent \in SUBSET Disc : discs' = [discs EXCEPT ![B(j)] = @ \union sent]
    BY <1>18, <2>1 DEF StepFails
  <2>3. discs' \in [Build -> SUBSET Disc]
    BY <2>1, <2>2, <1>0 DEF ThingTypes
  <2>4. medium' \in BOOLEAN
    <3>1. medium' \in {medium, TRUE}
      BY <1>18 DEF StepFails
    <3> QED
      BY <3>1, <1>0 DEF ThingTypes
  <2> QED
    BY <1>18, <2>3, <2>4, <1>0 DEF StepFails, RecordTypes, ThingTypes, history
<1>19. CASE Cancelled(j)
  BY <1>19, <1>0
  DEF Cancelled, RecordTypes, ThingTypes, RecType, MemType, At, Doing, Disc, cluster, history,
     Opened, Working
<1>20. CASE UndoVm(j)
  BY <1>20, <1>0
  DEF UndoVm, RecordTypes, ThingTypes, RecType, MemType, Undoing, Disc, history, Opened
<1>21. CASE UndoVmFails(j)
  BY <1>21, <1>0
  DEF UndoVmFails, RecordTypes, ThingTypes, RecType, MemType, Undoing, Disc, B, Trouble,
     cluster, Opened
<1>22. CASE UndoDiscs(j)
  BY <1>22, <1>0
  DEF UndoDiscs, RecordTypes, ThingTypes, RecType, MemType, Undoing, Disc, B, history, Opened
<1>23. CASE UndoDiscsFails(j)
  BY <1>23, <1>0
  DEF UndoDiscsFails, RecordTypes, ThingTypes, RecType, MemType, Undoing, Disc, B, Trouble,
     cluster, Opened
<1>24. CASE UndoSecret(j)
  BY <1>24, <1>0
  DEF UndoSecret, RecordTypes, ThingTypes, RecType, MemType, Undoing, Disc, B, Trouble, cluster,
     Opened
<1>25. CASE UndoRecord(j)
  <2>0. rec[B(j)] \in RecType /\ B(j) \in Build
    BY <1>25, <1>0 DEF UndoRecord, RecordTypes, B, Undoing
  <2>1. rec' \in [Build -> RecType]
    <3>1. ASSUME NEW r, r \in RecType, Record(B(j), r) PROVE rec' \in [Build -> RecType]
      BY <2>0, <3>1, <1>0, RecordTyped DEF RecordTypes
    <3>2. Closed(rec[B(j)], mem[j]) \in RecType
      <4>1. mem[j].ending \in {"FAILED", "CANCELLED"}
        BY <1>25, <1>0 DEF UndoRecord, Undoing, UndoParts, MemType
      <4> QED
        BY <2>0, <4>1 DEF RecType, Closed
    <3> QED
      BY <1>25, <1>0, <3>1, <3>2 DEF UndoRecord, RecordTypes
  <2>2. RecordTypes'
    BY <1>25, <1>0, <2>1 DEF UndoRecord, RecordTypes
  <2>3. ThingTypes'
    BY <1>25, <1>0 DEF UndoRecord, ThingTypes, Trouble, cluster, history
  <2> QED
    BY <2>2, <2>3
<1> QED
  BY <1>2, <1>3, <1>4, <1>5, <1>6, <1>7, <1>8, <1>9, <1>10, <1>11, <1>12, <1>13, <1>14, <1>15,
     <1>16, <1>17, <1>18, <1>19, <1>20, <1>21, <1>22, <1>23, <1>24, <1>25

LEMMA RowTypes ==
  ASSUME TypeInv, NEW j \in Job,
         \/ Claim(j)
         \/ Succeed(j)
         \/ WorkerDies(j)
         \/ Reconcile(j)
         \/ Stall(j)
         \/ Abandon(j)
         \/ End(j)
         \/ CancelQueued(j)
         \/ AskCancel(j)
         \/ Retry(j)
  PROVE  TypeInv'
<1>0. JobTypes /\ RecordTypes /\ ThingTypes /\ mem[j] \in MemType
  BY DEF TypeInv, JobTypes
<1>1. CASE Claim(j)
  <2>1. JobTypes'
    <3>1. mem' = [mem EXCEPT ![j] = [mem[j] EXCEPT !.alive = TRUE]]
      BY <1>1, <1>0 DEF Claim, JobTypes
    <3>2. [mem[j] EXCEPT !.alive = TRUE] \in MemType
      BY <1>0 DEF MemType
    <3>3. /\ mem'[j].part = mem[j].part /\ mem'[j].ending = mem[j].ending
          /\ \A i \in Job : i # j => mem'[i] = mem[i]
      BY <3>1, <1>0 DEF MemType, JobTypes
    <3>4. \A i \in Job : RowFits(i)'
      BY <3>3, <1>1, <1>0 DEF Claim, RowFits, JobTypes
    <3> QED
      BY <3>1, <3>2, <3>4, <1>1, <1>0 DEF Claim, JobTypes
  <2>2. RecordTypes' /\ ThingTypes'
    BY <1>1, <1>0
    DEF Claim, JobTypes, RowFits, RecordTypes, ThingTypes, MemType, cluster, history, RETRYABLE
  <2> QED
    BY <2>1, <2>2 DEF TypeInv
<1>2. CASE Succeed(j)
  <2>1. JobTypes'
    BY <1>2, <1>0
    DEF Succeed, JobTypes, RowFits, MemType, NoMem, Steps, StepParts, UndoParts, Notes, Insert,
       RETRYABLE, At, Free, NoVm
  <2>2. RecordTypes' /\ ThingTypes'
    BY <1>2, <1>0
    DEF Succeed, JobTypes, RowFits, RecordTypes, ThingTypes, MemType, cluster, history,
       RETRYABLE
  <2> QED
    BY <2>1, <2>2 DEF TypeInv
<1>3. CASE WorkerDies(j)
  <2>1. JobTypes'
    BY <1>3, <1>0
    DEF WorkerDies, JobTypes, RowFits, MemType, NoMem, Steps, StepParts, UndoParts, Notes,
       Insert, RETRYABLE, Free, NoVm
  <2>2. RecordTypes' /\ ThingTypes'
    BY <1>3, <1>0
    DEF WorkerDies, JobTypes, RowFits, RecordTypes, ThingTypes, MemType, Forgets, B, Trouble,
       cluster, RETRYABLE
  <2> QED
    BY <2>1, <2>2 DEF TypeInv
<1>4. CASE Reconcile(j)
  <2>1. JobTypes'
    BY <1>4, <1>0
    DEF Reconcile, JobTypes, RowFits, MemType, NoMem, Steps, StepParts, UndoParts, Notes,
       Insert, RETRYABLE, Free, NoVm
  <2>2. RecordTypes' /\ ThingTypes'
    BY <1>4, <1>0
    DEF Reconcile, JobTypes, RowFits, RecordTypes, ThingTypes, MemType, cluster, history,
       RETRYABLE
  <2> QED
    BY <2>1, <2>2 DEF TypeInv
<1>5. CASE Stall(j)
  <2>1. JobTypes'
    BY <1>5, <1>0
    DEF Stall, JobTypes, RowFits, MemType, NoMem, Steps, StepParts, UndoParts, Notes, Insert,
       RETRYABLE, Free, NoVm
  <2>2. RecordTypes' /\ ThingTypes'
    BY <1>5, <1>0
    DEF Stall, JobTypes, RowFits, RecordTypes, ThingTypes, MemType, Trouble, cluster, history,
       RETRYABLE
  <2> QED
    BY <2>1, <2>2 DEF TypeInv
<1>6. CASE Abandon(j)
  <2>1. JobTypes'
    BY <1>6, <1>0
    DEF Abandon, JobTypes, RowFits, MemType, NoMem, Steps, StepParts, UndoParts, Notes, Insert,
       RETRYABLE, Free, NoVm
  <2>2. RecordTypes' /\ ThingTypes'
    BY <1>6, <1>0
    DEF Abandon, JobTypes, RowFits, RecordTypes, ThingTypes, MemType, Forgets, B, cluster,
       RETRYABLE
  <2> QED
    BY <2>1, <2>2 DEF TypeInv
<1>7. CASE End(j)
  <2>1. JobTypes'
    BY <1>7, <1>0
    DEF End, JobTypes, RowFits, MemType, NoMem, Steps, StepParts, UndoParts, Notes, Insert,
       RETRYABLE, Undoing, Free, NoVm
  <2>2. RecordTypes' /\ ThingTypes'
    BY <1>7, <1>0
    DEF End, JobTypes, RowFits, RecordTypes, ThingTypes, MemType, cluster, history, RETRYABLE
  <2> QED
    BY <2>1, <2>2 DEF TypeInv
<1>8. CASE CancelQueued(j)
  <2>1. JobTypes'
    BY <1>8, <1>0
    DEF CancelQueued, JobTypes, RowFits, MemType, NoMem, Steps, StepParts, UndoParts, Notes,
       Insert, RETRYABLE, Free, NoVm
  <2>2. RecordTypes' /\ ThingTypes'
    BY <1>8, <1>0
    DEF CancelQueued, JobTypes, RowFits, RecordTypes, ThingTypes, MemType, Trouble, cluster,
       history, RETRYABLE
  <2> QED
    BY <2>1, <2>2 DEF TypeInv
<1>9. CASE AskCancel(j)
  <2>1. JobTypes'
    <3>1. mem' = [mem EXCEPT ![j] = [mem[j] EXCEPT !.asked = TRUE]]
      BY <1>9, <1>0 DEF AskCancel, JobTypes
    <3>2. Notable(j, [mem[j] EXCEPT !.asked = TRUE])
      BY <1>0 DEF Notable, MemType, JobTypes, RowFits
    <3> QED
      BY <3>1, <3>2, <1>9, <1>0, NotesTypes DEF AskCancel, Notes
  <2>2. RecordTypes' /\ ThingTypes'
    BY <1>9, <1>0
    DEF AskCancel, JobTypes, RowFits, RecordTypes, ThingTypes, MemType, Trouble, cluster,
       history, RETRYABLE
  <2> QED
    BY <2>1, <2>2 DEF TypeInv
<1>10. CASE Retry(j)
  <2>1. JobTypes'
    BY <1>10, <1>0
    DEF Retry, JobTypes, RowFits, MemType, NoMem, Steps, StepParts, UndoParts, Notes, Insert,
       RETRYABLE, Free, NoVm
  <2>2. RecordTypes' /\ ThingTypes'
    BY <1>10, <1>0
    DEF Retry, JobTypes, RowFits, RecordTypes, ThingTypes, MemType, Trouble, cluster, RETRYABLE
  <2> QED
    BY <2>1, <2>2 DEF TypeInv
<1> QED
  BY <1>1, <1>2, <1>3, <1>4, <1>5, <1>6, <1>7, <1>8, <1>9, <1>10

LEMMA AroundTypes ==
  ASSUME TypeInv, \/ SweepFails \/ SweepSecret
                  \/ \E b \in Build : \/ Request(b) \/ RequestJob(b) \/ RequestRefused(b)
                                      \/ RequestLinks(b)
                                      \/ ApiDies(b) \/ SweepReads(b) \/ Expire(b)
  PROVE  TypeInv'
<1>0. JobTypes /\ RecordTypes /\ ThingTypes
  BY DEF TypeInv
<1>1. ASSUME NEW b \in Build, Request(b) PROVE TypeInv'
  <2>1. JobTypes'
    BY <1>1, <1>0 DEF Request, JobTypes, RowFits, Insert, Free, jobs
  <2>2. RecordTypes'
    <3>0. b \in Build /\ rec[b] \in RecType
      BY <1>1, <1>0 DEF Request, RecordTypes
    <3>1. ASSUME NEW r, r \in RecType, Record(b, r) PROVE rec' \in [Build -> RecType]
      BY <3>0, <3>1, <1>0, RecordTyped DEF RecordTypes
    <3>2. rec' \in [Build -> RecType]
      BY <1>1, <1>0, <3>0, <3>1 DEF Request, RecType, Opened, NoRec, NoVm, RecordTypes
    <3> QED
      BY <1>1, <1>0, <3>0, <3>2 DEF Request, RecordTypes, Swept
  <2>3. ThingTypes'
    BY <1>1, <1>0 DEF Request, ThingTypes, RecordTypes, RecType, cluster, history
  <2> QED
    BY <2>1, <2>2, <2>3 DEF TypeInv
<1>2. ASSUME NEW b \in Build, RequestJob(b) PROVE TypeInv'
  <2>1. JobTypes'
    <3>1. PICK j \in Job : row[j] = "NONE" /\ Insert(j, b)
      BY <1>2 DEF RequestJob, Insert, Free
    <3>2. ~ mem[j].alive /\ b # Nobody
      BY <3>1, <1>0, ProvisioningAssumption DEF JobTypes, RowFits
    <3> QED
      BY <3>1, <3>2, <1>0 DEF Insert, JobTypes, RowFits
  <2>2. RecordTypes' /\ ThingTypes'
    BY <1>2, <1>0
    DEF RequestJob, RecordTypes, ThingTypes, RecType, NoRec, Swept, Reads, Insert, Free,
       cluster, history, NoVm
  <2> QED
    BY <2>1, <2>2 DEF TypeInv
<1>3. ASSUME NEW b \in Build, RequestRefused(b) PROVE TypeInv'
  <2>1. JobTypes'
    BY <1>3, <1>0 DEF RequestRefused, JobTypes, RowFits, Insert, Free, jobs
  <2>2. RecordTypes' /\ ThingTypes'
    BY <1>3, <1>0
    DEF RequestRefused, RecordTypes, ThingTypes, RecType, NoRec, Record, Swept, Reads, Insert,
       Free, cluster, history, NoVm
  <2> QED
    BY <2>1, <2>2 DEF TypeInv
<1>4. ASSUME NEW b \in Build, RequestLinks(b) PROVE TypeInv'
  <2>1. JobTypes'
    BY <1>4, <1>0 DEF RequestLinks, JobTypes, RowFits, Insert, Free, jobs
  <2>2. RecordTypes'
    <3>0. b \in Build /\ rec[b] \in RecType
      BY <1>4, <1>0 DEF RequestLinks, RecordTypes
    <3>1. ASSUME NEW r, r \in RecType, Record(b, r) PROVE rec' \in [Build -> RecType]
      BY <3>0, <3>1, <1>0, RecordTyped DEF RecordTypes
    <3>2. rec' \in [Build -> RecType]
      BY <1>4, <1>0, <3>0, <3>1 DEF RequestLinks, RecType, Opened, NoRec, NoVm, RecordTypes
    <3> QED
      BY <1>4, <1>0, <3>0, <3>2 DEF RequestLinks, RecordTypes, Swept
  <2>3. ThingTypes'
    BY <1>4, <1>0 DEF RequestLinks, ThingTypes, RecordTypes, RecType, cluster, history
  <2> QED
    BY <2>1, <2>2, <2>3 DEF TypeInv
<1>5. ASSUME NEW b \in Build, ApiDies(b) PROVE TypeInv'
  <2>1. JobTypes'
    BY <1>5, <1>0 DEF ApiDies, JobTypes, RowFits, Insert, Free, jobs
  <2>2. RecordTypes' /\ ThingTypes'
    BY <1>5, <1>0
    DEF ApiDies, RecordTypes, ThingTypes, RecType, NoRec, Swept, Reads, Trouble, Insert, Free,
       cluster, history, NoVm
  <2> QED
    BY <2>1, <2>2 DEF TypeInv
<1>6. ASSUME NEW b \in Build, SweepReads(b) PROVE TypeInv'
  <2>1. JobTypes'
    BY <1>6, <1>0 DEF SweepReads, JobTypes, RowFits, Insert, Free, jobs
  <2>2. RecordTypes' /\ ThingTypes'
    BY <1>6, <1>0
    DEF SweepReads, RecordTypes, ThingTypes, RecType, NoRec, Swept, Reads, Insert, Free,
       cluster, history, NoVm
  <2> QED
    BY <2>1, <2>2 DEF TypeInv
<1>7. ASSUME NEW b \in Build, Expire(b) PROVE TypeInv'
  <2>1. JobTypes'
    BY <1>7, <1>0 DEF Expire, JobTypes, RowFits, Insert, Free, jobs
  <2>2. RecordTypes'
    <3>0. b \in Build /\ rec[b] \in RecType
      BY <1>7, <1>0 DEF Expire, RecordTypes
    <3>1. ASSUME NEW r, r \in RecType, Record(b, r) PROVE rec' \in [Build -> RecType]
      BY <3>0, <3>1, <1>0, RecordTyped DEF RecordTypes
    <3>2. rec' \in [Build -> RecType]
      BY <1>7, <1>0, <3>0, <3>1 DEF Expire, RecType, Opened, NoRec, NoVm, RecordTypes
    <3> QED
      BY <1>7, <1>0, <3>0, <3>2 DEF Expire, RecordTypes, Swept
  <2>3. ThingTypes'
    <3>1. secrets' \subseteq secrets
      BY <1>7 DEF Expire
    <3>2. left' \in [Build -> SUBSET {"vm", "discs", "secret"}]
      <4>1. left' = left \/ left' = [left EXCEPT ![b] = left[b] \union {"secret"}]
        BY <1>7 DEF Expire
      <4> QED
        BY <4>1, <1>7, <1>0 DEF ThingTypes
    <3> QED
      BY <1>7, <1>0, <3>1, <3>2 DEF Expire, ThingTypes, cluster
  <2> QED
    BY <2>1, <2>2, <2>3 DEF TypeInv
<1>8. CASE SweepFails
  <2>1. JobTypes'
    BY <1>8, <1>0 DEF SweepFails, JobTypes, RowFits, Insert, Free, jobs
  <2>2. RecordTypes'
    <3>0. sw.build \in Build /\ rec[sw.build] \in RecType
      BY <1>8, <1>0 DEF SweepFails, RecordTypes
    <3>1. ASSUME NEW r, r \in RecType, Record(sw.build, r) PROVE rec' \in [Build -> RecType]
      BY <3>0, <3>1, <1>0, RecordTyped DEF RecordTypes
    <3>2. rec' \in [Build -> RecType]
      BY <1>8, <1>0, <3>0, <3>1 DEF SweepFails, RecType, Opened, NoRec, NoVm, RecordTypes
    <3> QED
      BY <1>8, <1>0, <3>0, <3>2 DEF SweepFails, RecordTypes, Swept
  <2>3. ThingTypes'
    BY <1>8, <1>0 DEF SweepFails, ThingTypes, RecordTypes, RecType, cluster
  <2> QED
    BY <2>1, <2>2, <2>3 DEF TypeInv
<1>9. CASE SweepSecret
  <2>1. JobTypes'
    BY <1>9, <1>0 DEF SweepSecret, JobTypes, RowFits, Insert, Free, jobs
  <2>2. RecordTypes' /\ ThingTypes'
    BY <1>9, <1>0
    DEF SweepSecret, RecordTypes, ThingTypes, RecType, NoRec, Swept, Reads, Trouble, Insert,
       Free, cluster, NoVm
  <2> QED
    BY <2>1, <2>2 DEF TypeInv
<1> QED
  BY <1>1, <1>2, <1>3, <1>4, <1>5, <1>6, <1>7, <1>8, <1>9

LEMMA InitTypes == Init => TypeInv
<1> SUFFICES ASSUME Init PROVE TypeInv
  OBVIOUS
<1>1. NoMem \in MemType /\ ~ NoMem.alive /\ NoMem.part \notin UndoParts /\ NoMem.ending = "none"
  BY DEF NoMem, MemType, Steps, StepParts, UndoParts, NoVm
<1>2. JobTypes
  BY <1>1 DEF Init, JobTypes, RowFits
<1>3. NoRec \in RecType
  BY DEF NoRec, RecType, NoVm
<1>4. host \in [Build -> Key]
  BY ProvisioningAssumption DEF Init
<1>5. RecordTypes
  BY <1>3, <1>4 DEF Init, RecordTypes, Swept
<1>6. ThingTypes
  BY DEF Init, ThingTypes
<1> QED
  BY <1>2, <1>5, <1>6 DEF TypeInv

LEMMA NextTypes == TypeInv /\ [Next]_vars => TypeInv'
<1>1. ASSUME TypeInv, UNCHANGED vars PROVE TypeInv'
  BY <1>1 DEF vars, jobs, cluster, history, TypeInv, JobTypes, RowFits, RecordTypes, ThingTypes
<1>2. ASSUME TypeInv, NEW j \in Job, Work(j) PROVE TypeInv'
  <2>1. CASE Succeed(j) \/ Abandon(j) \/ End(j)
    BY <1>2, <2>1, RowTypes
  <2>2. CASE ~ (Succeed(j) \/ Abandon(j) \/ End(j))
    BY <1>2, <2>2, StepJobTypes, StepOtherTypes DEF Work, TypeInv
  <2> QED
    BY <2>1, <2>2
<1>3. ASSUME TypeInv, Next PROVE TypeInv'
  BY <1>2, <1>3, RowTypes, AroundTypes DEF Next, Sweep, Ask
<1> QED
  BY <1>1, <1>3

LEMMA TypesHold == Spec => []TypeInv
BY InitTypes, NextTypes, PTL DEF Spec

\* Every variable keeps its type.
THEOREM TypeCorrect == Spec => []TypeOK
<1>1. TypeInv => TypeOK
  BY DEF TypeInv, JobTypes, RecordTypes, RecType, ThingTypes, TypeOK
<1> QED
  BY <1>1, TypesHold, PTL
-----------------------------------------------------------------------------
(* What each step of a run does to its memory *)

Becomes(j, at, part, vmid, cds, cred, done, ending) ==
  /\ mem'[j].at = at /\ mem'[j].part = part /\ mem'[j].vmid = vmid /\ mem'[j].discs = cds
  /\ mem'[j].cred = cred /\ mem'[j].done = done /\ mem'[j].ending = ending
  /\ mem'[j].alive = mem[j].alive
  /\ \A i \in Job : i # j => mem'[i] = mem[i]
  /\ row' = row /\ of' = of
Comes(j, at, part) ==
  Becomes(j, at, part, mem[j].vmid, mem[j].discs, mem[j].cred, mem[j].done, mem[j].ending)
Gives(j, ending) ==
  Becomes(j, mem[j].at, "undo", mem[j].vmid, mem[j].discs, mem[j].cred, mem[j].done, ending)
LEMMA NotesDoes ==
  ASSUME TypeInv, NEW j \in Job, NEW m, Notes(j, m), m.alive = mem[j].alive
  PROVE  Becomes(j, m.at, m.part, m.vmid, m.discs, m.cred, m.done, m.ending)
BY DEF Notes, Becomes, TypeInv, JobTypes

LEMMA IntoDoes ==
  ASSUME TypeInv, NEW j \in Job, NEW part, Into(j, part)
  PROVE  Comes(j, mem[j].at, part)
<1> DEFINE m == [mem[j] EXCEPT !.part = part]
<1>1. Notes(j, m)
  BY DEF Into
<1>2. mem[j] \in MemType
  BY DEF TypeInv, JobTypes
<1>3. /\ m.at = mem[j].at /\ m.part = part /\ m.vmid = mem[j].vmid /\ m.discs = mem[j].discs
      /\ m.cred = mem[j].cred /\ m.done = mem[j].done /\ m.ending = mem[j].ending
      /\ m.alive = mem[j].alive
  BY <1>2 DEF MemType
<1> HIDE DEF m
<1> QED
  BY <1>1, <1>3, NotesDoes DEF Comes

LEMMA FailsDoes ==
  ASSUME TypeInv, NEW j \in Job, Fails(j)
  PROVE  Gives(j, "FAILED")
<1> DEFINE m == [mem[j] EXCEPT !.part = "undo", !.ending = "FAILED"]
<1>1. Notes(j, m)
  BY DEF Fails
<1>2. mem[j] \in MemType
  BY DEF TypeInv, JobTypes
<1>3. /\ m.at = mem[j].at /\ m.part = "undo" /\ m.vmid = mem[j].vmid /\ m.discs = mem[j].discs
      /\ m.cred = mem[j].cred /\ m.done = mem[j].done /\ m.ending = "FAILED"
      /\ m.alive = mem[j].alive
  BY <1>2 DEF MemType
<1> HIDE DEF m
<1> QED
  BY <1>1, <1>3, NotesDoes DEF Gives

LEMMA OnwardDoes ==
  ASSUME TypeInv, NEW j \in Job, Onward(j)
  PROVE  Comes(j, After(mem[j].at), "go")
<1> DEFINE m == [mem[j] EXCEPT !.at = After(mem[j].at), !.part = "go"]
<1>1. Notes(j, m)
  BY DEF Onward, Next1
<1>2. mem[j] \in MemType
  BY DEF TypeInv, JobTypes
<1>3. /\ m.at = After(mem[j].at) /\ m.part = "go" /\ m.vmid = mem[j].vmid
      /\ m.discs = mem[j].discs /\ m.cred = mem[j].cred /\ m.done = mem[j].done
      /\ m.ending = mem[j].ending /\ m.alive = mem[j].alive
  BY <1>2 DEF MemType
<1> HIDE DEF m
<1> QED
  BY <1>1, <1>3, NotesDoes DEF Comes

LEMMA BeginDoes ==
  ASSUME TypeInv, NEW j \in Job, Begin(j)
  PROVE  /\ mem[j].alive /\ mem[j].part = "go" /\ mem[j].at # "over" /\ row[j] = "RUNNING"
         /\ Comes(j, mem[j].at, "on")
BY IntoDoes DEF Begin

LEMMA CheckDoes ==
  ASSUME TypeInv, NEW j \in Job, Check(j)
  PROVE  /\ mem[j].alive /\ mem[j].at = "check" /\ mem[j].part = "on"
         /\ Comes(j, "media", "go") \/ Gives(j, "FAILED")
BY FailsDoes, OnwardDoes, StepAfter DEF Check, At, Doing

LEMMA MediaDoes ==
  ASSUME TypeInv, NEW j \in Job, Media(j)
  PROVE  /\ mem[j].alive /\ mem[j].at = "media" /\ mem[j].part = "on"
         /\ Comes(j, "create", "go") \/ Comes(j, "media", "sent")
<1>0. mem[j] \in MemType
  BY DEF TypeInv, JobTypes
<1>1. mem[j].alive /\ mem[j].at = "media" /\ mem[j].part = "on"
  BY DEF Media, At, Doing
<1> DEFINE m == [mem[j] EXCEPT !.part = "sent", !.upload = TRUE]
<1>2. /\ m.at = mem[j].at /\ m.part = "sent" /\ m.vmid = mem[j].vmid
      /\ m.discs = mem[j].discs /\ m.cred = mem[j].cred /\ m.done = mem[j].done
      /\ m.ending = mem[j].ending /\ m.alive = mem[j].alive
  BY <1>0 DEF MemType
<1>3. Notes(j, m) \/ Onward(j)
  BY DEF Media
<1> HIDE DEF m
<1> QED
  BY <1>1, <1>2, <1>3, NotesDoes, OnwardDoes, StepAfter DEF Comes

LEMMA MediaSentDoes ==
  ASSUME TypeInv, NEW j \in Job, MediaSent(j)
  PROVE  /\ mem[j].alive /\ mem[j].at = "media" /\ mem[j].part = "sent"
         /\ Comes(j, "create", "go")
<1>0. mem[j] \in MemType
  BY DEF TypeInv, JobTypes
<1>1. mem[j].alive /\ mem[j].at = "media" /\ mem[j].part = "sent"
  BY DEF MediaSent, At
<1> DEFINE m == [mem[j] EXCEPT !.upload = FALSE, !.at = "create", !.part = "go"]
<1>2. /\ m.at = "create" /\ m.part = "go" /\ m.vmid = mem[j].vmid
      /\ m.discs = mem[j].discs /\ m.cred = mem[j].cred /\ m.done = mem[j].done
      /\ m.ending = mem[j].ending /\ m.alive = mem[j].alive
  BY <1>0 DEF MemType
<1>3. Notes(j, m)
  <2>1. Next1([mem[j] EXCEPT !.upload = FALSE]) = m
    BY <1>0, <1>1, StepAfter DEF Next1, MemType
  <2> QED
    BY <2>1 DEF MediaSent
<1> HIDE DEF m
<1> QED
  BY <1>1, <1>2, <1>3, NotesDoes DEF Comes

LEMMA NextVmidDoes ==
  ASSUME TypeInv, NEW j \in Job, NextVmid(j)
  PROVE  /\ mem[j].alive /\ mem[j].at = "create" /\ mem[j].part = "on"
         /\ Comes(j, "create", "post")
<1>0. mem[j] \in MemType
  BY DEF TypeInv, JobTypes
<1>1. mem[j].alive /\ mem[j].at = "create" /\ mem[j].part = "on"
  BY DEF NextVmid, At, Doing
<1> DEFINE m(v) == [mem[j] EXCEPT !.part = "post", !.next = v]
<1>2. ASSUME NEW v
      PROVE  /\ m(v).at = mem[j].at /\ m(v).part = "post" /\ m(v).vmid = mem[j].vmid
             /\ m(v).discs = mem[j].discs /\ m(v).cred = mem[j].cred /\ m(v).done = mem[j].done
             /\ m(v).ending = mem[j].ending /\ m(v).alive = mem[j].alive
  BY <1>0 DEF MemType
<1>3. \E v \in Vmid : Notes(j, m(v))
  BY DEF NextVmid
<1> HIDE DEF m
<1> QED
  BY <1>1, <1>2, <1>3, NotesDoes DEF Comes

LEMMA PostDoes ==
  ASSUME TypeInv, NEW j \in Job, Post(j)
  PROVE  /\ mem[j].alive /\ mem[j].at = "create" /\ mem[j].part = "post"
         /\ \/ Gives(j, "FAILED") /\ vms' = vms
            \/ \E v \in Vmid :
                 /\ vms[v] = Nobody /\ vms' = [vms EXCEPT ![v] = of[j]]
                 /\ Becomes(j, "create", "made", v, mem[j].discs, mem[j].cred, mem[j].done,
                            mem[j].ending)
<1>0. mem[j] \in MemType
  BY DEF TypeInv, JobTypes
<1>1. mem[j].alive /\ mem[j].at = "create" /\ mem[j].part = "post"
  BY DEF Post, At, Posts
<1> DEFINE m(v) == [mem[j] EXCEPT !.part = "made", !.next = NoVm, !.vmid = v]
<1>2. ASSUME NEW v
      PROVE  /\ m(v).at = mem[j].at /\ m(v).part = "made" /\ m(v).vmid = v
             /\ m(v).discs = mem[j].discs /\ m(v).cred = mem[j].cred /\ m(v).done = mem[j].done
             /\ m(v).ending = mem[j].ending /\ m(v).alive = mem[j].alive
  BY <1>0 DEF MemType
<1>3. \/ Fails(j) /\ vms' = vms
      \/ \E v \in Vmid :
           /\ vms[v] = Nobody /\ vms' = [vms EXCEPT ![v] = of[j]]
           /\ Notes(j, m(v))
  BY DEF Post, B
<1> HIDE DEF m
<1>4. ASSUME NEW v, Notes(j, m(v))
      PROVE  Becomes(j, "create", "made", v, mem[j].discs, mem[j].cred, mem[j].done,
                     mem[j].ending)
  <2>1. m(v).alive = mem[j].alive
    BY <1>2
  <2>2. Becomes(j, m(v).at, m(v).part, m(v).vmid, m(v).discs, m(v).cred, m(v).done,
                m(v).ending)
    BY <1>4, <2>1, NotesDoes
  <2> QED
    BY <1>1, <1>2, <2>2
<1> QED
  BY <1>1, <1>3, <1>4, FailsDoes

LEMMA PostUnansweredDoes ==
  ASSUME TypeInv, NEW j \in Job, PostUnanswered(j)
  PROVE  /\ mem[j].alive /\ mem[j].at = "create" /\ mem[j].part = "post"
         /\ Gives(j, "FAILED")
BY FailsDoes DEF PostUnanswered, At, Posts

LEMMA MadeDoes ==
  ASSUME TypeInv, NEW j \in Job, Made(j)
  PROVE  /\ mem[j].alive /\ mem[j].at = "create" /\ mem[j].part = "made"
         /\ Comes(j, "answers", "go")
BY OnwardDoes, StepAfter DEF Made, At

LEMMA StoreSecretDoes ==
  ASSUME TypeInv, NEW j \in Job, StoreSecret(j)
  PROVE  /\ mem[j].alive /\ mem[j].at = "answers" /\ mem[j].part = "on"
         /\ Becomes(j, "answers", "stored", mem[j].vmid, mem[j].discs, j, mem[j].done,
                    mem[j].ending)
<1>0. mem[j] \in MemType
  BY DEF TypeInv, JobTypes
<1>1. mem[j].alive /\ mem[j].at = "answers" /\ mem[j].part = "on"
  BY DEF StoreSecret, At, Doing
<1> DEFINE m == [mem[j] EXCEPT !.part = "stored", !.cred = j]
<1>2. /\ m.at = mem[j].at /\ m.part = "stored" /\ m.vmid = mem[j].vmid
      /\ m.discs = mem[j].discs /\ m.cred = j /\ m.done = mem[j].done
      /\ m.ending = mem[j].ending /\ m.alive = mem[j].alive
  BY <1>0 DEF MemType
<1>3. Notes(j, m)
  BY DEF StoreSecret
<1> HIDE DEF m
<1> QED
  BY <1>1, <1>2, <1>3, NotesDoes

LEMMA NameSecretDoes ==
  ASSUME TypeInv, NEW j \in Job, NameSecret(j)
  PROVE  /\ mem[j].alive /\ mem[j].at = "answers" /\ mem[j].part = "stored"
         /\ Becomes(j, "answers", "answers", mem[j].vmid, {"answers"}, mem[j].cred,
                    mem[j].done, mem[j].ending)
<1>0. mem[j] \in MemType
  BY DEF TypeInv, JobTypes
<1>1. mem[j].alive /\ mem[j].at = "answers" /\ mem[j].part = "stored"
  BY DEF NameSecret, At
<1> DEFINE m == [mem[j] EXCEPT !.part = "answers", !.discs = {"answers"}]
<1>2. /\ m.at = mem[j].at /\ m.part = "answers" /\ m.vmid = mem[j].vmid
      /\ m.discs = {"answers"} /\ m.cred = mem[j].cred /\ m.done = mem[j].done
      /\ m.ending = mem[j].ending /\ m.alive = mem[j].alive
  BY <1>0 DEF MemType
<1>3. Notes(j, m)
  BY DEF NameSecret
<1> HIDE DEF m
<1> QED
  BY <1>1, <1>2, <1>3, NotesDoes

LEMMA SendDiscDoes ==
  ASSUME TypeInv, NEW j \in Job, SendDisc(j)
  PROVE  /\ mem[j].alive /\ mem[j].at = "answers" /\ mem[j].part \in Disc
         /\ \/ Comes(j, "install", "go")
            \/ Becomes(j, "answers", "packages", mem[j].vmid, Disc, mem[j].cred, mem[j].done,
                       mem[j].ending)
<1>0. mem[j] \in MemType
  BY DEF TypeInv, JobTypes
<1>1. mem[j].alive /\ mem[j].at = "answers" /\ mem[j].part \in Disc
  BY DEF SendDisc, At, Disc
<1> DEFINE m == [mem[j] EXCEPT !.part = "packages", !.discs = Disc]
<1>2. /\ m.at = mem[j].at /\ m.part = "packages" /\ m.vmid = mem[j].vmid /\ m.discs = Disc
      /\ m.cred = mem[j].cred /\ m.done = mem[j].done /\ m.ending = mem[j].ending
      /\ m.alive = mem[j].alive
  BY <1>0 DEF MemType
<1>3. Notes(j, m) \/ Onward(j)
  BY DEF SendDisc
<1> HIDE DEF m
<1> QED
  BY <1>1, <1>2, <1>3, NotesDoes, OnwardDoes, StepAfter DEF Comes

LEMMA InstallDoes ==
  ASSUME TypeInv, NEW j \in Job, Install(j)
  PROVE  /\ mem[j].alive /\ mem[j].at = "install" /\ mem[j].part = "on"
         /\ Comes(j, "packages", "go")
BY OnwardDoes, StepAfter DEF Install, At, Doing

LEMMA PackagesDoes ==
  ASSUME TypeInv, NEW j \in Job, Packages(j)
  PROVE  /\ mem[j].alive /\ mem[j].at = "packages" /\ mem[j].part = "on"
         /\ Comes(j, "finish", "go") \/ Gives(j, "FAILED")
BY FailsDoes, OnwardDoes, StepAfter DEF Packages, At, Doing

LEMMA DeleteAnswersDoes ==
  ASSUME TypeInv, NEW j \in Job, DeleteAnswers(j)
  PROVE  /\ mem[j].alive /\ mem[j].at = "finish" /\ mem[j].part = "on"
         /\ Becomes(j, "finish", "packages", mem[j].vmid, mem[j].discs \ {"answers"},
                    mem[j].cred, mem[j].done, mem[j].ending)
<1>0. mem[j] \in MemType
  BY DEF TypeInv, JobTypes
<1>1. mem[j].alive /\ mem[j].at = "finish" /\ mem[j].part = "on"
  BY DEF DeleteAnswers, At, Doing
<1> DEFINE m == [mem[j] EXCEPT !.part = "packages", !.discs = @ \ {"answers"}]
<1>2. /\ m.at = mem[j].at /\ m.part = "packages" /\ m.vmid = mem[j].vmid
      /\ m.discs = mem[j].discs \ {"answers"} /\ m.cred = mem[j].cred
      /\ m.done = mem[j].done /\ m.ending = mem[j].ending /\ m.alive = mem[j].alive
  BY <1>0 DEF MemType
<1>3. Notes(j, m)
  BY DEF DeleteAnswers
<1> HIDE DEF m
<1> QED
  BY <1>1, <1>2, <1>3, NotesDoes

LEMMA DeletePackagesDoes ==
  ASSUME TypeInv, NEW j \in Job, DeletePackages(j)
  PROVE  /\ mem[j].alive /\ mem[j].at = "finish" /\ mem[j].part = "packages"
         /\ Becomes(j, "finish", "write", mem[j].vmid, {}, mem[j].cred, TRUE, mem[j].ending)
<1>0. mem[j] \in MemType
  BY DEF TypeInv, JobTypes
<1>1. mem[j].alive /\ mem[j].at = "finish" /\ mem[j].part = "packages"
  BY DEF DeletePackages, At
<1> DEFINE m == [mem[j] EXCEPT !.part = "write", !.discs = {}, !.done = TRUE]
<1>2. /\ m.at = mem[j].at /\ m.part = "write" /\ m.vmid = mem[j].vmid /\ m.discs = {}
      /\ m.cred = mem[j].cred /\ m.done = TRUE /\ m.ending = mem[j].ending
      /\ m.alive = mem[j].alive
  BY <1>0 DEF MemType
<1>3. Notes(j, m)
  BY DEF DeletePackages
<1> HIDE DEF m
<1> QED
  BY <1>1, <1>2, <1>3, NotesDoes

LEMMA WriteSuccessDoes ==
  ASSUME TypeInv, NEW j \in Job, WriteSuccess(j)
  PROVE  /\ mem[j].alive /\ mem[j].at = "finish" /\ mem[j].part = "write"
         /\ Comes(j, "over", "go")
BY OnwardDoes, StepAfter DEF WriteSuccess, At

LEMMA StepFailsDoes ==
  ASSUME TypeInv, NEW j \in Job, StepFails(j)
  PROVE  /\ mem[j].alive /\ mem[j].ending = "none" /\ mem[j].part # "go"
         /\ Gives(j, "FAILED")
BY FailsDoes DEF StepFails, At, Working

LEMMA CancelledDoes ==
  ASSUME TypeInv, NEW j \in Job, Cancelled(j)
  PROVE  /\ mem[j].alive /\ mem[j].ending = "none" /\ row[j] = "RUNNING"
         /\ Gives(j, "CANCELLED")
<1>0. mem[j] \in MemType
  BY DEF TypeInv, JobTypes
<1>1. mem[j].alive /\ mem[j].ending = "none" /\ row[j] = "RUNNING"
  BY DEF Cancelled, At, Doing, Working
<1> DEFINE m == [mem[j] EXCEPT !.part = "undo", !.ending = "CANCELLED"]
<1>2. /\ m.at = mem[j].at /\ m.part = "undo" /\ m.vmid = mem[j].vmid
      /\ m.discs = mem[j].discs /\ m.cred = mem[j].cred /\ m.done = mem[j].done
      /\ m.ending = "CANCELLED" /\ m.alive = mem[j].alive
  BY <1>0 DEF MemType
<1>3. Notes(j, m)
  BY DEF Cancelled
<1> HIDE DEF m
<1> QED
  BY <1>1, <1>2, <1>3, NotesDoes DEF Gives

LEMMA UndoVmDoes ==
  ASSUME TypeInv, NEW j \in Job, UndoVm(j)
  PROVE  /\ mem[j].alive /\ mem[j].part = "undo"
         /\ Comes(j, mem[j].at, IF mem[j].done THEN "end" ELSE "discs")
BY IntoDoes DEF UndoVm, Undoing

LEMMA UndoVmFailsDoes ==
  ASSUME TypeInv, NEW j \in Job, UndoVmFails(j)
  PROVE  /\ mem[j].alive /\ mem[j].part = "undo" /\ ~ mem[j].done
         /\ Comes(j, mem[j].at, "discs")
<1>0. mem[j] \in MemType
  BY DEF TypeInv, JobTypes
<1>1. mem[j].alive /\ mem[j].part = "undo" /\ ~ mem[j].done
  BY DEF UndoVmFails, Undoing
<1> DEFINE m == [mem[j] EXCEPT !.part = "discs", !.problem = TRUE]
<1>2. /\ m.at = mem[j].at /\ m.part = "discs" /\ m.vmid = mem[j].vmid
      /\ m.discs = mem[j].discs /\ m.cred = mem[j].cred /\ m.done = mem[j].done
      /\ m.ending = mem[j].ending /\ m.alive = mem[j].alive
  BY <1>0 DEF MemType
<1>3. Notes(j, m)
  BY DEF UndoVmFails
<1> HIDE DEF m
<1> QED
  BY <1>1, <1>2, <1>3, NotesDoes DEF Comes

LEMMA UndoDiscsDoes ==
  ASSUME TypeInv, NEW j \in Job, UndoDiscs(j)
  PROVE  /\ mem[j].alive /\ mem[j].part = "discs"
         /\ Comes(j, mem[j].at, "secret")
BY IntoDoes DEF UndoDiscs, Undoing

LEMMA UndoDiscsFailsDoes ==
  ASSUME TypeInv, NEW j \in Job, UndoDiscsFails(j)
  PROVE  /\ mem[j].alive /\ mem[j].part = "discs"
         /\ Comes(j, mem[j].at, "secret")
<1>0. mem[j] \in MemType
  BY DEF TypeInv, JobTypes
<1>1. mem[j].alive /\ mem[j].part = "discs"
  BY DEF UndoDiscsFails, Undoing
<1> DEFINE m == [mem[j] EXCEPT !.part = "secret", !.problem = TRUE]
<1>2. /\ m.at = mem[j].at /\ m.part = "secret" /\ m.vmid = mem[j].vmid
      /\ m.discs = mem[j].discs /\ m.cred = mem[j].cred /\ m.done = mem[j].done
      /\ m.ending = mem[j].ending /\ m.alive = mem[j].alive
  BY <1>0 DEF MemType
<1>3. Notes(j, m)
  BY DEF UndoDiscsFails
<1> HIDE DEF m
<1> QED
  BY <1>1, <1>2, <1>3, NotesDoes DEF Comes

LEMMA UndoSecretDoes ==
  ASSUME TypeInv, NEW j \in Job, UndoSecret(j)
  PROVE  /\ mem[j].alive /\ mem[j].part = "secret"
         /\ Comes(j, mem[j].at, "record")
BY IntoDoes DEF UndoSecret, Undoing

LEMMA UndoRecordDoes ==
  ASSUME TypeInv, NEW j \in Job, UndoRecord(j)
  PROVE  /\ mem[j].alive /\ mem[j].part = "record"
         /\ Comes(j, mem[j].at, "end")
BY IntoDoes DEF UndoRecord, Undoing

-----------------------------------------------------------------------------
(* Whose VM is whose *)

\* Before a VM of a run's is there, it has none; its CDs and its credential come after; and
\* of what is done nothing is undone.
Early(m) ==
  /\ m.ending = "none"
  /\ m.at \in {"check", "media"} \/ (m.at = "create" /\ m.part # "made")
Building == {"check", "media", "create"}
Fits(j, m) ==
  /\ ~ m.alive => m.at = "check" /\ m.part = "go" /\ ~ m.done
  /\ Early(m) => m.vmid = NoVm
  /\ m.vmid = NoVm => m.at \in Building /\ m.part # "made"
  /\ m.cred \in {NoJob, j}
  /\ m.at \in Building => m.discs = {} /\ m.cred = NoJob
  /\ m.at = "answers" /\ m.part \in {"go", "on", "stored"} => m.discs = {}
  /\ m.at = "answers" /\ m.part = "answers" => "answers" \in m.discs
  /\ m.at = "answers" /\ m.part = "packages" => m.discs = Disc
  /\ m.done => /\ m.discs = {} /\ m.at \in {"finish", "over"}
               /\ m.part \notin {"discs", "secret", "record"}
MemFits == \A j \in Job : Fits(j, mem[j])

\* The VM of a run that knows of one, and has not undone it, is of its build and of no other run.
Past == {"discs", "secret", "record", "end"}
Owns(m) == m.alive /\ m.vmid # NoVm /\ (m.part \in Past => m.done)
OwnVms ==
  /\ \A j \in Job : Owns(mem[j]) => vms[mem[j].vmid] = of[j]
  /\ \A i, j \in Job : Owns(mem[i]) /\ Owns(mem[j]) /\ mem[i].vmid = mem[j].vmid => i = j

OwnInv == TypeInv /\ MemFits /\ OwnVms

LEMMA NoVmIsNone == NoVm \notin Vmid
BY ProvisioningAssumption DEF NoVm, Vmid

LEMMA StepFits ==
  ASSUME TypeInv, MemFits, NEW j \in Job,
         \/ Begin(j)
         \/ Check(j)
         \/ Media(j)
         \/ MediaSent(j)
         \/ NextVmid(j)
         \/ Post(j)
         \/ PostUnanswered(j)
         \/ Made(j)
         \/ StoreSecret(j)
         \/ NameSecret(j)
         \/ SendDisc(j)
         \/ Install(j)
         \/ Packages(j)
         \/ DeleteAnswers(j)
         \/ DeletePackages(j)
         \/ WriteSuccess(j)
         \/ StepFails(j)
         \/ Cancelled(j)
         \/ UndoVm(j)
         \/ UndoVmFails(j)
         \/ UndoDiscs(j)
         \/ UndoDiscsFails(j)
         \/ UndoSecret(j)
         \/ UndoRecord(j)
  PROVE  MemFits'
<1>0. Fits(j, mem[j]) /\ (mem[j].part \in UndoParts <=> mem[j].ending # "none")
      /\ mem[j].discs \subseteq Disc
  BY DEF TypeInv, JobTypes, RowFits, MemFits, MemType
<1>1. Fits(j, mem[j])' /\ (\A i \in Job : i # j => mem'[i] = mem[i]) => MemFits'
  BY DEF MemFits
<1>2. CASE Begin(j)
  BY <1>2, <1>0, <1>1, BeginDoes DEF Becomes, Comes, Fits, Early, Building, UndoParts
<1>3. CASE Check(j)
  BY <1>3, <1>0, <1>1, CheckDoes DEF Becomes, Comes, Gives, Fits, Early, Building, UndoParts
<1>4. CASE Media(j)
  BY <1>4, <1>0, <1>1, MediaDoes DEF Becomes, Comes, Fits, Early, Building, UndoParts
<1>5. CASE MediaSent(j)
  BY <1>5, <1>0, <1>1, MediaSentDoes DEF Becomes, Comes, Fits, Early, Building, UndoParts
<1>6. CASE NextVmid(j)
  BY <1>6, <1>0, <1>1, NextVmidDoes DEF Becomes, Comes, Fits, Early, Building, UndoParts
<1>7. CASE Post(j)
  BY <1>7, <1>0, <1>1, PostDoes, NoVmIsNone DEF Becomes, Gives, Fits, Early, Building, UndoParts
<1>8. CASE PostUnanswered(j)
  BY <1>8, <1>0, <1>1, PostUnansweredDoes DEF Becomes, Gives, Fits, Early, Building, UndoParts
<1>9. CASE Made(j)
  BY <1>9, <1>0, <1>1, MadeDoes DEF Becomes, Comes, Fits, Early, Building, UndoParts
<1>10. CASE StoreSecret(j)
  BY <1>10, <1>0, <1>1, StoreSecretDoes DEF Becomes, Fits, Early, Building, UndoParts
<1>11. CASE NameSecret(j)
  BY <1>11, <1>0, <1>1, NameSecretDoes DEF Becomes, Fits, Early, Building, UndoParts, Disc
<1>12. CASE SendDisc(j)
  BY <1>12, <1>0, <1>1, SendDiscDoes DEF Becomes, Comes, Fits, Early, Building, UndoParts, Disc
<1>13. CASE Install(j)
  BY <1>13, <1>0, <1>1, InstallDoes DEF Becomes, Comes, Fits, Early, Building, UndoParts
<1>14. CASE Packages(j)
  BY <1>14, <1>0, <1>1, PackagesDoes DEF Becomes, Comes, Gives, Fits, Early, Building, UndoParts
<1>15. CASE DeleteAnswers(j)
  BY <1>15, <1>0, <1>1, DeleteAnswersDoes DEF Becomes, Fits, Early, Building, UndoParts, Disc
<1>16. CASE DeletePackages(j)
  BY <1>16, <1>0, <1>1, DeletePackagesDoes DEF Becomes, Fits, Early, Building, UndoParts
<1>17. CASE WriteSuccess(j)
  BY <1>17, <1>0, <1>1, WriteSuccessDoes DEF Becomes, Comes, Fits, Early, Building, UndoParts
<1>18. CASE StepFails(j)
  BY <1>18, <1>0, <1>1, StepFailsDoes DEF Becomes, Gives, Fits, Early, Building, UndoParts
<1>19. CASE Cancelled(j)
  BY <1>19, <1>0, <1>1, CancelledDoes DEF Becomes, Gives, Fits, Early, Building, UndoParts
<1>20. CASE UndoVm(j)
  BY <1>20, <1>0, <1>1, UndoVmDoes DEF Becomes, Comes, Fits, Early, Building, UndoParts
<1>21. CASE UndoVmFails(j)
  BY <1>21, <1>0, <1>1, UndoVmFailsDoes DEF Becomes, Comes, Fits, Early, Building, UndoParts
<1>22. CASE UndoDiscs(j)
  BY <1>22, <1>0, <1>1, UndoDiscsDoes DEF Becomes, Comes, Fits, Early, Building, UndoParts, Disc
<1>23. CASE UndoDiscsFails(j)
  BY <1>23, <1>0, <1>1, UndoDiscsFailsDoes
  DEF Becomes, Comes, Fits, Early, Building, UndoParts, Disc
<1>24. CASE UndoSecret(j)
  BY <1>24, <1>0, <1>1, UndoSecretDoes DEF Becomes, Comes, Fits, Early, Building, UndoParts
<1>25. CASE UndoRecord(j)
  BY <1>25, <1>0, <1>1, UndoRecordDoes DEF Becomes, Comes, Fits, Early, Building, UndoParts
<1> QED
  BY <1>2, <1>3, <1>4, <1>5, <1>6, <1>7, <1>8, <1>9, <1>10, <1>11, <1>12, <1>13, <1>14, <1>15,
     <1>16, <1>17, <1>18, <1>19, <1>20, <1>21, <1>22, <1>23, <1>24, <1>25

LEMMA ClaimDoes ==
  ASSUME TypeInv, NEW j \in Job, Claim(j)
  PROVE  /\ row[j] = "QUEUED" /\ ~ mem[j].alive /\ mem'[j].alive
         /\ mem'[j] = [mem[j] EXCEPT !.alive = TRUE]
         /\ mem'[j].at = mem[j].at /\ mem'[j].part = mem[j].part /\ mem'[j].vmid = mem[j].vmid
         /\ mem'[j].discs = mem[j].discs /\ mem'[j].cred = mem[j].cred
         /\ mem'[j].done = mem[j].done /\ mem'[j].ending = mem[j].ending
         /\ \A i \in Job : i # j => mem'[i] = mem[i]
         /\ row' = [row EXCEPT ![j] = "RUNNING"] /\ of' = of
<1>0. mem[j] \in MemType /\ mem \in [Job -> MemType] /\ RowFits(j)
  BY DEF TypeInv, JobTypes
<1>1. mem'[j] = [mem[j] EXCEPT !.alive = TRUE] /\ \A i \in Job : i # j => mem'[i] = mem[i]
  BY <1>0 DEF Claim
<1> DEFINE m == [mem[j] EXCEPT !.alive = TRUE]
<1>2. /\ m.at = mem[j].at /\ m.part = mem[j].part /\ m.vmid = mem[j].vmid
      /\ m.discs = mem[j].discs /\ m.cred = mem[j].cred /\ m.done = mem[j].done
      /\ m.ending = mem[j].ending /\ m.alive
  BY <1>0 DEF MemType
<1> QED
  BY <1>0, <1>1, <1>2 DEF Claim, RowFits

LEMMA AskCancelDoes ==
  ASSUME TypeInv, NEW j \in Job, AskCancel(j)
  PROVE  Comes(j, mem[j].at, mem[j].part)
<1>0. mem[j] \in MemType /\ mem \in [Job -> MemType]
  BY DEF TypeInv, JobTypes
<1> DEFINE m == [mem[j] EXCEPT !.asked = TRUE]
<1>1. Notes(j, m)
  BY <1>0 DEF AskCancel, Notes
<1>2. /\ m.at = mem[j].at /\ m.part = mem[j].part /\ m.vmid = mem[j].vmid
      /\ m.discs = mem[j].discs /\ m.cred = mem[j].cred /\ m.done = mem[j].done
      /\ m.ending = mem[j].ending /\ m.alive = mem[j].alive
  BY <1>0 DEF MemType
<1> HIDE DEF m
<1> QED
  BY <1>1, <1>2, NotesDoes DEF Comes

\* A worker is gone, by its end or before it.
Goes(j) == WorkerDies(j) \/ Abandon(j) \/ Succeed(j) \/ End(j)
LEMMA GoesDoes ==
  ASSUME TypeInv, NEW j \in Job, Goes(j)
  PROVE  /\ mem[j].alive /\ mem'[j] = NoMem /\ \A i \in Job : i # j => mem'[i] = mem[i]
         /\ of' = of /\ vms' = vms /\ \A i \in Job : i # j => row'[i] = row[i]
BY DEF Goes, WorkerDies, Abandon, Succeed, End, At, Undoing, cluster, TypeInv, JobTypes

LEMMA OtherFits ==
  ASSUME TypeInv, MemFits,
         \/ \E j \in Job : Claim(j) \/ AskCancel(j) \/ Goes(j)
         \/ mem' = mem
  PROVE  MemFits'
<1>1. ASSUME NEW j \in Job, Claim(j) PROVE MemFits'
  <2>1. Fits(j, mem[j])
    BY DEF MemFits
  <2>2. Fits(j, mem[j])'
    BY <1>1, <2>1, ClaimDoes DEF Fits, Early, Building
  <2>3. \A i \in Job : i # j => mem'[i] = mem[i]
    BY <1>1, ClaimDoes
  <2> QED
    BY <2>2, <2>3 DEF MemFits
<1>2. ASSUME NEW j \in Job, AskCancel(j) PROVE MemFits'
  <2>1. Fits(j, mem[j])
    BY DEF MemFits
  <2>2. Fits(j, mem[j])'
    BY <1>2, <2>1, AskCancelDoes DEF Comes, Becomes, Fits, Early, Building
  <2> QED
    BY <1>2, <2>2, AskCancelDoes DEF Comes, Becomes, MemFits
<1>3. ASSUME NEW j \in Job, Goes(j) PROVE MemFits'
  <2>1. Fits(j, NoMem)
    BY DEF Fits, NoMem, Early, Building, Disc
  <2> QED
    BY <1>3, <2>1, GoesDoes DEF MemFits
<1>4. CASE mem' = mem
  BY <1>4 DEF MemFits
<1> QED
  BY <1>1, <1>2, <1>3, <1>4

\* What the actions of others leave alone.
LEMMA OthersDo ==
  ASSUME TypeInv,
         \/ \E b \in Build : Request(b) \/ Ask(b) \/ ApiDies(b)
         \/ \E j \in Job : Reconcile(j) \/ Stall(j) \/ CancelQueued(j) \/ Retry(j)
         \/ Sweep
  PROVE  /\ mem' = mem /\ vms' = vms /\ discs' = discs
         /\ \A j \in Job : of[j] # Nobody => of'[j] = of[j]
<1>1. \A j \in Job, b \in Build : Insert(j, b) =>
        mem' = mem /\ \A i \in Job : of[i] # Nobody => of'[i] = of[i]
  BY DEF Insert, Free, TypeInv, JobTypes, RowFits
<1>2. ASSUME NEW b \in Build, Request(b) \/ Ask(b) \/ ApiDies(b)
      PROVE  /\ mem' = mem /\ vms' = vms /\ discs' = discs
             /\ \A j \in Job : of[j] # Nobody => of'[j] = of[j]
  BY <1>1, <1>2
  DEF Request, Ask, RequestJob, RequestRefused, RequestLinks, ApiDies, jobs, cluster
<1>3. ASSUME NEW j \in Job, Reconcile(j) \/ Stall(j) \/ CancelQueued(j)
      PROVE  /\ mem' = mem /\ vms' = vms /\ discs' = discs
             /\ \A i \in Job : of[i] # Nobody => of'[i] = of[i]
  BY <1>3 DEF Reconcile, Stall, CancelQueued, cluster
<1>4. ASSUME NEW j \in Job, Retry(j)
      PROVE  /\ mem' = mem /\ vms' = vms /\ discs' = discs
             /\ \A i \in Job : of[i] # Nobody => of'[i] = of[i]
  <2>1. of[j] \in Build
    BY <1>4 DEF Retry, RETRYABLE, TypeInv, JobTypes, RowFits
  <2> QED
    BY <1>1, <1>4, <2>1 DEF Retry, cluster
<1>5. CASE Sweep
  BY <1>5 DEF Sweep, SweepReads, Expire, SweepFails, SweepSecret, jobs, cluster
<1> QED
  BY <1>2, <1>3, <1>4, <1>5

\* The VMs of the runs that go on are still there, and none has a new one.
LEMMA OwnVmsKept ==
  ASSUME OwnVms,
         \A i \in Job : Owns(mem[i])' =>
           /\ Owns(mem[i]) /\ mem'[i].vmid = mem[i].vmid /\ of'[i] = of[i]
           /\ vms'[mem[i].vmid] = vms[mem[i].vmid]
  PROVE  OwnVms'
BY DEF OwnVms

LEMMA StepOwns ==
  ASSUME OwnInv, NEW j \in Job,
         \/ Begin(j)
         \/ Check(j)
         \/ Media(j)
         \/ MediaSent(j)
         \/ NextVmid(j)
         \/ Post(j)
         \/ PostUnanswered(j)
         \/ Made(j)
         \/ StoreSecret(j)
         \/ NameSecret(j)
         \/ SendDisc(j)
         \/ Install(j)
         \/ Packages(j)
         \/ DeleteAnswers(j)
         \/ DeletePackages(j)
         \/ WriteSuccess(j)
         \/ StepFails(j)
         \/ Cancelled(j)
         \/ UndoVm(j)
         \/ UndoVmFails(j)
         \/ UndoDiscs(j)
         \/ UndoDiscsFails(j)
         \/ UndoSecret(j)
         \/ UndoRecord(j)
  PROVE  OwnVms'
<1>0. /\ TypeInv /\ MemFits /\ OwnVms /\ Fits(j, mem[j])
      /\ \A i \in Job : Owns(mem[i]) => of[i] # Nobody /\ mem[i].vmid \in Vmid
      /\ vms \in [Vmid -> Build \union {Nobody}] /\ (mem[j].alive => of[j] \in Build)
      /\ mem[j].part \in Past => mem[j].ending # "none"
  BY DEF OwnInv, MemFits, TypeInv, JobTypes, RowFits, MemType, Owns, ThingTypes, Past, UndoParts
<1>1. /\ \A i \in Job : i # j => mem'[i] = mem[i]
      /\ of' = of /\ vms' = vms
      /\ Owns(mem[j])' => Owns(mem[j]) /\ mem'[j].vmid = mem[j].vmid
      => OwnVms'
  BY <1>0, OwnVmsKept
<1>2. CASE Begin(j)
  BY <1>2, <1>0, <1>1, BeginDoes DEF Begin, cluster, Becomes, Comes, Owns, Past
<1>3. CASE Check(j)
  BY <1>3, <1>0, <1>1, CheckDoes DEF Check, cluster, Becomes, Comes, Gives, Owns, Past
<1>4. CASE Media(j)
  BY <1>4, <1>0, <1>1, MediaDoes DEF Media, cluster, Becomes, Comes, Owns, Past
<1>5. CASE MediaSent(j)
  BY <1>5, <1>0, <1>1, MediaSentDoes DEF MediaSent, Becomes, Comes, Owns, Past
<1>6. CASE NextVmid(j)
  BY <1>6, <1>0, <1>1, NextVmidDoes DEF NextVmid, cluster, Becomes, Comes, Owns, Past
<1>7. CASE Made(j)
  BY <1>7, <1>0, <1>1, MadeDoes DEF Made, cluster, Becomes, Comes, Owns, Past
<1>8. CASE StoreSecret(j)
  BY <1>8, <1>0, <1>1, StoreSecretDoes DEF StoreSecret, cluster, Becomes, Owns, Past
<1>9. CASE NameSecret(j)
  BY <1>9, <1>0, <1>1, NameSecretDoes DEF NameSecret, cluster, Becomes, Owns, Past
<1>10. CASE SendDisc(j)
  BY <1>10, <1>0, <1>1, SendDiscDoes DEF SendDisc, Becomes, Comes, Owns, Past, Disc
<1>11. CASE Install(j)
  BY <1>11, <1>0, <1>1, InstallDoes DEF Install, cluster, Becomes, Comes, Owns, Past
<1>12. CASE Packages(j)
  BY <1>12, <1>0, <1>1, PackagesDoes DEF Packages, cluster, Becomes, Comes, Gives, Owns, Past
<1>13. CASE DeleteAnswers(j)
  BY <1>13, <1>0, <1>1, DeleteAnswersDoes DEF DeleteAnswers, Becomes, Owns, Past
<1>14. CASE DeletePackages(j)
  BY <1>14, <1>0, <1>1, DeletePackagesDoes DEF DeletePackages, Becomes, Owns, Past
<1>15. CASE WriteSuccess(j)
  BY <1>15, <1>0, <1>1, WriteSuccessDoes DEF WriteSuccess, cluster, Becomes, Comes, Owns, Past
<1>16. CASE StepFails(j)
  BY <1>16, <1>0, <1>1, StepFailsDoes DEF StepFails, Becomes, Gives, Owns, Past
<1>17. CASE Cancelled(j)
  BY <1>17, <1>0, <1>1, CancelledDoes DEF Cancelled, cluster, Becomes, Gives, Owns, Past
<1>18. CASE UndoVmFails(j)
  BY <1>18, <1>0, <1>1, UndoVmFailsDoes DEF UndoVmFails, cluster, Becomes, Comes, Owns, Past
<1>19. CASE UndoDiscs(j)
  BY <1>19, <1>0, <1>1, UndoDiscsDoes DEF UndoDiscs, Becomes, Comes, Owns, Past
<1>20. CASE UndoDiscsFails(j)
  BY <1>20, <1>0, <1>1, UndoDiscsFailsDoes
  DEF UndoDiscsFails, cluster, Becomes, Comes, Owns, Past
<1>21. CASE UndoSecret(j)
  BY <1>21, <1>0, <1>1, UndoSecretDoes DEF UndoSecret, cluster, Becomes, Comes, Owns, Past
<1>22. CASE UndoRecord(j)
  BY <1>22, <1>0, <1>1, UndoRecordDoes DEF UndoRecord, cluster, Becomes, Comes, Owns, Past
<1>23. CASE Post(j)
  <2>1. CASE Gives(j, "FAILED") /\ vms' = vms
    BY <2>1, <1>23, <1>0, <1>1, PostDoes DEF Gives, Becomes, Owns, Past
  <2>2. ASSUME NEW v \in Vmid, vms[v] = Nobody, vms' = [vms EXCEPT ![v] = of[j]],
               Becomes(j, "create", "made", v, mem[j].discs, mem[j].cred, mem[j].done,
                       mem[j].ending)
        PROVE  OwnVms'
    <3>1. \A i \in Job : i # j /\ Owns(mem[i])' =>
            /\ Owns(mem[i]) /\ mem'[i].vmid = mem[i].vmid /\ of'[i] = of[i] /\ mem[i].vmid # v
            /\ vms'[mem[i].vmid] = of[i]
      BY <2>2, <1>0 DEF Becomes, OwnVms
    <3>2. mem'[j].vmid = v /\ of'[j] = of[j] /\ vms'[v] = of[j]
      BY <2>2, <1>0 DEF Becomes
    <3> QED
      BY <3>1, <3>2, <1>0 DEF OwnVms
  <2> QED
    BY <2>1, <2>2, <1>0, <1>23, PostDoes
<1>24. CASE PostUnanswered(j)
  <2>1. PICK v \in Vmid : vms[v] = Nobody /\ vms' = [vms EXCEPT ![v] = B(j)]
    BY <1>24 DEF PostUnanswered
  <2>2. \A i \in Job : Owns(mem[i]) => vms'[mem[i].vmid] = vms[mem[i].vmid]
    BY <2>1, <1>0 DEF OwnVms
  <2>3. \A i \in Job : Owns(mem[i])' => Owns(mem[i]) /\ mem'[i].vmid = mem[i].vmid /\ of'[i] = of[i]
    BY <1>24, <1>0, PostUnansweredDoes DEF Gives, Becomes, Owns, Past
  <2> QED
    BY <2>2, <2>3, <1>0, OwnVmsKept
<1>25. CASE UndoVm(j)
  <2>1. CASE mem[j].done \/ mem[j].vmid = NoVm
    BY <2>1, <1>25, <1>0, <1>1, UndoVmDoes DEF UndoVm, Comes, Becomes, Owns, Past
  <2>2. CASE ~ mem[j].done /\ mem[j].vmid # NoVm
    <3>1. vms' = [vms EXCEPT ![mem[j].vmid] = Nobody] /\ Owns(mem[j]) /\ ~ Owns(mem[j])'
      BY <2>2, <1>25, <1>0, UndoVmDoes DEF UndoVm, Comes, Becomes, Owns, Past
    <3>2. \A i \in Job : Owns(mem[i]) /\ i # j => vms'[mem[i].vmid] = vms[mem[i].vmid]
      BY <3>1, <1>0 DEF OwnVms
    <3> QED
      BY <3>1, <3>2, <1>25, <1>0, UndoVmDoes, OwnVmsKept DEF Comes, Becomes
  <2> QED
    BY <2>1, <2>2
<1> QED
  BY <1>2, <1>3, <1>4, <1>5, <1>6, <1>7, <1>8, <1>9, <1>10, <1>11, <1>12, <1>13, <1>14, <1>15,
     <1>16, <1>17, <1>18, <1>19, <1>20, <1>21, <1>22, <1>23, <1>24, <1>25

LEMMA InitOwn == Init => OwnInv
<1> SUFFICES ASSUME Init PROVE OwnInv
  OBVIOUS
<1>1. ~ Owns(NoMem) /\ \A j \in Job : Fits(j, NoMem)
  BY DEF NoMem, Owns, Fits, Early, Building, Disc
<1> QED
  BY <1>1, InitTypes DEF OwnInv, Init, MemFits, OwnVms

LEMMA NextOwn == OwnInv /\ [Next]_vars => OwnInv'
<1> SUFFICES ASSUME OwnInv, [Next]_vars PROVE OwnInv'
  OBVIOUS
<1>0. TypeInv /\ MemFits /\ OwnVms /\ TypeInv'
  BY NextTypes DEF OwnInv
<1>1. CASE UNCHANGED vars
  BY <1>0, <1>1 DEF OwnInv, MemFits, OwnVms, vars, jobs, cluster
<1>2. ASSUME NEW j \in Job, Work(j), ~ Goes(j) PROVE OwnInv'
  BY <1>0, <1>2, StepFits, StepOwns DEF Work, Goes, OwnInv
<1>3. ASSUME NEW j \in Job, Goes(j) PROVE OwnInv'
  <2>1. \A i \in Job : Owns(mem[i])' => i # j
    BY <1>0, <1>3, GoesDoes DEF Owns, NoMem
  <2>2. OwnVms'
    BY <2>1, <1>0, <1>3, GoesDoes, OwnVmsKept
  <2> QED
    BY <2>2, <1>0, <1>3, OtherFits DEF OwnInv
<1>4. ASSUME NEW j \in Job, Claim(j) PROVE OwnInv'
  <2>1. mem[j].vmid = NoVm /\ ~ Owns(mem[j])'
    BY <1>4, <1>0, ClaimDoes
    DEF MemFits, Fits, Early, Owns, TypeInv, JobTypes, RowFits, UndoParts
  <2>2. OwnVms'
    BY <2>1, <1>0, <1>4, ClaimDoes, OwnVmsKept DEF Claim, cluster
  <2> QED
    BY <2>2, <1>0, <1>4, OtherFits DEF OwnInv
<1>5. ASSUME NEW j \in Job, AskCancel(j) PROVE OwnInv'
  <2>1. OwnVms'
    BY <1>0, <1>5, AskCancelDoes, OwnVmsKept DEF AskCancel, cluster, Comes, Becomes, Owns, Past
  <2> QED
    BY <2>1, <1>0, <1>5, OtherFits DEF OwnInv
<1>6. ASSUME \/ \E b \in Build : Request(b) \/ Ask(b) \/ ApiDies(b)
             \/ \E j \in Job : Reconcile(j) \/ Stall(j) \/ CancelQueued(j) \/ Retry(j)
             \/ Sweep
      PROVE  OwnInv'
  <2>1. \A i \in Job : Owns(mem[i]) => of[i] # Nobody
    BY <1>0 DEF Owns, TypeInv, JobTypes, RowFits
  <2>2. OwnVms'
    BY <2>1, <1>0, <1>6, OthersDo, OwnVmsKept
  <2> QED
    BY <2>2, <1>0, <1>6, OthersDo, OtherFits DEF OwnInv
<1> QED
  BY <1>1, <1>2, <1>3, <1>4, <1>5, <1>6 DEF Next, Goes

\* A clean-up destroys the VM of its own build, whatever other builds, retries of it and
\* builds that Proxmox gave the same free id do meanwhile.
THEOREM CleanupsDestroyOwn == Spec => DestroysItsOwn
<1> DEFINE Own == \A v \in Vmid : vms[v] # Nobody /\ vms'[v] = Nobody =>
                    \E j \in Job : Undoing(j, "undo") /\ mem[j].vmid = v /\ vms[v] = of[j]
<1>1. ASSUME OwnInv, [Next]_vars PROVE Own
  <2>0. TypeInv /\ OwnVms /\ vms \in [Vmid -> Build \union {Nobody}]
    BY <1>1 DEF OwnInv, TypeInv, ThingTypes
  <2>1. ASSUME NEW j \in Job, UndoVm(j) PROVE Own
    <3> SUFFICES ASSUME NEW v \in Vmid, vms[v] # Nobody, vms'[v] = Nobody
                 PROVE  \E i \in Job : Undoing(i, "undo") /\ mem[i].vmid = v /\ vms[v] = of[i]
      OBVIOUS
    <3>1. Undoing(j, "undo") /\ mem[j].vmid = v /\ mem[j].vmid # NoVm
      BY <2>0, <2>1 DEF UndoVm
    <3>2. vms[v] = of[j]
      BY <2>0, <3>1 DEF Undoing, OwnVms, Owns, Past
    <3> QED
      BY <3>1, <3>2
  <2>2. ASSUME NEW j \in Job, Post(j) \/ PostUnanswered(j) PROVE Own
    <3>1. of[j] \in Build
      BY <1>1, <2>2 DEF OwnInv, TypeInv, JobTypes, RowFits, Post, PostUnanswered, Posts, At
    <3>2. vms' = vms \/ \E v \in Vmid : vms' = [vms EXCEPT ![v] = of[j]]
      BY <2>2 DEF Post, PostUnanswered, B
    <3> QED
      BY <2>0, <3>1, <3>2, ProvisioningAssumption
  <2>3. ASSUME NEW j \in Job, Work(j), ~ UndoVm(j), ~ Post(j), ~ PostUnanswered(j)
        PROVE  vms' = vms
    BY <2>3
    DEF Work, Begin, Check, Media, MediaSent, NextVmid, Made, StoreSecret, NameSecret, SendDisc,
       Install, Packages, DeleteAnswers, DeletePackages, WriteSuccess, StepFails, Cancelled,
       UndoVmFails, UndoDiscs, UndoDiscsFails, UndoSecret, UndoRecord, Succeed, Abandon, End,
       cluster
  <2>4. CASE UNCHANGED vars
    BY <2>4 DEF vars, cluster
  <2>5. ASSUME NEW j \in Job, Claim(j) \/ AskCancel(j) \/ WorkerDies(j) PROVE vms' = vms
    BY <2>5 DEF Claim, AskCancel, WorkerDies, cluster
  <2> QED
    BY <1>1, <2>0, <2>1, <2>2, <2>3, <2>4, <2>5, OthersDo DEF Next
<1>2. Spec => []OwnInv
  BY InitOwn, NextOwn, PTL DEF Spec
<1>3. OwnInv /\ [Next]_vars => [Own]_vars
  BY <1>1
<1> QED
  BY <1>2, <1>3, PTL DEF Spec, DestroysItsOwn

-----------------------------------------------------------------------------
(* What a build that failed has left *)

\* A job that the API, a row or the sweep goes by is of that build, and so is a credential;
\* one that a row names which is over is recorded as an orphan.
JobRefs ==
  /\ \A b \in Build : /\ asks[b].at = "job" => of[asks[b].job] = b
                      /\ rec[b].job # NoJob => of[rec[b].job] = b
  /\ sw.at # "idle" => \E j \in Job : of[j] = sw.build
SecretRefs ==
  /\ \A j \in secrets : of[j] # Nobody
  /\ \A b \in Build : rec[b].cred # NoJob =>
       /\ of[rec[b].cred] = b
       /\ rec[b].state \in {"FAILED", "CANCELLED"} => rec[b].cred \in orphans
  /\ sw.at # "idle" /\ sw.cred # NoJob => of[sw.cred] = sw.build
  /\ sw.at = "secret" => sw.cred # NoJob

\* From when the API has asked for its job until a person retries it, a build has one job,
\* and before that, nothing.
SingleAt(b) ==
  /\ asks[b].at \in {"none", "row"} => \A j \in Job : of[j] # b
  /\ b \notin strayed => \A i, j \in Job : of[i] = b /\ of[j] = b => i = j
UnbegunAt(b) ==
  (\A j \in Job : of[j] # b) =>
    /\ \A v \in Vmid : vms[v] # b
    /\ discs[b] = {} /\ rec[b].state \notin {"FAILED", "CANCELLED"}

\* What a clean-up has dropped, or failed to.
Dropped(m) == m.part \in {"record", "end"} /\ ~ m.done
Cleared(m) == m.part \in {"secret", "record", "end"} /\ ~ m.done

\* Of the only job of a build: its VM is its run's, or the row has its id, and once the VM
\* was made the row has it; its CDs are those its run knows of, until that has undone them.
VmNoted(j) == mem[j].alive /\ mem[j].at \notin Building => rec[of[j]].vmid = mem[j].vmid
VmKnown(j) ==
  \A v \in Vmid : vms[v] = of[j] /\ of[j] \notin unseen /\ "vm" \notin left[of[j]] =>
    /\ row[j] # "QUEUED"
    /\ IF mem[j].alive THEN Owns(mem[j]) /\ mem[j].vmid = v ELSE rec[of[j]].vmid = v
DiscsKnown(j) ==
  /\ row[j] = "QUEUED" => discs[of[j]] = {}
  /\ mem[j].alive => IF Cleared(mem[j]) THEN discs[of[j]] # {} => "discs" \in left[of[j]]
                     ELSE discs[of[j]] \subseteq mem[j].discs

\* Its credential is known to the run that stored it until that has dropped it; and from
\* when its CDs are sent it is named, or about to be dropped.
SecretKnown(j) ==
  j \in secrets =>
    /\ row[j] # "QUEUED"
    /\ mem[j].alive => IF Dropped(mem[j]) THEN "secret" \in left[of[j]] ELSE mem[j].cred = j
SecretNamed(j) ==
  j \in secrets /\ "secret" \notin left[of[j]] /\ j \notin orphans =>
    \/ /\ mem[j].alive /\ mem[j].at = "answers"
       /\ mem[j].part \notin Disc /\ ~ Dropped(mem[j])
    \/ rec[of[j]].cred = j
    \/ sw.at = "secret" /\ sw.cred = j

\* A row that says failed, and not that the worker was lost, was written by a clean-up
\* that had come to its end.
Undone(b) == rec[b].state \in {"FAILED", "CANCELLED"} /\ rec[b].error # "worker_lost"
UndoneIsClean(j) ==
  Undone(of[j]) =>
    /\ row[j] # "QUEUED" /\ (mem[j].alive => mem[j].part = "end" /\ ~ mem[j].done)
    /\ HasVm(of[j]) => "vm" \in left[of[j]] \/ of[j] \in unseen
    /\ discs[of[j]] # {} => "discs" \in left[of[j]]
    /\ j \in secrets => "secret" \in left[of[j]]

CleanAt(j) ==
  /\ VmNoted(j) /\ VmKnown(j) /\ DiscsKnown(j)
  /\ SecretKnown(j) /\ SecretNamed(j) /\ UndoneIsClean(j)

Refs == JobRefs /\ SecretRefs
CleanInv ==
  /\ OwnInv /\ Refs
  /\ \A b \in Build : SingleAt(b) /\ UnbegunAt(b)
  /\ \A j \in Job : of[j] # Nobody /\ of[j] \notin strayed => CleanAt(j)

-----------------------------------------------------------------------------
(* What is in the row, the API's and the sweep's hands *)

\* The jobs that are known are still of the same builds.
LEMMA JobRefsKept ==
  ASSUME TypeInv, JobRefs, \A j \in Job : of[j] # Nobody => of'[j] = of[j],
         asks' = asks, \A b \in Build : rec'[b].job = rec[b].job,
         sw'.at # "idle" => sw.at # "idle" /\ sw'.build = sw.build
  PROVE  JobRefs'
<1>1. \A b \in Build : /\ asks[b].at = "job" => asks[b].job \in Job
                       /\ rec[b].job # NoJob => rec[b].job \in Job
  BY DEF TypeInv, RecordTypes, RecType
<1>2. Nobody \notin Build
  BY ProvisioningAssumption
<1>3. sw.at # "idle" => sw.build \in Build
  BY DEF TypeInv, RecordTypes
<1> QED
  BY <1>1, <1>2, <1>3 DEF JobRefs

-----------------------------------------------------------------------------
(* What an action of one build does not touch *)

\* Of the other builds, the jobs, what they have and what is recorded of them.
Apart(b) ==
  /\ \A i \in Job : of[i] # Nobody => of'[i] = of[i]
  /\ \A i \in Job : of'[i] # b =>
       /\ of'[i] = of[i] /\ row'[i] = row[i] /\ mem'[i] = mem[i]
       /\ i \in secrets' => i \in secrets
       /\ i \in orphans => i \in orphans'
       /\ sw.at = "secret" /\ sw.cred = i => sw'.at = "secret" /\ sw'.cred = i
  /\ \A c \in Build : c # b =>
       /\ rec'[c] = rec[c] /\ asks'[c] = asks[c] /\ discs'[c] = discs[c] /\ left'[c] = left[c]
       /\ (c \in unseen' <=> c \in unseen) /\ (c \in strayed' <=> c \in strayed)
       /\ \A v \in Vmid : vms'[v] = c <=> vms[v] = c

LEMMA ApartKeeps ==
  ASSUME CleanInv, TypeInv', NEW b \in Build, Apart(b)
  PROVE  /\ \A c \in Build : c # b => SingleAt(c)' /\ UnbegunAt(c)'
         /\ \A i \in Job : of'[i] \notin {b, Nobody} /\ of'[i] \notin strayed' => CleanAt(i)'
<1>0. /\ TypeInv /\ \A c \in Build : SingleAt(c) /\ UnbegunAt(c)
      /\ \A j \in Job : of[j] # Nobody /\ of[j] \notin strayed => CleanAt(j)
      /\ Nobody \notin Build /\ of' \in [Job -> Build \union {Nobody}]
  BY ProvisioningAssumption DEF CleanInv, OwnInv, TypeInv, JobTypes
<1>1. ASSUME NEW c \in Build, c # b PROVE SingleAt(c)' /\ UnbegunAt(c)'
  <2>1. \A i \in Job : of'[i] = c <=> of[i] = c
    BY <1>0, <1>1 DEF Apart
  <2>2. SingleAt(c)'
    BY <1>0, <1>1, <2>1 DEF SingleAt, Apart
  <2>3. UnbegunAt(c)'
    BY <1>0, <1>1, <2>1 DEF UnbegunAt, Apart
  <2> QED
    BY <2>2, <2>3
<1>2. ASSUME NEW i \in Job, of'[i] \notin {b, Nobody}, of'[i] \notin strayed'
      PROVE  CleanAt(i)'
  <2>1. /\ of'[i] = of[i] /\ row'[i] = row[i] /\ mem'[i] = mem[i] /\ of[i] \in Build
        /\ of[i] # b /\ of[i] \notin strayed /\ CleanAt(i)
    BY <1>0, <1>2 DEF Apart
  <2>2. /\ rec'[of[i]] = rec[of[i]] /\ discs'[of[i]] = discs[of[i]]
        /\ left'[of[i]] = left[of[i]] /\ (of[i] \in unseen' <=> of[i] \in unseen)
        /\ \A v \in Vmid : vms'[v] = of[i] <=> vms[v] = of[i]
    BY <2>1 DEF Apart
  <2>3. /\ i \in secrets' => i \in secrets
        /\ i \in orphans => i \in orphans'
        /\ sw.at = "secret" /\ sw.cred = i => sw'.at = "secret" /\ sw'.cred = i
    BY <2>1 DEF Apart
  <2>4. VmNoted(i)' /\ VmKnown(i)' /\ DiscsKnown(i)'
    BY <2>1, <2>2 DEF CleanAt, VmNoted, VmKnown, DiscsKnown, Owns, Cleared
  <2>5. SecretKnown(i)' /\ SecretNamed(i)'
    BY <2>1, <2>2, <2>3 DEF CleanAt, SecretKnown, SecretNamed, Dropped
  <2>6. UndoneIsClean(i)'
    BY <2>1, <2>2, <2>3 DEF CleanAt, UndoneIsClean, Undone, HasVm
  <2> QED
    BY <2>4, <2>5, <2>6 DEF CleanAt
<1> QED
  BY <1>1, <1>2

\* So what remains is the build that an action is about.
LEMMA ApartSuffices ==
  ASSUME CleanInv, OwnInv', Refs', NEW b \in Build, Apart(b), SingleAt(b)', UnbegunAt(b)',
         b \notin strayed' => \A j \in Job : of'[j] = b => CleanAt(j)'
  PROVE  CleanInv'
<1>1. /\ \A c \in Build : c # b => SingleAt(c)' /\ UnbegunAt(c)'
      /\ \A i \in Job : of'[i] \notin {b, Nobody} /\ of'[i] \notin strayed' => CleanAt(i)'
  BY ApartKeeps DEF OwnInv
<1> QED
  BY <1>1 DEF CleanInv

\* And of what is done for a job, that job.
LEMMA JobSuffices ==
  ASSUME CleanInv, OwnInv', Refs', NEW j \in Job, of[j] \in Build, Apart(of[j]),
         of' = of, asks' = asks, strayed' = strayed,
         CleanAt(j) /\ of[j] \notin strayed => CleanAt(j)'
  PROVE  CleanInv'
<1>1. SingleAt(of[j])' /\ UnbegunAt(of[j])'
  BY DEF SingleAt, UnbegunAt, CleanInv
<1>2. of[j] \notin strayed => \A i \in Job : of[i] = of[j] => i = j
  BY DEF CleanInv, SingleAt
<1>3. of[j] # Nobody
  BY ProvisioningAssumption
<1> QED
  BY <1>1, <1>2, <1>3, ApartSuffices DEF CleanInv

\* An action of a job touches no other job's memory or row.
Alone(j) == of' = of /\ \A i \in Job : i # j => mem'[i] = mem[i] /\ row'[i] = row[i]
LEMMA JobAlone ==
  ASSUME TypeInv, NEW j \in Job,
         \/ Begin(j)
         \/ Check(j)
         \/ Media(j)
         \/ MediaSent(j)
         \/ NextVmid(j)
         \/ Post(j)
         \/ PostUnanswered(j)
         \/ Made(j)
         \/ StoreSecret(j)
         \/ NameSecret(j)
         \/ SendDisc(j)
         \/ Install(j)
         \/ Packages(j)
         \/ DeleteAnswers(j)
         \/ DeletePackages(j)
         \/ WriteSuccess(j)
         \/ StepFails(j)
         \/ Cancelled(j)
         \/ UndoVm(j)
         \/ UndoVmFails(j)
         \/ UndoDiscs(j)
         \/ UndoDiscsFails(j)
         \/ UndoSecret(j)
         \/ UndoRecord(j)
         \/ Claim(j)
         \/ AskCancel(j)
         \/ Reconcile(j)
         \/ Stall(j)
         \/ CancelQueued(j)
         \/ Succeed(j)
         \/ WorkerDies(j)
         \/ Abandon(j)
         \/ End(j)
  PROVE  Alone(j)
<1>0. row \in [Job -> {"NONE", "QUEUED", "RUNNING", "SUCCEEDED", "FAILED", "CANCELLED"}]
  BY DEF TypeInv, JobTypes
<1>1. ASSUME NEW at, NEW part, NEW vmid, NEW cds, NEW cred, NEW done, NEW ending,
             Becomes(j, at, part, vmid, cds, cred, done, ending)
      PROVE  Alone(j)
  BY <1>1 DEF Becomes, Alone
<1>2. \A at, part, ending : Comes(j, at, part) \/ Gives(j, ending) => Alone(j)
  BY <1>1 DEF Comes, Gives
<1>3. CASE Begin(j)
  BY <1>3, <1>1, <1>2, BeginDoes
<1>4. CASE Check(j)
  BY <1>4, <1>1, <1>2, CheckDoes
<1>5. CASE Media(j)
  BY <1>5, <1>1, <1>2, MediaDoes
<1>6. CASE MediaSent(j)
  BY <1>6, <1>1, <1>2, MediaSentDoes
<1>7. CASE NextVmid(j)
  BY <1>7, <1>1, <1>2, NextVmidDoes
<1>8. CASE Post(j)
  BY <1>8, <1>1, <1>2, PostDoes
<1>9. CASE PostUnanswered(j)
  BY <1>9, <1>1, <1>2, PostUnansweredDoes
<1>10. CASE Made(j)
  BY <1>10, <1>1, <1>2, MadeDoes
<1>11. CASE StoreSecret(j)
  BY <1>11, <1>1, <1>2, StoreSecretDoes
<1>12. CASE NameSecret(j)
  BY <1>12, <1>1, <1>2, NameSecretDoes
<1>13. CASE SendDisc(j)
  BY <1>13, <1>1, <1>2, SendDiscDoes
<1>14. CASE Install(j)
  BY <1>14, <1>1, <1>2, InstallDoes
<1>15. CASE Packages(j)
  BY <1>15, <1>1, <1>2, PackagesDoes
<1>16. CASE DeleteAnswers(j)
  BY <1>16, <1>1, <1>2, DeleteAnswersDoes
<1>17. CASE DeletePackages(j)
  BY <1>17, <1>1, <1>2, DeletePackagesDoes
<1>18. CASE WriteSuccess(j)
  BY <1>18, <1>1, <1>2, WriteSuccessDoes
<1>19. CASE StepFails(j)
  BY <1>19, <1>1, <1>2, StepFailsDoes
<1>20. CASE Cancelled(j)
  BY <1>20, <1>1, <1>2, CancelledDoes
<1>21. CASE UndoVm(j)
  BY <1>21, <1>1, <1>2, UndoVmDoes
<1>22. CASE UndoVmFails(j)
  BY <1>22, <1>1, <1>2, UndoVmFailsDoes
<1>23. CASE UndoDiscs(j)
  BY <1>23, <1>1, <1>2, UndoDiscsDoes
<1>24. CASE UndoDiscsFails(j)
  BY <1>24, <1>1, <1>2, UndoDiscsFailsDoes
<1>25. CASE UndoSecret(j)
  BY <1>25, <1>1, <1>2, UndoSecretDoes
<1>26. CASE UndoRecord(j)
  BY <1>26, <1>1, <1>2, UndoRecordDoes
<1>27. CASE Claim(j)
  BY <1>27, <1>0, ClaimDoes DEF Alone
<1>28. CASE AskCancel(j)
  BY <1>28, <1>2, AskCancelDoes
<1>29. CASE Reconcile(j)
  BY <1>29, <1>0 DEF Alone, Reconcile
<1>30. CASE Stall(j)
  BY <1>30, <1>0 DEF Alone, Stall
<1>31. CASE CancelQueued(j)
  BY <1>31, <1>0 DEF Alone, CancelQueued
<1>32. CASE Succeed(j)
  BY <1>32, GoesDoes DEF Alone, Goes
<1>33. CASE WorkerDies(j)
  BY <1>33, GoesDoes DEF Alone, Goes
<1>34. CASE Abandon(j)
  BY <1>34, GoesDoes DEF Alone, Goes
<1>35. CASE End(j)
  BY <1>35, GoesDoes DEF Alone, Goes
<1> QED
  BY <1>3, <1>4, <1>5, <1>6, <1>7, <1>8, <1>9, <1>10, <1>11, <1>12, <1>13, <1>14, <1>15, <1>16,
     <1>17, <1>18, <1>19, <1>20, <1>21, <1>22, <1>23, <1>24, <1>25, <1>26, <1>27, <1>28, <1>29,
     <1>30, <1>31, <1>32, <1>33, <1>34, <1>35

LEMMA JobApart ==
  ASSUME CleanInv, NEW j \in Job, of[j] \in Build,
         \/ Begin(j)
         \/ Check(j)
         \/ Media(j)
         \/ MediaSent(j)
         \/ NextVmid(j)
         \/ Post(j)
         \/ PostUnanswered(j)
         \/ Made(j)
         \/ StoreSecret(j)
         \/ NameSecret(j)
         \/ SendDisc(j)
         \/ Install(j)
         \/ Packages(j)
         \/ DeleteAnswers(j)
         \/ DeletePackages(j)
         \/ WriteSuccess(j)
         \/ StepFails(j)
         \/ Cancelled(j)
         \/ UndoVm(j)
         \/ UndoVmFails(j)
         \/ UndoDiscs(j)
         \/ UndoDiscsFails(j)
         \/ UndoSecret(j)
         \/ UndoRecord(j)
         \/ Claim(j)
         \/ AskCancel(j)
         \/ Reconcile(j)
         \/ Stall(j)
         \/ CancelQueued(j)
         \/ Succeed(j)
         \/ WorkerDies(j)
         \/ Abandon(j)
         \/ End(j)
  PROVE  Apart(of[j]) /\ of' = of /\ asks' = asks /\ strayed' = strayed
<1>0. /\ TypeInv /\ rec \in [Build -> RecType] /\ discs \in [Build -> SUBSET Disc]
      /\ left \in [Build -> SUBSET {"vm", "discs", "secret"}]
      /\ vms \in [Vmid -> Build \union {Nobody}] /\ Nobody \notin Build
      /\ Owns(mem[j]) => vms[mem[j].vmid] = of[j]
  BY ProvisioningAssumption
  DEF CleanInv, OwnInv, OwnVms, MemFits, TypeInv, RecordTypes, ThingTypes, JobTypes
<1>1. Alone(j) /\ of' = of /\ \A i \in Job : of'[i] # of[j] =>
        of'[i] = of[i] /\ row'[i] = row[i] /\ mem'[i] = mem[i] /\ i # j
  BY <1>0, JobAlone DEF Alone
<1>2. ASSUME rec' = rec \/ \E r : rec' = [rec EXCEPT ![of[j]] = r],
             discs' = discs \/ \E r : discs' = [discs EXCEPT ![of[j]] = r],
             left' = left \/ \E r : left' = [left EXCEPT ![of[j]] = r],
             \/ vms' = vms
             \/ \E v \in Vmid : vms' = [vms EXCEPT ![v] = of[j]] /\ vms[v] = Nobody
             \/ \E v \in Vmid : vms' = [vms EXCEPT ![v] = Nobody] /\ vms[v] = of[j],
             secrets' \subseteq secrets \union {j}, orphans \subseteq orphans',
             unseen' = unseen \/ unseen' = unseen \union {of[j]},
             sw' = sw, asks' = asks, strayed' = strayed
      PROVE  Apart(of[j]) /\ of' = of /\ asks' = asks /\ strayed' = strayed
  <2>1. \A c \in Build : c # of[j] =>
          /\ rec'[c] = rec[c] /\ discs'[c] = discs[c] /\ left'[c] = left[c]
          /\ (c \in unseen' <=> c \in unseen)
    BY <1>0, <1>2
  <2>2. \A c \in Build : c # of[j] => \A v \in Vmid : vms'[v] = c <=> vms[v] = c
    BY <1>0, <1>2
  <2> QED
    BY <1>1, <1>2, <2>1, <2>2 DEF Apart
<1>3. CASE Begin(j)
  BY <1>3, <1>2 DEF Begin, cluster, history
<1>4. CASE Check(j)
  BY <1>4, <1>2 DEF Check, Record, B, cluster, history
<1>5. CASE Media(j)
  BY <1>5, <1>2 DEF Media, cluster, history
<1>6. CASE MediaSent(j)
  BY <1>6, <1>2 DEF MediaSent, history, At
<1>7. CASE NextVmid(j)
  BY <1>7, <1>2 DEF NextVmid, cluster, history
<1>8. CASE Post(j)
  BY <1>8, <1>2 DEF Post, B, history, At, Posts
<1>9. CASE PostUnanswered(j)
  BY <1>9, <1>2 DEF PostUnanswered, B, At, Posts
<1>10. CASE Made(j)
  BY <1>10, <1>2 DEF Made, Record, B, cluster, history, At
<1>11. CASE StoreSecret(j)
  BY <1>11, <1>2 DEF StoreSecret, cluster, history
<1>12. CASE NameSecret(j)
  BY <1>12, <1>2 DEF NameSecret, Record, B, cluster, At
<1>13. CASE SendDisc(j)
  BY <1>13, <1>2 DEF SendDisc, B, history, At
<1>14. CASE Install(j)
  BY <1>14, <1>2 DEF Install, cluster, history
<1>15. CASE Packages(j)
  BY <1>15, <1>2 DEF Packages, cluster, history
<1>16. CASE DeleteAnswers(j)
  BY <1>16, <1>2 DEF DeleteAnswers, B, history
<1>17. CASE DeletePackages(j)
  BY <1>17, <1>2 DEF DeletePackages, B, history, At
<1>18. CASE WriteSuccess(j)
  BY <1>18, <1>2 DEF WriteSuccess, Record, B, cluster, history, At
<1>19. CASE StepFails(j)
  BY <1>19, <1>2 DEF StepFails, B, history, At
<1>20. CASE Cancelled(j)
  BY <1>20, <1>2 DEF Cancelled, cluster, history
<1>21. CASE UndoVm(j)
  <2>1. mem[j].vmid # NoVm /\ ~ mem[j].done => mem[j].vmid \in Vmid /\ vms[mem[j].vmid] = of[j]
    BY <1>21, <1>0 DEF UndoVm, Undoing, Owns, Past, TypeInv, JobTypes, MemType
  <2> QED
    BY <1>21, <1>2, <2>1 DEF UndoVm, history
<1>22. CASE UndoVmFails(j)
  BY <1>22, <1>2 DEF UndoVmFails, B, cluster, Undoing
<1>23. CASE UndoDiscs(j)
  BY <1>23, <1>2 DEF UndoDiscs, B, history, Undoing
<1>24. CASE UndoDiscsFails(j)
  BY <1>24, <1>2 DEF UndoDiscsFails, B, cluster, Undoing
<1>25. CASE UndoSecret(j)
  BY <1>25, <1>2 DEF UndoSecret, B, cluster, Undoing
<1>26. CASE UndoRecord(j)
  BY <1>26, <1>2 DEF UndoRecord, Record, B, cluster, history, Undoing
<1>27. CASE Claim(j)
  BY <1>27, <1>2 DEF Claim, cluster, history
<1>28. CASE AskCancel(j)
  BY <1>28, <1>2 DEF AskCancel, cluster, history
<1>29. CASE Reconcile(j)
  BY <1>29, <1>2 DEF Reconcile, cluster, history
<1>30. CASE Stall(j)
  BY <1>30, <1>2 DEF Stall, cluster, history
<1>31. CASE CancelQueued(j)
  BY <1>31, <1>2 DEF CancelQueued, cluster, history
<1>32. CASE Succeed(j)
  BY <1>32, <1>2 DEF Succeed, cluster, history, At
<1>33. CASE WorkerDies(j)
  BY <1>33, <1>2 DEF WorkerDies, B, cluster, Forgets
<1>34. CASE Abandon(j)
  BY <1>34, <1>2 DEF Abandon, B, cluster, Forgets
<1>35. CASE End(j)
  BY <1>35, <1>2 DEF End, cluster, history, Undoing
<1> QED
  BY <1>3, <1>4, <1>5, <1>6, <1>7, <1>8, <1>9, <1>10, <1>11, <1>12, <1>13, <1>14, <1>15, <1>16,
     <1>17, <1>18, <1>19, <1>20, <1>21, <1>22, <1>23, <1>24, <1>25, <1>26, <1>27, <1>28, <1>29,
     <1>30, <1>31, <1>32, <1>33, <1>34, <1>35

\* What an action writes in the row of a build.
Writes(b, state, vmid, cred, error, expiry) ==
  /\ rec'[b].state = state /\ rec'[b].vmid = vmid /\ rec'[b].cred = cred
  /\ rec'[b].error = error /\ rec'[b].expiry = expiry /\ rec'[b].job = rec[b].job
  /\ \A c \in Build : c # b => rec'[c] = rec[c]
LEMMA RecordWrites ==
  ASSUME TypeInv, NEW b \in Build, NEW r, Record(b, r), r.job = rec[b].job
  PROVE  Writes(b, r.state, r.vmid, r.cred, r.error, r.expiry)
BY DEF TypeInv, RecordTypes, Record, Writes

LEMMA CheckWrites ==
  ASSUME TypeInv, NEW j \in Job, of[j] \in Build, Check(j)
  PROVE  Writes(of[j], "RUNNING", rec[of[j]].vmid, rec[of[j]].cred,
                rec[of[j]].error, rec[of[j]].expiry)
<1> DEFINE r == [rec[of[j]] EXCEPT !.state = "RUNNING"]
<1>1. rec[of[j]] \in RecType
  BY DEF TypeInv, RecordTypes
<1>2. /\ r.state = "RUNNING" /\ r.vmid = rec[of[j]].vmid /\ r.cred = rec[of[j]].cred
      /\ r.error = rec[of[j]].error /\ r.expiry = rec[of[j]].expiry /\ r.job = rec[of[j]].job
  BY <1>1 DEF RecType
<1>3. Record(of[j], r)
  BY DEF Check, B
<1> HIDE DEF r
<1> QED
  BY <1>2, <1>3, RecordWrites

LEMMA MadeWrites ==
  ASSUME TypeInv, NEW j \in Job, of[j] \in Build, Made(j)
  PROVE  Writes(of[j], rec[of[j]].state, mem[j].vmid, rec[of[j]].cred,
                rec[of[j]].error, rec[of[j]].expiry)
<1> DEFINE r == [rec[of[j]] EXCEPT !.vmid = mem[j].vmid]
<1>1. rec[of[j]] \in RecType
  BY DEF TypeInv, RecordTypes
<1>2. /\ r.state = rec[of[j]].state /\ r.vmid = mem[j].vmid /\ r.cred = rec[of[j]].cred
      /\ r.error = rec[of[j]].error /\ r.expiry = rec[of[j]].expiry /\ r.job = rec[of[j]].job
  BY <1>1 DEF RecType
<1>3. Record(of[j], r)
  BY DEF Made, B
<1> HIDE DEF r
<1> QED
  BY <1>2, <1>3, RecordWrites

LEMMA NameSecretWrites ==
  ASSUME TypeInv, NEW j \in Job, of[j] \in Build, NameSecret(j)
  PROVE  Writes(of[j], rec[of[j]].state, rec[of[j]].vmid, j,
                rec[of[j]].error, rec[of[j]].expiry)
<1> DEFINE r == [rec[of[j]] EXCEPT !.cred = j]
<1>1. rec[of[j]] \in RecType
  BY DEF TypeInv, RecordTypes
<1>2. /\ r.state = rec[of[j]].state /\ r.vmid = rec[of[j]].vmid /\ r.cred = j
      /\ r.error = rec[of[j]].error /\ r.expiry = rec[of[j]].expiry /\ r.job = rec[of[j]].job
  BY <1>1 DEF RecType
<1>3. Record(of[j], r)
  BY DEF NameSecret, B
<1> HIDE DEF r
<1> QED
  BY <1>2, <1>3, RecordWrites

LEMMA WriteSuccessWrites ==
  ASSUME TypeInv, NEW j \in Job, of[j] \in Build, WriteSuccess(j)
  PROVE  Writes(of[j], "SUCCEEDED", rec[of[j]].vmid, rec[of[j]].cred,
                rec[of[j]].error, "ahead")
<1> DEFINE r == [rec[of[j]] EXCEPT !.state = "SUCCEEDED", !.expiry = "ahead"]
<1>1. rec[of[j]] \in RecType
  BY DEF TypeInv, RecordTypes
<1>2. /\ r.state = "SUCCEEDED" /\ r.vmid = rec[of[j]].vmid /\ r.cred = rec[of[j]].cred
      /\ r.error = rec[of[j]].error /\ r.expiry = "ahead" /\ r.job = rec[of[j]].job
  BY <1>1 DEF RecType
<1>3. Record(of[j], r)
  BY DEF WriteSuccess, B
<1> HIDE DEF r
<1> QED
  BY <1>2, <1>3, RecordWrites

LEMMA UndoRecordWrites ==
  ASSUME TypeInv, NEW j \in Job, of[j] \in Build, UndoRecord(j)
  PROVE  \/ rec' = rec
         \/ /\ rec[of[j]].state \in Opened
            /\ \E error \in {"failed", "cleanup_failed"} :
                 Writes(of[j], mem[j].ending, rec[of[j]].vmid, NoJob,
                        IF mem[j].ending = "CANCELLED" THEN rec[of[j]].error ELSE error,
                        rec[of[j]].expiry)
<1> DEFINE b == of[j]
           r == Closed(rec[b], mem[j])
           error == IF mem[j].problem THEN "cleanup_failed" ELSE "failed"
<1>1. rec[b] \in RecType /\ mem[j] \in MemType
  BY DEF TypeInv, RecordTypes, JobTypes
<1>2. /\ r.state = mem[j].ending /\ r.vmid = rec[b].vmid /\ r.cred = NoJob
      /\ r.error = IF mem[j].ending = "CANCELLED" THEN rec[b].error ELSE error
      /\ r.expiry = rec[b].expiry /\ r.job = rec[b].job
  BY <1>1 DEF RecType, Closed
<1>3. rec' = rec \/ (rec[b].state \in Opened /\ Record(b, r))
  BY DEF UndoRecord, B
<1>4. error \in {"failed", "cleanup_failed"}
  OBVIOUS
<1> HIDE DEF r, error
<1>5. Record(b, r) => Writes(b, r.state, r.vmid, r.cred, r.error, r.expiry)
  BY <1>2, RecordWrites
<1> QED
  BY <1>2, <1>3, <1>4, <1>5

LEMMA JobActionRefs ==
  ASSUME CleanInv, NEW j \in Job, of[j] \in Build,
         \/ Begin(j)
         \/ Check(j)
         \/ Media(j)
         \/ MediaSent(j)
         \/ NextVmid(j)
         \/ Post(j)
         \/ PostUnanswered(j)
         \/ Made(j)
         \/ StoreSecret(j)
         \/ NameSecret(j)
         \/ SendDisc(j)
         \/ Install(j)
         \/ Packages(j)
         \/ DeleteAnswers(j)
         \/ DeletePackages(j)
         \/ WriteSuccess(j)
         \/ StepFails(j)
         \/ Cancelled(j)
         \/ UndoVm(j)
         \/ UndoVmFails(j)
         \/ UndoDiscs(j)
         \/ UndoDiscsFails(j)
         \/ UndoSecret(j)
         \/ UndoRecord(j)
         \/ Claim(j)
         \/ AskCancel(j)
         \/ Reconcile(j)
         \/ Stall(j)
         \/ CancelQueued(j)
         \/ Succeed(j)
         \/ WorkerDies(j)
         \/ Abandon(j)
         \/ End(j)
  PROVE  Refs'
<1>0. /\ TypeInv /\ JobRefs /\ SecretRefs /\ Nobody \notin Build
      /\ of' = of /\ asks' = asks
  BY JobApart, ProvisioningAssumption DEF CleanInv, OwnInv, Refs
<1>1. ASSUME sw' = sw, secrets' \subseteq secrets \union {j}, orphans \subseteq orphans',
             \A b \in Build :
               /\ rec'[b].job = rec[b].job
               /\ \/ rec'[b].cred = NoJob
                  \/ /\ rec'[b].cred = rec[b].cred
                     /\ rec'[b].state \in {"FAILED", "CANCELLED"} =>
                          rec[b].state \in {"FAILED", "CANCELLED"}
                  \/ /\ b = of[j] /\ rec'[b].cred = j
                     /\ rec'[b].state \in {"FAILED", "CANCELLED"} => j \in orphans'
      PROVE  Refs'
  <2>1. JobRefs'
    BY <1>0, <1>1, JobRefsKept
  <2>2. \A b \in Build : rec'[b].cred # NoJob =>
          /\ of'[rec'[b].cred] = b
          /\ rec'[b].state \in {"FAILED", "CANCELLED"} => rec'[b].cred \in orphans'
    BY <1>0, <1>1 DEF SecretRefs
  <2>3. SecretRefs'
    BY <1>0, <1>1, <2>2 DEF SecretRefs
  <2> QED
    BY <2>1, <2>3 DEF Refs
<1>2. CASE Begin(j)
  BY <1>2, <1>0, <1>1 DEF Begin, cluster, history
<1>3. CASE Check(j)
  BY <1>3, <1>0, <1>1, CheckWrites DEF Check, cluster, history, Writes
<1>4. CASE Media(j)
  BY <1>4, <1>0, <1>1 DEF Media, cluster, history
<1>5. CASE MediaSent(j)
  BY <1>5, <1>0, <1>1 DEF MediaSent, history
<1>6. CASE NextVmid(j)
  BY <1>6, <1>0, <1>1 DEF NextVmid, cluster, history
<1>7. CASE Post(j)
  BY <1>7, <1>0, <1>1 DEF Post, history
<1>8. CASE PostUnanswered(j)
  BY <1>8, <1>0, <1>1 DEF PostUnanswered
<1>9. CASE Made(j)
  BY <1>9, <1>0, <1>1, MadeWrites DEF Made, cluster, history, Writes
<1>10. CASE StoreSecret(j)
  BY <1>10, <1>0, <1>1 DEF StoreSecret, cluster, history
<1>11. CASE NameSecret(j)
  <2>1. /\ sw' = sw /\ secrets' = secrets /\ orphans \subseteq orphans'
        /\ rec[of[j]].state \in {"FAILED", "CANCELLED"} => j \in orphans'
    BY <1>11 DEF NameSecret, cluster, B, Opened
  <2> QED
    BY <1>11, <1>0, <1>1, <2>1, NameSecretWrites DEF Writes
<1>12. CASE SendDisc(j)
  BY <1>12, <1>0, <1>1 DEF SendDisc, history
<1>13. CASE Install(j)
  BY <1>13, <1>0, <1>1 DEF Install, cluster, history
<1>14. CASE Packages(j)
  BY <1>14, <1>0, <1>1 DEF Packages, cluster, history
<1>15. CASE DeleteAnswers(j)
  BY <1>15, <1>0, <1>1 DEF DeleteAnswers, history
<1>16. CASE DeletePackages(j)
  BY <1>16, <1>0, <1>1 DEF DeletePackages, history
<1>17. CASE WriteSuccess(j)
  BY <1>17, <1>0, <1>1, WriteSuccessWrites DEF WriteSuccess, cluster, history, Writes
<1>18. CASE StepFails(j)
  BY <1>18, <1>0, <1>1 DEF StepFails, history
<1>19. CASE Cancelled(j)
  BY <1>19, <1>0, <1>1 DEF Cancelled, cluster, history
<1>20. CASE UndoVm(j)
  BY <1>20, <1>0, <1>1 DEF UndoVm, history, Undoing
<1>21. CASE UndoVmFails(j)
  BY <1>21, <1>0, <1>1 DEF UndoVmFails, cluster, Undoing
<1>22. CASE UndoDiscs(j)
  BY <1>22, <1>0, <1>1 DEF UndoDiscs, history, Undoing
<1>23. CASE UndoDiscsFails(j)
  BY <1>23, <1>0, <1>1 DEF UndoDiscsFails, cluster, Undoing
<1>24. CASE UndoSecret(j)
  BY <1>24, <1>0, <1>1 DEF UndoSecret, cluster, Undoing
<1>25. CASE UndoRecord(j)
  BY <1>25, <1>0, <1>1, UndoRecordWrites DEF UndoRecord, cluster, history, Undoing, Writes
<1>26. CASE Claim(j)
  BY <1>26, <1>0, <1>1 DEF Claim, cluster, history
<1>27. CASE AskCancel(j)
  BY <1>27, <1>0, <1>1 DEF AskCancel, cluster, history
<1>28. CASE Reconcile(j)
  BY <1>28, <1>0, <1>1 DEF Reconcile, cluster, history
<1>29. CASE Stall(j)
  BY <1>29, <1>0, <1>1 DEF Stall, cluster, history
<1>30. CASE CancelQueued(j)
  BY <1>30, <1>0, <1>1 DEF CancelQueued, cluster, history
<1>31. CASE Succeed(j)
  BY <1>31, <1>0, <1>1 DEF Succeed, cluster, history
<1>32. CASE WorkerDies(j)
  BY <1>32, <1>0, <1>1 DEF WorkerDies, cluster, Forgets
<1>33. CASE Abandon(j)
  BY <1>33, <1>0, <1>1 DEF Abandon, cluster, Forgets
<1>34. CASE End(j)
  BY <1>34, <1>0, <1>1 DEF End, cluster, history, Undoing
<1> QED
  BY <1>2, <1>3, <1>4, <1>5, <1>6, <1>7, <1>8, <1>9, <1>10, <1>11, <1>12, <1>13, <1>14, <1>15,
     <1>16, <1>17, <1>18, <1>19, <1>20, <1>21, <1>22, <1>23, <1>24, <1>25, <1>26, <1>27, <1>28,
     <1>29, <1>30, <1>31, <1>32, <1>33, <1>34

-----------------------------------------------------------------------------
(* What a step of a run does to what its build has *)

\* A step that a worker takes and goes on from.
StaysOn(j) == mem[j].alive /\ mem'[j].alive /\ row' = row /\ of' = of

LEMMA VmKept ==
  ASSUME NEW j \in Job, VmNoted(j), VmKnown(j), StaysOn(j),
         mem'[j].vmid = mem[j].vmid, mem'[j].done = mem[j].done \/ mem'[j].part \notin Past,
         mem[j].part \in Past \/ mem'[j].part \notin Past \/ mem[j].done,
         mem[j].at \in Building => mem'[j].at \in Building,
         vms' = vms, unseen \subseteq unseen', left[of[j]] \subseteq left'[of[j]],
         rec'[of[j]].vmid = rec[of[j]].vmid
  PROVE  VmNoted(j)' /\ VmKnown(j)'
BY DEF VmNoted, VmKnown, StaysOn, Owns

LEMMA DiscsKept ==
  ASSUME NEW j \in Job, DiscsKnown(j), StaysOn(j), row[j] # "QUEUED",
         mem[j].discs \subseteq mem'[j].discs,
         Cleared(mem[j])' <=> Cleared(mem[j]),
         discs'[of[j]] = discs[of[j]], left[of[j]] \subseteq left'[of[j]]
  PROVE  DiscsKnown(j)'
BY DEF DiscsKnown, StaysOn

LEMMA SecretKept ==
  ASSUME NEW j \in Job, SecretKnown(j), SecretNamed(j), StaysOn(j),
         mem'[j].cred = mem[j].cred, Dropped(mem[j])' <=> Dropped(mem[j]),
         \/ rec'[of[j]].cred = j
         \/ /\ rec'[of[j]].cred = rec[of[j]].cred
            /\ mem[j].at = "answers" /\ mem[j].part \notin Disc =>
                 mem'[j].at = "answers" /\ mem'[j].part \notin Disc,
         secrets' = secrets, orphans \subseteq orphans', left[of[j]] \subseteq left'[of[j]],
         sw' = sw
  PROVE  SecretKnown(j)' /\ SecretNamed(j)'
BY DEF SecretKnown, SecretNamed, StaysOn

\* A run that has not come to the end of its clean-up finds the row not yet closed by it.
LEMMA NotUndone ==
  ASSUME NEW j \in Job, UndoneIsClean(j), StaysOn(j), mem[j].part # "end",
         \/ rec'[of[j]].state \in {"RUNNING", "SUCCEEDED"}
         \/ rec'[of[j]].state = rec[of[j]].state /\ rec'[of[j]].error = rec[of[j]].error
  PROVE  UndoneIsClean(j)'
BY DEF UndoneIsClean, Undone, StaysOn

\* Steps that change nothing that the build has.
LEMMA QuietClean ==
  ASSUME CleanInv, NEW j \in Job, of[j] \in Build, CleanAt(j),
         Begin(j) \/ Media(j) \/ MediaSent(j) \/ NextVmid(j) \/ Install(j) \/ Packages(j)
         \/ Cancelled(j)
  PROVE  CleanAt(j)'
<1>0. /\ TypeInv /\ Fits(j, mem[j]) /\ mem[j].vmid \in Vmid \union {NoVm}
      /\ mem[j].part \in UndoParts <=> mem[j].ending # "none"
      /\ mem[j].alive => row[j] \notin {"NONE", "QUEUED"}
      /\ VmNoted(j) /\ VmKnown(j) /\ DiscsKnown(j)
      /\ SecretKnown(j) /\ SecretNamed(j) /\ UndoneIsClean(j)
      /\ vms \in [Vmid -> Build \union {Nobody}] /\ discs \in [Build -> SUBSET Disc]
      /\ Nobody \notin Build /\ NoVm \notin Vmid /\ NoJob \notin Job
      /\ left \in [Build -> SUBSET {"vm", "discs", "secret"}]
  BY NoVmIsNone, ProvisioningAssumption
  DEF CleanInv, OwnInv, MemFits, TypeInv, JobTypes, ThingTypes, MemType, RowFits, CleanAt
<1>2. CASE Begin(j)
  <2>0. StaysOn(j) /\ mem[j].part # "end"
    BY <1>2, <1>0, BeginDoes DEF StaysOn, Comes, Becomes
  <2>1. VmNoted(j)' /\ VmKnown(j)'
    BY <2>0, <1>2, <1>0, BeginDoes, VmKept
    DEF Begin, cluster, history, Comes, Becomes, Past, Building
  <2>2. DiscsKnown(j)'
    BY <2>0, <1>2, <1>0, BeginDoes, DiscsKept
    DEF Begin, cluster, history, Comes, Becomes, Cleared
  <2>3. SecretKnown(j)' /\ SecretNamed(j)'
    BY <2>0, <1>2, <1>0, BeginDoes, SecretKept
    DEF Begin, cluster, history, Comes, Becomes, Dropped, Disc
  <2>4. UndoneIsClean(j)'
    BY <2>0, <1>2, <1>0, BeginDoes, NotUndone DEF Begin, cluster, history, Comes, Becomes
  <2> QED
    BY <2>1, <2>2, <2>3, <2>4 DEF CleanAt
<1>3. CASE Media(j)
  <2>0. StaysOn(j) /\ mem[j].part # "end"
    BY <1>3, <1>0, MediaDoes DEF StaysOn, Comes, Becomes
  <2>1. VmNoted(j)' /\ VmKnown(j)'
    BY <2>0, <1>3, <1>0, MediaDoes, VmKept
    DEF Media, cluster, history, Comes, Becomes, Past, Building
  <2>2. DiscsKnown(j)'
    BY <2>0, <1>3, <1>0, MediaDoes, DiscsKept
    DEF Media, cluster, history, Comes, Becomes, Cleared
  <2>3. SecretKnown(j)' /\ SecretNamed(j)'
    BY <2>0, <1>3, <1>0, MediaDoes, SecretKept
    DEF Media, cluster, history, Comes, Becomes, Dropped, Disc
  <2>4. UndoneIsClean(j)'
    BY <2>0, <1>3, <1>0, MediaDoes, NotUndone DEF Media, cluster, history, Comes, Becomes
  <2> QED
    BY <2>1, <2>2, <2>3, <2>4 DEF CleanAt
<1>4. CASE MediaSent(j)
  <2>0. StaysOn(j) /\ mem[j].part # "end"
    BY <1>4, <1>0, MediaSentDoes DEF StaysOn, Comes, Becomes
  <2>1. VmNoted(j)' /\ VmKnown(j)'
    BY <2>0, <1>4, <1>0, MediaSentDoes, VmKept
    DEF MediaSent, history, Comes, Becomes, Past, Building
  <2>2. DiscsKnown(j)'
    BY <2>0, <1>4, <1>0, MediaSentDoes, DiscsKept
    DEF MediaSent, history, Comes, Becomes, Cleared
  <2>3. SecretKnown(j)' /\ SecretNamed(j)'
    BY <2>0, <1>4, <1>0, MediaSentDoes, SecretKept
    DEF MediaSent, history, Comes, Becomes, Dropped, Disc
  <2>4. UndoneIsClean(j)'
    BY <2>0, <1>4, <1>0, MediaSentDoes, NotUndone DEF MediaSent, history, Comes, Becomes
  <2> QED
    BY <2>1, <2>2, <2>3, <2>4 DEF CleanAt
<1>5. CASE NextVmid(j)
  <2>0. StaysOn(j) /\ mem[j].part # "end"
    BY <1>5, <1>0, NextVmidDoes DEF StaysOn, Comes, Becomes
  <2>1. VmNoted(j)' /\ VmKnown(j)'
    BY <2>0, <1>5, <1>0, NextVmidDoes, VmKept
    DEF NextVmid, cluster, history, Comes, Becomes, Past, Building
  <2>2. DiscsKnown(j)'
    BY <2>0, <1>5, <1>0, NextVmidDoes, DiscsKept
    DEF NextVmid, cluster, history, Comes, Becomes, Cleared
  <2>3. SecretKnown(j)' /\ SecretNamed(j)'
    BY <2>0, <1>5, <1>0, NextVmidDoes, SecretKept
    DEF NextVmid, cluster, history, Comes, Becomes, Dropped, Disc
  <2>4. UndoneIsClean(j)'
    BY <2>0, <1>5, <1>0, NextVmidDoes, NotUndone DEF NextVmid, cluster, history, Comes, Becomes
  <2> QED
    BY <2>1, <2>2, <2>3, <2>4 DEF CleanAt
<1>6. CASE Install(j)
  <2>0. StaysOn(j) /\ mem[j].part # "end"
    BY <1>6, <1>0, InstallDoes DEF StaysOn, Comes, Becomes
  <2>1. VmNoted(j)' /\ VmKnown(j)'
    BY <2>0, <1>6, <1>0, InstallDoes, VmKept
    DEF Install, cluster, history, Comes, Becomes, Past, Building
  <2>2. DiscsKnown(j)'
    BY <2>0, <1>6, <1>0, InstallDoes, DiscsKept
    DEF Install, cluster, history, Comes, Becomes, Cleared
  <2>3. SecretKnown(j)' /\ SecretNamed(j)'
    BY <2>0, <1>6, <1>0, InstallDoes, SecretKept
    DEF Install, cluster, history, Comes, Becomes, Dropped, Disc
  <2>4. UndoneIsClean(j)'
    BY <2>0, <1>6, <1>0, InstallDoes, NotUndone DEF Install, cluster, history, Comes, Becomes
  <2> QED
    BY <2>1, <2>2, <2>3, <2>4 DEF CleanAt
<1>7. CASE Packages(j)
  <2>0. StaysOn(j) /\ mem[j].part # "end"
    BY <1>7, <1>0, PackagesDoes DEF StaysOn, Comes, Gives, Becomes
  <2>1. VmNoted(j)' /\ VmKnown(j)'
    BY <2>0, <1>7, <1>0, PackagesDoes, VmKept
    DEF Packages, cluster, history, Comes, Gives, Becomes, Past, Building
  <2>2. DiscsKnown(j)'
    BY <2>0, <1>7, <1>0, PackagesDoes, DiscsKept
    DEF Packages, cluster, history, Comes, Gives, Becomes, Cleared
  <2>3. SecretKnown(j)' /\ SecretNamed(j)'
    BY <2>0, <1>7, <1>0, PackagesDoes, SecretKept
    DEF Packages, cluster, history, Comes, Gives, Becomes, Dropped, Disc
  <2>4. UndoneIsClean(j)'
    BY <2>0, <1>7, <1>0, PackagesDoes, NotUndone
    DEF Packages, cluster, history, Comes, Gives, Becomes
  <2> QED
    BY <2>1, <2>2, <2>3, <2>4 DEF CleanAt
<1>8. CASE Cancelled(j)
  <2>0. StaysOn(j) /\ mem[j].part # "end"
    BY <1>8, <1>0, CancelledDoes DEF StaysOn, Gives, Becomes, UndoParts
  <2>1. VmNoted(j)' /\ VmKnown(j)'
    BY <2>0, <1>8, <1>0, CancelledDoes, VmKept
    DEF Cancelled, cluster, history, Gives, Becomes, Past, Building, Doing, At, UndoParts
  <2>2. DiscsKnown(j)'
    BY <2>0, <1>8, <1>0, CancelledDoes, DiscsKept
    DEF Cancelled, cluster, history, Gives, Becomes, Cleared, Doing, At, UndoParts
  <2>3. SecretKnown(j)' /\ SecretNamed(j)'
    <3>1. ~ Dropped(mem[j]) /\ ~ Dropped(mem[j])' /\ mem[j]'.part \notin Disc
      BY <1>8, <1>0, CancelledDoes DEF Gives, Becomes, Dropped, UndoParts, Disc
    <3>2. mem'[j].cred = mem[j].cred /\ mem'[j].at = mem[j].at
      BY CancelledDoes, <1>8, <1>0 DEF Gives, Becomes
    <3> QED
      BY <2>0, <1>8, <1>0, <3>1, <3>2, SecretKept DEF Cancelled, cluster, history
  <2>4. UndoneIsClean(j)'
    BY <2>0, <1>8, <1>0, CancelledDoes, NotUndone
    DEF Cancelled, cluster, history, Gives, Becomes, Doing, At, UndoParts
  <2> QED
    BY <2>1, <2>2, <2>3, <2>4 DEF CleanAt
<1> QED
  BY <1>2, <1>3, <1>4, <1>5, <1>6, <1>7, <1>8

\* Steps that write the row only.
LEMMA RowWriteClean ==
  ASSUME CleanInv, NEW j \in Job, of[j] \in Build, CleanAt(j),
         Check(j) \/ Made(j) \/ WriteSuccess(j) \/ UndoRecord(j)
  PROVE  CleanAt(j)'
<1>0. /\ TypeInv /\ Fits(j, mem[j]) /\ mem[j].vmid \in Vmid \union {NoVm}
      /\ mem[j].part \in UndoParts <=> mem[j].ending # "none"
      /\ mem[j].alive => row[j] \notin {"NONE", "QUEUED"}
      /\ VmNoted(j) /\ VmKnown(j) /\ DiscsKnown(j)
      /\ SecretKnown(j) /\ SecretNamed(j) /\ UndoneIsClean(j)
      /\ vms \in [Vmid -> Build \union {Nobody}] /\ discs \in [Build -> SUBSET Disc]
      /\ Nobody \notin Build /\ NoVm \notin Vmid /\ NoJob \notin Job
      /\ left \in [Build -> SUBSET {"vm", "discs", "secret"}]
  BY NoVmIsNone, ProvisioningAssumption
  DEF CleanInv, OwnInv, MemFits, TypeInv, JobTypes, ThingTypes, MemType, RowFits, CleanAt
<1>2. CASE Check(j)
  <2>0. StaysOn(j) /\ mem[j].part # "end"
    BY <1>2, <1>0, CheckDoes DEF StaysOn, Comes, Gives, Becomes
  <2>1. VmNoted(j)' /\ VmKnown(j)'
    BY <2>0, <1>2, <1>0, CheckDoes, CheckWrites, VmKept
    DEF Check, cluster, history, Comes, Gives, Becomes, Writes, Past, Building
  <2>2. DiscsKnown(j)'
    BY <2>0, <1>2, <1>0, CheckDoes, CheckWrites, DiscsKept
    DEF Check, cluster, history, Comes, Gives, Becomes, Writes, Cleared
  <2>3. SecretKnown(j)' /\ SecretNamed(j)'
    BY <2>0, <1>2, <1>0, CheckDoes, CheckWrites, SecretKept
    DEF Check, cluster, history, Comes, Gives, Becomes, Writes, Dropped, Disc
  <2>4. UndoneIsClean(j)'
    BY <2>0, <1>2, <1>0, CheckDoes, CheckWrites, NotUndone
    DEF Check, cluster, history, Comes, Gives, Becomes, Writes
  <2> QED
    BY <2>1, <2>2, <2>3, <2>4 DEF CleanAt
<1>3. CASE Made(j)
  <2>0. StaysOn(j) /\ mem[j].part # "end"
    BY <1>3, <1>0, MadeDoes DEF StaysOn, Comes, Becomes
  <2>1. VmNoted(j)' /\ VmKnown(j)'
    BY <2>0, <1>3, <1>0, MadeDoes, MadeWrites
    DEF Made, cluster, history, Comes, Becomes, Writes, StaysOn, VmNoted, VmKnown, Owns, Past
  <2>2. DiscsKnown(j)'
    BY <2>0, <1>3, <1>0, MadeDoes, MadeWrites, DiscsKept
    DEF Made, cluster, history, Comes, Becomes, Writes, Cleared
  <2>3. SecretKnown(j)' /\ SecretNamed(j)'
    BY <2>0, <1>3, <1>0, MadeDoes, MadeWrites, SecretKept
    DEF Made, cluster, history, Comes, Becomes, Writes, Dropped, Disc
  <2>4. UndoneIsClean(j)'
    BY <2>0, <1>3, <1>0, MadeDoes, MadeWrites, NotUndone
    DEF Made, cluster, history, Comes, Becomes, Writes
  <2> QED
    BY <2>1, <2>2, <2>3, <2>4 DEF CleanAt
<1>4. CASE WriteSuccess(j)
  <2>0. StaysOn(j) /\ mem[j].part # "end"
    BY <1>4, <1>0, WriteSuccessDoes DEF StaysOn, Comes, Becomes
  <2>1. VmNoted(j)' /\ VmKnown(j)'
    BY <2>0, <1>4, <1>0, WriteSuccessDoes, WriteSuccessWrites, VmKept
    DEF WriteSuccess, cluster, history, Comes, Becomes, Writes, Past, Building
  <2>2. DiscsKnown(j)'
    BY <2>0, <1>4, <1>0, WriteSuccessDoes, WriteSuccessWrites, DiscsKept
    DEF WriteSuccess, cluster, history, Comes, Becomes, Writes, Cleared
  <2>3. SecretKnown(j)' /\ SecretNamed(j)'
    BY <2>0, <1>4, <1>0, WriteSuccessDoes, WriteSuccessWrites, SecretKept
    DEF WriteSuccess, cluster, history, Comes, Becomes, Writes, Dropped, Disc
  <2>4. UndoneIsClean(j)'
    BY <2>0, <1>4, <1>0, WriteSuccessDoes, WriteSuccessWrites, NotUndone
    DEF WriteSuccess, cluster, history, Comes, Becomes, Writes
  <2> QED
    BY <2>1, <2>2, <2>3, <2>4 DEF CleanAt
<1>5. CASE UndoRecord(j)
  <2>0. StaysOn(j) /\ mem[j].part # "end"
    BY <1>5, <1>0, UndoRecordDoes DEF StaysOn, Comes, Becomes
  <2>1. VmNoted(j)' /\ VmKnown(j)'
    BY <2>0, <1>5, <1>0, UndoRecordDoes, UndoRecordWrites, VmKept
    DEF UndoRecord, cluster, history, Comes, Becomes, Writes, Past, Building
  <2>2. DiscsKnown(j)'
    BY <2>0, <1>5, <1>0, UndoRecordDoes, UndoRecordWrites, DiscsKept
    DEF UndoRecord, cluster, history, Comes, Becomes, Writes, Cleared
  <2>3. SecretKnown(j)' /\ SecretNamed(j)'
    BY <2>0, <1>5, <1>0, UndoRecordDoes
    DEF UndoRecord, cluster, history, Comes, Becomes, StaysOn, SecretKnown, SecretNamed,
       Dropped, Fits
  <2>4. UndoneIsClean(j)'
    BY <2>0, <1>5, <1>0, UndoRecordDoes, UndoRecordWrites
    DEF UndoRecord, cluster, history, Comes, Becomes, Writes, StaysOn, UndoneIsClean, Undone,
       HasVm, VmKnown, DiscsKnown, SecretKnown, Owns, Past, Cleared, Dropped, Fits, Opened
  <2> QED
    BY <2>1, <2>2, <2>3, <2>4 DEF CleanAt
<1> QED
  BY <1>2, <1>3, <1>4, <1>5

\* Steps that make a VM or delete it.
LEMMA VmClean ==
  ASSUME CleanInv, NEW j \in Job, of[j] \in Build, CleanAt(j),
         Post(j) \/ PostUnanswered(j) \/ UndoVm(j) \/ UndoVmFails(j)
  PROVE  CleanAt(j)'
<1>0. /\ TypeInv /\ Fits(j, mem[j]) /\ mem[j].vmid \in Vmid \union {NoVm}
      /\ mem[j].part \in UndoParts <=> mem[j].ending # "none"
      /\ mem[j].alive => row[j] \notin {"NONE", "QUEUED"}
      /\ VmNoted(j) /\ VmKnown(j) /\ DiscsKnown(j)
      /\ SecretKnown(j) /\ SecretNamed(j) /\ UndoneIsClean(j)
      /\ vms \in [Vmid -> Build \union {Nobody}] /\ discs \in [Build -> SUBSET Disc]
      /\ Nobody \notin Build /\ NoVm \notin Vmid /\ NoJob \notin Job
      /\ left \in [Build -> SUBSET {"vm", "discs", "secret"}]
  BY NoVmIsNone, ProvisioningAssumption
  DEF CleanInv, OwnInv, MemFits, TypeInv, JobTypes, ThingTypes, MemType, RowFits, CleanAt
<1>2. CASE Post(j)
  <2>0. StaysOn(j) /\ mem[j].part # "end"
    BY <1>2, <1>0, PostDoes DEF StaysOn, Gives, Becomes
  <2>1. VmNoted(j)' /\ VmKnown(j)'
    <3>1. mem[j].vmid = NoVm /\ ~ Owns(mem[j]) /\ mem[j].at = "create"
      BY <1>0, <1>2, PostDoes DEF Fits, Early, Owns, UndoParts
    <3>2. unseen' = unseen /\ left' = left /\ row[j] # "QUEUED"
      BY <1>0, <1>2, PostDoes DEF Post, history
    <3>3. \A v \in Vmid : ~ (vms[v] = of[j] /\ of[j] \notin unseen /\ "vm" \notin left[of[j]])
      BY <1>0, <1>2, <3>1, PostDoes DEF VmKnown
    <3>4. CASE Gives(j, "FAILED") /\ vms' = vms
      BY <1>0, <2>0, <3>1, <3>2, <3>3, <3>4
      DEF Gives, Becomes, StaysOn, VmNoted, VmKnown, Building
    <3>5. ASSUME NEW v \in Vmid, vms' = [vms EXCEPT ![v] = of[j]],
                 Becomes(j, "create", "made", v, mem[j].discs, mem[j].cred, mem[j].done,
                         mem[j].ending)
          PROVE  VmNoted(j)' /\ VmKnown(j)'
      <4>1. /\ mem'[j].vmid = v /\ mem'[j].at = "create" /\ mem'[j].part = "made"
            /\ mem'[j].alive /\ Owns(mem[j])'
        BY <1>0, <2>0, <3>5 DEF Becomes, StaysOn, Owns, Past
      <4>2. \A u \in Vmid : u # v => vms'[u] = vms[u]
        BY <1>0, <3>5
      <4> QED
        BY <1>0, <2>0, <3>2, <3>3, <4>1, <4>2 DEF StaysOn, VmNoted, VmKnown, Building
    <3> QED
      BY <1>0, <1>2, <3>4, <3>5, PostDoes
  <2>2. DiscsKnown(j)'
    BY <2>0, <1>2, <1>0, PostDoes, DiscsKept DEF Post, history, Gives, Becomes, Cleared
  <2>3. SecretKnown(j)' /\ SecretNamed(j)'
    BY <2>0, <1>2, <1>0, PostDoes, SecretKept DEF Post, history, Gives, Becomes, Dropped, Disc
  <2>4. UndoneIsClean(j)'
    BY <2>0, <1>2, <1>0, PostDoes, NotUndone DEF Post, history, Gives, Becomes
  <2> QED
    BY <2>1, <2>2, <2>3, <2>4 DEF CleanAt
<1>3. CASE PostUnanswered(j)
  <2>0. StaysOn(j) /\ mem[j].part # "end"
    BY <1>3, <1>0, PostUnansweredDoes DEF StaysOn, Gives, Becomes
  <2>1. VmNoted(j)' /\ VmKnown(j)'
    BY <2>0, <1>3, <1>0, PostUnansweredDoes
    DEF PostUnanswered, Posts, At, B, Gives, Becomes, StaysOn, VmNoted, VmKnown, Owns, Past,
       Building, Fits, Early
  <2>2. DiscsKnown(j)'
    BY <2>0, <1>3, <1>0, PostUnansweredDoes, DiscsKept
    DEF PostUnanswered, Gives, Becomes, Cleared
  <2>3. SecretKnown(j)' /\ SecretNamed(j)'
    BY <2>0, <1>3, <1>0, PostUnansweredDoes, SecretKept
    DEF PostUnanswered, Gives, Becomes, Dropped, Disc
  <2>4. UndoneIsClean(j)'
    BY <2>0, <1>3, <1>0, PostUnansweredDoes, NotUndone DEF PostUnanswered, Gives, Becomes
  <2> QED
    BY <2>1, <2>2, <2>3, <2>4 DEF CleanAt
<1>4. CASE UndoVm(j)
  <2>0. StaysOn(j) /\ mem[j].part # "end"
    BY <1>4, <1>0, UndoVmDoes DEF StaysOn, Comes, Becomes
  <2>1. VmNoted(j)' /\ VmKnown(j)'
    BY <2>0, <1>4, <1>0, UndoVmDoes
    DEF UndoVm, history, Comes, Becomes, StaysOn, VmNoted, VmKnown, Owns, Past, Building, Fits,
       Early
  <2>2. DiscsKnown(j)'
    BY <2>0, <1>4, <1>0, UndoVmDoes, DiscsKept DEF UndoVm, history, Comes, Becomes, Cleared
  <2>3. SecretKnown(j)' /\ SecretNamed(j)'
    BY <2>0, <1>4, <1>0, UndoVmDoes, SecretKept
    DEF UndoVm, history, Comes, Becomes, Dropped, Disc
  <2>4. UndoneIsClean(j)'
    BY <2>0, <1>4, <1>0, UndoVmDoes, NotUndone DEF UndoVm, history, Comes, Becomes
  <2> QED
    BY <2>1, <2>2, <2>3, <2>4 DEF CleanAt
<1>5. CASE UndoVmFails(j)
  <2>0. StaysOn(j) /\ mem[j].part # "end"
    BY <1>5, <1>0, UndoVmFailsDoes DEF StaysOn, Comes, Becomes
  <2>1. VmNoted(j)' /\ VmKnown(j)'
    <3>1. "vm" \in left'[of[j]] /\ rec' = rec
      BY <1>0, <1>5 DEF UndoVmFails, B
    <3>2. mem'[j].at = mem[j].at /\ mem'[j].vmid = mem[j].vmid
      BY <1>0, <1>5, UndoVmFailsDoes DEF Comes, Becomes
    <3> QED
      BY <1>0, <2>0, <3>1, <3>2 DEF StaysOn, VmNoted, VmKnown
  <2>2. DiscsKnown(j)'
    BY <2>0, <1>5, <1>0, UndoVmFailsDoes, DiscsKept
    DEF UndoVmFails, cluster, Comes, Becomes, Cleared
  <2>3. SecretKnown(j)' /\ SecretNamed(j)'
    <3>1. /\ ~ Dropped(mem[j]) /\ ~ Dropped(mem[j])' /\ mem'[j].part \notin Disc
          /\ mem'[j].cred = mem[j].cred /\ mem'[j].at = mem[j].at
      BY <1>0, <1>5, UndoVmFailsDoes DEF Comes, Becomes, Dropped, Disc
    <3>2. /\ secrets' = secrets /\ sw' = sw /\ orphans' = orphans /\ rec' = rec
          /\ left[of[j]] \subseteq left'[of[j]]
      BY <1>0, <1>5 DEF UndoVmFails, B
    <3> QED
      BY <2>0, <1>0, <3>1, <3>2, SecretKept
  <2>4. UndoneIsClean(j)'
    BY <2>0, <1>5, <1>0, UndoVmFailsDoes, NotUndone DEF UndoVmFails, cluster, Comes, Becomes
  <2> QED
    BY <2>1, <2>2, <2>3, <2>4 DEF CleanAt
<1> QED
  BY <1>2, <1>3, <1>4, <1>5

\* Steps that put a CD on the storage or take it off.
LEMMA DiscClean ==
  ASSUME CleanInv, NEW j \in Job, of[j] \in Build, CleanAt(j),
         NameSecret(j) \/ SendDisc(j) \/ DeleteAnswers(j) \/ DeletePackages(j) \/ StepFails(j)
         \/ UndoDiscs(j) \/ UndoDiscsFails(j)
  PROVE  CleanAt(j)'
<1>0. /\ TypeInv /\ Fits(j, mem[j]) /\ mem[j].vmid \in Vmid \union {NoVm}
      /\ mem[j].part \in UndoParts <=> mem[j].ending # "none"
      /\ mem[j].alive => row[j] \notin {"NONE", "QUEUED"}
      /\ VmNoted(j) /\ VmKnown(j) /\ DiscsKnown(j)
      /\ SecretKnown(j) /\ SecretNamed(j) /\ UndoneIsClean(j)
      /\ vms \in [Vmid -> Build \union {Nobody}] /\ discs \in [Build -> SUBSET Disc]
      /\ Nobody \notin Build /\ NoVm \notin Vmid /\ NoJob \notin Job
      /\ left \in [Build -> SUBSET {"vm", "discs", "secret"}]
  BY NoVmIsNone, ProvisioningAssumption
  DEF CleanInv, OwnInv, MemFits, TypeInv, JobTypes, ThingTypes, MemType, RowFits, CleanAt
<1>2. CASE NameSecret(j)
  <2>0. StaysOn(j) /\ mem[j].part # "end"
    BY <1>2, <1>0, NameSecretDoes DEF StaysOn, Becomes
  <2>1. VmNoted(j)' /\ VmKnown(j)'
    BY <2>0, <1>2, <1>0, NameSecretDoes, NameSecretWrites, VmKept
    DEF NameSecret, cluster, Becomes, Writes, Past, Building
  <2>2. DiscsKnown(j)'
    BY <2>0, <1>2, <1>0, NameSecretDoes, NameSecretWrites, DiscsKept
    DEF NameSecret, cluster, Becomes, Writes, Cleared, Fits
  <2>3. SecretKnown(j)' /\ SecretNamed(j)'
    BY <2>0, <1>2, <1>0, NameSecretDoes, NameSecretWrites, SecretKept
    DEF NameSecret, cluster, Becomes, Writes, Dropped, Disc
  <2>4. UndoneIsClean(j)'
    BY <2>0, <1>2, <1>0, NameSecretDoes, NameSecretWrites, NotUndone
    DEF NameSecret, cluster, Becomes, Writes
  <2> QED
    BY <2>1, <2>2, <2>3, <2>4 DEF CleanAt
<1>3. CASE SendDisc(j)
  <2>0. StaysOn(j) /\ mem[j].part # "end"
    BY <1>3, <1>0, SendDiscDoes DEF StaysOn, Comes, Becomes, Disc
  <2>1. VmNoted(j)' /\ VmKnown(j)'
    BY <2>0, <1>3, <1>0, SendDiscDoes, VmKept
    DEF SendDisc, history, Comes, Becomes, Past, Building
  <2>2. DiscsKnown(j)'
    <3>1. PICK d \in Disc : /\ mem[j].part = d /\ mem[j].at = "answers"
                           /\ discs' = [discs EXCEPT ![of[j]] = @ \union {d}]
      BY <1>3 DEF SendDisc, At, B
    <3>2. discs'[of[j]] = discs[of[j]] \union {d} /\ left' = left
      BY <1>0, <1>3, <3>1 DEF SendDisc, history
    <3>3. mem[j].discs \subseteq Disc
      BY <1>0 DEF TypeInv, JobTypes, MemType
    <3>4. /\ d \in mem[j].discs /\ mem[j].discs \subseteq mem'[j].discs
          /\ ~ Cleared(mem[j]) /\ ~ Cleared(mem[j])'
      BY <1>0, <1>3, <3>1, <3>3, SendDiscDoes DEF Comes, Becomes, Fits, Cleared, Disc
    <3> QED
      BY <1>0, <2>0, <3>2, <3>4 DEF DiscsKnown, StaysOn
  <2>3. SecretKnown(j)' /\ SecretNamed(j)'
    BY <2>0, <1>3, <1>0, SendDiscDoes, SecretKept
    DEF SendDisc, history, Comes, Becomes, Dropped, Disc
  <2>4. UndoneIsClean(j)'
    BY <2>0, <1>3, <1>0, SendDiscDoes, NotUndone DEF SendDisc, history, Comes, Becomes
  <2> QED
    BY <2>1, <2>2, <2>3, <2>4 DEF CleanAt
<1>4. CASE DeleteAnswers(j)
  <2>0. StaysOn(j) /\ mem[j].part # "end"
    BY <1>4, <1>0, DeleteAnswersDoes DEF StaysOn, Becomes
  <2>1. VmNoted(j)' /\ VmKnown(j)'
    BY <2>0, <1>4, <1>0, DeleteAnswersDoes, VmKept
    DEF DeleteAnswers, history, Becomes, Past, Building
  <2>2. DiscsKnown(j)'
    <3>1. discs'[of[j]] = discs[of[j]] \ {"answers"} /\ left' = left
      BY <1>0, <1>4 DEF DeleteAnswers, B, history
    <3>2. /\ mem'[j].discs = mem[j].discs \ {"answers"}
          /\ ~ Cleared(mem[j]) /\ ~ Cleared(mem[j])'
      BY <1>0, <1>4, DeleteAnswersDoes DEF Becomes, Cleared
    <3> QED
      BY <1>0, <2>0, <3>1, <3>2 DEF DiscsKnown, StaysOn
  <2>3. SecretKnown(j)' /\ SecretNamed(j)'
    BY <2>0, <1>4, <1>0, DeleteAnswersDoes, SecretKept
    DEF DeleteAnswers, history, Becomes, Dropped, Disc
  <2>4. UndoneIsClean(j)'
    BY <2>0, <1>4, <1>0, DeleteAnswersDoes, NotUndone DEF DeleteAnswers, history, Becomes
  <2> QED
    BY <2>1, <2>2, <2>3, <2>4 DEF CleanAt
<1>5. CASE DeletePackages(j)
  <2>0. StaysOn(j) /\ mem[j].part # "end"
    BY <1>5, <1>0, DeletePackagesDoes DEF StaysOn, Becomes
  <2>1. VmNoted(j)' /\ VmKnown(j)'
    BY <2>0, <1>5, <1>0, DeletePackagesDoes, VmKept
    DEF DeletePackages, history, Becomes, Past, Building
  <2>2. DiscsKnown(j)'
    <3>1. discs'[of[j]] = discs[of[j]] \ mem[j].discs
      BY <1>0, <1>5 DEF DeletePackages, B
    <3>2. ~ Cleared(mem[j]) /\ ~ Cleared(mem[j])'
      BY <1>0, <1>5, DeletePackagesDoes DEF Becomes, Cleared
    <3> QED
      BY <1>0, <2>0, <3>1, <3>2 DEF DiscsKnown, StaysOn
  <2>3. SecretKnown(j)' /\ SecretNamed(j)'
    BY <2>0, <1>5, <1>0, DeletePackagesDoes, SecretKept
    DEF DeletePackages, history, Becomes, Dropped, Disc
  <2>4. UndoneIsClean(j)'
    BY <2>0, <1>5, <1>0, DeletePackagesDoes, NotUndone DEF DeletePackages, history, Becomes
  <2> QED
    BY <2>1, <2>2, <2>3, <2>4 DEF CleanAt
<1>6. CASE StepFails(j)
  <2>0. StaysOn(j) /\ mem[j].part # "end"
    BY <1>6, <1>0, StepFailsDoes DEF StaysOn, Gives, Becomes, UndoParts
  <2>1. VmNoted(j)' /\ VmKnown(j)'
    BY <2>0, <1>6, <1>0, StepFailsDoes, VmKept
    DEF StepFails, history, Gives, Becomes, Past, Building, UndoParts
  <2>2. DiscsKnown(j)'
    <3>1. /\ \E sent \in SUBSET mem[j].discs : discs'[of[j]] = discs[of[j]] \union sent
          /\ left' = left
      BY <1>0, <1>6 DEF StepFails, B, history
    <3>2. mem'[j].discs = mem[j].discs /\ ~ Cleared(mem[j]) /\ ~ Cleared(mem[j])'
      BY <1>0, <1>6, StepFailsDoes DEF Gives, Becomes, Cleared, UndoParts
    <3> QED
      BY <1>0, <2>0, <3>1, <3>2 DEF DiscsKnown, StaysOn
  <2>3. SecretKnown(j)' /\ SecretNamed(j)'
    <3>1. /\ ~ Dropped(mem[j]) /\ ~ Dropped(mem[j])' /\ mem'[j].part \notin Disc
          /\ mem'[j].cred = mem[j].cred /\ mem'[j].at = mem[j].at
      BY <1>0, <1>6, StepFailsDoes DEF Gives, Becomes, Dropped, Disc, UndoParts
    <3>2. /\ secrets' = secrets /\ sw' = sw /\ orphans' = orphans /\ rec' = rec
          /\ left[of[j]] \subseteq left'[of[j]]
      BY <1>0, <1>6 DEF StepFails, history
    <3> QED
      BY <2>0, <1>0, <3>1, <3>2, SecretKept
  <2>4. UndoneIsClean(j)'
    BY <2>0, <1>6, <1>0, StepFailsDoes, NotUndone
    DEF StepFails, history, Gives, Becomes, UndoParts
  <2> QED
    BY <2>1, <2>2, <2>3, <2>4 DEF CleanAt
<1>7. CASE UndoDiscs(j)
  <2>0. StaysOn(j) /\ mem[j].part # "end"
    BY <1>7, <1>0, UndoDiscsDoes DEF StaysOn, Comes, Becomes
  <2>1. VmNoted(j)' /\ VmKnown(j)'
    BY <2>0, <1>7, <1>0, UndoDiscsDoes, VmKept
    DEF UndoDiscs, history, Comes, Becomes, Past, Building
  <2>2. DiscsKnown(j)'
    <3>1. discs'[of[j]] = discs[of[j]] \ mem[j].discs
      BY <1>0, <1>7 DEF UndoDiscs, B
    <3>2. ~ Cleared(mem[j]) /\ Cleared(mem[j])'
      BY <1>0, <1>7, UndoDiscsDoes DEF Comes, Becomes, Cleared, Fits
    <3> QED
      BY <1>0, <2>0, <3>1, <3>2 DEF DiscsKnown, StaysOn
  <2>3. SecretKnown(j)' /\ SecretNamed(j)'
    <3>1. /\ ~ Dropped(mem[j]) /\ ~ Dropped(mem[j])' /\ mem'[j].part \notin Disc
          /\ mem'[j].cred = mem[j].cred /\ mem'[j].at = mem[j].at
      BY <1>0, <1>7, UndoDiscsDoes DEF Comes, Becomes, Dropped, Disc
    <3>2. /\ secrets' = secrets /\ sw' = sw /\ orphans' = orphans /\ rec' = rec
          /\ left[of[j]] \subseteq left'[of[j]]
      BY <1>0, <1>7 DEF UndoDiscs, history
    <3> QED
      BY <2>0, <1>0, <3>1, <3>2, SecretKept
  <2>4. UndoneIsClean(j)'
    BY <2>0, <1>7, <1>0, UndoDiscsDoes, NotUndone DEF UndoDiscs, history, Comes, Becomes
  <2> QED
    BY <2>1, <2>2, <2>3, <2>4 DEF CleanAt
<1>8. CASE UndoDiscsFails(j)
  <2>0. StaysOn(j) /\ mem[j].part # "end"
    BY <1>8, <1>0, UndoDiscsFailsDoes DEF StaysOn, Comes, Becomes
  <2>1. VmNoted(j)' /\ VmKnown(j)'
    <3>1. /\ vms' = vms /\ unseen' = unseen /\ rec' = rec
          /\ left[of[j]] \subseteq left'[of[j]]
      BY <1>0, <1>8 DEF UndoDiscsFails, B, cluster
    <3> QED
      BY <2>0, <1>8, <1>0, <3>1, UndoDiscsFailsDoes, VmKept DEF Comes, Becomes, Past
  <2>2. DiscsKnown(j)'
    <3>1. "discs" \in left'[of[j]]
      BY <1>0, <1>8 DEF UndoDiscsFails, B
    <3>2. Cleared(mem[j])'
      BY <1>0, <1>8, UndoDiscsFailsDoes DEF Comes, Becomes, Fits, Cleared
    <3> QED
      BY <1>0, <2>0, <3>1, <3>2 DEF DiscsKnown, StaysOn
  <2>3. SecretKnown(j)' /\ SecretNamed(j)'
    <3>1. /\ ~ Dropped(mem[j]) /\ ~ Dropped(mem[j])' /\ mem'[j].part \notin Disc
          /\ mem'[j].cred = mem[j].cred /\ mem'[j].at = mem[j].at
      BY <1>0, <1>8, UndoDiscsFailsDoes DEF Comes, Becomes, Dropped, Disc
    <3>2. /\ secrets' = secrets /\ sw' = sw /\ orphans' = orphans /\ rec' = rec
          /\ left[of[j]] \subseteq left'[of[j]]
      BY <1>0, <1>8 DEF UndoDiscsFails, B
    <3> QED
      BY <2>0, <1>0, <3>1, <3>2, SecretKept
  <2>4. UndoneIsClean(j)'
    BY <2>0, <1>8, <1>0, UndoDiscsFailsDoes, NotUndone
    DEF UndoDiscsFails, cluster, Comes, Becomes
  <2> QED
    BY <2>1, <2>2, <2>3, <2>4 DEF CleanAt
<1> QED
  BY <1>2, <1>3, <1>4, <1>5, <1>6, <1>7, <1>8

\* Steps that store a credential or drop it.
LEMMA SecretClean ==
  ASSUME CleanInv, NEW j \in Job, of[j] \in Build, CleanAt(j),
         StoreSecret(j) \/ UndoSecret(j)
  PROVE  CleanAt(j)'
<1>0. /\ TypeInv /\ Fits(j, mem[j]) /\ mem[j].vmid \in Vmid \union {NoVm}
      /\ mem[j].part \in UndoParts <=> mem[j].ending # "none"
      /\ mem[j].alive => row[j] \notin {"NONE", "QUEUED"}
      /\ VmNoted(j) /\ VmKnown(j) /\ DiscsKnown(j)
      /\ SecretKnown(j) /\ SecretNamed(j) /\ UndoneIsClean(j)
      /\ vms \in [Vmid -> Build \union {Nobody}] /\ discs \in [Build -> SUBSET Disc]
      /\ Nobody \notin Build /\ NoVm \notin Vmid /\ NoJob \notin Job
      /\ left \in [Build -> SUBSET {"vm", "discs", "secret"}]
  BY NoVmIsNone, ProvisioningAssumption
  DEF CleanInv, OwnInv, MemFits, TypeInv, JobTypes, ThingTypes, MemType, RowFits, CleanAt
<1>2. CASE StoreSecret(j)
  <2>0. StaysOn(j) /\ mem[j].part # "end"
    BY <1>2, <1>0, StoreSecretDoes DEF StaysOn, Becomes
  <2>1. VmNoted(j)' /\ VmKnown(j)'
    BY <2>0, <1>2, <1>0, StoreSecretDoes, VmKept
    DEF StoreSecret, cluster, history, Becomes, Past, Building
  <2>2. DiscsKnown(j)'
    BY <2>0, <1>2, <1>0, StoreSecretDoes, DiscsKept
    DEF StoreSecret, cluster, history, Becomes, Cleared
  <2>3. SecretKnown(j)' /\ SecretNamed(j)'
    BY <2>0, <1>2, <1>0, StoreSecretDoes
    DEF StoreSecret, cluster, history, Becomes, StaysOn, SecretKnown, SecretNamed, Dropped,
       Fits, Disc
  <2>4. UndoneIsClean(j)'
    BY <2>0, <1>2, <1>0, StoreSecretDoes, NotUndone DEF StoreSecret, cluster, history, Becomes
  <2> QED
    BY <2>1, <2>2, <2>3, <2>4 DEF CleanAt
<1>3. CASE UndoSecret(j)
  <2>0. StaysOn(j) /\ mem[j].part # "end"
    BY <1>3, <1>0, UndoSecretDoes DEF StaysOn, Comes, Becomes
  <2>1. VmNoted(j)' /\ VmKnown(j)'
    BY <2>0, <1>3, <1>0, UndoSecretDoes, VmKept
    DEF UndoSecret, cluster, Comes, Becomes, Past, Building
  <2>2. DiscsKnown(j)'
    BY <2>0, <1>3, <1>0, UndoSecretDoes, DiscsKept
    DEF UndoSecret, cluster, Comes, Becomes, Cleared
  <2>3. SecretKnown(j)' /\ SecretNamed(j)'
    BY <2>0, <1>3, <1>0, UndoSecretDoes
    DEF UndoSecret, cluster, B, Comes, Becomes, StaysOn, SecretKnown, SecretNamed, Dropped,
       Fits, Disc
  <2>4. UndoneIsClean(j)'
    BY <2>0, <1>3, <1>0, UndoSecretDoes, NotUndone DEF UndoSecret, cluster, Comes, Becomes
  <2> QED
    BY <2>1, <2>2, <2>3, <2>4 DEF CleanAt
<1> QED
  BY <1>2, <1>3

\* The row of the job, and a cancellation that is asked for.
LEMMA RowClean ==
  ASSUME CleanInv, NEW j \in Job, of[j] \in Build, CleanAt(j),
         Claim(j) \/ Reconcile(j) \/ Stall(j) \/ CancelQueued(j) \/ AskCancel(j)
  PROVE  CleanAt(j)'
<1>0. /\ TypeInv /\ Fits(j, mem[j]) /\ mem[j].vmid \in Vmid \union {NoVm}
      /\ mem[j].part \in UndoParts <=> mem[j].ending # "none"
      /\ mem[j].alive => row[j] \notin {"NONE", "QUEUED"}
      /\ VmNoted(j) /\ VmKnown(j) /\ DiscsKnown(j)
      /\ SecretKnown(j) /\ SecretNamed(j) /\ UndoneIsClean(j)
      /\ vms \in [Vmid -> Build \union {Nobody}] /\ discs \in [Build -> SUBSET Disc]
      /\ Nobody \notin Build /\ NoVm \notin Vmid /\ NoJob \notin Job
      /\ left \in [Build -> SUBSET {"vm", "discs", "secret"}]
  BY NoVmIsNone, ProvisioningAssumption
  DEF CleanInv, OwnInv, MemFits, TypeInv, JobTypes, ThingTypes, MemType, RowFits, CleanAt
<1>2. CASE Claim(j)
  <2>1. VmNoted(j)' /\ VmKnown(j)'
    BY <1>2, <1>0, ClaimDoes
    DEF VmNoted, VmKnown, Owns, Past, Building, Fits, UndoParts, Claim, cluster, history
  <2>2. DiscsKnown(j)'
    BY <1>2, <1>0, ClaimDoes DEF DiscsKnown, Cleared, Fits, UndoParts, Claim, cluster, history
  <2>3. SecretKnown(j)' /\ SecretNamed(j)'
    BY <1>2, <1>0, ClaimDoes
    DEF SecretKnown, SecretNamed, Dropped, Fits, UndoParts, Claim, cluster, history
  <2>4. UndoneIsClean(j)'
    BY <1>2, <1>0, ClaimDoes DEF UndoneIsClean, Undone, HasVm, Claim, cluster, history
  <2> QED
    BY <2>1, <2>2, <2>3, <2>4 DEF CleanAt
<1>3. CASE Reconcile(j)
  <2>1. VmNoted(j)' /\ VmKnown(j)'
    BY <1>3, <1>0
    DEF VmNoted, VmKnown, Owns, Past, Building, Fits, UndoParts, Reconcile, cluster, history
  <2>2. DiscsKnown(j)'
    BY <1>3, <1>0 DEF DiscsKnown, Cleared, Fits, UndoParts, Reconcile, cluster, history
  <2>3. SecretKnown(j)' /\ SecretNamed(j)'
    BY <1>3, <1>0
    DEF SecretKnown, SecretNamed, Dropped, Fits, UndoParts, Reconcile, cluster, history
  <2>4. UndoneIsClean(j)'
    BY <1>3, <1>0 DEF UndoneIsClean, Undone, HasVm, Reconcile, cluster, history
  <2> QED
    BY <2>1, <2>2, <2>3, <2>4 DEF CleanAt
<1>4. CASE Stall(j)
  <2>1. VmNoted(j)' /\ VmKnown(j)'
    BY <1>4, <1>0
    DEF VmNoted, VmKnown, Owns, Past, Building, Fits, UndoParts, Stall, cluster, history
  <2>2. DiscsKnown(j)'
    BY <1>4, <1>0 DEF DiscsKnown, Cleared, Fits, UndoParts, Stall, cluster, history
  <2>3. SecretKnown(j)' /\ SecretNamed(j)'
    BY <1>4, <1>0
    DEF SecretKnown, SecretNamed, Dropped, Fits, UndoParts, Stall, cluster, history
  <2>4. UndoneIsClean(j)'
    BY <1>4, <1>0 DEF UndoneIsClean, Undone, HasVm, Stall, cluster, history
  <2> QED
    BY <2>1, <2>2, <2>3, <2>4 DEF CleanAt
<1>5. CASE CancelQueued(j)
  <2>1. VmNoted(j)' /\ VmKnown(j)'
    BY <1>5, <1>0
    DEF VmNoted, VmKnown, Owns, Past, Building, Fits, UndoParts, CancelQueued, cluster, history
  <2>2. DiscsKnown(j)'
    BY <1>5, <1>0 DEF DiscsKnown, Cleared, Fits, UndoParts, CancelQueued, cluster, history
  <2>3. SecretKnown(j)' /\ SecretNamed(j)'
    BY <1>5, <1>0
    DEF SecretKnown, SecretNamed, Dropped, Fits, UndoParts, CancelQueued, cluster, history
  <2>4. UndoneIsClean(j)'
    BY <1>5, <1>0 DEF UndoneIsClean, Undone, HasVm, CancelQueued, cluster, history
  <2> QED
    BY <2>1, <2>2, <2>3, <2>4 DEF CleanAt
<1>6. CASE AskCancel(j)
  <2>1. VmNoted(j)' /\ VmKnown(j)'
    BY <1>6, <1>0, AskCancelDoes
    DEF VmNoted, VmKnown, Owns, Past, Building, Fits, UndoParts, AskCancel, cluster, history,
       Comes, Becomes
  <2>2. DiscsKnown(j)'
    BY <1>6, <1>0, AskCancelDoes
    DEF DiscsKnown, Cleared, Fits, UndoParts, AskCancel, cluster, history, Comes, Becomes
  <2>3. SecretKnown(j)' /\ SecretNamed(j)'
    BY <1>6, <1>0, AskCancelDoes
    DEF SecretKnown, SecretNamed, Dropped, Fits, UndoParts, AskCancel, cluster, history, Comes,
       Becomes
  <2>4. UndoneIsClean(j)'
    BY <1>6, <1>0, AskCancelDoes
    DEF UndoneIsClean, Undone, HasVm, AskCancel, cluster, history, Comes, Becomes
  <2> QED
    BY <2>1, <2>2, <2>3, <2>4 DEF CleanAt
<1> QED
  BY <1>2, <1>3, <1>4, <1>5, <1>6

\* The worker is gone, and what only it knew is recorded as forgotten.
LEMMA GoneClean ==
  ASSUME CleanInv, NEW j \in Job, of[j] \in Build, CleanAt(j),
         WorkerDies(j) \/ Abandon(j) \/ Succeed(j) \/ End(j)
  PROVE  CleanAt(j)'
<1>0. /\ TypeInv /\ Fits(j, mem[j]) /\ mem[j].vmid \in Vmid \union {NoVm}
      /\ mem[j].part \in UndoParts <=> mem[j].ending # "none"
      /\ mem[j].alive => row[j] \notin {"NONE", "QUEUED"}
      /\ VmNoted(j) /\ VmKnown(j) /\ DiscsKnown(j)
      /\ SecretKnown(j) /\ SecretNamed(j) /\ UndoneIsClean(j)
      /\ vms \in [Vmid -> Build \union {Nobody}] /\ discs \in [Build -> SUBSET Disc]
      /\ Nobody \notin Build /\ NoVm \notin Vmid /\ NoJob \notin Job
      /\ left \in [Build -> SUBSET {"vm", "discs", "secret"}]
  BY NoVmIsNone, ProvisioningAssumption
  DEF CleanInv, OwnInv, MemFits, TypeInv, JobTypes, ThingTypes, MemType, RowFits, CleanAt
<1>2. CASE WorkerDies(j)
  <2>0. mem[j].alive /\ ~ mem'[j].alive /\ of' = of /\ vms' = vms /\ row'[j] # "QUEUED"
    BY <1>2, <1>0, GoesDoes DEF WorkerDies, Goes, NoMem, TypeInv, JobTypes
  <2>1. VmNoted(j)' /\ VmKnown(j)'
    BY <1>2, <2>0, <1>0
    DEF VmNoted, VmKnown, Owns, Past, Building, Fits, WorkerDies, cluster, Forgets, B
  <2>2. DiscsKnown(j)'
    BY <1>2, <2>0, <1>0 DEF DiscsKnown, Cleared, WorkerDies, cluster, Forgets, B
  <2>3. SecretKnown(j)' /\ SecretNamed(j)'
    BY <1>2, <2>0, <1>0
    DEF SecretKnown, SecretNamed, Dropped, Fits, WorkerDies, cluster, Forgets, B
  <2>4. UndoneIsClean(j)'
    BY <1>2, <2>0, <1>0 DEF UndoneIsClean, Undone, HasVm, WorkerDies, cluster, Forgets, B
  <2> QED
    BY <2>1, <2>2, <2>3, <2>4 DEF CleanAt
<1>3. CASE Abandon(j)
  <2>0. mem[j].alive /\ ~ mem'[j].alive /\ of' = of /\ vms' = vms /\ row'[j] # "QUEUED"
    BY <1>3, <1>0, GoesDoes DEF Abandon, Goes, NoMem, TypeInv, JobTypes
  <2>1. VmNoted(j)' /\ VmKnown(j)'
    BY <1>3, <2>0, <1>0
    DEF VmNoted, VmKnown, Owns, Past, Building, Fits, Abandon, cluster, Forgets, B
  <2>2. DiscsKnown(j)'
    BY <1>3, <2>0, <1>0 DEF DiscsKnown, Cleared, Abandon, cluster, Forgets, B
  <2>3. SecretKnown(j)' /\ SecretNamed(j)'
    BY <1>3, <2>0, <1>0
    DEF SecretKnown, SecretNamed, Dropped, Fits, Abandon, cluster, Forgets, B
  <2>4. UndoneIsClean(j)'
    BY <1>3, <2>0, <1>0 DEF UndoneIsClean, Undone, HasVm, Abandon, cluster, Forgets, B
  <2> QED
    BY <2>1, <2>2, <2>3, <2>4 DEF CleanAt
<1>4. CASE Succeed(j)
  <2>0. mem[j].alive /\ ~ mem'[j].alive /\ of' = of /\ vms' = vms /\ row'[j] # "QUEUED"
    BY <1>4, <1>0, GoesDoes DEF Succeed, Goes, NoMem, TypeInv, JobTypes
  <2>1. VmNoted(j)' /\ VmKnown(j)'
    BY <1>4, <2>0, <1>0
    DEF VmNoted, VmKnown, Owns, Past, Building, Fits, Succeed, cluster, history, At
  <2>2. DiscsKnown(j)'
    BY <1>4, <2>0, <1>0 DEF DiscsKnown, Cleared, Succeed, cluster, history, At
  <2>3. SecretKnown(j)' /\ SecretNamed(j)'
    BY <1>4, <2>0, <1>0
    DEF SecretKnown, SecretNamed, Dropped, Fits, Succeed, cluster, history, At
  <2>4. UndoneIsClean(j)'
    BY <1>4, <2>0, <1>0 DEF UndoneIsClean, Undone, HasVm, Succeed, cluster, history, At
  <2> QED
    BY <2>1, <2>2, <2>3, <2>4 DEF CleanAt
<1>5. CASE End(j)
  <2>0. mem[j].alive /\ ~ mem'[j].alive /\ of' = of /\ vms' = vms /\ row'[j] # "QUEUED"
    BY <1>5, <1>0, GoesDoes DEF End, Goes, NoMem, TypeInv, JobTypes, MemType
  <2>1. VmNoted(j)' /\ VmKnown(j)'
    BY <1>5, <2>0, <1>0
    DEF VmNoted, VmKnown, Owns, Past, Building, Fits, End, cluster, history, Undoing
  <2>2. DiscsKnown(j)'
    BY <1>5, <2>0, <1>0 DEF DiscsKnown, Cleared, End, cluster, history, Undoing
  <2>3. SecretKnown(j)' /\ SecretNamed(j)'
    BY <1>5, <2>0, <1>0
    DEF SecretKnown, SecretNamed, Dropped, Fits, End, cluster, history, Undoing
  <2>4. UndoneIsClean(j)'
    BY <1>5, <2>0, <1>0 DEF UndoneIsClean, Undone, HasVm, End, cluster, history, Undoing
  <2> QED
    BY <2>1, <2>2, <2>3, <2>4 DEF CleanAt
<1> QED
  BY <1>2, <1>3, <1>4, <1>5

-----------------------------------------------------------------------------
(* What the API, the sweep and those who retry do to it *)

\* What the actions below start from.
CleanParts(b) ==
  /\ TypeInv /\ JobRefs /\ SecretRefs /\ SingleAt(b) /\ UnbegunAt(b)
  /\ \A j \in Job : of[j] = b /\ b \notin strayed => CleanAt(j)
  /\ rec \in [Build -> RecType] /\ rec[b] \in RecType /\ Nobody \notin Build /\ NoJob \notin Job
  /\ asks \in [Build -> [at : {"none", "row", "job", "over"}, job : Job \union {NoJob}]]
  /\ of \in [Job -> Build \union {Nobody}]
  /\ left \in [Build -> SUBSET {"vm", "discs", "secret"}] /\ secrets \subseteq Job
LEMMA CleanHas ==
  ASSUME CleanInv, NEW b \in Build
  PROVE  CleanParts(b)
BY ProvisioningAssumption
DEF CleanParts, CleanInv, OwnInv, Refs, TypeInv, RecordTypes, JobTypes, ThingTypes

\* An answer to a request for a build that has no job yet.
LEMMA RequestClean ==
  ASSUME CleanInv, OwnInv', NEW b \in Build, Request(b) \/ RequestRefused(b)
  PROVE  CleanInv'
<1>0. CleanParts(b)
  BY CleanHas
<1> DEFINE r == rec'[b]
<1>1. /\ r.job = NoJob /\ r.cred = NoJob /\ r.state \in {"none", "QUEUED"}
      /\ \A c \in Build : c # b => rec'[c] = rec[c]
  BY <1>0 DEF Request, RequestRefused, Record, NoRec, CleanParts
<1>2. /\ asks'[b].at \in {"row", "over"} /\ asks[b].at \in {"none", "row"}
      /\ \A c \in Build : c # b => asks'[c] = asks[c]
  BY <1>0 DEF Request, RequestRefused, CleanParts
<1>3. /\ of' = of /\ row' = row /\ mem' = mem /\ vms' = vms /\ discs' = discs
      /\ secrets' = secrets /\ sw' = sw /\ left' = left /\ unseen' = unseen
      /\ orphans' = orphans /\ strayed' = strayed
  BY DEF Request, RequestRefused, jobs, cluster, history
<1> HIDE DEF r
<1>4. Apart(b)
  BY <1>1, <1>2, <1>3 DEF Apart
<1>5. \A j \in Job : of[j] # b
  BY <1>0, <1>2 DEF CleanParts, SingleAt
<1>6. SingleAt(b)' /\ UnbegunAt(b)'
  BY <1>0, <1>1, <1>3, <1>5 DEF SingleAt, UnbegunAt, CleanParts, r
<1>7. JobRefs'
  BY <1>0, <1>1, <1>2, <1>3 DEF JobRefs, CleanParts, r
<1>8. SecretRefs'
  BY <1>0, <1>1, <1>3 DEF SecretRefs, CleanParts, r
<1> QED
  BY <1>3, <1>4, <1>5, <1>6, <1>7, <1>8, ApartSuffices DEF Refs

LEMMA RequestJobClean ==
  ASSUME CleanInv, OwnInv', NEW b \in Build, RequestJob(b)
  PROVE  CleanInv'
<1>0. CleanParts(b)
  BY CleanHas
<1>1. PICK j \in Job : Insert(j, b) /\ asks' = [asks EXCEPT ![b] = [at |-> "job", job |-> j]]
  BY DEF RequestJob
<1>2. /\ of[j] = Nobody /\ ~ mem[j].alive /\ j \notin secrets
      /\ of' = [of EXCEPT ![j] = b] /\ row' = [row EXCEPT ![j] = "QUEUED"] /\ mem' = mem
  BY <1>0, <1>1 DEF Insert, Free, CleanParts, TypeInv, JobTypes, RowFits, SecretRefs
<1>3. /\ rec' = rec /\ vms' = vms /\ discs' = discs /\ secrets' = secrets /\ sw' = sw
      /\ left' = left /\ unseen' = unseen /\ orphans' = orphans /\ strayed' = strayed
  BY DEF RequestJob, cluster, history
<1>4. /\ of'[j] = b /\ row'[j] = "QUEUED"
      /\ \A i \in Job : i # j => of'[i] = of[i] /\ row'[i] = row[i]
  BY <1>0, <1>2 DEF CleanParts, TypeInv, JobTypes
<1>5. /\ asks'[b].at = "job" /\ asks'[b].job = j
      /\ \A c \in Build : c # b => asks'[c] = asks[c]
  BY <1>0, <1>1 DEF CleanParts
<1>6. Apart(b)
  BY <1>2, <1>3, <1>4, <1>5 DEF Apart
<1>7. \A i \in Job : of[i] # b
  BY <1>0 DEF RequestJob, CleanParts, SingleAt
<1>8. SingleAt(b)' /\ UnbegunAt(b)'
  BY <1>0, <1>4, <1>5, <1>7 DEF SingleAt, UnbegunAt
<1>9. CleanAt(j)'
  <2>1. /\ \A v \in Vmid : vms[v] # b
        /\ discs[b] = {} /\ rec[b].state \notin {"FAILED", "CANCELLED"}
    BY <1>0, <1>7 DEF CleanParts, UnbegunAt
  <2>2. VmNoted(j)' /\ VmKnown(j)' /\ DiscsKnown(j)'
    BY <1>2, <1>3, <1>4, <2>1 DEF VmNoted, VmKnown, DiscsKnown
  <2>3. SecretKnown(j)' /\ SecretNamed(j)' /\ UndoneIsClean(j)'
    BY <1>2, <1>3, <1>4, <2>1 DEF SecretKnown, SecretNamed, UndoneIsClean, Undone
  <2> QED
    BY <2>2, <2>3 DEF CleanAt
<1>10. JobRefs'
  <2>1. \A i \in Job : of[i] # Nobody => of'[i] = of[i]
    BY <1>2, <1>4
  <2>2. \A c \in Build : /\ asks[c].at = "job" => asks[c].job \in Job
                         /\ rec[c].job # NoJob => rec[c].job \in Job
    BY <1>0 DEF CleanParts, TypeInv, RecordTypes, RecType
  <2>3. \A c \in Build : /\ asks'[c].at = "job" => of'[asks'[c].job] = c
                         /\ rec[c].job # NoJob => of'[rec[c].job] = c
    BY <1>0, <1>4, <1>5, <2>1, <2>2 DEF JobRefs, CleanParts
  <2>4. sw.at # "idle" => sw.build \in Build
    BY <1>0 DEF CleanParts, TypeInv, RecordTypes
  <2> QED
    BY <1>0, <1>3, <2>1, <2>3, <2>4 DEF JobRefs, CleanParts
<1>11. SecretRefs'
  <2>1. \A i \in Job : of[i] # Nobody => of'[i] = of[i]
    BY <1>2, <1>4
  <2>2. /\ \A c \in Build : rec[c].cred # NoJob => rec[c].cred \in Job
        /\ sw.cred # NoJob => sw.cred \in Job
        /\ sw.at # "idle" => sw.build \in Build
    BY <1>0 DEF CleanParts, TypeInv, RecordTypes, RecType
  <2> QED
    BY <1>0, <1>3, <2>1, <2>2 DEF SecretRefs, CleanParts
<1>12. \A i \in Job : of'[i] = b => i = j
  BY <1>4, <1>7
<1> QED
  BY <1>6, <1>8, <1>9, <1>10, <1>11, <1>12, ApartSuffices DEF Refs

\* An action about a build that leaves its jobs, and their memory, as they are.
LEMMA AroundSuffices ==
  ASSUME CleanInv, OwnInv', Refs', NEW b \in Build, Apart(b),
         jobs' = jobs, cluster' = cluster, strayed' = strayed, unseen' = unseen,
         asks'[b].at \in {"none", "row"} => asks[b].at \in {"none", "row"},
         rec'[b].vmid = rec[b].vmid, left[b] \subseteq left'[b],
         \/ rec'[b].state = rec[b].state /\ rec'[b].error = rec[b].error
         \/ rec'[b].error = "worker_lost" /\ \E j \in Job : of[j] = b,
         secrets' \subseteq secrets,
         \A j \in secrets' : j \notin orphans' /\ "secret" \notin left'[b] =>
           /\ j \notin orphans
           /\ rec[b].cred = j => \/ rec'[b].cred = j
                                 \/ sw'.at = "secret" /\ sw'.cred = j
           /\ sw.at = "secret" /\ sw.cred = j => sw'.at = "secret" /\ sw'.cred = j
  PROVE  CleanInv'
<1>0. CleanParts(b)
  BY CleanHas
<1>1. /\ row' = row /\ of' = of /\ mem' = mem /\ vms' = vms /\ discs' = discs
  BY DEF jobs, cluster
<1>2. SingleAt(b)' /\ UnbegunAt(b)'
  BY <1>0, <1>1 DEF SingleAt, UnbegunAt, CleanParts
<1>3. ASSUME NEW j \in Job, of[j] = b, b \notin strayed PROVE CleanAt(j)'
  <2>1. CleanAt(j)
    BY <1>0, <1>3 DEF CleanParts
  <2>2. VmNoted(j)' /\ VmKnown(j)' /\ DiscsKnown(j)'
    BY <1>1, <1>3, <2>1 DEF CleanAt, VmNoted, VmKnown, DiscsKnown, Owns, Cleared
  <2>3. SecretKnown(j)' /\ SecretNamed(j)'
    BY <1>1, <1>3, <2>1 DEF CleanAt, SecretKnown, SecretNamed, Dropped
  <2>4. UndoneIsClean(j)'
    BY <1>1, <1>3, <2>1 DEF CleanAt, UndoneIsClean, Undone, HasVm
  <2> QED
    BY <2>2, <2>3, <2>4 DEF CleanAt
<1> QED
  BY <1>1, <1>2, <1>3, ApartSuffices

LEMMA RequestLinksClean ==
  ASSUME CleanInv, OwnInv', NEW b \in Build, RequestLinks(b) \/ ApiDies(b)
  PROVE  CleanInv'
<1>0. CleanParts(b)
  BY CleanHas
<1>1. /\ rec'[b].vmid = rec[b].vmid /\ rec'[b].cred = rec[b].cred
      /\ rec'[b].state = rec[b].state /\ rec'[b].error = rec[b].error
      /\ rec'[b].job = rec[b].job \/ (rec'[b].job = asks[b].job /\ asks[b].at = "job")
      /\ \A c \in Build : c # b => rec'[c] = rec[c]
  <2> DEFINE r == [rec[b] EXCEPT !.job = asks[b].job]
  <2>1. /\ r.vmid = rec[b].vmid /\ r.cred = rec[b].cred /\ r.state = rec[b].state
        /\ r.error = rec[b].error /\ r.job = asks[b].job
    BY <1>0 DEF CleanParts, RecType
  <2>2. rec' = rec \/ (rec' = [rec EXCEPT ![b] = r] /\ asks[b].at = "job")
    BY DEF RequestLinks, ApiDies, Record
  <2> HIDE DEF r
  <2> QED
    BY <1>0, <2>1, <2>2 DEF CleanParts
<1>2. asks'[b].at = "over" /\ \A c \in Build : c # b => asks'[c] = asks[c]
  BY <1>0 DEF RequestLinks, ApiDies, CleanParts
<1>3. /\ jobs' = jobs /\ cluster' = cluster /\ history' = history /\ secrets' = secrets
      /\ sw' = sw
  BY DEF RequestLinks, ApiDies
<1>4. /\ row' = row /\ of' = of /\ mem' = mem /\ vms' = vms /\ discs' = discs
      /\ left' = left /\ unseen' = unseen /\ orphans' = orphans /\ strayed' = strayed
  BY <1>3 DEF jobs, cluster, history
<1>5. Apart(b)
  BY <1>1, <1>2, <1>3, <1>4 DEF Apart
<1>6. JobRefs'
  BY <1>0, <1>1, <1>2, <1>3, <1>4 DEF JobRefs, CleanParts
<1>7. SecretRefs'
  BY <1>0, <1>1, <1>3, <1>4 DEF SecretRefs, CleanParts
<1> QED
  BY <1>1, <1>2, <1>3, <1>4, <1>5, <1>6, <1>7, AroundSuffices DEF Refs

LEMMA SweepReadsClean ==
  ASSUME CleanInv, OwnInv', NEW b \in Build, SweepReads(b)
  PROVE  CleanInv'
<1>0. CleanParts(b)
  BY CleanHas
<1>1. /\ sw.at = "idle" /\ sw'.at = "lost" /\ sw'.build = b
      /\ sw'.cred \in {NoJob, rec[b].cred} /\ rec[b].job # NoJob
  BY DEF SweepReads, Reads
<1>2. /\ jobs' = jobs /\ cluster' = cluster /\ history' = history /\ secrets' = secrets
      /\ rec' = rec /\ asks' = asks
  BY DEF SweepReads
<1>3. /\ row' = row /\ of' = of /\ mem' = mem /\ vms' = vms /\ discs' = discs
      /\ left' = left /\ unseen' = unseen /\ orphans' = orphans /\ strayed' = strayed
  BY <1>2 DEF jobs, cluster, history
<1>4. Apart(b)
  BY <1>1, <1>2, <1>3 DEF Apart
<1>5. JobRefs'
  BY <1>0, <1>1, <1>2, <1>3 DEF JobRefs, CleanParts, RecType
<1>6. SecretRefs'
  BY <1>0, <1>1, <1>2, <1>3 DEF SecretRefs, CleanParts
<1> QED
  BY <1>1, <1>2, <1>3, <1>4, <1>5, <1>6, AroundSuffices DEF Refs

LEMMA SweepFailsClean ==
  ASSUME CleanInv, OwnInv', SweepFails
  PROVE  CleanInv'
<1> DEFINE b == sw.build
<1>0. b \in Build /\ CleanParts(b) /\ sw.at = "lost" /\ \E j \in Job : of[j] = b
  BY CleanHas DEF SweepFails, CleanInv, OwnInv, TypeInv, RecordTypes, Refs, JobRefs
<1>1. /\ jobs' = jobs /\ cluster' = cluster /\ asks' = asks /\ secrets' = secrets
      /\ row' = row /\ of' = of /\ mem' = mem /\ vms' = vms /\ discs' = discs
      /\ left' = left /\ unseen' = unseen /\ strayed' = strayed
  BY DEF SweepFails, jobs, cluster
<1>2. Swept.at = "idle"
  BY DEF Swept
<1>3. CASE rec[b].state \in Opened
  <2>1. /\ rec'[b].job = rec[b].job /\ rec'[b].vmid = rec[b].vmid /\ rec'[b].cred = NoJob
        /\ rec'[b].error = "worker_lost" /\ \A c \in Build : c # b => rec'[c] = rec[c]
    <3> DEFINE r == [rec[b] EXCEPT !.state = "FAILED", !.error = "worker_lost", !.cred = NoJob]
    <3>1. /\ r.job = rec[b].job /\ r.vmid = rec[b].vmid /\ r.cred = NoJob
          /\ r.error = "worker_lost"
      BY <1>0 DEF CleanParts, RecType
    <3>2. rec' = [rec EXCEPT ![b] = r]
      BY <1>3 DEF SweepFails, Record
    <3> HIDE DEF r
    <3> QED
      BY <1>0, <3>1, <3>2 DEF CleanParts
  <2>2. /\ orphans' = orphans \union ({rec[b].cred} \ {NoJob, sw.cred})
        /\ IF sw.cred = NoJob THEN sw' = Swept
           ELSE sw'.at = "secret" /\ sw'.cred = sw.cred /\ sw'.build = b
    BY <1>0, <1>3 DEF SweepFails, CleanParts, TypeInv, RecordTypes
  <2>3. Apart(b)
    BY <1>0, <1>1, <2>1, <2>2 DEF Apart
  <2>4. JobRefs'
    BY <1>0, <1>1, <1>2, <2>1, <2>2 DEF JobRefs, CleanParts
  <2>5. SecretRefs'
    BY <1>0, <1>1, <1>2, <2>1, <2>2 DEF SecretRefs, CleanParts
  <2> QED
    BY <1>0, <1>1, <2>1, <2>2, <2>3, <2>4, <2>5, AroundSuffices DEF Refs, CleanParts
<1>4. CASE rec[b].state \notin Opened
  <2>1. rec' = rec /\ orphans' = orphans /\ sw' = Swept
    BY <1>4 DEF SweepFails
  <2>2. Apart(b)
    BY <1>0, <1>1, <2>1 DEF Apart
  <2>3. JobRefs' /\ SecretRefs'
    BY <1>0, <1>1, <1>2, <2>1 DEF JobRefs, SecretRefs, CleanParts
  <2> QED
    BY <1>0, <1>1, <2>1, <2>2, <2>3, AroundSuffices DEF Refs
<1> QED
  BY <1>3, <1>4

LEMMA SweepSecretClean ==
  ASSUME CleanInv, OwnInv', SweepSecret
  PROVE  CleanInv'
<1> DEFINE b == sw.build
<1>0. /\ b \in Build /\ CleanParts(b) /\ sw.at = "secret" /\ sw.cred # NoJob
      /\ of[sw.cred] = b
  BY CleanHas DEF SweepSecret, CleanInv, OwnInv, TypeInv, RecordTypes, Refs, SecretRefs
<1>1. /\ jobs' = jobs /\ cluster' = cluster /\ asks' = asks /\ rec' = rec
      /\ row' = row /\ of' = of /\ mem' = mem /\ vms' = vms /\ discs' = discs
      /\ unseen' = unseen /\ strayed' = strayed /\ orphans' = orphans
  BY DEF SweepSecret, jobs, cluster
<1>2. sw'.at = "idle"
  BY DEF SweepSecret, Swept
<1>3. /\ secrets' \subseteq secrets
      /\ \/ sw.cred \notin secrets' /\ left' = left
         \/ /\ "secret" \in left'[b] /\ left[b] \subseteq left'[b]
            /\ \A c \in Build : c # b => left'[c] = left[c]
  BY <1>0 DEF SweepSecret, CleanParts
<1>4. Apart(b)
  BY <1>0, <1>1, <1>2, <1>3 DEF Apart
<1>5. JobRefs' /\ SecretRefs'
  BY <1>0, <1>1, <1>2, <1>3 DEF JobRefs, SecretRefs, CleanParts
<1> QED
  BY <1>0, <1>1, <1>2, <1>3, <1>4, <1>5, AroundSuffices DEF Refs

LEMMA ExpireClean ==
  ASSUME CleanInv, OwnInv', NEW b \in Build, Expire(b)
  PROVE  CleanInv'
<1>0. CleanParts(b) /\ rec[b].cred # NoJob /\ of[rec[b].cred] = b
  BY CleanHas DEF Expire, CleanParts, SecretRefs
<1>1. /\ jobs' = jobs /\ cluster' = cluster /\ asks' = asks /\ sw' = sw
      /\ row' = row /\ of' = of /\ mem' = mem /\ vms' = vms /\ discs' = discs
      /\ unseen' = unseen /\ strayed' = strayed /\ orphans' = orphans
  BY DEF Expire, jobs, cluster
<1>2. /\ rec'[b].job = rec[b].job /\ rec'[b].vmid = rec[b].vmid /\ rec'[b].cred = NoJob
      /\ rec'[b].state = rec[b].state /\ rec'[b].error = rec[b].error
      /\ \A c \in Build : c # b => rec'[c] = rec[c]
  BY <1>0 DEF Expire, Record, CleanParts, RecType
<1>3. /\ secrets' \subseteq secrets
      /\ \/ rec[b].cred \notin secrets' /\ left' = left
         \/ /\ "secret" \in left'[b] /\ left[b] \subseteq left'[b]
            /\ \A c \in Build : c # b => left'[c] = left[c]
  BY <1>0 DEF Expire, CleanParts
<1>4. Apart(b)
  BY <1>0, <1>1, <1>2, <1>3 DEF Apart
<1>5. JobRefs' /\ SecretRefs'
  BY <1>0, <1>1, <1>2, <1>3 DEF JobRefs, SecretRefs, CleanParts
<1> QED
  BY <1>0, <1>1, <1>2, <1>3, <1>4, <1>5, AroundSuffices DEF Refs

\* A build that is retried has strayed, so that only its being one's own remains.
LEMMA RetryClean ==
  ASSUME CleanInv, OwnInv', NEW j \in Job, Retry(j)
  PROVE  CleanInv'
<1>0. PICK b \in Build : of[j] = b
  BY DEF Retry, RETRYABLE, CleanInv, OwnInv, TypeInv, JobTypes, RowFits
<1>1. CleanParts(b)
  BY CleanHas
<1>2. PICK i \in Job : Insert(i, b)
  BY <1>0 DEF Retry
<1>3. /\ of[i] = Nobody /\ of' = [of EXCEPT ![i] = b] /\ row' = [row EXCEPT ![i] = "QUEUED"]
      /\ mem' = mem
  BY <1>1, <1>2 DEF Insert, Free, CleanParts, TypeInv, JobTypes, RowFits
<1>4. /\ rec' = rec /\ asks' = asks /\ vms' = vms /\ discs' = discs /\ secrets' = secrets
      /\ sw' = sw /\ left' = left /\ unseen' = unseen /\ orphans' = orphans
      /\ strayed' = strayed \union {b}
  BY <1>0 DEF Retry, cluster
<1>5. /\ of'[i] = b /\ \A k \in Job : k # i => of'[k] = of[k] /\ row'[k] = row[k]
      /\ \A k \in Job : of[k] # Nobody => of'[k] = of[k]
  BY <1>1, <1>3 DEF CleanParts, TypeInv, JobTypes
<1>6. Apart(b)
  BY <1>4, <1>5, <1>3 DEF Apart
<1>7. SingleAt(b)' /\ UnbegunAt(b)'
  BY <1>0, <1>1, <1>4, <1>5 DEF SingleAt, UnbegunAt, CleanParts
<1>8. JobRefs'
  BY <1>1, <1>4, <1>5, JobRefsKept DEF CleanParts
<1>9. SecretRefs'
  <2>1. /\ \A c \in Build : rec[c].cred # NoJob => rec[c].cred \in Job
        /\ sw.cred # NoJob => sw.cred \in Job
        /\ sw.at # "idle" => sw.build \in Build
    BY <1>1 DEF CleanParts, TypeInv, RecordTypes, RecType
  <2> QED
    BY <1>1, <1>4, <1>5, <2>1 DEF SecretRefs, CleanParts
<1>10. Refs' /\ b \in strayed'
  BY <1>4, <1>8, <1>9 DEF Refs
<1> QED
  BY <1>1, <1>6, <1>7, <1>10, ApartSuffices

LEMMA InitClean == Init => CleanInv
<1> SUFFICES ASSUME Init PROVE CleanInv
  OBVIOUS
<1>1. OwnInv /\ Nobody \notin Build /\ Swept.at = "idle"
  BY InitOwn, ProvisioningAssumption DEF Swept
<1>2. Refs
  BY <1>1 DEF Init, Refs, JobRefs, SecretRefs, NoRec
<1>3. \A b \in Build : SingleAt(b) /\ UnbegunAt(b)
  BY <1>1 DEF Init, SingleAt, UnbegunAt, NoRec
<1> QED
  BY <1>1, <1>2, <1>3 DEF CleanInv, Init

LEMMA NextClean == CleanInv /\ [Next]_vars => CleanInv'
<1> SUFFICES ASSUME CleanInv, [Next]_vars PROVE CleanInv'
  OBVIOUS
<1>0. OwnInv' /\ TypeInv
  BY NextOwn DEF CleanInv, OwnInv
<1>1. CASE UNCHANGED vars
  <2>1. /\ rec' = rec /\ asks' = asks /\ row' = row /\ of' = of /\ mem' = mem /\ vms' = vms
        /\ discs' = discs /\ secrets' = secrets /\ sw' = sw /\ left' = left
        /\ unseen' = unseen /\ orphans' = orphans /\ strayed' = strayed
    BY <1>1 DEF vars, jobs, cluster, history
  <2>2. Refs' <=> Refs
    BY <2>1 DEF Refs, JobRefs, SecretRefs
  <2>3. \A b \in Build : (SingleAt(b)' <=> SingleAt(b)) /\ (UnbegunAt(b)' <=> UnbegunAt(b))
    BY <2>1 DEF SingleAt, UnbegunAt
  <2>4. ASSUME NEW j \in Job, CleanAt(j) PROVE CleanAt(j)'
    <3>1. VmNoted(j)' /\ VmKnown(j)' /\ DiscsKnown(j)'
      BY <2>1, <2>4 DEF CleanAt, VmNoted, VmKnown, DiscsKnown, Owns, Cleared
    <3>2. SecretKnown(j)' /\ SecretNamed(j)' /\ UndoneIsClean(j)'
      BY <2>1, <2>4 DEF CleanAt, SecretKnown, SecretNamed, UndoneIsClean, Undone, HasVm, Dropped
    <3> QED
      BY <3>1, <3>2 DEF CleanAt
  <2> QED
    BY <1>0, <2>1, <2>2, <2>3, <2>4 DEF CleanInv
<1>2. ASSUME NEW j \in Job, of[j] \in Build,
             \/ Begin(j)
             \/ Check(j)
             \/ Media(j)
             \/ MediaSent(j)
             \/ NextVmid(j)
             \/ Post(j)
             \/ PostUnanswered(j)
             \/ Made(j)
             \/ StoreSecret(j)
             \/ NameSecret(j)
             \/ SendDisc(j)
             \/ Install(j)
             \/ Packages(j)
             \/ DeleteAnswers(j)
             \/ DeletePackages(j)
             \/ WriteSuccess(j)
             \/ StepFails(j)
             \/ Cancelled(j)
             \/ UndoVm(j)
             \/ UndoVmFails(j)
             \/ UndoDiscs(j)
             \/ UndoDiscsFails(j)
             \/ UndoSecret(j)
             \/ UndoRecord(j)
             \/ Claim(j)
             \/ AskCancel(j)
             \/ Reconcile(j)
             \/ Stall(j)
             \/ CancelQueued(j)
             \/ Succeed(j)
             \/ WorkerDies(j)
             \/ Abandon(j)
             \/ End(j)
      PROVE  CleanInv'
  <2>1. CleanAt(j) => CleanAt(j)'
    BY <1>2, QuietClean, RowWriteClean, VmClean, DiscClean, SecretClean, RowClean, GoneClean
  <2>2. Refs'
    BY <1>2, JobActionRefs
  <2>3. Apart(of[j]) /\ of' = of /\ asks' = asks /\ strayed' = strayed
    BY <1>2, JobApart
  <2> QED
    BY <1>0, <1>2, <2>1, <2>2, <2>3, JobSuffices
<1>3. ASSUME NEW j \in Job,
             \/ Begin(j)
             \/ Check(j)
             \/ Media(j)
             \/ MediaSent(j)
             \/ NextVmid(j)
             \/ Post(j)
             \/ PostUnanswered(j)
             \/ Made(j)
             \/ StoreSecret(j)
             \/ NameSecret(j)
             \/ SendDisc(j)
             \/ Install(j)
             \/ Packages(j)
             \/ DeleteAnswers(j)
             \/ DeletePackages(j)
             \/ WriteSuccess(j)
             \/ StepFails(j)
             \/ Cancelled(j)
             \/ UndoVm(j)
             \/ UndoVmFails(j)
             \/ UndoDiscs(j)
             \/ UndoDiscsFails(j)
             \/ UndoSecret(j)
             \/ UndoRecord(j)
             \/ Claim(j)
             \/ AskCancel(j)
             \/ Reconcile(j)
             \/ Stall(j)
             \/ CancelQueued(j)
             \/ Succeed(j)
             \/ WorkerDies(j)
             \/ Abandon(j)
             \/ End(j)
      PROVE  of[j] \in Build
  <2>1. CASE Begin(j) \/ Check(j) \/ Media(j) \/ MediaSent(j) \/ NextVmid(j) \/ Post(j)
             \/ PostUnanswered(j) \/ Made(j)
    <3>1. mem[j].alive \/ row[j] \in {"QUEUED", "RUNNING"}
      BY <2>1, <1>0, BeginDoes, CheckDoes, MediaDoes, MediaSentDoes, NextVmidDoes, PostDoes,
         PostUnansweredDoes, MadeDoes
    <3> QED
      BY <1>0, <3>1 DEF TypeInv, JobTypes, RowFits
  <2>2. CASE StoreSecret(j) \/ NameSecret(j) \/ SendDisc(j) \/ Install(j) \/ Packages(j)
             \/ DeleteAnswers(j) \/ DeletePackages(j) \/ WriteSuccess(j)
    <3>1. mem[j].alive \/ row[j] \in {"QUEUED", "RUNNING"}
      BY <2>2, <1>0, StoreSecretDoes, NameSecretDoes, SendDiscDoes, InstallDoes, PackagesDoes,
         DeleteAnswersDoes, DeletePackagesDoes, WriteSuccessDoes
    <3> QED
      BY <1>0, <3>1 DEF TypeInv, JobTypes, RowFits
  <2>3. CASE StepFails(j) \/ Cancelled(j) \/ UndoVm(j) \/ UndoVmFails(j) \/ UndoDiscs(j)
             \/ UndoDiscsFails(j) \/ UndoSecret(j) \/ UndoRecord(j)
    <3>1. mem[j].alive \/ row[j] \in {"QUEUED", "RUNNING"}
      BY <2>3, <1>0, StepFailsDoes, CancelledDoes, UndoVmDoes, UndoVmFailsDoes, UndoDiscsDoes,
         UndoDiscsFailsDoes, UndoSecretDoes, UndoRecordDoes
    <3> QED
      BY <1>0, <3>1 DEF TypeInv, JobTypes, RowFits
  <2>4. CASE Succeed(j) \/ WorkerDies(j) \/ Abandon(j) \/ End(j)
    <3>1. mem[j].alive \/ row[j] \in {"QUEUED", "RUNNING"}
      BY <2>4, <1>0, GoesDoes DEF Goes
    <3> QED
      BY <1>0, <3>1 DEF TypeInv, JobTypes, RowFits
  <2>5. CASE Claim(j) \/ AskCancel(j) \/ Reconcile(j) \/ Stall(j) \/ CancelQueued(j)
    <3>1. mem[j].alive \/ row[j] \in {"QUEUED", "RUNNING"}
      BY <2>5, <1>0 DEF Claim, AskCancel, Reconcile, Stall, CancelQueued
    <3> QED
      BY <1>0, <3>1 DEF TypeInv, JobTypes, RowFits
  <2> QED
    BY <1>3, <2>1, <2>2, <2>3, <2>4, <2>5
<1>4. ASSUME NEW j \in Job, Retry(j) PROVE CleanInv'
  BY <1>0, <1>4, RetryClean
<1>5. ASSUME NEW b \in Build, Request(b) \/ Ask(b) \/ ApiDies(b) PROVE CleanInv'
  BY <1>0, <1>5, RequestClean, RequestJobClean, RequestLinksClean DEF Ask
<1>6. CASE Sweep
  BY <1>0, <1>6, SweepReadsClean, SweepFailsClean, SweepSecretClean, ExpireClean DEF Sweep
<1> QED
  BY <1>1, <1>2, <1>3, <1>4, <1>5, <1>6 DEF Next, Work

LEMMA CleanHolds == Spec => []CleanInv
BY InitClean, NextClean, PTL DEF Spec

\* A build that failed or was cancelled has left no VM, no CD with its passwords and no
\* credential but what a call refused, or, where its worker was lost, what is on record.
THEOREM FailureIsClean == Spec => []FailedIsClean
<1>1. CleanInv => FailedIsClean
  <2> SUFFICES ASSUME CleanInv, NEW b \in Build, rec[b].state \in {"FAILED", "CANCELLED"},
                      b \notin Attended \union strayed
               PROVE  IF rec[b].error = "worker_lost"
                      THEN /\ \A v \in Vmid : vms[v] = b =>
                                rec[b].vmid = v \/ b \in unseen \/ "vm" \in left[b]
                           /\ \A j \in secrets : of[j] = b =>
                                \/ "secret" \in left[b] \/ j \in orphans
                                \/ sw.at = "secret" /\ sw.cred = j
                      ELSE /\ HasVm(b) => "vm" \in left[b] \/ b \in unseen
                           /\ discs[b] # {} => "discs" \in left[b]
                           /\ \A j \in secrets : of[j] = b => "secret" \in left[b]
    BY DEF FailedIsClean
  <2>0. CleanParts(b)
    BY CleanHas
  <2>1. PICK j \in Job : of[j] = b
    BY <2>0 DEF CleanParts, UnbegunAt
  <2>2. CleanAt(j) /\ ~ mem[j].alive /\ \A i \in Job : of[i] = b => i = j
    BY <2>0, <2>1 DEF CleanParts, SingleAt, Attended
  <2>3. CASE rec[b].error = "worker_lost"
    <3>1. \A v \in Vmid : vms[v] = b => rec[b].vmid = v \/ b \in unseen \/ "vm" \in left[b]
      BY <2>1, <2>2 DEF CleanAt, VmKnown
    <3>2. j \in secrets =>
            "secret" \in left[b] \/ j \in orphans \/ (sw.at = "secret" /\ sw.cred = j)
      BY <2>0, <2>1, <2>2, ProvisioningAssumption
      DEF CleanAt, SecretNamed, CleanParts, SecretRefs
    <3> QED
      BY <2>0, <2>2, <2>3, <3>1, <3>2 DEF CleanParts
  <2>4. CASE rec[b].error # "worker_lost"
    BY <2>0, <2>1, <2>2, <2>4 DEF CleanAt, UndoneIsClean, Undone, CleanParts
  <2> QED
    BY <2>3, <2>4
<1> QED
  BY <1>1, CleanHolds, PTL

-----------------------------------------------------------------------------
(* What a build that succeeded has *)

\* At work behind the making of its VM, and not only to find that its row is not its own any
\* more; and anywhere behind the check, under a row that is.
Late(j) ==
  /\ mem[j].alive /\ mem[j].at \notin Building /\ mem[j].part \notin Past
  /\ mem[j].part = "go" => row[j] = "RUNNING"
Beyond(j) == mem[j].alive /\ mem[j].at # "check" /\ row[j] = "RUNNING"

\* One job of a hostname is active; so only one run of a build is ever late, even if a worker
\* that lost its row has not noticed: the check finds the VM of such a run.
KeysHeld ==
  /\ \A j \in Job : of[j] # Nobody => KeyOf[j] = host[of[j]]
  /\ \A i, j \in Job : Active(i) /\ Active(j) /\ KeyOf[i] = KeyOf[j] => i = j
RunsApart ==
  \A i, j \in Job : Late(i) /\ (Late(j) \/ Beyond(j)) /\ of[i] = of[j] => i = j

\* From then on the row names a VM of the build, and if it is a run's, it is not one that is
\* yet to be named.
VmSafe(b) ==
  /\ \E v \in Vmid : rec[b].vmid = v /\ vms[v] = b
  /\ \A i \in Job : Owns(mem[i]) /\ mem[i].vmid = rec[b].vmid => mem[i].at \notin Building
VmIsSafe ==
  /\ \A j \in Job : Late(j) => VmSafe(of[j])
  /\ \A b \in Build : rec[b].state = "SUCCEEDED" => VmSafe(b)

\* A run that comes to its end knows of all the CDs its build can have, and deletes them.
DiscsOf(b) == IF b \in Packaged THEN Disc ELSE {"answers"}
DiscsFitAt(j) ==
  mem[j].alive =>
    /\ mem[j].discs \subseteq DiscsOf(of[j])
    /\ \/ mem[j].at \in {"install", "packages"}
       \/ mem[j].at = "finish" /\ mem[j].part \in {"go", "on"}
       => mem[j].discs = DiscsOf(of[j])
    /\ mem[j].at = "finish" /\ mem[j].part = "packages" => discs[of[j]] \subseteq mem[j].discs
    /\ mem[j].at = "finish" /\ mem[j].part = "write" => discs[of[j]] = {}
    /\ mem[j].at = "over" \/ mem[j].part = "write" => mem[j].done
DiscsFit ==
  /\ \A b \in Build : discs[b] \subseteq DiscsOf(b)
  /\ \A j \in Job : DiscsFitAt(j)

\* What has succeeded has no CD, and no run that is not done.
DoneIsDone ==
  \A b \in Build : rec[b].state = "SUCCEEDED" =>
    /\ discs[b] = {}
    /\ \A j \in Job : of[j] = b /\ (Late(j) \/ Beyond(j)) => mem[j].done

\* What an action of a job does to its own run.
Course(j) ==
  /\ Late(j)' => Late(j) \/ (Made(j) /\ Beyond(j))
  /\ Beyond(j)' => Beyond(j) \/ (Check(j) /\ ~ Clash(of[j]))
  /\ mem'[j].alive =>
       IF mem[j].alive THEN /\ mem[j].done => mem'[j].done
                            /\ mem[j].at \notin Building => mem'[j].at \notin Building
       ELSE mem'[j].at = "check"
  /\ Owns(mem[j])' =>
       \/ mem'[j].vmid = mem[j].vmid /\ Owns(mem[j])
       \/ mem'[j].vmid \in Vmid /\ vms[mem'[j].vmid] = Nobody

LEMMA CourseIs ==
  ASSUME OwnInv, NEW j \in Job,
         \/ Begin(j)
         \/ Check(j)
         \/ Media(j)
         \/ MediaSent(j)
         \/ NextVmid(j)
         \/ Post(j)
         \/ PostUnanswered(j)
         \/ Made(j)
         \/ StoreSecret(j)
         \/ NameSecret(j)
         \/ SendDisc(j)
         \/ Install(j)
         \/ Packages(j)
         \/ DeleteAnswers(j)
         \/ DeletePackages(j)
         \/ WriteSuccess(j)
         \/ StepFails(j)
         \/ Cancelled(j)
         \/ UndoVm(j)
         \/ UndoVmFails(j)
         \/ UndoDiscs(j)
         \/ UndoDiscsFails(j)
         \/ UndoSecret(j)
         \/ UndoRecord(j)
         \/ Claim(j)
         \/ AskCancel(j)
         \/ Succeed(j)
         \/ WorkerDies(j)
         \/ Abandon(j)
         \/ End(j)
  PROVE  Course(j)
<1>0. /\ TypeInv /\ Fits(j, mem[j]) /\ mem[j].vmid \in Vmid \union {NoVm}
      /\ mem[j].part \in UndoParts <=> mem[j].ending # "none"
      /\ vms \in [Vmid -> Build \union {Nobody}]
  BY DEF OwnInv, TypeInv, JobTypes, RowFits, MemFits, MemType, ThingTypes
<1>2. CASE Begin(j)
  BY <1>2, <1>0, BeginDoes
  DEF Becomes, Comes, Course, Late, Beyond, Owns, Building, Past, Fits, Early, UndoParts
<1>3. CASE Check(j)
  <2>1. /\ mem[j].alive /\ mem[j].at = "check" /\ mem[j].part = "on"
        /\ Comes(j, "media", "go") \/ Gives(j, "FAILED")
    BY <1>3, <1>0, CheckDoes
  <2>2. Clash(of[j]) => Gives(j, "FAILED")
    BY <1>3, <1>0, FailsDoes DEF Check, B
  <2>3. Beyond(j)' => ~ Clash(of[j])
    BY <2>1, <2>2 DEF Gives, Becomes, Beyond
  <2> QED
    BY <1>3, <1>0, <2>1, <2>3
    DEF Becomes, Comes, Gives, Course, Late, Owns, Building, Past, Fits, Early, UndoParts
<1>4. CASE Media(j)
  BY <1>4, <1>0, MediaDoes
  DEF Becomes, Comes, Course, Late, Beyond, Owns, Building, Past, Fits, Early, UndoParts
<1>5. CASE MediaSent(j)
  BY <1>5, <1>0, MediaSentDoes
  DEF Becomes, Comes, Course, Late, Beyond, Owns, Building, Past, Fits, Early, UndoParts
<1>6. CASE NextVmid(j)
  BY <1>6, <1>0, NextVmidDoes
  DEF Becomes, Comes, Course, Late, Beyond, Owns, Building, Past, Fits, Early, UndoParts
<1>7. CASE Post(j)
  BY <1>7, <1>0, PostDoes
  DEF Becomes, Gives, Course, Late, Beyond, Owns, Building, Past, Fits, Early, UndoParts
<1>8. CASE PostUnanswered(j)
  BY <1>8, <1>0, PostUnansweredDoes
  DEF Becomes, Gives, Course, Late, Beyond, Owns, Building, Past, Fits, Early, UndoParts
<1>9. CASE Made(j)
  BY <1>9, <1>0, MadeDoes
  DEF Becomes, Comes, Course, Late, Beyond, Owns, Building, Past, Fits, Early, UndoParts
<1>10. CASE StoreSecret(j)
  BY <1>10, <1>0, StoreSecretDoes
  DEF Becomes, Course, Late, Beyond, Owns, Building, Past, Fits, Early, UndoParts
<1>11. CASE NameSecret(j)
  BY <1>11, <1>0, NameSecretDoes
  DEF Becomes, Course, Late, Beyond, Owns, Building, Past, Fits, Early, UndoParts
<1>12. CASE SendDisc(j)
  BY <1>12, <1>0, SendDiscDoes
  DEF Becomes, Comes, Course, Late, Beyond, Owns, Building, Past, Fits, Early, UndoParts, Disc
<1>13. CASE Install(j)
  BY <1>13, <1>0, InstallDoes
  DEF Becomes, Comes, Course, Late, Beyond, Owns, Building, Past, Fits, Early, UndoParts
<1>14. CASE Packages(j)
  BY <1>14, <1>0, PackagesDoes
  DEF Becomes, Comes, Gives, Course, Late, Beyond, Owns, Building, Past, Fits, Early, UndoParts
<1>15. CASE DeleteAnswers(j)
  BY <1>15, <1>0, DeleteAnswersDoes
  DEF Becomes, Course, Late, Beyond, Owns, Building, Past, Fits, Early, UndoParts
<1>16. CASE DeletePackages(j)
  BY <1>16, <1>0, DeletePackagesDoes
  DEF Becomes, Course, Late, Beyond, Owns, Building, Past, Fits, Early, UndoParts
<1>17. CASE WriteSuccess(j)
  BY <1>17, <1>0, WriteSuccessDoes
  DEF Becomes, Comes, Course, Late, Beyond, Owns, Building, Past, Fits, Early, UndoParts
<1>18. CASE StepFails(j)
  BY <1>18, <1>0, StepFailsDoes
  DEF Becomes, Gives, Course, Late, Beyond, Owns, Building, Past, Fits, Early, UndoParts
<1>19. CASE Cancelled(j)
  BY <1>19, <1>0, CancelledDoes
  DEF Becomes, Gives, Course, Late, Beyond, Owns, Building, Past, Fits, Early, UndoParts
<1>20. CASE UndoVm(j)
  BY <1>20, <1>0, UndoVmDoes
  DEF Becomes, Comes, Course, Late, Beyond, Owns, Building, Past, Fits, Early, UndoParts
<1>21. CASE UndoVmFails(j)
  BY <1>21, <1>0, UndoVmFailsDoes
  DEF Becomes, Comes, Course, Late, Beyond, Owns, Building, Past, Fits, Early, UndoParts
<1>22. CASE UndoDiscs(j)
  BY <1>22, <1>0, UndoDiscsDoes
  DEF Becomes, Comes, Course, Late, Beyond, Owns, Building, Past, Fits, Early, UndoParts
<1>23. CASE UndoDiscsFails(j)
  BY <1>23, <1>0, UndoDiscsFailsDoes
  DEF Becomes, Comes, Course, Late, Beyond, Owns, Building, Past, Fits, Early, UndoParts
<1>24. CASE UndoSecret(j)
  BY <1>24, <1>0, UndoSecretDoes
  DEF Becomes, Comes, Course, Late, Beyond, Owns, Building, Past, Fits, Early, UndoParts
<1>25. CASE UndoRecord(j)
  BY <1>25, <1>0, UndoRecordDoes
  DEF Becomes, Comes, Course, Late, Beyond, Owns, Building, Past, Fits, Early, UndoParts
<1>26. CASE Claim(j)
  BY <1>26, <1>0, ClaimDoes
  DEF Course, Late, Beyond, Owns, Building, Past, Fits, Early, UndoParts
<1>27. CASE AskCancel(j)
  BY <1>27, <1>0, AskCancelDoes
  DEF Becomes, Comes, Course, Late, Beyond, Owns, Building, Past, Fits, Early, UndoParts
<1>28. CASE Succeed(j)
  BY <1>28, <1>0, GoesDoes DEF Goes, Course, Late, Beyond, Owns, NoMem
<1>29. CASE WorkerDies(j)
  BY <1>29, <1>0, GoesDoes DEF Goes, Course, Late, Beyond, Owns, NoMem
<1>30. CASE Abandon(j)
  BY <1>30, <1>0, GoesDoes DEF Goes, Course, Late, Beyond, Owns, NoMem
<1>31. CASE End(j)
  BY <1>31, <1>0, GoesDoes DEF Goes, Course, Late, Beyond, Owns, NoMem
<1> QED
  BY <1>2, <1>3, <1>4, <1>5, <1>6, <1>7, <1>8, <1>9, <1>10, <1>11, <1>12, <1>13, <1>14, <1>15,
     <1>16, <1>17, <1>18, <1>19, <1>20, <1>21, <1>22, <1>23, <1>24, <1>25, <1>26, <1>27, <1>28,
     <1>29, <1>30, <1>31

\* The actions that are about a row and the run behind it.
Acts(j) ==
  \/ Claim(j) \/ Work(j) \/ WorkerDies(j) \/ Reconcile(j) \/ Stall(j) \/ CancelQueued(j)
  \/ AskCancel(j)

LEMMA ActsAreOfBuilds ==
  ASSUME TypeInv, NEW j \in Job, Acts(j)
  PROVE  of[j] \in Build
<1>1. mem[j].alive \/ row[j] \in {"QUEUED", "RUNNING"}
  <2>1. CASE Claim(j) \/ AskCancel(j) \/ Reconcile(j) \/ Stall(j) \/ CancelQueued(j)
    BY <2>1 DEF Claim, AskCancel, Reconcile, Stall, CancelQueued
  <2>2. CASE Succeed(j) \/ WorkerDies(j) \/ Abandon(j) \/ End(j)
    BY <2>2, GoesDoes DEF Goes
  <2>3. CASE Begin(j) \/ Check(j) \/ Media(j) \/ MediaSent(j) \/ NextVmid(j) \/ Post(j)
             \/ PostUnanswered(j) \/ Made(j)
    BY <2>3, BeginDoes, CheckDoes, MediaDoes, MediaSentDoes, NextVmidDoes, PostDoes,
       PostUnansweredDoes, MadeDoes
  <2>4. CASE StoreSecret(j) \/ NameSecret(j) \/ SendDisc(j) \/ Install(j) \/ Packages(j)
             \/ DeleteAnswers(j) \/ DeletePackages(j) \/ WriteSuccess(j)
    BY <2>4, StoreSecretDoes, NameSecretDoes, SendDiscDoes, InstallDoes, PackagesDoes,
       DeleteAnswersDoes, DeletePackagesDoes, WriteSuccessDoes
  <2>5. CASE StepFails(j) \/ Cancelled(j) \/ UndoVm(j) \/ UndoVmFails(j) \/ UndoDiscs(j)
             \/ UndoDiscsFails(j) \/ UndoSecret(j) \/ UndoRecord(j)
    BY <2>5, StepFailsDoes, CancelledDoes, UndoVmDoes, UndoVmFailsDoes, UndoDiscsDoes,
       UndoDiscsFailsDoes, UndoSecretDoes, UndoRecordDoes
  <2> QED
    BY <2>1, <2>2, <2>3, <2>4, <2>5 DEF Acts, Work
<1> QED
  BY <1>1 DEF TypeInv, JobTypes, RowFits

\* They make no row active, and are of nobody else's run.
LEMMA ActsDo ==
  ASSUME CleanInv, NEW j \in Job, Acts(j)
  PROVE  /\ of[j] \in Build /\ Alone(j) /\ Apart(of[j]) /\ Course(j)
         /\ asks' = asks /\ strayed' = strayed /\ host' = host
         /\ \A i \in Job : Active(i)' => Active(i)
<1>0. TypeInv /\ OwnInv
  BY DEF CleanInv, OwnInv
<1>1. of[j] \in Build
  BY <1>0, ActsAreOfBuilds
<1>2. Alone(j)
  BY <1>0, JobAlone DEF Acts, Work
<1>3. Apart(of[j]) /\ asks' = asks /\ strayed' = strayed
  BY <1>1, JobApart DEF Acts, Work
<1>4. host' = host
  BY DEF Acts, Work, Claim, Begin, Check, Media, MediaSent, NextVmid, Post, PostUnanswered,
     Made, StoreSecret, NameSecret, SendDisc, Install, Packages, DeleteAnswers,
     DeletePackages, WriteSuccess, Succeed, StepFails, Cancelled, Abandon, UndoVm,
     UndoVmFails, UndoDiscs, UndoDiscsFails, UndoSecret, UndoRecord, End, WorkerDies,
     Reconcile, Stall, CancelQueued, AskCancel
<1>5. ASSUME Reconcile(j) \/ Stall(j) \/ CancelQueued(j)
      PROVE  mem' = mem /\ vms' = vms /\ ~ Active(j)' /\ row'[j] # "RUNNING"
  <2>1. mem' = mem /\ vms' = vms
    BY <1>5 DEF Reconcile, Stall, CancelQueued, cluster
  <2>2. row'[j] \in {"FAILED", "CANCELLED"}
    BY <1>0, <1>5 DEF Reconcile, Stall, CancelQueued, TypeInv, JobTypes
  <2> QED
    BY <2>1, <2>2 DEF Active, ACTIVE_JOB_STATUSES
<1>6. Course(j)
  <2>1. CASE Reconcile(j) \/ Stall(j) \/ CancelQueued(j)
    <3>1. mem[j] \in MemType
      BY <1>0 DEF TypeInv, JobTypes
    <3> QED
      BY <1>5, <2>1, <3>1 DEF Course, Late, Beyond, Owns, MemType
  <2> QED
    BY <1>0, <2>1, CourseIs DEF Acts, Work
<1>7. Active(j)' => Active(j)
  <2>1. CASE Claim(j)
    BY <2>1 DEF Claim, Active, ACTIVE_JOB_STATUSES
  <2>2. CASE Succeed(j) \/ End(j) \/ WorkerDies(j) \/ Abandon(j)
    <3>1. mem[j] \in MemType /\ row \in [Job -> {"NONE", "QUEUED", "RUNNING", "SUCCEEDED",
                                               "FAILED", "CANCELLED"}]
      BY <1>0 DEF TypeInv, JobTypes
    <3>2. row'[j] = row[j] \/ row'[j] \in {"SUCCEEDED", "none", "FAILED", "CANCELLED"}
      BY <2>2, <3>1 DEF Succeed, End, WorkerDies, Abandon, MemType
    <3> QED
      BY <3>2 DEF Active, ACTIVE_JOB_STATUSES
  <2>3. CASE Work(j) /\ ~ Succeed(j) /\ ~ End(j)
    <3>1. row' = row
      BY <2>3 DEF Work, Notes, Into, Onward, Fails, Begin, Check, Media, MediaSent,
         NextVmid, Post, PostUnanswered, Made, StoreSecret, NameSecret, SendDisc, Install,
         Packages, DeleteAnswers, DeletePackages, WriteSuccess, StepFails, Cancelled, Abandon,
         UndoVm, UndoVmFails, UndoDiscs, UndoDiscsFails, UndoSecret, UndoRecord
    <3> QED
      BY <3>1 DEF Active
  <2>4. CASE AskCancel(j)
    BY <2>4 DEF AskCancel, Active
  <2> QED
    BY <1>5, <2>1, <2>2, <2>3, <2>4 DEF Acts
<1> QED
  BY <1>1, <1>2, <1>3, <1>4, <1>6, <1>7 DEF Alone, Active

\* What the others do to jobs: a new row, at most, of a key that is free.
Around == \/ \E b \in Build : Request(b) \/ Ask(b) \/ ApiDies(b)
          \/ \E j \in Job : Retry(j)
          \/ Sweep
LEMMA AroundDoes ==
  ASSUME TypeInv, Around
  PROVE  /\ mem' = mem /\ vms' = vms /\ discs' = discs /\ host' = host
         /\ \/ row' = row /\ of' = of
            \/ \E j \in Job, b \in Build :
                 /\ of[j] = Nobody /\ ~ mem[j].alive /\ KeyOf[j] = host[b] /\ KeyFree(row, j)
                 /\ row'[j] = "QUEUED" /\ of'[j] = b
                 /\ \A i \in Job : i # j => row'[i] = row[i] /\ of'[i] = of[i]
<1> DEFINE Ins == \E j \in Job, b \in Build :
                    /\ of[j] = Nobody /\ ~ mem[j].alive /\ KeyOf[j] = host[b]
                    /\ KeyFree(row, j)
                    /\ row'[j] = "QUEUED" /\ of'[j] = b
                    /\ \A i \in Job : i # j => row'[i] = row[i] /\ of'[i] = of[i]
<1>1. mem' = mem /\ vms' = vms /\ discs' = discs
  BY OthersDo DEF Around
<1>2. host' = host
  BY DEF Around, Request, Ask, RequestJob, RequestRefused, RequestLinks, ApiDies, Retry, Sweep,
     SweepReads, Expire, SweepFails, SweepSecret
<1>3. ASSUME NEW j \in Job, NEW b \in Build, Insert(j, b) PROVE Ins
  <2>1. /\ of[j] = Nobody /\ ~ mem[j].alive /\ KeyOf[j] = host[b] /\ KeyFree(row, j)
        /\ row'[j] = "QUEUED" /\ of'[j] = b
        /\ \A i \in Job : i # j => row'[i] = row[i] /\ of'[i] = of[i]
    BY <1>3 DEF Insert, Free, TypeInv, JobTypes, RowFits
  <2> QED
    BY <2>1
<1> HIDE DEF Ins
<1>4. ASSUME NEW j \in Job, Retry(j) PROVE Ins
  <2>1. of[j] \in Build
    BY <1>4 DEF Retry, RETRYABLE, TypeInv, JobTypes, RowFits
  <2> QED
    BY <1>3, <1>4, <2>1 DEF Retry
<1>5. ASSUME NEW b \in Build, RequestJob(b) PROVE Ins
  BY <1>3, <1>5 DEF RequestJob
<1>6. (row' = row /\ of' = of) \/ Ins
  BY <1>4, <1>5
  DEF Around, Request, Ask, RequestRefused, RequestLinks, ApiDies, Sweep,
     SweepReads, Expire, SweepFails, SweepSecret, jobs
<1> QED
  BY <1>1, <1>2, <1>6 DEF Ins

LEMMA KeysStayHeld ==
  ASSUME CleanInv, KeysHeld, (\E j \in Job : Acts(j)) \/ Around
  PROVE  KeysHeld'
<1>1. CASE \E j \in Job : Acts(j)
  BY <1>1, ActsDo DEF KeysHeld, Alone
<1>2. CASE Around
  <2>0. TypeInv /\ host \in [Build -> Key] /\ NoKey \notin Key
    BY KeyAssumption DEF CleanInv, OwnInv, TypeInv, RecordTypes
  <2>1. CASE row' = row /\ of' = of
    BY <2>0, <2>1, <1>2, AroundDoes DEF KeysHeld, Active
  <2>2. ASSUME NEW j \in Job, NEW b \in Build,
               KeyOf[j] = host[b], KeyFree(row, j), of'[j] = b,
               \A i \in Job : i # j => row'[i] = row[i] /\ of'[i] = of[i], host' = host
        PROVE  KeysHeld'
    <3>1. \A i \in Job : i # j /\ KeyOf[i] = KeyOf[j] => ~ Active(i)
      BY <2>0, <2>2 DEF KeyFree, Rivals, Active
    <3> QED
      BY <2>2, <3>1 DEF KeysHeld, Active
  <2> QED
    BY <2>0, <2>1, <2>2, <1>2, AroundDoes
<1> QED
  BY <1>1, <1>2

LEMMA RunsStayApart ==
  ASSUME CleanInv, KeysHeld, RunsApart, (\E j \in Job : Acts(j)) \/ Around
  PROVE  RunsApart'
<1>0. TypeInv /\ OwnVms
  BY DEF CleanInv, OwnInv
<1>1. \A i \in Job : Late(i) \/ Beyond(i) => of[i] \in Build
  BY <1>0 DEF TypeInv, JobTypes, RowFits, Late, Beyond
<1>2. ASSUME NEW j \in Job, Acts(j) PROVE RunsApart'
  <2>0. of' = of /\ Course(j) /\ \A i \in Job : i # j => mem'[i] = mem[i] /\ row'[i] = row[i]
    BY <1>2, ActsDo DEF Alone
  <2>1. \A i \in Job : i # j => (Late(i)' <=> Late(i)) /\ (Beyond(i)' <=> Beyond(i))
    BY <2>0 DEF Late, Beyond
  <2>2. ASSUME NEW i \in Job, i # j, of[i] = of[j], Beyond(i)
        PROVE  ~ Beyond(j)
    <3>1. Active(i) /\ KeyOf[i] = host[of[i]]
      BY <1>1, <2>2, ProvisioningAssumption DEF KeysHeld, Beyond, Active, ACTIVE_JOB_STATUSES
    <3>2. Beyond(j) => Active(j) /\ KeyOf[j] = host[of[j]]
      BY <1>1, ProvisioningAssumption DEF KeysHeld, Beyond, Active, ACTIVE_JOB_STATUSES
    <3> QED
      BY <2>2, <3>1, <3>2 DEF KeysHeld
  <2>3. ASSUME NEW i \in Job, Late(i), of[i] = of[j] PROVE Clash(of[j])
    <3>1. mem[i].vmid \in Vmid /\ Owns(mem[i])
      BY <1>0, <2>3 DEF CleanInv, OwnInv, MemFits, Fits, TypeInv, JobTypes, MemType, Late, Owns
    <3>2. vms[mem[i].vmid] = of[j]
      BY <1>0, <2>3, <3>1 DEF OwnVms
    <3> QED
      BY <1>1, <2>3, <3>1, <3>2 DEF Clash
  <2>4. ASSUME NEW i \in Job, i # j, of[i] = of[j], Late(i) \/ Beyond(i) PROVE ~ Late(j)'
    BY <2>0, <2>2, <2>4 DEF RunsApart, Course
  <2>5. ASSUME NEW i \in Job, i # j, of[i] = of[j], Late(i) PROVE ~ Beyond(j)'
    BY <2>0, <2>3, <2>5 DEF RunsApart, Course
  <2> QED
    BY <2>0, <2>1, <2>4, <2>5 DEF RunsApart
<1>3. CASE Around
  <2>1. /\ mem' = mem
        /\ \A i \in Job : mem[i].alive => row'[i] = row[i] /\ of'[i] = of[i]
    BY <1>0, <1>3, AroundDoes
  <2> QED
    BY <2>1 DEF RunsApart, Late, Beyond
<1> QED
  BY <1>2, <1>3

\* What happens to VMs: one is made under a number that was free, or one that a run has made
\* is undone.
LEMMA VmsChange ==
  ASSUME OwnInv, NEW j \in Job, Acts(j)
  PROVE  \/ vms' = vms
         \/ \E v \in Vmid : vms[v] = Nobody /\ vms' = [vms EXCEPT ![v] = of[j]]
         \/ /\ mem[j].alive /\ mem[j].part = "undo" /\ ~ mem[j].done /\ ~ Late(j)'
            /\ mem[j].vmid \in Vmid /\ Owns(mem[j])
            /\ vms' = [vms EXCEPT ![mem[j].vmid] = Nobody]
<1>0. TypeInv /\ mem[j].vmid \in Vmid \union {NoVm}
  BY DEF OwnInv, TypeInv, JobTypes, MemType
<1>1. CASE UndoVm(j)
  <2>1. /\ mem[j].alive /\ mem[j].part = "undo"
        /\ mem'[j].part = IF mem[j].done THEN "end" ELSE "discs"
    BY <1>0, <1>1, UndoVmDoes DEF Comes, Becomes
  <2>2. ~ Late(j)'
    BY <2>1 DEF Late, Past
  <2>3. \/ vms' = vms
        \/ /\ mem[j].vmid # NoVm /\ ~ mem[j].done
           /\ vms' = [vms EXCEPT ![mem[j].vmid] = Nobody]
    BY <1>1 DEF UndoVm
  <2>4. mem[j].vmid # NoVm => Owns(mem[j])
    BY <2>1 DEF Owns, Past
  <2> QED
    BY <1>0, <2>1, <2>2, <2>3, <2>4
<1>2. CASE Post(j)
  <2>1. vms' = vms \/ \E v \in Vmid : vms[v] = Nobody /\ vms' = [vms EXCEPT ![v] = of[j]]
    BY <1>0, <1>2, PostDoes
  <2> QED
    BY <2>1
<1>3. CASE PostUnanswered(j)
  BY <1>3 DEF PostUnanswered, B
<1>4. CASE ~ UndoVm(j) /\ ~ Post(j) /\ ~ PostUnanswered(j)
  BY <1>4
  DEF Acts, Work, Claim, Begin, Check, Media, MediaSent, NextVmid, Made, StoreSecret,
     NameSecret, SendDisc, Install, Packages, DeleteAnswers, DeletePackages, WriteSuccess,
     Succeed, StepFails, Cancelled, Abandon, UndoVmFails, UndoDiscs, UndoDiscsFails,
     UndoSecret, UndoRecord, End, WorkerDies, Reconcile, Stall, CancelQueued, AskCancel, cluster
<1> QED
  BY <1>1, <1>2, <1>3, <1>4

\* What happens to the number in the row, and to its success.
LEMMA RowsChange ==
  ASSUME TypeInv, NEW j \in Job, of[j] \in Build, Acts(j)
  PROVE  /\ \A b \in Build : b # of[j] => rec'[b] = rec[b]
         /\ rec'[of[j]].vmid = IF Made(j) THEN mem[j].vmid ELSE rec[of[j]].vmid
         /\ \/ rec'[of[j]].state # "SUCCEEDED"
            \/ rec'[of[j]].state = rec[of[j]].state /\ ~ Check(j)
            \/ WriteSuccess(j)
<1>0. mem[j].ending \in {"none", "FAILED", "CANCELLED"}
  BY DEF TypeInv, JobTypes, MemType
<1>1. CASE Check(j)
  <2>1. ~ Made(j)
    BY <1>1, CheckDoes, MadeDoes
  <2> QED
    BY <1>1, <2>1, CheckWrites DEF Writes
<1>2. CASE Made(j)
  <2>1. ~ Check(j)
    BY <1>2, CheckDoes, MadeDoes
  <2> QED
    BY <1>2, <2>1, MadeWrites DEF Writes
<1>3. CASE NameSecret(j)
  <2>1. ~ Made(j) /\ ~ Check(j)
    BY <1>3, NameSecretDoes, MadeDoes, CheckDoes
  <2> QED
    BY <1>3, <2>1, NameSecretWrites DEF Writes
<1>4. CASE WriteSuccess(j)
  <2>1. ~ Made(j)
    BY <1>4, WriteSuccessDoes, MadeDoes
  <2> QED
    BY <1>4, <2>1, WriteSuccessWrites DEF Writes
<1>5. CASE UndoRecord(j)
  <2>1. ~ Made(j) /\ ~ Check(j)
    BY <1>5, UndoRecordDoes, MadeDoes, CheckDoes
  <2> QED
    BY <1>0, <1>5, <2>1, UndoRecordWrites DEF Writes
<1>6. CASE ~ (Check(j) \/ Made(j) \/ NameSecret(j) \/ WriteSuccess(j) \/ UndoRecord(j))
  <2>1. rec' = rec
    BY <1>6
    DEF Acts, Work, Claim, Begin, Media, MediaSent, NextVmid, Post, PostUnanswered,
       StoreSecret, SendDisc, Install, Packages, DeleteAnswers, DeletePackages, Succeed,
       StepFails, Cancelled, Abandon, UndoVm, UndoVmFails, UndoDiscs, UndoDiscsFails,
       UndoSecret, End, WorkerDies, Reconcile, Stall, CancelQueued, AskCancel
  <2> QED
    BY <1>6, <2>1
<1> QED
  BY <1>1, <1>2, <1>3, <1>4, <1>5, <1>6

\* A build that an action of others touches the row of keeps its VM's number, and succeeds
\* only if it had, or has no job yet.
LEMMA AroundRows ==
  ASSUME CleanInv, Around, NEW b \in Build
  PROVE  \/ /\ rec'[b].vmid = rec[b].vmid
            /\ rec'[b].state = "SUCCEEDED" => rec[b].state = "SUCCEEDED"
         \/ rec'[b].state # "SUCCEEDED" /\ \A j \in Job : of[j] # b
<1>0. CleanParts(b)
  BY CleanHas
<1>1. ASSUME NEW c \in Build, Request(c) \/ RequestRefused(c)
      PROVE  \/ rec'[b] = rec[b]
             \/ rec'[b].state # "SUCCEEDED" /\ \A j \in Job : of[j] # b
  <2>1. /\ \A d \in Build : d # c => rec'[d] = rec[d]
        /\ rec'[c].state # "SUCCEEDED" /\ asks[c].at \in {"none", "row"}
    BY <1>0, <1>1 DEF Request, RequestRefused, Record, NoRec, CleanParts
  <2> QED
    BY <1>0, <2>1 DEF CleanParts, SingleAt
<1>2. ASSUME NEW c \in Build, RequestLinks(c)
      PROVE  rec'[b].vmid = rec[b].vmid /\ rec'[b].state = rec[b].state
  BY <1>0, <1>2 DEF RequestLinks, Record, CleanParts, RecType
<1>3. ASSUME NEW c \in Build, Expire(c)
      PROVE  rec'[b].vmid = rec[b].vmid /\ rec'[b].state = rec[b].state
  BY <1>0, <1>3 DEF Expire, Record, CleanParts, RecType
<1>4. ASSUME SweepFails
      PROVE  /\ rec'[b].vmid = rec[b].vmid
             /\ rec'[b].state = "SUCCEEDED" => rec[b].state = "SUCCEEDED"
  <2> DEFINE r == [rec[b] EXCEPT !.state = "FAILED", !.error = "worker_lost", !.cred = NoJob]
  <2>1. r.vmid = rec[b].vmid /\ r.state = "FAILED"
    BY <1>0 DEF CleanParts, RecType
  <2>2. rec'[b] = rec[b] \/ rec'[b] = r
    BY <1>0, <1>4 DEF SweepFails, Record, CleanParts
  <2> HIDE DEF r
  <2> QED
    BY <2>1, <2>2
<1> QED
  BY <1>1, <1>2, <1>3, <1>4
  DEF Around, Ask, RequestJob, ApiDies, Retry, Sweep, SweepReads, SweepSecret

\* A run that does not undo the VM the row names leaves it safe.
LEMMA VmStaysSafe ==
  ASSUME CleanInv, NEW j \in Job, Acts(j), NEW b \in Build, VmSafe(b),
         Made(j) => b # of[j],
         \A v \in Vmid : vms[v] # Nobody /\ vms'[v] = Nobody => rec[b].vmid # v
  PROVE  VmSafe(b)'
<1>0. /\ TypeInv /\ OwnInv /\ Nobody \notin Build /\ vms \in [Vmid -> Build \union {Nobody}]
      /\ vms' \in [Vmid -> Build \union {Nobody}]
  BY NextOwn, ProvisioningAssumption DEF CleanInv, OwnInv, TypeInv, ThingTypes, Next, Acts
<1>1. of[j] \in Build /\ Alone(j) /\ Course(j)
  BY ActsDo
<1>2. rec'[b].vmid = rec[b].vmid
  BY <1>0, <1>1, RowsChange
<1>3. PICK v \in Vmid : rec[b].vmid = v /\ vms[v] = b
  BY DEF VmSafe
<1>4. vms'[v] = b
  <2>1. vms'[v] = vms[v] \/ vms[v] = Nobody \/ vms'[v] = Nobody
    BY <1>0, VmsChange
  <2> QED
    BY <1>0, <1>3, <2>1
<1>5. ASSUME NEW i \in Job, Owns(mem[i])', mem'[i].vmid = v PROVE mem'[i].at \notin Building
  <2>1. CASE i # j
    BY <1>1, <1>3, <1>5, <2>1 DEF Alone, VmSafe
  <2>2. CASE i = j
    <3>1. Owns(mem[j]) /\ mem[j].vmid = v
      BY <1>0, <1>1, <1>3, <1>5, <2>2 DEF Course
    <3>2. mem[j].at \notin Building /\ mem'[j].alive
      BY <1>3, <1>5, <2>2, <3>1 DEF VmSafe, Owns
    <3> QED
      BY <1>1, <2>2, <3>1, <3>2 DEF Course, Owns
  <2> QED
    BY <2>1, <2>2
<1> QED
  BY <1>2, <1>3, <1>4, <1>5 DEF VmSafe

LEMMA VmsStaySafe ==
  ASSUME CleanInv, RunsApart, VmIsSafe, DoneIsDone, (\E j \in Job : Acts(j)) \/ Around
  PROVE  VmIsSafe'
<1>0. /\ TypeInv /\ OwnInv /\ Nobody \notin Build /\ vms \in [Vmid -> Build \union {Nobody}]
      /\ \A i \in Job : Late(i) => of[i] \in Build
  BY ProvisioningAssumption DEF CleanInv, OwnInv, TypeInv, ThingTypes, JobTypes, RowFits, Late
<1>1. ASSUME NEW j \in Job, Acts(j) PROVE VmIsSafe'
  <2>0. of[j] \in Build /\ Alone(j) /\ Course(j) /\ of' = of
    BY <1>1, ActsDo DEF Alone
  <2>1. \A i \in Job : i # j => (Late(i)' <=> Late(i))
    BY <2>0 DEF Late, Alone
  \* A VM that goes is nobody's that is needed.
  <2>2. ASSUME NEW b \in Build, VmSafe(b), ~ Made(j) \/ b # of[j],
               (\E i \in Job : of[i] = b /\ Late(i) /\ Late(i)') \/ rec[b].state = "SUCCEEDED"
        PROVE  VmSafe(b)'
    <3>1. ASSUME NEW v \in Vmid, vms[v] # Nobody, vms'[v] = Nobody, rec[b].vmid = v
          PROVE  FALSE
      <4>1. /\ mem[j].alive /\ mem[j].part = "undo" /\ ~ mem[j].done /\ ~ Late(j)'
            /\ mem[j].vmid = v /\ Owns(mem[j])
        BY <1>0, <1>1, <2>0, <3>1, VmsChange
      <4>2. of[j] = b
        BY <1>0, <2>2, <3>1, <4>1 DEF VmSafe, OwnInv, OwnVms
      <4>3. Late(j)
        BY <2>2, <3>1, <4>1 DEF VmSafe, Late, Past
      <4>4. CASE rec[b].state = "SUCCEEDED"
        BY <4>1, <4>2, <4>3, <4>4 DEF DoneIsDone
      <4>5. CASE \E i \in Job : of[i] = b /\ Late(i) /\ Late(i)'
        BY <4>1, <4>2, <4>3, <4>5 DEF RunsApart
      <4> QED
        BY <2>2, <4>4, <4>5
    <3> QED
      BY <1>1, <2>2, <3>1, VmStaysSafe
  \* One that is named was just made, and is only its run's.
  <2>3. ASSUME NEW b \in Build, of[j] = b, Made(j) PROVE VmSafe(b)'
    <3>1. /\ mem[j].alive /\ mem[j].at = "create" /\ mem[j].part = "made"
          /\ Comes(j, "answers", "go")
      BY <1>0, <2>3, MadeDoes
    <3>2. mem[j].vmid \in Vmid /\ Owns(mem[j])
      BY <1>0, <3>1 DEF OwnInv, MemFits, Fits, TypeInv, JobTypes, MemType, Owns, Past, Building
    <3>3. vms' = vms /\ rec'[b].vmid = mem[j].vmid
      BY <1>0, <2>0, <2>3, MadeWrites DEF Made, cluster, Writes
    <3>4. vms[mem[j].vmid] = b
      BY <1>0, <2>3, <3>2 DEF OwnInv, OwnVms
    <3>5. ASSUME NEW i \in Job, Owns(mem[i])', mem'[i].vmid = mem[j].vmid
          PROVE  mem'[i].at \notin Building
      <4>1. i = j
        BY <1>0, <2>0, <3>2, <3>5 DEF OwnInv, OwnVms, Alone
      <4> QED
        BY <3>1, <4>1 DEF Comes, Becomes, Building
    <3> QED
      BY <2>0, <3>2, <3>3, <3>4, <3>5 DEF VmSafe
  <2>4. ASSUME NEW i \in Job, NEW b \in Build, of[i] = b, Late(i)' PROVE VmSafe(b)'
    <3>1. CASE Late(i)
      BY <2>2, <2>3, <2>4, <3>1 DEF VmIsSafe
    <3>2. CASE ~ Late(i)
      BY <2>0, <2>1, <2>3, <2>4, <3>2 DEF Course
    <3> QED
      BY <3>1, <3>2
  <2>5. ASSUME NEW b \in Build, rec'[b].state = "SUCCEEDED" PROVE VmSafe(b)'
    <3>1. CASE rec[b].state = "SUCCEEDED"
      <4>1. VmSafe(b)
        BY <3>1 DEF VmIsSafe
      <4> QED
        BY <2>2, <2>3, <3>1, <4>1
    <3>2. CASE rec[b].state # "SUCCEEDED"
      <4>1. b = of[j] /\ WriteSuccess(j)
        BY <1>0, <1>1, <2>0, <2>5, <3>2, RowsChange
      <4>2. /\ mem[j].alive /\ mem[j].at = "finish" /\ mem[j].part = "write"
        BY <1>0, <4>1, WriteSuccessDoes
      <4>3. Late(j)
        BY <4>2 DEF Late, Past, Building
      <4>4. vms' = vms /\ ~ Made(j)
        BY <1>0, <4>1, <4>2, MadeDoes DEF WriteSuccess, cluster
      <4> QED
        BY <1>0, <1>1, <4>1, <4>3, <4>4, VmStaysSafe DEF VmIsSafe
    <3> QED
      BY <3>1, <3>2
  <2>6. \A i \in Job : Late(i)' => of'[i] \in Build
    BY <1>0, <2>0, <2>1 DEF Course, Alone
  <2> QED
    BY <2>0, <2>4, <2>5, <2>6 DEF VmIsSafe, VmSafe
<1>2. CASE Around
  <2>1. /\ mem' = mem /\ vms' = vms
        /\ \A i \in Job : mem[i].alive => row'[i] = row[i] /\ of'[i] = of[i]
    BY <1>0, <1>2, AroundDoes
  <2>2. ASSUME NEW b \in Build, VmSafe(b), rec'[b].vmid = rec[b].vmid PROVE VmSafe(b)'
    BY <2>1, <2>2 DEF VmSafe
  <2>3. \A i \in Job : Late(i)' => Late(i) /\ of'[i] = of[i]
    BY <2>1 DEF Late
  <2>4. ASSUME NEW i \in Job, NEW b \in Build, of[i] = b, Late(i)' PROVE VmSafe(b)'
    <3>1. VmSafe(b)
      BY <2>3, <2>4 DEF VmIsSafe
    <3>2. rec'[b].vmid = rec[b].vmid
      BY <1>2, <2>4, AroundRows
    <3> QED
      BY <2>2, <3>1, <3>2
  <2>5. \A b \in Build : rec'[b].state = "SUCCEEDED" => VmSafe(b)'
    BY <1>2, <2>2, AroundRows DEF VmIsSafe
  <2>6. \A i \in Job : Late(i)' => of'[i] \in Build /\ of'[i] = of[i]
    BY <1>0, <2>3
  <2> QED
    BY <2>4, <2>5, <2>6 DEF VmIsSafe, VmSafe
<1> QED
  BY <1>1, <1>2

\* CDs come only to a build whose run is at its answers, and only those it knows of.
LEMMA DiscsChange ==
  ASSUME CleanInv, NEW j \in Job, Acts(j)
  PROVE  /\ discs' \in [Build -> SUBSET Disc]
         /\ \A c \in Build : c # of[j] => discs'[c] = discs[c]
         /\ \/ discs'[of[j]] \subseteq discs[of[j]]
            \/ /\ Late(j) /\ mem[j].at = "answers"
               /\ discs'[of[j]] \subseteq discs[of[j]] \union mem[j].discs
<1>0. /\ TypeInv /\ of[j] \in Build /\ discs \in [Build -> SUBSET Disc] /\ Fits(j, mem[j])
      /\ mem[j].part \in UndoParts <=> mem[j].ending # "none"
  BY ActsDo DEF CleanInv, OwnInv, MemFits, TypeInv, ThingTypes, JobTypes, RowFits
<1>1. discs' \in [Build -> SUBSET Disc]
  BY NextTypes, <1>0 DEF Next, Acts, TypeInv, ThingTypes
<1>2. \A c \in Build : c # of[j] => discs'[c] = discs[c]
  BY ActsDo DEF Apart
<1>3. CASE SendDisc(j)
  <2>1. /\ mem[j].alive /\ mem[j].at = "answers" /\ mem[j].part \in Disc
        /\ discs' = [discs EXCEPT ![of[j]] = @ \union {mem[j].part}]
    BY <1>3, <1>0, SendDiscDoes DEF SendDisc, B, At
  <2>2. Late(j) /\ mem[j].part \in mem[j].discs
    BY <1>0, <2>1 DEF Late, Past, Building, Disc, Fits
  <2> QED
    BY <1>0, <1>1, <1>2, <2>1, <2>2
<1>4. CASE StepFails(j)
  <2>1. mem[j].alive /\ mem[j].ending = "none" /\ mem[j].part # "go"
    BY <1>4, <1>0, StepFailsDoes
  <2>2. PICK sent \in SUBSET (IF mem[j].at = "answers" THEN mem[j].discs ELSE {}) :
          discs' = [discs EXCEPT ![of[j]] = @ \union sent]
    BY <1>4 DEF StepFails, B
  <2>3. mem[j].at = "answers" => Late(j)
    BY <1>0, <2>1 DEF Late, Past, Building, UndoParts
  <2> QED
    BY <1>0, <1>1, <1>2, <2>2, <2>3
<1>5. CASE DeleteAnswers(j) \/ DeletePackages(j) \/ UndoDiscs(j)
  <2>1. discs'[of[j]] \subseteq discs[of[j]]
    BY <1>0, <1>5 DEF DeleteAnswers, DeletePackages, UndoDiscs, B
  <2> QED
    BY <1>1, <1>2, <2>1
<1>6. CASE ~ (SendDisc(j) \/ StepFails(j) \/ DeleteAnswers(j) \/ DeletePackages(j)
             \/ UndoDiscs(j))
  <2>1. discs' = discs
    BY <1>6
    DEF Acts, Work, Claim, Begin, Check, Media, MediaSent, NextVmid, Post, PostUnanswered, Made,
       StoreSecret, NameSecret, Install, Packages, WriteSuccess, Succeed, Cancelled, Abandon,
       UndoVm, UndoVmFails, UndoDiscsFails, UndoSecret, UndoRecord, End, WorkerDies, Reconcile,
       Stall, CancelQueued, AskCancel, cluster
  <2> QED
    BY <1>1, <1>2, <2>1
<1> QED
  BY <1>3, <1>4, <1>5, <1>6

LEMMA DiscsFitAfter ==
  ASSUME CleanInv, DiscsFit, NEW j \in Job, of[j] \in Build,
         \/ Begin(j)
         \/ Check(j)
         \/ Media(j)
         \/ MediaSent(j)
         \/ NextVmid(j)
         \/ Post(j)
         \/ PostUnanswered(j)
         \/ Made(j)
         \/ StoreSecret(j)
         \/ NameSecret(j)
         \/ SendDisc(j)
         \/ Install(j)
         \/ Packages(j)
         \/ DeleteAnswers(j)
         \/ DeletePackages(j)
         \/ WriteSuccess(j)
         \/ StepFails(j)
         \/ Cancelled(j)
         \/ UndoVm(j)
         \/ UndoVmFails(j)
         \/ UndoDiscs(j)
         \/ UndoDiscsFails(j)
         \/ UndoSecret(j)
         \/ UndoRecord(j)
         \/ Claim(j)
         \/ AskCancel(j)
  PROVE  DiscsFitAt(j)'
<1>0. /\ TypeInv /\ Fits(j, mem[j]) /\ DiscsFitAt(j) /\ discs[of[j]] \subseteq DiscsOf(of[j])
      /\ mem[j].part \in UndoParts <=> mem[j].ending # "none"
      /\ mem[j].discs \subseteq Disc /\ mem[j].ending \in {"none", "FAILED", "CANCELLED"}
      /\ discs \in [Build -> SUBSET Disc]
  BY DEF CleanInv, OwnInv, DiscsFit, TypeInv, JobTypes, RowFits, MemFits, MemType, ThingTypes
<1>1. CASE Begin(j)
  BY <1>1, <1>0, BeginDoes
  DEF Becomes, Comes, DiscsFitAt, DiscsOf, Fits, Building, Disc, UndoParts
<1>2. CASE Check(j)
  BY <1>2, <1>0, CheckDoes
  DEF Becomes, Comes, Gives, DiscsFitAt, DiscsOf, Fits, Building, Disc, UndoParts
<1>3. CASE Media(j)
  BY <1>3, <1>0, MediaDoes
  DEF Becomes, Comes, DiscsFitAt, DiscsOf, Fits, Building, Disc, UndoParts
<1>4. CASE MediaSent(j)
  BY <1>4, <1>0, MediaSentDoes
  DEF Becomes, Comes, DiscsFitAt, DiscsOf, Fits, Building, Disc, UndoParts
<1>5. CASE NextVmid(j)
  BY <1>5, <1>0, NextVmidDoes
  DEF Becomes, Comes, DiscsFitAt, DiscsOf, Fits, Building, Disc, UndoParts
<1>6. CASE Post(j)
  BY <1>6, <1>0, PostDoes
  DEF Becomes, Gives, DiscsFitAt, DiscsOf, Fits, Building, Disc, UndoParts
<1>7. CASE PostUnanswered(j)
  BY <1>7, <1>0, PostUnansweredDoes
  DEF Becomes, Gives, DiscsFitAt, DiscsOf, Fits, Building, Disc, UndoParts
<1>8. CASE Made(j)
  BY <1>8, <1>0, MadeDoes
  DEF Becomes, Comes, DiscsFitAt, DiscsOf, Fits, Building, Disc, UndoParts
<1>9. CASE StoreSecret(j)
  BY <1>9, <1>0, StoreSecretDoes
  DEF Becomes, DiscsFitAt, DiscsOf, Fits, Building, Disc, UndoParts
<1>10. CASE NameSecret(j)
  BY <1>10, <1>0, NameSecretDoes
  DEF Becomes, DiscsFitAt, DiscsOf, Fits, Building, Disc, UndoParts
<1>11. CASE SendDisc(j)
  <2>1. /\ mem[j].alive /\ mem[j].at = "answers" /\ mem[j].part \in Disc
        /\ \/ Comes(j, "install", "go")
           \/ Becomes(j, "answers", "packages", mem[j].vmid, Disc, mem[j].cred, mem[j].done,
                      mem[j].ending)
    BY <1>11, <1>0, SendDiscDoes
  <2>2. IF mem[j].part = "answers" /\ of[j] \in Packaged
        THEN Notes(j, [mem[j] EXCEPT !.part = "packages", !.discs = Disc])
        ELSE Onward(j)
    BY <1>11 DEF SendDisc, B, At
  <2> DEFINE m == [mem[j] EXCEPT !.part = "packages", !.discs = Disc]
  <2>5. m.at = "answers"
    BY <1>0, <2>1 DEF TypeInv, JobTypes, MemType
  <2>6. Notes(j, m) => mem'[j] = m
    BY <1>0 DEF Notes, TypeInv, JobTypes
  <2> HIDE DEF m
  <2>3. mem'[j].at = "install" => mem[j].part = "packages" \/ of[j] \notin Packaged
    BY <2>1, <2>2, <2>5, <2>6 DEF Disc, m
  <2>4. mem'[j].at # "install" => of[j] \in Packaged
    BY <1>0, <2>1, <2>2, OnwardDoes, StepAfter DEF Comes, Becomes
  <2>7. /\ mem[j].part = "answers" => "answers" \in mem[j].discs
        /\ mem[j].part = "packages" => mem[j].discs = Disc
        /\ mem[j].discs \subseteq DiscsOf(of[j]) /\ of'[j] = of[j]
    BY <1>0, <2>1 DEF Fits, DiscsFitAt, Becomes, Comes
  <2>8. CASE Comes(j, "install", "go")
    <3>1. mem'[j].at = "install" /\ mem'[j].part = "go" /\ mem'[j].discs = mem[j].discs
      BY <2>8 DEF Comes, Becomes
    <3>2. mem[j].discs = DiscsOf(of[j])
      BY <2>1, <2>3, <2>7, <3>1 DEF DiscsOf, Disc
    <3> QED
      BY <2>7, <3>1, <3>2 DEF DiscsFitAt, DiscsOf
  <2>9. CASE ~ Comes(j, "install", "go")
    <3>1. mem'[j].at = "answers" /\ mem'[j].part = "packages" /\ mem'[j].discs = Disc
      BY <2>1, <2>9 DEF Becomes
    <3> QED
      BY <2>4, <2>7, <3>1 DEF DiscsFitAt, DiscsOf
  <2> QED
    BY <2>8, <2>9
<1>12. CASE Install(j)
  BY <1>12, <1>0, InstallDoes
  DEF Becomes, Comes, DiscsFitAt, DiscsOf, Fits, Building, Disc, UndoParts
<1>13. CASE Packages(j)
  BY <1>13, <1>0, PackagesDoes
  DEF Becomes, Comes, Gives, DiscsFitAt, DiscsOf, Fits, Building, Disc, UndoParts
<1>14. CASE DeleteAnswers(j)
  <2>1. discs'[of[j]] = discs[of[j]] \ {"answers"}
    BY <1>0, <1>14 DEF DeleteAnswers, B
  <2> QED
    BY <1>14, <1>0, <2>1, DeleteAnswersDoes
    DEF Becomes, DiscsFitAt, DiscsOf, Fits, Building, Disc, UndoParts
<1>15. CASE DeletePackages(j)
  <2>1. discs'[of[j]] = discs[of[j]] \ mem[j].discs
    BY <1>0, <1>15 DEF DeletePackages, B
  <2> QED
    BY <1>15, <1>0, <2>1, DeletePackagesDoes
    DEF Becomes, DiscsFitAt, DiscsOf, Fits, Building, Disc, UndoParts
<1>16. CASE WriteSuccess(j)
  BY <1>16, <1>0, WriteSuccessDoes
  DEF Becomes, Comes, DiscsFitAt, DiscsOf, Fits, Building, Disc, UndoParts
<1>17. CASE StepFails(j)
  BY <1>17, <1>0, StepFailsDoes
  DEF Becomes, Gives, DiscsFitAt, DiscsOf, Fits, Building, Disc, UndoParts
<1>18. CASE Cancelled(j)
  BY <1>18, <1>0, CancelledDoes
  DEF Becomes, Gives, DiscsFitAt, DiscsOf, Fits, Building, Disc, UndoParts
<1>19. CASE UndoVm(j)
  BY <1>19, <1>0, UndoVmDoes
  DEF Becomes, Comes, DiscsFitAt, DiscsOf, Fits, Building, Disc, UndoParts
<1>20. CASE UndoVmFails(j)
  BY <1>20, <1>0, UndoVmFailsDoes
  DEF Becomes, Comes, DiscsFitAt, DiscsOf, Fits, Building, Disc, UndoParts
<1>21. CASE UndoDiscs(j)
  BY <1>21, <1>0, UndoDiscsDoes
  DEF Becomes, Comes, DiscsFitAt, DiscsOf, Fits, Building, Disc, UndoParts
<1>22. CASE UndoDiscsFails(j)
  BY <1>22, <1>0, UndoDiscsFailsDoes
  DEF Becomes, Comes, DiscsFitAt, DiscsOf, Fits, Building, Disc, UndoParts
<1>23. CASE UndoSecret(j)
  BY <1>23, <1>0, UndoSecretDoes
  DEF Becomes, Comes, DiscsFitAt, DiscsOf, Fits, Building, Disc, UndoParts
<1>24. CASE UndoRecord(j)
  BY <1>24, <1>0, UndoRecordDoes
  DEF Becomes, Comes, DiscsFitAt, DiscsOf, Fits, Building, Disc, UndoParts
<1>25. CASE Claim(j)
  BY <1>25, <1>0, ClaimDoes DEF DiscsFitAt, Fits, Building
<1>26. CASE AskCancel(j)
  BY <1>26, <1>0, AskCancelDoes
  DEF Becomes, Comes, DiscsFitAt, DiscsOf, Fits, Building, Disc, UndoParts, AskCancel, cluster
<1> QED
  BY <1>1, <1>2, <1>3, <1>4, <1>5, <1>6, <1>7, <1>8, <1>9, <1>10, <1>11, <1>12, <1>13, <1>14,
     <1>15, <1>16, <1>17, <1>18, <1>19, <1>20, <1>21, <1>22, <1>23, <1>24, <1>25, <1>26

LEMMA DiscsStayFit ==
  ASSUME CleanInv, RunsApart, DiscsFit, (\E j \in Job : Acts(j)) \/ Around
  PROVE  DiscsFit'
<1>0. TypeInv /\ \A i \in Job : mem[i].alive => of[i] \in Build
  BY DEF CleanInv, OwnInv, TypeInv, JobTypes, RowFits
<1>1. ASSUME NEW j \in Job, Acts(j) PROVE DiscsFit'
  <2>0. of[j] \in Build /\ of' = of /\ \A i \in Job : i # j => mem'[i] = mem[i]
    BY <1>1, ActsDo DEF Alone
  <2>1. \A b \in Build : discs'[b] \subseteq DiscsOf(b)
    <3>1. Late(j) => mem[j].discs \subseteq DiscsOf(of[j])
      BY DEF DiscsFit, DiscsFitAt, Late
    <3> QED
      BY <1>1, <2>0, <3>1, DiscsChange DEF DiscsFit
  <2>2. ASSUME NEW i \in Job, i # j PROVE DiscsFitAt(i)'
    <3>1. SUFFICES ASSUME mem[i].alive, mem[i].at = "finish",
                          mem[i].part \in {"packages", "write"}
                   PROVE  discs'[of[i]] \subseteq discs[of[i]]
      <4>1. DiscsFitAt(i) /\ mem'[i] = mem[i] /\ of'[i] = of[i]
        BY <2>0, <2>2 DEF DiscsFit
      <4> QED
        BY <3>1, <4>1 DEF DiscsFitAt, DiscsOf
    <3>2. Late(i)
      BY <3>1 DEF Late, Past, Building
    <3>3. of[i] = of[j] => ~ Late(j)
      BY <2>2, <3>2 DEF RunsApart
    <3> QED
      BY <1>0, <1>1, <2>0, <3>1, <3>3, DiscsChange
  <2>3. DiscsFitAt(j)'
    <3>1. CASE Succeed(j) \/ WorkerDies(j) \/ Abandon(j) \/ End(j)
      BY <1>0, <3>1, GoesDoes DEF Goes, NoMem, DiscsFitAt
    <3>2. CASE Reconcile(j) \/ Stall(j) \/ CancelQueued(j)
      <4>1. mem' = mem /\ discs' = discs
        BY <3>2 DEF Reconcile, Stall, CancelQueued, cluster
      <4> QED
        BY <2>0, <4>1 DEF DiscsFit, DiscsFitAt, DiscsOf
    <3> QED
      BY <1>1, <2>0, <3>1, <3>2, DiscsFitAfter DEF Acts, Work
  <2> QED
    BY <2>1, <2>2, <2>3 DEF DiscsFit
<1>2. CASE Around
  <2>1. /\ mem' = mem /\ discs' = discs /\ \A i \in Job : mem[i].alive => of'[i] = of[i]
    BY <1>0, <1>2, AroundDoes
  <2> QED
    BY <2>1 DEF DiscsFit, DiscsFitAt, DiscsOf
<1> QED
  BY <1>1, <1>2

LEMMA DoneStaysDone ==
  ASSUME CleanInv, RunsApart, DiscsFit, DoneIsDone, (\E j \in Job : Acts(j)) \/ Around
  PROVE  DoneIsDone'
<1>0. TypeInv /\ MemFits /\ \A i \in Job : mem[i].alive => of[i] \in Build
  BY DEF CleanInv, OwnInv, TypeInv, JobTypes, RowFits
<1>1. ASSUME NEW j \in Job, Acts(j) PROVE DoneIsDone'
  <2>0. of[j] \in Build /\ Alone(j) /\ Course(j) /\ of' = of
    BY <1>1, ActsDo DEF Alone
  <2>1. \A i \in Job : i # j =>
          (Late(i)' <=> Late(i)) /\ (Beyond(i)' <=> Beyond(i)) /\ mem'[i] = mem[i]
    BY <2>0 DEF Late, Beyond, Alone
  <2>2. mem[j].done => mem[j].at \in {"finish", "over"}
    BY <1>0 DEF MemFits, Fits
  <2>3. ASSUME NEW b \in Build, rec'[b].state = "SUCCEEDED", rec[b].state = "SUCCEEDED",
               b = of[j] => ~ Check(j)
        PROVE  /\ discs'[b] = {}
               /\ \A i \in Job : of[i] = b /\ (Late(i)' \/ Beyond(i)') => mem'[i].done
    <3>1. discs[b] = {} /\ \A i \in Job : of[i] = b /\ (Late(i) \/ Beyond(i)) => mem[i].done
      BY <2>3 DEF DoneIsDone
    <3>2. discs'[b] = {}
      BY <1>1, <2>0, <2>2, <3>1, DiscsChange
    <3>3. of[j] = b /\ (Late(j)' \/ Beyond(j)') => Late(j) \/ Beyond(j)
      BY <2>0, <2>3 DEF Course
    <3>4. Late(j)' \/ Beyond(j)' => mem'[j].alive
      BY DEF Late, Beyond
    <3>5. Late(j) \/ Beyond(j) => mem[j].alive
      BY DEF Late, Beyond
    <3>6. of[j] = b /\ (Late(j)' \/ Beyond(j)') => mem'[j].done
      BY <2>0, <3>1, <3>3, <3>4, <3>5 DEF Course
    <3> QED
      BY <2>1, <3>1, <3>2, <3>6
  <2>4. ASSUME NEW b \in Build, b = of[j], WriteSuccess(j)
        PROVE  /\ discs'[b] = {}
               /\ \A i \in Job : of[i] = b /\ (Late(i)' \/ Beyond(i)') => mem'[i].done
    <3>1. mem[j].alive /\ mem[j].at = "finish" /\ mem[j].part = "write" /\ Comes(j, "over", "go")
      BY <1>0, <2>4, WriteSuccessDoes
    <3>2. Late(j)
      BY <3>1 DEF Late, Past, Building
    <3>3. discs[b] = {} /\ mem[j].done /\ discs' = discs
      BY <2>4, <3>1 DEF DiscsFit, DiscsFitAt, WriteSuccess, cluster
    <3>4. mem'[j].done
      BY <3>1, <3>3 DEF Comes, Becomes
    <3>5. \A i \in Job : of[i] = b /\ i # j => ~ Late(i) /\ ~ Beyond(i)
      BY <2>4, <3>2 DEF RunsApart
    <3> QED
      BY <2>1, <3>3, <3>4, <3>5
  <2>5. ASSUME NEW b \in Build, rec'[b].state = "SUCCEEDED"
        PROVE  \/ rec[b].state = "SUCCEEDED" /\ (b = of[j] => ~ Check(j))
               \/ b = of[j] /\ WriteSuccess(j)
    BY <1>0, <1>1, <2>0, <2>5, RowsChange
  <2> QED
    BY <2>0, <2>3, <2>4, <2>5 DEF DoneIsDone
<1>2. CASE Around
  <2>1. /\ mem' = mem /\ discs' = discs
        /\ \A i \in Job : mem[i].alive => row'[i] = row[i] /\ of'[i] = of[i]
    BY <1>0, <1>2, AroundDoes
  <2>2. \A b \in Build : rec'[b].state = "SUCCEEDED" => rec[b].state = "SUCCEEDED"
    BY <1>2, AroundRows
  <2>3. \A i \in Job : Late(i)' \/ Beyond(i)' => (Late(i) \/ Beyond(i)) /\ of'[i] = of[i]
    BY <2>1 DEF Late, Beyond
  <2> QED
    BY <2>1, <2>2, <2>3 DEF DoneIsDone
<1> QED
  BY <1>1, <1>2

\* Of the only job of a build: its credential is in the row from when its CDs are sent until
\* a clean-up begins, the sweep takes it for lost or, when it has succeeded, it expires; before,
\* neither the row nor the sweep has it.
Unnamed(m) == m.at \in Building \/ (m.at = "answers" /\ m.part \in {"go", "on", "stored"})
Holding(m) ==
  /\ m.alive /\ m.part \notin UndoParts
  /\ m.at \in {"install", "packages", "finish"} \/ (m.at = "answers" /\ m.part \in Disc)
Lost(b) == rec[b].error = "worker_lost"
Named(j) == rec[of[j]].cred = j /\ j \in secrets
CredAt(j) ==
  /\ rec[of[j]].expiry # "none" => row[j] # "QUEUED" /\ (mem[j].alive => mem[j].at = "over")
  /\ mem[j].alive /\ mem[j].at = "answers" /\ mem[j].part = "stored" => j \in secrets
  /\ Holding(mem[j]) => Lost(of[j]) \/ Named(j)
  /\ rec[of[j]].cred = j \/ (sw.at # "idle" /\ sw.cred = j) =>
       row[j] # "QUEUED" /\ (mem[j].alive => ~ Unnamed(mem[j]))
  /\ sw.at = "secret" /\ sw.cred = j => rec[of[j]].state \notin Opened /\ Lost(of[j])
  /\ rec[of[j]].expiry = "ahead" => Lost(of[j]) \/ Named(j)
CredInv ==
  /\ \A b \in Build : rec[b].expiry # "none" => \E j \in Job : of[j] = b
  /\ \A j \in Job : of[j] # Nobody /\ of[j] \notin strayed => CredAt(j)

\* A run that goes on.
Rests(j) ==
  /\ row'[j] = "QUEUED" => row[j] = "QUEUED"
  /\ mem'[j].alive =>
       IF mem[j].alive THEN /\ mem[j].at = "over" => mem'[j].at = "over"
                            /\ Unnamed(mem[j])' => Unnamed(mem[j])
       ELSE row[j] = "QUEUED" /\ Unnamed(mem[j])'

\* Steps that write neither the row nor the credential.
LEMMA QuietRests ==
  ASSUME OwnInv, NEW j \in Job,
         \/ Begin(j)
         \/ Media(j)
         \/ MediaSent(j)
         \/ NextVmid(j)
         \/ Post(j)
         \/ PostUnanswered(j)
         \/ SendDisc(j)
         \/ Install(j)
         \/ Packages(j)
         \/ DeleteAnswers(j)
         \/ DeletePackages(j)
         \/ StepFails(j)
         \/ Cancelled(j)
         \/ UndoVm(j)
         \/ UndoVmFails(j)
         \/ UndoDiscs(j)
         \/ UndoDiscsFails(j)
         \/ AskCancel(j)
         \/ Claim(j)
  PROVE  /\ Rests(j) /\ (Holding(mem[j])' => Holding(mem[j]))
         /\ mem'[j].alive /\ mem'[j].at = "answers" /\ mem'[j].part = "stored" =>
              mem[j].alive /\ mem[j].at = "answers" /\ mem[j].part = "stored"
         /\ rec' = rec /\ secrets' = secrets /\ sw' = sw
<1>0. /\ TypeInv /\ Fits(j, mem[j]) /\ (mem[j].part \in UndoParts <=> mem[j].ending # "none")
      /\ mem[j].alive => row[j] # "QUEUED"
  BY DEF OwnInv, TypeInv, JobTypes, RowFits, MemFits
<1>1. rec' = rec /\ secrets' = secrets /\ sw' = sw
  BY DEF Begin, Media, MediaSent, NextVmid, Post, PostUnanswered, SendDisc, Install, Packages,
     DeleteAnswers, DeletePackages, StepFails, Cancelled, UndoVm, UndoVmFails, UndoDiscs,
     UndoDiscsFails, AskCancel, Claim
<1>2. CASE Begin(j)
  BY <1>2, <1>0, <1>1, BeginDoes
  DEF Becomes, Comes, Rests, Holding, Unnamed, Building, Disc, UndoParts
<1>3. CASE Media(j)
  BY <1>3, <1>0, <1>1, MediaDoes
  DEF Becomes, Comes, Rests, Holding, Unnamed, Building, Disc, UndoParts
<1>4. CASE MediaSent(j)
  BY <1>4, <1>0, <1>1, MediaSentDoes
  DEF Becomes, Comes, Rests, Holding, Unnamed, Building, Disc, UndoParts
<1>5. CASE NextVmid(j)
  BY <1>5, <1>0, <1>1, NextVmidDoes
  DEF Becomes, Comes, Rests, Holding, Unnamed, Building, Disc, UndoParts
<1>6. CASE Post(j)
  BY <1>6, <1>0, <1>1, PostDoes
  DEF Becomes, Gives, Rests, Holding, Unnamed, Building, Disc, UndoParts
<1>7. CASE PostUnanswered(j)
  BY <1>7, <1>0, <1>1, PostUnansweredDoes
  DEF Becomes, Gives, Rests, Holding, Unnamed, Building, Disc, UndoParts
<1>8. CASE SendDisc(j)
  BY <1>8, <1>0, <1>1, SendDiscDoes
  DEF Becomes, Comes, Rests, Holding, Unnamed, Building, Disc, UndoParts
<1>9. CASE Install(j)
  BY <1>9, <1>0, <1>1, InstallDoes
  DEF Becomes, Comes, Rests, Holding, Unnamed, Building, Disc, UndoParts
<1>10. CASE Packages(j)
  BY <1>10, <1>0, <1>1, PackagesDoes
  DEF Becomes, Comes, Gives, Rests, Holding, Unnamed, Building, Disc, UndoParts
<1>11. CASE DeleteAnswers(j)
  BY <1>11, <1>0, <1>1, DeleteAnswersDoes
  DEF Becomes, Rests, Holding, Unnamed, Building, Disc, UndoParts
<1>12. CASE DeletePackages(j)
  BY <1>12, <1>0, <1>1, DeletePackagesDoes
  DEF Becomes, Rests, Holding, Unnamed, Building, Disc, UndoParts
<1>13. CASE StepFails(j)
  BY <1>13, <1>0, <1>1, StepFailsDoes
  DEF Becomes, Gives, Rests, Holding, Unnamed, Building, Disc, UndoParts
<1>14. CASE Cancelled(j)
  BY <1>14, <1>0, <1>1, CancelledDoes
  DEF Becomes, Gives, Rests, Holding, Unnamed, Building, Disc, UndoParts
<1>15. CASE UndoVm(j)
  BY <1>15, <1>0, <1>1, UndoVmDoes
  DEF Becomes, Comes, Rests, Holding, Unnamed, Building, Disc, UndoParts
<1>16. CASE UndoVmFails(j)
  BY <1>16, <1>0, <1>1, UndoVmFailsDoes
  DEF Becomes, Comes, Rests, Holding, Unnamed, Building, Disc, UndoParts
<1>17. CASE UndoDiscs(j)
  BY <1>17, <1>0, <1>1, UndoDiscsDoes
  DEF Becomes, Comes, Rests, Holding, Unnamed, Building, Disc, UndoParts
<1>18. CASE UndoDiscsFails(j)
  BY <1>18, <1>0, <1>1, UndoDiscsFailsDoes
  DEF Becomes, Comes, Rests, Holding, Unnamed, Building, Disc, UndoParts
<1>19. CASE AskCancel(j)
  BY <1>19, <1>0, <1>1, AskCancelDoes
  DEF Becomes, Comes, Rests, Holding, Unnamed, Building, Disc, UndoParts
<1>20. CASE Claim(j)
  BY <1>20, <1>0, <1>1, ClaimDoes
  DEF Rests, Holding, Unnamed, Building, Disc, Fits, TypeInv, JobTypes
<1> QED
  BY <1>2, <1>3, <1>4, <1>5, <1>6, <1>7, <1>8, <1>9, <1>10, <1>11, <1>12, <1>13, <1>14, <1>15,
     <1>16, <1>17, <1>18, <1>19, <1>20

LEMMA CredAfter ==
  ASSUME CleanInv, DiscsFit, NEW j \in Job, Acts(j), CredAt(j)
  PROVE  CredAt(j)'
<1>0. /\ TypeInv /\ OwnInv /\ Fits(j, mem[j]) /\ DiscsFitAt(j) /\ CredAt(j) /\ of[j] \in Build
      /\ mem[j].part \in UndoParts <=> mem[j].ending # "none"
      /\ mem[j].ending \in {"none", "FAILED", "CANCELLED"}
      /\ mem[j].alive => row[j] # "QUEUED"
      /\ secrets \subseteq Job /\ NoJob \notin Job
  BY ActsDo, ProvisioningAssumption
  DEF CleanInv, OwnInv, DiscsFit, TypeInv, JobTypes, RowFits, MemFits, MemType, ThingTypes
<1>1. of' = of
  BY ActsDo DEF Alone
<1>2. PICK b \in Build : of[j] = b
  BY <1>0
<1>3. ASSUME Rests(j), Holding(mem[j])' => Holding(mem[j]),
             mem'[j].alive /\ mem'[j].at = "answers" /\ mem'[j].part = "stored" =>
               mem[j].alive /\ mem[j].at = "answers" /\ mem[j].part = "stored",
             rec' = rec, secrets' = secrets, sw' = sw
      PROVE  CredAt(j)'
  BY <1>0, <1>1, <1>3 DEF Rests, CredAt, Lost, Named
<1>4. CASE Reconcile(j) \/ Stall(j) \/ CancelQueued(j)
  <2>1. mem' = mem /\ rec' = rec /\ secrets' = secrets /\ sw' = sw
    BY <1>4 DEF Reconcile, Stall, CancelQueued
  <2>2. row'[j] # "QUEUED" /\ (mem[j].alive => row[j] # "QUEUED")
    BY <1>0, <1>4 DEF Reconcile, Stall, CancelQueued, TypeInv, JobTypes
  <2> QED
    BY <1>3, <2>1, <2>2 DEF Rests, Holding, Unnamed
<1>5. CASE Succeed(j) \/ WorkerDies(j) \/ Abandon(j) \/ End(j)
  <2>1. mem[j].alive /\ mem'[j] = NoMem
    BY <1>0, <1>5, GoesDoes DEF Goes
  <2>2. rec' = rec /\ secrets' = secrets /\ sw' = sw
    BY <1>5 DEF Succeed, WorkerDies, Abandon, End
  <2>3. row'[j] = "QUEUED" => row[j] = "QUEUED"
    BY <1>0, <1>5 DEF Succeed, WorkerDies, Abandon, End, TypeInv, JobTypes
  <2> QED
    BY <1>3, <2>1, <2>2, <2>3 DEF Rests, Holding, Unnamed, NoMem
<1>6. CASE Check(j)
  <2>1. /\ mem[j].alive /\ mem[j].at = "check" /\ row' = row
        /\ Comes(j, "media", "go") \/ Gives(j, "FAILED")
    BY <1>0, <1>6, CheckDoes DEF Comes, Gives, Becomes
  <2>2. /\ rec'[b].expiry = rec[b].expiry /\ rec'[b].cred = rec[b].cred
        /\ secrets' = secrets /\ sw' = sw
    BY <1>0, <1>2, <1>6, CheckWrites DEF Check, Writes
  <2>3. /\ rec[b].expiry = "none" /\ rec[b].cred # j
        /\ sw.at # "idle" => sw.cred # j
    BY <1>0, <1>2, <2>1 DEF CredAt, Unnamed, Building
  <2>4. ~ Holding(mem[j])' /\ mem'[j].at # "answers"
    BY <2>1 DEF Comes, Gives, Becomes, Holding
  <2> QED
    BY <1>1, <1>2, <2>2, <2>3, <2>4 DEF CredAt
<1>7. CASE Made(j)
  <2>1. /\ mem[j].alive /\ mem[j].at = "create" /\ row' = row /\ Comes(j, "answers", "go")
    BY <1>0, <1>7, MadeDoes DEF Comes, Becomes
  <2>2. /\ rec'[b].expiry = rec[b].expiry /\ rec'[b].cred = rec[b].cred
        /\ secrets' = secrets /\ sw' = sw
    BY <1>0, <1>2, <1>7, MadeWrites DEF Made, Writes
  <2>3. /\ rec[b].expiry = "none" /\ rec[b].cred # j
        /\ sw.at # "idle" => sw.cred # j
    BY <1>0, <1>2, <2>1 DEF CredAt, Unnamed, Building
  <2>4. ~ Holding(mem[j])' /\ mem'[j].part # "stored"
    BY <2>1 DEF Comes, Becomes, Holding, Disc
  <2> QED
    BY <1>1, <1>2, <2>2, <2>3, <2>4 DEF CredAt
<1>8. CASE StoreSecret(j)
  <2>1. /\ mem[j].alive /\ mem[j].at = "answers" /\ mem[j].part = "on"
        /\ mem'[j].at = "answers" /\ mem'[j].part = "stored"
    BY <1>0, <1>8, StoreSecretDoes DEF Becomes
  <2>2. rec' = rec /\ secrets' = secrets \union {j} /\ sw' = sw
    BY <1>8 DEF StoreSecret
  <2>3. /\ rec[b].expiry = "none" /\ rec[b].cred # j
        /\ sw.at # "idle" => sw.cred # j
    BY <1>0, <1>2, <2>1 DEF CredAt, Unnamed
  <2>4. ~ Holding(mem[j])'
    BY <2>1 DEF Holding, Disc
  <2> QED
    BY <1>1, <1>2, <2>2, <2>3, <2>4 DEF CredAt
<1>9. CASE NameSecret(j)
  <2>1. /\ mem[j].alive /\ mem[j].at = "answers" /\ mem[j].part = "stored" /\ row' = row
        /\ mem'[j].at = "answers" /\ mem'[j].part = "answers"
    BY <1>0, <1>9, NameSecretDoes DEF Becomes
  <2>2. /\ rec'[b].expiry = rec[b].expiry /\ rec'[b].cred = j
        /\ secrets' = secrets /\ sw' = sw
    BY <1>0, <1>2, <1>9, NameSecretWrites DEF NameSecret, Writes
  <2>3. /\ rec[b].expiry = "none" /\ j \in secrets
        /\ sw.at # "idle" => sw.cred # j
    BY <1>0, <1>2, <2>1 DEF CredAt, Unnamed
  <2>4. sw.at # "secret" \/ sw.cred # j
    BY <2>3
  <2> QED
    BY <1>0, <1>1, <1>2, <2>1, <2>2, <2>3, <2>4 DEF CredAt, Unnamed, Building, Named
<1>10. CASE WriteSuccess(j)
  <2>1. /\ mem[j].alive /\ mem[j].at = "finish" /\ mem[j].part = "write" /\ row' = row
        /\ mem'[j].at = "over"
    BY <1>0, <1>10, WriteSuccessDoes DEF Comes, Becomes
  <2>2. /\ rec'[b].cred = rec[b].cred /\ rec'[b].error = rec[b].error
        /\ rec'[b].state = "SUCCEEDED" /\ secrets' = secrets /\ sw' = sw
    BY <1>0, <1>2, <1>10, WriteSuccessWrites DEF WriteSuccess, Writes
  <2>3. Holding(mem[j])
    BY <2>1 DEF Holding, UndoParts
  <2>4. Lost(b)' \/ (rec'[b].cred = j /\ j \in secrets')
    BY <1>0, <1>2, <2>2, <2>3 DEF CredAt, Lost, Named
  <2>5. ~ Holding(mem[j])' /\ ~ Unnamed(mem[j])' /\ row'[j] # "QUEUED" /\ mem'[j].at = "over"
    BY <1>0, <2>1 DEF Holding, Unnamed, Building
  <2>6. sw'.at = "secret" /\ sw'.cred = j => Lost(b)'
    BY <1>0, <1>2, <2>2 DEF CredAt, Lost
  <2> QED
    BY <1>1, <1>2, <2>2, <2>4, <2>5, <2>6 DEF CredAt, Opened, Lost, Named
<1>11. CASE UndoSecret(j)
  <2>1. /\ mem[j].alive /\ mem[j].part = "secret" /\ row' = row
        /\ mem'[j].at = mem[j].at /\ mem'[j].part = "record"
    BY <1>0, <1>11, UndoSecretDoes DEF Comes, Becomes
  <2>2. rec' = rec /\ sw' = sw
    BY <1>11 DEF UndoSecret
  <2>3. mem[j].at # "over" /\ rec[b].expiry = "none"
    BY <1>0, <1>2, <2>1 DEF Fits, DiscsFitAt, CredAt
  <2>4. ~ Holding(mem[j])' /\ (Unnamed(mem[j])' => Unnamed(mem[j]))
    BY <2>1 DEF Holding, Unnamed, UndoParts
  <2> QED
    BY <1>0, <1>1, <1>2, <2>1, <2>2, <2>3, <2>4 DEF CredAt, Lost
<1>12. CASE UndoRecord(j)
  <2>1. /\ mem[j].alive /\ mem[j].part = "record" /\ row' = row
        /\ mem'[j].at = mem[j].at /\ mem'[j].part = "end"
    BY <1>0, <1>12, UndoRecordDoes DEF Comes, Becomes
  <2>2. secrets' = secrets /\ sw' = sw
    BY <1>12 DEF UndoRecord
  <2>3. mem[j].at # "over" /\ rec[b].expiry = "none"
    BY <1>0, <1>2, <2>1 DEF Fits, DiscsFitAt, CredAt
  <2>4. ~ Holding(mem[j])' /\ (Unnamed(mem[j])' => Unnamed(mem[j]))
    BY <2>1 DEF Holding, Unnamed, UndoParts
  <2>5. \/ rec' = rec
        \/ rec[b].state \in Opened /\ rec'[b].cred = NoJob /\ rec'[b].expiry = rec[b].expiry
    BY <1>0, <1>2, <1>12, UndoRecordWrites DEF Writes
  <2> QED
    BY <1>0, <1>1, <1>2, <2>1, <2>2, <2>3, <2>4, <2>5 DEF CredAt, Lost
<1> QED
  BY <1>0, <1>3, <1>4, <1>5, <1>6, <1>7, <1>8, <1>9, <1>10, <1>11, <1>12, QuietRests
  DEF Acts, Work

\* The credential of another job, or of a build that an action is not about, stays what it is.
LEMMA CredUntouched ==
  ASSUME NEW i \in Job, CredAt(i),
         of'[i] = of[i], row'[i] = row[i], mem'[i] = mem[i],
         rec'[of[i]] = rec[of[i]], i \in secrets => i \in secrets',
         sw'.at # "idle" /\ sw'.cred = i =>
           sw.at # "idle" /\ sw.cred = i /\ (sw'.at = "secret" => sw.at = "secret")
  PROVE  CredAt(i)'
BY DEF CredAt, Lost, Named

LEMMA ActsKeepCred ==
  ASSUME CleanInv, DiscsFit, CredInv, NEW j \in Job, Acts(j)
  PROVE  CredInv'
<1>0. /\ TypeInv /\ OwnInv /\ of[j] \in Build /\ Alone(j) /\ Apart(of[j]) /\ of' = of
      /\ strayed' = strayed /\ NoJob \notin Job /\ Nobody \notin Build
      /\ of \in [Job -> Build \union {Nobody}]
  BY ActsDo, ProvisioningAssumption DEF CleanInv, OwnInv, Alone, TypeInv, JobTypes
<1>1. ASSUME NEW i \in Job, of[i] \notin {Nobody, of[j]}, of[i] \notin strayed
      PROVE  CredAt(i)'
  <2>1. i \in secrets => i \in secrets'
    <3>1. mem[j].cred \in {NoJob, j}
      BY <1>0 DEF OwnInv, MemFits, Fits
    <3>2. secrets' = secrets \/ secrets' = secrets \union {j} \/ secrets' = secrets \ {mem[j].cred}
      BY
      DEF Acts, Work, Claim, Begin, Check, Media, MediaSent, NextVmid, Post, PostUnanswered,
         Made, StoreSecret, NameSecret, SendDisc, Install, Packages, DeleteAnswers,
         DeletePackages, WriteSuccess, Succeed, StepFails, Cancelled, Abandon, UndoVm,
         UndoVmFails, UndoDiscs, UndoDiscsFails, UndoSecret, UndoRecord, End, WorkerDies,
         Reconcile, Stall, CancelQueued, AskCancel
    <3> QED
      BY <1>0, <1>1, <3>1, <3>2
  <2>2. sw' = sw
    BY
    DEF Acts, Work, Claim, Begin, Check, Media, MediaSent, NextVmid, Post, PostUnanswered,
       Made, StoreSecret, NameSecret, SendDisc, Install, Packages, DeleteAnswers,
       DeletePackages, WriteSuccess, Succeed, StepFails, Cancelled, Abandon, UndoVm,
       UndoVmFails, UndoDiscs, UndoDiscsFails, UndoSecret, UndoRecord, End, WorkerDies,
       Reconcile, Stall, CancelQueued, AskCancel
  <2> QED
    BY <1>0, <1>1, <2>1, <2>2, CredUntouched DEF CredInv, Apart, Alone
<1>2. of[j] \notin strayed => CredAt(j)' /\ \A i \in Job : of[i] = of[j] => i = j
  BY <1>0, CredAfter DEF CredInv, CleanInv, SingleAt
<1>3. \A b \in Build : b # of[j] => rec'[b] = rec[b]
  BY <1>0 DEF Apart
<1> QED
  BY <1>0, <1>1, <1>2, <1>3 DEF CredInv

\* What the actions around a build do to its row, its credential and the sweep.
AroundCred(b) ==
  /\ \A i \in Job : of[i] \notin {b, Nobody} =>
       /\ i \in secrets => i \in secrets'
       /\ sw'.at # "idle" /\ sw'.cred = i =>
            sw.at # "idle" /\ sw.cred = i /\ (sw'.at = "secret" => sw.at = "secret")
  /\ \A c \in Build : c # b => rec'[c] = rec[c]
  /\ strayed' = strayed

LEMMA AroundKeepsCred ==
  ASSUME CleanInv, CredInv, NEW b \in Build, AroundCred(b), of' = of, row' = row, mem' = mem,
         rec'[b].expiry # "none" => \E j \in Job : of[j] = b,
         b \notin strayed => \A j \in Job : of[j] = b /\ CredAt(j) => CredAt(j)'
  PROVE  CredInv'
<1>0. of \in [Job -> Build \union {Nobody}]
  BY DEF CleanInv, OwnInv, TypeInv, JobTypes
<1>1. ASSUME NEW i \in Job, of[i] \notin {Nobody, b}, of[i] \notin strayed
      PROVE  CredAt(i)'
  BY <1>0, <1>1, CredUntouched DEF AroundCred, CredInv
<1> QED
  BY <1>0, <1>1 DEF CredInv, AroundCred

LEMMA RequestKeepsCred ==
  ASSUME CleanInv, CredInv, NEW b \in Build,
         Request(b) \/ RequestRefused(b) \/ RequestLinks(b) \/ ApiDies(b)
  PROVE  CredInv'
<1>0. CleanParts(b)
  BY CleanHas
<1>1. /\ of' = of /\ row' = row /\ mem' = mem /\ secrets' = secrets /\ sw' = sw
      /\ strayed' = strayed
  BY DEF Request, RequestRefused, RequestLinks, ApiDies, jobs, history
<1>2. \A c \in Build : c # b => rec'[c] = rec[c]
  BY <1>0 DEF Request, RequestRefused, RequestLinks, ApiDies, Record, CleanParts
<1>3. AroundCred(b)
  BY <1>1, <1>2 DEF AroundCred
<1>4. CASE Request(b) \/ RequestRefused(b)
  <2>1. rec'[b].expiry = "none" /\ asks[b].at \in {"none", "row"}
    BY <1>0, <1>4 DEF Request, RequestRefused, Record, NoRec, CleanParts
  <2>2. \A j \in Job : of[j] # b
    BY <1>0, <2>1 DEF CleanParts, SingleAt
  <2> QED
    BY <1>1, <1>2, <1>3, <2>1, <2>2, AroundKeepsCred
<1>5. CASE RequestLinks(b) \/ ApiDies(b)
  <2>1. /\ rec'[b].expiry = rec[b].expiry /\ rec'[b].cred = rec[b].cred
        /\ rec'[b].state = rec[b].state /\ rec'[b].error = rec[b].error
    BY <1>0, <1>5 DEF RequestLinks, ApiDies, Record, CleanParts, RecType
  <2>2. \A j \in Job : of[j] = b /\ CredAt(j) => CredAt(j)'
    BY <1>1, <2>1 DEF CredAt, Lost, Named
  <2> QED
    BY <1>1, <1>2, <1>3, <2>1, <2>2, AroundKeepsCred DEF CredInv
<1> QED
  BY <1>4, <1>5

LEMMA RequestJobKeepsCred ==
  ASSUME CleanInv, CredInv, NEW b \in Build, RequestJob(b)
  PROVE  CredInv'
<1>0. CleanParts(b)
  BY CleanHas
<1>1. PICK j \in Job : Insert(j, b)
  BY DEF RequestJob
<1>2. /\ of[j] = Nobody /\ ~ mem[j].alive /\ mem' = mem /\ of'[j] = b
      /\ \A i \in Job : i # j => of'[i] = of[i] /\ row'[i] = row[i]
  BY <1>0, <1>1 DEF Insert, Free, CleanParts, TypeInv, JobTypes, RowFits
<1>3. /\ rec' = rec /\ secrets' = secrets /\ sw' = sw /\ strayed' = strayed
  BY DEF RequestJob, history
<1>4. \A i \in Job : of[i] # b
  BY <1>0 DEF RequestJob, CleanParts, SingleAt
<1>5. ASSUME NEW i \in Job, i # j, of[i] # Nobody, of[i] \notin strayed
      PROVE  CredAt(i)'
  BY <1>2, <1>3, <1>5, CredUntouched DEF CredInv
<1>6. CredAt(j)'
  <2>1. rec[b].expiry = "none"
    BY <1>4 DEF CredInv
  <2>2. rec[b].cred # j /\ (sw.at # "idle" => sw.cred # j)
    BY <1>0, <1>2 DEF CleanParts, SecretRefs, TypeInv, RecordTypes
  <2>3. sw.at = "secret" => sw.at # "idle"
    OBVIOUS
  <2> QED
    BY <1>2, <1>3, <2>1, <2>2, <2>3 DEF CredAt, Holding
<1>7. \A c \in Build : (\E k \in Job : of[k] = c) => \E k \in Job : of'[k] = c
  BY <1>0, <1>2 DEF CleanParts
<1> QED
  BY <1>2, <1>3, <1>5, <1>6, <1>7 DEF CredInv

LEMMA RetryKeepsCred ==
  ASSUME CleanInv, CredInv, NEW j \in Job, Retry(j)
  PROVE  CredInv'
<1>0. PICK b \in Build : of[j] = b
  BY DEF Retry, RETRYABLE, CleanInv, OwnInv, TypeInv, JobTypes, RowFits
<1>1. CleanParts(b)
  BY CleanHas
<1>2. PICK i \in Job : Insert(i, b)
  BY <1>0 DEF Retry
<1>3. /\ of[i] = Nobody /\ mem' = mem /\ of'[i] = b
      /\ \A k \in Job : k # i => of'[k] = of[k] /\ row'[k] = row[k]
  BY <1>1, <1>2 DEF Insert, Free, CleanParts, TypeInv, JobTypes, RowFits
<1>4. /\ rec' = rec /\ secrets' = secrets /\ sw' = sw /\ strayed' = strayed \union {b}
  BY <1>0 DEF Retry
<1>5. ASSUME NEW k \in Job, k # i, of[k] # Nobody, of[k] \notin strayed
      PROVE  CredAt(k)'
  BY <1>3, <1>4, <1>5, CredUntouched DEF CredInv
<1>6. \A c \in Build : (\E k \in Job : of[k] = c) => \E k \in Job : of'[k] = c
  BY <1>1, <1>3 DEF CleanParts
<1> QED
  BY <1>3, <1>4, <1>5, <1>6 DEF CredInv

LEMMA SweepReadsKeepsCred ==
  ASSUME CleanInv, CredInv, NEW b \in Build, SweepReads(b)
  PROVE  CredInv'
<1>0. CleanParts(b)
  BY CleanHas
<1>1. /\ sw'.at = "lost" /\ sw'.cred \in {NoJob, rec[b].cred} /\ rec' = rec
      /\ of' = of /\ row' = row /\ mem' = mem /\ secrets' = secrets /\ strayed' = strayed
  BY DEF SweepReads, Reads, jobs, history
<1>2. AroundCred(b)
  BY <1>0, <1>1 DEF AroundCred, CleanParts, SecretRefs
<1>3. \A j \in Job : of[j] = b /\ CredAt(j) => CredAt(j)'
  BY <1>0, <1>1 DEF CredAt, Lost, Named, CleanParts
<1> QED
  BY <1>1, <1>2, <1>3, AroundKeepsCred DEF CredInv

LEMMA SweepFailsKeepsCred ==
  ASSUME CleanInv, CredInv, SweepFails
  PROVE  CredInv'
<1>0. PICK b \in Build : sw.build = b
  BY DEF SweepFails, CleanInv, OwnInv, TypeInv, RecordTypes
<1>1. CleanParts(b)
  BY CleanHas
<1>2. /\ sw.at = "lost" /\ of' = of /\ row' = row /\ mem' = mem /\ secrets' = secrets
      /\ strayed' = strayed /\ Swept.at = "idle"
  BY DEF SweepFails, jobs, Swept
<1>3. /\ sw'.at # "idle" => sw'.cred = sw.cred
      /\ \A c \in Build : c # b => rec'[c] = rec[c]
  BY <1>0, <1>1, <1>2 DEF SweepFails, Record, CleanParts, TypeInv, RecordTypes
<1>4. AroundCred(b)
  BY <1>0, <1>1, <1>2, <1>3 DEF AroundCred, CleanParts, SecretRefs
<1>5. CASE rec[b].state \in Opened
  <2> DEFINE r == [rec[b] EXCEPT !.state = "FAILED", !.error = "worker_lost", !.cred = NoJob]
  <2>1. /\ r.state = "FAILED" /\ r.error = "worker_lost" /\ r.cred = NoJob
        /\ r.expiry = rec[b].expiry
    BY <1>1 DEF CleanParts, RecType
  <2>2. rec'[b] = r
    BY <1>0, <1>1, <1>5 DEF SweepFails, Record, CleanParts
  <2> HIDE DEF r
  <2>3. \A j \in Job : of[j] = b /\ CredAt(j) => CredAt(j)'
    BY <1>1, <1>2, <1>3, <2>1, <2>2 DEF CredAt, Lost, Named, CleanParts, Opened
  <2> QED
    BY <1>2, <1>4, <2>1, <2>2, <2>3, AroundKeepsCred DEF CredInv
<1>6. CASE rec[b].state \notin Opened
  <2>1. rec' = rec /\ sw'.at = "idle"
    BY <1>0, <1>2, <1>6 DEF SweepFails
  <2>2. \A j \in Job : of[j] = b /\ CredAt(j) => CredAt(j)'
    BY <1>2, <2>1 DEF CredAt, Lost, Named
  <2> QED
    BY <1>2, <1>4, <2>1, <2>2, AroundKeepsCred DEF CredInv
<1> QED
  BY <1>5, <1>6

LEMMA SweepSecretKeepsCred ==
  ASSUME CleanInv, CredInv, SweepSecret
  PROVE  CredInv'
<1>0. PICK b \in Build : sw.build = b
  BY DEF SweepSecret, CleanInv, OwnInv, TypeInv, RecordTypes
<1>1. CleanParts(b)
  BY CleanHas
<1>2. /\ sw.at = "secret" /\ of' = of /\ row' = row /\ mem' = mem /\ rec' = rec
      /\ strayed' = strayed /\ sw'.at = "idle"
      /\ \A i \in Job : i \in secrets /\ i # sw.cred => i \in secrets'
  BY DEF SweepSecret, jobs, Swept
<1>3. AroundCred(b)
  BY <1>0, <1>1, <1>2 DEF AroundCred, CleanParts, SecretRefs
<1>4. ASSUME NEW j \in Job, of[j] = b, CredAt(j) PROVE CredAt(j)'
  <2>1. CASE j = sw.cred
    BY <1>2, <1>4, <2>1 DEF CredAt, Lost, Named, Unnamed
  <2>2. CASE j # sw.cred
    BY <1>2, <1>4, <2>2 DEF CredAt, Lost, Named
  <2> QED
    BY <2>1, <2>2
<1> QED
  BY <1>2, <1>3, <1>4, AroundKeepsCred DEF CredInv

LEMMA ExpireKeepsCred ==
  ASSUME CleanInv, CredInv, NEW b \in Build, Expire(b)
  PROVE  CredInv'
<1>0. CleanParts(b) /\ rec[b].cred # NoJob /\ rec[b].expiry = "ahead" /\ of[rec[b].cred] = b
  BY CleanHas DEF Expire, CleanParts, SecretRefs
<1>1. /\ of' = of /\ row' = row /\ mem' = mem /\ sw' = sw /\ strayed' = strayed
      /\ \A i \in Job : i \in secrets /\ i # rec[b].cred => i \in secrets'
  BY DEF Expire, jobs
<1>2. /\ rec'[b].state = rec[b].state /\ rec'[b].error = rec[b].error
      /\ rec'[b].cred = NoJob /\ rec'[b].expiry = "past"
      /\ \A c \in Build : c # b => rec'[c] = rec[c]
  BY <1>0 DEF Expire, Record, CleanParts, RecType
<1>3. AroundCred(b)
  BY <1>0, <1>1, <1>2 DEF AroundCred
<1>4. ASSUME NEW j \in Job, of[j] = b, CredAt(j) PROVE CredAt(j)'
  <2>1. ~ Holding(mem[j]) /\ (mem[j].alive => mem[j].at = "over")
    BY <1>0, <1>4 DEF CredAt, Holding
  <2> QED
    BY <1>0, <1>1, <1>2, <1>4, <2>1 DEF CredAt, Lost, CleanParts
<1> QED
  BY <1>0, <1>1, <1>2, <1>3, <1>4, AroundKeepsCred DEF CredInv

-----------------------------------------------------------------------------
(* All of it *)

WholeInv ==
  /\ CleanInv /\ KeysHeld /\ RunsApart /\ VmIsSafe /\ DiscsFit /\ DoneIsDone /\ CredInv

LEMMA InitWhole == Init => WholeInv
<1> SUFFICES ASSUME Init PROVE WholeInv
  OBVIOUS
<1>1. /\ CleanInv /\ Nobody \notin Build
      /\ \A j \in Job : ~ mem[j].alive /\ of[j] = Nobody /\ ~ Active(j)
      /\ \A b \in Build : rec[b].state = "none" /\ rec[b].expiry = "none" /\ discs[b] = {}
  BY InitClean, ProvisioningAssumption DEF Init, NoMem, NoRec, Active, ACTIVE_JOB_STATUSES
<1>2. \A j \in Job : ~ Late(j) /\ ~ Beyond(j)
  BY <1>1 DEF Late, Beyond
<1> QED
  BY <1>1, <1>2
  DEF WholeInv, KeysHeld, RunsApart, VmIsSafe, DiscsFit, DiscsFitAt, DoneIsDone, CredInv

LEMMA NextWhole == WholeInv /\ [Next]_vars => WholeInv'
<1> SUFFICES ASSUME WholeInv, [Next]_vars PROVE WholeInv'
  OBVIOUS
<1>0. CleanInv'
  BY NextClean DEF WholeInv
<1>1. CASE UNCHANGED vars
  <2>1. /\ host' = host /\ rec' = rec /\ row' = row /\ of' = of /\ mem' = mem /\ vms' = vms
        /\ discs' = discs /\ secrets' = secrets /\ sw' = sw /\ strayed' = strayed
    BY <1>1 DEF vars, jobs, cluster, history
  <2>2. KeysHeld' /\ RunsApart'
    BY <2>1 DEF WholeInv, KeysHeld, RunsApart, Active, Late, Beyond
  <2>3. VmIsSafe'
    BY <2>1 DEF WholeInv, VmIsSafe, VmSafe, Late
  <2>4. DiscsFit' /\ DoneIsDone'
    BY <2>1 DEF WholeInv, DiscsFit, DiscsFitAt, DiscsOf, DoneIsDone, Late, Beyond
  <2>5. CredInv'
    BY <2>1, CredUntouched DEF WholeInv, CredInv
  <2> QED
    BY <1>0, <2>2, <2>3, <2>4, <2>5 DEF WholeInv
<1>2. ASSUME (\E j \in Job : Acts(j)) \/ Around PROVE WholeInv'
  <2>1. KeysHeld' /\ RunsApart' /\ VmIsSafe' /\ DiscsFit' /\ DoneIsDone'
    BY <1>2, KeysStayHeld, RunsStayApart, VmsStaySafe, DiscsStayFit, DoneStaysDone DEF WholeInv
  <2>2. CredInv'
    BY <1>2, ActsKeepCred, RequestKeepsCred, RequestJobKeepsCred, RetryKeepsCred,
       SweepReadsKeepsCred, SweepFailsKeepsCred, SweepSecretKeepsCred, ExpireKeepsCred
    DEF WholeInv, Around, Ask, Sweep
  <2> QED
    BY <1>0, <2>1, <2>2 DEF WholeInv
<1> QED
  BY <1>1, <1>2 DEF Next, Acts, Around

\* A build that the row says succeeded has its VM under the number in the row, whoever else
\* was at work on the build, no CD is left, and its passwords are there until they expire.
THEOREM SuccessIsSound == Spec => []SuccessIsWhole
<1>1. WholeInv => SuccessIsWhole
  <2> SUFFICES ASSUME WholeInv, NEW b \in Build, rec[b].state = "SUCCEEDED"
               PROVE  /\ vms[rec[b].vmid] = b
                      /\ discs[b] = {}
                      /\ rec[b].expiry = "ahead" /\ rec[b].error # "worker_lost"
                         /\ b \notin strayed => rec[b].cred \in secrets
    BY DEF SuccessIsWhole
  <2>1. vms[rec[b].vmid] = b
    BY DEF WholeInv, VmIsSafe, VmSafe
  <2>2. discs[b] = {}
    BY DEF WholeInv, DoneIsDone
  <2>3. ASSUME rec[b].expiry = "ahead", rec[b].error # "worker_lost", b \notin strayed
        PROVE  rec[b].cred \in secrets
    <3>1. PICK j \in Job : of[j] = b
      BY <2>3 DEF WholeInv, CredInv
    <3>2. CredAt(j)
      BY <2>3, <3>1, ProvisioningAssumption DEF WholeInv, CredInv
    <3> QED
      BY <2>3, <3>1, <3>2 DEF CredAt, Lost, Named
  <2> QED
    BY <2>1, <2>2, <2>3
<1>2. Spec => []WholeInv
  BY InitWhole, NextWhole, PTL DEF Spec
<1> QED
  BY <1>1, <1>2, PTL

=============================================================================
