---------------------------- MODULE LibraryProofs ----------------------------
(***************************************************************************)
(* What the image library guarantees for any number of items, parts and    *)
(* requests, and under every combination of faults.                        *)
(***************************************************************************)
EXTENDS Library, TLAPS

-----------------------------------------------------------------------------
(* Types *)

\* An upload that is still being received has a part to come.
PartToCome == \A i \in Item : state[i] \in {"NONE", "RECEIVING"} => received[i] < Parts

\* A request that writes carries a part.
CarriesPart(c) == c.op \in {"write", "count"} => c.part \in Part
WritesParts == \A c \in calls : CarriesPart(c)

TypeInv == TypeOK /\ PartToCome /\ WritesParts

\* Requests are calls, whatever part they carry.
LEMMA RequestIsCall ==
  ASSUME NEW op \in Ops, NEW i \in Item
  PROVE  /\ Request(op, i) \in Call
         /\ \A n \in 0 .. Parts : [Request(op, i) EXCEPT !.part = n] \in Call
         /\ op \notin {"write", "count"} =>
              /\ CarriesPart(Request(op, i))
              /\ \A n : CarriesPart([Request(op, i) EXCEPT !.part = n])
<1>1. 0 \in 0 .. Parts
  BY LibraryAssumption
<1>2. Request(op, i) \in Call
  BY <1>1 DEF Request, Call
<1> QED
  BY <1>2 DEF Call, CarriesPart, Request

\* Admitting, continuing or ending a request keeps the set of requests well typed.
CallsType == calls \subseteq Call /\ WritesParts

LEMMA AdmitType ==
  ASSUME TypeInv, NEW c \in Call, CarriesPart(c), Admit(c)
  PROVE  CallsType'
BY DEF TypeInv, TypeOK, Admit, CallsType, WritesParts

\* The next statement of a request carries the part the last one did.
LEMMA ContinueType ==
  ASSUME TypeInv, NEW c \in calls, NEW op \in Ops, Continue(c, op),
         op \notin {"write", "count"} \/ (c.op = "write" /\ op = "count")
  PROVE  CallsType'
<1>1. c \in Call /\ CarriesPart(c)
  BY DEF TypeInv, TypeOK, WritesParts
<1>2. [c EXCEPT !.op = op] \in Call
  BY <1>1 DEF Call
<1>3. CarriesPart([c EXCEPT !.op = op])
  BY <1>1 DEF CarriesPart, Call
<1> QED
  BY <1>2, <1>3 DEF TypeInv, TypeOK, Continue, CallsType, WritesParts

\* Nothing is left of a request that ends.
LEMMA ReturnType ==
  ASSUME TypeInv, NEW c, Return(c)
  PROVE  CallsType'
BY DEF TypeInv, TypeOK, Return, CallsType, WritesParts

\* Moving a run along keeps the runs well typed.
LEMMA RunUpdate ==
  ASSUME TypeInv, NEW i \in Item, NEW r \in RunState, run' = [run EXCEPT ![i] = r]
  PROVE  run' \in [Item -> RunState]
BY DEF TypeInv, TypeOK

\* A run that goes on to another step.
LEMMA GoType ==
  ASSUME TypeInv, NEW i \in Item, NEW pc \in Pc, Go(i, pc)
  PROVE  run' \in [Item -> RunState]
<1>1. run[i] \in RunState
  BY DEF TypeInv, TypeOK
<1>2. [run[i] EXCEPT !.pc = pc] \in RunState
  BY <1>1 DEF RunState
<1>3. run' = [run EXCEPT ![i] = [run[i] EXCEPT !.pc = pc]]
  BY DEF Go
<1> QED
  BY <1>2, <1>3, RunUpdate

\* So does a run that leaves its steps.
LEMMA LeaveType ==
  ASSUME TypeInv, NEW i \in Item, NEW pc \in Pc, NEW exit \in Ended,
         run' = [run EXCEPT ![i].pc = pc, ![i].exit = exit]
  PROVE  run' \in [Item -> RunState]
<1>1. run[i] \in RunState
  BY DEF TypeInv, TypeOK
<1>2. [run[i] EXCEPT !.pc = pc, !.exit = exit] \in RunState
  BY <1>1 DEF RunState
<1>3. run' = [run EXCEPT ![i] = [run[i] EXCEPT !.pc = pc, !.exit = exit]]
  BY <1>1 DEF RunState, TypeInv, TypeOK
<1> QED
  BY <1>2, <1>3, RunUpdate

\* The names that occur are names of their kind.
LEMMA Names ==
  /\ Idle \in RunState /\ NoSweep \in SweepState
  /\ Pc = {"load", "link", "fit", "size", "bytes", "received", "hash", "check", "publish",
           "rename", "ready", "report", "idle", "clean", "look", "settle", "end"}
  /\ ItemState = {"RECEIVING", "VERIFYING", "READY", "FAILED", "NONE", "GONE"}
  /\ JobState = {"QUEUED", "RUNNING", "SUCCEEDED", "FAILED", "CANCELLED", "NONE"}
  /\ PushState = {"QUEUED", "CHECKING", "SENDING", "SUCCEEDED", "FAILED", "CANCELLED", "NONE"}
<1>1. Pc = {"load", "link", "fit", "size", "bytes", "received", "hash", "check", "publish",
           "rename", "ready", "report", "idle", "clean", "look", "settle", "end"}
  BY DEF Pc, Steps
<1>2. ItemState = {"RECEIVING", "VERIFYING", "READY", "FAILED", "NONE", "GONE"}
  BY DEF ItemState, STATES
<1>3. Idle \in RunState
  BY <1>1 DEF Idle, RunState, Ended
<1>4. NoSweep \in SweepState
  BY <1>2 DEF NoSweep, SweepState, SweepPc
<1>5. JobState = {"QUEUED", "RUNNING", "SUCCEEDED", "FAILED", "CANCELLED", "NONE"}
  BY DEF JobState, Active, Ended
<1>6. PushState = {"QUEUED", "CHECKING", "SENDING", "SUCCEEDED", "FAILED", "CANCELLED", "NONE"}
  BY DEF PushState, Pushing, Ended
<1> QED
  BY <1>1, <1>2, <1>3, <1>4, <1>5, <1>6

\* What is done to a file leaves a file.
LEMMA Files ==
  /\ NoFile \in File /\ {} \in File /\ Part \in File
  /\ \A f \in File, n \in Part : f # NoFile => f \union {n} \in File
<1>1. NoFile \in File
  BY DEF File
<1>2. SUBSET Part \subseteq File
  BY DEF File
<1>3. \A f \in File : f # NoFile => f \subseteq Part
  BY DEF File
<1>4. {} \subseteq Part /\ Part \subseteq Part
  OBVIOUS
<1>5. ASSUME NEW f \in File, NEW n \in Part, f # NoFile
      PROVE  f \union {n} \in File
  <2>1. f \union {n} \subseteq Part
    BY <1>3, <1>5
  <2> QED
    BY <2>1, <1>2
<1> QED
  BY <1>1, <1>2, <1>4, <1>5

\* Every step of the sweep keeps its record well typed.
LEMMA SweepMoves ==
  ASSUME sweep \in SweepState, NEW pc \in SweepPc
  PROVE  /\ \A todo \in SUBSET Item : To(pc, todo) => sweep' \in SweepState
         /\ \A i \in Item : At(pc, i) \/ Pass(i) => sweep' \in SweepState
         /\ Back(pc) => sweep' \in SweepState
<1>1. \A todo \in SUBSET Item : To(pc, todo) => sweep' \in SweepState
  BY DEF SweepState, To
<1>2. \A i \in Item : At(pc, i) => sweep' \in SweepState
  <2>1. SUFFICES ASSUME NEW i \in Item, At(pc, i)
                 PROVE  sweep' \in SweepState
    OBVIOUS
  <2>2. sweep' = [pc |-> pc, todo |-> sweep.todo \ {i}, at |-> {i}, known |-> sweep.known]
    BY <2>1 DEF SweepState, At
  <2>3. /\ sweep.todo \ {i} \in SUBSET Item /\ {i} \in SUBSET Item
        /\ sweep.known \in [Item -> ItemState]
    BY DEF SweepState
  <2> QED
    BY <2>2, <2>3 DEF SweepState
<1>3. \A i \in Item : Pass(i) => sweep' \in SweepState
  BY DEF SweepState, Pass
<1>4. Back(pc) => sweep' \in SweepState
  BY DEF SweepState, Back
<1> QED
  BY <1>1, <1>2, <1>3, <1>4

\* The library starts empty and idle, which is well typed.
THEOREM TypeInit == Init => TypeInv
BY LibraryAssumption, Names, Files
   DEF Init, TypeInv, TypeOK, PartToCome, WritesParts, JobState, PushState, Request

\* Every step keeps the types, and leaves an upload in progress with a part to come.
LEMMA TypeStep ==
  ASSUME TypeInv, [Next]_vars
  PROVE  TypeInv'
<1>0. CASE UNCHANGED vars
  BY <1>0 DEF vars, row, files, work, TypeInv, TypeOK, PartToCome, WritesParts
<1>StartUpload. ASSUME NEW i \in Item, StartUpload(i) PROVE TypeInv'
  <2>1. CallsType'
    <3>1. Parts \in 0 .. Parts
      BY LibraryAssumption
    <3>2. /\ [Request("create", i) EXCEPT !.part = Parts] \in Call
          /\ CarriesPart([Request("create", i) EXCEPT !.part = Parts])
      BY <3>1, RequestIsCall DEF Ops
    <3> QED
      BY <1>StartUpload, <3>2, AdmitType DEF StartUpload
  <2> QED
    BY <1>StartUpload, <2>1, Names, Files, LibraryAssumption
    DEF StartUpload, TypeInv, TypeOK, PartToCome, WritesParts, CallsType, row, files, work
<1>AddFetched. ASSUME NEW i \in Item, AddFetched(i) PROVE TypeInv'
  <2>1. CallsType'
    <3>1. PICK size \in {0, Parts} : Admit([Request("create", i) EXCEPT !.part = size])
      BY <1>AddFetched DEF AddFetched
    <3>2. size \in 0 .. Parts
      BY <3>1, LibraryAssumption
    <3>3. /\ [Request("create", i) EXCEPT !.part = size] \in Call
          /\ CarriesPart([Request("create", i) EXCEPT !.part = size])
      BY <3>2, RequestIsCall DEF Ops
    <3> QED
      BY <3>1, <3>3, AdmitType
  <2> QED
    BY <1>AddFetched, <2>1, Names, Files, LibraryAssumption
    DEF AddFetched, TypeInv, TypeOK, PartToCome, WritesParts, CallsType, row, files, work
<1>ReadChunk. ASSUME NEW i \in Item, ReadChunk(i) PROVE TypeInv'
  <2>1. CallsType'
    <3>1. received[i] + 1 \in 0 .. Parts
      BY <1>ReadChunk, LibraryAssumption DEF ReadChunk, TypeInv, TypeOK, PartToCome
    <3>2. Request("write", i) \in Call
      BY RequestIsCall DEF Ops
    <3>3. [Request("write", i) EXCEPT !.part = received[i] + 1] \in Call
      BY <3>1, RequestIsCall DEF Ops
    <3>4. CarriesPart([Request("write", i) EXCEPT !.part = received[i] + 1])
      BY <3>1, <3>2 DEF CarriesPart, Request, Part, TypeInv, TypeOK
    <3> QED
      BY <1>ReadChunk, <3>3, <3>4, AdmitType DEF ReadChunk
  <2> QED
    BY <1>ReadChunk, <2>1, Names, Files, LibraryAssumption
    DEF ReadChunk, TypeInv, TypeOK, PartToCome, WritesParts, CallsType, row, files, work
<1>Abandon. ASSUME NEW i \in Item, Abandon(i) PROVE TypeInv'
  <2>1. CallsType'
    BY <1>Abandon, AdmitType, RequestIsCall DEF Abandon, Ops
  <2> QED
    BY <1>Abandon, <2>1, Names, Files, LibraryAssumption
    DEF Abandon, TypeInv, TypeOK, PartToCome, WritesParts, CallsType, row, files, work
<1>Remove. ASSUME NEW i \in Item, Remove(i) PROVE TypeInv'
  <2>1. CallsType'
    BY <1>Remove, AdmitType, RequestIsCall DEF Remove, Ops
  <2> QED
    BY <1>Remove, <2>1, Names, Files, LibraryAssumption
    DEF Remove, TypeInv, TypeOK, PartToCome, WritesParts, CallsType, row, files, work
<1>Push. ASSUME NEW i \in Item, Push(i) PROVE TypeInv'
  <2>1. CallsType'
    BY <1>Push, AdmitType, RequestIsCall DEF Push, Ops
  <2> QED
    BY <1>Push, <2>1, Names, Files, LibraryAssumption
    DEF Push, TypeInv, TypeOK, PartToCome, WritesParts, CallsType, row, files, work
<1>CancelQueued. ASSUME NEW i \in Item, CancelQueued(i) PROVE TypeInv'
  <2> QED
    BY <1>CancelQueued, Names, Files, LibraryAssumption
    DEF CancelQueued, TypeInv, TypeOK, PartToCome, WritesParts, CallsType, row, files, work
<1>Claim. ASSUME NEW i \in Item, Claim(i) PROVE TypeInv'
  <2>1. run' \in [Item -> RunState]
    BY <1>Claim, GoType, Names DEF Claim
  <2> QED
    BY <1>Claim, <2>1, Names, Files, LibraryAssumption
    DEF Claim, TypeInv, TypeOK, PartToCome, WritesParts, CallsType, row, files, work
<1>Load. ASSUME NEW i \in Item, Load(i) PROVE TypeInv'
  <2>1. run' \in [Item -> RunState]
    <3>1. CASE job[i] # "RUNNING"
      BY <1>Load, <3>1, RunUpdate, Names DEF Load
    <3>2. CASE job[i] = "RUNNING"
      BY <1>Load, <3>2, GoType, LeaveType, Names DEF Load, Leave, Ended
    <3> QED
      BY <3>1, <3>2
  <2> QED
    BY <1>Load, <2>1, Names, Files, LibraryAssumption
    DEF Load, TypeInv, TypeOK, PartToCome, WritesParts, CallsType, row, files, work
<1>LinkRun. ASSUME NEW i \in Item, LinkRun(i) PROVE TypeInv'
  <2>1. run' \in [Item -> RunState]
    BY <1>LinkRun, GoType, LeaveType, Names DEF LinkRun, Leave, Ended
  <2> QED
    BY <1>LinkRun, <2>1, Names, Files, LibraryAssumption
    DEF LinkRun, TypeInv, TypeOK, PartToCome, WritesParts, CallsType, row, files, work
<1>Fit. ASSUME NEW i \in Item, Fit(i) PROVE TypeInv'
  <2>1. run' \in [Item -> RunState]
    BY <1>Fit, GoType, LeaveType, Names DEF Fit, Leave, Ended
  <2> QED
    BY <1>Fit, <2>1, Names, Files, LibraryAssumption
    DEF Fit, TypeInv, TypeOK, PartToCome, WritesParts, CallsType, row, files, work
<1>Size. ASSUME NEW i \in Item, Size(i) PROVE TypeInv'
  <2>1. run' \in [Item -> RunState]
    BY <1>Size, GoType, LeaveType, Names DEF Size, Leave, Ended
  <2> QED
    BY <1>Size, <2>1, Names, Files, LibraryAssumption
    DEF Size, TypeInv, TypeOK, PartToCome, WritesParts, CallsType, row, files, work
<1>Download. ASSUME NEW i \in Item, Download(i) PROVE TypeInv'
  <2>1. run' \in [Item -> RunState]
    BY <1>Download, GoType, LeaveType, Names DEF Download, Leave, Ended
  <2> QED
    BY <1>Download, <2>1, Names, Files, LibraryAssumption, ZenonT(60)
    DEF Download, TypeInv, TypeOK, PartToCome, WritesParts, CallsType, row, files, work
<1>Received. ASSUME NEW i \in Item, Received(i) PROVE TypeInv'
  <2>1. run' \in [Item -> RunState]
    BY <1>Received, GoType, LeaveType, Names DEF Received, Leave, Ended
  <2>2. state' \in [Item -> ItemState]
    BY <1>Received, Names DEF Received, TypeInv, TypeOK
  <2>3. received' \in [Item -> 0 .. Parts]
    BY <1>Received, LibraryAssumption DEF Received, TypeInv, TypeOK
  <2>4. sized' \in [Item -> BOOLEAN] /\ linked' \in [Item -> BOOLEAN]
    BY <1>Received DEF Received, TypeInv, TypeOK
  <2>5. PartToCome'
    <3>1. SUFFICES ASSUME NEW k \in Item, state'[k] \in {"NONE", "RECEIVING"}
                   PROVE  received'[k] < Parts
      BY DEF PartToCome
    <3>2. state'[k] = state[k] /\ received'[k] = received[k]
      BY <1>Received, <3>1 DEF Received, TypeInv, TypeOK
    <3> QED
      BY <3>1, <3>2 DEF TypeInv, PartToCome
  <2> QED
    BY <1>Received, <2>1, <2>2, <2>3, <2>4, <2>5 DEF Received, TypeInv, TypeOK, WritesParts, files
<1>HashUpload. ASSUME NEW i \in Item, HashUpload(i) PROVE TypeInv'
  <2>1. run' \in [Item -> RunState]
    BY <1>HashUpload, GoType, LeaveType, Names DEF HashUpload, Leave, Ended
  <2> QED
    BY <1>HashUpload, <2>1, Names, Files, LibraryAssumption
    DEF HashUpload, TypeInv, TypeOK, PartToCome, WritesParts, CallsType, row, files, work
<1>Check. ASSUME NEW i \in Item, Check(i) PROVE TypeInv'
  <2>1. run' \in [Item -> RunState]
    <3>1. CASE job[i] # "RUNNING"
      BY <1>Check, <3>1, RunUpdate, Names DEF Check
    <3>2. CASE job[i] = "RUNNING"
      BY <1>Check, <3>2, GoType, LeaveType, Names DEF Check, Leave, Ended
    <3> QED
      BY <3>1, <3>2
  <2> QED
    BY <1>Check, <2>1, Names, Files, LibraryAssumption
    DEF Check, TypeInv, TypeOK, PartToCome, WritesParts, CallsType, row, files, work
<1>Publish. ASSUME NEW i \in Item, Publish(i) PROVE TypeInv'
  <2>1. run' \in [Item -> RunState]
    BY <1>Publish, GoType, LeaveType, Names DEF Publish, Leave, Ended
  <2> QED
    BY <1>Publish, <2>1, Names, Files, LibraryAssumption
    DEF Publish, TypeInv, TypeOK, PartToCome, WritesParts, CallsType, row, files, work
<1>Rename. ASSUME NEW i \in Item, Rename(i) PROVE TypeInv'
  <2>1. run' \in [Item -> RunState]
    BY <1>Rename, GoType, LeaveType, Names DEF Rename, Leave, Ended
  <2> QED
    BY <1>Rename, <2>1, Names, Files, LibraryAssumption
    DEF Rename, TypeInv, TypeOK, PartToCome, WritesParts, CallsType, row, files, work
<1>Ready. ASSUME NEW i \in Item, Ready(i) PROVE TypeInv'
  <2>1. run' \in [Item -> RunState]
    BY <1>Ready, GoType, LeaveType, Names DEF Ready, Leave, Ended
  <2>2. state' \in [Item -> ItemState]
    BY <1>Ready, Names DEF Ready, TypeInv, TypeOK
  <2>3. received' \in [Item -> 0 .. Parts]
    BY <1>Ready, LibraryAssumption DEF Ready, TypeInv, TypeOK
  <2>4. sized' \in [Item -> BOOLEAN] /\ linked' \in [Item -> BOOLEAN]
    BY <1>Ready DEF Ready, TypeInv, TypeOK
  <2>5. PartToCome'
    <3>1. SUFFICES ASSUME NEW k \in Item, state'[k] \in {"NONE", "RECEIVING"}
                   PROVE  received'[k] < Parts
      BY DEF PartToCome
    <3>2. state'[k] = state[k] /\ received'[k] = received[k]
      BY <1>Ready, <3>1 DEF Ready, TypeInv, TypeOK
    <3> QED
      BY <3>1, <3>2 DEF TypeInv, PartToCome
  <2> QED
    BY <1>Ready, <2>1, <2>2, <2>3, <2>4, <2>5 DEF Ready, TypeInv, TypeOK, WritesParts, files
<1>Report. ASSUME NEW i \in Item, Report(i) PROVE TypeInv'
  <2>1. run' \in [Item -> RunState]
    BY <1>Report, LeaveType, Names DEF Report, Leave, Ended
  <2> QED
    BY <1>Report, <2>1, Names, Files, LibraryAssumption
    DEF Report, TypeInv, TypeOK, PartToCome, WritesParts, CallsType, row, files, work
<1>Throw. ASSUME NEW i \in Item, Throw(i) PROVE TypeInv'
  <2>1. run' \in [Item -> RunState]
    BY <1>Throw, LeaveType, Names DEF Throw, Leave, Ended
  <2> QED
    BY <1>Throw, <2>1, Names, Files, LibraryAssumption
    DEF Throw, TypeInv, TypeOK, PartToCome, WritesParts, CallsType, row, files, work
<1>Lost. ASSUME NEW i \in Item, Lost(i) PROVE TypeInv'
  <2>1. run' \in [Item -> RunState]
    BY <1>Lost, RunUpdate, Names DEF Lost
  <2> QED
    BY <1>Lost, <2>1, Names, Files, LibraryAssumption
    DEF Lost, TypeInv, TypeOK, PartToCome, WritesParts, CallsType, row, files, work
<1>CleanFile. ASSUME NEW i \in Item, CleanFile(i) PROVE TypeInv'
  <2>1. run' \in [Item -> RunState]
    BY <1>CleanFile, GoType, Names DEF CleanFile
  <2> QED
    BY <1>CleanFile, <2>1, Names, Files, LibraryAssumption
    DEF CleanFile, TypeInv, TypeOK, PartToCome, WritesParts, CallsType, row, files, work
<1>CleanLook. ASSUME NEW i \in Item, CleanLook(i) PROVE TypeInv'
  <2>1. run' \in [Item -> RunState]
    BY <1>CleanLook, GoType, Names DEF CleanLook
  <2> QED
    BY <1>CleanLook, <2>1, Names, Files, LibraryAssumption
    DEF CleanLook, TypeInv, TypeOK, PartToCome, WritesParts, CallsType, row, files, work
<1>CleanRow. ASSUME NEW i \in Item, CleanRow(i) PROVE TypeInv'
  <2>1. run' \in [Item -> RunState]
    BY <1>CleanRow, GoType, Names DEF CleanRow
  <2> QED
    BY <1>CleanRow, <2>1, Names, Files, LibraryAssumption
    DEF CleanRow, TypeInv, TypeOK, PartToCome, WritesParts, CallsType, row, files, work
<1>End. ASSUME NEW i \in Item, End(i) PROVE TypeInv'
  <2>1. run' \in [Item -> RunState]
    BY <1>End, RunUpdate, Names DEF End
  <2>2. run[i].exit \in JobState
    BY DEF TypeInv, TypeOK, RunState, JobState
  <2>3. job' \in [Item -> JobState]
    BY <1>End, <2>2 DEF End, TypeInv, TypeOK
  <2> QED
    BY <1>End, <2>1, <2>3 DEF End, TypeInv, TypeOK, PartToCome, WritesParts, CallsType, row, files
<1>PushStep. ASSUME NEW i \in Item, PushStep(i) PROVE TypeInv'
  <2> QED
    BY <1>PushStep, Names, Files, LibraryAssumption
    DEF PushStep, TypeInv, TypeOK, PartToCome, WritesParts, CallsType, row, files, work
<1>Reconcile. ASSUME NEW i \in Item, Reconcile(i) PROVE TypeInv'
  <2> QED
    BY <1>Reconcile, Names, Files, LibraryAssumption
    DEF Reconcile, TypeInv, TypeOK, PartToCome, WritesParts, CallsType, row, files, work
<1>CleanFails. ASSUME NEW i \in Item, CleanFails(i) PROVE TypeInv'
  <2>1. run' \in [Item -> RunState]
    BY <1>CleanFails, GoType, Names DEF CleanFails
  <2> QED
    BY <1>CleanFails, <2>1, Names, Files, LibraryAssumption
    DEF CleanFails, TypeInv, TypeOK, PartToCome, WritesParts, CallsType, row, files, work
<1>Silence. ASSUME NEW i \in Item, Silence(i) PROVE TypeInv'
  <2> QED
    BY <1>Silence, Names, Files, LibraryAssumption
    DEF Silence, TypeInv, TypeOK, PartToCome, WritesParts, CallsType, row, files, work
<1>Age. ASSUME NEW i \in Item, Age(i) PROVE TypeInv'
  <2> QED
    BY <1>Age, Names, Files, LibraryAssumption
    DEF Age, TypeInv, TypeOK, PartToCome, WritesParts, CallsType, row, files, work
<1>SweepTransfer. ASSUME NEW i \in Item, SweepTransfer(i) PROVE TypeInv'
  <2>1. sweep' \in SweepState
    BY <1>SweepTransfer, SweepMoves, Names DEF SweepTransfer, SweepPc, TypeInv, TypeOK
  <2> QED
    BY <1>SweepTransfer, <2>1, Names, Files, LibraryAssumption
    DEF SweepTransfer, TypeInv, TypeOK, PartToCome, WritesParts, CallsType, row, files, work
<1>SweepLostFile. ASSUME NEW i \in Item, SweepLostFile(i) PROVE TypeInv'
  <2>1. sweep' \in SweepState
    BY <1>SweepLostFile DEF SweepLostFile, SweepPc, SweepState, TypeInv, TypeOK
  <2> QED
    BY <1>SweepLostFile, <2>1, Names, Files, LibraryAssumption
    DEF SweepLostFile, TypeInv, TypeOK, PartToCome, WritesParts, CallsType, row, files, work
<1>SweepLostRow. ASSUME NEW i \in Item, SweepLostRow(i) PROVE TypeInv'
  <2>1. sweep' \in SweepState
    BY <1>SweepLostRow, SweepMoves, Names DEF SweepLostRow, SweepPc, TypeInv, TypeOK
  <2> QED
    BY <1>SweepLostRow, <2>1, Names, Files, LibraryAssumption
    DEF SweepLostRow, TypeInv, TypeOK, PartToCome, WritesParts, CallsType, row, files, work
<1>SweepOldFile. ASSUME NEW i \in Item, SweepOldFile(i) PROVE TypeInv'
  <2>1. sweep' \in SweepState
    BY <1>SweepOldFile, SweepMoves, Names DEF SweepOldFile, SweepPc, TypeInv, TypeOK
  <2> QED
    BY <1>SweepOldFile, <2>1, Names, Files, LibraryAssumption
    DEF SweepOldFile, TypeInv, TypeOK, PartToCome, WritesParts, CallsType, row, files, work
<1>SweepOldRow. ASSUME NEW i \in Item, SweepOldRow(i) PROVE TypeInv'
  <2>1. sweep' \in SweepState
    BY <1>SweepOldRow, SweepMoves, Names DEF SweepOldRow, SweepPc, TypeInv, TypeOK
  <2> QED
    BY <1>SweepOldRow, <2>1, Names, Files, LibraryAssumption
    DEF SweepOldRow, TypeInv, TypeOK, PartToCome, WritesParts, CallsType, row, files, work
<1>SweepPartial. ASSUME NEW i \in Item, SweepPartial(i) PROVE TypeInv'
  <2>1. sweep' \in SweepState
    BY <1>SweepPartial, SweepMoves, Names DEF SweepPartial, SweepPc, TypeInv, TypeOK
  <2> QED
    BY <1>SweepPartial, <2>1, Names, Files, LibraryAssumption
    DEF SweepPartial, TypeInv, TypeOK, PartToCome, WritesParts, CallsType, row, files, work
<1>SweepItem. ASSUME NEW i \in Item, SweepItem(i) PROVE TypeInv'
  <2>1. sweep' \in SweepState
    BY <1>SweepItem, SweepMoves, Names DEF SweepItem, SweepPc, TypeInv, TypeOK
  <2> QED
    BY <1>SweepItem, <2>1, Names, Files, LibraryAssumption
    DEF SweepItem, TypeInv, TypeOK, PartToCome, WritesParts, CallsType, row, files, work
<1>SweepStat. ASSUME NEW i \in Item, SweepStat(i) PROVE TypeInv'
  <2>1. sweep' \in SweepState
    BY <1>SweepStat, SweepMoves, Names DEF SweepStat, SweepPc, TypeInv, TypeOK
  <2> QED
    BY <1>SweepStat, <2>1, Names, Files, LibraryAssumption
    DEF SweepStat, TypeInv, TypeOK, PartToCome, WritesParts, CallsType, row, files, work
<1>SweepMissing. ASSUME NEW i \in Item, SweepMissing(i) PROVE TypeInv'
  <2>1. sweep' \in SweepState
    BY <1>SweepMissing, SweepMoves, Names DEF SweepMissing, SweepPc, TypeInv, TypeOK
  <2> QED
    BY <1>SweepMissing, <2>1, Names, Files, LibraryAssumption
    DEF SweepMissing, TypeInv, TypeOK, PartToCome, WritesParts, CallsType, row, files, work
<1>CreateRow. ASSUME NEW c \in calls, CreateRow(c) PROVE TypeInv'
  <2>1. c \in Call
    BY DEF TypeInv, TypeOK
  <2>2. CallsType'
    <3>1. c.item \in Item
      BY <2>1 DEF Call
    <3>2. Request("touch", c.item) \in Call /\ Request("job", c.item) \in Call
      BY <3>1, RequestIsCall DEF Ops
    <3>3. CarriesPart(Request("touch", c.item)) /\ CarriesPart(Request("job", c.item))
      BY DEF CarriesPart, Request
    <3> QED
      BY <1>CreateRow, <3>2, <3>3 DEF CreateRow, CallsType, WritesParts, TypeInv, TypeOK
  <2> QED
    BY <1>CreateRow, <2>1, <2>2, Names, Files, LibraryAssumption
    DEF CreateRow, TypeInv, TypeOK, PartToCome, WritesParts, CallsType, row, files, work
<1>Touch. ASSUME NEW c \in calls, Touch(c) PROVE TypeInv'
  <2>1. c \in Call
    BY DEF TypeInv, TypeOK
  <2>2. CallsType'
    BY <1>Touch, <2>1, ReturnType DEF Touch
  <2> QED
    BY <1>Touch, <2>1, <2>2, Names, Files, LibraryAssumption
    DEF Touch, TypeInv, TypeOK, PartToCome, WritesParts, CallsType, row, files, work
<1>MakeJob. ASSUME NEW c \in calls, MakeJob(c) PROVE TypeInv'
  <2>1. c \in Call
    BY DEF TypeInv, TypeOK
  <2>2. CallsType'
    BY <1>MakeJob, <2>1, ContinueType DEF MakeJob, Ops
  <2> QED
    BY <1>MakeJob, <2>1, <2>2, Names, Files, LibraryAssumption
    DEF MakeJob, TypeInv, TypeOK, PartToCome, WritesParts, CallsType, row, files, work
<1>NoRow. ASSUME NEW c \in calls, NoRow(c) PROVE TypeInv'
  <2>1. c \in Call
    BY DEF TypeInv, TypeOK
  <2>2. CallsType'
    BY <1>NoRow, <2>1, ReturnType DEF NoRow
  <2> QED
    BY <1>NoRow, <2>1, <2>2, Names, Files, LibraryAssumption
    DEF NoRow, TypeInv, TypeOK, PartToCome, WritesParts, CallsType, row, files, work
<1>Undo. ASSUME NEW c \in calls, Undo(c) PROVE TypeInv'
  <2>1. c \in Call
    BY DEF TypeInv, TypeOK
  <2>2. CallsType'
    BY <1>Undo, <2>1, ReturnType DEF Undo
  <2> QED
    BY <1>Undo, <2>1, <2>2, Names, Files, LibraryAssumption
    DEF Undo, TypeInv, TypeOK, PartToCome, WritesParts, CallsType, row, files, work
<1>Link. ASSUME NEW c \in calls, Link(c) PROVE TypeInv'
  <2>1. c \in Call
    BY DEF TypeInv, TypeOK
  <2>2. CallsType'
    BY <1>Link, <2>1, ReturnType DEF Link
  <2> QED
    BY <1>Link, <2>1, <2>2, Names, Files, LibraryAssumption
    DEF Link, TypeInv, TypeOK, PartToCome, WritesParts, CallsType, row, files, work
<1>WriteChunk. ASSUME NEW c \in calls, WriteChunk(c) PROVE TypeInv'
  <2>1. c \in Call
    BY DEF TypeInv, TypeOK
  <2>2. CallsType'
    BY <1>WriteChunk, <2>1, ContinueType DEF WriteChunk, Ops
  <2>3. c.item \in Item /\ c.part \in Part
    BY <1>WriteChunk, <2>1 DEF WriteChunk, Call, TypeInv, WritesParts, CarriesPart
  <2>4. partial' \in [Item -> File]
    BY <1>WriteChunk, <2>3, Files DEF WriteChunk, TypeInv, TypeOK
  <2> QED
    BY <1>WriteChunk, <2>2, <2>3, <2>4
    DEF WriteChunk, TypeInv, TypeOK, PartToCome, CallsType, row, work
<1>ChunkFails. ASSUME NEW c \in calls, ChunkFails(c) PROVE TypeInv'
  <2>1. c \in Call
    BY DEF TypeInv, TypeOK
  <2>2. CallsType'
    BY <1>ChunkFails, <2>1, ReturnType DEF ChunkFails
  <2> QED
    BY <1>ChunkFails, <2>1, <2>2, Names, Files, LibraryAssumption
    DEF ChunkFails, TypeInv, TypeOK, PartToCome, WritesParts, CallsType, row, files, work
<1>CountChunk. ASSUME NEW c \in calls, CountChunk(c) PROVE TypeInv'
  <2>1. c \in Call
    BY DEF TypeInv, TypeOK
  <2>2. CallsType'
    BY <1>CountChunk, <2>1, ContinueType, ReturnType DEF CountChunk, Ops
  <2>3. c.item \in Item /\ c.part \in 0 .. Parts
    BY <2>1 DEF Call
  <2>4. state' \in [Item -> ItemState] /\ received' \in [Item -> 0 .. Parts]
        /\ silent' \in [Item -> BOOLEAN]
    BY <1>CountChunk, <2>3, Names DEF CountChunk, TypeInv, TypeOK
  <2>5. PartToCome'
    <3>1. SUFFICES ASSUME NEW k \in Item, state'[k] \in {"NONE", "RECEIVING"}
                   PROVE  received'[k] < Parts
      BY DEF PartToCome
    <3>2. \/ state'[k] = state[k] /\ received'[k] = received[k]
          \/ state'[k] = state[k] /\ received'[k] = c.part /\ c.part # Parts
      BY <1>CountChunk, <2>3, <3>1 DEF CountChunk, IsLast, TypeInv, TypeOK
    <3> QED
      BY <2>3, <3>1, <3>2, LibraryAssumption DEF TypeInv, PartToCome
  <2> QED
    BY <1>CountChunk, <2>2, <2>4, <2>5 DEF CountChunk, TypeInv, TypeOK, CallsType, files, work
<1>AbandonFile. ASSUME NEW c \in calls, AbandonFile(c) PROVE TypeInv'
  <2>1. c \in Call
    BY DEF TypeInv, TypeOK
  <2>2. CallsType'
    BY <1>AbandonFile, <2>1, ContinueType DEF AbandonFile, Ops
  <2> QED
    BY <1>AbandonFile, <2>1, <2>2, Names, Files, LibraryAssumption
    DEF AbandonFile, TypeInv, TypeOK, PartToCome, WritesParts, CallsType, row, files, work
<1>AbandonRow. ASSUME NEW c \in calls, AbandonRow(c) PROVE TypeInv'
  <2>1. c \in Call
    BY DEF TypeInv, TypeOK
  <2>2. CallsType'
    BY <1>AbandonRow, <2>1, ReturnType DEF AbandonRow
  <2> QED
    BY <1>AbandonRow, <2>1, <2>2, Names, Files, LibraryAssumption
    DEF AbandonRow, TypeInv, TypeOK, PartToCome, WritesParts, CallsType, row, files, work
<1>RemoveItemFile. ASSUME NEW c \in calls, RemoveItemFile(c) PROVE TypeInv'
  <2>1. c \in Call
    BY DEF TypeInv, TypeOK
  <2>2. CallsType'
    BY <1>RemoveItemFile, <2>1, ContinueType DEF RemoveItemFile, Ops
  <2> QED
    BY <1>RemoveItemFile, <2>1, <2>2, Names, Files, LibraryAssumption
    DEF RemoveItemFile, TypeInv, TypeOK, PartToCome, WritesParts, CallsType, row, files, work
<1>RemovePartial. ASSUME NEW c \in calls, RemovePartial(c) PROVE TypeInv'
  <2>1. c \in Call
    BY DEF TypeInv, TypeOK
  <2>2. CallsType'
    BY <1>RemovePartial, <2>1, ContinueType DEF RemovePartial, Ops
  <2> QED
    BY <1>RemovePartial, <2>1, <2>2, Names, Files, LibraryAssumption
    DEF RemovePartial, TypeInv, TypeOK, PartToCome, WritesParts, CallsType, row, files, work
<1>RemoveRow. ASSUME NEW c \in calls, RemoveRow(c) PROVE TypeInv'
  <2>1. c \in Call
    BY DEF TypeInv, TypeOK
  <2>2. CallsType'
    BY <1>RemoveRow, <2>1, ReturnType DEF RemoveRow
  <2> QED
    BY <1>RemoveRow, <2>1, <2>2, Names, Files, LibraryAssumption
    DEF RemoveRow, TypeInv, TypeOK, PartToCome, WritesParts, CallsType, row, files, work
<1>MakePush. ASSUME NEW c \in calls, MakePush(c) PROVE TypeInv'
  <2>1. c \in Call
    BY DEF TypeInv, TypeOK
  <2>2. CallsType'
    BY <1>MakePush, <2>1, ReturnType DEF MakePush
  <2> QED
    BY <1>MakePush, <2>1, <2>2, Names, Files, LibraryAssumption
    DEF MakePush, TypeInv, TypeOK, PartToCome, WritesParts, CallsType, row, files, work
<1>NoJob. ASSUME NEW c \in calls, NoJob(c) PROVE TypeInv'
  <2>1. c \in Call
    BY DEF TypeInv, TypeOK
  <2>2. CallsType'
    BY <1>NoJob, <2>1, ContinueType DEF NoJob, Ops
  <2>3. job' \in [Item -> JobState]
    <3>1. c.item \in Item
      BY <2>1 DEF Call
    <3>2. PICK st \in {job[c.item], "FAILED"} : job' = [job EXCEPT ![c.item] = st]
      BY <1>NoJob DEF NoJob
    <3>3. st \in JobState
      BY <3>1, <3>2, Names DEF TypeInv, TypeOK
    <3> QED
      BY <3>1, <3>2, <3>3 DEF TypeInv, TypeOK
  <2> QED
    BY <1>NoJob, <2>2, <2>3 DEF NoJob, TypeInv, TypeOK, PartToCome, WritesParts, CallsType,
        row, files
<1>CallLost. ASSUME NEW c \in calls, CallLost(c) PROVE TypeInv'
  <2>1. c \in Call
    BY DEF TypeInv, TypeOK
  <2>2. CallsType'
    BY <1>CallLost, <2>1, ReturnType DEF CallLost
  <2> QED
    BY <1>CallLost, <2>1, <2>2, Names, Files, LibraryAssumption
    DEF CallLost, TypeInv, TypeOK, PartToCome, WritesParts, CallsType, row, files, work
<1>SweepBegins. ASSUME SweepBegins PROVE TypeInv'
  <2>1. sweep' \in SweepState
    BY <1>SweepBegins, SweepMoves, Names DEF SweepBegins, SweepPc, TypeInv, TypeOK
  <2> QED
    BY <1>SweepBegins, <2>1, Names, Files, LibraryAssumption
    DEF SweepBegins, TypeInv, TypeOK, PartToCome, WritesParts, CallsType, row, files, work
<1>SweepUploads. ASSUME SweepUploads PROVE TypeInv'
  <2>1. {i \in Uploads : state[i] = "RECEIVING" /\ ~ linked[i] /\ silent[i]} \in SUBSET Item
    BY LibraryAssumption
  <2>2. sweep' \in SweepState
    BY <1>SweepUploads, <2>1, SweepMoves DEF SweepUploads, SweepPc, TypeInv, TypeOK
  <2> QED
    BY <1>SweepUploads, <2>1, <2>2, Names, Files, LibraryAssumption
    DEF SweepUploads, TypeInv, TypeOK, PartToCome, WritesParts, CallsType, row, files, work
<1>SweepRows. ASSUME SweepRows PROVE TypeInv'
  <2>1. sweep' \in SweepState
    BY <1>SweepRows DEF SweepRows, SweepPc, SweepState, TypeInv, TypeOK
  <2> QED
    BY <1>SweepRows, <2>1, Names, Files, LibraryAssumption
    DEF SweepRows, TypeInv, TypeOK, PartToCome, WritesParts, CallsType, row, files, work
<1>SweepPartials. ASSUME SweepPartials PROVE TypeInv'
  <2>1. sweep' \in SweepState
    BY <1>SweepPartials, SweepMoves, Names DEF SweepPartials, SweepPc, TypeInv, TypeOK
  <2> QED
    BY <1>SweepPartials, <2>1, Names, Files, LibraryAssumption
    DEF SweepPartials, TypeInv, TypeOK, PartToCome, WritesParts, CallsType, row, files, work
<1>SweepItems. ASSUME SweepItems PROVE TypeInv'
  <2>1. sweep' \in SweepState
    BY <1>SweepItems, SweepMoves, Names DEF SweepItems, SweepPc, TypeInv, TypeOK
  <2> QED
    BY <1>SweepItems, <2>1, Names, Files, LibraryAssumption
    DEF SweepItems, TypeInv, TypeOK, PartToCome, WritesParts, CallsType, row, files, work
<1>SweepReady. ASSUME SweepReady PROVE TypeInv'
  <2>1. {i \in Item : state[i] = "READY"} \in SUBSET Item
    OBVIOUS
  <2>2. sweep' \in SweepState
    BY <1>SweepReady, <2>1, Names DEF SweepReady, SweepPc, SweepState
  <2> QED
    BY <1>SweepReady, <2>1, <2>2, Names, Files, LibraryAssumption
    DEF SweepReady, TypeInv, TypeOK, PartToCome, WritesParts, CallsType, row, files, work
<1>SweepEnds. ASSUME SweepEnds PROVE TypeInv'
  <2>1. sweep' \in SweepState
    BY <1>SweepEnds, SweepMoves, Names DEF SweepEnds, SweepPc, TypeInv, TypeOK
  <2> QED
    BY <1>SweepEnds, <2>1, Names, Files, LibraryAssumption
    DEF SweepEnds, TypeInv, TypeOK, PartToCome, WritesParts, CallsType, row, files, work
<1>Crash. ASSUME NEW dead \in SUBSET Item, Crash(dead) PROVE TypeInv'
  <2> QED
    BY <1>Crash, Names, Files, LibraryAssumption
    DEF Crash, TypeInv, TypeOK, PartToCome, WritesParts, CallsType, row, files, work
<1> QED
  BY <1>0, <1>StartUpload, <1>AddFetched, <1>ReadChunk, <1>Abandon, <1>Remove, <1>Push,
      <1>CancelQueued, <1>Claim, <1>Load, <1>LinkRun, <1>Fit, <1>Size, <1>Download,
      <1>Received, <1>HashUpload, <1>Check, <1>Publish, <1>Rename, <1>Ready, <1>Report,
      <1>Throw, <1>Lost, <1>CleanFile, <1>CleanLook, <1>CleanRow, <1>End, <1>PushStep,
      <1>Reconcile, <1>CleanFails, <1>Silence, <1>Age, <1>SweepTransfer, <1>SweepLostFile,
      <1>SweepLostRow, <1>SweepOldFile, <1>SweepOldRow, <1>SweepPartial, <1>SweepItem,
      <1>SweepStat, <1>SweepMissing, <1>CreateRow, <1>Touch, <1>MakeJob, <1>NoRow, <1>Undo,
      <1>Link, <1>WriteChunk, <1>ChunkFails, <1>CountChunk, <1>AbandonFile, <1>AbandonRow,
      <1>RemoveItemFile, <1>RemovePartial, <1>RemoveRow, <1>MakePush, <1>NoJob, <1>CallLost,
      <1>SweepBegins, <1>SweepUploads, <1>SweepRows, <1>SweepPartials, <1>SweepItems,
      <1>SweepReady, <1>SweepEnds, <1>Crash DEF Next, User, Api, Transfer, Sweep

\* Every variable of the library keeps its type: in particular no more bytes are counted
\* than an image has, and a request writes a part the image has.
THEOREM TypeCorrect == Spec => []TypeOK
<1>1. TypeInv => TypeOK
  BY DEF TypeInv
<1> QED
  BY TypeInit, TypeStep, <1>1, PTL DEF Spec

-----------------------------------------------------------------------------
(* What is published stays published *)

\* Between its Load and its Ready, and when it is about to fail the row, a transfer
\* has an item that is not published.
Unpublished == {"link", "fit", "size", "bytes", "received", "hash", "check", "publish",
                "rename", "ready", "settle"}
BeforeReady == \A i \in Item : run[i].pc \in Unpublished => state[i] # "READY"

\* The items whose files the sweep looks at were READY when it read the rows, and a
\* row that is not READY any more is gone: no transfer can publish it now.
Looking == sweep.pc \in {"ready", "missing"}
SweptAreReady ==
  Looking => \A i \in sweep.todo \union sweep.at : state[i] \in {"READY", "GONE"}

\* The one it is about to fail, and will not look at again, has no file.
MissingHasNone ==
  sweep.pc = "missing" =>
    \A i \in sweep.at : i \notin sweep.todo /\ (state[i] = "READY" => place[i] = NoFile)

PublishInv == BeforeReady /\ SweptAreReady /\ MissingHasNone

\* What PublishedStays says of one step.
StaysPublished ==
  \A i \in Item : state[i] = "READY" =>
    state'[i] \in {"READY", "GONE"} \/ (state'[i] = "FAILED" /\ place[i] = NoFile)

\* A run that moves leaves the others where they are.
LEMMA GoesTo ==
  ASSUME TypeInv, NEW i \in Item, NEW pc \in Pc, Go(i, pc)
  PROVE  run'[i].pc = pc /\ \A k \in Item \ {i} : run'[k] = run[k]
<1>1. run[i] \in RunState
  BY DEF TypeInv, TypeOK
<1>2. run' = [run EXCEPT ![i] = [run[i] EXCEPT !.pc = pc]]
  BY DEF Go
<1>3. [run[i] EXCEPT !.pc = pc].pc = pc
  BY <1>1 DEF RunState
<1> QED
  BY <1>2, <1>3 DEF TypeInv, TypeOK

\* So does one that leaves its steps for the cleanup.
LEMMA LeavesTo ==
  ASSUME TypeInv, NEW i \in Item, NEW exit, Leave(i, exit)
  PROVE  run'[i].pc = "clean" /\ \A k \in Item \ {i} : run'[k] = run[k]
<1>1. run[i] \in RunState
  BY DEF TypeInv, TypeOK
<1>2. run' = [run EXCEPT ![i] = [run[i] EXCEPT !.pc = "clean", !.exit = exit]]
  BY <1>1 DEF Leave, RunState, TypeInv, TypeOK
<1>3. [run[i] EXCEPT !.pc = "clean", !.exit = exit].pc = "clean"
  BY <1>1 DEF RunState
<1> QED
  BY <1>2, <1>3 DEF TypeInv, TypeOK

\* At the start nothing runs and the sweep is idle.
THEOREM PublishInit == Init => PublishInv
BY DEF Init, PublishInv, BeforeReady, SweptAreReady, MissingHasNone, Looking,
       Idle, NoSweep, Unpublished

\* Every step keeps the invariant, and leaves what is published alone.  A transfer can
\* only publish, fail or reset a row it found in flight; the sweep can only fail a row
\* whose file it found missing, and no transfer of that item is left to bring one.
LEMMA PublishStep ==
  ASSUME TypeInv, PublishInv, [Next]_vars
  PROVE  PublishInv' /\ StaysPublished
<1> DEFINE Goal == PublishInv' /\ StaysPublished
<1>0. CASE UNCHANGED vars
  BY <1>0 DEF vars, row, files, work, PublishInv, BeforeReady, SweptAreReady, MissingHasNone,
              Looking, StaysPublished
<1>1. sweep.todo \subseteq Item /\ sweep.at \subseteq Item
  BY DEF TypeInv, TypeOK, SweepState
<1>StartUpload. ASSUME NEW i \in Item, StartUpload(i) PROVE Goal
  BY <1>StartUpload
  DEF StartUpload, TypeInv, TypeOK,
      PublishInv, BeforeReady, SweptAreReady, MissingHasNone, Looking, StaysPublished,
      row, files, work
<1>AddFetched. ASSUME NEW i \in Item, AddFetched(i) PROVE Goal
  BY <1>AddFetched
  DEF AddFetched, TypeInv, TypeOK,
      PublishInv, BeforeReady, SweptAreReady, MissingHasNone, Looking, StaysPublished,
      row, files, work
<1>ReadChunk. ASSUME NEW i \in Item, ReadChunk(i) PROVE Goal
  BY <1>ReadChunk
  DEF ReadChunk, TypeInv, TypeOK,
      PublishInv, BeforeReady, SweptAreReady, MissingHasNone, Looking, StaysPublished,
      row, files, work
<1>Abandon. ASSUME NEW i \in Item, Abandon(i) PROVE Goal
  BY <1>Abandon
  DEF Abandon, TypeInv, TypeOK,
      PublishInv, BeforeReady, SweptAreReady, MissingHasNone, Looking, StaysPublished,
      row, files, work
<1>Remove. ASSUME NEW i \in Item, Remove(i) PROVE Goal
  BY <1>Remove
  DEF Remove, TypeInv, TypeOK,
      PublishInv, BeforeReady, SweptAreReady, MissingHasNone, Looking, StaysPublished,
      row, files, work
<1>Push. ASSUME NEW i \in Item, Push(i) PROVE Goal
  BY <1>Push
  DEF Push, TypeInv, TypeOK,
      PublishInv, BeforeReady, SweptAreReady, MissingHasNone, Looking, StaysPublished,
      row, files, work
<1>CancelQueued. ASSUME NEW i \in Item, CancelQueued(i) PROVE Goal
  BY <1>CancelQueued
  DEF CancelQueued, TypeInv, TypeOK,
      PublishInv, BeforeReady, SweptAreReady, MissingHasNone, Looking, StaysPublished,
      row, files, work
<1>Claim. ASSUME NEW i \in Item, Claim(i) PROVE Goal
  BY <1>Claim, GoesTo, Names
  DEF Claim, Idle, Unpublished, TypeInv, TypeOK,
      PublishInv, BeforeReady, SweptAreReady, MissingHasNone, Looking, StaysPublished,
      row, files, work
<1>Load. ASSUME NEW i \in Item, Load(i) PROVE Goal
  <2>1. \A k \in Item \ {i} : run'[k] = run[k]
    BY <1>Load, GoesTo, LeavesTo, Names DEF Load, TypeInv, TypeOK
  <2>2. run'[i].pc \in Unpublished => state[i] # "READY"
    <3>1. CASE run' = [run EXCEPT ![i] = Idle]
      BY <3>1 DEF Idle, Unpublished, TypeInv, TypeOK
    <3>2. CASE Leave(i, "FAILED")
      BY <3>2, LeavesTo, Names DEF Unpublished
    <3> QED
      BY <1>Load, <3>1, <3>2 DEF Load
  <2> QED
    BY <1>Load, <2>1, <2>2 DEF Load, PublishInv, BeforeReady, SweptAreReady, MissingHasNone,
        Looking, StaysPublished, row, files
<1>LinkRun. ASSUME NEW i \in Item, LinkRun(i) PROVE Goal
  <2>1. \A k \in Item \ {i} : run'[k] = run[k]
    BY <1>LinkRun, GoesTo, LeavesTo, Names DEF LinkRun, TypeInv, TypeOK
  <2>2. run[i].pc \in Unpublished
    BY <1>LinkRun DEF LinkRun, Unpublished
  <2> QED
    BY <1>LinkRun, <2>1, <2>2 DEF LinkRun, PublishInv, BeforeReady, SweptAreReady, MissingHasNone,
        Looking, StaysPublished, row, files
<1>Fit. ASSUME NEW i \in Item, Fit(i) PROVE Goal
  <2>1. \A k \in Item \ {i} : run'[k] = run[k]
    BY <1>Fit, GoesTo, LeavesTo, Names DEF Fit, TypeInv, TypeOK
  <2>2. run[i].pc \in Unpublished
    BY <1>Fit DEF Fit, Unpublished
  <2> QED
    BY <1>Fit, <2>1, <2>2 DEF Fit, PublishInv, BeforeReady, SweptAreReady, MissingHasNone,
        Looking, StaysPublished, row, files
<1>Size. ASSUME NEW i \in Item, Size(i) PROVE Goal
  <2>1. \A k \in Item \ {i} : run'[k] = run[k]
    BY <1>Size, GoesTo, LeavesTo, Names DEF Size, TypeInv, TypeOK
  <2>2. run[i].pc \in Unpublished
    BY <1>Size DEF Size, Unpublished
  <2> QED
    BY <1>Size, <2>1, <2>2 DEF Size, PublishInv, BeforeReady, SweptAreReady, MissingHasNone,
        Looking, StaysPublished, row, files
<1>Download. ASSUME NEW i \in Item, Download(i) PROVE Goal
  <2>1. \A k \in Item \ {i} : run'[k] = run[k]
    BY <1>Download, GoesTo, LeavesTo, Names DEF Download, TypeInv, TypeOK
  <2>2. run[i].pc \in Unpublished
    BY <1>Download DEF Download, Unpublished
  <2> QED
    BY <1>Download, <2>1, <2>2 DEF Download, PublishInv, BeforeReady, SweptAreReady, MissingHasNone,
        Looking, StaysPublished, row, files
<1>Received. ASSUME NEW i \in Item, Received(i) PROVE Goal
  <2>1. \A k \in Item \ {i} : run'[k] = run[k] /\ state'[k] = state[k]
    BY <1>Received, GoesTo, LeavesTo, Names DEF Received, TypeInv, TypeOK
  <2>2. state[i] # "READY" /\ (state[i] = "GONE" => state'[i] = "GONE") /\ state'[i] # "READY"
    BY <1>Received DEF Received, PublishInv, BeforeReady, Unpublished, TypeInv, TypeOK
  <2>3. BeforeReady'
    BY <1>Received, <2>1, <2>2 DEF Received, PublishInv, BeforeReady, files
  <2>4. SweptAreReady'
    BY <1>1, <1>Received, <2>1, <2>2 DEF Received, PublishInv, SweptAreReady, Looking, files
  <2>5. MissingHasNone'
    BY <1>1, <1>Received, <2>1, <2>2 DEF Received, PublishInv, MissingHasNone, files
  <2>6. StaysPublished
    BY <1>Received, <2>1, <2>2 DEF Received, StaysPublished, files
  <2> QED
    BY <2>3, <2>4, <2>5, <2>6 DEF PublishInv
<1>HashUpload. ASSUME NEW i \in Item, HashUpload(i) PROVE Goal
  <2>1. \A k \in Item \ {i} : run'[k] = run[k]
    BY <1>HashUpload, GoesTo, LeavesTo, Names DEF HashUpload, TypeInv, TypeOK
  <2>2. run[i].pc \in Unpublished
    BY <1>HashUpload DEF HashUpload, Unpublished
  <2> QED
    BY <1>HashUpload, <2>1, <2>2
    DEF HashUpload, PublishInv, BeforeReady, SweptAreReady, MissingHasNone, Looking, StaysPublished, row, files
<1>Check. ASSUME NEW i \in Item, Check(i) PROVE Goal
  <2>1. \A k \in Item \ {i} : run'[k] = run[k]
    BY <1>Check, GoesTo, LeavesTo, Names DEF Check, TypeInv, TypeOK
  <2>2. run[i].pc \in Unpublished
    BY <1>Check DEF Check, Unpublished
  <2> QED
    BY <1>Check, <2>1, <2>2 DEF Check, PublishInv, BeforeReady, SweptAreReady, MissingHasNone,
        Looking, StaysPublished, row, files
<1>Publish. ASSUME NEW i \in Item, Publish(i) PROVE Goal
  <2>1. \A k \in Item \ {i} : run'[k] = run[k]
    BY <1>Publish, GoesTo, LeavesTo, Names DEF Publish, TypeInv, TypeOK
  <2>2. run[i].pc \in Unpublished
    BY <1>Publish DEF Publish, Unpublished
  <2> QED
    BY <1>Publish, <2>1, <2>2 DEF Publish, PublishInv, BeforeReady, SweptAreReady, MissingHasNone,
        Looking, StaysPublished, row, files
<1>Rename. ASSUME NEW i \in Item, Rename(i) PROVE Goal
  <2>1. \A k \in Item \ {i} : run'[k] = run[k] /\ place'[k] = place[k]
    BY <1>Rename, GoesTo, LeavesTo, Names DEF Rename, TypeInv, TypeOK
  <2>2. state[i] # "READY"
    BY <1>Rename DEF Rename, PublishInv, BeforeReady, Unpublished
  <2>3. BeforeReady'
    BY <1>Rename, <2>1, <2>2 DEF Rename, PublishInv, BeforeReady, row
  <2>4. SweptAreReady'
    BY <1>1, <1>Rename, <2>1, <2>2 DEF Rename, PublishInv, SweptAreReady, Looking, row
  <2>5. MissingHasNone'
    BY <1>1, <1>Rename, <2>1, <2>2 DEF Rename, PublishInv, MissingHasNone, row
  <2>6. StaysPublished
    BY <1>Rename, <2>1, <2>2 DEF Rename, StaysPublished, row
  <2> QED
    BY <2>3, <2>4, <2>5, <2>6 DEF PublishInv
<1>Ready. ASSUME NEW i \in Item, Ready(i) PROVE Goal
  <2>1. \A k \in Item \ {i} : run'[k] = run[k] /\ state'[k] = state[k]
    BY <1>Ready, GoesTo, LeavesTo, Names DEF Ready, TypeInv, TypeOK
  <2>2. state[i] # "READY"
    BY <1>Ready DEF Ready, PublishInv, BeforeReady, Unpublished
  <2>3. CASE state[i] = "GONE"
    BY <1>Ready, <2>1, <2>3 DEF Ready, PublishInv, BeforeReady, SweptAreReady,
        MissingHasNone, Looking, StaysPublished, files
  <2>4. CASE state[i] # "GONE"
    <3>1. ~ (Looking /\ i \in sweep.todo \union sweep.at)
      BY <2>2, <2>4 DEF PublishInv, SweptAreReady
    <3>2. run'[i].pc = "report"
      BY <1>Ready, <2>4, GoesTo, Names DEF Ready
    <3>3. BeforeReady'
      BY <2>1, <3>2 DEF PublishInv, BeforeReady, Unpublished
    <3>4. state'[i] = "READY" /\ UNCHANGED <<place, sweep>>
      BY <1>Ready, <2>4 DEF Ready, files, TypeInv, TypeOK
    <3>5. SweptAreReady'
      BY <1>1, <2>1, <3>1, <3>4 DEF PublishInv, SweptAreReady, Looking
    <3>6. MissingHasNone'
      BY <1>1, <2>1, <3>1, <3>4 DEF PublishInv, MissingHasNone, Looking
    <3>7. StaysPublished
      BY <2>1, <3>4 DEF StaysPublished
    <3> QED
      BY <3>3, <3>5, <3>6, <3>7 DEF PublishInv
  <2> QED
    BY <2>3, <2>4
<1>Report. ASSUME NEW i \in Item, Report(i) PROVE Goal
  <2>1. run[i] \in RunState
    BY DEF TypeInv, TypeOK
  <2>2. run' = [run EXCEPT ![i] = [run[i] EXCEPT !.pc = "end", !.exit = "SUCCEEDED"]]
    BY <1>Report, <2>1 DEF Report, RunState, TypeInv, TypeOK
  <2>3. run'[i].pc = "end" /\ \A k \in Item \ {i} : run'[k] = run[k]
    BY <2>1, <2>2 DEF RunState, TypeInv, TypeOK
  <2> QED
    BY <1>Report, <2>3 DEF Report, Unpublished, PublishInv, BeforeReady, SweptAreReady,
        MissingHasNone, Looking, StaysPublished, row, files
<1>Throw. ASSUME NEW i \in Item, Throw(i) PROVE Goal
  <2>1. \A k \in Item \ {i} : run'[k] = run[k]
    BY <1>Throw, LeavesTo, Names DEF Throw
  <2>2. run'[i].pc \in Unpublished => state[i] # "READY"
    BY <1>Throw, LeavesTo, Names DEF Throw, Unpublished
  <2> QED
    BY <1>Throw, <2>1, <2>2 DEF Throw, PublishInv, BeforeReady, SweptAreReady,
        MissingHasNone, Looking, StaysPublished, row, files
<1>Lost. ASSUME NEW i \in Item, Lost(i) PROVE Goal
  BY <1>Lost
  DEF Lost, Idle, Unpublished, TypeInv, TypeOK,
      PublishInv, BeforeReady, SweptAreReady, MissingHasNone, Looking, StaysPublished,
      row, files, work
<1>CleanFile. ASSUME NEW i \in Item, CleanFile(i) PROVE Goal
  BY <1>CleanFile, GoesTo, Names
  DEF CleanFile, Idle, Unpublished, TypeInv, TypeOK,
      PublishInv, BeforeReady, SweptAreReady, MissingHasNone, Looking, StaysPublished,
      row, files, work
<1>CleanLook. ASSUME NEW i \in Item, CleanLook(i) PROVE Goal
  <2>1. \A k \in Item \ {i} : run'[k] = run[k]
    BY <1>CleanLook, GoesTo, Names DEF CleanLook
  <2>2. run'[i].pc \in Unpublished => state[i] # "READY"
    BY <1>CleanLook, GoesTo, Names DEF CleanLook, SettledAlready, Unpublished
  <2> QED
    BY <1>CleanLook, <2>1, <2>2 DEF CleanLook, PublishInv, BeforeReady, SweptAreReady,
        MissingHasNone, Looking, StaysPublished, row, files
<1>CleanRow. ASSUME NEW i \in Item, CleanRow(i) PROVE Goal
  <2>1. \A k \in Item \ {i} : run'[k] = run[k] /\ state'[k] = state[k]
    BY <1>CleanRow, GoesTo, Names DEF CleanRow, TypeInv, TypeOK
  <2>2. state[i] # "READY" /\ (state[i] = "GONE" => state'[i] = "GONE") /\ state'[i] # "READY"
    BY <1>CleanRow DEF CleanRow, PublishInv, BeforeReady, Unpublished, TypeInv, TypeOK
  <2>3. BeforeReady'
    BY <1>CleanRow, <2>1, <2>2 DEF CleanRow, PublishInv, BeforeReady, files
  <2>4. SweptAreReady'
    BY <1>1, <1>CleanRow, <2>1, <2>2 DEF CleanRow, PublishInv, SweptAreReady, Looking, files
  <2>5. MissingHasNone'
    BY <1>1, <1>CleanRow, <2>1, <2>2 DEF CleanRow, PublishInv, MissingHasNone, files
  <2>6. StaysPublished
    BY <1>CleanRow, <2>1, <2>2 DEF CleanRow, StaysPublished, files
  <2> QED
    BY <2>3, <2>4, <2>5, <2>6 DEF PublishInv
<1>End. ASSUME NEW i \in Item, End(i) PROVE Goal
  BY <1>End
  DEF End, Idle, Unpublished, TypeInv, TypeOK,
      PublishInv, BeforeReady, SweptAreReady, MissingHasNone, Looking, StaysPublished,
      row, files, work
<1>PushStep. ASSUME NEW i \in Item, PushStep(i) PROVE Goal
  BY <1>PushStep
  DEF PushStep, TypeInv, TypeOK,
      PublishInv, BeforeReady, SweptAreReady, MissingHasNone, Looking, StaysPublished,
      row, files, work
<1>Reconcile. ASSUME NEW i \in Item, Reconcile(i) PROVE Goal
  BY <1>Reconcile
  DEF Reconcile, TypeInv, TypeOK,
      PublishInv, BeforeReady, SweptAreReady, MissingHasNone, Looking, StaysPublished,
      row, files, work
<1>CleanFails. ASSUME NEW i \in Item, CleanFails(i) PROVE Goal
  BY <1>CleanFails, GoesTo, Names
  DEF CleanFails, Idle, Unpublished, TypeInv, TypeOK,
      PublishInv, BeforeReady, SweptAreReady, MissingHasNone, Looking, StaysPublished,
      row, files, work
<1>Silence. ASSUME NEW i \in Item, Silence(i) PROVE Goal
  BY <1>Silence
  DEF Silence, TypeInv, TypeOK,
      PublishInv, BeforeReady, SweptAreReady, MissingHasNone, Looking, StaysPublished,
      row, files, work
<1>Age. ASSUME NEW i \in Item, Age(i) PROVE Goal
  BY <1>Age
  DEF Age, TypeInv, TypeOK,
      PublishInv, BeforeReady, SweptAreReady, MissingHasNone, Looking, StaysPublished,
      row, files, work
<1>SweepTransfer. ASSUME NEW i \in Item, SweepTransfer(i) PROVE Goal
  BY <1>SweepTransfer
  DEF SweepTransfer, To, At, Pass, Back, SweepState, TypeInv, TypeOK,
      PublishInv, BeforeReady, SweptAreReady, MissingHasNone, Looking, StaysPublished,
      row, files, work
<1>SweepLostFile. ASSUME NEW i \in Item, SweepLostFile(i) PROVE Goal
  BY <1>SweepLostFile
  DEF SweepLostFile, To, At, Pass, Back, SweepState, TypeInv, TypeOK,
      PublishInv, BeforeReady, SweptAreReady, MissingHasNone, Looking, StaysPublished,
      row, files, work
<1>SweepLostRow. ASSUME NEW i \in Item, SweepLostRow(i) PROVE Goal
  <2>1. \A k \in Item : state'[k] # state[k] => state[k] \in InFlight /\ state'[k] = "FAILED"
    BY <1>SweepLostRow DEF SweepLostRow, StillInFlight, TypeInv, TypeOK
  <2>2. sweep'.pc = "transfers"
    BY <1>SweepLostRow DEF SweepLostRow, Back, SweepState, TypeInv, TypeOK
  <2> QED
    BY <1>SweepLostRow, <2>1, <2>2 DEF SweepLostRow, InFlight, PublishInv, BeforeReady,
        SweptAreReady, MissingHasNone, Looking, StaysPublished, files, work
<1>SweepOldFile. ASSUME NEW i \in Item, SweepOldFile(i) PROVE Goal
  BY <1>SweepOldFile
  DEF SweepOldFile, To, At, Pass, Back, SweepState, TypeInv, TypeOK,
      PublishInv, BeforeReady, SweptAreReady, MissingHasNone, Looking, StaysPublished,
      row, files, work
<1>SweepOldRow. ASSUME NEW i \in Item, SweepOldRow(i) PROVE Goal
  BY <1>SweepOldRow
  DEF SweepOldRow, To, At, Pass, Back, SweepState, TypeInv, TypeOK,
      PublishInv, BeforeReady, SweptAreReady, MissingHasNone, Looking, StaysPublished,
      row, files, work
<1>SweepPartial. ASSUME NEW i \in Item, SweepPartial(i) PROVE Goal
  BY <1>SweepPartial
  DEF SweepPartial, To, At, Pass, Back, SweepState, TypeInv, TypeOK,
      PublishInv, BeforeReady, SweptAreReady, MissingHasNone, Looking, StaysPublished,
      row, files, work
<1>SweepItem. ASSUME NEW i \in Item, SweepItem(i) PROVE Goal
  BY <1>SweepItem
  DEF SweepItem, To, At, Pass, Back, SweepState, TypeInv, TypeOK,
      PublishInv, BeforeReady, SweptAreReady, MissingHasNone, Looking, StaysPublished,
      row, files, work
<1>SweepStat. ASSUME NEW i \in Item, SweepStat(i) PROVE Goal
  <2>1. CASE place[i] = NoFile
    <3>1. sweep'.pc = "missing" /\ sweep'.at = {i} /\ sweep'.todo = sweep.todo \ {i}
      BY <1>SweepStat, <2>1 DEF SweepStat, At, SweepState, TypeInv, TypeOK
    <3> QED
      BY <1>SweepStat, <2>1, <3>1 DEF SweepStat, PublishInv, BeforeReady, SweptAreReady,
          MissingHasNone, Looking, StaysPublished,
      row, files, work
  <2>2. CASE place[i] # NoFile
    <3>1. sweep'.pc = "ready" /\ sweep'.at = sweep.at /\ sweep'.todo = sweep.todo \ {i}
      BY <1>SweepStat, <2>2 DEF SweepStat, Pass, SweepState, TypeInv, TypeOK
    <3> QED
      BY <1>SweepStat, <2>2, <3>1 DEF SweepStat, PublishInv, BeforeReady, SweptAreReady,
          MissingHasNone, Looking, StaysPublished,
      row, files, work
  <2> QED
    BY <2>1, <2>2
<1>SweepMissing. ASSUME NEW i \in Item, SweepMissing(i) PROVE Goal
  <2>1. CASE state[i] = "GONE"
    BY <1>SweepMissing, <2>1 DEF SweepMissing, NoSweep, PublishInv, BeforeReady,
        SweptAreReady, MissingHasNone, Looking, StaysPublished, files, work
  <2>2. CASE state[i] # "GONE"
    <3>1. sweep'.pc = "ready" /\ sweep'.at = {} /\ sweep'.todo = sweep.todo
      BY <1>SweepMissing, <2>2 DEF SweepMissing, Back, SweepState, TypeInv, TypeOK
    <3>2. /\ state'[i] = "FAILED" /\ \A k \in Item \ {i} : state'[k] = state[k]
          /\ UNCHANGED <<place, run>>
      BY <1>SweepMissing, <2>2 DEF SweepMissing, files, work, TypeInv, TypeOK
    <3>3. i \notin sweep.todo /\ (state[i] = "READY" => place[i] = NoFile)
      BY <1>SweepMissing DEF SweepMissing, PublishInv, MissingHasNone
    <3> QED
      BY <1>SweepMissing, <3>1, <3>2, <3>3 DEF SweepMissing, PublishInv, BeforeReady,
          SweptAreReady, MissingHasNone, Looking, StaysPublished, SweepState, TypeInv,
          TypeOK
  <2> QED
    BY <2>1, <2>2
<1>CreateRow. ASSUME NEW c \in calls, CreateRow(c) PROVE Goal
  BY <1>CreateRow
  DEF CreateRow, TypeInv, TypeOK,
      PublishInv, BeforeReady, SweptAreReady, MissingHasNone, Looking, StaysPublished,
      row, files, work
<1>Touch. ASSUME NEW c \in calls, Touch(c) PROVE Goal
  BY <1>Touch
  DEF Touch, TypeInv, TypeOK,
      PublishInv, BeforeReady, SweptAreReady, MissingHasNone, Looking, StaysPublished,
      row, files, work
<1>MakeJob. ASSUME NEW c \in calls, MakeJob(c) PROVE Goal
  BY <1>MakeJob
  DEF MakeJob, TypeInv, TypeOK,
      PublishInv, BeforeReady, SweptAreReady, MissingHasNone, Looking, StaysPublished,
      row, files, work
<1>NoRow. ASSUME NEW c \in calls, NoRow(c) PROVE Goal
  BY <1>NoRow
  DEF NoRow, TypeInv, TypeOK,
      PublishInv, BeforeReady, SweptAreReady, MissingHasNone, Looking, StaysPublished,
      row, files, work
<1>Undo. ASSUME NEW c \in calls, Undo(c) PROVE Goal
  BY <1>Undo
  DEF Undo, TypeInv, TypeOK,
      PublishInv, BeforeReady, SweptAreReady, MissingHasNone, Looking, StaysPublished,
      row, files, work
<1>Link. ASSUME NEW c \in calls, Link(c) PROVE Goal
  BY <1>Link
  DEF Link, TypeInv, TypeOK,
      PublishInv, BeforeReady, SweptAreReady, MissingHasNone, Looking, StaysPublished,
      row, files, work
<1>WriteChunk. ASSUME NEW c \in calls, WriteChunk(c) PROVE Goal
  BY <1>WriteChunk
  DEF WriteChunk, TypeInv, TypeOK,
      PublishInv, BeforeReady, SweptAreReady, MissingHasNone, Looking, StaysPublished,
      row, files, work
<1>ChunkFails. ASSUME NEW c \in calls, ChunkFails(c) PROVE Goal
  BY <1>ChunkFails
  DEF ChunkFails, TypeInv, TypeOK,
      PublishInv, BeforeReady, SweptAreReady, MissingHasNone, Looking, StaysPublished,
      row, files, work
<1>CountChunk. ASSUME NEW c \in calls, CountChunk(c) PROVE Goal
  <2>1. \A k \in Item : state'[k] # state[k] => state[k] = "RECEIVING" /\ state'[k] = "VERIFYING"
    BY <1>CountChunk DEF CountChunk, TypeInv, TypeOK
  <2>2. BeforeReady'
    BY <1>CountChunk, <2>1 DEF CountChunk, PublishInv, BeforeReady, files, work
  <2>3. SweptAreReady'
    BY <1>1, <1>CountChunk, <2>1 DEF CountChunk, PublishInv, SweptAreReady, Looking, files, work
  <2>4. MissingHasNone'
    BY <1>1, <1>CountChunk, <2>1 DEF CountChunk, PublishInv, MissingHasNone, files, work
  <2>5. StaysPublished
    BY <1>CountChunk, <2>1 DEF CountChunk, StaysPublished, files, work
  <2> QED
    BY <2>2, <2>3, <2>4, <2>5 DEF PublishInv
<1>AbandonFile. ASSUME NEW c \in calls, AbandonFile(c) PROVE Goal
  BY <1>AbandonFile
  DEF AbandonFile, TypeInv, TypeOK,
      PublishInv, BeforeReady, SweptAreReady, MissingHasNone, Looking, StaysPublished,
      row, files, work
<1>AbandonRow. ASSUME NEW c \in calls, AbandonRow(c) PROVE Goal
  BY <1>AbandonRow
  DEF AbandonRow, TypeInv, TypeOK,
      PublishInv, BeforeReady, SweptAreReady, MissingHasNone, Looking, StaysPublished,
      row, files, work
<1>RemoveItemFile. ASSUME NEW c \in calls, RemoveItemFile(c) PROVE Goal
  BY <1>RemoveItemFile
  DEF RemoveItemFile, TypeInv, TypeOK,
      PublishInv, BeforeReady, SweptAreReady, MissingHasNone, Looking, StaysPublished,
      row, files, work
<1>RemovePartial. ASSUME NEW c \in calls, RemovePartial(c) PROVE Goal
  BY <1>RemovePartial
  DEF RemovePartial, TypeInv, TypeOK,
      PublishInv, BeforeReady, SweptAreReady, MissingHasNone, Looking, StaysPublished,
      row, files, work
<1>RemoveRow. ASSUME NEW c \in calls, RemoveRow(c) PROVE Goal
  BY <1>RemoveRow
  DEF RemoveRow, TypeInv, TypeOK,
      PublishInv, BeforeReady, SweptAreReady, MissingHasNone, Looking, StaysPublished,
      row, files, work
<1>MakePush. ASSUME NEW c \in calls, MakePush(c) PROVE Goal
  BY <1>MakePush
  DEF MakePush, TypeInv, TypeOK,
      PublishInv, BeforeReady, SweptAreReady, MissingHasNone, Looking, StaysPublished,
      row, files, work
<1>NoJob. ASSUME NEW c \in calls, NoJob(c) PROVE Goal
  BY <1>NoJob
  DEF NoJob, TypeInv, TypeOK,
      PublishInv, BeforeReady, SweptAreReady, MissingHasNone, Looking, StaysPublished,
      row, files, work
<1>CallLost. ASSUME NEW c \in calls, CallLost(c) PROVE Goal
  BY <1>CallLost
  DEF CallLost, TypeInv, TypeOK,
      PublishInv, BeforeReady, SweptAreReady, MissingHasNone, Looking, StaysPublished,
      row, files, work
<1>SweepBegins. ASSUME SweepBegins PROVE Goal
  BY <1>SweepBegins
  DEF SweepBegins, To, At, Pass, Back, SweepState, TypeInv, TypeOK,
      PublishInv, BeforeReady, SweptAreReady, MissingHasNone, Looking, StaysPublished,
      row, files, work
<1>SweepUploads. ASSUME SweepUploads PROVE Goal
  BY <1>SweepUploads
  DEF SweepUploads, To, At, Pass, Back, SweepState, TypeInv, TypeOK,
      PublishInv, BeforeReady, SweptAreReady, MissingHasNone, Looking, StaysPublished,
      row, files, work
<1>SweepRows. ASSUME SweepRows PROVE Goal
  BY <1>SweepRows
  DEF SweepRows, To, At, Pass, Back, SweepState, TypeInv, TypeOK,
      PublishInv, BeforeReady, SweptAreReady, MissingHasNone, Looking, StaysPublished,
      row, files, work
<1>SweepPartials. ASSUME SweepPartials PROVE Goal
  BY <1>SweepPartials
  DEF SweepPartials, To, At, Pass, Back, SweepState, TypeInv, TypeOK,
      PublishInv, BeforeReady, SweptAreReady, MissingHasNone, Looking, StaysPublished,
      row, files, work
<1>SweepItems. ASSUME SweepItems PROVE Goal
  BY <1>SweepItems
  DEF SweepItems, To, At, Pass, Back, SweepState, TypeInv, TypeOK,
      PublishInv, BeforeReady, SweptAreReady, MissingHasNone, Looking, StaysPublished,
      row, files, work
<1>SweepReady. ASSUME SweepReady PROVE Goal
  <2>1. sweep'.pc = "ready" /\ sweep'.todo = {i \in Item : state[i] = "READY"} /\ sweep'.at = {}
    BY <1>SweepReady DEF SweepReady, NoSweep
  <2> QED
    BY <1>SweepReady, <2>1 DEF SweepReady, PublishInv, BeforeReady, SweptAreReady,
        MissingHasNone, Looking, StaysPublished,
      row, files, work
<1>SweepEnds. ASSUME SweepEnds PROVE Goal
  <2>1. sweep'.pc = "idle"
    BY <1>SweepEnds DEF SweepEnds, NoSweep
  <2> QED
    BY <1>SweepEnds, <2>1 DEF SweepEnds, PublishInv, BeforeReady, SweptAreReady,
        MissingHasNone, Looking, StaysPublished,
      row, files, work
<1>Crash. ASSUME NEW dead \in SUBSET Item, Crash(dead) PROVE Goal
  BY <1>Crash
  DEF Crash, Idle, Unpublished, NoSweep, TypeInv, TypeOK,
      PublishInv, BeforeReady, SweptAreReady, MissingHasNone, Looking, StaysPublished,
      row, files, work
<1> QED
  BY <1>0, <1>StartUpload, <1>AddFetched, <1>ReadChunk, <1>Abandon, <1>Remove, <1>Push,
     <1>CancelQueued, <1>Claim, <1>Load, <1>LinkRun, <1>Fit, <1>Size, <1>Download,
     <1>Received, <1>HashUpload, <1>Check, <1>Publish, <1>Rename, <1>Ready, <1>Report,
     <1>Throw, <1>Lost, <1>CleanFile, <1>CleanLook, <1>CleanRow, <1>End, <1>PushStep,
     <1>Reconcile, <1>CleanFails, <1>Silence, <1>Age, <1>SweepTransfer, <1>SweepLostFile,
     <1>SweepLostRow, <1>SweepOldFile, <1>SweepOldRow, <1>SweepPartial, <1>SweepItem,
     <1>SweepStat, <1>SweepMissing, <1>CreateRow, <1>Touch, <1>MakeJob, <1>NoRow, <1>Undo,
     <1>Link, <1>WriteChunk, <1>ChunkFails, <1>CountChunk, <1>AbandonFile, <1>AbandonRow,
     <1>RemoveItemFile, <1>RemovePartial, <1>RemoveRow, <1>MakePush, <1>NoJob, <1>CallLost,
     <1>SweepBegins, <1>SweepUploads, <1>SweepRows, <1>SweepPartials, <1>SweepItems,
     <1>SweepReady, <1>SweepEnds, <1>Crash DEF Next, User, Api, Transfer, Sweep

\* "A READY item is never touched": a published item stays so until it is removed or
\* its file has gone, whatever transfers, requests and the sweep do at the same time.
THEOREM PublishedStaysReady == Spec => PublishedStays
<1>1. TypeInv /\ PublishInv /\ [Next]_vars => TypeInv' /\ PublishInv' /\ StaysPublished
  BY TypeStep, PublishStep
<1>2. StaysPublished =>
        \A i \in Item : state[i] = "READY" =>
          state'[i] \in {"READY", "GONE"} \/ (state'[i] = "FAILED" /\ place[i] = NoFile)
  BY DEF StaysPublished
<1> QED
  BY TypeInit, PublishInit, <1>1, <1>2, PTL DEF Spec, PublishedStays

-----------------------------------------------------------------------------
(* What is published is whole                                              *)
(*                                                                         *)
(* The parts a browser sends are counted in the row and written to a file  *)
(* that requests, cleanups and the sweep remove beside it.  What is proved *)
(* by induction is that whatever file there still is holds all the parts   *)
(* the row counts, and that the row counts every part once the transfer    *)
(* has loaded the upload.                                                  *)

\* Past the load, the transfer of an upload; and while it would fetch, which it never does.
Verifying == {"link", "hash", "check", "publish", "rename", "ready", "report"}
Fetching  == {"fit", "size", "bytes", "received"}
\* A fetched item's steps once the bytes are there.
Fetched   == {"received", "hash", "check", "publish", "rename"}

Writes(c, i) == c.item = i /\ c.op = "count"
Unstarted(i) == state[i] = "NONE" \/ Request("touch", i) \in calls

\* Only uploads that have a row are written to in chunks.
ChunksAreUploads ==
  \A c \in calls : c.op \in {"touch", "write", "count"} =>
    /\ c.item \in Uploads /\ state[c.item] # "NONE"
    /\ c.op = "touch" => c = Request("touch", c.item)

\* Before its file is created, nothing of an upload has been written or counted.
NothingBefore ==
  \A i \in Uploads : Unstarted(i) =>
    partial[i] = NoFile /\ received[i] = 0 /\ \A c \in calls : ~ Writes(c, i)

\* What is counted is in the file, if there still is one.
CountedIsThere == \A i \in Uploads : partial[i] # NoFile => 1 .. received[i] \subseteq partial[i]
CountsTheWritten ==
  \A c \in calls : c.op = "count" => partial[c.item] = NoFile \/ c.part \in partial[c.item]

\* An upload is verified when every part has been counted.
VerifiedIsCounted ==
  \A i \in Uploads :
    /\ state[i] = "VERIFYING" \/ run[i].pc \in Verifying => received[i] = Parts
    /\ run[i].pc \notin Fetching

\* A fetched file is moved into place only as the download left it.
FetchedIsWhole ==
  \A i \in Item \ Uploads : run[i].pc \in Fetched => partial[i] \in {NoFile, Part}

UploadInv == ChunksAreUploads /\ NothingBefore /\ CountedIsThere /\ CountsTheWritten
WholeInv  == UploadInv /\ VerifiedIsCounted /\ FetchedIsWhole /\ PublishedIsWhole

\* Requests only end, or go on to statements that do not touch an upload's file.
CallsCalm == \A c \in calls' : c \in calls \/ c.op \notin {"touch", "write", "count"}

\* Counters stay, and nothing becomes new, verified or ready.
RowsCalm ==
  /\ received' = received
  /\ \A i \in Item :
       /\ state'[i] = state[i] \/ state'[i] \notin {"NONE", "VERIFYING", "READY"}
       /\ state[i] = "READY" /\ sized[i] => sized'[i]

\* Files are only removed.
FilesCalm ==
  \A i \in Item : partial'[i] \in {partial[i], NoFile} /\ place'[i] \in {place[i], NoFile}

\* Runs begin to verify a verified upload, and only go on with what they hold.
RunsCalm ==
  \A i \in Item :
    /\ i \in Uploads =>
         /\ run'[i].pc \in Verifying => run[i].pc \in Verifying \/ state[i] = "VERIFYING"
         /\ run'[i].pc \in Fetching => run[i].pc \in Fetching
    /\ i \notin Uploads => (run'[i].pc \in Fetched => run[i].pc \in Fetched)

Calm == CallsCalm /\ RowsCalm /\ FilesCalm /\ RunsCalm

\* A calm step keeps the invariant.
LEMMA CalmKeeps ==
  ASSUME TypeInv, WholeInv, Calm
  PROVE  WholeInv'
<1> USE DEF WholeInv, UploadInv, Calm
<1>1. \A i \in Uploads : i \in Item
  BY LibraryAssumption
<1>2. ChunksAreUploads'
  BY <1>1 DEF ChunksAreUploads, CallsCalm, RowsCalm
<1>3. NothingBefore'
  <2>1. SUFFICES ASSUME NEW i \in Uploads, Unstarted(i)'
                 PROVE  partial'[i] = NoFile /\ received'[i] = 0 /\ \A c \in calls' : ~ Writes(c, i)
    BY DEF NothingBefore, Writes
  <2>2. Unstarted(i)
    <3>1. Request("touch", i).op = "touch"
      BY DEF Request
    <3> QED
      BY <1>1, <2>1, <3>1 DEF Unstarted, RowsCalm, CallsCalm
  <2>3. partial[i] = NoFile /\ received[i] = 0 /\ \A c \in calls : ~ Writes(c, i)
    BY <2>2 DEF NothingBefore
  <2> QED
    BY <1>1, <2>3 DEF RowsCalm, CallsCalm, FilesCalm, Writes
<1>4. CountedIsThere'
  BY <1>1 DEF CountedIsThere, RowsCalm, FilesCalm
<1>5. CountsTheWritten'
  <2>1. SUFFICES ASSUME NEW c \in calls', c.op = "count"
                 PROVE  partial'[c.item] = NoFile \/ c.part \in partial'[c.item]
    BY DEF CountsTheWritten
  <2>2. c \in calls /\ c.item \in Item
    BY <2>1 DEF CallsCalm, TypeInv, TypeOK, Call
  <2>3. partial[c.item] = NoFile \/ c.part \in partial[c.item]
    BY <2>1, <2>2 DEF CountsTheWritten
  <2> QED
    BY <2>2, <2>3 DEF FilesCalm
<1>6. VerifiedIsCounted'
  BY <1>1 DEF VerifiedIsCounted, RowsCalm, RunsCalm
<1>7. FetchedIsWhole'
  BY DEF FetchedIsWhole, FilesCalm, RunsCalm
<1>8. PublishedIsWhole'
  BY DEF PublishedIsWhole, RowsCalm, FilesCalm
<1> QED
  BY <1>2, <1>3, <1>4, <1>5, <1>6, <1>7, <1>8

\* A request that ends, that goes on to another kind of statement, or that is new.
LEMMA CallsStayCalm ==
  ASSUME TypeInv
  PROVE  /\ \A c : Return(c) => CallsCalm
         /\ \A c \in calls, op \in Ops \ {"touch", "write", "count"} :
              Continue(c, op) => CallsCalm
         /\ \A c \in Call : c.op \notin {"touch", "write", "count"} /\ Admit(c) => CallsCalm
<1>1. ASSUME NEW c \in calls, NEW op \in Ops \ {"touch", "write", "count"}, Continue(c, op)
      PROVE  CallsCalm
  <2>1. [c EXCEPT !.op = op].op = op
    BY DEF TypeInv, TypeOK, Call
  <2> QED
    BY <1>1, <2>1 DEF Continue, CallsCalm
<1> QED
  BY <1>1 DEF Return, Admit, CallsCalm

\* What keeps the runs calm: a step that leads on, one that is left, one that is dropped.
LEMMA RunsStayCalm ==
  ASSUME TypeInv
  PROVE  /\ UNCHANGED run => RunsCalm
         /\ \A i \in Item : \A exit : Leave(i, exit) => RunsCalm
         /\ \A i \in Item : run' = [run EXCEPT ![i] = Idle] => RunsCalm
<1>1. \A i \in Item : \A exit : Leave(i, exit) => RunsCalm
  BY LeavesTo DEF RunsCalm, Verifying, Fetching, Fetched
<1>2. \A i \in Item : run' = [run EXCEPT ![i] = Idle] => RunsCalm
  BY DEF RunsCalm, Verifying, Fetching, Fetched, Idle, TypeInv, TypeOK
<1> QED
  BY <1>1, <1>2 DEF RunsCalm

\* A run that goes on to a step it may go on to.
LEMMA GoesCalmly ==
  ASSUME TypeInv, NEW i \in Item, NEW pc \in Pc, Go(i, pc),
         i \in Uploads /\ pc \in Verifying => run[i].pc \in Verifying \/ state[i] = "VERIFYING",
         i \in Uploads /\ pc \in Fetching => run[i].pc \in Fetching,
         i \notin Uploads /\ pc \in Fetched => run[i].pc \in Fetched
  PROVE  RunsCalm
BY GoesTo DEF RunsCalm

\* Every step keeps the invariant: most disturb nothing of it.
LEMMA WholeStep ==
  ASSUME TypeInv, WholeInv, [Next]_vars
  PROVE  WholeInv'
<1>0. CASE UNCHANGED vars
  BY <1>0, RunsStayCalm, CalmKeeps
  DEF vars, Calm, CallsCalm, RowsCalm, FilesCalm, row, files, work
<1>Abandon. ASSUME NEW i \in Item, Abandon(i) PROVE  WholeInv'
  <2>1. CallsCalm
    BY <1>Abandon, CallsStayCalm, RequestIsCall DEF Abandon, Ops, Request
  <2> QED
    BY <1>Abandon, <2>1, RunsStayCalm, CalmKeeps
    DEF Abandon, Calm, CallsCalm, RowsCalm, FilesCalm, row, files, work
<1>Remove. ASSUME NEW i \in Item, Remove(i) PROVE  WholeInv'
  <2>1. CallsCalm
    BY <1>Remove, CallsStayCalm, RequestIsCall DEF Remove, Ops, Request
  <2> QED
    BY <1>Remove, <2>1, RunsStayCalm, CalmKeeps
    DEF Remove, Calm, CallsCalm, RowsCalm, FilesCalm, row, files, work
<1>Push. ASSUME NEW i \in Item, Push(i) PROVE  WholeInv'
  <2>1. CallsCalm
    BY <1>Push, CallsStayCalm, RequestIsCall DEF Push, Ops, Request
  <2> QED
    BY <1>Push, <2>1, RunsStayCalm, CalmKeeps
    DEF Push, Calm, CallsCalm, RowsCalm, FilesCalm, row, files, work
<1>StartUpload. ASSUME NEW i \in Item, StartUpload(i) PROVE  WholeInv'
  <2>1. CallsCalm
    BY <1>StartUpload DEF StartUpload, Admit, CallsCalm, Request
  <2> QED
    BY <1>StartUpload, <2>1, RunsStayCalm, CalmKeeps
    DEF StartUpload, Calm, CallsCalm, RowsCalm, FilesCalm, row, files, work
<1>AddFetched. ASSUME NEW i \in Item, AddFetched(i) PROVE  WholeInv'
  <2>1. CallsCalm
    BY <1>AddFetched DEF AddFetched, Admit, CallsCalm, Request
  <2> QED
    BY <1>AddFetched, <2>1, RunsStayCalm, CalmKeeps
    DEF AddFetched, Calm, CallsCalm, RowsCalm, FilesCalm, row, files, work
<1>CancelQueued. ASSUME NEW i \in Item, CancelQueued(i) PROVE  WholeInv'
  <2> QED
    BY <1>CancelQueued, RunsStayCalm, CalmKeeps
    DEF CancelQueued, Calm, CallsCalm, RowsCalm, FilesCalm, row, files, work
<1>PushStep. ASSUME NEW i \in Item, PushStep(i) PROVE  WholeInv'
  <2> QED
    BY <1>PushStep, RunsStayCalm, CalmKeeps
    DEF PushStep, Calm, CallsCalm, RowsCalm, FilesCalm, row, files, work
<1>Reconcile. ASSUME NEW i \in Item, Reconcile(i) PROVE  WholeInv'
  <2> QED
    BY <1>Reconcile, RunsStayCalm, CalmKeeps
    DEF Reconcile, Calm, CallsCalm, RowsCalm, FilesCalm, row, files, work
<1>Silence. ASSUME NEW i \in Item, Silence(i) PROVE  WholeInv'
  <2> QED
    BY <1>Silence, RunsStayCalm, CalmKeeps
    DEF Silence, Calm, CallsCalm, RowsCalm, FilesCalm, row, files, work
<1>Age. ASSUME NEW i \in Item, Age(i) PROVE  WholeInv'
  <2> QED
    BY <1>Age, RunsStayCalm, CalmKeeps
    DEF Age, Calm, CallsCalm, RowsCalm, FilesCalm, row, files, work
<1>MakeJob. ASSUME NEW c \in calls, MakeJob(c) PROVE  WholeInv'
  <2>1. CallsCalm
    BY <1>MakeJob, CallsStayCalm DEF MakeJob, Ops
  <2> QED
    BY <1>MakeJob, <2>1, RunsStayCalm, CalmKeeps
    DEF MakeJob, Calm, CallsCalm, RowsCalm, FilesCalm, row, files, work
<1>NoJob. ASSUME NEW c \in calls, NoJob(c) PROVE  WholeInv'
  <2>1. CallsCalm
    BY <1>NoJob, CallsStayCalm DEF NoJob, Ops
  <2> QED
    BY <1>NoJob, <2>1, RunsStayCalm, CalmKeeps
    DEF NoJob, Calm, CallsCalm, RowsCalm, FilesCalm, row, files, work
<1>NoRow. ASSUME NEW c \in calls, NoRow(c) PROVE  WholeInv'
  <2>1. CallsCalm
    BY <1>NoRow, CallsStayCalm DEF NoRow
  <2> QED
    BY <1>NoRow, <2>1, RunsStayCalm, CalmKeeps
    DEF NoRow, Calm, CallsCalm, RowsCalm, FilesCalm, row, files, work
<1>MakePush. ASSUME NEW c \in calls, MakePush(c) PROVE  WholeInv'
  <2>1. CallsCalm
    BY <1>MakePush, CallsStayCalm DEF MakePush
  <2> QED
    BY <1>MakePush, <2>1, RunsStayCalm, CalmKeeps
    DEF MakePush, Calm, CallsCalm, RowsCalm, FilesCalm, row, files, work
<1>CallLost. ASSUME NEW c \in calls, CallLost(c) PROVE  WholeInv'
  <2>1. CallsCalm
    BY <1>CallLost, CallsStayCalm DEF CallLost
  <2> QED
    BY <1>CallLost, <2>1, RunsStayCalm, CalmKeeps
    DEF CallLost, Calm, CallsCalm, RowsCalm, FilesCalm, row, files, work
<1>ChunkFails. ASSUME NEW c \in calls, ChunkFails(c) PROVE  WholeInv'
  <2>1. CallsCalm
    BY <1>ChunkFails, CallsStayCalm DEF ChunkFails
  <2> QED
    BY <1>ChunkFails, <2>1, RunsStayCalm, CalmKeeps
    DEF ChunkFails, Calm, CallsCalm, RowsCalm, FilesCalm, row, files, work
<1>Link. ASSUME NEW c \in calls, Link(c) PROVE  WholeInv'
  <2>1. CallsCalm
    BY <1>Link, CallsStayCalm DEF Link
  <2> QED
    BY <1>Link, <2>1, RunsStayCalm, CalmKeeps
    DEF Link, Calm, CallsCalm, RowsCalm, FilesCalm, row, files, work
<1>Undo. ASSUME NEW c \in calls, Undo(c) PROVE  WholeInv'
  <2>1. CallsCalm
    BY <1>Undo, CallsStayCalm DEF Undo
  <2> QED
    BY <1>Undo, <2>1, RunsStayCalm, CalmKeeps
    DEF Undo, Calm, CallsCalm, RowsCalm, FilesCalm, row, files, work, TypeInv, TypeOK
<1>RemoveRow. ASSUME NEW c \in calls, RemoveRow(c) PROVE  WholeInv'
  <2>1. CallsCalm
    BY <1>RemoveRow, CallsStayCalm DEF RemoveRow
  <2> QED
    BY <1>RemoveRow, <2>1, RunsStayCalm, CalmKeeps
    DEF RemoveRow, Calm, CallsCalm, RowsCalm, FilesCalm, row, files, work, TypeInv, TypeOK
<1>AbandonRow. ASSUME NEW c \in calls, AbandonRow(c) PROVE  WholeInv'
  <2>1. CallsCalm
    BY <1>AbandonRow, CallsStayCalm DEF AbandonRow
  <2> QED
    BY <1>AbandonRow, <2>1, RunsStayCalm, CalmKeeps
    DEF AbandonRow, Calm, CallsCalm, RowsCalm, FilesCalm, row, files, work, TypeInv, TypeOK
<1>AbandonFile. ASSUME NEW c \in calls, AbandonFile(c) PROVE  WholeInv'
  <2>1. CallsCalm
    BY <1>AbandonFile, CallsStayCalm DEF AbandonFile, Ops
  <2> QED
    BY <1>AbandonFile, <2>1, RunsStayCalm, CalmKeeps
    DEF AbandonFile, Calm, CallsCalm, RowsCalm, FilesCalm, row, files, work, TypeInv, TypeOK
<1>RemoveItemFile. ASSUME NEW c \in calls, RemoveItemFile(c) PROVE  WholeInv'
  <2>1. CallsCalm
    BY <1>RemoveItemFile, CallsStayCalm DEF RemoveItemFile, Ops
  <2> QED
    BY <1>RemoveItemFile, <2>1, RunsStayCalm, CalmKeeps
    DEF RemoveItemFile, Calm, CallsCalm, RowsCalm, FilesCalm, row, files, work, TypeInv,
        TypeOK
<1>RemovePartial. ASSUME NEW c \in calls, RemovePartial(c) PROVE  WholeInv'
  <2>1. CallsCalm
    BY <1>RemovePartial, CallsStayCalm DEF RemovePartial, Ops
  <2> QED
    BY <1>RemovePartial, <2>1, RunsStayCalm, CalmKeeps
    DEF RemovePartial, Calm, CallsCalm, RowsCalm, FilesCalm, row, files, work, TypeInv, TypeOK
<1>Claim. ASSUME NEW i \in Item, Claim(i) PROVE  WholeInv'
  <2>2. RunsCalm
    BY <1>Claim, GoesCalmly, Names DEF Claim, Verifying, Fetching, Fetched
  <2> QED
    BY <1>Claim, <2>2, CalmKeeps
    DEF Claim, Calm, CallsCalm, RowsCalm, FilesCalm, row, files, work
<1>Load. ASSUME NEW i \in Item, Load(i) PROVE  WholeInv'
  <2>2. RunsCalm
    BY <1>Load, GoesCalmly, RunsStayCalm, Names DEF Load, Verifying, Fetching, Fetched
  <2> QED
    BY <1>Load, <2>2, CalmKeeps DEF Load, Calm, CallsCalm, RowsCalm, FilesCalm, row, files, work
<1>LinkRun. ASSUME NEW i \in Item, LinkRun(i) PROVE  WholeInv'
  <2>2. RunsCalm
    BY <1>LinkRun, GoesCalmly, RunsStayCalm, Names DEF LinkRun, Verifying, Fetching, Fetched
  <2> QED
    BY <1>LinkRun, <2>2, CalmKeeps
    DEF LinkRun, Calm, CallsCalm, RowsCalm, FilesCalm, row, files, work
<1>Fit. ASSUME NEW i \in Item, Fit(i) PROVE  WholeInv'
  <2>2. RunsCalm
    BY <1>Fit, GoesCalmly, RunsStayCalm, Names DEF Fit, Verifying, Fetching, Fetched
  <2> QED
    BY <1>Fit, <2>2, CalmKeeps DEF Fit, Calm, CallsCalm, RowsCalm, FilesCalm, row, files, work
<1>HashUpload. ASSUME NEW i \in Item, HashUpload(i) PROVE  WholeInv'
  <2>2. RunsCalm
    BY <1>HashUpload, GoesCalmly, RunsStayCalm, Names
    DEF HashUpload, Verifying, Fetching, Fetched
  <2> QED
    BY <1>HashUpload, <2>2, CalmKeeps
    DEF HashUpload, Calm, CallsCalm, RowsCalm, FilesCalm, row, files, work
<1>Publish. ASSUME NEW i \in Item, Publish(i) PROVE  WholeInv'
  <2>2. RunsCalm
    BY <1>Publish, GoesCalmly, RunsStayCalm, Names DEF Publish, Verifying, Fetching, Fetched
  <2> QED
    BY <1>Publish, <2>2, CalmKeeps
    DEF Publish, Calm, CallsCalm, RowsCalm, FilesCalm, row, files, work
<1>Size. ASSUME NEW i \in Item, Size(i) PROVE  WholeInv'
  <2>2. RunsCalm
    BY <1>Size, GoesCalmly, RunsStayCalm, Names DEF Size, Verifying, Fetching, Fetched
  <2> QED
    BY <1>Size, <2>2, CalmKeeps
    DEF Size, Calm, CallsCalm, RowsCalm, FilesCalm, row, files, work, TypeInv, TypeOK
<1>Check. ASSUME NEW i \in Item, Check(i) PROVE  WholeInv'
  <2>2. RunsCalm
    BY <1>Check, GoesCalmly, RunsStayCalm, Names DEF Check, Verifying, Fetching, Fetched
  <2> QED
    BY <1>Check, <2>2, CalmKeeps
    DEF Check, Calm, CallsCalm, RowsCalm, FilesCalm, row, files, work
<1>Report. ASSUME NEW i \in Item, Report(i) PROVE  WholeInv'
  <2>1. RunsCalm
    BY <1>Report DEF Report, RunsCalm, Verifying, Fetching, Fetched, RunState, TypeInv, TypeOK
  <2> QED
    BY <1>Report, <2>1, CalmKeeps
    DEF Report, Calm, CallsCalm, RowsCalm, FilesCalm, row, files, work
<1>Throw. ASSUME NEW i \in Item, Throw(i) PROVE  WholeInv'
  <2>2. RunsCalm
    BY <1>Throw, RunsStayCalm DEF Throw
  <2> QED
    BY <1>Throw, <2>2, CalmKeeps
    DEF Throw, Calm, CallsCalm, RowsCalm, FilesCalm, row, files, work
<1>Lost. ASSUME NEW i \in Item, Lost(i) PROVE  WholeInv'
  <2>2. RunsCalm
    BY <1>Lost, RunsStayCalm DEF Lost
  <2> QED
    BY <1>Lost, <2>2, CalmKeeps DEF Lost, Calm, CallsCalm, RowsCalm, FilesCalm, row, files, work
<1>CleanFile. ASSUME NEW i \in Item, CleanFile(i) PROVE  WholeInv'
  <2>2. RunsCalm
    BY <1>CleanFile, GoesCalmly, Names DEF CleanFile, Verifying, Fetching, Fetched
  <2> QED
    BY <1>CleanFile, <2>2, CalmKeeps
    DEF CleanFile, Calm, CallsCalm, RowsCalm, FilesCalm, row, files, work, TypeInv, TypeOK
<1>CleanLook. ASSUME NEW i \in Item, CleanLook(i) PROVE  WholeInv'
  <2>2. RunsCalm
    BY <1>CleanLook, GoesCalmly, Names DEF CleanLook, Verifying, Fetching, Fetched
  <2> QED
    BY <1>CleanLook, <2>2, CalmKeeps
    DEF CleanLook, Calm, CallsCalm, RowsCalm, FilesCalm, row, files, work
<1>CleanRow. ASSUME NEW i \in Item, CleanRow(i) PROVE  WholeInv'
  <2>2. RunsCalm
    BY <1>CleanRow, GoesCalmly, Names DEF CleanRow, Verifying, Fetching, Fetched
  <2> QED
    BY <1>CleanRow, <2>2, CalmKeeps
    DEF CleanRow, Calm, CallsCalm, RowsCalm, FilesCalm, row, files, work, TypeInv, TypeOK
<1>CleanFails. ASSUME NEW i \in Item, CleanFails(i) PROVE  WholeInv'
  <2>2. RunsCalm
    BY <1>CleanFails, GoesCalmly, Names DEF CleanFails, Verifying, Fetching, Fetched
  <2> QED
    BY <1>CleanFails, <2>2, CalmKeeps
    DEF CleanFails, Calm, CallsCalm, RowsCalm, FilesCalm, row, files, work
<1>End. ASSUME NEW i \in Item, End(i) PROVE  WholeInv'
  <2>2. RunsCalm
    BY <1>End, RunsStayCalm DEF End
  <2> QED
    BY <1>End, <2>2, CalmKeeps DEF End, Calm, CallsCalm, RowsCalm, FilesCalm, row, files, work
<1>SweepTransfer. ASSUME NEW i \in Item, SweepTransfer(i) PROVE  WholeInv'
  <2> QED
    BY <1>SweepTransfer, RunsStayCalm, CalmKeeps
    DEF SweepTransfer, Calm, CallsCalm, RowsCalm, FilesCalm, row, files, work
<1>SweepStat. ASSUME NEW i \in Item, SweepStat(i) PROVE  WholeInv'
  <2> QED
    BY <1>SweepStat, RunsStayCalm, CalmKeeps
    DEF SweepStat, Calm, CallsCalm, RowsCalm, FilesCalm, row, files, work
<1>SweepLostFile. ASSUME NEW i \in Item, SweepLostFile(i) PROVE  WholeInv'
  <2> QED
    BY <1>SweepLostFile, RunsStayCalm, CalmKeeps
    DEF SweepLostFile, Calm, CallsCalm, RowsCalm, FilesCalm, row, files, work, TypeInv, TypeOK
<1>SweepLostRow. ASSUME NEW i \in Item, SweepLostRow(i) PROVE  WholeInv'
  <2> QED
    BY <1>SweepLostRow, RunsStayCalm, CalmKeeps
    DEF SweepLostRow, Calm, CallsCalm, RowsCalm, FilesCalm, row, files, work, TypeInv, TypeOK
<1>SweepOldFile. ASSUME NEW i \in Item, SweepOldFile(i) PROVE  WholeInv'
  <2> QED
    BY <1>SweepOldFile, RunsStayCalm, CalmKeeps
    DEF SweepOldFile, Calm, CallsCalm, RowsCalm, FilesCalm, row, files, work, TypeInv, TypeOK
<1>SweepOldRow. ASSUME NEW i \in Item, SweepOldRow(i) PROVE  WholeInv'
  <2> QED
    BY <1>SweepOldRow, RunsStayCalm, CalmKeeps
    DEF SweepOldRow, Calm, CallsCalm, RowsCalm, FilesCalm, row, files, work, TypeInv, TypeOK
<1>SweepPartial. ASSUME NEW i \in Item, SweepPartial(i) PROVE  WholeInv'
  <2> QED
    BY <1>SweepPartial, RunsStayCalm, CalmKeeps
    DEF SweepPartial, Calm, CallsCalm, RowsCalm, FilesCalm, row, files, work, TypeInv, TypeOK
<1>SweepItem. ASSUME NEW i \in Item, SweepItem(i) PROVE  WholeInv'
  <2> QED
    BY <1>SweepItem, RunsStayCalm, CalmKeeps
    DEF SweepItem, Calm, CallsCalm, RowsCalm, FilesCalm, row, files, work, TypeInv, TypeOK
<1>SweepMissing. ASSUME NEW i \in Item, SweepMissing(i) PROVE  WholeInv'
  <2> QED
    BY <1>SweepMissing, RunsStayCalm, CalmKeeps
    DEF SweepMissing, Calm, CallsCalm, RowsCalm, FilesCalm, row, files, work, TypeInv, TypeOK
<1>SweepBegins. ASSUME SweepBegins PROVE  WholeInv'
  <2> QED
    BY <1>SweepBegins, RunsStayCalm, CalmKeeps
    DEF SweepBegins, Calm, CallsCalm, RowsCalm, FilesCalm, row, files, work
<1>SweepUploads. ASSUME SweepUploads PROVE  WholeInv'
  <2> QED
    BY <1>SweepUploads, RunsStayCalm, CalmKeeps
    DEF SweepUploads, Calm, CallsCalm, RowsCalm, FilesCalm, row, files, work
<1>SweepRows. ASSUME SweepRows PROVE  WholeInv'
  <2> QED
    BY <1>SweepRows, RunsStayCalm, CalmKeeps
    DEF SweepRows, Calm, CallsCalm, RowsCalm, FilesCalm, row, files, work
<1>SweepPartials. ASSUME SweepPartials PROVE  WholeInv'
  <2> QED
    BY <1>SweepPartials, RunsStayCalm, CalmKeeps
    DEF SweepPartials, Calm, CallsCalm, RowsCalm, FilesCalm, row, files, work
<1>SweepItems. ASSUME SweepItems PROVE  WholeInv'
  <2> QED
    BY <1>SweepItems, RunsStayCalm, CalmKeeps
    DEF SweepItems, Calm, CallsCalm, RowsCalm, FilesCalm, row, files, work
<1>SweepReady. ASSUME SweepReady PROVE  WholeInv'
  <2> QED
    BY <1>SweepReady, RunsStayCalm, CalmKeeps
    DEF SweepReady, Calm, CallsCalm, RowsCalm, FilesCalm, row, files, work
<1>SweepEnds. ASSUME SweepEnds PROVE  WholeInv'
  <2> QED
    BY <1>SweepEnds, RunsStayCalm, CalmKeeps
    DEF SweepEnds, Calm, CallsCalm, RowsCalm, FilesCalm, row, files, work
<1>Crash. ASSUME NEW dead \in SUBSET Item, Crash(dead) PROVE  WholeInv'
  <2>1. RunsCalm
    BY <1>Crash DEF Crash, RunsCalm, Verifying, Fetching, Fetched, Idle
  <2> QED
    BY <1>Crash, <2>1, CalmKeeps
    DEF Crash, Calm, CallsCalm, RowsCalm, FilesCalm, row, files, work
<1>Item. \A i \in Uploads : i \in Item
  BY LibraryAssumption
<1>Touching. \A i \in Item : Request("touch", i).op = "touch" /\ Request("touch", i).item = i
  BY DEF Request
<1>ReadChunk. ASSUME NEW i \in Item, ReadChunk(i) PROVE  WholeInv'
  <2> DEFINE new == [Request("write", i) EXCEPT !.part = received[i] + 1]
  <2>1. new.op = "write" /\ new.item = i /\ i \in Uploads /\ state[i] # "NONE"
    BY <1>ReadChunk DEF ReadChunk, Request
  <2>2. calls' = calls \union {new} /\ UNCHANGED <<row, files, work>>
    BY <1>ReadChunk DEF ReadChunk, Admit
  <2> HIDE DEF new
  <2>3. UploadInv'
    BY <2>1, <2>2, <1>Item, <1>Touching
    DEF WholeInv, UploadInv, ChunksAreUploads, NothingBefore,
        CountedIsThere, CountsTheWritten, Unstarted, Writes, row, files
  <2> QED
    BY <2>2, <2>3 DEF WholeInv, VerifiedIsCounted, FetchedIsWhole, PublishedIsWhole,
        row, files, work
<1>CreateRow. ASSUME NEW c \in calls, CreateRow(c) PROVE  WholeInv'
  <2>1. /\ c.item \in Item /\ state[c.item] = "NONE"
        /\ state' = [state EXCEPT ![c.item] = "RECEIVING"]
        /\ \A i \in Item \ {c.item} : sized'[i] = sized[i]
        /\ UNCHANGED <<received, files, work>>
    BY <1>CreateRow DEF CreateRow, TypeInv, TypeOK, Call
  <2>2. PICK new : /\ calls' = (calls \ {c}) \union {new}
                   /\ \/ new = Request("touch", c.item) /\ c.item \in Uploads
                      \/ new.op = "job"
    <3>1. Request("job", c.item).op = "job"
      BY DEF Request
    <3>2. /\ c.item \in Uploads => calls' = (calls \ {c}) \union {Request("touch", c.item)}
          /\ c.item \notin Uploads => calls' = (calls \ {c}) \union {Request("job", c.item)}
      BY <1>CreateRow DEF CreateRow
    <3> QED
      BY <3>1, <3>2
  <2>3. ChunksAreUploads'
    <3>1. \A i \in Item : state[i] # "NONE" \/ i = c.item => state'[i] # "NONE"
      BY <2>1 DEF TypeInv, TypeOK
    <3> QED
      BY <2>1, <2>2, <3>1, <1>Touching, <1>Item
      DEF WholeInv, UploadInv, ChunksAreUploads
  <2>4. NothingBefore'
    <3>1. \A i \in Uploads : Unstarted(i)' => Unstarted(i)
      BY <2>1, <2>2, <1>Item, <1>Touching DEF Unstarted, TypeInv, TypeOK
    <3> QED
      BY <2>1, <2>2, <3>1, <1>Touching DEF WholeInv, UploadInv, NothingBefore, Writes, files
  <2>5. CountedIsThere' /\ CountsTheWritten'
    BY <2>1, <2>2, <1>Touching DEF WholeInv, UploadInv, CountedIsThere, CountsTheWritten, files
  <2>6. VerifiedIsCounted' /\ FetchedIsWhole' /\ PublishedIsWhole'
    BY <2>1, <1>Item
    DEF WholeInv, VerifiedIsCounted, FetchedIsWhole, PublishedIsWhole, files, work,
        TypeInv, TypeOK
  <2> QED
    BY <2>3, <2>4, <2>5, <2>6 DEF WholeInv, UploadInv
<1>Touch. ASSUME NEW c \in calls, Touch(c) PROVE  WholeInv'
  <2>1. c.item \in Uploads /\ c = Request("touch", c.item) /\ state[c.item] # "NONE"
    BY <1>Touch DEF Touch, WholeInv, UploadInv, ChunksAreUploads
  <2>2. received[c.item] = 0 /\ \A d \in calls : ~ Writes(d, c.item)
    BY <2>1 DEF WholeInv, UploadInv, NothingBefore, Unstarted
  <2>3. /\ partial' = [partial EXCEPT ![c.item] = {}] /\ calls' = calls \ {c}
        /\ UNCHANGED <<row, place, work>>
    BY <1>Touch DEF Touch, Return
  <2>4. \A i \in Item \ {c.item} : partial'[i] = partial[i]
    BY <2>3 DEF TypeInv, TypeOK
  <2>5. ChunksAreUploads'
    BY <2>3 DEF WholeInv, UploadInv, ChunksAreUploads, row
  <2>6. NothingBefore'
    BY <2>1, <2>3, <2>4, <1>Item DEF WholeInv, UploadInv, NothingBefore, Unstarted, Writes, row
  <2>7. CountedIsThere'
    <3>1. 1 .. 0 = {}
      OBVIOUS
    <3> QED
      BY <2>2, <2>3, <2>4, <3>1, <1>Item DEF WholeInv, UploadInv, CountedIsThere, row
  <2>8. CountsTheWritten'
    BY <2>2, <2>3, <2>4 DEF WholeInv, UploadInv, CountsTheWritten, Writes, TypeInv, TypeOK, Call
  <2>9. VerifiedIsCounted' /\ FetchedIsWhole' /\ PublishedIsWhole'
    BY <2>1, <2>3, <2>4, <1>Item
    DEF WholeInv, VerifiedIsCounted, FetchedIsWhole, PublishedIsWhole,
        row, work
  <2> QED
    BY <2>5, <2>6, <2>7, <2>8, <2>9 DEF WholeInv, UploadInv
<1>WriteChunk. ASSUME NEW c \in calls, WriteChunk(c) PROVE  WholeInv'
  <2> DEFINE next == [c EXCEPT !.op = "count"]
  <2>1. c \in Call /\ c.item \in Item
    BY DEF TypeInv, TypeOK, Call
  <2>2. next.op = "count" /\ next.item = c.item /\ next.part = c.part
    BY <2>1 DEF Call
  <2>3. c.item \in Uploads /\ state[c.item] # "NONE" /\ c.op = "write" /\ partial[c.item] # NoFile
    BY <1>WriteChunk DEF WriteChunk, WholeInv, UploadInv, ChunksAreUploads
  <2>4. /\ calls' = (calls \ {c}) \union {next}
        /\ partial' = [partial EXCEPT ![c.item] = partial[c.item] \union {c.part}]
        /\ UNCHANGED <<row, place, work>>
    BY <1>WriteChunk DEF WriteChunk, Continue
  <2> HIDE DEF next
  <2>5. /\ partial'[c.item] = partial[c.item] \union {c.part}
        /\ \A i \in Item \ {c.item} : partial'[i] = partial[i]
    BY <2>1, <2>4 DEF TypeInv, TypeOK
  <2>6. ChunksAreUploads'
    BY <2>2, <2>3, <2>4 DEF WholeInv, UploadInv, ChunksAreUploads, row
  <2>7. NothingBefore'
    BY <2>2, <2>3, <2>4, <2>5, <1>Item, <1>Touching
    DEF WholeInv, UploadInv, NothingBefore, Unstarted, Writes, row
  <2>8. CountedIsThere'
    BY <2>3, <2>4, <2>5, <1>Item DEF WholeInv, UploadInv, CountedIsThere, row
  <2>9. CountsTheWritten'
    BY <2>2, <2>3, <2>4, <2>5 DEF WholeInv, UploadInv, CountsTheWritten, TypeInv, TypeOK, Call
  <2>10. VerifiedIsCounted' /\ FetchedIsWhole' /\ PublishedIsWhole'
    BY <2>3, <2>4, <2>5, <1>Item
    DEF WholeInv, VerifiedIsCounted, FetchedIsWhole, PublishedIsWhole,
        row, work
  <2> QED
    BY <2>6, <2>7, <2>8, <2>9, <2>10 DEF WholeInv, UploadInv
<1>CountChunk. ASSUME NEW c \in calls, CountChunk(c) PROVE  WholeInv'
  <2>1. /\ c.op = "count" /\ c.item \in Uploads /\ c.item \in Item /\ state[c.item] # "NONE"
        /\ c.part \in Part
        /\ partial[c.item] = NoFile \/ c.part \in partial[c.item]
    BY <1>CountChunk, <1>Item
    DEF CountChunk, WholeInv, UploadInv, ChunksAreUploads, CountsTheWritten,
        TypeInv, WritesParts, CarriesPart
  <2>2. CASE ~ (state[c.item] = "RECEIVING" /\ AtOffset(c))
    <3>1. Return(c) /\ UNCHANGED <<row, files, work>>
      BY <1>CountChunk, <2>2 DEF CountChunk, row
    <3> QED
      BY <3>1, CallsStayCalm, RunsStayCalm, CalmKeeps
      DEF Calm, RowsCalm, FilesCalm, row, files, work
  <2>3. CASE state[c.item] = "RECEIVING" /\ AtOffset(c)
    <3>1. /\ received[c.item] = c.part - 1
          /\ received' = [received EXCEPT ![c.item] = c.part]
          /\ state' = IF c.part = Parts THEN [state EXCEPT ![c.item] = "VERIFYING"] ELSE state
          /\ UNCHANGED <<sized, files, work>>
      BY <1>CountChunk, <2>3 DEF CountChunk, AtOffset, IsLast
    <3>2. \A d \in calls' : d \in calls \/ d.op = "job"
      <4>1. [c EXCEPT !.op = "job"].op = "job"
        BY DEF TypeInv, TypeOK, Call
      <4> QED
        BY <1>CountChunk, <2>3, <4>1 DEF CountChunk, Continue, Return
    <3>3. /\ received'[c.item] = c.part
          /\ \A i \in Item \ {c.item} : received'[i] = received[i] /\ state'[i] = state[i]
          /\ state'[c.item] \in {"RECEIVING", "VERIFYING"}
          /\ state'[c.item] = "VERIFYING" => c.part = Parts
      BY <2>1, <2>3, <3>1 DEF TypeInv, TypeOK
    <3>4. ~ Unstarted(c.item)
      BY <2>1 DEF WholeInv, UploadInv, NothingBefore, Writes
    <3>5. ChunksAreUploads'
      BY <3>2, <3>3, <1>Item DEF WholeInv, UploadInv, ChunksAreUploads
    <3>6. NothingBefore'
      BY <3>1, <3>2, <3>3, <3>4, <1>Item, <1>Touching
      DEF WholeInv, UploadInv, NothingBefore, Unstarted, Writes, files
    <3>7. CountedIsThere'
      <4>1. 1 .. c.part = (1 .. (c.part - 1)) \union {c.part}
        BY <2>1, LibraryAssumption DEF Part
      <4>2. partial[c.item] # NoFile => 1 .. c.part \subseteq partial[c.item]
        BY <2>1, <3>1, <4>1 DEF WholeInv, UploadInv, CountedIsThere
      <4> QED
        BY <3>1, <3>3, <4>2, <1>Item DEF WholeInv, UploadInv, CountedIsThere, files
    <3>8. CountsTheWritten'
      BY <3>1, <3>2 DEF WholeInv, UploadInv, CountsTheWritten, files
    <3>9. VerifiedIsCounted'
      <4>1. run[c.item].pc \notin Verifying
        BY <2>1, <3>1, LibraryAssumption DEF WholeInv, VerifiedIsCounted, Part
      <4> QED
        BY <3>1, <3>3, <4>1, <1>Item DEF WholeInv, VerifiedIsCounted, work
    <3>10. FetchedIsWhole' /\ PublishedIsWhole'
      BY <3>1, <3>3 DEF WholeInv, FetchedIsWhole, PublishedIsWhole, files, work
    <3> QED
      BY <3>5, <3>6, <3>7, <3>8, <3>9, <3>10 DEF WholeInv, UploadInv
  <2> QED
    BY <2>2, <2>3
<1>Download. ASSUME NEW i \in Item, Download(i) PROVE  WholeInv'
  <2>1. i \notin Uploads
    BY <1>Download DEF Download, WholeInv, VerifiedIsCounted, Fetching
  <2>2. \A k \in Item \ {i} : run'[k] = run[k] /\ partial'[k] = partial[k]
    BY <1>Download, GoesTo, LeavesTo, Names DEF Download, TypeInv, TypeOK
  <2>3. run'[i].pc \in Fetched => partial'[i] = Part
    <3>1. \A exit : Leave(i, exit) => run'[i].pc = "clean"
      BY LeavesTo
    <3> QED
      BY <1>Download, <3>1 DEF Download, Fetched, TypeInv, TypeOK
  <2>4. UploadInv'
    BY <1>Download, <2>1, <2>2, <1>Item
    DEF Download, WholeInv, UploadInv, ChunksAreUploads, NothingBefore, CountedIsThere,
        CountsTheWritten, Unstarted, Writes, row, TypeInv, TypeOK, Call
  <2> QED
    BY <1>Download, <2>1, <2>2, <2>3, <2>4, <1>Item
    DEF Download, WholeInv, VerifiedIsCounted, FetchedIsWhole, PublishedIsWhole, row
<1>Received. ASSUME NEW i \in Item, Received(i) PROVE  WholeInv'
  <2>1. i \notin Uploads
    BY <1>Received DEF Received, WholeInv, VerifiedIsCounted, Fetching
  <2>2. CASE state[i] = "GONE"
    BY <1>Received, <2>2, RunsStayCalm, CalmKeeps
    DEF Received, Calm, CallsCalm, RowsCalm, FilesCalm,
        files
  <2>3. CASE state[i] # "GONE"
    <3>1. /\ \A k \in Item \ {i} : /\ state'[k] = state[k] /\ sized'[k] = sized[k]
                                   /\ received'[k] = received[k] /\ run'[k] = run[k]
          /\ state'[i] = "VERIFYING"
          /\ UNCHANGED <<files, calls>>
      BY <1>Received, <2>3, GoesTo, Names DEF Received, TypeInv, TypeOK
    <3>2. UploadInv'
      BY <2>1, <3>1, <1>Item
      DEF WholeInv, UploadInv, ChunksAreUploads, NothingBefore, CountedIsThere,
          CountsTheWritten, Unstarted, Writes, files
    <3>3. FetchedIsWhole'
      BY <1>Received, <3>1 DEF Received, WholeInv, FetchedIsWhole, Fetched, files
    <3> QED
      BY <2>1, <3>1, <3>2, <3>3, <1>Item
      DEF WholeInv, VerifiedIsCounted, PublishedIsWhole, files
  <2> QED
    BY <2>2, <2>3
<1>Rename. ASSUME NEW i \in Item, Rename(i) PROVE  WholeInv'
  <2>1. RunsCalm
    BY <1>Rename, GoesCalmly, RunsStayCalm, Names DEF Rename, Verifying, Fetching, Fetched
  <2>2. CASE partial[i] = NoFile
    BY <1>Rename, <2>1, <2>2, CalmKeeps DEF Rename, Calm, CallsCalm, RowsCalm, FilesCalm, row
  <2>3. CASE partial[i] # NoFile
    <3>1. partial[i] = Part
      <4>1. CASE i \in Uploads
        <5>1. received[i] = Parts
          BY <1>Rename, <4>1 DEF Rename, WholeInv, VerifiedIsCounted, Verifying
        <5>2. partial[i] \subseteq Part
          BY <2>3 DEF TypeInv, TypeOK, File
        <5> QED
          BY <2>3, <4>1, <5>1, <5>2 DEF WholeInv, UploadInv, CountedIsThere, Part
      <4>2. CASE i \notin Uploads
        BY <1>Rename, <2>3, <4>2 DEF Rename, WholeInv, FetchedIsWhole, Fetched
      <4> QED
        BY <4>1, <4>2
    <3>2. /\ \A k \in Item : partial'[k] \in {partial[k], NoFile}
          /\ \A k \in Item : place'[k] \in {place[k], Part}
      BY <1>Rename, <2>3, <3>1 DEF Rename, TypeInv, TypeOK
    <3>3. UploadInv'
      BY <1>Rename, <3>2, <1>Item
      DEF Rename, WholeInv, UploadInv, ChunksAreUploads, NothingBefore, CountedIsThere,
          CountsTheWritten, Unstarted, Writes, row, TypeInv, TypeOK, Call
    <3>4. VerifiedIsCounted' /\ FetchedIsWhole'
      BY <1>Rename, <2>1, <3>2, <1>Item DEF Rename, WholeInv, VerifiedIsCounted, FetchedIsWhole,
          RunsCalm, row
    <3>5. PublishedIsWhole'
      BY <1>Rename, <3>2 DEF Rename, WholeInv, PublishedIsWhole, row
    <3> QED
      BY <3>3, <3>4, <3>5 DEF WholeInv
  <2> QED
    BY <2>2, <2>3
<1>Ready. ASSUME NEW i \in Item, Ready(i) PROVE  WholeInv'
  <2>1. RunsCalm
    BY <1>Ready, GoesCalmly, RunsStayCalm, Names DEF Ready, Verifying, Fetching, Fetched
  <2>2. CASE state[i] = "GONE"
    BY <1>Ready, <2>1, <2>2, CalmKeeps DEF Ready, Calm, CallsCalm, RowsCalm, FilesCalm, files
  <2>3. CASE state[i] # "GONE"
    <3>1. /\ \A k \in Item \ {i} : /\ state'[k] = state[k] /\ sized'[k] = sized[k]
                                   /\ received'[k] = received[k]
          /\ state'[i] = "READY" /\ sized'[i] /\ received'[i] = Parts
          /\ UNCHANGED <<files, calls>>
      BY <1>Ready, <2>3 DEF Ready, TypeInv, TypeOK
    <3>2. i \in Uploads => received[i] = Parts /\ Parts # 0
      BY <1>Ready, LibraryAssumption DEF Ready, WholeInv, VerifiedIsCounted, Verifying
    <3>3. UploadInv'
      BY <3>1, <3>2, <1>Item
      DEF WholeInv, UploadInv, ChunksAreUploads, NothingBefore, CountedIsThere,
          CountsTheWritten, Unstarted, Writes, files
    <3>4. VerifiedIsCounted' /\ FetchedIsWhole'
      BY <2>1, <3>1, <3>2, <1>Item
      DEF WholeInv, VerifiedIsCounted, FetchedIsWhole, RunsCalm, files
    <3>5. PublishedIsWhole'
      BY <3>1 DEF WholeInv, PublishedIsWhole, files
    <3> QED
      BY <3>3, <3>4, <3>5 DEF WholeInv
  <2> QED
    BY <2>2, <2>3
<1> QED
  BY <1>0, <1>StartUpload, <1>AddFetched, <1>ReadChunk, <1>Abandon, <1>Remove, <1>Push,
     <1>CancelQueued, <1>Claim, <1>Load, <1>LinkRun, <1>Fit, <1>Size, <1>Download,
     <1>Received, <1>HashUpload, <1>Check, <1>Publish, <1>Rename, <1>Ready, <1>Report,
     <1>Throw, <1>Lost, <1>CleanFile, <1>CleanLook, <1>CleanRow, <1>End, <1>PushStep,
     <1>Reconcile, <1>CleanFails, <1>Silence, <1>Age, <1>SweepTransfer, <1>SweepLostFile,
     <1>SweepLostRow, <1>SweepOldFile, <1>SweepOldRow, <1>SweepPartial, <1>SweepItem,
     <1>SweepStat, <1>SweepMissing, <1>CreateRow, <1>Touch, <1>MakeJob, <1>NoRow, <1>Undo,
     <1>Link, <1>WriteChunk, <1>ChunkFails, <1>CountChunk, <1>AbandonFile, <1>AbandonRow,
     <1>RemoveItemFile, <1>RemovePartial, <1>RemoveRow, <1>MakePush, <1>NoJob, <1>CallLost,
     <1>SweepBegins, <1>SweepUploads, <1>SweepRows, <1>SweepPartials, <1>SweepItems,
     <1>SweepReady, <1>SweepEnds, <1>Crash DEF Next, User, Api, Transfer, Sweep

\* An empty library is whole.
THEOREM WholeInit == Init => WholeInv
BY LibraryAssumption
DEF Init, Idle, WholeInv, UploadInv, ChunksAreUploads, NothingBefore, CountedIsThere,
    CountsTheWritten, VerifiedIsCounted, FetchedIsWhole, PublishedIsWhole, Unstarted, Writes,
    Verifying, Fetching, Fetched

\* "READY requires a checksum, a size, and every byte received": whatever is published
\* has every part, for any number of requests, chunks sent twice, dropped or raced by
\* cleanups, the sweep and crashes.
THEOREM PublishedHasAll == Spec => []PublishedIsWhole
<1>1. TypeInv /\ WholeInv /\ [Next]_vars => TypeInv' /\ WholeInv'
  BY TypeStep, WholeStep
<1>2. WholeInv => PublishedIsWhole
  BY DEF WholeInv
<1> QED
  BY TypeInit, WholeInit, <1>1, <1>2, PTL DEF Spec

-----------------------------------------------------------------------------
(* The sweep keeps off what is fetched                                     *)
(*                                                                         *)
(* The sweep looks at a job, a row or a directory and acts on what it saw  *)
(* some steps later.  What is proved by induction is that what it saw of a *)
(* fetched item cannot change back meanwhile, and that a file it found     *)
(* without a row is either young or nobody's.                              *)

\* A fetched item has one job in its life, so a transfer that is over does not come back.
\* An item is behind when no step of its transfer can put it in flight again: the job has
\* ended, or will not find the row, or is past what it fetches.
Early     == {"load", "link", "fit", "size", "bytes", "received"}
Behind(i) ==
  \/ state[i] = "GONE"
  \/ job[i] \in Ended
  \/ job[i] = "RUNNING" /\ state[i] \in {"READY", "FAILED"} /\ run[i].pc \notin Early

\* Nobody uploads to it, and its job is asked for once.
AsksFit(i) ==
  \A c \in calls : c.item = i =>
    /\ c.op \notin {"touch", "write", "count", "unlink", "unrow"}
    /\ c.op = "job" => c = Request("job", i) /\ job[i] = "NONE"
    /\ c.op = "link" => job[i] # "NONE"
    /\ state[i] = "NONE" => c.op = "create"

\* What a row that is linked or a run that is under way says of the job.
JobFits(i) ==
  /\ state[i] = "NONE" => job[i] = "NONE" /\ partial[i] = NoFile
  /\ linked[i] => job[i] # "NONE"
  /\ run[i].pc # "idle" => job[i] \notin {"NONE", "QUEUED"}
  /\ state[i] \in {"READY", "FAILED"} => Behind(i)

\* What the sweep knows of the item: that its transfer is over, or that the file can only
\* have been begun after the sweep.
SweepFits(i) ==
  /\ sweep.pc = "transfers" => (i \in sweep.todo => job[i] # "NONE")
  /\ sweep.pc \in {"lost-file", "lost-row"} =>
       (i \in sweep.todo => job[i] # "NONE") /\ (i \in sweep.at => job[i] \in Ended)
  /\ sweep.pc \in {"uploads", "old-row"} => i \notin sweep.todo /\ i \notin sweep.at
  /\ sweep.pc \in {"rows", "partials"} =>
       /\ sweep.known[i] \in {"READY", "FAILED", "GONE"} => Behind(i)
       /\ sweep.known[i] = "NONE" /\ partial[i] # NoFile => fresh[i]
  /\ sweep.pc \in {"ready", "missing"} => (i \in sweep.todo \/ i \in sweep.at => Behind(i))

SpareAt(i) == AsksFit(i) /\ JobFits(i) /\ SweepFits(i)
SpareInv   == \A i \in Item \ Uploads : SpareAt(i)

\* What a request may do: end, be new, or go on; it asks for a job only if there was none.
Plain == {"create", "undo", "rm-item", "rm-partial", "delete", "push"}
AsksKept(i) ==
  \A c \in calls' : c.item = i =>
    \/ c \in calls /\ (c.op = "job" => job'[i] = job[i])
    \/ c.op \in Plain /\ (c.op = "create" \/ state'[i] # "NONE")
    \/ c = Request("job", i) /\ job'[i] = "NONE" /\ state'[i] # "NONE"
    \/ c.op = "link" /\ job'[i] # "NONE" /\ state'[i] # "NONE"

\* What a step may do to a fetched item.
Steady(i) ==
  /\ state'[i] = "NONE" => state[i] = "NONE"
  /\ job'[i] = "NONE" => job[i] = "NONE"
  /\ state'[i] = "NONE" => job'[i] = job[i]
  /\ job[i] \in Ended => job'[i] \in Ended
  /\ Behind(i) \/ state'[i] \in {"READY", "FAILED"} => Behind(i)'
  /\ linked'[i] => linked[i] \/ job[i] # "NONE"
  /\ run'[i].pc # "idle" => job'[i] \notin {"NONE", "QUEUED"}
  /\ partial'[i] \in {partial[i], NoFile} \/ (fresh'[i] /\ job[i] # "NONE")
  /\ fresh[i] => fresh'[i] \/ sweep.pc = "idle"

\* One that leaves the item alone, but for its files, which may be removed.
Same(i) ==
  /\ state'[i] = state[i] /\ linked'[i] = linked[i] /\ job'[i] = job[i] /\ run'[i] = run[i]
  /\ partial'[i] \in {partial[i], NoFile} /\ fresh'[i] = fresh[i]

LEMMA SameIsSteady ==
  ASSUME NEW i \in Item \ Uploads, SpareAt(i), Same(i)
  PROVE  Steady(i)
<1>1. Behind(i)' <=> Behind(i)
  BY DEF Same, Behind
<1> QED
  BY <1>1 DEF Same, Steady, SpareAt, JobFits

\* Steps like that keep what is known of the item, and the sweep what it knows.
LEMMA SpareKept ==
  ASSUME NEW i \in Item \ Uploads, SpareAt(i), AsksKept(i), Steady(i),
         sweep' = sweep \/ SweepFits(i)'
  PROVE  SpareAt(i)'
<1>1. AsksFit(i)'
  <2> SUFFICES ASSUME NEW c \in calls', c.item = i
               PROVE  /\ c.op \notin {"touch", "write", "count", "unlink", "unrow"}
                      /\ c.op = "job" => c = Request("job", i) /\ job'[i] = "NONE"
                      /\ c.op = "link" => job'[i] # "NONE"
                      /\ state'[i] = "NONE" => c.op = "create"
    BY DEF AsksFit, Request
  <2>1. Request("job", i).op = "job"
    BY DEF Request
  <2> QED
    BY <2>1 DEF SpareAt, AsksFit, AsksKept, Steady, Plain
<1>2. JobFits(i)'
  BY DEF SpareAt, JobFits, Steady
<1>3. SweepFits(i)'
  BY DEF SpareAt, SweepFits, JobFits, Steady
<1> QED
  BY <1>1, <1>2, <1>3 DEF SpareAt

\* A step that leaves the requests alone, and the jobs of those who may still be asked.
LEMMA QuietAsks ==
  ASSUME NEW i \in Item \ Uploads, SpareAt(i), calls' \subseteq calls,
         job'[i] = job[i] \/ job[i] # "NONE"
  PROVE  AsksKept(i)
BY DEF SpareAt, AsksFit, AsksKept

\* A request that goes on to something else than the job.
LEMMA AsksGoOn ==
  ASSUME TypeInv, NEW i \in Item \ Uploads, SpareAt(i), NEW c \in calls, NEW op, Continue(c, op),
         job'[i] = job[i], c.item = i => op \in Plain /\ state'[i] # "NONE"
  PROVE  AsksKept(i)
<1>1. [c EXCEPT !.op = op].op = op /\ [c EXCEPT !.op = op].item = c.item
  BY DEF TypeInv, TypeOK, Call
<1> QED
  BY <1>1 DEF AsksKept, Continue

\* A new request.
LEMMA AsksGrow ==
  ASSUME NEW i \in Item \ Uploads, SpareAt(i), NEW c, Admit(c), job'[i] = job[i],
         c.item = i => c.op \in Plain /\ (c.op = "create" \/ state'[i] # "NONE")
  PROVE  AsksKept(i)
BY DEF AsksKept, Admit

\* A step of one item that leaves the requests and the sweep where they are.
LEMMA OneItemSpares ==
  ASSUME SpareInv, NEW k \in Item, calls' \subseteq calls, sweep' = sweep,
         job'[k] = job[k] \/ job[k] # "NONE",
         k \notin Uploads => Steady(k), \A i \in Item \ {k} : Same(i)
  PROVE  SpareInv'
<1> SUFFICES ASSUME NEW i \in Item \ Uploads PROVE SpareAt(i)'
  BY DEF SpareInv
<1>1. SpareAt(i)
  BY DEF SpareInv
<1>2. Steady(i)
  BY <1>1, SameIsSteady
<1>3. AsksKept(i)
  BY <1>1, QuietAsks DEF Same
<1> QED
  BY <1>1, <1>2, <1>3, SpareKept

\* What is asked of the API.
LEMMA UserSpares ==
  ASSUME TypeInv, SpareInv, NEW k \in Item,
         \/ StartUpload(k) \/ AddFetched(k) \/ ReadChunk(k) \/ Abandon(k) \/ Remove(k) \/ Push(k)
  PROVE  SpareInv'
<1> SUFFICES ASSUME NEW i \in Item \ Uploads PROVE SpareAt(i)'
  BY DEF SpareInv
<1>1. SpareAt(i) /\ sweep' = sweep
  BY DEF SpareInv, StartUpload, AddFetched, ReadChunk, Abandon, Remove, Push
<1>2. Same(i) /\ state' = state
  BY DEF Same, StartUpload, AddFetched, ReadChunk, Abandon, Remove, Push, row, files, work
<1>3. PICK c : /\ Admit(c)
               /\ c.item = i => c.op \in Plain /\ (c.op = "create" \/ state[i] # "NONE")
  <2>1. CASE StartUpload(k) \/ ReadChunk(k)
    <3>1. PICK c : Admit(c) /\ c.item \in Uploads
      BY <2>1 DEF StartUpload, ReadChunk, Request
    <3> QED
      BY <3>1
  <2>2. CASE AddFetched(k)
    <3>1. PICK c : Admit(c) /\ c.op = "create"
      BY <2>2 DEF AddFetched, Request
    <3> QED
      BY <3>1 DEF Plain
  <2>3. CASE Abandon(k)
    <3>1. Admit(Request("unlink", k)) /\ Request("unlink", k).item = k /\ k \in Uploads
      BY <2>3 DEF Abandon, Request
    <3> QED
      BY <3>1
  <2>4. CASE Remove(k)
    <3>1. /\ Admit(Request("rm-item", k)) /\ state[k] # "NONE"
          /\ Request("rm-item", k).op = "rm-item" /\ Request("rm-item", k).item = k
      BY <2>4 DEF Remove, STATES, Request
    <3> QED
      BY <3>1 DEF Plain
  <2>5. CASE Push(k)
    <3>1. /\ Admit(Request("push", k)) /\ state[k] # "NONE"
          /\ Request("push", k).op = "push" /\ Request("push", k).item = k
      BY <2>5 DEF Push, Request
    <3> QED
      BY <3>1 DEF Plain
  <2> QED
    BY <2>1, <2>2, <2>3, <2>4, <2>5
<1> QED
  BY <1>1, <1>2, <1>3, AsksGrow, SameIsSteady, SpareKept DEF Same

\* What becomes of it.  What is done for a chunk, or to abandon one, is about an upload.
LEMMA ApiSpares ==
  ASSUME TypeInv, SpareInv, NEW c \in calls, Api(c) \/ NoJob(c) \/ CallLost(c)
  PROVE  SpareInv'
<1> SUFFICES ASSUME NEW i \in Item \ Uploads PROVE SpareAt(i)'
  BY DEF SpareInv
<1>0. SpareAt(i) /\ c.item \in Item /\ state \in [Item -> ItemState] /\ job \in [Item -> JobState]
      /\ partial \in [Item -> File] /\ linked \in [Item -> BOOLEAN] /\ fresh \in [Item -> BOOLEAN]
  BY DEF SpareInv, TypeInv, TypeOK, Call
<1>1. /\ c.item = i => c.op \notin {"touch", "write", "count", "unlink", "unrow"}
      /\ c.item = i /\ c.op # "create" => state[i] # "NONE"
  BY <1>0 DEF SpareAt, AsksFit
<1>2. sweep' = sweep
  BY DEF Api, NoJob, CallLost, CreateRow, Touch, MakeJob, NoRow, Undo, Link, WriteChunk,
     ChunkFails, CountChunk, AbandonFile, AbandonRow, RemoveItemFile, RemovePartial, RemoveRow,
     MakePush
<1>3. CASE NoRow(c) \/ ChunkFails(c) \/ MakePush(c) \/ CallLost(c)
  <2>1. Return(c) /\ Same(i)
    BY <1>3 DEF Same, NoRow, ChunkFails, MakePush, CallLost, row, files, work
  <2> QED
    BY <1>0, <1>2, <2>1, QuietAsks, SameIsSteady, SpareKept DEF Same, Return
<1>4. CASE RemoveItemFile(c) \/ RemovePartial(c) \/ AbandonFile(c)
  <2>1. Same(i)
    BY <1>0, <1>4 DEF Same, RemoveItemFile, RemovePartial, AbandonFile, row, work
  <2>2. PICK op : Continue(c, op) /\ (c.item = i => op \in Plain)
    BY <1>1, <1>4 DEF RemoveItemFile, RemovePartial, AbandonFile, Plain
  <2>3. c.item = i => state'[i] # "NONE"
    BY <1>1, <1>4, <2>1 DEF Same, RemoveItemFile, RemovePartial, AbandonFile
  <2> QED
    BY <1>0, <1>2, <2>1, <2>2, <2>3, AsksGoOn, SameIsSteady, SpareKept DEF Same
<1>5. CASE Undo(c) \/ RemoveRow(c) \/ AbandonRow(c)
  <2>1. /\ Return(c) /\ linked' = linked /\ job' = job /\ run' = run /\ partial' = partial
        /\ fresh' = fresh /\ state'[i] \in {state[i], "GONE"}
    BY <1>0, <1>5 DEF Undo, RemoveRow, AbandonRow, files, work
  <2>2. Steady(i)
    BY <1>0, <2>1 DEF Steady, Behind, SpareAt, JobFits
  <2> QED
    BY <1>0, <1>2, <2>1, <2>2, QuietAsks, SpareKept DEF Return
<1>6. CASE Touch(c) \/ WriteChunk(c) \/ CountChunk(c)
  <2>1. c.item # i
    BY <1>1, <1>6 DEF Touch, WriteChunk, CountChunk
  <2>2. Same(i)
    BY <1>0, <1>6, <2>1 DEF Same, Touch, WriteChunk, CountChunk, row, files, work
  <2>3. Return(c) \/ \E op : Continue(c, op)
    BY <1>6 DEF Touch, WriteChunk, CountChunk
  <2> QED
    BY <1>0, <1>2, <2>1, <2>2, <2>3, QuietAsks, AsksGoOn, SameIsSteady, SpareKept
    DEF Same, Return
<1>7. CASE CreateRow(c)
  <2>1. /\ state' = [state EXCEPT ![c.item] = "RECEIVING"] /\ state[c.item] = "NONE"
        /\ linked' = linked /\ job' = job /\ run' = run /\ partial' = partial /\ fresh' = fresh
    BY <1>7 DEF CreateRow, files, work
  <2>2. Steady(i)
    BY <1>0, <2>1 DEF Steady, Behind, SpareAt, JobFits
  <2>3. PICK new : /\ calls' = (calls \ {c}) \union {new}
                   /\ new.item = i => new = Request("job", i) /\ c.item = i
    <3>1. CASE c.item \in Uploads
      <4>1. Request("touch", c.item).item # i
        BY <3>1 DEF Request
      <4> QED
        BY <1>7, <3>1, <4>1 DEF CreateRow
    <3>2. CASE c.item \notin Uploads
      <4>1. Request("job", c.item).item = c.item
        BY DEF Request
      <4> QED
        BY <1>7, <3>2, <4>1 DEF CreateRow
    <3> QED
      BY <3>1, <3>2
  <2>4. AsksKept(i)
    BY <1>0, <2>1, <2>3 DEF AsksKept, SpareAt, JobFits
  <2> QED
    BY <1>0, <1>2, <2>2, <2>4, SpareKept
<1>8. CASE MakeJob(c) \/ NoJob(c)
  <2>1. PICK op \in {"link", "undo"} :
          /\ Continue(c, op) /\ c.op = "job"
          /\ state' = state /\ linked' = linked /\ run' = run /\ partial' = partial
          /\ fresh' = fresh /\ \A k \in Item \ {c.item} : job'[k] = job[k]
          /\ op = "link" => job'[c.item] = "QUEUED"
          /\ op = "undo" => job'[c.item] \in {job[c.item], "FAILED"}
    BY <1>0, <1>8 DEF MakeJob, NoJob, row, files
  <2>2. CASE c.item # i
    BY <1>0, <1>2, <2>1, <2>2, AsksGoOn, SameIsSteady, SpareKept DEF Same
  <2>3. CASE c.item = i
    <3>1. job[i] = "NONE" /\ c = Request("job", i) /\ state[i] # "NONE"
      BY <1>0, <2>1, <2>3 DEF SpareAt, AsksFit
    <3>2. Steady(i)
      BY <1>0, <2>1, <2>3, <3>1 DEF Steady, Behind, SpareAt, JobFits, Ended
    <3>3. [c EXCEPT !.op = op].op = op
      BY DEF TypeInv, TypeOK, Call
    <3>4. AsksKept(i)
      BY <1>0, <2>1, <2>3, <3>1, <3>3 DEF AsksKept, SpareAt, AsksFit, Continue, Plain
    <3> QED
      BY <1>0, <1>2, <3>2, <3>4, SpareKept
  <2> QED
    BY <2>2, <2>3
<1>9. CASE Link(c)
  <2>1. /\ Return(c) /\ state' = state /\ job' = job /\ run' = run /\ partial' = partial
        /\ fresh' = fresh /\ (c.item # i => linked'[i] = linked[i]) /\ c.op = "link"
    BY <1>0, <1>9 DEF Link, files, work
  <2>2. c.item = i => job[i] # "NONE"
    BY <1>0, <2>1 DEF SpareAt, AsksFit
  <2>3. Steady(i)
    BY <1>0, <2>1, <2>2 DEF Steady, Behind, SpareAt, JobFits
  <2> QED
    BY <1>0, <1>2, <2>1, <2>3, QuietAsks, SpareKept DEF Return
<1> QED
  BY <1>3, <1>4, <1>5, <1>6, <1>7, <1>8, <1>9 DEF Api

\* How a run of a transfer goes on: to the clean-up out of any step of its own, never
\* back to fetching, and to what it has in hand only while its job has been claimed.
Onward(k) ==
  /\ run'[k].pc \in Early => run[k].pc \in Early \/ job[k] = "QUEUED"
  /\ \A i \in Item \ {k} : run'[i] = run[i]

LEMMA RunsGoOn ==
  ASSUME TypeInv, NEW k \in Item, Transfer(k) \/ CleanFails(k)
  PROVE  Onward(k)
<1>1. run \in [Item -> RunState] /\ run[k] \in RunState
  BY DEF TypeInv, TypeOK
<1>2. ASSUME NEW pc \in Pc, Go(k, pc), pc \in Early => run[k].pc \in Early \/ job[k] = "QUEUED"
      PROVE  Onward(k)
  BY <1>2, GoesTo DEF Onward
<1>3. ASSUME NEW exit, Leave(k, exit) PROVE Onward(k)
  BY <1>3, LeavesTo DEF Onward, Early
<1>4. CASE run' = [run EXCEPT ![k] = Idle]
  BY <1>1, <1>4 DEF Onward, Early, Idle
<1>5. CASE Claim(k) \/ Load(k) \/ LinkRun(k) \/ Fit(k) \/ Size(k)
  BY <1>2, <1>3, <1>4, <1>5, Names DEF Claim, Load, LinkRun, Fit, Size, Early
<1>6. CASE Download(k) \/ Received(k) \/ HashUpload(k) \/ Check(k) \/ Publish(k) \/ Rename(k)
  BY <1>2, <1>3, <1>4, <1>6, Names
  DEF Download, Received, HashUpload, Check, Publish, Rename, Early
<1>7. CASE Ready(k) \/ Throw(k) \/ Lost(k) \/ CleanFile(k) \/ CleanLook(k) \/ CleanRow(k)
           \/ CleanFails(k) \/ End(k)
  BY <1>2, <1>3, <1>4, <1>7, Names
  DEF Ready, Throw, Lost, CleanFile, CleanLook, CleanRow, CleanFails, End, Early
<1>8. CASE Report(k)
  <2> DEFINE r == [run[k] EXCEPT !.pc = "end", !.exit = "SUCCEEDED"]
  <2>1. r.pc = "end"
    BY <1>1 DEF RunState
  <2>2. run' = [run EXCEPT ![k] = r]
    BY <1>1, <1>8 DEF Report
  <2> HIDE DEF r
  <2> QED
    BY <1>1, <2>1, <2>2 DEF Onward, Early
<1> QED
  BY <1>5, <1>6, <1>7, <1>8 DEF Transfer

\* What a transfer does to its own item.
LEMMA TransferSpares ==
  ASSUME TypeInv, SpareInv, NEW k \in Item, Transfer(k) \/ CleanFails(k)
  PROVE  SpareInv'
<1>0. /\ state \in [Item -> ItemState] /\ job \in [Item -> JobState]
      /\ partial \in [Item -> File] /\ linked \in [Item -> BOOLEAN] /\ fresh \in [Item -> BOOLEAN]
  BY DEF TypeInv, TypeOK
<1>1. Onward(k)
  BY RunsGoOn
<1>2. calls' = calls /\ sweep' = sweep
  BY DEF Transfer, Claim, Load, LinkRun, Fit, Size, Download, Received, HashUpload, Check,
     Publish, Rename, Ready, Report, Throw, Lost, CleanFile, CleanLook, CleanRow, CleanFails,
     End
<1>3. run[k].pc # "idle" \/ Claim(k)
  BY DEF Transfer, Load, LinkRun, Fit, Size, Download, Received, HashUpload, Check, Publish,
     Rename, Ready, Report, Throw, Lost, CleanFile, CleanLook, CleanRow, CleanFails, End, Steps
<1>4. \A i \in Item \ {k} : Same(i)
  <2>1. SUFFICES ASSUME NEW i \in Item \ {k} PROVE Same(i)
    OBVIOUS
  <2>2. CASE Claim(k) \/ Load(k) \/ LinkRun(k) \/ Fit(k) \/ Size(k) \/ Download(k) \/ Received(k)
    BY <1>0, <1>1, <2>2
    DEF Onward, Same, Claim, Load, LinkRun, Fit, Size, Download, Received, row, files
  <2>3. CASE HashUpload(k) \/ Check(k) \/ Publish(k) \/ Rename(k) \/ Ready(k) \/ Report(k)
             \/ Throw(k) \/ Lost(k)
    BY <1>0, <1>1, <2>3
    DEF Onward, Same, HashUpload, Check, Publish, Rename, Ready, Report, Throw, Lost, row, files
  <2>4. CASE CleanFile(k) \/ CleanLook(k) \/ CleanRow(k) \/ CleanFails(k) \/ End(k)
    BY <1>0, <1>1, <2>4
    DEF Onward, Same, CleanFile, CleanLook, CleanRow, CleanFails, End, row, files
  <2> QED
    BY <2>2, <2>3, <2>4 DEF Transfer
<1>5. ASSUME k \notin Uploads PROVE Steady(k) /\ job[k] # "NONE"
  <2>1. /\ SpareAt(k) /\ job[k] # "NONE" /\ state[k] # "NONE"
        /\ run[k].pc # "idle" => job[k] \in {"RUNNING"} \union Ended
    <3>1. SpareAt(k)
      BY <1>5 DEF SpareInv
    <3>2. job[k] # "NONE"
      BY <1>3, <3>1 DEF SpareAt, JobFits, Claim
    <3> QED
      BY <1>0, <3>1, <3>2 DEF SpareAt, JobFits, JobState, Active, Ended
  <2>2. CASE Claim(k)
    <3>1. /\ job[k] = "QUEUED" /\ job'[k] = "RUNNING" /\ state' = state /\ linked' = linked
          /\ partial' = partial /\ fresh' = fresh
      BY <1>0, <2>2 DEF Claim, row, files
    <3>2. Behind(k) => state[k] = "GONE"
      BY <3>1 DEF Behind, Ended
    <3> QED
      BY <2>1, <3>1, <3>2 DEF Steady, Behind, Ended, SpareAt, JobFits
  <2>3. CASE Load(k) \/ LinkRun(k) \/ Fit(k) \/ Size(k) \/ HashUpload(k) \/ Check(k)
             \/ Publish(k) \/ Report(k) \/ Throw(k) \/ Lost(k) \/ CleanLook(k) \/ CleanFails(k)
             \/ CleanFile(k)
    <3>1. /\ job' = job /\ state' = state /\ partial'[k] \in {partial[k], NoFile}
          /\ fresh' = fresh
      BY <1>0, <2>3 DEF Load, LinkRun, Fit, Size, HashUpload, Check, Publish, Report, Throw, Lost,
         CleanLook, CleanFails, CleanFile, row, files
    <3>2. run[k].pc # "idle"
      BY <2>3 DEF Load, LinkRun, Fit, Size, HashUpload, Check, Publish, Report, Throw, Lost,
         CleanLook, CleanFails, CleanFile, Steps
    <3> QED
      BY <1>1, <2>1, <3>1, <3>2 DEF Steady, Onward, Behind, Ended, SpareAt, JobFits
  <2>4. CASE Download(k)
    <3>1. /\ job' = job /\ state' = state /\ linked' = linked /\ fresh'[k] /\ run[k].pc # "idle"
      BY <1>0, <2>4 DEF Download, row
    <3> QED
      BY <1>1, <2>1, <3>1 DEF Steady, Onward, Behind, Ended, SpareAt, JobFits
  <2>5. CASE Received(k)
    <3>1. /\ job' = job /\ linked' = linked /\ fresh' = fresh /\ partial' = partial
          /\ run[k].pc = "received"
          /\ state'[k] = IF state[k] = "GONE" THEN "GONE" ELSE "VERIFYING"
      BY <1>0, <2>5 DEF Received, files
    <3> QED
      BY <1>1, <2>1, <3>1 DEF Steady, Onward, Behind, Early, Ended, SpareAt, JobFits
  <2>6. CASE Rename(k)
    <3>1. /\ job' = job /\ linked' = linked /\ fresh' = fresh /\ run[k].pc = "rename"
          /\ partial'[k] \in {partial[k], NoFile} /\ state' = state
      BY <1>0, <2>6 DEF Rename, row
    <3> QED
      BY <1>1, <2>1, <3>1 DEF Steady, Onward, Behind, Early, Ended, SpareAt, JobFits
  <2>7. CASE Ready(k) \/ CleanRow(k)
    <3>1. /\ job' = job /\ fresh' = fresh /\ run[k].pc \in {"ready", "settle"} /\ partial' = partial
          /\ linked'[k] => linked[k]
          /\ state'[k] \in {"READY", "FAILED", "GONE"} /\ (state[k] = "GONE" => state'[k] = "GONE")
      BY <1>0, <2>7 DEF Ready, CleanRow, files
    <3>2. run'[k].pc \notin Early
      BY <1>1, <2>1, <3>1 DEF Onward, Early, Ended
    <3> QED
      BY <2>1, <3>1, <3>2 DEF Steady, Behind, Ended, SpareAt, JobFits
  <2>8. CASE End(k)
    <3>1. /\ state' = state /\ linked' = linked /\ fresh' = fresh /\ partial' = partial
          /\ run[k].pc = "end" /\ job'[k] \in {job[k], run[k].exit}
          /\ job[k] # "RUNNING" => job'[k] = job[k]
      BY <1>0, <2>8 DEF End, row, files
    <3>2. run[k].exit \in Ended
      BY DEF TypeInv, TypeOK, RunState
    <3>3. job'[k] \in Ended
      BY <1>0, <2>1, <2>8, <3>1, <3>2 DEF End
    <3> QED
      BY <2>1, <3>1, <3>3 DEF Steady, Behind, Ended, SpareAt, JobFits
  <2> QED
    BY <2>1, <2>2, <2>3, <2>4, <2>5, <2>6, <2>7, <2>8 DEF Transfer
<1>6. job'[k] = job[k] \/ job[k] # "NONE"
  <2>1. k \in Uploads /\ job[k] = "NONE" => job'[k] = job[k]
    BY <1>0 DEF Transfer, Claim, Load, LinkRun, Fit, Size, Download, Received, HashUpload, Check,
       Publish, Rename, Ready, Report, Throw, Lost, CleanFile, CleanLook, CleanRow, CleanFails,
       End
  <2> QED
    BY <1>5, <2>1
<1> QED
  BY <1>2, <1>4, <1>5, <1>6, OneItemSpares

\* A job that is cancelled or reconciled has ended; time passes, pushes go on.
LEMMA AroundSpares ==
  ASSUME TypeInv, SpareInv, NEW k \in Item,
         CancelQueued(k) \/ Reconcile(k) \/ PushStep(k) \/ Silence(k) \/ Age(k)
  PROVE  SpareInv'
<1>1. /\ calls' = calls /\ sweep' = sweep /\ state' = state /\ linked' = linked /\ run' = run
      /\ partial' = partial
  BY DEF CancelQueued, Reconcile, PushStep, Silence, Age, row, files, work
<1>2. /\ \A i \in Item \ {k} : fresh'[i] = fresh[i] /\ job'[i] = job[i]
      /\ job'[k] = job[k] \/ (job[k] \in Active /\ job'[k] \in Ended)
      /\ fresh[k] => fresh'[k] \/ sweep.pc = "idle"
  BY DEF CancelQueued, Reconcile, PushStep, Silence, Age, row, files, work, Active, Ended,
     TypeInv, TypeOK
<1>3. ASSUME k \notin Uploads PROVE Steady(k)
  <2>1. SpareAt(k)
    BY <1>3 DEF SpareInv
  <2>2. Behind(k) => Behind(k)'
    BY <1>1, <1>2 DEF Behind
  <2> QED
    BY <1>1, <1>2, <2>1, <2>2 DEF Steady, SpareAt, JobFits, Active, Ended
<1>4. job'[k] = job[k] \/ job[k] # "NONE"
  BY <1>2 DEF Active
<1>5. \A i \in Item \ {k} : Same(i)
  BY <1>1, <1>2 DEF Same
<1> QED
  BY <1>1, <1>3, <1>4, <1>5, OneItemSpares

\* What the sweep is at after a step of it.
LEMMA SweepGoes ==
  ASSUME TypeInv
  PROVE  /\ \A pc, todo : To(pc, todo) =>
              /\ sweep'.pc = pc /\ sweep'.todo = todo
              /\ sweep'.at = sweep.at /\ sweep'.known = sweep.known
         /\ \A pc, k : At(pc, k) =>
              /\ sweep'.pc = pc /\ sweep'.todo = sweep.todo \ {k}
              /\ sweep'.at = {k} /\ sweep'.known = sweep.known
         /\ \A k : Pass(k) =>
              /\ sweep'.pc = sweep.pc /\ sweep'.todo = sweep.todo \ {k}
              /\ sweep'.at = sweep.at /\ sweep'.known = sweep.known
         /\ \A pc : Back(pc) =>
              /\ sweep'.pc = pc /\ sweep'.todo = sweep.todo
              /\ sweep'.at = {} /\ sweep'.known = sweep.known
<1>1. sweep \in SweepState
  BY DEF TypeInv, TypeOK
<1> QED
  BY <1>1 DEF SweepState, To, At, Pass, Back

\* Outside its looks at an item the sweep is at none.
AtNone == sweep.pc \notin {"lost-file", "lost-row", "old-row", "missing"} => sweep.at = {}

\* It comes back to none before it goes on.
LEMMA SweepAtNone ==
  ASSUME TypeInv, AtNone, Sweep
  PROVE  AtNone'
<1>0. sweep \in SweepState
  BY DEF TypeInv, TypeOK
<1>1. CASE SweepBegins \/ SweepUploads \/ SweepPartials \/ SweepItems
  BY <1>1, SweepGoes DEF AtNone, SweepBegins, SweepUploads, SweepPartials, SweepItems
<1>2. CASE SweepRows \/ SweepReady \/ SweepEnds
  <2>0. NoSweep.at = {} /\ [NoSweep EXCEPT !.pc = "ready",
                                           !.todo = {i \in Item : state[i] = "READY"}].at = {}
    BY DEF NoSweep
  <2>1. CASE SweepRows
    BY <1>0, <2>1 DEF AtNone, SweepRows, SweepState
  <2>2. CASE SweepReady
    BY <2>0, <2>2 DEF AtNone, SweepReady
  <2>3. CASE SweepEnds
    BY <2>0, <2>3 DEF AtNone, SweepEnds
  <2> QED
    BY <1>2, <2>1, <2>2, <2>3
<1>3. ASSUME NEW i \in Item, SweepTransfer(i) \/ SweepOldFile(i) \/ SweepPartial(i)
             \/ SweepItem(i) \/ SweepStat(i)
      PROVE  AtNone'
  BY <1>3, SweepGoes
  DEF AtNone, SweepTransfer, SweepOldFile, SweepPartial, SweepItem, SweepStat
<1>4. ASSUME NEW i \in Item,
             SweepLostFile(i) \/ SweepLostRow(i) \/ SweepOldRow(i) \/ SweepMissing(i)
      PROVE  AtNone'
  BY <1>0, <1>4, SweepGoes
  DEF AtNone, SweepLostFile, SweepLostRow, SweepOldRow, SweepMissing, NoSweep, SweepState
<1> QED
  BY <1>1, <1>2, <1>3, <1>4 DEF Sweep

\* What the sweep does to a fetched item: nothing while its transfer is under way.
Spares(i) ==
  /\ state[i] \in InFlight /\ job[i] \in Active => state'[i] = state[i] /\ partial'[i] = partial[i]
  /\ partial'[i] \in {partial[i], NoFile}
  /\ state'[i] \in {state[i], "FAILED"}
  /\ state'[i] # state[i] => Behind(i) /\ state[i] \notin {"GONE", "NONE"}
  /\ linked'[i] => linked[i]

\* That is steady, as steps of others are.
LEMMA SparesIsSteady ==
  ASSUME NEW i \in Item \ Uploads, SpareAt(i), Spares(i), job' = job, run' = run, fresh' = fresh
  PROVE  Steady(i)
<1>1. Behind(i) => Behind(i)'
  BY DEF Behind, Spares
<1> QED
  BY <1>1 DEF Steady, Spares, SpareAt, JobFits

\* What it acts on is what it saw, and that still holds.
LEMMA SweepSpares ==
  ASSUME TypeInv, SpareInv, AtNone, Sweep
  PROVE  SpareInv' /\ \A i \in Item \ Uploads : Spares(i)
<1>0. /\ state \in [Item -> ItemState] /\ partial \in [Item -> File]
      /\ linked \in [Item -> BOOLEAN] /\ sweep \in SweepState
  BY DEF TypeInv, TypeOK
<1>1. calls' = calls /\ job' = job /\ run' = run /\ fresh' = fresh
  BY DEF Sweep, SweepBegins, SweepUploads, SweepRows, SweepPartials, SweepItems, SweepReady,
     SweepEnds, SweepTransfer, SweepLostFile, SweepLostRow, SweepOldFile, SweepOldRow,
     SweepPartial, SweepItem, SweepStat, SweepMissing, row, files, work
<1>2. NoSweep.pc = "idle" /\ NoSweep.at = {}
  BY DEF NoSweep
<1> SUFFICES ASSUME NEW i \in Item \ Uploads PROVE SweepFits(i)' /\ Spares(i)
  BY <1>1, SparesIsSteady, QuietAsks, SpareKept DEF SpareInv
<1>3. SpareAt(i) /\ JobFits(i) /\ SweepFits(i)
  BY DEF SpareInv, SpareAt
<1>4. state' = state /\ job' = job /\ run' = run => (Behind(i)' <=> Behind(i))
  BY DEF Behind
<1>5. CASE SweepBegins \/ SweepUploads
  <2>1. /\ state' = state /\ linked' = linked /\ partial' = partial
        /\ sweep'.at = {} /\ sweep'.pc \in {"transfers", "uploads"}
        /\ sweep'.pc = "transfers" =>
             sweep'.todo = {k \in Item : state[k] \in InFlight /\ linked[k]}
        /\ sweep'.pc = "uploads" => sweep'.todo \subseteq Uploads
    BY <1>5, SweepGoes DEF SweepBegins, SweepUploads, AtNone, row, files
  <2>2. SweepFits(i)'
    BY <1>1, <1>3, <2>1 DEF SweepFits, JobFits
  <2> QED
    BY <2>1, <2>2 DEF Spares
<1>6. CASE SweepRows \/ SweepPartials
  <2>1. /\ state' = state /\ linked' = linked /\ partial' = partial
        /\ sweep'.at = {} /\ sweep'.pc \in {"rows", "partials"}
        /\ sweep'.known[i] = state[i] \/ (sweep.pc = "rows" /\ sweep'.known = sweep.known)
    BY <1>0, <1>6, SweepGoes DEF SweepRows, SweepPartials, AtNone, SweepState, row, files
  <2>2. SweepFits(i)'
    BY <1>1, <1>3, <1>4, <2>1 DEF SweepFits, JobFits, Behind
  <2> QED
    BY <2>1, <2>2 DEF Spares
<1>7. CASE SweepItems \/ SweepReady \/ SweepEnds
  <2>1. /\ state' = state /\ linked' = linked /\ partial' = partial
        /\ sweep'.at = {} /\ sweep'.pc \in {"items", "ready", "idle"}
        /\ sweep'.pc = "ready" => sweep'.todo = {k \in Item : state[k] = "READY"}
    BY <1>0, <1>2, <1>7, SweepGoes
    DEF SweepItems, SweepReady, SweepEnds, AtNone, SweepState, NoSweep, row, files
  <2>2. SweepFits(i)'
    BY <1>1, <1>3, <1>4, <2>1 DEF SweepFits, JobFits
  <2> QED
    BY <2>1, <2>2 DEF Spares
<1>8. ASSUME NEW k \in Item, SweepTransfer(k) \/ SweepStat(k)
      PROVE  SweepFits(i)' /\ Spares(i)
  <2>1. state' = state /\ linked' = linked /\ partial' = partial
    BY <1>8 DEF SweepTransfer, SweepStat, row, files
  <2>2. CASE SweepTransfer(k)
    <3>1. /\ sweep.pc = "transfers" /\ sweep'.todo = sweep.todo \ {k} /\ sweep.at = {}
          /\ \/ sweep'.pc = "transfers" /\ sweep'.at = {}
             \/ sweep'.pc = "lost-file" /\ sweep'.at = {k} /\ job[k] \notin Active
          /\ k \in sweep.todo
      BY <2>2, SweepGoes DEF SweepTransfer, AtNone
    <3>2. k = i => job[k] \in Active \union Ended
      BY <1>3, <3>1 DEF SweepFits, TypeInv, TypeOK, JobState
    <3>3. SweepFits(i)'
      BY <1>1, <1>3, <1>4, <2>1, <3>1, <3>2 DEF SweepFits
    <3> QED
      BY <2>1, <3>1, <3>3 DEF Spares
  <2>3. CASE SweepStat(k)
    <3>1. /\ sweep.pc = "ready" /\ sweep'.todo \subseteq sweep.todo /\ sweep'.at \subseteq {k}
          /\ \/ sweep'.pc = "ready" /\ sweep'.at = {}
             \/ sweep'.pc = "missing"
          /\ k \in sweep.todo
      BY <2>3, SweepGoes DEF SweepStat, AtNone
    <3>2. SweepFits(i)'
      BY <1>1, <1>3, <1>4, <2>1, <3>1 DEF SweepFits
    <3> QED
      BY <2>1, <3>1, <3>2 DEF Spares
  <2> QED
    BY <1>8, <2>2, <2>3
<1>9. ASSUME NEW k \in Item, SweepLostFile(k) \/ SweepOldFile(k) \/ SweepPartial(k) \/ SweepItem(k)
      PROVE  SweepFits(i)' /\ Spares(i)
  <2>1. state' = state /\ linked' = linked
    BY <1>9 DEF SweepLostFile, SweepOldFile, SweepPartial, SweepItem, row
  <2>2. CASE SweepLostFile(k)
    <3>1. /\ sweep.pc = "lost-file" /\ k \in sweep.at /\ sweep'.pc = "lost-row"
          /\ sweep'.at = sweep.at /\ sweep'.todo = sweep.todo
          /\ partial'[i] = IF i = k THEN NoFile ELSE partial[i]
      BY <1>0, <2>2 DEF SweepLostFile, SweepState
    <3>2. i = k => job[i] \notin Active
      BY <1>3, <3>1 DEF SweepFits, Ended, Active
    <3>3. SweepFits(i)'
      BY <1>1, <1>3, <1>4, <2>1, <3>1 DEF SweepFits
    <3> QED
      BY <2>1, <3>1, <3>2, <3>3 DEF Spares
  <2>3. CASE SweepOldFile(k)
    <3>1. /\ sweep.pc = "uploads" /\ k \in sweep.todo /\ sweep'.pc = "old-row"
          /\ sweep'.at = {k} /\ sweep'.todo \subseteq sweep.todo
          /\ i # k => partial'[i] = partial[i]
      BY <1>0, <2>3, SweepGoes DEF SweepOldFile
    <3>2. i # k
      BY <1>3, <3>1 DEF SweepFits
    <3>3. SweepFits(i)'
      BY <1>1, <1>3, <1>4, <2>1, <3>1, <3>2 DEF SweepFits
    <3> QED
      BY <2>1, <3>1, <3>2, <3>3 DEF Spares
  <2>4. CASE SweepPartial(k)
    <3>1. /\ sweep.pc = "partials" /\ sweep'.pc = "partials"
          /\ sweep'.at = {} /\ sweep'.known = sweep.known
          /\ partial'[i] \in {partial[i], NoFile}
          /\ sweep.known[i] \in InFlight \/ fresh[i] => partial'[i] = partial[i]
      BY <1>0, <2>4, SweepGoes DEF SweepPartial, Spared, AtNone
    <3>2. SweepFits(i)'
      BY <1>1, <1>3, <1>4, <2>1, <3>1 DEF SweepFits
    <3>3. sweep.known[i] \in InFlight \union {"NONE", "READY", "FAILED", "GONE"}
      BY <1>0 DEF SweepState, ItemState, STATES, InFlight
    <3>4. state[i] \in InFlight /\ job[i] \in Active => ~ Behind(i)
      BY DEF Behind, InFlight, Active, Ended
    <3>5. state[i] \in InFlight /\ job[i] \in Active => partial'[i] = partial[i]
      BY <1>3, <3>1, <3>3, <3>4 DEF SweepFits
    <3> QED
      BY <2>1, <3>1, <3>2, <3>5 DEF Spares
  <2>5. CASE SweepItem(k)
    <3>1. /\ sweep.pc = "items" /\ sweep'.pc = "items" /\ sweep'.at = {} /\ partial' = partial
      BY <2>5, SweepGoes DEF SweepItem, AtNone
    <3>2. SweepFits(i)'
      BY <3>1 DEF SweepFits
    <3> QED
      BY <2>1, <3>1, <3>2 DEF Spares
  <2> QED
    BY <1>9, <2>2, <2>3, <2>4, <2>5
<1>10. ASSUME NEW k \in Item, SweepLostRow(k) \/ SweepOldRow(k) \/ SweepMissing(k)
       PROVE  SweepFits(i)' /\ Spares(i)
  <2>1. partial' = partial
    BY <1>10 DEF SweepLostRow, SweepOldRow, SweepMissing, files
  <2>2. CASE SweepLostRow(k)
    <3>1. /\ sweep.pc = "lost-row" /\ k \in sweep.at /\ sweep'.pc = "transfers"
          /\ sweep'.at = {} /\ sweep'.todo = sweep.todo
          /\ i # k => state'[i] = state[i] /\ linked'[i] = linked[i]
          /\ state'[k] = state[k] \/ (state'[k] = "FAILED" /\ state[k] \in InFlight)
          /\ linked'[k] => linked[k]
      BY <1>0, <2>2, SweepGoes DEF SweepLostRow, StillInFlight
    <3>2. i = k => job[i] \in Ended
      BY <1>3, <3>1 DEF SweepFits
    <3>3. SweepFits(i)'
      BY <1>1, <1>3, <3>1 DEF SweepFits
    <3> QED
      BY <2>1, <3>1, <3>2, <3>3 DEF Spares, Behind, Ended, Active, InFlight
  <2>3. CASE SweepOldRow(k)
    <3>1. /\ sweep.pc = "old-row" /\ k \in sweep.at /\ sweep'.pc = "uploads"
          /\ sweep'.at = {} /\ sweep'.todo = sweep.todo /\ linked' = linked
          /\ i # k => state'[i] = state[i]
      BY <1>0, <2>3, SweepGoes DEF SweepOldRow
    <3>2. i # k
      BY <1>3, <3>1 DEF SweepFits
    <3>3. SweepFits(i)'
      BY <1>3, <3>1 DEF SweepFits
    <3> QED
      BY <2>1, <3>1, <3>2, <3>3 DEF Spares
  <2>4. CASE SweepMissing(k)
    <3>1. /\ sweep.pc = "missing" /\ k \in sweep.at /\ linked' = linked
          /\ sweep'.at = {} /\ sweep'.pc \in {"ready", "idle"}
          /\ sweep'.pc = "ready" => sweep'.todo = sweep.todo
          /\ i # k => state'[i] = state[i]
          /\ state'[k] = IF state[k] = "GONE" THEN "GONE" ELSE "FAILED"
      BY <1>0, <1>2, <2>4, SweepGoes DEF SweepMissing
    <3>2. i = k => Behind(i) /\ state[i] # "NONE"
      BY <1>3, <3>1 DEF SweepFits, Behind, JobFits, Ended
    <3>3. Behind(i) => Behind(i)'
      BY <1>1, <3>1 DEF Behind
    <3>4. SweepFits(i)'
      BY <1>3, <3>1, <3>3 DEF SweepFits
    <3> QED
      BY <2>1, <3>1, <3>2, <3>4 DEF Spares, Behind, Ended, Active, InFlight
  <2> QED
    BY <1>10, <2>2, <2>3, <2>4
<1> QED
  BY <1>5, <1>6, <1>7, <1>8, <1>9, <1>10 DEF Sweep

\* A worker that dies takes its runs and perhaps the sweep with it.
LEMMA CrashSpares ==
  ASSUME TypeInv, SpareInv, NEW dead \in SUBSET Item, Crash(dead)
  PROVE  SpareInv'
<1> SUFFICES ASSUME NEW i \in Item \ Uploads PROVE SpareAt(i)'
  BY DEF SpareInv
<1>1. /\ state' = state /\ linked' = linked /\ partial' = partial /\ fresh' = fresh
      /\ calls' = calls /\ job' = job /\ run'[i] \in {run[i], Idle}
      /\ sweep' = sweep \/ sweep' = NoSweep
  BY DEF Crash, row, files
<1>2. SpareAt(i) /\ Idle.pc = "idle" /\ NoSweep.pc = "idle"
  BY DEF SpareInv, Idle, NoSweep
<1>3. Steady(i)
  BY <1>1, <1>2 DEF Steady, Behind, Early, SpareAt, JobFits
<1>4. sweep' = NoSweep => SweepFits(i)'
  BY <1>2 DEF SweepFits
<1> QED
  BY <1>1, <1>2, <1>3, <1>4, QuietAsks, SpareKept

\* All of it.
LEMMA NextSpares ==
  ASSUME TypeInv, SpareInv, AtNone, [Next]_vars
  PROVE  /\ SpareInv' /\ AtNone'
         /\ sweep' # sweep /\ crashes' = crashes => \A i \in Item \ Uploads : Spares(i)
<1>1. CASE UNCHANGED vars
  <2>1. \A i \in Item \ Uploads : Same(i)
    BY <1>1 DEF vars, row, files, work, Same
  <2> QED
    BY <1>1, <2>1, SameIsSteady, QuietAsks, SpareKept DEF vars, work, AtNone, SpareInv
<1>2. ASSUME NEW k \in Item, User(k) \/ Transfer(k) \/ PushStep(k) \/ Reconcile(k)
             \/ CleanFails(k) \/ Silence(k) \/ Age(k)
      PROVE  SpareInv' /\ sweep' = sweep
  <2>1. SpareInv'
    BY <1>2, UserSpares, TransferSpares, AroundSpares DEF User
  <2>2. sweep' = sweep
    BY <1>2 DEF User, StartUpload, AddFetched, ReadChunk, Abandon, Remove, Push, CancelQueued,
       Transfer, Claim, Load, LinkRun, Fit, Size, Download, Received, HashUpload, Check,
       Publish, Rename, Ready, Report, Throw, Lost, CleanFile, CleanLook, CleanRow, End,
       CleanFails, PushStep, Reconcile, Silence, Age
  <2> QED
    BY <2>1, <2>2
<1>3. ASSUME NEW c \in calls, Api(c) \/ NoJob(c) \/ CallLost(c)
      PROVE  SpareInv' /\ sweep' = sweep
  BY <1>3, ApiSpares
  DEF Api, NoJob, CallLost, CreateRow, Touch, MakeJob, NoRow, Undo, Link, WriteChunk,
      ChunkFails, CountChunk, AbandonFile, AbandonRow, RemoveItemFile, RemovePartial,
      RemoveRow, MakePush
<1>4. ASSUME NEW dead \in SUBSET Item, Crash(dead)
      PROVE  SpareInv' /\ AtNone' /\ crashes' # crashes
  <2>1. AtNone' /\ crashes' # crashes
    BY <1>4 DEF Crash, AtNone, NoSweep, TypeInv, TypeOK
  <2> QED
    BY <1>4, <2>1, CrashSpares
<1>5. sweep' = sweep => AtNone'
  BY DEF AtNone
<1> QED
  BY <1>1, <1>2, <1>3, <1>4, <1>5, SweepSpares, SweepAtNone DEF Next

\* "Items a dead job was writing are failed", and only those: whatever the sweep saw and
\* however long ago, it does not touch an item that a job is fetching.
THEOREM SweepKeepsOff == Spec => SweepSparesTransfers
<1>1. Init => SpareInv /\ AtNone
  BY DEF Init, SpareInv, SpareAt, AsksFit, JobFits, SweepFits, AtNone, Behind, Idle, NoSweep
<1>2. TypeInv /\ SpareInv /\ AtNone /\ [Next]_vars => SpareInv' /\ AtNone'
  BY NextSpares
<1>3. TypeInv /\ SpareInv /\ AtNone /\ [Next]_vars =>
        [\A i \in Item \ Uploads :
           sweep' # sweep /\ crashes' = crashes /\ state[i] \in InFlight /\ job[i] \in Active =>
             partial'[i] = partial[i] /\ state'[i] = state[i]]_vars
  BY NextSpares DEF Spares
<1> QED
  BY <1>1, <1>2, <1>3, TypeInit, TypeStep, PTL DEF Spec, SweepSparesTransfers

=============================================================================
