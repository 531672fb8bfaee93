-------------------------- MODULE PlacementProofs --------------------------
(***************************************************************************)
(* What the placement job keeps to, for any rules, guests and nodes, any   *)
(* number of ticks at work and any bounds.                                 *)
(***************************************************************************)
EXTENDS Placement, TLAPS

-----------------------------------------------------------------------------
(* Types *)

\* A row with another state, or shown otherwise.
LEMMA RowChanged ==
  ASSUME row \in [RuleId -> Row], NEW r \in RuleId, NEW x
  PROVE  /\ [row EXCEPT ![r].state = x]
              = [row EXCEPT ![r] = [state |-> x, rule |-> row[r].rule, shown |-> row[r].shown]]
         /\ [row EXCEPT ![r].shown = x]
              = [row EXCEPT ![r] = [state |-> row[r].state, rule |-> row[r].rule, shown |-> x]]
<1>1. row[r] \in Row
  OBVIOUS
<1>2. [row[r] EXCEPT !.state = x]
        = [state |-> x, rule |-> row[r].rule, shown |-> row[r].shown]
  BY <1>1 DEF Row
<1>3. [row[r] EXCEPT !.shown = x]
        = [state |-> row[r].state, rule |-> row[r].rule, shown |-> x]
  BY <1>1 DEF Row
<1> QED
  BY <1>2, <1>3

LEMMA InitType == Init => TypeOK
<1> SUFFICES ASSUME NEW s \in Situation,
                    row = [r \in RuleId |->
                            [state |-> IF s.rules[r] = NoRule THEN "none" ELSE "live",
                             rule |-> s.rules[r], shown |-> "pending"]],
                    asked = [r \in RuleId |-> NoRule], ha = [r \in RuleId |-> NoRule],
                    tick = [t \in Tick |-> Idle], raced = {}, at = s.at, flight = [v \in Guest |-> NoNode],
                    stage = "none", rules = {}, next = 1, done = 0, disturbed = {}
             PROVE  TypeOK
  BY DEF Init
<1>0. s.rules \in [RuleId -> Rule \cup {NoRule}] /\ DOMAIN s.at \subseteq Guest
  BY PlacementAssumption
<1>1. row \in [RuleId -> Row]
  BY <1>0 DEF Row
<1>2. \A r \in Live : row[r].rule \in Rule
  BY <1>0 DEF Live
<1>3. Idle \in At
  BY DEF Idle, At, NoRow, Row
<1>4. RuleTypes
  BY <1>1, <1>2, <1>3 DEF RuleTypes
<1>5. JobTypes
  BY <1>0 DEF JobTypes, Ended
<1> QED
  BY <1>4, <1>5 DEF TypeOK

\* What a person writes is a row.
LEMMA EditedTypes ==
  ASSUME TypeOK,
         NEW r \in RuleId,
         \/ \E c \in Choice[r] : CheckRule(r, c)
         \/ CreateRule(r) \/ UpdateRule(r) \/ UpdateFindsNone(r) \/ DeleteRule(r)
  PROVE  RuleTypes'
<1>0. asked \in [RuleId -> Rule \cup {NoRule}] /\ asked[r] \in Rule \cup {NoRule}
  BY DEF TypeOK, RuleTypes
<1>1. CASE \E c \in Choice[r] : CheckRule(r, c)
  <2>1. PICK c \in Choice[r] : CheckRule(r, c)
    BY <1>1
  <2>2. asked' \in [RuleId -> Rule \cup {NoRule}]
    BY <1>0, <2>1 DEF CheckRule, Rule
  <2> QED
    BY <2>1, <2>2 DEF CheckRule, TypeOK, RuleTypes, Live
<1>2. ASSUME Written(r)
      PROVE  /\ asked' \in [RuleId -> Rule \cup {NoRule}] /\ asked[r] \in Rule
             /\ UNCHANGED <<ha, tick, raced>>
  BY <1>0, <1>2 DEF Written
<1>3. CASE CreateRule(r)
  <2>1. row' = [row EXCEPT ![r] = [state |-> "live", rule |-> asked[r], shown |-> "pending"]]
    BY <1>3 DEF CreateRule
  <2>2. [state |-> "live", rule |-> asked[r], shown |-> "pending"] \in Row
    BY <1>2, <1>3 DEF CreateRule, Row
  <2>3. row' \in [RuleId -> Row]
    BY <2>1, <2>2 DEF TypeOK, RuleTypes
  <2>4. \A x \in Live' : row'[x].rule \in Rule
    BY <1>2, <1>3, <2>1 DEF CreateRule, Live, TypeOK, RuleTypes
  <2> QED
    BY <1>2, <1>3, <2>3, <2>4 DEF CreateRule, TypeOK, RuleTypes
<1>4. CASE UpdateRule(r)
  <2>1. PICK s \in {"pending", "held", "error"} :
          row' = [row EXCEPT ![r] = [state |-> row[r].state, rule |-> asked[r], shown |-> s]]
    BY <1>4 DEF UpdateRule
  <2>2. [state |-> row[r].state, rule |-> asked[r], shown |-> s] \in Row
    BY <1>2, <1>4 DEF UpdateRule, Row, TypeOK, RuleTypes
  <2>3. row' \in [RuleId -> Row]
    BY <2>1, <2>2 DEF TypeOK, RuleTypes
  <2>4. \A x \in Live' : row'[x].rule \in Rule
    BY <1>2, <1>4, <2>1 DEF UpdateRule, Live, TypeOK, RuleTypes
  <2> QED
    BY <1>2, <1>4, <2>3, <2>4 DEF UpdateRule, TypeOK, RuleTypes
<1>5. CASE UpdateFindsNone(r)
  BY <1>2, <1>5 DEF UpdateFindsNone, TypeOK, RuleTypes, Live
<1>6. CASE DeleteRule(r)
  <2>0. PICK s \in {"removed", "gone"} : row' = [row EXCEPT ![r].state = s]
    BY <1>6 DEF DeleteRule
  <2>1. row' = [row EXCEPT ![r] = [state |-> s, rule |-> row[r].rule, shown |-> row[r].shown]]
    BY <2>0, RowChanged DEF TypeOK, RuleTypes
  <2>2. [state |-> s, rule |-> row[r].rule, shown |-> row[r].shown] \in Row
    BY DEF Row, TypeOK, RuleTypes
  <2>3. row' \in [RuleId -> Row]
    BY <2>1, <2>2 DEF TypeOK, RuleTypes
  <2>4. \A x \in Live' : row'[x].rule \in Rule
    BY <2>1 DEF Live, TypeOK, RuleTypes
  <2> QED
    BY <1>6, <2>3, <2>4 DEF DeleteRule, TypeOK, RuleTypes
<1> QED
  BY <1>1, <1>3, <1>4, <1>5, <1>6

\* The steps of a tick that read and write Proxmox's rules.
LEMMA TickTypes ==
  ASSUME TypeOK, NEW t \in Tick,
         \/ ReadRows(t) \/ ListRules(t) \/ ListFails(t) \/ ReadBack(t) \/ TickEnds(t)
         \/ TickDies(t)
         \/ \E r \in RuleId : WriteRule(t, r) \/ RemoveRule(t, r) \/ Refused(t, r)
  PROVE  RuleTypes' /\ UNCHANGED row
<1>0. tick[t] \in At /\ Idle \in At
  BY DEF TypeOK, RuleTypes, Idle, At, NoRow, Row
<1> USE DEF TypeOK, RuleTypes, At
<1>1. CASE ReadRows(t)
  <2>1. tick' \in [Tick -> At] /\ raced' \subseteq RuleId
    BY <1>0, <1>1 DEF ReadRows
  <2> QED
    BY <1>1, <2>1 DEF ReadRows, Live, NotRules
<1>2. CASE ListRules(t)
  <2>1. tick' \in [Tick -> At]
    BY <1>0, <1>2 DEF ListRules, Present
  <2> QED
    BY <1>2, <2>1 DEF ListRules, Live, NotRules
<1>3. CASE ListFails(t)
  <2>1. tick' \in [Tick -> At]
    BY <1>0, <1>3 DEF ListFails, SeenLive
  <2> QED
    BY <1>3, <2>1 DEF ListFails, Live, NotRules
<1>4. CASE ReadBack(t)
  <2>1. tick' \in [Tick -> At]
    BY <1>0, <1>4 DEF ReadBack, SeenLive
  <2> QED
    BY <1>4, <2>1 DEF ReadBack, Live, NotRules
<1>5. CASE TickEnds(t) \/ TickDies(t)
  <2>1. tick' \in [Tick -> At]
    BY <1>0, <1>5 DEF TickEnds, TickDies
  <2> QED
    BY <1>5, <2>1 DEF TickEnds, TickDies, Live, NotRules
<1>6. ASSUME NEW r \in RuleId, WriteRule(t, r)
      PROVE  RuleTypes' /\ UNCHANGED row
  <2>1. PICK wrote \in SUBSET {r} :
          /\ tick' = [tick EXCEPT ![t].todo = @ \ {r}, ![t].wrote = @ \cup wrote]
          /\ ha' = [x \in RuleId |-> IF x \in wrote THEN tick[t].seen[r].rule ELSE ha[x]]
    <3> DEFINE same == tick[t].have[r] = tick[t].seen[r].rule
               taken == (tick[t].have[r] = NoRule) = (ha[r] = NoRule)
               w == IF ~same /\ taken THEN {r} ELSE {}
    <3>1. /\ tick' = [tick EXCEPT ![t].todo = @ \ {r}, ![t].wrote = @ \cup w]
          /\ ha' = [x \in RuleId |-> IF x \in w THEN tick[t].seen[r].rule ELSE ha[x]]
      BY <1>6 DEF WriteRule
    <3>2. w \in SUBSET {r}
      OBVIOUS
    <3> HIDE DEF w
    <3> QED
      BY <3>1, <3>2
  <2>2. tick' \in [Tick -> At]
    BY <1>0, <2>1
  <2>3. tick[t].seen[r].rule \in Rule \cup {NoRule}
    BY <1>0 DEF Row
  <2>4. ha' \in [RuleId -> Rule \cup {NoRule}]
    BY <2>1, <2>3
  <2> QED
    BY <1>6, <2>2, <2>4 DEF WriteRule, Live, NotRules
<1>7. ASSUME NEW r \in RuleId, RemoveRule(t, r)
      PROVE  RuleTypes' /\ UNCHANGED row
  <2>1. tick' \in [Tick -> At]
    <3>1. CASE tick' = [tick EXCEPT ![t].todo = @ \ {r}]
      BY <1>0, <3>1
    <3>2. CASE tick' = [tick EXCEPT ![t].phase = "drop", ![t].todo = @ \ {r},
                                    ![t].dropping = r]
      BY <1>0, <3>2
    <3> QED
      BY <1>7, <3>1, <3>2 DEF RemoveRule
  <2>2. ha' \in [RuleId -> Rule \cup {NoRule}]
    BY <1>7 DEF RemoveRule
  <2> QED
    BY <1>7, <2>1, <2>2 DEF RemoveRule, Live, NotRules
<1>8. ASSUME NEW r \in RuleId, Refused(t, r)
      PROVE  RuleTypes' /\ UNCHANGED row
  <2>1. tick' \in [Tick -> At]
    BY <1>0, <1>8 DEF Refused
  <2> QED
    BY <1>8, <2>1 DEF Refused, Live, NotRules
<1> QED
  BY <1>1, <1>2, <1>3, <1>4, <1>5, <1>6, <1>7, <1>8 DEF ReadRows, ListRules, ListFails, ReadBack,
     TickEnds, TickDies

LEMMA DropTypes ==
  ASSUME TypeOK, NEW t \in Tick, DropRow(t), tick[t].dropping \in RuleId
  PROVE  RuleTypes'
<1>0. tick[t] \in At
  BY DEF TypeOK, RuleTypes
<1> DEFINE r == tick[t].dropping
<1>1. row' = [row EXCEPT ![r] = [state |-> "gone", rule |-> row[r].rule, shown |-> row[r].shown]]
  BY RowChanged DEF DropRow, TypeOK, RuleTypes
<1>2. row' \in [RuleId -> Row]
  BY <1>1 DEF TypeOK, RuleTypes, Row
<1>3. tick' \in [Tick -> At]
  BY <1>0 DEF DropRow, At, TypeOK, RuleTypes
<1>4. \A x \in Live' : row'[x].rule \in Rule
  BY <1>1 DEF Live, TypeOK, RuleTypes
<1> QED
  BY <1>2, <1>3, <1>4 DEF DropRow, TypeOK, RuleTypes, NotRules

LEMMA MarkTypes ==
  ASSUME TypeOK, NEW t \in Tick, NEW r \in RuleId, MarkRow(t, r)
  PROVE  RuleTypes' /\ \A x \in RuleId : row'[x].state = row[x].state /\ row'[x].rule = row[x].rule
<1>0. tick[t] \in At /\ Idle \in At
  BY DEF TypeOK, RuleTypes, Idle, At, NoRow, Row
<1>1. tick' \in [Tick -> At]
  <2>1. tick' = [tick EXCEPT ![t].todo = @ \ {r}] \/ tick' = [tick EXCEPT ![t] = Idle]
    BY DEF MarkRow
  <2>2. CASE tick' = [tick EXCEPT ![t].todo = @ \ {r}]
    BY <1>0, <2>2 DEF At, TypeOK, RuleTypes
  <2> QED
    BY <1>0, <2>1, <2>2 DEF TypeOK, RuleTypes
<1>2. row' \in [RuleId -> Row]
      /\ \A x \in RuleId : row'[x].state = row[x].state /\ row'[x].rule = row[x].rule
  <2>1. CASE row' = row
    BY <2>1 DEF TypeOK, RuleTypes
  <2>2. ASSUME NEW s \in {"held", "error"}, row' = [row EXCEPT ![r].shown = s]
        PROVE  row' \in [RuleId -> Row]
               /\ \A x \in RuleId : row'[x].state = row[x].state /\ row'[x].rule = row[x].rule
    <3>1. row' = [row EXCEPT ![r] = [state |-> row[r].state, rule |-> row[r].rule, shown |-> s]]
      BY <2>2, RowChanged DEF TypeOK, RuleTypes
    <3>2. [state |-> row[r].state, rule |-> row[r].rule, shown |-> s] \in Row
      BY DEF Row, TypeOK, RuleTypes
    <3> QED
      BY <3>1, <3>2 DEF TypeOK, RuleTypes
  <2> QED
    BY <2>1, <2>2 DEF MarkRow
<1>3. \A x \in Live' : row'[x].rule \in Rule
  BY <1>2 DEF Live, TypeOK, RuleTypes
<1> QED
  BY <1>1, <1>2, <1>3 DEF MarkRow, TypeOK, RuleTypes, NotRules

-----------------------------------------------------------------------------
(* The invariant.  A tick drops no rule in force, since what it read as     *)
(* removed stays removed.  A migration that no earlier job left is the      *)
(* move the job is at; the rules it was checked against are the ones in     *)
(* force, and they allow it still.                                          *)

Removed ==
  \A t \in Tick :
    /\ \A r \in RuleId : tick[t].seen[r].state = "removed" => row[r].state \in {"removed", "gone"}
    /\ tick[t].phase \in {"write", "drop"} => tick[t].todo \subseteq Present(tick[t].seen)
    /\ tick[t].phase = "drop" => /\ tick[t].dropping \in RuleId
                                 /\ tick[t].seen[tick[t].dropping].state = "removed"

Flying ==
  "flight" \notin disturbed =>
    \A v \in Guest : flight[v] # NoNode => stage \in {"sent", "FAILED"} /\ Move.guest = v

Read == "rules" \notin disturbed /\ stage \in {"next", "sent"} => rules = InForce

Aloft ==
  disturbed \cap {"rules", "places", "flight"} = {} =>
    \A v \in Guest : flight[v] # NoNode =>
      v \in DOMAIN at /\ \A r \in InForce : ~Forbids(r, at, v, flight[v])

KeptInv == TypeOK /\ Removed /\ Flying /\ Read /\ Aloft

LEMMA InForceSame ==
  ASSUME \A x \in RuleId : /\ row'[x].rule = row[x].rule
                           /\ row'[x].state = "live" <=> row[x].state = "live"
  PROVE  InForce' = InForce
BY DEF InForce, Live

\* What a tick does leaves the rules in force alone.
LEMMA TickKeeps ==
  ASSUME TypeOK, Removed, NEW t \in Tick, TickStep(t) \/ TickFails(t)
  PROVE  RuleTypes' /\ Removed' /\ InForce' = InForce /\ NotRules
<1>0. /\ tick \in [Tick -> At] /\ row \in [RuleId -> Row]
      /\ \A u \in Tick : tick[u] \in At
  BY DEF TypeOK, RuleTypes
<1>1. CASE ReadRows(t)
  <2>1. RuleTypes' /\ row' = row
    BY <1>1, TickTypes
  <2>2. tick'[t].seen = row /\ tick'[t].phase = "list"
        /\ \A u \in Tick \ {t} : tick'[u] = tick[u]
    BY <1>0, <1>1 DEF ReadRows, At
  <2>3. Removed'
    BY <2>1, <2>2 DEF Removed
  <2> QED
    BY <1>1, <2>1, <2>3, InForceSame DEF ReadRows
<1>2. CASE \/ ListRules(t) \/ ListFails(t) \/ ReadBack(t)
           \/ \E r \in RuleId : WriteRule(t, r) \/ Refused(t, r)
  <2>1. RuleTypes' /\ row' = row
    BY <1>2, TickTypes
  <2>2. /\ tick'[t].seen = tick[t].seen
        /\ \A u \in Tick \ {t} : tick'[u] = tick[u]
        /\ \/ tick'[t].phase = "mark"
           \/ tick'[t].phase = "write" /\ tick'[t].todo \subseteq Present(tick[t].seen)
    <3>1. CASE ListRules(t)
      BY <1>0, <3>1 DEF ListRules, At
    <3>2. CASE ListFails(t) \/ ReadBack(t)
      BY <1>0, <3>2 DEF ListFails, ReadBack, At
    <3>3. CASE \E r \in RuleId : WriteRule(t, r)
      BY <1>0, <3>3 DEF WriteRule, At, Removed
    <3>4. CASE \E r \in RuleId : Refused(t, r)
      BY <1>0, <3>4 DEF Refused, At, Removed
    <3> QED
      BY <1>2, <3>1, <3>2, <3>3, <3>4
  <2>3. Removed'
    BY <2>1, <2>2 DEF Removed
  <2>4. NotRules
    BY <1>2 DEF ListRules, ListFails, ReadBack, WriteRule, Refused
  <2> QED
    BY <2>1, <2>3, <2>4, InForceSame
<1>3. CASE TickEnds(t) \/ TickDies(t)
  <2>1. RuleTypes' /\ row' = row
    BY <1>3, TickTypes
  <2>2. tick'[t] = Idle /\ \A u \in Tick \ {t} : tick'[u] = tick[u]
    BY <1>0, <1>3 DEF TickEnds, TickDies
  <2>3. Removed'
    BY <2>1, <2>2 DEF Removed, Idle, NoRow
  <2> QED
    BY <1>3, <2>1, <2>3, InForceSame DEF TickEnds, TickDies
<1>4. ASSUME NEW r \in RuleId, RemoveRule(t, r)
      PROVE  RuleTypes' /\ Removed' /\ InForce' = InForce /\ NotRules
  <2>1. RuleTypes' /\ row' = row
    BY <1>4, TickTypes
  <2>2. tick[t].seen[r].state = "removed"
    BY <1>0, <1>4 DEF RemoveRule, Removed, Present, SeenLive
  <2>3. /\ tick'[t].seen = tick[t].seen
        /\ \A u \in Tick \ {t} : tick'[u] = tick[u]
        /\ tick'[t].todo \subseteq tick[t].todo
        /\ tick'[t].phase = "drop" => tick'[t].dropping = r
    <3>1. CASE tick' = [tick EXCEPT ![t].todo = @ \ {r}]
      BY <1>0, <1>4, <3>1 DEF At, RemoveRule
    <3>2. CASE tick' = [tick EXCEPT ![t].phase = "drop", ![t].todo = @ \ {r},
                                    ![t].dropping = r]
      BY <1>0, <3>2 DEF At
    <3> QED
      BY <1>4, <3>1, <3>2 DEF RemoveRule
  <2>4. Removed'
    BY <1>4, <2>1, <2>2, <2>3 DEF Removed, RemoveRule
  <2> QED
    BY <1>4, <2>1, <2>4, InForceSame DEF RemoveRule
<1>5. CASE DropRow(t)
  <2> DEFINE r == tick[t].dropping
  <2>1. r \in RuleId /\ row[r].state \in {"removed", "gone"}
    BY <1>5 DEF DropRow, Removed
  <2>2. RuleTypes'
    BY <1>5, <2>1, DropTypes
  <2>3. row' = [row EXCEPT ![r] = [state |-> "gone", rule |-> row[r].rule,
                                   shown |-> row[r].shown]]
    BY <1>5, <2>1, RowChanged DEF DropRow, TypeOK, RuleTypes
  <2>4. /\ tick'[t].seen = tick[t].seen /\ tick'[t].todo = tick[t].todo
        /\ tick'[t].phase = "write"
        /\ \A u \in Tick \ {t} : tick'[u] = tick[u]
    BY <1>0, <1>5 DEF DropRow, At
  <2>5. \A x \in RuleId : row'[x].state = row[x].state \/ row'[x].state = "gone"
    BY <1>0, <2>3
  <2>6. Removed'
    <3>1. \A u \in Tick : \A x \in RuleId :
            tick[u].seen[x].state = "removed" => row'[x].state \in {"removed", "gone"}
      BY <2>5 DEF Removed
    <3>2. tick[t].todo \subseteq Present(tick[t].seen)
      BY <1>5 DEF Removed, DropRow
    <3> QED
      BY <2>4, <3>1, <3>2 DEF Removed
  <2>7. InForce' = InForce
    BY <1>0, <2>1, <2>3, InForceSame
  <2> QED
    BY <1>5, <2>2, <2>6, <2>7 DEF DropRow
<1>6. ASSUME NEW r \in RuleId, MarkRow(t, r)
      PROVE  RuleTypes' /\ Removed' /\ InForce' = InForce /\ NotRules
  <2>1. RuleTypes' /\ \A x \in RuleId : row'[x].state = row[x].state /\ row'[x].rule = row[x].rule
    BY <1>6, MarkTypes
  <2>2. /\ \A u \in Tick \ {t} : tick'[u] = tick[u]
        /\ tick'[t] = Idle \/ (tick'[t].seen = tick[t].seen /\ tick'[t].phase = "mark")
    <3>1. CASE tick' = [tick EXCEPT ![t].todo = @ \ {r}]
      BY <1>0, <1>6, <3>1 DEF At, MarkRow
    <3>2. CASE tick' = [tick EXCEPT ![t] = Idle]
      BY <1>0, <3>2
    <3> QED
      BY <1>6, <3>1, <3>2 DEF MarkRow
  <2>3. Removed'
    BY <2>1, <2>2 DEF Removed, Idle, NoRow
  <2> QED
    BY <1>6, <2>1, <2>3, InForceSame DEF MarkRow
<1> QED
  BY <1>1, <1>2, <1>3, <1>4, <1>5, <1>6 DEF TickStep, TickFails

\* A person's change to a rule is a disturbance; no change of theirs brings a removed row back.
LEMMA PersonKeeps ==
  ASSUME KeptInv, Person
  PROVE  KeptInv'
<1>0. row \in [RuleId -> Row] /\ ha \in [RuleId -> Rule \cup {NoRule}]
  BY DEF KeptInv, TypeOK, RuleTypes
<1>1. ASSUME NEW r \in RuleId,
             \/ \E c \in Choice[r] : CheckRule(r, c)
             \/ CreateRule(r) \/ UpdateRule(r) \/ UpdateFindsNone(r) \/ DeleteRule(r)
      PROVE  KeptInv'
  <2>1. RuleTypes'
    BY <1>1, EditedTypes DEF KeptInv
  <2>2. /\ UNCHANGED <<tick, placeVars, jobVars>>
        /\ \/ disturbed' = disturbed \cup {"rules", "plan"}
           \/ UNCHANGED <<row, disturbed>>
        /\ \A x \in RuleId \ {r} : row'[x] = row[x]
        /\ row'[r].state = row[r].state \/ row[r].state \notin {"removed", "gone"}
    <3>1. CASE \E c \in Choice[r] : CheckRule(r, c)
      BY <3>1 DEF CheckRule
    <3>2. CASE CreateRule(r)
      BY <1>0, <3>2 DEF CreateRule, Written, Disturb
    <3>3. CASE UpdateRule(r)
      BY <1>0, <3>3 DEF UpdateRule, Written, Disturb
    <3>4. CASE UpdateFindsNone(r)
      BY <3>4 DEF UpdateFindsNone, Written
    <3>5. CASE DeleteRule(r)
      BY <1>0, <3>5 DEF DeleteRule, Disturb
    <3> QED
      BY <1>1, <3>1, <3>2, <3>3, <3>4, <3>5
  <2>3. Removed'
    BY <2>2 DEF KeptInv, Removed, Present
  <2>4. JobTypes' /\ Flying' /\ Read' /\ Aloft'
    <3>1. CASE disturbed' = disturbed \cup {"rules", "plan"}
      BY <2>2, <3>1 DEF KeptInv, TypeOK, JobTypes, Flying, Read, Aloft, Move, placeVars, jobVars
    <3>2. CASE UNCHANGED <<row, disturbed>>
      BY <2>2, <3>2 DEF KeptInv, TypeOK, JobTypes, Flying, Read, Aloft, Move, InForce, Live,
         placeVars, jobVars
    <3> QED
      BY <2>2, <3>1, <3>2
  <2> QED
    BY <2>1, <2>3, <2>4 DEF KeptInv, TypeOK
<1>2. ASSUME NEW r \in RuleId, NEW c \in Choice[r] \cup {NoRule}, ChangeInProxmox(r, c)
      PROVE  KeptInv'
  <2>1. UNCHANGED <<row, asked, tick, raced, placeVars, jobVars, disturbed>>
    BY <1>2 DEF ChangeInProxmox
  <2>2. ha' \in [RuleId -> Rule \cup {NoRule}]
    BY <1>0, <1>2 DEF ChangeInProxmox, Rule
  <2>3. RuleTypes'
    BY <2>1, <2>2 DEF KeptInv, TypeOK, RuleTypes, Live
  <2>4. JobTypes' /\ Removed' /\ Flying' /\ Read' /\ Aloft'
    BY <2>1 DEF KeptInv, TypeOK, JobTypes, Removed, Flying, Read, Aloft, Move, InForce, Live,
       Present, placeVars, jobVars
  <2> QED
    BY <2>3, <2>4 DEF KeptInv, TypeOK
<1>3. ASSUME NEW v \in Guest, StopByHand(v) \/ \E n \in Node : MoveByHand(v, n)
      PROVE  KeptInv'
  <2>1. /\ UNCHANGED <<ruleVars, flight, jobVars>>
        /\ disturbed' = disturbed \cup {"places", "plan"}
        /\ DOMAIN at' \subseteq DOMAIN at
    BY <1>3 DEF StopByHand, MoveByHand, Disturb
  <2>2. RuleTypes'
    BY <2>1 DEF KeptInv, TypeOK, RuleTypes, Live, ruleVars
  <2>3. JobTypes' /\ Removed' /\ Flying' /\ Read' /\ Aloft'
    BY <2>1 DEF KeptInv, TypeOK, JobTypes, Removed, Flying, Read, Aloft, Move, InForce, Live,
       Present, ruleVars, jobVars
  <2> QED
    BY <2>2, <2>3 DEF KeptInv, TypeOK
<1> QED
  BY <1>1, <1>2, <1>3 DEF Person

\* No migration of this job is under way while it is at work on anything else.
LEMMA NoneAloft ==
  ASSUME Flying, "flight" \notin disturbed, stage \notin {"sent", "FAILED"}
  PROVE  \A v \in Guest : flight[v] = NoNode
BY DEF Flying

LEMMA JobKeeps ==
  ASSUME KeptInv, JobStep
  PROVE  KeptInv'
<1> USE DEF ruleVars, placeVars, jobVars
<1>1. ruleVars' = ruleVars
  BY DEF JobStep, StartJob, Check, Degraded, Plan, ReadRules, LeaveAlone, Send, Arrived,
     MoveFailed, CutShort, MovesDone, Verify
<1>2. RuleTypes' /\ Removed' /\ InForce' = InForce
  BY <1>1 DEF KeptInv, TypeOK, RuleTypes, Live, Removed, Present, InForce
<1>3. InForce \subseteq Rule
  BY DEF InForce, KeptInv, TypeOK, RuleTypes
<1>4. JobTypes'
  <2> USE DEF KeptInv, TypeOK, JobTypes, Ended
  <2>1. CASE \E why \in {"correct", "balance"} : StartJob(why)
    BY <2>1 DEF StartJob
  <2>2. CASE Check \/ Degraded \/ MovesDone \/ CutShort \/ MoveFailed
    BY <2>2 DEF Check, Degraded, MovesDone, CutShort, MoveFailed
  <2>3. CASE Plan
    BY <2>3 DEF Plan
  <2>4. CASE ReadRules
    BY <1>3, <2>4 DEF ReadRules
  <2>5. CASE LeaveAlone
    BY <2>5 DEF LeaveAlone
  <2>6. CASE Send
    BY <2>6 DEF Send
  <2>7. CASE Arrived
    BY <2>7 DEF Arrived
  <2>8. CASE Verify
    BY <2>8 DEF Verify
  <2> QED
    BY <2>1, <2>2, <2>3, <2>4, <2>5, <2>6, <2>7, <2>8 DEF JobStep
<1>5. CASE \E why \in {"correct", "balance"} : StartJob(why)
  <2>1. /\ \/ \A v \in Guest : flight'[v] = NoNode
           \/ "flight" \in disturbed'
        /\ stage' = "check"
    BY <1>5 DEF StartJob
  <2>2. Flying' /\ Read' /\ Aloft'
    BY <2>1 DEF Flying, Read, Aloft
  <2> QED
    BY <1>2, <1>4, <2>2 DEF KeptInv, TypeOK
<1>6. CASE Check \/ Degraded \/ Plan \/ ReadRules \/ LeaveAlone \/ MovesDone \/ Verify
  <2>1. /\ stage \notin {"sent", "FAILED"} /\ flight' = flight /\ at' = at
        /\ "flight" \in disturbed' <=> "flight" \in disturbed
    BY <1>6 DEF Check, Degraded, Plan, ReadRules, LeaveAlone, MovesDone, Verify
  <2>4. stage' \in {"next", "sent"} /\ "rules" \notin disturbed' => rules' = InForce
    <3>1. CASE Check \/ Degraded \/ Plan \/ MovesDone \/ Verify
      BY <3>1 DEF Check, Degraded, Plan, MovesDone, Verify
    <3>2. CASE ReadRules
      BY <3>2 DEF ReadRules
    <3>3. CASE LeaveAlone
      BY <3>3 DEF LeaveAlone, KeptInv, Read
    <3> QED
      BY <1>6, <3>1, <3>2, <3>3
  <2>2. Flying' /\ Aloft'
    BY <2>1, NoneAloft DEF Flying, Aloft, KeptInv
  <2>3. Read'
    BY <1>2, <2>4 DEF Read
  <2> QED
    BY <1>2, <1>4, <2>2, <2>3 DEF KeptInv, TypeOK
<1>7. CASE Send
  <2>1. stage = "next" /\ stage' = "sent" /\ Stands /\ MayGo
        /\ disturbed' = disturbed \ {"places"}
        /\ flight' = [flight EXCEPT ![Move.guest] = Move.to]
        /\ UNCHANGED <<at, plan, rules, next>>
    BY <1>7 DEF Send
  <2>2. ASSUME "flight" \notin disturbed', NEW v \in Guest, flight'[v] # NoNode
        PROVE  Move.guest = v /\ flight'[v] = Move.to
    BY <2>1, <2>2, NoneAloft DEF KeptInv, TypeOK, JobTypes
  <2>3. Flying'
    BY <2>1, <2>2 DEF Flying, Move
  <2>4. Read'
    BY <1>2, <2>1 DEF Read, KeptInv
  <2>5. Aloft'
    <3> SUFFICES ASSUME disturbed' \cap {"rules", "places", "flight"} = {},
                        NEW v \in Guest, flight'[v] # NoNode
                 PROVE  v \in DOMAIN at /\ \A r \in InForce : ~Forbids(r, at, v, flight'[v])
      BY <1>2, <2>1 DEF Aloft
    <3>1. Move.guest = v /\ flight'[v] = Move.to
      BY <2>2
    <3>2. rules = InForce
      BY <2>1 DEF Read, KeptInv
    <3> QED
      BY <2>1, <3>1, <3>2 DEF Stands, MayGo
  <2> QED
    BY <1>2, <1>4, <2>3, <2>4, <2>5 DEF KeptInv, TypeOK
<1>8. CASE Arrived \/ MoveFailed
  <2>1. /\ flight' = flight /\ at' = at /\ disturbed' = disturbed /\ rules' = rules
        /\ stage \in {"next", "sent"} /\ stage' \in {"next", "FAILED", "PARTIALLY_SUCCEEDED"}
        /\ stage = "next" \/ flight[Move.guest] = NoNode
    BY <1>8 DEF Arrived, MoveFailed
  <2>2. "flight" \notin disturbed => \A v \in Guest : flight[v] = NoNode
    BY <2>1 DEF KeptInv, Flying
  <2>3. Flying' /\ Read' /\ Aloft'
    BY <1>2, <2>1, <2>2 DEF Flying, Read, Aloft, KeptInv
  <2> QED
    BY <1>2, <1>4, <2>3 DEF KeptInv, TypeOK
<1>9. CASE CutShort
  <2>1. /\ stage' = "FAILED"
        /\ UNCHANGED <<flight, at, disturbed, plan, next>>
    BY <1>9 DEF CutShort
  <2>2. Flying' /\ Read' /\ Aloft'
    BY <1>2, <2>1 DEF Flying, Read, Aloft, Move, KeptInv
  <2> QED
    BY <1>2, <1>4, <2>2 DEF KeptInv, TypeOK
<1> QED
  BY <1>5, <1>6, <1>7, <1>8, <1>9 DEF JobStep

\* A migration that ends is the only one of the job.
LEMMA ProxmoxKeeps ==
  ASSUME KeptInv, NEW v \in Guest, Arrive(v) \/ Stay(v)
  PROVE  KeptInv'
<1>1. /\ UNCHANGED <<ruleVars, jobVars, disturbed>>
      /\ flight[v] # NoNode /\ flight' = [flight EXCEPT ![v] = NoNode]
      /\ at' = at \/ at' = [at EXCEPT ![v] = flight[v]]
  BY DEF Arrive, Stay
<1>2. RuleTypes' /\ Removed' /\ InForce' = InForce
  BY <1>1 DEF KeptInv, TypeOK, RuleTypes, Live, Removed, Present, InForce, ruleVars
<1>3. JobTypes'
  BY <1>1 DEF KeptInv, TypeOK, JobTypes, jobVars
<1>4. /\ flight'[v] = NoNode
      /\ \A w \in Guest : flight'[w] # NoNode => flight[w] # NoNode /\ w # v
  BY <1>1 DEF KeptInv, TypeOK, JobTypes
<1>5. "flight" \notin disturbed' => \A w \in Guest : flight'[w] = NoNode
  BY <1>1, <1>4 DEF KeptInv, Flying
<1>6. Flying' /\ Aloft'
  BY <1>5 DEF Flying, Aloft
<1>7. Read'
  BY <1>1, <1>2 DEF KeptInv, Read, jobVars
<1> QED
  BY <1>2, <1>3, <1>6, <1>7 DEF KeptInv, TypeOK

LEMMA KeptInit == Init => KeptInv
<1> SUFFICES ASSUME Init PROVE KeptInv
  OBVIOUS
<1>1. /\ tick = [t \in Tick |-> Idle] /\ flight = [v \in Guest |-> NoNode]
      /\ stage = "none" /\ disturbed = {}
  BY DEF Init
<1>2. Removed
  BY <1>1 DEF Removed, Idle, NoRow
<1>3. Flying /\ Read /\ Aloft
  BY <1>1 DEF Flying, Read, Aloft
<1> QED
  BY <1>2, <1>3, InitType DEF KeptInv

LEMMA KeptStep == KeptInv /\ [Next]_vars => KeptInv'
<1> SUFFICES ASSUME KeptInv, [Next]_vars PROVE KeptInv'
  OBVIOUS
<1>1. CASE Person
  BY <1>1, PersonKeeps
<1>2. ASSUME NEW t \in Tick, TickStep(t) \/ TickFails(t)
      PROVE  KeptInv'
  <2>1. RuleTypes' /\ Removed' /\ InForce' = InForce /\ NotRules
    BY <1>2, TickKeeps DEF KeptInv
  <2>2. JobTypes' /\ Flying' /\ Read' /\ Aloft'
    BY <2>1 DEF NotRules, placeVars, jobVars, KeptInv, TypeOK, JobTypes, Flying, Read, Aloft, Move
  <2> QED
    BY <2>1, <2>2 DEF KeptInv, TypeOK
<1>3. CASE JobStep
  BY <1>3, JobKeeps
<1>4. CASE \E v \in Guest : Arrive(v) \/ Stay(v)
  BY <1>4, ProxmoxKeeps
<1>5. CASE UNCHANGED vars
  <2>1. UNCHANGED <<row, asked, ha, tick, raced>>
    BY <1>5 DEF vars, ruleVars
  <2>2. UNCHANGED <<at, flight, stage, plan, rules, next, done, disturbed>>
    BY <1>5 DEF vars, placeVars, jobVars
  <2>3. RuleTypes' /\ Removed' /\ InForce' = InForce
    BY <2>1 DEF KeptInv, TypeOK, RuleTypes, Live, Removed, Present, InForce
  <2>4. JobTypes' /\ Flying' /\ Read' /\ Aloft'
    BY <2>2, <2>3 DEF KeptInv, TypeOK, JobTypes, Flying, Read, Aloft, Move
  <2> QED
    BY <2>3, <2>4 DEF KeptInv, TypeOK
<1> QED
  BY <1>1, <1>2, <1>3, <1>4, <1>5 DEF Next

-----------------------------------------------------------------------------
\* A guest that goes where a rule allows it breaks a rule only if that was broken already,
\* or is one that need not be met: placementForbids looks at one guest, placementViolations
\* at all of them, and the first is enough.
LEMMA Landing ==
  ASSUME NEW r, NEW x, NEW v \in DOMAIN x, NEW n, ~Forbids(r, x, v, n),
         Violated(r, [x EXCEPT ![v] = n])
  PROVE  Violated(r, x) \/ Soft(r)
<1> DEFINE y == [x EXCEPT ![v] = n]
           here == Members(r) \cap DOMAIN x
<1>1. DOMAIN y = DOMAIN x /\ y[v] = n /\ \A w \in DOMAIN x : w # v => y[w] = x[w]
  OBVIOUS
<1>2. r.enabled
  BY DEF Violated
<1>3. CASE v \notin Members(r)
  <2>1. \A w \in here : y[w] = x[w]
    BY <1>1, <1>3
  <2> QED
    BY <1>1, <2>1 DEF Violated
<1>4. CASE v \in Members(r)
  <2>1. CASE r.kind = "KEEP_APART"
    BY <1>1, <1>2, <1>4, <2>1 DEF Violated, Forbids
  <2>2. CASE r.kind = "KEEP_TOGETHER"
    <3>1. PICK p \in here, q \in here : y[p] # y[q]
      BY <1>1, <2>2 DEF Violated
    <3>2. PICK w \in here : w # v /\ x[w] = n
      BY <1>1, <1>2, <1>4, <2>2, <3>1 DEF Forbids
    <3>3. x[p] # x[w] \/ x[q] # x[w]
      BY <1>1, <3>1, <3>2
    <3> QED
      BY <1>2, <2>2, <3>2, <3>3 DEF Violated
  <2>3. CASE r.kind = "PREFER_NODES"
    <3>1. PICK w \in here : y[w] \notin r.nodes
      BY <1>1, <2>3 DEF Violated
    <3>2. CASE w = v
      BY <1>1, <1>2, <1>4, <2>3, <3>1, <3>2 DEF Forbids, Soft
    <3>3. CASE w # v
      BY <1>1, <1>2, <2>3, <3>1, <3>3 DEF Violated
    <3> QED
      BY <3>2, <3>3
  <2> QED
    BY <2>1, <2>2, <2>3 DEF Violated
<1> QED
  BY <1>3, <1>4

\* Every row, tick and job stays of its type.
THEOREM TypeCorrect == Spec => []TypeOK
<1>1. KeptInv => TypeOK
  BY DEF KeptInv
<1> QED
  BY KeptInit, KeptStep, <1>1, PTL DEF Spec

\* A migration breaks no rule that held, whatever ticks, persons and Proxmox do, unless
\* somebody changed a rule since the job read them or moved a guest since it looked, or an
\* earlier job left a migration behind.
THEOREM MigrationsKeepRules == Spec => MovesKeepRules
<1> DEFINE Kept == at' # at /\ disturbed' \cap {"rules", "places", "flight"} = {} =>
                     \A r \in InForce : Violated(r, at') => Violated(r, at) \/ Soft(r)
<1>1. KeptInv /\ [Next]_vars => [Kept]_vars
  <2> SUFFICES ASSUME KeptInv, Next, at' # at,
                      disturbed' \cap {"rules", "places", "flight"} = {},
                      NEW r \in InForce, Violated(r, at')
               PROVE  Violated(r, at) \/ Soft(r)
    OBVIOUS
  <2>1. PICK v \in Guest : Arrive(v)
    <3>1. ~Person
      BY DEF Person, DeleteRule, CheckRule, CreateRule, UpdateRule, UpdateFindsNone, Written,
         ChangeInProxmox, StopByHand,
         MoveByHand, Disturb, placeVars
    <3>2. \A t \in Tick : ~TickStep(t) /\ ~TickFails(t)
      BY TickKeeps DEF KeptInv, NotRules, placeVars
    <3>3. ~JobStep
      BY DEF JobStep, StartJob, Check, Degraded, Plan, ReadRules, LeaveAlone, Send, Arrived,
         MoveFailed, CutShort, MovesDone, Verify, placeVars
    <3>4. \A v \in Guest : ~Stay(v)
      BY DEF Stay
    <3> QED
      BY <3>1, <3>2, <3>3, <3>4 DEF Next
  <2>2. /\ flight[v] # NoNode /\ disturbed' = disturbed
        /\ at' = [at EXCEPT ![v] = flight[v]]
    BY <2>1 DEF Arrive
  <2>3. v \in DOMAIN at /\ ~Forbids(r, at, v, flight[v])
    BY <2>2 DEF KeptInv, Aloft
  <2> QED
    BY <2>2, <2>3, Landing
<1> QED
  BY KeptInit, KeptStep, <1>1, PTL DEF Spec, MovesKeepRules
=============================================================================
