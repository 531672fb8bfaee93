----------------------------- MODULE Placement -----------------------------
\* Workload placement (apps/worker/src/placement, apps/api/src/modules/placement): a cluster's
\* rules, the ticks that write them into Proxmox's HA rules and read them back, and the job
\* that moves guests until the rules are met.
\*
\* A tick is one call of keepPlacement on a timer that does not wait for the call before it,
\* so that several are at work at once. The job holds the cluster's key: one at a time.
EXTENDS PlacementPlan

CONSTANTS
  Guest,
  RuleId,      \* the rules a person may make
  Choice,      \* what each may say: [RuleId -> set of rules]
  NoRule,
  Tick,        \* the calls of keepPlacement that may overlap
  Situation,   \* the starts: [pve9, rules, at, open, jobs, edits, byHand, troubles], the last
               \* five the bounds: the rules that are changed, and how many jobs, changes to
               \* rules, changes in Proxmox by hand and failures there are
  NoNode

Rule == UNION {Choice[r] : r \in RuleId}

ASSUME PlacementAssumption ==
  /\ NoRule \notin RuleId \cup Rule /\ NoNode \notin Node
  /\ \A s \in Situation : /\ s.rules \in [RuleId -> Rule \cup {NoRule}]
                         /\ DOMAIN s.at \subseteq Guest

VARIABLES
  pve9,        \* whether every node runs PVE 9
  row,         \* placement_rules: [state, rule, shown]
  asked,       \* for each rule what a person makes of it, checked and not yet written, or NoRule
  ha,          \* Proxmox's HA rule for each rule, or NoRule
  tick,
  raced,       \* the rules a tick read as removed while another had read them as live
  at,          \* the node of each running guest
  flight,      \* the target of the migration each guest is in, or NoNode
  stage,       \* of the job: a step of it, or how it ended
  reason,      \* of the job: "correct" or "balance"
  plan,        \* of the job: [moves, unresolved, twice]
  rules,       \* of the job: the rules as its move step read them
  next,        \* of the job: the move it is at
  done,        \* of the job: how many moves were made
  disturbed,   \* what was changed behind the job's back: see Disturb
  left         \* what is left of the bounds

ruleVars == <<pve9, row, asked, ha, tick, raced>>
placeVars == <<at, flight>>
jobVars == <<stage, reason, plan, rules, next, done>>
vars == <<ruleVars, placeVars, jobVars, disturbed, left>>

Live == {r \in RuleId : row[r].state = "live"}
InForce == {row[r].rule : r \in {r \in Live : row[r].rule.enabled}}

NoRow == [state |-> "none", rule |-> NoRule, shown |-> "pending"]
Idle == [phase |-> "idle", seen |-> [r \in RuleId |-> NoRow], have |-> [r \in RuleId |-> NoRule],
         todo |-> {}, wrote |-> {}, dropping |-> NoRule]
NoPlan == [moves |-> <<>>, unresolved |-> FALSE, twice |-> FALSE]

Init ==
  \E s \in Situation :
    /\ pve9 = s.pve9
    /\ row = [r \in RuleId |->
               [state |-> IF s.rules[r] = NoRule THEN "none" ELSE "live",
                rule |-> s.rules[r], shown |-> "pending"]]
    /\ asked = [r \in RuleId |-> NoRule] /\ ha = [r \in RuleId |-> NoRule]
    /\ tick = [t \in Tick |-> Idle]
    /\ raced = {}
    /\ at = s.at
    /\ flight = [v \in Guest |-> NoNode]
    /\ stage = "none" /\ reason = "correct" /\ plan = NoPlan
    /\ rules = {} /\ next = 1 /\ done = 0
    /\ disturbed = {}
    /\ left = [open |-> s.open, jobs |-> s.jobs, edits |-> s.edits,
               byHand |-> s.byHand, troubles |-> s.troubles]

-----------------------------------------------------------------------------
\* What a person does. A rule is checked against the others as they are, and then written:
\* meanwhile another may be, or this one removed. One change of a rule is asked for at a time.

\* A change the job in progress may not have seen: of the rules it keeps for its moves, of the
\* places it checks a move against, of either since it made its plan. What an earlier job left
\* on its way is one it never sees.
Disturb(what) == disturbed' = disturbed \cup {what, "plan"}

Acceptable(r, c) == c.enabled => \A s \in Live \ {r} : ~Contradicts(c, row[s].rule)

MayEdit(r) == r \in left.open /\ left.edits > 0 /\ left' = [left EXCEPT !.edits = @ - 1]

CheckRule(r, c) ==
  /\ MayEdit(r)
  /\ row[r].state \in {"none", "live"} /\ row[r].rule # c
  /\ asked[r] = NoRule /\ Acceptable(r, c)
  /\ asked' = [asked EXCEPT ![r] = c]
  /\ UNCHANGED <<pve9, row, ha, tick, raced, placeVars, jobVars, disturbed>>

Written(r) ==
  /\ asked[r] # NoRule /\ asked' = [asked EXCEPT ![r] = NoRule]
  /\ UNCHANGED <<pve9, ha, tick, raced, placeVars, jobVars, left>>

CreateRule(r) ==
  /\ Written(r) /\ row[r].state = "none"
  /\ row' = [row EXCEPT ![r] = [state |-> "live", rule |-> asked[r], shown |-> "pending"]]
  /\ Disturb("rules")

\* A rule that was held is held no more: it changed since. An error stays until the next look.
\* A rule removed meanwhile stays removed.
UpdateRule(r) ==
  /\ Written(r) /\ row[r].state \in {"live", "removed"}
  /\ row' = [row EXCEPT ![r] = [state |-> row[r].state, rule |-> asked[r],
                                shown |-> IF row[r].shown = "error" THEN "error" ELSE "pending"]]
  /\ Disturb("rules")

UpdateFindsNone(r) ==
  /\ Written(r) /\ row[r].state = "gone"
  /\ UNCHANGED <<row, disturbed>>

\* On PVE 8 a removed rule goes with its removal, and nothing is written.
DeleteRule(r) ==
  /\ MayEdit(r)
  /\ row[r].state = "live"
  /\ row' = [row EXCEPT ![r].state = IF pve9 THEN "removed" ELSE "gone"]
  /\ Disturb("rules")
  /\ UNCHANGED <<pve9, asked, ha, tick, raced, placeVars, jobVars>>

\* In Proxmox: a rule changed or removed, a guest moved or stopped.
ByHand == left.byHand > 0 /\ left' = [left EXCEPT !.byHand = @ - 1]

ChangeInProxmox(r, c) ==
  /\ ByHand
  /\ ha[r] # NoRule /\ ha[r] # c
  /\ ha' = [ha EXCEPT ![r] = c]
  /\ UNCHANGED <<pve9, row, asked, tick, raced, placeVars, jobVars, disturbed>>

MoveByHand(v, n) ==
  /\ ByHand
  /\ v \in DOMAIN at /\ at[v] # n /\ flight[v] = NoNode
  /\ at' = [at EXCEPT ![v] = n]
  /\ Disturb("places")
  /\ UNCHANGED <<ruleVars, flight, jobVars>>

StopByHand(v) ==
  /\ ByHand
  /\ v \in DOMAIN at /\ flight[v] = NoNode
  /\ at' = [w \in DOMAIN at \ {v} |-> at[w]]
  /\ Disturb("places")
  /\ UNCHANGED <<ruleVars, flight, jobVars>>

-----------------------------------------------------------------------------
\* A tick: read the rules, read Proxmox's, write each that differs and drop each removed one,
\* read Proxmox's again, mark each rule as held or not.

Trouble == left.troubles > 0 /\ left' = [left EXCEPT !.troubles = @ - 1]

NotRules == UNCHANGED <<asked, placeVars, jobVars, disturbed>>

Present(rows) == {r \in RuleId : rows[r].state \in {"live", "removed"}}
SeenLive(t) == {r \in RuleId : tick[t].seen[r].state = "live"}

ReadRows(t) ==
  /\ pve9 /\ tick[t].phase = "idle"
  /\ Present(row) # {}
  /\ tick' = [tick EXCEPT ![t].phase = "list", ![t].seen = row]
  /\ raced' = raced \cup {r \in RuleId : row[r].state = "removed" /\
                             \E u \in Tick \ {t} : r \in SeenLive(u)}
  /\ UNCHANGED <<pve9, row, ha, left>> /\ NotRules

ListRules(t) ==
  /\ tick[t].phase = "list"
  /\ tick' = [tick EXCEPT ![t].phase = "write", ![t].have = ha,
                          ![t].todo = Present(tick[t].seen)]
  /\ UNCHANGED <<pve9, row, ha, raced, left>> /\ NotRules

\* Proxmox's rules cannot be read: every live rule is marked so.
ListFails(t) ==
  /\ tick[t].phase = "list" /\ Trouble
  /\ tick' = [tick EXCEPT ![t].phase = "mark", ![t].todo = SeenLive(t)]
  /\ UNCHANGED <<pve9, row, ha, raced>> /\ NotRules

\* Proxmox creates no rule it has and changes none it has not, and may refuse either.
WriteUnlessThere(t, r) ==  \* mutant: a rule that is there is taken for the same
  LET wrote == IF tick[t].have[r] = NoRule /\ ha[r] = NoRule THEN {r} ELSE {} IN
  /\ tick[t].phase = "write" /\ r \in tick[t].todo \cap SeenLive(t)
  /\ ha' = [x \in RuleId |-> IF x \in wrote THEN tick[t].seen[r].rule ELSE ha[x]]
  /\ tick' = [tick EXCEPT ![t].todo = @ \ {r}, ![t].wrote = @ \cup wrote]
  /\ UNCHANGED <<pve9, row, raced, left>> /\ NotRules

WriteRule(t, r) ==
  LET same == tick[t].have[r] = tick[t].seen[r].rule
      taken == (tick[t].have[r] = NoRule) = (ha[r] = NoRule)
      wrote == IF ~same /\ taken THEN {r} ELSE {}
  IN
  /\ tick[t].phase = "write" /\ r \in tick[t].todo \cap SeenLive(t)
  /\ ha' = [x \in RuleId |-> IF x \in wrote THEN tick[t].seen[r].rule ELSE ha[x]]
  /\ tick' = [tick EXCEPT ![t].todo = @ \ {r}, ![t].wrote = @ \cup wrote]
  /\ UNCHANGED <<pve9, row, raced, left>> /\ NotRules

\* A removed rule is removed in Proxmox first, if it was there; if that fails its row stays
\* for the next tick.
RemoveRule(t, r) ==
  /\ tick[t].phase = "write" /\ r \in tick[t].todo \ SeenLive(t)
  /\ \/ /\ tick[t].have[r] # NoRule /\ ha[r] = NoRule
        /\ tick' = [tick EXCEPT ![t].todo = @ \ {r}]
        /\ UNCHANGED ha
     \/ /\ tick[t].have[r] # NoRule => ha[r] # NoRule
        /\ tick' = [tick EXCEPT ![t].phase = "drop", ![t].todo = @ \ {r}, ![t].dropping = r]
        /\ ha' = IF tick[t].have[r] # NoRule THEN [ha EXCEPT ![r] = NoRule] ELSE ha
  /\ UNCHANGED <<pve9, row, raced, left>> /\ NotRules

DropRow(t) ==
  /\ tick[t].phase = "drop"
  /\ row' = [row EXCEPT ![tick[t].dropping].state = "gone"]
  /\ tick' = [tick EXCEPT ![t].phase = "write", ![t].dropping = NoRule]
  /\ UNCHANGED <<pve9, ha, raced, left>> /\ NotRules

Refused(t, r) ==
  /\ tick[t].phase = "write" /\ r \in tick[t].todo /\ Trouble
  /\ tick' = [tick EXCEPT ![t].todo = @ \ {r}]
  /\ UNCHANGED <<pve9, row, ha, raced>> /\ NotRules

ReadBack(t) ==
  /\ tick[t].phase = "write" /\ tick[t].todo = {}
  /\ tick' = [tick EXCEPT ![t].phase = "mark", ![t].have = ha, ![t].todo = SeenLive(t)]
  /\ UNCHANGED <<pve9, row, ha, raced, left>> /\ NotRules

\* The mark is written with the time of the change the tick had seen, whatever changed since,
\* so that a rule marked as held is shown as held. A rule that is still held as it was is not
\* marked again, nor one with the same error; a row that is gone ends the tick.
MarkRow(t, r) ==
  LET seen == tick[t].seen[r]
      held == tick[t].have[r] = seen.rule
      kept == held /\ r \notin tick[t].wrote /\ seen.shown = "held"
  IN
  /\ tick[t].phase = "mark" /\ r \in tick[t].todo
  /\ \/ /\ kept \/ (~held /\ seen.shown = "error")
        /\ tick' = [tick EXCEPT ![t].todo = @ \ {r}]
        /\ UNCHANGED row
     \/ /\ ~kept /\ row[r].state # "gone"
        /\ tick' = [tick EXCEPT ![t].todo = @ \ {r}]
        /\ row' = [row EXCEPT ![r].shown = IF held THEN "held" ELSE "error"]
     \/ /\ ~kept /\ row[r].state = "gone"
        /\ tick' = [tick EXCEPT ![t] = Idle]
        /\ UNCHANGED row
  /\ UNCHANGED <<pve9, ha, raced, left>> /\ NotRules

TickEnds(t) ==
  /\ tick[t].phase = "mark" /\ tick[t].todo = {}
  /\ tick' = [tick EXCEPT ![t] = Idle]
  /\ UNCHANGED <<pve9, row, ha, raced, left>> /\ NotRules

\* The worker dies, or a read or a write of its own fails.
TickDies(t) ==
  /\ tick[t].phase # "idle" /\ Trouble
  /\ tick' = [tick EXCEPT ![t] = Idle]
  /\ UNCHANGED <<pve9, row, ha, raced>> /\ NotRules

-----------------------------------------------------------------------------
\* The placement job: check, plan, move, verify. It holds the cluster's key: there is one.

Ended == {"none", "SUCCEEDED", "PARTIALLY_SUCCEEDED", "FAILED"}

\* By a person, or by the settings of the cluster when the inventory, which may be behind,
\* shows a rule not met or the memory uneven.
StartJob(why) ==
  /\ stage \in Ended
  /\ left.jobs > 0 /\ left' = [left EXCEPT !.jobs = @ - 1]
  /\ stage' = "check" /\ reason' = why /\ plan' = NoPlan
  /\ rules' = {} /\ next' = 1 /\ done' = 0
  /\ disturbed' = IF \A v \in Guest : flight[v] = NoNode THEN {} ELSE {"flight"}
  /\ UNCHANGED <<ruleVars, placeVars>>

Check ==
  /\ stage = "check" /\ stage' = "plan"
  /\ UNCHANGED <<ruleVars, placeVars, reason, plan, rules, next, done, disturbed, left>>

\* The cluster is not whole.
Degraded ==
  /\ stage = "check" /\ Trouble /\ stage' = "FAILED"
  /\ UNCHANGED <<ruleVars, placeVars, reason, plan, rules, next, done, disturbed>>

Plan ==
  /\ stage = "plan" /\ stage' = "move"
  /\ plan' \in IF reason = "correct" THEN Corrections(InForce, at) ELSE Balances(InForce, at)
  /\ disturbed' = disturbed \ {"plan"}
  /\ UNCHANGED <<ruleVars, placeVars, reason, rules, next, done, left>>

\* The rules are read once, for all of the moves.
ReadRules ==
  /\ stage = "move" /\ stage' = "next"
  /\ rules' = InForce
  /\ disturbed' = disturbed \ {"rules"}
  /\ UNCHANGED <<ruleVars, placeVars, reason, plan, next, done, left>>

\* Each move is looked at again: the guest still where it was planned from, the rules, as they
\* were read, still allowing it. Otherwise it is left alone.
Move == plan.moves[next]
Stands == Move.guest \in DOMAIN at /\ at[Move.guest] = Move.from

MayGoUnasked == TRUE  \* mutant: the rules are not asked again
MayGo == \A r \in rules : ~Forbids(r, at, Move.guest, Move.to)

LeaveAlone ==
  /\ stage = "next" /\ next <= Len(plan.moves)
  /\ ~(Stands /\ MayGo)
  /\ next' = next + 1
  /\ disturbed' = disturbed \ {"places"}
  /\ UNCHANGED <<ruleVars, placeVars, stage, reason, plan, rules, done, left>>

Send ==
  /\ stage = "next" /\ next <= Len(plan.moves)
  /\ Stands /\ MayGo /\ flight[Move.guest] = NoNode
  /\ flight' = [flight EXCEPT ![Move.guest] = Move.to]
  /\ stage' = "sent"
  /\ disturbed' = disturbed \ {"places"}
  /\ UNCHANGED <<ruleVars, at, reason, plan, rules, next, done, left>>

\* In Proxmox: the guest arrives, or the migration fails and it stays.
Arrive(v) ==
  /\ flight[v] # NoNode
  /\ at' = [at EXCEPT ![v] = flight[v]]
  /\ flight' = [flight EXCEPT ![v] = NoNode]
  /\ UNCHANGED <<ruleVars, jobVars, disturbed, left>>

Stay(v) ==
  /\ flight[v] # NoNode /\ Trouble
  /\ flight' = [flight EXCEPT ![v] = NoNode]
  /\ UNCHANGED <<ruleVars, at, jobVars, disturbed>>

\* Where a guest is that was stopped since depends on how its migration went.
Arrived ==
  /\ stage = "sent" /\ flight[Move.guest] = NoNode
  /\ Move.guest \in DOMAIN at => at[Move.guest] = Move.to
  /\ stage' = "next" /\ next' = next + 1 /\ done' = done + 1
  /\ UNCHANGED <<ruleVars, placeVars, reason, plan, rules, disturbed, left>>

\* The migration failed or left the guest elsewhere, or Proxmox refused it, being at work on
\* another of the same guest.
MoveFailed ==
  /\ \/ /\ stage = "sent" /\ flight[Move.guest] = NoNode
        /\ Move.guest \in DOMAIN at => at[Move.guest] # Move.to
     \/ /\ stage = "next" /\ next <= Len(plan.moves)
        /\ Stands /\ MayGo /\ flight[Move.guest] # NoNode
  /\ stage' = IF done > 0 THEN "PARTIALLY_SUCCEEDED" ELSE "FAILED"
  /\ UNCHANGED <<ruleVars, placeVars, reason, plan, rules, next, done, disturbed, left>>

\* The wait for the migration is cut short, by time, a cancellation or the end of the worker,
\* or an answer of Proxmox does not come: the job fails, whatever it has moved, and a
\* migration goes on without it.
CutShort ==
  /\ stage \in {"plan", "move", "next", "sent", "verify"} /\ Trouble
  /\ stage' = "FAILED"
  /\ UNCHANGED <<ruleVars, placeVars, reason, plan, rules, next, done, disturbed>>

MovesDone ==
  /\ stage = "next" /\ next > Len(plan.moves)
  /\ stage' = "verify"
  /\ UNCHANGED <<ruleVars, placeVars, reason, plan, rules, next, done, disturbed, left>>

Unmet == {r \in InForce : Violated(r, at) /\ ~Soft(r)}

\* The job that came to its end has no next move.
Verify ==
  /\ stage = "verify" /\ next' = 0
  /\ stage' = IF reason # "correct" \/ Unmet = {} THEN "SUCCEEDED"
              ELSE IF plan.moves # <<>> THEN "PARTIALLY_SUCCEEDED" ELSE "FAILED"
  /\ UNCHANGED <<ruleVars, placeVars, reason, plan, rules, done, disturbed, left>>

-----------------------------------------------------------------------------
Person ==
  \/ \E r \in RuleId : CreateRule(r) \/ UpdateRule(r) \/ UpdateFindsNone(r) \/ DeleteRule(r)
  \/ \E r \in RuleId : \E c \in Choice[r] : CheckRule(r, c)
  \/ \E r \in RuleId : \E c \in Choice[r] \cup {NoRule} : ChangeInProxmox(r, c)
  \/ \E v \in Guest : StopByHand(v)
  \/ \E v \in Guest, n \in Node : MoveByHand(v, n)

TickStep(t) ==
  \/ ReadRows(t) \/ ListRules(t) \/ ReadBack(t) \/ DropRow(t) \/ TickEnds(t)
  \/ \E r \in RuleId : WriteRule(t, r) \/ RemoveRule(t, r) \/ MarkRow(t, r)

TickFails(t) == ListFails(t) \/ TickDies(t) \/ \E r \in RuleId : Refused(t, r)

JobStep ==
  \/ \E why \in {"correct", "balance"} : StartJob(why)
  \/ Check \/ Degraded \/ Plan \/ ReadRules \/ LeaveAlone \/ Send \/ Arrived \/ MoveFailed
  \/ CutShort \/ MovesDone \/ Verify

Next ==
  \/ Person
  \/ \E t \in Tick : TickStep(t) \/ TickFails(t)
  \/ JobStep
  \/ \E v \in Guest : Arrive(v) \/ Stay(v)

Spec == Init /\ [][Next]_vars

\* The timer fires again and again; a tick that is at work goes on until it ends or dies.
FairSpec == Spec /\ \A t \in Tick : WF_vars(TickStep(t))

-----------------------------------------------------------------------------
Row == [state : {"none", "live", "removed", "gone"}, rule : Rule \cup {NoRule},
        shown : {"pending", "held", "error"}]
At == [phase : {"idle", "list", "write", "drop", "mark"},
       seen : [RuleId -> Row], have : [RuleId -> Rule \cup {NoRule}],
       todo : SUBSET RuleId, wrote : SUBSET RuleId, dropping : RuleId \cup {NoRule}]

RuleTypes ==
  /\ row \in [RuleId -> Row] /\ ha \in [RuleId -> Rule \cup {NoRule}]
  /\ asked \in [RuleId -> Rule \cup {NoRule}]
  /\ tick \in [Tick -> At] /\ raced \subseteq RuleId
  /\ \A r \in Live : row[r].rule \in Rule

\* What a plan says is left out: it is a fold over the rules.
JobTypes ==
  /\ DOMAIN at \subseteq Guest /\ DOMAIN flight = Guest
  /\ stage \in Ended \cup {"check", "plan", "move", "next", "sent", "verify"}
  /\ next \in Nat /\ done \in Nat /\ rules \subseteq Rule
  /\ disturbed \subseteq {"rules", "places", "plan", "flight"}

TypeOK == RuleTypes /\ JobTypes

\* "Velnox's rule is the one that counts: a rule changed or removed in Proxmox is written
\* again. A rule removed in Velnox is removed from Proxmox, then from Velnox": once nobody
\* changes anything the two agree and the screen says so, however the ticks overlapped, unless
\* two ticks overlapped of which one had read a rule before its removal and one after it: the
\* first may write what the second no longer removes, and then nobody does.
RulesSettle ==
  pve9 => \A r \in RuleId : <>[](
    \/ row[r].state = "live" /\ ha[r] = row[r].rule /\ row[r].shown = "held"
    \/ row[r].state \in {"none", "gone"} /\ (ha[r] = NoRule \/ r \in raced))

\* "Without breaking another rule": a migration breaks no rule that held, unless somebody
\* changed a rule since the job read them, moved a guest since it looked, or an earlier job
\* left a migration behind.
MovesKeepRules ==
  [][at' # at /\ disturbed' \cap {"rules", "places", "flight"} = {} =>
       \A r \in InForce : Violated(r, at') => Violated(r, at) \/ Soft(r)]_vars

\* A correction that planned for everything, had nothing changed behind its back and made its
\* way to the end leaves every rule met, unless it planned twice for a guest: the two moves
\* become one, made before the move that was to clear its way.
CorrectionMends ==
  stage \in {"PARTIALLY_SUCCEEDED", "FAILED"} /\ next = 0
    => plan.unresolved \/ plan.twice \/ disturbed \cap {"plan", "flight"} # {}
=============================================================================
