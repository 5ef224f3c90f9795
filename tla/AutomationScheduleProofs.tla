---------------------- MODULE AutomationScheduleProofs ----------------------
(***************************************************************************)
(* For any number of concurrent requests, any cron configs, budgets and     *)
(* crashes: the types, the budget of runs and the schedule.                *)
(***************************************************************************)
EXTENDS AutomationSchedule, TLAPS

(* Whoever has counted the runs still holds the row lock, so that nobody   *)
(* else can add one between the count and the commit.                      *)
CountIsLocked ==
  \A p \in Procs :
    /\ pc[p] \in {"locked", "admitted"} => locked = p
    /\ pc[p] = "admitted" => runs < MaxRuns

(* The slots that have fired lie in the past, as does the slot the loop is *)
(* working on, and the cursor of a direct target is beyond all of them.    *)
CursorIsAhead ==
  /\ \A s \in fired : s <= now
  /\ pc[Scanner] # "idle" => read[Scanner].next # Never /\ read[Scanner].next <= now
  /\ torn \/ target = "maintenance" \/ task.next = Never
       \/ \A s \in fired : s < task.next

BudgetInv == TypeOK /\ CountIsLocked /\ RunsWithinBudget
SlotInv == TypeOK /\ CursorIsAhead /\ SlotsFireOnce /\ ActiveIsScheduled

USE DEF Status, Procs, Never

-----------------------------------------------------------------------------
(* A cursor the loop or a patch computes is ahead of the clock, if any.     *)
LEMMA SlotsAreAhead ==
  ASSUME TypeOK, NEW c \in Configs
  PROVE  NextSlot[c][now] \in Nat /\ (NextSlot[c][now] # Never => NextSlot[c][now] > now)
BY SlotAssumption, ScheduleAssumption DEF TypeOK

(* The empty snapshot has the type of a snapshot.                          *)
LEMMA NoReadType == NoRead \in [status : Status, config : Configs, next : Nat]
BY SlotAssumption DEF NoRead

(* Every automation is created well typed.                                  *)
LEMMA TypeInit == Init => TypeOK
<1> SUFFICES ASSUME Init PROVE TypeOK
  OBVIOUS
<1>1. 0 \in 0..MaxTime /\ 0 \in 0..MaxCrashes
  BY ScheduleAssumption
<1>2. NextSlot[config][0] \in Nat
  BY <1>1, SlotAssumption DEF Init
<1>3. read \in [Procs -> [status : Status, config : Configs, next : Nat]]
  BY NoReadType DEF Init
<1> QED BY <1>1, <1>2, <1>3 DEF Init, TypeOK

(* Every step of the loop, of a request, of the clock or of a crash leaves *)
(* every variable in its type.                                             *)
LEMMA TypeStep == TypeOK /\ [Next]_autoVars => TypeOK'
<1> SUFFICES ASSUME TypeOK, [Next]_autoVars PROVE TypeOK'
  OBVIOUS
<1> USE NoReadType, ScheduleAssumption DEF TypeOK
<1>1. CASE Scan
  <2>1. CASE ListDue   BY <2>1 DEF ListDue, rowVars, fireVars
  <2>2. CASE ReadDue   BY <2>2 DEF ReadDue, Done, rowVars, fireVars
  <2>3. CASE AdvanceAlone
    BY <2>3, SlotsAreAhead DEF AdvanceAlone, AdvanceSchedule, WriteTask, Done, rowVars, fireVars
  <2>4. CASE ScanFails   BY <2>4 DEF ScanFails, Done, rowVars, fireVars
  <2> QED BY <1>1, <2>1, <2>2, <2>3, <2>4 DEF Scan
<1>2. ASSUME NEW p \in Procs, Fire(p) PROVE TypeOK'
  <2>1. CASE Preflight(p)   BY <2>1 DEF Preflight, Goto, rowVars, fireVars
  <2>2. CASE Lock(p)   BY <2>2 DEF Lock, Goto, rowVars, fireVars
  <2>3. CASE Admit(p)   BY <2>3 DEF Admit, Goto, rowVars, fireVars
  <2>4. CASE Commit(p)
    <3> DEFINE slots == IF p = Scanner THEN {read[p].next} ELSE {}
    <3>1. slots \in SUBSET Nat
      OBVIOUS
    <3>2. /\ runs' = runs + 1 /\ fired' = fired \union slots
          /\ repeated' = repeated \union (fired \intersect slots)
          /\ locked' \in {locked, Nobody}
      BY <2>4 DEF Commit, Unlock
    <3>3. /\ task' \in [status : Status, next : Nat] /\ torn' \in BOOLEAN
          /\ pc' \in [Procs -> {"idle", "listed", "preflight", "fire", "locked", "admitted",
                                "maintain", "advance", "row", "cursor", "write"}]
          /\ kind' \in [Procs -> {"none", "scan", "fire", "patch"}]
          /\ read' \in [Procs -> [status : Status, config : Configs, next : Nat]]
      <4>1. CASE target = "direct" /\ p = Scanner
        BY <2>4, <4>1, SlotsAreAhead DEF Commit, AdvanceSchedule, WriteTask, Done
      <4>2. CASE ~(target = "direct" /\ p = Scanner)
        BY <2>4, <4>2 DEF Commit, Goto
      <4> QED BY <4>1, <4>2
    <3> HIDE DEF slots
    <3>4. /\ runs' \in Nat /\ fired' \in SUBSET Nat /\ repeated' \in SUBSET Nat
          /\ locked' \in Procs \union {Nobody}
      BY <3>1, <3>2
    <3>5. UNCHANGED <<rowVars, now, crashes>>
      BY <2>4 DEF Commit
    <3> QED BY <3>3, <3>4, <3>5 DEF rowVars
  <2>5. CASE Maintained(p)
    <3>1. CASE p = Scanner
      BY <2>5, <3>1, SlotsAreAhead
      DEF Maintained, AdvanceSchedule, WriteTask, Done, rowVars, fireVars
    <3>2. CASE p # Scanner
      BY <2>5, <3>2 DEF Maintained, Goto, rowVars, fireVars
    <3> QED BY <3>1, <3>2
  <2>6. CASE Fails(p)   BY <2>6 DEF Fails, Unlock, Done, Goto, rowVars, fireVars
  <2> QED BY <1>2, <2>1, <2>2, <2>3, <2>4, <2>5, <2>6 DEF Fire
<1>3. ASSUME NEW r \in Requests, Request(r) PROVE TypeOK'
  <2>1. CASE RequestFire(r)   BY <2>1 DEF RequestFire, rowVars, fireVars
  <2>2. CASE RequestPatch(r)   BY <2>2 DEF RequestPatch, rowVars, fireVars
  <2>3. CASE ReadRow(r)   BY <2>3 DEF ReadRow, rowVars, fireVars
  <2>4. CASE ReadTask(r)   BY <2>4 DEF ReadTask, rowVars, fireVars
  <2>5. CASE RecordFire(r)
    BY <2>5 DEF RecordFire, WriteTask, Done, rowVars, fireVars
  <2>6. CASE WritePatch(r)
    BY <2>6, SlotsAreAhead DEF WritePatch, UpdateTask, WriteTask, Done, fireVars
  <2> QED BY <1>3, <2>1, <2>2, <2>3, <2>4, <2>5, <2>6 DEF Request
<1>4. CASE Tick   BY <1>4 DEF Tick, rowVars, fireVars, procVars
<1>5. CASE Crash   BY <1>5 DEF Crash, rowVars, fireVars
<1>6. CASE UNCHANGED autoVars   BY <1>6 DEF autoVars, rowVars, fireVars, procVars
<1> QED BY <1>1, <1>2, <1>3, <1>4, <1>5, <1>6 DEF Next

-----------------------------------------------------------------------------
(* The lock protects the count: no step of anybody breaks the budget.       *)
LEMMA BudgetStep == BudgetInv /\ [Next]_autoVars => BudgetInv'
<1> SUFFICES ASSUME BudgetInv, [Next]_autoVars PROVE CountIsLocked' /\ RunsWithinBudget'
  BY TypeStep DEF BudgetInv
<1> USE ScheduleAssumption DEF BudgetInv, TypeOK, CountIsLocked, RunsWithinBudget
<1>1. CASE Scan
  BY <1>1 DEF Scan, ListDue, ReadDue, AdvanceAlone, ScanFails, AdvanceSchedule, WriteTask,
              Done, rowVars, fireVars
<1>2. ASSUME NEW p \in Procs, Fire(p) PROVE CountIsLocked' /\ RunsWithinBudget'
  <2>1. CASE Preflight(p) \/ Admit(p)
    BY <2>1 DEF Preflight, Admit, Goto, rowVars, fireVars
  <2>2. CASE Lock(p)   BY <2>2 DEF Lock, Goto, rowVars, fireVars
  <2>3. CASE Commit(p)
    <3>1. \A q \in Procs \ {p} : pc[q] \notin {"locked", "admitted"}
      BY <2>3 DEF Commit
    <3>2. runs' = runs + 1 /\ runs < MaxRuns
      BY <2>3 DEF Commit
    <3>3. \A q \in Procs : pc'[q] \notin {"locked", "admitted"}
      BY <2>3, <3>1 DEF Commit, Goto, Done
    <3> QED BY <3>2, <3>3
  <2>4. CASE Maintained(p)
    BY <2>4 DEF Maintained, Goto, Done, fireVars
  <2>5. CASE Fails(p)
    <3>1. \A q \in Procs \ {p} : pc'[q] = pc[q]
      BY <2>5 DEF Fails, Goto, Done
    <3>2. pc'[p] \notin {"locked", "admitted"}
      BY <2>5 DEF Fails, Goto, Done
    <3>3. \A q \in Procs \ {p} : locked = q => locked' = q
      BY <2>5 DEF Fails, Unlock
    <3> QED BY <2>5, <3>1, <3>2, <3>3 DEF Fails, fireVars
  <2> QED BY <1>2, <2>1, <2>2, <2>3, <2>4, <2>5 DEF Fire
<1>3. ASSUME NEW r \in Requests, Request(r) PROVE CountIsLocked' /\ RunsWithinBudget'
  BY <1>3 DEF Request, RequestFire, RequestPatch, ReadRow, ReadTask, RecordFire, WritePatch,
              Done, rowVars, fireVars
<1>4. CASE Tick   BY <1>4 DEF Tick, rowVars, fireVars, procVars
<1>5. CASE Crash   BY <1>5 DEF Crash, rowVars, fireVars
<1>6. CASE UNCHANGED autoVars   BY <1>6 DEF autoVars, rowVars, fireVars, procVars
<1> QED BY <1>1, <1>2, <1>3, <1>4, <1>5, <1>6 DEF Next

-----------------------------------------------------------------------------
(* What a write of the cursor does for the schedule: if the read was stale *)
(* nothing is claimed any more, and if it was not the new cursor must be    *)
(* ahead of the clock, or have run dry, or be off, or be the old one.       *)
LEMMA WriteKeeps ==
  ASSUME SlotInv, TypeOK', NEW p \in Procs, NEW s \in Status, NEW next \in Nat,
         WriteTask(p, s, next),
         Fresh(p) => s = status',
         Fresh(p) => \/ next > now
                     \/ next = Never /\ RanDry'
                     \/ s # "active"
                     \/ /\ s = status /\ next = task.next
                        /\ UNCHANGED <<config, now, fired>>,
         \A t \in fired' : t <= now,
         target' = target
  PROVE  /\ torn' \/ target' = "maintenance" \/ task'.next = Never
              \/ \A t \in fired' : t < task'.next
         /\ ActiveIsScheduled'
<1>1. CASE ~Fresh(p) \/ torn
  BY <1>1 DEF WriteTask, ActiveIsScheduled
<1>2. CASE Fresh(p) /\ ~torn
  <2>1. /\ task'.status = s
        /\ task'.next = IF s = "active" THEN next ELSE Never
        /\ s = status'
    BY <1>2 DEF WriteTask
  <2>2. CASE s # "active"
    BY <2>1, <2>2 DEF ActiveIsScheduled
  <2>3. CASE s = "active" /\ next > now
    <3>1. \A t \in fired' : t < next
      BY <2>3 DEF SlotInv, TypeOK
    <3>2. next # Never
      BY <2>3 DEF SlotInv, TypeOK
    <3> QED BY <2>1, <2>3, <3>1, <3>2 DEF ActiveIsScheduled
  <2>4. CASE s = "active" /\ s = status /\ next = task.next /\ UNCHANGED <<config, now, fired>>
    BY <1>2, <2>1, <2>4 DEF SlotInv, CursorIsAhead, ActiveIsScheduled, RanDry
  <2>5. CASE s = "active" /\ next = Never /\ RanDry'
    BY <2>1, <2>5 DEF ActiveIsScheduled
  <2> QED BY <1>2, <2>2, <2>3, <2>4, <2>5
<1> QED BY <1>1, <1>2

(* An automation is created with its first slot ahead and nothing fired.    *)
LEMMA SlotInit == Init => SlotInv
<1> SUFFICES ASSUME Init PROVE SlotInv
  OBVIOUS
<1>1. TypeOK
  BY TypeInit
<1> QED BY <1>1 DEF Init, SlotInv, CursorIsAhead, SlotsFireOnce, ActiveIsScheduled

(* No step of anybody lets a slot fire twice or the cursor and the row     *)
(* disagree, unless the cursor is written from a stale read.               *)
LEMMA SlotStep == SlotInv /\ [Next]_autoVars => SlotInv'
<1> SUFFICES ASSUME SlotInv, [Next]_autoVars
             PROVE  CursorIsAhead' /\ SlotsFireOnce' /\ ActiveIsScheduled'
  BY TypeStep DEF SlotInv
<1> DEFINE Goal == CursorIsAhead' /\ SlotsFireOnce' /\ ActiveIsScheduled'
<1>t. TypeOK /\ TypeOK' /\ Scanner \in Procs
  BY TypeStep DEF SlotInv
(* The steps that write neither the cursor nor the row nor a fire.         *)
<1>q. ASSUME UNCHANGED <<rowVars, task, fireVars, torn>>, now' >= now,
             pc'[Scanner] # "idle" =>
               \/ pc[Scanner] # "idle" /\ read'[Scanner].next = read[Scanner].next
               \/ read'[Scanner].next \in 1..now
      PROVE  Goal
  <2>1. 0..now \subseteq 0..now'
    BY <1>q, <1>t DEF TypeOK
  <2>2. RanDry => RanDry'
    BY <1>q, <2>1 DEF RanDry, rowVars
  <2> QED
    BY <1>q, <1>t, <2>2
    DEF SlotInv, TypeOK, CursorIsAhead, SlotsFireOnce, ActiveIsScheduled, rowVars, fireVars
(* The steps that write the cursor and fire nothing.                       *)
<1>w. ASSUME NEW p \in Procs, NEW s \in Status, NEW next \in Nat, WriteTask(p, s, next),
             Fresh(p) => s = status',
             Fresh(p) => \/ next > now
                         \/ next = Never /\ RanDry'
                         \/ s # "active"
                         \/ s = status /\ next = task.next /\ config' = config,
             UNCHANGED <<target, now, fireVars>>,
             pc'[Scanner] # "idle" =>
               pc[Scanner] # "idle" /\ read'[Scanner].next = read[Scanner].next
      PROVE  Goal
  <2>1. /\ torn' \/ target' = "maintenance" \/ task'.next = Never
              \/ \A t \in fired' : t < task'.next
        /\ ActiveIsScheduled'
    BY <1>w, <1>t, WriteKeeps DEF SlotInv, CursorIsAhead, fireVars
  <2>2. torn => torn'
    BY <1>w DEF WriteTask
  <2> QED BY <1>w, <2>1, <2>2 DEF SlotInv, CursorIsAhead, SlotsFireOnce, fireVars
<1>a. ASSUME AdvanceSchedule(Scanner), pc'[Scanner] = "idle", UNCHANGED <<rowVars, now, fireVars>>
      PROVE  Goal
  <2> DEFINE next == NextSlot[read[Scanner].config][now]
  <2>1. next \in Nat /\ (next # Never => next > now)
    BY <1>t, SlotsAreAhead DEF TypeOK
  <2>2. read[Scanner].status \in Status /\ now \in 0..now
    BY <1>t DEF TypeOK
  <2>3. Fresh(Scanner) => read[Scanner].status = status' /\ read[Scanner].config = config
    BY <1>a DEF Fresh, rowVars
  <2>4. Fresh(Scanner) /\ next = Never => RanDry'
    BY <1>a, <2>2, <2>3 DEF RanDry, rowVars
  <2>5. WriteTask(Scanner, read[Scanner].status, next)
    BY <1>a DEF AdvanceSchedule
  <2> HIDE DEF next
  <2> QED BY <1>a, <1>t, <1>w, <2>1, <2>2, <2>3, <2>4, <2>5 DEF rowVars
<1> HIDE DEF Goal
<1>1. ASSUME Scan PROVE Goal
  <2>1. CASE ListDue
    BY <2>1, <1>q, <1>t DEF ListDue, TypeOK
  <2>2. CASE ReadDue
    BY <2>2, <1>q, <1>t DEF ReadDue, Done, TypeOK
  <2>3. CASE AdvanceAlone
    BY <2>3, <1>a, <1>t DEF AdvanceAlone, Done, TypeOK
  <2>4. CASE ScanFails
    BY <2>4, <1>q, <1>t DEF ScanFails, Done, TypeOK
  <2> QED BY <1>1, <2>1, <2>2, <2>3, <2>4 DEF Scan
<1>2. ASSUME NEW p \in Procs, Fire(p) PROVE Goal
  <2>1. CASE Preflight(p) \/ Lock(p) \/ Admit(p)
    BY <2>1, <1>q, <1>t DEF Preflight, Lock, Admit, Goto, TypeOK
  <2>2. CASE Commit(p)
    <3>1. CASE target = "direct" /\ p = Scanner
      <4> DEFINE next == NextSlot[read[p].config][now]
      <4>1. next \in Nat /\ (next # Never => next > now) /\ now \in 0..now
        BY <1>t, SlotsAreAhead DEF TypeOK
      <4>2. /\ read[p].status \in Status /\ read[p].next \in Nat
            /\ read[p].next # Never /\ read[p].next <= now
        BY <2>2, <3>1, <1>t DEF Commit, SlotInv, CursorIsAhead, TypeOK
      <4>3. /\ WriteTask(p, read[p].status, next)
            /\ fired' = fired \union {read[p].next}
            /\ repeated' = repeated \union (fired \intersect {read[p].next})
            /\ UNCHANGED <<status, config, target, now>>
            /\ pc'[Scanner] = "idle"
        BY <2>2, <3>1, <1>t DEF Commit, AdvanceSchedule, Done, rowVars, TypeOK
      <4>4. Fresh(p) /\ next = Never => RanDry'
        BY <4>1, <4>3 DEF Fresh, RanDry
      <4> HIDE DEF next
      <4>5. \A t \in fired' : t <= now
        BY <4>2, <4>3 DEF SlotInv, CursorIsAhead
      <4>6. Fresh(p) => read[p].status = status'
        BY <4>3 DEF Fresh
      <4>7. /\ torn' \/ target' = "maintenance" \/ task'.next = Never
                  \/ \A t \in fired' : t < task'.next
            /\ ActiveIsScheduled'
        BY <4>1, <4>2, <4>3, <4>5, <4>6, <4>4, <1>t, WriteKeeps
      <4>8. torn \/ ~Fresh(p) \/ fired \intersect {read[p].next} = {}
        <5>1. Fresh(p) => read[p].next = task.next
          BY DEF Fresh
        <5>2. torn \/ task.next = Never \/ \A t \in fired : t < task.next
          BY <3>1 DEF SlotInv, CursorIsAhead
        <5> QED BY <5>1, <5>2, <4>2, <1>t DEF TypeOK
      <4>9. SlotsFireOnce'
        BY <4>3, <4>8, <3>1 DEF SlotInv, SlotsFireOnce, WriteTask
      <4> QED BY <4>3, <4>5, <4>7, <4>9 DEF Goal, CursorIsAhead
    <3>2. CASE target = "maintenance" /\ p = Scanner
      <4>1. /\ read[p].next \in Nat /\ read[p].next # Never /\ read[p].next <= now
            /\ pc[Scanner] # "idle"
        BY <2>2, <3>2, <1>t DEF Commit, SlotInv, CursorIsAhead, TypeOK
      <4>2. /\ fired' = fired \union {read[p].next}
            /\ UNCHANGED <<status, config, target, now, task, torn, read>>
        BY <2>2, <3>2 DEF Commit, Goto, rowVars
      <4> QED BY <3>2, <4>1, <4>2
              DEF Goal, SlotInv, CursorIsAhead, SlotsFireOnce, ActiveIsScheduled, RanDry
    <3>3. CASE p # Scanner
      <4>1. /\ fired' = fired /\ repeated' = repeated
            /\ UNCHANGED <<status, config, target, now, task, torn, read>>
            /\ pc'[Scanner] = pc[Scanner]
        BY <2>2, <3>3, <1>t DEF Commit, Goto, rowVars, TypeOK
      <4> QED BY <4>1
              DEF Goal, SlotInv, CursorIsAhead, SlotsFireOnce, ActiveIsScheduled, RanDry
    <3> QED BY <3>1, <3>2, <3>3, <1>t DEF TypeOK
  <2>3. CASE Maintained(p)
    <3>1. CASE p = Scanner
      BY <2>3, <3>1, <1>a, <1>t DEF Maintained, Done, TypeOK
    <3>2. CASE p # Scanner
      BY <2>3, <3>2, <1>q, <1>t DEF Maintained, Goto, TypeOK
    <3> QED BY <3>1, <3>2
  <2>4. CASE Fails(p)
    <3>1. UNCHANGED <<rowVars, task, fireVars, torn, now>>
      BY <2>4 DEF Fails
    <3>2. pc'[Scanner] # "idle" =>
            pc[Scanner] # "idle" /\ read'[Scanner].next = read[Scanner].next
      BY <2>4, <1>t DEF Fails, Goto, Done, TypeOK
    <3> QED BY <3>1, <3>2, <1>q, <1>t DEF TypeOK
  <2> QED BY <1>2, <2>1, <2>2, <2>3, <2>4 DEF Fire
<1>3. ASSUME NEW r \in Requests, Request(r) PROVE Goal
  <2>0. r \in Procs /\ r # Scanner
    BY ScheduleAssumption
  <2>1. CASE RequestFire(r)
    BY <2>1, <2>0, <1>q, <1>t DEF RequestFire, TypeOK
  <2>2. CASE RequestPatch(r)
    BY <2>2, <2>0, <1>q, <1>t DEF RequestPatch, TypeOK
  <2>3. CASE ReadRow(r)
    BY <2>3, <2>0, <1>q, <1>t DEF ReadRow, TypeOK
  <2>4. CASE ReadTask(r)
    BY <2>4, <2>0, <1>q, <1>t DEF ReadTask, TypeOK
  <2>5. CASE RecordFire(r)
    <3>1. read[r].status \in Status /\ read[r].next \in Nat
      BY <2>0, <1>t DEF TypeOK
    <3>2. /\ pc'[Scanner] = pc[Scanner] /\ read'[Scanner] = read[Scanner]
          /\ UNCHANGED <<status, config, target, now, fireVars>>
          /\ WriteTask(r, read[r].status, read[r].next)
      BY <2>5, <2>0, <1>t DEF RecordFire, Done, TypeOK, rowVars
    <3>3. Fresh(r) => read[r].status = status' /\ read[r].status = status
                      /\ read[r].next = task.next
      BY <3>2 DEF Fresh
    <3> QED BY <2>0, <3>1, <3>2, <3>3, <1>w
  <2>6. CASE WritePatch(r)
    <3>1. PICK s \in Status, c \in Configs, newStatus \in BOOLEAN, newConfig \in BOOLEAN :
            /\ status' = IF newStatus THEN s ELSE status
            /\ config' = IF newConfig THEN c ELSE config
            /\ UpdateTask(r, s, c, newStatus, newConfig)
      BY <2>6 DEF WritePatch
    <3>2. /\ pc'[Scanner] = pc[Scanner] /\ read'[Scanner] = read[Scanner]
          /\ UNCHANGED <<target, now, fireVars>>
      BY <2>6, <2>0, <1>t DEF WritePatch, Done, TypeOK
    <3> DEFINE newS == IF newStatus THEN s ELSE read[r].status
               newC == IF newConfig THEN c ELSE read[r].config
               afresh == newConfig \/ (newStatus /\ s = "active")
               next == IF afresh THEN NextSlot[newC][now] ELSE read[r].next
    <3>3. newS \in Status /\ newC \in Configs /\ read[r].next \in Nat
      BY <2>0, <1>t DEF TypeOK
    <3>4. WriteTask(r, newS, next) /\ (afresh => NextSlot[newC][now] # Never)
      BY <3>1 DEF UpdateTask
    <3>5. next \in Nat /\ (afresh => next > now)
      BY <3>3, <3>4, <1>t, SlotsAreAhead
    <3>6. Fresh(r) => newS = status'
      BY <3>1 DEF Fresh
    <3>7. Fresh(r) => \/ afresh
                      \/ newS # "active"
                      \/ newS = status /\ next = task.next /\ config' = config
      BY <3>1 DEF Fresh
    <3> HIDE DEF newS, newC, afresh, next
    <3> QED BY <2>0, <3>2, <3>3, <3>4, <3>5, <3>6, <3>7, <1>w
  <2> QED BY <1>3, <2>1, <2>2, <2>3, <2>4, <2>5, <2>6 DEF Request
<1>4. ASSUME Tick PROVE Goal
  BY <1>4, <1>q, <1>t DEF Tick, procVars, TypeOK
<1>5. ASSUME Crash PROVE Goal
  BY <1>5, <1>q, <1>t DEF Crash, TypeOK
<1>6. ASSUME UNCHANGED autoVars PROVE Goal
  BY <1>6, <1>q, <1>t DEF autoVars, procVars, TypeOK
<1> QED BY <1>1, <1>2, <1>3, <1>4, <1>5, <1>6 DEF Next, Goal

-----------------------------------------------------------------------------
(* Every reachable state is well typed.                                     *)
THEOREM ScheduleTypeCorrect == Spec => []TypeOK
<1> QED BY TypeInit, TypeStep, PTL DEF Spec

(* max_runs is never exceeded, whatever the fires by hand and on schedule   *)
(* that race, crash and retry.                                             *)
THEOREM BudgetHolds == Spec => []RunsWithinBudget
<1>1. Init => BudgetInv
  BY TypeInit, ScheduleAssumption DEF Init, BudgetInv, CountIsLocked, RunsWithinBudget
<1>2. BudgetInv => RunsWithinBudget
  BY DEF BudgetInv
<1> QED BY <1>1, <1>2, BudgetStep, PTL DEF Spec

(* As long as no write of the cursor uses a stale read, a direct target     *)
(* fires at most once for a slot, and the cursor is on exactly when the    *)
(* automation is active.                                                   *)
THEOREM ScheduleIsSound == Spec => [](SlotsFireOnce /\ ActiveIsScheduled)
<1>1. SlotInv => SlotsFireOnce /\ ActiveIsScheduled
  BY DEF SlotInv
<1> QED BY <1>1, SlotInit, SlotStep, PTL DEF Spec

=============================================================================
