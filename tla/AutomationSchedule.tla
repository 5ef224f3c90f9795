------------------------- MODULE AutomationSchedule -------------------------
(***************************************************************************)
(* One schedule automation (modules/automations): its row, its credential  *)
(* grant, its cursor in scheduler_tasks, the scheduler loop that fires it  *)
(* when it is due, and the requests that fire it by hand or patch it.      *)
(*                                                                         *)
(* The loop is sequential and one server runs it.  What a process reads     *)
(* before a step it keeps in read; the cursor is written from such reads by *)
(* an upsert that checks nothing.  A transaction that fires takes the row   *)
(* lock of the automation first and keeps it until it commits.             *)
(*                                                                         *)
(* The automation has no project, its agent uses the credential of a model  *)
(* provider, and its target does not change.  A target is "direct" when    *)
(* the run and the cursor are written by one transaction (agent runs,       *)
(* workflows) and "maintenance" when the run comes first (maintenance      *)
(* scans, context review cycles).                                          *)
(***************************************************************************)
EXTENDS Naturals

CONSTANTS
  Scanner,       \* the automation_scheduler loop
  Requests,      \* concurrent HTTP requests about the automation
  Configs,       \* the values config_json takes
  NextSlot,      \* computeNextRunAt: the next slot of a config after a time, or
                 \* Never when it throws: no slot within the two years it searches
  MaxRuns,       \* the contract's max_runs
  MaxTime,       \* bound on the clock
  MaxCrashes,    \* bound on server crashes
  Nobody         \* no transaction holds the row lock

Never == 0       \* NULL in next_run_at

ASSUME SlotAssumption ==
  /\ Configs # {}
  /\ NextSlot \in [Configs -> [0..MaxTime -> Nat]]
  /\ \A c \in Configs : \A t \in 0..MaxTime :
       NextSlot[c][t] # Never => NextSlot[c][t] > t
ASSUME ScheduleAssumption ==
  /\ MaxRuns \in Nat /\ MaxTime \in Nat /\ MaxCrashes \in Nat
  /\ Scanner \notin Requests /\ Nobody \notin Requests \union {Scanner}

VARIABLES
  status,        \* automations.status
  config,        \* automations.config_json, as far as computeNextRunAt reads it
  grant,         \* it has an active row in automation_credential_grants
  target,        \* how its target fires
  task,          \* scheduler_tasks: status and next_run_at
  now,           \* the clock
  runs,          \* its rows in automation_runs
  fired,         \* the slots it has fired for on schedule
  repeated,      \* the slots it has fired for more than once
  torn,          \* a read had gone stale when the cursor was written from it
  locked,        \* who holds the lock of the automations row
  pc, kind,      \* where each process is, and in what
  read,          \* what it has read of the row and the cursor
  crashes        \* crashes so far

rowVars == <<status, config, grant, target>>
fireVars == <<runs, fired, repeated>>
procVars == <<pc, kind, read>>
autoVars == <<rowVars, task, now, fireVars, torn, locked, procVars, crashes>>

Procs == Requests \union {Scanner}
Status == {"active", "paused", "archived"}
NoRead == [status |-> "active", config |-> CHOOSE c \in Configs : TRUE, next |-> Never]

(* createInCurrentUnit: the row, its cursor and its grant, in one step.     *)
Init ==
  /\ status = "active" /\ config \in Configs /\ grant = TRUE
  /\ NextSlot[config][0] # Never
  /\ target \in {"direct", "maintenance"}
  /\ task = [status |-> "active", next |-> NextSlot[config][0]]
  /\ now = 0 /\ runs = 0 /\ fired = {} /\ repeated = {} /\ torn = FALSE
  /\ locked = Nobody
  /\ pc = [p \in Procs |-> "idle"]
  /\ kind = [p \in Procs |-> "none"]
  /\ read = [p \in Procs |-> NoRead]
  /\ crashes = 0

-----------------------------------------------------------------------------
Goto(p, to) == pc' = [pc EXCEPT ![p] = to] /\ UNCHANGED <<kind, read>>

Done(p) ==
  /\ pc' = [pc EXCEPT ![p] = "idle"]
  /\ kind' = [kind EXCEPT ![p] = "none"]
  /\ read' = [read EXCEPT ![p] = NoRead]

Unlock(p) == locked' = IF locked = p THEN Nobody ELSE locked

(* What p read is still what the tables say.                               *)
Fresh(p) == read[p] = [status |-> status, config |-> config, next |-> task.next]

(* A definition X_Slip is a mutant of X: how X would read with a plausible  *)
(* bug, named by the slip, in the code.  Only the mutation checks that      *)
(* PROJECT.json lists use them.                                            *)
WriteTask_JobStatus(p, s, next) ==
  /\ task' = IF s = "active" THEN [status |-> "pending", next |-> next]
                              ELSE [status |-> s, next |-> Never]
  /\ torn' = (torn \/ ~Fresh(p))

(* upsertSchedulerTask: a cursor that is not active has no next run.       *)
WriteTask(p, s, next) ==
  /\ task' = [status |-> s, next |-> IF s = "active" THEN next ELSE Never]
  /\ torn' = (torn \/ ~Fresh(p))

AdvanceSchedule_KeepsSlot(p) == WriteTask(p, read[p].status, read[p].next)

(* advanceSchedule takes status and config from the row its caller read,   *)
(* and writes no next run when there is none to be found.                  *)
AdvanceSchedule(p) == WriteTask(p, read[p].status, NextSlot[read[p].config][now])

-----------------------------------------------------------------------------
(* scanAndFire: the due cursors first, then the row of each.               *)

ListDue ==
  /\ pc[Scanner] = "idle"
  /\ task.status = "active" /\ task.next # Never /\ task.next <= now
  /\ pc' = [pc EXCEPT ![Scanner] = "listed"]
  /\ kind' = [kind EXCEPT ![Scanner] = "scan"]
  /\ read' = [read EXCEPT ![Scanner].next = task.next]
  /\ UNCHANGED <<rowVars, task, now, fireVars, torn, locked, crashes>>

ReadDue ==
  /\ pc[Scanner] = "listed"
  /\ IF status = "active"
       THEN /\ pc' = [pc EXCEPT ![Scanner] = "preflight"]
            /\ read' = [read EXCEPT ![Scanner].config = config]
            /\ UNCHANGED kind
       ELSE Done(Scanner)
  /\ UNCHANGED <<rowVars, task, now, fireVars, torn, locked, crashes>>

(* The fire route: any active automation may be fired by hand.             *)
RequestFire(r) ==
  /\ pc[r] = "idle" /\ status = "active"
  /\ pc' = [pc EXCEPT ![r] = "preflight"]
  /\ kind' = [kind EXCEPT ![r] = "fire"]
  /\ UNCHANGED <<rowVars, task, now, fireVars, torn, locked, read, crashes>>

(* hasActiveGrant, enforcement and preflight: an agent run that uses a     *)
(* provider credential is refused without the grant.                       *)
Preflight(p) ==
  /\ pc[p] = "preflight"
  /\ target = "maintenance" \/ grant
  /\ Goto(p, "fire")
  /\ UNCHANGED <<rowVars, task, now, fireVars, torn, locked, crashes>>

(* lockAndCheckAutomationBudget: the lock, then the count, then the writes.  *)
Lock_NoWait(p) ==
  /\ pc[p] = "fire"
  /\ locked' = p
  /\ Goto(p, "locked")
  /\ UNCHANGED <<rowVars, task, now, fireVars, torn, crashes>>

Lock(p) ==
  /\ pc[p] = "fire" /\ locked = Nobody
  /\ locked' = p
  /\ Goto(p, "locked")
  /\ UNCHANGED <<rowVars, task, now, fireVars, torn, crashes>>

Admit(p) ==
  /\ pc[p] = "locked" /\ runs < MaxRuns
  /\ Goto(p, "admitted")
  /\ UNCHANGED <<rowVars, task, now, fireVars, torn, locked, crashes>>

(* The fire commits: a scheduled one for the slot that was due, and with   *)
(* the next slot in the same transaction when the target is direct.        *)
Commit_AdvancesLater(p) ==
  LET slots == IF p = Scanner THEN {read[p].next} ELSE {} IN
  /\ pc[p] = "admitted"
  /\ Unlock(p)
  /\ runs' = runs + 1
  /\ fired' = fired \union slots
  /\ repeated' = repeated \union (fired \intersect slots)
  /\ Goto(p, IF p = Scanner THEN "advance" ELSE "row")
  /\ UNCHANGED <<rowVars, task, torn, now, crashes>>

Commit(p) ==
  LET slots == IF p = Scanner THEN {read[p].next} ELSE {} IN
  /\ pc[p] = "admitted"
  /\ Unlock(p)
  /\ runs' = runs + 1
  /\ fired' = fired \union slots
  /\ repeated' = repeated \union (fired \intersect slots)
  /\ IF target = "direct" /\ p = Scanner
       THEN AdvanceSchedule(p) /\ Done(p)
       ELSE /\ Goto(p, IF target = "maintenance" THEN "maintain" ELSE "row")
            /\ UNCHANGED <<task, torn>>
  /\ UNCHANGED <<rowVars, now, crashes>>

(* The maintenance scan ends, or fails and is recorded as failed: either   *)
(* way a scheduled one advances its cursor; by hand only a success goes on *)
(* to recordFire.                                                          *)
Maintained(p) ==
  /\ pc[p] = "maintain"
  /\ IF p = Scanner THEN AdvanceSchedule(p) /\ Done(p)
                    ELSE Goto(p, "row") /\ UNCHANGED <<task, torn>>
  /\ UNCHANGED <<rowVars, now, fireVars, locked, crashes>>

(* Any step throws.  The loop then advances the schedule on its own.       *)
Fails(p) ==
  /\ pc[p] \notin {"idle", "listed", "advance"}
  /\ Unlock(p)
  /\ IF p = Scanner THEN Goto(p, "advance") ELSE Done(p)
  /\ UNCHANGED <<rowVars, task, now, fireVars, torn, crashes>>

AdvanceAlone ==
  /\ pc[Scanner] = "advance"
  /\ AdvanceSchedule(Scanner)
  /\ Done(Scanner)
  /\ UNCHANGED <<rowVars, now, fireVars, locked, crashes>>

(* An exception outside the try block of one automation ends the whole scan. *)
ScanFails ==
  /\ pc[Scanner] \in {"listed", "advance"}
  /\ Done(Scanner)
  /\ UNCHANGED <<rowVars, task, now, fireVars, torn, locked, crashes>>

-----------------------------------------------------------------------------
(* recordFire, after a fire by hand, and the patch route: both read the row, *)
(* then the cursor, and write the cursor from what they read.              *)

RequestPatch(r) ==
  /\ pc[r] = "idle"
  /\ pc' = [pc EXCEPT ![r] = "row"]
  /\ kind' = [kind EXCEPT ![r] = "patch"]
  /\ UNCHANGED <<rowVars, task, now, fireVars, torn, locked, read, crashes>>

ReadRow(r) ==
  /\ pc[r] = "row"
  /\ read' = [read EXCEPT ![r].status = status, ![r].config = config]
  /\ pc' = [pc EXCEPT ![r] = "cursor"]
  /\ UNCHANGED <<rowVars, task, now, fireVars, torn, locked, kind, crashes>>

ReadTask(r) ==
  /\ pc[r] = "cursor"
  /\ read' = [read EXCEPT ![r].next = task.next]
  /\ pc' = [pc EXCEPT ![r] = "write"]
  /\ UNCHANGED <<rowVars, task, now, fireVars, torn, locked, kind, crashes>>

RecordFire(r) ==
  /\ pc[r] = "write" /\ kind[r] = "fire"
  /\ WriteTask(r, read[r].status, read[r].next)
  /\ Done(r)
  /\ UNCHANGED <<rowVars, now, fireVars, locked, crashes>>

UpdateTask_KeepsSlot(r, s, c, newStatus, newConfig) ==
  WriteTask(r, IF newStatus THEN s ELSE read[r].status, read[r].next)

(* A new config or a new "active" computes the next run afresh, and the    *)
(* patch fails when there is none.                                         *)
UpdateTask(r, s, c, newStatus, newConfig) ==
  LET afresh == newConfig \/ (newStatus /\ s = "active")
      next == NextSlot[IF newConfig THEN c ELSE read[r].config][now]
  IN  /\ afresh => next # Never
      /\ WriteTask(r, IF newStatus THEN s ELSE read[r].status,
                   IF afresh THEN next ELSE read[r].next)

(* The transaction of updateInCurrentUnit; its UPDATE waits for the lock.   *)
WritePatch(r) ==
  /\ pc[r] = "write" /\ kind[r] = "patch" /\ locked = Nobody
  /\ \E s \in Status, c \in Configs, newStatus, newConfig \in BOOLEAN :
       /\ status' = IF newStatus THEN s ELSE status
       /\ config' = IF newConfig THEN c ELSE config
       /\ grant' = (grant /\ ~(newStatus /\ s = "archived"))
       /\ UpdateTask(r, s, c, newStatus, newConfig)
  /\ Done(r)
  /\ UNCHANGED <<target, now, fireVars, locked, crashes>>

-----------------------------------------------------------------------------
Tick ==
  /\ now < MaxTime
  /\ now' = now + 1
  /\ UNCHANGED <<rowVars, task, fireVars, torn, locked, procVars, crashes>>

(* The server dies and starts again: open transactions roll back.          *)
Crash ==
  /\ crashes < MaxCrashes
  /\ crashes' = crashes + 1
  /\ locked' = Nobody
  /\ pc' = [p \in Procs |-> "idle"]
  /\ kind' = [p \in Procs |-> "none"]
  /\ read' = [p \in Procs |-> NoRead]
  /\ UNCHANGED <<rowVars, task, now, fireVars, torn>>

Scan == ListDue \/ ReadDue \/ AdvanceAlone \/ ScanFails

Fire(p) ==
  Preflight(p) \/ Lock(p) \/ Admit(p) \/ Commit(p) \/ Maintained(p) \/ Fails(p)

Request(r) ==
  \/ RequestFire(r) \/ RequestPatch(r) \/ ReadRow(r) \/ ReadTask(r)
  \/ RecordFire(r) \/ WritePatch(r)

Next ==
  \/ Scan \/ Tick \/ Crash
  \/ \E p \in Procs : Fire(p)
  \/ \E r \in Requests : Request(r)

Spec == Init /\ [][Next]_autoVars

(* The loop's timer fires again and again, a transaction that was begun    *)
(* commits or rolls back, and neither the read of the row nor the write of  *)
(* the cursor fails for ever.                                              *)
Fairness ==
  /\ WF_autoVars(ListDue) /\ SF_autoVars(ReadDue) /\ SF_autoVars(AdvanceAlone)
  /\ SF_autoVars(Lock(Scanner))
  /\ \A p \in Procs :
       /\ WF_autoVars(pc[p] = "preflight" /\ (Preflight(p) \/ Fails(p)))
       /\ WF_autoVars(pc[p] = "locked" /\ (Admit(p) \/ Fails(p)))
       /\ WF_autoVars(Commit(p)) /\ WF_autoVars(Maintained(p))

FairSpec == Spec /\ Fairness

-----------------------------------------------------------------------------
(* Every variable has its type (the rows of automations and                *)
(* scheduler_tasks, the locals of the loop and the routes).                *)
TypeOK ==
  /\ status \in Status /\ config \in Configs /\ grant \in BOOLEAN
  /\ target \in {"direct", "maintenance"}
  /\ task \in [status : Status, next : Nat]
  /\ now \in 0..MaxTime /\ runs \in Nat
  /\ fired \in SUBSET Nat /\ repeated \in SUBSET Nat /\ torn \in BOOLEAN
  /\ locked \in Procs \union {Nobody}
  /\ pc \in [Procs -> {"idle", "listed", "preflight", "fire", "locked", "admitted",
                       "maintain", "advance", "row", "cursor", "write"}]
  /\ kind \in [Procs -> {"none", "scan", "fire", "patch"}]
  /\ read \in [Procs -> [status : Status, config : Configs, next : Nat]]
  /\ crashes \in 0..MaxCrashes

(* The automation never starts more runs than its contract's max_runs,      *)
(* however many fires by hand and on schedule race for the last one.       *)
RunsWithinBudget == runs <= MaxRuns

(* A direct target fires at most once for a slot, through crashes and      *)
(* failures, unless the cursor was written from a read that had gone stale. *)
SlotsFireOnce == torn \/ target = "maintenance" \/ repeated = {}

(* An active automation has a next run and no other has one, through       *)
(* pauses, archivings, failed fires and fires by hand, unless the cursor   *)
(* was written from a read that had gone stale.  The one way for it to run  *)
(* dry is a cron whose next slot lay too far ahead when it was computed:    *)
(* then it stays dry when the slot comes nearer.                           *)
RanDry == \E t \in 0..now : NextSlot[config][t] = Never
ActiveIsScheduled ==
  torn \/ /\ task.status = status
          /\ task.next # Never => status = "active"
          /\ status = "active" => task.next # Never \/ RanDry

(* A due automation does not stay due: it is fired, or the failure to fire *)
(* it advances its cursor.                                                 *)
Due == status = "active" /\ task.status = "active" /\ task.next # Never /\ task.next <= now
DueIsHandled == Due ~> ~Due

(* POLICY_ENFORCEMENT_INVENTORY: "scheduled fire advances the schedule in   *)
(* the same transaction as the Run/Job/AutomationRun writes", so a slot    *)
(* that has fired does not come back.                                      *)
NoSlotFiresTwice == target = "direct" => repeated = {}

=============================================================================
