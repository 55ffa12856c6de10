---------------------------- MODULE PublicDispatch ----------------------------
(***************************************************************************)
(* The dispatch of one public source.  Every minute a Beat task            *)
(* (dispatch_due_sources) locks the rows of the ACTIVE sources nobody else *)
(* holds, and queues a task for a source that is due, unless a mark in     *)
(* Redis says that one is queued already.  A worker that takes the task    *)
(* looks whether a job has started since the task was queued, once before  *)
(* and once under the row's lock, clears the mark, and runs one job.       *)
(*                                                                         *)
(* Celery delivers a task again when its worker is gone (acks_late), and   *)
(* when it has been running for longer than the broker's visibility        *)
(* timeout; a worker process killed alone loses its task.  A job row stays *)
(* running until no heartbeat has come for 30 minutes, whether its worker  *)
(* is dead or busy with one slow item.  A Redis error is swallowed: the    *)
(* pass queues as if there were no mark, the worker leaves the mark as is. *)
(*                                                                         *)
(* Queue times and start times are kept as what the code compares them     *)
(* for: whether a job has started since (fresh).                           *)
(***************************************************************************)
EXTENDS Naturals, FiniteSets

CONSTANTS
  Process, Pass,  \* worker processes, and passes of the dispatcher that may overlap
  Task, Job,      \* tasks and job rows: bounds
  None,
  Manual,         \* may the administrator trigger the source
  Stalls,         \* may a task wait in the queue for longer than the mark lasts
  SlowItems,      \* may one item keep a live worker from its heartbeat for 30 minutes
  MaxTroubles     \* bound: workers and passes that die, and errors of Redis

Actor == Process \cup Pass

ASSUME NobodyAssumption == None \notin Actor \cup Task \cup Job
ASSUME ActorAssumption  == Process \cap Pass = {}
ASSUME BoundAssumption  == MaxTroubles \in Nat

VARIABLES
  open,      \* the source is ACTIVE
  due,       \* its next_scrape_at has come
  mark,      \* dispatch_queued:<source> is set
  rowLock,   \* who holds the source row
  queued,    \* tasks in the queue
  manual,    \* tasks an administrator sent
  fresh,     \* tasks since whose queueing no job has started
  running,   \* job rows with status running
  silent,    \* running rows with no heartbeat for 30 minutes
  pc, task, job,
  early,     \* passes since whose reading of the clock no job has started
  crashes, faults

source == <<open, due, mark>>
queue  == <<queued, manual, fresh>>
rows   == <<running, silent>>
vars   == <<source, rowLock, queue, rows, pc, task, job, early, crashes, faults>>

Labels == {"idle", "start", "starting", "work", "read", "locked", "send", "commit"}

TypeOK ==
  /\ open \in BOOLEAN /\ due \in BOOLEAN /\ mark \in BOOLEAN
  /\ rowLock \in Actor \cup {None}
  /\ queued \subseteq Task /\ manual \subseteq Task /\ fresh \subseteq Task
  /\ running \subseteq Job /\ silent \subseteq running
  /\ pc \in [Actor -> Labels]
  /\ task \in [Process -> Task \cup {None}]
  /\ job \in [Process -> Job \cup {None}]
  /\ early \subseteq Pass
  /\ crashes \in 0..MaxTroubles /\ faults \in 0..MaxTroubles

Init ==
  /\ open = TRUE /\ due = TRUE /\ mark = FALSE
  /\ rowLock = None
  /\ queued = {} /\ manual = {} /\ fresh = {}
  /\ running = {} /\ silent = {}
  /\ pc = [a \in Actor |-> "idle"]
  /\ task = [p \in Process |-> None] /\ job = [p \in Process |-> None]
  /\ early = {} /\ crashes = 0 /\ faults = 0
--------------------------------------------------------------------------------
At(a, l)   == pc[a] = l
Goto(a, l) == pc' = [pc EXCEPT ![a] = l]

Held(t) == \E p \in Process : task[p] = t
Live(t) == t \in queued \/ Held(t)

\* A job row nobody has used yet, or that has long ended.
Worked(j) == \E p \in Process : job[p] = j
Unused(j) == j \notin running /\ ~Worked(j)

\* The source's running jobs, those whose row is silent apart (_active_running_jobs).
Active == running \ silent

\* superseded_by_later_job; a task sent by hand is never looked at.
Superseded(t) == t \notin manual /\ t \notin fresh

RedisFails == crashes + faults < MaxTroubles /\ faults' = faults + 1

\* The task is acknowledged.
Done(p) ==
  /\ Goto(p, "idle")
  /\ task' = [task EXCEPT ![p] = None]
--------------------------------------------------------------------------------
(* The dispatcher.  Definitions named <operator>_<bug> are the operator with a plausible bug;  *)
(* the specification never uses them.                                                          *)

\* The clock is read first, the rows later.
BeginPass(d) ==
  /\ At(d, "idle") /\ Goto(d, "read")
  /\ early' = early \cup {d}
  /\ UNCHANGED <<source, rowLock, queue, rows, task, job, crashes, faults>>

\* FOR UPDATE SKIP LOCKED, of the ACTIVE sources.
ReadRows(d) ==
  /\ At(d, "read")
  /\ \/ rowLock = None /\ open /\ due /\ rowLock' = d /\ Goto(d, "locked")
     \/ ~(rowLock = None /\ open /\ due) /\ Goto(d, "idle") /\ UNCHANGED rowLock
  /\ UNCHANGED <<source, queue, rows, task, job, early, crashes, faults>>

\* SET without NX: a mark that is there is set again.
Decide_Overwrites(d) ==
  /\ At(d, "locked") /\ Active = {}
  /\ mark' = TRUE /\ Goto(d, "send")
  /\ UNCHANGED <<open, due, rowLock, queue, rows, task, job, early, crashes, faults>>

\* Nothing is queued beside a running job; else the mark is set, unless it is there.  When
\* Redis fails, whether the mark was set or not, the source is queued.
Decide(d) ==
  /\ At(d, "locked")
  /\ \/ /\ Active # {}
        /\ running' = Active /\ silent' = {} /\ rowLock' = None
        /\ Goto(d, "idle") /\ UNCHANGED <<mark, faults>>
     \/ /\ Active = {}
        /\ mark' = TRUE /\ Goto(d, IF mark THEN "commit" ELSE "send")
        /\ UNCHANGED <<rows, rowLock, faults>>
     \/ /\ Active = {} /\ RedisFails
        /\ mark' \in {mark, TRUE} /\ Goto(d, "send")
        /\ UNCHANGED <<rows, rowLock>>
  /\ UNCHANGED <<open, due, queue, task, job, early, crashes>>

\* The task carries the time at which the pass began.
Send(d) ==
  /\ At(d, "send") /\ Goto(d, "commit")
  /\ \E t \in Task :
       /\ ~Live(t)
       /\ queued' = queued \cup {t} /\ manual' = manual \ {t}
       /\ fresh' = IF d \in early THEN fresh \cup {t} ELSE fresh \ {t}
  /\ UNCHANGED <<source, rowLock, rows, task, job, early, crashes, faults>>

CommitPass(d) ==
  /\ At(d, "commit") /\ Goto(d, "idle")
  /\ running' = Active /\ silent' = {}
  /\ due' = FALSE /\ rowLock' = None
  /\ UNCHANGED <<open, mark, queue, task, job, early, crashes, faults>>
--------------------------------------------------------------------------------
(* The workers. *)

\* run_queued_source: a task whose work has been done meanwhile is dropped.
Take(p) ==
  /\ At(p, "idle")
  /\ \E t \in queued :
       /\ queued' = queued \ {t}
       /\ \/ ~Superseded(t) /\ task' = [task EXCEPT ![p] = t] /\ Goto(p, "start")
          \/ Superseded(t) /\ UNCHANGED <<pc, task>>
  /\ UNCHANGED <<source, rowLock, manual, fresh, rows, job, early, crashes, faults>>

\* The duplicate is not looked for again once the row is locked.
LockSource_Unchecked(p) ==
  /\ At(p, "start") /\ rowLock = None
  /\ mark' = FALSE /\ rowLock' = p
  /\ Goto(p, "starting")
  /\ UNCHANGED <<open, due, queue, rows, task, job, early, crashes, faults>>

\* run_source waits for the row, and looks again; the mark of a newer task stays.  When Redis
\* fails the task goes on, with the mark cleared or not.
LockSource(p) ==
  /\ At(p, "start") /\ rowLock = None
  /\ \/ Superseded(task[p]) /\ Done(p) /\ UNCHANGED <<mark, rowLock, faults>>
     \/ /\ ~Superseded(task[p])
        /\ \/ mark' = FALSE /\ UNCHANGED faults
           \/ UNCHANGED mark /\ RedisFails
        /\ rowLock' = p
        /\ Goto(p, "starting") /\ UNCHANGED task
  /\ UNCHANGED <<open, due, queue, rows, job, early, crashes>>

\* A job may start: the source is ACTIVE and no job of it runs.
MayStart_Always == open
MayStart        == open /\ Active = {}

\* The job row is committed, and the row's lock ends.
StartJob(p) ==
  /\ At(p, "starting")
  /\ rowLock' = None
  /\ \/ /\ MayStart
        /\ \E j \in Job :
             /\ Unused(j)
             /\ running' = Active \cup {j} /\ job' = [job EXCEPT ![p] = j]
        /\ silent' = {} /\ fresh' = {} /\ early' = {}
        /\ Goto(p, "work") /\ UNCHANGED task
     \/ /\ ~MayStart
        /\ Done(p)
        /\ IF open THEN running' = Active /\ silent' = {} ELSE UNCHANGED rows
        /\ UNCHANGED <<job, fresh, early>>
  /\ UNCHANGED <<source, queued, manual, crashes, faults>>

\* The job ends, well or badly; a block leaves the source HALTED, which writes its row.
FinishJob(p) ==
  /\ At(p, "work")
  /\ running' = running \ {job[p]} /\ silent' = silent \ {job[p]}
  /\ job' = [job EXCEPT ![p] = None]
  /\ open' = open \/ (rowLock = None /\ open' = FALSE)
  /\ Done(p)
  /\ UNCHANGED <<due, mark, rowLock, queue, early, crashes, faults>>
--------------------------------------------------------------------------------
(* The surroundings. *)

\* The cadence has passed, or a run that left a backlog asks for the next.
Elapse ==
  /\ ~due /\ due' = TRUE
  /\ UNCHANGED <<open, mark, rowLock, queue, rows, pc, task, job, early, crashes, faults>>

\* The mark never expires.
MarkExpires_Never == FALSE /\ UNCHANGED vars

\* The mark outlives any task it was set for, unless the queue stalls.
MarkExpires ==
  /\ mark /\ \A d \in Pass : ~At(d, "send")
  /\ Stalls \/ \A t \in fresh \ manual : ~Live(t)
  /\ mark' = FALSE
  /\ UNCHANGED <<open, due, rowLock, queue, rows, pc, task, job, early, crashes, faults>>

Trigger ==
  /\ Manual /\ \A t \in manual : ~Live(t)
  /\ \E t \in Task :
       /\ ~Live(t)
       /\ queued' = queued \cup {t} /\ manual' = manual \cup {t} /\ fresh' = fresh \ {t}
  /\ UNCHANGED <<source, rowLock, rows, pc, task, job, early, crashes, faults>>

\* The administrator pauses the source, or makes it ACTIVE again.
Admin ==
  /\ rowLock = None /\ open' = ~open
  /\ UNCHANGED <<due, mark, rowLock, queue, rows, pc, task, job, early, crashes, faults>>

\* The next page, or the next committed step, touches the row.
Touch(p) ==
  /\ job[p] \in silent
  /\ silent' = silent \ {job[p]}
  /\ UNCHANGED <<source, rowLock, queue, running, pc, task, job, early, crashes, faults>>

\* The visibility timeout passes while the job runs.
Redeliver(p) ==
  /\ At(p, "work") /\ task[p] \notin queued
  /\ queued' = queued \cup {task[p]}
  /\ UNCHANGED <<source, rowLock, manual, fresh, rows, pc, task, job, early, crashes, faults>>

\* A process dies: its transaction is rolled back.  With it alone the task is lost, with its
\* container the task is delivered again.
Crash(a) ==
  /\ ~At(a, "idle") /\ crashes + faults < MaxTroubles /\ crashes' = crashes + 1
  /\ Goto(a, "idle")
  /\ rowLock' = IF rowLock = a THEN None ELSE rowLock
  /\ IF a \in Process
       THEN /\ queued' \in {queued, queued \cup {task[a]}}
            /\ task' = [task EXCEPT ![a] = None] /\ job' = [job EXCEPT ![a] = None]
       ELSE UNCHANGED <<queued, task, job>>
  /\ UNCHANGED <<source, manual, fresh, rows, early, faults>>

\* Rows that have ended are looked at too.
GoSilent_AnyRow(j) ==
  /\ j \notin silent /\ ~Worked(j)
  /\ silent' = silent \cup {j}
  /\ UNCHANGED <<source, rowLock, queue, running, pc, task, job, early, crashes, faults>>

\* The row of a dead worker goes silent, and that of a live one in one item for 30 minutes.
GoSilent(j) ==
  /\ j \in running \ silent /\ (SlowItems \/ ~Worked(j))
  /\ silent' = silent \cup {j}
  /\ UNCHANGED <<source, rowLock, queue, running, pc, task, job, early, crashes, faults>>
--------------------------------------------------------------------------------
PassStep(d) == BeginPass(d) \/ ReadRows(d) \/ Decide(d) \/ Send(d) \/ CommitPass(d)
WorkStep(p) == Take(p) \/ LockSource(p) \/ StartJob(p) \/ FinishJob(p)

Next ==
  \/ \E d \in Pass : PassStep(d)
  \/ \E p \in Process : WorkStep(p) \/ Redeliver(p) \/ Touch(p)
  \/ \E a \in Actor : Crash(a)
  \/ \E j \in Job : GoSilent(j)
  \/ Elapse \/ MarkExpires \/ Trigger \/ Admin

Spec == Init /\ [][Next]_vars

\* Beat starts a pass every minute, and of the passes that find the row free one reads it; the
\* workers take what is queued; time passes.
FairSpec ==
  /\ Spec
  /\ \A d \in Pass : WF_vars(PassStep(d)) /\ SF_vars(ReadRows(d) /\ rowLock' = d)
  /\ \A p \in Process : WF_vars(Take(p) \/ StartJob(p)) /\ SF_vars(LockSource(p)) /\ SF_vars(FinishJob(p))
  /\ \A j \in Job : WF_vars(GoSilent(j) /\ ~Worked(j))
  /\ WF_vars(Elapse) /\ WF_vars(MarkExpires)
--------------------------------------------------------------------------------
(* Properties. *)

\* As long as no item keeps a live worker silent for 30 minutes, one job of the source runs at
\* a time, and its row, and no other, says so.
OneJob ==
  \A p \in Process : At(p, "work") =>
    running = {job[p]} /\ \A q \in Process \ {p} : ~At(q, "work")

\* A queued task does not run when a job has started since it was queued, though it is taken
\* twice or beside another ("the second must see the first one's job here").
NoDuplicateRun ==
  [][\A p \in Process :
       At(p, "starting") /\ pc'[p] = "work" => ~Superseded(task[p])]_vars

\* Of the tasks the dispatcher queued, more than one waits to be started only for as many deaths
\* and Redis errors as there have been: each may cost one duplicate, and never more.
Waiting == {t \in fresh \ manual : Live(t)}
OneFresh == Cardinality(Waiting) <= 1 + crashes + faults

\* A source that is due is run, or stops being ACTIVE.
DueRuns == due ~> (~open \/ \E p \in Process : At(p, "work"))
================================================================================
