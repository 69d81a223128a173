------------------------------ MODULE BatchJobs ------------------------------
(* Batch jobs that outlive the process which submitted them:               *)
(* batch/manager.py over the rows of batch/store.py and the provider's API *)
(* of batch/client.py.  A job is submitted, its row saved, and a task      *)
(* monitors it until the provider is done; then its results are fetched,   *)
(* recorded and handed to a named callback, and the row is marked.  After  *)
(* a restart resume_all takes up what is left.                             *)
(*                                                                         *)
(* Statuses are told apart as far as the manager does: "active" stands for *)
(* validating, in progress and finalizing, "done" for completed and ended, *)
(* "failed" for the ends without results (failed, expired, cancelled).     *)
(* Each action is the code between two awaits; the provider, the callbacks *)
(* and the SQLite thread are external.                                     *)
EXTENDS Integers

CONSTANTS
    Jobs,           \* numbered in the order in which their rows are created
    Named,          \* the jobs created with a callback
    Requests,       \* what each job asks
    OneFile,        \* the provider returns results and errors in one stream
    MaxTasks,       \* bound: monitors of one job at a time
    MaxAsks,        \* bound: calls of get_batch and cancel_batch
    MaxFaults,      \* bound: calls of the provider, the database or a callback that raise
    MaxRestarts     \* bound: crashes

BatchAssumption ==
    /\ Jobs \subseteq Nat \ {0}
    /\ Named \subseteq Jobs /\ OneFile \in BOOLEAN
    /\ Requests # {}
    /\ MaxTasks \in Nat \ {0} /\ {MaxAsks, MaxFaults, MaxRestarts} \subseteq Nat

VARIABLES
    remote,     \* per job: its status at the provider
    errors,     \* per job: the requests that ended with an error
    row,        \* per job: its row, status and processed mark
    saved,      \* per job: the requests with a result on record
    known,      \* jobs whose callback this process has registered
    creating,   \* a call of create_batch: its job, and whether the row is saved
    entry,      \* _monitor_tasks: per job the registered task
    work,       \* per task, and for resume_all: where it is
    todo,       \* the jobs resume_all still has to take up
    ask,        \* a call of get_batch or cancel_batch
    handed,     \* history: jobs whose callback returned
    skipped,    \* history: jobs found done while their callback was unknown
    due,        \* history: what was unprocessed when resume_all was called,
                \* and whose monitor nobody was stopping or has stopped since
    open,       \* the manager is in use
    asks, faults, restarts

vars == <<remote, errors, row, saved, known, creating, entry, work, todo, ask,
          handed, skipped, due, open, asks, faults, restarts>>
history == <<handed, skipped, due>>

Statuses == {"none", "active", "cancelling", "done", "failed"}
Tasks == Jobs \X (1 .. MaxTasks)
NoTask == <<0, 0>>
Resume == <<0, 1>>
Actors == Tasks \cup {Resume}

Processing == {"look", "check", "fetch", "call", "mark"}
MonitorOnly == {"get", "update", "sleep", "leave"}
ResumeOnly == {"active", "start", "completed", "next"}
Idle == [pc |-> "none", job |-> 0, seen |-> "none", got |-> {}, stop |-> FALSE]
NoAsk == [pc |-> "none", job |-> 0, seen |-> "none", cancel |-> FALSE]

TypeOK ==
    /\ remote \in [Jobs -> Statuses] /\ errors \in [Jobs -> SUBSET Requests]
    /\ row \in [Jobs -> [status : Statuses, processed : BOOLEAN]]
    /\ saved \in [Jobs -> SUBSET Requests]
    /\ known \subseteq Named /\ creating \subseteq Jobs \X BOOLEAN /\ todo \subseteq Jobs
    /\ entry \in [Jobs -> Tasks \cup {NoTask}]
    /\ work \in [Actors -> [pc : {"none"} \cup Processing \cup MonitorOnly \cup ResumeOnly,
                            job : Jobs \cup {0}, seen : Statuses, got : SUBSET Requests, stop : BOOLEAN]]
    /\ ask \in [pc : {"none", "get", "update", "drop"}, job : Jobs \cup {0}, seen : Statuses, cancel : BOOLEAN]
    /\ handed \subseteq Jobs /\ skipped \subseteq Jobs /\ due \subseteq Jobs /\ open \in BOOLEAN
    /\ asks \in 0 .. MaxAsks /\ faults \in 0 .. MaxFaults /\ restarts \in 0 .. MaxRestarts

Init ==
    /\ remote = [j \in Jobs |-> "none"] /\ errors = [j \in Jobs |-> {}]
    /\ row = [j \in Jobs |-> [status |-> "none", processed |-> FALSE]]
    /\ saved = [j \in Jobs |-> {}]
    /\ known = Named /\ creating = {} /\ todo = {}
    /\ entry = [j \in Jobs |-> NoTask] /\ work = [a \in Actors |-> Idle] /\ ask = NoAsk
    /\ handed = {} /\ skipped = {} /\ due = {} /\ open = TRUE
    /\ asks = 0 /\ faults = 0 /\ restarts = 0

(*************************** rows and providers ****************************)

Present(j) == row[j].status # "none"
Running(s) == s = "active"      \* what the monitor calls active
Unfinished(s) == s \in {"active", "cancelling"}     \* what the store calls active

\* update_status: an UPDATE, which finds nothing once the row is deleted.
SetStatus(j, s) ==
    row' = IF Present(j) THEN [row EXCEPT ![j].status = s] ELSE row

\* mark_processed
SetProcessed(j) ==
    row' = IF Present(j) THEN [row EXCEPT ![j].processed = TRUE] ELSE row

\* save_request_result
SaveResult(j, q) ==
    saved' = IF Present(j) THEN [saved EXCEPT ![j] = @ \cup {q}] ELSE saved

\* What the client yields for a finished job: one provider writes successes
\* and errors to two files, and the second is read only without the first.
Stream(j) ==
    IF OneFile \/ errors[j] = Requests THEN Requests ELSE Requests \ errors[j]

\* The provider works on a job and ends it.
ProviderEnds(j) ==
    /\ Unfinished(remote[j])
    /\ \/ /\ remote' = [remote EXCEPT ![j] = "done"]
          /\ \E failed \in SUBSET Requests : errors' = [errors EXCEPT ![j] = failed]
       \/ remote' = [remote EXCEPT ![j] = "failed"] /\ UNCHANGED errors
    /\ UNCHANGED <<open, row, saved, known, creating, entry, work, todo, ask, history, asks, faults, restarts>>

(*************************** monitors of a job *****************************)

FreeTasks(j) == {a \in Tasks : a[1] = j /\ work[a].pc = "none"}

\* _start_monitor for the jobs js: nothing for one with a registered task.
NewTasks(js) ==
    LET fresh == {j \in js : entry[j] = NoTask}
    IN  [j \in fresh |-> CHOOSE a \in FreeTasks(j) : \A b \in FreeTasks(j) : a[2] <= b[2]]
CanStart(js) == \A j \in js : entry[j] = NoTask => FreeTasks(j) # {}
Register(tasks) ==
    entry' = [j \in Jobs |-> IF j \in DOMAIN tasks THEN tasks[j] ELSE entry[j]]
Started(tasks) ==
    [a \in Actors |-> IF \E j \in DOMAIN tasks : tasks[j] = a
                      THEN [Idle EXCEPT !.pc = "get", !.job = a[1]] ELSE work[a]]

At(a, pc) == work[a].pc = pc /\ ~work[a].stop
Job(a) == work[a].job
Go(a, pc) == work' = [work EXCEPT ![a].pc = pc]

\* Mutant: the row is marked also when the callback or its results failed.
FailMarked(a) ==
    work' = [work EXCEPT ![a].pc = "mark", ![a].got = {}] /\ UNCHANGED todo

\* An exception: a monitor logs it and sleeps, resume_all raises it.
Fail(a) ==
    IF a = Resume
    THEN work' = [work EXCEPT ![a] = Idle] /\ todo' = {}
    ELSE work' = [work EXCEPT ![a].pc = "sleep", ![a].got = {}] /\ UNCHANGED todo

Fault(a) ==
    /\ faults < MaxFaults /\ faults' = faults + 1
    /\ ~work[a].stop
    /\ work[a].pc \in Processing \cup {"get", "update"}
    /\ Fail(a)
    /\ UNCHANGED <<open, remote, errors, row, saved, known, creating, entry, ask, history, asks, restarts>>

\* Mutant: the monitor reads the stored status instead of the provider's.
PollRow(a) ==
    /\ At(a, "get")
    /\ work' = [work EXCEPT ![a].pc = "update", ![a].seen = row[Job(a)].status]
    /\ UNCHANGED <<open, remote, errors, row, saved, known, creating, entry, todo, ask, history, asks, faults, restarts>>

Poll(a) ==
    /\ At(a, "get")
    /\ work' = [work EXCEPT ![a].pc = "update", ![a].seen = remote[Job(a)]]
    /\ UNCHANGED <<open, remote, errors, row, saved, known, creating, entry, todo, ask, history, asks, faults, restarts>>

Update(a) ==
    /\ At(a, "update")
    /\ SetStatus(Job(a), work[a].seen)
    /\ Go(a, IF Running(work[a].seen) THEN "sleep" ELSE "look")
    /\ UNCHANGED <<open, remote, errors, saved, known, creating, entry, todo, ask, history, asks, faults, restarts>>

Wake(a) ==
    /\ At(a, "sleep") /\ Go(a, "get")
    /\ UNCHANGED <<open, remote, errors, row, saved, known, creating, entry, todo, ask, history, asks, faults, restarts>>

\* _process_completed_batch, run by a monitor or by resume_all.
Look(a) ==
    LET j == Job(a) IN
    /\ At(a, "look")
    /\ IF j \in known /\ Present(j)
       THEN Go(a, "check") /\ UNCHANGED skipped
       ELSE Go(a, "mark") /\ skipped' = skipped \cup {j}
    /\ UNCHANGED <<open, remote, errors, row, saved, known, creating, entry, todo, ask, handed, due, asks, faults, restarts>>

\* get_results asks the provider again, and refuses a job without results.
Check(a) ==
    /\ At(a, "check")
    /\ IF remote[Job(a)] = "done" THEN Go(a, "fetch") /\ UNCHANGED todo ELSE Fail(a)
    /\ UNCHANGED <<open, remote, errors, row, saved, known, creating, entry, ask, history, asks, faults, restarts>>

Fetch(a) ==
    /\ At(a, "fetch")
    /\ \E q \in Stream(Job(a)) \ work[a].got :
          /\ SaveResult(Job(a), q)
          /\ work' = [work EXCEPT ![a].got = @ \cup {q}]
    /\ UNCHANGED <<open, remote, errors, row, known, creating, entry, todo, ask, history, asks, faults, restarts>>

FetchEnds(a) ==
    /\ At(a, "fetch") /\ work[a].got = Stream(Job(a)) /\ Go(a, "call")
    /\ UNCHANGED <<open, remote, errors, row, saved, known, creating, entry, todo, ask, history, asks, faults, restarts>>

\* The callback returns.
Call(a) ==
    /\ At(a, "call")
    /\ handed' = handed \cup {Job(a)}
    /\ Go(a, "mark")
    /\ UNCHANGED <<open, remote, errors, row, saved, known, creating, entry, todo, ask, skipped, due, asks, faults, restarts>>

\* mark_processed; resume_all goes on with the next job.
Mark(a) ==
    /\ At(a, "mark")
    /\ SetProcessed(Job(a))
    /\ Go(a, IF a = Resume THEN "next" ELSE "leave")
    /\ UNCHANGED <<open, remote, errors, saved, known, creating, entry, todo, ask, history, asks, faults, restarts>>

\* The monitor ends, and whatever is registered for its job is taken off.
Leave(a) ==
    /\ At(a, "leave")
    /\ work' = [work EXCEPT ![a] = Idle]
    /\ entry' = [entry EXCEPT ![Job(a)] = NoTask]
    /\ UNCHANGED <<open, remote, errors, row, saved, known, creating, todo, ask, history, asks, faults, restarts>>

\* A cancelled monitor ends; a write it had handed to the SQLite thread may
\* have been made.
Unwind(a) ==
    /\ work[a].stop
    /\ \/ UNCHANGED <<row, saved>>
       \/ work[a].pc = "update" /\ SetStatus(Job(a), work[a].seen) /\ UNCHANGED saved
       \/ work[a].pc = "mark" /\ SetProcessed(Job(a)) /\ UNCHANGED saved
       \/ /\ work[a].pc = "fetch" /\ UNCHANGED row
          /\ \E q \in Stream(Job(a)) \ work[a].got : SaveResult(Job(a), q)
    /\ work' = [work EXCEPT ![a] = Idle]
    /\ entry' = [entry EXCEPT ![Job(a)] = NoTask]
    /\ UNCHANGED <<open, remote, errors, known, creating, todo, ask, history, asks, faults, restarts>>

(************************** calls of the manager ***************************)

\* create_batch: the provider accepts the job; its row is saved afterwards.
Submit(j) ==
    /\ open
    /\ remote[j] = "none" /\ \A i \in Jobs : i < j => remote[i] # "none"
    /\ j \in Named => j \in known
    /\ creating = {} /\ creating' = {<<j, FALSE>>}
    /\ remote' = [remote EXCEPT ![j] = "active"]
    /\ UNCHANGED <<open, errors, row, saved, known, entry, work, todo, ask, history, asks, faults, restarts>>

SaveBatch(j) ==
    /\ <<j, FALSE>> \in creating /\ creating' = {<<j, TRUE>>}
    /\ row' = [row EXCEPT ![j].status = "active"]
    /\ UNCHANGED <<open, remote, errors, saved, known, entry, work, todo, ask, history, asks, faults, restarts>>

\* create_batch returns, with a monitor (auto_monitor) or without.
Created(j) ==
    /\ <<j, TRUE>> \in creating /\ creating' = {}
    /\ \E js \in {{}, {j}} :
          /\ CanStart(js)
          /\ Register(NewTasks(js)) /\ work' = Started(NewTasks(js))
    /\ UNCHANGED <<open, remote, errors, row, saved, known, todo, ask, history, asks, faults, restarts>>

\* get_batch and cancel_batch: the provider is asked, then the row updated.
AskFor(j, cancel) ==
    /\ open /\ Present(j) /\ ask.pc = "none"
    /\ asks < MaxAsks /\ asks' = asks + 1
    /\ ask' = [pc |-> "get", job |-> j, seen |-> "none", cancel |-> cancel]
    /\ UNCHANGED <<open, remote, errors, row, saved, known, creating, entry, work, todo, history, faults, restarts>>

AskProvider ==
    LET j == ask.job
        now == IF ask.cancel /\ remote[j] = "active" THEN "cancelling" ELSE remote[j]
    IN
    /\ ask.pc = "get"
    /\ remote' = [remote EXCEPT ![j] = now]
    /\ ask' = [ask EXCEPT !.pc = "update", !.seen = now]
    /\ UNCHANGED <<open, errors, row, saved, known, creating, entry, work, todo, history, asks, faults, restarts>>

AskUpdate ==
    /\ ask.pc = "update"
    /\ SetStatus(ask.job, ask.seen)
    /\ ask' = IF ask.cancel THEN [ask EXCEPT !.pc = "drop"] ELSE NoAsk
    /\ UNCHANGED <<open, remote, errors, saved, known, creating, entry, work, todo, history, asks, faults, restarts>>

\* Whoever cancels a job stops the task registered for it.
AskDrop ==
    LET j == ask.job IN
    /\ ask.pc = "drop" /\ ask' = NoAsk
    /\ due' = due \ {j}
    /\ IF entry[j] # NoTask
       THEN /\ work' = [work EXCEPT ![entry[j]].stop = TRUE]
            /\ entry' = [entry EXCEPT ![j] = NoTask]
       ELSE UNCHANGED <<work, entry>>
    /\ UNCHANGED <<open, remote, errors, row, saved, known, creating, todo, handed, skipped, asks, faults, restarts>>

\* get_batch falls back to the row, cancel_batch raises.
AskFails ==
    /\ ask.pc \in {"get", "update"} /\ ask' = NoAsk
    /\ faults < MaxFaults /\ faults' = faults + 1
    /\ UNCHANGED <<open, remote, errors, row, saved, known, creating, entry, work, todo, history, asks, restarts>>

\* resume_all.  Both queries run in a thread: their answers are of the past
\* when the loop goes on.
BeginResume ==
    /\ open /\ work[Resume].pc = "none"
    /\ work' = [work EXCEPT ![Resume].pc = "active"]
    /\ due' = {j \in Jobs : /\ Present(j) /\ ~row[j].processed
                            /\ \A a \in Tasks : a[1] = j => ~work[a].stop}
    /\ UNCHANGED <<open, remote, errors, row, saved, known, creating, entry, todo, ask, handed, skipped, asks, faults, restarts>>

ReadActive ==
    /\ work[Resume].pc = "active"
    /\ todo' = {j \in Jobs : Unfinished(row[j].status)}
    /\ Go(Resume, "start")
    /\ UNCHANGED <<open, remote, errors, row, saved, known, creating, entry, ask, history, asks, faults, restarts>>

StartMonitors ==
    LET tasks == NewTasks(todo) IN
    /\ work[Resume].pc = "start" /\ CanStart(todo)
    /\ Register(tasks)
    /\ work' = [Started(tasks) EXCEPT ![Resume].pc = "completed"]
    /\ todo' = {}
    /\ UNCHANGED <<open, remote, errors, row, saved, known, creating, ask, history, asks, faults, restarts>>

\* Mutant: only the jobs with results are read.
ReadOnlyDone ==
    /\ work[Resume].pc = "completed"
    /\ todo' = {j \in Jobs : row[j].status = "done" /\ ~row[j].processed}
    /\ Go(Resume, "next")
    /\ UNCHANGED <<open, remote, errors, row, saved, known, creating, entry, ask, history, asks, faults, restarts>>

ReadCompleted ==
    /\ work[Resume].pc = "completed"
    /\ todo' = {j \in Jobs : row[j].status \in {"done", "failed"} /\ ~row[j].processed}
    /\ Go(Resume, "next")
    /\ UNCHANGED <<open, remote, errors, row, saved, known, creating, entry, ask, history, asks, faults, restarts>>

\* The completed jobs are processed one by one, oldest first.
NextCompleted ==
    LET j == CHOOSE i \in todo : \A k \in todo : i <= k IN
    /\ work[Resume].pc = "next" /\ todo # {}
    /\ work' = [work EXCEPT ![Resume] = [Idle EXCEPT !.pc = "look", !.job = j]]
    /\ todo' = todo \ {j}
    /\ UNCHANGED <<open, remote, errors, row, saved, known, creating, entry, ask, history, asks, faults, restarts>>

ResumeReturns ==
    /\ work[Resume].pc = "next" /\ todo = {}
    /\ work' = [work EXCEPT ![Resume] = Idle]
    /\ UNCHANGED <<open, remote, errors, row, saved, known, creating, entry, todo, ask, history, asks, faults, restarts>>

\* cleanup deletes old rows that are processed.
Cleanup(j) ==
    /\ row[j].processed
    /\ row' = [row EXCEPT ![j] = [status |-> "none", processed |-> FALSE]]
    /\ saved' = [saved EXCEPT ![j] = {}]
    /\ UNCHANGED <<open, remote, errors, known, creating, entry, work, todo, ask, history, asks, faults, restarts>>

\* close cancels the registered monitors; calls under way go on.
Close ==
    /\ open /\ open' = FALSE
    /\ work' = [a \in Actors |-> IF \E j \in Jobs : entry[j] = a THEN [work[a] EXCEPT !.stop = TRUE] ELSE work[a]]
    /\ entry' = [j \in Jobs |-> NoTask]
    /\ due' = {j \in due : entry[j] = NoTask}
    /\ UNCHANGED <<remote, errors, row, saved, known, creating, todo, ask, handed, skipped, asks, faults, restarts>>

\* The process dies; the next one registers its callbacks when it likes.
Crash ==
    /\ restarts < MaxRestarts /\ restarts' = restarts + 1
    /\ known' = {} /\ creating' = {} /\ todo' = {} /\ ask' = NoAsk /\ open' = TRUE
    /\ entry' = [j \in Jobs |-> NoTask] /\ work' = [a \in Actors |-> Idle]
    /\ UNCHANGED <<remote, errors, row, saved, history, asks, faults>>

AddCallbacks ==
    /\ known # Named /\ known' = Named
    /\ UNCHANGED <<open, remote, errors, row, saved, creating, entry, work, todo, ask, history, asks, faults, restarts>>

ActorStep(a) ==
    \/ Poll(a) \/ Update(a) \/ Wake(a) \/ Look(a) \/ Check(a)
    \/ Fetch(a) \/ FetchEnds(a) \/ Call(a) \/ Mark(a) \/ Leave(a) \/ Unwind(a)

AskStep == AskProvider \/ AskUpdate \/ AskDrop

ResumeStep == ReadActive \/ StartMonitors \/ ReadCompleted \/ NextCompleted \/ ResumeReturns

Next ==
    \/ \E a \in Actors : ActorStep(a) \/ Fault(a)
    \/ \E j \in Jobs : ProviderEnds(j) \/ Submit(j) \/ SaveBatch(j) \/ Created(j) \/ Cleanup(j)
    \/ \E j \in Jobs, cancel \in BOOLEAN : AskFor(j, cancel)
    \/ AskStep \/ AskFails
    \/ BeginResume \/ ResumeStep
    \/ Close \/ Crash \/ AddCallbacks

\* The event loop runs what is ready; callbacks and databases answer, and
\* the application calls resume_all again and again.
Fairness ==
    /\ \A a \in Actors : WF_vars(ActorStep(a))
    /\ \A j \in Jobs : WF_vars(SaveBatch(j) \/ Created(j))
    /\ WF_vars(AskStep)
    /\ WF_vars(BeginResume \/ ResumeStep) /\ WF_vars(AddCallbacks)

Spec == Init /\ [][Next]_vars
FairSpec == Spec /\ Fairness

(******************************** properties *******************************)

Watched(j) == \E a \in Tasks : a[1] = j /\ work[a].pc # "none" /\ ~work[a].stop

\* A job is marked as processed only when its results are on record and its
\* callback has returned with them, whatever died or was cancelled on the
\* way; only a job whose callback was not registered is passed over.
NothingMarkedUnhandled ==
    \A j \in Named \ skipped :
        row[j].processed => j \in handed /\ remote[j] = "done" /\ Stream(j) \subseteq saved[j]

\* What was unprocessed when resume_all was called is processed or watched
\* when it returns: a job that the provider ends between its two queries is
\* in one of them.
ResumeMissesNone ==
    work[Resume].pc = "next" /\ work'[Resume].pc = "none" /\ restarts' = restarts
    => \A j \in due : Present(j) => row[j].processed \/ Watched(j)

\* A job is never lost: not by a mark that came too early, not between queries.
JobsAreNotLost == [][NothingMarkedUnhandled' /\ ResumeMissesNone]_vars

\* A finished job that a task watches is processed in the end.
WatchedIsHandled ==
    \A j \in Jobs : Watched(j) /\ remote[j] = "done" ~> row[j].processed \/ ~Watched(j)
=============================================================================
