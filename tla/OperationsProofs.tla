-------------------------- MODULE OperationsProofs --------------------------
(***************************************************************************)
(* Proofs about the operator jobs, for every number of requests and of     *)
(* faults: a job reported as over does nothing any more and its report     *)
(* stays, one thread at a time finishes it, and a setup is worked in by    *)
(* one operation at a time with no vendor program running.                 *)
(***************************************************************************)
EXTENDS Operations, TLAPS

-----------------------------------------------------------------------------
(* The inductive invariant: which threads are alive *)

\* The worker thread of the operation exists.
WorkerLabels == {"start", "act", "acquire", "reserve", "spec", "run", "wait", "closing", "work",
             "release", "final", "confirm", "census", "transfer", "transferred", "recover",
             "finish"}

\* The request has not reached a worker.
Asked == {"idle", "dispatch", "queue", "launch"}

Gone == {"done", "dead"}

Labels == Asked \cup WorkerLabels \cup Gone

Jobs == [op : Ops, step : {"read", "write", "refuse", "release"}, confirmed : BOOLEAN]

PcTypes == pc \in [Ops -> Labels]

JobTypes == job \in [Threads -> Jobs \cup {None}]

LockTypes ==
    lock \in [dispatch : Threads \cup {None}, canonical : Threads \cup {None},
              environment : Threads \cup {None}, worker : [Ops -> Threads \cup {None}]]

RunTypes == run \in [Ops -> Runs]

Shape == PcTypes /\ JobTypes /\ LockTypes

\* The executor's record says whether the worker lives; without one nothing was reserved.
ExecutorInv ==
    \A o \in Ops :
        /\ executor[o] = "active" <=> pc[o] \in WorkerLabels
        /\ pc[o] \in Asked => executor[o] = "none"
        /\ executor[o] = "none" => held[o] = "none"
        /\ pc[o] = "transferred" => held[target[o]] # "none"

\* The receipt follows the request up to the launch, which the dispatch lock covers.
ReceiptInv ==
    \A o \in Ops :
        /\ pc[o] = "idle" => receipt[o] = "none"
        /\ pc[o] \in {"dispatch", "queue"} => receipt[o] = "unconfirmed"
        /\ pc[o] = "launch" => receipt[o] = "queued"
        /\ pc[o] \in {"queue", "launch"} => lock.dispatch = o

\* What a thread has on its list: an operation that reached a worker, and for a reconciler
\* one whose worker is gone.
TodoInv ==
    /\ \A o \in Ops : \A p \in todo[o] : executor[p] # "none"
    /\ \A r \in Reconcilers : phase[r] = "finish" => \A p \in todo[r] : pc[p] \in Gone

\* A thread finishes its own operation, or one whose worker is gone.
JobInv ==
    \A t \in Threads : job[t] # None =>
        IF t \in Ops /\ job[t].op = t
        THEN pc[t] \in {"closing", "finish"}
        ELSE pc[job[t].op] \in Gone /\ (t \in Ops => pc[t] = "recover")

DeathInv == ExecutorInv /\ ReceiptInv /\ TodoInv /\ JobInv /\ FinishedIsDead

-----------------------------------------------------------------------------
(* The inductive invariant: who may use the setup *)

\* Labels between the environment lock and its release.
Inside == {"acquire", "reserve", "spec", "run", "wait", "closing", "work", "confirm",
           "census", "transfer", "transferred"}

\* No run of the operation was recorded yet.
Unrecorded == Asked \cup {"start", "act", "acquire", "reserve"}

\* The environment lock covers an action from its entry to its last receipt; a stop has
\* none.
EnvironmentInv ==
    \A o \in Ops :
        pc[o] \in Inside \/ (pc[o] = "release" /\ kind[o] # "stop") => lock.environment = o

\* Which action is at which label.
KindInv ==
    \A o \in Ops :
        /\ pc[o] = "acquire" => kind[o] \in {"install", "uninstall", "scan"}
        /\ pc[o] \in {"reserve", "spec", "run", "wait", "closing"} =>
              kind[o] \in {"install", "uninstall"}
        /\ pc[o] \in {"confirm", "census", "transfer", "transferred"} => kind[o] = "close"
        /\ pc[o] = "work" => kind[o] \in {"uninstall", "scan", "close"}

\* Which operation an action is about: one whose run was recorded, and for a stop that is
\* about to release, an installer that was launched.
TargetInv ==
    \A o \in Ops :
        /\ run[o].recorded => kind[o] \in {"install", "uninstall"}
        /\ pc[o] # "idle" /\ kind[o] \in {"stop", "close"} => run[target[o]].recorded
        /\ pc[o] = "release" /\ kind[o] = "stop" =>
              kind[target[o]] = "install" /\ pc[target[o]] \notin Unrecorded \cup {"spec", "run"}

\* The files and the unit of a run.  A program that outlived its supervisor belongs to a
\* run that is not shown closed.
RunInv ==
    \A p \in Ops :
        /\ run[p].alive \/ run[p].stray => run[p].spec
        /\ run[p].spec \/ run[p].retired => run[p].recorded
        /\ run[p].stray => ~run[p].alive /\ ~run[p].retired
        /\ pc[p] \in Unrecorded => ~run[p].recorded
        /\ pc[p] = "spec" => run[p].recorded /\ ~run[p].spec /\ ~run[p].retired
        /\ pc[p] = "run" =>
              run[p].spec /\ ~run[p].alive /\ ~run[p].stray /\ ~run[p].retired

\* What a thread that finishes a run has read of it still holds when it writes.
FinishInv ==
    /\ \A t \in Threads : job[t] # None =>
          /\ job[t].step # "read" => ~run[job[t].op].alive
          /\ job[t].step = "write" =>
                run[job[t].op].recorded /\ (job[t].confirmed => ~run[job[t].op].spec)
    /\ \A o \in Ops : pc[o] = "census" => ~run[target[o]].alive /\ ~run[target[o]].stray

\* A vendor program runs under the reservation of its own operation, which no release and
\* no transfer ends.
HoldInv ==
    \A o \in Ops :
        /\ Programs(o) => held[o] = "held"
        /\ pc[o] \in {"reserve", "spec", "run", "transferred", "work"} => held[o] = "held"
        /\ pc[o] \in {"wait", "closing"} /\ kind[o] = "uninstall" => held[o] = "held"

\* Beside a run, a transfer or a check there are no programs of another operation.
QuietInv ==
    \A o \in Ops :
        /\ pc[o] \in {"spec", "run", "wait", "closing"} =>
              \A p \in Ops \ {o} : ~Programs(p)
        /\ pc[o] = "transfer" => ~Programs(target[o])
        /\ pc[o] \in {"transferred", "work"} => \A p \in Ops : ~Programs(p)

SetupInv ==
    /\ EnvironmentInv /\ KindInv /\ TargetInv /\ RunInv /\ FinishInv /\ HoldInv
    /\ QuietInv

IInv == TypeOK /\ Shape /\ DeathInv /\ SetupInv

\* The type invariant by groups of variables.
FileTypes ==
    /\ receipt \in [Ops -> {"none", "unconfirmed", "queued", "owned", "settled", "terminated"}]
    /\ latest.op \in Ops \cup {None}
    /\ writer # None => writer.thread \in Threads /\ writer.op \in Ops

RequestTypes ==
    /\ kind \in [Ops -> Kinds \cup {None}] /\ target \in [Ops -> Ops]
    /\ executor \in [Ops -> {"none", "active", "stale", "retired"}]
    /\ held \in [Ops -> {"none", "held", "released"}]

ListTypes ==
    /\ up \in BOOLEAN
    /\ todo \in [Threads -> SUBSET Ops]
    /\ phase \in [Reconcilers -> {"idle", "finish", "settle", "done"}]
    /\ faults \in 0 .. MaxFaults
    /\ lapse \subseteq {"reopened", "missed", "gate"}

-----------------------------------------------------------------------------
\* Operations, reconcilers and nobody are told apart.
LEMMA ThreadsDiffer ==
    /\ Startup \notin Ops /\ Gate \notin Ops /\ Startup # Gate
    /\ None \notin Ops /\ None # Startup /\ None # Gate
  BY OperationsConstants DEF Ops


-----------------------------------------------------------------------------
(* Groups of steps *)

\* A request is dispatched and its worker starts.
Dispatching(o) ==
    Admit(o) \/ AdmitRefused(o) \/ Queue(o) \/ Launch(o) \/ LaunchFails(o) \/ Start(o)

\* An action that cannot go on ends, or a recovery has nothing left.
Refusing(o) ==
    ActRefused(o) \/ AcquireRefused(o) \/ ReserveRefused(o) \/ TransferRefused(o) \/
    Recovered(o)

\* An action enters the setup and reserves it.
Reserving(o) ==
    Enter(o) \/ Acquire(o) \/ Reserve(o) \/ WriteSpec(o)

\* The vendor's unit is launched and its end awaited.
Running(o) ==
    LaunchRun(o) \/ LaunchRunFails(o) \/ RunOver(o) \/ Closed(o)

\* A run is stopped or confirmed closed.
Checking(o) ==
    StopRun(o) \/ Confirm(o) \/ ConfirmWrite(o) \/ Work(o)

\* A reservation passes on or ends with its action.
Passing(o) ==
    Transfer(o) \/ Transferred(o) \/ Release(o) \/ Final(o)

\* An interrupted operation is taken up.
Recovering(o) ==
    Recover(o) \/ (\E p \in Ops : RecoverNext(o, p))

\* A thread finishes an operation.
Finishing(t) ==
    JobStop(t) \/ JobRead(t) \/ JobWrite(t) \/ JobRefuse(t)

\* A reconciler looks for dead work.
Reconciling(r) ==
    Scan(r) \/ Repair(r) \/ (\E o \in Ops : Visit(r, o)) \/ (\E o \in Ops : Settle(r, o))

\* The vendor's run goes on by itself.
Vending(p) ==
    RunRetires(p) \/ UnitExits(p) \/ RunDies(p) \/ StrayEnds(p)

\* Every step belongs to a group.
LEMMA StepKinds ==
    ASSUME Next
    PROVE  \/ \E o \in Ops : Dispatching(o)
           \/ \E o \in Ops : Refusing(o)
           \/ \E o \in Ops : Reserving(o)
           \/ \E o \in Ops : Running(o)
           \/ \E o \in Ops : Checking(o)
           \/ \E o \in Ops : Passing(o)
           \/ \E o \in Ops : Recovering(o)
           \/ \E t \in Threads : Finishing(t)
           \/ \E r \in Reconcilers : Reconciling(r)
           \/ \E p \in Ops : Vending(p)
           \/ \E o \in Ops : JobRelease(o) \/ \E k \in Kinds, t \in Ops : Request(o, k, t)
           \/ Publish \/ Crash \/ PowerFailure \/ GateDies \/ StartService
<1>1. ASSUME NEW o \in Ops, Proceed(o)
      PROVE  \/ Dispatching(o) \/ Refusing(o) \/ Reserving(o) \/ Running(o) \/ Checking(o)
             \/ Passing(o) \/ Recovering(o) \/ Finishing(o)
             \/ JobRelease(o)
  BY <1>1 DEF Proceed, Dispatching, Refusing, Reserving, Running, Checking, Passing,
              Recovering, Finishing
<1>2. ASSUME NEW r \in Reconcilers, Reconcile(r)
      PROVE  Reconciling(r) \/ Finishing(r)
  BY <1>2 DEF Reconcile, Reconciling, Finishing
<1> QED
  BY <1>1, <1>2 DEF Next, Vendor, Vending, Threads

-----------------------------------------------------------------------------
(* What the steps do to the record and the unit of a run *)

\* What is on disk of the run stays.
SameFiles(q) == run'[q].recorded = run[q].recorded /\ run'[q].spec = run[q].spec

\* A run that was stopped, or whose supervisor died, has no unit; it is shown closed, or
\* stays open with a program that may be left.
LEMMA StopEffect ==
    ASSUME run \in [Ops -> Runs], NEW p \in Ops, Stopped(p)
    PROVE  /\ run' \in [Ops -> Runs]
           /\ \A q \in Ops : SameFiles(q) /\ (q # p => run'[q] = run[q])
           /\ ~run'[p].alive
           /\ \/ run'[p].retired /\ run'[p].stray = run[p].stray
              \/ ~run[p].retired /\ ~run'[p].retired
           /\ faults' = faults \/ (faults > 0 /\ faults' = faults - 1)
<1>1. CASE run' = [run EXCEPT ![p].alive = FALSE, ![p].retired = TRUE] /\ UNCHANGED faults
  <2>1. /\ run' \in [Ops -> Runs]
        /\ \A q \in Ops \ {p} : run'[q] = run[q]
        /\ ~run'[p].alive /\ run'[p].retired /\ run'[p].stray = run[p].stray
        /\ run'[p].recorded = run[p].recorded /\ run'[p].spec = run[p].spec
    BY <1>1 DEF Runs
  <2> QED
    BY <1>1, <2>1 DEF SameFiles
<1>2. CASE /\ ~run[p].retired /\ faults > 0 /\ faults' = faults - 1
           /\ \E stray \in BOOLEAN : run' = [run EXCEPT ![p].alive = FALSE, ![p].stray = stray]
  <2>1. PICK stray \in BOOLEAN :
            run' = [run EXCEPT ![p] = [run[p] EXCEPT !.alive = FALSE, !.stray = stray]]
    BY <1>2
  <2> DEFINE dead == [run[p] EXCEPT !.alive = FALSE, !.stray = stray]
  <2>2. run[p] \in Runs
    OBVIOUS
  <2>3. /\ dead \in Runs /\ ~dead.alive
        /\ dead.retired = run[p].retired
        /\ dead.recorded = run[p].recorded /\ dead.spec = run[p].spec
    BY <2>2 DEF Runs
  <2> HIDE DEF dead
  <2>4. /\ run' \in [Ops -> Runs] /\ run'[p] = dead
        /\ \A q \in Ops \ {p} : run'[q] = run[q]
    BY <2>1, <2>3 DEF dead
  <2>5. \A q \in Ops : SameFiles(q) /\ (q # p => run'[q] = run[q])
    BY <2>3, <2>4 DEF SameFiles
  <2>6. run'[p].retired = run[p].retired
    BY <2>3, <2>4
  <2>7. ~run[p].retired /\ ~run'[p].retired
    BY <1>2, <2>6
  <2>8. ~run'[p].alive
    BY <2>3, <2>4
  <2>9. faults > 0 /\ faults' = faults - 1
    BY <1>2
  <2> QED
    BY <2>4, <2>5, <2>7, <2>8, <2>9
<1> QED
  BY <1>1, <1>2 DEF Stopped

\* The supervisor dies like a unit that is stopped without a record.
LEMMA DeathEffect ==
    ASSUME run \in [Ops -> Runs], NEW p \in Ops, RunDies(p)
    PROVE  Stopped(p) /\ run[p].alive /\ ~run[p].retired
<1>1. PICK stray \in BOOLEAN : run' = [run EXCEPT ![p].alive = FALSE, ![p].stray = stray]
  BY DEF RunDies
<1>2. ~run[p].retired /\ faults > 0 /\ faults' = faults - 1
  BY DEF RunDies
<1>3. Stopped(p)
  BY <1>1, <1>2 DEF Stopped
<1>4. run[p].alive
  BY DEF RunDies
<1> QED
  BY <1>2, <1>3, <1>4

\* The run is reserved: recorded, not shown closed.
LEMMA ReserveEffect ==
    ASSUME run \in [Ops -> Runs], NEW o \in Ops, Reserve(o)
    PROVE  /\ run' \in [Ops -> Runs]
           /\ \A q \in Ops : q # o => run'[q] = run[q]
           /\ run'[o].recorded /\ run'[o].spec = run[o].spec /\ run'[o].alive = run[o].alive
           /\ run'[o].stray = run[o].stray /\ run'[o].retired = run[o].retired
<1>1. (kind[o] = "uninstall") \in BOOLEAN
  OBVIOUS
<1>2. run' = [run EXCEPT ![o].recorded = TRUE, ![o].due = (kind[o] = "uninstall")]
  BY DEF Reserve
<1> QED
  BY <1>1, <1>2 DEF Runs

\* systemd refuses the unit, or started it all the same.
LEMMA LaunchFailsEffect ==
    ASSUME run \in [Ops -> Runs], NEW o \in Ops, LaunchRunFails(o)
    PROVE  /\ run' \in [Ops -> Runs]
           /\ \A q \in Ops : SameFiles(q) /\ (q # o => run'[q] = run[q])
           /\ run'[o].stray = run[o].stray
           /\ \/ run'[o].retired /\ run'[o].alive = run[o].alive
              \/ run'[o].alive /\ run'[o].retired = run[o].retired
<1>1. \/ run' = [run EXCEPT ![o].retired = TRUE]
      \/ run' = [run EXCEPT ![o].alive = TRUE]
  BY DEF LaunchRunFails
<1>2. CASE run' = [run EXCEPT ![o].retired = TRUE]
  BY <1>2 DEF Runs, SameFiles
<1>3. CASE run' = [run EXCEPT ![o].alive = TRUE]
  BY <1>3 DEF Runs, SameFiles
<1> QED
  BY <1>1, <1>2, <1>3

\* A scan or a check changes only what the setup is due.
LEMMA WorkEffect ==
    ASSUME run \in [Ops -> Runs], target \in [Ops -> Ops], NEW o \in Ops, Work(o)
    PROVE  /\ run' \in [Ops -> Runs]
           /\ \A q \in Ops : /\ SameFiles(q) /\ run'[q].retired = run[q].retired
                             /\ run'[q].alive = run[q].alive /\ run'[q].stray = run[q].stray
<1>1. CASE run' = run
  BY <1>1 DEF SameFiles
<1>2. CASE run' = [run EXCEPT ![target[o]].due = FALSE]
  <2>1. target[o] \in Ops /\ run[target[o]] \in Runs
    OBVIOUS
  <2>2. /\ [run[target[o]] EXCEPT !.due = FALSE] \in Runs
        /\ run' = [run EXCEPT ![target[o]] = [run[target[o]] EXCEPT !.due = FALSE]]
    BY <1>2, <2>1 DEF Runs
  <2>3. run' \in [Ops -> Runs]
    BY <2>1, <2>2
  <2>4. ASSUME NEW q \in Ops
        PROVE  /\ SameFiles(q) /\ run'[q].retired = run[q].retired
               /\ run'[q].alive = run[q].alive /\ run'[q].stray = run[q].stray
    <3>1. CASE q = target[o]
      BY <2>1, <2>2, <3>1 DEF SameFiles, Runs
    <3>2. CASE q # target[o]
      BY <2>1, <2>2, <3>2 DEF SameFiles
    <3> QED
      BY <3>1, <3>2
  <2> QED
    BY <2>3, <2>4
<1> QED
  BY <1>1, <1>2 DEF Work

\* A crash leaves the runs, but the unit being launched may have started.
LEMMA CrashEffect ==
    ASSUME run \in [Ops -> Runs], Crash
    PROVE  /\ run' \in [Ops -> Runs]
           /\ \A q \in Ops : /\ SameFiles(q) /\ run'[q].retired = run[q].retired
                             /\ run'[q].stray = run[q].stray
                             /\ run'[q].alive = run[q].alive \/ (run'[q].alive /\ pc[q] = "run")
<1>1. CASE run' = run
  BY <1>1 DEF SameFiles
<1>2. ASSUME NEW o \in Ops, pc[o] = "run", run' = [run EXCEPT ![o].alive = TRUE]
      PROVE  /\ run' \in [Ops -> Runs]
             /\ \A q \in Ops : /\ SameFiles(q) /\ run'[q].retired = run[q].retired
                               /\ run'[q].stray = run[q].stray
                               /\ run'[q].alive = run[q].alive \/ (run'[q].alive /\ pc[q] = "run")
  BY <1>2 DEF Runs, SameFiles
<1> QED
  BY <1>1, <1>2 DEF Crash

\* A power failure ends every unit and every program.
LEMMA PowerEffect ==
    ASSUME run \in [Ops -> Runs], PowerFailure
    PROVE  /\ run' \in [Ops -> Runs]
           /\ \A q \in Ops : /\ SameFiles(q) /\ run'[q].retired = run[q].retired
                             /\ ~run'[q].alive /\ ~run'[q].stray
<1>1. run' = [o \in Ops |-> [run[o] EXCEPT !.alive = FALSE, !.stray = FALSE]]
  BY DEF PowerFailure
<1> QED
  BY <1>1 DEF Runs, SameFiles

\* The work on an operation starts with reading its run.
LEMMA FinishIsJob == ASSUME NEW p \in Ops PROVE Finish(p) \in Jobs
  BY DEF Finish, Jobs

\* The result that a thread read is written back.
LEMMA WriteBackEffect ==
    ASSUME run \in [Ops -> Runs], job \in [Threads -> Jobs \cup {None}],
           NEW t \in Threads, JobWrite(t)
    PROVE  /\ run' \in [Ops -> Runs] /\ job[t] # None /\ job[t].op \in Ops
           /\ \A q \in Ops : SameFiles(q) /\ (q # job[t].op => run'[q] = run[q])
           /\ run'[job[t].op].alive = run[job[t].op].alive
           /\ run'[job[t].op].stray = run[job[t].op].stray
           /\ run'[job[t].op].retired = job[t].confirmed
<1>1. job[t] # None /\ job[t] \in Jobs
  BY DEF JobWrite, Working
<1>2. job[t].op \in Ops /\ job[t].confirmed \in BOOLEAN
  BY <1>1 DEF Jobs
<1>3. run' = [run EXCEPT ![job[t].op].retired = job[t].confirmed]
  BY DEF JobWrite
<1> QED
  BY <1>1, <1>2, <1>3 DEF Runs, SameFiles

\* Every worker stays at one of its labels.
LEMMA PcTyped == ASSUME TypeOK, Shape, Next PROVE PcTypes'
<1>a. /\ pc \in [Ops -> Labels]
  BY DEF TypeOK, Shape, PcTypes, JobTypes, LockTypes
<1> USE <1>a
<1> USE ThreadsDiffer DEF files, request, rest, At, Goto, PcTypes, Asked, WorkerLabels,
           Gone, Threads, Reconcilers, Labels, GoOn, AfterRun, Die, Look
<1>1. ASSUME NEW o \in Ops, Dispatching(o) PROVE PcTypes'
  <2>1. CASE Admit(o)
    BY <2>1 DEF Admit
  <2>2. CASE AdmitRefused(o)
    BY <2>2 DEF AdmitRefused
  <2>3. CASE Queue(o)
    BY <2>3 DEF Queue
  <2>4. CASE Launch(o)
    BY <2>4 DEF Launch
  <2>5. CASE LaunchFails(o)
    BY <2>5 DEF LaunchFails
  <2>6. CASE Start(o)
    BY <2>6 DEF Start
  <2> QED
    BY <1>1, <2>1, <2>2, <2>3, <2>4, <2>5, <2>6 DEF Dispatching
<1>2. ASSUME NEW o \in Ops, Refusing(o) PROVE PcTypes'
  <2>1. CASE ActRefused(o)
    BY <2>1 DEF ActRefused
  <2>2. CASE AcquireRefused(o)
    BY <2>2 DEF AcquireRefused
  <2>3. CASE ReserveRefused(o)
    BY <2>3 DEF ReserveRefused
  <2>4. CASE TransferRefused(o)
    BY <2>4 DEF TransferRefused
  <2>5. CASE Recovered(o)
    BY <2>5 DEF Recovered
  <2> QED
    BY <1>2, <2>1, <2>2, <2>3, <2>4, <2>5 DEF Refusing
<1>3. ASSUME NEW o \in Ops, Reserving(o) PROVE PcTypes'
  <2>1. CASE Enter(o)
    BY <2>1 DEF Enter
  <2>2. CASE Acquire(o)
    BY <2>2 DEF Acquire
  <2>3. CASE Reserve(o)
    BY <2>3 DEF Reserve
  <2>4. CASE WriteSpec(o)
    BY <2>4 DEF WriteSpec
  <2> QED
    BY <1>3, <2>1, <2>2, <2>3, <2>4 DEF Reserving
<1>4. ASSUME NEW o \in Ops, Running(o) PROVE PcTypes'
  <2>1. CASE LaunchRun(o)
    BY <2>1 DEF LaunchRun
  <2>2. CASE LaunchRunFails(o)
    BY <2>2 DEF LaunchRunFails
  <2>3. CASE RunOver(o)
    BY <2>3 DEF RunOver
  <2>4. CASE Closed(o)
    BY <2>4 DEF Closed
  <2> QED
    BY <1>4, <2>1, <2>2, <2>3, <2>4 DEF Running
<1>5. ASSUME NEW o \in Ops, Checking(o) PROVE PcTypes'
  <2>1. CASE StopRun(o)
    BY <2>1 DEF StopRun
  <2>2. CASE Confirm(o)
    BY <2>2 DEF Confirm
  <2>3. CASE ConfirmWrite(o)
    BY <2>3 DEF ConfirmWrite
  <2>4. CASE Work(o)
    BY <2>4 DEF Work
  <2> QED
    BY <1>5, <2>1, <2>2, <2>3, <2>4 DEF Checking
<1>6. ASSUME NEW o \in Ops, Passing(o) PROVE PcTypes'
  <2>1. CASE Transfer(o)
    BY <2>1 DEF Transfer
  <2>2. CASE Transferred(o)
    BY <2>2 DEF Transferred
  <2>3. CASE Release(o)
    BY <2>3 DEF Release
  <2>4. CASE Final(o)
    BY <2>4 DEF Final
  <2> QED
    BY <1>6, <2>1, <2>2, <2>3, <2>4 DEF Passing
<1>7. ASSUME NEW o \in Ops, Recovering(o) PROVE PcTypes'
  <2>1. CASE Recover(o)
    BY <2>1 DEF Recover
  <2>2. CASE (\E p \in Ops : RecoverNext(o, p))
    BY <2>2 DEF RecoverNext
  <2> QED
    BY <1>7, <2>1, <2>2 DEF Recovering
<1>8. ASSUME NEW t \in Threads, Finishing(t) PROVE PcTypes'
  <2>1. CASE JobStop(t)
    BY <2>1 DEF JobStop
  <2>2. CASE JobRead(t)
    BY <2>2 DEF JobRead
  <2>3. CASE JobWrite(t)
    BY <2>3 DEF JobWrite
  <2>4. CASE JobRefuse(t)
    BY <2>4 DEF JobRefuse
  <2> QED
    BY <1>8, <2>1, <2>2, <2>3, <2>4 DEF Finishing
<1>9. ASSUME NEW r \in Reconcilers, Reconciling(r) PROVE PcTypes'
  <2>1. CASE Scan(r)
    BY <2>1 DEF Scan
  <2>2. CASE Repair(r)
    BY <2>2 DEF Repair
  <2>3. CASE (\E o \in Ops : Visit(r, o))
    BY <2>3 DEF Visit
  <2>4. CASE (\E o \in Ops : Settle(r, o))
    BY <2>4 DEF Settle
  <2> QED
    BY <1>9, <2>1, <2>2, <2>3, <2>4 DEF Reconciling
<1>10. ASSUME NEW p \in Ops, Vending(p) PROVE PcTypes'
  <2>1. CASE RunRetires(p)
    BY <2>1 DEF RunRetires
  <2>2. CASE UnitExits(p)
    BY <2>2 DEF UnitExits
  <2>3. CASE RunDies(p)
    BY <2>3 DEF RunDies
  <2>4. CASE StrayEnds(p)
    BY <2>4 DEF StrayEnds
  <2> QED
    BY <1>10, <2>1, <2>2, <2>3, <2>4 DEF Vending
<1>11. ASSUME NEW o \in Ops, JobRelease(o) PROVE PcTypes'
  BY <1>11 DEF JobRelease
<1>12. ASSUME NEW o \in Ops, NEW k \in Kinds, NEW t \in Ops, Request(o, k, t) PROVE PcTypes'
  BY <1>12 DEF Request
<1>13. ASSUME Publish PROVE PcTypes'
  BY <1>13 DEF Publish
<1>14. ASSUME Crash PROVE PcTypes'
  BY <1>14 DEF Crash
<1>15. ASSUME PowerFailure PROVE PcTypes'
  BY <1>15 DEF PowerFailure
<1>16. ASSUME GateDies PROVE PcTypes'
  BY <1>16 DEF GateDies
<1>17. ASSUME StartService PROVE PcTypes'
  BY <1>17 DEF StartService
<1> QED
  BY <1>1, <1>2, <1>3, <1>4, <1>5, <1>6, <1>7, <1>8, <1>9, <1>10, <1>11, <1>12, <1>13,
     <1>14, <1>15, <1>16, <1>17, StepKinds

\* A thread works on an operation, in one of four steps.
LEMMA JobTyped == ASSUME TypeOK, Shape, Next PROVE JobTypes'
<1>a. /\ job \in [Threads -> Jobs \cup {None}]
      /\ run \in [Ops -> Runs]
  BY DEF TypeOK, Shape, PcTypes, JobTypes, LockTypes
<1> USE <1>a
<1> USE ThreadsDiffer DEF files, request, rest, At, Goto, Threads, Reconcilers,
           JobTypes, Jobs, Die, Look, Working
<1>1. ASSUME NEW o \in Ops, Dispatching(o) PROVE JobTypes'
  <2>1. CASE Admit(o)
    BY <2>1 DEF Admit
  <2>2. CASE AdmitRefused(o)
    BY <2>2 DEF AdmitRefused
  <2>3. CASE Queue(o)
    BY <2>3 DEF Queue
  <2>4. CASE Launch(o)
    BY <2>4 DEF Launch
  <2>5. CASE LaunchFails(o)
    BY <2>5 DEF LaunchFails
  <2>6. CASE Start(o)
    BY <2>6 DEF Start
  <2> QED
    BY <1>1, <2>1, <2>2, <2>3, <2>4, <2>5, <2>6 DEF Dispatching
<1>2. ASSUME NEW o \in Ops, Refusing(o) PROVE JobTypes'
  <2>1. CASE ActRefused(o)
    BY <2>1 DEF ActRefused
  <2>2. CASE AcquireRefused(o)
    BY <2>2 DEF AcquireRefused
  <2>3. CASE ReserveRefused(o)
    BY <2>3 DEF ReserveRefused
  <2>4. CASE TransferRefused(o)
    BY <2>4 DEF TransferRefused
  <2>5. CASE Recovered(o)
    BY <2>5 DEF Recovered
  <2> QED
    BY <1>2, <2>1, <2>2, <2>3, <2>4, <2>5 DEF Refusing
<1>3. ASSUME NEW o \in Ops, Reserving(o) PROVE JobTypes'
  <2>1. CASE Enter(o)
    BY <2>1 DEF Enter
  <2>2. CASE Acquire(o)
    BY <2>2 DEF Acquire
  <2>3. CASE Reserve(o)
    BY <2>3 DEF Reserve
  <2>4. CASE WriteSpec(o)
    BY <2>4 DEF WriteSpec
  <2> QED
    BY <1>3, <2>1, <2>2, <2>3, <2>4 DEF Reserving
<1>4. ASSUME NEW o \in Ops, Running(o) PROVE JobTypes'
  <2>1. CASE LaunchRun(o)
    BY <2>1 DEF LaunchRun
  <2>2. CASE LaunchRunFails(o)
    BY <2>2, FinishIsJob DEF LaunchRunFails
  <2>3. CASE RunOver(o)
    <3>1. job' = job \/ job' = [job EXCEPT ![o] = Finish(o)]
      BY <2>3 DEF RunOver
    <3> QED
      BY <3>1, FinishIsJob
  <2>4. CASE Closed(o)
    BY <2>4 DEF Closed
  <2> QED
    BY <1>4, <2>1, <2>2, <2>3, <2>4 DEF Running
<1>5. ASSUME NEW o \in Ops, Checking(o) PROVE JobTypes'
  <2>1. CASE StopRun(o)
    BY <2>1 DEF StopRun
  <2>2. CASE Confirm(o)
    BY <2>2 DEF Confirm
  <2>3. CASE ConfirmWrite(o)
    BY <2>3 DEF ConfirmWrite
  <2>4. CASE Work(o)
    BY <2>4 DEF Work
  <2> QED
    BY <1>5, <2>1, <2>2, <2>3, <2>4 DEF Checking
<1>6. ASSUME NEW o \in Ops, Passing(o) PROVE JobTypes'
  <2>1. CASE Transfer(o)
    BY <2>1 DEF Transfer
  <2>2. CASE Transferred(o)
    BY <2>2 DEF Transferred
  <2>3. CASE Release(o)
    BY <2>3 DEF Release
  <2>4. CASE Final(o)
    BY <2>4, FinishIsJob DEF Final
  <2> QED
    BY <1>6, <2>1, <2>2, <2>3, <2>4 DEF Passing
<1>7. ASSUME NEW o \in Ops, Recovering(o) PROVE JobTypes'
  <2>1. CASE Recover(o)
    BY <2>1 DEF Recover
  <2>2. CASE (\E p \in Ops : RecoverNext(o, p))
    <3>1. job' = job \/ \E p \in Ops : job' = [job EXCEPT ![o] = Finish(p)]
      BY <2>2 DEF RecoverNext
    <3> QED
      BY <3>1, FinishIsJob
  <2> QED
    BY <1>7, <2>1, <2>2 DEF Recovering
<1>8. ASSUME NEW t \in Threads, Finishing(t) PROVE JobTypes'
  <2>1. CASE JobStop(t)
    BY <2>1 DEF JobStop
  <2>2. CASE JobRead(t)
    BY <2>2 DEF JobRead
  <2>3. CASE JobWrite(t)
    BY <2>3 DEF JobWrite
  <2>4. CASE JobRefuse(t)
    BY <2>4 DEF JobRefuse
  <2> QED
    BY <1>8, <2>1, <2>2, <2>3, <2>4 DEF Finishing
<1>9. ASSUME NEW r \in Reconcilers, Reconciling(r) PROVE JobTypes'
  <2>1. CASE Scan(r)
    BY <2>1 DEF Scan
  <2>2. CASE Repair(r)
    BY <2>2 DEF Repair
  <2>3. CASE (\E o \in Ops : Visit(r, o))
    <3>1. job' = job \/ \E o \in Ops : job' = [job EXCEPT ![r] = Finish(o)]
      BY <2>3 DEF Visit
    <3> QED
      BY <3>1, FinishIsJob
  <2>4. CASE (\E o \in Ops : Settle(r, o))
    BY <2>4 DEF Settle
  <2> QED
    BY <1>9, <2>1, <2>2, <2>3, <2>4 DEF Reconciling
<1>10. ASSUME NEW p \in Ops, Vending(p) PROVE JobTypes'
  <2>1. CASE RunRetires(p)
    BY <2>1 DEF RunRetires
  <2>2. CASE UnitExits(p)
    BY <2>2 DEF UnitExits
  <2>3. CASE RunDies(p)
    BY <2>3 DEF RunDies
  <2>4. CASE StrayEnds(p)
    BY <2>4 DEF StrayEnds
  <2> QED
    BY <1>10, <2>1, <2>2, <2>3, <2>4 DEF Vending
<1>11. ASSUME NEW o \in Ops, JobRelease(o) PROVE JobTypes'
  BY <1>11 DEF JobRelease
<1>12. ASSUME NEW o \in Ops, NEW k \in Kinds, NEW t \in Ops, Request(o, k, t) PROVE JobTypes'
  BY <1>12 DEF Request
<1>13. ASSUME Publish PROVE JobTypes'
  BY <1>13 DEF Publish
<1>14. ASSUME Crash PROVE JobTypes'
  BY <1>14 DEF Crash
<1>15. ASSUME PowerFailure PROVE JobTypes'
  BY <1>15 DEF PowerFailure
<1>16. ASSUME GateDies PROVE JobTypes'
  BY <1>16 DEF GateDies
<1>17. ASSUME StartService PROVE JobTypes'
  BY <1>17 DEF StartService
<1> QED
  BY <1>1, <1>2, <1>3, <1>4, <1>5, <1>6, <1>7, <1>8, <1>9, <1>10, <1>11, <1>12, <1>13,
     <1>14, <1>15, <1>16, <1>17, StepKinds

\* A lock is free or held by a thread.
LEMMA LockTyped == ASSUME TypeOK, Shape, Next PROVE LockTypes'
<1>a. /\ lock \in [dispatch : Threads \cup {None}, canonical : Threads \cup {None},
                  environment : Threads \cup {None}, worker : [Ops -> Threads \cup {None}]]
      /\ job \in [Threads -> Jobs \cup {None}]
  BY DEF TypeOK, Shape, PcTypes, JobTypes, LockTypes
<1> USE <1>a
<1> USE ThreadsDiffer DEF files, request, rest, At, Goto, Threads, Reconcilers,
           LockTypes, Jobs, Free, GoOn, Die, Look, Working
<1>1. ASSUME NEW o \in Ops, Dispatching(o) PROVE LockTypes'
  <2>1. CASE Admit(o)
    BY <2>1 DEF Admit
  <2>2. CASE AdmitRefused(o)
    BY <2>2 DEF AdmitRefused
  <2>3. CASE Queue(o)
    BY <2>3 DEF Queue
  <2>4. CASE Launch(o)
    BY <2>4 DEF Launch
  <2>5. CASE LaunchFails(o)
    BY <2>5 DEF LaunchFails
  <2>6. CASE Start(o)
    BY <2>6 DEF Start
  <2> QED
    BY <1>1, <2>1, <2>2, <2>3, <2>4, <2>5, <2>6 DEF Dispatching
<1>2. ASSUME NEW o \in Ops, Refusing(o) PROVE LockTypes'
  <2>1. CASE ActRefused(o)
    BY <2>1 DEF ActRefused
  <2>2. CASE AcquireRefused(o)
    BY <2>2 DEF AcquireRefused
  <2>3. CASE ReserveRefused(o)
    BY <2>3 DEF ReserveRefused
  <2>4. CASE TransferRefused(o)
    BY <2>4 DEF TransferRefused
  <2>5. CASE Recovered(o)
    BY <2>5 DEF Recovered
  <2> QED
    BY <1>2, <2>1, <2>2, <2>3, <2>4, <2>5 DEF Refusing
<1>3. ASSUME NEW o \in Ops, Reserving(o) PROVE LockTypes'
  <2>1. CASE Enter(o)
    BY <2>1 DEF Enter
  <2>2. CASE Acquire(o)
    BY <2>2 DEF Acquire
  <2>3. CASE Reserve(o)
    BY <2>3 DEF Reserve
  <2>4. CASE WriteSpec(o)
    BY <2>4 DEF WriteSpec
  <2> QED
    BY <1>3, <2>1, <2>2, <2>3, <2>4 DEF Reserving
<1>4. ASSUME NEW o \in Ops, Running(o) PROVE LockTypes'
  <2>1. CASE LaunchRun(o)
    BY <2>1 DEF LaunchRun
  <2>2. CASE LaunchRunFails(o)
    BY <2>2 DEF LaunchRunFails
  <2>3. CASE RunOver(o)
    BY <2>3 DEF RunOver
  <2>4. CASE Closed(o)
    BY <2>4 DEF Closed
  <2> QED
    BY <1>4, <2>1, <2>2, <2>3, <2>4 DEF Running
<1>5. ASSUME NEW o \in Ops, Checking(o) PROVE LockTypes'
  <2>1. CASE StopRun(o)
    BY <2>1 DEF StopRun
  <2>2. CASE Confirm(o)
    BY <2>2 DEF Confirm
  <2>3. CASE ConfirmWrite(o)
    BY <2>3 DEF ConfirmWrite
  <2>4. CASE Work(o)
    BY <2>4 DEF Work
  <2> QED
    BY <1>5, <2>1, <2>2, <2>3, <2>4 DEF Checking
<1>6. ASSUME NEW o \in Ops, Passing(o) PROVE LockTypes'
  <2>1. CASE Transfer(o)
    BY <2>1 DEF Transfer
  <2>2. CASE Transferred(o)
    BY <2>2 DEF Transferred
  <2>3. CASE Release(o)
    BY <2>3 DEF Release
  <2>4. CASE Final(o)
    BY <2>4 DEF Final
  <2> QED
    BY <1>6, <2>1, <2>2, <2>3, <2>4 DEF Passing
<1>7. ASSUME NEW o \in Ops, Recovering(o) PROVE LockTypes'
  <2>1. CASE Recover(o)
    BY <2>1 DEF Recover
  <2>2. CASE (\E p \in Ops : RecoverNext(o, p))
    BY <2>2 DEF RecoverNext
  <2> QED
    BY <1>7, <2>1, <2>2 DEF Recovering
<1>8. ASSUME NEW t \in Threads, Finishing(t) PROVE LockTypes'
  <2>1. CASE JobStop(t)
    BY <2>1 DEF JobStop
  <2>2. CASE JobRead(t)
    BY <2>2 DEF JobRead
  <2>3. CASE JobWrite(t)
    BY <2>3 DEF JobWrite
  <2>4. CASE JobRefuse(t)
    BY <2>4 DEF JobRefuse
  <2> QED
    BY <1>8, <2>1, <2>2, <2>3, <2>4 DEF Finishing
<1>9. ASSUME NEW r \in Reconcilers, Reconciling(r) PROVE LockTypes'
  <2>1. CASE Scan(r)
    BY <2>1 DEF Scan
  <2>2. CASE Repair(r)
    BY <2>2 DEF Repair
  <2>3. CASE (\E o \in Ops : Visit(r, o))
    BY <2>3 DEF Visit
  <2>4. CASE (\E o \in Ops : Settle(r, o))
    BY <2>4 DEF Settle
  <2> QED
    BY <1>9, <2>1, <2>2, <2>3, <2>4 DEF Reconciling
<1>10. ASSUME NEW p \in Ops, Vending(p) PROVE LockTypes'
  <2>1. CASE RunRetires(p)
    BY <2>1 DEF RunRetires
  <2>2. CASE UnitExits(p)
    BY <2>2 DEF UnitExits
  <2>3. CASE RunDies(p)
    BY <2>3 DEF RunDies
  <2>4. CASE StrayEnds(p)
    BY <2>4 DEF StrayEnds
  <2> QED
    BY <1>10, <2>1, <2>2, <2>3, <2>4 DEF Vending
<1>11. ASSUME NEW o \in Ops, JobRelease(o) PROVE LockTypes'
  BY <1>11 DEF JobRelease
<1>12. ASSUME NEW o \in Ops, NEW k \in Kinds, NEW t \in Ops, Request(o, k, t) PROVE LockTypes'
  BY <1>12 DEF Request
<1>13. ASSUME Publish PROVE LockTypes'
  BY <1>13 DEF Publish
<1>14. ASSUME Crash PROVE LockTypes'
  BY <1>14 DEF Crash
<1>15. ASSUME PowerFailure PROVE LockTypes'
  BY <1>15 DEF PowerFailure
<1>16. ASSUME GateDies PROVE LockTypes'
  BY <1>16 DEF GateDies
<1>17. ASSUME StartService PROVE LockTypes'
  BY <1>17 DEF StartService
<1> QED
  BY <1>1, <1>2, <1>3, <1>4, <1>5, <1>6, <1>7, <1>8, <1>9, <1>10, <1>11, <1>12, <1>13,
     <1>14, <1>15, <1>16, <1>17, StepKinds

\* Receipts and the latest pointer keep their types.
LEMMA FilesTyped == ASSUME TypeOK, Shape, Next PROVE FileTypes'
<1>a. /\ receipt \in [Ops -> {"none", "unconfirmed", "queued", "owned", "settled", "terminated"}]
      /\ latest.op \in Ops \cup {None}
      /\ writer # None => writer.thread \in Threads /\ writer.op \in Ops
      /\ job \in [Threads -> Jobs \cup {None}]
  BY DEF TypeOK, Shape, PcTypes, JobTypes, LockTypes
<1> USE <1>a
<1> USE ThreadsDiffer DEF files, request, rest, At, Goto, Threads, Reconcilers,
           FileTypes, Jobs, Write, Terminal, Die, Look, Working
<1>1. ASSUME NEW o \in Ops, Dispatching(o) PROVE FileTypes'
  <2>1. CASE Admit(o)
    BY <2>1 DEF Admit
  <2>2. CASE AdmitRefused(o)
    BY <2>2 DEF AdmitRefused
  <2>3. CASE Queue(o)
    BY <2>3 DEF Queue
  <2>4. CASE Launch(o)
    BY <2>4 DEF Launch
  <2>5. CASE LaunchFails(o)
    BY <2>5 DEF LaunchFails
  <2>6. CASE Start(o)
    BY <2>6 DEF Start
  <2> QED
    BY <1>1, <2>1, <2>2, <2>3, <2>4, <2>5, <2>6 DEF Dispatching
<1>2. ASSUME NEW o \in Ops, Refusing(o) PROVE FileTypes'
  <2>1. CASE ActRefused(o)
    BY <2>1 DEF ActRefused
  <2>2. CASE AcquireRefused(o)
    BY <2>2 DEF AcquireRefused
  <2>3. CASE ReserveRefused(o)
    BY <2>3 DEF ReserveRefused
  <2>4. CASE TransferRefused(o)
    BY <2>4 DEF TransferRefused
  <2>5. CASE Recovered(o)
    BY <2>5 DEF Recovered
  <2> QED
    BY <1>2, <2>1, <2>2, <2>3, <2>4, <2>5 DEF Refusing
<1>3. ASSUME NEW o \in Ops, Reserving(o) PROVE FileTypes'
  <2>1. CASE Enter(o)
    BY <2>1 DEF Enter
  <2>2. CASE Acquire(o)
    BY <2>2 DEF Acquire
  <2>3. CASE Reserve(o)
    BY <2>3 DEF Reserve
  <2>4. CASE WriteSpec(o)
    BY <2>4 DEF WriteSpec
  <2> QED
    BY <1>3, <2>1, <2>2, <2>3, <2>4 DEF Reserving
<1>4. ASSUME NEW o \in Ops, Running(o) PROVE FileTypes'
  <2>1. CASE LaunchRun(o)
    BY <2>1 DEF LaunchRun
  <2>2. CASE LaunchRunFails(o)
    BY <2>2 DEF LaunchRunFails
  <2>3. CASE RunOver(o)
    BY <2>3 DEF RunOver
  <2>4. CASE Closed(o)
    BY <2>4 DEF Closed
  <2> QED
    BY <1>4, <2>1, <2>2, <2>3, <2>4 DEF Running
<1>5. ASSUME NEW o \in Ops, Checking(o) PROVE FileTypes'
  <2>1. CASE StopRun(o)
    BY <2>1 DEF StopRun
  <2>2. CASE Confirm(o)
    BY <2>2 DEF Confirm
  <2>3. CASE ConfirmWrite(o)
    BY <2>3 DEF ConfirmWrite
  <2>4. CASE Work(o)
    BY <2>4 DEF Work
  <2> QED
    BY <1>5, <2>1, <2>2, <2>3, <2>4 DEF Checking
<1>6. ASSUME NEW o \in Ops, Passing(o) PROVE FileTypes'
  <2>1. CASE Transfer(o)
    BY <2>1 DEF Transfer
  <2>2. CASE Transferred(o)
    BY <2>2 DEF Transferred
  <2>3. CASE Release(o)
    BY <2>3 DEF Release
  <2>4. CASE Final(o)
    BY <2>4 DEF Final
  <2> QED
    BY <1>6, <2>1, <2>2, <2>3, <2>4 DEF Passing
<1>7. ASSUME NEW o \in Ops, Recovering(o) PROVE FileTypes'
  <2>1. CASE Recover(o)
    BY <2>1 DEF Recover
  <2>2. CASE (\E p \in Ops : RecoverNext(o, p))
    BY <2>2 DEF RecoverNext
  <2> QED
    BY <1>7, <2>1, <2>2 DEF Recovering
<1>8. ASSUME NEW t \in Threads, Finishing(t) PROVE FileTypes'
  <2>1. CASE JobStop(t)
    BY <2>1 DEF JobStop
  <2>2. CASE JobRead(t)
    BY <2>2 DEF JobRead
  <2>3. CASE JobWrite(t)
    BY <2>3 DEF JobWrite
  <2>4. CASE JobRefuse(t)
    BY <2>4 DEF JobRefuse
  <2> QED
    BY <1>8, <2>1, <2>2, <2>3, <2>4 DEF Finishing
<1>9. ASSUME NEW r \in Reconcilers, Reconciling(r) PROVE FileTypes'
  <2>1. CASE Scan(r)
    BY <2>1 DEF Scan
  <2>2. CASE Repair(r)
    BY <2>2 DEF Repair
  <2>3. CASE (\E o \in Ops : Visit(r, o))
    BY <2>3 DEF Visit
  <2>4. CASE (\E o \in Ops : Settle(r, o))
    BY <2>4 DEF Settle
  <2> QED
    BY <1>9, <2>1, <2>2, <2>3, <2>4 DEF Reconciling
<1>10. ASSUME NEW p \in Ops, Vending(p) PROVE FileTypes'
  <2>1. CASE RunRetires(p)
    BY <2>1 DEF RunRetires
  <2>2. CASE UnitExits(p)
    BY <2>2 DEF UnitExits
  <2>3. CASE RunDies(p)
    BY <2>3 DEF RunDies
  <2>4. CASE StrayEnds(p)
    BY <2>4 DEF StrayEnds
  <2> QED
    BY <1>10, <2>1, <2>2, <2>3, <2>4 DEF Vending
<1>11. ASSUME NEW o \in Ops, JobRelease(o) PROVE FileTypes'
  BY <1>11 DEF JobRelease
<1>12. ASSUME NEW o \in Ops, NEW k \in Kinds, NEW t \in Ops, Request(o, k, t) PROVE FileTypes'
  BY <1>12 DEF Request
<1>13. ASSUME Publish PROVE FileTypes'
  BY <1>13 DEF Publish
<1>14. ASSUME Crash PROVE FileTypes'
  BY <1>14 DEF Crash
<1>15. ASSUME PowerFailure PROVE FileTypes'
  BY <1>15 DEF PowerFailure
<1>16. ASSUME GateDies PROVE FileTypes'
  BY <1>16 DEF GateDies
<1>17. ASSUME StartService PROVE FileTypes'
  BY <1>17 DEF StartService
<1> QED
  BY <1>1, <1>2, <1>3, <1>4, <1>5, <1>6, <1>7, <1>8, <1>9, <1>10, <1>11, <1>12, <1>13,
     <1>14, <1>15, <1>16, <1>17, StepKinds

\* Requests, executor records and reservations keep their types.
LEMMA RequestsTyped == ASSUME TypeOK, Shape, Next PROVE RequestTypes'
<1>a. /\ kind \in [Ops -> Kinds \cup {None}]
      /\ target \in [Ops -> Ops]
      /\ executor \in [Ops -> {"none", "active", "stale", "retired"}]
      /\ held \in [Ops -> {"none", "held", "released"}]
      /\ job \in [Threads -> Jobs \cup {None}]
  BY DEF TypeOK, Shape, PcTypes, JobTypes, LockTypes
<1> USE <1>a
<1> USE ThreadsDiffer DEF files, request, rest, At, Goto, Threads, Reconcilers,
           RequestTypes, Jobs, Released, Names, Die, Look, Working
<1>1. ASSUME NEW o \in Ops, Dispatching(o) PROVE RequestTypes'
  <2>1. CASE Admit(o)
    BY <2>1 DEF Admit
  <2>2. CASE AdmitRefused(o)
    BY <2>2 DEF AdmitRefused
  <2>3. CASE Queue(o)
    BY <2>3 DEF Queue
  <2>4. CASE Launch(o)
    BY <2>4 DEF Launch
  <2>5. CASE LaunchFails(o)
    BY <2>5 DEF LaunchFails
  <2>6. CASE Start(o)
    BY <2>6 DEF Start
  <2> QED
    BY <1>1, <2>1, <2>2, <2>3, <2>4, <2>5, <2>6 DEF Dispatching
<1>2. ASSUME NEW o \in Ops, Refusing(o) PROVE RequestTypes'
  <2>1. CASE ActRefused(o)
    BY <2>1 DEF ActRefused
  <2>2. CASE AcquireRefused(o)
    BY <2>2 DEF AcquireRefused
  <2>3. CASE ReserveRefused(o)
    BY <2>3 DEF ReserveRefused
  <2>4. CASE TransferRefused(o)
    BY <2>4 DEF TransferRefused
  <2>5. CASE Recovered(o)
    BY <2>5 DEF Recovered
  <2> QED
    BY <1>2, <2>1, <2>2, <2>3, <2>4, <2>5 DEF Refusing
<1>3. ASSUME NEW o \in Ops, Reserving(o) PROVE RequestTypes'
  <2>1. CASE Enter(o)
    BY <2>1 DEF Enter
  <2>2. CASE Acquire(o)
    BY <2>2 DEF Acquire
  <2>3. CASE Reserve(o)
    BY <2>3 DEF Reserve
  <2>4. CASE WriteSpec(o)
    BY <2>4 DEF WriteSpec
  <2> QED
    BY <1>3, <2>1, <2>2, <2>3, <2>4 DEF Reserving
<1>4. ASSUME NEW o \in Ops, Running(o) PROVE RequestTypes'
  <2>1. CASE LaunchRun(o)
    BY <2>1 DEF LaunchRun
  <2>2. CASE LaunchRunFails(o)
    BY <2>2 DEF LaunchRunFails
  <2>3. CASE RunOver(o)
    BY <2>3 DEF RunOver
  <2>4. CASE Closed(o)
    BY <2>4 DEF Closed
  <2> QED
    BY <1>4, <2>1, <2>2, <2>3, <2>4 DEF Running
<1>5. ASSUME NEW o \in Ops, Checking(o) PROVE RequestTypes'
  <2>1. CASE StopRun(o)
    BY <2>1 DEF StopRun
  <2>2. CASE Confirm(o)
    BY <2>2 DEF Confirm
  <2>3. CASE ConfirmWrite(o)
    BY <2>3 DEF ConfirmWrite
  <2>4. CASE Work(o)
    BY <2>4 DEF Work
  <2> QED
    BY <1>5, <2>1, <2>2, <2>3, <2>4 DEF Checking
<1>6. ASSUME NEW o \in Ops, Passing(o) PROVE RequestTypes'
  <2>1. CASE Transfer(o)
    BY <2>1 DEF Transfer
  <2>2. CASE Transferred(o)
    BY <2>2 DEF Transferred
  <2>3. CASE Release(o)
    BY <2>3 DEF Release
  <2>4. CASE Final(o)
    BY <2>4 DEF Final
  <2> QED
    BY <1>6, <2>1, <2>2, <2>3, <2>4 DEF Passing
<1>7. ASSUME NEW o \in Ops, Recovering(o) PROVE RequestTypes'
  <2>1. CASE Recover(o)
    BY <2>1 DEF Recover
  <2>2. CASE (\E p \in Ops : RecoverNext(o, p))
    BY <2>2 DEF RecoverNext
  <2> QED
    BY <1>7, <2>1, <2>2 DEF Recovering
<1>8. ASSUME NEW t \in Threads, Finishing(t) PROVE RequestTypes'
  <2>1. CASE JobStop(t)
    BY <2>1 DEF JobStop
  <2>2. CASE JobRead(t)
    BY <2>2 DEF JobRead
  <2>3. CASE JobWrite(t)
    BY <2>3 DEF JobWrite
  <2>4. CASE JobRefuse(t)
    BY <2>4 DEF JobRefuse
  <2> QED
    BY <1>8, <2>1, <2>2, <2>3, <2>4 DEF Finishing
<1>9. ASSUME NEW r \in Reconcilers, Reconciling(r) PROVE RequestTypes'
  <2>1. CASE Scan(r)
    BY <2>1 DEF Scan
  <2>2. CASE Repair(r)
    BY <2>2 DEF Repair
  <2>3. CASE (\E o \in Ops : Visit(r, o))
    BY <2>3 DEF Visit
  <2>4. CASE (\E o \in Ops : Settle(r, o))
    BY <2>4 DEF Settle
  <2> QED
    BY <1>9, <2>1, <2>2, <2>3, <2>4 DEF Reconciling
<1>10. ASSUME NEW p \in Ops, Vending(p) PROVE RequestTypes'
  <2>1. CASE RunRetires(p)
    BY <2>1 DEF RunRetires
  <2>2. CASE UnitExits(p)
    BY <2>2 DEF UnitExits
  <2>3. CASE RunDies(p)
    BY <2>3 DEF RunDies
  <2>4. CASE StrayEnds(p)
    BY <2>4 DEF StrayEnds
  <2> QED
    BY <1>10, <2>1, <2>2, <2>3, <2>4 DEF Vending
<1>11. ASSUME NEW o \in Ops, JobRelease(o) PROVE RequestTypes'
  BY <1>11 DEF JobRelease
<1>12. ASSUME NEW o \in Ops, NEW k \in Kinds, NEW t \in Ops, Request(o, k, t) PROVE RequestTypes'
  BY <1>12 DEF Request
<1>13. ASSUME Publish PROVE RequestTypes'
  BY <1>13 DEF Publish
<1>14. ASSUME Crash PROVE RequestTypes'
  BY <1>14 DEF Crash
<1>15. ASSUME PowerFailure PROVE RequestTypes'
  BY <1>15 DEF PowerFailure
<1>16. ASSUME GateDies PROVE RequestTypes'
  BY <1>16 DEF GateDies
<1>17. ASSUME StartService PROVE RequestTypes'
  BY <1>17 DEF StartService
<1> QED
  BY <1>1, <1>2, <1>3, <1>4, <1>5, <1>6, <1>7, <1>8, <1>9, <1>10, <1>11, <1>12, <1>13,
     <1>14, <1>15, <1>16, <1>17, StepKinds

\* The record of a run keeps its type.
LEMMA RunsTyped == ASSUME TypeOK, Shape, Next PROVE RunTypes'
<1>a. /\ run \in [Ops -> Runs]
      /\ target \in [Ops -> Ops]
      /\ job \in [Threads -> Jobs \cup {None}]
  BY DEF TypeOK, Shape, PcTypes, JobTypes, LockTypes
<1> USE <1>a
<1> USE ThreadsDiffer DEF files, request, rest, At, Goto, Threads, Reconcilers,
           RunTypes, Jobs, Die, Look, Working
<1>1. ASSUME NEW o \in Ops, Dispatching(o) PROVE RunTypes'
  <2>1. CASE Admit(o)
    BY <2>1 DEF Admit
  <2>2. CASE AdmitRefused(o)
    BY <2>2 DEF AdmitRefused
  <2>3. CASE Queue(o)
    BY <2>3 DEF Queue
  <2>4. CASE Launch(o)
    BY <2>4 DEF Launch
  <2>5. CASE LaunchFails(o)
    BY <2>5 DEF LaunchFails
  <2>6. CASE Start(o)
    BY <2>6 DEF Start
  <2> QED
    BY <1>1, <2>1, <2>2, <2>3, <2>4, <2>5, <2>6 DEF Dispatching
<1>2. ASSUME NEW o \in Ops, Refusing(o) PROVE RunTypes'
  <2>1. CASE ActRefused(o)
    BY <2>1 DEF ActRefused
  <2>2. CASE AcquireRefused(o)
    BY <2>2 DEF AcquireRefused
  <2>3. CASE ReserveRefused(o)
    BY <2>3 DEF ReserveRefused
  <2>4. CASE TransferRefused(o)
    BY <2>4 DEF TransferRefused
  <2>5. CASE Recovered(o)
    BY <2>5 DEF Recovered
  <2> QED
    BY <1>2, <2>1, <2>2, <2>3, <2>4, <2>5 DEF Refusing
<1>3. ASSUME NEW o \in Ops, Reserving(o) PROVE RunTypes'
  <2>1. CASE Enter(o)
    BY <2>1 DEF Enter
  <2>2. CASE Acquire(o)
    BY <2>2 DEF Acquire
  <2>3. CASE Reserve(o)
    BY <2>3, ReserveEffect
  <2>4. CASE WriteSpec(o)
    BY <2>4 DEF WriteSpec, Runs
  <2> QED
    BY <1>3, <2>1, <2>2, <2>3, <2>4 DEF Reserving
<1>4. ASSUME NEW o \in Ops, Running(o) PROVE RunTypes'
  <2>1. CASE LaunchRun(o)
    BY <2>1 DEF LaunchRun, Runs
  <2>2. CASE LaunchRunFails(o)
    BY <2>2, LaunchFailsEffect
  <2>3. CASE RunOver(o)
    BY <2>3 DEF RunOver
  <2>4. CASE Closed(o)
    BY <2>4 DEF Closed
  <2> QED
    BY <1>4, <2>1, <2>2, <2>3, <2>4 DEF Running
<1>5. ASSUME NEW o \in Ops, Checking(o) PROVE RunTypes'
  <2>1. CASE StopRun(o)
    BY <2>1, StopEffect DEF StopRun
  <2>2. CASE Confirm(o)
    BY <2>2 DEF Confirm
  <2>3. CASE ConfirmWrite(o)
    BY <2>3 DEF ConfirmWrite, Runs
  <2>4. CASE Work(o)
    BY <2>4, WorkEffect
  <2> QED
    BY <1>5, <2>1, <2>2, <2>3, <2>4 DEF Checking
<1>6. ASSUME NEW o \in Ops, Passing(o) PROVE RunTypes'
  <2>1. CASE Transfer(o)
    BY <2>1 DEF Transfer
  <2>2. CASE Transferred(o)
    BY <2>2 DEF Transferred
  <2>3. CASE Release(o)
    BY <2>3 DEF Release
  <2>4. CASE Final(o)
    BY <2>4 DEF Final
  <2> QED
    BY <1>6, <2>1, <2>2, <2>3, <2>4 DEF Passing
<1>7. ASSUME NEW o \in Ops, Recovering(o) PROVE RunTypes'
  <2>1. CASE Recover(o)
    BY <2>1 DEF Recover
  <2>2. CASE (\E p \in Ops : RecoverNext(o, p))
    BY <2>2 DEF RecoverNext
  <2> QED
    BY <1>7, <2>1, <2>2 DEF Recovering
<1>8. ASSUME NEW t \in Threads, Finishing(t) PROVE RunTypes'
  <2>1. CASE JobStop(t)
    BY <2>1, StopEffect DEF JobStop
  <2>2. CASE JobRead(t)
    BY <2>2 DEF JobRead
  <2>3. CASE JobWrite(t)
    BY <2>3, WriteBackEffect
  <2>4. CASE JobRefuse(t)
    BY <2>4 DEF JobRefuse
  <2> QED
    BY <1>8, <2>1, <2>2, <2>3, <2>4 DEF Finishing
<1>9. ASSUME NEW r \in Reconcilers, Reconciling(r) PROVE RunTypes'
  <2>1. CASE Scan(r)
    BY <2>1 DEF Scan
  <2>2. CASE Repair(r)
    BY <2>2 DEF Repair
  <2>3. CASE (\E o \in Ops : Visit(r, o))
    BY <2>3 DEF Visit
  <2>4. CASE (\E o \in Ops : Settle(r, o))
    BY <2>4 DEF Settle
  <2> QED
    BY <1>9, <2>1, <2>2, <2>3, <2>4 DEF Reconciling
<1>10. ASSUME NEW p \in Ops, Vending(p) PROVE RunTypes'
  <2>1. CASE RunRetires(p)
    BY <2>1 DEF RunRetires, Runs
  <2>2. CASE UnitExits(p)
    BY <2>2 DEF UnitExits, Runs
  <2>3. CASE RunDies(p)
    BY <2>3, DeathEffect, StopEffect
  <2>4. CASE StrayEnds(p)
    BY <2>4 DEF StrayEnds, Runs
  <2> QED
    BY <1>10, <2>1, <2>2, <2>3, <2>4 DEF Vending
<1>11. ASSUME NEW o \in Ops, JobRelease(o) PROVE RunTypes'
  BY <1>11 DEF JobRelease
<1>12. ASSUME NEW o \in Ops, NEW k \in Kinds, NEW t \in Ops, Request(o, k, t) PROVE RunTypes'
  BY <1>12 DEF Request
<1>13. ASSUME Publish PROVE RunTypes'
  BY <1>13 DEF Publish
<1>14. ASSUME Crash PROVE RunTypes'
  BY <1>14, CrashEffect
<1>15. ASSUME PowerFailure PROVE RunTypes'
  BY <1>15, PowerEffect
<1>16. ASSUME GateDies PROVE RunTypes'
  BY <1>16 DEF GateDies
<1>17. ASSUME StartService PROVE RunTypes'
  BY <1>17 DEF StartService
<1> QED
  BY <1>1, <1>2, <1>3, <1>4, <1>5, <1>6, <1>7, <1>8, <1>9, <1>10, <1>11, <1>12, <1>13,
     <1>14, <1>15, <1>16, <1>17, StepKinds

\* Lists, phases and the count of faults keep their types.
LEMMA ListsTyped == ASSUME TypeOK, Shape, Next PROVE ListTypes'
<1>a. /\ todo \in [Threads -> SUBSET Ops]
      /\ phase \in [Reconcilers -> {"idle", "finish", "settle", "done"}]
      /\ job \in [Threads -> Jobs \cup {None}]
      /\ run \in [Ops -> Runs]
      /\ target \in [Ops -> Ops]
      /\ up \in BOOLEAN
      /\ faults \in 0 .. MaxFaults
      /\ lapse \subseteq {"reopened", "missed", "gate"}
  BY DEF TypeOK, Shape, PcTypes, JobTypes, LockTypes
<1> USE <1>a
<1> USE ThreadsDiffer DEF files, request, rest, At, Goto, Threads, Reconcilers,
           ListTypes, Jobs, Die, Look, Working, Over
<1>1. ASSUME NEW o \in Ops, Dispatching(o) PROVE ListTypes'
  <2>1. CASE Admit(o)
    BY <2>1 DEF Admit
  <2>2. CASE AdmitRefused(o)
    BY <2>2 DEF AdmitRefused
  <2>3. CASE Queue(o)
    BY <2>3 DEF Queue
  <2>4. CASE Launch(o)
    BY <2>4 DEF Launch
  <2>5. CASE LaunchFails(o)
    BY <2>5 DEF LaunchFails
  <2>6. CASE Start(o)
    BY <2>6 DEF Start
  <2> QED
    BY <1>1, <2>1, <2>2, <2>3, <2>4, <2>5, <2>6 DEF Dispatching
<1>2. ASSUME NEW o \in Ops, Refusing(o) PROVE ListTypes'
  <2>1. CASE ActRefused(o)
    BY <2>1 DEF ActRefused
  <2>2. CASE AcquireRefused(o)
    BY <2>2 DEF AcquireRefused
  <2>3. CASE ReserveRefused(o)
    BY <2>3 DEF ReserveRefused
  <2>4. CASE TransferRefused(o)
    BY <2>4 DEF TransferRefused
  <2>5. CASE Recovered(o)
    BY <2>5 DEF Recovered
  <2> QED
    BY <1>2, <2>1, <2>2, <2>3, <2>4, <2>5 DEF Refusing
<1>3. ASSUME NEW o \in Ops, Reserving(o) PROVE ListTypes'
  <2>1. CASE Enter(o)
    BY <2>1 DEF Enter
  <2>2. CASE Acquire(o)
    BY <2>2 DEF Acquire
  <2>3. CASE Reserve(o)
    BY <2>3 DEF Reserve
  <2>4. CASE WriteSpec(o)
    BY <2>4 DEF WriteSpec
  <2> QED
    BY <1>3, <2>1, <2>2, <2>3, <2>4 DEF Reserving
<1>4. ASSUME NEW o \in Ops, Running(o) PROVE ListTypes'
  <2>1. CASE LaunchRun(o)
    BY <2>1 DEF LaunchRun
  <2>2. CASE LaunchRunFails(o)
    BY <2>2 DEF LaunchRunFails
  <2>3. CASE RunOver(o)
    BY <2>3 DEF RunOver
  <2>4. CASE Closed(o)
    BY <2>4 DEF Closed
  <2> QED
    BY <1>4, <2>1, <2>2, <2>3, <2>4 DEF Running
<1>5. ASSUME NEW o \in Ops, Checking(o) PROVE ListTypes'
  <2>1. CASE StopRun(o)
    BY <2>1, StopEffect, OperationsConstants DEF StopRun
  <2>2. CASE Confirm(o)
    BY <2>2 DEF Confirm
  <2>3. CASE ConfirmWrite(o)
    BY <2>3 DEF ConfirmWrite
  <2>4. CASE Work(o)
    BY <2>4 DEF Work
  <2> QED
    BY <1>5, <2>1, <2>2, <2>3, <2>4 DEF Checking
<1>6. ASSUME NEW o \in Ops, Passing(o) PROVE ListTypes'
  <2>1. CASE Transfer(o)
    BY <2>1 DEF Transfer
  <2>2. CASE Transferred(o)
    BY <2>2 DEF Transferred
  <2>3. CASE Release(o)
    BY <2>3 DEF Release
  <2>4. CASE Final(o)
    BY <2>4 DEF Final
  <2> QED
    BY <1>6, <2>1, <2>2, <2>3, <2>4 DEF Passing
<1>7. ASSUME NEW o \in Ops, Recovering(o) PROVE ListTypes'
  <2>1. CASE Recover(o)
    BY <2>1 DEF Recover
  <2>2. CASE (\E p \in Ops : RecoverNext(o, p))
    BY <2>2 DEF RecoverNext
  <2> QED
    BY <1>7, <2>1, <2>2 DEF Recovering
<1>8. ASSUME NEW t \in Threads, Finishing(t) PROVE ListTypes'
  <2>1. CASE JobStop(t)
    BY <2>1, StopEffect, OperationsConstants DEF JobStop
  <2>2. CASE JobRead(t)
    BY <2>2 DEF JobRead
  <2>3. CASE JobWrite(t)
    BY <2>3 DEF JobWrite
  <2>4. CASE JobRefuse(t)
    BY <2>4 DEF JobRefuse
  <2> QED
    BY <1>8, <2>1, <2>2, <2>3, <2>4 DEF Finishing
<1>9. ASSUME NEW r \in Reconcilers, Reconciling(r) PROVE ListTypes'
  <2>1. CASE Scan(r)
    BY <2>1 DEF Scan
  <2>2. CASE Repair(r)
    BY <2>2 DEF Repair
  <2>3. CASE (\E o \in Ops : Visit(r, o))
    BY <2>3 DEF Visit
  <2>4. CASE (\E o \in Ops : Settle(r, o))
    BY <2>4 DEF Settle
  <2> QED
    BY <1>9, <2>1, <2>2, <2>3, <2>4 DEF Reconciling
<1>10. ASSUME NEW p \in Ops, Vending(p) PROVE ListTypes'
  <2>1. CASE RunRetires(p)
    BY <2>1 DEF RunRetires
  <2>2. CASE UnitExits(p)
    BY <2>2 DEF UnitExits
  <2>3. CASE RunDies(p)
    BY <2>3, OperationsConstants DEF RunDies
  <2>4. CASE StrayEnds(p)
    BY <2>4 DEF StrayEnds
  <2> QED
    BY <1>10, <2>1, <2>2, <2>3, <2>4 DEF Vending
<1>11. ASSUME NEW o \in Ops, JobRelease(o) PROVE ListTypes'
  BY <1>11 DEF JobRelease
<1>12. ASSUME NEW o \in Ops, NEW k \in Kinds, NEW t \in Ops, Request(o, k, t) PROVE ListTypes'
  BY <1>12 DEF Request
<1>13. ASSUME Publish PROVE ListTypes'
  BY <1>13 DEF Publish
<1>14. ASSUME Crash PROVE ListTypes'
  <2>1. todo' \in [Threads -> SUBSET Ops] /\ up' \in BOOLEAN /\ lapse' = lapse
    BY <1>14 DEF Crash
  <2>2. phase' \in [Reconcilers -> {"idle", "finish", "settle", "done"}]
    BY <1>14 DEF Crash
  <2>3. faults > 0 /\ faults' = faults - 1
    BY <1>14 DEF Crash
  <2>4. faults' \in 0 .. MaxFaults
    BY <2>3, OperationsConstants
  <2> QED
    BY <2>1, <2>2, <2>4
<1>15. ASSUME PowerFailure PROVE ListTypes'
  <2>1. todo' \in [Threads -> SUBSET Ops] /\ up' \in BOOLEAN /\ lapse' = lapse
    BY <1>15 DEF PowerFailure
  <2>2. phase' \in [Reconcilers -> {"idle", "finish", "settle", "done"}]
    BY <1>15 DEF PowerFailure
  <2>3. faults > 0 /\ faults' = faults - 1
    BY <1>15 DEF PowerFailure
  <2>4. faults' \in 0 .. MaxFaults
    BY <2>3, OperationsConstants
  <2> QED
    BY <2>1, <2>2, <2>4
<1>16. ASSUME GateDies PROVE ListTypes'
  BY <1>16, OperationsConstants DEF GateDies
<1>17. ASSUME StartService PROVE ListTypes'
  BY <1>17 DEF StartService
<1> QED
  BY <1>1, <1>2, <1>3, <1>4, <1>5, <1>6, <1>7, <1>8, <1>9, <1>10, <1>11, <1>12, <1>13,
     <1>14, <1>15, <1>16, <1>17, StepKinds

\* The executor's record follows the worker.
LEMMA ExecutorKept == ASSUME TypeOK, Shape, DeathInv, Next PROVE ExecutorInv'
<1>a. /\ pc \in [Ops -> Labels]
      /\ executor \in [Ops -> {"none", "active", "stale", "retired"}]
      /\ held \in [Ops -> {"none", "held", "released"}]
      /\ target \in [Ops -> Ops]
      /\ job \in [Threads -> Jobs \cup {None}]
  BY DEF TypeOK, Shape, PcTypes, JobTypes, LockTypes
<1> USE <1>a
<1> USE ThreadsDiffer DEF files, request, rest, At, Goto, Asked, WorkerLabels, Gone,
           DeathInv, GoOn, AfterRun, Die, Look, Threads, Reconcilers, Labels,
           ExecutorInv, JobInv, Jobs, Released, Names, Working
<1>1. ASSUME NEW o \in Ops, Dispatching(o) PROVE ExecutorInv'
  <2>1. CASE Admit(o)
    BY <2>1 DEF Admit
  <2>2. CASE AdmitRefused(o)
    BY <2>2 DEF AdmitRefused
  <2>3. CASE Queue(o)
    BY <2>3 DEF Queue
  <2>4. CASE Launch(o)
    BY <2>4 DEF Launch
  <2>5. CASE LaunchFails(o)
    BY <2>5 DEF LaunchFails
  <2>6. CASE Start(o)
    BY <2>6 DEF Start
  <2> QED
    BY <1>1, <2>1, <2>2, <2>3, <2>4, <2>5, <2>6 DEF Dispatching
<1>2. ASSUME NEW o \in Ops, Refusing(o) PROVE ExecutorInv'
  BY <1>2 DEF Refusing, ActRefused, AcquireRefused, ReserveRefused, TransferRefused,
            Recovered
<1>3. ASSUME NEW o \in Ops, Reserving(o) PROVE ExecutorInv'
  BY <1>3 DEF Reserving, Enter, Acquire, Reserve, WriteSpec
<1>4. ASSUME NEW o \in Ops, Running(o) PROVE ExecutorInv'
  BY <1>4 DEF Running, LaunchRun, LaunchRunFails, RunOver, Closed
<1>5. ASSUME NEW o \in Ops, Checking(o) PROVE ExecutorInv'
  BY <1>5 DEF Checking, StopRun, Confirm, ConfirmWrite, Work
<1>6. ASSUME NEW o \in Ops, Passing(o) PROVE ExecutorInv'
  <2>1. CASE Transfer(o)
    BY <2>1 DEF Transfer
  <2>2. CASE Transferred(o)
    BY <2>2 DEF Transferred
  <2>3. CASE Release(o)
    BY <2>3 DEF Release
  <2>4. CASE Final(o)
    BY <2>4 DEF Final
  <2> QED
    BY <1>6, <2>1, <2>2, <2>3, <2>4 DEF Passing
<1>7. ASSUME NEW o \in Ops, Recovering(o) PROVE ExecutorInv'
  BY <1>7 DEF Recovering, Recover, RecoverNext
<1>8. ASSUME NEW t \in Threads, Finishing(t) PROVE ExecutorInv'
  <2>1. CASE JobStop(t)
    BY <2>1 DEF JobStop
  <2>2. CASE JobRead(t)
    BY <2>2 DEF JobRead
  <2>3. CASE JobWrite(t)
    BY <2>3 DEF JobWrite
  <2>4. CASE JobRefuse(t)
    BY <2>4 DEF JobRefuse
  <2> QED
    BY <1>8, <2>1, <2>2, <2>3, <2>4 DEF Finishing
<1>9. ASSUME NEW r \in Reconcilers, Reconciling(r) PROVE ExecutorInv'
  <2>1. CASE Scan(r)
    BY <2>1 DEF Scan
  <2>2. CASE Repair(r)
    BY <2>2 DEF Repair
  <2>3. CASE (\E o \in Ops : Visit(r, o))
    BY <2>3 DEF Visit
  <2>4. CASE (\E o \in Ops : Settle(r, o))
    BY <2>4 DEF Settle
  <2> QED
    BY <1>9, <2>1, <2>2, <2>3, <2>4 DEF Reconciling
<1>10. ASSUME NEW p \in Ops, Vending(p) PROVE ExecutorInv'
  BY <1>10 DEF Vending, RunRetires, UnitExits, RunDies, StrayEnds
<1>11. ASSUME NEW o \in Ops, JobRelease(o) PROVE ExecutorInv'
  BY <1>11 DEF JobRelease
<1>12. ASSUME NEW o \in Ops, NEW k \in Kinds, NEW t \in Ops, Request(o, k, t) PROVE ExecutorInv'
  BY <1>12 DEF Request
<1>13. ASSUME Publish PROVE ExecutorInv'
  BY <1>13 DEF Publish
<1>14. ASSUME Crash PROVE ExecutorInv'
  BY <1>14 DEF Crash
<1>15. ASSUME PowerFailure PROVE ExecutorInv'
  BY <1>15 DEF PowerFailure
<1>16. ASSUME GateDies PROVE ExecutorInv'
  BY <1>16 DEF GateDies
<1>17. ASSUME StartService PROVE ExecutorInv'
  BY <1>17 DEF StartService
<1> QED
  BY <1>1, <1>2, <1>3, <1>4, <1>5, <1>6, <1>7, <1>8, <1>9, <1>10, <1>11, <1>12, <1>13,
     <1>14, <1>15, <1>16, <1>17, StepKinds

\* The receipt follows the request until a worker has it.
LEMMA ReceiptKept == ASSUME TypeOK, Shape, DeathInv, Next PROVE ReceiptInv'
<1>a. /\ pc \in [Ops -> Labels]
      /\ receipt \in [Ops -> {"none", "unconfirmed", "queued", "owned", "settled", "terminated"}]
      /\ lock \in [dispatch : Threads \cup {None}, canonical : Threads \cup {None},
                  environment : Threads \cup {None}, worker : [Ops -> Threads \cup {None}]]
      /\ job \in [Threads -> Jobs \cup {None}]
  BY DEF TypeOK, Shape, PcTypes, JobTypes, LockTypes
<1> USE <1>a
<1> USE ThreadsDiffer DEF files, request, rest, At, Goto, Asked, WorkerLabels, Gone,
           DeathInv, GoOn, AfterRun, Die, Look, Threads, Reconcilers, Labels,
           ReceiptInv, JobInv, Jobs, Write, Terminal, Free, Working
<1>1. ASSUME NEW o \in Ops, Dispatching(o) PROVE ReceiptInv'
  BY <1>1 DEF Dispatching, Admit, AdmitRefused, Queue, Launch, LaunchFails, Start
<1>2. ASSUME NEW o \in Ops, Refusing(o) PROVE ReceiptInv'
  BY <1>2 DEF Refusing, ActRefused, AcquireRefused, ReserveRefused, TransferRefused,
            Recovered
<1>3. ASSUME NEW o \in Ops, Reserving(o) PROVE ReceiptInv'
  <2>1. CASE Enter(o)
    BY <2>1 DEF Enter
  <2>2. CASE Acquire(o)
    BY <2>2 DEF Acquire
  <2>3. CASE Reserve(o)
    BY <2>3 DEF Reserve
  <2>4. CASE WriteSpec(o)
    BY <2>4 DEF WriteSpec
  <2> QED
    BY <1>3, <2>1, <2>2, <2>3, <2>4 DEF Reserving
<1>4. ASSUME NEW o \in Ops, Running(o) PROVE ReceiptInv'
  BY <1>4 DEF Running, LaunchRun, LaunchRunFails, RunOver, Closed
<1>5. ASSUME NEW o \in Ops, Checking(o) PROVE ReceiptInv'
  BY <1>5 DEF Checking, StopRun, Confirm, ConfirmWrite, Work
<1>6. ASSUME NEW o \in Ops, Passing(o) PROVE ReceiptInv'
  <2>1. CASE Transfer(o)
    BY <2>1 DEF Transfer
  <2>2. CASE Transferred(o)
    BY <2>2 DEF Transferred
  <2>3. CASE Release(o)
    BY <2>3 DEF Release
  <2>4. CASE Final(o)
    BY <2>4 DEF Final
  <2> QED
    BY <1>6, <2>1, <2>2, <2>3, <2>4 DEF Passing
<1>7. ASSUME NEW o \in Ops, Recovering(o) PROVE ReceiptInv'
  BY <1>7 DEF Recovering, Recover, RecoverNext
<1>8. ASSUME NEW t \in Threads, Finishing(t) PROVE ReceiptInv'
  BY <1>8 DEF Finishing, JobStop, JobRead, JobWrite, JobRefuse
<1>9. ASSUME NEW r \in Reconcilers, Reconciling(r) PROVE ReceiptInv'
  BY <1>9 DEF Reconciling, Scan, Repair, Visit, Settle
<1>10. ASSUME NEW p \in Ops, Vending(p) PROVE ReceiptInv'
  BY <1>10 DEF Vending, RunRetires, UnitExits, RunDies, StrayEnds
<1>11. ASSUME NEW o \in Ops, JobRelease(o) PROVE ReceiptInv'
  BY <1>11 DEF JobRelease
<1>12. ASSUME NEW o \in Ops, NEW k \in Kinds, NEW t \in Ops, Request(o, k, t) PROVE ReceiptInv'
  BY <1>12 DEF Request
<1>13. ASSUME Publish PROVE ReceiptInv'
  BY <1>13 DEF Publish
<1>14. ASSUME Crash PROVE ReceiptInv'
  BY <1>14 DEF Crash
<1>15. ASSUME PowerFailure PROVE ReceiptInv'
  BY <1>15 DEF PowerFailure
<1>16. ASSUME GateDies PROVE ReceiptInv'
  BY <1>16 DEF GateDies
<1>17. ASSUME StartService PROVE ReceiptInv'
  BY <1>17 DEF StartService
<1> QED
  BY <1>1, <1>2, <1>3, <1>4, <1>5, <1>6, <1>7, <1>8, <1>9, <1>10, <1>11, <1>12, <1>13,
     <1>14, <1>15, <1>16, <1>17, StepKinds

\* A list holds only what it may.
LEMMA TodoKept == ASSUME TypeOK, Shape, DeathInv, Next PROVE TodoInv'
<1>a. /\ pc \in [Ops -> Labels]
      /\ executor \in [Ops -> {"none", "active", "stale", "retired"}]
      /\ todo \in [Threads -> SUBSET Ops]
      /\ phase \in [Reconcilers -> {"idle", "finish", "settle", "done"}]
      /\ receipt \in [Ops -> {"none", "unconfirmed", "queued", "owned", "settled", "terminated"}]
  BY DEF TypeOK, Shape, PcTypes, JobTypes, LockTypes
<1> USE <1>a
<1> USE ThreadsDiffer DEF files, request, rest, At, Goto, Asked, WorkerLabels, Gone,
           DeathInv, GoOn, AfterRun, Die, Look, Threads, Reconcilers, Labels, TodoInv,
           ExecutorInv, ReceiptInv, LiveWorker, Over
<1>1. ASSUME NEW o \in Ops, Dispatching(o) PROVE TodoInv'
  <2>1. CASE Admit(o)
    BY <2>1 DEF Admit
  <2>2. CASE AdmitRefused(o)
    BY <2>2 DEF AdmitRefused
  <2>3. CASE Queue(o)
    BY <2>3 DEF Queue
  <2>4. CASE Launch(o)
    BY <2>4 DEF Launch
  <2>5. CASE LaunchFails(o)
    BY <2>5 DEF LaunchFails
  <2>6. CASE Start(o)
    BY <2>6 DEF Start
  <2> QED
    BY <1>1, <2>1, <2>2, <2>3, <2>4, <2>5, <2>6 DEF Dispatching
<1>2. ASSUME NEW o \in Ops, Refusing(o) PROVE TodoInv'
  BY <1>2 DEF Refusing, ActRefused, AcquireRefused, ReserveRefused, TransferRefused,
            Recovered
<1>3. ASSUME NEW o \in Ops, Reserving(o) PROVE TodoInv'
  BY <1>3 DEF Reserving, Enter, Acquire, Reserve, WriteSpec
<1>4. ASSUME NEW o \in Ops, Running(o) PROVE TodoInv'
  BY <1>4 DEF Running, LaunchRun, LaunchRunFails, RunOver, Closed
<1>5. ASSUME NEW o \in Ops, Checking(o) PROVE TodoInv'
  BY <1>5 DEF Checking, StopRun, Confirm, ConfirmWrite, Work
<1>6. ASSUME NEW o \in Ops, Passing(o) PROVE TodoInv'
  <2>1. CASE Transfer(o)
    BY <2>1 DEF Transfer
  <2>2. CASE Transferred(o)
    BY <2>2 DEF Transferred
  <2>3. CASE Release(o)
    BY <2>3 DEF Release
  <2>4. CASE Final(o)
    BY <2>4 DEF Final
  <2> QED
    BY <1>6, <2>1, <2>2, <2>3, <2>4 DEF Passing
<1>7. ASSUME NEW o \in Ops, Recovering(o) PROVE TodoInv'
  BY <1>7 DEF Recovering, Recover, RecoverNext
<1>8. ASSUME NEW t \in Threads, Finishing(t) PROVE TodoInv'
  <2>1. CASE JobStop(t)
    BY <2>1 DEF JobStop
  <2>2. CASE JobRead(t)
    BY <2>2 DEF JobRead
  <2>3. CASE JobWrite(t)
    BY <2>3 DEF JobWrite
  <2>4. CASE JobRefuse(t)
    <3>1. UNCHANGED <<pc, executor, phase>> /\ \A x \in Threads : todo'[x] \subseteq todo[x]
      BY <2>4 DEF JobRefuse
    <3> QED
      BY <3>1
  <2> QED
    BY <1>8, <2>1, <2>2, <2>3, <2>4 DEF Finishing
<1>9. ASSUME NEW r \in Reconcilers, Reconciling(r) PROVE TodoInv'
  <2>1. CASE Scan(r)
    BY <2>1 DEF Scan
  <2>2. CASE Repair(r)
    BY <2>2 DEF Repair
  <2>3. CASE (\E o \in Ops : Visit(r, o))
    BY <2>3 DEF Visit
  <2>4. CASE (\E o \in Ops : Settle(r, o))
    BY <2>4 DEF Settle
  <2> QED
    BY <1>9, <2>1, <2>2, <2>3, <2>4 DEF Reconciling
<1>10. ASSUME NEW p \in Ops, Vending(p) PROVE TodoInv'
  BY <1>10 DEF Vending, RunRetires, UnitExits, RunDies, StrayEnds
<1>11. ASSUME NEW o \in Ops, JobRelease(o) PROVE TodoInv'
  <2>1. /\ UNCHANGED phase
        /\ \A x \in Threads : todo'[x] \subseteq todo[x]
        /\ \A p \in Ops : executor[p] # "none" => executor'[p] # "none"
    BY <1>11 DEF JobRelease
  <2>2. \A p \in Ops : pc[p] \in Gone => pc'[p] \in Gone
    BY <1>11, ThreadsDiffer DEF JobRelease, Working, JobInv, Jobs
  <2> QED
    BY <2>1, <2>2
<1>12. ASSUME NEW o \in Ops, NEW k \in Kinds, NEW t \in Ops, Request(o, k, t) PROVE TodoInv'
  BY <1>12 DEF Request
<1>13. ASSUME Publish PROVE TodoInv'
  BY <1>13 DEF Publish
<1>14. ASSUME Crash PROVE TodoInv'
  BY <1>14 DEF Crash
<1>15. ASSUME PowerFailure PROVE TodoInv'
  BY <1>15 DEF PowerFailure
<1>16. ASSUME GateDies PROVE TodoInv'
  BY <1>16 DEF GateDies
<1>17. ASSUME StartService PROVE TodoInv'
  BY <1>17 DEF StartService
<1> QED
  BY <1>1, <1>2, <1>3, <1>4, <1>5, <1>6, <1>7, <1>8, <1>9, <1>10, <1>11, <1>12, <1>13,
     <1>14, <1>15, <1>16, <1>17, StepKinds

\* A thread takes up only what is dead, and its own.
LEMMA JobKept == ASSUME TypeOK, Shape, DeathInv, Next PROVE JobInv'
<1>a. /\ pc \in [Ops -> Labels]
      /\ executor \in [Ops -> {"none", "active", "stale", "retired"}]
      /\ job \in [Threads -> Jobs \cup {None}]
      /\ todo \in [Threads -> SUBSET Ops]
  BY DEF TypeOK, Shape, PcTypes, JobTypes, LockTypes
<1> USE <1>a
<1> USE ThreadsDiffer DEF files, request, rest, At, Goto, Asked, WorkerLabels, Gone,
           DeathInv, GoOn, AfterRun, Die, Look, Threads, Reconcilers, Labels, TodoInv,
           ExecutorInv, JobInv, Jobs, LiveWorker, Finish, Working
<1>1. ASSUME NEW o \in Ops, Dispatching(o) PROVE JobInv'
  <2>1. CASE Admit(o)
    BY <2>1 DEF Admit
  <2>2. CASE AdmitRefused(o)
    BY <2>2 DEF AdmitRefused
  <2>3. CASE Queue(o)
    BY <2>3 DEF Queue
  <2>4. CASE Launch(o)
    BY <2>4 DEF Launch
  <2>5. CASE LaunchFails(o)
    BY <2>5 DEF LaunchFails
  <2>6. CASE Start(o)
    BY <2>6 DEF Start
  <2> QED
    BY <1>1, <2>1, <2>2, <2>3, <2>4, <2>5, <2>6 DEF Dispatching
<1>2. ASSUME NEW o \in Ops, Refusing(o) PROVE JobInv'
  BY <1>2 DEF Refusing, ActRefused, AcquireRefused, ReserveRefused, TransferRefused,
            Recovered
<1>3. ASSUME NEW o \in Ops, Reserving(o) PROVE JobInv'
  BY <1>3 DEF Reserving, Enter, Acquire, Reserve, WriteSpec
<1>4. ASSUME NEW o \in Ops, Running(o) PROVE JobInv'
  BY <1>4 DEF Running, LaunchRun, LaunchRunFails, RunOver, Closed
<1>5. ASSUME NEW o \in Ops, Checking(o) PROVE JobInv'
  BY <1>5 DEF Checking, StopRun, Confirm, ConfirmWrite, Work
<1>6. ASSUME NEW o \in Ops, Passing(o) PROVE JobInv'
  <2>1. CASE Transfer(o)
    BY <2>1 DEF Transfer
  <2>2. CASE Transferred(o)
    BY <2>2 DEF Transferred
  <2>3. CASE Release(o)
    BY <2>3 DEF Release
  <2>4. CASE Final(o)
    BY <2>4 DEF Final
  <2> QED
    BY <1>6, <2>1, <2>2, <2>3, <2>4 DEF Passing
<1>7. ASSUME NEW o \in Ops, Recovering(o) PROVE JobInv'
  BY <1>7 DEF Recovering, Recover, RecoverNext
<1>8. ASSUME NEW t \in Threads, Finishing(t) PROVE JobInv'
  <2>1. CASE JobStop(t)
    BY <2>1 DEF JobStop
  <2>2. CASE JobRead(t)
    BY <2>2 DEF JobRead
  <2>3. CASE JobWrite(t)
    BY <2>3 DEF JobWrite
  <2>4. CASE JobRefuse(t)
    BY <2>4 DEF JobRefuse
  <2> QED
    BY <1>8, <2>1, <2>2, <2>3, <2>4 DEF Finishing
<1>9. ASSUME NEW r \in Reconcilers, Reconciling(r) PROVE JobInv'
  <2>1. CASE Scan(r)
    BY <2>1 DEF Scan
  <2>2. CASE Repair(r)
    BY <2>2 DEF Repair
  <2>3. CASE (\E o \in Ops : Visit(r, o))
    BY <2>3 DEF Visit
  <2>4. CASE (\E o \in Ops : Settle(r, o))
    BY <2>4 DEF Settle
  <2> QED
    BY <1>9, <2>1, <2>2, <2>3, <2>4 DEF Reconciling
<1>10. ASSUME NEW p \in Ops, Vending(p) PROVE JobInv'
  BY <1>10 DEF Vending, RunRetires, UnitExits, RunDies, StrayEnds
<1>11. ASSUME NEW o \in Ops, JobRelease(o) PROVE JobInv'
  BY <1>11 DEF JobRelease
<1>12. ASSUME NEW o \in Ops, NEW k \in Kinds, NEW t \in Ops, Request(o, k, t) PROVE JobInv'
  BY <1>12 DEF Request
<1>13. ASSUME Publish PROVE JobInv'
  BY <1>13 DEF Publish
<1>14. ASSUME Crash PROVE JobInv'
  BY <1>14 DEF Crash
<1>15. ASSUME PowerFailure PROVE JobInv'
  BY <1>15 DEF PowerFailure
<1>16. ASSUME GateDies PROVE JobInv'
  BY <1>16 DEF GateDies
<1>17. ASSUME StartService PROVE JobInv'
  BY <1>17 DEF StartService
<1> QED
  BY <1>1, <1>2, <1>3, <1>4, <1>5, <1>6, <1>7, <1>8, <1>9, <1>10, <1>11, <1>12, <1>13,
     <1>14, <1>15, <1>16, <1>17, StepKinds

\* A final receipt is written by the worker at its end, or for one that is gone.
LEMMA FinishedKept == ASSUME TypeOK, Shape, DeathInv, Next PROVE FinishedIsDead'
<1>a. /\ pc \in [Ops -> Labels]
      /\ receipt \in [Ops -> {"none", "unconfirmed", "queued", "owned", "settled", "terminated"}]
      /\ job \in [Threads -> Jobs \cup {None}]
  BY DEF TypeOK, Shape, PcTypes, JobTypes, LockTypes
<1> USE <1>a
<1> USE ThreadsDiffer DEF files, request, rest, At, Goto, Asked, WorkerLabels, Gone,
           DeathInv, GoOn, AfterRun, Die, Look, Threads, Reconcilers, Labels,
           FinishedIsDead, JobInv, Jobs, Write, Terminal, Working
<1>1. ASSUME NEW o \in Ops, Dispatching(o) PROVE FinishedIsDead'
  BY <1>1 DEF Dispatching, Admit, AdmitRefused, Queue, Launch, LaunchFails, Start
<1>2. ASSUME NEW o \in Ops, Refusing(o) PROVE FinishedIsDead'
  BY <1>2 DEF Refusing, ActRefused, AcquireRefused, ReserveRefused, TransferRefused,
            Recovered
<1>3. ASSUME NEW o \in Ops, Reserving(o) PROVE FinishedIsDead'
  BY <1>3 DEF Reserving, Enter, Acquire, Reserve, WriteSpec
<1>4. ASSUME NEW o \in Ops, Running(o) PROVE FinishedIsDead'
  BY <1>4 DEF Running, LaunchRun, LaunchRunFails, RunOver, Closed
<1>5. ASSUME NEW o \in Ops, Checking(o) PROVE FinishedIsDead'
  BY <1>5 DEF Checking, StopRun, Confirm, ConfirmWrite, Work
<1>6. ASSUME NEW o \in Ops, Passing(o) PROVE FinishedIsDead'
  BY <1>6 DEF Passing, Transfer, Transferred, Release, Final
<1>7. ASSUME NEW o \in Ops, Recovering(o) PROVE FinishedIsDead'
  BY <1>7 DEF Recovering, Recover, RecoverNext
<1>8. ASSUME NEW t \in Threads, Finishing(t) PROVE FinishedIsDead'
  BY <1>8 DEF Finishing, JobStop, JobRead, JobWrite, JobRefuse
<1>9. ASSUME NEW r \in Reconcilers, Reconciling(r) PROVE FinishedIsDead'
  BY <1>9 DEF Reconciling, Scan, Repair, Visit, Settle
<1>10. ASSUME NEW p \in Ops, Vending(p) PROVE FinishedIsDead'
  BY <1>10 DEF Vending, RunRetires, UnitExits, RunDies, StrayEnds
<1>11. ASSUME NEW o \in Ops, JobRelease(o) PROVE FinishedIsDead'
  BY <1>11 DEF JobRelease
<1>12. ASSUME NEW o \in Ops, NEW k \in Kinds, NEW t \in Ops, Request(o, k, t) PROVE FinishedIsDead'
  BY <1>12 DEF Request
<1>13. ASSUME Publish PROVE FinishedIsDead'
  BY <1>13 DEF Publish
<1>14. ASSUME Crash PROVE FinishedIsDead'
  BY <1>14 DEF Crash
<1>15. ASSUME PowerFailure PROVE FinishedIsDead'
  BY <1>15 DEF PowerFailure
<1>16. ASSUME GateDies PROVE FinishedIsDead'
  BY <1>16 DEF GateDies
<1>17. ASSUME StartService PROVE FinishedIsDead'
  BY <1>17 DEF StartService
<1> QED
  BY <1>1, <1>2, <1>3, <1>4, <1>5, <1>6, <1>7, <1>8, <1>9, <1>10, <1>11, <1>12, <1>13,
     <1>14, <1>15, <1>16, <1>17, StepKinds

\* The environment lock stays with the action that entered.
LEMMA EnvironmentKept == ASSUME TypeOK, Shape, SetupInv, Next PROVE EnvironmentInv'
<1>a. /\ pc \in [Ops -> Labels]
      /\ lock \in [dispatch : Threads \cup {None}, canonical : Threads \cup {None},
                  environment : Threads \cup {None}, worker : [Ops -> Threads \cup {None}]]
      /\ kind \in [Ops -> Kinds \cup {None}]
  BY DEF TypeOK, Shape, PcTypes, JobTypes, LockTypes
<1> USE <1>a
<1> USE ThreadsDiffer DEF files, request, rest, At, Goto, Asked, WorkerLabels, Gone,
           SetupInv, GoOn, AfterRun, Die, Look, Threads, Reconcilers, EnvironmentInv,
           KindInv, Inside, Free, Working
<1>1. ASSUME NEW o \in Ops, Dispatching(o) PROVE EnvironmentInv'
  <2>1. CASE Admit(o)
    BY <2>1 DEF Admit
  <2>2. CASE AdmitRefused(o)
    BY <2>2 DEF AdmitRefused
  <2>3. CASE Queue(o)
    BY <2>3 DEF Queue
  <2>4. CASE Launch(o)
    BY <2>4 DEF Launch
  <2>5. CASE LaunchFails(o)
    BY <2>5 DEF LaunchFails
  <2>6. CASE Start(o)
    BY <2>6 DEF Start
  <2> QED
    BY <1>1, <2>1, <2>2, <2>3, <2>4, <2>5, <2>6 DEF Dispatching
<1>2. ASSUME NEW o \in Ops, Refusing(o) PROVE EnvironmentInv'
  <2>1. CASE ActRefused(o)
    BY <2>1 DEF ActRefused
  <2>2. CASE AcquireRefused(o)
    BY <2>2 DEF AcquireRefused
  <2>3. CASE ReserveRefused(o)
    BY <2>3 DEF ReserveRefused
  <2>4. CASE TransferRefused(o)
    BY <2>4 DEF TransferRefused
  <2>5. CASE Recovered(o)
    BY <2>5 DEF Recovered
  <2> QED
    BY <1>2, <2>1, <2>2, <2>3, <2>4, <2>5 DEF Refusing
<1>3. ASSUME NEW o \in Ops, Reserving(o) PROVE EnvironmentInv'
  <2>1. CASE Enter(o)
    BY <2>1 DEF Enter
  <2>2. CASE Acquire(o)
    BY <2>2 DEF Acquire
  <2>3. CASE Reserve(o)
    BY <2>3 DEF Reserve
  <2>4. CASE WriteSpec(o)
    BY <2>4 DEF WriteSpec
  <2> QED
    BY <1>3, <2>1, <2>2, <2>3, <2>4 DEF Reserving
<1>4. ASSUME NEW o \in Ops, Running(o) PROVE EnvironmentInv'
  <2>1. CASE LaunchRun(o)
    BY <2>1 DEF LaunchRun
  <2>2. CASE LaunchRunFails(o)
    BY <2>2 DEF LaunchRunFails
  <2>3. CASE RunOver(o)
    BY <2>3 DEF RunOver
  <2>4. CASE Closed(o)
    BY <2>4 DEF Closed
  <2> QED
    BY <1>4, <2>1, <2>2, <2>3, <2>4 DEF Running
<1>5. ASSUME NEW o \in Ops, Checking(o) PROVE EnvironmentInv'
  <2>1. CASE StopRun(o)
    BY <2>1 DEF StopRun
  <2>2. CASE Confirm(o)
    BY <2>2 DEF Confirm
  <2>3. CASE ConfirmWrite(o)
    BY <2>3 DEF ConfirmWrite
  <2>4. CASE Work(o)
    BY <2>4 DEF Work
  <2> QED
    BY <1>5, <2>1, <2>2, <2>3, <2>4 DEF Checking
<1>6. ASSUME NEW o \in Ops, Passing(o) PROVE EnvironmentInv'
  <2>1. CASE Transfer(o)
    BY <2>1 DEF Transfer
  <2>2. CASE Transferred(o)
    BY <2>2 DEF Transferred
  <2>3. CASE Release(o)
    BY <2>3 DEF Release
  <2>4. CASE Final(o)
    BY <2>4 DEF Final
  <2> QED
    BY <1>6, <2>1, <2>2, <2>3, <2>4 DEF Passing
<1>7. ASSUME NEW o \in Ops, Recovering(o) PROVE EnvironmentInv'
  <2>1. CASE Recover(o)
    BY <2>1 DEF Recover
  <2>2. CASE (\E p \in Ops : RecoverNext(o, p))
    BY <2>2 DEF RecoverNext
  <2> QED
    BY <1>7, <2>1, <2>2 DEF Recovering
<1>8. ASSUME NEW t \in Threads, Finishing(t) PROVE EnvironmentInv'
  <2>1. CASE JobStop(t)
    BY <2>1 DEF JobStop
  <2>2. CASE JobRead(t)
    BY <2>2 DEF JobRead
  <2>3. CASE JobWrite(t)
    BY <2>3 DEF JobWrite
  <2>4. CASE JobRefuse(t)
    BY <2>4 DEF JobRefuse
  <2> QED
    BY <1>8, <2>1, <2>2, <2>3, <2>4 DEF Finishing
<1>9. ASSUME NEW r \in Reconcilers, Reconciling(r) PROVE EnvironmentInv'
  <2>1. CASE Scan(r)
    BY <2>1 DEF Scan
  <2>2. CASE Repair(r)
    BY <2>2 DEF Repair
  <2>3. CASE (\E o \in Ops : Visit(r, o))
    BY <2>3 DEF Visit
  <2>4. CASE (\E o \in Ops : Settle(r, o))
    BY <2>4 DEF Settle
  <2> QED
    BY <1>9, <2>1, <2>2, <2>3, <2>4 DEF Reconciling
<1>10. ASSUME NEW p \in Ops, Vending(p) PROVE EnvironmentInv'
  <2>1. CASE RunRetires(p)
    BY <2>1 DEF RunRetires
  <2>2. CASE UnitExits(p)
    BY <2>2 DEF UnitExits
  <2>3. CASE RunDies(p)
    BY <2>3 DEF RunDies
  <2>4. CASE StrayEnds(p)
    BY <2>4 DEF StrayEnds
  <2> QED
    BY <1>10, <2>1, <2>2, <2>3, <2>4 DEF Vending
<1>11. ASSUME NEW o \in Ops, JobRelease(o) PROVE EnvironmentInv'
  BY <1>11 DEF JobRelease
<1>12. ASSUME NEW o \in Ops, NEW k \in Kinds, NEW t \in Ops, Request(o, k, t) PROVE EnvironmentInv'
  BY <1>12 DEF Request
<1>13. ASSUME Publish PROVE EnvironmentInv'
  BY <1>13 DEF Publish
<1>14. ASSUME Crash PROVE EnvironmentInv'
  BY <1>14 DEF Crash
<1>15. ASSUME PowerFailure PROVE EnvironmentInv'
  BY <1>15 DEF PowerFailure
<1>16. ASSUME GateDies PROVE EnvironmentInv'
  BY <1>16 DEF GateDies
<1>17. ASSUME StartService PROVE EnvironmentInv'
  BY <1>17 DEF StartService
<1> QED
  BY <1>1, <1>2, <1>3, <1>4, <1>5, <1>6, <1>7, <1>8, <1>9, <1>10, <1>11, <1>12, <1>13,
     <1>14, <1>15, <1>16, <1>17, StepKinds

\* An action stays within its own labels.
LEMMA KindKept == ASSUME TypeOK, Shape, DeathInv, SetupInv, Next PROVE KindInv'
<1>a. /\ pc \in [Ops -> Labels]
      /\ kind \in [Ops -> Kinds \cup {None}]
      /\ run \in [Ops -> Runs]
  BY DEF TypeOK, Shape, PcTypes, JobTypes, LockTypes
<1> USE <1>a
<1> USE ThreadsDiffer DEF files, request, rest, At, Goto, Asked, WorkerLabels, Gone,
           SetupInv, GoOn, AfterRun, Die, Look, KindInv, Working
<1>1. ASSUME NEW o \in Ops, Dispatching(o) PROVE KindInv'
  <2>1. CASE Admit(o)
    BY <2>1 DEF Admit
  <2>2. CASE AdmitRefused(o)
    BY <2>2 DEF AdmitRefused
  <2>3. CASE Queue(o)
    BY <2>3 DEF Queue
  <2>4. CASE Launch(o)
    BY <2>4 DEF Launch
  <2>5. CASE LaunchFails(o)
    BY <2>5 DEF LaunchFails
  <2>6. CASE Start(o)
    BY <2>6 DEF Start
  <2> QED
    BY <1>1, <2>1, <2>2, <2>3, <2>4, <2>5, <2>6 DEF Dispatching
<1>2. ASSUME NEW o \in Ops, Refusing(o) PROVE KindInv'
  <2>1. CASE ActRefused(o)
    BY <2>1 DEF ActRefused
  <2>2. CASE AcquireRefused(o)
    BY <2>2 DEF AcquireRefused
  <2>3. CASE ReserveRefused(o)
    BY <2>3 DEF ReserveRefused
  <2>4. CASE TransferRefused(o)
    BY <2>4 DEF TransferRefused
  <2>5. CASE Recovered(o)
    BY <2>5 DEF Recovered
  <2> QED
    BY <1>2, <2>1, <2>2, <2>3, <2>4, <2>5 DEF Refusing
<1>3. ASSUME NEW o \in Ops, Reserving(o) PROVE KindInv'
  <2>1. CASE Enter(o)
    BY <2>1 DEF Enter
  <2>2. CASE Acquire(o)
    BY <2>2 DEF Acquire
  <2>3. CASE Reserve(o)
    BY <2>3 DEF Reserve
  <2>4. CASE WriteSpec(o)
    BY <2>4 DEF WriteSpec
  <2> QED
    BY <1>3, <2>1, <2>2, <2>3, <2>4 DEF Reserving
<1>4. ASSUME NEW o \in Ops, Running(o) PROVE KindInv'
  <2>1. CASE LaunchRun(o)
    BY <2>1 DEF LaunchRun
  <2>2. CASE LaunchRunFails(o)
    BY <2>2 DEF LaunchRunFails
  <2>3. CASE RunOver(o)
    BY <2>3 DEF RunOver
  <2>4. CASE Closed(o)
    BY <2>4 DEF Closed
  <2> QED
    BY <1>4, <2>1, <2>2, <2>3, <2>4 DEF Running
<1>5. ASSUME NEW o \in Ops, Checking(o) PROVE KindInv'
  <2>1. CASE StopRun(o)
    BY <2>1 DEF StopRun
  <2>2. CASE Confirm(o)
    BY <2>2 DEF Confirm
  <2>3. CASE ConfirmWrite(o)
    BY <2>3 DEF ConfirmWrite
  <2>4. CASE Work(o)
    BY <2>4 DEF Work
  <2> QED
    BY <1>5, <2>1, <2>2, <2>3, <2>4 DEF Checking
<1>6. ASSUME NEW o \in Ops, Passing(o) PROVE KindInv'
  <2>1. CASE Transfer(o)
    BY <2>1 DEF Transfer
  <2>2. CASE Transferred(o)
    BY <2>2 DEF Transferred
  <2>3. CASE Release(o)
    BY <2>3 DEF Release
  <2>4. CASE Final(o)
    BY <2>4 DEF Final
  <2> QED
    BY <1>6, <2>1, <2>2, <2>3, <2>4 DEF Passing
<1>7. ASSUME NEW o \in Ops, Recovering(o) PROVE KindInv'
  <2>1. CASE Recover(o)
    BY <2>1 DEF Recover
  <2>2. CASE (\E p \in Ops : RecoverNext(o, p))
    BY <2>2 DEF RecoverNext
  <2> QED
    BY <1>7, <2>1, <2>2 DEF Recovering
<1>8. ASSUME NEW t \in Threads, Finishing(t) PROVE KindInv'
  <2>1. CASE JobStop(t)
    BY <2>1 DEF JobStop
  <2>2. CASE JobRead(t)
    BY <2>2 DEF JobRead
  <2>3. CASE JobWrite(t)
    BY <2>3 DEF JobWrite
  <2>4. CASE JobRefuse(t)
    BY <2>4 DEF JobRefuse
  <2> QED
    BY <1>8, <2>1, <2>2, <2>3, <2>4 DEF Finishing
<1>9. ASSUME NEW r \in Reconcilers, Reconciling(r) PROVE KindInv'
  <2>1. CASE Scan(r)
    BY <2>1 DEF Scan
  <2>2. CASE Repair(r)
    BY <2>2 DEF Repair
  <2>3. CASE (\E o \in Ops : Visit(r, o))
    BY <2>3 DEF Visit
  <2>4. CASE (\E o \in Ops : Settle(r, o))
    BY <2>4 DEF Settle
  <2> QED
    BY <1>9, <2>1, <2>2, <2>3, <2>4 DEF Reconciling
<1>10. ASSUME NEW p \in Ops, Vending(p) PROVE KindInv'
  <2>1. CASE RunRetires(p)
    BY <2>1 DEF RunRetires
  <2>2. CASE UnitExits(p)
    BY <2>2 DEF UnitExits
  <2>3. CASE RunDies(p)
    BY <2>3 DEF RunDies
  <2>4. CASE StrayEnds(p)
    BY <2>4 DEF StrayEnds
  <2> QED
    BY <1>10, <2>1, <2>2, <2>3, <2>4 DEF Vending
<1>11. ASSUME NEW o \in Ops, JobRelease(o) PROVE KindInv'
  <2>1. /\ UNCHANGED <<run, kind, target>>
        /\ pc[o] # "idle"
        /\ pc' = pc \/ \E l \in {"done", "final"} : pc' = [pc EXCEPT ![o] = l]
    BY <1>11 DEF JobRelease, DeathInv, JobInv, Threads
  <2> QED
    BY <2>1
<1>12. ASSUME NEW o \in Ops, NEW k \in Kinds, NEW t \in Ops, Request(o, k, t) PROVE KindInv'
  BY <1>12 DEF Request
<1>13. ASSUME Publish PROVE KindInv'
  BY <1>13 DEF Publish
<1>14. ASSUME Crash PROVE KindInv'
  BY <1>14 DEF Crash
<1>15. ASSUME PowerFailure PROVE KindInv'
  BY <1>15 DEF PowerFailure
<1>16. ASSUME GateDies PROVE KindInv'
  BY <1>16 DEF GateDies
<1>17. ASSUME StartService PROVE KindInv'
  BY <1>17 DEF StartService
<1> QED
  BY <1>1, <1>2, <1>3, <1>4, <1>5, <1>6, <1>7, <1>8, <1>9, <1>10, <1>11, <1>12, <1>13,
     <1>14, <1>15, <1>16, <1>17, StepKinds

\* What an action is about stays recorded, and a stopped installer stays launched.
LEMMA TargetKept == ASSUME TypeOK, Shape, DeathInv, SetupInv, Next PROVE TargetInv'
<1>a. /\ pc \in [Ops -> Labels]
      /\ kind \in [Ops -> Kinds \cup {None}]
      /\ target \in [Ops -> Ops]
      /\ run \in [Ops -> Runs]
      /\ job \in [Threads -> Jobs \cup {None}]
  BY DEF TypeOK, Shape, PcTypes, JobTypes, LockTypes
<1> USE <1>a
<1> USE ThreadsDiffer DEF files, request, rest, At, Goto, Asked, WorkerLabels, Gone,
           SetupInv, GoOn, AfterRun, Die, Look, KindInv, TargetInv, Unrecorded, Working
<1>1. ASSUME NEW o \in Ops, Dispatching(o) PROVE TargetInv'
  <2>1. CASE Admit(o)
    BY <2>1 DEF Admit
  <2>2. CASE AdmitRefused(o)
    BY <2>2 DEF AdmitRefused
  <2>3. CASE Queue(o)
    BY <2>3 DEF Queue
  <2>4. CASE Launch(o)
    BY <2>4 DEF Launch
  <2>5. CASE LaunchFails(o)
    BY <2>5 DEF LaunchFails
  <2>6. CASE Start(o)
    BY <2>6 DEF Start
  <2> QED
    BY <1>1, <2>1, <2>2, <2>3, <2>4, <2>5, <2>6 DEF Dispatching
<1>2. ASSUME NEW o \in Ops, Refusing(o) PROVE TargetInv'
  <2>1. CASE ActRefused(o)
    BY <2>1 DEF ActRefused
  <2>2. CASE AcquireRefused(o)
    BY <2>2 DEF AcquireRefused
  <2>3. CASE ReserveRefused(o)
    BY <2>3 DEF ReserveRefused
  <2>4. CASE TransferRefused(o)
    BY <2>4 DEF TransferRefused
  <2>5. CASE Recovered(o)
    BY <2>5 DEF Recovered
  <2> QED
    BY <1>2, <2>1, <2>2, <2>3, <2>4, <2>5 DEF Refusing
<1>3. ASSUME NEW o \in Ops, Reserving(o) PROVE TargetInv'
  <2>1. CASE Enter(o)
    BY <2>1 DEF Enter
  <2>2. CASE Acquire(o)
    BY <2>2 DEF Acquire
  <2>3. CASE Reserve(o)
    BY <2>3 DEF Reserve, KindInv
  <2>4. CASE WriteSpec(o)
    BY <2>4 DEF WriteSpec, Runs
  <2> QED
    BY <1>3, <2>1, <2>2, <2>3, <2>4 DEF Reserving
<1>4. ASSUME NEW o \in Ops, Running(o) PROVE TargetInv'
  <2>1. CASE LaunchRun(o)
    BY <2>1 DEF LaunchRun, Runs
  <2>2. CASE LaunchRunFails(o)
    <3>1. \A q \in Ops : SameFiles(q)
      BY <2>2, LaunchFailsEffect
    <3>2. UNCHANGED <<kind, target>> /\ pc[o] = "run" /\ pc' = [pc EXCEPT ![o] = "closing"]
      BY <2>2 DEF LaunchRunFails
    <3> QED
      BY <3>1, <3>2 DEF SameFiles
  <2>3. CASE RunOver(o)
    BY <2>3 DEF RunOver
  <2>4. CASE Closed(o)
    BY <2>4 DEF Closed
  <2> QED
    BY <1>4, <2>1, <2>2, <2>3, <2>4 DEF Running
<1>5. ASSUME NEW o \in Ops, Checking(o) PROVE TargetInv'
  <2>1. CASE StopRun(o)
    <3>1. RunInv /\ \A q \in Ops : SameFiles(q)
      BY <2>1, StopEffect DEF StopRun
    <3>2. /\ UNCHANGED <<kind, target>> /\ pc[o] = "act" /\ run[target[o]].alive
             /\ \/ pc' = [pc EXCEPT ![o] = "final"]
                \/ pc' = [pc EXCEPT ![o] = "release"] /\ kind[target[o]] = "install"
      BY <2>1 DEF StopRun
    <3> QED
      BY <3>1, <3>2 DEF SameFiles, RunInv
  <2>2. CASE Confirm(o)
    BY <2>2 DEF Confirm
  <2>3. CASE ConfirmWrite(o)
    BY <2>3 DEF ConfirmWrite, Runs
  <2>4. CASE Work(o)
    <3>1. \A q \in Ops : SameFiles(q)
      BY <2>4, WorkEffect
    <3>2. /\ UNCHANGED <<kind, target>> /\ pc[o] = "work" /\ kind[o] # "stop"
          /\ pc' = [pc EXCEPT ![o] = "release"]
      BY <2>4 DEF Work
    <3> QED
      BY <3>1, <3>2 DEF SameFiles
  <2> QED
    BY <1>5, <2>1, <2>2, <2>3, <2>4 DEF Checking
<1>6. ASSUME NEW o \in Ops, Passing(o) PROVE TargetInv'
  <2>1. CASE Transfer(o)
    BY <2>1 DEF Transfer
  <2>2. CASE Transferred(o)
    BY <2>2 DEF Transferred
  <2>3. CASE Release(o)
    BY <2>3 DEF Release
  <2>4. CASE Final(o)
    BY <2>4 DEF Final
  <2> QED
    BY <1>6, <2>1, <2>2, <2>3, <2>4 DEF Passing
<1>7. ASSUME NEW o \in Ops, Recovering(o) PROVE TargetInv'
  <2>1. CASE Recover(o)
    BY <2>1 DEF Recover
  <2>2. CASE (\E p \in Ops : RecoverNext(o, p))
    BY <2>2 DEF RecoverNext
  <2> QED
    BY <1>7, <2>1, <2>2 DEF Recovering
<1>8. ASSUME NEW t \in Threads, Finishing(t) PROVE TargetInv'
  <2>1. CASE JobStop(t)
    <3>1. \A q \in Ops : SameFiles(q)
      BY <2>1, StopEffect DEF JobStop, Jobs
    <3>2. UNCHANGED <<pc, kind, target>>
      BY <2>1 DEF JobStop
    <3> QED
      BY <3>1, <3>2 DEF SameFiles
  <2>2. CASE JobRead(t)
    BY <2>2 DEF JobRead
  <2>3. CASE JobWrite(t)
    BY <2>3 DEF JobWrite
  <2>4. CASE JobRefuse(t)
    BY <2>4 DEF JobRefuse
  <2> QED
    BY <1>8, <2>1, <2>2, <2>3, <2>4 DEF Finishing
<1>9. ASSUME NEW r \in Reconcilers, Reconciling(r) PROVE TargetInv'
  <2>1. CASE Scan(r)
    BY <2>1 DEF Scan
  <2>2. CASE Repair(r)
    BY <2>2 DEF Repair
  <2>3. CASE (\E o \in Ops : Visit(r, o))
    BY <2>3 DEF Visit
  <2>4. CASE (\E o \in Ops : Settle(r, o))
    BY <2>4 DEF Settle
  <2> QED
    BY <1>9, <2>1, <2>2, <2>3, <2>4 DEF Reconciling
<1>10. ASSUME NEW p \in Ops, Vending(p) PROVE TargetInv'
  <2>1. CASE RunRetires(p)
    BY <2>1 DEF RunRetires, Runs
  <2>2. CASE UnitExits(p)
    BY <2>2 DEF UnitExits, Runs
  <2>3. CASE RunDies(p)
    BY <2>3 DEF RunDies
  <2>4. CASE StrayEnds(p)
    BY <2>4 DEF StrayEnds, Runs
  <2> QED
    BY <1>10, <2>1, <2>2, <2>3, <2>4 DEF Vending
<1>11. ASSUME NEW o \in Ops, JobRelease(o) PROVE TargetInv'
  <2>1. /\ UNCHANGED <<run, kind, target>>
        /\ pc[o] # "idle"
        /\ pc' = pc \/ \E l \in {"done", "final"} : pc' = [pc EXCEPT ![o] = l]
    BY <1>11 DEF JobRelease, DeathInv, JobInv, Threads
  <2> QED
    BY <2>1
<1>12. ASSUME NEW o \in Ops, NEW k \in Kinds, NEW t \in Ops, Request(o, k, t) PROVE TargetInv'
  BY <1>12 DEF Request, RunInv
<1>13. ASSUME Publish PROVE TargetInv'
  BY <1>13 DEF Publish
<1>14. ASSUME Crash PROVE TargetInv'
  <2>1. \A q \in Ops : SameFiles(q)
    BY <1>14, CrashEffect
  <2>2. /\ UNCHANGED <<kind, target>>
        /\ \A o \in Ops : pc'[o] = pc[o] \/ (pc[o] # "idle" /\ pc'[o] = "dead")
    BY <1>14 DEF Crash
  <2> QED
    BY <2>1, <2>2 DEF SameFiles
<1>15. ASSUME PowerFailure PROVE TargetInv'
  <2>1. \A q \in Ops : SameFiles(q)
    BY <1>15, PowerEffect
  <2>2. /\ UNCHANGED <<kind, target>>
        /\ \A o \in Ops : pc'[o] = pc[o] \/ (pc[o] # "idle" /\ pc'[o] = "dead")
    BY <1>15 DEF PowerFailure
  <2> QED
    BY <2>1, <2>2 DEF SameFiles
<1>16. ASSUME GateDies PROVE TargetInv'
  BY <1>16 DEF GateDies
<1>17. ASSUME StartService PROVE TargetInv'
  BY <1>17 DEF StartService
<1> QED
  BY <1>1, <1>2, <1>3, <1>4, <1>5, <1>6, <1>7, <1>8, <1>9, <1>10, <1>11, <1>12, <1>13,
     <1>14, <1>15, <1>16, <1>17, StepKinds

\* The files and the unit of every run stay consistent.
LEMMA RunKept == ASSUME TypeOK, Shape, DeathInv, SetupInv, Next PROVE RunInv'
<1>a. /\ pc \in [Ops -> Labels]
      /\ kind \in [Ops -> Kinds \cup {None}]
      /\ target \in [Ops -> Ops]
      /\ run \in [Ops -> Runs]
      /\ job \in [Threads -> Jobs \cup {None}]
  BY DEF TypeOK, Shape, PcTypes, JobTypes, LockTypes
<1> USE <1>a
<1> USE ThreadsDiffer DEF files, request, rest, At, Goto, Asked, WorkerLabels, Gone,
           SetupInv, GoOn, AfterRun, Die, Look, Threads, Reconcilers, EnvironmentInv,
           KindInv, TargetInv, Inside, RunInv, Unrecorded, DeathInv, JobInv, FinishInv,
           Jobs, Working
<1>1. ASSUME NEW o \in Ops, Dispatching(o) PROVE RunInv'
  <2>1. CASE Admit(o)
    BY <2>1 DEF Admit
  <2>2. CASE AdmitRefused(o)
    BY <2>2 DEF AdmitRefused
  <2>3. CASE Queue(o)
    BY <2>3 DEF Queue
  <2>4. CASE Launch(o)
    BY <2>4 DEF Launch
  <2>5. CASE LaunchFails(o)
    BY <2>5 DEF LaunchFails
  <2>6. CASE Start(o)
    BY <2>6 DEF Start
  <2> QED
    BY <1>1, <2>1, <2>2, <2>3, <2>4, <2>5, <2>6 DEF Dispatching
<1>2. ASSUME NEW o \in Ops, Refusing(o) PROVE RunInv'
  <2>1. CASE ActRefused(o)
    BY <2>1 DEF ActRefused
  <2>2. CASE AcquireRefused(o)
    BY <2>2 DEF AcquireRefused
  <2>3. CASE ReserveRefused(o)
    BY <2>3 DEF ReserveRefused
  <2>4. CASE TransferRefused(o)
    BY <2>4 DEF TransferRefused
  <2>5. CASE Recovered(o)
    BY <2>5 DEF Recovered
  <2> QED
    BY <1>2, <2>1, <2>2, <2>3, <2>4, <2>5 DEF Refusing
<1>3. ASSUME NEW o \in Ops, Reserving(o) PROVE RunInv'
  <2>1. CASE Enter(o)
    BY <2>1 DEF Enter
  <2>2. CASE Acquire(o)
    BY <2>2 DEF Acquire
  <2>3. CASE Reserve(o)
    <3>1. /\ \A q \in Ops : q # o => run'[q] = run[q]
          /\ run'[o].recorded /\ run'[o].spec = run[o].spec /\ run'[o].alive = run[o].alive
          /\ run'[o].stray = run[o].stray /\ run'[o].retired = run[o].retired
      BY <2>3, ReserveEffect
    <3>2. /\ pc[o] = "reserve"
          /\ pc' = [pc EXCEPT ![o] = "spec"]
      BY <2>3 DEF Reserve
    <3> QED
      BY <3>1, <3>2 DEF SameFiles
  <2>4. CASE WriteSpec(o)
    BY <2>4 DEF WriteSpec, Runs
  <2> QED
    BY <1>3, <2>1, <2>2, <2>3, <2>4 DEF Reserving
<1>4. ASSUME NEW o \in Ops, Running(o) PROVE RunInv'
  <2>1. CASE LaunchRun(o)
    BY <2>1 DEF LaunchRun, Runs
  <2>2. CASE LaunchRunFails(o)
    <3>1. /\ \A q \in Ops : SameFiles(q) /\ (q # o => run'[q] = run[q])
          /\ run'[o].stray = run[o].stray
          /\ \/ run'[o].retired /\ run'[o].alive = run[o].alive
             \/ run'[o].alive /\ run'[o].retired = run[o].retired
      BY <2>2, LaunchFailsEffect
    <3>2. /\ pc[o] = "run"
          /\ pc' = [pc EXCEPT ![o] = "closing"]
      BY <2>2 DEF LaunchRunFails
    <3> QED
      BY <3>1, <3>2 DEF SameFiles
  <2>3. CASE RunOver(o)
    BY <2>3 DEF RunOver
  <2>4. CASE Closed(o)
    BY <2>4 DEF Closed
  <2> QED
    BY <1>4, <2>1, <2>2, <2>3, <2>4 DEF Running
<1>5. ASSUME NEW o \in Ops, Checking(o) PROVE RunInv'
  <2>1. CASE StopRun(o)
    <3>1. /\ \A q \in Ops : SameFiles(q) /\ (q # target[o] => run'[q] = run[q])
          /\ ~run'[target[o]].alive
          /\ \/ run'[target[o]].retired /\ run'[target[o]].stray = run[target[o]].stray
             \/ ~run[target[o]].retired /\ ~run'[target[o]].retired
      BY <2>1, StopEffect DEF StopRun
    <3>2. /\ target[o] \in Ops /\ run[target[o]].alive /\ pc[o] = "act"
          /\ \E l \in {"release", "final"} : pc' = [pc EXCEPT ![o] = l]
      BY <2>1 DEF StopRun
    <3> QED
      BY <3>1, <3>2 DEF SameFiles
  <2>2. CASE Confirm(o)
    BY <2>2 DEF Confirm
  <2>3. CASE ConfirmWrite(o)
    BY <2>3 DEF ConfirmWrite, Runs
  <2>4. CASE Work(o)
    <3>1. /\ \A q \in Ops : SameFiles(q) /\ run'[q].retired = run[q].retired
          /\ \A q \in Ops : run'[q].alive = run[q].alive /\ run'[q].stray = run[q].stray
      BY <2>4, WorkEffect
    <3>2. /\ pc[o] = "work"
          /\ pc' = [pc EXCEPT ![o] = "release"]
      BY <2>4 DEF Work
    <3> QED
      BY <3>1, <3>2 DEF SameFiles
  <2> QED
    BY <1>5, <2>1, <2>2, <2>3, <2>4 DEF Checking
<1>6. ASSUME NEW o \in Ops, Passing(o) PROVE RunInv'
  <2>1. CASE Transfer(o)
    BY <2>1 DEF Transfer
  <2>2. CASE Transferred(o)
    BY <2>2 DEF Transferred
  <2>3. CASE Release(o)
    BY <2>3 DEF Release
  <2>4. CASE Final(o)
    BY <2>4 DEF Final
  <2> QED
    BY <1>6, <2>1, <2>2, <2>3, <2>4 DEF Passing
<1>7. ASSUME NEW o \in Ops, Recovering(o) PROVE RunInv'
  <2>1. CASE Recover(o)
    BY <2>1 DEF Recover
  <2>2. CASE (\E p \in Ops : RecoverNext(o, p))
    BY <2>2 DEF RecoverNext
  <2> QED
    BY <1>7, <2>1, <2>2 DEF Recovering
<1>8. ASSUME NEW t \in Threads, Finishing(t) PROVE RunInv'
  <2>1. CASE JobStop(t)
    <3>1. /\ \A q \in Ops : SameFiles(q) /\ (q # job[t].op => run'[q] = run[q])
          /\ ~run'[job[t].op].alive
          /\ \/ run'[job[t].op].retired /\ run'[job[t].op].stray = run[job[t].op].stray
             \/ ~run[job[t].op].retired /\ ~run'[job[t].op].retired
      BY <2>1, StopEffect DEF JobStop, Jobs
    <3>2. /\ job[t].op \in Ops /\ run[job[t].op].alive
          /\ UNCHANGED pc
      BY <2>1 DEF JobStop, Jobs
    <3> QED
      BY <3>1, <3>2 DEF SameFiles
  <2>2. CASE JobRead(t)
    BY <2>2 DEF JobRead
  <2>3. CASE JobWrite(t)
    <3>1. /\ job[t] # None /\ job[t].op \in Ops
          /\ \A q \in Ops : SameFiles(q) /\ (q # job[t].op => run'[q] = run[q])
          /\ run'[job[t].op].alive = run[job[t].op].alive
          /\ run'[job[t].op].stray = run[job[t].op].stray
          /\ run'[job[t].op].retired = job[t].confirmed
      BY <2>3, WriteBackEffect
    <3>2. /\ job[t].step = "write"
          /\ UNCHANGED pc
      BY <2>3 DEF JobWrite
    <3> QED
      BY <3>1, <3>2 DEF SameFiles
  <2>4. CASE JobRefuse(t)
    BY <2>4 DEF JobRefuse
  <2> QED
    BY <1>8, <2>1, <2>2, <2>3, <2>4 DEF Finishing
<1>9. ASSUME NEW r \in Reconcilers, Reconciling(r) PROVE RunInv'
  <2>1. CASE Scan(r)
    BY <2>1 DEF Scan
  <2>2. CASE Repair(r)
    BY <2>2 DEF Repair
  <2>3. CASE (\E o \in Ops : Visit(r, o))
    BY <2>3 DEF Visit
  <2>4. CASE (\E o \in Ops : Settle(r, o))
    BY <2>4 DEF Settle
  <2> QED
    BY <1>9, <2>1, <2>2, <2>3, <2>4 DEF Reconciling
<1>10. ASSUME NEW p \in Ops, Vending(p) PROVE RunInv'
  <2>1. CASE RunRetires(p)
    BY <2>1 DEF RunRetires, Runs
  <2>2. CASE UnitExits(p)
    BY <2>2 DEF UnitExits, Runs
  <2>3. CASE RunDies(p)
    BY <2>3 DEF RunDies
  <2>4. CASE StrayEnds(p)
    BY <2>4 DEF StrayEnds, Runs
  <2> QED
    BY <1>10, <2>1, <2>2, <2>3, <2>4 DEF Vending
<1>11. ASSUME NEW o \in Ops, JobRelease(o) PROVE RunInv'
  BY <1>11 DEF JobRelease
<1>12. ASSUME NEW o \in Ops, NEW k \in Kinds, NEW t \in Ops, Request(o, k, t) PROVE RunInv'
  BY <1>12 DEF Request
<1>13. ASSUME Publish PROVE RunInv'
  BY <1>13 DEF Publish
<1>14. ASSUME Crash PROVE RunInv'
  <2>1. /\ \A q \in Ops : SameFiles(q) /\ run'[q].retired = run[q].retired
        /\ \A q \in Ops : run'[q].stray = run[q].stray
        /\ \A q \in Ops : run'[q].alive = run[q].alive \/ (run'[q].alive /\ pc[q] = "run")
    BY <1>14, CrashEffect
  <2>2. /\ \A o \in Ops : pc'[o] = IF pc[o] \in {"idle", "done"} THEN pc[o] ELSE "dead"
    BY <1>14 DEF Crash
  <2> QED
    BY <2>1, <2>2 DEF SameFiles
<1>15. ASSUME PowerFailure PROVE RunInv'
  <2>1. /\ \A q \in Ops : SameFiles(q) /\ run'[q].retired = run[q].retired
        /\ \A q \in Ops : ~run'[q].alive /\ ~run'[q].stray
    BY <1>15, PowerEffect
  <2>2. /\ \A o \in Ops : pc'[o] = IF pc[o] \in {"idle", "done"} THEN pc[o] ELSE "dead"
    BY <1>15 DEF PowerFailure
  <2> QED
    BY <2>1, <2>2 DEF SameFiles
<1>16. ASSUME GateDies PROVE RunInv'
  BY <1>16 DEF GateDies
<1>17. ASSUME StartService PROVE RunInv'
  BY <1>17 DEF StartService
<1> QED
  BY <1>1, <1>2, <1>3, <1>4, <1>5, <1>6, <1>7, <1>8, <1>9, <1>10, <1>11, <1>12, <1>13,
     <1>14, <1>15, <1>16, <1>17, StepKinds

\* What was read of a run is still so when it is written back.
LEMMA FinishKept == ASSUME TypeOK, Shape, DeathInv, SetupInv, Next PROVE FinishInv'
<1>a. /\ pc \in [Ops -> Labels]
      /\ kind \in [Ops -> Kinds \cup {None}]
      /\ target \in [Ops -> Ops]
      /\ run \in [Ops -> Runs]
      /\ job \in [Threads -> Jobs \cup {None}]
  BY DEF TypeOK, Shape, PcTypes, JobTypes, LockTypes
<1> USE <1>a
<1> USE ThreadsDiffer DEF files, request, rest, At, Goto, Asked, WorkerLabels, Gone,
           SetupInv, GoOn, AfterRun, Die, Look, Threads, Reconcilers, EnvironmentInv,
           Inside, DeathInv, JobInv, FinishInv, Jobs, Finish, Working
<1>1. ASSUME NEW o \in Ops, Dispatching(o) PROVE FinishInv'
  <2>1. CASE Admit(o)
    BY <2>1 DEF Admit
  <2>2. CASE AdmitRefused(o)
    BY <2>2 DEF AdmitRefused
  <2>3. CASE Queue(o)
    BY <2>3 DEF Queue
  <2>4. CASE Launch(o)
    BY <2>4 DEF Launch
  <2>5. CASE LaunchFails(o)
    BY <2>5 DEF LaunchFails
  <2>6. CASE Start(o)
    BY <2>6 DEF Start
  <2> QED
    BY <1>1, <2>1, <2>2, <2>3, <2>4, <2>5, <2>6 DEF Dispatching
<1>2. ASSUME NEW o \in Ops, Refusing(o) PROVE FinishInv'
  <2>1. CASE ActRefused(o)
    BY <2>1 DEF ActRefused
  <2>2. CASE AcquireRefused(o)
    BY <2>2 DEF AcquireRefused
  <2>3. CASE ReserveRefused(o)
    BY <2>3 DEF ReserveRefused
  <2>4. CASE TransferRefused(o)
    BY <2>4 DEF TransferRefused
  <2>5. CASE Recovered(o)
    BY <2>5 DEF Recovered
  <2> QED
    BY <1>2, <2>1, <2>2, <2>3, <2>4, <2>5 DEF Refusing
<1>3. ASSUME NEW o \in Ops, Reserving(o) PROVE FinishInv'
  <2>1. CASE Enter(o)
    BY <2>1 DEF Enter
  <2>2. CASE Acquire(o)
    BY <2>2 DEF Acquire
  <2>3. CASE Reserve(o)
    <3>1. /\ \A q \in Ops : q # o => run'[q] = run[q]
          /\ run'[o].recorded /\ run'[o].spec = run[o].spec /\ run'[o].alive = run[o].alive
          /\ run'[o].stray = run[o].stray /\ run'[o].retired = run[o].retired
      BY <2>3, ReserveEffect
    <3>2. /\ pc[o] = "reserve"
          /\ pc' = [pc EXCEPT ![o] = "spec"]
          /\ UNCHANGED <<job, target>>
      BY <2>3 DEF Reserve
    <3> QED
      BY <3>1, <3>2 DEF SameFiles
  <2>4. CASE WriteSpec(o)
    <3>1. /\ \A q \in Ops : q # o => run'[q] = run[q]
          /\ run'[o].alive = run[o].alive /\ run'[o].stray = run[o].stray
          /\ run'[o].recorded = run[o].recorded
          /\ pc[o] = "spec" /\ pc' = [pc EXCEPT ![o] = "run"] /\ UNCHANGED <<job, target>>
      BY <2>4 DEF WriteSpec, Runs
    <3> QED
      BY <3>1
  <2> QED
    BY <1>3, <2>1, <2>2, <2>3, <2>4 DEF Reserving
<1>4. ASSUME NEW o \in Ops, Running(o) PROVE FinishInv'
  <2>1. CASE LaunchRun(o)
    <3>1. /\ \A q \in Ops : SameFiles(q) /\ (q # o => run'[q] = run[q])
          /\ pc[o] = "run" /\ pc' = [pc EXCEPT ![o] = "wait"] /\ UNCHANGED <<job, target>>
      BY <2>1 DEF LaunchRun, Runs, SameFiles
    <3> QED
      BY <3>1 DEF SameFiles
  <2>2. CASE LaunchRunFails(o)
    <3>1. /\ \A q \in Ops : SameFiles(q) /\ (q # o => run'[q] = run[q])
          /\ run'[o].stray = run[o].stray
          /\ \/ run'[o].retired /\ run'[o].alive = run[o].alive
             \/ run'[o].alive /\ run'[o].retired = run[o].retired
      BY <2>2, LaunchFailsEffect
    <3>2. /\ pc[o] = "run"
          /\ pc' = [pc EXCEPT ![o] = "closing"]
          /\ UNCHANGED target /\ job' = [job EXCEPT ![o] = Finish(o)]
      BY <2>2 DEF LaunchRunFails
    <3> QED
      BY <3>1, <3>2 DEF SameFiles
  <2>3. CASE RunOver(o)
    BY <2>3 DEF RunOver
  <2>4. CASE Closed(o)
    BY <2>4 DEF Closed
  <2> QED
    BY <1>4, <2>1, <2>2, <2>3, <2>4 DEF Running
<1>5. ASSUME NEW o \in Ops, Checking(o) PROVE FinishInv'
  <2>1. CASE StopRun(o)
    <3>1. /\ \A q \in Ops : SameFiles(q) /\ (q # target[o] => run'[q] = run[q])
          /\ ~run'[target[o]].alive
          /\ \/ run'[target[o]].retired /\ run'[target[o]].stray = run[target[o]].stray
             \/ ~run[target[o]].retired /\ ~run'[target[o]].retired
      BY <2>1, StopEffect DEF StopRun
    <3>2. /\ target[o] \in Ops /\ run[target[o]].alive /\ pc[o] = "act"
          /\ \E l \in {"release", "final"} : pc' = [pc EXCEPT ![o] = l]
          /\ UNCHANGED <<job, target>>
      BY <2>1 DEF StopRun
    <3> QED
      BY <3>1, <3>2 DEF SameFiles
  <2>2. CASE Confirm(o)
    BY <2>2 DEF Confirm
  <2>3. CASE ConfirmWrite(o)
    BY <2>3 DEF ConfirmWrite, Runs
  <2>4. CASE Work(o)
    <3>1. /\ \A q \in Ops : SameFiles(q) /\ run'[q].retired = run[q].retired
          /\ \A q \in Ops : run'[q].alive = run[q].alive /\ run'[q].stray = run[q].stray
      BY <2>4, WorkEffect
    <3>2. /\ pc[o] = "work"
          /\ pc' = [pc EXCEPT ![o] = "release"]
          /\ UNCHANGED <<job, target>>
      BY <2>4 DEF Work
    <3> QED
      BY <3>1, <3>2 DEF SameFiles
  <2> QED
    BY <1>5, <2>1, <2>2, <2>3, <2>4 DEF Checking
<1>6. ASSUME NEW o \in Ops, Passing(o) PROVE FinishInv'
  <2>1. CASE Transfer(o)
    BY <2>1 DEF Transfer
  <2>2. CASE Transferred(o)
    BY <2>2 DEF Transferred
  <2>3. CASE Release(o)
    BY <2>3 DEF Release
  <2>4. CASE Final(o)
    BY <2>4 DEF Final
  <2> QED
    BY <1>6, <2>1, <2>2, <2>3, <2>4 DEF Passing
<1>7. ASSUME NEW o \in Ops, Recovering(o) PROVE FinishInv'
  <2>1. CASE Recover(o)
    BY <2>1 DEF Recover
  <2>2. CASE (\E p \in Ops : RecoverNext(o, p))
    BY <2>2 DEF RecoverNext
  <2> QED
    BY <1>7, <2>1, <2>2 DEF Recovering
<1>8. ASSUME NEW t \in Threads, Finishing(t) PROVE FinishInv'
  <2>1. CASE JobStop(t)
    <3>1. /\ \A q \in Ops : SameFiles(q) /\ (q # job[t].op => run'[q] = run[q])
          /\ ~run'[job[t].op].alive
          /\ \/ run'[job[t].op].retired /\ run'[job[t].op].stray = run[job[t].op].stray
             \/ ~run[job[t].op].retired /\ ~run'[job[t].op].retired
      BY <2>1, StopEffect DEF JobStop, Jobs
    <3>2. /\ job[t].op \in Ops /\ run[job[t].op].alive
          /\ UNCHANGED <<pc, job, target>>
      BY <2>1 DEF JobStop, Jobs
    <3> QED
      BY <3>1, <3>2 DEF SameFiles
  <2>2. CASE JobRead(t)
    <3>1. /\ job[t] # None /\ job[t] \in Jobs /\ ~run[job[t].op].alive
          /\ UNCHANGED <<pc, run, target>>
          /\ \A x \in Threads : x # t => job'[x] = job[x]
      BY <2>2 DEF JobRead
    <3>2. /\ job'[t].op = job[t].op
          /\ job'[t].step = "write" => run[job[t].op].recorded
          /\ job'[t].confirmed => ~run[job[t].op].spec
      BY <2>2, <3>1 DEF JobRead
    <3>3. \A o \in Ops : pc'[o] = "census" => ~run'[target'[o]].alive /\ ~run'[target'[o]].stray
      BY <3>1
    <3>4. ASSUME NEW x \in Threads, job'[x] # None
          PROVE  /\ job'[x].step # "read" => ~run'[job'[x].op].alive
                 /\ job'[x].step = "write" =>
                       run'[job'[x].op].recorded /\ (job'[x].confirmed => ~run'[job'[x].op].spec)
      <4>1. CASE x = t
        BY <3>1, <3>2, <4>1
      <4>2. CASE x # t
        BY <3>1, <3>4, <4>2
      <4> QED
        BY <4>1, <4>2
    <3> QED
      BY <3>3, <3>4
  <2>3. CASE JobWrite(t)
    <3>1. /\ job[t] # None /\ job[t].op \in Ops
          /\ \A q \in Ops : SameFiles(q) /\ (q # job[t].op => run'[q] = run[q])
          /\ run'[job[t].op].alive = run[job[t].op].alive
          /\ run'[job[t].op].stray = run[job[t].op].stray
          /\ run'[job[t].op].retired = job[t].confirmed
      BY <2>3, WriteBackEffect
    <3>2. /\ job[t].step = "write"
          /\ UNCHANGED <<pc, target>> /\ job' = [job EXCEPT ![t].step = "refuse"]
      BY <2>3 DEF JobWrite
    <3> QED
      BY <3>1, <3>2 DEF SameFiles
  <2>4. CASE JobRefuse(t)
    BY <2>4 DEF JobRefuse
  <2> QED
    BY <1>8, <2>1, <2>2, <2>3, <2>4 DEF Finishing
<1>9. ASSUME NEW r \in Reconcilers, Reconciling(r) PROVE FinishInv'
  <2>1. CASE Scan(r)
    BY <2>1 DEF Scan
  <2>2. CASE Repair(r)
    BY <2>2 DEF Repair
  <2>3. CASE (\E o \in Ops : Visit(r, o))
    BY <2>3 DEF Visit
  <2>4. CASE (\E o \in Ops : Settle(r, o))
    BY <2>4 DEF Settle
  <2> QED
    BY <1>9, <2>1, <2>2, <2>3, <2>4 DEF Reconciling
<1>10. ASSUME NEW p \in Ops, Vending(p) PROVE FinishInv'
  <2>1. CASE RunRetires(p)
    BY <2>1 DEF RunRetires, Runs
  <2>2. CASE UnitExits(p)
    BY <2>2 DEF UnitExits, Runs
  <2>3. CASE RunDies(p)
    BY <2>3 DEF RunDies
  <2>4. CASE StrayEnds(p)
    BY <2>4 DEF StrayEnds, Runs
  <2> QED
    BY <1>10, <2>1, <2>2, <2>3, <2>4 DEF Vending
<1>11. ASSUME NEW o \in Ops, JobRelease(o) PROVE FinishInv'
  BY <1>11 DEF JobRelease
<1>12. ASSUME NEW o \in Ops, NEW k \in Kinds, NEW t \in Ops, Request(o, k, t) PROVE FinishInv'
  BY <1>12 DEF Request
<1>13. ASSUME Publish PROVE FinishInv'
  BY <1>13 DEF Publish
<1>14. ASSUME Crash PROVE FinishInv'
  <2>1. /\ \A q \in Ops : SameFiles(q) /\ run'[q].retired = run[q].retired
        /\ \A q \in Ops : run'[q].stray = run[q].stray
        /\ \A q \in Ops : run'[q].alive = run[q].alive \/ (run'[q].alive /\ pc[q] = "run")
    BY <1>14, CrashEffect
  <2>2. /\ \A o \in Ops : pc'[o] = IF pc[o] \in {"idle", "done"} THEN pc[o] ELSE "dead"
        /\ UNCHANGED target /\ \A t \in Threads : job'[t] \in {job[t], None}
    BY <1>14 DEF Crash
  <2> QED
    BY <2>1, <2>2 DEF SameFiles
<1>15. ASSUME PowerFailure PROVE FinishInv'
  <2>1. /\ \A q \in Ops : SameFiles(q) /\ run'[q].retired = run[q].retired
        /\ \A q \in Ops : ~run'[q].alive /\ ~run'[q].stray
    BY <1>15, PowerEffect
  <2>2. /\ \A o \in Ops : pc'[o] = IF pc[o] \in {"idle", "done"} THEN pc[o] ELSE "dead"
        /\ UNCHANGED target /\ \A t \in Threads : job'[t] \in {job[t], None}
    BY <1>15 DEF PowerFailure
  <2> QED
    BY <2>1, <2>2 DEF SameFiles
<1>16. ASSUME GateDies PROVE FinishInv'
  BY <1>16 DEF GateDies
<1>17. ASSUME StartService PROVE FinishInv'
  BY <1>17 DEF StartService
<1> QED
  BY <1>1, <1>2, <1>3, <1>4, <1>5, <1>6, <1>7, <1>8, <1>9, <1>10, <1>11, <1>12, <1>13,
     <1>14, <1>15, <1>16, <1>17, StepKinds

\* Every release and transfer leaves the reservation of a running program alone.
LEMMA HoldKept == ASSUME TypeOK, Shape, DeathInv, SetupInv, Next PROVE HoldInv'
<1>a. /\ pc \in [Ops -> Labels]
      /\ kind \in [Ops -> Kinds \cup {None}]
      /\ target \in [Ops -> Ops]
      /\ run \in [Ops -> Runs]
      /\ job \in [Threads -> Jobs \cup {None}]
      /\ held \in [Ops -> {"none", "held", "released"}]
  BY DEF TypeOK, Shape, PcTypes, JobTypes, LockTypes
<1> USE <1>a
<1> USE ThreadsDiffer DEF files, request, rest, At, Goto, Asked, WorkerLabels, Gone,
           SetupInv, GoOn, AfterRun, Die, Look, Threads, Reconcilers, EnvironmentInv,
           KindInv, TargetInv, Inside, RunInv, Unrecorded, DeathInv, JobInv,
           ExecutorInv, FinishInv, HoldInv, Programs, AllRetired, Released, Names, Jobs,
           Working
<1>1. ASSUME NEW o \in Ops, Dispatching(o) PROVE HoldInv'
  <2>1. CASE Admit(o)
    BY <2>1 DEF Admit
  <2>2. CASE AdmitRefused(o)
    BY <2>2 DEF AdmitRefused
  <2>3. CASE Queue(o)
    BY <2>3 DEF Queue
  <2>4. CASE Launch(o)
    BY <2>4 DEF Launch
  <2>5. CASE LaunchFails(o)
    BY <2>5 DEF LaunchFails
  <2>6. CASE Start(o)
    BY <2>6 DEF Start
  <2> QED
    BY <1>1, <2>1, <2>2, <2>3, <2>4, <2>5, <2>6 DEF Dispatching
<1>2. ASSUME NEW o \in Ops, Refusing(o) PROVE HoldInv'
  <2>1. CASE ActRefused(o)
    BY <2>1 DEF ActRefused
  <2>2. CASE AcquireRefused(o)
    BY <2>2 DEF AcquireRefused
  <2>3. CASE ReserveRefused(o)
    BY <2>3 DEF ReserveRefused
  <2>4. CASE TransferRefused(o)
    BY <2>4 DEF TransferRefused
  <2>5. CASE Recovered(o)
    BY <2>5 DEF Recovered
  <2> QED
    BY <1>2, <2>1, <2>2, <2>3, <2>4, <2>5 DEF Refusing
<1>3. ASSUME NEW o \in Ops, Reserving(o) PROVE HoldInv'
  <2>1. CASE Enter(o)
    BY <2>1 DEF Enter
  <2>2. CASE Acquire(o)
    BY <2>2 DEF Acquire
  <2>3. CASE Reserve(o)
    <3>1. /\ \A q \in Ops : q # o => run'[q] = run[q]
          /\ run'[o].recorded /\ run'[o].spec = run[o].spec /\ run'[o].alive = run[o].alive
          /\ run'[o].stray = run[o].stray /\ run'[o].retired = run[o].retired
      BY <2>3, ReserveEffect
    <3>2. /\ pc[o] = "reserve"
          /\ pc' = [pc EXCEPT ![o] = "spec"]
          /\ UNCHANGED <<kind, held>>
      BY <2>3 DEF Reserve
    <3> QED
      BY <3>1, <3>2 DEF SameFiles
  <2>4. CASE WriteSpec(o)
    BY <2>4 DEF WriteSpec, Runs
  <2> QED
    BY <1>3, <2>1, <2>2, <2>3, <2>4 DEF Reserving
<1>4. ASSUME NEW o \in Ops, Running(o) PROVE HoldInv'
  <2>1. CASE LaunchRun(o)
    BY <2>1 DEF LaunchRun, Runs
  <2>2. CASE LaunchRunFails(o)
    <3>1. /\ \A q \in Ops : SameFiles(q) /\ (q # o => run'[q] = run[q])
          /\ run'[o].stray = run[o].stray
          /\ \/ run'[o].retired /\ run'[o].alive = run[o].alive
             \/ run'[o].alive /\ run'[o].retired = run[o].retired
      BY <2>2, LaunchFailsEffect
    <3>2. /\ pc[o] = "run"
          /\ pc' = [pc EXCEPT ![o] = "closing"]
          /\ UNCHANGED <<kind, held>>
      BY <2>2 DEF LaunchRunFails
    <3> QED
      BY <3>1, <3>2 DEF SameFiles
  <2>3. CASE RunOver(o)
    BY <2>3 DEF RunOver
  <2>4. CASE Closed(o)
    BY <2>4 DEF Closed
  <2> QED
    BY <1>4, <2>1, <2>2, <2>3, <2>4 DEF Running
<1>5. ASSUME NEW o \in Ops, Checking(o) PROVE HoldInv'
  <2>1. CASE StopRun(o)
    <3>1. /\ \A q \in Ops : SameFiles(q) /\ (q # target[o] => run'[q] = run[q])
          /\ ~run'[target[o]].alive
          /\ \/ run'[target[o]].retired /\ run'[target[o]].stray = run[target[o]].stray
             \/ ~run[target[o]].retired /\ ~run'[target[o]].retired
      BY <2>1, StopEffect DEF StopRun
    <3>2. /\ target[o] \in Ops /\ run[target[o]].alive /\ pc[o] = "act"
          /\ \E l \in {"release", "final"} : pc' = [pc EXCEPT ![o] = l]
          /\ UNCHANGED <<kind, held>>
      <4>1. pc' = [pc EXCEPT ![o] =
                IF run'[target[o]].retired /\ kind[target[o]] = "install" THEN "release"
                ELSE "final"]
        BY <2>1 DEF StopRun
      <4>2. target[o] \in Ops /\ run[target[o]].alive /\ pc[o] = "act" /\ UNCHANGED <<kind, held>>
        BY <2>1 DEF StopRun
      <4> QED
        BY <4>1, <4>2
    <3>3. ASSUME NEW p \in Ops, Programs(p)' PROVE Programs(p)
      <4>1. CASE p = target[o]
        BY <3>1, <3>2, <3>3, <4>1
      <4>2. CASE p # target[o]
        BY <3>1, <3>3, <4>2
      <4> QED
        BY <4>1, <4>2
    <3>4. \A q \in Ops : pc'[q] = pc[q] \/ pc'[q] \in {"release", "final"}
      BY <3>2
    <3> HIDE DEF Programs
    <3> QED
      BY <3>2, <3>3, <3>4
  <2>2. CASE Confirm(o)
    BY <2>2 DEF Confirm
  <2>3. CASE ConfirmWrite(o)
    BY <2>3 DEF ConfirmWrite, Runs
  <2>4. CASE Work(o)
    <3>1. /\ \A q \in Ops : SameFiles(q) /\ run'[q].retired = run[q].retired
          /\ \A q \in Ops : run'[q].alive = run[q].alive /\ run'[q].stray = run[q].stray
      BY <2>4, WorkEffect
    <3>2. /\ pc[o] = "work"
          /\ pc' = [pc EXCEPT ![o] = "release"]
          /\ UNCHANGED <<kind, held>>
      BY <2>4 DEF Work
    <3> QED
      BY <3>1, <3>2 DEF SameFiles
  <2> QED
    BY <1>5, <2>1, <2>2, <2>3, <2>4 DEF Checking
<1>6. ASSUME NEW o \in Ops, Passing(o) PROVE HoldInv'
  <2>1. CASE Transfer(o)
    BY <2>1 DEF Transfer
  <2>2. CASE Transferred(o)
    BY <2>2 DEF Transferred, QuietInv
  <2>3. CASE Release(o)
    BY <2>3 DEF Release
  <2>4. CASE Final(o)
    BY <2>4 DEF Final
  <2> QED
    BY <1>6, <2>1, <2>2, <2>3, <2>4 DEF Passing
<1>7. ASSUME NEW o \in Ops, Recovering(o) PROVE HoldInv'
  <2>1. CASE Recover(o)
    BY <2>1 DEF Recover
  <2>2. CASE (\E p \in Ops : RecoverNext(o, p))
    BY <2>2 DEF RecoverNext
  <2> QED
    BY <1>7, <2>1, <2>2 DEF Recovering
<1>8. ASSUME NEW t \in Threads, Finishing(t) PROVE HoldInv'
  <2>1. CASE JobStop(t)
    <3>1. /\ \A q \in Ops : SameFiles(q) /\ (q # job[t].op => run'[q] = run[q])
          /\ ~run'[job[t].op].alive
          /\ \/ run'[job[t].op].retired /\ run'[job[t].op].stray = run[job[t].op].stray
             \/ ~run[job[t].op].retired /\ ~run'[job[t].op].retired
      BY <2>1, StopEffect DEF JobStop, Jobs
    <3>2. /\ job[t].op \in Ops /\ run[job[t].op].alive
          /\ UNCHANGED <<pc, kind, held>>
      BY <2>1 DEF JobStop, Jobs
    <3> QED
      BY <3>1, <3>2 DEF SameFiles
  <2>2. CASE JobRead(t)
    BY <2>2 DEF JobRead
  <2>3. CASE JobWrite(t)
    <3>1. /\ job[t] # None /\ job[t].op \in Ops
          /\ \A q \in Ops : SameFiles(q) /\ (q # job[t].op => run'[q] = run[q])
          /\ run'[job[t].op].alive = run[job[t].op].alive
          /\ run'[job[t].op].stray = run[job[t].op].stray
          /\ run'[job[t].op].retired = job[t].confirmed
      BY <2>3, WriteBackEffect
    <3>2. /\ job[t].step = "write"
          /\ UNCHANGED <<pc, kind, held>>
      BY <2>3 DEF JobWrite
    <3> QED
      BY <3>1, <3>2 DEF SameFiles
  <2>4. CASE JobRefuse(t)
    BY <2>4 DEF JobRefuse
  <2> QED
    BY <1>8, <2>1, <2>2, <2>3, <2>4 DEF Finishing
<1>9. ASSUME NEW r \in Reconcilers, Reconciling(r) PROVE HoldInv'
  <2>1. CASE Scan(r)
    BY <2>1 DEF Scan
  <2>2. CASE Repair(r)
    BY <2>2 DEF Repair
  <2>3. CASE (\E o \in Ops : Visit(r, o))
    BY <2>3 DEF Visit
  <2>4. CASE (\E o \in Ops : Settle(r, o))
    BY <2>4 DEF Settle, LiveWorker
  <2> QED
    BY <1>9, <2>1, <2>2, <2>3, <2>4 DEF Reconciling
<1>10. ASSUME NEW p \in Ops, Vending(p) PROVE HoldInv'
  <2>1. CASE RunRetires(p)
    BY <2>1 DEF RunRetires, Runs
  <2>2. CASE UnitExits(p)
    BY <2>2 DEF UnitExits, Runs
  <2>3. CASE RunDies(p)
    BY <2>3 DEF RunDies
  <2>4. CASE StrayEnds(p)
    BY <2>4 DEF StrayEnds, Runs
  <2> QED
    BY <1>10, <2>1, <2>2, <2>3, <2>4 DEF Vending
<1>11. ASSUME NEW o \in Ops, JobRelease(o) PROVE HoldInv'
  BY <1>11 DEF JobRelease
<1>12. ASSUME NEW o \in Ops, NEW k \in Kinds, NEW t \in Ops, Request(o, k, t) PROVE HoldInv'
  BY <1>12 DEF Request
<1>13. ASSUME Publish PROVE HoldInv'
  BY <1>13 DEF Publish
<1>14. ASSUME Crash PROVE HoldInv'
  <2>1. /\ \A q \in Ops : SameFiles(q) /\ run'[q].retired = run[q].retired
        /\ \A q \in Ops : run'[q].stray = run[q].stray
        /\ \A q \in Ops : run'[q].alive = run[q].alive \/ (run'[q].alive /\ pc[q] = "run")
    BY <1>14, CrashEffect
  <2>2. /\ \A o \in Ops : pc'[o] = IF pc[o] \in {"idle", "done"} THEN pc[o] ELSE "dead"
        /\ UNCHANGED <<kind, held>>
    BY <1>14 DEF Crash
  <2> QED
    BY <2>1, <2>2 DEF SameFiles
<1>15. ASSUME PowerFailure PROVE HoldInv'
  <2>1. /\ \A q \in Ops : SameFiles(q) /\ run'[q].retired = run[q].retired
        /\ \A q \in Ops : ~run'[q].alive /\ ~run'[q].stray
    BY <1>15, PowerEffect
  <2>2. /\ \A o \in Ops : pc'[o] = IF pc[o] \in {"idle", "done"} THEN pc[o] ELSE "dead"
        /\ UNCHANGED <<kind, held>>
    BY <1>15 DEF PowerFailure
  <2> QED
    BY <2>1, <2>2 DEF SameFiles
<1>16. ASSUME GateDies PROVE HoldInv'
  BY <1>16 DEF GateDies
<1>17. ASSUME StartService PROVE HoldInv'
  BY <1>17 DEF StartService
<1> QED
  BY <1>1, <1>2, <1>3, <1>4, <1>5, <1>6, <1>7, <1>8, <1>9, <1>10, <1>11, <1>12, <1>13,
     <1>14, <1>15, <1>16, <1>17, StepKinds

\* No program of another operation appears beside a run, a transfer or a check.
LEMMA QuietKept == ASSUME TypeOK, Shape, DeathInv, SetupInv, Next PROVE QuietInv'
<1>a. /\ pc \in [Ops -> Labels]
      /\ kind \in [Ops -> Kinds \cup {None}]
      /\ target \in [Ops -> Ops]
      /\ run \in [Ops -> Runs]
      /\ job \in [Threads -> Jobs \cup {None}]
      /\ held \in [Ops -> {"none", "held", "released"}]
  BY DEF TypeOK, Shape, PcTypes, JobTypes, LockTypes
<1> USE <1>a
<1> USE ThreadsDiffer DEF files, request, rest, At, Goto, Asked, WorkerLabels, Gone,
           SetupInv, GoOn, AfterRun, Die, Look, Threads, Reconcilers, EnvironmentInv,
           KindInv, TargetInv, Inside, RunInv, Unrecorded, DeathInv, JobInv, FinishInv,
           HoldInv, QuietInv, Programs, AllRetired, Unclaimed, Reservable, Jobs, Working
<1>1. ASSUME NEW o \in Ops, Dispatching(o) PROVE QuietInv'
  <2>1. CASE Admit(o)
    BY <2>1 DEF Admit
  <2>2. CASE AdmitRefused(o)
    BY <2>2 DEF AdmitRefused
  <2>3. CASE Queue(o)
    BY <2>3 DEF Queue
  <2>4. CASE Launch(o)
    BY <2>4 DEF Launch
  <2>5. CASE LaunchFails(o)
    BY <2>5 DEF LaunchFails
  <2>6. CASE Start(o)
    BY <2>6 DEF Start
  <2> QED
    BY <1>1, <2>1, <2>2, <2>3, <2>4, <2>5, <2>6 DEF Dispatching
<1>2. ASSUME NEW o \in Ops, Refusing(o) PROVE QuietInv'
  <2>1. CASE ActRefused(o)
    BY <2>1 DEF ActRefused
  <2>2. CASE AcquireRefused(o)
    BY <2>2 DEF AcquireRefused
  <2>3. CASE ReserveRefused(o)
    BY <2>3 DEF ReserveRefused
  <2>4. CASE TransferRefused(o)
    BY <2>4 DEF TransferRefused
  <2>5. CASE Recovered(o)
    BY <2>5 DEF Recovered
  <2> QED
    BY <1>2, <2>1, <2>2, <2>3, <2>4, <2>5 DEF Refusing
<1>3. ASSUME NEW o \in Ops, Reserving(o) PROVE QuietInv'
  <2>1. CASE Enter(o)
    BY <2>1 DEF Enter
  <2>2. CASE Acquire(o)
    BY <2>2 DEF Acquire
  <2>3. CASE Reserve(o)
    <3>1. /\ \A q \in Ops : q # o => run'[q] = run[q]
          /\ run'[o].recorded /\ run'[o].spec = run[o].spec /\ run'[o].alive = run[o].alive
          /\ run'[o].stray = run[o].stray /\ run'[o].retired = run[o].retired
      BY <2>3, ReserveEffect
    <3>2. /\ pc[o] = "reserve"
          /\ pc' = [pc EXCEPT ![o] = "spec"]
          /\ UNCHANGED target
          /\ AllRetired
      BY <2>3 DEF Reserve
    <3> QED
      BY <3>1, <3>2 DEF SameFiles
  <2>4. CASE WriteSpec(o)
    BY <2>4 DEF WriteSpec, Runs
  <2> QED
    BY <1>3, <2>1, <2>2, <2>3, <2>4 DEF Reserving
<1>4. ASSUME NEW o \in Ops, Running(o) PROVE QuietInv'
  <2>1. CASE LaunchRun(o)
    BY <2>1 DEF LaunchRun, Runs
  <2>2. CASE LaunchRunFails(o)
    <3>1. /\ \A q \in Ops : SameFiles(q) /\ (q # o => run'[q] = run[q])
          /\ run'[o].stray = run[o].stray
          /\ \/ run'[o].retired /\ run'[o].alive = run[o].alive
             \/ run'[o].alive /\ run'[o].retired = run[o].retired
      BY <2>2, LaunchFailsEffect
    <3>2. /\ pc[o] = "run"
          /\ pc' = [pc EXCEPT ![o] = "closing"]
          /\ UNCHANGED target
      BY <2>2 DEF LaunchRunFails
    <3> QED
      BY <3>1, <3>2 DEF SameFiles
  <2>3. CASE RunOver(o)
    BY <2>3 DEF RunOver
  <2>4. CASE Closed(o)
    BY <2>4 DEF Closed
  <2> QED
    BY <1>4, <2>1, <2>2, <2>3, <2>4 DEF Running
<1>5. ASSUME NEW o \in Ops, Checking(o) PROVE QuietInv'
  <2>1. CASE StopRun(o)
    <3>1. /\ \A q \in Ops : SameFiles(q) /\ (q # target[o] => run'[q] = run[q])
          /\ ~run'[target[o]].alive
          /\ \/ run'[target[o]].retired /\ run'[target[o]].stray = run[target[o]].stray
             \/ ~run[target[o]].retired /\ ~run'[target[o]].retired
      BY <2>1, StopEffect DEF StopRun
    <3>2. /\ target[o] \in Ops /\ run[target[o]].alive /\ pc[o] = "act"
          /\ \E l \in {"release", "final"} : pc' = [pc EXCEPT ![o] = l]
          /\ UNCHANGED target
      <4>1. pc' = [pc EXCEPT ![o] =
                IF run'[target[o]].retired /\ kind[target[o]] = "install" THEN "release"
                ELSE "final"]
        BY <2>1 DEF StopRun
      <4>2. target[o] \in Ops /\ run[target[o]].alive /\ pc[o] = "act" /\ UNCHANGED target
        BY <2>1 DEF StopRun
      <4> QED
        BY <4>1, <4>2
    <3>3. ASSUME NEW p \in Ops, Programs(p)' PROVE Programs(p)
      <4>1. CASE p = target[o]
        BY <3>1, <3>2, <3>3, <4>1
      <4>2. CASE p # target[o]
        BY <3>1, <3>3, <4>2
      <4> QED
        BY <4>1, <4>2
    <3>4. \A q \in Ops : pc'[q] = pc[q] \/ pc'[q] \in {"release", "final"}
      BY <3>2
    <3> HIDE DEF Programs
    <3> QED
      BY <3>2, <3>3, <3>4
  <2>2. CASE Confirm(o)
    BY <2>2 DEF Confirm
  <2>3. CASE ConfirmWrite(o)
    BY <2>3 DEF ConfirmWrite, Runs
  <2>4. CASE Work(o)
    <3>1. /\ \A q \in Ops : SameFiles(q) /\ run'[q].retired = run[q].retired
          /\ \A q \in Ops : run'[q].alive = run[q].alive /\ run'[q].stray = run[q].stray
      BY <2>4, WorkEffect
    <3>2. /\ pc[o] = "work"
          /\ pc' = [pc EXCEPT ![o] = "release"]
          /\ UNCHANGED target
      BY <2>4 DEF Work
    <3> QED
      BY <3>1, <3>2 DEF SameFiles
  <2> QED
    BY <1>5, <2>1, <2>2, <2>3, <2>4 DEF Checking
<1>6. ASSUME NEW o \in Ops, Passing(o) PROVE QuietInv'
  <2>1. CASE Transfer(o)
    BY <2>1 DEF Transfer
  <2>2. CASE Transferred(o)
    BY <2>2 DEF Transferred
  <2>3. CASE Release(o)
    BY <2>3 DEF Release
  <2>4. CASE Final(o)
    BY <2>4 DEF Final
  <2> QED
    BY <1>6, <2>1, <2>2, <2>3, <2>4 DEF Passing
<1>7. ASSUME NEW o \in Ops, Recovering(o) PROVE QuietInv'
  <2>1. CASE Recover(o)
    BY <2>1 DEF Recover
  <2>2. CASE (\E p \in Ops : RecoverNext(o, p))
    BY <2>2 DEF RecoverNext
  <2> QED
    BY <1>7, <2>1, <2>2 DEF Recovering
<1>8. ASSUME NEW t \in Threads, Finishing(t) PROVE QuietInv'
  <2>1. CASE JobStop(t)
    <3>1. /\ \A q \in Ops : SameFiles(q) /\ (q # job[t].op => run'[q] = run[q])
          /\ ~run'[job[t].op].alive
          /\ \/ run'[job[t].op].retired /\ run'[job[t].op].stray = run[job[t].op].stray
             \/ ~run[job[t].op].retired /\ ~run'[job[t].op].retired
      BY <2>1, StopEffect DEF JobStop, Jobs
    <3>2. /\ job[t].op \in Ops /\ run[job[t].op].alive
          /\ UNCHANGED <<pc, target>>
      BY <2>1 DEF JobStop, Jobs
    <3> QED
      BY <3>1, <3>2 DEF SameFiles
  <2>2. CASE JobRead(t)
    BY <2>2 DEF JobRead
  <2>3. CASE JobWrite(t)
    <3>1. /\ \A q \in Ops : q # job[t].op => run'[q] = run[q]
          /\ job[t] # None /\ job[t].op \in Ops /\ run'[job[t].op].alive = run[job[t].op].alive
          /\ run'[job[t].op].stray = run[job[t].op].stray
      BY <2>3, WriteBackEffect
    <3>2. job[t].step = "write" /\ UNCHANGED <<pc, target>>
      BY <2>3 DEF JobWrite
    <3>3. ~run[job[t].op].alive
      BY <3>1, <3>2
    <3>4. \A q \in Ops : Programs(q)' => Programs(q)
      BY <3>1, <3>3
    <3> HIDE DEF Programs
    <3> QED
      BY <3>2, <3>4
  <2>4. CASE JobRefuse(t)
    BY <2>4 DEF JobRefuse
  <2> QED
    BY <1>8, <2>1, <2>2, <2>3, <2>4 DEF Finishing
<1>9. ASSUME NEW r \in Reconcilers, Reconciling(r) PROVE QuietInv'
  <2>1. CASE Scan(r)
    BY <2>1 DEF Scan
  <2>2. CASE Repair(r)
    BY <2>2 DEF Repair
  <2>3. CASE (\E o \in Ops : Visit(r, o))
    BY <2>3 DEF Visit
  <2>4. CASE (\E o \in Ops : Settle(r, o))
    BY <2>4 DEF Settle
  <2> QED
    BY <1>9, <2>1, <2>2, <2>3, <2>4 DEF Reconciling
<1>10. ASSUME NEW p \in Ops, Vending(p) PROVE QuietInv'
  <2>1. CASE RunRetires(p)
    BY <2>1 DEF RunRetires, Runs
  <2>2. CASE UnitExits(p)
    BY <2>2 DEF UnitExits, Runs
  <2>3. CASE RunDies(p)
    BY <2>3 DEF RunDies
  <2>4. CASE StrayEnds(p)
    BY <2>4 DEF StrayEnds, Runs
  <2> QED
    BY <1>10, <2>1, <2>2, <2>3, <2>4 DEF Vending
<1>11. ASSUME NEW o \in Ops, JobRelease(o) PROVE QuietInv'
  BY <1>11 DEF JobRelease
<1>12. ASSUME NEW o \in Ops, NEW k \in Kinds, NEW t \in Ops, Request(o, k, t) PROVE QuietInv'
  BY <1>12 DEF Request
<1>13. ASSUME Publish PROVE QuietInv'
  BY <1>13 DEF Publish
<1>14. ASSUME Crash PROVE QuietInv'
  <2>1. /\ \A q \in Ops : SameFiles(q) /\ run'[q].retired = run[q].retired
        /\ \A q \in Ops : run'[q].stray = run[q].stray
        /\ \A q \in Ops : run'[q].alive = run[q].alive \/ (run'[q].alive /\ pc[q] = "run")
    BY <1>14, CrashEffect
  <2>2. /\ \A o \in Ops : pc'[o] = IF pc[o] \in {"idle", "done"} THEN pc[o] ELSE "dead"
        /\ UNCHANGED target
    BY <1>14 DEF Crash
  <2> QED
    BY <2>1, <2>2 DEF SameFiles
<1>15. ASSUME PowerFailure PROVE QuietInv'
  <2>1. /\ \A q \in Ops : SameFiles(q) /\ run'[q].retired = run[q].retired
        /\ \A q \in Ops : ~run'[q].alive /\ ~run'[q].stray
    BY <1>15, PowerEffect
  <2>2. /\ \A o \in Ops : pc'[o] = IF pc[o] \in {"idle", "done"} THEN pc[o] ELSE "dead"
        /\ UNCHANGED target
    BY <1>15 DEF PowerFailure
  <2> QED
    BY <2>1, <2>2 DEF SameFiles
<1>16. ASSUME GateDies PROVE QuietInv'
  BY <1>16 DEF GateDies
<1>17. ASSUME StartService PROVE QuietInv'
  BY <1>17 DEF StartService
<1> QED
  BY <1>1, <1>2, <1>3, <1>4, <1>5, <1>6, <1>7, <1>8, <1>9, <1>10, <1>11, <1>12, <1>13,
     <1>14, <1>15, <1>16, <1>17, StepKinds

-----------------------------------------------------------------------------
(* The invariant holds *)

\* The invariant holds before the first request.
LEMMA InitEstablishes == Init => IInv
<1> SUFFICES ASSUME Init PROVE IInv
  OBVIOUS
<1> USE OperationsConstants, ThreadsDiffer DEF Init
<1>1. TypeOK
  BY DEF TypeOK, Threads, Reconcilers, NoRun, Runs, Over
<1>2. Shape
  BY DEF Shape, PcTypes, JobTypes, LockTypes, Labels, Asked
<1>3. DeathInv
  BY DEF DeathInv, ExecutorInv, ReceiptInv, TodoInv, JobInv, FinishedIsDead, Terminal, Threads,
         Reconcilers, WorkerLabels, Asked, Gone
<1>4. SetupInv
  BY DEF SetupInv, EnvironmentInv, KindInv, TargetInv, RunInv, FinishInv, HoldInv, QuietInv,
         NoRun, Programs, Inside, Unrecorded, Asked
<1> QED
  BY <1>1, <1>2, <1>3, <1>4 DEF IInv

\* Every step keeps it.
LEMMA NextPreserves == IInv /\ [Next]_vars => IInv'
<1>1. ASSUME IInv, Next PROVE IInv'
  <2>0. TypeOK /\ Shape /\ DeathInv /\ SetupInv
    BY <1>1 DEF IInv
  <2>1. PcTypes' /\ JobTypes' /\ LockTypes'
    BY <1>1, <2>0, PcTyped, JobTyped, LockTyped
  <2>2. FileTypes' /\ RequestTypes' /\ RunTypes' /\ ListTypes'
    BY <1>1, <2>0, FilesTyped, RequestsTyped, RunsTyped, ListsTyped
  <2>3. TypeOK'
    BY <2>1, <2>2 DEF TypeOK, LockTypes, FileTypes, RequestTypes, RunTypes, ListTypes
  <2>4. DeathInv'
    BY <1>1, <2>0, ExecutorKept, ReceiptKept, TodoKept, JobKept, FinishedKept DEF DeathInv
  <2>5. SetupInv'
    BY <1>1, <2>0, EnvironmentKept, KindKept, TargetKept, RunKept, FinishKept, HoldKept,
       QuietKept DEF SetupInv
  <2> QED
    BY <2>1, <2>3, <2>4, <2>5 DEF IInv, Shape
<1>2. ASSUME IInv, UNCHANGED vars PROVE IInv'
  <2>1. TypeOK' /\ Shape'
    BY <1>2 DEF vars, IInv, TypeOK, Shape, PcTypes, JobTypes, LockTypes
  <2>2. DeathInv'
    BY <1>2 DEF vars, IInv, DeathInv, ExecutorInv, ReceiptInv, TodoInv, JobInv, FinishedIsDead
  <2>3. SetupInv'
    BY <1>2 DEF vars, IInv, SetupInv, EnvironmentInv, KindInv, TargetInv, RunInv, FinishInv,
                HoldInv, QuietInv, Programs
  <2> QED
    BY <2>1, <2>2, <2>3 DEF IInv
<1> QED
  BY <1>1, <1>2

\* The invariant holds in every state of the system.
LEMMA Invariance == Spec => []IInv
  BY InitEstablishes, NextPreserves, PTL DEF Spec

\* An operation that was reported as over has a worker that only finishes it, or none: no
\* reconciler writes the final receipt of a job that still runs or is about to start
\* (reconcile_dead_workers_with beside executor::launch).
THEOREM ReportedIsOver == Spec => []FinishedIsDead
<1>1. IInv => FinishedIsDead
  BY DEF IInv, DeathInv
<1> QED
  BY <1>1, Invariance, PTL

\* The vendor's programs run only in a reserved setup, and whoever scans or checks the
\* setup holds it, alone and with no program running, through stops, confirmations,
\* transfers and deaths (maintenance.rs, environment_install.rs, uninstall.rs).
THEOREM SetupIsExclusive == Spec => []SetupExclusive
<1>1. ASSUME IInv PROVE SetupExclusive
  <2>1. (\E p \in Ops : Programs(p)) => \E o \in Ops : held[o] = "held"
    BY <1>1 DEF IInv, SetupInv, HoldInv
  <2>2. ASSUME NEW o \in Ops, pc[o] = "work"
        PROVE  held[o] = "held" /\ \A p \in Ops : ~Programs(p)
    BY <1>1, <2>2 DEF IInv, SetupInv, HoldInv, QuietInv
  <2>3. ASSUME NEW o \in Ops, pc[o] = "work", NEW p \in Ops, p # o PROVE pc[p] # "work"
    BY <1>1, <2>3 DEF IInv, SetupInv, EnvironmentInv, Inside
  <2> QED
    BY <1>1, <2>1, <2>2, <2>3 DEF SetupExclusive, IInv
<1> QED
  BY <1>1, Invariance, PTL
-----------------------------------------------------------------------------
(* Who finishes an operation *)

\* A worker lock is held by the operation's own worker while it acts, by another thread
\* when the worker is gone; whoever finishes another's operation has its lock; and the
\* worker that finishes its own run while it acts leaves the release to its end.
ClaimInv ==
    /\ \A p \in Ops :
          /\ lock.worker[p] = p => pc[p] \in WorkerLabels \ {"start", "finish"}
          /\ lock.worker[p] \notin {None, p} => pc[p] \in Gone
    /\ \A t \in Threads : job[t] # None /\ job[t].op # t => lock.worker[job[t].op] = t
    /\ \A o \in Ops : pc[o] = "closing" /\ job[o] # None => job[o].step # "release"

\* A thread takes the lock of a dead operation and what is left to do for it.
LEMMA ClaimTaken ==
    ASSUME ClaimInv, lock.worker \in [Ops -> Threads \cup {None}],
           job \in [Threads -> Jobs \cup {None}], NEW t \in Threads, NEW p \in Ops,
           t # p, pc[p] \in Gone, lock.worker[p] = None,
           lock' = [lock EXCEPT !.worker[p] = t], job' = [job EXCEPT ![t] = Finish(p)],
           lock \in [dispatch : Threads \cup {None}, canonical : Threads \cup {None},
                     environment : Threads \cup {None}, worker : [Ops -> Threads \cup {None}]],
           pc' = pc
    PROVE  ClaimInv'
<1>1. \A q \in Ops : lock'.worker[q] = IF q = p THEN t ELSE lock.worker[q]
  OBVIOUS
<1>2. \A u \in Threads : job'[u] = IF u = t THEN Finish(p) ELSE job[u]
  OBVIOUS
<1>3. \A u \in Threads : job[u] # None => job[u].op \in Ops
  BY DEF Jobs
<1>4. Finish(p).op = p /\ Finish(p).step # "release"
  BY DEF Finish
<1> QED
  BY <1>1, <1>2, <1>3, <1>4, ThreadsDiffer DEF ClaimInv, Threads, Reconcilers

\* A worker lock changes hands with the work on its operation.
LEMMA ClaimKept == ASSUME TypeOK, Shape, DeathInv, ClaimInv, Next PROVE ClaimInv'
<1>a. /\ pc \in [Ops -> Labels]
      /\ executor \in [Ops -> {"none", "active", "stale", "retired"}]
      /\ lock \in [dispatch : Threads \cup {None}, canonical : Threads \cup {None},
                  environment : Threads \cup {None}, worker : [Ops -> Threads \cup {None}]]
      /\ job \in [Threads -> Jobs \cup {None}]
      /\ todo \in [Threads -> SUBSET Ops]
  BY DEF TypeOK, Shape, PcTypes, JobTypes, LockTypes
<1> USE <1>a
<1> USE ThreadsDiffer DEF files, request, rest, At, Goto, Asked, WorkerLabels, Gone,
           DeathInv, GoOn, AfterRun, Die, Look, Threads, Reconcilers, Labels, Free,
           ExecutorInv, JobInv, Jobs, LiveWorker, Finish, Working, ClaimInv
<1>1. ASSUME NEW o \in Ops, Dispatching(o) PROVE ClaimInv'
  <2>1. CASE Admit(o)
    BY <2>1 DEF Admit
  <2>2. CASE AdmitRefused(o)
    BY <2>2 DEF AdmitRefused
  <2>3. CASE Queue(o)
    BY <2>3 DEF Queue
  <2>4. CASE Launch(o)
    BY <2>4 DEF Launch
  <2>5. CASE LaunchFails(o)
    BY <2>5 DEF LaunchFails
  <2>6. CASE Start(o)
    BY <2>6 DEF Start
  <2> QED
    BY <1>1, <2>1, <2>2, <2>3, <2>4, <2>5, <2>6 DEF Dispatching
<1>2. ASSUME NEW o \in Ops, Refusing(o) PROVE ClaimInv'
  <2>1. CASE ActRefused(o)
    BY <2>1 DEF ActRefused
  <2>2. CASE AcquireRefused(o)
    BY <2>2 DEF AcquireRefused
  <2>3. CASE ReserveRefused(o)
    BY <2>3 DEF ReserveRefused
  <2>4. CASE TransferRefused(o)
    BY <2>4 DEF TransferRefused
  <2>5. CASE Recovered(o)
    BY <2>5 DEF Recovered
  <2> QED
    BY <1>2, <2>1, <2>2, <2>3, <2>4, <2>5 DEF Refusing
<1>3. ASSUME NEW o \in Ops, Reserving(o) PROVE ClaimInv'
  <2>1. CASE Enter(o)
    BY <2>1 DEF Enter
  <2>2. CASE Acquire(o)
    BY <2>2 DEF Acquire
  <2>3. CASE Reserve(o)
    BY <2>3 DEF Reserve
  <2>4. CASE WriteSpec(o)
    BY <2>4 DEF WriteSpec
  <2> QED
    BY <1>3, <2>1, <2>2, <2>3, <2>4 DEF Reserving
<1>4. ASSUME NEW o \in Ops, Running(o) PROVE ClaimInv'
  <2>1. CASE LaunchRun(o)
    BY <2>1 DEF LaunchRun
  <2>2. CASE LaunchRunFails(o)
    BY <2>2 DEF LaunchRunFails
  <2>3. CASE RunOver(o)
    BY <2>3 DEF RunOver
  <2>4. CASE Closed(o)
    BY <2>4 DEF Closed
  <2> QED
    BY <1>4, <2>1, <2>2, <2>3, <2>4 DEF Running
<1>5. ASSUME NEW o \in Ops, Checking(o) PROVE ClaimInv'
  <2>1. CASE StopRun(o)
    BY <2>1 DEF StopRun
  <2>2. CASE Confirm(o)
    BY <2>2 DEF Confirm
  <2>3. CASE ConfirmWrite(o)
    BY <2>3 DEF ConfirmWrite
  <2>4. CASE Work(o)
    BY <2>4 DEF Work
  <2> QED
    BY <1>5, <2>1, <2>2, <2>3, <2>4 DEF Checking
<1>6. ASSUME NEW o \in Ops, Passing(o) PROVE ClaimInv'
  <2>1. CASE Transfer(o)
    BY <2>1 DEF Transfer
  <2>2. CASE Transferred(o)
    BY <2>2 DEF Transferred
  <2>3. CASE Release(o)
    BY <2>3 DEF Release
  <2>4. CASE Final(o)
    BY <2>4 DEF Final
  <2> QED
    BY <1>6, <2>1, <2>2, <2>3, <2>4 DEF Passing
<1>7. ASSUME NEW o \in Ops, Recovering(o) PROVE ClaimInv'
  <2>1. CASE Recover(o)
    BY <2>1 DEF Recover
  <2>2. CASE (\E p \in Ops : RecoverNext(o, p))
    <3>1. PICK p \in Ops : RecoverNext(o, p)
      BY <2>2
    <3>2. CASE LiveWorker(p) \/ lock.worker[p] # None
      BY <3>1, <3>2 DEF RecoverNext
    <3>3. CASE ~LiveWorker(p) /\ lock.worker[p] = None
      <4>1. /\ lock' = [lock EXCEPT !.worker[p] = o] /\ job' = [job EXCEPT ![o] = Finish(p)]
            /\ pc' = pc /\ job[o] = None /\ pc[o] = "recover" /\ p \in todo[o]
        BY <3>1, <3>3 DEF RecoverNext
      <4>2. pc[p] \in Gone /\ p # o
        BY <3>3, <4>1 DEF TodoInv
      <4> QED
        BY <3>3, <4>1, <4>2, ClaimTaken DEF ClaimInv
    <3> QED
      BY <3>2, <3>3
  <2> QED
    BY <1>7, <2>1, <2>2 DEF Recovering
<1>8. ASSUME NEW t \in Threads, Finishing(t) PROVE ClaimInv'
  <2>1. CASE JobStop(t)
    BY <2>1 DEF JobStop
  <2>2. CASE JobRead(t)
    BY <2>2 DEF JobRead
  <2>3. CASE JobWrite(t)
    BY <2>3 DEF JobWrite
  <2>4. CASE JobRefuse(t)
    BY <2>4 DEF JobRefuse
  <2> QED
    BY <1>8, <2>1, <2>2, <2>3, <2>4 DEF Finishing
<1>9. ASSUME NEW r \in Reconcilers, Reconciling(r) PROVE ClaimInv'
  <2>1. CASE Scan(r)
    BY <2>1 DEF Scan
  <2>2. CASE Repair(r)
    BY <2>2 DEF Repair
  <2>3. CASE (\E o \in Ops : Visit(r, o))
    <3>1. PICK o \in Ops : Visit(r, o)
      BY <2>3
    <3>2. CASE lock' = lock /\ job' = job
      BY <3>1, <3>2 DEF Visit
    <3>3. CASE ~(lock' = lock /\ job' = job)
      <4>1. /\ lock' = [lock EXCEPT !.worker[o] = r] /\ job' = [job EXCEPT ![r] = Finish(o)]
            /\ pc' = pc /\ job[r] = None /\ lock.worker[o] = None
        BY <3>1, <3>3 DEF Visit
      <4>2. pc[o] \in Gone /\ o # r
        BY <3>1 DEF Visit, TodoInv
      <4> QED
        BY <4>1, <4>2, ClaimTaken DEF ClaimInv
    <3> QED
      BY <3>2, <3>3
  <2>4. CASE (\E o \in Ops : Settle(r, o))
    BY <2>4 DEF Settle
  <2> QED
    BY <1>9, <2>1, <2>2, <2>3, <2>4 DEF Reconciling
<1>10. ASSUME NEW p \in Ops, Vending(p) PROVE ClaimInv'
  BY <1>10 DEF Vending, RunRetires, UnitExits, RunDies, StrayEnds
<1>11. ASSUME NEW o \in Ops, JobRelease(o) PROVE ClaimInv'
  <2>1. job[o] # None /\ job' = [job EXCEPT ![o] = None]
    BY <1>11 DEF JobRelease
  <2>2. CASE job[o].op = o
    <3>1. /\ lock' = lock /\ pc' = [pc EXCEPT ![o] = "done"]
          /\ pc[o] \in {"closing", "finish"} /\ job[o].step = "release"
      BY <1>11, <2>2 DEF JobRelease
    <3>2. pc[o] = "finish"
      BY <2>1, <3>1
    <3>3. \A q \in Ops : lock.worker[q] = q => q # o
      BY <3>2
    <3>4. \A q \in Ops : pc'[q] = IF q = o THEN "done" ELSE pc[q]
      BY <3>1
    <3>5. \A u \in Threads : job'[u] = IF u = o THEN None ELSE job[u]
      BY <2>1
    <3> QED
      BY <2>1, <2>2, <3>1, <3>3, <3>4, <3>5
  <2>3. CASE job[o].op # o
    <3> DEFINE p == job[o].op
    <3>1. /\ lock' = [lock EXCEPT !.worker[p] = None] /\ p \in Ops /\ pc[o] = "recover"
          /\ pc' = pc \/ pc' = [pc EXCEPT ![o] = "final"]
      BY <1>11, <2>3 DEF JobRelease
    <3>2. \A q \in Ops : pc'[q] = pc[q] \/ (pc[q] = "recover" /\ pc'[q] = "final")
      BY <3>1
    <3>3. /\ \A q \in Ops : lock'.worker[q] = IF q = p THEN None ELSE lock.worker[q]
          /\ \A u \in Threads : job'[u] = IF u = o THEN None ELSE job[u]
      BY <2>1, <3>1
    <3> QED
      BY <2>1, <2>3, <3>1, <3>2, <3>3
  <2> QED
    BY <2>2, <2>3
<1>12. ASSUME NEW o \in Ops, NEW k \in Kinds, NEW t \in Ops, Request(o, k, t) PROVE ClaimInv'
  BY <1>12 DEF Request
<1>13. ASSUME Publish PROVE ClaimInv'
  BY <1>13 DEF Publish
<1>14. ASSUME Crash PROVE ClaimInv'
  BY <1>14 DEF Crash
<1>15. ASSUME PowerFailure PROVE ClaimInv'
  <2>1. Die(Threads)
    BY <1>15 DEF PowerFailure
  <2>2. \A o \in Ops : lock'.worker[o] = None
    BY <2>1
  <2>3. \A t \in Threads : job'[t] = None
    BY <2>1
  <2> QED
    BY <2>2, <2>3
<1>16. ASSUME GateDies PROVE ClaimInv'
  BY <1>16 DEF GateDies
<1>17. ASSUME StartService PROVE ClaimInv'
  BY <1>17 DEF StartService
<1> QED
  BY <1>1, <1>2, <1>3, <1>4, <1>5, <1>6, <1>7, <1>8, <1>9, <1>10, <1>11, <1>12, <1>13,
     <1>14, <1>15, <1>16, <1>17, StepKinds

\* The claims hold in every state.
LEMMA ClaimInvariance == Spec => [](IInv /\ ClaimInv)
<1>1. Init => ClaimInv
  BY ThreadsDiffer DEF Init, ClaimInv, Threads, Reconcilers
<1>2. ASSUME IInv, ClaimInv, [Next]_vars PROVE ClaimInv'
  <2>1. CASE Next
    BY <1>2, <2>1, ClaimKept DEF IInv
  <2>2. CASE UNCHANGED vars
    BY <1>2, <2>2 DEF vars, ClaimInv
  <2> QED
    BY <1>2, <2>1, <2>2
<1>3. Init /\ [][Next]_vars => [](IInv /\ ClaimInv)
  BY <1>1, <1>2, InitEstablishes, NextPreserves, PTL
<1> QED
  BY <1>3 DEF Spec

\* A worker that starts finds its lock free and its receipt open: the early returns of
\* worker_with_capacity_observed, which Start leaves out, are never taken.
StartsAlone ==
    \A o \in Ops : pc[o] = "start" => lock.worker[o] = None /\ ~Terminal(receipt[o])

\* A worker that has been launched always goes to work: no reconciler and no recovery can
\* have its worker lock or have ended it first (worker_with_capacity_observed beside
\* reconcile_dead_workers_with).
THEOREM WorkersStartAlone == Spec => []StartsAlone
<1>1. ASSUME IInv, ClaimInv, NEW o \in Ops, pc[o] = "start"
      PROVE  lock.worker[o] = None /\ ~Terminal(receipt[o])
  <2>1. ~Terminal(receipt[o])
    BY <1>1 DEF IInv, DeathInv, FinishedIsDead
  <2> QED
    BY <1>1, <2>1 DEF ClaimInv, Gone
<1>2. IInv /\ ClaimInv => StartsAlone
  BY <1>1 DEF StartsAlone
<1> QED
  BY <1>2, ClaimInvariance, PTL

\* No two threads finish the same operation.
OneFinisher ==
    \A s, t \in Threads : job[s] # None /\ job[t] # None /\ job[s].op = job[t].op => s = t

\* An operation is finished by one thread at a time, though its own executor does it
\* without the worker lock and a recovery, a starting service and the package gate may all
\* find it dead (finish_operation, finish_terminated_worker).
THEOREM JobsHaveOneFinisher == Spec => []OneFinisher
<1>1. ASSUME IInv, ClaimInv, NEW s \in Threads, NEW t \in Threads,
             job[s] # None, job[t] # None, job[s].op = job[t].op
      PROVE  s = t
  <2>1. CASE job[s].op # s /\ job[t].op # t
    BY <1>1, <2>1 DEF ClaimInv
  <2>2. job[s] \in Jobs /\ job[t] \in Jobs
    BY <1>1 DEF IInv, Shape, JobTypes
  <2>3. job[s].op \in Ops /\ job[t].op \in Ops
    BY <2>2 DEF Jobs
  <2>4. CASE job[s].op = s /\ job[t].op # t
    <3>1. pc[s] \in {"closing", "finish"} /\ pc[s] \in Gone
      BY <1>1, <2>3, <2>4 DEF IInv, DeathInv, JobInv
    <3> QED
      BY <3>1 DEF Gone
  <2>5. CASE job[s].op # s /\ job[t].op = t
    <3>1. pc[t] \in {"closing", "finish"} /\ pc[t] \in Gone
      BY <1>1, <2>3, <2>5 DEF IInv, DeathInv, JobInv
    <3> QED
      BY <3>1 DEF Gone
  <2> QED
    BY <1>1, <2>1, <2>4, <2>5
<1>2. IInv /\ ClaimInv => OneFinisher
  BY <1>1 DEF OneFinisher
<1> QED
  BY <1>2, ClaimInvariance, PTL

-----------------------------------------------------------------------------
(* Final receipts *)

\* A final receipt is for good.
ReceiptsStay == [][\A o \in Ops : Terminal(receipt[o]) => receipt'[o] = receipt[o]]_vars

\* What the latest pointer shows as over is the final receipt of its operation.
ShownIsOver ==
    latest.op # None /\ Terminal(latest.state) => latest.state = receipt[latest.op]

Receipts == {"none", "unconfirmed", "queued", "owned", "settled", "terminated"}

\* A step writes no receipt or one, possibly followed by the latest pointer.
LEMMA OneWrite ==
    ASSUME TypeOK, Shape, Next
    PROVE  \/ UNCHANGED <<receipt, latest>>
           \/ Publish
           \/ \E u \in Threads, q \in Ops, x \in Receipts, c \in BOOLEAN : Write(u, q, x, c)
<1> USE DEF files, Threads
<1>1. ASSUME NEW o \in Ops, Dispatching(o) \/ Passing(o)
      PROVE  \/ UNCHANGED <<receipt, latest>>
             \/ Write(o, o, "settled", FALSE) \/ Write(o, o, "queued", FALSE)
             \/ Write(o, o, "owned", FALSE)
  BY <1>1 DEF Dispatching, Passing, Admit, AdmitRefused, Queue, Launch, LaunchFails, Start,
              Transfer, Transferred, Release, Final
<1>2. ASSUME NEW o \in Ops, Refusing(o) \/ Reserving(o) \/ Running(o)
      PROVE  UNCHANGED <<receipt, latest>>
  BY <1>2 DEF Refusing, Reserving, Running, ActRefused, AcquireRefused, ReserveRefused,
              TransferRefused, Recovered, Enter, Acquire, Reserve, WriteSpec, LaunchRun,
              LaunchRunFails, RunOver, Closed
<1>3. ASSUME NEW o \in Ops, Checking(o) \/ Recovering(o) \/ JobRelease(o)
      PROVE  UNCHANGED <<receipt, latest>>
  BY <1>3 DEF Checking, Recovering, StopRun, Confirm, ConfirmWrite, Work, Recover,
              RecoverNext, JobRelease
<1>4. ASSUME NEW t \in Threads, Finishing(t)
      PROVE  UNCHANGED <<receipt, latest>> \/ Write(t, job[t].op, "terminated", FALSE)
  BY <1>4 DEF Finishing, JobStop, JobRead, JobWrite, JobRefuse
<1>5. ASSUME NEW r \in Reconcilers, Reconciling(r)
      PROVE  \/ UNCHANGED <<receipt, latest>>
             \/ latest.op \in Ops /\ Write(r, latest.op, "terminated", FALSE)
  BY <1>5 DEF Reconciling, Scan, Look, Repair, Visit, Settle, TypeOK
<1>6. ASSUME NEW o \in Ops, NEW k \in Kinds, NEW t \in Ops, Request(o, k, t)
      PROVE  Write(o, o, "unconfirmed", TRUE)
  BY <1>6 DEF Request
<1>7. ASSUME NEW p \in Ops, Vending(p) PROVE UNCHANGED <<receipt, latest>>
  BY <1>7 DEF Vending, RunRetires, UnitExits, RunDies, StrayEnds
<1>8. ASSUME Crash \/ PowerFailure \/ GateDies PROVE UNCHANGED <<receipt, latest>>
  <2>1. Die(Ops \cup {Startup}) \/ Die(Threads) \/ Die({Gate})
    BY <1>8 DEF Crash, PowerFailure, GateDies
  <2> QED
    BY <2>1 DEF Die
<1>9. ASSUME StartService PROVE UNCHANGED <<receipt, latest>>
  BY <1>9 DEF StartService
<1>10. ASSUME NEW t \in Threads, Finishing(t), ~UNCHANGED <<receipt, latest>>
       PROVE  job[t].op \in Ops
  BY <1>10 DEF Finishing, JobStop, JobRead, JobWrite, JobRefuse, Working, Shape, JobTypes, Jobs
<1>11. ASSUME NEW t \in Threads, NEW o \in Ops, NEW s \in Receipts, NEW b \in BOOLEAN,
              Write(t, o, s, b)
       PROVE  \E u \in Threads, q \in Ops, x \in Receipts, c \in BOOLEAN : Write(u, q, x, c)
  BY <1>11
<1>12. /\ "settled" \in Receipts /\ "queued" \in Receipts /\ "owned" \in Receipts
       /\ "terminated" \in Receipts /\ "unconfirmed" \in Receipts
       /\ TRUE \in BOOLEAN /\ FALSE \in BOOLEAN
  BY DEF Receipts
<1> DEFINE Written ==
        \E u \in Threads, q \in Ops, x \in Receipts, c \in BOOLEAN : Write(u, q, x, c)
<1>13. ASSUME NEW o \in Ops, \/ Write(o, o, "settled", FALSE) \/ Write(o, o, "queued", FALSE)
                             \/ Write(o, o, "owned", FALSE) \/ Write(o, o, "unconfirmed", TRUE)
       PROVE  Written
  BY <1>11, <1>12, <1>13
<1>14. ASSUME NEW t \in Threads, NEW o \in Ops, Write(t, o, "terminated", FALSE)
       PROVE  Written
  BY <1>11, <1>12, <1>14
<1>15. ASSUME NEW r \in Reconcilers, Reconciling(r)
       PROVE  UNCHANGED <<receipt, latest>> \/ Written
  BY <1>5, <1>14, <1>15
<1>16. ASSUME NEW t \in Threads, Finishing(t)
       PROVE  UNCHANGED <<receipt, latest>> \/ Written
  BY <1>4, <1>10, <1>14, <1>16
<1>17. ASSUME NEW o \in Ops, Dispatching(o) \/ Passing(o)
       PROVE  UNCHANGED <<receipt, latest>> \/ Written
  BY <1>1, <1>13, <1>17
<1>18. ASSUME NEW o \in Ops, NEW k \in Kinds, NEW t \in Ops, Request(o, k, t) PROVE Written
  BY <1>6, <1>13, <1>18
<1> HIDE DEF Written
<1>19. UNCHANGED <<receipt, latest>> \/ Publish \/ Written
  BY <1>2, <1>3, <1>7, <1>8, <1>9, <1>15, <1>16, <1>17, <1>18, StepKinds
<1> QED
  BY <1>19 DEF Written

\* A write leaves a final receipt alone, and what latest shows as over is final.
LEMMA WriteEffect ==
    ASSUME receipt \in [Ops -> Receipts], NEW t, NEW o \in Ops, NEW s \in Receipts,
           NEW b \in BOOLEAN, Write(t, o, s, b)
    PROVE  /\ \A p \in Ops : Terminal(receipt[p]) => receipt'[p] = receipt[p]
           /\ latest.op \in Ops \cup {None} /\ ShownIsOver => ShownIsOver'
<1>1. CASE Terminal(receipt[o])
  BY <1>1, ThreadsDiffer DEF Write, ShownIsOver
<1>2. CASE ~Terminal(receipt[o])
  <2>1. /\ receipt' = [receipt EXCEPT ![o] = s] /\ latest' = latest
    BY <1>2 DEF Write
  <2>2. \A p \in Ops : p # o => receipt'[p] = receipt[p]
    BY <2>1
  <2>3. \A p \in Ops : Terminal(receipt[p]) => receipt'[p] = receipt[p]
    BY <1>2, <2>2
  <2>4. latest.op \in Ops \cup {None} /\ ShownIsOver => ShownIsOver'
    BY <2>1, <2>3 DEF ShownIsOver
  <2> QED
    BY <2>3, <2>4
<1> QED
  BY <1>1, <1>2

\* Final receipts stay over a step, and so does what latest shows of them.
LEMMA StepEffect ==
    ASSUME IInv, Next
    PROVE  /\ \A o \in Ops : Terminal(receipt[o]) => receipt'[o] = receipt[o]
           /\ ShownIsOver => ShownIsOver'
<1>1. receipt \in [Ops -> Receipts] /\ latest.op \in Ops \cup {None} /\ TypeOK /\ Shape
  BY DEF IInv, TypeOK, Receipts
<1>2. CASE UNCHANGED <<receipt, latest>>
  BY <1>2 DEF ShownIsOver
<1>3. CASE Publish
  BY <1>3 DEF Publish, ShownIsOver
<1>4. CASE \E u \in Threads, q \in Ops, x \in Receipts, c \in BOOLEAN : Write(u, q, x, c)
  <2>1. PICK u \in Threads, q \in Ops, x \in Receipts, c \in BOOLEAN : Write(u, q, x, c)
    BY <1>4
  <2> QED
    BY <1>1, <2>1, WriteEffect
<1> QED
  BY <1>1, <1>2, <1>3, <1>4, OneWrite

\* An operation that was reported as over keeps the report it got: no worker, no
\* reconciler and no restart writes another one (write_operation).
THEOREM ReportsAreFinal == Spec => ReceiptsStay
<1>1. IInv /\ [Next]_vars =>
          [\A o \in Ops : Terminal(receipt[o]) => receipt'[o] = receipt[o]]_vars
  BY StepEffect
<1> QED
  BY <1>1, Invariance, PTL DEF Spec, ReceiptsStay

\* The window is never shown an operation as over whose own receipt says otherwise,
\* though the pointer is a second write that a death may cut off.
THEOREM ShownIsReported == Spec => []ShownIsOver
<1>1. Init => ShownIsOver
  BY DEF Init, ShownIsOver
<1>2. ASSUME IInv, ShownIsOver, [Next]_vars PROVE ShownIsOver'
  <2>1. CASE Next
    BY <1>2, <2>1, StepEffect
  <2>2. CASE UNCHANGED vars
    BY <1>2, <2>2 DEF vars, ShownIsOver
  <2> QED
    BY <1>2, <2>1, <2>2
<1> QED
  BY <1>1, <1>2, Invariance, PTL DEF Spec

=============================================================================
