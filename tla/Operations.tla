----------------------------- MODULE Operations -----------------------------
(***************************************************************************)
(* The jobs that the window asks of the service, and the setup they work   *)
(* in: the durable receipt of a request, the thread that executes it, the  *)
(* reservation of the setup, the vendor's installer or uninstaller in a    *)
(* systemd unit of its own, and what finishes all of this after a death.   *)
(*                                                                         *)
(* Source: crates/service/src/owner/operator_cli.rs and, under             *)
(* operator_cli/, executor.rs, maintenance.rs, environment_install.rs and  *)
(* uninstall.rs.  There is one setup.  Receipt states that the code treats *)
(* alike are one value: waiting, running and vendor_running are "owned",   *)
(* completed and a refusal by the job itself are "settled", a refusal with *)
(* operator_worker_terminated is "terminated".                             *)
(***************************************************************************)
EXTENDS Naturals, FiniteSets

CONSTANTS
    MaxOps,     \* bound: requests
    MaxFaults,  \* bound: deaths and runs whose end nobody recorded
    Kinds,      \* the actions the window may ask for
    Startup,    \* the thread of a starting service that finishes dead work
    Gate,       \* the package manager's process that does the same
    None

ASSUME OperationsConstants ==
    /\ MaxOps \in Nat /\ MaxFaults \in Nat
    /\ Kinds \subseteq {"install", "uninstall", "scan", "stop", "close", "recover"}
    /\ Startup \notin 1 .. MaxOps /\ Gate \notin 1 .. MaxOps /\ Startup # Gate
    /\ None \notin (1 .. MaxOps) \cup {Startup, Gate}

VARIABLES
    up,        \* the service runs
    pc,        \* where the thread of each operation is
    kind, target, \* request.json: the action, and the run it is about
    receipt,   \* result.json of each operation
    latest,    \* latest.json
    writer,    \* who is between result.json and latest.json (receipt lock)
    executor,  \* service-executor.json: active, retired, or of a dead process
    held,      \* maintenance.json: none, held, released
    run,       \* the vendor's run of an operation: its files and its unit
    lock,      \* dispatch, canonical, environment and worker locks
    job,       \* the operation that a thread is finishing, and how far it is
    todo,      \* what a thread has still to visit of the list it read
    phase,     \* how far each reconciler is
    faults,    \* faults left
    lapse      \* what no later step repairs: see JobWrite and Scan

vars == <<up, pc, kind, target, receipt, latest, writer, executor, held, run, lock, job, todo,
          phase, faults, lapse>>

Ops == 1 .. MaxOps
Reconcilers == {Startup, Gate}
Threads == Ops \cup Reconcilers

files == <<receipt, latest, writer>>
request == <<kind, target>>
rest == <<up, phase, faults, lapse>>

NoRun == [recorded |-> FALSE, spec |-> FALSE, retired |-> FALSE, alive |-> FALSE,
          stray |-> FALSE, due |-> FALSE]

Runs == [recorded : BOOLEAN, spec : BOOLEAN, retired : BOOLEAN, alive : BOOLEAN,
         stray : BOOLEAN, due : BOOLEAN]

Terminal(s) == s \in {"settled", "terminated"}

(* all_retired: every recorded run of the setup is shown closed. *)
AllRetired == \A o \in Ops : run[o].recorded => run[o].retired

(* executor::live.  An operation without a record is an old unit, and none  *)
(* of that name exists.                                                     *)
LiveWorker(o) == executor[o] = "active"

-----------------------------------------------------------------------------
(* write_operation.  A terminal receipt stays; the latest pointer follows   *)
(* the receipt in a second write under the same lock.                       *)
Write(t, o, s, makeLatest) ==
    /\ writer = None
    /\ IF Terminal(receipt[o])
       THEN /\ latest' = IF latest.op = o THEN [op |-> o, state |-> receipt[o]] ELSE latest
            /\ UNCHANGED <<receipt, writer>>
       ELSE /\ receipt' = [receipt EXCEPT ![o] = s]
            /\ writer' = IF makeLatest \/ latest.op = o THEN [thread |-> t, op |-> o] ELSE None
            /\ UNCHANGED latest

Publish ==
    /\ writer # None
    /\ latest' = [op |-> writer.op, state |-> receipt[writer.op]]
    /\ writer' = None
    /\ UNCHANGED <<pc, request, receipt, executor, held, run, lock, job, todo, rest>>

(* A thread goes on when its process lives and it is not inside a write. *)
Ready(t) ==
    /\ t \in Ops \cup {Startup} => up
    /\ writer # None => writer.thread # t

(* The work of a thread that finishes operation o. *)
Finish(o) == [op |-> o, step |-> "read", confirmed |-> FALSE]

At(o, where) == pc[o] = where /\ Ready(o)
Goto(o, where) == pc' = [pc EXCEPT ![o] = where]

-----------------------------------------------------------------------------
(* The handler of a request: begin_request, dispatch, launch_reserved.      *)

(* What the current view offers: validate_current_request. *)
Offered(o) ==
    LET r == run[target[o]] IN
    CASE kind[o] = "stop" -> r.recorded /\ r.alive
      [] kind[o] = "close" -> r.recorded /\ ~r.alive /\ (r.retired => r.due)
      [] kind[o] = "recover" -> TRUE
      [] OTHER -> AllRetired /\ \A p \in Ops : held[p] # "held"

Request(o, k, t) ==
    /\ up /\ pc[o] = "idle" /\ \A p \in 1 .. o - 1 : pc[p] # "idle"
    /\ IF k \in {"stop", "close"} THEN run[t].recorded ELSE t = o
    /\ kind' = [kind EXCEPT ![o] = k]
    /\ target' = [target EXCEPT ![o] = t]
    /\ Write(o, o, "unconfirmed", TRUE)
    /\ Goto(o, "dispatch")
    /\ UNCHANGED <<executor, held, run, lock, job, todo, rest>>

(* The dispatch lock is free and the offer stands: admit. *)
Admit(o) ==
    /\ At(o, "dispatch") /\ lock.dispatch = None /\ Offered(o)
    /\ lock' = [lock EXCEPT !.dispatch = o]
    /\ Goto(o, "queue")
    /\ UNCHANGED <<request, files, executor, held, run, job, todo, rest>>

(* A busy lock, a stale view or a changed program: dispatch_recorded writes *)
(* the refusal.  No worker exists.                                          *)
AdmitRefused(o) ==
    /\ At(o, "dispatch")
    /\ Write(o, o, "settled", FALSE)
    /\ Goto(o, "done")
    /\ UNCHANGED <<request, executor, held, run, lock, job, todo, rest>>

Queue(o) ==
    /\ At(o, "queue")
    /\ Write(o, o, "queued", FALSE)
    /\ Goto(o, "launch")
    /\ UNCHANGED <<request, executor, held, run, lock, job, todo, rest>>

(* executor::launch: the owner's identity first, then the thread. *)
Launch(o) ==
    /\ At(o, "launch")
    /\ executor' = [executor EXCEPT ![o] = "active"]
    /\ lock' = [lock EXCEPT !.dispatch = None]
    /\ Goto(o, "start")
    /\ UNCHANGED <<request, files, held, run, job, todo, rest>>

LaunchFails(o) ==
    /\ At(o, "launch")
    /\ Write(o, o, "settled", FALSE)
    /\ executor' \in {executor, [executor EXCEPT ![o] = "retired"]}
    /\ lock' = [lock EXCEPT !.dispatch = None]
    /\ Goto(o, "done")
    /\ UNCHANGED <<request, held, run, job, todo, rest>>

-----------------------------------------------------------------------------
(* The worker of an operation: worker_with_capacity_observed.               *)

(* A worker returns at once when another thread has its operation or has  *)
(* ended it; WorkersStartAlone proves that this does not happen.           *)
Start(o) ==
    /\ At(o, "start") /\ lock.worker[o] = None /\ ~Terminal(receipt[o])
    /\ Write(o, o, "owned", FALSE)
    /\ lock' = [lock EXCEPT !.worker[o] = o]
    /\ Goto(o, "act")
    /\ UNCHANGED <<request, executor, held, run, job, todo, rest>>

(* The accepted facts changed, or a bounded wait for a lock ended. *)
ActRefused(o) ==
    /\ At(o, "act")
    /\ Goto(o, "final")
    /\ UNCHANGED <<request, files, executor, held, run, lock, job, todo, rest>>

(* The canonical lock, then the environment's: action_lock. *)
Enter(o) ==
    /\ At(o, "act") /\ kind[o] \in {"install", "uninstall", "scan", "close"}
    /\ lock.canonical = None /\ lock.environment = None
    /\ lock' = [lock EXCEPT !.environment = o,
                            !.canonical = IF kind[o] = "uninstall" THEN None ELSE o]
    /\ Goto(o, IF kind[o] = "close" THEN "confirm" ELSE "acquire")
    /\ UNCHANGED <<request, files, executor, held, run, job, todo, rest>>

Unclaimed(o) == AllRetired /\ \A p \in Ops \ {o} : held[p] # "held"

(* maintenance::acquire, under registry.lock. *)
Acquire(o) ==
    /\ At(o, "acquire") /\ Unclaimed(o)
    /\ held' = [held EXCEPT ![o] = "held"]
    /\ Goto(o, IF kind[o] \in {"install", "uninstall"} THEN "reserve" ELSE "work")
    /\ UNCHANGED <<request, files, executor, run, lock, job, todo, rest>>

AcquireRefused(o) ==
    /\ At(o, "acquire")
    /\ Goto(o, "final")
    /\ UNCHANGED <<request, files, executor, held, run, lock, job, todo, rest>>

(* environment_install::reserve, uninstall::reserve: the open result, then  *)
(* the record that makes it count.                                          *)
Reservable(o) ==
    /\ AllRetired /\ \A p \in Ops : ~run[p].alive
    /\ kind[o] = "uninstall" => \A p \in Ops : ~run[p].due

Reserve(o) ==
    /\ At(o, "reserve") /\ Reservable(o)
    /\ run' = [run EXCEPT ![o].recorded = TRUE, ![o].due = (kind[o] = "uninstall")]
    /\ Goto(o, "spec")
    /\ UNCHANGED <<request, files, executor, held, lock, job, todo, rest>>

(* A refused uninstall releases at once, a refused installer when the       *)
(* executor finishes it.                                                    *)
ReserveRefused(o) ==
    /\ At(o, "reserve")
    /\ Goto(o, IF kind[o] = "uninstall" THEN "release" ELSE "final")
    /\ UNCHANGED <<request, files, executor, held, run, lock, job, todo, rest>>

WriteSpec(o) ==
    /\ At(o, "spec")
    /\ run' = [run EXCEPT ![o].spec = TRUE]
    /\ Goto(o, "run")
    /\ UNCHANGED <<request, files, executor, held, lock, job, todo, rest>>

(* launch_spec: systemd starts the unit.  The canonical lock ends here. *)
LaunchRun(o) ==
    /\ At(o, "run")
    /\ run' = [run EXCEPT ![o].alive = TRUE]
    /\ lock' = [lock EXCEPT !.canonical = IF @ = o THEN None ELSE @]
    /\ Goto(o, "wait")
    /\ UNCHANGED <<request, files, executor, held, job, todo, rest>>

(* systemd refuses: without a unit the run is recorded as failed.  Either   *)
(* way the action finishes the run (see JobRead) before it goes on.         *)
LaunchRunFails(o) ==
    /\ At(o, "run")
    /\ run' \in {[run EXCEPT ![o].retired = TRUE], [run EXCEPT ![o].alive = TRUE]}
    /\ lock' = [lock EXCEPT !.canonical = IF @ = o THEN None ELSE @]
    /\ job' = [job EXCEPT ![o] = Finish(o)]
    /\ Goto(o, "closing")
    /\ UNCHANGED <<request, files, executor, held, todo, rest>>

AfterRun(o) ==
    IF ~run[o].retired THEN "final" ELSE IF kind[o] = "uninstall" THEN "work" ELSE "release"

(* The unit is gone.  An uninstaller that did not record its end is         *)
(* finished here, an installer with the operation.                          *)
RunOver(o) ==
    /\ At(o, "wait") /\ ~run[o].alive
    /\ IF kind[o] = "uninstall" /\ ~run[o].retired
       THEN job' = [job EXCEPT ![o] = Finish(o)] /\ Goto(o, "closing")
       ELSE UNCHANGED job /\ Goto(o, AfterRun(o))
    /\ UNCHANGED <<request, files, executor, held, run, lock, todo, rest>>

Closed(o) ==
    /\ At(o, "closing") /\ job[o] # None /\ job[o].step = "refuse"
    /\ job' = [job EXCEPT ![o] = None]
    /\ Goto(o, AfterRun(o))
    /\ UNCHANGED <<request, files, executor, held, run, lock, todo, rest>>

(* Work in the reserved setup: a scan, or the checks that an uninstaller    *)
(* run still owes (uninstall::complete), which may stay due.                *)
Work(o) ==
    /\ At(o, "work")
    /\ \/ UNCHANGED run
       \/ run' = [run EXCEPT ![target[o]].due = FALSE]
    /\ Goto(o, "release")
    /\ UNCHANGED <<request, files, executor, held, lock, job, todo, rest>>

(* maintenance::release of what the action names: the reservation of the    *)
(* stopped or closed run, otherwise its own.                                *)
Names(o) == IF kind[o] = "stop" \/ (kind[o] = "close" /\ held[o] = "none") THEN target[o] ELSE o

\* Mutant of Released: the record of the run is not asked.
ReleasedUnchecked(o) == IF held[o] = "held" THEN [held EXCEPT ![o] = "released"] ELSE held

Released(o) == IF held[o] = "held" /\ AllRetired THEN [held EXCEPT ![o] = "released"] ELSE held

Release(o) ==
    /\ At(o, "release")
    /\ held' = Released(Names(o))
    /\ Goto(o, "final")
    /\ UNCHANGED <<request, files, executor, run, lock, job, todo, rest>>

(* The last receipt.  The action has returned and dropped its locks, and    *)
(* the executor goes on to finish the operation.                            *)
Final(o) ==
    /\ At(o, "final")
    /\ Write(o, o, "settled", FALSE)
    /\ lock' = [lock EXCEPT !.canonical = IF @ = o THEN None ELSE @,
                            !.environment = IF @ = o THEN None ELSE @, !.worker[o] = None]
    /\ job' = [job EXCEPT ![o] = Finish(o)]
    /\ Goto(o, "finish")
    /\ UNCHANGED <<request, executor, held, run, todo, rest>>

-----------------------------------------------------------------------------
(* EnvironmentInstallerStop, InstallerCloseCheck and TransactionReconcile.  *)

(* How a unit may end that systemd stops: its supervisor records the end,   *)
(* or does not, which is a fault.                                           *)
Stopped(p) ==
    \/ /\ run' = [run EXCEPT ![p].alive = FALSE, ![p].retired = TRUE]
       /\ UNCHANGED faults
    \/ /\ ~run[p].retired /\ faults > 0
       /\ faults' = faults - 1
       /\ \E stray \in BOOLEAN : run' = [run EXCEPT ![p].alive = FALSE, ![p].stray = stray]

(* systemctl refuses a unit that is gone.  The reservation of an            *)
(* uninstaller stays until its setup is checked.                            *)
StopRun(o) ==
    /\ At(o, "act") /\ kind[o] = "stop" /\ lock.canonical = None
    /\ run[target[o]].alive
    /\ Stopped(target[o])
    /\ lock' = [lock EXCEPT !.canonical = o]
    /\ Goto(o, IF run'[target[o]].retired /\ kind[target[o]] = "install" THEN "release" ELSE "final")
    /\ UNCHANGED <<request, files, executor, held, job, todo, up, phase, lapse>>

(* A closed run: a setup that is due a check is transferred without the     *)
(* canonical lock, otherwise the run's reservation ends.                    *)
GoOn(o) ==
    IF run[target[o]].due
    THEN lock' = [lock EXCEPT !.canonical = None] /\ Goto(o, "transfer")
    ELSE UNCHANGED lock /\ Goto(o, "release")

(* confirm_closed, up to its census of the setup's programs ... *)
Confirm(o) ==
    /\ At(o, "confirm")
    /\ LET r == run[target[o]] IN
       IF r.retired THEN GoOn(o)
       ELSE UNCHANGED lock /\ Goto(o, IF r.alive \/ r.stray THEN "final" ELSE "census")
    /\ UNCHANGED <<request, files, executor, held, run, job, todo, rest>>

(* ... and the record. *)
ConfirmWrite(o) ==
    /\ At(o, "census")
    /\ run' = [run EXCEPT ![target[o]].retired = TRUE]
    /\ GoOn(o)
    /\ UNCHANGED <<request, files, executor, held, job, todo, rest>>

(* take_pause: the run's reservation passes to this operation in two        *)
(* writes, or it acquires its own.                                          *)
Transfer(o) ==
    /\ At(o, "transfer")
    /\ IF held[target[o]] = "none" THEN Unclaimed(o)
       ELSE \A p \in Ops \ {target[o]} : held[p] # "held"
    /\ held' = [held EXCEPT ![o] = "held"]
    /\ Goto(o, IF held[target[o]] = "none" THEN "work" ELSE "transferred")
    /\ UNCHANGED <<request, files, executor, run, lock, job, todo, rest>>

TransferRefused(o) ==
    /\ At(o, "transfer")
    /\ Goto(o, "final")
    /\ UNCHANGED <<request, files, executor, held, run, lock, job, todo, rest>>

Transferred(o) ==
    /\ At(o, "transferred")
    /\ held' = [held EXCEPT ![target[o]] = "released"]
    /\ Goto(o, "work")
    /\ UNCHANGED <<request, files, executor, run, lock, job, todo, rest>>

(* registry_admission, then the list of resume_interrupted. *)
Recover(o) ==
    /\ At(o, "act") /\ kind[o] = "recover" /\ lock.canonical = None
    /\ AllRetired
    /\ lock' = [lock EXCEPT !.canonical = o]
    /\ todo' = [todo EXCEPT ![o] = {p \in Ops : held[p] = "held"}]
    /\ Goto(o, "recover")
    /\ UNCHANGED <<request, files, executor, held, run, job, rest>>

RecoverNext(o, p) ==
    /\ At(o, "recover") /\ job[o] = None /\ p \in todo[o]
    /\ IF LiveWorker(p) \/ lock.worker[p] # None
       THEN /\ todo' = [todo EXCEPT ![o] = {}]
            /\ Goto(o, "final")
            /\ UNCHANGED <<lock, job>>
       ELSE /\ lock' = [lock EXCEPT !.worker[p] = o]
            /\ job' = [job EXCEPT ![o] = Finish(p)]
            /\ UNCHANGED <<todo, pc>>
    /\ UNCHANGED <<request, files, executor, held, run, rest>>

Recovered(o) ==
    /\ At(o, "recover") /\ job[o] = None /\ todo[o] = {}
    /\ Goto(o, "final")
    /\ UNCHANGED <<request, files, executor, held, run, lock, job, todo, rest>>

-----------------------------------------------------------------------------
(* finish_operation by the executor itself (since Final, where the worker   *)
(* lock is free again) and by Recover, finish_terminated_worker by a        *)
(* reconciler.                                                              *)

Working(t, step) == Ready(t) /\ job[t] # None /\ job[t].step = step

(* finish_with: a live unit is stopped first; an open record is closed when *)
(* no specification was ever written, and otherwise marked unconfirmed.     *)
JobStop(t) ==
    /\ Working(t, "read") /\ run[job[t].op].alive
    /\ Stopped(job[t].op)
    /\ UNCHANGED <<pc, request, files, executor, held, lock, job, todo, up, phase, lapse>>

JobRead(t) ==
    /\ Working(t, "read")
    /\ LET r == run[job[t].op] IN
       /\ ~r.alive
       /\ job' = [job EXCEPT ![t].step = IF r.recorded /\ ~r.retired THEN "write" ELSE "refuse",
                             ![t].confirmed = ~r.spec]
    /\ UNCHANGED <<pc, request, files, executor, held, run, lock, todo, rest>>

(* The record is written back without onboarding.lock: a confirmation that  *)
(* came in between is lost.                                                 *)
JobWrite(t) ==
    /\ Working(t, "write")
    /\ LET p == job[t].op IN
       /\ run' = [run EXCEPT ![p].retired = job[t].confirmed]
       /\ lapse' = IF run[p].retired /\ ~run'[p].retired THEN lapse \cup {"reopened"} ELSE lapse
    /\ job' = [job EXCEPT ![t].step = "refuse"]
    /\ UNCHANGED <<pc, request, files, executor, held, lock, todo, up, phase, faults>>

(* refuse_unfinished.  A reconciler is then through with the operation. *)
JobRefuse(t) ==
    /\ Working(t, "refuse") /\ (t \in Ops => pc[t] # "closing")
    /\ LET p == job[t].op IN
       /\ Write(t, p, "terminated", FALSE)
       /\ IF t \in Reconcilers
          THEN /\ job' = [job EXCEPT ![t] = None]
               /\ todo' = [todo EXCEPT ![t] = @ \ {p}]
               /\ lock' = [lock EXCEPT !.worker[p] = None]
          ELSE /\ job' = [job EXCEPT ![t].step = "release"]
               /\ UNCHANGED <<todo, lock>>
    /\ UNCHANGED <<pc, request, executor, held, run, rest>>

(* maintenance::release.  A release that the setup does not allow ends      *)
(* Recover.                                                                 *)
JobRelease(o) ==
    /\ Working(o, "release")
    /\ LET p == job[o].op IN
       /\ held' = Released(p)
       /\ job' = [job EXCEPT ![o] = None]
       /\ IF p = o
          THEN /\ executor' = [executor EXCEPT ![o] = "retired"]
               /\ Goto(o, "done")
               /\ UNCHANGED <<todo, lock>>
          ELSE /\ lock' = [lock EXCEPT !.worker[p] = None]
               /\ todo' = [todo EXCEPT ![o] = IF held'[p] = "held" THEN {} ELSE @ \ {p}]
               /\ pc' = IF held'[p] = "held" THEN [pc EXCEPT ![o] = "final"] ELSE pc
               /\ UNCHANGED executor
    /\ UNCHANGED <<request, files, run, rest>>

-----------------------------------------------------------------------------
(* reconcile_dead_workers of a starting service, settle_dead_workers of the *)
(* package gate.                                                            *)

(* Bound: the package manager runs when there is something to see. *)
Unattended(o) ==
    ~LiveWorker(o) /\ (pc[o] = "dead" \/ receipt[o] = "queued" \/ held[o] = "held")

Look(r, dead) ==
    /\ Ready(r) /\ phase[r] = "idle"
    /\ r = Gate => \E o \in Ops : Unattended(o)
    /\ todo' = [todo EXCEPT ![r] = dead]
    /\ phase' = [phase EXCEPT ![r] = "finish"]
    /\ UNCHANGED <<up, pc, request, files, executor, held, run, lock, job, faults>>

\* Mutant of Scan: dispatch is not excluded.
ScanBesideDispatch(r) ==
    /\ Look(r, {o \in Ops : ~LiveWorker(o) /\ receipt[o] \in {"queued", "owned"}})
    /\ UNCHANGED lapse

\* Mutant of Scan: a queued operation is left alone.
ScanOwnedOnly(r) ==
    /\ Look(r, {o \in Ops : ~LiveWorker(o) /\ receipt[o] = "owned"})
    /\ UNCHANGED lapse

(* The scan holds the dispatch lock.  When that stays busy, a queued        *)
(* operation is not looked at; only the next scan can see it again.         *)
Scan(r) ==
    LET dead == {o \in Ops : ~LiveWorker(o) /\ receipt[o] \in {"queued", "owned"}}
        skip == {o \in dead : receipt[o] = "queued" /\ lock.dispatch # None} IN
    /\ Look(r, dead \ skip)
    /\ lapse' = IF \E o \in skip : pc[o] = "dead" THEN lapse \cup {"missed"} ELSE lapse

(* Receipt and worker are read again under the worker lock. *)
Visit(r, o) ==
    /\ Ready(r) /\ phase[r] = "finish" /\ job[r] = None /\ o \in todo[r]
    /\ IF lock.worker[o] = None /\ receipt[o] \in {"queued", "owned"} /\ ~LiveWorker(o)
       THEN /\ lock' = [lock EXCEPT !.worker[o] = r]
            /\ job' = [job EXCEPT ![r] = Finish(o)]
            /\ UNCHANGED todo
       ELSE /\ todo' = [todo EXCEPT ![r] = @ \ {o}]
            /\ UNCHANGED <<lock, job>>
    /\ UNCHANGED <<pc, request, files, executor, held, run, rest>>

(* A service looks once when it starts, the package manager whenever it     *)
(* runs.                                                                    *)
Over(r) == IF r = Startup THEN "done" ELSE "idle"

(* A terminal receipt behind an older latest pointer is published again. *)
Repair(r) ==
    /\ Ready(r) /\ phase[r] = "finish" /\ job[r] = None /\ todo[r] = {}
    /\ IF latest.op # None /\ ~Terminal(latest.state) /\ Terminal(receipt[latest.op])
       THEN Write(r, latest.op, "terminated", FALSE)
       ELSE UNCHANGED files
    /\ todo' = [todo EXCEPT ![r] = {o \in Ops : held[o] = "held"}]
    /\ phase' = [phase EXCEPT ![r] = IF todo'[r] = {} THEN Over(r) ELSE "settle"]
    /\ UNCHANGED <<up, pc, request, executor, held, run, lock, job, faults, lapse>>

(* maintenance::reconcile. *)
Settle(r, o) ==
    /\ Ready(r) /\ phase[r] = "settle" /\ o \in todo[r]
    /\ held' = IF ~LiveWorker(o) /\ lock.worker[o] = None /\ Terminal(receipt[o])
               THEN Released(o) ELSE held
    /\ todo' = [todo EXCEPT ![r] = @ \ {o}]
    /\ phase' = [phase EXCEPT ![r] = IF todo'[r] = {} THEN Over(r) ELSE "settle"]
    /\ UNCHANGED <<up, pc, request, files, executor, run, lock, job, faults, lapse>>

-----------------------------------------------------------------------------
(* The vendor's run, in its own unit with its supervisor.                   *)

RunRetires(p) ==
    /\ run[p].alive /\ ~run[p].retired
    /\ run' = [run EXCEPT ![p].retired = TRUE]
    /\ UNCHANGED <<pc, request, files, executor, held, lock, job, todo, rest>>

UnitExits(p) ==
    /\ run[p].alive /\ run[p].retired
    /\ run' = [run EXCEPT ![p].alive = FALSE]
    /\ UNCHANGED <<pc, request, files, executor, held, lock, job, todo, rest>>

(* The supervisor dies before its last record; a program may stay. *)
RunDies(p) ==
    /\ run[p].alive /\ ~run[p].retired /\ faults > 0
    /\ faults' = faults - 1
    /\ \E stray \in BOOLEAN : run' = [run EXCEPT ![p].alive = FALSE, ![p].stray = stray]
    /\ UNCHANGED <<pc, request, files, executor, held, lock, job, todo, up, phase, lapse>>

StrayEnds(p) ==
    /\ run[p].stray
    /\ run' = [run EXCEPT ![p].stray = FALSE]
    /\ UNCHANGED <<pc, request, files, executor, held, lock, job, todo, rest>>

-----------------------------------------------------------------------------
(* Deaths.  The kernel drops the locks; the files and the units stay.       *)

Free(l, gone) == IF l \in gone THEN None ELSE l

Die(gone) ==
    /\ faults > 0 /\ faults' = faults - 1
    /\ pc' = [o \in Ops |-> IF o \notin gone \/ pc[o] \in {"idle", "done"} THEN pc[o] ELSE "dead"]
    /\ executor' = [o \in Ops |-> IF o \in gone /\ executor[o] = "active" THEN "stale" ELSE executor[o]]
    /\ writer' = IF writer # None /\ writer.thread \in gone THEN None ELSE writer
    /\ lock' = [dispatch |-> Free(lock.dispatch, gone), canonical |-> Free(lock.canonical, gone),
                environment |-> Free(lock.environment, gone),
                worker |-> [o \in Ops |-> Free(lock.worker[o], gone)]]
    /\ job' = [t \in Threads |-> IF t \in gone THEN None ELSE job[t]]
    /\ todo' = [t \in Threads |-> IF t \in gone THEN {} ELSE todo[t]]
    /\ UNCHANGED <<request, receipt, latest, held>>

(* The service dies; systemd may have started a unit that it was asking for. *)
Crash ==
    /\ up /\ up' = FALSE
    /\ Die(Ops \cup {Startup})
    /\ phase' = [phase EXCEPT ![Startup] = "idle"]
    /\ UNCHANGED lapse
    /\ \/ UNCHANGED run
       \/ \E o \in Ops : pc[o] = "run" /\ run' = [run EXCEPT ![o].alive = TRUE]

PowerFailure ==
    /\ up' = FALSE
    /\ Die(Threads)
    /\ phase' = [r \in Reconcilers |-> "idle"]
    /\ UNCHANGED lapse
    /\ run' = [o \in Ops |-> [run[o] EXCEPT !.alive = FALSE, !.stray = FALSE]]

(* What it was finishing waits for the next start. *)
GateDies ==
    /\ phase[Gate] # "idle"
    /\ Die({Gate})
    /\ phase' = [phase EXCEPT ![Gate] = "idle"]
    /\ lapse' = lapse \cup {"gate"}
    /\ UNCHANGED <<up, run>>

StartService ==
    /\ ~up /\ up' = TRUE
    /\ UNCHANGED <<pc, request, files, executor, held, run, lock, job, todo, phase, faults, lapse>>

-----------------------------------------------------------------------------
Init ==
    /\ up = TRUE
    /\ pc = [o \in Ops |-> "idle"]
    /\ kind = [o \in Ops |-> None] /\ target = [o \in Ops |-> o]
    /\ receipt = [o \in Ops |-> "none"]
    /\ latest = [op |-> None, state |-> "none"]
    /\ writer = None
    /\ executor = [o \in Ops |-> "none"]
    /\ held = [o \in Ops |-> "none"]
    /\ run = [o \in Ops |-> NoRun]
    /\ lock = [dispatch |-> None, canonical |-> None, environment |-> None,
               worker |-> [o \in Ops |-> None]]
    /\ job = [t \in Threads |-> None]
    /\ todo = [t \in Threads |-> {}]
    /\ phase = [r \in Reconcilers |-> Over(r)]
    /\ faults = MaxFaults
    /\ lapse = {}

(* What a thread of the service does of its own accord. *)
Proceed(o) ==
    \/ Admit(o) \/ AdmitRefused(o) \/ Queue(o) \/ Launch(o) \/ LaunchFails(o)
    \/ Start(o) \/ ActRefused(o) \/ Enter(o) \/ Acquire(o) \/ AcquireRefused(o)
    \/ Reserve(o) \/ ReserveRefused(o) \/ WriteSpec(o) \/ LaunchRun(o) \/ LaunchRunFails(o)
    \/ RunOver(o) \/ Closed(o) \/ Work(o) \/ Release(o) \/ Final(o)
    \/ StopRun(o) \/ Confirm(o) \/ ConfirmWrite(o)
    \/ Transfer(o) \/ TransferRefused(o) \/ Transferred(o)
    \/ Recover(o) \/ Recovered(o) \/ \E p \in Ops : RecoverNext(o, p)
    \/ JobStop(o) \/ JobRead(o) \/ JobWrite(o) \/ JobRefuse(o) \/ JobRelease(o)

Reconcile(r) ==
    \/ Scan(r) \/ Repair(r)
    \/ \E o \in Ops : Visit(r, o) \/ Settle(r, o)
    \/ JobStop(r) \/ JobRead(r) \/ JobWrite(r) \/ JobRefuse(r)

Vendor == \E p \in Ops : RunRetires(p) \/ UnitExits(p) \/ RunDies(p) \/ StrayEnds(p)

Next ==
    \/ \E o \in Ops : Proceed(o) \/ \E k \in Kinds, t \in Ops : Request(o, k, t)
    \/ \E r \in Reconcilers : Reconcile(r)
    \/ Publish \/ Vendor
    \/ Crash \/ PowerFailure \/ GateDies \/ StartService

Spec == Init /\ [][Next]_vars

(* What happens without the user, the vendor's program or the package       *)
(* manager: threads run on, systemd starts the service again, and a         *)
(* supervisor that has written its last record exits.  No sequence of these *)
(* steps repeats a state.                                                   *)
Progress ==
    \/ \E o \in Ops : Proceed(o) \/ UnitExits(o)
    \/ Reconcile(Startup) \/ Publish \/ StartService

-----------------------------------------------------------------------------
TypeOK ==
    /\ up \in BOOLEAN
    /\ kind \in [Ops -> Kinds \cup {None}] /\ target \in [Ops -> Ops]
    /\ receipt \in [Ops -> {"none", "unconfirmed", "queued", "owned", "settled", "terminated"}]
    /\ latest.op \in Ops \cup {None}
    /\ writer # None => writer.thread \in Threads /\ writer.op \in Ops
    /\ executor \in [Ops -> {"none", "active", "stale", "retired"}]
    /\ held \in [Ops -> {"none", "held", "released"}]
    /\ run \in [Ops -> Runs]
    /\ lock.worker \in [Ops -> Threads \cup {None}]
    /\ todo \in [Threads -> SUBSET Ops]
    /\ phase \in [Reconcilers -> {"idle", "finish", "settle", "done"}]
    /\ faults \in 0 .. MaxFaults
    /\ lapse \subseteq {"reopened", "missed", "gate"}

(* The vendor's programs run only in a setup that some operation holds, and *)
(* an operation that scans or checks a setup holds it alone, with none of   *)
(* those programs running: through stops, confirmations, a reservation that *)
(* passes from one operation to another in two writes, and any death        *)
(* between the steps (maintenance.rs, environment_install.rs, uninstall.rs). *)
Programs(p) == run[p].stray \/ (run[p].alive /\ ~run[p].retired)

SetupExclusive ==
    /\ TypeOK
    /\ (\E p \in Ops : Programs(p)) => \E o \in Ops : held[o] = "held"
    /\ \A o \in Ops : pc[o] = "work" =>
        /\ held[o] = "held"
        /\ \A p \in Ops : ~Programs(p) /\ (p # o => pc[p] # "work")

(* An operation that has been reported as over does nothing any more: no    *)
(* reconciler finishes the job of a worker that still runs or is about to   *)
(* start (reconcile_dead_workers_with, executor::launch).                   *)
FinishedIsDead ==
    \A o \in Ops : Terminal(receipt[o]) => pc[o] \in {"finish", "done", "dead"}

Settled ==
    /\ \A o \in Ops : receipt[o] \notin {"queued", "owned"}
    /\ latest.op # None /\ Terminal(receipt[latest.op]) => Terminal(latest.state)
    /\ AllRetired /\ (\A o \in Ops : ~run[o].due) => \A o \in Ops : held[o] # "held"

(* Where the service has come to rest with no vendor run going on, every    *)
(* dispatched operation has its final receipt, the window is not shown a    *)
(* finished one as running, and a setup whose runs are all shown closed and *)
(* checked is not reserved: whatever died, and at whichever write, the      *)
(* executor, the starting service or the package gate has finished the job, *)
(* and no thread waits for another for ever.                                *)
NothingStranded ==
    lapse = {} /\ phase[Gate] = "idle" /\ (\A o \in Ops : ~run[o].alive) =>
        Settled \/ ENABLED Progress
=============================================================================
