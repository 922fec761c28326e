------------------------------ MODULE Admission ------------------------------
(***************************************************************************)
(* The service that admits plug-in instances (crates/service/src/owner.rs, *)
(* capacity.rs) and the supervisors it starts (runtime/session.py).        *)
(*                                                                         *)
(* A DAW's request, or an inspection, is served by one worker thread.  It  *)
(* waits for the keeper of its setup (the process that holds the shared    *)
(* Wine session), checks the ceilings under registry.lock, publishes a     *)
(* durable lease, starts a supervisor and, once that is ready, hands the   *)
(* binding to the DAW.  The lease alone counts against the ceilings, so it *)
(* has to outlive every process it stands for: through a refused start, a  *)
(* supervisor that is killed, a service that dies, a kernel that restarts. *)
(* Operators reserve a setup, and expect to be alone in it.                *)
(*                                                                         *)
(* Critical sections that neither wait nor start an instance are one step; *)
(* the admission itself keeps registry.lock over several.                  *)
(***************************************************************************)
EXTENDS Integers, FiniteSets

CONSTANTS
    Clients,        \* worker threads of the service
    Setups,         \* environments: one Wine prefix each
    Classes,        \* published plug-in classes
    SetupOf,        \* the setup of a class's registration
    GlobalDsp,      \* capacity::Limits::global_dsp
    NativeImage,    \* capacity::Limits::native_image_hard
    MaxSession,     \* bound: sessions ever created
    MaxFaults,      \* bound: crashes, power failures, kills, I/O failures
    None

Sessions == 1 .. MaxSession

\* owner.json of a session, written by spec.
Specs == [kind : {"dsp", "inspection", "keeper"}, class : Classes \cup {None}, setup : Setups]

ASSUME AdmissionAssumption ==
    /\ SetupOf \in [Classes -> Setups]
    /\ GlobalDsp \in Nat \ {0} /\ NativeImage \in Nat \ {0}
    /\ MaxSession \in Nat \ {0} /\ MaxFaults \in Nat
    /\ None \notin Clients \cup Setups \cup Classes \cup Specs

VARIABLES
    up,             \* the service process runs and listens
    worker,         \* per client: its thread's place and its admission
    registryLock,   \* the worker that keeps registry.lock over several steps
    blocked,        \* AdmissionCleanup: leases of failed admissions
    keeper,         \* per setup: the service's KeeperOwner, if any
    spec,           \* per session: owner.json, None when not created
    lease,          \* runtime/leases
    generation,     \* runtime/lease-generations: kernel of the launch, or 0
    report,         \* the supervisor's report and ownership receipt
    proc,           \* per session: the supervisor and the Windows host
    native,         \* per session: the DAW's end of the transport
    held,           \* per setup: the operator's maintenance reservation
    boot,           \* the running kernel
    faults          \* faults so far

vars == <<up, worker, registryLock, blocked, keeper, spec, lease, generation,
          report, proc, native, held, boot, faults>>

disk == <<spec, lease, generation, report>>

Idle == [at |-> "idle", kind |-> "dsp", class |-> None, seen |-> 0, session |-> 0]
NoKeeper == [session |-> 0, retiring |-> FALSE, failed |-> FALSE, pending |-> FALSE]
NoProc == [at |-> "none", said |-> FALSE, term |-> FALSE, host |-> FALSE]

Places == {"idle", "await", "reserve", "publish", "final", "spawn", "handshake", "serve"}
Stages == {"none", "preflight", "owner", "hosting", "closing", "retired", "failed"}

TypeOK ==
    /\ up \in BOOLEAN
    /\ worker \in [Clients -> [at : Places, kind : {"dsp", "inspection"},
                               class : Classes \cup {None}, seen : 0 .. MaxSession,
                               session : 0 .. MaxSession]]
    /\ registryLock \in Clients \cup {None}
    /\ blocked \subseteq Sessions
    /\ keeper \in [Setups -> [session : 0 .. MaxSession, retiring : BOOLEAN,
                              failed : BOOLEAN, pending : BOOLEAN]]
    /\ spec \in [Sessions -> Specs \cup {None}]
    /\ lease \subseteq {s \in Sessions : spec[s] # None}
    /\ generation \in [Sessions -> 0 .. MaxFaults + 1]
    /\ report \in [Sessions -> {"none", "ready", "retired", "unconfirmed"}]
    /\ proc \in [Sessions -> [at : Stages, said : BOOLEAN, term : BOOLEAN, host : BOOLEAN]]
    /\ native \in [Sessions -> {"none", "bound", "control", "gone"}]
    /\ held \in [Setups -> {"none", "reserved", "exclusive"}]
    /\ boot \in 1 .. MaxFaults + 1
    /\ faults \in 0 .. MaxFaults

Init ==
    /\ up = TRUE
    /\ worker = [c \in Clients |-> Idle]
    /\ registryLock = None
    /\ blocked = {}
    /\ keeper = [e \in Setups |-> NoKeeper]
    /\ spec = [s \in Sessions |-> None]
    /\ lease = {}
    /\ generation = [s \in Sessions |-> 0]
    /\ report = [s \in Sessions |-> "none"]
    /\ proc = [s \in Sessions |-> NoProc]
    /\ native = [s \in Sessions |-> "none"]
    /\ held = [e \in Setups |-> "none"]
    /\ boot = 1
    /\ faults = 0

-----------------------------------------------------------------------------
(* capacity.rs: what the leases say *)

Owners(kind) == {s \in lease : spec[s].kind = kind}
LeasesIn(e) == {s \in lease : spec[s].setup = e}

\* owners_for: a keeper whose finalizer disputes its cleanup refuses the census
\* of its own setup, and of the whole service.
Disputed(setups) == \E s \in Owners("keeper") :
                        report[s] = "unconfirmed" /\ spec[s].setup \in setups

\* require_environment_inactive
Inactive(e) == /\ ~Disputed({e})
               /\ \A s \in LeasesIn(e) : spec[s].kind = "keeper"

\* reserve_environment with native_admission_blocked and check_selected
AdmitsDsp(class) ==
    LET e == SetupOf[class] IN
    /\ held[e] = "none"
    /\ \A s \in blocked : s \in lease /\ spec[s].setup # e
    /\ ~Disputed({e})
    /\ \A s \in Owners("inspection") : spec[s].setup # e
    /\ Cardinality(Owners("dsp")) < GlobalDsp
    /\ Cardinality({s \in Owners("dsp") : spec[s].class = class}) < NativeImage

\* reserve_maintenance with require_inactive(None)
AdmitsInspection ==
    /\ blocked = {}
    /\ ~Disputed(Setups)
    /\ Owners("inspection") = {} /\ Owners("dsp") = {}

Admits(w) == IF w.kind = "dsp" THEN AdmitsDsp(w.class) ELSE AdmitsInspection

\* Mutant of Proven: no report is as good as a clean one.
ProvenByAbsence(s) == \/ report[s] # "unconfirmed"
                      \/ generation[s] # 0 /\ generation[s] # boot

\* reconcile_lease_in_kernel: the receipt, or the end of the lease's kernel,
\* proves that nothing of the session is left.
Proven(s) == \/ report[s] = "retired"
             \/ generation[s] # 0 /\ generation[s] # boot

-----------------------------------------------------------------------------
(* Sessions and processes *)

Exited(s) == proc[s].at \in {"retired", "failed"}
Alive(s) == proc[s].at \notin {"none", "retired", "failed"}

\* random_id and spec: the next unused session
Fresh(s) == spec[s] = None /\ \A t \in Sessions : t < s => spec[t] # None

Started == [NoProc EXCEPT !.at = "preflight"]
Asked(k) == [proc EXCEPT ![k].term = TRUE]

-----------------------------------------------------------------------------
(* Keepers *)

\* Mutant of RetiredKeeper: any exit will do.
RetiredKeeperAnyExit(s) == Exited(s)

\* retired_keeper: a keeper that exited is gone only with its cleanup confirmed
\* in the report, and a successful status.
RetiredKeeper(s) == report[s] = "retired" /\ proc[s].at = "retired"

\* observe_keeper: the keeper record after the look, what it is, and the leases
\* that the look removed (retired_keeper).
Observe(k) ==
    LET is(new, what, gone) == [keeper |-> new, is |-> what, reaped |-> gone] IN
    CASE k.session = 0 -> is(k, "absent", {})
      [] k.session # 0 /\ k.failed -> is(k, "failed", {})
      [] k.session # 0 /\ ~k.failed /\ Exited(k.session) ->
            IF RetiredKeeper(k.session)
            THEN IF k.retiring /\ ~k.pending
                 THEN is(NoKeeper, "absent", {k.session})
                 ELSE is([k EXCEPT !.failed = TRUE], "failed", {k.session})
            ELSE is(k, "error", {})
      [] OTHER -> is(k, CASE k.retiring -> "retiring"
                          [] ~k.retiring /\ report[k.session] = "none" -> "starting"
                          [] ~k.retiring /\ report[k.session] = "ready" -> "ready"
                          [] OTHER -> "error", {})

\* Ask a live keeper to retire (SIGTERM).
Retire(k, failing) == [k EXCEPT !.retiring = TRUE, !.pending = failing]

\* stage_keeper for setup e, as the set of its possible results.  Time chooses
\* whether a start has lasted too long and whether the pause after a failed
\* start is over, and a start may fail; "display" says whether the caller may come from another
\* graphical session than the keeper's.
Stage(e, display) ==
    LET k == keeper[e]
        o == Observe(k)
        result(new, what, stop, start) ==
            [keeper |-> new, is |-> what, reaped |-> o.reaped, stop |-> stop, start |-> start]
        same == result(o.keeper, o.is, {}, FALSE)
        fresh == {result(NoKeeper, "starting", {}, TRUE), result(NoKeeper, "error", {}, FALSE)}
        late == [result(Retire(k, TRUE), "retiring", {k.session}, FALSE) EXCEPT !.reaped = {}]
    IN  IF held[e] # "none" THEN {[result(k, "error", {}, FALSE) EXCEPT !.reaped = {}]}
        ELSE (CASE o.is = "absent" -> fresh
                [] o.is = "failed" -> {same} \cup fresh
                [] o.is \in {"starting", "ready"} /\ display ->
                     {same, IF Inactive(e) THEN result(Retire(k, FALSE), "retiring", {k.session}, FALSE)
                                           ELSE result(k, "error", {}, FALSE)}
                [] OTHER -> {same})
             \cup (IF o.is = "starting" THEN {late} ELSE {})

\* The effect of a result on keepers, processes and disk.  A started keeper's
\* generation, owner and lease are written by spawn before its process exists.
\* "dropped" are the leases that the caller gives up in the same step.
ApplyStage(e, o, class, dropped) ==
    IF o.start
    THEN \E k \in Sessions :
           /\ Fresh(k)
           /\ keeper' = [keeper EXCEPT ![e] = [NoKeeper EXCEPT !.session = k]]
           /\ spec' = [spec EXCEPT ![k] = [kind |-> "keeper", class |-> class, setup |-> e]]
           /\ generation' = [generation EXCEPT ![k] = boot]
           /\ lease' = (lease \ (o.reaped \cup dropped)) \cup {k}
           /\ proc' = [proc EXCEPT ![k] = Started]
           /\ native' = [native EXCEPT ![k] = "gone"]
    ELSE /\ keeper' = [keeper EXCEPT ![e] = o.keeper]
         /\ lease' = lease \ (o.reaped \cup dropped)
         /\ proc' = [s \in Sessions |-> [proc[s] EXCEPT !.term = @ \/ s \in o.stop]]
         /\ UNCHANGED <<spec, generation, native>>

-----------------------------------------------------------------------------
(* A worker of the service *)

Move(c, w) == worker' = [worker EXCEPT ![c] = w]
Goto(c, place) == Move(c, [worker[c] EXCEPT !.at = place])
Quit(c) == Move(c, Idle)
FreeLock(c) == registryLock' = IF registryLock = c THEN None ELSE registryLock

\* AdmissionCleanup::refresh: what the retained failures leave behind.
Settled == {s \in blocked : s \notin lease \/ Proven(s)}

\* A connection first settles earlier failures, waiting for registry.lock.
Request(c) ==
    /\ up /\ worker[c].at = "idle"
    /\ blocked # {} => registryLock = None
    /\ \E class \in Classes, kind \in {"dsp", "inspection"} :
          Move(c, [Idle EXCEPT !.at = "await", !.kind = kind, !.class = class])
    /\ blocked' = blocked \ Settled
    /\ lease' = lease \ Settled
    /\ UNCHANGED <<up, registryLock, keeper, spec, generation, report, proc, native,
                   held, boot, faults>>

\* A status read does the same and starts nothing.
Refresh ==
    /\ up /\ registryLock = None /\ Settled # {}
    /\ blocked' = blocked \ Settled
    /\ lease' = lease \ Settled
    /\ UNCHANGED <<up, worker, registryLock, keeper, spec, generation, report, proc,
                   native, held, boot, faults>>

\* Any check of the exact binding fails, or the deadline of the keeper wait has
\* passed, before a lease exists.
Refuse(c) ==
    /\ up /\ worker[c].at \in {"await", "reserve", "publish"}
    /\ Quit(c) /\ FreeLock(c)
    /\ UNCHANGED <<up, blocked, keeper, disk, proc, native, held, boot, faults>>

\* One round of wait_for_keeper: reserve, then stage.  A native admission runs
\* it twice: it verifies the files in between without registry.lock, and the
\* second time insists on the keeper it saw ready.
AwaitKeeper(c) ==
    LET w == worker[c]
        e == SetupOf[w.class]
        again == w.at = "reserve" \/ w.kind = "inspection"
    IN
    /\ up /\ w.at \in {"await", "reserve"}
    /\ registryLock = None
    /\ \/ /\ ~Admits(w) \/ (w.at = "reserve" /\ keeper[e].session # w.seen)
          /\ Quit(c)
          /\ UNCHANGED <<registryLock, keeper, spec, lease, generation, proc, native>>
       \/ /\ Admits(w) /\ (w.at = "reserve" => keeper[e].session = w.seen)
          /\ \E o \in Stage(e, ~again) :
               /\ ApplyStage(e, o, w.class, {})
               /\ CASE o.is = "ready" ->
                         /\ Move(c, [w EXCEPT !.at = IF again THEN "publish" ELSE "reserve",
                                              !.seen = keeper[e].session])
                         /\ registryLock' = IF again THEN c ELSE None
                    [] o.is \in {"failed", "error"} -> Quit(c) /\ UNCHANGED registryLock
                    [] OTHER -> UNCHANGED <<worker, registryLock>>
    /\ UNCHANGED <<up, blocked, report, held, boot, faults>>

\* The session is created.  A native admission publishes its lease at once; an
\* inspection leaves that to spawn.
Publish(c) ==
    LET w == worker[c] IN
    /\ up /\ w.at = "publish"
    /\ \E s \in Sessions :
         /\ Fresh(s)
         /\ spec' = [spec EXCEPT ![s] = [kind |-> w.kind, class |-> w.class,
                                         setup |-> SetupOf[w.class]]]
         /\ lease' = IF w.kind = "dsp" THEN lease \cup {s} ELSE lease
         /\ Move(c, [w EXCEPT !.at = IF w.kind = "dsp" THEN "final" ELSE "spawn",
                              !.session = s])
    /\ UNCHANGED <<up, registryLock, blocked, keeper, generation, report, proc, native,
                   held, boot, faults>>

\* The last look at the keeper, still under registry.lock.
FinalStage(c) ==
    LET w == worker[c]
        e == SetupOf[w.class]
    IN
    /\ up /\ w.at = "final"
    /\ \E o \in Stage(e, FALSE) :
         /\ ApplyStage(e, o, w.class, IF o.is = "ready" THEN {} ELSE {w.session})
         /\ IF o.is = "ready" THEN Goto(c, "spawn") ELSE Quit(c)
    /\ FreeLock(c)
    /\ UNCHANGED <<up, blocked, report, held, boot, faults>>

\* spawn: the kernel generation, the lease again, then the process.
Spawn(c) ==
    LET s == worker[c].session IN
    /\ up /\ worker[c].at = "spawn"
    /\ \/ /\ generation' = [generation EXCEPT ![s] = boot]
          /\ lease' = lease \cup {s}
          /\ proc' = [proc EXCEPT ![s] = Started]
          /\ Goto(c, "handshake")
          /\ UNCHANGED registryLock
       \/ /\ lease' = lease \ {s}
          /\ Quit(c) /\ FreeLock(c)
          /\ UNCHANGED <<generation, proc>>
    /\ UNCHANGED <<up, blocked, keeper, spec, report, native, held, boot, faults>>

\* supervisor_ready, PendingAdmission::expose and the reply to the DAW, which
\* may have gone.  An inspection gives registry.lock up here.
Expose(c) ==
    LET s == worker[c].session IN
    /\ up /\ worker[c].at = "handshake"
    /\ proc[s].said
    /\ \E n \in IF worker[c].kind = "dsp" THEN {"bound", "gone"} ELSE {"gone"} :
          native' = [native EXCEPT ![s] = n]
    /\ Goto(c, "serve") /\ FreeLock(c)
    /\ UNCHANGED <<up, blocked, keeper, disk, proc, held, boot, faults>>

\* Mutant of Unready: the wait ends only when the output closes.
UnreadyOnClose(c) ==
    LET s == worker[c].session IN
    /\ up /\ worker[c].at = "handshake" /\ Exited(s)
    /\ lease' = lease \ {s}
    /\ Quit(c) /\ FreeLock(c)
    /\ UNCHANGED <<up, blocked, keeper, spec, generation, report, proc, native, held, boot,
                   faults>>

\* The readiness deadline passes or the output closes: retire_unready_supervisor
\* kills and reaps the supervisor, and PendingAdmission::drop removes the lease
\* or, when that fails, records it.
Unready(c) ==
    LET s == worker[c].session IN
    /\ up /\ worker[c].at = "handshake"
    /\ proc' = [proc EXCEPT ![s].at = IF Alive(s) THEN "failed" ELSE @]
    /\ \/ lease' = lease \ {s} /\ UNCHANGED <<blocked, faults>>
       \/ /\ faults < MaxFaults /\ faults' = faults + 1
          /\ blocked' = blocked \cup {s}
          /\ UNCHANGED lease
    /\ Quit(c) /\ FreeLock(c)
    /\ UNCHANGED <<up, keeper, spec, generation, report, native, held, boot>>

\* Mutant of Finish: a failed retirement is returned and not recorded.
FinishUnrecorded(c) ==
    LET s == worker[c].session IN
    /\ up /\ worker[c].at = "serve" /\ Exited(s)
    /\ \/ registryLock = None /\ proc[s].at = "retired" /\ lease' = lease \ {s}
       \/ UNCHANGED lease
    /\ Quit(c)
    /\ UNCHANGED <<up, registryLock, blocked, keeper, spec, generation, report, proc, native,
                   held, boot, faults>>

\* finish_supervised_delivery: the supervisor's exit status and LVO1 line, not
\* its report, release the lease; without registry.lock in time, or without
\* that line, the drop of the exposed admission records it.
Finish(c) ==
    LET s == worker[c].session IN
    /\ up /\ worker[c].at = "serve" /\ Exited(s)
    /\ \/ /\ registryLock = None /\ proc[s].at = "retired"
          /\ lease' = lease \ {s}
          /\ UNCHANGED blocked
       \/ /\ blocked' = blocked \cup {s}
          /\ UNCHANGED lease
    /\ Quit(c)
    /\ UNCHANGED <<up, registryLock, keeper, spec, generation, report, proc, native,
                   held, boot, faults>>

-----------------------------------------------------------------------------
(* Retirement of keepers *)

\* Mutant of Vacant: a setup without a Windows host has no instance.
VacantOfHosts(e) == \A s \in Sessions : proc[s].host /\ spec[s].kind = "dsp" => spec[s].setup # e

\* occupied_environments
Vacant(e) == \A s \in lease : spec[s].kind = "dsp" => spec[s].setup # e

\* retire_idle_keepers: reap the retiring ones, then ask every ready one that
\* has had no plug-in for the grace.  "old" are the setups whose grace is over.
\* A keeper whose end is disputed stops the pass at its place in the list.
RetireIdle ==
    LET retiring == {e \in Setups : keeper[e].retiring /\ ~keeper[e].failed}
        stopped == {e \in retiring : Observe(keeper[e]).is = "error"}
        ask(e) == LET k == keeper[e] IN
                  /\ k.session # 0 /\ ~k.retiring /\ ~k.failed
                  /\ Vacant(e) /\ report[k.session] # "none" /\ ~Exited(k.session)
    IN
    /\ up /\ registryLock = None
    /\ \E seen \in SUBSET (retiring \ stopped), old \in SUBSET {e \in Setups : ask(e)} :
         /\ stopped = {} => seen = retiring
         /\ stopped # {} \/ Owners("inspection") # {} \/ Disputed(Setups) => old = {}
         /\ seen \cup old # {}
         /\ keeper' = [e \in Setups |-> CASE e \in old -> Retire(keeper[e], FALSE)
                                           [] e \in seen -> Observe(keeper[e]).keeper
                                           [] OTHER -> keeper[e]]
         /\ lease' = lease \ UNION {Observe(keeper[e]).reaped : e \in seen}
         /\ proc' = [s \in Sessions |->
                       [proc[s] EXCEPT !.term = @ \/ \E e \in old : keeper[e].session = s]]
    /\ UNCHANGED <<up, worker, registryLock, blocked, spec, generation, report, native,
                   held, boot, faults>>

\* maintenance::acquire up to the retained reservation
Acquire(e) ==
    /\ registryLock = None
    /\ held[e] = "none" /\ Inactive(e)
    /\ held' = [held EXCEPT ![e] = "reserved"]
    /\ UNCHANGED <<up, worker, registryLock, blocked, keeper, disk, proc, native, boot, faults>>

\* Mutant of Enter: a setup that only keepers use is free enough.
EnterEarly(e) ==
    /\ held[e] = "reserved" /\ Inactive(e)
    /\ held' = [held EXCEPT ![e] = "exclusive"]
    /\ UNCHANGED <<up, worker, registryLock, blocked, keeper, disk, proc, native, boot, faults>>

\* its end when no keeper's lease is left: the operator starts its work
Enter(e) ==
    /\ held[e] = "reserved"
    /\ ~Disputed({e}) /\ \A s \in LeasesIn(e) : spec[s].kind # "keeper"
    /\ held' = [held EXCEPT ![e] = "exclusive"]
    /\ UNCHANGED <<up, worker, registryLock, blocked, keeper, disk, proc, native, boot, faults>>

\* One round of retire_vendor_keeper for a reserved setup, until it answers.
RetireVendor(e) ==
    LET o == Observe(keeper[e])
        k == IF o.is = "failed" THEN NoKeeper ELSE o.keeper
    IN
    /\ up /\ registryLock = None
    /\ held[e] = "reserved" /\ Inactive(e) /\ o.is # "error"
    /\ lease' = lease \ o.reaped
    /\ \/ /\ k.session # 0
          /\ keeper' = [keeper EXCEPT ![e] = IF k.retiring THEN k ELSE Retire(k, FALSE)]
          /\ proc' = Asked(k.session)
          /\ UNCHANGED held
       \/ /\ k.session = 0
          /\ keeper' = [keeper EXCEPT ![e] = NoKeeper]
          /\ held' = IF LeasesIn(e) \subseteq o.reaped
                     THEN [held EXCEPT ![e] = "exclusive"] ELSE held
          /\ UNCHANGED proc
    /\ UNCHANGED <<up, worker, registryLock, blocked, spec, generation, report, native,
                   boot, faults>>

\* maintenance::release
Release(e) ==
    /\ registryLock = None
    /\ held[e] # "none" /\ LeasesIn(e) = {}
    /\ held' = [held EXCEPT ![e] = "none"]
    /\ UNCHANGED <<up, worker, registryLock, blocked, keeper, disk, proc, native, boot, faults>>

-----------------------------------------------------------------------------
(* Supervisors (runtime/session.py) and the DAW *)

SetProc(s, p) == proc' = [proc EXCEPT ![s] = p]
ServiceSide == <<up, worker, registryLock, blocked, keeper, spec, lease, generation,
                 held, boot, faults>>

\* run: the preflight passes and LVO0 is printed, or the process ends.
Preflight(s) ==
    /\ proc[s].at = "preflight" /\ spec[s].kind # "keeper"
    /\ \/ SetProc(s, [proc[s] EXCEPT !.at = "owner", !.said = TRUE])
       \/ SetProc(s, [proc[s] EXCEPT !.at = "failed"])
    /\ UNCHANGED <<ServiceSide, report, native>>

\* run_owned up to Popen: an instance waits for the DAW's control file.
Launch(s) ==
    /\ proc[s].at = "owner" /\ ~proc[s].term
    /\ spec[s].kind = "dsp" => native[s] = "control"
    /\ SetProc(s, [proc[s] EXCEPT !.at = "hosting", !.host = TRUE])
    /\ UNCHANGED <<ServiceSide, report, native>>

\* A stop, the DAW's end, a deadline or any error ends the run: the host is
\* gone, or was never started, or its cleanup is not confirmed.
End(s) ==
    /\ spec[s] # None /\ spec[s].kind # "keeper"
    /\ \/ /\ proc[s].at \in {"owner", "hosting"}
          /\ SetProc(s, [proc[s] EXCEPT !.at = "closing", !.host = FALSE])
          /\ UNCHANGED report
       \/ /\ proc[s].at = "hosting"
          /\ \E h \in BOOLEAN : SetProc(s, [proc[s] EXCEPT !.at = "failed", !.host = h])
          /\ report' = [report EXCEPT ![s] = "unconfirmed"]
    /\ UNCHANGED <<ServiceSide, native>>

\* retire_native_transport, the receipt and the exit.  LVO1 and the status do
\* not depend on the receipt, whose write may fail.
RetireTransport(s) ==
    /\ proc[s].at = "closing" /\ spec[s].kind # "keeper"
    /\ \/ /\ native[s] \in {"none", "gone"}
          /\ SetProc(s, [proc[s] EXCEPT !.at = "retired"])
          /\ \/ report' = [report EXCEPT ![s] = "retired"] /\ UNCHANGED faults
             \/ faults < MaxFaults /\ faults' = faults + 1 /\ UNCHANGED report
       \/ /\ native[s] \in {"bound", "control"}
          /\ SetProc(s, [proc[s] EXCEPT !.at = "failed"])
          /\ report' = [report EXCEPT ![s] = "unconfirmed"]
          /\ UNCHANGED faults
    /\ UNCHANGED <<up, worker, registryLock, blocked, keeper, spec, lease, generation,
                   native, held, boot>>

\* keep: the shared host starts, becomes ready, and ends on a stop, a deadline
\* or an error, with its report before its exit.
Keep(s) ==
    /\ spec[s] # None /\ spec[s].kind = "keeper"
    /\ \/ /\ proc[s].at = "preflight"
          /\ SetProc(s, [proc[s] EXCEPT !.at = "hosting", !.host = TRUE])
          /\ UNCHANGED report
       \/ /\ proc[s].at = "preflight"
          /\ SetProc(s, [proc[s] EXCEPT !.at = "failed"])
          /\ UNCHANGED report
       \/ /\ proc[s].at = "hosting" /\ report[s] = "none" /\ ~proc[s].term
          /\ report' = [report EXCEPT ![s] = "ready"]
          /\ UNCHANGED proc
       \/ /\ proc[s].at \in {"preflight", "hosting"}
          /\ SetProc(s, [proc[s] EXCEPT !.at = "closing", !.host = FALSE])
          /\ report' = [report EXCEPT ![s] = "retired"]
       \/ /\ proc[s].at = "hosting"
          /\ \E h \in BOOLEAN : SetProc(s, [proc[s] EXCEPT !.at = "failed", !.host = h])
          /\ report' = [report EXCEPT ![s] = "unconfirmed"]
       \/ /\ proc[s].at = "closing"
          /\ SetProc(s, [proc[s] EXCEPT !.at = "retired"])
          /\ UNCHANGED report
    /\ UNCHANGED <<ServiceSide, native>>

\* The DAW with a binding creates its transport; at any time it goes.
Daw(s) ==
    /\ \/ native[s] = "bound" /\ native' = [native EXCEPT ![s] = "control"]
       \/ native[s] \in {"bound", "control"} /\ native' = [native EXCEPT ![s] = "gone"]
    /\ UNCHANGED <<ServiceSide, report, proc>>

-----------------------------------------------------------------------------
(* Faults *)

Fault == faults < MaxFaults /\ faults' = faults + 1

\* A supervisor is killed: nothing is cleaned up or reported.
Kill(s) ==
    /\ Fault /\ Alive(s)
    /\ SetProc(s, [proc[s] EXCEPT !.at = "failed"])
    /\ UNCHANGED <<up, worker, registryLock, blocked, keeper, disk, native, held, boot>>

Forget ==
    /\ up' = FALSE
    /\ worker' = [c \in Clients |-> Idle]
    /\ registryLock' = None
    /\ blocked' = {}
    /\ keeper' = [e \in Setups |-> NoKeeper]

\* The service dies; systemd stops the rest of its control group.
Crash ==
    /\ Fault /\ up /\ Forget
    /\ proc' = [s \in Sessions |-> [proc[s] EXCEPT !.term = @ \/ Alive(s)]]
    /\ UNCHANGED <<disk, native, held, boot>>

Emptied == [s \in Sessions |-> IF proc[s].at = "none" THEN proc[s]
               ELSE [proc[s] EXCEPT !.at = IF Alive(s) THEN "failed" ELSE @, !.host = FALSE]]

\* TimeoutStopSec is over: systemd kills what is left of the group.
KillGroup ==
    /\ ~up /\ proc # Emptied
    /\ proc' = Emptied
    /\ UNCHANGED <<up, worker, registryLock, blocked, keeper, disk, native, held, boot, faults>>

\* The kernel restarts.
PowerFailure ==
    /\ Fault /\ Forget
    /\ boot' = boot + 1
    /\ proc' = Emptied
    /\ native' = [s \in Sessions |-> IF native[s] = "none" THEN "none" ELSE "gone"]
    /\ UNCHANGED <<disk, held>>

\* Mutant of Start: what cannot be proven gone is left to the ceilings alone.
StartForgetful ==
    /\ ~up /\ proc = Emptied
    /\ up' = TRUE
    /\ lease' = {s \in lease : ~Proven(s)}
    /\ UNCHANGED <<worker, registryLock, blocked, keeper, spec, generation, report, proc,
                   native, held, boot, faults>>

\* serve: leases with proof are retired, every other one is a failure.
Start ==
    /\ ~up /\ proc = Emptied
    /\ up' = TRUE
    /\ lease' = {s \in lease : ~Proven(s)}
    /\ blocked' = lease'
    /\ UNCHANGED <<worker, registryLock, keeper, spec, generation, report, proc, native,
                   held, boot, faults>>

-----------------------------------------------------------------------------
Worker(c) == \/ Request(c) \/ Refuse(c) \/ AwaitKeeper(c) \/ Publish(c) \/ FinalStage(c)
             \/ Spawn(c) \/ Expose(c) \/ Unready(c) \/ Finish(c)
Operator(e) == Acquire(e) \/ Enter(e) \/ RetireVendor(e) \/ Release(e)
Supervisor(s) == Preflight(s) \/ Launch(s) \/ End(s) \/ RetireTransport(s) \/ Keep(s)

Next ==
    \/ \E c \in Clients : Worker(c)
    \/ Refresh \/ RetireIdle
    \/ \E e \in Setups : Operator(e)
    \/ \E s \in Sessions : Supervisor(s) \/ Daw(s) \/ Kill(s)
    \/ Crash \/ KillGroup \/ PowerFailure \/ Start

Spec == Init /\ [][Next]_vars

\* Every wait of an admission has a deadline (the keeper's, the supervisor's
\* readiness), a worker thread goes on running, and systemd empties the control
\* group and restarts the service.  Nothing is assumed of supervisors or DAWs.
FairSpec ==
    /\ Spec
    /\ \A c \in Clients :
         /\ WF_vars(Refuse(c))
         /\ WF_vars(Publish(c) \/ FinalStage(c) \/ Spawn(c) \/ Expose(c) \/ Unready(c))
         /\ WF_vars(Finish(c))
    /\ WF_vars(KillGroup) /\ WF_vars(Start)

-----------------------------------------------------------------------------
(* Properties *)

Hosting(kind) == {s \in Sessions : spec[s] # None /\ spec[s].kind = kind /\ proc[s].host}

\* The Windows hosts of plug-in instances that really run, those of killed
\* supervisors, dead services and refused admissions included, never exceed the
\* ceilings that capacity.rs checks on leases alone.
HostsWithinCeiling ==
    /\ Cardinality(Hosting("dsp")) <= GlobalDsp
    /\ \A k \in Classes :
         Cardinality({s \in Hosting("dsp") : spec[s].class = k}) <= NativeImage

\* An operator that was told its setup is free works in it alone: no supervisor
\* of an instance or keeper of that setup lives, and no Windows host of theirs.
MaintenanceExclusive ==
    \A e \in Setups : held[e] = "exclusive" =>
        \A s \in Sessions : spec[s] # None /\ spec[s].setup = e /\ spec[s].kind # "inspection"
                              => ~Alive(s) /\ ~proc[s].host

\* A keeper is never asked to retire under an instance: whoever asks decides on
\* the leases that an admission publishes under the same registry.lock.  Only a
\* keeper that never became ready is stopped regardless.
KeeperKept ==
    \A e \in Setups : keeper[e].retiring /\ ~keeper[e].pending =>
        \A s \in LeasesIn(e) : spec[s].kind # "dsp"

\* Two keepers never hold one setup's Wine session, across failed starts,
\* replacements, crashes of the service and restarts of the kernel.
OneKeeper ==
    \A e \in Setups :
        Cardinality({s \in Sessions :
            /\ spec[s] # None /\ spec[s].kind = "keeper" /\ spec[s].setup = e
            /\ (Alive(s) \/ proc[s].host)}) <= 1

\* A lease always has someone who can release it: the worker of its admission,
\* the keeper record, or the list of failures that every connection settles.
NoOrphanLease ==
    /\ TypeOK
    /\ up => lease \subseteq blocked \cup {keeper[e].session : e \in Setups}
                                 \cup {worker[c].session : c \in Clients}

\* An admission that has begun is decided: no refusal, deadline or death of the
\* supervisor leaves its worker waiting, or registry.lock held, for ever.
AdmissionDecides ==
    \A c \in Clients : worker[c].at \notin {"idle", "serve"} ~> worker[c].at \in {"idle", "serve"}

\* The lease of an instance whose supervisor has ended is released or reported
\* as a failure, also when the service dies before it can.
ExitSettles ==
    \A s \in Sessions : s \in lease /\ spec[s].kind # "keeper" /\ Exited(s)
                            ~> s \notin lease \/ s \in blocked
=============================================================================
