--------------------------- MODULE AdmissionProofs ---------------------------
(***************************************************************************)
(* Proofs about the admission of plug-in instances, for any numbers of     *)
(* clients, setups, classes, sessions and faults: a lease stands for every *)
(* process that may still run and has someone who can release it, so the   *)
(* ceilings that are checked on leases bound the hosts that really run.    *)
(***************************************************************************)
EXTENDS Admission, TLAPS, FiniteSetTheorems

-----------------------------------------------------------------------------
(* The inductive invariant *)

\* Something of the session runs.
Active(s) == Alive(s) \/ proc[s].host

\* The session was created as a keeper, or as an instance, of setup e.
KeeperOf(s, e) == spec[s] # None /\ spec[s].kind = "keeper" /\ spec[s].setup = e
InstanceOf(s, e) == spec[s] # None /\ spec[s].kind = "dsp" /\ spec[s].setup = e

\* A kernel is started once for every power failure.
BootInv == boot <= faults + 1

\* The stages of a session's processes, its report and the DAW's end agree.  A session that
\* runs was started by this kernel, and no host outlives a report of its retirement.
Consistent(s) ==
    /\ spec[s] = None => proc[s].at = "none" /\ native[s] = "none"
    /\ proc[s].host => proc[s].at \in {"hosting", "failed"}
    /\ proc[s].at \in {"none", "preflight", "owner"} => report[s] = "none"
    /\ report[s] = "retired" => proc[s].at \in {"closing", "retired", "failed"} /\ ~proc[s].host
    /\ Active(s) => generation[s] = boot
    /\ spec[s] # None /\ spec[s].kind = "dsp" /\ (proc[s].host \/ proc[s].at = "hosting") =>
          native[s] # "none"

ProcInv == \A s \in Sessions : Consistent(s)

\* Places where a worker has no session yet, and where it has not started its processes.
Before == {"idle", "await", "reserve", "publish"}
Unstarted == {"final", "spawn"}

\* The session of an admission is its own, of its class and kind, and not among the failures.
SessionInv ==
    \A c \in Clients :
        LET w == worker[c] IN
        /\ w.at \in Before => w.session = 0
        /\ w.at # "idle" => w.class \in Classes
        /\ w.at \notin Before =>
             /\ w.session \in Sessions \ blocked
             /\ spec[w.session] = [kind |-> w.kind, class |-> w.class, setup |-> SetupOf[w.class]]
             /\ \A d \in Clients \ {c} : worker[d].session # w.session

\* Until its processes start, nothing of an admission exists but its lease; until it is
\* exposed, the DAW has no end of the transport.
UnstartedInv ==
    \A c \in Clients :
        LET w == worker[c] IN
        /\ w.at \in Unstarted => proc[w.session].at = "none"
        /\ w.at \in Unstarted /\ w.kind = "dsp" => w.session \in lease
        /\ w.at \in Unstarted \cup {"handshake"} => native[w.session] = "none"

\* registry.lock covers an admission from its checks to its last look at the keeper: the
\* setup stays unreserved and the keeper is not asked to retire.
LockInv ==
    \A c \in Clients :
        LET w == worker[c] IN
        w.at \in {"publish", "final"} =>
            /\ registryLock = c /\ held[SetupOf[w.class]] = "none"
            /\ w.at = "publish" => ~keeper[SetupOf[w.class]].retiring

\* A lease stands for every instance and keeper of which something runs.
LeaseInv ==
    \A s \in Sessions :
        spec[s] # None /\ spec[s].kind # "inspection" /\ Active(s) => s \in lease

\* The supervisor of a recorded failure is gone.
BlockedInv == \A s \in blocked : spec[s] # None /\ ~Alive(s)

\* A keeper record is of a keeper of its setup; one that failed has left nothing.
Recorded(e) ==
    LET k == keeper[e] IN
    /\ k.session # 0 => KeeperOf(k.session, e)
    /\ k.session # 0 /\ k.failed => k.session \notin lease /\ ~Active(k.session)

RecordInv == \A e \in Setups : Recorded(e)

\* The keeper that runs in a setup is the one on record, and there is no second.
KeeperInv ==
    \A s \in Sessions, e \in Setups : KeeperOf(s, e) /\ Active(s) =>
        /\ up => keeper[e].session = s
        /\ \A t \in Sessions : KeeperOf(t, e) /\ Active(t) => t = s

\* A reserved setup has no instance, and no keeper either once it is free.
Alone(e) ==
    \A s \in lease : /\ held[e] # "none" => ~InstanceOf(s, e)
                     /\ held[e] = "exclusive" => ~KeeperOf(s, e)

HeldInv == \A e \in Setups : Alone(e)

\* A service that is down has no worker.
DownInv == ~up => \A c \in Clients : worker[c].at = "idle"

\* The leases are within the ceilings, with room for the admission under registry.lock.
InstancesOf(k) == {s \in Owners("dsp") : spec[s].class = k}

CeilingInv ==
    /\ Cardinality(Owners("dsp")) <= GlobalDsp
    /\ \A k \in Classes : Cardinality(InstancesOf(k)) <= NativeImage
    /\ \A c \in Clients : worker[c].at = "publish" /\ worker[c].kind = "dsp" =>
         /\ Cardinality(Owners("dsp")) < GlobalDsp
         /\ Cardinality(InstancesOf(worker[c].class)) < NativeImage

\* Somebody can release every lease (the second half of NoOrphanLease).
Watched ==
    up => lease \subseteq blocked \cup {keeper[e].session : e \in Setups}
                             \cup {worker[c].session : c \in Clients}

\* All of it.  CeilingInv apart, because only it needs counting.
SessionsInv ==
    /\ BootInv /\ ProcInv /\ SessionInv /\ UnstartedInv /\ LockInv /\ LeaseInv /\ BlockedInv
    /\ RecordInv /\ KeeperInv /\ HeldInv /\ DownInv /\ KeeperKept /\ Watched

IInv == TypeOK /\ SessionsInv /\ CeilingInv

-----------------------------------------------------------------------------
(* Types of the records *)

\* The records of admissions, keepers and processes, as TypeOK has them.
Workers == [at : Places, kind : {"dsp", "inspection"}, class : Classes \cup {None},
            seen : 0 .. MaxSession, session : 0 .. MaxSession]
Keepers == [session : 0 .. MaxSession, retiring : BOOLEAN, failed : BOOLEAN, pending : BOOLEAN]
Procs == [at : Stages, said : BOOLEAN, term : BOOLEAN, host : BOOLEAN]

\* The type invariant with the records named.
Typed ==
    /\ worker \in [Clients -> Workers] /\ keeper \in [Setups -> Keepers]
    /\ spec \in [Sessions -> Specs \cup {None}] /\ proc \in [Sessions -> Procs]
    /\ lease \subseteq Sessions /\ blocked \subseteq Sessions
    /\ (\A s \in lease : spec[s] # None)

\* TypeOK implies it.
LEMMA TypesNamed == TypeOK => Typed
  BY DEF TypeOK, Typed, Workers, Keepers, Procs

\* Nobody is neither a client nor a recorded session; sessions count from 1.
LEMMA NoneDiffers == None \notin Clients /\ None \notin Classes /\ 0 \notin Sessions
  BY AdmissionAssumption DEF Sessions

\* A record of a session is not the missing record.
LEMMA SpecIsNotNone == ASSUME NEW x \in Specs PROVE x # None
  BY AdmissionAssumption

-----------------------------------------------------------------------------
(* What a look at the keepers may do *)

\* The keeper on record k has come to its end.
Ended(k) == k.session = 0 \/ k.failed \/ RetiredKeeper(k.session)

\* Processes stay at their stages; only a stop may have been asked for.
SameStages == \A s \in Sessions : proc'[s].at = proc[s].at /\ proc'[s].host = proc[s].host

\* The record of a setup's keeper is kept, dropped or marked when the keeper has ended, or
\* the keeper is asked to retire: because it started too late, or in a setup without
\* instances.
Turn(e) ==
    LET k == keeper[e] IN
    \/ keeper'[e] = k
    \/ /\ keeper'[e] = NoKeeper /\ Ended(k)
       /\ k.session = 0 \/ k.failed \/ k.session \notin lease'
    \/ /\ keeper'[e] = [k EXCEPT !.failed = TRUE]
       /\ RetiredKeeper(k.session) /\ k.session \notin lease' /\ (k.retiring => k.pending)
    \/ keeper'[e] = [k EXCEPT !.retiring = TRUE, !.pending = TRUE]
    \/ /\ keeper'[e] = [k EXCEPT !.retiring = TRUE, !.pending = FALSE]
       /\ \A s \in lease : ~InstanceOf(s, e)

\* The leases that go are those of ended keepers, and D.
Drops(D) ==
    \A s \in lease \ lease' :
        s \in D \/ \E e \in Setups : s = keeper[e].session /\ RetiredKeeper(s)

\* What a look at every keeper does: records turn, leases go, stops are asked for.
Looks(D) ==
    /\ \A e \in Setups : Turn(e)
    /\ keeper' \in [Setups -> Keepers] /\ proc' \in [Sessions -> Procs]
    /\ lease' \subseteq lease /\ D \cap lease' = {} /\ Drops(D)
    /\ SameStages
    /\ UNCHANGED <<spec, generation, native>>

\* Session k is started as the keeper of setup e, whose last keeper has ended.
Starts(e, k, class, D) ==
    /\ held[e] = "none" /\ spec[k] = None /\ Ended(keeper[e])
    /\ keeper[e].session = 0 \/ keeper[e].failed \/ keeper[e].session \notin lease' \ {k}
    /\ keeper' = [keeper EXCEPT ![e] = [NoKeeper EXCEPT !.session = k]]
    /\ spec' = [spec EXCEPT ![k] = [kind |-> "keeper", class |-> class, setup |-> e]]
    /\ generation' = [generation EXCEPT ![k] = boot]
    /\ proc' = [proc EXCEPT ![k] = Started]
    /\ native' = [native EXCEPT ![k] = "gone"]
    /\ k \in lease' /\ lease' \subseteq lease \cup {k} /\ D \cap lease' = {} /\ Drops(D)

\* What observe_keeper finds.
LEMMA ObserveEffect ==
    ASSUME NEW k \in Keepers
    PROVE  /\ \/ /\ Observe(k).keeper = k /\ Observe(k).reaped = {}
                 /\ Observe(k).is \in {"absent", "failed"} => k.session = 0 \/ k.failed
              \/ /\ Observe(k).keeper = NoKeeper /\ Observe(k).is = "absent"
                 /\ Observe(k).reaped = {k.session}
                 /\ k.session # 0 /\ RetiredKeeper(k.session)
              \/ /\ Observe(k).keeper = [k EXCEPT !.failed = TRUE] /\ Observe(k).is = "failed"
                 /\ Observe(k).reaped = {k.session}
                 /\ k.session # 0 /\ RetiredKeeper(k.session) /\ (k.retiring => k.pending)
           /\ Observe(k).is = "ready" => ~k.retiring
           /\ Observe(k).is \in {"starting", "ready"} => Observe(k).keeper = k
<1>1. CASE k.session = 0
  BY <1>1 DEF Observe
<1>2. CASE k.session # 0 /\ k.failed
  BY <1>2 DEF Observe
<1>3. CASE k.session # 0 /\ ~k.failed /\ Exited(k.session) /\ ~RetiredKeeper(k.session)
  BY <1>3 DEF Observe
<1>4. CASE k.session # 0 /\ ~k.failed /\ Exited(k.session) /\ RetiredKeeper(k.session)
  <2>1. CASE k.retiring /\ ~k.pending
    BY <1>4, <2>1 DEF Observe
  <2>2. CASE ~(k.retiring /\ ~k.pending)
    BY <1>4, <2>2 DEF Observe
  <2> QED
    BY <2>1, <2>2
<1>5. CASE k.session # 0 /\ ~k.failed /\ ~Exited(k.session)
  BY <1>5 DEF Observe
<1> QED
  BY <1>1, <1>2, <1>3, <1>4, <1>5

\* What stage_keeper may do: leave the record as it was seen, ask the keeper to retire, or
\* start another once the last has ended.
StageResult(e, o) ==
    LET k == keeper[e] IN
    /\ o.start \in BOOLEAN
    /\ o.reaped \subseteq {k.session} /\ (o.reaped # {} => RetiredKeeper(k.session))
    /\ o.start =>
         /\ held[e] = "none" /\ o.is = "starting"
         /\ Ended(k) /\ (k.session = 0 \/ k.failed \/ k.session \in o.reaped)
    /\ ~o.start =>
         \/ o.keeper = k
         \/ /\ o.keeper = NoKeeper /\ Ended(k)
            /\ k.session = 0 \/ k.failed \/ k.session \in o.reaped
         \/ /\ o.keeper = [k EXCEPT !.failed = TRUE]
            /\ RetiredKeeper(k.session) /\ k.session \in o.reaped /\ (k.retiring => k.pending)
         \/ o.keeper = [k EXCEPT !.retiring = TRUE, !.pending = TRUE]
         \/ /\ o.keeper = [k EXCEPT !.retiring = TRUE, !.pending = FALSE]
            /\ \A s \in lease : ~InstanceOf(s, e)
    /\ o.is = "ready" =>
         ~o.start /\ held[e] = "none" /\ o.keeper = k /\ ~k.retiring /\ o.reaped = {}

\* Every result of stage_keeper is a turn of the setup's keeper or the start of a new one.
LEMMA StageEffect ==
    ASSUME Typed, NEW e \in Setups, NEW display \in BOOLEAN, NEW o \in Stage(e, display)
    PROVE  StageResult(e, o)
<1> DEFINE k == keeper[e]
           seen == Observe(k)
           result(new, what, stop, start) ==
             [keeper |-> new, is |-> what, reaped |-> seen.reaped, stop |-> stop, start |-> start]
           same == result(seen.keeper, seen.is, {}, FALSE)
           late == [result(Retire(k, TRUE), "retiring", {k.session}, FALSE) EXCEPT !.reaped = {}]
<1>k. k \in Keepers
  BY DEF Typed
<1>1. CASE held[e] # "none"
  <2>1. o = [result(k, "error", {}, FALSE) EXCEPT !.reaped = {}]
    BY <1>1 DEF Stage
  <2> QED
    BY <2>1 DEF StageResult
<1>2. CASE held[e] = "none"
  <2>1. \/ o = result(NoKeeper, "starting", {}, TRUE) /\ seen.is \in {"absent", "failed"}
        \/ o = result(NoKeeper, "error", {}, FALSE) /\ seen.is \in {"absent", "failed"}
        \/ o = result(Retire(k, FALSE), "retiring", {k.session}, FALSE) /\ Inactive(e)
             /\ seen.is \in {"starting", "ready"}
        \/ o = result(k, "error", {}, FALSE) /\ seen.is \in {"starting", "ready"}
        \/ o = late /\ seen.is = "starting"
        \/ o = same
    BY <1>2 DEF Stage
  <2> HIDE DEF seen
  <2>o. /\ \/ /\ seen.keeper = k /\ seen.reaped = {}
              /\ seen.is \in {"absent", "failed"} => k.session = 0 \/ k.failed
           \/ /\ seen.keeper = NoKeeper /\ seen.is = "absent" /\ seen.reaped = {k.session}
              /\ k.session # 0 /\ RetiredKeeper(k.session)
           \/ /\ seen.keeper = [k EXCEPT !.failed = TRUE] /\ seen.is = "failed"
              /\ seen.reaped = {k.session}
              /\ k.session # 0 /\ RetiredKeeper(k.session) /\ (k.retiring => k.pending)
        /\ seen.is = "ready" => ~k.retiring
        /\ seen.is \in {"starting", "ready"} => seen.keeper = k
    BY <1>k, ObserveEffect DEF seen
  <2>2. CASE o = result(NoKeeper, "starting", {}, TRUE) /\ seen.is \in {"absent", "failed"}
    BY <1>2, <2>o, <2>2 DEF StageResult, Ended
  <2>3. CASE o = result(NoKeeper, "error", {}, FALSE) /\ seen.is \in {"absent", "failed"}
    BY <2>o, <2>3 DEF StageResult, Ended
  <2>4. CASE /\ o = result(Retire(k, FALSE), "retiring", {k.session}, FALSE) /\ Inactive(e)
             /\ seen.is \in {"starting", "ready"}
    <3>1. \A s \in lease : ~InstanceOf(s, e)
      BY <2>4 DEF Inactive, LeasesIn, InstanceOf
    <3> QED
      BY <2>o, <2>4, <3>1 DEF StageResult, Retire
  <2>5. CASE o = result(k, "error", {}, FALSE) /\ seen.is \in {"starting", "ready"}
    BY <2>o, <2>5 DEF StageResult
  <2>6. CASE o = late /\ seen.is = "starting"
    BY <2>6 DEF StageResult, Retire
  <2>7. CASE o = same
    BY <1>2, <2>o, <2>7 DEF StageResult, Ended
  <2> QED
    BY <2>1, <2>2, <2>3, <2>4, <2>5, <2>6, <2>7
<1> QED
  BY <1>1, <1>2

\* A result of stage_keeper, applied.
LEMMA ApplyEffect ==
    ASSUME Typed, NEW e \in Setups, NEW o, StageResult(e, o), NEW class, NEW D,
           \A s \in D : spec[s] # None, ApplyStage(e, o, class, D)
    PROVE  IF o.start THEN \E k \in Sessions : Starts(e, k, class, D) ELSE Looks(D)
<1>k. keeper[e] \in Keepers /\ keeper \in [Setups -> Keepers] /\ proc \in [Sessions -> Procs]
  BY DEF Typed
<1>r. o.reaped \subseteq {keeper[e].session} /\ (o.reaped # {} => RetiredKeeper(keeper[e].session))
  BY DEF StageResult
<1>1. CASE o.start
  <2>1. PICK k \in Sessions :
          /\ Fresh(k)
          /\ keeper' = [keeper EXCEPT ![e] = [NoKeeper EXCEPT !.session = k]]
          /\ spec' = [spec EXCEPT ![k] = [kind |-> "keeper", class |-> class, setup |-> e]]
          /\ generation' = [generation EXCEPT ![k] = boot]
          /\ lease' = (lease \ (o.reaped \cup D)) \cup {k}
          /\ proc' = [proc EXCEPT ![k] = Started]
          /\ native' = [native EXCEPT ![k] = "gone"]
    BY <1>1 DEF ApplyStage
  <2>2. spec[k] = None /\ k \notin lease
    BY <2>1 DEF Fresh, Typed
  <2>3. D \cap lease' = {} /\ Drops(D) /\ k \in lease' /\ lease' \subseteq lease \cup {k}
    BY <1>r, <2>1, <2>2 DEF Drops
  <2>4. /\ held[e] = "none" /\ Ended(keeper[e])
        /\ keeper[e].session = 0 \/ keeper[e].failed \/ keeper[e].session \in o.reaped
    BY <1>1 DEF StageResult
  <2>5. keeper[e].session = 0 \/ keeper[e].failed \/ keeper[e].session \notin lease' \ {k}
    BY <2>1, <2>4
  <2> QED
    BY <1>1, <2>1, <2>2, <2>3, <2>4, <2>5 DEF Starts
<1>2. CASE ~o.start
  <2>1. /\ keeper' = [keeper EXCEPT ![e] = o.keeper]
        /\ lease' = lease \ (o.reaped \cup D)
        /\ proc' = [s \in Sessions |-> [proc[s] EXCEPT !.term = @ \/ s \in o.stop]]
        /\ UNCHANGED <<spec, generation, native>>
    BY <1>2 DEF ApplyStage
  <2>2. SameStages /\ proc' \in [Sessions -> Procs]
    BY <1>k, <2>1 DEF SameStages, Procs
  <2>3. lease' \subseteq lease /\ D \cap lease' = {} /\ Drops(D)
    BY <1>r, <2>1 DEF Drops
  <2>4. keeper'[e] = o.keeper /\ \A x \in Setups \ {e} : keeper'[x] = keeper[x]
    BY <1>k, <2>1
  <2>5. Turn(e) /\ keeper'[e] \in Keepers
    <3>1. \A s \in o.reaped : s \notin lease'
      BY <2>1
    <3>2. NoKeeper \in Keepers
      BY AdmissionAssumption DEF NoKeeper, Keepers
    <3>k. \A k \in Keepers : /\ [k EXCEPT !.failed = TRUE] \in Keepers
                             /\ [k EXCEPT !.retiring = TRUE, !.pending = TRUE] \in Keepers
                             /\ [k EXCEPT !.retiring = TRUE, !.pending = FALSE] \in Keepers
      BY DEF Keepers
    <3>3. keeper'[e] \in Keepers
      BY <1>2, <1>k, <2>4, <3>2, <3>k DEF StageResult
    <3>4. Turn(e)
      BY <1>2, <2>4, <3>1 DEF Turn, StageResult
    <3> QED
      BY <3>3, <3>4
  <2>6. \A x \in Setups : Turn(x)
    BY <2>4, <2>5 DEF Turn
  <2>7. keeper' \in [Setups -> Keepers]
    BY <1>k, <2>1, <2>4, <2>5
  <2> QED
    BY <1>2, <2>1, <2>2, <2>3, <2>6, <2>7 DEF Looks
<1> QED
  BY <1>1, <1>2 DEF StageResult

-----------------------------------------------------------------------------
(* The steps that look at keepers *)

\* The setup of an admission's class.
SetupFor(c) == SetupOf[worker[c].class]

\* The keeper is ready: nothing changes but the worker, and no process.
Readied(c) ==
    /\ held[SetupFor(c)] = "none" /\ ~keeper[SetupFor(c)].retiring
    /\ UNCHANGED <<keeper, spec, lease, generation, native>>
    /\ SameStages /\ proc' \in [Sessions -> Procs]

\* The keepers are looked at, or one is started.
Staged(c, D) ==
    \/ Looks(D)
    \/ \E k \in Sessions : Starts(SetupFor(c), k, worker[c].class, D)

\* The admission goes on and remembers the keeper it saw ready.
Advance(c, place) ==
    Move(c, [worker[c] EXCEPT !.at = place, !.seen = keeper[SetupFor(c)].session])

\* The outcomes of one round of wait_for_keeper.
AwaitSteps(c) ==
    \/ Quit(c) /\ UNCHANGED <<registryLock, keeper, spec, lease, generation, proc, native>>
    \/ Admits(worker[c]) /\ Readied(c) /\ Advance(c, "publish") /\ registryLock' = c
    \/ Readied(c) /\ Advance(c, "reserve") /\ UNCHANGED registryLock
    \/ Staged(c, {}) /\ Quit(c) /\ UNCHANGED registryLock
    \/ Staged(c, {}) /\ UNCHANGED <<worker, registryLock>>

\* A ready keeper is left as it is.
LEMMA ReadyEffect ==
    ASSUME Typed, NEW c \in Clients, worker[c].class \in Classes, NEW display \in BOOLEAN,
           NEW o \in Stage(SetupFor(c), display), o.is = "ready", NEW class,
           ApplyStage(SetupFor(c), o, class, {})
    PROVE  Readied(c)
<1> DEFINE e == SetupFor(c)
<1>e. e \in Setups
  BY AdmissionAssumption DEF SetupFor
<1> HIDE DEF e
<1>1. ~o.start /\ held[e] = "none" /\ o.keeper = keeper[e] /\ ~keeper[e].retiring /\ o.reaped = {}
  BY <1>e, StageEffect DEF StageResult, e
<1>2. /\ keeper' = [keeper EXCEPT ![e] = o.keeper]
      /\ lease' = lease \ (o.reaped \cup {})
      /\ proc' = [s \in Sessions |-> [proc[s] EXCEPT !.term = @ \/ s \in o.stop]]
      /\ UNCHANGED <<spec, generation, native>>
  BY <1>1 DEF ApplyStage, e
<1>3. keeper' = keeper /\ lease' = lease
  BY <1>1, <1>2, <1>e DEF Typed
<1>4. SameStages /\ proc' \in [Sessions -> Procs]
  BY <1>2 DEF SameStages, Procs, Typed
<1> QED
  BY <1>1, <1>2, <1>3, <1>4 DEF Readied, e

\* Whatever stage_keeper finds, keepers turn or one is started.
LEMMA StagedEffect ==
    ASSUME Typed, NEW c \in Clients, worker[c].class \in Classes, NEW display \in BOOLEAN,
           NEW o \in Stage(SetupFor(c), display), NEW D, \A s \in D : spec[s] # None,
           ApplyStage(SetupFor(c), o, worker[c].class, D)
    PROVE  Staged(c, D)
<1>e. SetupFor(c) \in Setups
  BY AdmissionAssumption DEF SetupFor
<1>1. StageResult(SetupFor(c), o)
  BY <1>e, StageEffect
<1> QED
  BY <1>e, <1>1, ApplyEffect DEF Staged

\* One round of wait_for_keeper.
LEMMA AwaitEffect ==
    ASSUME Typed, NEW c \in Clients, worker[c].class \in Classes, AwaitKeeper(c)
    PROVE  /\ up /\ worker[c].at \in {"await", "reserve"} /\ registryLock = None
           /\ UNCHANGED <<up, blocked, report, held, boot, faults>>
           /\ AwaitSteps(c)
<1> DEFINE again == worker[c].at = "reserve" \/ worker[c].kind = "inspection"
<1>1. /\ up /\ worker[c].at \in {"await", "reserve"} /\ registryLock = None
      /\ UNCHANGED <<up, blocked, report, held, boot, faults>>
  BY DEF AwaitKeeper
<1>2. \/ Quit(c) /\ UNCHANGED <<registryLock, keeper, spec, lease, generation, proc, native>>
      \/ /\ Admits(worker[c])
         /\ \E o \in Stage(SetupFor(c), ~again) :
              /\ ApplyStage(SetupFor(c), o, worker[c].class, {})
              /\ \/ /\ o.is = "ready"
                    /\ Advance(c, IF again THEN "publish" ELSE "reserve")
                    /\ registryLock' = IF again THEN c ELSE None
                 \/ Quit(c) /\ UNCHANGED registryLock
                 \/ UNCHANGED <<worker, registryLock>>
  BY DEF AwaitKeeper, SetupFor, Advance
<1>3. ASSUME Admits(worker[c]), NEW o \in Stage(SetupFor(c), ~again),
             ApplyStage(SetupFor(c), o, worker[c].class, {})
      PROVE  Staged(c, {}) /\ (o.is = "ready" => Readied(c))
  <2>1. (~again) \in BOOLEAN
    OBVIOUS
  <2>2. PICK display \in BOOLEAN : display = (~again)
    BY <2>1
  <2>3. o \in Stage(SetupFor(c), display)
    BY <1>3, <2>2
  <2>4. Staged(c, {})
    BY <1>3, <2>3, StagedEffect
  <2> QED
    BY <1>3, <2>3, <2>4, ReadyEffect
<1> QED
  BY <1>1, <1>2, <1>3 DEF AwaitSteps

\* The last look at the keeper.
LEMMA FinalEffect ==
    ASSUME Typed, NEW c \in Clients, worker[c].class \in Classes,
           spec[worker[c].session] # None, FinalStage(c)
    PROVE  /\ up /\ worker[c].at = "final" /\ FreeLock(c)
           /\ UNCHANGED <<up, blocked, report, held, boot, faults>>
           /\ \/ Readied(c) /\ Goto(c, "spawn")
              \/ Staged(c, {worker[c].session}) /\ Quit(c)
<1>1. /\ up /\ worker[c].at = "final" /\ FreeLock(c)
      /\ UNCHANGED <<up, blocked, report, held, boot, faults>>
  BY DEF FinalStage
<1>2. PICK o \in Stage(SetupFor(c), FALSE) :
         /\ ApplyStage(SetupFor(c), o, worker[c].class,
                       IF o.is = "ready" THEN {} ELSE {worker[c].session})
         /\ IF o.is = "ready" THEN Goto(c, "spawn") ELSE Quit(c)
  BY DEF FinalStage, SetupFor
<1>3. CASE o.is = "ready"
  BY <1>1, <1>2, <1>3, ReadyEffect
<1>4. CASE o.is # "ready"
  BY <1>1, <1>2, <1>4, StagedEffect
<1> QED
  BY <1>3, <1>4

\* A round of retire_idle_keepers turns keepers.
LEMMA IdleEffect ==
    ASSUME Typed, RetireIdle
    PROVE  /\ up /\ registryLock = None /\ Looks({})
           /\ UNCHANGED <<up, worker, registryLock, blocked, report, held, boot, faults>>
<1> DEFINE retiring == {e \in Setups : keeper[e].retiring /\ ~keeper[e].failed}
           stopped == {e \in retiring : Observe(keeper[e]).is = "error"}
           ask(e) == LET k == keeper[e] IN
                     /\ k.session # 0 /\ ~k.retiring /\ ~k.failed
                     /\ Vacant(e) /\ report[k.session] # "none" /\ ~Exited(k.session)
<1>1. /\ up /\ registryLock = None
      /\ UNCHANGED <<up, worker, registryLock, blocked, report, held, boot, faults>>
      /\ UNCHANGED <<spec, generation, native>>
  BY DEF RetireIdle
<1>2. PICK seen \in SUBSET (retiring \ stopped), old \in SUBSET {e \in Setups : ask(e)} :
         /\ stopped = {} => seen = retiring
         /\ stopped # {} \/ Owners("inspection") # {} \/ Disputed(Setups) => old = {}
         /\ seen \cup old # {}
         /\ keeper' = [e \in Setups |-> CASE e \in old -> Retire(keeper[e], FALSE)
                                           [] e \in seen -> Observe(keeper[e]).keeper
                                           [] OTHER -> keeper[e]]
         /\ lease' = lease \ UNION {Observe(keeper[e]).reaped : e \in seen}
         /\ proc' = [s \in Sessions |->
                       [proc[s] EXCEPT !.term = @ \/ \E e \in old : keeper[e].session = s]]
  BY Zenon DEF RetireIdle
<1>3. SameStages /\ proc' \in [Sessions -> Procs]
  <2>1. \A s \in Sessions : (proc[s].term \/ \E e \in old : keeper[e].session = s) \in BOOLEAN
    OBVIOUS
  <2> QED
    BY <1>2, <2>1 DEF SameStages, Procs, Typed
<1>4. \A e \in Setups : keeper[e] \in Keepers
  BY DEF Typed
<1>5. lease' \subseteq lease /\ {} \cap lease' = {} /\ Drops({})
  <2>1. ASSUME NEW s \in lease \ lease'
        PROVE  \E e \in Setups : s = keeper[e].session /\ RetiredKeeper(s)
    <3>1. PICK e \in seen : s \in Observe(keeper[e]).reaped
      BY <1>2
    <3>2. e \in Setups /\ keeper[e] \in Keepers
      BY <1>4, <3>1
    <3> QED
      <4>1. \/ Observe(keeper[e]).reaped = {}
            \/ Observe(keeper[e]).reaped = {keeper[e].session} /\ RetiredKeeper(keeper[e].session)
        BY <3>2, ObserveEffect
      <4> QED
        BY <3>1, <3>2, <4>1
  <2> QED
    BY <1>2, <2>1 DEF Drops
<1>6. ASSUME NEW e \in Setups PROVE Turn(e) /\ keeper'[e] \in Keepers
  <2>1. CASE e \in old
    <3>1. keeper'[e] = Retire(keeper[e], FALSE)
      BY <1>2, <2>1
    <3>2. \A s \in lease : ~InstanceOf(s, e)
      BY <1>2, <2>1 DEF Vacant, InstanceOf
    <3> QED
      BY <1>4, <3>1, <3>2 DEF Turn, Retire, Keepers
  <2>2. CASE e \in seen
    <3>1. keeper'[e] = Observe(keeper[e]).keeper
      BY <1>2, <2>2
    <3>2. \A s \in Observe(keeper[e]).reaped : s \notin lease'
      BY <1>2, <2>2
    <3>3. NoKeeper \in Keepers
      BY AdmissionAssumption DEF NoKeeper, Keepers
    <3>4. [keeper[e] EXCEPT !.failed = TRUE] \in Keepers
      BY <1>4 DEF Keepers
    <3> QED
      BY <1>4, <3>1, <3>2, <3>3, <3>4, ObserveEffect DEF Turn, Ended
  <2>3. CASE e \notin old /\ e \notin seen
    BY <1>2, <1>4, <2>3 DEF Turn
  <2> QED
    BY <2>1, <2>2, <2>3
<1>7. keeper' \in [Setups -> Keepers]
  BY <1>2, <1>6
<1> QED
  BY <1>1, <1>3, <1>5, <1>6, <1>7 DEF Looks

\* A round of retire_vendor_keeper turns the keeper of a reserved setup, and tells the
\* operator when no lease of the setup is left.
LEMMA VendorEffect ==
    ASSUME Typed, NEW e \in Setups, RetireVendor(e)
    PROVE  /\ up /\ registryLock = None /\ Looks({}) /\ held[e] = "reserved"
           /\ \/ UNCHANGED held
              \/ held' = [held EXCEPT ![e] = "exclusive"] /\ \A s \in lease' : spec[s].setup # e
           /\ UNCHANGED <<up, worker, registryLock, blocked, report, boot, faults>>
<1> DEFINE o == Observe(keeper[e])
           k == IF o.is = "failed" THEN NoKeeper ELSE o.keeper
<1>1. /\ up /\ registryLock = None /\ held[e] = "reserved" /\ Inactive(e) /\ o.is # "error"
      /\ lease' = lease \ o.reaped
      /\ UNCHANGED <<up, worker, registryLock, blocked, report, boot, faults>>
      /\ UNCHANGED <<spec, generation, native>>
  BY DEF RetireVendor
<1>2. \/ /\ k.session # 0
         /\ keeper' = [keeper EXCEPT ![e] = IF k.retiring THEN k ELSE Retire(k, FALSE)]
         /\ proc' = Asked(k.session)
         /\ UNCHANGED held
      \/ /\ k.session = 0
         /\ keeper' = [keeper EXCEPT ![e] = NoKeeper]
         /\ held' = IF LeasesIn(e) \subseteq o.reaped
                    THEN [held EXCEPT ![e] = "exclusive"] ELSE held
         /\ UNCHANGED proc
  BY DEF RetireVendor
<1>k. keeper[e] \in Keepers /\ keeper \in [Setups -> Keepers] /\ proc \in [Sessions -> Procs]
  BY DEF Typed
<1>n. NoKeeper \in Keepers /\ NoKeeper.session = 0
  BY AdmissionAssumption DEF NoKeeper, Keepers
<1>i. \A s \in lease : ~InstanceOf(s, e)
  BY <1>1 DEF Inactive, LeasesIn, InstanceOf
<1> HIDE DEF o
<1>o. /\ \/ /\ o.keeper = keeper[e] /\ o.reaped = {}
            /\ o.is \in {"absent", "failed"} => keeper[e].session = 0 \/ keeper[e].failed
         \/ /\ o.keeper = NoKeeper /\ o.is = "absent" /\ o.reaped = {keeper[e].session}
            /\ keeper[e].session # 0 /\ RetiredKeeper(keeper[e].session)
         \/ /\ o.is = "failed" /\ o.reaped = {keeper[e].session}
            /\ keeper[e].session # 0 /\ RetiredKeeper(keeper[e].session)
  BY <1>k, ObserveEffect DEF o
<1>3. lease' \subseteq lease /\ {} \cap lease' = {} /\ Drops({})
  BY <1>1, <1>o DEF Drops
<1>4. SameStages /\ proc' \in [Sessions -> Procs]
  <2>1. CASE proc' = proc
    BY <1>k, <2>1 DEF SameStages
  <2>2. ASSUME NEW x, proc' = [proc EXCEPT ![x].term = TRUE]
        PROVE  SameStages /\ proc' \in [Sessions -> Procs]
    BY <1>k, <2>2 DEF SameStages, Procs
  <2> QED
    BY <1>2, <2>1, <2>2 DEF Asked
<1>5. Turn(e) /\ keeper'[e] \in Keepers /\ \A x \in Setups \ {e} : keeper'[x] = keeper[x]
  <2>1. CASE k.session # 0
    <3>1. k = keeper[e]
      BY <1>o, <1>n, <2>1
    <3>2. /\ keeper'[e] \in {keeper[e], Retire(keeper[e], FALSE)}
          /\ \A x \in Setups \ {e} : keeper'[x] = keeper[x]
      BY <1>2, <1>k, <2>1, <3>1
    <3> QED
      BY <1>k, <1>i, <3>2 DEF Turn, Retire, Keepers
  <2>2. CASE k.session = 0
    <3>1. keeper'[e] = NoKeeper /\ \A x \in Setups \ {e} : keeper'[x] = keeper[x]
      BY <1>2, <1>k, <2>2
    <3>2. /\ Ended(keeper[e])
          /\ keeper[e].session = 0 \/ keeper[e].failed \/ keeper[e].session \notin lease'
      BY <1>1, <1>o, <2>2 DEF Ended
    <3> QED
      BY <1>n, <3>1, <3>2 DEF Turn
  <2> QED
    BY <2>1, <2>2
<1>6. (\A x \in Setups : Turn(x)) /\ keeper' \in [Setups -> Keepers]
  BY <1>2, <1>5, <1>k DEF Turn
<1>7. \/ UNCHANGED held
      \/ held' = [held EXCEPT ![e] = "exclusive"] /\ \A s \in lease' : spec[s].setup # e
  BY <1>1, <1>2 DEF LeasesIn
<1> QED
  BY <1>1, <1>3, <1>4, <1>6, <1>7 DEF Looks

-----------------------------------------------------------------------------
(* The kinds of steps *)

\* What every step of keepers leaves alone.
Apart == UNCHANGED <<up, blocked, report, boot, faults>>

\* A worker gives its admission up, with the leases D.
Leaving(c, D) ==
    /\ up /\ Quit(c) /\ FreeLock(c) /\ UNCHANGED held
    /\ \/ worker[c].at \in {"await", "reserve"} /\ registryLock = None /\ D = {}
       \/ worker[c].at = "final" /\ D = {worker[c].session}

\* The keeper is ready: the admission goes on to verify the files.
ReadyReserve(c) ==
    /\ worker[c].at \in {"await", "reserve"} /\ Readied(c) /\ Apart
    /\ Advance(c, "reserve") /\ UNCHANGED <<registryLock, held>>

\* The checks have passed: from here to the last look registry.lock is kept.
ReadyPublish(c) ==
    /\ worker[c].at \in {"await", "reserve"} /\ Readied(c) /\ Apart
    /\ registryLock = None /\ Admits(worker[c])
    /\ Advance(c, "publish") /\ registryLock' = c /\ UNCHANGED held

\* The last look found the keeper ready.
ReadySpawn(c) ==
    /\ worker[c].at = "final" /\ Readied(c) /\ Apart
    /\ Goto(c, "spawn") /\ FreeLock(c) /\ UNCHANGED held

\* Keepers turn while no admission is under registry.lock, and an operator may learn that
\* its setup is free.
TurnAlone ==
    /\ up /\ registryLock = None /\ Looks({}) /\ Apart
    /\ UNCHANGED <<worker, registryLock>>
    /\ \/ UNCHANGED held
       \/ \E e \in Setups : /\ held[e] = "reserved" /\ held' = [held EXCEPT ![e] = "exclusive"]
                            /\ \A s \in lease' : spec[s].setup # e

\* Keepers turn and the worker that looked gives up.
TurnLeaving(c) == \E D \in SUBSET Sessions : Leaving(c, D) /\ Looks(D) /\ Apart

\* A keeper is started, and the worker waits for it.
StartAlone(c) ==
    /\ up /\ registryLock = None /\ Apart /\ UNCHANGED <<worker, registryLock, held>>
    /\ worker[c].class \in Classes
    /\ \E k \in Sessions : Starts(SetupFor(c), k, worker[c].class, {})

\* A keeper is started, and the worker gives up.
StartLeaving(c) ==
    /\ worker[c].class \in Classes /\ Apart
    /\ \E D \in SUBSET Sessions, k \in Sessions :
         Leaving(c, D) /\ Starts(SetupFor(c), k, worker[c].class, D)

\* The steps of an admission that do not look at a keeper, and those that do.
Admitting(c) ==
    Request(c) \/ Refuse(c) \/ Publish(c) \/ Spawn(c) \/ Expose(c) \/ Unready(c) \/ Finish(c)

Keeping(c) ==
    \/ ReadyReserve(c) \/ ReadyPublish(c) \/ ReadySpawn(c)
    \/ TurnLeaving(c) \/ StartAlone(c) \/ StartLeaving(c)

\* The steps of an operator, of processes and the DAW, and of the service's death and return.
Reserving(e) == Acquire(e) \/ Enter(e) \/ Release(e)

Running(s) == Supervisor(s) \/ Daw(s) \/ Kill(s)

Failing == Crash \/ KillGroup \/ PowerFailure \/ Start

\* Every step of the service is of one of these kinds.
LEMMA StepKinds ==
    ASSUME TypeOK, SessionInv, Next
    PROVE  \/ \E c \in Clients : Admitting(c) \/ Keeping(c)
           \/ \E e \in Setups : Reserving(e)
           \/ \E s \in Sessions : Running(s)
           \/ TurnAlone \/ Refresh \/ Failing
<1>t. Typed
  BY TypesNamed
<1>1. ASSUME NEW c \in Clients, AwaitKeeper(c) PROVE Refuse(c) \/ Keeping(c) \/ TurnAlone
  <2>1. worker[c].class \in Classes
    BY <1>1 DEF AwaitKeeper, SessionInv
  <2>2. /\ up /\ worker[c].at \in {"await", "reserve"} /\ registryLock = None
        /\ UNCHANGED <<up, blocked, report, held, boot, faults>>
        /\ AwaitSteps(c)
    BY <1>t, <1>1, <2>1, AwaitEffect
  <2>3. CASE Quit(c) /\ UNCHANGED <<registryLock, keeper, spec, lease, generation, proc, native>>
    BY <2>2, <2>3 DEF Refuse, FreeLock, disk
  <2>4. CASE Admits(worker[c]) /\ Readied(c) /\ Advance(c, "publish") /\ registryLock' = c
    BY <2>2, <2>4 DEF Keeping, ReadyPublish, Apart
  <2>5. CASE Readied(c) /\ Advance(c, "reserve") /\ UNCHANGED registryLock
    BY <2>2, <2>5 DEF Keeping, ReadyReserve, Apart
  <2>6. CASE Staged(c, {}) /\ Quit(c) /\ UNCHANGED registryLock
    <3>1. Leaving(c, {}) /\ {} \in SUBSET Sessions /\ Apart
      BY <2>2, <2>6 DEF Leaving, FreeLock, Apart
    <3>2. CASE Looks({})
      BY <3>1, <3>2 DEF Keeping, TurnLeaving
    <3>3. CASE \E k \in Sessions : Starts(SetupFor(c), k, worker[c].class, {})
      BY <2>1, <3>1, <3>3 DEF Keeping, StartLeaving
    <3> QED
      BY <2>6, <3>2, <3>3 DEF Staged
  <2>7. CASE Staged(c, {}) /\ UNCHANGED <<worker, registryLock>>
    <3>1. CASE Looks({})
      BY <2>2, <2>7, <3>1 DEF TurnAlone, Apart
    <3>2. CASE \E k \in Sessions : Starts(SetupFor(c), k, worker[c].class, {})
      BY <2>1, <2>2, <2>7, <3>2 DEF Keeping, StartAlone, Apart
    <3> QED
      BY <2>7, <3>1, <3>2 DEF Staged
  <2> QED
    BY <2>2, <2>3, <2>4, <2>5, <2>6, <2>7 DEF AwaitSteps
<1>2. ASSUME NEW c \in Clients, FinalStage(c) PROVE Keeping(c)
  <2>1. worker[c].at = "final"
    BY <1>2 DEF FinalStage
  <2>2. worker[c].class \in Classes /\ worker[c].session \in Sessions
    BY <2>1 DEF SessionInv, Before
  <2>3. spec[worker[c].session] # None
    <3>1. /\ spec[worker[c].session] = [kind |-> worker[c].kind, class |-> worker[c].class,
                                        setup |-> SetupFor(c)]
          /\ SetupFor(c) \in Setups /\ worker[c].kind \in {"dsp", "inspection"}
      BY <2>1, <2>2, <1>t, AdmissionAssumption DEF SessionInv, Before, SetupFor, Typed, Workers
    <3>2. spec[worker[c].session] \in Specs
      BY <2>2, <3>1 DEF Specs
    <3> QED
      BY <3>2, SpecIsNotNone
  <2>4. /\ up /\ FreeLock(c) /\ UNCHANGED <<up, blocked, report, held, boot, faults>>
        /\ \/ Readied(c) /\ Goto(c, "spawn")
           \/ Staged(c, {worker[c].session}) /\ Quit(c)
    BY <1>t, <1>2, <2>2, <2>3, FinalEffect
  <2>5. CASE Readied(c) /\ Goto(c, "spawn")
    BY <2>1, <2>4, <2>5 DEF Keeping, ReadySpawn, Apart
  <2>6. CASE Staged(c, {worker[c].session}) /\ Quit(c)
    <3>1. /\ Leaving(c, {worker[c].session}) /\ {worker[c].session} \in SUBSET Sessions /\ Apart
      BY <2>1, <2>2, <2>4, <2>6 DEF Leaving, Apart
    <3>2. CASE Looks({worker[c].session})
      BY <3>1, <3>2 DEF Keeping, TurnLeaving
    <3>3. CASE \E k \in Sessions :
                 Starts(SetupFor(c), k, worker[c].class, {worker[c].session})
      BY <2>2, <3>1, <3>3 DEF Keeping, StartLeaving
    <3> QED
      BY <2>6, <3>2, <3>3 DEF Staged
  <2> QED
    BY <2>4, <2>5, <2>6
<1>3. ASSUME RetireIdle PROVE TurnAlone
  BY <1>t, <1>3, IdleEffect DEF TurnAlone, Apart
<1>4. ASSUME NEW e \in Setups, RetireVendor(e) PROVE TurnAlone
  BY <1>t, <1>4, VendorEffect DEF TurnAlone, Apart
<1> QED
  BY <1>1, <1>2, <1>3, <1>4
     DEF Next, Worker, Operator, Admitting, Reserving, Running, Failing

\* The processes of every session only come closer to their end.
Waning ==
    \A s \in Sessions :
        /\ proc'[s].at = "none" <=> proc[s].at = "none"
        /\ Alive(s)' => Alive(s)
        /\ Active(s)' => Active(s)

\* Processes at their stages are as active as they were.
LEMMA SameIsWaning == ASSUME SameStages PROVE Waning
  BY DEF SameStages, Waning, Active, Alive

\* Supervisors, kills and deaths of the service end processes and start none.
LEMMA RunningWanes == ASSUME Typed, NEW s \in Sessions, Running(s) PROVE Waning
<1>1. proc \in [Sessions -> Procs]
  BY DEF Typed
<1> USE <1>1 DEF Waning, Active, Alive, SetProc, Procs
<1>2. CASE Preflight(s)
  BY <1>2 DEF Preflight
<1>3. CASE Launch(s)
  BY <1>3 DEF Launch
<1>4. CASE End(s)
  BY <1>4 DEF End
<1>5. CASE RetireTransport(s)
  BY <1>5 DEF RetireTransport
<1>6. CASE Keep(s)
  BY <1>6 DEF Keep
<1>7. CASE Daw(s)
  BY <1>7 DEF Daw
<1>8. CASE Kill(s)
  BY <1>8 DEF Kill
<1> QED
  BY <1>2, <1>3, <1>4, <1>5, <1>6, <1>7, <1>8 DEF Running, Supervisor

\* Emptied leaves nothing of any session.
LEMMA EmptiedIsInactive ==
    ASSUME Typed, proc' = Emptied
    PROVE  /\ proc' \in [Sessions -> Procs] /\ Waning
           /\ \A s \in Sessions : /\ proc'[s].at \in {"none", "retired", "failed"}
                                  /\ proc'[s].at \in {"retired", "failed"} => ~proc'[s].host
                                  /\ proc'[s].at = "none" => proc'[s] = proc[s]
                                  /\ Exited(s) => proc'[s].at = proc[s].at
  BY DEF Typed, Emptied, Procs, Stages, Waning, Active, Alive, Exited

\* So do the death of the service, of its control group and of the kernel.
LEMMA FailingWanes == ASSUME Typed, Failing PROVE Waning
<1>1. CASE Crash
  BY <1>1 DEF Crash, Waning, Active, Alive, Typed, Procs
<1>2. CASE KillGroup \/ PowerFailure
  BY <1>2, EmptiedIsInactive DEF KillGroup, PowerFailure
<1>3. CASE Start
  BY <1>3 DEF Start, Waning, Active, Alive
<1> QED
  BY <1>1, <1>2, <1>3 DEF Failing

\* A worker with an admission has a class, and the class a setup.
LEMMA AdmissionsHaveSetups ==
    ASSUME SessionInv, NEW c \in Clients, worker[c].at # "idle"
    PROVE  worker[c].class \in Classes /\ SetupFor(c) \in Setups
  BY AdmissionAssumption DEF SessionInv, SetupFor

\* The session of an admission was created, with the admission's kind.
LEMMA SessionsExist ==
    ASSUME TypeOK, SessionInv, NEW c \in Clients, worker[c].at \notin Before
    PROVE  /\ worker[c].session \in Sessions /\ spec[worker[c].session] # None
           /\ spec[worker[c].session].kind = worker[c].kind
           /\ spec[worker[c].session].class = worker[c].class
           /\ spec[worker[c].session].setup = SetupFor(c)
<1>1. /\ worker[c].session \in Sessions
      /\ spec[worker[c].session] = [kind |-> worker[c].kind, class |-> worker[c].class,
                                    setup |-> SetupFor(c)]
      /\ worker[c].kind \in {"dsp", "inspection"}
  BY TypesNamed DEF SessionInv, Before, SetupFor, Typed, Workers
<1>2. worker[c].class \in Classes /\ SetupFor(c) \in Setups
  BY AdmissionsHaveSetups DEF Before
<1>3. spec[worker[c].session] \in Specs
  BY <1>1, <1>2 DEF Specs
<1> QED
  BY <1>1, <1>3, SpecIsNotNone

\* The variables that hold no records of sessions, admissions or keepers.
PlainTypes ==
    /\ up \in BOOLEAN /\ registryLock \in Clients \cup {None}
    /\ generation \in [Sessions -> 0 .. MaxFaults + 1]
    /\ report \in [Sessions -> {"none", "ready", "retired", "unconfirmed"}]
    /\ native \in [Sessions -> {"none", "bound", "control", "gone"}]
    /\ held \in [Setups -> {"none", "reserved", "exclusive"}]
    /\ boot \in 1 .. MaxFaults + 1 /\ faults \in 0 .. MaxFaults

\* Records and leases: only created sessions have one.
SessionTypes ==
    /\ spec \in [Sessions -> Specs \cup {None}]
    /\ lease \subseteq Sessions /\ blocked \subseteq Sessions
    /\ \A s \in lease : spec[s] # None

\* Nothing that matters of the session changes.
Untouched(s) ==
    /\ proc'[s].at = proc[s].at /\ proc'[s].host = proc[s].host
    /\ report'[s] = report[s] /\ native'[s] = native[s]
    /\ spec'[s] = spec[s] /\ generation'[s] = generation[s] /\ boot' = boot

\* A session that is not touched stays consistent.
LEMMA UntouchedStays == ASSUME NEW s, Consistent(s), Untouched(s) PROVE Consistent(s)'
  BY DEF Untouched, Consistent, Active, Alive

\* A supervisor, the DAW or a kill touches nothing of the service.
LEMMA RunningFrame ==
    ASSUME native \in [Sessions -> {"none", "bound", "control", "gone"}],
           NEW s \in Sessions, Running(s)
    PROVE  /\ UNCHANGED <<up, worker, registryLock, blocked, keeper, spec, lease, generation,
                          held, boot>>
           /\ \A x \in Sessions : native[x] = "none" => native'[x] = "none"
<1> USE DEF ServiceSide, disk
<1>1. CASE Supervisor(s)
  BY <1>1 DEF Supervisor, Preflight, Launch, End, RetireTransport, Keep
<1>2. CASE Daw(s)
  BY <1>2 DEF Daw
<1>3. CASE Kill(s)
  BY <1>3 DEF Kill
<1> QED
  BY <1>1, <1>2, <1>3 DEF Running

\* Sets of sessions are finite and counted; one more session is one more.
LEMMA SessionsCounted ==
    ASSUME NEW S \in SUBSET Sessions
    PROVE  /\ IsFiniteSet(S) /\ Cardinality(S) \in Nat
           /\ \A T \in SUBSET S : Cardinality(T) <= Cardinality(S)
           /\ \A x \in Sessions : Cardinality(S \cup {x}) <= Cardinality(S) + 1
<1>1. IsFiniteSet(Sessions)
  BY AdmissionAssumption, FS_Interval DEF Sessions
<1>2. IsFiniteSet(S)
  BY <1>1, FS_Subset
<1>3. Cardinality(S) \in Nat
  BY <1>2, FS_CardinalityType
<1>4. \A T \in SUBSET S : Cardinality(T) <= Cardinality(S)
  BY <1>2, FS_Subset
<1>5. ASSUME NEW x \in Sessions PROVE Cardinality(S \cup {x}) <= Cardinality(S) + 1
  <2>1. Cardinality(S \cup {x}) = IF x \in S THEN Cardinality(S) ELSE Cardinality(S) + 1
    BY <1>2, FS_AddElement
  <2> QED
    BY <1>3, <2>1
<1> QED
  BY <1>2, <1>3, <1>4, <1>5

\* A ceiling that is not reached has room for one more.
LEMMA OneMoreFits ==
    ASSUME NEW a \in Nat, NEW b \in Nat, NEW n \in Nat, a < n, b <= a + 1
    PROVE  b <= n
  OBVIOUS

\* The record of an admission keeps its type.
LEMMA WorkersTyped == ASSUME TypeOK, SessionsInv, Next PROVE worker' \in [Clients -> Workers]
<1>a. /\ worker \in [Clients -> Workers]
      /\ keeper \in [Setups -> Keepers]
  BY TypesNamed DEF Typed, TypeOK
<1> USE <1>a
<1>b. 0 \in 0 .. MaxSession /\ Sessions \subseteq 0 .. MaxSession
  BY AdmissionAssumption DEF Sessions
<1> USE <1>b
<1> USE DEF Move, Goto, Quit, FreeLock, disk, Apart, Readied, Advance, Leaving,
           ServiceSide, SetProc, Fault, Forget, Workers, Idle, Places
<1>1. ASSUME NEW c \in Clients, Admitting(c) PROVE worker' \in [Clients -> Workers]
  <2>1. CASE Request(c)
    <3>1. PICK class \in Classes, kind \in {"dsp", "inspection"} :
            worker' = [worker EXCEPT ![c] = [Idle EXCEPT !.at = "await", !.kind = kind,
                                                         !.class = class]]
      BY <2>1 DEF Request
    <3>2. [Idle EXCEPT !.at = "await", !.kind = kind, !.class = class] \in Workers
      OBVIOUS
    <3> QED
      BY <3>1, <3>2
  <2>2. CASE Refuse(c)
    BY <2>2 DEF Refuse
  <2>3. CASE Publish(c)
    <3>1. PICK x \in Sessions :
            worker' = [worker EXCEPT ![c] = [worker[c] EXCEPT
                         !.at = IF worker[c].kind = "dsp" THEN "final" ELSE "spawn", !.session = x]]
      BY <2>3 DEF Publish
    <3>2. worker[c] \in Workers
      OBVIOUS
    <3>3. [worker[c] EXCEPT !.at = IF worker[c].kind = "dsp" THEN "final" ELSE "spawn",
                            !.session = x] \in Workers
      BY <3>2
    <3> QED
      BY <3>1, <3>3
  <2>4. CASE Spawn(c)
    BY <2>4 DEF Spawn
  <2>5. CASE Expose(c)
    BY <2>5 DEF Expose
  <2>6. CASE Unready(c)
    BY <2>6 DEF Unready
  <2>7. CASE Finish(c)
    BY <2>7 DEF Finish
  <2> QED
    BY <1>1, <2>1, <2>2, <2>3, <2>4, <2>5, <2>6, <2>7 DEF Admitting
<1>2. ASSUME NEW c \in Clients, Keeping(c) PROVE worker' \in [Clients -> Workers]
  <2>1. CASE ReadyReserve(c)
    <3>1. SetupFor(c) \in Setups
      BY <2>1, AdmissionsHaveSetups DEF ReadyReserve, SessionsInv
    <3>2. keeper[SetupFor(c)].session \in 0 .. MaxSession
      BY <3>1 DEF Keepers
    <3> QED
      BY <2>1, <3>2 DEF ReadyReserve
  <2>2. CASE ReadyPublish(c)
    <3>1. SetupFor(c) \in Setups
      BY <2>2, AdmissionsHaveSetups DEF ReadyPublish, SessionsInv
    <3>2. keeper[SetupFor(c)].session \in 0 .. MaxSession
      BY <3>1 DEF Keepers
    <3> QED
      BY <2>2, <3>2 DEF ReadyPublish
  <2>3. CASE ReadySpawn(c)
    BY <2>3 DEF ReadySpawn
  <2>4. CASE TurnLeaving(c)
    BY <2>4 DEF TurnLeaving
  <2>5. CASE StartAlone(c)
    BY <2>5 DEF StartAlone
  <2>6. CASE StartLeaving(c)
    BY <2>6 DEF StartLeaving
  <2> QED
    BY <1>2, <2>1, <2>2, <2>3, <2>4, <2>5, <2>6 DEF Keeping
<1>3. ASSUME NEW e \in Setups, Reserving(e) PROVE worker' \in [Clients -> Workers]
  <2>1. CASE Acquire(e)
    BY <2>1 DEF Acquire
  <2>2. CASE Enter(e)
    BY <2>2 DEF Enter
  <2>3. CASE Release(e)
    BY <2>3 DEF Release
  <2> QED
    BY <1>3, <2>1, <2>2, <2>3 DEF Reserving
<1>4. ASSUME NEW s \in Sessions, Running(s) PROVE worker' \in [Clients -> Workers]
  <2>1. CASE Preflight(s)
    BY <2>1 DEF Preflight
  <2>2. CASE Launch(s)
    BY <2>2 DEF Launch
  <2>3. CASE End(s)
    BY <2>3 DEF End
  <2>4. CASE RetireTransport(s)
    BY <2>4 DEF RetireTransport
  <2>5. CASE Keep(s)
    BY <2>5 DEF Keep
  <2>6. CASE Daw(s)
    BY <2>6 DEF Daw
  <2>7. CASE Kill(s)
    BY <2>7 DEF Kill
  <2> QED
    BY <1>4, <2>1, <2>2, <2>3, <2>4, <2>5, <2>6, <2>7 DEF Running, Supervisor
<1>5. ASSUME TurnAlone PROVE worker' \in [Clients -> Workers]
  BY <1>5 DEF TurnAlone
<1>6. ASSUME Refresh PROVE worker' \in [Clients -> Workers]
  BY <1>6 DEF Refresh
<1>7. ASSUME Failing PROVE worker' \in [Clients -> Workers]
  <2>1. CASE Crash
    BY <2>1 DEF Crash
  <2>2. CASE KillGroup
    BY <2>2 DEF KillGroup
  <2>3. CASE PowerFailure
    BY <2>3 DEF PowerFailure
  <2>4. CASE Start
    BY <2>4 DEF Start
  <2> QED
    BY <1>7, <2>1, <2>2, <2>3, <2>4 DEF Failing
<1> QED
  BY <1>1, <1>2, <1>3, <1>4, <1>5, <1>6, <1>7, StepKinds DEF SessionsInv

\* The record of a keeper keeps its type.
LEMMA KeepersTyped == ASSUME TypeOK, SessionsInv, Next PROVE keeper' \in [Setups -> Keepers]
<1>a. /\ keeper \in [Setups -> Keepers]
  BY TypesNamed DEF Typed, TypeOK
<1> USE <1>a
<1>b. 0 \in 0 .. MaxSession /\ Sessions \subseteq 0 .. MaxSession
  BY AdmissionAssumption DEF Sessions
<1> USE <1>b
<1> USE DEF Move, Goto, Quit, FreeLock, disk, Apart, Readied, Advance, Leaving,
           ServiceSide, SetProc, Fault, Forget, Keepers, NoKeeper
<1>1. ASSUME NEW c \in Clients, Admitting(c) PROVE keeper' \in [Setups -> Keepers]
  BY <1>1 DEF Admitting, Request, Refuse, Publish, Spawn, Expose, Unready, Finish
<1>2. ASSUME NEW c \in Clients, Keeping(c) PROVE keeper' \in [Setups -> Keepers]
  <2>1. CASE ReadyReserve(c)
    BY <2>1 DEF ReadyReserve
  <2>2. CASE ReadyPublish(c)
    BY <2>2 DEF ReadyPublish
  <2>3. CASE ReadySpawn(c)
    BY <2>3 DEF ReadySpawn
  <2>4. CASE TurnLeaving(c)
    BY <2>4 DEF TurnLeaving, Looks
  <2>5. CASE StartAlone(c)
    <3>1. PICK k \in Sessions : Starts(SetupFor(c), k, worker[c].class, {})
      BY <2>5 DEF StartAlone
    <3> QED
      BY <2>5, <3>1 DEF Starts
  <2>6. CASE StartLeaving(c)
    <3>1. PICK D \in SUBSET Sessions, k \in Sessions :
             Leaving(c, D) /\ Starts(SetupFor(c), k, worker[c].class, D)
      BY <2>6 DEF StartLeaving
    <3> QED
      BY <2>6, <3>1 DEF Starts
  <2> QED
    BY <1>2, <2>1, <2>2, <2>3, <2>4, <2>5, <2>6 DEF Keeping
<1>3. ASSUME NEW e \in Setups, Reserving(e) PROVE keeper' \in [Setups -> Keepers]
  BY <1>3 DEF Reserving, Acquire, Enter, Release
<1>4. ASSUME NEW s \in Sessions, Running(s) PROVE keeper' \in [Setups -> Keepers]
  BY <1>4 DEF Running, Supervisor, Preflight, Launch, End, RetireTransport, Keep, Daw,
            Kill
<1>5. ASSUME TurnAlone PROVE keeper' \in [Setups -> Keepers]
  BY <1>5 DEF TurnAlone, Looks
<1>6. ASSUME Refresh PROVE keeper' \in [Setups -> Keepers]
  BY <1>6 DEF Refresh
<1>7. ASSUME Failing PROVE keeper' \in [Setups -> Keepers]
  <2>1. CASE Crash
    BY <2>1 DEF Crash
  <2>2. CASE KillGroup
    BY <2>2 DEF KillGroup
  <2>3. CASE PowerFailure
    BY <2>3 DEF PowerFailure
  <2>4. CASE Start
    BY <2>4 DEF Start
  <2> QED
    BY <1>7, <2>1, <2>2, <2>3, <2>4 DEF Failing
<1> QED
  BY <1>1, <1>2, <1>3, <1>4, <1>5, <1>6, <1>7, StepKinds DEF SessionsInv

\* The stage of a session's processes keeps its type.
LEMMA ProcsTyped == ASSUME TypeOK, SessionsInv, Next PROVE proc' \in [Sessions -> Procs]
<1>a. /\ proc \in [Sessions -> Procs]
  BY TypesNamed DEF Typed, TypeOK
<1> USE <1>a
<1> USE DEF Move, Goto, Quit, FreeLock, disk, Apart, Readied, Advance, Leaving,
           ServiceSide, SetProc, Fault, Forget, Procs, Stages, Started, NoProc
<1>1. ASSUME NEW c \in Clients, Admitting(c) PROVE proc' \in [Sessions -> Procs]
  <2>1. CASE Request(c)
    BY <2>1 DEF Request
  <2>2. CASE Refuse(c)
    BY <2>2 DEF Refuse
  <2>3. CASE Publish(c)
    BY <2>3 DEF Publish
  <2>4. CASE Spawn(c)
    BY <2>4 DEF Spawn
  <2>5. CASE Expose(c)
    BY <2>5 DEF Expose
  <2>6. CASE Unready(c)
    BY <2>6 DEF Unready
  <2>7. CASE Finish(c)
    BY <2>7 DEF Finish
  <2> QED
    BY <1>1, <2>1, <2>2, <2>3, <2>4, <2>5, <2>6, <2>7 DEF Admitting
<1>2. ASSUME NEW c \in Clients, Keeping(c) PROVE proc' \in [Sessions -> Procs]
  <2>1. CASE ReadyReserve(c)
    BY <2>1 DEF ReadyReserve
  <2>2. CASE ReadyPublish(c)
    BY <2>2 DEF ReadyPublish
  <2>3. CASE ReadySpawn(c)
    BY <2>3 DEF ReadySpawn
  <2>4. CASE TurnLeaving(c)
    BY <2>4 DEF TurnLeaving, Looks
  <2>5. CASE StartAlone(c)
    <3>1. PICK k \in Sessions : Starts(SetupFor(c), k, worker[c].class, {})
      BY <2>5 DEF StartAlone
    <3> QED
      BY <2>5, <3>1 DEF Starts
  <2>6. CASE StartLeaving(c)
    <3>1. PICK D \in SUBSET Sessions, k \in Sessions :
             Leaving(c, D) /\ Starts(SetupFor(c), k, worker[c].class, D)
      BY <2>6 DEF StartLeaving
    <3> QED
      BY <2>6, <3>1 DEF Starts
  <2> QED
    BY <1>2, <2>1, <2>2, <2>3, <2>4, <2>5, <2>6 DEF Keeping
<1>3. ASSUME NEW e \in Setups, Reserving(e) PROVE proc' \in [Sessions -> Procs]
  <2>1. UNCHANGED proc
    BY <1>3 DEF Reserving, Acquire, Enter, Release
  <2> QED
    BY <2>1
<1>4. ASSUME NEW s \in Sessions, Running(s) PROVE proc' \in [Sessions -> Procs]
  <2>1. CASE Preflight(s)
    <3>1. proc[s] \in Procs
      OBVIOUS
    <3>2. /\ [proc[s] EXCEPT !.at = "owner", !.said = TRUE] \in Procs
          /\ [proc[s] EXCEPT !.at = "failed"] \in Procs
      BY <3>1
    <3>3. \/ proc' = [proc EXCEPT ![s] = [proc[s] EXCEPT !.at = "owner", !.said = TRUE]]
          \/ proc' = [proc EXCEPT ![s] = [proc[s] EXCEPT !.at = "failed"]]
      BY <2>1 DEF Preflight
    <3> QED
      BY <3>2, <3>3
  <2>2. CASE Launch(s)
    BY <2>2 DEF Launch
  <2>3. CASE End(s)
    <3>1. \/ proc' = [proc EXCEPT ![s] = [proc[s] EXCEPT !.at = "closing", !.host = FALSE]]
          \/ \E h \in BOOLEAN :
               proc' = [proc EXCEPT ![s] = [proc[s] EXCEPT !.at = "failed", !.host = h]]
      BY <2>3 DEF End
    <3> QED
      BY <3>1
  <2>4. CASE RetireTransport(s)
    BY <2>4 DEF RetireTransport
  <2>5. CASE Keep(s)
    <3>1. \/ UNCHANGED proc
          \/ proc' = [proc EXCEPT ![s] = [proc[s] EXCEPT !.at = "failed"]]
          \/ proc' = [proc EXCEPT ![s] = [proc[s] EXCEPT !.at = "retired"]]
          \/ \E a \in {"hosting", "closing", "failed"}, h \in BOOLEAN :
               proc' = [proc EXCEPT ![s] = [proc[s] EXCEPT !.at = a, !.host = h]]
      BY <2>5 DEF Keep
    <3> QED
      BY <3>1
  <2>6. CASE Daw(s)
    BY <2>6 DEF Daw
  <2>7. CASE Kill(s)
    BY <2>7 DEF Kill
  <2> QED
    BY <1>4, <2>1, <2>2, <2>3, <2>4, <2>5, <2>6, <2>7 DEF Running, Supervisor
<1>5. ASSUME TurnAlone PROVE proc' \in [Sessions -> Procs]
  BY <1>5 DEF TurnAlone, Looks
<1>6. ASSUME Refresh PROVE proc' \in [Sessions -> Procs]
  BY <1>6 DEF Refresh
<1>7. ASSUME Failing PROVE proc' \in [Sessions -> Procs]
  <2>1. CASE Crash
    <3>1. \A s \in Sessions : (proc[s].term \/ Alive(s)) \in BOOLEAN
      BY DEF Alive
    <3> QED
      BY <2>1, <3>1 DEF Crash
  <2>2. CASE KillGroup
    BY <2>2, TypesNamed, EmptiedIsInactive DEF KillGroup
  <2>3. CASE PowerFailure
    BY <2>3, TypesNamed, EmptiedIsInactive DEF PowerFailure
  <2>4. CASE Start
    BY <2>4 DEF Start
  <2> QED
    BY <1>7, <2>1, <2>2, <2>3, <2>4 DEF Failing
<1> QED
  BY <1>1, <1>2, <1>3, <1>4, <1>5, <1>6, <1>7, StepKinds DEF SessionsInv

\* Only created sessions have a lease.
LEMMA SessionsTyped == ASSUME TypeOK, SessionsInv, Next PROVE SessionTypes'
<1>a. /\ worker \in [Clients -> Workers]
      /\ spec \in [Sessions -> Specs \cup {None}]
      /\ lease \subseteq Sessions /\ \A s \in lease : spec[s] # None
      /\ blocked \subseteq Sessions
  BY TypesNamed DEF Typed, TypeOK
<1> USE <1>a
<1> USE DEF Move, Goto, Quit, FreeLock, disk, Apart, Readied, Advance, Leaving,
           ServiceSide, SetProc, Fault, Forget, Settled, SessionTypes
<1>1. ASSUME NEW c \in Clients, Admitting(c) PROVE SessionTypes'
  <2>1. CASE Request(c)
    BY <2>1 DEF Request
  <2>2. CASE Refuse(c)
    BY <2>2 DEF Refuse
  <2>3. CASE Publish(c)
    <3>1. PICK x \in Sessions :
             /\ spec' = [spec EXCEPT ![x] = [kind |-> worker[c].kind, class |-> worker[c].class,
                                             setup |-> SetupOf[worker[c].class]]]
             /\ lease' \subseteq lease \cup {x}
      BY <2>3 DEF Publish
    <3>2. worker[c].class \in Classes /\ SetupOf[worker[c].class] \in Setups
      BY <2>3, AdmissionsHaveSetups DEF Publish, SessionsInv, SetupFor
    <3>3. [kind |-> worker[c].kind, class |-> worker[c].class,
           setup |-> SetupOf[worker[c].class]] \in Specs
      BY <3>2 DEF Specs, Workers
    <3>4. spec' \in [Sessions -> Specs \cup {None}] /\ spec'[x] # None
      BY <3>1, <3>3, SpecIsNotNone
    <3> QED
      BY <2>3, <3>1, <3>4 DEF Publish
  <2>4. CASE Spawn(c)
    <3>1. worker[c].session \in Sessions /\ spec[worker[c].session] # None
      BY <2>4, SessionsExist DEF Spawn, SessionsInv, Before
    <3> QED
      BY <2>4, <3>1 DEF Spawn
  <2>5. CASE Expose(c)
    BY <2>5 DEF Expose
  <2>6. CASE Unready(c)
    <3>1. worker[c].session \in Sessions /\ spec[worker[c].session] # None
      BY <2>6, SessionsExist DEF Unready, SessionsInv, Before
    <3> QED
      BY <2>6, <3>1 DEF Unready
  <2>7. CASE Finish(c)
    <3>1. worker[c].session \in Sessions /\ spec[worker[c].session] # None
      BY <2>7, SessionsExist DEF Finish, SessionsInv, Before
    <3> QED
      BY <2>7, <3>1 DEF Finish
  <2> QED
    BY <1>1, <2>1, <2>2, <2>3, <2>4, <2>5, <2>6, <2>7 DEF Admitting
<1>2. ASSUME NEW c \in Clients, Keeping(c) PROVE SessionTypes'
  <2>1. CASE ReadyReserve(c)
    BY <2>1 DEF ReadyReserve
  <2>2. CASE ReadyPublish(c)
    BY <2>2 DEF ReadyPublish
  <2>3. CASE ReadySpawn(c)
    BY <2>3 DEF ReadySpawn
  <2>4. CASE TurnLeaving(c)
    BY <2>4 DEF TurnLeaving, Looks
  <2>5. CASE StartAlone(c)
    <3>1. PICK k \in Sessions : Starts(SetupFor(c), k, worker[c].class, {})
      BY <2>5 DEF StartAlone
    <3>2. [kind |-> "keeper", class |-> worker[c].class, setup |-> SetupFor(c)] \in Specs
      BY <2>5, AdmissionAssumption DEF StartAlone, SetupFor, Specs
    <3>3. spec' \in [Sessions -> Specs \cup {None}] /\ spec'[k] # None
      BY <3>1, <3>2, SpecIsNotNone DEF Starts
    <3> QED
      BY <2>5, <3>1, <3>3 DEF Starts, StartAlone
  <2>6. CASE StartLeaving(c)
    <3>1. PICK D \in SUBSET Sessions, k \in Sessions :
             Leaving(c, D) /\ Starts(SetupFor(c), k, worker[c].class, D)
      BY <2>6 DEF StartLeaving
    <3>2. [kind |-> "keeper", class |-> worker[c].class, setup |-> SetupFor(c)] \in Specs
      BY <2>6, AdmissionAssumption DEF StartLeaving, SetupFor, Specs
    <3>3. spec' \in [Sessions -> Specs \cup {None}] /\ spec'[k] # None
      BY <3>1, <3>2, SpecIsNotNone DEF Starts
    <3> QED
      BY <2>6, <3>1, <3>3 DEF Starts, StartLeaving
  <2> QED
    BY <1>2, <2>1, <2>2, <2>3, <2>4, <2>5, <2>6 DEF Keeping
<1>3. ASSUME NEW e \in Setups, Reserving(e) PROVE SessionTypes'
  BY <1>3 DEF Reserving, Acquire, Enter, Release
<1>4. ASSUME NEW s \in Sessions, Running(s) PROVE SessionTypes'
  BY <1>4 DEF Running, Supervisor, Preflight, Launch, End, RetireTransport, Keep, Daw,
            Kill
<1>5. ASSUME TurnAlone PROVE SessionTypes'
  BY <1>5 DEF TurnAlone, Looks
<1>6. ASSUME Refresh PROVE SessionTypes'
  BY <1>6 DEF Refresh
<1>7. ASSUME Failing PROVE SessionTypes'
  <2>1. CASE Crash
    BY <2>1 DEF Crash
  <2>2. CASE KillGroup
    BY <2>2 DEF KillGroup
  <2>3. CASE PowerFailure
    BY <2>3 DEF PowerFailure
  <2>4. CASE Start
    BY <2>4 DEF Start
  <2> QED
    BY <1>7, <2>1, <2>2, <2>3, <2>4 DEF Failing
<1> QED
  BY <1>1, <1>2, <1>3, <1>4, <1>5, <1>6, <1>7, StepKinds DEF SessionsInv

\* The other variables keep their types; every restart of the kernel is a fault.
LEMMA PlainTyped == ASSUME TypeOK, SessionsInv, Next PROVE PlainTypes' /\ BootInv'
<1>a. /\ up \in BOOLEAN /\ registryLock \in Clients \cup {None}
      /\ generation \in [Sessions -> 0 .. MaxFaults + 1]
      /\ report \in [Sessions -> {"none", "ready", "retired", "unconfirmed"}]
      /\ native \in [Sessions -> {"none", "bound", "control", "gone"}]
      /\ held \in [Setups -> {"none", "reserved", "exclusive"}]
      /\ boot \in 1 .. MaxFaults + 1 /\ faults \in 0 .. MaxFaults
      /\ boot <= faults + 1
  BY TypesNamed DEF Typed, TypeOK, SessionsInv, BootInv
<1>b. MaxFaults \in Nat
  BY AdmissionAssumption
<1> USE <1>a, <1>b
<1> USE DEF Move, Goto, Quit, FreeLock, disk, Apart, Readied, Advance, Leaving,
           ServiceSide, SetProc, Fault, Forget, PlainTypes, BootInv
<1>1. ASSUME NEW c \in Clients, Admitting(c) PROVE PlainTypes' /\ BootInv'
  <2>1. CASE Request(c)
    BY <2>1 DEF Request
  <2>2. CASE Refuse(c)
    BY <2>2 DEF Refuse
  <2>3. CASE Publish(c)
    BY <2>3 DEF Publish
  <2>4. CASE Spawn(c)
    BY <2>4 DEF Spawn
  <2>5. CASE Expose(c)
    BY <2>5 DEF Expose
  <2>6. CASE Unready(c)
    BY <2>6 DEF Unready
  <2>7. CASE Finish(c)
    BY <2>7 DEF Finish
  <2> QED
    BY <1>1, <2>1, <2>2, <2>3, <2>4, <2>5, <2>6, <2>7 DEF Admitting
<1>2. ASSUME NEW c \in Clients, Keeping(c) PROVE PlainTypes' /\ BootInv'
  <2>1. CASE ReadyReserve(c)
    BY <2>1 DEF ReadyReserve
  <2>2. CASE ReadyPublish(c)
    BY <2>2 DEF ReadyPublish
  <2>3. CASE ReadySpawn(c)
    BY <2>3 DEF ReadySpawn
  <2>4. CASE TurnLeaving(c)
    BY <2>4 DEF TurnLeaving, Looks
  <2>5. CASE StartAlone(c)
    <3>1. PICK k \in Sessions : Starts(SetupFor(c), k, worker[c].class, {})
      BY <2>5 DEF StartAlone
    <3> QED
      BY <2>5, <3>1 DEF Starts, StartAlone
  <2>6. CASE StartLeaving(c)
    <3>1. PICK D \in SUBSET Sessions, k \in Sessions :
             Leaving(c, D) /\ Starts(SetupFor(c), k, worker[c].class, D)
      BY <2>6 DEF StartLeaving
    <3> QED
      BY <2>6, <3>1 DEF Starts, StartLeaving
  <2> QED
    BY <1>2, <2>1, <2>2, <2>3, <2>4, <2>5, <2>6 DEF Keeping
<1>3. ASSUME NEW e \in Setups, Reserving(e) PROVE PlainTypes' /\ BootInv'
  <2>1. CASE Acquire(e)
    BY <2>1 DEF Acquire
  <2>2. CASE Enter(e)
    BY <2>2 DEF Enter
  <2>3. CASE Release(e)
    BY <2>3 DEF Release
  <2> QED
    BY <1>3, <2>1, <2>2, <2>3 DEF Reserving
<1>4. ASSUME NEW s \in Sessions, Running(s) PROVE PlainTypes' /\ BootInv'
  <2>1. CASE Preflight(s)
    BY <2>1 DEF Preflight
  <2>2. CASE Launch(s)
    BY <2>2 DEF Launch
  <2>3. CASE End(s)
    BY <2>3 DEF End
  <2>4. CASE RetireTransport(s)
    BY <2>4 DEF RetireTransport
  <2>5. CASE Keep(s)
    BY <2>5 DEF Keep
  <2>6. CASE Daw(s)
    BY <2>6 DEF Daw
  <2>7. CASE Kill(s)
    BY <2>7 DEF Kill
  <2> QED
    BY <1>4, <2>1, <2>2, <2>3, <2>4, <2>5, <2>6, <2>7 DEF Running, Supervisor
<1>5. ASSUME TurnAlone PROVE PlainTypes' /\ BootInv'
  <2>1. /\ UNCHANGED <<up, registryLock, report, boot, faults, generation, native>>
        /\ held' = held \/ \E e \in Setups : held' = [held EXCEPT ![e] = "exclusive"]
    BY <1>5 DEF TurnAlone, Looks
  <2> QED
    BY <2>1
<1>6. ASSUME Refresh PROVE PlainTypes' /\ BootInv'
  BY <1>6 DEF Refresh
<1>7. ASSUME Failing PROVE PlainTypes' /\ BootInv'
  <2>1. CASE Crash
    <3>1. up' = FALSE /\ registryLock' = None /\ UNCHANGED <<generation, report, held>>
      BY <2>1 DEF Crash
    <3>2. faults < MaxFaults /\ faults' = faults + 1 /\ boot' = boot
      BY <2>1 DEF Crash
    <3>3. native' \in [Sessions -> {"none", "bound", "control", "gone"}]
      BY <2>1 DEF Crash
    <3>4. faults' \in 0 .. MaxFaults /\ boot' \in 1 .. MaxFaults + 1 /\ boot' <= faults' + 1
      BY <3>2
    <3>5. up' \in BOOLEAN
      BY <3>1
    <3> QED
      BY <3>1, <3>3, <3>4, <3>5
  <2>2. CASE KillGroup
    BY <2>2 DEF KillGroup
  <2>3. CASE PowerFailure
    <3>1. up' = FALSE /\ registryLock' = None /\ UNCHANGED <<generation, report, held>>
      BY <2>3 DEF PowerFailure
    <3>2. faults < MaxFaults /\ faults' = faults + 1 /\ boot' = boot + 1
      BY <2>3 DEF PowerFailure
    <3>3. native' \in [Sessions -> {"none", "bound", "control", "gone"}]
      BY <2>3 DEF PowerFailure
    <3>4. faults' \in 0 .. MaxFaults /\ boot' \in 1 .. MaxFaults + 1 /\ boot' <= faults' + 1
      BY <3>2
    <3>5. up' \in BOOLEAN
      BY <3>1
    <3> QED
      BY <3>1, <3>3, <3>4, <3>5
  <2>4. CASE Start
    BY <2>4 DEF Start
  <2> QED
    BY <1>7, <2>1, <2>2, <2>3, <2>4 DEF Failing
<1> QED
  BY <1>1, <1>2, <1>3, <1>4, <1>5, <1>6, <1>7, StepKinds DEF SessionsInv

\* Stages, reports and generations stay consistent.
LEMMA ProcKept == ASSUME TypeOK, SessionsInv, Next PROVE ProcInv'
<1>a. /\ proc \in [Sessions -> Procs]
      /\ spec \in [Sessions -> Specs \cup {None}]
      /\ worker \in [Clients -> Workers]
      /\ up \in BOOLEAN /\ registryLock \in Clients \cup {None}
      /\ generation \in [Sessions -> 0 .. MaxFaults + 1]
      /\ report \in [Sessions -> {"none", "ready", "retired", "unconfirmed"}]
      /\ native \in [Sessions -> {"none", "bound", "control", "gone"}]
      /\ held \in [Setups -> {"none", "reserved", "exclusive"}]
      /\ boot \in 1 .. MaxFaults + 1 /\ faults \in 0 .. MaxFaults
  BY TypesNamed DEF Typed, TypeOK
<1> USE <1>a
<1> USE DEF Move, Goto, Quit, FreeLock, disk, Apart, Readied, Advance, Leaving,
           ServiceSide, SetProc, Fault, Forget, ProcInv, SessionsInv
<1>1. ASSUME NEW c \in Clients, Admitting(c) PROVE ProcInv'
  <2>1. CASE Request(c)
    <3>1. \A x \in Sessions : Untouched(x)
      BY <2>1 DEF Request, Untouched
    <3> QED
      BY <3>1, UntouchedStays
  <2>2. CASE Refuse(c)
    <3>1. \A x \in Sessions : Untouched(x)
      BY <2>2 DEF Refuse, Untouched
    <3> QED
      BY <3>1, UntouchedStays
  <2>3. CASE Publish(c)
    <3>1. PICK k \in Sessions :
             /\ Fresh(k)
             /\ spec' = [spec EXCEPT ![k] = [kind |-> worker[c].kind, class |-> worker[c].class,
                                             setup |-> SetupOf[worker[c].class]]]
      BY <2>3 DEF Publish
    <3>2. UNCHANGED <<proc, report, native, generation, boot>>
      BY <2>3 DEF Publish
    <3>3. \A x \in Sessions \ {k} : Untouched(x)
      BY <3>1, <3>2 DEF Untouched
    <3>4. [kind |-> worker[c].kind, class |-> worker[c].class,
           setup |-> SetupOf[worker[c].class]] \in Specs
      BY <2>3, AdmissionsHaveSetups DEF Publish, SetupFor, Specs, Workers
    <3>5. spec'[k] # None /\ spec[k] = None /\ Consistent(k)
      BY <3>1, <3>4, SpecIsNotNone DEF Fresh
    <3>6. Consistent(k)'
      BY <3>2, <3>5 DEF Consistent, Active, Alive
    <3> QED
      BY <3>3, <3>6, UntouchedStays
  <2>4. CASE Spawn(c)
    <3>0. worker[c].session \in Sessions /\ spec[worker[c].session] # None
      BY <2>4, SessionsExist DEF Spawn, Before
    <3>z. PICK z \in Sessions : z = worker[c].session
      BY <3>0
    <3>1. \A x \in Sessions \ {z} : Untouched(x)
      BY <2>4, <3>z DEF Spawn, Untouched
    <3>2. proc[z].at = "none" /\ UNCHANGED <<spec, report, native, boot>> /\ Consistent(z)
      BY <2>4, <3>z, <3>0 DEF Spawn, UnstartedInv, Unstarted
    <3>3. \/ proc'[z] = Started /\ generation'[z] = boot
          \/ UNCHANGED <<proc, generation>>
      BY <2>4, <3>z, <3>0 DEF Spawn
    <3>4. Consistent(z)'
      BY <3>0, <3>z, <3>2, <3>3 DEF Consistent, Active, Alive, Started, NoProc
    <3> QED
      BY <3>1, <3>4, UntouchedStays
  <2>5. CASE Expose(c)
    <3>0. worker[c].session \in Sessions /\ spec[worker[c].session] # None
      BY <2>5, SessionsExist DEF Expose, Before
    <3>z. PICK z \in Sessions : z = worker[c].session
      BY <3>0
    <3>1. \A x \in Sessions \ {z} : Untouched(x)
      BY <2>5, <3>z DEF Expose, Untouched
    <3>2. UNCHANGED <<spec, report, proc, generation, boot>> /\ native'[z] # "none" /\ Consistent(z)
      BY <2>5, <3>z, <3>0 DEF Expose
    <3>3. Consistent(z)'
      BY <3>z, <3>0, <3>2 DEF Consistent, Active, Alive
    <3> QED
      BY <3>1, <3>3, UntouchedStays
  <2>6. CASE Unready(c)
    <3>0. worker[c].session \in Sessions /\ spec[worker[c].session] # None
      BY <2>6, SessionsExist DEF Unready, Before
    <3>z. PICK z \in Sessions : z = worker[c].session
      BY <3>0
    <3>1. \A x \in Sessions \ {z} : Untouched(x)
      BY <2>6, <3>z DEF Unready, Untouched
    <3>2. UNCHANGED <<spec, report, native, generation, boot>> /\ Consistent(z)
      BY <2>6, <3>z, <3>0 DEF Unready
    <3>3. /\ proc'[z].at = IF Alive(z) THEN "failed" ELSE proc[z].at
          /\ proc'[z].host = proc[z].host
      BY <2>6, <3>z, <3>0 DEF Unready, Procs
    <3>4. Consistent(z)'
      BY <3>2, <3>3 DEF Consistent, Active, Alive
    <3> QED
      BY <3>1, <3>4, UntouchedStays
  <2>7. CASE Finish(c)
    <3>1. \A x \in Sessions : Untouched(x)
      BY <2>7 DEF Finish, Untouched
    <3> QED
      BY <3>1, UntouchedStays
  <2> QED
    BY <1>1, <2>1, <2>2, <2>3, <2>4, <2>5, <2>6, <2>7 DEF Admitting
<1>2. ASSUME NEW c \in Clients, Keeping(c) PROVE ProcInv'
  <2>1. CASE ReadyReserve(c)
    <3>1. \A x \in Sessions : Untouched(x)
      BY <2>1 DEF ReadyReserve, Untouched, SameStages, Looks
    <3> QED
      BY <3>1, UntouchedStays
  <2>2. CASE ReadyPublish(c)
    <3>1. \A x \in Sessions : Untouched(x)
      BY <2>2 DEF ReadyPublish, Untouched, SameStages, Looks
    <3> QED
      BY <3>1, UntouchedStays
  <2>3. CASE ReadySpawn(c)
    <3>1. \A x \in Sessions : Untouched(x)
      BY <2>3 DEF ReadySpawn, Untouched, SameStages, Looks
    <3> QED
      BY <3>1, UntouchedStays
  <2>4. CASE TurnLeaving(c)
    <3>1. \A x \in Sessions : Untouched(x)
      BY <2>4 DEF TurnLeaving, Untouched, SameStages, Looks
    <3> QED
      BY <3>1, UntouchedStays
  <2>5. CASE StartAlone(c)
    <3>1. PICK k \in Sessions : Starts(SetupFor(c), k, worker[c].class, {})
      BY <2>5 DEF StartAlone
    <3>2. \A x \in Sessions \ {k} : Untouched(x)
      BY <2>5, <3>1 DEF Starts, Untouched, StartAlone
    <3>3. /\ proc'[k] = Started /\ generation'[k] = boot /\ native'[k] = "gone" /\ boot' = boot
          /\ report'[k] = report[k] /\ spec[k] = None /\ Consistent(k)
      BY <2>5, <3>1 DEF Starts, StartAlone
    <3>4. spec'[k] = [kind |-> "keeper", class |-> worker[c].class, setup |-> SetupFor(c)]
          /\ SetupFor(c) \in Setups /\ worker[c].class \in Classes
      BY <2>5, <3>1, AdmissionAssumption DEF Starts, StartAlone, SetupFor
    <3>5. spec'[k] # None
      BY <3>4, SpecIsNotNone DEF Specs
    <3>6. Consistent(k)'
      BY <3>3, <3>5 DEF Consistent, Active, Alive, Started, NoProc
    <3> QED
      BY <3>2, <3>6, UntouchedStays
  <2>6. CASE StartLeaving(c)
    <3>1. PICK D \in SUBSET Sessions, k \in Sessions :
             Leaving(c, D) /\ Starts(SetupFor(c), k, worker[c].class, D)
      BY <2>6 DEF StartLeaving
    <3>2. \A x \in Sessions \ {k} : Untouched(x)
      BY <2>6, <3>1 DEF Starts, Untouched, StartLeaving
    <3>3. /\ proc'[k] = Started /\ generation'[k] = boot /\ native'[k] = "gone" /\ boot' = boot
          /\ report'[k] = report[k] /\ spec[k] = None /\ Consistent(k)
      BY <2>6, <3>1 DEF Starts, StartLeaving
    <3>4. spec'[k] = [kind |-> "keeper", class |-> worker[c].class, setup |-> SetupFor(c)]
          /\ SetupFor(c) \in Setups /\ worker[c].class \in Classes
      BY <2>6, <3>1, AdmissionAssumption DEF Starts, StartLeaving, SetupFor
    <3>5. spec'[k] # None
      BY <3>4, SpecIsNotNone DEF Specs
    <3>6. Consistent(k)'
      BY <3>3, <3>5 DEF Consistent, Active, Alive, Started, NoProc
    <3> QED
      BY <3>2, <3>6, UntouchedStays
  <2> QED
    BY <1>2, <2>1, <2>2, <2>3, <2>4, <2>5, <2>6 DEF Keeping
<1>3. ASSUME NEW e \in Setups, Reserving(e) PROVE ProcInv'
  <2>1. CASE Acquire(e)
    <3>1. \A x \in Sessions : Untouched(x)
      BY <2>1 DEF Acquire, Untouched
    <3> QED
      BY <3>1, UntouchedStays
  <2>2. CASE Enter(e)
    <3>1. \A x \in Sessions : Untouched(x)
      BY <2>2 DEF Enter, Untouched
    <3> QED
      BY <3>1, UntouchedStays
  <2>3. CASE Release(e)
    <3>1. \A x \in Sessions : Untouched(x)
      BY <2>3 DEF Release, Untouched
    <3> QED
      BY <3>1, UntouchedStays
  <2> QED
    BY <1>3, <2>1, <2>2, <2>3 DEF Reserving
<1>4. ASSUME NEW s \in Sessions, Running(s) PROVE ProcInv'
  <2>1. CASE Preflight(s)
    <3>1. \A x \in Sessions \ {s} : Untouched(x)
      BY <2>1 DEF Preflight, Untouched
    <3>2. /\ UNCHANGED <<spec, report, native, generation, boot>> /\ proc[s].at = "preflight"
          /\ proc[s] \in Procs
      BY <2>1 DEF Preflight
    <3>3. \/ proc' = [proc EXCEPT ![s] = [proc[s] EXCEPT !.at = "owner", !.said = TRUE]]
          \/ proc' = [proc EXCEPT ![s] = [proc[s] EXCEPT !.at = "failed"]]
      BY <2>1 DEF Preflight
    <3>4. ASSUME proc' = [proc EXCEPT ![s] = [proc[s] EXCEPT !.at = "owner", !.said = TRUE]]
          PROVE  Consistent(s)'
      BY <3>2, <3>4 DEF Consistent, Active, Alive, Procs
    <3>5. ASSUME proc' = [proc EXCEPT ![s] = [proc[s] EXCEPT !.at = "failed"]]
          PROVE  Consistent(s)'
      BY <3>2, <3>5 DEF Consistent, Active, Alive, Procs
    <3> QED
      <4>1. Consistent(s)'
        BY <3>3, <3>4, <3>5
      <4> QED
        BY <3>1, <4>1, UntouchedStays
  <2>2. CASE Launch(s)
    <3>1. \A x \in Sessions \ {s} : Untouched(x)
      BY <2>2 DEF Launch, Untouched
    <3>2. /\ UNCHANGED <<spec, report, native, generation, boot>>
          /\ proc[s].at = "owner" /\ proc'[s].at = "hosting"
          /\ spec[s] # None /\ spec[s].kind = "dsp" => native[s] = "control"
      BY <2>2 DEF Launch, Procs
    <3>3. \A x \in Sessions \ {s} : Consistent(x)'
      BY <3>1, UntouchedStays
    <3>4. Consistent(s)'
      BY <3>2 DEF Consistent, Active, Alive
    <3> QED
      BY <3>3, <3>4
  <2>3. CASE End(s)
    <3>1. \A x \in Sessions \ {s} : Untouched(x)
      BY <2>3 DEF End, Untouched
    <3>2. /\ UNCHANGED <<spec, native, generation, boot>> /\ spec[s] # None
          /\ proc[s] \in Procs
      BY <2>3 DEF End
    <3>3. \/ proc[s].at \in {"owner", "hosting"} /\ report' = report
             /\ proc' = [proc EXCEPT ![s] = [proc[s] EXCEPT !.at = "closing", !.host = FALSE]]
          \/ proc[s].at = "hosting" /\ report' = [report EXCEPT ![s] = "unconfirmed"]
             /\ \E h \in BOOLEAN :
                  proc' = [proc EXCEPT ![s] = [proc[s] EXCEPT !.at = "failed", !.host = h]]
      BY <2>3 DEF End
    <3>4. CASE proc[s].at \in {"owner", "hosting"} /\ report' = report
             /\ proc' = [proc EXCEPT ![s] = [proc[s] EXCEPT !.at = "closing", !.host = FALSE]]
      BY <3>2, <3>4 DEF Consistent, Active, Alive, Procs
    <3>5. CASE proc[s].at = "hosting" /\ report' = [report EXCEPT ![s] = "unconfirmed"]
             /\ \E h \in BOOLEAN :
                  proc' = [proc EXCEPT ![s] = [proc[s] EXCEPT !.at = "failed", !.host = h]]
      BY <3>2, <3>5 DEF Consistent, Active, Alive, Procs
    <3> QED
      <4>1. Consistent(s)'
        BY <3>3, <3>4, <3>5
      <4> QED
        BY <3>1, <4>1, UntouchedStays
  <2>4. CASE RetireTransport(s)
    <3>1. \A x \in Sessions \ {s} : Untouched(x)
      BY <2>4 DEF RetireTransport, Untouched
    <3>2. /\ UNCHANGED <<spec, native, generation, boot>>
          /\ proc[s].at = "closing" /\ (proc'[s].host => proc[s].host)
          /\ \/ proc'[s].at = "retired"
             \/ proc'[s].at = "failed" /\ report'[s] = "unconfirmed"
      BY <2>4 DEF RetireTransport, Procs
    <3>3. \A x \in Sessions \ {s} : Consistent(x)'
      BY <3>1, UntouchedStays
    <3>4. Consistent(s)'
      BY <3>2 DEF Consistent, Active, Alive
    <3> QED
      BY <3>3, <3>4
  <2>5. CASE Keep(s)
    <3>1. \A x \in Sessions \ {s} : Untouched(x)
      BY <2>5 DEF Keep, Untouched
    <3>2. /\ UNCHANGED <<spec, native, generation, boot>>
          /\ spec[s] # None /\ spec[s].kind = "keeper"
          /\ proc[s] \in Procs
      BY <2>5 DEF Keep
    <3>3. \/ proc[s].at = "preflight" /\ report' = report
             /\ proc' = [proc EXCEPT ![s] = [proc[s] EXCEPT !.at = "hosting", !.host = TRUE]]
          \/ proc[s].at = "preflight" /\ report' = report
             /\ proc' = [proc EXCEPT ![s] = [proc[s] EXCEPT !.at = "failed"]]
          \/ proc[s].at = "hosting" /\ report' = [report EXCEPT ![s] = "ready"] /\ proc' = proc
          \/ proc[s].at \in {"preflight", "hosting"} /\ report' = [report EXCEPT ![s] = "retired"]
             /\ proc' = [proc EXCEPT ![s] = [proc[s] EXCEPT !.at = "closing", !.host = FALSE]]
          \/ proc[s].at = "hosting" /\ report' = [report EXCEPT ![s] = "unconfirmed"]
             /\ \E h \in BOOLEAN :
                  proc' = [proc EXCEPT ![s] = [proc[s] EXCEPT !.at = "failed", !.host = h]]
          \/ proc[s].at = "closing" /\ report' = report
             /\ proc' = [proc EXCEPT ![s] = [proc[s] EXCEPT !.at = "retired"]]
      BY <2>5 DEF Keep
    <3>4. CASE proc[s].at = "preflight" /\ report' = report
             /\ proc' = [proc EXCEPT ![s] = [proc[s] EXCEPT !.at = "hosting", !.host = TRUE]]
      BY <3>2, <3>4 DEF Consistent, Active, Alive, Procs
    <3>5. CASE proc[s].at = "preflight" /\ report' = report
             /\ proc' = [proc EXCEPT ![s] = [proc[s] EXCEPT !.at = "failed"]]
      BY <3>2, <3>5 DEF Consistent, Active, Alive, Procs
    <3>6. ASSUME proc[s].at = "hosting" /\ report' = [report EXCEPT ![s] = "ready"] /\ proc' = proc
          PROVE  Consistent(s)'
      BY <3>2, <3>6 DEF Consistent, Active, Alive, Procs
    <3>7. CASE proc[s].at \in {"preflight", "hosting"} /\ report' = [report EXCEPT ![s] = "retired"]
             /\ proc' = [proc EXCEPT ![s] = [proc[s] EXCEPT !.at = "closing", !.host = FALSE]]
      BY <3>2, <3>7 DEF Consistent, Active, Alive, Procs
    <3>8. CASE proc[s].at = "hosting" /\ report' = [report EXCEPT ![s] = "unconfirmed"]
             /\ \E h \in BOOLEAN :
                  proc' = [proc EXCEPT ![s] = [proc[s] EXCEPT !.at = "failed", !.host = h]]
      BY <3>2, <3>8 DEF Consistent, Active, Alive, Procs
    <3>9. CASE proc[s].at = "closing" /\ report' = report
             /\ proc' = [proc EXCEPT ![s] = [proc[s] EXCEPT !.at = "retired"]]
      BY <3>2, <3>9 DEF Consistent, Active, Alive, Procs
    <3> QED
      <4>1. Consistent(s)'
        BY <3>3, <3>4, <3>5, <3>6, <3>7, <3>8, <3>9
      <4> QED
        BY <3>1, <4>1, UntouchedStays
  <2>6. CASE Daw(s)
    <3>1. \A x \in Sessions \ {s} : Untouched(x)
      BY <2>6 DEF Daw, Untouched
    <3>2. /\ UNCHANGED <<spec, report, proc, generation, boot>>
          /\ native[s] # "none" /\ native'[s] # "none"
      BY <2>6 DEF Daw
    <3>3. \A x \in Sessions \ {s} : Consistent(x)'
      BY <3>1, UntouchedStays
    <3>4. Consistent(s)'
      BY <3>2 DEF Consistent, Active, Alive
    <3> QED
      BY <3>3, <3>4
  <2>7. CASE Kill(s)
    <3>1. \A x \in Sessions \ {s} : Untouched(x)
      BY <2>7 DEF Kill, Untouched
    <3>2. /\ UNCHANGED <<spec, report, native, generation, boot>>
          /\ Alive(s) /\ proc'[s].at = "failed" /\ (proc'[s].host => proc[s].host)
      BY <2>7 DEF Kill, Procs
    <3>3. \A x \in Sessions \ {s} : Consistent(x)'
      BY <3>1, UntouchedStays
    <3>4. Consistent(s)'
      BY <3>2 DEF Consistent, Active, Alive
    <3> QED
      BY <3>3, <3>4
  <2> QED
    BY <1>4, <2>1, <2>2, <2>3, <2>4, <2>5, <2>6, <2>7 DEF Running, Supervisor
<1>5. ASSUME TurnAlone PROVE ProcInv'
  <2>1. \A x \in Sessions : Untouched(x)
    BY <1>5 DEF TurnAlone, Untouched, SameStages, Looks
  <2> QED
    BY <2>1, UntouchedStays
<1>6. ASSUME Refresh PROVE ProcInv'
  <2>1. \A x \in Sessions : Untouched(x)
    BY <1>6 DEF Refresh, Untouched
  <2> QED
    BY <2>1, UntouchedStays
<1>7. ASSUME Failing PROVE ProcInv'
  <2>1. CASE Crash
    <3>1. \A x \in Sessions : Untouched(x)
      BY <2>1 DEF Crash, Untouched, Procs
    <3> QED
      BY <3>1, UntouchedStays
  <2>2. CASE KillGroup
    <3>1. proc' = Emptied /\ UNCHANGED <<spec, generation, report>>
      BY <2>2 DEF KillGroup
    <3>2. \A x \in Sessions : native'[x] = "none" <=> native[x] = "none"
      BY <2>2 DEF KillGroup
    <3>3. ASSUME NEW x \in Sessions PROVE Consistent(x)'
      <4>1. /\ proc'[x].at \in {"none", "retired", "failed"}
            /\ proc'[x].at \in {"retired", "failed"} => ~proc'[x].host
            /\ proc'[x].at = "none" => proc'[x] = proc[x]
            /\ proc'[x].at = "none" <=> proc[x].at = "none"
            /\ Exited(x) => proc'[x].at = proc[x].at
        BY <3>1, TypesNamed, EmptiedIsInactive DEF Waning
      <4> QED
        BY <3>1, <3>2, <4>1 DEF Consistent, Active, Alive, Exited
    <3> QED
      BY <3>3
  <2>3. CASE PowerFailure
    <3>1. proc' = Emptied /\ UNCHANGED <<spec, generation, report>>
      BY <2>3 DEF PowerFailure
    <3>2. \A x \in Sessions : native'[x] = "none" <=> native[x] = "none"
      BY <2>3 DEF PowerFailure
    <3>3. ASSUME NEW x \in Sessions PROVE Consistent(x)'
      <4>1. /\ proc'[x].at \in {"none", "retired", "failed"}
            /\ proc'[x].at \in {"retired", "failed"} => ~proc'[x].host
            /\ proc'[x].at = "none" => proc'[x] = proc[x]
            /\ proc'[x].at = "none" <=> proc[x].at = "none"
            /\ Exited(x) => proc'[x].at = proc[x].at
        BY <3>1, TypesNamed, EmptiedIsInactive DEF Waning
      <4> QED
        BY <3>1, <3>2, <4>1 DEF Consistent, Active, Alive, Exited
    <3> QED
      BY <3>3
  <2>4. CASE Start
    <3>1. \A x \in Sessions : Untouched(x)
      BY <2>4 DEF Start, Untouched
    <3> QED
      BY <3>1, UntouchedStays
  <2> QED
    BY <1>7, <2>1, <2>2, <2>3, <2>4 DEF Failing
<1> QED
  BY <1>1, <1>2, <1>3, <1>4, <1>5, <1>6, <1>7, StepKinds DEF SessionsInv

\* The sessions of admissions stay their own.
LEMMA SessionKept == ASSUME TypeOK, SessionsInv, Next PROVE SessionInv'
<1>a. /\ worker \in [Clients -> Workers]
      /\ spec \in [Sessions -> Specs \cup {None}]
      /\ blocked \subseteq Sessions
  BY TypesNamed DEF Typed, TypeOK
<1> USE <1>a
<1>x. /\ 0 \notin Sessions
      /\ \A c \in Clients : worker[c].at \notin Before =>
           worker[c].session \in Sessions /\ spec[worker[c].session] # None
  BY NoneDiffers, SessionsExist DEF SessionsInv
<1> USE <1>x
<1> USE DEF Move, Goto, Quit, FreeLock, disk, Apart, Readied, Advance, Leaving,
           ServiceSide, SetProc, Fault, Forget, SessionInv, SessionsInv, Before
<1>1. ASSUME NEW c \in Clients, Admitting(c) PROVE SessionInv'
  <2>1. CASE Request(c)
    BY <2>1 DEF Request, Idle
  <2>2. CASE Refuse(c)
    BY <2>2 DEF Refuse, Idle
  <2>3. CASE Publish(c)
    <3>1. PICK k \in Sessions :
             /\ spec[k] = None
             /\ spec' = [spec EXCEPT ![k] = [kind |-> worker[c].kind, class |-> worker[c].class,
                                             setup |-> SetupOf[worker[c].class]]]
             /\ worker' = [worker EXCEPT ![c] = [worker[c] EXCEPT
                  !.at = IF worker[c].kind = "dsp" THEN "final" ELSE "spawn", !.session = k]]
      BY <2>3 DEF Publish, Fresh
    <3>2. worker[c].at = "publish" /\ UNCHANGED blocked /\ k \notin blocked
      BY <2>3, <3>1 DEF Publish, BlockedInv
    <3>3. /\ worker'[c].session = k /\ worker'[c].kind = worker[c].kind
          /\ worker'[c].class = worker[c].class /\ worker'[c].at \in {"final", "spawn"}
          /\ \A d \in Clients \ {c} : worker'[d] = worker[d]
      BY <3>1 DEF Workers
    <3>4. spec'[k] = [kind |-> worker[c].kind, class |-> worker[c].class,
                      setup |-> SetupOf[worker[c].class]]
          /\ \A x \in Sessions \ {k} : spec'[x] = spec[x]
      BY <3>1
    <3>5. worker[c].class \in Classes /\ \A d \in Clients : worker[d].session # k
      BY <3>1, <3>2
    <3>6. ASSUME NEW d \in Clients \ {c}
          PROVE  LET w == worker'[d] IN
                 /\ w.at \in Before => w.session = 0
                 /\ w.at # "idle" => w.class \in Classes
                 /\ w.at \notin Before =>
                     /\ w.session \in Sessions \ blocked'
                     /\ spec'[w.session] = [kind |-> w.kind, class |-> w.class,
                                             setup |-> SetupOf[w.class]]
                     /\ \A g \in Clients \ {d} : worker'[g].session # w.session
      BY <3>2, <3>3, <3>4, <3>5
    <3> QED
      BY <3>2, <3>3, <3>4, <3>5, <3>6
  <2>4. CASE Spawn(c)
    <3>1. worker[c].at = "spawn" /\ UNCHANGED <<spec, blocked>>
      BY <2>4 DEF Spawn
    <3>2. \/ worker' = [worker EXCEPT ![c] = [worker[c] EXCEPT !.at = "handshake"]]
          \/ worker' = [worker EXCEPT ![c] = Idle]
      BY <2>4 DEF Spawn
    <3>3. CASE worker' = [worker EXCEPT ![c] = [worker[c] EXCEPT !.at = "handshake"]]
      BY <3>1, <3>3 DEF Workers
    <3>4. CASE worker' = [worker EXCEPT ![c] = Idle]
      BY <3>1, <3>4 DEF Idle
    <3> QED
      BY <3>2, <3>3, <3>4
  <2>5. CASE Expose(c)
    BY <2>5 DEF Expose, Workers
  <2>6. CASE Unready(c)
    BY <2>6 DEF Unready, Idle
  <2>7. CASE Finish(c)
    BY <2>7 DEF Finish, Idle
  <2> QED
    BY <1>1, <2>1, <2>2, <2>3, <2>4, <2>5, <2>6, <2>7 DEF Admitting
<1>2. ASSUME NEW c \in Clients, Keeping(c) PROVE SessionInv'
  <2>1. CASE ReadyReserve(c)
    BY <2>1 DEF ReadyReserve, Workers
  <2>2. CASE ReadyPublish(c)
    BY <2>2 DEF ReadyPublish, Workers
  <2>3. CASE ReadySpawn(c)
    BY <2>3 DEF ReadySpawn, Workers
  <2>4. CASE TurnLeaving(c)
    BY <2>4 DEF TurnLeaving, Looks, Idle
  <2>5. CASE StartAlone(c)
    <3>1. PICK k \in Sessions : Starts(SetupFor(c), k, worker[c].class, {})
      BY <2>5 DEF StartAlone
    <3> QED
      BY <2>5, <3>1 DEF Starts, StartAlone, Idle
  <2>6. CASE StartLeaving(c)
    <3>1. PICK D \in SUBSET Sessions, k \in Sessions :
             Leaving(c, D) /\ Starts(SetupFor(c), k, worker[c].class, D)
      BY <2>6 DEF StartLeaving
    <3> QED
      BY <2>6, <3>1 DEF Starts, StartLeaving, Idle
  <2> QED
    BY <1>2, <2>1, <2>2, <2>3, <2>4, <2>5, <2>6 DEF Keeping
<1>3. ASSUME NEW e \in Setups, Reserving(e) PROVE SessionInv'
  <2>1. CASE Acquire(e)
    BY <2>1 DEF Acquire
  <2>2. CASE Enter(e)
    BY <2>2 DEF Enter
  <2>3. CASE Release(e)
    BY <2>3 DEF Release
  <2> QED
    BY <1>3, <2>1, <2>2, <2>3 DEF Reserving
<1>4. ASSUME NEW s \in Sessions, Running(s) PROVE SessionInv'
  <2>1. CASE Preflight(s)
    BY <2>1 DEF Preflight
  <2>2. CASE Launch(s)
    BY <2>2 DEF Launch
  <2>3. CASE End(s)
    BY <2>3 DEF End
  <2>4. CASE RetireTransport(s)
    BY <2>4 DEF RetireTransport
  <2>5. CASE Keep(s)
    BY <2>5 DEF Keep
  <2>6. CASE Daw(s)
    BY <2>6 DEF Daw
  <2>7. CASE Kill(s)
    BY <2>7 DEF Kill
  <2> QED
    BY <1>4, <2>1, <2>2, <2>3, <2>4, <2>5, <2>6, <2>7 DEF Running, Supervisor
<1>5. ASSUME TurnAlone PROVE SessionInv'
  BY <1>5 DEF TurnAlone, Looks, SameStages
<1>6. ASSUME Refresh PROVE SessionInv'
  BY <1>6 DEF Refresh
<1>7. ASSUME Failing PROVE SessionInv'
  <2>1. CASE Crash
    BY <2>1 DEF Crash, Idle
  <2>2. CASE KillGroup
    BY <2>2 DEF KillGroup
  <2>3. CASE PowerFailure
    BY <2>3 DEF PowerFailure, Idle
  <2>4. CASE Start
    BY <2>4 DEF Start, DownInv
  <2> QED
    BY <1>7, <2>1, <2>2, <2>3, <2>4 DEF Failing
<1> QED
  BY <1>1, <1>2, <1>3, <1>4, <1>5, <1>6, <1>7, StepKinds DEF SessionsInv

\* Nothing touches an admission's session before its start.
LEMMA UnstartedKept == ASSUME TypeOK, SessionsInv, Next PROVE UnstartedInv'
<1>a. /\ worker \in [Clients -> Workers]
      /\ spec \in [Sessions -> Specs \cup {None}]
      /\ blocked \subseteq Sessions
      /\ proc \in [Sessions -> Procs]
      /\ keeper \in [Setups -> Keepers]
      /\ lease \subseteq Sessions /\ \A s \in lease : spec[s] # None
      /\ native \in [Sessions -> {"none", "bound", "control", "gone"}]
  BY TypesNamed DEF Typed, TypeOK
<1> USE <1>a
<1>x. /\ 0 \notin Sessions
      /\ \A c \in Clients : worker[c].at \notin Before =>
           /\ worker[c].session \in Sessions /\ spec[worker[c].session] # None
           /\ spec[worker[c].session].kind = worker[c].kind /\ worker[c].kind # "keeper"
           /\ spec[worker[c].session].setup = SetupFor(c)
           /\ worker[c].session \notin blocked
           /\ \A d \in Clients \ {c} : worker[d].session # worker[c].session
  BY NoneDiffers, SessionsExist DEF SessionsInv, SessionInv, Workers
<1> USE <1>x
<1>y. \A e \in Setups : keeper[e].session # 0 =>
        spec[keeper[e].session] # None /\ spec[keeper[e].session].kind = "keeper"
  BY DEF SessionsInv, RecordInv, Recorded, KeeperOf
<1> USE <1>y
<1> USE DEF Move, Goto, Quit, FreeLock, disk, Apart, Readied, Advance, Leaving,
           ServiceSide, SetProc, Fault, Forget, UnstartedInv, SessionsInv, Before,
           Unstarted
<1>1. ASSUME NEW c \in Clients, Admitting(c) PROVE UnstartedInv'
  <2>1. CASE Request(c)
    BY <2>1 DEF Request, Idle, Settled
  <2>2. CASE Refuse(c)
    BY <2>2 DEF Refuse, Idle
  <2>3. CASE Publish(c)
    BY <2>3 DEF Publish, Fresh, Workers, ProcInv, Consistent
  <2>4. CASE Spawn(c)
    BY <2>4 DEF Spawn, Idle, Workers
  <2>5. CASE Expose(c)
    BY <2>5 DEF Expose, Workers
  <2>6. CASE Unready(c)
    BY <2>6 DEF Unready, Idle
  <2>7. CASE Finish(c)
    BY <2>7 DEF Finish, Idle
  <2> QED
    BY <1>1, <2>1, <2>2, <2>3, <2>4, <2>5, <2>6, <2>7 DEF Admitting
<1>2. ASSUME NEW c \in Clients, Keeping(c) PROVE UnstartedInv'
  <2>1. CASE ReadyReserve(c)
    <3>1. /\ UNCHANGED <<lease, native>> /\ \A x \in Sessions : proc'[x].at = proc[x].at
          /\ worker'[c].at = "reserve" /\ worker'[c].kind = worker[c].kind
          /\ worker'[c].session = worker[c].session
          /\ \A d \in Clients \ {c} : worker'[d] = worker[d]
      BY <2>1 DEF ReadyReserve, SameStages, Workers
    <3> QED
      BY <3>1
  <2>2. CASE ReadyPublish(c)
    <3>1. /\ UNCHANGED <<lease, native>> /\ \A x \in Sessions : proc'[x].at = proc[x].at
          /\ worker'[c].at = "publish" /\ worker'[c].kind = worker[c].kind
          /\ worker'[c].session = worker[c].session
          /\ \A d \in Clients \ {c} : worker'[d] = worker[d]
      BY <2>2 DEF ReadyPublish, SameStages, Workers
    <3> QED
      BY <3>1
  <2>3. CASE ReadySpawn(c)
    <3>1. /\ UNCHANGED <<lease, native>> /\ \A x \in Sessions : proc'[x].at = proc[x].at
          /\ worker'[c].at = "spawn" /\ worker'[c].kind = worker[c].kind
          /\ worker'[c].session = worker[c].session
          /\ \A d \in Clients \ {c} : worker'[d] = worker[d]
          /\ worker[c].at = "final"
      BY <2>3 DEF ReadySpawn, SameStages, Workers
    <3> QED
      BY <3>1
  <2>4. CASE TurnLeaving(c)
    BY <2>4 DEF TurnLeaving, Looks, SameStages, Drops, Idle
  <2>5. CASE StartAlone(c)
    <3>1. PICK k \in Sessions : Starts(SetupFor(c), k, worker[c].class, {})
      BY <2>5 DEF StartAlone
    <3> QED
      BY <2>5, <3>1 DEF Starts, StartAlone, Idle, Drops
  <2>6. CASE StartLeaving(c)
    <3>1. PICK D \in SUBSET Sessions, k \in Sessions :
             Leaving(c, D) /\ Starts(SetupFor(c), k, worker[c].class, D)
      BY <2>6 DEF StartLeaving
    <3> QED
      BY <2>6, <3>1 DEF Starts, StartLeaving, Idle, Drops
  <2> QED
    BY <1>2, <2>1, <2>2, <2>3, <2>4, <2>5, <2>6 DEF Keeping
<1>3. ASSUME NEW e \in Setups, Reserving(e) PROVE UnstartedInv'
  <2>1. CASE Acquire(e)
    BY <2>1 DEF Acquire
  <2>2. CASE Enter(e)
    BY <2>2 DEF Enter
  <2>3. CASE Release(e)
    BY <2>3 DEF Release
  <2> QED
    BY <1>3, <2>1, <2>2, <2>3 DEF Reserving
<1>4. ASSUME NEW s \in Sessions, Running(s) PROVE UnstartedInv'
  <2>1. /\ Waning
        /\ UNCHANGED <<up, worker, registryLock, blocked, keeper, spec, lease, generation>>
        /\ UNCHANGED <<held, boot>>
        /\ \A x \in Sessions : native[x] = "none" => native'[x] = "none"
    BY <1>4, TypesNamed, RunningWanes, RunningFrame
  <2> QED
    BY <2>1 DEF Waning
<1>5. ASSUME TurnAlone PROVE UnstartedInv'
  BY <1>5 DEF TurnAlone, Looks, SameStages, Drops, Idle
<1>6. ASSUME Refresh PROVE UnstartedInv'
  BY <1>6 DEF Refresh, Settled
<1>7. ASSUME Failing PROVE UnstartedInv'
  <2>1. CASE Crash
    BY <2>1 DEF Crash, Idle
  <2>2. CASE KillGroup
    <3>1. Waning /\ UNCHANGED <<worker, lease, native>>
      BY <2>2, TypesNamed, FailingWanes DEF KillGroup, Failing
    <3> QED
      BY <3>1 DEF Waning
  <2>3. CASE PowerFailure
    BY <2>3 DEF PowerFailure, Idle
  <2>4. CASE Start
    BY <2>4 DEF Start, DownInv
  <2> QED
    BY <1>7, <2>1, <2>2, <2>3, <2>4 DEF Failing
<1> QED
  BY <1>1, <1>2, <1>3, <1>4, <1>5, <1>6, <1>7, StepKinds DEF SessionsInv

\* A service that dies forgets its workers.
LEMMA DownKept == ASSUME TypeOK, SessionsInv, Next PROVE DownInv'
<1>a. /\ worker \in [Clients -> Workers]
  BY TypesNamed DEF Typed, TypeOK
<1> USE <1>a
<1> USE DEF Move, Goto, Quit, FreeLock, disk, Apart, Readied, Advance, Leaving,
           ServiceSide, SetProc, Fault, Forget, DownInv, SessionsInv, Idle
<1>1. ASSUME NEW c \in Clients, Admitting(c) PROVE DownInv'
  <2>1. CASE Request(c)
    BY <2>1 DEF Request
  <2>2. CASE Refuse(c)
    BY <2>2 DEF Refuse
  <2>3. CASE Publish(c)
    BY <2>3 DEF Publish
  <2>4. CASE Spawn(c)
    BY <2>4 DEF Spawn
  <2>5. CASE Expose(c)
    BY <2>5 DEF Expose
  <2>6. CASE Unready(c)
    BY <2>6 DEF Unready
  <2>7. CASE Finish(c)
    BY <2>7 DEF Finish
  <2> QED
    BY <1>1, <2>1, <2>2, <2>3, <2>4, <2>5, <2>6, <2>7 DEF Admitting
<1>2. ASSUME NEW c \in Clients, Keeping(c) PROVE DownInv'
  <2>1. CASE ReadyReserve(c)
    BY <2>1 DEF ReadyReserve
  <2>2. CASE ReadyPublish(c)
    BY <2>2 DEF ReadyPublish
  <2>3. CASE ReadySpawn(c)
    BY <2>3 DEF ReadySpawn
  <2>4. CASE TurnLeaving(c)
    BY <2>4 DEF TurnLeaving
  <2>5. CASE StartAlone(c)
    <3>1. PICK k \in Sessions : Starts(SetupFor(c), k, worker[c].class, {})
      BY <2>5 DEF StartAlone
    <3> QED
      BY <2>5, <3>1 DEF Starts, StartAlone, Idle
  <2>6. CASE StartLeaving(c)
    <3>1. PICK D \in SUBSET Sessions, k \in Sessions :
             Leaving(c, D) /\ Starts(SetupFor(c), k, worker[c].class, D)
      BY <2>6 DEF StartLeaving
    <3> QED
      BY <2>6, <3>1 DEF Starts, StartLeaving, Idle
  <2> QED
    BY <1>2, <2>1, <2>2, <2>3, <2>4, <2>5, <2>6 DEF Keeping
<1>3. ASSUME NEW e \in Setups, Reserving(e) PROVE DownInv'
  BY <1>3 DEF Reserving, Acquire, Enter, Release
<1>4. ASSUME NEW s \in Sessions, Running(s) PROVE DownInv'
  BY <1>4 DEF Running, Supervisor, Preflight, Launch, End, RetireTransport, Keep, Daw,
            Kill
<1>5. ASSUME TurnAlone PROVE DownInv'
  BY <1>5 DEF TurnAlone
<1>6. ASSUME Refresh PROVE DownInv'
  BY <1>6 DEF Refresh
<1>7. ASSUME Failing PROVE DownInv'
  <2>1. CASE Crash
    BY <2>1 DEF Crash
  <2>2. CASE KillGroup
    BY <2>2 DEF KillGroup
  <2>3. CASE PowerFailure
    BY <2>3 DEF PowerFailure
  <2>4. CASE Start
    BY <2>4 DEF Start
  <2> QED
    BY <1>7, <2>1, <2>2, <2>3, <2>4 DEF Failing
<1> QED
  BY <1>1, <1>2, <1>3, <1>4, <1>5, <1>6, <1>7, StepKinds DEF SessionsInv

\* A failure is recorded when its supervisor is gone.
LEMMA BlockedKept == ASSUME TypeOK, SessionsInv, Next PROVE BlockedInv'
<1>a. /\ worker \in [Clients -> Workers]
      /\ spec \in [Sessions -> Specs \cup {None}]
      /\ blocked \subseteq Sessions
      /\ proc \in [Sessions -> Procs]
      /\ lease \subseteq Sessions /\ \A s \in lease : spec[s] # None
      /\ native \in [Sessions -> {"none", "bound", "control", "gone"}]
  BY TypesNamed DEF Typed, TypeOK
<1> USE <1>a
<1>x. /\ 0 \notin Sessions
      /\ \A c \in Clients : worker[c].at \notin Before =>
           /\ worker[c].session \in Sessions /\ spec[worker[c].session] # None
           /\ spec[worker[c].session].kind = worker[c].kind /\ worker[c].kind # "keeper"
           /\ spec[worker[c].session].setup = SetupFor(c)
           /\ worker[c].session \notin blocked
           /\ \A d \in Clients \ {c} : worker[d].session # worker[c].session
  BY NoneDiffers, SessionsExist DEF SessionsInv, SessionInv, Workers
<1> USE <1>x
<1> USE DEF Move, Goto, Quit, FreeLock, disk, Apart, Readied, Advance, Leaving,
           ServiceSide, SetProc, Fault, Forget, BlockedInv, SessionsInv, Before
<1>1. ASSUME NEW c \in Clients, Admitting(c) PROVE BlockedInv'
  <2>1. CASE Request(c)
    BY <2>1 DEF Request, Alive
  <2>2. CASE Refuse(c)
    BY <2>2 DEF Refuse, Alive
  <2>3. CASE Publish(c)
    <3>1. /\ UNCHANGED <<proc, blocked>> /\ \A x \in blocked : spec'[x] = spec[x]
      BY <2>3 DEF Publish, Fresh
    <3> QED
      BY <3>1 DEF Alive
  <2>4. CASE Spawn(c)
    <3>1. /\ UNCHANGED <<spec, blocked>> /\ \A x \in blocked : proc'[x] = proc[x]
      BY <2>4 DEF Spawn
    <3> QED
      BY <3>1 DEF Alive
  <2>5. CASE Expose(c)
    BY <2>5 DEF Expose, Alive
  <2>6. CASE Unready(c)
    <3>1. UNCHANGED spec /\ blocked' \subseteq blocked \cup {worker[c].session}
      BY <2>6 DEF Unready
    <3>2. worker[c].session \in Sessions /\ spec[worker[c].session] # None
      BY <2>6 DEF Unready
    <3>3. /\ \A x \in Sessions \ {worker[c].session} : proc'[x] = proc[x]
          /\ proc'[worker[c].session].at = IF Alive(worker[c].session) THEN "failed"
                                          ELSE proc[worker[c].session].at
      BY <2>6, <3>2 DEF Unready, Procs
    <3> QED
      BY <3>1, <3>2, <3>3 DEF Alive
  <2>7. CASE Finish(c)
    BY <2>7 DEF Finish, Alive, Exited
  <2> QED
    BY <1>1, <2>1, <2>2, <2>3, <2>4, <2>5, <2>6, <2>7 DEF Admitting
<1>2. ASSUME NEW c \in Clients, Keeping(c) PROVE BlockedInv'
  <2>1. CASE ReadyReserve(c)
    <3>1. /\ Waning /\ UNCHANGED <<spec, blocked>>
      BY <2>1, SameIsWaning DEF ReadyReserve, Looks
    <3> QED
      BY <3>1 DEF Waning
  <2>2. CASE ReadyPublish(c)
    <3>1. /\ Waning /\ UNCHANGED <<spec, blocked>>
      BY <2>2, SameIsWaning DEF ReadyPublish, Looks
    <3> QED
      BY <3>1 DEF Waning
  <2>3. CASE ReadySpawn(c)
    <3>1. /\ Waning /\ UNCHANGED <<spec, blocked>>
      BY <2>3, SameIsWaning DEF ReadySpawn, Looks
    <3> QED
      BY <3>1 DEF Waning
  <2>4. CASE TurnLeaving(c)
    <3>1. /\ Waning /\ UNCHANGED <<spec, blocked>>
      BY <2>4, SameIsWaning DEF TurnLeaving, Looks
    <3> QED
      BY <3>1 DEF Waning
  <2>5. CASE StartAlone(c)
    <3>1. PICK k \in Sessions : Starts(SetupFor(c), k, worker[c].class, {})
      BY <2>5 DEF StartAlone
    <3>2. UNCHANGED blocked /\ k \notin blocked
      BY <2>5, <3>1 DEF Starts, StartAlone
    <3>3. \A x \in Sessions \ {k} : proc'[x] = proc[x] /\ spec'[x] = spec[x]
      BY <3>1 DEF Starts
    <3> QED
      BY <3>2, <3>3 DEF Alive
  <2>6. CASE StartLeaving(c)
    <3>1. PICK D \in SUBSET Sessions, k \in Sessions :
             Leaving(c, D) /\ Starts(SetupFor(c), k, worker[c].class, D)
      BY <2>6 DEF StartLeaving
    <3>2. UNCHANGED blocked /\ k \notin blocked
      BY <2>6, <3>1 DEF Starts, StartLeaving
    <3>3. \A x \in Sessions \ {k} : proc'[x] = proc[x] /\ spec'[x] = spec[x]
      BY <3>1 DEF Starts
    <3> QED
      BY <3>2, <3>3 DEF Alive
  <2> QED
    BY <1>2, <2>1, <2>2, <2>3, <2>4, <2>5, <2>6 DEF Keeping
<1>3. ASSUME NEW e \in Setups, Reserving(e) PROVE BlockedInv'
  <2>1. CASE Acquire(e)
    BY <2>1 DEF Acquire, Alive
  <2>2. CASE Enter(e)
    BY <2>2 DEF Enter, Alive
  <2>3. CASE Release(e)
    BY <2>3 DEF Release, Alive
  <2> QED
    BY <1>3, <2>1, <2>2, <2>3 DEF Reserving
<1>4. ASSUME NEW s \in Sessions, Running(s) PROVE BlockedInv'
  <2>1. /\ Waning
        /\ UNCHANGED <<up, worker, registryLock, blocked, keeper, spec, lease, generation>>
        /\ UNCHANGED <<held, boot>>
        /\ \A x \in Sessions : native[x] = "none" => native'[x] = "none"
    BY <1>4, TypesNamed, RunningWanes, RunningFrame
  <2> QED
    BY <2>1 DEF Waning
<1>5. ASSUME TurnAlone PROVE BlockedInv'
  <2>1. /\ Waning /\ UNCHANGED <<spec, blocked>>
    BY <1>5, SameIsWaning DEF TurnAlone, Looks
  <2> QED
    BY <2>1 DEF Waning
<1>6. ASSUME Refresh PROVE BlockedInv'
  BY <1>6 DEF Refresh, Alive
<1>7. ASSUME Failing PROVE BlockedInv'
  <2>1. CASE Crash
    BY <2>1 DEF Crash
  <2>2. CASE KillGroup
    <3>1. Waning /\ UNCHANGED <<spec, blocked>>
      BY <2>2, TypesNamed, FailingWanes DEF KillGroup, Failing, disk
    <3> QED
      BY <3>1 DEF Waning
  <2>3. CASE PowerFailure
    BY <2>3 DEF PowerFailure
  <2>4. CASE Start
    <3>1. /\ proc' = Emptied /\ UNCHANGED <<spec, proc>> /\ blocked' \subseteq lease
      BY <2>4 DEF Start
    <3>2. \A x \in Sessions : ~Alive(x)'
      BY <3>1, TypesNamed, EmptiedIsInactive DEF Alive
    <3> QED
      BY <3>1, <3>2
  <2> QED
    BY <1>7, <2>1, <2>2, <2>3, <2>4 DEF Failing
<1> QED
  BY <1>1, <1>2, <1>3, <1>4, <1>5, <1>6, <1>7, StepKinds DEF SessionsInv

\* Under registry.lock the setup stays unreserved and the keeper is not asked to retire.
LEMMA LockKept == ASSUME TypeOK, SessionsInv, Next PROVE LockInv'
<1>a. /\ worker \in [Clients -> Workers]
      /\ keeper \in [Setups -> Keepers]
      /\ held \in [Setups -> {"none", "reserved", "exclusive"}]
  BY TypesNamed DEF Typed, TypeOK
<1> USE <1>a
<1> USE DEF Move, Goto, Quit, FreeLock, disk, Apart, Readied, Advance, Leaving,
           ServiceSide, SetProc, Fault, Forget, LockInv, SessionsInv
<1>1. ASSUME NEW c \in Clients, Admitting(c) PROVE LockInv'
  <2>1. CASE Request(c)
    BY <2>1 DEF Request, Idle
  <2>2. CASE Refuse(c)
    BY <2>2 DEF Refuse, Idle
  <2>3. CASE Publish(c)
    BY <2>3 DEF Publish, Workers
  <2>4. CASE Spawn(c)
    BY <2>4 DEF Spawn, Idle, Workers
  <2>5. CASE Expose(c)
    BY <2>5 DEF Expose, Workers, SetupFor
  <2>6. CASE Unready(c)
    BY <2>6 DEF Unready, Idle
  <2>7. CASE Finish(c)
    BY <2>7 DEF Finish, Idle
  <2> QED
    BY <1>1, <2>1, <2>2, <2>3, <2>4, <2>5, <2>6, <2>7 DEF Admitting
<1>2. ASSUME NEW c \in Clients, Keeping(c) PROVE LockInv'
  <2>1. CASE ReadyReserve(c)
    BY <2>1 DEF ReadyReserve, Workers, SetupFor
  <2>2. CASE ReadyPublish(c)
    <3>1. /\ registryLock = None /\ registryLock' = c /\ UNCHANGED <<keeper, held>>
          /\ held[SetupFor(c)] = "none" /\ ~keeper[SetupFor(c)].retiring
      BY <2>2 DEF ReadyPublish
    <3>2. \A x \in Clients : worker[x].at \notin {"publish", "final"}
      BY <3>1, NoneDiffers
    <3>3. /\ \A x \in Clients \ {c} : worker'[x] = worker[x]
          /\ worker'[c].class = worker[c].class
      BY <2>2 DEF ReadyPublish, Workers
    <3> QED
      BY <3>1, <3>2, <3>3 DEF SetupFor
  <2>3. CASE ReadySpawn(c)
    BY <2>3 DEF ReadySpawn, Workers, SetupFor
  <2>4. CASE TurnLeaving(c)
    <3>1. /\ worker' = [worker EXCEPT ![c] = Idle] /\ registryLock \in {None, c}
      BY <2>4 DEF TurnLeaving
    <3>2. \A x \in Clients : worker'[x].at \notin {"publish", "final"}
      BY <3>1, NoneDiffers DEF Idle
    <3> QED
      BY <3>2
  <2>5. CASE StartAlone(c)
    <3>1. PICK k \in Sessions : Starts(SetupFor(c), k, worker[c].class, {})
      BY <2>5 DEF StartAlone
    <3> QED
      BY <2>5, <3>1 DEF Starts, StartAlone, Idle, NoKeeper
  <2>6. CASE StartLeaving(c)
    <3>1. PICK D \in SUBSET Sessions, k \in Sessions :
             Leaving(c, D) /\ Starts(SetupFor(c), k, worker[c].class, D)
      BY <2>6 DEF StartLeaving
    <3> QED
      BY <2>6, <3>1 DEF Starts, StartLeaving, Idle, NoKeeper
  <2> QED
    BY <1>2, <2>1, <2>2, <2>3, <2>4, <2>5, <2>6 DEF Keeping
<1>3. ASSUME NEW e \in Setups, Reserving(e) PROVE LockInv'
  <2>1. CASE Acquire(e)
    <3>1. /\ registryLock = None /\ UNCHANGED <<worker, registryLock>>
      BY <2>1 DEF Acquire
    <3>2. \A x \in Clients : worker[x].at \notin {"publish", "final"}
      BY <3>1, NoneDiffers
    <3> QED
      BY <3>1, <3>2
  <2>2. CASE Enter(e)
    BY <2>2 DEF Enter
  <2>3. CASE Release(e)
    BY <2>3 DEF Release
  <2> QED
    BY <1>3, <2>1, <2>2, <2>3 DEF Reserving
<1>4. ASSUME NEW s \in Sessions, Running(s) PROVE LockInv'
  <2>1. CASE Preflight(s)
    BY <2>1 DEF Preflight
  <2>2. CASE Launch(s)
    BY <2>2 DEF Launch
  <2>3. CASE End(s)
    BY <2>3 DEF End
  <2>4. CASE RetireTransport(s)
    BY <2>4 DEF RetireTransport
  <2>5. CASE Keep(s)
    BY <2>5 DEF Keep
  <2>6. CASE Daw(s)
    BY <2>6 DEF Daw
  <2>7. CASE Kill(s)
    BY <2>7 DEF Kill
  <2> QED
    BY <1>4, <2>1, <2>2, <2>3, <2>4, <2>5, <2>6, <2>7 DEF Running, Supervisor
<1>5. ASSUME TurnAlone PROVE LockInv'
  <2>1. /\ registryLock = None /\ UNCHANGED <<worker, registryLock>>
    BY <1>5 DEF TurnAlone
  <2>2. \A x \in Clients : worker[x].at \notin {"publish", "final"}
    BY <2>1, NoneDiffers
  <2> QED
    BY <2>1, <2>2
<1>6. ASSUME Refresh PROVE LockInv'
  BY <1>6 DEF Refresh
<1>7. ASSUME Failing PROVE LockInv'
  <2>1. CASE Crash
    BY <2>1 DEF Crash, Idle
  <2>2. CASE KillGroup
    BY <2>2 DEF KillGroup
  <2>3. CASE PowerFailure
    BY <2>3 DEF PowerFailure, Idle
  <2>4. CASE Start
    BY <2>4 DEF Start
  <2> QED
    BY <1>7, <2>1, <2>2, <2>3, <2>4 DEF Failing
<1> QED
  BY <1>1, <1>2, <1>3, <1>4, <1>5, <1>6, <1>7, StepKinds DEF SessionsInv

\* A lease goes only when nothing of its session runs.
LEMMA LeaseKept == ASSUME TypeOK, SessionsInv, Next PROVE LeaseInv'
<1>a. /\ worker \in [Clients -> Workers]
      /\ spec \in [Sessions -> Specs \cup {None}]
      /\ blocked \subseteq Sessions
      /\ proc \in [Sessions -> Procs]
      /\ keeper \in [Setups -> Keepers]
      /\ lease \subseteq Sessions /\ \A s \in lease : spec[s] # None
      /\ native \in [Sessions -> {"none", "bound", "control", "gone"}]
  BY TypesNamed DEF Typed, TypeOK
<1> USE <1>a
<1>x. /\ 0 \notin Sessions
      /\ \A c \in Clients : worker[c].at \notin Before =>
           /\ worker[c].session \in Sessions /\ spec[worker[c].session] # None
           /\ spec[worker[c].session].kind = worker[c].kind /\ worker[c].kind # "keeper"
           /\ spec[worker[c].session].setup = SetupFor(c)
           /\ worker[c].session \notin blocked
           /\ \A d \in Clients \ {c} : worker[d].session # worker[c].session
  BY NoneDiffers, SessionsExist DEF SessionsInv, SessionInv, Workers
<1> USE <1>x
<1>y. \A e \in Setups : keeper[e].session # 0 =>
        spec[keeper[e].session] # None /\ spec[keeper[e].session].kind = "keeper"
  BY DEF SessionsInv, RecordInv, Recorded, KeeperOf
<1> USE <1>y
<1>z. \A s \in Sessions : /\ ~Alive(s) /\ ~proc[s].host => ~Active(s)
                          /\ Active(s) => generation[s] = boot
                          /\ Active(s) => proc[s].at \notin {"none", "retired"}
                          /\ Active(s) /\ ~Alive(s) => report[s] # "retired"
                          /\ spec[s] = None => ~Active(s) /\ proc[s].at = "none"
  BY DEF SessionsInv, ProcInv, Consistent, Active, Alive
<1> USE <1>z
<1> USE DEF Move, Goto, Quit, FreeLock, disk, Apart, Readied, Advance, Leaving,
           ServiceSide, SetProc, Fault, Forget, LeaseInv, SessionsInv, Before
<1>1. ASSUME NEW c \in Clients, Admitting(c) PROVE LeaseInv'
  <2>1. CASE Request(c)
    <3>1. /\ UNCHANGED <<proc, spec>>
          /\ \A x \in lease \ lease' : ~Active(x)
      BY <2>1 DEF Request, Settled, Proven, BlockedInv
    <3> QED
      BY <3>1 DEF Active, Alive
  <2>2. CASE Refuse(c)
    BY <2>2 DEF Refuse, Active, Alive
  <2>3. CASE Publish(c)
    <3>1. PICK k \in Sessions : spec[k] = None /\ \A x \in Sessions \ {k} : spec'[x] = spec[x]
      BY <2>3 DEF Publish, Fresh
    <3>2. UNCHANGED proc /\ lease \subseteq lease'
      BY <2>3 DEF Publish
    <3> QED
      BY <3>1, <3>2 DEF Active, Alive
  <2>4. CASE Spawn(c)
    <3>1. worker[c].session \in Sessions /\ proc[worker[c].session].at = "none"
      BY <2>4 DEF Spawn, UnstartedInv, Unstarted
    <3>2. UNCHANGED spec /\ \A x \in Sessions \ {worker[c].session} : proc'[x] = proc[x]
      BY <2>4 DEF Spawn
    <3>3. \/ lease' = lease \cup {worker[c].session}
          \/ lease' = lease \ {worker[c].session} /\ UNCHANGED proc
      BY <2>4 DEF Spawn
    <3> QED
      BY <3>1, <3>2, <3>3 DEF Active, Alive
  <2>5. CASE Expose(c)
    BY <2>5 DEF Expose, Active, Alive
  <2>6. CASE Unready(c)
    <3>1. /\ worker[c].session \in Sessions /\ native[worker[c].session] = "none"
          /\ spec[worker[c].session] # None
      BY <2>6 DEF Unready, UnstartedInv, Unstarted
    <3>2. /\ UNCHANGED spec /\ lease \subseteq lease' \cup {worker[c].session}
          /\ \A x \in Sessions \ {worker[c].session} : proc'[x] = proc[x]
      BY <2>6 DEF Unready
    <3>3. /\ proc'[worker[c].session].at = IF Alive(worker[c].session) THEN "failed"
                                          ELSE proc[worker[c].session].at
          /\ proc'[worker[c].session].host = proc[worker[c].session].host
      BY <2>6, <3>1 DEF Unready, Procs
    <3>4. spec[worker[c].session].kind = "dsp" => ~proc[worker[c].session].host
      BY <3>1 DEF ProcInv, Consistent
    <3>5. worker[c].kind \in {"dsp", "inspection"} /\ spec[worker[c].session].kind = worker[c].kind
      BY <2>6 DEF Unready, Workers
    <3>6. \A z \in Sessions : z = worker[c].session /\ spec[z].kind # "inspection" => ~Active(z)'
      BY <3>3, <3>4, <3>5 DEF Active, Alive
    <3>7. \A z \in Sessions \ {worker[c].session} : Active(z)' <=> Active(z)
      BY <3>2 DEF Active, Alive
    <3> QED
      BY <3>2, <3>6, <3>7
  <2>7. CASE Finish(c)
    <3>1. /\ UNCHANGED <<proc, spec>> /\ \A x \in lease \ lease' : proc[x].at = "retired"
      BY <2>7 DEF Finish
    <3> QED
      BY <3>1 DEF Active, Alive
  <2> QED
    BY <1>1, <2>1, <2>2, <2>3, <2>4, <2>5, <2>6, <2>7 DEF Admitting
<1>2. ASSUME NEW c \in Clients, Keeping(c) PROVE LeaseInv'
  <2>1. CASE ReadyReserve(c)
    <3>1. /\ Waning /\ UNCHANGED spec
          /\ \A x \in lease \ lease' : ~Active(x)
      BY <2>1, SameIsWaning DEF ReadyReserve, Looks, Drops, RetiredKeeper
    <3> QED
      BY <3>1 DEF Waning
  <2>2. CASE ReadyPublish(c)
    <3>1. /\ Waning /\ UNCHANGED spec
          /\ \A x \in lease \ lease' : ~Active(x)
      BY <2>2, SameIsWaning DEF ReadyPublish, Looks, Drops, RetiredKeeper
    <3> QED
      BY <3>1 DEF Waning
  <2>3. CASE ReadySpawn(c)
    <3>1. /\ Waning /\ UNCHANGED spec
          /\ \A x \in lease \ lease' : ~Active(x)
      BY <2>3, SameIsWaning DEF ReadySpawn, Looks, Drops, RetiredKeeper
    <3> QED
      BY <3>1 DEF Waning
  <2>4. CASE TurnLeaving(c)
    <3>1. PICK D \in SUBSET Sessions : Leaving(c, D) /\ Looks(D)
      BY <2>4 DEF TurnLeaving
    <3>2. Waning /\ UNCHANGED spec
      BY <3>1, SameIsWaning DEF Looks
    <3>3. \A x \in D : ~Active(x)
      BY <3>1 DEF UnstartedInv, Unstarted
    <3>4. \A x \in lease \ lease' : ~Active(x)
      BY <3>1, <3>3 DEF Looks, Drops, RetiredKeeper
    <3> QED
      BY <3>2, <3>4 DEF Waning
  <2>5. CASE StartAlone(c)
    <3>1. PICK k \in Sessions : Starts(SetupFor(c), k, worker[c].class, {})
      BY <2>5 DEF StartAlone
    <3>2. \A x \in Sessions \ {k} : proc'[x] = proc[x] /\ spec'[x] = spec[x]
      BY <3>1 DEF Starts
    <3>3. \A x \in {} : ~Active(x)
      BY <3>1 DEF UnstartedInv, Unstarted
    <3>4. k \in lease' /\ \A x \in lease \ lease' : ~Active(x)
      BY <3>1, <3>3 DEF Starts, Drops, RetiredKeeper
    <3> QED
      BY <3>2, <3>4 DEF Active, Alive
  <2>6. CASE StartLeaving(c)
    <3>1. PICK D \in SUBSET Sessions, k \in Sessions :
             Leaving(c, D) /\ Starts(SetupFor(c), k, worker[c].class, D)
      BY <2>6 DEF StartLeaving
    <3>2. \A x \in Sessions \ {k} : proc'[x] = proc[x] /\ spec'[x] = spec[x]
      BY <3>1 DEF Starts
    <3>3. \A x \in D : ~Active(x)
      BY <3>1 DEF UnstartedInv, Unstarted
    <3>4. k \in lease' /\ \A x \in lease \ lease' : ~Active(x)
      BY <3>1, <3>3 DEF Starts, Drops, RetiredKeeper
    <3> QED
      BY <3>2, <3>4 DEF Active, Alive
  <2> QED
    BY <1>2, <2>1, <2>2, <2>3, <2>4, <2>5, <2>6 DEF Keeping
<1>3. ASSUME NEW e \in Setups, Reserving(e) PROVE LeaseInv'
  <2>1. CASE Acquire(e)
    BY <2>1 DEF Acquire, Active, Alive
  <2>2. CASE Enter(e)
    BY <2>2 DEF Enter, Active, Alive
  <2>3. CASE Release(e)
    BY <2>3 DEF Release, Active, Alive
  <2> QED
    BY <1>3, <2>1, <2>2, <2>3 DEF Reserving
<1>4. ASSUME NEW s \in Sessions, Running(s) PROVE LeaseInv'
  <2>1. /\ Waning
        /\ UNCHANGED <<up, worker, registryLock, blocked, keeper, spec, lease, generation>>
        /\ UNCHANGED <<held, boot>>
        /\ \A x \in Sessions : native[x] = "none" => native'[x] = "none"
    BY <1>4, TypesNamed, RunningWanes, RunningFrame
  <2> QED
    BY <2>1 DEF Waning
<1>5. ASSUME TurnAlone PROVE LeaseInv'
  <2>1. /\ Waning /\ UNCHANGED spec
        /\ \A x \in lease \ lease' : ~Active(x)
    BY <1>5, SameIsWaning DEF TurnAlone, Looks, Drops, RetiredKeeper
  <2> QED
    BY <2>1 DEF Waning
<1>6. ASSUME Refresh PROVE LeaseInv'
  <2>1. /\ UNCHANGED <<proc, spec>>
        /\ \A x \in lease \ lease' : ~Active(x)
    BY <1>6 DEF Refresh, Settled, Proven, BlockedInv
  <2> QED
    BY <2>1 DEF Active, Alive
<1>7. ASSUME Failing PROVE LeaseInv'
  <2>1. CASE Crash
    <3>1. Waning /\ UNCHANGED <<spec, lease>>
      BY <2>1, TypesNamed, FailingWanes DEF Crash, Failing
    <3> QED
      BY <3>1 DEF Waning
  <2>2. CASE KillGroup
    <3>1. Waning /\ UNCHANGED <<spec, lease>>
      BY <2>2, TypesNamed, FailingWanes DEF KillGroup, Failing
    <3> QED
      BY <3>1 DEF Waning
  <2>3. CASE PowerFailure
    <3>1. Waning /\ UNCHANGED <<spec, lease>>
      BY <2>3, TypesNamed, FailingWanes DEF PowerFailure, Failing
    <3> QED
      BY <3>1 DEF Waning
  <2>4. CASE Start
    <3>1. proc' = Emptied
      BY <2>4 DEF Start
    <3>2. \A x \in Sessions : ~Active(x)'
      <4>1. ASSUME NEW x \in Sessions PROVE ~Active(x)'
        <5>1. /\ proc'[x].at \in {"none", "retired", "failed"}
              /\ proc'[x].at \in {"retired", "failed"} => ~proc'[x].host
              /\ proc'[x].at = "none" => proc'[x] = proc[x]
          BY <3>1, TypesNamed, EmptiedIsInactive
        <5> QED
          BY <5>1 DEF Active, Alive, ProcInv, Consistent
      <4> QED
        BY <4>1
    <3> QED
      BY <3>2
  <2> QED
    BY <1>7, <2>1, <2>2, <2>3, <2>4 DEF Failing
<1> QED
  BY <1>1, <1>2, <1>3, <1>4, <1>5, <1>6, <1>7, StepKinds DEF SessionsInv

\* Sessions keep their records; a keeper's session neither wakes nor gets its lease back.
Created ==
    \A s \in Sessions : spec[s] # None =>
        /\ spec'[s] = spec[s]
        /\ spec[s].kind = "keeper" => (s \in lease' => s \in lease) /\ (Active(s)' => Active(s))

\* No step gives a created session another record, or a keeper a second life.
LEMMA CreatedStay == ASSUME TypeOK, SessionsInv, Next PROVE Created
<1>a. /\ worker \in [Clients -> Workers]
      /\ spec \in [Sessions -> Specs \cup {None}]
      /\ blocked \subseteq Sessions
      /\ proc \in [Sessions -> Procs]
      /\ keeper \in [Setups -> Keepers]
      /\ lease \subseteq Sessions /\ \A s \in lease : spec[s] # None
      /\ native \in [Sessions -> {"none", "bound", "control", "gone"}]
  BY TypesNamed DEF Typed, TypeOK
<1> USE <1>a
<1>x. /\ 0 \notin Sessions
      /\ \A c \in Clients : worker[c].at \notin Before =>
           /\ worker[c].session \in Sessions /\ spec[worker[c].session] # None
           /\ spec[worker[c].session].kind = worker[c].kind /\ worker[c].kind # "keeper"
           /\ spec[worker[c].session].setup = SetupFor(c)
           /\ worker[c].session \notin blocked
           /\ \A d \in Clients \ {c} : worker[d].session # worker[c].session
  BY NoneDiffers, SessionsExist DEF SessionsInv, SessionInv, Workers
<1> USE <1>x
<1> USE DEF Move, Goto, Quit, FreeLock, disk, Apart, Readied, Advance, Leaving,
           ServiceSide, SetProc, Fault, Forget, SessionsInv, Before, Created
<1>1. ASSUME NEW c \in Clients, Admitting(c) PROVE Created
  <2>1. CASE Request(c)
    BY <2>1 DEF Request, Active, Alive
  <2>2. CASE Refuse(c)
    BY <2>2 DEF Refuse, Active, Alive
  <2>3. CASE Publish(c)
    <3>1. PICK k \in Sessions : /\ spec[k] = None /\ \A x \in Sessions \ {k} : spec'[x] = spec[x]
                               /\ lease' \subseteq lease \cup {k}
      BY <2>3 DEF Publish, Fresh
    <3>2. UNCHANGED proc
      BY <2>3 DEF Publish
    <3> QED
      BY <3>1, <3>2 DEF Active, Alive
  <2>4. CASE Spawn(c)
    <3>1. /\ worker[c].session \in Sessions /\ spec[worker[c].session].kind # "keeper"
          /\ UNCHANGED spec /\ lease' \subseteq lease \cup {worker[c].session}
          /\ \A x \in Sessions \ {worker[c].session} : proc'[x] = proc[x]
      BY <2>4 DEF Spawn
    <3> QED
      BY <3>1 DEF Active, Alive
  <2>5. CASE Expose(c)
    BY <2>5 DEF Expose, Active, Alive
  <2>6. CASE Unready(c)
    <3>1. /\ worker[c].session \in Sessions /\ spec[worker[c].session].kind # "keeper"
          /\ UNCHANGED spec /\ lease' \subseteq lease
          /\ \A x \in Sessions \ {worker[c].session} : proc'[x] = proc[x]
      BY <2>6 DEF Unready
    <3> QED
      BY <3>1 DEF Active, Alive
  <2>7. CASE Finish(c)
    BY <2>7 DEF Finish, Active, Alive
  <2> QED
    BY <1>1, <2>1, <2>2, <2>3, <2>4, <2>5, <2>6, <2>7 DEF Admitting
<1>2. ASSUME NEW c \in Clients, Keeping(c) PROVE Created
  <2>1. CASE ReadyReserve(c)
    <3>1. /\ Waning /\ UNCHANGED spec /\ lease' \subseteq lease
      BY <2>1, SameIsWaning DEF ReadyReserve, Looks
    <3> QED
      BY <3>1 DEF Waning
  <2>2. CASE ReadyPublish(c)
    <3>1. /\ Waning /\ UNCHANGED spec /\ lease' \subseteq lease
      BY <2>2, SameIsWaning DEF ReadyPublish, Looks
    <3> QED
      BY <3>1 DEF Waning
  <2>3. CASE ReadySpawn(c)
    <3>1. /\ Waning /\ UNCHANGED spec /\ lease' \subseteq lease
      BY <2>3, SameIsWaning DEF ReadySpawn, Looks
    <3> QED
      BY <3>1 DEF Waning
  <2>4. CASE TurnLeaving(c)
    <3>1. /\ Waning /\ UNCHANGED spec /\ lease' \subseteq lease
      BY <2>4, SameIsWaning DEF TurnLeaving, Looks
    <3> QED
      BY <3>1 DEF Waning
  <2>5. CASE StartAlone(c)
    <3>1. PICK k \in Sessions : Starts(SetupFor(c), k, worker[c].class, {})
      BY <2>5 DEF StartAlone
    <3>2. \A x \in Sessions \ {k} : proc'[x] = proc[x] /\ spec'[x] = spec[x]
      BY <3>1 DEF Starts
    <3> QED
      BY <3>1, <3>2 DEF Starts, Active, Alive
  <2>6. CASE StartLeaving(c)
    <3>1. PICK D \in SUBSET Sessions, k \in Sessions :
             Leaving(c, D) /\ Starts(SetupFor(c), k, worker[c].class, D)
      BY <2>6 DEF StartLeaving
    <3>2. \A x \in Sessions \ {k} : proc'[x] = proc[x] /\ spec'[x] = spec[x]
      BY <3>1 DEF Starts
    <3> QED
      BY <3>1, <3>2 DEF Starts, Active, Alive
  <2> QED
    BY <1>2, <2>1, <2>2, <2>3, <2>4, <2>5, <2>6 DEF Keeping
<1>3. ASSUME NEW e \in Setups, Reserving(e) PROVE Created
  <2>1. CASE Acquire(e)
    BY <2>1 DEF Acquire, Active, Alive
  <2>2. CASE Enter(e)
    BY <2>2 DEF Enter, Active, Alive
  <2>3. CASE Release(e)
    BY <2>3 DEF Release, Active, Alive
  <2> QED
    BY <1>3, <2>1, <2>2, <2>3 DEF Reserving
<1>4. ASSUME NEW s \in Sessions, Running(s) PROVE Created
  <2>1. /\ Waning
        /\ UNCHANGED <<up, worker, registryLock, blocked, keeper, spec, lease, generation>>
        /\ UNCHANGED <<held, boot>>
        /\ \A x \in Sessions : native[x] = "none" => native'[x] = "none"
    BY <1>4, TypesNamed, RunningWanes, RunningFrame
  <2> QED
    BY <2>1 DEF Waning
<1>5. ASSUME TurnAlone PROVE Created
  <2>1. /\ Waning /\ UNCHANGED spec /\ lease' \subseteq lease
    BY <1>5, SameIsWaning DEF TurnAlone, Looks
  <2> QED
    BY <2>1 DEF Waning
<1>6. ASSUME Refresh PROVE Created
  BY <1>6 DEF Refresh, Active, Alive
<1>7. ASSUME Failing PROVE Created
  <2>1. CASE Crash
    <3>1. Waning /\ UNCHANGED spec /\ lease' \subseteq lease
      BY <2>1, TypesNamed, FailingWanes DEF Crash, Failing
    <3> QED
      BY <3>1 DEF Waning
  <2>2. CASE KillGroup
    <3>1. Waning /\ UNCHANGED spec /\ lease' \subseteq lease
      BY <2>2, TypesNamed, FailingWanes DEF KillGroup, Failing
    <3> QED
      BY <3>1 DEF Waning
  <2>3. CASE PowerFailure
    <3>1. Waning /\ UNCHANGED spec /\ lease' \subseteq lease
      BY <2>3, TypesNamed, FailingWanes DEF PowerFailure, Failing
    <3> QED
      BY <3>1 DEF Waning
  <2>4. CASE Start
    <3>1. Waning /\ UNCHANGED spec /\ lease' \subseteq lease
      BY <2>4, TypesNamed, FailingWanes DEF Start, Failing
    <3> QED
      BY <3>1 DEF Waning
  <2> QED
    BY <1>7, <2>1, <2>2, <2>3, <2>4 DEF Failing
<1> QED
  BY <1>1, <1>2, <1>3, <1>4, <1>5, <1>6, <1>7, StepKinds DEF SessionsInv

\* A keeper record names a keeper of its setup.
LEMMA RecordKept == ASSUME TypeOK, SessionsInv, Next PROVE RecordInv'
<1>a. /\ keeper \in [Setups -> Keepers]
      /\ spec \in [Sessions -> Specs \cup {None}]
      /\ proc \in [Sessions -> Procs]
      /\ native \in [Sessions -> {"none", "bound", "control", "gone"}]
  BY TypesNamed DEF Typed, TypeOK
<1> USE <1>a
<1>w. Created
  BY CreatedStay DEF SessionsInv
<1>v. ASSUME NEW e \in Setups, keeper[e].session # 0
      PROVE  /\ keeper[e].session \in Sessions /\ spec[keeper[e].session] # None
             /\ spec[keeper[e].session].kind = "keeper" /\ spec[keeper[e].session].setup = e
  <2>1. keeper[e].session \in Sessions
    BY <1>v DEF Keepers, Sessions
  <2> QED
    BY <1>v, <2>1 DEF SessionsInv, RecordInv, Recorded, KeeperOf
<1> DEFINE Marked(e) == /\ keeper'[e].session = keeper[e].session
                        /\ RetiredKeeper(keeper[e].session) /\ keeper[e].session \notin lease'
<1> HIDE DEF Marked
<1>u. ASSUME NEW e \in Setups,
             \/ Marked(e)
             \/ keeper'[e].session = keeper[e].session /\ keeper'[e].failed = keeper[e].failed
      PROVE  Recorded(e)'
  <2>1. SUFFICES ASSUME keeper[e].session # 0 PROVE Recorded(e)'
    BY <1>u DEF Recorded, Marked
  <2>2. PICK s \in Sessions : s = keeper[e].session
    BY <1>v, <2>1
  <2>3. spec[s] # None /\ spec[s].kind = "keeper" /\ spec[s].setup = e
    BY <1>v, <2>1, <2>2
  <2>4. spec'[s] = spec[s] /\ (s \in lease' => s \in lease) /\ (Active(s)' => Active(s))
    BY <1>w, <2>3 DEF Created
  <2>5. KeeperOf(s, e)'
    BY <2>3, <2>4 DEF KeeperOf
  <2>6. keeper[e].failed => s \notin lease /\ ~Active(s)
    BY <2>1, <2>2 DEF SessionsInv, RecordInv, Recorded
  <2>7. RetiredKeeper(s) => ~Active(s)
    BY DEF SessionsInv, ProcInv, Consistent, RetiredKeeper, Active, Alive
  <2> QED
    BY <1>u, <2>2, <2>4, <2>5, <2>6, <2>7 DEF Recorded, Marked
<1> USE DEF Move, Goto, Quit, FreeLock, disk, Apart, Readied, Advance, Leaving,
           ServiceSide, SetProc, Fault, Forget, RecordInv
<1>1. ASSUME NEW c \in Clients, Admitting(c) PROVE RecordInv'
  <2>1. CASE Request(c)
    <3>1. /\ UNCHANGED keeper
      BY <2>1 DEF Request
    <3> QED
      BY <3>1, <1>u
  <2>2. CASE Refuse(c)
    <3>1. /\ UNCHANGED keeper
      BY <2>2 DEF Refuse
    <3> QED
      BY <3>1, <1>u
  <2>3. CASE Publish(c)
    <3>1. /\ UNCHANGED keeper
      BY <2>3 DEF Publish
    <3> QED
      BY <3>1, <1>u
  <2>4. CASE Spawn(c)
    <3>1. /\ UNCHANGED keeper
      BY <2>4 DEF Spawn
    <3> QED
      BY <3>1, <1>u
  <2>5. CASE Expose(c)
    <3>1. /\ UNCHANGED keeper
      BY <2>5 DEF Expose
    <3> QED
      BY <3>1, <1>u
  <2>6. CASE Unready(c)
    <3>1. /\ UNCHANGED keeper
      BY <2>6 DEF Unready
    <3> QED
      BY <3>1, <1>u
  <2>7. CASE Finish(c)
    <3>1. /\ UNCHANGED keeper
      BY <2>7 DEF Finish
    <3> QED
      BY <3>1, <1>u
  <2> QED
    BY <1>1, <2>1, <2>2, <2>3, <2>4, <2>5, <2>6, <2>7 DEF Admitting
<1>2. ASSUME NEW c \in Clients, Keeping(c) PROVE RecordInv'
  <2>1. CASE ReadyReserve(c)
    <3>1. /\ UNCHANGED keeper
      BY <2>1 DEF ReadyReserve
    <3> QED
      BY <3>1, <1>u
  <2>2. CASE ReadyPublish(c)
    <3>1. /\ UNCHANGED keeper
      BY <2>2 DEF ReadyPublish
    <3> QED
      BY <3>1, <1>u
  <2>3. CASE ReadySpawn(c)
    <3>1. /\ UNCHANGED keeper
      BY <2>3 DEF ReadySpawn
    <3> QED
      BY <3>1, <1>u
  <2>4. CASE TurnLeaving(c)
    <3>1. \A e \in Setups : Turn(e) /\ keeper[e] \in Keepers
      BY <2>4 DEF TurnLeaving, Looks
    <3>2. ASSUME NEW e \in Setups PROVE Recorded(e)'
      <4>1. keeper'[e].session = 0
            \/ \/ Marked(e)
               \/ keeper'[e].session = keeper[e].session /\ keeper'[e].failed = keeper[e].failed
        <5> DEFINE k == keeper[e]
        <5>1. k \in Keepers /\ Turn(e)
          BY <3>1
        <5>2. CASE keeper'[e] = k \/ keeper'[e] = NoKeeper
          BY <5>2 DEF NoKeeper
        <5>3. CASE /\ keeper'[e] = [k EXCEPT !.failed = TRUE]
                   /\ RetiredKeeper(k.session) /\ k.session \notin lease'
          BY <5>1, <5>3 DEF Keepers, Marked
        <5>4. CASE \E x \in BOOLEAN : keeper'[e] = [k EXCEPT !.retiring = TRUE, !.pending = x]
          BY <5>1, <5>4 DEF Keepers
        <5> QED
          BY <5>1, <5>2, <5>3, <5>4 DEF Turn
      <4>2. CASE keeper'[e].session = 0
        BY <4>2 DEF Recorded
      <4> QED
        BY <4>1, <4>2, <1>u
    <3> QED
      BY <3>2
  <2>5. CASE StartAlone(c)
    <3>1. PICK k \in Sessions : Starts(SetupFor(c), k, worker[c].class, {})
      BY <2>5 DEF StartAlone
    <3>2. keeper' = [keeper EXCEPT ![SetupFor(c)] = [NoKeeper EXCEPT !.session = k]]
      BY <3>1 DEF Starts
    <3>3. spec' = [spec EXCEPT ![k] = [kind |-> "keeper", class |-> worker[c].class,
                                       setup |-> SetupFor(c)]]
      BY <3>1 DEF Starts
    <3>4. [kind |-> "keeper", class |-> worker[c].class, setup |-> SetupFor(c)] \in Specs
      BY <2>5, AdmissionAssumption DEF StartAlone, SetupFor, Specs
    <3>e. PICK e \in Setups : e = SetupFor(c)
      BY <2>5, AdmissionAssumption DEF StartAlone, SetupFor
    <3>5. Recorded(e)'
      BY <3>2, <3>3, <3>4, <3>e, SpecIsNotNone DEF KeeperOf, Recorded, NoKeeper
    <3>6. \A x \in Setups \ {e} : keeper'[x] = keeper[x]
      BY <3>2, <3>e
    <3> QED
      BY <3>5, <3>6, <1>u
  <2>6. CASE StartLeaving(c)
    <3>1. PICK D \in SUBSET Sessions, k \in Sessions :
             Leaving(c, D) /\ Starts(SetupFor(c), k, worker[c].class, D)
      BY <2>6 DEF StartLeaving
    <3>2. keeper' = [keeper EXCEPT ![SetupFor(c)] = [NoKeeper EXCEPT !.session = k]]
      BY <3>1 DEF Starts
    <3>3. spec' = [spec EXCEPT ![k] = [kind |-> "keeper", class |-> worker[c].class,
                                       setup |-> SetupFor(c)]]
      BY <3>1 DEF Starts
    <3>4. [kind |-> "keeper", class |-> worker[c].class, setup |-> SetupFor(c)] \in Specs
      BY <2>6, AdmissionAssumption DEF StartLeaving, SetupFor, Specs
    <3>e. PICK e \in Setups : e = SetupFor(c)
      BY <2>6, AdmissionAssumption DEF StartLeaving, SetupFor
    <3>5. Recorded(e)'
      BY <3>2, <3>3, <3>4, <3>e, SpecIsNotNone DEF KeeperOf, Recorded, NoKeeper
    <3>6. \A x \in Setups \ {e} : keeper'[x] = keeper[x]
      BY <3>2, <3>e
    <3> QED
      BY <3>5, <3>6, <1>u
  <2> QED
    BY <1>2, <2>1, <2>2, <2>3, <2>4, <2>5, <2>6 DEF Keeping
<1>3. ASSUME NEW e \in Setups, Reserving(e) PROVE RecordInv'
  <2>1. CASE Acquire(e)
    <3>1. /\ UNCHANGED keeper
      BY <2>1 DEF Acquire
    <3> QED
      BY <3>1, <1>u
  <2>2. CASE Enter(e)
    <3>1. /\ UNCHANGED keeper
      BY <2>2 DEF Enter
    <3> QED
      BY <3>1, <1>u
  <2>3. CASE Release(e)
    <3>1. /\ UNCHANGED keeper
      BY <2>3 DEF Release
    <3> QED
      BY <3>1, <1>u
  <2> QED
    BY <1>3, <2>1, <2>2, <2>3 DEF Reserving
<1>4. ASSUME NEW s \in Sessions, Running(s) PROVE RecordInv'
  <2>1. UNCHANGED keeper
    BY <1>4, RunningFrame
  <2> QED
    BY <2>1, <1>u
<1>5. ASSUME TurnAlone PROVE RecordInv'
  <2>1. \A e \in Setups : Turn(e) /\ keeper[e] \in Keepers
    BY <1>5 DEF TurnAlone, Looks
  <2>2. ASSUME NEW e \in Setups PROVE Recorded(e)'
    <3>1. keeper'[e].session = 0
          \/ \/ Marked(e)
             \/ keeper'[e].session = keeper[e].session /\ keeper'[e].failed = keeper[e].failed
      <4> DEFINE k == keeper[e]
      <4>1. k \in Keepers /\ Turn(e)
        BY <2>1
      <4>2. CASE keeper'[e] = k \/ keeper'[e] = NoKeeper
        BY <4>2 DEF NoKeeper
      <4>3. CASE /\ keeper'[e] = [k EXCEPT !.failed = TRUE]
                 /\ RetiredKeeper(k.session) /\ k.session \notin lease'
        BY <4>1, <4>3 DEF Keepers, Marked
      <4>4. CASE \E x \in BOOLEAN : keeper'[e] = [k EXCEPT !.retiring = TRUE, !.pending = x]
        BY <4>1, <4>4 DEF Keepers
      <4> QED
        BY <4>1, <4>2, <4>3, <4>4 DEF Turn
    <3>2. CASE keeper'[e].session = 0
      BY <3>2 DEF Recorded
    <3> QED
      BY <3>1, <3>2, <1>u
  <2> QED
    BY <2>2
<1>6. ASSUME Refresh PROVE RecordInv'
  <2>1. /\ UNCHANGED keeper
    BY <1>6 DEF Refresh
  <2> QED
    BY <2>1, <1>u
<1>7. ASSUME Failing PROVE RecordInv'
  <2>1. CASE Crash
    <3>1. keeper' = [e \in Setups |-> NoKeeper]
      BY <2>1 DEF Crash
    <3> QED
      BY <3>1 DEF NoKeeper, Recorded
  <2>2. CASE KillGroup
    <3>1. /\ UNCHANGED keeper
      BY <2>2 DEF KillGroup
    <3> QED
      BY <3>1, <1>u
  <2>3. CASE PowerFailure
    <3>1. keeper' = [e \in Setups |-> NoKeeper]
      BY <2>3 DEF PowerFailure
    <3> QED
      BY <3>1 DEF NoKeeper, Recorded
  <2>4. CASE Start
    <3>1. /\ UNCHANGED keeper
      BY <2>4 DEF Start
    <3> QED
      BY <3>1, <1>u
  <2> QED
    BY <1>7, <2>1, <2>2, <2>3, <2>4 DEF Failing
<1> QED
  BY <1>1, <1>2, <1>3, <1>4, <1>5, <1>6, <1>7, StepKinds DEF SessionsInv

\* A keeper starts only when the last one of its setup has ended.
LEMMA KeeperUnique == ASSUME TypeOK, SessionsInv, Next PROVE KeeperInv'
<1>a. /\ worker \in [Clients -> Workers]
      /\ keeper \in [Setups -> Keepers]
      /\ spec \in [Sessions -> Specs \cup {None}]
      /\ proc \in [Sessions -> Procs]
      /\ native \in [Sessions -> {"none", "bound", "control", "gone"}]
  BY TypesNamed DEF Typed, TypeOK
<1> USE <1>a
<1>w. Created
  BY CreatedStay DEF SessionsInv
<1>t. ASSUME NEW e \in Setups, Ended(keeper[e]), NEW s \in Sessions, s = keeper[e].session
      PROVE  ~Active(s)
  <2>1. s # 0 /\ Recorded(e)
    BY NoneDiffers DEF SessionsInv, RecordInv
  <2>2. RetiredKeeper(s) => ~Active(s)
    BY DEF SessionsInv, ProcInv, Consistent, RetiredKeeper, Active, Alive
  <2> QED
    BY <1>t, <2>1, <2>2 DEF Recorded, Ended
<1> DEFINE Orphans == /\ \A s \in Sessions : spec'[s] = spec[s] \/ spec'[s].kind # "keeper"
                      /\ up' => /\ up
                                /\ \A e \in Setups : \/ keeper'[e].session = keeper[e].session
                                                     \/ Ended(keeper[e])
<1> HIDE DEF Orphans
<1>u. ASSUME Orphans PROVE KeeperInv'
  <2>1. ASSUME NEW s \in Sessions, NEW e \in Setups, KeeperOf(s, e)', Active(s)'
        PROVE  KeeperOf(s, e) /\ Active(s)
    <3>1. KeeperOf(s, e)
      BY <1>u, <2>1 DEF KeeperOf, Orphans
    <3> QED
      BY <1>w, <2>1, <3>1 DEF Created, KeeperOf
  <2>2. ASSUME NEW s \in Sessions, NEW e \in Setups, KeeperOf(s, e)', Active(s)', up'
        PROVE  keeper'[e].session = s
    <3>1. KeeperOf(s, e) /\ Active(s)
      BY <2>1, <2>2
    <3>2. up /\ (keeper'[e].session = keeper[e].session \/ Ended(keeper[e]))
      BY <1>u, <2>2 DEF Orphans
    <3>3. keeper[e].session = s
      BY <3>1, <3>2 DEF SessionsInv, KeeperInv
    <3> QED
      BY <1>t, <3>1, <3>2, <3>3
  <2>3. ASSUME NEW s \in Sessions, NEW e \in Setups, KeeperOf(s, e)', Active(s)',
               NEW t \in Sessions, KeeperOf(t, e)', Active(t)'
        PROVE  t = s
    BY <2>1, <2>3 DEF SessionsInv, KeeperInv
  <2> QED
    BY <2>2, <2>3 DEF KeeperInv
<1> USE DEF Move, Goto, Quit, FreeLock, disk, Apart, Readied, Advance, Leaving,
           ServiceSide, SetProc, Fault, Forget
<1>1. ASSUME NEW c \in Clients, Admitting(c) PROVE KeeperInv'
  <2>1. CASE Request(c)
    <3>1. /\ UNCHANGED <<up, keeper, spec>>
      BY <2>1 DEF Request
    <3> QED
      BY <3>1, <1>u DEF Orphans
  <2>2. CASE Refuse(c)
    <3>1. /\ UNCHANGED <<up, keeper, spec>>
      BY <2>2 DEF Refuse
    <3> QED
      BY <3>1, <1>u DEF Orphans
  <2>3. CASE Publish(c)
    <3>1. UNCHANGED <<up, keeper>>
      BY <2>3 DEF Publish
    <3>2. PICK k \in Sessions :
            spec' = [spec EXCEPT ![k] = [kind |-> worker[c].kind, class |-> worker[c].class,
                                         setup |-> SetupOf[worker[c].class]]]
      BY <2>3 DEF Publish
    <3>3. worker[c].kind # "keeper"
      BY DEF Workers
    <3> QED
      BY <3>1, <3>2, <3>3, <1>u DEF Orphans
  <2>4. CASE Spawn(c)
    <3>1. /\ UNCHANGED <<up, keeper, spec>>
      BY <2>4 DEF Spawn
    <3> QED
      BY <3>1, <1>u DEF Orphans
  <2>5. CASE Expose(c)
    <3>1. /\ UNCHANGED <<up, keeper, spec>>
      BY <2>5 DEF Expose
    <3> QED
      BY <3>1, <1>u DEF Orphans
  <2>6. CASE Unready(c)
    <3>1. /\ UNCHANGED <<up, keeper, spec>>
      BY <2>6 DEF Unready
    <3> QED
      BY <3>1, <1>u DEF Orphans
  <2>7. CASE Finish(c)
    <3>1. /\ UNCHANGED <<up, keeper, spec>>
      BY <2>7 DEF Finish
    <3> QED
      BY <3>1, <1>u DEF Orphans
  <2> QED
    BY <1>1, <2>1, <2>2, <2>3, <2>4, <2>5, <2>6, <2>7 DEF Admitting
<1>2. ASSUME NEW c \in Clients, Keeping(c) PROVE KeeperInv'
  <2>1. CASE ReadyReserve(c)
    <3>1. /\ UNCHANGED <<up, keeper, spec>>
      BY <2>1 DEF ReadyReserve
    <3> QED
      BY <3>1, <1>u DEF Orphans
  <2>2. CASE ReadyPublish(c)
    <3>1. /\ UNCHANGED <<up, keeper, spec>>
      BY <2>2 DEF ReadyPublish
    <3> QED
      BY <3>1, <1>u DEF Orphans
  <2>3. CASE ReadySpawn(c)
    <3>1. /\ UNCHANGED <<up, keeper, spec>>
      BY <2>3 DEF ReadySpawn
    <3> QED
      BY <3>1, <1>u DEF Orphans
  <2>4. CASE TurnLeaving(c)
    <3>1. /\ \A e \in Setups : Turn(e) /\ keeper[e] \in Keepers
          /\ UNCHANGED <<up, spec>>
      BY <2>4 DEF TurnLeaving, Looks
    <3>2. ASSUME NEW e \in Setups
          PROVE  keeper'[e].session = keeper[e].session \/ Ended(keeper[e])
      <4> DEFINE k == keeper[e]
      <4>1. k \in Keepers /\ Turn(e)
        BY <3>1
      <4>2. CASE \E x \in BOOLEAN : keeper'[e] = [k EXCEPT !.retiring = TRUE, !.pending = x]
        BY <4>1, <4>2 DEF Keepers
      <4> QED
        BY <4>1, <4>2 DEF Turn, Ended
    <3> QED
      BY <3>1, <3>2, <1>u DEF Orphans
  <2>5. CASE StartAlone(c)
    <3>1. PICK k \in Sessions : Starts(SetupFor(c), k, worker[c].class, {})
      BY <2>5 DEF StartAlone
    <3>e. PICK e \in Setups : e = SetupFor(c)
      BY <2>5, AdmissionAssumption DEF StartAlone, SetupFor
    <3>2. /\ keeper' = [keeper EXCEPT ![e] = [NoKeeper EXCEPT !.session = k]] /\ Ended(keeper[e])
          /\ spec' = [spec EXCEPT ![k] = [kind |-> "keeper", class |-> worker[c].class,
                                          setup |-> e]]
      BY <3>1, <3>e DEF Starts
    <3>3. up /\ UNCHANGED up
      BY <2>5, <3>1 DEF StartAlone, Leaving
    <3>4. /\ \A x \in Sessions \ {k} : spec'[x] = spec[x]
          /\ \A x \in Setups \ {e} : ~KeeperOf(k, x)' /\ keeper'[x] = keeper[x]
          /\ keeper'[e].session = k
      BY <3>2 DEF KeeperOf, NoKeeper
    <3>5. \A s \in Sessions : ~(KeeperOf(s, e) /\ Active(s))
      BY <3>2, <3>3, <1>t DEF SessionsInv, KeeperInv
    <3>6. ASSUME NEW s \in Sessions \ {k}, NEW x \in Setups, KeeperOf(s, x)', Active(s)'
          PROVE  KeeperOf(s, x) /\ Active(s) /\ x # e
      <4>1. KeeperOf(s, x)
        BY <3>4, <3>6 DEF KeeperOf
      <4>2. Active(s)
        BY <1>w, <3>6, <4>1 DEF Created, KeeperOf
      <4> QED
        BY <3>5, <4>1, <4>2
    <3>7. ASSUME NEW s \in Sessions, NEW x \in Setups, KeeperOf(s, x)', Active(s)'
          PROVE  /\ keeper'[x].session = s
                 /\ \A t \in Sessions : KeeperOf(t, x)' /\ Active(t)' => t = s
      <4>1. CASE x = e
        BY <3>4, <3>6, <3>7, <4>1
      <4>2. CASE x # e
        <5>1. s # k /\ keeper'[x] = keeper[x]
          BY <3>4, <3>7, <4>2
        <5>2. KeeperOf(s, x) /\ Active(s)
          BY <3>6, <3>7, <5>1
        <5>3. \A t \in Sessions : KeeperOf(t, x)' /\ Active(t)' => KeeperOf(t, x) /\ Active(t)
          BY <3>4, <3>6, <4>2
        <5> QED
          BY <3>3, <5>1, <5>2, <5>3 DEF SessionsInv, KeeperInv
      <4> QED
        BY <4>1, <4>2
    <3> QED
      BY <3>7 DEF KeeperInv
  <2>6. CASE StartLeaving(c)
    <3>1. PICK D \in SUBSET Sessions, k \in Sessions :
             Leaving(c, D) /\ Starts(SetupFor(c), k, worker[c].class, D)
      BY <2>6 DEF StartLeaving
    <3>e. PICK e \in Setups : e = SetupFor(c)
      BY <2>6, AdmissionAssumption DEF StartLeaving, SetupFor
    <3>2. /\ keeper' = [keeper EXCEPT ![e] = [NoKeeper EXCEPT !.session = k]] /\ Ended(keeper[e])
          /\ spec' = [spec EXCEPT ![k] = [kind |-> "keeper", class |-> worker[c].class,
                                          setup |-> e]]
      BY <3>1, <3>e DEF Starts
    <3>3. up /\ UNCHANGED up
      BY <2>6, <3>1 DEF StartLeaving, Leaving
    <3>4. /\ \A x \in Sessions \ {k} : spec'[x] = spec[x]
          /\ \A x \in Setups \ {e} : ~KeeperOf(k, x)' /\ keeper'[x] = keeper[x]
          /\ keeper'[e].session = k
      BY <3>2 DEF KeeperOf, NoKeeper
    <3>5. \A s \in Sessions : ~(KeeperOf(s, e) /\ Active(s))
      BY <3>2, <3>3, <1>t DEF SessionsInv, KeeperInv
    <3>6. ASSUME NEW s \in Sessions \ {k}, NEW x \in Setups, KeeperOf(s, x)', Active(s)'
          PROVE  KeeperOf(s, x) /\ Active(s) /\ x # e
      <4>1. KeeperOf(s, x)
        BY <3>4, <3>6 DEF KeeperOf
      <4>2. Active(s)
        BY <1>w, <3>6, <4>1 DEF Created, KeeperOf
      <4> QED
        BY <3>5, <4>1, <4>2
    <3>7. ASSUME NEW s \in Sessions, NEW x \in Setups, KeeperOf(s, x)', Active(s)'
          PROVE  /\ keeper'[x].session = s
                 /\ \A t \in Sessions : KeeperOf(t, x)' /\ Active(t)' => t = s
      <4>1. CASE x = e
        BY <3>4, <3>6, <3>7, <4>1
      <4>2. CASE x # e
        <5>1. s # k /\ keeper'[x] = keeper[x]
          BY <3>4, <3>7, <4>2
        <5>2. KeeperOf(s, x) /\ Active(s)
          BY <3>6, <3>7, <5>1
        <5>3. \A t \in Sessions : KeeperOf(t, x)' /\ Active(t)' => KeeperOf(t, x) /\ Active(t)
          BY <3>4, <3>6, <4>2
        <5> QED
          BY <3>3, <5>1, <5>2, <5>3 DEF SessionsInv, KeeperInv
      <4> QED
        BY <4>1, <4>2
    <3> QED
      BY <3>7 DEF KeeperInv
  <2> QED
    BY <1>2, <2>1, <2>2, <2>3, <2>4, <2>5, <2>6 DEF Keeping
<1>3. ASSUME NEW e \in Setups, Reserving(e) PROVE KeeperInv'
  <2>1. CASE Acquire(e)
    <3>1. /\ UNCHANGED <<up, keeper, spec>>
      BY <2>1 DEF Acquire
    <3> QED
      BY <3>1, <1>u DEF Orphans
  <2>2. CASE Enter(e)
    <3>1. /\ UNCHANGED <<up, keeper, spec>>
      BY <2>2 DEF Enter
    <3> QED
      BY <3>1, <1>u DEF Orphans
  <2>3. CASE Release(e)
    <3>1. /\ UNCHANGED <<up, keeper, spec>>
      BY <2>3 DEF Release
    <3> QED
      BY <3>1, <1>u DEF Orphans
  <2> QED
    BY <1>3, <2>1, <2>2, <2>3 DEF Reserving
<1>4. ASSUME NEW s \in Sessions, Running(s) PROVE KeeperInv'
  <2>1. UNCHANGED <<up, keeper, spec>>
    BY <1>4, RunningFrame
  <2> QED
    BY <2>1, <1>u DEF Orphans
<1>5. ASSUME TurnAlone PROVE KeeperInv'
  <2>1. /\ \A e \in Setups : Turn(e) /\ keeper[e] \in Keepers
        /\ UNCHANGED <<up, spec>>
    BY <1>5 DEF TurnAlone, Looks
  <2>2. ASSUME NEW e \in Setups
        PROVE  keeper'[e].session = keeper[e].session \/ Ended(keeper[e])
    <3> DEFINE k == keeper[e]
    <3>1. k \in Keepers /\ Turn(e)
      BY <2>1
    <3>2. CASE \E x \in BOOLEAN : keeper'[e] = [k EXCEPT !.retiring = TRUE, !.pending = x]
      BY <3>1, <3>2 DEF Keepers
    <3> QED
      BY <3>1, <3>2 DEF Turn, Ended
  <2> QED
    BY <2>1, <2>2, <1>u DEF Orphans
<1>6. ASSUME Refresh PROVE KeeperInv'
  <2>1. /\ UNCHANGED <<up, keeper, spec>>
    BY <1>6 DEF Refresh
  <2> QED
    BY <2>1, <1>u DEF Orphans
<1>7. ASSUME Failing PROVE KeeperInv'
  <2>1. CASE Crash
    <3>1. up' = FALSE /\ UNCHANGED spec
      BY <2>1 DEF Crash
    <3> QED
      BY <3>1, <1>u DEF Orphans
  <2>2. CASE KillGroup
    <3>1. /\ UNCHANGED <<up, keeper, spec>>
      BY <2>2 DEF KillGroup
    <3> QED
      BY <3>1, <1>u DEF Orphans
  <2>3. CASE PowerFailure
    <3>1. up' = FALSE /\ UNCHANGED spec
      BY <2>3 DEF PowerFailure
    <3> QED
      BY <3>1, <1>u DEF Orphans
  <2>4. CASE Start
    <3>1. proc' = Emptied
      BY <2>4 DEF Start
    <3>2. \A x \in Sessions : ~Active(x)'
      <4>1. ASSUME NEW x \in Sessions PROVE ~Active(x)'
        <5>1. /\ proc'[x].at \in {"none", "retired", "failed"}
              /\ proc'[x].at \in {"retired", "failed"} => ~proc'[x].host
              /\ proc'[x].at = "none" => proc'[x] = proc[x]
          BY <3>1, TypesNamed, EmptiedIsInactive
        <5> QED
          BY <5>1 DEF Active, Alive, SessionsInv, ProcInv, Consistent
      <4> QED
        BY <4>1
    <3> QED
      BY <3>2 DEF KeeperInv
  <2> QED
    BY <1>7, <2>1, <2>2, <2>3, <2>4 DEF Failing
<1> QED
  BY <1>1, <1>2, <1>3, <1>4, <1>5, <1>6, <1>7, StepKinds DEF SessionsInv

\* No instance and no keeper gets a lease in a reserved setup.
LEMMA HeldKept == ASSUME TypeOK, SessionsInv, Next PROVE HeldInv'
<1>a. /\ worker \in [Clients -> Workers]
      /\ spec \in [Sessions -> Specs \cup {None}]
      /\ lease \subseteq Sessions /\ \A s \in lease : spec[s] # None
      /\ native \in [Sessions -> {"none", "bound", "control", "gone"}]
      /\ held \in [Setups -> {"none", "reserved", "exclusive"}]
  BY TypesNamed DEF Typed, TypeOK
<1> USE <1>a
<1>w. Created
  BY CreatedStay DEF SessionsInv
<1>u. ASSUME NEW e \in Setups, held'[e] = held[e] \/ held'[e] = "none",
             \A s \in lease' \ lease : ~InstanceOf(s, e)' /\ ~KeeperOf(s, e)'
      PROVE  Alone(e)'
  <2>1. SUFFICES ASSUME held'[e] = held[e], NEW s \in lease', s \in lease
                 PROVE  /\ held[e] # "none" => ~InstanceOf(s, e)'
                        /\ held[e] = "exclusive" => ~KeeperOf(s, e)'
    BY <1>u DEF Alone
  <2>2. spec'[s] = spec[s]
    BY <2>1, <1>w DEF Created
  <2>3. /\ held[e] # "none" => ~InstanceOf(s, e)
        /\ held[e] = "exclusive" => ~KeeperOf(s, e)
    BY <2>1 DEF SessionsInv, HeldInv, Alone
  <2> QED
    BY <2>2, <2>3 DEF InstanceOf, KeeperOf
<1>x. /\ 0 \notin Sessions
      /\ \A c \in Clients : worker[c].at \notin Before =>
           /\ worker[c].session \in Sessions /\ spec[worker[c].session] # None
           /\ spec[worker[c].session].kind = worker[c].kind /\ worker[c].kind # "keeper"
           /\ spec[worker[c].session].setup = SetupFor(c)
           /\ worker[c].session \notin blocked
           /\ \A d \in Clients \ {c} : worker[d].session # worker[c].session
  BY NoneDiffers, SessionsExist DEF SessionsInv, SessionInv, Workers
<1> USE <1>x
<1> USE DEF Move, Goto, Quit, FreeLock, disk, Apart, Readied, Advance, Leaving,
           ServiceSide, SetProc, Fault, Forget, HeldInv, Before
<1>1. ASSUME NEW c \in Clients, Admitting(c) PROVE HeldInv'
  <2>1. CASE Request(c)
    <3>1. /\ UNCHANGED held /\ lease' \subseteq lease
      BY <2>1 DEF Request
    <3> QED
      BY <3>1, <1>u
  <2>2. CASE Refuse(c)
    <3>1. /\ UNCHANGED held /\ lease' \subseteq lease
      BY <2>2 DEF Refuse
    <3> QED
      BY <3>1, <1>u
  <2>3. CASE Publish(c)
    <3>1. PICK k \in Sessions :
             /\ spec' = [spec EXCEPT ![k] = [kind |-> worker[c].kind, class |-> worker[c].class,
                                             setup |-> SetupOf[worker[c].class]]]
             /\ lease' \subseteq lease \cup {k}
      BY <2>3 DEF Publish
    <3>e. PICK e \in Setups : e = SetupFor(c)
      BY <2>3, AdmissionsHaveSetups DEF Publish, SessionsInv
    <3>2. held[e] = "none" /\ UNCHANGED held
      BY <2>3, <3>e DEF Publish, SessionsInv, LockInv, SetupFor
    <3>3. Alone(e)'
      BY <3>2 DEF Alone
    <3>4. \A x \in Setups \ {e} : \A s \in lease' \ lease : ~InstanceOf(s, x)' /\ ~KeeperOf(s, x)'
      BY <3>1, <3>e DEF KeeperOf, InstanceOf, SetupFor
    <3> QED
      BY <3>2, <3>3, <3>4, <1>u
  <2>4. CASE Spawn(c)
    <3>1. PICK z \in Sessions : z = worker[c].session
      BY <2>4 DEF Spawn
    <3>2. UNCHANGED <<held, spec>> /\ lease' \subseteq lease \cup {z}
      BY <2>4, <3>1 DEF Spawn
    <3>3. spec[z].kind # "keeper" /\ (spec[z].kind = "dsp" => z \in lease)
      BY <2>4, <3>1 DEF Spawn, SessionsInv, UnstartedInv, Unstarted
    <3>4. \A e \in Setups : \A s \in lease' \ lease : ~InstanceOf(s, e)' /\ ~KeeperOf(s, e)'
      BY <3>2, <3>3 DEF KeeperOf, InstanceOf
    <3> QED
      BY <3>2, <3>4, <1>u
  <2>5. CASE Expose(c)
    <3>1. /\ UNCHANGED held /\ lease' \subseteq lease
      BY <2>5 DEF Expose
    <3> QED
      BY <3>1, <1>u
  <2>6. CASE Unready(c)
    <3>1. /\ UNCHANGED held /\ lease' \subseteq lease
      BY <2>6 DEF Unready
    <3> QED
      BY <3>1, <1>u
  <2>7. CASE Finish(c)
    <3>1. /\ UNCHANGED held /\ lease' \subseteq lease
      BY <2>7 DEF Finish
    <3> QED
      BY <3>1, <1>u
  <2> QED
    BY <1>1, <2>1, <2>2, <2>3, <2>4, <2>5, <2>6, <2>7 DEF Admitting
<1>2. ASSUME NEW c \in Clients, Keeping(c) PROVE HeldInv'
  <2>1. CASE ReadyReserve(c)
    <3>1. /\ UNCHANGED held /\ lease' \subseteq lease
      BY <2>1 DEF ReadyReserve
    <3> QED
      BY <3>1, <1>u
  <2>2. CASE ReadyPublish(c)
    <3>1. /\ UNCHANGED held /\ lease' \subseteq lease
      BY <2>2 DEF ReadyPublish
    <3> QED
      BY <3>1, <1>u
  <2>3. CASE ReadySpawn(c)
    <3>1. /\ UNCHANGED held /\ lease' \subseteq lease
      BY <2>3 DEF ReadySpawn
    <3> QED
      BY <3>1, <1>u
  <2>4. CASE TurnLeaving(c)
    <3>1. /\ UNCHANGED held /\ lease' \subseteq lease
      BY <2>4 DEF TurnLeaving, Looks
    <3> QED
      BY <3>1, <1>u
  <2>5. CASE StartAlone(c)
    <3>1. PICK k \in Sessions : Starts(SetupFor(c), k, worker[c].class, {})
      BY <2>5 DEF StartAlone
    <3>e. PICK e \in Setups : e = SetupFor(c)
      BY <2>5, AdmissionAssumption DEF StartAlone, SetupFor
    <3>2. /\ held[e] = "none" /\ UNCHANGED held /\ lease' \subseteq lease \cup {k}
          /\ spec'[k] = [kind |-> "keeper", class |-> worker[c].class, setup |-> e]
      BY <2>5, <3>1, <3>e DEF Starts, StartAlone
    <3>3. Alone(e)'
      BY <3>2 DEF Alone
    <3>4. \A x \in Setups \ {e} : \A s \in lease' \ lease : ~InstanceOf(s, x)' /\ ~KeeperOf(s, x)'
      BY <3>2 DEF KeeperOf, InstanceOf
    <3> QED
      BY <3>2, <3>3, <3>4, <1>u
  <2>6. CASE StartLeaving(c)
    <3>1. PICK D \in SUBSET Sessions, k \in Sessions :
             Leaving(c, D) /\ Starts(SetupFor(c), k, worker[c].class, D)
      BY <2>6 DEF StartLeaving
    <3>e. PICK e \in Setups : e = SetupFor(c)
      BY <2>6, AdmissionAssumption DEF StartLeaving, SetupFor
    <3>2. /\ held[e] = "none" /\ UNCHANGED held /\ lease' \subseteq lease \cup {k}
          /\ spec'[k] = [kind |-> "keeper", class |-> worker[c].class, setup |-> e]
      BY <2>6, <3>1, <3>e DEF Starts, StartLeaving
    <3>3. Alone(e)'
      BY <3>2 DEF Alone
    <3>4. \A x \in Setups \ {e} : \A s \in lease' \ lease : ~InstanceOf(s, x)' /\ ~KeeperOf(s, x)'
      BY <3>2 DEF KeeperOf, InstanceOf
    <3> QED
      BY <3>2, <3>3, <3>4, <1>u
  <2> QED
    BY <1>2, <2>1, <2>2, <2>3, <2>4, <2>5, <2>6 DEF Keeping
<1>3. ASSUME NEW e \in Setups, Reserving(e) PROVE HeldInv'
  <2>1. CASE Acquire(e)
    <3>1. /\ held' = [held EXCEPT ![e] = "reserved"] /\ UNCHANGED <<lease, spec>>
          /\ \A s \in lease : spec[s].setup = e => spec[s].kind = "keeper"
      BY <2>1 DEF Acquire, Inactive, LeasesIn
    <3>2. Alone(e)'
      BY <3>1 DEF Alone, InstanceOf
    <3> QED
      BY <3>1, <3>2, <1>u
  <2>2. CASE Enter(e)
    <3>1. /\ held' = [held EXCEPT ![e] = "exclusive"] /\ UNCHANGED <<lease, spec>>
          /\ held[e] = "reserved" /\ \A s \in lease : spec[s].setup = e => spec[s].kind # "keeper"
      BY <2>2 DEF Enter, LeasesIn
    <3>2. Alone(e)'
      BY <3>1 DEF Alone, InstanceOf, KeeperOf, SessionsInv, HeldInv
    <3> QED
      BY <3>1, <3>2, <1>u
  <2>3. CASE Release(e)
    <3>1. held' = [held EXCEPT ![e] = "none"] /\ UNCHANGED lease
      BY <2>3 DEF Release
    <3> QED
      BY <3>1, <1>u
  <2> QED
    BY <1>3, <2>1, <2>2, <2>3 DEF Reserving
<1>4. ASSUME NEW s \in Sessions, Running(s) PROVE HeldInv'
  <2>1. UNCHANGED <<held, lease>>
    BY <1>4, RunningFrame
  <2> QED
    BY <2>1, <1>u
<1>5. ASSUME TurnAlone PROVE HeldInv'
  <2>1. lease' \subseteq lease /\ UNCHANGED spec
    BY <1>5 DEF TurnAlone, Looks
  <2>2. CASE UNCHANGED held
    BY <2>1, <2>2, <1>u
  <2>3. ASSUME NEW e \in Setups, held' = [held EXCEPT ![e] = "exclusive"],
               \A s \in lease' : spec[s].setup # e
        PROVE  HeldInv'
    <3>1. Alone(e)'
      BY <2>1, <2>3 DEF Alone, InstanceOf, KeeperOf
    <3>2. \A x \in Setups \ {e} : held'[x] = held[x]
      BY <2>3
    <3> QED
      BY <2>1, <3>1, <3>2, <1>u
  <2> QED
    BY <1>5, <2>2, <2>3 DEF TurnAlone
<1>6. ASSUME Refresh PROVE HeldInv'
  <2>1. /\ UNCHANGED held /\ lease' \subseteq lease
    BY <1>6 DEF Refresh
  <2> QED
    BY <2>1, <1>u
<1>7. ASSUME Failing PROVE HeldInv'
  <2>1. CASE Crash
    <3>1. /\ UNCHANGED held /\ lease' \subseteq lease
      BY <2>1 DEF Crash
    <3> QED
      BY <3>1, <1>u
  <2>2. CASE KillGroup
    <3>1. /\ UNCHANGED held /\ lease' \subseteq lease
      BY <2>2 DEF KillGroup
    <3> QED
      BY <3>1, <1>u
  <2>3. CASE PowerFailure
    <3>1. /\ UNCHANGED held /\ lease' \subseteq lease
      BY <2>3 DEF PowerFailure
    <3> QED
      BY <3>1, <1>u
  <2>4. CASE Start
    <3>1. /\ UNCHANGED held /\ lease' \subseteq lease
      BY <2>4 DEF Start
    <3> QED
      BY <3>1, <1>u
  <2> QED
    BY <1>7, <2>1, <2>2, <2>3, <2>4 DEF Failing
<1> QED
  BY <1>1, <1>2, <1>3, <1>4, <1>5, <1>6, <1>7, StepKinds DEF SessionsInv

\* Nobody asks a keeper to retire under an instance, and no instance comes to a retiring one.
LEMMA KeeperKeptStep == ASSUME TypeOK, SessionsInv, Next PROVE KeeperKept'
<1>a. /\ worker \in [Clients -> Workers]
      /\ spec \in [Sessions -> Specs \cup {None}]
      /\ lease \subseteq Sessions /\ \A s \in lease : spec[s] # None
      /\ keeper \in [Setups -> Keepers]
      /\ native \in [Sessions -> {"none", "bound", "control", "gone"}]
  BY TypesNamed DEF Typed, TypeOK
<1> USE <1>a
<1>w. Created
  BY CreatedStay DEF SessionsInv
<1> DEFINE Kept(e) == \/ ~keeper[e].retiring \/ keeper[e].pending
                      \/ \A s \in lease : ~InstanceOf(s, e)
<1> HIDE DEF Kept
<1>g. ASSUME NEW s \in lease, NEW e \in Setups
      PROVE  InstanceOf(s, e) <=> s \in LeasesIn(e) /\ spec[s].kind = "dsp"
  BY DEF InstanceOf, LeasesIn
<1>k. \A e \in Setups : Kept(e)
  BY <1>g DEF Kept, SessionsInv, KeeperKept
<1>l. (\A s \in lease : spec[s] # None)'
  BY SessionsTyped DEF SessionsInv, SessionTypes
<1>q. ASSUME \A e \in Setups : Kept(e)' PROVE KeeperKept'
  <2>1. ASSUME NEW s \in lease', NEW e \in Setups, s \in LeasesIn(e)', spec'[s].kind = "dsp"
        PROVE  InstanceOf(s, e)'
    BY <1>l, <2>1 DEF LeasesIn, InstanceOf
  <2>2. ASSUME NEW e \in Setups, keeper'[e].retiring, ~keeper'[e].pending,
               NEW s \in LeasesIn(e)'
        PROVE  spec'[s].kind # "dsp"
    BY <1>q, <2>1, <2>2 DEF Kept, LeasesIn
  <2> QED
    BY <2>2 DEF KeeperKept
<1>u. ASSUME NEW e \in Setups,
             keeper'[e] = keeper[e] \/ \A s \in lease : ~InstanceOf(s, e),
             \A s \in lease' \ lease : ~InstanceOf(s, e)'
      PROVE  Kept(e)'
  <2>1. CASE \A s \in lease : ~InstanceOf(s, e)
    <3>1. \A s \in lease' : ~InstanceOf(s, e)'
      BY <1>w, <1>u, <2>1 DEF Created, InstanceOf
    <3> QED
      BY <3>1 DEF Kept
  <2>2. CASE ~(\A s \in lease : ~InstanceOf(s, e))
    BY <1>k, <1>u, <2>2 DEF Kept
  <2> QED
    BY <2>1, <2>2
<1>x. /\ 0 \notin Sessions
      /\ \A c \in Clients : worker[c].at \notin Before =>
           /\ worker[c].session \in Sessions /\ spec[worker[c].session] # None
           /\ spec[worker[c].session].kind = worker[c].kind /\ worker[c].kind # "keeper"
           /\ spec[worker[c].session].setup = SetupFor(c)
           /\ worker[c].session \notin blocked
           /\ \A d \in Clients \ {c} : worker[d].session # worker[c].session
  BY NoneDiffers, SessionsExist DEF SessionsInv, SessionInv, Workers
<1> USE <1>x
<1> USE DEF Move, Goto, Quit, FreeLock, disk, Apart, Readied, Advance, Leaving,
           ServiceSide, SetProc, Fault, Forget, Before
<1>1. ASSUME NEW c \in Clients, Admitting(c) PROVE KeeperKept'
  <2>1. CASE Request(c)
    <3>1. /\ UNCHANGED keeper /\ lease' \subseteq lease
      BY <2>1 DEF Request
    <3> QED
      BY <3>1, <1>q, <1>u
  <2>2. CASE Refuse(c)
    <3>1. /\ UNCHANGED keeper /\ lease' \subseteq lease
      BY <2>2 DEF Refuse
    <3> QED
      BY <3>1, <1>q, <1>u
  <2>3. CASE Publish(c)
    <3>1. PICK k \in Sessions :
             /\ spec' = [spec EXCEPT ![k] = [kind |-> worker[c].kind, class |-> worker[c].class,
                                             setup |-> SetupOf[worker[c].class]]]
             /\ lease' \subseteq lease \cup {k}
      BY <2>3 DEF Publish
    <3>e. PICK e \in Setups : e = SetupFor(c)
      BY <2>3, AdmissionsHaveSetups DEF Publish, SessionsInv
    <3>2. ~keeper[e].retiring /\ UNCHANGED keeper
      BY <2>3, <3>e DEF Publish, SessionsInv, LockInv, SetupFor
    <3>3. Kept(e)'
      BY <3>2 DEF Kept
    <3>4. \A x \in Setups \ {e} : \A s \in lease' \ lease : ~InstanceOf(s, x)'
      BY <3>1, <3>e DEF InstanceOf, SetupFor
    <3> QED
      BY <3>2, <3>3, <3>4, <1>q, <1>u
  <2>4. CASE Spawn(c)
    <3>1. PICK z \in Sessions : z = worker[c].session
      BY <2>4 DEF Spawn
    <3>2. UNCHANGED <<keeper, spec>> /\ lease' \subseteq lease \cup {z}
      BY <2>4, <3>1 DEF Spawn
    <3>3. spec[z].kind = "dsp" => z \in lease
      BY <2>4, <3>1 DEF Spawn, SessionsInv, UnstartedInv, Unstarted
    <3>4. \A e \in Setups : \A s \in lease' \ lease : ~InstanceOf(s, e)'
      BY <3>2, <3>3 DEF InstanceOf
    <3> QED
      BY <3>2, <3>4, <1>q, <1>u
  <2>5. CASE Expose(c)
    <3>1. /\ UNCHANGED keeper /\ lease' \subseteq lease
      BY <2>5 DEF Expose
    <3> QED
      BY <3>1, <1>q, <1>u
  <2>6. CASE Unready(c)
    <3>1. /\ UNCHANGED keeper /\ lease' \subseteq lease
      BY <2>6 DEF Unready
    <3> QED
      BY <3>1, <1>q, <1>u
  <2>7. CASE Finish(c)
    <3>1. /\ UNCHANGED keeper /\ lease' \subseteq lease
      BY <2>7 DEF Finish
    <3> QED
      BY <3>1, <1>q, <1>u
  <2> QED
    BY <1>1, <2>1, <2>2, <2>3, <2>4, <2>5, <2>6, <2>7 DEF Admitting
<1>2. ASSUME NEW c \in Clients, Keeping(c) PROVE KeeperKept'
  <2>1. CASE ReadyReserve(c)
    <3>1. /\ UNCHANGED keeper /\ lease' \subseteq lease
      BY <2>1 DEF ReadyReserve
    <3> QED
      BY <3>1, <1>q, <1>u
  <2>2. CASE ReadyPublish(c)
    <3>1. /\ UNCHANGED keeper /\ lease' \subseteq lease
      BY <2>2 DEF ReadyPublish
    <3> QED
      BY <3>1, <1>q, <1>u
  <2>3. CASE ReadySpawn(c)
    <3>1. /\ UNCHANGED keeper /\ lease' \subseteq lease
      BY <2>3 DEF ReadySpawn
    <3> QED
      BY <3>1, <1>q, <1>u
  <2>4. CASE TurnLeaving(c)
    <3>1. /\ lease' \subseteq lease /\ UNCHANGED spec
          /\ \A e \in Setups : Turn(e) /\ keeper[e] \in Keepers
      BY <2>4 DEF TurnLeaving, Looks
    <3>2. ASSUME NEW e \in Setups PROVE Kept(e)'
      <4> DEFINE k == keeper[e]
      <4>1. k \in Keepers /\ Turn(e)
        BY <3>1
      <4>2. CASE keeper'[e] = k
        BY <3>1, <4>2, <1>u
      <4>3. CASE keeper'[e] = NoKeeper
        BY <4>3 DEF NoKeeper, Kept
      <4>4. CASE keeper'[e] = [k EXCEPT !.failed = TRUE] /\ (k.retiring => k.pending)
        BY <4>1, <4>4 DEF Keepers, Kept
      <4>5. CASE keeper'[e] = [k EXCEPT !.retiring = TRUE, !.pending = TRUE]
        BY <4>1, <4>5 DEF Keepers, Kept
      <4>6. CASE \A s \in lease : ~InstanceOf(s, e)
        BY <3>1, <4>6, <1>u
      <4> QED
        BY <4>1, <4>2, <4>3, <4>4, <4>5, <4>6 DEF Turn
    <3> QED
      BY <3>2, <1>q
  <2>5. CASE StartAlone(c)
    <3>1. PICK k \in Sessions : Starts(SetupFor(c), k, worker[c].class, {})
      BY <2>5 DEF StartAlone
    <3>e. PICK e \in Setups : e = SetupFor(c)
      BY <2>5, AdmissionAssumption DEF StartAlone, SetupFor
    <3>2. /\ keeper' = [keeper EXCEPT ![e] = [NoKeeper EXCEPT !.session = k]]
          /\ lease' \subseteq lease \cup {k}
          /\ spec'[k] = [kind |-> "keeper", class |-> worker[c].class, setup |-> e]
      BY <3>1, <3>e DEF Starts
    <3>3. Kept(e)'
      BY <3>2 DEF Kept, NoKeeper
    <3>4. \A x \in Setups : \A s \in lease' \ lease : ~InstanceOf(s, x)'
      BY <3>2 DEF InstanceOf
    <3> QED
      BY <3>2, <3>3, <3>4, <1>q, <1>u
  <2>6. CASE StartLeaving(c)
    <3>1. PICK D \in SUBSET Sessions, k \in Sessions :
             Leaving(c, D) /\ Starts(SetupFor(c), k, worker[c].class, D)
      BY <2>6 DEF StartLeaving
    <3>e. PICK e \in Setups : e = SetupFor(c)
      BY <2>6, AdmissionAssumption DEF StartLeaving, SetupFor
    <3>2. /\ keeper' = [keeper EXCEPT ![e] = [NoKeeper EXCEPT !.session = k]]
          /\ lease' \subseteq lease \cup {k}
          /\ spec'[k] = [kind |-> "keeper", class |-> worker[c].class, setup |-> e]
      BY <3>1, <3>e DEF Starts
    <3>3. Kept(e)'
      BY <3>2 DEF Kept, NoKeeper
    <3>4. \A x \in Setups : \A s \in lease' \ lease : ~InstanceOf(s, x)'
      BY <3>2 DEF InstanceOf
    <3> QED
      BY <3>2, <3>3, <3>4, <1>q, <1>u
  <2> QED
    BY <1>2, <2>1, <2>2, <2>3, <2>4, <2>5, <2>6 DEF Keeping
<1>3. ASSUME NEW e \in Setups, Reserving(e) PROVE KeeperKept'
  <2>1. CASE Acquire(e)
    <3>1. /\ UNCHANGED keeper /\ lease' \subseteq lease
      BY <2>1 DEF Acquire
    <3> QED
      BY <3>1, <1>q, <1>u
  <2>2. CASE Enter(e)
    <3>1. /\ UNCHANGED keeper /\ lease' \subseteq lease
      BY <2>2 DEF Enter
    <3> QED
      BY <3>1, <1>q, <1>u
  <2>3. CASE Release(e)
    <3>1. /\ UNCHANGED keeper /\ lease' \subseteq lease
      BY <2>3 DEF Release
    <3> QED
      BY <3>1, <1>q, <1>u
  <2> QED
    BY <1>3, <2>1, <2>2, <2>3 DEF Reserving
<1>4. ASSUME NEW s \in Sessions, Running(s) PROVE KeeperKept'
  <2>1. UNCHANGED <<keeper, lease>>
    BY <1>4, RunningFrame
  <2> QED
    BY <2>1, <1>q, <1>u
<1>5. ASSUME TurnAlone PROVE KeeperKept'
  <2>1. /\ lease' \subseteq lease /\ UNCHANGED spec
        /\ \A e \in Setups : Turn(e) /\ keeper[e] \in Keepers
    BY <1>5 DEF TurnAlone, Looks
  <2>2. ASSUME NEW e \in Setups PROVE Kept(e)'
    <3> DEFINE k == keeper[e]
    <3>1. k \in Keepers /\ Turn(e)
      BY <2>1
    <3>2. CASE keeper'[e] = k
      BY <2>1, <3>2, <1>u
    <3>3. CASE keeper'[e] = NoKeeper
      BY <3>3 DEF NoKeeper, Kept
    <3>4. CASE keeper'[e] = [k EXCEPT !.failed = TRUE] /\ (k.retiring => k.pending)
      BY <3>1, <3>4 DEF Keepers, Kept
    <3>5. CASE keeper'[e] = [k EXCEPT !.retiring = TRUE, !.pending = TRUE]
      BY <3>1, <3>5 DEF Keepers, Kept
    <3>6. CASE \A s \in lease : ~InstanceOf(s, e)
      BY <2>1, <3>6, <1>u
    <3> QED
      BY <3>1, <3>2, <3>3, <3>4, <3>5, <3>6 DEF Turn
  <2> QED
    BY <2>2, <1>q
<1>6. ASSUME Refresh PROVE KeeperKept'
  <2>1. /\ UNCHANGED keeper /\ lease' \subseteq lease
    BY <1>6 DEF Refresh
  <2> QED
    BY <2>1, <1>q, <1>u
<1>7. ASSUME Failing PROVE KeeperKept'
  <2>1. CASE Crash
    <3>1. keeper' = [e \in Setups |-> NoKeeper]
      BY <2>1 DEF Crash
    <3>2. \A e \in Setups : Kept(e)'
      BY <3>1 DEF NoKeeper, Kept
    <3> QED
      BY <3>2, <1>q
  <2>2. CASE KillGroup
    <3>1. /\ UNCHANGED keeper /\ lease' \subseteq lease
      BY <2>2 DEF KillGroup
    <3> QED
      BY <3>1, <1>q, <1>u
  <2>3. CASE PowerFailure
    <3>1. keeper' = [e \in Setups |-> NoKeeper]
      BY <2>3 DEF PowerFailure
    <3>2. \A e \in Setups : Kept(e)'
      BY <3>1 DEF NoKeeper, Kept
    <3> QED
      BY <3>2, <1>q
  <2>4. CASE Start
    <3>1. /\ UNCHANGED keeper /\ lease' \subseteq lease
      BY <2>4 DEF Start
    <3> QED
      BY <3>1, <1>q, <1>u
  <2> QED
    BY <1>7, <2>1, <2>2, <2>3, <2>4 DEF Failing
<1> QED
  BY <1>1, <1>2, <1>3, <1>4, <1>5, <1>6, <1>7, StepKinds DEF SessionsInv

\* Every lease keeps someone who can release it.
LEMMA LeasesWatched == ASSUME TypeOK, SessionsInv, Next PROVE Watched'
<1>a. /\ worker \in [Clients -> Workers]
      /\ spec \in [Sessions -> Specs \cup {None}]
      /\ lease \subseteq Sessions /\ \A s \in lease : spec[s] # None
      /\ keeper \in [Setups -> Keepers]
      /\ native \in [Sessions -> {"none", "bound", "control", "gone"}]
  BY TypesNamed DEF Typed, TypeOK
<1> USE <1>a
<1> DEFINE Watches(s) == \/ s \in blocked
                         \/ \E e \in Setups : keeper[e].session = s
                         \/ \E c \in Clients : worker[c].session = s
<1> HIDE DEF Watches
<1>k. up => \A s \in lease : Watches(s)
  BY DEF Watched, Watches, SessionsInv
<1>q. ASSUME up' => \A s \in lease' : Watches(s)' PROVE Watched'
  BY <1>q DEF Watched, Watches
<1>v. ASSUME NEW c \in Clients, NEW D, Leaving(c, D)
      PROVE  /\ up /\ (worker[c].session = 0 \/ D = {worker[c].session})
             /\ \A d \in Clients \ {c} : worker'[d] = worker[d]
  BY <1>v DEF SessionsInv, SessionInv, Leaving, Quit, Move, Before
<1> USE DEF Move, Goto, Quit, FreeLock, disk, Apart, Readied, Advance, Leaving,
           ServiceSide, SetProc, Fault, Forget, Before
<1>1. ASSUME NEW c \in Clients, Admitting(c) PROVE Watched'
  <2>1. CASE Request(c)
    <3>1. /\ UNCHANGED <<up, keeper>>
          /\ up /\ \A d \in Clients \ {c} : worker'[d] = worker[d]
          /\ worker[c].session = 0
          /\ \A s \in lease' : s \in lease /\ (s \in blocked => s \in blocked')
      BY <2>1, NoneDiffers DEF Request, Settled, SessionsInv, SessionInv
    <3> QED
      BY <3>1, <1>k, <1>q, NoneDiffers DEF Watches
  <2>2. CASE Refuse(c)
    <3>1. /\ UNCHANGED <<up, keeper>>
          /\ up /\ UNCHANGED <<lease, blocked>> /\ \A d \in Clients \ {c} : worker'[d] = worker[d]
          /\ worker[c].session = 0
      BY <2>2, NoneDiffers DEF Refuse, SessionsInv, SessionInv
    <3> QED
      BY <3>1, <1>k, <1>q, NoneDiffers DEF Watches
  <2>3. CASE Publish(c)
    <3>1. PICK k \in Sessions : /\ lease' \subseteq lease \cup {k}
                               /\ worker' = [worker EXCEPT ![c] = [worker[c] EXCEPT
                                    !.at = IF worker[c].kind = "dsp" THEN "final" ELSE "spawn",
                                    !.session = k]]
      BY <2>3 DEF Publish
    <3>2. UNCHANGED <<up, keeper, blocked>> /\ up /\ worker[c].session = 0
      BY <2>3 DEF Publish, SessionsInv, SessionInv
    <3>3. worker'[c].session = k /\ \A d \in Clients \ {c} : worker'[d] = worker[d]
      BY <3>1 DEF Workers
    <3>4. ASSUME NEW s \in lease' PROVE Watches(s)'
      <4>1. CASE s = k
        BY <3>3, <4>1 DEF Watches
      <4>2. CASE s # k
        BY <3>1, <3>2, <3>3, <4>2, <1>k, NoneDiffers DEF Watches
      <4> QED
        BY <4>1, <4>2
    <3> QED
      BY <3>4, <1>q
  <2>4. CASE Spawn(c)
    <3>1. UNCHANGED <<up, keeper, blocked>> /\ up
      BY <2>4 DEF Spawn
    <3>2. \/ /\ lease' = lease \cup {worker[c].session}
             /\ worker' = [worker EXCEPT ![c] = [worker[c] EXCEPT !.at = "handshake"]]
          \/ /\ lease' = lease \ {worker[c].session}
             /\ worker' = [worker EXCEPT ![c] = Idle]
      BY <2>4 DEF Spawn
    <3>3. CASE /\ lease' = lease \cup {worker[c].session}
               /\ worker' = [worker EXCEPT ![c] = [worker[c] EXCEPT !.at = "handshake"]]
      <4>1. \A d \in Clients : worker'[d].session = worker[d].session
        BY <3>3 DEF Workers
      <4> QED
        BY <3>1, <3>3, <4>1, <1>k, <1>q DEF Watches
    <3>4. CASE /\ lease' = lease \ {worker[c].session}
               /\ worker' = [worker EXCEPT ![c] = Idle]
      BY <3>1, <3>4, <1>k, <1>q DEF Watches
    <3> QED
      BY <3>2, <3>3, <3>4
  <2>5. CASE Expose(c)
    <3>1. /\ UNCHANGED <<up, keeper>>
          /\ up /\ UNCHANGED <<lease, blocked>>
          /\ \A d \in Clients : worker'[d].session = worker[d].session
      BY <2>5, NoneDiffers DEF Expose, Workers
    <3> QED
      BY <3>1, <1>k, <1>q DEF Watches
  <2>6. CASE Unready(c)
    <3>1. /\ UNCHANGED <<up, keeper>>
          /\ up /\ \A d \in Clients \ {c} : worker'[d] = worker[d]
          /\ blocked \subseteq blocked' /\ lease' \subseteq lease
          /\ worker[c].session \in lease' => worker[c].session \in blocked'
      BY <2>6, NoneDiffers DEF Unready
    <3> QED
      BY <3>1, <1>k, <1>q DEF Watches
  <2>7. CASE Finish(c)
    <3>1. /\ UNCHANGED <<up, keeper>>
          /\ up /\ \A d \in Clients \ {c} : worker'[d] = worker[d]
          /\ blocked \subseteq blocked' /\ lease' \subseteq lease
          /\ worker[c].session \in lease' => worker[c].session \in blocked'
      BY <2>7, NoneDiffers DEF Finish
    <3> QED
      BY <3>1, <1>k, <1>q DEF Watches
  <2> QED
    BY <1>1, <2>1, <2>2, <2>3, <2>4, <2>5, <2>6, <2>7 DEF Admitting
<1>2. ASSUME NEW c \in Clients, Keeping(c) PROVE Watched'
  <2>1. CASE ReadyReserve(c)
    <3>1. /\ UNCHANGED <<up, keeper>>
          /\ UNCHANGED <<lease, blocked>>
          /\ \A d \in Clients : worker'[d].session = worker[d].session
      BY <2>1, NoneDiffers DEF ReadyReserve, Workers
    <3> QED
      BY <3>1, <1>k, <1>q DEF Watches
  <2>2. CASE ReadyPublish(c)
    <3>1. /\ UNCHANGED <<up, keeper>>
          /\ UNCHANGED <<lease, blocked>>
          /\ \A d \in Clients : worker'[d].session = worker[d].session
      BY <2>2, NoneDiffers DEF ReadyPublish, Workers
    <3> QED
      BY <3>1, <1>k, <1>q DEF Watches
  <2>3. CASE ReadySpawn(c)
    <3>1. /\ UNCHANGED <<up, keeper>>
          /\ UNCHANGED <<lease, blocked>>
          /\ \A d \in Clients : worker'[d].session = worker[d].session
      BY <2>3, NoneDiffers DEF ReadySpawn, Workers
    <3> QED
      BY <3>1, <1>k, <1>q DEF Watches
  <2>4. CASE TurnLeaving(c)
    <3>p. PICK D \in SUBSET Sessions : Leaving(c, D) /\ Looks(D)
      BY <2>4 DEF TurnLeaving
    <3>1. /\ \A e \in Setups : Turn(e) /\ keeper[e] \in Keepers
          /\ lease' \subseteq lease /\ D \cap lease' = {}
      BY <3>p DEF Looks
    <3>2. up /\ UNCHANGED <<up, blocked>>
      BY <2>4, <3>p, <1>v DEF TurnLeaving
    <3>3. ASSUME NEW e \in Setups, NEW s \in lease', keeper[e].session = s
          PROVE  keeper'[e].session = s
      <4> DEFINE k == keeper[e]
      <4>1. k \in Keepers /\ Turn(e) /\ k.session # 0 /\ s \in lease
        BY <3>1, <3>3, NoneDiffers
      <4>2. CASE keeper'[e] = NoKeeper
        BY <3>3, <4>1, <4>2 DEF Turn, SessionsInv, RecordInv, Recorded, Keepers
      <4>3. CASE keeper'[e] = [k EXCEPT !.failed = TRUE]
        BY <3>3, <4>1, <4>3 DEF Keepers
      <4>4. CASE \E x \in BOOLEAN : keeper'[e] = [k EXCEPT !.retiring = TRUE, !.pending = x]
        BY <3>3, <4>1, <4>4 DEF Keepers
      <4> QED
        BY <3>3, <4>1, <4>2, <4>3, <4>4 DEF Turn
    <3>4. \A s \in lease' : \A d \in Clients : worker[d].session = s => worker'[d].session = s
      <4>1. /\ worker[c].session = 0 \/ D = {worker[c].session}
            /\ \A d \in Clients \ {c} : worker'[d] = worker[d]
        BY <3>p, <1>v
      <4> QED
        BY <3>1, <4>1, NoneDiffers
    <3> QED
      BY <3>1, <3>2, <3>3, <3>4, <1>k, <1>q DEF Watches
  <2>5. CASE StartAlone(c)
    <3>1. PICK k \in Sessions : Starts(SetupFor(c), k, worker[c].class, {})
      BY <2>5 DEF StartAlone
    <3>e. PICK e \in Setups : e = SetupFor(c)
      BY <2>5, AdmissionAssumption DEF StartAlone, SetupFor
    <3>2. /\ keeper' = [keeper EXCEPT ![e] = [NoKeeper EXCEPT !.session = k]]
          /\ keeper[e].session = 0 \/ keeper[e].failed \/ keeper[e].session \notin lease' \ {k}
          /\ lease' \subseteq lease \cup {k} /\ {} \cap lease' = {}
      BY <3>1, <3>e DEF Starts
    <3>3. keeper'[e].session = k /\ \A x \in Setups \ {e} : keeper'[x] = keeper[x]
      BY <3>2 DEF NoKeeper
    <3>4. \A s \in lease' \ {k} : s \in lease /\ keeper[e].session # s
      BY <3>2, NoneDiffers DEF SessionsInv, RecordInv, Recorded
    <3>5. up /\ UNCHANGED <<up, blocked>>
      BY <2>5, <3>1, <1>v DEF StartAlone
    <3>6. UNCHANGED worker
      BY <2>5 DEF StartAlone
    <3> QED
      BY <3>3, <3>4, <3>5, <3>6, <1>k, <1>q, NoneDiffers DEF Watches
  <2>6. CASE StartLeaving(c)
    <3>1. PICK D \in SUBSET Sessions, k \in Sessions :
             Leaving(c, D) /\ Starts(SetupFor(c), k, worker[c].class, D)
      BY <2>6 DEF StartLeaving
    <3>e. PICK e \in Setups : e = SetupFor(c)
      BY <2>6, AdmissionAssumption DEF StartLeaving, SetupFor
    <3>2. /\ keeper' = [keeper EXCEPT ![e] = [NoKeeper EXCEPT !.session = k]]
          /\ keeper[e].session = 0 \/ keeper[e].failed \/ keeper[e].session \notin lease' \ {k}
          /\ lease' \subseteq lease \cup {k} /\ D \cap lease' = {}
      BY <3>1, <3>e DEF Starts
    <3>3. keeper'[e].session = k /\ \A x \in Setups \ {e} : keeper'[x] = keeper[x]
      BY <3>2 DEF NoKeeper
    <3>4. \A s \in lease' \ {k} : s \in lease /\ keeper[e].session # s
      BY <3>2, NoneDiffers DEF SessionsInv, RecordInv, Recorded
    <3>5. up /\ UNCHANGED <<up, blocked>>
      BY <2>6, <3>1, <1>v DEF StartLeaving
    <3>6. \A s \in lease' : \A d \in Clients : worker[d].session = s => worker'[d].session = s
      <4>1. /\ worker[c].session = 0 \/ D = {worker[c].session}
            /\ \A d \in Clients \ {c} : worker'[d] = worker[d]
        BY <3>1, <1>v
      <4> QED
        BY <3>2, <4>1, NoneDiffers
    <3> QED
      BY <3>3, <3>4, <3>5, <3>6, <1>k, <1>q, NoneDiffers DEF Watches
  <2> QED
    BY <1>2, <2>1, <2>2, <2>3, <2>4, <2>5, <2>6 DEF Keeping
<1>3. ASSUME NEW e \in Setups, Reserving(e) PROVE Watched'
  <2>1. CASE Acquire(e)
    <3>1. /\ UNCHANGED <<up, keeper, worker, lease, blocked>>
      BY <2>1 DEF Acquire
    <3> QED
      BY <3>1, <1>k, <1>q DEF Watches
  <2>2. CASE Enter(e)
    <3>1. /\ UNCHANGED <<up, keeper, worker, lease, blocked>>
      BY <2>2 DEF Enter
    <3> QED
      BY <3>1, <1>k, <1>q DEF Watches
  <2>3. CASE Release(e)
    <3>1. /\ UNCHANGED <<up, keeper, worker, lease, blocked>>
      BY <2>3 DEF Release
    <3> QED
      BY <3>1, <1>k, <1>q DEF Watches
  <2> QED
    BY <1>3, <2>1, <2>2, <2>3 DEF Reserving
<1>4. ASSUME NEW s \in Sessions, Running(s) PROVE Watched'
  <2>1. UNCHANGED <<up, keeper, lease, worker, blocked>>
    BY <1>4, RunningFrame
  <2> QED
    BY <2>1, <1>k, <1>q DEF Watches
<1>5. ASSUME TurnAlone PROVE Watched'
  <2>1. /\ \A e \in Setups : Turn(e) /\ keeper[e] \in Keepers
        /\ lease' \subseteq lease
    BY <1>5 DEF TurnAlone, Looks
  <2>2. up /\ UNCHANGED <<up, blocked, worker>>
    BY <1>5 DEF TurnAlone
  <2>3. ASSUME NEW e \in Setups, NEW s \in lease', keeper[e].session = s
        PROVE  keeper'[e].session = s
    <3> DEFINE k == keeper[e]
    <3>1. k \in Keepers /\ Turn(e) /\ k.session # 0 /\ s \in lease
      BY <2>1, <2>3, NoneDiffers
    <3>2. CASE keeper'[e] = NoKeeper
      BY <2>3, <3>1, <3>2 DEF Turn, SessionsInv, RecordInv, Recorded, Keepers
    <3>3. CASE keeper'[e] = [k EXCEPT !.failed = TRUE]
      BY <2>3, <3>1, <3>3 DEF Keepers
    <3>4. CASE \E x \in BOOLEAN : keeper'[e] = [k EXCEPT !.retiring = TRUE, !.pending = x]
      BY <2>3, <3>1, <3>4 DEF Keepers
    <3> QED
      BY <2>3, <3>1, <3>2, <3>3, <3>4 DEF Turn
  <2> QED
    BY <2>1, <2>2, <2>3, <1>k, <1>q DEF Watches
<1>6. ASSUME Refresh PROVE Watched'
  <2>1. /\ UNCHANGED <<up, keeper, worker>> /\ up
        /\ \A s \in lease' : s \in lease /\ (s \in blocked => s \in blocked')
    BY <1>6 DEF Refresh, Settled
  <2> QED
    BY <2>1, <1>k, <1>q DEF Watches
<1>7. ASSUME Failing PROVE Watched'
  <2>1. CASE Crash
    <3>1. up' = FALSE
      BY <2>1 DEF Crash
    <3> QED
      BY <3>1, <1>q
  <2>2. CASE KillGroup
    <3>1. ~up'
      BY <2>2 DEF KillGroup
    <3> QED
      BY <3>1, <1>q
  <2>3. CASE PowerFailure
    <3>1. up' = FALSE
      BY <2>3 DEF PowerFailure
    <3> QED
      BY <3>1, <1>q
  <2>4. CASE Start
    <3>1. blocked' = lease'
      BY <2>4 DEF Start
    <3> QED
      BY <3>1, <1>q DEF Watches
  <2> QED
    BY <1>7, <2>1, <2>2, <2>3, <2>4 DEF Failing
<1> QED
  BY <1>1, <1>2, <1>3, <1>4, <1>5, <1>6, <1>7, StepKinds DEF SessionsInv

\* Leases stay within the ceilings: one is added only after the count under registry.lock.
LEMMA CeilingKept == ASSUME TypeOK, SessionsInv, CeilingInv, Next PROVE CeilingInv'
<1>a. /\ worker \in [Clients -> Workers]
      /\ spec \in [Sessions -> Specs \cup {None}]
      /\ lease \subseteq Sessions /\ \A s \in lease : spec[s] # None
      /\ native \in [Sessions -> {"none", "bound", "control", "gone"}]
  BY TypesNamed DEF Typed, TypeOK
<1> USE <1>a
<1>w. Created
  BY CreatedStay DEF SessionsInv
<1> DEFINE Free == Cardinality(Owners("dsp")) < GlobalDsp
           Room(k) == Cardinality(InstancesOf(k)) < NativeImage
           Entering(d) == worker[d].at = "publish" /\ worker[d].kind = "dsp"
<1>i. GlobalDsp \in Nat /\ NativeImage \in Nat
  BY AdmissionAssumption
<1>s. Owners("dsp") \subseteq Sessions /\ \A k \in Classes : InstancesOf(k) \subseteq Sessions
  BY DEF Owners, InstancesOf
<1>n. Cardinality(Owners("dsp")) \in Nat /\ \A k \in Classes : Cardinality(InstancesOf(k)) \in Nat
  BY <1>s, SessionsCounted
<1>c. /\ Cardinality(Owners("dsp")) <= GlobalDsp
      /\ \A k \in Classes : Cardinality(InstancesOf(k)) <= NativeImage
      /\ \A d \in Clients : Entering(d) => Free /\ Room(worker[d].class)
  BY DEF CeilingInv
<1>m. ASSUME \A s \in lease' \ lease : spec'[s].kind # "dsp"
      PROVE  /\ Owners("dsp")' \subseteq Owners("dsp")
             /\ \A k \in Classes :
                  {s \in Owners("dsp")' : spec'[s].class = k} \subseteq InstancesOf(k)
  BY <1>m, <1>w DEF Created, Owners, InstancesOf
<1>u. ASSUME \A s \in lease' \ lease : spec'[s].kind # "dsp",
             \A d \in Clients : Entering(d)' =>
                 /\ worker'[d].class \in Classes
                 /\ Free /\ Room(worker'[d].class)
      PROVE  CeilingInv'
  <2> DEFINE Of(k) == {s \in Owners("dsp")' : spec'[s].class = k}
  <2>1. /\ Cardinality(Owners("dsp")') <= Cardinality(Owners("dsp"))
        /\ Cardinality(Owners("dsp")') \in Nat
    BY <1>m, <1>s, <1>u, SessionsCounted
  <2>2. ASSUME NEW k \in Classes
        PROVE  Cardinality(Of(k)) <= Cardinality(InstancesOf(k)) /\ Cardinality(Of(k)) \in Nat
    <3>1. Of(k) \in SUBSET InstancesOf(k) /\ InstancesOf(k) \in SUBSET Sessions
      BY <1>m, <1>s, <1>u
    <3> QED
      BY <3>1, SessionsCounted
  <2>3. Cardinality(Owners("dsp")') <= GlobalDsp
    BY <1>c, <1>i, <1>n, <2>1
  <2>4. ASSUME NEW k \in Classes PROVE Cardinality(Of(k)) <= NativeImage
    BY <1>c, <1>i, <1>n, <2>2
  <2>5. ASSUME NEW d \in Clients, Entering(d)'
        PROVE  /\ Cardinality(Owners("dsp")') < GlobalDsp
               /\ Cardinality(Of(worker'[d].class)) < NativeImage
    <3>1. PICK k \in Classes : k = worker'[d].class /\ Free /\ Room(k)
      BY <1>u, <2>5
    <3>2. Cardinality(Of(k)) < NativeImage
      BY <3>1, <1>i, <1>n, <2>2
    <3>3. Cardinality(Owners("dsp")') < GlobalDsp
      BY <3>1, <1>i, <1>n, <2>1
    <3> QED
      BY <3>1, <3>2, <3>3
  <2> QED
    BY <2>3, <2>4, <2>5 DEF CeilingInv, InstancesOf
<1>p. ASSUME \A s \in lease' \ lease : spec'[s].kind # "dsp",
             \A d \in Clients : worker'[d] = worker[d] \/ worker'[d].at # "publish"
      PROVE  CeilingInv'
  <2>1. ASSUME NEW d \in Clients, Entering(d)'
        PROVE  worker'[d].class \in Classes /\ Free /\ Room(worker'[d].class)
    <3>1. worker'[d] = worker[d] /\ Entering(d)
      BY <1>p, <2>1
    <3>2. worker[d].class \in Classes
      BY <3>1 DEF SessionsInv, SessionInv
    <3> QED
      BY <3>1, <3>2, <1>c
  <2> HIDE DEF Entering, Free, Room
  <2> QED
    BY <1>p, <1>u, <2>1
<1> HIDE DEF Entering, Free, Room
<1>x. /\ 0 \notin Sessions
      /\ \A c \in Clients : worker[c].at \notin Before =>
           /\ worker[c].session \in Sessions /\ spec[worker[c].session] # None
           /\ spec[worker[c].session].kind = worker[c].kind /\ worker[c].kind # "keeper"
           /\ spec[worker[c].session].setup = SetupFor(c)
           /\ worker[c].session \notin blocked
           /\ \A d \in Clients \ {c} : worker[d].session # worker[c].session
  BY NoneDiffers, SessionsExist DEF SessionsInv, SessionInv, Workers
<1> USE <1>x
<1> USE DEF Move, Goto, Quit, FreeLock, disk, Apart, Readied, Advance, Leaving,
           ServiceSide, SetProc, Fault, Forget, Before
<1>1. ASSUME NEW c \in Clients, Admitting(c) PROVE CeilingInv'
  <2>1. CASE Request(c)
    <3>1. /\ \A s \in lease' \ lease : spec'[s].kind # "dsp"
          /\ \A d \in Clients : worker'[d] = worker[d] \/ worker'[d].at # "publish"
      BY <2>1 DEF Request, Idle
    <3> QED
      BY <3>1, <1>p
  <2>2. CASE Refuse(c)
    <3>1. /\ \A s \in lease' \ lease : spec'[s].kind # "dsp"
          /\ \A d \in Clients : worker'[d] = worker[d] \/ worker'[d].at # "publish"
      BY <2>2 DEF Refuse, Idle
    <3> QED
      BY <3>1, <1>p
  <2>3. CASE Publish(c)
    <3>1. PICK k \in Sessions :
             /\ spec[k] = None
             /\ spec' = [spec EXCEPT ![k] = [kind |-> worker[c].kind, class |-> worker[c].class,
                                             setup |-> SetupOf[worker[c].class]]]
             /\ lease' = IF worker[c].kind = "dsp" THEN lease \cup {k} ELSE lease
      BY <2>3 DEF Publish, Fresh
    <3>2. \A d \in Clients : worker'[d].at # "publish"
      BY <2>3 DEF Publish, Workers, SessionsInv, LockInv
    <3>3. CASE worker[c].kind # "dsp"
      BY <3>1, <3>2, <3>3, <1>p
    <3>4. CASE worker[c].kind = "dsp"
      <4>1. Entering(c) /\ worker[c].class \in Classes
        BY <2>3, <3>4 DEF Publish, Entering, SessionsInv, SessionInv
      <4>2. Free /\ Room(worker[c].class)
        BY <4>1, <1>c
      <4>3. Owners("dsp")' = Owners("dsp") \cup {k}
        BY <3>1, <3>4 DEF Owners
      <4>4. \A x \in Classes : {s \in Owners("dsp")' : spec'[s].class = x} =
               IF x = worker[c].class THEN InstancesOf(x) \cup {k} ELSE InstancesOf(x)
        BY <3>1, <3>4 DEF Owners, InstancesOf
      <4>5. Cardinality(Owners("dsp")') <= GlobalDsp
        <5>1. Cardinality(Owners("dsp") \cup {k}) <= Cardinality(Owners("dsp")) + 1
          BY <1>s, SessionsCounted
        <5>2. Cardinality(Owners("dsp") \cup {k}) \in Nat
          BY <1>s, SessionsCounted
        <5>3. Cardinality(Owners("dsp")) \in Nat /\ Cardinality(Owners("dsp")) < GlobalDsp
          BY <1>n, <4>1, <4>2 DEF Free
        <5>4. Cardinality(Owners("dsp") \cup {k}) <= GlobalDsp
          BY <5>1, <5>2, <5>3, <1>i, OneMoreFits
        <5> QED
          BY <4>3, <5>4
      <4>6. ASSUME NEW x \in Classes
            PROVE  Cardinality({s \in Owners("dsp")' : spec'[s].class = x}) <= NativeImage
        <5>1. CASE x # worker[c].class
          BY <4>4, <5>1, <1>c
        <5>2. CASE x = worker[c].class
          <6>1. Cardinality(InstancesOf(x) \cup {k}) <= Cardinality(InstancesOf(x)) + 1
            BY <1>s, SessionsCounted
          <6>2. Cardinality(InstancesOf(x) \cup {k}) \in Nat
            BY <1>s, SessionsCounted
          <6>3. Cardinality(InstancesOf(x)) \in Nat /\ Cardinality(InstancesOf(x)) < NativeImage
            BY <1>n, <4>2, <5>2 DEF Room
          <6>4. Cardinality(InstancesOf(x) \cup {k}) <= NativeImage
            BY <6>1, <6>2, <6>3, <1>i, OneMoreFits
          <6> QED
            BY <4>4, <5>2, <6>4
        <5> QED
          BY <5>1, <5>2
      <4> QED
        BY <3>2, <4>5, <4>6 DEF CeilingInv, InstancesOf
    <3> QED
      BY <3>3, <3>4
  <2>4. CASE Spawn(c)
    <3>1. PICK z \in Sessions : z = worker[c].session
      BY <2>4 DEF Spawn
    <3>2. UNCHANGED spec /\ lease' \subseteq lease \cup {z}
      BY <2>4, <3>1 DEF Spawn
    <3>3. spec[z].kind = "dsp" => z \in lease
      BY <2>4, <3>1 DEF Spawn, SessionsInv, UnstartedInv, Unstarted
    <3>4. \A d \in Clients : worker'[d] = worker[d] \/ worker'[d].at # "publish"
      BY <2>4 DEF Spawn, Idle, Workers
    <3> QED
      BY <3>2, <3>3, <3>4, <1>p
  <2>5. CASE Expose(c)
    <3>1. /\ \A s \in lease' \ lease : spec'[s].kind # "dsp"
          /\ \A d \in Clients : worker'[d] = worker[d] \/ worker'[d].at # "publish"
      BY <2>5 DEF Expose, Workers, Idle
    <3> QED
      BY <3>1, <1>p
  <2>6. CASE Unready(c)
    <3>1. /\ \A s \in lease' \ lease : spec'[s].kind # "dsp"
          /\ \A d \in Clients : worker'[d] = worker[d] \/ worker'[d].at # "publish"
      BY <2>6 DEF Unready, Idle
    <3> QED
      BY <3>1, <1>p
  <2>7. CASE Finish(c)
    <3>1. /\ \A s \in lease' \ lease : spec'[s].kind # "dsp"
          /\ \A d \in Clients : worker'[d] = worker[d] \/ worker'[d].at # "publish"
      BY <2>7 DEF Finish, Idle
    <3> QED
      BY <3>1, <1>p
  <2> QED
    BY <1>1, <2>1, <2>2, <2>3, <2>4, <2>5, <2>6, <2>7 DEF Admitting
<1>2. ASSUME NEW c \in Clients, Keeping(c) PROVE CeilingInv'
  <2>1. CASE ReadyReserve(c)
    <3>1. /\ \A s \in lease' \ lease : spec'[s].kind # "dsp"
          /\ \A d \in Clients : worker'[d] = worker[d] \/ worker'[d].at # "publish"
      BY <2>1 DEF ReadyReserve, Workers, Idle
    <3> QED
      BY <3>1, <1>p
  <2>2. CASE ReadyPublish(c)
    <3>1. UNCHANGED lease /\ registryLock = None /\ Admits(worker[c])
      BY <2>2 DEF ReadyPublish
    <3>2. \A d \in Clients : worker[d].at # "publish"
      BY <3>1, NoneDiffers DEF SessionsInv, LockInv
    <3>3. /\ \A d \in Clients \ {c} : worker'[d] = worker[d]
          /\ worker'[c].kind = worker[c].kind /\ worker'[c].class = worker[c].class
          /\ worker[c].class \in Classes
      <4>1. worker[c].class \in Classes
        BY <2>2 DEF ReadyPublish, SessionsInv, SessionInv
      <4>2. /\ worker[c] \in Workers
            /\ worker' = [worker EXCEPT ![c] = [worker[c] EXCEPT
                             !.at = "publish", !.seen = keeper[SetupFor(c)].session]]
        BY <2>2 DEF ReadyPublish
      <4> QED
        BY <4>1, <4>2 DEF Workers
    <3>4. worker[c].kind = "dsp" => Free /\ Room(worker[c].class)
      BY <3>1 DEF Admits, AdmitsDsp, Free, Room, InstancesOf
    <3>5. ASSUME NEW d \in Clients, Entering(d)'
          PROVE  worker'[d].class \in Classes /\ Free /\ Room(worker'[d].class)
      <4>1. d = c /\ worker[c].kind = "dsp"
        BY <3>2, <3>3, <3>5 DEF Entering
      <4> QED
        BY <3>3, <3>4, <4>1
    <3> QED
      BY <3>1, <3>5, <1>u
  <2>3. CASE ReadySpawn(c)
    <3>1. /\ \A s \in lease' \ lease : spec'[s].kind # "dsp"
          /\ \A d \in Clients : worker'[d] = worker[d] \/ worker'[d].at # "publish"
      BY <2>3 DEF ReadySpawn, Workers, Idle
    <3> QED
      BY <3>1, <1>p
  <2>4. CASE TurnLeaving(c)
    <3>1. /\ \A s \in lease' \ lease : spec'[s].kind # "dsp"
          /\ \A d \in Clients : worker'[d] = worker[d] \/ worker'[d].at # "publish"
      BY <2>4 DEF TurnLeaving, Looks, Idle
    <3> QED
      BY <3>1, <1>p
  <2>5. CASE StartAlone(c)
    <3>1. PICK k \in Sessions : Starts(SetupFor(c), k, worker[c].class, {})
      BY <2>5 DEF StartAlone
    <3>2. \A s \in lease' \ lease : spec'[s].kind # "dsp"
      BY <3>1 DEF Starts
    <3>3. \A d \in Clients : worker'[d] = worker[d] \/ worker'[d].at # "publish"
      BY <2>5, <3>1 DEF StartAlone, Idle
    <3> QED
      BY <3>2, <3>3, <1>p
  <2>6. CASE StartLeaving(c)
    <3>1. PICK D \in SUBSET Sessions, k \in Sessions :
             Leaving(c, D) /\ Starts(SetupFor(c), k, worker[c].class, D)
      BY <2>6 DEF StartLeaving
    <3>2. \A s \in lease' \ lease : spec'[s].kind # "dsp"
      BY <3>1 DEF Starts
    <3>3. \A d \in Clients : worker'[d] = worker[d] \/ worker'[d].at # "publish"
      BY <2>6, <3>1 DEF StartLeaving, Idle
    <3> QED
      BY <3>2, <3>3, <1>p
  <2> QED
    BY <1>2, <2>1, <2>2, <2>3, <2>4, <2>5, <2>6 DEF Keeping
<1>3. ASSUME NEW e \in Setups, Reserving(e) PROVE CeilingInv'
  <2>1. CASE Acquire(e)
    <3>1. /\ \A s \in lease' \ lease : spec'[s].kind # "dsp"
          /\ \A d \in Clients : worker'[d] = worker[d] \/ worker'[d].at # "publish"
      BY <2>1 DEF Acquire, Idle
    <3> QED
      BY <3>1, <1>p
  <2>2. CASE Enter(e)
    <3>1. /\ \A s \in lease' \ lease : spec'[s].kind # "dsp"
          /\ \A d \in Clients : worker'[d] = worker[d] \/ worker'[d].at # "publish"
      BY <2>2 DEF Enter, Idle
    <3> QED
      BY <3>1, <1>p
  <2>3. CASE Release(e)
    <3>1. /\ \A s \in lease' \ lease : spec'[s].kind # "dsp"
          /\ \A d \in Clients : worker'[d] = worker[d] \/ worker'[d].at # "publish"
      BY <2>3 DEF Release, Idle
    <3> QED
      BY <3>1, <1>p
  <2> QED
    BY <1>3, <2>1, <2>2, <2>3 DEF Reserving
<1>4. ASSUME NEW s \in Sessions, Running(s) PROVE CeilingInv'
  <2>1. UNCHANGED <<lease, worker>>
    BY <1>4, RunningFrame
  <2> QED
    BY <2>1, <1>p
<1>5. ASSUME TurnAlone PROVE CeilingInv'
  <2>1. /\ \A s \in lease' \ lease : spec'[s].kind # "dsp"
        /\ \A d \in Clients : worker'[d] = worker[d] \/ worker'[d].at # "publish"
    BY <1>5 DEF TurnAlone, Looks, Idle
  <2> QED
    BY <2>1, <1>p
<1>6. ASSUME Refresh PROVE CeilingInv'
  <2>1. /\ \A s \in lease' \ lease : spec'[s].kind # "dsp"
        /\ \A d \in Clients : worker'[d] = worker[d] \/ worker'[d].at # "publish"
    BY <1>6 DEF Refresh, Looks, Idle
  <2> QED
    BY <2>1, <1>p
<1>7. ASSUME Failing PROVE CeilingInv'
  <2>1. CASE Crash
    <3>1. /\ \A s \in lease' \ lease : spec'[s].kind # "dsp"
          /\ \A d \in Clients : worker'[d] = worker[d] \/ worker'[d].at # "publish"
      BY <2>1 DEF Crash, Idle
    <3> QED
      BY <3>1, <1>p
  <2>2. CASE KillGroup
    <3>1. /\ \A s \in lease' \ lease : spec'[s].kind # "dsp"
          /\ \A d \in Clients : worker'[d] = worker[d] \/ worker'[d].at # "publish"
      BY <2>2 DEF KillGroup, Idle
    <3> QED
      BY <3>1, <1>p
  <2>3. CASE PowerFailure
    <3>1. /\ \A s \in lease' \ lease : spec'[s].kind # "dsp"
          /\ \A d \in Clients : worker'[d] = worker[d] \/ worker'[d].at # "publish"
      BY <2>3 DEF PowerFailure, Idle
    <3> QED
      BY <3>1, <1>p
  <2>4. CASE Start
    <3>1. /\ \A s \in lease' \ lease : spec'[s].kind # "dsp"
          /\ \A d \in Clients : worker'[d] = worker[d] \/ worker'[d].at # "publish"
      BY <2>4 DEF Start, Idle
    <3> QED
      BY <3>1, <1>p
  <2> QED
    BY <1>7, <2>1, <2>2, <2>3, <2>4 DEF Failing
<1> QED
  BY <1>1, <1>2, <1>3, <1>4, <1>5, <1>6, <1>7, StepKinds DEF SessionsInv

-----------------------------------------------------------------------------
(* The invariant holds *)

\* At first there is no session, no lease and no keeper.
LEMMA InitEstablishes == Init => IInv
<1> SUFFICES ASSUME Init PROVE IInv
  OBVIOUS
<1>c. /\ 0 \notin Sessions /\ None \notin Clients /\ 0 \in 0 .. MaxSession
      /\ MaxFaults \in Nat /\ GlobalDsp \in Nat /\ NativeImage \in Nat
  BY AdmissionAssumption DEF Sessions
<1> USE <1>c DEF Init
<1>1. TypeOK
  <2>1. /\ worker \in [Clients -> Workers] /\ keeper \in [Setups -> Keepers]
        /\ proc \in [Sessions -> Procs]
    BY DEF Workers, Places, Idle, Keepers, NoKeeper, Procs, Stages, NoProc
  <2>2. generation \in [Sessions -> 0 .. MaxFaults + 1] /\ boot \in 1 .. MaxFaults + 1
        /\ faults \in 0 .. MaxFaults
    OBVIOUS
  <2> QED
    BY <2>1, <2>2 DEF TypeOK, Workers, Keepers, Procs
<1>2. BootInv /\ ProcInv
  BY DEF BootInv, ProcInv, Consistent, Active, Alive, NoProc
<1>3. SessionInv /\ UnstartedInv /\ LockInv /\ DownInv
  BY DEF SessionInv, UnstartedInv, LockInv, DownInv, Before, Unstarted, Idle
<1>4. LeaseInv /\ BlockedInv /\ HeldInv
  BY DEF LeaseInv, BlockedInv, HeldInv, Alone
<1>5. RecordInv /\ KeeperInv /\ KeeperKept
  BY DEF RecordInv, Recorded, KeeperInv, KeeperOf, KeeperKept, NoKeeper
<1>6. Watched
  BY DEF Watched
<1>7. CeilingInv
  <2>1. Owners("dsp") = {} /\ \A k \in Classes : InstancesOf(k) = {}
    BY DEF Owners, InstancesOf
  <2>2. \A c \in Clients : worker[c].at # "publish"
    BY DEF Idle
  <2> QED
    BY <2>1, <2>2, FS_EmptySet DEF CeilingInv
<1> QED
  BY <1>1, <1>2, <1>3, <1>4, <1>5, <1>6, <1>7 DEF IInv, SessionsInv

\* Every step of a worker, an operator, a supervisor, the DAW or a fault keeps the invariant.
LEMMA NextPreserves == ASSUME IInv, Next PROVE IInv'
<1> USE DEF IInv
<1>1. TypeOK'
  <2>1. /\ worker' \in [Clients -> Workers] /\ keeper' \in [Setups -> Keepers]
        /\ proc' \in [Sessions -> Procs]
    BY WorkersTyped, KeepersTyped, ProcsTyped
  <2>2. SessionTypes'
    BY SessionsTyped
  <2>3. PlainTypes'
    BY PlainTyped
  <2> QED
    BY <2>1, <2>2, <2>3 DEF TypeOK, Workers, Keepers, Procs, PlainTypes, SessionTypes
<1>2. SessionsInv'
  <2>1. BootInv' /\ ProcInv' /\ SessionInv' /\ UnstartedInv'
    BY PlainTyped, ProcKept, SessionKept, UnstartedKept
  <2>2. LockInv' /\ LeaseInv' /\ BlockedInv' /\ RecordInv'
    BY LockKept, LeaseKept, BlockedKept, RecordKept
  <2>3. KeeperInv' /\ HeldInv' /\ DownInv' /\ KeeperKept' /\ Watched'
    BY KeeperUnique, HeldKept, DownKept, KeeperKeptStep, LeasesWatched
  <2> QED
    BY <2>1, <2>2, <2>3 DEF SessionsInv
<1>3. CeilingInv'
  BY CeilingKept
<1> QED
  BY <1>1, <1>2, <1>3

\* Without a step nothing changes.
LEMMA StutterPreserves == ASSUME IInv, UNCHANGED vars PROVE IInv'
<1> USE DEF vars
<1>1. TypeOK'
  BY DEF IInv, TypeOK
<1>2. BootInv' /\ ProcInv' /\ SessionInv' /\ UnstartedInv' /\ LockInv' /\ DownInv'
  BY DEF IInv, SessionsInv, BootInv, ProcInv, Consistent, Active, Alive, SessionInv, UnstartedInv,
         LockInv, DownInv
<1>3. LeaseInv' /\ BlockedInv' /\ HeldInv' /\ RecordInv' /\ KeeperInv'
  BY DEF IInv, SessionsInv, LeaseInv, BlockedInv, HeldInv, Alone, RecordInv, Recorded, KeeperInv,
         KeeperOf, InstanceOf, Active, Alive
<1>4. KeeperKept' /\ Watched'
  BY DEF IInv, SessionsInv, KeeperKept, Watched, LeasesIn
<1>5. CeilingInv'
  BY DEF IInv, CeilingInv, Owners, InstancesOf
<1> QED
  BY <1>1, <1>2, <1>3, <1>4, <1>5 DEF IInv, SessionsInv

\* The inductive invariant holds in every reachable state.
LEMMA Invariance == Spec => []IInv
<1>1. Init => IInv
  BY InitEstablishes
<1>2. IInv /\ [Next]_vars => IInv'
  BY NextPreserves, StutterPreserves
<1> QED
  BY <1>1, <1>2, PTL DEF Spec

-----------------------------------------------------------------------------
(* Theorems *)

\* Every lease has someone who can release it (runtime/leases against the worker threads, the
\* keeper records and AdmissionCleanup), after any refusal, kill, crash or restart.
THEOREM LeaseHasOwner == Spec => []NoOrphanLease
<1>1. IInv => NoOrphanLease
  BY DEF IInv, SessionsInv, Watched, NoOrphanLease
<1> QED
  BY <1>1, Invariance, PTL

\* A keeper is asked to retire only in a setup without plug-in instances (retire_idle_keepers,
\* stage_keeper and retire_vendor_keeper against the admissions that publish leases).
THEOREM KeeperIsKept == Spec => []KeeperKept
<1>1. IInv => KeeperKept
  BY DEF IInv, SessionsInv
<1> QED
  BY <1>1, Invariance, PTL

\* One setup's Wine session never has two keepers, however keepers fail and are replaced.
THEOREM KeeperIsUnique == Spec => []OneKeeper
<1>1. IInv => OneKeeper
  <2> SUFFICES ASSUME IInv, NEW e \in Setups
               PROVE  Cardinality({s \in Sessions :
                          /\ spec[s] # None /\ spec[s].kind = "keeper" /\ spec[s].setup = e
                          /\ (Alive(s) \/ proc[s].host)}) <= 1
    BY DEF OneKeeper
  <2> DEFINE K == {s \in Sessions :
                    /\ spec[s] # None /\ spec[s].kind = "keeper" /\ spec[s].setup = e
                    /\ (Alive(s) \/ proc[s].host)}
  <2>1. \A s, t \in K : s = t
    BY DEF IInv, SessionsInv, KeeperInv, KeeperOf, Active
  <2> HIDE DEF K
  <2>2. ASSUME K = {} PROVE Cardinality(K) <= 1
    BY <2>2, FS_EmptySet
  <2>3. ASSUME K # {} PROVE Cardinality(K) <= 1
    <3>1. PICK s \in K : K = {s}
      BY <2>1, <2>3
    <3>2. Cardinality({s}) = 1
      BY FS_Singleton
    <3> QED
      BY <3>1, <3>2
  <2>4. Cardinality(K) <= 1
    BY <2>2, <2>3
  <2> QED
    BY <2>4 DEF K
<1> QED
  BY <1>1, Invariance, PTL

\* An operator that was told its setup is free works in it alone (maintenance::acquire).
THEOREM MaintenanceIsExclusive == Spec => []MaintenanceExclusive
<1>1. IInv => MaintenanceExclusive
  <2> SUFFICES ASSUME IInv, NEW e \in Setups, held[e] = "exclusive", NEW s \in Sessions,
                      spec[s] # None, spec[s].setup = e, spec[s].kind # "inspection"
               PROVE  ~Alive(s) /\ ~proc[s].host
    BY DEF MaintenanceExclusive
  <2>1. spec[s].kind \in {"dsp", "keeper"}
    BY DEF IInv, TypeOK, Specs
  <2>2. s \notin lease
    BY <2>1 DEF IInv, SessionsInv, HeldInv, Alone, InstanceOf, KeeperOf
  <2> QED
    BY <2>2 DEF IInv, SessionsInv, LeaseInv, Active
<1> QED
  BY <1>1, Invariance, PTL

\* The Windows hosts that really run stay within the ceilings that capacity.rs checks on the
\* leases alone, for the whole service and for every class.
THEOREM HostsStayWithinCeiling == Spec => []HostsWithinCeiling
<1>1. IInv => HostsWithinCeiling
  <2> SUFFICES ASSUME IInv PROVE HostsWithinCeiling
    OBVIOUS
  <2>1. Hosting("dsp") \subseteq Owners("dsp") /\ Owners("dsp") \subseteq Sessions
    BY DEF IInv, SessionsInv, LeaseInv, Active, Hosting, Owners, TypeOK
  <2>2. Cardinality(Hosting("dsp")) <= Cardinality(Owners("dsp"))
    BY <2>1, SessionsCounted
  <2>3. Cardinality(Hosting("dsp")) \in Nat /\ Cardinality(Owners("dsp")) \in Nat
    BY <2>1, SessionsCounted
  <2>4. Cardinality(Hosting("dsp")) <= GlobalDsp
    BY <2>2, <2>3, AdmissionAssumption DEF IInv, CeilingInv
  <2>5. ASSUME NEW k \in Classes
        PROVE  Cardinality({s \in Hosting("dsp") : spec[s].class = k}) <= NativeImage
    <3> DEFINE H == {s \in Hosting("dsp") : spec[s].class = k}
    <3>1. H \subseteq InstancesOf(k) /\ InstancesOf(k) \subseteq Sessions /\ H \subseteq Sessions
      BY <2>1 DEF InstancesOf
    <3> HIDE DEF H
    <3>2. Cardinality(H) <= Cardinality(InstancesOf(k))
      BY <3>1, SessionsCounted
    <3>3. Cardinality(H) \in Nat /\ Cardinality(InstancesOf(k)) \in Nat
      BY <3>1, SessionsCounted
    <3>4. Cardinality(H) <= NativeImage
      BY <3>2, <3>3, AdmissionAssumption DEF IInv, CeilingInv
    <3> QED
      BY <3>4 DEF H
  <2> QED
    BY <2>4, <2>5 DEF HostsWithinCeiling
<1> QED
  BY <1>1, Invariance, PTL

=============================================================================
