---------------------------- MODULE Publication ----------------------------
(***************************************************************************)
(* The manager's publication of one plug-in class: the discovery link a    *)
(* DAW scans, the registry entry beside it, and the transaction (intent,   *)
(* immutable candidate revision, link exchange, registry commit, result)   *)
(* that moves both from one revision to another.                           *)
(*                                                                         *)
(* crates/service/src/publication.rs and the register, unpublish,          *)
(* reconcile and resolve parts of crates/service/src/lib.rs.               *)
(*                                                                         *)
(* Every operation runs under registry.lock in one process, and any number *)
(* of processes may try.  A managed publication drops the lock while it    *)
(* copies its candidate.  A process may die between any two durable steps; *)
(* a power failure also loses the link changes that were not synced yet.   *)
(* The user may change the link at any time, without any lock.             *)
(*                                                                         *)
(* Abstractions: one class (the other classes of the registry are one      *)
(* counter, sibling); a revision and the target path of its bundle are one *)
(* number, the number of the transaction that made it; profile, census and *)
(* performance checks are a refusal that may happen (PlanRefused); the     *)
(* private staging directory of a candidate is invisible until its rename. *)
(***************************************************************************)
EXTENDS Integers, FiniteSets

CONSTANTS
    Process,         \* processes that run manager operations
    None,            \* absent link, absent intent, free lock
    Foreign,         \* a symbolic link of the user that is not a managed target
    Alien,           \* an entry of the user that is not a symbolic link
    MaxTransactions, \* bound: transactions (random identities) ever begun
    MaxCrashes,      \* bound: deaths of one process in the middle of a call
    MaxPowerFailures, \* bound: power failures, which end every process
    MaxMeddling,     \* bound: changes of the link by the user
    MaxDamage,       \* bound: retained bundles whose bytes change
    MaxSibling       \* bound: commits of transactions of other classes

ASSUME PublicationConstants ==
    /\ {MaxTransactions, MaxCrashes, MaxPowerFailures, MaxMeddling, MaxDamage,
        MaxSibling} \subseteq Nat
    /\ None \notin Process \cup Nat \cup {Foreign, Alien}
    /\ Foreign # Alien
    /\ {Foreign, Alien} \cap Nat = {}

Transactions == 1 .. MaxTransactions

\* The bundle register publishes, and the revision adopt_prior retains for it.
Legacy == 0

Revisions == {Legacy} \cup Transactions

\* What physical reads at a link; it fails on an Alien entry.
Targets == Revisions \cup {None, Foreign}

Entries == [state : {"absent", "pending", "published", "removed"},
            rev : Revisions \cup {None}, managed : BOOLEAN]

Absent == [state |-> "absent", rev |-> None, managed |-> FALSE]

Entry(state, rev, managed) == [state |-> state, rev |-> rev, managed |-> managed]

\* entry is the prior registry entry, target the link it had, candidate the
\* revision the transaction activates (None: it takes the link away).
Intents == [id : Transactions, entry : Entries, target : Revisions \cup {None},
            candidate : Revisions \cup {None}]

Outcomes == {"none", "committed", "aborted"}

Operations == {"publish", "managed", "rollback", "unpublish", "reconcile", "register"}

VARIABLES
    registry,    \* registry.json: the class's entry, and the sibling classes
    pending,     \* transactions/<class>.pending.json
    archived,    \* transactions/<id>.json that exist
    results,     \* transactions/<id>.result.json
    recoveries,  \* transactions/<id>.recovery.json
    retained,    \* revisions whose record and bundle are complete
    lineage,     \* the ancestors of each revision, along Revision::parent
    damaged,     \* revisions whose native image no longer verifies
    link,        \* the discovery link of the class
    temp,        \* .lvb-<id> of the last transaction that wrote its intent
    survivable,  \* the link directories a power failure may leave behind
    lock,        \* holder of registry.lock
    pc,          \* where each process is
    mem,         \* operation and local state of each process
    resolved,    \* entry an admission resolved before it took the lock
    leased,      \* a DSP host of the class holds its lease
    activated,   \* transactions that moved the link (auxiliary)
    undone,      \* a power failure took back what no intent records (auxiliary)
    next,        \* the next unused transaction identity
    budget       \* what is left of each bounded environment event

files == <<archived, results, recoveries>>
history == <<retained, lineage>>
directory == <<link, temp, survivable>>
lease == <<resolved, leased>>
process == <<lock, pc, mem>>
durable == <<registry, pending, files, history, directory>>
bounds == <<activated, undone, next, budget>>
vars == <<durable, damaged, process, lease, bounds>>

-----------------------------------------------------------------------------
(* State predicates the operations share.                                  *)

TargetOf(entry) == IF entry.state = "published" THEN entry.rev ELSE None

\* load_revision: record, provenance and bytes of the bundle verify.
Loadable(r) == r \in retained \ damaged

\* require_inactive, called under registry.lock.
Inactive == ~leased

At(p, label) == pc[p] = label
Goto(p, label) == pc' = [pc EXCEPT ![p] = label]

Idle == [op |-> "none", expected |-> None, intent |-> None,
         db |-> [entry |-> Absent, sibling |-> 0], outcome |-> "none", own |-> FALSE]

\* The call returns, with or without an error.  No error path undoes what the
\* call did, and the lock is dropped with its guard.
Return(p) ==
    /\ Goto(p, "idle")
    /\ lock' = IF lock = p THEN None ELSE lock
    /\ mem' = [mem EXCEPT ![p] = Idle]

\* Next step of the same call, which keeps the lock and its local state.
Step(p, label) == Goto(p, label) /\ UNCHANGED <<lock, mem>>

\* A change of the link directory that is visible but not synced yet.
Relink(l, t) ==
    /\ link' = l
    /\ temp' = t
    /\ survivable' = survivable \cup {[link |-> l, temp |-> t]}

\* The same, followed by the sync of the directory.
RelinkSynced(l, t) ==
    /\ link' = l
    /\ temp' = t
    /\ survivable' = {[link |-> l, temp |-> t]}

Init ==
    /\ registry = [entry |-> Absent, sibling |-> 0]
    /\ pending = None
    /\ archived = {}
    /\ results = [t \in Transactions |-> "none"]
    /\ recoveries = [t \in Transactions |-> "none"]
    /\ retained = {}
    /\ lineage = [r \in Revisions |-> {}]
    /\ damaged = {}
    /\ link = None
    /\ temp = None
    /\ survivable = {[link |-> None, temp |-> None]}
    /\ lock = None
    /\ pc = [p \in Process |-> "idle"]
    /\ mem = [p \in Process |-> Idle]
    /\ resolved = Absent
    /\ leased = FALSE
    /\ activated = {}
    /\ undone = FALSE
    /\ next = 1
    /\ budget = [crash |-> MaxCrashes, power |-> MaxPowerFailures, meddle |-> MaxMeddling,
                 damage |-> MaxDamage, sibling |-> MaxSibling]

-----------------------------------------------------------------------------
(* Taking the lock.  A call whose first checks refuse changes nothing.     *)

Acquire(p, op, expected, label) ==
    /\ At(p, "idle")
    /\ lock = None
    /\ lock' = p
    /\ mem' = [mem EXCEPT ![p] = [Idle EXCEPT !.op = op, !.expected = expected,
                                              !.db = registry]]
    /\ Goto(p, label)
    /\ UNCHANGED <<durable, damaged, lease, bounds>>

\* publish_with_expected_registry, up to the recovery of what is pending.
BeginPublish(p) ==
    /\ Inactive
    /\ \E op \in {"publish", "managed"}, expected \in Revisions \cup {None} :
          /\ expected # None =>
                /\ registry.entry = Entry("published", expected, TRUE)
                /\ pending = None
                /\ Loadable(expected)
                /\ link = expected
          /\ Acquire(p, op, expected, "recover")

\* rollback_with_scope: expected is compared after the recovery.
BeginRollback(p) ==
    /\ Inactive
    /\ \E expected \in Revisions \cup {None} : Acquire(p, "rollback", expected, "recover")

\* unpublish_scoped: expected is compared with the registry before the recovery,
\* and an entry without a managed revision is taken out without a transaction.
BeginUnpublish(p) ==
    /\ Inactive
    /\ \E expected \in Revisions \cup {None} :
          /\ expected # None => registry.entry.managed /\ registry.entry.rev = expected
          /\ registry.entry # Absent
          /\ Acquire(p, "unpublish", expected,
                     IF registry.entry.managed THEN "recover" ELSE "unlink_check")

BeginReconcile(p) == Acquire(p, "reconcile", None, "recover")

\* register refuses an entry that already has a managed revision, and nothing else.
BeginRegister(p) ==
    /\ ~registry.entry.managed
    /\ Acquire(p, "register", None, "register")

-----------------------------------------------------------------------------
(* reconcile_revisions: the durable intent and the physical link decide.   *)

\* The local copy of the intent and the outcome finish is called with.
Decide(p, outcome, label) ==
    /\ mem' = [mem EXCEPT ![p].intent = pending, ![p].outcome = outcome]
    /\ Goto(p, label)
    /\ UNCHANGED lock

RecoverNothing(p) ==
    /\ At(p, "recover")
    /\ pending = None
    /\ Step(p, "plan")
    /\ UNCHANGED <<durable, damaged, lease, bounds>>

PriorActive(i) == link = i.target
RecoverAbort(p) ==
    /\ At(p, "recover")
    /\ pending # None
    /\ pending.id \in archived
    /\ PriorActive(pending)
    /\ Decide(p, "aborted", "save")
    /\ UNCHANGED <<durable, damaged, lease, bounds>>

RecoverCommit(p) ==
    /\ At(p, "recover")
    /\ pending # None
    /\ pending.id \in archived
    /\ ~PriorActive(pending)
    /\ link = pending.candidate
    /\ pending.candidate # None => Loadable(pending.candidate)
    /\ Decide(p, "committed", "save")
    /\ UNCHANGED <<durable, damaged, lease, bounds>>

\* The activated candidate no longer verifies: put the retained prior back.
RecoverRestore(p) ==
    /\ At(p, "recover")
    /\ pending # None
    /\ pending.id \in archived
    /\ ~PriorActive(pending)
    /\ link = pending.candidate
    /\ pending.candidate # None /\ ~Loadable(pending.candidate)
    /\ Inactive
    /\ pending.entry # Absent => Loadable(pending.entry.rev)
    /\ Decide(p, "aborted", "restore")
    /\ UNCHANGED <<durable, damaged, lease, bounds>>

\* foreign_publication, a changed intent, an active device, a damaged prior.
RecoverRefuse(p) ==
    /\ At(p, "recover")
    /\ pending # None
    /\ \/ pending.id \notin archived
       \/ link \notin {pending.target, pending.candidate}
       \/ /\ ~PriorActive(pending)
          /\ pending.candidate # None /\ ~Loadable(pending.candidate)
          /\ leased \/ (pending.entry # Absent /\ ~Loadable(pending.entry.rev))
    /\ Return(p)
    /\ UNCHANGED <<durable, damaged, lease, bounds>>

\* Mutant of RestoreStage: the name must be free, as it is for activate.
RestoreStageFree(p) ==
    /\ At(p, "restore")
    /\ \/ /\ temp = None
          /\ RelinkSynced(link, mem[p].intent.target)
          /\ Step(p, "restore_swap")
       \/ temp # None /\ Return(p) /\ UNCHANGED directory
    /\ UNCHANGED <<registry, pending, files, history, damaged, lease, bounds>>

RestoreStage(p) ==
    /\ At(p, "restore")
    /\ LET prior == mem[p].intent.target
       IN  \/ temp = prior /\ Step(p, "restore_swap") /\ UNCHANGED directory
           \/ /\ prior # None /\ temp = None
              /\ RelinkSynced(link, prior)
              /\ Step(p, "restore_swap")
           \/ temp \notin {None, prior} /\ Return(p) /\ UNCHANGED directory
    /\ UNCHANGED <<registry, pending, files, history, damaged, lease, bounds>>

\* Exchange with the staged prior, or move the link away; neither overwrites.
RestoreSwap(p) ==
    /\ At(p, "restore_swap")
    /\ IF link # None
       THEN Relink(temp, link) /\ Step(p, "restore_sync")
       ELSE Return(p) /\ UNCHANGED directory
    /\ UNCHANGED <<registry, pending, files, history, damaged, lease, bounds>>

RestoreSync(p) ==
    /\ At(p, "restore_sync")
    /\ RelinkSynced(link, temp)
    /\ Step(p, "save")
    /\ UNCHANGED <<registry, pending, files, history, damaged, lease, bounds>>

-----------------------------------------------------------------------------
(* finish: registry, result, temporary pointer, pending intent, in order.  *)

Finished(i, outcome) ==
    IF outcome = "aborted" THEN i.entry
    ELSE IF i.candidate # None THEN Entry("published", i.candidate, TRUE)
    ELSE Entry("removed", i.entry.rev, TRUE)

\* save writes the whole registry the call holds in memory.
FinishSave(p) ==
    /\ At(p, "save")
    /\ LET m == mem[p]
           db == [m.db EXCEPT !.entry = Finished(m.intent, m.outcome)]
       IN  IF m.outcome = "committed" /\ m.intent.candidate # None
                 /\ ~Loadable(m.intent.candidate)
           THEN Return(p) /\ UNCHANGED registry
           ELSE /\ registry' = db
                /\ mem' = [mem EXCEPT ![p].db = db]
                /\ Goto(p, "result")
                /\ UNCHANGED lock
    /\ UNCHANGED <<pending, files, history, directory, damaged, lease, bounds>>

\* The first result is kept; a recovery that decides otherwise is recorded apart.
FinishResult(p) ==
    /\ At(p, "result")
    /\ LET id == mem[p].intent.id
           outcome == mem[p].outcome
       IN  \/ /\ results[id] \in {"none", outcome}
              /\ results' = [results EXCEPT ![id] = outcome]
              /\ Step(p, "clear_temp")
              /\ UNCHANGED recoveries
           \/ /\ results[id] \notin {"none", outcome}
              /\ recoveries[id] \in {"none", outcome}
              /\ recoveries' = [recoveries EXCEPT ![id] = outcome]
              /\ Step(p, "clear_temp")
              /\ UNCHANGED results
    /\ UNCHANGED <<registry, pending, archived, history, directory, damaged, lease, bounds>>

\* Mutant of FinishClearTemp: the temporary name is removed unread.
FinishClearTempBlind(p) ==
    /\ At(p, "clear_temp")
    /\ RelinkSynced(link, None)
    /\ Step(p, "clear_pending")
    /\ UNCHANGED <<registry, pending, files, history, damaged, lease, bounds>>

\* Mutant of FinishClearTemp: an unknown pointer is left, and the call goes on.
FinishClearTempLenient(p) ==
    /\ At(p, "clear_temp")
    /\ IF temp \in {mem[p].intent.target, mem[p].intent.candidate}
       THEN RelinkSynced(link, None)
       ELSE UNCHANGED directory
    /\ Step(p, "clear_pending")
    /\ UNCHANGED <<registry, pending, files, history, damaged, lease, bounds>>

\* foreign_transaction_pointer: what is not this transaction's is left there.
FinishClearTemp(p) ==
    /\ At(p, "clear_temp")
    /\ \/ temp = None /\ Step(p, "clear_pending") /\ UNCHANGED directory
       \/ /\ temp \in {mem[p].intent.target, mem[p].intent.candidate} \ {None}
          /\ RelinkSynced(link, None)
          /\ Step(p, "clear_pending")
       \/ /\ temp \notin {None, mem[p].intent.target, mem[p].intent.candidate}
          /\ Return(p)
          /\ UNCHANGED directory
    /\ UNCHANGED <<registry, pending, files, history, damaged, lease, bounds>>

FinishClearPending(p) ==
    /\ At(p, "clear_pending")
    /\ pending' = None
    /\ IF mem[p].own
       THEN Return(p)
       ELSE /\ mem' = [mem EXCEPT ![p].intent = None, ![p].outcome = "none"]
            /\ Goto(p, "plan")
            /\ UNCHANGED lock
    /\ UNCHANGED <<registry, files, history, directory, damaged, lease, bounds>>

-----------------------------------------------------------------------------
(* The operation itself, once nothing is pending.                          *)

\* adopt_prior: the link agrees with the entry, and the prior loads.  A legacy
\* entry is retained as a revision; an interrupted registration is refused.
Adoptable(entry) ==
    /\ entry.state # "pending"
    /\ link = TargetOf(entry)
    /\ entry.rev \notin damaged
    /\ entry.managed => entry.rev \in retained

Adopted(entry) == IF entry = Absent \/ entry.managed THEN {} ELSE {Legacy}

NewIntent(entry, candidate) ==
    [id |-> next, entry |-> entry, target |-> TargetOf(entry), candidate |-> candidate]

\* The intent of this call; every transaction has a fresh identity.
Plan(p, candidate, label) ==
    LET entry == mem[p].db.entry
    IN  /\ next \in Transactions
        /\ Adoptable(entry)
        /\ retained' = retained \cup Adopted(entry)
        /\ mem' = [mem EXCEPT ![p].intent = NewIntent(entry, candidate), ![p].own = TRUE]
        /\ next' = next + 1
        /\ Goto(p, label)
        /\ UNCHANGED <<registry, pending, files, lineage, directory, damaged, lease,
                       activated, undone, budget>>

PlanPublish(p) ==
    /\ At(p, "plan")
    /\ mem[p].op = "publish"
    /\ Plan(p, next, "archive")
    /\ UNCHANGED lock

\* A managed publication drops the lock for the copy of its candidate.
PlanManaged(p) ==
    /\ At(p, "plan")
    /\ mem[p].op = "managed"
    /\ Plan(p, next, "copy")
    /\ lock' = None

\* Mutant of PlanRollback: expected was compared before the recovery only.
PlanRollbackStale(p) ==
    /\ At(p, "plan")
    /\ mem[p].op = "rollback"
    /\ LET entry == mem[p].db.entry
       IN  /\ entry.managed
           /\ \E r \in {entry.rev} \cup lineage[entry.rev] :
                 /\ Loadable(r)
                 /\ entry # Entry("published", r, TRUE)
                 /\ Plan(p, r, "archive")
    /\ UNCHANGED lock

\* A rollback selects the current revision or one of its ancestors.
PlanRollback(p) ==
    /\ At(p, "plan")
    /\ mem[p].op = "rollback"
    /\ LET entry == mem[p].db.entry
       IN  /\ entry.managed
           /\ mem[p].expected \in {None, entry.rev}
           /\ \E r \in {entry.rev} \cup lineage[entry.rev] :
                 /\ Loadable(r)
                 /\ entry # Entry("published", r, TRUE)
                 /\ Plan(p, r, "archive")
    /\ UNCHANGED lock

PlanUnpublish(p) ==
    /\ At(p, "plan")
    /\ mem[p].op = "unpublish"
    /\ mem[p].db.entry.managed
    /\ mem[p].db.entry.state = "published"
    /\ Plan(p, None, "archive")
    /\ UNCHANGED lock

\* reconcile_admitted completes a registration that was interrupted.
PlanReconcile(p) ==
    /\ At(p, "plan")
    /\ mem[p].op = "reconcile"
    /\ mem[p].db.entry.state = "pending"
    /\ Step(p, "bundle")
    /\ UNCHANGED <<durable, damaged, lease, bounds>>

\* Nothing to do, a failed check of profile, census or performance, or the
\* publication already is what was asked for.
PlanRefused(p) ==
    /\ At(p, "plan")
    /\ mem[p].op = "reconcile" => mem[p].db.entry.state # "pending"
    /\ Return(p)
    /\ UNCHANGED <<durable, damaged, lease, bounds>>
\* make_candidate: one rename shows the complete bundle and its record.
MakeCandidate(p) ==
    LET i == mem[p].intent
    IN  /\ retained' = retained \cup {i.candidate}
        /\ lineage' = [lineage EXCEPT ![i.candidate] =
                IF i.entry = Absent THEN {} ELSE {i.entry.rev} \cup lineage[i.entry.rev]]
        /\ UNCHANGED <<registry, pending, files, directory, damaged, lease, bounds>>

CopyCandidate(p) ==
    /\ At(p, "copy")
    /\ MakeCandidate(p)
    /\ Step(p, "reacquire")

\* Mutant of Unchanged: inactive when planned, and not asked again.
UnchangedButLeased(p) ==
    /\ registry = mem[p].db
    /\ pending = None
    /\ link = mem[p].intent.target

\* Mutant of Unchanged: the link speaks for the registry.
UnchangedLink(p) ==
    /\ Inactive
    /\ pending = None
    /\ link = mem[p].intent.target

\* Under the lock again: nothing the plan was made from may have changed.
Unchanged(p) ==
    /\ Inactive
    /\ registry = mem[p].db
    /\ pending = None
    /\ link = mem[p].intent.target

Reacquire(p) ==
    /\ At(p, "reacquire")
    /\ lock = None
    /\ IF Unchanged(p)
       THEN lock' = p /\ Goto(p, "archive") /\ UNCHANGED mem
       ELSE Return(p)
    /\ UNCHANGED <<durable, damaged, lease, bounds>>

\* Another call holds the lock, and this one does not wait.
ReacquireBusy(p) ==
    /\ At(p, "reacquire")
    /\ lock # None
    /\ Return(p)
    /\ UNCHANGED <<durable, damaged, lease, bounds>>

\* write_intent: the archived copy first, then the pending one.
ArchiveIntent(p) ==
    /\ At(p, "archive")
    /\ archived' = archived \cup {mem[p].intent.id}
    /\ Step(p, "intent")
    /\ UNCHANGED <<registry, pending, results, recoveries, history, directory, damaged,
                   lease, bounds>>

\* From here temp stands for the temporary name of this transaction, which is
\* free: the identity is fresh.
FreshName ==
    /\ temp' = None
    /\ survivable' = {[d EXCEPT !.temp = None] : d \in survivable}
    /\ UNCHANGED link

\* Mutant of WriteIntent: the link is staged before the candidate is made.
WriteIntentThenStage(p) ==
    /\ At(p, "intent")
    /\ pending' = mem[p].intent
    /\ FreshName
    /\ Step(p, IF mem[p].op = "publish" THEN "stage" ELSE "check")
    /\ UNCHANGED <<registry, files, history, damaged, lease, bounds>>

WriteIntent(p) ==
    /\ At(p, "intent")
    /\ pending' = mem[p].intent
    /\ FreshName
    /\ Step(p, IF mem[p].op = "publish" THEN "create" ELSE "check")
    /\ UNCHANGED <<registry, files, history, damaged, lease, bounds>>

CreateCandidate(p) ==
    /\ At(p, "create")
    /\ MakeCandidate(p)
    /\ Step(p, "check")

-----------------------------------------------------------------------------
(* activate: the displaced link is checked after the exchange.             *)

ActivateCheck(p) ==
    /\ At(p, "check")
    /\ LET i == mem[p].intent
       IN  IF /\ link = i.target
              /\ i.candidate # None => Loadable(i.candidate)
              /\ temp = None
           THEN Step(p, IF i.candidate # None THEN "stage" ELSE "swap")
           ELSE Return(p)
    /\ UNCHANGED <<durable, damaged, lease, bounds>>

ActivateStage(p) ==
    /\ At(p, "stage")
    /\ RelinkSynced(link, mem[p].intent.candidate)
    /\ Step(p, "swap")
    /\ UNCHANGED <<registry, pending, files, history, damaged, lease, bounds>>

\* Exchange with a prior link, place where there was none, or move the link
\* away.  None of the three replaces what is there; each may fail.
Movable(i) ==
    IF i.candidate # None /\ i.target = None THEN link = None ELSE link # None

ActivateSwap(p) ==
    /\ At(p, "swap")
    /\ IF Movable(mem[p].intent)
       THEN /\ Relink(temp, link)
            /\ activated' = activated \cup {mem[p].intent.id}
            /\ Step(p, IF mem[p].intent.target = None THEN "sync" ELSE "verify")
       ELSE Return(p) /\ UNCHANGED <<directory, activated>>
    /\ UNCHANGED <<registry, pending, files, history, damaged, lease, undone, next, budget>>

\* physical fails on an entry that is no symbolic link, and the call returns.
ActivateVerify(p) ==
    /\ At(p, "verify")
    /\ IF temp = Alien THEN Return(p)
       ELSE Step(p, IF temp = mem[p].intent.target THEN "sync" ELSE "undo")
    /\ UNCHANGED <<durable, damaged, lease, bounds>>

\* foreign_publication_race: the same rename back, and an error.
ActivateUndo(p) ==
    /\ At(p, "undo")
    /\ IF (mem[p].intent.candidate # None) <=> (link # None)
       THEN RelinkSynced(temp, link)
       ELSE UNCHANGED directory
    /\ Return(p)
    /\ UNCHANGED <<registry, pending, files, history, damaged, lease, bounds>>

\* Mutant of ActivateSync: the exchange is not synced before the registry.
ActivateSyncOmitted(p) ==
    /\ At(p, "sync")
    /\ mem' = [mem EXCEPT ![p].outcome = "committed"]
    /\ Goto(p, "save")
    /\ UNCHANGED <<durable, damaged, lock, lease, bounds>>

ActivateSync(p) ==
    /\ At(p, "sync")
    /\ RelinkSynced(link, temp)
    /\ mem' = [mem EXCEPT ![p].outcome = "committed"]
    /\ Goto(p, "save")
    /\ UNCHANGED <<registry, pending, files, history, damaged, lock, lease, bounds>>

-----------------------------------------------------------------------------
(* The older operations, which keep no intent.                             *)

SaveEntry(p, entry) ==
    /\ registry' = [mem[p].db EXCEPT !.entry = entry]
    /\ mem' = [mem EXCEPT ![p].db.entry = entry]

RegisterSave(p) ==
    /\ At(p, "register")
    /\ SaveEntry(p, Entry("pending", Legacy, FALSE))
    /\ Goto(p, "bundle")
    /\ UNCHANGED <<pending, files, history, directory, damaged, lock, lease, bounds>>

\* publish_entry: an occupied name must already point at the bundle.
RegisterCheck(p) ==
    /\ At(p, "bundle")
    /\ \/ link = None /\ Step(p, "install")
       \/ link = Legacy /\ Step(p, "register_commit")
       \/ link \notin {None, Legacy} /\ Return(p)
    /\ UNCHANGED <<durable, damaged, lease, bounds>>

\* An ordinary rename: it replaces a link or a file that appeared meanwhile,
\* and fails on a directory.
RegisterInstall(p) ==
    /\ At(p, "install")
    /\ \/ RelinkSynced(Legacy, temp) /\ Step(p, "register_commit")
       \/ link = Alien /\ Return(p) /\ UNCHANGED directory
    /\ UNCHANGED <<registry, pending, files, history, damaged, lease, bounds>>

RegisterCommit(p) ==
    /\ At(p, "register_commit")
    /\ registry' = [mem[p].db EXCEPT !.entry = Entry("published", Legacy, FALSE)]
    /\ Return(p)
    /\ UNCHANGED <<pending, files, history, directory, damaged, lease, bounds>>

UnlinkCheck(p) ==
    /\ At(p, "unlink_check")
    /\ \/ link = None /\ Step(p, "mark_removed")
       \/ link = Legacy /\ Step(p, "unlink")
       \/ link \notin {None, Legacy} /\ Return(p)
    /\ UNCHANGED <<durable, damaged, lease, bounds>>

Unlink(p) ==
    /\ At(p, "unlink")
    /\ \/ link # None /\ RelinkSynced(None, temp) /\ Step(p, "mark_removed")
       \/ link \in {None, Alien} /\ Return(p) /\ UNCHANGED directory
    /\ UNCHANGED <<registry, pending, files, history, damaged, lease, bounds>>

MarkRemoved(p) ==
    /\ At(p, "mark_removed")
    /\ registry' = [mem[p].db EXCEPT !.entry.state = "removed"]
    /\ Return(p)
    /\ UNCHANGED <<pending, files, history, directory, damaged, lease, bounds>>

\* record_missing_publication_removed, whole: it checks and saves under the lock.
RecordMissing(p) ==
    /\ At(p, "idle")
    /\ lock = None
    /\ Inactive
    /\ pending = None
    /\ registry.entry.managed
    /\ registry.entry.state = "published"
    /\ link = None
    /\ registry' = [registry EXCEPT !.entry.state = "removed"]
    /\ UNCHANGED <<pending, files, history, directory, damaged, process, lease, bounds>>

-----------------------------------------------------------------------------
(* Admission of a DSP host, sibling classes, and the environment.          *)

\* resolve, without the lock.
Resolve ==
    /\ ~leased
    /\ pending = None
    /\ registry.entry.state = "published"
    /\ registry.entry.managed => Loadable(registry.entry.rev)
    /\ link = registry.entry.rev
    /\ resolved' = registry.entry
    /\ UNCHANGED <<durable, damaged, process, leased, bounds>>

\* The lease is written under the lock, if the entry is still the resolved one.
Admit ==
    /\ lock = None
    /\ resolved # Absent
    /\ leased' = (registry.entry = resolved)
    /\ resolved' = Absent
    /\ UNCHANGED <<durable, damaged, process, bounds>>

Retire ==
    /\ leased
    /\ leased' = FALSE
    /\ UNCHANGED <<durable, damaged, process, resolved, bounds>>

\* A whole operation on another class, under the lock.
SiblingCommits ==
    /\ lock = None
    /\ budget.sibling > 0
    /\ registry' = [registry EXCEPT !.sibling = @ + 1]
    /\ budget' = [budget EXCEPT !.sibling = @ - 1]
    /\ UNCHANGED <<pending, files, history, directory, damaged, process, lease,
                   activated, undone, next>>

\* The user replaces, removes or creates the entry at the public name.
UserChangesLink ==
    /\ budget.meddle > 0
    /\ \E l \in {None, Foreign, Alien} \ {link} :
          /\ link' = l
          /\ survivable' = {[d EXCEPT !.link = l] : d \in survivable}
    /\ budget' = [budget EXCEPT !.meddle = @ - 1]
    /\ UNCHANGED <<registry, pending, files, history, temp, damaged, process, lease,
                   activated, undone, next>>

\* The native image of a retained revision changes on disk.
BundleDamaged ==
    /\ budget.damage > 0
    /\ \E r \in retained \ damaged : damaged' = damaged \cup {r}
    /\ budget' = [budget EXCEPT !.damage = @ - 1]
    /\ UNCHANGED <<durable, process, lease, activated, undone, next>>

\* A process dies, or an I/O error ends its call, between two durable steps.
Crash(p) ==
    /\ ~At(p, "idle")
    /\ budget.crash > 0
    /\ Return(p)
    /\ budget' = [budget EXCEPT !.crash = @ - 1]
    /\ UNCHANGED <<durable, damaged, lease, activated, undone, next>>

\* What is left differs from what was visible, and no pending intent says so.
Undoes(d) ==
    /\ d # [link |-> link, temp |-> temp]
    /\ pending # None => d.link \notin {link, pending.target, pending.candidate}

\* Every process dies, and unsynced changes of the link directory may be lost.
PowerFails ==
    /\ budget.power > 0
    /\ \E d \in survivable :
          /\ link' = d.link
          /\ temp' = d.temp
          /\ survivable' = {d}
          /\ undone' = (undone \/ Undoes(d))
    /\ lock' = None
    /\ pc' = [p \in Process |-> "idle"]
    /\ mem' = [p \in Process |-> Idle]
    /\ resolved' = Absent
    /\ leased' = FALSE
    /\ budget' = [budget EXCEPT !.power = @ - 1]
    /\ UNCHANGED <<registry, pending, files, history, damaged, activated, next>>

-----------------------------------------------------------------------------

Begin(p) ==
    \/ BeginPublish(p) \/ BeginRollback(p) \/ BeginUnpublish(p)
    \/ BeginReconcile(p) \/ BeginRegister(p)

\* Steps a process takes by itself once its call has the lock.
Continue(p) ==
    \/ RecoverNothing(p) \/ RecoverAbort(p) \/ RecoverCommit(p) \/ RecoverRestore(p)
    \/ RecoverRefuse(p) \/ RestoreStage(p) \/ RestoreSwap(p) \/ RestoreSync(p)
    \/ FinishSave(p) \/ FinishResult(p) \/ FinishClearTemp(p) \/ FinishClearPending(p)
    \/ PlanPublish(p) \/ PlanManaged(p) \/ PlanRollback(p) \/ PlanUnpublish(p)
    \/ PlanReconcile(p) \/ PlanRefused(p)
    \/ CopyCandidate(p) \/ Reacquire(p) \/ ReacquireBusy(p) \/ ArchiveIntent(p) \/ WriteIntent(p)
    \/ CreateCandidate(p) \/ ActivateCheck(p) \/ ActivateStage(p) \/ ActivateSwap(p)
    \/ ActivateVerify(p) \/ ActivateUndo(p) \/ ActivateSync(p)
    \/ RegisterSave(p) \/ RegisterCheck(p) \/ RegisterInstall(p) \/ RegisterCommit(p)
    \/ UnlinkCheck(p) \/ Unlink(p) \/ MarkRemoved(p)

Environment ==
    \/ Resolve \/ Admit \/ Retire \/ SiblingCommits \/ UserChangesLink
    \/ BundleDamaged \/ PowerFails

Next ==
    \/ \E p \in Process : Begin(p) \/ Continue(p) \/ RecordMissing(p) \/ Crash(p)
    \/ Environment

Spec == Init /\ [][Next]_vars

-----------------------------------------------------------------------------

Labels == {"idle", "recover", "restore", "restore_swap", "restore_sync", "save", "result",
           "clear_temp", "clear_pending", "plan", "copy", "reacquire", "archive", "intent",
           "create", "check", "stage", "swap", "verify", "undo", "sync", "register",
           "bundle", "install", "register_commit", "unlink_check", "unlink", "mark_removed"}

Registries == [entry : Entries, sibling : 0 .. MaxSibling]

Calls == [op : Operations \cup {"none"}, expected : Revisions \cup {None},
          intent : Intents \cup {None}, db : Registries, outcome : Outcomes, own : BOOLEAN]

Links == Targets \cup {Alien}

\* Every variable of the publication has its type.
TypeOK ==
    /\ registry \in Registries
    /\ pending \in Intents \cup {None}
    /\ archived \subseteq Transactions
    /\ results \in [Transactions -> Outcomes]
    /\ recoveries \in [Transactions -> Outcomes]
    /\ retained \subseteq Revisions
    /\ lineage \in [Revisions -> SUBSET Revisions]
    /\ damaged \subseteq retained
    /\ link \in Links /\ temp \in Links
    /\ survivable \subseteq [link : Links, temp : Links]
    /\ lock \in Process \cup {None}
    /\ pc \in [Process -> Labels]
    /\ mem \in [Process -> Calls]
    /\ resolved \in Entries
    /\ leased \in BOOLEAN
    /\ activated \subseteq Transactions /\ undone \in BOOLEAN
    /\ next \in 1 .. MaxTransactions + 1
    /\ budget \in [crash : 0 .. MaxCrashes, power : 0 .. MaxPowerFailures,
                   meddle : 0 .. MaxMeddling, damage : 0 .. MaxDamage, sibling : 0 .. MaxSibling]

Meddled == budget.meddle < MaxMeddling
Died == budget.crash < MaxCrashes

\* The link never names a revision whose bundle and record are not complete, on
\* disk or in what a power failure would leave (make_candidate before activate).
LinkTargetRetained ==
    \A d \in survivable : d.link \in Transactions => d.link \in retained

\* A publication recorded as committed really was activated, so a candidate
\* abandoned before activation never counts as completed
\* (finish, verify_completed_publication).
CommittedWasActivated ==
    \A t \in retained \ {Legacy} : results[t] = "committed" => t \in activated

\* Whenever no intent is pending, whatever calls ran, died or lost power before,
\* the discovery link of a class with a managed revision is the one its registry
\* entry stands for, except for what the user put there, and no temporary
\* pointer is left (activate, finish, reconcile_revisions).  A power failure can
\* then take nothing back, unless a process has died: a recovery does not sync
\* what it finds, so that the link of a first publication may still be lost
\* (PublicationDurable).  Results tell the truth.
SettledAgreement ==
    /\ TypeOK /\ CommittedWasActivated
    /\ undone => Died \/ Meddled
    /\ pending = None =>
        /\ ~Died => survivable = {[link |-> link, temp |-> temp]}
        /\ \A d \in survivable : d.link \in {link, None}
        /\ ~undone =>
            /\ temp = None
            /\ registry.entry.managed =>
                  \/ link = TargetOf(registry.entry)
                  \/ Meddled /\ link \in {None, Foreign, Alien}

\* A pending intent over a managed prior can always be decided by the next
\* recovery: it was archived first, the link is the prior or the candidate, and
\* the temporary pointer is one of theirs, at every crash point and after every
\* power failure (reconcile_revisions, finish), and whatever the link then names
\* is complete.
RecoveryDecides ==
    /\ LinkTargetRetained
    /\ pending # None /\ pending.entry.managed /\ ~Meddled /\ ~undone =>
        /\ pending.id \in archived
        /\ link \in {pending.target, pending.candidate}
        /\ temp \in {None, pending.target, pending.candidate}

\* A rollback that names the publication it replaces replaces that one, also when
\* it first had to complete an interrupted transaction (rollback_with_scope).
ExactRollback ==
    \A p \in Process :
        mem[p].op = "rollback" /\ mem[p].own /\ mem[p].expected # None =>
            mem[p].intent.entry.rev = mem[p].expected

\* While a DSP host of the class holds its lease no manager call takes the link
\* away from the bundle it names: every call that may do so checks for leases
\* under the lock it then keeps, and a managed publication checks again.
ActiveLinkStable ==
    [][leased /\ leased' /\ ~UserChangesLink /\ link \in Revisions => link' = link]_vars

\* No call writes back a registry that lacks what a sibling committed meanwhile,
\* though a managed publication drops the lock between its read and its save.
NoLostUpdate == [][registry'.sibling >= registry.sibling]_registry

\* What the user put at the public name is never destroyed by a transaction: it
\* stays there or at the transaction's temporary name until the user takes it
\* away (activate, finish, reconcile_revisions).  A power failure may take back
\* the exchange and keep what the user did after it.
ForeignKept ==
    [][\A f \in {Foreign, Alien} :
          f \in {link, temp} /\ ~UserChangesLink /\ ~PowerFails
          /\ (\A p \in Process : ~RegisterInstall(p) /\ ~Unlink(p))
             => f \in {link', temp'}]_vars

\* lib.rs says of unpublish_exact that it removes one exact current publication.
\* It compares before it completes an interrupted transaction, so what it then
\* takes away may be another revision (unpublish_scoped, remove_revision).
ExactUnpublish ==
    \A p \in Process :
        mem[p].op = "unpublish" /\ mem[p].own /\ mem[p].expected # None =>
            mem[p].intent.entry.rev = mem[p].expected

\* bridge-manager's README says that publications remain durable at a machine
\* restart.  activate syncs the link directory before the registry is saved; a
\* recovery that finds the link of a first publication in place commits it
\* without (reconcile_revisions, finish), so that a power failure after it may
\* take back the link of a class the registry holds published, with no intent
\* left to say so.
PublicationDurable ==
    pending = None /\ registry.entry.managed /\ ~Meddled =>
        link = TargetOf(registry.entry)

-----------------------------------------------------------------------------
(* Recovery ends: a call that has begun goes on, hosts retire, and         *)
(* reconcile is called again whenever calls find the lock free.            *)

Fairness ==
    /\ WF_vars(Retire)
    /\ \A p \in Process : WF_vars(Continue(p)) /\ SF_vars(BeginReconcile(p))

LiveSpec == Spec /\ Fairness

\* An interrupted transaction over a managed prior is eventually completed or
\* aborted and its intent cleared, also when the recovery itself is interrupted
\* and the activated candidate is damaged, unless the prior revision is damaged
\* too and nothing intact is left to restore, or the link is no longer one of
\* the transaction's (reconcile_revisions, finish).
RecoveryEnds ==
    (pending # None /\ pending.entry.managed)
        ~> (pending = None \/ pending.entry.rev \in damaged \/ Meddled \/ undone)
=============================================================================
